----------------------------- MODULE MCBatchJob -----------------------------
(***************************************************************************)
(* Model checking of BatchJob: a batch with its script, one with a         *)
(* ConfigMap of the user's, and three the webhook refuses.                 *)
(***************************************************************************)
EXTENDS BatchJob

MCSpecs ==
    {[config |-> c, configMap |-> m, req |-> 1, limit |-> 1] : c \in BOOLEAN, m \in BOOLEAN}
    \cup {[config |-> TRUE, configMap |-> FALSE, req |-> 2, limit |-> 1]}
=============================================================================
