---------------------------- MODULE MCCacheSync ----------------------------
(***************************************************************************)
(* Model checking of CacheSync: two configurations the server changes into *)
(* each other at runtime and one it does not.                              *)
(***************************************************************************)
EXTENDS CacheSync

MCFamily == [c \in Configs |-> IF c = "b" THEN 2 ELSE 1]

S(template, named, strategy, refs) ==
    [template |-> template, named |-> named, strategy |-> strategy, refs |-> refs]
MCUserSpecs ==
    {S("a1", FALSE, "retain", FALSE), S("a2", FALSE, "recreate", TRUE), S("b", FALSE, "retain", FALSE),
     S("b", FALSE, "recreate", FALSE), S(NoConfig, TRUE, "retain", FALSE), S(NoConfig, FALSE, "retain", FALSE)}
=============================================================================
