-------------------------- MODULE SyncedResources --------------------------
(***************************************************************************)
(* The custom resources of one kind as the API server stores them, and the *)
(* work queue of their controller: what controllerutil.CreateOrPatch does  *)
(* to them in updateCache, updateSchema and in the listeners. A changed    *)
(* spec raises the generation; every change of a resource reaches the      *)
(* controller's queue; a resource under deletion goes away with its        *)
(* finalizer.                                                              *)
(***************************************************************************)
EXTENDS Naturals

VARIABLES
    crs,  \* the resources that exist, by metadata.name
    queue \* the controller's work queue

Respec(c, spec) == [c EXCEPT !.spec = spec, !.gen = IF spec = c.spec THEN @ ELSE @ + 1]

Without(s) == [t \in DOMAIN crs \ {s} |-> crs[t]]
With(s, c) == [t \in DOMAIN crs \cup {s} |-> IF t = s THEN c ELSE crs[t]]

Stored(s, c) == IF c.deleted # "no" /\ ~c.finalizer THEN Without(s) ELSE With(s, c)

(* A merge patch carries no resourceVersion: it never conflicts.           *)
Patch(s, c) == crs' = Stored(s, c)

(* Nothing is sent, and nothing is queued, for no change.                  *)
Woken(s) == IF s \in DOMAIN crs /\ s \in DOMAIN crs' /\ crs[s] = crs'[s] THEN {} ELSE {s}

(* What a webhook may find when it lists the resources before one more is  *)
(* stored. It lists through an informer, not from the API server, and the  *)
(* informer may be behind on every resource that was created (fresh: as it *)
(* was created) or that went away since the queue was last served for it.  *)
Behind(fresh) == {s \in queue : s \in DOMAIN crs => s \in fresh}
InformerLists(fresh) == {(DOMAIN crs \ Behind(fresh)) \cup late : late \in SUBSET Behind(fresh)}
=============================================================================
