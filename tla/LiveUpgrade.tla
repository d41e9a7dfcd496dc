---------------------------- MODULE LiveUpgrade -----------------------------
(***************************************************************************)
(* What a Hot Rod rolling upgrade promises: an upgrade ends with a newer   *)
(* version, a rollback with the version it began with, and neither loses   *)
(* an entry that was stored before it began.  Nothing is promised of the   *)
(* entries stored while it is in progress.                                 *)
(***************************************************************************)
EXTENDS Naturals

CONSTANTS
    Version,   \* the server versions, numbers in release order
    Entry      \* the entries that clients store

VARIABLES
    upgrading,  \* whether an upgrade is in progress
    version,    \* the version of the cluster, before the upgrade if there is one
    entries     \* the entries stored while no upgrade was in progress

vars == <<upgrading, version, entries>>

Init ==
    /\ upgrading = FALSE
    /\ version \in Version
    /\ entries = {}

Store(e) ==
    /\ ~upgrading
    /\ entries' = entries \cup {e}
    /\ UNCHANGED <<upgrading, version>>

Begin ==
    /\ ~upgrading
    /\ upgrading' = TRUE
    /\ UNCHANGED <<version, entries>>

Complete ==
    /\ upgrading
    /\ upgrading' = FALSE
    /\ version' \in {v \in Version : v > version}
    /\ UNCHANGED entries

Rollback ==
    /\ upgrading
    /\ upgrading' = FALSE
    /\ UNCHANGED <<version, entries>>

Next == (\E e \in Entry : Store(e)) \/ Begin \/ Complete \/ Rollback

Spec == Init /\ [][Next]_vars
=============================================================================
