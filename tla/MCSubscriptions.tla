---------------------------- MODULE MCSubscriptions ----------------------------
(***************************************************************************)
(* Small instances of Subscriptions: two items have the same UID.          *)
(***************************************************************************)
EXTENDS Subscriptions, TLC

CONSTANTS i1, i2, i3, i4

SameUid(i, j) == i = j \/ {i, j} = {i1, i2}
================================================================================
