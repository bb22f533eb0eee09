----------------------------- MODULE MCEventSeries -----------------------------
(***************************************************************************)
(* Instance for TLC: events that happen once, daily without an end, or     *)
(* three times every other day, edited by two clients.                     *)
(***************************************************************************)
EXTENDS EventSeries, TLC

SomeRules == {[every |-> 1, count |-> 0, until |-> Far],
              [every |-> 2, count |-> 3, until |-> Far]}
RulesWithEnd == {[every |-> 1, count |-> 0, until |-> 6]}
SomeSlots == {2, 5}
ClientSymmetry == Permutations(Clients)
================================================================================
