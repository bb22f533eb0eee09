-------------------------------- MODULE Agenda --------------------------------
(***************************************************************************)
(* What the calendar promises about recurring events: a request changes    *)
(* the occurrences it is about and no other.  An entry is an occurrence    *)
(* that is shown: the series it belongs to, the slot it stands for and the *)
(* time it starts at.                                                      *)
(*                                                                         *)
(* Series without an end are looked at up to the instant Far; after a      *)
(* shift entries are compared up to Near only.  Of series that are torn    *)
(* nothing is promised, and they have no entries here.                     *)
(***************************************************************************)
EXTENDS Integers

CONSTANTS SeriesIds, Shifts, Near, Far

VARIABLES
    agenda,     \* the entries
    given,      \* how often each series has been given a rule
    torn        \* series of which nothing is promised any more

UpTo(entries) == {e \in entries : e.at < Near}
Of(id) == {e \in agenda : e.of = id}
From(id, slot) == {e \in Of(id) : e.at >= slot}
Others(id) == \A x \in SeriesIds \ {id} : given'[x] = given[x]

(* An entry goes with its series; if it had a time of its own it keeps it. *)
Shifted(e, by) ==
    [of |-> e.of, at |-> e.at + by, start |-> IF e.start = e.at THEN e.start + by ELSE e.start]

Init == agenda = {} /\ given = [id \in SeriesIds |-> 0] /\ torn = {}

Create(id) ==
    /\ Of(id) = {} /\ agenda \subseteq agenda' /\ Others(id)
    /\ \A e \in agenda' \ agenda : e.of = id /\ e.start = e.at

EditOne(e) ==
    /\ \E t \in 0 .. Far : agenda' = (agenda \ {e}) \cup {[e EXCEPT !.start = t]}
    /\ UNCHANGED given

CancelOne(e) == agenda' = agenda \ {e} /\ UNCHANGED given

(* From a slot on the entries form a new series, at the same times or at   *)
(* others by the same difference.                                          *)
EditFollowing(id, slot, new, by) ==
    /\ Of(new) = {} /\ Others(new) /\ given'[new] = given[id]
    /\ LET moved == {Shifted([e EXCEPT !.of = new], by) : e \in From(id, slot)}
           after == (agenda \ From(id, slot)) \cup moved
       IN  IF by = 0 THEN agenda' = after ELSE UpTo(agenda') = UpTo(after)

EditAll(id, by) ==
    /\ UpTo(agenda') = UpTo((agenda \ Of(id)) \cup {Shifted(e, by) : e \in Of(id)})
    /\ UNCHANGED given

CancelFollowing(id, slot) ==
    /\ agenda' = agenda \ From(id, slot)
    /\ Others(id) /\ given'[id] \in {0, given[id]}

(* A new rule says anew when the series takes place, all of it or from a   *)
(* slot on.                                                                *)
NewRule(id) ==
    /\ {e \in agenda' : e.of # id} = agenda \ Of(id)
    /\ Others(id) /\ given'[id] # given[id]

NewRuleFollowing(id, slot, new) ==
    /\ Of(new) = {} /\ {e \in agenda' : e.of # new} = agenda \ From(id, slot)
    /\ Others(new) /\ given'[new] # given[id]

(* Nothing is promised of these series any more: requests that overlap     *)
(* have written them, or one that is known not to take all along.          *)
Tear(ids) ==
    /\ torn' = torn \cup ids /\ agenda' = {e \in agenda : e.of \notin ids}
    /\ given' = [id \in SeriesIds |-> IF id \in ids THEN 0 ELSE given[id]]

(* It is so of the entries from a slot on, which become a series of their  *)
(* own; the earlier ones stay.                                             *)
LoseFollowing(id, slot, new) ==
    /\ Of(new) = {} /\ agenda' = agenda \ From(id, slot)
    /\ torn' = torn \cup {new} /\ UNCHANGED given

Step ==
    \/ \E id \in SeriesIds : Create(id) \/ NewRule(id)
    \/ \E e \in agenda : EditOne(e) \/ CancelOne(e)
    \/ \E id \in SeriesIds, by \in Shifts : EditAll(id, by)
    \/ \E id \in SeriesIds, slot \in 0 .. Far :
          \/ CancelFollowing(id, slot)
          \/ \E new \in SeriesIds \ {id} :
                \/ NewRuleFollowing(id, slot, new)
                \/ \E by \in Shifts \cup {0} : EditFollowing(id, slot, new, by)

Next ==
    \/ Step /\ UNCHANGED torn
    \/ \E ids \in SUBSET SeriesIds : Tear(ids)
    \/ \E id, new \in SeriesIds, slot \in 0 .. Far : LoseFollowing(id, slot, new)

Spec == Init /\ [][Next]_<<agenda, given, torn>>
================================================================================
