---------------------------- MODULE MCCalendarSync ----------------------------
(***************************************************************************)
(* Small instances of CalendarSync: contents for the runs, and symmetry.   *)
(***************************************************************************)
EXTENDS CalendarSync, TLC

(* Single events that differ in their text only.                           *)
Single(t) == [BlankFields EXCEPT !.text = t]
Series(t) == [Single(t) EXCEPT !.rule = "dated"]
Short(t) == [Single(t) EXCEPT !.rule = "short"]
Foreign(f) == [AsItem(f, f.rule, f.exdates, f.status) EXCEPT !.mine = FALSE]

PlainFields == {Single("a"), Single("b")}
PlainItems == {Foreign(Single("b"))}
SeriesFields == {Series("a"), Series("b")}
RuleFields == {Series("a"), Short("b")}
ShortFields == {Short("a"), Short("b")}
SeriesItems == {Foreign(Series("b"))}
MixedItems == {Foreign(Series("b")), [Foreign(Single("a")) EXCEPT !.readable = FALSE]}

IdSymmetry == Permutations(Events) \cup Permutations(Remotes)
EventSymmetry == Permutations(Events)
=============================================================================
