------------------------------ MODULE MCWorkspace ------------------------------
(***************************************************************************)
(* Small instances of Workspace: ann and bob, each with an area; a third   *)
(* area is still to be made.  bob is a member of ann's first.              *)
(***************************************************************************)
EXTENDS Workspace, TLC

CONSTANTS ann, bob

OneDay == {1}

TwoAreas == [a \in Areas |-> CASE a = 1 -> ann [] a = 2 -> bob [] OTHER -> NoOne]

Nobody == [a \in Areas |-> [u \in Users |-> "none"]]
BobHelps == [Nobody EXCEPT ![1][bob] = "member"]

(* One task that recurs, due, in the shared area.                          *)
Recurring == [area |-> 1, due |-> 1, time |-> FALSE, status |-> "open", completed |-> FALSE,
              rule |-> -1, assignee |-> NoOne]
OneTask == [t \in TaskIds |-> IF t = 1 THEN Recurring ELSE NoTask]

Plain == [due |-> NoDate, time |-> FALSE, recurring |-> FALSE, assignee |-> NoOne]
Some == {Plain}

(* PATCHes of one column.  Other statuses than "done" clear the time of    *)
(* completion, as reopening does.                                          *)
Edits == {"status" :> "done", "rule" :> TRUE, "rule" :> FALSE}
EditsAndMoves == Edits \cup {"area" :> 2}

Symmetry == Permutations(Clients)

TaskKinds == {"patch", "complete", "reopen", "delete"}
AllKinds == TaskKinds \cup {"create", "drop", "area", "account", "invite", "revoke",
                            "accept", "role"}
===============================================================================
