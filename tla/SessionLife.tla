------------------------------ MODULE SessionLife ------------------------------
(***************************************************************************)
(* What a session promises: it opens once, and once it has ended it never  *)
(* opens again.  A new password ends every session there is.               *)
(***************************************************************************)
EXTENDS Naturals

CONSTANT Sessions

VARIABLES
    life,       \* of each session: "absent", "open" or "ended"
    password    \* how often the password has been changed

vars == <<life, password>>

Open == {s \in Sessions : life[s] = "open"}

Init == life = [s \in Sessions |-> "absent"] /\ password = 0

(* Signing in ends the session the browser had.                            *)
SignIn(s, before) ==
    /\ life[s] = "absent" /\ before \subseteq Open
    /\ life' = [x \in Sessions |->
                  IF x = s THEN "open" ELSE IF x \in before THEN "ended" ELSE life[x]]
    /\ UNCHANGED password

(* Signed out, or not used for too long.                                   *)
End(ended) ==
    /\ ended # {} /\ ended \subseteq Open
    /\ life' = [x \in Sessions |-> IF x \in ended THEN "ended" ELSE life[x]]
    /\ UNCHANGED password

(* By the user, who gets a new session, or on the server.                  *)
NewPassword(new) ==
    /\ \A s \in new : life[s] = "absent"
    /\ life' = [x \in Sessions |->
                  IF x \in new THEN "open" ELSE IF x \in Open THEN "ended" ELSE life[x]]
    /\ password' = password + 1

Next ==
    \/ \E s \in Sessions, before \in SUBSET Open : SignIn(s, before)
    \/ \E ended \in SUBSET Open : End(ended)
    \/ \E new \in {{}} \cup {{s} : s \in Sessions} : NewPassword(new)

Spec == Init /\ [][Next]_vars
================================================================================
