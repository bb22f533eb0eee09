--------------------------------- MODULE MCMail ---------------------------------
(***************************************************************************)
(* Small instances of Mail.                                                *)
(***************************************************************************)
EXTENDS Mail, TLC

CONSTANTS m1, m2, m3, t1, t2

TwoMails == {m1, m2}
ThreeMails == {m1, m2, m3}
OneMail == {m1}
Last == {m3}
Nothing == {}
FirstMailbox == [m \in Mails |-> CHOOSE a \in Accounts : TRUE]
Symmetry == Permutations(Tabs)
================================================================================
