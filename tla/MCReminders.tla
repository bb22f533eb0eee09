------------------------------ MODULE MCReminders ------------------------------
(***************************************************************************)
(* Small instances of Reminders.                                           *)
(***************************************************************************)
EXTENDS Reminders, TLC

Private == {{u} : u \in People}
PrivateOrShared == Private \cup {People}
Symmetry == Permutations(Devices) \cup Permutations(Events) \cup Permutations(People)
=============================================================================
