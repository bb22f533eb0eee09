----------------------------- MODULE WorkspaceProofs -----------------------------
(***************************************************************************)
(* Proofs about Workspace, for any number of people, areas, links, tasks   *)
(* and requests at a time: the last administrator and everyone's last area *)
(* stay and an invitation works once; a task that is done has a time of    *)
(* completion, a series is carried on by one task, and a task goes only    *)
(* when somebody has asked for it - except where two overlapping requests  *)
(* have both written what the check was about; and the types, with what    *)
(* the foreign keys promise.  Three inductive invariants, each on top of   *)
(* the one before: IInv for people and areas, KInv for tasks, TInv for     *)
(* what belongs to what.                                                   *)
(***************************************************************************)
EXTENDS Workspace, FiniteSetTheorems, TLAPS

IsRequest(q) ==
    q = Idle \/ q = [kind |-> q.kind, by |-> q.by, what |-> q.what, read |-> q.read,
                     arg |-> q.arg, missed |-> q.missed]

(* Requests are records; areas have owners who are there.                  *)
Shapes ==
    /\ users \subseteq Users /\ admins \subseteq users
    /\ owner \in [Areas -> Users \cup {NoOne}]
    /\ areaCount \in Nat /\ linkCount \in Nat
    /\ joined \in [LinkIds -> Nat] /\ link = [l \in LinkIds |-> link[l]]
    /\ req = [c \in Clients |-> req[c]] /\ \A c \in Clients : IsRequest(req[c])

(* Ids that have not been given away are not in use.                       *)
Unused ==
    /\ \A a \in Areas : a > areaCount => owner[a] = NoOne
    /\ \A l \in LinkIds : l > linkCount => link[l] = NoLink /\ joined[l] = 0

(* Who is deleting an account, and has not missed that another             *)
(* administrator went, leaves one behind.                                  *)
AdminsStay ==
    \A c \in Clients :
        req[c].kind = "account" /\ req[c].by \in admins /\ <<"admins">> \notin req[c].missed
        => admins \ {req[c].by} # {}

(* Who is deleting an area, and has not missed that another one went, has  *)
(* one left.                                                               *)
AreasStay ==
    \A c \in Clients : req[c].kind = "drop" =>
        /\ req[c].what \in Areas /\ req[c].what <= areaCount
        /\ \A u \in users : owner[req[c].what] = u /\ <<"areas", u>> \notin req[c].missed
                           => Owned(u) \ {req[c].what} # {}

(* Once somebody has joined by a link it is gone, and whoever is still     *)
(* opening it has missed that.                                             *)
LinksAreSpent ==
    /\ \A l \in LinkIds : joined[l] > 0 => link[l] = NoLink
    /\ \A c \in Clients : req[c].kind = "accept" =>
          /\ req[c].what \in LinkIds /\ req[c].what <= linkCount
          /\ joined[req[c].what] > 0 => <<"link", req[c].what>> \in req[c].missed

Kept == SomebodyIsAdmin /\ EveryoneKeepsAnArea /\ LinkWorksOnce

IInv == Shapes /\ Unused /\ AdminsStay /\ AreasStay /\ LinksAreSpent /\ Kept

-----------------------------------------------------------------------------
(* At first everyone has an area, and ids at the front are taken.          *)
LEMMA InitIInv == Init => IInv
  <1> SUFFICES ASSUME Init PROVE IInv
    OBVIOUS
  <1>1. PICK n \in 0..MaxAreas : \A a \in Areas : StartOwner[a] # NoOne <=> a <= n
    BY WorkspaceAssumption
  <1>2. MaxAreas \in Nat /\ n \in Nat
    BY WorkspaceAssumption
  <1>3. {a \in Areas : StartOwner[a] # NoOne} = 1..n
    BY <1>1, <1>2 DEF Areas
  <1>4. areaCount = n
    <2>1. Cardinality(1..n) = n
      BY <1>2, FS_Interval
    <2> QED
      BY <1>3, <2>1 DEF Init
  <1>5. Shapes
    BY <1>2, <1>4, WorkspaceAssumption DEF Init, Shapes, IsRequest
  <1>6. Unused
    <2>1. \A a \in Areas : a > n => StartOwner[a] = NoOne
      BY <1>1, <1>2, WorkspaceAssumption DEF Areas
    <2> QED
      BY <1>4, <2>1 DEF Init, Unused
  <1>7. AdminsStay /\ AreasStay /\ LinksAreSpent
    BY DEF Init, AdminsStay, AreasStay, LinksAreSpent, Idle
  <1>8. Kept
    BY WorkspaceAssumption DEF Init, Kept, SomebodyIsAdmin, EveryoneKeepsAnArea, LinkWorksOnce, Owned
  <1> QED
    BY <1>5, <1>6, <1>7, <1>8 DEF IInv

-----------------------------------------------------------------------------
(* A request ends, or has missed more than before.                         *)
Ages(c) ==
    \/ req'[c] = Idle
    \/ /\ IsRequest(req'[c]) /\ req'[c].kind = req[c].kind /\ req'[c].by = req[c].by
       /\ req'[c].what = req[c].what /\ req'[c].read = req[c].read /\ req'[c].arg = req[c].arg
       /\ req[c].missed \subseteq req'[c].missed

(* What a commit has written, all other requests have missed.              *)
LEMMA FinishAges ==
    ASSUME IInv, NEW c \in Clients, NEW things, Finish(c, things)
    PROVE  /\ req' = [d \in Clients |-> req'[d]] /\ req'[c] = Idle
           /\ \A d \in Clients : Ages(d) /\ (req'[d] # Idle => things \subseteq req'[d].missed)
           /\ clash \subseteq clash' /\ req[c].missed \cap things \subseteq clash'
  <1>1. req' = [d \in Clients |-> IF d = c THEN Idle ELSE
                   IF req[d] = Idle THEN Idle
                   ELSE [req[d] EXCEPT !.missed = req[d].missed \cup things]]
    BY DEF Finish
  <1>2. ASSUME NEW d \in Clients, d # c, req[d] # Idle
        PROVE  Ages(d) /\ things \subseteq req'[d].missed
    <2>1. /\ req[d] = [kind |-> req[d].kind, by |-> req[d].by, what |-> req[d].what,
                       read |-> req[d].read, arg |-> req[d].arg, missed |-> req[d].missed]
          /\ req'[d] = [req[d] EXCEPT !.missed = req[d].missed \cup things]
      BY <1>1, <1>2 DEF IInv, Shapes, IsRequest
    <2>2. req'[d] = [kind |-> req[d].kind, by |-> req[d].by, what |-> req[d].what,
                     read |-> req[d].read, arg |-> req[d].arg,
                     missed |-> req[d].missed \cup things]
      BY <2>1
    <2> QED
      BY <2>2 DEF Ages, IsRequest
  <1>3. \A d \in Clients : Ages(d) /\ (req'[d] # Idle => things \subseteq req'[d].missed)
    BY <1>1, <1>2 DEF Ages
  <1> QED
    BY <1>1, <1>3 DEF Finish

(* Nothing changes but that links go and requests grow old.                *)
LEMMA QuietStep ==
    ASSUME IInv, UNCHANGED <<users, admins, owner, areaCount, linkCount, joined>>,
           link' = [l \in LinkIds |-> link'[l]],
           \A l \in LinkIds : link'[l] \in {link[l], NoLink},
           req' = [c \in Clients |-> req'[c]], \A c \in Clients : Ages(c),
           clash \subseteq clash'
    PROVE  IInv'
  <1>1. Shapes' /\ Unused'
    BY DEF IInv, Shapes, Unused, Ages, IsRequest
  <1>2. AdminsStay' /\ AreasStay'
    BY DEF IInv, AdminsStay, AreasStay, Owned, Ages, Idle
  <1>3. LinksAreSpent'
    BY DEF IInv, LinksAreSpent, Ages, Idle
  <1>4. Kept'
    BY DEF IInv, Kept, SomebodyIsAdmin, EveryoneKeepsAnArea, LinkWorksOnce, Owned
  <1> QED
    BY <1>1, <1>2, <1>3, <1>4 DEF IInv

(* A request starts when its checks have passed.                           *)
LEMMA StartStep ==
    ASSUME IInv, NEW c \in Clients, NEW kind, NEW u, NEW what, NEW read, NEW arg,
           Start(c, kind, u, what, read, arg),
           kind = "account" /\ u \in admins => admins \ {u} # {},
           kind = "drop" => what \in Areas /\ owner[what] = u /\ Owned(u) \ {what} # {},
           kind = "accept" => what \in LinkIds /\ link[what] # NoLink
    PROVE  IInv'
  <1> DEFINE q == [kind |-> kind, by |-> u, what |-> what, read |-> read, arg |-> arg,
                   missed |-> {}]
  <1>1. /\ UNCHANGED <<users, admins, owner, link, areaCount, linkCount, joined, clash>>
        /\ u \in users /\ req' = [req EXCEPT ![c] = q]
    BY DEF Start, peopleVars, areaVars, historyVars
  <1>2. req' = [d \in Clients |-> IF d = c THEN q ELSE req[d]]
    BY <1>1 DEF IInv, Shapes
  <1>3. /\ q.kind = kind /\ q.by = u /\ q.what = what /\ q.missed = {}
        /\ req'[c] = q /\ IsRequest(q) /\ \A d \in Clients \ {c} : req'[d] = req[d]
    BY <1>2 DEF IsRequest
  <1> HIDE DEF q
  <1>4. Shapes' /\ Unused'
    BY <1>1, <1>2, <1>3 DEF IInv, Shapes, Unused
  <1>5. AdminsStay'
    BY <1>1, <1>3 DEF IInv, AdminsStay
  <1>6. AreasStay'
    <2>1. kind = "drop" => what <= areaCount
      <3>1. u # NoOne
        BY <1>1, WorkspaceAssumption DEF IInv, Shapes
      <3> QED
        BY <3>1, WorkspaceAssumption DEF IInv, Shapes, Unused, Areas
    <2> QED
      BY <1>1, <1>3, <2>1 DEF IInv, AreasStay, Owned
  <1>7. LinksAreSpent'
    <2>1. kind = "accept" => what <= linkCount /\ ~(joined[what] > 0)
      BY WorkspaceAssumption DEF IInv, Shapes, Unused, LinksAreSpent, LinkIds
    <2> QED
      BY <1>1, <1>3, <2>1 DEF IInv, LinksAreSpent
  <1>8. Kept'
    BY <1>1 DEF IInv, Kept, SomebodyIsAdmin, EveryoneKeepsAnArea, LinkWorksOnce, Owned
  <1> QED
    BY <1>4, <1>5, <1>6, <1>7, <1>8 DEF IInv

(* Every request that is started has passed its checks.                    *)
LEMMA RequestsStart ==
    ASSUME IInv, NEW c \in Clients, NEW u \in users, StartTask(c, u) \/ StartSharing(c, u)
    PROVE  IInv'
  <1>1. CASE StartTask(c, u)
    <2>1. ASSUME NEW a, NEW f, CreateTask(c, u, a, f) \/ QuickAdd(c, u, a, f) PROVE IInv'
      <3>1. PICK areas : NewTask(c, u, areas, f)
        BY <2>1 DEF CreateTask, QuickAdd
      <3> QED
        BY <3>1, StartStep DEF NewTask
    <2>2. ASSUME NEW t, \/ \E ch \in Changes : PatchTask(c, u, t, ch)
                        \/ CompleteTask(c, u, t) \/ ReopenTask(c, u, t) \/ DeleteTask(c, u, t)
          PROVE  IInv'
      <3>1. CASE \E ch \in Changes : PatchTask(c, u, t, ch)
        BY <3>1, StartStep DEF PatchTask
      <3>2. CASE CompleteTask(c, u, t)
        <4>1. PICK read, arg : Start(c, "complete", u, t, read, arg)
          BY <3>2 DEF CompleteTask
        <4> QED
          BY <4>1, StartStep
      <3>3. CASE ReopenTask(c, u, t) \/ DeleteTask(c, u, t)
        BY <3>3, StartStep DEF ReopenTask, DeleteTask
      <3> QED
        BY <2>2, <3>1, <3>2, <3>3
    <2> QED
      BY <1>1, <2>1, <2>2 DEF StartTask
  <1>2. CASE StartSharing(c, u)
    <2>1. CASE CreateArea(c, u)
      BY <2>1, StartStep DEF CreateArea
    <2>2. ASSUME NEW a \in Areas, NEW to \in Areas, DeleteArea(c, u, a, to) PROVE IInv'
      BY <2>2, StartStep DEF DeleteArea
    <2>3. ASSUME NEW a, NEW r, CreateInvite(c, u, a, r) PROVE IInv'
      BY <2>3, StartStep DEF CreateInvite
    <2>4. ASSUME NEW l \in LinkIds, RevokeInvite(c, u, l) \/ AcceptInvite(c, u, l) PROVE IInv'
      BY <2>4, StartStep DEF RevokeInvite, AcceptInvite
    <2>5. ASSUME NEW a, NEW v, RemoveMember(c, u, a, v) \/ \E r \in Roles : ChangeRole(c, u, a, v, r)
          PROVE  IInv'
      BY <2>5, StartStep DEF RemoveMember, ChangeRole
    <2>6. CASE DeleteAccount(c, u)
      BY <2>6, StartStep DEF DeleteAccount
    <2> QED
      BY <1>2, <2>1, <2>2, <2>3, <2>4, <2>5, <2>6 DEF StartSharing
  <1> QED
    BY <1>1, <1>2

(* Tasks, roles and links that are revoked, expire or are not committed.   *)
LEMMA QuietCommits ==
    ASSUME IInv,
           \/ \E c \in Clients : \/ CommitCreate(c) \/ CommitWrite(c) \/ CommitDelete(c)
                                 \/ CommitRevoke(c) \/ CommitRole(c) \/ Abort(c)
           \/ \E l \in LinkIds : Expire(l)
    PROVE  IInv'
  <1>1. /\ UNCHANGED <<users, admins, owner, areaCount, linkCount, joined>>
        /\ link' = [l \in LinkIds |-> link'[l]]
        /\ \A l \in LinkIds : link'[l] \in {link[l], NoLink}
    BY DEF CommitCreate, CommitWrite, CommitDelete, CommitRevoke, CommitRole, Abort, Expire,
           peopleVars, areaVars, historyVars, IInv, Shapes
  <1>2. CASE \E c \in Clients : Abort(c)
    <2>1. PICK c \in Clients : Abort(c)
      BY <1>2
    <2>2. req' = [d \in Clients |-> IF d = c THEN Idle ELSE req[d]] /\ clash' = clash
      BY <2>1 DEF Abort, IInv, Shapes
    <2>3. req' = [d \in Clients |-> req'[d]] /\ \A d \in Clients : Ages(d)
      BY <2>2 DEF IInv, Shapes, Ages
    <2> QED
      BY <1>1, <2>2, <2>3, QuietStep
  <1>3. CASE \E l \in LinkIds : Expire(l)
    <2>1. UNCHANGED <<req, clash>>
      BY <1>3 DEF Expire
    <2>2. req' = [d \in Clients |-> req'[d]] /\ \A d \in Clients : Ages(d)
      BY <2>1 DEF IInv, Shapes, Ages
    <2> QED
      BY <1>1, <2>1, <2>2, QuietStep
  <1>4. CASE \E c \in Clients : \/ CommitCreate(c) \/ CommitWrite(c) \/ CommitDelete(c)
                                \/ CommitRevoke(c) \/ CommitRole(c)
    <2>1. PICK c \in Clients : \E things : Finish(c, things)
      BY <1>4 DEF CommitCreate, CommitWrite, CommitDelete, CommitRevoke, CommitRole
    <2> QED
      BY <1>1, <2>1, FinishAges, QuietStep
  <1> QED
    BY <1>2, <1>3, <1>4

-----------------------------------------------------------------------------
(* A new area makes nobody poorer.                                         *)
LEMMA AreaStep ==
    ASSUME IInv, NEW c \in Clients, CommitArea(c)
    PROVE  IInv'
  <1> DEFINE new == areaCount + 1
             u == req[c].by
  <1>1. /\ UNCHANGED <<users, admins, link, linkCount, joined>> /\ u \in users
        /\ areaCount' = new /\ owner' = [owner EXCEPT ![new] = u] /\ areaCount < MaxAreas
    BY DEF CommitArea, peopleVars, historyVars
  <1>2. /\ req' = [d \in Clients |-> req'[d]] /\ \A d \in Clients : Ages(d) /\ clash \subseteq clash'
    <2>1. Finish(c, {})
      BY DEF CommitArea
    <2> QED
      BY <2>1, FinishAges
  <1>3. new \in Areas /\ areaCount \in Nat /\ owner[new] = NoOne
    BY <1>1, WorkspaceAssumption DEF IInv, Shapes, Unused, Areas
  <1>4. /\ owner' \in [Areas -> Users \cup {NoOne}] /\ owner'[new] = u
        /\ \A a \in Areas \ {new} : owner'[a] = owner[a]
    BY <1>1, <1>3 DEF IInv, Shapes
  <1>5. \A v \in users : Owned(v) \subseteq Owned(v)' /\ v # NoOne
    BY <1>3, <1>4, WorkspaceAssumption DEF IInv, Shapes, Owned
  <1>6. Shapes'
    BY <1>1, <1>2, <1>3, <1>4 DEF IInv, Shapes, Ages, IsRequest
  <1>7. Unused'
    BY <1>1, <1>3, <1>4 DEF IInv, Unused, Areas
  <1>8. AdminsStay' /\ LinksAreSpent'
    BY <1>1, <1>2 DEF IInv, AdminsStay, LinksAreSpent, Ages, Idle
  <1>9. AreasStay'
    BY <1>1, <1>2, <1>3, <1>4, <1>5 DEF IInv, AreasStay, Ages, Idle, Areas
  <1>10. Kept'
    BY <1>1, <1>2, <1>5 DEF IInv, Kept, SomebodyIsAdmin, EveryoneKeepsAnArea, LinkWorksOnce
  <1> QED
    BY <1>6, <1>7, <1>8, <1>9, <1>10 DEF IInv

(* Whoever deletes one area while another one goes has missed that.        *)
LEMMA DropStep ==
    ASSUME IInv, NEW c \in Clients, CommitDrop(c)
    PROVE  IInv'
  <1> DEFINE a == req[c].what
  <1>1. a \in Areas /\ req[c].kind = "drop"
    BY DEF CommitDrop, Under, IInv, AreasStay
  <1>2. /\ UNCHANGED <<users, admins, areaCount, linkCount, joined>>
        /\ owner' = [b \in Areas |-> IF b = a THEN NoOne ELSE owner[b]]
        /\ link' = [l \in LinkIds |-> link'[l]]
        /\ \A l \in LinkIds : link'[l] \in {link[l], NoLink}
    BY DEF CommitDrop, Drop, peopleVars
  <1>3. PICK things : Finish(c, things) /\ (owner[a] # NoOne => <<"areas", owner[a]>> \in things)
    <2>1. \E moving : Finish(c, {<<"in", t>> : t \in moving} \cup
                             IF owner[a] = NoOne THEN {} ELSE {<<"areas", owner[a]>>})
      BY DEF CommitDrop
    <2> QED
      BY <2>1
  <1>4. /\ req' = [d \in Clients |-> req'[d]] /\ req'[c] = Idle
        /\ \A d \in Clients : Ages(d) /\ (req'[d] # Idle => things \subseteq req'[d].missed)
        /\ clash \subseteq clash' /\ req[c].missed \cap things \subseteq clash'
    BY <1>3, FinishAges
  <1> HIDE DEF a
  <1>5. \A u \in users : /\ u # NoOne
                         /\ Owned(u)' = Owned(u) \ {a}
                         /\ owner[a] # u => Owned(u)' = Owned(u)
    BY <1>1, <1>2, WorkspaceAssumption DEF IInv, Shapes, Owned
  <1>6. Shapes' /\ Unused'
    BY <1>1, <1>2, <1>4 DEF IInv, Shapes, Unused, Ages, IsRequest
  <1>7. AdminsStay'
    BY <1>2, <1>4 DEF IInv, AdminsStay, Ages, Idle
  <1>11. LinksAreSpent'
    BY <1>2, <1>4 DEF IInv, LinksAreSpent, Ages, Idle
  <1>8. AreasStay'
    <2> SUFFICES ASSUME NEW d \in Clients, req'[d].kind = "drop"
                 PROVE  /\ req'[d].what \in Areas /\ req'[d].what <= areaCount
                        /\ \A u \in users : owner'[req'[d].what] = u /\ <<"areas", u>> \notin req'[d].missed
                                           => Owned(u)' \ {req'[d].what} # {}
      BY <1>2 DEF AreasStay
    <2>1. /\ req'[d] # Idle /\ req[d].kind = "drop" /\ req'[d].what = req[d].what
          /\ req[d].missed \subseteq req'[d].missed /\ things \subseteq req'[d].missed
      BY <1>4 DEF Ages, Idle
    <2>2. req[d].what \in Areas /\ req[d].what <= areaCount
      BY <2>1 DEF IInv, AreasStay
    <2>3. ASSUME NEW u \in users, owner'[req'[d].what] = u, <<"areas", u>> \notin req'[d].missed
          PROVE  Owned(u)' \ {req'[d].what} # {}
      <3>1. owner[req[d].what] = u
        BY <1>2, <1>5, <2>1, <2>2, <2>3
      <3>2. owner[a] # u
        BY <1>3, <1>5, <2>1, <2>3
      <3> QED
        BY <1>5, <2>1, <2>3, <3>1, <3>2 DEF IInv, AreasStay
    <2> QED
      BY <2>1, <2>2, <2>3
  <1>9. EveryoneKeepsAnArea'
    <2> SUFFICES ASSUME NEW u \in users, <<"areas", u>> \notin clash'
                 PROVE  Owned(u)' # {}
      BY <1>2 DEF EveryoneKeepsAnArea
    <2>1. CASE owner[a] # u
      BY <1>4, <1>5, <2>1 DEF IInv, Kept, EveryoneKeepsAnArea
    <2>2. CASE owner[a] = u
      <3>1. <<"areas", u>> \notin req[c].missed
        BY <1>3, <1>4, <1>5, <2>2
      <3> QED
        BY <1>1, <1>5, <2>2, <3>1 DEF a, IInv, AreasStay
    <2> QED
      BY <2>1, <2>2
  <1>10. SomebodyIsAdmin' /\ LinkWorksOnce'
    BY <1>2, <1>4 DEF IInv, Kept, SomebodyIsAdmin, LinkWorksOnce
  <1> QED
    BY <1>6, <1>7, <1>8, <1>9, <1>10, <1>11 DEF IInv, Kept

(* A new invitation has an id that nobody has opened.                      *)
LEMMA InviteStep ==
    ASSUME IInv, NEW c \in Clients, CommitInvite(c)
    PROVE  IInv'
  <1> DEFINE new == linkCount + 1
  <1>1. /\ UNCHANGED <<users, admins, owner, areaCount, joined>>
        /\ linkCount' = new /\ linkCount < MaxLinks
        /\ \E row : link' = [link EXCEPT ![new] = row]
    BY DEF CommitInvite, peopleVars, historyVars
  <1>2. /\ req' = [d \in Clients |-> req'[d]]
        /\ \A d \in Clients : Ages(d)
        /\ clash \subseteq clash'
    <2>1. Finish(c, {})
      BY DEF CommitInvite
    <2> QED
      BY <2>1, FinishAges
  <1>3. /\ new \in LinkIds /\ linkCount \in Nat /\ joined[new] = 0
        /\ link' = [l \in LinkIds |-> link'[l]]
        /\ \A l \in LinkIds \ {new} : link'[l] = link[l]
    <2>1. new \in LinkIds /\ linkCount \in Nat /\ new > linkCount
      BY <1>1, WorkspaceAssumption DEF IInv, Shapes, LinkIds
    <2>2. joined[new] = 0
      BY <2>1 DEF IInv, Unused
    <2>3. PICK row : link' = [link EXCEPT ![new] = row]
      BY <1>1
    <2> HIDE DEF new
    <2>4. link' = [l \in LinkIds |-> IF l = new THEN row ELSE link[l]]
      BY <2>3 DEF IInv, Shapes
    <2> QED
      BY <2>1, <2>2, <2>4
  <1>4. Shapes' /\ Unused'
    BY <1>1, <1>2, <1>3 DEF IInv, Shapes, Unused, Ages, IsRequest, LinkIds
  <1>5. AdminsStay' /\ AreasStay'
    BY <1>1, <1>2 DEF IInv, AdminsStay, AreasStay, Owned, Ages, Idle
  <1>6. LinksAreSpent'
    BY <1>1, <1>2, <1>3 DEF IInv, LinksAreSpent, Ages, Idle, LinkIds
  <1>7. Kept'
    BY <1>1, <1>2 DEF IInv, Kept, SomebodyIsAdmin, EveryoneKeepsAnArea, LinkWorksOnce, Owned
  <1> QED
    BY <1>4, <1>5, <1>6, <1>7 DEF IInv

(* Joining uses the link up, which everybody else who opens it misses.     *)
LEMMA AcceptStep ==
    ASSUME IInv, NEW c \in Clients, CommitAccept(c)
    PROVE  IInv'
  <1> DEFINE k == req[c].what
  <1>1. k \in LinkIds /\ (joined[k] > 0 => <<"link", k>> \in req[c].missed)
    BY DEF CommitAccept, Under, IInv, LinksAreSpent
  <1>2. /\ UNCHANGED <<users, admins, owner, areaCount, linkCount>>
        /\ link' = [link EXCEPT ![k] = NoLink]
        /\ joined' = joined \/ joined' = [joined EXCEPT ![k] = @ + 1]
        /\ Finish(c, {<<"link", k>>})
    BY DEF CommitAccept, peopleVars
  <1>3. /\ req' = [d \in Clients |-> req'[d]]
        /\ \A d \in Clients : Ages(d) /\ (req'[d] # Idle => <<"link", k>> \in req'[d].missed)
        /\ clash \subseteq clash' /\ (<<"link", k>> \in req[c].missed => <<"link", k>> \in clash')
    BY <1>2, FinishAges
  <1> HIDE DEF k
  <1>4. /\ link' = [l \in LinkIds |-> link'[l]] /\ link'[k] = NoLink
        /\ joined' \in [LinkIds -> Nat]
        /\ \A l \in LinkIds \ {k} : link'[l] = link[l] /\ joined'[l] = joined[l]
        /\ joined'[k] \in {joined[k], joined[k] + 1} /\ joined[k] \in Nat
    BY <1>1, <1>2 DEF IInv, Shapes
  <1>5. k <= linkCount
    BY DEF k, CommitAccept, Under, IInv, LinksAreSpent
  <1>6. Shapes'
    BY <1>2, <1>3, <1>4 DEF IInv, Shapes, Ages, IsRequest
  <1>7. Unused'
    BY <1>1, <1>2, <1>4, <1>5, WorkspaceAssumption DEF IInv, Shapes, Unused, LinkIds
  <1>8. AdminsStay' /\ AreasStay'
    BY <1>2, <1>3 DEF IInv, AdminsStay, AreasStay, Owned, Ages, Idle
  <1>9. LinksAreSpent'
    BY <1>1, <1>2, <1>3, <1>4 DEF IInv, LinksAreSpent, Ages, Idle
  <1>10. LinkWorksOnce'
    <2>1. ASSUME NEW l \in LinkIds \ {k}
          PROVE  joined'[l] <= 1 \/ <<"link", l>> \in clash'
      BY <1>3, <1>4, <2>1 DEF IInv, Kept, LinkWorksOnce
    <2>2. CASE joined[k] > 0
      BY <1>1, <1>3, <2>1, <2>2 DEF LinkWorksOnce
    <2>3. CASE ~(joined[k] > 0)
      <3>1. joined'[k] <= 1
        BY <1>4, <2>3
      <3> QED
        BY <2>1, <3>1 DEF LinkWorksOnce
    <2> QED
      BY <2>2, <2>3
  <1>11. SomebodyIsAdmin' /\ EveryoneKeepsAnArea'
    BY <1>2, <1>3 DEF IInv, Kept, SomebodyIsAdmin, EveryoneKeepsAnArea, Owned
  <1> QED
    BY <1>6, <1>7, <1>8, <1>9, <1>10, <1>11 DEF IInv, Kept

(* With an account go its areas and links; other accounts keep theirs.     *)
LEMMA AccountStep ==
    ASSUME IInv, NEW c \in Clients, CommitAccount(c)
    PROVE  IInv'
  <1> DEFINE u == req[c].by
  <1>1. /\ req[c].kind = "account" /\ UNCHANGED <<areaCount, linkCount, joined>>
        /\ users' = users \ {u} /\ admins' = admins \ {u}
        /\ owner' = [a \in Areas |-> IF a \in Owned(u) THEN NoOne ELSE owner[a]]
        /\ link' = [l \in LinkIds |-> link'[l]]
        /\ \A l \in LinkIds : link'[l] \in {link[l], NoLink}
        /\ Finish(c, IF u \in admins THEN {<<"admins">>} ELSE {})
    BY DEF CommitAccount, Under
  <1>2. /\ req' = [d \in Clients |-> req'[d]]
        /\ \A d \in Clients : Ages(d)
        /\ u \in admins => \A d \in Clients : req'[d] # Idle => <<"admins">> \in req'[d].missed
        /\ clash \subseteq clash'
        /\ u \in admins /\ <<"admins">> \in req[c].missed => <<"admins">> \in clash'
    BY <1>1, FinishAges
  <1>3. u \in admins /\ <<"admins">> \notin req[c].missed => admins \ {u} # {}
    BY <1>1 DEF IInv, AdminsStay
  <1> HIDE DEF u
  <1>4. \A v \in users' : Owned(v)' = Owned(v) /\ v \in users /\ v # u
    BY <1>1, WorkspaceAssumption DEF IInv, Shapes, Owned
  <1>5. \A a \in Areas : owner'[a] \in {owner[a], NoOne}
    BY <1>1
  <1>6. Shapes' /\ Unused'
    BY <1>1, <1>2, <1>5 DEF IInv, Shapes, Unused, Ages, IsRequest
  <1>7. AdminsStay'
    <2>1. CASE u \in admins
      BY <1>2, <2>1 DEF AdminsStay, Idle
    <2>2. CASE u \notin admins
      <3>1. admins' = admins
        BY <1>1, <2>2
      <3> QED
        BY <1>2, <3>1 DEF IInv, AdminsStay, Ages, Idle
    <2> QED
      BY <2>1, <2>2
  <1>8. AreasStay'
    <2> SUFFICES ASSUME NEW d \in Clients, req'[d].kind = "drop"
                 PROVE  /\ req'[d].what \in Areas /\ req'[d].what <= areaCount
                        /\ \A v \in users' : owner'[req'[d].what] = v /\ <<"areas", v>> \notin req'[d].missed
                                            => Owned(v)' \ {req'[d].what} # {}
      BY <1>1 DEF AreasStay
    <2>1. /\ req[d].kind = "drop" /\ req'[d].what = req[d].what
          /\ req[d].missed \subseteq req'[d].missed
      BY <1>2 DEF Ages, Idle
    <2>2. req[d].what \in Areas /\ req[d].what <= areaCount
      BY <2>1 DEF IInv, AreasStay
    <2>3. ASSUME NEW v \in users', owner'[req'[d].what] = v, <<"areas", v>> \notin req'[d].missed
          PROVE  Owned(v)' \ {req'[d].what} # {}
      <3>1. v # NoOne /\ v \in users /\ Owned(v)' = Owned(v)
        BY <1>4, WorkspaceAssumption DEF IInv, Shapes
      <3>2. owner[req[d].what] = v
        BY <1>5, <2>1, <2>2, <2>3, <3>1
      <3> QED
        BY <2>1, <2>3, <3>1, <3>2 DEF IInv, AreasStay
    <2> QED
      BY <2>1, <2>2, <2>3
  <1>9. LinksAreSpent'
    BY <1>1, <1>2 DEF IInv, LinksAreSpent, Ages, Idle
  <1>10. SomebodyIsAdmin'
    BY <1>1, <1>2, <1>3 DEF IInv, Kept, SomebodyIsAdmin
  <1>11. EveryoneKeepsAnArea'
    BY <1>2, <1>4 DEF IInv, Kept, EveryoneKeepsAnArea
  <1>12. LinkWorksOnce'
    BY <1>1, <1>2 DEF IInv, Kept, LinkWorksOnce
  <1> QED
    BY <1>6, <1>7, <1>8, <1>9, <1>10, <1>11, <1>12 DEF IInv, Kept

-----------------------------------------------------------------------------
LEMMA StepIInv == IInv /\ [Next]_vars => IInv'
  <1> SUFFICES ASSUME IInv, [Next]_vars PROVE IInv'
    OBVIOUS
  <1>1. ASSUME NEW c \in Clients, NEW u \in users, StartTask(c, u) \/ StartSharing(c, u)
        PROVE  IInv'
    BY <1>1, RequestsStart
  <1>2. ASSUME NEW c \in Clients, CommitAny(c)
        PROVE  IInv'
    <2>1. CASE CommitArea(c)
      BY <2>1, AreaStep
    <2>2. CASE CommitDrop(c)
      BY <2>2, DropStep
    <2>3. CASE CommitInvite(c)
      BY <2>3, InviteStep
    <2>4. CASE CommitAccept(c)
      BY <2>4, AcceptStep
    <2>5. CASE CommitAccount(c)
      BY <2>5, AccountStep
    <2>6. CASE \/ CommitCreate(c) \/ CommitWrite(c) \/ CommitDelete(c)
               \/ CommitRevoke(c) \/ CommitRole(c)
      BY <2>6, QuietCommits
    <2> QED
      BY <1>2, <2>1, <2>2, <2>3, <2>4, <2>5, <2>6 DEF CommitAny
  <1>3. CASE (\E c \in Clients : Abort(c)) \/ (\E l \in LinkIds : Expire(l))
    BY <1>3, QuietCommits
  <1>4. CASE UNCHANGED vars
    <2>1. UNCHANGED <<users, admins, owner, link, areaCount, linkCount, joined, req, clash>>
      BY <1>4 DEF vars, peopleVars, areaVars, historyVars
    <2> QED
      BY <2>1 DEF IInv, Shapes, Unused, AdminsStay, AreasStay, LinksAreSpent, Kept, IsRequest,
                  SomebodyIsAdmin, EveryoneKeepsAnArea, LinkWorksOnce, Owned
  <1> QED
    BY <1>1, <1>2, <1>3, <1>4 DEF Next

(* Who and what is left stays as it should, all the time.                  *)
LEMMA AlwaysIInv == Spec => []IInv
  BY InitIInv, StepIInv, PTL DEF Spec

(* "Das letzte Admin-Konto kann nicht geloescht werden": an account is     *)
(* deleted only while there is another administrator, unless two of them   *)
(* are deleted at once.                                                    *)
THEOREM LastAdminStays == Spec => []SomebodyIsAdmin
  <1>1. IInv => SomebodyIsAdmin
    BY DEF IInv, Kept
  <1> QED
    BY <1>1, AlwaysIInv, PTL

(* "Der letzte Bereich kann nicht geloescht werden": however areas and     *)
(* accounts come and go, everyone keeps one, unless two of his areas are   *)
(* deleted at once.                                                        *)
THEOREM LastAreaStays == Spec => []EveryoneKeepsAnArea
  <1>1. IInv => EveryoneKeepsAnArea
    BY DEF IInv, Kept
  <1> QED
    BY <1>1, AlwaysIInv, PTL

(* "jeder Link gilt genau einmal": nobody joins by a link somebody else    *)
(* has joined by, unless both have opened it at once.                      *)
THEOREM InvitationWorksOnce == Spec => []LinkWorksOnce
  <1>1. IInv => LinkWorksOnce
    BY DEF IInv, Kept
  <1> QED
    BY <1>1, AlwaysIInv, PTL

-----------------------------------------------------------------------------
(***************************************************************************)
(* Tasks.  A request that writes a task has read it; as long as it has not *)
(* missed that somebody wrote the same columns they are what it has read.  *)
(* Series have numbers that no other request and no task has got.          *)
(***************************************************************************)
Writes == {"patch", "complete", "reopen"}
Consistent(row) == row.completed <=> row.status = "done"

TasksShaped ==
    /\ task \in [TaskIds -> Row \cup {NoTask}] /\ taskCount \in 0..MaxTasks /\ ops \in 0..MaxOps
    /\ \A t \in TaskIds : There(t) => t <= taskCount /\ task[t].rule \in begun
    /\ ended \subseteq begun /\ torn \subseteq begun /\ begun \subseteq {n \in Int : n <= ops}

(* What a request will write.                                              *)
Plan(q) ==
    /\ q.kind = "create" => q.what \in Areas /\ q.arg \in Row /\ q.arg.area = q.what /\ Consistent(q.arg)
    /\ q.kind \in Writes =>
          /\ q.what \in TaskIds /\ q.what <= taskCount
          /\ q.read \in Row /\ q.read.rule \in begun /\ q.arg.row \in Row
          /\ q.arg.next \in Days \cup {NoDate}
          /\ q.arg.next # NoDate => q.read.rule # 0 /\ q.arg.row.rule = 0
    /\ q.kind = "delete" => q.what \in TaskIds
    /\ q.kind = "drop" => q.what \in Areas /\ (q.read # {} => q.arg \in Areas \ {q.what})
PlansMade == \A c \in Clients : Plan(req[c])

(* The series that it begins.                                              *)
NewSeries(q) ==
    (IF q.kind = "create" THEN {q.arg.rule}
     ELSE IF q.kind \in Writes THEN {q.arg.row.rule} \ {q.read.rule} ELSE {}) \ {0}
SeriesAreNew ==
    /\ \A c \in Clients : NewSeries(req[c]) \subseteq 1..ops /\ NewSeries(req[c]) \cap begun = {}
    /\ \A c, d \in Clients : c # d => NewSeries(req[c]) \cap NewSeries(req[d]) = {}

ProgressKnown(q) ==
    \/ <<"progress", q.what>> \in clash
    \/ /\ Consistent(q.read) /\ Consistent(q.arg.row)
       /\ There(q.what) /\ <<"progress", q.what>> \notin q.missed =>
             task[q.what].status = q.read.status /\ task[q.what].completed = q.read.completed
ProgressSeen == \A c \in Clients : req[c].kind \in Writes => ProgressKnown(req[c])

RuleKnown(q) ==
    There(q.what) /\ <<"rule", q.what>> \notin q.missed => task[q.what].rule = q.read.rule
RulesSeen == \A c \in Clients : req[c].kind \in Writes => RuleKnown(req[c])

(* Who deletes an area that was empty has missed what was put into it.     *)
EmptySeen ==
    \A c \in Clients : req[c].kind = "drop" /\ req[c].read = {} =>
        \A t \in TasksIn(req[c].what) : <<"in", t>> \in req[c].missed

OneCarrier == \A s \in begun \ (ended \cup torn \cup {0}) : \E t \in TaskIds : Carriers(s) = {t}

KInv ==
    /\ TasksShaped /\ PlansMade /\ SeriesAreNew /\ ProgressSeen /\ RulesSeen /\ EmptySeen
    /\ OneCarrier /\ CompletionIsConsistent

-----------------------------------------------------------------------------
(* What a PATCH or a completion leaves is a row.                           *)
LEMMA MergedRow ==
    ASSUME NEW q, q.arg.row \in Row, task[q.what] \in Row
    PROVE  /\ Merged(q) \in Row
           /\ \A f \in Fields :
                 Merged(q)[f] = IF f \in Written(q) THEN q.arg.row[f] ELSE task[q.what][f]
  <1>1. \A f \in Fields : Merged(q)[f] = IF f \in Written(q) THEN q.arg.row[f] ELSE task[q.what][f]
    BY DEF Merged
  <1>2. Merged(q) = [area |-> Merged(q).area, due |-> Merged(q).due, time |-> Merged(q).time,
                    status |-> Merged(q).status, completed |-> Merged(q).completed,
                    rule |-> Merged(q).rule, assignee |-> Merged(q).assignee]
    BY DEF Merged, Fields
  <1>3. Merged(q).area \in Areas /\ Merged(q).due \in Days \cup {NoDate} /\ Merged(q).time \in BOOLEAN
        /\ Merged(q).status \in Statuses /\ Merged(q).completed \in BOOLEAN /\ Merged(q).rule \in Int
        /\ Merged(q).assignee \in Users \cup {NoOne}
    BY <1>1 DEF Fields, Row
  <1> QED
    BY <1>1, <1>2, <1>3 DEF Row

(* So is what a PATCH makes of one; its progress stays consistent.         *)
LEMMA PatchedRow ==
    ASSUME NEW row \in Row, NEW ch \in Changes, NEW series \in Int
    PROVE  /\ Patched(row, ch, series) \in Row
           /\ Patched(row, ch, series).rule \in {row.rule, 0, series}
           /\ (row.completed <=> row.status = "done") =>
                 (Patched(row, ch, series).completed <=> Patched(row, ch, series).status = "done")
  <1> DEFINE new == Patched(row, ch, series)
  <1>1. /\ DOMAIN ch \subseteq Fields \ {"completed"}
        /\ "area" \in DOMAIN ch => ch.area \in Areas
        /\ "due" \in DOMAIN ch => ch.due \in Days \cup {NoDate}
        /\ "time" \in DOMAIN ch => ch.time \in BOOLEAN
        /\ "status" \in DOMAIN ch => ch.status \in Statuses
        /\ "rule" \in DOMAIN ch => ch.rule \in BOOLEAN
        /\ "assignee" \in DOMAIN ch => ch.assignee \in Users \cup {NoOne}
    BY WorkspaceAssumption
  <1>2. /\ row.area \in Areas /\ row.due \in Days \cup {NoDate} /\ row.time \in BOOLEAN
        /\ row.status \in Statuses /\ row.completed \in BOOLEAN /\ row.rule \in Int
        /\ row.assignee \in Users \cup {NoOne}
    BY DEF Row
  <1>3. /\ new.area = IF "area" \in DOMAIN ch THEN ch.area ELSE row.area
        /\ new.due = IF "due" \in DOMAIN ch THEN ch.due ELSE row.due
        /\ new.time = IF "time" \in DOMAIN ch THEN ch.time ELSE row.time
        /\ new.status = IF "status" \in DOMAIN ch THEN ch.status ELSE row.status
    BY DEF Patched
  <1>4. new.completed = IF new.status = row.status THEN row.completed ELSE new.status = "done"
    BY DEF Patched
  <1>5. /\ new.rule = IF "rule" \notin DOMAIN ch THEN row.rule ELSE IF ch.rule THEN series ELSE 0
        /\ new.assignee \in {NoOne, IF "assignee" \in DOMAIN ch THEN ch.assignee ELSE row.assignee}
    BY DEF Patched
  <1>6. new = [area |-> new.area, due |-> new.due, time |-> new.time, status |-> new.status,
               completed |-> new.completed, rule |-> new.rule, assignee |-> new.assignee]
    BY DEF Patched
  <1> HIDE DEF new
  <1>7. /\ new.area \in Areas /\ new.due \in Days \cup {NoDate} /\ new.status \in Statuses
        /\ new.assignee \in Users \cup {NoOne}
    <2>1. new.area \in Areas
      BY <1>1, <1>2, <1>3
    <2>2. new.due \in Days \cup {NoDate}
      BY <1>1, <1>2, <1>3
    <2>3. new.status \in Statuses
      BY <1>1, <1>2, <1>3
    <2>4. new.assignee \in Users \cup {NoOne}
      BY <1>1, <1>2, <1>5
    <2> QED
      BY <2>1, <2>2, <2>3, <2>4
  <1>10. new.time \in BOOLEAN
    <2>1. new.time = IF "time" \in DOMAIN ch THEN ch.time ELSE row.time
      BY <1>3
    <2>2. "time" \in DOMAIN ch => ch.time \in BOOLEAN
      BY <1>1
    <2>3. row.time \in BOOLEAN
      BY <1>2
    <2> QED
      BY <2>1, <2>2, <2>3, Zenon
  <1>11. new.rule \in {row.rule, 0, series} /\ new.rule \in Int
    BY <1>2, <1>5
  <1>8. /\ new.completed \in BOOLEAN
        /\ (row.completed <=> row.status = "done") => (new.completed <=> new.status = "done")
    <2>1. CASE new.status = row.status
      BY <1>2, <1>4, <2>1
    <2>2. CASE new.status # row.status
      BY <1>4, <2>2
    <2> QED
      BY <2>1, <2>2
  <1>9. new \in Row
    BY <1>6, <1>7, <1>8, <1>10, <1>11 DEF Row
  <1> QED
    BY <1>8, <1>9, <1>11 DEF new

(* A row is never the mark of a task that is not there.                    *)
LEMMA NoTaskIsNoRow == \A row \in Row : row # NoTask /\ row.area \in Areas
  BY DEF Row, NoTask, Areas

(* At first nobody is doing anything, tasks are consistent, and each       *)
(* series has one task.                                                    *)
LEMMA InitKInv == Init => KInv
  <1> SUFFICES ASSUME Init PROVE KInv
    OBVIOUS
  <1> DEFINE T == {t \in TaskIds : StartTasks[t] # NoTask}
  <1>1. \A c \in Clients : req[c] = Idle
    BY DEF Init
  <1>2. /\ PlansMade /\ SeriesAreNew /\ ProgressSeen /\ RulesSeen /\ EmptySeen
    <2>1. NewSeries(Idle) = {} /\ Plan(Idle)
      BY DEF NewSeries, Plan, Idle, Writes
    <2> QED
      BY <1>1, <2>1 DEF PlansMade, SeriesAreNew, ProgressSeen, RulesSeen, EmptySeen, Idle, Writes
  <1>3. \A t \in T : /\ StartTasks[t].rule \in {0, -t}
                     /\ StartTasks[t].completed <=> StartTasks[t].status = "done"
    BY WorkspaceAssumption
  <1>4. begun = {StartTasks[t].rule : t \in T} /\ ended = {} /\ torn = {} /\ task = StartTasks
    BY DEF Init
  <1>5. T \in SUBSET TaskIds
    OBVIOUS
  <1>6. OneCarrier
    <2> SUFFICES ASSUME NEW s \in begun \ {0} PROVE \E t \in TaskIds : Carriers(s) = {t}
      BY DEF OneCarrier
    <2>1. PICK t \in T : s = StartTasks[t].rule
      BY <1>4
    <2>2. s = -t /\ t \in TaskIds /\ TaskIds \subseteq Int
      BY <1>3, <2>1, WorkspaceAssumption DEF TaskIds
    <2>3. \A x \in Carriers(s) : x \in T /\ StartTasks[x].rule = s /\ x \in Int
      BY <1>4, <2>2 DEF Carriers, There
    <2>4. \A x \in Carriers(s) : x = t
      BY <1>3, <2>2, <2>3
    <2>5. t \in Carriers(s)
      BY <1>4, <2>1 DEF Carriers, There
    <2> QED
      BY <2>2, <2>4, <2>5
  <1>7. CompletionIsConsistent
    BY <1>3, <1>4 DEF CompletionIsConsistent, There
  <1>8. TasksShaped
    <2>1. PICK n \in 0..MaxTasks : \A t \in TaskIds : StartTasks[t] # NoTask <=> t <= n
      BY WorkspaceAssumption
    <2>2. n \in Nat /\ n <= MaxTasks /\ MaxTasks \in Nat
      BY WorkspaceAssumption
    <2>3. T = 1..n
      BY <2>1, <2>2 DEF TaskIds
    <2>4. taskCount = n
      <3>1. Cardinality(1..n) = n
        BY <2>2, FS_Interval
      <3> QED
        BY <2>3, <3>1 DEF Init
    <2>5. task \in [TaskIds -> Row \cup {NoTask}] /\ ops = 0 /\ MaxOps \in Nat
      BY <1>4, WorkspaceAssumption DEF Init
    <2>6. \A t \in TaskIds : There(t) => t <= taskCount /\ task[t].rule \in begun
      BY <1>4, <2>1, <2>4 DEF There
    <2>7. begun \subseteq {x \in Int : x <= 0}
      <3>1. \A t \in T : t \in Nat
        BY <2>3
      <3> QED
        BY <1>3, <1>4, <3>1
    <2> QED
      BY <1>4, <2>2, <2>4, <2>5, <2>6, <2>7 DEF TasksShaped
  <1> QED
    BY <1>2, <1>6, <1>7, <1>8 DEF KInv

-----------------------------------------------------------------------------
(* Requests stand by what they will write as the others go on; one that    *)
(* has begun its series is over.                                           *)
LEMMA AgedPlans ==
    ASSUME KInv, \A d \in Clients : Ages(d), taskCount' \in Nat, taskCount <= taskCount',
           begun \subseteq begun', ops' = ops,
           \/ begun' = begun
           \/ \E c \in Clients : req'[c] = Idle /\ begun' \subseteq begun \cup NewSeries(req[c]) \cup {0}
    PROVE  PlansMade' /\ SeriesAreNew'
  <1>1. taskCount \in Nat /\ TaskIds \subseteq Int
    BY WorkspaceAssumption DEF KInv, TasksShaped, TaskIds
  <1>2. NewSeries(Idle) = {} /\ Plan(Idle)' /\ \A c \in Clients : 0 \notin NewSeries(req[c])
    BY DEF NewSeries, Plan, Idle, Writes
  <1>3. ASSUME NEW d \in Clients, req'[d] # Idle
        PROVE  Plan(req[d])' /\ NewSeries(req'[d]) = NewSeries(req[d])
    <2>1. /\ req'[d].kind = req[d].kind /\ req'[d].what = req[d].what
          /\ req'[d].read = req[d].read /\ req'[d].arg = req[d].arg
      BY <1>3 DEF Ages
    <2>2. Plan(req[d])
      BY DEF KInv, PlansMade
    <2>3. Plan(req[d])'
      <3>1. taskCount' \in Int /\ \A n \in Int : n <= taskCount => n <= taskCount'
        BY <1>1
      <3> QED
        BY <1>1, <2>1, <2>2, <3>1 DEF Plan
    <2> QED
      BY <2>1, <2>3 DEF NewSeries
  <1>4. PlansMade'
    BY <1>2, <1>3 DEF PlansMade
  <1>5. \A d \in Clients : NewSeries(req'[d]) \in {{}, NewSeries(req[d])}
    BY <1>2, <1>3
  <1>6. \A d \in Clients : NewSeries(req'[d]) \cap begun' = {}
    <2>1. CASE begun' = begun
      BY <1>5, <2>1 DEF KInv, SeriesAreNew
    <2>2. ASSUME NEW c \in Clients, req'[c] = Idle, begun' \subseteq begun \cup NewSeries(req[c]) \cup {0}
          PROVE  \A d \in Clients : NewSeries(req'[d]) \cap begun' = {}
      <3>1. NewSeries(req'[c]) = {}
        BY <1>2, <2>2
      <3>2. \A d \in Clients : d # c => NewSeries(req[d]) \cap NewSeries(req[c]) = {}
        BY DEF KInv, SeriesAreNew
      <3>3. \A d \in Clients : NewSeries(req[d]) \cap begun = {}
        BY DEF KInv, SeriesAreNew
      <3> QED
        BY <1>2, <1>5, <2>2, <3>1, <3>2, <3>3
    <2> QED
      BY <2>1, <2>2
  <1>7. \A d \in Clients : NewSeries(req'[d]) \subseteq 1..ops'
    BY <1>5 DEF KInv, SeriesAreNew
  <1>8. \A c, d \in Clients : c # d => NewSeries(req'[c]) \cap NewSeries(req'[d]) = {}
    <2> SUFFICES ASSUME NEW c \in Clients, NEW d \in Clients, c # d
                 PROVE  NewSeries(req'[c]) \cap NewSeries(req'[d]) = {}
      OBVIOUS
    <2>1. NewSeries(req[c]) \cap NewSeries(req[d]) = {}
      BY DEF KInv, SeriesAreNew
    <2> QED
      BY <1>5, <2>1
  <1> QED
    BY <1>4, <1>6, <1>7, <1>8 DEF SeriesAreNew

(* A task that stays keeps its progress and its rule.                      *)
TaskKept(t) ==
    \/ task'[t] = NoTask
    \/ /\ There(t) /\ task'[t] \in Row /\ task'[t].status = task[t].status
       /\ task'[t].completed = task[t].completed /\ task'[t].rule = task[t].rule

(* Tasks go, with their series, and move, which everybody misses.          *)
LEMMA QuietTasks ==
    ASSUME KInv, UNCHANGED <<taskCount, begun, torn, ops>>, task' \in [TaskIds -> Row \cup {NoTask}],
           \A t \in TaskIds : /\ TaskKept(t)
                              /\ There(t) /\ task'[t] = NoTask => task[t].rule \in ended',
           ended \subseteq ended', ended' \subseteq begun,
           \A d \in Clients : Ages(d), clash \subseteq clash',
           \A t \in TaskIds : task'[t] # NoTask /\ task'[t].area # task[t].area =>
               \A d \in Clients : req'[d] # Idle => <<"in", t>> \in req'[d].missed
    PROVE  KInv'
  <1>1. PlansMade' /\ SeriesAreNew'
    <2>1. taskCount' \in Nat /\ taskCount <= taskCount'
      BY WorkspaceAssumption DEF KInv, TasksShaped
    <2> QED
      BY <2>1, AgedPlans
  <1>2. TasksShaped'
    BY DEF KInv, TasksShaped, TaskKept, There
  <1>3. \A d \in Clients : req'[d] # Idle =>
            /\ req'[d].kind = req[d].kind /\ req'[d].what = req[d].what
            /\ req'[d].read = req[d].read /\ req'[d].arg = req[d].arg
            /\ req[d].missed \subseteq req'[d].missed
    BY DEF Ages
  <1>4. ASSUME NEW d \in Clients, req'[d].kind \in Writes
        PROVE  /\ req'[d] # Idle /\ req[d].kind \in Writes
               /\ req'[d].what \in TaskIds
    BY <1>1, <1>3, <1>4 DEF Idle, Writes, PlansMade, Plan
  <1>5. ProgressSeen'
    BY <1>3, <1>4 DEF KInv, ProgressSeen, ProgressKnown, TaskKept, There
  <1>6. RulesSeen'
    BY <1>3, <1>4 DEF KInv, RulesSeen, RuleKnown, TaskKept, There
  <1>7. EmptySeen'
    <2> SUFFICES ASSUME NEW d \in Clients, req'[d].kind = "drop", req'[d].read = {},
                        NEW t \in TasksIn(req[d].what)'
                 PROVE  <<"in", t>> \in req'[d].missed
      BY DEF EmptySeen
    <2>1. req'[d] # Idle /\ req[d].kind = "drop" /\ req[d].read = {}
      BY <1>3 DEF Idle
    <2>2. t \in TaskIds /\ task'[t] # NoTask /\ task'[t].area = req[d].what /\ There(t)
      BY <1>3, <2>1 DEF TasksIn, There, TaskKept
    <2>3. CASE task'[t].area = task[t].area
      BY <1>3, <2>1, <2>2, <2>3 DEF KInv, EmptySeen, TasksIn
    <2>4. CASE task'[t].area # task[t].area
      BY <2>1, <2>2, <2>4
    <2> QED
      BY <2>3, <2>4
  <1>8. OneCarrier'
    <2> SUFFICES ASSUME NEW s \in begun \ (ended' \cup torn \cup {0})
                 PROVE  \E t \in TaskIds : Carriers(s)' = {t}
      BY DEF OneCarrier
    <2>1. PICK t \in TaskIds : Carriers(s) = {t}
      BY DEF KInv, OneCarrier
    <2>2. \A x \in TaskIds : x \in Carriers(s)' <=> x \in Carriers(s)
      BY DEF Carriers, TaskKept, There
    <2>3. Carriers(s)' = Carriers(s)
      BY <2>2 DEF Carriers
    <2> QED
      BY <2>1, <2>3
  <1>9. CompletionIsConsistent'
    BY DEF KInv, CompletionIsConsistent, TaskKept, There
  <1> QED
    BY <1>1, <1>2, <1>5, <1>6, <1>7, <1>8, <1>9 DEF KInv

(* A request starts, with a plan and a series that is new.                 *)
LEMMA StartPlan ==
    ASSUME IInv, KInv, NEW c \in Clients, NEW kind, NEW u, NEW what, NEW read, NEW arg,
           Start(c, kind, u, what, read, arg),
           Plan([kind |-> kind, what |-> what, read |-> read, arg |-> arg]),
           NewSeries([kind |-> kind, what |-> what, read |-> read, arg |-> arg]) \subseteq {ops + 1},
           kind \in Writes => /\ read = task[what]
                              /\ Consistent(read) => Consistent(arg.row),
           kind = "drop" => read = TasksIn(what)
    PROVE  KInv'
  <1> DEFINE q == [kind |-> kind, by |-> u, what |-> what, read |-> read, arg |-> arg,
                   missed |-> {}]
  <1>1. /\ UNCHANGED <<task, taskCount, begun, ended, torn, clash>>
        /\ ops' = ops + 1 /\ ops < MaxOps /\ req' = [req EXCEPT ![c] = q]
    BY DEF Start, taskVars, historyVars
  <1>2. req' = [d \in Clients |-> IF d = c THEN q ELSE req[d]]
    BY <1>1 DEF IInv, Shapes
  <1>3. /\ q.kind = kind /\ q.what = what /\ q.read = read /\ q.arg = arg /\ q.missed = {}
        /\ req'[c] = q /\ \A d \in Clients \ {c} : req'[d] = req[d]
    BY <1>2
  <1> HIDE DEF q
  <1>4. ops \in Nat /\ MaxOps \in Nat
    BY WorkspaceAssumption DEF KInv, TasksShaped
  <1>5. TasksShaped'
    BY <1>1, <1>4 DEF KInv, TasksShaped, There
  <1>6. PlansMade'
    <2>1. Plan(q)'
      BY <1>1, <1>3 DEF Plan
    <2>2. \A r : Plan(r) => Plan(r)'
      BY <1>1 DEF Plan
    <2>3. \A d \in Clients : Plan(req[d])
      BY DEF KInv, PlansMade
    <2> SUFFICES ASSUME NEW d \in Clients PROVE Plan(req[d])'
      BY DEF PlansMade
    <2>4. CASE d = c
      BY <1>3, <2>1, <2>4 DEF Plan
    <2>5. CASE d # c
      <3>1. Plan(req[d]) /\ req'[d] = req[d]
        BY <1>3, <2>3, <2>5
      <3> QED
        BY <1>1, <3>1 DEF Plan
    <2> QED
      BY <2>4, <2>5
  <1>7. SeriesAreNew'
    <2>1. NewSeries(q) \subseteq {ops + 1}
      BY <1>3 DEF NewSeries
    <2>2. \A d \in Clients : NewSeries(req[d]) \subseteq 1..ops /\ NewSeries(req[d]) \cap begun = {}
      BY DEF KInv, SeriesAreNew
    <2>3. ops + 1 \notin begun
      BY <1>4 DEF KInv, TasksShaped
    <2>4. \A d \in Clients : NewSeries(req'[d]) \subseteq 1..ops' /\ NewSeries(req'[d]) \cap begun' = {}
      BY <1>1, <1>3, <1>4, <2>1, <2>2, <2>3
    <2>5. \A x, d \in Clients : x # d => NewSeries(req'[x]) \cap NewSeries(req'[d]) = {}
      <3> SUFFICES ASSUME NEW x \in Clients, NEW d \in Clients, x # d
                   PROVE  NewSeries(req'[x]) \cap NewSeries(req'[d]) = {}
        OBVIOUS
      <3>1. NewSeries(req[x]) \cap NewSeries(req[d]) = {}
        BY DEF KInv, SeriesAreNew
      <3>2. ops + 1 \notin 1..ops
        BY <1>4
      <3>3. \A y \in Clients \ {c} : NewSeries(req'[y]) = NewSeries(req[y])
        BY <1>3
      <3>4. NewSeries(req'[c]) \subseteq {ops + 1}
        BY <1>3, <2>1
      <3>5. CASE x = c
        BY <2>2, <3>2, <3>3, <3>4, <3>5
      <3>6. CASE d = c
        BY <2>2, <3>2, <3>3, <3>4, <3>6
      <3>7. CASE x # c /\ d # c
        BY <3>1, <3>3, <3>7
      <3> QED
        BY <3>5, <3>6, <3>7
    <2> QED
      BY <2>4, <2>5 DEF SeriesAreNew
  <1>8. ProgressSeen' /\ RulesSeen'
    <2>1. kind \in Writes => what \in TaskIds /\ There(what)
      <3>1. kind \in Writes => what \in TaskIds /\ read \in Row
        BY DEF Plan
      <3> QED
        BY <3>1, NoTaskIsNoRow DEF There
    <2>2. kind \in Writes => ProgressKnown(q)' /\ RuleKnown(q)'
      BY <1>1, <1>3, <2>1 DEF KInv, CompletionIsConsistent, ProgressKnown, RuleKnown, Consistent, There
    <2>3. \A r : (ProgressKnown(r) => ProgressKnown(r)') /\ (RuleKnown(r) => RuleKnown(r)')
      BY <1>1 DEF ProgressKnown, RuleKnown, There
    <2>4. ASSUME NEW d \in Clients, req'[d].kind \in Writes
          PROVE  ProgressKnown(req[d])' /\ RuleKnown(req[d])'
      <3>1. CASE d = c
        BY <1>3, <2>2, <2>4, <3>1 DEF ProgressKnown, RuleKnown
      <3>2. CASE d # c
        <4>1. ProgressKnown(req[d]) /\ RuleKnown(req[d]) /\ req'[d] = req[d]
          BY <1>3, <2>4, <3>2 DEF KInv, ProgressSeen, RulesSeen
        <4> QED
          BY <1>1, <4>1 DEF ProgressKnown, RuleKnown, There
      <3> QED
        BY <3>1, <3>2
    <2> QED
      BY <2>4 DEF ProgressSeen, RulesSeen
  <1>9. EmptySeen'
    <2>1. \A a : TasksIn(a)' = TasksIn(a)
      BY <1>1 DEF TasksIn, There
    <2> SUFFICES ASSUME NEW d \in Clients, req'[d].kind = "drop", req'[d].read = {},
                        NEW t \in TasksIn(req[d].what)'
                 PROVE  <<"in", t>> \in req'[d].missed
      BY DEF EmptySeen
    <2>2. t \in TaskIds /\ There(t) /\ task[t].area = req'[d].what
      BY <1>1 DEF TasksIn, There
    <2>3. CASE d = c
      <3>1. t \in TasksIn(what)
        BY <1>3, <2>2, <2>3 DEF TasksIn
      <3> QED
        BY <1>3, <2>3, <3>1
    <2>4. CASE d # c
      BY <1>3, <2>2, <2>4 DEF KInv, EmptySeen, TasksIn
    <2> QED
      BY <2>3, <2>4
  <1>10. OneCarrier' /\ CompletionIsConsistent'
    BY <1>1 DEF KInv, OneCarrier, Carriers, CompletionIsConsistent, There
  <1> QED
    BY <1>5, <1>6, <1>7, <1>8, <1>9, <1>10 DEF KInv

(* A task that is created has an id, and a series, that nobody knows.      *)
LEMMA CreateStep ==
    ASSUME IInv, KInv, NEW c \in Clients, CommitCreate(c)
    PROVE  KInv'
  <1> DEFINE new == taskCount + 1
             row == req[c].arg
  <1>1. /\ req[c].kind = "create" /\ taskCount < MaxTasks /\ taskCount' = new
        /\ task' = [task EXCEPT ![new] = row] /\ begun' = begun \cup {row.rule}
        /\ UNCHANGED <<ended, torn, ops>> /\ Finish(c, {<<"in", new>>})
    BY DEF CommitCreate, Under, Finish
  <1>2. row \in Row /\ Consistent(row) /\ row # NoTask
    BY <1>1, NoTaskIsNoRow DEF KInv, PlansMade, Plan
  <1>3. /\ \A d \in Clients : Ages(d) /\ (req'[d] # Idle => <<"in", new>> \in req'[d].missed)
        /\ req'[c] = Idle /\ clash \subseteq clash'
    BY <1>1, FinishAges
  <1>4. taskCount \in Nat /\ new \in TaskIds /\ new \in Nat /\ ~There(new)
    BY <1>1, WorkspaceAssumption DEF KInv, TasksShaped, TaskIds
  <1>5. row.rule \in {0} \cup NewSeries(req[c])
    BY <1>1 DEF NewSeries
  <1>6. /\ row.rule = 0 \/ (row.rule \in 1..ops /\ row.rule \notin begun)
        /\ row.rule \in Int /\ row.rule <= ops
    BY <1>5, WorkspaceAssumption DEF KInv, SeriesAreNew, TasksShaped
  <1>7. PlansMade' /\ SeriesAreNew'
    BY <1>1, <1>3, <1>4, <1>5, AgedPlans
  <1> HIDE DEF new, row
  <1>8. /\ task'[new] = row /\ \A t \in TaskIds \ {new} : task'[t] = task[t]
        /\ task' \in [TaskIds -> Row \cup {NoTask}]
    BY <1>1, <1>2, <1>4 DEF KInv, TasksShaped
  <1>9. TasksShaped'
    <2>1. \A t \in TaskIds : There(t)' => t <= taskCount' /\ task'[t].rule \in begun'
      <3>1. \A t \in TaskIds : There(t) => t <= taskCount /\ task[t].rule \in begun /\ t \in Int
        BY WorkspaceAssumption DEF KInv, TasksShaped, TaskIds
      <3>2. taskCount <= new /\ new <= new
        BY <1>4 DEF new
      <3> QED
        BY <1>1, <1>4, <1>8, <3>1, <3>2 DEF There
    <2>2. taskCount' \in 0..MaxTasks
      BY <1>1, <1>4, WorkspaceAssumption DEF TaskIds
    <2>3. row.rule \in Int /\ row.rule <= ops
      BY <1>6
    <2> QED
      BY <1>1, <1>8, <2>1, <2>2, <2>3 DEF KInv, TasksShaped
  <1>10. ASSUME NEW d \in Clients, req'[d].kind \in Writes \cup {"drop"}
         PROVE  /\ req'[d] # Idle /\ req[d].kind \in Writes \cup {"drop"} /\ req'[d].kind = req[d].kind
                /\ req'[d].what = req[d].what /\ req'[d].read = req[d].read
                /\ req'[d].arg = req[d].arg /\ req[d].missed \subseteq req'[d].missed
                /\ req[d].kind \in Writes => req[d].what \in TaskIds \ {new}
    <2>1. req'[d] # Idle
      BY <1>10 DEF Idle, Writes
    <2>2. req[d].kind \in Writes => req[d].what \in TaskIds \ {new}
      BY <1>4 DEF KInv, PlansMade, Plan, new, TaskIds
    <2> QED
      BY <1>3, <1>10, <2>1, <2>2 DEF Ages
  <1>11. ProgressSeen' /\ RulesSeen'
    <2> SUFFICES ASSUME NEW d \in Clients, req'[d].kind \in Writes
                 PROVE  ProgressKnown(req[d])' /\ RuleKnown(req[d])'
      BY DEF ProgressSeen, RulesSeen
    <2>1. task'[req[d].what] = task[req[d].what] /\ req[d].kind \in Writes
      BY <1>8, <1>10
    <2>2. ProgressKnown(req[d]) /\ RuleKnown(req[d])
      BY <2>1 DEF KInv, ProgressSeen, RulesSeen
    <2> QED
      BY <1>3, <1>10, <2>1, <2>2 DEF ProgressKnown, RuleKnown, There
  <1>12. EmptySeen'
    <2> SUFFICES ASSUME NEW d \in Clients, req'[d].kind = "drop", req'[d].read = {},
                        NEW t \in TasksIn(req[d].what)'
                 PROVE  <<"in", t>> \in req'[d].missed
      BY <1>10 DEF EmptySeen, Writes
    <2>1. CASE t = new
      BY <1>3, <1>10, <2>1
    <2>2. CASE t # new
      BY <1>8, <1>10, <2>2 DEF KInv, EmptySeen, TasksIn, There
    <2> QED
      BY <2>1, <2>2
  <1>13. OneCarrier'
    <2> SUFFICES ASSUME NEW s \in begun' \ (ended \cup torn \cup {0})
                 PROVE  \E t \in TaskIds : Carriers(s)' = {t}
      BY <1>1 DEF OneCarrier
    <2>1. \A t \in TaskIds : t \in Carriers(s)' <=> IF t = new THEN row.rule = s ELSE t \in Carriers(s)
      BY <1>2, <1>4, <1>8 DEF Carriers, There
    <2>2. \A t \in Carriers(s) : t \in TaskIds /\ t # new /\ s \in begun
      BY <1>4 DEF Carriers, KInv, TasksShaped
    <2>3. Carriers(s)' \subseteq TaskIds
      BY DEF Carriers
    <2>4. CASE s = row.rule
      <3>1. s \notin begun
        BY <1>6, <2>4
      <3> QED
        BY <1>4, <2>1, <2>2, <2>3, <2>4, <3>1
    <2>5. CASE s # row.rule
      <3>1. PICK t \in TaskIds : Carriers(s) = {t}
        BY <1>1, <2>5 DEF KInv, OneCarrier
      <3> QED
        BY <2>1, <2>2, <2>3, <2>5, <3>1
    <2> QED
      BY <2>4, <2>5
  <1>14. CompletionIsConsistent'
    BY <1>2, <1>3, <1>8 DEF KInv, CompletionIsConsistent, Consistent, There
  <1> QED
    BY <1>7, <1>9, <1>11, <1>12, <1>13, <1>14 DEF KInv

(* What a request writes of a task, and what the others miss by it.        *)
LEMMA WhatIsWritten ==
    ASSUME NEW q, q.read \in Row, q.arg.row \in Row
    PROVE  /\ "rule" \in Written(q) <=> q.arg.row.rule # q.read.rule
           /\ "area" \in Written(q) <=> q.arg.row.area # q.read.area
           /\ "status" \in Written(q) <=> q.arg.row.status # q.read.status
           /\ "completed" \notin Written(q) => q.arg.row.completed = q.read.completed
           /\ "area" \in Written(q) => <<"in", q.what>> \in Touches(q)
           /\ "rule" \in Written(q) => <<"rule", q.what>> \in Touches(q)
           /\ "status" \in Written(q) \/ "completed" \in Written(q) =>
                 <<"progress", q.what>> \in Touches(q)
  <1>1. {"rule", "area", "status", "completed"} \subseteq Fields
    BY DEF Fields
  <1>2. \A f \in {"rule", "area", "status"} : f \in Written(q) <=> q.arg.row[f] # q.read[f]
    BY <1>1 DEF Written
  <1>3. "completed" \notin Written(q) => q.arg.row["completed"] = q.read["completed"]
    BY <1>1 DEF Written
  <1> QED
    BY <1>2, <1>3 DEF Touches

(* The follower of a task carries on its rule.                             *)
LEMMA FollowerRow ==
    ASSUME NEW q, q.read \in Row, q.arg.next \in Days
    PROVE  /\ Follower(q) \in Row /\ Follower(q).rule = q.read.rule /\ Consistent(Follower(q))
           /\ Follower(q).area = q.read.area /\ Follower(q).assignee = NoOne
  <1> DEFINE r == q.read
             next == q.arg.next
             new == [r EXCEPT !.due = next, !.status = "open", !.completed = FALSE,
                              !.assignee = NoOne]
  <1>1. Follower(q) = new
    BY DEF Follower
  <1>2. r \in Row /\ next \in Days
    OBVIOUS
  <1> HIDE DEF r, next
  <1>3. new \in Row
    BY <1>2 DEF Row, Statuses
  <1>4. new.rule = r.rule /\ new.area = r.area /\ new.assignee = NoOne
    BY <1>2 DEF Row
  <1>5. new.status = "open" /\ new.completed = FALSE
    BY <1>2 DEF Row
  <1> QED
    BY <1>1, <1>3, <1>4, <1>5 DEF Consistent, r

(* Writing a task leaves the others alone; what of it has been written in  *)
(* the meantime the request has missed, and now the others miss it.        *)
LEMMA WriteStep ==
    ASSUME IInv, KInv, NEW c \in Clients, CommitWrite(c)
    PROVE  KInv'
  <1> DEFINE q == req[c]
             row == Merged(q)
             w == q.what
             new == taskCount + 1
             follows == q.arg.next # NoDate
  <1>1. /\ req[c].kind \in Writes /\ There(w) /\ (follows => taskCount < MaxTasks)
        /\ taskCount' = IF follows THEN new ELSE taskCount
        /\ task' = [t \in TaskIds |-> IF t = w THEN row
                                      ELSE IF follows /\ t = new THEN Follower(q) ELSE task[t]]
        /\ IF "rule" \notin Written(q) THEN UNCHANGED <<begun, ended, torn>> ELSE
              /\ begun' = begun \cup {row.rule}
              /\ ended' = IF follows THEN ended ELSE ended \cup {task[w].rule, q.read.rule}
              /\ torn' = IF <<"rule", w>> \in q.missed THEN torn \cup {task[w].rule, q.read.rule} ELSE torn
        /\ Finish(c, Touches(q) \cup IF follows THEN {<<"in", new>>} ELSE {}) /\ UNCHANGED ops
    BY DEF CommitWrite, Under, Finish, Writes
  <1>2. /\ w \in TaskIds /\ w <= taskCount /\ q.read \in Row /\ q.read.rule \in begun /\ q.arg.row \in Row
        /\ q.arg.next \in Days \cup {NoDate} /\ (follows => q.read.rule # 0 /\ q.arg.row.rule = 0)
        /\ task[w] \in Row
    <2>1. (Plan(q) /\ task[w] \in Row \cup {NoTask}) \/ w \notin TaskIds
      BY DEF KInv, PlansMade, TasksShaped
    <2> QED
      BY <1>1, <2>1 DEF Plan, There, KInv, PlansMade
  <1>3. /\ \A d \in Clients : Ages(d) /\ (req'[d] # Idle => Touches(q) \subseteq req'[d].missed)
        /\ follows => \A d \in Clients : req'[d] # Idle => <<"in", new>> \in req'[d].missed
        /\ req'[c] = Idle /\ clash \subseteq clash' /\ q.missed \cap Touches(q) \subseteq clash'
    BY <1>1, FinishAges
  <1>4. /\ row \in Row /\ row # NoTask
        /\ row.rule = IF "rule" \in Written(q) THEN q.arg.row.rule ELSE task[w].rule
        /\ row.area = IF "area" \in Written(q) THEN q.arg.row.area ELSE task[w].area
        /\ row.status = IF "status" \in Written(q) THEN q.arg.row.status ELSE task[w].status
        /\ row.completed = IF "completed" \in Written(q) THEN q.arg.row.completed ELSE task[w].completed
    <2>1. row \in Row /\ \A f \in Fields : row[f] = IF f \in Written(q) THEN q.arg.row[f] ELSE task[w][f]
      BY <1>2, MergedRow
    <2> HIDE DEF row, q, w
    <2> QED
      BY <2>1, NoTaskIsNoRow DEF Fields
  <1>5. follows => /\ Follower(q) \in Row /\ Follower(q) # NoTask /\ Follower(q).rule = q.read.rule
                   /\ Consistent(Follower(q)) /\ Follower(q).area = q.read.area
    BY <1>2, FollowerRow, NoTaskIsNoRow
  <1>6. /\ "rule" \in Written(q) <=> q.arg.row.rule # q.read.rule
        /\ "status" \in Written(q) <=> q.arg.row.status # q.read.status
        /\ "completed" \notin Written(q) => q.arg.row.completed = q.read.completed
        /\ "area" \in Written(q) => <<"in", w>> \in Touches(q)
        /\ "rule" \in Written(q) => <<"rule", w>> \in Touches(q)
        /\ "status" \in Written(q) \/ "completed" \in Written(q) => <<"progress", w>> \in Touches(q)
    BY <1>2, WhatIsWritten
  <1>7. /\ taskCount \in Nat /\ TaskIds \subseteq Int /\ taskCount' \in 0..MaxTasks /\ taskCount <= taskCount'
        /\ follows => /\ new \in TaskIds /\ new # w /\ ~There(new) /\ taskCount' = new
                      /\ taskCount < new /\ "rule" \in Written(q)
    <2>1. taskCount \in Nat /\ MaxTasks \in Nat /\ TaskIds \subseteq Int
      BY WorkspaceAssumption DEF KInv, TasksShaped, TaskIds
    <2>2. follows => "rule" \in Written(q)
      BY <1>2, <1>6
    <2>3. follows => new \in TaskIds /\ new # w /\ ~There(new)
      BY <1>1, <1>2, <2>1 DEF TaskIds, KInv, TasksShaped
    <2> QED
      BY <1>1, <2>1, <2>2, <2>3 DEF KInv, TasksShaped
  <1>8. "rule" \in Written(q) => row.rule \in NewSeries(q) \cup {0}
    BY <1>1, <1>4, <1>6 DEF NewSeries, Writes
  <1>9. NewSeries(q) \subseteq 1..ops /\ NewSeries(q) \cap begun = {} /\ ops \in Nat
    BY DEF KInv, SeriesAreNew, TasksShaped
  <1>10. PlansMade' /\ SeriesAreNew'
    <2>1. begun' = begun \/ begun' \subseteq begun \cup NewSeries(q) \cup {0}
      BY <1>1, <1>8
    <2>2. begun \subseteq begun'
      BY <1>1
    <2>3. taskCount' \in Nat /\ taskCount <= taskCount' /\ ops' = ops
      BY <1>1, <1>7
    <2> QED
      BY <1>3, <2>1, <2>2, <2>3, AgedPlans
  <1>11. /\ task'[w] = row /\ task' \in [TaskIds -> Row \cup {NoTask}]
         /\ follows => task'[new] = Follower(q)
         /\ \A t \in TaskIds \ {w} : ~follows \/ t # new => task'[t] = task[t]
    BY <1>1, <1>2, <1>4, <1>5, <1>7 DEF KInv, TasksShaped
  <1>12. ASSUME NEW d \in Clients, req'[d].kind \in Writes \cup {"drop"}
         PROVE  /\ req'[d] # Idle /\ req[d].kind \in Writes \cup {"drop"} /\ req'[d].kind = req[d].kind
                /\ req'[d].what = req[d].what /\ req'[d].read = req[d].read
                /\ req'[d].arg = req[d].arg /\ req[d].missed \subseteq req'[d].missed
                /\ req[d].kind \in Writes => req[d].what \in TaskIds /\ (follows => req[d].what # new)
    <2>1. req'[d] # Idle
      BY <1>12 DEF Idle, Writes
    <2>2. req[d].kind \in Writes => req[d].what \in TaskIds /\ req[d].what <= taskCount
      BY DEF KInv, PlansMade, Plan
    <2> QED
      BY <1>3, <1>7, <1>12, <2>1, <2>2 DEF Ages
  <1> HIDE DEF q, row, w, new, follows
  <1>13. \A d \in Clients : q = req[d] => w = req[d].what
    BY DEF q, w
  <1>14. TasksShaped'
    <2>1. row.rule \in begun' /\ begun \subseteq begun' /\ ended' \subseteq begun' /\ torn' \subseteq begun'
      <3>1. ended \subseteq begun /\ torn \subseteq begun /\ task[w].rule \in begun /\ q.read.rule \in begun
        BY <1>1, <1>2 DEF KInv, TasksShaped
      <3> QED
        BY <1>1, <1>4, <3>1
    <2>2. begun' \subseteq {n \in Int : n <= ops}
      <3>1. (row.rule \in Int /\ row.rule <= ops) \/ begun' = begun
        BY <1>1, <1>8, <1>9
      <3> QED
        BY <1>1, <3>1 DEF KInv, TasksShaped
    <2>3. ASSUME NEW t \in TaskIds, There(t)'
          PROVE  t <= taskCount' /\ task'[t].rule \in begun'
      <3>1. CASE t = w
        BY <1>2, <1>7, <1>11, <2>1, <3>1
      <3>2. CASE t # w /\ follows /\ t = new
        BY <1>2, <1>5, <1>7, <1>11, <2>1, <3>2
      <3>3. CASE t # w /\ ~(follows /\ t = new)
        <4>1. t <= taskCount /\ task[t].rule \in begun
          BY <1>11, <2>3, <3>3 DEF KInv, TasksShaped, There
        <4> QED
          BY <1>7, <1>11, <2>1, <3>3, <4>1
      <3> QED
        BY <3>1, <3>2, <3>3
    <2> QED
      BY <1>1, <1>7, <1>11, <2>1, <2>2, <2>3 DEF KInv, TasksShaped
  <1>15. ProgressSeen'
    <2> SUFFICES ASSUME NEW d \in Clients, req'[d].kind \in Writes
                 PROVE  ProgressKnown(req[d])'
      BY DEF ProgressSeen
    <2>1. ProgressKnown(req[d])
      BY <1>12 DEF KInv, ProgressSeen
    <2>2. CASE req[d].what # w
      <3>1. task'[req[d].what] = task[req[d].what]
        BY <1>11, <1>12, <2>2
      <3> QED
        BY <1>3, <1>12, <2>1, <3>1 DEF ProgressKnown, There
    <2>3. CASE req[d].what = w
      <3>1. CASE <<"progress", w>> \in Touches(q)
        <4>1. <<"progress", w>> \in req'[d].missed
          BY <1>3, <1>12, <3>1
        <4> QED
          BY <1>3, <1>12, <2>1, <2>3, <4>1 DEF ProgressKnown
      <3>2. CASE <<"progress", w>> \notin Touches(q)
        <4>1. task'[w].status = task[w].status /\ task'[w].completed = task[w].completed
          BY <1>4, <1>6, <1>11, <3>2
        <4> QED
          BY <1>1, <1>3, <1>12, <2>1, <2>3, <4>1 DEF ProgressKnown, There
      <3> QED
        BY <3>1, <3>2
    <2> QED
      BY <2>2, <2>3
  <1>16. RulesSeen'
    <2> SUFFICES ASSUME NEW d \in Clients, req'[d].kind \in Writes
                 PROVE  RuleKnown(req[d])'
      BY DEF RulesSeen
    <2>1. RuleKnown(req[d])
      BY <1>12 DEF KInv, RulesSeen
    <2>2. CASE req[d].what # w
      <3>1. task'[req[d].what] = task[req[d].what]
        BY <1>11, <1>12, <2>2
      <3> QED
        BY <1>12, <2>1, <3>1 DEF RuleKnown, There
    <2>3. CASE req[d].what = w
      <3>1. CASE "rule" \in Written(q)
        BY <1>3, <1>6, <1>12, <2>3, <3>1 DEF RuleKnown
      <3>2. CASE "rule" \notin Written(q)
        BY <1>1, <1>4, <1>11, <1>12, <2>1, <2>3, <3>2 DEF RuleKnown, There
      <3> QED
        BY <3>1, <3>2
    <2> QED
      BY <2>2, <2>3
  <1>17. EmptySeen'
    <2> SUFFICES ASSUME NEW d \in Clients, req'[d].kind = "drop", req'[d].read = {},
                        NEW t \in TasksIn(req[d].what)'
                 PROVE  <<"in", t>> \in req'[d].missed
      BY DEF EmptySeen
    <2>1. t \in TaskIds /\ There(t)' /\ task'[t].area = req[d].what
      BY <1>12 DEF TasksIn, There
    <2>2. ASSUME There(t), task'[t].area = task[t].area PROVE <<"in", t>> \in req'[d].missed
      BY <1>12, <2>1, <2>2 DEF KInv, EmptySeen, TasksIn
    <2>3. CASE t = w
      <3>1. CASE "area" \in Written(q)
        BY <1>3, <1>6, <1>12, <2>3, <3>1
      <3>2. CASE "area" \notin Written(q)
        BY <1>1, <1>4, <1>11, <2>2, <2>3, <3>2
      <3> QED
        BY <3>1, <3>2
    <2>4. CASE follows /\ t = new
      BY <1>3, <1>12, <2>4
    <2>5. CASE t # w /\ ~(follows /\ t = new)
      BY <1>11, <2>1, <2>2, <2>5 DEF There
    <2> QED
      BY <2>3, <2>4, <2>5
  <1>18. CompletionIsConsistent'
    <2> SUFFICES ASSUME NEW t \in TaskIds, There(t)', <<"progress", t>> \notin clash'
                 PROVE  Consistent(task'[t])
      BY DEF CompletionIsConsistent, Consistent, There
    <2>1. CASE t = w
      <3>1. <<"progress", w>> \notin clash /\ Consistent(task[w])
        BY <1>1, <1>2, <1>3, <2>1 DEF KInv, CompletionIsConsistent, Consistent
      <3>2. CASE <<"progress", w>> \in Touches(q)
        <4>1. <<"progress", w>> \notin q.missed
          BY <1>3, <2>1, <3>2
        <4>2. ProgressKnown(q)
          BY <1>1 DEF KInv, ProgressSeen, q
        <4>3. /\ Consistent(q.arg.row) /\ task[w].status = q.read.status
              /\ task[w].completed = q.read.completed
          BY <1>1, <3>1, <4>1, <4>2 DEF ProgressKnown, w
        <4>4. row.status = q.arg.row.status
          BY <1>4, <1>6, <4>3
        <4>5. row.completed = q.arg.row.completed
          BY <1>4, <1>6, <4>3
        <4> QED
          BY <1>11, <2>1, <4>3, <4>4, <4>5 DEF Consistent
      <3>3. CASE <<"progress", w>> \notin Touches(q)
        BY <1>4, <1>6, <1>11, <2>1, <3>1, <3>3 DEF Consistent
      <3> QED
        BY <3>2, <3>3
    <2>2. CASE follows /\ t = new
      BY <1>5, <1>11, <2>2
    <2>3. CASE t # w /\ ~(follows /\ t = new)
      BY <1>3, <1>11, <2>3 DEF KInv, CompletionIsConsistent, Consistent, There
    <2> QED
      BY <2>1, <2>2, <2>3
  <1>19. OneCarrier'
    <2> SUFFICES ASSUME NEW s \in begun' \ (ended' \cup torn' \cup {0})
                 PROVE  \E t \in TaskIds : Carriers(s)' = {t}
      BY DEF OneCarrier
    <2>1. \A t \in TaskIds : t \in Carriers(s)' <=>
              IF t = w THEN row.rule = s
              ELSE IF follows /\ t = new THEN q.read.rule = s ELSE t \in Carriers(s)
      BY <1>4, <1>5, <1>11 DEF Carriers, There
    <2>2. Carriers(s)' \subseteq TaskIds /\ Carriers(s) \subseteq TaskIds
      BY DEF Carriers
    <2>3. w \in Carriers(s) <=> task[w].rule = s
      BY <1>1, <1>2 DEF Carriers
    <2>4. follows => new \notin Carriers(s)
      BY <1>7 DEF Carriers
    <2>5. s \notin ended /\ s \notin torn
      BY <1>1
    <2>6. s \in begun => \E t \in TaskIds : Carriers(s) = {t}
      BY <2>5 DEF KInv, OneCarrier
    <2>7. CASE "rule" \notin Written(q)
      <3>1. ~follows /\ row.rule = task[w].rule /\ s \in begun
        BY <1>1, <1>4, <1>7, <2>7
      <3>2. Carriers(s)' = Carriers(s)
        BY <1>2, <2>1, <2>2, <2>3, <3>1
      <3> QED
        BY <2>6, <3>1, <3>2
    <2>8. CASE "rule" \in Written(q) /\ ~follows
      <3>1. s # task[w].rule
        BY <1>1, <2>8
      <3>2. CASE s = row.rule
        <4>1. s \notin begun
          BY <1>8, <1>9, <2>8, <3>2
        <4>2. Carriers(s) = {}
          BY <4>1 DEF KInv, TasksShaped, Carriers
        <4>3. Carriers(s)' = {w}
          BY <1>2, <2>1, <2>2, <2>8, <3>2, <4>2
        <4> QED
          BY <1>2, <4>3
      <3>3. CASE s # row.rule
        <4>1. s \in begun
          BY <1>1, <2>8, <3>3
        <4>2. Carriers(s)' = Carriers(s)
          BY <1>2, <2>1, <2>2, <2>3, <2>8, <3>1, <3>3
        <4> QED
          BY <2>6, <4>1, <4>2
      <3> QED
        BY <3>2, <3>3
    <2>9. CASE "rule" \in Written(q) /\ follows
      <3>1. row.rule = 0 /\ s \in begun
        BY <1>1, <1>2, <1>4, <2>9
      <3>2. PICK t \in TaskIds : Carriers(s) = {t}
        BY <2>6, <3>1
      <3>3. CASE <<"rule", w>> \in q.missed
        <4>1. s # task[w].rule /\ s # q.read.rule
          BY <1>1, <2>9, <3>3
        <4>2. Carriers(s)' = Carriers(s)
          BY <1>2, <2>1, <2>2, <2>3, <2>4, <2>9, <3>1, <4>1
        <4> QED
          BY <3>2, <4>2
      <3>4. CASE <<"rule", w>> \notin q.missed
        <4>1. task[w].rule = q.read.rule
          <5>1. RuleKnown(q)
            BY <1>1 DEF KInv, RulesSeen, q
          <5> QED
            BY <1>1, <3>4, <5>1 DEF RuleKnown, w
        <4>2. CASE s = q.read.rule
          <5>1. Carriers(s) = {w}
            BY <2>3, <3>2, <4>1, <4>2
          <5>2. Carriers(s)' = {new}
            BY <1>7, <2>1, <2>2, <2>9, <3>1, <4>2, <5>1
          <5> QED
            BY <1>7, <2>9, <5>2
        <4>3. CASE s # q.read.rule
          <5>1. Carriers(s)' = Carriers(s)
            BY <1>2, <2>1, <2>2, <2>3, <2>4, <2>9, <3>1, <4>1, <4>3
          <5> QED
            BY <3>2, <5>1
        <4> QED
          BY <4>2, <4>3
      <3> QED
        BY <3>3, <3>4
    <2> QED
      BY <2>7, <2>8, <2>9
  <1> QED
    BY <1>10, <1>14, <1>15, <1>16, <1>17, <1>18, <1>19 DEF KInv

(* A row that is moved, or loses who is responsible, is the same task.     *)
LEMMA MovedRow ==
    ASSUME NEW row \in Row, NEW a \in Areas, NEW new, new = [row EXCEPT !.area = a]
    PROVE  /\ new \in Row /\ new.status = row.status /\ new.completed = row.completed
           /\ new.rule = row.rule /\ new.area = a /\ new.assignee = row.assignee
  BY DEF Row

LEMMA ReassignedRow ==
    ASSUME NEW row \in Row, NEW v \in Users \cup {NoOne}, NEW new, new = [row EXCEPT !.assignee = v]
    PROVE  /\ new \in Row /\ new.status = row.status /\ new.completed = row.completed
           /\ new.rule = row.rule /\ new.area = row.area /\ new.assignee = v
  BY DEF Row

(* A task that is deleted ends its series.                                 *)
LEMMA DeleteStep ==
    ASSUME IInv, KInv, NEW c \in Clients, CommitDelete(c)
    PROVE  KInv'
  <1> DEFINE w == req[c].what
  <1>1. /\ req[c].kind = "delete" /\ task' = [task EXCEPT ![w] = NoTask] /\ Finish(c, {})
        /\ ended' = IF There(w) THEN ended \cup {task[w].rule} ELSE ended
        /\ UNCHANGED <<taskCount, begun, torn, ops>>
    BY DEF CommitDelete, Under, Finish
  <1>2. w \in TaskIds
    BY <1>1 DEF KInv, PlansMade, Plan
  <1>3. \A d \in Clients : Ages(d) /\ clash \subseteq clash'
    BY <1>1, FinishAges
  <1> HIDE DEF w
  <1>4. clash \subseteq clash'
    BY <1>1 DEF Finish
  <1>5. /\ task'[w] = NoTask /\ \A t \in TaskIds \ {w} : task'[t] = task[t]
        /\ task \in [TaskIds -> Row \cup {NoTask}] /\ task' \in [TaskIds -> Row \cup {NoTask}]
    BY <1>1, <1>2 DEF KInv, TasksShaped
  <1>6. \A t \in TaskIds : TaskKept(t) /\ (There(t) /\ task'[t] = NoTask => task[t].rule \in ended')
    BY <1>1, <1>5 DEF TaskKept, There
  <1>7. ended \subseteq ended' /\ ended' \subseteq begun
    BY <1>1, <1>2 DEF KInv, TasksShaped
  <1>8. \A t \in TaskIds : ~(task'[t] # NoTask /\ task'[t].area # task[t].area)
    BY <1>5
  <1> QED
    BY <1>1, <1>3, <1>4, <1>5, <1>6, <1>7, <1>8, QuietTasks

(* An area that is deleted takes with it what it has not moved.            *)
LEMMA DropTasksStep ==
    ASSUME IInv, KInv, NEW c \in Clients, CommitDrop(c)
    PROVE  KInv'
  <1> DEFINE a == req[c].what
             to == req[c].arg
             moving == IF req[c].read = {} THEN {} ELSE TasksIn(a)
             moved == [t \in TaskIds |->
                          IF t \in moving THEN [task[t] EXCEPT !.area = to] ELSE task[t]]
             gone == {t \in TaskIds : There(t) /\ moved[t].area = a}
  <1>1. /\ req[c].kind = "drop"
        /\ task' = [t \in TaskIds |-> IF moved[t].area = a THEN NoTask ELSE moved[t]]
        /\ ended' = ended \cup {task[t].rule : t \in gone}
        /\ UNCHANGED <<taskCount, begun, torn, ops>>
    BY DEF CommitDrop, Drop, Under, Finish
  <1>2. a \in Areas /\ (moving # {} => to \in Areas \ {a}) /\ moving \subseteq {t \in TaskIds : There(t)}
    BY <1>1 DEF KInv, PlansMade, Plan, TasksIn
  <1>3. PICK things : Finish(c, things) /\ \A t \in moving : <<"in", t>> \in things
    BY DEF CommitDrop
  <1>4. /\ \A d \in Clients : Ages(d) /\ (req'[d] # Idle => things \subseteq req'[d].missed)
        /\ clash \subseteq clash'
    BY <1>3, FinishAges
  <1>5. task \in [TaskIds -> Row \cup {NoTask}] /\ a # 0 /\ NoTask.area = 0
    BY <1>2, WorkspaceAssumption DEF KInv, TasksShaped, Areas, NoTask
  <1>6. ASSUME NEW t \in TaskIds
        PROVE  /\ TaskKept(t) /\ task'[t] \in Row \cup {NoTask}
               /\ There(t) /\ task'[t] = NoTask => t \in gone
               /\ task'[t] # NoTask /\ task'[t].area # task[t].area => t \in moving
    <2>1. CASE t \in moving
      <3>1. task[t] \in Row /\ There(t) /\ to \in Areas \ {a}
        BY <1>2, <1>5, <2>1 DEF There
      <3>2. moved[t] = [task[t] EXCEPT !.area = to]
        BY <2>1
      <3>3. /\ moved[t] \in Row /\ moved[t].status = task[t].status /\ moved[t].rule = task[t].rule
            /\ moved[t].completed = task[t].completed /\ moved[t].area = to
        BY <3>1, <3>2, MovedRow
      <3>4. task'[t] = moved[t]
        BY <1>1, <3>1, <3>3
      <3>5. task'[t] # NoTask
        BY <3>3, <3>4, NoTaskIsNoRow
      <3> QED
        BY <2>1, <3>1, <3>3, <3>4, <3>5 DEF TaskKept
    <2>2. CASE t \notin moving
      <3>1. moved[t] = task[t]
        BY <2>2
      <3>2. task'[t] = IF task[t].area = a THEN NoTask ELSE task[t]
        BY <1>1, <3>1
      <3> QED
        BY <1>5, <3>1, <3>2 DEF TaskKept, There
    <2> QED
      BY <2>1, <2>2
  <1> HIDE DEF moved, moving, a
  <1>7. task' \in [TaskIds -> Row \cup {NoTask}]
    BY <1>1, <1>6
  <1>8. ended \subseteq ended' /\ ended' \subseteq begun /\ \A t \in gone : task[t].rule \in ended'
    BY <1>1 DEF KInv, TasksShaped
  <1> HIDE DEF gone
  <1>9. \A t \in TaskIds : TaskKept(t) /\ (There(t) /\ task'[t] = NoTask => task[t].rule \in ended')
    BY <1>6, <1>8
  <1>10. \A t \in TaskIds : task'[t] # NoTask /\ task'[t].area # task[t].area =>
             \A d \in Clients : req'[d] # Idle => <<"in", t>> \in req'[d].missed
    BY <1>3, <1>4, <1>6
  <1>11. clash \subseteq clash'
    BY <1>3 DEF Finish
  <1> QED
    BY <1>1, <1>4, <1>7, <1>8, <1>9, <1>10, <1>11, QuietTasks

(* With an account its tasks go; the others only lose the name.            *)
LEMMA AccountTasksStep ==
    ASSUME IInv, KInv, NEW c \in Clients, CommitAccount(c)
    PROVE  KInv'
  <1> DEFINE u == req[c].by
             gone == {t \in TaskIds : There(t) /\ task[t].area \in Owned(u)}
  <1>1. /\ task' = [t \in TaskIds |->
                       IF ~There(t) \/ task[t].area \in Owned(u) THEN NoTask
                       ELSE [task[t] EXCEPT !.assignee =
                                IF task[t].assignee = u THEN NoOne ELSE task[t].assignee]]
        /\ ended' = ended \cup {task[t].rule : t \in gone}
        /\ UNCHANGED <<taskCount, begun, torn, ops>>
    BY DEF CommitAccount, Finish
  <1>2. \E things : Finish(c, things)
    BY DEF CommitAccount
  <1>3. \A d \in Clients : Ages(d) /\ clash \subseteq clash'
    BY <1>2, FinishAges
  <1>4. clash \subseteq clash'
    BY <1>2 DEF Finish
  <1>5. task \in [TaskIds -> Row \cup {NoTask}]
    BY DEF KInv, TasksShaped
  <1> HIDE DEF u
  <1>6. ASSUME NEW t \in TaskIds
        PROVE  /\ TaskKept(t) /\ task'[t] \in Row \cup {NoTask}
               /\ There(t) /\ task'[t] = NoTask => t \in gone
               /\ task'[t] # NoTask => task'[t].area = task[t].area
    <2>1. CASE ~There(t) \/ task[t].area \in Owned(u)
      BY <1>1, <2>1 DEF TaskKept
    <2>2. CASE There(t) /\ task[t].area \notin Owned(u)
      <3> DEFINE v == IF task[t].assignee = u THEN NoOne ELSE task[t].assignee
      <3>1. task[t] \in Row /\ task'[t] = [task[t] EXCEPT !.assignee = v]
        BY <1>1, <1>5, <2>2 DEF There
      <3>2. v \in Users \cup {NoOne}
        BY <3>1 DEF Row
      <3> HIDE DEF v
      <3> DEFINE new == [task[t] EXCEPT !.assignee = v]
      <3>3. /\ new \in Row /\ new.status = task[t].status /\ new.area = task[t].area
            /\ new.completed = task[t].completed /\ new.rule = task[t].rule
        BY <3>1, <3>2, ReassignedRow
      <3>4. task'[t] = new
        BY <3>1
      <3> HIDE DEF new
      <3> QED
        BY <2>2, <3>3, <3>4, NoTaskIsNoRow DEF TaskKept
    <2> QED
      BY <2>1, <2>2
  <1>7. task' \in [TaskIds -> Row \cup {NoTask}]
    BY <1>1, <1>6
  <1>8. ended \subseteq ended' /\ ended' \subseteq begun /\ \A t \in gone : task[t].rule \in ended'
    BY <1>1 DEF KInv, TasksShaped
  <1> HIDE DEF gone
  <1>9. \A t \in TaskIds : TaskKept(t) /\ (There(t) /\ task'[t] = NoTask => task[t].rule \in ended')
    BY <1>6, <1>8
  <1>10. \A t \in TaskIds : ~(task'[t] # NoTask /\ task'[t].area # task[t].area)
    BY <1>6
  <1> QED
    BY <1>1, <1>3, <1>4, <1>7, <1>8, <1>9, <1>10, QuietTasks

(* What is not about tasks leaves them alone.                              *)
LEMMA OtherSteps ==
    ASSUME IInv, KInv,
           \/ \E c \in Clients : \/ CommitArea(c) \/ CommitInvite(c) \/ CommitRevoke(c)
                                 \/ CommitAccept(c) \/ CommitRole(c) \/ Abort(c)
           \/ \E l \in LinkIds : Expire(l)
           \/ UNCHANGED vars
    PROVE  KInv'
  <1>1. UNCHANGED <<task, taskCount, begun, ended, torn, ops>>
    BY DEF CommitArea, CommitInvite, CommitRevoke, CommitAccept, CommitRole, Abort, Expire, Finish,
           taskVars, historyVars, vars
  <1>2. clash \subseteq clash' /\ \A d \in Clients : Ages(d)
    <2>1. CASE \E c \in Clients : Abort(c)
      <3>1. PICK c \in Clients : Abort(c)
        BY <2>1
      <3>2. req' = [d \in Clients |-> IF d = c THEN Idle ELSE req[d]] /\ clash' = clash
        BY <3>1 DEF Abort, IInv, Shapes
      <3> QED
        BY <3>2 DEF IInv, Shapes, Ages
    <2>2. CASE UNCHANGED vars \/ \E l \in LinkIds : Expire(l)
      <3>1. UNCHANGED <<req, clash>>
        BY <2>2 DEF vars, Expire
      <3> QED
        BY <3>1 DEF IInv, Shapes, Ages
    <2>3. CASE \E c \in Clients : \/ CommitArea(c) \/ CommitInvite(c) \/ CommitRevoke(c)
                                  \/ CommitAccept(c) \/ CommitRole(c)
      <3>1. PICK c \in Clients : \E things : Finish(c, things)
        BY <2>3 DEF CommitArea, CommitInvite, CommitRevoke, CommitAccept, CommitRole
      <3>2. \A d \in Clients : Ages(d)
        BY <3>1, FinishAges
      <3> QED
        BY <3>1, <3>2 DEF Finish
    <2> QED
      BY <2>1, <2>2, <2>3
  <1>3. \A t \in TaskIds : TaskKept(t)
    BY <1>1 DEF TaskKept, There, KInv, TasksShaped
  <1>4. task' \in [TaskIds -> Row \cup {NoTask}] /\ ended' \subseteq begun
    BY <1>1 DEF KInv, TasksShaped
  <1>5. \A t \in TaskIds : ~(There(t) /\ task'[t] = NoTask) /\ task'[t].area = task[t].area
    BY <1>1 DEF There
  <1> QED
    BY <1>1, <1>2, <1>3, <1>4, <1>5, QuietTasks

-----------------------------------------------------------------------------
(* What a request about tasks has checked is a plan.                       *)
LEMMA NewTaskPlan ==
    ASSUME IInv, KInv, NEW c \in Clients, NEW u, NEW areas \in SUBSET Areas, NEW f \in NewTasks,
           NewTask(c, u, areas, f)
    PROVE  KInv'
  <1> DEFINE Made(a) == [area |-> a, due |-> f.due, time |-> f.time, status |-> "open",
                         completed |-> FALSE, rule |-> IF f.recurring THEN ops + 1 ELSE 0,
                         assignee |-> f.assignee]
  <1>1. PICK a \in areas : Start(c, "create", u, a, NoTask, Made(a))
    BY DEF NewTask
  <1>2. /\ f.due \in Days \cup {NoDate} /\ f.time \in BOOLEAN /\ f.assignee \in Users \cup {NoOne}
    BY WorkspaceAssumption
  <1>3. ops + 1 \in Int
    BY WorkspaceAssumption DEF KInv, TasksShaped
  <1>4. Made(a) \in Row
    BY <1>2, <1>3 DEF Row, Statuses
  <1>5. /\ Made(a).area = a /\ Consistent(Made(a))
        /\ Made(a).rule = IF f.recurring THEN ops + 1 ELSE 0
    BY DEF Consistent
  <1> HIDE DEF Made
  <1> DEFINE q == [kind |-> "create", what |-> a, read |-> NoTask, arg |-> Made(a)]
  <1>6. Plan(q)
    BY <1>4, <1>5 DEF Plan, Writes
  <1>7. NewSeries(q) \subseteq {ops + 1}
    BY <1>5 DEF NewSeries
  <1> QED
    BY <1>1, <1>6, <1>7, StartPlan DEF Writes

(* A request that writes a task has read it and makes at most one new      *)
(* series.                                                                 *)
LEMMA WritePlan ==
    ASSUME IInv, KInv, NEW c \in Clients, NEW kind \in Writes, NEW u, NEW t \in TaskIds, There(t),
           NEW row \in Row, NEW next \in Days \cup {NoDate},
           Start(c, kind, u, t, task[t], [row |-> row, next |-> next]),
           row.rule \in {task[t].rule, 0, ops + 1},
           next # NoDate => task[t].rule # 0 /\ row.rule = 0,
           Consistent(task[t]) => Consistent(row)
    PROVE  KInv'
  <1>1. task[t] \in Row /\ task[t].rule \in begun /\ t <= taskCount
    BY DEF KInv, TasksShaped, There
  <1> DEFINE arg == [row |-> row, next |-> next]
             q == [kind |-> kind, what |-> t, read |-> task[t], arg |-> arg]
  <1>2. arg.row = row /\ arg.next = next
    OBVIOUS
  <1> HIDE DEF arg
  <1>3. Plan(q)
    BY <1>1, <1>2 DEF Plan, Writes
  <1>4. NewSeries(q) \subseteq {ops + 1}
    BY <1>2 DEF NewSeries, Writes
  <1>5. Consistent(task[t]) => Consistent(arg.row)
    BY <1>2
  <1>6. Start(c, kind, u, t, task[t], arg)
    BY DEF arg
  <1>7. kind # "drop"
    BY DEF Writes
  <1> QED
    BY <1>3, <1>4, <1>5, <1>6, <1>7, StartPlan

(* Every request about tasks.                                              *)
LEMMA TaskRequests ==
    ASSUME IInv, KInv, NEW c \in Clients, NEW u \in users, StartTask(c, u)
    PROVE  KInv'
  <1>1. ASSUME NEW a \in Areas \cup {NoArea}, NEW f \in NewTasks,
               CreateTask(c, u, a, f) \/ QuickAdd(c, u, a, f)
        PROVE  KInv'
    <2>1. \A b \in Areas \cup {NoArea} : AreaForNewItem(u, b) \subseteq Areas
      BY DEF AreaForNewItem, DefaultArea, Visible
    <2>2. \A named, b \in Areas \cup {NoArea} : QuickArea(u, named, b) \subseteq Areas
      BY <2>1 DEF QuickArea, Visible
    <2>3. \E areas \in SUBSET Areas : NewTask(c, u, areas, f)
      BY <1>1, <2>1, <2>2 DEF CreateTask, QuickAdd
    <2> QED
      BY <2>3, NewTaskPlan
  <1>2. ASSUME NEW t \in TaskIds, There(t) PROVE task[t] \in Row /\ ops + 1 \in Int
    BY <1>2, WorkspaceAssumption DEF KInv, TasksShaped, There
  <1>3. ASSUME NEW t \in TaskIds, NEW ch \in Changes, PatchTask(c, u, t, ch) PROVE KInv'
    <2> DEFINE row == Patched(task[t], ch, ops + 1)
    <2>1. There(t) /\ Start(c, "patch", u, t, task[t], [row |-> row, next |-> NoDate])
      BY <1>3 DEF PatchTask
    <2>2. /\ row \in Row /\ row.rule \in {task[t].rule, 0, ops + 1}
          /\ Consistent(task[t]) => Consistent(row)
      BY <1>2, <2>1, PatchedRow DEF Consistent
    <2> HIDE DEF row
    <2> QED
      BY <2>1, <2>2, WritePlan DEF Writes
  <1>4. ASSUME NEW t \in TaskIds, CompleteTask(c, u, t) PROVE KInv'
    <2> DEFINE old == task[t]
               row == [old EXCEPT !.status = "done", !.completed = TRUE, !.rule = 0]
    <2>1. PICK next \in IF old.rule = 0 THEN {NoDate} ELSE Days \cup {NoDate} :
             Start(c, "complete", u, t, old, [row |-> row, next |-> next])
      BY <1>4 DEF CompleteTask
    <2>2. There(t) /\ old \in Row
      BY <1>2, <1>4 DEF CompleteTask
    <2>3. next \in Days \cup {NoDate} /\ (next # NoDate => old.rule # 0)
      BY <2>1
    <2> HIDE DEF old
    <2>4. row \in Row
      <3> DEFINE done == [old EXCEPT !.status = "done", !.completed = TRUE]
      <3>1. done \in Row
        BY <2>2 DEF Row, Statuses
      <3>2. row = [done EXCEPT !.rule = 0]
        OBVIOUS
      <3> HIDE DEF done, row
      <3> QED
        BY <3>1, <3>2 DEF Row
    <2>5. row.status = "done" /\ row.completed = TRUE
      BY <2>2 DEF Row
    <2>6. row.rule = 0
      BY <2>2 DEF Row
    <2>7. Consistent(row)
      BY <2>5 DEF Consistent
    <2> HIDE DEF row
    <2> QED
      BY <2>1, <2>2, <2>3, <2>4, <2>6, <2>7, WritePlan DEF Writes, old
  <1>5. ASSUME NEW t \in TaskIds, ReopenTask(c, u, t) PROVE KInv'
    <2> DEFINE old == task[t]
               row == [old EXCEPT !.status = "open", !.completed = FALSE]
    <2>1. Start(c, "reopen", u, t, old, [row |-> row, next |-> NoDate])
      BY <1>5 DEF ReopenTask
    <2>2. There(t) /\ old \in Row
      BY <1>2, <1>5 DEF ReopenTask
    <2> HIDE DEF old
    <2>3. row \in Row /\ row.rule = old.rule
      BY <2>2 DEF Row, Statuses
    <2>4. row.status = "open" /\ row.completed = FALSE
      BY <2>2 DEF Row
    <2>5. Consistent(row)
      BY <2>4 DEF Consistent
    <2> HIDE DEF row
    <2> QED
      BY <2>1, <2>2, <2>3, <2>5, WritePlan DEF Writes, old
  <1>6. ASSUME NEW t \in TaskIds, DeleteTask(c, u, t) PROVE KInv'
    <2>1. Start(c, "delete", u, t, task[t], NoTask)
      BY <1>6 DEF DeleteTask
    <2>2. Plan([kind |-> "delete", what |-> t, read |-> task[t], arg |-> NoTask])
      BY DEF Plan, Writes
    <2>3. NewSeries([kind |-> "delete", what |-> t, read |-> task[t], arg |-> NoTask]) = {}
      BY DEF NewSeries, Writes
    <2> QED
      BY <2>1, <2>2, <2>3, StartPlan DEF Writes
  <1> QED
    BY <1>1, <1>3, <1>4, <1>5, <1>6 DEF StartTask

(* Requests about areas and people: who deletes an area with tasks in it   *)
(* has named another one.                                                  *)
LEMMA SharingRequests ==
    ASSUME IInv, KInv, NEW c \in Clients, NEW u \in users, StartSharing(c, u)
    PROVE  KInv'
  <1>1. ASSUME NEW kind, kind \notin Writes \cup {"create", "delete", "drop"},
               NEW what, NEW read, NEW arg, Start(c, kind, u, what, read, arg)
        PROVE  KInv'
    <2> DEFINE q == [kind |-> kind, what |-> what, read |-> read, arg |-> arg]
    <2>1. Plan(q) /\ NewSeries(q) = {}
      BY <1>1 DEF Plan, NewSeries
    <2> QED
      BY <1>1, <2>1, StartPlan
  <1>2. ASSUME NEW a \in Areas, NEW to \in Areas, DeleteArea(c, u, a, to) PROVE KInv'
    <2> DEFINE q == [kind |-> "drop", what |-> a, read |-> TasksIn(a), arg |-> to]
    <2>1. Start(c, "drop", u, a, TasksIn(a), to) /\ (TasksIn(a) # {} => to # a)
      BY <1>2 DEF DeleteArea
    <2>2. Plan(q) /\ NewSeries(q) = {}
      BY <2>1 DEF Plan, NewSeries, Writes
    <2> QED
      BY <2>1, <2>2, StartPlan DEF Writes
  <1>3. \/ \E a, to \in Areas : DeleteArea(c, u, a, to)
        \/ \E kind \in {"area", "invite", "revoke", "accept", "role", "account"} :
              \E what, read, arg : Start(c, kind, u, what, read, arg)
    BY DEF StartSharing, CreateArea, CreateInvite, RevokeInvite, AcceptInvite, RemoveMember,
           ChangeRole, DeleteAccount
  <1> QED
    BY <1>1, <1>2, <1>3 DEF Writes

(* Every step keeps what is known of tasks.                                *)
LEMMA StepKInv == IInv /\ KInv /\ [Next]_vars => KInv'
  <1> SUFFICES ASSUME IInv, KInv, [Next]_vars PROVE KInv'
    OBVIOUS
  <1>1. ASSUME NEW c \in Clients, NEW u \in users, StartTask(c, u) \/ StartSharing(c, u)
        PROVE  KInv'
    BY <1>1, TaskRequests, SharingRequests
  <1>2. ASSUME NEW c \in Clients, CommitAny(c) PROVE KInv'
    BY <1>2, CreateStep, WriteStep, DeleteStep, DropTasksStep, AccountTasksStep, OtherSteps
       DEF CommitAny
  <1> QED
    BY <1>1, <1>2, OtherSteps DEF Next

(* It holds all the time, together with what is known of people.           *)
LEMMA AlwaysKInv == Spec => [](IInv /\ KInv)
  BY InitIInv, StepIInv, InitKInv, StepKInv, PTL DEF Spec

(* A task is done exactly when it has a time of completion, however        *)
(* completing, reopening and PATCH overlap, unless two of them have both   *)
(* written its progress.                                                   *)
THEOREM DoneMeansCompleted == Spec => []CompletionIsConsistent
  <1>1. KInv => CompletionIsConsistent
    BY DEF KInv
  <1> QED
    BY <1>1, AlwaysKInv, PTL

(* "Die Wiederholung wandert zur naechsten Aufgabe - so entsteht nie ein   *)
(* Duplikat": exactly one task carries on a series that nobody has ended,  *)
(* unless two overlapping requests have both written its rule.             *)
THEOREM OneTaskCarriesOn == Spec => []SeriesGoesOn
  <1>1. KInv => SeriesGoesOn
    <2> SUFFICES ASSUME KInv, NEW s \in begun \ (ended \cup torn \cup {0})
                 PROVE  Cardinality(Carriers(s)) = 1
      BY DEF SeriesGoesOn
    <2>1. PICK t \in TaskIds : Carriers(s) = {t}
      BY DEF KInv, OneCarrier
    <2> QED
      BY <2>1, FS_Singleton
  <1> QED
    BY <1>1, AlwaysKInv, PTL

(* What happens to a task that goes.                                       *)
Excused(t) ==
    \E c \in Clients : /\ req[c] # Idle /\ req'[c] = Idle
                       /\ \/ req[c].kind = "delete" /\ req[c].what = t
                          \/ req[c].kind = "account" /\ owner[task[t].area] = req[c].by
                          \/ /\ req[c].kind = "drop" /\ task[t].area = req[c].what
                             /\ <<"in", t>> \in req[c].missed

(* A commit by which a task goes has a reason.                             *)
LEMMA OnlyExcused ==
    ASSUME IInv, KInv, NEW c \in Clients, CommitAny(c), NEW t \in TaskIds, There(t), task'[t] = NoTask
    PROVE  Excused(t)
  <1>1. \E things : Finish(c, things)
    BY DEF CommitAny, CommitCreate, CommitWrite, CommitDelete, CommitArea, CommitDrop, CommitInvite,
           CommitRevoke, CommitAccept, CommitRole, CommitAccount
  <1>2. req'[c] = Idle
    BY <1>1, FinishAges
  <1>3. task \in [TaskIds -> Row \cup {NoTask}] /\ task[t] \in Row
    BY DEF KInv, TasksShaped, There
  <1>4. CASE CommitCreate(c)
    <2>1. req[c].kind = "create" /\ task' = [task EXCEPT ![taskCount + 1] = req[c].arg]
      BY <1>4 DEF CommitCreate, Under
    <2>2. req[c].arg # NoTask
      BY <2>1, NoTaskIsNoRow DEF KInv, PlansMade, Plan
    <2> QED
      BY <1>3, <2>1, <2>2 DEF There
  <1>5. CASE CommitWrite(c)
    <2> DEFINE w == req[c].what
    <2>1. /\ req[c].kind \in Writes /\ There(w)
          /\ task' = [x \in TaskIds |->
                IF x = w THEN Merged(req[c])
                ELSE IF req[c].arg.next # NoDate /\ x = taskCount + 1 THEN Follower(req[c])
                ELSE task[x]]
      BY <1>5 DEF CommitWrite, Under, Writes
    <2>2. Plan(req[c]) /\ w \in TaskIds /\ task[w] \in Row
      BY <1>3, <2>1 DEF KInv, PlansMade, Plan, There
    <2>3. Merged(req[c]) # NoTask
      BY <2>1, <2>2, MergedRow, NoTaskIsNoRow DEF Plan
    <2>4. req[c].arg.next # NoDate => Follower(req[c]) # NoTask
      BY <2>1, <2>2, FollowerRow, NoTaskIsNoRow DEF Plan
    <2> QED
      BY <2>1, <2>3, <2>4 DEF There
  <1>6. CASE CommitDelete(c)
    <2>1. req[c].kind = "delete" /\ task' = [task EXCEPT ![req[c].what] = NoTask]
      BY <1>6 DEF CommitDelete, Under
    <2>2. req[c].what = t
      BY <1>3, <2>1 DEF There
    <2> QED
      BY <1>2, <2>1, <2>2 DEF Excused, Idle
  <1>7. CASE CommitDrop(c)
    <2> DEFINE a == req[c].what
               to == req[c].arg
               moving == IF req[c].read = {} THEN {} ELSE TasksIn(a)
               moved == IF t \in moving THEN [task[t] EXCEPT !.area = to] ELSE task[t]
    <2>1. req[c].kind = "drop" /\ task'[t] = IF moved.area = a THEN NoTask ELSE moved
      BY <1>7 DEF CommitDrop, Drop, Under
    <2>2. moving # {} => to \in Areas \ {a}
      BY <2>1 DEF KInv, PlansMade, Plan
    <2>3. t \notin moving
      <3> SUFFICES ASSUME t \in moving PROVE FALSE
        OBVIOUS
      <3>1. moved = [task[t] EXCEPT !.area = to] /\ to \in Areas \ {a}
        BY <2>2
      <3>2. moved \in Row /\ moved.area = to
        BY <1>3, <3>1, MovedRow
      <3> QED
        BY <2>1, <3>1, <3>2, NoTaskIsNoRow
    <2>4. task[t].area = a
      BY <1>3, <2>1, <2>3 DEF There
    <2>5. req[c].read = {} /\ t \in TasksIn(a)
      BY <2>3, <2>4 DEF TasksIn
    <2>6. <<"in", t>> \in req[c].missed
      BY <2>1, <2>5 DEF KInv, EmptySeen
    <2> QED
      BY <1>2, <2>1, <2>4, <2>6 DEF Excused, Idle
  <1>8. CASE CommitAccount(c)
    <2>1. /\ req[c].kind = "account"
          /\ task'[t] = IF ~There(t) \/ task[t].area \in Owned(req[c].by) THEN NoTask
                        ELSE [task[t] EXCEPT !.assignee =
                                IF task[t].assignee = req[c].by THEN NoOne ELSE task[t].assignee]
      BY <1>8 DEF CommitAccount, Under
    <2>2. owner[task[t].area] = req[c].by
      <3> DEFINE v == IF task[t].assignee = req[c].by THEN NoOne ELSE task[t].assignee
      <3>1. v \in Users \cup {NoOne}
        BY <1>3 DEF Row
      <3> HIDE DEF v
      <3>2. [task[t] EXCEPT !.assignee = v] # NoTask
        BY <1>3, <3>1, ReassignedRow, NoTaskIsNoRow
      <3> QED
        BY <2>1, <3>2 DEF Owned, v
    <2> QED
      BY <1>2, <2>1, <2>2 DEF Excused, Idle
  <1>9. CASE CommitArea(c) \/ CommitInvite(c) \/ CommitRevoke(c) \/ CommitAccept(c) \/ CommitRole(c)
    BY <1>9 DEF CommitArea, CommitInvite, CommitRevoke, CommitAccept, CommitRole, taskVars, There
  <1> QED
    BY <1>4, <1>5, <1>6, <1>7, <1>8, <1>9 DEF CommitAny

(* A task goes only because somebody deletes it, or the account its area   *)
(* belongs to, or because it was put into an area while that was being     *)
(* deleted: deleting an area takes no task along that it could have seen.  *)
THEOREM NoTaskGoesUnasked == Spec => NoTaskIsLost
  <1> DEFINE A == \A t \in TaskIds : There(t) /\ task'[t] = NoTask =>
          \E c \in Clients : /\ req[c] # Idle /\ req'[c] = Idle
                             /\ \/ req[c].kind = "delete" /\ req[c].what = t
                                \/ req[c].kind = "account" /\ owner[task[t].area] = req[c].by
                                \/ /\ req[c].kind = "drop" /\ task[t].area = req[c].what
                                   /\ <<"in", t>> \in req[c].missed
  <1>1. IInv /\ KInv /\ [Next]_vars => [A]_vars
    <2> SUFFICES ASSUME IInv, KInv, Next, NEW t \in TaskIds, There(t), task'[t] = NoTask
                 PROVE  Excused(t)
      BY DEF Excused
    <2>1. PICK c \in Clients : CommitAny(c)
      <3>1. ASSUME NEW c \in Clients, NEW u \in users, StartTask(c, u) \/ StartSharing(c, u)
            PROVE  task' = task
        <4>1. \E kind, what, read, arg : Start(c, kind, u, what, read, arg)
          BY <3>1 DEF StartTask, StartSharing, CreateTask, QuickAdd, NewTask, PatchTask, CompleteTask,
                      ReopenTask, DeleteTask, CreateArea, DeleteArea, CreateInvite, RevokeInvite,
                      AcceptInvite, RemoveMember, ChangeRole, DeleteAccount
        <4> QED
          BY <4>1 DEF Start, taskVars
      <3>2. ASSUME \/ \E c \in Clients : Abort(c)
                   \/ \E l \in LinkIds : Expire(l)
            PROVE  task' = task
        BY <3>2 DEF Abort, Expire, taskVars
      <3> QED
        BY <3>1, <3>2 DEF Next, There
    <2> QED
      BY <2>1, OnlyExcused
  <1> QED
    BY <1>1, AlwaysKInv, PTL DEF NoTaskIsLost, Spec

-----------------------------------------------------------------------------
(***************************************************************************)
(* Types, and the foreign keys: an area that is there belongs to somebody  *)
(* who is there, and whatever is in an area is in one that is there.       *)
(***************************************************************************)
Owners ==
    /\ owner \in [Areas -> users \cup {NoOne}]
    /\ areaCount \in 0..MaxAreas /\ linkCount \in 0..MaxLinks
RolesShared ==
    /\ role \in [Areas -> [Users -> Roles \cup {"none"}]]
    /\ \A a \in Areas, u \in Users : role[a][u] # "none" => owner[a] \notin {u, NoOne}
LinksLead ==
    /\ link \in [LinkIds -> Link \cup {NoLink}]
    /\ \A l \in LinkIds : link[l] # NoLink => owner[link[l].area] # NoOne
TasksPlaced ==
    \A t \in TaskIds : There(t) => /\ owner[task[t].area] # NoOne
                                   /\ task[t].assignee \in users \cup {NoOne}

(* What a request about people will write.  Who opens a link does not own  *)
(* the area it leads to, and never will.                                   *)
PeoplePlan(q) ==
    /\ q.kind # "idle" => q.by \in Users
    /\ q.kind = "invite" => q.what \in Areas /\ q.arg \in Roles
    /\ q.kind = "accept" => /\ q.read \in Link /\ q.read.area <= areaCount
                            /\ owner[q.read.area] # q.by
    /\ q.kind = "role" => q.what \in Areas \X Users /\ q.arg \in Roles \cup {"none"}
PeoplePlans == \A c \in Clients : PeoplePlan(req[c])

TInv == Owners /\ RolesShared /\ LinksLead /\ TasksPlaced /\ PeoplePlans

(* The three invariants together give the types.                           *)
LEMMA TypesFollow == IInv /\ KInv /\ TInv => TypeOK
  BY DEF IInv, Shapes, KInv, TasksShaped, TInv, Owners, RolesShared, LinksLead, TasksPlaced, TypeOK

(* What is started with is in order.                                       *)
LEMMA InitTInv == Init => TInv
  <1> SUFFICES ASSUME Init PROVE TInv
    OBVIOUS
  <1>1. /\ users = Users /\ owner = StartOwner /\ role = StartRole /\ task = StartTasks
        /\ link = [l \in LinkIds |-> NoLink] /\ linkCount = 0 /\ \A c \in Clients : req[c] = Idle
    BY DEF Init
  <1>2. areaCount \in 0..MaxAreas
    <2>1. PICK n \in 0..MaxAreas : \A a \in Areas : StartOwner[a] # NoOne <=> a <= n
      BY WorkspaceAssumption
    <2>2. MaxAreas \in Nat /\ n \in Nat /\ n <= MaxAreas
      BY WorkspaceAssumption
    <2>3. {a \in Areas : StartOwner[a] # NoOne} = 1..n
      BY <2>1, <2>2 DEF Areas
    <2>4. Cardinality(1..n) = n
      BY <2>2, FS_Interval
    <2> QED
      BY <2>2, <2>3, <2>4 DEF Init
  <1>3. Owners /\ RolesShared /\ LinksLead
    BY <1>1, <1>2, WorkspaceAssumption DEF Owners, RolesShared, LinksLead
  <1>4. TasksPlaced
    BY <1>1, WorkspaceAssumption DEF TasksPlaced, There, Row
  <1>5. PeoplePlans
    BY <1>1 DEF PeoplePlans, PeoplePlan, Idle
  <1> QED
    BY <1>3, <1>4, <1>5 DEF TInv

(* As others go on, areas get no other owner.                              *)
LEMMA AgedPeople ==
    ASSUME IInv, TInv, \A d \in Clients : Ages(d), areaCount' \in Int, areaCount <= areaCount',
           \A a \in Areas : a <= areaCount => owner'[a] \in {owner[a], NoOne}
    PROVE  PeoplePlans'
  <1>1. ASSUME NEW d \in Clients, req'[d] # Idle
        PROVE  PeoplePlan(req[d])'
    <2>1. /\ req'[d].kind = req[d].kind /\ req'[d].what = req[d].what /\ req'[d].by = req[d].by
          /\ req'[d].read = req[d].read /\ req'[d].arg = req[d].arg
      BY <1>1 DEF Ages
    <2>2. PeoplePlan(req[d])
      BY DEF TInv, PeoplePlans
    <2>3. ASSUME req[d].kind = "accept"
          PROVE  /\ req[d].read \in Link /\ req[d].read.area <= areaCount'
                 /\ owner'[req[d].read.area] # req[d].by
      <3> DEFINE a == req[d].read.area
      <3>1. req[d].read \in Link /\ a <= areaCount /\ owner[a] # req[d].by /\ req[d].by \in Users
        BY <2>2, <2>3 DEF PeoplePlan
      <3>2. a \in Areas /\ a \in Int /\ areaCount \in Int
        BY <3>1, WorkspaceAssumption DEF Link, Areas, IInv, Shapes
      <3>3. NoOne # req[d].by
        BY <3>1, WorkspaceAssumption
      <3> HIDE DEF a
      <3>4. owner'[a] # req[d].by /\ a <= areaCount'
        BY <3>1, <3>2, <3>3
      <3> QED
        BY <3>1, <3>4 DEF a
    <2> QED
      BY <2>1, <2>2, <2>3 DEF PeoplePlan
  <1>2. PeoplePlan(Idle)'
    BY DEF PeoplePlan, Idle
  <1> QED
    BY <1>1, <1>2 DEF PeoplePlans, PeoplePlan

(* The areas stay as they are, and so does who shares them.                *)
LEMMA QuietPeople ==
    ASSUME IInv, TInv, UNCHANGED <<users, owner, areaCount, linkCount, role>>,
           link' = [l \in LinkIds |-> link'[l]], \A l \in LinkIds : link'[l] \in {link[l], NoLink},
           \A d \in Clients : Ages(d), TasksPlaced'
    PROVE  TInv'
  <1>1. PeoplePlans'
    BY WorkspaceAssumption, AgedPeople DEF IInv, Shapes
  <1>2. LinksLead'
    BY DEF TInv, LinksLead
  <1>3. Owners' /\ RolesShared'
    BY DEF TInv, Owners, RolesShared
  <1> QED
    BY <1>1, <1>2, <1>3 DEF TInv

(* A task is put where there is an area, for somebody who is there.        *)
LEMMA PlacedTasks ==
    ASSUME IInv, KInv, TInv, NEW c \in Clients, CommitCreate(c) \/ CommitWrite(c) \/ CommitDelete(c)
    PROVE  TInv'
  <1>1. /\ UNCHANGED <<users, owner, areaCount, linkCount, role, link>>
        /\ link' = [l \in LinkIds |-> link'[l]]
    BY DEF CommitCreate, CommitWrite, CommitDelete, peopleVars, areaVars, IInv, Shapes
  <1>2. \E things : Finish(c, things)
    BY DEF CommitCreate, CommitWrite, CommitDelete
  <1>3. \A d \in Clients : Ages(d)
    BY <1>2, FinishAges
  <1>4. task \in [TaskIds -> Row \cup {NoTask}]
    BY DEF KInv, TasksShaped
  <1>5. ASSUME NEW t \in TaskIds, There(t)'
        PROVE  owner[task'[t].area] # NoOne /\ task'[t].assignee \in users \cup {NoOne}
    <2>1. CASE task'[t] = task[t]
      BY <1>5, <2>1 DEF TInv, TasksPlaced, There
    <2>2. CASE CommitCreate(c) /\ task'[t] # task[t]
      <3>1. /\ req[c].kind = "create" /\ owner[req[c].what] # NoOne
            /\ req[c].arg.assignee \in users \cup {NoOne}
            /\ task' = [task EXCEPT ![taskCount + 1] = req[c].arg]
        BY <2>2 DEF CommitCreate, Under
      <3>2. task'[t] = req[c].arg /\ req[c].arg.area = req[c].what
        BY <1>4, <2>2, <3>1 DEF KInv, PlansMade, Plan
      <3> QED
        BY <3>1, <3>2
    <2>3. CASE CommitWrite(c) /\ task'[t] # task[t]
      <3> DEFINE q == req[c]
                 row == Merged(q)
                 w == q.what
                 follows == q.arg.next # NoDate
      <3>1. /\ q.kind \in Writes /\ There(w)
            /\ "area" \in Written(q) => owner[row.area] # NoOne
            /\ "assignee" \in Written(q) => row.assignee \in users \cup {NoOne}
            /\ follows => owner[q.read.area] # NoOne
            /\ task' = [x \in TaskIds |-> IF x = w THEN row
                           ELSE IF follows /\ x = taskCount + 1 THEN Follower(q) ELSE task[x]]
        BY <2>3 DEF CommitWrite, Under, Writes
      <3>2. /\ w \in TaskIds /\ task[w] \in Row /\ q.arg.row \in Row /\ q.read \in Row
            /\ q.arg.next \in Days \cup {NoDate}
        BY <1>4, <3>1 DEF KInv, PlansMade, Plan, There
      <3>3. \A f \in Fields : row[f] = IF f \in Written(q) THEN q.arg.row[f] ELSE task[w][f]
        BY <3>2, MergedRow
      <3>4. follows => Follower(q).area = q.read.area /\ Follower(q).assignee = NoOne
        BY <3>2, FollowerRow
      <3> HIDE DEF q, row, w, follows
      <3>5. /\ "area" \notin Written(q) => row.area = task[w].area
            /\ "assignee" \notin Written(q) => row.assignee = task[w].assignee
        BY <3>3 DEF Fields
      <3>6. owner[row.area] # NoOne /\ row.assignee \in users \cup {NoOne}
        BY <3>1, <3>2, <3>5 DEF TInv, TasksPlaced
      <3>7. \/ task'[t] = row
            \/ follows /\ task'[t] = Follower(q)
        BY <2>3, <3>1
      <3> QED
        BY <3>1, <3>4, <3>6, <3>7
    <2>4. CASE CommitDelete(c) /\ task'[t] # task[t]
      BY <1>4, <1>5, <2>4 DEF CommitDelete, There
    <2> QED
      BY <2>1, <2>2, <2>3, <2>4
  <1>6. TasksPlaced'
    BY <1>1, <1>5 DEF TasksPlaced
  <1> QED
    BY <1>1, <1>3, <1>6, QuietPeople

(* Links go; roles are changed of those who have one.                      *)
LEMMA RevokedOrRole ==
    ASSUME IInv, KInv, TInv,
           \/ \E c \in Clients : CommitRevoke(c) \/ CommitRole(c) \/ Abort(c)
           \/ \E l \in LinkIds : Expire(l)
           \/ UNCHANGED vars
    PROVE  TInv'
  <1>1. /\ UNCHANGED <<users, owner, areaCount, linkCount, task>>
        /\ link' = [l \in LinkIds |-> link'[l]] /\ \A l \in LinkIds : link'[l] \in {link[l], NoLink}
    BY DEF CommitRevoke, CommitRole, Abort, Expire, vars, peopleVars, areaVars, taskVars, IInv, Shapes
  <1>2. \A d \in Clients : Ages(d)
    <2>1. CASE \E c \in Clients : Abort(c)
      <3>1. PICK c \in Clients : Abort(c)
        BY <2>1
      <3>2. req' = [d \in Clients |-> IF d = c THEN Idle ELSE req[d]]
        BY <3>1 DEF Abort, IInv, Shapes
      <3> QED
        BY <3>2 DEF IInv, Shapes, Ages
    <2>2. CASE UNCHANGED vars \/ \E l \in LinkIds : Expire(l)
      <3>1. UNCHANGED req
        BY <2>2 DEF vars, Expire
      <3> QED
        BY <3>1 DEF IInv, Shapes, Ages
    <2>3. CASE \E c \in Clients : CommitRevoke(c) \/ CommitRole(c)
      <3>1. PICK c \in Clients : \E things : Finish(c, things)
        BY <2>3 DEF CommitRevoke, CommitRole
      <3> QED
        BY <3>1, FinishAges
    <2> QED
      BY <2>1, <2>2, <2>3
  <1>3. TasksPlaced'
    BY <1>1 DEF TInv, TasksPlaced, There
  <1>4. CASE \E c \in Clients : CommitRole(c)
    <2>1. PICK c \in Clients : CommitRole(c)
      BY <1>4
    <2> DEFINE a == req[c].what[1]
               v == req[c].what[2]
               r == req[c].arg
    <2>2. /\ req[c].kind = "role" /\ (r # "none" => role[a][v] # "none")
          /\ role' = [role EXCEPT ![a][v] = r]
      BY <2>1 DEF CommitRole, Under
    <2>3. a \in Areas /\ v \in Users /\ r \in Roles \cup {"none"}
      BY <2>2 DEF TInv, PeoplePlans, PeoplePlan
    <2> HIDE DEF a, v, r
    <2>4. /\ role' \in [Areas -> [Users -> Roles \cup {"none"}]]
          /\ \A b \in Areas, u \in Users :
                role'[b][u] = IF b = a /\ u = v THEN r ELSE role[b][u]
      BY <2>2, <2>3 DEF TInv, RolesShared
    <2>5. RolesShared'
      BY <1>1, <2>2, <2>3, <2>4 DEF TInv, RolesShared
    <2>6. LinksLead' /\ Owners'
      BY <1>1 DEF TInv, LinksLead, Owners
    <2>7. PeoplePlans'
      BY <1>1, <1>2, AgedPeople DEF IInv, Shapes
    <2> QED
      BY <1>3, <2>5, <2>6, <2>7 DEF TInv
  <1>5. CASE UNCHANGED role
    BY <1>1, <1>2, <1>3, <1>5, QuietPeople
  <1>6. UNCHANGED role \/ \E c \in Clients : CommitRole(c)
    BY DEF CommitRevoke, Abort, Expire, vars, areaVars
  <1> QED
    BY <1>4, <1>5, <1>6

(* An area that is new has had no members.                                 *)
LEMMA AreaType ==
    ASSUME IInv, KInv, TInv, NEW c \in Clients, CommitArea(c)
    PROVE  TInv'
  <1> DEFINE new == areaCount + 1
             u == req[c].by
  <1>1. /\ UNCHANGED <<users, role, link, linkCount, task>> /\ areaCount' = new
        /\ owner' = [owner EXCEPT ![new] = u] /\ u \in users /\ areaCount < MaxAreas /\ Finish(c, {})
    BY DEF CommitArea, peopleVars, taskVars
  <1>2. /\ new \in Areas /\ areaCount \in Nat /\ MaxAreas \in Nat /\ Areas \subseteq Int
        /\ owner[new] = NoOne /\ u # NoOne
    BY <1>1, WorkspaceAssumption DEF IInv, Shapes, Unused, Areas
  <1>3. \A d \in Clients : Ages(d)
    BY <1>1, FinishAges
  <1> HIDE DEF u
  <1>4. /\ owner' \in [Areas -> users \cup {NoOne}] /\ owner'[new] = u
        /\ \A a \in Areas \ {new} : owner'[a] = owner[a]
    BY <1>1, <1>2 DEF TInv, Owners
  <1>5. new \in Int /\ areaCount < new /\ new <= MaxAreas
    BY <1>1, <1>2
  <1> HIDE DEF new
  <1>6. Owners'
    BY <1>1, <1>2, <1>4, <1>5 DEF TInv, Owners
  <1>7. RolesShared'
    BY <1>1, <1>2, <1>4 DEF TInv, RolesShared
  <1>8. LinksLead'
    <2>1. \A l \in LinkIds : link[l] # NoLink => link[l].area \in Areas
      BY DEF TInv, LinksLead, Link
    <2> QED
      BY <1>1, <1>2, <1>4, <2>1 DEF TInv, LinksLead
  <1>9. TasksPlaced'
    <2>1. \A t \in TaskIds : There(t) => task[t].area \in Areas
      BY NoTaskIsNoRow DEF KInv, TasksShaped, There
    <2> QED
      BY <1>1, <1>2, <1>4, <2>1 DEF TInv, TasksPlaced, There
  <1>10. PeoplePlans'
    <2>1. \A a \in Areas : a <= areaCount => owner'[a] = owner[a]
      BY <1>2, <1>4, <1>5
    <2>2. areaCount' \in Int /\ areaCount <= areaCount'
      BY <1>1, <1>2, <1>5
    <2> QED
      BY <1>3, <2>1, <2>2, AgedPeople
  <1> QED
    BY <1>6, <1>7, <1>8, <1>9, <1>10 DEF TInv

(* An area goes with its members, links and tasks.                         *)
LEMMA DropType ==
    ASSUME IInv, KInv, TInv, NEW c \in Clients, CommitDrop(c)
    PROVE  TInv'
  <1> DEFINE a == req[c].what
             to == req[c].arg
             moving == IF req[c].read = {} THEN {} ELSE TasksIn(a)
             moved == [t \in TaskIds |->
                          IF t \in moving THEN [task[t] EXCEPT !.area = to] ELSE task[t]]
  <1>1. /\ req[c].kind = "drop" /\ (moving # {} => owner[to] # NoOne)
        /\ owner' = [b \in Areas |-> IF b = a THEN NoOne ELSE owner[b]]
        /\ role' = [b \in Areas |-> IF b = a THEN [u \in Users |-> "none"] ELSE role[b]]
        /\ link' = [l \in LinkIds |-> IF link[l].area = a THEN NoLink ELSE link[l]]
        /\ task' = [t \in TaskIds |-> IF moved[t].area = a THEN NoTask ELSE moved[t]]
        /\ UNCHANGED <<users, areaCount, linkCount>>
    BY DEF CommitDrop, Drop, Under, peopleVars
  <1>2. a \in Areas /\ (moving # {} => to \in Areas \ {a}) /\ moving \subseteq {t \in TaskIds : There(t)}
    BY <1>1 DEF KInv, PlansMade, Plan, TasksIn
  <1>3. \A d \in Clients : Ages(d)
    <2>1. \E things : Finish(c, things)
      BY DEF CommitDrop
    <2> QED
      BY <2>1, FinishAges
  <1>4. task \in [TaskIds -> Row \cup {NoTask}]
    BY DEF KInv, TasksShaped
  <1>5. ASSUME NEW t \in TaskIds, task'[t] # NoTask
        PROVE  owner'[task'[t].area] # NoOne /\ task'[t].assignee \in users \cup {NoOne}
    <2>1. CASE t \in moving
      <3>1. task[t] \in Row /\ There(t) /\ to \in Areas \ {a} /\ moved[t] = [task[t] EXCEPT !.area = to]
        BY <1>2, <1>4, <2>1 DEF There
      <3>2. moved[t].area = to /\ moved[t].assignee = task[t].assignee
        BY <3>1, MovedRow
      <3>3. task'[t] = moved[t] /\ owner'[to] # NoOne
        BY <1>1, <2>1, <3>1, <3>2
      <3> QED
        BY <3>1, <3>2, <3>3 DEF TInv, TasksPlaced
    <2>2. CASE t \notin moving
      <3>1. task'[t] = IF task[t].area = a THEN NoTask ELSE task[t]
        BY <1>1, <2>2
      <3>2. There(t) /\ task'[t] = task[t] /\ task[t].area # a /\ task[t].area \in Areas
        BY <1>4, <1>5, <3>1, NoTaskIsNoRow DEF There
      <3> QED
        BY <1>1, <3>2 DEF TInv, TasksPlaced
    <2> QED
      BY <2>1, <2>2
  <1> HIDE DEF moving, moved, a
  <1>6. TasksPlaced'
    BY <1>1, <1>5 DEF TasksPlaced, There
  <1>7. Owners'
    BY <1>1 DEF TInv, Owners
  <1>8. RolesShared'
    BY <1>1 DEF TInv, RolesShared
  <1>9. LinksLead'
    <2>1. \A l \in LinkIds : link[l] # NoLink => link[l].area \in Areas
      BY DEF TInv, LinksLead, Link
    <2>2. link' \in [LinkIds -> Link \cup {NoLink}]
      BY <1>1 DEF TInv, LinksLead
    <2> QED
      BY <1>1, <2>1, <2>2 DEF TInv, LinksLead
  <1>10. PeoplePlans'
    <2>1. \A b \in Areas : owner'[b] \in {owner[b], NoOne}
      BY <1>1
    <2> QED
      BY <1>1, <1>3, <2>1, AgedPeople DEF IInv, Shapes
  <1> QED
    BY <1>6, <1>7, <1>8, <1>9, <1>10 DEF TInv

(* A link is made to an area that is there, and used up by whoever joins.  *)
LEMMA LinkTypes ==
    ASSUME IInv, KInv, TInv, NEW c \in Clients, CommitInvite(c) \/ CommitAccept(c)
    PROVE  TInv'
  <1>1. UNCHANGED <<users, owner, areaCount, task>>
    BY DEF CommitInvite, CommitAccept, peopleVars, taskVars
  <1>2. \A d \in Clients : Ages(d)
    <2>1. \E things : Finish(c, things)
      BY DEF CommitInvite, CommitAccept
    <2> QED
      BY <2>1, FinishAges
  <1>3. PeoplePlans'
    BY <1>1, <1>2, AgedPeople DEF IInv, Shapes
  <1>4. TasksPlaced'
    BY <1>1 DEF TInv, TasksPlaced, There
  <1>5. CASE CommitInvite(c)
    <2> DEFINE made == [area |-> req[c].what, role |-> req[c].arg, by |-> req[c].by]
    <2>1. /\ req[c].kind = "invite" /\ linkCount < MaxLinks /\ owner[req[c].what] # NoOne
          /\ linkCount' = linkCount + 1 /\ link' = [link EXCEPT ![linkCount + 1] = made]
          /\ UNCHANGED role
      BY <1>5 DEF CommitInvite, Under
    <2>2. made \in Link /\ made.area = req[c].what
      BY <2>1 DEF TInv, PeoplePlans, PeoplePlan, Link
    <2> HIDE DEF made
    <2>3. linkCount' \in 0..MaxLinks
      BY <2>1, WorkspaceAssumption DEF IInv, Shapes
    <2>4. LinksLead'
      <3>1. link' \in [LinkIds -> Link \cup {NoLink}]
        BY <2>1, <2>2 DEF TInv, LinksLead
      <3>2. \A l \in LinkIds : link'[l] \in {link[l], made}
        BY <2>1 DEF TInv, LinksLead
      <3> QED
        BY <1>1, <2>1, <2>2, <3>1, <3>2 DEF TInv, LinksLead
    <2>5. Owners' /\ RolesShared'
      BY <1>1, <2>1, <2>3 DEF TInv, Owners, RolesShared
    <2> QED
      BY <1>3, <1>4, <2>4, <2>5 DEF TInv
  <1>6. CASE CommitAccept(c)
    <2> DEFINE a == req[c].read.area
               v == req[c].by
               r == req[c].read.role
               member == req[c].arg
    <2>1. /\ req[c].kind = "accept" /\ (~member => owner[a] # NoOne)
          /\ role' = IF member THEN role ELSE [role EXCEPT ![a][v] = r]
          /\ link' = [link EXCEPT ![req[c].what] = NoLink] /\ UNCHANGED linkCount
      BY <1>6 DEF CommitAccept, Under
    <2>2. a \in Areas /\ v \in Users /\ r \in Roles /\ owner[a] # v
      BY <2>1 DEF TInv, PeoplePlans, PeoplePlan, Link
    <2> HIDE DEF a, v, r
    <2>3. RolesShared'
      <3>1. CASE member
        BY <1>1, <2>1, <3>1 DEF TInv, RolesShared
      <3>2. CASE ~member
        <4>1. /\ role' \in [Areas -> [Users -> Roles \cup {"none"}]]
              /\ \A b \in Areas, u \in Users :
                    role'[b][u] = IF b = a /\ u = v THEN r ELSE role[b][u]
          BY <2>1, <2>2, <3>2 DEF TInv, RolesShared
        <4> QED
          BY <1>1, <2>1, <2>2, <3>2, <4>1 DEF TInv, RolesShared
      <3> QED
        BY <3>1, <3>2
    <2>4. Owners'
      BY <1>1, <2>1 DEF TInv, Owners
    <2>5. LinksLead'
      BY <1>1, <2>1 DEF TInv, LinksLead
    <2> QED
      BY <1>3, <1>4, <2>3, <2>4, <2>5 DEF TInv
  <1> QED
    BY <1>5, <1>6

(* An account goes with all that is in its areas, and its name elsewhere.  *)
LEMMA AccountType ==
    ASSUME IInv, KInv, TInv, NEW c \in Clients, CommitAccount(c)
    PROVE  TInv'
  <1> DEFINE u == req[c].by
  <1>1. /\ users' = users \ {u} /\ UNCHANGED <<areaCount, linkCount>>
        /\ owner' = [a \in Areas |-> IF a \in Owned(u) THEN NoOne ELSE owner[a]]
        /\ role' = [a \in Areas |-> [v \in Users |->
                       IF v = u \/ a \in Owned(u) THEN "none" ELSE role[a][v]]]
        /\ link' = [l \in LinkIds |->
                       IF link[l] # NoLink /\ (link[l].by = u \/ link[l].area \in Owned(u))
                       THEN NoLink ELSE link[l]]
        /\ task' = [t \in TaskIds |->
                       IF ~There(t) \/ task[t].area \in Owned(u) THEN NoTask
                       ELSE [task[t] EXCEPT !.assignee =
                                IF task[t].assignee = u THEN NoOne ELSE task[t].assignee]]
    BY DEF CommitAccount
  <1>2. \A d \in Clients : Ages(d)
    <2>1. \E things : Finish(c, things)
      BY DEF CommitAccount
    <2> QED
      BY <2>1, FinishAges
  <1>3. task \in [TaskIds -> Row \cup {NoTask}]
    BY DEF KInv, TasksShaped
  <1> HIDE DEF u
  <1>4. Owners'
    BY <1>1 DEF TInv, Owners, Owned
  <1>5. RolesShared'
    <2>1. role' \in [Areas -> [Users -> Roles \cup {"none"}]]
      BY <1>1 DEF TInv, RolesShared
    <2>2. ASSUME NEW a \in Areas, NEW v \in Users, role'[a][v] # "none"
          PROVE  owner'[a] \notin {v, NoOne}
      <3>1. v # u /\ a \notin Owned(u) /\ role[a][v] # "none"
        BY <1>1, <2>2
      <3> QED
        BY <1>1, <3>1 DEF TInv, RolesShared
    <2> QED
      BY <2>1, <2>2 DEF RolesShared
  <1>6. LinksLead'
    <2>1. \A l \in LinkIds : link[l] # NoLink => link[l].area \in Areas
      BY DEF TInv, LinksLead, Link
    <2>2. link' \in [LinkIds -> Link \cup {NoLink}]
      BY <1>1 DEF TInv, LinksLead
    <2> QED
      BY <1>1, <2>1, <2>2 DEF TInv, LinksLead
  <1>7. ASSUME NEW t \in TaskIds, task'[t] # NoTask
        PROVE  owner'[task'[t].area] # NoOne /\ task'[t].assignee \in users' \cup {NoOne}
    <2> DEFINE v == IF task[t].assignee = u THEN NoOne ELSE task[t].assignee
               new == [task[t] EXCEPT !.assignee = v]
    <2>1. There(t) /\ task[t].area \notin Owned(u) /\ task'[t] = new
      BY <1>1, <1>7
    <2>2. task[t] \in Row /\ task[t].area \in Areas
      BY <1>3, <2>1, NoTaskIsNoRow DEF There
    <2>3. /\ v \in Users \cup {NoOne} /\ v \in users' \cup {NoOne}
          /\ owner[task[t].area] # NoOne
      BY <1>1, <2>1, <2>2 DEF Row, TInv, TasksPlaced
    <2> HIDE DEF v
    <2>4. new.area = task[t].area /\ new.assignee = v
      BY <2>2, <2>3, ReassignedRow
    <2> HIDE DEF new
    <2> QED
      BY <1>1, <2>1, <2>2, <2>3, <2>4
  <1>8. TasksPlaced'
    BY <1>7 DEF TasksPlaced, There
  <1>9. PeoplePlans'
    <2>1. \A b \in Areas : owner'[b] \in {owner[b], NoOne}
      BY <1>1
    <2> QED
      BY <1>1, <1>2, <2>1, AgedPeople DEF IInv, Shapes
  <1> QED
    BY <1>4, <1>5, <1>6, <1>8, <1>9 DEF TInv

(* A request starts with checks that it has passed.                        *)
LEMMA StartType ==
    ASSUME IInv, KInv, TInv, NEW c \in Clients, NEW kind, NEW u, NEW what, NEW read, NEW arg,
           Start(c, kind, u, what, read, arg),
           PeoplePlan([kind |-> kind, by |-> u, what |-> what, read |-> read, arg |-> arg])
    PROVE  TInv'
  <1> DEFINE q == [kind |-> kind, by |-> u, what |-> what, read |-> read, arg |-> arg,
                   missed |-> {}]
  <1>1. /\ UNCHANGED <<users, owner, role, link, areaCount, linkCount, task>>
        /\ req' = [req EXCEPT ![c] = q]
    BY DEF Start, peopleVars, areaVars, taskVars
  <1>2. req' = [d \in Clients |-> IF d = c THEN q ELSE req[d]]
    BY <1>1 DEF IInv, Shapes
  <1>3. /\ q.kind = kind /\ q.by = u /\ q.what = what /\ q.read = read /\ q.arg = arg
        /\ req'[c] = q /\ \A d \in Clients \ {c} : req'[d] = req[d]
    BY <1>2
  <1> HIDE DEF q
  <1>4. PeoplePlan(q)
    BY <1>3 DEF PeoplePlan
  <1>5. PeoplePlans'
    <2> SUFFICES ASSUME NEW d \in Clients PROVE PeoplePlan(req[d])'
      BY DEF PeoplePlans
    <2>1. PeoplePlan(req'[d])
      BY <1>3, <1>4 DEF TInv, PeoplePlans
    <2> QED
      BY <1>1, <2>1 DEF PeoplePlan
  <1>6. Owners' /\ RolesShared' /\ LinksLead' /\ TasksPlaced'
    BY <1>1 DEF TInv, Owners, RolesShared, LinksLead, TasksPlaced, There
  <1> QED
    BY <1>5, <1>6 DEF TInv

(* Every request knows whom and what it is about.                          *)
LEMMA RequestTypes ==
    ASSUME IInv, KInv, TInv, NEW c \in Clients, NEW u \in users, StartTask(c, u) \/ StartSharing(c, u)
    PROVE  TInv'
  <1>1. u \in Users
    BY DEF IInv, Shapes
  <1>2. ASSUME NEW kind, kind \notin {"invite", "accept", "role"}, NEW what, NEW read, NEW arg,
               Start(c, kind, u, what, read, arg)
        PROVE  TInv'
    BY <1>1, <1>2, StartType DEF PeoplePlan
  <1>3. ASSUME NEW a \in Areas, NEW r \in Roles, CreateInvite(c, u, a, r) PROVE TInv'
    BY <1>1, <1>3, StartType DEF CreateInvite, PeoplePlan
  <1>4. ASSUME NEW l \in LinkIds, AcceptInvite(c, u, l) PROVE TInv'
    <2>1. Start(c, "accept", u, l, link[l], u \in Members(link[l].area))
          /\ link[l] # NoLink /\ owner[link[l].area] # u
      BY <1>4 DEF AcceptInvite
    <2>2. link[l] \in Link /\ owner[link[l].area] # NoOne
      BY <2>1 DEF TInv, LinksLead
    <2>3. link[l].area <= areaCount
      <3> DEFINE a == link[l].area
      <3>1. a \in Areas
        BY <2>2 DEF Link
      <3>2. a \in Int /\ areaCount \in Int
        BY <3>1, WorkspaceAssumption DEF Areas, IInv, Shapes
      <3>3. owner[a] # NoOne /\ \A b \in Areas : b > areaCount => owner[b] = NoOne
        BY <2>2 DEF IInv, Unused
      <3> HIDE DEF a
      <3>4. ~(a > areaCount)
        BY <3>1, <3>3
      <3>5. a <= areaCount
        BY <3>2, <3>4
      <3> QED
        BY <3>5 DEF a
    <2> HIDE DEF Start
    <2>4. PeoplePlan([kind |-> "accept", by |-> u, what |-> l, read |-> link[l],
                      arg |-> u \in Members(link[l].area)])
      BY <1>1, <2>1, <2>2, <2>3 DEF PeoplePlan
    <2> QED
      BY <2>1, <2>4, StartType
  <1>5. ASSUME NEW a \in Areas, NEW v \in Users, NEW r \in Roles \cup {"none"},
               Start(c, "role", u, <<a, v>>, {}, r)
        PROVE  TInv'
    <2>1. PeoplePlan([kind |-> "role", by |-> u, what |-> <<a, v>>, read |-> {}, arg |-> r])
      BY <1>1 DEF PeoplePlan
    <2> QED
      BY <1>5, <2>1, StartType
  <1>6. CASE StartTask(c, u)
    <2>1. \E kind \in {"create", "patch", "complete", "reopen", "delete"} :
             \E what, read, arg : Start(c, kind, u, what, read, arg)
      BY <1>6 DEF StartTask, CreateTask, QuickAdd, NewTask, PatchTask, CompleteTask, ReopenTask,
                  DeleteTask
    <2> QED
      BY <1>2, <2>1
  <1>7. CASE StartSharing(c, u)
    <2>1. \/ \E kind \in {"area", "drop", "revoke", "account"} :
                \E what, read, arg : Start(c, kind, u, what, read, arg)
          \/ \E a \in Areas, r \in Roles : CreateInvite(c, u, a, r)
          \/ \E l \in LinkIds : AcceptInvite(c, u, l)
          \/ \E a \in Areas, v \in Users, r \in Roles \cup {"none"} :
                Start(c, "role", u, <<a, v>>, {}, r)
      BY <1>7 DEF StartSharing, CreateArea, DeleteArea, RevokeInvite, RemoveMember, ChangeRole,
                  DeleteAccount
    <2> QED
      BY <1>2, <1>3, <1>4, <1>5, <2>1
  <1> QED
    BY <1>6, <1>7

(* Every step keeps what belongs to what.                                  *)
LEMMA StepTInv == IInv /\ KInv /\ TInv /\ [Next]_vars => TInv'
  <1> SUFFICES ASSUME IInv, KInv, TInv, [Next]_vars PROVE TInv'
    OBVIOUS
  <1>1. ASSUME NEW c \in Clients, CommitAny(c) PROVE TInv'
    BY <1>1, PlacedTasks, RevokedOrRole, AreaType, DropType, LinkTypes, AccountType DEF CommitAny
  <1> QED
    BY <1>1, RequestTypes, RevokedOrRole DEF Next

(* Every variable keeps its shape; areas belong to people who are there,   *)
(* roles, links and tasks to areas that are there, and nobody has a role   *)
(* in an area of his own, whatever is deleted while they are written.      *)
THEOREM TypeCorrect == Spec => []TypeOK
  <1>1. Spec => [](IInv /\ KInv /\ TInv)
    BY InitIInv, StepIInv, InitKInv, StepKInv, InitTInv, StepTInv, PTL DEF Spec
  <1> QED
    BY <1>1, TypesFollow, PTL

=============================================================================
