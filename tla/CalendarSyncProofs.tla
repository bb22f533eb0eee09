--------------------------- MODULE CalendarSyncProofs ---------------------------
(***************************************************************************)
(* Theorems about CalendarSync, for every value of its constants: every    *)
(* variable keeps its type, two rows never share an item, a pull deletes   *)
(* only what is gone, no copy is left behind in the online calendar but    *)
(* the ones the code is known to leave there, no difference between the    *)
(* two calendars is forgotten, and what comes back from the provider as it *)
(* went there never overwrites a row.                                      *)
(***************************************************************************)
EXTENDS CalendarSync, TLAPS

-----------------------------------------------------------------------------
(***************************************************************************)
(* The conversions and the fingerprint stay within their types.            *)
(***************************************************************************)

(* What ToDoch sends is an item the provider can hold.                     *)
LEMMA SentIsItem == ASSUME NEW f \in Fields PROVE Sent(f) \in Items
<1>1. ASSUME NEW rule \in Rules, NEW exdates \in SUBSET Occurrences, NEW status \in Statuses
      PROVE  AsItem(f, rule, exdates, status) \in Items
  BY DEF Fields, Items, AsItem
<1>2. /\ f.rule \in Rules /\ f.exdates \in SUBSET Occurrences /\ f.status \in Statuses
      /\ TentativeOrConfirmed(f) \in Statuses
  BY DEF Fields, Statuses, TentativeOrConfirmed
<1>3. ToGoogle(f) \in Items
  BY <1>1, <1>2 DEF ToGoogle
<1>4. ToGraph(f) \in Items
  BY <1>1, <1>2 DEF ToGraph, PatternOf, Rules, Statuses
<1>5. ToIcs(f) \in Items
  BY <1>1, <1>2 DEF ToIcs
<1> QED
  BY <1>3, <1>4, <1>5, ProviderAssumption DEF Sent

(* What ToDoch reads from an item is contents it can store.                *)
LEMMA ReceivedIsFields == ASSUME NEW i \in Items PROVE Received(i) \in Fields
<1>1. ASSUME NEW padded \in BOOLEAN, NEW rule \in Rules, NEW zone \in {"own", "other"},
             NEW exdates \in SUBSET Occurrences, NEW status \in Statuses
      PROVE  AsFields(i, padded, rule, zone, exdates, status) \in Fields
  BY DEF Fields, Items, AsFields
<1>2. /\ i.padded \in BOOLEAN /\ i.zone \in {"own", "other"} /\ i.exdates \in SUBSET Occurrences
      /\ i.status \in Statuses /\ TentativeOrConfirmed(i) \in Statuses
      /\ KnownRule(i) \in Rules /\ RuleFromGraph(i) \in Rules
  BY DEF Items, Statuses, TentativeOrConfirmed, KnownRule, RuleFromGraph, Rules
<1>3. FromGoogle(i) \in Fields
  BY <1>1, <1>2 DEF FromGoogle
<1>4. FromGraph(i) \in Fields
  BY <1>1, <1>2 DEF FromGraph, Statuses
<1>5. FromIcs(i) \in Fields
  BY <1>1, <1>2 DEF FromIcs
<1> QED
  BY <1>3, <1>4, <1>5, ProviderAssumption DEF Received

LEMMA DigestIsFields == ASSUME NEW f \in Fields PROVE Digest(f) \in Fields
  BY DEF Digest, Fields

LEMMA AdoptedIsFields ==
  ASSUME NEW f \in Fields, NEW i \in Items PROVE Adopted(f, i) \in Fields
<1>1. Received(i) \in Fields
  BY ReceivedIsFields
<1> QED
  BY <1>1 DEF Adopted, Fields

(* The blank values of the model have the types of real ones.              *)
LEMMA BlankFieldsIsFields == BlankFields \in Fields
  BY SyncAssumption DEF BlankFields, Fields, Rules, Statuses

LEMMA BlankRowIsRow == BlankRow \in Row /\ ~IsLinked(BlankRow)
  BY BlankFieldsIsFields DEF BlankRow, Row, Areas, IsLinked

LEMMA BlankItemIsItem == BlankItem \in Items
<1>1. AsItem(BlankFields, "none", {}, "confirmed") \in Items
  BY BlankFieldsIsFields DEF AsItem, Items, Fields, Rules, Statuses
<1> QED
  BY <1>1 DEF BlankItem, Items

LEMMA NoListIsList == NoList \in Lists
  BY BlankItemIsItem DEF NoList, Lists

(* Pulling changes the contents and the fingerprint of a row, not its link. *)
LEMMA PulledKeepsLink ==
  ASSUME NEW L \in Lists, NEW row \in Row
  PROVE  Pulled(L, row) \in Row /\ Pulled(L, row).remote = row.remote
<1>1. ASSUME NEW r \in Row, NEW f \in Fields
      PROVE  LET new == [r EXCEPT !.fields = f, !.hash = Digest(f)]
             IN  new \in Row /\ new.remote = r.remote
  BY DigestIsFields DEF Row
<1>2. row.remote \in L.live => L.item[row.remote] \in Items
  BY DEF Lists
<1>3. AfterItem(L, row) \in Row /\ AfterItem(L, row).remote = row.remote
  <2>1. CASE Changed(L, row)
    <3>1. Adopted(row.fields, L.item[row.remote]) \in Fields
      BY <2>1, <1>2, AdoptedIsFields DEF Changed, Row
    <3> QED
      BY <2>1, <3>1, <1>1 DEF AfterItem
  <2>2. CASE ~Changed(L, row)
    BY <2>2 DEF AfterItem
  <2> QED
    BY <2>1, <2>2
<1>4. ASSUME NEW r \in Row
      PROVE  AfterGaps(L, r) \in Row /\ AfterGaps(L, r).remote = r.remote
  <2>1. [r.fields EXCEPT !.exdates = @ \cup Cancelled(L, r)] \in Fields
    BY DEF Cancelled, Row, Fields
  <2> QED
    BY <2>1, <1>1 DEF AfterGaps
<1> QED
  BY <1>3, <1>4 DEF Pulled

-----------------------------------------------------------------------------
(***************************************************************************)
(* Type correctness, first of all but the requests at work, which only     *)
(* matter to where deletions leave their tombstones.                       *)
(***************************************************************************)
Typed == DatabaseOK /\ ProviderOK /\ SyncsOK /\ TransactionOK /\ BoundsOK

LEMMA BoundsAreNumbers ==
  /\ MaxPush \in Nat
  /\ MaxUserOps \in Nat /\ MaxProviderOps \in Nat /\ MaxFaults \in Nat
  BY SyncAssumption

LEMMA TypeInit == ASSUME Init PROVE Typed
<1>1. DatabaseOK
  BY BlankRowIsRow DEF Init, DatabaseOK
<1>2. ProviderOK
  BY BlankItemIsItem DEF Init, ProviderOK
<1>3. SyncsOK
  BY NoListIsList DEF Init, SyncsOK
<1>4. TransactionOK
  BY BlankRowIsRow, BoundsAreNumbers DEF Init, TransactionOK
<1>5. BoundsOK
  BY BoundsAreNumbers DEF Init, BoundsOK
<1> QED
  BY <1>1, <1>2, <1>3, <1>4, <1>5 DEF Typed

(* Steps that leave a group of variables alone keep its type.              *)
LEMMA UnchangedKeepsType ==
  /\ DatabaseOK /\ UNCHANGED dbVars => DatabaseOK'
  /\ ProviderOK /\ UNCHANGED providerVars => ProviderOK'
  /\ SyncsOK /\ UNCHANGED <<at, list, changeVars>> => SyncsOK'
  /\ TransactionOK /\ UNCHANGED txVars => TransactionOK'
<1>1. DatabaseOK /\ UNCHANGED dbVars => DatabaseOK'
  BY DEF dbVars, DatabaseOK
<1>2. ProviderOK /\ UNCHANGED providerVars => ProviderOK'
  BY DEF providerVars, ProviderOK
<1>3. SyncsOK /\ UNCHANGED <<at, list, changeVars>> => SyncsOK'
  BY DEF changeVars, SyncsOK
<1>4. TransactionOK /\ UNCHANGED txVars => TransactionOK'
  <2>1. ASSUME TransactionOK, UNCHANGED txVars
        PROVE  /\ UNCHANGED <<phase, todo, pushed, draft, locked>>
               /\ UNCHANGED <<born, doomed, sent, erased>>
    BY <2>1 DEF txVars
  <2> QED
    BY <2>1 DEF TransactionOK
<1> QED
  BY <1>1, <1>2, <1>3, <1>4

(* A change noticed by the provider keeps the sets of changes in type.     *)
LEMMA NoticeKeepsType ==
  ASSUME SyncsOK, NEW X \in SUBSET Changes, Notice(X), UNCHANGED <<at, list>>
  PROVE  SyncsOK'
<1>1. since' \subseteq Changes
  BY DEF SyncsOK, Notice
<1>2. late' \in [Syncs -> SUBSET Changes]
  BY DEF SyncsOK, Notice
<1> QED
  BY <1>1, <1>2 DEF SyncsOK

LEMMA PutKeepsType ==
  ASSUME ProviderOK, SyncsOK, NEW r \in Remotes, NEW i \in Items, Put(r, i),
         UNCHANGED <<at, list>>
  PROVE  ProviderOK' /\ SyncsOK'
<1>1. {r} \in SUBSET Changes
  BY DEF Changes
<1>2. SyncsOK'
  BY <1>1, NoticeKeepsType DEF Put
<1>3. ProviderOK'
  BY DEF ProviderOK, Put
<1> QED
  BY <1>2, <1>3

LEMMA RemoveKeepsType ==
  ASSUME ProviderOK, SyncsOK, NEW r, Remove(r), UNCHANGED <<at, list>>
  PROVE  ProviderOK' /\ SyncsOK'
<1>1. {r} \cap live \in SUBSET Changes
  BY DEF Changes, ProviderOK
<1>2. SyncsOK'
  BY <1>1, NoticeKeepsType DEF Remove
<1>3. ProviderOK'
  BY BlankItemIsItem DEF ProviderOK, Remove
<1> QED
  BY <1>2, <1>3

LEMMA UserStepKeepsType == ASSUME Typed, UserStep PROVE Typed'
<1> USE DEF Typed
<1>1. ASSUME InToDoch, UserOp \/ UNCHANGED userOps
      PROVE  ProviderOK' /\ SyncsOK' /\ TransactionOK' /\ BoundsOK'
  <2>1. BoundsOK'
    BY <1>1, BoundsAreNumbers DEF UserOp, InToDoch, BoundsOK
  <2> QED
    BY <1>1, <2>1, UnchangedKeepsType DEF InToDoch
<1>2. ASSUME NEW e \in Events, NEW f \in UserFields, NEW a \in Areas, CreateEvent(e, f, a)
      PROVE  Typed'
  <2>1. [BlankRow EXCEPT !.area = a, !.fields = f] \in Row
    BY BlankRowIsRow, SyncAssumption DEF Row
  <2>2. DatabaseOK'
    BY <1>2, <2>1 DEF CreateEvent, DatabaseOK
  <2> QED
    BY <1>1, <1>2, <2>2 DEF CreateEvent, UserOp
<1>3. ASSUME NEW e \in Events, NEW f \in UserFields, EditEvent(e, f)
      PROVE  Typed'
  <2>1. f \in Fields /\ ev[e].fields \in Fields
    BY SyncAssumption DEF DatabaseOK, Row
  <2>2. [f EXCEPT !.exdates = ev[e].fields.exdates] \in Fields
    BY <2>1 DEF Fields
  <2>3. DatabaseOK'
    BY <1>3, <2>2 DEF EditEvent, DatabaseOK, Row
  <2> QED
    BY <1>1, <1>3, <2>3 DEF EditEvent, UserOp
<1>4. ASSUME NEW e \in Events, MoveEvent(e) PROVE Typed'
  <2>1. DatabaseOK'
    BY <1>4 DEF MoveEvent, DatabaseOK, Row
  <2> QED
    BY <1>1, <1>4, <2>1 DEF MoveEvent, UserOp
<1>5. ASSUME NEW e \in Events, NEW o \in Occurrences, DeleteOccurrence(e, o)
      PROVE  Typed'
  <2>1. [ev[e] EXCEPT !.fields.exdates = @ \cup {o}] \in Row
    BY DEF DatabaseOK, Row, Fields
  <2>2. DatabaseOK'
    BY <1>5, <2>1 DEF DeleteOccurrence, DatabaseOK
  <2> QED
    BY <1>1, <1>5, <2>2 DEF DeleteOccurrence, UserOp
<1>6. ASSUME NEW e \in Events, NEW link, Delete(e, link), InToDoch, UserOp \/ UNCHANGED userOps
      PROVE  Typed'
  <2>1. DatabaseOK'
    BY <1>6, BlankRowIsRow DEF Delete, DatabaseOK
  <2> QED
    BY <1>1, <1>6, <2>1
<1>7. CASE DeleteArea
  <2>1. DatabaseOK'
    BY <1>7, BlankRowIsRow DEF DeleteArea, DatabaseOK
  <2> QED
    BY <1>1, <1>7, <2>1 DEF DeleteArea, UserOp
<1>8. CASE Disconnect
  <2>1. DatabaseOK'
    BY <1>8 DEF Disconnect, DatabaseOK, Row
  <2>2. SyncsOK'
    BY <1>8, NoListIsList DEF Disconnect, SyncsOK
  <2>3. ProviderOK' /\ TransactionOK'
    BY <1>8, UnchangedKeepsType DEF Disconnect
  <2>4. BoundsOK'
    <3>1. /\ faults < MaxFaults /\ faults' = faults + 1
          /\ UNCHANGED <<userOps, providerOps>>
      BY <1>8 DEF Disconnect, Fault
    <3> QED
      BY <3>1, BoundsAreNumbers DEF BoundsOK
  <2> QED
    BY <2>1, <2>2, <2>3, <2>4
<1>9. ASSUME NEW e \in Events, BeginDelete(e) PROVE Typed'
  BY <1>1, <1>9, UnchangedKeepsType DEF BeginDelete, UserOp
<1> QED
  BY <1>2, <1>3, <1>4, <1>5, <1>6, <1>7, <1>8, <1>9 DEF UserStep, DeleteEvent, FinishDelete, UserOp

LEMMA ProviderStepKeepsType == ASSUME Typed, ProviderStep PROVE Typed'
<1> USE DEF Typed
<1>1. ASSUME ProviderOp
      PROVE  DatabaseOK' /\ TransactionOK' /\ BoundsOK' /\ UNCHANGED <<at, list>>
  <2>1. BoundsOK'
    BY <1>1, BoundsAreNumbers DEF ProviderOp, BoundsOK
  <2> QED
    BY <1>1, <2>1, UnchangedKeepsType DEF ProviderOp
<1>2. ASSUME NEW r \in Remotes, NEW i \in ProviderItems,
             ProviderAdds(r, i) \/ ProviderEdits(r, i)
      PROVE  Typed'
  <2>1. i \in Items /\ ProviderOp /\ Put(r, i)
    BY <1>2, SyncAssumption DEF ProviderAdds, ProviderEdits
  <2> QED
    BY <2>1, <1>1, PutKeepsType
<1>3. ASSUME NEW r \in Remotes, ProviderDeletes(r) PROVE Typed'
  <2>1. ProviderOp /\ Remove(r)
    BY <1>3 DEF ProviderDeletes
  <2> QED
    BY <2>1, <1>1, RemoveKeepsType
<1>4. ASSUME NEW r \in Remotes, NEW o \in Occurrences, ProviderCancels(r, o)
      PROVE  Typed'
  <2>1. {<<r, o>>} \in SUBSET Changes
    BY DEF Changes
  <2>2. SyncsOK'
    BY <1>4, <1>1, <2>1, NoticeKeepsType DEF ProviderCancels
  <2>3. gaps' \subseteq Remotes \X Occurrences
    <3>1. gaps' = gaps \cup {<<r, o>>} /\ gaps \subseteq Remotes \X Occurrences
      BY <1>4 DEF ProviderCancels, ProviderOK
    <3>2. <<r, o>> \in Remotes \X Occurrences
      OBVIOUS
    <3> QED
      BY <3>1, <3>2
  <2>4. ProviderOK'
    BY <1>4, <2>3 DEF ProviderCancels, ProviderOK
  <2> QED
    BY <1>4, <1>1, <2>2, <2>4 DEF ProviderCancels
<1> QED
  BY <1>2, <1>3, <1>4 DEF ProviderStep

LEMMA ListingIsList ==
  ASSUME ProviderOK, SyncsOK, NEW full \in BOOLEAN PROVE Listing(full) \in Lists
<1> DEFINE ids == IF full THEN live ELSE since \cap Remotes
<1>1. ids \subseteq Remotes
  BY DEF ProviderOK
<1>2. [r \in Remotes |-> IF r \in ids \cap live THEN item[r] ELSE BlankItem]
         \in [Remotes -> Items]
  BY BlankItemIsItem DEF ProviderOK
<1>3. (IF full THEN gaps ELSE gaps \cap since) \subseteq Remotes \X Occurrences
  BY DEF ProviderOK
<1> QED
  BY <1>1, <1>2, <1>3 DEF Listing, ListSince, WholeList, ListOf, Lists

(* An item that a list brings and no row has becomes a new row for it.     *)
LEMMA NewRowIsRow ==
  ASSUME NEW r \in Remotes PROVE NewRow(r) \in Row /\ NewRow(r).remote = r
  BY BlankRowIsRow DEF NewRow, Row

(* The ids of the new rows and what the copies of rows say after a pull.   *)
LEMMA PullGives ==
  ASSUME Typed, NEW p \in Syncs, Pull(p)
  PROVE  /\ list[p] \in Lists
         /\ born' \subseteq Events \ InUse
         /\ \A e \in born' : \E r \in Arrivals(list[p]) : draft'[e].remote = r
         /\ \A d, e \in born' : draft'[d].remote = draft'[e].remote => d = e
         /\ \A e \in Touched(list[p]) : draft'[e].remote = ev[e].remote
         /\ draft' \in [Events -> Row]
         /\ \A e \in Events \ (born' \cup Touched(list[p])) : draft'[e] = BlankRow
<1> DEFINE L == list[p]
<1>1. L \in Lists
  BY DEF Typed, SyncsOK
<1>2. PICK id \in Injection(Arrivals(L), Events \ InUse) :
         /\ born' = {id[r] : r \in Arrivals(L)}
         /\ draft' = [e \in Events |->
                        IF e \in born'
                        THEN Pulled(L, NewRow(CHOOSE r \in Arrivals(L) : id[r] = e))
                        ELSE IF e \in Touched(L) THEN Pulled(L, ev[e]) ELSE BlankRow]
  BY DEF Pull
<1> DEFINE of(e) == CHOOSE r \in Arrivals(L) : id[r] = e
<1>3. id \in [Arrivals(L) -> Events \ InUse]
  BY <1>2 DEF Injection
<1>4. born' \subseteq Events \ InUse
  BY <1>2, <1>3
<1>5. ASSUME NEW e \in born' PROVE of(e) \in Arrivals(L) /\ id[of(e)] = e
  BY <1>2
<1>6. Arrivals(L) \subseteq Remotes
  BY <1>1 DEF Arrivals, Lists
<1>7. ASSUME NEW e \in born' PROVE draft'[e] \in Row /\ draft'[e].remote = of(e)
  <2>1. draft'[e] = Pulled(L, NewRow(of(e)))
    BY <1>2, <1>4
  <2> HIDE DEF of
  <2> QED
    BY <2>1, <1>1, <1>5, <1>6, NewRowIsRow, PulledKeepsLink
<1>8. Touched(L) \subseteq rows /\ rows \subseteq Events /\ Touched(L) \cap born' = {}
  BY <1>4 DEF Touched, InUse, Typed, DatabaseOK
<1>9. ASSUME NEW e \in Touched(L) PROVE draft'[e] \in Row /\ draft'[e].remote = ev[e].remote
  <2>1. draft'[e] = Pulled(L, ev[e]) /\ ev[e] \in Row
    BY <1>2, <1>8 DEF Typed, DatabaseOK
  <2> QED
    BY <2>1, <1>1, PulledKeepsLink
<1>10. \A e \in Events \ (born' \cup Touched(L)) : draft'[e] = BlankRow
  BY <1>2
<1>11. draft' \in [Events -> Row]
  <2>1. draft' = [e \in Events |-> draft'[e]]
    BY <1>2
  <2>2. \A e \in Events : draft'[e] \in Row
    BY <1>7, <1>9, <1>10, BlankRowIsRow
  <2> QED
    BY <2>1, <2>2
<1>12. \A d, e \in born' : draft'[d].remote = draft'[e].remote => d = e
  <2> HIDE DEF of
  <2> QED
    BY <1>5, <1>7
<1> QED
  <2> HIDE DEF of
  <2> QED
    BY <1>1, <1>4, <1>5, <1>7, <1>9, <1>10, <1>11, <1>12

LEMMA FetchKeepsType ==
  ASSUME Typed, NEW p \in Syncs, NEW full \in BOOLEAN, Fetch(p, full)
  PROVE  DatabaseOK' /\ ProviderOK' /\ SyncsOK' /\ TransactionOK'
<1>1. SyncsOK'
  <2>1. at' = [at EXCEPT ![p] = "listed"] /\ list' = [list EXCEPT ![p] = Listing(full)]
        /\ UNCHANGED changeVars
    BY DEF Fetch
  <2>2. Listing(full) \in Lists
    BY ListingIsList DEF Typed
  <2> QED
    BY <2>1, <2>2 DEF SyncsOK, Typed, changeVars
<1> QED
  BY <1>1, UnchangedKeepsType DEF Fetch, Typed

(* The ways a sync ends.                                                   *)
LEMMA EndSyncKeepsType ==
  ASSUME SyncsOK, NEW p \in Syncs, EndSync(p), since' \in SUBSET Changes
  PROVE  SyncsOK'
  BY NoListIsList DEF EndSync, SyncsOK

LEMMA EndTransactionKeepsType == ASSUME EndTransaction PROVE TransactionOK'
  BY BlankRowIsRow, BoundsAreNumbers DEF EndTransaction, TransactionOK

LEMMA RollbackKeepsType ==
  ASSUME Typed, NEW p \in Syncs, Rollback(p)
  PROVE  DatabaseOK' /\ ProviderOK' /\ SyncsOK' /\ TransactionOK'
<1>1. SyncsOK'
  BY EndSyncKeepsType DEF Rollback, Typed, SyncsOK
<1>2. TransactionOK'
  BY EndTransactionKeepsType, UnchangedKeepsType DEF Rollback, Typed
<1> QED
  BY <1>1, <1>2, UnchangedKeepsType DEF Rollback, Typed

(* What the push phase sends has the type of an item.                      *)
LEMMA SendsKeepsType ==
  ASSUME Typed, NEW e \in Events, NEW r \in Remotes, Sends(e, r), UNCHANGED <<at, list>>
  PROVE  ProviderOK' /\ SyncsOK'
<1>1. draft[e].fields \in Fields
  BY DEF Typed, TransactionOK, Row
<1> QED
  BY <1>1, SentIsItem, PutKeepsType DEF Sends, Typed

LEMMA SyncStepKeepsType ==
  ASSUME Typed, NEW p \in Syncs, SyncStep(p) PROVE Typed'
<1> USE DEF Typed
<1>0. ASSUME NEW ph, Work(p, ph)
      PROVE  /\ DatabaseOK' /\ UNCHANGED <<at, list, userOps, providerOps>>
             /\ faults' = faults => BoundsOK'
  BY <1>0, UnchangedKeepsType DEF Work, BoundsOK
<1>1. CASE List(p)
  BY <1>1, FetchKeepsType DEF List, Fetch, BoundsOK, DatabaseOK
<1>2. CASE Pull(p)
  <2>1. TransactionOK'
    <3>1. phase' = "stones" /\ UNCHANGED <<pushed, sent, erased>> /\ todo' \subseteq stones
      BY <1>2 DEF Pull
    <3>2. doomed' = Forgotten(list[p]) /\ locked' = born' \cup doomed' \cup Touched(list[p])
      BY <1>2 DEF Pull
    <3>3. Forgotten(list[p]) \subseteq Events /\ Touched(list[p]) \subseteq Events
      BY DEF Forgotten, Touched, DatabaseOK
    <3>4. todo' \subseteq Remotes
      BY <3>1 DEF DatabaseOK
    <3> QED
      BY <1>2, <3>1, <3>2, <3>3, <3>4, PullGives DEF TransactionOK
  <2>2. SyncsOK'
    BY <1>2, NoListIsList DEF Pull, SyncsOK, changeVars
  <2> QED
    BY <1>2, <2>1, <2>2, UnchangedKeepsType DEF Pull, opVars, BoundsOK
<1>3. CASE DeleteStone(p)
  <2>1. PICK r \in todo : Remove(r) /\ erased' = erased \cup {r} /\ todo' = todo \ {r}
    BY <1>3 DEF DeleteStone
  <2>2. Work(p, "stones") /\ UNCHANGED <<phase, pushed, draft, locked, born, doomed, sent, faults>>
    BY <1>3 DEF DeleteStone
  <2>3. TransactionOK'
    BY <2>1, <2>2 DEF Work, TransactionOK
  <2> QED
    BY <1>0, <2>1, <2>2, <2>3, RemoveKeepsType
<1>4. CASE SelectMoved(p)
  <2>1. todo' \subseteq Events
    BY <1>4 DEF SelectMoved, SeenRows, DatabaseOK, TransactionOK
  <2>2. draft' \in [Events -> Row]
    BY <1>4 DEF SelectMoved, Seen, DatabaseOK, TransactionOK
  <2>3. TransactionOK'
    BY <1>4, <2>1, <2>2 DEF SelectMoved, TransactionOK
  <2> QED
    BY <1>0, <1>4, <2>3, UnchangedKeepsType DEF SelectMoved
<1>5. CASE DropMoved(p)
  <2>1. PICK e \in todo : /\ Remove(draft[e].remote)
                          /\ draft' = [draft EXCEPT ![e] = Unlinked(draft[e])]
                          /\ sent' = sent \cup {e} /\ todo' = todo \ {e}
    BY <1>5 DEF DropMoved
  <2>2. Work(p, "moved") /\ UNCHANGED <<phase, pushed, locked, born, doomed, erased, faults>>
    BY <1>5 DEF DropMoved
  <2>3. Unlinked(draft[e]) \in Row /\ e \in Events
    BY <2>1, <2>2 DEF Work, TransactionOK, Unlinked, Row
  <2>4. TransactionOK'
    BY <2>1, <2>2, <2>3 DEF TransactionOK
  <2> QED
    BY <1>0, <2>1, <2>2, <2>4, RemoveKeepsType
<1>6. CASE SelectCandidates(p)
  <2> DEFINE seen(e) == IF e \in locked THEN draft[e]
                        ELSE IF e \in sent THEN Unlinked(ev[e]) ELSE ev[e]
  <2>1. /\ locked' = locked \cup (sent \cap rows) /\ sent' = {}
        /\ todo' = {e \in SeenRows : Candidate(seen(e))}
        /\ draft' = [e \in Events |->
                        IF e \in SeenRows \cap (locked' \cup todo') THEN seen(e) ELSE BlankRow]
        /\ phase' = "push" /\ Work(p, "moved")
        /\ UNCHANGED <<providerVars, changeVars, pushed, born, doomed, erased, faults>>
    BY <1>6 DEF SelectCandidates
  <2>2. \A e \in Events : seen(e) \in Row
    BY DEF DatabaseOK, TransactionOK, Unlinked, Row
  <2>3. todo' \subseteq Events
    BY <2>1 DEF SeenRows, DatabaseOK, TransactionOK
  <2>4. draft' \in [Events -> Row]
    <3> HIDE DEF seen
    <3> QED
      BY <2>1, <2>2, BlankRowIsRow
  <2>5. TransactionOK'
    <3> HIDE DEF seen
    <3> QED
      BY <2>1, <2>3, <2>4 DEF TransactionOK
  <2> QED
    BY <1>0, <2>1, <2>5, UnchangedKeepsType
<1>7. CASE PushEvent(p)
  <2>1. PICK e \in todo, r \in Remotes :
           /\ Sends(e, r)
           /\ draft' = [draft EXCEPT ![e].remote = r, ![e].hash = Digest(draft[e].fields)]
           /\ sent' = sent \cup {e} /\ todo' = todo \ {e}
    BY <1>7 DEF PushEvent
  <2>2. /\ Work(p, "push") /\ pushed < MaxPush /\ pushed' = pushed + 1
        /\ UNCHANGED <<phase, locked, born, doomed, erased, faults>>
    BY <1>7 DEF PushEvent
  <2>3. e \in Events
    BY <2>1, <2>2 DEF Work, TransactionOK
  <2>4. draft' \in [Events -> Row]
    <3>1. draft[e] \in Row /\ Digest(draft[e].fields) \in Fields
      BY <2>3, DigestIsFields DEF TransactionOK, Row
    <3> QED
      BY <2>1, <3>1 DEF TransactionOK, Row
  <2>5. pushed' \in 0..MaxPush
    BY <2>2, BoundsAreNumbers DEF TransactionOK
  <2>6. TransactionOK'
    BY <2>1, <2>2, <2>3, <2>4, <2>5 DEF TransactionOK
  <2> QED
    BY <1>0, <2>1, <2>2, <2>3, <2>6, SendsKeepsType
<1>8. CASE Commit(p)
  <2>1. DatabaseOK'
    <3>1. SeenRows \subseteq Events
      BY DEF SeenRows, DatabaseOK, TransactionOK
    <3>2. \A e \in Events : Committed(e) \in Row
      BY BlankRowIsRow DEF Committed, DatabaseOK, TransactionOK, Row
    <3> QED
      BY <1>8, <3>1, <3>2 DEF Commit, DatabaseOK
  <2>2. SyncsOK'
    BY <1>8, EndSyncKeepsType DEF Commit, SyncsOK, Uncovered
  <2>3. TransactionOK'
    BY <1>8, EndTransactionKeepsType DEF Commit
  <2> QED
    BY <1>8, <2>1, <2>2, <2>3, UnchangedKeepsType DEF Commit, opVars, BoundsOK
<1>9. CASE FlushFails(p)
  BY <1>9, RollbackKeepsType DEF FlushFails, Rollback, BoundsOK
<1> QED
  BY <1>1, <1>2, <1>3, <1>4, <1>5, <1>6, <1>7, <1>8, <1>9 DEF SyncStep

LEMMA FaultStepKeepsType ==
  ASSUME Typed, NEW p \in Syncs, FaultStep(p) PROVE Typed'
<1> USE DEF Typed
<1>0. ASSUME NEW kind, Fault(kind) PROVE BoundsOK'
  BY <1>0, BoundsAreNumbers DEF Fault, BoundsOK
<1>1. CASE ListAfterGone(p)
  BY <1>0, <1>1, FetchKeepsType DEF ListAfterGone
<1>2. CASE Refuse(p)
  <2>1. DatabaseOK' /\ UNCHANGED <<at, list>>
    BY <1>2, UnchangedKeepsType DEF Refuse, Work
  <2>2. TransactionOK'
    BY <1>2 DEF Refuse, TransactionOK
  <2> QED
    BY <1>0, <1>2, <2>1, <2>2, UnchangedKeepsType DEF Refuse
<1>3. CASE LoseAnswer(p)
  <2>1. DatabaseOK' /\ UNCHANGED <<at, list>>
    BY <1>3, UnchangedKeepsType DEF LoseAnswer, Work
  <2>2. TransactionOK'
    BY <1>3 DEF LoseAnswer, TransactionOK
  <2>3. ProviderOK' /\ SyncsOK'
    <3>1. ASSUME Work(p, "stones"), NEW r \in todo, Remove(r) PROVE ProviderOK' /\ SyncsOK'
      BY <2>1, <3>1, RemoveKeepsType
    <3>2. ASSUME Work(p, "moved"), NEW e \in todo, Remove(draft[e].remote)
          PROVE  ProviderOK' /\ SyncsOK'
      BY <2>1, <3>2, RemoveKeepsType
    <3>3. ASSUME Work(p, "push"), NEW e \in todo, NEW r \in Remotes, Sends(e, r)
          PROVE  ProviderOK' /\ SyncsOK'
      <4>1. e \in Events
        BY <3>3 DEF Work, TransactionOK
      <4> QED
        BY <2>1, <3>3, <4>1, SendsKeepsType
    <3> QED
      BY <1>3, <3>1, <3>2, <3>3 DEF LoseAnswer
  <2> QED
    BY <1>0, <1>3, <2>1, <2>2, <2>3 DEF LoseAnswer
<1>4. CASE Crash(p)
  BY <1>0, <1>4, RollbackKeepsType DEF Crash
<1> QED
  BY <1>1, <1>2, <1>3, <1>4 DEF FaultStep

LEMMA TypeStep == Typed /\ [Next]_vars => Typed'
<1>1. ASSUME Typed, Connect PROVE Typed'
  BY <1>1, UnchangedKeepsType
  DEF Connect, FinishConsent, CaldavConnect, NewConnection, Typed, DatabaseOK, BoundsOK, opVars
<1>2. ASSUME Typed, UNCHANGED vars PROVE Typed'
  BY <1>2, UnchangedKeepsType
  DEF vars, Typed, opVars, BoundsOK
<1> QED
  BY <1>1, <1>2, UserStepKeepsType, ProviderStepKeepsType, SyncStepKeepsType,
     FaultStepKeepsType DEF Next

(* A DELETE at work has read the link that the row had then.               *)
LEMMA OnlyReadLinks ==
  ASSUME [Next]_vars PROVE deleting' \subseteq deleting \cup {<<e, ev[e].remote>> : e \in rows}
<1>1. CASE UserStep
  BY <1>1 DEF UserStep, CreateEvent, EditEvent, MoveEvent, DeleteOccurrence, DeleteEvent,
              BeginDelete, FinishDelete, DeleteArea, Disconnect
<1>2. CASE ProviderStep
  BY <1>2
  DEF ProviderStep, ProviderAdds, ProviderEdits, ProviderDeletes, ProviderCancels, ProviderOp
<1>3. CASE Connect \/ UNCHANGED vars
  BY <1>3 DEF Connect, FinishConsent, CaldavConnect, NewConnection, vars, opVars
<1>4. ASSUME NEW p \in Syncs, SyncStep(p) \/ FaultStep(p) PROVE UNCHANGED deleting
  BY <1>4 DEF SyncStep, FaultStep, List, ListAfterGone, Fetch, Pull, DeleteStone, SelectMoved,
              DropMoved, SelectCandidates, PushEvent, Commit, FlushFails, Crash, Rollback, Refuse,
              LoseAnswer, Work, opVars
<1> QED
  BY <1>1, <1>2, <1>3, <1>4 DEF Next

(* Every variable keeps its type, whatever the constants: in particular no *)
(* sync sends more than MAX_PUSH events, and the loops of the push phase   *)
(* run over what they are for.                                             *)
THEOREM TypeCorrect == Spec => []TypeOK
<1>1. Init => Typed /\ RequestsOK
  BY TypeInit DEF Init, RequestsOK
<1>2. Typed /\ RequestsOK /\ [Next]_vars => Typed' /\ RequestsOK'
  <2> SUFFICES ASSUME Typed, RequestsOK, [Next]_vars PROVE RequestsOK'
    BY TypeStep
  <2>1. \A e \in rows : <<e, ev[e].remote>> \in Events \X (Remotes \cup {NoRemote})
    BY DEF Typed, DatabaseOK, Row
  <2> QED
    BY <2>1, OnlyReadLinks DEF RequestsOK
<1>3. Typed /\ RequestsOK => TypeOK
  BY DEF Typed, TypeOK
<1> QED
  BY <1>1, <1>2, <1>3, PTL DEF Spec

-----------------------------------------------------------------------------
(***************************************************************************)
(* Two rows never share an item.  LinksAreInjective is not inductive: it   *)
(* says nothing of the links that a running transaction is about to write. *)
(* The invariant below adds them.  A row's pending link is the one it has  *)
(* once that transaction commits; every link was given out by the          *)
(* provider, so an id that the provider gives out next is in no row, copy  *)
(* or fetched list; and a copy that the push loop still has to send has    *)
(* the link of its row, which nobody but the transaction itself writes.    *)
(***************************************************************************)
PendingLink(e) == IF e \in locked \cup sent THEN draft[e].remote ELSE ev[e].remote

LinksAreIssued ==
    /\ \A e \in rows : ev[e].remote \in issued \cup {NoRemote}
    /\ \A e \in Events : draft[e].remote \in issued \cup {NoRemote}
    /\ \A p \in Syncs : list[p].live \subseteq issued

WriteSets ==
    /\ born \subseteq locked /\ doomed \subseteq locked /\ doomed \subseteq rows
    /\ locked \subseteq rows \cup born /\ born \cap rows = {}
    /\ phase = "none" => locked = {} /\ sent = {}

PendingLinks ==
    /\ \A d, e \in SeenRows :
          PendingLink(d) # NoRemote /\ PendingLink(d) = PendingLink(e) => d = e
    /\ phase = "stones" => sent = {}
    /\ phase = "moved" => \A e \in sent : draft[e].remote = NoRemote
    /\ phase = "push" =>
          \A e \in todo : /\ e \notin sent
                          /\ e \in rows \ locked => draft[e].remote = ev[e].remote

LinkInv == Typed /\ LinksAreInjective /\ LinksAreIssued /\ WriteSets /\ PendingLinks

LEMMA LinkInit == ASSUME Init PROVE LinkInv
<1>1. Typed
  BY TypeInit
<1>2. LinksAreInjective /\ WriteSets /\ PendingLinks
  BY DEF Init, LinksAreInjective, WriteSets, PendingLinks, SeenRows
<1>3. LinksAreIssued
  BY DEF Init, LinksAreIssued, BlankRow, NoList
<1> QED
  BY <1>1, <1>2, <1>3 DEF LinkInv

(* A step that writes no link and deletes no row that the transaction has  *)
(* written: edits and deletions in ToDoch, everything the provider does,   *)
(* lists, refused requests and lost answers.                               *)
Quiet ==
    /\ rows' \subseteq rows /\ locked \cap rows \subseteq rows'
    /\ \A e \in rows' : ev'[e].remote = ev[e].remote
    /\ issued \subseteq issued' /\ \A p \in Syncs : list'[p].live \subseteq issued'
    /\ UNCHANGED <<draft, locked, born, doomed, sent>>
    /\ todo' \subseteq todo
    /\ phase' = phase \/ (phase # "none" /\ phase' = "failed")

LEMMA QuietKeepsLinks == ASSUME LinkInv, Typed', Quiet PROVE LinkInv'
<1> USE DEF LinkInv
<1>1. LinksAreInjective'
  BY DEF Quiet, LinksAreInjective, IsLinked
<1>2. LinksAreIssued'
  BY DEF Quiet, LinksAreIssued
<1>3. WriteSets'
  BY DEF Quiet, WriteSets
<1>4. PendingLinks'
  <2>1. SeenRows' \subseteq SeenRows
    BY DEF Quiet, SeenRows
  <2>2. ASSUME NEW e \in SeenRows' PROVE PendingLink(e)' = PendingLink(e)
    <3>1. e \in rows' \/ e \in locked
      BY DEF SeenRows, Quiet, WriteSets
    <3> QED
      BY <3>1 DEF PendingLink, Quiet
  <2>3. \A d, e \in SeenRows' :
           PendingLink(d)' # NoRemote /\ PendingLink(d)' = PendingLink(e)' => d = e
    BY <2>1, <2>2 DEF PendingLinks
  <2>4. phase' = "stones" => sent' = {}
    BY DEF Quiet, PendingLinks
  <2>5. phase' = "moved" => \A e \in sent' : draft'[e].remote = NoRemote
    BY DEF Quiet, PendingLinks
  <2>6. phase' = "push" =>
          \A e \in todo' : /\ e \notin sent'
                           /\ e \in rows' \ locked' => draft'[e].remote = ev'[e].remote
    BY DEF Quiet, PendingLinks
  <2> QED
    BY <2>3, <2>4, <2>5, <2>6 DEF PendingLinks
<1> QED
  BY <1>1, <1>2, <1>3, <1>4

LEMMA UserStepKeepsLinks == ASSUME LinkInv, Typed', UserStep PROVE LinkInv'
<1> USE DEF LinkInv
<1>0. ASSUME InToDoch
      PROVE  /\ issued' = issued /\ list' = list
             /\ UNCHANGED <<phase, todo, draft, locked, born, doomed, sent>>
             /\ \A p \in Syncs : list'[p].live \subseteq issued'
  BY <1>0 DEF InToDoch, providerVars, txVars, LinksAreIssued
<1>1. ASSUME NEW e \in Events, NEW f \in UserFields, NEW a \in Areas, CreateEvent(e, f, a)
      PROVE  LinkInv'
  <2>1. InToDoch /\ e \notin rows \cup locked \cup sent /\ (phase = "push" => e \notin todo)
    BY <1>1 DEF CreateEvent, UserOp, InUse
  <2>2. /\ rows' = rows \cup {e} /\ ev'[e].remote = NoRemote
        /\ \A d \in rows : ev'[d] = ev[d]
    BY <1>1, <2>1, BlankRowIsRow DEF CreateEvent, Typed, DatabaseOK, BlankRow
  <2>3. LinksAreInjective'
    BY <2>2 DEF LinksAreInjective, IsLinked
  <2>4. LinksAreIssued'
    BY <1>0, <2>1, <2>2 DEF LinksAreIssued
  <2>5. WriteSets'
    BY <1>0, <2>1, <2>2 DEF WriteSets
  <2>6. SeenRows' = SeenRows \cup {e}
    BY <1>0, <2>1, <2>2 DEF SeenRows, WriteSets
  <2>7. PendingLink(e)' = NoRemote /\ \A d \in SeenRows : PendingLink(d)' = PendingLink(d)
    BY <1>0, <2>1, <2>2 DEF PendingLink, SeenRows, WriteSets
  <2>8. \A c, d \in SeenRows' :
           PendingLink(c)' # NoRemote /\ PendingLink(c)' = PendingLink(d)' => c = d
    BY <2>6, <2>7 DEF PendingLinks
  <2>9. PendingLinks'
    BY <1>0, <2>1, <2>2, <2>8 DEF PendingLinks
  <2> QED
    BY <2>3, <2>4, <2>5, <2>9
<1>2. ASSUME NEW e \in Events, NEW f \in UserFields, EditEvent(e, f) PROVE Quiet
  BY <1>0, <1>2 DEF EditEvent, UserOp, Quiet, Typed, DatabaseOK, Row
<1>3. ASSUME NEW e \in Events, MoveEvent(e) PROVE Quiet
  BY <1>0, <1>3 DEF MoveEvent, UserOp, Quiet, Typed, DatabaseOK, Row
<1>4. ASSUME NEW e \in Events, NEW o \in Occurrences, DeleteOccurrence(e, o) PROVE Quiet
  BY <1>0, <1>4 DEF DeleteOccurrence, UserOp, Quiet, Typed, DatabaseOK, Row
<1>5. ASSUME NEW e \in Events, NEW link, Delete(e, link), InToDoch PROVE Quiet
  BY <1>0, <1>5 DEF Delete, Quiet, Typed, DatabaseOK
<1>6. CASE DeleteArea
  <2>1. Quiet
    BY <1>0, <1>6 DEF DeleteArea, UserOp, Quiet, Typed, DatabaseOK
  <2> QED
    BY <2>1, QuietKeepsLinks
<1>7. CASE Disconnect
  <2>1. /\ phase = "none" /\ rows' = rows /\ UNCHANGED <<providerVars, txVars>>
        /\ \A e \in Events : ev'[e].remote = NoRemote
        /\ \A p \in Syncs : list'[p].live = {}
    BY <1>7 DEF Disconnect, Typed, DatabaseOK, Row, NoList
  <2>2. UNCHANGED <<issued, phase, todo, draft, locked, born, doomed, sent>>
    BY <2>1 DEF providerVars, txVars
  <2>3. rows \subseteq Events
    BY DEF Typed, DatabaseOK
  <2>4. LinksAreInjective'
    BY <2>1, <2>3 DEF LinksAreInjective, IsLinked
  <2>5. LinksAreIssued'
    BY <2>1, <2>2, <2>3 DEF LinksAreIssued
  <2>6. WriteSets'
    BY <2>1, <2>2 DEF WriteSets
  <2>7. PendingLinks'
    <3>1. SeenRows' \subseteq rows /\ locked' \cup sent' = {}
      BY <2>1, <2>2 DEF WriteSets, SeenRows
    <3>2. \A e \in SeenRows' : PendingLink(e)' = NoRemote
      BY <2>1, <2>3, <3>1 DEF PendingLink
    <3> QED
      BY <2>1, <2>2, <3>2 DEF PendingLinks
  <2> QED
    BY <2>4, <2>5, <2>6, <2>7
<1>8. ASSUME NEW e \in Events, BeginDelete(e) PROVE Quiet
  BY <1>0, <1>8 DEF BeginDelete, UserOp, dbVars, Quiet
<1> QED
  BY <1>1, <1>2, <1>3, <1>4, <1>5, <1>6, <1>7, <1>8, QuietKeepsLinks
  DEF UserStep, DeleteEvent, FinishDelete, UserOp

(* The provider gives out ids and takes none back.                         *)
LEMMA ProviderOnlyIssues ==
  /\ \A r, i : Put(r, i) => issued' = issued \cup {r}
  /\ \A r : Remove(r) => issued' = issued
  BY DEF Put, Remove

LEMMA ProviderStepIsQuiet == ASSUME LinkInv, ProviderStep PROVE Quiet
<1>1. ASSUME ProviderOp, issued \subseteq issued' PROVE Quiet
  BY <1>1 DEF ProviderOp, dbVars, txVars, Quiet, LinkInv, LinksAreIssued, WriteSets
<1>2. ASSUME NEW r \in Remotes, NEW i \in ProviderItems,
             ProviderAdds(r, i) \/ ProviderEdits(r, i)
      PROVE  Quiet
  BY <1>1, <1>2, ProviderOnlyIssues DEF ProviderAdds, ProviderEdits
<1>3. ASSUME NEW r \in Remotes, ProviderDeletes(r) PROVE Quiet
  BY <1>1, <1>3, ProviderOnlyIssues DEF ProviderDeletes
<1>4. ASSUME NEW r \in Remotes, NEW o \in Occurrences, ProviderCancels(r, o) PROVE Quiet
  BY <1>1, <1>4 DEF ProviderCancels
<1> QED
  BY <1>2, <1>3, <1>4 DEF ProviderStep

(* Reading the provider's list: it holds only ids that were given out.     *)
LEMMA FetchIsQuiet ==
  ASSUME LinkInv, NEW p \in Syncs, NEW full \in BOOLEAN, Fetch(p, full) PROVE Quiet
<1>1. Listing(full).live \subseteq issued
  BY DEF Listing, ListSince, WholeList, ListOf, LinkInv, Typed, ProviderOK
<1>2. \A q \in Syncs : list'[q].live \subseteq issued
  BY <1>1 DEF Fetch, LinkInv, Typed, SyncsOK, LinksAreIssued
<1> QED
  BY <1>2 DEF Fetch, dbVars, providerVars, txVars, Quiet

LEMMA EndSyncKeepsLists ==
  ASSUME LinkInv, NEW p \in Syncs, EndSync(p)
  PROVE  \A q \in Syncs : list'[q].live \subseteq issued
  BY DEF EndSync, LinkInv, Typed, SyncsOK, LinksAreIssued, NoList

(* The end of a transaction leaves nothing pending.                        *)
LEMMA EndTransactionKeepsLinks ==
  ASSUME EndTransaction, Typed', LinksAreInjective',
         \A e \in rows' : ev'[e].remote \in issued' \cup {NoRemote},
         \A p \in Syncs : list'[p].live \subseteq issued'
  PROVE  LinkInv'
<1>1. /\ phase' = "none" /\ draft' = [e \in Events |-> BlankRow]
      /\ locked' = {} /\ born' = {} /\ doomed' = {} /\ sent' = {}
  BY DEF EndTransaction
<1>2. LinksAreIssued'
  BY <1>1 DEF LinksAreIssued, BlankRow
<1>3. WriteSets'
  BY <1>1 DEF WriteSets
<1>4. SeenRows' = rows' /\ \A e \in rows' : PendingLink(e)' = ev'[e].remote
  BY <1>1 DEF SeenRows, PendingLink
<1>5. PendingLinks'
  BY <1>1, <1>4 DEF PendingLinks, LinksAreInjective, IsLinked
<1> QED
  BY <1>2, <1>3, <1>5 DEF LinkInv

LEMMA RollbackKeepsLinks ==
  ASSUME LinkInv, Typed', NEW p \in Syncs, Rollback(p) PROVE LinkInv'
<1>1. /\ rows' = rows /\ ev' = ev /\ issued' = issued
      /\ \A q \in Syncs : list'[q].live \subseteq issued'
  BY EndSyncKeepsLists DEF Rollback, dbVars, providerVars
<1>2. CASE EndTransaction
  BY <1>1, <1>2, EndTransactionKeepsLinks DEF LinkInv, LinksAreInjective, LinksAreIssued, IsLinked
<1>3. CASE UNCHANGED txVars
  <2>1. Quiet
    BY <1>1, <1>3 DEF txVars, Quiet
  <2> QED
    BY <2>1, QuietKeepsLinks
<1> QED
  BY <1>2, <1>3 DEF Rollback

(* The first statements of a sync: new rows get links that no row has.     *)
LEMMA PullKeepsLinks ==
  ASSUME LinkInv, Typed', NEW p \in Syncs, Pull(p) PROVE LinkInv'
<1> DEFINE L == list[p]
<1> USE DEF LinkInv
<1>1. /\ phase = "none" /\ phase' = "stones"
      /\ doomed' = Forgotten(L) /\ locked' = born' \cup doomed' \cup Touched(L)
      /\ list' = [list EXCEPT ![p] = NoList]
      /\ UNCHANGED <<rows, ev, issued, sent>>
  BY DEF Pull, dbVars, providerVars
<1>2. /\ born' \subseteq Events \ InUse
      /\ \A e \in born' : \E r \in Arrivals(L) : draft'[e].remote = r
      /\ \A d, e \in born' : draft'[d].remote = draft'[e].remote => d = e
      /\ \A e \in Touched(L) : draft'[e].remote = ev[e].remote
      /\ \A e \in Events \ (born' \cup Touched(L)) : draft'[e] = BlankRow
  BY PullGives
<1>3. locked = {} /\ sent = {} /\ born' \cap rows = {} /\ rows \subseteq Events
  BY <1>1, <1>2 DEF WriteSets, InUse, Typed, DatabaseOK
<1>4. Forgotten(L) \subseteq rows /\ Touched(L) \subseteq rows
  BY DEF Forgotten, Touched
<1>5. Arrivals(L) \subseteq issued /\ \A r \in Arrivals(L), e \in rows : ev[e].remote # r
  BY DEF Arrivals, LinksAreIssued
<1>6. LinksAreInjective'
  BY <1>1 DEF LinksAreInjective, IsLinked
<1>7. LinksAreIssued'
  <2>1. \A e \in Events : draft'[e].remote \in issued \cup {NoRemote}
    BY <1>2, <1>4, <1>5 DEF LinksAreIssued, BlankRow
  <2>2. \A q \in Syncs : list'[q].live \subseteq issued
    BY <1>1 DEF LinksAreIssued, Typed, SyncsOK, NoList
  <2> QED
    BY <1>1, <2>1, <2>2 DEF LinksAreIssued
<1>8. WriteSets'
  BY <1>1, <1>3, <1>4 DEF WriteSets
<1>9. PendingLinks'
  <2>1. SeenRows' \subseteq rows \cup born'
    BY <1>1 DEF SeenRows
  <2>2. \A e \in born' : PendingLink(e)' \in Arrivals(L) /\ PendingLink(e)' = draft'[e].remote
    BY <1>1, <1>2 DEF PendingLink
  <2>3. ASSUME NEW e \in SeenRows' \ born' PROVE e \in rows /\ PendingLink(e)' = ev[e].remote
    BY <1>1, <1>2, <1>3 DEF PendingLink, SeenRows
  <2>4. \A d, e \in SeenRows' :
           PendingLink(d)' # NoRemote /\ PendingLink(d)' = PendingLink(e)' => d = e
    BY <2>1, <2>2, <2>3, <1>2, <1>5 DEF LinksAreInjective, IsLinked
  <2> QED
    BY <1>1, <1>3, <2>4 DEF PendingLinks
<1> QED
  BY <1>6, <1>7, <1>8, <1>9

LEMMA DeleteStoneIsQuiet == ASSUME LinkInv, NEW p \in Syncs, DeleteStone(p) PROVE Quiet
<1>1. issued' = issued /\ todo' \subseteq todo
  BY ProviderOnlyIssues DEF DeleteStone
<1> QED
  BY <1>1 DEF DeleteStone, Work, dbVars, Quiet, LinkInv, LinksAreIssued

(* Copies taken for the rows that left the area say what the rows say.     *)
LEMMA SelectMovedKeepsLinks ==
  ASSUME LinkInv, Typed', NEW p \in Syncs, SelectMoved(p) PROVE LinkInv'
<1> USE DEF LinkInv
<1>1. /\ phase = "stones" /\ phase' = "moved" /\ todo' \subseteq SeenRows
      /\ draft' = [e \in Events |-> IF e \in todo' THEN Seen(e) ELSE draft[e]]
      /\ UNCHANGED <<rows, ev, list, issued, locked, born, doomed, sent>>
  BY DEF SelectMoved, Work, dbVars, providerVars
<1>2. sent = {}
  BY <1>1 DEF PendingLinks
<1>3. SeenRows \subseteq Events
  BY DEF SeenRows, Typed, DatabaseOK, TransactionOK
<1>4. LinksAreInjective' /\ WriteSets'
  BY <1>1, <1>2 DEF LinksAreInjective, IsLinked, WriteSets
<1>5. \A e \in todo' : Seen(e).remote \in issued \cup {NoRemote}
  BY <1>1, <1>3 DEF Seen, SeenRows, WriteSets, LinksAreIssued
<1>6. LinksAreIssued'
  BY <1>1, <1>5 DEF LinksAreIssued
<1>7. SeenRows' = SeenRows
  BY <1>1 DEF SeenRows
<1>8. ASSUME NEW e \in SeenRows PROVE PendingLink(e)' = PendingLink(e)
  BY <1>1, <1>2, <1>3 DEF PendingLink, Seen
<1>9. PendingLinks'
  BY <1>1, <1>2, <1>7, <1>8 DEF PendingLinks
<1> QED
  BY <1>4, <1>6, <1>9

(* A row that left the area loses its link.                                *)
LEMMA DropMovedKeepsLinks ==
  ASSUME LinkInv, Typed', NEW p \in Syncs, DropMoved(p) PROVE LinkInv'
<1> USE DEF LinkInv
<1>1. PICK e \in todo : /\ Remove(draft[e].remote)
                        /\ draft' = [draft EXCEPT ![e] = Unlinked(draft[e])]
                        /\ sent' = sent \cup {e} /\ todo' = todo \ {e}
  BY DEF DropMoved
<1>2. /\ phase = "moved" /\ phase' = phase
      /\ UNCHANGED <<rows, ev, list, locked, born, doomed>>
  BY DEF DropMoved, Work, dbVars
<1>3. issued' = issued
  BY <1>1, ProviderOnlyIssues
<1>4. e \in Events /\ Unlinked(draft[e]).remote = NoRemote
  BY <1>1, <1>2 DEF Typed, TransactionOK, Unlinked, Row
<1>5. draft'[e].remote = NoRemote /\ \A d \in Events \ {e} : draft'[d] = draft[d]
  BY <1>1, <1>4 DEF Typed, TransactionOK
<1>6. LinksAreInjective' /\ WriteSets'
  BY <1>2 DEF LinksAreInjective, IsLinked, WriteSets
<1>7. LinksAreIssued'
  BY <1>2, <1>3, <1>5 DEF LinksAreIssued
<1>8. SeenRows' = SeenRows /\ SeenRows \subseteq Events
  BY <1>2 DEF SeenRows, Typed, DatabaseOK, TransactionOK
<1>9. PendingLink(e)' = NoRemote /\ \A d \in SeenRows \ {e} : PendingLink(d)' = PendingLink(d)
  BY <1>1, <1>2, <1>5, <1>8 DEF PendingLink
<1>10. \A c, d \in SeenRows' :
          PendingLink(c)' # NoRemote /\ PendingLink(c)' = PendingLink(d)' => c = d
  BY <1>8, <1>9 DEF PendingLinks
<1>11. \A d \in sent' : draft'[d].remote = NoRemote
  BY <1>1, <1>2, <1>5 DEF PendingLinks, Typed, TransactionOK
<1>12. PendingLinks'
  BY <1>2, <1>10, <1>11 DEF PendingLinks
<1> QED
  BY <1>6, <1>7, <1>12

(* The flush writes what was pending; the copies of the candidates say     *)
(* what the rows say then.                                                 *)
LEMMA SelectCandidatesKeepsLinks ==
  ASSUME LinkInv, Typed', NEW p \in Syncs, SelectCandidates(p) PROVE LinkInv'
<1> USE DEF LinkInv
<1> DEFINE seen(e) == IF e \in locked THEN draft[e]
                      ELSE IF e \in sent THEN Unlinked(ev[e]) ELSE ev[e]
<1>1. /\ phase = "moved" /\ phase' = "push"
      /\ locked' = locked \cup (sent \cap rows) /\ sent' = {}
      /\ todo' \subseteq SeenRows
      /\ draft' = [e \in Events |->
                      IF e \in SeenRows \cap (locked' \cup todo') THEN seen(e) ELSE BlankRow]
      /\ UNCHANGED <<rows, ev, list, issued, born, doomed>>
  BY DEF SelectCandidates, Work, dbVars, providerVars
<1>2. SeenRows \subseteq Events /\ SeenRows \subseteq rows \cup locked
  BY DEF SeenRows, Typed, DatabaseOK, TransactionOK, WriteSets
<1>3. ASSUME NEW e \in SeenRows PROVE seen(e).remote = PendingLink(e)
  <2>1. e \in sent => draft[e].remote = NoRemote
    BY <1>1 DEF PendingLinks
  <2>2. Unlinked(ev[e]).remote = NoRemote
    BY <1>2 DEF Unlinked, Typed, DatabaseOK, Row
  <2> QED
    BY <2>1, <2>2 DEF PendingLink
<1>4. ASSUME NEW e \in SeenRows PROVE PendingLink(e) \in issued \cup {NoRemote}
  BY <1>2 DEF PendingLink, LinksAreIssued
<1>5. \A e \in SeenRows \cap (locked' \cup todo') : draft'[e].remote = PendingLink(e)
  <2> HIDE DEF seen
  <2> QED
    BY <1>1, <1>2, <1>3
<1>6. \A e \in Events \ (SeenRows \cap (locked' \cup todo')) : draft'[e] = BlankRow
  BY <1>1
<1> HIDE DEF seen
<1>7. LinksAreInjective' /\ WriteSets'
  BY <1>1 DEF LinksAreInjective, IsLinked, WriteSets
<1>8. LinksAreIssued'
  <2>1. \A e \in Events : draft'[e].remote \in issued \cup {NoRemote}
    BY <1>4, <1>5, <1>6 DEF BlankRow
  <2> QED
    BY <1>1, <2>1 DEF LinksAreIssued
<1>9. SeenRows' = SeenRows
  BY <1>1 DEF SeenRows
<1>10. ASSUME NEW e \in SeenRows PROVE PendingLink(e)' = PendingLink(e)
  <2>1. CASE e \in locked'
    BY <1>5, <2>1 DEF PendingLink
  <2>2. CASE e \notin locked'
    <3>1. e \in rows /\ e \notin locked /\ e \notin sent
      BY <1>1, <1>2, <2>2
    <3> QED
      BY <1>1, <2>2, <3>1 DEF PendingLink
  <2> QED
    BY <2>1, <2>2
<1>11. ASSUME NEW e \in todo', e \in rows \ locked' PROVE draft'[e].remote = ev[e].remote
  BY <1>1, <1>5, <1>11 DEF PendingLink
<1>12. PendingLinks'
  BY <1>1, <1>9, <1>10, <1>11 DEF PendingLinks
<1> QED
  BY <1>7, <1>8, <1>12

(* A sent row keeps its link or gets one that nobody has.                  *)
LEMMA PushEventKeepsLinks ==
  ASSUME LinkInv, Typed', NEW p \in Syncs, PushEvent(p) PROVE LinkInv'
<1> USE DEF LinkInv
<1>1. PICK e \in todo, r \in Remotes :
         /\ Sends(e, r)
         /\ draft' = [draft EXCEPT ![e].remote = r, ![e].hash = Digest(draft[e].fields)]
         /\ sent' = sent \cup {e} /\ todo' = todo \ {e}
  BY DEF PushEvent
<1>2. /\ phase = "push" /\ phase' = phase
      /\ UNCHANGED <<rows, ev, list, locked, born, doomed>>
  BY DEF PushEvent, Work, dbVars
<1>3. e \in Events
  BY <1>1, <1>2 DEF Typed, TransactionOK
<1>4. draft'[e].remote = r /\ \A d \in Events \ {e} : draft'[d] = draft[d]
  BY <1>1, <1>3 DEF Typed, TransactionOK, Row
<1>5. issued' = issued \cup {r} /\ (r = draft[e].remote \/ r \notin issued)
  BY <1>1, ProviderOnlyIssues DEF Sends
<1>6. r # NoRemote
  BY SyncAssumption
<1>7. LinksAreInjective' /\ WriteSets'
  BY <1>2 DEF LinksAreInjective, IsLinked, WriteSets
<1>8. LinksAreIssued'
  BY <1>2, <1>4, <1>5 DEF LinksAreIssued
<1>9. SeenRows' = SeenRows /\ SeenRows \subseteq Events /\ SeenRows \subseteq rows \cup locked
  BY <1>2 DEF SeenRows, Typed, DatabaseOK, TransactionOK, WriteSets
<1>10. PendingLink(e)' = r /\ \A d \in SeenRows \ {e} : PendingLink(d)' = PendingLink(d)
  <2>1. sent' = sent \cup {e}
    BY <1>1
  <2> QED
    BY <2>1, <1>2, <1>4, <1>9 DEF PendingLink
<1>11. \A d \in SeenRows : PendingLink(d) \in issued \cup {NoRemote}
  BY <1>9 DEF PendingLink, LinksAreIssued
<1>12. e \in SeenRows /\ r = draft[e].remote => PendingLink(e) = r
  BY <1>1, <1>2, <1>9 DEF PendingLink, PendingLinks
<1>13. \A c, d \in SeenRows' :
          PendingLink(c)' # NoRemote /\ PendingLink(c)' = PendingLink(d)' => c = d
  <2>1. CASE r = draft[e].remote
    BY <2>1, <1>9, <1>10, <1>12 DEF PendingLinks
  <2>2. CASE r \notin issued
    BY <2>2, <1>6, <1>9, <1>10, <1>11 DEF PendingLinks
  <2> QED
    BY <2>1, <2>2, <1>5
<1>14. \A d \in todo' : /\ d \notin sent'
                        /\ d \in rows' \ locked' => draft'[d].remote = ev'[d].remote
  BY <1>1, <1>2, <1>4 DEF PendingLinks, Typed, TransactionOK
<1>15. PendingLinks'
  BY <1>2, <1>13, <1>14 DEF PendingLinks
<1> QED
  BY <1>7, <1>8, <1>15

(* The commit makes the pending links the links of the rows.               *)
LEMMA CommitKeepsLinks ==
  ASSUME LinkInv, Typed', NEW p \in Syncs, Commit(p) PROVE LinkInv'
<1> USE DEF LinkInv
<1>1. /\ rows' = SeenRows /\ ev' = [e \in Events |-> Committed(e)]
      /\ EndSync(p) /\ EndTransaction /\ issued' = issued
  BY DEF Commit, providerVars
<1>2. SeenRows \subseteq Events /\ SeenRows \subseteq rows \cup locked /\ SeenRows \cap doomed = {}
  BY DEF SeenRows, Typed, DatabaseOK, TransactionOK, WriteSets
<1>3. ASSUME NEW e \in SeenRows PROVE ev'[e].remote = PendingLink(e)
  <2>1. ev'[e] = Committed(e)
    BY <1>1, <1>2
  <2>2. CASE e \in locked
    BY <1>2, <2>1, <2>2 DEF Committed, PendingLink
  <2>3. CASE e \in rows \ locked
    BY <1>2, <2>1, <2>3 DEF Committed, PendingLink, Typed, DatabaseOK, Row
  <2> QED
    BY <1>2, <2>2, <2>3
<1>4. LinksAreInjective'
  BY <1>1, <1>3 DEF LinksAreInjective, IsLinked, PendingLinks
<1>5. \A e \in rows' : ev'[e].remote \in issued' \cup {NoRemote}
  BY <1>1, <1>2, <1>3 DEF PendingLink, LinksAreIssued
<1> QED
  BY <1>1, <1>4, <1>5, EndSyncKeepsLists, EndTransactionKeepsLinks

LEMMA SyncStepKeepsLinks ==
  ASSUME LinkInv, Typed', NEW p \in Syncs, SyncStep(p) PROVE LinkInv'
<1>1. CASE List(p)
  <2>1. Fetch(p, ~token)
    BY <1>1 DEF List
  <2>2. (~token) \in BOOLEAN
    BY DEF LinkInv, Typed, DatabaseOK
  <2> QED
    BY <2>1, <2>2, FetchIsQuiet, QuietKeepsLinks
<1>2. CASE FlushFails(p)
  BY <1>2, RollbackKeepsLinks DEF FlushFails
<1> QED
  BY <1>1, <1>2, PullKeepsLinks, DeleteStoneIsQuiet, QuietKeepsLinks, SelectMovedKeepsLinks,
     DropMovedKeepsLinks, SelectCandidatesKeepsLinks, PushEventKeepsLinks, CommitKeepsLinks
  DEF SyncStep

LEMMA FaultStepKeepsLinks ==
  ASSUME LinkInv, Typed', NEW p \in Syncs, FaultStep(p) PROVE LinkInv'
<1>1. CASE ListAfterGone(p)
  BY <1>1, FetchIsQuiet, QuietKeepsLinks DEF ListAfterGone
<1>2. CASE Refuse(p) \/ LoseAnswer(p)
  <2>1. /\ phase \in {"stones", "moved", "push"} /\ phase' = "failed"
        /\ UNCHANGED <<rows, ev, list, todo, draft, locked, born, doomed, sent>>
    BY <1>2 DEF Refuse, LoseAnswer, Work, dbVars
  <2>2. issued \subseteq issued'
    BY <1>2, ProviderOnlyIssues DEF Refuse, LoseAnswer, Sends, providerVars
  <2>3. Quiet
    BY <2>1, <2>2 DEF Quiet, LinkInv, LinksAreIssued
  <2> QED
    BY <2>3, QuietKeepsLinks
<1>3. CASE Crash(p)
  BY <1>3, RollbackKeepsLinks DEF Crash
<1> QED
  BY <1>1, <1>2, <1>3 DEF FaultStep

LEMMA LinkStep == LinkInv /\ [Next]_vars => LinkInv'
<1> SUFFICES ASSUME LinkInv, [Next]_vars PROVE LinkInv'
  OBVIOUS
<1>1. Typed'
  BY TypeStep DEF LinkInv
<1>2. CASE Connect \/ UNCHANGED vars
  <2>1. UNCHANGED <<rows, ev, issued, list, phase, todo, draft, locked, born, doomed, sent>>
    BY <1>2 DEF Connect, FinishConsent, CaldavConnect, NewConnection, vars, dbVars, providerVars,
                txVars
  <2>2. Quiet
    BY <2>1 DEF Quiet, LinkInv, LinksAreIssued
  <2> QED
    BY <1>1, <2>2, QuietKeepsLinks
<1>3. CASE ProviderStep
  BY <1>1, <1>3, ProviderStepIsQuiet, QuietKeepsLinks
<1> QED
  BY <1>1, <1>2, <1>3, UserStepKeepsLinks, SyncStepKeepsLinks, FaultStepKeepsLinks DEF Next

(* Whatever interleaves, fails, is repeated or rolled back, two rows never *)
(* stand for the same item: uq_events_connection_remote never stops a sync. *)
THEOREM LinksStayInjective == Spec => []LinksAreInjective
<1>1. Init => LinkInv
  BY LinkInit
<1>2. LinkInv => LinksAreInjective
  BY DEF LinkInv
<1> QED
  BY <1>1, <1>2, LinkStep, PTL DEF Spec

-----------------------------------------------------------------------------
(***************************************************************************)
(* What ToDoch put into the online calendar is not left behind, and a row  *)
(* is forgotten only when its item is gone, as long as one sync runs at a  *)
(* time: with two, a whole list may be older than what the other has       *)
(* inserted.  Google's lists since a token stay true however old they are. *)
(* The invariant follows a copy from the request that makes it to the      *)
(* commit, a rollback or a tombstone: the link that its row will have      *)
(* (PendingLink) leads to it, no other row's link does, and what a list    *)
(* calls deleted stays deleted, since ids are given out once.              *)
(***************************************************************************)
OneSync == \A p, q \in Syncs : p = q

NoOldWholeLists == OneSync \/ Providers = {"google"}

TokensAreGoogles == token => ~Complete

ListedGone ==
    \A p \in Syncs : at[p] = "listed" =>
        \A e \in rows : IsLinked(ev[e]) /\ Forgets(list[p], ev[e].remote) =>
                            ev[e].remote \notin live

DraftLinks ==
    \A d \in Events, e \in rows :
        draft[d].remote # NoRemote /\ draft[d].remote = ev[e].remote => e = d

TodoLinks ==
    phase \in {"moved", "push"} =>
        \A e \in todo : /\ e \notin sent \cup doomed
                        /\ e \in rows \ locked => draft[e].remote = ev[e].remote

OldLinks == \A e \in (locked \cap rows) \ sent : draft[e].remote \in {ev[e].remote, NoRemote}

BornLinks ==
    \A e \in born \ sent :
        draft[e].remote \in live /\ item[draft[e].remote].mine =>
            draft[e].remote \in stones \cup orphans

Erased ==
    /\ erased \cap live = {} /\ erased \subseteq issued /\ stones \subseteq issued
    /\ phase = "stones" => todo \subseteq issued

CopiesKept ==
    \A r \in live : item[r].mine =>
        r \in stones \cup orphans \/ \E e \in SeenRows : PendingLink(e) = r

Places == DraftLinks /\ TodoLinks /\ OldLinks /\ Erased

CopyInv == LinkInv /\ TokensAreGoogles /\ ListedGone /\ Places /\ BornLinks /\ CopiesKept

(* What a DELETE at work has read is a link.                               *)
ReadLinks == \A d \in deleting : d[2] \in issued \cup {NoRemote}

LEMMA CopyInit == ASSUME Init PROVE CopyInv
<1>1. LinkInv
  BY LinkInit
<1>2. TokensAreGoogles /\ ListedGone /\ CopiesKept /\ BornLinks
  BY DEF Init, TokensAreGoogles, ListedGone, CopiesKept, BornLinks
<1>3. Places
  BY DEF Init, Places, DraftLinks, TodoLinks, OldLinks, Erased
<1> QED
  BY <1>1, <1>2, <1>3 DEF CopyInv

(* A step that writes no link of the transaction, and brings no deleted id *)
(* back.                                                                   *)
StaysDead == issued \subseteq issued' /\ \A r \in issued : r \notin live => r \notin live'

Still ==
    /\ \A e \in rows' : \/ e \in rows /\ ev'[e].remote = ev[e].remote
                        \/ /\ e \notin rows \cup locked \cup sent \cup todo'
                           /\ ev'[e].remote = NoRemote
    /\ UNCHANGED <<draft, locked, born, doomed, sent>>
    /\ todo' \subseteq todo /\ (phase' = phase \/ phase' = "failed")
    /\ stones \subseteq stones' /\ orphans \subseteq orphans' /\ StaysDead

LEMMA StillKeepsPlaces ==
  ASSUME LinkInv, Places, LinkInv', Still, stones' \subseteq issued', erased' \subseteq issued',
         erased' \cap live' = {}
  PROVE  Places'
<1> USE DEF LinkInv
<1>1. DraftLinks'
  BY DEF Still, Places, DraftLinks
<1>2. TodoLinks'
  BY DEF Still, Places, TodoLinks
<1>3. OldLinks'
  BY DEF Still, Places, OldLinks
<1>4. Erased'
  BY DEF Still, StaysDead, Places, Erased
<1> QED
  BY <1>1, <1>2, <1>3, <1>4 DEF Places

(* Whoever stays keeps the link it will have.                              *)
LEMMA StillPending ==
  ASSUME WriteSets, Still, NEW e \in SeenRows, e \in SeenRows'
  PROVE  PendingLink(e)' = PendingLink(e)
  BY DEF WriteSets, Still, SeenRows, PendingLink

LEMMA StillKeepsCopies ==
  ASSUME LinkInv, BornLinks, CopiesKept, LinkInv', Still,
         \A r \in live' : item'[r].mine => r \in live /\ item[r].mine,
         \A e \in SeenRows : \/ e \in SeenRows'
                             \/ PendingLink(e) \in live => PendingLink(e) \in stones' \cup orphans'
  PROVE  BornLinks' /\ CopiesKept'
<1>1. WriteSets
  BY DEF LinkInv
<1>2. BornLinks'
  BY DEF Still, BornLinks
<1>3. ASSUME NEW r \in live', item'[r].mine
      PROVE  r \in stones' \cup orphans' \/ \E e \in SeenRows' : PendingLink(e)' = r
  <2>1. r \in live /\ item[r].mine
    BY <1>3
  <2>2. CASE r \in stones \cup orphans
    BY <2>2 DEF Still
  <2>3. ASSUME NEW e \in SeenRows, PendingLink(e) = r
        PROVE  r \in stones' \cup orphans' \/ \E d \in SeenRows' : PendingLink(d)' = r
    BY <1>1, <2>1, <2>3, StillPending
  <2> QED
    BY <2>1, <2>2, <2>3 DEF CopiesKept
<1> QED
  BY <1>2, <1>3 DEF CopiesKept

(* Requests to the provider: an id it has given out is used for the item   *)
(* it was given to, or never again.                                        *)
LEMMA PutStaysDead ==
  ASSUME NEW r, NEW i, Put(r, i), r \notin issued \/ r \in live PROVE StaysDead
  BY DEF Put, StaysDead

LEMMA RemoveStaysDead ==
  ASSUME NEW r, Remove(r)
  PROVE  StaysDead /\ live' = live \ {r} /\ issued' = issued
  BY DEF Remove, StaysDead

LEMMA RemoveIsNotMine ==
  ASSUME ProviderOK, NEW r, Remove(r)
  PROVE  \A x \in live' : item'[x].mine => x \in live /\ item[x].mine
  BY DEF ProviderOK, Remove

(* A list that stays as it is still names as deleted what is deleted.      *)
LEMMA ListsStay ==
  ASSUME LinkInv, ListedGone, StaysDead, provider' = provider,
         \A p \in Syncs : at'[p] = "listed" => at[p] = "listed" /\ list'[p] = list[p],
         \A e \in rows' : (e \in rows /\ ev'[e].remote = ev[e].remote) \/ ev'[e].remote = NoRemote
  PROVE  ListedGone'
<1> SUFFICES ASSUME NEW p \in Syncs, at'[p] = "listed", NEW e \in rows',
                    ev'[e].remote # NoRemote, Forgets(list[p], ev'[e].remote)
             PROVE  ev'[e].remote \notin live'
  BY DEF ListedGone, IsLinked, Forgets, Complete
<1>1. e \in rows /\ ev'[e].remote = ev[e].remote
  OBVIOUS
<1>2. ev[e].remote \notin live
  BY <1>1 DEF ListedGone, IsLinked
<1> QED
  BY <1>1, <1>2 DEF StaysDead, LinkInv, LinksAreIssued

(* All of it, for the steps that write no link.                            *)
LEMMA StillKeepsAll ==
  ASSUME CopyInv, LinkInv', Still, TokensAreGoogles', provider' = provider,
         \A p \in Syncs : at'[p] = "listed" => at[p] = "listed" /\ list'[p] = list[p],
         stones' \cup erased' \subseteq issued', erased' \cap live' = {},
         \A r \in live' : item'[r].mine => r \in live /\ item[r].mine,
         \A e \in SeenRows : \/ e \in SeenRows'
                             \/ PendingLink(e) \in live => PendingLink(e) \in stones' \cup orphans'
  PROVE  CopyInv'
<1>1. LinkInv /\ ListedGone /\ Places /\ BornLinks /\ CopiesKept
  BY DEF CopyInv
<1>2. ListedGone'
  <2>1. /\ StaysDead
        /\ \A e \in rows' : (e \in rows /\ ev'[e].remote = ev[e].remote) \/ ev'[e].remote = NoRemote
    BY DEF Still
  <2> QED
    BY <1>1, <2>1, ListsStay
<1>3. Places'
  BY <1>1, StillKeepsPlaces
<1>4. BornLinks' /\ CopiesKept'
  BY <1>1, StillKeepsCopies
<1> QED
  BY <1>2, <1>3, <1>4 DEF CopyInv

LEMMA UserStepKeepsCopies ==
  ASSUME CopyInv, ReadLinks, LinkInv', UserStep PROVE CopyInv'
<1>0. LinkInv /\ Typed /\ WriteSets /\ LinksAreIssued /\ Places /\ CopiesKept
  BY DEF CopyInv, LinkInv
<1>1. ASSUME InToDoch
      PROVE  /\ UNCHANGED <<issued, live, item, at, list, erased>>
             /\ UNCHANGED <<phase, todo, draft, locked, born, doomed, sent>>
             /\ StaysDead /\ erased' \subseteq issued' /\ erased' \cap live' = {}
             /\ stones' = stones => stones' \subseteq issued'
  BY <1>0, <1>1 DEF InToDoch, providerVars, txVars, StaysDead, Places, Erased
<1>2. ASSUME UNCHANGED <<provider, token>> PROVE TokensAreGoogles'
  BY <1>2 DEF CopyInv, TokensAreGoogles, Complete
<1>3. ASSUME InToDoch, UNCHANGED <<provider, token, stones, orphans>>, rows \subseteq rows',
             \A e \in rows' : \/ e \in rows /\ ev'[e].remote = ev[e].remote
                              \/ e \notin InUse /\ ev'[e].remote = NoRemote
      PROVE  CopyInv'
  <2>1. \A e \in rows' : e \in Events
    BY DEF LinkInv, Typed, DatabaseOK
  <2>2. Still
    BY <1>1, <1>3, <2>1 DEF Still, InUse
  <2>3. \A e \in SeenRows : e \in SeenRows'
    BY <1>1, <1>3 DEF SeenRows
  <2> QED
    BY <1>1, <1>2, <1>3, <2>2, <2>3, StillKeepsAll
<1>4. ASSUME NEW e \in Events, NEW f \in UserFields, NEW a \in Areas, CreateEvent(e, f, a)
      PROVE  CopyInv'
  <2>1. rows' = rows \cup {e} /\ e \notin InUse /\ ev'[e].remote = NoRemote
        /\ \A d \in rows : ev'[d] = ev[d]
    BY <1>0, <1>4, BlankRowIsRow DEF CreateEvent, InUse, Typed, DatabaseOK, BlankRow
  <2> QED
    BY <1>3, <1>4, <2>1 DEF CreateEvent, UserOp
<1>5. ASSUME NEW e \in Events, NEW f \in UserFields, EditEvent(e, f) PROVE CopyInv'
  <2>1. \A d \in rows : ev'[d].remote = ev[d].remote
    BY <1>0, <1>5 DEF EditEvent, Typed, DatabaseOK, Row
  <2> QED
    BY <1>3, <1>5, <2>1 DEF EditEvent, UserOp
<1>6. ASSUME NEW e \in Events, MoveEvent(e) PROVE CopyInv'
  <2>1. \A d \in rows : ev'[d].remote = ev[d].remote
    BY <1>0, <1>6 DEF MoveEvent, Typed, DatabaseOK, Row
  <2> QED
    BY <1>3, <1>6, <2>1 DEF MoveEvent, UserOp
<1>7. ASSUME NEW e \in Events, NEW o \in Occurrences, DeleteOccurrence(e, o) PROVE CopyInv'
  <2>1. \A d \in rows : ev'[d].remote = ev[d].remote
    BY <1>0, <1>7 DEF DeleteOccurrence, Typed, DatabaseOK, Row
  <2> QED
    BY <1>3, <1>7, <2>1 DEF DeleteOccurrence, UserOp
<1>8. ASSUME NEW e \in Events, NEW link \in issued \cup {NoRemote}, Delete(e, link), InToDoch
      PROVE  CopyInv'
  <2>1. /\ e \notin locked /\ rows' = rows \ {e}
        /\ stones' = stones \cup ({link} \cap Remotes)
        /\ UNCHANGED <<provider, token>> /\ \A d \in rows' : ev'[d] = ev[d]
    BY <1>0, <1>8 DEF Delete, Typed, DatabaseOK
  <2> DEFINE left == {ev[e].remote} \cup Unknown({draft[d].remote : d \in sent \cap {e}})
  <2>2. orphans' = orphans \cup ((left \ {link}) \cap live)
    BY <1>1, <1>8 DEF Delete, Leave
  <2>3. Still
    BY <1>1, <1>8, <2>1, <2>2 DEF Still
  <2>4. stones' \subseteq issued'
    BY <1>0, <1>1, <1>8, <2>1, SyncAssumption DEF Places, Erased
  <2>5. \A d \in SeenRows : d # e => d \in SeenRows'
    BY <1>1, <1>8, <2>1 DEF SeenRows
  <2>6. ASSUME e \in SeenRows, PendingLink(e) \in live
        PROVE  PendingLink(e) \in stones' \cup orphans'
    <3> DEFINE r == PendingLink(e)
    <3>1. r \in Remotes /\ r # NoRemote
      BY <1>0, <2>6, SyncAssumption DEF Typed, ProviderOK
    <3>2. CASE r = link
      BY <2>1, <3>1, <3>2
    <3>3. r \in left
      <4>1. CASE ev[e].remote = r
        BY <4>1
      <4>2. CASE ev[e].remote # r
        <5>1. e \in sent /\ draft[e].remote = r /\ e \in Events
          BY <1>0, <2>1, <4>2 DEF PendingLink, Typed, DatabaseOK
        <5>2. \A x \in rows : ev[x].remote # r
          BY <1>0, <3>1, <4>2, <5>1 DEF Places, DraftLinks
        <5> QED
          BY <5>1, <5>2 DEF Unknown
      <4> QED
        BY <4>1, <4>2
    <3> QED
      BY <2>2, <2>6, <3>2, <3>3
  <2> QED
    BY <1>1, <1>2, <1>8, <2>1, <2>3, <2>4, <2>5, <2>6, StillKeepsAll
<1>9. CASE DeleteArea
  <2> DEFINE gone == {e \in rows : ev[e].area = "elsewhere"}
  <2>1. /\ InToDoch /\ gone \cap locked = {} /\ rows' = rows \ gone
        /\ UNCHANGED <<provider, token, stones>> /\ \A d \in rows' : ev'[d] = ev[d]
    BY <1>0, <1>9 DEF DeleteArea, UserOp, Typed, DatabaseOK
  <2>2. orphans' = orphans \cup (({ev[e].remote : e \in gone}
                                    \cup {draft[e].remote : e \in sent \cap gone}) \cap live)
    BY <1>1, <1>9, <2>1 DEF DeleteArea, Leave
  <2>3. Still
    BY <1>1, <2>1, <2>2 DEF Still
  <2>4. \A d \in SeenRows : d \notin gone => d \in SeenRows'
    BY <1>1, <2>1 DEF SeenRows
  <2>5. \A d \in SeenRows : d \in gone /\ PendingLink(d) \in live => PendingLink(d) \in orphans'
    BY <2>1, <2>2 DEF PendingLink
  <2> HIDE DEF gone
  <2> QED
    BY <1>1, <1>2, <2>1, <2>3, <2>4, <2>5, StillKeepsAll
<1>10. CASE Disconnect
  <2>1. /\ phase = "none" /\ rows' = rows /\ token' = FALSE /\ stones' = {}
        /\ \A e \in rows : ev'[e].remote = NoRemote
        /\ \A p \in Syncs : at'[p] = "idle"
        /\ UNCHANGED <<issued, live, item, phase, todo, draft, locked, born, doomed, sent, erased>>
    BY <1>0, <1>10 DEF Disconnect, providerVars, txVars, Typed, DatabaseOK, Row
  <2>2. locked = {} /\ sent = {} /\ born = {} /\ doomed = {}
    BY <1>0, <2>1 DEF WriteSets
  <2>3. orphans' = orphans \cup ((stones \cup {ev[e].remote : e \in rows}) \cap live)
    BY <1>10, <2>1 DEF Disconnect, Leave
  <2>4. TokensAreGoogles' /\ ListedGone'
    BY <2>1 DEF TokensAreGoogles, ListedGone
  <2>5. Places'
    BY <1>0, <2>1, <2>2 DEF Places, DraftLinks, TodoLinks, OldLinks, Erased
  <2>6. BornLinks'
    BY <2>1, <2>2 DEF BornLinks
  <2>7. \A e \in SeenRows : e \in rows /\ PendingLink(e) = ev[e].remote
    BY <2>2 DEF SeenRows, PendingLink
  <2>8. CopiesKept'
    BY <1>0, <2>1, <2>3, <2>7 DEF CopiesKept
  <2> QED
    BY <2>4, <2>5, <2>6, <2>8 DEF CopyInv
<1>11. ASSUME NEW e \in Events, BeginDelete(e) PROVE CopyInv'
  BY <1>3, <1>11 DEF BeginDelete, UserOp, dbVars
<1>12. ASSUME NEW e \in Events, DeleteEvent(e) PROVE CopyInv'
  <2>1. ev[e].remote \in issued \cup {NoRemote} /\ Delete(e, ev[e].remote) /\ InToDoch
    BY <1>0, <1>12 DEF DeleteEvent, UserOp, LinksAreIssued
  <2> QED
    BY <1>8, <2>1
<1>13. ASSUME NEW e \in Events, NEW link, FinishDelete(e, link) PROVE CopyInv'
  <2>1. link \in issued \cup {NoRemote} /\ Delete(e, link) /\ InToDoch
    BY <1>13 DEF FinishDelete, ReadLinks
  <2> QED
    BY <1>8, <2>1
<1> QED
  BY <1>4, <1>5, <1>6, <1>7, <1>9, <1>10, <1>11, <1>12, <1>13 DEF UserStep

LEMMA ProviderStepKeepsCopies ==
  ASSUME CopyInv, LinkInv', ProviderStep PROVE CopyInv'
<1>0. LinkInv /\ Typed /\ ProviderOK /\ Places
  BY DEF CopyInv, LinkInv, Typed
<1>1. ASSUME ProviderOp, StaysDead, \A r \in live' : item'[r].mine => r \in live /\ item[r].mine
      PROVE  CopyInv'
  <2>1. /\ UNCHANGED <<provider, token, rows, ev, stones, at, list, orphans>>
        /\ UNCHANGED <<phase, todo, draft, locked, born, doomed, sent, erased>>
    BY <1>1 DEF ProviderOp, dbVars, txVars
  <2>2. Still /\ SeenRows' = SeenRows
    BY <1>1, <2>1 DEF Still, SeenRows
  <2>3. TokensAreGoogles'
    BY <2>1 DEF CopyInv, TokensAreGoogles, Complete
  <2>4. stones' \cup erased' \subseteq issued' /\ erased' \cap live' = {}
    BY <1>0, <1>1, <2>1 DEF StaysDead, Places, Erased
  <2> QED
    BY <1>1, <2>1, <2>2, <2>3, <2>4, StillKeepsAll
<1>2. ASSUME NEW r \in Remotes, NEW i \in ProviderItems,
             ProviderAdds(r, i) \/ ProviderEdits(r, i)
      PROVE  CopyInv'
  <2>1. ProviderOp /\ Put(r, i) /\ (r \notin issued \/ r \in live) /\ ~i.mine
    BY <1>2, SyncAssumption DEF ProviderAdds, ProviderEdits
  <2>2. StaysDead
    BY <2>1, PutStaysDead
  <2>3. live' = live \cup {r} /\ item'[r] = i /\ \A x \in live \ {r} : item'[x] = item[x]
    BY <1>0, <2>1 DEF Put, ProviderOK
  <2>4. \A x \in live' : item'[x].mine => x \in live /\ item[x].mine
    BY <2>1, <2>3
  <2> QED
    BY <1>1, <2>1, <2>2, <2>4
<1>3. ASSUME NEW r \in Remotes, ProviderDeletes(r) PROVE CopyInv'
  <2>1. ProviderOp /\ Remove(r)
    BY <1>3 DEF ProviderDeletes
  <2> QED
    BY <1>0, <1>1, <2>1, RemoveStaysDead, RemoveIsNotMine
<1>4. ASSUME NEW r \in Remotes, NEW o \in Occurrences, ProviderCancels(r, o) PROVE CopyInv'
  <2>1. ProviderOp /\ UNCHANGED <<issued, live, item>>
    BY <1>4 DEF ProviderCancels
  <2>2. StaysDead
    BY <2>1 DEF StaysDead
  <2> QED
    BY <1>1, <2>1, <2>2
<1> QED
  BY <1>2, <1>3, <1>4 DEF ProviderStep

(* A list that has just been fetched names as deleted what is deleted: a   *)
(* whole list names what there is, and only Google answers since a token.  *)
LEMMA FetchKeepsCopies ==
  ASSUME CopyInv, LinkInv', OneSync \/ ListedGone', NEW p \in Syncs, NEW full \in BOOLEAN,
         full \/ token, Fetch(p, full)
  PROVE  CopyInv'
<1>0. LinkInv /\ Typed /\ SyncsOK /\ Places /\ BornLinks /\ CopiesKept /\ TokensAreGoogles
  BY DEF CopyInv, LinkInv, Typed
<1>1. /\ UNCHANGED <<provider, token, rows, ev, stones, issued, live, item, orphans>>
      /\ UNCHANGED <<phase, todo, draft, locked, born, doomed, sent, erased>>
      /\ list' = [list EXCEPT ![p] = Listing(full)]
  BY DEF Fetch, dbVars, providerVars, txVars
<1>2. Still /\ SeenRows' = SeenRows
  BY <1>1 DEF Still, SeenRows, StaysDead
<1>3. TokensAreGoogles'
  BY <1>0, <1>1 DEF TokensAreGoogles, Complete
<1>4. Places'
  BY <1>0, <1>1, <1>2, StillKeepsPlaces DEF Places, Erased
<1>5. BornLinks' /\ CopiesKept'
  BY <1>0, <1>1, <1>2, StillKeepsCopies
<1>6. \A r : Forgets(Listing(full), r) => r \notin live
  <2>1. CASE full
    BY <2>1 DEF Listing, WholeList, ListOf, Forgets
  <2>2. CASE ~full
    <3>1. ~Complete
      BY <1>0, <2>2 DEF TokensAreGoogles
    <3> QED
      BY <2>2, <3>1 DEF Listing, ListSince, ListOf, Forgets
  <2> QED
    BY <2>1, <2>2
<1>7. ASSUME OneSync PROVE ListedGone'
  <2>1. \A q \in Syncs : list'[q] = Listing(full)
    BY <1>0, <1>1, <1>7 DEF OneSync, SyncsOK
  <2> QED
    BY <1>1, <1>6, <2>1 DEF ListedGone, Forgets, Complete
<1> QED
  BY <1>3, <1>4, <1>5, <1>7 DEF CopyInv

(* The pull: a row is deleted when its item is gone, every other one keeps *)
(* its link, and what becomes a new row was no row's item.                 *)
LEMMA PullKeepsCopies ==
  ASSUME CopyInv, LinkInv', OneSync \/ ListedGone', NEW p \in Syncs, Pull(p) PROVE CopyInv'
<1> DEFINE L == list[p]
<1>0. /\ LinkInv /\ Typed /\ WriteSets /\ LinksAreIssued /\ LinksAreInjective
      /\ Places /\ CopiesKept /\ ListedGone
  BY DEF CopyInv, LinkInv
<1>1. /\ phase = "none" /\ phase' = "stones" /\ at[p] = "listed" /\ at'[p] = "working"
      /\ doomed' = Forgotten(L) /\ locked' = born' \cup doomed' \cup Touched(L)
      /\ UNCHANGED <<provider, token, rows, ev, stones, issued, live, item, sent, erased, orphans>>
      /\ todo' \subseteq stones
  BY <1>0 DEF Pull, dbVars, providerVars, Typed, SyncsOK
<1>2. /\ born' \subseteq Events \ InUse
      /\ \A e \in born' : \E r \in Arrivals(L) : draft'[e].remote = r
      /\ \A e \in Touched(L) : draft'[e].remote = ev[e].remote
      /\ \A e \in Events \ (born' \cup Touched(L)) : draft'[e] = BlankRow
  BY <1>0, PullGives
<1>3. /\ locked = {} /\ sent = {} /\ born = {} /\ doomed = {}
      /\ born' \cap rows = {} /\ rows \subseteq Events
  BY <1>0, <1>1, <1>2 DEF WriteSets, InUse, Typed, DatabaseOK
<1>4. /\ Forgotten(L) \subseteq rows /\ Touched(L) \subseteq rows
      /\ Forgotten(L) \cap Touched(L) = {}
  BY DEF Forgotten, Touched
<1>5. \A r \in Arrivals(L), e \in rows : ev[e].remote # r
  BY DEF Arrivals
<1>6. TokensAreGoogles' /\ ListedGone'
  BY <1>1 DEF OneSync, ListedGone, CopyInv, TokensAreGoogles, Complete
<1>7. DraftLinks'
  <2> SUFFICES ASSUME NEW d \in Events, NEW e \in rows, draft'[d].remote # NoRemote,
                      draft'[d].remote = ev[e].remote
               PROVE  e = d
    BY <1>1 DEF DraftLinks
  <2>1. d \notin born'
    BY <1>2, <1>5
  <2>2. d \in Touched(L)
    BY <1>2, <2>1 DEF BlankRow
  <2> QED
    BY <1>0, <1>2, <1>4, <2>2 DEF LinksAreInjective, IsLinked
<1>8. OldLinks'
  <2>1. ASSUME NEW e \in locked' \cap rows PROVE draft'[e].remote \in {ev[e].remote, NoRemote}
    BY <1>1, <1>2, <1>3, <1>4 DEF BlankRow
  <2> QED
    BY <1>1, <2>1 DEF OldLinks
<1>9. Places'
  BY <1>0, <1>1, <1>7, <1>8 DEF Places, TodoLinks, Erased
<1>10. BornLinks'
  <2>1. ASSUME NEW e \in born', draft'[e].remote \in live, item[draft'[e].remote].mine,
               draft'[e].remote \notin stones \cup orphans
        PROVE  FALSE
    <3>1. \E x \in rows : ev[x].remote = draft'[e].remote
      BY <1>0, <1>3, <2>1 DEF CopiesKept, SeenRows, PendingLink
    <3> QED
      BY <1>2, <1>5, <3>1
  <2> QED
    BY <1>1, <2>1 DEF BornLinks
<1>11. CopiesKept'
  <2>1. ASSUME NEW r \in live, item[r].mine, r \notin stones \cup orphans
        PROVE  \E e \in SeenRows' : PendingLink(e)' = r
    <3>1. PICK e \in rows : ev[e].remote = r
      BY <1>0, <1>3, <2>1 DEF CopiesKept, SeenRows, PendingLink
    <3>2. r # NoRemote
      BY <1>0, SyncAssumption DEF Typed, ProviderOK
    <3>3. e \notin doomed'
      BY <1>0, <1>1, <2>1, <3>1, <3>2 DEF Forgotten, ListedGone, IsLinked
    <3>4. e \in SeenRows'
      BY <1>1, <3>3 DEF SeenRows
    <3>5. PendingLink(e)' = r
      BY <1>1, <1>2, <1>3, <3>1, <3>3 DEF PendingLink
    <3> QED
      BY <3>4, <3>5
  <2> QED
    BY <1>1, <2>1 DEF CopiesKept
<1> QED
  BY <1>6, <1>9, <1>10, <1>11 DEF CopyInv

(* What every step of the push phase leaves alone.                         *)
LEMMA WorkKeeps ==
  ASSUME CopyInv, OneSync \/ ListedGone', NEW p \in Syncs, NEW ph, Work(p, ph)
  PROVE  /\ UNCHANGED <<provider, token, rows, ev, stones>>
         /\ TokensAreGoogles' /\ ListedGone'
         /\ \A q \in Syncs : at'[q] = "listed" => at[q] = "listed" /\ list'[q] = list[q]
<1>1. UNCHANGED <<provider, token, rows, ev, stones, at, list>> /\ at[p] = "working"
  BY DEF Work, dbVars
<1> QED
  BY <1>1 DEF OneSync, ListedGone, CopyInv, TokensAreGoogles, Complete

(* The copy of a row in the loop has the link that the row will have.      *)
LEMMA LoopLinks ==
  ASSUME LinkInv, TodoLinks, phase \in {"moved", "push"}, NEW e \in todo, e \in SeenRows
  PROVE  PendingLink(e) = draft[e].remote
  BY DEF LinkInv, WriteSets, TodoLinks, SeenRows, PendingLink

LEMMA DeleteStoneKeepsCopies ==
  ASSUME CopyInv, LinkInv', OneSync \/ ListedGone', NEW p \in Syncs, DeleteStone(p) PROVE CopyInv'
<1>0. LinkInv /\ Typed /\ ProviderOK /\ Places
  BY DEF CopyInv, LinkInv, Typed
<1>1. PICK r \in todo : Remove(r) /\ erased' = erased \cup {r} /\ todo' = todo \ {r}
  BY DEF DeleteStone
<1>2. /\ Work(p, "stones") /\ phase = "stones"
      /\ UNCHANGED <<phase, draft, locked, born, doomed, sent, orphans>>
  BY DEF DeleteStone, Work
<1>3. UNCHANGED <<provider, token, rows, ev, stones>> /\ TokensAreGoogles'
  BY <1>2, WorkKeeps
<1>4. StaysDead /\ live' = live \ {r} /\ issued' = issued
  BY <1>1, RemoveStaysDead
<1>5. Still /\ SeenRows' = SeenRows
  BY <1>1, <1>2, <1>3, <1>4 DEF Still, SeenRows
<1>6. stones' \cup erased' \subseteq issued' /\ erased' \cap live' = {}
  BY <1>0, <1>1, <1>2, <1>3, <1>4 DEF Places, Erased
<1> QED
  BY <1>0, <1>1, <1>2, <1>3, <1>5, <1>6, RemoveIsNotMine, StillKeepsAll, WorkKeeps

LEMMA SelectMovedKeepsCopies ==
  ASSUME CopyInv, LinkInv', OneSync \/ ListedGone', NEW p \in Syncs, SelectMoved(p) PROVE CopyInv'
<1>0. /\ LinkInv /\ Typed /\ WriteSets /\ PendingLinks /\ LinksAreInjective
      /\ Places /\ CopiesKept /\ BornLinks
  BY DEF CopyInv, LinkInv
<1>1. /\ Work(p, "stones") /\ phase = "stones" /\ phase' = "moved" /\ todo' \subseteq SeenRows
      /\ draft' = [e \in Events |-> IF e \in todo' THEN Seen(e) ELSE draft[e]]
      /\ UNCHANGED <<live, item, issued, locked, born, doomed, sent, erased, orphans>>
  BY DEF SelectMoved, Work, providerVars
<1>2. UNCHANGED <<provider, token, rows, ev, stones>> /\ TokensAreGoogles' /\ ListedGone'
  BY <1>1, WorkKeeps
<1>3. sent = {} /\ SeenRows \subseteq Events /\ locked \subseteq Events
  BY <1>0, <1>1 DEF PendingLinks, SeenRows, Typed, DatabaseOK, TransactionOK
<1>4. \A e \in SeenRows \ locked : e \in rows
  BY <1>0 DEF SeenRows, WriteSets
<1>5. /\ \A e \in locked : draft'[e] = draft[e]
      /\ \A e \in todo' \ locked : draft'[e] = ev[e]
      /\ \A e \in Events \ todo' : draft'[e] = draft[e]
  BY <1>1, <1>3 DEF Seen
<1>6. DraftLinks'
  BY <1>0, <1>1, <1>2, <1>4, <1>5 DEF Places, DraftLinks, LinksAreInjective, IsLinked
<1>7. TodoLinks'
  BY <1>0, <1>1, <1>2, <1>3, <1>5 DEF TodoLinks, SeenRows, WriteSets
<1>8. OldLinks' /\ Erased'
  BY <1>0, <1>1, <1>2, <1>5 DEF Places, OldLinks, Erased
<1>9. BornLinks'
  BY <1>0, <1>1, <1>2, <1>5 DEF BornLinks, WriteSets
<1>10. SeenRows' = SeenRows /\ \A e \in SeenRows : PendingLink(e)' = PendingLink(e)
  BY <1>1, <1>2, <1>3, <1>5 DEF SeenRows, PendingLink
<1>11. CopiesKept'
  BY <1>0, <1>1, <1>2, <1>10 DEF CopiesKept
<1> QED
  BY <1>2, <1>6, <1>7, <1>8, <1>9, <1>11 DEF CopyInv, Places

LEMMA DropMovedKeepsCopies ==
  ASSUME CopyInv, LinkInv', OneSync \/ ListedGone', NEW p \in Syncs, DropMoved(p) PROVE CopyInv'
<1>0. /\ LinkInv /\ Typed /\ ProviderOK /\ WriteSets /\ Places /\ TodoLinks
      /\ CopiesKept /\ BornLinks
  BY DEF CopyInv, LinkInv, Places, Typed
<1>1. PICK e \in todo : /\ Remove(draft[e].remote)
                        /\ draft' = [draft EXCEPT ![e] = Unlinked(draft[e])]
                        /\ sent' = sent \cup {e} /\ todo' = todo \ {e}
  BY DEF DropMoved
<1>2. /\ Work(p, "moved") /\ phase = "moved" /\ phase' = phase
      /\ UNCHANGED <<locked, born, doomed, erased, orphans>>
  BY DEF DropMoved, Work
<1>3. UNCHANGED <<provider, token, rows, ev, stones>> /\ TokensAreGoogles' /\ ListedGone'
  BY <1>2, WorkKeeps
<1>4. /\ live' = live \ {draft[e].remote} /\ issued' = issued
      /\ \A x \in live' : item'[x].mine => x \in live /\ item[x].mine
  BY <1>0, <1>1, RemoveStaysDead, RemoveIsNotMine
<1>5. e \in Events /\ draft'[e].remote = NoRemote /\ \A d \in Events \ {e} : draft'[d] = draft[d]
  BY <1>0, <1>1, <1>2 DEF Typed, TransactionOK, Unlinked, Row
<1>6. DraftLinks'
  BY <1>0, <1>3, <1>5 DEF Places, DraftLinks
<1>7. todo \subseteq Events /\ locked \subseteq Events
  BY <1>0, <1>2 DEF Typed, TransactionOK
<1>8. TodoLinks'
  BY <1>0, <1>1, <1>2, <1>3, <1>5, <1>7 DEF TodoLinks
<1>9. OldLinks' /\ Erased'
  BY <1>0, <1>1, <1>2, <1>3, <1>4, <1>5, <1>7 DEF Places, OldLinks, Erased
<1>10. BornLinks'
  BY <1>0, <1>1, <1>2, <1>3, <1>4, <1>5, <1>7 DEF BornLinks, WriteSets
<1>11. SeenRows' = SeenRows /\ SeenRows \subseteq Events
  BY <1>0, <1>2, <1>3 DEF SeenRows, Typed, DatabaseOK, TransactionOK
<1>12. \A d \in SeenRows \ {e} : PendingLink(d)' = PendingLink(d)
  BY <1>1, <1>2, <1>3, <1>5, <1>11 DEF PendingLink
<1>13. e \in SeenRows => PendingLink(e) \notin live'
  BY <1>0, <1>2, <1>4, LoopLinks
<1>14. CopiesKept'
  BY <1>0, <1>2, <1>3, <1>4, <1>11, <1>12, <1>13 DEF CopiesKept
<1> QED
  BY <1>3, <1>6, <1>8, <1>9, <1>10, <1>14 DEF CopyInv, Places

(* The copies and the pending links after the candidates are selected.     *)
LEMMA CandidatesLinks ==
  ASSUME LinkInv, NEW p \in Syncs, SelectCandidates(p)
  PROVE  /\ phase = "moved" /\ phase' = "push" /\ todo' \subseteq SeenRows
         /\ locked' = locked \cup (sent \cap rows) /\ sent' = {}
         /\ UNCHANGED <<rows, ev, live, item, issued, born, doomed, erased, orphans>>
         /\ \A e \in SeenRows \cap (locked' \cup todo') : draft'[e].remote = PendingLink(e)
         /\ \A e \in Events \ (SeenRows \cap (locked' \cup todo')) : draft'[e].remote = NoRemote
         /\ SeenRows' = SeenRows
         /\ \A e \in SeenRows : PendingLink(e)' = PendingLink(e)
<1> USE DEF LinkInv
<1> DEFINE seen(e) == IF e \in locked THEN draft[e]
                      ELSE IF e \in sent THEN Unlinked(ev[e]) ELSE ev[e]
<1>1. /\ phase = "moved" /\ phase' = "push"
      /\ locked' = locked \cup (sent \cap rows) /\ sent' = {}
      /\ todo' \subseteq SeenRows
      /\ draft' = [e \in Events |->
                      IF e \in SeenRows \cap (locked' \cup todo') THEN seen(e) ELSE BlankRow]
      /\ UNCHANGED <<rows, ev, live, item, issued, born, doomed, erased, orphans>>
  BY DEF SelectCandidates, Work, dbVars, providerVars
<1>2. SeenRows \subseteq Events /\ SeenRows \subseteq rows \cup locked
  BY DEF SeenRows, Typed, DatabaseOK, TransactionOK, WriteSets
<1>3. ASSUME NEW e \in SeenRows PROVE seen(e).remote = PendingLink(e)
  <2>1. e \in sent => draft[e].remote = NoRemote
    BY <1>1 DEF PendingLinks
  <2>2. Unlinked(ev[e]).remote = NoRemote
    BY <1>2 DEF Unlinked, Typed, DatabaseOK, Row
  <2> QED
    BY <2>1, <2>2 DEF PendingLink
<1> HIDE DEF seen
<1>4. \A e \in SeenRows \cap (locked' \cup todo') : draft'[e].remote = PendingLink(e)
  BY <1>1, <1>2, <1>3
<1>5. \A e \in Events \ (SeenRows \cap (locked' \cup todo')) : draft'[e].remote = NoRemote
  BY <1>1 DEF BlankRow
<1>6. SeenRows' = SeenRows
  BY <1>1 DEF SeenRows
<1>7. ASSUME NEW e \in SeenRows PROVE PendingLink(e)' = PendingLink(e)
  <2>1. CASE e \in locked'
    BY <1>4, <2>1 DEF PendingLink
  <2>2. CASE e \notin locked'
    <3>1. e \in rows /\ e \notin locked /\ e \notin sent
      BY <1>1, <1>2, <2>2
    <3> QED
      BY <1>1, <2>2, <3>1 DEF PendingLink
  <2> QED
    BY <2>1, <2>2
<1> QED
  BY <1>1, <1>4, <1>5, <1>6, <1>7

LEMMA SelectCandidatesKeepsCopies ==
  ASSUME CopyInv, LinkInv', OneSync \/ ListedGone', NEW p \in Syncs, SelectCandidates(p)
  PROVE  CopyInv'
<1>0. /\ LinkInv /\ Typed /\ WriteSets /\ PendingLinks /\ LinksAreInjective /\ Places
      /\ DraftLinks /\ OldLinks /\ CopiesKept /\ BornLinks
  BY DEF CopyInv, LinkInv, Places
<1>1. /\ phase = "moved" /\ phase' = "push" /\ todo' \subseteq SeenRows
      /\ locked' = locked \cup (sent \cap rows) /\ sent' = {}
      /\ UNCHANGED <<live, item, issued, born, doomed, erased, orphans>>
      /\ \A e \in SeenRows \cap (locked' \cup todo') : draft'[e].remote = PendingLink(e)
      /\ \A e \in Events \ (SeenRows \cap (locked' \cup todo')) : draft'[e].remote = NoRemote
      /\ SeenRows' = SeenRows
      /\ \A e \in SeenRows : PendingLink(e)' = PendingLink(e)
  BY <1>0, CandidatesLinks
<1>2. UNCHANGED <<provider, token, rows, ev, stones>> /\ TokensAreGoogles' /\ ListedGone'
  BY WorkKeeps DEF SelectCandidates
<1>3. /\ locked' \subseteq Events /\ \A e \in SeenRows \ locked : e \in rows
      /\ SeenRows \subseteq Events
  BY <1>0, <1>1 DEF SeenRows, WriteSets, Typed, TransactionOK, DatabaseOK
<1>4. \A e \in sent : draft[e].remote = NoRemote
  BY <1>0, <1>1 DEF PendingLinks
<1>5. DraftLinks'
  <2>1. \A d \in SeenRows, x \in rows :
           PendingLink(d) # NoRemote /\ PendingLink(d) = ev[x].remote => x = d
    BY <1>0, <1>3 DEF PendingLink, DraftLinks, LinksAreInjective, IsLinked
  <2> QED
    BY <1>1, <1>2, <2>1 DEF DraftLinks
<1>6. TodoLinks'
  <2>1. \A e \in todo' : e \in rows \ locked' => draft'[e].remote = ev[e].remote
    BY <1>1 DEF PendingLink
  <2> QED
    BY <1>0, <1>1, <1>2, <2>1 DEF TodoLinks, SeenRows, WriteSets
<1>7. OldLinks'
  <2>1. ASSUME NEW e \in locked' \cap rows PROVE draft'[e].remote \in {ev[e].remote, NoRemote}
    <3>1. CASE e \in SeenRows
      BY <1>0, <1>1, <1>4, <2>1, <3>1 DEF PendingLink, OldLinks
    <3>2. CASE e \notin SeenRows
      BY <1>1, <1>3, <3>2
    <3> QED
      BY <3>1, <3>2
  <2> QED
    BY <1>1, <1>2, <2>1 DEF OldLinks
<1>8. Erased'
  BY <1>0, <1>1, <1>2 DEF Places, Erased
<1>9. BornLinks'
  <2>1. NoRemote \notin live
    BY <1>0, SyncAssumption DEF Typed, ProviderOK
  <2>2. \A e \in born : draft'[e].remote = draft[e].remote
    BY <1>0, <1>1 DEF WriteSets, SeenRows, PendingLink
  <2> QED
    BY <1>0, <1>1, <1>2, <1>4, <2>1, <2>2 DEF BornLinks
<1>10. CopiesKept'
  BY <1>0, <1>1, <1>2 DEF CopiesKept
<1> QED
  BY <1>2, <1>5, <1>6, <1>7, <1>8, <1>9, <1>10 DEF CopyInv, Places

(* A request of the push loop: it goes to the row's item, or to a new one. *)
LEMMA SendsGives ==
  ASSUME CopyInv, NEW e \in todo, NEW r \in Remotes, phase = "push", Sends(e, r)
  PROVE  /\ StaysDead /\ live' = live \cup {r} /\ issued' = issued \cup {r}
         /\ \A x \in live' \ {r} : x \in live /\ item'[x] = item[x]
         /\ \A x \in rows : ev[x].remote = r => x = e
         /\ r \notin issued \/ (r \in live /\ draft[e].remote = r)
         /\ draft[e].remote \in live => draft[e].remote = r
         /\ erased \cap live' = {}
<1>0. LinkInv /\ Typed /\ LinksAreIssued /\ DraftLinks /\ Erased
  BY DEF CopyInv, LinkInv, Places
<1>1. Put(r, Sent(draft[e].fields)) /\ e \in Events /\ r # NoRemote
  BY <1>0, SyncAssumption DEF Sends, Typed, TransactionOK
<1>2. r \notin issued \/ (r \in live /\ draft[e].remote = r)
  BY DEF Sends
<1>3. live' = live \cup {r} /\ issued' = issued \cup {r}
      /\ \A x \in live' \ {r} : x \in live /\ item'[x] = item[x]
  BY <1>0, <1>1 DEF Put, Typed, ProviderOK
<1>4. StaysDead
  BY <1>1, <1>2, PutStaysDead
<1>5. \A x \in rows : ev[x].remote = r => x = e
  BY <1>0, <1>1, <1>2 DEF LinksAreIssued, DraftLinks
<1>6. draft[e].remote \in live => draft[e].remote = r
  BY <1>0, SyncAssumption DEF Sends, IsLinked, Typed, ProviderOK
<1>7. erased \cap live' = {}
  BY <1>0, <1>2, <1>3 DEF Erased
<1> QED
  BY <1>2, <1>3, <1>4, <1>5, <1>6, <1>7

(* What is sent is the row's from then on, or a row deleted meanwhile      *)
(* leaves it behind.                                                       *)
LEMMA PushEventKeepsCopies ==
  ASSUME CopyInv, LinkInv', OneSync \/ ListedGone', NEW p \in Syncs, PushEvent(p) PROVE CopyInv'
<1>0. /\ LinkInv /\ Typed /\ WriteSets /\ PendingLinks /\ LinksAreIssued /\ Places
      /\ DraftLinks /\ TodoLinks /\ OldLinks /\ Erased /\ CopiesKept /\ BornLinks
  BY DEF CopyInv, LinkInv, Places
<1>1. PICK e \in todo, r \in Remotes :
         /\ Sends(e, r)
         /\ draft' = [draft EXCEPT ![e].remote = r, ![e].hash = Digest(draft[e].fields)]
         /\ sent' = sent \cup {e} /\ todo' = todo \ {e}
         /\ Leave(IF e \in SeenRows THEN {} ELSE {r} \ stones)
  BY DEF PushEvent
<1>2. /\ Work(p, "push") /\ phase = "push" /\ phase' = phase
      /\ UNCHANGED <<locked, born, doomed, erased>>
  BY DEF PushEvent, Work
<1>3. UNCHANGED <<provider, token, rows, ev, stones>> /\ TokensAreGoogles' /\ ListedGone'
  BY <1>2, WorkKeeps
<1>4. /\ live' = live \cup {r} /\ issued' = issued \cup {r} /\ erased \cap live' = {}
      /\ \A x \in live' \ {r} : x \in live /\ item'[x] = item[x]
      /\ \A x \in rows : ev[x].remote = r => x = e
      /\ r \notin issued \/ (r \in live /\ draft[e].remote = r)
      /\ draft[e].remote \in live => draft[e].remote = r
  BY <1>1, <1>2, SendsGives
<1>5. todo \subseteq Events /\ locked \subseteq Events
  BY <1>0, <1>2 DEF Typed, TransactionOK
<1>6. draft'[e].remote = r /\ \A d \in Events \ {e} : draft'[d] = draft[d]
  BY <1>0, <1>1, <1>5 DEF Typed, TransactionOK, Row
<1>7. orphans \subseteq orphans' /\ (e \notin SeenRows => r \in stones \cup orphans')
  BY <1>1, <1>4 DEF Leave
<1>8. DraftLinks'
  BY <1>0, <1>3, <1>4, <1>6 DEF DraftLinks
<1>9. TodoLinks'
  BY <1>0, <1>1, <1>2, <1>3, <1>5, <1>6 DEF TodoLinks
<1>10. OldLinks' /\ Erased'
  BY <1>0, <1>1, <1>2, <1>3, <1>4, <1>5, <1>6 DEF OldLinks, Erased
<1>11. SeenRows' = SeenRows /\ SeenRows \subseteq Events
  BY <1>0, <1>2, <1>3 DEF SeenRows, Typed, DatabaseOK, TransactionOK
<1>12. BornLinks'
  <2> SUFFICES ASSUME NEW b \in born \ sent', draft'[b].remote \in live',
                      item'[draft'[b].remote].mine
               PROVE  draft'[b].remote \in stones \cup orphans'
    BY <1>2, <1>3 DEF BornLinks
  <2>1. b # e /\ b \in born \ sent /\ b \in locked /\ b \in SeenRows
    BY <1>0, <1>1 DEF WriteSets, SeenRows
  <2>2. draft'[b] = draft[b]
    BY <1>5, <1>6, <2>1
  <2>3. CASE draft[b].remote # r
    BY <1>0, <1>4, <1>7, <2>1, <2>2, <2>3 DEF BornLinks
  <2>4. CASE draft[b].remote = r
    <3>1. draft[e].remote = r /\ r # NoRemote
      BY <1>0, <1>4, <1>5, <2>1, <2>4, SyncAssumption DEF LinksAreIssued
    <3>2. e \notin SeenRows
      <4>1. PendingLink(b) = r
        BY <2>1, <2>4 DEF PendingLink
      <4>2. e \in SeenRows => PendingLink(e) = r
        BY <1>0, <1>2, <3>1, LoopLinks
      <4> QED
        BY <1>0, <2>1, <3>1, <4>1, <4>2 DEF PendingLinks
    <3> QED
      BY <1>7, <2>2, <2>4, <3>2
  <2> QED
    BY <2>3, <2>4
<1>13. CopiesKept'
  <2>1. sent' = sent \cup {e}
    BY <1>1
  <2>2. \A d \in SeenRows \ {e} : PendingLink(d)' = PendingLink(d)
    BY <2>1, <1>2, <1>3, <1>6, <1>11 DEF PendingLink
  <2>3. PendingLink(e)' = r
    BY <1>6, <2>1 DEF PendingLink
  <2>4. e \in SeenRows => PendingLink(e) = draft[e].remote
    BY <1>0, <1>2, LoopLinks
  <2>5. ASSUME NEW x \in live', item'[x].mine, x # r, x \notin stones \cup orphans'
        PROVE  \E d \in SeenRows : PendingLink(d)' = x
    <3>1. PICK d \in SeenRows : PendingLink(d) = x
      BY <1>0, <1>4, <1>7, <2>5 DEF CopiesKept
    <3>2. d # e
      BY <1>4, <2>4, <2>5, <3>1
    <3> QED
      BY <2>2, <3>1, <3>2
  <2> QED
    BY <1>3, <1>7, <1>11, <2>3, <2>5 DEF CopiesKept
<1> QED
  BY <1>3, <1>8, <1>9, <1>10, <1>12, <1>13 DEF CopyInv, Places

(* The end of a transaction.                                               *)
LEMMA EndKeepsCopies ==
  ASSUME CopyInv, LinkInv', OneSync \/ ListedGone', NEW p \in Syncs, EndSync(p), EndTransaction,
         at[p] = "working",
         TokensAreGoogles', stones' \subseteq issued',
         \A r \in live' : item'[r].mine =>
            r \in stones' \cup orphans' \/ \E e \in rows' : ev'[e].remote = r
  PROVE  CopyInv'
<1>1. /\ phase' = "none" /\ draft' = [e \in Events |-> BlankRow]
      /\ locked' = {} /\ born' = {} /\ doomed' = {} /\ sent' = {} /\ erased' = {}
  BY DEF EndTransaction
<1>2. at'[p] = "idle"
  BY DEF EndSync, CopyInv, LinkInv, Typed, SyncsOK
<1>3. ListedGone'
  BY <1>2 DEF OneSync, ListedGone
<1>4. Places'
  BY <1>1 DEF Places, DraftLinks, TodoLinks, OldLinks, Erased, BlankRow
<1>5. BornLinks'
  BY <1>1 DEF BornLinks
<1>6. SeenRows' = rows' /\ \A e \in rows' : PendingLink(e)' = ev'[e].remote
  BY <1>1 DEF SeenRows, PendingLink
<1>7. CopiesKept'
  BY <1>6 DEF CopiesKept
<1> QED
  BY <1>3, <1>4, <1>5, <1>7 DEF CopyInv

LEMMA CommitKeepsCopies ==
  ASSUME CopyInv, LinkInv', OneSync \/ ListedGone', NEW p \in Syncs, Commit(p) PROVE CopyInv'
<1>0. LinkInv /\ Typed /\ WriteSets /\ Places /\ CopiesKept
  BY DEF CopyInv, LinkInv
<1>1. /\ rows' = SeenRows /\ ev' = [e \in Events |-> Committed(e)]
      /\ stones' = stones \ erased /\ token' = (provider = "google") /\ at[p] = "working"
      /\ EndSync(p) /\ EndTransaction /\ UNCHANGED <<provider, issued, live, item, orphans>>
  BY DEF Commit, providerVars
<1>2. SeenRows \subseteq Events /\ SeenRows \subseteq rows \cup locked /\ SeenRows \cap doomed = {}
  BY <1>0 DEF SeenRows, Typed, DatabaseOK, TransactionOK, WriteSets
<1>3. ASSUME NEW e \in SeenRows PROVE ev'[e].remote = PendingLink(e)
  <2>1. ev'[e] = Committed(e)
    BY <1>1, <1>2
  <2>2. CASE e \in locked
    BY <1>2, <2>1, <2>2 DEF Committed, PendingLink
  <2>3. CASE e \in rows \ locked
    BY <1>0, <1>2, <2>1, <2>3 DEF Committed, PendingLink, Typed, DatabaseOK, Row
  <2> QED
    BY <1>2, <2>2, <2>3
<1>4. TokensAreGoogles'
  BY <1>1 DEF TokensAreGoogles, Complete
<1>5. stones' \subseteq issued'
  BY <1>0, <1>1 DEF Places, Erased
<1>6. \A r \in live' : item'[r].mine =>
         r \in stones' \cup orphans' \/ \E e \in rows' : ev'[e].remote = r
  BY <1>0, <1>1, <1>3 DEF CopiesKept, Places, Erased
<1> QED
  BY <1>1, <1>4, <1>5, <1>6, EndKeepsCopies

(* A rolled back transaction: what it sent and no row knows is left behind. *)
LEMMA RollbackKeepsCopies ==
  ASSUME CopyInv, LinkInv', OneSync \/ ListedGone', NEW p \in Syncs, Rollback(p) PROVE CopyInv'
<1>0. /\ LinkInv /\ Typed /\ WriteSets /\ Places /\ CopiesKept /\ OldLinks /\ BornLinks
      /\ TokensAreGoogles
  BY DEF CopyInv, LinkInv, Places
<1>1. /\ UNCHANGED <<provider, token, rows, ev, stones, issued, live, item>> /\ EndSync(p)
  BY DEF Rollback, dbVars, providerVars
<1>2. TokensAreGoogles' /\ stones' \subseteq issued'
  BY <1>0, <1>1 DEF TokensAreGoogles, Complete, Places, Erased
<1>3. CASE at[p] = "working"
  <2>1. /\ EndTransaction
        /\ orphans' = orphans \cup (Unknown({draft[e].remote : e \in sent}) \cap live)
    BY <1>1, <1>3 DEF Rollback, Leave
  <2>2. ASSUME NEW r \in live, item[r].mine, r \notin stones \cup orphans'
        PROVE  \E e \in rows : ev[e].remote = r
    <3>1. PICK e \in SeenRows : PendingLink(e) = r
      BY <1>0, <2>1, <2>2 DEF CopiesKept
    <3>2. r # NoRemote
      BY <1>0, SyncAssumption DEF Typed, ProviderOK
    <3>3. CASE e \in sent
      BY <2>1, <2>2, <3>1, <3>3 DEF Unknown, PendingLink
    <3>4. CASE e \in locked \ sent
      <4>1. draft[e].remote = r
        BY <3>1, <3>4 DEF PendingLink
      <4>2. e \notin born
        BY <1>0, <2>1, <2>2, <3>4, <4>1 DEF BornLinks
      <4>3. e \in rows
        BY <4>2 DEF SeenRows
      <4> QED
        BY <1>0, <3>2, <3>4, <4>1, <4>3 DEF OldLinks
    <3>5. CASE e \notin locked \cup sent
      BY <1>0, <3>1, <3>5 DEF PendingLink, SeenRows, WriteSets
    <3> QED
      BY <3>3, <3>4, <3>5
  <2> QED
    BY <1>1, <1>2, <1>3, <2>1, <2>2, EndKeepsCopies
<1>4. CASE at[p] # "working"
  <2>1. UNCHANGED <<phase, todo, draft, locked, born, doomed, sent, erased, orphans>>
    BY <1>4 DEF Rollback, txVars
  <2>2. Still /\ SeenRows' = SeenRows
    BY <1>1, <2>1 DEF Still, StaysDead, SeenRows
  <2>3. \A q \in Syncs : at'[q] = "listed" => at[q] = "listed" /\ list'[q] = list[q]
    BY <1>0, <1>1 DEF EndSync, Typed, SyncsOK
  <2>4. stones' \cup erased' \subseteq issued' /\ erased' \cap live' = {}
    BY <1>0, <1>1, <2>1 DEF Places, Erased
  <2> QED
    BY <1>1, <1>2, <2>2, <2>3, <2>4, StillKeepsAll
<1> QED
  BY <1>3, <1>4

LEMMA RefuseKeepsCopies ==
  ASSUME CopyInv, LinkInv', OneSync \/ ListedGone', NEW p \in Syncs, Refuse(p) PROVE CopyInv'
<1>0. LinkInv /\ Places
  BY DEF CopyInv
<1>1. PICK ph \in {"stones", "moved", "push"} : Work(p, ph)
  BY DEF Refuse
<1>2. /\ UNCHANGED <<issued, live, item, todo, draft, locked, born, doomed, sent, erased, orphans>>
      /\ phase' = "failed"
  BY DEF Refuse, providerVars
<1>3. UNCHANGED <<provider, token, rows, ev, stones>> /\ TokensAreGoogles'
  BY <1>1, WorkKeeps
<1>4. Still /\ SeenRows' = SeenRows
  BY <1>2, <1>3 DEF Still, StaysDead, SeenRows
<1>5. stones' \cup erased' \subseteq issued' /\ erased' \cap live' = {}
  BY <1>0, <1>2, <1>3 DEF Places, Erased
<1> QED
  BY <1>1, <1>2, <1>3, <1>4, <1>5, StillKeepsAll, WorkKeeps

(* A lost answer: an item that was deleted is gone, one that was updated   *)
(* is still its row's, and one that was inserted is left behind.           *)
LEMMA LoseAnswerKeepsCopies ==
  ASSUME CopyInv, LinkInv', OneSync \/ ListedGone', NEW p \in Syncs, LoseAnswer(p) PROVE CopyInv'
<1>0. /\ LinkInv /\ Typed /\ ProviderOK /\ WriteSets /\ Places /\ DraftLinks /\ TodoLinks
      /\ CopiesKept /\ BornLinks /\ ListedGone /\ Erased
  BY DEF CopyInv, LinkInv, Places, Typed
<1>1. /\ phase' = "failed" /\ UNCHANGED <<todo, draft, locked, born, doomed, sent, erased>>
      /\ \E ph : Work(p, ph)
  BY DEF LoseAnswer
<1>2. /\ UNCHANGED <<provider, token, rows, ev, stones>>
      /\ TokensAreGoogles' /\ SeenRows' = SeenRows
      /\ ListedGone'
      /\ \A q \in Syncs : at'[q] = "listed" => at[q] = "listed" /\ list'[q] = list[q]
  BY <1>1, WorkKeeps DEF SeenRows
<1>3. ASSUME orphans \subseteq orphans', StaysDead PROVE Still
  BY <1>1, <1>2, <1>3 DEF Still
<1>4. ASSUME NEW r, Remove(r), UNCHANGED orphans PROVE CopyInv'
  <2>1. StaysDead /\ live' = live \ {r} /\ issued' = issued
    BY <1>4, RemoveStaysDead
  <2>2. \A x \in live' : item'[x].mine => x \in live /\ item[x].mine
    BY <1>0, <1>4, RemoveIsNotMine
  <2>3. stones' \cup erased' \subseteq issued' /\ erased' \cap live' = {}
    BY <1>0, <1>1, <1>2, <2>1 DEF Erased
  <2> QED
    BY <1>2, <1>3, <1>4, <2>1, <2>2, <2>3, StillKeepsAll
<1>5. ASSUME phase = "push", NEW e \in todo, NEW r \in Remotes, Sends(e, r),
             Leave(Unknown({r}) \ stones)
      PROVE  CopyInv'
  <2>1. /\ StaysDead /\ live' = live \cup {r} /\ issued' = issued \cup {r}
        /\ \A x \in live' \ {r} : x \in live /\ item'[x] = item[x]
        /\ \A x \in rows : ev[x].remote = r => x = e
        /\ r \notin issued \/ (r \in live /\ draft[e].remote = r)
        /\ erased \cap live' = {}
    BY <1>5, SendsGives
  <2>2. /\ orphans \subseteq orphans'
        /\ r \in stones \cup orphans' \/ \E x \in rows : ev[x].remote = r
    BY <1>5, <2>1 DEF Leave, Unknown
  <2>3. Still
    BY <1>3, <2>1, <2>2
  <2>4. Places'
    BY <1>0, <1>1, <1>2, <2>1, <2>3, StillKeepsPlaces DEF Erased
  <2>5. r # NoRemote /\ e \in Events /\ born \subseteq Events
    BY <1>0, <1>5, SyncAssumption DEF Typed, TransactionOK
  <2>6. BornLinks'
    <3> SUFFICES ASSUME NEW b \in born \ sent, draft[b].remote \in live',
                        item'[draft[b].remote].mine
                 PROVE  draft[b].remote \in stones \cup orphans'
      BY <1>1, <1>2 DEF BornLinks
    <3>1. CASE draft[b].remote # r
      BY <1>0, <2>1, <2>2, <3>1 DEF BornLinks
    <3>2. CASE draft[b].remote = r
      <4>1. \A x \in rows : ev[x].remote # r
        BY <1>0, <2>5, <3>2 DEF DraftLinks, WriteSets
      <4> QED
        BY <2>2, <3>2, <4>1
    <3> QED
      BY <3>1, <3>2
  <2>7. \A d \in SeenRows : PendingLink(d)' = PendingLink(d)
    BY <1>1, <1>2 DEF PendingLink
  <2>8. ASSUME r \notin stones \cup orphans'
        PROVE  \E d \in SeenRows : PendingLink(d) = r
    <3>1. e \in rows /\ ev[e].remote = r
      BY <2>1, <2>2, <2>8
    <3>2. draft[e].remote = r
      BY <1>0, <2>1, <2>5, <3>1 DEF LinkInv, LinksAreIssued
    <3>3. e \in SeenRows
      BY <1>0, <1>5, <3>1 DEF SeenRows, TodoLinks
    <3> QED
      BY <1>0, <1>5, <3>2, <3>3, LoopLinks
  <2>9. CopiesKept'
    BY <1>0, <1>2, <2>1, <2>2, <2>7, <2>8 DEF CopiesKept
  <2> QED
    BY <1>2, <2>4, <2>6, <2>9 DEF CopyInv
<1> QED
  BY <1>4, <1>5 DEF LoseAnswer, Work

(* What Google calls deleted since a token was given out once and never    *)
(* comes back, however old the list is.                                    *)
Noticed ==
    /\ since \cap Remotes \subseteq issued
    /\ \A p \in Syncs : late[p] \cap Remotes \subseteq issued

ListedDead ==
    \A p \in Syncs : \A r \in list[p].ids \ list[p].live : r \in issued /\ r \notin live

LEMMA DeadStep ==
  ASSUME Typed, Noticed, ListedDead, [Next]_vars PROVE Noticed' /\ ListedDead'
<1>0. SyncsOK /\ ProviderOK
  BY DEF Typed
<1>1. ASSUME StaysDead, \A p \in Syncs : list'[p] \in {list[p], NoList} PROVE ListedDead'
  BY <1>1 DEF ListedDead, StaysDead, NoList
<1>2. ASSUME NEW X, Notice(X), StaysDead, X \cap Remotes \subseteq issued' PROVE Noticed'
  BY <1>0, <1>2 DEF Notice, Noticed, StaysDead, SyncsOK
<1>3. ASSUME NEW r \in Remotes, NEW i, Put(r, i), r \notin issued \/ r \in live, list' = list
      PROVE  Noticed' /\ ListedDead'
  <2>1. StaysDead /\ Notice({r}) /\ {r} \cap Remotes \subseteq issued'
    BY <1>3, PutStaysDead DEF Put
  <2> QED
    BY <1>1, <1>2, <1>3, <2>1
<1>4. ASSUME NEW r, Remove(r), list' = list PROVE Noticed' /\ ListedDead'
  <2>1. StaysDead /\ Notice({r} \cap live) /\ ({r} \cap live) \cap Remotes \subseteq issued'
    BY <1>0, <1>4, RemoveStaysDead DEF Remove, ProviderOK
  <2> QED
    BY <1>1, <1>2, <1>4, <2>1
<1>5. ASSUME UNCHANGED <<providerVars, changeVars>>, \A p \in Syncs : list'[p] \in {list[p], NoList}
      PROVE  Noticed' /\ ListedDead'
  <2>1. StaysDead /\ UNCHANGED <<issued, since, late>>
    BY <1>5 DEF StaysDead, providerVars, changeVars
  <2> QED
    BY <1>1, <1>5, <2>1 DEF Noticed
<1>6. ASSUME NEW p \in Syncs, EndSync(p), UNCHANGED providerVars, since' \in {since, late[p]}
      PROVE  Noticed' /\ ListedDead'
  <2>1. StaysDead /\ UNCHANGED issued
    BY <1>6 DEF StaysDead, providerVars
  <2>2. \A q \in Syncs : list'[q] \in {list[q], NoList} /\ (late'[q] = late[q] \/ late'[q] = {})
    BY <1>0, <1>6 DEF EndSync, SyncsOK
  <2> QED
    BY <1>1, <1>6, <2>1, <2>2 DEF Noticed
<1>7. ASSUME NEW p \in Syncs, NEW full \in BOOLEAN, Fetch(p, full) PROVE Noticed' /\ ListedDead'
  <2>1. \A r \in Listing(full).ids \ Listing(full).live : r \in issued /\ r \notin live
    BY DEF Listing, ListSince, WholeList, ListOf, Noticed
  <2>2. \A q \in Syncs : list'[q] \in {list[q], Listing(full)}
    BY <1>0, <1>7 DEF Fetch, SyncsOK
  <2>3. UNCHANGED <<issued, live, since, late>>
    BY <1>7 DEF Fetch, providerVars, changeVars
  <2> QED
    BY <2>1, <2>2, <2>3 DEF Noticed, ListedDead
<1>8. CASE UserStep
  <2>1. CASE Disconnect
    <3>1. since' = {} /\ \A p \in Syncs : late'[p] = {} /\ list'[p] = NoList
      BY <2>1 DEF Disconnect
    <3>2. StaysDead
      BY <2>1 DEF Disconnect, providerVars, StaysDead
    <3> QED
      BY <1>1, <3>1, <3>2 DEF Noticed
  <2>2. CASE ~Disconnect
    <3>1. InToDoch
      BY <1>8, <2>2 DEF UserStep, CreateEvent, EditEvent, MoveEvent, DeleteOccurrence, DeleteEvent,
                        BeginDelete, FinishDelete, DeleteArea, UserOp
    <3> QED
      BY <1>5, <3>1 DEF InToDoch
  <2> QED
    BY <2>1, <2>2
<1>9. CASE ProviderStep
  <2>1. ASSUME NEW r \in Remotes, NEW i \in ProviderItems,
               ProviderAdds(r, i) \/ ProviderEdits(r, i)
        PROVE  Noticed' /\ ListedDead'
    BY <1>3, <2>1 DEF ProviderAdds, ProviderEdits, ProviderOp
  <2>2. ASSUME NEW r \in Remotes, ProviderDeletes(r) PROVE Noticed' /\ ListedDead'
    BY <1>4, <2>2 DEF ProviderDeletes, ProviderOp
  <2>3. ASSUME NEW r \in Remotes, NEW o \in Occurrences, ProviderCancels(r, o)
        PROVE  Noticed' /\ ListedDead'
    <3>1. UNCHANGED <<issued, live, list>> /\ Notice({<<r, o>>})
      BY <2>3 DEF ProviderCancels, ProviderOp
    <3>2. StaysDead
      BY <3>1 DEF StaysDead
    <3>3. <<r, o>> \in Remotes \X Occurrences
      OBVIOUS
    <3>4. {<<r, o>>} \cap Remotes = {}
      BY <3>3, SyncAssumption
    <3> QED
      BY <1>1, <1>2, <3>1, <3>2, <3>4
  <2> QED
    BY <1>9, <2>1, <2>2, <2>3 DEF ProviderStep
<1>10. CASE Connect \/ UNCHANGED vars
  BY <1>5, <1>10 DEF Connect, FinishConsent, CaldavConnect, NewConnection, vars
<1>11. ASSUME NEW p \in Syncs, SyncStep(p) \/ FaultStep(p) PROVE Noticed' /\ ListedDead'
  <2>1. CASE List(p) \/ ListAfterGone(p)
    <3>1. (~token) \in BOOLEAN /\ TRUE \in BOOLEAN
      BY DEF Typed, DatabaseOK
    <3> QED
      BY <1>7, <2>1, <3>1 DEF List, ListAfterGone
  <2>2. CASE Pull(p)
    <3>1. \A q \in Syncs : list'[q] \in {list[q], NoList}
      BY <1>0, <2>2 DEF Pull, SyncsOK
    <3> QED
      BY <1>5, <2>2, <3>1 DEF Pull
  <2>3. CASE DeleteStone(p) \/ DropMoved(p)
    BY <1>4, <2>3 DEF DeleteStone, DropMoved, Work
  <2>4. CASE SelectMoved(p) \/ SelectCandidates(p) \/ Refuse(p)
    BY <1>5, <2>4 DEF SelectMoved, SelectCandidates, Refuse, Work
  <2>5. CASE PushEvent(p)
    BY <1>3, <2>5 DEF PushEvent, Work, Sends
  <2>6. CASE Commit(p)
    BY <1>6, <2>6 DEF Commit, Uncovered
  <2>7. CASE FlushFails(p) \/ Crash(p)
    BY <1>6, <2>7 DEF FlushFails, Crash, Rollback
  <2>8. CASE LoseAnswer(p)
    BY <1>3, <1>4, <2>8 DEF LoseAnswer, Work, Sends
  <2> QED
    BY <1>11, <2>1, <2>2, <2>3, <2>4, <2>5, <2>6, <2>7, <2>8 DEF SyncStep, FaultStep
<1> QED
  BY <1>8, <1>9, <1>10, <1>11 DEF Next

LEMMA GoneByThen ==
  ASSUME Typed', Providers = {"google"}, ListedDead' PROVE ListedGone'
<1>1. provider' = "google"
  BY DEF Typed, DatabaseOK
<1> QED
  BY <1>1 DEF ListedDead, ListedGone, Forgets, Complete

(* The invariant that both theorems rest on.                               *)
SyncInv == CopyInv /\ ReadLinks /\ Noticed /\ ListedDead

LEMMA SyncInit == ASSUME Init PROVE SyncInv
  BY CopyInit DEF Init, SyncInv, ReadLinks, Noticed, ListedDead, NoList

LEMMA CopyStep ==
  ASSUME CopyInv, ReadLinks, OneSync \/ ListedGone', [Next]_vars PROVE CopyInv'
<1>1. LinkInv'
  BY LinkStep DEF CopyInv
<1>2. token \in BOOLEAN
  BY DEF CopyInv, LinkInv, Typed, DatabaseOK
<1>3. CASE Connect \/ UNCHANGED vars
  <2>1. /\ UNCHANGED <<provider, token, rows, ev, stones, issued, live, item, at, list, orphans>>
        /\ UNCHANGED <<phase, todo, draft, locked, born, doomed, sent, erased>>
    BY <1>3 DEF Connect, FinishConsent, CaldavConnect, NewConnection, vars, dbVars, providerVars,
                txVars
  <2>2. Still /\ SeenRows' = SeenRows /\ TokensAreGoogles'
    BY <2>1 DEF Still, StaysDead, SeenRows, CopyInv, TokensAreGoogles, Complete
  <2>3. stones' \cup erased' \subseteq issued' /\ erased' \cap live' = {}
    BY <2>1 DEF CopyInv, Places, Erased
  <2> QED
    BY <1>1, <2>1, <2>2, <2>3, StillKeepsAll
<1>4. ASSUME NEW p \in Syncs, SyncStep(p) PROVE CopyInv'
  <2>1. CASE List(p)
    <3>1. (~token) \in BOOLEAN /\ Fetch(p, ~token) /\ ((~token) \/ token)
      BY <1>2, <2>1 DEF List
    <3> QED
      BY <1>1, <3>1, FetchKeepsCopies
  <2>2. CASE FlushFails(p)
    BY <1>1, <2>2, RollbackKeepsCopies DEF FlushFails
  <2> QED
    BY <1>1, <1>4, <2>1, <2>2, PullKeepsCopies, DeleteStoneKeepsCopies, SelectMovedKeepsCopies,
       DropMovedKeepsCopies, SelectCandidatesKeepsCopies, PushEventKeepsCopies, CommitKeepsCopies
    DEF SyncStep
<1>5. ASSUME NEW p \in Syncs, FaultStep(p) PROVE CopyInv'
  <2>1. CASE ListAfterGone(p)
    <3>1. Fetch(p, TRUE) /\ TRUE \in BOOLEAN
      BY <2>1 DEF ListAfterGone
    <3> QED
      BY <1>1, <3>1, FetchKeepsCopies
  <2>2. CASE Crash(p)
    BY <1>1, <2>2, RollbackKeepsCopies DEF Crash
  <2> QED
    BY <1>1, <1>5, <2>1, <2>2, RefuseKeepsCopies, LoseAnswerKeepsCopies DEF FaultStep
<1> QED
  BY <1>1, <1>3, <1>4, <1>5, UserStepKeepsCopies, ProviderStepKeepsCopies DEF Next

(* The provider takes no id back, so what has been read stays a link.      *)
LEMMA IdsStayIssued == ASSUME [Next]_vars PROVE issued \subseteq issued'
<1>1. CASE UserStep
  BY <1>1 DEF UserStep, CreateEvent, EditEvent, MoveEvent, DeleteOccurrence, DeleteEvent,
              BeginDelete, FinishDelete, DeleteArea, UserOp, InToDoch, Disconnect, providerVars
<1>2. CASE ProviderStep
  BY <1>2, ProviderOnlyIssues
  DEF ProviderStep, ProviderAdds, ProviderEdits, ProviderDeletes, ProviderCancels
<1>3. CASE Connect \/ UNCHANGED vars
  BY <1>3 DEF Connect, FinishConsent, CaldavConnect, NewConnection, vars, providerVars
<1>4. ASSUME NEW p \in Syncs, SyncStep(p) \/ FaultStep(p) PROVE issued \subseteq issued'
  BY <1>4, ProviderOnlyIssues
  DEF SyncStep, FaultStep, List, ListAfterGone, Fetch, Pull, DeleteStone, SelectMoved, DropMoved,
      SelectCandidates, PushEvent, Sends, Commit, FlushFails, Crash, Rollback, Refuse, LoseAnswer,
      providerVars
<1> QED
  BY <1>1, <1>2, <1>3, <1>4 DEF Next

LEMMA ReadLinksStep == ASSUME LinkInv, ReadLinks, [Next]_vars PROVE ReadLinks'
  BY OnlyReadLinks, IdsStayIssued DEF LinkInv, LinksAreIssued, ReadLinks

LEMMA SyncInvStep == ASSUME NoOldWholeLists, SyncInv, [Next]_vars PROVE SyncInv'
<1>1. CopyInv /\ LinkInv /\ ReadLinks /\ Typed /\ Noticed /\ ListedDead
  BY DEF SyncInv, CopyInv, LinkInv
<1>2. Typed' /\ Noticed' /\ ListedDead'
  BY <1>1, DeadStep, TypeStep
<1>3. OneSync \/ ListedGone'
  BY <1>2, GoneByThen DEF NoOldWholeLists
<1>4. CopyInv'
  BY <1>1, <1>3, CopyStep
<1> QED
  BY <1>1, <1>2, <1>4, ReadLinksStep DEF SyncInv

(* Every copy that ToDoch put into the online calendar has a row, a        *)
(* tombstone or a place in the running transaction, through every          *)
(* interleaving, fault and rollback, except for those that the code is     *)
(* known to leave behind - with one sync at a time, or any number at       *)
(* Google.                                                                 *)
THEOREM NoCopyIsLeft == ASSUME NoOldWholeLists PROVE Spec => []NoCopyIsLeftBehind
<1>1. Init => SyncInv
  BY SyncInit
<1>2. SyncInv /\ [Next]_vars => SyncInv'
  BY SyncInvStep
<1>3. SyncInv => NoCopyIsLeftBehind
  <2> SUFFICES ASSUME CopyInv, NEW r \in live \ orphans, item[r].mine, r \notin stones
               PROVE  \/ \E e \in rows : ev[e].remote = r
                      \/ \E e \in sent \cup locked : draft[e].remote = r
    BY DEF NoCopyIsLeftBehind, SyncInv
  <2>1. PICK e \in SeenRows : PendingLink(e) = r
    BY DEF CopyInv, CopiesKept
  <2> QED
    BY <2>1 DEF PendingLink, SeenRows, CopyInv, LinkInv, WriteSets
<1> QED
  BY <1>1, <1>2, <1>3, PTL DEF Spec

(* A pull deletes a row only when its item is gone at the provider: with   *)
(* one sync at a time, or any number of them at Google, which says what    *)
(* was deleted instead of leaving it out.                                  *)
THEOREM ForgetsOnlyDeleted == ASSUME NoOldWholeLists PROVE Spec => OnlyDeletedIsForgotten
<1>1. Init => SyncInv
  BY SyncInit
<1>2. SyncInv /\ [Next]_vars => SyncInv'
  BY SyncInvStep
<1>3. SyncInv /\ [Next]_vars => [PullStep => \A e \in doomed' : ev[e].remote \notin live]_vars
  <2> SUFFICES ASSUME SyncInv, Next, PullStep, NEW e \in doomed' PROVE ev[e].remote \notin live
    OBVIOUS
  <2>1. PICK p \in Syncs : Pull(p)
    BY DEF PullStep, Next, UserStep, CreateEvent, EditEvent, MoveEvent, DeleteOccurrence,
           DeleteEvent, BeginDelete, FinishDelete, InToDoch, DeleteArea, Disconnect, UserOp,
           ProviderStep, ProviderAdds, ProviderEdits, ProviderDeletes, ProviderCancels, ProviderOp,
           Connect, FinishConsent, CaldavConnect,
           NewConnection, SyncStep, FaultStep, List, ListAfterGone, Fetch, DeleteStone, SelectMoved,
           DropMoved, SelectCandidates, PushEvent, Commit, FlushFails, Crash, Rollback,
           EndTransaction, Refuse, LoseAnswer, Work, txVars
  <2>2. e \in Forgotten(list[p]) /\ at[p] = "listed"
    BY <2>1 DEF Pull
  <2> QED
    BY <2>2 DEF Forgotten, SyncInv, CopyInv, ListedGone
<1> QED
  BY <1>1, <1>2, <1>3, PTL DEF Spec, OnlyDeletedIsForgotten

-----------------------------------------------------------------------------
(***************************************************************************)
(* No difference between the two calendars is forgotten, for every value   *)
(* of CalendarSync's constants under which one sync runs at a time, no     *)
(* token expires and no occurrence is cancelled on its own; with the last  *)
(* two the code does forget.                                               *)
(*                                                                         *)
(* Outlook and CalDAV always answer with everything, so what matters is    *)
(* Google.  A sync token stands for a point in time; the invariant says of *)
(* each of the three the code may use (the stored one, the one of a list,  *)
(* the one a running transaction will store) that whatever it does not     *)
(* cover agrees with the fingerprint that goes with it.                    *)
(***************************************************************************)

(* The fingerprint a row will have once the transaction commits.           *)
PendingHash(e) == IF e \in locked \cup sent THEN draft[e].hash ELSE ev[e].hash

(* The fingerprint is that of the item; what cannot be read has none.      *)
Agrees(r, h) == r \in live /\ (item[r].readable => h = FromGoogle(item[r]))

NoGaps == gaps = {} /\ \A p \in Syncs : list[p].gaps = {} /\ list[p].live \subseteq list[p].ids

FirstSync == ~Complete /\ ~token => \A e \in rows : ev[e].remote = NoRemote

RowNews ==
    ~Complete =>
        \A e \in rows : ev[e].remote # NoRemote =>
            ev[e].remote \in since \/ Agrees(ev[e].remote, ev[e].hash)

ListNews ==
    ~Complete =>
        \A p \in Syncs : at[p] = "listed" =>
            /\ \A r \in list[p].ids \ late[p] :
                  /\ r \in live <=> r \in list[p].live
                  /\ r \in live => item[r] = list[p].item[r]
            /\ \A e \in rows : ev[e].remote # NoRemote =>
                  \/ ev[e].remote \in list[p].ids \cup late[p]
                  \/ Agrees(ev[e].remote, ev[e].hash)

WorkNews ==
    ~Complete =>
        \A p \in Syncs : at[p] = "working" =>
            \A e \in SeenRows : PendingLink(e) # NoRemote =>
                PendingLink(e) \in late[p] \/ Agrees(PendingLink(e), PendingHash(e))

News == TokensAreGoogles /\ NoGaps /\ FirstSync /\ RowNews /\ ListNews /\ WorkNews

NewsInv == LinkInv /\ News

LEMMA NewsInit == ASSUME Init PROVE NewsInv
<1>1. LinkInv
  BY LinkInit
<1>2. News
  BY DEF Init, News, TokensAreGoogles, NoGaps, FirstSync, RowNews, ListNews, WorkNews, NoList
<1> QED
  BY <1>1, <1>2 DEF NewsInv

-----------------------------------------------------------------------------
(***************************************************************************)
(* Most steps are calm: they add no link and no fingerprint, except a link *)
(* the running transaction will hear of again, and what they change at the *)
(* provider is noted for every token.                                      *)
(***************************************************************************)
Stays(r) == (r \in live' <=> r \in live) /\ (r \in live => item'[r] = item[r])

Noted(r) == (token => r \in since') /\ \A p \in Syncs : at[p] # "idle" => r \in late'[p]

ChangesAreNoted ==
    /\ gaps' = {} /\ since \subseteq since' /\ \A p \in Syncs : late[p] \subseteq late'[p]
    /\ ~Complete => \A r \in Remotes : Stays(r) \/ Noted(r)

RowsStay ==
    \A e \in rows' :
        \/ ev'[e].remote = NoRemote
        \/ e \in rows /\ ev'[e].remote = ev[e].remote /\ ev'[e].hash = ev[e].hash

PendingStay ==
    ~Complete =>
        \A e \in SeenRows' :
            \/ PendingLink(e)' = NoRemote
            \/ /\ e \in SeenRows
               /\ PendingLink(e)' = PendingLink(e) /\ PendingHash(e)' = PendingHash(e)
            \/ \A p \in Syncs : at[p] = "working" => PendingLink(e)' \in late'[p]

Calm == UNCHANGED <<provider, token, at, list>> /\ ChangesAreNoted /\ RowsStay /\ PendingStay

LEMMA CalmKeepsNews == ASSUME NewsInv, LinkInv', Calm PROVE NewsInv'
<1>0. News /\ Typed /\ WriteSets /\ LinksAreIssued /\ issued \subseteq Remotes
  BY DEF NewsInv, LinkInv, Typed, ProviderOK
<1>1. UNCHANGED <<provider, token, at, list>> /\ ChangesAreNoted /\ RowsStay /\ PendingStay
  BY DEF Calm
<1>2. (~Complete)' <=> ~Complete
  BY <1>1 DEF Complete
<1>3. TokensAreGoogles' /\ NoGaps'
  BY <1>0, <1>1 DEF News, TokensAreGoogles, NoGaps, ChangesAreNoted, Complete
<1>4. FirstSync'
  BY <1>0, <1>1, <1>2 DEF News, FirstSync, RowsStay
<1>5. \A e \in rows : ev[e].remote # NoRemote => ev[e].remote \in Remotes
  BY <1>0 DEF LinksAreIssued
<1>6. ASSUME NEW r \in Remotes, NEW h, Stays(r), Agrees(r, h)
      PROVE  r \in live' /\ (item'[r].readable => h = FromGoogle(item'[r]))
  BY <1>6 DEF Stays, Agrees
<1>7. RowNews'
  <2> SUFFICES ASSUME ~Complete, NEW e \in rows', ev'[e].remote # NoRemote,
                      ev'[e].remote \notin since'
               PROVE  /\ ev'[e].remote \in live'
                      /\ item'[ev'[e].remote].readable =>
                            ev'[e].hash = FromGoogle(item'[ev'[e].remote])
    BY <1>2 DEF RowNews, Agrees
  <2>1. e \in rows /\ ev'[e].remote = ev[e].remote /\ ev'[e].hash = ev[e].hash
    BY <1>1 DEF RowsStay
  <2>2. ev[e].remote \in Remotes /\ Agrees(ev[e].remote, ev[e].hash)
    BY <1>0, <1>1, <1>5, <2>1 DEF News, RowNews, ChangesAreNoted
  <2>3. Stays(ev[e].remote)
    BY <1>0, <1>1, <2>1, <2>2 DEF ChangesAreNoted, Noted, News, FirstSync
  <2> QED
    BY <1>6, <2>1, <2>2, <2>3
<1>8. ListNews'
  <2> SUFFICES ASSUME ~Complete, NEW p \in Syncs, at[p] = "listed"
               PROVE  /\ \A r \in list[p].ids \ late'[p] :
                            /\ r \in live' <=> r \in list[p].live
                            /\ r \in live' => item'[r] = list[p].item[r]
                      /\ \A e \in rows' : ev'[e].remote # NoRemote =>
                            \/ ev'[e].remote \in list[p].ids \cup late'[p]
                            \/ /\ ev'[e].remote \in live'
                               /\ item'[ev'[e].remote].readable =>
                                     ev'[e].hash = FromGoogle(item'[ev'[e].remote])
    BY <1>1, <1>2 DEF ListNews, Agrees
  <2>1. ASSUME NEW r \in Remotes \ late'[p] PROVE Stays(r) /\ r \notin late[p]
    BY <1>1 DEF ChangesAreNoted, Noted
  <2>2. list[p].ids \subseteq Remotes
    BY <1>0 DEF Typed, SyncsOK, Lists
  <2>3. \A r \in list[p].ids \ late'[p] :
           /\ r \in live' <=> r \in list[p].live
           /\ r \in live' => item'[r] = list[p].item[r]
    BY <1>0, <2>1, <2>2 DEF News, ListNews, Stays
  <2>4. ASSUME NEW e \in rows', ev'[e].remote # NoRemote,
               ev'[e].remote \notin list[p].ids \cup late'[p]
        PROVE  /\ ev'[e].remote \in live'
               /\ item'[ev'[e].remote].readable =>
                     ev'[e].hash = FromGoogle(item'[ev'[e].remote])
    <3>1. e \in rows /\ ev'[e].remote = ev[e].remote /\ ev'[e].hash = ev[e].hash
      BY <1>1, <2>4 DEF RowsStay
    <3>2. ev[e].remote \in Remotes /\ Stays(ev[e].remote) /\ ev[e].remote \notin late[p]
      BY <1>5, <2>1, <2>4, <3>1
    <3>3. Agrees(ev[e].remote, ev[e].hash)
      BY <1>0, <2>4, <3>1, <3>2 DEF News, ListNews
    <3> QED
      BY <1>6, <3>1, <3>2, <3>3
  <2> QED
    BY <2>3, <2>4
<1>9. WorkNews'
  <2>1. ASSUME ~Complete, NEW p \in Syncs, at[p] = "working", NEW e \in SeenRows',
               PendingLink(e)' # NoRemote, PendingLink(e)' \notin late'[p]
        PROVE  Agrees(PendingLink(e), PendingHash(e))'
    <3>1. /\ e \in SeenRows
          /\ PendingLink(e)' = PendingLink(e) /\ PendingHash(e)' = PendingHash(e)
      BY <1>1, <2>1 DEF PendingStay
    <3>2. PendingLink(e) \in Remotes
      BY <1>0, <2>1, <3>1
      DEF PendingLink, LinksAreIssued, SeenRows, WriteSets, Typed, TransactionOK
    <3>3. Stays(PendingLink(e)) /\ PendingLink(e) \notin late[p]
      BY <1>1, <2>1, <3>1, <3>2 DEF ChangesAreNoted, Noted
    <3>4. Agrees(PendingLink(e), PendingHash(e))
      BY <1>0, <2>1, <3>1, <3>3 DEF News, WorkNews
    <3>5. /\ PendingLink(e) \in live'
          /\ item'[PendingLink(e)].readable => PendingHash(e) = FromGoogle(item'[PendingLink(e)])
      BY <1>6, <3>2, <3>3, <3>4
    <3> QED
      BY <3>1, <3>5 DEF Agrees
  <2> QED
    BY <1>1, <1>2, <2>1 DEF WorkNews
<1> QED
  BY <1>3, <1>4, <1>7, <1>8, <1>9 DEF NewsInv, News

(* Writes at the provider are noted.                                       *)
LEMMA PutIsNoted ==
  ASSUME Typed, NoGaps, NEW r \in Remotes, NEW i, Put(r, i) PROVE ChangesAreNoted
<1>1. /\ \A x \in Remotes \ {r} : Stays(x)
      /\ gaps' = {} /\ Notice({r})
  BY DEF Put, Stays, Typed, ProviderOK, NoGaps
<1> QED
  BY <1>1 DEF ChangesAreNoted, Notice, Noted, Typed, SyncsOK

LEMMA RemoveIsNoted ==
  ASSUME Typed, NoGaps, NEW r, Remove(r) PROVE ChangesAreNoted
<1>1. /\ \A x \in Remotes \ {r} : Stays(x)
      /\ r \notin live => Stays(r)
      /\ gaps' = {} /\ Notice({r} \cap live)
  BY DEF Remove, Stays, Typed, ProviderOK, NoGaps
<1> QED
  BY <1>1 DEF ChangesAreNoted, Notice, Noted, Typed, SyncsOK

LEMMA NothingIsNoted ==
  ASSUME NoGaps, UNCHANGED <<providerVars, changeVars>> PROVE ChangesAreNoted
  BY DEF NoGaps, providerVars, changeVars, ChangesAreNoted, Stays

(* Steps that leave the transaction alone.                                 *)
LEMMA OutsideIsCalm ==
  ASSUME LinkInv, ChangesAreNoted, UNCHANGED <<provider, token, at, list, txVars>>,
         \A e \in rows' :
            \/ e \notin rows \cup locked \cup sent /\ ev'[e].remote = NoRemote
            \/ e \in rows /\ ev'[e].remote = ev[e].remote /\ ev'[e].hash = ev[e].hash
  PROVE  Calm
<1>1. UNCHANGED <<draft, locked, born, doomed, sent>> /\ WriteSets
  BY DEF txVars, LinkInv
<1>2. RowsStay
  BY DEF RowsStay
<1>3. ASSUME NEW e \in SeenRows'
      PROVE  \/ PendingLink(e)' = NoRemote
             \/ /\ e \in SeenRows
                /\ PendingLink(e)' = PendingLink(e) /\ PendingHash(e)' = PendingHash(e)
  BY <1>1 DEF SeenRows, PendingLink, PendingHash, WriteSets
<1>4. PendingStay
  BY <1>3 DEF PendingStay
<1> QED
  BY <1>2, <1>4 DEF Calm

LEMMA UserStepKeepsNews == ASSUME NewsInv, LinkInv', UserStep PROVE NewsInv'
<1>0. /\ LinkInv /\ News /\ Typed /\ WriteSets /\ TokensAreGoogles /\ NoGaps /\ FirstSync
      /\ rows \subseteq Events
  BY DEF NewsInv, News, LinkInv, Typed, DatabaseOK
<1>1. ASSUME InToDoch, UNCHANGED <<provider, token>>,
             \A e \in rows' :
                \/ e \notin InUse /\ ev'[e].remote = NoRemote
                \/ e \in rows /\ ev'[e].remote = ev[e].remote /\ ev'[e].hash = ev[e].hash
      PROVE  NewsInv'
  <2>1. ChangesAreNoted
    BY <1>0, <1>1, NothingIsNoted DEF InToDoch
  <2>2. Calm
    BY <1>0, <1>1, <2>1, OutsideIsCalm DEF InToDoch, InUse
  <2> QED
    BY <2>2, CalmKeepsNews
<1>2. ASSUME NEW e \in Events, NEW f \in UserFields, NEW a \in Areas, CreateEvent(e, f, a)
      PROVE  NewsInv'
  <2>1. rows' = rows \cup {e} /\ e \notin InUse /\ ev'[e].remote = NoRemote
        /\ \A d \in rows : ev'[d] = ev[d]
    BY <1>0, <1>2, BlankRowIsRow DEF CreateEvent, InUse, Typed, DatabaseOK, BlankRow
  <2> QED
    BY <1>1, <1>2, <2>1 DEF CreateEvent, UserOp
<1>3. ASSUME NEW e \in Events, NEW f \in UserFields, EditEvent(e, f) PROVE NewsInv'
  <2>1. \A d \in rows : ev'[d].remote = ev[d].remote /\ ev'[d].hash = ev[d].hash
    BY <1>0, <1>3 DEF EditEvent, Typed, DatabaseOK, Row
  <2> QED
    BY <1>1, <1>3, <2>1 DEF EditEvent, UserOp
<1>4. ASSUME NEW e \in Events, MoveEvent(e) PROVE NewsInv'
  <2>1. \A d \in rows : ev'[d].remote = ev[d].remote /\ ev'[d].hash = ev[d].hash
    BY <1>0, <1>4 DEF MoveEvent, Typed, DatabaseOK, Row
  <2> QED
    BY <1>1, <1>4, <2>1 DEF MoveEvent, UserOp
<1>5. ASSUME NEW e \in Events, NEW o \in Occurrences, DeleteOccurrence(e, o) PROVE NewsInv'
  <2>1. \A d \in rows : ev'[d].remote = ev[d].remote /\ ev'[d].hash = ev[d].hash
    BY <1>0, <1>5 DEF DeleteOccurrence, Typed, DatabaseOK, Row
  <2> QED
    BY <1>1, <1>5, <2>1 DEF DeleteOccurrence, UserOp
<1>6. ASSUME NEW e \in Events, NEW link, Delete(e, link), InToDoch PROVE NewsInv'
  <2>1. rows' = rows \ {e} /\ \A d \in rows' : ev'[d] = ev[d]
    BY <1>0, <1>6 DEF Delete, Typed, DatabaseOK
  <2> QED
    BY <1>1, <1>6, <2>1 DEF Delete
<1>7. CASE DeleteArea
  <2>1. rows' \subseteq rows /\ \A d \in rows' : ev'[d] = ev[d]
    BY <1>0, <1>7 DEF DeleteArea, Typed, DatabaseOK
  <2> QED
    BY <1>1, <1>7, <2>1 DEF DeleteArea, UserOp
<1>8. CASE Disconnect
  <2>1. /\ rows' = rows /\ token' = FALSE /\ gaps' = gaps
        /\ \A e \in rows : ev'[e].remote = NoRemote
        /\ \A p \in Syncs : at'[p] = "idle" /\ list'[p] = NoList
    BY <1>0, <1>8 DEF Disconnect, providerVars, Typed, DatabaseOK, Row
  <2>2. News'
    BY <1>0, <2>1 DEF News, TokensAreGoogles, NoGaps, FirstSync, RowNews, ListNews, WorkNews, NoList
  <2> QED
    BY <2>2 DEF NewsInv
<1>9. ASSUME NEW e \in Events, BeginDelete(e) PROVE NewsInv'
  BY <1>1, <1>9 DEF BeginDelete, UserOp, dbVars
<1> QED
  BY <1>2, <1>3, <1>4, <1>5, <1>6, <1>7, <1>8, <1>9
  DEF UserStep, DeleteEvent, FinishDelete, UserOp

LEMMA ProviderStepKeepsNews ==
  ASSUME NewsInv, LinkInv', ProviderStep, "cancel occurrence" \notin Environment PROVE NewsInv'
<1>0. LinkInv /\ Typed /\ NoGaps
  BY DEF NewsInv, News, LinkInv
<1>1. ASSUME ProviderOp, ChangesAreNoted PROVE NewsInv'
  <2>1. Calm
    BY <1>0, <1>1, OutsideIsCalm DEF ProviderOp, dbVars
  <2> QED
    BY <2>1, CalmKeepsNews
<1>2. ASSUME NEW r \in Remotes, NEW i \in ProviderItems, ProviderAdds(r, i) \/ ProviderEdits(r, i)
      PROVE  NewsInv'
  BY <1>0, <1>1, <1>2, PutIsNoted DEF ProviderAdds, ProviderEdits
<1>3. ASSUME NEW r \in Remotes, ProviderDeletes(r) PROVE NewsInv'
  BY <1>0, <1>1, <1>3, RemoveIsNoted DEF ProviderDeletes
<1> QED
  BY <1>2, <1>3 DEF ProviderStep, ProviderCancels

(* Steps of the running transaction other than its first and its last.     *)
LEMMA WorkIsCalm ==
  ASSUME NoGaps, NEW p \in Syncs, NEW ph, Work(p, ph), ChangesAreNoted, PendingStay PROVE Calm
<1>1. UNCHANGED <<provider, token, rows, ev, at, list>>
  BY DEF Work, dbVars
<1>2. RowsStay
  BY <1>1 DEF RowsStay
<1> QED
  BY <1>1, <1>2 DEF Calm

LEMMA WriteSetsStay ==
  ASSUME LinkInv, UNCHANGED <<rows, ev, draft, locked, born, doomed, sent>> PROVE PendingStay
<1>1. SeenRows' = SeenRows
  BY DEF SeenRows
<1>2. \A e \in SeenRows : PendingLink(e)' = PendingLink(e) /\ PendingHash(e)' = PendingHash(e)
  BY DEF PendingLink, PendingHash
<1> QED
  BY <1>1, <1>2 DEF PendingStay

LEMMA DeleteStoneKeepsNews ==
  ASSUME NewsInv, LinkInv', NEW p \in Syncs, DeleteStone(p) PROVE NewsInv'
<1>0. LinkInv /\ Typed /\ NoGaps
  BY DEF NewsInv, News, LinkInv
<1>1. /\ Work(p, "stones") /\ \E r : Remove(r)
      /\ UNCHANGED <<draft, locked, born, doomed, sent>>
  BY DEF DeleteStone
<1>2. ChangesAreNoted
  BY <1>0, <1>1, RemoveIsNoted
<1>3. PendingStay
  BY <1>0, <1>1, WriteSetsStay DEF Work, dbVars
<1> QED
  BY <1>0, <1>1, <1>2, <1>3, WorkIsCalm, CalmKeepsNews

LEMMA SelectMovedKeepsNews ==
  ASSUME NewsInv, LinkInv', NEW p \in Syncs, SelectMoved(p) PROVE NewsInv'
<1>0. LinkInv /\ Typed /\ NoGaps /\ PendingLinks
  BY DEF NewsInv, News, LinkInv
<1>1. /\ Work(p, "stones") /\ phase = "stones"
      /\ draft' = [e \in Events |-> IF e \in todo' THEN Seen(e) ELSE draft[e]]
      /\ UNCHANGED <<rows, ev, locked, born, doomed, sent, providerVars, changeVars>>
  BY DEF SelectMoved, Work, dbVars
<1>2. sent = {} /\ locked \subseteq Events
  BY <1>0, <1>1 DEF PendingLinks, Typed, TransactionOK
<1>3. \A e \in locked : draft'[e] = draft[e]
  BY <1>1, <1>2 DEF Seen
<1>4. SeenRows' = SeenRows
      /\ \A e \in SeenRows : PendingLink(e)' = PendingLink(e) /\ PendingHash(e)' = PendingHash(e)
  BY <1>1, <1>2, <1>3 DEF SeenRows, PendingLink, PendingHash
<1>5. PendingStay
  BY <1>4 DEF PendingStay
<1>6. ChangesAreNoted
  BY <1>0, <1>1, NothingIsNoted
<1> QED
  BY <1>0, <1>1, <1>5, <1>6, WorkIsCalm, CalmKeepsNews

LEMMA DropMovedKeepsNews ==
  ASSUME NewsInv, LinkInv', NEW p \in Syncs, DropMoved(p) PROVE NewsInv'
<1>0. LinkInv /\ Typed /\ NoGaps
  BY DEF NewsInv, News, LinkInv
<1>1. PICK e \in todo : /\ Remove(draft[e].remote)
                        /\ draft' = [draft EXCEPT ![e] = Unlinked(draft[e])]
                        /\ sent' = sent \cup {e}
  BY DEF DropMoved
<1>2. /\ Work(p, "moved") /\ phase = "moved" /\ UNCHANGED <<rows, ev, locked, born, doomed>>
  BY DEF DropMoved, Work, dbVars
<1>3. draft'[e].remote = NoRemote /\ \A d \in Events \ {e} : draft'[d] = draft[d]
  BY <1>0, <1>1, <1>2 DEF Typed, TransactionOK, Unlinked, Row
<1>4. SeenRows' = SeenRows /\ SeenRows \subseteq Events
  BY <1>0, <1>2 DEF SeenRows, Typed, DatabaseOK, TransactionOK
<1>5. sent' = sent \cup {e}
  BY <1>1
<1>6. PendingLink(e)' = NoRemote
  BY <1>3, <1>5 DEF PendingLink
<1>7. \A d \in SeenRows \ {e} :
         PendingLink(d)' = PendingLink(d) /\ PendingHash(d)' = PendingHash(d)
  BY <1>2, <1>3, <1>4, <1>5 DEF PendingLink, PendingHash
<1>8. PendingStay
  BY <1>4, <1>6, <1>7 DEF PendingStay
<1>9. ChangesAreNoted
  BY <1>0, <1>1, RemoveIsNoted
<1> QED
  BY <1>0, <1>2, <1>8, <1>9, WorkIsCalm, CalmKeepsNews

LEMMA SelectCandidatesKeepsNews ==
  ASSUME NewsInv, LinkInv', NEW p \in Syncs, SelectCandidates(p) PROVE NewsInv'
<1>0. LinkInv /\ Typed /\ NoGaps /\ PendingLinks /\ WriteSets
  BY DEF NewsInv, News, LinkInv
<1> DEFINE seen(e) == IF e \in locked THEN draft[e]
                      ELSE IF e \in sent THEN Unlinked(ev[e]) ELSE ev[e]
<1>1. /\ Work(p, "moved") /\ phase = "moved"
      /\ locked' = locked \cup (sent \cap rows) /\ sent' = {}
      /\ draft' = [e \in Events |->
                      IF e \in SeenRows \cap (locked' \cup todo') THEN seen(e) ELSE BlankRow]
      /\ UNCHANGED <<rows, ev, born, doomed, providerVars, changeVars>>
  BY DEF SelectCandidates, Work, dbVars
<1>2. /\ SeenRows' = SeenRows /\ SeenRows \subseteq Events
      /\ \A e \in SeenRows : PendingLink(e)' = PendingLink(e)
  BY <1>0, CandidatesLinks DEF SeenRows, Typed, DatabaseOK, TransactionOK
<1>3. \A e \in sent : draft[e].remote = NoRemote
  BY <1>0, <1>1 DEF PendingLinks
<1>4. ASSUME NEW e \in SeenRows, PendingLink(e) # NoRemote PROVE PendingHash(e)' = PendingHash(e)
  <2>1. e \notin sent
    BY <1>3, <1>4 DEF PendingLink
  <2>2. CASE e \in locked
    BY <1>1, <1>2, <2>2 DEF PendingHash
  <2>3. CASE e \notin locked
    BY <1>1, <2>1, <2>3 DEF PendingHash
  <2> QED
    BY <2>2, <2>3
<1>5. PendingStay
  BY <1>2, <1>4 DEF PendingStay
<1>6. ChangesAreNoted
  BY <1>0, <1>1, NothingIsNoted
<1> HIDE DEF seen
<1> QED
  BY <1>0, <1>1, <1>5, <1>6, WorkIsCalm, CalmKeepsNews

(* What is sent changes at the provider after the list was fetched.        *)
LEMMA PushEventKeepsNews ==
  ASSUME NewsInv, LinkInv', NEW p \in Syncs, PushEvent(p) PROVE NewsInv'
<1>0. LinkInv /\ Typed /\ NoGaps
  BY DEF NewsInv, News, LinkInv
<1>1. PICK e \in todo, r \in Remotes :
         /\ Sends(e, r)
         /\ draft' = [draft EXCEPT ![e].remote = r, ![e].hash = Digest(draft[e].fields)]
         /\ sent' = sent \cup {e}
  BY DEF PushEvent
<1>2. /\ Work(p, "push") /\ phase = "push" /\ UNCHANGED <<rows, ev, locked, born, doomed>>
  BY DEF PushEvent, Work, dbVars
<1>3. Put(r, Sent(draft[e].fields))
  BY <1>1 DEF Sends
<1>4. draft'[e].remote = r /\ \A d \in Events \ {e} : draft'[d] = draft[d]
  BY <1>0, <1>1, <1>2 DEF Typed, TransactionOK, Row
<1>5. SeenRows' = SeenRows /\ SeenRows \subseteq Events
  BY <1>0, <1>2 DEF SeenRows, Typed, DatabaseOK, TransactionOK
<1>6. sent' = sent \cup {e}
  BY <1>1
<1>7. PendingLink(e)' = r
  BY <1>4, <1>6 DEF PendingLink
<1>8. \A d \in SeenRows \ {e} :
         PendingLink(d)' = PendingLink(d) /\ PendingHash(d)' = PendingHash(d)
  BY <1>2, <1>4, <1>5, <1>6 DEF PendingLink, PendingHash
<1>9. ~Complete => \A q \in Syncs : at[q] = "working" => r \in late'[q]
  BY <1>3 DEF Put, Notice
<1>10. PendingStay
  BY <1>5, <1>7, <1>8, <1>9 DEF PendingStay
<1>11. ChangesAreNoted
  BY <1>0, <1>3, PutIsNoted
<1> QED
  BY <1>0, <1>2, <1>10, <1>11, WorkIsCalm, CalmKeepsNews

LEMMA LoseAnswerKeepsNews ==
  ASSUME NewsInv, LinkInv', NEW p \in Syncs, LoseAnswer(p) PROVE NewsInv'
<1>0. LinkInv /\ Typed /\ NoGaps
  BY DEF NewsInv, News, LinkInv
<1>1. /\ \E ph : Work(p, ph)
      /\ (\E r : Remove(r)) \/ (\E r \in Remotes : \E i : Put(r, i))
      /\ UNCHANGED <<draft, locked, born, doomed, sent>>
  BY DEF LoseAnswer, Sends
<1>2. ChangesAreNoted
  BY <1>0, <1>1, RemoveIsNoted, PutIsNoted
<1>3. PendingStay
  BY <1>0, <1>1, WriteSetsStay DEF Work, dbVars
<1> QED
  BY <1>0, <1>1, <1>2, <1>3, WorkIsCalm, CalmKeepsNews

LEMMA RefuseKeepsNews ==
  ASSUME NewsInv, LinkInv', NEW p \in Syncs, Refuse(p) PROVE NewsInv'
<1>0. LinkInv /\ Typed /\ NoGaps
  BY DEF NewsInv, News, LinkInv
<1>1. /\ \E ph : Work(p, ph)
      /\ UNCHANGED <<draft, locked, born, doomed, sent, providerVars, changeVars>>
  BY DEF Refuse
<1>2. ChangesAreNoted
  BY <1>0, <1>1, NothingIsNoted
<1>3. PendingStay
  BY <1>0, <1>1, WriteSetsStay DEF Work, dbVars
<1> QED
  BY <1>0, <1>1, <1>2, <1>3, WorkIsCalm, CalmKeepsNews

-----------------------------------------------------------------------------
(***************************************************************************)
(* The ends of a token's life: it comes with a list, the list is pulled,   *)
(* and the commit stores it.                                               *)
(***************************************************************************)
LEMMA ListKeepsNews ==
  ASSUME NewsInv, LinkInv', OneSync, NEW p \in Syncs, List(p) PROVE NewsInv'
<1>0. /\ Typed /\ LinksAreIssued /\ TokensAreGoogles /\ NoGaps /\ FirstSync /\ RowNews /\ WorkNews
      /\ issued \subseteq Remotes /\ live \subseteq Remotes
  BY DEF NewsInv, News, LinkInv, Typed, ProviderOK
<1> DEFINE L == Listing(~token)
<1>1. /\ UNCHANGED <<provider, token, rows, ev, live, item, gaps, since, late>>
      /\ UNCHANGED <<draft, locked, born, doomed, sent>>
      /\ at[p] = "idle" /\ at' = [at EXCEPT ![p] = "listed"] /\ list' = [list EXCEPT ![p] = L]
  BY DEF List, Fetch, dbVars, providerVars, changeVars, txVars
<1>2. \A q \in Syncs : q = p /\ at'[q] = "listed" /\ list'[q] = L
  BY <1>0, <1>1 DEF OneSync, Typed, SyncsOK
<1>3. /\ L.ids = IF ~token THEN live ELSE since \cap Remotes
      /\ L.live = L.ids \cap live /\ L.gaps = {}
      /\ \A r \in L.live : L.item[r] = item[r]
  BY <1>0 DEF Listing, WholeList, ListSince, ListOf, NoGaps
<1> HIDE DEF L
<1>4. TokensAreGoogles' /\ NoGaps' /\ FirstSync'
  BY <1>0, <1>1, <1>2, <1>3 DEF TokensAreGoogles, NoGaps, FirstSync, Complete
<1>5. RowNews'
  BY <1>0, <1>1 DEF RowNews, Agrees, Complete
<1>6. WorkNews'
  BY <1>2 DEF WorkNews
<1>7. ListNews'
  <2> SUFFICES ASSUME ~Complete
               PROVE  /\ \A r \in L.ids \ late[p] :
                            /\ r \in live <=> r \in L.live
                            /\ r \in live => item[r] = L.item[r]
                      /\ \A e \in rows : ev[e].remote # NoRemote =>
                            \/ ev[e].remote \in L.ids \cup late[p]
                            \/ Agrees(ev[e].remote, ev[e].hash)
    BY <1>1, <1>2 DEF ListNews, Agrees, Complete
  <2>1. \A r \in L.ids : /\ r \in live <=> r \in L.live
                         /\ r \in live => item[r] = L.item[r]
    BY <1>3
  <2>2. ASSUME NEW e \in rows, ev[e].remote # NoRemote
        PROVE  ev[e].remote \in L.ids \/ Agrees(ev[e].remote, ev[e].hash)
    <3>1. token /\ ev[e].remote \in Remotes
      BY <1>0, <2>2 DEF FirstSync, LinksAreIssued
    <3> QED
      BY <1>0, <1>3, <2>2, <3>1 DEF RowNews
  <2> QED
    BY <2>1, <2>2
<1> QED
  BY <1>4, <1>5, <1>6, <1>7 DEF NewsInv, News

(* A pulled row has the fingerprint of the listed item.                    *)
LEMMA PulledAgrees ==
  ASSUME ~Complete, NEW L, L.gaps = {}, NEW row
  PROVE  /\ row.remote \notin L.live => Pulled(L, row) = row
         /\ row.remote \in L.live /\ L.item[row.remote].readable /\ row \in Row =>
               Pulled(L, row).hash = FromGoogle(L.item[row.remote])
<1>1. ASSUME NEW f PROVE Digest(f) = f
  BY DEF Digest, Exdates, Complete
<1>2. ASSUME NEW i PROVE Received(i) = FromGoogle(i) /\ \A f : Adopted(f, i) = FromGoogle(i)
  BY DEF Received, Adopted, Exdates, Complete
<1>3. ASSUME NEW r PROVE AfterGaps(L, r) = r
  BY DEF AfterGaps, Cancelled
<1>4. Pulled(L, row) = AfterItem(L, row)
  BY <1>3 DEF Pulled
<1>5. ASSUME row.remote \notin L.live PROVE Pulled(L, row) = row
  BY <1>4, <1>5 DEF AfterItem, Changed
<1>6. ASSUME row.remote \in L.live, L.item[row.remote].readable, row \in Row
      PROVE  Pulled(L, row).hash = FromGoogle(L.item[row.remote])
  <2> DEFINE g == FromGoogle(L.item[row.remote])
  <2>1. Changed(L, row) <=> row.hash # g
    BY <1>1, <1>2, <1>6 DEF Changed
  <2>2. CASE Changed(L, row)
    <3>1. AfterItem(L, row) = [row EXCEPT !.fields = g, !.hash = g]
      BY <1>1, <1>2, <2>2 DEF AfterItem
    <3> HIDE DEF g
    <3>2. [row EXCEPT !.fields = g, !.hash = g].hash = g
      BY <1>6 DEF Row
    <3> QED
      BY <1>4, <3>1, <3>2 DEF g
  <2>3. CASE ~Changed(L, row)
    BY <1>4, <2>1, <2>3 DEF AfterItem
  <2> QED
    BY <2>2, <2>3
<1> QED
  BY <1>5, <1>6

(* What the copies say after the pull.                                     *)
LEMMA PullWrites ==
  ASSUME Typed, NEW p \in Syncs, Pull(p)
  PROVE  /\ \A e \in born' : \E r \in Arrivals(list[p]) : draft'[e] = Pulled(list[p], NewRow(r))
         /\ \A e \in Touched(list[p]) : draft'[e] = Pulled(list[p], ev[e])
<1> DEFINE L == list[p]
<1>1. PICK id \in Injection(Arrivals(L), Events \ InUse) :
         /\ born' = {id[r] : r \in Arrivals(L)}
         /\ draft' = [e \in Events |->
                        IF e \in born'
                        THEN Pulled(L, NewRow(CHOOSE r \in Arrivals(L) : id[r] = e))
                        ELSE IF e \in Touched(L) THEN Pulled(L, ev[e]) ELSE BlankRow]
  BY DEF Pull
<1>2. id \in [Arrivals(L) -> Events \ InUse]
  BY <1>1 DEF Injection
<1>3. born' \subseteq Events \ InUse
  BY <1>1, <1>2
<1>4. Touched(L) \subseteq Events /\ Touched(L) \cap born' = {}
  BY <1>3 DEF Touched, InUse, Typed, DatabaseOK
<1>5. ASSUME NEW e \in born' PROVE \E r \in Arrivals(L) : draft'[e] = Pulled(L, NewRow(r))
  <2> DEFINE of == CHOOSE r \in Arrivals(L) : id[r] = e
  <2>1. of \in Arrivals(L)
    BY <1>1
  <2>2. draft'[e] = Pulled(L, NewRow(of))
    BY <1>1, <1>3
  <2> HIDE DEF of
  <2> QED
    BY <2>1, <2>2
<1>6. \A e \in Touched(L) : draft'[e] = Pulled(L, ev[e])
  BY <1>1, <1>4
<1> QED
  BY <1>5, <1>6

LEMMA PullKeepsNews ==
  ASSUME NewsInv, LinkInv', OneSync, NEW p \in Syncs, Pull(p) PROVE NewsInv'
<1> DEFINE L == list[p]
<1>0. /\ Typed /\ WriteSets /\ TokensAreGoogles /\ NoGaps /\ FirstSync /\ RowNews /\ ListNews
      /\ rows \subseteq Events /\ L \in Lists
  BY DEF NewsInv, News, LinkInv, Typed, DatabaseOK, SyncsOK
<1>1. /\ phase = "none" /\ at[p] = "listed" /\ at' = [at EXCEPT ![p] = "working"]
      /\ doomed' = Forgotten(L) /\ locked' = born' \cup doomed' \cup Touched(L)
      /\ list' = [list EXCEPT ![p] = NoList]
      /\ UNCHANGED <<provider, token, rows, ev, live, item, gaps, since, late, sent>>
  BY DEF Pull, dbVars, providerVars, changeVars
<1>2. sent' = {}
  BY <1>0, <1>1 DEF WriteSets
<1>3. \A q \in Syncs : q = p /\ at'[q] = "working" /\ list'[q] = NoList
  BY <1>0, <1>1 DEF OneSync, Typed, SyncsOK
<1>4. TokensAreGoogles' /\ NoGaps' /\ FirstSync'
  BY <1>0, <1>1, <1>3 DEF TokensAreGoogles, NoGaps, FirstSync, Complete, NoList
<1>5. RowNews'
  BY <1>0, <1>1 DEF RowNews, Agrees, Complete
<1>6. ListNews'
  BY <1>3 DEF ListNews
<1>7. WorkNews'
  <2>1. ASSUME ~Complete, NEW e \in SeenRows', PendingLink(e)' # NoRemote,
               PendingLink(e)' \notin late[p]
        PROVE  Agrees(PendingLink(e), PendingHash(e))'
    <3>0. L.gaps = {} /\ L.live \subseteq L.ids
      BY <1>0 DEF NoGaps
    <3>1. ASSUME NEW row \in Row, row.remote \in L.live, row.remote \notin late[p]
          PROVE  /\ row.remote \in live'
                 /\ item'[row.remote].readable =>
                       Pulled(L, row).hash = FromGoogle(item'[row.remote])
      <4>1. row.remote \in live /\ item[row.remote] = L.item[row.remote]
        BY <1>0, <1>1, <2>1, <3>0, <3>1 DEF ListNews
      <4> QED
        BY <1>1, <2>1, <3>0, <3>1, <4>1, PulledAgrees
    <3>2. CASE e \in born'
      <4>1. PICK r \in Arrivals(L) : draft'[e] = Pulled(L, NewRow(r))
        BY <1>0, <3>2, PullWrites
      <4>2. r \in L.live /\ r \in Remotes
        BY <1>0 DEF Arrivals, Lists
      <4>3. NewRow(r) \in Row /\ NewRow(r).remote = r
        BY <4>2, NewRowIsRow
      <4>4. PendingLink(e)' = r /\ PendingHash(e)' = Pulled(L, NewRow(r)).hash
        BY <1>0, <1>1, <3>2, <4>1, <4>3, PulledKeepsLink DEF PendingLink, PendingHash
      <4>5. /\ r \in live'
            /\ item'[r].readable => Pulled(L, NewRow(r)).hash = FromGoogle(item'[r])
        BY <2>1, <3>1, <4>2, <4>3, <4>4
      <4> QED
        BY <4>4, <4>5 DEF Agrees
    <3>3. CASE e \notin born'
      <4>1. e \in rows \ Forgotten(L) /\ ev[e] \in Row
        BY <1>0, <1>1, <3>3 DEF SeenRows, Typed, DatabaseOK
      <4>2. PendingLink(e)' = ev[e].remote /\ PendingHash(e)' = Pulled(L, ev[e]).hash
        <5>1. CASE e \in Touched(L)
          <6>1. draft'[e] = Pulled(L, ev[e])
            BY <1>0, <5>1, PullWrites
          <6> QED
            BY <1>0, <1>1, <4>1, <5>1, <6>1, PulledKeepsLink DEF PendingLink, PendingHash
        <5>2. CASE e \notin Touched(L)
          <6>1. e \notin locked' \cup sent'
            BY <1>1, <1>2, <3>3, <4>1, <5>2
          <6>2. PendingLink(e)' = ev[e].remote /\ PendingHash(e)' = ev[e].hash
            BY <1>1, <6>1 DEF PendingLink, PendingHash
          <6>3. Pulled(L, ev[e]) = ev[e]
            BY <2>1, <4>1, <5>2, <6>2 DEF Touched, IsLinked
          <6> QED
            BY <6>2, <6>3
        <5> QED
          BY <5>1, <5>2
      <4>3. CASE ev[e].remote \in L.ids
        <5>1. ev[e].remote \in L.live
          BY <2>1, <4>1, <4>2, <4>3 DEF Forgotten, Forgets, IsLinked
        <5> QED
          BY <2>1, <3>1, <4>1, <4>2, <5>1 DEF Agrees
      <4>4. CASE ev[e].remote \notin L.ids
        <5>1. Agrees(ev[e].remote, ev[e].hash)
          BY <1>0, <1>1, <2>1, <4>1, <4>2, <4>4 DEF ListNews
        <5>2. Pulled(L, ev[e]) = ev[e]
          BY <2>1, <3>0, <4>4, PulledAgrees
        <5> QED
          BY <1>1, <4>2, <5>1, <5>2 DEF Agrees
      <4> QED
        BY <4>3, <4>4
    <3> QED
      BY <3>2, <3>3
  <2>2. (~Complete)' <=> ~Complete
    BY <1>1 DEF Complete
  <2> QED
    BY <1>1, <1>3, <2>1, <2>2 DEF WorkNews
<1> QED
  BY <1>4, <1>5, <1>6, <1>7 DEF NewsInv, News

(* The commit stores the token of the list, and with it what it covers.    *)
LEMMA CommitKeepsNews ==
  ASSUME NewsInv, LinkInv', OneSync, NEW p \in Syncs, Commit(p) PROVE NewsInv'
<1>0. LinkInv /\ Typed /\ WriteSets /\ NoGaps /\ WorkNews
  BY DEF NewsInv, News, LinkInv
<1>1. /\ rows' = SeenRows /\ ev' = [e \in Events |-> Committed(e)]
      /\ token' = (provider = "google") /\ since' = late[p] /\ at[p] = "working"
      /\ at' = [at EXCEPT ![p] = "idle"] /\ list' = [list EXCEPT ![p] = NoList]
      /\ UNCHANGED <<provider, live, item, gaps>>
  BY DEF Commit, EndSync, Uncovered, providerVars
<1>2. \A q \in Syncs : at'[q] = "idle" /\ list'[q] = NoList
  BY <1>0, <1>1 DEF OneSync, Typed, SyncsOK
<1>3. SeenRows \subseteq Events /\ SeenRows \subseteq rows \cup locked /\ SeenRows \cap doomed = {}
  BY <1>0 DEF SeenRows, Typed, DatabaseOK, TransactionOK, WriteSets
<1>4. ASSUME NEW e \in SeenRows PROVE ev'[e].remote = PendingLink(e) /\ ev'[e].hash = PendingHash(e)
  <2>1. ev'[e] = Committed(e)
    BY <1>1, <1>3
  <2>2. CASE e \in locked
    BY <1>3, <2>1, <2>2 DEF Committed, PendingLink, PendingHash
  <2>3. CASE e \in rows \ locked
    BY <1>0, <1>3, <2>1, <2>3 DEF Committed, PendingLink, PendingHash, Typed, DatabaseOK, Row
  <2> QED
    BY <1>3, <2>2, <2>3
<1>5. TokensAreGoogles' /\ NoGaps' /\ FirstSync' /\ ListNews' /\ WorkNews'
  <2>1. token' <=> provider' = "google"
    BY <1>1
  <2>2. TokensAreGoogles' /\ FirstSync'
    BY <2>1 DEF TokensAreGoogles, FirstSync, Complete
  <2>3. NoGaps' /\ ListNews' /\ WorkNews'
    BY <1>0, <1>1, <1>2 DEF NoGaps, ListNews, WorkNews, NoList
  <2> QED
    BY <2>2, <2>3
<1>6. RowNews'
  <2>1. ASSUME ~Complete, NEW e \in SeenRows, ev'[e].remote # NoRemote, ev'[e].remote \notin since'
        PROVE  Agrees(ev'[e].remote, ev'[e].hash)
    BY <1>0, <1>1, <1>4, <2>1 DEF WorkNews
  <2> QED
    BY <1>1, <2>1 DEF RowNews, Agrees, Complete
<1> QED
  BY <1>5, <1>6 DEF NewsInv, News

LEMMA RollbackKeepsNews ==
  ASSUME NewsInv, LinkInv', OneSync, NEW p \in Syncs, Rollback(p) PROVE NewsInv'
<1>0. Typed /\ TokensAreGoogles /\ NoGaps /\ FirstSync /\ RowNews
  BY DEF NewsInv, News, LinkInv
<1>1. /\ UNCHANGED <<provider, token, rows, ev, live, item, gaps, since>>
      /\ at' = [at EXCEPT ![p] = "idle"] /\ list' = [list EXCEPT ![p] = NoList]
  BY DEF Rollback, EndSync, dbVars, providerVars
<1>2. \A q \in Syncs : at'[q] = "idle" /\ list'[q] = NoList
  BY <1>0, <1>1 DEF OneSync, Typed, SyncsOK
<1>3. TokensAreGoogles' /\ NoGaps' /\ FirstSync' /\ ListNews' /\ WorkNews'
  BY <1>0, <1>1, <1>2
  DEF TokensAreGoogles, NoGaps, FirstSync, ListNews, WorkNews, Complete, NoList
<1>4. RowNews'
  BY <1>0, <1>1 DEF RowNews, Agrees, Complete
<1> QED
  BY <1>3, <1>4 DEF NewsInv, News

-----------------------------------------------------------------------------
(* The circumstances under which the code forgets nothing.                 *)
TokensLast == "expire token" \notin Environment
SeriesStayWhole == "cancel occurrence" \notin Environment

LEMMA NewsStep ==
  ASSUME OneSync, TokensLast, SeriesStayWhole, NewsInv, [Next]_vars PROVE NewsInv'
<1>1. LinkInv'
  BY LinkStep DEF NewsInv
<1>2. CASE Connect \/ UNCHANGED vars
  <2>1. /\ UNCHANGED <<provider, token, rows, ev, at, list, txVars, providerVars, changeVars>>
    BY <1>2 DEF Connect, FinishConsent, CaldavConnect, NewConnection, vars, dbVars
  <2>2. ChangesAreNoted
    BY <2>1, NothingIsNoted DEF NewsInv, News
  <2>3. Calm
    BY <2>1, <2>2, OutsideIsCalm DEF NewsInv
  <2> QED
    BY <1>1, <2>3, CalmKeepsNews
<1>3. ASSUME NEW p \in Syncs, SyncStep(p) PROVE NewsInv'
  BY <1>1, <1>3, ListKeepsNews, PullKeepsNews, DeleteStoneKeepsNews, SelectMovedKeepsNews,
     DropMovedKeepsNews, SelectCandidatesKeepsNews, PushEventKeepsNews, CommitKeepsNews,
     RollbackKeepsNews
  DEF SyncStep, FlushFails
<1>4. ASSUME NEW p \in Syncs, FaultStep(p) PROVE NewsInv'
  <2>1. ~ListAfterGone(p)
    BY DEF ListAfterGone, Fault, TokensLast
  <2> QED
    BY <1>1, <1>4, <2>1, RefuseKeepsNews, LoseAnswerKeepsNews, RollbackKeepsNews
    DEF FaultStep, Crash
<1> QED
  BY <1>1, <1>2, <1>3, <1>4, UserStepKeepsNews, ProviderStepKeepsNews DEF Next, SeriesStayWhole

LEMMA NewsSuffices == ASSUME NewsInv PROVE NoDifferenceIsForgotten
<1> SUFFICES ASSUME NEW e \in rows, IsLinked(ev[e]), ~LocalNews(e), ~RemoteNews(ev[e].remote)
             PROVE  InStep(e)
  BY DEF NoDifferenceIsForgotten
<1> DEFINE r == ev[e].remote
           g == FromGoogle(item[r])
<1>1. token /\ r \notin since
  BY DEF RemoteNews
<1>2. ~Complete
  BY <1>1 DEF NewsInv, News, TokensAreGoogles
<1>3. Agrees(r, ev[e].hash)
  BY <1>1, <1>2 DEF NewsInv, News, RowNews, IsLinked
<1>4. \A f : Digest(f) = f
  BY <1>2 DEF Digest, Exdates, Complete
<1>5. ev[e].hash = ev[e].fields
  BY <1>4 DEF LocalNews
<1>6. Received(item[r]) = g
  BY <1>2 DEF Received, Complete
<1>7. [g EXCEPT !.exdates = @ \cup {}] = g
  <2>1. g.exdates \cup {} = g.exdates
    OBVIOUS
  <2>2. [g EXCEPT !.exdates = g.exdates] = g
    BY DEF FromGoogle, AsFields
  <2> QED
    BY <2>1, <2>2
<1>8. gaps = {}
  BY DEF NewsInv, News, NoGaps
<1>9. {o \in Occurrences : <<r, o>> \in gaps} = {}
  BY <1>8
<1>10. Shown(r) = g
  <2> HIDE DEF g
  <2> QED
    BY <1>6, <1>7, <1>9 DEF Shown
<1> QED
  BY <1>3, <1>4, <1>5, <1>10 DEF InStep, Agrees

(* While a linked row and its item differ, the row differs from its        *)
(* fingerprint or the next list reports the item: no edit is lost through  *)
(* any interleaving with a running sync, nor through failed, repeated or   *)
(* rolled back ones, for any number of events, edits and faults.           *)
THEOREM NothingIsForgotten ==
  ASSUME OneSync, TokensLast, SeriesStayWhole PROVE Spec => []NoDifferenceIsForgotten
<1>1. Init => NewsInv
  BY NewsInit
<1>2. NewsInv /\ [Next]_vars => NewsInv'
  BY NewsStep
<1>3. NewsInv => NoDifferenceIsForgotten
  BY NewsSuffices
<1> QED
  BY <1>1, <1>2, <1>3, PTL DEF Spec
-----------------------------------------------------------------------------
(***************************************************************************)
(* A pull never takes ToDoch's own writing for news.  What was sent comes  *)
(* back with the fingerprint that went with it when the provider has room  *)
(* for it; "unsettled" has the items of which that cannot be said, or      *)
(* whose fingerprint was lost on the way to the database.  Google keeps a  *)
(* cancelled occurrence as an item of its own, apart from that of the      *)
(* series: a row that has taken it over has another fingerprint than the   *)
(* item, and a list that reports the item reports the occurrence, too.     *)
(***************************************************************************)

(* The contents that a provider has room for, and no others, come back     *)
(* with the fingerprint they went with: what an event says in ToDoch, what *)
(* Google, Outlook or CalDAV make of it, and what ToDoch reads from that.  *)
THEOREM WhatFitsComesBack ==
  ASSUME provider \in Providers, NEW f \in Fields
  PROVE  Expressible(f) <=> Digest(Received(Sent(f))) = Digest(f)
<1>1. /\ f = [text |-> f.text, padded |-> f.padded, past |-> f.past, zone |-> f.zone,
              rule |-> f.rule, exdates |-> f.exdates, status |-> f.status,
              transparency |-> f.transparency]
      /\ f.padded \in BOOLEAN /\ f.zone \in {"own", "other"}
      /\ f.rule \in {"none", "short", "dated", "odd"}
      /\ f.status \in {"tentative", "confirmed", "cancelled"}
      /\ f.transparency \in {"opaque", "transparent"}
  BY DEF Fields, Rules, Statuses
<1> DEFINE plain == IF f.status = "tentative" THEN "tentative" ELSE "confirmed"
           exdates == IF f.rule = "none" THEN {} ELSE f.exdates
<1>2. CASE provider = "google"
  <2> DEFINE back == [text |-> f.text, padded |-> f.padded, past |-> f.past, zone |-> f.zone,
                      rule |-> f.rule, exdates |-> exdates, status |-> plain,
                      transparency |-> f.transparency]
  <2>1. Sent(f) = ToGoogle(f) /\ \A i : Received(i) = FromGoogle(i)
    BY <1>2 DEF Sent, Received
  <2>2. FromGoogle(ToGoogle(f)) = back
    BY <1>1 DEF ToGoogle, FromGoogle, AsItem, AsFields, KnownRule, TentativeOrConfirmed
  <2>3. Digest(f) = f /\ Digest(back) = back
    BY <1>2 DEF Digest, Exdates
  <2>4. back = f <=> exdates = f.exdates /\ plain = f.status
    BY <1>1
  <2>5. Digest(Received(Sent(f))) = Digest(f) <=> back = f
    <3> HIDE DEF back
    <3> QED
      BY <2>1, <2>2, <2>3
  <2> QED
    BY <1>1, <1>2, <2>4, <2>5 DEF Expressible, Exdates
<1>3. CASE provider = "microsoft"
  <2> DEFINE rule == IF f.rule \in {"short", "dated"} THEN "dated" ELSE "none"
             status == IF f.transparency = "transparent" THEN "confirmed" ELSE plain
             back == [text |-> f.text, padded |-> FALSE, past |-> f.past, zone |-> f.zone,
                      rule |-> rule, exdates |-> {}, status |-> status,
                      transparency |-> f.transparency]
  <2>1. Sent(f) = ToGraph(f) /\ \A i : Received(i) = FromGraph(i)
    BY <1>3 DEF Sent, Received
  <2>2. FromGraph(ToGraph(f)) = back
    BY <1>1 DEF ToGraph, FromGraph, AsItem, AsFields, PatternOf, RuleFromGraph, TentativeOrConfirmed
  <2>3. Digest(f) = [f EXCEPT !.exdates = {}] /\ Digest(back) = [back EXCEPT !.exdates = {}]
    BY <1>3 DEF Digest, Exdates
  <2>4. [f EXCEPT !.exdates = {}]
          = [text |-> f.text, padded |-> f.padded, past |-> f.past, zone |-> f.zone,
             rule |-> f.rule, exdates |-> {}, status |-> f.status,
             transparency |-> f.transparency]
    BY <1>1
  <2>5. [back EXCEPT !.exdates = {}] = back
    <3>1. back.exdates = {}
      OBVIOUS
    <3>2. back \in [text : {f.text}, padded : {FALSE}, past : {f.past}, zone : {f.zone},
                    rule : {rule}, exdates : {{}}, status : {status},
                    transparency : {f.transparency}]
      OBVIOUS
    <3> HIDE DEF back, rule, status
    <3> QED
      BY <3>1, <3>2
  <2>6. back = [f EXCEPT !.exdates = {}] <=> ~f.padded /\ rule = f.rule /\ status = f.status
    BY <1>1, <2>4
  <2>7. Digest(Received(Sent(f))) = Digest(f) <=> back = [f EXCEPT !.exdates = {}]
    <3> HIDE DEF back
    <3> QED
      BY <2>1, <2>2, <2>3, <2>5
  <2>8. Expressible(f) <=> /\ f.status # "cancelled" /\ ~f.padded
                           /\ f.rule \in {"none", "dated"}
                           /\ f.transparency = "transparent" => f.status = "confirmed"
    BY <1>3 DEF Expressible, Exdates
  <2> QED
    BY <1>1, <2>6, <2>7, <2>8
<1>4. CASE provider \notin {"google", "microsoft"}
  <2> DEFINE back == [text |-> f.text, padded |-> FALSE, past |-> f.past, zone |-> "own",
                      rule |-> f.rule, exdates |-> exdates, status |-> f.status,
                      transparency |-> f.transparency]
  <2>1. Sent(f) = ToIcs(f) /\ \A i : Received(i) = FromIcs(i)
    BY <1>4 DEF Sent, Received
  <2>2. FromIcs(ToIcs(f)) = back
    BY <1>1 DEF ToIcs, FromIcs, AsItem, AsFields, KnownRule
  <2>3. Digest(f) = f /\ Digest(back) = back
    BY <1>4 DEF Digest, Exdates
  <2>4. back = f <=> ~f.padded /\ f.zone = "own" /\ exdates = f.exdates
    BY <1>1
  <2>5. Digest(Received(Sent(f))) = Digest(f) <=> back = f
    <3> HIDE DEF back
    <3> QED
      BY <2>1, <2>2, <2>3
  <2>6. Expressible(f) <=> ~f.padded /\ f.zone = "own" /\ (f.rule = "none" => f.exdates = {})
    BY <1>4, ProviderAssumption DEF Expressible, Exdates
  <2> QED
    BY <1>1, <2>4, <2>5, <2>6
<1> QED
  BY <1>2, <1>3, <1>4

(***************************************************************************)
(* The inductive invariant.                                                *)
(***************************************************************************)

(* The cancelled occurrences a row will have once the transaction commits. *)
PendingExdates(e) == IF e \in locked THEN draft[e].fields.exdates ELSE ev[e].fields.exdates

Told(r, h) == h = Digest(Received(item[r]))
HeldApart(r, exdates) == \E o \in exdates : <<r, o>> \in gaps

Copied(r) == r \in live /\ item[r].mine /\ r \notin unsettled

BeingSent == {draft[e].remote : e \in sent}

ItemsOK ==
    /\ \A r \in Remotes : item[r].mine => item[r].readable
    /\ \A g \in gaps : g[1] \in issued
    /\ Complete => gaps = {} /\ \A p \in Syncs : list[p].gaps = {}

SyncsInPhase ==
    \A p \in Syncs :
       /\ at[p] = "idle" => late[p] = {}
       /\ at[p] = "working" => phase # "none" /\ \A q \in Syncs : at[q] = "working" => q = p

(* What is still to be sent goes to items that no other row will have.     *)
TodoApart ==
    phase = "push" =>
        \A e \in todo, d \in SeenRows :
           PendingLink(d) # NoRemote /\ PendingLink(d) = draft[e].remote => d = e

(* What a transaction writes while another sync has its list is unsettled. *)
WrittenNoted == (\E p \in Syncs : at[p] = "listed") => Written \subseteq unsettled \cup {NoRemote}

(* The fingerprints of rows, of a list, and of what a sync will commit.    *)
RowEcho ==
    \A e \in rows : Copied(ev[e].remote) /\ ev[e].remote \notin BeingSent =>
        \/ Told(ev[e].remote, ev[e].hash)
        \/ ev[e].remote \notin since /\ HeldApart(ev[e].remote, ev[e].fields.exdates)

ListEcho ==
    \A p \in Syncs : at[p] = "listed" =>
        /\ \A r \in Remotes : Copied(r) =>
              r \notin late[p] /\ (r \in list[p].live => list[p].item[r] = item[r])
        /\ \A g \in list[p].gaps : g[1] \in issued /\ (g[1] \in live => g \in gaps)
        /\ \A e \in rows :
              /\ ev[e].remote \in list[p].live /\ list[p].item[ev[e].remote].mine
              /\ ev[e].remote \notin unsettled
              => \/ ev[e].hash = Digest(Received(list[p].item[ev[e].remote]))
                 \/ \E o \in ev[e].fields.exdates : <<ev[e].remote, o>> \in list[p].gaps

WorkEcho ==
    \A p \in Syncs : at[p] = "working" =>
        \A e \in SeenRows : Copied(PendingLink(e)) =>
            \/ Told(PendingLink(e), PendingHash(e))
            \/ PendingLink(e) \notin late[p] /\ HeldApart(PendingLink(e), PendingExdates(e))

Echoes == RowEcho /\ ListEcho /\ WorkEcho
Transacts == SyncsInPhase /\ TodoApart /\ WrittenNoted

EchoInv == LinkInv /\ ItemsOK /\ Transacts /\ Echoes

LEMMA SentIsMine ==
  ASSUME NEW f PROVE Sent(f).mine /\ Sent(f).readable
  BY DEF Sent, ToGoogle, ToGraph, ToIcs, AsItem

(* A change that is taken over has the fingerprint of the item.            *)
LEMMA AdoptedIsTold ==
  ASSUME NEW f \in Fields, NEW i \in Items PROVE Digest(Adopted(f, i)) = Digest(Received(i))
<1>1. Received(i) \in Fields
  BY ReceivedIsFields
<1> QED
  BY <1>1 DEF Adopted, Digest, Exdates, Fields

-----------------------------------------------------------------------------
(***************************************************************************)
(* The pull.                                                               *)
(***************************************************************************)

(* A pulled row has the fingerprint of the listed item, or has taken over  *)
(* an occurrence that the list reports on its own.                         *)
LEMMA PulledIsTold ==
  ASSUME NEW L \in Lists, NEW row \in Row, row.remote \in L.live, L.item[row.remote].readable
  PROVE  \/ Pulled(L, row).hash = Digest(Received(L.item[row.remote]))
         \/ \E o \in Pulled(L, row).fields.exdates : <<row.remote, o>> \in L.gaps
<1> DEFINE i == L.item[row.remote]
           mid == AfterItem(L, row)
           f == Adopted(row.fields, i)
<1>1. i \in Items /\ row.fields \in Fields
  BY DEF Lists, Row
<1>2. mid.hash = Digest(Received(i)) /\ mid.remote = row.remote /\ mid \in Row
  <2>1. CASE Changed(L, row)
    <3>1. f \in Fields /\ Digest(f) = Digest(Received(i)) /\ Digest(f) \in Fields
      BY <1>1, AdoptedIsTold, AdoptedIsFields, DigestIsFields
    <3>2. mid = [row EXCEPT !.fields = f, !.hash = Digest(f)]
      BY <2>1 DEF AfterItem
    <3> HIDE DEF mid, f
    <3> QED
      BY <3>1, <3>2 DEF Row
  <2>2. CASE ~Changed(L, row)
    <3>1. mid = row
      BY <2>2 DEF AfterItem
    <3>2. row.hash = Digest(Received(i))
      BY <2>2 DEF Changed
    <3> QED
      BY <3>1, <3>2
  <2> QED
    BY <2>1, <2>2
<1>3. Pulled(L, row) = AfterGaps(L, mid)
  BY DEF Pulled
<1> HIDE DEF mid
<1>4. CASE Cancelled(L, mid) \subseteq mid.fields.exdates
  <2>1. Pulled(L, row) = mid
    BY <1>3, <1>4 DEF AfterGaps
  <2> QED
    BY <1>2, <2>1
<1>5. CASE ~(Cancelled(L, mid) \subseteq mid.fields.exdates)
  <2> DEFINE g == [mid.fields EXCEPT !.exdates = @ \cup Cancelled(L, mid)]
  <2>1. Pulled(L, row) = [mid EXCEPT !.fields = g, !.hash = Digest(g)]
    BY <1>3, <1>5 DEF AfterGaps
  <2>2. PICK o \in Cancelled(L, mid) : TRUE
    BY <1>5
  <2>3. <<row.remote, o>> \in L.gaps
    BY <1>2, <2>2 DEF Cancelled
  <2>4. Pulled(L, row).fields = g
    BY <1>2, <2>1 DEF Row
  <2>5. o \in g.exdates
    BY <1>2, <2>2 DEF Row, Fields
  <2> QED
    BY <2>3, <2>4, <2>5
<1> QED
  BY <1>4, <1>5

(* A row whose item is not listed has taken over an occurrence, or is left *)
(* as it was.                                                              *)
LEMMA PulledUnlisted ==
  ASSUME NEW L \in Lists, NEW row \in Row, row.remote \notin L.live
  PROVE  \/ Pulled(L, row) = row
         \/ \E o \in Pulled(L, row).fields.exdates : <<row.remote, o>> \in L.gaps
<1>1. AfterItem(L, row) = row
  BY DEF AfterItem, Changed
<1>2. CASE Cancelled(L, row) \subseteq row.fields.exdates
  BY <1>1, <1>2 DEF Pulled, AfterGaps
<1>3. CASE ~(Cancelled(L, row) \subseteq row.fields.exdates)
  <2> DEFINE g == [row.fields EXCEPT !.exdates = @ \cup Cancelled(L, row)]
  <2>1. Pulled(L, row) = [row EXCEPT !.fields = g, !.hash = Digest(g)]
    BY <1>1, <1>3 DEF Pulled, AfterGaps
  <2>2. PICK o \in Cancelled(L, row) : TRUE
    BY <1>3
  <2>3. <<row.remote, o>> \in L.gaps
    BY <2>2 DEF Cancelled
  <2>4. Pulled(L, row).fields = g
    BY <2>1 DEF Row
  <2>5. o \in g.exdates
    BY <2>2 DEF Row, Fields
  <2> QED
    BY <2>3, <2>4, <2>5
<1> QED
  BY <1>2, <1>3

(* An item nobody else has written, and that the row knows, changes        *)
(* nothing.                                                                *)
LEMMA KnownItemIsSkipped ==
  ASSUME NEW L, NEW row, Cancelled(L, row) = {},
         row.remote \in L.live => row.hash = Digest(Received(L.item[row.remote]))
  PROVE  Pulled(L, row) = row
<1>1. AfterItem(L, row) = row
  BY DEF AfterItem, Changed
<1> QED
  BY <1>1 DEF Pulled, AfterGaps

-----------------------------------------------------------------------------
(***************************************************************************)
(* Most steps write no copy, no link and no fingerprint.                   *)

-----------------------------------------------------------------------------
(***************************************************************************)
(* Most steps write no copy, no link and no fingerprint.                   *)
(***************************************************************************)
CopyStays(r) ==
    r \in live' /\ item'[r].mine /\ r \notin unsettled' =>
        /\ r \in live /\ item'[r] = item[r]
        /\ r \in since' => r \in since
        /\ \A p \in Syncs : r \in late'[p] => r \in late[p]

GapsStay == StaysDead /\ \A g \in gaps : g[1] \in live' => g \in gaps'

CopiesStay == GapsStay /\ unsettled \subseteq unsettled' /\ \A r \in Remotes : CopyStays(r)

RowsKeep ==
    \A e \in rows' :
        \/ ev'[e].remote = NoRemote
        \/ /\ e \in rows /\ ev'[e].remote = ev[e].remote /\ ev'[e].hash = ev[e].hash
           /\ ev[e].fields.exdates \subseteq ev'[e].fields.exdates

PendingKeep ==
    /\ \A e \in SeenRows' :
          \/ PendingLink(e)' = NoRemote
          \/ /\ e \in SeenRows
             /\ PendingLink(e)' = PendingLink(e) /\ PendingHash(e)' = PendingHash(e)
             /\ PendingExdates(e) \subseteq PendingExdates(e)'
    /\ BeingSent \subseteq BeingSent' \cup {NoRemote} /\ Written' \subseteq Written \cup {NoRemote}

EchoCalm == UNCHANGED <<provider, at, list>> /\ CopiesStay /\ RowsKeep /\ PendingKeep

LEMMA EchoInit == ASSUME Init PROVE EchoInv
<1>1. LinkInv
  BY LinkInit
<1>2. ItemsOK
  BY DEF Init, ItemsOK, BlankItem, AsItem, NoList
<1>3. Transacts /\ Echoes
  BY DEF Init, Transacts, SyncsInPhase, TodoApart, WrittenNoted, Echoes, RowEcho, ListEcho, WorkEcho
<1> QED
  BY <1>1, <1>2, <1>3 DEF EchoInv

(* Only what the provider has given out can be a copy.                     *)
LEMMA CopiesAreRemotes ==
  ASSUME Typed, NEW r, Copied(r) PROVE r \in Remotes /\ r # NoRemote
  BY SyncAssumption DEF Copied, Typed, ProviderOK

LEMMA CalmKeepsEchoes ==
  ASSUME EchoInv, Typed', EchoCalm PROVE Echoes' /\ WrittenNoted'
<1>0. /\ Typed /\ RowEcho /\ ListEcho /\ WorkEcho
      /\ rows \subseteq Events /\ rows' \subseteq Events
      /\ UNCHANGED <<provider, at, list>> /\ CopiesStay /\ RowsKeep /\ PendingKeep /\ GapsStay
      /\ unsettled \subseteq unsettled' /\ WrittenNoted
  BY DEF EchoInv, LinkInv, Echoes, Transacts, EchoCalm, CopiesStay, Typed, DatabaseOK
<1>1. ASSUME NEW r, r \in live', item'[r].mine, r \notin unsettled'
      PROVE  /\ Copied(r) /\ item'[r] = item[r] /\ r # NoRemote
             /\ r \in since' => r \in since
             /\ \A p \in Syncs : r \in late'[p] => r \in late[p]
             /\ \A o : <<r, o>> \in gaps => <<r, o>> \in gaps'
  <2>1. r \in Remotes /\ r # NoRemote
    BY <1>1, SyncAssumption DEF Typed, ProviderOK
  <2>2. CopyStays(r)
    BY <1>0, <2>1 DEF CopiesStay
  <2>3. \A o : <<r, o>> \in gaps => <<r, o>> \in gaps'
    <3> TAKE o
    <3>1. <<r, o>>[1] = r
      OBVIOUS
    <3> QED
      BY <1>0, <1>1, <3>1 DEF GapsStay
  <2> QED
    BY <1>0, <1>1, <2>1, <2>2, <2>3 DEF CopyStays, Copied
<1>2. RowEcho'
  <2> SUFFICES ASSUME NEW e \in rows', ev'[e].remote \in live', item'[ev'[e].remote].mine,
                      ev'[e].remote \notin unsettled' \cup BeingSent'
               PROVE  \/ Told(ev[e].remote, ev[e].hash)'
                      \/ /\ ev'[e].remote \notin since'
                         /\ HeldApart(ev[e].remote, ev[e].fields.exdates)'
    BY DEF RowEcho, Copied
  <2>0. /\ Copied(ev'[e].remote) /\ item'[ev'[e].remote] = item[ev'[e].remote]
        /\ ev'[e].remote # NoRemote
        /\ ev'[e].remote \in since' => ev'[e].remote \in since
        /\ \A o : <<ev'[e].remote, o>> \in gaps => <<ev'[e].remote, o>> \in gaps'
    BY <1>1
  <2>1. /\ e \in rows /\ ev'[e].remote = ev[e].remote /\ ev'[e].hash = ev[e].hash
        /\ ev[e].fields.exdates \subseteq ev'[e].fields.exdates
    BY <1>0, <2>0 DEF RowsKeep
  <2>2. \/ Told(ev[e].remote, ev[e].hash)
        \/ ev[e].remote \notin since /\ HeldApart(ev[e].remote, ev[e].fields.exdates)
    BY <1>0, <2>0, <2>1 DEF RowEcho, PendingKeep
  <2>3. CASE Told(ev[e].remote, ev[e].hash)
    BY <1>0, <2>0, <2>1, <2>3 DEF Told, Digest, Received, Exdates
  <2>4. CASE ev[e].remote \notin since /\ HeldApart(ev[e].remote, ev[e].fields.exdates)
    BY <2>0, <2>1, <2>4 DEF HeldApart
  <2> QED
    BY <2>2, <2>3, <2>4
<1>3. WorkEcho'
  <2> SUFFICES ASSUME NEW p \in Syncs, at[p] = "working", NEW e \in SeenRows',
                      PendingLink(e)' \in live', item'[PendingLink(e)'].mine,
                      PendingLink(e)' \notin unsettled'
               PROVE  \/ Told(PendingLink(e), PendingHash(e))'
                      \/ /\ PendingLink(e)' \notin late'[p]
                         /\ HeldApart(PendingLink(e), PendingExdates(e))'
    BY <1>0 DEF WorkEcho, Copied
  <2>0. /\ Copied(PendingLink(e)') /\ item'[PendingLink(e)'] = item[PendingLink(e)']
        /\ PendingLink(e)' # NoRemote
        /\ PendingLink(e)' \in late'[p] => PendingLink(e)' \in late[p]
        /\ \A o : <<PendingLink(e)', o>> \in gaps => <<PendingLink(e)', o>> \in gaps'
    BY <1>1
  <2>1. /\ e \in SeenRows /\ PendingLink(e)' = PendingLink(e) /\ PendingHash(e)' = PendingHash(e)
        /\ PendingExdates(e) \subseteq PendingExdates(e)'
    BY <1>0, <2>0 DEF PendingKeep
  <2>2. \/ Told(PendingLink(e), PendingHash(e))
        \/ PendingLink(e) \notin late[p] /\ HeldApart(PendingLink(e), PendingExdates(e))
    BY <1>0, <2>0, <2>1 DEF WorkEcho
  <2>3. CASE Told(PendingLink(e), PendingHash(e))
    BY <1>0, <2>0, <2>1, <2>3 DEF Told, Digest, Received, Exdates
  <2>4. CASE PendingLink(e) \notin late[p] /\ HeldApart(PendingLink(e), PendingExdates(e))
    BY <2>0, <2>1, <2>4 DEF HeldApart
  <2> QED
    BY <2>2, <2>3, <2>4
<1>4. ListEcho'
  <2> SUFFICES ASSUME NEW p \in Syncs, at[p] = "listed"
               PROVE  /\ \A r \in Remotes : r \in live' /\ item'[r].mine /\ r \notin unsettled' =>
                            r \notin late'[p] /\ (r \in list[p].live => list[p].item[r] = item'[r])
                      /\ \A g \in list[p].gaps :
                            g[1] \in issued' /\ (g[1] \in live' => g \in gaps')
                      /\ \A e \in rows' :
                            /\ ev'[e].remote \in list[p].live
                            /\ list[p].item[ev'[e].remote].mine /\ ev'[e].remote \notin unsettled'
                            =>
                            \/ ev'[e].hash = Digest(Received(list[p].item[ev'[e].remote]))
                            \/ \E o \in ev'[e].fields.exdates :
                                  <<ev'[e].remote, o>> \in list[p].gaps
    <3>1. \A i : (Digest(Received(i)))' = Digest(Received(i))
      BY <1>0 DEF Digest, Received, Exdates
    <3> QED
      BY <1>0, <3>1 DEF ListEcho, Copied
  <2>1. \A r \in Remotes : r \in live' /\ item'[r].mine /\ r \notin unsettled' =>
           r \notin late'[p] /\ (r \in list[p].live => list[p].item[r] = item'[r])
    BY <1>0, <1>1 DEF ListEcho
  <2>2. \A g \in list[p].gaps : g[1] \in issued' /\ (g[1] \in live' => g \in gaps')
    BY <1>0 DEF ListEcho, GapsStay, StaysDead
  <2>3. ASSUME NEW e \in rows', ev'[e].remote \in list[p].live, list[p].item[ev'[e].remote].mine,
               ev'[e].remote \notin unsettled'
        PROVE  \/ ev'[e].hash = Digest(Received(list[p].item[ev'[e].remote]))
               \/ \E o \in ev'[e].fields.exdates : <<ev'[e].remote, o>> \in list[p].gaps
    <3>1. ev'[e].remote # NoRemote
      <4>1. list[p] \in Lists
        BY <1>0 DEF Typed, SyncsOK
      <4> QED
        BY <2>3, <4>1, SyncAssumption DEF Lists
    <3>2. /\ e \in rows /\ ev'[e].remote = ev[e].remote /\ ev'[e].hash = ev[e].hash
          /\ ev[e].fields.exdates \subseteq ev'[e].fields.exdates
      BY <1>0, <3>1 DEF RowsKeep
    <3> QED
      BY <1>0, <2>3, <3>2 DEF ListEcho
  <2> QED
    BY <2>1, <2>2, <2>3
<1>5. WrittenNoted'
  BY <1>0 DEF WrittenNoted, PendingKeep
<1> QED
  BY <1>2, <1>3, <1>4, <1>5 DEF Echoes


(* What the steps that change the provider's calendar do to copies.        *)
LEMMA PutStays ==
  ASSUME Typed, NEW r \in Remotes, NEW i, Put(r, i), ~i.mine \/ r \in unsettled',
         unsettled \subseteq unsettled', r \notin issued \/ r \in live
  PROVE  CopiesStay
<1>1. /\ live' = live \cup {r} /\ item' = [item EXCEPT ![r] = i] /\ gaps' = gaps
      /\ since' \subseteq since \cup {r} /\ \A p \in Syncs : late'[p] \subseteq late[p] \cup {r}
  BY DEF Put, Notice, Typed, SyncsOK
<1>2. StaysDead
  BY PutStaysDead
<1>3. item'[r] = i /\ \A x \in Remotes \ {r} : item'[x] = item[x]
  BY <1>1 DEF Typed, ProviderOK
<1> QED
  BY <1>1, <1>2, <1>3 DEF CopiesStay, GapsStay, CopyStays

LEMMA RemoveStays ==
  ASSUME Typed, NEW r, Remove(r), UNCHANGED unsettled PROVE CopiesStay
<1>1. /\ live' = live \ {r} /\ item' = [item EXCEPT ![r] = BlankItem]
      /\ gaps' = {g \in gaps : g[1] # r}
      /\ since' \subseteq since \cup {r} /\ \A p \in Syncs : late'[p] \subseteq late[p] \cup {r}
  BY DEF Remove, Notice, Typed, SyncsOK
<1>2. StaysDead
  BY RemoveStaysDead
<1>3. \A x \in Remotes \ {r} : item'[x] = item[x]
  BY <1>1 DEF Typed, ProviderOK
<1> QED
  BY <1>1, <1>2, <1>3 DEF CopiesStay, GapsStay, CopyStays

LEMMA NothingStays ==
  ASSUME UNCHANGED <<providerVars, changeVars, unsettled>> PROVE CopiesStay
  BY DEF providerVars, changeVars, CopiesStay, GapsStay, CopyStays, StaysDead

LEMMA PutKeepsItems ==
  ASSUME Typed, ItemsOK, NEW r \in Remotes, NEW i, Put(r, i), i.mine => i.readable,
         UNCHANGED <<provider, list>>
  PROVE  ItemsOK'
<1>1. issued \subseteq issued' /\ item' = [item EXCEPT ![r] = i] /\ gaps' = gaps
  BY DEF Put
<1>2. item'[r] = i /\ \A x \in Remotes \ {r} : item'[x] = item[x]
  BY <1>1 DEF Typed, ProviderOK
<1> QED
  BY <1>1, <1>2 DEF ItemsOK, Complete

LEMMA RemoveKeepsItems ==
  ASSUME Typed, ItemsOK, NEW r, Remove(r), UNCHANGED <<provider, list>> PROVE ItemsOK'
<1>1. issued' = issued /\ item' = [item EXCEPT ![r] = BlankItem] /\ gaps' \subseteq gaps
  BY DEF Remove
<1>2. ~BlankItem.mine
  BY DEF BlankItem, AsItem
<1>3. \A x \in Remotes : item'[x] \in {item[x], BlankItem}
  BY <1>1 DEF Typed, ProviderOK
<1> QED
  BY <1>1, <1>2, <1>3 DEF ItemsOK, Complete

LEMMA SameItems ==
  ASSUME ItemsOK, UNCHANGED <<provider, list, providerVars>> PROVE ItemsOK'
  BY DEF ItemsOK, Complete, providerVars


(* Steps that leave the syncs alone.                                       *)
LEMMA OutsideKeepsEcho ==
  ASSUME EchoInv, LinkInv', CopiesStay, ItemsOK',
         UNCHANGED <<provider, at, list, txVars, unsettled>>,
         \A p \in Syncs : at[p] = "idle" => late'[p] = {},
         \A e \in rows' :
            \/ e \notin rows \cup locked \cup sent /\ ev'[e].remote = NoRemote
            \/ /\ e \in rows /\ ev'[e].remote = ev[e].remote /\ ev'[e].hash = ev[e].hash
               /\ ev[e].fields.exdates \subseteq ev'[e].fields.exdates
  PROVE  EchoInv'
<1>0. /\ LinkInv /\ Typed /\ Typed' /\ WriteSets /\ SyncsInPhase /\ TodoApart
      /\ UNCHANGED <<phase, todo, draft, locked, born, doomed, sent>>
  BY DEF EchoInv, LinkInv, Transacts, txVars
<1>1. RowsKeep
  BY DEF RowsKeep
<1>2. ASSUME NEW e \in SeenRows'
      PROVE  \/ PendingLink(e)' = NoRemote
             \/ /\ e \in SeenRows
                /\ PendingLink(e)' = PendingLink(e) /\ PendingHash(e)' = PendingHash(e)
                /\ PendingExdates(e) \subseteq PendingExdates(e)'
  <2>1. CASE e \in born
    BY <1>0, <2>1 DEF SeenRows, PendingLink, PendingHash, PendingExdates, WriteSets
  <2>2. CASE e \in rows' /\ e \notin doomed
    BY <1>0, <2>2 DEF SeenRows, PendingLink, PendingHash, PendingExdates, WriteSets
  <2> QED
    BY <1>0, <1>2, <2>1, <2>2 DEF SeenRows
<1>3. PendingKeep
  <2>1. BeingSent' = BeingSent /\ Written' = Written
    BY <1>0 DEF BeingSent, Written
  <2> QED
    BY <1>2, <2>1 DEF PendingKeep
<1>4. Echoes' /\ WrittenNoted'
  BY <1>0, <1>1, <1>3, CalmKeepsEchoes DEF EchoCalm
<1>5. SyncsInPhase'
  BY <1>0 DEF SyncsInPhase
<1>6. TodoApart'
  BY <1>0, <1>2 DEF TodoApart
<1> QED
  BY <1>4, <1>5, <1>6 DEF EchoInv, Transacts

LEMMA UserStepKeepsEcho ==
  ASSUME EchoInv, LinkInv', UserStep PROVE EchoInv'
<1>0. /\ LinkInv /\ Typed /\ WriteSets /\ ItemsOK /\ SyncsInPhase /\ rows \subseteq Events
  BY DEF EchoInv, LinkInv, Transacts, Typed, DatabaseOK
<1>1. ASSUME InToDoch, UNCHANGED provider,
             \A e \in rows' :
                \/ e \notin InUse /\ ev'[e].remote = NoRemote
                \/ /\ e \in rows /\ ev'[e].remote = ev[e].remote /\ ev'[e].hash = ev[e].hash
                   /\ ev[e].fields.exdates \subseteq ev'[e].fields.exdates
      PROVE  EchoInv'
  <2>1. UNCHANGED <<provider, at, list, txVars, providerVars, changeVars, unsettled>>
    BY <1>1 DEF InToDoch
  <2>2. CopiesStay /\ ItemsOK'
    BY <1>0, <2>1, NothingStays, SameItems
  <2>3. \A p \in Syncs : at[p] = "idle" => late'[p] = {}
    BY <1>0, <2>1 DEF SyncsInPhase, changeVars
  <2> QED
    BY <1>1, <2>1, <2>2, <2>3, OutsideKeepsEcho DEF InUse
<1>2. ASSUME NEW e \in Events, NEW f \in UserFields, NEW a \in Areas, CreateEvent(e, f, a)
      PROVE  EchoInv'
  <2>1. rows' = rows \cup {e} /\ e \notin InUse /\ ev'[e].remote = NoRemote
        /\ \A d \in rows : ev'[d] = ev[d]
    BY <1>0, <1>2, BlankRowIsRow DEF CreateEvent, InUse, Typed, DatabaseOK, BlankRow
  <2> QED
    BY <1>1, <1>2, <2>1 DEF CreateEvent, UserOp
<1>3. ASSUME NEW e \in Events, NEW f \in UserFields, EditEvent(e, f) PROVE EchoInv'
  <2> DEFINE new == [f EXCEPT !.exdates = ev[e].fields.exdates]
  <2>1. f \in Fields
    BY SyncAssumption
  <2>2. new.exdates = ev[e].fields.exdates
    BY <2>1 DEF Fields
  <2>3. ev' = [ev EXCEPT ![e].fields = new] /\ rows' = rows
    BY <1>3 DEF EditEvent
  <2> HIDE DEF new
  <2>4. \A d \in rows : /\ ev'[d].remote = ev[d].remote /\ ev'[d].hash = ev[d].hash
                        /\ ev'[d].fields.exdates = ev[d].fields.exdates
    BY <1>0, <2>2, <2>3 DEF Typed, DatabaseOK, Row
  <2> QED
    BY <1>1, <1>3, <2>3, <2>4 DEF EditEvent, UserOp
<1>4. ASSUME NEW e \in Events, MoveEvent(e) PROVE EchoInv'
  <2>1. PICK a \in Areas : ev' = [ev EXCEPT ![e].area = a]
    BY <1>4 DEF MoveEvent
  <2>2. \A d \in rows : /\ ev'[d].remote = ev[d].remote /\ ev'[d].hash = ev[d].hash
                        /\ ev'[d].fields = ev[d].fields
    BY <1>0, <2>1 DEF Typed, DatabaseOK, Row
  <2> QED
    BY <1>1, <1>4, <2>2 DEF MoveEvent, UserOp
<1>5. ASSUME NEW e \in Events, NEW o \in Occurrences, DeleteOccurrence(e, o) PROVE EchoInv'
  <2>1. \A d \in rows : /\ ev'[d].remote = ev[d].remote /\ ev'[d].hash = ev[d].hash
                        /\ ev[d].fields.exdates \subseteq ev'[d].fields.exdates
    BY <1>0, <1>5 DEF DeleteOccurrence, Typed, DatabaseOK, Row, Fields
  <2> QED
    BY <1>1, <1>5, <2>1 DEF DeleteOccurrence, UserOp
<1>6. ASSUME NEW e \in Events, NEW link, Delete(e, link), InToDoch PROVE EchoInv'
  <2>1. rows' = rows \ {e} /\ \A d \in rows' : ev'[d] = ev[d]
    BY <1>0, <1>6 DEF Delete, Typed, DatabaseOK
  <2> QED
    BY <1>1, <1>6, <2>1 DEF Delete
<1>7. CASE DeleteArea
  <2>1. rows' \subseteq rows /\ \A d \in rows' : ev'[d] = ev[d]
    BY <1>0, <1>7 DEF DeleteArea, Typed, DatabaseOK
  <2> QED
    BY <1>1, <1>7, <2>1 DEF DeleteArea, UserOp
<1>8. CASE Disconnect
  <2>1. /\ UNCHANGED <<provider, rows, txVars, providerVars>> /\ phase = "none"
        /\ \A e \in rows : ev'[e].remote = NoRemote
        /\ \A p \in Syncs : at'[p] = "idle" /\ list'[p] = NoList /\ late'[p] = {}
    BY <1>0, <1>8 DEF Disconnect, Typed, DatabaseOK, Row
  <2>2. /\ UNCHANGED <<item, gaps, issued, live, draft, born, doomed, sent, todo, phase>>
    BY <2>1 DEF txVars, providerVars
  <2>3. ItemsOK'
    <3>1. \A p \in Syncs : list'[p].gaps = {}
      BY <2>1 DEF NoList
    <3> QED
      BY <1>0, <2>1, <2>2, <3>1 DEF ItemsOK, Complete
  <2>4. SyncsInPhase' /\ ListEcho' /\ WorkEcho' /\ WrittenNoted'
    BY <2>1 DEF SyncsInPhase, ListEcho, WorkEcho, WrittenNoted
  <2>5. NoRemote \notin live'
    BY <1>0, <2>2, SyncAssumption DEF Typed, ProviderOK
  <2>6. RowEcho'
    BY <2>1, <2>5 DEF RowEcho, Copied
  <2>7. TodoApart'
    BY <2>1, <2>2 DEF TodoApart
  <2> QED
    BY <2>3, <2>4, <2>6, <2>7 DEF EchoInv, Transacts, Echoes
<1>9. ASSUME NEW e \in Events, BeginDelete(e) PROVE EchoInv'
  BY <1>1, <1>9 DEF BeginDelete, UserOp, dbVars
<1> QED
  BY <1>2, <1>3, <1>4, <1>5, <1>6, <1>7, <1>8, <1>9
  DEF UserStep, DeleteEvent, FinishDelete, UserOp

LEMMA ProviderStepKeepsEcho ==
  ASSUME EchoInv, LinkInv', ProviderStep PROVE EchoInv'
<1>0. LinkInv /\ Typed /\ ItemsOK /\ SyncsInPhase
  BY DEF EchoInv, LinkInv, Transacts
<1>1. ASSUME ProviderOp, CopiesStay, ItemsOK', \A p \in Syncs : at[p] = "idle" => late'[p] = late[p]
      PROVE  EchoInv'
  <2>1. UNCHANGED <<provider, rows, ev, at, list, txVars, unsettled>>
    BY <1>1 DEF ProviderOp, dbVars
  <2>2. \A p \in Syncs : at[p] = "idle" => late'[p] = {}
    BY <1>0, <1>1 DEF SyncsInPhase
  <2> QED
    BY <1>1, <2>1, <2>2, OutsideKeepsEcho
<1>2. ASSUME NEW X, Notice(X) PROVE \A p \in Syncs : at[p] = "idle" => late'[p] = late[p]
  BY <1>2 DEF Notice
<1>3. ASSUME NEW r \in Remotes, NEW i \in ProviderItems, ProviderAdds(r, i) \/ ProviderEdits(r, i)
      PROVE  EchoInv'
  <2>1. ~i.mine /\ Put(r, i) /\ (r \notin issued \/ r \in live) /\ ProviderOp
    BY <1>3, SyncAssumption DEF ProviderAdds, ProviderEdits
  <2>2. UNCHANGED <<provider, list, unsettled>> /\ Notice({r})
    BY <2>1 DEF ProviderOp, dbVars, Put
  <2>3. CopiesStay /\ ItemsOK'
    BY <1>0, <2>1, <2>2, PutStays, PutKeepsItems
  <2> QED
    BY <1>1, <1>2, <2>1, <2>2, <2>3
<1>4. ASSUME NEW r \in Remotes, ProviderDeletes(r) PROVE EchoInv'
  <2>1. Remove(r) /\ ProviderOp
    BY <1>4 DEF ProviderDeletes
  <2>2. UNCHANGED <<provider, list, unsettled>> /\ Notice({r} \cap live)
    BY <2>1 DEF ProviderOp, dbVars, Remove
  <2>3. CopiesStay /\ ItemsOK'
    BY <1>0, <2>1, <2>2, RemoveStays, RemoveKeepsItems
  <2> QED
    BY <1>1, <1>2, <2>1, <2>2, <2>3
<1>5. ASSUME NEW r \in Remotes, NEW o \in Occurrences, ProviderCancels(r, o) PROVE EchoInv'
  <2>1. /\ ProviderOp /\ Notice({<<r, o>>}) /\ ~Complete /\ r \in issued
        /\ gaps' = gaps \cup {<<r, o>>} /\ UNCHANGED <<issued, live, item>>
    BY <1>0, <1>5 DEF ProviderCancels, Complete, Typed, ProviderOK
  <2>2. UNCHANGED <<provider, list, unsettled>>
    BY <2>1 DEF ProviderOp, dbVars
  <2>3. <<r, o>>[1] = r /\ <<r, o>> \notin Remotes
    <3>1. <<r, o>> \in Remotes \X Occurrences
      OBVIOUS
    <3> QED
      BY <3>1, SyncAssumption
  <2>4. ItemsOK'
    BY <1>0, <2>1, <2>2, <2>3 DEF ItemsOK, Complete
  <2>5. \A x \in Remotes : CopyStays(x)
    BY <1>0, <2>1, <2>3 DEF CopyStays, Notice, Typed, SyncsOK
  <2>6. CopiesStay
    BY <2>1, <2>2, <2>5 DEF CopiesStay, GapsStay, StaysDead
  <2> QED
    BY <1>1, <1>2, <2>1, <2>4, <2>6
<1> QED
  BY <1>3, <1>4, <1>5 DEF ProviderStep

-----------------------------------------------------------------------------
(***************************************************************************)
(* Steps of a sync.                                                        *)
(***************************************************************************)
LEMMA WorkKeepsEcho ==
  ASSUME EchoInv, LinkInv', NEW p \in Syncs, NEW ph, Work(p, ph), CopiesStay, PendingKeep,
         ItemsOK', TodoApart', phase' # "none",
         \A q \in Syncs : at[q] = "idle" => late'[q] = late[q]
  PROVE  EchoInv'
<1>1. UNCHANGED <<provider, rows, ev, at, list>>
  BY DEF Work, dbVars
<1>2. RowsKeep
  BY <1>1 DEF RowsKeep
<1>3. Echoes' /\ WrittenNoted'
  BY <1>1, <1>2, CalmKeepsEchoes DEF EchoCalm, LinkInv
<1>4. SyncsInPhase'
  BY <1>1 DEF SyncsInPhase, EchoInv, Transacts
<1> QED
  BY <1>3, <1>4 DEF EchoInv, Transacts

LEMMA SeenRowsAreEvents == ASSUME LinkInv PROVE SeenRows \subseteq Events
  BY DEF LinkInv, Typed, DatabaseOK, TransactionOK, SeenRows

(* A step that writes neither a row nor a copy of one.                     *)
LEMMA SameDrafts ==
  ASSUME UNCHANGED <<rows, ev, draft, locked, born, doomed, sent>>
  PROVE  /\ PendingKeep
         /\ SeenRows' = SeenRows /\ \A e : PendingLink(e)' = PendingLink(e)
<1>1. SeenRows' = SeenRows /\ BeingSent' = BeingSent /\ Written' = Written
  BY DEF SeenRows, BeingSent, Written
<1>2. \A e : /\ PendingLink(e)' = PendingLink(e) /\ PendingHash(e)' = PendingHash(e)
             /\ PendingExdates(e)' = PendingExdates(e)
  BY DEF PendingLink, PendingHash, PendingExdates
<1> QED
  BY <1>1, <1>2 DEF PendingKeep

LEMMA DeleteStoneKeepsEcho ==
  ASSUME EchoInv, LinkInv', NEW p \in Syncs, DeleteStone(p) PROVE EchoInv'
<1>0. LinkInv /\ Typed /\ ItemsOK
  BY DEF EchoInv, LinkInv
<1>1. PICK r \in todo : Remove(r)
  BY DEF DeleteStone
<1>2. /\ Work(p, "stones") /\ phase' = "stones"
      /\ UNCHANGED <<provider, rows, ev, list, draft, locked, born, doomed, sent, unsettled>>
  BY DEF DeleteStone, Work, dbVars
<1>3. CopiesStay /\ ItemsOK'
  BY <1>0, <1>1, <1>2, RemoveStays, RemoveKeepsItems
<1>4. PendingKeep
  BY <1>2, SameDrafts
<1>5. TodoApart'
  BY <1>2 DEF TodoApart
<1>6. \A q \in Syncs : at[q] = "idle" => late'[q] = late[q]
  BY <1>1 DEF Remove, Notice
<1> QED
  BY <1>2, <1>3, <1>4, <1>5, <1>6, WorkKeepsEcho

LEMMA SelectMovedKeepsEcho ==
  ASSUME EchoInv, LinkInv', NEW p \in Syncs, SelectMoved(p) PROVE EchoInv'
<1>0. LinkInv /\ Typed /\ PendingLinks /\ ItemsOK
  BY DEF EchoInv, LinkInv
<1>1. /\ Work(p, "stones") /\ phase = "stones" /\ phase' = "moved"
      /\ draft' = [e \in Events |-> IF e \in todo' THEN Seen(e) ELSE draft[e]]
      /\ UNCHANGED <<provider, rows, ev, list, locked, born, doomed, sent>>
      /\ UNCHANGED <<providerVars, changeVars, unsettled>>
  BY DEF SelectMoved, Work, dbVars
<1>2. sent = {} /\ locked \subseteq Events
  BY <1>0, <1>1 DEF PendingLinks, Typed, TransactionOK
<1>3. \A e \in locked : draft'[e] = draft[e]
  BY <1>1, <1>2 DEF Seen
<1>4. CopiesStay /\ ItemsOK'
  BY <1>0, <1>1, NothingStays, SameItems
<1>5. PendingKeep
  <2>1. SeenRows' = SeenRows
    BY <1>1 DEF SeenRows
  <2>2. ASSUME NEW e
        PROVE  /\ PendingLink(e)' = PendingLink(e) /\ PendingHash(e)' = PendingHash(e)
               /\ PendingExdates(e)' = PendingExdates(e)
    BY <1>1, <1>2, <1>3 DEF PendingLink, PendingHash, PendingExdates
  <2>3. BeingSent = {} /\ Written' \subseteq Written
    BY <1>1, <1>2, <1>3 DEF BeingSent, Written
  <2> QED
    BY <2>1, <2>2, <2>3 DEF PendingKeep
<1>6. TodoApart'
  BY <1>1 DEF TodoApart
<1>7. UNCHANGED late
  BY <1>1 DEF changeVars
<1> QED
  BY <1>1, <1>4, <1>5, <1>6, <1>7, WorkKeepsEcho

LEMMA DropMovedKeepsEcho ==
  ASSUME EchoInv, LinkInv', NEW p \in Syncs, DropMoved(p) PROVE EchoInv'
<1>0. LinkInv /\ Typed /\ PendingLinks /\ ItemsOK
  BY DEF EchoInv, LinkInv
<1>1. PICK e \in todo : /\ Remove(draft[e].remote)
                        /\ draft' = [draft EXCEPT ![e] = Unlinked(draft[e])]
                        /\ sent' = sent \cup {e} /\ todo' = todo \ {e}
  BY DEF DropMoved
<1>2. /\ Work(p, "moved") /\ phase = "moved" /\ phase' = "moved"
      /\ UNCHANGED <<provider, rows, ev, list, locked, born, doomed, unsettled>>
  BY DEF DropMoved, Work, dbVars
<1>3. e \in Events /\ sent \subseteq Events /\ locked \subseteq Events
  BY <1>0, <1>1, <1>2 DEF Typed, TransactionOK
<1>4. draft'[e].remote = NoRemote /\ \A d \in Events \ {e} : draft'[d] = draft[d]
  BY <1>0, <1>1, <1>3 DEF Typed, TransactionOK, Unlinked, Row
<1>5. CopiesStay /\ ItemsOK'
  BY <1>0, <1>1, <1>2, RemoveStays, RemoveKeepsItems
<1>6. PendingKeep
  <2>1. SeenRows' = SeenRows /\ SeenRows \subseteq Events
    BY <1>0, <1>2, SeenRowsAreEvents DEF SeenRows
  <2>2. PendingLink(e)' = NoRemote
    BY <1>1, <1>4 DEF PendingLink
  <2>3. ASSUME NEW d \in SeenRows \ {e}
        PROVE  /\ PendingLink(d)' = PendingLink(d) /\ PendingHash(d)' = PendingHash(d)
               /\ PendingExdates(d)' = PendingExdates(d)
    BY <1>1, <1>2, <1>4, <2>1 DEF PendingLink, PendingHash, PendingExdates
  <2>4. BeingSent \subseteq {NoRemote}
    BY <1>0, <1>2 DEF BeingSent, PendingLinks
  <2>5. Written' \subseteq Written \cup {NoRemote}
    BY <1>1, <1>2, <1>3, <1>4 DEF Written
  <2> QED
    BY <2>1, <2>2, <2>3, <2>4, <2>5 DEF PendingKeep
<1>7. TodoApart'
  BY <1>2 DEF TodoApart
<1>8. \A q \in Syncs : at[q] = "idle" => late'[q] = late[q]
  BY <1>1 DEF Remove, Notice
<1> QED
  BY <1>2, <1>5, <1>6, <1>7, <1>8, WorkKeepsEcho

LEMMA SelectCandidatesKeepsEcho ==
  ASSUME EchoInv, LinkInv', NEW p \in Syncs, SelectCandidates(p) PROVE EchoInv'
<1>0. /\ LinkInv /\ Typed /\ WriteSets /\ PendingLinks /\ PendingLinks' /\ ItemsOK
  BY DEF EchoInv, LinkInv
<1> DEFINE seen(e) == IF e \in locked THEN draft[e]
                      ELSE IF e \in sent THEN Unlinked(ev[e]) ELSE ev[e]
<1>1. /\ Work(p, "moved") /\ phase = "moved" /\ phase' = "push"
      /\ locked' = locked \cup (sent \cap rows) /\ sent' = {}
      /\ todo' = {e \in SeenRows : Candidate(seen(e))}
      /\ draft' = [e \in Events |->
                      IF e \in SeenRows \cap (locked' \cup todo') THEN seen(e) ELSE BlankRow]
      /\ UNCHANGED <<provider, rows, ev, list, born, doomed, providerVars, changeVars, unsettled>>
  BY DEF SelectCandidates, Work, dbVars
<1>2. /\ SeenRows' = SeenRows /\ SeenRows \subseteq Events
      /\ \A e \in SeenRows : PendingLink(e)' = PendingLink(e)
  BY <1>0, CandidatesLinks, SeenRowsAreEvents
<1>3. \A e \in sent : draft[e].remote = NoRemote
  BY <1>0, <1>1 DEF PendingLinks
<1>4. \A e \in sent \cap rows : e \in Events /\ Unlinked(ev[e]).remote = NoRemote
  BY <1>0 DEF Typed, DatabaseOK, Row, Unlinked
<1>5. \A e \in locked' : draft'[e].remote \in Written \cup {NoRemote}
  <2> SUFFICES ASSUME NEW e \in locked' PROVE draft'[e].remote \in Written \cup {NoRemote}
    OBVIOUS
  <2>1. e \in Events
    BY <1>0, <1>1, <1>4 DEF Typed, TransactionOK
  <2>2. CASE e \in SeenRows
    BY <1>1, <1>4, <2>1, <2>2 DEF Written
  <2>3. CASE e \notin SeenRows
    BY <1>1, <2>1, <2>3 DEF BlankRow
  <2> QED
    BY <2>2, <2>3
<1>6. PendingKeep
  <2>1. ASSUME NEW e \in SeenRows, PendingLink(e) # NoRemote
        PROVE  PendingHash(e)' = PendingHash(e) /\ PendingExdates(e)' = PendingExdates(e)
    <3>1. e \notin sent
      BY <1>3, <2>1 DEF PendingLink
    <3>2. CASE e \in locked
      <4>1. draft'[e] = draft[e] /\ e \in locked'
        BY <1>1, <1>2, <3>2
      <4> QED
        BY <3>2, <4>1 DEF PendingHash, PendingExdates
    <3>3. CASE e \notin locked
      BY <1>1, <3>1, <3>3 DEF PendingHash, PendingExdates
    <3> QED
      BY <3>2, <3>3
  <2>2. BeingSent \subseteq {NoRemote} /\ Written' \subseteq Written \cup {NoRemote}
    BY <1>1, <1>3, <1>5 DEF BeingSent, Written
  <2> QED
    BY <1>2, <2>1, <2>2 DEF PendingKeep
<1>7. TodoApart'
  <2> SUFFICES ASSUME NEW e \in todo', NEW d \in SeenRows', PendingLink(d)' # NoRemote,
                      PendingLink(d)' = draft'[e].remote
               PROVE  d = e
    BY DEF TodoApart
  <2>1. e \in SeenRows
    BY <1>1
  <2>2. PendingLink(e)' = draft'[e].remote
    <3>1. CASE e \in locked'
      BY <3>1 DEF PendingLink
    <3>2. CASE e \notin locked'
      <4>1. e \in rows' \ locked'
        BY <1>0, <1>1, <2>1, <3>2 DEF SeenRows, WriteSets
      <4> QED
        BY <1>0, <1>1, <3>2, <4>1 DEF PendingLink, PendingLinks
    <3> QED
      BY <3>1, <3>2
  <2> QED
    BY <1>0, <1>2, <2>1, <2>2 DEF PendingLinks
<1>8. CopiesStay /\ ItemsOK' /\ UNCHANGED late
  BY <1>0, <1>1, NothingStays, SameItems DEF changeVars
<1> HIDE DEF seen
<1> QED
  BY <1>1, <1>6, <1>7, <1>8, WorkKeepsEcho

LEMMA RefuseKeepsEcho == ASSUME EchoInv, LinkInv', NEW p \in Syncs, Refuse(p) PROVE EchoInv'
<1>0. LinkInv /\ ItemsOK
  BY DEF EchoInv
<1>1. PICK ph : Work(p, ph)
  BY DEF Refuse
<1>2. /\ phase' = "failed"
      /\ UNCHANGED <<provider, rows, ev, list, draft, locked, born, doomed, sent, unsettled>>
      /\ UNCHANGED <<providerVars, changeVars>>
  BY DEF Refuse, Work, dbVars
<1>3. CopiesStay /\ ItemsOK' /\ UNCHANGED late
  BY <1>0, <1>2, NothingStays, SameItems DEF changeVars
<1>4. PendingKeep
  BY <1>2, SameDrafts
<1>5. TodoApart'
  BY <1>2 DEF TodoApart
<1> QED
  BY <1>1, <1>2, <1>3, <1>4, <1>5, WorkKeepsEcho

(* What was sent without an answer is unsettled.                           *)
LEMMA LoseAnswerKeepsEcho ==
  ASSUME EchoInv, LinkInv', NEW p \in Syncs, LoseAnswer(p) PROVE EchoInv'
<1>0. LinkInv /\ Typed /\ ItemsOK
  BY DEF EchoInv, LinkInv
<1>1. ASSUME NEW ph, Work(p, ph), CopiesStay, ItemsOK',
             \A q \in Syncs : at[q] = "idle" => late'[q] = late[q]
      PROVE  EchoInv'
  <2>1. phase' = "failed" /\ UNCHANGED <<rows, ev, draft, locked, born, doomed, sent>>
    BY <1>1 DEF LoseAnswer, Work, dbVars
  <2> QED
    BY <1>1, <2>1, SameDrafts, WorkKeepsEcho DEF TodoApart
<1>2. ASSUME NEW ph, Work(p, ph), NEW r, Remove(r), UNCHANGED unsettled PROVE EchoInv'
  <2>1. CopiesStay /\ ItemsOK'
    BY <1>0, <1>2, RemoveStays, RemoveKeepsItems DEF Work, dbVars
  <2>2. \A q \in Syncs : at[q] = "idle" => late'[q] = late[q]
    BY <1>2 DEF Remove, Notice
  <2> QED
    BY <1>1, <1>2, <2>1, <2>2
<1>3. ASSUME NEW ph, Work(p, ph), NEW e \in todo, NEW r \in Remotes, Sends(e, r),
             unsettled' = unsettled \cup {r}
      PROVE  EchoInv'
  <2>1. Put(r, Sent(draft[e].fields)) /\ (r \notin issued \/ r \in live)
    BY <1>3 DEF Sends
  <2>2. CopiesStay /\ ItemsOK'
    BY <1>0, <1>3, <2>1, SentIsMine, PutStays, PutKeepsItems DEF Work, dbVars
  <2>3. \A q \in Syncs : at[q] = "idle" => late'[q] = late[q]
    BY <2>1 DEF Put, Notice
  <2> QED
    BY <1>1, <1>3, <2>2, <2>3
<1> QED
  BY <1>2, <1>3 DEF LoseAnswer

(* The item that was sent comes back with the fingerprint it went with, or *)
(* is unsettled.                                                           *)
LEMMA PushEventKeepsEcho ==
  ASSUME EchoInv, LinkInv', NEW p \in Syncs, PushEvent(p) PROVE EchoInv'
<1>0. /\ LinkInv /\ Typed /\ WriteSets /\ PendingLinks /\ LinksAreIssued /\ ItemsOK /\ SyncsInPhase
      /\ RowEcho /\ ListEcho /\ WorkEcho /\ TodoApart /\ WrittenNoted /\ provider \in Providers
  BY DEF EchoInv, LinkInv, Transacts, Echoes, Typed, DatabaseOK
<1>1. PICK e \in todo, r \in Remotes :
         /\ Sends(e, r)
         /\ draft' = [draft EXCEPT ![e].remote = r, ![e].hash = Digest(draft[e].fields)]
         /\ sent' = sent \cup {e} /\ todo' = todo \ {e}
         /\ unsettled' = IF Settles(p, draft[e].fields) THEN unsettled \ {r}
                                                        ELSE unsettled \cup {r}
  BY DEF PushEvent
<1>2. /\ Work(p, "push") /\ phase = "push" /\ phase' = "push" /\ at[p] = "working"
      /\ UNCHANGED <<provider, rows, ev, at, list, locked, born, doomed>>
  BY DEF PushEvent, Work, dbVars
<1>3. Put(r, Sent(draft[e].fields)) /\ (r \notin issued \/ (r \in live /\ r = draft[e].remote))
  BY <1>1 DEF Sends
<1>4. e \in Events /\ e \notin sent /\ r # NoRemote /\ draft[e].fields \in Fields
      /\ sent \subseteq Events /\ locked \subseteq Events
  BY <1>0, <1>1, <1>2, SyncAssumption DEF PendingLinks, Typed, TransactionOK, Row
<1>5. /\ draft'[e].remote = r /\ draft'[e].hash = Digest(draft[e].fields)
      /\ draft'[e].fields = draft[e].fields
      /\ \A d \in Events \ {e} : draft'[d] = draft[d]
  BY <1>0, <1>1, <1>4 DEF Typed, TransactionOK, Row
<1>6. SeenRows' = SeenRows /\ SeenRows \subseteq Events
  BY <1>0, <1>2, SeenRowsAreEvents DEF SeenRows
<1>7. PendingLink(e)' = r /\ PendingHash(e)' = Digest(draft[e].fields)
  BY <1>1, <1>5 DEF PendingLink, PendingHash
<1>8. ASSUME NEW d \in SeenRows \ {e}
      PROVE  /\ PendingLink(d)' = PendingLink(d) /\ PendingHash(d)' = PendingHash(d)
             /\ PendingExdates(d)' = PendingExdates(d) /\ PendingLink(d) # r
  <2>1. /\ PendingLink(d)' = PendingLink(d) /\ PendingHash(d)' = PendingHash(d)
        /\ PendingExdates(d)' = PendingExdates(d)
    <3>1. d \in Events \ {e} /\ draft'[d] = draft[d] /\ sent' = sent \cup {e}
      BY <1>1, <1>5, <1>6
    <3> QED
      BY <1>2, <3>1 DEF PendingLink, PendingHash, PendingExdates
  <2>2. PendingLink(d) # r
    <3>1. CASE r \notin issued
      <4>1. d \in rows \cup locked
        BY <1>0 DEF SeenRows, WriteSets
      <4> QED
        BY <1>0, <1>4, <1>6, <3>1, <4>1 DEF PendingLink, LinksAreIssued
    <3>2. CASE r = draft[e].remote
      BY <1>0, <1>2, <1>4, <3>2 DEF TodoApart
    <3> QED
      BY <1>3, <3>1, <3>2
  <2> QED
    BY <2>1, <2>2
<1>9. /\ live' = live \cup {r} /\ gaps' = gaps /\ issued' = issued \cup {r}
      /\ item' = [item EXCEPT ![r] = Sent(draft[e].fields)]
      /\ since' \subseteq since \cup {r}
      /\ \A q \in Syncs : /\ at[q] = "idle" => late'[q] = late[q]
                          /\ late'[q] \subseteq late[q] \cup {r}
  BY <1>0, <1>3 DEF Put, Notice, Typed, SyncsOK
<1>10. item'[r] = Sent(draft[e].fields) /\ \A x \in Remotes \ {r} : item'[x] = item[x]
  BY <1>0, <1>9 DEF Typed, ProviderOK
<1>11. unsettled \subseteq unsettled' \cup {r}
  BY <1>1
<1>12. \A i : (Digest(Received(i)))' = Digest(Received(i))
  BY <1>2 DEF Digest, Received, Exdates
<1>13. ASSUME NEW x, x # r, x \in live', item'[x].mine, x \notin unsettled'
       PROVE  /\ Copied(x) /\ x \in Remotes /\ item'[x] = item[x]
              /\ x \in since' => x \in since
              /\ \A q \in Syncs : x \in late'[q] => x \in late[q]
  <2>1. x \in live /\ x \in Remotes
    BY <1>0, <1>9, <1>13 DEF Typed, ProviderOK
  <2> QED
    BY <1>9, <1>10, <1>11, <1>13, <2>1 DEF Copied
<1>14. WorkEcho'
  <2> SUFFICES ASSUME NEW q \in Syncs, at[q] = "working", NEW d \in SeenRows,
                      PendingLink(d)' \in live', item'[PendingLink(d)'].mine,
                      PendingLink(d)' \notin unsettled'
               PROVE  \/ PendingHash(d)' = Digest(Received(item'[PendingLink(d)']))
                      \/ /\ PendingLink(d)' \notin late'[q]
                         /\ \E o \in PendingExdates(d)' : <<PendingLink(d)', o>> \in gaps'
    BY <1>2, <1>6, <1>12 DEF WorkEcho, Copied, Told, HeldApart
  <2>1. CASE d = e
    <3>1. Expressible(draft[e].fields)
      BY <1>1, <1>7, <2>1 DEF Settles
    <3> QED
      BY <1>0, <1>4, <1>7, <1>10, <2>1, <3>1, WhatFitsComesBack
  <2>2. CASE d # e
    <3>1. /\ PendingLink(d)' = PendingLink(d) /\ PendingHash(d)' = PendingHash(d)
          /\ PendingExdates(d)' = PendingExdates(d) /\ PendingLink(d) # r
      BY <1>8, <2>2
    <3>2. /\ Copied(PendingLink(d)) /\ item'[PendingLink(d)] = item[PendingLink(d)]
          /\ PendingLink(d) \in late'[q] => PendingLink(d) \in late[q]
      BY <1>13, <3>1
    <3>3. \/ Told(PendingLink(d), PendingHash(d))
          \/ PendingLink(d) \notin late[q] /\ HeldApart(PendingLink(d), PendingExdates(d))
      BY <1>0, <3>2 DEF WorkEcho
    <3> QED
      BY <1>9, <3>1, <3>2, <3>3 DEF Told, HeldApart
  <2> QED
    BY <2>1, <2>2
<1>15. BeingSent' = BeingSent \cup {r}
  BY <1>1, <1>4, <1>5 DEF BeingSent
<1>16. RowEcho'
  <2> SUFFICES ASSUME NEW d \in rows, ev[d].remote \in live', item'[ev[d].remote].mine,
                      ev[d].remote \notin unsettled', ev[d].remote \notin BeingSent \cup {r}
               PROVE  \/ ev[d].hash = Digest(Received(item'[ev[d].remote]))
                      \/ /\ ev[d].remote \notin since'
                         /\ \E o \in ev[d].fields.exdates : <<ev[d].remote, o>> \in gaps'
    BY <1>2, <1>12, <1>15 DEF RowEcho, Copied, Told, HeldApart
  <2>1. /\ Copied(ev[d].remote) /\ item'[ev[d].remote] = item[ev[d].remote]
        /\ ev[d].remote \in since' => ev[d].remote \in since
    BY <1>13
  <2>2. \/ Told(ev[d].remote, ev[d].hash)
        \/ ev[d].remote \notin since /\ HeldApart(ev[d].remote, ev[d].fields.exdates)
    BY <1>0, <2>1 DEF RowEcho
  <2> QED
    BY <1>9, <2>1, <2>2 DEF Told, HeldApart
<1>17. ASSUME NEW q \in Syncs, at[q] = "listed" PROVE unsettled' = unsettled \cup {r}
  BY <1>1, <1>2, <1>17 DEF Settles, Overlap
<1>18. ListEcho'
  <2> SUFFICES ASSUME NEW q \in Syncs, at[q] = "listed"
               PROVE  /\ \A x \in Remotes : x \in live' /\ item'[x].mine /\ x \notin unsettled' =>
                            x \notin late'[q] /\ (x \in list[q].live => list[q].item[x] = item'[x])
                      /\ \A g \in list[q].gaps :
                            g[1] \in issued' /\ (g[1] \in live' => g \in gaps')
                      /\ \A d \in rows :
                            /\ ev[d].remote \in list[q].live
                            /\ list[q].item[ev[d].remote].mine /\ ev[d].remote \notin unsettled'
                            => \/ ev[d].hash = Digest(Received(list[q].item[ev[d].remote]))
                               \/ \E o \in ev[d].fields.exdates : <<ev[d].remote, o>> \in list[q].gaps
    BY <1>2, <1>12 DEF ListEcho, Copied
  <2>1. unsettled' = unsettled \cup {r}
    BY <1>17
  <2>2. ASSUME NEW x \in Remotes, x \in live', item'[x].mine, x \notin unsettled'
        PROVE  x \notin late'[q] /\ (x \in list[q].live => list[q].item[x] = item'[x])
    <3>1. Copied(x) /\ item'[x] = item[x] /\ (x \in late'[q] => x \in late[q])
      BY <1>13, <2>1, <2>2
    <3> QED
      BY <1>0, <3>1 DEF ListEcho
  <2>3. ASSUME NEW g \in list[q].gaps PROVE g[1] \in issued' /\ (g[1] \in live' => g \in gaps')
    BY <1>0, <1>3, <1>9 DEF ListEcho
  <2>4. \A d \in rows :
           /\ ev[d].remote \in list[q].live
           /\ list[q].item[ev[d].remote].mine /\ ev[d].remote \notin unsettled'
           => \/ ev[d].hash = Digest(Received(list[q].item[ev[d].remote]))
              \/ \E o \in ev[d].fields.exdates : <<ev[d].remote, o>> \in list[q].gaps
    BY <1>0, <2>1 DEF ListEcho
  <2> QED
    BY <2>2, <2>3, <2>4
<1>19. WrittenNoted'
  <2>1. Written' \subseteq Written \cup {r}
    BY <1>1, <1>2, <1>4, <1>5 DEF Written
  <2> QED
    BY <1>0, <1>2, <1>17, <2>1 DEF WrittenNoted
<1>20. TodoApart'
  <2> SUFFICES ASSUME NEW c \in todo', NEW d \in SeenRows, PendingLink(d)' # NoRemote,
                      PendingLink(d)' = draft'[c].remote
               PROVE  d = c
    BY <1>6 DEF TodoApart
  <2>1. c \in todo /\ c # e /\ c \in Events
    BY <1>0, <1>1, <1>2 DEF Typed, TransactionOK
  <2>2. draft'[c] = draft[c] /\ draft[c].remote \in issued \cup {NoRemote}
    BY <1>0, <1>5, <2>1 DEF LinksAreIssued
  <2>3. CASE d # e
    BY <1>0, <1>2, <1>8, <2>1, <2>2, <2>3 DEF TodoApart
  <2>4. CASE d = e
    <3>1. r = draft[c].remote
      BY <1>7, <2>2, <2>4
    <3>2. r = draft[e].remote
      BY <1>3, <1>4, <2>2, <3>1
    <3>3. PendingLink(e) = r
      <4>1. e \in locked \/ e \in rows \ locked
        BY <1>0, <2>4 DEF SeenRows, WriteSets
      <4>2. e \in rows \ locked => draft[e].remote = ev[e].remote
        BY <1>0, <1>1, <1>2 DEF PendingLinks
      <4> QED
        BY <1>4, <3>2, <4>1, <4>2 DEF PendingLink
    <3> QED
      BY <1>0, <1>2, <1>4, <2>1, <2>4, <3>1, <3>3 DEF TodoApart
  <2> QED
    BY <2>3, <2>4
<1>21. ItemsOK'
  BY <1>0, <1>2, <1>3, SentIsMine, PutKeepsItems
<1>22. SyncsInPhase'
  BY <1>0, <1>2, <1>9 DEF SyncsInPhase
<1> QED
  BY <1>14, <1>16, <1>18, <1>19, <1>20, <1>21, <1>22 DEF EchoInv, Echoes, Transacts

(* A list shows what the provider has; Google's list since a token leaves  *)
(* out only what has not changed since.                                    *)
LEMMA FetchKeepsEcho ==
  ASSUME EchoInv, NEW p \in Syncs, NEW full \in BOOLEAN, Fetch(p, full), LinkInv' PROVE EchoInv'
<1> DEFINE L == Listing(full)
<1>0. /\ Typed /\ LinksAreIssued /\ ItemsOK /\ SyncsInPhase /\ RowEcho /\ ListEcho /\ WorkEcho
      /\ TodoApart
  BY DEF EchoInv, LinkInv, Transacts, Echoes
<1>1. /\ UNCHANGED <<provider, rows, ev, issued, live, item, gaps, since, late>>
      /\ UNCHANGED <<phase, todo, draft, locked, born, doomed, sent>>
      /\ at[p] = "idle" /\ at' = [at EXCEPT ![p] = "listed"] /\ list' = [list EXCEPT ![p] = L]
      /\ unsettled' = unsettled \cup Written
  BY DEF Fetch, dbVars, providerVars, changeVars, txVars
<1>2. /\ at'[p] = "listed" /\ list'[p] = L
      /\ \A q \in Syncs \ {p} : at'[q] = at[q] /\ list'[q] = list[q]
  BY <1>0, <1>1 DEF Typed, SyncsOK
<1>3. /\ L.live \subseteq live /\ L.gaps \subseteq gaps
      /\ \A r \in L.live : r \in Remotes /\ L.item[r] = item[r]
      /\ L.gaps = gaps \/ L.live \subseteq since
  BY <1>0 DEF Listing, WholeList, ListSince, ListOf, Typed, ProviderOK
<1> HIDE DEF L
<1>4. late[p] = {}
  BY <1>0, <1>1 DEF SyncsInPhase
<1>5. ItemsOK'
  BY <1>0, <1>1, <1>2, <1>3 DEF ItemsOK, Complete
<1>6. SyncsInPhase'
  BY <1>0, <1>1, <1>2 DEF SyncsInPhase
<1>7. /\ SeenRows' = SeenRows /\ BeingSent' = BeingSent /\ Written' = Written
      /\ BeingSent \subseteq Written
  BY <1>1 DEF SeenRows, BeingSent, Written
<1>8. \A e : /\ PendingLink(e)' = PendingLink(e) /\ PendingHash(e)' = PendingHash(e)
             /\ PendingExdates(e)' = PendingExdates(e)
  BY <1>1 DEF PendingLink, PendingHash, PendingExdates
<1>9. TodoApart' /\ WrittenNoted'
  BY <1>0, <1>1, <1>7, <1>8 DEF TodoApart, WrittenNoted
<1>10. /\ \A r, h : Told(r, h)' <=> Told(r, h)
       /\ \A r, x : HeldApart(r, x)' <=> HeldApart(r, x)
       /\ \A i : (Digest(Received(i)))' = Digest(Received(i))
       /\ \A r : Copied(r)' => Copied(r)
  BY <1>1 DEF Told, HeldApart, Digest, Received, Exdates, Copied
<1>11. RowEcho'
  BY <1>0, <1>1, <1>7, <1>10 DEF RowEcho
<1>12. WorkEcho'
  <2> SUFFICES ASSUME NEW q \in Syncs, at'[q] = "working", NEW e \in SeenRows,
                      Copied(PendingLink(e))
               PROVE  \/ Told(PendingLink(e), PendingHash(e))
                      \/ PendingLink(e) \notin late[q] /\ HeldApart(PendingLink(e), PendingExdates(e))
    BY <1>1, <1>7, <1>8, <1>10 DEF WorkEcho
  <2> QED
    BY <1>0, <1>2 DEF WorkEcho
<1>13. ListEcho'
  <2> SUFFICES ASSUME NEW q \in Syncs, at'[q] = "listed"
               PROVE  /\ \A r \in Remotes : Copied(r) =>
                            r \notin late[q] /\ (r \in list'[q].live => list'[q].item[r] = item[r])
                      /\ \A g \in list'[q].gaps : g[1] \in issued /\ (g[1] \in live => g \in gaps)
                      /\ \A e \in rows :
                            /\ ev[e].remote \in list'[q].live /\ list'[q].item[ev[e].remote].mine
                            /\ ev[e].remote \notin unsettled \cup Written
                            => \/ ev[e].hash = Digest(Received(list'[q].item[ev[e].remote]))
                               \/ \E o \in ev[e].fields.exdates : <<ev[e].remote, o>> \in list'[q].gaps
    <3>5. ASSUME NEW q \in Syncs, at'[q] = "listed"
          PROVE  /\ \A r \in Remotes : Copied(r)' =>
                       r \notin late'[q] /\ (r \in list'[q].live => list'[q].item[r] = item'[r])
                 /\ \A g \in list'[q].gaps : g[1] \in issued' /\ (g[1] \in live' => g \in gaps')
                 /\ \A e \in rows' :
                       /\ ev'[e].remote \in list'[q].live /\ list'[q].item[ev'[e].remote].mine
                       /\ ev'[e].remote \notin unsettled'
                       => \/ ev'[e].hash = Digest(Received(list'[q].item[ev'[e].remote]))
                          \/ \E o \in ev'[e].fields.exdates : <<ev'[e].remote, o>> \in list'[q].gaps
      BY <1>1, <1>10, <3>5
    <3> QED
      BY <1>10, <3>5 DEF ListEcho
  <2>1. CASE q # p
    <3>1. at[q] = "listed" /\ list'[q] = list[q]
      BY <1>2, <2>1
    <3> QED
      BY <1>0, <3>1 DEF ListEcho
  <2>2. CASE q = p
    <3>1. \A r \in Remotes : r \notin late[p] /\ (r \in L.live => L.item[r] = item[r])
      BY <1>3, <1>4
    <3>2. \A g \in L.gaps : g[1] \in issued /\ g \in gaps
      BY <1>0, <1>3 DEF ItemsOK
    <3>3. ASSUME NEW e \in rows, ev[e].remote \in L.live, L.item[ev[e].remote].mine,
                 ev[e].remote \notin unsettled \cup Written
          PROVE  \/ ev[e].hash = Digest(Received(L.item[ev[e].remote]))
                 \/ \E o \in ev[e].fields.exdates : <<ev[e].remote, o>> \in L.gaps
      <4>1. /\ L.item[ev[e].remote] = item[ev[e].remote] /\ Copied(ev[e].remote)
            /\ ev[e].remote \notin BeingSent
        BY <1>3, <1>7, <3>3 DEF Copied
      <4>2. \/ Told(ev[e].remote, ev[e].hash)
            \/ ev[e].remote \notin since /\ HeldApart(ev[e].remote, ev[e].fields.exdates)
        BY <1>0, <4>1 DEF RowEcho
      <4> QED
        BY <1>3, <3>3, <4>1, <4>2 DEF Told, HeldApart
    <3> QED
      BY <1>2, <2>2, <3>1, <3>2, <3>3
  <2> QED
    BY <2>1, <2>2
<1> QED
  BY <1>5, <1>6, <1>9, <1>11, <1>12, <1>13 DEF EchoInv, Transacts, Echoes

(* What a row will have after a pull is what the pull makes of the row, or *)
(* of a new one.                                                           *)
LEMMA PulledPending ==
  ASSUME LinkInv, NEW p \in Syncs, Pull(p), NEW e \in SeenRows', PendingLink(e)' # NoRemote
  PROVE  \E row \in Row :
            /\ PendingLink(e)' = row.remote
            /\ PendingHash(e)' = Pulled(list[p], row).hash
            /\ PendingExdates(e)' = Pulled(list[p], row).fields.exdates
            /\ row.remote \in list[p].live \/ (e \in rows /\ row = ev[e])
<1> DEFINE L == list[p]
<1>0. Typed /\ WriteSets /\ rows \subseteq Events /\ L \in Lists
  BY DEF LinkInv, Typed, DatabaseOK, SyncsOK
<1>1. /\ phase = "none" /\ doomed' = Forgotten(L)
      /\ locked' = born' \cup doomed' \cup Touched(L) /\ UNCHANGED <<rows, ev, sent>>
  BY DEF Pull, dbVars
<1>2. sent' = {}
  BY <1>0, <1>1 DEF WriteSets
<1>3. CASE e \in born'
  <2>1. PICK r \in Arrivals(L) : draft'[e] = Pulled(L, NewRow(r))
    BY <1>0, <1>3, PullWrites
  <2>2. r \in L.live /\ r \in Remotes
    BY <1>0 DEF Arrivals, Lists
  <2>3. NewRow(r) \in Row /\ NewRow(r).remote = r
    BY <2>2, NewRowIsRow
  <2>4. e \in locked'
    BY <1>1, <1>3
  <2>5. /\ PendingLink(e)' = r /\ PendingHash(e)' = Pulled(L, NewRow(r)).hash
        /\ PendingExdates(e)' = Pulled(L, NewRow(r)).fields.exdates
    BY <1>0, <2>1, <2>3, <2>4, PulledKeepsLink DEF PendingLink, PendingHash, PendingExdates
  <2> QED
    BY <2>2, <2>3, <2>5
<1>4. CASE e \notin born'
  <2>1. e \in rows \ Forgotten(L) /\ ev[e] \in Row
    BY <1>0, <1>1, <1>4 DEF SeenRows, Typed, DatabaseOK
  <2>2. CASE e \in Touched(L)
    <3>1. draft'[e] = Pulled(L, ev[e]) /\ e \in locked'
      BY <1>0, <1>1, <2>2, PullWrites
    <3>2. /\ PendingLink(e)' = ev[e].remote /\ PendingHash(e)' = Pulled(L, ev[e]).hash
          /\ PendingExdates(e)' = Pulled(L, ev[e]).fields.exdates
      BY <1>0, <2>1, <3>1, PulledKeepsLink DEF PendingLink, PendingHash, PendingExdates
    <3> QED
      BY <2>1, <3>2
  <2>3. CASE e \notin Touched(L)
    <3>1. e \notin locked' \cup sent'
      BY <1>1, <1>2, <1>4, <2>1, <2>3
    <3>2. /\ PendingLink(e)' = ev[e].remote /\ PendingHash(e)' = ev[e].hash
          /\ PendingExdates(e)' = ev[e].fields.exdates
      BY <1>1, <3>1 DEF PendingLink, PendingHash, PendingExdates
    <3>3. Pulled(L, ev[e]) = ev[e]
      BY <2>1, <2>3, <3>2 DEF Touched, IsLinked
    <3> QED
      BY <2>1, <3>2, <3>3
  <2> QED
    BY <2>2, <2>3
<1> QED
  BY <1>3, <1>4

LEMMA PullKeepsEcho ==
  ASSUME EchoInv, NEW p \in Syncs, Pull(p), LinkInv' PROVE EchoInv'
<1> DEFINE L == list[p]
<1>0. /\ LinkInv /\ Typed /\ WriteSets /\ ItemsOK /\ SyncsInPhase /\ RowEcho /\ ListEcho
      /\ rows \subseteq Events /\ L \in Lists
  BY DEF EchoInv, LinkInv, Transacts, Echoes, Typed, DatabaseOK, SyncsOK
<1>1. /\ phase = "none" /\ phase' = "stones" /\ at[p] = "listed"
      /\ at' = [at EXCEPT ![p] = "working"] /\ list' = [list EXCEPT ![p] = NoList]
      /\ UNCHANGED <<provider, rows, ev, issued, live, item, gaps, since, late, sent>>
      /\ unsettled' = IF Overlap(p) THEN unsettled \cup {draft'[e].remote : e \in locked'}
                      ELSE unsettled
  BY DEF Pull, dbVars, providerVars, changeVars
<1>2. sent = {} /\ sent' = {} /\ BeingSent = {} /\ unsettled \subseteq unsettled'
  BY <1>0, <1>1 DEF WriteSets, BeingSent
<1>3. /\ at'[p] = "working" /\ list'[p] = NoList
      /\ \A q \in Syncs \ {p} : at'[q] = at[q] /\ list'[q] = list[q]
      /\ \A q \in Syncs : at[q] # "working"
  BY <1>0, <1>1 DEF Typed, SyncsOK, SyncsInPhase
<1>4. ItemsOK'
  <2>1. NoList.gaps = {}
    BY DEF NoList
  <2> QED
    BY <1>0, <1>1, <1>3, <2>1 DEF ItemsOK, Complete
<1>5. /\ \A r, h : Told(r, h)' <=> Told(r, h)
      /\ \A r, x : HeldApart(r, x)' <=> HeldApart(r, x)
      /\ \A i : (Digest(Received(i)))' = Digest(Received(i))
      /\ \A r : Copied(r)' => Copied(r)
  BY <1>1, <1>2 DEF Told, HeldApart, Digest, Received, Exdates, Copied
<1>6. SyncsInPhase' /\ TodoApart'
  BY <1>0, <1>1, <1>3 DEF SyncsInPhase, TodoApart
<1>7. WrittenNoted'
  <2>1. Written' = {draft'[e].remote : e \in locked'}
    BY <1>2 DEF Written
  <2> QED
    BY <1>1, <1>3, <2>1 DEF WrittenNoted, Overlap
<1>8. RowEcho'
  BY <1>0, <1>1, <1>2, <1>5 DEF RowEcho
<1>9. ListEcho'
  <2> SUFFICES ASSUME NEW q \in Syncs, at'[q] = "listed"
               PROVE  /\ \A r \in Remotes : Copied(r) =>
                            r \notin late[q] /\ (r \in list[q].live => list[q].item[r] = item[r])
                      /\ \A g \in list[q].gaps : g[1] \in issued /\ (g[1] \in live => g \in gaps)
                      /\ \A e \in rows :
                            /\ ev[e].remote \in list[q].live /\ list[q].item[ev[e].remote].mine
                            /\ ev[e].remote \notin unsettled
                            => \/ ev[e].hash = Digest(Received(list[q].item[ev[e].remote]))
                               \/ \E o \in ev[e].fields.exdates : <<ev[e].remote, o>> \in list[q].gaps
    <3>1. \A q \in Syncs : at'[q] = "listed" => list'[q] = list[q]
      BY <1>3
    <3> QED
      BY <1>1, <1>2, <1>5, <3>1 DEF ListEcho
  <2> QED
    BY <1>0, <1>3 DEF ListEcho
<1>10. ASSUME NEW g \in L.gaps, g[1] \in live PROVE g \in gaps
  BY <1>0, <1>1, <1>10 DEF ListEcho
<1>11. WorkEcho'
  <2> SUFFICES ASSUME NEW e \in SeenRows', Copied(PendingLink(e)')
               PROVE  \/ PendingHash(e)' = Digest(Received(item[PendingLink(e)']))
                      \/ /\ PendingLink(e)' \notin late[p]
                         /\ \E o \in PendingExdates(e)' : <<PendingLink(e)', o>> \in gaps
    <3>1. \A q \in Syncs : at'[q] = "working" => q = p
      BY <1>3
    <3>2. \A e \in SeenRows' : Copied(PendingLink(e))' => Copied(PendingLink(e)')
      BY <1>1, <1>2 DEF Copied
    <3> QED
      BY <1>1, <1>5, <3>1, <3>2 DEF WorkEcho, Told, HeldApart
  <2>1. PendingLink(e)' \in Remotes /\ PendingLink(e)' # NoRemote
    BY <1>0, SyncAssumption DEF Copied, Typed, ProviderOK
  <2>2. PICK row \in Row :
           /\ PendingLink(e)' = row.remote
           /\ PendingHash(e)' = Pulled(L, row).hash
           /\ PendingExdates(e)' = Pulled(L, row).fields.exdates
           /\ row.remote \in L.live \/ (e \in rows /\ row = ev[e])
    BY <1>0, <2>1, PulledPending
  <2>3. /\ row.remote \notin late[p] /\ row.remote \in live /\ row.remote \in Remotes
        /\ row.remote \in L.live => L.item[row.remote] = item[row.remote]
        /\ Copied(row.remote)
    BY <1>0, <1>1, <2>1, <2>2 DEF ListEcho, Copied
  <2>4. ASSUME NEW o \in Pulled(L, row).fields.exdates, <<row.remote, o>> \in L.gaps
        PROVE  <<row.remote, o>> \in gaps
    <3>1. <<row.remote, o>>[1] = row.remote
      OBVIOUS
    <3> QED
      BY <1>10, <2>3, <2>4, <3>1
  <2>5. CASE row.remote \in L.live
    <3>1. L.item[row.remote].readable
      BY <1>0, <2>3, <2>5 DEF ItemsOK, Copied
    <3>2. \/ Pulled(L, row).hash = Digest(Received(L.item[row.remote]))
          \/ \E o \in Pulled(L, row).fields.exdates : <<row.remote, o>> \in L.gaps
      BY <1>0, <2>5, <3>1, PulledIsTold
    <3> QED
      BY <2>2, <2>3, <2>4, <2>5, <3>2
  <2>6. CASE row.remote \notin L.live
    <3>1. \/ Pulled(L, row) = row
          \/ \E o \in Pulled(L, row).fields.exdates : <<row.remote, o>> \in L.gaps
      BY <1>0, <2>6, PulledUnlisted
    <3>2. \/ Told(row.remote, row.hash)
          \/ HeldApart(row.remote, row.fields.exdates)
      BY <1>0, <1>2, <2>2, <2>3, <2>6 DEF RowEcho
    <3>3. CASE Pulled(L, row) = row
      BY <2>2, <2>3, <3>2, <3>3 DEF Told, HeldApart
    <3>4. CASE \E o \in Pulled(L, row).fields.exdates : <<row.remote, o>> \in L.gaps
      BY <2>2, <2>3, <2>4, <3>4
    <3> QED
      BY <3>1, <3>3, <3>4
  <2> QED
    BY <2>5, <2>6
<1> QED
  BY <1>4, <1>6, <1>7, <1>8, <1>9, <1>11 DEF EchoInv, Transacts, Echoes

LEMMA CommitKeepsEcho ==
  ASSUME EchoInv, NEW p \in Syncs, Commit(p), LinkInv' PROVE EchoInv'
<1>0. /\ LinkInv /\ Typed /\ WriteSets /\ ItemsOK /\ SyncsInPhase /\ ListEcho /\ WorkEcho
      /\ WrittenNoted
  BY DEF EchoInv, LinkInv, Transacts, Echoes
<1>1. /\ rows' = SeenRows /\ ev' = [e \in Events |-> Committed(e)]
      /\ since' = late[p] /\ at[p] = "working"
      /\ at' = [at EXCEPT ![p] = "idle"] /\ list' = [list EXCEPT ![p] = NoList]
      /\ late' = [late EXCEPT ![p] = {}]
      /\ UNCHANGED <<provider, issued, live, item, gaps, unsettled>>
      /\ phase' = "none" /\ locked' = {} /\ sent' = {}
  BY DEF Commit, EndSync, EndTransaction, Uncovered, providerVars
<1>2. /\ at'[p] = "idle" /\ list'[p] = NoList /\ late'[p] = {}
      /\ \A q \in Syncs \ {p} : /\ at'[q] = at[q] /\ list'[q] = list[q] /\ late'[q] = late[q]
                                /\ at[q] # "working"
  BY <1>0, <1>1 DEF Typed, SyncsOK, SyncsInPhase
<1>3. SeenRows \subseteq Events /\ SeenRows \subseteq rows \cup locked /\ SeenRows \cap doomed = {}
  BY <1>0 DEF SeenRows, Typed, DatabaseOK, TransactionOK, WriteSets
<1>4. ASSUME NEW e \in SeenRows
      PROVE  /\ ev'[e].remote = PendingLink(e) /\ ev'[e].hash = PendingHash(e)
             /\ ev'[e].fields.exdates = PendingExdates(e)
  <2>1. ev'[e] = Committed(e)
    BY <1>1, <1>3
  <2>2. CASE e \in locked
    BY <1>3, <2>1, <2>2 DEF Committed, PendingLink, PendingHash, PendingExdates
  <2>3. CASE e \in rows \ locked
    <3>1. ev[e] \in Row
      BY <1>0, <2>3 DEF Typed, DatabaseOK
    <3> QED
      BY <1>3, <2>1, <2>3, <3>1 DEF Committed, PendingLink, PendingHash, PendingExdates, Row
  <2> QED
    BY <1>3, <2>2, <2>3
<1>5. ItemsOK'
  <2>1. NoList.gaps = {}
    BY DEF NoList
  <2> QED
    BY <1>0, <1>1, <1>2, <2>1 DEF ItemsOK, Complete
<1>6. SyncsInPhase' /\ WorkEcho'
  BY <1>0, <1>2 DEF SyncsInPhase, WorkEcho
<1>7. TodoApart' /\ WrittenNoted'
  BY <1>1 DEF TodoApart, WrittenNoted, Written
<1>8. \A i : (Digest(Received(i)))' = Digest(Received(i))
  BY <1>1 DEF Digest, Received, Exdates
<1>9. RowEcho'
  <2> SUFFICES ASSUME NEW e \in SeenRows, Copied(ev'[e].remote)
               PROVE  \/ ev'[e].hash = Digest(Received(item[ev'[e].remote]))
                      \/ /\ ev'[e].remote \notin late[p]
                         /\ \E o \in ev'[e].fields.exdates : <<ev'[e].remote, o>> \in gaps
    BY <1>1, <1>8 DEF RowEcho, Copied, Told, HeldApart
  <2> QED
    BY <1>0, <1>1, <1>4 DEF WorkEcho, Told, HeldApart
<1>10. ListEcho'
  <2> SUFFICES ASSUME NEW q \in Syncs \ {p}, at[q] = "listed"
               PROVE  /\ \A r \in Remotes : Copied(r) =>
                            r \notin late[q] /\ (r \in list[q].live => list[q].item[r] = item[r])
                      /\ \A g \in list[q].gaps : g[1] \in issued /\ (g[1] \in live => g \in gaps)
                      /\ \A e \in SeenRows :
                            /\ ev'[e].remote \in list[q].live /\ list[q].item[ev'[e].remote].mine
                            /\ ev'[e].remote \notin unsettled
                            => \/ ev'[e].hash = Digest(Received(list[q].item[ev'[e].remote]))
                               \/ \E o \in ev'[e].fields.exdates : <<ev'[e].remote, o>> \in list[q].gaps
    <3>1. \A q \in Syncs : at'[q] = "listed" =>
             q # p /\ at[q] = "listed" /\ list'[q] = list[q] /\ late'[q] = late[q]
      BY <1>2
    <3>2. \A r : Copied(r)' <=> Copied(r)
      BY <1>1 DEF Copied
    <3>5. ASSUME NEW q \in Syncs, at'[q] = "listed"
          PROVE  /\ \A r \in Remotes : Copied(r)' =>
                       r \notin late'[q] /\ (r \in list'[q].live => list'[q].item[r] = item'[r])
                 /\ \A g \in list'[q].gaps : g[1] \in issued' /\ (g[1] \in live' => g \in gaps')
                 /\ \A e \in rows' :
                       /\ ev'[e].remote \in list'[q].live /\ list'[q].item[ev'[e].remote].mine
                       /\ ev'[e].remote \notin unsettled'
                       => \/ ev'[e].hash = Digest(Received(list'[q].item[ev'[e].remote]))
                          \/ \E o \in ev'[e].fields.exdates : <<ev'[e].remote, o>> \in list'[q].gaps
      <4>1. q \in Syncs \ {p} /\ at[q] = "listed" /\ list'[q] = list[q] /\ late'[q] = late[q]
        BY <3>1, <3>5
      <4>2. rows' = SeenRows /\ UNCHANGED <<issued, live, item, gaps, unsettled>>
        BY <1>1
      <4> QED
        BY <3>2, <4>1, <4>2
    <3> QED
      BY <1>8, <3>5 DEF ListEcho
  <2>1. ASSUME NEW e \in SeenRows, ev'[e].remote \in list[q].live,
               list[q].item[ev'[e].remote].mine, ev'[e].remote \notin unsettled
        PROVE  \/ ev'[e].hash = Digest(Received(list[q].item[ev'[e].remote]))
               \/ \E o \in ev'[e].fields.exdates : <<ev'[e].remote, o>> \in list[q].gaps
    <3>1. ev'[e].remote # NoRemote
      <4>1. list[q] \in Lists
        BY <1>0 DEF Typed, SyncsOK
      <4> QED
        BY <2>1, <4>1, SyncAssumption DEF Lists
    <3>2. e \notin locked \cup sent
      BY <1>0, <1>4, <2>1, <3>1 DEF WrittenNoted, Written, PendingLink
    <3>3. /\ e \in rows /\ ev'[e].remote = ev[e].remote /\ ev'[e].hash = ev[e].hash
          /\ ev'[e].fields.exdates = ev[e].fields.exdates
      BY <1>3, <1>4, <3>2 DEF PendingLink, PendingHash, PendingExdates
    <3> QED
      BY <1>0, <2>1, <3>3 DEF ListEcho
  <2> QED
    BY <1>0, <2>1 DEF ListEcho
<1> QED
  BY <1>5, <1>6, <1>7, <1>9, <1>10 DEF EchoInv, Transacts, Echoes

(* What a transaction that is rolled back has sent is unsettled.           *)
LEMMA RollbackKeepsEcho ==
  ASSUME EchoInv, NEW p \in Syncs, at[p] # "idle", Rollback(p), LinkInv' PROVE EchoInv'
<1>0. /\ LinkInv /\ Typed /\ WriteSets /\ ItemsOK /\ SyncsInPhase /\ RowEcho /\ ListEcho /\ WorkEcho
      /\ TodoApart /\ WrittenNoted
  BY DEF EchoInv, LinkInv, Transacts, Echoes
<1>1. /\ at' = [at EXCEPT ![p] = "idle"] /\ list' = [list EXCEPT ![p] = NoList]
      /\ late' = [late EXCEPT ![p] = {}]
      /\ UNCHANGED <<provider, rows, ev, issued, live, item, gaps, since>>
  BY DEF Rollback, EndSync, dbVars, providerVars
<1>2. /\ at'[p] = "idle" /\ list'[p] = NoList /\ late'[p] = {}
      /\ \A q \in Syncs \ {p} : at'[q] = at[q] /\ list'[q] = list[q] /\ late'[q] = late[q]
  BY <1>0, <1>1 DEF Typed, SyncsOK
<1>3. ItemsOK'
  <2>1. NoList.gaps = {}
    BY DEF NoList
  <2> QED
    BY <1>0, <1>1, <1>2, <2>1 DEF ItemsOK, Complete
<1>4. /\ \A r, h : Told(r, h)' <=> Told(r, h)
      /\ \A r, x : HeldApart(r, x)' <=> HeldApart(r, x)
      /\ \A i : (Digest(Received(i)))' = Digest(Received(i))
  BY <1>1 DEF Told, HeldApart, Digest, Received, Exdates
<1>5. ASSUME unsettled \subseteq unsettled'
      PROVE  ListEcho'
  <2> SUFFICES ASSUME NEW q \in Syncs \ {p}, at[q] = "listed"
               PROVE  /\ \A r \in Remotes : Copied(r) =>
                            r \notin late[q] /\ (r \in list[q].live => list[q].item[r] = item[r])
                      /\ \A g \in list[q].gaps : g[1] \in issued /\ (g[1] \in live => g \in gaps)
                      /\ \A e \in rows :
                            /\ ev[e].remote \in list[q].live /\ list[q].item[ev[e].remote].mine
                            /\ ev[e].remote \notin unsettled
                            => \/ ev[e].hash = Digest(Received(list[q].item[ev[e].remote]))
                               \/ \E o \in ev[e].fields.exdates : <<ev[e].remote, o>> \in list[q].gaps
    <3>1. \A q \in Syncs : at'[q] = "listed" =>
             q # p /\ at[q] = "listed" /\ list'[q] = list[q] /\ late'[q] = late[q]
      BY <1>2
    <3>2. \A r : Copied(r)' => Copied(r)
      BY <1>1, <1>5 DEF Copied
    <3>5. ASSUME NEW q \in Syncs, at'[q] = "listed"
          PROVE  /\ \A r \in Remotes : Copied(r)' =>
                       r \notin late'[q] /\ (r \in list'[q].live => list'[q].item[r] = item'[r])
                 /\ \A g \in list'[q].gaps : g[1] \in issued' /\ (g[1] \in live' => g \in gaps')
                 /\ \A e \in rows' :
                       /\ ev'[e].remote \in list'[q].live /\ list'[q].item[ev'[e].remote].mine
                       /\ ev'[e].remote \notin unsettled'
                       => \/ ev'[e].hash = Digest(Received(list'[q].item[ev'[e].remote]))
                          \/ \E o \in ev'[e].fields.exdates : <<ev'[e].remote, o>> \in list'[q].gaps
      <4>1. q # p /\ at[q] = "listed" /\ list'[q] = list[q] /\ late'[q] = late[q]
        BY <3>1, <3>5
      <4>2. UNCHANGED <<rows, ev, issued, live, item, gaps>>
        BY <1>1
      <4> QED
        BY <1>5, <3>2, <4>1, <4>2
    <3>6. \A i : (Digest(Received(i)))' = Digest(Received(i))
      BY <1>4
    <3> QED
      BY <3>5, <3>6 DEF ListEcho
  <2> QED
    BY <1>0 DEF ListEcho
<1>6. CASE at[p] = "working"
  <2>1. /\ phase' = "none" /\ locked' = {} /\ sent' = {}
        /\ unsettled' = unsettled \cup BeingSent
    BY <1>6 DEF Rollback, EndTransaction, BeingSent
  <2>2. SyncsInPhase' /\ WorkEcho'
    BY <1>0, <1>2, <1>6 DEF SyncsInPhase, WorkEcho
  <2>3. TodoApart' /\ WrittenNoted'
    BY <2>1 DEF TodoApart, WrittenNoted, Written
  <2>4. \A r : Copied(r)' => Copied(r) /\ r \notin BeingSent
    BY <1>1, <2>1 DEF Copied
  <2>5. RowEcho'
    BY <1>0, <1>1, <1>4, <2>4 DEF RowEcho
  <2> QED
    BY <1>3, <1>5, <2>1, <2>2, <2>3, <2>5 DEF EchoInv, Transacts, Echoes
<1>7. CASE at[p] = "listed"
  <2>1. UNCHANGED <<phase, todo, draft, locked, born, doomed, sent, unsettled>>
    BY <1>7 DEF Rollback, txVars
  <2>2. SyncsInPhase'
    BY <1>0, <1>2, <2>1 DEF SyncsInPhase
  <2>3. SeenRows' = SeenRows /\ BeingSent' = BeingSent /\ Written' = Written
    BY <1>1, <2>1 DEF SeenRows, BeingSent, Written
  <2>4. /\ \A e : /\ PendingLink(e)' = PendingLink(e) /\ PendingHash(e)' = PendingHash(e)
                  /\ PendingExdates(e)' = PendingExdates(e)
        /\ \A r : Copied(r)' <=> Copied(r)
    BY <1>1, <2>1 DEF PendingLink, PendingHash, PendingExdates, Copied
  <2>5. TodoApart' /\ WrittenNoted'
    BY <1>0, <1>2, <2>1, <2>3, <2>4 DEF TodoApart, WrittenNoted
  <2>6. RowEcho'
    BY <1>0, <1>1, <1>4, <2>3, <2>4 DEF RowEcho
  <2>7. WorkEcho'
    <3>1. \A q \in Syncs : at'[q] = "working" => at[q] = "working" /\ late'[q] = late[q]
      BY <1>2
    <3> QED
      BY <1>0, <1>4, <2>3, <2>4, <3>1 DEF WorkEcho
  <2> QED
    BY <1>3, <1>5, <2>1, <2>2, <2>5, <2>6, <2>7 DEF EchoInv, Transacts, Echoes
<1> QED
  BY <1>0, <1>6, <1>7 DEF Typed, SyncsOK

LEMMA EchoStep == ASSUME EchoInv, [Next]_vars PROVE EchoInv'
<1>1. LinkInv /\ LinkInv'
  BY LinkStep DEF EchoInv
<1>2. CASE Connect \/ UNCHANGED vars
  <2>1. UNCHANGED <<provider, rows, ev, at, list, txVars, providerVars, changeVars, unsettled>>
    BY <1>2 DEF Connect, FinishConsent, CaldavConnect, NewConnection, vars, dbVars
  <2>2. CopiesStay /\ ItemsOK'
    BY <2>1, NothingStays, SameItems DEF EchoInv
  <2>3. \A p \in Syncs : at[p] = "idle" => late'[p] = {}
    BY <2>1 DEF EchoInv, Transacts, SyncsInPhase, changeVars
  <2>4. \A e \in rows : ev[e].fields.exdates \subseteq ev'[e].fields.exdates
    BY <2>1
  <2> QED
    BY <1>1, <2>1, <2>2, <2>3, <2>4, OutsideKeepsEcho
<1>3. ASSUME NEW p \in Syncs, SyncStep(p) PROVE EchoInv'
  <2>1. ASSUME FlushFails(p) PROVE EchoInv'
    BY <1>1, <2>1, RollbackKeepsEcho DEF FlushFails
  <2>2. ASSUME List(p) PROVE EchoInv'
    <3>1. (~token) \in BOOLEAN
      BY <1>1 DEF LinkInv, Typed, DatabaseOK
    <3> QED
      BY <1>1, <2>2, <3>1, FetchKeepsEcho DEF List
  <2> QED
    BY <1>1, <1>3, <2>1, <2>2, PullKeepsEcho, DeleteStoneKeepsEcho, SelectMovedKeepsEcho,
       DropMovedKeepsEcho, SelectCandidatesKeepsEcho, PushEventKeepsEcho, CommitKeepsEcho
    DEF SyncStep
<1>4. ASSUME NEW p \in Syncs, FaultStep(p) PROVE EchoInv'
  BY <1>1, <1>4, FetchKeepsEcho, RefuseKeepsEcho, LoseAnswerKeepsEcho, RollbackKeepsEcho
  DEF FaultStep, ListAfterGone, Crash
<1> QED
  BY <1>1, <1>2, <1>3, <1>4, UserStepKeepsEcho, ProviderStepKeepsEcho DEF Next

LEMMA EchoSuffices ==
  ASSUME EchoInv, Next PROVE
    PullStep =>
      \A p \in Syncs, e \in Events :
         Overwrites(p, e) /\ draft'[e].fields # ev[e].fields
         => \/ ~list[p].item[ev[e].remote].mine
            \/ ev[e].remote \in unsettled
            \/ \E o \in Occurrences : <<ev[e].remote, o>> \in list[p].gaps
<1> SUFFICES ASSUME PullStep, NEW p \in Syncs, NEW e \in Events, Overwrites(p, e),
                    draft'[e].fields # ev[e].fields, list[p].item[ev[e].remote].mine,
                    ev[e].remote \notin unsettled
             PROVE  \E o \in Occurrences : <<ev[e].remote, o>> \in list[p].gaps
  OBVIOUS
<1> DEFINE L == list[p]
<1>0. LinkInv /\ Typed /\ ItemsOK /\ ListEcho
  BY DEF EchoInv, LinkInv, Echoes
<1>1. PICK q \in Syncs : Pull(q)
  BY DEF PullStep, Next, UserStep, CreateEvent, EditEvent, MoveEvent, DeleteOccurrence,
         DeleteEvent, BeginDelete, FinishDelete, InToDoch, DeleteArea, Disconnect, UserOp,
         ProviderStep, ProviderAdds, ProviderEdits, ProviderDeletes, ProviderCancels, ProviderOp,
         Connect, FinishConsent, CaldavConnect,
         NewConnection, SyncStep, FaultStep, List, ListAfterGone, Fetch, DeleteStone, SelectMoved,
         DropMoved, SelectCandidates, PushEvent, Commit, FlushFails, Crash, Rollback,
         EndTransaction, Refuse, LoseAnswer, Work, txVars
<1>2. q = p /\ at[p] = "listed"
  BY <1>0, <1>1 DEF Overwrites, Pull, Typed, SyncsOK
<1>3. locked' = born' \cup doomed' \cup Touched(L) /\ born' \cap rows = {}
  BY <1>0, <1>1, <1>2, PullGives DEF Pull, InUse
<1>4. e \in Touched(L)
  BY <1>3 DEF Overwrites
<1>5. Pulled(L, ev[e]) # ev[e] /\ ev[e] \in Row /\ e \in rows
  BY <1>0, <1>4 DEF Touched, Typed, DatabaseOK
<1>6. CASE ev[e].remote \in L.live /\ ev[e].hash # Digest(Received(L.item[ev[e].remote]))
  <2>1. PICK o \in ev[e].fields.exdates : <<ev[e].remote, o>> \in L.gaps
    BY <1>0, <1>2, <1>5, <1>6 DEF ListEcho
  <2>2. o \in Occurrences
    BY <1>5, <2>1 DEF Row, Fields
  <2> QED
    BY <2>1, <2>2
<1>7. CASE ~(ev[e].remote \in L.live /\ ev[e].hash # Digest(Received(L.item[ev[e].remote])))
  <2>1. Cancelled(L, ev[e]) # {}
    BY <1>5, <1>7, KnownItemIsSkipped
  <2> QED
    BY <2>1 DEF Cancelled
<1> QED
  BY <1>6, <1>7

(* A pull overwrites a row only with contents that someone wrote at the    *)
(* provider, never with the echo of what ToDoch sent: for every provider,  *)
(* any number of events, edits, faults and overlapping syncs, but for the  *)
(* items that the property names.                                          *)
THEOREM OwnEchoStaysOut == Spec => OwnEchoIsNeverTaken
<1>1. Init => EchoInv
  BY EchoInit
<1>2. EchoInv /\ [Next]_vars => EchoInv'
  BY EchoStep
<1>3. EchoInv /\ [Next]_vars
        => [PullStep =>
              \A p \in Syncs, e \in Events :
                 Overwrites(p, e) /\ draft'[e].fields # ev[e].fields
                 => \/ ~list[p].item[ev[e].remote].mine
                    \/ ev[e].remote \in unsettled
                    \/ \E o \in Occurrences : <<ev[e].remote, o>> \in list[p].gaps]_vars
  BY EchoSuffices
<1> QED
  BY <1>1, <1>2, <1>3, PTL DEF Spec, OwnEchoIsNeverTaken
=============================================================================
