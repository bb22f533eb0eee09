------------------------------- MODULE MailProofs -------------------------------
(***************************************************************************)
(* Proofs about Mail.                                                      *)
(***************************************************************************)
EXTENDS Mail, FiniteSetTheorems, TLAPS

-----------------------------------------------------------------------------
(***************************************************************************)
(* Finite sets of numbers.                                                 *)
(***************************************************************************)
(* A finite set of numbers has a largest one, and a smallest.              *)
LEMMA LargestOf ==
    ASSUME NEW S, S \subseteq Int, IsFiniteSet(S), S # {}
    PROVE  Max(S) \in S /\ \A y \in S : y <= Max(S)
  <1> DEFINE Above(x) == {y \in S : y > x}
             T == {Above(x) : x \in S}
  <1>1. T \subseteq FiniteSubsetsOf(S) /\ T # {}
    <2>1. FiniteSubsetsOf(S) = SUBSET S
      BY FS_FiniteSubsetsOfFinite
    <2>2. ASSUME NEW x \in S PROVE Above(x) \in FiniteSubsetsOf(S)
      BY <2>1
    <2>3. T # {}
      <3>1. PICK x \in S : TRUE
        OBVIOUS
      <3>2. Above(x) \in T
        BY <3>1
      <3> QED
        BY <3>2
    <2>4. ASSUME NEW t \in T PROVE t \in FiniteSubsetsOf(S)
      <3>1. PICK x \in S : t = Above(x)
        BY <2>4
      <3> QED
        BY <2>2, <3>1
    <2> QED
      BY <2>3, <2>4
  <1>2. PICK t \in T : \A s \in T : <<s, t>> \notin StrictSubsetOrdering(S)
    BY <1>1, FS_StrictSubsetOrderingWellFounded, WFMin
  <1>3. PICK x \in S : t = Above(x)
    OBVIOUS
  <1>4. ASSUME NEW y \in S, y > x PROVE FALSE
    <2>1. Above(y) \subseteq Above(x) /\ Above(y) # Above(x) /\ Above(x) \subseteq S
      <3>1. \A z \in S : z > y => z > x
        BY <1>4
      <3>2. y \in Above(x) /\ y \notin Above(y)
        BY <1>4
      <3> QED
        BY <3>1, <3>2
    <2>2. <<Above(y), Above(x)>> \in StrictSubsetOrdering(S)
      BY <2>1 DEF StrictSubsetOrdering
    <2> QED
      BY <1>2, <1>3, <2>2
  <1>5. \A y \in S : x >= y
    BY <1>4
  <1>6. Max(S) \in S /\ \A y \in S : Max(S) >= y
    BY <1>5 DEF Max
  <1> QED
    BY <1>6

LEMMA SmallestOf ==
    ASSUME NEW S, S \subseteq Int, IsFiniteSet(S), S # {}
    PROVE  \E x \in S : \A y \in S : x <= y
  <1> DEFINE Below(x) == {y \in S : y < x}
             T == {Below(x) : x \in S}
  <1>1. T \subseteq FiniteSubsetsOf(S) /\ T # {}
    <2>1. FiniteSubsetsOf(S) = SUBSET S
      BY FS_FiniteSubsetsOfFinite
    <2>2. ASSUME NEW x \in S PROVE Below(x) \in FiniteSubsetsOf(S)
      BY <2>1
    <2>3. T # {}
      <3>1. PICK x \in S : TRUE
        OBVIOUS
      <3>2. Below(x) \in T
        BY <3>1
      <3> QED
        BY <3>2
    <2>4. ASSUME NEW t \in T PROVE t \in FiniteSubsetsOf(S)
      <3>1. PICK x \in S : t = Below(x)
        BY <2>4
      <3> QED
        BY <2>2, <3>1
    <2> QED
      BY <2>3, <2>4
  <1>2. PICK t \in T : \A s \in T : <<s, t>> \notin StrictSubsetOrdering(S)
    BY <1>1, FS_StrictSubsetOrderingWellFounded, WFMin
  <1>3. PICK x \in S : t = Below(x)
    OBVIOUS
  <1>4. ASSUME NEW y \in S, y < x PROVE FALSE
    <2>1. Below(y) \subseteq Below(x) /\ Below(y) # Below(x) /\ Below(x) \subseteq S
      <3>1. \A z \in S : z < y => z < x
        BY <1>4
      <3>2. y \in Below(x) /\ y \notin Below(y)
        BY <1>4
      <3> QED
        BY <3>1, <3>2
    <2>2. <<Below(y), Below(x)>> \in StrictSubsetOrdering(S)
      BY <2>1 DEF StrictSubsetOrdering
    <2> QED
      BY <1>2, <1>3, <2>2
  <1> QED
    BY <1>4

(* The n highest of them are no more than n.                               *)
LEMMA FewHighest ==
    ASSUME NEW S, S \subseteq Int, IsFiniteSet(S), NEW n \in Nat \ {0}
    PROVE  /\ Highest(S, n) \subseteq S /\ IsFiniteSet(Highest(S, n))
           /\ Cardinality(Highest(S, n)) <= n
  <1> DEFINE H == Highest(S, n)
  <1>1. H \subseteq S
    BY DEF Highest
  <1>2. IsFiniteSet(H) /\ Cardinality(H) \in Nat
    BY <1>1, FS_Subset, FS_CardinalityType
  <1>3. CASE H = {}
    BY <1>1, <1>2, <1>3, FS_EmptySet
  <1>4. CASE H # {}
    <2>1. PICK x \in H : \A y \in H : x <= y
      BY <1>1, <1>2, <1>4, SmallestOf
    <2> DEFINE A == {y \in S : y > x}
    <2>2. Cardinality(A) < n
      BY <2>1 DEF Highest
    <2>3. IsFiniteSet(A) /\ Cardinality(A) \in Nat
      BY FS_Subset, FS_CardinalityType
    <2>4. H \ {x} \subseteq A
      <3>1. \A y \in H : y \in S /\ y \in Int
        BY <1>1
      <3> HIDE DEF H
      <3>2. \A y \in H : y # x => y > x
        BY <2>1, <3>1
      <3> QED
        BY <3>1, <3>2
    <2>5. Cardinality(H \ {x}) <= Cardinality(A)
      BY <2>3, <2>4, FS_Subset
    <2>6. Cardinality(H \ {x}) = Cardinality(H) - 1
      BY <1>2, <2>1, FS_RemoveElement
    <2> HIDE DEF H, A
    <2>7. Cardinality(H) <= n
      BY <1>2, <2>2, <2>3, <2>5, <2>6
    <2> QED
      BY <1>1, <1>2, <2>7 DEF H
  <1> QED
    BY <1>3, <1>4

(* What is below one of the n lowest is one of them.                       *)
LEMMA LowestIsLow ==
    ASSUME NEW S, S \subseteq Int, IsFiniteSet(S), NEW n \in Nat \ {0}
    PROVE  /\ Lowest(S, n) \subseteq S
           /\ \A x \in Lowest(S, n), y \in S : y <= x => y \in Lowest(S, n)
  <1>1. ASSUME NEW x \in Lowest(S, n), NEW y \in S, y <= x
        PROVE  y \in Lowest(S, n)
    <2> DEFINE A(z) == {v \in S : v < z}
    <2>1. x \in S /\ Cardinality(A(x)) < n
      BY DEF Lowest
    <2>2. A(y) \subseteq A(x) /\ A(x) \subseteq S /\ A(y) \subseteq S
      <3>1. x \in Int /\ y \in Int /\ \A v \in S : v \in Int
        BY <2>1
      <3>2. \A v \in S : v < y => v < x
        BY <1>1, <3>1
      <3> QED
        BY <3>2
    <2>3. IsFiniteSet(A(x)) /\ IsFiniteSet(A(y))
      BY <2>2, FS_Subset
    <2>4. /\ Cardinality(A(y)) <= Cardinality(A(x))
          /\ Cardinality(A(y)) \in Nat /\ Cardinality(A(x)) \in Nat
      BY <2>2, <2>3, FS_Subset, FS_CardinalityType
    <2>5. Cardinality(A(y)) < n
      BY <2>1, <2>4
    <2> QED
      BY <2>5 DEF Lowest
  <1> QED
    BY <1>1 DEF Lowest

(* As much as comes of a finite set is finite, and not more.               *)
LEMMA ImageIsFinite ==
    ASSUME NEW S, IsFiniteSet(S), NEW f, f = [x \in S |-> f[x]]
    PROVE  LET T == {f[x] : x \in S} IN
           IsFiniteSet(T) /\ Cardinality(T) <= Cardinality(S)
  <1> DEFINE T == {f[x] : x \in S}
  <1>1. f \in Surjection(S, T)
    <2>1. f \in [S -> T]
      OBVIOUS
    <2>2. \A t \in T : \E s \in S : f[s] = t
      OBVIOUS
    <2> QED
      BY <2>1, <2>2 DEF Surjection
  <1> QED
    BY <1>1, FS_Surjection

(* Elements of a finite set can be numbered from made + 1 on.              *)
LEMMA NumberedOnce ==
    ASSUME NEW S, IsFiniteSet(S), made \in Nat
    PROVE  /\ Numbered(S) \in [S -> (made + 1)..(made + Cardinality(S))]
           /\ \A x, y \in S : Numbered(S)[x] = Numbered(S)[y] => x = y
  <1> DEFINE n == Cardinality(S)
  <1>1. n \in Nat /\ ExistsBijection(1..n, S)
    BY FS_CardinalityType
  <1>2. PICK g \in Bijection(1..n, S) : TRUE
    BY <1>1 DEF ExistsBijection
  <1>3. g \in [1..n -> S] /\ \A s \in S : \E i \in 1..n : g[i] = s
    BY <1>2 DEF Bijection, Surjection, Injection
  <1> DEFINE At(s) == CHOOSE i \in 1..n : g[i] = s
             f == [s \in S |-> made + At(s)]
  <1>4. \A s \in S : At(s) \in 1..n /\ g[At(s)] = s
    BY <1>3
  <1> HIDE DEF At, n
  <1>5. \A s \in S : made + At(s) \in (made + 1)..(made + n)
    BY <1>1, <1>4
  <1>6. f \in [S -> (made + 1)..(made + n)]
    BY <1>5
  <1>7. \A x, y \in S : f[x] = f[y] => x = y
    <2> SUFFICES ASSUME NEW x \in S, NEW y \in S, f[x] = f[y] PROVE x = y
      OBVIOUS
    <2>1. At(x) \in Int /\ At(y) \in Int /\ made + At(x) = made + At(y)
      BY <1>1, <1>4
    <2>2. At(x) = At(y)
      BY <2>1
    <2> QED
      BY <1>4, <2>2
  <1> QED
    BY <1>6, <1>7 DEF Numbered, n

-----------------------------------------------------------------------------
(***************************************************************************)
(* The shape of the state.                                                 *)
(***************************************************************************)
AccountRow == [state: {"new", "there", "gone"}, enabled: BOOLEAN, validity: Nat, last: Nat]
Letter == [uid: Nat \ {0}, mail: Mails]

(* A mail is in its own mailbox, and no two have the same number.          *)
ServerShaped ==
    /\ validity \in [Accounts -> Nat \ {0}] /\ uid \in [Accounts -> [Mails -> Nat]]
    /\ recent \subseteq Mails
    /\ \A a \in Accounts, m \in Mails : uid[a][m] # 0 => Mailbox[m] = a
    /\ \A a \in Accounts, m, n \in Mails : uid[a][m] = uid[a][n] /\ uid[a][m] # 0 => m = n

AccountShaped(a) ==
    /\ account[a].state = "new" => account[a] = NoAccount
    /\ There(a) => account[a].validity # 0
    /\ account[a].validity <= validity[a]

AccountsShaped ==
    /\ account \in [Accounts -> AccountRow] /\ rule \in {"none", "on", "off"}
    /\ \A a \in Accounts : AccountShaped(a)
    /\ due \subseteq Accounts /\ \A a \in due : There(a)

RowsShaped(a, S) ==
    /\ S \subseteq Row /\ IsFiniteSet(S)
    /\ \A x \in S : x.uid # 0 /\ Mailbox[x.mail] = a
    /\ \A x, y \in S : x.uid = y.uid => x = y

StoredShaped ==
    /\ stored = [a \in Accounts |-> stored[a]]
    /\ \A a \in Accounts :
          /\ RowsShaped(a, stored[a]) /\ Cardinality(stored[a]) <= MaxStored
          /\ \A x \in stored[a] : x.task <= made
          /\ stored[a] # {} => There(a)

(* What a row can be that was read before.                                 *)
ReadRow(a, row) ==
    /\ row \in AccountRow /\ row.state = "there" /\ account[a].state # "new"
    /\ row.validity # 0 /\ row.validity <= validity[a]

RoundShaped ==
    /\ round = [left |-> round.left, rows |-> round.rows] /\ round.left \subseteq Accounts
    /\ \A a \in round.left : ReadRow(a, round.rows[a])

LettersShaped(a, S) ==
    /\ S \subseteq Letter /\ IsFiniteSet(S)
    /\ \A x \in S : Mailbox[x.mail] = a
    /\ \A x, y \in S : x.uid = y.uid <=> x.mail = y.mail

ResultShaped(a, row, r) ==
    /\ r.validity \in Nat \ {0} /\ row.validity <= r.validity /\ r.validity <= validity[a]
    /\ r.last \in Nat /\ LettersShaped(a, r.mails)

SyncShaped(s) ==
    s # Idle =>
       /\ s.account \in Accounts /\ s.kind \in {"read", "apply"}
       /\ \/ s.row = NoAccount /\ account[s.account].state = "new"
          \/ ReadRow(s.account, s.row)
       /\ s.kind = "read" => s.limit \in Nat \ {0}
       /\ s.kind = "apply" => ResultShaped(s.account, s.row, s.result)

(* An account that has no row yet is read by one client.                   *)
Alone(c) ==
    sync[c] # Idle /\ account[sync[c].account].state = "new" =>
        \A d \in Clients \ {c} : sync[d] = Idle \/ sync[d].account # sync[c].account

SyncsShaped ==
    /\ sync = [c \in Clients |-> sync[c]]
    /\ \A c \in Clients : SyncShaped(sync[c]) /\ Alone(c)

ClickShaped(q) ==
    q # Idle =>
       /\ q = [kind |-> q.kind, read |-> q.read]
       /\ q.kind \in {"task", "accepted", "dismissed", "lost"}
       /\ \A r \in q.read :
             /\ q.kind = "task" => r[2].task = 0
             /\ q.kind \in {"accepted", "dismissed"} => r[2].suggestion = "pending"

ClicksShaped ==
    click = [t \in Tabs |-> click[t]] /\ \A t \in Tabs : ClickShaped(click[t])

MadeShaped ==
    /\ made \in Nat /\ tasks \subseteq [mail: Mails, no: 1..made]
    /\ events \in [Mails -> Nat]
    /\ \A k, l \in tasks : k.no = l.no => k = l

BoundsShaped == ops \in 0..MaxOps /\ faults \in 0..MaxFaults

TInv ==
    /\ ServerShaped /\ AccountsShaped /\ StoredShaped /\ RoundShaped /\ SyncsShaped
    /\ ClicksShaped /\ MadeShaped /\ BoundsShaped

(* The numbering only goes on, and no account becomes new again.           *)
Steady ==
    \A a \in Accounts : /\ validity[a] <= validity'[a]
                        /\ account'[a].state = "new" <=> account[a].state = "new"

LEMMA BoundsMove ==
    ASSUME BoundsShaped, Op \/ Fault \/ UNCHANGED <<ops, faults>>
    PROVE  BoundsShaped'
  BY MailAssumption DEF BoundsShaped, Op, Fault

LEMMA RowStays ==
    ASSUME ServerShaped, ServerShaped', NEW a \in Accounts, validity[a] <= validity'[a],
           account[a].state # "new" => account'[a].state # "new"
    PROVE  \A row : ReadRow(a, row) => ReadRow(a, row)'
  <1>1. validity[a] \in Int /\ validity'[a] \in Int
    BY DEF ServerShaped
  <1>2. ASSUME NEW row, ReadRow(a, row) PROVE ReadRow(a, row)'
    <2>1. row.validity \in Int
      BY <1>2 DEF ReadRow, AccountRow
    <2>2. row.validity <= validity'[a]
      BY <1>1, <1>2, <2>1 DEF ReadRow
    <2> QED
      BY <1>2, <2>2 DEF ReadRow
  <1> QED
    BY <1>2

LEMMA ResultStays ==
    ASSUME ServerShaped, ServerShaped', NEW a \in Accounts, validity[a] <= validity'[a]
    PROVE  \A row, r : ResultShaped(a, row, r) => ResultShaped(a, row, r)'
  <1>1. validity[a] \in Int /\ validity'[a] \in Int
    BY DEF ServerShaped
  <1>2. \A n \in Int : n <= validity[a] => n <= validity'[a]
    BY <1>1
  <1> QED
    BY <1>2 DEF ResultShaped

LEMMA SyncStays ==
    ASSUME ServerShaped, ServerShaped'
    PROVE  \A s : /\ SyncShaped(s) /\ (s # Idle => validity[s.account] <= validity'[s.account])
                  /\ s # Idle => (account'[s.account].state = "new" <=>
                                     account[s.account].state = "new")
                  => SyncShaped(s)'
  <1> SUFFICES ASSUME NEW s, SyncShaped(s), s # Idle,
                      validity[s.account] <= validity'[s.account],
                      account'[s.account].state = "new" <=> account[s.account].state = "new"
               PROVE  SyncShaped(s)'
    BY DEF SyncShaped
  <1> DEFINE a == s.account
  <1>1. a \in Accounts
    BY DEF SyncShaped
  <1>2. \A row : ReadRow(a, row) => ReadRow(a, row)'
    BY <1>1, RowStays
  <1>3. \A row, r : ResultShaped(a, row, r) => ResultShaped(a, row, r)'
    BY <1>1, ResultStays
  <1> QED
    BY <1>2, <1>3 DEF SyncShaped

(* One client begins a sync, goes on with it or ends it.                   *)
LEMMA SyncsMove ==
    ASSUME ServerShaped, ServerShaped', SyncsShaped, validity' = validity, NEW c \in Clients,
           NEW s, sync' = [sync EXCEPT ![c] = s], SyncShaped(s)',
           \A d \in Clients \ {c} : sync[d] # Idle =>
              (account'[sync[d].account].state = "new" <=>
                 account[sync[d].account].state = "new"),
           s # Idle =>
              /\ account'[s.account].state = "new" <=> account[s.account].state = "new"
              /\ account[s.account].state = "new" =>
                    \A d \in Clients \ {c} : sync[d] = Idle \/ sync[d].account # s.account
    PROVE  SyncsShaped'
  <1>1. sync' = [d \in Clients |-> sync'[d]] /\ sync'[c] = s
    BY DEF SyncsShaped
  <1>2. \A d \in Clients \ {c} : sync'[d] = sync[d]
    BY DEF SyncsShaped
  <1>4. ASSUME NEW d \in Clients PROVE SyncShaped(sync[d])'
    <2>1. CASE d = c
      BY <1>1, <2>1
    <2>2. CASE d # c
      <3>1. sync'[d] = sync[d] /\ SyncShaped(sync[d])
        BY <1>2, <2>2 DEF SyncsShaped
      <3>2. sync[d] # Idle => sync[d].account \in Accounts
        BY <3>1 DEF SyncShaped
      <3>3. sync[d] # Idle => validity[sync[d].account] <= validity'[sync[d].account]
        BY <3>2 DEF ServerShaped
      <3>4. SyncShaped(sync[d])'
        BY <2>2, <3>1, <3>2, <3>3, SyncStays
      <3> QED
        BY <3>1, <3>4
    <2> QED
      BY <2>1, <2>2
  <1>5. ASSUME NEW d \in Clients PROVE Alone(d)'
    <2>1. SyncShaped(sync[d]) /\ Alone(d)
      BY DEF SyncsShaped
    <2>2. SyncShaped(s)'
      OBVIOUS
    <2>3. CASE d = c
      BY <1>1, <1>2, <2>3 DEF Alone
    <2>4. CASE d # c
      <3>1. sync'[d] = sync[d] /\ (sync[d] # Idle => sync[d].account \in Accounts)
        BY <1>2, <2>1, <2>4 DEF SyncShaped
      <3>2. \A e \in Clients \ {d, c} : sync'[e] = sync[e]
        BY <1>2
      <3> QED
        BY <1>1, <2>1, <2>4, <3>1, <3>2 DEF Alone
    <2> QED
      BY <2>3, <2>4
  <1> QED
    BY <1>1, <1>4, <1>5 DEF SyncsShaped

LEMMA SyncsStay ==
    ASSUME ServerShaped, ServerShaped', SyncsShaped, Steady, UNCHANGED sync
    PROVE  SyncsShaped'
  <1>1. ASSUME NEW d \in Clients PROVE SyncShaped(sync[d])' /\ Alone(d)'
    <2>1. SyncShaped(sync[d]) /\ Alone(d)
      BY DEF SyncsShaped
    <2>2. sync[d] # Idle => sync[d].account \in Accounts
      BY <2>1 DEF SyncShaped
    <2> QED
      BY <2>1, <2>2, SyncStays DEF Steady, Alone
  <1> QED
    BY <1>1 DEF SyncsShaped

LEMMA RoundStays ==
    ASSUME ServerShaped, ServerShaped', RoundShaped, Steady, UNCHANGED round
    PROVE  RoundShaped'
  <1>1. ASSUME NEW a \in round.left PROVE ReadRow(a, round.rows[a])'
    BY RowStays DEF RoundShaped, Steady
  <1> QED
    BY <1>1 DEF RoundShaped

LEMMA StoredStays ==
    ASSUME StoredShaped, UNCHANGED <<stored, made>>,
           \A a \in Accounts : account'[a].state = account[a].state
    PROVE  StoredShaped'
  BY DEF StoredShaped, RowsShaped, There

LEMMA ClicksStay ==
    ASSUME ClicksShaped, UNCHANGED click
    PROVE  ClicksShaped'
  BY DEF ClicksShaped

LEMMA MadeStays ==
    ASSUME MadeShaped, UNCHANGED <<tasks, events, made>>
    PROVE  MadeShaped'
  BY DEF MadeShaped

LEMMA ClickMoves ==
    ASSUME ClicksShaped, NEW t \in Tabs, NEW q, click' = [click EXCEPT ![t] = q], ClickShaped(q)
    PROVE  ClicksShaped'
  <1>1. click' = [u \in Tabs |-> click'[u]] /\ click'[t] = q
    BY DEF ClicksShaped
  <1>2. \A u \in Tabs \ {t} : click'[u] = click[u]
    BY DEF ClicksShaped
  <1>3. ASSUME NEW u \in Tabs PROVE ClickShaped(click'[u])
    BY <1>1, <1>2 DEF ClicksShaped
  <1> QED
    BY <1>1, <1>3 DEF ClicksShaped

LEMMA ClicksLose ==
    ASSUME ClicksShaped, NEW gone, Losing(gone)
    PROVE  ClicksShaped'
  <1> DEFINE q(t) == IF click[t] # Idle /\ Keyed(click[t].read) \cap gone # {}
                     THEN [click[t] EXCEPT !.kind = "lost"] ELSE click[t]
  <1>1. click' = [t \in Tabs |-> q(t)]
    BY DEF Losing
  <1>2. ASSUME NEW t \in Tabs PROVE ClickShaped(q(t))
    <2>1. ClickShaped(click[t])
      BY DEF ClicksShaped
    <2>2. CASE q(t) = click[t]
      BY <2>1, <2>2
    <2>3. ASSUME q(t) # click[t] PROVE ClickShaped(q(t))
      <3>1. /\ click[t] # Idle /\ q(t) = [click[t] EXCEPT !.kind = "lost"]
            /\ click[t] = [kind |-> click[t].kind, read |-> click[t].read]
        BY <2>1, <2>3 DEF ClickShaped
      <3>2. q(t) = [kind |-> "lost", read |-> click[t].read]
        BY <3>1
      <3> HIDE DEF q
      <3> QED
        BY <3>2 DEF ClickShaped
    <2> QED
      BY <2>2, <2>3
  <1> HIDE DEF q
  <1>3. click' = [t \in Tabs |-> click'[t]] /\ \A t \in Tabs : click'[t] = q(t)
    BY <1>1
  <1>4. ASSUME NEW t \in Tabs PROVE ClickShaped(click'[t])
    BY <1>2, <1>3
  <1> QED
    BY <1>3, <1>4 DEF ClicksShaped

-----------------------------------------------------------------------------
(***************************************************************************)
(* What a fetch brings.                                                    *)
(***************************************************************************)
Matches(a, S) == \A x \in S : uid[a][x.mail] = x.uid
Reached(a, l) == l = 0 \/ \E n \in Uids(a) : l <= n

LEMMA UidsAre ==
    ASSUME ServerShaped, NEW a \in Accounts
    PROVE  /\ Uids(a) \subseteq Nat \ {0} /\ IsFiniteSet(Uids(a))
           /\ \A n \in Uids(a) : MailOf(a, n) \in Mails /\ uid[a][MailOf(a, n)] = n
           /\ \A mails \in SUBSET Mails : Uidsof(a, mails) \subseteq Uids(a)
  <1>1. uid[a] \in [Mails -> Nat]
    BY DEF ServerShaped
  <1>2. IsFiniteSet({uid[a][m] : m \in Mails})
    <2> DEFINE f == uid[a]
    <2>1. f = [m \in Mails |-> f[m]]
      BY <1>1
    <2> HIDE DEF f
    <2>2. IsFiniteSet({f[m] : m \in Mails})
      BY <2>1, ImageIsFinite, MailAssumption
    <2> QED
      BY <2>2 DEF f
  <1>3. IsFiniteSet(Uids(a))
    BY <1>2, FS_Subset DEF Uids
  <1>4. Uids(a) \subseteq Nat \ {0}
    BY <1>1 DEF Uids
  <1>5. ASSUME NEW n \in Uids(a) PROVE MailOf(a, n) \in Mails /\ uid[a][MailOf(a, n)] = n
    <2>1. \E m \in Mails : uid[a][m] = n
      BY DEF Uids
    <2> QED
      BY <2>1 DEF MailOf
  <1>6. \A mails \in SUBSET Mails : Uidsof(a, mails) \subseteq Uids(a)
    BY DEF Uids, Uidsof
  <1> QED
    BY <1>3, <1>4, <1>5, <1>6

LEMMA TopIs ==
    ASSUME NEW S, S \subseteq Nat \ {0}, IsFiniteSet(S)
    PROVE  /\ Top(S) \in Nat /\ (Top(S) = 0 <=> S = {}) /\ (S # {} => Top(S) \in S)
           /\ \A y \in S : y <= Top(S)
  <1>1. CASE S = {}
    BY <1>1 DEF Top
  <1>2. CASE S # {}
    <2>1. Max(S) \in S /\ \A y \in S : y <= Max(S)
      <3>1. S \subseteq Int
        OBVIOUS
      <3> QED
        BY <1>2, <3>1, LargestOf
    <2> QED
      BY <1>2, <2>1 DEF Top
  <1> QED
    BY <1>1, <1>2

(* The mails of a result are those that have the numbers.                  *)
LEMMA LettersAre ==
    ASSUME ServerShaped, NEW a \in Accounts, NEW read, read \subseteq Uids(a),
           NEW S, S = {[uid |-> n, mail |-> MailOf(a, n)] : n \in read}
    PROVE  /\ LettersShaped(a, S) /\ Matches(a, S)
           /\ \A n \in read : \E x \in S : x.uid = n
  <1>1. \A n \in read : /\ n \in Nat \ {0} /\ MailOf(a, n) \in Mails
                        /\ uid[a][MailOf(a, n)] = n
    BY UidsAre
  <1>2. \A n \in read : Mailbox[MailOf(a, n)] = a
    BY <1>1 DEF ServerShaped
  <1> DEFINE f == [n \in read |-> [uid |-> n, mail |-> MailOf(a, n)]]
  <1>3. IsFiniteSet(S)
    <2>1. IsFiniteSet(read)
      BY UidsAre, FS_Subset
    <2>2. f = [n \in read |-> f[n]] /\ S = {f[n] : n \in read}
      OBVIOUS
    <2> HIDE DEF f
    <2> QED
      BY <2>1, <2>2, ImageIsFinite
  <1>4. \A x \in S : x.uid \in read /\ x = [uid |-> x.uid, mail |-> MailOf(a, x.uid)]
    OBVIOUS
  <1>5. ASSUME NEW x \in S PROVE x \in Letter /\ Mailbox[x.mail] = a /\ uid[a][x.mail] = x.uid
    <2>1. x.uid \in read /\ x = [uid |-> x.uid, mail |-> MailOf(a, x.uid)]
      BY <1>4
    <2> HIDE DEF MailOf
    <2> QED
      BY <1>1, <1>2, <2>1 DEF Letter
  <1>6. ASSUME NEW x \in S, NEW y \in S PROVE x.uid = y.uid <=> x.mail = y.mail
    <2>1. x.mail = MailOf(a, x.uid) /\ y.mail = MailOf(a, y.uid)
      BY <1>4
    <2>2. uid[a][x.mail] = x.uid /\ uid[a][y.mail] = y.uid
      BY <1>5
    <2> QED
      BY <2>1, <2>2
  <1>7. \A n \in read : [uid |-> n, mail |-> MailOf(a, n)] \in S
    OBVIOUS
  <1>8. \A n \in read : \E x \in S : x.uid = n
    BY <1>7
  <1> QED
    BY <1>3, <1>5, <1>6, <1>8 DEF LettersShaped, Matches

(* A fetch goes on from the last number it knows: what lies between that   *)
(* and the last one it returns is read or left out for good.               *)
LEMMA ResultIs ==
    ASSUME ServerShaped, NEW a \in Accounts, NEW row, row.last \in Nat,
           NEW limit, limit \in Nat \ {0}, NEW r, r = Result(a, row, limit)
    PROVE  /\ r.validity = validity[a] /\ r.last \in Nat
           /\ LettersShaped(a, r.mails) /\ Matches(a, r.mails)
           /\ Reached(a, LastKnown(a, row)) => Reached(a, r.last)
           /\ \A n \in Uids(a) : LastKnown(a, row) < n /\ n <= r.last =>
                 (\E x \in r.mails : x.uid = n) \/ n \in r.rest
  <1> DEFINE last == LastKnown(a, row)
             found == IF last > 0 THEN {n \in Uids(a) : n > last} ELSE Uidsof(a, recent)
             chosen == Chosen(found, last, limit)
             new == IF last = 0 THEN Top(found) ELSE IF chosen = {} THEN last ELSE Max(chosen)
             read == {n \in chosen : Readable(MailOf(a, n))}
             rest == IF last > 0 THEN chosen \ read ELSE {n \in Uids(a) : n <= new} \ read
             mails == {[uid |-> n, mail |-> MailOf(a, n)] : n \in read}
  <1>1. r = [validity |-> validity[a], last |-> new, mails |-> mails, rest |-> rest]
    BY DEF Result
  <1>2. last \in Nat
    BY DEF LastKnown
  <1> HIDE DEF last
  <1>3. found \subseteq Uids(a) /\ recent \subseteq Mails
    BY UidsAre DEF ServerShaped
  <1>4. found \subseteq Nat \ {0} /\ found \subseteq Int /\ IsFiniteSet(found)
    BY <1>3, UidsAre, FS_Subset
  <1>5. /\ chosen \subseteq found /\ IsFiniteSet(chosen)
        /\ last > 0 => \A x \in chosen, y \in found : y <= x => y \in chosen
    <2> HIDE DEF found
    <2>1. chosen \subseteq found
      BY DEF Chosen, Lowest, Highest
    <2>2. IsFiniteSet(chosen)
      BY <1>4, <2>1, FS_Subset
    <2>3. ASSUME last > 0 PROVE \A x \in chosen, y \in found : y <= x => y \in chosen
      <3>1. chosen = Lowest(found, limit)
        BY <2>3 DEF Chosen
      <3> HIDE DEF chosen
      <3> QED
        BY <1>4, <3>1, LowestIsLow
    <2> QED
      BY <2>1, <2>2, <2>3
  <1>6. chosen # {} => Max(chosen) \in chosen /\ \A y \in chosen : y <= Max(chosen)
    <2>1. chosen \subseteq Int
      BY <1>4, <1>5
    <2> HIDE DEF chosen
    <2> QED
      BY <1>5, <2>1, LargestOf
  <1>7. Top(found) \in Nat /\ (Top(found) = 0 \/ Top(found) \in found)
    <2> HIDE DEF found
    <2> QED
      BY <1>4, TopIs
  <1>8. new \in Nat
    <2> HIDE DEF found, chosen
    <2> QED
      BY <1>2, <1>4, <1>5, <1>6, <1>7
  <1>9. Reached(a, last) => Reached(a, new)
    <2> HIDE DEF found, chosen
    <2>1. \A n \in Uids(a) : n <= n
      BY UidsAre
    <2>2. CASE last = 0
      BY <1>3, <1>7, <2>1, <2>2 DEF Reached
    <2>3. CASE last # 0 /\ chosen = {}
      BY <2>3
    <2>4. CASE last # 0 /\ chosen # {}
      <3>1. new = Max(chosen) /\ Max(chosen) \in Uids(a)
        BY <1>3, <1>5, <1>6, <2>4
      <3> QED
        BY <2>1, <3>1 DEF Reached
    <2> QED
      BY <2>2, <2>3, <2>4
  <1>10. read \subseteq Uids(a)
    BY <1>3, <1>5
  <1>11. LettersShaped(a, mails) /\ Matches(a, mails) /\ \A n \in read : \E x \in mails : x.uid = n
    <2> HIDE DEF read
    <2> QED
      BY <1>10, LettersAre
  <1>12. ASSUME NEW n \in Uids(a), last < n, n <= new PROVE n \in read \/ n \in rest
    <2> HIDE DEF read
    <2>1. CASE last = 0
      BY <1>12, <2>1
    <2>2. CASE last # 0
      <3>1. last > 0
        BY <1>2, <2>2
      <3>2. n \in found /\ n \in Nat
        BY <1>12, <3>1, UidsAre
      <3>3. chosen # {}
        <4> HIDE DEF chosen, found
        <4> QED
          BY <1>2, <1>12, <3>1, <3>2
      <3>4. Max(chosen) \in chosen /\ n <= Max(chosen)
        <4> HIDE DEF chosen, found
        <4> QED
          BY <1>6, <1>12, <2>2, <3>3
      <3>5. n \in chosen
        <4> HIDE DEF chosen, found
        <4> QED
          BY <1>5, <3>1, <3>2, <3>4
      <3> QED
        BY <3>1, <3>5
    <2> QED
      BY <2>1, <2>2
  <1> HIDE DEF new, read, rest, mails
  <1>13. r.validity = validity[a] /\ r.last = new /\ r.mails = mails /\ r.rest = rest
    BY <1>1
  <1> QED
    BY <1>8, <1>9, <1>11, <1>12, <1>13 DEF last

-----------------------------------------------------------------------------
(***************************************************************************)
(* The mail server keeps its shape, and what is known of it stays true.    *)
(***************************************************************************)
LEMMA ArriveKeepsServer ==
    ASSUME ServerShaped, NEW a \in Accounts, NEW m \in Mails, Arrive(a, m)
    PROVE  /\ ServerShaped'
           /\ \A n \in Mails : n # m => uid'[a][n] = uid[a][n]
           /\ \A b \in Accounts \ {a} : uid'[b] = uid[b]
           /\ uid[a][m] = 0 /\ uid'[a][m] \in Nat /\ \A n \in Uids(a) : n < uid'[a][m]
  <1> DEFINE new == Top(Uids(a)) + 1
  <1>1. /\ Mailbox[m] = a /\ uid[a][m] = 0
        /\ uid' = [uid EXCEPT ![a][m] = new] /\ UNCHANGED <<validity, recent>>
    BY DEF Arrive
  <1>2. new \in Nat /\ new # 0 /\ \A n \in Uids(a) : n < new
    <2>1. Uids(a) \subseteq Nat \ {0} /\ IsFiniteSet(Uids(a))
      BY UidsAre
    <2>2. Top(Uids(a)) \in Nat /\ \A n \in Uids(a) : n <= Top(Uids(a))
      BY <2>1, TopIs
    <2> QED
      BY <2>1, <2>2
  <1>3. \A n \in Mails : uid[a][n] # new
    <2>1. \A n \in Mails : uid[a][n] # 0 => uid[a][n] \in Uids(a)
      BY DEF Uids
    <2>2. \A n \in Uids(a) : n # new
      BY <1>2, UidsAre
    <2> QED
      BY <1>2, <2>1, <2>2
  <1> HIDE DEF new
  <1>4. /\ uid' \in [Accounts -> [Mails -> Nat]] /\ uid'[a][m] = new
        /\ \A n \in Mails : n # m => uid'[a][n] = uid[a][n]
        /\ \A b \in Accounts \ {a} : uid'[b] = uid[b]
    BY <1>1, <1>2 DEF ServerShaped
  <1>5. ASSUME NEW b \in Accounts, NEW n \in Mails, uid'[b][n] # 0 PROVE Mailbox[n] = b
    BY <1>1, <1>4, <1>5 DEF ServerShaped
  <1>6. ASSUME NEW b \in Accounts, NEW k \in Mails, NEW n \in Mails,
               uid'[b][k] = uid'[b][n], uid'[b][k] # 0
        PROVE  k = n
    <2>1. CASE b # a
      BY <1>4, <1>6, <2>1 DEF ServerShaped
    <2>2. CASE b = a
      BY <1>3, <1>4, <1>6, <2>2 DEF ServerShaped
    <2> QED
      BY <2>1, <2>2
  <1> QED
    BY <1>1, <1>2, <1>4, <1>5, <1>6 DEF ServerShaped

LEMMA RenumberKeepsServer ==
    ASSUME ServerShaped, NEW a \in Accounts, NEW mails \in SUBSET Mails, Renumber(a, mails)
    PROVE  /\ ServerShaped' /\ validity'[a] = validity[a] + 1
           /\ \A b \in Accounts \ {a} : validity'[b] = validity[b] /\ uid'[b] = uid[b]
  <1> DEFINE Before(m) == {n \in mails : uid[a][n] <= uid[a][m]}
             f == [m \in Mails |-> IF m \in mails THEN Cardinality(Before(m)) ELSE 0]
  <1>1. /\ \A m \in mails : uid[a][m] # 0
        /\ validity' = [validity EXCEPT ![a] = @ + 1] /\ uid' = [uid EXCEPT ![a] = f]
        /\ UNCHANGED recent
    BY DEF Renumber
  <1>2. \A m \in mails : IsFiniteSet(Before(m)) /\ Cardinality(Before(m)) \in Nat
    <2>1. IsFiniteSet(mails)
      BY MailAssumption, FS_Subset
    <2> QED
      BY <2>1, FS_Subset, FS_CardinalityType
  <1>3. ASSUME NEW k \in mails, NEW n \in mails, uid[a][k] < uid[a][n]
        PROVE  Cardinality(Before(k)) < Cardinality(Before(n))
    <2>1. uid[a][k] \in Int /\ uid[a][n] \in Int /\ \A m \in mails : uid[a][m] \in Int
      BY DEF ServerShaped
    <2>2. Before(k) \subseteq Before(n)
      BY <1>3, <2>1
    <2>3. n \in Before(n) /\ n \notin Before(k)
      BY <1>3, <2>1
    <2> HIDE DEF Before
    <2>4. /\ Cardinality(Before(k)) <= Cardinality(Before(n))
          /\ Before(k) # Before(n)
          /\ Cardinality(Before(k)) = Cardinality(Before(n)) => Before(k) = Before(n)
      BY <1>2, <2>2, <2>3, FS_Subset
    <2> QED
      BY <1>2, <2>4
  <1>4. \A k, n \in mails : Cardinality(Before(k)) = Cardinality(Before(n)) => k = n
    <2> SUFFICES ASSUME NEW k \in mails, NEW n \in mails, k # n
                 PROVE  Cardinality(Before(k)) # Cardinality(Before(n))
      OBVIOUS
    <2>1. uid[a][k] \in Int /\ uid[a][n] \in Int /\ uid[a][k] # uid[a][n]
      BY <1>1 DEF ServerShaped
    <2>2. uid[a][k] < uid[a][n] \/ uid[a][n] < uid[a][k]
      BY <2>1
    <2> HIDE DEF Before
    <2>3. Cardinality(Before(k)) \in Nat /\ Cardinality(Before(n)) \in Nat
      BY <1>2
    <2> QED
      BY <1>3, <2>2, <2>3
  <1> HIDE DEF Before
  <1>5. f \in [Mails -> Nat] /\ \A m \in Mails : f[m] # 0 => m \in mails
    BY <1>2
  <1>6. \A k, n \in Mails : f[k] = f[n] /\ f[k] # 0 => k = n
    BY <1>4, <1>5
  <1> HIDE DEF f
  <1>7. /\ uid' \in [Accounts -> [Mails -> Nat]] /\ uid'[a] = f
        /\ validity' \in [Accounts -> Nat \ {0}] /\ validity'[a] = validity[a] + 1
        /\ \A b \in Accounts \ {a} : validity'[b] = validity[b] /\ uid'[b] = uid[b]
    BY <1>1, <1>5 DEF ServerShaped
  <1>8. ASSUME NEW b \in Accounts, NEW n \in Mails, uid'[b][n] # 0 PROVE Mailbox[n] = b
    BY <1>1, <1>5, <1>7, <1>8 DEF ServerShaped
  <1>9. ASSUME NEW b \in Accounts, NEW k \in Mails, NEW n \in Mails,
               uid'[b][k] = uid'[b][n], uid'[b][k] # 0
        PROVE  k = n
    <2>1. CASE b # a
      BY <1>7, <1>9, <2>1 DEF ServerShaped
    <2>2. CASE b = a
      BY <1>6, <1>7, <1>9, <2>2
    <2> QED
      BY <2>1, <2>2
  <1> QED
    BY <1>1, <1>7, <1>8, <1>9 DEF ServerShaped

LEMMA ServerKeepsShape ==
    ASSUME TInv, ServerNext
    PROVE  TInv'
  <1>1. /\ ServerShaped' /\ ServerStep /\ Op
        /\ \A a \in Accounts : validity[a] <= validity'[a]
    <2>1. \A a \in Accounts : validity[a] \in Nat
      BY DEF TInv, ServerShaped
    <2>2. ASSUME NEW a \in Accounts, NEW m \in Mails, Arrive(a, m) PROVE <1>1!:
      <3>1. validity' = validity /\ ServerStep /\ Op
        BY <2>2 DEF Arrive
      <3>2. ServerShaped'
        BY <2>2, ArriveKeepsServer DEF TInv
      <3> QED
        BY <2>1, <3>1, <3>2
    <2>3. ASSUME NEW a \in Accounts, NEW mails \in SUBSET Mails, Renumber(a, mails) PROVE <1>1!:
      <3>1. ServerStep /\ Op
        BY <2>3 DEF Renumber
      <3>2. /\ ServerShaped' /\ validity'[a] = validity[a] + 1
            /\ \A b \in Accounts \ {a} : validity'[b] = validity[b]
        BY <2>3, RenumberKeepsServer DEF TInv
      <3>3. \A b \in Accounts : validity[b] <= validity'[b]
        BY <2>1, <3>2
      <3> QED
        BY <3>1, <3>2, <3>3
    <2>4. ASSUME NEW m \in Mails, Age(m) PROVE <1>1!:
      BY <2>1, <2>4 DEF TInv, Age, ServerShaped
    <2> QED
      BY <2>2, <2>3, <2>4 DEF ServerNext
  <1>2. Steady /\ UNCHANGED <<rule, account, stored, due, round, sync, click, tasks, events, made>>
    BY <1>1 DEF Steady, ServerStep, madeVars
  <1>3. AccountsShaped'
    <2>1. ASSUME NEW a \in Accounts PROVE AccountShaped(a)'
      <3>1. validity[a] \in Int /\ validity'[a] \in Int /\ account[a].validity \in Int
        BY <1>1 DEF TInv, ServerShaped, AccountsShaped, AccountRow
      <3>2. account[a].validity <= validity[a] /\ validity[a] <= validity'[a]
        BY <1>1 DEF TInv, AccountsShaped, AccountShaped
      <3>3. account[a].validity <= validity'[a]
        BY <3>1, <3>2
      <3> QED
        BY <1>2, <3>3 DEF TInv, AccountsShaped, AccountShaped, There
    <2> QED
      BY <1>2, <2>1 DEF TInv, AccountsShaped, There
  <1> QED
    BY <1>1, <1>2, <1>3, StoredStays, RoundStays, SyncsStay, ClicksStay, MadeStays, BoundsMove
       DEF TInv

-----------------------------------------------------------------------------
(***************************************************************************)
(* Syncs begin, fetch and end.                                             *)
(***************************************************************************)
LEMMA NothingElse ==
    ASSUME TInv, UNCHANGED <<serverVars, rule, account, due, stored, tasks, events, made>>
    PROVE  /\ ServerShaped' /\ AccountsShaped' /\ StoredShaped' /\ MadeShaped'
           /\ Steady /\ validity' = validity
  <1>1. ServerShaped' /\ validity' = validity
    BY DEF TInv, ServerShaped, serverVars
  <1>2. AccountsShaped'
    BY DEF TInv, AccountsShaped, AccountShaped, There, serverVars
  <1>3. Steady
    BY DEF TInv, Steady, ServerShaped, serverVars
  <1> QED
    BY <1>1, <1>2, <1>3, StoredStays, MadeStays DEF TInv

LEMMA AccountIsRead ==
    ASSUME TInv, NEW a \in Accounts, There(a)
    PROVE  ReadRow(a, account[a])
  BY DEF TInv, AccountsShaped, AccountShaped, ReadRow, There

LEMMA SyncingIsShaped ==
    ASSUME NEW a \in Accounts, NEW row, NEW limit \in Nat \ {0}, NEW locks,
           (row = NoAccount /\ account[a].state = "new") \/ ReadRow(a, row)
    PROVE  /\ SyncShaped(Syncing(a, row, limit, locks))
           /\ Syncing(a, row, limit, locks) # Idle
           /\ Syncing(a, row, limit, locks).account = a
           /\ Syncing(a, row, limit, locks).kind = "read"
           /\ Syncing(a, row, limit, locks).row = row
  <1> DEFINE s == Syncing(a, row, limit, locks)
  <1>1. s.kind = "read" /\ s.account = a /\ s.row = row /\ s.limit = limit
    BY DEF Syncing
  <1> HIDE DEF s
  <1>2. s # Idle
    BY <1>1 DEF Idle
  <1>3. SyncShaped(s)
    BY <1>1 DEF SyncShaped
  <1> QED
    BY <1>1, <1>2, <1>3 DEF s

(* The syncs that people begin.                                            *)
Starts(c, a) ==
    \/ AddAccount(c, a) \/ SyncNow(c, a) \/ ChangePassword(c, a)

LEMMA StartsAre ==
    ASSUME TInv, NEW c \in Clients, NEW a \in Accounts, Starts(c, a)
    PROVE  \E s : /\ sync[c] = Idle /\ sync' = [sync EXCEPT ![c] = s]
                  /\ s # Idle /\ s.kind = "read" /\ s.account = a /\ SyncShaped(s)
                  /\ s.row = NoAccount \/ s.row = account[a]
                  /\ account[a].state = "new" =>
                        \A d \in Clients : sync[d] = Idle \/ sync[d].account # a
                  /\ UNCHANGED <<serverVars, rule, account, stored, due, round, click, madeVars,
                                 historyVars>>
                  /\ Op
  <1>1. CASE AddAccount(c, a)
    <2>1. FirstBatch \in Nat \ {0} /\ account[a].state = "new"
      BY <1>1, MailAssumption DEF AddAccount
    <2> DEFINE s == Syncing(a, NoAccount, FirstBatch, FALSE)
    <2>2. /\ s # Idle /\ s.kind = "read" /\ s.account = a /\ SyncShaped(s)
          /\ s.row = NoAccount
      <3>1. /\ s.kind = "read" /\ s.account = a /\ s.row = NoAccount /\ s.limit = FirstBatch
        BY DEF Syncing
      <3> HIDE DEF s
      <3>2. s # Idle
        BY <3>1 DEF Idle
      <3> QED
        BY <2>1, <3>1, <3>2 DEF SyncShaped
    <2> HIDE DEF s
    <2>3. /\ sync[c] = Idle /\ sync' = [sync EXCEPT ![c] = s]
          /\ \A d \in Clients : sync[d] = Idle \/ sync[d].account # a
          /\ UNCHANGED <<serverVars, rule, account, stored, due, round, click, madeVars,
                         historyVars>>
          /\ Op
      BY <1>1 DEF AddAccount, s
    <2> QED
      BY <2>2, <2>3
  <1>2. CASE SyncNow(c, a)
    <2>1. Batch \in Nat \ {0} /\ ReadRow(a, account[a])
      BY <1>2, MailAssumption, AccountIsRead DEF SyncNow
    <2> QED
      BY <1>2, <2>1, SyncingIsShaped DEF SyncNow, There
  <1>3. CASE ChangePassword(c, a)
    <2>1. Batch \in Nat \ {0} /\ ReadRow(a, account[a])
      BY <1>3, MailAssumption, AccountIsRead DEF ChangePassword
    <2> QED
      BY <1>3, <2>1, SyncingIsShaped DEF ChangePassword, There
  <1> QED
    BY <1>1, <1>2, <1>3 DEF Starts

LEMMA StartsKeepShape ==
    ASSUME TInv, NEW c \in Clients, NEW a \in Accounts, Starts(c, a)
    PROVE  TInv'
  <1>1. PICK s : /\ sync[c] = Idle /\ sync' = [sync EXCEPT ![c] = s]
                 /\ s # Idle /\ s.account = a /\ SyncShaped(s)
                 /\ account[a].state = "new" =>
                       \A d \in Clients : sync[d] = Idle \/ sync[d].account # a
                 /\ UNCHANGED <<serverVars, rule, account, stored, due, round, click, madeVars,
                                historyVars>>
                 /\ Op
    BY StartsAre
  <1>2. UNCHANGED <<serverVars, rule, account, stored, due, round, click, tasks, events, made>>
    BY <1>1 DEF madeVars
  <1>3. /\ ServerShaped' /\ AccountsShaped' /\ StoredShaped' /\ MadeShaped' /\ Steady
        /\ validity' = validity
    BY <1>2, NothingElse
  <1>4. SyncShaped(s)'
    <2>1. validity[s.account] <= validity'[s.account]
      BY <1>1, <1>3 DEF Steady
    <2> QED
      BY <1>1, <1>2, <1>3, <2>1, SyncStays DEF TInv
  <1>5. SyncsShaped'
    BY <1>1, <1>2, <1>3, <1>4, SyncsMove DEF TInv
  <1> QED
    BY <1>1, <1>2, <1>3, <1>5, RoundStays, ClicksStay, BoundsMove DEF TInv

LEMMA WorkerStartsAre ==
    ASSUME TInv, NEW a \in Accounts, WorkerSync(a)
    PROVE  \E s : /\ sync[Worker] = Idle /\ sync' = [sync EXCEPT ![Worker] = s]
                  /\ s # Idle /\ s.kind = "read" /\ s.account = a /\ SyncShaped(s)
                  /\ a \in round.left /\ s.row = round.rows[a] /\ account[a].state # "new"
  <1>1. a \in round.left /\ Batch \in Nat \ {0} /\ ReadRow(a, round.rows[a])
    BY MailAssumption DEF WorkerSync, TInv, RoundShaped
  <1> QED
    BY <1>1, SyncingIsShaped DEF WorkerSync, ReadRow

LEMMA WorkerKeepsShape ==
    ASSUME TInv, WorkerNext
    PROVE  TInv'
  <1>1. ASSUME StartRound PROVE TInv'
    <2>1. /\ round' = [left |-> Overdue, rows |-> account]
          /\ UNCHANGED <<serverVars, rule, account, stored, due, sync, click, tasks, events, made,
                         ops, faults>>
      BY <1>1 DEF StartRound, madeVars
    <2>2. ServerShaped' /\ AccountsShaped' /\ StoredShaped' /\ MadeShaped' /\ Steady
      BY <2>1, NothingElse
    <2>3. \A a \in Accounts : ReadRow(a, account[a]) => ReadRow(a, account[a])'
      BY <2>1 DEF ReadRow, serverVars
    <2>4. Overdue \subseteq due /\ due \subseteq Accounts /\ \A a \in due : There(a)
      BY DEF Overdue, TInv, AccountsShaped
    <2>5. RoundShaped'
      <3>1. round'.left = Overdue /\ round'.rows = account
        BY <2>1
      <3>2. \A a \in Overdue : ReadRow(a, account[a])
        BY <2>4, AccountIsRead
      <3>3. account' = account
        BY <2>1
      <3>4. \A a \in round'.left : ReadRow(a, round.rows[a])'
        BY <2>1, <2>3, <2>4, <3>1, <3>2, <3>3 DEF ReadRow, serverVars
      <3> QED
        BY <2>1, <2>4, <3>1, <3>4 DEF RoundShaped
    <2> QED
      BY <2>1, <2>2, <2>5, SyncsStay, ClicksStay, BoundsMove DEF TInv
  <1>2. ASSUME NEW a \in Accounts, WorkerSync(a) PROVE TInv'
    <2>1. /\ round' = [round EXCEPT !.left = @ \ {a}]
          /\ UNCHANGED <<serverVars, rule, account, stored, due, click, tasks, events, made, ops,
                         faults>>
      BY <1>2 DEF WorkerSync, madeVars, boundVars
    <2>2. /\ ServerShaped' /\ AccountsShaped' /\ StoredShaped' /\ MadeShaped' /\ Steady
          /\ validity' = validity
      BY <2>1, NothingElse
    <2>3. PICK s : /\ sync[Worker] = Idle /\ sync' = [sync EXCEPT ![Worker] = s]
                   /\ s # Idle /\ s.account = a /\ SyncShaped(s) /\ account[a].state # "new"
      BY <1>2, WorkerStartsAre
    <2>4. SyncShaped(s)'
      <3>1. validity[s.account] <= validity'[s.account]
        BY <2>2, <2>3 DEF Steady
      <3> QED
        BY <2>1, <2>2, <2>3, <3>1, SyncStays DEF TInv
    <2>5. SyncsShaped'
      <3>1. Worker \in Clients
        BY DEF Clients
      <3> QED
        BY <2>1, <2>2, <2>3, <2>4, <3>1, SyncsMove DEF TInv
    <2>6. RoundShaped'
      <3>1. /\ round = [left |-> round.left, rows |-> round.rows]
            /\ \A b \in round.left : ReadRow(b, round.rows[b]) /\ b \in Accounts
        BY DEF TInv, RoundShaped
      <3>2. round'.left = round.left \ {a} /\ round'.rows = round.rows
            /\ round' = [left |-> round'.left, rows |-> round'.rows]
        BY <2>1, <3>1
      <3>3. \A b \in Accounts : \A row : ReadRow(b, row) => ReadRow(b, row)'
        BY <2>2, RowStays DEF TInv, Steady
      <3>4. \A b \in round'.left : ReadRow(b, round.rows[b])'
        BY <3>1, <3>2, <3>3
      <3> QED
        BY <3>1, <3>2, <3>4 DEF RoundShaped
    <2> QED
      BY <2>1, <2>2, <2>5, <2>6, ClicksStay, BoundsMove DEF TInv
  <1> QED
    BY <1>1, <1>2 DEF WorkerNext

LEMMA FetchIs ==
    ASSUME TInv, NEW c \in Clients, Fetch(c)
    PROVE  /\ sync[c] # Idle /\ sync[c].kind = "read" /\ sync[c].account \in Accounts
           /\ sync[c].row.last \in Nat /\ sync[c].limit \in Nat \ {0}
           /\ \E s : /\ sync' = [sync EXCEPT ![c] = s] /\ sync'[c] = s
                     /\ s # Idle /\ s.kind = "apply"
                     /\ s.account = sync[c].account /\ s.row = sync[c].row
                     /\ s.result = Result(sync[c].account, sync[c].row, sync[c].limit)
           /\ UNCHANGED <<serverVars, rule, account, stored, due, round, click, madeVars,
                          historyVars, boundVars>>
  <1> DEFINE s == [kind |-> "apply", account |-> sync[c].account, row |-> sync[c].row,
                   locks |-> sync[c].locks,
                   result |-> Result(sync[c].account, sync[c].row, sync[c].limit)]
  <1>1. /\ sync[c].kind = "read" /\ sync' = [sync EXCEPT ![c] = s]
        /\ UNCHANGED <<serverVars, rule, account, stored, due, round, click, madeVars,
                       historyVars, boundVars>>
    BY DEF Fetch
  <1>2. sync[c] # Idle /\ SyncShaped(sync[c])
    BY <1>1 DEF Idle, TInv, SyncsShaped
  <1>3. sync[c].row.last \in Nat
    BY <1>2 DEF SyncShaped, ReadRow, AccountRow, NoAccount
  <1>4. /\ s.kind = "apply" /\ s.account = sync[c].account /\ s.row = sync[c].row
        /\ s.result = Result(sync[c].account, sync[c].row, sync[c].limit)
    OBVIOUS
  <1> HIDE DEF s
  <1>5. s # Idle
    BY <1>4 DEF Idle
  <1>6. sync'[c] = s
    BY <1>1 DEF TInv, SyncsShaped
  <1> QED
    BY <1>1, <1>2, <1>3, <1>4, <1>5, <1>6 DEF SyncShaped

LEMMA FetchKeepsShape ==
    ASSUME TInv, NEW c \in Clients, Fetch(c)
    PROVE  TInv'
  <1> DEFINE a == sync[c].account
             row == sync[c].row
  <1>1. /\ sync[c] # Idle /\ sync[c].kind = "read" /\ a \in Accounts /\ row.last \in Nat
        /\ sync[c].limit \in Nat \ {0}
        /\ UNCHANGED <<serverVars, rule, account, stored, due, round, click, tasks, events, made,
                       ops, faults>>
    BY FetchIs DEF madeVars, boundVars
  <1>2. PICK s : /\ sync' = [sync EXCEPT ![c] = s] /\ s # Idle /\ s.kind = "apply"
                 /\ s.account = a /\ s.row = row /\ s.result = Result(a, row, sync[c].limit)
    BY FetchIs
  <1>3. /\ ServerShaped' /\ AccountsShaped' /\ StoredShaped' /\ MadeShaped' /\ Steady
        /\ validity' = validity
    BY <1>1, NothingElse
  <1>4. SyncShaped(sync[c]) /\ Alone(c) /\ validity[a] \in Nat \ {0} /\ validity[a] <= validity[a]
    BY <1>1 DEF TInv, SyncsShaped, ServerShaped
  <1>5. (row = NoAccount /\ account[a].state = "new") \/ ReadRow(a, row)
    BY <1>1, <1>4 DEF SyncShaped
  <1>6. ResultShaped(a, row, s.result)
    <2>1. /\ s.result.validity = validity[a] /\ s.result.last \in Nat
          /\ LettersShaped(a, s.result.mails)
      BY <1>1, <1>2, ResultIs DEF TInv
    <2>2. row.validity <= validity[a]
      BY <1>4, <1>5 DEF NoAccount, ReadRow
    <2> QED
      BY <1>4, <2>1, <2>2 DEF ResultShaped
  <1>7. SyncShaped(s)
    BY <1>1, <1>2, <1>5, <1>6 DEF SyncShaped
  <1>8. SyncShaped(s)'
    BY <1>1, <1>2, <1>3, <1>4, <1>7, SyncStays DEF TInv
  <1>9. \A b \in Accounts : account'[b].state = "new" <=> account[b].state = "new"
    BY <1>1
  <1> HIDE DEF row
  <1>10. account[a].state = "new" =>
            \A d \in Clients \ {c} : sync[d] = Idle \/ sync[d].account # a
    BY <1>1, <1>4 DEF Alone
  <1> HIDE DEF a
  <1>11. SyncsShaped'
    BY <1>1, <1>2, <1>3, <1>8, <1>9, <1>10, SyncsMove DEF TInv
  <1> QED
    BY <1>1, <1>3, <1>11, RoundStays, ClicksStay, BoundsMove DEF TInv

LEMMA RoundShrinks ==
    ASSUME TInv, ServerShaped', Steady, NEW left, left \subseteq round.left,
           round' = [round EXCEPT !.left = left]
    PROVE  /\ RoundShaped' /\ round'.left = left /\ round'.rows = round.rows
  <1>1. /\ round = [left |-> round.left, rows |-> round.rows]
        /\ \A b \in round.left : ReadRow(b, round.rows[b]) /\ b \in Accounts
    BY DEF TInv, RoundShaped
  <1>2. /\ round'.left = left /\ round'.rows = round.rows
        /\ round' = [left |-> round'.left, rows |-> round'.rows]
    BY <1>1
  <1>3. \A b \in Accounts : \A row : ReadRow(b, row) => ReadRow(b, row)'
    BY RowStays DEF TInv, Steady
  <1>4. \A b \in round'.left : ReadRow(b, round.rows[b])'
    BY <1>1, <1>2, <1>3
  <1> QED
    BY <1>1, <1>2, <1>4 DEF RoundShaped

LEMMA EndsKeepShape ==
    ASSUME TInv, NEW c \in Clients, FetchFails(c) \/ Break(c)
    PROVE  TInv'
  <1>1. /\ sync' = [sync EXCEPT ![c] = Idle]
        /\ UNCHANGED <<serverVars, rule, account, stored, click, tasks, events, made>>
        /\ Fault \/ UNCHANGED <<ops, faults>>
    BY DEF FetchFails, Break, madeVars, boundVars
  <1>2. \E left : left \subseteq round.left /\ round' = [round EXCEPT !.left = left]
    <2>1. CASE FetchFails(c)
      <3>1. round' = round /\ round = [left |-> round.left, rows |-> round.rows]
        BY <2>1 DEF FetchFails, TInv, RoundShaped
      <3>2. round' = [round EXCEPT !.left = round.left]
        BY <3>1
      <3> QED
        BY <3>2
    <2>2. CASE Break(c)
      BY <2>2 DEF Break, RestOfRound
    <2> QED
      BY <2>1, <2>2
  <1>3. due' \subseteq due
    BY DEF FetchFails, Break
  <1>4. /\ ServerShaped' /\ StoredShaped' /\ MadeShaped' /\ validity' = validity /\ Steady
    BY <1>1, StoredStays, MadeStays DEF TInv, ServerShaped, serverVars, Steady
  <1>5. AccountsShaped'
    BY <1>1, <1>3 DEF TInv, AccountsShaped, AccountShaped, There, serverVars
  <1>6. SyncsShaped'
    <2>1. SyncShaped(Idle)'
      BY DEF SyncShaped
    <2>2. \A a \in Accounts : account'[a].state = "new" <=> account[a].state = "new"
      BY <1>1
    <2> QED
      BY <1>1, <1>4, <2>1, <2>2, SyncsMove DEF TInv
  <1>7. RoundShaped'
    BY <1>2, <1>4, RoundShrinks
  <1> QED
    BY <1>1, <1>4, <1>5, <1>6, <1>7, ClicksStay, BoundsMove DEF TInv

-----------------------------------------------------------------------------
(***************************************************************************)
(* Accounts, rules and what people begin to do.                            *)
(***************************************************************************)
LEMMA SwitchIs ==
    ASSUME TInv, NEW a \in Accounts, Switch(a)
    PROVE  /\ account' \in [Accounts -> AccountRow] /\ There(a)
           /\ \A b \in Accounts : /\ account'[b].state = account[b].state
                                  /\ account'[b].validity = account[b].validity
                                  /\ account'[b].last = account[b].last
                                  /\ b # a => account'[b] = account[b]
  <1> DEFINE new == [account[a] EXCEPT !.enabled = ~@]
  <1>1. /\ There(a) /\ account' = [account EXCEPT ![a] = new] /\ account[a] \in AccountRow
        /\ account \in [Accounts -> AccountRow]
    BY DEF Switch, TInv, AccountsShaped
  <1>2. new \in AccountRow
    BY <1>1 DEF AccountRow
  <1>3. /\ new.state = account[a].state /\ new.validity = account[a].validity
        /\ new.last = account[a].last
    BY <1>1 DEF AccountRow
  <1> HIDE DEF new
  <1> QED
    BY <1>1, <1>2, <1>3

LEMMA SwitchKeepsShape ==
    ASSUME TInv, NEW a \in Accounts, Switch(a)
    PROVE  TInv'
  <1>1. Op
    BY DEF Switch
  <1>2. UNCHANGED <<serverVars, rule, stored, due, round, sync, click, tasks, events, made>>
    BY DEF Switch, madeVars
  <1>3. /\ account' \in [Accounts -> AccountRow] /\ There(a)
        /\ \A b \in Accounts : /\ account'[b].state = account[b].state
                               /\ account'[b].validity = account[b].validity
                               /\ b # a => account'[b] = account[b]
    BY SwitchIs
  <1>4. ServerShaped' /\ Steady /\ validity' = validity
    BY <1>2, <1>3 DEF TInv, ServerShaped, Steady, serverVars
  <1>5. AccountsShaped'
    <2>1. ASSUME NEW b \in Accounts PROVE AccountShaped(b)'
      <3>1. AccountShaped(b)
        BY DEF TInv, AccountsShaped
      <3> QED
        BY <1>3, <1>4, <3>1 DEF AccountShaped, There
    <2> QED
      BY <1>2, <1>3, <2>1 DEF TInv, AccountsShaped, There
  <1> QED
    BY <1>1, <1>2, <1>3, <1>4, <1>5, StoredStays, RoundStays, SyncsStay, ClicksStay, MadeStays,
       BoundsMove DEF TInv

LEMMA BecomeDueKeepsShape ==
    ASSUME TInv, NEW a \in Accounts, BecomeDue(a)
    PROVE  TInv'
  <1>1. UNCHANGED <<serverVars, rule, account, stored, round, sync, click, tasks, events, made, ops,
                    faults>>
    BY DEF BecomeDue, madeVars, boundVars
  <1>2. ServerShaped' /\ Steady /\ validity' = validity
    BY <1>1 DEF TInv, ServerShaped, Steady, serverVars
  <1>3. AccountsShaped'
    BY <1>1 DEF TInv, AccountsShaped, AccountShaped, There, BecomeDue, serverVars
  <1> QED
    BY <1>1, <1>2, <1>3, StoredStays, RoundStays, SyncsStay, ClicksStay, MadeStays, BoundsMove
       DEF TInv

LEMMA RulesKeepShape ==
    ASSUME TInv, AddRule \/ UpdateRule \/ DeleteRule
    PROVE  TInv'
  <1>1. /\ UNCHANGED <<serverVars, account, stored, due, round, sync, click, tasks, events, made>>
        /\ rule' \in {"none", "on", "off"} /\ Op
    BY DEF AddRule, UpdateRule, DeleteRule, ChangeRule, madeVars
  <1>2. ServerShaped' /\ Steady /\ validity' = validity
    BY <1>1 DEF TInv, ServerShaped, Steady, serverVars
  <1>3. AccountsShaped'
    BY <1>1 DEF TInv, AccountsShaped, AccountShaped, There, serverVars
  <1> QED
    BY <1>1, <1>2, <1>3, StoredStays, RoundStays, SyncsStay, ClicksStay, MadeStays, BoundsMove
       DEF TInv

(* What people begin to do with a mail.                                    *)
Clicks(t) ==
    \/ \E a \in Accounts : \E x \in stored[a] :
          ClickTask(t, a, x) \/ AcceptSuggestion(t, a, x) \/ DismissSuggestion(t, a, x)
    \/ ApplyRule(t)

LEMMA ClicksAre ==
    ASSUME TInv, NEW t \in Tabs, Clicks(t)
    PROVE  \E q : /\ click' = [click EXCEPT ![t] = q] /\ ClickShaped(q)
                  /\ UNCHANGED <<serverVars, rule, account, stored, due, round, sync, madeVars,
                                 historyVars>>
                  /\ Op
  <1>1. ASSUME NEW kind \in {"task", "accepted", "dismissed"}, NEW read, Click(t, kind, read),
               \A r \in read : /\ kind = "task" => r[2].task = 0
                               /\ kind # "task" => r[2].suggestion = "pending"
        PROVE  \E q : /\ click' = [click EXCEPT ![t] = q] /\ ClickShaped(q)
                      /\ UNCHANGED <<serverVars, rule, account, stored, due, round, sync, madeVars,
                                     historyVars>>
                      /\ Op
    <2> DEFINE q == [kind |-> kind, read |-> read]
    <2>1. q.kind = kind /\ q.read = read
      OBVIOUS
    <2>2. ClickShaped(q)
      BY <1>1, <2>1 DEF ClickShaped
    <2> QED
      BY <1>1, <2>2 DEF Click
  <1>2. ASSUME NEW a \in Accounts, NEW x \in stored[a],
               ClickTask(t, a, x) \/ AcceptSuggestion(t, a, x) \/ DismissSuggestion(t, a, x)
        PROVE  \E q : /\ click' = [click EXCEPT ![t] = q] /\ ClickShaped(q)
                      /\ UNCHANGED <<serverVars, rule, account, stored, due, round, sync, madeVars,
                                     historyVars>>
                      /\ Op
    <2>1. \A r \in {<<a, x>>} : r[2] = x
      OBVIOUS
    <2> QED
      BY <1>1, <1>2, <2>1 DEF ClickTask, AcceptSuggestion, DismissSuggestion
  <1>3. ASSUME ApplyRule(t)
        PROVE  \E q : /\ click' = [click EXCEPT ![t] = q] /\ ClickShaped(q)
                      /\ UNCHANGED <<serverVars, rule, account, stored, due, round, sync, madeVars,
                                     historyVars>>
                      /\ Op
    <2> DEFINE read == UNION {{<<a, x>> : x \in {y \in Matching(stored[a]) : y.task = 0}}
                                : a \in Accounts}
    <2>1. \A r \in read : r[2].task = 0
      OBVIOUS
    <2> HIDE DEF read
    <2>2. Click(t, "task", read)
      BY <1>3 DEF ApplyRule, read
    <2> QED
      BY <1>1, <2>1, <2>2
  <1> QED
    BY <1>2, <1>3 DEF Clicks

LEMMA ClicksKeepShape ==
    ASSUME TInv, NEW t \in Tabs, Clicks(t) \/ AbortClick(t)
    PROVE  TInv'
  <1>1. PICK q : /\ click' = [click EXCEPT ![t] = q] /\ ClickShaped(q)
                 /\ UNCHANGED <<serverVars, rule, account, stored, due, round, sync, madeVars,
                                historyVars>>
                 /\ Op \/ UNCHANGED <<ops, faults>>
    <2>1. CASE Clicks(t)
      BY <2>1, ClicksAre
    <2>2. CASE AbortClick(t)
      BY <2>2 DEF AbortClick, ClickShaped, boundVars
    <2> QED
      BY <2>1, <2>2
  <1>2. UNCHANGED <<serverVars, rule, account, stored, due, round, sync, tasks, events, made>>
    BY <1>1 DEF madeVars
  <1>3. ServerShaped' /\ AccountsShaped' /\ StoredShaped' /\ MadeShaped' /\ Steady
    BY <1>2, NothingElse
  <1> QED
    BY <1>1, <1>2, <1>3, RoundStays, SyncsStay, ClickMoves, BoundsMove DEF TInv

LEMMA DeleteIs ==
    ASSUME TInv, NEW a \in Accounts, DeleteAccount(a)
    PROVE  /\ There(a) /\ account' \in [Accounts -> AccountRow]
           /\ account'[a].state = "gone" /\ account'[a].validity = 0 /\ stored'[a] = {}
           /\ \A b \in Accounts \ {a} : account'[b] = account[b] /\ stored'[b] = stored[b]
           /\ stored' = [b \in Accounts |-> stored'[b]] /\ due' = due \ {a}
           /\ dropped' = dropped \cup MailsOf(stored[a])
           /\ UNCHANGED <<serverVars, rule, round, sync, madeVars, excused, mixed, clash, starved>>
           /\ Losing(Keys(a, stored[a])) /\ Op
  <1> DEFINE new == [NoAccount EXCEPT !.state = "gone"]
  <1>1. NoAccount \in AccountRow /\ NoAccount.validity = 0
    BY DEF NoAccount, AccountRow
  <1>2. new \in AccountRow /\ new.state = "gone" /\ new.validity = 0
    BY <1>1 DEF AccountRow
  <1>3. account' = [account EXCEPT ![a] = new] /\ account \in [Accounts -> AccountRow]
    BY DEF DeleteAccount, TInv, AccountsShaped
  <1> HIDE DEF new
  <1>4. /\ account' \in [Accounts -> AccountRow]
        /\ account'[a].state = "gone" /\ account'[a].validity = 0
        /\ \A b \in Accounts \ {a} : account'[b] = account[b]
    BY <1>2, <1>3
  <1>5. stored' = [stored EXCEPT ![a] = {}] /\ stored = [b \in Accounts |-> stored[b]]
    BY DEF DeleteAccount, TInv, StoredShaped
  <1>6. /\ stored'[a] = {} /\ \A b \in Accounts \ {a} : stored'[b] = stored[b]
        /\ stored' = [b \in Accounts |-> stored'[b]]
    BY <1>5
  <1> QED
    BY <1>4, <1>6 DEF DeleteAccount

LEMMA NothingIsShaped ==
    ASSUME NEW a \in Accounts
    PROVE  RowsShaped(a, {}) /\ Cardinality({}) <= MaxStored
  <1>1. IsFiniteSet({}) /\ Cardinality({}) = 0
    BY FS_EmptySet
  <1> QED
    BY <1>1, MailAssumption DEF RowsShaped

LEMMA DeleteKeepsShape ==
    ASSUME TInv, NEW a \in Accounts, DeleteAccount(a)
    PROVE  TInv'
  <1>1. /\ There(a) /\ account' \in [Accounts -> AccountRow]
        /\ account'[a].state = "gone" /\ account'[a].validity = 0 /\ stored'[a] = {}
        /\ \A b \in Accounts \ {a} : account'[b] = account[b] /\ stored'[b] = stored[b]
        /\ stored' = [b \in Accounts |-> stored'[b]] /\ due' = due \ {a}
        /\ UNCHANGED <<serverVars, rule, round, sync, madeVars>>
        /\ Losing(Keys(a, stored[a])) /\ Op
    BY DeleteIs
  <1>2. UNCHANGED <<tasks, events, made>>
    BY <1>1 DEF madeVars
  <1>3. ServerShaped' /\ validity' = validity /\ Steady
    BY <1>1 DEF TInv, ServerShaped, serverVars, Steady, There
  <1>4. AccountsShaped'
    <2>1. ASSUME NEW b \in Accounts PROVE AccountShaped(b)'
      <3>1. AccountShaped(b) /\ validity[b] \in Nat
        BY DEF TInv, AccountsShaped, ServerShaped
      <3> QED
        BY <1>1, <1>3, <3>1 DEF AccountShaped, There
    <2>2. due' \subseteq Accounts /\ \A b \in due' : account'[b].state = "there"
      BY <1>1 DEF TInv, AccountsShaped, There
    <2> QED
      BY <1>1, <2>1, <2>2 DEF TInv, AccountsShaped, There
  <1>5. StoredShaped'
    <2>1. ASSUME NEW b \in Accounts
          PROVE  /\ RowsShaped(b, stored'[b]) /\ Cardinality(stored'[b]) <= MaxStored
                 /\ \A x \in stored'[b] : x.task <= made'
                 /\ stored'[b] # {} => There(b)'
      <3>1. CASE b = a
        BY <1>1, <3>1, NothingIsShaped
      <3>2. CASE b # a
        BY <1>1, <1>2, <3>2 DEF TInv, StoredShaped, There
      <3> QED
        BY <3>1, <3>2
    <2> QED
      BY <1>1, <2>1 DEF StoredShaped, RowsShaped
  <1>6. ClicksShaped'
    BY <1>1, ClicksLose DEF TInv
  <1> QED
    BY <1>1, <1>2, <1>3, <1>4, <1>5, <1>6, RoundStays, SyncsStay, MadeStays, BoundsMove DEF TInv

-----------------------------------------------------------------------------
(***************************************************************************)
(* What is stored is changed in place: the mails and numbers stay.         *)
(***************************************************************************)
Rewrites(a, g) ==
    /\ g = [x \in stored[a] |-> g[x]] /\ stored'[a] = {g[x] : x \in stored[a]}
    /\ \A x \in stored[a] : g[x] \in Row /\ g[x].uid = x.uid /\ g[x].mail = x.mail

LEMMA RewritesKeepShape ==
    ASSUME TInv, UNCHANGED <<serverVars, rule, account, due>>, made' \in Nat, made <= made',
           stored' = [a \in Accounts |-> stored'[a]],
           \A a \in Accounts : \E g : /\ Rewrites(a, g)
                                      /\ \A x \in stored[a] : g[x] = x \/ g[x].task <= made'
    PROVE  ServerShaped' /\ AccountsShaped' /\ StoredShaped' /\ Steady /\ validity' = validity
  <1>1. ServerShaped' /\ Steady /\ validity' = validity
    BY DEF TInv, ServerShaped, Steady, serverVars
  <1>2. AccountsShaped'
    BY DEF TInv, AccountsShaped, AccountShaped, There, serverVars
  <1>3. ASSUME NEW a \in Accounts
        PROVE  /\ RowsShaped(a, stored'[a]) /\ Cardinality(stored'[a]) <= MaxStored
               /\ \A x \in stored'[a] : x.task <= made'
               /\ stored'[a] # {} => There(a)'
    <2>1. PICK g : /\ Rewrites(a, g)
                   /\ \A x \in stored[a] : g[x] = x \/ g[x].task <= made'
      OBVIOUS
    <2>2. /\ RowsShaped(a, stored[a]) /\ Cardinality(stored[a]) <= MaxStored
          /\ \A x \in stored[a] : x.task <= made /\ x \in Row
          /\ stored[a] # {} => There(a)
      BY DEF TInv, StoredShaped, RowsShaped
    <2>3. /\ g = [x \in stored[a] |-> g[x]] /\ stored'[a] = {g[x] : x \in stored[a]}
          /\ \A x \in stored[a] : g[x] \in Row /\ g[x].uid = x.uid /\ g[x].mail = x.mail
      BY <2>1 DEF Rewrites
    <2>4. IsFiniteSet(stored'[a]) /\ Cardinality(stored'[a]) <= Cardinality(stored[a])
      BY <2>2, <2>3, ImageIsFinite DEF RowsShaped
    <2>5. Cardinality(stored'[a]) <= MaxStored
      <3>1. Cardinality(stored[a]) \in Nat /\ Cardinality(stored'[a]) \in Nat
        BY <2>2, <2>4, FS_CardinalityType DEF RowsShaped
      <3> QED
        BY <2>2, <2>4, <3>1, MailAssumption
    <2>6. RowsShaped(a, stored'[a])
      <3>1. ASSUME NEW x \in stored'[a] PROVE x \in Row /\ x.uid # 0 /\ Mailbox[x.mail] = a
        BY <2>2, <2>3 DEF RowsShaped
      <3>2. ASSUME NEW x \in stored'[a], NEW y \in stored'[a], x.uid = y.uid PROVE x = y
        <4>1. PICK v \in stored[a], w \in stored[a] : x = g[v] /\ y = g[w]
          BY <2>3
        <4>2. v.uid = w.uid
          BY <2>3, <3>2, <4>1
        <4> QED
          BY <2>2, <4>1, <4>2 DEF RowsShaped
      <3> QED
        BY <2>4, <3>1, <3>2 DEF RowsShaped
    <2>7. \A x \in stored[a] : x.task <= made'
      <3>1. \A x \in stored[a] : x.task \in Nat
        BY <2>2 DEF Row
      <3>2. made \in Nat
        BY DEF TInv, MadeShaped
      <3> QED
        BY <2>2, <3>1, <3>2
    <2>8. \A x \in stored'[a] : x.task <= made'
      BY <2>1, <2>3, <2>7
    <2> QED
      BY <2>2, <2>3, <2>5, <2>6, <2>8 DEF There
  <1> QED
    BY <1>1, <1>2, <1>3 DEF StoredShaped, RowsShaped

LEMMA PickedAre ==
    ASSUME TInv, NEW t \in Tabs
    PROVE  /\ IsFiniteSet(AllPicked(t))
           /\ \A a \in Accounts : Picked(t, a) = AllPicked(t) \cap stored[a]
           /\ \A x \in AllPicked(t) : x \in Row /\ \E a \in Accounts : x \in stored[a]
  <1>1. \A a \in Accounts : /\ IsFiniteSet(stored[a]) /\ stored[a] \subseteq Row
                            /\ \A x \in stored[a] : Mailbox[x.mail] = a
    BY DEF TInv, StoredShaped, RowsShaped
  <1>2. \A a \in Accounts : Picked(t, a) \subseteq stored[a]
    BY DEF Picked
  <1>3. \A a \in Accounts : IsFiniteSet(Picked(t, a))
    BY <1>1, <1>2, FS_Subset
  <1>4. IsFiniteSet(AllPicked(t))
    <2> DEFINE f == [a \in Accounts |-> Picked(t, a)]
               F == {f[a] : a \in Accounts}
    <2>1. f = [a \in Accounts |-> f[a]] /\ \A a \in Accounts : f[a] = Picked(t, a)
      OBVIOUS
    <2>2. AllPicked(t) = UNION F
      BY DEF AllPicked
    <2> HIDE DEF f
    <2>3. IsFiniteSet(F)
      BY <2>1, ImageIsFinite, MailAssumption
    <2>4. \A T \in F : IsFiniteSet(T)
      BY <1>3, <2>1
    <2> HIDE DEF F
    <2> QED
      BY <2>2, <2>3, <2>4, FS_UNION
  <1>5. \A x \in AllPicked(t) : \E a \in Accounts : x \in Picked(t, a)
    BY DEF AllPicked
  <1>6. \A a \in Accounts : Picked(t, a) \subseteq AllPicked(t)
    BY DEF AllPicked
  <1>7. \A x \in AllPicked(t) : x \in Row /\ \E a \in Accounts : x \in stored[a]
    BY <1>1, <1>2, <1>5
  <1>8. ASSUME NEW a \in Accounts, NEW x \in AllPicked(t), x \in stored[a]
        PROVE  x \in Picked(t, a)
    <2>1. PICK b \in Accounts : x \in Picked(t, b)
      BY <1>5
    <2>2. a = b
      BY <1>1, <1>2, <1>8, <2>1
    <2> QED
      BY <2>1, <2>2
  <1> QED
    BY <1>2, <1>4, <1>6, <1>7, <1>8

LEMMA TaskSet ==
    ASSUME NEW x \in Row, NEW n \in Nat, NEW y, y = [x EXCEPT !.task = n]
    PROVE  /\ y \in Row /\ y.task = n /\ y.uid = x.uid /\ y.mail = x.mail
           /\ y.suggestion = x.suggestion
  BY DEF Row

LEMMA SuggestionSet ==
    ASSUME NEW x \in Row, NEW k \in {"accepted", "dismissed"},
           NEW y, y = [x EXCEPT !.suggestion = k]
    PROVE  /\ y \in Row /\ y.suggestion = k /\ y.uid = x.uid /\ y.mail = x.mail
           /\ y.task = x.task
  BY DEF Row

(* Tasks are numbered from where the numbers end.                          *)
LEMMA NewTasks ==
    ASSUME MadeShaped, NEW S, IsFiniteSet(S), NEW number, number = Numbered(S)
    PROVE  /\ made + Cardinality(S) \in Nat /\ made <= made + Cardinality(S)
           /\ number \in [S -> Nat]
           /\ \A x \in S : made < number[x] /\ number[x] <= made + Cardinality(S)
           /\ \A x, y \in S : number[x] = number[y] => x = y
           /\ \A k : k \in TasksFor(number) <=>
                        \E x \in S : k = [mail |-> x.mail, no |-> number[x]]
  <1>1. made \in Nat /\ Cardinality(S) \in Nat
    BY FS_CardinalityType DEF MadeShaped
  <1>2. /\ number \in [S -> (made + 1)..(made + Cardinality(S))]
        /\ \A x, y \in S : number[x] = number[y] => x = y
    BY <1>1, NumberedOnce
  <1>3. \A x \in S : /\ number[x] \in Nat /\ made < number[x]
                     /\ number[x] <= made + Cardinality(S)
    BY <1>1, <1>2
  <1>4. number \in [S -> Nat]
    BY <1>2, <1>3
  <1>5. DOMAIN number = S
    BY <1>2
  <1>6. \A k : k \in TasksFor(number) <=> \E x \in S : k = [mail |-> x.mail, no |-> number[x]]
    BY <1>5 DEF TasksFor
  <1> QED
    BY <1>1, <1>2, <1>3, <1>4, <1>6

LEMMA TasksKeepShape ==
    ASSUME MadeShaped, NEW S, IsFiniteSet(S), NEW number, number = Numbered(S),
           \A x \in S : x.mail \in Mails, events' \in [Mails -> Nat],
           tasks' = tasks \cup TasksFor(number), made' = made + Cardinality(S)
    PROVE  MadeShaped'
  <1>1. /\ made' \in Nat /\ made <= made' /\ number \in [S -> Nat] /\ made \in Nat
        /\ \A x \in S : made < number[x] /\ number[x] <= made'
        /\ \A x, y \in S : number[x] = number[y] => x = y
        /\ \A k : k \in TasksFor(number) <=>
                     \E x \in S : k = [mail |-> x.mail, no |-> number[x]]
    BY NewTasks DEF MadeShaped
  <1>2. ASSUME NEW k \in tasks PROVE k \in [mail: Mails, no: 1..made'] /\ k.no <= made
                                     /\ k.no \in Nat
    BY <1>1 DEF MadeShaped
  <1>3. ASSUME NEW k \in TasksFor(number)
        PROVE  k \in [mail: Mails, no: 1..made'] /\ made < k.no /\ k.no \in Nat
    <2>1. PICK x \in S : k = [mail |-> x.mail, no |-> number[x]]
      BY <1>1
    <2>2. number[x] \in 1..made' /\ made < number[x]
      BY <1>1
    <2> QED
      BY <2>1, <2>2
  <1>4. ASSUME NEW k \in tasks', NEW l \in tasks', k.no = l.no PROVE k = l
    <2>1. CASE k \in tasks /\ l \in tasks
      BY <1>4, <2>1 DEF MadeShaped
    <2>2. CASE k \in TasksFor(number) /\ l \in TasksFor(number)
      <3>1. PICK x \in S, y \in S : /\ k = [mail |-> x.mail, no |-> number[x]]
                                    /\ l = [mail |-> y.mail, no |-> number[y]]
        BY <1>1, <2>2
      <3>2. number[x] = number[y]
        BY <1>4, <3>1
      <3> QED
        BY <1>1, <3>1, <3>2
    <2>3. CASE k \in tasks /\ l \in TasksFor(number)
      BY <1>1, <1>2, <1>3, <1>4, <2>3
    <2>4. CASE k \in TasksFor(number) /\ l \in tasks
      BY <1>1, <1>2, <1>3, <1>4, <2>4
    <2> QED
      BY <2>1, <2>2, <2>3, <2>4
  <1> QED
    BY <1>1, <1>2, <1>3, <1>4 DEF MadeShaped

(* What the three changes do to a row.                                     *)
LEMMA CommitTaskIs ==
    ASSUME TInv, NEW t \in Tabs, CommitTask(t), NEW number, number = Numbered(AllPicked(t)),
           NEW a \in Accounts
    PROVE  \E g : /\ Rewrites(a, g)
                  /\ \A x \in stored[a] :
                        /\ x \in AllPicked(t) => g[x].task = number[x]
                        /\ x \notin AllPicked(t) => g[x] = x
                        /\ g[x].suggestion = x.suggestion
  <1> DEFINE P == Picked(t, a)
             g == [x \in stored[a] |-> IF x \in P THEN [x EXCEPT !.task = number[x]] ELSE x]
  <1>1. stored'[a] = (stored[a] \ P) \cup {[x EXCEPT !.task = number[x]] : x \in P}
    BY DEF CommitTask
  <1>2. P = AllPicked(t) \cap stored[a] /\ IsFiniteSet(AllPicked(t))
    BY PickedAre
  <1>3. number \in [AllPicked(t) -> Nat]
    BY <1>2, NewTasks DEF TInv
  <1>4. \A x \in stored[a] : x \in Row
    BY DEF TInv, StoredShaped, RowsShaped
  <1>5. ASSUME NEW x \in stored[a]
        PROVE  /\ g[x] \in Row /\ g[x].uid = x.uid /\ g[x].mail = x.mail
               /\ x \in P => g[x].task = number[x]
               /\ x \notin P => g[x] = x
               /\ g[x].suggestion = x.suggestion
    <2>1. CASE x \in P
      <3>1. number[x] \in Nat
        BY <1>2, <1>3, <2>1
      <3>2. g[x] = [x EXCEPT !.task = number[x]]
        BY <2>1
      <3>3. x \in Row
        BY <1>4
      <3> HIDE DEF g, P
      <3> QED
        BY <2>1, <3>1, <3>2, <3>3, TaskSet
    <2>2. CASE x \notin P
      BY <1>4, <2>2
    <2> QED
      BY <2>1, <2>2
  <1>6. stored'[a] = {g[x] : x \in stored[a]}
    BY <1>1, <1>2
  <1>7. g = [x \in stored[a] |-> g[x]]
    OBVIOUS
  <1> HIDE DEF g
  <1>8. Rewrites(a, g)
    BY <1>5, <1>6, <1>7 DEF Rewrites
  <1> QED
    BY <1>2, <1>5, <1>8

LEMMA CommitSuggestionIs ==
    ASSUME TInv, NEW t \in Tabs, CommitSuggestion(t), NEW a \in Accounts
    PROVE  \E g : /\ Rewrites(a, g)
                  /\ \A x \in stored[a] :
                        /\ x \in AllPicked(t) => g[x].suggestion = click[t].kind
                        /\ x \notin AllPicked(t) => g[x] = x
                        /\ g[x].task = x.task
  <1> DEFINE P == Picked(t, a)
             kind == click[t].kind
             g == [x \in stored[a] |-> IF x \in P THEN [x EXCEPT !.suggestion = kind] ELSE x]
  <1>1. /\ stored'[a] = (stored[a] \ P) \cup {[x EXCEPT !.suggestion = kind] : x \in P}
        /\ kind \in {"accepted", "dismissed"}
    BY DEF CommitSuggestion
  <1>2. P = AllPicked(t) \cap stored[a]
    BY PickedAre
  <1>3. \A x \in stored[a] : x \in Row
    BY DEF TInv, StoredShaped, RowsShaped
  <1>4. ASSUME NEW x \in stored[a]
        PROVE  /\ g[x] \in Row /\ g[x].uid = x.uid /\ g[x].mail = x.mail
               /\ x \in P => g[x].suggestion = kind
               /\ x \notin P => g[x] = x
               /\ g[x].task = x.task
    <2>1. CASE x \in P
      <3>1. g[x] = [x EXCEPT !.suggestion = kind]
        BY <2>1
      <3>2. x \in Row
        BY <1>3
      <3> HIDE DEF g, kind, P
      <3> QED
        BY <1>1, <2>1, <3>1, <3>2, SuggestionSet
    <2>2. CASE x \notin P
      BY <1>3, <2>2
    <2> QED
      BY <2>1, <2>2
  <1>5. stored'[a] = {g[x] : x \in stored[a]}
    BY <1>1, <1>2
  <1>6. g = [x \in stored[a] |-> g[x]]
    OBVIOUS
  <1> HIDE DEF g
  <1>7. Rewrites(a, g)
    BY <1>4, <1>5, <1>6 DEF Rewrites
  <1> QED
    BY <1>2, <1>4, <1>7

LEMMA DeleteTaskIs ==
    ASSUME TInv, NEW k \in tasks, DeleteTask(k), NEW a \in Accounts
    PROVE  \E g : /\ Rewrites(a, g)
                  /\ \A x \in stored[a] :
                        /\ x.task # k.no => g[x] = x
                        /\ g[x].task \in {0, x.task}
                        /\ g[x].suggestion = x.suggestion
  <1> DEFINE g == [x \in stored[a] |-> [x EXCEPT !.task = IF @ = k.no THEN 0 ELSE @]]
  <1>1. stored'[a] = {[x EXCEPT !.task = IF @ = k.no THEN 0 ELSE @] : x \in stored[a]}
    BY DEF DeleteTask
  <1>2. \A x \in stored[a] : x \in Row
    BY DEF TInv, StoredShaped, RowsShaped
  <1>3. ASSUME NEW x \in stored[a]
        PROVE  /\ g[x] \in Row /\ g[x].uid = x.uid /\ g[x].mail = x.mail
               /\ x.task # k.no => g[x] = x
               /\ g[x].task \in {0, x.task}
               /\ g[x].suggestion = x.suggestion
    <2>1. x \in Row /\ x.task \in Nat
      BY <1>2 DEF Row
    <2>2. g[x] = [x EXCEPT !.task = IF @ = k.no THEN 0 ELSE @]
      OBVIOUS
    <2> HIDE DEF g
    <2>3. CASE x.task = k.no
      <3>1. g[x] = [x EXCEPT !.task = 0]
        BY <2>2, <2>3
      <3> QED
        BY <2>1, <2>3, <3>1, TaskSet
    <2>4. CASE x.task # k.no
      <3>1. g[x] = x
        BY <2>1, <2>2, <2>4 DEF Row
      <3> QED
        BY <2>1, <3>1
    <2> QED
      BY <2>3, <2>4
  <1>4. stored'[a] = {g[x] : x \in stored[a]}
    BY <1>1
  <1>5. g = [x \in stored[a] |-> g[x]]
    OBVIOUS
  <1> HIDE DEF g
  <1>6. Rewrites(a, g)
    BY <1>3, <1>4, <1>5 DEF Rewrites
  <1> QED
    BY <1>3, <1>6

LEMMA CommitsKeepShape ==
    ASSUME TInv, \/ \E t \in Tabs : CommitTask(t) \/ CommitSuggestion(t)
                 \/ \E k \in tasks : DeleteTask(k)
    PROVE  TInv'
  <1>0. made \in Nat /\ made <= made
    BY DEF TInv, MadeShaped
  <1>i. ClickShaped(Idle)
    BY DEF ClickShaped
  <1>1. ASSUME NEW t \in Tabs, CommitTask(t) PROVE TInv'
    <2> DEFINE S == AllPicked(t)
               number == Numbered(S)
    <2>1. /\ UNCHANGED <<serverVars, rule, account, due, round, sync, events, ops, faults>>
          /\ tasks' = tasks \cup TasksFor(number) /\ made' = made + Cardinality(S)
          /\ click' = [click EXCEPT ![t] = Idle]
          /\ stored' = [a \in Accounts |-> stored'[a]]
      BY <1>1 DEF CommitTask, boundVars
    <2>2. IsFiniteSet(S) /\ \A x \in S : x.mail \in Mails
      BY PickedAre DEF Row
    <2>3. /\ made' \in Nat /\ made <= made'
          /\ number \in [S -> Nat] /\ \A x \in S : number[x] <= made'
      BY <2>1, <2>2, NewTasks DEF TInv
    <2> HIDE DEF S, number
    <2>4. MadeShaped'
      BY <2>1, <2>2, TasksKeepShape DEF TInv, MadeShaped, number
    <2>5. \A a \in Accounts : \E g : /\ Rewrites(a, g)
                                     /\ \A x \in stored[a] : g[x] = x \/ g[x].task <= made'
      <3> SUFFICES ASSUME NEW a \in Accounts
                   PROVE  \E g : /\ Rewrites(a, g)
                                 /\ \A x \in stored[a] : g[x] = x \/ g[x].task <= made'
        OBVIOUS
      <3>1. PICK g : /\ Rewrites(a, g)
                     /\ \A x \in stored[a] : /\ x \in S => g[x].task = number[x]
                                             /\ x \notin S => g[x] = x
        BY <1>1, CommitTaskIs DEF S, number
      <3> QED
        BY <2>3, <3>1
    <2>6. ServerShaped' /\ AccountsShaped' /\ StoredShaped' /\ Steady /\ validity' = validity
      BY <2>1, <2>3, <2>5, RewritesKeepShape
    <2> QED
      BY <1>i, <2>1, <2>4, <2>6, RoundStays, SyncsStay, ClickMoves, BoundsMove DEF TInv
  <1>2. ASSUME NEW t \in Tabs, CommitSuggestion(t) PROVE TInv'
    <2>1. /\ UNCHANGED <<serverVars, rule, account, due, round, sync, tasks, made, ops, faults>>
          /\ click' = [click EXCEPT ![t] = Idle]
          /\ stored' = [a \in Accounts |-> stored'[a]]
          /\ events' = [m \in Mails |-> IF click[t].kind = "accepted" /\ m \in MailsOf(AllPicked(t))
                                        THEN events[m] + 1 ELSE events[m]]
      BY <1>2 DEF CommitSuggestion, boundVars
    <2>2. events' \in [Mails -> Nat]
      BY <2>1 DEF TInv, MadeShaped
    <2>3. MadeShaped'
      BY <2>1, <2>2 DEF TInv, MadeShaped
    <2>4. \A a \in Accounts : \E g : /\ Rewrites(a, g)
                                     /\ \A x \in stored[a] : g[x] = x \/ g[x].task <= made'
      <3> SUFFICES ASSUME NEW a \in Accounts
                   PROVE  \E g : /\ Rewrites(a, g)
                                 /\ \A x \in stored[a] : g[x] = x \/ g[x].task <= made'
        OBVIOUS
      <3>1. PICK g : /\ Rewrites(a, g)
                     /\ \A x \in stored[a] : g[x].task = x.task
        BY <1>2, CommitSuggestionIs
      <3>2. \A x \in stored[a] : x.task <= made
        BY DEF TInv, StoredShaped
      <3> QED
        BY <2>1, <3>1, <3>2
    <2>5. ServerShaped' /\ AccountsShaped' /\ StoredShaped' /\ Steady /\ validity' = validity
      BY <1>0, <2>1, <2>4, RewritesKeepShape
    <2> QED
      BY <1>i, <2>1, <2>3, <2>5, RoundStays, SyncsStay, ClickMoves, BoundsMove DEF TInv
  <1>3. ASSUME NEW k \in tasks, DeleteTask(k) PROVE TInv'
    <2>1. /\ UNCHANGED <<serverVars, rule, account, due, round, sync, click, events, made>>
          /\ stored' = [a \in Accounts |-> stored'[a]] /\ tasks' = tasks \ {k} /\ Op
      BY <1>3 DEF DeleteTask
    <2>2. MadeShaped'
      BY <2>1 DEF TInv, MadeShaped
    <2>3. \A a \in Accounts : \E g : /\ Rewrites(a, g)
                                     /\ \A x \in stored[a] : g[x] = x \/ g[x].task <= made'
      <3> SUFFICES ASSUME NEW a \in Accounts
                   PROVE  \E g : /\ Rewrites(a, g)
                                 /\ \A x \in stored[a] : g[x] = x \/ g[x].task <= made'
        OBVIOUS
      <3>1. PICK g : /\ Rewrites(a, g)
                     /\ \A x \in stored[a] : g[x].task \in {0, x.task}
        BY <1>3, DeleteTaskIs
      <3>2. \A x \in stored[a] : x.task <= made
        BY DEF TInv, StoredShaped
      <3>3. 0 <= made
        BY <1>0
      <3> QED
        BY <2>1, <3>1, <3>2, <3>3
    <2>4. ServerShaped' /\ AccountsShaped' /\ StoredShaped' /\ Steady /\ validity' = validity
      BY <1>0, <2>1, <2>3, RewritesKeepShape
    <2> QED
      BY <2>1, <2>2, <2>4, RoundStays, SyncsStay, ClicksStay, BoundsMove DEF TInv
  <1> QED
    BY <1>1, <1>2, <1>3

-----------------------------------------------------------------------------
(***************************************************************************)
(* The result of a fetch is applied.                                       *)
(***************************************************************************)
KeptOf(c) == Kept(sync[c].account, sync[c])
FreshOf(c) == {x \in sync[c].result.mails : \A y \in KeptOf(c) : y.uid # x.uid}
RuledOf(c) == IF Enabled THEN Matching(FreshOf(c)) ELSE {}
RowOf(c, x) ==
    [uid |-> x.uid, mail |-> x.mail,
     task |-> IF x \in RuledOf(c) THEN Numbered(RuledOf(c))[x] ELSE 0,
     suggestion |-> Detected(x.mail)]
AllOf(c) == KeptOf(c) \cup {RowOf(c, x) : x \in FreshOf(c)}
LastOf(c) == Trimmed(AllOf(c))

LEMMA ApplyIs ==
    ASSUME TInv, NEW c \in Clients, Apply(c), NEW a, a = sync[c].account
    PROVE  /\ sync[c] # Idle /\ sync[c].kind = "apply" /\ a \in Accounts
           /\ stored' = [stored EXCEPT ![a] = LastOf(c)]
           /\ account' = [account EXCEPT ![a] = Updated(a, sync[c].row, sync[c].result)]
           /\ due' = due \ {a}
           /\ tasks' = tasks \cup TasksFor(Numbered(RuledOf(c)))
           /\ made' = made + Cardinality(RuledOf(c))
           /\ Losing(Keys(a, stored[a] \ LastOf(c)))
           /\ sync' = [sync EXCEPT ![c] = Idle]
           /\ excused' = excused \cup {<<a, sync[c].result.validity, n>> : n \in sync[c].result.rest}
                         \cup {<<a, account'[a].validity, x.uid>> : x \in AllOf(c) \ LastOf(c)}
           /\ mixed' = IF Mixes(a, sync[c]) THEN mixed \cup {a} ELSE mixed
           /\ dropped' = dropped \cup MailsOf(stored[a] \ LastOf(c)) \cup MailsOf(AllOf(c) \ LastOf(c))
           /\ UNCHANGED <<serverVars, rule, round, events, clash, starved, boundVars>>
           /\ SyncShaped(sync[c]) /\ ResultShaped(a, sync[c].row, sync[c].result)
           /\ \/ There(a) /\ ReadRow(a, sync[c].row)
              \/ account[a] = NoAccount /\ sync[c].row = NoAccount /\ stored[a] = {}
  <1>1. /\ sync[c].kind = "apply"
        /\ There(a) \/ (account[a].state = "new" /\ sync[c].row = NoAccount)
    BY DEF Apply
  <1>2. sync[c] # Idle /\ SyncShaped(sync[c])
    BY <1>1 DEF Idle, TInv, SyncsShaped
  <1>3. /\ a \in Accounts /\ ResultShaped(a, sync[c].row, sync[c].result)
        /\ There(a) => ReadRow(a, sync[c].row)
    BY <1>1, <1>2 DEF SyncShaped, There
  <1>4. account[a].state = "new" => account[a] = NoAccount /\ stored[a] = {}
    BY <1>3 DEF TInv, AccountsShaped, AccountShaped, StoredShaped, There
  <1>5. /\ stored' = [stored EXCEPT ![a] = LastOf(c)]
        /\ account' = [account EXCEPT ![a] = Updated(a, sync[c].row, sync[c].result)]
        /\ due' = due \ {a}
        /\ tasks' = tasks \cup TasksFor(Numbered(RuledOf(c)))
        /\ made' = made + Cardinality(RuledOf(c))
        /\ Losing(Keys(a, stored[a] \ LastOf(c)))
        /\ sync' = [sync EXCEPT ![c] = Idle]
        /\ excused' = excused \cup {<<a, sync[c].result.validity, n>> : n \in sync[c].result.rest}
                      \cup {<<a, account'[a].validity, x.uid>> : x \in AllOf(c) \ LastOf(c)}
        /\ mixed' = IF Mixes(a, sync[c]) THEN mixed \cup {a} ELSE mixed
        /\ dropped' = dropped \cup MailsOf(stored[a] \ LastOf(c)) \cup MailsOf(AllOf(c) \ LastOf(c))
        /\ UNCHANGED <<serverVars, rule, round, events, clash, starved, boundVars>>
    BY DEF Apply, LastOf, AllOf, RowOf, RuledOf, FreshOf, KeptOf
  <1> QED
    BY <1>1, <1>2, <1>3, <1>4, <1>5

LEMMA ApplyExcuses ==
    ASSUME NEW c \in Clients, Apply(c), NEW a, a = sync[c].account, NEW r, r = sync[c].result
    PROVE  /\ excused \subseteq excused' /\ \A n \in r.rest : <<a, r.validity, n>> \in excused'
           /\ \A x \in AllOf(c) \ LastOf(c) : <<a, account'[a].validity, x.uid>> \in excused'
  <1>1. excused' = excused \cup {<<a, sync[c].result.validity, n>> : n \in sync[c].result.rest}
                   \cup {<<a, account'[a].validity, x.uid>> : x \in AllOf(c) \ LastOf(c)}
    BY DEF Apply, LastOf, AllOf, RowOf, RuledOf, FreshOf, KeptOf
  <1> QED
    BY <1>1

(* What is added has the numbers and mails of the result.                  *)
LEMMA RowsAdded ==
    ASSUME TInv, NEW c \in Clients, Apply(c), NEW a, a = sync[c].account
    PROVE  /\ FreshOf(c) \subseteq sync[c].result.mails /\ IsFiniteSet(FreshOf(c))
           /\ RuledOf(c) \subseteq FreshOf(c) /\ IsFiniteSet(RuledOf(c))
           /\ KeptOf(c) \subseteq stored[a]
           /\ \A x \in FreshOf(c) :
                 /\ x \in Letter /\ Mailbox[x.mail] = a
                 /\ RowOf(c, x) \in Row /\ RowOf(c, x).uid = x.uid /\ RowOf(c, x).mail = x.mail
                 /\ RowOf(c, x).task = IF x \in RuledOf(c) THEN Numbered(RuledOf(c))[x] ELSE 0
                 /\ RowOf(c, x).suggestion \in {"none", "pending"}
                 /\ RowOf(c, x).task <= made'
  <1>1. /\ ResultShaped(a, sync[c].row, sync[c].result) /\ a \in Accounts
        /\ made' = made + Cardinality(RuledOf(c))
    BY ApplyIs
  <1>2. FreshOf(c) \subseteq sync[c].result.mails /\ IsFiniteSet(sync[c].result.mails)
    BY <1>1 DEF FreshOf, ResultShaped, LettersShaped
  <1>3. RuledOf(c) \subseteq FreshOf(c)
    BY DEF RuledOf, Matching
  <1>4. IsFiniteSet(FreshOf(c)) /\ IsFiniteSet(RuledOf(c))
    BY <1>2, <1>3, FS_Subset
  <1>5. KeptOf(c) \subseteq stored[a]
    BY DEF KeptOf, Kept
  <1>6. /\ Numbered(RuledOf(c)) \in [RuledOf(c) -> Nat] /\ made' \in Nat
        /\ \A x \in RuledOf(c) : Numbered(RuledOf(c))[x] <= made'
    BY <1>1, <1>4, NewTasks DEF TInv
  <1>7. ASSUME NEW x \in FreshOf(c)
        PROVE  /\ x \in Letter /\ Mailbox[x.mail] = a
               /\ RowOf(c, x) \in Row /\ RowOf(c, x).uid = x.uid /\ RowOf(c, x).mail = x.mail
               /\ RowOf(c, x).task = IF x \in RuledOf(c) THEN Numbered(RuledOf(c))[x] ELSE 0
               /\ RowOf(c, x).suggestion \in {"none", "pending"}
               /\ RowOf(c, x).task <= made'
    <2> DEFINE task == IF x \in RuledOf(c) THEN Numbered(RuledOf(c))[x] ELSE 0
    <2>1. x \in Letter /\ Mailbox[x.mail] = a
      BY <1>1, <1>2 DEF ResultShaped, LettersShaped
    <2>2. task \in Nat /\ task <= made'
      BY <1>6
    <2>3. Detected(x.mail) \in {"none", "pending"}
      BY DEF Detected
    <2>4. RowOf(c, x) = [uid |-> x.uid, mail |-> x.mail, task |-> task,
                         suggestion |-> Detected(x.mail)]
      BY DEF RowOf
    <2> HIDE DEF task
    <2>5. /\ RowOf(c, x).uid = x.uid /\ RowOf(c, x).mail = x.mail /\ RowOf(c, x).task = task
          /\ RowOf(c, x).suggestion = Detected(x.mail)
      BY <2>4
    <2>6. RowOf(c, x) \in Row
      BY <2>1, <2>2, <2>3, <2>4 DEF Row, Letter
    <2> QED
      BY <2>1, <2>2, <2>3, <2>5, <2>6 DEF task
  <1> QED
    BY <1>2, <1>3, <1>4, <1>5, <1>7

LEMMA TrimmedIsShaped ==
    ASSUME NEW a \in Accounts, NEW S, RowsShaped(a, S)
    PROVE  /\ Trimmed(S) \subseteq S /\ RowsShaped(a, Trimmed(S))
           /\ Cardinality(Trimmed(S)) <= MaxStored
  <1> DEFINE T == Trimmed(S)
             U == {y.uid : y \in S}
             H == Highest(U, MaxStored)
             f == [x \in T |-> x.uid]
             u == [x \in S |-> x.uid]
  <1>1. T \subseteq S /\ \A x \in T : x.uid \in H
    BY DEF Trimmed
  <1>2. IsFiniteSet(U) /\ U \subseteq Int
    <2>1. u = [x \in S |-> u[x]] /\ U = {u[x] : x \in S}
      OBVIOUS
    <2>2. \A x \in S : x.uid \in Nat
      BY DEF RowsShaped, Row
    <2> HIDE DEF u, U
    <2>3. IsFiniteSet(U)
      <3>1. IsFiniteSet(S)
        BY DEF RowsShaped
      <3>2. IsFiniteSet({u[x] : x \in S})
        BY <2>1, <3>1, ImageIsFinite
      <3> QED
        BY <2>1, <3>2
    <2> USE DEF U
    <2>4. \A n \in U : n \in Int
      BY <2>2
    <2> QED
      BY <2>3, <2>4
  <1>3. IsFiniteSet(H) /\ Cardinality(H) <= MaxStored
    <2> HIDE DEF U
    <2> QED
      BY <1>2, MailAssumption, FewHighest
  <1>4. RowsShaped(a, T)
    <2> HIDE DEF T
    <2> QED
      BY <1>1, FS_Subset DEF RowsShaped
  <1>5. Cardinality(T) <= Cardinality(H)
    <2> HIDE DEF T, H
    <2>1. f \in [T -> H]
      BY <1>1
    <2>2. \A x, y \in T : f[x] = f[y] => x = y
      BY <1>4 DEF RowsShaped
    <2> HIDE DEF f
    <2>3. f \in Injection(T, H)
      BY <2>1, <2>2 DEF Injection, IsInjective
    <2> QED
      BY <1>3, <2>3, FS_Injection
  <1>6. Cardinality(T) \in Nat /\ Cardinality(H) \in Nat /\ MaxStored \in Nat
    BY <1>3, <1>4, MailAssumption, FS_CardinalityType DEF RowsShaped
  <1> HIDE DEF T, H
  <1>7. Cardinality(T) <= MaxStored
    BY <1>3, <1>5, <1>6
  <1> QED
    BY <1>1, <1>4, <1>7 DEF T

LEMMA RowsKept ==
    ASSUME TInv, NEW c \in Clients, Apply(c), NEW a, a = sync[c].account
    PROVE  /\ RowsShaped(a, AllOf(c)) /\ LastOf(c) \subseteq AllOf(c)
           /\ RowsShaped(a, LastOf(c)) /\ Cardinality(LastOf(c)) <= MaxStored
           /\ \A x \in AllOf(c) : x.task <= made'
  <1> DEFINE Added == {RowOf(c, x) : x \in FreshOf(c)}
             F == [x \in FreshOf(c) |-> RowOf(c, x)]
  <1>1. a \in Accounts /\ ResultShaped(a, sync[c].row, sync[c].result)
    BY ApplyIs
  <1>2. /\ KeptOf(c) \subseteq stored[a] /\ FreshOf(c) \subseteq sync[c].result.mails
        /\ IsFiniteSet(FreshOf(c))
        /\ \A x \in FreshOf(c) :
              /\ x \in Letter /\ Mailbox[x.mail] = a
              /\ RowOf(c, x) \in Row /\ RowOf(c, x).uid = x.uid /\ RowOf(c, x).mail = x.mail
              /\ RowOf(c, x).task <= made'
    BY RowsAdded
  <1>3. IsFiniteSet(Added)
    <2>1. F = [x \in FreshOf(c) |-> F[x]] /\ Added = {F[x] : x \in FreshOf(c)}
      OBVIOUS
    <2> HIDE DEF F, Added
    <2> QED
      BY <1>2, <2>1, ImageIsFinite
  <1>4. RowsShaped(a, stored[a]) /\ \A x \in stored[a] : x.task <= made
    BY <1>1 DEF TInv, StoredShaped
  <1>5. ASSUME NEW x \in AllOf(c)
        PROVE  x \in KeptOf(c) \/ \E y \in FreshOf(c) : x = RowOf(c, y)
    BY DEF AllOf
  <1>6. ASSUME NEW x \in AllOf(c)
        PROVE  x \in Row /\ x.uid # 0 /\ Mailbox[x.mail] = a /\ x.task <= made'
    <2>1. CASE x \in KeptOf(c)
      <3>1. x \in stored[a] /\ x.task <= made /\ x.task \in Nat
        BY <1>2, <1>4, <2>1 DEF RowsShaped, Row
      <3>2. made \in Nat /\ made' \in Nat /\ made <= made'
        <4>1. made' = made + Cardinality(RuledOf(c)) /\ IsFiniteSet(RuledOf(c))
          BY ApplyIs, RowsAdded
        <4> QED
          BY <4>1, NewTasks DEF TInv, MadeShaped
      <3> QED
        BY <1>4, <3>1, <3>2 DEF RowsShaped
    <2>2. CASE \E y \in FreshOf(c) : x = RowOf(c, y)
      BY <1>2, <2>2 DEF Letter
    <2> QED
      BY <1>5, <2>1, <2>2
  <1>7. ASSUME NEW x \in AllOf(c), NEW y \in AllOf(c), x.uid = y.uid PROVE x = y
    <2>1. CASE x \in KeptOf(c) /\ y \in KeptOf(c)
      BY <1>2, <1>4, <1>7, <2>1 DEF RowsShaped
    <2>2. ASSUME x \in KeptOf(c), NEW v \in FreshOf(c), y = RowOf(c, v) PROVE x = y
      BY <1>2, <1>7, <2>2 DEF FreshOf
    <2>3. ASSUME y \in KeptOf(c), NEW v \in FreshOf(c), x = RowOf(c, v) PROVE x = y
      BY <1>2, <1>7, <2>3 DEF FreshOf
    <2>4. ASSUME NEW v \in FreshOf(c), NEW w \in FreshOf(c), x = RowOf(c, v), y = RowOf(c, w)
          PROVE  x = y
      <3>1. v.uid = w.uid
        BY <1>2, <1>7, <2>4
      <3>2. v.mail = w.mail
        BY <1>1, <1>2, <3>1 DEF ResultShaped, LettersShaped
      <3>3. v = w
        <4>1. v \in Letter /\ w \in Letter
          BY <1>2
        <4> QED
          BY <3>1, <3>2, <4>1 DEF Letter
      <3> QED
        BY <2>4, <3>3
    <2> QED
      BY <1>5, <2>1, <2>2, <2>3, <2>4
  <1>8. IsFiniteSet(AllOf(c))
    <2>1. IsFiniteSet(KeptOf(c))
      BY <1>2, <1>4, FS_Subset DEF RowsShaped
    <2>2. AllOf(c) = KeptOf(c) \cup Added
      BY DEF AllOf
    <2> HIDE DEF Added
    <2> QED
      BY <1>3, <2>1, <2>2, FS_Union
  <1>9. RowsShaped(a, AllOf(c))
    BY <1>6, <1>7, <1>8 DEF RowsShaped
  <1> QED
    BY <1>1, <1>6, <1>9, TrimmedIsShaped DEF LastOf

(* The row of the account after it: the numbering of the result, unless    *)
(* that is what was read and another sync has changed it since.            *)
LEMMA UpdatedIs ==
    ASSUME TInv, NEW c \in Clients, Apply(c), NEW a, a = sync[c].account,
           NEW row, row = sync[c].row, NEW r, r = sync[c].result
    PROVE  /\ account' \in [Accounts -> AccountRow] /\ account'[a].state = "there"
           /\ account'[a].validity = IF r.validity = row.validity THEN account[a].validity
                                     ELSE r.validity
           /\ account'[a].last = IF r.last = row.last THEN account[a].last ELSE r.last
           /\ \A b \in Accounts \ {a} : account'[b] = account[b]
  <1> DEFINE new == Updated(a, row, r)
  <1>1. /\ a \in Accounts /\ ResultShaped(a, row, r)
        /\ account' = [account EXCEPT ![a] = new]
    BY ApplyIs
  <1>2. account \in [Accounts -> AccountRow] /\ account[a] \in AccountRow
    BY <1>1 DEF TInv, AccountsShaped
  <1>3. /\ new.state = "there" /\ new.enabled = account[a].enabled
        /\ new.validity = IF r.validity = row.validity THEN account[a].validity ELSE r.validity
        /\ new.last = IF r.last = row.last THEN account[a].last ELSE r.last
    BY DEF Updated
  <1>4. new \in AccountRow
    <2> DEFINE v == IF r.validity = row.validity THEN account[a].validity ELSE r.validity
               l == IF r.last = row.last THEN account[a].last ELSE r.last
               e == account[a].enabled
    <2>1. v \in Nat /\ l \in Nat
      BY <1>1, <1>2 DEF ResultShaped, AccountRow
    <2>2. e \in BOOLEAN
      BY <1>2 DEF AccountRow
    <2>3. new = [state |-> "there", enabled |-> e, validity |-> v, last |-> l]
      BY DEF Updated
    <2> HIDE DEF v, l, e, new
    <2> QED
      BY <2>1, <2>2, <2>3 DEF AccountRow
  <1> HIDE DEF new
  <1>5. account' \in [Accounts -> AccountRow] /\ account'[a] = new
    BY <1>1, <1>2, <1>4
  <1>6. \A b \in Accounts \ {a} : account'[b] = account[b]
    BY <1>1, <1>2
  <1> QED
    BY <1>3, <1>5, <1>6

LEMMA ApplyKeepsShape ==
    ASSUME TInv, NEW c \in Clients, Apply(c), NEW a, a = sync[c].account,
           NEW row, row = sync[c].row, NEW r, r = sync[c].result
    PROVE  TInv'
  <1>1. /\ sync[c] # Idle /\ a \in Accounts
        /\ stored' = [stored EXCEPT ![a] = LastOf(c)] /\ due' = due \ {a}
        /\ tasks' = tasks \cup TasksFor(Numbered(RuledOf(c)))
        /\ made' = made + Cardinality(RuledOf(c))
        /\ Losing(Keys(a, stored[a] \ LastOf(c)))
        /\ sync' = [sync EXCEPT ![c] = Idle]
        /\ UNCHANGED <<serverVars, rule, round, events, boundVars>>
        /\ ResultShaped(a, row, r)
        /\ \/ There(a) /\ ReadRow(a, row)
           \/ account[a] = NoAccount /\ row = NoAccount /\ stored[a] = {}
    BY ApplyIs
  <1>2. /\ account' \in [Accounts -> AccountRow] /\ account'[a].state = "there"
        /\ account'[a].validity = IF r.validity = row.validity THEN account[a].validity
                                  ELSE r.validity
        /\ \A b \in Accounts \ {a} : account'[b] = account[b]
    BY UpdatedIs
  <1>3. ServerShaped' /\ validity' = validity /\ UNCHANGED <<ops, faults>>
    BY <1>1 DEF TInv, ServerShaped, serverVars, boundVars
  <1>4. AccountShaped(a)'
    <2>1. AccountShaped(a) /\ validity[a] \in Nat
      BY <1>1 DEF TInv, AccountsShaped, ServerShaped
    <2>2. account'[a].validity # 0 /\ account'[a].validity <= validity[a]
      <3>1. CASE There(a) /\ ReadRow(a, row)
        BY <1>1, <1>2, <2>1, <3>1 DEF AccountShaped, ResultShaped
      <3>2. CASE row = NoAccount
        <4>1. row.validity = 0
          BY <3>2 DEF NoAccount
        <4> QED
          BY <1>1, <1>2, <4>1 DEF ResultShaped
      <3> QED
        BY <1>1, <3>1, <3>2
    <2> QED
      BY <1>2, <1>3, <2>2 DEF AccountShaped, There
  <1>5. AccountsShaped'
    <2>1. ASSUME NEW b \in Accounts PROVE AccountShaped(b)'
      <3>1. CASE b = a
        BY <1>4, <3>1
      <3>2. CASE b # a
        BY <1>2, <1>3, <3>2 DEF TInv, AccountsShaped, AccountShaped, There
      <3> QED
        BY <3>1, <3>2
    <2>2. due' \subseteq Accounts /\ \A b \in due' : There(b)'
      BY <1>1, <1>2 DEF TInv, AccountsShaped, There
    <2> QED
      BY <1>1, <1>2, <2>1, <2>2 DEF TInv, AccountsShaped
  <1>6. StoredShaped'
    <2>1. stored' = [b \in Accounts |-> stored'[b]] /\ stored'[a] = LastOf(c)
          /\ \A b \in Accounts \ {a} : stored'[b] = stored[b]
      BY <1>1 DEF TInv, StoredShaped
    <2>2. /\ RowsShaped(a, LastOf(c)) /\ Cardinality(LastOf(c)) <= MaxStored
          /\ \A x \in LastOf(c) : x.task <= made'
      BY RowsKept
    <2>3. ASSUME NEW b \in Accounts
          PROVE  /\ RowsShaped(b, stored'[b]) /\ Cardinality(stored'[b]) <= MaxStored
                 /\ \A x \in stored'[b] : x.task <= made'
                 /\ stored'[b] # {} => There(b)'
      <3>1. CASE b = a
        BY <1>2, <2>1, <2>2, <3>1 DEF There
      <3>2. ASSUME b # a PROVE <2>3!2
        <4>1. /\ RowsShaped(b, stored[b]) /\ Cardinality(stored[b]) <= MaxStored
              /\ \A x \in stored[b] : x.task <= made
              /\ stored[b] # {} => There(b)
          BY DEF TInv, StoredShaped
        <4>2. \A x \in stored[b] : x.task \in Nat
          BY <4>1 DEF RowsShaped, Row
        <4>3. made \in Nat /\ made' \in Nat /\ made <= made'
          <5>1. IsFiniteSet(RuledOf(c))
            BY RowsAdded
          <5> QED
            BY <1>1, <5>1, NewTasks DEF TInv, MadeShaped
        <4>4. \A x \in stored[b] : x.task <= made'
          BY <4>1, <4>2, <4>3
        <4> QED
          BY <1>2, <2>1, <3>2, <4>1, <4>4 DEF There
      <3> QED
        BY <3>1, <3>2
    <2> QED
      BY <2>1, <2>3 DEF StoredShaped, RowsShaped
  <1>7. RoundShaped'
    <2>1. \A b \in Accounts : \A x : ReadRow(b, x) => ReadRow(b, x)'
      <3>1. \A b \in Accounts : /\ validity[b] <= validity'[b]
                                /\ account[b].state # "new" => account'[b].state # "new"
        BY <1>2, <1>3 DEF TInv, ServerShaped
      <3> QED
        BY <1>3, <3>1, RowStays DEF TInv
    <2> QED
      BY <1>1, <2>1 DEF TInv, RoundShaped
  <1>8. SyncsShaped'
    <2>1. SyncShaped(Idle)'
      BY DEF SyncShaped
    <2>2. ASSUME NEW d \in Clients \ {c}, sync[d] # Idle
          PROVE  account'[sync[d].account].state = "new" <=>
                    account[sync[d].account].state = "new"
      <3>1. sync[d].account \in Accounts /\ Alone(c)
        BY <2>2 DEF TInv, SyncsShaped, SyncShaped
      <3>2. CASE sync[d].account = a
        <4>1. account[a].state # "new"
          BY <1>1, <2>2, <3>1, <3>2 DEF Alone
        <4> QED
          BY <1>2, <3>2, <4>1
      <3>3. CASE sync[d].account # a
        BY <1>2, <3>1, <3>3
      <3> QED
        BY <3>2, <3>3
    <2> QED
      BY <1>1, <1>3, <2>1, <2>2, SyncsMove DEF TInv
  <1>9. ClicksShaped'
    BY <1>1, ClicksLose DEF TInv
  <1>10. MadeShaped'
    <2>1. IsFiniteSet(RuledOf(c)) /\ \A x \in RuledOf(c) : x.mail \in Mails
      BY RowsAdded DEF Letter
    <2> QED
      BY <1>1, <2>1, TasksKeepShape DEF TInv, MadeShaped
  <1> QED
    BY <1>3, <1>5, <1>6, <1>7, <1>8, <1>9, <1>10, BoundsMove DEF TInv

-----------------------------------------------------------------------------
(***************************************************************************)
(* Every step keeps the shape.                                             *)
(***************************************************************************)
LEMMA ShapeAtFirst ==
    ASSUME Init
    PROVE  TInv
  <1>1. ServerShaped
    BY DEF Init, ServerShaped
  <1>2. \A a \in Accounts : account[a] = NoAccount /\ stored[a] = {}
    BY DEF Init
  <1>3. NoAccount \in AccountRow /\ NoAccount.state = "new" /\ NoAccount.validity = 0
    BY DEF NoAccount, AccountRow
  <1>4. AccountsShaped
    <2>1. account \in [Accounts -> AccountRow] /\ rule \in {"none", "on", "off"} /\ due = {}
      BY <1>3 DEF Init
    <2>2. \A a \in Accounts : validity[a] = 1
      BY DEF Init
    <2> QED
      BY <1>2, <1>3, <2>1, <2>2 DEF AccountsShaped, AccountShaped, There
  <1>5. StoredShaped
    <2>1. stored = [a \in Accounts |-> stored[a]]
      BY DEF Init
    <2> QED
      BY <1>2, <2>1, NothingIsShaped DEF StoredShaped, RowsShaped
  <1>6. RoundShaped
    <2>1. /\ round.left = {} /\ round = [left |-> {}, rows |-> round.rows]
      BY DEF Init
    <2> QED
      BY <2>1 DEF RoundShaped
  <1>7. SyncsShaped
    BY DEF Init, SyncsShaped, SyncShaped, Alone
  <1>8. ClicksShaped
    BY DEF Init, ClicksShaped, ClickShaped
  <1>9. MadeShaped
    BY DEF Init, MadeShaped
  <1>10. BoundsShaped
    BY MailAssumption DEF Init, BoundsShaped
  <1> QED
    BY <1>1, <1>4, <1>5, <1>6, <1>7, <1>8, <1>9, <1>10 DEF TInv

(* The steps, as the proofs group them.                                    *)
LEMMA Steps ==
    ASSUME Next
    PROVE  \/ ServerNext \/ WorkerNext
           \/ \E t \in Tabs, a \in Accounts : Starts(t, a)
           \/ \E a \in Accounts : Switch(a)
           \/ \E a \in Accounts : DeleteAccount(a)
           \/ \E a \in Accounts : BecomeDue(a)
           \/ AddRule \/ UpdateRule \/ DeleteRule
           \/ \E t \in Tabs : Clicks(t) \/ AbortClick(t)
           \/ \E t \in Tabs : CommitTask(t) \/ CommitSuggestion(t)
           \/ \E k \in tasks : DeleteTask(k)
           \/ \E c \in Clients : Fetch(c)
           \/ \E c \in Clients : FetchFails(c) \/ Break(c)
           \/ \E c \in Clients : Apply(c)
  BY DEF Next, UserNext, SyncNext, Starts, Clicks

LEMMA ShapeStays ==
    ASSUME TInv, [Next]_vars
    PROVE  TInv'
  <1>1. CASE UNCHANGED vars
    <2>1. /\ UNCHANGED <<serverVars, rule, account, due, stored, tasks, events, made>>
          /\ UNCHANGED <<round, sync, click, ops, faults>>
      BY <1>1 DEF vars, madeVars, boundVars
    <2>2. ServerShaped' /\ AccountsShaped' /\ StoredShaped' /\ MadeShaped' /\ Steady
      BY <2>1, NothingElse
    <2> QED
      BY <2>1, <2>2, RoundStays, SyncsStay, ClicksStay, BoundsMove DEF TInv
  <1>2. ASSUME NEW t \in Tabs, NEW a \in Accounts, Starts(t, a) PROVE TInv'
    BY <1>2, StartsKeepShape DEF Clients
  <1>3. ASSUME NEW c \in Clients, Apply(c) PROVE TInv'
    <2>1. \E a, row, r : a = sync[c].account /\ row = sync[c].row /\ r = sync[c].result
      OBVIOUS
    <2> QED
      BY <1>3, <2>1, ApplyKeepsShape
  <1>4. CASE Next
    BY <1>2, <1>3, <1>4, Steps, ServerKeepsShape, WorkerKeepsShape, SwitchKeepsShape,
       DeleteKeepsShape, BecomeDueKeepsShape, RulesKeepShape, ClicksKeepShape, CommitsKeepShape,
       FetchKeepsShape, EndsKeepShape
  <1> QED
    BY <1>1, <1>4

LEMMA ShapeImpliesType ==
    ASSUME TInv
    PROVE  TypeOK
  <1>1. /\ validity \in [Accounts -> Nat \ {0}] /\ uid \in [Accounts -> [Mails -> Nat]]
        /\ recent \subseteq Mails
    BY DEF TInv, ServerShaped
  <1>2. /\ account \in [Accounts -> [state: {"new", "there", "gone"}, enabled: BOOLEAN,
                                   validity: Nat, last: Nat]]
        /\ rule \in {"none", "on", "off"} /\ due \subseteq Accounts
    BY DEF TInv, AccountsShaped, AccountRow
  <1>3. \A a \in Accounts :
           /\ stored[a] \subseteq Row /\ Cardinality(stored[a]) <= MaxStored
           /\ \A x, y \in stored[a] : x.uid = y.uid => x = y
           /\ stored[a] # {} => There(a)
    BY DEF TInv, StoredShaped, RowsShaped
  <1>4. /\ round.left \subseteq Accounts /\ tasks \subseteq [mail: Mails, no: 1..made]
        /\ ops \in 0..MaxOps /\ faults \in 0..MaxFaults
    BY DEF TInv, RoundShaped, MadeShaped, BoundsShaped
  <1> QED
    BY <1>1, <1>2, <1>3, <1>4 DEF TypeOK

(* Every variable keeps its shape; no number is stored twice in a mailbox, *)
(* and never more than MAX_STORED mails are.                               *)
THEOREM TypeCorrect == Spec => []TypeOK
  <1>1. Spec => []TInv
    BY ShapeAtFirst, ShapeStays, PTL DEF Spec
  <1> QED
    BY <1>1, ShapeImpliesType, PTL

-----------------------------------------------------------------------------
(***************************************************************************)
(* Numbers.  Most steps are calm for an account: its mails keep their      *)
(* numbers, and its rows are read, not written.                            *)
(***************************************************************************)
Runs(c, a) == sync[c] # Idle /\ sync[c].account = a
Applies(c, a) == Runs(c, a) /\ sync[c].kind = "apply"

ServerCalm(a) == validity'[a] = validity[a] /\ uid'[a] = uid[a]
AccountCalm(a) ==
    /\ account'[a].state = account[a].state /\ account'[a].validity = account[a].validity
    /\ account'[a].last = account[a].last
StoredCalm(a) ==
    /\ \A y \in stored'[a] : \E x \in stored[a] : y.uid = x.uid /\ y.mail = x.mail
    /\ \A x \in stored[a] : \E y \in stored'[a] : y.uid = x.uid
SyncsCalm(a) ==
    \A c \in Clients :
       sync'[c] # Idle /\ sync'[c].account = a =>
          \/ sync'[c] = sync[c]
          \/ /\ sync'[c].kind = "read"
             /\ \/ sync'[c].row = NoAccount \/ sync'[c].row = account[a]
                \/ a \in round.left /\ sync'[c].row = round.rows[a]
RoundCalm(a) ==
    a \in round'.left =>
       \/ a \in round.left /\ round'.rows[a] = round.rows[a]
       \/ round'.rows[a] = account[a]
HistoryGrows == excused \subseteq excused' /\ mixed \subseteq mixed'

Calm(a) ==
    /\ ServerCalm(a) /\ AccountCalm(a) /\ StoredCalm(a) /\ SyncsCalm(a) /\ RoundCalm(a)
    /\ HistoryGrows

LEMMA SyncsEnd ==
    ASSUME TInv, NEW c \in Clients, sync' = [sync EXCEPT ![c] = Idle], NEW a \in Accounts
    PROVE  SyncsCalm(a)
  <1>1. sync'[c] = Idle /\ \A d \in Clients \ {c} : sync'[d] = sync[d]
    BY DEF TInv, SyncsShaped
  <1> QED
    BY <1>1 DEF SyncsCalm

LEMMA SyncsBegin ==
    ASSUME TInv, NEW c \in Clients, NEW s, sync' = [sync EXCEPT ![c] = s], NEW a \in Accounts,
           s.account # a \/ /\ s.kind = "read"
                            /\ \/ s.row = NoAccount \/ s.row = account[a]
                               \/ a \in round.left /\ s.row = round.rows[a]
    PROVE  SyncsCalm(a)
  <1>1. sync'[c] = s /\ \A d \in Clients \ {c} : sync'[d] = sync[d]
    BY DEF TInv, SyncsShaped
  <1> QED
    BY <1>1 DEF SyncsCalm

LEMMA RewritesCalm ==
    ASSUME NEW a \in Accounts, NEW g, Rewrites(a, g)
    PROVE  StoredCalm(a)
  <1>1. /\ stored'[a] = {g[x] : x \in stored[a]}
        /\ \A x \in stored[a] : g[x].uid = x.uid /\ g[x].mail = x.mail
    BY DEF Rewrites
  <1> QED
    BY <1>1 DEF StoredCalm

LEMMA SameIsCalm ==
    ASSUME NEW a \in Accounts
    PROVE  /\ UNCHANGED serverVars => ServerCalm(a)
           /\ UNCHANGED account => AccountCalm(a)
           /\ UNCHANGED stored => StoredCalm(a)
           /\ UNCHANGED sync => SyncsCalm(a)
           /\ UNCHANGED round => RoundCalm(a)
           /\ UNCHANGED historyVars => HistoryGrows
  BY DEF ServerCalm, AccountCalm, StoredCalm, SyncsCalm, RoundCalm, HistoryGrows, serverVars,
         historyVars

LEMMA ServerCalms ==
    ASSUME TInv, ServerNext, NEW a \in Accounts
    PROVE  \/ Calm(a) \/ \E m \in Mails : Arrive(a, m)
           \/ \E mails \in SUBSET Mails : Renumber(a, mails)
  <1>1. UNCHANGED <<account, stored, round, sync, historyVars>>
    BY DEF ServerNext, Arrive, Renumber, Age, ServerStep
  <1>2. AccountCalm(a) /\ StoredCalm(a) /\ SyncsCalm(a) /\ RoundCalm(a) /\ HistoryGrows
    BY <1>1, SameIsCalm
  <1>3. ASSUME NEW b \in Accounts, NEW m \in Mails, Arrive(b, m), a # b PROVE ServerCalm(a)
    <2>1. uid'[a] = uid[a] /\ validity' = validity
      BY <1>3, ArriveKeepsServer DEF TInv, Arrive
    <2> QED
      BY <2>1 DEF ServerCalm
  <1>4. ASSUME NEW b \in Accounts, NEW mails \in SUBSET Mails, Renumber(b, mails), a # b
        PROVE  ServerCalm(a)
    BY <1>4, RenumberKeepsServer DEF TInv, ServerCalm
  <1>5. ASSUME NEW m \in Mails, Age(m) PROVE ServerCalm(a)
    BY <1>5 DEF Age, ServerCalm
  <1> QED
    BY <1>2, <1>3, <1>4, <1>5 DEF ServerNext, Calm

LEMMA RoundsCalm ==
    ASSUME TInv, WorkerNext, NEW a \in Accounts
    PROVE  Calm(a)
  <1>1. ASSUME StartRound PROVE Calm(a)
    <2>1. /\ UNCHANGED <<serverVars, account, stored, sync, historyVars>>
          /\ round' = [left |-> Overdue, rows |-> account]
      BY <1>1 DEF StartRound
    <2>2. RoundCalm(a)
      BY <2>1 DEF RoundCalm
    <2> QED
      BY <2>1, <2>2, SameIsCalm DEF Calm
  <1>2. ASSUME NEW b \in Accounts, WorkerSync(b) PROVE Calm(a)
    <2>1. /\ UNCHANGED <<serverVars, account, stored, historyVars>>
          /\ round' = [round EXCEPT !.left = @ \ {b}]
      BY <1>2 DEF WorkerSync
    <2>2. RoundCalm(a)
      BY <2>1 DEF RoundCalm, TInv, RoundShaped
    <2>3. PICK s : /\ sync' = [sync EXCEPT ![Worker] = s]
                   /\ s.kind = "read" /\ s.account = b
                   /\ b \in round.left /\ s.row = round.rows[b]
      BY <1>2, WorkerStartsAre
    <2>4. SyncsCalm(a)
      BY <2>3, SyncsBegin DEF Clients
    <2> QED
      BY <2>1, <2>2, <2>4, SameIsCalm DEF Calm
  <1> QED
    BY <1>1, <1>2 DEF WorkerNext

LEMMA StartsCalm ==
    ASSUME TInv, NEW c \in Clients, NEW b \in Accounts, Starts(c, b), NEW a \in Accounts
    PROVE  Calm(a)
  <1>1. PICK s : /\ sync' = [sync EXCEPT ![c] = s]
                 /\ s.kind = "read" /\ s.account = b
                 /\ s.row = NoAccount \/ s.row = account[b]
                 /\ UNCHANGED <<serverVars, account, stored, round, historyVars>>
    BY StartsAre
  <1>2. SyncsCalm(a)
    BY <1>1, SyncsBegin
  <1> QED
    BY <1>1, <1>2, SameIsCalm DEF Calm

LEMMA EndsCalm ==
    ASSUME TInv, NEW c \in Clients, FetchFails(c) \/ Break(c), NEW a \in Accounts
    PROVE  Calm(a)
  <1>1. /\ sync' = [sync EXCEPT ![c] = Idle] /\ UNCHANGED <<serverVars, account, stored>>
        /\ HistoryGrows
    BY DEF FetchFails, Break, HistoryGrows, historyVars
  <1>2. RoundCalm(a)
    BY DEF FetchFails, Break, RestOfRound, RoundCalm, TInv, RoundShaped
  <1>3. SyncsCalm(a)
    BY <1>1, SyncsEnd
  <1> QED
    BY <1>1, <1>2, <1>3, SameIsCalm DEF Calm

LEMMA DeletesCalm ==
    ASSUME TInv, NEW b \in Accounts, DeleteAccount(b), NEW a \in Accounts
    PROVE  Calm(a) \/ account'[a].state = "gone"
  <1>1. /\ account'[b].state = "gone"
        /\ \A d \in Accounts \ {b} : account'[d] = account[d] /\ stored'[d] = stored[d]
        /\ UNCHANGED <<serverVars, round, sync, excused, mixed>>
    BY DeleteIs
  <1>2. CASE a # b
    <2>1. AccountCalm(a) /\ StoredCalm(a) /\ HistoryGrows
      BY <1>1, <1>2 DEF AccountCalm, StoredCalm, HistoryGrows
    <2> QED
      BY <1>1, <2>1, SameIsCalm DEF Calm
  <1> QED
    BY <1>1, <1>2

LEMMA CommitsCalm ==
    ASSUME TInv, \/ \E t \in Tabs : CommitTask(t) \/ CommitSuggestion(t)
                 \/ \E k \in tasks : DeleteTask(k),
           NEW a \in Accounts
    PROVE  Calm(a)
  <1>1. UNCHANGED <<serverVars, account, round, sync>> /\ HistoryGrows
    BY DEF CommitTask, CommitSuggestion, DeleteTask, HistoryGrows, historyVars
  <1>2. StoredCalm(a)
    <2>1. ASSUME NEW t \in Tabs, CommitTask(t) PROVE StoredCalm(a)
      <3>1. \E number : number = Numbered(AllPicked(t))
        OBVIOUS
      <3>2. \E g : Rewrites(a, g)
        BY <2>1, <3>1, CommitTaskIs
      <3> QED
        BY <3>2, RewritesCalm
    <2>2. ASSUME NEW t \in Tabs, CommitSuggestion(t) PROVE StoredCalm(a)
      BY <2>2, CommitSuggestionIs, RewritesCalm
    <2>3. ASSUME NEW k \in tasks, DeleteTask(k) PROVE StoredCalm(a)
      BY <2>3, DeleteTaskIs, RewritesCalm
    <2> QED
      BY <2>1, <2>2, <2>3
  <1> QED
    BY <1>1, <1>2, SameIsCalm DEF Calm

LEMMA OthersCalm ==
    ASSUME TInv, NEW c \in Clients, Fetch(c) \/ Apply(c), NEW a \in Accounts,
           a # sync[c].account
    PROVE  Calm(a)
  <1>1. CASE Fetch(c)
    <2>1. /\ UNCHANGED <<serverVars, account, stored, round, historyVars>>
          /\ \E s : sync' = [sync EXCEPT ![c] = s] /\ s.account = sync[c].account
      BY <1>1, FetchIs
    <2>2. SyncsCalm(a)
      BY <2>1, SyncsBegin
    <2> QED
      BY <2>1, <2>2, SameIsCalm DEF Calm
  <1>2. CASE Apply(c)
    <2> DEFINE b == sync[c].account
    <2>1. /\ b \in Accounts /\ stored' = [stored EXCEPT ![b] = LastOf(c)]
          /\ sync' = [sync EXCEPT ![c] = Idle]
          /\ UNCHANGED <<serverVars, round>>
          /\ excused \subseteq excused' /\ mixed \subseteq mixed'
      BY <1>2, ApplyIs
    <2>2. account'[a] = account[a]
      <3>1. \E row, r : row = sync[c].row /\ r = sync[c].result
        OBVIOUS
      <3> QED
        BY <1>2, <3>1, UpdatedIs
    <2>3. stored'[a] = stored[a]
      BY <2>1 DEF TInv, StoredShaped
    <2>4. SyncsCalm(a)
      BY <2>1, SyncsEnd
    <2> QED
      BY <2>1, <2>2, <2>3, <2>4, SameIsCalm DEF Calm, AccountCalm, StoredCalm, HistoryGrows
  <1> QED
    BY <1>1, <1>2

LEMMA Calms ==
    ASSUME TInv, [Next]_vars, NEW a \in Accounts
    PROVE  \/ Calm(a) \/ account'[a].state = "gone"
           \/ \E m \in Mails : Arrive(a, m)
           \/ \E mails \in SUBSET Mails : Renumber(a, mails)
           \/ \E c \in Clients : sync[c].account = a /\ (Fetch(c) \/ Apply(c))
  <1>1. CASE UNCHANGED vars
    BY <1>1, SameIsCalm DEF Calm, vars
  <1>2. ASSUME NEW b \in Accounts, Switch(b) PROVE Calm(a)
    <2>1. UNCHANGED <<serverVars, stored, round, sync, historyVars>>
      BY <1>2 DEF Switch
    <2>2. AccountCalm(a)
      BY <1>2, SwitchIs DEF AccountCalm
    <2> QED
      BY <2>1, <2>2, SameIsCalm DEF Calm
  <1>3. ASSUME \/ \E b \in Accounts : BecomeDue(b)
               \/ AddRule \/ UpdateRule \/ DeleteRule
               \/ \E t \in Tabs : Clicks(t) \/ AbortClick(t)
        PROVE  Calm(a)
    <2>1. UNCHANGED <<serverVars, account, stored, round, sync, historyVars>>
      <3>1. ASSUME NEW t \in Tabs, Clicks(t) PROVE <2>1!:
        BY <3>1, ClicksAre
      <3> QED
        BY <1>3, <3>1 DEF BecomeDue, AddRule, UpdateRule, DeleteRule, ChangeRule, AbortClick
    <2> QED
      BY <2>1, SameIsCalm DEF Calm
  <1>4. CASE Next
    <2>1. ASSUME NEW t \in Tabs, NEW b \in Accounts, Starts(t, b) PROVE Calm(a)
      BY <2>1, StartsCalm DEF Clients
    <2> QED
      BY <1>2, <1>3, <1>4, <2>1, Steps, ServerCalms, RoundsCalm, EndsCalm, DeletesCalm,
         CommitsCalm, OthersCalm
  <1> QED
    BY <1>1, <1>4

-----------------------------------------------------------------------------
(***************************************************************************)
(* What is stored under a number is the mail that has it.  A mailbox whose *)
(* numbering was mixed up, or that was deleted, is left out.               *)
(***************************************************************************)
Agree(S, T) == \A x \in S, y \in T : x.uid = y.uid <=> x.mail = y.mail

StoredFits(a) ==
    /\ Agree(stored[a], stored[a])
    /\ account[a].validity = validity[a] => Matches(a, stored[a])
ResultFits(a, r) ==
    /\ r.validity = validity[a] => Matches(a, r.mails)
    /\ r.validity = account[a].validity => Agree(stored[a], r.mails)
ResultsFit(a) ==
    /\ \A c \in Clients : Applies(c, a) => ResultFits(a, sync[c].result)
    /\ \A c, d \in Clients :
          /\ Applies(c, a) /\ Applies(d, a)
          /\ sync[c].result.validity = sync[d].result.validity
          => Agree(sync[c].result.mails, sync[d].result.mails)
RowsRead(a) ==
    /\ \A c \in Clients : Runs(c, a) => sync[c].row.validity <= account[a].validity
    /\ a \in round.left => round.rows[a].validity <= account[a].validity

NumOK(a) ==
    \/ a \in mixed \/ account[a].state = "gone"
    \/ StoredFits(a) /\ ResultsFit(a) /\ RowsRead(a)

NInv == TInv /\ \A a \in Accounts : NumOK(a)

LEMMA CalmKeepsNumbers ==
    ASSUME TInv, NEW a \in Accounts, Calm(a), NumOK(a)
    PROVE  NumOK(a)'
  <1> SUFFICES ASSUME StoredFits(a), ResultsFit(a), RowsRead(a) PROVE NumOK(a)'
    BY DEF NumOK, Calm, AccountCalm, HistoryGrows
  <1>1. /\ validity'[a] = validity[a] /\ uid'[a] = uid[a]
        /\ account'[a].validity = account[a].validity
    BY DEF Calm, ServerCalm, AccountCalm
  <1>2. \A y \in stored'[a] : \E x \in stored[a] : y.uid = x.uid /\ y.mail = x.mail
    BY DEF Calm, StoredCalm
  <1>3. StoredFits(a)'
    BY <1>1, <1>2 DEF StoredFits, Agree, Matches
  <1>4. \A c \in Clients : sync'[c] # Idle /\ sync'[c].account = a /\ sync'[c].kind = "apply" =>
           sync'[c] = sync[c] /\ Applies(c, a)
    BY DEF Calm, SyncsCalm, Applies, Runs
  <1>5. \A T : Agree(stored[a], T) => Agree(stored'[a], T)
    BY <1>2 DEF Agree
  <1>6. ResultsFit(a)'
    <2>1. ASSUME NEW c \in Clients, Applies(c, a)' PROVE ResultFits(a, sync[c].result)'
      <3>1. sync'[c] = sync[c] /\ Applies(c, a)
        BY <1>4, <2>1 DEF Applies, Runs
      <3>2. ResultFits(a, sync[c].result)
        BY <3>1 DEF ResultsFit
      <3> QED
        BY <1>1, <1>5, <3>1, <3>2 DEF ResultFits, Matches
    <2>2. ASSUME NEW c \in Clients, NEW d \in Clients, Applies(c, a)', Applies(d, a)',
                 sync'[c].result.validity = sync'[d].result.validity
          PROVE  Agree(sync'[c].result.mails, sync'[d].result.mails)
      <3>1. sync'[c] = sync[c] /\ Applies(c, a) /\ sync'[d] = sync[d] /\ Applies(d, a)
        BY <1>4, <2>2 DEF Applies, Runs
      <3> QED
        BY <2>2, <3>1 DEF ResultsFit
    <2> QED
      BY <2>1, <2>2 DEF ResultsFit
  <1>7. RowsRead(a)'
    <2>1. account[a].validity \in Nat /\ account[a].validity <= account[a].validity
      BY DEF TInv, AccountsShaped, AccountRow
    <2>2. NoAccount.validity = 0
      BY DEF NoAccount
    <2>3. ASSUME NEW c \in Clients, sync'[c] # Idle, sync'[c].account = a
          PROVE  sync'[c].row.validity <= account[a].validity
      <3>1. \/ sync'[c] = sync[c] /\ Runs(c, a)
            \/ sync'[c].row = NoAccount \/ sync'[c].row = account[a]
            \/ a \in round.left /\ sync'[c].row = round.rows[a]
        BY <2>3 DEF Calm, SyncsCalm, Runs
      <3> QED
        BY <2>1, <2>2, <3>1 DEF RowsRead
    <2>4. a \in round'.left => round'.rows[a].validity <= account[a].validity
      BY <2>1 DEF Calm, RoundCalm, RowsRead
    <2> QED
      BY <1>1, <2>3, <2>4 DEF RowsRead, Runs
  <1> QED
    BY <1>3, <1>6, <1>7 DEF NumOK

(* A mail that arrives has a number of its own, which nothing has yet.     *)
LEMMA ArriveKeepsNumbers ==
    ASSUME TInv, NEW a \in Accounts, NEW m \in Mails, Arrive(a, m), NumOK(a)
    PROVE  NumOK(a)'
  <1>1. /\ uid[a][m] = 0 /\ \A n \in Mails : n # m => uid'[a][n] = uid[a][n]
        /\ UNCHANGED <<validity, account, stored, sync, round, mixed>>
    BY ArriveKeepsServer DEF TInv, Arrive, ServerStep, historyVars
  <1> SUFFICES ASSUME StoredFits(a), ResultsFit(a), RowsRead(a) PROVE NumOK(a)'
    BY <1>1 DEF NumOK
  <1>2. ASSUME NEW S, \A x \in S : x.mail \in Mails /\ x.uid # 0, Matches(a, S)
        PROVE  \A x \in S : uid'[a][x.mail] = x.uid
    BY <1>1, <1>2 DEF Matches
  <1>3. StoredFits(a)'
    <2>1. \A x \in stored[a] : x.mail \in Mails /\ x.uid # 0
      BY DEF TInv, StoredShaped, RowsShaped, Row
    <2> QED
      BY <1>1, <1>2, <2>1 DEF StoredFits, Agree, Matches
  <1>4. ASSUME NEW c \in Clients, Applies(c, a)' PROVE ResultFits(a, sync[c].result)'
    <2>1. sync'[c] = sync[c] /\ Applies(c, a)
      BY <1>1, <1>4 DEF Applies, Runs
    <2>2. ResultFits(a, sync[c].result)
      BY <2>1 DEF ResultsFit
    <2>3. \A x \in sync[c].result.mails : x.mail \in Mails /\ x.uid # 0
      BY <2>1 DEF Applies, Runs, TInv, SyncsShaped, SyncShaped, ResultShaped, LettersShaped, Letter
    <2> DEFINE S == sync[c].result.mails
    <2>4. Matches(a, S) => \A x \in S : uid'[a][x.mail] = x.uid
      BY <1>2, <2>3
    <2> QED
      BY <1>1, <2>1, <2>2, <2>4 DEF ResultFits, Matches, Agree
  <1>5. ResultsFit(a)' /\ RowsRead(a)'
    BY <1>1, <1>4 DEF ResultsFit, RowsRead, Applies, Runs
  <1> QED
    BY <1>3, <1>5 DEF NumOK

(* Under new numbers nothing is stored or fetched yet.                     *)
LEMMA RenumberKeepsNumbers ==
    ASSUME TInv, NEW a \in Accounts, NEW mails \in SUBSET Mails, Renumber(a, mails), NumOK(a)
    PROVE  NumOK(a)'
  <1>1. /\ validity'[a] = validity[a] + 1 /\ validity[a] \in Nat
        /\ UNCHANGED <<account, stored, sync, round, mixed>>
    BY RenumberKeepsServer DEF TInv, ServerShaped, Renumber, ServerStep, historyVars
  <1> SUFFICES ASSUME StoredFits(a), ResultsFit(a), RowsRead(a) PROVE NumOK(a)'
    BY <1>1 DEF NumOK
  <1>2. account[a].validity # validity'[a]
    <2>1. account[a].validity <= validity[a] /\ account[a].validity \in Nat
      BY DEF TInv, AccountsShaped, AccountShaped, AccountRow
    <2> QED
      BY <1>1, <2>1
  <1>3. ASSUME NEW c \in Clients, Applies(c, a) PROVE sync[c].result.validity # validity'[a]
    <2>1. /\ sync[c].result.validity \in Nat /\ sync[c].result.validity <= validity[a]
      BY <1>3 DEF Applies, Runs, TInv, SyncsShaped, SyncShaped, ResultShaped
    <2> QED
      BY <1>1, <2>1
  <1>4. StoredFits(a)'
    BY <1>1, <1>2 DEF StoredFits, Agree
  <1>5. ASSUME NEW c \in Clients, Applies(c, a)' PROVE ResultFits(a, sync[c].result)'
    <2>1. sync'[c] = sync[c] /\ Applies(c, a)
      BY <1>1, <1>5 DEF Applies, Runs
    <2> QED
      BY <1>1, <1>3, <2>1 DEF ResultsFit, ResultFits, Agree
  <1>6. ResultsFit(a)' /\ RowsRead(a)'
    BY <1>1, <1>5 DEF ResultsFit, RowsRead, Applies, Runs
  <1> QED
    BY <1>4, <1>6 DEF NumOK

LEMMA MatchingAgree ==
    ASSUME ServerShaped, NEW a \in Accounts, NEW S, NEW T, Matches(a, S), Matches(a, T),
           \A x \in S : x.mail \in Mails /\ x.uid # 0, \A x \in T : x.mail \in Mails
    PROVE  Agree(S, T)
  BY DEF ServerShaped, Matches, Agree

(* What is fetched has the numbers of now.                                 *)
LEMMA FetchKeepsNumbers ==
    ASSUME TInv, NEW c \in Clients, Fetch(c), NEW a \in Accounts, a = sync[c].account, NumOK(a)
    PROVE  NumOK(a)'
  <1>1. /\ sync[c] # Idle /\ sync[c].kind = "read"
        /\ UNCHANGED <<validity, uid, account, stored, round, mixed>>
    BY FetchIs DEF serverVars, historyVars
  <1> SUFFICES ASSUME StoredFits(a), ResultsFit(a), RowsRead(a) PROVE NumOK(a)'
    BY <1>1 DEF NumOK
  <1>2. PICK s : /\ sync' = [sync EXCEPT ![c] = s] /\ sync'[c] = s
                 /\ s # Idle /\ s.kind = "apply" /\ s.account = a /\ s.row = sync[c].row
                 /\ s.result = Result(a, sync[c].row, sync[c].limit)
    BY FetchIs
  <1>3. \A d \in Clients \ {c} : sync'[d] = sync[d]
    BY <1>2 DEF TInv, SyncsShaped
  <1>4. /\ s.result.validity = validity[a] /\ Matches(a, s.result.mails)
        /\ LettersShaped(a, s.result.mails)
    <2>1. sync[c].row.last \in Nat /\ sync[c].limit \in Nat \ {0}
      BY FetchIs
    <2> QED
      BY <1>2, <2>1, ResultIs DEF TInv
  <1>5. \A x \in s.result.mails : x.mail \in Mails /\ x.uid # 0
    BY <1>4 DEF LettersShaped, Letter
  <1>6. \A x \in stored[a] : x.mail \in Mails /\ x.uid # 0
    BY DEF TInv, StoredShaped, RowsShaped, Row
  <1>7. account[a].validity = validity[a] => Agree(stored[a], s.result.mails)
    BY <1>4, <1>5, <1>6, MatchingAgree DEF StoredFits, TInv
  <1>8. ASSUME NEW d \in Clients \ {c}, Applies(d, a), sync[d].result.validity = validity[a]
        PROVE  /\ Agree(s.result.mails, sync[d].result.mails)
               /\ Agree(sync[d].result.mails, s.result.mails)
    <2>1. Matches(a, sync[d].result.mails)
      BY <1>8 DEF ResultsFit, ResultFits
    <2>2. \A x \in sync[d].result.mails : x.mail \in Mails /\ x.uid # 0
      BY <1>8 DEF Applies, Runs, TInv, SyncsShaped, SyncShaped, ResultShaped, LettersShaped, Letter
    <2> QED
      BY <1>4, <1>5, <2>1, <2>2, MatchingAgree DEF TInv
  <1>9. Agree(s.result.mails, s.result.mails)
    BY <1>4, <1>5, MatchingAgree DEF TInv
  <1>10. ResultsFit(a)'
    <2>1. ASSUME NEW d \in Clients, Applies(d, a)' PROVE ResultFits(a, sync[d].result)'
      <3>1. CASE d = c
        BY <1>1, <1>2, <1>4, <1>7, <3>1 DEF ResultFits, Matches
      <3>2. CASE d # c
        <4>1. sync'[d] = sync[d] /\ Applies(d, a)
          BY <1>3, <2>1, <3>2 DEF Applies, Runs
        <4>2. ResultFits(a, sync[d].result)
          BY <4>1 DEF ResultsFit
        <4> QED
          BY <1>1, <4>1, <4>2 DEF ResultFits, Matches
      <3> QED
        BY <3>1, <3>2
    <2>2. ASSUME NEW d \in Clients, NEW e \in Clients, Applies(d, a)', Applies(e, a)',
                 sync'[d].result.validity = sync'[e].result.validity
          PROVE  Agree(sync'[d].result.mails, sync'[e].result.mails)
      <3>1. \A f \in {d, e} \ {c} : sync'[f] = sync[f] /\ Applies(f, a)
        BY <1>3, <2>2 DEF Applies, Runs
      <3>2. CASE d # c /\ e # c
        BY <2>2, <3>1, <3>2 DEF ResultsFit
      <3>3. CASE d = c /\ e = c
        BY <1>2, <1>9, <3>3
      <3>4. CASE d = c /\ e # c
        BY <1>2, <1>4, <1>8, <2>2, <3>1, <3>4
      <3>5. CASE d # c /\ e = c
        BY <1>2, <1>4, <1>8, <2>2, <3>1, <3>5
      <3> QED
        BY <3>2, <3>3, <3>4, <3>5
    <2> QED
      BY <2>1, <2>2 DEF ResultsFit
  <1>11. RowsRead(a)'
    <2>1. ASSUME NEW d \in Clients, Runs(d, a)'
          PROVE  sync'[d].row.validity <= account[a].validity
      <3>1. CASE d = c
        BY <1>1, <1>2, <3>1 DEF RowsRead, Runs
      <3>2. CASE d # c
        BY <1>3, <2>1, <3>2 DEF RowsRead, Runs
      <3> QED
        BY <3>1, <3>2
    <2> QED
      BY <1>1, <2>1 DEF RowsRead
  <1>12. StoredFits(a)'
    BY <1>1 DEF StoredFits, Matches
  <1> QED
    BY <1>10, <1>11, <1>12 DEF NumOK

(* Where the fetch began.                                                  *)
Base(row, r) == IF row.validity # 0 /\ row.validity # r.validity THEN 0 ELSE row.last

(* When nothing is mixed up, the row has the numbering that was read, and  *)
(* takes the one of the result; what was stored stays exactly if that is   *)
(* the same.                                                               *)
LEMMA ApplyUnmixed ==
    ASSUME TInv, NEW c \in Clients, Apply(c), NEW a, a = sync[c].account,
           NEW row, row = sync[c].row, NEW r, r = sync[c].result, a \notin mixed'
    PROVE  /\ a \notin mixed /\ account[a].state # "gone"
           /\ row.validity = account[a].validity /\ account'[a].validity = r.validity
           /\ \/ /\ r.validity = row.validity /\ There(a) /\ KeptOf(c) = stored[a]
                 /\ row.validity # 0
              \/ /\ row.validity < r.validity /\ KeptOf(c) = {} /\ Base(row, r) = 0
                 /\ account'[a].last = r.last
  <1>1. /\ mixed' = IF Mixes(a, sync[c]) THEN mixed \cup {a} ELSE mixed
        /\ ResultShaped(a, row, r) /\ a \in Accounts
        /\ \/ There(a) /\ ReadRow(a, row)
           \/ account[a] = NoAccount /\ row = NoAccount /\ stored[a] = {}
    BY ApplyIs
  <1>2. a \notin mixed /\ ~Mixes(a, sync[c])
    BY <1>1
  <1>3. /\ account'[a].validity = IF r.validity = row.validity THEN account[a].validity
                                  ELSE r.validity
        /\ account'[a].last = IF r.last = row.last THEN account[a].last ELSE r.last
    BY UpdatedIs
  <1>4. KeptOf(c) = IF row.validity # 0 /\ r.validity # row.validity THEN {} ELSE stored[a]
    BY DEF KeptOf, Kept
  <1>5. row.validity <= r.validity /\ r.validity \in Nat /\ r.validity # 0
    BY <1>1 DEF ResultShaped
  <1>6. CASE There(a) /\ ReadRow(a, row)
    <2>1. row.state = "there" /\ row.validity \in Nat /\ row.validity # 0
      BY <1>6 DEF ReadRow, AccountRow
    <2>2. \/ row.validity = account[a].validity /\ row.last = account[a].last
          \/ row.validity = r.validity /\ row.validity = account[a].validity
      BY <1>2, <2>1 DEF Mixes
    <2>3. account[a].state # "gone"
      BY <1>6 DEF There
    <2>4. CASE r.validity = row.validity
      BY <1>2, <1>3, <1>4, <1>6, <2>1, <2>2, <2>3, <2>4
    <2>5. CASE r.validity # row.validity
      <3>1. row.validity < r.validity
        BY <1>5, <2>1, <2>5
      <3>2. Base(row, r) = 0
        BY <2>1, <2>5 DEF Base
      <3> QED
        BY <1>2, <1>3, <1>4, <2>1, <2>2, <2>3, <2>5, <3>1, <3>2
    <2> QED
      BY <2>4, <2>5
  <1>7. CASE account[a] = NoAccount /\ row = NoAccount /\ stored[a] = {}
    <2>1. /\ NoAccount.validity = 0 /\ NoAccount.last = 0 /\ NoAccount.state = "new"
      BY DEF NoAccount
    <2>2. row.validity < r.validity
      BY <1>5, <1>7, <2>1
    <2>3. KeptOf(c) = {} /\ Base(row, r) = 0
      BY <1>4, <1>7, <2>1 DEF Base
    <2> QED
      BY <1>2, <1>3, <1>7, <2>1, <2>2, <2>3
  <1> QED
    BY <1>1, <1>6, <1>7

LEMMA AllAre ==
    ASSUME TInv, NEW c \in Clients, Apply(c), NEW a, a = sync[c].account
    PROVE  \A x \in AllOf(c) :
              \/ x \in KeptOf(c)
              \/ \E y \in sync[c].result.mails : x.uid = y.uid /\ x.mail = y.mail
  <1>1. \A x \in FreshOf(c) : /\ x \in sync[c].result.mails
                              /\ RowOf(c, x).uid = x.uid /\ RowOf(c, x).mail = x.mail
    BY RowsAdded
  <1> QED
    BY <1>1 DEF AllOf

LEMMA ApplyKeepsNumbers ==
    ASSUME TInv, NEW c \in Clients, Apply(c), NEW a, a = sync[c].account,
           NEW row, row = sync[c].row, NEW r, r = sync[c].result, NumOK(a)
    PROVE  NumOK(a)'
  <1> SUFFICES ASSUME a \notin mixed' PROVE NumOK(a)'
    BY DEF NumOK
  <1>1. /\ a \notin mixed /\ account[a].state # "gone"
        /\ row.validity = account[a].validity /\ account'[a].validity = r.validity
        /\ \/ r.validity = row.validity
           \/ row.validity < r.validity /\ KeptOf(c) = {}
    BY ApplyUnmixed
  <1>2. StoredFits(a) /\ ResultsFit(a) /\ RowsRead(a)
    BY <1>1 DEF NumOK
  <1>3. /\ a \in Accounts /\ Applies(c, a) /\ stored'[a] = LastOf(c)
        /\ UNCHANGED <<validity, uid, round>>
        /\ sync'[c] = Idle /\ \A d \in Clients \ {c} : sync'[d] = sync[d]
        /\ ResultShaped(a, row, r)
    <2>1. /\ a \in Accounts /\ Applies(c, a) /\ ResultShaped(a, row, r)
          /\ UNCHANGED <<validity, uid, round>>
          /\ stored' = [stored EXCEPT ![a] = LastOf(c)] /\ sync' = [sync EXCEPT ![c] = Idle]
      BY ApplyIs DEF Applies, Runs, serverVars
    <2>2. stored'[a] = LastOf(c)
      BY <2>1 DEF TInv, StoredShaped
    <2>3. sync'[c] = Idle /\ \A d \in Clients \ {c} : sync'[d] = sync[d]
      BY <2>1 DEF TInv, SyncsShaped
    <2> QED
      BY <2>1, <2>2, <2>3
  <1>4. KeptOf(c) \subseteq stored[a] /\ LastOf(c) \subseteq AllOf(c)
    BY RowsAdded, RowsKept
  <1>5. ASSUME NEW x \in LastOf(c)
        PROVE  \/ x \in stored[a] /\ KeptOf(c) # {}
               \/ \E y \in r.mails : x.uid = y.uid /\ x.mail = y.mail
    BY <1>4, AllAre
  <1>6. KeptOf(c) # {} => r.validity = account[a].validity
    BY <1>1
  <1>7. KeptOf(c) # {} => Agree(stored[a], r.mails)
    BY <1>2, <1>3, <1>6 DEF ResultsFit, ResultFits
  <1>8. Agree(r.mails, r.mails) /\ Agree(stored[a], stored[a])
    BY <1>2, <1>3 DEF ResultsFit, StoredFits
  <1>9. Agree(LastOf(c), LastOf(c))
    <2> SUFFICES ASSUME NEW x \in LastOf(c), NEW y \in LastOf(c)
                 PROVE  x.uid = y.uid <=> x.mail = y.mail
      BY DEF Agree
    <2>1. CASE x \in stored[a] /\ y \in stored[a]
      BY <1>8, <2>1 DEF Agree
    <2>2. ASSUME x \in stored[a], KeptOf(c) # {},
                 NEW v \in r.mails, y.uid = v.uid /\ y.mail = v.mail
          PROVE  x.uid = y.uid <=> x.mail = y.mail
      BY <1>7, <2>2 DEF Agree
    <2>3. ASSUME y \in stored[a], KeptOf(c) # {},
                 NEW v \in r.mails, x.uid = v.uid /\ x.mail = v.mail
          PROVE  x.uid = y.uid <=> x.mail = y.mail
      BY <1>7, <2>3 DEF Agree
    <2>4. ASSUME NEW v \in r.mails, NEW w \in r.mails, x.uid = v.uid /\ x.mail = v.mail,
                 y.uid = w.uid /\ y.mail = w.mail
          PROVE  x.uid = y.uid <=> x.mail = y.mail
      BY <1>8, <2>4 DEF Agree
    <2> QED
      BY <1>5, <2>1, <2>2, <2>3, <2>4
  <1>10. ASSUME r.validity = validity[a] PROVE Matches(a, LastOf(c))
    <2>1. Matches(a, r.mails)
      BY <1>2, <1>3, <1>10 DEF ResultsFit, ResultFits
    <2>2. KeptOf(c) # {} => Matches(a, stored[a])
      BY <1>2, <1>6, <1>10 DEF StoredFits
    <2> QED
      BY <1>5, <2>1, <2>2 DEF Matches
  <1>11. StoredFits(a)'
    BY <1>1, <1>3, <1>9, <1>10 DEF StoredFits, Matches
  <1>12. ASSUME NEW d \in Clients, Applies(d, a)' PROVE ResultFits(a, sync[d].result)'
    <2>1. d # c /\ sync'[d] = sync[d] /\ Applies(d, a)
      BY <1>3, <1>12 DEF Applies, Runs
    <2> DEFINE q == sync[d].result
    <2>2. ResultFits(a, q)
      BY <2>1, <1>2 DEF ResultsFit
    <2>3. ASSUME q.validity = r.validity PROVE Agree(LastOf(c), q.mails)
      <3>1. Agree(r.mails, q.mails)
        BY <1>2, <1>3, <2>1, <2>3 DEF ResultsFit
      <3>2. KeptOf(c) # {} => Agree(stored[a], q.mails)
        BY <1>6, <2>2, <2>3 DEF ResultFits
      <3> SUFFICES ASSUME NEW x \in LastOf(c), NEW y \in q.mails
                   PROVE  x.uid = y.uid <=> x.mail = y.mail
        BY DEF Agree
      <3>3. CASE x \in stored[a] /\ KeptOf(c) # {}
        BY <3>2, <3>3 DEF Agree
      <3>4. ASSUME NEW v \in r.mails, x.uid = v.uid /\ x.mail = v.mail
            PROVE  x.uid = y.uid <=> x.mail = y.mail
        BY <3>1, <3>4 DEF Agree
      <3> QED
        BY <1>5, <3>3, <3>4
    <2> QED
      BY <1>1, <1>3, <2>1, <2>2, <2>3 DEF ResultFits, Matches
  <1>13. ASSUME NEW d \in Clients, NEW e \in Clients, Applies(d, a)', Applies(e, a)',
                sync'[d].result.validity = sync'[e].result.validity
         PROVE  Agree(sync'[d].result.mails, sync'[e].result.mails)
    <2>1. /\ sync'[d] = sync[d] /\ Applies(d, a) /\ sync'[e] = sync[e] /\ Applies(e, a)
      BY <1>3, <1>13 DEF Applies, Runs
    <2> QED
      BY <1>2, <1>13, <2>1 DEF ResultsFit
  <1>14. RowsRead(a)'
    <2>1. account[a].validity <= r.validity /\ account[a].validity \in Nat /\ r.validity \in Nat
      BY <1>1, <1>3 DEF ResultShaped, TInv, AccountsShaped, AccountRow
    <2>2. ASSUME NEW d \in Clients, Runs(d, a)' PROVE sync'[d].row.validity <= r.validity
      <3>1. d # c /\ sync'[d] = sync[d] /\ Runs(d, a)
        BY <1>3, <2>2 DEF Runs
      <3>2. sync[d].row.validity <= account[a].validity
        BY <1>2, <3>1 DEF RowsRead
      <3>3. sync[d].row.validity \in Nat
        BY <3>1 DEF Runs, TInv, SyncsShaped, SyncShaped, ReadRow, AccountRow, NoAccount
      <3> QED
        BY <2>1, <3>1, <3>2, <3>3
    <2>3. a \in round.left => round.rows[a].validity <= r.validity
      <3>1. a \in round.left => round.rows[a].validity \in Nat
        BY DEF TInv, RoundShaped, ReadRow, AccountRow
      <3> QED
        BY <1>2, <2>1, <3>1 DEF RowsRead
    <2> QED
      BY <1>1, <1>3, <2>2, <2>3 DEF RowsRead
  <1>15. ResultsFit(a)'
    BY <1>12, <1>13 DEF ResultsFit
  <1> QED
    BY <1>11, <1>14, <1>15 DEF NumOK

LEMMA NumbersStay ==
    ASSUME TInv, [Next]_vars, NEW a \in Accounts, NumOK(a)
    PROVE  NumOK(a)'
  <1>1. ASSUME NEW c \in Clients, Apply(c), sync[c].account = a PROVE NumOK(a)'
    <2>1. \E row, r : row = sync[c].row /\ r = sync[c].result
      OBVIOUS
    <2> QED
      BY <1>1, <2>1, ApplyKeepsNumbers
  <1>2. account'[a].state = "gone" => NumOK(a)'
    BY DEF NumOK
  <1> QED
    BY <1>1, <1>2, Calms, CalmKeepsNumbers, ArriveKeepsNumbers, RenumberKeepsNumbers,
       FetchKeepsNumbers

LEMMA NumbersAtFirst ==
    ASSUME Init
    PROVE  NInv
  <1>1. TInv
    BY ShapeAtFirst
  <1>2. ASSUME NEW a \in Accounts PROVE NumOK(a)
    <2>1. stored[a] = {} /\ round.left = {} /\ \A c \in Clients : sync[c] = Idle
      BY DEF Init
    <2> QED
      BY <2>1 DEF NumOK, StoredFits, ResultsFit, RowsRead, Agree, Matches, Applies, Runs
  <1> QED
    BY <1>1, <1>2 DEF NInv

LEMMA NumbersKept ==
    ASSUME NInv, [Next]_vars
    PROVE  NInv'
  <1>1. TInv'
    BY ShapeStays DEF NInv
  <1> QED
    BY <1>1, NumbersStay DEF NInv

LEMMA NumbersMeanStored ==
    ASSUME NInv
    PROVE  StoredAsNumbered
  <1> SUFFICES ASSUME NEW a \in Accounts, a \notin mixed, account[a].validity = validity[a],
                      NEW x \in stored[a]
               PROVE  uid[a][x.mail] = x.uid
    BY DEF StoredAsNumbered
  <1>1. account[a].state # "gone"
    BY DEF NInv, TInv, StoredShaped, There
  <1> QED
    BY <1>1 DEF NInv, NumOK, StoredFits, Matches

(* What is stored under a number is the mail that has it in the folder, as *)
(* soon as ToDoch has seen how the folder is numbered, unless two syncs    *)
(* that overlapped have mixed the numberings up.                           *)
THEOREM StoredUnderItsNumber == Spec => []StoredAsNumbered
  <1>1. Spec => []NInv
    BY NumbersAtFirst, NumbersKept, PTL DEF Spec
  <1> QED
    BY <1>1, NumbersMeanStored, PTL

-----------------------------------------------------------------------------
(***************************************************************************)
(* No mail is skipped: what lies below a number that was read is stored or *)
(* need not be.                                                            *)
(***************************************************************************)
Has(a, n) == (\E x \in stored[a] : x.uid = n) \/ <<a, validity[a], n>> \in excused
Covered(a, l) == \A n \in Uids(a) : n <= l => Has(a, n)

RowCovers(a, row) ==
    row.validity = validity[a] => Reached(a, row.last) /\ (There(a) => Covered(a, row.last))

ResultCovers(a, row, r) ==
    r.validity = validity[a] =>
       /\ Reached(a, r.last)
       /\ \A n \in Uids(a) : Base(row, r) < n /\ n <= r.last =>
             (\E x \in r.mails : x.uid = n) \/ n \in r.rest

CoverOK(a) ==
    \/ a \in mixed \/ account[a].state = "gone"
    \/ /\ RowCovers(a, account[a])
       /\ \A c \in Clients : Runs(c, a) => RowCovers(a, sync[c].row)
       /\ a \in round.left => RowCovers(a, round.rows[a])
       /\ \A c \in Clients : Applies(c, a) => ResultCovers(a, sync[c].row, sync[c].result)

CInv == NInv /\ \A a \in Accounts : CoverOK(a)

LEMMA NewRowCovers ==
    ASSUME ServerShaped, NEW a \in Accounts
    PROVE  RowCovers(a, NoAccount)
  <1>1. validity[a] # 0 /\ NoAccount.validity = 0
    BY DEF ServerShaped, NoAccount
  <1> QED
    BY <1>1 DEF RowCovers

LEMMA CalmKeepsCover ==
    ASSUME TInv, TInv', NEW a \in Accounts, Calm(a), CoverOK(a)
    PROVE  CoverOK(a)'
  <1> SUFFICES ASSUME a \notin mixed, account[a].state # "gone" PROVE CoverOK(a)'
    BY DEF CoverOK, Calm, AccountCalm, HistoryGrows
  <1>1. /\ RowCovers(a, account[a])
        /\ \A c \in Clients : Runs(c, a) => RowCovers(a, sync[c].row)
        /\ a \in round.left => RowCovers(a, round.rows[a])
        /\ \A c \in Clients : Applies(c, a) => ResultCovers(a, sync[c].row, sync[c].result)
    BY DEF CoverOK
  <1>2. validity'[a] = validity[a] /\ uid'[a] = uid[a]
    BY DEF Calm, ServerCalm
  <1>3. Uids(a)' = Uids(a)
    BY <1>2 DEF Uids
  <1>4. /\ account'[a].state = account[a].state /\ account'[a].validity = account[a].validity
        /\ account'[a].last = account[a].last
    BY DEF Calm, AccountCalm
  <1>5. \A l : Reached(a, l) => Reached(a, l)'
    BY <1>3 DEF Reached
  <1>6. \A l : Covered(a, l) => Covered(a, l)'
    <2>1. \A n : Has(a, n) => Has(a, n)'
      BY <1>2 DEF Has, Calm, StoredCalm, HistoryGrows
    <2> QED
      BY <1>3, <2>1 DEF Covered
  <1>7. \A row : RowCovers(a, row) => RowCovers(a, row)'
    BY <1>2, <1>4, <1>5, <1>6 DEF RowCovers, There
  <1>8. \A row, r : ResultCovers(a, row, r) => ResultCovers(a, row, r)'
    BY <1>2, <1>3, <1>5 DEF ResultCovers
  <1>9. RowCovers(a, account[a])'
    BY <1>1, <1>2, <1>4, <1>5, <1>6 DEF RowCovers, There
  <1>10. ASSUME NEW c \in Clients, Runs(c, a)' PROVE RowCovers(a, sync[c].row)'
    <2>1. \/ sync'[c] = sync[c] /\ Runs(c, a)
          \/ sync'[c].row = NoAccount \/ sync'[c].row = account[a]
          \/ a \in round.left /\ sync'[c].row = round.rows[a]
      BY <1>10 DEF Calm, SyncsCalm, Runs
    <2>2. RowCovers(a, sync'[c].row)
      BY <1>1, <2>1, NewRowCovers DEF TInv
    <2> QED
      BY <1>7, <2>2
  <1>11. ASSUME a \in round'.left PROVE RowCovers(a, round.rows[a])'
    <2>1. \/ a \in round.left /\ round'.rows[a] = round.rows[a]
          \/ round'.rows[a] = account[a]
      BY <1>11 DEF Calm, RoundCalm
    <2>2. RowCovers(a, round'.rows[a])
      BY <1>1, <2>1
    <2> QED
      BY <1>7, <2>2
  <1>12. ASSUME NEW c \in Clients, Applies(c, a)'
         PROVE  ResultCovers(a, sync[c].row, sync[c].result)'
    <2>1. sync'[c] = sync[c] /\ Applies(c, a)
      BY <1>12 DEF Calm, SyncsCalm, Applies, Runs
    <2> QED
      BY <1>1, <1>8, <2>1
  <1> QED
    BY <1>9, <1>10, <1>11, <1>12 DEF CoverOK

(* A mail that arrives lies above all that was reached.                    *)
LEMMA ArriveKeepsCover ==
    ASSUME TInv, NEW a \in Accounts, NEW m \in Mails, Arrive(a, m), CoverOK(a)
    PROVE  CoverOK(a)'
  <1>1. /\ uid[a][m] = 0 /\ \A n \in Mails : n # m => uid'[a][n] = uid[a][n]
        /\ uid'[a][m] \in Nat /\ \A n \in Uids(a) : n < uid'[a][m]
        /\ UNCHANGED <<validity, account, stored, sync, round, mixed, excused>>
    BY ArriveKeepsServer DEF TInv, Arrive, ServerStep, historyVars
  <1> SUFFICES ASSUME a \notin mixed, account[a].state # "gone" PROVE CoverOK(a)'
    BY <1>1 DEF CoverOK
  <1>2. /\ RowCovers(a, account[a])
        /\ \A c \in Clients : Runs(c, a) => RowCovers(a, sync[c].row)
        /\ a \in round.left => RowCovers(a, round.rows[a])
        /\ \A c \in Clients : Applies(c, a) => ResultCovers(a, sync[c].row, sync[c].result)
    BY DEF CoverOK
  <1> DEFINE new == uid'[a][m]
  <1>3. /\ Uids(a) \subseteq Uids(a)' /\ Uids(a)' \subseteq Uids(a) \cup {new}
        /\ Uids(a) \subseteq Nat \ {0} /\ 0 \notin Uids(a)'
    <2>1. Uids(a) \subseteq Nat \ {0} /\ 0 \notin Uids(a)'
      BY UidsAre DEF TInv, Uids
    <2>2. Uids(a)' = {uid'[a][n] : n \in Mails} \ {0}
      BY DEF Uids
    <2>3. ASSUME NEW n \in Uids(a) PROVE n \in Uids(a)'
      <3>1. PICK k \in Mails : uid[a][k] = n /\ n # 0
        BY DEF Uids
      <3>2. uid'[a][k] = n
        BY <1>1, <3>1
      <3> QED
        BY <2>2, <3>1, <3>2
    <2>4. ASSUME NEW n \in Uids(a)' PROVE n \in Uids(a) \cup {new}
      <3>1. PICK k \in Mails : uid'[a][k] = n /\ n # 0
        BY <2>2
      <3> QED
        BY <1>1, <3>1 DEF Uids
    <2> QED
      BY <2>1, <2>3, <2>4
  <1>4. \A l : Reached(a, l) => Reached(a, l)'
    BY <1>3 DEF Reached
  <1>5. ASSUME NEW l \in Nat, Reached(a, l), new \in Uids(a)' PROVE ~(new <= l)
    <2>1. CASE l = 0
      <3>1. new # 0 /\ new \in Nat
        BY <1>1, <1>3, <1>5
      <3> QED
        BY <2>1, <3>1
    <2>2. ASSUME NEW n \in Uids(a), l <= n PROVE ~(new <= l)
      <3>1. n \in Nat /\ n < new /\ new \in Nat
        BY <1>1, <1>3
      <3> QED
        BY <2>2, <3>1
    <2> QED
      BY <1>5, <2>1, <2>2 DEF Reached
  <1>6. ASSUME NEW l \in Nat, Reached(a, l), Covered(a, l) PROVE Covered(a, l)'
    <2>1. \A n \in Uids(a)' : n <= l => n \in Uids(a)
      BY <1>3, <1>5, <1>6
    <2> QED
      BY <1>1, <1>6, <2>1 DEF Covered, Has
  <1>7. \A row : row.last \in Nat /\ RowCovers(a, row) => RowCovers(a, row)'
    BY <1>1, <1>4, <1>6 DEF RowCovers, There
  <1>8. \A row, r : r.last \in Nat /\ ResultCovers(a, row, r) => ResultCovers(a, row, r)'
    <2> SUFFICES ASSUME NEW row, NEW r, r.last \in Nat, ResultCovers(a, row, r),
                        r.validity = validity[a]
                 PROVE  /\ Reached(a, r.last)'
                        /\ \A n \in Uids(a)' : Base(row, r) < n /\ n <= r.last =>
                              (\E x \in r.mails : x.uid = n) \/ n \in r.rest
      BY <1>1 DEF ResultCovers
    <2>1. Reached(a, r.last)
      BY DEF ResultCovers
    <2>2. \A n \in Uids(a)' : n <= r.last => n \in Uids(a)
      BY <1>3, <1>5, <2>1
    <2> QED
      BY <1>4, <2>1, <2>2 DEF ResultCovers
  <1>9. account[a].last \in Nat
    BY DEF TInv, AccountsShaped, AccountRow
  <1>10. \A c \in Clients : Runs(c, a) => sync[c].row.last \in Nat
    BY DEF Runs, TInv, SyncsShaped, SyncShaped, ReadRow, AccountRow, NoAccount
  <1>11. \A c \in Clients : Applies(c, a) => sync[c].result.last \in Nat
    BY DEF Applies, Runs, TInv, SyncsShaped, SyncShaped, ResultShaped
  <1>12. a \in round.left => round.rows[a].last \in Nat
    BY DEF TInv, RoundShaped, ReadRow, AccountRow
  <1>13. RowCovers(a, account[a])'
    BY <1>1, <1>2, <1>7, <1>9
  <1>14. \A c \in Clients : Runs(c, a)' => RowCovers(a, sync[c].row)'
    BY <1>1, <1>2, <1>7, <1>10 DEF Runs
  <1>15. a \in round'.left => RowCovers(a, round.rows[a])'
    BY <1>1, <1>2, <1>7, <1>12
  <1>16. \A c \in Clients : Applies(c, a)' => ResultCovers(a, sync[c].row, sync[c].result)'
    BY <1>1, <1>2, <1>8, <1>11 DEF Applies, Runs
  <1> QED
    BY <1>13, <1>14, <1>15, <1>16 DEF CoverOK

(* Nothing that was read is of the new numbering.                          *)
LEMMA RenumberKeepsCover ==
    ASSUME NInv, NEW a \in Accounts, NEW mails \in SUBSET Mails, Renumber(a, mails), CoverOK(a)
    PROVE  CoverOK(a)'
  <1>1. /\ validity'[a] = validity[a] + 1 /\ validity[a] \in Nat
        /\ UNCHANGED <<account, stored, sync, round, mixed>>
    BY RenumberKeepsServer DEF NInv, TInv, ServerShaped, Renumber, ServerStep, historyVars
  <1> SUFFICES ASSUME a \notin mixed, account[a].state # "gone" PROVE CoverOK(a)'
    BY <1>1 DEF CoverOK
  <1>2. RowsRead(a)
    BY DEF NInv, NumOK
  <1>3. \A v \in Nat : v <= account[a].validity => v # validity'[a]
    <2>1. account[a].validity <= validity[a] /\ account[a].validity \in Nat
      BY DEF NInv, TInv, AccountsShaped, AccountShaped, AccountRow
    <2> QED
      BY <1>1, <2>1
  <1>4. account[a].validity # validity'[a]
    <2>1. account[a].validity \in Nat /\ account[a].validity <= account[a].validity
      BY DEF NInv, TInv, AccountsShaped, AccountRow
    <2> QED
      BY <1>3, <2>1
  <1>5. \A c \in Clients : Runs(c, a) => sync[c].row.validity # validity'[a]
    <2>1. \A c \in Clients : Runs(c, a) => sync[c].row.validity \in Nat
      BY DEF Runs, NInv, TInv, SyncsShaped, SyncShaped, ReadRow, AccountRow, NoAccount
    <2> QED
      BY <1>2, <1>3, <2>1 DEF RowsRead
  <1>6. a \in round.left => round.rows[a].validity # validity'[a]
    <2>1. a \in round.left => round.rows[a].validity \in Nat
      BY DEF NInv, TInv, RoundShaped, ReadRow, AccountRow
    <2> QED
      BY <1>2, <1>3, <2>1 DEF RowsRead
  <1>7. \A c \in Clients : Applies(c, a) => sync[c].result.validity # validity'[a]
    <2>1. \A c \in Clients : Applies(c, a) => /\ sync[c].result.validity \in Nat
                                              /\ sync[c].result.validity <= validity[a]
      BY DEF Applies, Runs, NInv, TInv, SyncsShaped, SyncShaped, ResultShaped
    <2> QED
      BY <1>1, <2>1
  <1> QED
    BY <1>1, <1>4, <1>5, <1>6, <1>7 DEF CoverOK, RowCovers, ResultCovers, Runs, Applies

LEMMA FetchKeepsCover ==
    ASSUME TInv, NEW c \in Clients, Fetch(c), NEW a \in Accounts, a = sync[c].account, CoverOK(a)
    PROVE  CoverOK(a)'
  <1>1. /\ sync[c] # Idle /\ sync[c].kind = "read"
        /\ UNCHANGED <<validity, uid, account, stored, round, mixed, excused>>
    BY FetchIs DEF serverVars, historyVars
  <1> SUFFICES ASSUME a \notin mixed, account[a].state # "gone" PROVE CoverOK(a)'
    BY <1>1 DEF CoverOK
  <1>2. /\ RowCovers(a, account[a])
        /\ \A d \in Clients : Runs(d, a) => RowCovers(a, sync[d].row)
        /\ a \in round.left => RowCovers(a, round.rows[a])
        /\ \A d \in Clients : Applies(d, a) => ResultCovers(a, sync[d].row, sync[d].result)
    BY DEF CoverOK
  <1>3. /\ \A row : RowCovers(a, row) <=> RowCovers(a, row)'
        /\ \A row, r : ResultCovers(a, row, r) <=> ResultCovers(a, row, r)'
    BY <1>1 DEF RowCovers, ResultCovers, Reached, Covered, Has, Uids, There
  <1>4. PICK s : /\ sync' = [sync EXCEPT ![c] = s] /\ sync'[c] = s
                 /\ s # Idle /\ s.kind = "apply" /\ s.account = a /\ s.row = sync[c].row
                 /\ s.result = Result(a, sync[c].row, sync[c].limit)
    BY FetchIs
  <1>5. \A d \in Clients \ {c} : sync'[d] = sync[d]
    BY <1>4 DEF TInv, SyncsShaped
  <1> DEFINE row == sync[c].row
             r == s.result
  <1>6. RowCovers(a, row)
    BY <1>1, <1>2 DEF Runs
  <1>7. ResultCovers(a, row, r)
    <2>1. /\ r.validity = validity[a]
          /\ Reached(a, LastKnown(a, row)) => Reached(a, r.last)
          /\ \A n \in Uids(a) : LastKnown(a, row) < n /\ n <= r.last =>
                (\E x \in r.mails : x.uid = n) \/ n \in r.rest
      <3>1. row.last \in Nat /\ sync[c].limit \in Nat \ {0}
        BY FetchIs
      <3> QED
        BY <1>4, <3>1, ResultIs DEF TInv
    <2>2. Base(row, r) = LastKnown(a, row)
      BY <2>1 DEF Base, LastKnown
    <2>3. Reached(a, LastKnown(a, row))
      <3>1. CASE row = NoAccount
        BY <3>1 DEF LastKnown, NoAccount, Reached
      <3>2. CASE row # NoAccount
        <4>1. row.validity # 0
          BY <1>1, <3>2 DEF TInv, SyncsShaped, SyncShaped, ReadRow
        <4> QED
          BY <1>6, <4>1 DEF LastKnown, Reached, RowCovers
      <3> QED
        BY <3>1, <3>2
    <2> HIDE DEF row, r
    <2> QED
      BY <2>1, <2>2, <2>3 DEF ResultCovers
  <1>8. ASSUME NEW d \in Clients, Runs(d, a)' PROVE RowCovers(a, sync[d].row)'
    <2>1. RowCovers(a, sync'[d].row)
      BY <1>1, <1>2, <1>4, <1>5, <1>6, <1>8 DEF Runs
    <2> QED
      BY <1>3, <2>1
  <1>9. ASSUME NEW d \in Clients, Applies(d, a)'
        PROVE  ResultCovers(a, sync[d].row, sync[d].result)'
    <2>1. CASE d = c
      BY <1>3, <1>4, <1>7, <2>1
    <2>2. CASE d # c
      <3>1. sync'[d] = sync[d] /\ Applies(d, a)
        BY <1>5, <1>9, <2>2 DEF Applies, Runs
      <3> QED
        BY <1>2, <1>3, <3>1
    <2> QED
      BY <2>1, <2>2
  <1>10. RowCovers(a, account[a])' /\ (a \in round'.left => RowCovers(a, round.rows[a])')
    BY <1>1, <1>2, <1>3
  <1> QED
    BY <1>8, <1>9, <1>10 DEF CoverOK

(* A result that is applied: what lies between the beginning of its fetch  *)
(* and its end is stored or excused now, what lies below was before.       *)
LEMMA ApplyKeepsCover ==
    ASSUME NInv, NEW c \in Clients, Apply(c), NEW a, a = sync[c].account,
           NEW row, row = sync[c].row, NEW r, r = sync[c].result, CoverOK(a)
    PROVE  CoverOK(a)'
  <1> SUFFICES ASSUME a \notin mixed' PROVE CoverOK(a)'
    BY DEF CoverOK
  <1> USE DEF NInv
  <1>0. TInv /\ ServerShaped
    BY DEF TInv
  <1>1. /\ a \notin mixed /\ account[a].state # "gone"
        /\ row.validity = account[a].validity /\ account'[a].validity = r.validity
        /\ \/ /\ r.validity = row.validity /\ There(a) /\ KeptOf(c) = stored[a]
              /\ row.validity # 0
           \/ /\ row.validity < r.validity /\ KeptOf(c) = {} /\ Base(row, r) = 0
              /\ account'[a].last = r.last
    BY ApplyUnmixed
  <1>2. /\ a \in Accounts /\ Applies(c, a) /\ stored'[a] = LastOf(c)
        /\ UNCHANGED <<validity, uid, round>>
        /\ sync'[c] = Idle /\ \A d \in Clients \ {c} : sync'[d] = sync[d]
        /\ ResultShaped(a, row, r)
        /\ excused \subseteq excused' /\ \A n \in r.rest : <<a, r.validity, n>> \in excused'
        /\ \A x \in AllOf(c) \ LastOf(c) : <<a, account'[a].validity, x.uid>> \in excused'
    <2>1. /\ a \in Accounts /\ Applies(c, a) /\ ResultShaped(a, row, r)
          /\ UNCHANGED <<validity, uid, round>>
          /\ stored' = [stored EXCEPT ![a] = LastOf(c)] /\ sync' = [sync EXCEPT ![c] = Idle]
      BY <1>0, ApplyIs DEF Applies, Runs, serverVars
    <2>2. stored'[a] = LastOf(c)
      BY <2>1 DEF TInv, StoredShaped
    <2>3. sync'[c] = Idle /\ \A d \in Clients \ {c} : sync'[d] = sync[d]
      BY <2>1 DEF TInv, SyncsShaped
    <2>4. /\ excused \subseteq excused' /\ \A n \in r.rest : <<a, r.validity, n>> \in excused'
          /\ \A x \in AllOf(c) \ LastOf(c) : <<a, account'[a].validity, x.uid>> \in excused'
      BY ApplyExcuses
    <2> QED
      BY <2>1, <2>2, <2>3, <2>4
  <1>3. account'[a].state = "there" /\ (account'[a].last = account[a].last \/ account'[a].last = r.last)
    BY UpdatedIs
  <1>4. /\ RowCovers(a, account[a]) /\ RowCovers(a, row) /\ ResultCovers(a, row, r)
        /\ \A d \in Clients : Runs(d, a) => RowCovers(a, sync[d].row)
        /\ a \in round.left => RowCovers(a, round.rows[a])
        /\ \A d \in Clients : Applies(d, a) => ResultCovers(a, sync[d].row, sync[d].result)
    BY <1>1, <1>2 DEF CoverOK, Applies
  <1>5. /\ validity[a] \in Nat /\ account[a].validity \in Nat /\ r.validity \in Nat
        /\ r.validity <= validity[a] /\ account[a].last \in Nat /\ r.last \in Nat
        /\ row.last \in Nat
    BY <1>2 DEF TInv, ServerShaped, AccountsShaped, AccountRow, ResultShaped, Applies, Runs,
                SyncsShaped, SyncShaped, ReadRow, NoAccount
  <1>6. Uids(a)' = Uids(a) /\ Uids(a) \subseteq Nat \ {0}
    <2>1. Uids(a)' = Uids(a)
      BY <1>2 DEF Uids
    <2>2. Uids(a) \subseteq Nat \ {0}
      BY <1>0, <1>2, UidsAre
    <2> QED
      BY <2>1, <2>2
  <1>7. \A l : Reached(a, l) => Reached(a, l)'
    BY <1>6 DEF Reached
  <1>8. ASSUME r.validity = validity[a], NEW x \in AllOf(c) PROVE Has(a, x.uid)'
    <2>1. CASE x \in LastOf(c)
      BY <1>2, <2>1 DEF Has
    <2>2. CASE x \notin LastOf(c)
      <3>1. <<a, validity'[a], x.uid>> \in excused'
        BY <1>1, <1>2, <1>8, <2>2
      <3> QED
        BY <3>1 DEF Has
    <2> QED
      BY <2>1, <2>2
  <1>9. ASSUME r.validity = validity[a], NEW n \in Uids(a), Base(row, r) < n, n <= r.last
        PROVE  Has(a, n)'
    <2>1. (\E x \in r.mails : x.uid = n) \/ n \in r.rest
      BY <1>4, <1>9 DEF ResultCovers
    <2>2. ASSUME NEW x \in r.mails, x.uid = n PROVE Has(a, n)'
      <3>1. CASE \E y \in KeptOf(c) : y.uid = n
        BY <1>8, <1>9, <3>1 DEF AllOf
      <3>2. CASE ~ \E y \in KeptOf(c) : y.uid = n
        <4>1. x \in FreshOf(c)
          BY <2>2, <3>2 DEF FreshOf
        <4>2. RowOf(c, x) \in AllOf(c) /\ RowOf(c, x).uid = n
          BY <2>2, <4>1, RowsAdded DEF AllOf
        <4> QED
          BY <1>8, <1>9, <4>2
      <3> QED
        BY <3>1, <3>2
    <2>3. CASE n \in r.rest
      <3>1. <<a, validity'[a], n>> \in excused'
        BY <1>2, <1>9, <2>3
      <3> QED
        BY <3>1 DEF Has
    <2> QED
      BY <2>1, <2>2, <2>3
  <1>10. ASSUME r.validity = validity[a], KeptOf(c) = stored[a], NEW l, Covered(a, l)
         PROVE  \A n \in Uids(a) : n <= l => Has(a, n)'
    <2>1. ASSUME NEW n \in Uids(a), n <= l PROVE Has(a, n)'
      <3>1. Has(a, n)
        BY <1>10, <2>1 DEF Covered
      <3>2. CASE \E x \in stored[a] : x.uid = n
        <4>1. \E x \in AllOf(c) : x.uid = n
          BY <1>10, <3>2 DEF AllOf
        <4> QED
          BY <1>8, <1>10, <4>1
      <3>3. CASE <<a, validity[a], n>> \in excused
        BY <1>2, <3>3 DEF Has
      <3> QED
        BY <3>1, <3>2, <3>3 DEF Has
    <2> QED
      BY <2>1
  <1>11. ASSUME NEW q, RowCovers(a, q), There(a), q.validity \in Nat,
                q.validity <= account[a].validity
         PROVE  RowCovers(a, q)'
    <2> SUFFICES ASSUME q.validity = validity[a]
                 PROVE  Reached(a, q.last)' /\ Covered(a, q.last)'
      BY <1>2 DEF RowCovers
    <2>1. r.validity = validity[a] /\ KeptOf(c) = stored[a]
      BY <1>1, <1>5, <1>11
    <2>2. Reached(a, q.last) /\ Covered(a, q.last)
      BY <1>11 DEF RowCovers
    <2>3. \A n \in Uids(a) : n <= q.last => Has(a, n)'
      BY <1>10, <2>1, <2>2
    <2> QED
      BY <1>6, <1>7, <2>2, <2>3 DEF Covered
  <1>12. ASSUME r.validity = validity[a]
         PROVE  Reached(a, account'[a].last) /\ \A n \in Uids(a) : n <= account'[a].last => Has(a, n)'
    <2>1. Reached(a, r.last)
      BY <1>4, <1>12 DEF ResultCovers
    <2>2. CASE /\ r.validity = row.validity /\ There(a) /\ KeptOf(c) = stored[a]
               /\ row.validity # 0
      <3>1. /\ Reached(a, account[a].last) /\ Covered(a, account[a].last)
            /\ Covered(a, row.last)
        BY <1>1, <1>4, <1>12, <2>2 DEF RowCovers
      <3>2. \A n \in Uids(a) : n <= account[a].last \/ n <= row.last => Has(a, n)'
        BY <1>10, <1>12, <2>2, <3>1
      <3>3. ASSUME NEW n \in Uids(a), n <= r.last PROVE Has(a, n)'
        <4>1. Base(row, r) = row.last
          BY <2>2 DEF Base
        <4>2. n <= row.last \/ row.last < n
          BY <1>5, <1>6
        <4> QED
          BY <1>9, <1>12, <3>2, <3>3, <4>1, <4>2
      <3> QED
        BY <1>3, <2>1, <3>1, <3>2, <3>3
    <2>3. CASE /\ row.validity < r.validity /\ KeptOf(c) = {} /\ Base(row, r) = 0
               /\ account'[a].last = r.last
      <3>1. \A n \in Uids(a) : Base(row, r) < n
        BY <1>6, <2>3
      <3> QED
        BY <1>9, <1>12, <2>1, <2>3, <3>1
    <2> QED
      BY <1>1, <2>2, <2>3
  <1>13. RowCovers(a, account[a])'
    <2> SUFFICES ASSUME r.validity = validity[a]
                 PROVE  Reached(a, account[a].last)' /\ Covered(a, account[a].last)'
      BY <1>1, <1>2 DEF RowCovers
    <2>1. Reached(a, account'[a].last)
      BY <1>12
    <2> QED
      BY <1>6, <1>12, <2>1 DEF Reached, Covered
  <1>14. ASSUME NEW d \in Clients, Runs(d, a)' PROVE There(a) /\ d # c /\ sync'[d] = sync[d]
                                                      /\ Runs(d, a)
    <2>1. d # c /\ sync'[d] = sync[d] /\ Runs(d, a)
      BY <1>2, <1>14 DEF Runs
    <2>2. Alone(c) /\ sync[c] # Idle /\ sync[c].account = a
      BY <1>2 DEF TInv, SyncsShaped, Applies, Runs
    <2>3. account[a].state # "new"
      BY <2>1, <2>2 DEF Alone, Runs
    <2>4. There(a)
      BY <1>1, <1>2, <2>3 DEF There, TInv, AccountsShaped, AccountRow
    <2> QED
      BY <2>1, <2>4
  <1>15. ASSUME NEW d \in Clients, Runs(d, a)' PROVE RowCovers(a, sync[d].row)'
    <2>1. There(a) /\ d # c /\ sync'[d] = sync[d] /\ Runs(d, a)
      BY <1>14, <1>15
    <2>2. RowCovers(a, sync[d].row) /\ sync[d].row.validity <= account[a].validity
      BY <1>1, <1>2, <1>4, <2>1 DEF NumOK, RowsRead
    <2>3. sync[d].row.validity \in Nat
      BY <2>1 DEF Runs, TInv, SyncsShaped, SyncShaped, ReadRow, AccountRow, NoAccount
    <2> QED
      BY <1>11, <2>1, <2>2, <2>3
  <1>16. ASSUME a \in round'.left PROVE RowCovers(a, round.rows[a])'
    <2>1. a \in round.left /\ round' = round
      BY <1>2, <1>16
    <2>2. /\ RowCovers(a, round.rows[a]) /\ round.rows[a].validity <= account[a].validity
          /\ round.rows[a].validity \in Nat /\ account[a].state # "new"
      BY <1>1, <1>2, <1>4, <2>1 DEF NumOK, RowsRead, TInv, RoundShaped, ReadRow, AccountRow
    <2>3. There(a)
      BY <1>1, <1>2, <2>2 DEF There, TInv, AccountsShaped, AccountRow
    <2> QED
      BY <1>11, <2>1, <2>2, <2>3
  <1>17. ASSUME NEW d \in Clients, Applies(d, a)'
         PROVE  ResultCovers(a, sync[d].row, sync[d].result)'
    <2>1. sync'[d] = sync[d] /\ Applies(d, a)
      BY <1>14, <1>17 DEF Applies, Runs
    <2>2. ResultCovers(a, sync[d].row, sync[d].result)
      BY <1>4, <2>1
    <2> QED
      BY <1>2, <1>6, <1>7, <2>1, <2>2 DEF ResultCovers
  <1> QED
    BY <1>13, <1>15, <1>16, <1>17 DEF CoverOK

LEMMA CoverAtFirst ==
    ASSUME Init
    PROVE  CInv
  <1>1. NInv
    BY NumbersAtFirst
  <1>2. ASSUME NEW a \in Accounts PROVE CoverOK(a)
    <2>1. account[a] = NoAccount /\ round.left = {} /\ \A c \in Clients : sync[c] = Idle
      BY DEF Init
    <2>2. RowCovers(a, account[a])
      BY <1>1, <2>1, NewRowCovers DEF NInv, TInv
    <2> QED
      BY <2>1, <2>2 DEF CoverOK, Applies, Runs
  <1> QED
    BY <1>1, <1>2 DEF CInv

LEMMA CoverKept ==
    ASSUME CInv, [Next]_vars
    PROVE  CInv'
  <1>1. NInv'
    BY NumbersKept DEF CInv
  <1>2. ASSUME NEW a \in Accounts PROVE CoverOK(a)'
    <2>1. TInv /\ TInv' /\ NInv /\ CoverOK(a)
      BY <1>1 DEF CInv, NInv
    <2>2. ASSUME NEW c \in Clients, Apply(c), sync[c].account = a PROVE CoverOK(a)'
      <3>1. \E row, r : row = sync[c].row /\ r = sync[c].result
        OBVIOUS
      <3> QED
        BY <2>1, <2>2, <3>1, ApplyKeepsCover
    <2>3. account'[a].state = "gone" => CoverOK(a)'
      BY DEF CoverOK
    <2> QED
      BY <2>1, <2>2, <2>3, Calms, CalmKeepsCover, ArriveKeepsCover, RenumberKeepsCover,
         FetchKeepsCover
  <1> QED
    BY <1>1, <1>2 DEF CInv

LEMMA CoverMeansNoneSkipped ==
    ASSUME CInv
    PROVE  NoMailIsSkipped
  <1> SUFFICES ASSUME NEW a \in Accounts, a \notin mixed, NEW n \in Skips(a)
               PROVE  FALSE
    BY DEF NoMailIsSkipped
  <1>1. /\ n \in Uids(a) /\ There(a) /\ account[a].validity = validity[a]
        /\ n <= account[a].last /\ \A x \in stored[a] : x.uid # n
        /\ <<a, validity[a], n>> \notin excused
    BY DEF Skips
  <1>2. account[a].state # "gone"
    BY <1>1 DEF There
  <1> QED
    BY <1>1, <1>2 DEF CInv, CoverOK, RowCovers, Covered, Has

(* "damit keine Mail uebersprungen wird": a mail that the next fetch will  *)
(* not ask for is stored, was trimmed, cannot be read or is older than     *)
(* what the first sync takes, in whatever order syncs overlap, fail and    *)
(* end, unless two that overlapped have mixed the numberings up.           *)
THEOREM NoneIsSkipped == Spec => []NoMailIsSkipped
  <1>1. Spec => []CInv
    BY CoverAtFirst, CoverKept, PTL DEF Spec
  <1> QED
    BY <1>1, CoverMeansNoneSkipped, PTL

-----------------------------------------------------------------------------
(***************************************************************************)
(* What has been made of a mail.  Its row, while it is kept, remembers the *)
(* task and what became of the suggestion.                                 *)
(***************************************************************************)
Excepted(m) == Mailbox[m] \in mixed \/ m \in clash \/ m \in dropped

Remembered(m) ==
    /\ \A k \in tasks : k.mail = m => \E x \in stored[Mailbox[m]] : x.mail = m /\ x.task = k.no
    /\ events[m] # 0 => \E x \in stored[Mailbox[m]] : x.mail = m
    /\ \A x \in stored[Mailbox[m]] : x.mail = m =>
          events[m] = IF x.suggestion = "accepted" THEN 1 ELSE 0

MInv == NInv /\ \A m \in Mails : Excepted(m) \/ Remembered(m)

(* A mail is stored once.                                                  *)
LEMMA OneRow ==
    ASSUME NInv, NEW a \in Accounts, a \notin mixed
    PROVE  \A x, y \in stored[a] : x.mail = y.mail => x = y
  <1> SUFFICES ASSUME NEW x \in stored[a], NEW y \in stored[a], x.mail = y.mail PROVE x = y
    OBVIOUS
  <1>1. account[a].state # "gone"
    BY DEF NInv, TInv, StoredShaped, There
  <1>2. x.uid = y.uid
    BY <1>1 DEF NInv, NumOK, StoredFits, Agree
  <1> QED
    BY <1>2 DEF NInv, TInv, StoredShaped, RowsShaped

LEMMA OneRowAfter ==
    ASSUME NInv', NEW a \in Accounts, a \notin mixed'
    PROVE  \A x, y \in stored'[a] : x.mail = y.mail => x = y
  <1> SUFFICES ASSUME NEW x \in stored'[a], NEW y \in stored'[a], x.mail = y.mail PROVE x = y
    OBVIOUS
  <1>1. account'[a].state # "gone"
    BY DEF NInv, TInv, StoredShaped, There
  <1>2. x.uid = y.uid
    BY <1>1 DEF NInv, NumOK, StoredFits, Agree
  <1> QED
    BY <1>2 DEF NInv, TInv, StoredShaped, RowsShaped

LEMMA SameIsRemembered ==
    ASSUME NEW m \in Mails, Remembered(m), UNCHANGED <<tasks, events>>,
           stored'[Mailbox[m]] = stored[Mailbox[m]]
    PROVE  Remembered(m)'
  BY DEF Remembered

(* Steps that make nothing and change nothing that is stored.              *)
LEMMA NothingMade ==
    ASSUME TInv, [Next]_vars
    PROVE  \/ UNCHANGED <<stored, tasks, events, mixed, clash, dropped>>
           \/ \E a \in Accounts : DeleteAccount(a)
           \/ \E t \in Tabs : CommitTask(t) \/ CommitSuggestion(t)
           \/ \E k \in tasks : DeleteTask(k)
           \/ \E c \in Clients : Apply(c)
  <1> DEFINE Same == UNCHANGED <<stored, tasks, events, mixed, clash, dropped>>
  <1>1. CASE UNCHANGED vars
    BY <1>1 DEF vars, madeVars, historyVars
  <1>2. ServerNext => Same
    BY DEF ServerNext, Arrive, Renumber, Age, ServerStep, madeVars, historyVars
  <1>3. WorkerNext => Same
    BY DEF WorkerNext, StartRound, WorkerSync, madeVars, historyVars
  <1>4. ASSUME NEW t \in Tabs, NEW a \in Accounts, Starts(t, a) PROVE Same
    BY <1>4 DEF Starts, AddAccount, SyncNow, ChangePassword, madeVars, historyVars
  <1>5. ASSUME NEW a \in Accounts, Switch(a) \/ BecomeDue(a) PROVE Same
    BY <1>5 DEF Switch, BecomeDue, madeVars, historyVars
  <1>6. AddRule \/ UpdateRule \/ DeleteRule => Same
    BY DEF AddRule, UpdateRule, DeleteRule, ChangeRule, madeVars, historyVars
  <1>7. ASSUME NEW t \in Tabs, Clicks(t) \/ AbortClick(t) PROVE Same
    <2>1. CASE Clicks(t)
      <3>1. UNCHANGED <<stored, madeVars, historyVars>>
        BY <2>1, ClicksAre
      <3> QED
        BY <3>1 DEF madeVars, historyVars
    <2>2. CASE AbortClick(t)
      BY <2>2 DEF AbortClick, madeVars, historyVars
    <2> QED
      BY <1>7, <2>1, <2>2
  <1>8. ASSUME NEW c \in Clients, Fetch(c) \/ FetchFails(c) \/ Break(c) PROVE Same
    BY <1>8 DEF Fetch, FetchFails, Break, madeVars, historyVars
  <1> HIDE DEF Same
  <1>9. CASE Next
    BY <1>2, <1>3, <1>4, <1>5, <1>6, <1>7, <1>8, <1>9, Steps DEF Same
  <1> QED
    BY <1>1, <1>9

(* What a click has read and finds unchanged has no task, or a suggestion  *)
(* that is open.                                                           *)
LEMMA AsItWasRead ==
    ASSUME TInv, NEW t \in Tabs, click[t] # Idle, NEW x \in AllPicked(t), x.mail \notin clash',
           clash' = clash \cup MailsOf(AllPicked(t) \ AsRead(t))
    PROVE  /\ click[t].kind = "task" => x.task = 0
           /\ click[t].kind \in {"accepted", "dismissed"} => x.suggestion = "pending"
  <1>1. x \in AsRead(t)
    BY DEF MailsOf
  <1>2. PICK r \in click[t].read : x = r[2]
    BY <1>1 DEF AsRead
  <1> QED
    BY <1>2 DEF TInv, ClicksShaped, ClickShaped

LEMMA CommitTaskRemembers ==
    ASSUME NInv, NEW t \in Tabs, CommitTask(t), NEW m \in Mails, ~Excepted(m)', Remembered(m)
    PROVE  Remembered(m)'
  <1> DEFINE a == Mailbox[m]
             S == AllPicked(t)
             number == Numbered(S)
  <1>1. /\ click[t].kind = "task" /\ tasks' = tasks \cup TasksFor(number)
        /\ clash' = clash \cup MailsOf(S \ AsRead(t)) /\ UNCHANGED <<events, mixed, dropped>>
        /\ a \in Accounts /\ TInv
    BY MailAssumption DEF CommitTask, NInv
  <1>2. click[t] # Idle
    BY <1>1 DEF Idle
  <1>3. m \notin clash'
    BY DEF Excepted
  <1>4. PICK g : /\ Rewrites(a, g)
                 /\ \A x \in stored[a] : /\ x \in S => g[x].task = number[x]
                                         /\ x \notin S => g[x] = x
                                         /\ g[x].suggestion = x.suggestion
    BY <1>1, CommitTaskIs
  <1>5. /\ stored'[a] = {g[x] : x \in stored[a]}
        /\ \A x \in stored[a] : g[x].mail = x.mail
    BY <1>4 DEF Rewrites
  <1>6. \A x \in S : x.mail = m => x \in stored[a]
    BY <1>1, PickedAre DEF TInv, StoredShaped, RowsShaped
  <1>7. IsFiniteSet(S)
    BY <1>1, PickedAre
  <1> HIDE DEF S, number
  <1>8. \A k : k \in TasksFor(number) <=> \E x \in S : k = [mail |-> x.mail, no |-> number[x]]
    BY <1>1, <1>7, NewTasks DEF TInv, number
  <1>9. ASSUME NEW k \in tasks', k.mail = m
        PROVE  \E x \in stored'[a] : x.mail = m /\ x.task = k.no
    <2>1. CASE k \in tasks
      <3>1. PICK x \in stored[a] : x.mail = m /\ x.task = k.no
        BY <1>9, <2>1 DEF Remembered
      <3>2. k.no # 0
        BY <1>1, <2>1 DEF TInv, MadeShaped
      <3>3. x \notin S
        BY <1>1, <1>2, <1>3, <3>1, <3>2, AsItWasRead DEF S
      <3> QED
        BY <1>4, <1>5, <3>1, <3>3
    <2>2. CASE k \in TasksFor(number)
      <3>1. PICK x \in S : k = [mail |-> x.mail, no |-> number[x]]
        BY <1>8, <2>2
      <3>2. x \in stored[a] /\ x.mail = m
        BY <1>6, <1>9, <3>1
      <3>3. g[x] \in stored'[a] /\ g[x].mail = m /\ g[x].task = k.no
        BY <1>4, <1>5, <3>1, <3>2
      <3> QED
        BY <3>3
    <2> QED
      BY <1>1, <2>1, <2>2
  <1>10. (\E x \in stored[a] : x.mail = m) => \E x \in stored'[a] : x.mail = m
    BY <1>5
  <1>11. \A y \in stored'[a] : \E x \in stored[a] : y.mail = x.mail /\ y.suggestion = x.suggestion
    BY <1>4, <1>5
  <1> QED
    BY <1>1, <1>9, <1>10, <1>11 DEF Remembered

LEMMA CommitSuggestionRemembers ==
    ASSUME NInv, NEW t \in Tabs, CommitSuggestion(t), NEW m \in Mails, ~Excepted(m)',
           Remembered(m)
    PROVE  Remembered(m)'
  <1> DEFINE a == Mailbox[m]
             S == AllPicked(t)
             kind == click[t].kind
  <1>1. /\ kind \in {"accepted", "dismissed"} /\ UNCHANGED <<tasks, mixed, dropped>>
        /\ clash' = clash \cup MailsOf(S \ AsRead(t))
        /\ a \in Accounts /\ TInv
        /\ events' = [n \in Mails |-> IF kind = "accepted" /\ n \in MailsOf(S)
                                      THEN events[n] + 1 ELSE events[n]]
    BY MailAssumption DEF CommitSuggestion, NInv
  <1>2. click[t] # Idle
    BY <1>1 DEF Idle
  <1>3. m \notin clash' /\ a \notin mixed
    BY <1>1 DEF Excepted
  <1>4. PICK g : /\ Rewrites(a, g)
                 /\ \A x \in stored[a] : /\ x \in S => g[x].suggestion = kind
                                         /\ x \notin S => g[x] = x
                                         /\ g[x].task = x.task
    BY <1>1, CommitSuggestionIs
  <1>5. /\ stored'[a] = {g[x] : x \in stored[a]}
        /\ \A x \in stored[a] : g[x].mail = x.mail
    BY <1>4 DEF Rewrites
  <1>6. \A x \in S : x.mail = m => x \in stored[a]
    BY <1>1, PickedAre DEF TInv, StoredShaped, RowsShaped
  <1>7. \A x \in S : x.mail = m => x.suggestion = "pending"
    BY <1>1, <1>2, <1>3, AsItWasRead
  <1> HIDE DEF S, kind
  <1>8. events'[m] = IF kind = "accepted" /\ m \in MailsOf(S) THEN events[m] + 1 ELSE events[m]
    BY <1>1
  <1>9. m \in MailsOf(S) <=> \E x \in S : x.mail = m
    BY DEF MailsOf
  <1>10. ASSUME NEW x \in stored[a], x.mail = m
         PROVE  events'[m] = IF g[x].suggestion = "accepted" THEN 1 ELSE 0
    <2>1. events[m] = IF x.suggestion = "accepted" THEN 1 ELSE 0
      BY <1>10 DEF Remembered
    <2>2. CASE x \in S
      <3>1. events[m] = 0 /\ m \in MailsOf(S) /\ g[x].suggestion = kind
        BY <1>4, <1>7, <1>9, <1>10, <2>1, <2>2
      <3> QED
        BY <1>8, <3>1
    <2>3. CASE x \notin S
      <3>1. m \notin MailsOf(S)
        BY <1>1, <1>3, <1>6, <1>9, <1>10, <2>3, OneRow
      <3> QED
        BY <1>4, <1>8, <2>1, <2>3, <3>1
    <2> QED
      BY <2>2, <2>3
  <1>11. \A y \in stored'[a] : y.mail = m =>
            events'[m] = IF y.suggestion = "accepted" THEN 1 ELSE 0
    BY <1>5, <1>10
  <1>12. events'[m] # 0 => \E x \in stored'[a] : x.mail = m
    <2>1. events'[m] # 0 => \E x \in stored[a] : x.mail = m
      BY <1>6, <1>8, <1>9 DEF Remembered
    <2> QED
      BY <1>5, <2>1
  <1>13. \A k \in tasks : k.mail = m => \E x \in stored'[a] : x.mail = m /\ x.task = k.no
    BY <1>4, <1>5 DEF Remembered
  <1> QED
    BY <1>1, <1>11, <1>12, <1>13 DEF Remembered

LEMMA DeleteTaskRemembers ==
    ASSUME NInv, NEW k \in tasks, DeleteTask(k), NEW m \in Mails, Remembered(m)
    PROVE  Remembered(m)'
  <1> DEFINE a == Mailbox[m]
  <1>1. tasks' = tasks \ {k} /\ UNCHANGED events /\ a \in Accounts /\ TInv
    BY MailAssumption DEF DeleteTask, NInv
  <1>2. PICK g : /\ Rewrites(a, g)
                 /\ \A x \in stored[a] : /\ x.task # k.no => g[x] = x
                                         /\ g[x].suggestion = x.suggestion
    BY <1>1, DeleteTaskIs
  <1>3. /\ stored'[a] = {g[x] : x \in stored[a]}
        /\ \A x \in stored[a] : g[x].mail = x.mail
    BY <1>2 DEF Rewrites
  <1>4. ASSUME NEW l \in tasks', l.mail = m
        PROVE  \E x \in stored'[a] : x.mail = m /\ x.task = l.no
    <2>1. l \in tasks /\ l.no # k.no
      BY <1>1 DEF TInv, MadeShaped
    <2>2. PICK x \in stored[a] : x.mail = m /\ x.task = l.no
      BY <1>4, <2>1 DEF Remembered
    <2> QED
      BY <1>2, <1>3, <2>1, <2>2
  <1>5. (\E x \in stored[a] : x.mail = m) => \E x \in stored'[a] : x.mail = m
    BY <1>3
  <1>6. \A y \in stored'[a] : \E x \in stored[a] : y.mail = x.mail /\ y.suggestion = x.suggestion
    BY <1>2, <1>3
  <1> QED
    BY <1>1, <1>4, <1>5, <1>6 DEF Remembered

LEMMA DeleteAccountRemembers ==
    ASSUME NInv, NEW b \in Accounts, DeleteAccount(b), NEW m \in Mails, ~Excepted(m)',
           Remembered(m)
    PROVE  Remembered(m)'
  <1> DEFINE a == Mailbox[m]
  <1>1. /\ a \in Accounts /\ stored'[b] = {} /\ \A d \in Accounts \ {b} : stored'[d] = stored[d]
        /\ dropped' = dropped \cup MailsOf(stored[b]) /\ UNCHANGED <<tasks, events>>
    BY MailAssumption, DeleteIs DEF NInv, madeVars
  <1>2. CASE a # b
    BY <1>1, <1>2, SameIsRemembered
  <1>3. CASE a = b
    <2>1. m \notin MailsOf(stored[a])
      BY <1>1, <1>3 DEF Excepted
    <2>2. \A x \in stored[a] : x.mail # m
      BY <2>1 DEF MailsOf
    <2> QED
      BY <1>1, <1>3, <2>2 DEF Remembered
  <1> QED
    BY <1>2, <1>3

LEMMA ApplyRemembers ==
    ASSUME NInv, NInv', NEW c \in Clients, Apply(c), NEW b, b = sync[c].account,
           NEW m \in Mails, ~Excepted(m)', Remembered(m)
    PROVE  Remembered(m)'
  <1> DEFINE a == Mailbox[m]
             number == Numbered(RuledOf(c))
  <1>1. /\ a \in Accounts /\ b \in Accounts /\ TInv
        /\ stored' = [stored EXCEPT ![b] = LastOf(c)]
        /\ tasks' = tasks \cup TasksFor(number) /\ UNCHANGED events
        /\ dropped' = dropped \cup MailsOf(stored[b] \ LastOf(c)) \cup MailsOf(AllOf(c) \ LastOf(c))
    BY MailAssumption, ApplyIs DEF NInv
  <1>2. stored'[b] = LastOf(c) /\ \A d \in Accounts \ {b} : stored'[d] = stored[d]
    BY <1>1 DEF TInv, StoredShaped
  <1>3. /\ IsFiniteSet(RuledOf(c)) /\ RuledOf(c) \subseteq FreshOf(c) /\ KeptOf(c) \subseteq stored[b]
        /\ \A x \in FreshOf(c) :
              /\ Mailbox[x.mail] = b
              /\ RowOf(c, x).mail = x.mail
              /\ RowOf(c, x).task = IF x \in RuledOf(c) THEN number[x] ELSE 0
              /\ RowOf(c, x).suggestion \in {"none", "pending"}
    BY <1>1, RowsAdded
  <1> HIDE DEF number
  <1>4. \A k : k \in TasksFor(number) <=>
                  \E x \in RuledOf(c) : k = [mail |-> x.mail, no |-> number[x]]
    BY <1>1, <1>3, NewTasks DEF TInv, number
  <1>5. CASE a # b
    <2>1. \A k \in tasks' : k.mail = m => k \in tasks
      BY <1>1, <1>3, <1>4, <1>5
    <2> QED
      BY <1>1, <1>2, <1>5, <2>1 DEF Remembered
  <1>6. CASE a = b
    <2>1. a \notin mixed' /\ m \notin dropped'
      BY DEF Excepted
    <2>2. /\ \A x \in stored[a] : x.mail = m => x \in LastOf(c)
          /\ \A x \in AllOf(c) : x.mail = m => x \in LastOf(c)
      BY <1>1, <1>6, <2>1 DEF MailsOf
    <2>3. ASSUME NEW k \in tasks', k.mail = m
          PROVE  \E x \in stored'[a] : x.mail = m /\ x.task = k.no
      <3>1. CASE k \in tasks
        BY <1>2, <1>6, <2>2, <2>3, <3>1 DEF Remembered
      <3>2. CASE k \in TasksFor(number)
        <4>1. PICK x \in RuledOf(c) : k = [mail |-> x.mail, no |-> number[x]]
          BY <1>4, <3>2
        <4>2. RowOf(c, x) \in AllOf(c)
          BY <1>3 DEF AllOf
        <4>3. RowOf(c, x).mail = m /\ RowOf(c, x).task = k.no
          BY <1>3, <2>3, <4>1
        <4> QED
          BY <1>2, <1>6, <2>2, <4>2, <4>3
      <3> QED
        BY <1>1, <3>1, <3>2
    <2>4. events[m] # 0 => \E x \in stored'[a] : x.mail = m
      BY <1>2, <1>6, <2>2 DEF Remembered
    <2>5. ASSUME NEW y \in stored'[a], y.mail = m
          PROVE  events[m] = IF y.suggestion = "accepted" THEN 1 ELSE 0
      <3>1. y \in LastOf(c) /\ y \in AllOf(c)
        BY <1>1, <1>2, <1>6, RowsKept
      <3>2. CASE y \in KeptOf(c)
        BY <1>3, <1>6, <2>5, <3>2 DEF Remembered
      <3>3. ASSUME NEW v \in FreshOf(c), y = RowOf(c, v)
            PROVE  events[m] = IF y.suggestion = "accepted" THEN 1 ELSE 0
        <4>1. y.suggestion # "accepted"
          BY <1>3, <3>3
        <4>2. ASSUME NEW x \in stored[a], x.mail = m, x.suggestion = "accepted" PROVE FALSE
          <5>1. x \in stored'[a]
            BY <1>2, <1>6, <2>2, <4>2
          <5>2. x = y
            BY <1>1, <2>1, <2>5, <4>2, <5>1, OneRowAfter
          <5> QED
            BY <4>1, <4>2, <5>2
        <4>3. events[m] = 0
          BY <4>2 DEF Remembered
        <4> QED
          BY <4>1, <4>3
      <3> QED
        BY <3>1, <3>2, <3>3 DEF AllOf
    <2> QED
      BY <1>1, <2>3, <2>4, <2>5 DEF Remembered
  <1> QED
    BY <1>5, <1>6
(* What is no longer promised of a mail stays so.                          *)
LEMMA ExceptedForGood ==
    ASSUME TInv, [Next]_vars
    PROVE  mixed \subseteq mixed' /\ clash \subseteq clash' /\ dropped \subseteq dropped'
  <1>1. ASSUME NEW a \in Accounts, DeleteAccount(a)
        PROVE  mixed \subseteq mixed' /\ clash \subseteq clash' /\ dropped \subseteq dropped'
    BY <1>1 DEF DeleteAccount
  <1>2. ASSUME NEW t \in Tabs, CommitTask(t) \/ CommitSuggestion(t)
        PROVE  mixed \subseteq mixed' /\ clash \subseteq clash' /\ dropped \subseteq dropped'
    BY <1>2 DEF CommitTask, CommitSuggestion
  <1>3. ASSUME NEW k \in tasks, DeleteTask(k)
        PROVE  mixed \subseteq mixed' /\ clash \subseteq clash' /\ dropped \subseteq dropped'
    BY <1>3 DEF DeleteTask, historyVars
  <1>4. ASSUME NEW c \in Clients, Apply(c)
        PROVE  mixed \subseteq mixed' /\ clash \subseteq clash' /\ dropped \subseteq dropped'
    BY <1>4 DEF Apply
  <1> QED
    BY <1>1, <1>2, <1>3, <1>4, NothingMade

LEMMA MadeAtFirst == Init => MInv
  <1> SUFFICES ASSUME Init PROVE MInv
    OBVIOUS
  <1>1. NInv
    BY NumbersAtFirst
  <1>2. ASSUME NEW m \in Mails PROVE Remembered(m)
    BY MailAssumption DEF Init, Remembered
  <1> QED
    BY <1>1, <1>2 DEF MInv

LEMMA MadeKept == MInv /\ [Next]_vars => MInv'
  <1> SUFFICES ASSUME MInv, [Next]_vars PROVE MInv'
    OBVIOUS
  <1>1. NInv /\ TInv /\ NInv'
    BY NumbersKept DEF MInv, NInv
  <1>2. ASSUME NEW m \in Mails, ~Excepted(m)' PROVE Remembered(m)'
    <2>1. Remembered(m)
      BY <1>1, <1>2, ExceptedForGood DEF MInv, Excepted
    <2>2. CASE UNCHANGED <<stored, tasks, events, mixed, clash, dropped>>
      BY <2>1, <2>2, SameIsRemembered
    <2>3. ASSUME NEW a \in Accounts, DeleteAccount(a) PROVE Remembered(m)'
      BY <1>1, <1>2, <2>1, <2>3, DeleteAccountRemembers
    <2>4. ASSUME NEW t \in Tabs, CommitTask(t) PROVE Remembered(m)'
      BY <1>1, <1>2, <2>1, <2>4, CommitTaskRemembers
    <2>5. ASSUME NEW t \in Tabs, CommitSuggestion(t) PROVE Remembered(m)'
      BY <1>1, <1>2, <2>1, <2>5, CommitSuggestionRemembers
    <2>6. ASSUME NEW k \in tasks, DeleteTask(k) PROVE Remembered(m)'
      BY <1>1, <2>1, <2>6, DeleteTaskRemembers
    <2>7. ASSUME NEW c \in Clients, Apply(c) PROVE Remembered(m)'
      <3>1. \E b : b = sync[c].account
        OBVIOUS
      <3> QED
        BY <1>1, <1>2, <2>1, <2>7, <3>1, ApplyRemembers
    <2> QED
      BY <1>1, <2>2, <2>3, <2>4, <2>5, <2>6, <2>7, NothingMade
  <1> QED
    BY <1>1, <1>2 DEF MInv

(* Two tasks of a mail would be those of two rows, and there is one.       *)
LEMMA MadeMeansOnce == MInv => OneTaskPerMail
  <1> SUFFICES ASSUME MInv, NEW m \in Mails, ~Excepted(m)
               PROVE  Cardinality({k \in tasks : k.mail = m}) <= 1
    BY DEF OneTaskPerMail, Excepted
  <1> DEFINE K == {k \in tasks : k.mail = m}
  <1>1. Remembered(m) /\ NInv /\ TInv /\ Mailbox[m] \in Accounts /\ Mailbox[m] \notin mixed
    BY MailAssumption DEF MInv, NInv, Excepted
  <1>2. ASSUME NEW k \in K, NEW l \in K PROVE k = l
    <2>1. PICK x \in stored[Mailbox[m]] : x.mail = m /\ x.task = k.no
      BY <1>1 DEF Remembered
    <2>2. PICK y \in stored[Mailbox[m]] : y.mail = m /\ y.task = l.no
      BY <1>1 DEF Remembered
    <2>3. x = y
      BY <1>1, <2>1, <2>2, OneRow
    <2> QED
      BY <1>1, <2>1, <2>2, <2>3 DEF TInv, MadeShaped
  <1>3. CASE K = {}
    BY <1>3, FS_EmptySet
  <1>4. CASE K # {}
    <2>1. PICK k \in K : TRUE
      BY <1>4
    <2>2. K = {k}
      BY <1>2, <2>1
    <2>3. Cardinality(K) = 1
      BY <2>2, FS_Singleton
    <2> QED
      BY <2>3
  <1> QED
    BY <1>3, <1>4

LEMMA MadeMeansSettled == MInv => SuggestionIsSettledOnce
  <1> SUFFICES ASSUME MInv, NEW a \in Accounts \ mixed, NEW x \in stored[a],
                      x.mail \notin clash \cup dropped
               PROVE  events[x.mail] = IF x.suggestion = "accepted" THEN 1 ELSE 0
    BY DEF SuggestionIsSettledOnce
  <1>1. x.mail \in Mails /\ Mailbox[x.mail] = a
    BY DEF MInv, NInv, TInv, StoredShaped, RowsShaped, Row
  <1>2. Remembered(x.mail)
    BY <1>1 DEF MInv, Excepted
  <1> QED
    BY <1>1, <1>2 DEF Remembered

(* A mail becomes a task at most once, whatever clicks, rules and syncs    *)
(* overlap (apply_result, run_rules, create_task_from_message), unless two *)
(* requests make one at once, the mail was dropped in between, or its      *)
(* mailbox was renumbered under overlapping syncs.                         *)
THEOREM OneTaskAtMost == Spec => []OneTaskPerMail
  <1>1. Spec => []MInv
    BY MadeAtFirst, MadeKept, PTL DEF Spec
  <1> QED
    BY <1>1, MadeMeansOnce, PTL

(* A suggestion becomes an event exactly when the message says that it was *)
(* accepted (accept_suggestion, dismiss_suggestion), with the same         *)
(* exceptions.                                                             *)
THEOREM SettledOnce == Spec => []SuggestionIsSettledOnce
  <1>1. Spec => []MInv
    BY MadeAtFirst, MadeKept, PTL DEF Spec
  <1> QED
    BY <1>1, MadeMeansSettled, PTL


=============================================================================
