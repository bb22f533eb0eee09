----------------------------- MODULE EventSeriesProofs -----------------------------
(***************************************************************************)
(* Proofs about EventSeries: its rows keep their shape, what was changed   *)
(* or cancelled stays an occurrence of its series, and requests change     *)
(* what is shown as Agenda says, for any number of series, clients and     *)
(* requests and for all rules.                                             *)
(***************************************************************************)
EXTENDS EventSeries, FiniteSetTheorems, TLAPS

(* A slot of a series by its rule alone, however far away.                 *)
Regular(row, t) ==
    \E k \in Nat :
        /\ t = row.start + k * row.rule.every * Day
        /\ row.rule.count = 0 \/ k < row.rule.count
        /\ row.rule.until = Endless \/ t <= row.rule.until

-----------------------------------------------------------------------------
(***************************************************************************)
(* Slots of a rule.                                                        *)
(***************************************************************************)
LEMMA Times ==
    ASSUME NEW n \in Nat \ {0}, NEW j \in Nat, NEW k \in Nat
    PROVE  /\ j * n * Day \in Nat /\ j <= j * n * Day
           /\ j < k <=> j * n * Day < k * n * Day
           /\ (j + k) * n * Day = j * n * Day + k * n * Day
  <1>1. /\ j * n * 2 \in Nat /\ j <= j * n * 2
        /\ (j + k) * n * 2 = j * n * 2 + k * n * 2
    OBVIOUS
  <1>2. \A i, l \in Nat : i < l => i * n * 2 < l * n * 2
    OBVIOUS
  <1>3. j < k \/ k < j \/ j = k
    OBVIOUS
  <1>4. k * n * 2 \in Nat
    OBVIOUS
  <1> QED
    BY <1>1, <1>2, <1>3, <1>4 DEF Day

(* The slots of a rule from the start on, and what recurs.                 *)
LEMMA RegularIsLater ==
    ASSUME NEW row \in Row, row.rule.every > 0, NEW t, Regular(row, t)
    PROVE  t \in Int /\ t >= row.start
  <1>1. PICK k \in Nat : t = row.start + k * row.rule.every * Day
    BY DEF Regular
  <1>2. row.rule.every \in Nat \ {0} /\ row.start \in Nat
    BY DEF Row, Rule
  <1>3. k * row.rule.every * Day \in Nat
    BY <1>2, Times
  <1> QED
    BY <1>1, <1>2, <1>3

(* What is shown of a rule are its slots up to the end of the calendar.    *)
LEMMA OccurrencesAreRegular ==
    ASSUME NEW row \in Row, row.rule.every > 0
    PROVE  Occurrences(row) = {t \in Int : t <= Far /\ Regular(row, t)}
  <1> DEFINE n == row.rule.every
             nth == {k \in 0 .. Far : row.rule.count = 0 \/ k < row.rule.count}
  <1>1. /\ n \in Nat \ {0} /\ row.start \in Nat /\ row.rule.count \in Nat
        /\ row.rule.until \in Int /\ row.rule.until <= Far /\ Far \in Nat
    BY SeriesAssumption DEF Row, Rule
  <1>2. Recurs(row)
    BY DEF Recurs, Once
  <1>3. Occurrences(row) = {t \in {row.start + k * n * Day : k \in nth} :
                              t <= row.rule.until /\ t <= Far}
    BY <1>2 DEF Occurrences
  <1>4. ASSUME NEW t \in Occurrences(row) PROVE t \in Int /\ t <= Far /\ Regular(row, t)
    <2>1. PICK k \in nth : t = row.start + k * n * Day
      BY <1>3, <1>4
    <2>2. t <= row.rule.until /\ t <= Far /\ k \in Nat
      BY <1>3, <1>4, <1>1
    <2>3. k * n * Day \in Nat
      BY <1>1, <2>2, Times
    <2> QED
      BY <1>1, <2>1, <2>2, <2>3 DEF Regular
  <1>5. ASSUME NEW t \in Int, t <= Far, Regular(row, t) PROVE t \in Occurrences(row)
    <2>1. PICK k \in Nat : /\ t = row.start + k * n * Day
                           /\ row.rule.count = 0 \/ k < row.rule.count
                           /\ row.rule.until = Endless \/ t <= row.rule.until
      BY <1>5 DEF Regular
    <2>2. k * n * Day \in Nat /\ k <= k * n * Day
      BY <1>1, Times
    <2>3. k \in nth
      BY <1>1, <1>5, <2>1, <2>2
    <2> QED
      BY <1>1, <1>3, <1>5, <2>1, <2>3 DEF Endless
  <1> QED
    BY <1>4, <1>5

(* Shown slots are finitely many, so they can be counted.                  *)
LEMMA CountedBefore ==
    ASSUME NEW row \in Row, row.rule.every > 0, NEW slot \in Int
    PROVE  Before(row, slot) \in Nat
  <1> DEFINE few == {t \in Occurrences(row) : t < slot}
  <1>1. Far \in Nat /\ row.start \in Nat
    BY SeriesAssumption DEF Row
  <1>2. IsFiniteSet(0 .. Far)
    BY <1>1, FS_Interval
  <1>3. few \subseteq 0 .. Far
    BY <1>1, OccurrencesAreRegular, RegularIsLater
  <1>4. IsFiniteSet(few)
    BY <1>2, <1>3, FS_Subset
  <1> QED
    BY <1>4, FS_CardinalityType DEF Before

(* Before a slot of a rule with COUNT there are as many as its number.     *)
LEMMA BeforeIsNumber ==
    ASSUME NEW row \in Row, row.rule.every > 0, NEW slot \in Int, slot <= Far,
           NEW k \in Nat, slot = row.start + k * row.rule.every * Day,
           row.rule.count = 0 \/ k < row.rule.count,
           row.rule.until = Endless \/ slot <= row.rule.until
    PROVE  Before(row, slot) = k
  <1> DEFINE n == row.rule.every
             number == [j \in 0 .. (k - 1) |-> row.start + j * n * Day]
             few == {t \in Occurrences(row) : t < slot}
  <1>1. /\ n \in Nat \ {0} /\ row.start \in Nat /\ row.rule.count \in Nat
        /\ row.rule.until \in Int /\ row.rule.until <= Far /\ Far \in Nat
    BY SeriesAssumption DEF Row, Rule
  <1>2. \A j \in Nat : j < k <=> row.start + j * n * Day < slot
    <2> TAKE j \in Nat
    <2>1. j * n * Day \in Nat /\ k * n * Day \in Nat /\ (j < k <=> j * n * Day < k * n * Day)
      BY <1>1, Times
    <2> QED
      BY <1>1, <2>1
  <1>3. \A t \in few : \E j \in 0 .. (k - 1) : t = row.start + j * n * Day
    <2> TAKE t \in few
    <2>1. t < slot /\ Regular(row, t)
      BY OccurrencesAreRegular
    <2>2. PICK j \in Nat : t = row.start + j * n * Day
      BY <2>1 DEF Regular
    <2>3. j < k
      BY <1>2, <2>1, <2>2
    <2> QED
      BY <2>2, <2>3
  <1>4. \A j \in 0 .. (k - 1) : row.start + j * n * Day \in few
    <2> TAKE j \in 0 .. (k - 1)
    <2> DEFINE t == row.start + j * n * Day
    <2>1. j \in Nat /\ j < k /\ t \in Int /\ t < slot
      <3>1. j \in Nat /\ j < k
        OBVIOUS
      <3>2. j * n * Day \in Nat
        BY <1>1, <3>1, Times
      <3> QED
        BY <1>1, <1>2, <3>1, <3>2
    <2>2. Regular(row, t)
      <3>1. row.rule.count = 0 \/ j < row.rule.count
        BY <1>1, <2>1
      <3>2. row.rule.until = Endless \/ t <= row.rule.until
        BY <1>1, <2>1
      <3> QED
        BY <2>1, <3>1, <3>2 DEF Regular
    <2> QED
      BY <1>1, <2>1, <2>2, OccurrencesAreRegular
  <1>5. number \in Bijection(0 .. (k - 1), few)
    <2>1. number \in Surjection(0 .. (k - 1), few)
      BY <1>3, <1>4 DEF Surjection
    <2>2. ASSUME NEW i \in 0 .. (k - 1), NEW j \in 0 .. (k - 1), i # j PROVE number[i] # number[j]
      <3>1. i \in Nat /\ j \in Nat /\ (i < j \/ j < i)
        BY <2>2
      <3>2. /\ i * n * Day \in Nat /\ j * n * Day \in Nat
            /\ i < j <=> i * n * Day < j * n * Day
            /\ j < i <=> j * n * Day < i * n * Day
        BY <1>1, <3>1, Times
      <3> QED
        BY <1>1, <3>1, <3>2
    <2> QED
      BY <2>1, <2>2 DEF Bijection, Injection, Surjection, IsInjective
  <1>6. IsFiniteSet(0 .. (k - 1)) /\ Cardinality(0 .. (k - 1)) = k
    <2>1. 0 \in Int /\ k - 1 \in Int /\ (0 > k - 1 => k = 0) /\ k - 1 - 0 + 1 = k
      OBVIOUS
    <2> QED
      BY <2>1, FS_Interval
  <1>7. ExistsBijection(0 .. (k - 1), few)
    BY <1>5 DEF ExistsBijection
  <1>8. Cardinality(few) = k
    BY <1>6, <1>7, FS_Bijection
  <1> QED
    BY <1>8 DEF Before

(* Where a series is cut both parts keep their shape.                      *)
LEMMA CutHasShape ==
    ASSUME NEW row \in Row, NEW slot \in Int, slot > row.start, slot <= Far,
           MayCut(row, slot)
    PROVE  /\ Cut(row, slot) \in Row /\ Rest(row, slot) \in Row
           /\ Cut(row, slot).rule.every = row.rule.every
           /\ Rest(row, slot).rule.every = row.rule.every
           /\ Cut(row, slot).given = row.given /\ Rest(row, slot).given = row.given
  <1>1. /\ row.start \in Nat /\ row.rule \in Rule /\ row.exdates \subseteq Int
        /\ row.rule.count \in Nat /\ Far \in Nat
    BY SeriesAssumption DEF Row, Rule
  <1>2. CutRule(row, slot) \in Rule /\ CutRule(row, slot).every = row.rule.every
    <2>1. CASE row.rule.count = 0
      <3>1. slot - 1 \in 0 .. Far
        BY <1>1
      <3>2. CutRule(row, slot) = [row.rule EXCEPT !.until = slot - 1]
        BY <2>1 DEF CutRule
      <3> QED
        BY <1>1, <3>1, <3>2 DEF Rule
    <2>2. CASE row.rule.count # 0
      <3>1. Before(row, slot) \in Nat
        BY <1>1, <2>2 DEF MayCut
      <3>2. CutRule(row, slot) = [row.rule EXCEPT !.count = Before(row, slot)]
        BY <2>2 DEF CutRule
      <3> QED
        BY <1>1, <3>1, <3>2 DEF Rule
    <2> QED
      BY <2>1, <2>2
  <1>3. RestRule(row, slot) \in Rule /\ RestRule(row, slot).every = row.rule.every
    <2>1. CASE row.rule.count = 0
      BY <1>1, <2>1 DEF RestRule
    <2>2. CASE row.rule.count # 0
      <3>1. row.rule.count - Before(row, slot) \in Nat
        BY <1>1, <2>2 DEF MayCut
      <3>2. RestRule(row, slot) = [row.rule EXCEPT !.count = @ - Before(row, slot)]
        BY <2>2 DEF RestRule
      <3> QED
        BY <1>1, <3>1, <3>2 DEF Rule
    <2> QED
      BY <2>1, <2>2
  <1>4. {d \in row.exdates : d < slot} \subseteq Int /\ {d \in row.exdates : d >= slot} \subseteq Int
    BY <1>1
  <1>5. slot \in Nat
    BY <1>1
  <1> QED
    BY <1>2, <1>3, <1>4, <1>5 DEF Cut, Rest, Row

(* A series divides at a slot into those before and those from it on.      *)
LEMMA CutAndRest ==
    ASSUME NEW row \in Row, row.rule.every > 0, NEW slot \in Int, slot > row.start, slot <= Far,
           Regular(row, slot), MayCut(row, slot)
    PROVE  \A t \in Int :
              /\ Regular(Cut(row, slot), t) <=> Regular(row, t) /\ t < slot
              /\ Regular(Rest(row, slot), t) <=> Regular(row, t) /\ t >= slot
  <1> DEFINE n == row.rule.every
             count == row.rule.count
             cut == Cut(row, slot)
             rest == Rest(row, slot)
  <1>1. /\ n \in Nat \ {0} /\ row.start \in Nat /\ count \in Nat
        /\ row.rule.until \in Int /\ row.rule.until <= Far /\ Far \in Nat /\ row.rule \in Rule
    BY SeriesAssumption DEF Row, Rule
  <1>2. PICK m \in Nat : /\ slot = row.start + m * n * Day
                         /\ count = 0 \/ m < count
                         /\ row.rule.until = Endless \/ slot <= row.rule.until
    BY DEF Regular
  <1>3. Before(row, slot) = m
    BY <1>2, BeforeIsNumber
  <1>4. m * n * Day \in Nat /\ m >= 1
    <2>1. m * n * Day \in Nat
      BY <1>1, <1>2, Times
    <2>2. 0 * n * Day = 0
      BY <1>1 DEF Day
    <2>3. m # 0
      BY <1>1, <1>2, <2>2
    <2> QED
      BY <1>2, <2>1, <2>3
  <1>5. /\ cut.start = row.start /\ cut.rule.every = n
        /\ rest.start = slot /\ rest.rule.every = n
        /\ count = 0 => cut.rule.until = slot - 1 /\ cut.rule.count = 0 /\ rest.rule = row.rule
        /\ count # 0 => /\ cut.rule.count = m /\ cut.rule.until = row.rule.until
                        /\ rest.rule.count = count - m /\ rest.rule.until = row.rule.until
    <2>2. count = 0 => cut.rule = [row.rule EXCEPT !.until = slot - 1] /\ rest.rule = row.rule
      BY DEF Cut, Rest, CutRule, RestRule, Row
    <2>3. count # 0 => /\ cut.rule = [row.rule EXCEPT !.count = m]
                       /\ rest.rule = [row.rule EXCEPT !.count = @ - m]
      BY <1>3 DEF Cut, Rest, CutRule, RestRule, Row
    <2>4. cut.start = row.start /\ rest.start = slot
      BY DEF Cut, Rest, Row
    <2>5. cut.rule.every = n /\ rest.rule.every = n
      BY CutHasShape
    <2> QED
      BY <1>1, <2>2, <2>3, <2>4, <2>5 DEF Rule
  <1>6. ASSUME NEW k \in Nat
        PROVE  /\ k * n * Day \in Nat
               /\ k < m <=> row.start + k * n * Day < slot
               /\ slot + k * n * Day = row.start + (m + k) * n * Day
    <2>1. /\ k * n * Day \in Nat
          /\ k < m <=> k * n * Day < m * n * Day
          /\ (m + k) * n * Day = m * n * Day + k * n * Day
      BY <1>1, <1>2, Times
    <2> QED
      BY <1>1, <1>2, <1>4, <2>1
  <1> TAKE t \in Int
  <1>7. ASSUME Regular(cut, t) PROVE Regular(row, t) /\ t < slot
    <2>1. PICK k \in Nat : /\ t = row.start + k * n * Day
                           /\ cut.rule.count = 0 \/ k < cut.rule.count
                           /\ cut.rule.until = Endless \/ t <= cut.rule.until
      BY <1>5, <1>7 DEF Regular
    <2>2. t < slot
      <3>1. CASE count = 0
        <4>1. cut.rule.until = slot - 1 /\ cut.rule.until # Endless
          BY <1>1, <1>5, <3>1 DEF Endless
        <4> QED
          BY <2>1, <4>1
      <3>2. CASE count # 0
        <4>1. k < m
          BY <1>1, <1>2, <1>4, <1>5, <2>1, <3>2
        <4> QED
          BY <1>6, <2>1, <4>1
      <3> QED
        BY <3>1, <3>2
    <2>3. count = 0 \/ k < count
      BY <1>1, <1>2, <1>5, <1>6, <2>1, <2>2
    <2>4. row.rule.until = Endless \/ t <= row.rule.until
      BY <1>1, <1>2, <2>2
    <2> QED
      BY <2>1, <2>2, <2>3, <2>4 DEF Regular
  <1>8. ASSUME Regular(row, t), t < slot PROVE Regular(cut, t)
    <2>1. PICK k \in Nat : /\ t = row.start + k * n * Day
                           /\ count = 0 \/ k < count
                           /\ row.rule.until = Endless \/ t <= row.rule.until
      BY <1>8 DEF Regular
    <2>2. k < m
      BY <1>6, <1>8, <2>1
    <2>3. cut.rule.count = 0 \/ k < cut.rule.count
      BY <1>5, <2>2
    <2>4. cut.rule.until = Endless \/ t <= cut.rule.until
      BY <1>1, <1>5, <1>8, <2>1
    <2> QED
      BY <1>5, <2>1, <2>3, <2>4 DEF Regular
  <1>9. ASSUME Regular(rest, t) PROVE Regular(row, t) /\ t >= slot
    <2>1. PICK k \in Nat : /\ t = slot + k * n * Day
                           /\ rest.rule.count = 0 \/ k < rest.rule.count
                           /\ rest.rule.until = Endless \/ t <= rest.rule.until
      BY <1>5, <1>9 DEF Regular
    <2>2. m + k \in Nat /\ t = row.start + (m + k) * n * Day /\ t >= slot
      BY <1>2, <1>6, <2>1
    <2>3. count = 0 \/ m + k < count
      BY <1>1, <1>2, <1>5, <2>1
    <2>4. row.rule.until = Endless \/ t <= row.rule.until
      BY <1>5, <2>1
    <2> QED
      BY <2>2, <2>3, <2>4 DEF Regular
  <1>10. ASSUME Regular(row, t), t >= slot PROVE Regular(rest, t)
    <2>1. PICK j \in Nat : /\ t = row.start + j * n * Day
                           /\ count = 0 \/ j < count
                           /\ row.rule.until = Endless \/ t <= row.rule.until
      BY <1>10 DEF Regular
    <2>2. ~ (j < m)
      BY <1>6, <1>10, <2>1
    <2>3. j - m \in Nat /\ m + (j - m) = j
      BY <1>2, <2>2
    <2>4. t = slot + (j - m) * n * Day
      BY <1>6, <2>1, <2>3
    <2>5. rest.rule.count = 0 \/ j - m < rest.rule.count
      BY <1>1, <1>2, <1>5, <2>1, <2>3
    <2>6. rest.rule.until = Endless \/ t <= rest.rule.until
      BY <1>5, <2>1
    <2> QED
      BY <1>5, <2>3, <2>4, <2>5, <2>6 DEF Regular
  <1> QED
    BY <1>7, <1>8, <1>9, <1>10

(* The slots of a rule move with its start.                                *)
LEMMA ShiftedSlots ==
    ASSUME NEW row \in Row, row.rule.every > 0, NEW by \in Int, NEW after \in Row,
           after.rule = row.rule, after.start = row.start + by,
           row.rule.until = Endless \/ by = 0
    PROVE  \A t \in Int : Regular(after, t + by) <=> Regular(row, t)
  <1>1. /\ row.rule.every \in Nat \ {0} /\ row.start \in Nat
    BY DEF Row, Rule
  <1>2. \A k \in Nat : k * row.rule.every * Day \in Nat
    BY <1>1, Times
  <1> TAKE t \in Int
  <1>3. \A k \in Nat : t + by = after.start + k * row.rule.every * Day
                          <=> t = row.start + k * row.rule.every * Day
    <2> TAKE k \in Nat
    <2>1. k * row.rule.every * Day \in Nat
      BY <1>2
    <2> QED
      BY <1>1, <2>1
  <1>4. after.rule.every = row.rule.every /\ after.rule.count = row.rule.count
        /\ after.rule.until = row.rule.until
    OBVIOUS
  <1>5. CASE row.rule.until = Endless
    BY <1>3, <1>4, <1>5 DEF Regular
  <1>6. CASE by = 0
    BY <1>3, <1>4, <1>6 DEF Regular
  <1> QED
    BY <1>5, <1>6

-----------------------------------------------------------------------------
(***************************************************************************)
(* Writing the columns that differ.                                        *)
(***************************************************************************)
LEMMA WrittenChanged ==
    ASSUME NEW x \in ChangedRow, NEW o \in ChangedRow, NEW a \in ChangedRow
    PROVE  Written(x, o, a) =
             [row |-> IF a.row = o.row THEN x.row ELSE a.row,
              of |-> IF a.of = o.of THEN x.of ELSE a.of,
              at |-> IF a.at = o.at THEN x.at ELSE a.at,
              start |-> IF a.start = o.start THEN x.start ELSE a.start,
              cancelled |-> IF a.cancelled = o.cancelled THEN x.cancelled ELSE a.cancelled]
  <1>1. DOMAIN x = {"row", "of", "at", "start", "cancelled"}
    BY DEF ChangedRow
  <1>2. Written(x, o, a) = [f \in {"row", "of", "at", "start", "cancelled"} |->
                              IF a[f] = o[f] THEN x[f] ELSE a[f]]
    BY <1>1 DEF Written
  <1> QED
    BY <1>2

LEMMA WrittenSeries ==
    ASSUME NEW x \in Row, NEW o \in Row, NEW a \in Row
    PROVE  Written(x, o, a) =
             [start |-> IF a.start = o.start THEN x.start ELSE a.start,
              day |-> IF a.day = o.day THEN x.day ELSE a.day,
              rule |-> IF a.rule = o.rule THEN x.rule ELSE a.rule,
              given |-> IF a.given = o.given THEN x.given ELSE a.given,
              exdates |-> IF a.exdates = o.exdates THEN x.exdates ELSE a.exdates]
  <1>1. DOMAIN x = {"start", "day", "rule", "given", "exdates"}
    BY DEF Row
  <1>2. Written(x, o, a) = [f \in {"start", "day", "rule", "given", "exdates"} |->
                              IF a[f] = o[f] THEN x[f] ELSE a[f]]
    BY <1>1 DEF Written
  <1> QED
    BY <1>2

LEMMA WrittenKeepsShape ==
    /\ \A x, o, a \in ChangedRow : a.row = o.row =>
          /\ Written(x, o, a) \in ChangedRow /\ Written(x, o, a).row = x.row
          /\ Written(x, o, a).of \in {x.of, a.of}
          /\ a.of = o.of => Written(x, o, a).of = x.of
          /\ a.at = o.at => Written(x, o, a).at = x.at
    /\ \A x, o, a \in Row :
          /\ Written(x, o, a) \in Row /\ Written(x, o, a).rule \in {x.rule, a.rule}
  <1>1. ASSUME NEW x \in ChangedRow, NEW o \in ChangedRow, NEW a \in ChangedRow, a.row = o.row
        PROVE  /\ Written(x, o, a) \in ChangedRow /\ Written(x, o, a).row = x.row
               /\ Written(x, o, a).of \in {x.of, a.of}
               /\ a.of = o.of => Written(x, o, a).of = x.of
               /\ a.at = o.at => Written(x, o, a).at = x.at
    <2> DEFINE w == Written(x, o, a)
    <2>1. /\ w.row = x.row
          /\ w.of = IF a.of = o.of THEN x.of ELSE a.of
          /\ w.at = IF a.at = o.at THEN x.at ELSE a.at
          /\ w.start = IF a.start = o.start THEN x.start ELSE a.start
          /\ w.cancelled = IF a.cancelled = o.cancelled THEN x.cancelled ELSE a.cancelled
      BY <1>1, WrittenChanged
    <2>2. w = [row |-> w.row, of |-> w.of, at |-> w.at, start |-> w.start,
               cancelled |-> w.cancelled]
      BY WrittenChanged
    <2>3. /\ x.row \in Nat /\ x.of \in SeriesIds /\ a.of \in SeriesIds
          /\ x.at \in Int /\ a.at \in Int /\ x.start \in Int /\ a.start \in Int
          /\ x.cancelled \in BOOLEAN /\ a.cancelled \in BOOLEAN
      BY DEF ChangedRow
    <2>4. /\ w.row \in Nat /\ w.of \in SeriesIds /\ w.at \in Int /\ w.start \in Int
      BY <2>1, <2>3
    <2>5. w.cancelled \in BOOLEAN
      BY <2>1, <2>3
    <2>6. w \in ChangedRow
      BY <2>2, <2>4, <2>5 DEF ChangedRow
    <2> QED
      BY <2>1, <2>6
  <1>2. ASSUME NEW x \in Row, NEW o \in Row, NEW a \in Row
        PROVE  /\ Written(x, o, a) \in Row /\ Written(x, o, a).rule \in {x.rule, a.rule}
    BY WrittenSeries DEF Row
  <1> QED
    BY <1>1, <1>2

LEMMA WrittenIsTheNew ==
    /\ \A x \in ChangedRow, a \in ChangedRow : Written(x, x, a) = a
    /\ \A x \in Row, a \in Row : Written(x, x, a) = a
  <1>1. ASSUME NEW x \in ChangedRow, NEW a \in ChangedRow PROVE Written(x, x, a) = a
    <2>1. a = [row |-> a.row, of |-> a.of, at |-> a.at, start |-> a.start,
               cancelled |-> a.cancelled]
      BY DEF ChangedRow
    <2>2. Written(x, x, a) = [row |-> a.row, of |-> a.of, at |-> a.at, start |-> a.start,
                              cancelled |-> a.cancelled]
      BY WrittenChanged
    <2> QED
      BY <2>1, <2>2
  <1>2. ASSUME NEW x \in Row, NEW a \in Row PROVE Written(x, x, a) = a
    <2>1. a = [start |-> a.start, day |-> a.day, rule |-> a.rule, given |-> a.given,
             exdates |-> a.exdates]
      BY DEF Row
    <2>2. Written(x, x, a) = [start |-> a.start, day |-> a.day, rule |-> a.rule, given |-> a.given,
                              exdates |-> a.exdates]
      BY WrittenSeries
    <2> QED
      BY <2>1, <2>2
  <1> QED
    BY <1>1, <1>2

-----------------------------------------------------------------------------
(***************************************************************************)
(* Shapes, and what belongs together.                                      *)
(***************************************************************************)
Proper(row) == row.rule = Once \/ row.rule.every > 0
Unique(rows) == \A o, x \in rows : Same(o, x) => o = x

Entry == [of: SeriesIds, at: Int, start: Int]
Request == [kind: {"edit", "delete"}, scope: {"this", "following", "all"},
            entry: Entry, seen: Row, rows: SUBSET ChangedRow]

(* A request is about an occurrence near enough, and has read one row of a *)
(* changed occurrence, or those of the series.                             *)
WellAsked(q) ==
    /\ q \in Request /\ q.entry.at < Near
    /\ Proper(q.seen) /\ (Recurs(q.seen) \/ q.scope = "all")
    /\ Unique(q.rows)
    /\ \A o \in q.rows :
          /\ o.of = q.entry.of
          /\ q.scope = "this" => o.at = q.entry.at /\ o.start = q.entry.start /\ ~o.cancelled
    /\ q.scope = "this" => \A o, x \in q.rows : o = x

SeriesOK ==
    /\ series \in [SeriesIds -> {New, Gone} \cup Row]
    /\ \A id \in SeriesIds : There(id) => Proper(series[id])
RowsOK ==
    /\ changed \subseteq ChangedRow /\ Unique(changed)
    /\ made \in Nat /\ \A o \in changed : o.row <= made
Belong == Distinct(changed) /\ \A o \in changed : There(o.of)
RequestsOK ==
    /\ request \in [Clients -> {Idle} \cup Request]
    /\ \A c \in Clients : request[c] # Idle =>
          WellAsked(request[c]) /\ series[request[c].entry.of] # New
TornOK == torn \subseteq SeriesIds /\ \A id \in torn : series[id] # New

ShapeInv == SeriesOK /\ RowsOK /\ Belong /\ RequestsOK /\ TornOK

LEMMA ThereIsRow ==
    ASSUME SeriesOK, NEW id \in SeriesIds, There(id)
    PROVE  series[id] \in Row /\ Proper(series[id]) /\ series[id] # New
  <1>1. series[id] \in {New, Gone} \cup Row
    BY DEF SeriesOK
  <1>2. series[id].start >= 0
    BY DEF There
  <1>3. series[id] # New /\ series[id] # Gone
    BY <1>2 DEF New, Gone
  <1> QED
    BY <1>1, <1>3 DEF SeriesOK

LEMMA RowIsThere ==
    ASSUME NEW row \in Row
    PROVE  row.start >= 0 /\ row # New /\ row # Gone
  <1>1. row.start \in Nat
    BY DEF Row
  <1> QED
    BY <1>1 DEF New, Gone

(* Entries have their shape.                                               *)
LEMMA EntriesHaveShape ==
    ASSUME NEW id \in SeriesIds, NEW row \in Row, Proper(row),
           NEW rows \in SUBSET ChangedRow, NEW e \in Entries(id, row, rows)
    PROVE  e \in Entry /\ e.of = id
  <1>1. CASE ~Recurs(row)
    BY <1>1 DEF Entries, Entry, Row
  <1>2. CASE Recurs(row)
    <2>1. Occurrences(row) \subseteq Int
      BY <1>2, OccurrencesAreRegular DEF Proper, Recurs
    <2>2. CASE \E t \in Occurrences(row) : e = [of |-> id, at |-> t, start |-> t]
      BY <2>1, <2>2 DEF Entry
    <2>3. CASE \E o \in rows : e = [of |-> id, at |-> o.at, start |-> o.start]
      BY <2>3 DEF Entry, ChangedRow
    <2> QED
      BY <1>2, <2>2, <2>3 DEF Entries
  <1> QED
    BY <1>1, <1>2

(* What becomes of the rows when some of them are updated by their ids.    *)
LEMMA UpdatedRows ==
    ASSUME RowsOK, NEW rows \in SUBSET ChangedRow, Unique(rows),
           NEW after \in [rows -> ChangedRow], \A o \in rows : after[o].row = o.row
    PROVE  /\ \A y \in Updated(after) : \E x \in changed :
                 /\ y \in ChangedRow /\ y.row = x.row
                 /\ \/ y = x /\ \A o \in rows : ~Same(o, x)
                    \/ \E o \in rows : Same(o, x) /\ y = Written(x, o, after[o])
           /\ Updated(after) \subseteq ChangedRow /\ Unique(Updated(after))
           /\ \A y \in Updated(after) : y.row <= made
  <1>1. ASSUME NEW y \in Updated(after)
        PROVE  \E x \in changed :
                 /\ y \in ChangedRow /\ y.row = x.row
                 /\ \/ y = x /\ \A o \in rows : ~Same(o, x)
                    \/ \E o \in rows : Same(o, x) /\ y = Written(x, o, after[o])
    <2>1. CASE y \in Kept(rows)
      BY <2>1 DEF Kept, RowsOK
    <2>2. CASE y \notin Kept(rows)
      <3>1. PICK x \in changed, o \in rows : Same(o, x) /\ y = Written(x, o, after[o])
        BY <1>1, <2>2 DEF Updated
      <3>2. x \in ChangedRow /\ o \in ChangedRow /\ after[o] \in ChangedRow /\ after[o].row = o.row
        BY <3>1 DEF RowsOK
      <3>3. y \in ChangedRow /\ y.row = x.row
        BY <3>1, <3>2, WrittenKeepsShape
      <3> QED
        BY <3>1, <3>3
    <2> QED
      BY <2>1, <2>2
  <1>2. Unique(Updated(after))
    <2> SUFFICES ASSUME NEW y \in Updated(after), NEW z \in Updated(after), y.row = z.row
                 PROVE  y = z
      BY DEF Unique, Same
    <2>1. PICK x \in changed :
             /\ y.row = x.row
             /\ \/ y = x /\ \A o \in rows : ~Same(o, x)
                \/ \E o \in rows : Same(o, x) /\ y = Written(x, o, after[o])
      BY <1>1
    <2>2. PICK w \in changed :
             /\ z.row = w.row
             /\ \/ z = w /\ \A o \in rows : ~Same(o, w)
                \/ \E o \in rows : Same(o, w) /\ z = Written(w, o, after[o])
      BY <1>1
    <2>3. x = w
      BY <2>1, <2>2 DEF RowsOK, Unique, Same
    <2> QED
      BY <2>1, <2>2, <2>3 DEF Unique, Same
  <1>3. \A y \in Updated(after) : y \in ChangedRow /\ y.row <= made
    BY <1>1 DEF RowsOK
  <1> QED
    BY <1>1, <1>2, <1>3

LEMMA RequestsKept ==
    ASSUME RequestsOK,
           request' = request \/ \E c \in Clients : request' = [request EXCEPT ![c] = Idle],
           \A id \in SeriesIds : series[id] # New => series'[id] # New
    PROVE  RequestsOK'
  <1>1. /\ request' \in [Clients -> {Idle} \cup Request]
        /\ \A c \in Clients : request'[c] # Idle => request'[c] = request[c] /\ request[c] # Idle
    BY DEF RequestsOK
  <1>2. ASSUME NEW c \in Clients, request'[c] # Idle
        PROVE  WellAsked(request'[c]) /\ series'[request'[c].entry.of] # New
    <2>1. WellAsked(request[c]) /\ series[request[c].entry.of] # New /\ request'[c] = request[c]
      BY <1>1, <1>2 DEF RequestsOK
    <2>2. request[c].entry.of \in SeriesIds
      BY <2>1 DEF WellAsked, Request, Entry
    <2> QED
      BY <2>1, <2>2
  <1> QED
    BY <1>1, <1>2 DEF RequestsOK, WellAsked

(* Whatever is stored, if it has its shape.                                *)
LEMMA StoreKeepsShape ==
    ASSUME ShapeInv, NEW c \in Clients, request[c] # Idle,
           NEW rest, NEW updated, NEW rows, NEW new \in SUBSET SeriesIds,
           NEW left \in SUBSET SeriesIds,
           There(request[c].entry.of) =>
              /\ rest \in [SeriesIds -> {New, Gone} \cup Row]
              /\ \A s \in SeriesIds : rest[s].start >= 0 => Proper(rest[s])
              /\ \A s \in SeriesIds : series[s] # New => rest[s] # New
              /\ \A s \in new \cup left : rest[s] # New
              /\ rows \subseteq ChangedRow /\ Unique(rows)
              /\ \A o \in rows : o.row <= made /\ rest[o.of].start >= 0,
           Store(c, request[c].entry.of, rest, updated, rows, new, left)
    PROVE  ShapeInv'
  <1> DEFINE q == request[c]
  <1>1. CASE Failed(c)
    <2>1. UNCHANGED <<series, changed, made, torn>> /\ request' = [request EXCEPT ![c] = Idle]
      BY <1>1 DEF Failed, Answered
    <2>2. SeriesOK' /\ RowsOK' /\ Belong' /\ TornOK'
      BY <2>1 DEF ShapeInv, SeriesOK, RowsOK, Belong, TornOK, There
    <2>3. RequestsOK'
      BY <2>1, RequestsKept DEF ShapeInv
    <2> QED
      BY <2>2, <2>3 DEF ShapeInv
  <1>2. CASE ~Failed(c)
    <2>1. /\ There(q.entry.of) /\ series' = rest /\ changed' = rows /\ made' = made
          /\ Distinct(rows) /\ Tear(q, new, left) /\ request' = [request EXCEPT ![c] = Idle]
      BY <1>2 DEF Store, Answered
    <2>2. SeriesOK'
      BY <2>1 DEF SeriesOK, There
    <2>3. RowsOK'
      BY <2>1 DEF RowsOK, ShapeInv
    <2>4. Belong'
      BY <2>1 DEF Belong, There
    <2>5. RequestsOK'
      BY <2>1, RequestsKept DEF ShapeInv
    <2>6. TornOK'
      <3>1. Touched(q) \subseteq SeriesIds /\ \A s \in Touched(q) : series[s] # New
        <4>1. q.entry.of \in SeriesIds /\ series[q.entry.of] # New
          BY DEF ShapeInv, RequestsOK, WellAsked, Request, Entry
        <4>2. \A x \in changed : x.of \in SeriesIds /\ series[x.of] # New
          BY ThereIsRow DEF ShapeInv, RowsOK, Belong, ChangedRow
        <4> QED
          BY <4>1, <4>2 DEF Touched
      <3>2. torn' \subseteq torn \cup Touched(q) \cup new \cup left
        BY <2>1 DEF Tear
      <3> QED
        BY <2>1, <3>1, <3>2 DEF TornOK, ShapeInv
    <2> QED
      BY <2>2, <2>3, <2>4, <2>5, <2>6 DEF ShapeInv
  <1> QED
    BY <1>1, <1>2

LEMMA RulesAreProper ==
    /\ Once \in Rule
    /\ \A rule \in Rules : rule \in Rule /\ rule.every > 0
  BY SeriesAssumption DEF Once, Rule, Endless

LEMMA SlotsAreInstants ==
    /\ Far \in Nat /\ Near \in Nat /\ Near <= Far
    /\ \A t \in Slots : t \in Nat /\ t <= Far /\ 2 * Near <= Far + t
  <1>1. Far \in Nat /\ Near \in 0 .. Far /\ Slots \subseteq 0 .. Far
    BY SeriesAssumption
  <1>2. \A t \in Slots : 2 * Near <= Far + t
    BY SeriesAssumption
  <1> QED
    BY <1>1, <1>2

LEMMA NextIdIsNew ==
    ASSUME Unused # {}
    PROVE  NextId \in SeriesIds /\ series[NextId] = New
  BY DEF NextId, Unused

LEMMA CreateKeepsShape ==
    ASSUME ShapeInv, Create
    PROVE  ShapeInv'
  <1>1. PICK t \in Slots, day \in BOOLEAN, rule \in Rules \cup {Once} :
           series' = [series EXCEPT ![NextId] =
                        [start |-> t, day |-> day, rule |-> rule, given |-> 0, exdates |-> {}]]
    BY DEF Create
  <1>2. NextId \in SeriesIds /\ series[NextId] = New
    BY NextIdIsNew DEF Create
  <1> DEFINE row == [start |-> t, day |-> day, rule |-> rule, given |-> 0, exdates |-> {}]
  <1>3. row \in Row /\ Proper(row)
    BY RulesAreProper, SeriesAssumption DEF Row, Proper
  <1>4. UNCHANGED <<changed, made, request, torn>>
    BY DEF Create
  <1>5. series' = [series EXCEPT ![NextId] = row]
    BY <1>1
  <1> HIDE DEF row
  <1>6. row.start >= 0 /\ row # New
    BY <1>3, RowIsThere
  <1>7. \A id \in SeriesIds : series'[id] = IF id = NextId THEN row ELSE series[id]
    BY <1>2, <1>5 DEF ShapeInv, SeriesOK
  <1>8. SeriesOK'
    BY <1>2, <1>3, <1>5, <1>7 DEF ShapeInv, SeriesOK, There
  <1>9. RowsOK'
    BY <1>4 DEF ShapeInv, RowsOK
  <1>10. Belong'
    BY <1>4, <1>6, <1>7 DEF ShapeInv, Belong, There, RowsOK, ChangedRow
  <1>11. RequestsOK'
    BY <1>4, <1>6, <1>7, RequestsKept DEF ShapeInv
  <1>12. TornOK'
    BY <1>4, <1>6, <1>7 DEF ShapeInv, TornOK
  <1> QED
    BY <1>8, <1>9, <1>10, <1>11, <1>12 DEF ShapeInv

(* What is shown is of a series there is.                                  *)
LEMMA ShownIsThere ==
    ASSUME ShapeInv, NEW e \in Shown
    PROVE  /\ e \in Entry /\ There(e.of)
           /\ e \in Entries(e.of, series[e.of], ChangedOf(e.of))
  <1>1. PICK id \in SeriesIds : e \in Expanded(id)
    BY DEF Shown
  <1>2. There(id) /\ e \in Entries(id, series[id], ChangedOf(id))
    BY <1>1 DEF Expanded
  <1>3. series[id] \in Row /\ Proper(series[id]) /\ ChangedOf(id) \in SUBSET ChangedRow
    BY <1>2, ThereIsRow DEF ShapeInv, RowsOK, ChangedOf
  <1>4. e \in Entry /\ e.of = id
    BY <1>2, <1>3, EntriesHaveShape
  <1> QED
    BY <1>2, <1>4

LEMMA AskKeepsShape ==
    ASSUME ShapeInv, NEW c \in Clients, NEW kind \in {"edit", "delete"},
           NEW scope \in {"this", "following", "all"}, Ask(c, kind, scope)
    PROVE  ShapeInv'
  <1>1. PICK e \in Shown :
           /\ e.at < Near
           /\ Recurs(series[e.of]) \/ scope = "all"
           /\ request' = [request EXCEPT ![c] =
                            [kind |-> kind, scope |-> scope, entry |-> e,
                             seen |-> series[e.of], rows |-> ReadRows(scope, e)]]
    BY DEF Ask
  <1>2. UNCHANGED <<series, changed, made, torn>>
    BY DEF Ask
  <1> DEFINE q == [kind |-> kind, scope |-> scope, entry |-> e,
                   seen |-> series[e.of], rows |-> ReadRows(scope, e)]
             id == e.of
  <1>3. /\ e \in Entry /\ id \in SeriesIds /\ There(id)
        /\ e \in Entries(id, series[id], ChangedOf(id))
    BY ShownIsThere DEF Entry
  <1>4. series[id] \in Row /\ Proper(series[id]) /\ series[id] # New
    BY <1>3, ThereIsRow DEF ShapeInv
  <1>5. /\ ReadRows(scope, e) \subseteq ChangedOf(id)
        /\ scope = "this" => ReadRows(scope, e) = ChangedAt(id, e.at)
    BY DEF ReadRows, ChangedAt
  <1>6. ChangedOf(id) \subseteq ChangedRow /\ Unique(ChangedOf(id)) /\ \A o \in ChangedOf(id) : o.of = id
    BY DEF ChangedOf, ShapeInv, RowsOK, Unique
  <1>7. ASSUME scope = "this", NEW o \in ChangedAt(id, e.at)
        PROVE  o.at = e.at /\ o.start = e.start /\ ~o.cancelled
    <2>1. o \in ChangedOf(id) /\ o.at = e.at
      BY <1>7 DEF ChangedAt
    <2>2. Recurs(series[id])
      BY <1>1, <1>7
    <2>3. PICK x \in ChangedOf(id) : ~x.cancelled /\ e = [of |-> id, at |-> x.at, start |-> x.start]
      BY <1>3, <2>1, <2>2 DEF Entries
    <2>4. x \in changed /\ o \in changed /\ x.of = o.of /\ x.at = o.at
      BY <2>1, <2>3 DEF ChangedOf
    <2>5. x = o
      BY <2>4 DEF ShapeInv, Belong, Distinct
    <2> QED
      BY <2>1, <2>3, <2>5
  <1>13. ASSUME scope = "this", NEW o \in ChangedAt(id, e.at), NEW x \in ChangedAt(id, e.at)
         PROVE  o = x
    BY <1>13 DEF ChangedAt, ChangedOf, ShapeInv, Belong, Distinct
  <1>8. q \in Request
    BY <1>3, <1>4, <1>5, <1>6 DEF Request
  <1>9. WellAsked(q)
    BY <1>1, <1>4, <1>5, <1>6, <1>7, <1>8, <1>13 DEF WellAsked, Unique
  <1>10. q.entry.of = id /\ request' = [request EXCEPT ![c] = q]
    BY <1>1
  <1> HIDE DEF q
  <1>11. RequestsOK'
    <2>1. \A d \in Clients : request'[d] = IF d = c THEN q ELSE request[d]
      BY <1>10 DEF ShapeInv, RequestsOK
    <2>2. request' \in [Clients -> {Idle} \cup Request]
      BY <1>8, <1>10 DEF ShapeInv, RequestsOK
    <2>3. ASSUME NEW d \in Clients, request'[d] # Idle
          PROVE  WellAsked(request'[d]) /\ series[request'[d].entry.of] # New
      BY <1>4, <1>9, <1>10, <2>1, <2>3 DEF ShapeInv, RequestsOK
    <2> QED
      BY <1>2, <2>2, <2>3 DEF RequestsOK, WellAsked
  <1>12. SeriesOK' /\ RowsOK' /\ Belong' /\ TornOK'
    BY <1>2 DEF ShapeInv, SeriesOK, RowsOK, Belong, TornOK, There
  <1> QED
    BY <1>11, <1>12 DEF ShapeInv

LEMMA QuestionShape ==
    ASSUME ShapeInv, NEW c \in Clients, request[c] # Idle
    PROVE  /\ WellAsked(request[c]) /\ series[request[c].entry.of] # New
           /\ request[c].entry.of \in SeriesIds /\ request[c].entry.at \in Int
           /\ request[c].entry.at < Near /\ Near \in Nat /\ Far \in Nat /\ Near <= Far
           /\ request[c].seen \in Row /\ Proper(request[c].seen)
           /\ request[c].rows \in SUBSET ChangedRow /\ Unique(request[c].rows)
  BY SeriesAssumption DEF ShapeInv, RequestsOK, WellAsked, Request, Entry

(* Rows that only get other times, or are cancelled, stay in their places. *)
LEMMA RestyledRows ==
    ASSUME ShapeInv, NEW rows \in SUBSET ChangedRow, Unique(rows),
           NEW after \in [rows -> ChangedRow],
           \A o \in rows : after[o].row = o.row /\ after[o].of = o.of /\ after[o].at = o.at
    PROVE  /\ Distinct(Updated(after))
           /\ \A y \in Updated(after) : \E x \in changed : y.row = x.row /\ y.of = x.of /\ y.at = x.at
  <1>1. ASSUME NEW y \in Updated(after)
        PROVE  \E x \in changed : y.row = x.row /\ y.of = x.of /\ y.at = x.at
    <2>1. PICK x \in changed :
             /\ y.row = x.row
             /\ \/ y = x
                \/ \E o \in rows : Same(o, x) /\ y = Written(x, o, after[o])
      BY <1>1, UpdatedRows DEF ShapeInv
    <2>2. CASE y = x
      BY <2>2
    <2>3. ASSUME NEW o \in rows, y = Written(x, o, after[o])
          PROVE  y.of = x.of /\ y.at = x.at
      <3>1. x \in ChangedRow /\ o \in ChangedRow /\ after[o] \in ChangedRow
        BY DEF ShapeInv, RowsOK
      <3> QED
        BY <2>3, <3>1, WrittenKeepsShape
    <2> QED
      BY <2>1, <2>2, <2>3
  <1>2. Unique(Updated(after))
    BY UpdatedRows DEF ShapeInv
  <1>3. ASSUME NEW y \in Updated(after), NEW z \in Updated(after), y.of = z.of, y.at = z.at
        PROVE  y = z
    <2>1. PICK x \in changed : y.row = x.row /\ y.of = x.of /\ y.at = x.at
      BY <1>1
    <2>2. PICK w \in changed : z.row = w.row /\ z.of = w.of /\ z.at = w.at
      BY <1>1
    <2>3. x = w
      <3>1. Distinct(changed)
        BY DEF ShapeInv, Belong
      <3>2. x.of = w.of /\ x.at = w.at
        BY <1>3, <2>1, <2>2
      <3> QED
        BY <3>1, <3>2 DEF Distinct
    <2> QED
      BY <1>2, <2>1, <2>2, <2>3 DEF Unique, Same
  <1> QED
    BY <1>1, <1>3 DEF Distinct

LEMMA EditThisKeepsShape ==
    ASSUME ShapeInv, NEW c \in Clients, EditThis(c)
    PROVE  ShapeInv'
  <1> DEFINE q == request[c]
             e == q.entry
  <1>1. q # Idle
    BY DEF EditThis, Asked
  <1>2. /\ e.of \in SeriesIds /\ e.at \in Int /\ series[e.of] # New
        /\ q.rows \in SUBSET ChangedRow /\ Unique(q.rows)
    BY <1>1, QuestionShape
  <1>3. series' = series /\ request' = [request EXCEPT ![c] = Idle]
    BY DEF EditThis, Failed, Answered
  <1>4. SeriesOK' /\ RequestsOK'
    BY <1>3, RequestsKept DEF ShapeInv, SeriesOK, There
  <1>5. CASE Failed(c)
    BY <1>4, <1>5 DEF Failed, ShapeInv, RowsOK, Belong, TornOK, There
  <1>6. CASE q.rows = {} /\ ~Failed(c)
    <2>1. PICK t \in Slots, cancelled \in BOOLEAN :
             changed' = changed \cup {[row |-> made + 1, of |-> e.of, at |-> e.at,
                                       start |-> t, cancelled |-> cancelled]}
      BY <1>6 DEF EditThis
    <2>2. made' = made + 1 /\ Tear(q, {}, {}) /\ There(e.of) /\ ChangedAt(e.of, e.at) = {}
      BY <1>6 DEF EditThis
    <2> DEFINE new == [row |-> made + 1, of |-> e.of, at |-> e.at,
                       start |-> t, cancelled |-> cancelled]
    <2>3. new \in ChangedRow /\ new.row = made + 1 /\ new.of = e.of /\ new.at = e.at
      BY <1>2, SeriesAssumption DEF ChangedRow, ShapeInv, RowsOK
    <2>4. changed' = changed \cup {new}
      BY <2>1
    <2> HIDE DEF new
    <2>5. RowsOK'
      <3>1. \A o \in changed : o.row \in Nat /\ o.row <= made /\ made \in Nat
        BY DEF ShapeInv, RowsOK, ChangedRow
      <3>2. \A o \in changed : o.row # new.row
        BY <2>3, <3>1
      <3> QED
        BY <2>2, <2>3, <2>4, <3>1, <3>2 DEF ShapeInv, RowsOK, Unique, Same
    <2>6. Belong'
      <3>1. \A o \in changed : ~(o.of = new.of /\ o.at = new.at)
        BY <2>2, <2>3 DEF ChangedAt, ChangedOf
      <3> QED
        BY <1>3, <2>2, <2>3, <2>4, <3>1 DEF ShapeInv, Belong, Distinct, There
    <2>7. TornOK'
      <3>1. torn' \subseteq torn \cup {e.of}
        BY <1>6, <2>2 DEF Tear, Touched
      <3> QED
        BY <1>2, <1>3, <3>1 DEF ShapeInv, TornOK
    <2> QED
      BY <1>4, <2>5, <2>6, <2>7 DEF ShapeInv
  <1>7. CASE q.rows # {} /\ ~Failed(c)
    <2>1. PICK t \in Slots, cancelled \in BOOLEAN :
             changed' = Updated([o \in q.rows |-> [o EXCEPT !.start = t, !.cancelled = cancelled]])
      BY <1>7 DEF EditThis
    <2>2. UNCHANGED <<made, torn>>
      BY <1>7 DEF EditThis
    <2> DEFINE after == [o \in q.rows |-> [o EXCEPT !.start = t, !.cancelled = cancelled]]
    <2>3. t \in Int
      BY SeriesAssumption
    <2>4. ASSUME NEW o \in q.rows
          PROVE  /\ after[o] \in ChangedRow
                 /\ after[o].row = o.row /\ after[o].of = o.of /\ after[o].at = o.at
      BY <1>2, <2>3, <2>4 DEF ChangedRow
    <2>5. after \in [q.rows -> ChangedRow]
      BY <2>4
    <2>6. changed' = Updated(after)
      BY <2>1
    <2> HIDE DEF after
    <2>7. RowsOK'
      BY <1>2, <2>2, <2>4, <2>5, <2>6, UpdatedRows DEF ShapeInv, RowsOK
    <2>8. Belong'
      <3>1. /\ Distinct(Updated(after))
            /\ \A y \in Updated(after) : \E x \in changed : y.row = x.row /\ y.of = x.of /\ y.at = x.at
        BY <1>2, <2>4, <2>5, RestyledRows
      <3>2. \A y \in Updated(after) : There(y.of)
        BY <3>1 DEF ShapeInv, Belong
      <3> QED
        BY <1>3, <2>6, <3>1, <3>2 DEF Belong, There
    <2>9. TornOK'
      BY <1>3, <2>2 DEF ShapeInv, TornOK
    <2> QED
      BY <1>4, <2>7, <2>8, <2>9 DEF ShapeInv
  <1> QED
    BY <1>5, <1>6, <1>7

(* Deleting rows leaves the others as they are.                            *)
LEMMA FewerRows ==
    ASSUME ShapeInv, NEW rows \in SUBSET changed
    PROVE  /\ rows \subseteq ChangedRow /\ Unique(rows) /\ Distinct(rows)
           /\ \A o \in rows : o.row <= made /\ There(o.of) /\ o.of \in SeriesIds
  BY DEF ShapeInv, RowsOK, Belong, Unique, Distinct, ChangedRow

(* One row of a series is written, to what it may be.                      *)
LEMMA OneSeriesWritten ==
    ASSUME ShapeInv, NEW id \in SeriesIds, There(id), NEW seen \in Row, NEW after \in Row,
           Proper(after)
    PROVE  LET rest == [series EXCEPT ![id] = Written(@, seen, after)]
           IN  /\ rest \in [SeriesIds -> {New, Gone} \cup Row]
               /\ rest[id] = Written(series[id], seen, after)
               /\ \A s \in SeriesIds : rest[s].start >= 0 => Proper(rest[s])
               /\ \A s \in SeriesIds : series[s] # New => rest[s] # New
               /\ \A s \in SeriesIds : series[s].start >= 0 => rest[s].start >= 0
  <1> DEFINE rest == [series EXCEPT ![id] = Written(@, seen, after)]
             written == Written(series[id], seen, after)
  <1>1. series[id] \in Row /\ Proper(series[id])
    BY ThereIsRow DEF ShapeInv
  <1>2. written \in Row /\ Proper(written)
    BY <1>1, WrittenKeepsShape DEF Proper
  <1>3. series \in [SeriesIds -> {New, Gone} \cup Row]
    BY DEF ShapeInv, SeriesOK
  <1>4. \A s \in SeriesIds : rest[s] = IF s = id THEN written ELSE series[s]
    BY <1>3
  <1>5. written.start >= 0 /\ written # New
    BY <1>2, RowIsThere
  <1>6. rest \in [SeriesIds -> {New, Gone} \cup Row]
    BY <1>2, <1>3
  <1>7. \A s \in SeriesIds : rest[s].start >= 0 => Proper(rest[s])
    BY <1>2, <1>4 DEF ShapeInv, SeriesOK, There
  <1> HIDE DEF rest, written
  <1> QED
    BY <1>4, <1>5, <1>6, <1>7 DEF rest, written

LEMMA DeleteThisKeepsShape ==
    ASSUME ShapeInv, NEW c \in Clients, DeleteThis(c)
    PROVE  ShapeInv'
  <1> DEFINE q == request[c]
             e == q.entry
             after == [q.seen EXCEPT !.exdates = @ \cup {e.at}]
             rest == [series EXCEPT ![e.of] = Written(@, q.seen, after)]
  <1>1. q # Idle
    BY DEF DeleteThis, Asked
  <1>2. e.of \in SeriesIds /\ e.at \in Int /\ q.seen \in Row /\ Proper(q.seen)
    BY <1>1, QuestionShape
  <1>3. after \in Row /\ after.rule = q.seen.rule
    BY <1>2 DEF Row
  <1>4. Proper(after)
    BY <1>2, <1>3 DEF Proper
  <1>5. Store(c, e.of, rest, {}, Kept(q.rows), {}, {})
    BY DEF DeleteThis
  <1>6. Kept(q.rows) \in SUBSET changed
    BY DEF Kept
  <1> HIDE DEF after
  <1>7. There(e.of) =>
              /\ rest \in [SeriesIds -> {New, Gone} \cup Row]
              /\ \A s \in SeriesIds : rest[s].start >= 0 => Proper(rest[s])
              /\ \A s \in SeriesIds : series[s] # New => rest[s] # New
              /\ \A s \in SeriesIds : series[s].start >= 0 => rest[s].start >= 0
    BY <1>2, <1>3, <1>4, OneSeriesWritten
  <1> HIDE DEF rest
  <1>8. /\ Kept(q.rows) \subseteq ChangedRow /\ Unique(Kept(q.rows))
        /\ \A o \in Kept(q.rows) : o.row <= made /\ There(o.of) /\ o.of \in SeriesIds
    BY <1>6, FewerRows
  <1>9. {} \in SUBSET SeriesIds
    OBVIOUS
  <1> QED
    BY <1>1, <1>5, <1>7, <1>8, <1>9, StoreKeepsShape DEF There

LEMMA DroppedKeepsShape ==
    ASSUME ShapeInv, NEW c \in Clients, NEW id \in SeriesIds, Dropped(id), Answered(c)
    PROVE  ShapeInv'
  <1>1. /\ series' = [series EXCEPT ![id] = Gone] /\ changed' = changed \ ChangedOf(id)
        /\ UNCHANGED <<made, torn>> /\ request' = [request EXCEPT ![c] = Idle]
    BY DEF Dropped, Answered
  <1>2. Gone # New /\ ~(Gone.start >= 0)
    BY DEF Gone, New
  <1>3. \A s \in SeriesIds : series'[s] = IF s = id THEN Gone ELSE series[s]
    BY <1>1 DEF ShapeInv, SeriesOK
  <1>4. SeriesOK'
    BY <1>1, <1>2, <1>3 DEF ShapeInv, SeriesOK, There
  <1>5. changed' \in SUBSET changed /\ \A o \in changed' : o.of # id
    BY <1>1 DEF ChangedOf
  <1>6. RowsOK' /\ Belong'
    <2>1. /\ changed' \subseteq ChangedRow /\ Unique(changed') /\ Distinct(changed')
          /\ \A o \in changed' : o.row <= made /\ There(o.of) /\ o.of \in SeriesIds
      BY <1>5, FewerRows
    <2> QED
      BY <1>1, <1>3, <1>5, <2>1 DEF ShapeInv, RowsOK, Belong, There
  <1>7. RequestsOK'
    BY <1>1, <1>2, <1>3, RequestsKept DEF ShapeInv
  <1>8. TornOK'
    BY <1>1, <1>2, <1>3 DEF ShapeInv, TornOK
  <1> QED
    BY <1>4, <1>6, <1>7, <1>8 DEF ShapeInv

LEMMA DeleteFollowingKeepsShape ==
    ASSUME ShapeInv, NEW c \in Clients, DeleteFollowing(c)
    PROVE  ShapeInv'
  <1> DEFINE q == request[c]
             e == q.entry
             after == Cut(q.seen, e.at)
             rest == [series EXCEPT ![e.of] = Written(@, q.seen, after)]
             kept == Kept(Later(q.rows, e.at))
  <1>1. q # Idle
    BY DEF DeleteFollowing, Asked
  <1>2. /\ e.of \in SeriesIds /\ e.at \in Int /\ q.seen \in Row /\ Proper(q.seen)
        /\ e.at <= Far /\ q.seen.start \in Nat
    BY <1>1, QuestionShape DEF Row
  <1>3. CASE e.at <= q.seen.start
    BY <1>2, <1>3, DroppedKeepsShape DEF DeleteFollowing
  <1>4. CASE e.at > q.seen.start /\ ~MayCut(q.seen, e.at)
    <2>1. Failed(c)
      BY <1>2, <1>4 DEF DeleteFollowing
    <2>2. UNCHANGED <<series, changed, made, torn>> /\ request' = [request EXCEPT ![c] = Idle]
      BY <2>1 DEF Failed, Answered
    <2>3. SeriesOK' /\ RowsOK' /\ Belong' /\ TornOK'
      BY <2>2 DEF ShapeInv, SeriesOK, RowsOK, Belong, TornOK, There
    <2>4. RequestsOK'
      BY <2>2, RequestsKept DEF ShapeInv
    <2> QED
      BY <2>3, <2>4 DEF ShapeInv
  <1>5. CASE e.at > q.seen.start /\ MayCut(q.seen, e.at)
    <2>1. Store(c, e.of, rest, {}, kept, {}, {})
      BY <1>2, <1>5 DEF DeleteFollowing
    <2>2. after \in Row /\ after.rule.every = q.seen.rule.every
      BY <1>2, <1>5, CutHasShape
    <2>3. q.seen.rule # Once
      BY <1>1, <1>5, QuestionShape DEF DeleteFollowing, Asked, WellAsked, Recurs
    <2>4. Proper(after)
      BY <1>2, <2>2, <2>3 DEF Proper
    <2>5. kept \in SUBSET changed
      BY DEF Kept
    <2> HIDE DEF after
    <2>6. There(e.of) =>
              /\ rest \in [SeriesIds -> {New, Gone} \cup Row]
              /\ \A s \in SeriesIds : rest[s].start >= 0 => Proper(rest[s])
              /\ \A s \in SeriesIds : series[s] # New => rest[s] # New
              /\ \A s \in SeriesIds : series[s].start >= 0 => rest[s].start >= 0
      BY <1>2, <2>2, <2>4, OneSeriesWritten
    <2> HIDE DEF rest
    <2>7. /\ kept \subseteq ChangedRow /\ Unique(kept)
          /\ \A o \in kept : o.row <= made /\ There(o.of) /\ o.of \in SeriesIds
      BY <2>5, FewerRows
    <2> HIDE DEF kept
    <2>8. {} \in SUBSET SeriesIds
      OBVIOUS
    <2> QED
      BY <1>1, <2>1, <2>6, <2>7, <2>8, StoreKeepsShape DEF There
  <1> QED
    BY <1>2, <1>3, <1>4, <1>5

(* The rules a request may bring.                                          *)
LEMMA BodyShape ==
    ASSUME NEW row \in Row, Proper(row), NEW body \in Bodies(row)
    PROVE  /\ body.start \in Slots /\ body.start \in Nat /\ body.start <= Far /\ body.day \in BOOLEAN
           /\ body.rule \in Rule /\ (body.rule = Once \/ body.rule.every > 0)
  <1>1. /\ body.start \in Slots /\ body.day \in BOOLEAN
        /\ body.rule \in Rules \cup {Once, row.rule}
    BY DEF Bodies
  <1>2. row.rule \in Rule
    BY DEF Row
  <1>3. body.rule \in Rule /\ (body.rule = Once \/ body.rule.every > 0)
    BY <1>1, <1>2, RulesAreProper DEF Proper
  <1>4. body.start \in Nat /\ body.start <= Far
    BY <1>1, SlotsAreInstants
  <1> QED
    BY <1>1, <1>3, <1>4

LEMMA SplitKeepsShape ==
    ASSUME ShapeInv, NEW c \in Clients, request[c] # Idle, Recurs(request[c].seen),
           request[c].entry.at > request[c].seen.start,
           MayCut(request[c].seen, request[c].entry.at), Unused # {},
           NEW body \in Bodies(request[c].seen), Split(c, body)
    PROVE  ShapeInv'
  <1> DEFINE q == request[c]
             id == q.entry.of
             slot == q.entry.at
             seen == q.seen
             rest == Rest(seen, slot)
             rule == IF body.rule = seen.rule THEN rest.rule ELSE body.rule
             later == Later(q.rows, slot)
             new == NextId
             moved == [o \in later |-> [o EXCEPT !.of = new]]
             second == [rest EXCEPT !.start = body.start, !.day = body.day, !.rule = rule,
                                    !.given = Given(rest, rule)]
             one == [series EXCEPT ![id] = Written(@, seen, Cut(seen, slot))]
             two == [series EXCEPT ![id] = Written(@, seen, Cut(seen, slot)), ![new] = second]
  <1>1. /\ id \in SeriesIds /\ slot \in Int /\ seen \in Row /\ Proper(seen) /\ slot <= Far
        /\ q.rows \in SUBSET ChangedRow /\ Unique(q.rows)
    BY QuestionShape
  <1>2. new \in SeriesIds /\ series[new] = New
    BY NextIdIsNew
  <1>3. /\ Cut(seen, slot) \in Row /\ rest \in Row
        /\ Cut(seen, slot).rule.every = seen.rule.every /\ rest.rule.every = seen.rule.every
    BY <1>1, CutHasShape
  <1>4. seen.rule.every > 0
    BY <1>1 DEF Proper, Recurs
  <1>5. Proper(Cut(seen, slot))
    BY <1>3, <1>4 DEF Proper
  <1>6. second \in Row /\ Proper(second)
    <2>1. rule \in Rule /\ (rule = Once \/ rule.every > 0)
      BY <1>1, <1>3, <1>4, BodyShape DEF Row
    <2>2. body.start \in Nat /\ body.day \in BOOLEAN
      BY <1>1, BodyShape
    <2> HIDE DEF rule, rest
    <2>3. Given(rest, rule) \in Nat
      BY <1>3 DEF Given, Row
    <2> QED
      BY <1>3, <2>1, <2>2, <2>3 DEF Row, Proper
  <1>7. PICK left \in {{}, {new}} : Store(c, id, two, later, Updated(moved), {new}, left)
    BY DEF Split
  <1>8. /\ later \in SUBSET ChangedRow /\ Unique(later)
        /\ moved \in [later -> ChangedRow] /\ \A o \in later : moved[o].row = o.row /\ moved[o].of = new
    <2>1. later \in SUBSET ChangedRow /\ Unique(later)
      BY <1>1 DEF Later, Unique
    <2>2. \A o \in later : [o EXCEPT !.of = new] \in ChangedRow
      BY <1>2, <2>1 DEF ChangedRow
    <2>3. \A o \in later : moved[o].row = o.row /\ moved[o].of = new
      BY <2>1 DEF ChangedRow
    <2> QED
      BY <2>1, <2>2, <2>3
  <1> HIDE DEF moved, later, second
  <1>9. ASSUME There(id)
        PROVE  /\ two \in [SeriesIds -> {New, Gone} \cup Row]
               /\ \A s \in SeriesIds : two[s].start >= 0 => Proper(two[s])
               /\ \A s \in SeriesIds : series[s] # New => two[s] # New
               /\ \A s \in {new} : two[s] # New
               /\ Updated(moved) \subseteq ChangedRow /\ Unique(Updated(moved))
               /\ \A o \in Updated(moved) : o.row <= made /\ two[o.of].start >= 0
    <2>1. /\ one \in [SeriesIds -> {New, Gone} \cup Row]
          /\ \A s \in SeriesIds : one[s].start >= 0 => Proper(one[s])
          /\ \A s \in SeriesIds : series[s] # New => one[s] # New
          /\ \A s \in SeriesIds : series[s].start >= 0 => one[s].start >= 0
      BY <1>1, <1>3, <1>5, <1>9, OneSeriesWritten
    <2>2. two = [one EXCEPT ![new] = second]
      OBVIOUS
    <2> HIDE DEF one, two
    <2>3. second.start >= 0 /\ second # New
      BY <1>6, RowIsThere
    <2>4. \A s \in SeriesIds : two[s] = IF s = new THEN second ELSE one[s]
      BY <2>1, <2>2
    <2>5. two \in [SeriesIds -> {New, Gone} \cup Row]
      BY <1>6, <2>1, <2>2
    <2>6. /\ \A s \in SeriesIds : two[s].start >= 0 => Proper(two[s])
          /\ \A s \in SeriesIds : series[s] # New => two[s] # New
          /\ \A s \in {new} : two[s] # New
          /\ \A s \in SeriesIds : series[s].start >= 0 \/ s = new => two[s].start >= 0
      BY <1>2, <1>6, <2>1, <2>3, <2>4
    <2>7. Updated(moved) \subseteq ChangedRow /\ Unique(Updated(moved))
          /\ \A o \in Updated(moved) : o.row <= made
      BY <1>8, UpdatedRows DEF ShapeInv
    <2>8. ASSUME NEW o \in Updated(moved) PROVE two[o.of].start >= 0
      <3>1. PICK x \in changed :
               \/ o = x
               \/ \E y \in later : Same(y, x) /\ o = Written(x, y, moved[y])
        BY <1>8, UpdatedRows DEF ShapeInv
      <3>2. x \in ChangedRow /\ x.of \in SeriesIds /\ series[x.of].start >= 0
        BY DEF ShapeInv, RowsOK, Belong, There, ChangedRow
      <3>3. o.of \in {x.of, new}
        <4>1. ASSUME NEW y \in later, o = Written(x, y, moved[y]) PROVE o.of \in {x.of, new}
          <5>1. y \in ChangedRow /\ moved[y] \in ChangedRow /\ moved[y].row = y.row /\ moved[y].of = new
            BY <1>8
          <5> QED
            BY <3>2, <4>1, <5>1, WrittenKeepsShape
        <4> QED
          BY <3>1, <4>1
      <3> QED
        BY <1>2, <2>6, <3>2, <3>3
    <2> QED
      BY <2>5, <2>6, <2>7, <2>8
  <1>10. {new} \in SUBSET SeriesIds /\ left \in SUBSET SeriesIds /\ {new} \cup left = {new}
    BY <1>2
  <1> HIDE DEF two, one, new
  <1> QED
    BY <1>7, <1>9, <1>10, StoreKeepsShape

LEMMA ShiftKeepsShape ==
    ASSUME ShapeInv, NEW c \in Clients, request[c] # Idle,
           NEW body \in Bodies(request[c].seen), Shift(c, body)
    PROVE  ShapeInv'
  <1> DEFINE q == request[c]
             id == q.entry.of
             slot == q.entry.at
             seen == q.seen
             rows == q.rows
             follows == Recurs(seen) /\ body.rule # Once /\ body.day = seen.day
             by == IF follows THEN body.start - slot ELSE 0
             start == IF follows THEN seen.start + by ELSE body.start
             after == [seen EXCEPT !.start = start, !.day = body.day, !.rule = body.rule,
                                   !.given = Given(seen, body.rule), !.exdates = {d + by : d \in @}]
             moved == [o \in rows |->
                         [o EXCEPT !.at = @ + by, !.start = IF @ = o.at THEN @ + by ELSE @]]
             rest == [series EXCEPT ![id] = Written(@, seen, after)]
  <1>1. /\ id \in SeriesIds /\ slot \in Int /\ seen \in Row /\ Proper(seen)
        /\ rows \in SUBSET ChangedRow /\ Unique(rows)
    BY QuestionShape
  <1>2. /\ body.start \in Nat /\ body.day \in BOOLEAN
        /\ body.rule \in Rule /\ (body.rule = Once \/ body.rule.every > 0)
    BY <1>1, BodyShape
  <1>3. PICK left \in {{}, {id}} :
           Store(c, id, rest, IF by = 0 THEN {} ELSE rows, Updated(moved), {}, left)
    BY DEF Shift
  <1>4. start >= 0
    BY DEF Shift
  <1>9. by \in Int /\ start \in Nat
    <2>1. seen.start \in Int
      BY <1>1 DEF Row
    <2>2. by \in Int
      BY <1>1, <1>2
    <2>3. start \in Int
      BY <1>2, <2>1, <2>2
    <2> HIDE DEF by, start
    <2> QED
      BY <1>4, <2>2, <2>3
  <1> HIDE DEF follows, by, start
  <1>5. after \in Row /\ Proper(after)
    <2>1. seen.exdates \subseteq Int
      BY <1>1 DEF Row
    <2>2. {d + by : d \in seen.exdates} \subseteq Int
      BY <1>9, <2>1
    <2> DEFINE exdates == {d + by : d \in seen.exdates}
    <2>3. after = [seen EXCEPT !.start = start, !.day = body.day, !.rule = body.rule,
                               !.given = Given(seen, body.rule), !.exdates = exdates]
      OBVIOUS
    <2> HIDE DEF after, exdates
    <2>4. exdates \in SUBSET Int
      BY <2>2 DEF exdates
    <2>5. after \in Row /\ after.rule = body.rule
      <3>1. /\ seen \in Row /\ start \in Nat /\ body.day \in BOOLEAN /\ body.rule \in Rule
            /\ exdates \in SUBSET Int /\ Given(seen, body.rule) \in Nat
        BY <1>1, <1>2, <1>9, <2>4 DEF Given, Row
      <3> HIDE DEF seen
      <3> QED
        BY <2>3, <3>1 DEF Row
    <2> QED
      BY <1>2, <2>5 DEF Proper
  <1>6. /\ moved \in [rows -> ChangedRow]
        /\ \A o \in rows : moved[o].row = o.row /\ moved[o].of = o.of
    <2>1. ASSUME NEW o \in rows
          PROVE  /\ [o EXCEPT !.at = @ + by, !.start = IF @ = o.at THEN @ + by ELSE @] \in ChangedRow
                 /\ moved[o].row = o.row /\ moved[o].of = o.of
      <3>1. o \in ChangedRow /\ o.at \in Int /\ o.start \in Int
        BY <1>1 DEF ChangedRow
      <3>2. o.at + by \in Int /\ (IF o.start = o.at THEN o.start + by ELSE o.start) \in Int
        BY <1>9, <3>1
      <3> QED
        BY <3>1, <3>2 DEF ChangedRow
    <2> QED
      BY <2>1
  <1> HIDE DEF after, moved
  <1>7. ASSUME There(id)
        PROVE  /\ rest \in [SeriesIds -> {New, Gone} \cup Row]
               /\ \A s \in SeriesIds : rest[s].start >= 0 => Proper(rest[s])
               /\ \A s \in SeriesIds : series[s] # New => rest[s] # New
               /\ rest[id] # New
               /\ Updated(moved) \subseteq ChangedRow /\ Unique(Updated(moved))
               /\ \A o \in Updated(moved) : o.row <= made /\ rest[o.of].start >= 0
    <2>1. /\ rest \in [SeriesIds -> {New, Gone} \cup Row]
          /\ \A s \in SeriesIds : rest[s].start >= 0 => Proper(rest[s])
          /\ \A s \in SeriesIds : series[s] # New => rest[s] # New
          /\ \A s \in SeriesIds : series[s].start >= 0 => rest[s].start >= 0
      BY <1>1, <1>5, <1>7, OneSeriesWritten
    <2>2. Updated(moved) \subseteq ChangedRow /\ Unique(Updated(moved))
          /\ \A o \in Updated(moved) : o.row <= made
      BY <1>1, <1>6, UpdatedRows DEF ShapeInv
    <2>3. ASSUME NEW o \in Updated(moved) PROVE rest[o.of].start >= 0
      <3>1. PICK x \in changed :
               \/ o = x
               \/ \E y \in rows : Same(y, x) /\ o = Written(x, y, moved[y])
        BY <1>1, <1>6, UpdatedRows DEF ShapeInv
      <3>2. x \in ChangedRow /\ x.of \in SeriesIds /\ series[x.of].start >= 0
        BY DEF ShapeInv, RowsOK, Belong, There, ChangedRow
      <3>3. o.of = x.of
        <4>1. ASSUME NEW y \in rows, o = Written(x, y, moved[y]) PROVE o.of = x.of
          <5>1. y \in ChangedRow /\ moved[y] \in ChangedRow /\ moved[y].row = y.row /\ moved[y].of = y.of
            BY <1>1, <1>6
          <5> QED
            BY <3>2, <4>1, <5>1, WrittenKeepsShape
        <4> QED
          BY <3>1, <4>1
      <3> QED
        BY <2>1, <3>2, <3>3
    <2>4. series[id] # New
      BY <1>1, QuestionShape
    <2> QED
      BY <1>1, <2>1, <2>2, <2>3, <2>4
  <1> HIDE DEF rest
  <1>8. {} \in SUBSET SeriesIds /\ left \in SUBSET SeriesIds
    BY <1>1
  <1> QED
    BY <1>3, <1>7, <1>8, StoreKeepsShape

LEMMA EditFollowingKeepsShape ==
    ASSUME ShapeInv, NEW c \in Clients, EditFollowing(c)
    PROVE  ShapeInv'
  <1>1. /\ request[c] # Idle /\ Recurs(request[c].seen)
        /\ request[c].entry.at \in Int /\ request[c].seen.start \in Int
    BY QuestionShape DEF EditFollowing, Asked, WellAsked, Row
  <1>2. CASE request[c].entry.at > request[c].seen.start /\ MayCut(request[c].seen, request[c].entry.at)
    BY <1>1, <1>2, SplitKeepsShape DEF EditFollowing
  <1>3. CASE request[c].entry.at > request[c].seen.start /\ ~MayCut(request[c].seen, request[c].entry.at)
    <2>1. UNCHANGED <<series, changed, made, torn>> /\ request' = [request EXCEPT ![c] = Idle]
      BY <1>3 DEF EditFollowing, Failed, Answered
    <2>2. SeriesOK' /\ RowsOK' /\ Belong' /\ TornOK'
      BY <2>1 DEF ShapeInv, SeriesOK, RowsOK, Belong, TornOK, There
    <2>3. RequestsOK'
      BY <2>1, RequestsKept DEF ShapeInv
    <2> QED
      BY <2>2, <2>3 DEF ShapeInv
  <1>4. CASE ~(request[c].entry.at > request[c].seen.start)
    BY <1>1, <1>4, ShiftKeepsShape DEF EditFollowing
  <1> QED
    BY <1>2, <1>3, <1>4

LEMMA ShapeAtFirst == Init => ShapeInv
  <1> SUFFICES ASSUME Init PROVE ShapeInv
    OBVIOUS
  <1>1. \A id \in SeriesIds : series[id] = New /\ ~There(id)
    BY DEF Init, There, New
  <1>2. SeriesOK /\ TornOK
    BY <1>1 DEF Init, SeriesOK, TornOK
  <1>3. RowsOK /\ Belong
    BY DEF Init, RowsOK, Belong, Unique, Distinct
  <1>4. RequestsOK
    BY DEF Init, RequestsOK
  <1> QED
    BY <1>2, <1>3, <1>4 DEF ShapeInv

LEMMA ShapeKept == ShapeInv /\ [Next]_vars => ShapeInv'
  <1> SUFFICES ASSUME ShapeInv, [Next]_vars PROVE ShapeInv'
    OBVIOUS
  <1>1. CASE UNCHANGED vars
    BY <1>1 DEF vars, ShapeInv, SeriesOK, RowsOK, Belong, RequestsOK, WellAsked, TornOK, There
  <1>2. CASE Create
    BY <1>2, CreateKeepsShape
  <1>3. ASSUME NEW c \in Clients,
               \E kind \in {"edit", "delete"}, scope \in {"this", "following", "all"} :
                  Ask(c, kind, scope)
        PROVE  ShapeInv'
    BY <1>3, AskKeepsShape
  <1>4. ASSUME NEW c \in Clients, EditThis(c) PROVE ShapeInv'
    BY <1>4, EditThisKeepsShape
  <1>5. ASSUME NEW c \in Clients, EditFollowing(c) PROVE ShapeInv'
    BY <1>5, EditFollowingKeepsShape
  <1>6. ASSUME NEW c \in Clients, EditAll(c) PROVE ShapeInv'
    BY <1>6, ShiftKeepsShape DEF EditAll, Asked
  <1>7. ASSUME NEW c \in Clients, DeleteThis(c) PROVE ShapeInv'
    BY <1>7, DeleteThisKeepsShape
  <1>8. ASSUME NEW c \in Clients, DeleteFollowing(c) PROVE ShapeInv'
    BY <1>8, DeleteFollowingKeepsShape
  <1>9. ASSUME NEW c \in Clients, DeleteAll(c) PROVE ShapeInv'
    BY <1>9, DroppedKeepsShape, QuestionShape DEF DeleteAll, Asked
  <1> QED
    BY <1>1, <1>2, <1>3, <1>4, <1>5, <1>6, <1>7, <1>8, <1>9 DEF Next

(* Rows keep their shape, and each row of a changed occurrence belongs to  *)
(* a series that is there and is the only one for its slot                 *)
(* (uq_events_uid_recurrence, ON DELETE CASCADE): for any number of series *)
(* and of requests that overlap, of all kinds.                             *)
THEOREM TypeCorrect == Spec => []TypeOK
  <1>1. ShapeInv => TypeOK
    BY DEF ShapeInv, SeriesOK, RowsOK, Belong, TornOK, TypeOK
  <1> QED
    BY <1>1, ShapeAtFirst, ShapeKept, PTL DEF Spec

-----------------------------------------------------------------------------
(***************************************************************************)
(* What is listed of a series, and how it changes with its rows.           *)
(***************************************************************************)
Lists(id, row, rows, e) ==
    \/ \E t \in Int : /\ t <= Far /\ Regular(row, t) /\ t \notin row.exdates
                      /\ \A o \in rows : o.at # t
                      /\ e = [of |-> id, at |-> t, start |-> t]
    \/ \E o \in rows : ~o.cancelled /\ e = [of |-> id, at |-> o.at, start |-> o.start]

LEMMA EntriesAreListed ==
    ASSUME NEW id \in SeriesIds, NEW row \in Row, row.rule.every > 0,
           NEW rows \in SUBSET ChangedRow
    PROVE  /\ \A e : e \in Entries(id, row, rows) <=> Lists(id, row, rows, e)
           /\ \A e \in Entries(id, row, rows) : e \in Entry /\ e.of = id
  <1>1. Recurs(row) /\ Proper(row)
    BY DEF Recurs, Once, Proper
  <1>2. Occurrences(row) = {t \in Int : t <= Far /\ Regular(row, t)}
    BY OccurrencesAreRegular
  <1>3. \A e : e \in Entries(id, row, rows) <=>
                 \/ \E t \in Occurrences(row) \ (row.exdates \cup {o.at : o \in rows}) :
                       e = [of |-> id, at |-> t, start |-> t]
                 \/ \E o \in {x \in rows : ~x.cancelled} :
                       e = [of |-> id, at |-> o.at, start |-> o.start]
    BY <1>1 DEF Entries
  <1>4. \A e : e \in Entries(id, row, rows) <=> Lists(id, row, rows, e)
    BY <1>2, <1>3 DEF Lists
  <1> QED
    BY <1>1, <1>4, EntriesHaveShape

(* One entry at most stands for a slot.                                    *)
LEMMA OneEntryForASlot ==
    ASSUME NEW id \in SeriesIds, NEW row \in Row, row.rule.every > 0,
           NEW rows \in SUBSET ChangedRow, \A o, x \in rows : o.at = x.at => o = x,
           NEW e \in Entries(id, row, rows)
    PROVE  \A x \in Entries(id, row, rows) : x.at = e.at => x = e
  <1> TAKE x \in Entries(id, row, rows)
  <1>1. Lists(id, row, rows, x) /\ Lists(id, row, rows, e)
    BY EntriesAreListed
  <1> QED
    BY <1>1 DEF Lists

(* What is changed at one slot concerns the entry there.                   *)
LEMMA ChangedAtOneSlot ==
    ASSUME NEW id \in SeriesIds, NEW row \in Row, row.rule.every > 0,
           NEW rows \in SUBSET ChangedRow, NEW after \in SUBSET ChangedRow, NEW o \in after,
           {x \in after : x.at # o.at} = {x \in rows : x.at # o.at},
           \A x \in after : x.at = o.at => x = o
    PROVE  Entries(id, row, after) =
             {x \in Entries(id, row, rows) : x.at # o.at}
               \cup IF o.cancelled THEN {} ELSE {[of |-> id, at |-> o.at, start |-> o.start]}
  <1>1. ASSUME NEW e, Lists(id, row, after, e)
        PROVE  \/ Lists(id, row, rows, e) /\ e.at # o.at
               \/ ~o.cancelled /\ e = [of |-> id, at |-> o.at, start |-> o.start]
    <2>1. CASE \E t \in Int : /\ t <= Far /\ Regular(row, t) /\ t \notin row.exdates
                              /\ \A x \in after : x.at # t
                              /\ e = [of |-> id, at |-> t, start |-> t]
      BY <2>1 DEF Lists
    <2>2. CASE \E x \in after : ~x.cancelled /\ e = [of |-> id, at |-> x.at, start |-> x.start]
      BY <2>2 DEF Lists
    <2> QED
      BY <1>1, <2>1, <2>2 DEF Lists
  <1>2. ASSUME NEW e, Lists(id, row, rows, e), e.at # o.at
        PROVE  Lists(id, row, after, e)
    <2>1. CASE \E t \in Int : /\ t <= Far /\ Regular(row, t) /\ t \notin row.exdates
                              /\ \A x \in rows : x.at # t
                              /\ e = [of |-> id, at |-> t, start |-> t]
      BY <1>2, <2>1 DEF Lists
    <2>2. CASE \E x \in rows : ~x.cancelled /\ e = [of |-> id, at |-> x.at, start |-> x.start]
      BY <1>2, <2>2 DEF Lists
    <2> QED
      BY <1>2, <2>1, <2>2 DEF Lists
  <1>3. ~o.cancelled => Lists(id, row, after, [of |-> id, at |-> o.at, start |-> o.start])
    BY DEF Lists
  <1> QED
    BY <1>1, <1>2, <1>3, EntriesAreListed

LEMMA CancelledSlot ==
    ASSUME NEW id \in SeriesIds, NEW row \in Row, row.rule.every > 0, NEW slot \in Int,
           NEW rows \in SUBSET ChangedRow
    PROVE  Entries(id, [row EXCEPT !.exdates = @ \cup {slot}], {x \in rows : x.at # slot})
             = {x \in Entries(id, row, rows) : x.at # slot}
  <1> DEFINE after == [row EXCEPT !.exdates = @ \cup {slot}]
             fewer == {x \in rows : x.at # slot}
  <1>1. /\ after \in Row /\ after.rule = row.rule /\ after.start = row.start
        /\ after.exdates = row.exdates \cup {slot}
    BY DEF Row
  <1> HIDE DEF after
  <1>2. \A t : Regular(after, t) <=> Regular(row, t)
    BY <1>1 DEF Regular
  <1>3. \A e : Lists(id, after, fewer, e) <=> Lists(id, row, rows, e) /\ e.at # slot
    BY <1>1, <1>2 DEF Lists
  <1>4. fewer \in SUBSET ChangedRow
    OBVIOUS
  <1>5. \A e : e \in Entries(id, after, fewer) <=> Lists(id, after, fewer, e)
    BY <1>1, <1>4, EntriesAreListed
  <1>6. \A e : e \in Entries(id, row, rows) <=> Lists(id, row, rows, e)
    BY EntriesAreListed
  <1> QED
    BY <1>3, <1>5, <1>6 DEF after

LEMMA CutEntries ==
    ASSUME NEW id \in SeriesIds, NEW row \in Row, row.rule.every > 0, NEW slot \in Int,
           slot > row.start, slot <= Far, Regular(row, slot), MayCut(row, slot),
           NEW rows \in SUBSET ChangedRow
    PROVE  Entries(id, Cut(row, slot), {x \in rows : x.at < slot})
             = {x \in Entries(id, row, rows) : x.at < slot}
  <1> DEFINE after == Cut(row, slot)
             fewer == {x \in rows : x.at < slot}
  <1>1. /\ after \in Row /\ after.rule.every > 0 /\ after.exdates = {d \in row.exdates : d < slot}
    BY CutHasShape DEF Cut, Row
  <1>2. \A t \in Int : Regular(after, t) <=> Regular(row, t) /\ t < slot
    BY CutAndRest
  <1> HIDE DEF after
  <1>3. \A x \in rows : x.at \in Int
    BY DEF ChangedRow
  <1>4. \A e : Lists(id, after, fewer, e) <=> Lists(id, row, rows, e) /\ e.at < slot
    BY <1>1, <1>2, <1>3 DEF Lists
  <1>5. \A e : e \in Entries(id, after, fewer) <=> Lists(id, after, fewer, e)
    BY <1>1, EntriesAreListed
  <1>6. \A e : e \in Entries(id, row, rows) <=> Lists(id, row, rows, e)
    BY EntriesAreListed
  <1> QED
    BY <1>4, <1>5, <1>6 DEF after

To(rows, new) == {[x EXCEPT !.of = new] : x \in rows}

LEMMA RestEntries ==
    ASSUME NEW id \in SeriesIds, NEW new \in SeriesIds, NEW row \in Row, row.rule.every > 0,
           NEW slot \in Int, slot > row.start, slot <= Far, Regular(row, slot), MayCut(row, slot),
           NEW rows \in SUBSET ChangedRow, NEW after \in Row,
           after.start = slot, after.rule = Rest(row, slot).rule,
           after.exdates = Rest(row, slot).exdates
    PROVE  Entries(new, after, To(Later(rows, slot), new))
             = To({y \in Entries(id, row, rows) : y.at >= slot}, new)
  <1> DEFINE moved == {[x EXCEPT !.of = new] : x \in Later(rows, slot)}
  <1>1. /\ Rest(row, slot) \in Row /\ Rest(row, slot).rule.every > 0
        /\ after.exdates = {d \in row.exdates : d >= slot} /\ Rest(row, slot).start = slot
    BY CutHasShape DEF Rest, Row
  <1>2. \A t \in Int : Regular(after, t) <=> Regular(row, t) /\ t >= slot
    <2>1. \A t \in Int : Regular(after, t) <=> Regular(Rest(row, slot), t)
      BY <1>1 DEF Regular
    <2> QED
      BY <2>1, CutAndRest
  <1>3. \A x \in rows : /\ x.at \in Int /\ [x EXCEPT !.of = new] \in ChangedRow
                        /\ [x EXCEPT !.of = new].at = x.at
                        /\ [x EXCEPT !.of = new].start = x.start
                        /\ [x EXCEPT !.of = new].cancelled = x.cancelled
    BY DEF ChangedRow
  <1>4. \A m : m \in moved <=> \E x \in rows : x.at >= slot /\ m = [x EXCEPT !.of = new]
    BY DEF Later
  <1>5. moved \in SUBSET ChangedRow
    BY <1>3, <1>4
  <1> HIDE DEF moved
  <1>6. ASSUME NEW e, Lists(new, after, moved, e)
        PROVE  \E y : Lists(id, row, rows, y) /\ y.at >= slot /\ e = [y EXCEPT !.of = new]
    <2>1. ASSUME NEW t \in Int, t <= Far, Regular(after, t), t \notin after.exdates,
                 \A o \in moved : o.at # t, e = [of |-> new, at |-> t, start |-> t]
          PROVE  \E y : Lists(id, row, rows, y) /\ y.at >= slot /\ e = [y EXCEPT !.of = new]
      <3> DEFINE y == [of |-> id, at |-> t, start |-> t]
      <3>1. Regular(row, t) /\ t >= slot /\ t \notin row.exdates
        BY <1>1, <1>2, <2>1
      <3>2. ASSUME NEW o \in rows PROVE o.at # t
        <4> DEFINE m == [o EXCEPT !.of = new]
        <4>1. o.at \in Int /\ m.at = o.at
          BY <1>3
        <4> HIDE DEF m
        <4>2. o.at >= slot => m \in moved
          BY <1>4 DEF m
        <4> QED
          BY <2>1, <3>1, <4>1, <4>2
      <3>3. Lists(id, row, rows, y)
        BY <2>1, <3>1, <3>2 DEF Lists
      <3> QED
        BY <2>1, <3>1, <3>3
    <2>2. ASSUME NEW m \in moved, ~m.cancelled, e = [of |-> new, at |-> m.at, start |-> m.start]
          PROVE  \E y : Lists(id, row, rows, y) /\ y.at >= slot /\ e = [y EXCEPT !.of = new]
      <3>1. PICK x \in rows : x.at >= slot /\ m = [x EXCEPT !.of = new]
        BY <1>4
      <3> DEFINE y == [of |-> id, at |-> x.at, start |-> x.start]
      <3>2. ~x.cancelled /\ e = [of |-> new, at |-> x.at, start |-> x.start]
        BY <1>3, <2>2, <3>1
      <3>3. Lists(id, row, rows, y)
        BY <3>2 DEF Lists
      <3>4. y.at = x.at /\ e = [y EXCEPT !.of = new]
        BY <3>2
      <3> HIDE DEF y
      <3> QED
        BY <3>1, <3>3, <3>4
    <2> QED
      BY <1>6, <2>1, <2>2 DEF Lists
  <1>7. ASSUME NEW y, Lists(id, row, rows, y), y.at >= slot
        PROVE  Lists(new, after, moved, [y EXCEPT !.of = new])
    <2>1. ASSUME NEW t \in Int, t <= Far, Regular(row, t), t \notin row.exdates,
                 \A o \in rows : o.at # t, y = [of |-> id, at |-> t, start |-> t]
          PROVE  Lists(new, after, moved, [y EXCEPT !.of = new])
      <3>1. Regular(after, t) /\ t \notin after.exdates
        BY <1>1, <1>2, <1>7, <2>1
      <3>2. ASSUME NEW o \in moved PROVE o.at # t
        <4>1. PICK x \in rows : o = [x EXCEPT !.of = new]
          BY <1>4
        <4>2. o.at = x.at
          BY <1>3, <4>1
        <4> QED
          BY <2>1, <4>2
      <3>3. [y EXCEPT !.of = new] = [of |-> new, at |-> t, start |-> t]
        BY <2>1
      <3> QED
        BY <2>1, <3>1, <3>2, <3>3 DEF Lists
    <2>2. ASSUME NEW x \in rows, ~x.cancelled, y = [of |-> id, at |-> x.at, start |-> x.start]
          PROVE  Lists(new, after, moved, [y EXCEPT !.of = new])
      <3> DEFINE m == [x EXCEPT !.of = new]
      <3>1. m \in moved /\ ~m.cancelled /\ m.at = x.at /\ m.start = x.start
        BY <1>3, <1>4, <1>7, <2>2
      <3> HIDE DEF m
      <3>2. [y EXCEPT !.of = new] = [of |-> new, at |-> m.at, start |-> m.start]
        BY <2>2, <3>1
      <3> QED
        BY <3>1, <3>2 DEF Lists
    <2> QED
      BY <1>7, <2>1, <2>2 DEF Lists
  <1>8. \A e : e \in Entries(new, after, moved) <=> Lists(new, after, moved, e)
    BY <1>1, <1>5, EntriesAreListed
  <1>9. \A e : e \in Entries(id, row, rows) <=> Lists(id, row, rows, e)
    BY EntriesAreListed
  <1>10. Entries(new, after, moved)
           = {[y EXCEPT !.of = new] : y \in {e \in Entries(id, row, rows) : e.at >= slot}}
    BY <1>6, <1>7, <1>8, <1>9
  <1> QED
    BY <1>10 DEF moved, To

LEMMA ShiftedEntry ==
    ASSUME NEW id \in SeriesIds, NEW at \in Int, NEW start \in Int, NEW by \in Int
    PROVE  AsAsked!Shifted([of |-> id, at |-> at, start |-> start], by)
              = [of |-> id, at |-> at + by, start |-> IF start = at THEN start + by ELSE start]
  BY DEF AsAsked!Shifted

(* A series moves with its exceptions, and there is room for it.           *)
MovedRow(o, by) == [o EXCEPT !.at = @ + by, !.start = IF @ = o.at THEN @ + by ELSE @]
RowsMoved(rows, moved, by) == moved = {MovedRow(o, by) : o \in rows}
DatesMoved(dates, moved, by) == moved = {d + by : d \in dates}
SeriesMoved(row, rows, after, moved, by) ==
    /\ row \in Row /\ after \in Row /\ rows \in SUBSET ChangedRow
    /\ by \in Int /\ Near <= Far + by
    /\ row.rule.every > 0 /\ after.rule = row.rule /\ after.start = row.start + by
    /\ row.rule.until = Endless \/ by = 0
    /\ RowsMoved(rows, moved, by) /\ DatesMoved(row.exdates, after.exdates, by)
EntriesMoved(id, row, rows, after, moved, by) ==
    \A e \in Entry : e.at < Near =>
       (e \in Entries(id, after, moved)
          <=> \E x \in Entries(id, row, rows) : e = AsAsked!Shifted(x, by))

LEMMA ShiftedEntries ==
    ASSUME NEW id \in SeriesIds, NEW row, NEW rows, NEW after, NEW moved, NEW by,
           SeriesMoved(row, rows, after, moved, by)
    PROVE  EntriesMoved(id, row, rows, after, moved, by)
  <1> SUFFICES ASSUME row \in Row, after \in Row, rows \in SUBSET ChangedRow,
                        by \in Int, Near <= Far + by, row.rule.every > 0,
                        after.rule = row.rule, after.start = row.start + by,
                        row.rule.until = Endless \/ by = 0,
                        RowsMoved(rows, moved, by), DatesMoved(row.exdates, after.exdates, by)
                 PROVE  \A e \in Entry : e.at < Near =>
                          (e \in Entries(id, after, moved)
                             <=> \E x \in Entries(id, row, rows) : e = AsAsked!Shifted(x, by))
    BY DEF SeriesMoved, EntriesMoved
  <1>1. \A t \in Int : Regular(after, t + by) <=> Regular(row, t)
    BY ShiftedSlots
  <1>2. \A t \in Int : t < Near => t - by \in Int /\ t - by <= Far /\ t <= Far
    BY SlotsAreInstants
  <1>3. \A t \in Int : t + by \in after.exdates <=> t \in row.exdates
    BY DEF Row, DatesMoved
  <1>4. \A o \in rows : /\ o.at \in Int /\ o.start \in Int /\ MovedRow(o, by) \in ChangedRow
                        /\ MovedRow(o, by).at = o.at + by
                        /\ MovedRow(o, by).start = IF o.start = o.at THEN o.start + by ELSE o.start
                        /\ MovedRow(o, by).cancelled = o.cancelled
    <2> TAKE o \in rows
    <2>1. o \in ChangedRow /\ o.at \in Int /\ o.start \in Int
      BY DEF ChangedRow
    <2>2. o.at + by \in Int /\ (IF o.start = o.at THEN o.start + by ELSE o.start) \in Int
      BY <2>1
    <2> QED
      BY <2>1, <2>2 DEF ChangedRow, MovedRow
  <1>5. \A m : m \in moved <=> \E o \in rows : m = MovedRow(o, by)
    BY DEF RowsMoved
  <1>6. moved \in SUBSET ChangedRow
    BY <1>4, <1>5
  <1>7. ASSUME NEW e \in Entry, e.at < Near, Lists(id, after, moved, e)
        PROVE  \E x : Lists(id, row, rows, x) /\ e = AsAsked!Shifted(x, by)
    <2>1. ASSUME NEW t \in Int, t <= Far, Regular(after, t), t \notin after.exdates,
                 \A o \in moved : o.at # t, e = [of |-> id, at |-> t, start |-> t]
          PROVE  \E x : Lists(id, row, rows, x) /\ e = AsAsked!Shifted(x, by)
      <3> DEFINE u == t - by
                 x == [of |-> id, at |-> u, start |-> u]
      <3>1. u \in Int /\ u <= Far /\ t = u + by
        BY <1>2, <1>7, <2>1
      <3> HIDE DEF u
      <3>2. Regular(row, u) /\ u \notin row.exdates
        BY <1>1, <1>3, <2>1, <3>1
      <3>3. \A o \in rows : o.at # u
        BY <1>4, <1>5, <2>1, <3>1
      <3>4. Lists(id, row, rows, x)
        BY <3>1, <3>2, <3>3 DEF Lists
      <3>5. e = AsAsked!Shifted(x, by)
        BY <2>1, <3>1, ShiftedEntry
      <3> QED
        BY <3>4, <3>5
    <2>2. ASSUME NEW m \in moved, ~m.cancelled, e = [of |-> id, at |-> m.at, start |-> m.start]
          PROVE  \E x : Lists(id, row, rows, x) /\ e = AsAsked!Shifted(x, by)
      <3>1. PICK o \in rows : m = MovedRow(o, by)
        BY <1>5
      <3> DEFINE x == [of |-> id, at |-> o.at, start |-> o.start]
      <3>2. ~o.cancelled
        BY <1>4, <2>2, <3>1
      <3>3. Lists(id, row, rows, x)
        BY <3>2 DEF Lists
      <3>4. e = AsAsked!Shifted(x, by)
        BY <1>4, <2>2, <3>1, ShiftedEntry
      <3> QED
        BY <3>3, <3>4
    <2> QED
      BY <1>7, <2>1, <2>2 DEF Lists
  <1>8. ASSUME NEW e \in Entry, e.at < Near, NEW x, Lists(id, row, rows, x),
               e = AsAsked!Shifted(x, by)
        PROVE  Lists(id, after, moved, e)
    <2>1. ASSUME NEW t \in Int, t <= Far, Regular(row, t), t \notin row.exdates,
                 \A o \in rows : o.at # t, x = [of |-> id, at |-> t, start |-> t]
          PROVE  Lists(id, after, moved, e)
      <3> DEFINE u == t + by
      <3>1. e = [of |-> id, at |-> u, start |-> u] /\ u \in Int
        BY <1>8, <2>1, ShiftedEntry
      <3>2. u <= Far
        BY <1>2, <1>8, <3>1
      <3>3. Regular(after, u) /\ u \notin after.exdates
        BY <1>1, <1>3, <2>1
      <3>4. \A o \in moved : o.at # u
        BY <1>4, <1>5, <2>1
      <3> HIDE DEF u
      <3> QED
        BY <3>1, <3>2, <3>3, <3>4 DEF Lists
    <2>2. ASSUME NEW o \in rows, ~o.cancelled, x = [of |-> id, at |-> o.at, start |-> o.start]
          PROVE  Lists(id, after, moved, e)
      <3> DEFINE m == MovedRow(o, by)
      <3>1. m \in moved /\ ~m.cancelled
        BY <1>4, <1>5, <2>2
      <3>2. e = [of |-> id, at |-> m.at, start |-> m.start]
        BY <1>4, <1>8, <2>2, ShiftedEntry
      <3> HIDE DEF m
      <3> QED
        BY <3>1, <3>2 DEF Lists
    <2> QED
      BY <1>8, <2>1, <2>2 DEF Lists
  <1>9. \A e : e \in Entries(id, after, moved) <=> Lists(id, after, moved, e)
    BY <1>6, EntriesAreListed
  <1>10. \A e : e \in Entries(id, row, rows) <=> Lists(id, row, rows, e)
    BY EntriesAreListed
  <1> QED
    BY <1>7, <1>8, <1>9, <1>10

-----------------------------------------------------------------------------
(***************************************************************************)
(* What is shown, series by series.                                        *)
(***************************************************************************)
ViewIs ==
    /\ \A e \in View : /\ e \in Entry /\ e.of \in SeriesIds /\ e.of \notin torn /\ There(e.of)
                       /\ e \in Entries(e.of, series[e.of], ChangedOf(e.of))
    /\ \A id \in SeriesIds : id \notin torn /\ There(id) =>
          \A e \in Entries(id, series[id], ChangedOf(id)) : e \in View /\ e.of = id

LEMMA ViewIsListed == ShapeInv => ViewIs
  <1> SUFFICES ASSUME ShapeInv PROVE ViewIs
    OBVIOUS
  <1>1. ASSUME NEW e \in View
        PROVE  /\ e \in Entry /\ e.of \in SeriesIds /\ e.of \notin torn /\ There(e.of)
               /\ e \in Entries(e.of, series[e.of], ChangedOf(e.of))
    BY ShownIsThere DEF View, Entry
  <1>2. ASSUME NEW id \in SeriesIds, id \notin torn, There(id),
               NEW e \in Entries(id, series[id], ChangedOf(id))
        PROVE  e \in View /\ e.of = id
    <2>1. series[id] \in Row /\ Proper(series[id]) /\ ChangedOf(id) \in SUBSET ChangedRow
      BY <1>2, ThereIsRow DEF ShapeInv, RowsOK, ChangedOf
    <2>2. e.of = id
      BY <2>1, EntriesHaveShape
    <2> QED
      BY <1>2, <2>2 DEF View, Shown, Expanded
  <1> QED
    BY <1>1, <1>2 DEF ViewIs

LEMMA ViewThen == ShapeInv' => ViewIs'
  BY ViewIsListed, PTL

LEMMA RulesGivenIs ==
    \A id \in SeriesIds :
       RulesGiven[id] = IF There(id) /\ id \notin torn THEN series[id].given ELSE 0
  BY DEF RulesGiven

LEMMA RulesGivenThen ==
    \A id \in SeriesIds :
       RulesGiven'[id] = IF There(id)' /\ id \notin torn' THEN series'[id].given ELSE 0
  BY DEF RulesGiven

(* Series that are neither torn nor written stay as they are.              *)
Untouched(s) == series'[s] = series[s] /\ ChangedOf(s)' = ChangedOf(s)
Tearing == torn \subseteq torn' /\ \A s \in SeriesIds : s \notin torn' => Untouched(s)

LEMMA TearingIsAllowed ==
    ASSUME ShapeInv, ShapeInv', Tearing
    PROVE  AsAsked!Next
  <1>1. ViewIs /\ ViewIs'
    BY ViewIsListed, ViewThen
  <1>2. torn' \in SUBSET SeriesIds /\ torn' = torn \cup torn'
    BY DEF ShapeInv, TornOK, Tearing
  <1>3. \A s \in SeriesIds : s \notin torn' => (There(s)' <=> There(s))
    BY DEF Tearing, Untouched, There
  <1>4. View' = {e \in View : e.of \notin torn'}
    <2>1. ASSUME NEW e \in View' PROVE e \in View /\ e.of \notin torn'
      <3>1. /\ e.of \in SeriesIds /\ e.of \notin torn' /\ There(e.of)'
            /\ e \in Entries(e.of, series'[e.of], ChangedOf(e.of)')
        BY <1>1, <2>1 DEF ViewIs
      <3> QED
        BY <1>1, <1>2, <1>3, <3>1 DEF Tearing, Untouched, ViewIs
    <2>2. ASSUME NEW e \in View, e.of \notin torn' PROVE e \in View'
      <3>1. /\ e.of \in SeriesIds /\ e.of \notin torn /\ There(e.of)
            /\ e \in Entries(e.of, series[e.of], ChangedOf(e.of))
        BY <1>1, <2>2 DEF ViewIs
      <3> QED
        BY <1>1, <1>3, <2>2, <3>1 DEF Tearing, Untouched, ViewIs
    <2> QED
      BY <2>1, <2>2
  <1>5. RulesGiven' = [id \in SeriesIds |-> IF id \in torn' THEN 0 ELSE RulesGiven[id]]
    <2>1. \A id \in SeriesIds : RulesGiven'[id] = IF id \in torn' THEN 0 ELSE RulesGiven[id]
      BY <1>2, <1>3, RulesGivenIs, RulesGivenThen DEF Tearing, Untouched
    <2> QED
      BY <2>1 DEF RulesGiven
  <1>6. AsAsked!Tear(torn')
    BY <1>2, <1>4, <1>5 DEF AsAsked!Tear
  <1> QED
    BY <1>2, <1>6 DEF AsAsked!Next

(* What is shown changes with the series written, where these do not tear. *)
LEMMA ViewAfter ==
    ASSUME ShapeInv, ShapeInv', NEW ids \in SUBSET SeriesIds,
           torn \subseteq torn', torn' \subseteq torn \cup ids,
           \A s \in SeriesIds \ ids : s \notin torn => Untouched(s)
    PROVE  /\ \A e : e \in View' <=>
                 \/ e \in View /\ e.of \notin ids
                 \/ \E id \in ids : /\ id \notin torn' /\ There(id)' /\ e.of = id
                                    /\ e \in Entries(id, series'[id], ChangedOf(id)')
           /\ \A s \in SeriesIds \ ids : RulesGiven'[s] = RulesGiven[s]
  <1>1. ViewIs /\ ViewIs'
    BY ViewIsListed, ViewThen
  <1>2. \A s \in SeriesIds \ ids : s \notin torn => (There(s)' <=> There(s))
    BY DEF Untouched, There
  <1>3. ASSUME NEW e \in View'
        PROVE  \/ e \in View /\ e.of \notin ids
               \/ \E id \in ids : /\ id \notin torn' /\ There(id)' /\ e.of = id
                                  /\ e \in Entries(id, series'[id], ChangedOf(id)')
    <2>1. /\ e.of \in SeriesIds /\ e.of \notin torn' /\ There(e.of)'
          /\ e \in Entries(e.of, series'[e.of], ChangedOf(e.of)')
      BY <1>1, <1>3 DEF ViewIs
    <2>2. CASE e.of \in ids
      BY <2>1, <2>2
    <2>3. CASE e.of \notin ids
      BY <1>1, <1>2, <2>1, <2>3 DEF ViewIs, Untouched
    <2> QED
      BY <2>2, <2>3
  <1>4. ASSUME NEW e \in View, e.of \notin ids PROVE e \in View'
    <2>1. /\ e.of \in SeriesIds /\ e.of \notin torn /\ There(e.of)
          /\ e \in Entries(e.of, series[e.of], ChangedOf(e.of))
      BY <1>1, <1>4 DEF ViewIs
    <2> QED
      BY <1>1, <1>2, <1>4, <2>1 DEF ViewIs, Untouched
  <1>5. ASSUME NEW id \in ids, id \notin torn', There(id)',
               NEW e \in Entries(id, series'[id], ChangedOf(id)')
        PROVE  e \in View'
    BY <1>1, <1>5 DEF ViewIs
  <1>6. \A s \in SeriesIds \ ids : RulesGiven'[s] = RulesGiven[s]
    BY <1>2, RulesGivenIs, RulesGivenThen DEF Untouched
  <1> QED
    BY <1>3, <1>4, <1>5, <1>6

-----------------------------------------------------------------------------
(***************************************************************************)
(* Exceptions stand for occurrences, and requests for what was shown.      *)
(***************************************************************************)
Good(row, rows) ==
    Recurs(row) =>
        /\ \A d \in row.exdates : Regular(row, d)
        /\ \A o \in rows : Regular(row, o.at) /\ o.at \notin row.exdates

Fits(q) ==
    /\ q.entry \in Entries(q.entry.of, q.seen, q.rows)
    /\ Recurs(q.seen) => Regular(q.seen, q.entry.at) /\ q.entry.at \notin q.seen.exdates

SeriesGood ==
    \A id \in SeriesIds : id \notin torn /\ There(id) => Good(series[id], ChangedOf(id))
AskedGood ==
    \A c \in Clients : request[c] # Idle /\ request[c].entry.of \notin torn => Fits(request[c])
SoundInv == SeriesGood /\ AskedGood

(* What each step comes to.                                                *)
AsPromised == SoundInv' /\ (AsAsked!Next \/ UNCHANGED <<View, RulesGiven, torn>>)

LEMMA AnswerKeepsAsked ==
    ASSUME ShapeInv, AskedGood, torn \subseteq torn',
           request' = request \/ \E c \in Clients : request' = [request EXCEPT ![c] = Idle]
    PROVE  AskedGood'
  <1>1. \A c \in Clients : request'[c] # Idle => request'[c] = request[c] /\ request[c] # Idle
    BY DEF ShapeInv, RequestsOK
  <1> QED
    BY <1>1 DEF AskedGood, Fits

LEMMA TearingIsSound ==
    ASSUME ShapeInv, ShapeInv', SoundInv, Tearing,
           request' = request \/ \E c \in Clients : request' = [request EXCEPT ![c] = Idle]
    PROVE  AsPromised
  <1>1. AskedGood'
    BY AnswerKeepsAsked DEF SoundInv, Tearing
  <1>2. SeriesGood'
    BY DEF SeriesGood, SoundInv, Tearing, Untouched, There
  <1> QED
    BY <1>1, <1>2, TearingIsAllowed DEF AsPromised, SoundInv

LEMMA SettledIsGood ==
    ASSUME SeriesGood, torn \subseteq torn', NEW ids \in SUBSET SeriesIds,
           \A s \in SeriesIds \ ids : s \notin torn => Untouched(s),
           \A id \in ids : id \notin torn' /\ There(id)' => Good(series'[id], ChangedOf(id)')
    PROVE  SeriesGood'
  BY DEF SeriesGood, Untouched, There

(* Without overlapping, the rows read are the rows there are.              *)
Current(q) == series[q.entry.of] = q.seen /\ ReadRows(q.scope, q.entry) = q.rows

WritesOnly(rest, ids) == \A s \in SeriesIds \ ids : rest[s] = series[s]
ChangesOnly(rows, ids) == \A s \in SeriesIds \ ids : {o \in rows : o.of = s} = ChangedOf(s)

LEMMA StoreTearsOrSettles ==
    ASSUME ShapeInv, NEW c \in Clients, request[c] # Idle,
           NEW rest, NEW updated, NEW rows, NEW new \in SUBSET SeriesIds,
           NEW left \in SUBSET SeriesIds,
           WritesOnly(rest, {request[c].entry.of} \cup new),
           ChangesOnly(rows, Touched(request[c]) \cup new),
           request[c].entry.of \in left => new = {},
           Store(c, request[c].entry.of, rest, updated, rows, new, left)
    PROVE  /\ request' = [request EXCEPT ![c] = Idle]
           /\ \/ Tearing
              \/ /\ Current(request[c]) /\ request[c].entry.of \notin torn
                 /\ torn' = torn \cup left /\ request[c].entry.of \notin left
                 /\ There(request[c].entry.of) /\ series' = rest /\ changed' = rows
  <1> DEFINE q == request[c]
             id == q.entry.of
  <1>1. request' = [request EXCEPT ![c] = Idle]
    BY DEF Store, Failed, Answered
  <1>2. CASE Failed(c)
    BY <1>1, <1>2 DEF Failed, Tearing, Untouched, ChangedOf
  <1>3. CASE ~Failed(c)
    <2>1. There(id) /\ series' = rest /\ changed' = rows /\ Tear(q, new, left)
      BY <1>3 DEF Store
    <2>2. torn' = torn \cup (IF Overlapped(q) THEN Touched(q) \cup new ELSE {})
                       \cup (IF id \in torn THEN new ELSE {}) \cup left
      BY <2>1 DEF Tear
    <2>3. id \in Touched(q)
      BY DEF Touched
    <2>4. ASSUME NEW s \in SeriesIds, s \notin Touched(q) \cup new PROVE Untouched(s)
      BY <2>1, <2>3, <2>4 DEF Untouched, ChangedOf, WritesOnly, ChangesOnly
    <2>5. CASE Overlapped(q)
      BY <1>1, <2>2, <2>4, <2>5 DEF Tearing
    <2>6. CASE ~Overlapped(q) /\ id \in torn \cup left
      <3>1. q.rows \subseteq ChangedOf(id)
        BY <2>6 DEF Overlapped, ReadRows, ChangedAt
      <3>2. Touched(q) \subseteq {id}
        BY <3>1 DEF Touched, ChangedOf, ShapeInv, RowsOK, Unique
      <3> QED
        BY <1>1, <2>2, <2>4, <2>6, <3>2 DEF Tearing
    <2>7. CASE ~Overlapped(q) /\ id \notin torn \cup left
      BY <1>1, <2>1, <2>2, <2>7 DEF Overlapped, Current
    <2> QED
      BY <2>5, <2>6, <2>7
  <1> QED
    BY <1>2, <1>3

(* Rows that are written or dropped are those of series touched.           *)
LEMMA KeptElsewhere ==
    ASSUME NEW q, NEW rows \in SUBSET q.rows
    PROVE  \A s : s \notin Touched(q) => {o \in Kept(rows) : o.of = s} = ChangedOf(s)
  BY DEF Kept, Touched, ChangedOf

LEMMA UpdatedElsewhere ==
    ASSUME ShapeInv, NEW c \in Clients, request[c] # Idle, NEW rows \in SUBSET request[c].rows,
           NEW after \in [rows -> ChangedRow], NEW new \in SUBSET SeriesIds,
           \A o \in rows : after[o].row = o.row /\ after[o].of \in {o.of} \cup new
    PROVE  ChangesOnly(Updated(after), Touched(request[c]) \cup new)
  <1> DEFINE q == request[c]
  <1>1. /\ rows \in SUBSET ChangedRow /\ Unique(rows)
        /\ \A o \in rows : o.of = q.entry.of
    BY QuestionShape DEF Unique, WellAsked
  <1> SUFFICES ASSUME NEW s \in SeriesIds \ (Touched(q) \cup new)
               PROVE  {o \in Updated(after) : o.of = s} = ChangedOf(s)
    BY DEF ChangesOnly
  <1>2. ASSUME NEW y \in Updated(after), y.of = s PROVE y \in ChangedOf(s)
    <2>1. PICK x \in changed :
             \/ y = x
             \/ \E o \in rows : Same(o, x) /\ y = Written(x, o, after[o])
      BY <1>1, UpdatedRows DEF ShapeInv
    <2>2. ASSUME NEW o \in rows, Same(o, x), y = Written(x, o, after[o]) PROVE FALSE
      <3>1. x \in ChangedRow /\ o \in ChangedRow /\ after[o] \in ChangedRow
            /\ after[o].row = o.row /\ after[o].of \in {o.of} \cup new
        BY <1>1 DEF ShapeInv, RowsOK
      <3>2. y.of \in {x.of, after[o].of}
        BY <2>2, <3>1, WrittenKeepsShape
      <3>3. x.of \in Touched(q) /\ o.of \in Touched(q)
        BY <1>1, <2>2 DEF Touched
      <3> QED
        BY <1>2, <3>1, <3>2, <3>3
    <2> QED
      BY <1>2, <2>1, <2>2 DEF ChangedOf
  <1>3. ASSUME NEW x \in ChangedOf(s) PROVE x \in Updated(after) /\ x.of = s
    <2>1. \A o \in rows : ~Same(o, x)
      BY <1>3 DEF ChangedOf, Touched
    <2> QED
      BY <1>3, <2>1 DEF ChangedOf, Updated, Kept
  <1> QED
    BY <1>2, <1>3 DEF ChangedOf

(* Rows that are still there are replaced.                                 *)
LEMMA KeptIsTheRest ==
    ASSUME RowsOK, NEW rows \in SUBSET changed
    PROVE  Kept(rows) = changed \ rows
  BY DEF Kept, RowsOK, Unique, Same

LEMMA UpdatedIsTheNew ==
    ASSUME RowsOK, NEW rows \in SUBSET changed, NEW after \in [rows -> ChangedRow]
    PROVE  Updated(after) = (changed \ rows) \cup {after[o] : o \in rows}
  <1>1. Kept(DOMAIN after) = changed \ rows
    BY KeptIsTheRest
  <1>2. \A x \in changed, o \in rows : Same(o, x) => x = o
    BY DEF RowsOK, Unique, Same
  <1>3. \A o \in rows : Same(o, o) /\ Written(o, o, after[o]) = after[o]
    BY WrittenIsTheNew DEF RowsOK, Same
  <1> DEFINE written == {Written(p[1], p[2], after[p[2]]) :
                         p \in {p \in changed \X DOMAIN after : Same(p[2], p[1])}}
  <1>4. ASSUME NEW y \in written
        PROVE  \E o \in rows : y = after[o]
    <2>1. PICK p \in changed \X rows : Same(p[2], p[1]) /\ y = Written(p[1], p[2], after[p[2]])
      BY <1>4
    <2>2. p[1] = p[2] /\ p[2] \in rows
      BY <1>2, <2>1
    <2> QED
      BY <1>3, <2>1, <2>2
  <1>5. ASSUME NEW o \in rows
        PROVE  after[o] \in written
    <2> DEFINE p == <<o, o>>
    <2>1. p \in changed \X DOMAIN after /\ p[1] = o /\ p[2] = o
      OBVIOUS
    <2> QED
      BY <1>3, <2>1
  <1>6. Updated(after) = Kept(DOMAIN after) \cup written
    BY DEF Updated
  <1> HIDE DEF written
  <1>7. written = {after[o] : o \in rows}
    BY <1>4, <1>5
  <1> QED
    BY <1>1, <1>6, <1>7

LEMMA SeriesIsGood ==
    ASSUME ShapeInv, SeriesGood, NEW id \in SeriesIds, id \notin torn, There(id)
    PROVE  /\ series[id] \in Row /\ Good(series[id], ChangedOf(id))
           /\ Recurs(series[id]) => series[id].rule.every > 0
           /\ ChangedOf(id) \in SUBSET ChangedRow
           /\ \A o, x \in ChangedOf(id) : o.at = x.at => o = x
           /\ \A o \in ChangedOf(id) : o.of = id
  <1>1. series[id] \in Row /\ Proper(series[id])
    BY ThereIsRow DEF ShapeInv
  <1>2. Good(series[id], ChangedOf(id))
    BY DEF SeriesGood
  <1> QED
    BY <1>1, <1>2 DEF Proper, Recurs, ChangedOf, ShapeInv, RowsOK, Belong, Distinct

LEMMA CreateAsPromised ==
    ASSUME ShapeInv, ShapeInv', SoundInv, Create
    PROVE  AsPromised
  <1>1. PICK t \in Slots, day \in BOOLEAN, rule \in Rules \cup {Once} :
           series' = [series EXCEPT ![NextId] =
                        [start |-> t, day |-> day, rule |-> rule, given |-> 0, exdates |-> {}]]
    BY DEF Create
  <1>17. PICK new \in SeriesIds : new = NextId /\ series[new] = New
    BY NextIdIsNew DEF Create
  <1> DEFINE row == [start |-> t, day |-> day, rule |-> rule, given |-> 0, exdates |-> {}]
  <1>2. new \in SeriesIds /\ series[new] = New
    BY <1>17
  <1>3. new \notin torn /\ ~There(new) /\ ChangedOf(new) = {}
    <2>1. ~There(new)
      BY <1>2 DEF There, New
    <2> QED
      BY <1>2, <2>1 DEF ShapeInv, TornOK, Belong, ChangedOf
  <1>4. UNCHANGED <<changed, made, request, torn>>
    BY DEF Create
  <1>5. row.exdates = {} /\ row.start = t
    OBVIOUS
  <1>6. series'[new] = row /\ \A s \in SeriesIds \ {new} : series'[s] = series[s]
    BY <1>1, <1>17 DEF ShapeInv, SeriesOK
  <1> HIDE DEF row
  <1>7. \A s \in SeriesIds \ {new} : Untouched(s)
    BY <1>4, <1>6 DEF Untouched, ChangedOf
  <1>8. ChangedOf(new)' = {}
    BY <1>3, <1>4 DEF ChangedOf
  <1>9. {new} \in SUBSET SeriesIds
    BY <1>2
  <1>10. /\ \A e : e \in View' <=>
              \/ e \in View /\ e.of \notin {new}
              \/ \E id \in {new} : /\ id \notin torn /\ There(id)' /\ e.of = id
                                   /\ e \in Entries(id, series'[id], ChangedOf(id)')
         /\ \A s \in SeriesIds \ {new} : RulesGiven'[s] = RulesGiven[s]
    BY <1>4, <1>7, <1>9, ViewAfter
  <1>11. \A e \in View : e.of # new
    BY <1>3, ViewIsListed DEF ViewIs
  <1>12. \A e \in Entries(new, row, {}) : e.start = e.at
    BY DEF Entries
  <1>13. \A e : e \in View' => e \in View \/ (e.of = new /\ e \in Entries(new, row, {}))
    BY <1>6, <1>8, <1>10
  <1>14. AsAsked!Create(new)
    BY <1>10, <1>11, <1>12, <1>13 DEF AsAsked!Create, AsAsked!Of, AsAsked!Others
  <1>15. SeriesGood'
    <2>1. Good(row, {})
      BY <1>5 DEF Good
    <2> QED
      BY <1>4, <1>6, <1>7, <1>8, <1>9, <2>1, SettledIsGood DEF SoundInv
  <1>16. AskedGood'
    BY <1>4, AnswerKeepsAsked DEF SoundInv
  <1> QED
    BY <1>2, <1>4, <1>14, <1>15, <1>16 DEF AsPromised, SoundInv, AsAsked!Next, AsAsked!Step

LEMMA AskAsPromised ==
    ASSUME ShapeInv, ShapeInv', SoundInv, NEW c \in Clients, NEW kind, NEW scope,
           Ask(c, kind, scope)
    PROVE  AsPromised
  <1>1. PICK e \in Shown :
           /\ Recurs(series[e.of]) \/ scope = "all"
           /\ request' = [request EXCEPT ![c] =
                            [kind |-> kind, scope |-> scope, entry |-> e,
                             seen |-> series[e.of], rows |-> ReadRows(scope, e)]]
    BY DEF Ask
  <1>2. UNCHANGED <<series, changed, made, torn>>
    BY DEF Ask
  <1> DEFINE q == [kind |-> kind, scope |-> scope, entry |-> e,
                   seen |-> series[e.of], rows |-> ReadRows(scope, e)]
             id == e.of
             row == series[id]
             all == ChangedOf(id)
  <1>3. e \in Entry /\ id \in SeriesIds /\ There(id) /\ e \in Entries(id, row, all)
    BY ShownIsThere DEF Entry
  <1>4. ASSUME id \notin torn
        PROVE  Fits(q)
    <2>1. /\ row \in Row /\ Good(row, all) /\ all \in SUBSET ChangedRow
          /\ Recurs(row) => row.rule.every > 0
      BY <1>3, <1>4, SeriesIsGood DEF SoundInv
    <2>2. CASE ~Recurs(row)
      <3>1. ReadRows(scope, e) \in SUBSET ChangedRow /\ e \in Entries(id, row, ReadRows(scope, e))
        BY <1>3, <2>1, <2>2 DEF ReadRows, ChangedAt, Entries
      <3> QED
        BY <2>2, <3>1 DEF Fits
    <2>3. CASE Recurs(row)
      <3>1. Lists(id, row, all, e)
        BY <1>3, <2>1, <2>3, EntriesAreListed
      <3>2. Regular(row, e.at) /\ e.at \notin row.exdates
        BY <2>1, <2>3, <3>1 DEF Lists, Good
      <3>3. Lists(id, row, ChangedAt(id, e.at), e)
        BY <3>1 DEF Lists, ChangedAt
      <3>4. ChangedAt(id, e.at) \in SUBSET ChangedRow
        BY <2>1 DEF ChangedAt
      <3>5. e \in Entries(id, row, ReadRows(scope, e))
        BY <1>3, <2>1, <2>3, <3>3, <3>4, EntriesAreListed DEF ReadRows
      <3> QED
        BY <3>2, <3>5 DEF Fits
    <2> QED
      BY <2>2, <2>3
  <1>5. q.entry.of = id /\ request' = [request EXCEPT ![c] = q]
    BY <1>1
  <1> HIDE DEF q
  <1>6. \A d \in Clients : request'[d] = IF d = c THEN q ELSE request[d]
    BY <1>5 DEF ShapeInv, RequestsOK
  <1>7. AskedGood'
    BY <1>2, <1>4, <1>5, <1>6 DEF SoundInv, AskedGood, Fits
  <1>8. SeriesGood'
    BY <1>2 DEF SoundInv, SeriesGood, There, ChangedOf
  <1>9. UNCHANGED <<View, RulesGiven, torn>>
    BY <1>2 DEF View, RulesGiven, Shown, Expanded, There, ChangedOf
  <1> QED
    BY <1>7, <1>8, <1>9 DEF AsPromised, SoundInv

(* A series that is dropped takes all its entries along.                   *)
LEMMA DroppedAsPromised ==
    ASSUME ShapeInv, ShapeInv', SoundInv, NEW c \in Clients, NEW id \in SeriesIds,
           Dropped(id), Answered(c)
    PROVE  AsPromised
  <1>1. /\ series' = [series EXCEPT ![id] = Gone] /\ changed' = changed \ ChangedOf(id)
        /\ UNCHANGED <<made, torn>> /\ request' = [request EXCEPT ![c] = Idle]
    BY DEF Dropped, Answered
  <1>2. series'[id] = Gone /\ \A s \in SeriesIds \ {id} : series'[s] = series[s]
    BY <1>1 DEF ShapeInv, SeriesOK
  <1>3. \A s \in SeriesIds \ {id} : Untouched(s)
    BY <1>1, <1>2 DEF Untouched, ChangedOf
  <1>4. CASE id \in torn
    BY <1>1, <1>3, <1>4, TearingIsSound DEF Tearing
  <1>5. CASE id \notin torn
    <2>1. ~There(id)'
      BY <1>2 DEF There, Gone
    <2>2. {id} \in SUBSET SeriesIds
      OBVIOUS
    <2>3. /\ \A e : e \in View' <=>
                \/ e \in View /\ e.of \notin {id}
                \/ \E s \in {id} : /\ s \notin torn /\ There(s)' /\ e.of = s
                                   /\ e \in Entries(s, series'[s], ChangedOf(s)')
          /\ \A s \in SeriesIds \ {id} : RulesGiven'[s] = RulesGiven[s]
      BY <1>1, <1>3, <2>2, ViewAfter
    <2>4. ASSUME NEW e \in View, e.of = id PROVE e.at >= 0
      <3>1. There(id) /\ e \in Entries(id, series[id], ChangedOf(id))
        BY <2>4, ViewIsListed DEF ViewIs
      <3>2. /\ series[id] \in Row /\ Good(series[id], ChangedOf(id))
            /\ Recurs(series[id]) => series[id].rule.every > 0
            /\ ChangedOf(id) \in SUBSET ChangedRow
        BY <1>5, <3>1, SeriesIsGood DEF SoundInv
      <3>3. series[id].start \in Nat
        BY <3>2 DEF Row
      <3>4. CASE ~Recurs(series[id])
        BY <3>1, <3>3, <3>4 DEF Entries
      <3>5. CASE Recurs(series[id])
        <4>1. Lists(id, series[id], ChangedOf(id), e)
          BY <3>1, <3>2, <3>5, EntriesAreListed
        <4>2. Regular(series[id], e.at)
          BY <3>2, <3>5, <4>1 DEF Lists, Good
        <4>3. e.at \in Int /\ e.at >= series[id].start
          BY <3>2, <3>5, <4>2, RegularIsLater
        <4> QED
          BY <3>3, <4>3
      <3> QED
        BY <3>4, <3>5
    <2>5. View' = View \ {e \in {x \in View : x.of = id} : e.at >= 0}
      BY <2>1, <2>3, <2>4
    <2>6. RulesGiven'[id] = 0
      BY <2>1, RulesGivenThen
    <2>7. AsAsked!CancelFollowing(id, 0)
      BY <2>3, <2>5, <2>6 DEF AsAsked!CancelFollowing, AsAsked!From, AsAsked!Of, AsAsked!Others
    <2>8. SeriesGood'
      BY <1>1, <1>3, <2>1, <2>2, SettledIsGood DEF SoundInv
    <2>9. AskedGood'
      BY <1>1, AnswerKeepsAsked DEF SoundInv
    <2>10. 0 \in 0 .. Far
      BY SlotsAreInstants
    <2> QED
      BY <1>1, <2>7, <2>8, <2>9, <2>10 DEF AsPromised, SoundInv, AsAsked!Next, AsAsked!Step
  <1> QED
    BY <1>4, <1>5

(* An occurrence that is shown is changed.                                 *)
LEMMA SlotChanged ==
    ASSUME ShapeInv, ShapeInv', SoundInv, torn' = torn, series' = series,
           NEW id \in SeriesIds, id \notin torn, There(id), Recurs(series[id]),
           NEW n \in ChangedRow, n \in ChangedOf(id)', n.of = id,
           \A s \in SeriesIds \ {id} : ChangedOf(s)' = ChangedOf(s),
           {x \in ChangedOf(id)' : x.at # n.at} = {x \in ChangedOf(id) : x.at # n.at},
           NEW e \in Entries(id, series[id], ChangedOf(id)), e.at = n.at,
           n.start \in 0 .. Far \/ n.start = e.start
    PROVE  AsAsked!Next \/ UNCHANGED <<View, RulesGiven, torn>>
  <1> DEFINE row == series[id]
  <1>1. /\ row \in Row /\ row.rule.every > 0 /\ ChangedOf(id) \in SUBSET ChangedRow
        /\ \A o, x \in ChangedOf(id) : o.at = x.at => o = x
    BY SeriesIsGood DEF SoundInv
  <1>2. ChangedOf(id)' \in SUBSET ChangedRow /\ \A x \in ChangedOf(id)' : x.at = n.at => x = n
    BY DEF ShapeInv, RowsOK, Belong, Distinct, ChangedOf
  <1>3. Entries(id, row, ChangedOf(id)') =
          {x \in Entries(id, row, ChangedOf(id)) : x.at # n.at}
            \cup IF n.cancelled THEN {} ELSE {[of |-> id, at |-> n.at, start |-> n.start]}
    BY <1>1, <1>2, ChangedAtOneSlot
  <1>4. /\ \A x \in Entries(id, row, ChangedOf(id)) : x.at = e.at => x = e
        /\ e \in Entry /\ e.of = id
    BY <1>1, OneEntryForASlot, EntriesAreListed
  <1>5. \A s \in SeriesIds \ {id} : Untouched(s)
    BY DEF Untouched
  <1>6. {id} \in SUBSET SeriesIds
    OBVIOUS
  <1>7. There(id)'
    BY DEF There
  <1>8. /\ \A x : x \in View' <=>
              \/ x \in View /\ x.of \notin {id}
              \/ \E s \in {id} : /\ s \notin torn /\ There(s)' /\ x.of = s
                                 /\ x \in Entries(s, series'[s], ChangedOf(s)')
        /\ \A s \in SeriesIds \ {id} : RulesGiven'[s] = RulesGiven[s]
    BY <1>5, <1>6, ViewAfter
  <1>9. /\ \A x \in View : x.of = id => x \in Entries(id, row, ChangedOf(id))
        /\ \A x \in Entries(id, row, ChangedOf(id)) : x \in View /\ x.of = id
    BY ViewIsListed DEF ViewIs
  <1> DEFINE new == [of |-> id, at |-> n.at, start |-> n.start]
  <1>10. new.of = id
    OBVIOUS
  <1>11. View' = (View \ {e}) \cup IF n.cancelled THEN {} ELSE {new}
    <2>1. \A x : x \in View' <=> \/ x \in View /\ x.of # id
                                 \/ x.of = id /\ x \in Entries(id, row, ChangedOf(id)')
      BY <1>7, <1>8
    <2>2. \A x : x \in Entries(id, row, ChangedOf(id)') <=>
                   \/ x \in Entries(id, row, ChangedOf(id)) /\ x # e
                   \/ ~n.cancelled /\ x = new
      BY <1>3, <1>4
    <2> HIDE DEF new
    <2> QED
      BY <1>9, <1>10, <2>1, <2>2
  <1>12. RulesGiven' = RulesGiven
    <2>1. RulesGiven'[id] = RulesGiven[id]
      BY <1>7, RulesGivenIs, RulesGivenThen
    <2> QED
      BY <1>8, <2>1 DEF RulesGiven
  <1>13. e \in View
    BY <1>9
  <1>14. CASE n.cancelled
    <2>1. AsAsked!CancelOne(e)
      BY <1>11, <1>12, <1>14 DEF AsAsked!CancelOne
    <2> QED
      BY <1>13, <2>1 DEF AsAsked!Next, AsAsked!Step
  <1>15. CASE ~n.cancelled /\ n.start = e.start
    <2>1. new = e
      BY <1>4, <1>15 DEF Entry
    <2>2. View' = View
      BY <1>11, <1>13, <1>15, <2>1
    <2> QED
      BY <1>12, <2>2
  <1>16. CASE ~n.cancelled /\ n.start \in 0 .. Far
    <2>1. new = [e EXCEPT !.start = n.start]
      BY <1>4 DEF Entry
    <2>2. AsAsked!EditOne(e)
      BY <1>11, <1>12, <1>16, <2>1 DEF AsAsked!EditOne
    <2> QED
      BY <1>13, <2>2 DEF AsAsked!Next, AsAsked!Step
  <1> QED
    BY <1>14, <1>15, <1>16

LEMMA EditThisAsPromised ==
    ASSUME ShapeInv, ShapeInv', SoundInv, NEW c \in Clients, EditThis(c)
    PROVE  AsPromised
  <1>1. PICK q : q = request[c]
    OBVIOUS
  <1> DEFINE e == q.entry
             id == e.of
  <1>2. q # Idle /\ q.scope = "this"
    BY <1>1 DEF EditThis, Asked
  <1>3. /\ id \in SeriesIds /\ e.at \in Int /\ WellAsked(q) /\ Recurs(q.seen)
        /\ q.rows \in SUBSET ChangedRow
    BY <1>1, <1>2, QuestionShape DEF WellAsked
  <1>4. series' = series /\ request' = [request EXCEPT ![c] = Idle]
    BY DEF EditThis, Failed, Answered
  <1>5. CASE Failed(c)
    BY <1>4, <1>5, TearingIsSound DEF Failed, Tearing, Untouched, ChangedOf
  <1>6. CASE q.rows = {} /\ ~Failed(c)
    <2>1. /\ Tear(q, {}, {}) /\ There(id) /\ ChangedAt(id, e.at) = {}
          /\ \E t \in Slots, cancelled \in BOOLEAN :
                changed' = changed \cup {[row |-> made + 1, of |-> id, at |-> e.at,
                                          start |-> t, cancelled |-> cancelled]}
      BY <1>1, <1>6 DEF EditThis
    <2>2. PICK n : /\ n.of = id /\ n.at = e.at /\ n.start \in Slots /\ changed' = changed \cup {n}
      BY <2>1
    <2>3. n \in ChangedRow
      BY <2>2 DEF ShapeInv, RowsOK
    <2>4. \A s \in SeriesIds \ {id} : ChangedOf(s)' = ChangedOf(s)
      BY <2>2 DEF ChangedOf
    <2>5. ChangedOf(id)' = ChangedOf(id) \cup {n}
      BY <2>2 DEF ChangedOf
    <2>6. torn' = torn \cup (IF Overlapped(q) THEN Touched(q) ELSE {})
      BY <2>1 DEF Tear
    <2>7. CASE id \in torn'
      BY <1>4, <2>4, <2>6, <2>7, TearingIsSound DEF Tearing, Untouched
    <2>8. CASE id \notin torn'
      <3>1. ~Overlapped(q) /\ torn' = torn /\ id \notin torn
        BY <2>6, <2>8 DEF Touched
      <3>2. series[id] = q.seen /\ Fits(q)
        BY <1>1, <1>2, <3>1 DEF Overlapped, SoundInv, AskedGood
      <3> DEFINE row == series[id]
      <3>3. /\ row \in Row /\ row.rule.every > 0 /\ ChangedOf(id) \in SUBSET ChangedRow
            /\ Good(row, ChangedOf(id))
        BY <1>3, <2>1, <3>1, <3>2, SeriesIsGood DEF SoundInv
      <3>4. Lists(id, row, {}, e)
        BY <1>3, <1>6, <3>2, <3>3, EntriesAreListed DEF Fits
      <3>5. \A o \in ChangedOf(id) : o.at # e.at
        BY <2>1 DEF ChangedAt
      <3>6. Lists(id, row, ChangedOf(id), e)
        <4>1. PICK t \in Int : /\ t <= Far /\ Regular(row, t) /\ t \notin row.exdates
                               /\ e = [of |-> id, at |-> t, start |-> t]
          BY <3>4 DEF Lists
        <4>2. \A o \in ChangedOf(id) : o.at # t
          BY <3>5, <4>1
        <4> QED
          BY <4>1, <4>2 DEF Lists
      <3>7. e \in Entries(id, row, ChangedOf(id))
        BY <1>3, <3>3, <3>6, EntriesAreListed
      <3>8. {x \in ChangedOf(id)' : x.at # n.at} = {x \in ChangedOf(id) : x.at # n.at}
        BY <2>2, <2>5, <3>5
      <3>9. n.start \in 0 .. Far
        BY <2>2, SeriesAssumption
      <3>10. AsAsked!Next \/ UNCHANGED <<View, RulesGiven, torn>>
        BY <1>3, <1>4, <2>1, <2>2, <2>3, <2>4, <2>5, <3>1, <3>2, <3>7, <3>8, <3>9, SlotChanged
      <3>11. Good(series'[id], ChangedOf(id)')
        BY <1>3, <1>4, <2>2, <2>5, <3>2, <3>3 DEF Good, Fits
      <3>12. \A s \in SeriesIds \ {id} : Untouched(s)
        BY <1>4, <2>4 DEF Untouched
      <3>13. {id} \in SUBSET SeriesIds
        BY <1>3
      <3>14. SeriesGood'
        BY <3>1, <3>11, <3>12, <3>13, SettledIsGood DEF SoundInv
      <3>15. AskedGood'
        BY <1>4, <3>1, AnswerKeepsAsked DEF SoundInv
      <3> QED
        BY <3>10, <3>14, <3>15 DEF AsPromised, SoundInv
    <2> QED
      BY <2>7, <2>8
  <1>7. CASE q.rows # {} /\ ~Failed(c)
    <2>1. /\ ~Missing(q.rows) /\ torn' = torn
          /\ \E t \in Slots, cancelled \in BOOLEAN :
                changed' = Updated([o \in q.rows |-> [o EXCEPT !.start = t, !.cancelled = cancelled]])
      BY <1>1, <1>7 DEF EditThis
    <2>2. PICK t \in Slots, cancelled \in BOOLEAN :
             changed' = Updated([o \in q.rows |-> [o EXCEPT !.start = t, !.cancelled = cancelled]])
      BY <2>1
    <2>3. PICK o \in q.rows : q.rows = {o} /\ ~o.cancelled /\ o \in ChangedRow
      BY <1>2, <1>3, <1>7 DEF WellAsked
    <2>4. PICK x \in changed : Same(o, x)
      BY <2>1, <2>3 DEF Missing
    <2> DEFINE a == [o EXCEPT !.start = t, !.cancelled = cancelled]
               n == Written(x, o, a)
               after == [z \in q.rows |-> [z EXCEPT !.start = t, !.cancelled = cancelled]]
    <2>5. x \in ChangedRow /\ a \in ChangedRow /\ a.row = o.row /\ a.of = o.of /\ a.at = o.at
          /\ a.start = t /\ a.cancelled = cancelled /\ t \in 0 .. Far
      <3>1. t \in Int /\ t \in 0 .. Far
        BY SeriesAssumption, SlotsAreInstants
      <3> QED
        BY <2>3, <3>1 DEF ShapeInv, RowsOK, ChangedRow
    <2> HIDE DEF a
    <2>6. /\ n \in ChangedRow /\ n.row = x.row /\ n.of = x.of /\ n.at = x.at
          /\ n.start = x.start \/ n.start \in 0 .. Far
          /\ x.cancelled => n.cancelled
      <3>1. n \in ChangedRow /\ n.row = x.row /\ n.of = x.of /\ n.at = x.at
        BY <2>3, <2>5, WrittenKeepsShape
      <3>2. /\ n.start = IF a.start = o.start THEN x.start ELSE a.start
            /\ n.cancelled = IF a.cancelled = o.cancelled THEN x.cancelled ELSE a.cancelled
        BY <2>3, <2>5, WrittenChanged
      <3>3. x.cancelled => n.cancelled
        BY <2>3, <2>5, <3>2 DEF ChangedRow
      <3> QED
        BY <2>5, <3>1, <3>2, <3>3
    <2>7. changed' = (changed \ {x}) \cup {n}
      <3>1. after \in [q.rows -> ChangedRow] /\ after[o] = a /\ changed' = Updated(after)
        BY <2>2, <2>3, <2>5 DEF a
      <3>2. Unique(changed)
        BY DEF ShapeInv, RowsOK
      <3>3. Kept({o}) = changed \ {x}
        BY <2>4, <3>2 DEF Kept, Unique, Same
      <3>4. \A y \in changed : Same(o, y) => y = x
        BY <2>4, <3>2 DEF Unique, Same
      <3> DEFINE written == {Written(p[1], p[2], after[p[2]]) :
                               p \in {p \in changed \X DOMAIN after : Same(p[2], p[1])}}
      <3>5. changed' = Kept(DOMAIN after) \cup written
        BY <3>1 DEF Updated
      <3>6. DOMAIN after = {o}
        BY <2>3
      <3> HIDE DEF after
      <3>7. \A p \in {p \in changed \X DOMAIN after : Same(p[2], p[1])} : p[1] = x /\ p[2] = o
        BY <3>4, <3>6
      <3>8. <<x, o>> \in {p \in changed \X DOMAIN after : Same(p[2], p[1])}
        BY <2>4, <3>6
      <3>9. written = {n}
        BY <3>1, <3>7, <3>8
      <3> HIDE DEF written
      <3> QED
        BY <3>3, <3>5, <3>6, <3>9
    <2> HIDE DEF n, after
    <2>8. PICK s \in SeriesIds : s = x.of
      BY <2>5 DEF ChangedRow
    <2>9. \A z \in SeriesIds \ {s} : ChangedOf(z)' = ChangedOf(z)
      BY <2>6, <2>7, <2>8 DEF ChangedOf
    <2>10. ChangedOf(s)' = (ChangedOf(s) \ {x}) \cup {n} /\ x \in ChangedOf(s)
      BY <2>6, <2>7, <2>8 DEF ChangedOf
    <2>11. \A z \in SeriesIds \ {s} : Untouched(z)
      BY <1>4, <2>9 DEF Untouched
    <2>12. AskedGood'
      BY <1>4, <2>1, AnswerKeepsAsked DEF SoundInv
    <2>13. CASE s \in torn
      BY <1>4, <2>1, <2>11, <2>13, TearingIsSound DEF Tearing
    <2>14. CASE s \notin torn
      <3> DEFINE row == series[s]
      <3>1. There(s)
        BY <2>8 DEF ShapeInv, Belong
      <3>2. /\ row \in Row /\ (Recurs(row) => row.rule.every > 0)
            /\ Good(row, ChangedOf(s)) /\ ChangedOf(s) \in SUBSET ChangedRow
            /\ \A y, z \in ChangedOf(s) : y.at = z.at => y = z
        BY <2>14, <3>1, SeriesIsGood DEF SoundInv
      <3>3. SeriesGood'
        <4>1. Good(series'[s], ChangedOf(s)')
          BY <1>4, <2>6, <2>10, <3>2 DEF Good
        <4>2. {s} \in SUBSET SeriesIds
          OBVIOUS
        <4> QED
          BY <2>1, <2>11, <4>1, <4>2, SettledIsGood DEF SoundInv
      <3>4. {y \in ChangedOf(s)' : y.at # n.at} = {y \in ChangedOf(s) : y.at # n.at}
        BY <2>6, <2>10, <3>2
      <3>5. CASE Recurs(row) /\ ~x.cancelled
        <4> DEFINE old == [of |-> s, at |-> x.at, start |-> x.start]
        <4>1. Lists(s, row, ChangedOf(s), old)
          BY <2>10, <3>5 DEF Lists
        <4>2. old \in Entries(s, row, ChangedOf(s))
          BY <3>2, <3>5, <4>1, EntriesAreListed
        <4>3. old.at = n.at /\ (n.start = old.start \/ n.start \in 0 .. Far) /\ n.of = s
          BY <2>6, <2>8
        <4> HIDE DEF old
        <4>4. n \in ChangedOf(s)'
          BY <2>10
        <4>5. AsAsked!Next \/ UNCHANGED <<View, RulesGiven, torn>>
          BY <1>4, <2>1, <2>6, <2>9, <2>14, <3>1, <3>4, <3>5, <4>2, <4>3, <4>4, SlotChanged
        <4> QED
          BY <2>12, <3>3, <4>5 DEF AsPromised, SoundInv
      <3>6. CASE ~Recurs(row) \/ x.cancelled
        <4>1. Entries(s, row, ChangedOf(s)') = Entries(s, row, ChangedOf(s))
          <5>1. CASE ~Recurs(row)
            BY <5>1 DEF Entries
          <5>2. CASE Recurs(row) /\ x.cancelled
            <6>1. ChangedOf(s)' \in SUBSET ChangedRow /\ n \in ChangedOf(s)'
                  /\ \A y \in ChangedOf(s)' : y.at = n.at => y = n
              BY <2>10 DEF ShapeInv, RowsOK, Belong, Distinct, ChangedOf
            <6>2. n.cancelled
              BY <2>6, <5>2
            <6>3. Entries(s, row, ChangedOf(s)') =
                    {y \in Entries(s, row, ChangedOf(s)) : y.at # n.at} \cup {}
              BY <3>2, <3>4, <5>2, <6>1, <6>2, ChangedAtOneSlot
            <6>4. ASSUME NEW y \in Entries(s, row, ChangedOf(s)) PROVE y.at # n.at
              <7>1. Lists(s, row, ChangedOf(s), y)
                BY <3>2, <5>2, EntriesAreListed
              <7> QED
                BY <2>6, <2>10, <3>2, <5>2, <7>1 DEF Lists
            <6> QED
              BY <6>3, <6>4
          <5> QED
            BY <3>6, <5>1, <5>2
        <4>2. \A z \in SeriesIds : There(z)' <=> There(z)
          BY <1>4 DEF There
        <4>3. \A z \in SeriesIds : z \notin torn /\ There(z) =>
                 Entries(z, series'[z], ChangedOf(z)') = Entries(z, series[z], ChangedOf(z))
          BY <1>4, <2>9, <4>1
        <4>4. View' = View
          <5>1. ViewIs /\ ViewIs'
            BY ViewIsListed, ViewThen
          <5>2. \A y : y \in View <=> \E z \in SeriesIds :
                   z \notin torn /\ There(z) /\ y.of = z /\ y \in Entries(z, series[z], ChangedOf(z))
            BY <5>1 DEF ViewIs
          <5>3. \A y : y \in View' <=> \E z \in SeriesIds :
                   z \notin torn /\ There(z) /\ y.of = z /\ y \in Entries(z, series'[z], ChangedOf(z)')
            BY <2>1, <4>2, <5>1 DEF ViewIs
          <5> QED
            BY <4>3, <5>2, <5>3
        <4>5. RulesGiven' = RulesGiven
          BY <1>4, <2>1, <4>2 DEF RulesGiven
        <4> QED
          BY <2>1, <2>12, <3>3, <4>4, <4>5 DEF AsPromised, SoundInv
      <3> QED
        BY <3>5, <3>6
    <2> QED
      BY <2>13, <2>14
  <1> QED
    BY <1>5, <1>6, <1>7

(* A request that settles rewrites one series.                             *)
LEMMA SeriesRewritten ==
    ASSUME ShapeInv, ShapeInv', SoundInv, torn' = torn,
           NEW id \in SeriesIds, id \notin torn, There(id), There(id)',
           \A s \in SeriesIds \ {id} : Untouched(s)
    PROVE  /\ \A e : e \in View' <=>
                 \/ e \in View /\ e.of # id
                 \/ e.of = id /\ e \in Entries(id, series'[id], ChangedOf(id)')
           /\ \A e : e \in View /\ e.of = id <=> e \in Entries(id, series[id], ChangedOf(id))
           /\ \A s \in SeriesIds \ {id} : RulesGiven'[s] = RulesGiven[s]
           /\ RulesGiven'[id] = series'[id].given /\ RulesGiven[id] = series[id].given
           /\ Good(series'[id], ChangedOf(id)') => SeriesGood'
  <1>1. {id} \in SUBSET SeriesIds
    OBVIOUS
  <1>2. /\ \A e : e \in View' <=>
              \/ e \in View /\ e.of \notin {id}
              \/ \E s \in {id} : /\ s \notin torn /\ There(s)' /\ e.of = s
                                 /\ e \in Entries(s, series'[s], ChangedOf(s)')
        /\ \A s \in SeriesIds \ {id} : RulesGiven'[s] = RulesGiven[s]
    BY <1>1, ViewAfter
  <1>3. \A e : e \in View /\ e.of = id <=> e \in Entries(id, series[id], ChangedOf(id))
    BY ViewIsListed DEF ViewIs
  <1>4. RulesGiven'[id] = series'[id].given /\ RulesGiven[id] = series[id].given
    BY RulesGivenIs, RulesGivenThen
  <1>5. Good(series'[id], ChangedOf(id)') => SeriesGood'
    BY <1>1, SettledIsGood DEF SoundInv
  <1> QED
    BY <1>2, <1>3, <1>4, <1>5

LEMMA DeleteThisAsPromised ==
    ASSUME ShapeInv, ShapeInv', SoundInv, NEW c \in Clients, DeleteThis(c)
    PROVE  AsPromised
  <1>1. PICK q : q = request[c]
    OBVIOUS
  <1> DEFINE e == q.entry
             id == e.of
             seen == q.seen
             after == [seen EXCEPT !.exdates = @ \cup {e.at}]
             rest == [series EXCEPT ![id] = Written(@, seen, after)]
  <1>2. q # Idle /\ q.scope = "this"
    BY <1>1 DEF DeleteThis, Asked
  <1>3. /\ id \in SeriesIds /\ e.at \in Int /\ WellAsked(q) /\ Recurs(seen) /\ seen \in Row
        /\ seen.rule.every > 0
    BY <1>1, <1>2, QuestionShape DEF WellAsked, Recurs, Proper
  <1>4. Store(c, request[c].entry.of, rest, {}, Kept(q.rows), {}, {})
    BY <1>1 DEF DeleteThis
  <1>5. after \in Row /\ after.rule = seen.rule /\ after.start = seen.start /\ after.given = seen.given
        /\ after.exdates = seen.exdates \cup {e.at}
    BY <1>3 DEF Row
  <1>6. rest[id] = Written(series[id], seen, after)
        /\ \A s \in SeriesIds \ {id} : rest[s] = series[s]
    BY <1>3 DEF ShapeInv, SeriesOK
  <1>7. ChangesOnly(Kept(q.rows), Touched(q) \cup {})
    BY KeptElsewhere DEF ChangesOnly
  <1>8. {} \in SUBSET SeriesIds /\ WritesOnly(rest, {id} \cup {})
    BY <1>6 DEF WritesOnly
  <1> HIDE DEF rest
  <1>9. /\ request' = [request EXCEPT ![c] = Idle]
        /\ \/ Tearing
           \/ /\ Current(q) /\ id \notin torn /\ torn' = torn
              /\ There(id) /\ series' = rest /\ changed' = Kept(q.rows)
    <2>1. /\ request' = [request EXCEPT ![c] = Idle]
          /\ \/ Tearing
             \/ /\ Current(q) /\ id \notin torn /\ torn' = torn \cup {}
                /\ There(id) /\ series' = rest /\ changed' = Kept(q.rows)
      BY <1>1, <1>2, <1>4, <1>7, <1>8, StoreTearsOrSettles
    <2> QED
      BY <2>1
  <1>10. CASE Tearing
    BY <1>9, <1>10, TearingIsSound
  <1>11. CASE ~Tearing
    <2>1. /\ series[id] = seen /\ q.rows = ChangedAt(id, e.at) /\ id \notin torn /\ torn' = torn
          /\ There(id) /\ series' = rest /\ changed' = Kept(q.rows)
      BY <1>2, <1>9, <1>11 DEF Current, ReadRows
    <2>2. series'[id] = after
      BY <1>3, <1>5, <1>6, <2>1, WrittenIsTheNew
    <2>3. changed' = changed \ ChangedAt(id, e.at)
      <3>1. ChangedAt(id, e.at) \in SUBSET changed
        BY DEF ChangedAt, ChangedOf
      <3> QED
        BY <2>1, <3>1, KeptIsTheRest DEF ShapeInv
    <2>4. ChangedOf(id)' = {x \in ChangedOf(id) : x.at # e.at}
      BY <2>3 DEF ChangedOf, ChangedAt
    <2>5. \A s \in SeriesIds \ {id} : Untouched(s)
      BY <1>6, <2>1, <2>3 DEF ChangedOf, ChangedAt, Untouched
    <2>6. There(id)'
      BY <1>5, <2>2, RowIsThere DEF There
    <2>7. Fits(q)
      BY <1>1, <1>2, <2>1 DEF SoundInv, AskedGood
    <2>8. /\ Good(seen, ChangedOf(id)) /\ ChangedOf(id) \in SUBSET ChangedRow
          /\ \A o, x \in ChangedOf(id) : o.at = x.at => o = x
      BY <1>3, <2>1, SeriesIsGood DEF SoundInv
    <2>9. e \in Entries(id, seen, ChangedOf(id))
      <3>1. ChangedAt(id, e.at) \in SUBSET ChangedRow
        BY <2>8 DEF ChangedAt
      <3>2. Lists(id, seen, ChangedAt(id, e.at), e)
        BY <1>3, <2>1, <2>7, <3>1, EntriesAreListed DEF Fits
      <3>3. Lists(id, seen, ChangedOf(id), e)
        <4>1. CASE \E t \in Int : /\ t <= Far /\ Regular(seen, t) /\ t \notin seen.exdates
                                  /\ \A o \in ChangedAt(id, e.at) : o.at # t
                                  /\ e = [of |-> id, at |-> t, start |-> t]
          BY <4>1 DEF Lists, ChangedAt
        <4>2. CASE \E o \in ChangedAt(id, e.at) :
                      ~o.cancelled /\ e = [of |-> id, at |-> o.at, start |-> o.start]
          BY <4>2 DEF Lists, ChangedAt
        <4> QED
          BY <3>2, <4>1, <4>2 DEF Lists
      <3> QED
        BY <1>3, <2>8, <3>3, EntriesAreListed
    <2>10. \A x \in Entries(id, seen, ChangedOf(id)) : x.at = e.at => x = e
      BY <1>3, <2>8, <2>9, OneEntryForASlot
    <2>11. Entries(id, after, ChangedOf(id)') = {x \in Entries(id, seen, ChangedOf(id)) : x.at # e.at}
      BY <1>3, <2>4, <2>8, CancelledSlot
    <2> HIDE DEF after
    <2>12. /\ \A x : x \in View' <=>
                 \/ x \in View /\ x.of # id
                 \/ x.of = id /\ x \in Entries(id, series'[id], ChangedOf(id)')
           /\ \A x : x \in View /\ x.of = id <=> x \in Entries(id, series[id], ChangedOf(id))
           /\ \A s \in SeriesIds \ {id} : RulesGiven'[s] = RulesGiven[s]
           /\ RulesGiven'[id] = series'[id].given /\ RulesGiven[id] = series[id].given
           /\ Good(series'[id], ChangedOf(id)') => SeriesGood'
      BY <1>3, <2>1, <2>5, <2>6, SeriesRewritten
    <2>13. View' = View \ {e}
      BY <2>1, <2>2, <2>9, <2>10, <2>11, <2>12
    <2>14. RulesGiven' = RulesGiven
      BY <1>5, <2>1, <2>2, <2>12 DEF RulesGiven
    <2>15. AsAsked!CancelOne(e) /\ e \in View
      BY <2>1, <2>9, <2>12, <2>13, <2>14 DEF AsAsked!CancelOne
    <2>16. Good(after, ChangedOf(id)')
      <3>1. \A t : Regular(after, t) <=> Regular(seen, t)
        BY <1>5 DEF Regular
      <3> QED
        BY <1>3, <1>5, <2>4, <2>7, <2>8, <3>1 DEF Good, Fits
    <2>17. AskedGood'
      BY <1>9, <2>1, AnswerKeepsAsked DEF SoundInv
    <2> QED
      BY <2>1, <2>2, <2>12, <2>15, <2>16, <2>17 DEF AsPromised, SoundInv, AsAsked!Next, AsAsked!Step
  <1> QED
    BY <1>10, <1>11

LEMMA DeleteFollowingAsPromised ==
    ASSUME ShapeInv, ShapeInv', SoundInv, NEW c \in Clients, DeleteFollowing(c)
    PROVE  AsPromised
  <1>1. PICK q : q = request[c]
    OBVIOUS
  <1> DEFINE e == q.entry
             id == e.of
             slot == e.at
             seen == q.seen
             after == Cut(seen, slot)
             rest == [series EXCEPT ![id] = Written(@, seen, after)]
             kept == Kept(Later(q.rows, slot))
  <1>2. q # Idle /\ q.scope = "following"
    BY <1>1 DEF DeleteFollowing, Asked
  <1>3. /\ id \in SeriesIds /\ slot \in Int /\ WellAsked(q) /\ Recurs(seen) /\ seen \in Row
        /\ seen.rule.every > 0 /\ slot <= Far /\ seen.start \in Nat
    BY <1>1, <1>2, QuestionShape DEF WellAsked, Recurs, Proper, Row
  <1>4. CASE slot <= seen.start
    <2>1. Dropped(id) /\ Answered(c)
      BY <1>1, <1>4 DEF DeleteFollowing
    <2> QED
      BY <1>3, <2>1, DroppedAsPromised
  <1>5. CASE ~(slot <= seen.start) /\ ~MayCut(seen, slot)
    <2>1. Failed(c)
      BY <1>1, <1>5 DEF DeleteFollowing
    <2> QED
      BY <2>1, TearingIsSound DEF Failed, Answered, Tearing, Untouched, ChangedOf
  <1>6. CASE ~(slot <= seen.start) /\ MayCut(seen, slot)
    <2>1. Store(c, request[c].entry.of, rest, {}, kept, {}, {}) /\ slot > seen.start
      BY <1>1, <1>3, <1>6 DEF DeleteFollowing
    <2>2. rest[id] = Written(series[id], seen, after)
          /\ \A s \in SeriesIds \ {id} : rest[s] = series[s]
      BY <1>3 DEF ShapeInv, SeriesOK
    <2>3. ChangesOnly(kept, Touched(q) \cup {})
      <3>1. Later(q.rows, slot) \in SUBSET q.rows
        BY DEF Later
      <3> QED
        BY <3>1, KeptElsewhere DEF ChangesOnly
    <2>4. {} \in SUBSET SeriesIds /\ WritesOnly(rest, {id} \cup {})
      BY <2>2 DEF WritesOnly
    <2> HIDE DEF rest, kept
    <2>5. /\ request' = [request EXCEPT ![c] = Idle]
          /\ \/ Tearing
             \/ /\ Current(q) /\ id \notin torn /\ torn' = torn
                /\ There(id) /\ series' = rest /\ changed' = kept
      <3>1. /\ request' = [request EXCEPT ![c] = Idle]
            /\ \/ Tearing
               \/ /\ Current(q) /\ id \notin torn /\ torn' = torn \cup {}
                  /\ There(id) /\ series' = rest /\ changed' = kept
        BY <1>1, <1>2, <2>1, <2>3, <2>4, StoreTearsOrSettles
      <3> QED
        BY <3>1
    <2>6. CASE Tearing
      BY <2>5, <2>6, TearingIsSound
    <2>7. CASE ~Tearing
      <3>1. /\ series[id] = seen /\ q.rows = ChangedOf(id) /\ id \notin torn /\ torn' = torn
            /\ There(id) /\ series' = rest /\ changed' = kept
        BY <1>2, <2>5, <2>7 DEF Current, ReadRows
      <3>2. after \in Row /\ after.given = seen.given
        BY <1>3, <1>6, <2>1, CutHasShape
      <3>3. series'[id] = after
        BY <1>3, <2>2, <3>1, <3>2, WrittenIsTheNew
      <3>4. kept = changed \ Later(ChangedOf(id), slot)
        <4>1. Later(ChangedOf(id), slot) \in SUBSET changed
          BY DEF Later, ChangedOf
        <4> QED
          BY <3>1, <4>1, KeptIsTheRest DEF ShapeInv, kept
      <3>5. \A x \in ChangedOf(id) : x.at \in Int
        BY DEF ChangedOf, ShapeInv, RowsOK, ChangedRow
      <3>6. ChangedOf(id)' = {x \in ChangedOf(id) : x.at < slot}
        BY <1>3, <3>1, <3>4, <3>5 DEF ChangedOf, Later
      <3>7. \A s \in SeriesIds \ {id} : Untouched(s)
        BY <2>2, <3>1, <3>4 DEF ChangedOf, Later, Untouched
      <3>8. There(id)'
        BY <3>2, <3>3, RowIsThere DEF There
      <3>9. Fits(q)
        BY <1>1, <1>2, <3>1 DEF SoundInv, AskedGood
      <3>10. /\ Good(seen, ChangedOf(id)) /\ ChangedOf(id) \in SUBSET ChangedRow
        BY <1>3, <3>1, SeriesIsGood DEF SoundInv
      <3>11. Regular(seen, slot)
        BY <1>3, <3>9 DEF Fits
      <3>12. Entries(id, after, ChangedOf(id)') = {x \in Entries(id, seen, ChangedOf(id)) : x.at < slot}
        BY <1>3, <1>6, <2>1, <3>6, <3>10, <3>11, CutEntries
      <3>13. /\ \A x : x \in View' <=>
                   \/ x \in View /\ x.of # id
                   \/ x.of = id /\ x \in Entries(id, series'[id], ChangedOf(id)')
             /\ \A x : x \in View /\ x.of = id <=> x \in Entries(id, series[id], ChangedOf(id))
             /\ \A s \in SeriesIds \ {id} : RulesGiven'[s] = RulesGiven[s]
             /\ RulesGiven'[id] = series'[id].given /\ RulesGiven[id] = series[id].given
             /\ Good(series'[id], ChangedOf(id)') => SeriesGood'
        BY <1>3, <3>1, <3>7, <3>8, SeriesRewritten
      <3>14. \A x \in Entries(id, seen, ChangedOf(id)) : x.at \in Int
        BY <1>3, <3>10, EntriesAreListed DEF Entry
      <3>15. View' = View \ {x \in {y \in View : y.of = id} : x.at >= slot}
        BY <1>3, <3>1, <3>3, <3>12, <3>13, <3>14
      <3>16. AsAsked!CancelFollowing(id, slot)
        BY <3>1, <3>2, <3>3, <3>13, <3>15
        DEF AsAsked!CancelFollowing, AsAsked!From, AsAsked!Of, AsAsked!Others
      <3>17. Good(after, ChangedOf(id)')
        <4>1. \A t \in Int : Regular(after, t) <=> Regular(seen, t) /\ t < slot
          BY <1>3, <1>6, <2>1, <3>11, CutAndRest
        <4>2. after.exdates = {d \in seen.exdates : d < slot} /\ seen.exdates \subseteq Int
          BY <1>3 DEF Cut, Row
        <4> QED
          BY <1>3, <3>5, <3>6, <3>10, <4>1, <4>2 DEF Good
      <3>18. AskedGood'
        BY <2>5, <3>1, AnswerKeepsAsked DEF SoundInv
      <3>19. slot \in 0 .. Far
        BY <1>3, <2>1, SlotsAreInstants
      <3> QED
        BY <1>3, <3>1, <3>3, <3>13, <3>16, <3>17, <3>18, <3>19
        DEF AsPromised, SoundInv, AsAsked!Next, AsAsked!Step
    <2> QED
      BY <2>6, <2>7
  <1> QED
    BY <1>4, <1>5, <1>6

(* Instants that a request may shift by.                                   *)
LEMMA SlotOfRequest ==
    ASSUME NEW q, WellAsked(q), Fits(q)
    PROVE  /\ q.entry.at \in 0 .. Near
           /\ ~Recurs(q.seen) => q.entry.at = q.seen.start
           /\ \A t \in Slots : t - q.entry.at \in {u - slot : u \in Slots, slot \in 0 .. Near}
  <1>1. /\ q.seen \in Row /\ Proper(q.seen) /\ q.entry.at \in Int /\ q.entry.at < Near
        /\ q.seen.start \in Nat /\ Near \in Nat
    BY SlotsAreInstants DEF WellAsked, Request, Entry, Row
  <1>2. ~Recurs(q.seen) => q.entry.at = q.seen.start
    BY DEF Fits, Entries
  <1>3. Recurs(q.seen) => q.entry.at >= q.seen.start
    BY <1>1, RegularIsLater DEF Fits, Proper, Recurs
  <1>4. q.entry.at \in 0 .. Near
    BY <1>1, <1>2, <1>3
  <1> QED
    BY <1>2, <1>4

LEMMA ShiftAsPromised ==
    ASSUME ShapeInv, ShapeInv', SoundInv, NEW c \in Clients, request[c] # Idle,
           request[c].scope # "this", NEW body \in Bodies(request[c].seen), Shift(c, body)
    PROVE  AsPromised
  <1>1. PICK q : q = request[c]
    OBVIOUS
  <1> DEFINE id == q.entry.of
             slot == q.entry.at
             seen == q.seen
             rows == q.rows
             follows == Recurs(seen) /\ body.rule # Once /\ body.day = seen.day
             by == IF follows THEN body.start - slot ELSE 0
             start == IF follows THEN seen.start + by ELSE body.start
             exdates == {d + by : d \in seen.exdates}
             after == [seen EXCEPT !.start = start, !.day = body.day, !.rule = body.rule,
                                   !.given = Given(seen, body.rule), !.exdates = exdates]
             moved == [o \in rows |->
                         [o EXCEPT !.at = @ + by, !.start = IF @ = o.at THEN @ + by ELSE @]]
             rest == [series EXCEPT ![id] = Written(@, seen, after)]
             s == body.start - slot
             left == IF LeavesBehind(seen, rows, slot, body) THEN {id} ELSE {}
  <1>2. /\ id \in SeriesIds /\ slot \in Int /\ WellAsked(q) /\ seen \in Row /\ Proper(seen)
        /\ rows \in SUBSET ChangedRow /\ Unique(rows) /\ q # Idle /\ q.scope # "this"
        /\ \A o \in rows : o.of = id
    BY <1>1, QuestionShape DEF WellAsked
  <1>3. /\ body.start \in Slots /\ body.start \in Nat /\ body.day \in BOOLEAN
        /\ body.rule \in Rule /\ (body.rule = Once \/ body.rule.every > 0)
    BY <1>1, <1>2, BodyShape
  <1>4. Store(c, request[c].entry.of, rest, IF by = 0 THEN {} ELSE rows, Updated(moved), {}, left)
    BY <1>1 DEF Shift
  <1>5. start >= 0
    BY <1>1 DEF Shift
  <1>6. by \in Int /\ start \in Nat
    <2>1. seen.start \in Int
      BY <1>2 DEF Row
    <2>2. by \in Int
      BY <1>2, <1>3
    <2>3. start \in Int
      BY <1>3, <2>1, <2>2
    <2>4. start >= 0
      BY <1>5
    <2> HIDE DEF by, start
    <2> QED
      BY <2>2, <2>3, <2>4
  <1>7. (follows => by = s /\ start = seen.start + s) /\ (~follows => by = 0 /\ start = body.start)
    OBVIOUS
  <1> HIDE DEF by, start, left
  <1>8. /\ after \in Row /\ after.start = start /\ after.day = body.day /\ after.rule = body.rule
        /\ after.exdates = exdates /\ after.given = Given(seen, body.rule)
    <2>1. exdates \in SUBSET Int
      BY <1>2, <1>6 DEF Row
    <2>2. Given(seen, body.rule) \in Nat
      BY <1>2 DEF Given, Row
    <2> HIDE DEF exdates
    <2> QED
      BY <1>2, <1>3, <1>6, <2>1, <2>2 DEF Row
  <1>9. /\ moved \in [rows -> ChangedRow]
        /\ \A o \in rows : moved[o] = MovedRow(o, by) /\ moved[o].row = o.row /\ moved[o].of = o.of
    <2>1. ASSUME NEW o \in rows
          PROVE  /\ MovedRow(o, by) \in ChangedRow
                 /\ MovedRow(o, by).row = o.row /\ MovedRow(o, by).of = o.of
      <3>1. o \in ChangedRow /\ o.at \in Int /\ o.start \in Int
        BY <1>2 DEF ChangedRow
      <3>2. o.at + by \in Int /\ (IF o.start = o.at THEN o.start + by ELSE o.start) \in Int
        BY <1>6, <3>1
      <3> QED
        BY <3>1, <3>2 DEF ChangedRow, MovedRow
    <2>2. moved = [o \in rows |-> MovedRow(o, by)]
      BY DEF MovedRow
    <2> HIDE DEF moved
    <2> QED
      BY <2>1, <2>2
  <1>10. rest[id] = Written(series[id], seen, after)
         /\ \A z \in SeriesIds \ {id} : rest[z] = series[z]
    BY <1>2 DEF ShapeInv, SeriesOK
  <1> HIDE DEF after, moved, rest
  <1>11. ChangesOnly(Updated(moved), Touched(q) \cup {})
    <2>1. /\ {} \in SUBSET SeriesIds /\ rows \in SUBSET request[c].rows
          /\ \A o \in rows : moved[o].row = o.row /\ moved[o].of \in {o.of} \cup {}
      BY <1>1, <1>9
    <2> QED
      BY <1>1, <1>9, <2>1, UpdatedElsewhere
  <1>12. {} \in SUBSET SeriesIds /\ WritesOnly(rest, {id} \cup {})
    BY <1>10 DEF WritesOnly
  <1>13. /\ request' = [request EXCEPT ![c] = Idle]
         /\ \/ Tearing
            \/ /\ Current(q) /\ id \notin torn /\ torn' = torn \cup left /\ id \notin left
               /\ There(id) /\ series' = rest /\ changed' = Updated(moved)
    <2>1. left \in SUBSET SeriesIds
      BY <1>2 DEF left
    <2> QED
      BY <1>1, <1>2, <1>4, <1>11, <1>12, <2>1, StoreTearsOrSettles
  <1>14. CASE Tearing
    BY <1>13, <1>14, TearingIsSound
  <1>15. CASE ~Tearing
    <2>1. /\ series[id] = seen /\ rows = ChangedOf(id) /\ id \notin torn /\ torn' = torn
          /\ There(id) /\ series' = rest /\ changed' = Updated(moved)
          /\ ~LeavesBehind(seen, rows, slot, body)
      BY <1>2, <1>13, <1>15 DEF Current, ReadRows, left
    <2>2. series'[id] = after
      BY <1>2, <1>8, <1>10, <2>1, WrittenIsTheNew
    <2>3. changed' = (changed \ ChangedOf(id)) \cup {MovedRow(o, by) : o \in rows}
      <3>1. rows \in SUBSET changed
        BY <2>1 DEF ChangedOf
      <3>2. changed' = (changed \ rows) \cup {moved[o] : o \in rows}
        BY <1>9, <2>1, <3>1, UpdatedIsTheNew DEF ShapeInv
      <3> QED
        BY <1>9, <2>1, <3>2
    <2>4. \A o \in rows : MovedRow(o, by).of = id
      BY <1>2, <1>9
    <2>5. ChangedOf(id)' = {MovedRow(o, by) : o \in rows}
      BY <2>3, <2>4 DEF ChangedOf
    <2>6. \A z \in SeriesIds \ {id} : Untouched(z)
      BY <1>10, <2>1, <2>3, <2>4 DEF ChangedOf, Untouched
    <2>7. There(id)'
      BY <1>8, <2>2, RowIsThere DEF There
    <2>8. Fits(q)
      BY <1>1, <1>2, <2>1 DEF SoundInv, AskedGood
    <2>9. Good(seen, rows)
      BY <1>2, <2>1, SeriesIsGood DEF SoundInv
    <2>10. /\ \A x : x \in View' <=>
                 \/ x \in View /\ x.of # id
                 \/ x.of = id /\ x \in Entries(id, series'[id], ChangedOf(id)')
           /\ \A x : x \in View /\ x.of = id <=> x \in Entries(id, series[id], ChangedOf(id))
           /\ \A z \in SeriesIds \ {id} : RulesGiven'[z] = RulesGiven[z]
           /\ RulesGiven'[id] = series'[id].given /\ RulesGiven[id] = series[id].given
           /\ Good(series'[id], ChangedOf(id)') => SeriesGood'
      BY <1>2, <2>1, <2>6, <2>7, SeriesRewritten
    <2>11. AskedGood'
      BY <1>13, <2>1, AnswerKeepsAsked DEF SoundInv
    <2>12. /\ body.rule # seen.rule => Plain(seen, rows)
           /\ body.rule = seen.rule /\ body.day # seen.day =>
                 slot = seen.start /\ Plain(seen, rows)
           /\ body.rule = seen.rule /\ seen.rule.until # Endless => body.start = slot
      BY <2>1 DEF LeavesBehind
    <2>13. Plain(seen, rows) => exdates = {} /\ ChangedOf(id)' = {} /\ rows = {} /\ seen.exdates = {}
      BY <2>5 DEF Plain
    <2>14. CASE body.rule # seen.rule
      <3>1. Good(after, ChangedOf(id)')
        BY <1>8, <2>12, <2>13, <2>14 DEF Good
      <3>2. AsAsked!NewRule(id)
        <4>1. after.given # seen.given
          BY <1>2, <1>8, <2>14 DEF Given, Row
        <4> QED
          BY <2>1, <2>2, <2>10, <4>1 DEF AsAsked!NewRule, AsAsked!Of, AsAsked!Others
      <3> QED
        BY <1>2, <2>1, <2>2, <2>10, <2>11, <3>1, <3>2
        DEF AsPromised, SoundInv, AsAsked!Next, AsAsked!Step
    <2>15. CASE body.rule = seen.rule
      <3>1. s \in Int /\ slot < Near /\ s = body.start - slot
        BY <1>2, <1>3 DEF WellAsked
      <3>2. Recurs(seen) => after.start = seen.start + s
        <4>1. CASE follows
          BY <1>7, <1>8, <4>1
        <4>2. CASE Recurs(seen) /\ ~follows
          <5>1. body.day # seen.day
            BY <2>15, <4>2 DEF Recurs
          <5>2. slot = seen.start /\ after.start = body.start
            BY <1>7, <1>8, <2>12, <2>15, <4>2, <5>1
          <5> QED
            BY <1>2, <1>3, <5>2
        <4> QED
          BY <4>1, <4>2
      <3>3. Recurs(seen) => /\ after.exdates = {d + s : d \in seen.exdates}
                            /\ ChangedOf(id)' = {MovedRow(o, s) : o \in rows}
        <4>1. CASE follows
          BY <1>7, <1>8, <2>5, <4>1
        <4>2. CASE Recurs(seen) /\ ~follows
          <5>1. body.day # seen.day
            BY <2>15, <4>2 DEF Recurs
          <5>2. after.exdates = {} /\ seen.exdates = {} /\ ChangedOf(id)' = {} /\ rows = {}
            BY <1>8, <2>12, <2>13, <5>1
          <5> QED
            BY <5>2
        <4> QED
          BY <4>1, <4>2
      <3>4. seen.rule.until = Endless \/ s = 0
        BY <1>2, <1>3, <2>12, <2>15
      <3> HIDE DEF s, follows, exdates
      <3>5. \A e \in Entry : e.at < Near =>
               (e \in Entries(id, after, ChangedOf(id)')
                  <=> \E x \in Entries(id, seen, rows) : e = AsAsked!Shifted(x, s))
        <4>1. CASE Recurs(seen)
          <5>1. seen.rule.every > 0
            BY <1>2, <4>1 DEF Proper, Recurs
          <5>2. body.start \in Slots /\ after \in Row /\ after.rule = seen.rule
            BY <1>3, <1>8, <2>15
          <5>3. /\ after.start = seen.start + s /\ after.exdates = {d + s : d \in seen.exdates}
                /\ ChangedOf(id)' = {MovedRow(o, s) : o \in rows}
            BY <3>2, <3>3, <4>1
          <5>4. DatesMoved(seen.exdates, after.exdates, s) /\ after.start = seen.start + s
            BY <5>3 DEF DatesMoved
          <5>5. /\ id \in SeriesIds /\ seen \in Row /\ slot \in Int /\ s \in Int
                /\ rows \in SUBSET ChangedRow /\ Near <= Far + s
                /\ seen.rule.until = Endless \/ s = 0
            BY <1>2, <1>3, <3>1, <3>4, SlotsAreInstants
          <5>6. PICK now : now = ChangedOf(id)'
            OBVIOUS
          <5>7. RowsMoved(rows, now, s)
            BY <5>3, <5>6 DEF RowsMoved
          <5>8. SeriesMoved(seen, rows, after, now, s)
            BY <5>1, <5>2, <5>4, <5>5, <5>7 DEF SeriesMoved
          <5>9. EntriesMoved(id, seen, rows, after, now, s)
            BY <5>5, <5>8, ShiftedEntries
          <5> QED
            BY <5>6, <5>9 DEF EntriesMoved
        <4>2. CASE ~Recurs(seen)
          <5> DEFINE x == [of |-> id, at |-> slot, start |-> slot]
                     y == [of |-> id, at |-> body.start, start |-> body.start]
          <5>1. slot = seen.start
            BY <1>2, <2>8, <4>2, SlotOfRequest
          <5>2. Entries(id, seen, rows) = {x}
            BY <4>2, <5>1 DEF Entries
          <5>3. after.start = body.start /\ ~Recurs(after)
            BY <1>7, <1>8, <2>15, <4>2 DEF Recurs, follows
          <5>4. Entries(id, after, ChangedOf(id)') = {y}
            BY <5>3 DEF Entries
          <5>5. AsAsked!Shifted(x, s) = y
            <6>1. AsAsked!Shifted(x, s) = [of |-> id, at |-> slot + s, start |-> slot + s]
              BY <1>2, <3>1, ShiftedEntry
            <6>2. slot + s = body.start
              BY <1>2, <1>3, <3>1
            <6> QED
              BY <6>1, <6>2
          <5> HIDE DEF x, y
          <5> QED
            BY <5>2, <5>4, <5>5
        <4> QED
          BY <4>1, <4>2
      <3>6. Good(after, ChangedOf(id)')
        <4>1. CASE Recurs(seen)
          <5>1. seen.rule.every > 0
            BY <1>2, <4>1 DEF Proper, Recurs
          <5>2. \A t \in Int : Regular(after, t + s) <=> Regular(seen, t)
            BY <1>2, <1>8, <2>15, <3>1, <3>2, <3>4, <4>1, <5>1, ShiftedSlots
          <5>3. seen.exdates \subseteq Int
            BY <1>2 DEF Row
          <5>4. \A d \in after.exdates : Regular(after, d)
            BY <2>9, <3>3, <4>1, <5>2, <5>3 DEF Good
          <5>5. ASSUME NEW m \in ChangedOf(id)'
                PROVE  Regular(after, m.at) /\ m.at \notin after.exdates
            <6>1. PICK o \in rows : m = MovedRow(o, s)
              BY <3>3, <4>1, <5>5
            <6>2. o.at \in Int /\ m.at = o.at + s
              BY <1>2, <3>1, <6>1 DEF MovedRow, ChangedRow
            <6>3. Regular(seen, o.at) /\ o.at \notin seen.exdates
              BY <2>9, <4>1 DEF Good
            <6>4. m.at \notin after.exdates
              BY <3>1, <3>3, <4>1, <5>3, <6>2, <6>3
            <6> QED
              BY <5>2, <6>2, <6>3, <6>4
          <5> QED
            BY <5>4, <5>5 DEF Good
        <4>2. CASE ~Recurs(seen)
          BY <1>8, <2>15, <4>2 DEF Recurs, Good
        <4> QED
          BY <4>1, <4>2
      <3>7. \A x \in Entries(id, seen, rows) :
               AsAsked!Shifted(x, s) \in Entry /\ AsAsked!Shifted(x, s).of = id
        <4> TAKE x \in Entries(id, seen, rows)
        <4>1. x \in Entry /\ x.of = id
          BY <1>2, EntriesHaveShape
        <4>2. x.at \in Int /\ x.start \in Int /\ x.of \in SeriesIds
          BY <4>1 DEF Entry
        <4>3. x.at + s \in Int /\ (IF x.start = x.at THEN x.start + s ELSE x.start) \in Int
          BY <3>1, <4>2
        <4> QED
          BY <4>1, <4>2, <4>3 DEF AsAsked!Shifted, Entry
      <3>8. \A x \in View' : x \in Entry
        BY ViewThen DEF ViewIs
      <3>9. {e \in View' : e.at < Near}
              = {e \in (View \ {x \in View : x.of = id})
                         \cup {AsAsked!Shifted(x, s) : x \in {y \in View : y.of = id}} : e.at < Near}
        <4>1. {y \in View : y.of = id} = Entries(id, seen, rows)
          BY <2>1, <2>10
        <4>2. ASSUME NEW e \in View', e.at < Near
              PROVE  \/ e \in View /\ e.of # id
                     \/ \E x \in Entries(id, seen, rows) : e = AsAsked!Shifted(x, s)
          BY <2>2, <2>10, <3>5, <3>8, <4>2
        <4>3. ASSUME NEW x \in Entries(id, seen, rows), AsAsked!Shifted(x, s).at < Near
              PROVE  AsAsked!Shifted(x, s) \in View'
          BY <2>2, <2>10, <3>5, <3>7, <4>3
        <4>4. ASSUME NEW e \in View, e.of # id PROVE e \in View'
          BY <2>10, <4>4
        <4> QED
          BY <4>1, <4>2, <4>3, <4>4
      <3>10. RulesGiven' = RulesGiven
        <4>1. RulesGiven'[id] = RulesGiven[id]
          BY <1>8, <2>1, <2>2, <2>10, <2>15 DEF Given
        <4> QED
          BY <2>10, <4>1 DEF RulesGiven
      <3>11. AsAsked!EditAll(id, s)
        BY <3>9, <3>10 DEF AsAsked!EditAll, AsAsked!UpTo, AsAsked!Of
      <3>12. s \in {u - t : u \in Slots, t \in 0 .. Near}
        BY <1>2, <1>3, <2>8, <3>1, SlotOfRequest
      <3> QED
        BY <1>2, <2>1, <2>2, <2>10, <2>11, <3>6, <3>11, <3>12
        DEF AsPromised, SoundInv, AsAsked!Next, AsAsked!Step
    <2> QED
      BY <2>14, <2>15
  <1> QED
    BY <1>14, <1>15

LEMMA SplitAsPromised ==
    ASSUME ShapeInv, ShapeInv', SoundInv, NEW c \in Clients, request[c] # Idle,
           request[c].scope = "following", request[c].entry.at > request[c].seen.start,
           MayCut(request[c].seen, request[c].entry.at), Unused # {},
           NEW body \in Bodies(request[c].seen), Split(c, body)
    PROVE  AsPromised
  <1>1. PICK q : q = request[c]
    OBVIOUS
  <1>2. PICK new \in SeriesIds : new = NextId /\ series[new] = New
    BY NextIdIsNew
  <1> DEFINE id == q.entry.of
             slot == q.entry.at
             seen == q.seen
             cut == Cut(seen, slot)
             rest == Rest(seen, slot)
             rule == IF body.rule = seen.rule THEN rest.rule ELSE body.rule
             later == Later(q.rows, slot)
             moved == [o \in later |-> [o EXCEPT !.of = new]]
             second == [rest EXCEPT !.start = body.start, !.day = body.day, !.rule = rule,
                                    !.given = Given(rest, rule)]
             two == [series EXCEPT ![id] = Written(@, seen, cut), ![new] = second]
             s == body.start - slot
             leaves == \/ LeavesBehind(rest, later, slot, [body EXCEPT !.rule = rule])
                       \/ body.start # slot /\ ~Plain(rest, later)
             left == IF leaves THEN {new} ELSE {}
  <1>3. /\ id \in SeriesIds /\ slot \in Int /\ WellAsked(q) /\ seen \in Row /\ Recurs(seen)
        /\ q.rows \in SUBSET ChangedRow /\ Unique(q.rows) /\ q # Idle /\ q.scope = "following"
        /\ seen.rule.every > 0 /\ slot <= Far /\ slot > seen.start /\ MayCut(seen, slot)
        /\ slot < Near /\ series[id] # New
    BY <1>1, QuestionShape DEF WellAsked, Recurs, Proper
  <1>4. /\ body.start \in Slots /\ body.start \in Nat /\ body.day \in BOOLEAN
        /\ body.rule \in Rule /\ (body.rule = Once \/ body.rule.every > 0)
    BY <1>1, <1>3, BodyShape DEF Proper
  <1>5. /\ cut \in Row /\ rest \in Row /\ rest.start = slot
        /\ cut.rule.every = seen.rule.every /\ rest.rule.every = seen.rule.every
        /\ cut.given = seen.given /\ rest.given = seen.given
        /\ cut.exdates = {d \in seen.exdates : d < slot}
        /\ rest.exdates = {d \in seen.exdates : d >= slot}
    <2>1. /\ cut \in Row /\ rest \in Row
          /\ cut.rule.every = seen.rule.every /\ rest.rule.every = seen.rule.every
          /\ cut.given = seen.given /\ rest.given = seen.given
      BY <1>3, CutHasShape
    <2>2. cut.exdates = {d \in seen.exdates : d < slot}
      BY <1>3 DEF Cut, Row
    <2>3. rest.start = slot /\ rest.exdates = {d \in seen.exdates : d >= slot}
      BY <1>3 DEF Rest, Row
    <2> QED
      BY <2>1, <2>2, <2>3
  <1>6. Store(c, request[c].entry.of, two, later, Updated(moved), {new}, left)
    BY <1>1, <1>2 DEF Split
  <1>7. rule \in Rule
    BY <1>4, <1>5 DEF Row
  <1> HIDE DEF cut, rest, rule, leaves
  <1>8. /\ second \in Row /\ second.start = body.start /\ second.day = body.day
        /\ second.rule = rule /\ second.exdates = rest.exdates /\ second.given = Given(rest, rule)
    <2>1. Given(rest, rule) \in Nat
      BY <1>5 DEF Given, Row
    <2> QED
      BY <1>4, <1>5, <1>7, <2>1 DEF Row
  <1>9. /\ later \in SUBSET q.rows /\ later \in SUBSET ChangedRow
        /\ moved \in [later -> ChangedRow]
        /\ \A o \in later : /\ moved[o] = [o EXCEPT !.of = new] /\ [o EXCEPT !.of = new] \in ChangedRow
                            /\ moved[o].row = o.row /\ moved[o].of = new /\ moved[o].at = o.at
    <2>1. later \in SUBSET q.rows /\ later \in SUBSET ChangedRow
      BY <1>3 DEF Later
    <2>2. \A o \in later : [o EXCEPT !.of = new] \in ChangedRow
      BY <2>1 DEF ChangedRow
    <2>3. \A o \in later : moved[o].row = o.row /\ moved[o].of = new /\ moved[o].at = o.at
      BY <2>1 DEF ChangedRow
    <2> QED
      BY <2>1, <2>2, <2>3
  <1>10. id # new
    BY <1>2, <1>3
  <1> HIDE DEF second
  <1>11. /\ two[id] = Written(series[id], seen, cut) /\ two[new] = second
         /\ \A z \in SeriesIds \ {id, new} : two[z] = series[z]
    BY <1>2, <1>3, <1>10 DEF ShapeInv, SeriesOK
  <1> HIDE DEF moved, two
  <1>12. ChangesOnly(Updated(moved), Touched(q) \cup {new})
    <2>1. /\ {new} \in SUBSET SeriesIds /\ later \in SUBSET request[c].rows
          /\ \A o \in later : moved[o].row = o.row /\ moved[o].of \in {o.of} \cup {new}
      BY <1>1, <1>9
    <2> QED
      BY <1>1, <1>9, <2>1, UpdatedElsewhere
  <1>13. {new} \in SUBSET SeriesIds /\ WritesOnly(two, {id} \cup {new})
    BY <1>11 DEF WritesOnly
  <1>14. /\ request' = [request EXCEPT ![c] = Idle]
         /\ \/ Tearing
            \/ /\ Current(q) /\ id \notin torn /\ torn' = torn \cup left
               /\ There(id) /\ series' = two /\ changed' = Updated(moved)
    <2>1. left \in SUBSET SeriesIds /\ id \notin left
      BY <1>2, <1>10
    <2> HIDE DEF left
    <2>2. id \in left => {new} = {}
      BY <2>1
    <2>3. request[c] = q /\ request[c] # Idle
      BY <1>1, <1>3
    <2>4. {new} \in SUBSET SeriesIds /\ WritesOnly(two, {request[c].entry.of} \cup {new})
          /\ ChangesOnly(Updated(moved), Touched(request[c]) \cup {new})
          /\ (request[c].entry.of \in left => {new} = {})
      BY <1>12, <1>13, <2>2, <2>3
    <2>5. /\ request' = [request EXCEPT ![c] = Idle]
          /\ \/ Tearing
             \/ /\ Current(request[c]) /\ request[c].entry.of \notin torn
                /\ torn' = torn \cup left /\ request[c].entry.of \notin left
                /\ There(request[c].entry.of) /\ series' = two /\ changed' = Updated(moved)
      BY <1>6, <2>1, <2>3, <2>4, StoreTearsOrSettles
    <2> QED
      BY <2>3, <2>5
  <1>15. CASE Tearing
    BY <1>14, <1>15, TearingIsSound
  <1>16. CASE ~Tearing
    <2>1. /\ series[id] = seen /\ q.rows = ChangedOf(id) /\ id \notin torn /\ id \notin torn'
          /\ torn' = torn \cup left /\ There(id) /\ series' = two /\ changed' = Updated(moved)
      BY <1>3, <1>10, <1>14, <1>16 DEF Current, ReadRows
    <2>2. series'[id] = cut /\ series'[new] = second
      BY <1>3, <1>5, <1>11, <2>1, WrittenIsTheNew
    <2>3. changed' = (changed \ later) \cup {[o EXCEPT !.of = new] : o \in later}
      <3>1. later \in SUBSET changed
        BY <2>1 DEF ChangedOf, Later
      <3>2. changed' = (changed \ later) \cup {moved[o] : o \in later}
        BY <1>9, <2>1, <3>1, UpdatedIsTheNew DEF ShapeInv
      <3>3. \A x : x \in {moved[o] : o \in later} <=> x \in {[o EXCEPT !.of = new] : o \in later}
        <4>1. \A o \in later : moved[o] = [o EXCEPT !.of = new]
          BY <1>9
        <4> QED
          BY <4>1
      <3> QED
        BY <3>2, <3>3
    <2>4. /\ ~There(new) /\ new \notin torn /\ ChangedOf(new) = {}
      <3>1. ~There(new)
        BY <1>2 DEF There, New
      <3> QED
        BY <1>2, <3>1 DEF ShapeInv, TornOK, Belong, ChangedOf
    <2>5. \A o \in later : [o EXCEPT !.of = new].of = new
      BY <1>9
    <2>6. ChangedOf(new)' = {[o EXCEPT !.of = new] : o \in later}
      BY <2>3, <2>4, <2>5 DEF ChangedOf
    <2>7. \A x \in ChangedOf(id) : x.at \in Int /\ x.of = id
      BY DEF ChangedOf, ShapeInv, RowsOK, ChangedRow
    <2>8. ChangedOf(id)' = {x \in ChangedOf(id) : x.at < slot}
      <3>1. \A x \in changed' : x.of = id <=> x \in changed \ later /\ x.of = id
        BY <1>10, <2>3, <2>5
      <3>2. ChangedOf(id)' = {x \in changed \ later : x.of = id}
        BY <2>3, <3>1 DEF ChangedOf
      <3> QED
        BY <1>3, <2>1, <2>7, <3>2 DEF ChangedOf, Later
    <2>9. \A z \in SeriesIds \ {id, new} : Untouched(z)
      <3> TAKE z \in SeriesIds \ {id, new}
      <3>1. \A x : x \in changed' /\ x.of = z <=> x \in changed /\ x.of = z
        BY <2>1, <2>3, <2>5 DEF Later, ChangedOf
      <3>2. ChangedOf(z)' = ChangedOf(z)
        BY <3>1 DEF ChangedOf
      <3> QED
        BY <1>11, <2>1, <3>2 DEF Untouched
    <2>10. There(id)' /\ There(new)'
      BY <1>5, <1>8, <2>2, RowIsThere DEF There
    <2>11. Fits(q)
      BY <1>1, <1>3, <2>1 DEF SoundInv, AskedGood
    <2>12. Regular(seen, slot)
      BY <1>3, <2>11 DEF Fits
    <2>13. Good(seen, ChangedOf(id)) /\ ChangedOf(id) \in SUBSET ChangedRow
      BY <1>3, <2>1, SeriesIsGood DEF SoundInv
    <2>14. {id, new} \in SUBSET SeriesIds
      BY <1>3
    <2>15. /\ \A x : x \in View' <=>
                  \/ x \in View /\ x.of \notin {id, new}
                  \/ \E z \in {id, new} : /\ z \notin torn' /\ There(z)' /\ x.of = z
                                          /\ x \in Entries(z, series'[z], ChangedOf(z)')
           /\ \A z \in SeriesIds \ {id, new} : RulesGiven'[z] = RulesGiven[z]
      BY <2>1, <2>9, <2>14, ViewAfter
    <2>16. \A x : x \in View' <=>
              \/ x \in View /\ x.of # id
              \/ x.of = id /\ x \in Entries(id, cut, ChangedOf(id)')
              \/ x.of = new /\ ~leaves /\ x \in Entries(new, second, ChangedOf(new)')
      <3>1. \A x \in View : x.of # new
        BY <2>4, ViewIsListed DEF ViewIs
      <3> QED
        BY <2>1, <2>2, <2>4, <2>10, <2>15, <3>1
    <2>17. /\ \A x : x \in View /\ x.of = id <=> x \in Entries(id, seen, ChangedOf(id))
           /\ \A x \in View : x.of # new
           /\ \A x \in View : x \in Entry
      BY <1>3, <2>1, <2>4, ViewIsListed DEF ViewIs
    <2>18. Entries(id, cut, ChangedOf(id)') = {x \in Entries(id, seen, ChangedOf(id)) : x.at < slot}
      <3>1. Entries(id, Cut(seen, slot), {x \in ChangedOf(id) : x.at < slot})
              = {x \in Entries(id, seen, ChangedOf(id)) : x.at < slot}
        BY <1>3, <2>12, <2>13, CutEntries
      <3> QED
        BY <2>8, <3>1 DEF cut
    <2>19. \A x \in Entries(id, seen, ChangedOf(id)) : x.at \in Int /\ x.of = id /\ x \in Entry
      BY <1>3, <2>13, EntriesAreListed DEF Entry
    <2>20. /\ \A z \in SeriesIds \ {new} : RulesGiven'[z] = RulesGiven[z]
           /\ RulesGiven'[new] = IF leaves THEN 0 ELSE Given(rest, rule)
           /\ RulesGiven[new] = 0 /\ RulesGiven[id] = seen.given
      <3>1. /\ RulesGiven'[id] = cut.given /\ RulesGiven[new] = 0
            /\ RulesGiven'[new] = IF leaves THEN 0 ELSE second.given
        BY <1>2, <1>3, <2>1, <2>2, <2>4, <2>10, RulesGivenIs, RulesGivenThen
      <3>2. RulesGiven[id] = seen.given
        BY <1>3, <2>1, RulesGivenIs
      <3> QED
        BY <1>5, <1>8, <2>15, <3>1, <3>2
    <2> DEFINE from == {x \in {y \in View : y.of = id} : x.at >= slot}
               shown == Entries(new, second, ChangedOf(new)')
    <2>21. from = {x \in Entries(id, seen, ChangedOf(id)) : x.at >= slot}
      BY <2>17
    <2>22. \A x : x \in View' <=> (x \in View /\ x \notin from) \/ (x.of = new /\ ~leaves /\ x \in shown)
      <3>1. \A x : x \in Entries(id, cut, ChangedOf(id)')
                     <=> x \in View /\ x.of = id /\ x \notin from
        BY <1>3, <2>17, <2>18, <2>19
      <3> HIDE DEF shown
      <3> QED
        BY <2>16, <3>1 DEF shown
    <2>23. \A x \in shown : x.of = new /\ x \in Entry
      <3>1. Proper(second) /\ ChangedOf(new)' \in SUBSET ChangedRow
        BY <1>4, <1>5, <1>8, <1>9, <1>3, <2>6 DEF Proper, rule
      <3> QED
        BY <1>8, <3>1, EntriesHaveShape
    <2>24. AskedGood'
      BY <1>14, <2>1, AnswerKeepsAsked DEF SoundInv
    <2>25. Good(cut, ChangedOf(id)')
      <3>1. \A t \in Int : Regular(cut, t) <=> Regular(seen, t) /\ t < slot
        BY <1>3, <2>12, CutAndRest DEF cut
      <3>2. seen.exdates \subseteq Int
        BY <1>3 DEF Row
      <3> QED
        BY <1>3, <1>5, <2>7, <2>8, <2>13, <3>1, <3>2 DEF Good
    <2>26. leaves \/ Good(second, ChangedOf(new)') => SeriesGood'
      <3> SUFFICES ASSUME leaves \/ Good(second, ChangedOf(new)') PROVE SeriesGood'
        OBVIOUS
      <3>1. \A z \in {id, new} : z \notin torn' /\ There(z)' => Good(series'[z], ChangedOf(z)')
        BY <2>1, <2>2, <2>25
      <3> QED
        BY <2>1, <2>9, <2>14, <3>1, SettledIsGood DEF SoundInv
    <2>27. ~leaves => /\ rule # rest.rule => Plain(rest, later)
                      /\ rule = rest.rule /\ rest.rule.until # Endless => body.start = slot
                      /\ body.start # slot => Plain(rest, later)
      <3>1. /\ [body EXCEPT !.rule = rule].rule = rule
            /\ [body EXCEPT !.rule = rule].start = body.start
        BY <1>1 DEF Bodies
      <3> QED
        BY <3>1 DEF leaves, LeavesBehind
    <2>28. Plain(rest, later) => later = {} /\ rest.exdates = {} /\ ChangedOf(new)' = {}
                                   /\ second.exdates = {}
      BY <1>8, <2>6 DEF Plain
    <2>29. slot \in 0 .. Far /\ new \in SeriesIds \ {id}
      BY <1>3, <1>10, <2>11, SlotOfRequest, SlotsAreInstants
    <2>30. {x \in View : x.of = new} = {}
      BY <2>17
    <2> HIDE DEF from, shown
    <2>35. ~leaves => torn' = torn
      <3>1. ~leaves => left = {}
        OBVIOUS
      <3> HIDE DEF left
      <3> QED
        BY <2>1, <3>1
    <2>34. CASE leaves
      <3>1. View' = View \ from
        BY <2>22, <2>34
      <3>2. RulesGiven' = RulesGiven /\ torn' = torn \cup {new}
        BY <2>1, <2>20, <2>34 DEF RulesGiven
      <3>3. AsAsked!LoseFollowing(id, slot, new)
        BY <2>30, <3>1, <3>2 DEF AsAsked!LoseFollowing, AsAsked!Of, AsAsked!From, from
      <3> QED
        BY <1>3, <2>24, <2>26, <2>29, <2>34, <3>3 DEF AsPromised, SoundInv, AsAsked!Next
    <2>31. CASE ~leaves /\ rule # rest.rule
      <3>1. Good(second, ChangedOf(new)')
        BY <2>27, <2>28, <2>31 DEF Good
      <3>2. {e \in View' : e.of # new} = View \ from
        BY <2>17, <2>22, <2>31
      <3>3. AsAsked!NewRuleFollowing(id, slot, new)
        <4>1. RulesGiven'[new] # RulesGiven[id]
          BY <1>3, <1>5, <2>20, <2>31 DEF Given, Row
        <4> QED
          BY <2>20, <2>30, <3>2, <4>1
        DEF AsAsked!NewRuleFollowing, AsAsked!Of, AsAsked!From, AsAsked!Others, from
      <3> QED
        BY <1>3, <2>1, <2>24, <2>26, <2>29, <2>31, <2>35, <3>1, <3>3
        DEF AsPromised, SoundInv, AsAsked!Next, AsAsked!Step
    <2>32. CASE ~leaves /\ rule = rest.rule /\ body.start = slot
      <3>1. Good(second, ChangedOf(new)')
        <4>1. \A t \in Int : Regular(rest, t) <=> Regular(seen, t) /\ t >= slot
          BY <1>3, <2>12, CutAndRest DEF rest
        <4>2. \A t \in Int : Regular(second, t) <=> Regular(seen, t) /\ t >= slot
          BY <1>5, <1>8, <2>32, <4>1 DEF Regular
        <4>3. seen.exdates \subseteq Int
          BY <1>3 DEF Row
        <4>4. ASSUME NEW m \in ChangedOf(new)'
              PROVE  Regular(second, m.at) /\ m.at \notin second.exdates
          <5>1. PICK o \in later : m = [o EXCEPT !.of = new]
            BY <2>6
          <5>2. m.at = o.at /\ o \in ChangedOf(id) /\ o.at \in Int /\ o.at >= slot
            BY <1>9, <2>1, <2>7, <5>1 DEF Later
          <5> QED
            BY <1>3, <1>5, <1>8, <2>13, <4>2, <5>2 DEF Good
        <4>5. \A d \in second.exdates : Regular(second, d)
          BY <1>3, <1>5, <1>8, <2>13, <4>2, <4>3 DEF Good
        <4> QED
          BY <4>4, <4>5 DEF Good
      <3>2. shown = {[x EXCEPT !.of = new] : x \in from}
        <4>1. second.start = slot /\ second.rule = Rest(seen, slot).rule
              /\ second.exdates = Rest(seen, slot).exdates
          BY <1>8, <2>32 DEF rest
        <4>2. Entries(new, second, To(Later(ChangedOf(id), slot), new))
                = To({y \in Entries(id, seen, ChangedOf(id)) : y.at >= slot}, new)
          BY <1>3, <1>8, <2>12, <2>13, <4>1, RestEntries
        <4>3. To(Later(ChangedOf(id), slot), new) = ChangedOf(new)'
          BY <2>1, <2>6 DEF To, later
        <4> QED
          BY <2>21, <4>2, <4>3 DEF shown, To
      <3>3. \A x \in Entry : AsAsked!Shifted(x, 0) = x
        <4> TAKE x \in Entry
        <4>1. x = [of |-> x.of, at |-> x.at, start |-> x.start] /\ x.at \in Int /\ x.start \in Int
          BY DEF Entry
        <4> QED
          BY <4>1 DEF AsAsked!Shifted
      <3>4. {AsAsked!Shifted([x EXCEPT !.of = new], 0) : x \in from} = shown
        <4>1. \A x \in from : [x EXCEPT !.of = new] \in Entry
          BY <2>23, <3>2
        <4>2. \A x \in from : AsAsked!Shifted([x EXCEPT !.of = new], 0) = [x EXCEPT !.of = new]
          BY <3>3, <4>1
        <4> QED
          BY <3>2, <4>2
      <3>5. View' = (View \ from) \cup {AsAsked!Shifted([x EXCEPT !.of = new], 0) : x \in from}
        BY <2>22, <2>23, <2>32, <3>4
      <3>6. AsAsked!EditFollowing(id, slot, new, 0)
        BY <1>5, <2>20, <2>30, <2>32, <3>5
        DEF Given, AsAsked!EditFollowing, AsAsked!Of, AsAsked!From, AsAsked!Others, from
      <3> QED
        BY <1>3, <2>1, <2>24, <2>26, <2>29, <2>32, <2>35, <3>1, <3>6
        DEF AsPromised, SoundInv, AsAsked!Next, AsAsked!Step
    <2>33. CASE ~leaves /\ rule = rest.rule /\ body.start # slot
      <3>1. later = {} /\ rest.exdates = {} /\ ChangedOf(new)' = {} /\ second.exdates = {}
            /\ rest.rule.until = Endless
        BY <2>27, <2>28, <2>33
      <3>2. Good(second, ChangedOf(new)')
        BY <3>1 DEF Good
      <3>3. s \in Int /\ s # 0 /\ second.start = rest.start + s /\ second.rule = rest.rule
        BY <1>3, <1>4, <1>5, <1>8, <2>33
      <3>4. s \in {u - t : u \in Slots, t \in 0 .. Near}
        BY <1>3, <1>4, <2>11, SlotOfRequest
      <3>5. s = body.start - slot
        OBVIOUS
      <3> HIDE DEF s
      <3>6. Entries(new, rest, {}) = {[x EXCEPT !.of = new] : x \in from}
        <4>1. rest.rule = Rest(seen, slot).rule /\ rest.exdates = Rest(seen, slot).exdates
          BY DEF rest
        <4>2. Entries(new, rest, To(Later(ChangedOf(id), slot), new))
                = To({y \in Entries(id, seen, ChangedOf(id)) : y.at >= slot}, new)
          BY <1>3, <1>5, <2>12, <2>13, <4>1, RestEntries
        <4>3. To(Later(ChangedOf(id), slot), new) = {}
          BY <2>1, <3>1 DEF To, later
        <4> QED
          BY <2>21, <4>2, <4>3 DEF To
      <3>7. \A e \in Entry : e.at < Near =>
               (e \in shown <=> \E x \in Entries(new, rest, {}) : e = AsAsked!Shifted(x, s))
        <4>1. {} \in SUBSET ChangedRow /\ RowsMoved({}, {}, s)
          BY DEF RowsMoved
        <4>2. DatesMoved(rest.exdates, second.exdates, s)
          BY <3>1 DEF DatesMoved
        <4>3. rest.rule.every > 0
          BY <1>3, <1>5
        <4>4. \A e \in Entry : e.at < Near =>
                 (e \in Entries(new, second, {})
                    <=> \E x \in Entries(new, rest, {}) : e = AsAsked!Shifted(x, s))
          <5>1. Near <= Far + s
            BY <1>3, <1>4, <3>3, <3>5, SlotsAreInstants
          <5>2. SeriesMoved(rest, {}, second, {}, s)
            BY <1>5, <1>8, <3>1, <3>3, <4>1, <4>2, <4>3, <5>1 DEF SeriesMoved
          <5>3. EntriesMoved(new, rest, {}, second, {}, s)
            BY <1>5, <5>2, ShiftedEntries
          <5> QED
            BY <5>3 DEF EntriesMoved
        <4> QED
          BY <3>1, <4>4 DEF shown
      <3>8. \A e \in Entry : e.at < Near =>
               (e \in shown <=> \E x \in from : e = AsAsked!Shifted([x EXCEPT !.of = new], s))
        BY <3>6, <3>7
      <3>9. \A x \in from : AsAsked!Shifted([x EXCEPT !.of = new], s) \in Entry
        <4> TAKE x \in from
        <4>1. x \in Entry
          BY <2>17 DEF from
        <4>2. /\ [x EXCEPT !.of = new].of = new /\ [x EXCEPT !.of = new].at = x.at
              /\ [x EXCEPT !.of = new].start = x.start /\ x.at \in Int /\ x.start \in Int
          BY <4>1 DEF Entry
        <4>3. x.at + s \in Int /\ (IF x.start = x.at THEN x.start + s ELSE x.start) \in Int
          BY <3>3, <4>2
        <4> QED
          BY <4>2, <4>3 DEF AsAsked!Shifted, Entry
      <3>10. \A e \in View' : e \in Entry
        BY ViewThen DEF ViewIs
      <3>11. {e \in View' : e.at < Near}
               = {e \in (View \ from) \cup {AsAsked!Shifted([x EXCEPT !.of = new], s) : x \in from} :
                    e.at < Near}
        <4>1. ASSUME NEW e \in View', e.at < Near
              PROVE  \/ e \in View \ from
                     \/ \E x \in from : e = AsAsked!Shifted([x EXCEPT !.of = new], s)
          BY <2>22, <2>33, <3>8, <3>10, <4>1
        <4>2. ASSUME NEW x \in from, AsAsked!Shifted([x EXCEPT !.of = new], s).at < Near
              PROVE  AsAsked!Shifted([x EXCEPT !.of = new], s) \in View'
          BY <2>22, <2>23, <2>33, <3>8, <3>9, <4>2
        <4>3. View \ from \subseteq View'
          BY <2>22
        <4> QED
          BY <4>1, <4>2, <4>3
      <3>12. AsAsked!EditFollowing(id, slot, new, s)
        BY <1>5, <2>20, <2>30, <2>33, <3>3, <3>11
        DEF Given, AsAsked!EditFollowing, AsAsked!Of, AsAsked!From, AsAsked!Others, AsAsked!UpTo, from
      <3> QED
        BY <1>3, <2>1, <2>24, <2>26, <2>29, <2>33, <2>35, <3>2, <3>4, <3>12
        DEF AsPromised, SoundInv, AsAsked!Next, AsAsked!Step
    <2> QED
      BY <2>31, <2>32, <2>33, <2>34
  <1> QED
    BY <1>15, <1>16

LEMMA FailedAsPromised ==
    ASSUME ShapeInv, ShapeInv', SoundInv, NEW c \in Clients, Failed(c)
    PROVE  AsPromised
  <1>1. Tearing
    BY DEF Failed, Tearing, Untouched, ChangedOf
  <1> QED
    BY <1>1, TearingIsSound DEF Failed, Answered

LEMMA EditFollowingAsPromised ==
    ASSUME ShapeInv, ShapeInv', SoundInv, NEW c \in Clients, EditFollowing(c)
    PROVE  AsPromised
  <1>1. request[c] # Idle /\ request[c].scope = "following"
    BY DEF EditFollowing, Asked
  <1>2. CASE Failed(c)
    BY <1>2, FailedAsPromised
  <1>3. CASE /\ request[c].entry.at > request[c].seen.start
             /\ MayCut(request[c].seen, request[c].entry.at)
             /\ Unused # {} /\ \E body \in Bodies(request[c].seen) : Split(c, body)
    BY <1>1, <1>3, SplitAsPromised
  <1>4. CASE \E body \in Bodies(request[c].seen) : Shift(c, body)
    BY <1>1, <1>4, ShiftAsPromised
  <1> QED
    BY <1>2, <1>3, <1>4 DEF EditFollowing

LEMMA SoundAtFirst ==
    ASSUME Init
    PROVE  SoundInv /\ AsAsked!Init
  <1>1. \A id \in SeriesIds : series[id] = New /\ ~There(id)
    BY DEF Init, There, New
  <1>2. View = {} /\ torn = {}
    BY <1>1 DEF Init, View, Shown, Expanded
  <1>3. RulesGiven = [id \in SeriesIds |-> 0]
    BY <1>1 DEF RulesGiven
  <1>4. SoundInv
    BY <1>1 DEF Init, SoundInv, SeriesGood, AskedGood
  <1> QED
    BY <1>2, <1>3, <1>4 DEF AsAsked!Init

LEMMA StepIsAsPromised ==
    ASSUME ShapeInv, ShapeInv', SoundInv, [Next]_vars
    PROVE  AsPromised
  <1>1. CASE Create
    BY <1>1, CreateAsPromised
  <1>2. CASE \E c \in Clients, kind \in {"edit", "delete"},
                scope \in {"this", "following", "all"} : Ask(c, kind, scope)
    BY <1>2, AskAsPromised
  <1>3. CASE \E c \in Clients : EditThis(c)
    BY <1>3, EditThisAsPromised
  <1>4. CASE \E c \in Clients : EditFollowing(c)
    BY <1>4, EditFollowingAsPromised
  <1>5. CASE \E c \in Clients : EditAll(c)
    <2>1. PICK c \in Clients : EditAll(c)
      BY <1>5
    <2>2. PICK body \in Bodies(request[c].seen) : Shift(c, body)
      BY <2>1 DEF EditAll
    <2>3. request[c] # Idle /\ request[c].scope # "this"
      BY <2>1 DEF EditAll, Asked
    <2> QED
      BY <2>2, <2>3, ShiftAsPromised
  <1>6. CASE \E c \in Clients : DeleteThis(c)
    BY <1>6, DeleteThisAsPromised
  <1>7. CASE \E c \in Clients : DeleteFollowing(c)
    BY <1>7, DeleteFollowingAsPromised
  <1>8. CASE \E c \in Clients : DeleteAll(c)
    <2>1. PICK c \in Clients : DeleteAll(c)
      BY <1>8
    <2>2. request[c] # Idle /\ Dropped(request[c].entry.of) /\ Answered(c)
      BY <2>1 DEF DeleteAll, Asked
    <2>3. request[c].entry.of \in SeriesIds
      BY <2>2, QuestionShape
    <2> QED
      BY <2>2, <2>3, DroppedAsPromised
  <1>9. CASE UNCHANGED vars
    <2>1. Tearing /\ request' = request
      BY <1>9 DEF vars, Tearing, Untouched, ChangedOf
    <2> QED
      BY <2>1, TearingIsSound
  <1> QED
    BY <1>1, <1>2, <1>3, <1>4, <1>5, <1>6, <1>7, <1>8, <1>9 DEF Next

(* A row that stands for regular slots only shows its exceptions in their  *)
(* places.                                                                 *)
LEMMA SoundSeries == ShapeInv /\ SoundInv => ExceptionsStandForOccurrences
  <1> SUFFICES ASSUME ShapeInv, SoundInv, NEW id \in SeriesIds, id \notin torn, There(id),
                      Recurs(series[id])
               PROVE  /\ \A d \in series[id].exdates : d < Near => d \in Occurrences(series[id])
                      /\ \A o \in ChangedOf(id) : o.at < Near =>
                             o.at \in Occurrences(series[id]) \ series[id].exdates
    BY DEF ExceptionsStandForOccurrences
  <1>1. series[id] \in Row /\ series[id].rule.every > 0
    BY ThereIsRow DEF ShapeInv, Proper, Recurs
  <1>2. Occurrences(series[id]) = {t \in Int : t <= Far /\ Regular(series[id], t)}
    BY <1>1, OccurrencesAreRegular
  <1>3. /\ \A d \in series[id].exdates : Regular(series[id], d)
        /\ \A o \in ChangedOf(id) : Regular(series[id], o.at) /\ o.at \notin series[id].exdates
    BY DEF SoundInv, SeriesGood, Good
  <1>4. \A t : Regular(series[id], t) => t \in Int
    BY <1>1, RegularIsLater
  <1>5. Near \in Nat /\ Far \in Nat /\ Near <= Far
    BY SeriesAssumption
  <1>6. \A t \in Int : t < Near => t <= Far
    BY <1>5
  <1> QED
    BY <1>2, <1>3, <1>4, <1>6

-----------------------------------------------------------------------------
(***************************************************************************)
(* The exceptions of a series, and what people see of it, for requests of  *)
(* every kind; the series that are torn are named at the properties.       *)
(***************************************************************************)

(* Whatever is edited and deleted, in whichever order and by however many  *)
(* clients: a slot that was cancelled or changed is one the rule gives, so *)
(* that no changed occurrence is shown beside the regular one and no       *)
(* cancelled one comes back (split_series, truncate_series, _shift_series) *)
(* in a series that neither two overlapping requests have written nor one  *)
(* of those that LeavesBehind and Split name.  Such a request costs other  *)
(* series nothing, nor the earlier part of a series that it splits.        *)
THEOREM ExceptionsKeepTheirPlaces == Spec => []ExceptionsStandForOccurrences
  <1>1. Init => ShapeInv /\ SoundInv
    BY ShapeAtFirst, SoundAtFirst
  <1>2. ShapeInv /\ SoundInv /\ [Next]_vars => (ShapeInv /\ SoundInv)'
    BY ShapeKept, StepIsAsPromised DEF AsPromised
  <1> QED
    BY <1>1, <1>2, SoundSeries, PTL DEF Spec

(* Every request that create_event, update_event and delete_event answer   *)
(* is a step of the agenda: "this", "this and following" and "all" change  *)
(* the occurrences they name, by what was asked, and no other; for any     *)
(* number of series and clients, any rules and any horizon.  A request     *)
(* that LeavesBehind or Split name is one as well, but of the series it    *)
(* leaves behind nothing is promised from then on.                         *)
THEOREM RequestsDoAsAsked == Spec => OnlyAsAsked
  <1>1. Init => ShapeInv /\ SoundInv /\ AsAsked!Init
    BY ShapeAtFirst, SoundAtFirst
  <1>2. ShapeInv /\ SoundInv /\ [Next]_vars =>
           (ShapeInv /\ SoundInv)' /\ [AsAsked!Next]_<<View, RulesGiven, torn>>
    BY ShapeKept, StepIsAsPromised DEF AsPromised
  <1> QED
    BY <1>1, <1>2, PTL DEF Spec, OnlyAsAsked, AsAsked!Spec
=============================================================================
