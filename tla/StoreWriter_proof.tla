-------------------------- MODULE StoreWriter_proof -------------------------
(***************************************************************************)
(* StoreWriter: no row is lost, duplicated or put out of its order by the  *)
(* flush, for any hosts, any number of rows and any number of crashes.     *)
(***************************************************************************)
EXTENDS StoreWriter, SequenceTheorems, WellFoundedInduction, TLAPS

-----------------------------------------------------------------------------
(* Sequences of rows.                                                      *)

Ascending(s) == \A i, j \in DOMAIN s : i < j => s[i] < s[j]
Below(s, t) == \A x \in Range(s), y \in Range(t) : x < y

LEMMA Smallest ==
    ASSUME NEW T \in SUBSET Nat, T # {}
    PROVE  \E d \in T : \A y \in T : d <= y
<1> DEFINE Less == OpToRel(<, Nat)
<1>1. \E d \in T : \A y \in T : ~ (<<y, d>> \in Less)
  <2>1. IsWellFoundedOn(Less, Nat)
    BY NatLessThanWellFounded
  <2> HIDE DEF Less
  <2> QED BY <2>1, WFMin
<1>2. PICK d \in T : \A y \in T : ~ (<<y, d>> \in Less)
  BY <1>1
<1>3. ASSUME NEW y \in T PROVE d <= y
  <2>1. y \in Nat /\ d \in Nat
    OBVIOUS
  <2>2. y < d => <<y, d>> \in Less
    BY <2>1 DEF OpToRel
  <2> HIDE DEF Less
  <2> QED BY <1>2, <2>1, <2>2
<1> QED BY <1>3

LEMMA RangeIs ==
    ASSUME NEW S, NEW s \in Seq(S)
    PROVE  /\ Range(s) = {s[i] : i \in 1..Len(s)} /\ Range(s) \subseteq S
           /\ DOMAIN s = 1..Len(s) /\ Len(s) \in Nat
           /\ s = <<>> <=> Range(s) = {}
<1>1. DOMAIN s = 1..Len(s) /\ Len(s) \in Nat /\ \A i \in 1..Len(s) : s[i] \in S
  OBVIOUS
<1>2. s = <<>> <=> Len(s) = 0
  OBVIOUS
<1>3. Range(s) = {s[i] : i \in 1..Len(s)}
  BY <1>1 DEF Range
<1>4. Range(s) = {} <=> Len(s) = 0
  <2>1. Len(s) # 0 => s[1] \in Range(s)
    BY <1>1, <1>3
  <2>2. Len(s) = 0 => 1..Len(s) = {}
    OBVIOUS
  <2> QED BY <1>3, <2>1, <2>2
<1> QED BY <1>1, <1>2, <1>3, <1>4

LEMMA AppendedIs ==
    ASSUME NEW s \in Seq(Nat), NEW x \in Nat
    PROVE  /\ Range(Append(s, x)) = Range(s) \cup {x}
           /\ Ascending(s) /\ (\A y \in Range(s) : y < x) => Ascending(Append(s, x))
<1> DEFINE t == Append(s, x)
<1>1. /\ t \in Seq(Nat) /\ Len(s) \in Nat /\ Len(t) = Len(s) + 1
      /\ t[Len(s) + 1] = x /\ \A i \in 1..Len(s) : t[i] = s[i]
  OBVIOUS
<1>2. /\ Range(s) = {s[i] : i \in 1..Len(s)} /\ DOMAIN s = 1..Len(s)
      /\ Range(t) = {t[i] : i \in 1..Len(t)} /\ DOMAIN t = 1..Len(t)
  BY <1>1, RangeIs
<1> HIDE DEF t
<1>3. 1..Len(t) = (1..Len(s)) \cup {Len(s) + 1}
  BY <1>1
<1>4. Range(t) = Range(s) \cup {x}
  BY <1>1, <1>2, <1>3
<1>5. ASSUME Ascending(s), \A y \in Range(s) : y < x PROVE Ascending(t)
  <2> SUFFICES ASSUME NEW i \in 1..Len(t), NEW j \in 1..Len(t), i < j
               PROVE  t[i] < t[j]
    BY <1>2 DEF Ascending
  <2>1. i \in 1..Len(s) /\ t[i] = s[i]
    BY <1>1
  <2>2. CASE j = Len(s) + 1
    BY <1>1, <1>2, <1>5, <2>1, <2>2
  <2>3. CASE j # Len(s) + 1
    <3>1. j \in 1..Len(s)
      BY <1>3, <2>3
    <3>2. t[j] = s[j]
      BY <1>1, <3>1
    <3> QED BY <1>2, <1>5, <2>1, <3>1, <3>2 DEF Ascending
  <2> QED BY <2>2, <2>3
<1> QED BY <1>4, <1>5 DEF t

LEMMA JoinedIs ==
    ASSUME NEW s \in Seq(Nat), NEW t \in Seq(Nat)
    PROVE  /\ Range(s \o t) = Range(s) \cup Range(t)
           /\ Ascending(s) /\ Ascending(t) /\ Below(s, t) => Ascending(s \o t)
<1> DEFINE u == s \o t
<1>1. /\ u \in Seq(Nat) /\ Len(s) \in Nat /\ Len(t) \in Nat /\ Len(u) = Len(s) + Len(t)
      /\ \A i \in 1..Len(u) : u[i] = IF i <= Len(s) THEN s[i] ELSE t[i - Len(s)]
  BY ConcatProperties
<1>2. Range(u) = Range(s) \cup Range(t)
  BY RangeConcatenation
<1>3. /\ Range(s) = {s[i] : i \in 1..Len(s)} /\ DOMAIN s = 1..Len(s)
      /\ Range(t) = {t[i] : i \in 1..Len(t)} /\ DOMAIN t = 1..Len(t)
      /\ DOMAIN u = 1..Len(u)
  BY <1>1, RangeIs
<1> HIDE DEF u
<1>4. ASSUME Ascending(s), Ascending(t), Below(s, t),
             NEW i \in 1..Len(u), NEW j \in 1..Len(u), i < j
      PROVE  u[i] < u[j]
  <2>1. CASE j <= Len(s)
    <3>1. i \in 1..Len(s) /\ j \in 1..Len(s)
      BY <1>1, <1>4, <2>1
    <3>2. u[i] = s[i] /\ u[j] = s[j]
      BY <1>1, <1>4, <2>1, <3>1
    <3> QED BY <1>3, <1>4, <3>1, <3>2 DEF Ascending
  <2>2. CASE i > Len(s)
    <3>1. i - Len(s) \in 1..Len(t) /\ j - Len(s) \in 1..Len(t) /\ i - Len(s) < j - Len(s)
      BY <1>1, <1>4, <2>2
    <3>2. ~ (i <= Len(s)) /\ ~ (j <= Len(s))
      BY <1>1, <1>4, <2>2
    <3>3. u[i] = t[i - Len(s)]
      BY <1>1, <3>2
    <3>4. u[j] = t[j - Len(s)]
      BY <1>1, <3>2
    <3> QED BY <1>3, <1>4, <3>1, <3>3, <3>4 DEF Ascending
  <2>3. CASE i <= Len(s) /\ j > Len(s)
    <3>1. i \in 1..Len(s) /\ j - Len(s) \in 1..Len(t)
      BY <1>1, <2>3
    <3>2. u[i] = s[i] /\ u[j] = t[j - Len(s)]
      <4>1. ~ (j <= Len(s))
        BY <1>1, <2>3
      <4> QED BY <1>1, <2>3, <4>1
    <3>3. u[i] \in Range(s) /\ u[j] \in Range(t)
      BY <1>3, <3>1, <3>2
    <3> QED BY <1>4, <3>3 DEF Below
  <2> QED BY <1>1, <2>1, <2>2, <2>3
<1> QED BY <1>2, <1>3, <1>4 DEF Ascending, u

\* An ascending list of rows is no longer than there are rows.
LEMMA AscendingFits ==
    ASSUME NEW s \in Seq(Rows), Ascending(s)
    PROVE  Len(s) <= MaxRows
<1> DEFINE Low == {i \in 1..Len(s) : s[i] < i}
<1>0. /\ Len(s) \in Nat /\ DOMAIN s = 1..Len(s) /\ MaxRows \in Nat
      /\ \A i \in 1..Len(s) : s[i] \in 1..MaxRows
  BY MaxRowsAssumption DEF Rows
<1>1. Low = {}
  <2> SUFFICES ASSUME Low # {} PROVE FALSE
    OBVIOUS
  <2>1. Low \in SUBSET Nat
    OBVIOUS
  <2> HIDE DEF Low
  <2>2. PICK m \in Low : \A y \in Low : m <= y
    BY <2>1, Smallest
  <2> USE DEF Low
  <2>3. m # 1
    BY <1>0, <2>2
  <2>4. m - 1 \in 1..Len(s) /\ ~ (m - 1 \in Low)
    BY <1>0, <2>2, <2>3
  <2>5. s[m - 1] >= m - 1 /\ s[m - 1] < s[m] /\ s[m] < m
    BY <1>0, <2>2, <2>4 DEF Ascending
  <2> QED BY <1>0, <2>2, <2>4, <2>5
<1>2. CASE Len(s) = 0
  BY <1>0, <1>2
<1>3. CASE Len(s) > 0
  <2>1. Len(s) \in 1..Len(s) /\ s[Len(s)] >= Len(s)
    BY <1>0, <1>1, <1>3
  <2> QED BY <1>0, <2>1
<1> QED BY <1>0, <1>2, <1>3

-----------------------------------------------------------------------------
(* The filter: it keeps the rows about the hosts given, in their order.    *)

KeptTo(rows, H, f, i) ==
    IF i = 0 THEN <<>>
    ELSE IF owner[rows[i]] \in H THEN Append(f[i - 1], rows[i])
    ELSE f[i - 1]

LEMMA KeptExists ==
    ASSUME NEW rows, NEW H, NEW n \in Nat
    PROVE  \E f : f = [i \in 0..n |-> KeptTo(rows, H, f, i)]
<1> DEFINE Has(m) == \E f : f = [i \in 0..m |-> KeptTo(rows, H, f, i)]
           Bad == {m \in Nat : ~ Has(m)}
<1>1. Has(0)
  <2> DEFINE g == [i \in 0..0 |-> <<>>]
  <2>1. g = [i \in 0..0 |-> KeptTo(rows, H, g, i)]
    BY DEF KeptTo
  <2> QED BY <2>1
<1>2. ASSUME NEW m \in Nat, m # 0, Has(m - 1) PROVE Has(m)
  <2>1. PICK f : f = [i \in 0..(m - 1) |-> KeptTo(rows, H, f, i)]
    BY <1>2
  <2> DEFINE g == [i \in 0..m |-> IF i = m THEN KeptTo(rows, H, f, m) ELSE f[i]]
  <2>2. ASSUME NEW i \in 0..m PROVE g[i] = KeptTo(rows, H, g, i)
    <3>1. i = 0 \/ (i - 1 \in 0..m /\ i - 1 # m)
      OBVIOUS
    <3>2. i # 0 => g[i - 1] = f[i - 1]
      BY <3>1
    <3>3. KeptTo(rows, H, g, i) = KeptTo(rows, H, f, i)
      <4> HIDE DEF g
      <4> QED BY <3>2 DEF KeptTo
    <3>4. CASE i = m
      <4>1. g[i] = KeptTo(rows, H, f, m)
        BY <3>4
      <4> HIDE DEF g
      <4> QED BY <3>3, <3>4, <4>1
    <3>5. CASE i # m
      <4>1. i \in 0..(m - 1) /\ g[i] = f[i]
        BY <1>2, <3>5
      <4> HIDE DEF g
      <4> QED BY <2>1, <3>3, <4>1
    <3> QED BY <3>4, <3>5
  <2>3. g = [i \in 0..m |-> g[i]]
    OBVIOUS
  <2> HIDE DEF g
  <2>4. g = [i \in 0..m |-> KeptTo(rows, H, g, i)]
    BY <2>2, <2>3
  <2> QED BY <2>4
<1> HIDE DEF Has
<1>3. Bad = {}
  <2> SUFFICES ASSUME Bad # {} PROVE FALSE
    OBVIOUS
  <2>1. Bad \in SUBSET Nat
    OBVIOUS
  <2> HIDE DEF Bad
  <2>2. PICK m \in Bad : \A y \in Bad : m <= y
    BY <2>1, Smallest
  <2> USE DEF Bad
  <2>3. m # 0 /\ m \in Nat
    BY <1>1, <2>2
  <2>4. m - 1 \in Nat /\ ~ (m <= m - 1)
    BY <2>3
  <2>5. Has(m - 1)
    BY <2>2, <2>4
  <2> QED BY <1>2, <2>2, <2>3, <2>5
<1> QED BY <1>3 DEF Has

LEMMA AboutIsKept ==
    ASSUME NEW rows \in Seq(Rows), NEW H
    PROVE  \E f : /\ About(rows, H) = f[Len(rows)]
                  /\ \A i \in 0..Len(rows) : f[i] = KeptTo(rows, H, f, i)
<1> DEFINE kept == CHOOSE f : f = [i \in 0..Len(rows) |->
                        IF i = 0 THEN <<>>
                        ELSE IF owner[rows[i]] \in H THEN Append(f[i - 1], rows[i])
                        ELSE f[i - 1]]
<1>1. About(rows, H) = kept[Len(rows)]
  BY DEF About
<1>2. \E f : f = [i \in 0..Len(rows) |-> KeptTo(rows, H, f, i)]
  <2>1. Len(rows) \in Nat
    OBVIOUS
  <2> QED BY <2>1, KeptExists
<1>3. kept = [i \in 0..Len(rows) |-> KeptTo(rows, H, kept, i)]
  BY <1>2 DEF KeptTo
<1> HIDE DEF kept
<1>4. \A i \in 0..Len(rows) : kept[i] = KeptTo(rows, H, kept, i)
  BY <1>3
<1> QED BY <1>1, <1>4

LEMMA AboutIs ==
    ASSUME NEW rows \in Seq(Rows), NEW H
    PROVE  /\ About(rows, H) \in Seq(Rows)
           /\ Range(About(rows, H)) = {n \in Range(rows) : owner[n] \in H}
           /\ Ascending(rows) => Ascending(About(rows, H))
<1>0. /\ Len(rows) \in Nat /\ DOMAIN rows = 1..Len(rows)
      /\ \A i \in 1..Len(rows) : rows[i] \in Rows
      /\ Range(rows) = {rows[i] : i \in 1..Len(rows)}
  BY RangeIs
<1>1. PICK f : /\ About(rows, H) = f[Len(rows)]
               /\ \A i \in 0..Len(rows) : f[i] = KeptTo(rows, H, f, i)
  BY AboutIsKept
<1> DEFINE Upto(i) == {rows[j] : j \in {l \in 1..i : owner[rows[l]] \in H}}
           Right(i) == /\ f[i] \in Seq(Rows)
                       /\ Range(f[i]) = Upto(i)
                       /\ Ascending(rows) => Ascending(f[i])
           Wrong == {i \in 0..Len(rows) : ~ Right(i)}
<1>2. Right(0)
  <2>1. f[0] = <<>>
    BY <1>0, <1>1 DEF KeptTo
  <2>2. <<>> \in Seq(Rows) /\ Range(<<>>) = {} /\ Ascending(<<>>)
    BY DEF Range, Ascending
  <2>3. Upto(0) = {}
    OBVIOUS
  <2> QED BY <2>1, <2>2, <2>3
<1>3. ASSUME NEW i \in 1..Len(rows), Right(i - 1) PROVE Right(i)
  <2>1. f[i] = KeptTo(rows, H, f, i) /\ i # 0 /\ rows[i] \in Rows /\ rows[i] \in Nat
    BY <1>0, <1>1, MaxRowsAssumption DEF Rows
  <2>2. 1..i = (1..(i - 1)) \cup {i}
    BY <1>0
  <2>3. CASE owner[rows[i]] \notin H
    <3>1. f[i] = f[i - 1]
      BY <2>1, <2>3 DEF KeptTo
    <3>2. Upto(i) = Upto(i - 1)
      BY <2>2, <2>3
    <3> QED BY <1>3, <3>1, <3>2
  <2>4. CASE owner[rows[i]] \in H
    <3>1. f[i] = Append(f[i - 1], rows[i])
      BY <2>1, <2>4 DEF KeptTo
    <3>2. Upto(i) = Upto(i - 1) \cup {rows[i]}
      BY <2>2, <2>4
    <3>3. f[i - 1] \in Seq(Rows) /\ f[i - 1] \in Seq(Nat)
      <4>1. Rows \subseteq Nat
        BY MaxRowsAssumption DEF Rows
      <4> QED BY <1>3, <4>1, SeqMonotonic
    <3>4. Ascending(rows) => \A y \in Upto(i - 1) : y < rows[i]
      BY <1>0 DEF Ascending
    <3>5. /\ Range(f[i]) = Range(f[i - 1]) \cup {rows[i]}
          /\ Ascending(f[i - 1]) /\ (\A y \in Range(f[i - 1]) : y < rows[i]) => Ascending(f[i])
      BY <2>1, <3>1, <3>3, AppendedIs
    <3>6. f[i] \in Seq(Rows)
      BY <2>1, <3>1, <3>3
    <3> QED BY <1>3, <3>2, <3>4, <3>5, <3>6
  <2> QED BY <2>3, <2>4
<1> HIDE DEF Right
<1>4. Wrong = {}
  <2> SUFFICES ASSUME Wrong # {} PROVE FALSE
    OBVIOUS
  <2>1. Wrong \in SUBSET Nat
    BY <1>0
  <2> HIDE DEF Wrong
  <2>2. PICK i \in Wrong : \A y \in Wrong : i <= y
    BY <2>1, Smallest
  <2> USE DEF Wrong
  <2>3. i # 0 /\ i \in 0..Len(rows)
    BY <1>2, <2>2
  <2>4. i \in 1..Len(rows) /\ i - 1 \in 0..Len(rows) /\ ~ (i <= i - 1)
    BY <1>0, <2>3
  <2>5. Right(i - 1)
    BY <2>2, <2>4
  <2> QED BY <1>3, <2>2, <2>4, <2>5
<1>5. Right(Len(rows))
  BY <1>0, <1>4
<1>6. Upto(Len(rows)) = {n \in Range(rows) : owner[n] \in H}
  BY <1>0
<1> QED BY <1>1, <1>5, <1>6 DEF Right

-----------------------------------------------------------------------------
(* Type correctness, with what the phases of a flush and of close() mean.  *)

PhaseInv ==
    /\ phase = "closed" <=> pc = "done"
    /\ flusher = "close" => phase # "open"
    /\ pc \in {"waiting", "done"} => batch = Nothing
    /\ pc \in {"insert", "fallback"} => batch # Nothing
    /\ pc \in {"insert", "fallback"} /\ flusher = "close" => buf = Nothing

Base == TypeOK /\ PhaseInv

LEMMA NothingIs == Nothing \in [Kinds -> Seq(Rows)] /\ In(Nothing) = {}
<1>1. Nothing \in [Kinds -> Seq(Rows)]
  BY DEF Nothing
<1>2. Range(<<>>) = {}
  BY DEF Range
<1> QED BY <1>1, <1>2 DEF In, Nothing

LEMMA RowsAreNat == Rows \subseteq Nat /\ Rows = 1..MaxRows /\ MaxRows \in Nat
BY MaxRowsAssumption DEF Rows

LEMMA DoomTyped ==
    ASSUME TypeOK, NEW S, NEW why \in {"none", "skipped", "dropped", "cascaded", "lost"}
    PROVE  Doom(S, why) \in [Rows -> {"none", "skipped", "dropped", "cascaded", "lost"}]
BY DEF Doom, TypeOK

LEMMA JoinedTyped ==
    ASSUME NEW a \in [Kinds -> Seq(Rows)], NEW b \in [Kinds -> Seq(Rows)]
    PROVE  [k \in Kinds |-> a[k] \o b[k]] \in [Kinds -> Seq(Rows)]
<1>1. \A k \in Kinds : a[k] \o b[k] \in Seq(Rows)
  OBVIOUS
<1> QED BY <1>1

LEMMA FlushReturnsTyped ==
    ASSUME Base, FlushReturns, pc # "done"
    PROVE  /\ pc' \in {"waiting", "done"} /\ flusher' \in {"writer", "close"}
           /\ phase' \in {"open", "closing", "closed"}
           /\ phase' = "closed" <=> pc' = "done"
           /\ flusher' = "close" => phase' # "open"
BY DEF Base, TypeOK, PhaseInv, FlushReturns

LEMMA BaseStep ==
    ASSUME Base, [Next]_vars
    PROVE  Base'
<1> USE DEF Base
<1>0. /\ buf \in [Kinds -> Seq(Rows)] /\ batch \in [Kinds -> Seq(Rows)]
      /\ db \in [Kinds -> Seq(Rows)]
  BY DEF TypeOK
<1>1. ASSUME NEW h \in Hosts, NEW k \in Kinds, Enqueue(h, k) PROVE Base'
  <2>1. next \in Rows /\ next' \in 1..(MaxRows + 1)
    BY <1>1, RowsAreNat DEF Enqueue, TypeOK
  <2>2. owner' \in Seq(Hosts) /\ Len(owner') = next' - 1
    BY <1>1 DEF Enqueue, TypeOK
  <2>3. Append(buf[k], next) \in Seq(Rows)
    BY <1>0, <2>1
  <2>4. buf' \in [Kinds -> Seq(Rows)]
    BY <1>0, <1>1, <2>3 DEF Enqueue
  <2>5. TypeOK'
    BY <1>0, <1>1, <2>1, <2>2, <2>4 DEF Enqueue, TypeOK
  <2>6. PhaseInv'
    BY <1>1 DEF Enqueue, PhaseInv
  <2> QED BY <2>5, <2>6
<1>2. CASE FlushTakes
  <2>1. TypeOK'
    BY <1>0, <1>2, NothingIs, FlushReturnsTyped DEF FlushTakes, TypeOK
  <2>2. PhaseInv'
    BY <1>2, FlushReturnsTyped DEF FlushTakes, PhaseInv
  <2> QED BY <2>1, <2>2
<1>3. CASE InsertCommits
  <2>1. db' \in [Kinds -> Seq(Rows)]
    BY <1>0, <1>3, JoinedTyped DEF InsertCommits
  <2>2. TypeOK'
    BY <1>0, <1>3, <2>1, NothingIs, FlushReturnsTyped DEF InsertCommits, Committed, TypeOK
  <2>3. PhaseInv'
    BY <1>3, FlushReturnsTyped DEF InsertCommits, Committed, PhaseInv
  <2> QED BY <2>2, <2>3
<1>4. CASE InsertViolates
  <2>1. TypeOK'
    BY <1>0, <1>4 DEF InsertViolates, TypeOK
  <2>2. PhaseInv'
    BY <1>4 DEF InsertViolates, PhaseInv
  <2> QED BY <2>1, <2>2
<1>5. CASE FallbackCommits
  <2>1. db' \in [Kinds -> Seq(Rows)]
    <3>1. db' = [k \in Kinds |-> db[k] \o About(batch[k], hosts)]
      BY <1>5 DEF FallbackCommits, KeptByFallback
    <3>2. \A k \in Kinds : db[k] \in Seq(Rows) /\ About(batch[k], hosts) \in Seq(Rows)
      BY <1>0, AboutIs
    <3>3. \A k \in Kinds : db[k] \o About(batch[k], hosts) \in Seq(Rows)
      BY <3>2
    <3> QED BY <3>1, <3>3
  <2>2. fate' \in [Rows -> {"none", "skipped", "dropped", "cascaded", "lost"}]
    BY <1>5, DoomTyped DEF FallbackCommits
  <2>3. TypeOK'
    <3>1. /\ pc' \in {"waiting", "done"} /\ flusher' \in {"writer", "close"}
          /\ phase' \in {"open", "closing", "closed"}
      BY <1>5, FlushReturnsTyped DEF FallbackCommits, Committed
    <3>2. batch' = Nothing /\ buf' = buf /\ failures' = 0
      BY <1>5 DEF FallbackCommits, Committed
    <3>3. UNCHANGED <<hosts, next, owner, tries, crashes>>
      BY <1>5 DEF FallbackCommits, Committed
    <3> QED BY <1>0, <2>1, <2>2, <3>1, <3>2, <3>3, NothingIs DEF TypeOK
  <2>4. PhaseInv'
    BY <1>5, FlushReturnsTyped DEF FallbackCommits, Committed, PhaseInv
  <2> QED BY <2>3, <2>4
<1>6. CASE FlushFails
  <2>1. tries' \in [Rows -> 0..TriesSeen]
    BY <1>6 DEF FlushFails, TypeOK, TriesSeen
  <2>2. /\ failures' \in 0..2 /\ buf' \in [Kinds -> Seq(Rows)]
        /\ fate' \in [Rows -> {"none", "skipped", "dropped", "cascaded", "lost"}]
    <3>1. CASE Requeues(Counted)
      <4>1. buf' \in [Kinds -> Seq(Rows)]
        BY <1>0, <1>6, <3>1, JoinedTyped DEF FlushFails, Requeued
      <4>2. failures' \in 0..2
        BY <1>6, <3>1 DEF FlushFails, Requeues, Counted, TypeOK
      <4> QED BY <1>6, <3>1, <4>1, <4>2 DEF FlushFails, TypeOK
    <3>2. CASE ~ Requeues(Counted)
      <4>1. fate' \in [Rows -> {"none", "skipped", "dropped", "cascaded", "lost"}]
        BY <1>6, <3>2, DoomTyped DEF FlushFails
      <4> QED BY <1>0, <1>6, <3>2, <4>1 DEF FlushFails
    <3> QED BY <3>1, <3>2
  <2>3. TypeOK'
    BY <1>0, <1>6, <2>1, <2>2, NothingIs, FlushReturnsTyped DEF FlushFails, TypeOK
  <2>4. PhaseInv'
    BY <1>6, FlushReturnsTyped DEF FlushFails, PhaseInv
  <2> QED BY <2>3, <2>4
<1>7. ASSUME NEW h \in Hosts, DeleteHost(h) PROVE Base'
  <2>1. db' \in [Kinds -> Seq(Rows)]
    <3>1. db' = [k \in Kinds |-> About(db[k], Hosts \ {h})]
      BY <1>7 DEF DeleteHost
    <3>2. \A k \in Kinds : About(db[k], Hosts \ {h}) \in Seq(Rows)
      BY <1>0, AboutIs
    <3> QED BY <3>1, <3>2
  <2>2. fate' \in [Rows -> {"none", "skipped", "dropped", "cascaded", "lost"}]
    BY <1>7, DoomTyped DEF DeleteHost
  <2>3. TypeOK'
    BY <1>0, <1>7, <2>1, <2>2 DEF DeleteHost, TypeOK
  <2>4. PhaseInv'
    BY <1>7 DEF DeleteHost, PhaseInv
  <2> QED BY <2>3, <2>4
<1>8. CASE Close
  <2>1. TypeOK'
    BY <1>0, <1>8 DEF Close, TypeOK
  <2>2. PhaseInv'
    BY <1>8 DEF Close, PhaseInv
  <2> QED BY <2>1, <2>2
<1>9. CASE ProcessExits
  <2>1. fate' \in [Rows -> {"none", "skipped", "dropped", "cascaded", "lost"}]
    BY <1>9, DoomTyped DEF ProcessExits
  <2>2. TypeOK'
    BY <1>0, <1>9, <2>1, NothingIs DEF ProcessExits, TypeOK
  <2>3. PhaseInv'
    BY <1>9 DEF ProcessExits, PhaseInv
  <2> QED BY <2>2, <2>3
<1>10. CASE Crash
  <2>1. fate' \in [Rows -> {"none", "skipped", "dropped", "cascaded", "lost"}]
    BY <1>10, DoomTyped DEF Crash
  <2>2. crashes' \in 0..MaxCrashes
    BY <1>10, MaxCrashesAssumption DEF Crash, TypeOK
  <2>3. TypeOK'
    <3>1. /\ buf' = Nothing /\ batch' = Nothing /\ failures' = 0
          /\ pc' = "waiting" /\ flusher' = "writer" /\ phase' = "open"
          /\ UNCHANGED <<hosts, next, owner, db, tries>>
      BY <1>10 DEF Crash
    <3> QED BY <1>0, <2>1, <2>2, <3>1, NothingIs DEF TypeOK
  <2>4. PhaseInv'
    BY <1>10 DEF Crash, PhaseInv
  <2> QED BY <2>3, <2>4
<1>11. CASE UNCHANGED vars
  <2>1. TypeOK'
    BY <1>0, <1>11 DEF vars, TypeOK
  <2>2. PhaseInv'
    BY <1>11 DEF vars, PhaseInv, Nothing
  <2> QED BY <2>1, <2>2
<1> QED BY <1>1, <1>2, <1>3, <1>4, <1>5, <1>6, <1>7, <1>8, <1>9, <1>10, <1>11
        DEF Next, FlushStep

LEMMA BaseInit == Init => Base
<1> SUFFICES ASSUME Init PROVE Base
  OBVIOUS
<1>1. TypeOK
  BY NothingIs, RowsAreNat, MaxCrashesAssumption DEF Init, TypeOK, TriesSeen
<1>2. PhaseInv
  BY DEF Init, PhaseInv
<1> QED BY <1>1, <1>2 DEF Base

\* Every variable keeps its type: in particular the lists hold rows only and
\* the count of failures never passes two (store.py:643-662).
THEOREM TypeCorrect == Spec => []TypeOK
<1>1. Spec => []Base
  BY BaseInit, BaseStep, PTL DEF Spec
<1>2. Base => TypeOK
  BY DEF Base
<1> QED BY <1>1, <1>2, PTL

-----------------------------------------------------------------------------
(* The order of the rows of one kind: those stored come before those being *)
(* flushed, those before the ones waiting.                                 *)

InOrder(d, b, u) ==
    /\ Ascending(d) /\ Ascending(b) /\ Ascending(u)
    /\ Below(d, b) /\ Below(d, u) /\ Below(b, u)

LEMMA EmptyInOrder ==
    /\ <<>> \in Seq(Rows) /\ Range(<<>>) = {} /\ Ascending(<<>>)
    /\ \A s : Below(<<>>, s) /\ Below(s, <<>>)
BY DEF Range, Ascending, Below

LEMMA JoinedRows ==
    ASSUME NEW s \in Seq(Rows), NEW t \in Seq(Rows)
    PROVE  /\ Range(s \o t) = Range(s) \cup Range(t)
           /\ Ascending(s) /\ Ascending(t) /\ Below(s, t) => Ascending(s \o t)
<1>1. s \in Seq(Nat) /\ t \in Seq(Nat)
  BY RowsAreNat, SeqMonotonic
<1> QED BY <1>1, JoinedIs

LEMMA OrderMoves ==
    ASSUME NEW d \in Seq(Rows), NEW b \in Seq(Rows), NEW u \in Seq(Rows),
           InOrder(d, b, u)
    PROVE  /\ b = <<>> => InOrder(d, u, <<>>)
           /\ InOrder(d, <<>>, u) /\ InOrder(d, <<>>, <<>>) /\ InOrder(d, b, <<>>)
           /\ InOrder(d \o b, <<>>, u)
           /\ InOrder(d, <<>>, b \o u)
<1>1. InOrder(d, u, <<>>) /\ InOrder(d, <<>>, u) /\ InOrder(d, <<>>, <<>>)
      /\ InOrder(d, b, <<>>)
  BY EmptyInOrder DEF InOrder
<1>2. InOrder(d \o b, <<>>, u)
  <2>1. Range(d \o b) = Range(d) \cup Range(b) /\ Ascending(d \o b)
    BY JoinedRows DEF InOrder
  <2>2. Below(d \o b, u)
    BY <2>1 DEF InOrder, Below
  <2> QED BY <2>1, <2>2, EmptyInOrder DEF InOrder
<1>3. InOrder(d, <<>>, b \o u)
  <2>1. Range(b \o u) = Range(b) \cup Range(u) /\ Ascending(b \o u)
    BY JoinedRows DEF InOrder
  <2>2. Below(d, b \o u)
    BY <2>1 DEF InOrder, Below
  <2> QED BY <2>1, <2>2, EmptyInOrder DEF InOrder
<1> QED BY <1>1, <1>2, <1>3

LEMMA OrderFiltered ==
    ASSUME NEW d \in Seq(Rows), NEW b \in Seq(Rows), NEW u \in Seq(Rows), NEW H,
           InOrder(d, b, u)
    PROVE  InOrder(d \o About(b, H), <<>>, u) /\ InOrder(About(d, H), b, u)
<1>1. /\ About(b, H) \in Seq(Rows) /\ Range(About(b, H)) \subseteq Range(b)
      /\ Ascending(About(b, H))
      /\ About(d, H) \in Seq(Rows) /\ Range(About(d, H)) \subseteq Range(d)
      /\ Ascending(About(d, H))
  BY AboutIs DEF InOrder
<1>2. InOrder(d, About(b, H), u) /\ InOrder(About(d, H), b, u)
  BY <1>1 DEF InOrder, Below
<1> QED BY <1>1, <1>2, OrderMoves

LEMMA OrderAppended ==
    ASSUME NEW d \in Seq(Rows), NEW b \in Seq(Rows), NEW u \in Seq(Rows), NEW n \in Rows,
           InOrder(d, b, u), \A y \in Range(d) \cup Range(b) \cup Range(u) : y < n
    PROVE  /\ InOrder(d, b, Append(u, n))
           /\ Range(Append(u, n)) = Range(u) \cup {n}
<1>1. n \in Nat /\ u \in Seq(Nat)
  BY RowsAreNat, SeqMonotonic
<1>2. /\ Range(Append(u, n)) = Range(u) \cup {n}
      /\ Ascending(Append(u, n))
  BY <1>1, AppendedIs DEF InOrder
<1> QED BY <1>2 DEF InOrder, Below

-----------------------------------------------------------------------------
(* Where the rows are.                                                     *)

Held(k) == Range(db[k]) \cup Range(batch[k]) \cup Range(buf[k])

RowInv ==
    /\ \A k \in Kinds : InOrder(db[k], batch[k], buf[k])
    /\ \A n \in Enqueued : fate[n] = "none" <=> n \in Held("sample") \cup Held("event")
    /\ \A k \in Kinds : Held(k) \subseteq Enqueued
    /\ Held("sample") \cap Held("event") = {}
    /\ \A n \in Rows \ Enqueued : fate[n] = "none" /\ tries[n] = 0

LEMMA InIs ==
    ASSUME NEW a \in [Kinds -> Seq(Rows)]
    PROVE  /\ In(a) = Range(a["sample"]) \cup Range(a["event"])
           /\ a = Nothing <=> In(a) = {}
<1>1. Kinds = {"sample", "event"}
  BY DEF Kinds
<1>2. In(a) = Range(a["sample"]) \cup Range(a["event"])
  BY <1>1 DEF In
<1>3. a = Nothing <=> a["sample"] = <<>> /\ a["event"] = <<>>
  BY <1>1 DEF Nothing
<1>4. \A k \in Kinds : a[k] = <<>> <=> Range(a[k]) = {}
  BY RangeIs
<1> QED BY <1>1, <1>2, <1>3, <1>4

\* Whatever a step does to the lists, it keeps the rows accounted for when it
\* drops from them just the rows it dooms.
LEMMA Accounted ==
    ASSUME Base, RowInv, Base', NEW gone \in SUBSET Rows, NEW why, why # "none",
           UNCHANGED next, \A n \in Rows \ Enqueued : tries'[n] = tries[n],
           fate' = [n \in Rows |-> IF n \in gone THEN why ELSE fate[n]],
           \A k \in Kinds : /\ InOrder(db[k]', batch[k]', buf[k]')
                            /\ Held(k)' = Held(k) \ gone,
           gone \subseteq Held("sample") \cup Held("event")
    PROVE  RowInv'
<1>1. Enqueued' = Enqueued /\ Enqueued \subseteq Rows
  BY RowsAreNat DEF Enqueued, Base, TypeOK
<1>2. Held("sample")' = Held("sample") \ gone /\ Held("event")' = Held("event") \ gone
  BY DEF Kinds
<1>3. gone \subseteq Enqueued
  BY DEF RowInv, Kinds
<1>4. \A n \in Rows : fate'[n] = IF n \in gone THEN why ELSE fate[n]
  OBVIOUS
<1>5. \A n \in Enqueued' :
        fate'[n] = "none" <=> n \in Held("sample")' \cup Held("event")'
  BY <1>1, <1>2, <1>4 DEF RowInv
<1>6. \A n \in Rows \ Enqueued' : fate'[n] = "none" /\ tries'[n] = 0
  BY <1>1, <1>3, <1>4 DEF RowInv
<1>7. \A k \in Kinds : Held(k)' \subseteq Enqueued'
  BY <1>1 DEF RowInv
<1>8. Held("sample")' \cap Held("event")' = {}
  BY <1>2 DEF RowInv
<1>9. \A k \in Kinds : InOrder(db'[k], batch'[k], buf'[k])
  OBVIOUS
<1> QED BY <1>5, <1>6, <1>7, <1>8, <1>9 DEF RowInv

LEMMA ListsAre ==
    ASSUME Base
    PROVE  /\ In(db) \cup In(batch) \cup In(buf) = Held("sample") \cup Held("event")
           /\ In(buf) = Range(buf["sample"]) \cup Range(buf["event"])
           /\ In(batch) = Range(batch["sample"]) \cup Range(batch["event"])
           /\ In(db) = Range(db["sample"]) \cup Range(db["event"])
           /\ Held("sample") \cup Held("event") \subseteq Rows
           /\ \A k \in Kinds : /\ db[k] \in Seq(Rows) /\ batch[k] \in Seq(Rows)
                               /\ buf[k] \in Seq(Rows)
           /\ fate \in [Rows -> {"none", "skipped", "dropped", "cascaded", "lost"}]
<1>1. /\ db \in [Kinds -> Seq(Rows)] /\ batch \in [Kinds -> Seq(Rows)]
      /\ buf \in [Kinds -> Seq(Rows)]
  BY DEF Base, TypeOK
<1>2. \A k \in Kinds : /\ Range(db[k]) \subseteq Rows /\ Range(batch[k]) \subseteq Rows
                       /\ Range(buf[k]) \subseteq Rows
  BY <1>1, RangeIs
<1>3. Held("sample") \cup Held("event") \subseteq Rows
  BY <1>2 DEF Held, Kinds
<1> QED BY <1>1, <1>3, InIs DEF Held, Base, TypeOK

\* The lists have no row in common.
LEMMA Apart ==
    ASSUME Base, RowInv, NEW k \in Kinds, NEW l \in Kinds
    PROVE  /\ Range(db[k]) \cap Range(batch[l]) = {}
           /\ Range(db[k]) \cap Range(buf[l]) = {}
           /\ Range(batch[k]) \cap Range(buf[l]) = {}
<1>1. CASE k = l
  <2>1. InOrder(db[k], batch[k], buf[k])
    BY DEF RowInv
  <2>2. Range(batch[k]) \subseteq Nat /\ Range(db[k]) \subseteq Nat
        /\ Range(buf[k]) \subseteq Nat
    BY ListsAre, RangeIs, RowsAreNat
  <2> QED BY <1>1, <2>1, <2>2 DEF InOrder, Below
<1>2. CASE k # l
  BY <1>2 DEF RowInv, Held, Kinds
<1> QED BY <1>1, <1>2

LEMMA BatchApart ==
    ASSUME Base, RowInv, NEW k \in Kinds
    PROVE  In(batch) \cap (Range(db[k]) \cup Range(buf[k])) = {}
BY Apart, ListsAre DEF Kinds

LEMMA StoredApart ==
    ASSUME Base, RowInv, NEW k \in Kinds
    PROVE  In(db) \cap (Range(batch[k]) \cup Range(buf[k])) = {}
BY Apart, ListsAre DEF Kinds

LEMMA WaitingApart ==
    ASSUME Base, RowInv, NEW k \in Kinds
    PROVE  In(buf) \cap (Range(db[k]) \cup Range(batch[k])) = {}
BY Apart, ListsAre DEF Kinds

\* A row just enqueued waits behind all others of its kind.
LEMMA EnqueueAccounted ==
    ASSUME Base, RowInv, Base', NEW h \in Hosts, NEW k \in Kinds, Enqueue(h, k)
    PROVE  RowInv'
<1>1. /\ next \in Rows /\ Enqueued' = Enqueued \cup {next} /\ next \notin Enqueued
      /\ \A n \in Enqueued : n < next
  BY RowsAreNat DEF Enqueue, Enqueued, Base, TypeOK
<1>2. /\ db' = db /\ batch' = batch /\ fate' = fate /\ tries' = tries
      /\ buf' = [buf EXCEPT ![k] = Append(@, next)]
  BY DEF Enqueue
<1>3. \A l \in Kinds : buf'[l] = IF l = k THEN Append(buf[k], next) ELSE buf[l]
  BY <1>2 DEF Base, TypeOK
<1>4. /\ InOrder(db[k], batch[k], Append(buf[k], next))
      /\ Range(Append(buf[k], next)) = Range(buf[k]) \cup {next}
  <2>1. \A y \in Range(db[k]) \cup Range(batch[k]) \cup Range(buf[k]) : y < next
    BY <1>1 DEF RowInv, Held
  <2> QED BY <1>1, <2>1, ListsAre, OrderAppended DEF RowInv
<1>5. \A l \in Kinds : InOrder(db'[l], batch'[l], buf'[l])
  BY <1>2, <1>3, <1>4 DEF RowInv
<1>6. \A l \in Kinds : Held(l)' = Held(l) \cup (IF l = k THEN {next} ELSE {})
  BY <1>2, <1>3, <1>4 DEF Held
<1>7. \A l \in Kinds : Held(l)' \subseteq Enqueued'
  BY <1>1, <1>6 DEF RowInv
<1>8. Held("sample")' \cap Held("event")' = {}
  BY <1>1, <1>6 DEF RowInv, Kinds
<1>9. \A n \in Rows \ Enqueued' : fate'[n] = "none" /\ tries'[n] = 0
  BY <1>1, <1>2 DEF RowInv
<1>10. \A n \in Enqueued' :
         fate'[n] = "none" <=> n \in Held("sample")' \cup Held("event")'
  <2>1. next \in Held("sample")' \cup Held("event")' /\ fate'[next] = "none"
    BY <1>1, <1>2, <1>6 DEF RowInv, Kinds
  <2>2. ASSUME NEW n \in Enqueued
        PROVE  fate'[n] = "none" <=> n \in Held("sample")' \cup Held("event")'
    BY <1>1, <1>2, <1>6 DEF RowInv, Kinds
  <2> QED BY <1>1, <2>1, <2>2
<1> QED BY <1>5, <1>7, <1>8, <1>9, <1>10 DEF RowInv

\* A step that dooms no row and only moves rows between the lists.
LEMMA MovesAccounted ==
    ASSUME Base, RowInv, Base', UNCHANGED <<next, fate>>,
           \A n \in Rows \ Enqueued : tries'[n] = tries[n],
           \A k \in Kinds : /\ InOrder(db[k]', batch[k]', buf[k]')
                            /\ Held(k)' = Held(k)
    PROVE  RowInv'
<1> DEFINE gone == {}
<1>1. fate' = [n \in Rows |-> IF n \in gone THEN "lost" ELSE fate[n]]
  BY ListsAre
<1>2. \A k \in Kinds : Held(k)' = Held(k) \ gone
  OBVIOUS
<1>3. gone \in SUBSET Rows /\ gone \subseteq Held("sample") \cup Held("event")
  OBVIOUS
<1> HIDE DEF gone
<1>4. UNCHANGED next
  OBVIOUS
<1> QED BY <1>1, <1>2, <1>3, <1>4, Accounted

LEMMA RowStep ==
    ASSUME Base, RowInv, Base', [Next]_vars
    PROVE  RowInv'
<1>0. /\ \A k \in Kinds : /\ InOrder(db[k], batch[k], buf[k])
                          /\ db[k] \in Seq(Rows) /\ batch[k] \in Seq(Rows)
                          /\ buf[k] \in Seq(Rows)
      /\ \A k \in Kinds : Nothing[k] = <<>>
      /\ Range(<<>>) = {}
  BY ListsAre, EmptyInOrder DEF RowInv, Nothing
<1>1. ASSUME NEW h \in Hosts, NEW k \in Kinds, Enqueue(h, k) PROVE RowInv'
  BY <1>1, EnqueueAccounted
<1>2. CASE FlushTakes
  <2>1. batch = Nothing /\ batch' = buf /\ buf' = Nothing /\ db' = db
    BY <1>2 DEF FlushTakes, Base, PhaseInv
  <2>2. ASSUME NEW k \in Kinds
        PROVE  InOrder(db[k]', batch[k]', buf[k]') /\ Held(k)' = Held(k)
    BY <1>0, <2>1, OrderMoves DEF Held
  <2> QED BY <1>2, <2>2, MovesAccounted DEF FlushTakes
<1>3. CASE InsertCommits
  <2>1. batch' = Nothing /\ buf' = buf
        /\ \A k \in Kinds : db'[k] = db[k] \o batch[k]
    BY <1>3 DEF InsertCommits, Committed
  <2>2. ASSUME NEW k \in Kinds
        PROVE  InOrder(db[k]', batch[k]', buf[k]') /\ Held(k)' = Held(k)
    <3>1. InOrder(db[k] \o batch[k], <<>>, buf[k])
      BY <1>0, OrderMoves
    <3>2. Range(db[k] \o batch[k]) = Range(db[k]) \cup Range(batch[k])
      BY <1>0, JoinedRows
    <3> QED BY <1>0, <2>1, <3>1, <3>2 DEF Held
  <2> QED BY <1>3, <2>2, MovesAccounted DEF InsertCommits, Committed
<1>4. CASE InsertViolates
  <2>1. batch' = batch /\ buf' = buf /\ db' = db
    BY <1>4 DEF InsertViolates
  <2>2. \A k \in Kinds : InOrder(db[k]', batch[k]', buf[k]') /\ Held(k)' = Held(k)
    BY <1>0, <2>1 DEF Held
  <2> QED BY <1>4, <2>2, MovesAccounted DEF InsertViolates
<1>5. CASE FallbackCommits
  <2> DEFINE kept(k) == About(batch[k], hosts)
             gone == In(batch) \ UNION {Range(kept(k)) : k \in Kinds}
  <2>1. batch' = Nothing /\ buf' = buf
        /\ \A k \in Kinds : db'[k] = db[k] \o kept(k)
    BY <1>5 DEF FallbackCommits, Committed, KeptByFallback
  <2>2. \A k \in Kinds : kept(k) \in Seq(Rows) /\ Range(kept(k)) \subseteq Range(batch[k])
    BY <1>0, AboutIs
  <2>3. ASSUME NEW k \in Kinds PROVE Range(batch[k]) \ gone = Range(kept(k))
    <3> HIDE DEF kept
    <3>1. Range(batch["sample"]) \cap Range(batch["event"]) = {}
      BY DEF RowInv, Held
    <3>2. gone = (Range(batch["sample"]) \cup Range(batch["event"]))
                    \ (Range(kept("sample")) \cup Range(kept("event")))
      BY ListsAre DEF Kinds
    <3> QED BY <2>2, <3>1, <3>2 DEF Kinds
  <2>4. gone \subseteq In(batch)
    OBVIOUS
  <2>5. fate' = [n \in Rows |-> IF n \in gone THEN "skipped" ELSE fate[n]]
    BY <1>5 DEF FallbackCommits, KeptByFallback, Doom
  <2> HIDE DEF gone
  <2>6. ASSUME NEW k \in Kinds
        PROVE  InOrder(db[k]', batch[k]', buf[k]') /\ Held(k)' = Held(k) \ gone
    <3>1. InOrder(db[k] \o kept(k), <<>>, buf[k])
      BY <1>0, OrderFiltered
    <3>2. Range(db[k] \o kept(k)) = Range(db[k]) \cup Range(kept(k))
      <4> HIDE DEF kept
      <4> QED BY <1>0, <2>2, JoinedRows
    <3>3. gone \cap (Range(db[k]) \cup Range(buf[k])) = {}
      BY <2>4, BatchApart
    <3> HIDE DEF kept
    <3>4. Held(k)' = Range(db[k]) \cup Range(kept(k)) \cup Range(buf[k])
      BY <1>0, <2>1, <3>2 DEF Held
    <3>5. Held(k)' = Held(k) \ gone
      BY <2>3, <3>3, <3>4 DEF Held
    <3> QED BY <1>0, <2>1, <3>1, <3>5
  <2>7. gone \subseteq Held("sample") \cup Held("event") /\ gone \in SUBSET Rows
    BY <2>4, ListsAre
  <2>8. UNCHANGED <<next, tries>>
    BY <1>5 DEF FallbackCommits, Committed
  <2> QED BY <2>5, <2>6, <2>7, <2>8, Accounted
<1>6. CASE FlushFails
  <2>1. batch' = Nothing /\ db' = db /\ next' = next
    BY <1>6 DEF FlushFails
  <2>2. \A n \in Rows \ Enqueued : tries'[n] = tries[n]
    <3>1. In(batch) \subseteq Enqueued
      BY ListsAre DEF RowInv, Kinds, Held
    <3> QED BY <1>6, <3>1 DEF FlushFails
  <2>3. CASE Requeues(Counted)
    <3>1. fate' = fate /\ \A k \in Kinds : buf'[k] = batch[k] \o buf[k]
      BY <1>6, <2>3 DEF FlushFails, Requeued
    <3>2. ASSUME NEW k \in Kinds
          PROVE  InOrder(db[k]', batch[k]', buf[k]') /\ Held(k)' = Held(k)
      <4>1. InOrder(db[k], <<>>, batch[k] \o buf[k])
        BY <1>0, OrderMoves
      <4>2. Range(batch[k] \o buf[k]) = Range(batch[k]) \cup Range(buf[k])
        BY <1>0, JoinedRows
      <4> QED BY <1>0, <2>1, <3>1, <4>1, <4>2 DEF Held
    <3> QED BY <2>1, <2>2, <3>1, <3>2, MovesAccounted
  <2>4. CASE ~ Requeues(Counted)
    <3>1. buf' = buf
          /\ fate' = [n \in Rows |-> IF n \in In(batch) THEN "dropped" ELSE fate[n]]
      BY <1>6, <2>4 DEF FlushFails, Doom
    <3>2. ASSUME NEW k \in Kinds
          PROVE  InOrder(db[k]', batch[k]', buf[k]') /\ Held(k)' = Held(k) \ In(batch)
      <4>1. InOrder(db[k], <<>>, buf[k])
        BY <1>0, OrderMoves
      <4>2. In(batch) \cap (Range(db[k]) \cup Range(buf[k])) = {}
        BY BatchApart
      <4>3. Range(batch[k]) \subseteq In(batch)
        BY ListsAre DEF Kinds
      <4> QED BY <1>0, <2>1, <3>1, <4>1, <4>2, <4>3 DEF Held
    <3>3. In(batch) \subseteq Held("sample") \cup Held("event") /\ In(batch) \in SUBSET Rows
      BY ListsAre
    <3> QED BY <2>1, <2>2, <3>1, <3>2, <3>3, Accounted
  <2> QED BY <2>3, <2>4
<1>7. ASSUME NEW h \in Hosts, DeleteHost(h) PROVE RowInv'
  <2> DEFINE left(k) == About(db[k], Hosts \ {h})
             gone == {n \in In(db) : owner[n] = h}
  <2>1. /\ batch' = batch /\ buf' = buf /\ UNCHANGED <<next, tries>>
        /\ \A k \in Kinds : db'[k] = left(k)
        /\ fate' = [n \in Rows |-> IF n \in gone THEN "cascaded" ELSE fate[n]]
    BY <1>7 DEF DeleteHost, Doom
  <2>2. ASSUME NEW k \in Kinds
        PROVE  InOrder(db[k]', batch[k]', buf[k]') /\ Held(k)' = Held(k) \ gone
    <3>1. InOrder(left(k), batch[k], buf[k])
      BY <1>0, OrderFiltered
    <3>2. Range(left(k)) = {n \in Range(db[k]) : owner[n] \in Hosts \ {h}}
      BY <1>0, AboutIs
    <3>3. \A n \in Range(db[k]) : owner[n] \in Hosts
      <4>1. Range(db[k]) \subseteq Enqueued
        BY DEF RowInv, Held
      <4> QED BY <4>1 DEF Enqueued, Base, TypeOK
    <3>4. In(db) \cap (Range(batch[k]) \cup Range(buf[k])) = {}
      BY StoredApart
    <3>5. Range(db[k]) \subseteq In(db)
      BY ListsAre DEF Kinds
    <3>6. Range(left(k)) = Range(db[k]) \ gone
      BY <3>2, <3>3, <3>5
    <3>7. gone \cap (Range(batch[k]) \cup Range(buf[k])) = {}
      BY <3>4
    <3> HIDE DEF left, gone
    <3> QED BY <2>1, <3>1, <3>6, <3>7 DEF Held
  <2>3. gone \subseteq Held("sample") \cup Held("event") /\ gone \in SUBSET Rows
    BY ListsAre
  <2> HIDE DEF left, gone
  <2> QED BY <2>1, <2>2, <2>3, Accounted
<1>8. CASE Close
  <2>1. batch' = batch /\ buf' = buf /\ db' = db /\ UNCHANGED <<next, fate, tries>>
    BY <1>8 DEF Close
  <2>2. \A k \in Kinds : InOrder(db[k]', batch[k]', buf[k]') /\ Held(k)' = Held(k)
    BY <1>0, <2>1 DEF Held
  <2> QED BY <2>1, <2>2, MovesAccounted
<1>9. CASE ProcessExits
  <2>1. /\ buf' = Nothing /\ batch' = batch /\ db' = db /\ UNCHANGED <<next, tries>>
        /\ fate' = [n \in Rows |-> IF n \in In(buf) THEN "lost" ELSE fate[n]]
    BY <1>9 DEF ProcessExits, Doom
  <2>2. ASSUME NEW k \in Kinds
        PROVE  InOrder(db[k]', batch[k]', buf[k]') /\ Held(k)' = Held(k) \ In(buf)
    <3>1. InOrder(db[k], batch[k], <<>>)
      BY <1>0, OrderMoves
    <3>2. In(buf) \cap (Range(db[k]) \cup Range(batch[k])) = {}
      BY WaitingApart
    <3>3. Range(buf[k]) \subseteq In(buf)
      BY ListsAre DEF Kinds
    <3> QED BY <1>0, <2>1, <3>1, <3>2, <3>3 DEF Held
  <2>3. In(buf) \subseteq Held("sample") \cup Held("event") /\ In(buf) \in SUBSET Rows
    BY ListsAre
  <2> QED BY <2>1, <2>2, <2>3, Accounted
<1>10. CASE Crash
  <2> DEFINE gone == In(buf) \cup In(batch)
  <2>1. /\ buf' = Nothing /\ batch' = Nothing /\ db' = db /\ UNCHANGED <<next, tries>>
        /\ fate' = [n \in Rows |-> IF n \in gone THEN "lost" ELSE fate[n]]
    BY <1>10 DEF Crash, Doom
  <2>2. ASSUME NEW k \in Kinds
        PROVE  InOrder(db[k]', batch[k]', buf[k]') /\ Held(k)' = Held(k) \ gone
    <3>1. InOrder(db[k], <<>>, <<>>)
      BY <1>0, OrderMoves
    <3>2. gone \cap Range(db[k]) = {}
      BY WaitingApart, BatchApart
    <3>3. Range(buf[k]) \cup Range(batch[k]) \subseteq gone
      BY ListsAre DEF Kinds
    <3> HIDE DEF gone
    <3> QED BY <1>0, <2>1, <3>1, <3>2, <3>3 DEF Held
  <2>3. gone \subseteq Held("sample") \cup Held("event") /\ gone \in SUBSET Rows
    BY ListsAre
  <2> HIDE DEF gone
  <2> QED BY <2>1, <2>2, <2>3, Accounted
<1>11. CASE UNCHANGED vars
  <2>1. batch' = batch /\ buf' = buf /\ db' = db /\ UNCHANGED <<next, fate, tries>>
    BY <1>11 DEF vars
  <2>2. \A k \in Kinds : InOrder(db[k]', batch[k]', buf[k]') /\ Held(k)' = Held(k)
    BY <1>0, <2>1 DEF Held
  <2> QED BY <2>1, <2>2, MovesAccounted
<1> QED BY <1>1, <1>2, <1>3, <1>4, <1>5, <1>6, <1>7, <1>8, <1>9, <1>10, <1>11
        DEF Next, FlushStep

-----------------------------------------------------------------------------
(* What each step moves, as sets of rows.                                  *)

LEMMA TakingMoves ==
    ASSUME Base, FlushTakes
    PROVE  \A k \in Kinds : /\ Range(batch[k]) = {} /\ Range(batch'[k]) = Range(buf[k])
                            /\ Range(buf'[k]) = {} /\ db'[k] = db[k]
<1>1. batch = Nothing /\ batch' = buf /\ buf' = Nothing /\ db' = db
  BY DEF FlushTakes, Base, PhaseInv
<1>2. \A k \in Kinds : Nothing[k] = <<>> /\ Range(<<>>) = {}
  BY EmptyInOrder DEF Nothing
<1> QED BY <1>1, <1>2

LEMMA CommitMoves ==
    ASSUME Base, InsertCommits \/ FallbackCommits
    PROVE  /\ \A k \in Kinds :
                /\ Range(db'[k]) = Range(db[k]) \cup {n \in Range(batch[k]) : owner[n] \in hosts}
                /\ Range(batch'[k]) = {} /\ buf'[k] = buf[k]
           /\ UNCHANGED <<hosts, next, owner>>
<1>1. /\ batch' = Nothing /\ buf' = buf /\ UNCHANGED <<hosts, next, owner>>
      /\ \A k \in Kinds : Nothing[k] = <<>> /\ Range(<<>>) = {}
  BY EmptyInOrder DEF InsertCommits, FallbackCommits, Committed, Nothing
<1>2. ASSUME NEW k \in Kinds
      PROVE  Range(db'[k]) = Range(db[k]) \cup {n \in Range(batch[k]) : owner[n] \in hosts}
  <2>1. CASE InsertCommits
    <3>1. db'[k] = db[k] \o batch[k]
      BY <2>1 DEF InsertCommits
    <3>2. \A n \in Range(batch[k]) : owner[n] \in hosts
      BY <2>1 DEF InsertCommits, Violating, In
    <3> QED BY <3>1, <3>2, ListsAre, JoinedRows
  <2>2. CASE FallbackCommits
    <3>1. db'[k] = db[k] \o About(batch[k], hosts)
      BY <2>2 DEF FallbackCommits, KeptByFallback
    <3>2. /\ About(batch[k], hosts) \in Seq(Rows) /\ db[k] \in Seq(Rows)
          /\ Range(About(batch[k], hosts)) = {n \in Range(batch[k]) : owner[n] \in hosts}
      BY ListsAre, AboutIs
    <3> QED BY <3>1, <3>2, JoinedRows
  <2> QED BY <2>1, <2>2
<1> QED BY <1>1, <1>2

LEMMA FailureMoves ==
    ASSUME Base, FlushFails
    PROVE  /\ \A k \in Kinds : Range(batch'[k]) = {} /\ db'[k] = db[k]
           /\ \/ \A k \in Kinds : Range(buf'[k]) = Range(batch[k]) \cup Range(buf[k])
              \/ buf' = buf
           /\ UNCHANGED <<hosts, next, owner>>
<1>1. batch' = Nothing /\ db' = db /\ UNCHANGED <<hosts, next, owner>>
  BY DEF FlushFails
<1>2. \A k \in Kinds : Nothing[k] = <<>> /\ Range(<<>>) = {}
  BY EmptyInOrder DEF Nothing
<1>3. CASE Requeues(Counted)
  <2>1. \A k \in Kinds : buf'[k] = batch[k] \o buf[k]
    BY <1>3 DEF FlushFails, Requeued
  <2>2. \A k \in Kinds : Range(buf'[k]) = Range(batch[k]) \cup Range(buf[k])
    BY <2>1, ListsAre, JoinedRows
  <2> QED BY <1>1, <1>2, <2>2
<1>4. CASE ~ Requeues(Counted)
  <2>1. buf' = buf
    BY <1>4 DEF FlushFails
  <2> QED BY <1>1, <1>2, <2>1
<1> QED BY <1>3, <1>4

LEMMA DeletionMoves ==
    ASSUME Base, RowInv, NEW h \in Hosts, DeleteHost(h)
    PROVE  \A k \in Kinds : /\ Range(db'[k]) = {n \in Range(db[k]) : owner[n] # h}
                            /\ batch'[k] = batch[k] /\ buf'[k] = buf[k]
<1> SUFFICES ASSUME NEW k \in Kinds
             PROVE  Range(db'[k]) = {n \in Range(db[k]) : owner[n] # h}
  BY DEF DeleteHost
<1>1. db'[k] = About(db[k], Hosts \ {h})
  BY DEF DeleteHost
<1>2. Range(db'[k]) = {n \in Range(db[k]) : owner[n] \in Hosts \ {h}}
  BY <1>1, ListsAre, AboutIs
<1>3. \A n \in Range(db[k]) : owner[n] \in Hosts
  <2>1. Range(db[k]) \subseteq Enqueued
    BY DEF RowInv, Held
  <2> QED BY <2>1 DEF Enqueued, Base, TypeOK
<1> QED BY <1>2, <1>3

LEMMA LossMoves ==
    ASSUME Base, ProcessExits \/ Crash
    PROVE  /\ \A k \in Kinds : Range(batch'[k]) = {} /\ Range(buf'[k]) = {} /\ db'[k] = db[k]
           /\ UNCHANGED <<hosts, next, owner>>
<1>1. batch' = Nothing /\ buf' = Nothing /\ db' = db /\ UNCHANGED <<hosts, next, owner>>
  BY DEF ProcessExits, Crash, Base, PhaseInv
<1>2. \A k \in Kinds : Nothing[k] = <<>> /\ Range(<<>>) = {}
  BY EmptyInOrder DEF Nothing
<1> QED BY <1>1, <1>2

LEMMA EnqueueMoves ==
    ASSUME Base, NEW h \in Hosts, NEW k \in Kinds, Enqueue(h, k)
    PROVE  /\ next \in Rows /\ batch' = batch /\ db' = db
           /\ \A l \in Kinds : Range(buf'[l]) = IF l = k THEN Range(buf[l]) \cup {next}
                                                ELSE Range(buf[l])
<1>1. /\ buf' = [buf EXCEPT ![k] = Append(@, next)] /\ buf \in [Kinds -> Seq(Rows)]
      /\ next \in Rows /\ next \in Nat /\ batch' = batch /\ db' = db
  BY RowsAreNat DEF Enqueue, Base, TypeOK
<1>2. buf[k] \in Seq(Nat)
  BY <1>1, RowsAreNat, SeqMonotonic
<1>3. Range(Append(buf[k], next)) = Range(buf[k]) \cup {next}
  BY <1>1, <1>2, AppendedIs
<1> QED BY <1>1, <1>3

-----------------------------------------------------------------------------
(* The lists are cut at two instants, for both kinds alike: rows stored are *)
(* older than rows in memory, rows being flushed older than rows waiting.  *)

CutInv ==
    /\ NewerWait
    /\ \A n \in In(batch), m \in In(buf) : n < m

LEMMA CutStep ==
    ASSUME Base, RowInv, CutInv, [Next]_vars
    PROVE  CutInv'
<1>1. /\ In(buf) \subseteq Enqueued /\ In(batch) \subseteq Enqueued /\ In(db) \subseteq Enqueued
      /\ Enqueued \subseteq Rows /\ Rows \subseteq Nat
  BY ListsAre, RowsAreNat DEF RowInv, Held, Kinds, Enqueued, Base, TypeOK
\* Rows only pass from a list to the next, or leave.
<1>2. ASSUME In(db)' \subseteq In(db), In(batch)' \subseteq In(batch), In(buf)' \subseteq In(buf)
      PROVE  CutInv'
  BY <1>2 DEF CutInv, NewerWait
<1>3. ASSUME NEW h \in Hosts, NEW k \in Kinds, Enqueue(h, k) PROVE CutInv'
  <2>1. In(batch)' = In(batch) /\ In(db)' = In(db) /\ In(buf)' \subseteq In(buf) \cup {next}
    <3>1. \A l \in Kinds : Range(buf'[l]) \subseteq Range(buf[l]) \cup {next}
      BY <1>3, EnqueueMoves
    <3>2. batch' = batch /\ db' = db
      BY <1>3 DEF Enqueue
    <3> QED BY <3>1, <3>2 DEF In
  <2>2. \A n \in Enqueued : n < next
    BY <1>1, RowsAreNat DEF Enqueued, Base, TypeOK
  <2> QED BY <1>1, <2>1, <2>2 DEF CutInv, NewerWait
<1>4. CASE FlushTakes
  <2>1. In(db)' = In(db) /\ In(batch)' = In(buf) /\ In(buf)' = {}
    BY <1>4, TakingMoves DEF In
  <2> QED BY <2>1 DEF CutInv, NewerWait
<1>5. CASE InsertCommits \/ FallbackCommits
  <2>1. In(db)' \subseteq In(db) \cup In(batch) /\ In(batch)' = {} /\ In(buf)' = In(buf)
    BY <1>5, CommitMoves DEF In
  <2> QED BY <2>1 DEF CutInv, NewerWait
<1>6. CASE FlushFails
  <2>1. In(db)' = In(db) /\ In(batch)' = {}
    BY <1>6, FailureMoves DEF In
  <2>2. In(buf)' \subseteq In(batch) \cup In(buf)
    BY <1>6, FailureMoves DEF In
  <2> QED BY <2>1, <2>2 DEF CutInv, NewerWait
<1>7. ASSUME NEW h \in Hosts, DeleteHost(h) PROVE CutInv'
  <2>1. In(db)' \subseteq In(db) /\ In(batch)' = In(batch) /\ In(buf)' = In(buf)
    BY <1>7, DeletionMoves DEF In
  <2> QED BY <1>2, <2>1
<1>8. CASE ProcessExits \/ Crash
  <2>1. In(db)' = In(db) /\ In(batch)' = {} /\ In(buf)' = {}
    BY <1>8, LossMoves DEF In
  <2> QED BY <1>2, <2>1
<1>9. CASE InsertViolates \/ Close \/ UNCHANGED vars
  <2>1. db' = db /\ batch' = batch /\ buf' = buf
    BY <1>9 DEF InsertViolates, Close, vars
  <2> QED BY <1>2, <2>1 DEF In
<1> QED BY <1>3, <1>4, <1>5, <1>6, <1>7, <1>8, <1>9 DEF Next, FlushStep

-----------------------------------------------------------------------------
(* The failures of a row.  A row in memory has failed no more often than   *)
(* the writer has in a row, some row just as often, and rows enqueued      *)
(* during a flush not at all.                                              *)

TryInv ==
    /\ \A n \in In(buf) \cup In(batch) : tries[n] <= failures
    /\ pc \in {"insert", "fallback"} => \A n \in In(buf) : tries[n] = 0
    /\ failures > 0 /\ pc = "waiting" => \E n \in In(buf) : tries[n] = failures
    /\ failures > 0 /\ pc \in {"insert", "fallback"} =>
           \E n \in In(batch) : tries[n] = failures

LEMMA TryTyped ==
    ASSUME Base
    PROVE  /\ In(buf) \cup In(batch) \subseteq Rows /\ In(Nothing) = {}
           /\ tries \in [Rows -> 0..TriesSeen] /\ failures \in 0..2 /\ TriesSeen = 4
           /\ pc \in {"waiting", "insert", "fallback", "done"}
BY ListsAre, NothingIs DEF Base, TypeOK, TriesSeen

\* One failure more for each row of the batch, and for no other.
LEMMA FailureCounted ==
    ASSUME Base, RowInv, TryInv, FlushFails
    PROVE  /\ \A n \in In(batch) : tries'[n] = tries[n] + 1
           /\ \A n \in In(buf) : tries'[n] = 0 /\ n \notin In(batch)
           /\ \E n \in In(batch) : tries'[n] = failures + 1
<1>1. pc \in {"insert", "fallback"}
  BY DEF FlushFails
<1>2. In(buf) \cap In(batch) = {}
  <2>1. In(buf) \cap Range(batch["sample"]) = {} /\ In(buf) \cap Range(batch["event"]) = {}
    BY WaitingApart DEF Kinds
  <2> QED BY <2>1, ListsAre
<1>3. \A n \in Rows : tries'[n] = IF n \in In(batch) /\ tries[n] < TriesSeen
                                  THEN tries[n] + 1 ELSE tries[n]
  BY DEF FlushFails
<1>4. \A n \in In(batch) : tries[n] \in 0..2 /\ tries[n] <= failures
  BY TryTyped DEF TryInv
<1>5. \A n \in In(batch) : tries'[n] = tries[n] + 1
  BY <1>3, <1>4, TryTyped
<1>6. \A n \in In(buf) : tries'[n] = 0 /\ n \notin In(batch)
  BY <1>1, <1>2, <1>3, TryTyped DEF TryInv
<1>7. \E n \in In(batch) : tries[n] = failures
  <2>1. CASE failures > 0
    BY <1>1, <2>1 DEF TryInv
  <2>2. CASE failures = 0
    <3>1. In(batch) # {}
      BY <1>1, InIs DEF Base, TypeOK, PhaseInv
    <3> QED BY <1>4, <2>2, <3>1
  <2> QED BY <2>1, <2>2, TryTyped
<1> QED BY <1>5, <1>6, <1>7

LEMMA TryStep ==
    ASSUME Base, RowInv, TryInv, [Next]_vars
    PROVE  TryInv'
<1>1. ASSUME NEW h \in Hosts, NEW k \in Kinds, Enqueue(h, k) PROVE TryInv'
  <2>1. In(buf)' \subseteq In(buf) \cup {next} /\ In(buf) \subseteq In(buf)'
    <3>1. buf' = [buf EXCEPT ![k] = Append(@, next)] /\ buf \in [Kinds -> Seq(Rows)]
          /\ next \in Nat
      BY <1>1 DEF Enqueue, Base, TypeOK
    <3>2. buf[k] \in Seq(Nat)
      BY <3>1, RowsAreNat, SeqMonotonic
    <3>3. Range(Append(buf[k], next)) = Range(buf[k]) \cup {next}
      BY <3>1, <3>2, AppendedIs
    <3>4. \A l \in Kinds : Range(buf'[l]) = Range(buf[l]) \cup (IF l = k THEN {next} ELSE {})
      BY <3>1, <3>3
    <3> QED BY <3>4 DEF In
  <2>2. tries[next] = 0
    <3>1. next \in Rows \ Enqueued
      BY <1>1, RowsAreNat DEF Enqueue, Enqueued, Base, TypeOK
    <3> QED BY <3>1 DEF RowInv
  <2>3. UNCHANGED <<batch, tries, failures, pc>>
    BY <1>1 DEF Enqueue
  <2>4. In(batch)' = In(batch)
    BY <2>3 DEF In
  <2>5. \A n \in In(buf)' : n \in In(buf) \/ n = next
    BY <2>1
  <2>6. \A n \in In(buf)' \cup In(batch)' : tries'[n] <= failures'
    BY <2>2, <2>3, <2>4, <2>5, TryTyped DEF TryInv
  <2>7. pc' \in {"insert", "fallback"} => \A n \in In(buf)' : tries'[n] = 0
    BY <2>2, <2>3, <2>5 DEF TryInv
  <2>8. failures' > 0 /\ pc' = "waiting" => \E n \in In(buf)' : tries'[n] = failures'
    BY <2>1, <2>3 DEF TryInv
  <2>9. failures' > 0 /\ pc' \in {"insert", "fallback"} =>
          \E n \in In(batch)' : tries'[n] = failures'
    BY <2>3, <2>4 DEF TryInv
  <2> QED BY <2>6, <2>7, <2>8, <2>9 DEF TryInv
<1>2. CASE FlushTakes
  <2>1. /\ pc = "waiting" /\ batch' = buf /\ buf' = Nothing /\ UNCHANGED <<tries, failures>>
        /\ buf # Nothing => pc' = "insert"
        /\ buf = Nothing => pc' \in {"waiting", "done"}
    BY <1>2, FlushReturnsTyped DEF FlushTakes
  <2>2. In(buf)' = {} /\ In(batch)' = In(buf)
    BY <2>1, NothingIs DEF In
  <2>3. buf = Nothing => In(buf) = {}
    BY NothingIs
  <2> QED BY <2>1, <2>2, <2>3, TryTyped DEF TryInv
<1>3. CASE InsertCommits \/ FallbackCommits
  <2>1. pc \in {"insert", "fallback"} /\ Committed
    BY <1>3 DEF InsertCommits, FallbackCommits
  <2>2. batch' = Nothing /\ failures' = 0 /\ pc' \in {"waiting", "done"}
        /\ UNCHANGED <<buf, tries>>
    BY <2>1, FlushReturnsTyped DEF Committed
  <2>3. In(batch)' = {} /\ In(buf)' = In(buf)
    BY <2>2, NothingIs DEF In
  <2> QED BY <2>1, <2>2, <2>3 DEF TryInv
<1>4. CASE InsertViolates
  <2>1. pc = "insert" /\ pc' = "fallback" /\ UNCHANGED <<buf, batch, tries, failures>>
    BY <1>4 DEF InsertViolates
  <2>2. In(batch)' = In(batch) /\ In(buf)' = In(buf)
    BY <2>1 DEF In
  <2> QED BY <2>1, <2>2 DEF TryInv
<1>5. CASE FlushFails
  <2>1. batch' = Nothing /\ pc' \in {"waiting", "done"}
    BY <1>5, FlushReturnsTyped DEF FlushFails
  <2>2. In(batch)' = {}
    BY <2>1, NothingIs DEF In
  <2>3. CASE Requeues(Counted)
    <3>1. failures' = failures + 1 /\ \A k \in Kinds : buf'[k] = batch[k] \o buf[k]
      BY <1>5, <2>3 DEF FlushFails, Requeued, Counted
    <3>2. In(buf)' = In(batch) \cup In(buf)
      <4>1. \A k \in Kinds : Range(buf'[k]) = Range(batch[k]) \cup Range(buf[k])
        BY <3>1, ListsAre, JoinedRows
      <4> QED BY <4>1 DEF In
    <3> QED BY <1>5, <2>1, <2>2, <3>1, <3>2, FailureCounted, TryTyped DEF TryInv
  <2>4. CASE ~ Requeues(Counted)
    <3>1. failures' = 0 /\ buf' = buf
      BY <1>5, <2>4 DEF FlushFails
    <3>2. In(buf)' = In(buf)
      BY <3>1 DEF In
    <3> QED BY <1>5, <2>1, <2>2, <3>1, <3>2, FailureCounted DEF TryInv
  <2> QED BY <2>3, <2>4
<1>6. CASE Close \/ (\E h \in Hosts : DeleteHost(h)) \/ UNCHANGED vars
  <2>1. UNCHANGED <<buf, batch, tries, failures, pc>>
    BY <1>6 DEF Close, DeleteHost, vars
  <2>2. In(batch)' = In(batch) /\ In(buf)' = In(buf)
    BY <2>1 DEF In
  <2> QED BY <2>1, <2>2 DEF TryInv
<1>7. CASE ProcessExits
  <2>1. buf' = Nothing /\ pc = "done" /\ UNCHANGED <<batch, tries, failures, pc>>
    BY <1>7 DEF ProcessExits, Base, PhaseInv
  <2>2. In(batch)' = In(batch) /\ In(buf)' = {}
    BY <2>1, NothingIs DEF In
  <2> QED BY <2>1, <2>2 DEF TryInv
<1>8. CASE Crash
  <2>1. buf' = Nothing /\ batch' = Nothing /\ failures' = 0
    BY <1>8 DEF Crash
  <2>2. In(batch)' = {} /\ In(buf)' = {}
    BY <2>1, NothingIs DEF In
  <2> QED BY <2>1, <2>2 DEF TryInv
<1> QED BY <1>1, <1>2, <1>3, <1>4, <1>5, <1>6, <1>7, <1>8 DEF Next, FlushStep

-----------------------------------------------------------------------------
(* The invariant, and what follows from it.                                *)

WriterInv == Base /\ RowInv /\ CutInv /\ TryInv /\ OnlyGhostsSkipped

\* Hosts are only ever deleted, and the fallback skips no row of another.
LEMMA GhostStep ==
    ASSUME Base, RowInv, OnlyGhostsSkipped, [Next]_vars
    PROVE  OnlyGhostsSkipped'
<1> SUFFICES ASSUME NEW n \in Enqueued', fate'[n] = "skipped"
             PROVE  owner'[n] \notin hosts'
  BY DEF OnlyGhostsSkipped
<1>0. Enqueued \subseteq Rows /\ hosts \in SUBSET Hosts
  BY RowsAreNat DEF Enqueued, Base, TypeOK
<1>1. ASSUME NEW h \in Hosts, NEW k \in Kinds, Enqueue(h, k)
      PROVE  owner'[n] \notin hosts'
  <2>1. /\ next \in Rows \ Enqueued /\ Enqueued' = Enqueued \cup {next}
        /\ fate' = fate /\ hosts' = hosts
    BY <1>1, RowsAreNat DEF Enqueue, Enqueued, Base, TypeOK
  <2>2. n \in Enqueued
    BY <2>1 DEF RowInv
  <2>3. owner'[n] = owner[n]
    BY <1>1, <2>2 DEF Enqueue, Enqueued, Base, TypeOK
  <2> QED BY <2>1, <2>2, <2>3 DEF OnlyGhostsSkipped
<1>2. CASE FallbackCommits
  <2> DEFINE gone == In(batch) \ UNION {Range(KeptByFallback(k)) : k \in Kinds}
  <2>1. /\ next' = next /\ owner' = owner /\ hosts' = hosts
        /\ \A m \in Rows : fate'[m] = IF m \in gone THEN "skipped" ELSE fate[m]
    BY <1>2 DEF FallbackCommits, Committed, Doom
  <2>2. n \in Enqueued
    BY <2>1 DEF Enqueued
  <2>3. CASE n \notin gone
    BY <1>0, <2>1, <2>2, <2>3 DEF OnlyGhostsSkipped
  <2>4. CASE n \in gone
    <3>1. PICK k \in Kinds : n \in Range(batch[k]) /\ n \notin Range(KeptByFallback(k))
      BY <2>4 DEF In
    <3>2. Range(KeptByFallback(k)) = {m \in Range(batch[k]) : owner[m] \in hosts}
      BY AboutIs, ListsAre DEF KeptByFallback
    <3> QED BY <2>1, <3>1, <3>2
  <2> QED BY <2>3, <2>4
<1>3. ASSUME NEW S, NEW why \in {"none", "dropped", "cascaded", "lost"},
             fate' = fate \/ fate' = Doom(S, why),
             next' = next, owner' = owner, hosts' \subseteq hosts
      PROVE  owner'[n] \notin hosts'
  <2>1. n \in Enqueued
    BY <1>3 DEF Enqueued
  <2>2. fate[n] = "skipped"
    BY <1>0, <1>3, <2>1 DEF Doom
  <2> QED BY <1>3, <2>1, <2>2 DEF OnlyGhostsSkipped
<1>4. CASE FlushTakes \/ InsertCommits \/ InsertViolates \/ Close \/ UNCHANGED vars
  BY <1>3, <1>4 DEF FlushTakes, InsertCommits, Committed, InsertViolates, Close, vars
<1>5. CASE FlushFails
  BY <1>3, <1>5 DEF FlushFails
<1>6. ASSUME NEW h \in Hosts, DeleteHost(h) PROVE owner'[n] \notin hosts'
  BY <1>3, <1>6 DEF DeleteHost
<1>7. CASE ProcessExits \/ Crash
  BY <1>3, <1>7 DEF ProcessExits, Crash
<1> QED BY <1>1, <1>2, <1>4, <1>5, <1>6, <1>7 DEF Next, FlushStep

LEMMA WriterInit == Init => WriterInv
<1> SUFFICES ASSUME Init PROVE WriterInv
  OBVIOUS
<1>1. \A k \in Kinds : db[k] = <<>> /\ batch[k] = <<>> /\ buf[k] = <<>>
  BY DEF Init, Nothing
<1>2. Enqueued = {}
  BY DEF Init, Enqueued
<1>3. RowInv
  BY <1>1, <1>2, EmptyInOrder DEF RowInv, InOrder, Held, Init, Kinds
<1>4. TryInv
  BY NothingIs DEF Init, TryInv
<1>5. CutInv
  BY NothingIs DEF Init, CutInv, NewerWait
<1> QED BY <1>2, <1>3, <1>4, <1>5, BaseInit DEF WriterInv, OnlyGhostsSkipped

LEMMA WriterStep ==
    ASSUME WriterInv, [Next]_vars
    PROVE  WriterInv'
BY BaseStep, RowStep, CutStep, TryStep, GhostStep DEF WriterInv

LEMMA Invariant == Spec => []WriterInv
BY WriterInit, WriterStep, PTL DEF Spec
\* Rows reach the database in the order they were enqueued, whatever is
\* re-queued or skipped in between (store.py:608-662).
THEOREM OrderKept == Spec => []OrderPreserved
<1>1. ASSUME WriterInv PROVE OrderPreserved
  <2> SUFFICES ASSUME NEW k \in Kinds
               PROVE  Ascending((db[k] \o batch[k]) \o buf[k])
    BY DEF OrderPreserved, Ascending
  <2>1. /\ db[k] \in Seq(Rows) /\ batch[k] \in Seq(Rows) /\ buf[k] \in Seq(Rows)
        /\ InOrder(db[k], batch[k], buf[k])
    BY <1>1, ListsAre DEF WriterInv, RowInv
  <2>2. db[k] \o batch[k] \in Seq(Rows) /\ InOrder(db[k] \o batch[k], <<>>, buf[k])
    BY <2>1, OrderMoves
  <2> QED BY <2>1, <2>2, JoinedRows DEF InOrder
<1>2. WriterInv => OrderPreserved
  BY <1>1
<1> QED BY <1>2, Invariant, PTL

\* A row that is held by a list is there once, under one kind.
LEMMA OccursOnce ==
    ASSUME NEW a \in [Kinds -> Seq(Rows)], \A k \in Kinds : Ascending(a[k]),
           Range(a["sample"]) \cap Range(a["event"]) = {}, NEW n \in In(a)
    PROVE  \E one \in Kinds \X Rows : Occurrences(n, a) = {one}
<1>1. PICK k \in Kinds : n \in Range(a[k])
  BY DEF In
<1>2. PICK i \in 1..Len(a[k]) : a[k][i] = n
  BY <1>1, RangeIs
<1>3. \A l \in Kinds : a[l] \in Seq(Rows) /\ Len(a[l]) \in Nat /\ DOMAIN a[l] = 1..Len(a[l])
                       /\ \A j \in 1..Len(a[l]) : a[l][j] \in Range(a[l]) /\ a[l][j] \in Nat
  <2> SUFFICES ASSUME NEW l \in Kinds
               PROVE  /\ a[l] \in Seq(Rows) /\ Len(a[l]) \in Nat /\ DOMAIN a[l] = 1..Len(a[l])
                      /\ \A j \in 1..Len(a[l]) : a[l][j] \in Range(a[l]) /\ a[l][j] \in Nat
    OBVIOUS
  <2>1. a[l] \in Seq(Rows)
    OBVIOUS
  <2>2. /\ Len(a[l]) \in Nat /\ DOMAIN a[l] = 1..Len(a[l])
        /\ Range(a[l]) = {a[l][j] : j \in 1..Len(a[l])} /\ Range(a[l]) \subseteq Rows
    BY <2>1, RangeIs
  <2> QED BY <2>1, <2>2, RowsAreNat
<1>4. Len(a[k]) <= MaxRows
  BY AscendingFits
<1>5. i \in Rows
  BY <1>3, <1>4, RowsAreNat
<1>6. <<k, i>> \in Occurrences(n, a)
  BY <1>2, <1>3, <1>5 DEF Occurrences
<1>7. ASSUME NEW o \in Occurrences(n, a) PROVE o = <<k, i>>
  <2>1. PICK l \in Kinds, j \in Rows : o = <<l, j>>
    BY DEF Occurrences
  <2>2. j \in 1..Len(a[l]) /\ a[l][j] = n
    BY <1>3, <2>1 DEF Occurrences
  <2>3. l = k
    BY <1>1, <1>3, <2>2 DEF Kinds
  <2>4. ~ (i < j) /\ ~ (j < i)
    BY <1>2, <1>3, <2>2, <2>3 DEF Ascending
  <2> QED BY <1>2, <1>3, <2>1, <2>2, <2>3, <2>4
<1> QED BY <1>5, <1>6, <1>7

LEMMA OccursNever ==
    ASSUME NEW a \in [Kinds -> Seq(Rows)], NEW n, n \notin In(a)
    PROVE  Occurrences(n, a) = {}
<1>1. \A k \in Kinds : \A i \in DOMAIN a[k] : a[k][i] \in In(a)
  BY DEF In, Range
<1> QED BY <1>1 DEF Occurrences

\* Every row enqueued is in one place once, or was given up for one reason: a
\* flush neither loses nor doubles a row (store.py:608-683).
THEOREM OnePlaceEach == Spec => []ExactlyOnePlace
<1>1. ASSUME WriterInv PROVE ExactlyOnePlace
  <2> SUFFICES ASSUME NEW n \in Enqueued
               PROVE  \E place \in {"buf", "batch", "db", "gone"} :
                        /\ place = "gone" <=> fate[n] # "none"
                        /\ \A p \in {<<"buf", buf>>, <<"batch", batch>>, <<"db", db>>} :
                             \E one \in Kinds \X Rows :
                               Occurrences(n, p[2]) = IF place = p[1] THEN {one} ELSE {}
    BY DEF ExactlyOnePlace
  <2>0. /\ buf \in [Kinds -> Seq(Rows)] /\ batch \in [Kinds -> Seq(Rows)]
        /\ db \in [Kinds -> Seq(Rows)]
    BY <1>1 DEF WriterInv, Base, TypeOK
  <2>1. Base /\ RowInv
    BY <1>1 DEF WriterInv
  <2>2. /\ n \in In(buf) => \E one \in Kinds \X Rows : Occurrences(n, buf) = {one}
        /\ n \in In(batch) => \E one \in Kinds \X Rows : Occurrences(n, batch) = {one}
        /\ n \in In(db) => \E one \in Kinds \X Rows : Occurrences(n, db) = {one}
    BY <2>0, <2>1, OccursOnce DEF RowInv, InOrder, Held
  <2>3. /\ n \notin In(buf) => Occurrences(n, buf) = {}
        /\ n \notin In(batch) => Occurrences(n, batch) = {}
        /\ n \notin In(db) => Occurrences(n, db) = {}
    BY <2>0, OccursNever
  <2>4. /\ In(buf) \cap In(batch) = {} /\ In(buf) \cap In(db) = {}
        /\ In(batch) \cap In(db) = {}
    <3>1. \A k \in Kinds : /\ In(buf) \cap (Range(db[k]) \cup Range(batch[k])) = {}
                           /\ In(batch) \cap Range(db[k]) = {}
      BY <2>1, WaitingApart, BatchApart
    <3> QED BY <2>1, <3>1, ListsAre DEF Kinds
  <2>5. fate[n] = "none" <=> n \in In(db) \cup In(batch) \cup In(buf)
    BY <2>1, ListsAre DEF RowInv
  <2>6. \E one \in Kinds \X Rows : TRUE
    <3>1. n \in Rows /\ "event" \in Kinds
      BY <2>1, RowsAreNat DEF Enqueued, Base, TypeOK, Kinds
    <3>2. <<"event", n>> \in Kinds \X Rows
      BY <3>1
    <3> QED BY <3>2
  <2> DEFINE Fits(place, name, list) ==
                \E one \in Kinds \X Rows :
                    Occurrences(n, list) = IF place = name THEN {one} ELSE {}
  <2>7. ASSUME NEW place \in {"buf", "batch", "db", "gone"},
               place = "buf" <=> n \in In(buf), place = "batch" <=> n \in In(batch),
               place = "db" <=> n \in In(db)
        PROVE  Fits(place, "buf", buf) /\ Fits(place, "batch", batch) /\ Fits(place, "db", db)
    BY <2>2, <2>3, <2>6, <2>7
  <2>8. PICK place \in {"buf", "batch", "db", "gone"} :
          /\ place = "buf" <=> n \in In(buf)
          /\ place = "batch" <=> n \in In(batch)
          /\ place = "db" <=> n \in In(db)
    <3>1. CASE n \in In(buf)
      BY <2>4, <3>1
    <3>2. CASE n \in In(batch)
      BY <2>4, <3>2
    <3>3. CASE n \in In(db)
      BY <2>4, <3>3
    <3>4. CASE n \notin In(buf) /\ n \notin In(batch) /\ n \notin In(db)
      BY <3>4
    <3> QED BY <3>1, <3>2, <3>3, <3>4
  <2>9. Fits(place, "buf", buf) /\ Fits(place, "batch", batch) /\ Fits(place, "db", db)
    BY <2>7, <2>8
  <2>10. place = "gone" <=> fate[n] # "none"
    BY <2>5, <2>8
  <2>11. \A p \in {<<"buf", buf>>, <<"batch", batch>>, <<"db", db>>} : Fits(place, p[1], p[2])
    <3> HIDE DEF Fits
    <3> QED BY <2>9
  <2> QED BY <2>10, <2>11
<1>2. WriterInv => ExactlyOnePlace
  BY <1>1
<1> QED BY <1>2, Invariant, PTL

\* Every row enqueued is in one place once and in its place in the order, or was
\* given up for one reason: a flush neither loses nor doubles a row, and stores
\* none before an older one that still waits (store.py:608-683).
THEOREM RowsStayInPlace == Spec => []RowsInPlace
<1>1. WriterInv => NewerWait
  BY DEF WriterInv, CutInv
<1>2. Spec => []NewerWait
  BY <1>1, Invariant, PTL
<1>3. Spec => [](ExactlyOnePlace /\ OrderPreserved /\ NewerWait)
  BY <1>2, OnePlaceEach, OrderKept, PTL
<1> QED BY <1>3 DEF RowsInPlace

-----------------------------------------------------------------------------
(* The store implements RowLog: only a commit, a drop, an exit and a crash *)
(* change what waits, and each takes the rows older than one instant.      *)

Waiting == [k \in Kinds |-> Range(batch[k]) \cup Range(buf[k])]
Stored == [k \in Kinds |-> Range(db[k])]

\* The batch was taken at an instant: every row of it is older than every row
\* that waits, of either kind.
LEMMA CutExists ==
    ASSUME Base, RowInv, CutInv
    PROVE  \E cut \in 1..next :
              /\ \A n \in In(batch) : n < cut
              /\ \A n \in In(buf) : ~ (n < cut)
<1>1. /\ In(buf) \subseteq 1..(next - 1) /\ In(batch) \subseteq 1..(next - 1)
      /\ next \in Nat \ {0}
  BY ListsAre, RowsAreNat DEF RowInv, Held, Kinds, Enqueued, Base, TypeOK
<1>2. CASE In(buf) = {}
  BY <1>1, <1>2
<1>3. CASE In(buf) # {}
  <2>1. In(buf) \in SUBSET Nat
    BY <1>1
  <2>2. PICK cut \in In(buf) : \A n \in In(buf) : cut <= n
    BY <1>3, <2>1, Smallest
  <2> QED BY <1>1, <2>2 DEF CutInv
<1> QED BY <1>2, <1>3

\* The rows older than the cut are those of the batch.
LEMMA CutIs ==
    ASSUME NEW cut, \A n \in In(batch) : n < cut, \A n \in In(buf) : ~ (n < cut),
           NEW k \in Kinds, In(batch) \cup In(buf) \subseteq Nat, cut \in Nat
    PROVE  /\ {n \in Waiting[k] : n >= cut} = Range(buf[k])
           /\ \A H : {n \in Waiting[k] : n < cut /\ owner[n] \in H}
                        = {n \in Range(batch[k]) : owner[n] \in H}
<1>1. Range(batch[k]) \subseteq In(batch) /\ Range(buf[k]) \subseteq In(buf)
  BY DEF In
<1>2. Waiting[k] = Range(batch[k]) \cup Range(buf[k])
  BY DEF Waiting
<1>3. \A n \in Range(batch[k]) : n < cut /\ ~ (n >= cut)
  BY <1>1
<1>4. \A n \in Range(buf[k]) : ~ (n < cut) /\ n >= cut
  BY <1>1
<1>5. {n \in Waiting[k] : n >= cut} = Range(buf[k])
  BY <1>2, <1>3, <1>4
<1>6. \A H : {n \in Waiting[k] : n < cut /\ owner[n] \in H}
                = {n \in Range(batch[k]) : owner[n] \in H}
  BY <1>2, <1>3, <1>4
<1> QED BY <1>5, <1>6

LEMMA LogInit == Init => Log!Init
<1>1. \A k \in Kinds : Nothing[k] = <<>> /\ Range(<<>>) = {}
  BY EmptyInOrder DEF Nothing
<1> QED BY <1>1 DEF Init, Log!Init, Kinds, Log!Kinds

LEMMA LogStep ==
    ASSUME WriterInv, [Next]_vars
    PROVE  [Log!Next]_(Log!vars)
<1> USE DEF WriterInv
<1> DEFINE waiting == [k \in Kinds |-> Range(batch[k]) \cup Range(buf[k])]
           stored == [k \in Kinds |-> Range(db[k])]
<1>0. /\ Log!Kinds = Kinds /\ waiting = Waiting /\ stored = Stored
      /\ Log!vars = <<hosts, next, owner, waiting, stored>>
  BY DEF Log!Kinds, Kinds, Waiting, Stored, Log!vars
<1>1. /\ next \in Nat /\ next \in 1..next /\ In(batch) \cup In(buf) \subseteq Nat
      /\ \A n \in In(batch) \cup In(buf) : n < next
  <2>1. In(batch) \cup In(buf) \subseteq 1..(next - 1) /\ next \in Nat \ {0}
    BY ListsAre, RowsAreNat DEF RowInv, Held, Kinds, Enqueued, Base, TypeOK
  <2> QED BY <2>1
\* Nothing waits or is stored that did not before, and the other way round.
<1>2. ASSUME \A k \in Kinds : /\ Range(batch'[k]) \cup Range(buf'[k]) =
                                    Range(batch[k]) \cup Range(buf[k])
                              /\ Range(db'[k]) = Range(db[k]),
             UNCHANGED <<hosts, next, owner>>
      PROVE  UNCHANGED Log!vars
  <2>1. waiting' = waiting /\ stored' = stored
    BY <1>2
  <2> QED BY <1>0, <1>2, <2>1 DEF Log!vars
\* The rows below a cut leave, those about a host of H into the database.
<1>3. ASSUME NEW H, NEW cut \in 1..next,
             \A k \in Kinds :
                /\ Range(batch'[k]) \cup Range(buf'[k]) = {n \in Waiting[k] : n >= cut}
                /\ Range(db'[k]) = Range(db[k])
                                     \cup {n \in Waiting[k] : n < cut /\ owner[n] \in H},
             UNCHANGED <<hosts, next, owner>>
      PROVE  Log!Leave(cut, H)
  <2>1. waiting' = [k \in Kinds |-> {n \in Waiting[k] : n >= cut}]
    BY <1>3
  <2>2. stored' = [k \in Kinds |->
                      stored[k] \cup {n \in Waiting[k] : n < cut /\ owner[n] \in H}]
    BY <1>3
  <2> QED BY <1>0, <1>3, <2>1, <2>2 DEF Log!Leave
<1>4. ASSUME NEW h \in Hosts, NEW k \in Kinds, Enqueue(h, k) PROVE Log!Next
  <2>1. /\ next' = next + 1 /\ owner' = Append(owner, h) /\ hosts' = hosts
        /\ batch' = batch /\ db' = db
    BY <1>4 DEF Enqueue
  <2>2. \A l \in Kinds : Range(batch'[l]) \cup Range(buf'[l]) =
                            IF l = k THEN waiting[k] \cup {next} ELSE waiting[l]
    BY <1>4, <2>1, EnqueueMoves
  <2>3. waiting' = [waiting EXCEPT ![k] = @ \cup {next}]
    <3>1. waiting' = [l \in Kinds |-> IF l = k THEN waiting[k] \cup {next} ELSE waiting[l]]
      BY <2>2
    <3>2. waiting = [l \in Kinds |-> waiting[l]]
      OBVIOUS
    <3> HIDE DEF waiting
    <3> QED BY <3>1, <3>2
  <2>4. stored' = stored
    BY <2>1
  <2>5. Log!Enqueue(h, k)
    BY <2>1, <2>3, <2>4 DEF Log!Enqueue
  <2> QED BY <1>0, <2>5 DEF Log!Next
<1>5. CASE FlushTakes
  <2>1. UNCHANGED <<hosts, next, owner>>
    BY <1>5 DEF FlushTakes
  <2>2. \A k \in Kinds : /\ Range(batch'[k]) \cup Range(buf'[k]) =
                              Range(batch[k]) \cup Range(buf[k])
                         /\ Range(db'[k]) = Range(db[k])
    BY <1>5, TakingMoves
  <2> QED BY <1>2, <2>1, <2>2
<1>6. CASE InsertCommits \/ FallbackCommits
  <2>1. PICK cut \in 1..next : /\ \A n \in In(batch) : n < cut
                               /\ \A n \in In(buf) : ~ (n < cut)
    BY CutExists
  <2>2. cut \in Nat
    BY <1>1, <2>1
  <2>3. ASSUME NEW k \in Kinds
        PROVE  /\ Range(batch'[k]) \cup Range(buf'[k]) = {n \in Waiting[k] : n >= cut}
               /\ Range(db'[k]) = Range(db[k])
                                    \cup {n \in Waiting[k] : n < cut /\ owner[n] \in hosts}
    <3>1. /\ {n \in Waiting[k] : n >= cut} = Range(buf[k])
          /\ {n \in Waiting[k] : n < cut /\ owner[n] \in hosts}
                = {n \in Range(batch[k]) : owner[n] \in hosts}
      BY <1>1, <2>1, <2>2, CutIs
    <3>2. /\ Range(db'[k]) = Range(db[k]) \cup {n \in Range(batch[k]) : owner[n] \in hosts}
          /\ Range(batch'[k]) = {} /\ buf'[k] = buf[k]
      BY <1>6, CommitMoves
    <3> QED BY <3>1, <3>2
  <2>4. Log!Leave(cut, hosts)
    BY <1>3, <1>6, <2>3, CommitMoves
  <2> QED BY <2>4 DEF Log!Next, Log!Flush
<1>7. CASE FlushFails
  <2>0. UNCHANGED <<hosts, next, owner>> /\ \A k \in Kinds : Range(db'[k]) = Range(db[k])
    BY <1>7, FailureMoves
  <2>1. CASE \A k \in Kinds : Range(buf'[k]) = Range(batch[k]) \cup Range(buf[k])
    <3>1. \A k \in Kinds : Range(batch'[k]) \cup Range(buf'[k]) =
                              Range(batch[k]) \cup Range(buf[k])
      BY <1>7, <2>1, FailureMoves
    <3> QED BY <1>2, <2>0, <3>1
  <2>2. CASE buf' = buf
    <3>1. PICK cut \in 1..next : /\ \A n \in In(batch) : n < cut
                                 /\ \A n \in In(buf) : ~ (n < cut)
      BY CutExists
    <3>2. cut \in Nat
      BY <1>1, <3>1
    <3>3. ASSUME NEW k \in Kinds
          PROVE  /\ Range(batch'[k]) \cup Range(buf'[k]) = {n \in Waiting[k] : n >= cut}
                 /\ Range(db'[k]) = Range(db[k])
                                      \cup {n \in Waiting[k] : n < cut /\ owner[n] \in {}}
      <4>1. {n \in Waiting[k] : n >= cut} = Range(buf[k])
        BY <1>1, <3>1, <3>2, CutIs
      <4> QED BY <1>7, <2>0, <2>2, <4>1, FailureMoves
    <3>4. Log!Leave(cut, {})
      BY <1>3, <2>0, <3>3
    <3> QED BY <3>4 DEF Log!Next, Log!GiveUp
  <2> QED BY <1>7, <2>1, <2>2, FailureMoves
<1>8. ASSUME NEW h \in Hosts, DeleteHost(h) PROVE Log!Next
  <2>1. h \in hosts /\ hosts' = hosts \ {h} /\ UNCHANGED <<next, owner>>
    BY <1>8 DEF DeleteHost
  <2>2. waiting' = waiting
    BY <1>8, DeletionMoves
  <2>3. stored' = [k \in Kinds |-> {n \in stored[k] : owner[n] # h}]
    BY <1>8, DeletionMoves
  <2>4. Log!DeleteHost(h)
    BY <1>0, <2>1, <2>2, <2>3 DEF Log!DeleteHost
  <2> QED BY <2>1, <2>4 DEF Log!Next
<1>9. CASE ProcessExits \/ Crash
  <2>1. UNCHANGED <<hosts, next, owner>>
    BY <1>9, LossMoves
  <2>2. ASSUME NEW k \in Kinds
        PROVE  /\ Range(batch'[k]) \cup Range(buf'[k]) = {n \in Waiting[k] : n >= next}
               /\ Range(db'[k]) = Range(db[k])
                                    \cup {n \in Waiting[k] : n < next /\ owner[n] \in {}}
    <3>1. \A n \in Waiting[k] : ~ (n >= next)
      <4>1. Waiting[k] \subseteq In(batch) \cup In(buf)
        BY DEF Waiting, In
      <4> QED BY <1>1, <4>1
    <3>2. {n \in Waiting[k] : n >= next} = {}
      BY <3>1
    <3> QED BY <1>9, <3>2, LossMoves
  <2>3. Log!Leave(next, {})
    BY <1>1, <1>3, <2>1, <2>2
  <2> QED BY <1>1, <2>3 DEF Log!Next, Log!GiveUp
<1>10. CASE InsertViolates \/ Close \/ UNCHANGED vars
  <2>1. db' = db /\ batch' = batch /\ buf' = buf /\ UNCHANGED <<hosts, next, owner>>
    BY <1>10 DEF InsertViolates, Close, vars
  <2> QED BY <1>2, <2>1
<1> QED BY <1>4, <1>5, <1>6, <1>7, <1>8, <1>9, <1>10 DEF Next, FlushStep

\* Whatever is buffered, batched, retried, given up or lost, the database
\* receives rows as RowLog does: those of both kinds older than an instant, at
\* once, and of hosts that exist (store.py:608-683).
THEOREM RowLogIsImplemented == Spec => ImplementsRowLog
BY Invariant, LogInit, LogStep, PTL DEF Spec, Log!Spec, ImplementsRowLog

-----------------------------------------------------------------------------
(* Why a row is lost.                                                      *)

LEMMA DropStep ==
    ASSUME WriterInv, [Next]_vars, NEW d \in Rows, fate[d] = "none", fate'[d] = "dropped"
    PROVE  \E n \in {m \in Rows : fate[m] = "none" /\ fate'[m] = "dropped"} : tries'[n] = 3
<1> USE DEF WriterInv
<1>1. FlushFails /\ ~ Requeues(Counted)
  <2>1. ~ (\E h \in Hosts, k \in Kinds : Enqueue(h, k))
    BY DEF Enqueue
  <2>2. ~ FlushTakes /\ ~ InsertCommits /\ ~ InsertViolates /\ ~ Close /\ vars' # vars
    BY DEF FlushTakes, InsertCommits, InsertViolates, Close, vars
  <2>3. ~ FallbackCommits /\ ~ ProcessExits /\ ~ Crash /\ ~ (\E h \in Hosts : DeleteHost(h))
    BY DEF FallbackCommits, ProcessExits, Crash, DeleteHost, Doom
  <2>4. FlushFails
    BY <2>1, <2>2, <2>3 DEF Next, FlushStep
  <2> QED BY <2>4 DEF FlushFails
<1>2. failures = 2
  BY <1>1, TryTyped DEF Requeues, Counted
<1>3. PICK n \in In(batch) : tries'[n] = failures + 1
  BY <1>1, FailureCounted
<1>4. fate'[n] = "dropped" /\ n \in Rows
  BY <1>1, ListsAre DEF FlushFails, Doom
<1>5. fate[n] = "none"
  <2>1. n \in Enqueued /\ n \in Held("sample") \cup Held("event")
    BY ListsAre DEF RowInv, Kinds
  <2> QED BY <2>1 DEF RowInv
<1> QED BY <1>2, <1>3, <1>4, <1>5

LEMMA CloseStep ==
    ASSUME WriterInv, [Next]_vars, phase' = "closed", phase # "closed"
    PROVE  buf' = Nothing \/ tries' # tries
<1> USE DEF WriterInv
<1>1. /\ ~ (\E h \in Hosts, k \in Kinds : Enqueue(h, k)) /\ ~ InsertViolates
      /\ ~ (\E h \in Hosts : DeleteHost(h)) /\ ~ Close /\ ~ ProcessExits
      /\ ~ Crash /\ vars' # vars
  BY DEF Enqueue, InsertViolates, DeleteHost, Close, ProcessExits, Crash, vars
<1>2. CASE FlushTakes
  BY <1>2 DEF FlushTakes
<1>3. CASE InsertCommits \/ FallbackCommits
  <2>1. pc \in {"insert", "fallback"} /\ FlushReturns /\ buf' = buf
    BY <1>3 DEF InsertCommits, FallbackCommits, Committed
  <2>2. flusher = "close"
    BY <2>1 DEF FlushReturns
  <2> QED BY <2>1, <2>2 DEF Base, PhaseInv
<1>4. CASE FlushFails
  <2>1. PICK n \in In(batch) : tries'[n] = failures + 1
    BY <1>4, FailureCounted
  <2>2. tries[n] <= failures /\ tries[n] \in Nat /\ failures \in Nat
    BY TryTyped DEF TryInv
  <2> QED BY <2>1, <2>2
<1> QED BY <1>1, <1>2, <1>3, <1>4 DEF Next, FlushStep

\* A row is lost because its host is gone, because its batch failed three times
\* running, or because the last flush of all failed, and for no other reason
\* (store.py:233-239, 643-662).
THEOREM LossesHaveReasons == Spec => LossesJustified
<1>1. WriterInv /\ [Next]_vars =>
        [LET dropped == {n \in Rows : fate[n] = "none" /\ fate'[n] = "dropped"}
         IN dropped # {} => \E n \in dropped : tries'[n] = 3]_vars
  BY DropStep
<1>2. WriterInv /\ [Next]_vars =>
        [phase' = "closed" /\ phase # "closed" =>
            buf' = Nothing \/ (tries' # tries)]_vars
  BY CloseStep
<1>3. WriterInv => OnlyGhostsSkipped
  BY DEF WriterInv
<1>4. Spec => DropNeedsThreeFailures
  BY <1>1, Invariant, PTL DEF Spec, DropNeedsThreeFailures
<1>5. Spec => CloseFlushes
  BY <1>2, Invariant, PTL DEF Spec, CloseFlushes
<1>6. Spec => []OnlyGhostsSkipped
  BY <1>3, Invariant, PTL
<1> QED BY <1>4, <1>5, <1>6 DEF LossesJustified
-----------------------------------------------------------------------------
(* How far the flush is from done.  WriterGetsDone is a matter of fairness; *)
(* that every step the flush takes is a step nearer is not.                *)

StepsOfFlush == [waiting |-> 3, insert |-> 2, fallback |-> 1, done |-> 0]
StepsToClose == StepsOfFlush[pc] + IF flusher = "writer" THEN 3 ELSE 0

\* Once _stop is set, six steps of the flush at most, answered well or badly,
\* are left until close() returns, and nothing but a crash adds one.
CloseNears ==
    [][phase = "closing" =>
         /\ FlushStep => StepsToClose' < StepsToClose
         /\ Crash \/ (StepsToClose' <= StepsToClose /\ phase' # "open")]_vars

Size(lists) == Len(lists["sample"]) + Len(lists["event"])
RowsInMemory == Size(batch) + Size(buf)
Retries == IF pc = "fallback" THEN 0 ELSE IF pc = "insert" THEN 1 ELSE 2
Effort == 9 * RowsInMemory + 3 * (2 - failures) + Retries

\* Rows in memory take at most nine steps of the flush each, and eight more, to
\* leave it, also when no transaction ever succeeds: a step of the flush lowers
\* the effort ahead, and only a row enqueued raises it, by its nine steps.
MemoryEmpties ==
    [][RowsInMemory > 0 =>
         /\ FlushStep => Effort' < Effort
         /\ Effort' <= Effort + 9 * (next' - next)]_vars

LEMMA LengthAdds ==
    ASSUME NEW s \in Seq(Rows), NEW t \in Seq(Rows)
    PROVE  /\ Len(s) + Len(t) \in Nat /\ Len(s \o t) = Len(s) + Len(t)
           /\ Len(s) + Len(t) = 0 <=> s = <<>> /\ t = <<>>
OBVIOUS

LEMMA SizeIs ==
    ASSUME NEW a \in [Kinds -> Seq(Rows)]
    PROVE  Size(a) \in Nat /\ (Size(a) = 0 <=> a = Nothing)
<1>1. a["sample"] \in Seq(Rows) /\ a["event"] \in Seq(Rows)
  BY DEF Kinds
<1>2. /\ Size(a) \in Nat
      /\ Size(a) = 0 <=> a["sample"] = <<>> /\ a["event"] = <<>>
  BY <1>1, LengthAdds DEF Size
<1>3. a = Nothing <=> a["sample"] = <<>> /\ a["event"] = <<>>
  BY DEF Nothing, Kinds
<1> QED BY <1>2, <1>3

LEMMA SizeJoined ==
    ASSUME NEW a, NEW b, a \in [Kinds -> Seq(Rows)], b \in [Kinds -> Seq(Rows)]
    PROVE  Size([k \in Kinds |-> a[k] \o b[k]]) = Size(a) + Size(b)
<1> DEFINE c == [k \in Kinds |-> a[k] \o b[k]]
<1>1. c["sample"] = a["sample"] \o b["sample"] /\ c["event"] = a["event"] \o b["event"]
  BY DEF Kinds
<1>2. /\ a["sample"] \in Seq(Rows) /\ a["event"] \in Seq(Rows)
      /\ b["sample"] \in Seq(Rows) /\ b["event"] \in Seq(Rows)
  BY DEF Kinds
<1>3. /\ Len(c["sample"]) = Len(a["sample"]) + Len(b["sample"])
      /\ Len(c["event"]) = Len(a["event"]) + Len(b["event"])
  <2>1. /\ Len(a["sample"] \o b["sample"]) = Len(a["sample"]) + Len(b["sample"])
        /\ Len(a["event"] \o b["event"]) = Len(a["event"]) + Len(b["event"])
    BY <1>2, LengthAdds
  <2> HIDE DEF c
  <2> QED BY <1>1, <2>1
<1>4. /\ Len(a["sample"]) \in Nat /\ Len(a["event"]) \in Nat
      /\ Len(b["sample"]) \in Nat /\ Len(b["event"]) \in Nat
  BY <1>2
<1> HIDE DEF c
<1> DEFINE la == Len(a["sample"])
           lb == Len(a["event"])
           lc == Len(b["sample"])
           ld == Len(b["event"])
<1>5. Size(c) = (la + lc) + (lb + ld) /\ Size(a) + Size(b) = (la + lb) + (lc + ld)
  BY <1>3 DEF Size
<1> HIDE DEF la, lb, lc, ld
<1>6. la \in Nat /\ lb \in Nat /\ lc \in Nat /\ ld \in Nat
  BY <1>4 DEF la, lb, lc, ld
<1>7. Size(c) = Size(a) + Size(b)
  BY ONLY <1>5, <1>6
<1> QED BY <1>7 DEF c

LEMMA SizeAppended ==
    ASSUME NEW a, a \in [Kinds -> Seq(Rows)], NEW k \in Kinds, NEW n \in Rows
    PROVE  Size([a EXCEPT ![k] = Append(@, n)]) = Size(a) + 1
<1> DEFINE c == [a EXCEPT ![k] = Append(@, n)]
<1>1. a["sample"] \in Seq(Rows) /\ a["event"] \in Seq(Rows)
  BY DEF Kinds
<1>2. /\ Len(a["sample"]) \in Nat /\ Len(a["event"]) \in Nat
      /\ Len(Append(a["sample"], n)) = Len(a["sample"]) + 1
      /\ Len(Append(a["event"], n)) = Len(a["event"]) + 1
  BY <1>1
<1>3. \/ c["sample"] = Append(a["sample"], n) /\ c["event"] = a["event"]
      \/ c["event"] = Append(a["event"], n) /\ c["sample"] = a["sample"]
  BY DEF Kinds
<1> HIDE DEF c
<1> DEFINE la == Len(a["sample"])
           lb == Len(a["event"])
<1>4. Size(a) = la + lb /\ (Size(c) = (la + 1) + lb \/ Size(c) = la + (lb + 1))
  BY <1>2, <1>3 DEF Size
<1>5. la \in Nat /\ lb \in Nat
  BY <1>2
<1> HIDE DEF la, lb
<1>6. Size(c) = Size(a) + 1
  BY ONLY <1>4, <1>5
<1> QED BY <1>6 DEF c

LEMMA SizesAre ==
    ASSUME Base
    PROVE  /\ batch \in [Kinds -> Seq(Rows)] /\ buf \in [Kinds -> Seq(Rows)]
           /\ Size(batch) \in Nat /\ Size(buf) \in Nat /\ Size(Nothing) = 0
           /\ Size(batch) = 0 <=> batch = Nothing
           /\ Size(buf) = 0 <=> buf = Nothing
           /\ RowsInMemory \in Nat /\ failures \in 0..2 /\ Retries \in 0..2
<1>1. batch \in [Kinds -> Seq(Rows)] /\ buf \in [Kinds -> Seq(Rows)] /\ failures \in 0..2
  BY DEF Base, TypeOK
<1>2. Retries \in 0..2
  BY DEF Retries
<1>3. /\ Size(batch) \in Nat /\ Size(buf) \in Nat
      /\ Size(batch) = 0 <=> batch = Nothing
      /\ Size(buf) = 0 <=> buf = Nothing
  BY <1>1, SizeIs
<1>4. Size(Nothing) = 0
  BY NothingIs, SizeIs
<1>5. RowsInMemory \in Nat
  BY <1>3 DEF RowsInMemory
<1> QED BY <1>1, <1>2, <1>3, <1>4, <1>5

EffortTyped == RowsInMemory \in Nat /\ failures \in 0..2 /\ Retries \in 0..2

LEMMA EffortNow == Base => EffortTyped
BY SizesAre DEF EffortTyped

LEMMA EffortNext == Base' => EffortTyped'
BY EffortNow, PTL

\* With nothing in memory at most eight steps are left over.
LEMMA EffortLow == RowsInMemory = 0 /\ EffortTyped => Effort \in 0..8
BY DEF Effort, EffortTyped

LEMMA EffortLowNext == (RowsInMemory = 0)' /\ EffortTyped' => (Effort \in 0..8)'
BY EffortLow, PTL

LEMMA FlushNears ==
    ASSUME WriterInv, FlushStep
    PROVE  /\ RowsInMemory > 0 => Effort' < Effort
           /\ phase = "closing" => StepsToClose' < StepsToClose /\ phase' # "open"
<1> USE DEF WriterInv
<1>1. CASE InsertViolates
  <2>1. pc = "insert" /\ pc' = "fallback" /\ UNCHANGED <<batch, buf, failures, flusher, phase>>
    BY <1>1 DEF InsertViolates
  <2>2. RowsInMemory' = RowsInMemory /\ Retries' = 0 /\ Retries = 1
    BY <2>1 DEF RowsInMemory, Retries
  <2> QED BY <2>1, <2>2, SizesAre DEF Effort, StepsToClose, StepsOfFlush
\* The other steps return from the flush, or begin one.
<1>2. ASSUME FlushReturns, pc # "done"
      PROVE  phase = "closing" =>
                /\ phase' # "open"
                /\ pc \in {"insert", "fallback"} => StepsToClose' < StepsToClose
                /\ pc = "waiting" => StepsToClose' < StepsToClose
  BY <1>2 DEF FlushReturns, StepsToClose, StepsOfFlush, Base, TypeOK
<1>3. CASE FlushTakes
  <2>1. /\ pc = "waiting" /\ batch = Nothing /\ batch' = buf /\ buf' = Nothing
        /\ failures' = failures
        /\ buf # Nothing => pc' = "insert" /\ UNCHANGED <<flusher, phase>>
        /\ buf = Nothing => FlushReturns
    BY <1>3 DEF FlushTakes, Base, PhaseInv
  <2>2. RowsInMemory' = RowsInMemory /\ (RowsInMemory > 0 => buf # Nothing)
    BY <2>1, SizesAre DEF RowsInMemory
  <2>3. RowsInMemory > 0 => Retries' = 1 /\ Retries = 2
    BY <2>1, <2>2 DEF Retries
  <2>4. buf # Nothing => StepsToClose' < StepsToClose
    BY <2>1 DEF StepsToClose, StepsOfFlush, Base, TypeOK
  <2> QED BY <1>2, <2>1, <2>2, <2>3, <2>4, SizesAre DEF Effort
<1>4. CASE InsertCommits \/ FallbackCommits \/ FlushFails
  <2>1. pc \in {"insert", "fallback"} /\ FlushReturns /\ batch' = Nothing
    BY <1>4 DEF InsertCommits, FallbackCommits, Committed, FlushFails
  <2>2. Retries' = 2 /\ Size(batch') = 0 /\ Size(batch) > 0
    BY <2>1, FlushReturnsTyped, SizesAre DEF Retries, Base, PhaseInv
  <2>3. \/ buf' = buf /\ failures' = 0
        \/ failures' = failures + 1 /\ buf' = [k \in Kinds |-> batch[k] \o buf[k]]
    BY <1>4 DEF InsertCommits, FallbackCommits, Committed, FlushFails, Requeued, Counted
  <2>4. CASE buf' = buf /\ failures' = 0
    <3>1. RowsInMemory' = RowsInMemory - Size(batch)
      BY <2>2, <2>4, SizesAre DEF RowsInMemory
    <3>2. Effort' < Effort
      BY <2>2, <2>4, <3>1, SizesAre DEF Effort
    <3> QED BY <1>2, <2>1, <3>2
  <2>5. CASE failures' = failures + 1 /\ buf' = [k \in Kinds |-> batch[k] \o buf[k]]
    <3>1. Size(buf') = Size(batch) + Size(buf)
      BY <2>5, SizesAre, SizeJoined
    <3>2. RowsInMemory' = RowsInMemory
      BY <2>2, <3>1, SizesAre DEF RowsInMemory
    <3>3. Effort' < Effort
      BY <2>2, <2>5, <3>2, SizesAre DEF Effort
    <3> QED BY <1>2, <2>1, <3>3
  <2> QED BY <2>3, <2>4, <2>5
<1> QED BY <1>1, <1>3, <1>4 DEF FlushStep

LEMMA NothingHoldsBack ==
    ASSUME WriterInv, [Next]_vars, RowsInMemory > 0
    PROVE  Effort' <= Effort + 9 * (next' - next)
<1> USE DEF WriterInv
<1>0. next \in Nat /\ EffortTyped
  BY EffortNow DEF Base, TypeOK
<1>1. ASSUME NEW h \in Hosts, NEW k \in Kinds, Enqueue(h, k)
      PROVE  Effort' <= Effort + 9 * (next' - next)
  <2>1. /\ next' = next + 1 /\ buf' = [buf EXCEPT ![k] = Append(@, next)]
        /\ UNCHANGED <<batch, failures, pc>>
    BY <1>1 DEF Enqueue
  <2>2. Size(buf') = Size(buf) + 1
    <3>1. next \in Rows
      BY <1>1, EnqueueMoves
    <3> QED BY <2>1, <3>1, SizesAre, SizeAppended
  <2>3. RowsInMemory' = RowsInMemory + 1
    BY <2>1, <2>2, SizesAre DEF RowsInMemory
  <2>4. Retries' = Retries
    BY <2>1 DEF Retries
  <2>5. next' - next = 1
    BY <1>0, <2>1
  <2> QED BY <1>0, <2>1, <2>3, <2>4, <2>5 DEF Effort, EffortTyped
<1>2. CASE FlushStep
  <2>1. Effort' < Effort /\ next' = next
    BY <1>2, FlushNears DEF FlushStep, FlushTakes, InsertCommits, InsertViolates,
       FallbackCommits, Committed, FlushFails
  <2>2. Effort \in Int /\ Effort' \in Int
    <3>1. EffortTyped'
      BY BaseStep, EffortNext
    <3> QED BY <1>0, <3>1 DEF Effort, EffortTyped
  <2> QED BY <1>0, <2>1, <2>2
<1>3. CASE ProcessExits \/ Crash
  <2>1. /\ batch' = Nothing /\ buf' = Nothing /\ next' = next
        /\ failures' \in {0, failures} /\ Retries' \in 0..2
    BY <1>3 DEF ProcessExits, Crash, Base, PhaseInv, Retries
  <2>2. RowsInMemory' = 0
    BY <2>1, SizesAre DEF RowsInMemory
  <2>5. Effort' \in 0..8
    BY <2>2, BaseStep, EffortNext, EffortLowNext
  <2>6. Effort \in Int /\ Effort >= 9
    BY <1>0 DEF Effort, EffortTyped
  <2>3. next' - next = 0
    BY <1>0, <2>1
  <2> QED BY <2>3, <2>5, <2>6
<1>4. CASE Close \/ (\E h \in Hosts : DeleteHost(h)) \/ UNCHANGED vars
  <2>1. UNCHANGED <<buf, batch, failures, pc, next>>
    BY <1>4 DEF Close, DeleteHost, vars
  <2>2. Effort' = Effort
    BY <2>1 DEF Effort, RowsInMemory, Retries
  <2>3. Effort \in Int
    BY <1>0 DEF Effort, EffortTyped
  <2> QED BY <1>0, <2>1, <2>2, <2>3
<1> QED BY <1>1, <1>2, <1>3, <1>4 DEF Next

\* From _stop on the flush is never sent back: close() is at most six of its
\* steps away, however the database answers them (store.py:233-239, 602-642).
THEOREM CloseIsNear == Spec => CloseNears
<1>1. ASSUME WriterInv, [Next]_vars, phase = "closing", ~Crash
      PROVE  StepsToClose' <= StepsToClose /\ phase' # "open"
  <2>0. StepsToClose \in Int /\ StepsToClose' \in Int
    <3>1. Base /\ Base'
      BY <1>1, BaseStep DEF WriterInv
    <3>2. pc \in DOMAIN StepsOfFlush /\ pc' \in DOMAIN StepsOfFlush
      BY <3>1 DEF Base, TypeOK, StepsOfFlush
    <3> QED BY <3>2 DEF StepsToClose, StepsOfFlush
  <2>1. CASE FlushStep
    BY <1>1, <2>0, <2>1, FlushNears
  <2>2. CASE UNCHANGED <<pc, flusher, phase>>
    BY <1>1, <2>0, <2>2 DEF StepsToClose
  <2> QED BY <1>1, <2>1, <2>2
          DEF Next, Enqueue, DeleteHost, Close, ProcessExits, vars
<1>2. WriterInv /\ [Next]_vars =>
        [phase = "closing" =>
           /\ FlushStep => StepsToClose' < StepsToClose
           /\ Crash \/ (StepsToClose' <= StepsToClose /\ phase' # "open")]_vars
  BY <1>1, FlushNears
<1> QED BY <1>2, Invariant, PTL DEF Spec, CloseNears

\* A writer that works on gets rid of every row, into the database or out of it,
\* within nine steps a row: no batch is retried for ever (store.py:643-662).
THEOREM MemoryIsEmptied == Spec => MemoryEmpties
<1>1. WriterInv /\ [Next]_vars =>
        [RowsInMemory > 0 =>
           /\ FlushStep => Effort' < Effort
           /\ Effort' <= Effort + 9 * (next' - next)]_vars
  BY FlushNears, NothingHoldsBack
<1> QED BY <1>1, Invariant, PTL DEF Spec, MemoryEmpties
=============================================================================
