----------------------------- MODULE DataProofs -----------------------------
(***************************************************************************)
(* Proofs about the two modules that compute an answer from data: AuditLog *)
(* for logs of any length and any largest id, and Money for any largest    *)
(* amount and rate.  The two have no state in common.                      *)
(***************************************************************************)
EXTENDS AuditLog, Money, FiniteSetTheorems, NaturalsInduction, SequenceTheorems,
        WellFoundedInduction, TLAPS

\* The type, with unique ids that are below the next one: IdsStayUnique is
\* inductive over it.
LogInvariant == TypeOK /\ IdsStayUnique

LEMMA RecordKeepsLog ==
    ASSUME LogInvariant, NEW time \in Times, NEW action \in Actions, NEW outcome \in Outcomes,
           NEW target \in Optional(Targets), Record(time, action, outcome, target)
    PROVE  LogInvariant'
<1> DEFINE e == [id |-> next_id, occurred_at |-> time, action |-> action,
                 outcome |-> outcome, target |-> target]
           n == Len(entries)
<1>1. /\ entries \in Seq(Entry) /\ next_id \in 1..MaxAuditId
      /\ entries' = Append(entries, e) /\ next_id' = next_id + 1 /\ next_id < MaxAuditId
      /\ MaxAuditId \in Nat
  BY LogAssumption DEF LogInvariant, TypeOK, Record
<1>2. e \in Entry
  BY <1>1 DEF Entry
<1>3. entries' \in Seq(Entry) /\ next_id' \in 1..MaxAuditId
  BY <1>1, <1>2
<1>4. /\ DOMAIN entries' = 1..(n + 1)
      /\ \A i \in 1..n : entries'[i] = entries[i]
      /\ entries'[n + 1] = e
      /\ DOMAIN entries = 1..n /\ n \in Nat
  BY <1>1, <1>2
<1>5. \A i \in 1..n : entries[i].id < next_id /\ entries[i].id # 0 /\ entries[i].id \in Nat
  <2>1. \A i \in 1..n : entries[i].id \in Ids(entries)
    BY <1>4 DEF Ids
  <2>2. \A i \in 1..n : entries[i] \in Entry
    BY <1>1, <1>4
  <2> QED
    BY <2>1, <2>2 DEF LogInvariant, IdsStayUnique, Accepts, Entry
<1>6. \A i, j \in 1..n : entries[i].id = entries[j].id => i = j
  BY <1>4 DEF LogInvariant, IdsStayUnique, Accepts
<1>7. e.id = next_id
  OBVIOUS
<1> HIDE DEF e
<1>8. \A i \in 1..(n + 1) : i \in 1..n \/ i = n + 1
  BY <1>4
<1>9. \A i \in 1..(n + 1) : entries'[i].id < next_id + 1 /\ entries'[i].id # 0
                            /\ entries'[i].id # MaxAuditId
  BY <1>1, <1>4, <1>5, <1>7, <1>8
<1>10. \A i, j \in 1..(n + 1) : entries'[i].id = entries'[j].id => i = j
  BY <1>1, <1>4, <1>5, <1>6, <1>7, <1>8
<1>11. Accepts(entries')
  BY <1>4, <1>9, <1>10 DEF Accepts, Ids
<1>12. \A id \in Ids(entries') : id < next_id'
  BY <1>1, <1>4, <1>9 DEF Ids
<1> QED
  BY <1>3, <1>11, <1>12 DEF LogInvariant, TypeOK, IdsStayUnique

LEMMA FromEntriesKeepsLog ==
    ASSUME NEW log \in Seq(Entry), Ids(log) \subseteq 0..MaxAuditId, FromEntries(log)
    PROVE  LogInvariant'
<1>1. MaxAuditId \in Nat \ {0}
  BY LogAssumption
<1>2. Accepts(log) /\ entries' = log
  BY DEF FromEntries
<1>3. PICK largest \in Ids(log) \cup {0} :
        (\A id \in Ids(log) : id <= largest) /\ next_id' = largest + 1
  BY DEF FromEntries
<1>4. largest \in 0..MaxAuditId /\ largest # MaxAuditId
  BY <1>1, <1>2 DEF Accepts
<1>5. next_id' \in 1..MaxAuditId
  BY <1>1, <1>3, <1>4
<1>6. \A id \in Ids(log) : id < next_id'
  BY <1>1, <1>3, <1>4
<1> QED
  BY <1>2, <1>5, <1>6 DEF LogInvariant, TypeOK, IdsStayUnique

LEMMA LogsAreTyped ==
    ASSUME NEW log \in Logs
    PROVE  log \in Seq(Entry) /\ Ids(log) \subseteq 0..MaxAuditId
<1> DEFINE E == [id : 0..MaxAuditId, occurred_at : Times, action : Actions,
                 outcome : Outcomes, target : {{}}]
<1>1. PICK n \in 0..MaxLoaded : log \in [1..n -> E]
  BY DEF Logs
<1>2. E \subseteq Entry
  BY LogAssumption DEF Entry, Optional
<1>3. \A i \in DOMAIN log : log[i] \in E
  BY <1>1
<1>4. Ids(log) \subseteq 0..MaxAuditId
  BY <1>3 DEF Ids
<1> HIDE DEF E
<1>5. n \in Nat /\ log \in [1..n -> Entry]
  BY <1>1, <1>2, LogAssumption
<1>6. log \in Seq(Entry)
  BY <1>5, SeqDef
<1> QED
  BY <1>4, <1>6

\* The inductive invariant.
THEOREM LogIsSound == Spec => []LogInvariant
<1>1. Init => LogInvariant
  BY LogAssumption DEF Init, LogInvariant, TypeOK, IdsStayUnique, Accepts, Ids
<1>2. ASSUME LogInvariant, [Next]_vars
      PROVE  LogInvariant'
  <2> USE <1>2
  <2>1. ASSUME NEW time \in Times, NEW action \in Actions, NEW outcome \in Outcomes,
               NEW target \in Optional(Targets), Record(time, action, outcome, target)
        PROVE  LogInvariant'
    BY <2>1, RecordKeepsLog
  <2>2. ASSUME NEW log \in Logs, FromEntries(log)
        PROVE  LogInvariant'
    BY <2>2, LogsAreTyped, FromEntriesKeepsLog
  <2>3. CASE UNCHANGED vars
    BY <2>3 DEF vars, LogInvariant, TypeOK, IdsStayUnique
  <2> QED
    BY <2>1, <2>2, <2>3 DEF Next
<1> QED
  BY <1>1, <1>2, PTL DEF Spec

\* The log has its type: the next id is one that can be taken.
THEOREM TypeInvariant == Spec => []TypeOK
BY LogIsSound, PTL DEF LogInvariant

\* The next id is new, whatever the order and the gaps of a log that was
\* loaded, so that the log is accepted when it is read again.
THEOREM IdsAreUnique == Spec => []IdsStayUnique
BY LogIsSound, PTL DEF LogInvariant

-----------------------------------------------------------------------------
(***************************************************************************)
(* The pages.  Filtered goes through a log with a recursive function, so   *)
(* what it computes follows from the partial results: they exist for a log *)
(* of every length, and each has the places up to it in order.             *)
(***************************************************************************)

\* A nonempty set of natural numbers has a least element.
LEMMA LeastNatural ==
    ASSUME NEW T \in SUBSET Nat, T # {}
    PROVE  \E x \in T : \A y \in T : x <= y
<1> DEFINE Smaller == OpToRel(<, Nat)
<1>1. Smaller = {pair \in Nat \X Nat : pair[1] < pair[2]}
  BY DEF OpToRel
<1>2. IsWellFoundedOn(Smaller, Nat)
  BY NatLessThanWellFounded
<1> HIDE DEF Smaller
<1>3. PICK x \in T : \A y \in T : ~(<<y, x>> \in Smaller)
  BY <1>2, WFMin
<1>4. ASSUME NEW y \in T
      PROVE  x <= y
  <2>1. SUFFICES ASSUME y < x
                 PROVE  FALSE
    OBVIOUS
  <2>2. <<y, x>> \in Nat \X Nat /\ <<y, x>>[1] = y /\ <<y, x>>[2] = x
    OBVIOUS
  <2>3. <<y, x>> \in Smaller
    BY <1>1, <2>1, <2>2, Zenon
  <2> QED
    BY <1>3, <2>3
<1> QED
  BY <1>4

\* The partial results of the filter, one per prefix.
FilterUpTo(n, log, S, first) ==
    first = [i \in 0..n |->
               IF i = 0 THEN << >>
               ELSE IF i \in S THEN Append(first[i - 1], log[i]) ELSE first[i - 1]]

\* There is such a family for every log: the least length without one would
\* extend the family of the length before.
LEMMA FiltersExist ==
    ASSUME NEW log, NEW S, NEW n \in Nat
    PROVE  \E first : FilterUpTo(n, log, S, first)
<1> DEFINE Has(m) == \E first : FilterUpTo(m, log, S, first)
           T == {m \in Nat : ~Has(m)}
<1>1. SUFFICES ASSUME T # {}
               PROVE  FALSE
  OBVIOUS
<1>2. PICK m \in T : \A k \in T : m <= k
  BY <1>1, LeastNatural
<1>3. Has(0)
  <2> DEFINE first == [i \in 0..0 |-> << >>]
  <2>1. first = [i \in 0..0 |->
                   IF i = 0 THEN << >>
                   ELSE IF i \in S THEN Append(first[i - 1], log[i]) ELSE first[i - 1]]
    OBVIOUS
  <2> QED
    BY <2>1 DEF FilterUpTo
<1>4. m # 0 /\ m - 1 \in Nat
  BY <1>2, <1>3
<1>5. Has(m - 1)
  BY <1>2, <1>4
<1>6. PICK g : FilterUpTo(m - 1, log, S, g)
  BY <1>5
<1> DEFINE last  == IF m \in S THEN Append(g[m - 1], log[m]) ELSE g[m - 1]
           first == [i \in 0..m |-> IF i = m THEN last ELSE g[i]]
<1>7. \A i \in 0..(m - 1) :
        g[i] = IF i = 0 THEN << >>
               ELSE IF i \in S THEN Append(g[i - 1], log[i]) ELSE g[i - 1]
  BY <1>6 DEF FilterUpTo
<1>8. /\ first = [i \in 0..m |-> first[i]]
      /\ \A i \in 0..m :
           first[i] = IF i = 0 THEN << >>
                      ELSE IF i \in S THEN Append(first[i - 1], log[i]) ELSE first[i - 1]
  <2>1. \A i \in 0..(m - 1) : first[i] = g[i]
    BY <1>4
  <2>2. first[m] = last
    BY <1>4
  <2>3. ASSUME NEW i \in 0..m
        PROVE  first[i] = IF i = 0 THEN << >>
                          ELSE IF i \in S THEN Append(first[i - 1], log[i]) ELSE first[i - 1]
    <3>1. CASE i = m
      BY <1>4, <2>1, <2>2, <3>1
    <3>2. CASE i # m
      <4>1. i \in 0..(m - 1) /\ (i # 0 => i - 1 \in 0..(m - 1))
        BY <1>4, <3>2
      <4> QED
        BY <1>7, <2>1, <4>1
    <3> QED
      BY <3>1, <3>2
  <2> QED
    BY <2>3
<1> HIDE DEF first
<1>9. FilterUpTo(m, log, S, first)
  BY <1>8 DEF FilterUpTo
<1> QED
  BY <1>2, <1>9

\* The places of S up to n.
UpTo(S, n) == S \cap 1..n

LEMMA UpToCounted ==
    ASSUME NEW S, NEW n \in Nat
    PROVE  IsFiniteSet(UpTo(S, n)) /\ Cardinality(UpTo(S, n)) \in Nat
<1>1. IsFiniteSet(1..n)
  BY FS_Interval
<1>2. UpTo(S, n) \in SUBSET (1..n)
  BY DEF UpTo
<1>3. IsFiniteSet(UpTo(S, n))
  BY <1>1, <1>2, FS_Subset
<1> QED
  BY <1>3, FS_CardinalityType

\* A sequence has the items of a log at the first n places of S: as many as there
\* are such places, and each after those of the places before.
Collects(s, n, log, S) ==
    /\ Len(s) = Cardinality(UpTo(S, n))
    /\ \A k \in 1..Len(s) : \E i \in UpTo(S, n) :
         Cardinality(UpTo(S, i - 1)) = k - 1 /\ s[k] = log[i]

\* The next place of a log goes to the end, or is left out.
LEMMA CollectsNext ==
    ASSUME NEW R, NEW log, NEW S, NEW n \in Nat, n # 0, log[n] \in R,
           NEW s \in Seq(R), Collects(s, n - 1, log, S)
    PROVE  /\ n \in S => Append(s, log[n]) \in Seq(R) /\ Collects(Append(s, log[n]), n, log, S)
           /\ n \notin S => Collects(s, n, log, S)
<1> DEFINE before == UpTo(S, n - 1)
<1>1. n - 1 \in Nat /\ IsFiniteSet(before) /\ Cardinality(before) \in Nat
  BY UpToCounted
<1>2. n \notin before
  BY DEF UpTo
<1>3. /\ Len(s) = Cardinality(before) /\ Len(s) \in Nat
      /\ \A k \in 1..Len(s) : \E i \in before :
           Cardinality(UpTo(S, i - 1)) = k - 1 /\ s[k] = log[i]
  BY <1>1 DEF Collects
<1>4. CASE n \notin S
  <2>1. UpTo(S, n) = before
    BY <1>4 DEF UpTo
  <2> QED
    BY <1>4, <2>1 DEF Collects
<1>5. CASE n \in S
  <2>1. UpTo(S, n) = before \cup {n}
    BY <1>5 DEF UpTo
  <2> HIDE DEF before
  <2>2. Cardinality(UpTo(S, n)) = Cardinality(before) + 1
    BY <1>1, <1>2, <2>1, FS_AddElement
  <2> DEFINE longer == Append(s, log[n])
  <2>3. /\ longer \in Seq(R) /\ Len(longer) = Len(s) + 1
        /\ \A k \in 1..Len(s) : longer[k] = s[k]
        /\ longer[Len(s) + 1] = log[n]
    OBVIOUS
  <2> HIDE DEF longer
  <2>4. ASSUME NEW k \in 1..Len(longer)
        PROVE  \E i \in UpTo(S, n) : Cardinality(UpTo(S, i - 1)) = k - 1 /\ longer[k] = log[i]
    <3>1. CASE k = Len(s) + 1
      <4>1. n \in UpTo(S, n) /\ Cardinality(UpTo(S, n - 1)) = k - 1 /\ longer[k] = log[n]
        BY <1>3, <2>1, <2>3, <3>1 DEF before
      <4> QED
        BY <4>1
    <3>2. CASE k # Len(s) + 1
      <4>1. k \in 1..Len(s)
        BY <1>3, <2>3, <3>2
      <4>2. PICK i \in before : Cardinality(UpTo(S, i - 1)) = k - 1 /\ s[k] = log[i]
        BY <1>3, <4>1
      <4> QED
        BY <2>1, <2>3, <4>1, <4>2
    <3> QED
      BY <3>1, <3>2
  <2>5. Collects(longer, n, log, S)
    BY <1>3, <2>2, <2>3, <2>4 DEF Collects
  <2> QED
    BY <1>5, <2>3, <2>5 DEF longer
<1> QED
  BY <1>4, <1>5

\* What the filter returns, for every log and every set of places.
LEMMA FilterCollects ==
    ASSUME NEW R, NEW log \in Seq(R), NEW S
    PROVE  Filtered(log, S) \in Seq(R) /\ Collects(Filtered(log, S), Len(log), log, S)
<1> DEFINE n == Len(log)
           first == CHOOSE g : FilterUpTo(n, log, S, g)
<1>1. n \in Nat /\ \A i \in 1..n : log[i] \in R
  OBVIOUS
<1>2. FilterUpTo(n, log, S, first)
  BY <1>1, FiltersExist, Zenon
<1>3. Filtered(log, S) = first[n]
  BY DEF Filtered, FilterUpTo
<1> HIDE DEF n, first
<1>4. /\ first[0] = << >>
      /\ \A i \in 1..n : first[i] = IF i \in S THEN Append(first[i - 1], log[i]) ELSE first[i - 1]
  <2>1. \A i \in 0..n :
          first[i] = IF i = 0 THEN << >>
                     ELSE IF i \in S THEN Append(first[i - 1], log[i]) ELSE first[i - 1]
    BY <1>2, Zenon DEF FilterUpTo
  <2>2. 0 \in 0..n /\ \A i \in 1..n : i \in 0..n /\ i # 0
    BY <1>1
  <2> QED
    BY <2>1, <2>2
<1> DEFINE Right(i) == first[i] \in Seq(R) /\ Collects(first[i], i, log, S)
           T == {i \in 0..n : ~Right(i)}
<1>5. Right(0)
  <2>1. << >> \in Seq(R) /\ Len(<< >>) = 0 /\ 1..0 = {}
    OBVIOUS
  <2>2. UpTo(S, 0) = {}
    BY <2>1 DEF UpTo
  <2> QED
    BY <1>4, <2>1, <2>2, FS_EmptySet DEF Collects
<1>6. ASSUME T # {}
      PROVE  FALSE
  <2>1. PICK m \in T : \A k \in T : m <= k
    <3>1. T \in SUBSET Nat
      BY <1>1
    <3> HIDE DEF T
    <3> QED
      BY <1>6, <3>1, LeastNatural
  <2>2. m \in 1..n /\ m \in Nat /\ m # 0 /\ m - 1 \in 0..n /\ m - 1 \notin T
    BY <1>1, <1>5, <2>1
  <2>3. Right(m - 1)
    BY <2>2
  <2> DEFINE s == first[m - 1]
  <2>4. s \in Seq(R) /\ Collects(s, m - 1, log, S) /\ log[m] \in R
    BY <1>1, <2>2, <2>3
  <2> HIDE DEF s
  <2>5. /\ m \in S => Append(s, log[m]) \in Seq(R) /\ Collects(Append(s, log[m]), m, log, S)
        /\ m \notin S => Collects(s, m, log, S)
    BY <2>2, <2>4, CollectsNext
  <2>6. first[m] = IF m \in S THEN Append(s, log[m]) ELSE s
    BY <1>4, <2>2 DEF s
  <2>7. Right(m)
    BY <2>4, <2>5, <2>6
  <2> QED
    BY <2>1, <2>7
<1>7. Right(n)
  BY <1>1, <1>6
<1> QED
  BY <1>3, <1>7 DEF n

\* Places before and after one of them: all the others.
LEMMA BeforeAndAfter ==
    ASSUME NEW n \in Nat, NEW wanted \in SUBSET (1..n), NEW i \in wanted
    PROVE  /\ Cardinality({j \in wanted : j < i}) \in Nat
           /\ Cardinality({j \in wanted : j > i}) \in Nat
           /\ Cardinality(wanted) \in Nat
           /\ Cardinality({j \in wanted : j < i}) + Cardinality({j \in wanted : j > i}) + 1
                = Cardinality(wanted)
<1> DEFINE before == {j \in wanted : j < i}
           after  == {j \in wanted : j > i}
           rest   == before \cup after
<1>1. IsFiniteSet(1..n)
  BY FS_Interval
<1>2. IsFiniteSet(wanted)
  BY <1>1, FS_Subset
<1>3. /\ before \in SUBSET wanted /\ after \in SUBSET wanted /\ before \cap after = {}
      /\ i \notin rest /\ rest \cup {i} = wanted
  <2>1. before \in SUBSET wanted /\ after \in SUBSET wanted
    OBVIOUS
  <2>2. \A j \in wanted : j \in Int /\ (j < i \/ j > i \/ j = i)
    OBVIOUS
  <2>3. \A j \in wanted : j \in before => j < i /\ j # i
    BY <2>2
  <2>4. \A j \in wanted : j \in after => j > i /\ j # i
    BY <2>2
  <2>5. \A j \in wanted : j \in before \/ j \in after \/ j = i
    BY <2>2
  <2>6. \A j \in wanted : ~(j < i /\ j > i)
    BY <2>2
  <2> HIDE DEF before, after
  <2> QED
    BY <2>1, <2>3, <2>4, <2>5, <2>6
<1> HIDE DEF before, after
<1>4. IsFiniteSet(before) /\ IsFiniteSet(after)
  BY <1>2, <1>3, FS_Subset
<1>5. Cardinality(before) \in Nat /\ Cardinality(after) \in Nat /\ Cardinality(wanted) \in Nat
  BY <1>2, <1>4, FS_CardinalityType
<1>6. /\ IsFiniteSet(rest)
      /\ Cardinality(rest) = Cardinality(before) + Cardinality(after)
                               - Cardinality(before \cap after)
  BY <1>4, FS_Union
<1>7. Cardinality(before \cap after) = 0
  BY <1>3, FS_EmptySet
<1> HIDE DEF rest
<1>8. Cardinality(rest \cup {i}) = Cardinality(rest) + 1
  BY <1>3, <1>6, FS_AddElement
<1>9. Cardinality(before) + Cardinality(after) + 1 = Cardinality(wanted)
  <2>1. rest \cup {i} = wanted
    BY <1>3
  <2>2. Cardinality(wanted) = Cardinality(rest) + 1
    BY <1>8, <2>1, Zenon
  <2>3. Cardinality(rest) = Cardinality(before) + Cardinality(after) - 0
    BY <1>6, <1>7, Zenon
  <2> QED
    BY <1>5, <2>2, <2>3
<1> QED
  BY <1>5, <1>9 DEF before, after

\* A page of filtered entries is exact, whatever places are asked for.
LEMMA PageOfPlaces ==
    ASSUME TypeOK, NEW q, Limit(q) \in 1..MaxLimit, NEW wanted \in SUBSET (DOMAIN entries)
    PROVE  PageIsExact(Page(Filtered(entries, wanted), q), wanted, q)
<1> DEFINE n == Len(entries)
           F == Filtered(entries, wanted)
           all == IF q.order = {"Asc"} THEN F ELSE Reverse(F)
           size == IF Limit(q) < Len(all) THEN Limit(q) ELSE Len(all)
<1>1. entries \in Seq(Entry) /\ n \in Nat /\ DOMAIN entries = 1..n /\ MaxLimit \in Nat
  BY LogAssumption DEF TypeOK
<1>2. F \in Seq(Entry) /\ Collects(F, n, entries, wanted)
  BY <1>1, FilterCollects
<1>3. UpTo(wanted, n) = wanted
  BY <1>1 DEF UpTo
<1>4. \A i \in wanted : UpTo(wanted, i - 1) = {j \in wanted : j < i}
  BY <1>1 DEF UpTo
<1>5. Page(F, q) = SubSeq(all, 1, size)
  BY DEF Page
<1> HIDE DEF F
<1>6. /\ Len(F) = Cardinality(wanted) /\ Len(F) \in Nat
      /\ \A k \in 1..Len(F) : \E i \in wanted :
           Cardinality({j \in wanted : j < i}) = k - 1 /\ F[k] = entries[i]
  <2> DEFINE Before(i) == {j \in wanted : j < i}
  <2>1. \A i \in wanted : UpTo(wanted, i - 1) = Before(i)
    BY <1>4
  <2> HIDE DEF Before
  <2>2. /\ Len(F) = Cardinality(wanted) /\ Len(F) \in Nat
        /\ \A k \in 1..Len(F) : \E i \in wanted :
             Cardinality(Before(i)) = k - 1 /\ F[k] = entries[i]
    BY <1>2, <1>3, <2>1 DEF Collects
  <2> QED
    BY <2>2 DEF Before
<1>7. Reverse(F) \in Seq(Entry) /\ Len(Reverse(F)) = Len(F)
      /\ \A k \in 1..Len(F) : Reverse(F)[k] = F[Len(F) - k + 1]
  <2>1. \A k \in 1..Len(F) : Len(F) - k + 1 \in 1..Len(F) /\ F[Len(F) - k + 1] \in Entry
    BY <1>2, <1>6
  <2>2. Reverse(F) = [k \in 1..Len(F) |-> F[Len(F) - k + 1]]
    BY DEF Reverse
  <2>3. Reverse(F) \in [1..Len(F) -> Entry]
    BY <2>1, <2>2
  <2>4. Reverse(F) \in Seq(Entry)
    BY <1>6, <2>3, SeqDef
  <2> QED
    BY <1>6, <2>2, <2>3, <2>4
<1>8. all \in Seq(Entry) /\ Len(all) = Len(F) /\ DOMAIN all = 1..Len(F)
  BY <1>2, <1>7
<1>9. ASSUME NEW k \in 1..Len(F)
      PROVE  \E i \in wanted : IsNth(i, k, wanted, q) /\ all[k] = entries[i]
  <2>1. CASE q.order = {"Asc"}
    <3>1. PICK i \in wanted : Cardinality({j \in wanted : j < i}) = k - 1 /\ F[k] = entries[i]
      BY <1>6
    <3>2. {j \in wanted : IF q.order = {"Asc"} THEN j < i ELSE j > i} = {j \in wanted : j < i}
      BY <2>1
    <3>3. IsNth(i, k, wanted, q)
      BY <3>1, <3>2, Zenon DEF IsNth
    <3> QED
      BY <2>1, <3>1, <3>3
  <2>2. CASE q.order # {"Asc"}
    <3>1. Len(F) - k + 1 \in 1..Len(F)
      BY <1>6
    <3>2. PICK i \in wanted : /\ Cardinality({j \in wanted : j < i}) = (Len(F) - k + 1) - 1
                              /\ F[Len(F) - k + 1] = entries[i]
      BY <1>6, <3>1
    <3>3. {j \in wanted : IF q.order = {"Asc"} THEN j < i ELSE j > i} = {j \in wanted : j > i}
      BY <2>2
    <3>4. /\ Cardinality({j \in wanted : j > i}) \in Nat
          /\ Cardinality({j \in wanted : j < i}) + Cardinality({j \in wanted : j > i}) + 1
               = Cardinality(wanted)
      BY <1>1, BeforeAndAfter
    <3>5. Cardinality({j \in wanted : j > i}) = k - 1
      <4> DEFINE before == Cardinality({j \in wanted : j < i})
                 after  == Cardinality({j \in wanted : j > i})
      <4>1. before = (Len(F) - k + 1) - 1 /\ after \in Nat /\ before + after + 1 = Len(F)
        BY <1>6, <3>2, <3>4
      <4> HIDE DEF before, after
      <4>2. after = k - 1
        BY <1>6, <4>1
      <4> QED
        BY <4>2 DEF after
    <3>6. IsNth(i, k, wanted, q)
      BY <3>3, <3>5, Zenon DEF IsNth
    <3>7. all[k] = entries[i]
      BY <1>7, <2>2, <3>2
    <3> QED
      BY <3>6, <3>7
  <2> QED
    BY <2>1, <2>2
<1> HIDE DEF all
<1>10. size \in 0..Len(all) /\ size = IF Limit(q) < Cardinality(wanted) THEN Limit(q)
                                      ELSE Cardinality(wanted)
  BY <1>1, <1>6, <1>8
<1> HIDE DEF size
<1> DEFINE page == SubSeq(all, 1, size)
<1>11. /\ Len(page) = size /\ DOMAIN page = 1..size
       /\ \A k \in 1..size : k \in 1..Len(F) /\ page[k] = all[k]
  BY <1>6, <1>8, <1>10
<1> HIDE DEF page
<1>12. PageIsExact(page, wanted, q)
  BY <1>9, <1>10, <1>11 DEF PageIsExact
<1> QED
  BY <1>5, <1>12 DEF F, page

LEMMA EntryAt ==
    ASSUME TypeOK, NEW i \in DOMAIN entries
    PROVE  entries[i] \in Entry
<1>1. entries \in Seq(Entry)
  BY DEF TypeOK
<1> QED
  BY <1>1

\* The filters keep what was asked for: neither before the window nor after it.
LEMMA WindowIsExact ==
    ASSUME TypeOK, NEW q \in Query, NEW i \in DOMAIN entries
    PROVE  TimestampMatches(entries[i], q) <=>
             /\ ~\E from \in q.from : entries[i].occurred_at < from
             /\ ~\E to \in q.to : entries[i].occurred_at > to
<1>1. entries[i].occurred_at \in Nat
  BY EntryAt, LogAssumption DEF Entry
<1>2. q.from \subseteq Nat /\ q.to \subseteq Nat
  BY LogAssumption DEF Query, Optional
<1> QED
  BY <1>1, <1>2 DEF TimestampMatches

LEMMA FiltersAreExact ==
    ASSUME TypeOK, NEW q \in Query
    PROVE  LET acting == {i \in DOMAIN entries :
                            q.action = {} \/ entries[i].action \in q.action}
           IN  /\ {i \in DOMAIN entries : TransactionMatches(entries[i], q)} = Wanted(acting, q)
               /\ {i \in DOMAIN entries : AuditMatches(entries[i], q)}
                    = Wanted({i \in acting :
                                /\ q.outcome = {} \/ entries[i].outcome \in q.outcome
                                /\ q.target = {} \/ entries[i].target \cap q.target # {}}, q)
<1>1. /\ \E S : q.action \in Optional(S)
      /\ \E S : q.outcome \in Optional(S)
      /\ \E S : q.target \in Optional(S)
  BY DEF Query
<1>2. ASSUME NEW i \in DOMAIN entries
      PROVE  /\ q.action \subseteq {entries[i].action}
                  <=> (q.action = {} \/ entries[i].action \in q.action)
             /\ q.outcome \subseteq {entries[i].outcome}
                  <=> (q.outcome = {} \/ entries[i].outcome \in q.outcome)
             /\ (q.target = {} \/ entries[i].target = q.target)
                  <=> (q.target = {} \/ entries[i].target \cap q.target # {})
  <2>1. \E S : entries[i].target \in Optional(S)
    BY EntryAt DEF Entry
  <2>2. q.action = {} \/ \E x : q.action = {x}
    BY <1>1 DEF Optional
  <2>3. q.outcome = {} \/ \E x : q.outcome = {x}
    BY <1>1 DEF Optional
  <2>4. q.target = {} \/ \E x : q.target = {x}
    BY <1>1 DEF Optional
  <2>5. entries[i].target = {} \/ \E x : entries[i].target = {x}
    BY <2>1 DEF Optional
  <2>6. (q.target = {} \/ entries[i].target = q.target)
           <=> (q.target = {} \/ entries[i].target \cap q.target # {})
    BY <2>4, <2>5
  <2> QED
    BY <2>2, <2>3, <2>6
<1>3. \A i \in DOMAIN entries :
        TimestampMatches(entries[i], q) <=>
          /\ ~\E from \in q.from : entries[i].occurred_at < from
          /\ ~\E to \in q.to : entries[i].occurred_at > to
  BY WindowIsExact
<1> DEFINE Acts(i) == q.action = {} \/ entries[i].action \in q.action
           Ends(i) == q.outcome = {} \/ entries[i].outcome \in q.outcome
           Aims(i) == q.target = {} \/ entries[i].target \cap q.target # {}
           acting == {i \in DOMAIN entries : Acts(i)}
           aimed  == {i \in acting : Ends(i) /\ Aims(i)}
<1>4. \A i \in DOMAIN entries :
        /\ TransactionMatches(entries[i], q) <=> Acts(i) /\ TimestampMatches(entries[i], q)
        /\ AuditMatches(entries[i], q) <=>
             Acts(i) /\ Ends(i) /\ Aims(i) /\ TimestampMatches(entries[i], q)
  BY <1>2 DEF TransactionMatches, AuditMatches
<1> HIDE DEF Acts, Ends, Aims
<1>5. {i \in DOMAIN entries : TransactionMatches(entries[i], q)} = Wanted(acting, q)
  BY <1>3, <1>4 DEF Wanted
<1>6. {i \in DOMAIN entries : AuditMatches(entries[i], q)} = Wanted(aimed, q)
  BY <1>3, <1>4 DEF Wanted
<1> QED
  BY <1>5, <1>6 DEF Acts, Ends, Aims

\* Filter, window, order and limit work together: every page of the audit log
\* and of a history has the entries that were asked for, no other, the first of
\* them in the order that was asked for, for logs of any length and any limit.
THEOREM PagesHoldWhatWasAsked == Spec => []PagesAreExact
<1>1. ASSUME TypeOK
      PROVE  PagesAreExact
  <2>1. SUFFICES ASSUME NEW q \in Query, Valid(q)
                 PROVE  LET acting == {i \in DOMAIN entries :
                                         q.action = {} \/ entries[i].action \in q.action}
                        IN  /\ PageIsExact(ListTransactions(q), Wanted(acting, q), q)
                            /\ PageIsExact(ListAudit(q),
                                 Wanted({i \in acting :
                                   /\ q.outcome = {} \/ entries[i].outcome \in q.outcome
                                   /\ q.target = {} \/ entries[i].target \cap q.target # {}}, q),
                                 q)
    BY DEF PagesAreExact
  <2> DEFINE acting == {i \in DOMAIN entries : q.action = {} \/ entries[i].action \in q.action}
             aimed  == {i \in acting :
                          /\ q.outcome = {} \/ entries[i].outcome \in q.outcome
                          /\ q.target = {} \/ entries[i].target \cap q.target # {}}
  <2>2. /\ {i \in DOMAIN entries : TransactionMatches(entries[i], q)} = Wanted(acting, q)
        /\ {i \in DOMAIN entries : AuditMatches(entries[i], q)} = Wanted(aimed, q)
    BY <1>1, FiltersAreExact
  <2>3. Wanted(acting, q) \in SUBSET (DOMAIN entries)
        /\ Wanted(aimed, q) \in SUBSET (DOMAIN entries)
    BY DEF Wanted
  <2> HIDE DEF acting, aimed
  <2>4. Limit(q) \in 1..MaxLimit
    BY <2>1 DEF Valid
  <2>5. PageIsExact(ListTransactions(q), Wanted(acting, q), q)
    BY <1>1, <2>2, <2>3, <2>4, PageOfPlaces DEF ListTransactions
  <2>6. PageIsExact(ListAudit(q), Wanted(aimed, q), q)
    BY <1>1, <2>2, <2>3, <2>4, PageOfPlaces DEF ListAudit
  <2> QED
    BY <2>5, <2>6 DEF acting, aimed
<1> QED
  BY <1>1, TypeInvariant, PTL

-----------------------------------------------------------------------------
(***************************************************************************)
(* Amounts and rates as text.                                              *)
(***************************************************************************)

\* What a line has: a whole part, and up to three digits after the point.
LEMMA LineWhole ==
    ASSUME NEW t \in Line
    PROVE  Whole(t) \in Nat
<1>1. t.whole = {} \/ \E w \in Nat : t.whole = {w}
  BY TextAssumption DEF Line
<1> QED
  BY <1>1 DEF Whole

LEMMA LineFraction ==
    ASSUME NEW t \in Line
    PROVE  /\ Len(t.fraction) \in 0..3
           /\ \A i \in 1..Len(t.fraction) : t.fraction[i] \in 0..9
<1> DEFINE f == t.fraction
<1>1. PICK n \in 0..3 : f \in [1..n -> Digits]
  BY DEF Line
<1> HIDE DEF f
<1>2. n \in Nat
  OBVIOUS
<1>3. f \in Seq(Digits) /\ Len(f) = n
  BY <1>1, <1>2
<1>4. \A i \in 1..n : f[i] \in Digits
  BY <1>1
<1>5. \A i \in 1..n : f[i] \in 0..9
  BY <1>4, TextAssumption
<1> QED
  BY <1>3, <1>5 DEF f

\* The number of hundredths of a line, and what the line means when it has no
\* third digit.
Unsigned(t) == 100 * Whole(t) + Hundredths(t.fraction)

LEMMA LineValue ==
    ASSUME NEW t \in Line, Len(t.fraction) <= 2
    PROVE  /\ Unsigned(t) \in Nat
           /\ Thousandths(t) = IF t.sign = "-" THEN -(10 * Unsigned(t)) ELSE 10 * Unsigned(t)
<1> DEFINE f == t.fraction
           n == Len(f)
           w == Whole(t)
<1>1. n \in 0..2 /\ \A i \in 1..n : f[i] \in 0..9
  BY LineFraction
<1>9. w \in Nat
  BY LineWhole
<1>2. Thousandths(t) =
        LET Digit(i) == IF i <= n THEN f[i] ELSE 0
            absolute == 1000 * w + 100 * Digit(1) + 10 * Digit(2) + Digit(3)
        IN  IF t.sign = "-" THEN -absolute ELSE absolute
  BY DEF Thousandths
<1>3. Unsigned(t) = 100 * w + CASE n = 0 -> 0
                                [] n = 1 -> 10 * f[1]
                                [] OTHER -> 10 * f[1] + f[2]
  BY DEF Unsigned, Hundredths
<1> HIDE DEF f, n, w
<1> DEFINE u == Unsigned(t)
           d1 == IF 1 <= n THEN f[1] ELSE 0
           d2 == IF 2 <= n THEN f[2] ELSE 0
           d3 == IF 3 <= n THEN f[3] ELSE 0
           absolute == 1000 * w + 100 * d1 + 10 * d2 + d3
<1>4. Thousandths(t) = IF t.sign = "-" THEN -absolute ELSE absolute
  BY <1>2
<1>5. d1 \in 0..9 /\ d2 \in 0..9 /\ d3 = 0
  BY <1>1
<1>6. u = 100 * w + (10 * d1 + d2)
  <2>1. CASE n = 0
    <3>1. d1 = 0 /\ d2 = 0 /\ u = 100 * w + 0
      BY <1>3, <2>1
    <3> HIDE DEF d1, d2, u
    <3> QED
      BY <1>9, <3>1
  <2>2. CASE n = 1
    <3>1. d1 = f[1] /\ d2 = 0 /\ u = 100 * w + 10 * f[1]
      BY <1>3, <2>2
    <3> HIDE DEF d1, d2, u
    <3> QED
      BY <1>5, <1>9, <3>1
  <2>3. CASE n = 2
    BY <1>3, <2>3
  <2> QED
    BY <1>1, <2>1, <2>2, <2>3
<1> HIDE DEF d1, d2, d3, u
<1>7. u \in Nat /\ absolute = 10 * u
  BY <1>5, <1>6, <1>9
<1> HIDE DEF absolute
<1> QED
  BY <1>4, <1>7 DEF u

LEMMA FittingLines ==
    ASSUME NEW t, NEW max
    PROVE  \A n : n \in Fitting(t, max) <=>
                    n = Unsigned(t) /\ Len(t.fraction) <= 2 /\ Unsigned(t) <= max
BY DEF Fitting, Unsigned

\* The number that a line means, with its sign, when it fits and no digit is lost.
LEMMA MoneyReads ==
    ASSUME NEW t \in Line
    PROVE  ReadMoney(t) = {n \in -MaxCents..MaxCents :
                             /\ 10 * n = Thousandths(t)
                             /\ Len(t.fraction) <= 2
                             /\ t.whole # {} \/ t.fraction # << >>}
<1> DEFINE u == Unsigned(t)
           given == t.whole # {} \/ t.fraction # << >>
           signed == IF t.sign = "-" THEN -u ELSE u
           read == {n \in -MaxCents..MaxCents :
                      10 * n = Thousandths(t) /\ Len(t.fraction) <= 2 /\ given}
<1>1. MaxCents \in Nat /\ Len(t.fraction) \in Nat
  BY TextAssumption, LineFraction
<1>2. ASSUME Len(t.fraction) <= 2
      PROVE  u \in Nat /\ Thousandths(t) = IF t.sign = "-" THEN -(10 * u) ELSE 10 * u
  BY <1>2, LineValue
<1>3. \A n : n \in Fitting(t, MaxCents) <=> n = u /\ Len(t.fraction) <= 2 /\ u <= MaxCents
  BY <1>1, FittingLines
<1>4. ReadMoney(t) = {IF t.sign = "-" THEN -n ELSE n :
                        n \in IF given THEN Fitting(t, MaxCents) ELSE {}}
  BY DEF ReadMoney
<1> HIDE DEF u, given
<1>5. CASE given /\ Len(t.fraction) <= 2 /\ u <= MaxCents
  <2>1. ReadMoney(t) = {signed}
    BY <1>3, <1>4, <1>5
  <2>2. \A n \in -MaxCents..MaxCents : 10 * n = Thousandths(t) <=> n = signed
    BY <1>1, <1>2, <1>5
  <2>3. signed \in -MaxCents..MaxCents
    BY <1>1, <1>2, <1>5
  <2> HIDE DEF signed
  <2>4. read = {signed}
    BY <1>5, <2>2, <2>3
  <2> QED
    BY <2>1, <2>4 DEF given
<1>6. CASE ~(given /\ Len(t.fraction) <= 2 /\ u <= MaxCents)
  <2>1. ReadMoney(t) = {}
    BY <1>3, <1>4, <1>6
  <2>2. ASSUME NEW n \in -MaxCents..MaxCents,
               10 * n = Thousandths(t), Len(t.fraction) <= 2, given
        PROVE  FALSE
    <3>1. u \in Nat /\ 10 * n = IF t.sign = "-" THEN -(10 * u) ELSE 10 * u
      BY <1>2, <2>2
    <3>2. u <= MaxCents
      BY <1>1, <3>1
    <3> QED
      BY <1>6, <2>2, <3>2
  <2>3. read = {}
    BY <2>2
  <2> QED
    BY <2>1, <2>3 DEF given
<1> QED
  BY <1>5, <1>6

LEMMA RateReads ==
    ASSUME NEW t \in Line
    PROVE  {n \in ReadRate(t) : n # 0} =
             {n \in 1..MaxBasisPoints :
                10 * n = Thousandths(t) /\ Len(t.fraction) <= 2 /\ t.whole # {}}
<1> DEFINE u == Unsigned(t)
<1>1. MaxBasisPoints \in Nat /\ Len(t.fraction) \in Nat
  BY TextAssumption, LineFraction
<1>2. ASSUME Len(t.fraction) <= 2
      PROVE  u \in Nat /\ Thousandths(t) = IF t.sign = "-" THEN -(10 * u) ELSE 10 * u
  BY <1>2, LineValue
<1>3. \A n : n \in Fitting(t, MaxBasisPoints) <=>
               n = u /\ Len(t.fraction) <= 2 /\ u <= MaxBasisPoints
  BY <1>1, FittingLines
<1> HIDE DEF u
<1>4. ASSUME NEW n
      PROVE  n \in ReadRate(t) /\ n # 0 <=>
               /\ n \in 1..MaxBasisPoints
               /\ 10 * n = Thousandths(t) /\ Len(t.fraction) <= 2 /\ t.whole # {}
  <2>1. n \in ReadRate(t) <=>
          /\ t.sign # "-" /\ t.whole # {}
          /\ n = u /\ Len(t.fraction) <= 2 /\ u <= MaxBasisPoints
    BY <1>3 DEF ReadRate
  <2>2. ASSUME Len(t.fraction) <= 2, n \in 1..MaxBasisPoints
        PROVE  10 * n = Thousandths(t) <=> (t.sign # "-" /\ n = u)
    BY <1>1, <1>2, <2>2
  <2>3. ASSUME Len(t.fraction) <= 2, n = u, u <= MaxBasisPoints, n # 0
        PROVE  n \in 1..MaxBasisPoints
    BY <1>1, <1>2, <2>3
  <2>4. n \in 1..MaxBasisPoints => n <= MaxBasisPoints /\ n # 0
    BY <1>1
  <2> QED
    BY <2>1, <2>2, <2>3, <2>4
<1> QED
  BY <1>4

\* Every prompt takes exactly the numbers it is there for.
LEMMA PromptsTake ==
    ASSUME NEW p \in Prompts, NEW t \in Line
    PROVE  Taken(p, t) = {n \in Expected(p) :
                            /\ 10 * n = Thousandths(t)
                            /\ Len(t.fraction) <= 2
                            /\ t.whole # {} \/ (t.fraction # << >> /\ p # "PositiveRate")}
<1>1. MaxCents \in Nat
  BY TextAssumption
<1>2. CASE p = "Money"
  BY <1>2, MoneyReads DEF Taken, Expected
<1>3. CASE p = "NonNegativeMoney"
  BY <1>1, <1>3, MoneyReads DEF Taken, Expected
<1>4. CASE p = "PositiveMoney"
  BY <1>1, <1>4, MoneyReads DEF Taken, Expected
<1>5. CASE p = "PositiveRate"
  BY <1>5, RateReads DEF Taken, Expected
<1> QED
  BY <1>2, <1>3, <1>4, <1>5 DEF Prompts

\* What is printed is read as the same number, down to the cent.
LEMMA PrintedIsRead ==
    ASSUME NEW n \in -MaxCents..MaxCents
    PROVE  ReadMoney(Display(n)) = {n}
<1> DEFINE a == IF n < 0 THEN -n ELSE n
           d == Display(n)
           f == <<(a % 100) \div 10, a % 10>>
<1>1. MaxCents \in Nat /\ n \in Int /\ a \in Nat /\ a <= MaxCents
  BY TextAssumption
<1>2. d.sign = (IF n < 0 THEN "-" ELSE "") /\ d.whole = {a \div 100} /\ d.fraction = f
  BY DEF Display
<1>3. Len(f) = 2 /\ f[1] = (a % 100) \div 10 /\ f[2] = a % 10 /\ f # << >>
  OBVIOUS
<1>4. n = IF n < 0 THEN -a ELSE a
  BY <1>1
<1> HIDE DEF a, d, f
<1>5. 100 * (a \div 100) + (10 * ((a % 100) \div 10) + (a % 10)) = a
  BY <1>1
<1>6. Whole(d) = a \div 100
  BY <1>2 DEF Whole
<1>7. Hundredths(f) = 10 * ((a % 100) \div 10) + (a % 10)
  BY <1>3 DEF Hundredths
<1>8. \A m : m \in Fitting(d, MaxCents) <=> m = a
  <2>1. Unsigned(d) = a
    BY <1>2, <1>5, <1>6, <1>7 DEF Unsigned
  <2>2. Len(d.fraction) <= 2 /\ a <= MaxCents
    <3>1. Len(d.fraction) = 2
      BY <1>2, <1>3, Zenon
    <3>2. 2 <= 2
      OBVIOUS
    <3> QED
      BY <1>1, <3>1, <3>2, Zenon
  <2> QED
    BY <2>1, <2>2, FittingLines
<1>9. ReadMoney(d) = {IF d.sign = "-" THEN -m ELSE m : m \in Fitting(d, MaxCents)}
  BY <1>2, <1>3 DEF ReadMoney
<1>10. (d.sign = "-") <=> n < 0
  BY <1>2
<1>11. ReadMoney(d) = {n}
  BY <1>4, <1>8, <1>9, <1>10
<1> QED
  BY <1>11 DEF d

\* A prompt reads the number that the line means, and reads every line that
\* means one it is there for in at most two digits after the point, up to the
\* largest number there is; and what is read can be printed and read again:
\* for every largest number, whatever whole parts and digits are typed.
THEOREM MoneyIsReadAsWritten == MoneySpec => []ReadsAsWritten
<1>1. MoneyInit => ReadsAsWritten
  <2> SUFFICES ASSUME MoneyInit
               PROVE  ReadsAsWritten
    OBVIOUS
  <2>1. answer = {} /\ line.whole = {} /\ line.fraction = << >>
    BY DEF MoneyInit
  <2> QED
    BY <2>1 DEF ReadsAsWritten
<1>2. ASSUME ReadsAsWritten, [MoneyNext]_moneyVars
      PROVE  ReadsAsWritten'
  <2>1. ASSUME NEW p \in Prompts, NEW t \in Line, Type(p, t)
        PROVE  ReadsAsWritten'
    <3> DEFINE took == {n \in Expected(p) :
                          /\ 10 * n = Thousandths(t)
                          /\ Len(t.fraction) <= 2
                          /\ t.whole # {} \/ (t.fraction # << >> /\ p # "PositiveRate")}
    <3>1. prompt' = p /\ line' = t /\ answer' = Taken(p, t)
      BY <2>1 DEF Type
    <3>2. Taken(p, t) = took
      BY PromptsTake
    <3>3. ASSUME NEW n \in took, p # "PositiveRate"
          PROVE  ReadMoney(Display(n)) = {n}
      <4>1. n \in Expected(p) /\ MaxCents \in Nat
        BY TextAssumption
      <4>2. n \in -MaxCents..MaxCents
        BY <3>3, <4>1 DEF Expected, Prompts
      <4> QED
        BY <4>2, PrintedIsRead
    <3> QED
      BY <3>1, <3>2, <3>3 DEF ReadsAsWritten
  <2>2. CASE UNCHANGED moneyVars
    BY <1>2, <2>2 DEF moneyVars, ReadsAsWritten
  <2> QED
    BY <1>2, <2>1, <2>2 DEF MoneyNext
<1> QED
  BY <1>1, <1>2, PTL DEF MoneySpec

=============================================================================
