---------------------------- MODULE ClientProofs ----------------------------
(***************************************************************************)
(* Proofs about Client, for any accounts, users, files and number of       *)
(* commands.                                                               *)
(*                                                                         *)
(* Every step is one of two: a command that works on the state that is     *)
(* there, or one that builds it from a text that was accepted (EveryStep). *)
(* The first may write one transaction of those that the log is about, and *)
(* records it; the second brings the state, the log and the users that the *)
(* log names from one text.  What a save writes is such a text, so what is *)
(* proved of the state in memory holds of the files as well, and of every  *)
(* state that is loaded from them.                                         *)
(***************************************************************************)
EXTENDS Client, FiniteSetTheorems, WellFoundedInduction, TLAPS

-----------------------------------------------------------------------------
(***************************************************************************)
(* Counting what is in a bag.  BagCardinality adds the numbers of copies   *)
(* recursively over the subsets of the domain; what it computes follows    *)
(* from its partial sums, one for every subset.                            *)
(***************************************************************************)

Picked(S) == CHOOSE e \in S : TRUE

\* The partial sums over the members of `sets`.
Sums(sets, f, sum) ==
    sum = [S \in sets |->
             LET elt == Picked(S) IN IF S = {} THEN 0 ELSE f[elt] + sum[S \ {elt}]]

Small(D, n) == {S \in SUBSET D : Cardinality(S) <= n}

\* A set of natural numbers that is not empty has a least member.
LEMMA LeastNatural ==
    ASSUME NEW T \in SUBSET Nat, T # {}
    PROVE  \E x \in T : \A y \in T : x <= y
<1> DEFINE Smaller == OpToRel(<, Nat)
<1>1. Smaller = {pair \in Nat \X Nat : pair[1] < pair[2]}
  BY DEF OpToRel
<1>2. IsWellFoundedOn(Smaller, Nat)
  BY NatLessThanWellFounded
<1> HIDE DEF Smaller
<1>3. PICK x \in T : \A y \in T : ~(<<y, x>> \in Smaller)
  BY <1>2, WFMin
<1>4. ASSUME NEW y \in T
      PROVE  x <= y
  <2>1. SUFFICES ASSUME y < x
                 PROVE  FALSE
    OBVIOUS
  <2>2. <<y, x>> \in Nat \X Nat /\ <<y, x>>[1] = y /\ <<y, x>>[2] = x
    OBVIOUS
  <2>3. <<y, x>> \in Smaller
    BY <1>1, <2>1, <2>2, Zenon
  <2> QED
    BY <1>3, <2>3
<1> QED
  BY <1>4

\* Every subset of a finite set is smaller by one without the element picked.
LEMMA PickedLeaves ==
    ASSUME NEW D, IsFiniteSet(D), NEW S \in SUBSET D, S # {}
    PROVE  /\ Picked(S) \in S /\ S \ {Picked(S)} \in SUBSET D
           /\ IsFiniteSet(S) /\ Cardinality(S) \in Nat \ {0}
           /\ Cardinality(S \ {Picked(S)}) = Cardinality(S) - 1
<1>1. Picked(S) \in S
  BY DEF Picked
<1>2. IsFiniteSet(S)
  BY FS_Subset
<1>3. Cardinality(S) \in Nat /\ Cardinality(S) # 0
  BY <1>2, FS_CardinalityType, FS_EmptySet
<1>4. Cardinality(S \ {Picked(S)}) = Cardinality(S) - 1
  BY <1>1, <1>2, FS_RemoveElement
<1> QED
  BY <1>1, <1>2, <1>3, <1>4

\* The partial sums exist: the least size without them would extend the size before.
LEMMA SmallSumsExist ==
    ASSUME NEW D, IsFiniteSet(D), NEW f, NEW n \in Nat
    PROVE  \E sum : Sums(Small(D, n), f, sum)
<1> DEFINE Has(m) == \E sum : Sums(Small(D, m), f, sum)
           T == {m \in Nat : ~Has(m)}
<1>1. SUFFICES ASSUME T # {}
               PROVE  FALSE
  OBVIOUS
<1>2. PICK m \in T : \A k \in T : m <= k
  <2>1. T \in SUBSET Nat
    OBVIOUS
  <2> HIDE DEF T
  <2> QED
    BY <1>1, <2>1, LeastNatural
<1>3. Has(0)
  <2>1. \A S \in Small(D, 0) : S = {}
    <3> SUFFICES ASSUME NEW S \in Small(D, 0), S # {}
                 PROVE  FALSE
      OBVIOUS
    <3>1. S \in SUBSET D /\ Cardinality(S) <= 0
      BY DEF Small
    <3>2. Cardinality(S) \in Nat \ {0}
      BY <3>1, PickedLeaves
    <3> QED
      BY <3>1, <3>2
  <2> DEFINE sum == [S \in Small(D, 0) |-> 0]
  <2>2. sum = [S \in Small(D, 0) |-> 0]
    OBVIOUS
  <2> HIDE DEF sum
  <2>3. sum = [S \in Small(D, 0) |->
                 IF S = {} THEN 0 ELSE f[Picked(S)] + sum[S \ {Picked(S)}]]
    BY <2>1, <2>2
  <2>4. Sums(Small(D, 0), f, sum)
    BY <2>3 DEF Sums
  <2> QED
    BY <2>4
<1>4. m \in Nat /\ m # 0 /\ m - 1 \in Nat
  BY <1>2, <1>3
<1>5. Has(m - 1)
  BY <1>2, <1>4
<1>6. PICK g : Sums(Small(D, m - 1), f, g)
  BY <1>5
<1> DEFINE sum == [S \in Small(D, m) |->
                     IF S = {} THEN 0 ELSE f[Picked(S)] + g[S \ {Picked(S)}]]
<1>7. ASSUME NEW S \in Small(D, m), S # {}
      PROVE  g[S \ {Picked(S)}] = sum[S \ {Picked(S)}]
  <2> DEFINE R == S \ {Picked(S)}
  <2>1. /\ S \in SUBSET D /\ R \in SUBSET D
        /\ Cardinality(S) \in Nat /\ Cardinality(S) <= m /\ Cardinality(R) = Cardinality(S) - 1
    BY <1>7, PickedLeaves DEF Small
  <2> HIDE DEF R
  <2>2. R \in Small(D, m - 1) /\ R \in Small(D, m)
    BY <1>4, <2>1 DEF Small
  <2>3. g[R] = IF R = {} THEN 0 ELSE f[Picked(R)] + g[R \ {Picked(R)}]
    BY <1>6, <2>2 DEF Sums
  <2>4. sum[R] = IF R = {} THEN 0 ELSE f[Picked(R)] + g[R \ {Picked(R)}]
    BY <2>2
  <2> QED
    BY <2>3, <2>4 DEF R
<1>8. sum = [S \in Small(D, m) |->
               IF S = {} THEN 0 ELSE f[Picked(S)] + sum[S \ {Picked(S)}]]
  <2>1. \A S \in Small(D, m) :
          sum[S] = IF S = {} THEN 0 ELSE f[Picked(S)] + sum[S \ {Picked(S)}]
    BY <1>7
  <2>2. DOMAIN sum = Small(D, m) /\ sum = [S \in Small(D, m) |-> sum[S]]
    OBVIOUS
  <2> HIDE DEF sum
  <2> QED
    BY <2>1, <2>2
<1> HIDE DEF sum
<1>9. Sums(Small(D, m), f, sum)
  BY <1>8 DEF Sums
<1> QED
  BY <1>2, <1>9

\* The cardinality of a bag is the sum over its domain.
LEMMA CardinalityIsSum ==
    ASSUME NEW B, IsFiniteSet(DOMAIN B)
    PROVE  \E sum : Sums(SUBSET DOMAIN B, B, sum) /\ BagCardinality(B) = sum[DOMAIN B]
<1> DEFINE D == DOMAIN B
           n == Cardinality(D)
<1>1. \E sum : Sums(SUBSET D, B, sum)
  <2>1. n \in Nat
    BY FS_CardinalityType
  <2>2. \A S \in SUBSET D : Cardinality(S) <= n
    BY FS_Subset
  <2>3. Small(D, n) = SUBSET D
    BY <2>2, Zenon DEF Small
  <2> HIDE DEF n, D
  <2>4. \E sum : Sums(Small(D, n), B, sum)
    BY <2>1, SmallSumsExist DEF D
  <2> QED
    BY <2>3, <2>4
<1> DEFINE sum == CHOOSE g : Sums(SUBSET D, B, g)
<1>2. Sums(SUBSET D, B, sum)
  BY <1>1, Zenon
<1>3. BagCardinality(B) = sum[D]
  BY Zenon DEF BagCardinality, Sums, Picked
<1> QED
  BY <1>2, <1>3

\* What remains of the sum when one element is taken out.
Peels(f, sum, S) == sum[S] \in Nat /\ \A e \in S : sum[S] = f[e] + sum[S \ {e}]
Same(f, g, R) == \A x \in R : f[x] = g[x]

\* A part of a bag has the sum that the bag has for it.
LEMMA SumsAgree ==
    ASSUME NEW D, IsFiniteSet(D), NEW f, NEW t, Sums(SUBSET D, f, t),
           NEW R \in SUBSET D, NEW g, Same(f, g, R), NEW u, Sums(SUBSET R, g, u)
    PROVE  Same(t, u, {R})
<1> DEFINE T == {Cardinality(S) : S \in {Q \in SUBSET R : t[Q] # u[Q]}}
<1>1. ASSUME T # {}
      PROVE  FALSE
  <2>1. T \in SUBSET Nat
    <3>1. \A Q \in SUBSET R : Cardinality(Q) \in Nat
      BY FS_Subset, FS_CardinalityType
    <3> QED
      BY <3>1
  <2>2. PICK m \in T : \A k \in T : m <= k
    <3> HIDE DEF T
    <3> QED
      BY <1>1, <2>1, LeastNatural
  <2>3. PICK S \in SUBSET R : t[S] # u[S] /\ m = Cardinality(S)
    BY <2>2
  <2>4. S # {}
    BY <2>3 DEF Sums
  <2> DEFINE Q == S \ {Picked(S)}
  <2>5. /\ Picked(S) \in R /\ Q \in SUBSET R
        /\ Cardinality(S) \in Nat /\ Cardinality(Q) = Cardinality(S) - 1
    BY <2>4, PickedLeaves
  <2>6. t[S] = f[Picked(S)] + t[Q] /\ u[S] = g[Picked(S)] + u[Q]
    BY <2>4 DEF Sums
  <2>7. Cardinality(Q) \in T
    <3>1. Q \in SUBSET R /\ t[Q] # u[Q]
      BY <2>3, <2>5, <2>6 DEF Same
    <3> QED
      BY <3>1
  <2> HIDE DEF T, Q
  <2> QED
    BY <2>2, <2>3, <2>5, <2>7
<1> QED
  BY <1>1 DEF Same

\* Any element may be taken out of the sum, not only the one that is picked.
LEMMA SumsPeel ==
    ASSUME NEW D, IsFiniteSet(D), NEW f \in [D -> Nat], NEW t, Sums(SUBSET D, f, t)
    PROVE  \A S \in SUBSET D : Peels(f, t, S)
<1> DEFINE Good(S) == t[S] \in Nat /\ \A e \in S : t[S] = f[e] + t[S \ {e}]
           T == {Cardinality(S) : S \in {Q \in SUBSET D : ~Good(Q)}}
<1>1. ASSUME T # {}
      PROVE  FALSE
  <2>1. T \in SUBSET Nat
    <3>1. \A Q \in SUBSET D : Cardinality(Q) \in Nat
      BY FS_Subset, FS_CardinalityType
    <3> HIDE DEF Good
    <3> QED
      BY <3>1
  <2>2. PICK m \in T : \A k \in T : m <= k
    <3> HIDE DEF T
    <3> QED
      BY <1>1, <2>1, LeastNatural
  <2>3. PICK S \in SUBSET D : ~Good(S) /\ m = Cardinality(S)
    BY <2>2
  <2>4. \A Q \in SUBSET S : Q # S => Good(Q)
    <3> SUFFICES ASSUME NEW Q \in SUBSET S, Q # S, ~Good(Q)
                 PROVE  FALSE
      OBVIOUS
    <3>1. Cardinality(Q) \in T
      OBVIOUS
    <3>2. IsFiniteSet(S)
      BY FS_Subset
    <3>3. /\ Cardinality(Q) \in Nat /\ Cardinality(S) \in Nat
          /\ Cardinality(Q) < Cardinality(S)
      BY <3>2, FS_Subset, FS_CardinalityType
    <3> HIDE DEF T, Good
    <3> QED
      BY <2>2, <2>3, <3>1, <3>3
  <2> HIDE DEF T
  <2>5. t[{}] = 0
    BY DEF Sums
  <2>6. S # {}
    <3>1. Good({})
      BY <2>5
    <3> HIDE DEF Good
    <3> QED
      BY <2>3, <3>1
  <2> DEFINE p == Picked(S)
  <2>7. p \in S /\ p \in D /\ f[p] \in Nat
    BY <2>6, PickedLeaves
  <2>8. t[S] = f[p] + t[S \ {p}]
    BY <2>6 DEF Sums
  <2> HIDE DEF p
  <2>9. Good(S \ {p})
    BY <2>4, <2>7
  <2>10. ASSUME NEW e \in S, e # p
         PROVE  t[S] = f[e] + t[S \ {e}]
    <3> DEFINE Q == S \ {e, p}
    <3>1. /\ (S \ {p}) \ {e} = Q /\ (S \ {e}) \ {p} = Q
          /\ e \in S \ {p} /\ p \in S \ {e} /\ S \ {e} # S /\ Q # S
      BY <2>7, <2>10
    <3>2. t[S \ {p}] = f[e] + t[Q]
      BY <2>9, <3>1
    <3>3. Good(S \ {e}) /\ t[Q] \in Nat
      BY <2>4, <3>1
    <3>4. t[S \ {e}] = f[p] + t[Q]
      BY <3>1, <3>3
    <3>5. f[e] \in Nat
      OBVIOUS
    <3> HIDE DEF Q
    <3> QED
      BY <2>7, <2>8, <3>2, <3>3, <3>4, <3>5
  <2>11. t[S] \in Nat
    BY <2>7, <2>8, <2>9
  <2> QED
    BY <2>3, <2>8, <2>10, <2>11
<1> QED
  BY <1>1 DEF Peels

Counting(D, B) == B \in [D -> Nat]

\* A bag has as many entries as its copies of one of them and all the others.
LEMMA BagPeel ==
    ASSUME NEW D, IsFiniteSet(D), NEW B, Counting(D, B), NEW e \in D
    PROVE  /\ BagCardinality(B) \in Nat
           /\ BagCardinality([x \in D \ {e} |-> B[x]]) \in Nat
           /\ BagCardinality(B) = B[e] + BagCardinality([x \in D \ {e} |-> B[x]])
<1> DEFINE R == D \ {e}
           C == [x \in R |-> B[x]]
<1>1. DOMAIN B = D /\ DOMAIN C = R /\ IsFiniteSet(R) /\ R \in SUBSET D
  BY FS_Subset DEF Counting
<1>2. PICK t : Sums(SUBSET D, B, t) /\ BagCardinality(B) = t[D]
  BY <1>1, CardinalityIsSum
<1>3. Same(B, C, R)
  BY DEF Same
<1> HIDE DEF C, R
<1>4. PICK u : Sums(SUBSET R, C, u) /\ BagCardinality(C) = u[R]
  BY <1>1, CardinalityIsSum
<1>5. t[R] = u[R]
  <2>1. Same(t, u, {R})
    BY <1>1, <1>2, <1>3, <1>4, SumsAgree
  <2> QED
    BY <2>1 DEF Same
<1>6. \A S \in SUBSET D : Peels(B, t, S)
  BY <1>2, SumsPeel DEF Counting
<1>7. t[R] \in Nat /\ t[D] \in Nat /\ t[D] = B[e] + t[R]
  <2>1. D \in SUBSET D
    OBVIOUS
  <2> QED
    BY <1>1, <1>6, <2>1 DEF R, Peels
<1> QED
  BY <1>2, <1>4, <1>5, <1>7 DEF C, R

IsALog(B) == IsABag(B) /\ IsFiniteSet(DOMAIN B)

CountIn(B, Q) == BagCardinality([x \in DOMAIN B \cap Q |-> B[x]])

OneMore(B, C, e, Q) ==
    CountIn(B, Q) \in Nat /\ CountIn(C, Q) = CountIn(B, Q) + IF e \in Q THEN 1 ELSE 0

LEMMA BagNat ==
    ASSUME NEW D, IsFiniteSet(D), NEW B, Counting(D, B)
    PROVE  BagCardinality(B) \in Nat
<1>1. DOMAIN B = D /\ D \in SUBSET D
  BY DEF Counting
<1>2. PICK t : Sums(SUBSET D, B, t) /\ BagCardinality(B) = t[D]
  BY <1>1, CardinalityIsSum
<1>3. \A S \in SUBSET D : Peels(B, t, S)
  BY <1>2, SumsPeel DEF Counting
<1> QED
  BY <1>1, <1>2, <1>3 DEF Peels

\* A log counts one entry more, wherever the new entry counts, and nothing less.
LEMMA LogGrows ==
    ASSUME NEW B, IsALog(B), NEW e, NEW Q,
           NEW C, C = B (+) SetToBag({e})
    PROVE  /\ IsALog(C)
           /\ DOMAIN C = DOMAIN B \cup {e}
           /\ OneMore(B, C, e, Q)
<1> DEFINE D == DOMAIN B \cap Q
           E == DOMAIN C \cap Q
           F == [x \in D |-> B[x]]
           G == [x \in E |-> C[x]]
<1>1. DOMAIN C = DOMAIN B \cup {e}
  BY DEF (+), SetToBag
<1>2. /\ \A x \in DOMAIN B : B[x] \in Nat /\ B[x] > 0
      /\ IsFiniteSet(DOMAIN B)
  BY DEF IsALog, IsABag
<1>3. /\ \A x \in DOMAIN B : x # e => C[x] = B[x]
      /\ e \in DOMAIN B => C[e] = B[e] + 1
      /\ e \notin DOMAIN B => C[e] = 1
  BY <1>2 DEF (+), SetToBag
<1>4. IsALog(C)
  <2>1. \A x \in DOMAIN C : C[x] \in Nat /\ C[x] > 0
    BY <1>1, <1>2, <1>3
  <2>2. C = [x \in DOMAIN C |-> C[x]]
    BY DEF (+)
  <2>3. IsABag(C)
    BY <2>1, <2>2 DEF IsABag
  <2>4. IsFiniteSet(DOMAIN C)
    BY <1>1, <1>2, FS_AddElement
  <2> QED
    BY <2>3, <2>4 DEF IsALog
<1>5. /\ IsFiniteSet(D) /\ Counting(D, F)
      /\ IsFiniteSet(E) /\ Counting(E, G)
  <2>1. IsFiniteSet(D) /\ IsFiniteSet(E)
    BY <1>4, FS_Subset DEF IsALog
  <2>2. Counting(D, F)
    BY <1>2 DEF Counting
  <2>3. Counting(E, G)
    BY <1>4 DEF Counting, IsALog, IsABag
  <2> QED
    BY <2>1, <2>2, <2>3
<1>6. CountIn(B, Q) = BagCardinality(F) /\ CountIn(C, Q) = BagCardinality(G)
  BY Zenon DEF CountIn
<1>7. BagCardinality(F) \in Nat /\ BagCardinality(G) \in Nat
  <2> HIDE DEF D, E, F, G
  <2> QED
    BY <1>5, BagNat
<1>8. ASSUME e \notin Q
      PROVE  BagCardinality(G) = BagCardinality(F)
  <2>1. D = E
    BY <1>1, <1>8
  <2>2. \A x \in D : C[x] = B[x]
    BY <1>3, <1>8
  <2>3. F = G
    BY <2>1, <2>2
  <2> QED
    BY <2>3
<1>9. ASSUME e \in Q
      PROVE  BagCardinality(G) = BagCardinality(F) + 1
  <2> DEFINE H == [x \in E \ {e} |-> G[x]]
  <2>1. e \in E /\ G[e] = C[e]
    BY <1>1, <1>9
  <2>2. /\ BagCardinality(H) \in Nat
        /\ BagCardinality(G) = G[e] + BagCardinality(H)
    <3> HIDE DEF E, G
    <3> QED
      BY <1>5, <2>1, BagPeel
  <2>3. CASE e \in DOMAIN B
    <3> DEFINE I == [x \in D \ {e} |-> F[x]]
    <3>1. e \in D /\ F[e] = B[e]
      BY <1>9, <2>3
    <3>2. /\ BagCardinality(I) \in Nat
          /\ BagCardinality(F) = F[e] + BagCardinality(I)
      <4> HIDE DEF D, F
      <4> QED
        BY <1>5, <3>1, BagPeel
    <3>3. H = I
      <4>1. D = E
        BY <1>1, <2>3
      <4>2. \A x \in D \ {e} : G[x] = F[x]
        BY <1>3, <4>1
      <4> HIDE DEF D, E, F, G
      <4> QED
        BY <4>1, <4>2
    <3>4. G[e] = F[e] + 1 /\ F[e] \in Nat
      BY <1>2, <1>3, <2>1, <2>3, <3>1
    <3> HIDE DEF F, G, H, I
    <3> QED
      BY <2>2, <3>2, <3>3, <3>4
  <2>4. CASE e \notin DOMAIN B
    <3>1. E \ {e} = D
      BY <1>1, <1>9, <2>4
    <3>2. \A x \in D : G[x] = B[x]
      BY <1>1, <1>3, <2>4
    <3>3. H = F
      BY <3>1, <3>2
    <3>4. G[e] = 1
      BY <1>3, <2>1, <2>4
    <3> HIDE DEF F, G, H
    <3> QED
      BY <1>7, <2>2, <3>3, <3>4
  <2> QED
    BY <2>3, <2>4
<1> HIDE DEF F, G
<1> QED
  BY <1>1, <1>4, <1>6, <1>7, <1>8, <1>9 DEF OneMore

\* What a log counts everywhere is its cardinality.
LEMMA CountAll ==
    ASSUME NEW B, IsALog(B), NEW Q, DOMAIN B \subseteq Q
    PROVE  CountIn(B, Q) = BagCardinality(B) /\ BagCardinality(B) \in Nat
<1>1. DOMAIN B \cap Q = DOMAIN B
  OBVIOUS
<1>2. B = [x \in DOMAIN B |-> B[x]]
  BY DEF IsALog, IsABag
<1>3. CountIn(B, Q) = BagCardinality(B)
  BY <1>1, <1>2 DEF CountIn
<1>4. Counting(DOMAIN B, B) /\ IsFiniteSet(DOMAIN B)
  BY DEF Counting, IsALog, IsABag
<1>5. BagCardinality(B) \in Nat
  BY <1>4, BagNat
<1> QED
  BY <1>3, <1>5

-----------------------------------------------------------------------------
(* The ledger: what every operation leaves an account with, and what it    *)
(* writes into the histories.                                              *)

Sound(account) ==
    /\ account \in Ledger!Account
    /\ account.balance \in 0..MaxCents
    /\ account.loan_balance \in 0..MaxCents

LedgerOK ==
    /\ DOMAIN accounts \subseteq AccountIds
    /\ \A a \in DOMAIN accounts : Sound(accounts[a])
    /\ next_transaction_id \in 1..MaxTransactionId

History(id) == IF id \in DOMAIN accounts THEN accounts[id].transactions ELSE << >>

\* The step writes the transactions of `entry`, one into a history at most, and
\* takes their ids from the next one on.
Writes(entry) ==
    /\ next_transaction_id <= next_transaction_id'
    /\ \A a \in DOMAIN entry :
         /\ entry[a] \in Ledger!Transaction
         /\ next_transaction_id <= entry[a].id
         /\ entry[a].id < next_transaction_id'
    /\ \A a, b \in DOMAIN entry : entry[a].id = entry[b].id => a = b
    /\ \A a \in DOMAIN accounts' :
         \/ /\ a \notin DOMAIN entry /\ a \in DOMAIN accounts
            /\ accounts'[a].transactions = accounts[a].transactions
         \/ /\ a \in DOMAIN entry
            /\ accounts'[a].transactions = Append(History(a), entry[a])

\* Of the kinds that the client records, one transaction at most is written.
Tracked == DOMAIN ActionOf

LedgerStep(id, kind) ==
    /\ LedgerOK'
    /\ \E entry :
         /\ Writes(entry)
         /\ \A a \in DOMAIN entry :
              entry[a].kind \in Tracked => a = id /\ entry[a].kind = kind

LEMMA TrackedKinds == Tracked = {"AccountCreated", "Deposit", "Withdrawal", "TransferOut"}
BY DEF Tracked, ActionOf

LEMMA RecordedSound ==
    ASSUME NEW account, Sound(account), NEW id \in Nat, NEW kind \in Ledger!Kinds,
           NEW amount \in Int,
           NEW t, t = [id |-> id, kind |-> kind, amount |-> amount]
    PROVE  /\ Sound(Ledger!Recorded(account, id, kind, amount))
           /\ Ledger!Recorded(account, id, kind, amount).transactions
                = Append(account.transactions, t)
           /\ t \in Ledger!Transaction /\ t.id = id /\ t.kind = kind
<1>1. t \in Ledger!Transaction /\ t.id = id /\ t.kind = kind
  BY DEF Ledger!Transaction
<1>2. Append(account.transactions, t) \in Seq(Ledger!Transaction)
  BY <1>1 DEF Ledger!Account, Sound
<1>3. Ledger!Recorded(account, id, kind, amount)
        = [account EXCEPT !.transactions = Append(account.transactions, t)]
  BY DEF Ledger!Recorded
<1>4. Sound(Ledger!Recorded(account, id, kind, amount))
  BY <1>2, <1>3 DEF Ledger!Account, Sound
<1>5. Ledger!Recorded(account, id, kind, amount).transactions = Append(account.transactions, t)
  BY <1>3 DEF Ledger!Account, Sound
<1> QED
  BY <1>1, <1>4, <1>5

LEMMA BalanceSound ==
    ASSUME LedgerOK, NEW id \in DOMAIN accounts, NEW balance \in 0..MaxCents
    PROVE  /\ Sound(Ledger!WithBalance(id, balance))
           /\ Ledger!WithBalance(id, balance).transactions = accounts[id].transactions
<1>1. Sound(accounts[id]) /\ balance \in Int
  BY LedgerAssumption DEF LedgerOK
<1> QED
  BY <1>1 DEF Sound, Ledger!WithBalance, Ledger!Account

LEMMA StatusSound ==
    ASSUME LedgerOK, NEW id \in DOMAIN accounts, NEW status \in Ledger!Statuses
    PROVE  /\ Sound(Ledger!WithStatus(id, status))
           /\ Ledger!WithStatus(id, status).transactions = accounts[id].transactions
<1>1. Sound(accounts[id])
  BY DEF LedgerOK
<1> QED
  BY <1>1 DEF Sound, Ledger!WithStatus, Ledger!Account

LEMMA LoanSound ==
    ASSUME LedgerOK, NEW id \in DOMAIN accounts,
           NEW balance \in 0..MaxCents, NEW loan \in 0..MaxCents
    PROVE  LET account == [Ledger!WithBalance(id, balance) EXCEPT !.loan_balance = loan]
           IN  Sound(account) /\ account.transactions = accounts[id].transactions
<1>1. Sound(accounts[id]) /\ balance \in Int /\ loan \in Int
  BY LedgerAssumption DEF LedgerOK
<1> QED
  BY <1>1 DEF Sound, Ledger!WithBalance, Ledger!Account

\* A step that writes nothing, whatever else it does.
LEMMA QuietStep ==
    ASSUME LedgerOK', DOMAIN accounts' \subseteq DOMAIN accounts,
           \A a \in DOMAIN accounts' : accounts'[a].transactions = accounts[a].transactions,
           next_transaction_id <= next_transaction_id'
    PROVE  \A id, kind : LedgerStep(id, kind)
<1> DEFINE entry == [a \in {} |-> {}]
<1>1. DOMAIN entry = {}
  OBVIOUS
<1> HIDE DEF entry
<1>2. Writes(entry)
  BY <1>1 DEF Writes
<1> QED
  BY <1>1, <1>2 DEF LedgerStep

LEMMA PostStep ==
    ASSUME LedgerOK, NEW id \in DOMAIN accounts, NEW account, Sound(account),
           account.transactions = accounts[id].transactions,
           NEW kind \in Ledger!Kinds, NEW amount \in Int,
           Ledger!Post(id, account, kind, amount)
    PROVE  LedgerStep(id, kind)
<1> DEFINE written == Ledger!Recorded(account, next_transaction_id, kind, amount)
           t == [id |-> next_transaction_id, kind |-> kind, amount |-> amount]
           entry == [a \in {id} |-> t]
<1>1. next_transaction_id \in Nat
  BY DEF LedgerOK
<1>2. /\ Sound(written)
      /\ written.transactions = Append(account.transactions, t)
      /\ t \in Ledger!Transaction /\ t.id = next_transaction_id /\ t.kind = kind
  BY <1>1, RecordedSound
<1>3. /\ accounts' = [accounts EXCEPT ![id] = written]
      /\ next_transaction_id' = next_transaction_id + 1
  BY DEF Ledger!Post
<1>4. DOMAIN entry = {id} /\ entry[id] = t
  OBVIOUS
<1> HIDE DEF written, t, entry
<1>5. next_transaction_id' \in 1..MaxTransactionId
  BY LedgerAssumption DEF LedgerOK, Ledger!Post, Ledger!IdsLeft
<1>6. /\ DOMAIN accounts' = DOMAIN accounts
      /\ accounts'[id] = written
      /\ \A a \in DOMAIN accounts \ {id} : accounts'[a] = accounts[a]
  BY <1>3
<1>7. LedgerOK'
  <2>1. \A a \in DOMAIN accounts' : Sound(accounts'[a])
    BY <1>2, <1>6, Zenon DEF LedgerOK
  <2> QED
    BY <1>5, <1>6, <2>1 DEF LedgerOK
<1>8. Writes(entry)
  <2>1. \A a \in DOMAIN accounts' :
          \/ /\ a \notin DOMAIN entry /\ a \in DOMAIN accounts
             /\ accounts'[a].transactions = accounts[a].transactions
          \/ /\ a \in DOMAIN entry
             /\ accounts'[a].transactions = Append(History(a), entry[a])
    BY <1>2, <1>4, <1>6 DEF History
  <2> QED
    BY <1>1, <1>2, <1>3, <1>4, <2>1 DEF Writes
<1> QED
  BY <1>2, <1>4, <1>7, <1>8 DEF LedgerStep

LEMMA ForfeitStep ==
    ASSUME LedgerOK, Ledger!Forfeit
    PROVE  \A id, kind : LedgerStep(id, kind)
<1>1. /\ next_transaction_id' \in 1..MaxTransactionId
      /\ next_transaction_id <= next_transaction_id'
      /\ accounts' = accounts
  BY LedgerAssumption DEF LedgerOK, Ledger!Forfeit, Ledger!IdsLeft
<1>2. LedgerOK'
  BY <1>1 DEF LedgerOK
<1> QED
  BY <1>1, <1>2, QuietStep

LEMMA UnmovedStep ==
    ASSUME LedgerOK, UNCHANGED <<accounts, next_transaction_id>>
    PROVE  \A id, kind : LedgerStep(id, kind)
<1>1. LedgerOK' /\ next_transaction_id <= next_transaction_id'
  BY LedgerAssumption DEF LedgerOK
<1> QED
  BY <1>1, QuietStep

LEMMA OpenStep ==
    ASSUME LedgerOK, NEW id \in AccountIds, NEW opening \in Amounts,
           Ledger!CreateAccount(id, opening)
    PROVE  LedgerStep(id, "AccountCreated") /\ DOMAIN accounts' = DOMAIN accounts \cup {id}
<1> DEFINE first == [id |-> next_transaction_id, kind |-> "AccountCreated",
                     amount |-> opening]
           opened == [status |-> "Active", balance |-> opening, loan_balance |-> 0,
                      transactions |-> <<first>>]
           entry == [a \in {id} |-> first]
<1>1. next_transaction_id \in Nat /\ opening \in Nat /\ opening <= MaxCents
  BY LedgerAssumption DEF LedgerOK, Ledger!CreateAccount
<1>2. /\ first \in Ledger!Transaction /\ first.kind = "AccountCreated"
      /\ first.id = next_transaction_id
  BY <1>1 DEF Ledger!Transaction, Ledger!Kinds, Ledger!Credits
<1>3. /\ DOMAIN accounts' = DOMAIN accounts \cup {id}
      /\ accounts'[id] = opened
      /\ \A a \in DOMAIN accounts : accounts'[a] = accounts[a]
      /\ id \notin DOMAIN accounts
      /\ next_transaction_id' = next_transaction_id + 1
  BY DEF Ledger!CreateAccount, Ledger!Exists
<1>4. DOMAIN entry = {id} /\ entry[id] = first
  OBVIOUS
<1> HIDE DEF first, entry
<1>5. Sound(opened) /\ opened.transactions = Append(<< >>, first)
  BY <1>1, <1>2, LedgerAssumption DEF Sound, Ledger!Account, Ledger!Statuses
<1> HIDE DEF opened
<1>6. next_transaction_id' \in 1..MaxTransactionId
  BY LedgerAssumption DEF LedgerOK, Ledger!CreateAccount, Ledger!IdsLeft
<1>7. LedgerOK'
  <2>1. \A a \in DOMAIN accounts' : Sound(accounts'[a])
    BY <1>3, <1>5, Zenon DEF LedgerOK
  <2> QED
    BY <1>3, <1>6, <2>1 DEF LedgerOK
<1>8. Writes(entry)
  <2>1. \A a \in DOMAIN accounts' :
          \/ /\ a \notin DOMAIN entry /\ a \in DOMAIN accounts
             /\ accounts'[a].transactions = accounts[a].transactions
          \/ /\ a \in DOMAIN entry
             /\ accounts'[a].transactions = Append(History(a), entry[a])
    BY <1>3, <1>4, <1>5 DEF History
  <2> QED
    BY <1>1, <1>2, <1>3, <1>4, <2>1 DEF Writes
<1> QED
  BY <1>2, <1>3, <1>4, <1>7, <1>8 DEF LedgerStep

LEMMA DeleteStep ==
    ASSUME LedgerOK, NEW id, Ledger!DeleteAccount(id)
    PROVE  (\A a, kind : LedgerStep(a, kind)) /\ DOMAIN accounts' = DOMAIN accounts \ {id}
<1>1. /\ accounts' = [a \in DOMAIN accounts \ {id} |-> accounts[a]]
      /\ next_transaction_id' = next_transaction_id
  BY DEF Ledger!DeleteAccount
<1>2. LedgerOK' /\ next_transaction_id <= next_transaction_id'
  BY <1>1, LedgerAssumption DEF LedgerOK
<1> QED
  BY <1>1, <1>2, QuietStep

LEMMA NoteStep ==
    ASSUME LedgerOK, NEW id,
           \/ Ledger!UpdateProfile(id) \/ Ledger!CloseAccount(id)
           \/ Ledger!ActivateAccount(id) \/ Ledger!DeactivateAccount(id)
    PROVE  \E kind \in Ledger!Notes : LedgerStep(id, kind)
<1>1. id \in DOMAIN accounts
  BY DEF Ledger!UpdateProfile, Ledger!ActivateAccount, Ledger!DeactivateAccount,
         Ledger!CloseAccount, Ledger!OwesAndHoldsNothing, Ledger!Exists
<1>2. \A kind \in Ledger!Notes : kind \in Ledger!Kinds
  BY DEF Ledger!Kinds
<1>3. CASE Ledger!UpdateProfile(id)
  <2>1. Ledger!Post(id, accounts[id], "ProfileUpdated", 0) /\ Sound(accounts[id])
    BY <1>1, <1>3 DEF Ledger!UpdateProfile, LedgerOK
  <2>2. "ProfileUpdated" \in Ledger!Notes
    BY DEF Ledger!Notes
  <2> QED
    BY <1>1, <1>2, <2>1, <2>2, PostStep
<1>4. ASSUME NEW status \in Ledger!Statuses, NEW kind \in Ledger!Notes,
             Ledger!Post(id, Ledger!WithStatus(id, status), kind, 0)
      PROVE  LedgerStep(id, kind)
  <2>1. kind \in Ledger!Kinds /\ 0 \in Int
    BY <1>2
  <2>2. /\ Sound(Ledger!WithStatus(id, status))
        /\ Ledger!WithStatus(id, status).transactions = accounts[id].transactions
    BY <1>1, StatusSound
  <2> QED
    BY <1>1, <1>4, <2>1, <2>2, PostStep
<1>5. CASE Ledger!ActivateAccount(id)
  BY <1>4, <1>5 DEF Ledger!ActivateAccount, Ledger!Statuses, Ledger!Notes
<1>6. CASE Ledger!DeactivateAccount(id)
  BY <1>4, <1>6 DEF Ledger!DeactivateAccount, Ledger!Statuses, Ledger!Notes
<1>7. CASE Ledger!CloseAccount(id)
  BY <1>4, <1>7 DEF Ledger!CloseAccount, Ledger!Statuses, Ledger!Notes
<1> QED
  BY <1>3, <1>5, <1>6, <1>7

LEMMA TakeStep ==
    ASSUME LedgerOK, NEW id, NEW amount \in Amounts, NEW kind \in Ledger!Kinds,
           Ledger!Take(id, amount, kind)
    PROVE  LedgerStep(id, kind) /\ DOMAIN accounts' = DOMAIN accounts
<1> DEFINE account == Ledger!WithBalance(id, accounts[id].balance - amount)
<1>1. id \in DOMAIN accounts /\ amount \in Int
  BY LedgerAssumption DEF Ledger!Take, Ledger!CanTransact, Ledger!Exists
<1>2. accounts[id].balance - amount \in 0..MaxCents
  BY <1>1, LedgerAssumption DEF LedgerOK, Sound, Ledger!Take, Ledger!HasFunds
<1>3. Sound(account) /\ account.transactions = accounts[id].transactions
  BY <1>1, <1>2, BalanceSound
<1>4. Ledger!Post(id, account, kind, amount)
  BY DEF Ledger!Take
<1> HIDE DEF account
<1>5. DOMAIN accounts' = DOMAIN accounts
  BY <1>4 DEF Ledger!Post
<1> QED
  BY <1>1, <1>3, <1>4, <1>5, PostStep

LEMMA DepositStep ==
    ASSUME LedgerOK, NEW id, NEW amount \in Amounts, Ledger!Deposit(id, amount)
    PROVE  LedgerStep(id, "Deposit")
<1> DEFINE balance == accounts[id].balance + amount
<1>1. id \in DOMAIN accounts /\ amount \in Int /\ amount > 0
  BY LedgerAssumption DEF Ledger!Deposit, Ledger!CanTransact, Ledger!Exists
<1>2. CASE Ledger!Forfeit
  BY <1>2, ForfeitStep
<1>3. CASE /\ balance <= MaxCents
           /\ Ledger!Post(id, Ledger!WithBalance(id, balance), "Deposit", amount)
  <2>1. balance \in 0..MaxCents
    BY <1>1, <1>3, LedgerAssumption DEF LedgerOK, Sound
  <2>2. /\ Sound(Ledger!WithBalance(id, balance))
        /\ Ledger!WithBalance(id, balance).transactions = accounts[id].transactions
    BY <1>1, <2>1, BalanceSound
  <2>3. "Deposit" \in Ledger!Kinds
    BY DEF Ledger!Kinds, Ledger!Credits
  <2> QED
    BY <1>1, <1>3, <2>2, <2>3, PostStep
<1> QED
  BY <1>2, <1>3 DEF Ledger!Deposit

LEMMA InterestStep ==
    ASSUME LedgerOK, NEW id, NEW rate \in Rates, Ledger!ApplyInterest(id, rate)
    PROVE  LedgerStep(id, "Interest")
<1> DEFINE interest == Ledger!Percentage(accounts[id].balance, rate)
           balance  == accounts[id].balance + interest
<1>1. id \in DOMAIN accounts /\ rate \in Nat
  BY LedgerAssumption DEF Ledger!ApplyInterest, Ledger!CanTransact, Ledger!Exists
<1>2. accounts[id].balance \in Nat
  BY <1>1, LedgerAssumption DEF LedgerOK, Sound
<1>3. interest \in Nat
  <2> DEFINE cents == accounts[id].balance
  <2>1. cents * rate \in Nat
    BY <1>1, <1>2
  <2>2. ASSUME NEW n \in Nat, NEW d \in Nat \ {0}
        PROVE  n \div d \in Nat
    OBVIOUS
  <2> QED
    BY <2>1, <2>2, LedgerAssumption DEF Ledger!Percentage
<1>4. CASE Ledger!Forfeit
  BY <1>4, ForfeitStep
<1>5. CASE /\ balance <= MaxCents
           /\ Ledger!Post(id, Ledger!WithBalance(id, balance), "Interest", interest)
  <2> HIDE DEF interest
  <2>1. balance \in 0..MaxCents
    BY <1>2, <1>3, <1>5, LedgerAssumption
  <2>2. /\ Sound(Ledger!WithBalance(id, balance))
        /\ Ledger!WithBalance(id, balance).transactions = accounts[id].transactions
    BY <1>1, <2>1, BalanceSound
  <2>3. "Interest" \in Ledger!Kinds /\ interest \in Int
    BY <1>3 DEF Ledger!Kinds, Ledger!Credits
  <2> QED
    BY <1>1, <1>5, <2>2, <2>3, PostStep
<1> QED
  BY <1>4, <1>5 DEF Ledger!ApplyInterest

LEMMA RequestLoanStep ==
    ASSUME LedgerOK, NEW id, NEW amount \in Amounts, Ledger!RequestLoan(id, amount)
    PROVE  LedgerStep(id, "LoanRequested")
<1> DEFINE balance == accounts[id].balance + amount
           loan    == accounts[id].loan_balance + amount
           account == [Ledger!WithBalance(id, balance) EXCEPT !.loan_balance = loan]
<1>1. id \in DOMAIN accounts /\ amount \in Int /\ amount > 0
  BY LedgerAssumption DEF Ledger!RequestLoan, Ledger!CanTransact, Ledger!Exists
<1>2. balance \in Nat /\ loan \in Nat
  BY <1>1, LedgerAssumption DEF LedgerOK, Sound
<1>3. CASE Ledger!Forfeit
  BY <1>3, ForfeitStep
<1>4. CASE /\ balance <= MaxCents /\ loan <= MaxCents
           /\ Ledger!Post(id, account, "LoanRequested", amount)
  <2>1. balance \in 0..MaxCents /\ loan \in 0..MaxCents
    BY <1>2, <1>4, LedgerAssumption
  <2>2. Sound(account) /\ account.transactions = accounts[id].transactions
    <3> HIDE DEF balance, loan
    <3> QED
      BY <1>1, <2>1, LoanSound
  <2>3. "LoanRequested" \in Ledger!Kinds
    BY DEF Ledger!Kinds, Ledger!Credits
  <2> HIDE DEF account
  <2> QED
    BY <1>1, <1>4, <2>2, <2>3, PostStep
<1>5. CASE /\ balance <= MaxCents
           /\ Ledger!IdsLeft(1)
           /\ accounts' = [accounts EXCEPT ![id] = Ledger!WithBalance(id, balance)]
           /\ next_transaction_id' = next_transaction_id + 1
  <2>1. balance \in 0..MaxCents
    BY <1>2, <1>5, LedgerAssumption
  <2>2. /\ Sound(Ledger!WithBalance(id, balance))
        /\ Ledger!WithBalance(id, balance).transactions = accounts[id].transactions
    BY <1>1, <2>1, BalanceSound
  <2>3. /\ next_transaction_id' \in 1..MaxTransactionId
        /\ next_transaction_id <= next_transaction_id'
    BY <1>5, LedgerAssumption DEF LedgerOK, Ledger!IdsLeft
  <2>4. /\ DOMAIN accounts' = DOMAIN accounts
        /\ accounts'[id] = Ledger!WithBalance(id, balance)
        /\ \A a \in DOMAIN accounts \ {id} : accounts'[a] = accounts[a]
    BY <1>1, <1>5
  <2>5. \A a \in DOMAIN accounts' : Sound(accounts'[a])
    BY <2>2, <2>4, Zenon DEF LedgerOK
  <2>6. \A a \in DOMAIN accounts' : accounts'[a].transactions = accounts[a].transactions
    BY <2>2, <2>4, Zenon
  <2>7. LedgerOK'
    BY <2>3, <2>4, <2>5 DEF LedgerOK
  <2> QED
    BY <2>3, <2>4, <2>6, <2>7, QuietStep
<1> QED
  BY <1>3, <1>4, <1>5 DEF Ledger!RequestLoan

LEMMA PayLoanStep ==
    ASSUME LedgerOK, NEW id, NEW amount \in Amounts, Ledger!PayLoan(id, amount)
    PROVE  LedgerStep(id, "LoanPayment")
<1> DEFINE loan    == accounts[id].loan_balance
           payment == IF amount < loan THEN amount ELSE loan
           balance == accounts[id].balance - payment
           rest    == loan - payment
           account == [Ledger!WithBalance(id, balance) EXCEPT !.loan_balance = rest]
<1>1. id \in DOMAIN accounts /\ amount \in Int /\ amount > 0
  BY LedgerAssumption DEF Ledger!PayLoan, Ledger!CanTransact, Ledger!Exists
<1>2. payment \in Nat /\ balance \in 0..MaxCents /\ rest \in 0..MaxCents
  BY <1>1, LedgerAssumption DEF LedgerOK, Sound, Ledger!PayLoan, Ledger!HasFunds
<1>3. Sound(account) /\ account.transactions = accounts[id].transactions
  <2> HIDE DEF balance, rest
  <2> QED
    BY <1>1, <1>2, LoanSound
<1>4. Ledger!Post(id, account, "LoanPayment", payment)
  BY DEF Ledger!PayLoan
<1>5. "LoanPayment" \in Ledger!Kinds /\ payment \in Int
  BY <1>2 DEF Ledger!Kinds, Ledger!Debits
<1> HIDE DEF account, payment
<1> QED
  BY <1>1, <1>3, <1>4, <1>5, PostStep

LEMMA TransferStep ==
    ASSUME LedgerOK, NEW from, NEW to, NEW amount \in Amounts,
           Ledger!Transfer(from, to, amount)
    PROVE  LedgerStep(from, "TransferOut")
<1> DEFINE paid     == Ledger!WithBalance(from, accounts[from].balance - amount)
           received == Ledger!WithBalance(to, accounts[to].balance + amount)
           n        == next_transaction_id
           m        == n + 1
           out      == Ledger!Recorded(paid, n, "TransferOut", amount)
           in       == Ledger!Recorded(received, m, "TransferIn", amount)
           t        == [id |-> n, kind |-> "TransferOut", amount |-> amount]
           u        == [id |-> m, kind |-> "TransferIn", amount |-> amount]
           entry    == [a \in {from, to} |-> IF a = from THEN t ELSE u]
<1>1. /\ from \in DOMAIN accounts /\ to \in DOMAIN accounts /\ from # to
      /\ amount \in Int /\ amount > 0
  BY LedgerAssumption DEF Ledger!Transfer, Ledger!CanTransact, Ledger!Exists
<1>2. CASE Ledger!Forfeit
  BY <1>2, ForfeitStep
<1>3. CASE /\ Ledger!IdsLeft(2)
           /\ accounts' = [accounts EXCEPT ![from] = out, ![to] = in]
           /\ next_transaction_id' = next_transaction_id + 2
  <2>1. /\ accounts[from].balance - amount \in 0..MaxCents
        /\ accounts[to].balance + amount \in 0..MaxCents
    BY <1>1, LedgerAssumption DEF LedgerOK, Sound, Ledger!Transfer, Ledger!HasFunds
  <2>2. /\ Sound(paid) /\ paid.transactions = accounts[from].transactions
        /\ Sound(received) /\ received.transactions = accounts[to].transactions
    BY <1>1, <2>1, BalanceSound
  <2>3. /\ n \in Nat /\ m \in Nat
        /\ "TransferOut" \in Ledger!Kinds /\ "TransferIn" \in Ledger!Kinds
    BY DEF LedgerOK, Ledger!Kinds, Ledger!Credits, Ledger!Debits
  <2>4. /\ Sound(out) /\ out.transactions = Append(accounts[from].transactions, t)
        /\ t \in Ledger!Transaction /\ t.id = n /\ t.kind = "TransferOut"
    <3> HIDE DEF paid, n, m
    <3>1. out = Ledger!Recorded(paid, n, "TransferOut", amount)
      OBVIOUS
    <3>2. /\ t = [id |-> n, kind |-> "TransferOut", amount |-> amount]
          /\ t.id = n /\ t.kind = "TransferOut"
      OBVIOUS
    <3> HIDE DEF out, t
    <3>3. /\ Sound(Ledger!Recorded(paid, n, "TransferOut", amount))
          /\ Ledger!Recorded(paid, n, "TransferOut", amount).transactions
               = Append(paid.transactions, t)
          /\ t \in Ledger!Transaction
      <4>1. /\ Sound(paid) /\ n \in Nat /\ "TransferOut" \in Ledger!Kinds /\ amount \in Int
            /\ t = [id |-> n, kind |-> "TransferOut", amount |-> amount]
        BY <1>1, <2>2, <2>3, <3>2
      <4> QED
        BY <4>1, RecordedSound
    <3> QED
      BY <2>2, <3>1, <3>2, <3>3
  <2>5. /\ Sound(in) /\ in.transactions = Append(accounts[to].transactions, u)
        /\ u \in Ledger!Transaction /\ u.id = m /\ u.kind = "TransferIn"
    <3> HIDE DEF received, n, m
    <3>1. in = Ledger!Recorded(received, m, "TransferIn", amount)
      OBVIOUS
    <3>2. /\ u = [id |-> m, kind |-> "TransferIn", amount |-> amount]
          /\ u.id = m /\ u.kind = "TransferIn"
      OBVIOUS
    <3> HIDE DEF in, u
    <3>3. /\ Sound(Ledger!Recorded(received, m, "TransferIn", amount))
          /\ Ledger!Recorded(received, m, "TransferIn", amount).transactions
               = Append(received.transactions, u)
          /\ u \in Ledger!Transaction
      <4>1. /\ Sound(received) /\ m \in Nat /\ "TransferIn" \in Ledger!Kinds /\ amount \in Int
            /\ u = [id |-> m, kind |-> "TransferIn", amount |-> amount]
        BY <1>1, <2>2, <2>3, <3>2
      <4> QED
        BY <4>1, RecordedSound
    <3> QED
      BY <2>2, <3>1, <3>2, <3>3
  <2>6. DOMAIN entry = {from, to} /\ entry[from] = t /\ entry[to] = u
    BY <1>1
  <2> HIDE DEF paid, received, out, in, t, u, entry
  <2>7. /\ DOMAIN accounts' = DOMAIN accounts
        /\ accounts'[from] = out /\ accounts'[to] = in
        /\ \A a \in DOMAIN accounts \ {from, to} : accounts'[a] = accounts[a]
    BY <1>1, <1>3
  <2>8. next_transaction_id' \in 1..MaxTransactionId
    BY <1>3, LedgerAssumption DEF LedgerOK, Ledger!IdsLeft
  <2>9. \A a \in DOMAIN accounts' : Sound(accounts'[a])
    BY <2>4, <2>5, <2>7, Zenon DEF LedgerOK
  <2>10. LedgerOK'
    BY <2>7, <2>8, <2>9 DEF LedgerOK
  <2>11. Writes(entry)
    <3>1. \A a \in DOMAIN accounts' :
            \/ /\ a \notin DOMAIN entry /\ a \in DOMAIN accounts
               /\ accounts'[a].transactions = accounts[a].transactions
            \/ /\ a \in DOMAIN entry
               /\ accounts'[a].transactions = Append(History(a), entry[a])
      BY <1>1, <2>4, <2>5, <2>6, <2>7 DEF History
    <3>2. next_transaction_id' = n + 2 /\ m = n + 1
      BY <1>3
    <3> QED
      BY <1>1, <2>3, <2>4, <2>5, <2>6, <3>1, <3>2 DEF Writes
  <2>12. "TransferIn" \notin Tracked
    BY TrackedKinds
  <2> QED
    BY <2>4, <2>5, <2>6, <2>10, <2>11, <2>12 DEF LedgerStep
<1> QED
  BY <1>2, <1>3 DEF Ledger!Transfer

\* The instance counts as the module does.
LEMMA LedgerCardinality == \A S : Ledger!Cardinality(S) = Cardinality(S)
BY Zenon DEF Ledger!Cardinality, Cardinality

\* The members of a finite set of numbers that are below an element of it are
\* fewer than those below a larger element.
LEMMA RankIncreases ==
    ASSUME NEW P \in SUBSET Nat, IsFiniteSet(P), NEW c \in P, NEW d \in P, c < d
    PROVE  Cardinality({p \in P : p < c}) < Cardinality({p \in P : p < d})
<1> DEFINE Below(x) == {p \in P : p < x}
<1>1. IsFiniteSet(Below(d)) /\ Below(c) \in SUBSET Below(d)
  <2>1. Below(d) \in SUBSET P
    OBVIOUS
  <2>2. \A p \in P : p < c => p < d
    OBVIOUS
  <2>3. Below(c) \in SUBSET Below(d)
    BY <2>2
  <2> QED
    BY <2>1, <2>3, FS_Subset
<1>2. c \in Below(d) /\ c \notin Below(c)
  OBVIOUS
<1>3. /\ Cardinality(Below(c)) <= Cardinality(Below(d))
      /\ Cardinality(Below(c)) # Cardinality(Below(d))
  BY <1>1, <1>2, FS_Subset
<1>4. Cardinality(Below(c)) \in Nat /\ Cardinality(Below(d)) \in Nat
  BY <1>1, FS_Subset, FS_CardinalityType
<1> QED
  BY <1>3, <1>4

\* The charged accounts get distinct ids, from the next one on and without a
\* gap, and there are no more of them than ids.
LEMMA MonthlyFeeIds ==
    ASSUME LedgerOK, NEW payers \in SUBSET DOMAIN accounts
    PROVE  LET charged == {id \in payers : Ledger!PaymentId(id, payers) < MaxTransactionId}
           IN  /\ Cardinality(charged) \in Nat
               /\ next_transaction_id + Cardinality(charged) <= MaxTransactionId
               /\ \A c \in charged :
                    /\ Ledger!PaymentId(c, payers) \in Nat
                    /\ next_transaction_id <= Ledger!PaymentId(c, payers)
                    /\ Ledger!PaymentId(c, payers) < next_transaction_id + Cardinality(charged)
               /\ \A c, d \in charged :
                    Ledger!PaymentId(c, payers) = Ledger!PaymentId(d, payers) => c = d
<1> DEFINE charged == {id \in payers : Ledger!PaymentId(id, payers) < MaxTransactionId}
           Below(x) == {p \in payers : p < x}
<1>1. payers \in SUBSET Nat /\ IsFiniteSet(payers)
  BY LedgerAssumption, FS_Subset DEF LedgerOK
<1>2. next_transaction_id \in Nat /\ next_transaction_id <= MaxTransactionId
  BY LedgerAssumption DEF LedgerOK
<1>3. IsFiniteSet(charged) /\ Cardinality(charged) \in Nat
  BY <1>1, FS_Subset, FS_CardinalityType
<1>4. ASSUME NEW c \in payers
      PROVE  /\ IsFiniteSet(Below(c)) /\ Cardinality(Below(c)) \in Nat
             /\ Ledger!PaymentId(c, payers) = next_transaction_id + Cardinality(Below(c))
  <2>1. IsFiniteSet(Below(c)) /\ Cardinality(Below(c)) \in Nat
    BY <1>1, FS_Subset, FS_CardinalityType
  <2>2. Ledger!PaymentId(c, payers) = next_transaction_id + Cardinality(Below(c))
    BY LedgerCardinality, Zenon DEF Ledger!PaymentId
  <2> QED
    BY <2>1, <2>2
<1>5. ASSUME NEW c \in payers, NEW d \in payers, c < d
      PROVE  Cardinality(Below(c)) < Cardinality(Below(d))
  BY <1>1, <1>5, RankIncreases
<1> HIDE DEF Below
<1>6. ASSUME NEW c \in charged, NEW d \in charged,
             Ledger!PaymentId(c, payers) = Ledger!PaymentId(d, payers)
      PROVE  c = d
  <2>1. c \in Nat /\ d \in Nat
    BY <1>1
  <2>2. Cardinality(Below(c)) = Cardinality(Below(d))
    BY <1>2, <1>4, <1>6
  <2>3. ~(c < d) /\ ~(d < c)
    BY <1>4, <1>5, <2>2
  <2> QED
    BY <2>1, <2>3
<1>7. ASSUME NEW c \in charged
      PROVE  Cardinality(Below(c)) < Cardinality(charged)
  <2>1. ASSUME NEW p \in Below(c)
        PROVE  p \in charged
    <3>1. p \in payers /\ p < c
      BY DEF Below
    <3>2. Cardinality(Below(p)) < Cardinality(Below(c))
      BY <3>1, <1>5
    <3> QED
      BY <1>2, <1>4, <3>1, <3>2, LedgerAssumption
  <2>2. Below(c) \in SUBSET charged
    BY <2>1
  <2>3. c \notin Below(c)
    BY <1>1 DEF Below
  <2>4. /\ Cardinality(Below(c)) <= Cardinality(charged)
        /\ Cardinality(Below(c)) # Cardinality(charged)
    BY <1>3, <2>2, <2>3, FS_Subset
  <2> QED
    BY <1>3, <1>4, <2>4
<1>8. next_transaction_id + Cardinality(charged) <= MaxTransactionId
  <2>1. CASE charged = {}
    BY <2>1, <1>2, FS_EmptySet
  <2>2. CASE charged # {}
    <3> DEFINE Left == {MaxTransactionId - Ledger!PaymentId(c, payers) : c \in charged}
    <3>1. Left \in SUBSET Nat /\ Left # {}
      BY <1>2, <1>4, <2>2, LedgerAssumption
    <3>2. PICK c \in charged : \A l \in Left : MaxTransactionId - Ledger!PaymentId(c, payers) <= l
      BY <3>1, LeastNatural
    <3>3. ASSUME NEW d \in charged
          PROVE  d = c \/ d \in Below(c)
      <4>1. c \in Nat /\ d \in Nat
        BY <1>1
      <4>2. Ledger!PaymentId(d, payers) <= Ledger!PaymentId(c, payers)
        <5>1. MaxTransactionId - Ledger!PaymentId(c, payers) <= MaxTransactionId - Ledger!PaymentId(d, payers)
          BY <3>2
        <5>2. Ledger!PaymentId(c, payers) \in Nat /\ Ledger!PaymentId(d, payers) \in Nat
          BY <1>2, <1>4
        <5> QED
          BY <5>1, <5>2, LedgerAssumption
      <4>3. ~(c < d)
        BY <1>2, <1>4, <1>5, <4>2
      <4> QED
        BY <4>1, <4>3 DEF Below
    <3>4. /\ IsFiniteSet(Below(c) \cup {c})
          /\ Cardinality(Below(c) \cup {c}) <= Cardinality(Below(c)) + 1
      <4>1. /\ IsFiniteSet(Below(c))
            /\ Cardinality(Below(c)) \in Nat
        BY <1>4
      <4>2. /\ IsFiniteSet(Below(c) \cup {c})
            /\ Cardinality(Below(c) \cup {c}) =
                 IF c \in Below(c) THEN Cardinality(Below(c)) ELSE Cardinality(Below(c)) + 1
        BY <4>1, FS_AddElement
      <4> QED
        BY <4>1, <4>2
    <3>5. charged \in SUBSET (Below(c) \cup {c})
      BY <3>3
    <3>6. Cardinality(charged) <= Cardinality(Below(c) \cup {c})
      BY <3>4, <3>5, FS_Subset
    <3>7. Cardinality(Below(c) \cup {c}) \in Nat
      BY <3>4, FS_CardinalityType
    <3>8. Cardinality(charged) <= Cardinality(Below(c)) + 1
      BY <1>3, <1>4, <3>4, <3>6, <3>7
    <3> QED
      BY <1>2, <1>3, <1>4, <3>8, LedgerAssumption
  <2> QED
    BY <2>1, <2>2
<1> HIDE DEF charged
<1> QED
  <2>1. ASSUME NEW c \in charged
        PROVE  /\ Ledger!PaymentId(c, payers) \in Nat
               /\ next_transaction_id <= Ledger!PaymentId(c, payers)
               /\ Ledger!PaymentId(c, payers) < next_transaction_id + Cardinality(charged)
    BY <1>2, <1>3, <1>4, <1>7 DEF charged
  <2> QED
    BY <1>3, <1>6, <1>8, <2>1 DEF charged

LEMMA MonthlyFeeStep ==
    ASSUME LedgerOK, NEW amount \in Amounts, Ledger!ApplyMonthlyFee(amount)
    PROVE  \A id, kind : LedgerStep(id, kind)
<1> DEFINE payers  == Ledger!MonthlyFeePayers(amount)
           charged == {id \in payers : Ledger!PaymentId(id, payers) < MaxTransactionId}
           account(id) == Ledger!WithBalance(id, accounts[id].balance - amount)
           number(id) == Ledger!PaymentId(id, payers)
           written(id) == Ledger!Recorded(account(id), number(id), "Fee", amount)
           fee(id) == [id |-> number(id), kind |-> "Fee", amount |-> amount]
           entry == [id \in charged |-> fee(id)]
<1>1. amount \in Int /\ amount > 0 /\ next_transaction_id \in Nat
  BY LedgerAssumption DEF Ledger!ApplyMonthlyFee, LedgerOK
<1>2. payers \in SUBSET DOMAIN accounts
  BY DEF Ledger!MonthlyFeePayers
<1>3. /\ Cardinality(charged) \in Nat
      /\ next_transaction_id + Cardinality(charged) <= MaxTransactionId
      /\ \A c \in charged :
           /\ number(c) \in Nat
           /\ next_transaction_id <= number(c)
           /\ number(c) < next_transaction_id + Cardinality(charged)
      /\ \A c, d \in charged : number(c) = number(d) => c = d
  <2> HIDE DEF payers
  <2> QED
    BY <1>2, MonthlyFeeIds
<1>4. /\ accounts' =
           [id \in DOMAIN accounts |->
              IF id \in charged
              THEN Ledger!Recorded(account(id), number(id), "Fee", amount)
              ELSE accounts[id]]
      /\ next_transaction_id' = next_transaction_id + Cardinality(charged)
  BY LedgerCardinality, Zenon DEF Ledger!ApplyMonthlyFee
<1>5. ASSUME NEW id \in charged
      PROVE  /\ Sound(written(id))
             /\ written(id).transactions = Append(accounts[id].transactions, fee(id))
             /\ fee(id) \in Ledger!Transaction
             /\ fee(id).id = number(id) /\ fee(id).kind = "Fee"
  <2>1. accounts[id].balance - amount \in 0..MaxCents
    BY <1>1, <1>2, LedgerAssumption DEF LedgerOK, Sound, Ledger!MonthlyFeePayers, Ledger!HasFunds
  <2>2. /\ Sound(account(id))
        /\ account(id).transactions = accounts[id].transactions
    BY <1>2, <2>1, BalanceSound
  <2>3. "Fee" \in Ledger!Kinds /\ number(id) \in Nat
    BY <1>3 DEF Ledger!Kinds, Ledger!Debits
  <2> HIDE DEF account, number, fee
  <2>4. fee(id) = [id |-> number(id), kind |-> "Fee", amount |-> amount]
    BY DEF fee
  <2> HIDE DEF written
  <2>5. written(id) = Ledger!Recorded(account(id), number(id), "Fee", amount)
    BY DEF written
  <2>6. fee(id).id = number(id) /\ fee(id).kind = "Fee"
    BY <2>4
  <2>7. /\ Sound(Ledger!Recorded(account(id), number(id), "Fee", amount))
        /\ Ledger!Recorded(account(id), number(id), "Fee", amount).transactions
             = Append(account(id).transactions, fee(id))
        /\ fee(id) \in Ledger!Transaction
    <3>1. /\ Sound(account(id)) /\ number(id) \in Nat /\ "Fee" \in Ledger!Kinds
          /\ amount \in Int
          /\ fee(id) = [id |-> number(id), kind |-> "Fee", amount |-> amount]
      BY <1>1, <2>2, <2>3, <2>4
    <3> QED
      BY <3>1, RecordedSound
  <2> QED
    BY <2>2, <2>5, <2>6, <2>7
<1>6. DOMAIN entry = charged /\ \A id \in charged : entry[id] = fee(id)
  OBVIOUS
<1>7. charged \in SUBSET DOMAIN accounts
  BY <1>2
<1> HIDE DEF charged, account, number, written, fee, entry
<1>8. next_transaction_id' \in 1..MaxTransactionId
  BY <1>1, <1>3, <1>4, LedgerAssumption DEF LedgerOK
<1>9. /\ DOMAIN accounts' = DOMAIN accounts
      /\ \A a \in charged : accounts'[a] = written(a)
      /\ \A a \in DOMAIN accounts \ charged : accounts'[a] = accounts[a]
  BY <1>4, <1>7 DEF written
<1>10. LedgerOK'
  <2>1. \A a \in DOMAIN accounts' : Sound(accounts'[a])
    BY <1>5, <1>9, Zenon DEF LedgerOK
  <2> QED
    BY <1>8, <1>9, <2>1 DEF LedgerOK
<1>11. Writes(entry)
  <2>1. \A a \in DOMAIN accounts' :
          \/ /\ a \notin DOMAIN entry /\ a \in DOMAIN accounts
             /\ accounts'[a].transactions = accounts[a].transactions
          \/ /\ a \in DOMAIN entry
             /\ accounts'[a].transactions = Append(History(a), entry[a])
    BY <1>5, <1>6, <1>7, <1>9 DEF History
  <2>2. \A a \in DOMAIN entry :
          /\ entry[a] \in Ledger!Transaction
          /\ entry[a].id = number(a)
          /\ entry[a].kind = "Fee"
    BY <1>5, <1>6
  <2> QED
    BY <1>1, <1>3, <1>4, <1>6, <2>1, <2>2 DEF Writes
<1>12. \A a \in DOMAIN entry : entry[a].kind \notin Tracked
  BY <1>5, <1>6, TrackedKinds
<1> QED
  BY <1>10, <1>11, <1>12 DEF LedgerStep

-----------------------------------------------------------------------------
(* The histories: their ids, and how many transactions of a kind there are. *)

IdsOf(acs) ==
    UNION {{acs[a].transactions[i].id : i \in DOMAIN acs[a].transactions} : a \in DOMAIN acs}

UniqueIn(acs) ==
    \A a, b \in DOMAIN acs :
      \A i \in DOMAIN acs[a].transactions, j \in DOMAIN acs[b].transactions :
        acs[a].transactions[i].id = acs[b].transactions[j].id => a = b /\ i = j

HistoriesOK ==
    /\ \A n \in IdsOf(accounts) : n > 0 /\ n < next_transaction_id
    /\ UniqueIn(accounts)

\* After the step, what is in a history was there or is what was written.
LEMMA GrownPlaces ==
    ASSUME LedgerOK, NEW entry, Writes(entry), NEW a \in DOMAIN accounts'
    PROVE  LET h == History(a)
               g == accounts'[a].transactions
           IN  /\ h \in Seq(Ledger!Transaction)
               /\ Len(h) \in Nat
               /\ \A i \in DOMAIN g :
                    \/ a \in DOMAIN accounts /\ i \in DOMAIN h /\ g[i] = h[i]
                    \/ a \in DOMAIN entry /\ i = Len(h) + 1 /\ g[i] = entry[a]
<1> DEFINE h == History(a)
           g == accounts'[a].transactions
<1>1. h \in Seq(Ledger!Transaction)
  BY DEF History, LedgerOK, Sound, Ledger!Account
<1>2. Len(h) \in Nat
  BY <1>1
<1>3. CASE a \notin DOMAIN entry /\ a \in DOMAIN accounts /\ g = accounts[a].transactions
  <2>1. g = h
    BY <1>3 DEF History
  <2> HIDE DEF g, h
  <2> QED
    BY <1>1, <1>2, <1>3, <2>1 DEF g, h
<1>4. CASE a \in DOMAIN entry /\ g = Append(h, entry[a])
  <2>1. entry[a] \in Ledger!Transaction
    BY <1>4 DEF Writes
  <2>2. h # << >> => a \in DOMAIN accounts
    BY DEF History
  <2> HIDE DEF g, h
  <2>3. \A i \in DOMAIN g :
          \/ i \in DOMAIN h /\ g[i] = h[i]
          \/ i = Len(h) + 1 /\ g[i] = entry[a]
    BY <1>1, <1>4, <2>1
  <2>4. \A i \in DOMAIN h : h # << >>
    BY <1>1
  <2> QED
    BY <1>1, <1>2, <1>4, <2>2, <2>3, <2>4 DEF g, h
<1> QED
  BY <1>3, <1>4 DEF Writes

LEMMA WritesKeepHistories ==
    ASSUME LedgerOK, HistoriesOK, LedgerOK', NEW entry, Writes(entry)
    PROVE  HistoriesOK'
<1> DEFINE g(a) == accounts'[a].transactions
           old(a, i) == /\ a \in DOMAIN accounts /\ i \in DOMAIN accounts[a].transactions
                        /\ g(a)[i] = accounts[a].transactions[i]
           new(a, i) == a \in DOMAIN entry /\ i = Len(History(a)) + 1 /\ g(a)[i] = entry[a]
<1>1. ASSUME NEW a \in DOMAIN accounts', NEW i \in DOMAIN g(a)
      PROVE  old(a, i) \/ new(a, i)
  BY GrownPlaces DEF History
<1>2. /\ next_transaction_id \in Nat /\ next_transaction_id' \in Nat
      /\ next_transaction_id > 0 /\ next_transaction_id <= next_transaction_id'
  BY LedgerAssumption DEF LedgerOK, Writes
<1>3. ASSUME NEW a, NEW i, old(a, i)
      PROVE  g(a)[i].id \in Nat /\ g(a)[i].id > 0 /\ g(a)[i].id < next_transaction_id
  <2>1. g(a)[i].id \in IdsOf(accounts)
    BY <1>3 DEF IdsOf
  <2>2. accounts[a].transactions \in Seq(Ledger!Transaction)
    BY <1>3 DEF LedgerOK, Sound, Ledger!Account
  <2>3. g(a)[i] \in Ledger!Transaction
    BY <1>3, <2>2
  <2> QED
    BY <2>1, <2>3 DEF HistoriesOK, Ledger!Transaction
<1>4. ASSUME NEW a, NEW i, new(a, i)
      PROVE  /\ g(a)[i].id \in Nat
             /\ next_transaction_id <= g(a)[i].id /\ g(a)[i].id < next_transaction_id'
  BY <1>4 DEF Writes, Ledger!Transaction
<1>5. ASSUME NEW n \in IdsOf(accounts')
      PROVE  n > 0 /\ n < next_transaction_id'
  <2>1. PICK a \in DOMAIN accounts' : \E i \in DOMAIN g(a) : n = g(a)[i].id
    BY DEF IdsOf
  <2>2. PICK i \in DOMAIN g(a) : n = g(a)[i].id
    BY <2>1
  <2>3. old(a, i) \/ new(a, i)
    BY <1>1
  <2> HIDE DEF g, old, new
  <2> QED
    BY <1>2, <1>3, <1>4, <2>2, <2>3
<1>6. ASSUME NEW a \in DOMAIN accounts', NEW b \in DOMAIN accounts',
             NEW i \in DOMAIN g(a), NEW j \in DOMAIN g(b), g(a)[i].id = g(b)[j].id
      PROVE  a = b /\ i = j
  <2>1. (old(a, i) \/ new(a, i)) /\ (old(b, j) \/ new(b, j))
    BY <1>1
  <2>2. CASE old(a, i) /\ old(b, j)
    BY <1>6, <2>2 DEF HistoriesOK, UniqueIn
  <2>3. CASE new(a, i) /\ new(b, j)
    BY <1>6, <2>3 DEF Writes
  <2> HIDE DEF g, old, new
  <2>4. CASE old(a, i) /\ new(b, j)
    BY <1>2, <1>3, <1>4, <1>6, <2>4
  <2>5. CASE new(a, i) /\ old(b, j)
    BY <1>2, <1>3, <1>4, <1>6, <2>5
  <2> QED
    BY <2>1, <2>2, <2>3, <2>4, <2>5
<1>7. UniqueIn(accounts')
  BY <1>6 DEF UniqueIn
<1> QED
  BY <1>5, <1>7 DEF HistoriesOK

MadeIn(acs, kind) ==
    UNION {{<<a, i>> : i \in {j \in DOMAIN acs[a].transactions :
                                acs[a].transactions[j].kind = kind}} : a \in DOMAIN acs}

LEMMA MadeIs == \A s, kind : Made(s, kind) = MadeIn(s.accounts, kind)
BY DEF Made, MadeIn

LEMMA MadeFinite ==
    ASSUME NEW acs, DOMAIN acs \subseteq AccountIds,
           \A a \in DOMAIN acs : acs[a].transactions \in Seq(Ledger!Transaction),
           NEW kind
    PROVE  IsFiniteSet(MadeIn(acs, kind)) /\ Cardinality(MadeIn(acs, kind)) \in Nat
<1> DEFINE Chosen(a) == {j \in DOMAIN acs[a].transactions : acs[a].transactions[j].kind = kind}
           Pairs(a) == {<<a, i>> : i \in Chosen(a)}
           All == {Pairs(a) : a \in DOMAIN acs}
<1>1. IsFiniteSet(DOMAIN acs)
  BY LedgerAssumption, FS_Subset
<1>2. ASSUME NEW a \in DOMAIN acs
      PROVE  IsFiniteSet(Pairs(a))
  <2> DEFINE h == acs[a].transactions
  <2>1. DOMAIN h = 1..Len(h) /\ Len(h) \in Nat
    <3>1. h \in Seq(Ledger!Transaction)
      OBVIOUS
    <3> HIDE DEF h
    <3> QED
      BY <3>1
  <2> HIDE DEF h
  <2>2. IsFiniteSet(1..Len(h))
    BY <2>1, FS_Interval
  <2>3. Chosen(a) \in SUBSET (1..Len(h))
    BY <2>1 DEF h
  <2>4. IsFiniteSet(Chosen(a))
    BY <2>2, <2>3, FS_Subset
  <2> HIDE DEF Chosen
  <2> DEFINE f == [i \in Chosen(a) |-> <<a, i>>]
  <2>5. f \in Surjection(Chosen(a), Pairs(a))
    BY DEF Surjection
  <2> QED
    BY <2>4, <2>5, FS_Surjection
<1>3. IsFiniteSet(All)
  <2> DEFINE f == [a \in DOMAIN acs |-> Pairs(a)]
  <2> HIDE DEF Pairs
  <2>1. f \in Surjection(DOMAIN acs, All)
    BY DEF Surjection
  <2> QED
    BY <1>1, <2>1, FS_Surjection
<1>4. \A T \in All : IsFiniteSet(T)
  <2> HIDE DEF Pairs
  <2> QED
    BY <1>2
<1>5. MadeIn(acs, kind) = UNION All
  BY DEF MadeIn
<1> HIDE DEF All
<1>6. IsFiniteSet(MadeIn(acs, kind))
  BY <1>3, <1>4, <1>5, FS_UNION
<1> QED
  BY <1>6, FS_CardinalityType

Makes(kind) == Cardinality(MadeIn(accounts, kind))

LEMMA MakesNat ==
    ASSUME LedgerOK
    PROVE  \A kind : IsFiniteSet(MadeIn(accounts, kind)) /\ Makes(kind) \in Nat
<1>1. \A a \in DOMAIN accounts : accounts[a].transactions \in Seq(Ledger!Transaction)
  BY DEF LedgerOK, Sound, Ledger!Account
<1>2. DOMAIN accounts \subseteq AccountIds
  BY DEF LedgerOK
<1> QED
  BY <1>1, <1>2, MadeFinite DEF Makes

\* A step of the ledger makes one transaction at most of those that the client
\* records, and then the bank has answered the call with it.
LEMMA MakesGrow ==
    ASSUME LedgerOK, NEW id, NEW kind, LedgerStep(id, kind), NEW k \in Tracked
    PROVE  Makes(k)' <= Makes(k) + IF k = kind /\ Completed THEN 1 ELSE 0
<1> DEFINE M == MadeIn(accounts, k)
           N == MadeIn(accounts', k)
           p == <<id, Len(History(id)) + 1>>
<1>1. PICK entry : /\ Writes(entry)
                   /\ \A a \in DOMAIN entry :
                        entry[a].kind \in Tracked => a = id /\ entry[a].kind = kind
  BY DEF LedgerStep
<1>2. ASSUME NEW x \in N
      PROVE  x \in M \/ (x = p /\ k = kind /\ Completed)
  <2>1. PICK a \in DOMAIN accounts' : \E i \in DOMAIN accounts'[a].transactions :
           x = <<a, i>> /\ accounts'[a].transactions[i].kind = k
    BY DEF MadeIn
  <2>2. PICK i \in DOMAIN accounts'[a].transactions :
           x = <<a, i>> /\ accounts'[a].transactions[i].kind = k
    BY <2>1
  <2> DEFINE h == History(a)
  <2>3. /\ h \in Seq(Ledger!Transaction)
        /\ \/ /\ a \in DOMAIN accounts /\ i \in DOMAIN h
              /\ accounts'[a].transactions[i] = h[i]
           \/ /\ a \in DOMAIN entry /\ i = Len(h) + 1
              /\ accounts'[a].transactions[i] = entry[a]
    BY <1>1, GrownPlaces
  <2>4. CASE /\ a \in DOMAIN accounts /\ i \in DOMAIN h
             /\ accounts'[a].transactions[i] = h[i]
    BY <2>2, <2>4 DEF MadeIn, History
  <2>5. CASE /\ a \in DOMAIN entry /\ i = Len(h) + 1
             /\ accounts'[a].transactions[i] = entry[a]
    <3>1. a = id /\ k = kind
      BY <1>1, <2>2, <2>5
    <3>2. a \in DOMAIN accounts => accounts'[a].transactions # accounts[a].transactions
      <4>1. a \in DOMAIN accounts => h = accounts[a].transactions
        BY DEF History
      <4> HIDE DEF h
      <4>2. Len(h) + 1 \notin DOMAIN h
        BY <2>3
      <4> QED
        BY <2>5, <4>1, <4>2
    <3>3. Completed
      BY <3>2, Zenon DEF Completed
    <3> QED
      BY <2>2, <2>5, <3>1, <3>3
  <2> QED
    BY <2>3, <2>4, <2>5
<1>3. IsFiniteSet(M) /\ Cardinality(M) \in Nat
  BY MakesNat DEF Makes
<1>4. Makes(k) = Cardinality(M) /\ Makes(k)' = Cardinality(N)
  BY DEF Makes
<1> HIDE DEF M, N, p
<1>5. CASE k = kind /\ Completed
  <2>1. N \in SUBSET (M \cup {p})
    BY <1>2
  <2>2. /\ IsFiniteSet(M \cup {p}) /\ Cardinality(M \cup {p}) \in Nat
        /\ Cardinality(M \cup {p}) <= Cardinality(M) + 1
    <3>1. /\ IsFiniteSet(M \cup {p})
          /\ Cardinality(M \cup {p}) =
               IF p \in M THEN Cardinality(M) ELSE Cardinality(M) + 1
      BY <1>3, FS_AddElement
    <3> QED
      BY <1>3, <3>1
  <2>3. Cardinality(N) <= Cardinality(M \cup {p}) /\ IsFiniteSet(N)
    BY <2>1, <2>2, FS_Subset
  <2>4. Cardinality(N) \in Nat
    BY <2>3, FS_CardinalityType
  <2> QED
    BY <1>3, <1>4, <1>5, <2>2, <2>3, <2>4
<1>6. CASE ~(k = kind /\ Completed)
  <2>1. N \in SUBSET M
    BY <1>2, <1>6
  <2>2. Cardinality(N) <= Cardinality(M)
    BY <1>3, <2>1, FS_Subset
  <2> QED
    BY <1>3, <1>4, <1>6, <2>2
<1> QED
  BY <1>5, <1>6

-----------------------------------------------------------------------------
(* The log: what it counts, and whom it names.                             *)

LogOK == IsALog(audit_log) /\ BagCardinality(audit_log) <= MaxAuditEntries

WithAction(D, action) == {e \in D : e.action = action}

Audits(log, kind) == CountIn(log, WithAction(DOMAIN log, ActionOf[kind]))

LEMMA AuditedIs ==
    ASSUME NEW s, NEW kind, NEW D, DOMAIN s.audit_log \subseteq D
    PROVE  Audited(s, kind) = CountIn(s.audit_log, WithAction(D, ActionOf[kind]))
<1> DEFINE R == {e \in DOMAIN s.audit_log : e.action = ActionOf[kind]}
<1>1. DOMAIN s.audit_log \cap WithAction(D, ActionOf[kind]) = R
  BY DEF WithAction
<1>2. Audited(s, kind) = BagCardinality([e \in R |-> s.audit_log[e]])
  BY Zenon DEF Audited, CountOf, BagToSet
<1> QED
  BY <1>1, <1>2, Zenon DEF CountIn

LEMMA AuditsIn ==
    ASSUME NEW log, NEW kind, NEW D, DOMAIN log \subseteq D
    PROVE  Audits(log, kind) = CountIn(log, WithAction(D, ActionOf[kind]))
<1>1. DOMAIN log \cap WithAction(D, ActionOf[kind])
        = DOMAIN log \cap WithAction(DOMAIN log, ActionOf[kind])
  BY DEF WithAction
<1> QED
  BY <1>1, Zenon DEF Audits, CountIn

LEMMA AuditsNat ==
    ASSUME NEW log, IsALog(log), NEW kind
    PROVE  Audits(log, kind) \in Nat
<1> DEFINE Q == WithAction(DOMAIN log, ActionOf[kind])
           grown == log (+) SetToBag({0})
<1> HIDE DEF Q, grown
<1>1. OneMore(log, grown, 0, Q)
  BY LogGrows DEF grown
<1> QED
  BY <1>1 DEF OneMore, Audits, Q

\* What becomes of a log when an entry is recorded.
LEMMA WithCounts ==
    ASSUME NEW log, IsALog(log), BagCardinality(log) <= MaxAuditEntries, NEW e,
           NEW more, more = With(log, e)
    PROVE  /\ IsALog(more) /\ BagCardinality(more) <= MaxAuditEntries
           /\ DOMAIN more \subseteq DOMAIN log \cup {e}
           /\ HasRoom(more) =>
                /\ HasRoom(log)
                /\ \A kind : Audits(more, kind)
                               = Audits(log, kind) + IF e.action = ActionOf[kind] THEN 1 ELSE 0
<1> DEFINE D == DOMAIN log \cup {e}
<1>1. CASE ~HasRoom(log)
  <2>1. more = log
    BY <1>1 DEF With
  <2> QED
    BY <1>1, <2>1
<1>2. CASE HasRoom(log)
  <2>1. more = log (+) SetToBag({e}) /\ BagCardinality(log) < MaxAuditEntries
    BY <1>2 DEF With, HasRoom
  <2>2. IsALog(more) /\ DOMAIN more = D
    BY <2>1, LogGrows
  <2> HIDE DEF D
  <2>3. BagCardinality(more) <= MaxAuditEntries
    <3>1. /\ CountIn(log, D) = BagCardinality(log) /\ BagCardinality(log) \in Nat
          /\ CountIn(more, D) = BagCardinality(more) /\ BagCardinality(more) \in Nat
      BY <2>2, CountAll DEF D
    <3>2. OneMore(log, more, e, D) /\ e \in D
      BY <2>1, LogGrows DEF D
    <3> QED
      BY <2>1, <3>1, <3>2, AppAssumption DEF OneMore
  <2>4. ASSUME NEW kind
        PROVE  Audits(more, kind)
                 = Audits(log, kind) + IF e.action = ActionOf[kind] THEN 1 ELSE 0
    <3> DEFINE Q == WithAction(D, ActionOf[kind])
    <3>1. e \in Q <=> e.action = ActionOf[kind]
      BY DEF WithAction, D
    <3>2. DOMAIN log \subseteq D /\ DOMAIN more \subseteq D
      BY <2>2 DEF D
    <3> HIDE DEF Q
    <3>3. Audits(log, kind) = CountIn(log, Q) /\ Audits(more, kind) = CountIn(more, Q)
      BY <3>2, AuditsIn DEF Q
    <3>4. OneMore(log, more, e, Q)
      BY <2>1, LogGrows
    <3> QED
      BY <3>1, <3>3, <3>4 DEF OneMore
  <2> QED
    BY <1>2, <2>2, <2>3, <2>4 DEF D
<1> QED
  BY <1>1, <1>2

\* ActorsOnRecord and MovesOnRecord, in memory.
LogNamesUsers == \A entry \in BagToSet(audit_log) : entry.actor \in DOMAIN users \cup {System}

AllTold == HasRoom(audit_log) => \A kind \in Tracked : Makes(kind) <= Audits(audit_log, kind)

LEMMA SnapshotNames == NamesUsers(Snapshot) <=> LogNamesUsers
BY DEF NamesUsers, LogNamesUsers, Snapshot

LEMMA TellsIs ==
    ASSUME NEW s
    PROVE  TellsOfMoves(s) <=>
             (HasRoom(s.audit_log) =>
                \A kind \in Tracked :
                  Cardinality(MadeIn(s.accounts, kind)) <= Audits(s.audit_log, kind))
<1>1. \A kind : Audited(s, kind) = Audits(s.audit_log, kind)
  BY AuditedIs DEF Audits
<1>2. \A kind : Made(s, kind) = MadeIn(s.accounts, kind)
  BY MadeIs
<1> QED
  BY <1>1, <1>2, Zenon DEF TellsOfMoves, Tracked

LEMMA MovesAreTold == MovesOnRecord <=> AllTold
<1> DEFINE s == Snapshot
<1>1. s.accounts = accounts /\ s.audit_log = audit_log
  BY DEF Snapshot
<1>2. MovesOnRecord <=> TellsOfMoves(s)
  BY DEF MovesOnRecord
<1> HIDE DEF s
<1> QED
  BY <1>1, <1>2, TellsIs DEF AllTold, Makes

\* A command makes a step of the ledger and records what it has moved; what the
\* client does not record, it need not record.
Recording(e) == Audit(e) /\ e.actor \in DOMAIN users' \cup {System}

BankStep ==
    \E id, kind :
      /\ LedgerStep(id, kind)
      /\ \/ kind \notin Tracked /\ UNCHANGED audit_log
         \/ \E e : /\ Recording(e)
                   /\ (kind \in Tracked /\ Completed) => e.action = ActionOf[kind]

LEMMA BankStepLogs ==
    ASSUME LedgerOK, LogOK, LogNamesUsers, AllTold, BankStep,
           DOMAIN users \subseteq DOMAIN users'
    PROVE  LogOK' /\ LogNamesUsers' /\ AllTold'
<1>1. PICK id, kind :
        /\ LedgerStep(id, kind)
        /\ \/ kind \notin Tracked /\ UNCHANGED audit_log
           \/ \E e : /\ Recording(e)
                     /\ (kind \in Tracked /\ Completed) => e.action = ActionOf[kind]
  BY DEF BankStep
<1>2. \A k \in Tracked : /\ Makes(k) \in Nat /\ Makes(k)' \in Nat
                         /\ Makes(k)' <= Makes(k) + IF k = kind /\ Completed THEN 1 ELSE 0
  <2>1. (\A k : IsFiniteSet(MadeIn(accounts', k)) /\ Makes(k)' \in Nat)
    <3>1. LedgerOK'
      BY <1>1 DEF LedgerStep
    <3>2. \A a \in DOMAIN accounts' : accounts'[a].transactions \in Seq(Ledger!Transaction)
      BY <3>1 DEF LedgerOK, Sound, Ledger!Account
    <3>3. DOMAIN accounts' \subseteq AccountIds
      BY <3>1 DEF LedgerOK
    <3> QED
      BY <3>2, <3>3, MadeFinite DEF Makes
  <2> QED
    BY <1>1, <2>1, MakesNat, MakesGrow
<1>3. \A k : Audits(audit_log, k) \in Nat
  BY AuditsNat DEF LogOK
<1>4. CASE kind \notin Tracked /\ UNCHANGED audit_log
  <2>1. LogOK' /\ LogNamesUsers'
    BY <1>4 DEF LogOK, LogNamesUsers, BagToSet
  <2>2. \A k \in Tracked : Makes(k)' <= Makes(k)
    BY <1>2, <1>4
  <2>3. ASSUME HasRoom(audit_log)', NEW k \in Tracked
        PROVE  Makes(k)' <= Audits(audit_log', k)
    <3>1. HasRoom(audit_log)
      BY <1>4, <2>3 DEF HasRoom
    <3>2. Makes(k) <= Audits(audit_log, k)
      BY <3>1 DEF AllTold
    <3> QED
      BY <1>2, <1>3, <1>4, <2>2, <3>2
  <2> QED
    BY <2>1, <2>3 DEF AllTold
<1>5. ASSUME NEW e, Recording(e), kind \in Tracked /\ Completed => e.action = ActionOf[kind]
      PROVE  LogOK' /\ LogNamesUsers' /\ AllTold'
  <2> DEFINE log == audit_log
             more == audit_log'
  <2>1. more = With(log, e) /\ IsALog(log) /\ BagCardinality(log) <= MaxAuditEntries
    BY <1>5 DEF Recording, Audit, LogOK
  <2> HIDE DEF log, more
  <2>2. /\ IsALog(more) /\ BagCardinality(more) <= MaxAuditEntries
        /\ DOMAIN more \subseteq DOMAIN log \cup {e}
        /\ HasRoom(more) =>
             /\ HasRoom(log)
             /\ \A k : Audits(more, k)
                         = Audits(log, k) + IF e.action = ActionOf[k] THEN 1 ELSE 0
    BY <2>1, WithCounts
  <2>3. LogOK'
    BY <2>2 DEF LogOK, more
  <2>4. LogNamesUsers'
    BY <1>5, <2>2 DEF LogNamesUsers, Recording, BagToSet, log, more
  <2>5. ASSUME HasRoom(more), NEW k \in Tracked
        PROVE  Makes(k)' <= Audits(more, k)
    <3>1. Makes(k) <= Audits(log, k) /\ Audits(log, k) \in Nat
      BY <1>3, <2>2, <2>5 DEF AllTold, log
    <3>2. Audits(more, k) = Audits(log, k) + IF e.action = ActionOf[k] THEN 1 ELSE 0
      BY <2>2, <2>5
    <3>3. CASE k = kind /\ Completed
      <4>1. e.action = ActionOf[k]
        BY <1>5, <3>3
      <4> QED
        BY <1>2, <3>1, <3>2, <3>3, <4>1
    <3>4. CASE ~(k = kind /\ Completed)
      <4>1. Makes(k)' <= Makes(k)
        BY <1>2, <3>4
      <4> QED
        BY <1>2, <3>1, <3>2, <4>1
    <3> QED
      BY <3>3, <3>4
  <2> QED
    BY <2>3, <2>4, <2>5 DEF AllTold, more
<1> QED
  BY <1>1, <1>4, <1>5

-----------------------------------------------------------------------------
(* The identities and the owners.                                          *)

Linked ==
    \A i \in DOMAIN users :
      Identities!ValidLink(users[i].role, users[i].customer_id, customers)

IdentitiesOK == Identities!TypeOK /\ Identities!NamesIndexed /\ Linked

\* Nobody goes, and nobody is changed.
IdentitiesGrow ==
    /\ customers \subseteq customers'
    /\ DOMAIN users \subseteq DOMAIN users'
    /\ \A u \in DOMAIN users : users'[u] = users[u]

IdentitiesStep ==
    \/ UNCHANGED identities
    \/ \E c \in CustomerIds : Identities!CreateCustomer(c)
    \/ \E u \in UserIds, role \in Identities!Roles, c \in Identities!OptionalCustomers :
         Identities!CreateUser(u, u, role, c)

LEMMA IdentitiesAreKept ==
    ASSUME IdentitiesOK, IdentitiesStep
    PROVE  IdentitiesOK' /\ IdentitiesGrow
<1>1. CASE UNCHANGED identities
  BY <1>1 DEF identities, IdentitiesOK, Linked, Identities!TypeOK, Identities!NamesIndexed,
              IdentitiesGrow
<1>2. ASSUME NEW c \in CustomerIds, Identities!CreateCustomer(c)
      PROVE  IdentitiesOK' /\ IdentitiesGrow
  <2>1. users' = users /\ username_index' = username_index /\ customers \subseteq customers'
    BY <1>2 DEF Identities!CreateCustomer
  <2>2. Identities!NamesIndexed' /\ Identities!TypeOK'
    BY <1>2, <2>1 DEF IdentitiesOK, Identities!NamesIndexed, Identities!TypeOK,
                      Identities!CreateCustomer
  <2>3. Linked'
    BY <2>1 DEF IdentitiesOK, Linked, Identities!ValidLink
  <2> QED
    BY <2>1, <2>2, <2>3 DEF IdentitiesOK, IdentitiesGrow
<1>3. ASSUME NEW u \in UserIds, NEW role \in Identities!Roles,
             NEW c \in Identities!OptionalCustomers, Identities!CreateUser(u, u, role, c)
      PROVE  IdentitiesOK' /\ IdentitiesGrow
  <2> DEFINE N == [n \in UserIds |-> n]
  <2>1. /\ u \in UserIds /\ u \notin DOMAIN users /\ u \notin DOMAIN username_index
        /\ Identities!ValidLink(role, c, customers)
        /\ users' = [i \in DOMAIN users \cup {u} |->
                       IF i = u THEN [username |-> u, role |-> role, customer_id |-> c]
                       ELSE users[i]]
        /\ username_index' = [n \in DOMAIN username_index \cup {u} |->
                                IF n = u THEN u ELSE username_index[n]]
        /\ customers' = customers
    BY <1>3 DEF Identities!CreateUser
  <2>2. /\ DOMAIN users' = DOMAIN users \cup {u}
        /\ users'[u].username = u /\ users'[u].role = role /\ users'[u].customer_id = c
        /\ \A i \in DOMAIN users : users'[i] = users[i]
    BY <2>1
  <2>3. /\ DOMAIN username_index' = DOMAIN username_index \cup {u}
        /\ username_index'[u] = u
        /\ \A n \in DOMAIN username_index : username_index'[n] = username_index[n]
    BY <2>1
  <2>4. DOMAIN N = UserIds /\ \A n \in UserIds : N[n] = n
    OBVIOUS
  <2> HIDE DEF N
  <2>5. Identities!NamesIndexed'
    <3>1. /\ \A n \in DOMAIN username_index :
               /\ username_index[n] \in DOMAIN users
               /\ users[username_index[n]].username \in DOMAIN N
               /\ N[users[username_index[n]].username] = n
          /\ \A i \in DOMAIN users :
               /\ users[i].username \in DOMAIN N
               /\ N[users[i].username] \in DOMAIN username_index
               /\ username_index[N[users[i].username]] = i
      BY Zenon DEF IdentitiesOK, Identities!NamesIndexed, N
    <3>2. /\ \A n \in DOMAIN username_index' :
               /\ username_index'[n] \in DOMAIN users'
               /\ users'[username_index'[n]].username \in DOMAIN N
               /\ N[users'[username_index'[n]].username] = n
          /\ \A i \in DOMAIN users' :
               /\ users'[i].username \in DOMAIN N
               /\ N[users'[i].username] \in DOMAIN username_index'
               /\ username_index'[N[users'[i].username]] = i
      BY <2>1, <2>2, <2>3, <2>4, <3>1
    <3> QED
      BY <3>2, Zenon DEF Identities!NamesIndexed, N
  <2>6. Linked'
    BY <2>1, <2>2 DEF IdentitiesOK, Linked
  <2>7. Identities!TypeOK'
    <3>1. /\ customers \subseteq CustomerIds /\ DOMAIN users \subseteq UserIds
          /\ users \in [DOMAIN users -> Identities!User]
          /\ DOMAIN username_index \subseteq Identities!Usernames
          /\ username_index \in [DOMAIN username_index -> UserIds]
      BY DEF IdentitiesOK, Identities!TypeOK
    <3>2. users' \in [DOMAIN users' -> Identities!User]
      <4>1. [username |-> u, role |-> role, customer_id |-> c] \in Identities!User
        BY DEF Identities!User
      <4>2. \A i \in DOMAIN users : users[i] \in Identities!User
        BY <3>1
      <4> QED
        BY <2>1, <4>1, <4>2
    <3>3. u \in Identities!Usernames
      BY DEF Identities!Usernames
    <3> QED
      BY <2>1, <2>2, <2>3, <3>1, <3>2, <3>3 DEF Identities!TypeOK
  <2> QED
    BY <2>1, <2>2, <2>5, <2>6, <2>7 DEF IdentitiesOK, IdentitiesGrow
<1> QED
  BY <1>1, <1>2, <1>3 DEF IdentitiesStep

LEMMA IdentitiesAccepted ==
    ASSUME IdentitiesOK
    PROVE  Identities!Accepts(customers, users)
BY DEF IdentitiesOK, Linked, Identities!NamesIndexed, Identities!Accepts

\* The index that is built for users who are accepted leads to them.
LEMMA BuiltIdentities ==
    ASSUME NEW cs \in SUBSET CustomerIds, NEW us, Identities!Accepts(cs, us),
           DOMAIN us \subseteq UserIds, us \in [DOMAIN us -> Identities!User],
           customers' = cs, users' = us, username_index' = Identities!IndexOf(us)
    PROVE  IdentitiesOK'
<1> DEFINE N == [n \in UserIds |-> n]
           Name(i) == N[us[i].username]
           Names == {Name(i) : i \in DOMAIN us}
           index == [u \in Names |-> CHOOSE i \in DOMAIN us : Name(i) = u]
<1>1. Identities!IndexOf(us) = index
  BY Zenon DEF Identities!IndexOf
<1>2. /\ \A i \in DOMAIN us : us[i].username \in DOMAIN N
      /\ \A i, j \in DOMAIN us : Name(i) = Name(j) => i = j
      /\ \A i \in DOMAIN us : Identities!ValidLink(us[i].role, us[i].customer_id, cs)
  BY Zenon DEF Identities!Accepts
<1>3. ASSUME NEW u \in Names
      PROVE  index[u] \in DOMAIN us /\ Name(index[u]) = u
  <2>1. \E i \in DOMAIN us : Name(i) = u
    OBVIOUS
  <2> HIDE DEF Name, Names
  <2>2. index[u] = CHOOSE i \in DOMAIN us : Name(i) = u
    OBVIOUS
  <2> QED
    BY <2>1, <2>2, Zenon
<1>4. ASSUME NEW i \in DOMAIN us
      PROVE  Name(i) \in Names /\ index[Name(i)] = i
  <2>1. Name(i) \in Names
    OBVIOUS
  <2>2. index[Name(i)] \in DOMAIN us /\ Name(index[Name(i)]) = Name(i)
    BY <1>3, <2>1
  <2> HIDE DEF Name, Names, index
  <2> QED
    BY <1>2, <2>1, <2>2
<1>5. DOMAIN index = Names /\ index \in [Names -> UserIds]
  <2> DEFINE Holder(u) == CHOOSE i \in DOMAIN us : Name(i) = u
  <2>1. index = [u \in Names |-> Holder(u)]
    OBVIOUS
  <2>2. ASSUME NEW u \in Names
        PROVE  Holder(u) \in UserIds
    <3>1. index[u] \in DOMAIN us
      BY <1>3
    <3> HIDE DEF Names
    <3>2. index[u] = Holder(u)
      BY <2>1
    <3> HIDE DEF index, Holder
    <3> QED
      BY <3>1, <3>2
  <2> HIDE DEF index, Names, Holder
  <2> QED
    BY <2>1, <2>2
<1>6. Names \subseteq Identities!Usernames
  BY <1>2 DEF Identities!Usernames
<1> HIDE DEF Names, index, N
<1>7. Identities!NamesIndexed'
  <2>1. username_index' = index /\ users' = us
    BY <1>1
  <2>2. /\ \A u \in DOMAIN username_index' :
             /\ username_index'[u] \in DOMAIN users'
             /\ users'[username_index'[u]].username \in DOMAIN N
             /\ N[users'[username_index'[u]].username] = u
        /\ \A i \in DOMAIN users' :
             /\ users'[i].username \in DOMAIN N
             /\ N[users'[i].username] \in DOMAIN username_index'
             /\ username_index'[N[users'[i].username]] = i
    BY <1>2, <1>3, <1>4, <1>5, <2>1
  <2> QED
    BY <2>2, Zenon DEF Identities!NamesIndexed, N
<1>8. Linked'
  BY <1>2 DEF Linked
<1>9. Identities!TypeOK'
  <2>1. username_index' = index /\ users' = us /\ customers' = cs
    BY <1>1
  <2> QED
    BY <1>5, <1>6, <2>1 DEF Identities!TypeOK
<1> QED
  BY <1>7, <1>8, <1>9 DEF IdentitiesOK

OwnersOK ==
    /\ owner_id \in [DOMAIN accounts -> Identities!OptionalCustomers]
    /\ \A a \in DOMAIN accounts : owner_id[a] \subseteq customers

OwnersStep ==
    \/ DOMAIN accounts' = DOMAIN accounts /\ UNCHANGED owner_id
    \/ \E id, opening : \E owner \in Identities!OptionalCustomers :
         CreateAccount(id, owner, opening)
    \/ \E id : DeleteAccount(id)

LEMMA OwnersAreKept ==
    ASSUME OwnersOK, customers \subseteq customers', OwnersStep
    PROVE  OwnersOK'
<1>1. CASE DOMAIN accounts' = DOMAIN accounts /\ UNCHANGED owner_id
  BY <1>1 DEF OwnersOK
<1>2. ASSUME NEW id, NEW opening, NEW owner \in Identities!OptionalCustomers,
             CreateAccount(id, owner, opening)
      PROVE  OwnersOK'
  <2>1. /\ DOMAIN accounts' = DOMAIN accounts \cup {id}
        /\ owner \subseteq customers
        /\ owner_id' = [a \in DOMAIN owner_id \cup {id} |->
                          IF a = id THEN owner ELSE owner_id[a]]
    BY <1>2 DEF CreateAccount, Ledger!CreateAccount
  <2> QED
    BY <2>1 DEF OwnersOK
<1>3. ASSUME NEW id, DeleteAccount(id)
      PROVE  OwnersOK'
  <2>1. /\ DOMAIN accounts' = DOMAIN accounts \ {id}
        /\ owner_id' = [a \in DOMAIN owner_id \ {id} |-> owner_id[a]]
    BY <1>3 DEF DeleteAccount, Ledger!DeleteAccount
  <2> QED
    BY <2>1 DEF OwnersOK
<1> QED
  BY <1>1, <1>2, <1>3 DEF OwnersStep

-----------------------------------------------------------------------------
(* What a text that is accepted builds.                                    *)

AppOK ==
    /\ LedgerOK /\ HistoriesOK
    /\ OwnersOK /\ IdentitiesOK
    /\ LogOK /\ LogNamesUsers /\ AllTold

LEMMA ImportableIs ==
    ASSUME NEW s
    PROVE  /\ LedgerOf(s)!RecordedIds = IdsOf(s.accounts)
           /\ LedgerOf(s)!Importable <=>
                /\ \A a \in DOMAIN s.accounts :
                     s.accounts[a].balance >= 0 /\ s.accounts[a].loan_balance >= 0
                /\ \A n \in IdsOf(s.accounts) : n # 0 /\ n < MaxTransactionId
                /\ UniqueIn(s.accounts)
<1>1. LedgerOf(s)!RecordedIds = IdsOf(s.accounts)
  BY DEF LedgerOf!RecordedIds, LedgerOf!TransactionsOf, IdsOf
<1>2. LedgerOf(s)!TransactionIdsUnique <=> UniqueIn(s.accounts)
  BY DEF LedgerOf!TransactionIdsUnique, LedgerOf!TransactionsOf, UniqueIn
<1> QED
  BY <1>1, <1>2 DEF LedgerOf!Importable

LEMMA IdsAreNumbers ==
    ASSUME NEW acs, \A a \in DOMAIN acs : acs[a].transactions \in Seq(Ledger!Transaction)
    PROVE  \A n \in IdsOf(acs) : n \in Nat
<1> SUFFICES ASSUME NEW n \in IdsOf(acs)
             PROVE  n \in Nat
  OBVIOUS
<1>1. PICK a \in DOMAIN acs :
        n \in {acs[a].transactions[i].id : i \in DOMAIN acs[a].transactions}
  BY DEF IdsOf
<1> DEFINE h == acs[a].transactions
<1>2. PICK i \in DOMAIN h : n = h[i].id
  BY <1>1
<1>3. h \in Seq(Ledger!Transaction)
  OBVIOUS
<1> HIDE DEF h
<1>4. h[i] \in Ledger!Transaction
  BY <1>3
<1> QED
  BY <1>2, <1>4 DEF Ledger!Transaction

\* `from_accounts` goes on after the largest id that is recorded.
LEMMA NextIdFollows ==
    ASSUME NEW s, IsSnapshot(s), Accepts(s)
    PROVE  /\ NextIdOf(s) \in 1..MaxTransactionId
           /\ \A n \in IdsOf(s.accounts) : n > 0 /\ n < NextIdOf(s)
<1> DEFINE Ids == IdsOf(s.accounts) \cup {0}
           Gaps == {MaxTransactionId - n : n \in Ids}
<1>1. \A n \in IdsOf(s.accounts) : n # 0 /\ n < MaxTransactionId
  BY ImportableIs DEF Accepts
<1>2. \A n \in IdsOf(s.accounts) : n \in Nat
  <2>1. \A a \in DOMAIN s.accounts : s.accounts[a].transactions \in Seq(Ledger!Transaction)
    BY DEF IsSnapshot, Ledger!Account
  <2> QED
    BY <2>1, IdsAreNumbers
<1>3. /\ 0 \in Ids /\ MaxTransactionId \in Nat \ {0}
      /\ \A n \in Ids : n \in Nat /\ n < MaxTransactionId
  BY <1>1, <1>2, LedgerAssumption
<1>4. NextIdOf(s) = 1 + CHOOSE largest \in Ids : \A n \in Ids : n <= largest
  BY ImportableIs, Zenon DEF NextIdOf
<1>5. \A n \in IdsOf(s.accounts) : n \in Ids
  OBVIOUS
<1> HIDE DEF Ids
<1>6. \E largest \in Ids : \A n \in Ids : n <= largest
  <2>1. Gaps \in SUBSET Nat /\ Gaps # {}
    BY <1>3
  <2>2. PICK least \in Gaps : \A gap \in Gaps : least <= gap
    <3> HIDE DEF Gaps
    <3> QED
      BY <2>1, LeastNatural
  <2>3. PICK largest \in Ids : least = MaxTransactionId - largest
    BY <2>2
  <2>4. ASSUME NEW n \in Ids
        PROVE  n <= largest
    <3>1. MaxTransactionId - n \in Gaps
      OBVIOUS
    <3>2. MaxTransactionId - largest <= MaxTransactionId - n
      BY <2>2, <2>3, <3>1
    <3> QED
      BY <1>3, <3>2
  <2> QED
    BY <2>4
<1> DEFINE m == CHOOSE largest \in Ids : \A n \in Ids : n <= largest
<1>7. m \in Ids /\ \A n \in Ids : n <= m
  BY <1>6, Zenon
<1> HIDE DEF m
<1>8. NextIdOf(s) = 1 + m
  BY <1>4 DEF m
<1> QED
  BY <1>1, <1>3, <1>5, <1>7, <1>8

LEMMA BuildIsSound ==
    ASSUME NEW s, IsSnapshot(s), Accepts(s), BuildFrom(s)
    PROVE  AppOK'
<1>1. /\ accounts' = s.accounts /\ next_transaction_id' = NextIdOf(s)
      /\ owner_id' = s.owner_id /\ customers' = s.customers /\ users' = s.users
      /\ username_index' = Identities!IndexOf(s.users) /\ audit_log' = s.audit_log
  BY DEF BuildFrom
<1>2. /\ \A a \in DOMAIN s.accounts :
           s.accounts[a].balance >= 0 /\ s.accounts[a].loan_balance >= 0
      /\ UniqueIn(s.accounts)
  BY ImportableIs DEF Accepts
<1>3. /\ NextIdOf(s) \in 1..MaxTransactionId
      /\ \A n \in IdsOf(s.accounts) : n > 0 /\ n < NextIdOf(s)
  BY NextIdFollows
<1>4. LedgerOK'
  <2>1. ASSUME NEW a \in DOMAIN s.accounts
        PROVE  Sound(s.accounts[a])
    <3> DEFINE account == s.accounts[a]
    <3>1. /\ account \in Ledger!Account
          /\ account.balance <= MaxCents /\ account.loan_balance <= MaxCents
      BY DEF IsSnapshot
    <3>2. account.balance >= 0 /\ account.loan_balance >= 0
      BY <1>2
    <3> HIDE DEF account
    <3>3. account.balance \in Int /\ account.loan_balance \in Int
      BY <3>1 DEF Ledger!Account
    <3> QED
      BY <3>1, <3>2, <3>3, LedgerAssumption DEF Sound, account
  <2>2. DOMAIN s.accounts \subseteq AccountIds
    BY DEF IsSnapshot
  <2> QED
    BY <1>1, <1>3, <2>1, <2>2 DEF LedgerOK
<1>5. HistoriesOK'
  BY <1>1, <1>2, <1>3 DEF HistoriesOK
<1>6. OwnersOK'
  BY <1>1 DEF OwnersOK, IsSnapshot, Accepts, OwnersKnown
<1>7. IdentitiesOK'
  <2>1. /\ Identities!Accepts(s.customers, s.users)
        /\ s.customers \in SUBSET CustomerIds
        /\ DOMAIN s.users \subseteq UserIds /\ s.users \in [DOMAIN s.users -> Identities!User]
    BY DEF Accepts, IsSnapshot
  <2> QED
    BY <1>1, <2>1, BuiltIdentities
<1>8. LogOK' /\ LogNamesUsers'
  BY <1>1 DEF IsSnapshot, NamesUsers, LogOK, IsALog, LogNamesUsers, BagToSet
<1>9. AllTold'
  <2>1. HasRoom(s.audit_log) =>
          \A kind \in Tracked :
            Cardinality(MadeIn(s.accounts, kind)) <= Audits(s.audit_log, kind)
    BY TellsIs DEF IsSnapshot
  <2> QED
    BY <1>1, <2>1 DEF AllTold, Makes
<1> QED
  BY <1>4, <1>5, <1>6, <1>7, <1>8, <1>9 DEF AppOK

\* What a save writes is a text, and one that is accepted.
LEMMA SnapshotIsSound ==
    ASSUME AppOK
    PROVE  IsSnapshot(Snapshot) /\ Accepts(Snapshot)
<1> DEFINE s == Snapshot
<1>1. /\ s.accounts = accounts /\ s.owner_id = owner_id /\ s.customers = customers
      /\ s.users = users /\ s.audit_log = audit_log
      /\ s = [accounts |-> s.accounts, owner_id |-> s.owner_id, customers |-> s.customers,
              users |-> s.users, audit_log |-> s.audit_log]
  BY DEF Snapshot
<1>2. NamesUsers(s)
  BY SnapshotNames DEF AppOK
<1>3. TellsOfMoves(s)
  BY MovesAreTold DEF AppOK, MovesOnRecord
<1> HIDE DEF s
<1>4. IsSnapshot(s)
  <2>1. ASSUME NEW a \in DOMAIN s.accounts
        PROVE  /\ s.accounts[a] \in Ledger!Account
               /\ s.accounts[a].balance <= MaxCents /\ s.accounts[a].loan_balance <= MaxCents
    BY <1>1, LedgerAssumption DEF AppOK, LedgerOK, Sound
  <2>2. DOMAIN s.accounts \subseteq AccountIds
    BY <1>1 DEF AppOK, LedgerOK
  <2>3. s.owner_id \in [DOMAIN s.accounts -> Identities!OptionalCustomers]
    BY <1>1 DEF AppOK, OwnersOK
  <2>4. /\ IsABag(s.audit_log) /\ IsFiniteSet(BagToSet(s.audit_log))
        /\ BagCardinality(s.audit_log) <= MaxAuditEntries
    BY <1>1 DEF AppOK, LogOK, IsALog, BagToSet
  <2>5. /\ s.customers \subseteq CustomerIds
        /\ DOMAIN s.users \subseteq UserIds /\ s.users \in [DOMAIN s.users -> Identities!User]
    BY <1>1 DEF AppOK, IdentitiesOK, Identities!TypeOK
  <2> QED
    BY <1>1, <1>2, <1>3, <2>1, <2>2, <2>3, <2>4, <2>5, Zenon DEF IsSnapshot
<1>5. Accepts(s)
  <2>1. LedgerOf(s)!Importable
    <3>1. \A a \in DOMAIN s.accounts :
            s.accounts[a].balance >= 0 /\ s.accounts[a].loan_balance >= 0
      BY <1>1 DEF AppOK, LedgerOK, Sound
    <3>2. \A n \in IdsOf(s.accounts) : n # 0 /\ n < MaxTransactionId
      <4>1. \A n \in IdsOf(accounts) : n \in Nat
        <5>1. \A a \in DOMAIN accounts : accounts[a].transactions \in Seq(Ledger!Transaction)
          BY DEF AppOK, LedgerOK, Sound, Ledger!Account
        <5> QED
          BY <5>1, IdsAreNumbers
      <4> QED
        BY <1>1, <4>1, LedgerAssumption DEF AppOK, HistoriesOK, LedgerOK
    <3>3. UniqueIn(s.accounts)
      BY <1>1 DEF AppOK, HistoriesOK
    <3> QED
      BY <3>1, <3>2, <3>3, ImportableIs
  <2>2. Identities!Accepts(s.customers, s.users)
    BY <1>1, IdentitiesAccepted DEF AppOK
  <2>3. OwnersKnown(s)
    BY <1>1 DEF AppOK, OwnersOK, OwnersKnown
  <2> QED
    BY <2>1, <2>2, <2>3 DEF Accepts
<1> QED
  BY <1>4, <1>5 DEF s

LEMMA NewStateIsSound == IsSnapshot(NewState) /\ Accepts(NewState)
<1> DEFINE s == NewState
<1>1. /\ s.accounts = << >> /\ s.owner_id = << >> /\ s.customers = {} /\ s.users = << >>
      /\ s.audit_log = EmptyBag
      /\ s = [accounts |-> s.accounts, owner_id |-> s.owner_id, customers |-> s.customers,
              users |-> s.users, audit_log |-> s.audit_log]
  BY DEF NewState
<1>2. DOMAIN s.accounts = {} /\ DOMAIN s.users = {}
  BY <1>1
<1> HIDE DEF s
<1>3. IsABag(s.audit_log) /\ DOMAIN s.audit_log = {} /\ BagCardinality(s.audit_log) = 0
  <2>1. s.audit_log = [x \in {} |-> x]
    BY <1>1 DEF EmptyBag, SetToBag
  <2>2. IsALog(s.audit_log)
    BY <2>1, FS_EmptySet DEF IsALog, IsABag
  <2>3. BagCardinality(s.audit_log) = 0
    <3> DEFINE B == s.audit_log
    <3>1. DOMAIN B = {} /\ IsFiniteSet({}) /\ Counting({}, B)
      BY <2>1, FS_EmptySet DEF Counting
    <3> HIDE DEF B
    <3>2. PICK t : Sums(SUBSET {}, B, t) /\ BagCardinality(B) = t[{}]
      BY <3>1, CardinalityIsSum
    <3>3. t[{}] = 0
      BY <3>2 DEF Sums
    <3> QED
      BY <3>2, <3>3 DEF B
  <2> QED
    BY <2>1, <2>2, <2>3 DEF IsALog
<1>4. \A kind : MadeIn(s.accounts, kind) = {}
  BY <1>2 DEF MadeIn
<1>5. TellsOfMoves(s)
  <2>1. \A kind : Cardinality(MadeIn(s.accounts, kind)) = 0
    BY <1>4, FS_EmptySet
  <2>2. \A kind : Audits(s.audit_log, kind) \in Nat
    <3>1. IsALog(s.audit_log)
      BY <1>3, FS_EmptySet DEF IsALog
    <3> QED
      BY <3>1, AuditsNat
  <2> QED
    BY <2>1, <2>2, TellsIs
<1>6. IsSnapshot(s)
  <2>1. s.owner_id \in [DOMAIN s.accounts -> Identities!OptionalCustomers]
    BY <1>1
  <2>2. NamesUsers(s) /\ IsFiniteSet(BagToSet(s.audit_log))
    BY <1>3, FS_EmptySet DEF NamesUsers, BagToSet
  <2>3. BagCardinality(s.audit_log) <= MaxAuditEntries
    BY <1>3, AppAssumption
  <2>4. s.users \in [DOMAIN s.users -> Identities!User]
    BY <1>1
  <2> QED
    BY <1>1, <1>2, <1>3, <1>5, <2>1, <2>2, <2>3, <2>4 DEF IsSnapshot
<1>7. Accepts(s)
  <2>1. LedgerOf(s)!Importable
    BY <1>2, ImportableIs DEF IdsOf, UniqueIn
  <2>2. Identities!Accepts(s.customers, s.users)
    BY <1>2 DEF Identities!Accepts
  <2> QED
    BY <1>2, <2>1, <2>2 DEF Accepts, OwnersKnown
<1> QED
  BY <1>6, <1>7 DEF s

-----------------------------------------------------------------------------
(* What every step is: a command that works on the state that is there, or *)
(* one that builds it anew.                                                *)

FilesOK == DOMAIN file = Files /\ \A f \in Files : IsText(file[f]) => IsSnapshot(file[f])

\* The inductive invariant.
IInv == AppOK /\ FilesOK /\ SessionIsCurrent

FilesStep ==
    \/ UNCHANGED file
    \/ \E f \in Files : file' = [file EXCEPT ![f] = Snapshot]
    \/ \E f \in JsonFiles : file' = [file EXCEPT ![f] = Partial]

SessionStep == UNCHANGED session \/ SessionIsCurrent'

Moves ==
    \E id, kind :
      /\ LedgerStep(id, kind)
      /\ \/ kind \notin Tracked /\ UNCHANGED audit_log
         \/ \E action : /\ Records(action)
                        /\ kind \in Tracked /\ Completed => action = ActionOf[kind]

Works == Moves /\ IdentitiesStep /\ OwnersStep /\ SessionStep /\ FilesStep

\* The bank of a new process, or of a file that is loaded.
BankIsReplaced ==
    \E s \in {NewState} \cup {file[f] : f \in {g \in Files : MayBeLoaded(file[g])}} :
      accounts' = s.accounts /\ next_transaction_id' = NextIdOf(s)

Rebuilds ==
    /\ \E s : IsSnapshot(s) /\ Accepts(s) /\ BuildFrom(s)
    /\ BankIsReplaced
    /\ session' = NoSession
    /\ FilesStep

LEMMA FilesAreKept ==
    ASSUME AppOK, FilesOK, FilesStep
    PROVE  FilesOK'
<1>1. CASE UNCHANGED file
  BY <1>1 DEF FilesOK
<1>2. ASSUME NEW f \in Files, NEW s, ~IsText(s) \/ IsSnapshot(s), file' = [file EXCEPT ![f] = s]
      PROVE  FilesOK'
  <2>1. /\ DOMAIN file' = Files /\ file'[f] = s
        /\ \A g \in Files \ {f} : file'[g] = file[g]
    BY <1>2 DEF FilesOK
  <2>2. \A g \in Files : IsText(file'[g]) => IsSnapshot(file'[g])
    BY <1>2, <2>1, Zenon DEF FilesOK
  <2> QED
    BY <2>1, <2>2 DEF FilesOK
<1>3. ~IsText(Partial) /\ JsonFiles \subseteq Files
  BY DEF IsText, Files
<1> QED
  BY <1>1, <1>2, <1>3, SnapshotIsSound, Zenon DEF FilesStep

LEMMA SessionIsKept ==
    ASSUME SessionIsCurrent, IdentitiesGrow, SessionStep
    PROVE  SessionIsCurrent'
<1>1. CASE UNCHANGED session
  BY <1>1 DEF SessionIsCurrent, IdentitiesGrow, Identities!SessionOf
<1> QED
  BY <1>1 DEF SessionStep

LEMMA WorkIsSound ==
    ASSUME IInv, Works
    PROVE  IInv'
<1>1. IdentitiesOK' /\ IdentitiesGrow
  BY IdentitiesAreKept DEF IInv, AppOK, Works
<1>2. SessionIsCurrent'
  BY <1>1, SessionIsKept DEF IInv, Works
<1>3. BankStep
  <2>1. PICK id, kind :
          /\ LedgerStep(id, kind)
          /\ \/ kind \notin Tracked /\ UNCHANGED audit_log
             \/ \E action : /\ Records(action)
                            /\ kind \in Tracked /\ Completed => action = ActionOf[kind]
    BY Zenon DEF Works, Moves
  <2>2. ASSUME NEW action, Records(action),
               kind \in Tracked /\ Completed => action = ActionOf[kind]
        PROVE  BankStep
    <3>1. PICK e : e = Entry(Actor(session'), action)
      OBVIOUS
    <3>2. e.action = action /\ e.actor = Actor(session')
      BY <3>1 DEF Entry
    <3>3. e.actor \in DOMAIN users' \cup {System}
      BY <1>2, <3>2 DEF Actor, SessionIsCurrent
    <3>4. Recording(e)
      BY <2>2, <3>1, <3>3 DEF Recording, Records
    <3> QED
      BY <2>1, <2>2, <3>2, <3>4, Zenon DEF BankStep
  <2>3. CASE kind \notin Tracked /\ UNCHANGED audit_log
    BY <2>1, <2>3, Zenon DEF BankStep
  <2> QED
    BY <2>1, <2>2, <2>3
<1>4. LogOK' /\ LogNamesUsers' /\ AllTold'
  BY <1>1, <1>3, BankStepLogs DEF IInv, AppOK, IdentitiesGrow
<1>5. LedgerOK' /\ HistoriesOK'
  <2>1. LedgerOK' /\ \E entry : Writes(entry)
    BY <1>3, Zenon DEF BankStep, LedgerStep
  <2> QED
    BY <2>1, WritesKeepHistories DEF IInv, AppOK
<1>6. OwnersOK'
  BY <1>1, OwnersAreKept DEF IInv, AppOK, Works, IdentitiesGrow
<1>7. FilesOK'
  BY FilesAreKept DEF IInv, Works
<1> QED
  BY <1>1, <1>2, <1>4, <1>5, <1>6, <1>7 DEF IInv, AppOK

LEMMA RebuildIsSound ==
    ASSUME IInv, Rebuilds
    PROVE  IInv'
<1>1. AppOK'
  BY BuildIsSound DEF Rebuilds
<1>2. FilesOK'
  BY FilesAreKept DEF IInv, Rebuilds
<1>3. SessionIsCurrent'
  BY DEF Rebuilds, SessionIsCurrent
<1> QED
  BY <1>1, <1>2, <1>3 DEF IInv

\* Steps that leave the bank.
LEMMA StillMoves ==
    ASSUME AppOK, UNCHANGED bank, UNCHANGED audit_log \/ \E action : Records(action)
    PROVE  Moves /\ OwnersStep
<1>1. LedgerStep(0, "Fee")
  BY UnmovedStep DEF AppOK, bank
<1>2. "Fee" \notin Tracked
  BY TrackedKinds
<1>3. Moves
  BY <1>1, <1>2, Zenon DEF Moves
<1> QED
  BY <1>3 DEF bank, OwnersStep

LEMMA OnlyRecordedWorks ==
    ASSUME AppOK, OnlyRecorded
    PROVE  Works
<1>1. Moves /\ OwnersStep
  <2>1. UNCHANGED bank /\ \E action : Records(action)
    BY Zenon DEF OnlyRecorded
  <2> QED
    BY <2>1, StillMoves
<1> QED
  BY <1>1 DEF OnlyRecorded, Works, IdentitiesStep, SessionStep, FilesStep

\* A step of the ledger alone.
LEMMA BankWorks ==
    ASSUME NEW id, NEW kind, LedgerStep(id, kind), OwnersStep,
           UNCHANGED <<identities, session, file>>,
           \/ kind \notin Tracked /\ UNCHANGED audit_log
           \/ \E action : /\ Records(action)
                          /\ kind \in Tracked /\ Completed => action = ActionOf[kind]
    PROVE  Works
<1>1. Moves
  BY Zenon DEF Moves
<1> QED
  BY <1>1 DEF Works, IdentitiesStep, SessionStep, FilesStep

\* The same accounts are there, but for the one that is created or deleted.
LEMMA SameAccounts ==
    ASSUME NEW id, NEW amount,
           \/ Ledger!UpdateProfile(id) \/ Ledger!CloseAccount(id)
           \/ Ledger!ActivateAccount(id) \/ Ledger!DeactivateAccount(id)
           \/ Ledger!Deposit(id, amount) \/ Ledger!Withdraw(id, amount)
           \/ Ledger!ApplyFee(id, amount) \/ Ledger!ApplyMonthlyFee(amount)
           \/ Ledger!RequestLoan(id, amount) \/ Ledger!PayLoan(id, amount)
           \/ \E rate : Ledger!ApplyInterest(id, rate)
           \/ \E to : Ledger!Transfer(id, to, amount)
    PROVE  DOMAIN accounts' = DOMAIN accounts
<1>1. ASSUME NEW account, NEW kind, NEW cents, Ledger!Post(id, account, kind, cents)
      PROVE  DOMAIN accounts' = DOMAIN accounts
  BY <1>1 DEF Ledger!Post
<1>2. Ledger!Forfeit => DOMAIN accounts' = DOMAIN accounts
  BY DEF Ledger!Forfeit
<1>3. ASSUME \/ Ledger!UpdateProfile(id) \/ Ledger!CloseAccount(id)
             \/ Ledger!ActivateAccount(id) \/ Ledger!DeactivateAccount(id)
      PROVE  DOMAIN accounts' = DOMAIN accounts
  BY <1>1, <1>3, Zenon DEF Ledger!UpdateProfile, Ledger!CloseAccount, Ledger!ActivateAccount,
                    Ledger!DeactivateAccount
<1>4. CASE Ledger!Deposit(id, amount)
  BY <1>1, <1>2, <1>4, Zenon DEF Ledger!Deposit
<1>5. CASE Ledger!Withdraw(id, amount) \/ Ledger!ApplyFee(id, amount)
  BY <1>1, <1>5, Zenon DEF Ledger!Withdraw, Ledger!ApplyFee, Ledger!Take
<1>6. CASE Ledger!ApplyMonthlyFee(amount)
  BY <1>6 DEF Ledger!ApplyMonthlyFee
<1>7. CASE Ledger!RequestLoan(id, amount)
  <2>1. CASE /\ Ledger!IdsLeft(1)
             /\ accounts' = [accounts EXCEPT
                  ![id] = Ledger!WithBalance(id, accounts[id].balance + amount)]
    BY <2>1
  <2> QED
    BY <1>1, <1>2, <1>7, <2>1, Zenon DEF Ledger!RequestLoan
<1>8. CASE Ledger!PayLoan(id, amount)
  BY <1>1, <1>8, Zenon DEF Ledger!PayLoan
<1>9. ASSUME NEW rate, Ledger!ApplyInterest(id, rate)
      PROVE  DOMAIN accounts' = DOMAIN accounts
  BY <1>1, <1>2, <1>9, Zenon DEF Ledger!ApplyInterest
<1>10. ASSUME NEW to, Ledger!Transfer(id, to, amount)
       PROVE  DOMAIN accounts' = DOMAIN accounts
  <2>1. ASSUME NEW a, NEW b, accounts' = [accounts EXCEPT ![id] = a, ![to] = b]
        PROVE  DOMAIN accounts' = DOMAIN accounts
    BY <2>1
  <2> QED
    BY <1>2, <1>10, <2>1, Zenon DEF Ledger!Transfer
<1> QED
  BY <1>3, <1>4, <1>5, <1>6, <1>7, <1>8, <1>9, <1>10

-----------------------------------------------------------------------------
(* The commands.                                                           *)

LEMMA SigningInWorks ==
    ASSUME IInv,
           Logout \/ \E u \in UserIds : BootstrapAdmin(u) \/ Login(u)
    PROVE  Works
<1>1. ASSUME NEW u \in UserIds, BootstrapAdmin(u)
      PROVE  Works
  <2>1. Moves /\ OwnersStep
    <3>1. UNCHANGED bank /\ \E action : Records(action)
      BY <1>1, Zenon DEF BootstrapAdmin, KeepsBank
    <3> QED
      BY <3>1, StillMoves DEF IInv
  <2>2. IdentitiesStep
    <3>1. "Admin" \in Identities!Roles /\ {} \in Identities!OptionalCustomers
      BY DEF Identities!Roles, Identities!OptionalCustomers
    <3> QED
      BY <1>1, <3>1, Zenon DEF BootstrapAdmin, IdentitiesStep
  <2>3. SessionIsCurrent'
    <3>1. /\ session' = [user |-> u, role |-> "Admin", customer_id |-> {}]
          /\ u \in DOMAIN users'
          /\ users'[u].role = "Admin" /\ users'[u].customer_id = {}
      BY <1>1 DEF BootstrapAdmin, Identities!CreateUser
    <3> QED
      BY <3>1 DEF SessionIsCurrent, Identities!SessionOf
  <2>4. UNCHANGED file
    BY <1>1 DEF BootstrapAdmin, KeepsFiles
  <2> QED
    BY <2>1, <2>2, <2>3, <2>4 DEF Works, SessionStep, FilesStep
<1>2. ASSUME NEW u \in UserIds, Login(u)
      PROVE  Works
  <2>1. Moves /\ OwnersStep
    <3>1. UNCHANGED bank /\ \E action : Records(action)
      BY <1>2, Zenon DEF Login, KeepsBank
    <3> QED
      BY <3>1, StillMoves DEF IInv
  <2>2. UNCHANGED identities /\ UNCHANGED file
    BY <1>2 DEF Login, KeepsIdentities, KeepsFiles
  <2>3. SessionIsCurrent'
    <3>1. u \in DOMAIN users' /\ users' = users
      BY <1>2, <2>2 DEF Login, identities
    <3>2. session' = [user |-> u, role |-> users[u].role,
                      customer_id |-> users[u].customer_id]
      BY <1>2 DEF Login, Identities!SessionOf
    <3> QED
      BY <3>1, <3>2 DEF SessionIsCurrent, Identities!SessionOf
  <2> QED
    BY <2>1, <2>2, <2>3 DEF Works, IdentitiesStep, SessionStep, FilesStep
<1>3. CASE Logout
  <2>1. UNCHANGED <<bank, identities, audit_log, file>> /\ session' = NoSession
    BY <1>3 DEF Logout, app
  <2>2. Moves /\ OwnersStep
    BY <2>1, StillMoves DEF IInv
  <2>3. SessionIsCurrent'
    BY <2>1 DEF SessionIsCurrent
  <2> QED
    BY <2>1, <2>2, <2>3 DEF Works, IdentitiesStep, SessionStep, FilesStep
<1> QED
  BY <1>1, <1>2, <1>3

LEMMA IdentitiesWork ==
    ASSUME IInv,
           \/ \E u \in UserIds, role \in Identities!Roles, c \in Identities!OptionalCustomers :
                CreateUser(u, role, c)
           \/ \E c \in CustomerIds : CreateCustomer(c)
    PROVE  Works
<1>1. UNCHANGED bank /\ (\E action : Records(action)) /\ UNCHANGED <<session, file>>
  BY Zenon DEF CreateUser, CreateCustomer
<1>2. Moves /\ OwnersStep
  BY <1>1, StillMoves DEF IInv
<1>3. IdentitiesStep
  BY Zenon DEF CreateUser, CreateCustomer, IdentitiesStep
<1> QED
  BY <1>1, <1>2, <1>3 DEF Works, SessionStep, FilesStep

LEMMA AccountsWork ==
    ASSUME IInv, NEW id \in AccountIds,
           \/ \E owner \in Identities!OptionalCustomers, amount \in Amounts :
                Create(id, owner, amount)
           \/ ChangeAccount(id)
    PROVE  Works
<1>0. LedgerOK
  BY DEF IInv, AppOK
<1>1. ASSUME NEW owner \in Identities!OptionalCustomers, NEW amount \in Amounts,
             Create(id, owner, amount)
      PROVE  Works
  <2>1. LedgerStep(id, "AccountCreated")
    BY <1>0, <1>1, OpenStep DEF Create, CreateAccount
  <2>2. OwnersStep
    BY <1>1, Zenon DEF Create, OwnersStep
  <2>3. UNCHANGED <<identities, session, file>> /\ Records("CreateAccount")
    BY <1>1 DEF Create
  <2>4. "CreateAccount" = ActionOf["AccountCreated"]
    BY DEF ActionOf
  <2> QED
    BY <2>1, <2>2, <2>3, <2>4, BankWorks
<1>2. CASE ChangeAccount(id)
  <2>1. UNCHANGED <<identities, session, file>> /\ UNCHANGED audit_log
    BY <1>2 DEF ChangeAccount
  <2>2. CASE DeleteAccount(id)
    <3>1. LedgerStep(id, "Fee")
      BY <1>0, <2>2, DeleteStep DEF DeleteAccount
    <3>2. OwnersStep
      BY <2>2, Zenon DEF OwnersStep
    <3> QED
      BY <2>1, <3>1, <3>2, TrackedKinds, BankWorks
  <2>3. CASE /\ \/ Ledger!UpdateProfile(id) \/ Ledger!CloseAccount(id)
                \/ Ledger!ActivateAccount(id) \/ Ledger!DeactivateAccount(id)
             /\ UNCHANGED owner_id
    <3>1. PICK kind \in Ledger!Notes : LedgerStep(id, kind)
      BY <1>0, <2>3, NoteStep
    <3>2. kind \notin Tracked
      BY TrackedKinds DEF Ledger!Notes
    <3>3. OwnersStep
      BY <2>3, SameAccounts DEF OwnersStep
    <3> QED
      BY <2>1, <3>1, <3>2, <3>3, BankWorks
  <2> QED
    BY <1>2, <2>2, <2>3 DEF ChangeAccount
<1> QED
  BY <1>1, <1>2

\* What is recorded about a call: that it has been done, or that it has not.
LEMMA ResultWorks ==
    ASSUME NEW id, NEW kind \in Tracked, LedgerStep(id, kind),
           DOMAIN accounts' = DOMAIN accounts, RecordsResult(ActionOf[kind])
    PROVE  Works
<1>1. UNCHANGED <<identities, session, file>> /\ OwnersStep
  BY DEF RecordsResult, OwnersStep
<1>2. \E action : /\ Records(action)
                  /\ kind \in Tracked /\ Completed => action = ActionOf[kind]
  <2>1. Records(IF Completed THEN ActionOf[kind] ELSE "Other")
    BY DEF RecordsResult
  <2>2. CASE Completed
    BY <2>1, <2>2, Zenon
  <2>3. CASE ~Completed
    BY <2>1, <2>3, Zenon
  <2> QED
    BY <2>2, <2>3
<1> QED
  BY <1>1, <1>2, BankWorks

LEMMA MoneyWorks ==
    ASSUME IInv, NEW id, NEW to, NEW amount \in Amounts,
           Deposit(id, amount) \/ Withdraw(id, amount) \/ Transfer(id, to, amount)
    PROVE  Works
<1>0. LedgerOK
  BY DEF IInv, AppOK
<1>1. /\ ActionOf["Deposit"] = "Deposit" /\ ActionOf["Withdrawal"] = "Withdraw"
      /\ ActionOf["TransferOut"] = "Transfer"
      /\ "Deposit" \in Tracked /\ "Withdrawal" \in Tracked /\ "TransferOut" \in Tracked
  BY DEF ActionOf, Tracked
<1>2. Unmoved => \A kind : LedgerStep(id, kind) /\ DOMAIN accounts' = DOMAIN accounts
  BY <1>0, UnmovedStep DEF Unmoved
<1>3. CASE Deposit(id, amount)
  <2>1. (Ledger!Deposit(id, amount) \/ Unmoved) /\ RecordsResult("Deposit")
    BY <1>3, Zenon DEF Deposit
  <2>2. LedgerStep(id, "Deposit") /\ DOMAIN accounts' = DOMAIN accounts
    BY <1>0, <1>2, <2>1, DepositStep, SameAccounts
  <2> QED
    BY <1>1, <2>1, <2>2, ResultWorks
<1>4. CASE Withdraw(id, amount)
  <2>1. (Ledger!Withdraw(id, amount) \/ Unmoved) /\ RecordsResult("Withdraw")
    BY <1>4, Zenon DEF Withdraw
  <2>2. ASSUME Ledger!Withdraw(id, amount)
        PROVE  LedgerStep(id, "Withdrawal")
    <3>1. "Withdrawal" \in Ledger!Kinds
      BY DEF Ledger!Kinds, Ledger!Debits
    <3> QED
      BY <1>0, <2>2, <3>1, TakeStep DEF Ledger!Withdraw
  <2>3. LedgerStep(id, "Withdrawal") /\ DOMAIN accounts' = DOMAIN accounts
    BY <1>2, <2>1, <2>2, SameAccounts
  <2> QED
    BY <1>1, <2>1, <2>3, ResultWorks
<1>5. CASE Transfer(id, to, amount)
  <2>1. (Ledger!Transfer(id, to, amount) \/ Unmoved) /\ RecordsResult("Transfer")
    BY <1>5, Zenon DEF Transfer
  <2>2. LedgerStep(id, "TransferOut") /\ DOMAIN accounts' = DOMAIN accounts
    BY <1>0, <1>2, <2>1, TransferStep, SameAccounts
  <2> QED
    BY <1>1, <2>1, <2>2, ResultWorks
<1> QED
  BY <1>3, <1>4, <1>5

LEMMA UnrecordedWorks ==
    ASSUME IInv, NEW id, NEW amount \in Amounts, MoveUnrecorded(id, amount)
    PROVE  Works
<1>0. LedgerOK
  BY DEF IInv, AppOK
<1>1. UNCHANGED <<identities, session, file>> /\ UNCHANGED audit_log /\ UNCHANGED owner_id
  BY DEF MoveUnrecorded
<1>2. /\ "Fee" \notin Tracked /\ "LoanRequested" \notin Tracked
      /\ "LoanPayment" \notin Tracked /\ "Interest" \notin Tracked
  BY TrackedKinds
<1>3. ASSUME NEW kind, kind \notin Tracked, LedgerStep(id, kind),
             DOMAIN accounts' = DOMAIN accounts
      PROVE  Works
  <2>1. OwnersStep
    BY <1>1, <1>3 DEF OwnersStep
  <2> QED
    BY <1>1, <1>3, <2>1, BankWorks
<1>4. CASE Ledger!ApplyFee(id, amount)
  <2>1. "Fee" \in Ledger!Kinds
    BY DEF Ledger!Kinds, Ledger!Debits
  <2>2. LedgerStep(id, "Fee")
    BY <1>0, <1>4, <2>1, TakeStep DEF Ledger!ApplyFee
  <2> QED
    BY <1>2, <1>3, <1>4, <2>2, SameAccounts
<1>5. CASE Ledger!ApplyMonthlyFee(amount)
  BY <1>0, <1>2, <1>3, <1>5, MonthlyFeeStep, SameAccounts
<1>6. CASE Ledger!RequestLoan(id, amount)
  BY <1>0, <1>2, <1>3, <1>6, RequestLoanStep, SameAccounts
<1>7. ASSUME NEW rate \in Rates, Ledger!ApplyInterest(id, rate)
      PROVE  Works
  BY <1>0, <1>2, <1>3, <1>7, InterestStep, SameAccounts
<1>8. CASE Ledger!PayLoan(id, amount)
  BY <1>0, <1>2, <1>3, <1>8, PayLoanStep, SameAccounts
<1> QED
  BY <1>4, <1>5, <1>6, <1>7, <1>8, Zenon DEF MoveUnrecorded

LEMMA SavesWork ==
    ASSUME IInv, NEW f \in Files, Save(f) \/ SaveFails(f)
    PROVE  Works
<1>1. /\ UNCHANGED bank /\ UNCHANGED <<identities, session>>
      /\ \E action : Records(action)
  BY Zenon DEF Save, SaveFails
<1>2. Moves /\ OwnersStep
  BY <1>1, StillMoves DEF IInv
<1>3. FilesStep
  BY Zenon DEF Save, SaveFails, KeepsFiles, BreaksOff, FilesStep
<1> QED
  BY <1>1, <1>2, <1>3 DEF Works, IdentitiesStep, SessionStep

\* The entry that a load is recorded with does not count for the next id.
LEMMA LoadedBank ==
    ASSUME IInv, NEW f \in Files, Load(f)
    PROVE  BankIsReplaced
<1>1. PICK s : s = file[f]
  OBVIOUS
<1>2. PICK t : t = [s EXCEPT !.audit_log = With(s.audit_log, Entry(Actor(NoSession), "Other"))]
  OBVIOUS
<1>3. IsText(s) /\ Accepts(s) /\ BuildFrom(t)
  BY <1>1, <1>2, Zenon DEF Load, MayBeLoaded, LoadWith
<1>4. t.accounts = s.accounts
  <2>1. IsSnapshot(s)
    BY <1>1, <1>3 DEF IInv, FilesOK
  <2> QED
    BY <1>2, <2>1 DEF IsSnapshot
<1>5. NextIdOf(t) = NextIdOf(s)
  <2>1. LedgerOf(t)!RecordedIds = LedgerOf(s)!RecordedIds
    BY <1>4, ImportableIs
  <2> QED
    BY <2>1 DEF NextIdOf
<1>6. accounts' = s.accounts /\ next_transaction_id' = NextIdOf(s)
  BY <1>3, <1>4, <1>5 DEF BuildFrom
<1>7. MayBeLoaded(file[f])
  BY DEF Load
<1> QED
  BY <1>1, <1>6, <1>7, Zenon DEF BankIsReplaced

LEMMA NewBank ==
    ASSUME Restart \/ \E f \in Files : DieSaving(f)
    PROVE  BankIsReplaced
<1>1. BuildFrom(NewState)
  BY Zenon DEF Restart, DieSaving
<1>2. accounts' = NewState.accounts /\ next_transaction_id' = NextIdOf(NewState)
  BY <1>1, Zenon DEF BuildFrom
<1> QED
  BY <1>2, Zenon DEF BankIsReplaced

LEMMA LoadRebuilds ==
    ASSUME IInv, NEW f \in Files, Load(f)
    PROVE  Rebuilds
<1>1. PICK s : s = file[f]
  OBVIOUS
<1>2. PICK e : e = Entry(Actor(NoSession), "Other")
  OBVIOUS
<1>3. PICK t : t = [s EXCEPT !.audit_log = With(s.audit_log, e)]
  OBVIOUS
<1>4. IsText(s) /\ Accepts(s) /\ BuildFrom(t) /\ session' = NoSession /\ UNCHANGED file
  BY <1>1, <1>2, <1>3, Zenon DEF Load, MayBeLoaded, LoadWith, KeepsFiles
<1>5. IsSnapshot(s)
  BY <1>1, <1>4 DEF IInv, FilesOK
<1>6. /\ t.accounts = s.accounts /\ t.owner_id = s.owner_id
      /\ t.customers = s.customers /\ t.users = s.users
      /\ t.audit_log = With(s.audit_log, e)
      /\ t = [accounts |-> t.accounts, owner_id |-> t.owner_id, customers |-> t.customers,
              users |-> t.users, audit_log |-> t.audit_log]
  BY <1>3, <1>5 DEF IsSnapshot
<1>7. e.actor = System /\ e.action = "Other"
  BY <1>2 DEF Entry, Actor
<1> DEFINE log == s.audit_log
           more == t.audit_log
<1>8. IsALog(log) /\ BagCardinality(log) <= MaxAuditEntries
  BY <1>5 DEF IsSnapshot, IsALog, BagToSet
<1>9. /\ IsALog(more) /\ BagCardinality(more) <= MaxAuditEntries
      /\ DOMAIN more \subseteq DOMAIN log \cup {e}
      /\ HasRoom(more) =>
           /\ HasRoom(log)
           /\ \A kind : Audits(more, kind)
                          = Audits(log, kind) + IF e.action = ActionOf[kind] THEN 1 ELSE 0
  <2>1. more = With(log, e)
    BY <1>6
  <2> HIDE DEF log, more
  <2> QED
    BY <1>8, <2>1, WithCounts
<1>10. NamesUsers(t)
  <2>1. \A entry \in DOMAIN log : entry.actor \in DOMAIN s.users \cup {System}
    BY <1>5 DEF IsSnapshot, NamesUsers, BagToSet
  <2> HIDE DEF log
  <2> QED
    BY <1>6, <1>7, <1>9, <2>1 DEF NamesUsers, BagToSet
<1>11. TellsOfMoves(t)
  <2>1. HasRoom(log) =>
          \A kind \in Tracked : Cardinality(MadeIn(s.accounts, kind)) <= Audits(log, kind)
    BY <1>5, TellsIs DEF IsSnapshot
  <2>2. \A kind \in Tracked : "Other" # ActionOf[kind]
    BY DEF Tracked, ActionOf
  <2>3. \A kind : Audits(log, kind) \in Nat
    BY <1>8, AuditsNat
  <2> HIDE DEF log
  <2>4. HasRoom(more) =>
          \A kind \in Tracked : Cardinality(MadeIn(t.accounts, kind)) <= Audits(more, kind)
    BY <1>6, <1>7, <1>9, <2>1, <2>2, <2>3
  <2> QED
    BY <2>4, TellsIs
<1>12. IsSnapshot(t)
  BY <1>5, <1>6, <1>9, <1>10, <1>11 DEF IsSnapshot, IsALog, BagToSet
<1>13. Accepts(t)
  <2>1. LedgerOf(t)!Importable
    BY <1>4, <1>6, ImportableIs DEF Accepts
  <2>2. Identities!Accepts(t.customers, t.users) /\ OwnersKnown(t)
    BY <1>4, <1>6 DEF Accepts, OwnersKnown
  <2> QED
    BY <2>1, <2>2 DEF Accepts
<1> QED
  BY <1>4, <1>12, <1>13, LoadedBank, Zenon DEF Rebuilds, FilesStep

LEMMA RestartRebuilds ==
    ASSUME Restart \/ \E f \in Files : DieSaving(f)
    PROVE  Rebuilds
<1>1. BuildFrom(NewState) /\ session' = NoSession
  BY Zenon DEF Restart, DieSaving
<1>2. FilesStep
  BY Zenon DEF Restart, DieSaving, BreaksOff, FilesStep
<1> QED
  BY <1>1, <1>2, NewBank, NewStateIsSound, Zenon DEF Rebuilds

LEMMA EveryStep ==
    ASSUME IInv, [Next]_vars
    PROVE  Works \/ Rebuilds
<1>1. ASSUME Command
      PROVE  Works \/ Rebuilds
  <2>1. CASE BootstrapFails \/ LoginFails \/ CreationFails \/ Export
    <3>1. OnlyRecorded
      BY <2>1, Zenon DEF BootstrapFails, LoginFails, CreationFails, Export
    <3> QED
      BY <3>1, OnlyRecordedWorks DEF IInv
  <2>2. CASE Logout
    BY <2>2, SigningInWorks
  <2>3. ASSUME NEW u \in UserIds,
               \/ BootstrapAdmin(u) \/ Login(u)
               \/ \E role \in Identities!Roles, c \in Identities!OptionalCustomers :
                    CreateUser(u, role, c)
        PROVE  Works
    BY <2>3, SigningInWorks, IdentitiesWork
  <2>4. ASSUME NEW c \in CustomerIds, CreateCustomer(c)
        PROVE  Works
    BY <2>4, IdentitiesWork
  <2>5. ASSUME NEW id \in AccountIds, ChangeAccount(id)
        PROVE  Works \/ Rebuilds
    BY <2>5, AccountsWork
  <2>6. ASSUME NEW id \in AccountIds, NEW amount \in Amounts,
               \/ \E owner \in Identities!OptionalCustomers : Create(id, owner, amount)
               \/ Deposit(id, amount) \/ Withdraw(id, amount) \/ MoveUnrecorded(id, amount)
               \/ \E to \in AccountIds : Transfer(id, to, amount)
        PROVE  Works
    BY <2>6, AccountsWork, MoneyWorks, UnrecordedWorks
  <2>7. ASSUME NEW f \in Files,
               Save(f) \/ SaveFails(f) \/ Load(f) \/ LoadFails(f) \/ DieSaving(f)
        PROVE  Works \/ Rebuilds
    <3>1. LoadFails(f) => OnlyRecorded
      BY DEF LoadFails
    <3> QED
      BY <2>7, <3>1, SavesWork, LoadRebuilds, RestartRebuilds, OnlyRecordedWorks DEF IInv
  <2> QED
    BY <1>1, <2>1, <2>2, <2>3, <2>4, <2>5, <2>6, <2>7, Zenon DEF Command
<1>2. CASE UNCHANGED vars
  <2>1. UNCHANGED bank /\ UNCHANGED <<identities, audit_log, session, file>>
    BY <1>2 DEF vars, app
  <2>2. Moves /\ OwnersStep
    BY <2>1, StillMoves DEF IInv
  <2> QED
    BY <2>1, <2>2 DEF Works, IdentitiesStep, SessionStep, FilesStep
<1> QED
  BY <1>1, <1>2, RestartRebuilds, Zenon DEF Next

-----------------------------------------------------------------------------
(* The theorems.                                                           *)

LEMMA InitInvariant == Init => IInv
<1> SUFFICES ASSUME Init
             PROVE  IInv
  OBVIOUS
<1> DEFINE s == NewState
<1>1. /\ accounts = s.accounts /\ next_transaction_id = NextIdOf(s)
      /\ owner_id = s.owner_id /\ customers = s.customers /\ users = s.users
      /\ username_index = Identities!IndexOf(s.users) /\ audit_log = s.audit_log
  BY DEF Init, IsBuiltFrom
<1>2. IsSnapshot(s) /\ Accepts(s)
  BY NewStateIsSound
<1>3. /\ DOMAIN s.accounts = {} /\ DOMAIN s.users = {} /\ s.owner_id = << >>
      /\ s.users = << >> /\ s.customers = {}
  BY DEF NewState
<1> HIDE DEF s
<1>4. LedgerOK
  BY <1>1, <1>2, <1>3, NextIdFollows DEF LedgerOK
<1>5. HistoriesOK
  BY <1>1, <1>3 DEF HistoriesOK, IdsOf, UniqueIn
<1>6. OwnersOK
  BY <1>1, <1>3 DEF OwnersOK
<1>7. IdentitiesOK
  <2>1. DOMAIN username_index = {} /\ username_index \in [{} -> UserIds]
    BY <1>1, <1>3 DEF Identities!IndexOf
  <2>2. users \in [{} -> Identities!User]
    BY <1>1, <1>3
  <2>3. Identities!TypeOK
    BY <1>1, <1>3, <2>1, <2>2 DEF Identities!TypeOK
  <2> QED
    BY <1>1, <1>3, <2>1, <2>3 DEF IdentitiesOK, Linked, Identities!NamesIndexed
<1>8. LogOK /\ LogNamesUsers
  BY <1>1, <1>2 DEF IsSnapshot, NamesUsers, LogOK, IsALog, LogNamesUsers, BagToSet
<1>9. AllTold
  <2>1. HasRoom(s.audit_log) =>
          \A kind \in Tracked :
            Cardinality(MadeIn(s.accounts, kind)) <= Audits(s.audit_log, kind)
    BY <1>2, TellsIs DEF IsSnapshot
  <2> QED
    BY <1>1, <2>1 DEF AllTold, Makes
<1>10. FilesOK /\ SessionIsCurrent
  BY FilesAssumption DEF Init, FilesOK, SessionIsCurrent
<1> QED
  BY <1>4, <1>5, <1>6, <1>7, <1>8, <1>9, <1>10 DEF IInv, AppOK

\* The invariant of the client: the state in memory is one that a load accepts,
\* with everything in range and the log about what is there; a file that is not
\* broken holds such a text; the session is that of a user who is there.
THEOREM ClientInvariant == Spec => []IInv
<1>1. IInv /\ [Next]_vars => IInv'
  BY EveryStep, WorkIsSound, RebuildIsSound
<1> QED
  BY <1>1, InitInvariant, PTL DEF Spec

\* Whatever is typed, loaded or lost in a crash: whoever is signed in is a user of
\* the state that is loaded, with the role and the customer he has there.
THEOREM SessionsAreCurrent == Spec => []SessionIsCurrent
<1>1. IInv => SessionIsCurrent
  BY DEF IInv
<1> QED
  BY <1>1, ClientInvariant, PTL

\* The log never names a user who is not there, in memory and in every file.
THEOREM ActorsAreOnRecord == Spec => []ActorsOnRecord
<1>1. IInv => ActorsOnRecord
  BY SnapshotNames DEF IInv, AppOK, FilesOK, IsSnapshot, ActorsOnRecord
<1> QED
  BY <1>1, ClientInvariant, PTL

\* Until the log is full it has an entry for every transaction that a recorded
\* command has made, in this process or in one whose file was loaded.
THEOREM MovesAreOnRecord == Spec => []MovesOnRecord
<1>1. IInv => MovesOnRecord
  BY MovesAreTold DEF IInv, AppOK
<1> QED
  BY <1>1, ClientInvariant, PTL

\* The state that a save would write is always one that a load accepts.
THEOREM StatesReload == Spec => []StateReloads
<1>1. IInv => StateReloads
  BY SnapshotIsSound DEF IInv, StateReloads
<1> QED
  BY <1>1, ClientInvariant, PTL

-----------------------------------------------------------------------------
(* What the client does to the bank, to the identities and to the SQLite   *)
(* files, command by command.                                              *)

LEMMA AccountCalls ==
    ASSUME NEW id \in AccountIds, NEW amount \in Amounts,
           \/ \E owner \in Identities!OptionalCustomers : Create(id, owner, amount)
           \/ Deposit(id, amount) \/ Withdraw(id, amount) \/ MoveUnrecorded(id, amount)
           \/ \E to \in AccountIds : Transfer(id, to, amount)
    PROVE  Ledger!Next \/ Unmoved
<1>1. CASE \E owner \in Identities!OptionalCustomers : Create(id, owner, amount)
  <2>1. Ledger!CreateAccount(id, amount)
    BY <1>1, Zenon DEF Create, CreateAccount
  <2> QED
    BY <2>1, Zenon DEF Ledger!Next
<1>2. CASE Deposit(id, amount) \/ Withdraw(id, amount)
  <2>1. Ledger!Deposit(id, amount) \/ Ledger!Withdraw(id, amount) \/ Unmoved
    BY <1>2, Zenon DEF Deposit, Withdraw
  <2> QED
    BY <2>1, Zenon DEF Ledger!Next
<1>3. CASE MoveUnrecorded(id, amount)
  <2>1. \/ Ledger!ApplyFee(id, amount) \/ Ledger!RequestLoan(id, amount)
        \/ Ledger!PayLoan(id, amount) \/ Ledger!ApplyMonthlyFee(amount)
        \/ \E rate \in Rates : Ledger!ApplyInterest(id, rate)
    BY <1>3, Zenon DEF MoveUnrecorded
  <2> QED
    BY <2>1, Zenon DEF Ledger!Next
<1>4. ASSUME NEW to \in AccountIds, Transfer(id, to, amount)
      PROVE  Ledger!Next \/ Unmoved
  <2>1. Ledger!Transfer(id, to, amount) \/ Unmoved
    BY <1>4, Zenon DEF Transfer
  <2> QED
    BY <2>1, Zenon DEF Ledger!Next
<1> QED
  BY <1>1, <1>2, <1>3, <1>4

LEMMA BankCalls ==
    ASSUME IInv, [Next]_vars
    PROVE  [Ledger!Next \/ BankIsReplaced]_<<accounts, next_transaction_id>>
<1>1. UNCHANGED bank => Unmoved
  BY DEF bank, Unmoved
<1>2. ASSUME BootstrapFails \/ LoginFails \/ Logout \/ CreationFails \/ Export
      PROVE  Unmoved
  BY <1>1, <1>2, Zenon DEF BootstrapFails, LoginFails, CreationFails, Export, OnlyRecorded,
                           Logout, app
<1>3. ASSUME NEW u \in UserIds,
             \/ BootstrapAdmin(u) \/ Login(u)
             \/ \E role \in Identities!Roles, c \in Identities!OptionalCustomers :
                  CreateUser(u, role, c)
      PROVE  Unmoved
  BY <1>1, <1>3, Zenon DEF BootstrapAdmin, Login, CreateUser, KeepsBank
<1>4. ASSUME NEW id \in AccountIds, ChangeAccount(id)
      PROVE  Ledger!Next
  <2>1. \/ Ledger!DeleteAccount(id)
        \/ Ledger!UpdateProfile(id) \/ Ledger!CloseAccount(id)
        \/ Ledger!ActivateAccount(id) \/ Ledger!DeactivateAccount(id)
    BY <1>4, Zenon DEF ChangeAccount, DeleteAccount
  <2> QED
    BY <2>1, Zenon DEF Ledger!Next
<1>5. ASSUME NEW f \in Files,
             Save(f) \/ SaveFails(f) \/ Load(f) \/ LoadFails(f) \/ DieSaving(f)
      PROVE  Unmoved \/ BankIsReplaced
  <2>1. Save(f) \/ SaveFails(f) \/ LoadFails(f) => UNCHANGED bank
    BY Zenon DEF Save, SaveFails, LoadFails, OnlyRecorded
  <2> QED
    BY <1>1, <1>5, <2>1, LoadedBank, NewBank
<1>6. Command => Ledger!Next \/ Unmoved \/ BankIsReplaced
  <2> DEFINE Done == Ledger!Next \/ Unmoved \/ BankIsReplaced
  <2>1. ASSUME NEW u \in UserIds,
               \/ BootstrapAdmin(u) \/ Login(u)
               \/ \E role \in Identities!Roles, c \in Identities!OptionalCustomers :
                    CreateUser(u, role, c)
        PROVE  Done
    BY <1>3, <2>1, Zenon
  <2>2. ASSUME NEW c \in CustomerIds, CreateCustomer(c)
        PROVE  Done
    BY <1>1, <2>2, Zenon DEF CreateCustomer
  <2>3. ASSUME NEW id \in AccountIds, NEW amount \in Amounts,
               \/ \E owner \in Identities!OptionalCustomers : Create(id, owner, amount)
               \/ Deposit(id, amount) \/ Withdraw(id, amount) \/ MoveUnrecorded(id, amount)
               \/ \E to \in AccountIds : Transfer(id, to, amount)
        PROVE  Done
    BY <2>3, AccountCalls, Zenon
  <2>4. ASSUME NEW f \in Files,
               Save(f) \/ SaveFails(f) \/ Load(f) \/ LoadFails(f) \/ DieSaving(f)
        PROVE  Done
    BY <1>5, <2>4, Zenon
  <2>5. \A id \in AccountIds : ChangeAccount(id) => Done
    BY <1>4, Zenon
  <2>6. BootstrapFails \/ LoginFails \/ Logout \/ CreationFails \/ Export => Done
    BY <1>2, Zenon
  <2> HIDE DEF Done
  <2>7. Command => Done
    BY <2>1, <2>2, <2>3, <2>4, <2>5, <2>6, Zenon DEF Command
  <2> QED
    BY <2>7 DEF Done
<1>7. UNCHANGED vars => Unmoved
  BY <1>1 DEF vars, app
<1> QED
  BY <1>6, <1>7, NewBank, Zenon DEF Next, Unmoved

\* Whatever is typed, the bank changes by calls of the ledger alone, with ids and
\* amounts that it may be called with, or it is the bank of a new process or of a
\* file that was accepted as a whole, with the next id after those of the file.
THEOREM ClientCallsTheBank ==
    Spec => [][Ledger!Next \/ BankIsReplaced]_<<accounts, next_transaction_id>>
<1>1. IInv /\ [Next]_vars => [Ledger!Next \/ BankIsReplaced]_<<accounts, next_transaction_id>>
  BY BankCalls
<1> QED
  BY <1>1, ClientInvariant, PTL DEF Spec

LEMMA InitIdentities == Init => Identities!Init
<1> SUFFICES ASSUME Init
             PROVE  Identities!Init
  OBVIOUS
<1>1. /\ customers = {} /\ users = << >>
      /\ username_index = Identities!IndexOf(<< >>)
  BY DEF Init, IsBuiltFrom, NewState
<1>2. Identities!IndexOf(<< >>) = [u \in {} |-> 0]
  BY DEF Identities!IndexOf
<1> QED
  BY <1>1, <1>2 DEF Identities!Init

LEMMA IdentitiesAreCalled ==
    ASSUME IInv, [Next]_vars
    PROVE  [Identities!Next]_identities
<1>1. CASE Works
  <2>1. IdentitiesStep
    BY <1>1 DEF Works
  <2>2. \/ UNCHANGED identities
        \/ Identities!Create
    BY <2>1, Zenon DEF IdentitiesStep, Identities!Create
  <2> QED
    BY <2>2 DEF Identities!Next
<1>2. CASE Rebuilds
  <2>1. PICK s : IsSnapshot(s) /\ Accepts(s) /\ BuildFrom(s)
    BY <1>2 DEF Rebuilds
  <2>2. Identities!FromRecords(s.customers, s.users)
    BY <2>1 DEF Accepts, BuildFrom, Identities!FromRecords
  <2>3. /\ s.customers \in SUBSET CustomerIds
        /\ DOMAIN s.users \in SUBSET UserIds
        /\ s.users \in [DOMAIN s.users -> Identities!User]
    BY <2>1 DEF IsSnapshot
  <2> QED
    BY <2>2, <2>3, Zenon DEF Identities!Next
<1> QED
  BY <1>1, <1>2, EveryStep

\* The client is an identity store: through commands, crashes and loads its
\* identities do what Identity says, so that what holds of every identity store
\* holds of the client's.
THEOREM ClientIsAnIdentityStore == Spec => Identities!Spec
<1>1. IInv /\ [Next]_vars => [Identities!Next]_identities
  BY IdentitiesAreCalled
<1>2. Identities!Init /\ [][Identities!Next]_<<customers, users, username_index>>
        => Identities!Spec
  BY DEF Identities!Spec, Identities!vars
<1> QED
  BY <1>1, <1>2, ClientInvariant, InitIdentities, PTL DEF Spec, identities

\* A SQLite file that could be loaded.
SqliteFilesLast ==
    [][\A f \in Files \ JsonFiles :
         MayBeLoaded(file[f]) => file'[f] \in {s \in {file[f], Snapshot} : Accepts(s)}]_vars

LEMMA SqliteFilesStay ==
    ASSUME IInv, [Next]_vars, NEW f \in Files \ JsonFiles, MayBeLoaded(file[f])
    PROVE  file'[f] \in {s \in {file[f], Snapshot} : Accepts(s)}
<1>1. FilesStep
  BY EveryStep DEF Works, Rebuilds
<1>2. Accepts(file[f]) /\ Accepts(Snapshot)
  BY SnapshotIsSound DEF IInv, MayBeLoaded
<1>3. DOMAIN file = Files
  BY DEF IInv, FilesOK
<1>4. file'[f] \in {file[f], Snapshot}
  <2>1. ASSUME NEW g \in Files, NEW s, file' = [file EXCEPT ![g] = s]
        PROVE  file'[f] = IF f = g THEN s ELSE file[f]
    BY <1>3, <2>1
  <2>2. ASSUME NEW g \in JsonFiles, file' = [file EXCEPT ![g] = Partial]
        PROVE  file'[f] = file[f]
    <3>1. g \in Files /\ f # g
      BY DEF Files
    <3> QED
      BY <2>1, <2>2, <3>1
  <2>3. ASSUME NEW g \in Files, file' = [file EXCEPT ![g] = Snapshot]
        PROVE  file'[f] \in {file[f], Snapshot}
    <3>1. PICK s : s = Snapshot
      OBVIOUS
    <3>2. file'[f] = IF f = g THEN s ELSE file[f]
      BY <2>1, <2>3, <3>1
    <3> QED
      BY <3>1, <3>2
  <2> QED
    BY <1>1, <2>2, <2>3, Zenon DEF FilesStep
<1>5. PICK t : t = file'[f]
  OBVIOUS
<1> QED
  BY <1>2, <1>4, Zenon

\* What SavesLast says holds of the SQLite files, and more: once such a file can
\* be loaded it can be loaded for good, and what it holds is then what it held or
\* the state of a save, whatever fails or dies in between.
THEOREM SqliteSavesLast == Spec => SqliteFilesLast
<1>1. IInv /\ [Next]_vars =>
        [\A f \in Files \ JsonFiles :
           MayBeLoaded(file[f]) => file'[f] \in {s \in {file[f], Snapshot} : Accepts(s)}]_vars
  BY SqliteFilesStay
<1> QED
  BY <1>1, ClientInvariant, PTL DEF Spec, SqliteFilesLast

-----------------------------------------------------------------------------
(* The order of the histories, which a SQLite file restores by the ids.    *)

\* Every history of these accounts has increasing ids.
InOrder(acs) ==
    \A a \in DOMAIN acs : \A i, j \in DOMAIN acs[a].transactions :
      i < j => acs[a].transactions[i].id < acs[a].transactions[j].id

\* In memory and in every file that is not broken.
HistoriesInOrder ==
    InOrder(accounts) /\ \A f \in Files : IsText(file[f]) => InOrder(file[f].accounts)

GivenInOrder ==
    \A given \in GivenFiles : \A f \in Files : IsText(given[f]) => InOrder(given[f].accounts)

LEMMA WritesKeepOrder ==
    ASSUME LedgerOK, HistoriesOK, InOrder(accounts), NEW entry, Writes(entry)
    PROVE  InOrder(accounts')
<1> SUFFICES ASSUME NEW a \in DOMAIN accounts',
                    NEW i \in DOMAIN accounts'[a].transactions,
                    NEW j \in DOMAIN accounts'[a].transactions, i < j
             PROVE  accounts'[a].transactions[i].id < accounts'[a].transactions[j].id
  BY DEF InOrder
<1> DEFINE h == History(a)
           g == accounts'[a].transactions
           old(k) == a \in DOMAIN accounts /\ k \in DOMAIN h /\ g[k] = h[k]
           new(k) == a \in DOMAIN entry /\ k = Len(h) + 1 /\ g[k] = entry[a]
<1>1. h \in Seq(Ledger!Transaction) /\ Len(h) \in Nat /\ \A k \in DOMAIN g : old(k) \/ new(k)
  BY GrownPlaces
<1>2. a \in DOMAIN accounts => h = accounts[a].transactions
  BY DEF History
<1>3. next_transaction_id \in Nat
  BY LedgerAssumption DEF LedgerOK
<1>4. ASSUME NEW k, old(k)
      PROVE  g[k].id \in Nat /\ g[k].id < next_transaction_id
  <2>1. g[k].id \in IdsOf(accounts)
    BY <1>2, <1>4 DEF IdsOf
  <2>2. h[k] \in Ledger!Transaction
    <3> HIDE DEF h, g
    <3> QED
      BY <1>1, <1>4
  <2> QED
    BY <1>4, <2>1, <2>2 DEF HistoriesOK, Ledger!Transaction
<1>5. ASSUME NEW k, new(k)
      PROVE  g[k].id \in Nat /\ next_transaction_id <= g[k].id
  BY <1>5 DEF Writes, Ledger!Transaction
<1>6. DOMAIN h = 1..Len(h)
  <2> HIDE DEF h
  <2> QED
    BY <1>1
<1>7. CASE old(i) /\ old(j)
  BY <1>2, <1>7 DEF InOrder
<1>8. CASE old(i) /\ new(j)
  <2>1. /\ g[i].id \in Nat /\ g[i].id < next_transaction_id
        /\ g[j].id \in Nat /\ next_transaction_id <= g[j].id
    BY <1>4, <1>5, <1>8
  <2> HIDE DEF g
  <2>2. g[i].id < g[j].id
    BY <1>3, <2>1
  <2> QED
    BY <2>2 DEF g
<1>9. CASE new(i)
  <2>1. j \in 1..Len(h) \/ j = Len(h) + 1
    BY <1>1, <1>6
  <2>2. i = Len(h) + 1
    BY <1>9
  <2> HIDE DEF h
  <2> QED
    BY <1>1, <2>1, <2>2
<1> QED
  BY <1>1, <1>7, <1>8, <1>9

LEMMA OrderIsKept ==
    ASSUME IInv, HistoriesInOrder, [Next]_vars
    PROVE  HistoriesInOrder'
<1>1. InOrder(accounts')
  <2>1. CASE Works
    <3>1. PICK entry : Writes(entry)
      BY <2>1, Zenon DEF Works, Moves, LedgerStep
    <3> QED
      BY <3>1, WritesKeepOrder DEF IInv, AppOK, HistoriesInOrder
  <2>2. CASE Rebuilds
    <3>1. PICK s \in {NewState} \cup {file[f] : f \in {g \in Files : MayBeLoaded(file[g])}} :
            accounts' = s.accounts
      BY <2>2, Zenon DEF Rebuilds, BankIsReplaced
    <3>2. CASE s = NewState
      BY <3>1, <3>2 DEF NewState, InOrder
    <3>3. ASSUME NEW f \in Files, s = file[f], MayBeLoaded(file[f])
          PROVE  InOrder(accounts')
      BY <3>1, <3>3 DEF HistoriesInOrder, MayBeLoaded
    <3> QED
      BY <3>1, <3>2, <3>3
  <2> QED
    BY <2>1, <2>2, EveryStep
<1>2. FilesStep
  BY EveryStep DEF Works, Rebuilds
<1>3. DOMAIN file = Files /\ Snapshot.accounts = accounts
  BY DEF IInv, FilesOK, Snapshot
<1>4. ASSUME NEW f \in Files, IsText(file'[f])
      PROVE  InOrder(file'[f].accounts)
  <2>1. ASSUME NEW g \in Files, NEW s, file' = [file EXCEPT ![g] = s]
        PROVE  file'[f] = s \/ file'[f] = file[f]
    BY <1>3, <2>1
  <2>2. file'[f] \in {file[f], Snapshot, Partial}
    <3>1. JsonFiles \subseteq Files
      BY DEF Files
    <3> QED
      BY <1>2, <2>1, <3>1, Zenon DEF FilesStep
  <2>3. file'[f] # Partial
    BY <1>4 DEF IsText
  <2>4. CASE file'[f] = file[f]
    BY <1>4, <2>4 DEF HistoriesInOrder
  <2>5. CASE file'[f] = Snapshot
    BY <1>3, <2>5 DEF HistoriesInOrder
  <2> QED
    BY <2>2, <2>3, <2>4, <2>5
<1> QED
  BY <1>1, <1>4 DEF HistoriesInOrder

\* If the histories of the files that are there at the first start are in the
\* order of their ids, so are those of every state in memory and in a file: what
\* the client saves to SQLite is in the order that SQLite gives back, which is
\* what the loads of SqliteStore rely on.
THEOREM HistoriesStayInOrder ==
    ASSUME GivenInOrder
    PROVE  Spec => []HistoriesInOrder
<1>1. Init => HistoriesInOrder
  BY DEF Init, IsBuiltFrom, NewState, GivenInOrder, HistoriesInOrder, InOrder
<1>2. IInv /\ HistoriesInOrder /\ [Next]_vars => HistoriesInOrder'
  BY OrderIsKept
<1> QED
  BY <1>1, <1>2, ClientInvariant, PTL DEF Spec

=============================================================================
