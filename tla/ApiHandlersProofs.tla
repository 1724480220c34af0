------------------------- MODULE ApiHandlersProofs -------------------------
(***************************************************************************)
(* Theorems about ApiHandlers, for any accounts, users, requests and       *)
(* starting state.                                                         *)
(*                                                                         *)
(* Every handler either changes the identities for an admin, or has the    *)
(* ledger make at most one move; what it has done is audited once, for the *)
(* user of its request.  The lemmas show this handler by handler, and what *)
(* the handlers keep follows from it.                                      *)
(***************************************************************************)
EXTENDS ApiHandlers, FiniteSetTheorems, WellFoundedInduction, TLAPS

-----------------------------------------------------------------------------
(***************************************************************************)
(* Counting what is in a bag.  BagCardinality adds the numbers of copies   *)
(* recursively over the subsets of the domain; what it computes follows    *)
(* from its partial sums, one for every subset.                            *)
(***************************************************************************)

Picked(S) == CHOOSE e \in S : TRUE

\* The partial sums over the members of `sets`.
Sums(sets, f, sum) ==
    sum = [S \in sets |->
             LET elt == Picked(S) IN IF S = {} THEN 0 ELSE f[elt] + sum[S \ {elt}]]

Small(D, n) == {S \in SUBSET D : Cardinality(S) <= n}

\* A set of natural numbers that is not empty has a least member.
LEMMA LeastNatural ==
    ASSUME NEW T \in SUBSET Nat, T # {}
    PROVE  \E x \in T : \A y \in T : x <= y
<1> DEFINE Smaller == OpToRel(<, Nat)
<1>1. Smaller = {pair \in Nat \X Nat : pair[1] < pair[2]}
  BY DEF OpToRel
<1>2. IsWellFoundedOn(Smaller, Nat)
  BY NatLessThanWellFounded
<1> HIDE DEF Smaller
<1>3. PICK x \in T : \A y \in T : ~(<<y, x>> \in Smaller)
  BY <1>2, WFMin
<1>4. ASSUME NEW y \in T
      PROVE  x <= y
  <2>1. SUFFICES ASSUME y < x
                 PROVE  FALSE
    OBVIOUS
  <2>2. <<y, x>> \in Nat \X Nat /\ <<y, x>>[1] = y /\ <<y, x>>[2] = x
    OBVIOUS
  <2>3. <<y, x>> \in Smaller
    BY <1>1, <2>1, <2>2, Zenon
  <2> QED
    BY <1>3, <2>3
<1> QED
  BY <1>4

\* Every subset of a finite set is smaller by one without the element picked.
LEMMA PickedLeaves ==
    ASSUME NEW D, IsFiniteSet(D), NEW S \in SUBSET D, S # {}
    PROVE  /\ Picked(S) \in S /\ S \ {Picked(S)} \in SUBSET D
           /\ IsFiniteSet(S) /\ Cardinality(S) \in Nat \ {0}
           /\ Cardinality(S \ {Picked(S)}) = Cardinality(S) - 1
<1>1. Picked(S) \in S
  BY DEF Picked
<1>2. IsFiniteSet(S)
  BY FS_Subset
<1>3. Cardinality(S) \in Nat /\ Cardinality(S) # 0
  BY <1>2, FS_CardinalityType, FS_EmptySet
<1>4. Cardinality(S \ {Picked(S)}) = Cardinality(S) - 1
  BY <1>1, <1>2, FS_RemoveElement
<1> QED
  BY <1>1, <1>2, <1>3, <1>4

\* The partial sums exist: the least size without them would extend the size before.
LEMMA SmallSumsExist ==
    ASSUME NEW D, IsFiniteSet(D), NEW f, NEW n \in Nat
    PROVE  \E sum : Sums(Small(D, n), f, sum)
<1> DEFINE Has(m) == \E sum : Sums(Small(D, m), f, sum)
           T == {m \in Nat : ~Has(m)}
<1>1. SUFFICES ASSUME T # {}
               PROVE  FALSE
  OBVIOUS
<1>2. PICK m \in T : \A k \in T : m <= k
  <2>1. T \in SUBSET Nat
    OBVIOUS
  <2> HIDE DEF T
  <2> QED
    BY <1>1, <2>1, LeastNatural
<1>3. Has(0)
  <2>1. \A S \in Small(D, 0) : S = {}
    <3> SUFFICES ASSUME NEW S \in Small(D, 0), S # {}
                 PROVE  FALSE
      OBVIOUS
    <3>1. S \in SUBSET D /\ Cardinality(S) <= 0
      BY DEF Small
    <3>2. Cardinality(S) \in Nat \ {0}
      BY <3>1, PickedLeaves
    <3> QED
      BY <3>1, <3>2
  <2> DEFINE sum == [S \in Small(D, 0) |-> 0]
  <2>2. sum = [S \in Small(D, 0) |-> 0]
    OBVIOUS
  <2> HIDE DEF sum
  <2>3. sum = [S \in Small(D, 0) |->
                 IF S = {} THEN 0 ELSE f[Picked(S)] + sum[S \ {Picked(S)}]]
    BY <2>1, <2>2
  <2>4. Sums(Small(D, 0), f, sum)
    BY <2>3 DEF Sums
  <2> QED
    BY <2>4
<1>4. m \in Nat /\ m # 0 /\ m - 1 \in Nat
  BY <1>2, <1>3
<1>5. Has(m - 1)
  BY <1>2, <1>4
<1>6. PICK g : Sums(Small(D, m - 1), f, g)
  BY <1>5
<1> DEFINE sum == [S \in Small(D, m) |->
                     IF S = {} THEN 0 ELSE f[Picked(S)] + g[S \ {Picked(S)}]]
<1>7. ASSUME NEW S \in Small(D, m), S # {}
      PROVE  g[S \ {Picked(S)}] = sum[S \ {Picked(S)}]
  <2> DEFINE R == S \ {Picked(S)}
  <2>1. /\ S \in SUBSET D /\ R \in SUBSET D
        /\ Cardinality(S) \in Nat /\ Cardinality(S) <= m /\ Cardinality(R) = Cardinality(S) - 1
    BY <1>7, PickedLeaves DEF Small
  <2> HIDE DEF R
  <2>2. R \in Small(D, m - 1) /\ R \in Small(D, m)
    BY <1>4, <2>1 DEF Small
  <2>3. g[R] = IF R = {} THEN 0 ELSE f[Picked(R)] + g[R \ {Picked(R)}]
    BY <1>6, <2>2 DEF Sums
  <2>4. sum[R] = IF R = {} THEN 0 ELSE f[Picked(R)] + g[R \ {Picked(R)}]
    BY <2>2
  <2> QED
    BY <2>3, <2>4 DEF R
<1>8. sum = [S \in Small(D, m) |->
               IF S = {} THEN 0 ELSE f[Picked(S)] + sum[S \ {Picked(S)}]]
  <2>1. \A S \in Small(D, m) :
          sum[S] = IF S = {} THEN 0 ELSE f[Picked(S)] + sum[S \ {Picked(S)}]
    BY <1>7
  <2>2. DOMAIN sum = Small(D, m) /\ sum = [S \in Small(D, m) |-> sum[S]]
    OBVIOUS
  <2> HIDE DEF sum
  <2> QED
    BY <2>1, <2>2
<1> HIDE DEF sum
<1>9. Sums(Small(D, m), f, sum)
  BY <1>8 DEF Sums
<1> QED
  BY <1>2, <1>9

\* The cardinality of a bag is the sum over its domain.
LEMMA CardinalityIsSum ==
    ASSUME NEW B, IsFiniteSet(DOMAIN B)
    PROVE  \E sum : Sums(SUBSET DOMAIN B, B, sum) /\ BagCardinality(B) = sum[DOMAIN B]
<1> DEFINE D == DOMAIN B
           n == Cardinality(D)
<1>1. \E sum : Sums(SUBSET D, B, sum)
  <2>1. n \in Nat
    BY FS_CardinalityType
  <2>2. \A S \in SUBSET D : Cardinality(S) <= n
    BY FS_Subset
  <2>3. Small(D, n) = SUBSET D
    BY <2>2, Zenon DEF Small
  <2> HIDE DEF n, D
  <2>4. \E sum : Sums(Small(D, n), B, sum)
    BY <2>1, SmallSumsExist DEF D
  <2> QED
    BY <2>3, <2>4
<1> DEFINE sum == CHOOSE g : Sums(SUBSET D, B, g)
<1>2. Sums(SUBSET D, B, sum)
  BY <1>1, Zenon
<1>3. BagCardinality(B) = sum[D]
  BY Zenon DEF BagCardinality, Sums, Picked
<1> QED
  BY <1>2, <1>3

\* What remains of the sum when one element is taken out.
Peels(f, sum, S) == sum[S] \in Nat /\ \A e \in S : sum[S] = f[e] + sum[S \ {e}]
Same(f, g, R) == \A x \in R : f[x] = g[x]

\* A part of a bag has the sum that the bag has for it.
LEMMA SumsAgree ==
    ASSUME NEW D, IsFiniteSet(D), NEW f, NEW t, Sums(SUBSET D, f, t),
           NEW R \in SUBSET D, NEW g, Same(f, g, R), NEW u, Sums(SUBSET R, g, u)
    PROVE  Same(t, u, {R})
<1> DEFINE T == {Cardinality(S) : S \in {Q \in SUBSET R : t[Q] # u[Q]}}
<1>1. ASSUME T # {}
      PROVE  FALSE
  <2>1. T \in SUBSET Nat
    <3>1. \A Q \in SUBSET R : Cardinality(Q) \in Nat
      BY FS_Subset, FS_CardinalityType
    <3> QED
      BY <3>1
  <2>2. PICK m \in T : \A k \in T : m <= k
    <3> HIDE DEF T
    <3> QED
      BY <1>1, <2>1, LeastNatural
  <2>3. PICK S \in SUBSET R : t[S] # u[S] /\ m = Cardinality(S)
    BY <2>2
  <2>4. S # {}
    BY <2>3 DEF Sums
  <2> DEFINE Q == S \ {Picked(S)}
  <2>5. /\ Picked(S) \in R /\ Q \in SUBSET R
        /\ Cardinality(S) \in Nat /\ Cardinality(Q) = Cardinality(S) - 1
    BY <2>4, PickedLeaves
  <2>6. t[S] = f[Picked(S)] + t[Q] /\ u[S] = g[Picked(S)] + u[Q]
    BY <2>4 DEF Sums
  <2>7. Cardinality(Q) \in T
    <3>1. Q \in SUBSET R /\ t[Q] # u[Q]
      BY <2>3, <2>5, <2>6 DEF Same
    <3> QED
      BY <3>1
  <2> HIDE DEF T, Q
  <2> QED
    BY <2>2, <2>3, <2>5, <2>7
<1> QED
  BY <1>1 DEF Same

\* Any element may be taken out of the sum, not only the one that is picked.
LEMMA SumsPeel ==
    ASSUME NEW D, IsFiniteSet(D), NEW f \in [D -> Nat], NEW t, Sums(SUBSET D, f, t)
    PROVE  \A S \in SUBSET D : Peels(f, t, S)
<1> DEFINE Good(S) == t[S] \in Nat /\ \A e \in S : t[S] = f[e] + t[S \ {e}]
           T == {Cardinality(S) : S \in {Q \in SUBSET D : ~Good(Q)}}
<1>1. ASSUME T # {}
      PROVE  FALSE
  <2>1. T \in SUBSET Nat
    <3>1. \A Q \in SUBSET D : Cardinality(Q) \in Nat
      BY FS_Subset, FS_CardinalityType
    <3> HIDE DEF Good
    <3> QED
      BY <3>1
  <2>2. PICK m \in T : \A k \in T : m <= k
    <3> HIDE DEF T
    <3> QED
      BY <1>1, <2>1, LeastNatural
  <2>3. PICK S \in SUBSET D : ~Good(S) /\ m = Cardinality(S)
    BY <2>2
  <2>4. \A Q \in SUBSET S : Q # S => Good(Q)
    <3> SUFFICES ASSUME NEW Q \in SUBSET S, Q # S, ~Good(Q)
                 PROVE  FALSE
      OBVIOUS
    <3>1. Cardinality(Q) \in T
      OBVIOUS
    <3>2. IsFiniteSet(S)
      BY FS_Subset
    <3>3. /\ Cardinality(Q) \in Nat /\ Cardinality(S) \in Nat
          /\ Cardinality(Q) < Cardinality(S)
      BY <3>2, FS_Subset, FS_CardinalityType
    <3> HIDE DEF T, Good
    <3> QED
      BY <2>2, <2>3, <3>1, <3>3
  <2> HIDE DEF T
  <2>5. t[{}] = 0
    BY DEF Sums
  <2>6. S # {}
    <3>1. Good({})
      BY <2>5
    <3> HIDE DEF Good
    <3> QED
      BY <2>3, <3>1
  <2> DEFINE p == Picked(S)
  <2>7. p \in S /\ p \in D /\ f[p] \in Nat
    BY <2>6, PickedLeaves
  <2>8. t[S] = f[p] + t[S \ {p}]
    BY <2>6 DEF Sums
  <2> HIDE DEF p
  <2>9. Good(S \ {p})
    BY <2>4, <2>7
  <2>10. ASSUME NEW e \in S, e # p
         PROVE  t[S] = f[e] + t[S \ {e}]
    <3> DEFINE Q == S \ {e, p}
    <3>1. /\ (S \ {p}) \ {e} = Q /\ (S \ {e}) \ {p} = Q
          /\ e \in S \ {p} /\ p \in S \ {e} /\ S \ {e} # S /\ Q # S
      BY <2>7, <2>10
    <3>2. t[S \ {p}] = f[e] + t[Q]
      BY <2>9, <3>1
    <3>3. Good(S \ {e}) /\ t[Q] \in Nat
      BY <2>4, <3>1
    <3>4. t[S \ {e}] = f[p] + t[Q]
      BY <3>1, <3>3
    <3>5. f[e] \in Nat
      OBVIOUS
    <3> HIDE DEF Q
    <3> QED
      BY <2>7, <2>8, <3>2, <3>3, <3>4, <3>5
  <2>11. t[S] \in Nat
    BY <2>7, <2>8, <2>9
  <2> QED
    BY <2>3, <2>8, <2>10, <2>11
<1> QED
  BY <1>1 DEF Peels

Counting(D, B) == B \in [D -> Nat]

\* A bag has as many entries as its copies of one of them and all the others.
LEMMA BagPeel ==
    ASSUME NEW D, IsFiniteSet(D), NEW B, Counting(D, B), NEW e \in D
    PROVE  /\ BagCardinality(B) \in Nat
           /\ BagCardinality([x \in D \ {e} |-> B[x]]) \in Nat
           /\ BagCardinality(B) = B[e] + BagCardinality([x \in D \ {e} |-> B[x]])
<1> DEFINE R == D \ {e}
           C == [x \in R |-> B[x]]
<1>1. DOMAIN B = D /\ DOMAIN C = R /\ IsFiniteSet(R) /\ R \in SUBSET D
  BY FS_Subset DEF Counting
<1>2. PICK t : Sums(SUBSET D, B, t) /\ BagCardinality(B) = t[D]
  BY <1>1, CardinalityIsSum
<1>3. Same(B, C, R)
  BY DEF Same
<1> HIDE DEF C, R
<1>4. PICK u : Sums(SUBSET R, C, u) /\ BagCardinality(C) = u[R]
  BY <1>1, CardinalityIsSum
<1>5. t[R] = u[R]
  <2>1. Same(t, u, {R})
    BY <1>1, <1>2, <1>3, <1>4, SumsAgree
  <2> QED
    BY <2>1 DEF Same
<1>6. \A S \in SUBSET D : Peels(B, t, S)
  BY <1>2, SumsPeel DEF Counting
<1>7. t[R] \in Nat /\ t[D] \in Nat /\ t[D] = B[e] + t[R]
  <2>1. D \in SUBSET D
    OBVIOUS
  <2> QED
    BY <1>1, <1>6, <2>1 DEF R, Peels
<1> QED
  BY <1>2, <1>4, <1>5, <1>7 DEF C, R

IsALog(B) == IsABag(B) /\ IsFiniteSet(DOMAIN B)

CountIn(B, Q) == BagCardinality([x \in DOMAIN B \cap Q |-> B[x]])

OneMore(B, C, e, Q) ==
    CountIn(B, Q) \in Nat /\ CountIn(C, Q) = CountIn(B, Q) + IF e \in Q THEN 1 ELSE 0

LEMMA BagNat ==
    ASSUME NEW D, IsFiniteSet(D), NEW B, Counting(D, B)
    PROVE  BagCardinality(B) \in Nat
<1>1. DOMAIN B = D /\ D \in SUBSET D
  BY DEF Counting
<1>2. PICK t : Sums(SUBSET D, B, t) /\ BagCardinality(B) = t[D]
  BY <1>1, CardinalityIsSum
<1>3. \A S \in SUBSET D : Peels(B, t, S)
  BY <1>2, SumsPeel DEF Counting
<1> QED
  BY <1>1, <1>2, <1>3 DEF Peels

\* A log counts one entry more, wherever the new entry counts, and nothing less.
LEMMA LogGrows ==
    ASSUME NEW B, IsALog(B), NEW e, NEW Q,
           NEW C, C = B (+) SetToBag({e})
    PROVE  /\ IsALog(C)
           /\ DOMAIN C = DOMAIN B \cup {e}
           /\ OneMore(B, C, e, Q)
<1> DEFINE D == DOMAIN B \cap Q
           E == DOMAIN C \cap Q
           F == [x \in D |-> B[x]]
           G == [x \in E |-> C[x]]
<1>1. DOMAIN C = DOMAIN B \cup {e}
  BY DEF (+), SetToBag
<1>2. /\ \A x \in DOMAIN B : B[x] \in Nat /\ B[x] > 0
      /\ IsFiniteSet(DOMAIN B)
  BY DEF IsALog, IsABag
<1>3. /\ \A x \in DOMAIN B : x # e => C[x] = B[x]
      /\ e \in DOMAIN B => C[e] = B[e] + 1
      /\ e \notin DOMAIN B => C[e] = 1
  BY <1>2 DEF (+), SetToBag
<1>4. IsALog(C)
  <2>1. \A x \in DOMAIN C : C[x] \in Nat /\ C[x] > 0
    BY <1>1, <1>2, <1>3
  <2>2. C = [x \in DOMAIN C |-> C[x]]
    BY DEF (+)
  <2>3. IsABag(C)
    BY <2>1, <2>2 DEF IsABag
  <2>4. IsFiniteSet(DOMAIN C)
    BY <1>1, <1>2, FS_AddElement
  <2> QED
    BY <2>3, <2>4 DEF IsALog
<1>5. /\ IsFiniteSet(D) /\ Counting(D, F)
      /\ IsFiniteSet(E) /\ Counting(E, G)
  <2>1. IsFiniteSet(D) /\ IsFiniteSet(E)
    BY <1>4, FS_Subset DEF IsALog
  <2>2. Counting(D, F)
    BY <1>2 DEF Counting
  <2>3. Counting(E, G)
    BY <1>4 DEF Counting, IsALog, IsABag
  <2> QED
    BY <2>1, <2>2, <2>3
<1>6. CountIn(B, Q) = BagCardinality(F) /\ CountIn(C, Q) = BagCardinality(G)
  BY Zenon DEF CountIn
<1>7. BagCardinality(F) \in Nat /\ BagCardinality(G) \in Nat
  <2> HIDE DEF D, E, F, G
  <2> QED
    BY <1>5, BagNat
<1>8. ASSUME e \notin Q
      PROVE  BagCardinality(G) = BagCardinality(F)
  <2>1. D = E
    BY <1>1, <1>8
  <2>2. \A x \in D : C[x] = B[x]
    BY <1>3, <1>8
  <2>3. F = G
    BY <2>1, <2>2
  <2> QED
    BY <2>3
<1>9. ASSUME e \in Q
      PROVE  BagCardinality(G) = BagCardinality(F) + 1
  <2> DEFINE H == [x \in E \ {e} |-> G[x]]
  <2>1. e \in E /\ G[e] = C[e]
    BY <1>1, <1>9
  <2>2. /\ BagCardinality(H) \in Nat
        /\ BagCardinality(G) = G[e] + BagCardinality(H)
    <3> HIDE DEF E, G
    <3> QED
      BY <1>5, <2>1, BagPeel
  <2>3. CASE e \in DOMAIN B
    <3> DEFINE I == [x \in D \ {e} |-> F[x]]
    <3>1. e \in D /\ F[e] = B[e]
      BY <1>9, <2>3
    <3>2. /\ BagCardinality(I) \in Nat
          /\ BagCardinality(F) = F[e] + BagCardinality(I)
      <4> HIDE DEF D, F
      <4> QED
        BY <1>5, <3>1, BagPeel
    <3>3. H = I
      <4>1. D = E
        BY <1>1, <2>3
      <4>2. \A x \in D \ {e} : G[x] = F[x]
        BY <1>3, <4>1
      <4> HIDE DEF D, E, F, G
      <4> QED
        BY <4>1, <4>2
    <3>4. G[e] = F[e] + 1 /\ F[e] \in Nat
      BY <1>2, <1>3, <2>1, <2>3, <3>1
    <3> HIDE DEF F, G, H, I
    <3> QED
      BY <2>2, <3>2, <3>3, <3>4
  <2>4. CASE e \notin DOMAIN B
    <3>1. E \ {e} = D
      BY <1>1, <1>9, <2>4
    <3>2. \A x \in D : G[x] = B[x]
      BY <1>1, <1>3, <2>4
    <3>3. H = F
      BY <3>1, <3>2
    <3>4. G[e] = 1
      BY <1>3, <2>1, <2>4
    <3> HIDE DEF F, G, H
    <3> QED
      BY <1>7, <2>2, <3>3, <3>4
  <2> QED
    BY <2>3, <2>4
<1> HIDE DEF F, G
<1> QED
  BY <1>1, <1>4, <1>6, <1>7, <1>8, <1>9 DEF OneMore

\* What a log counts everywhere is its cardinality.
LEMMA CountAll ==
    ASSUME NEW B, IsALog(B), NEW Q, DOMAIN B \subseteq Q
    PROVE  CountIn(B, Q) = BagCardinality(B) /\ BagCardinality(B) \in Nat
<1>1. DOMAIN B \cap Q = DOMAIN B
  OBVIOUS
<1>2. B = [x \in DOMAIN B |-> B[x]]
  BY DEF IsALog, IsABag
<1>3. CountIn(B, Q) = BagCardinality(B)
  BY <1>1, <1>2 DEF CountIn
<1>4. Counting(DOMAIN B, B) /\ IsFiniteSet(DOMAIN B)
  BY DEF Counting, IsALog, IsABag
<1>5. BagCardinality(B) \in Nat
  BY <1>4, BagNat
<1> QED
  BY <1>3, <1>5

-----------------------------------------------------------------------------
(* The ledger: what every operation leaves an account with, and what it    *)
(* writes into the histories.                                              *)

Sound(account) ==
    /\ account \in Ledger!Account
    /\ account.balance \in 0..MaxCents
    /\ account.loan_balance \in 0..MaxCents

LedgerOK ==
    /\ \A a \in DOMAIN accounts : Sound(accounts[a])
    /\ next_transaction_id \in 1..MaxTransactionId

History(id) == IF id \in DOMAIN accounts THEN accounts[id].transactions ELSE << >>

\* No history has changed.
Quiet ==
    /\ DOMAIN accounts' = DOMAIN accounts
    /\ \A a \in DOMAIN accounts : accounts'[a].transactions = accounts[a].transactions

Extends(g, h, kind) == \E t \in Ledger!Transaction : t.kind = kind /\ g = Append(h, t)

\* One history has a transaction of the kind more, and the others at most what a
\* transfer adds to the account that receives.
Moves(id, kind) ==
    /\ DOMAIN accounts' = DOMAIN accounts \cup {id}
    /\ Extends(accounts'[id].transactions, History(id), kind)
    /\ \A a \in DOMAIN accounts \ {id} :
         \/ accounts'[a].transactions = accounts[a].transactions
         \/ Extends(accounts'[a].transactions, accounts[a].transactions, "TransferIn")

LEMMA RecordedSound ==
    ASSUME NEW account, Sound(account), NEW id \in Nat, NEW kind \in Ledger!Kinds,
           NEW amount \in Int
    PROVE  /\ Sound(Ledger!Recorded(account, id, kind, amount))
           /\ Extends(Ledger!Recorded(account, id, kind, amount).transactions,
                      account.transactions, kind)
<1> DEFINE t == [id |-> id, kind |-> kind, amount |-> amount]
<1>1. t \in Ledger!Transaction /\ t.kind = kind
  BY DEF Ledger!Transaction
<1>2. Append(account.transactions, t) \in Seq(Ledger!Transaction)
  BY <1>1 DEF Ledger!Account, Sound
<1> HIDE DEF t
<1>3. Ledger!Recorded(account, id, kind, amount)
        = [account EXCEPT !.transactions = Append(account.transactions, t)]
  BY DEF Ledger!Recorded, t
<1>4. Sound(Ledger!Recorded(account, id, kind, amount))
  BY <1>2, <1>3 DEF Ledger!Account, Sound
<1>5. Ledger!Recorded(account, id, kind, amount).transactions = Append(account.transactions, t)
  BY <1>3 DEF Ledger!Account, Sound
<1> QED
  BY <1>1, <1>4, <1>5 DEF Extends

LEMMA BalanceSound ==
    ASSUME LedgerOK, NEW id \in DOMAIN accounts, NEW balance \in 0..MaxCents
    PROVE  /\ Sound(Ledger!WithBalance(id, balance))
           /\ Ledger!WithBalance(id, balance).transactions = accounts[id].transactions
<1>1. Sound(accounts[id]) /\ balance \in Int
  BY LedgerAssumption DEF LedgerOK
<1> QED
  BY <1>1 DEF Sound, Ledger!WithBalance, Ledger!Account

LEMMA LoanSound ==
    ASSUME LedgerOK, NEW id \in DOMAIN accounts,
           NEW balance \in 0..MaxCents, NEW loan \in 0..MaxCents
    PROVE  LET account == [Ledger!WithBalance(id, balance) EXCEPT !.loan_balance = loan]
           IN  Sound(account) /\ account.transactions = accounts[id].transactions
<1>1. Sound(accounts[id]) /\ balance \in Int /\ loan \in Int
  BY LedgerAssumption DEF LedgerOK
<1> QED
  BY <1>1 DEF Sound, Ledger!WithBalance, Ledger!Account

LEMMA PostStep ==
    ASSUME LedgerOK, NEW id \in DOMAIN accounts, NEW account, Sound(account),
           account.transactions = accounts[id].transactions,
           NEW kind \in Ledger!Kinds, NEW amount \in Int,
           Ledger!Post(id, account, kind, amount)
    PROVE  LedgerOK' /\ Moves(id, kind)
<1> DEFINE written == Ledger!Recorded(account, next_transaction_id, kind, amount)
<1>1. next_transaction_id \in Nat
  BY DEF LedgerOK
<1>2. /\ Sound(written)
      /\ Extends(written.transactions, account.transactions, kind)
  BY <1>1, RecordedSound
<1>3. accounts' = [accounts EXCEPT ![id] = written]
  BY DEF Ledger!Post
<1> HIDE DEF written
<1>4. next_transaction_id' \in 1..MaxTransactionId
  BY LedgerAssumption DEF LedgerOK, Ledger!Post, Ledger!IdsLeft
<1>5. /\ DOMAIN accounts' = DOMAIN accounts
      /\ accounts'[id] = written
      /\ \A a \in DOMAIN accounts \ {id} : accounts'[a] = accounts[a]
  BY <1>3
<1>6. LedgerOK'
  <2>1. \A a \in DOMAIN accounts : Sound(accounts'[a])
    BY <1>2, <1>5, Zenon DEF LedgerOK
  <2>2. \A a \in DOMAIN accounts' : Sound(accounts'[a])
    BY <1>5, <2>1
  <2> QED
    BY <1>4, <2>2 DEF LedgerOK
<1>7. Moves(id, kind)
  BY <1>2, <1>5 DEF Moves, History
<1> QED
  BY <1>6, <1>7

LEMMA ForfeitStep ==
    ASSUME LedgerOK, Ledger!Forfeit
    PROVE  LedgerOK' /\ Quiet
<1>1. next_transaction_id' \in 1..MaxTransactionId
  BY LedgerAssumption DEF LedgerOK, Ledger!Forfeit, Ledger!IdsLeft
<1> QED
  BY <1>1 DEF LedgerOK, Quiet, Ledger!Forfeit

LEMMA OpenStep ==
    ASSUME LedgerOK, NEW id \in AccountIds, NEW opening \in Amounts,
           Ledger!CreateAccount(id, opening)
    PROVE  LedgerOK' /\ Moves(id, "AccountCreated") /\ id \notin DOMAIN accounts
<1> DEFINE first == [id |-> next_transaction_id, kind |-> "AccountCreated",
                     amount |-> opening]
           opened == [status |-> "Active", balance |-> opening, loan_balance |-> 0,
                      transactions |-> <<first>>]
<1>1. next_transaction_id \in Nat /\ opening \in Nat /\ opening <= MaxCents
  BY LedgerAssumption DEF LedgerOK, Ledger!CreateAccount
<1>2. first \in Ledger!Transaction /\ first.kind = "AccountCreated"
  BY <1>1 DEF Ledger!Transaction, Ledger!Kinds, Ledger!Credits
<1>3. /\ DOMAIN accounts' = DOMAIN accounts \cup {id}
      /\ accounts'[id] = opened
      /\ \A a \in DOMAIN accounts : accounts'[a] = accounts[a]
      /\ id \notin DOMAIN accounts
  BY DEF Ledger!CreateAccount, Ledger!Exists
<1> HIDE DEF first
<1>4. Sound(opened)
  BY <1>1, <1>2, LedgerAssumption DEF Sound, Ledger!Account, Ledger!Statuses
<1>5. Extends(opened.transactions, << >>, "AccountCreated")
  <2>1. opened.transactions = Append(<< >>, first)
    OBVIOUS
  <2> QED
    BY <1>2, <2>1 DEF Extends
<1> HIDE DEF opened
<1>6. next_transaction_id' \in 1..MaxTransactionId
  BY LedgerAssumption DEF LedgerOK, Ledger!CreateAccount, Ledger!IdsLeft
<1>7. LedgerOK'
  <2>1. \A a \in DOMAIN accounts' : Sound(accounts'[a])
    BY <1>3, <1>4, Zenon DEF LedgerOK
  <2> QED
    BY <1>6, <2>1 DEF LedgerOK
<1>8. Moves(id, "AccountCreated")
  BY <1>3, <1>5 DEF Moves, History
<1> QED
  BY <1>3, <1>7, <1>8

LEMMA TakeStep ==
    ASSUME LedgerOK, NEW id, NEW amount \in Amounts, NEW kind \in Ledger!Kinds,
           Ledger!Take(id, amount, kind)
    PROVE  LedgerOK' /\ Moves(id, kind)
<1> DEFINE account == Ledger!WithBalance(id, accounts[id].balance - amount)
<1>1. id \in DOMAIN accounts /\ amount \in Int
  BY LedgerAssumption DEF Ledger!Take, Ledger!CanTransact, Ledger!Exists
<1>2. accounts[id].balance - amount \in 0..MaxCents
  BY <1>1, LedgerAssumption DEF LedgerOK, Sound, Ledger!Take, Ledger!HasFunds
<1>3. Sound(account) /\ account.transactions = accounts[id].transactions
  BY <1>1, <1>2, BalanceSound
<1>4. Ledger!Post(id, account, kind, amount)
  BY DEF Ledger!Take
<1> HIDE DEF account
<1> QED
  BY <1>1, <1>3, <1>4, PostStep

LEMMA DepositStep ==
    ASSUME LedgerOK, NEW id, NEW amount \in Amounts, Ledger!Deposit(id, amount)
    PROVE  LedgerOK' /\ (Quiet \/ Moves(id, "Deposit"))
<1> DEFINE balance == accounts[id].balance + amount
<1>1. id \in DOMAIN accounts /\ amount \in Int /\ amount > 0
  BY LedgerAssumption DEF Ledger!Deposit, Ledger!CanTransact, Ledger!Exists
<1>2. CASE Ledger!Forfeit
  BY <1>2, ForfeitStep
<1>3. CASE /\ balance <= MaxCents
           /\ Ledger!Post(id, Ledger!WithBalance(id, balance), "Deposit", amount)
  <2>1. balance \in 0..MaxCents
    BY <1>1, <1>3, LedgerAssumption DEF LedgerOK, Sound
  <2>2. /\ Sound(Ledger!WithBalance(id, balance))
        /\ Ledger!WithBalance(id, balance).transactions = accounts[id].transactions
    BY <1>1, <2>1, BalanceSound
  <2>3. "Deposit" \in Ledger!Kinds
    BY DEF Ledger!Kinds, Ledger!Credits
  <2> QED
    BY <1>1, <1>3, <2>2, <2>3, PostStep
<1> QED
  BY <1>2, <1>3 DEF Ledger!Deposit

LEMMA RequestLoanStep ==
    ASSUME LedgerOK, NEW id, NEW amount \in Amounts, Ledger!RequestLoan(id, amount)
    PROVE  LedgerOK' /\ (Quiet \/ Moves(id, "LoanRequested"))
<1> DEFINE balance == accounts[id].balance + amount
           loan    == accounts[id].loan_balance + amount
           account == [Ledger!WithBalance(id, balance) EXCEPT !.loan_balance = loan]
<1>1. id \in DOMAIN accounts /\ amount \in Int /\ amount > 0
  BY LedgerAssumption DEF Ledger!RequestLoan, Ledger!CanTransact, Ledger!Exists
<1>2. balance \in Nat /\ loan \in Nat
  BY <1>1, LedgerAssumption DEF LedgerOK, Sound
<1>3. CASE Ledger!Forfeit
  BY <1>3, ForfeitStep
<1>4. CASE /\ balance <= MaxCents /\ loan <= MaxCents
           /\ Ledger!Post(id, account, "LoanRequested", amount)
  <2>1. balance \in 0..MaxCents /\ loan \in 0..MaxCents
    BY <1>2, <1>4, LedgerAssumption
  <2>2. Sound(account) /\ account.transactions = accounts[id].transactions
    <3> HIDE DEF balance, loan
    <3> QED
      BY <1>1, <2>1, LoanSound
  <2>3. "LoanRequested" \in Ledger!Kinds
    BY DEF Ledger!Kinds, Ledger!Credits
  <2> HIDE DEF account
  <2> QED
    BY <1>1, <1>4, <2>2, <2>3, PostStep
<1>5. CASE /\ balance <= MaxCents
           /\ Ledger!IdsLeft(1)
           /\ accounts' = [accounts EXCEPT ![id] = Ledger!WithBalance(id, balance)]
           /\ next_transaction_id' = next_transaction_id + 1
  <2>1. balance \in 0..MaxCents
    BY <1>2, <1>5, LedgerAssumption
  <2>2. /\ Sound(Ledger!WithBalance(id, balance))
        /\ Ledger!WithBalance(id, balance).transactions = accounts[id].transactions
    BY <1>1, <2>1, BalanceSound
  <2>3. next_transaction_id' \in 1..MaxTransactionId
    BY <1>5, LedgerAssumption DEF LedgerOK, Ledger!IdsLeft
  <2>4. /\ DOMAIN accounts' = DOMAIN accounts
        /\ accounts'[id] = Ledger!WithBalance(id, balance)
        /\ \A a \in DOMAIN accounts \ {id} : accounts'[a] = accounts[a]
    BY <1>1, <1>5
  <2>5. \A a \in DOMAIN accounts' : Sound(accounts'[a])
    BY <2>2, <2>4, Zenon DEF LedgerOK
  <2>6. Quiet
    <3>1. \A a \in DOMAIN accounts : accounts'[a].transactions = accounts[a].transactions
      BY <2>2, <2>4, Zenon
    <3> QED
      BY <2>4, <3>1 DEF Quiet
  <2> QED
    BY <2>3, <2>5, <2>6 DEF LedgerOK
<1> QED
  BY <1>3, <1>4, <1>5 DEF Ledger!RequestLoan

LEMMA PayLoanStep ==
    ASSUME LedgerOK, NEW id, NEW amount \in Amounts, Ledger!PayLoan(id, amount)
    PROVE  LedgerOK' /\ Moves(id, "LoanPayment")
<1> DEFINE loan    == accounts[id].loan_balance
           payment == IF amount < loan THEN amount ELSE loan
           balance == accounts[id].balance - payment
           rest    == loan - payment
           account == [Ledger!WithBalance(id, balance) EXCEPT !.loan_balance = rest]
<1>1. id \in DOMAIN accounts /\ amount \in Int /\ amount > 0
  BY LedgerAssumption DEF Ledger!PayLoan, Ledger!CanTransact, Ledger!Exists
<1>2. payment \in Nat /\ balance \in 0..MaxCents /\ rest \in 0..MaxCents
  BY <1>1, LedgerAssumption DEF LedgerOK, Sound, Ledger!PayLoan, Ledger!HasFunds
<1>3. Sound(account) /\ account.transactions = accounts[id].transactions
  <2> HIDE DEF balance, rest
  <2> QED
    BY <1>1, <1>2, LoanSound
<1>4. Ledger!Post(id, account, "LoanPayment", payment)
  BY DEF Ledger!PayLoan
<1>5. "LoanPayment" \in Ledger!Kinds /\ payment \in Int
  BY <1>2 DEF Ledger!Kinds, Ledger!Debits
<1> HIDE DEF account, payment
<1> QED
  BY <1>1, <1>3, <1>4, <1>5, PostStep

LEMMA TransferStep ==
    ASSUME LedgerOK, NEW from, NEW to, NEW amount \in Amounts,
           Ledger!Transfer(from, to, amount)
    PROVE  LedgerOK' /\ (Quiet \/ Moves(from, "TransferOut"))
<1> DEFINE paid     == Ledger!WithBalance(from, accounts[from].balance - amount)
           received == Ledger!WithBalance(to, accounts[to].balance + amount)
           out      == Ledger!Recorded(paid, next_transaction_id, "TransferOut", amount)
           in       == Ledger!Recorded(received, next_transaction_id + 1, "TransferIn", amount)
<1>1. /\ from \in DOMAIN accounts /\ to \in DOMAIN accounts /\ from # to
      /\ amount \in Int /\ amount > 0
  BY LedgerAssumption DEF Ledger!Transfer, Ledger!CanTransact, Ledger!Exists
<1>2. CASE Ledger!Forfeit
  BY <1>2, ForfeitStep
<1>3. CASE /\ Ledger!IdsLeft(2)
           /\ accounts' = [accounts EXCEPT ![from] = out, ![to] = in]
           /\ next_transaction_id' = next_transaction_id + 2
  <2>1. /\ accounts[from].balance - amount \in 0..MaxCents
        /\ accounts[to].balance + amount \in 0..MaxCents
    BY <1>1, LedgerAssumption DEF LedgerOK, Sound, Ledger!Transfer, Ledger!HasFunds
  <2>2. /\ Sound(paid) /\ paid.transactions = accounts[from].transactions
        /\ Sound(received) /\ received.transactions = accounts[to].transactions
    BY <1>1, <2>1, BalanceSound
  <2>3. /\ next_transaction_id \in Nat /\ next_transaction_id + 1 \in Nat
        /\ "TransferOut" \in Ledger!Kinds /\ "TransferIn" \in Ledger!Kinds
    BY DEF LedgerOK, Ledger!Kinds, Ledger!Credits, Ledger!Debits
  <2>4. /\ Sound(out) /\ Extends(out.transactions, paid.transactions, "TransferOut")
        /\ Sound(in) /\ Extends(in.transactions, received.transactions, "TransferIn")
    <3> HIDE DEF paid, received
    <3> QED
      BY <1>1, <2>2, <2>3, RecordedSound
  <2> HIDE DEF paid, received, out, in
  <2>5. /\ DOMAIN accounts' = DOMAIN accounts
        /\ accounts'[from] = out /\ accounts'[to] = in
        /\ \A a \in DOMAIN accounts \ {from, to} : accounts'[a] = accounts[a]
    BY <1>1, <1>3
  <2>6. next_transaction_id' \in 1..MaxTransactionId
    BY <1>3, LedgerAssumption DEF LedgerOK, Ledger!IdsLeft
  <2>7. \A a \in DOMAIN accounts' : Sound(accounts'[a])
    BY <2>4, <2>5, Zenon DEF LedgerOK
  <2>8. Moves(from, "TransferOut")
    <3>1. Extends(accounts'[from].transactions, History(from), "TransferOut")
      BY <1>1, <2>2, <2>4, <2>5 DEF History
    <3>2. Extends(accounts'[to].transactions, accounts[to].transactions, "TransferIn")
      BY <2>2, <2>4, <2>5
    <3>3. DOMAIN accounts' = DOMAIN accounts \cup {from}
      BY <1>1, <2>5
    <3>4. \A a \in DOMAIN accounts \ {from} :
            \/ accounts'[a].transactions = accounts[a].transactions
            \/ Extends(accounts'[a].transactions, accounts[a].transactions, "TransferIn")
      BY <2>5, <3>2, Zenon
    <3> QED
      BY <3>1, <3>3, <3>4 DEF Moves
  <2> QED
    BY <2>6, <2>7, <2>8 DEF LedgerOK
<1> QED
  BY <1>2, <1>3 DEF Ledger!Transfer

\* A call that writes a transaction has completed, the others have not.
LEMMA CompletedMoves ==
    ASSUME LedgerOK
    PROVE  /\ Quiet => ~Completed
           /\ \A id, kind : Moves(id, kind) => Completed
<1>1. Quiet => ~Completed
  BY Zenon DEF Quiet, Completed
<1>2. ASSUME NEW id, NEW kind, Moves(id, kind)
      PROVE  Completed
  <2>1. CASE id \notin DOMAIN accounts
    BY <1>2, <2>1 DEF Moves, Completed
  <2>2. CASE id \in DOMAIN accounts
    <3>1. accounts[id].transactions \in Seq(Ledger!Transaction)
      BY <2>2 DEF LedgerOK, Sound, Ledger!Account
    <3>2. PICK t \in Ledger!Transaction :
            accounts'[id].transactions = Append(accounts[id].transactions, t)
      BY <1>2, <2>2 DEF Moves, History, Extends
    <3>3. Len(Append(accounts[id].transactions, t)) # Len(accounts[id].transactions)
      BY <3>1
    <3>4. accounts'[id].transactions # accounts[id].transactions
      BY <3>2, <3>3
    <3>5. id \in DOMAIN accounts'
      BY <1>2 DEF Moves
    <3> QED
      BY <3>4, <3>5 DEF Completed
  <2> QED
    BY <2>1, <2>2
<1> QED
  BY <1>1, <1>2

-----------------------------------------------------------------------------
(* The histories and the log, counted.                                     *)

HistoryIn(acs, id) == IF id \in DOMAIN acs THEN acs[id].transactions ELSE << >>

Places(h, kind) == {i \in DOMAIN h : h[i].kind = kind}

LEMMA RecordedPlaces ==
    ASSUME NEW s, NEW id, NEW kind
    PROVE  Recorded(s, id, kind) = Places(HistoryIn(s.accounts, id), kind)
<1>1. CASE id \in DOMAIN s.accounts
  <2>1. {id} \cap DOMAIN s.accounts = {id}
    BY <1>1
  <2>2. UNION {DOMAIN s.accounts[a].transactions : a \in {id}} = DOMAIN s.accounts[id].transactions
    OBVIOUS
  <2>3. HistoryIn(s.accounts, id) = s.accounts[id].transactions
    BY <1>1 DEF HistoryIn
  <2> QED
    BY <2>1, <2>2, <2>3, Zenon DEF Recorded, Places
<1>2. CASE id \notin DOMAIN s.accounts
  <2>1. {id} \cap DOMAIN s.accounts = {}
    BY <1>2
  <2>2. UNION {DOMAIN s.accounts[a].transactions : a \in {}} = {}
    OBVIOUS
  <2>3. HistoryIn(s.accounts, id) = << >>
    BY <1>2 DEF HistoryIn
  <2>4. Recorded(s, id, kind) = {}
    BY <2>1, <2>2 DEF Recorded
  <2>5. Places(<< >>, kind) = {}
    BY DEF Places
  <2> QED
    BY <2>3, <2>4, <2>5
<1> QED
  BY <1>1, <1>2

LEMMA PlacesCount ==
    ASSUME NEW h \in Seq(Ledger!Transaction), NEW kind
    PROVE  IsFiniteSet(Places(h, kind)) /\ Cardinality(Places(h, kind)) \in Nat
<1>1. DOMAIN h = 1..Len(h) /\ Len(h) \in Nat
  OBVIOUS
<1>2. IsFiniteSet(1..Len(h))
  BY <1>1, FS_Interval
<1>3. Places(h, kind) \in SUBSET (1..Len(h))
  BY <1>1 DEF Places
<1>4. IsFiniteSet(Places(h, kind))
  BY <1>2, <1>3, FS_Subset
<1> QED
  BY <1>4, FS_CardinalityType

LEMMA PlacesGrow ==
    ASSUME NEW h \in Seq(Ledger!Transaction), NEW kind, NEW more, NEW g, Extends(g, h, more)
    PROVE  Cardinality(Places(g, kind))
             = Cardinality(Places(h, kind)) + IF kind = more THEN 1 ELSE 0
<1>1. PICK t \in Ledger!Transaction : t.kind = more /\ g = Append(h, t)
  BY DEF Extends
<1> DEFINE n == Len(h) + 1
<1>2. /\ DOMAIN h = 1..Len(h) /\ Len(h) \in Nat
      /\ DOMAIN g = 1..n /\ g[n] = t /\ \A i \in 1..Len(h) : g[i] = h[i]
  BY <1>1
<1>3. n \notin Places(h, kind)
  BY <1>2 DEF Places
<1>4. Places(g, kind) = Places(h, kind) \cup IF kind = more THEN {n} ELSE {}
  BY <1>1, <1>2 DEF Places
<1>5. IsFiniteSet(Places(h, kind)) /\ Cardinality(Places(h, kind)) \in Nat
  BY PlacesCount
<1>6. CASE kind = more
  BY <1>3, <1>4, <1>5, <1>6, FS_AddElement
<1>7. CASE kind # more
  BY <1>4, <1>5, <1>7
<1> QED
  BY <1>6, <1>7

Told(id, kind) == Cardinality(Recorded(Snapshot, id, kind))

LEMMA ToldIs ==
    ASSUME LedgerOK
    PROVE  \A id, kind :
             /\ Told(id, kind) = Cardinality(Places(HistoryIn(accounts, id), kind))
             /\ Told(id, kind)' = Cardinality(Places(HistoryIn(accounts', id), kind))
             /\ HistoryIn(accounts, id) \in Seq(Ledger!Transaction)
             /\ Told(id, kind) \in Nat
<1> TAKE id, kind
<1> DEFINE s == Snapshot
           t == Snapshot'
<1>1. s.accounts = accounts /\ t.accounts = accounts'
  BY DEF Snapshot
<1>2. Told(id, kind) = Cardinality(Recorded(s, id, kind))
  BY DEF Told
<1>3. Told(id, kind)' = Cardinality(Recorded(t, id, kind))
  BY DEF Told, Recorded
<1> HIDE DEF s, t
<1>4. /\ Recorded(s, id, kind) = Places(HistoryIn(accounts, id), kind)
      /\ Recorded(t, id, kind) = Places(HistoryIn(accounts', id), kind)
  BY <1>1, RecordedPlaces
<1>5. HistoryIn(accounts, id) \in Seq(Ledger!Transaction)
  BY DEF HistoryIn, LedgerOK, Sound, Ledger!Account
<1>6. Cardinality(Places(HistoryIn(accounts, id), kind)) \in Nat
  BY <1>5, PlacesCount
<1> QED
  BY <1>2, <1>3, <1>4, <1>5, <1>6

LEMMA QuietTold ==
    ASSUME LedgerOK, Quiet
    PROVE  \A id, kind : Told(id, kind)' = Told(id, kind)
<1> TAKE id, kind
<1>1. HistoryIn(accounts', id) = HistoryIn(accounts, id)
  BY DEF Quiet, HistoryIn
<1> QED
  BY <1>1, ToldIs

LEMMA MovesTold ==
    ASSUME LedgerOK, NEW id, NEW kind, Moves(id, kind)
    PROVE  \A a, k : k # "TransferIn" =>
             Told(a, k)' = Told(a, k) + IF a = id /\ k = kind THEN 1 ELSE 0
<1> SUFFICES ASSUME NEW a, NEW k, k # "TransferIn"
             PROVE  Told(a, k)' = Told(a, k) + IF a = id /\ k = kind THEN 1 ELSE 0
  OBVIOUS
<1> DEFINE h == HistoryIn(accounts, a)
           g == HistoryIn(accounts', a)
<1>1. h \in Seq(Ledger!Transaction) /\ Cardinality(Places(h, k)) \in Nat
  BY ToldIs, PlacesCount
<1>2. Told(a, k) = Cardinality(Places(h, k)) /\ Told(a, k)' = Cardinality(Places(g, k))
  BY ToldIs
<1>3. CASE a = id
  <2>1. Extends(g, h, kind)
    BY <1>3 DEF Moves, History, HistoryIn
  <2> HIDE DEF h, g
  <2> QED
    BY <1>1, <1>2, <1>3, <2>1, PlacesGrow
<1>4. CASE a # id /\ a \in DOMAIN accounts
  <2>1. g = h \/ Extends(g, h, "TransferIn")
    BY <1>4 DEF Moves, HistoryIn
  <2> HIDE DEF h, g
  <2> QED
    BY <1>1, <1>2, <1>4, <2>1, PlacesGrow
<1>5. CASE a # id /\ a \notin DOMAIN accounts
  <2>1. g = h
    BY <1>5 DEF Moves, HistoryIn
  <2> HIDE DEF h, g
  <2> QED
    BY <1>1, <1>2, <1>5, <2>1
<1> QED
  BY <1>3, <1>4, <1>5

LogOK == IsALog(audit_log) /\ BagCardinality(audit_log) <= MaxAuditEntries

Tells(id, kind) == Audited(Snapshot, id, kind)

About(D, id, kind) == {e \in D : e.action = ActionOf[kind] /\ e.target[1] = id}
ByActor(D, u) == {e \in D : e.actor = u}

LEMMA AuditedIs ==
    ASSUME NEW s, NEW id, NEW kind, NEW D, DOMAIN s.audit_log \subseteq D
    PROVE  Audited(s, id, kind) = CountIn(s.audit_log, About(D, id, kind))
<1> DEFINE Q == About(D, id, kind)
           R == {e \in DOMAIN s.audit_log : e.action = ActionOf[kind] /\ e.target[1] = id}
<1>1. DOMAIN s.audit_log \cap Q = R
  BY DEF About
<1>2. Audited(s, id, kind) = BagCardinality([e \in R |-> s.audit_log[e]])
  BY Zenon DEF Audited, CountOf, BagToSet
<1> QED
  BY <1>1, <1>2, Zenon DEF CountIn

LEMMA PerformedIs ==
    ASSUME NEW log, NEW u, NEW D, DOMAIN log \subseteq D
    PROVE  CountOf(log, LAMBDA entry : entry.actor = u) = CountIn(log, ByActor(D, u))
<1>1. DOMAIN log \cap ByActor(D, u) = {e \in DOMAIN log : e.actor = u}
  BY DEF ByActor
<1> QED
  BY <1>1, Zenon DEF CountOf, BagToSet, CountIn

\* An entry is the last of the log, or the log is full and stays as it is.
Lands(e) ==
    /\ HasRoom(audit_log)
    /\ audit_log' = audit_log (+) SetToBag({e})

LEMMA LandedCounts ==
    ASSUME LogOK, NEW e, Lands(e)
    PROVE  /\ LogOK'
           /\ BagToSet(audit_log)' = BagToSet(audit_log) \cup {e}
           /\ \A id, kind :
                /\ Tells(id, kind) \in Nat
                /\ Tells(id, kind)' = Tells(id, kind)
                     + IF e.action = ActionOf[kind] /\ e.target[1] = id THEN 1 ELSE 0
           /\ \A u : /\ Performed(u) \in Nat
                     /\ Performed(u)' = Performed(u) + IF e.actor = u THEN 1 ELSE 0
<1> DEFINE B == audit_log
           C == audit_log'
           D == DOMAIN B \cup {e}
<1>1. C = B (+) SetToBag({e}) /\ BagCardinality(B) < MaxAuditEntries /\ IsALog(B)
  BY DEF Lands, LogOK, HasRoom
<1>2. IsALog(C) /\ DOMAIN C = D
  <2> HIDE DEF B, C
  <2> QED
    BY <1>1, LogGrows
<1>3. BagCardinality(C) <= MaxAuditEntries
  <2> HIDE DEF B, C, D
  <2>1. /\ CountIn(B, D) = BagCardinality(B) /\ BagCardinality(B) \in Nat
        /\ CountIn(C, D) = BagCardinality(C) /\ BagCardinality(C) \in Nat
    BY <1>1, <1>2, CountAll DEF D
  <2>2. OneMore(B, C, e, D) /\ e \in D
    BY <1>1, LogGrows DEF D
  <2> QED
    BY <1>1, <2>1, <2>2, AppAssumption DEF OneMore
<1>4. LogOK'
  BY <1>2, <1>3 DEF LogOK
<1>5. BagToSet(audit_log)' = BagToSet(audit_log) \cup {e}
  BY <1>2 DEF BagToSet
<1>6. ASSUME NEW id, NEW kind
      PROVE  /\ Tells(id, kind) \in Nat
             /\ Tells(id, kind)' = Tells(id, kind)
                  + IF e.action = ActionOf[kind] /\ e.target[1] = id THEN 1 ELSE 0
  <2> DEFINE Q == About(D, id, kind)
             s == Snapshot
             t == Snapshot'
  <2>1. s.audit_log = B /\ t.audit_log = C
    BY DEF Snapshot
  <2>2. Tells(id, kind) = Audited(s, id, kind)
    BY DEF Tells
  <2>3. Tells(id, kind)' = Audited(t, id, kind)
    BY DEF Tells, Audited, CountOf
  <2> HIDE DEF s, t, B, C, D
  <2>4. Audited(s, id, kind) = CountIn(B, Q) /\ Audited(t, id, kind) = CountIn(C, Q)
    <3>1. DOMAIN s.audit_log \subseteq D /\ DOMAIN t.audit_log \subseteq D
      BY <1>2, <2>1 DEF D
    <3> QED
      BY <2>1, <3>1, AuditedIs
  <2>5. e \in Q <=> e.action = ActionOf[kind] /\ e.target[1] = id
    BY DEF D, About
  <2> HIDE DEF Q
  <2>6. OneMore(B, C, e, Q)
    BY <1>1, LogGrows
  <2> QED
    BY <2>2, <2>3, <2>4, <2>5, <2>6 DEF OneMore
<1>7. ASSUME NEW u
      PROVE  /\ Performed(u) \in Nat
             /\ Performed(u)' = Performed(u) + IF e.actor = u THEN 1 ELSE 0
  <2> DEFINE Q == ByActor(D, u)
  <2>1. /\ Performed(u) = CountOf(B, LAMBDA entry : entry.actor = u)
        /\ Performed(u)' = CountOf(C, LAMBDA entry : entry.actor = u)
    BY DEF Performed, CountOf
  <2> HIDE DEF B, C, D
  <2>2. Performed(u) = CountIn(B, Q) /\ Performed(u)' = CountIn(C, Q)
    <3>1. DOMAIN B \subseteq D /\ DOMAIN C \subseteq D
      BY <1>2 DEF D
    <3> QED
      BY <2>1, <3>1, PerformedIs
  <2>3. e \in Q <=> e.actor = u
    BY DEF D, ByActor
  <2> HIDE DEF Q
  <2>4. OneMore(B, C, e, Q)
    BY <1>1, LogGrows
  <2> QED
    BY <2>2, <2>3, <2>4 DEF OneMore
<1> QED
  BY <1>4, <1>5, <1>6, <1>7

LEMMA SameLogCounts ==
    ASSUME UNCHANGED audit_log
    PROVE  /\ LogOK => LogOK'
           /\ BagToSet(audit_log)' = BagToSet(audit_log)
           /\ HasRoom(audit_log)' = HasRoom(audit_log)
           /\ \A id, kind : Tells(id, kind)' = Tells(id, kind)
           /\ \A u : Performed(u)' = Performed(u)
<1>1. \A id, kind : Tells(id, kind)' = Tells(id, kind)
  BY DEF Tells, Audited, Snapshot, CountOf, BagToSet
<1>2. \A u : Performed(u)' = Performed(u)
  BY DEF Performed, CountOf, BagToSet
<1> QED
  BY <1>1, <1>2 DEF LogOK, BagToSet, HasRoom

LEMMA AuditLands ==
    ASSUME NEW e, Audit(e)
    PROVE  Lands(e) \/ (~HasRoom(audit_log) /\ UNCHANGED audit_log)
BY DEF Audit, With, Lands

LEMMA TellsNat ==
    ASSUME LogOK
    PROVE  /\ \A id, kind : Tells(id, kind) \in Nat
           /\ \A u : Performed(u) \in Nat
<1> DEFINE B == audit_log
           D == DOMAIN B
<1>1. IsALog(B)
  BY DEF LogOK
<1>2. ASSUME NEW Q
      PROVE  CountIn(B, Q) \in Nat
  <2> DEFINE C == B (+) SetToBag({0})
  <2> HIDE DEF B
  <2>1. OneMore(B, C, 0, Q)
    BY <1>1, LogGrows
  <2> QED
    BY <2>1 DEF OneMore
<1>3. ASSUME NEW id, NEW kind
      PROVE  Tells(id, kind) \in Nat
  <2> DEFINE s == Snapshot
  <2>1. s.audit_log = B /\ Tells(id, kind) = Audited(s, id, kind)
    BY DEF Tells, Snapshot
  <2> HIDE DEF s, B
  <2>2. Audited(s, id, kind) = CountIn(B, About(D, id, kind))
    BY <2>1, AuditedIs
  <2> QED
    BY <1>2, <2>1, <2>2
<1>4. ASSUME NEW u
      PROVE  Performed(u) \in Nat
  <2>1. Performed(u) = CountOf(B, LAMBDA entry : entry.actor = u)
    BY DEF Performed
  <2> HIDE DEF B
  <2>2. Performed(u) = CountIn(B, ByActor(D, u))
    BY <2>1, PerformedIs
  <2> QED
    BY <1>2, <2>2
<1> QED
  BY <1>3, <1>4

-----------------------------------------------------------------------------
(* The invariant.                                                          *)

RequestsOK == request \in [Requests -> {request[r] : r \in Requests}]

IInv == TypeOK /\ RequestsOK /\ MovesOnRecord /\ ActorsMayAct

\* The parts of the type.
Linked ==
    /\ owner_id \in [DOMAIN accounts -> Identities!OptionalCustomers]
    /\ Identities!TypeOK

IsCopy(session, u) == u \in DOMAIN users /\ session = Identities!SessionOf(u)

Current ==
    /\ \A u \in DOMAIN sessions : IsCopy(sessions[u], u)
    /\ \A r \in Requests : Waits(r) => IsCopy(request[r], request[r].user)

Parts == LedgerOK /\ LogOK /\ Linked /\ Current

LEMMA TypeParts == TypeOK <=> Parts
<1>1. /\ Snapshot.accounts = accounts /\ Snapshot.owner_id = owner_id
      /\ Snapshot.customers = customers /\ Snapshot.users = users
      /\ Snapshot.audit_log = audit_log
  BY DEF Snapshot
<1>2. TypeOK => Parts
  BY <1>1 DEF TypeOK, Parts, IsState, LedgerOK, Sound, LogOK, IsALog, Linked, Current, IsCopy,
              BagToSet
<1>3. Parts => TypeOK
  BY <1>1 DEF TypeOK, Parts, IsState, LedgerOK, Sound, LogOK, IsALog, Linked, Current, IsCopy,
              BagToSet,
              Identities!TypeOK
<1> QED
  BY <1>2, <1>3

\* What a customer does to which account, if the entry is a customer's at all.
CustomerMay(customer_id, entry) ==
    /\ entry.action \in {"Deposit", "Withdraw", "Transfer", "LoanPayment"}
    /\ entry.target[1] \in DOMAIN owner_id
    /\ owner_id[entry.target[1]] = customer_id

Entitled(entry) ==
    /\ entry.actor \in DOMAIN users
    /\ users[entry.actor].role = "Customer" =>
         CustomerMay(users[entry.actor].customer_id, entry)
    /\ entry.action \in {"CreateCustomer", "CreateUser"} => users[entry.actor].role = "Admin"

AllEntitled == \A entry \in BagToSet(audit_log) : Entitled(entry)

LEMMA ActorsAreEntitled == ActorsMayAct <=> AllEntitled
BY DEF AllEntitled, ActorsMayAct, NamesTheEntitled, Snapshot, Entitled, CustomerMay

\* Users and owners stay as they are, whoever is added.
Grows ==
    /\ \A u \in DOMAIN users : u \in DOMAIN users' /\ users'[u] = users[u]
    /\ \A a \in DOMAIN owner_id : a \in DOMAIN owner_id' /\ owner_id'[a] = owner_id[a]

LEMMA GrowthKeepsEntitled ==
    ASSUME Grows, NEW entry, Entitled(entry)
    PROVE  Entitled(entry)'
BY DEF Grows, Entitled, CustomerMay

\* What a handler does for the request that it answers: nothing to the ledger,
\* or one move; whatever it has done is audited for the user of the request.
Answers(r) == Waits(r) /\ Answered(r) /\ UNCHANGED sessions

ChangesIdentities(r) ==
    /\ Answers(r) /\ Grows /\ UNCHANGED bank
    /\ Identities!TypeOK'
    /\ request[r].role = "Admin"
    /\ \E target : \E action \in {"CreateCustomer", "CreateUser"} :
         Audit(Entry(request[r].user, action, target))

MovesMoney(r) ==
    /\ Answers(r) /\ Grows /\ UNCHANGED identities
    /\ LedgerOK'
    /\ owner_id' \in [DOMAIN accounts' -> Identities!OptionalCustomers]
    /\ \/ Quiet /\ UNCHANGED audit_log
       \/ \E id, target : \E kind \in DOMAIN ActionOf :
            LET entry == Entry(request[r].user, ActionOf[kind], target) IN
            /\ Moves(id, kind)
            /\ target[1] = id
            /\ Audit(entry)
            /\ request[r].role = "Customer" => CustomerMay(request[r].customer_id, entry)

LeavesApp ==
    /\ UNCHANGED app
    /\ \/ \E u \in UserIds : SessionBegins(u) \/ SessionEnds(u)
       \/ \E r \in Requests : Refuse(r) \/ \E u \in UserIds : Authenticate(r, u)
       \/ UNCHANGED vars

LEMMA RoleCases ==
    ASSUME Parts, NEW r \in Requests, Waits(r)
    PROVE  /\ request[r].user \in DOMAIN users
           /\ users[request[r].user] \in Identities!User
           /\ request[r].role = users[request[r].user].role
           /\ request[r].customer_id = users[request[r].user].customer_id
           /\ request[r].role \in {"Customer", "Teller", "Admin"}
<1>1. /\ request[r].user \in DOMAIN users
      /\ request[r] = Identities!SessionOf(request[r].user)
  BY DEF Parts, Current, IsCopy
<1>2. users[request[r].user] \in Identities!User
  BY <1>1 DEF Parts, Linked, Identities!TypeOK
<1>3. /\ request[r].role = users[request[r].user].role
      /\ request[r].customer_id = users[request[r].user].customer_id
  BY <1>1 DEF Identities!SessionOf
<1> QED
  BY <1>1, <1>2, <1>3 DEF Identities!User, Identities!Roles

\* What the roles may do, as far as it matters here.
LEMMA WhoCan ==
    /\ \A role \in {"Customer", "Teller", "Admin"} :
         Identities!Can(role, "ManageIdentity") => role = "Admin"
    /\ ~Identities!Can("Customer", "ManageAccounts")
    /\ ~Identities!Can("Customer", "MoveMoney")
<1> DEFINE can(role, permission) == Identities!Can(role, permission)
<1>1. \A permission : can("Teller", permission)
        <=> (permission \in {"ManageAccounts", "MoveMoney", "ViewAnyAccount",
                             "ExportStatements", "PersistState"})
  BY DEF Identities!Can
<1>2. \A permission : can("Customer", permission)
        <=> (permission \in {"MoveOwnMoney", "ViewOwnAccount"})
  BY DEF Identities!Can
<1> HIDE DEF can
<1>3. /\ ~can("Teller", "ManageIdentity") /\ ~can("Customer", "ManageIdentity")
      /\ ~can("Customer", "ManageAccounts") /\ ~can("Customer", "MoveMoney")
  BY <1>1, <1>2
<1> QED
  BY <1>3 DEF can

LEMMA KindsAndActions ==
    /\ DOMAIN ActionOf = {"AccountCreated", "Deposit", "Withdrawal", "TransferOut", "Fee",
                          "LoanRequested", "LoanPayment"}
    /\ ActionOf["AccountCreated"] = "CreateAccount" /\ ActionOf["Deposit"] = "Deposit"
    /\ ActionOf["Withdrawal"] = "Withdraw" /\ ActionOf["TransferOut"] = "Transfer"
    /\ ActionOf["Fee"] = "Fee" /\ ActionOf["LoanRequested"] = "LoanRequest"
    /\ ActionOf["LoanPayment"] = "LoanPayment"
BY DEF ActionOf

LEMMA ActionsDiffer ==
    /\ \A k, l \in DOMAIN ActionOf : ActionOf[k] = ActionOf[l] => k = l
    /\ \A k \in DOMAIN ActionOf :
         /\ k # "TransferIn"
         /\ ActionOf[k] \notin {"CreateCustomer", "CreateUser"}
<1> DEFINE f == ActionOf
           D == {"AccountCreated", "Deposit", "Withdrawal", "TransferOut", "Fee",
                 "LoanRequested", "LoanPayment"}
<1>1. /\ DOMAIN f = D
      /\ f["AccountCreated"] = "CreateAccount" /\ f["Deposit"] = "Deposit"
      /\ f["Withdrawal"] = "Withdraw" /\ f["TransferOut"] = "Transfer"
      /\ f["Fee"] = "Fee" /\ f["LoanRequested"] = "LoanRequest"
      /\ f["LoanPayment"] = "LoanPayment"
  BY KindsAndActions
<1> HIDE DEF f
<1>2. \A k, l \in D : f[k] = f[l] => k = l
  BY <1>1
<1>3. \A k \in D : k # "TransferIn" /\ f[k] \notin {"CreateCustomer", "CreateUser"}
  BY <1>1
<1> QED
  BY <1>1, <1>2, <1>3 DEF f

-----------------------------------------------------------------------------
(* Every handler is one of these.                                          *)

LEMMA Unread ==
    ASSUME UNCHANGED identities
    PROVE  Identities!TypeOK => Identities!TypeOK'
BY DEF identities, Identities!TypeOK

LEMMA CreateCustomerStep ==
    ASSUME Parts, RequestsOK, NEW r \in Requests, NEW c \in CustomerIds, CreateCustomer(r, c)
    PROVE  ChangesIdentities(r)
<1>1. /\ Waits(r) /\ Identities!Can(request[r].role, "ManageIdentity")
      /\ Identities!CreateCustomer(c)
      /\ Audit(Entry(request[r].user, "CreateCustomer", <<c>>))
      /\ Answered(r) /\ UNCHANGED <<bank, sessions>>
  BY DEF CreateCustomer, May, AnswersWithIdentity
<1>2. request[r].role = "Admin"
  BY <1>1, RoleCases, WhoCan
<1>3. Identities!TypeOK'
  BY <1>1 DEF Parts, Linked, Identities!TypeOK, Identities!CreateCustomer
<1>4. Grows
  BY <1>1 DEF Grows, bank, Identities!CreateCustomer
<1> QED
  BY <1>1, <1>2, <1>3, <1>4 DEF ChangesIdentities, Answers

LEMMA CreateUserStep ==
    ASSUME Parts, RequestsOK, NEW r \in Requests, NEW u \in UserIds,
           NEW role \in Identities!Roles, NEW c \in Identities!OptionalCustomers,
           CreateUser(r, u, role, c)
    PROVE  ChangesIdentities(r)
<1>1. /\ Waits(r) /\ Identities!Can(request[r].role, "ManageIdentity")
      /\ Identities!CreateUser(u, u, role, c)
      /\ Audit(Entry(request[r].user, "CreateUser", <<u>>))
      /\ Answered(r) /\ UNCHANGED <<bank, sessions>>
  BY DEF CreateUser, May, AnswersWithIdentity
<1>2. request[r].role = "Admin"
  BY <1>1, RoleCases, WhoCan
<1>3. [v \in UserIds |-> v][u] = u
  OBVIOUS
<1>4. /\ u \notin DOMAIN users
      /\ users' = [i \in DOMAIN users \cup {u} |->
                     IF i = u THEN [username |-> u, role |-> role, customer_id |-> c]
                     ELSE users[i]]
      /\ username_index' = [n \in DOMAIN username_index \cup {u} |->
                              IF n = u THEN u ELSE username_index[n]]
      /\ customers' = customers
  BY <1>1, <1>3 DEF Identities!CreateUser
<1>5. Identities!TypeOK'
  <2>1. [username |-> u, role |-> role, customer_id |-> c] \in Identities!User
    BY DEF Identities!User
  <2>2. u \in Identities!Usernames
    BY <1>3 DEF Identities!Usernames
  <2>3. users' \in [DOMAIN users \cup {u} -> Identities!User]
    BY <1>4, <2>1 DEF Parts, Linked, Identities!TypeOK
  <2>4. username_index' \in [DOMAIN username_index \cup {u} -> UserIds]
    BY <1>4 DEF Parts, Linked, Identities!TypeOK
  <2> QED
    BY <1>4, <2>2, <2>3, <2>4 DEF Parts, Linked, Identities!TypeOK
<1>6. Grows
  BY <1>1, <1>4 DEF Grows, bank
<1> QED
  BY <1>1, <1>2, <1>5, <1>6 DEF ChangesIdentities, Answers

\* What remains to be said of a handler that has called the bank.
LEMMA BankAnswers ==
    ASSUME Parts, NEW r \in Requests, Waits(r), NEW id, NEW kind \in DOMAIN ActionOf,
           NEW target, target[1] = id,
           AnswersWithBank(r, ActionOf[kind], target),
           LedgerOK', Quiet \/ Moves(id, kind),
           owner_id' \in [DOMAIN accounts' -> Identities!OptionalCustomers],
           \A a \in DOMAIN owner_id : a \in DOMAIN owner_id' /\ owner_id'[a] = owner_id[a],
           request[r].role = "Customer" =>
             CustomerMay(request[r].customer_id, Entry(request[r].user, ActionOf[kind], target))
    PROVE  MovesMoney(r)
<1>1. Answers(r) /\ UNCHANGED identities
  BY DEF AnswersWithBank, Answers
<1>2. Grows
  BY <1>1 DEF Grows, identities
<1>3. LedgerOK
  BY DEF Parts
<1>4. CASE Quiet
  <2>1. UNCHANGED audit_log
    BY <1>3, <1>4, CompletedMoves DEF AnswersWithBank
  <2> QED
    BY <1>1, <1>2, <1>4, <2>1 DEF MovesMoney
<1>5. CASE Moves(id, kind)
  <2>1. Completed
    BY <1>3, <1>5, CompletedMoves
  <2>2. Audit(Entry(request[r].user, ActionOf[kind], target))
    BY <2>1 DEF AnswersWithBank
  <2>3. \E i, t : \E k \in DOMAIN ActionOf :
          LET entry == Entry(request[r].user, ActionOf[k], t) IN
          /\ Moves(i, k)
          /\ t[1] = i
          /\ Audit(entry)
          /\ request[r].role = "Customer" => CustomerMay(request[r].customer_id, entry)
    BY <1>5, <2>2, Zenon
  <2> QED
    BY <1>1, <1>2, <2>3, Zenon DEF MovesMoney
<1> QED
  BY <1>4, <1>5

LEMMA OpenAccountStep ==
    ASSUME Parts, NEW r \in Requests, NEW id \in AccountIds,
           NEW owner \in Identities!OptionalCustomers, NEW opening \in Amounts,
           OpenAccount(r, id, owner, opening)
    PROVE  MovesMoney(r)
<1>1. /\ Waits(r) /\ Identities!Can(request[r].role, "ManageAccounts")
      /\ Ledger!CreateAccount(id, opening)
      /\ owner_id' = [a \in DOMAIN owner_id \cup {id} |->
                        IF a = id THEN owner ELSE owner_id[a]]
      /\ AnswersWithBank(r, "CreateAccount", <<id>>)
  BY DEF OpenAccount, May, CreateAccount
<1>2. LedgerOK' /\ Moves(id, "AccountCreated") /\ id \notin DOMAIN accounts
  BY <1>1, OpenStep DEF Parts
<1>3. owner_id \in [DOMAIN accounts -> Identities!OptionalCustomers]
  BY DEF Parts, Linked
<1>4. /\ owner_id' \in [DOMAIN accounts' -> Identities!OptionalCustomers]
      /\ \A a \in DOMAIN owner_id : a \in DOMAIN owner_id' /\ owner_id'[a] = owner_id[a]
  <2>1. DOMAIN accounts' = DOMAIN owner_id \cup {id} /\ id \notin DOMAIN owner_id
    BY <1>2, <1>3 DEF Moves
  <2> QED
    BY <1>1, <1>3, <2>1
<1>5. request[r].role # "Customer"
  BY <1>1, WhoCan
<1>6. <<id>>[1] = id /\ "AccountCreated" \in DOMAIN ActionOf
      /\ ActionOf["AccountCreated"] = "CreateAccount"
  BY KindsAndActions
<1> QED
  BY <1>1, <1>2, <1>4, <1>5, <1>6, BankAnswers, Zenon

\* A handler that leaves the owners alone and moves money of one account.
LEMMA MoneyHandlerStep ==
    ASSUME Parts, NEW r \in Requests, Waits(r), NEW id, NEW kind \in DOMAIN ActionOf,
           NEW target, target[1] = id,
           UNCHANGED owner_id,
           AnswersWithBank(r, ActionOf[kind], target),
           LedgerOK', Quiet \/ Moves(id, kind), id \in DOMAIN accounts,
           \/ Identities!Can(request[r].role, "MoveMoney")
           \/ /\ MayMove(request[r], id)
              /\ ActionOf[kind] \in {"Deposit", "Withdraw", "Transfer", "LoanPayment"}
    PROVE  MovesMoney(r)
<1>1. owner_id \in [DOMAIN accounts -> Identities!OptionalCustomers]
  BY DEF Parts, Linked
<1>2. DOMAIN accounts' = DOMAIN accounts
  BY DEF Quiet, Moves
<1>3. owner_id' \in [DOMAIN accounts' -> Identities!OptionalCustomers]
  BY <1>1, <1>2
<1>4. ASSUME request[r].role = "Customer"
      PROVE  CustomerMay(request[r].customer_id, Entry(request[r].user, ActionOf[kind], target))
  <2>1. ~Identities!Can(request[r].role, "MoveMoney")
    BY <1>4, WhoCan
  <2>2. id \in DOMAIN accounts /\ owner_id[id] = request[r].customer_id
    BY <2>1 DEF MayMove, MayUse
  <2> QED
    BY <1>1, <2>1, <2>2 DEF CustomerMay, Entry
<1>5. \A a \in DOMAIN owner_id : a \in DOMAIN owner_id' /\ owner_id'[a] = owner_id[a]
  OBVIOUS
<1> QED
  BY <1>3, <1>4, <1>5, BankAnswers

LEMMA MoneyHandlers ==
    ASSUME Parts, NEW r \in Requests, NEW id \in AccountIds, NEW amount \in Amounts,
           \/ Deposit(r, id, amount) \/ Withdraw(r, id, amount) \/ ApplyFee(r, id, amount)
           \/ RequestLoan(r, id, amount) \/ PayLoan(r, id, amount)
           \/ \E to \in AccountIds : Transfer(r, id, to, amount)
    PROVE  MovesMoney(r)
<1>0. LedgerOK /\ <<id>>[1] = id
  BY DEF Parts
<1>1. CASE Deposit(r, id, amount)
  <2>1. /\ Waits(r) /\ MayMove(request[r], id) /\ Ledger!Deposit(id, amount)
        /\ UNCHANGED owner_id /\ AnswersWithBank(r, "Deposit", <<id>>)
    BY <1>1 DEF Deposit
  <2>2. LedgerOK' /\ (Quiet \/ Moves(id, "Deposit")) /\ id \in DOMAIN accounts
    BY <1>0, <2>1, DepositStep DEF Ledger!Deposit, Ledger!CanTransact, Ledger!Exists
  <2> QED
    BY <1>0, <2>1, <2>2, KindsAndActions, MoneyHandlerStep
<1>2. CASE Withdraw(r, id, amount)
  <2>1. /\ Waits(r) /\ MayMove(request[r], id) /\ Ledger!Take(id, amount, "Withdrawal")
        /\ UNCHANGED owner_id /\ AnswersWithBank(r, "Withdraw", <<id>>)
    BY <1>2 DEF Withdraw, Ledger!Withdraw
  <2>2. "Withdrawal" \in Ledger!Kinds
    BY DEF Ledger!Kinds, Ledger!Debits
  <2>3. LedgerOK' /\ Moves(id, "Withdrawal") /\ id \in DOMAIN accounts
    BY <1>0, <2>1, <2>2, TakeStep DEF Ledger!Take, Ledger!CanTransact, Ledger!Exists
  <2> QED
    BY <1>0, <2>1, <2>3, KindsAndActions, MoneyHandlerStep
<1>3. CASE ApplyFee(r, id, amount)
  <2>1. /\ Waits(r) /\ Identities!Can(request[r].role, "MoveMoney")
        /\ Ledger!Take(id, amount, "Fee")
        /\ UNCHANGED owner_id /\ AnswersWithBank(r, "Fee", <<id>>)
    BY <1>3 DEF ApplyFee, May, Ledger!ApplyFee
  <2>2. "Fee" \in Ledger!Kinds
    BY DEF Ledger!Kinds, Ledger!Debits
  <2>3. LedgerOK' /\ Moves(id, "Fee") /\ id \in DOMAIN accounts
    BY <1>0, <2>1, <2>2, TakeStep DEF Ledger!Take, Ledger!CanTransact, Ledger!Exists
  <2> QED
    BY <1>0, <2>1, <2>3, KindsAndActions, MoneyHandlerStep
<1>4. CASE RequestLoan(r, id, amount)
  <2>1. /\ Waits(r) /\ Identities!Can(request[r].role, "MoveMoney")
        /\ Ledger!RequestLoan(id, amount)
        /\ UNCHANGED owner_id /\ AnswersWithBank(r, "LoanRequest", <<id>>)
    BY <1>4 DEF RequestLoan, May
  <2>2. LedgerOK' /\ (Quiet \/ Moves(id, "LoanRequested")) /\ id \in DOMAIN accounts
    BY <1>0, <2>1, RequestLoanStep
       DEF Ledger!RequestLoan, Ledger!CanTransact, Ledger!Exists
  <2> QED
    BY <1>0, <2>1, <2>2, KindsAndActions, MoneyHandlerStep
<1>5. CASE PayLoan(r, id, amount)
  <2>1. /\ Waits(r) /\ MayMove(request[r], id) /\ Ledger!PayLoan(id, amount)
        /\ UNCHANGED owner_id /\ AnswersWithBank(r, "LoanPayment", <<id>>)
    BY <1>5 DEF PayLoan
  <2>2. LedgerOK' /\ Moves(id, "LoanPayment") /\ id \in DOMAIN accounts
    BY <1>0, <2>1, PayLoanStep DEF Ledger!PayLoan, Ledger!CanTransact, Ledger!Exists
  <2> QED
    BY <1>0, <2>1, <2>2, KindsAndActions, MoneyHandlerStep
<1>6. ASSUME NEW to \in AccountIds, Transfer(r, id, to, amount)
      PROVE  MovesMoney(r)
  <2>1. /\ Waits(r) /\ MayMove(request[r], id) /\ Ledger!Transfer(id, to, amount)
        /\ UNCHANGED owner_id /\ AnswersWithBank(r, "Transfer", <<id, to>>)
    BY <1>6 DEF Transfer
  <2>2. LedgerOK' /\ (Quiet \/ Moves(id, "TransferOut")) /\ id \in DOMAIN accounts
    BY <1>0, <2>1, TransferStep DEF Ledger!Transfer, Ledger!CanTransact, Ledger!Exists
  <2>3. <<id, to>>[1] = id
    OBVIOUS
  <2> QED
    BY <2>1, <2>2, <2>3, KindsAndActions, MoneyHandlerStep
<1> QED
  BY <1>1, <1>2, <1>3, <1>4, <1>5, <1>6

LEMMA EveryStep ==
    ASSUME Parts, RequestsOK, [Next]_vars
    PROVE  \/ LeavesApp
           \/ \E r \in Requests : ChangesIdentities(r) \/ MovesMoney(r)
<1>1. CASE UNCHANGED vars
  BY <1>1 DEF LeavesApp, vars
<1>2. ASSUME NEW u \in UserIds, SessionBegins(u) \/ SessionEnds(u)
      PROVE  LeavesApp
  BY <1>2 DEF LeavesApp, SessionBegins, SessionEnds
<1>3. ASSUME NEW r \in Requests, NEW u \in UserIds, Authenticate(r, u)
      PROVE  LeavesApp
  BY <1>3 DEF LeavesApp, Authenticate
<1>4. ASSUME NEW r \in Requests, Refuse(r)
      PROVE  LeavesApp
  BY <1>4 DEF LeavesApp, Refuse
<1>5. ASSUME NEW r \in Requests, Handle(r), ~Refuse(r)
      PROVE  ChangesIdentities(r) \/ MovesMoney(r)
  BY <1>5, CreateCustomerStep, CreateUserStep, OpenAccountStep, MoneyHandlers DEF Handle
<1> QED
  BY <1>1, <1>2, <1>3, <1>4, <1>5 DEF Next

-----------------------------------------------------------------------------
(* What every step keeps.                                                  *)

LEMMA AuditKeepsLog ==
    ASSUME LogOK, NEW e, Audit(e)
    PROVE  LogOK' /\ BagToSet(audit_log)' \subseteq BagToSet(audit_log) \cup {e}
BY AuditLands, LandedCounts, SameLogCounts

\* An entry of an entitled user leaves a log of entitled users.
LEMMA EntitledAuditStep ==
    ASSUME LogOK, Grows, ActorsMayAct, NEW e, Audit(e), Entitled(e)
    PROVE  ActorsMayAct'
<1>1. \A entry \in BagToSet(audit_log) \cup {e} : Entitled(entry)'
  BY ActorsAreEntitled, GrowthKeepsEntitled DEF AllEntitled
<1>2. \A entry \in BagToSet(audit_log)' : Entitled(entry)'
  BY <1>1, AuditKeepsLog
<1>3. ActorsMayAct' <=> AllEntitled'
  BY ActorsAreEntitled, PTL
<1> QED
  BY <1>2, <1>3 DEF AllEntitled

LEMMA ActorsStep ==
    ASSUME Parts, RequestsOK, ActorsMayAct, [Next]_vars
    PROVE  ActorsMayAct'
<1>1. CASE LeavesApp
  BY <1>1 DEF LeavesApp, app, bank, identities, ActorsMayAct, NamesTheEntitled, Snapshot, BagToSet
<1>2. ASSUME NEW r \in Requests, ChangesIdentities(r)
      PROVE  ActorsMayAct'
  <2>1. PICK target : \E action \in {"CreateCustomer", "CreateUser"} :
               Audit(Entry(request[r].user, action, target))
    BY <1>2 DEF ChangesIdentities
  <2>2. PICK action \in {"CreateCustomer", "CreateUser"} :
               Audit(Entry(request[r].user, action, target))
    BY <2>1
  <2>3. /\ request[r].user \in DOMAIN users
        /\ users[request[r].user].role = "Admin"
    BY <1>2, RoleCases DEF ChangesIdentities, Answers
  <2>4. Entitled(Entry(request[r].user, action, target))
    BY <2>3 DEF Entitled, Entry
  <2> QED
    BY <1>2, <2>2, <2>4, EntitledAuditStep DEF ChangesIdentities, Parts
<1>3. ASSUME NEW r \in Requests, MovesMoney(r)
      PROVE  ActorsMayAct'
  <2>1. CASE UNCHANGED audit_log
    <3>1. \A entry \in BagToSet(audit_log)' : Entitled(entry)'
      BY <1>3, <2>1, ActorsAreEntitled, GrowthKeepsEntitled, SameLogCounts
         DEF MovesMoney, AllEntitled
    <3>2. ActorsMayAct' <=> AllEntitled'
      BY ActorsAreEntitled, PTL
    <3> QED
      BY <3>1, <3>2 DEF AllEntitled
  <2>2. ASSUME NEW kind \in DOMAIN ActionOf, NEW target,
               Audit(Entry(request[r].user, ActionOf[kind], target)),
               request[r].role = "Customer" =>
                 CustomerMay(request[r].customer_id,
                             Entry(request[r].user, ActionOf[kind], target))
        PROVE  ActorsMayAct'
    <3> DEFINE entry == Entry(request[r].user, ActionOf[kind], target)
    <3>1. entry.actor = request[r].user /\ entry.action = ActionOf[kind]
      BY DEF Entry
    <3> HIDE DEF entry
    <3>2. /\ request[r].user \in DOMAIN users
          /\ request[r].role = users[request[r].user].role
          /\ request[r].customer_id = users[request[r].user].customer_id
      BY <1>3, RoleCases DEF MovesMoney, Answers
    <3>3. Entitled(entry)
      BY <2>2, <3>1, <3>2, ActionsDiffer DEF Entitled, entry
    <3> QED
      BY <1>3, <2>2, <3>3, EntitledAuditStep DEF MovesMoney, Parts, entry
  <2> QED
    BY <1>3, <2>1, <2>2 DEF MovesMoney
<1> QED
  BY <1>1, <1>2, <1>3, EveryStep

LEMMA PartsStep ==
    ASSUME Parts, RequestsOK, [Next]_vars
    PROVE  LedgerOK' /\ LogOK' /\ Linked'
<1>1. CASE LeavesApp
  <2>1. UNCHANGED <<accounts, next_transaction_id, owner_id, audit_log>> /\ UNCHANGED identities
    BY <1>1 DEF LeavesApp, app, bank
  <2> QED
    BY <2>1, Unread DEF Parts, LedgerOK, LogOK, Linked
<1>2. ASSUME NEW r \in Requests, ChangesIdentities(r)
      PROVE  LedgerOK' /\ LogOK' /\ Linked'
  <2>1. LogOK'
    BY <1>2, AuditKeepsLog DEF ChangesIdentities, Parts
  <2>2. UNCHANGED <<accounts, next_transaction_id, owner_id>> /\ Identities!TypeOK'
    BY <1>2 DEF ChangesIdentities, bank
  <2> QED
    BY <2>1, <2>2 DEF Parts, LedgerOK, Linked
<1>3. ASSUME NEW r \in Requests, MovesMoney(r)
      PROVE  LedgerOK' /\ LogOK' /\ Linked'
  <2>1. LogOK'
    BY <1>3, AuditKeepsLog, SameLogCounts DEF MovesMoney, Parts
  <2> QED
    BY <1>3, <2>1, Unread DEF MovesMoney, Parts, Linked
<1> QED
  BY <1>1, <1>2, <1>3, EveryStep

\* The copies: in the store, and in the requests that wait.
LEMMA CurrentStep ==
    ASSUME Parts, RequestsOK, [Next]_vars
    PROVE  Current' /\ RequestsOK'
<1>1. ASSUME Grows, NEW session, NEW u, IsCopy(session, u)
      PROVE  IsCopy(session, u)'
  BY <1>1 DEF Grows, IsCopy, Identities!SessionOf
<1>2. DOMAIN request = Requests
  BY DEF RequestsOK
<1>3. Grows
  <2>1. LeavesApp => Grows
    BY DEF LeavesApp, Grows, app, bank, identities
  <2> QED
    BY <2>1, EveryStep DEF ChangesIdentities, MovesMoney
<1>4. ASSUME NEW r \in Requests, NEW copy,
             copy = Idle \/ IsCopy(copy, copy.user),
             request' = [request EXCEPT ![r] = copy], UNCHANGED sessions
      PROVE  Current' /\ RequestsOK'
  <2>1. /\ request'[r] = copy
        /\ \A q \in Requests : q # r => request'[q] = request[q]
        /\ RequestsOK'
    BY <1>2, <1>4 DEF RequestsOK
  <2>2. \A u \in DOMAIN sessions' : IsCopy(sessions[u], u)'
    BY <1>1, <1>3, <1>4 DEF Parts, Current, IsCopy
  <2>3. ASSUME NEW q \in Requests, Waits(q)'
        PROVE  IsCopy(request[q], request[q].user)'
    <3> DEFINE c == IF q = r THEN copy ELSE request[q]
    <3>1. request'[q] = c /\ IsCopy(c, c.user)
      BY <1>4, <2>1, <2>3 DEF Parts, Current, Waits
    <3> HIDE DEF c
    <3> QED
      BY <1>3, <3>1 DEF IsCopy, Grows, Identities!SessionOf
  <2> QED
    BY <2>1, <2>2, <2>3 DEF Current
<1>5. ASSUME UNCHANGED <<users, request>>,
             \A u \in DOMAIN sessions' : IsCopy(sessions'[u], u)
      PROVE  Current' /\ RequestsOK'
  BY <1>5 DEF Parts, Current, RequestsOK, Waits, IsCopy, Identities!SessionOf
<1>6. CASE LeavesApp
  <2>0. UNCHANGED users /\ \A u \in DOMAIN sessions : IsCopy(sessions[u], u)
    BY <1>6 DEF LeavesApp, app, identities, Parts, Current
  <2>1. ASSUME NEW u \in UserIds, SessionBegins(u)
        PROVE  Current' /\ RequestsOK'
    <3>1. \A v \in DOMAIN sessions' : IsCopy(sessions'[v], v)
      BY <2>0, <2>1 DEF SessionBegins, IsCopy
    <3> QED
      BY <1>5, <2>0, <2>1, <3>1 DEF SessionBegins
  <2>2. ASSUME NEW u \in UserIds, SessionEnds(u)
        PROVE  Current' /\ RequestsOK'
    <3>1. \A v \in DOMAIN sessions' : IsCopy(sessions'[v], v)
      BY <2>0, <2>2 DEF SessionEnds, IsCopy
    <3> QED
      BY <1>5, <2>0, <2>2, <3>1 DEF SessionEnds
  <2>3. ASSUME NEW r \in Requests, Refuse(r)
        PROVE  Current' /\ RequestsOK'
    BY <1>4, <2>3 DEF Refuse, Answered
  <2>4. ASSUME NEW r \in Requests, NEW u \in UserIds, Authenticate(r, u)
        PROVE  Current' /\ RequestsOK'
    <3>1. /\ u \in DOMAIN sessions /\ sessions' = sessions
          /\ request' = [request EXCEPT ![r] = sessions[u]]
      BY <2>4 DEF Authenticate
    <3>2. IsCopy(sessions[u], sessions[u].user)
      BY <2>0, <3>1 DEF IsCopy, Identities!SessionOf
    <3> QED
      BY <1>4, <3>1, <3>2
  <2>5. CASE UNCHANGED vars
    BY <1>5, <2>0, <2>5 DEF vars
  <2> QED
    BY <1>6, <2>1, <2>2, <2>3, <2>4, <2>5 DEF LeavesApp
<1>7. ASSUME NEW r \in Requests, Answers(r)
      PROVE  Current' /\ RequestsOK'
  BY <1>4, <1>7 DEF Answers, Answered
<1> QED
  BY <1>6, <1>7, EveryStep DEF ChangesIdentities, MovesMoney

-----------------------------------------------------------------------------
(* The ledger and the log.                                                 *)

AllTold ==
    \A id \in AccountIds, kind \in DOMAIN ActionOf :
      /\ Tells(id, kind) <= Told(id, kind)
      /\ HasRoom(audit_log) => Tells(id, kind) = Told(id, kind)

LEMMA MovesAreTold == MovesOnRecord <=> AllTold
BY DEF MovesOnRecord, TellsOfMoves, AllTold, Tells, Told, Snapshot

\* The log tells of what the ledger does: of nothing, or of the one move.
LEMMA ToldStep ==
    ASSUME Parts, MovesOnRecord,
           \/ /\ \A id, kind : Told(id, kind)' = Told(id, kind)
              /\ UNCHANGED audit_log
           \/ /\ \A id, kind : Told(id, kind)' = Told(id, kind)
              /\ \E actor, action, target :
                   /\ Audit(Entry(actor, action, target))
                   /\ \A kind \in DOMAIN ActionOf : ActionOf[kind] # action
           \/ \E id, actor, target : \E kind \in DOMAIN ActionOf :
                /\ Moves(id, kind) /\ target[1] = id
                /\ Audit(Entry(actor, ActionOf[kind], target))
    PROVE  MovesOnRecord'
<1>1. \A id, kind : Tells(id, kind) \in Nat /\ Told(id, kind) \in Nat
  BY TellsNat, ToldIs DEF Parts
<1>2. AllTold
  BY MovesAreTold
<1>3. SUFFICES AllTold'
  <2>1. MovesOnRecord' <=> AllTold'
    BY MovesAreTold, PTL
  <2> QED
    BY <2>1
<1>4. CASE /\ \A id, kind : Told(id, kind)' = Told(id, kind)
           /\ UNCHANGED audit_log
  BY <1>2, <1>4, SameLogCounts DEF AllTold
<1>5. ASSUME NEW actor, NEW action, NEW target, Audit(Entry(actor, action, target)),
             \A id, kind : Told(id, kind)' = Told(id, kind),
             \A kind \in DOMAIN ActionOf : ActionOf[kind] # action
      PROVE  AllTold'
  <2> DEFINE e == Entry(actor, action, target)
  <2>1. e.action = action
    BY DEF Entry
  <2> HIDE DEF e
  <2>2. CASE UNCHANGED audit_log
    BY <1>2, <1>5, <2>2, SameLogCounts DEF AllTold
  <2>3. CASE Lands(e)
    <3>1. \A id : \A kind \in DOMAIN ActionOf : Tells(id, kind)' = Tells(id, kind)
      BY <1>1, <1>5, <2>1, <2>3, LandedCounts DEF Parts
    <3>2. HasRoom(audit_log)
      BY <2>3 DEF Lands
    <3> QED
      BY <1>2, <1>5, <3>1, <3>2 DEF AllTold
  <2> QED
    BY <1>5, <2>2, <2>3, AuditLands DEF e
<1>6. ASSUME NEW id, NEW actor, NEW target, NEW kind \in DOMAIN ActionOf,
             Moves(id, kind), target[1] = id, Audit(Entry(actor, ActionOf[kind], target))
      PROVE  AllTold'
  <2> DEFINE e == Entry(actor, ActionOf[kind], target)
  <2>1. e.action = ActionOf[kind] /\ e.target = target
    BY DEF Entry
  <2> HIDE DEF e
  <2>2. ASSUME NEW a \in AccountIds, NEW k \in DOMAIN ActionOf
        PROVE  Told(a, k)' = Told(a, k) + IF a = id /\ k = kind THEN 1 ELSE 0
    BY <1>6, MovesTold, ActionsDiffer DEF Parts
  <2>3. CASE Lands(e)
    <3>1. ASSUME NEW a \in AccountIds, NEW k \in DOMAIN ActionOf
          PROVE  Tells(a, k)' = Tells(a, k) + IF a = id /\ k = kind THEN 1 ELSE 0
      <4>1. e.action = ActionOf[k] /\ e.target[1] = a <=> a = id /\ k = kind
        BY <1>6, <2>1, ActionsDiffer
      <4>2. Tells(a, k)' = Tells(a, k)
              + IF e.action = ActionOf[k] /\ e.target[1] = a THEN 1 ELSE 0
        BY <2>3, LandedCounts DEF Parts
      <4> QED
        BY <4>1, <4>2
    <3>2. HasRoom(audit_log)
      BY <2>3 DEF Lands
    <3>3. ASSUME NEW a \in AccountIds, NEW k \in DOMAIN ActionOf
          PROVE  Tells(a, k)' = Told(a, k)'
      BY <1>2, <2>2, <3>1, <3>2 DEF AllTold
    <3>4. ASSUME NEW a \in AccountIds, NEW k \in DOMAIN ActionOf
          PROVE  Told(a, k)' \in Int
      BY <1>1, <2>2
    <3> QED
      BY <3>3, <3>4 DEF AllTold
  <2>4. CASE ~HasRoom(audit_log) /\ UNCHANGED audit_log
    <3>1. ASSUME NEW a \in AccountIds, NEW k \in DOMAIN ActionOf
          PROVE  Tells(a, k)' <= Told(a, k)'
      <4>1. Tells(a, k)' = Tells(a, k) /\ Tells(a, k) <= Told(a, k)
        BY <1>2, <2>4, SameLogCounts DEF AllTold
      <4> QED
        BY <1>1, <2>2, <4>1
    <3>2. ~HasRoom(audit_log)'
      BY <2>4, SameLogCounts
    <3> QED
      BY <3>1, <3>2 DEF AllTold
  <2> QED
    BY <1>6, <2>3, <2>4, AuditLands DEF e
<1> QED
  BY <1>4, <1>5, <1>6

LEMMA MovesStep ==
    ASSUME Parts, RequestsOK, MovesOnRecord, [Next]_vars
    PROVE  MovesOnRecord'
<1>0. LedgerOK
  BY DEF Parts
<1>1. UNCHANGED accounts => \A id, kind : Told(id, kind)' = Told(id, kind)
  <2>1. UNCHANGED accounts => Quiet
    BY DEF Quiet
  <2> QED
    BY <1>0, <2>1, QuietTold
<1>2. CASE LeavesApp
  <2>1. UNCHANGED <<accounts, audit_log>>
    BY <1>2 DEF LeavesApp, app, bank
  <2> QED
    BY <1>1, <2>1, ToldStep
<1>3. ASSUME NEW r \in Requests, ChangesIdentities(r)
      PROVE  MovesOnRecord'
  <2>1. PICK target : \E action \in {"CreateCustomer", "CreateUser"} :
               Audit(Entry(request[r].user, action, target))
    BY <1>3 DEF ChangesIdentities
  <2>2. PICK action \in {"CreateCustomer", "CreateUser"} :
               Audit(Entry(request[r].user, action, target))
    BY <2>1
  <2>3. \A id, kind : Told(id, kind)' = Told(id, kind)
    BY <1>1, <1>3 DEF ChangesIdentities, bank
  <2>4. \A kind \in DOMAIN ActionOf : ActionOf[kind] # action
    BY ActionsDiffer
  <2>5. \E who, what, at :
          /\ Audit(Entry(who, what, at))
          /\ \A kind \in DOMAIN ActionOf : ActionOf[kind] # what
    BY <2>2, <2>4, Zenon
  <2> QED
    BY <2>3, <2>5, ToldStep
<1>4. ASSUME NEW r \in Requests, MovesMoney(r)
      PROVE  MovesOnRecord'
  <2>1. CASE Quiet /\ UNCHANGED audit_log
    BY <1>0, <2>1, QuietTold, ToldStep
  <2>2. CASE \E id, target : \E kind \in DOMAIN ActionOf :
               /\ Moves(id, kind) /\ target[1] = id
               /\ Audit(Entry(request[r].user, ActionOf[kind], target))
    <3>1. \E id, actor, target : \E kind \in DOMAIN ActionOf :
            /\ Moves(id, kind) /\ target[1] = id
            /\ Audit(Entry(actor, ActionOf[kind], target))
      BY <2>2, Zenon
    <3> QED
      BY <3>1, ToldStep
  <2> QED
    BY <1>4, <2>1, <2>2, Zenon DEF MovesMoney
<1> QED
  BY <1>2, <1>3, <1>4, EveryStep

-----------------------------------------------------------------------------
(* The start.                                                              *)

\* `from_accounts` goes on after the largest id that is recorded.
LEMMA NextIdInRange == NextIdOf(Given) \in 1..MaxTransactionId
<1> DEFINE Ids == LedgerOf(Given)!RecordedIds \cup {0}
           Gaps == {MaxTransactionId - n : n \in Ids}
<1>1. LedgerOf(Given)!RecordedIds
        = UNION {{Given.accounts[a].transactions[i].id :
                    i \in DOMAIN Given.accounts[a].transactions} : a \in DOMAIN Given.accounts}
  BY DEF LedgerOf!RecordedIds, LedgerOf!TransactionsOf
<1>2. \A n \in LedgerOf(Given)!RecordedIds : n \in 1..(MaxTransactionId - 1)
  BY <1>1, GivenAssumption
<1>3. /\ 0 \in Ids /\ MaxTransactionId \in Nat \ {0}
      /\ \A n \in Ids : n \in Nat /\ n < MaxTransactionId
  BY <1>2, LedgerAssumption
<1>4. NextIdOf(Given) = 1 + CHOOSE largest \in Ids : \A n \in Ids : n <= largest
  BY Zenon DEF NextIdOf
<1> HIDE DEF Ids
<1>5. \E largest \in Ids : \A n \in Ids : n <= largest
  <2>1. Gaps \in SUBSET Nat /\ Gaps # {}
    BY <1>3
  <2>2. PICK least \in Gaps : \A gap \in Gaps : least <= gap
    <3> HIDE DEF Gaps
    <3> QED
      BY <2>1, LeastNatural
  <2>3. PICK largest \in Ids : least = MaxTransactionId - largest
    BY <2>2
  <2>4. ASSUME NEW n \in Ids
        PROVE  n <= largest
    <3>1. MaxTransactionId - n \in Gaps
      OBVIOUS
    <3>2. MaxTransactionId - largest <= MaxTransactionId - n
      BY <2>2, <2>3, <3>1
    <3> QED
      BY <1>3, <3>2
  <2> QED
    BY <2>4
<1> DEFINE m == CHOOSE largest \in Ids : \A n \in Ids : n <= largest
<1>6. m \in Ids
  BY <1>5, Zenon
<1> HIDE DEF m
<1> QED
  BY <1>3, <1>4, <1>6 DEF m

LEMMA SameTale ==
    ASSUME NEW s, NEW t, s.accounts = t.accounts, s.audit_log = t.audit_log
    PROVE  TellsOfMoves(s) => TellsOfMoves(t)
<1>1. \A id, kind : Recorded(s, id, kind) = Recorded(t, id, kind)
  BY DEF Recorded
<1>2. \A id, kind : Audited(s, id, kind) = Audited(t, id, kind)
  BY DEF Audited, CountOf
<1> QED
  BY <1>1, <1>2 DEF TellsOfMoves

LEMMA InitInvariant == Init => IInv
<1> SUFFICES ASSUME Init
             PROVE  IInv
  OBVIOUS
<1> DEFINE s == Given
           t == Snapshot
<1>1. /\ accounts = s.accounts /\ owner_id = s.owner_id /\ customers = s.customers
      /\ users = s.users /\ audit_log = s.audit_log
      /\ next_transaction_id = NextIdOf(Given)
      /\ username_index = Identities!IndexOf(users)
      /\ sessions = << >> /\ request = [r \in Requests |-> Idle]
  BY DEF Init, IsBuiltFrom
<1>2. /\ t.accounts = s.accounts /\ t.owner_id = s.owner_id /\ t.customers = s.customers
      /\ t.users = s.users /\ t.audit_log = s.audit_log
  BY <1>1 DEF Snapshot
<1>3. IsState(s) /\ TellsOfMoves(s) /\ NamesTheEntitled(s)
  BY GivenAssumption
<1>4. Identities!TypeOK
  <2>1. /\ customers \subseteq CustomerIds
        /\ DOMAIN users \subseteq UserIds /\ users \in [DOMAIN users -> Identities!User]
    BY <1>1, <1>3 DEF IsState
  <2> DEFINE Name(i) == [u \in UserIds |-> u][users[i].username]
             Names == {Name(i) : i \in DOMAIN users}
  <2>2. Identities!IndexOf(users) = [u \in Names |-> CHOOSE i \in DOMAIN users : Name(i) = u]
    BY DEF Identities!IndexOf
  <2>3. ASSUME NEW u \in Names
        PROVE  (CHOOSE i \in DOMAIN users : Name(i) = u) \in UserIds
    <3>1. \E i \in DOMAIN users : Name(i) = u
      OBVIOUS
    <3> HIDE DEF Name, Names
    <3>2. (CHOOSE i \in DOMAIN users : Name(i) = u) \in DOMAIN users
      BY <3>1, Zenon
    <3> QED
      BY <2>1, <3>2
  <2>4. Names \subseteq Identities!Usernames
    <3>1. \A i \in DOMAIN users : users[i].username \in UserIds
      BY <2>1 DEF Identities!User
    <3> QED
      BY <3>1 DEF Identities!Usernames
  <2> HIDE DEF Name, Names
  <2>5. /\ DOMAIN username_index \subseteq Identities!Usernames
        /\ username_index \in [DOMAIN username_index -> UserIds]
    BY <1>1, <2>2, <2>3, <2>4
  <2> QED
    BY <2>1, <2>5 DEF Identities!TypeOK
<1> HIDE DEF s, t
<1>5. MovesOnRecord
  BY <1>2, <1>3, SameTale DEF MovesOnRecord, t
<1>6. ActorsMayAct
  <2>1. NamesTheEntitled(t)
    BY <1>2, <1>3 DEF NamesTheEntitled
  <2> QED
    BY <2>1 DEF ActorsMayAct, t
<1>7. TypeOK
  <2>1. IsState(t)
    BY <1>2, <1>3 DEF IsState
  <2>2. next_transaction_id \in 1..MaxTransactionId
    BY <1>1, NextIdInRange
  <2>3. \A r \in Requests : ~Waits(r)
    BY <1>1 DEF Waits
  <2>4. DOMAIN sessions = {}
    BY <1>1
  <2> QED
    BY <1>4, <2>1, <2>2, <2>3, <2>4 DEF TypeOK, t
<1>8. RequestsOK
  BY <1>1 DEF RequestsOK
<1> QED
  BY <1>5, <1>6, <1>7, <1>8 DEF IInv

LEMMA NextInvariant == IInv /\ [Next]_vars => IInv'
<1> SUFFICES ASSUME IInv, [Next]_vars
             PROVE  IInv'
  OBVIOUS
<1>1. Parts /\ RequestsOK
  BY TypeParts DEF IInv
<1>2. LedgerOK' /\ LogOK' /\ Linked' /\ Current' /\ RequestsOK'
  BY <1>1, PartsStep, CurrentStep
<1>3. TypeOK'
  <2>1. TypeOK' <=> Parts'
    BY TypeParts, PTL
  <2> QED
    BY <1>2, <2>1 DEF Parts
<1>4. MovesOnRecord' /\ ActorsMayAct'
  BY <1>1, MovesStep, ActorsStep DEF IInv
<1> QED
  BY <1>2, <1>3, <1>4 DEF IInv

\* The invariant: the state has its type, sessions and requests hold copies of
\* the users, the log and the ledger agree, and all who are in the log could act.
THEOREM HandlersInvariant == Spec => []IInv
<1> QED
  BY InitInvariant, NextInvariant, PTL DEF Spec

\* The state keeps its type, whatever requests run together: accounts within
\* their bounds, owners and users that are linked, a log that fits, and sessions
\* and requests with copies of users who are there.
THEOREM TypeCorrect == Spec => []TypeOK
<1>1. IInv => TypeOK
  BY DEF IInv
<1> QED
  BY <1>1, HandlersInvariant, PTL

\* The ledger and the audit log tell the same story, whichever requests run
\* together, fail or are dropped: every success in the log is a transaction, and
\* until the log is full every transaction is in it.
THEOREM MovesAreOnRecord == Spec => []MovesOnRecord
<1>1. IInv => MovesOnRecord
  BY DEF IInv
<1> QED
  BY <1>1, HandlersInvariant, PTL

\* Everybody who is in the log could do what it says, although the check was
\* made with a copy of the session.
THEOREM ActorsWereEntitled == Spec => []ActorsMayAct
<1>1. IInv => ActorsMayAct
  BY DEF IInv
<1> QED
  BY <1>1, HandlersInvariant, PTL

-----------------------------------------------------------------------------
(* Sessions that have ended.                                               *)

PendingOf(u) == {r \in Requests : Waits(r) /\ request[r].user = u}

LEMMA PendingIs ==
    ASSUME NEW u
    PROVE  /\ IsFiniteSet(PendingOf(u)) /\ IsFiniteSet(PendingOf(u)')
           /\ Pending(u) = Cardinality(PendingOf(u)) /\ Pending(u) \in Nat
           /\ Pending(u)' = Cardinality(PendingOf(u)') /\ Pending(u)' \in Nat
<1>1. PendingOf(u) \subseteq Requests /\ PendingOf(u)' \subseteq Requests
  BY DEF PendingOf
<1>2. IsFiniteSet(PendingOf(u)) /\ IsFiniteSet(PendingOf(u)')
  BY <1>1, RequestsAssumption, FS_Subset
<1>3. Pending(u) = Cardinality(PendingOf(u)) /\ Pending(u)' = Cardinality(PendingOf(u)')
  BY DEF Pending, PendingOf
<1> QED
  BY <1>2, <1>3, FS_CardinalityType

LEMMA FewerPending ==
    ASSUME NEW u, PendingOf(u)' \subseteq PendingOf(u)
    PROVE  Pending(u)' <= Pending(u)
BY PendingIs, FS_Subset

\* An answer takes one request from those that wait for its user.
LEMMA AnswerPending ==
    ASSUME RequestsOK, NEW r \in Requests, Waits(r), Answered(r), NEW u
    PROVE  /\ Pending(u)' <= Pending(u)
           /\ request[r].user = u => Pending(u)' = Pending(u) - 1
<1>1. /\ request'[r] = Idle
      /\ \A q \in Requests : q # r => request'[q] = request[q]
  BY DEF RequestsOK, Answered
<1>2. PendingOf(u)' = PendingOf(u) \ {r}
  BY <1>1 DEF PendingOf, Waits
<1>3. ASSUME request[r].user = u
      PROVE  Pending(u)' = Pending(u) - 1
  <2>1. r \in PendingOf(u)
    BY <1>3 DEF PendingOf
  <2>2. Cardinality(PendingOf(u) \ {r}) = Cardinality(PendingOf(u)) - 1
    BY <2>1, PendingIs, FS_RemoveElement
  <2> QED
    BY <1>2, <2>2, PendingIs
<1> QED
  BY <1>2, <1>3, FewerPending

\* What an answer performs is in the name of the request, once at most.
LEMMA AnswerPerforms ==
    ASSUME LogOK, NEW u, NEW actor,
           UNCHANGED audit_log \/ \E action, target : Audit(Entry(actor, action, target))
    PROVE  /\ Performed(u) \in Nat /\ Performed(u)' \in Nat
           /\ Performed(u)' <= Performed(u) + 1
           /\ actor # u => Performed(u)' = Performed(u)
<1>1. Performed(u) \in Nat
  BY TellsNat
<1>2. CASE UNCHANGED audit_log
  BY <1>1, <1>2, SameLogCounts
<1>3. ASSUME NEW action, NEW target, Lands(Entry(actor, action, target))
      PROVE  /\ Performed(u)' \in Nat
             /\ Performed(u)' <= Performed(u) + 1
             /\ actor # u => Performed(u)' = Performed(u)
  <2> DEFINE e == Entry(actor, action, target)
  <2>1. e.actor = actor
    BY DEF Entry
  <2> HIDE DEF e
  <2>2. Performed(u)' = Performed(u) + IF e.actor = u THEN 1 ELSE 0
    BY <1>3, LandedCounts DEF e
  <2> QED
    BY <1>1, <2>1, <2>2
<1> QED
  BY <1>1, <1>2, <1>3, AuditLands

LEMMA FadingStep ==
    ASSUME Parts, RequestsOK, [Next]_vars, NEW u \in UserIds \ DOMAIN sessions
    PROVE  Pending(u)' + Performed(u)' <= Pending(u) + Performed(u)
<1>0. LogOK
  BY DEF Parts
<1>1. ASSUME NEW r \in Requests, Answers(r),
             UNCHANGED audit_log
               \/ \E action, target : Audit(Entry(request[r].user, action, target))
      PROVE  Pending(u)' + Performed(u)' <= Pending(u) + Performed(u)
  <2>1. /\ Performed(u) \in Nat /\ Performed(u)' \in Nat
        /\ Performed(u)' <= Performed(u) + 1
        /\ request[r].user # u => Performed(u)' = Performed(u)
    <3> DEFINE actor == request[r].user
    <3>1. UNCHANGED audit_log \/ \E action, target : Audit(Entry(actor, action, target))
      BY <1>1
    <3> HIDE DEF actor
    <3>2. /\ Performed(u) \in Nat /\ Performed(u)' \in Nat
          /\ Performed(u)' <= Performed(u) + 1
          /\ actor # u => Performed(u)' = Performed(u)
      BY <1>0, <3>1, AnswerPerforms
    <3> QED
      BY <3>2 DEF actor
  <2>2. /\ Pending(u)' <= Pending(u)
        /\ request[r].user = u => Pending(u)' = Pending(u) - 1
    BY <1>1, AnswerPending DEF Answers
  <2> QED
    BY <2>1, <2>2, PendingIs
<1>2. CASE LeavesApp
  <2>1. Performed(u)' = Performed(u) /\ Performed(u) \in Nat
    BY <1>0, <1>2, SameLogCounts, TellsNat DEF LeavesApp, app
  <2>2. Pending(u)' <= Pending(u)
    <3>1. CASE UNCHANGED request
      <4>1. PendingOf(u)' \subseteq PendingOf(u)
        BY <3>1 DEF PendingOf, Waits
      <4> QED
        BY <4>1, FewerPending
    <3>2. ASSUME NEW r \in Requests, Refuse(r)
          PROVE  Pending(u)' <= Pending(u)
      BY <3>2, AnswerPending DEF Refuse
    <3>3. ASSUME NEW r \in Requests, NEW v \in UserIds, Authenticate(r, v)
          PROVE  Pending(u)' <= Pending(u)
      <4>1. /\ v \in DOMAIN sessions /\ v # u
            /\ request'[r] = sessions[v]
            /\ \A q \in Requests : q # r => request'[q] = request[q]
        BY <3>3 DEF Authenticate, RequestsOK
      <4>2. request'[r].user = v
        BY <4>1 DEF Parts, Current, IsCopy, Identities!SessionOf
      <4>3. PendingOf(u)' \subseteq PendingOf(u)
        BY <4>1, <4>2 DEF PendingOf, Waits
      <4> QED
        BY <4>3, FewerPending
    <3> QED
      BY <1>2, <3>1, <3>2, <3>3 DEF LeavesApp, SessionBegins, SessionEnds, vars
  <2> QED
    BY <2>1, <2>2, PendingIs
<1>3. ASSUME NEW r \in Requests, ChangesIdentities(r)
      PROVE  Pending(u)' + Performed(u)' <= Pending(u) + Performed(u)
  <2>1. \E action, target : Audit(Entry(request[r].user, action, target))
    BY <1>3, Zenon DEF ChangesIdentities
  <2> QED
    BY <1>1, <1>3, <2>1 DEF ChangesIdentities
<1>4. ASSUME NEW r \in Requests, MovesMoney(r)
      PROVE  Pending(u)' + Performed(u)' <= Pending(u) + Performed(u)
  <2>1. UNCHANGED audit_log
          \/ \E action, target : Audit(Entry(request[r].user, action, target))
    BY <1>4, Zenon DEF MovesMoney
  <2> QED
    BY <1>1, <1>4, <2>1 DEF MovesMoney
<1> QED
  BY <1>2, <1>3, <1>4, EveryStep

\* A session that has ended still acts through the requests that had taken a
\* copy of it, and through nothing else.
THEOREM EndedSessionsOnlyFade == Spec => EndedSessionsFadeOut
<1>1. IInv /\ [Next]_vars =>
        [\A u \in UserIds \ DOMAIN sessions :
           Pending(u)' + Performed(u)' <= Pending(u) + Performed(u)]_vars
  BY FadingStep, TypeParts DEF IInv
<1> QED
  BY <1>1, HandlersInvariant, PTL DEF Spec, EndedSessionsFadeOut

-----------------------------------------------------------------------------
(* What the handlers do to the bank and to the identities is what Bank and *)
(* Identity say that these do.                                             *)

LEMMA HandledCall ==
    ASSUME NEW r \in Requests, Handle(r)
    PROVE  /\ [Ledger!Next]_<<accounts, next_transaction_id>>
           /\ [Identities!Create]_identities
<1>1. CASE Refuse(r)
  BY <1>1 DEF Refuse, app, bank, identities
<1>2. ASSUME NEW c \in CustomerIds, CreateCustomer(r, c)
      PROVE  /\ UNCHANGED <<accounts, next_transaction_id>>
             /\ Identities!Create
  BY <1>2 DEF CreateCustomer, AnswersWithIdentity, bank, Identities!Create
<1>3. ASSUME NEW u \in UserIds, NEW role \in Identities!Roles,
             NEW c \in Identities!OptionalCustomers, CreateUser(r, u, role, c)
      PROVE  /\ UNCHANGED <<accounts, next_transaction_id>>
             /\ Identities!Create
  <2>1. Identities!CreateUser(u, u, role, c) /\ UNCHANGED bank
    BY <1>3, Zenon DEF CreateUser, AnswersWithIdentity
  <2>2. Identities!Create
    BY <2>1, Zenon DEF Identities!Create
  <2> QED
    BY <2>1, <2>2 DEF bank
<1>4. ASSUME NEW id \in AccountIds, NEW amount \in Amounts,
             \/ \E owner \in Identities!OptionalCustomers : OpenAccount(r, id, owner, amount)
             \/ Deposit(r, id, amount)
             \/ Withdraw(r, id, amount)
             \/ ApplyFee(r, id, amount)
             \/ RequestLoan(r, id, amount)
             \/ PayLoan(r, id, amount)
             \/ \E to \in AccountIds : Transfer(r, id, to, amount)
      PROVE  Ledger!Next /\ UNCHANGED identities
  <2>1. UNCHANGED identities
    BY <1>4, Zenon DEF OpenAccount, Deposit, Withdraw, ApplyFee, RequestLoan, PayLoan,
                       Transfer, AnswersWithBank
  <2>2. \/ Ledger!CreateAccount(id, amount)
        \/ Ledger!Deposit(id, amount)
        \/ Ledger!Withdraw(id, amount)
        \/ Ledger!ApplyFee(id, amount)
        \/ Ledger!RequestLoan(id, amount)
        \/ Ledger!PayLoan(id, amount)
        \/ \E to \in AccountIds : Ledger!Transfer(id, to, amount)
    BY <1>4, Zenon DEF OpenAccount, CreateAccount, Deposit, Withdraw, ApplyFee, RequestLoan,
                       PayLoan, Transfer
  <2> QED
    BY <2>1, <2>2, Zenon DEF Ledger!Next
<1> QED
  BY <1>1, <1>2, <1>3, <1>4, Zenon DEF Handle

\* A step of the server is a call of the bank, or leaves it alone; and so for the
\* identities.
LEMMA CalledStep ==
    ASSUME [Next]_vars
    PROVE  /\ [Ledger!Next]_<<accounts, next_transaction_id>>
           /\ [Identities!Create]_identities
<1>1. UNCHANGED app => /\ UNCHANGED <<accounts, next_transaction_id>>
                       /\ UNCHANGED identities
  BY DEF app, bank
<1>2. ASSUME NEW u \in UserIds,
             \/ SessionBegins(u) \/ SessionEnds(u)
             \/ \E r \in Requests : Authenticate(r, u)
      PROVE  UNCHANGED app
  BY <1>2 DEF SessionBegins, SessionEnds, Authenticate
<1>3. UNCHANGED vars => UNCHANGED app
  BY DEF vars
<1> QED
  BY <1>1, <1>2, <1>3, HandledCall, Zenon DEF Next

\* Whatever requests run together, the bank changes by calls of the ledger alone,
\* one at a time and with ids and amounts that it may be called with.
THEOREM HandlersCallTheBank == Spec => [][Ledger!Next]_<<accounts, next_transaction_id>>
<1>1. [Next]_vars => [Ledger!Next]_<<accounts, next_transaction_id>>
  BY CalledStep
<1> QED
  BY <1>1, PTL DEF Spec

\* And the identities by the creation of one customer or one user at a time: no
\* handler replaces them or takes one away.
THEOREM HandlersOnlyCreateIdentities == Spec => [][Identities!Create]_identities
<1>1. [Next]_vars => [Identities!Create]_identities
  BY CalledStep
<1> QED
  BY <1>1, PTL DEF Spec

=============================================================================
