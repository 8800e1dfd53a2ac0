--------------------------- MODULE TransferProofs ---------------------------
(***************************************************************************)
(* Theorems about Transfers, for every bank and every pool of threads.     *)
(***************************************************************************)
EXTENDS Transfers, FiniteSetTheorems, TLAPS

(* What waits to be applied moves an amount out of an account of the       *)
(* client that ordered it and into an existing one.                        *)
CoveredAreAuthorised ==
  \A w \in Workers :
    covered[w] # Idle => OwnAccount(covered[w]) /\ covered[w].to \in Accounts

TransferInv == TransferTypeOK /\ CoveredAreAuthorised

LEMMA IdleIsNoOrder == Idle \notin Order
<1> SUFFICES ASSUME Idle \in Order PROVE FALSE
  OBVIOUS
<1>1. DOMAIN Idle = {"idle"}
  BY DEF Idle
<1>2. DOMAIN Idle = {"client", "from", "to", "amount"}
  BY DEF Order
<1> QED BY <1>1, <1>2

(* The effect of apply_transfer on each account, also when it moves money  *)
(* from an account to itself.                                              *)
LEMMA MovedBalances ==
  ASSUME balances \in [Accounts -> Int], NEW o \in Order,
         o.from \in Accounts, o.to \in Accounts
  PROVE  /\ Moved(o) \in [Accounts -> Int]
         /\ \A a \in Accounts : a # o.from => Moved(o)[a] >= balances[a]
         /\ Moved(o)[o.from] >= balances[o.from] - o.amount
<1>1. o.amount \in Nat
  BY BankAssumption DEF Order
<1> QED BY <1>1 DEF Moved, Taken

(* Type correctness of the accounts and of the threads.                    *)
LEMMA TransferInvHolds == TransferSpec => []TransferInv
<1>1. TransferInit => TransferInv
  BY BankAssumption
  DEF TransferInit, TransferInv, TransferTypeOK, CoveredAreAuthorised
<1>2. TransferInv /\ [TransferNext]_transferVars => TransferInv'
  <2> SUFFICES ASSUME TransferInv, [TransferNext]_transferVars
               PROVE  TransferInv'
    OBVIOUS
  <2> USE DEF TransferInv, TransferTypeOK, CoveredAreAuthorised, OwnAccount
  <2>1. ASSUME NEW w \in Workers, NEW o \in Order, Handle(w, o)
        PROVE  TransferInv'
    <3>1. CASE Forbidden(o) \/ UnknownDestination(o) \/ InsufficientFunds(o)
      BY <3>1 DEF Forbidden, UnknownDestination, InsufficientFunds, Refuse
    <3>2. CASE FindFunds(w, o)
      BY <3>2 DEF FindFunds
    <3> QED BY <2>1, <3>1, <3>2 DEF Handle
  <2>2. ASSUME NEW w \in Workers, ApplyTransfer(w)
        PROVE  TransferInv'
    <3>1. covered[w] \in Order /\ covered[w].from \in Accounts
            /\ covered[w].to \in Accounts
      BY <2>2 DEF ApplyTransfer
    <3>2. balances' \in [Accounts -> Int]
      BY <2>2, <3>1, MovedBalances DEF ApplyTransfer
    <3> QED BY <2>2, <3>2 DEF ApplyTransfer
  <2>3. CASE BankRestarts
    BY <2>3, BankAssumption DEF BankRestarts
  <2>4. CASE UNCHANGED transferVars
    BY <2>4 DEF transferVars
  <2> QED BY <2>1, <2>2, <2>3, <2>4 DEF TransferNext
<1> QED BY <1>1, <1>2, PTL DEF TransferSpec

(* Nobody's money moves without an order of its owner, however many        *)
(* threads handle orders at the same time.                                 *)
THEOREM SpendingIsAuthorised == TransferSpec => OnlyOwnersSpend
<1>1. TransferInv /\ [TransferNext]_transferVars =>
        [\A a \in Accounts :
           balances'[a] < balances[a] /\ ~BankRestarts =>
             \E w \in Pending(a) :
               covered[w].client = OwnerOf[a] /\ covered'[w] = Idle]_transferVars
  <2> SUFFICES ASSUME TransferInv, TransferNext, NEW a \in Accounts,
                      balances'[a] < balances[a], ~BankRestarts
               PROVE  \E w \in Pending(a) :
                        covered[w].client = OwnerOf[a] /\ covered'[w] = Idle
    OBVIOUS
  <2> USE DEF TransferInv, TransferTypeOK, CoveredAreAuthorised, OwnAccount
  <2>1. ASSUME NEW w \in Workers, NEW o \in Order, Handle(w, o)
        PROVE  FALSE
    <3>1. balances' = balances
      BY <2>1 DEF Handle, Forbidden, UnknownDestination, InsufficientFunds,
                  FindFunds, Refuse
    <3> QED BY <3>1
  <2>2. ASSUME NEW w \in Workers, ApplyTransfer(w)
        PROVE  \E v \in Pending(a) :
                 covered[v].client = OwnerOf[a] /\ covered'[v] = Idle
    <3>1. covered[w] \in Order /\ covered[w].from \in Accounts
            /\ covered[w].to \in Accounts
      BY <2>2 DEF ApplyTransfer
    <3>2. /\ balances' \in [Accounts -> Int]
          /\ \A b \in Accounts : b # covered[w].from => balances'[b] >= balances[b]
      BY <2>2, <3>1, MovedBalances DEF ApplyTransfer
    <3>3. covered[w].from = a
      <4>1. balances[a] \in Int /\ balances'[a] \in Int
        BY <3>2
      <4>2. ~(balances'[a] >= balances[a])
        BY <4>1
      <4> QED BY <3>2, <4>2
    <3>4. w \in Pending(a)
      BY <2>2, <3>3 DEF ApplyTransfer, Pending
    <3>5. covered'[w] = Idle
      BY <2>2 DEF ApplyTransfer
    <3> QED BY <2>2, <3>3, <3>4, <3>5 DEF ApplyTransfer
  <2> QED BY <2>1, <2>2 DEF TransferNext
<1> QED BY <1>1, TransferInvHolds, PTL DEF TransferSpec, OnlyOwnersSpend

(* What a single worker has found to be covered stays covered until it is  *)
(* applied: nobody else can take it.                                       *)
StillCovered ==
  /\ NeverOverdrawn
  /\ \A w \in Workers :
       covered[w] # Idle => covered[w].amount <= balances[covered[w].from]

(* With one worker the test of the balance does what it is there for.      *)
THEOREM OneWorkerNeverOverdraws ==
  ASSUME NEW only, Workers = {only}
  PROVE  TransferSpec => []NeverOverdrawn
<1> USE DEF StillCovered, NeverOverdrawn
<1>1. TransferInit => StillCovered
  BY BankAssumption DEF TransferInit
<1>2. TransferInv /\ StillCovered /\ [TransferNext]_transferVars => StillCovered'
  <2> SUFFICES ASSUME TransferInv, StillCovered, [TransferNext]_transferVars
               PROVE  StillCovered'
    OBVIOUS
  <2> USE DEF TransferInv, TransferTypeOK, CoveredAreAuthorised, OwnAccount
  <2>1. ASSUME NEW o \in Order, Handle(only, o)
        PROVE  StillCovered'
    <3>1. CASE Forbidden(o) \/ UnknownDestination(o) \/ InsufficientFunds(o)
      BY <3>1 DEF Forbidden, UnknownDestination, InsufficientFunds, Refuse
    <3>2. CASE FindFunds(only, o)
      <4>1. balances' = balances /\ covered'[only] = o
        BY <3>2 DEF FindFunds
      <4>2. o.amount <= balances[o.from]
        BY <3>2, BankAssumption DEF FindFunds, Funded, Order
      <4> QED BY <4>1, <4>2
    <3> QED BY <2>1, <3>1, <3>2 DEF Handle
  <2>2. ASSUME ApplyTransfer(only)
        PROVE  StillCovered'
    <3>1. covered[only] \in Order /\ covered[only].from \in Accounts
            /\ covered[only].to \in Accounts /\ covered[only].amount \in Nat
      <4>1. covered[only] \in Order
        BY <2>2 DEF ApplyTransfer
      <4>2. covered[only].amount \in Nat
        BY <4>1, BankAssumption DEF Order
      <4> QED BY <2>2, <4>1, <4>2 DEF ApplyTransfer
    <3>2. /\ balances' \in [Accounts -> Int]
          /\ \A a \in Accounts : a # covered[only].from => balances'[a] >= balances[a]
          /\ balances'[covered[only].from]
               >= balances[covered[only].from] - covered[only].amount
      BY <2>2, <3>1, MovedBalances DEF ApplyTransfer
    <3>3. covered[only].amount <= balances[covered[only].from]
      BY <2>2 DEF ApplyTransfer
    <3>4. NeverOverdrawn'
      BY <3>1, <3>2, <3>3
    <3>5. covered'[only] = Idle
      BY <2>2 DEF ApplyTransfer
    <3> QED BY <3>4, <3>5
  <2>3. CASE BankRestarts
    BY <2>3, BankAssumption DEF BankRestarts
  <2>4. CASE UNCHANGED transferVars
    BY <2>4 DEF transferVars
  <2> QED BY <2>1, <2>2, <2>3, <2>4 DEF TransferNext
<1> QED BY <1>1, <1>2, TransferInvHolds, PTL DEF TransferSpec

(***************************************************************************)
(* Sums.  The library sums up a function by a recursive function on the    *)
(* subsets of its domain.  That there is such a function, and what it      *)
(* computes, follows from the smallest subset on which it would not do so. *)
(***************************************************************************)
LEMMA SmallestNumber ==
  ASSUME NEW B, B \subseteq Nat, B # {}
  PROVE  \E n \in B : \A m \in B : ~(m < n)
<1>1. PICK n \in B : \A m \in B : <<m, n>> \notin OpToRel(<, Nat)
  BY NatLessThanWellFounded, WFMin
<1> QED BY <1>1 DEF OpToRel

LEMMA SmallestSubset ==
  ASSUME NEW S, IsFiniteSet(S), NEW B, B \subseteq SUBSET S, B # {}
  PROVE  \E T \in B : \A U \in B : U \subseteq T => U = T
<1>1. IsWellFoundedOn(StrictSubsetOrdering(S), SUBSET S)
  BY FS_StrictSubsetOrderingWellFounded, FS_FiniteSubsetsOfFinite
<1>2. PICK T \in B : \A U \in B : <<U, T>> \notin StrictSubsetOrdering(S)
  BY <1>1, WFMin
<1> QED BY <1>2 DEF StrictSubsetOrdering

First(s) == CHOOSE x \in s : TRUE

IsSum(g, f, S) ==
  g = [s \in SUBSET S |-> IF s = {} THEN 0 ELSE f[First(s)] + g[s \ {First(s)}]]

LEMMA SumUnfold ==
  ASSUME NEW f, NEW S
  PROVE  SumFunctionOnSet(f, S) = (CHOOSE g : IsSum(g, f, S))[S]
BY DEF SumFunctionOnSet, FoldFunctionOnSet, MapThenFoldSet, IsSum, First

LEMMA FirstRemoved ==
  ASSUME NEW s, IsFiniteSet(s), s # {}
  PROVE  /\ First(s) \in s
         /\ IsFiniteSet(s \ {First(s)})
         /\ Cardinality(s) \in Nat /\ Cardinality(s \ {First(s)}) = Cardinality(s) - 1
         /\ Cardinality(s) # 0
<1>1. First(s) \in s
  BY DEF First
<1> QED BY <1>1, FS_RemoveElement, FS_CardinalityType, FS_EmptySet

(* g sums up f on the subsets of S that have up to n elements.             *)
SumsUpTo(g, f, S, n) ==
  \A s \in SUBSET S :
    Cardinality(s) <= n =>
      g[s] = IF s = {} THEN 0 ELSE f[First(s)] + g[s \ {First(s)}]

LEMMA SumExists ==
  ASSUME NEW S, IsFiniteSet(S), NEW f \in [S -> Int]
  PROVE  \E g \in [SUBSET S -> Int] : IsSum(g, f, S)
<1> DEFINE B == {n \in Nat : ~ \E g \in [SUBSET S -> Int] : SumsUpTo(g, f, S, n)}
           Next(g) == [s \in SUBSET S |->
                         IF s = {} THEN 0 ELSE f[First(s)] + g[s \ {First(s)}]]
<1>1. \A s \in SUBSET S : IsFiniteSet(s) /\ Cardinality(s) \in Nat
  BY FS_Subset, FS_CardinalityType
<1>2. ASSUME NEW g \in [SUBSET S -> Int]
      PROVE  Next(g) \in [SUBSET S -> Int]
  <2>1. \A s \in SUBSET S :
          s # {} => f[First(s)] \in Int /\ g[s \ {First(s)}] \in Int
    BY <1>1, FirstRemoved
  <2> QED BY <2>1
<1>3. 0 \notin B
  <2> DEFINE g == [s \in SUBSET S |-> 0]
  <2>1. SumsUpTo(g, f, S, 0)
    BY <1>1, FS_EmptySet DEF SumsUpTo
  <2> QED BY <2>1
<1>4. ASSUME NEW n \in Nat, n \notin B
      PROVE  n + 1 \notin B
  <2>1. PICK g \in [SUBSET S -> Int] : SumsUpTo(g, f, S, n)
    BY <1>4
  <2> DEFINE h == Next(g)
  <2>2. h \in [SUBSET S -> Int]
    BY <1>2
  <2>3. ASSUME NEW s \in SUBSET S, Cardinality(s) <= n
        PROVE  h[s] = g[s]
    BY <2>1, <2>3 DEF SumsUpTo
  <2>4. ASSUME NEW s \in SUBSET S, Cardinality(s) <= n + 1, s # {}
        PROVE  h[s] = f[First(s)] + h[s \ {First(s)}]
    <3>1. h[s] = f[First(s)] + g[s \ {First(s)}]
      BY <2>4
    <3>2. Cardinality(s \ {First(s)}) <= n
      BY <1>1, <2>4, FirstRemoved
    <3>3. h[s \ {First(s)}] = g[s \ {First(s)}]
      BY <2>3, <3>2
    <3> QED BY <3>1, <3>3
  <2>5. h[{}] = 0
    OBVIOUS
  <2>6. SumsUpTo(h, f, S, n + 1)
    <3> HIDE DEF h
    <3> QED BY <2>4, <2>5 DEF SumsUpTo
  <2> HIDE DEF h
  <2> QED BY <2>2, <2>6
<1>5. B = {}
  <2> HIDE DEF B
  <2>1. B \subseteq Nat
    BY DEF B
  <2>2. ASSUME B # {}
        PROVE  FALSE
    <3>1. PICK n \in B : \A m \in B : ~(m < n)
      BY <2>1, <2>2, SmallestNumber
    <3>2. n # 0 /\ n \in Nat
      BY <1>3, <2>1, <3>1
    <3>3. n - 1 \in Nat /\ n - 1 \notin B
      BY <2>1, <3>1, <3>2
    <3>4. (n - 1) + 1 \notin B
      BY <1>4, <3>3
    <3> QED BY <3>1, <3>2, <3>4
  <2> QED BY <2>2
<1>6. PICK g \in [SUBSET S -> Int] : SumsUpTo(g, f, S, Cardinality(S))
  BY <1>1, <1>5
<1>7. \A s \in SUBSET S : Cardinality(s) <= Cardinality(S)
  BY FS_Subset
<1>8. g = Next(g)
  BY <1>6, <1>7 DEF SumsUpTo
<1> QED BY <1>8 DEF IsSum

(* What the fold of the library computes: g[S] for such a g.               *)
AddsUp(g, f, S) ==
  /\ g[{}] = 0
  /\ \A s \in SUBSET S :
       s # {} => First(s) \in s /\ g[s] = f[First(s)] + g[s \ {First(s)}]

LEMMA SumIs ==
  ASSUME NEW S, IsFiniteSet(S), NEW f \in [S -> Int]
  PROVE  \E g \in [SUBSET S -> Int] : SumFunctionOnSet(f, S) = g[S] /\ AddsUp(g, f, S)
<1> DEFINE g == CHOOSE h : IsSum(h, f, S)
<1>1. PICK k \in [SUBSET S -> Int] : IsSum(k, f, S)
  BY SumExists
<1>2. IsSum(g, f, S)
  BY <1>1
<1>3. SumFunctionOnSet(f, S) = g[S]
  BY SumUnfold
<1> HIDE DEF g
<1>4. /\ g[{}] = 0
      /\ \A s \in SUBSET S : s # {} => g[s] = f[First(s)] + g[s \ {First(s)}]
  BY <1>2 DEF IsSum
<1>5. \A s \in SUBSET S : s # {} => First(s) \in s
  BY DEF First
<1>6. \A s \in SUBSET S : g[s] \in Int
  <2> DEFINE B == {s \in SUBSET S : g[s] \notin Int}
  <2>1. ASSUME NEW s \in B
        PROVE  \E t \in B : t \subseteq s /\ t # s
    <3>1. s # {} /\ First(s) \in s
      <4>1. g[{}] \in Int
        BY <1>4
      <4>2. s # {}
        BY <4>1
      <4> QED BY <1>5, <4>2
    <3>2. f[First(s)] \in Int /\ g[s] = f[First(s)] + g[s \ {First(s)}]
      BY <1>4, <3>1
    <3>3. g[s \ {First(s)}] \notin Int
      BY <3>2
    <3> QED BY <3>1, <3>3
  <2>2. B \subseteq SUBSET S
    OBVIOUS
  <2> HIDE DEF B
  <2>3. B = {}
    BY <2>1, <2>2, SmallestSubset
  <2> QED BY <2>3 DEF B
<1>7. g \in [SUBSET S -> Int]
  BY <1>2, <1>6 DEF IsSum
<1> QED BY <1>3, <1>4, <1>5, <1>7 DEF AddsUp

(* Adding d to one of the summands adds d to the sum.                      *)
LEMMA SumOfChanged ==
  ASSUME NEW S, IsFiniteSet(S), NEW f \in [S -> Int], NEW h \in [S -> Int],
         NEW a \in S, NEW d \in Int,
         \A x \in S : h[x] = IF x = a THEN f[x] + d ELSE f[x]
  PROVE  /\ SumFunctionOnSet(f, S) \in Int
         /\ SumFunctionOnSet(h, S) = SumFunctionOnSet(f, S) + d
<1>1. PICK g \in [SUBSET S -> Int] :
        SumFunctionOnSet(f, S) = g[S] /\ AddsUp(g, f, S)
  BY SumIs
<1>2. PICK k \in [SUBSET S -> Int] :
        SumFunctionOnSet(h, S) = k[S] /\ AddsUp(k, h, S)
  BY SumIs
<1> DEFINE B == {s \in SUBSET S : k[s] # g[s] + (IF a \in s THEN d ELSE 0)}
<1>3. ASSUME NEW s \in B
      PROVE  \E t \in B : t \subseteq s /\ t # s
  <2>1. s # {}
    <3>1. k[{}] = 0 /\ g[{}] = 0
      BY <1>1, <1>2 DEF AddsUp
    <3>2. k[{}] = g[{}] + (IF a \in {} THEN d ELSE 0)
      BY <3>1
    <3> QED BY <3>2
  <2> DEFINE x == First(s)
             t == s \ {x}
  <2>2. /\ x \in s /\ x \in S /\ t \in SUBSET S
        /\ g[s] = f[x] + g[t] /\ k[s] = h[x] + k[t]
    BY <1>1, <1>2, <2>1 DEF AddsUp
  <2>3. f[x] \in Int /\ g[t] \in Int /\ k[t] \in Int
    BY <2>2
  <2>4. k[t] # g[t] + (IF a \in t THEN d ELSE 0)
    <3> HIDE DEF x
    <3>1. CASE x = a
      BY <2>2, <2>3, <3>1
    <3>2. CASE x # a
      BY <2>2, <2>3, <3>2
    <3> QED BY <3>1, <3>2
  <2> QED BY <2>2, <2>4
<1>4. B \subseteq SUBSET S
  OBVIOUS
<1> HIDE DEF B
<1>5. B = {}
  BY <1>3, <1>4, SmallestSubset
<1> QED BY <1>1, <1>2, <1>5 DEF B

LEMMA SumOfNothing ==
  ASSUME NEW S, IsFiniteSet(S), NEW f \in [S -> Int], \A x \in S : f[x] = 0
  PROVE  SumFunctionOnSet(f, S) = 0
<1>1. PICK g \in [SUBSET S -> Int] :
        SumFunctionOnSet(f, S) = g[S] /\ AddsUp(g, f, S)
  BY SumIs
<1> DEFINE B == {s \in SUBSET S : g[s] # 0}
<1>2. ASSUME NEW s \in B
      PROVE  \E t \in B : t \subseteq s /\ t # s
  <2>1. s # {}
    BY <1>1 DEF AddsUp
  <2> DEFINE x == First(s)
             t == s \ {x}
  <2>2. /\ x \in s /\ x \in S /\ t \in SUBSET S
        /\ g[s] = f[x] + g[t]
    BY <1>1, <2>1 DEF AddsUp
  <2>3. g[t] # 0
    BY <2>2
  <2> QED BY <2>2, <2>3
<1>3. B \subseteq SUBSET S
  OBVIOUS
<1> HIDE DEF B
<1>4. B = {}
  BY <1>2, <1>3, SmallestSubset
<1> QED BY <1>1, <1>4 DEF B

(* Summands between 0 and m, and a 0 among them.                           *)
LEMMA SumBounded ==
  ASSUME NEW S, IsFiniteSet(S), NEW f \in [S -> Nat], NEW m \in Nat,
         \A x \in S : f[x] <= m,
         NEW a \in S, f[a] = 0
  PROVE  SumFunctionOnSet(f, S) <= (Cardinality(S) - 1) * m
<1>1. PICK g \in [SUBSET S -> Int] :
        SumFunctionOnSet(f, S) = g[S] /\ AddsUp(g, f, S)
  <2>1. f \in [S -> Int]
    OBVIOUS
  <2> QED BY <2>1, SumIs
<1>2. \A s \in SUBSET S : IsFiniteSet(s \ {a}) /\ Cardinality(s \ {a}) \in Nat
  BY FS_Subset, FS_CardinalityType
<1> DEFINE B == {s \in SUBSET S : ~(g[s] <= Cardinality(s \ {a}) * m)}
<1>3. ASSUME NEW s \in B
      PROVE  \E t \in B : t \subseteq s /\ t # s
  <2> DEFINE x == First(s)
             t == s \ {x}
  <2>1. s # {}
    <3>1. {} \ {a} = {} /\ 0 * m = 0
      OBVIOUS
    <3>2. g[{}] <= Cardinality({} \ {a}) * m
      BY <1>1, <3>1, FS_EmptySet DEF AddsUp
    <3> QED BY <3>2
  <2>2. /\ x \in s /\ x \in S /\ t \in SUBSET S
        /\ g[s] = f[x] + g[t]
    BY <1>1, <2>1 DEF AddsUp
  <2> HIDE DEF x
  <2>3. f[x] \in Nat /\ g[t] \in Int /\ f[x] <= m
    BY <2>2
  <2>4. ~(g[t] <= Cardinality(t \ {a}) * m)
    <3>1. CASE x = a
      <4>1. t \ {a} = s \ {a} /\ f[x] = 0
        BY <3>1
      <4>2. g[s] = g[t]
        BY <2>2, <2>3, <4>1
      <4> QED BY <4>1, <4>2
    <3>2. CASE x # a
      <4>1. PICK k \in Nat : k = Cardinality(t \ {a})
        BY <1>2, <2>2
      <4>2. s \ {a} = (t \ {a}) \cup {x} /\ x \notin t \ {a}
        BY <2>2, <3>2
      <4>3. Cardinality(s \ {a}) = k + 1
        BY <1>2, <2>2, <4>1, <4>2, FS_AddElement
      <4>4. (k + 1) * m = k * m + m /\ k * m \in Int
        BY <4>1
      <4>5. ~(f[x] + g[t] <= k * m + m)
        BY <2>2, <4>3, <4>4
      <4>6. ~(g[t] <= k * m)
        BY <2>3, <4>4, <4>5
      <4> QED BY <4>1, <4>6
    <3> QED BY <3>1, <3>2
  <2>5. t \in B /\ t \subseteq s /\ t # s
    BY <2>2, <2>4
  <2> QED BY <2>5
<1>4. B \subseteq SUBSET S
  OBVIOUS
<1>5. B = {}
  <2> HIDE DEF B
  <2> QED BY <1>3, <1>4, SmallestSubset
<1>6. g[S] <= Cardinality(S \ {a}) * m
  BY <1>5
<1>7. Cardinality(S \ {a}) = Cardinality(S) - 1
  BY FS_RemoveElement
<1> QED BY <1>1, <1>6, <1>7

(***************************************************************************)
(* The money in the bank.                                                  *)
(***************************************************************************)
LEMMA MovedTotal ==
  ASSUME balances \in [Accounts -> Int], NEW o \in Order,
         o.from \in Accounts, o.to \in Accounts
  PROVE  SumFunctionOnSet(Moved(o), Accounts) = SumFunctionOnSet(balances, Accounts)
<1>1. o.amount \in Int /\ -o.amount \in Int /\ IsFiniteSet(Accounts)
  <2>1. o.amount \in Nat
    BY BankAssumption DEF Order
  <2> QED BY <2>1, BankAssumption
<1>2. /\ Taken(o) \in [Accounts -> Int]
      /\ \A x \in Accounts :
           Taken(o)[x] = IF x = o.from THEN balances[x] + (-o.amount) ELSE balances[x]
  BY <1>1 DEF Taken
<1>3. /\ Moved(o) \in [Accounts -> Int]
      /\ \A x \in Accounts :
           Moved(o)[x] = IF x = o.to THEN Taken(o)[x] + o.amount ELSE Taken(o)[x]
  BY <1>1, <1>2 DEF Moved
<1>4. /\ SumFunctionOnSet(balances, Accounts) \in Int
      /\ SumFunctionOnSet(Taken(o), Accounts)
           = SumFunctionOnSet(balances, Accounts) + (-o.amount)
  BY <1>1, <1>2, SumOfChanged
<1>5. SumFunctionOnSet(Moved(o), Accounts)
        = SumFunctionOnSet(Taken(o), Accounts) + o.amount
  BY <1>1, <1>2, <1>3, SumOfChanged
<1> QED BY <1>1, <1>4, <1>5

(* Money is neither made nor lost, for any number of accounts and threads, *)
(* although both balances of a transfer are changed without a lock.        *)
THEOREM MoneyIsConserved == TransferSpec => []TotalConserved
<1> DEFINE Conserved ==
             SumFunctionOnSet(balances, Accounts)
               = SumFunctionOnSet(OpeningBalance, Accounts)
<1>1. TransferInit => Conserved
  BY DEF TransferInit
<1>2. TransferInv /\ Conserved /\ [TransferNext]_transferVars => Conserved'
  <2> SUFFICES ASSUME TransferInv, Conserved, [TransferNext]_transferVars
               PROVE  Conserved'
    OBVIOUS
  <2>1. CASE balances' = balances \/ balances' = OpeningBalance
    BY <2>1
  <2>2. ASSUME NEW w \in Workers, ApplyTransfer(w)
        PROVE  Conserved'
    <3>1. /\ balances \in [Accounts -> Int] /\ covered[w] \in Order
          /\ covered[w].from \in Accounts /\ covered[w].to \in Accounts
          /\ balances' = Moved(covered[w])
      BY <2>2
      DEF ApplyTransfer, TransferInv, TransferTypeOK, CoveredAreAuthorised, OwnAccount
    <3> QED BY <3>1, MovedTotal
  <2> QED
    BY <2>1, <2>2
    DEF TransferNext, Handle, Forbidden, UnknownDestination, InsufficientFunds,
        FindFunds, Refuse, BankRestarts, transferVars
<1>3. TransferInv /\ Conserved => TotalConserved
  BY BankAssumption DEF TransferInv, TransferTypeOK, TotalConserved, SumFunction
<1> HIDE DEF Conserved
<1> QED BY <1>1, <1>2, <1>3, TransferInvHolds, PTL DEF TransferSpec

(***************************************************************************)
(* Overdrafts.                                                             *)
(***************************************************************************)

(* What each worker takes from an account when it applies its order, of    *)
(* those in c.                                                             *)
Takes(c, a) ==
  [w \in Workers |-> IF c[w] # Idle /\ c[w].from = a THEN c[w].amount ELSE 0]

LEMMA TakesTyped ==
  ASSUME NEW c \in [Workers -> Order \cup {Idle}], NEW a \in Accounts
  PROVE  /\ Takes(c, a) \in [Workers -> Nat] /\ Takes(c, a) \in [Workers -> Int]
         /\ \A w \in Workers :
              /\ c[w] = Idle => Takes(c, a)[w] = 0
              /\ c[w] # Idle =>
                   Takes(c, a)[w] = IF c[w].from = a THEN c[w].amount ELSE 0
         /\ \A largest \in Amounts :
              (\A amount \in Amounts : amount <= largest) =>
                \A w \in Workers : Takes(c, a)[w] <= largest
<1>1. \A w \in Workers : c[w] # Idle => c[w].amount \in Amounts
  BY DEF Order
<1>2. Amounts \subseteq Nat
  BY BankAssumption
<1>3. Takes(c, a) \in [Workers -> Nat]
  BY <1>1, <1>2 DEF Takes
<1>4. \A w \in Workers :
        /\ c[w] = Idle => Takes(c, a)[w] = 0
        /\ c[w] # Idle => Takes(c, a)[w] = IF c[w].from = a THEN c[w].amount ELSE 0
  BY DEF Takes
<1>5. Takes(c, a) \in [Workers -> Int]
  BY <1>3
<1>6. ASSUME NEW largest \in Amounts, \A amount \in Amounts : amount <= largest,
             NEW w \in Workers
      PROVE  Takes(c, a)[w] <= largest
  <2>1. largest \in Nat
    BY <1>2
  <2>2. c[w] # Idle => c[w].amount <= largest
    BY <1>1, <1>6
  <2> QED BY <1>4, <2>1, <2>2
<1> QED BY <1>3, <1>4, <1>5, <1>6

LEMMA PendingIsTaken ==
  ASSUME NEW a \in Accounts
  PROVE  /\ PendingAmount(a) = SumFunctionOnSet(Takes(covered, a), Workers)
         /\ PendingAmount(a)' = SumFunctionOnSet(Takes(covered', a), Workers)
<1>1. /\ [w \in Workers |-> IF w \in Pending(a) THEN covered[w].amount ELSE 0]
           = Takes(covered, a)
      /\ [w \in Workers |-> IF w \in Pending(a)' THEN covered'[w].amount ELSE 0]
           = Takes(covered', a)
  BY DEF Takes, Pending
<1> QED BY <1>1 DEF PendingAmount

LEMMA OneMoreTaken ==
  ASSUME NEW f \in [Workers -> Nat], NEW h \in [Workers -> Int],
         NEW w \in Workers, NEW d \in Int,
         \A v \in Workers : h[v] = IF v = w THEN f[v] + d ELSE f[v]
  PROVE  /\ SumFunctionOnSet(f, Workers) \in Int
         /\ SumFunctionOnSet(h, Workers) = SumFunctionOnSet(f, Workers) + d
<1>1. IsFiniteSet(Workers)
  BY BankAssumption
<1>2. f \in [Workers -> Int]
  OBVIOUS
<1> QED BY <1>1, <1>2, SumOfChanged

(* Two states that differ in one worker, with no order in c and o in e.     *)
LEMMA OneMoreOrder ==
  ASSUME NEW c \in [Workers -> Order \cup {Idle}],
         NEW e \in [Workers -> Order \cup {Idle}],
         NEW w \in Workers, NEW o \in Order, NEW a \in Accounts,
         c[w] = Idle, e[w] = o, \A v \in Workers : v # w => e[v] = c[v]
  PROVE  /\ SumFunctionOnSet(Takes(c, a), Workers) \in Int
         /\ SumFunctionOnSet(Takes(e, a), Workers)
              = SumFunctionOnSet(Takes(c, a), Workers)
                  + IF o.from = a THEN o.amount ELSE 0
         /\ \A largest \in Amounts :
              (\A amount \in Amounts : amount <= largest) =>
                SumFunctionOnSet(Takes(c, a), Workers)
                  <= (Cardinality(Workers) - 1) * largest
<1>1. o.amount \in Nat /\ IsFiniteSet(Workers) /\ o # Idle /\ Amounts \subseteq Nat
  <2>1. o.amount \in Amounts
    BY DEF Order
  <2> QED BY <2>1, BankAssumption, IdleIsNoOrder
<1>2. PICK d \in Int : d = IF o.from = a THEN o.amount ELSE 0
  BY <1>1
<1>3. PICK f \in [Workers -> Nat] :
        /\ f = Takes(c, a) /\ f[w] = 0
        /\ \A largest \in Amounts :
             (\A amount \in Amounts : amount <= largest) =>
               \A v \in Workers : f[v] <= largest
  BY TakesTyped
<1>4. PICK h \in [Workers -> Int] : h = Takes(e, a)
  BY TakesTyped
<1>5. \A v \in Workers : h[v] = IF v = w THEN f[v] + d ELSE f[v]
  BY <1>1, <1>2, <1>3, <1>4 DEF Takes
<1>6. f \in [Workers -> Int]
  OBVIOUS
<1>7. /\ SumFunctionOnSet(f, Workers) \in Int
      /\ SumFunctionOnSet(h, Workers) = SumFunctionOnSet(f, Workers) + d
  BY <1>5, OneMoreTaken
<1>8. ASSUME NEW largest \in Amounts, \A amount \in Amounts : amount <= largest
      PROVE  SumFunctionOnSet(f, Workers) <= (Cardinality(Workers) - 1) * largest
  BY <1>1, <1>3, <1>8, SumBounded
<1> QED BY <1>2, <1>3, <1>4, <1>7, <1>8

LEMMA LargestDebt ==
  ASSUME NEW largest \in Amounts
  PROVE  (Cardinality(Workers) - 1) * largest \in Nat
<1>1. Cardinality(Workers) \in Nat /\ Cardinality(Workers) # 0
  BY BankAssumption, FS_CardinalityType, FS_EmptySet
<1>2. PICK k \in Nat : k = Cardinality(Workers) - 1
  BY <1>1
<1>3. largest \in Nat
  BY BankAssumption
<1>4. \A m, n \in Nat : m * n \in Nat
  OBVIOUS
<1> QED BY <1>2, <1>3, <1>4

(* An order is found to be covered while its worker had none: all others   *)
(* together have at most their share of what the bound allows.             *)
LEMMA FindFundsBounded ==
  ASSUME TransferInv, TransferInv', OverdraftBounded,
         NEW w \in Workers, NEW o \in Order, Handle(w, o), FindFunds(w, o)
  PROVE  OverdraftBounded'
<1>1. /\ covered[w] = Idle /\ o.from \in Accounts
      /\ covered' = [covered EXCEPT ![w] = o] /\ balances' = balances
      /\ balances[o.from] >= o.amount
  BY DEF Handle, FindFunds, OwnAccount, Funded
<1>2. /\ balances \in [Accounts -> Int]
      /\ covered \in [Workers -> Order \cup {Idle}]
      /\ covered' \in [Workers -> Order \cup {Idle}]
      /\ o.amount \in Nat
  BY BankAssumption DEF TransferInv, TransferTypeOK, Order
<1> SUFFICES ASSUME NEW a \in Accounts, NEW largest \in Amounts,
                    \A amount \in Amounts : amount <= largest
             PROVE  balances'[a] - PendingAmount(a)'
                      >= -((Cardinality(Workers) - 1) * largest)
  BY DEF OverdraftBounded
<1>3. covered'[w] = o /\ \A v \in Workers : v # w => covered'[v] = covered[v]
  BY <1>1, <1>2
<1>4. /\ PendingAmount(a) \in Int
      /\ PendingAmount(a)' = PendingAmount(a) + IF o.from = a THEN o.amount ELSE 0
      /\ PendingAmount(a) <= (Cardinality(Workers) - 1) * largest
  <2>1. PICK c \in [Workers -> Order \cup {Idle}], e \in [Workers -> Order \cup {Idle}] :
          c = covered /\ e = covered'
    BY <1>2
  <2>2. c[w] = Idle /\ e[w] = o /\ \A v \in Workers : v # w => e[v] = c[v]
    BY <1>1, <1>3, <2>1
  <2>3. /\ SumFunctionOnSet(Takes(c, a), Workers) \in Int
        /\ SumFunctionOnSet(Takes(e, a), Workers)
             = SumFunctionOnSet(Takes(c, a), Workers)
                 + IF o.from = a THEN o.amount ELSE 0
        /\ SumFunctionOnSet(Takes(c, a), Workers)
             <= (Cardinality(Workers) - 1) * largest
    BY <2>2, OneMoreOrder
  <2> QED BY <2>1, <2>3, PendingIsTaken
<1>5. PICK bound \in Int : bound = (Cardinality(Workers) - 1) * largest
  BY LargestDebt
<1>6. balances[a] - PendingAmount(a) >= -bound
  BY <1>5 DEF OverdraftBounded
<1>7. balances[a] \in Int /\ balances'[a] = balances[a]
  BY <1>1, <1>2
<1>8. CASE o.from = a
  <2>1. balances[a] >= o.amount /\ PendingAmount(a)' = PendingAmount(a) + o.amount
    BY <1>1, <1>4, <1>8
  <2>2. balances[a] - (PendingAmount(a) + o.amount) >= -bound
    BY <1>2, <1>4, <1>5, <1>7, <2>1
  <2> QED BY <1>5, <1>7, <2>1, <2>2
<1>9. CASE o.from # a
  <2>1. PendingAmount(a)' = PendingAmount(a)
    BY <1>4, <1>9
  <2> QED BY <1>5, <1>6, <1>7, <2>1
<1> QED BY <1>8, <1>9

(* What is applied leaves the account and what is pending by the same      *)
(* amount; what arrives only helps.                                        *)
LEMMA ApplyBounded ==
  ASSUME TransferInv, TransferInv', OverdraftBounded,
         NEW w \in Workers, ApplyTransfer(w)
  PROVE  OverdraftBounded'
<1>1. PICK o \in Order :
        /\ o = covered[w] /\ o.from \in Accounts /\ o.to \in Accounts
        /\ covered' = [covered EXCEPT ![w] = Idle]
        /\ balances' = Moved(o)
  BY DEF ApplyTransfer, TransferInv, TransferTypeOK, CoveredAreAuthorised, OwnAccount
<1>2. /\ balances \in [Accounts -> Int]
      /\ covered \in [Workers -> Order \cup {Idle}]
      /\ covered' \in [Workers -> Order \cup {Idle}]
      /\ o.amount \in Nat
  BY BankAssumption DEF TransferInv, TransferTypeOK, Order
<1> SUFFICES ASSUME NEW a \in Accounts, NEW largest \in Amounts,
                    \A amount \in Amounts : amount <= largest
             PROVE  balances'[a] - PendingAmount(a)'
                      >= -((Cardinality(Workers) - 1) * largest)
  BY DEF OverdraftBounded
<1>3. covered'[w] = Idle /\ \A v \in Workers : v # w => covered[v] = covered'[v]
  BY <1>1, <1>2
<1>4. /\ PendingAmount(a)' \in Int
      /\ PendingAmount(a) = PendingAmount(a)' + IF o.from = a THEN o.amount ELSE 0
  <2>1. PICK c \in [Workers -> Order \cup {Idle}], e \in [Workers -> Order \cup {Idle}] :
          c = covered' /\ e = covered
    BY <1>2
  <2>2. c[w] = Idle /\ e[w] = o /\ \A v \in Workers : v # w => e[v] = c[v]
    BY <1>1, <1>3, <2>1
  <2>3. /\ SumFunctionOnSet(Takes(c, a), Workers) \in Int
        /\ SumFunctionOnSet(Takes(e, a), Workers)
             = SumFunctionOnSet(Takes(c, a), Workers)
                 + IF o.from = a THEN o.amount ELSE 0
    BY <2>2, OneMoreOrder
  <2> QED BY <2>1, <2>3, PendingIsTaken
<1>5. PICK bound \in Int : bound = (Cardinality(Workers) - 1) * largest
  BY LargestDebt
<1>6. balances[a] - PendingAmount(a) >= -bound
  BY <1>5 DEF OverdraftBounded
<1>7. /\ balances[a] \in Int /\ balances'[a] \in Int
      /\ balances'[a] >= balances[a] - IF o.from = a THEN o.amount ELSE 0
  <2>1. /\ Moved(o) \in [Accounts -> Int]
        /\ \A x \in Accounts : x # o.from => Moved(o)[x] >= balances[x]
        /\ Moved(o)[o.from] >= balances[o.from] - o.amount
    BY <1>1, <1>2, MovedBalances
  <2> QED BY <1>1, <1>2, <2>1
<1>8. CASE o.from = a
  BY <1>2, <1>4, <1>5, <1>6, <1>7, <1>8
<1>9. CASE o.from # a
  BY <1>4, <1>5, <1>6, <1>7, <1>9
<1> QED BY <1>8, <1>9

(* With nothing pending and no account overdrawn, as at every start.       *)
LEMMA StartBounded ==
  ASSUME NEW b, NEW c, b = OpeningBalance, \A w \in Workers : c[w] = Idle,
         NEW a \in Accounts, NEW largest \in Amounts
  PROVE  b[a] - SumFunctionOnSet(Takes(c, a), Workers)
           >= -((Cardinality(Workers) - 1) * largest)
<1>1. Takes(c, a) \in [Workers -> Int] /\ \A w \in Workers : Takes(c, a)[w] = 0
  BY DEF Takes
<1>2. SumFunctionOnSet(Takes(c, a), Workers) = 0
  BY <1>1, BankAssumption, SumOfNothing
<1>3. b[a] \in Nat
  BY BankAssumption
<1>4. PICK bound \in Nat : bound = (Cardinality(Workers) - 1) * largest
  BY LargestDebt
<1> QED BY <1>2, <1>3, <1>4

(* However many threads handle orders at the same time, an account is      *)
(* overdrawn by no more than the others' orders amount to.                 *)
THEOREM OverdraftsAreBounded == TransferSpec => []OverdraftBounded
<1>1. TransferInit => OverdraftBounded
  <2> SUFFICES ASSUME TransferInit PROVE OverdraftBounded
    OBVIOUS
  <2>1. balances = OpeningBalance /\ \A w \in Workers : covered[w] = Idle
    BY DEF TransferInit
  <2> QED BY <2>1, StartBounded, PendingIsTaken DEF OverdraftBounded
<1>2. TransferInv /\ TransferInv' /\ OverdraftBounded /\ [TransferNext]_transferVars
        => OverdraftBounded'
  <2> SUFFICES ASSUME TransferInv, TransferInv', OverdraftBounded,
                      [TransferNext]_transferVars
               PROVE  OverdraftBounded'
    OBVIOUS
  <2>1. CASE UNCHANGED <<balances, covered>>
    BY <2>1 DEF OverdraftBounded, PendingAmount, Pending
  <2>2. CASE BankRestarts
    <3>1. (\A w \in Workers : covered'[w] = Idle) /\ balances' = OpeningBalance
      BY <2>2 DEF BankRestarts
    <3> QED BY <3>1, StartBounded, PendingIsTaken DEF OverdraftBounded
  <2> QED
    BY <2>1, <2>2, FindFundsBounded, ApplyBounded
    DEF TransferNext, Handle, Forbidden, UnknownDestination, InsufficientFunds,
        Refuse, transferVars
<1> QED BY <1>1, <1>2, TransferInvHolds, PTL DEF TransferSpec
=============================================================================
