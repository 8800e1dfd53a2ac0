----------------------------- MODULE Transfers ------------------------------
(***************************************************************************)
(* Transfers between the accounts of the mock bank (backend/main.py,       *)
(* backend/mock_data.py).  FastAPI runs the handler, a plain function, on  *)
(* a thread of its pool, and nothing locks the accounts: the balance is    *)
(* tested in one step and changed in another, with other requests between. *)
(* The two assignments of apply_transfer are one step: the interpreter     *)
(* (CPython, with its global lock) changes threads at calls and jumps, and *)
(* there is none between them.  Amounts are whole numbers.                 *)
(***************************************************************************)
EXTENDS Integers, FiniteSets, Functions

CONSTANTS
  Clients,           (* subjects of the tokens that authenticate requests   *)
  Accounts,          (* the keys of ACCOUNTS                                *)
  UnknownAccount,    (* any other account a request may name                *)
  OwnerOf,           (* [Accounts -> Clients]                               *)
  OpeningBalance,    (* [Accounts -> Nat]: balances at start-up             *)
  Amounts,           (* the amounts clients ask for: TransferRequest        *)
                     (* accepts those above 0                               *)
  Workers            (* threads of the pool                                 *)

ASSUME BankAssumption ==
  /\ UnknownAccount \notin Accounts
  /\ OwnerOf \in [Accounts -> Clients]
  /\ OpeningBalance \in [Accounts -> Nat]
  /\ Amounts \subseteq Nat \ {0}
  /\ IsFiniteSet(Accounts)
  /\ IsFiniteSet(Workers) /\ Workers # {}

(* A request for a transfer, by the client its token names.                *)
Order ==
  [client: Clients, from: Accounts \cup {UnknownAccount},
   to: Accounts \cup {UnknownAccount}, amount: Amounts]

Idle == [idle |-> TRUE]

VARIABLES
  balances,    (* [Accounts -> Int]: ACCOUNTS[_]["balance"]                 *)
  covered,     (* [Workers -> Order or Idle]: the order of each thread that *)
               (* has found the funds and has not moved them yet            *)
  answer       (* status of the last answer, 0 before the first one         *)

transferVars == <<balances, covered, answer>>

TransferTypeOK ==
  /\ balances \in [Accounts -> Int]
  /\ covered \in [Workers -> Order \cup {Idle}]
  /\ answer \in {0, 200, 400, 403}

TransferInit ==
  /\ balances = OpeningBalance
  /\ covered = [w \in Workers |-> Idle]
  /\ answer = 0

Refuse(status) ==
  /\ answer' = status
  /\ UNCHANGED <<balances, covered>>

(* A bug: whose account it is is not asked.                                *)
AnyAccount(o) == o.from \in Accounts

OwnAccount(o) == o.from \in Accounts /\ OwnerOf[o.from] = o.client

Forbidden(o) ==
  /\ ~OwnAccount(o)
  /\ Refuse(403)

UnknownDestination(o) ==
  /\ OwnAccount(o)
  /\ o.to \notin Accounts
  /\ Refuse(400)

(* A bug: an overdraft of one unit is let through.                         *)
NearlyFunded(o) == balances[o.from] + 1 >= o.amount

Funded(o) == balances[o.from] >= o.amount

InsufficientFunds(o) ==
  /\ OwnAccount(o)
  /\ o.to \in Accounts
  /\ ~Funded(o)
  /\ Refuse(400)

(* The tests before this one read nothing that ever changes, so that they  *)
(* and the test of the balance are one step.                               *)
FindFunds(w, o) ==
  /\ OwnAccount(o)
  /\ o.to \in Accounts
  /\ Funded(o)
  /\ covered' = [covered EXCEPT ![w] = o]
  /\ UNCHANGED <<balances, answer>>

(* A bug: both balances are read before either is written.                 *)
MovedAtOnce(o) ==
  [balances EXCEPT ![o.from] = @ - o.amount, ![o.to] = balances[o.to] + o.amount]

(* The balances after the first assignment of apply_transfer, and after    *)
(* the second: it may move money from an account to itself.                *)
Taken(o) == [balances EXCEPT ![o.from] = @ - o.amount]

Moved(o) == [Taken(o) EXCEPT ![o.to] = @ + o.amount]

ApplyTransfer(w) ==
  /\ covered[w] # Idle
  /\ balances' = Moved(covered[w])
  /\ covered' = [covered EXCEPT ![w] = Idle]
  /\ answer' = 200

(* The accounts are kept in memory: a restart undoes every transfer.       *)
BankRestarts ==
  /\ balances' = OpeningBalance
  /\ covered' = [w \in Workers |-> Idle]
  /\ answer' = 0

(* One worker handles one request: it takes an order and answers it, or    *)
(* goes on to move the funds.                                              *)
Handle(w, o) ==
  /\ covered[w] = Idle
  /\ \/ Forbidden(o)
     \/ UnknownDestination(o)
     \/ InsufficientFunds(o)
     \/ FindFunds(w, o)

TransferNext ==
  \/ \E w \in Workers, o \in Order : Handle(w, o)
  \/ \E w \in Workers : ApplyTransfer(w)
  \/ BankRestarts

TransferSpec == TransferInit /\ [][TransferNext]_transferVars
-----------------------------------------------------------------------------
(* Orders that were found to be covered and wait to be applied.            *)
Pending(a) == {w \in Workers : covered[w] # Idle /\ covered[w].from = a}

PendingAmount(a) ==
  SumFunctionOnSet([w \in Workers |-> IF w \in Pending(a) THEN covered[w].amount ELSE 0],
                   Workers)

(* Whatever threads interleave, also for a transfer of an account to       *)
(* itself, money is neither made nor lost.                                 *)
TotalConserved == SumFunction(balances) = SumFunction(OpeningBalance)

(* The test of the balance does not see what other threads are about to    *)
(* take, so that an account can be overdrawn; but never, even when all     *)
(* that is pending is applied, by more than the other workers' orders can  *)
(* amount to.  A single worker overdraws nothing.                          *)
OverdraftBounded ==
  \A a \in Accounts : \A largest \in Amounts :
    (\A amount \in Amounts : amount <= largest) =>
      balances[a] - PendingAmount(a) >= -((Cardinality(Workers) - 1) * largest)

(* Short of a restart, an account only ever shrinks by an order of its     *)
(* owner that some worker has found to be covered.                         *)
OnlyOwnersSpend ==
  [][\A a \in Accounts :
       balances'[a] < balances[a] /\ ~BankRestarts =>
         \E w \in Pending(a) :
           covered[w].client = OwnerOf[a] /\ covered'[w] = Idle]_transferVars

(* No account below zero: true of a single worker only.                    *)
NeverOverdrawn ==
  \A a \in Accounts : balances[a] >= 0
=============================================================================
