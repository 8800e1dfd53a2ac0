------------------------------ MODULE TlsFront ------------------------------
(***************************************************************************)
(* What the proxy does with a connection before any token is looked at:    *)
(* the ClientHello is fingerprinted, its components are remembered in a    *)
(* bounded registry (proxy/ja4_registry.py), and token requests are        *)
(* counted per fingerprint (proxy/rate_limiter.py).                        *)
(*                                                                         *)
(* The limiter reads time.time(), which may be set back; "elapsed" is the  *)
(* time that has really passed.                                            *)
(***************************************************************************)
EXTENDS Fingerprints, RateLimiter

CONSTANTS
  Dialled,         (* the ClientHellos that arrive, some of Hellos          *)
  RegistrySize,    (* _MAX_ENTRIES                                          *)
  MaxSteps,        (* bound: ClientHellos, token requests and seconds       *)
  MaxSetbacks      (* bound: how often the clock is set back                *)

ASSUME FrontAssumption ==
  /\ Dialled \subseteq Hellos /\ None \notin Dialled
  /\ {Ja4Of[hello] : hello \in Dialled} \subseteq JA4s
  /\ \A a, b \in JA4s : DiffJa4(a, b) # None
  /\ RegistrySize \in Nat \ {0}
  /\ MaxSteps \in Nat /\ MaxSetbacks \in Nat

VARIABLES
  registry,       (* Ja4Registry._components, oldest first                  *)
  now,            (* time.time()                                            *)
  elapsed,        (* real time                                              *)
  setbacks,       (* how often the clock was set back                       *)
  connections,    (* history: Seq(Optional(Dialled)); None does not parse   *)
  arrivals        (* history: Seq([hello, at, allowed]), token requests     *)

frontVars ==
  <<registry, attempts, now, elapsed, setbacks, connections, arrivals>>

HasStepsLeft == Len(connections) + Len(arrivals) + elapsed < MaxSteps

FrontInit ==
  /\ registry = <<>>
  /\ RateLimiterInit
  /\ now = 0 /\ elapsed = 0 /\ setbacks = 0
  /\ connections = <<>> /\ arrivals = <<>>

(* A bug: a fingerprint seen again keeps its old place.                    *)
RecordOnce(reg, ja4) ==
  LET all == IF Contains(reg, ja4) THEN reg ELSE Append(reg, ja4)
  IN  IF Len(all) > RegistrySize THEN Tail(all) ELSE all

(* The other fingerprints of the registry, in their order.                 *)
Others(reg, ja4) ==
  IF Contains(reg, ja4)
    THEN RemoveAt(reg, CHOOSE i \in DOMAIN reg : reg[i] = ja4) ELSE reg

(* record: move_to_end, and the oldest goes when there are too many.       *)
Record(reg, ja4) ==
  LET all == Append(Others(reg, ja4), ja4)
  IN  IF Len(all) > RegistrySize THEN Tail(all) ELSE all

Fingerprint(hello) == IF hello = None THEN None ELSE Ja4Of[hello]

TlsClientHello(hello) ==
  /\ HasStepsLeft
  /\ connections' = Append(connections, hello)
  /\ registry' = IF hello = None THEN registry
                                 ELSE Record(registry, Fingerprint(hello))
  /\ UNCHANGED <<attempts, now, elapsed, setbacks, arrivals>>

(* A token request on the newest connection.                               *)
RequestToken ==
  /\ connections # <<>>
  /\ HasStepsLeft
  /\ LET hello == Last(connections)
         key == Fingerprint(hello)
     IN  /\ RecordAttempt(key, now)
         /\ arrivals' = Append(arrivals,
              [hello |-> hello, at |-> elapsed, allowed |-> Allowed(key, now)])
  /\ UNCHANGED <<registry, now, elapsed, setbacks, connections>>

Tick ==
  /\ HasStepsLeft
  /\ elapsed' = elapsed + 1
  /\ now' = now + 1
  /\ UNCHANGED <<registry, attempts, setbacks, connections, arrivals>>

SetClockBack ==
  /\ setbacks < MaxSetbacks
  /\ setbacks' = setbacks + 1
  /\ now' \in 0..(now - 1)
  /\ UNCHANGED <<registry, attempts, elapsed, connections, arrivals>>

FrontNext ==
  \/ \E hello \in Optional(Dialled) : TlsClientHello(hello)
  \/ RequestToken
  \/ Tick
  \/ SetClockBack

FrontSpec == FrontInit /\ [][FrontNext]_frontVars

(* The difference shown with a JA4 mismatch: None if either is forgotten.  *)
Explanation(bound, presented) ==
  IF Contains(registry, bound) /\ Contains(registry, presented)
    THEN DiffJa4(bound, presented) ELSE None
-----------------------------------------------------------------------------
FrontTypeOK ==
  /\ RateLimiterTypeOK
  /\ registry \in Seq(JA4s)
  /\ connections \in Seq(Optional(Dialled))
  /\ {now, elapsed, setbacks} \subseteq Nat
  /\ \A i \in DOMAIN arrivals :
       arrivals[i] \in [hello: Optional(Dialled), at: Nat, allowed: BOOLEAN]

(* The ClientHellos of one client: of the same stack, or none at all.      *)
HellosOf ==
  [hello \in Optional(Dialled) |->
     IF hello = None THEN {None} ELSE Dialled \cap StackOf(hello)]

(* The token requests this client has made.                                *)
OfClient(hello) == {i \in DOMAIN arrivals : arrivals[i].hello \in HellosOf[hello]}

(* Of the requests that were allowed up to the i-th, those of its client   *)
(* in the RateWindow seconds before it.                                    *)
InWindowOf(i) ==
  {j \in 1..i :
     /\ arrivals[j].allowed
     /\ arrivals[j].hello \in HellosOf[arrivals[i].hello]
     /\ arrivals[i].at - arrivals[j].at <= RateWindow}

(* Within any RateWindow seconds of real time no stack is allowed more     *)
(* than RateMax token requests, however it shuffles its ClientHello and    *)
(* although the limiter's clock may be set back.                           *)
WindowRespected ==
  \A i \in DOMAIN arrivals :
    arrivals[i].allowed => Cardinality(InWindowOf(i)) <= RateMax

(* The deque forgets nothing that counts: it allows the next request only  *)
(* if fewer than RateMax, allowed or not, were made by this client in the  *)
(* last RateWindow seconds.  While the clock runs forward it is exact: who *)
(* pauses for a window is free again, whatever others do.                  *)
CountsEveryAttempt ==
  \A hello \in Optional(Dialled) :
    LET recent == {i \in OfClient(hello) : arrivals[i].at >= elapsed - RateWindow}
        few == Cardinality(recent) < RateMax
    IN  /\ Allowed(Fingerprint(hello), now) => few
        /\ setbacks = 0 /\ few => Allowed(Fingerprint(hello), now)

(* Exactly the ClientHellos of one stack have one JA4 (proxy/ja4.py), JA3  *)
(* tells no fewer apart and changes with the mere order of the extensions  *)
(* (proxy/ja3.py): of no ClientHello that might follow is this untrue.     *)
StacksAreToldApart == connections # <<>> => MistakenHellos = {}

(* One client keeps its JA4H over everything it requests, the token and    *)
(* what it gets with it, and two clients that write their headers, or the  *)
(* order of them, differently never share one (proxy/ja4h.py).             *)
ClientsKeepTheirHeaders == connections # <<>> => ConfusedClients = {}

Seen == {Fingerprint(connections[i]) : i \in DOMAIN connections} \ {None}

(* The fingerprints seen since a ClientHello last had this one.            *)
SeenSince(ja4) ==
  LET last == Max({i \in DOMAIN connections : Fingerprint(connections[i]) = ja4})
  IN  {Fingerprint(connections[i]) :
         i \in {j \in DOMAIN connections : j > last}} \ {None}

Remembered(ja4) == Cardinality(SeenSince(ja4)) < RegistrySize

Patched(ja4, diff) ==
  [field \in DOMAIN ja4 |->
     IF field \in DOMAIN diff THEN diff[field][2] ELSE ja4[field]]

(* A mismatch between two fingerprints that were seen is explained, by a   *)
(* difference that says all of it and nothing else, exactly as long as     *)
(* fewer than RegistrySize others were seen since either of them.          *)
MismatchIsExplained ==
  \A bound, presented \in Seen :
    LET diff == Explanation(bound, presented)
    IN  IF Remembered(bound) /\ Remembered(presented)
          THEN /\ diff # None
               /\ Patched(bound, diff) = presented
               /\ \A field \in DOMAIN diff : diff[field][1] # diff[field][2]
          ELSE diff = None
-----------------------------------------------------------------------------
(***************************************************************************)
(* Why the limiter counts right: the invariant that is inductive.          *)
(***************************************************************************)
OfKey(key) == {i \in DOMAIN arrivals : Fingerprint(arrivals[i].hello) = key}

(* The entries of a deque are arrivals of its key, in their order; since   *)
(* each, no more time has passed on the clock than in reality, and no      *)
(* arrival is without an entry before it is older than the window.         *)
DequeHolds(key, arrivalOf) ==
  LET deque == attempts[key]
  IN  /\ \A p, q \in 1..Len(deque) : p < q => arrivalOf[p] < arrivalOf[q]
      /\ \A p \in 1..Len(deque) :
           LET age == elapsed - arrivals[arrivalOf[p]].at
           IN  /\ now - deque[p] <= age
               /\ setbacks = 0 => now - deque[p] = age
      /\ \A i \in OfKey(key) :
           arrivals[i].at >= elapsed - RateWindow =>
             \E p \in 1..Len(deque) : arrivalOf[p] = i

(* Time only passes, and the clock is behind it by what it was set back.   *)
TimePasses ==
  /\ setbacks = 0 => now = elapsed
  /\ \A i \in 1..Len(arrivals) :
       /\ arrivals[i].at <= elapsed
       /\ \A j \in 1..i : arrivals[j].at <= arrivals[i].at

LimiterInvariant ==
  /\ RateLimiterTypeOK
  /\ connections \in Seq(Optional(Dialled))
  /\ {now, elapsed, setbacks} \subseteq Nat
  /\ arrivals \in Seq([hello: Optional(Dialled), at: Nat, allowed: BOOLEAN])
  /\ TimePasses
  /\ \A key \in RateKeys :
       \E arrivalOf \in [1..Len(attempts[key]) -> OfKey(key)] :
         DequeHolds(key, arrivalOf)

(***************************************************************************)
(* Why the registry explains mismatches.                                   *)
(***************************************************************************)
Following(reg, ja4) ==
  {reg[q] : q \in {r \in 1..Len(reg) : \E p \in 1..(r - 1) : reg[p] = ja4}}

(* The registry is in the order in which its fingerprints were seen last;  *)
(* it is full, of newer ones, if it has forgotten any.                     *)
RegistryInvariant ==
  /\ registry \in Seq(JA4s) /\ Len(registry) <= RegistrySize
  /\ \A p, q \in 1..Len(registry) : registry[p] = registry[q] => p = q
  /\ \A p \in 1..Len(registry) : registry[p] \in Seen
  /\ \A ja4 \in Seen :
       IF Contains(registry, ja4) THEN SeenSince(ja4) = Following(registry, ja4)
       ELSE /\ Len(registry) = RegistrySize
            /\ \A p \in 1..Len(registry) : registry[p] \in SeenSince(ja4)
=============================================================================
