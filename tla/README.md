# Financial API Sentinel in TLA+

This directory holds a TLA+ model of Financial API Sentinel, the TLC runs that
check it on small instances, and theorems about it that TLAPS checks for all
values of the constants. Paths below are relative to the repository.

## 1. The system

Sentinel is a mitmproxy addon (`proxy/addon.py`) between clients and a mock
bank (`backend/`). It recognises a client by three things: the DPoP key that
signs each request's proof, the JA4 fingerprint of its TLS ClientHello, and
softer signals (address, JA4H of the headers). The token endpoint issues access tokens; the
proxy remembers what each token was issued to (its *binding*) and compares
every later use with it.

| Part | State | Operations | Hard behaviour |
|---|---|---|---|
| Addon, `proxy/addon.py` | JA4 per connection; metadata of a token request | hooks `tls_clienthello`, `request`, `response`; `/oauth/revoke` | flows interleave between the two hooks; nothing survives a restart |
| Engine, `proxy/engine.py` | none | `evaluate` | order of hard signals, thresholds |
| Policy, `proxy/policy.py` | weights and thresholds | `load_policy` | bands that must not be empty |
| Binding store, `proxy/binding.py` | bindings, replay cache | `bind`, `get`, `revoke`, `check_and_mark_dpop_jti` | expiry, revocation and late answers in any order |
| Challenge store, `proxy/challenge_store.py` | one nonce per token | `issue`, `verify_and_consume` | replaced, expired, repeated answers |
| Rate limiter, `proxy/rate_limiter.py` | attempt times per JA4 | `check_and_record` | window boundaries, refused attempts count |
| DPoP validation, `proxy/dpop.py` | none | `validate_dpop` | freshness; run by proxy and backend at different times |
| Audit log, `proxy/audit_log.py`, `scripts/verify_audit_log.py` | chain in memory and in a file | `append`, `verify_chain` | a write that raises; edits of the file |
| Dashboard, `proxy/dashboard.py` | rows, issuances, counters | `record_*` | agreement with the audit log |
| Web dashboard, `proxy/webdash.py` | sockets; each page's table, log, timelines, slider | broadcast, snapshot, reconnect | pages that reconnect while events go on |
| JA4 registry, `proxy/ja4_registry.py` | components per JA4 | `record`, `get` | eviction |
| Fingerprints, `proxy/ja4.py`, `ja3.py`, `ja4h.py`, `handshake.py`, `sophistication.py` | none | pure functions | which inputs they tell apart |
| Backend, `backend/auth.py`, `main.py`, `mock_data.py` | signing key, accounts | tokens, authentication, transfers | restart; test and change of a balance on threads |
| Demo clients, `client/script_*.py`, `scripts/sentinel_replay.py` | keys, tokens, two session files | obtain, use, steal, revoke, roam | they overlap, share files, and must come to a true verdict |

How they interact: mitmproxy calls the hooks on one thread and none of them
awaits, so one hook call is one atomic step. The addon calls the stores
synchronously and reports each decision first to the dashboard, then to the
audit log, then sets the response. Between the request and the response hook of
a flow, other flows, the clock, a revocation, a broken connection or a restart
may come in. `response` finds what `request` left in `flow.metadata`.

What makes each part correct: a token never changes hands (addon, binding
store); a proof and a nonce count once (replay cache, challenge store); a
revocation is final; no live token is locked out; the limiter allows no more
than its limit in any window and limits nobody who pauses; the log tells what
happened and shows what was changed; the dashboard agrees with the log, and a
page in a browser with the dashboard; a fingerprint is the same for one client
and another for another, however it shuffles; the demo's thieves never get
through and its scripts fail for no reason of the proxy's making.

## 2. The modules

| Module | Models | Builds on |
|---|---|---|
| `Identities` | the values that are compared: tokens, keys, fingerprints | |
| `Engine` | `engine.evaluate`, the step-up band, what `load_policy` guarantees | `Identities` |
| `BindingStore` | `InMemoryBindingStore` | `Identities` |
| `ChallengeStore` | `ChallengeStore` | `Identities` |
| `RateLimiter` | `SlidingWindowRateLimiter` | `Identities` |
| `Dpop` | `validate_dpop` | `Identities` |
| `Backend` | tokens and authentication of the backend | `Dpop`, `BindingStore` |
| `Sentinel` | the addon with all stores, the network and the backend | all of the above |
| `TokenGuard` | abstract: what the proxy promises about tokens | |
| `AuditLog`, `Dashboard` | the two observers | |
| `ObservedSentinel` | `Sentinel` with both observers | `Sentinel`, `AuditLog`, `Dashboard` |
| `AuditTrail` | the audit log alone, and changes to its file | `AuditLog` |
| `WebDash` | the web dashboard: server, sockets and pages | `Dashboard`, `Engine` |
| `Fingerprints` | JA4, JA3, JA4H and the difference of two JA4s | |
| `TlsFront` | ClientHello hook, JA4 registry and rate limiter, under a clock that may be set back | `Fingerprints`, `RateLimiter` |
| `DemoScripts` | the demo clients as processes in front of the proxy | `Sentinel` |
| `Transfers` | the accounts and `transfer` on the backend's threads | |
| `MCSentinel`, `MCObserved`, `MCTransfers`, `MCWebDash`, `MCTlsFront`, `MCDemo` | small instances for TLC | |
| `SentinelProofs`, `SentinelUses` | theorems: types, senders, revocation, nonces; uses, expiry and the refinement of `TokenGuard` | `Sentinel`, the second on the first |
| `ObservedProofs` | theorems about log and dashboard | `ObservedSentinel`, `SentinelUses` |
| `TlsFrontProofs` | theorems about rate limiter and JA4 registry | `TlsFront` |
| `AuditTrailProofs` | theorems about `verify_chain` | `AuditTrail` |
| `DemoProofs` | theorems about the demo | `DemoScripts`, `SentinelUses` |
| `WebProofs` | theorems about the web dashboard | `WebDash` |
| `TransferProofs` | theorems about money | `Transfers` |

Correspondence of state and actions with the code:

* `bindings`, `dpopJtiSeen`, `challenges`, `attempts` and `ja4ByConnection` are
  the dictionaries, the set and the deques of the same names; a missing key is
  `None`. `connected` are the connections whose ClientHello was seen.
* `Request(r)` is one call of `request`, with one action per way it can end:
  `RateLimited`, `MissingProof`, `InvalidProof`, `ReplayedProof`,
  `ForwardTokenRequest`, `UnboundToken`, `BlockedByEngine`, `PassedByEngine`,
  `StepUpPassed`, `StepUpRequired`. The guards are the code's tests in the
  code's order; what an earlier part of the hook has already changed (the
  attempt recorded, the proof marked, an expired binding deleted) is part of
  each of them.
* `BindIssuedToken` and `IgnoreReply` are `response`; `RevokeToken` and
  `RevokeUnknown` are `_handle_revoke`; `TlsClientHello` is `tls_clienthello`.
* `upstream` are flows on their way to the backend, with `flow.metadata` in
  `meta`; `replies` are 200 answers of the token endpoint on their way back.
  `BackendIssues`, `BackendExecutes` and `BackendRefuses` are the backend's
  side, `LoseRequest` and `LoseReply` broken connections.
* `ProxyRestarts` empties everything the proxy holds; `BackendRestarts` changes
  the signing key. A restarted proxy may leave API requests behind that the
  backend still runs.
* `report` is what the last hook handed to dashboard and audit log;
  `ObservedSentinel` applies it in the same step (`Observe`). It counts the
  entries that got written: with `AuditMayFail` an append may raise, and then
  the hook ends there, without the response that would have come after it, and
  mitmproxy forwards the flow.
* `admitted`, `passes`, `revoked` and `executed` are history variables; `passes`
  counts how often each token was let pass with each proof.
* In `Transfers`, a thread of FastAPI's pool tests the balance in `FindFunds`
  and moves the money in `ApplyTransfer`; `covered` holds the orders in between.
  The three refusals are `Forbidden`, `UnknownDestination` and
  `InsufficientFunds`. What authenticates a request is `Backend`'s part.
* In `WebDash`, each `Show...` action is one `record_*` call: it changes the
  dashboard and writes its messages to every socket in `clients`, in the code's
  order, in one step, because hooks, listener and tornado's handlers share one
  event loop. `channel` is what was written and not yet read. `Open` is
  `connect` and the handler's `open`, which sends the snapshot; `Break` loses
  what is in the channel; `OnClose` is the server noticing, perhaps after the
  page is back. `Deliver` is `ws.onmessage`, and `page` is what it builds.
  A write to a broken socket may raise, which drops it, or be lost.
* In `TlsFront`, `TlsClientHello` is the part of that hook that fingerprints and
  records, `RequestToken` the rate limit of a request on the newest connection.
  `now` is `time.time()`, which `SetClockBack` may set back; `elapsed` is real
  time. `connections` and `arrivals` are histories.
* In `DemoScripts`, a run of a script is at one of its `Steps`: reading or writing a
  session file, or asking and waiting for the answer. `Connect` and `Ask` are
  `TlsClientHello` and `Request` of `Sentinel`; the backend's actions and the
  response hook wake who waits. `TimesOut` is the client's time-out: its request
  may still be on its way then, and be run. A lost request is one that is never
  taken. `outcome` is the verdict the script prints: `PASS`, `FAIL`, or `LOST`
  when no answer of proxy or backend came. Script A writes token and key in two
  steps, and the readers read them in two. `Roam` is an attempt to connect from
  127.0.0.2. The scripts build that transport without `verify` and hand it to a
  client whose own `verify` is then not used (httpx 0.28.1, `requirements.txt:7`),
  so the client checks the proxy's certificate against the default trust store,
  which does not have the local CA: the assumption `client/script_d_untrusted.py:42`
  makes too. With the alias up the proxy therefore gets a ClientHello and no
  request, without it nothing at all; either is the `ConnectError` on which
  scripts A and C go on, C from the default address, and script F gives up.

What is abstracted. Strings are elements of sets: the code only compares them.
A DPoP proof is a record whose field `signed` stands for everything that makes
the JWT good. Secrets drawn at random never repeat. SHA-256 has no collisions:
a digest is the tuple it digests. Time is in whole seconds and the same for
both processes, as both run on one host; fractions of a second only matter for
which side of a boundary an event is on, and both sides are explored. A client
may send any proof any client has minted, any number of times, at any later
time, with any token.

## 3. The properties and the runs

Passing runs:

| Run | Instance | Properties |
|---|---|---|
| `senders` | two clients, one token, two flows at once, backend restart | `TypeOK`, `OneSenderPerToken`, `BindingMatchesToken`, `SenderInvariant`, `KeepsTokenPromise` |
| `stepup` | a roaming client, two header fingerprints, two nonces | `OneAdmissionPerNonce` |
| `restart` | one client, two tokens, proxy restart | `NotExecutedTwice`, `RevocationIsPermanent`, `BoundUntilExpiry`, `KeepsTokenPromise` |
| `observed` | roaming client, both observers, proxy restart, audit writes may raise | `StoriesAreInOrder`, `ChallengesAreAnswered`, `PassesAreLogged`, `DashboardAgreesWithLog` |
| `tlsfront` | three stacks, one that shuffles, and ClientHellos that do not parse; the clock set back once | `FrontTypeOK`, `WindowRespected`, `CountsEveryAttempt`, `StacksAreToldApart`, `ClientsKeepTheirHeaders`, `MismatchIsExplained` |
| `webdash` | one page, a broken connection, and a proxy restart or a moved slider | `CaughtUpAgrees`, `StoryIsTold`, `CellsFollowSlider`, `BrowserCatchesUp` |
| `scripts` | five casts of up to three scripts, one restart of either process | `DemoTypeOK`, `TheftsAreBlocked`, `FailsForACause`, `ScriptsEnd` |
| `transfers` | three threads, three accounts of two clients | `TotalConserved`, `OverdraftBounded`, `OnlyOwnersSpend` |
| `audit` | logs of up to four entries, writes may raise | `TrailInvariant`, `GapsAreFound`, `EditIsFound`, `RehashedEditIsFound`, `RemovalIsFound` |

`KeepsTokenPromise` is refinement: under the mapping at the end of `Sentinel`
every step is a step of `TokenGuard` or a stutter. In `TokenGuard` a token is
bound at most once, only its sender passes, each time with another proof, and
dead tokens stay dead. Both sides count the passes of every token with every
proof (`passes`, `uses`), so a proof that passed again under its token would be
a step that `TokenGuard` does not have, and no stutter. A token counts as dead from the moment it was issued and
no answer is left that could bind it, so lost answers and restarts are covered.

`TypeOK` is more than typing in one place: `Binding` has no room for a missing
JA4, which is what `response` relies on when it refuses to bind a connection
whose ClientHello did not parse.

`CaughtUpAgrees` compares the dashboard with what a page will be when it has
read everything under way: table, log and counters are equal, nothing missing
and nothing twice, although sockets break, close late and snapshots cross
broadcasts. `StoryIsTold` is what is left of that for the timelines, which a
snapshot does not clear: they begin with the issuance, repeat it at most once
per connection and end with the rows of the table. `CellsFollowSlider` compares
the page's JavaScript with the engine itself under the slider's threshold.

`StacksAreToldApart` and `ClientsKeepTheirHeaders` check the fingerprints
against definitions of their own: two ClientHellos are of one stack if they offer
the same things equally often, in any order and with any GREASE; a client is
what it sends with every request, around which a library puts the headers of the
request at hand. They range over every ClientHello and every client of the
instance, not only the ones that are dialled. `WindowRespected` is about real
time and about stacks: shuffling does not buy a second allowance, and a clock
set back may make the limiter refuse longer than it should (`CountsEveryAttempt`
is exact only while the clock runs forward) but never allow more.

`FailsForACause` reads the whole demo as a specification: a script may report
`FAIL` only if there was no session, a session pieced together from two
runs of script A, an expired, revoked or forgotten token, the limiter, a proof
that got old under way, or if it is script F, which cannot roam. In particular
scripts A and E fail neither for a challenge, nor for a replayed proof, nor for
anything the engine holds against another client.
`TheftsAreBlocked` includes runs whose session files are torn.

Runs that find a disagreement between the code and what the repository says:

| Run | Property | What TLC shows |
|---|---|---|
| `fail_closed` | `BackendSeesOnlyAdmitted` | `_block` writes the audit entry before it sets the response; a write that raises sends a refused request to the backend, against FR-7 |
| `stepup_demo` | `StepUpIsShown` | script F never meets the step-up it is to demonstrate: with the alias up and a good session its roaming transport still rejects the proxy's certificate and it ends, against `client/script_f_stepup_demo.py:10` and `:17` |
| `late_binding` | `BindingDoesNotOutliveToken` | the binding's lifetime starts when the answer arrives, so it outlives the token; harmless as long as the backend checks `exp` |

More disagreements follow from the modelled code and have no run of their
own. `proxy/audit_log.py:92` says of `verify_chain` that changing the hash along
with an entry does not help; it does for the last entry, which no other entry
names, and this is why `RehashedEditIsFound` and `RemovalIsFound` stop before
it. `proxy/binding.py:30` says that the block reason of a revoked token is
always "token revoked"; the addon blocks for a missing, invalid or replayed
proof before it looks at the binding. `07_PHASE7_DEMO_ENHANCEMENTS.md:136` says
that `verify_chain` passes over an untouched log; `append` puts an entry into
memory before it writes the line, so after a write that fails the next line
links to an entry the file lacks. `proxy/sophistication.py:10` and
`07_PHASE7_DEMO_ENHANCEMENTS.md:139` give script B a score of 0/3; whenever the
engine decides, the proof was valid, so the score is at least 1 (as
`README.md:297` has it). `proxy/webdash.py:519` says that a token's
events render as one connected sequence; after a reconnect the sequence repeats
the events that the snapshot brings.
`client/script_a_legit.py:65` and `client/script_f_stepup_demo.py:54` tell their
reader that no connection can be sourced from 127.0.0.2 and name the alias as
the remedy; with the alias up they print the same. Were the roaming transport
given `verify`, script A's roamed request would get a 428 under the shipped
policy (address 1, `challenge_threshold` 1), against the "Should PASS" of
`client/script_a_legit.py:49`; the step-up itself is what `stepup` and `observed`
check, with clients that do change their address.

`OverdraftBounded` says what is left of "insufficient funds" when the test and
the change of a balance are separate steps: several threads can find the same
money, and an account can go below zero, by no more than the largest order of
each other thread. `NeverOverdrawn` is therefore no property of the run, and a
theorem for a pool of one thread (section 4). `apply_transfer` itself is taken
to be one step, which is CPython's behaviour and not Python's promise; without
its global lock, updates could be lost and `TotalConserved` would fail.

Bounds. Each is a constant that a guard uses, named at its declaration:
`MaxTime`, `MaxNonces`, `MaxAttempts`, `MaxInFlight`, `MaxProxyRestarts`,
`MaxBackendRestarts`, `MaxEntries`, `BlockCost` and `RestartCost` (what a refusal
and a restart count towards `MaxEntries`), `MaxSteps`, `MaxSetbacks`, `MaxEvents`, `MaxOpens`,
`MaxDisturbances`, `MaxRestarts`. Lifetimes are
zero to two ticks, so that within `MaxTime` everything that can expire does,
and the boundary itself is reached. Two clients are enough for confusion
between senders, two flows for confusion between hooks, three or four proofs
for a token request and repeated or second uses. `RateMax` is one or two, and
`MaxSteps` of `tlsfront` leaves room for a ClientHello, more requests than the
limit, and ticks past the window. Thresholds and weights are those of `policy.yaml`
(1 and 2, address 1, headers 2). `observed` bounds the
length of the log, not of behaviours without
entries; with four entries, two nonces and three proofs to use a token with, a
challenge is replaced and the one that replaced it is answered, and a third
decision pushes the oldest row off the table of two. The page's table and log
hold two rows and lines, and three events push the oldest off; the registry
holds two fingerprints of three. Counts in a fingerprint
are cut at 2 instead of 99. In
`scripts` the limit is one token request per second and the lifetimes are zero or
one second, so that two runs of script A can collide, proofs go
stale, and tokens expire within `MaxTime`; its bounds on nonces, attempts and
flows are what three scripts can need at most.

Symmetry is used over tokens where there are two of them, over proofs of one key
for one path, and over the threads of `transfers`: no constant and no property
tells these apart, and all properties of those runs are safety properties.

Fairness. `WebFairness`: a page whose connection is down opens another one
(`connect` is called again a second after every `onclose`,
`proxy/webdash.py:587`), and what was written to a connection that stays up
arrives, as TCP has it. Nothing is asked of the proxy's events, of `OnClose` or of
the user; connections stop breaking after `MaxOpens`, which is the hypothesis
"from some point on the network holds". `DemoSpec`: whenever some script can take a
step, some script eventually does. A script that waits can time out: httpx and
requests are given five seconds and curl's process ten, in every script. Nothing
is asked of proxy, backend, clock or alias, so `ScriptsEnd` holds even if nobody
ever answers. All other specifications are for safety properties only.

## 4. The proofs

All theorems hold for any values of the constants that satisfy the named
assumptions: `None` is none of the values it is used beside (among them
thresholds), what the engine decides about are uses of tokens, the policy is one
`load_policy` accepts, lifetimes and bounds are natural numbers, the clients'
connections and proofs have the types they are declared with, a bank has
finitely many accounts and a finite pool with at least one thread, the
registry has room for at least one fingerprint. The bounds on
time, attempts, restarts and log entries are constants like any other: no proof
depends on how large they are.

| Module | Theorem | Says |
|---|---|---|
| `SentinelProofs` | `TypeCorrect` | `Spec => []TypeOK` |
| | `SenderInvariantHolds` | `Spec => []SenderInvariant` |
| | `BindingsMatchTokens` | `Spec => []BindingMatchesToken` |
| | `TokensHaveOneSender` | `Spec => []OneSenderPerToken` |
| | `RevocationsArePermanent` | `Spec => RevocationIsPermanent` |
| | `NoncesAdmitOnce` | `Spec => []OneAdmissionPerNonce` |
| `SentinelUses` | `ProofsAreUsedUpForGood` | `Spec => []ProofsAreUsedUp` |
| | `LiveTokensStayBound` | `Spec => BoundUntilExpiry` |
| | `UseInvariantHolds` | `Spec => []UseInvariant`, if `~AuditMayFail` |
| | `NothingRunsTwice` | `Spec => []NotExecutedTwice`, if `~AuditMayFail` |
| | `BlockedStaysBlocked` | `Spec => []BackendSeesOnlyAdmitted`, if `~AuditMayFail` |
| | `PromiseIsKept` | `Spec => KeepsTokenPromise`, that is `Spec => Guard!GuardSpec` |
| `ObservedProofs` | `StoriesAreAlwaysInOrder` | `ObservedSpec => []StoriesAreInOrder` |
| | `ChallengesAreAlwaysAnswered` | `ObservedSpec => []ChallengesAreAnswered` |
| | `DashboardAlwaysAgrees` | `ObservedSpec => []DashboardAgreesWithLog` |
| | `PassesAreAlwaysLogged` | `ObservedSpec => []PassesAreLogged` |
| `TlsFrontProofs` | `LimiterInvariantHolds` | `FrontSpec => []LimiterInvariant` |
| | `WindowIsRespected` | `FrontSpec => []WindowRespected`, if `MistakenHellos = {}` |
| | `EveryAttemptCounts` | `FrontSpec => []CountsEveryAttempt`, if `MistakenHellos = {}` |
| | `RegistryInvariantHolds` | `FrontSpec => []RegistryInvariant` |
| | `FrontTypeCorrect` | `FrontSpec => []FrontTypeOK` |
| | `MismatchesAreExplained` | `FrontSpec => []MismatchIsExplained` |
| `AuditTrailProofs` | `TrailInvariantHolds` | `TrailSpec => []TrailInvariant` |
| | `GapsAreFoundAlways` | `TrailSpec => []GapsAreFound` |
| | `EditIsFoundAlways` | `TrailSpec => []EditIsFound` |
| | `RehashedEditIsFoundAlways` | `TrailSpec => []RehashedEditIsFound` |
| | `RemovalIsFoundAlways` | `TrailSpec => []RemovalIsFound` |
| `DemoProofs` | `DemoTypeCorrect` | `DemoSpec => [](DemoTypeOK /\ RunInvariant)` |
| | `DemoIsSystem` | `DemoSpec => Spec` |
| | `TheftInvariantHolds` | `DemoSpec => [](DemoTypeOK /\ TheftInvariant)`, if `Staged` |
| | `TheftsAreBlockedAlways` | `DemoSpec => []TheftsAreBlocked`, if `Staged` |
| | `ScriptsFailForACause` | `DemoSpec => FailsForACause`, if `Rehearsed` |
| `WebProofs` | `WebTypes` | `WebSpec => [](WebTyped /\ Linked)` |
| | `SliderIsTheEngine` | `WebSpec => []CellsFollowSlider` |
| | `ConnectedPagesAgree` | `WebSpec => []CaughtUpAgrees` |
| | `TimelinesTellTheStory` | `WebSpec => []StoryIsTold` |
| `TransferProofs` | `SpendingIsAuthorised` | `TransferSpec => OnlyOwnersSpend` |
| | `MoneyIsConserved` | `TransferSpec => []TotalConserved` |
| | `OverdraftsAreBounded` | `TransferSpec => []OverdraftBounded` |
| | `OneWorkerNeverOverdraws` | `TransferSpec => []NeverOverdrawn`, for one thread |

Four hypotheses are more than typing. `~AuditMayFail`: audit entries can be
written. Without it three of the theorems are false, since a refusal whose entry
cannot be written lets the request through; the run `fail_closed` shows it, and
the theorems say that this is the only way. `Staged`: the demo is staged as the
repository has it, that is, the audit file can be written, altered headers alone
are a block under the policy, and script C does not send script A's headers from
script A's stack. `Rehearsed` adds what concerns the legitimate runs: scripts A and E
use one HTTP library with its own headers, and under the policy no change at all
is no step-up (`ChallengeThreshold # 0`). Both are stated in `DemoScripts` and evaluated by TLC
on every instance of the demo. `MistakenHellos = {}`: JA4 tells the TLS stacks apart
and takes none for two, which the run `tlsfront` checks for every ClientHello
of its instance (`StacksAreToldApart`); the limiter counts by JA4 and the two
theorems speak of stacks. All other theorems hold whether or not writes fail.

**One sender.** `OneSenderPerToken` is not inductive: a state in
which an answer for an already used token still waits for its hook would break
it in one step. `SenderInvariant` adds what excludes that. Forwarded token
requests carry the key of their own proof (`FlowsCarryTheirKey`); a waiting
answer is the only one for its token, which is issued to the stashed key and
not bound (`RepliesAreFresh`); a binding has the key of its token
(`BindingMatchesToken`); a token under which something passed has no answer
waiting, and its binding, while it has one, still has the JA4 that passed
(`AdmittedStayBound`). A request is then let pass only under a binding, whose
key and JA4 it matches (`PassMatches`), and a binding is only made from a
waiting answer. `RequestEffect` sums up the ten ways a request can end once, so
that the other proofs need not go through them.

**Revocation** rests on `RevokedStayUnbound`: a revoked token is out of use
(`OutOfUse`), which means that its binding is revoked or gone and that no answer
is left to bind it again. This needs `SenderInvariant` at the moment of the
revocation: what is bound has no answer waiting. `OutOfUseStays` is a lemma of
its own because the stories of the log need it as well.

**Nonces** rest on `NoncesAreDrawnOnce`: the nonces in the store are distinct, were
drawn, and have not let anything pass; a nonce that did is no longer there.

**Uses.** A restart empties the replay cache, so "the proof is in the cache" is
no invariant. `ProofsAreUsedUp` is: a proof that passed is in the cache or its
token is unbound, for the same restart empties the bindings, and a token under
which something passed never gets one again. `UseInvariant` carries this to the
backend: what is on its way was let pass, no two flows carry one use, and what
has run is on its way no more. `LiveTokensStayBound` rests on
`TokensExpireFirst`, which says that the token's lifetime began no later than
its binding's.

**Refinement.** `TokenGuard` sees of every token only its life, its sender and the
proofs that passed. `StepRefines` maps each action of `Sentinel` to a
binding, a death, a pass or a stutter. A lost answer and a restart may kill
several tokens at once, which `TokenGuard` allows in one step; an expiry inside a
request hook kills one, and the request does not pass then.

**The observers.** A hook reports up to two events and the writing of
each may fail, after which the hook ends. `HookAdds` shows for such a hook what
the fold in `ObservedSentinel` does to log, file and dashboard; `StepTold` says
for every action of `Sentinel` what its report tells about the state.
`StoryInvariant` adds to `StoriesAreInOrder` that a bound token has its issuance
in the log and that a token whose revocation is there is out of use, so no later
decision can let it pass. `ChallengeInvariant` adds that an outstanding challenge
is the last word of the log about its token. `BookInvariant` is
`LogInvariant` with the two statements about counts: counters and rows follow
the log entry by entry (`PushedRow` for the rows that drop off), and a pass and
its entry belong to one step.

**The rate limiter.** `LimiterInvariant` names, for each entry of a deque, the
arrival it stands for: the arrivals come in their order, and since each of them
the clock has advanced no more than real time, and exactly as much if it was
never set back. So what `OldPrefix` drops (it stops at the first entry that is
young enough, even one from the future) is older than the window in reality, and
no arrival that is younger is without an entry. `DequeCounts` then compares the
length of the deque with the number of arrivals, and `ClientIsKey` turns keys
into stacks.

**The registry.** `RegistryInvariant`: the registry lists fingerprints that were
seen, none twice; what was seen since one that it holds is exactly what stands
behind it; and if it has forgotten one, it is full, and everything in it was
seen later. `RecordKeepsOrder` describes `Record` by the places the remaining
entries come from. Whether a fingerprint is remembered then is a matter of
counting: fewer than `RegistrySize` were seen since exactly if it is still
listed.

**The audit trail.** `TrailInvariant`: the memory is a chain without gaps, the file
holds some of its entries in their order, and either is numbered from 0
throughout or shows a gap somewhere. `verify_chain` compares an entry with the
one before it, so what it returns is determined by the first entry that does
not verify; each theorem names that entry for one kind of change. Digests
are tuples, which is where "no collisions" enters.

**The demo.** `DemoIsSystem` shows that the scripts do nothing `Sentinel` was not
modelled to be asked, so all its theorems hold of the demo. `TheftInvariant`
adds what a run may hold: script A its own key, script B a key of its own, the
other scripts a token that script A obtained; whatever passed under a token came
from the stack and with the headers of the run the token was issued to
(`AdmissionsAreTheirs`), and nothing of scripts B and C was ever forwarded
(`ThievesGetNowhere`). Torn session files need no case of their own: the
argument never uses that key and token belong to each other.

That a script fails only for a cause needs more: for each request still
waiting, why it may be refused. `CauseInvariant` says it. Tokens are bound from
the default address (`MadeAtHome`), from which every request comes. What a run waits for is one thing, its
request or the answer to it (`OneThingAwaited`), and a proof seen is of a step
taken or being taken (`ProofsAreOfStepsTaken`), so that a replay is never its
own request's. A token that a run holds, or finds in the file, is known to the
proxy until it expires, short of a restart, and one marked revoked was revoked
by its owner (`HeldTokensAreKnown`). Where a run is says what it has
(`StepsAreEarned`). `OneThingAwaited`, `ProofsAreOfStepsTaken` and
`StepsAreEarned` are shown run by run: a step leaves a run alone, ends it, or
takes it one step on. Then there is one lemma per way to fail: at a refusal of
the proxy (`AskFailsForACause`), which goes through those of the request hook
one by one, by a step of the script's own (`StepFailsForACause`), and on an
answer of the backend (`AnswerFailsForACause`). They use `TokensExpireFirst`
and the sender's part of `SenderInvariant`.

**The web dashboard.** What a page will show is a fold of `OnMessage` over its
channel, and a snapshot folds over its rows, lines and issuances. `AfterRun` and
its like describe each such fold as a run of states, from the first page to the
last, so that an induction over places in a list (`UpTo`) replaces one over data.
`AfterConcat` is what makes the invariants inductive: reading what was sent and
then what is sent now is reading both. Each `record_*` call is described once
(`EventStep`): what it changes, what it sends, which timeline that adds to
(`Adds`), and that a page which agreed with the dashboard before agrees with it
after reading it (`KeepsUp`). The snapshot needs no induction over time, for it
replaces table, log and counters (`SnapshotShown`); that a page never misses a
message after it rests on `Linked`, the server forgets only the sockets of
connections that are gone.

`SliderInv` adds to `CellsFollowSlider` that a page without a threshold has no
rows and reads a snapshot next; `SimulationIsEngine` is the comparison of the
page's arithmetic with the engine's, case by case. `StoryInv` speaks of each page,
connected or not, with what is still on its way to it: issuances are distinct
(`IssuedOnce`), a token nothing was recorded about is nowhere (`UntoldUnknown`;
without it an issuance could follow the token's rows), and the timeline begins
with the issuance or is empty and the page is away. Timelines only grow
(`AfterGrows`), so a connection that breaks leaves the beginning of what would
have been shown (`StoryCut`). `TailIs` follows the rows of a token through the
list they drop off (`TailPushed`), by the places they have in the timeline.

**Money.** `CoveredAreAuthorised`: an order that waits passed the test of
the owner, and owners do not change. With one thread, `StillCovered`:
what that thread found covered is still there when it applies it. Sums over
accounts and threads are sums of a library fold over finite sets;
`TransferProofs` proves how such a sum changes when one term does, by taking the
smallest set for which it would not, so no induction theorem with an operator
parameter is needed.

Where the model was put differently so that it can be reasoned about: the two
assignments of `apply_transfer` are `Taken` and `Moved`, `move_to_end` removes
the entry at its place (`Others`) instead of filtering the registry, and
`ObservedSentinel` and `TlsFront` speak about entries and arrivals by their
indices (`Logged`, `Decided`, `DecidedAfter`; `OfClient`, `InWindowOf`) instead
of filtered sequences, as `StoryIsTold` does about timelines (`EndsWithRows`). None of this changes what is stated.

Only model-checked:

* `ScriptsEnd` and `BrowserCatchesUp` are liveness under fairness, beyond this
  prover.
* `StacksAreToldApart` and `ClientsKeepTheirHeaders` rest on what sorting and
  filtering of sequences yield, which is induction over data.

## 5. Not modelled, and the plan

Not modelled, and why:

* `client/script_d_untrusted.py` is refused in the TLS handshake between client
  and proxy, which is mitmproxy's and OpenSSL's; nothing of this code runs.
* What follows a roaming request that is answered (`client/script_a_legit.py:75-76`,
  `client/script_f_stepup_demo.py:64-80` with the signed retry) is never reached,
  see `Roam` in section 2.
* The generation of certificates (`scripts/generate_*.py`) and
  `scripts/capture_sample_flow.py` write files from constants and keep no state.
* `proxy/handshake.py` and `proxy/sophistication.py` describe one connection or one
  decision for display; nothing depends on them.
* Parsing (ClientHellos, JWTs, URLs, YAML, lines of the audit file) is one Boolean
  or one comparison. That one TLS stack keeps one JA4 leaves out session
  resumption, whose extension would be counted.
* What the dashboards draw: colours, the topology, the map, which timeline is
  unfolded. After a reconnect that choice follows the order of the snapshot.
* Growth without bound of the stores, visible in the code and no property of a
  bounded model.

What could still be modelled: several pages with sliders of their own (one page
already meets every order of its own messages), and script runs with a longer
clock.

Every safety property of a passing run is a theorem but the two about sequences
named above; what else has no proof is liveness.

## 6. Running

    tlc -config senders.cfg MCSentinel.tla
    tlc -config webdash.cfg MCWebDash.tla
    tlc -config tlsfront.cfg MCTlsFront.tla
    tlc -config scripts.cfg MCDemo.tla
    tlapm SentinelUses.tla
    tlapm TlsFrontProofs.tla
    tlapm ObservedProofs.tla
    tlapm DemoProofs.tla
    tlapm WebProofs.tla

and likewise for the other modules of section 2. (A run of `tlapm` checks the
proofs of the module it is given and takes those of the modules it extends as
they are, so each is run by itself.)

`PROJECT.json` lists the runs with their modules and configurations, the source
lines behind every definition, the hazards, and the mutants: deliberately
faulty variants of definitions, kept next to them and marked "A bug", that show
each property can fail.
