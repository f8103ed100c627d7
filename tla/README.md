# zk-age-verifier: specification and proofs

TLA+ modules, TLC runs and TLAPS proofs for the verifier service in `src/zk_age_verifier` and the
example consumer in `examples/site-dc-mdoc` (paths below are relative to the repository root; file
names without a path are in the service's package).

The service opens *sessions* for a consumer's backend, hands out a request for the wallet, and
accepts **one** relayed wallet response per session, for which it gives a terminal verdict:
`verified`, or `failed` with a reason. Sessions live in one process, in memory, for a TTL.

## 1. Inventory

| Component | State it keeps | Operations | Talks to |
|---|---|---|---|
| Session store (`service/sessions.py`) | `_sessions`: id -> record with deadline and `attempted` flag | `create`, `take_for_attempt`, `get`, `sweep`, `sweep_loop` | transport (builds the offer); called by handlers and by the sweeper task |
| Handlers (`service/routes.py`) | none of their own; the suspended call of a submission | `create_session`, `submit_response`, `debug_transcript` | store, verdict pipeline |
| Verdict pipeline (`service/verify.py`) | the call in progress | `verify_response`, `_open_presentation`, `_run_engine` | transport, engine |
| Engine adapter (`core/engine/mdoc_zk.py`) | none; a job in the thread pool | `verify_presentation`, parsing | trust list, pylongfellow in the loop's default executor |
| Held circuit (`core/engine/circuits.py`) | the loaded circuit | `load_held_circuit` at startup | package data |
| Trust anchors (`core/trustlist.py`) | `anchors`, fixed at startup | `resolve`, `load_anchors` | `cryptography` |
| DC transport (`core/transport/dc.py`) | per session: HPKE key, encryption info | `build_offer`, transcript, `open_response` | store, pipeline |
| Configuration (`config.py`) | fixed at startup | `load_config`, `validate_origin` | everything |
| Lifecycle (`app.py`, `__main__.py`, `docker-entrypoint.sh`) | the app's state, the sweeper task | lifespan, factory, command line | granian |
| Problem documents (`problem.py`) | the cached OpenAPI document | error handlers, `openapi` | FastAPI, the handlers |
| Base64url (`core/encoding.py`) | none | encode, decode | transport |
| Example consumer (`examples/site-dc-mdoc`) | the page's gate, the calls under way | `startCheck`, `present`, open, forward | the service over HTTP, the browser's wallet |

**How they interact.** Every handler and every store method runs on one asyncio event loop. The
store's methods never suspend, so each is atomic. `submit_response` suspends at exactly one place:
`verify_presentation` awaits the executor (`mdoc_zk.py:154`). All that comes before — claiming the
attempt, unwrapping, opening, parsing, freshness, issuer — happens in the turn in which the request
is taken up; the verdict is formed in a later turn. Between the two, sessions may be created, expire,
be swept and be asked for. Before it serves, the worker reads configuration, circuit and trust
sources from disk, which `python -m zk_age_verifier` has partly read already in another process. The
consumer's page reaches the service through its site; each hop awaits the next and may give up.

**What is hard.** Concurrent submissions for one session; the wall clock deciding deadlines while
the sweeper sleeps on the monotonic one; eviction from four places (lookup, sweep, create at the
cap, end of the process); checks made before a wait whose length is not bounded; responses relayed
late, twice, or under another session's id; restarts; files that change between two reads; a DER
walk for certificates the library refuses to read; checks of one page that overlap; a verdict that is
given once and may be lost on its way. `PROJECT.json` lists the hazards by line, with
the properties that cover them or why none does.

**What makes each component correct.**
- Store: claimed once; a 404 is final; the cap bounds the dict and a 503 is honest; only expiry or
  the end of the process removes a session; an idle store still empties.
- Handlers and pipeline: one verification per session; `verified` only for a response to this
  session, for its origin, in time, from a trusted issuer; an honest, punctual response is not
  failed for anything it did not do; every claimed attempt is answered.
- Trust list: a presented certificate is accepted exactly when it is valid now, may sign, and an
  anchor vouches for it; reading keyUsage by the fallback agrees with reading it by the library.
- Origin validation: what is accepted is an origin a presentation can assert, and all of those are.
- Transport: what opens was sealed to this session's offer for its origin; what was so sealed opens.
- Configuration and lifecycle: what serves is whole and is what was validated; an override changes
  one setting; every stop ends, and every start but one that waits for a list; one process answers
  for all sessions.
- HTTP surface: a refusal costs nothing; every reply but one of the framework's is documented; the
  document is closed.
- Consumer: the gate shows what the service said of one of the visitor's own checks, or that there
  is no telling; no check hangs.

## 2. Modules

| Module | Models | Used by |
|---|---|---|
| `SessionHandle` | abstract: what a handle promises its consumer | refined by `SessionStore` |
| `SessionStore` | `service/sessions.py` and the sweeper, both clocks, restarts | `Verifier` (INSTANCE), proofs |
| `SessionVerdict` | abstract: what a session's verdict promises | refined by `Verifier`, used by `Consumer` |
| `TrustList` | `AnchorSet.resolve` and keyUsage, as operators | `Verification` |
| `DerCertificate` | external: the octets of a TBSCertificate, and what its keyUsage asserts | `KeyUsageDer` |
| `KeyUsageDer` | the DER walk behind `_key_usage_permits`, octet by octet, as operators | `PureFunctions` |
| `Verification` | the pipeline as operators: order of checks, reasons, transcripts, the proof's statement | `Verifier` |
| `Verifier` | the running service: handlers, thread pool, wallets and relays around it | runs, proofs |
| `DcTransport` | offer, stored state, sealing, unwrapping, opening | runs, proofs |
| `Base64url` | the two functions, octets to sextets, as operators | `PureFunctions` |
| `HttpApi` | bodies, statuses, problems and the OpenAPI document | runs, proofs |
| `Configuration` | `load_config` as an operator | `Lifecycle` |
| `Lifecycle` | launcher, workers, lifespan, shutdown, crashes, edits | runs, proofs; refines `SessionHandle` |
| `Consumer` | page, site and service as `SessionVerdict`, joined by calls that may be lost | runs, proofs |
| `Origins` | `validate_origin` over the parts of a URL, as operators | `PureFunctions` |
| `PureFunctions` | one call of any of these three and what it must answer | runs, proofs |
| `MCSessionStore`, `MCVerifier`, `MCLifecycle`, `MCPureFunctions` | small instances for TLC | runs |
| `SessionHandleProofs`, `SessionStoreProofs`, `VerifierProofs`, `DcTransportProofs`, `ConsumerProofs`, `LifecycleProofs`, `HttpApiProofs`, `PureFunctionsProofs` | theorems | TLAPS |

Operators named `Faulty...` are mistakes the code could have made; no specification uses them. They
stand before the definition they would replace, and the property of a run that refutes each is in
`PROJECT.json`.

### SessionStore

| Model | Code |
|---|---|
| `sessions` | `_sessions`; `DOMAIN sessions` is the set of stored ids |
| `issued` | history: ids drawn by `secrets.token_urlsafe`, assumed never to repeat |
| `wall`, `mono` | `datetime.now(UTC)`; the loop's clock |
| `wakeAt` | when the sweeper's `asyncio.sleep` ends |
| `reply` | what the last call returned or raised; silent after background steps |
| `Create`, `RejectCreate` | `create`: sweep when at the cap, test again, insert or `StoreAtCapacity` |
| `Take`, `AlreadyAttempted`, `Unknown` | the three ends of `take_for_attempt`; `Unknown` evicts what it found expired |
| `Find`, `Unknown` | the two ends of `get` |
| `SweepLoop` | one turn of `sweep_loop` |
| `Tick`, `StepClock` | time passing; somebody sets the wall clock |
| `Restart` | the process ends and a new one starts with an empty dict and a new sweeper |

A record keeps its creation time, deadline, expected origin and flag. The key pair and the
encryption info are fresh for every session, so they go by the id; the claims are always the one
supported list. A call that reads the clock twice within its turn reads it once in the model.

### Verification and Verifier

A response is `[session, origin, timestamp, doc]`: whose offer it answers, the origin the browser
told the wallet, when the proof was made, and the document, with one field for each thing a check
looks at. `ChecksInOrder` is the pipeline up to the executor; `EarlyVerdict` the reason of the first
check that fails. `Job` is what is handed to `longfellow.verify`, `Proves` what that call is assumed
to do: accept a proof exactly for the key, transcript, timestamp and device namespaces it was made
over. HPKE is assumed to open exactly what was sealed to that key under that transcript, and SHA-256
of distinct transcript inputs to differ.

`Verifier` holds the store's variables and calls the store through `Store == INSTANCE SessionStore`.
Each followed HTTP submission is a request with a `pc`: `idle`, then `queued`, `running`, `done`
(the thread has returned, the handler has not), `answered`, or `lost` with the process. `Submit` is
one turn of `submit_response`; `StartJob`, `FinishJob`, `Resume` are the wait. `Present` is the
wallet, whose clock may be ahead of the service's or behind it by any of `Drift`; a response once
made may be submitted any number of times, to any id, at any later time.
`terms` is a history of what each session was issued with, so that verdicts are compared with what
the consumer was told and not with what the store happens to hold later.

`SessionVerdict` is what of all this a consumer may count on: a session is unissued, open, pending
(its attempt is claimed), verified or failed for good, lost with the process, or gone unclaimed.
`Verifier` maps each id to one of these (`StatusOf`) from the requests and the store.

### DcTransport and Base64url

`dc` and `offered` are what the store keeps of a session and what its creator was sent; `sealed` what
wallets made of offers. CBOR is the sequence of the items as written, so that a key written in
another order is another string, as it is for the hash. A relay may combine the encapsulated key of
one response with the cipher text of another and wrap them in any form. `OpensOwn` and `HonestOpens`
are what `Verification` assumes of opening: a response opens for the session and origin it was made
for and for no other. `Base64url` has the two functions over octets, with the library's codec, which
takes pads in excess, written out.

### KeyUsageDer

`KeyUsagePermits(cert, b, legible)` is the question the trust list asks: of the library when it can
read the extensions, of the walk when it cannot. `DerCertificate` writes octets from a description
(which extensions in which order, `critical` there or left out, lengths long or short, the keyUsage
bits or a malformed value) without looking at the walk, and says by its own definition what is
asserted. Octets that read as the tags and OIDs the walk seeks stand where a certificate may have
them.

### HttpApi

Of each session only whether it is unknown, open or spent; each kind of body, good or bad, to each
operation. `OpenApi` rewrites the document in place, in the cache, however often it is asked for.
The order of the tests is FastAPI's and the handler's: body, checks, store. The body comes in three
steps: one that cannot be decoded (octets that are no text) is an `HTTPException` 400 of the
framework (`Unparsed`), one that is not JSON or does not fit the model a 422. `submitPresentation`
declares no 400, so this one reply is not in the document, which `RepliesDocumented` says.

### Configuration and Lifecycle

Five keys stand for all: a required one, one nested under its section's subtable, two with defaults,
and the list of sources. `Written` merges environment over file key by key. `Lifecycle` has the
launcher (`Main` validates, the image's `Entrypoint` does not), one `worker` record per process
granian could start, and the disk, which `Edit` changes between any two steps. `AppFactory`,
`LoadHeldCircuit`, `LoadSource` once per trust source, and `Serve` are the order of `app_factory`
and the lifespan; each reads its file when it is its turn. A list at an https URL is fetched:
`LoadSource` begins the fetch, and the worker waits (`fetches`) until `ListArrives`, with the list
or a failed connection, or for ever, since `urlopen` is given no timeout. `anchors` maps the sources
read so far to what each gave; the code reads them in the order of the list, the model in any.
`Cancel` and `Ends` are the lifespan's second half. The sessions of a worker are kept as handles, to
show that they have one home.

### Consumer

A check is one press of the button: `unstarted`, `opening`, `wallet`, `relaying`, then what is
shown. A call is in `net` while it is on one of its four legs; `waiting` is what the site has
forwarded and awaits; `serving` what the service works on. `FetchFails` and `UpstreamFails` are the
two ends giving up, after which the call goes on without them and its answer meets nobody. `Reads`
is what the page makes of an answer: it looks at the JSON, not at the status.

### Origins

A candidate has a scheme, user info, host, port, path, query and fragment; port, query and fragment
may be missing, empty after their delimiter, or filled. `urlsplit` does not tell the first two
apart, which the model keeps as `Truthy`.

## 3. Runs

| Run | Question | Bounds |
|---|---|---|
| `store_steady_clock` | cap, 503, promptness of the sweeper, who leaves; does an idle store empty? | 4 ids, cap 2, TTL 2, sweep every 2, clocks to 5 |
| `store_clock_steps` | does the store keep the promise when the clock is set? | 3 ids, cap 2, TTL 2, clock set by -2 or +1, to 4 |
| `verifier` | verdicts sound and complete; handlers use the store as specified | 2 ids, 2 origins, 2 requests, 1 thread, 1 response, sound or not, of a wallet on time or 2 ahead, TTL 3, to 3 |
| `verifier_documents` | whatever a document has wrong: is only a flawless one verified, and is the reason true? | 1 id, 1 request, 2 origins, documents with at most two flaws and eight certificates, to 2 |
| `verifier_answers` | swapped, late and repeated responses, two jobs for one thread: is every attempt answered, and `verified` only for the session's own response? | 2 ids, 2 origins, 2 requests, 2 responses, TTL 1, to 1 |
| `verifier_clock_steps` | one attempt per session when the clock is set back; does the service keep the abstract verdict? | 2 ids, 2 requests, clock set by -2, to 3 |
| `pure_functions` | does each pure function answer as its reference definition does? | 648 candidate origins; octets 0, 3, 96, 255 to length five with 0 to 4 pads; 4320 certificates, either bit, readable or not |
| `origins_bare` | is every accepted value a bare origin? (violated) | the candidate origins |
| `dc_transport` | does a response open exactly for the session and origin it was made for? | 2 sessions, 2 origins, 2 responses |
| `http_api` | does a refusal cost nothing, which replies are documented? | 3 sessions, cap 2, all bodies |
| `lifecycle` | is what serves whole, validated, and overridden only where told? have sessions one home? does every stop end, and every start that no fetch holds up? | 10 files with up to 2 of 3 sources (a file, an https list, a refused http one), 6 environments, 3 circuits, 3 contents, 1 edit, 2 workers, 1 handle |
| `consumer` | is the gate true however checks overlap and calls fail, and does every check end? | 2 checks, 3 sessions |

*Why the bounds suffice.* A cap of two with more ids than that lets the store fill, sweep at the
cap, refuse and reuse room; a TTL and sweep interval of two put deadlines before, at and after a
sweep, and the horizon leaves room for two sweeps. A clock set back by a whole TTL revives any
deadline. Two requests are enough for every race here, since all properties about requests relate
two of them; one thread is the smallest pool in which a job must wait. The leaf certificate of
`MCVerifier` runs out at time 2, so that it can expire between the check and the verdict; its
anchor has long expired, which the code does not consult, and is read by the fallback. A skew of
one and a TTL of three let a response become stale before its session expires, and a wallet that is
two ahead have its response refused, then accepted, then stale. Two flaws in one
document are what it takes for the order of two checks to show. Session ids, and requests, are
interchangeable, hence the symmetry in the runs `store_clock_steps`, `verifier` and
`verifier_clock_steps`; no run that checks liveness has any.

One edit is enough to make two reads of one file differ, two sources for one of them to be short
while the other is good; a second worker is what it would take for a
session to be unknown elsewhere. One handle is enough for `Lifecycle`, which has no room to contend
for. Two responses are what it takes to confuse their parts, and lengths up to five cover every
remainder by three and four. Two checks that overlap are enough, since all that is said of checks
relates two of them, and a third session lets one be lost between them. Certificates put other
extensions before and behind the one sought, each with and without `critical`, and with a length in
the short and in the long form.

*Bounds in guards.* `Horizon` (both clocks), `MaxPresented` (responses made), `MaxEdits` (edits of
the disk), `Encapsulation` (responses sealed). Sessions, requests and
checks are each taken from a finite set and used once.

*Fairness.* `store_steady_clock`: time passes, and the sweeper gets its turn when its sleep is over
— the loop runs and nothing in it blocks. `verifier_answers`: a job in the executor's queue is
started when a thread is free, a proof check returns, a ready handler gets its turn. `consumer`:
page and site handle what has arrived, and httpx ends a wait by its default timeout; nothing is
assumed of the service. `lifecycle`: startup and shutdown code goes on running, and granian notices
that its workers have ended; nothing is assumed of a list that is fetched, so `StartupDecides` lets
a start wait for one for ever. Nothing is assumed of clients, wallets or the operator.

### Finding

`validate_origin` says it requires a bare `scheme://host[:port]` (`config.py:38`, `README.md:78`)
and raises when "a path, query, or fragment is present" (`config.py:50`). It tests the truth of what
`urlsplit` returns, where an empty query or fragment is an empty string, and never looks at the user
info. So `https://h?`, `https://h#`, `https://h:` and `https://u@h` are accepted, kept as written
and hashed into the transcript; no browser asserts such an origin, and every presentation to the
session fails with `decrypt-failed`. Run `origins_bare` shows one.

## 4. Proofs

| Theorem | Module | Statement |
|---|---|---|
| `TypeCorrect` | `SessionStoreProofs` | `Spec => []TypeOK` |
| `CapHolds` | | `Spec => []StoreBounded` |
| `CapacityIsHonest` | | `Spec => []FullOfUnexpired` |
| `LeavingIsExpiry` | | `Spec => LeavesOnlyExpired` |
| `SweptInTime` | | `Spec => []SweptSinceExpiry`, if `Jumps = {}` and `TTL > 0` |
| `DenialFinal` | `SessionHandleProofs` | `Spec => DenialIsFinal` |
| `StoreImplementsHandle` | `SessionStoreProofs` | `Spec => HandleSpec` |
| `TypeCorrect` | `VerifierProofs` | `Spec => []TypeOK` |
| `StoreUsedAsMeant` | | `Spec => StoreSpec` |
| `StorePromiseKept` | | the store's `HandleSpec`, `StoreBounded`, `FullOfUnexpired`, `LeavesOnlyExpired`, of `Verifier` |
| `AttemptIsSingle` | | `Spec => []OneAttempt` |
| `ConflictIsTrue` | | `Spec => []ConflictHasCause` |
| `VerifiedMeansBound` | | `Spec => []VerifiedIsBound` |
| `VerifiedMeansInTime` | | `Spec => []VerifiedInTime` |
| `ReasonsAreTrue` | | `Spec => []ReasonIsTrue` |
| `KeepsItsPromise` | | `Spec => VerdictSpec` |
| `ResponseIsBound` | `DcTransportProofs` | `Spec => []OpensOwn` |
| `HonestResponseOpens` | | `Spec => []HonestOpens` |
| `NoOrphanSession` | | `Spec => []StoredIsServed` |
| `TypeCorrect` | `ConsumerProofs` | `Spec => []TypeOK` |
| `GateIsTrue` | | `Spec => []GateIsEarned` |
| `FailuresAreTrue` | | `Spec => []FailureIsTrue` |
| `ConflictNever` | | `Spec => []NeverConflict` |
| `TypeCorrect` | `LifecycleProofs` | `Spec => []TypeOK` |
| `ServesWhole` | | `Spec => []ServingIsWhole` |
| `ServesValidated` | | `Spec => []ValidatedIsServed` |
| `OverridesAreLocal` | | `Spec => []OverrideIsLocal` |
| `HandlesAreKept` | | `Spec => HandleSpec` |
| `DocumentIsKept` | `HttpApiProofs` | `Spec => []RepliesDocumented` |
| `NoDanglingReference` | | `Spec => []RefsResolve` |
| `RefusedForFree` | | `Spec => RefusalCostsNothing` |
| `RoundTrip` | `PureFunctionsProofs` | `B64urlDecode(B64urlEncode(bytes) \o Pads(pads))` is `bytes` |
| `WalkReads` | | `KeyUsageFromTbs(TbsDer(cert), b)` implies `Asserts(cert, b)`, and follows from it if `Whole(cert)` |
| `BrowserOriginsPass` | | `Spec => []BareIsAccepted` |
| `NothingLostInText` | | `Spec => []PaddingIsOptional` |
| `FallbackIsFaithful` | | `Spec => []FallbackAgrees` |
| `NoBitInvented` | | `Spec => []NothingInvented` |

*Assumptions.* The store's hold for any set of ids, any integer cap and TTL, any interval, any set
of clock adjustments and any horizon, from `StoreAssumption` alone (and the two named hypotheses of
`SweptInTime`, which are needed: a clock set back, or a TTL of zero, breaks it). The service's hold
for any number of requests, responses, origins, documents and threads and any clocks of wallets,
from `StoreAssumption` and the types of the constants that `Verifier` names; the transport's for any
sets; the consumer's for any number of checks and sessions, from `NoId` not being a session; the
lifecycle's for any files, environments, circuits, sources and edits, any number of sessions, and
any number of workers granian could start, from the shape `LifecycleAssumption` gives to files and
environments (`sources` is not among the settings an environment has, see section 5); the HTTP
surface's for any set of sessions and any integer cap. The pure functions' hold for byte strings of
any length with any number of pads, and for every certificate that is `WellFormed`: of less than 64
KiB, so that every length takes two octets at most, with any extensions in any order but one
keyUsage at most (RFC 5280 allows no two), that one cut short anywhere or not at all. What `Proves`,
`Opens` and the hash are assumed to be is in the definitions, not in assumptions.

*The store.* Four lemmas say what happens to the dict (`RestrictedDict`, `SweptDict`, `MadeRoom`,
`InsertedDict`); everything else uses them instead of the definitions. `StoreBounded` is inductive
only together with finiteness of the dict (`FiniteAndBounded`), since a cardinality says nothing of
an infinite set; that the dict grows only by one id, and only when there is room, is `DomainStep`.
`FullOfUnexpired` needs the same finiteness to turn "not below the cap" into "at least the cap".
`SweptSinceExpiry` needs that the clocks agree and that the last sweep is not in the future
(`SweptInv`): then a new session's deadline, `wall + TTL`, lies after it. `DenialIsFinal` is proved
of the abstract handle, where it takes two facts: an answer agrees with the phase, and "gone" is
stable. The refinement maps each id to a phase and each step of the store to one step of the handle:
every eviction, from wherever, is `Forgotten` (`EvictionForgets`).

*The service.* `VerifierProofs` first shows that a step of the service is a step of the store
(`StoreUsedAsMeant`), which brings in what is proved there. The rest is one inductive invariant,
`Inv`. `OneAttempt` alone is not inductive: a second submission is let through only if the store has
the session unattempted, so the invariant relates the requests that claimed an attempt to the store
(`StoreAgrees`: a claimed session is stored as attempted or is gone for good). The verdicts are
formed after a wait, from values taken before it; `AllHold` says of each request on its way what was
true of its response when it was submitted, with the terms its session was issued under, and
`AllGrounded` that what it carries refers to what exists. `QueuedOnce` keeps a job from being run
twice. From these the four verdict properties follow request by request.

*The verdict.* `KeepsItsPromise` maps ids to statuses. `StatusMeaning` characterises the status of
an id from `Inv`, so that each step's effect on all ids can be read off the requests it changes: a
step that evicts is `Forget`, one that claims is `Claim` or, when a check fails before the wait,
`FailAtOnce`, a resumption is `Decide`, a restart `Stop`, and everything else leaves every status as
it is.

*The transport.* The invariant says that what is stored and what was offered are the same text with
the session's own key in it, and that an encapsulated key names one sealed response; then equal
transcripts mean equal sessions and origins.

*The consumer.* `Inv` has what each call in transit may say about the session it names
(`MessagesTell`), how far each check's session has come (`ChecksAgree`), and that no two checks or
opening answers share a session and a check has at most one relay on its way (`OwnSession`). The
last is why a relayed session is still untouched when the service takes it, hence no 409, hence a
page that shows a failure was told a true one. It is broken by a page that retries or reuses a
session.

*The lifecycle.* `Inv` says of each process what it holds as a function of what it has read so far
(`LoadedAsRead`, `ValidatedAsRead`), and that each stage of the startup has left its result
(`StagesDone`); so a worker that serves has passed them all, whatever was edited between. Of the
trust sources, which are read in several steps, it says that those read so far are listed and could
be read (`Reading`) and, in the end, that none is left (`ReadAll`). That a
worker serves what the command line validated then rests on `load_config` alone: it looks at file
and environment only, and never at the variable that says where the file is. `OneWorker` is what
makes the sessions of the processes handles: since one worker at most is ever started, the phase of
a handle can be read off that worker's sessions, and its end, however it comes about, is
`Background` with those handles forgotten.

*The HTTP surface.* `Inv` is that the cached document, once there, is the generated one rewritten
once, which needs that rewriting it again changes nothing, and that the last reply is announced in
that document even while nobody has asked for it, or is the one that is not (`Undeclared`).

*Base64url.* The bits are regrouped arithmetically. Two lemmas about one group, `FourOfThree` and
`ThreeOfFour`, carry it; the rest is where in its group an octet or a character stands, and that the
library sees as many characters as were written, however many pads follow (`StrippedText`).

*The DER walk.* The recursions of the code (the number in a length, the loop over elements) are
recursive functions here. That such a function exists and obeys its equation is proved with the
smallest element of a set of naturals (`Smallest`, from `WellFoundedInduction`), which takes no
operator as a parameter: `UpTo` for the prefixes of a string, `LoopEnds` for the loop, which ends
since each round starts behind the one before. For the same reason the code's loop cannot hang.
`ReadsWhatWasWritten` says that `_read_tlv` at the offset of an encoded element returns its tag,
content and end, for all three forms of a length, wherever the element stands; and `Walked` that the
loop, over a list of such elements, passes those that are not sought and returns the first that is.
From these: the `[3]` block is found behind the other fields (`ExtensionsRead`), the extensions one
after the other (`ListIsWalked`), among them the one whose OID is keyUsage's and no other
(`OidTells`), its value behind `critical` or without it (`ValueRead`). `BitsRead` ends the chain: of
a value cut short the walk sees a prefix, in which a bit may be missing and none can be added.

*Only model-checked:* liveness (`ExpiredIsEvicted`, `EveryAttemptAnswered`, `CallsEnd`,
`StartupDecides`, `StopEnds`), which the prover does not reach; every other property of a passing
run is stated by a theorem. *Only proved:* `DenialIsFinal`, of which the abstract handle has too few
states for a run to be worth while; `StorePromiseKept`, which says of `Verifier` what runs check of
`SessionStore`.

## 5. Not modelled, and why

- The list of errors in a 422 body, titles, examples and messages: wording. In `Consumer` the service
  answers a relay with a verdict, 404 or 409; a 422 would need a wallet that returns something
  other than text, and would be shown as a failure of a session that was not verified.
- CBOR, PEM and XML octets: the libraries'. DER only where the repository walks it itself. That walk
  ignores the count of unused bits, which the model's bit strings respect.
- What library calls raise beyond what the code names: the model has `cryptography` raise only
  `ExtensionNotFound` or `ValueError` when extensions are read (not `DuplicateExtension`), and the
  proof backend fail at will (`engine-error`).
- Lists given by the environment: the documentation says there are none, what the settings library
  would do with one is its own. Its `SettingsError` for values it cannot parse is left out with it.
- The requests in flight when granian drains a worker: in `Verifier` the process ends and they are
  lost, the worst case. A stop asked for while a worker comes up is one of the crashes in `Lifecycle`.
- A 500 of the framework's last resort, for an exception no handler of the service renders (one
  that no branch of `_run_engine` maps, say): the model raises only what the code names.
- Upper and lower case in the names of environment variables: a key is a key.
- granian itself, but for starting and stopping workers; the site's `/av/info` route; logging.
- `scripts/generate_credentials.py`: writes test credentials once, not part of the system.

## 6. Plan

The session life cycle and the verdict came first, since the service's promise rests on them; then the
algorithms; then the surroundings; then the proofs, as far as the prover reaches. *Done:* all
modules and theorems above.

What is left: liveness by proof, if the prover comes to reach it; a run of `Consumer` over `Verifier`
itself in place of its abstraction, which the refinement makes unnecessary and whose state space is
large; draining in-flight requests at shutdown, once what granian does there is pinned by the
repository.
