----------------------------- MODULE Lifecycle -----------------------------
(***************************************************************************)
(* The life of the service's processes (__main__.py, app.py,               *)
(* core/engine/circuits.py, trustlist.load_anchors, docker-entrypoint.sh): *)
(* a launcher that may validate the configuration first, the worker that   *)
(* reads it again, brings up the app in the order of its lifespan, serves, *)
(* and is torn down; and an operator who edits files meanwhile.            *)
(*                                                                         *)
(* Everything in the lifespan before its yield runs without a suspension,  *)
(* but reads one file after another, so each read is a step, and a list    *)
(* fetched from elsewhere may take any time.  Of the sessions only the     *)
(* handles are kept (SessionStore has the rest): they show what the        *)
(* process boundary means for a consumer.                                  *)
(***************************************************************************)
EXTENDS Configuration, Integers

CONSTANTS
  Worker,        \* the workers granian could be told to start
  SessionId, NoId,
  Files,         \* what the configuration file may hold
  Envs,          \* the environments the service is started in
  Location,      \* where trust sources point
  HttpLocation,  \* those that are plain http URLs
  HttpsLocation, \* those that are https URLs
  Nothing,
  MaxEdits       \* bound: how often the operator edits a file

\* Lists are not given by environment variables; the locator is the variable
\* app.CONFIG_ENV_VAR, which a file never holds; sources point somewhere.
ASSUME LifecycleAssumption ==
  /\ HttpLocation \subseteq Location /\ HttpsLocation \subseteq Location \ HttpLocation
  /\ NoId \notin SessionId /\ MaxEdits \in Nat
  /\ Nothing \notin Files
  /\ \A file \in Files : "sources" \in DOMAIN file.values =>
       \A source \in file.values.sources : source.at \in Location
  /\ \A e \in Envs :
       /\ e = [values |-> e.values, unknown |-> e.unknown, locator |-> e.locator]
       /\ e.locator \in BOOLEAN /\ "sources" \notin DOMAIN e.values

VARIABLES
  disk,        \* the configuration file, the packaged circuit, the trust sources
  edits,       \* how often disk was edited
  env,         \* the environment of the processes
  launcher,    \* "off", "serving" once workers are spawned, or "stopping"
  validated,   \* history: what main loaded, and what it made of it
  worker,      \* each worker: how far it is, and what it has loaded
  issued,      \* history: the handles ever handed out
  answer       \* the last answer given to a consumer, and about which handle

processVars == <<disk, edits, env, launcher, validated>>
vars == <<processVars, worker, issued, answer>>

Silence == [id |-> NoId, says |-> "nothing"]
Says(id, what) == [id |-> id, says |-> what]

\* Package data: as pinned, a blob that does not match its sidecar, or a
\* matching pair of another circuit.
Artifact == {"pinned", "torn", "unpinned"}
Content == {"certificates", "none", "broken"}

\* What a file or a directory holds, or a list's server answers with.
Disk == [file : Files, circuit : Artifact,
         sources : [Location \ HttpLocation -> Content]]

\* The sources a file may list.
Source == UNION {file.values.sources :
                   file \in {f \in Files : "sources" \in DOMAIN f.values}}

\* anchors: the sources read so far, and what each gave; fetches: the one that
\* urlopen is waiting for.
NoWorker == [pc |-> "none", read |-> Nothing, loaded |-> Nothing, circuit |-> Nothing,
             anchors |-> [source \in {} |-> "none"], fetches |-> Nothing,
             sweeper |-> "none", sessions |-> [id \in {} |-> "open"]]

WorkerPc == {"none", "spawned", "created", "circuit", "serving", "stopping", "failed"}

\* What load_config can have returned or raised; the environment, with and
\* without the locator.
Loadable == {LoadConfig(file, e) : file \in Files, e \in Envs}
Environment == {[e EXCEPT !.locator = set] : e \in Envs, set \in BOOLEAN}

Anchors == UNION {[read -> Content] : read \in SUBSET Source}
Sessions == UNION {[ids -> {"open", "spent"}] : ids \in SUBSET SessionId}

WorkerState ==
  [pc : WorkerPc, read : Files \cup {Nothing}, loaded : Loadable \cup {Nothing},
   circuit : Artifact \cup {Nothing}, anchors : Anchors, fetches : Source \cup {Nothing},
   sweeper : {"none", "running", "cancelled"}, sessions : Sessions]

TypeOK ==
  /\ disk \in Disk
  /\ env \in Environment
  /\ launcher \in {"off", "serving", "stopping"}
  /\ validated \in [read : Files, loaded : Loadable] \cup {Nothing}
  /\ worker \in [Worker -> WorkerState]
  /\ \A w \in Worker : DOMAIN worker[w].sessions \subseteq issued
  /\ issued \subseteq SessionId
  /\ answer.id \in SessionId \cup {NoId}

Init ==
  /\ disk \in Disk
  /\ env \in Envs
  /\ edits = 0
  /\ launcher = "off"
  /\ validated = Nothing
  /\ worker = [w \in Worker |-> NoWorker]
  /\ issued = {}
  /\ answer = Silence

Quiet == answer' = Silence /\ UNCHANGED issued

-----------------------------------------------------------------------------
(* Starting: the command line, or the image's entry point.                 *)

\* A mistake: as many as there are cores.
FaultyWorkers == Worker
Workers == {CHOOSE w \in Worker : TRUE}

Spawn ==
  worker' = [w \in Worker |-> IF w \in Workers THEN [NoWorker EXCEPT !.pc = "spawned"]
                              ELSE NoWorker]

\* main: CONFIG_ENV_VAR is set after the file was validated without it.
Main ==
  LET loaded == LoadConfig(disk.file, env) IN
  /\ launcher = "off"
  /\ validated' = [read |-> disk.file, loaded |-> loaded]
  /\ IF loaded.ok
       THEN /\ launcher' = "serving"
            /\ env' = [env EXCEPT !.locator = TRUE]
            /\ Spawn
       ELSE UNCHANGED <<launcher, env, worker>>
  /\ Quiet
  /\ UNCHANGED <<disk, edits>>

\* docker-entrypoint.sh execs granian, which validates nothing.
Entrypoint ==
  /\ launcher = "off"
  /\ validated' = Nothing
  /\ launcher' = "serving"
  /\ env' = [env EXCEPT !.locator = TRUE]
  /\ Spawn
  /\ Quiet
  /\ UNCHANGED <<disk, edits>>

-----------------------------------------------------------------------------
(* A worker coming up: app_factory, then the lifespan up to its yield.     *)

At(w, pc) == launcher = "serving" /\ worker[w].pc = pc

Becomes(w, record) ==
  /\ worker' = [worker EXCEPT ![w] = record]
  /\ Quiet
  /\ UNCHANGED processVars

Fails(w) == Becomes(w, [worker[w] EXCEPT !.pc = "failed", !.fetches = Nothing])

AppFactory(w) ==
  LET loaded == LoadConfig(disk.file, env) IN
  /\ At(w, "spawned")
  /\ Becomes(w, [worker[w] EXCEPT !.pc = IF loaded.ok THEN "created" ELSE "failed",
                                  !.read = disk.file, !.loaded = loaded])

\* Pylongfellow knows two backends; either may not be built in.
Backends == {"google-cpp", "isrg-rust"}

LoadHeldCircuit(w) ==
  /\ At(w, "created")
  /\ IF worker[w].loaded.config.backend \in Backends /\ disk.circuit = "pinned"
       THEN \/ Becomes(w, [worker[w] EXCEPT !.pc = "circuit", !.circuit = disk.circuit])
            \/ Fails(w)
       ELSE Fails(w)

\* A list at http is not accepted, and no PEM file has the name of a URL.
Refused(source) ==
  \/ source.at \in HttpLocation
  \/ source.keys = {"pem"} /\ source.at \in HttpsLocation
Fetched(source) == source.keys = {"etsi_xml"} /\ source.at \in HttpsLocation
Given(source) == IF Refused(source) THEN "broken" ELSE disk.sources[source.at]

\* A mistake: two sources of the same place are taken for one.
FaultyReads(w, source, content) ==
  Becomes(w, [worker[w] EXCEPT !.fetches = Nothing,
                !.anchors = Over([at \in {source.at} |-> content], @)])
Reads(w, source, content) ==
  Becomes(w, [worker[w] EXCEPT !.fetches = Nothing,
                !.anchors = Over([s \in {source} |-> content], @)])

\* A mistake: a source that cannot be read is passed over.
FaultyTakes(w, source, content) == Reads(w, source, content)
\* A mistake: a source that cannot be read is tried until it can.
FaultyTakesRetried(w, source, content) ==
  content # "broken" /\ Reads(w, source, content)
Takes(w, source, content) ==
  IF content = "broken" THEN Fails(w) ELSE Reads(w, source, content)

Unread(w) == worker[w].loaded.config.sources \ DOMAIN worker[w].anchors

\* One round of load_anchors: _load_pem, or _load_etsi_xml up to its urlopen.
LoadSource(w) ==
  /\ At(w, "circuit") /\ worker[w].fetches = Nothing
  /\ \E source \in Unread(w) :
       IF Fetched(source)
         THEN Becomes(w, [worker[w] EXCEPT !.fetches = source])
         ELSE Takes(w, source, Given(source))

\* The server has answered, or the connection has failed.
ListArrives(w) ==
  LET source == worker[w].fetches IN
  /\ At(w, "circuit") /\ source # Nothing
  /\ \E content \in {Given(source), "broken"} : Takes(w, source, content)

\* The end of load_anchors, then the sweeper and the yield.
Serve(w) ==
  LET anchors == worker[w].anchors IN
  /\ At(w, "circuit") /\ worker[w].fetches = Nothing /\ Unread(w) = {}
  /\ IF \E source \in DOMAIN anchors : anchors[source] = "certificates"
       THEN Becomes(w, [worker[w] EXCEPT !.pc = "serving", !.sweeper = "running"])
       ELSE Fails(w)

-----------------------------------------------------------------------------
(* Serving: the sessions of one worker.                                    *)

Answers(w, sessions, id, says) ==
  /\ worker' = [worker EXCEPT ![w].sessions = sessions]
  /\ answer' = Says(id, says)
  /\ UNCHANGED processVars

Create(w, id) ==
  /\ At(w, "serving") /\ id \notin issued
  /\ issued' = issued \cup {id}
  /\ Answers(w, Over([i \in {id} |-> "open"], worker[w].sessions), id, "created")

Submit(w, id) ==
  LET sessions == worker[w].sessions IN
  /\ At(w, "serving")
  /\ IF id \in DOMAIN sessions
       THEN Answers(w, [sessions EXCEPT ![id] = "spent"], id,
                    IF sessions[id] = "open" THEN "taken" ELSE "already")
       ELSE Answers(w, sessions, id, "unknown")
  /\ UNCHANGED issued

\* The sweeper evicts what has expired.
Sweep(w) ==
  LET sessions == worker[w].sessions IN
  /\ worker[w].sweeper = "running"
  /\ \E left \in SUBSET DOMAIN sessions :
       Becomes(w, [worker[w] EXCEPT !.sessions = [id \in left |-> sessions[id]]])

-----------------------------------------------------------------------------
(* Stopping, failing, and the world.                                       *)

\* Granian is told to stop, or gives up since a worker failed; it runs the
\* second half of the lifespan of the workers that came up.
Terminate ==
  /\ launcher = "serving"
  /\ \A w \in Workers : worker[w].pc \in {"serving", "failed"}
  /\ launcher' = "stopping"
  /\ Quiet
  /\ UNCHANGED <<disk, edits, env, validated, worker>>

\* A mistake: the sweep loop catches what is thrown into it and goes on.
FaultyCancel(w) ==
  /\ launcher = "stopping" /\ worker[w].pc = "serving"
  /\ Becomes(w, [worker[w] EXCEPT !.pc = "stopping"])

\* sweeper.cancel()
Cancel(w) ==
  /\ launcher = "stopping" /\ worker[w].pc = "serving"
  /\ Becomes(w, [worker[w] EXCEPT !.pc = "stopping", !.sweeper = "cancelled"])

\* await sweeper: the CancelledError it ends with is suppressed.
Ends(w) ==
  /\ worker[w].pc = "stopping" /\ worker[w].sweeper = "cancelled"
  /\ Becomes(w, NoWorker)

Off ==
  /\ launcher' = "off"
  /\ worker' = [w \in Worker |-> NoWorker]
  /\ validated' = Nothing
  /\ env' = [env EXCEPT !.locator = FALSE]
  /\ Quiet
  /\ UNCHANGED <<disk, edits>>

Stopped ==
  /\ launcher = "stopping"
  /\ \A w \in Worker : worker[w].pc \in {"none", "failed"}
  /\ Off

\* The processes are killed.
Crash == launcher # "off" /\ Off

\* The file, the package or a source is replaced.
Edit ==
  /\ edits < MaxEdits
  /\ edits' = edits + 1
  /\ \/ \E file \in Files : disk' = [disk EXCEPT !.file = file]
     \/ \E circuit \in Artifact : disk' = [disk EXCEPT !.circuit = circuit]
     \/ \E at \in DOMAIN disk.sources, content \in Content :
          disk' = [disk EXCEPT !.sources[at] = content]
  /\ Quiet
  /\ UNCHANGED <<env, launcher, validated, worker>>

\* What a worker does of itself while it comes up; a list arrives or does not.
Startup(w) == AppFactory(w) \/ LoadHeldCircuit(w) \/ LoadSource(w) \/ Serve(w)
Shutdown(w) == Cancel(w) \/ Ends(w)

Next ==
  \/ Main \/ Entrypoint
  \/ \E w \in Worker : Startup(w) \/ ListArrives(w) \/ Shutdown(w) \/ Sweep(w)
  \/ \E w \in Worker, id \in SessionId : Create(w, id) \/ Submit(w, id)
  \/ Terminate \/ Stopped \/ Crash
  \/ Edit

Spec == Init /\ [][Next]_vars

\* A worker that is coming up or going down is not suspended forever, and
\* granian notices that all of its workers have ended.  Nothing is assumed of
\* ListArrives: urlopen is given no timeout.
FairSpec ==
  /\ Spec
  /\ \A w \in Worker : WF_vars(Startup(w)) /\ WF_vars(Shutdown(w))
  /\ WF_vars(Stopped)

-----------------------------------------------------------------------------

Serving == {w \in Worker : worker[w].pc = "serving"}

(***************************************************************************)
(* A worker that answers requests is whole, whatever was edited while it   *)
(* came up and whichever source was short: the pinned circuit, whose one   *)
(* attribute is the one supported check; every source of its configuration *)
(* read to the end, and a certificate in one of them; an origin that       *)
(* validate_origin accepts; and a sweeper (app.py:66-75,                   *)
(* circuits.py:82-105, trustlist.py:216-225).                              *)
(***************************************************************************)
ServingIsWhole ==
  \A w \in Serving :
    LET anchors == worker[w].anchors IN
    /\ worker[w].circuit = "pinned"
    /\ DOMAIN anchors = worker[w].loaded.config.sources
    /\ \A source \in DOMAIN anchors : anchors[source] # "broken"
    /\ \E source \in DOMAIN anchors : anchors[source] = "certificates"
    /\ Valid("expected_origin", worker[w].loaded.config.expected_origin)
    /\ worker[w].sweeper = "running"

(***************************************************************************)
(* What main accepted the worker accepts, and loads as the same            *)
(* configuration, unless the file was edited in between: that main puts    *)
(* the file's name into the environment, under the prefix of the settings, *)
(* does not change what is loaded (__main__.py:40-47, app.py:23-28).       *)
(***************************************************************************)
ValidatedIsServed ==
  \A w \in Worker :
    validated # Nothing /\ worker[w].read = validated.read
      => worker[w].loaded = validated.loaded

(***************************************************************************)
(* Overriding one setting from the environment changes that setting and no *)
(* other: the rest is as the file has it, also in the same section         *)
(* (config.py:1-20, 172-176).                                              *)
(***************************************************************************)
OverrideIsLocal ==
  \A w \in Serving :
    \A key \in DOMAIN worker[w].read.values \ DOMAIN env.values :
      worker[w].loaded.config[key] = worker[w].read.values[key]

(***************************************************************************)
(* The running service keeps the promise of SessionHandle across starts,   *)
(* stops and crashes: sessions live in one process, which is the only one  *)
(* that answers (docker-entrypoint.sh:3-5, sessions.py:66).                *)
(***************************************************************************)
PhaseOf(id) ==
  LET knowing == {w \in Worker : id \in DOMAIN worker[w].sessions} IN
  CASE id \notin issued -> "unissued"
    [] knowing # {} -> worker[CHOOSE w \in knowing : TRUE].sessions[id]
    [] OTHER -> "gone"

Handle == INSTANCE SessionHandle WITH phase <- [id \in SessionId |-> PhaseOf(id)]

HandleSpec == Handle!Spec

(***************************************************************************)
(* Every start is decided: the service serves, or it gives up. Only a list *)
(* it fetches can keep it from that, since the fetch has no timeout: a     *)
(* start that is never decided waits for ever for an answer                *)
(* (app.py:69-74, trustlist.py:216-225, 252).                              *)
(***************************************************************************)
Waits(w) == worker[w].pc = "circuit" /\ worker[w].fetches # Nothing

StartupDecides ==
  \A w \in Worker :
    worker[w].pc = "spawned"
      ~> (worker[w].pc \in {"serving", "failed", "none"} \/ []Waits(w))

(***************************************************************************)
(* A stop that was begun ends: shutdown waits for the sweeper, and the     *)
(* sweeper does end (app.py:76-81, sessions.py:185-187).                   *)
(***************************************************************************)
StopEnds == launcher = "stopping" ~> launcher = "off"

=============================================================================
