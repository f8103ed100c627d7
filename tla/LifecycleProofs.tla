--------------------------- MODULE LifecycleProofs ---------------------------
(***************************************************************************)
(* What is proved of Lifecycle for any files, environments and trust       *)
(* sources, any number of sessions and edits, and any number of workers    *)
(* granian could start (it starts one).                                    *)
(***************************************************************************)
EXTENDS Lifecycle, TLAPS

\* Only the one worker that granian is told to start ever leaves NoWorker.
OneWorker == \A w \in Worker \ Workers : worker[w] = NoWorker

OffIsEmpty == launcher = "off" => \A w \in Worker : worker[w] = NoWorker

\* What is loaded came of what was read, in the environment as it is still.
Tracks(state) ==
  IF state.pc \in {"none", "spawned"}
    THEN state.read = Nothing
    ELSE state.read \in Files /\ state.loaded = LoadConfig(state.read, env)
LoadedAsRead == \A w \in Worker : Tracks(worker[w])

ValidatedAsRead ==
  validated # Nothing => validated.loaded = LoadConfig(validated.read, env)

\* What has been read is listed and could be read; what is fetched is listed.
Reading(state) ==
  LET sources == state.loaded.config.sources IN
  /\ DOMAIN state.anchors \subseteq sources
  /\ \A source \in DOMAIN state.anchors : state.anchors[source] # "broken"
  /\ state.fetches = Nothing \/ state.fetches \in sources

\* Nothing is left to read, and there was something to trust.
ReadAll(state) ==
  /\ state.loaded.config.sources \subseteq DOMAIN state.anchors
  /\ \E source \in DOMAIN state.anchors : state.anchors[source] = "certificates"

\* Each stage of the startup has left its result.
Staged(state) ==
  /\ state.pc \in {"spawned", "created"} =>
       state.anchors = NoWorker.anchors /\ state.fetches = Nothing
  /\ state.pc \in {"created", "circuit", "serving"} => state.loaded.ok = TRUE
  /\ state.pc \in {"circuit", "serving"} => state.circuit = "pinned" /\ Reading(state)
  /\ state.pc = "serving" => ReadAll(state) /\ state.sweeper = "running"
StagesDone == \A w \in Worker : Staged(worker[w])

Inv == OneWorker /\ OffIsEmpty /\ LoadedAsRead /\ ValidatedAsRead /\ StagesDone

-----------------------------------------------------------------------------
(* The configuration.                                                      *)

LEMMA EnvironmentParts ==
  ASSUME NEW e \in Environment
  PROVE  /\ e = [values |-> e.values, unknown |-> e.unknown, locator |-> e.locator]
         /\ "sources" \notin DOMAIN e.values
BY LifecycleAssumption DEF Environment

LEMMA EnvironmentStep ==
  ASSUME NEW e \in Environment, NEW set \in BOOLEAN
  PROVE  [e EXCEPT !.locator = set] \in Environment
<1>1. PICK from \in Envs, was \in BOOLEAN : e = [from EXCEPT !.locator = was]
  BY DEF Environment
<1>2. from = [values |-> from.values, unknown |-> from.unknown, locator |-> from.locator]
  BY LifecycleAssumption
<1>3. [e EXCEPT !.locator = set] = [from EXCEPT !.locator = set]
  BY <1>1, <1>2
<1>4. QED
  BY <1>3 DEF Environment

\* load_config does not look at the variable that says where the file is.
LEMMA LocatorIgnored ==
  ASSUME NEW file, NEW e \in Environment, NEW set \in BOOLEAN
  PROVE  LoadConfig(file, [e EXCEPT !.locator = set]) = LoadConfig(file, e)
<1>1. /\ [e EXCEPT !.locator = set].values = e.values
      /\ [e EXCEPT !.locator = set].unknown = e.unknown
  BY EnvironmentParts
<1>2. /\ Written(file, [e EXCEPT !.locator = set]) = Written(file, e)
      /\ Unknown(file, [e EXCEPT !.locator = set]) = Unknown(file, e)
  BY <1>1 DEF Written, Unknown
<1>3. QED
  BY <1>2 DEF LoadConfig

LEMMA LoadedType ==
  ASSUME NEW file \in Files, NEW e \in Environment
  PROVE  LoadConfig(file, e) \in Loadable
<1>1. PICK from \in Envs, was \in BOOLEAN : e = [from EXCEPT !.locator = was]
  BY DEF Environment
<1>2. from = [from EXCEPT !.locator = from.locator] /\ from.locator \in BOOLEAN
  BY LifecycleAssumption
<1>3. from \in Environment
  BY <1>2 DEF Environment
<1>4. LoadConfig(file, e) = LoadConfig(file, from)
  BY <1>1, <1>3, LocatorIgnored
<1>5. QED
  BY <1>4 DEF Loadable

\* A configuration that loads is what was written where something was, and
\* what was written is valid.
LEMMA LoadedIsValid ==
  ASSUME NEW file, NEW e, LoadConfig(file, e).ok = TRUE
  PROVE  /\ Required \subseteq DOMAIN Written(file, e)
         /\ \A key \in DOMAIN Written(file, e) :
              /\ Valid(key, Written(file, e)[key])
              /\ LoadConfig(file, e).config[key] = Written(file, e)[key]
<1>1. /\ LoadConfig(file, e) = Loaded(Over(Written(file, e), Default))
      /\ Required \subseteq DOMAIN Written(file, e)
      /\ \A key \in DOMAIN Written(file, e) : Valid(key, Written(file, e)[key])
  BY DEF LoadConfig, ConfigError
<1>2. QED
  BY <1>1 DEF Loaded, Over

LEMMA WrittenIsFile ==
  ASSUME NEW file, NEW e, NEW key \in DOMAIN file.values \ DOMAIN e.values
  PROVE  key \in DOMAIN Written(file, e) /\ Written(file, e)[key] = file.values[key]
BY DEF Written, Over

LEMMA SourcesKnown ==
  ASSUME NEW file \in Files, NEW e \in Environment, LoadConfig(file, e).ok = TRUE,
         NEW source \in LoadConfig(file, e).config.sources
  PROVE  source \in Source
<1>1. "sources" \in DOMAIN Written(file, e)
  BY LoadedIsValid DEF Required
<1>2. "sources" \in DOMAIN file.values \ DOMAIN e.values
  BY <1>1, EnvironmentParts DEF Written, Over
<1>3. LoadConfig(file, e).config["sources"] = Written(file, e)["sources"]
  BY <1>1, LoadedIsValid
<1>4. Written(file, e)["sources"] = file.values["sources"]
  BY <1>2, WrittenIsFile
<1>5. QED
  BY <1>2, <1>3, <1>4 DEF Source

LEMMA GivenType ==
  ASSUME TypeOK, NEW source \in Source
  PROVE  Given(source) \in Content
<1>1. source.at \in Location
  BY LifecycleAssumption DEF Source
<1>2. "broken" \in Content
  BY DEF Content
<1>3. QED
  BY <1>1, <1>2 DEF Given, Refused, TypeOK, Disk

-----------------------------------------------------------------------------
(* Types.                                                                  *)

LEMMA NoWorkerType == NoWorker \in WorkerState
<1>1. [id \in {} |-> "open"] \in [{} -> {"open", "spent"}]
  OBVIOUS
<1>2. [id \in {} |-> "open"] \in Sessions
  BY <1>1 DEF Sessions
<1>3. NoWorker.anchors \in [{} -> Content]
  BY DEF NoWorker
<1>4. NoWorker.anchors \in Anchors
  BY <1>3 DEF Anchors
<1>5. QED
  BY <1>2, <1>4 DEF NoWorker, WorkerState, WorkerPc

\* A step of one worker keeps the types if what the worker becomes has its.
LEMMA BecomesType ==
  ASSUME TypeOK, NEW w \in Worker, NEW record \in WorkerState,
         DOMAIN record.sessions \subseteq issued, Becomes(w, record)
  PROVE  TypeOK'
BY DEF TypeOK, Becomes, Quiet, Silence, processVars

LEMMA FailsType ==
  ASSUME TypeOK, NEW w \in Worker, Fails(w)
  PROVE  TypeOK'
<1>1. [worker[w] EXCEPT !.pc = "failed", !.fetches = Nothing] \in WorkerState
  BY DEF TypeOK, WorkerState, WorkerPc
<1>2. QED
  BY <1>1, BecomesType DEF Fails, TypeOK, WorkerState

LEMMA SpawnType ==
  ASSUME Spawn
  PROVE  /\ worker' \in [Worker -> WorkerState]
         /\ \A w \in Worker : worker'[w].sessions = NoWorker.sessions
BY NoWorkerType DEF Spawn, WorkerState, WorkerPc, NoWorker

LEMMA NoSessions == DOMAIN NoWorker.sessions = {}
BY DEF NoWorker

LEMMA LaunchType ==
  ASSUME TypeOK, Main \/ Entrypoint
  PROVE  TypeOK'
<1>1. CASE UNCHANGED <<launcher, env, worker>>
  BY <1>1, LoadedType DEF Main, Entrypoint, TypeOK, Quiet, Silence, Disk
<1>2. CASE Spawn /\ env' = [env EXCEPT !.locator = TRUE]
  <2>1. env' \in Environment
    BY <1>2, EnvironmentStep DEF TypeOK
  <2>2. validated' \in [read : Files, loaded : Loadable] \cup {Nothing}
    BY LoadedType DEF Main, Entrypoint, TypeOK, Disk
  <2>3. \A w \in Worker : DOMAIN worker'[w].sessions = {}
    BY <1>2, SpawnType, NoSessions
  <2>4. QED
    BY <1>2, <2>1, <2>2, <2>3, SpawnType DEF Main, Entrypoint, TypeOK, Quiet, Silence
<1>3. QED
  BY <1>1, <1>2 DEF Main, Entrypoint

\* What a source gave is kept with what the others gave.
LEMMA ReadsType ==
  ASSUME NEW anchors \in Anchors, NEW source \in Source, NEW content \in Content
  PROVE  Over([s \in {source} |-> content], anchors) \in Anchors
<1> DEFINE over == Over([s \in {source} |-> content], anchors)
<1>1. PICK read \in SUBSET Source : anchors \in [read -> Content]
  BY DEF Anchors
<1>2. over \in [read \cup {source} -> Content]
  BY <1>1 DEF Over
<1>3. read \cup {source} \in SUBSET Source
  OBVIOUS
<1> HIDE DEF over
<1>4. over \in Anchors
  BY <1>2, <1>3 DEF Anchors
<1>5. QED
  BY <1>4 DEF over

LEMMA TakesType ==
  ASSUME TypeOK, NEW w \in Worker, NEW source \in Source, NEW content \in Content,
         Takes(w, source, content)
  PROVE  TypeOK'
<1> DEFINE anchors == Over([s \in {source} |-> content], worker[w].anchors)
           record == [worker[w] EXCEPT !.fetches = Nothing, !.anchors = anchors]
<1>1. worker[w] \in WorkerState /\ DOMAIN worker[w].sessions \subseteq issued
  BY DEF TypeOK
<1>2. anchors \in Anchors
  BY <1>1, ReadsType DEF WorkerState
<1>3. Reads(w, source, content) => Becomes(w, record)
  BY <1>1 DEF Reads, WorkerState
<1> HIDE DEF anchors
<1>4. record \in WorkerState /\ record.sessions = worker[w].sessions
  BY <1>1, <1>2 DEF WorkerState
<1>5. CASE Becomes(w, record)
  BY <1>1, <1>4, <1>5, BecomesType
<1>6. QED
  BY <1>3, <1>5, FailsType DEF Takes

\* While the sources are read, those that are listed are sources.
LEMMA ListedType ==
  ASSUME TypeOK, Inv, NEW w \in Worker, worker[w].pc = "circuit"
  PROVE  worker[w].loaded.config.sources \subseteq Source
<1>1. /\ worker[w].read \in Files /\ env \in Environment
      /\ worker[w].loaded = LoadConfig(worker[w].read, env)
      /\ worker[w].loaded.ok = TRUE
  BY DEF Inv, LoadedAsRead, Tracks, StagesDone, Staged, TypeOK
<1>2. QED
  BY <1>1, SourcesKnown

LEMMA ListArrivesType ==
  ASSUME TypeOK, Inv, NEW w \in Worker, ListArrives(w)
  PROVE  TypeOK'
<1> DEFINE source == worker[w].fetches
<1>1. source \in Source
  BY DEF ListArrives, TypeOK, WorkerState
<1>2. {Given(source), "broken"} \subseteq Content
  BY <1>1, GivenType DEF Content
<1>3. PICK content \in {Given(source), "broken"} : Takes(w, source, content)
  BY DEF ListArrives
<1>4. QED
  BY <1>1, <1>2, <1>3, TakesType

LEMMA StartupType ==
  ASSUME TypeOK, Inv, NEW w \in Worker, Startup(w)
  PROVE  TypeOK'
<1>1. worker[w] \in WorkerState /\ DOMAIN worker[w].sessions \subseteq issued
  BY DEF TypeOK
<1>2. CASE AppFactory(w)
  <2> DEFINE loaded == LoadConfig(disk.file, env)
             record == [worker[w] EXCEPT !.pc = IF loaded.ok THEN "created" ELSE "failed",
                                         !.read = disk.file, !.loaded = loaded]
  <2>1. disk.file \in Files /\ loaded \in Loadable
    BY LoadedType DEF TypeOK, Disk
  <2> HIDE DEF loaded
  <2>2. record \in WorkerState /\ record.sessions = worker[w].sessions
    BY <1>1, <2>1 DEF WorkerState, WorkerPc
  <2>3. Becomes(w, record)
    BY <1>2 DEF AppFactory, loaded
  <2>4. QED
    BY <1>1, <2>2, <2>3, BecomesType
<1>3. CASE LoadHeldCircuit(w)
  <2> DEFINE record == [worker[w] EXCEPT !.pc = "circuit", !.circuit = disk.circuit]
  <2>1. record \in WorkerState /\ record.sessions = worker[w].sessions
    BY <1>1 DEF WorkerState, WorkerPc, TypeOK, Disk
  <2>2. CASE Becomes(w, record)
    BY <1>1, <2>1, <2>2, BecomesType
  <2>3. QED
    BY <1>3, <2>2, FailsType DEF LoadHeldCircuit
<1>4. CASE LoadSource(w)
  <2>1. PICK source \in Unread(w) :
          IF Fetched(source)
            THEN Becomes(w, [worker[w] EXCEPT !.fetches = source])
            ELSE Takes(w, source, Given(source))
    BY <1>4 DEF LoadSource
  <2>2. source \in Source
    BY <1>4, <2>1, ListedType DEF LoadSource, At, Unread
  <2> DEFINE record == [worker[w] EXCEPT !.fetches = source]
  <2>3. record \in WorkerState /\ record.sessions = worker[w].sessions
    BY <1>1, <2>2 DEF WorkerState
  <2>4. CASE Becomes(w, record)
    BY <1>1, <2>3, <2>4, BecomesType
  <2>5. CASE Takes(w, source, Given(source))
    BY <2>2, <2>5, GivenType, TakesType
  <2>6. QED
    BY <2>1, <2>4, <2>5
<1>5. CASE Serve(w)
  <2> DEFINE record == [worker[w] EXCEPT !.pc = "serving", !.sweeper = "running"]
  <2>1. record \in WorkerState /\ record.sessions = worker[w].sessions
    BY <1>1 DEF WorkerState, WorkerPc
  <2>2. CASE Becomes(w, record)
    BY <1>1, <2>1, <2>2, BecomesType
  <2>3. QED
    BY <1>5, <2>2, FailsType DEF Serve
<1>6. QED
  BY <1>2, <1>3, <1>4, <1>5 DEF Startup

\* The sessions of one worker, as they are after a request.
LEMMA AnswersType ==
  ASSUME TypeOK, NEW w \in Worker, NEW sessions \in Sessions, NEW id \in SessionId,
         NEW says, issued' \in SUBSET SessionId, issued \subseteq issued',
         DOMAIN sessions \subseteq issued', Answers(w, sessions, id, says)
  PROVE  TypeOK'
<1>1. worker' \in [Worker -> WorkerState]
  BY DEF Answers, TypeOK, WorkerState
<1>2. \A v \in Worker : DOMAIN worker'[v].sessions \subseteq issued'
  BY DEF Answers, TypeOK, WorkerState
<1>3. QED
  BY <1>1, <1>2 DEF Answers, TypeOK, Says, processVars

LEMMA SessionsType ==
  ASSUME TypeOK, NEW w \in Worker
  PROVE  /\ worker[w].sessions \in Sessions
         /\ worker[w].sessions \in [DOMAIN worker[w].sessions -> {"open", "spent"}]
         /\ DOMAIN worker[w].sessions \subseteq SessionId
         /\ DOMAIN worker[w].sessions \subseteq issued
BY DEF TypeOK, WorkerState, Sessions

LEMMA CreateType ==
  ASSUME TypeOK, NEW w \in Worker, NEW id \in SessionId, Create(w, id)
  PROVE  TypeOK'
<1> DEFINE added == Over([i \in {id} |-> "open"], worker[w].sessions)
           ids == DOMAIN worker[w].sessions \cup {id}
<1>1. added \in [ids -> {"open", "spent"}] /\ ids \in SUBSET SessionId
  BY SessionsType DEF Over
<1>2. added \in Sessions /\ DOMAIN added = ids
  BY <1>1 DEF Sessions
<1> HIDE DEF added
<1>3. QED
  BY <1>2, AnswersType, SessionsType DEF Create, added, TypeOK

LEMMA SubmitType ==
  ASSUME TypeOK, NEW w \in Worker, NEW id \in SessionId, Submit(w, id)
  PROVE  TypeOK'
<1> DEFINE sessions == worker[w].sessions
           spent == [sessions EXCEPT ![id] = "spent"]
<1>1. spent \in [DOMAIN sessions -> {"open", "spent"}]
  BY SessionsType
<1>2. spent \in Sessions /\ DOMAIN spent = DOMAIN sessions
  BY <1>1, SessionsType DEF Sessions
<1>3. issued' = issued /\ issued \in SUBSET SessionId
  BY DEF Submit, TypeOK
<1>4. CASE \E says : Answers(w, spent, id, says)
  BY <1>2, <1>3, <1>4, AnswersType, SessionsType
<1>5. CASE Answers(w, sessions, id, "unknown")
  BY <1>3, <1>5, AnswersType, SessionsType
<1>6. QED
  BY <1>4, <1>5 DEF Submit

LEMMA SweepType ==
  ASSUME TypeOK, NEW w \in Worker, Sweep(w)
  PROVE  TypeOK'
<1> DEFINE sessions == worker[w].sessions
<1>1. PICK left \in SUBSET DOMAIN sessions :
        Becomes(w, [worker[w] EXCEPT !.sessions = [id \in left |-> sessions[id]]])
  BY DEF Sweep
<1>2. [id \in left |-> sessions[id]] \in [left -> {"open", "spent"}]
  BY SessionsType
<1>3. [id \in left |-> sessions[id]] \in Sessions
  BY <1>2, SessionsType DEF Sessions
<1>4. [worker[w] EXCEPT !.sessions = [id \in left |-> sessions[id]]] \in WorkerState
  BY <1>3 DEF TypeOK, WorkerState
<1>5. QED
  BY <1>1, <1>4, SessionsType, BecomesType DEF TypeOK, WorkerState

LEMMA ShutdownType ==
  ASSUME TypeOK, NEW w \in Worker, Shutdown(w)
  PROVE  TypeOK'
<1>1. CASE Cancel(w)
  <2>1. [worker[w] EXCEPT !.pc = "stopping", !.sweeper = "cancelled"] \in WorkerState
    BY DEF TypeOK, WorkerState, WorkerPc
  <2>2. QED
    BY <1>1, <2>1, BecomesType DEF Cancel, TypeOK, WorkerState
<1>2. CASE Ends(w)
  BY <1>2, BecomesType, NoWorkerType, NoSessions DEF Ends
<1>3. QED
  BY <1>1, <1>2 DEF Shutdown

LEMMA OffType ==
  ASSUME TypeOK, Off
  PROVE  TypeOK'
<1>1. env' \in Environment
  BY EnvironmentStep DEF Off, TypeOK
<1>2. QED
  BY <1>1, NoWorkerType, NoSessions DEF Off, TypeOK, Quiet, Silence

LEMMA EditType ==
  ASSUME TypeOK, Edit
  PROVE  TypeOK'
<1>1. disk' \in Disk
  BY DEF Edit, TypeOK, Disk
<1>2. QED
  BY <1>1 DEF Edit, TypeOK, Quiet, Silence

LEMMA TypeStep ==
  ASSUME TypeOK, Inv, [Next]_vars
  PROVE  TypeOK'
<1>1. CASE Main \/ Entrypoint
  BY <1>1, LaunchType
<1>2. ASSUME NEW w \in Worker,
             Startup(w) \/ ListArrives(w) \/ Shutdown(w) \/ Sweep(w)
      PROVE  TypeOK'
  BY <1>2, StartupType, ListArrivesType, ShutdownType, SweepType
<1>3. ASSUME NEW w \in Worker, NEW id \in SessionId, Create(w, id) \/ Submit(w, id)
      PROVE  TypeOK'
  BY <1>3, CreateType, SubmitType
<1>4. CASE Terminate
  BY <1>4 DEF Terminate, TypeOK, Quiet, Silence
<1>5. CASE Stopped \/ Crash
  BY <1>5, OffType DEF Stopped, Crash
<1>6. CASE Edit
  BY <1>6, EditType
<1>7. CASE UNCHANGED vars
  BY <1>7 DEF vars, processVars, TypeOK
<1>8. QED
  BY <1>1, <1>2, <1>3, <1>4, <1>5, <1>6, <1>7 DEF Next

-----------------------------------------------------------------------------
(* The invariant is inductive.                                             *)

LEMMA NoWorkerHolds == Tracks(NoWorker) /\ Staged(NoWorker)
BY DEF Tracks, Staged, NoWorker

\* A step of a worker that is there keeps the invariant if what it becomes
\* is in order.
LEMMA BecomesHolds ==
  ASSUME TypeOK, Inv, NEW w \in Worker, worker[w] # NoWorker,
         NEW state, Tracks(state), Staged(state),
         worker' = [worker EXCEPT ![w] = state], UNCHANGED processVars
  PROVE  Inv'
<1>1. \A v \in Worker : worker'[v] = IF v = w THEN state ELSE worker[v]
  BY DEF TypeOK
<1>2. OneWorker' /\ OffIsEmpty'
  BY <1>1 DEF Inv, OneWorker, OffIsEmpty, processVars
<1>3. LoadedAsRead' /\ StagesDone'
  BY <1>1 DEF Inv, LoadedAsRead, StagesDone, Tracks, Staged, processVars
<1>4. ValidatedAsRead'
  BY DEF Inv, ValidatedAsRead, processVars
<1>5. QED
  BY <1>2, <1>3, <1>4 DEF Inv

LEMMA LaunchHolds ==
  ASSUME TypeOK, Inv, Main \/ Entrypoint
  PROVE  Inv'
<1>1. \A w \in Worker : worker[w] = NoWorker
  BY DEF Main, Entrypoint, Inv, OffIsEmpty
<1>2. ASSUME NEW w \in Worker
      PROVE  \/ worker'[w] = NoWorker
             \/ w \in Workers /\ worker'[w] = [NoWorker EXCEPT !.pc = "spawned"]
  BY <1>1, <1>2 DEF Main, Entrypoint, Spawn
<1>3. OneWorker'
  BY <1>2 DEF OneWorker
<1>4. OffIsEmpty'
  BY <1>1 DEF Main, Entrypoint, OffIsEmpty
<1>5. LoadedAsRead' /\ StagesDone'
  BY <1>2 DEF LoadedAsRead, StagesDone, Tracks, Staged, NoWorker
<1>6. ValidatedAsRead'
  <2>1. CASE Main
    <3> DEFINE loaded == LoadConfig(disk.file, env)
    <3>1. validated' = [read |-> disk.file, loaded |-> loaded]
      BY <2>1 DEF Main
    <3>2. env' = env \/ env' = [env EXCEPT !.locator = TRUE]
      BY <2>1 DEF Main
    <3>3. LoadConfig(disk.file, env') = loaded
      BY <3>2, LocatorIgnored DEF TypeOK
    <3>4. QED
      BY <3>1, <3>3 DEF ValidatedAsRead
  <2>2. CASE Entrypoint
    BY <2>2 DEF Entrypoint, ValidatedAsRead
  <2>3. QED
    BY <2>1, <2>2
<1>7. QED
  BY <1>3, <1>4, <1>5, <1>6 DEF Inv

LEMMA FailsHolds ==
  ASSUME TypeOK, Inv, NEW w \in Worker, worker[w].pc \in {"created", "circuit"}, Fails(w)
  PROVE  Inv'
<1> DEFINE state == [worker[w] EXCEPT !.pc = "failed", !.fetches = Nothing]
<1>1. Tracks(state) /\ Staged(state) /\ worker[w] # NoWorker
  BY DEF Inv, LoadedAsRead, Tracks, Staged, TypeOK, WorkerState, NoWorker
<1>2. QED
  BY <1>1, BecomesHolds DEF Fails, Becomes

LEMMA TakesHolds ==
  ASSUME TypeOK, Inv, NEW w \in Worker, worker[w].pc = "circuit",
         NEW source \in worker[w].loaded.config.sources, NEW content,
         Takes(w, source, content)
  PROVE  Inv'
<1> DEFINE anchors == Over([s \in {source} |-> content], worker[w].anchors)
           state == [worker[w] EXCEPT !.fetches = Nothing, !.anchors = anchors]
<1>1. worker[w] \in WorkerState /\ worker[w] # NoWorker
  BY DEF TypeOK, NoWorker
<1>2. CASE content # "broken" /\ Becomes(w, state)
  <2>1. Staged(worker[w]) /\ Tracks(worker[w])
    BY DEF Inv, LoadedAsRead, StagesDone
  <2>2. /\ DOMAIN anchors = DOMAIN worker[w].anchors \cup {source}
        /\ \A s \in DOMAIN anchors :
             anchors[s] = IF s = source THEN content ELSE worker[w].anchors[s]
    BY DEF Over
  <2> HIDE DEF anchors
  <2>3. Reading(state)
    BY <1>1, <1>2, <2>1, <2>2 DEF Staged, Reading, WorkerState
  <2>4. Staged(state) /\ Tracks(state)
    BY <1>1, <2>1, <2>3 DEF Staged, Tracks, WorkerState
  <2>5. QED
    BY <1>1, <1>2, <2>4, BecomesHolds DEF Becomes
<1>3. Reads(w, source, content) => Becomes(w, state)
  BY <1>1 DEF Reads, WorkerState
<1>4. QED
  BY <1>2, <1>3, FailsHolds DEF Takes

LEMMA ListArrivesHolds ==
  ASSUME TypeOK, Inv, NEW w \in Worker, ListArrives(w)
  PROVE  Inv'
<1> DEFINE source == worker[w].fetches
<1>1. worker[w].pc = "circuit" /\ source # Nothing
  BY DEF ListArrives, At
<1>2. source \in worker[w].loaded.config.sources
  BY <1>1 DEF Inv, StagesDone, Staged, Reading
<1>3. PICK content : Takes(w, source, content)
  BY DEF ListArrives
<1>4. QED
  BY <1>1, <1>2, <1>3, TakesHolds

LEMMA StartupHolds ==
  ASSUME TypeOK, Inv, NEW w \in Worker, Startup(w)
  PROVE  Inv'
<1>1. CASE AppFactory(w)
  <2> DEFINE loaded == LoadConfig(disk.file, env)
             state == [worker[w] EXCEPT !.pc = IF loaded.ok THEN "created" ELSE "failed",
                                        !.read = disk.file, !.loaded = loaded]
  <2>1. worker[w] # NoWorker
    BY <1>1 DEF AppFactory, At, NoWorker
  <2>2. disk.file \in Files /\ loaded.ok \in BOOLEAN
    BY DEF TypeOK, Disk, LoadConfig, ConfigError, Loaded
  <2> HIDE DEF loaded
  <2>3. Tracks(state)
    BY <2>2 DEF Tracks, TypeOK, WorkerState, loaded
  <2>4. Staged(state)
    <3>1. worker[w].pc = "spawned" /\ Staged(worker[w]) /\ worker[w] \in WorkerState
      BY <1>1 DEF AppFactory, At, Inv, StagesDone, TypeOK
    <3>2. QED
      BY <2>2, <3>1 DEF Staged, WorkerState
  <2>5. Becomes(w, state)
    BY <1>1 DEF AppFactory, loaded
  <2>6. QED
    BY <2>1, <2>3, <2>4, <2>5, BecomesHolds DEF Becomes
<1>2. CASE LoadHeldCircuit(w)
  <2> DEFINE state == [worker[w] EXCEPT !.pc = "circuit", !.circuit = disk.circuit]
  <2>1. worker[w].pc = "created" /\ worker[w] # NoWorker
    BY <1>2 DEF LoadHeldCircuit, At, NoWorker
  <2>2. CASE Becomes(w, state) /\ disk.circuit = "pinned"
    <3>1. Tracks(worker[w]) /\ Staged(worker[w]) /\ worker[w] \in WorkerState
      BY DEF Inv, LoadedAsRead, StagesDone, TypeOK
    <3>2. Reading(state)
      BY <2>1, <3>1 DEF Staged, Reading, WorkerState, NoWorker
    <3>3. Tracks(state) /\ Staged(state)
      BY <2>1, <2>2, <3>1, <3>2 DEF Tracks, Staged, WorkerState
    <3>4. QED
      BY <2>1, <2>2, <3>3, BecomesHolds DEF Becomes
  <2>3. QED
    BY <1>2, <2>1, <2>2, FailsHolds DEF LoadHeldCircuit
<1>3. CASE LoadSource(w)
  <2>1. /\ worker[w].pc = "circuit" /\ worker[w] # NoWorker /\ worker[w] \in WorkerState
        /\ Tracks(worker[w]) /\ Staged(worker[w])
    BY <1>3 DEF LoadSource, At, NoWorker, Inv, LoadedAsRead, StagesDone, TypeOK
  <2>2. PICK source \in worker[w].loaded.config.sources :
          IF Fetched(source)
            THEN Becomes(w, [worker[w] EXCEPT !.fetches = source])
            ELSE Takes(w, source, Given(source))
    BY <1>3 DEF LoadSource, Unread
  <2> DEFINE state == [worker[w] EXCEPT !.fetches = source]
  <2>3. CASE Becomes(w, state)
    <3>1. Reading(state)
      BY <2>1 DEF Staged, Reading, WorkerState
    <3>2. Tracks(state) /\ Staged(state)
      BY <2>1, <3>1 DEF Tracks, Staged, WorkerState
    <3>3. QED
      BY <2>1, <2>3, <3>2, BecomesHolds DEF Becomes
  <2>4. QED
    BY <2>1, <2>2, <2>3, TakesHolds
<1>4. CASE Serve(w)
  <2> DEFINE state == [worker[w] EXCEPT !.pc = "serving", !.sweeper = "running"]
  <2>1. /\ worker[w].pc = "circuit" /\ worker[w] # NoWorker /\ worker[w] \in WorkerState
        /\ Tracks(worker[w]) /\ Staged(worker[w])
    BY <1>4 DEF Serve, At, NoWorker, Inv, LoadedAsRead, StagesDone, TypeOK
  <2>2. CASE Becomes(w, state) /\ ReadAll(worker[w])
    <3>1. Reading(state) /\ ReadAll(state)
      BY <2>1, <2>2 DEF Staged, Reading, ReadAll, WorkerState
    <3>2. Tracks(state) /\ Staged(state)
      BY <2>1, <3>1 DEF Tracks, Staged, WorkerState
    <3>3. QED
      BY <2>1, <2>2, <3>2, BecomesHolds DEF Becomes
  <2>3. QED
    BY <1>4, <2>1, <2>2, FailsHolds DEF Serve, Unread, ReadAll
<1>5. QED
  BY <1>1, <1>2, <1>3, <1>4 DEF Startup

\* What happens to the sessions of a worker does not concern the invariant.
LEMMA SessionsHold ==
  ASSUME TypeOK, Inv, NEW w \in Worker, worker[w] # NoWorker, NEW sessions,
         worker' = [worker EXCEPT ![w] = [worker[w] EXCEPT !.sessions = sessions]],
         UNCHANGED processVars
  PROVE  Inv'
<1> DEFINE state == [worker[w] EXCEPT !.sessions = sessions]
<1>1. Tracks(state) /\ Staged(state)
  BY DEF Inv, LoadedAsRead, StagesDone, Tracks, Staged, Reading, ReadAll, TypeOK, WorkerState
<1>2. QED
  BY <1>1, BecomesHolds

LEMMA ServingHolds ==
  ASSUME TypeOK, Inv, NEW w \in Worker,
         \/ Sweep(w)
         \/ \E id \in SessionId : Create(w, id) \/ Submit(w, id)
  PROVE  Inv'
<1>1. worker[w] # NoWorker
  <2>1. worker[w].sweeper = "running" \/ worker[w].pc = "serving"
    BY DEF Sweep, Create, Submit, At
  <2>2. QED
    BY <2>1 DEF NoWorker
<1>2. UNCHANGED processVars
  BY DEF Sweep, Becomes, Create, Submit, Answers
<1>3. \E sessions :
        worker' = [worker EXCEPT ![w] = [worker[w] EXCEPT !.sessions = sessions]]
  BY DEF Sweep, Becomes, Create, Submit, Answers
<1>4. QED
  BY <1>1, <1>2, <1>3, SessionsHold

LEMMA ShutdownHolds ==
  ASSUME TypeOK, Inv, NEW w \in Worker, Shutdown(w)
  PROVE  Inv'
<1>1. CASE Cancel(w)
  <2> DEFINE state == [worker[w] EXCEPT !.pc = "stopping", !.sweeper = "cancelled"]
  <2>1. worker[w] # NoWorker
    BY <1>1 DEF Cancel, NoWorker
  <2>2. Tracks(state) /\ Staged(state)
    BY <1>1 DEF Cancel, Inv, LoadedAsRead, Tracks, Staged, TypeOK, WorkerState
  <2>3. QED
    BY <1>1, <2>1, <2>2, BecomesHolds DEF Cancel, Becomes
<1>2. CASE Ends(w)
  <2>1. worker[w] # NoWorker
    BY <1>2 DEF Ends, NoWorker
  <2>2. QED
    BY <1>2, <2>1, BecomesHolds, NoWorkerHolds DEF Ends, Becomes
<1>3. QED
  BY <1>1, <1>2 DEF Shutdown

LEMMA OffHolds ==
  ASSUME Off
  PROVE  Inv'
<1>1. \A w \in Worker : worker'[w] = NoWorker
  BY DEF Off
<1>2. OneWorker' /\ OffIsEmpty'
  BY <1>1 DEF OneWorker, OffIsEmpty
<1>3. LoadedAsRead' /\ StagesDone'
  BY <1>1 DEF LoadedAsRead, StagesDone, Tracks, Staged, NoWorker
<1>4. QED
  BY <1>2, <1>3 DEF Inv, Off, ValidatedAsRead

\* The disk is not what the invariant is about.
LEMMA UntouchedHolds ==
  ASSUME Inv, UNCHANGED <<env, validated, worker>>, launcher' = "off" => launcher = "off"
  PROVE  Inv'
<1>1. OneWorker' /\ OffIsEmpty' /\ StagesDone'
  BY DEF Inv, OneWorker, OffIsEmpty, StagesDone
<1>2. LoadedAsRead' /\ ValidatedAsRead'
  BY DEF Inv, LoadedAsRead, ValidatedAsRead, Tracks
<1>3. QED
  BY <1>1, <1>2 DEF Inv

LEMMA InvStep ==
  ASSUME TypeOK, Inv, [Next]_vars
  PROVE  Inv'
<1>1. CASE Main \/ Entrypoint
  BY <1>1, LaunchHolds
<1>2. ASSUME NEW w \in Worker,
             Startup(w) \/ ListArrives(w) \/ Shutdown(w) \/ Sweep(w)
      PROVE  Inv'
  BY <1>2, StartupHolds, ListArrivesHolds, ShutdownHolds, ServingHolds
<1>3. ASSUME NEW w \in Worker, NEW id \in SessionId, Create(w, id) \/ Submit(w, id)
      PROVE  Inv'
  BY <1>3, ServingHolds
<1>4. CASE Terminate
  BY <1>4, UntouchedHolds DEF Terminate
<1>5. CASE Stopped \/ Crash
  BY <1>5, OffHolds DEF Stopped, Crash
<1>6. CASE Edit
  BY <1>6, UntouchedHolds DEF Edit
<1>7. CASE UNCHANGED vars
  BY <1>7, UntouchedHolds DEF vars, processVars
<1>8. QED
  BY <1>1, <1>2, <1>3, <1>4, <1>5, <1>6, <1>7 DEF Next

LEMMA InitHolds ==
  ASSUME Init
  PROVE  TypeOK /\ Inv
<1>1. \A w \in Worker : worker[w] = NoWorker
  BY DEF Init
<1>2. env \in Environment
  <2>1. env = [env EXCEPT !.locator = env.locator] /\ env.locator \in BOOLEAN
    BY LifecycleAssumption DEF Init
  <2>2. QED
    BY <2>1 DEF Init, Environment
<1>3. TypeOK
  BY <1>1, <1>2, NoWorkerType, NoSessions DEF Init, TypeOK, Silence
<1>4. LoadedAsRead /\ StagesDone
  BY <1>1, NoWorkerHolds DEF LoadedAsRead, StagesDone
<1>5. QED
  BY <1>1, <1>3, <1>4 DEF Inv, OneWorker, OffIsEmpty, ValidatedAsRead, Init

LEMMA Inductive == Spec => [](TypeOK /\ Inv)
<1>1. Init => TypeOK /\ Inv
  BY InitHolds
<1>2. TypeOK /\ Inv /\ [Next]_vars => (TypeOK /\ Inv)'
  BY TypeStep, InvStep
<1>3. QED
  BY <1>1, <1>2, PTL DEF Spec

(***************************************************************************)
(* The disk, the environment and what the processes hold keep their types: *)
(* a configuration that is loaded came of some file and some environment,  *)
(* what is read or fetched at the start is a source some file lists.       *)
(***************************************************************************)
THEOREM TypeCorrect == Spec => []TypeOK
BY Inductive, PTL

-----------------------------------------------------------------------------
(* What serves.                                                            *)

(***************************************************************************)
(* Whatever the files hold and whenever they are edited, a worker that     *)
(* serves has the pinned circuit, a certificate to trust and every source  *)
(* of its configuration read to the end, a valid origin and a sweeper.     *)
(***************************************************************************)
THEOREM ServesWhole == Spec => []ServingIsWhole
<1>1. TypeOK /\ Inv => ServingIsWhole
  <2> SUFFICES ASSUME TypeOK, Inv, NEW w \in Serving
               PROVE  /\ worker[w].circuit = "pinned"
                      /\ DOMAIN worker[w].anchors = worker[w].loaded.config.sources
                      /\ \A source \in DOMAIN worker[w].anchors :
                           worker[w].anchors[source] # "broken"
                      /\ \E source \in DOMAIN worker[w].anchors :
                           worker[w].anchors[source] = "certificates"
                      /\ Valid("expected_origin", worker[w].loaded.config.expected_origin)
                      /\ worker[w].sweeper = "running"
    BY DEF ServingIsWhole
  <2> DEFINE read == worker[w].read
  <2>1. Staged(worker[w]) /\ Tracks(worker[w]) /\ worker[w].pc = "serving"
    BY DEF Serving, Inv, StagesDone, LoadedAsRead
  <2>2. worker[w].loaded = LoadConfig(read, env) /\ LoadConfig(read, env).ok = TRUE
    BY <2>1 DEF Staged, Tracks
  <2>3. "expected_origin" \in DOMAIN Written(read, env)
    BY <2>2, LoadedIsValid DEF Required
  <2>4. Valid("expected_origin", LoadConfig(read, env).config["expected_origin"])
    BY <2>2, <2>3, LoadedIsValid
  <2>5. Reading(worker[w]) /\ ReadAll(worker[w])
    BY <2>1 DEF Staged
  <2>6. QED
    BY <2>1, <2>2, <2>4, <2>5 DEF Staged, Reading, ReadAll
<1>2. QED
  BY <1>1, Inductive, PTL

(***************************************************************************)
(* A worker that read the same file as main has loaded what main checked,  *)
(* for every file and every environment.                                   *)
(***************************************************************************)
THEOREM ServesValidated == Spec => []ValidatedIsServed
<1>1. TypeOK /\ Inv => ValidatedIsServed
  <2> SUFFICES ASSUME TypeOK, Inv, NEW w \in Worker,
                      validated # Nothing, worker[w].read = validated.read
               PROVE  worker[w].loaded = validated.loaded
    BY DEF ValidatedIsServed
  <2>1. validated.read \in Files
    BY DEF TypeOK
  <2>2. worker[w].read # Nothing
    BY <2>1, LifecycleAssumption
  <2>3. worker[w].loaded = LoadConfig(worker[w].read, env)
    BY <2>2 DEF Inv, LoadedAsRead, Tracks
  <2>4. QED
    BY <2>3 DEF Inv, ValidatedAsRead
<1>2. QED
  BY <1>1, Inductive, PTL

(***************************************************************************)
(* A setting the environment does not name is served as the file has it.   *)
(***************************************************************************)
THEOREM OverridesAreLocal == Spec => []OverrideIsLocal
<1>1. TypeOK /\ Inv => OverrideIsLocal
  <2> SUFFICES ASSUME TypeOK, Inv, NEW w \in Serving,
                      NEW key \in DOMAIN worker[w].read.values \ DOMAIN env.values
               PROVE  worker[w].loaded.config[key] = worker[w].read.values[key]
    BY DEF OverrideIsLocal
  <2> DEFINE read == worker[w].read
  <2>1. worker[w].loaded = LoadConfig(read, env) /\ LoadConfig(read, env).ok = TRUE
    BY DEF Serving, Inv, StagesDone, Staged, LoadedAsRead, Tracks
  <2>2. key \in DOMAIN Written(read, env) /\ Written(read, env)[key] = read.values[key]
    BY WrittenIsFile
  <2>3. LoadConfig(read, env).config[key] = Written(read, env)[key]
    BY <2>1, <2>2, LoadedIsValid
  <2>4. QED
    BY <2>1, <2>2, <2>3
<1>2. QED
  BY <1>1, Inductive, PTL

-----------------------------------------------------------------------------
(* The sessions of the processes, as handles.                              *)

phaseBar == [id \in SessionId |-> PhaseOf(id)]

\* The sessions of different workers do not mix: only one has any.
LEMMA OneKnows ==
  ASSUME Inv, NEW v \in Worker, NEW w \in Worker, NEW id,
         id \in DOMAIN worker[v].sessions, id \in DOMAIN worker[w].sessions
  PROVE  v = w
<1>1. ASSUME NEW u \in Worker, id \in DOMAIN worker[u].sessions
      PROVE  u \in Workers
  BY <1>1, NoSessions DEF Inv, OneWorker
<1>2. QED
  BY <1>1 DEF Workers

\* What the phase of a handle says of the workers.
PhaseTold(id) ==
  /\ id \notin issued => PhaseOf(id) = "unissued"
  /\ \A w \in Worker :
       id \in DOMAIN worker[w].sessions => PhaseOf(id) = worker[w].sessions[id]
  /\ id \in issued /\ (\A w \in Worker : id \notin DOMAIN worker[w].sessions)
       => PhaseOf(id) = "gone"

LEMMA PhaseCases ==
  ASSUME NEW id \in SessionId
  PROVE  TypeOK /\ Inv => PhaseTold(id)
<1> SUFFICES ASSUME TypeOK, Inv
             PROVE  PhaseTold(id)
  OBVIOUS
<1> DEFINE knowing == {w \in Worker : id \in DOMAIN worker[w].sessions}
<1>1. ASSUME NEW w \in knowing
      PROVE  PhaseOf(id) = worker[w].sessions[id]
  <2>1. \A v \in knowing : v = w
    BY OneKnows
  <2>2. (CHOOSE v \in knowing : TRUE) = w
    BY <2>1
  <2>3. id \in issued /\ knowing # {}
    BY DEF TypeOK
  <2>4. QED
    BY <2>2, <2>3 DEF PhaseOf
<1>2. id \notin issued => PhaseOf(id) = "unissued"
  <2>1. id \notin issued => knowing = {}
    BY DEF TypeOK
  <2>2. QED
    BY <2>1 DEF PhaseOf
<1>3. id \in issued /\ knowing = {} => PhaseOf(id) = "gone"
  BY DEF PhaseOf
<1>4. QED
  BY <1>1, <1>2, <1>3 DEF PhaseTold

LEMMA PhaseCasesNext ==
  ASSUME NEW id \in SessionId
  PROVE  (TypeOK /\ Inv => PhaseTold(id))'
BY PhaseCases, PTL

\* The phases tell what every handle is known as, and what a step does to it.
LEMMA PhaseValues ==
  ASSUME TypeOK, Inv, NEW id \in SessionId
  PROVE  /\ PhaseOf(id) \in {"open", "spent"} <=>
              \E w \in Worker : id \in DOMAIN worker[w].sessions
         /\ PhaseOf(id) = "unissued" <=> id \notin issued
<1>1. PhaseTold(id)
  BY PhaseCases
<1>2. \A w \in Worker : id \in DOMAIN worker[w].sessions =>
        worker[w].sessions[id] \in {"open", "spent"} /\ id \in issued
  BY SessionsType
<1>3. QED
  BY <1>1, <1>2 DEF PhaseTold

-----------------------------------------------------------------------------
(* Each step of the processes, seen as a step of the handles.              *)

\* A step after which every worker has some of the sessions it had, or none,
\* forgets the others.
LEMMA LosingForgets ==
  ASSUME TypeOK, Inv, TypeOK', Inv', Quiet,
         \A w \in Worker : \A id \in DOMAIN worker'[w].sessions :
           /\ id \in DOMAIN worker[w].sessions
           /\ worker'[w].sessions[id] = worker[w].sessions[id]
  PROVE  Handle!Background
<1> DEFINE Known(id) == \E w \in Worker : id \in DOMAIN worker[w].sessions
           StillKnown(id) == \E w \in Worker : id \in DOMAIN worker'[w].sessions
           ids == {id \in SessionId : Known(id) /\ ~StillKnown(id)}
<1>1. ASSUME NEW id \in SessionId
      PROVE  PhaseOf(id)' = IF id \in ids THEN "gone" ELSE PhaseOf(id)
  <2>1. PhaseTold(id) /\ PhaseTold(id)' /\ issued' = issued
    BY PhaseCases, PhaseCasesNext DEF Quiet
  <2>2. CASE StillKnown(id)
    BY <2>1, <2>2 DEF PhaseTold
  <2>3. CASE Known(id) /\ ~StillKnown(id)
    <3>1. id \in issued
      BY <2>3, SessionsType
    <3>2. QED
      BY <2>1, <2>3, <3>1 DEF PhaseTold
  <2>4. CASE ~Known(id)
    BY <2>1, <2>4 DEF PhaseTold
  <2>5. QED
    BY <2>2, <2>3, <2>4
<1>2. phaseBar' = Handle!Forgotten(ids)
  BY <1>1 DEF phaseBar, Handle!Forgotten
<1>3. ids \in SUBSET Handle!Usable
  BY PhaseValues DEF Handle!Usable
<1>4. QED
  BY <1>2, <1>3 DEF Handle!Background, phaseBar, Quiet, Silence, Handle!Silence

LEMMA CreateIssues ==
  ASSUME TypeOK, Inv, TypeOK', Inv', NEW w \in Worker, NEW id \in SessionId, Create(w, id)
  PROVE  Handle!Issue(id)
<1>1. \A i \in SessionId : PhaseTold(i) /\ PhaseTold(i)'
  BY PhaseCases, PhaseCasesNext
<1>2. PhaseOf(id) = "unissued"
  BY <1>1 DEF PhaseTold, Create
<1>3. /\ DOMAIN worker'[w].sessions = DOMAIN worker[w].sessions \cup {id}
      /\ worker'[w].sessions[id] = "open"
      /\ \A i \in DOMAIN worker[w].sessions \ {id} :
           worker'[w].sessions[i] = worker[w].sessions[i]
      /\ \A v \in Worker \ {w} : worker'[v].sessions = worker[v].sessions
      /\ issued' = issued \cup {id}
  BY DEF Create, Answers, Over, TypeOK, WorkerState
<1>4. PhaseOf(id)' = "open"
  BY <1>1, <1>3 DEF PhaseTold
<1>5. ASSUME NEW i \in SessionId \ {id}
      PROVE  PhaseOf(i)' = PhaseOf(i)
  <2>1. CASE \E v \in Worker : i \in DOMAIN worker[v].sessions
    <3>1. PICK v \in Worker : i \in DOMAIN worker[v].sessions
      BY <2>1
    <3>2. i \in DOMAIN worker'[v].sessions /\ worker'[v].sessions[i] = worker[v].sessions[i]
      BY <1>3, <3>1
    <3>3. QED
      BY <1>1, <3>1, <3>2 DEF PhaseTold
  <2>2. CASE ~\E v \in Worker : i \in DOMAIN worker[v].sessions
    <3>1. ~\E v \in Worker : i \in DOMAIN worker'[v].sessions
      BY <1>3, <2>2
    <3>2. QED
      BY <1>1, <1>3, <2>2, <3>1 DEF PhaseTold
  <2>3. QED
    BY <2>1, <2>2
<1>6. phaseBar' = [Handle!Forgotten({}) EXCEPT ![id] = "open"]
  BY <1>4, <1>5 DEF phaseBar, Handle!Forgotten
<1>7. answer' = Handle!Says(id, "created")
  BY DEF Create, Answers, Says, Handle!Says
<1>8. QED
  BY <1>2, <1>6, <1>7 DEF Handle!Issue, phaseBar

LEMMA SubmitRefines ==
  ASSUME TypeOK, Inv, TypeOK', Inv', NEW w \in Worker, NEW id \in SessionId, Submit(w, id)
  PROVE  Handle!Claim(id) \/ Handle!Refuse(id) \/ Handle!Deny(id)
<1> DEFINE sessions == worker[w].sessions
<1>1. \A i \in SessionId : PhaseTold(i) /\ PhaseTold(i)'
  BY PhaseCases, PhaseCasesNext
<1>2. /\ DOMAIN worker'[w].sessions = DOMAIN sessions
      /\ \A v \in Worker \ {w} : worker'[v].sessions = worker[v].sessions
      /\ \A i \in DOMAIN sessions \ {id} : worker'[w].sessions[i] = sessions[i]
      /\ issued' = issued
  BY DEF Submit, Answers, TypeOK, WorkerState
<1>3. ASSUME NEW i \in SessionId, i # id \/ worker'[w].sessions[id] = sessions[id]
      PROVE  PhaseOf(i)' = PhaseOf(i)
  <2>1. CASE \E v \in Worker : i \in DOMAIN worker[v].sessions
    <3>1. PICK v \in Worker : i \in DOMAIN worker[v].sessions
      BY <2>1
    <3>2. i \in DOMAIN worker'[v].sessions /\ worker'[v].sessions[i] = worker[v].sessions[i]
      BY <1>2, <1>3, <3>1
    <3>3. QED
      BY <1>1, <3>1, <3>2 DEF PhaseTold
  <2>2. CASE ~\E v \in Worker : i \in DOMAIN worker[v].sessions
    <3>1. ~\E v \in Worker : i \in DOMAIN worker'[v].sessions
      BY <1>2, <2>2
    <3>2. QED
      BY <1>1, <1>2, <2>2, <3>1 DEF PhaseTold
  <2>3. QED
    BY <2>1, <2>2
<1>4. CASE id \in DOMAIN sessions /\ sessions[id] = "open"
  <2>1. worker'[w].sessions[id] = "spent" /\ answer' = Handle!Says(id, "taken")
    BY <1>4 DEF Submit, Answers, Says, Handle!Says, TypeOK, WorkerState
  <2>2. PhaseOf(id) = "open" /\ PhaseOf(id)' = "spent"
    BY <1>1, <1>2, <1>4, <2>1 DEF PhaseTold
  <2>3. phaseBar' = [phaseBar EXCEPT ![id] = "spent"]
    BY <1>3, <2>2 DEF phaseBar
  <2>4. QED
    BY <2>1, <2>2, <2>3 DEF Handle!Claim, phaseBar
<1>5. CASE id \in DOMAIN sessions /\ sessions[id] # "open"
  <2>1. sessions[id] = "spent"
    BY <1>5, SessionsType
  <2>2. worker'[w].sessions[id] = "spent" /\ answer' = Handle!Says(id, "already")
    BY <1>5 DEF Submit, Answers, Says, Handle!Says, TypeOK, WorkerState
  <2>3. PhaseOf(id) = "spent"
    BY <1>1, <1>5, <2>1 DEF PhaseTold
  <2>4. phaseBar' = phaseBar
    BY <1>3, <2>1, <2>2 DEF phaseBar
  <2>5. QED
    BY <2>2, <2>3, <2>4 DEF Handle!Refuse, phaseBar
<1>6. CASE id \notin DOMAIN sessions
  <2>1. worker'[w].sessions = sessions /\ answer' = Handle!Says(id, "unknown")
    BY <1>6 DEF Submit, Answers, Says, Handle!Says, TypeOK, WorkerState
  <2>2. phaseBar' = phaseBar
    BY <1>3, <2>1 DEF phaseBar
  <2>3. \A v \in Worker : id \notin DOMAIN worker[v].sessions
    <3>1. w \in Workers
      BY DEF Submit, At, Inv, OneWorker, NoWorker
    <3>2. \A v \in Worker \ {w} : worker[v] = NoWorker
      BY <3>1 DEF Inv, OneWorker, Workers
    <3>3. QED
      BY <1>6, <3>2, NoSessions
  <2>4. {id} \cap Handle!Usable = {}
    BY <2>3, PhaseValues DEF Handle!Usable
  <2>5. phaseBar = Handle!Forgotten({})
    BY DEF phaseBar, Handle!Forgotten
  <2>6. QED
    BY <2>1, <2>2, <2>4, <2>5 DEF Handle!Deny, phaseBar
<1>7. QED
  BY <1>4, <1>5, <1>6

\* A worker comes up without touching sessions; what ends takes its own along.
LEMMA QuietSteps ==
  ASSUME TypeOK, Inv,
         \/ Main \/ Entrypoint
         \/ \E w \in Worker : Startup(w) \/ ListArrives(w) \/ Shutdown(w) \/ Sweep(w)
         \/ Terminate \/ Stopped \/ Crash
         \/ Edit
  PROVE  /\ Quiet
         /\ \A w \in Worker : \A id \in DOMAIN worker'[w].sessions :
              /\ id \in DOMAIN worker[w].sessions
              /\ worker'[w].sessions[id] = worker[w].sessions[id]
<1> DEFINE Losing ==
      \A w \in Worker : \A id \in DOMAIN worker'[w].sessions :
        /\ id \in DOMAIN worker[w].sessions
        /\ worker'[w].sessions[id] = worker[w].sessions[id]
<1>1. ASSUME \A w \in Worker : worker'[w].sessions = NoWorker.sessions
      PROVE  Losing
  BY <1>1, NoSessions
<1>2. ASSUME UNCHANGED worker
      PROVE  Losing
  BY <1>2
<1>3. CASE Main \/ Entrypoint
  <2>1. Spawn => \A w \in Worker : worker'[w].sessions = NoWorker.sessions
    BY DEF Spawn, NoWorker
  <2>2. QED
    BY <1>1, <1>2, <1>3, <2>1 DEF Main, Entrypoint
<1>4. ASSUME NEW w \in Worker,
             Startup(w) \/ ListArrives(w) \/ Shutdown(w) \/ Sweep(w)
      PROVE  Quiet /\ Losing
  <2>1. \A v \in Worker \ {w} : worker'[v].sessions = worker[v].sessions
    <3>1. PICK record : Becomes(w, record)
      BY <1>4 DEF Startup, AppFactory, LoadHeldCircuit, LoadSource, ListArrives, Serve, Takes,
                  Reads, Fails, Shutdown, Cancel, Ends, Sweep
    <3>2. QED
      BY <3>1 DEF Becomes, TypeOK
  <2>2. CASE Startup(w) \/ ListArrives(w) \/ Cancel(w)
    <3>1. PICK record : Becomes(w, record) /\ record.sessions = worker[w].sessions
      <4> DEFINE Same(record) == Becomes(w, record) /\ record.sessions = worker[w].sessions
      <4>1. worker[w] \in WorkerState
        BY DEF TypeOK
      <4>2. ASSUME Fails(w)
            PROVE  Same([worker[w] EXCEPT !.pc = "failed", !.fetches = Nothing])
        BY <4>1, <4>2 DEF Fails, WorkerState
      <4>3. ASSUME NEW source, NEW content, Reads(w, source, content)
            PROVE  Same([worker[w] EXCEPT !.fetches = Nothing,
                           !.anchors = Over([s \in {source} |-> content], @)])
        BY <4>1, <4>3 DEF Reads, WorkerState
      <4>4. ASSUME NEW source, Becomes(w, [worker[w] EXCEPT !.fetches = source])
            PROVE  Same([worker[w] EXCEPT !.fetches = source])
        BY <4>1, <4>4 DEF WorkerState
      <4>5. ASSUME NEW pc, NEW circuit,
                   Becomes(w, [worker[w] EXCEPT !.pc = pc, !.circuit = circuit])
            PROVE  Same([worker[w] EXCEPT !.pc = pc, !.circuit = circuit])
        BY <4>1, <4>5 DEF WorkerState
      <4>6. ASSUME NEW pc, NEW sweeper,
                   Becomes(w, [worker[w] EXCEPT !.pc = pc, !.sweeper = sweeper])
            PROVE  Same([worker[w] EXCEPT !.pc = pc, !.sweeper = sweeper])
        BY <4>1, <4>6 DEF WorkerState
      <4>7. ASSUME NEW pc, NEW read, NEW loaded,
                   Becomes(w, [worker[w] EXCEPT !.pc = pc, !.read = read, !.loaded = loaded])
            PROVE  Same([worker[w] EXCEPT !.pc = pc, !.read = read, !.loaded = loaded])
        BY <4>1, <4>7 DEF WorkerState
      <4> HIDE DEF Same
      <4>8. \E record : Same(record)
        BY <2>2, <4>2, <4>3, <4>4, <4>5, <4>6, <4>7
        DEF Startup, AppFactory, LoadHeldCircuit, LoadSource, ListArrives, Serve, Takes, Cancel
      <4>9. QED
        BY <4>8 DEF Same
    <3>2. worker'[w].sessions = worker[w].sessions
      BY <3>1 DEF Becomes, TypeOK
    <3>3. QED
      BY <2>1, <3>1, <3>2 DEF Becomes
  <2>3. CASE Ends(w)
    BY <2>1, <2>3, NoSessions DEF Ends, Becomes, TypeOK
  <2>4. CASE Sweep(w)
    <3> DEFINE sessions == worker[w].sessions
    <3>1. PICK left \in SUBSET DOMAIN sessions :
            Becomes(w, [worker[w] EXCEPT !.sessions = [id \in left |-> sessions[id]]])
      BY <2>4 DEF Sweep
    <3>2. worker'[w].sessions = [id \in left |-> sessions[id]]
      BY <3>1 DEF Becomes, TypeOK, WorkerState
    <3>3. QED
      BY <2>1, <3>1, <3>2 DEF Becomes
  <2>5. QED
    BY <1>4, <2>2, <2>3, <2>4 DEF Shutdown
<1>5. CASE Terminate \/ Edit
  BY <1>2, <1>5 DEF Terminate, Edit
<1>6. CASE Stopped \/ Crash
  <2>1. \A w \in Worker : worker'[w].sessions = NoWorker.sessions
    BY <1>6 DEF Stopped, Crash, Off
  <2>2. QED
    BY <1>1, <1>6, <2>1 DEF Stopped, Crash, Off
<1>7. QED
  BY <1>3, <1>4, <1>5, <1>6

LEMMA StepRefines ==
  ASSUME TypeOK, Inv, TypeOK', Inv', [Next]_vars
  PROVE  [Handle!Next]_(Handle!vars)
<1>1. CASE UNCHANGED vars
  <2>1. phaseBar' = phaseBar
    BY <1>1 DEF vars, phaseBar, PhaseOf
  <2>2. QED
    BY <1>1, <2>1 DEF vars, Handle!vars, phaseBar
<1>2. ASSUME NEW w \in Worker, NEW id \in SessionId, Create(w, id) \/ Submit(w, id)
      PROVE  Handle!Next
  BY <1>2, CreateIssues, SubmitRefines DEF Handle!Next
<1>3. CASE \/ Main \/ Entrypoint
           \/ \E w \in Worker : Startup(w) \/ ListArrives(w) \/ Shutdown(w) \/ Sweep(w)
           \/ Terminate \/ Stopped \/ Crash
           \/ Edit
  BY <1>3, QuietSteps, LosingForgets DEF Handle!Next
<1>4. QED
  BY <1>1, <1>2, <1>3 DEF Next

LEMMA InitRefines ==
  ASSUME Init
  PROVE  Handle!Init
<1>1. \A id \in SessionId : PhaseOf(id) = "unissued"
  BY InitHolds, PhaseCases DEF PhaseTold, Init
<1>2. QED
  BY <1>1 DEF Init, Handle!Init, Silence, Handle!Silence

(***************************************************************************)
(* However processes start, fail, stop and are killed, a handle is kept as *)
(* SessionHandle promises: one process issues it and is the only one ever  *)
(* asked about it, and what that process forgets stays forgotten.          *)
(***************************************************************************)
THEOREM HandlesAreKept == Spec => HandleSpec
<1>1. Init => Handle!Init
  BY InitRefines
<1>2. /\ TypeOK /\ Inv
      /\ (TypeOK /\ Inv)'
      /\ [Next]_vars
      => [Handle!Next]_(Handle!vars)
  BY StepRefines
<1>3. QED
  BY <1>1, <1>2, Inductive, PTL DEF Spec, HandleSpec, Handle!Spec

=============================================================================
