------------------------------ MODULE Processes ------------------------------
(***************************************************************************)
(* One process of the control plane at a time, from the launch to its end: *)
(* an API, a worker or a command.  It reads the operator's settings and    *)
(* the roster once, acquires its resources, starts, works, and gives back  *)
(* what it acquired in the opposite order, whichever step failed; or it is *)
(* killed.  The operator edits settings, state and the installed program   *)
(* at any time.                                                            *)
(***************************************************************************)
EXTENDS ReleaseCompiler

CONSTANTS
    Programs, FeaturesOf,   \* the programs that may be installed, their rosters
    Sources, SuppliedBy,    \* what the operator may have configured
    States, StateOf,        \* desired state: inputs, targets, stored material
    Here,                   \* the directory a process is launched in
    MaxChanges,     \* bound: edits of settings, state and program
    MaxTasks,       \* bound: tasks in the pool at once
    MaxCompiled     \* bound: releases compared

ASSUME ProcessesAssumption ==
    /\ {MaxChanges, MaxTasks, MaxCompiled} \subseteq Nat
    /\ \A s \in Sources : Here \in DOMAIN SuppliedBy[s].dotenvs
    /\ \A p \in Programs : \A i \in DOMAIN FeaturesOf[p] :
         FeaturesOf[p][i].name \in ToSet(Alphabet)

VARIABLES
    program, source, state, changes,    \* installed, configured, desired now
    process,        \* the process: its kind, where it stands, what it read
    open,           \* what it holds: database, monitor, pool, features, reporting
    release,        \* what is left to give back, last first
    tasks,          \* tasks of the pool still running
    job,            \* what the worker does
    record,         \* the record on disk of what it does
    play,           \* history: the environment of the last play, of which launch
    compiled        \* history: what releases were compiled from

operator == <<program, source, state, changes>>
held == <<open, release, tasks, job, record>>
history == <<play, compiled>>
vars == <<operator, process, held, history>>

Kinds == {"api", "worker", "cli"}
Down == [at |-> "down"]
NoPlay == [environment |-> <<>>]

-----------------------------------------------------------------------------
\* Where a setting comes from.  Two of core's settings stand for the others.
EnvironmentNamesStagingKey == {"DATABASE_PATH", "DEPLOYMENT_OUTPUT_LIMIT_BYTES",
                               "API_KEYS", "PROJECT_DIR", "CONFIG"}
EnvironmentNames == {"DATABASE_PATH", "DEPLOYMENT_OUTPUT_LIMIT_BYTES",
                     "API_KEYS", "API_KEY", "PROJECT_DIR", "CONFIG"}
FileNames == {"DATABASE_PATH", "OUTPUT_LIMIT_BYTES"}
Foreign == {"HOME"}            \* names without the prefix of the program

First(given, name, other) == IF name \in DOMAIN given THEN given[name] ELSE other

\* The .env of the directory the process knows may move the project, and only
\* the project's file is then read.  An exported name wins.
Settings(s) ==
    LET initial == First(s.exported, "PROJECT_DIR", Here)
        merged == Without(Over(s.exported, s.dotenvs[initial]), Foreign)
        root == First(merged, "PROJECT_DIR", initial)
        file == s.tomls[First(merged, "CONFIG", root)]
    IN IF At(merged, "API_KEY") = Unfit THEN Refused
       ELSE [staged |-> Without(merged, EnvironmentNames),
             file |-> Without(file, FileNames),
             database |-> First(merged, "DATABASE_PATH",
                                First(file, "DATABASE_PATH", Default))]

\* What follows from the choices of the operator, for one process.
Read == [s \in Sources |-> Settings(SuppliedBy[s])]
Parts == [p \in Programs |-> [s \in Sources |->
    IF Read[s] = Refused THEN Refused
    ELSE Assembly(CoreRoles, FeaturesOf[p], Read[s].staged, Read[s].file)]]
Made == [p \in Programs |-> [s \in Sources |-> [t \in States |->
    IF Parts[p][s] = Refused THEN Refused
    ELSE Compile(FeaturesOf[p], Parts[p][s].settings.configs, StateOf[t].material,
                 StateOf[t].inputs, StateOf[t].targets)]]]

\* What Ansible is run with: nothing of the program's own that is exported,
\* the database, and the secrets the features declare.
PlayEnvironment(p, s) ==
    LET environ == Without(SuppliedBy[s].exported, DOMAIN SuppliedBy[s].exported \ Foreign)
    IN Over(Parts[p][s].settings.environment, With(environ, "DATABASE_PATH", Read[s].database))

-----------------------------------------------------------------------------
Stand(place) == process' = [process EXCEPT !.at = place]
Push(names) == release' = names \o release
Works(p) == Parts[p.program][p.source] # Refused

\* Settings, then the features; a command also grafts its tree.
Launch(kind) ==
    /\ process.at = "down"
    /\ Read[source] # Refused
    /\ Registry(FeaturesOf[program]) # Refused
    /\ kind = "cli" => CommandTree(FeaturesOf[program]) # Refused
    /\ process' = [at |-> "building", kind |-> kind, resolved |-> FALSE,
                   program |-> program, source |-> source]
    /\ Push(<<"container">>)
    /\ play' = NoPlay
    /\ UNCHANGED <<operator, open, tasks, job, record, compiled>>

\* The container makes what is asked for, and remembers what it has to close;
\* an API makes the monitor on the request that asks for it.
Acquire(resource) ==
    /\ \/ process.at = "building"
       \/ process.at = "serving" /\ process.kind = "api"
    /\ resource \in {"database", "monitor"} \ open
    /\ open' = open \cup {resource}
    /\ UNCHANGED <<operator, process, release, tasks, job, record, history>>

\* What the features add to the plays, resolved once.
Resolve ==
    /\ process.at = "building" /\ ~process.resolved
    /\ process' = [process EXCEPT !.resolved = Works(process),
                                  !.at = IF Works(process) THEN @ ELSE "ending"]
    /\ UNCHANGED <<operator, held, history>>

CallbacksUndrained(kind) == CASE kind = "api" -> <<"features", "pool">>
                              [] kind = "worker" -> <<"reporting", "features">>
                              [] kind = "cli" -> <<>>

\* What is made before anything starts; a command makes what it needs.
BuiltFrom == [api |-> {"database"}, worker |-> {"database", "monitor"}, cli |-> {}]

\* What has to be undone is noted before anything starts.
Callbacks(kind) == CASE kind = "api" -> <<"pool", "features">>
                     [] kind = "worker" -> <<"reporting", "features">>
                     [] kind = "cli" -> <<>>
Built ==
    /\ process.at = "building"
    /\ BuiltFrom[process.kind] \subseteq open
    /\ process.kind # "cli" => process.resolved
    /\ Push(Callbacks(process.kind))
    /\ open' = open \cup (ToSet(Callbacks(process.kind)) \ {"reporting"})
    /\ Stand(IF process.kind = "cli" THEN "serving" ELSE "starting")
    /\ UNCHANGED <<operator, tasks, job, record, history>>

\* The features' own start, the schedules, the worker's first pulse.
Start ==
    /\ process.at = "starting"
    /\ Stand("serving")
    /\ IF process.kind = "worker"
       THEN /\ open' = open \cup {"reporting"}
            /\ job' = "idle"
            /\ record' \in {record, "idle"}
       ELSE UNCHANGED <<open, job, record>>
    /\ UNCHANGED <<operator, release, tasks, history>>

\* Any step of the start or of a command may raise.
Fail ==
    /\ \/ process.at \in {"building", "starting"}
       \/ process.at = "serving" /\ process.kind = "cli"
    /\ Stand("ending")
    /\ UNCHANGED <<operator, held, history>>
-----------------------------------------------------------------------------
\* A request hands long work to the pool.
Submit ==
    /\ process.at = "serving" /\ process.kind = "api" /\ tasks < MaxTasks
    /\ tasks' = tasks + 1
    /\ UNCHANGED <<operator, process, open, release, job, record, history>>

TaskEnds ==
    /\ tasks > 0
    /\ tasks' = tasks - 1
    /\ UNCHANGED <<operator, process, open, release, job, record, history>>

\* The worker's record is written before and after a job; a write may fail.
Busy ==
    /\ process.at = "serving" /\ job = "idle"
    /\ job' = "busy" /\ record' \in {record, "busy"}
    /\ UNCHANGED <<operator, process, open, release, tasks, history>>
Idle ==
    /\ job = "busy"
    /\ job' = "idle" /\ record' \in {record, "idle"}
    /\ UNCHANGED <<operator, process, open, release, tasks, history>>
\* The thread that repeats the record, while there is one.
Pulse ==
    /\ "reporting" \in open /\ job # "none"
    /\ record' = job
    /\ UNCHANGED <<operator, process, open, release, tasks, job, history>>

\* What a compilation comes to.
Outcome(c) == Made[c.program][c.source][c.state]

\* What is at work: a request, a command, a task, a job.
Working == /\ "database" \in open /\ process.resolved
           /\ \/ process.at = "serving" /\ process.kind # "worker"
              \/ tasks > 0 \/ job = "busy"

Play ==
    /\ process.at # "down" /\ Working
    /\ play' = [program |-> process.program, source |-> process.source,
                environment |-> PlayEnvironment(process.program, process.source)]
    /\ UNCHANGED <<operator, process, held, compiled>>

Prepare ==
    /\ process.at # "down" /\ Working /\ Cardinality(compiled) < MaxCompiled
    /\ compiled' = compiled \cup
         {[program |-> process.program, source |-> process.source, state |-> state]}
    /\ UNCHANGED <<operator, process, held, play>>
-----------------------------------------------------------------------------
\* The end of a command, a signal.  A worker finishes the job in hand.
Stop ==
    /\ process.at = "serving" /\ job # "busy"
    /\ Stand("ending")
    /\ UNCHANGED <<operator, held, history>>

\* What was noted is given back, last first; a step that raises is passed.
GiveBack ==
    /\ process.at = "ending" /\ release # <<>>
    /\ LET last == Head(release)
       IN /\ last = "pool" => tasks = 0
          /\ open' = open \ (IF last = "container" THEN {"database", "monitor"} ELSE {last})
          /\ IF last = "reporting"
             THEN job' = "none" /\ record' \in {record, "none"}
             ELSE UNCHANGED <<job, record>>
    /\ release' = Tail(release)
    /\ UNCHANGED <<operator, process, tasks, history>>
Ended ==
    /\ process.at = "ending" /\ release = <<>>
    /\ process' = Down
    /\ UNCHANGED <<operator, held, history>>

\* Nothing is given back by the process; the system takes all but the record.
Kill ==
    /\ process.at # "down"
    /\ process' = Down
    /\ open' = {} /\ release' = <<>> /\ tasks' = 0 /\ job' = "none"
    /\ UNCHANGED <<operator, record, history>>

Edit ==
    /\ changes < MaxChanges
    /\ changes' = changes + 1
    /\ \/ program' \in Programs \ {program} /\ UNCHANGED <<source, state>>
       \/ source' \in Sources \ {source} /\ UNCHANGED <<program, state>>
       \/ state' \in States \ {state} /\ UNCHANGED <<program, source>>
    /\ UNCHANGED <<process, held, history>>

Init ==
    /\ program \in Programs /\ source \in Sources /\ state \in States
    /\ changes = 0
    /\ process = Down /\ open = {} /\ release = <<>> /\ tasks = 0
    /\ job = "none" /\ record = "none"
    /\ play = NoPlay /\ compiled = {}

Next ==
    \/ \E kind \in Kinds : Launch(kind)
    \/ \E resource \in {"database", "monitor"} : Acquire(resource)
    \/ Resolve \/ Built \/ Start \/ Fail
    \/ Submit \/ TaskEnds \/ Busy \/ Idle \/ Pulse \/ Play \/ Prepare
    \/ Stop \/ GiveBack \/ Ended \/ Kill \/ Edit
Spec == Init /\ [][Next]_vars

-----------------------------------------------------------------------------
\* What is held and what is running.
ProcessesTypeOK ==
    /\ program \in Programs /\ source \in Sources /\ state \in States
    /\ changes \in 0..MaxChanges /\ tasks \in 0..MaxTasks
    /\ process.at \in {"down", "building", "starting", "serving", "ending"}
    /\ open \subseteq {"database", "monitor", "pool", "features", "reporting"}
    /\ job \in {"none", "idle", "busy"} /\ record \in {"none", "idle", "busy"}
    /\ compiled \subseteq [program : Programs, source : Sources, state : States]

\* Nothing outlives what it was built from: a task or a job still running has
\* the database, and so have the features until they are shut down; the thread
\* that reports has the monitor it writes with; a process that ended holds
\* nothing (app.py drains the pool first; each `finally').
HeldInOrder ==
    /\ tasks > 0 => {"pool", "features", "database"} \subseteq open
    /\ job = "busy" => {"reporting", "features", "database"} \subseteq open
    /\ open \cap {"pool", "reporting"} # {} => "features" \in open
    /\ "features" \in open => "database" \in open
    /\ "reporting" \in open => "monitor" \in open
    /\ process.at = "down" => open = {}

\* A play sees no operator's key, whatever a feature claims, and of the names
\* of the program only the database and secrets some feature declares, as they
\* were when its process was launched: exported, or else in the .env of the
\* directory the process knew, never in the committed file (execution.py).  The
\* environment is what is handed to Ansible Runner; what Runner, a library, adds
\* of its own is assumed to be nothing.
SecretsConfined ==
    play # NoPlay =>
      LET features == FeaturesOf[play.program]
          supplied == SuppliedBy[play.source]
          dotenv == supplied.dotenvs[First(supplied.exported, "PROJECT_DIR", Here)]
          declared == UNION {features[i].secrets : i \in DOMAIN features}
          own == DOMAIN play.environment \ (Foreign \cup {"DATABASE_PATH"})
      IN /\ {"API_KEY", "API_KEYS"} \cap own = {}
         /\ own \subseteq declared
         /\ \A n \in own : \/ n \in DOMAIN supplied.exported
                             /\ play.environment[n] = supplied.exported[n]
                           \/ n \notin DOMAIN supplied.exported
                             /\ n \in DOMAIN dotenv /\ play.environment[n] = dotenv[n]

\* Two processes that run the same features on the same configuration and
\* state resolve and compile the same, in whatever order their programs list
\* the features: a release is rendered again to the same document.
RendersAlike ==
    \A c, d \in compiled :
        /\ c # d /\ c.source = d.source /\ c.state = d.state
        /\ ToSet(FeaturesOf[c.program]) = ToSet(FeaturesOf[d.program])
        => /\ Parts[c.program][c.source] = Parts[d.program][d.source]
           /\ Outcome(c) = Outcome(d)

\* A release is known by its contents alone, without its findings, and yet two
\* releases known alike are both servable or neither is (release.py, digest).
IdentityDecides ==
    \A c, d \in {x \in compiled : Outcome(x) # Refused} :
        Servable(Outcome(c)) /\ ~Servable(Outcome(d))
        => Identity(Outcome(c)) # Identity(Outcome(d))
=============================================================================
