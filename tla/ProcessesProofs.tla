--------------------------- MODULE ProcessesProofs ---------------------------
(* What a process holds at each point of its life, what its plays are given, *)
(* and what the identity of a release decides, for every roster of features, *)
(* every configuration and every desired state.                              *)
EXTENDS Processes, SequenceTheorems, TLAPS

-----------------------------------------------------------------------------
(* The life of a process.                                                  *)

\* What is left to give back tells what is held and what may still run.
Empty == release = <<>> /\ open = {}
Contained == release = <<"container">> /\ open \subseteq {"database", "monitor"}
Featured == /\ release = <<"features", "container">>
            /\ {"database", "features"} \subseteq open
            /\ open \subseteq {"database", "monitor", "features"}
Pooled == /\ release = <<"pool", "features", "container">>
          /\ {"database", "features", "pool"} \subseteq open
          /\ open \subseteq {"database", "monitor", "features", "pool"}
Reporting == /\ release = <<"reporting", "features", "container">>
             /\ {"database", "monitor", "features"} \subseteq open
             /\ open \subseteq {"database", "monitor", "features", "reporting"}

Quiet == tasks = 0 /\ job = "none"
PoolAtWork == job = "none" /\ tasks \in 0..MaxTasks
WorkerAtWork == tasks = 0 /\ job \in {"none", "idle", "busy"} /\ (job # "none" => "reporting" \in open)

Stage ==
    \/ process.at \in {"down", "ending"} /\ Empty /\ Quiet
    \/ process.at \in {"building", "ending"} /\ Contained /\ Quiet
    \/ process.at = "serving" /\ process.kind = "cli" /\ Contained /\ Quiet
    \/ process.at = "ending" /\ Featured /\ Quiet
    \/ process.at \in {"starting", "serving"} /\ process.kind = "api" /\ Pooled /\ PoolAtWork
    \/ process.at = "ending" /\ Pooled /\ PoolAtWork
    \/ process.at \in {"starting", "serving"} /\ process.kind = "worker" /\ Reporting /\ WorkerAtWork
    \/ process.at = "ending" /\ Reporting /\ WorkerAtWork

\* A process knows its kind, and the program and settings it was launched with.
Known ==
    \/ process = Down
    \/ /\ process = [at |-> process.at, kind |-> process.kind, resolved |-> process.resolved,
                     program |-> process.program, source |-> process.source]
       /\ process.kind \in Kinds /\ process.program \in Programs /\ process.source \in Sources
       /\ process.at # "down" /\ (process.resolved => Works(process))

Recorded == record \in {"none", "idle", "busy"}
Operated == program \in Programs /\ source \in Sources /\ state \in States /\ changes \in 0..MaxChanges
Compilations ==
    /\ compiled \subseteq [program : Programs, source : Sources, state : States]
    /\ \A c \in compiled : Parts[c.program][c.source] # Refused
Played ==
    play = NoPlay \/ \E p \in Programs, s \in Sources :
        /\ Parts[p][s] # Refused
        /\ play = [program |-> p, source |-> s, environment |-> PlayEnvironment(p, s)]

LifeInv == Stage /\ Known /\ Recorded /\ Operated /\ Compilations /\ Played

-----------------------------------------------------------------------------
LEMMA ProcessesStart == Init => LifeInv
BY ProcessesAssumption
   DEF Init, LifeInv, Stage, Empty, Quiet, Known, Recorded, Operated, Compilations, Played, Down, ProcessesAssumption

\* A step to another place.
LEMMA Stands ==
    ASSUME Known, process # Down, NEW place, place # "down", Stand(place)
    PROVE  Known' /\ process'.at = place /\ process'.kind = process.kind
BY DEF Known, Stand, Works

LEMMA Placed ==
    ASSUME Known
    PROVE  process.at # "down" <=> process # Down
BY DEF Known, Down

LEMMA LaunchSteps ==
    ASSUME LifeInv, NEW kind \in Kinds, Launch(kind)
    PROVE  LifeInv'
<1>1. process.at = "down" /\ Empty /\ Quiet
  BY DEF LifeInv, Stage, Launch
<1>2. process' = [at |-> "building", kind |-> kind, resolved |-> FALSE, program |-> program, source |-> source]
  BY DEF Launch
<1>3. Stage'
  <2>1. release' = <<"container">> BY <1>1 DEF Launch, Push, Empty
  <2> QED BY <1>1, <1>2, <2>1 DEF Launch, Stage, Empty, Contained, Quiet
<1>4. Known' BY <1>2 DEF Known, LifeInv, Operated
<1> QED BY <1>3, <1>4 DEF LifeInv, Launch, Recorded, Operated, operator, Compilations, Played

LEMMA AcquireSteps ==
    ASSUME LifeInv, NEW resource, Acquire(resource)
    PROVE  LifeInv'
<1>1. Stage'
  <2>1. CASE process.at = "building"
    <3>1. Contained /\ Quiet BY <2>1 DEF LifeInv, Stage
    <3> QED BY <2>1, <3>1 DEF Acquire, Stage, Contained, Quiet
  <2>2. CASE process.at = "serving" /\ process.kind = "api"
    <3>1. Pooled /\ PoolAtWork BY <2>2 DEF LifeInv, Stage
    <3> QED BY <2>2, <3>1 DEF Acquire, Stage, Pooled, PoolAtWork
  <2> QED BY <2>1, <2>2 DEF Acquire
<1> QED BY <1>1 DEF LifeInv, Acquire, Known, Works, Recorded, Operated, operator, Compilations, Played, history

LEMMA ResolveSteps == ASSUME LifeInv, Resolve PROVE LifeInv'
<1>1. process.at = "building" /\ Contained /\ Quiet BY DEF LifeInv, Stage, Resolve
<1>2. process # Down BY <1>1 DEF Down
<1>3. process'.at \in {"building", "ending"} /\ Known'
  BY <1>1, <1>2 DEF LifeInv, Known, Resolve, Works
<1>4. Stage' BY <1>1, <1>3 DEF Resolve, held, Stage, Contained, Quiet
<1> QED BY <1>3, <1>4 DEF LifeInv, Resolve, held, Recorded, Operated, operator, Compilations, Played, history

LEMMA PairElements == ASSUME NEW a, NEW b PROVE ToSet(<<a, b>>) = {a, b}
<1>1. DOMAIN <<a, b>> = {1, 2} OBVIOUS
<1> QED BY <1>1 DEF ToSet

LEMMA Triple == ASSUME NEW a, NEW b, NEW c PROVE <<a, b>> \o <<c>> = <<a, b, c>>
<1>1. PICK S, s, t, u : /\ S = {a, b, c} /\ s = <<a, b>> /\ t = <<c>> /\ u = <<a, b, c>> OBVIOUS
<1>2. s \in Seq(S) /\ t \in Seq(S) /\ u \in Seq(S) /\ Len(s) = 2 /\ Len(t) = 1 /\ Len(u) = 3 BY <1>1
<1>3. s[1] = a /\ s[2] = b /\ t[1] = c /\ u[1] = a /\ u[2] = b /\ u[3] = c BY <1>1
<1>4. PICK v : v = s \o t OBVIOUS
<1>5. /\ v \in Seq(S) /\ Len(v) = 3
      /\ \A i \in 1..3 : v[i] = IF i <= 2 THEN s[i] ELSE t[i - 2]
  <2>1. /\ s \o t \in Seq(S) /\ Len(s \o t) = Len(s) + Len(t)
        /\ \A i \in 1 .. Len(s) + Len(t) : (s \o t)[i] = IF i <= Len(s) THEN s[i] ELSE t[i - Len(s)]
    BY <1>2, ConcatProperties
  <2>2. /\ v \in Seq(S) /\ Len(v) = Len(s) + Len(t)
        /\ \A i \in 1 .. Len(s) + Len(t) : v[i] = IF i <= Len(s) THEN s[i] ELSE t[i - Len(s)]
    BY <1>4, <2>1
  <2>3. Len(s) + Len(t) = 3 BY <1>2
  <2> QED BY <1>2, <2>2, <2>3
<1>6. \A i \in 1..3 : v[i] = u[i] BY <1>3, <1>5
<1>7. v = u BY <1>2, <1>5, <1>6, SeqEqual
<1> QED BY <1>1, <1>4, <1>7

LEMMA BuiltSteps == ASSUME LifeInv, Built PROVE LifeInv'
<1>1. process.at = "building" /\ Contained /\ Quiet BY DEF LifeInv, Stage, Built
<1>2. process # Down BY <1>1 DEF Down
<1>3. process.kind \in Kinds BY <1>2 DEF LifeInv, Known
<1>4. CASE process.kind = "cli"
  <2>1. release' = <<"container">> BY <1>1, <1>4 DEF Built, Push, Callbacks, Contained
  <2>2. open' = open BY <1>4 DEF Built, Callbacks, ToSet
  <2>3. Known' /\ process'.at = "serving" /\ process'.kind = "cli" BY <1>2, <1>4, Stands DEF LifeInv, Built
  <2>4. Stage' BY <1>1, <2>1, <2>2, <2>3 DEF Built, Stage, Contained, Quiet
  <2> QED BY <2>3, <2>4 DEF LifeInv, Built, Recorded, Operated, operator, Compilations, Played, history
<1>5. CASE process.kind = "api"
  <2>1. release' = <<"pool", "features", "container">>
    <3>1. release' = <<"pool", "features">> \o <<"container">>
      BY <1>1, <1>5 DEF Built, Push, Callbacks, Contained
    <3> QED BY <3>1, Triple
  <2>2. /\ {"database", "features", "pool"} \subseteq open'
        /\ open' \subseteq {"database", "monitor", "features", "pool"}
    <3>1. Callbacks(process.kind) = <<"pool", "features">> BY <1>5 DEF Callbacks
    <3>2. ToSet(Callbacks(process.kind)) = {"pool", "features"} BY <3>1, PairElements
    <3>3. "database" \in open /\ open \subseteq {"database", "monitor"}
      BY <1>1, <1>5 DEF Built, BuiltFrom, Contained
    <3> QED BY <3>2, <3>3 DEF Built
  <2>3. Known' /\ process'.at = "starting" /\ process'.kind = "api" BY <1>2, <1>5, Stands DEF LifeInv, Built
  <2>4. Stage'
    BY <1>1, <2>1, <2>2, <2>3, ProcessesAssumption DEF Built, Stage, Pooled, Quiet, PoolAtWork, ProcessesAssumption
  <2> QED BY <2>3, <2>4 DEF LifeInv, Built, Recorded, Operated, operator, Compilations, Played, history
<1>6. CASE process.kind = "worker"
  <2>1. release' = <<"reporting", "features", "container">>
    <3>1. release' = <<"reporting", "features">> \o <<"container">>
      BY <1>1, <1>6 DEF Built, Push, Callbacks, Contained
    <3> QED BY <3>1, Triple
  <2>2. open' = {"database", "monitor", "features"}
    <3>1. Callbacks(process.kind) = <<"reporting", "features">> BY <1>6 DEF Callbacks
    <3>2. ToSet(Callbacks(process.kind)) = {"reporting", "features"} BY <3>1, PairElements
    <3>3. BuiltFrom[process.kind] = {"database", "monitor"} BY <1>6 DEF BuiltFrom
    <3>4. "database" \in open /\ "monitor" \in open BY <3>3 DEF Built
    <3>5. open = {"database", "monitor"} BY <1>1, <3>4 DEF Contained
    <3> QED BY <3>2, <3>5 DEF Built
  <2>3. Known' /\ process'.at = "starting" /\ process'.kind = "worker" BY <1>2, <1>6, Stands DEF LifeInv, Built
  <2>4. Stage' BY <1>1, <2>1, <2>2, <2>3 DEF Built, Stage, Reporting, Quiet, WorkerAtWork
  <2> QED BY <2>3, <2>4 DEF LifeInv, Built, Recorded, Operated, operator, Compilations, Played, history
<1> QED BY <1>3, <1>4, <1>5, <1>6 DEF Kinds

LEMMA StartSteps == ASSUME LifeInv, Start PROVE LifeInv'
<1>1. process.at = "starting" /\ process # Down BY DEF Start, Down
<1>2. Known' /\ process'.at = "serving" /\ process'.kind = process.kind BY <1>1, Stands DEF LifeInv, Start
<1>3. \/ process.kind = "api" /\ Pooled /\ PoolAtWork
      \/ process.kind = "worker" /\ Reporting /\ WorkerAtWork
  BY <1>1 DEF LifeInv, Stage
<1>4. Stage'
  <2>1. CASE process.kind = "api" BY <1>2, <1>3, <2>1 DEF Start, Stage, Pooled, PoolAtWork
  <2>2. CASE process.kind = "worker" BY <1>2, <1>3, <2>2 DEF Start, Stage, Reporting, WorkerAtWork
  <2> QED BY <1>3, <2>1, <2>2
<1>5. Recorded' BY DEF LifeInv, Start, Recorded
<1> QED BY <1>2, <1>4, <1>5 DEF LifeInv, Start, Operated, operator, Compilations, Played, history

LEMMA EndingSteps == ASSUME LifeInv, Fail \/ Stop PROVE LifeInv'
<1>1. process # Down BY DEF Fail, Stop, Down
<1>2. Known' /\ process'.at = "ending" BY <1>1, Stands DEF LifeInv, Fail, Stop
<1>3. UNCHANGED <<operator, held, history>> BY DEF Fail, Stop
<1>4. process.at \in {"building", "starting", "serving"} BY DEF Fail, Stop
<1>5. Stage'
  BY <1>2, <1>3, <1>4
  DEF LifeInv, Stage, held, Empty, Contained, Featured, Pooled, Reporting, Quiet, PoolAtWork, WorkerAtWork
<1> QED BY <1>2, <1>3, <1>5 DEF LifeInv, held, Recorded, Operated, operator, Compilations, Played, history

\* Tasks run while there is a pool, jobs while there is a reporting thread.
LEMMA WorkSteps ==
    ASSUME LifeInv, Submit \/ TaskEnds \/ Busy \/ Idle \/ Pulse
    PROVE  LifeInv'
<1>1. UNCHANGED <<operator, process, open, release, history>> BY DEF Submit, TaskEnds, Busy, Idle, Pulse
<1>2. Recorded' BY DEF LifeInv, Stage, Submit, TaskEnds, Busy, Idle, Pulse, Recorded, Quiet, PoolAtWork, WorkerAtWork
<1>3. Stage'
  <2>1. CASE Submit
    <3>1. process.at = "serving" /\ process.kind = "api" /\ Pooled /\ PoolAtWork BY <2>1 DEF LifeInv, Stage, Submit
    <3>2. PoolAtWork' BY <2>1, <3>1, ProcessesAssumption DEF Submit, PoolAtWork, ProcessesAssumption
    <3> QED BY <1>1, <3>1, <3>2 DEF Stage, Pooled
  <2>2. CASE TaskEnds
    <3>1. /\ Pooled /\ PoolAtWork
          /\ (process.at \in {"starting", "serving"} /\ process.kind = "api") \/ process.at = "ending"
      BY <2>2 DEF LifeInv, Stage, TaskEnds, Quiet, WorkerAtWork
    <3>2. PoolAtWork' BY <2>2, <3>1, ProcessesAssumption DEF TaskEnds, PoolAtWork, ProcessesAssumption
    <3> QED BY <1>1, <3>1, <3>2 DEF Stage, Pooled
  <2>3. CASE Busy \/ Idle
    <3>1. job # "none" BY <2>3 DEF Busy, Idle
    <3>2. /\ Reporting /\ WorkerAtWork
          /\ (process.at \in {"starting", "serving"} /\ process.kind = "worker") \/ process.at = "ending"
      BY <3>1 DEF LifeInv, Stage, Quiet, PoolAtWork
    <3>3. WorkerAtWork' BY <1>1, <2>3, <3>1, <3>2 DEF Busy, Idle, WorkerAtWork
    <3> QED BY <1>1, <3>2, <3>3 DEF Stage, Reporting
  <2>4. CASE Pulse
    BY <1>1, <2>4
    DEF LifeInv, Pulse, Stage, Empty, Contained, Featured, Pooled, Reporting, Quiet, PoolAtWork, WorkerAtWork
  <2> QED BY <2>1, <2>2, <2>3, <2>4
<1> QED BY <1>1, <1>2, <1>3 DEF LifeInv, Known, Works, Operated, operator, Compilations, Played, history

LEMMA UseSteps == ASSUME LifeInv, Play \/ Prepare PROVE LifeInv'
<1>1. UNCHANGED <<operator, process, held>> BY DEF Play, Prepare
<1>2. process # Down /\ process.resolved /\ process.program \in Programs /\ process.source \in Sources /\ Works(process)
  BY DEF LifeInv, Known, Play, Prepare, Working, Down
<1>3. Played' BY <1>2 DEF LifeInv, Played, Play, Prepare, Works
<1>4. Compilations'
  <2>1. CASE Play BY <2>1 DEF LifeInv, Compilations, Play
  <2>2. CASE Prepare
    <3>1. PICK c : c = [program |-> process.program, source |-> process.source, state |-> state] OBVIOUS
    <3>2. /\ c \in [program : Programs, source : Sources, state : States]
          /\ c.program = process.program /\ c.source = process.source
      BY <1>2, <3>1 DEF LifeInv, Operated
    <3>3. compiled' = compiled \cup {c} BY <2>2, <3>1 DEF Prepare
    <3> QED BY <1>2, <3>2, <3>3 DEF LifeInv, Compilations, Works
  <2> QED BY <2>1, <2>2
<1>5. Stage'
  BY <1>1 DEF LifeInv, held, Stage, Empty, Contained, Featured, Pooled, Reporting, Quiet, PoolAtWork, WorkerAtWork
<1> QED BY <1>1, <1>3, <1>4, <1>5 DEF LifeInv, Known, Works, held, Recorded, Operated, operator

\* What was acquired is given back in the opposite order.
LEMMA GiveBackSteps == ASSUME LifeInv, GiveBack PROVE LifeInv'
<1>1. UNCHANGED <<operator, process, tasks, history>> /\ process.at = "ending" /\ release # <<>>
  BY DEF GiveBack
<1>2. Recorded' BY DEF LifeInv, GiveBack, Recorded
<1>3. Stage'
  <2>1. CASE Contained /\ Quiet
    <3>1. Head(release) = "container" /\ Tail(release) = <<>> BY <2>1 DEF Contained
    <3>2. open' = {} BY <2>1, <3>1 DEF GiveBack, Contained
    <3> QED BY <1>1, <2>1, <3>1, <3>2 DEF GiveBack, Stage, Empty, Quiet
  <2>2. CASE Featured /\ Quiet
    <3>1. Head(release) = "features" /\ Tail(release) = <<"container">> BY <2>2 DEF Featured
    <3>2. open' \subseteq {"database", "monitor"} BY <2>2, <3>1 DEF GiveBack, Featured
    <3> QED BY <1>1, <2>2, <3>1, <3>2 DEF GiveBack, Stage, Contained, Quiet
  <2>3. CASE Pooled /\ PoolAtWork
    <3>1. Head(release) = "pool" /\ Tail(release) = <<"features", "container">> BY <2>3 DEF Pooled
    <3>2. {"database", "features"} \subseteq open' /\ open' \subseteq {"database", "monitor", "features"}
      BY <2>3, <3>1 DEF GiveBack, Pooled
    <3>3. tasks = 0 BY <3>1 DEF GiveBack
    <3> QED BY <1>1, <2>3, <3>1, <3>2, <3>3 DEF GiveBack, Stage, Featured, Quiet, PoolAtWork
  <2>4. CASE Reporting /\ WorkerAtWork
    <3>1. Head(release) = "reporting" /\ Tail(release) = <<"features", "container">> BY <2>4 DEF Reporting
    <3>2. {"database", "features"} \subseteq open' /\ open' \subseteq {"database", "monitor", "features"}
      BY <2>4, <3>1 DEF GiveBack, Reporting
    <3> QED BY <1>1, <2>4, <3>1, <3>2 DEF GiveBack, Stage, Featured, Quiet, WorkerAtWork
  <2> QED BY <1>1, <2>1, <2>2, <2>3, <2>4 DEF LifeInv, Stage, Empty
<1> QED BY <1>1, <1>2, <1>3 DEF LifeInv, Known, Works, Operated, operator, Compilations, Played, history

LEMMA DownSteps == ASSUME LifeInv, Ended \/ Kill PROVE LifeInv'
<1>1. process' = Down /\ UNCHANGED <<operator, record, history>> BY DEF Ended, Kill, held
<1>2. Empty' /\ Quiet' BY DEF LifeInv, Stage, Ended, Kill, held, Empty, Contained, Featured, Pooled, Reporting, Quiet
<1>3. Stage' BY <1>1, <1>2 DEF Stage, Down
<1> QED BY <1>1, <1>3 DEF LifeInv, Known, Recorded, Operated, operator, Compilations, Played, history

LEMMA EditSteps == ASSUME LifeInv, Edit PROVE LifeInv'
<1>1. UNCHANGED <<process, held, history>> BY DEF Edit
<1>2. Operated' BY ProcessesAssumption DEF LifeInv, Edit, Operated, ProcessesAssumption
<1>3. Stage'
  BY <1>1 DEF LifeInv, held, Stage, Empty, Contained, Featured, Pooled, Reporting, Quiet, PoolAtWork, WorkerAtWork
<1> QED BY <1>1, <1>2, <1>3 DEF LifeInv, Known, Works, held, Recorded, Compilations, Played, history

LEMMA LifeSteps == LifeInv /\ [Next]_vars => LifeInv'
<1> SUFFICES ASSUME LifeInv, [Next]_vars PROVE LifeInv' OBVIOUS
<1>1. CASE UNCHANGED vars
  BY <1>1
  DEF vars, operator, held, history, LifeInv, Stage, Empty, Contained, Featured, Pooled, Reporting, Quiet,
      PoolAtWork, WorkerAtWork, Known, Works, Recorded, Operated, Compilations, Played
<1>2. CASE Next
  BY <1>2, LaunchSteps, AcquireSteps, ResolveSteps, BuiltSteps, StartSteps, EndingSteps, WorkSteps, UseSteps,
     GiveBackSteps, DownSteps, EditSteps DEF Next
<1> QED BY <1>1, <1>2

LEMMA LifeAlways == Spec => []LifeInv
BY ProcessesStart, LifeSteps, PTL DEF Spec

-----------------------------------------------------------------------------
(* What a play is given.                                                   *)

\* What is resolved of the features' settings, when all of it is.
LEMMA AssemblyResolves ==
    ASSUME NEW core, NEW roster, NEW env, NEW file, Assembly(core, roster, env, file) # Refused
    PROVE  /\ CapabilityEnvironment(roster, env, file) # Refused
           /\ Assembly(core, roster, env, file).settings = CapabilityEnvironment(roster, env, file)
<1> DEFINE parts == [settings |-> CapabilityEnvironment(roster, env, file),
                     path |-> RoleSearchPath(core, roster),
                     edge |-> Slot(roster, "edge"),
                     host |-> Slot(roster, "host"),
                     teardown |-> Slot(roster, "teardown"),
                     modules |-> EdgeModules(roster),
                     nginx |-> NginxResources(roster)]
<1>1. parts.settings = CapabilityEnvironment(roster, env, file) /\ "settings" \in DOMAIN parts OBVIOUS
<1> HIDE DEF parts
<1>2. Assembly(core, roster, env, file) =
        IF Registry(roster) = Refused THEN Refused
        ELSE IF \E p \in DOMAIN parts : parts[p] = Refused THEN Refused ELSE parts
  BY DEF Assembly, parts
<1>3. ~(\E p \in DOMAIN parts : parts[p] = Refused) /\ Assembly(core, roster, env, file) = parts
  BY <1>2
<1> QED BY <1>1, <1>3

\* Secrets come from the environment, and only those a feature declares.
LEMMA EnvironmentDeclared ==
    ASSUME NEW roster, NEW env, NEW file, CapabilityEnvironment(roster, env, file) # Refused
    PROVE  CapabilityEnvironment(roster, env, file).environment =
             [n \in DOMAIN env \cap UNION {roster[i].secrets : i \in DOMAIN roster} |-> env[n]]
BY DEF CapabilityEnvironment

\* What reaches the features: exported, or of the .env, but for the names of
\* core and those without the program's prefix.
LEMMA StagedGiven ==
    ASSUME NEW s, Settings(s) # Refused
    PROVE  LET dotenv == s.dotenvs[First(s.exported, "PROJECT_DIR", Here)]
               staged == Settings(s).staged
           IN \A n \in DOMAIN staged :
                /\ n \notin EnvironmentNames
                /\ \/ n \in DOMAIN s.exported /\ staged[n] = s.exported[n]
                   \/ n \notin DOMAIN s.exported /\ n \in DOMAIN dotenv /\ staged[n] = dotenv[n]
<1> DEFINE dotenv == s.dotenvs[First(s.exported, "PROJECT_DIR", Here)]
           merged == Without(Over(s.exported, dotenv), Foreign)
<1>1. Settings(s).staged = Without(merged, EnvironmentNames) BY DEF Settings
<1> HIDE DEF dotenv
<1> QED BY <1>1 DEF Without, Over, dotenv

LEMMA PlayConfined ==
    ASSUME NEW p \in Programs, NEW s \in Sources, Parts[p][s] # Refused
    PROVE  LET features == FeaturesOf[p]
               supplied == SuppliedBy[s]
               dotenv == supplied.dotenvs[First(supplied.exported, "PROJECT_DIR", Here)]
               declared == UNION {features[i].secrets : i \in DOMAIN features}
               environment == PlayEnvironment(p, s)
               own == DOMAIN environment \ (Foreign \cup {"DATABASE_PATH"})
           IN /\ {"API_KEY", "API_KEYS"} \cap own = {}
              /\ own \subseteq declared
              /\ \A n \in own : \/ n \in DOMAIN supplied.exported
                                  /\ environment[n] = supplied.exported[n]
                                \/ n \notin DOMAIN supplied.exported
                                  /\ n \in DOMAIN dotenv /\ environment[n] = dotenv[n]
<1> DEFINE features == FeaturesOf[p]
           supplied == SuppliedBy[s]
           dotenv == supplied.dotenvs[First(supplied.exported, "PROJECT_DIR", Here)]
           declared == UNION {features[i].secrets : i \in DOMAIN features}
           environment == PlayEnvironment(p, s)
           own == DOMAIN environment \ (Foreign \cup {"DATABASE_PATH"})
           environ == Without(supplied.exported, DOMAIN supplied.exported \ Foreign)
<1>1. PICK env, file : env = Read[s].staged /\ file = Read[s].file OBVIOUS
<1>2. Settings(supplied) # Refused /\ Read[s] = Settings(supplied)
      /\ Parts[p][s] = Assembly(CoreRoles, features, env, file)
  BY <1>1 DEF Parts, Read
<1>3. PICK given : given = Parts[p][s].settings.environment OBVIOUS
<1>4. given = [n \in DOMAIN env \cap declared |-> env[n]]
  <2>1. PICK roster : roster = features OBVIOUS
  <2>2. Assembly(CoreRoles, roster, env, file) # Refused /\ Parts[p][s] = Assembly(CoreRoles, roster, env, file)
    BY <1>2, <2>1
  <2>3. /\ CapabilityEnvironment(roster, env, file) # Refused
        /\ Parts[p][s].settings = CapabilityEnvironment(roster, env, file)
    BY <2>2, AssemblyResolves
  <2>4. given = [n \in DOMAIN env \cap UNION {roster[i].secrets : i \in DOMAIN roster} |-> env[n]]
    BY <1>3, <2>3, EnvironmentDeclared
  <2> QED BY <2>1, <2>4
<1>5. \A n \in DOMAIN env :
        /\ n \notin EnvironmentNames
        /\ \/ n \in DOMAIN supplied.exported /\ env[n] = supplied.exported[n]
           \/ n \notin DOMAIN supplied.exported /\ n \in DOMAIN dotenv /\ env[n] = dotenv[n]
  <2>1. PICK t : t = supplied OBVIOUS
  <2>2. Settings(t) # Refused /\ env = Settings(t).staged BY <1>1, <1>2, <2>1
  <2> QED BY <2>1, <2>2, StagedGiven
<1>6. environment = Over(given, With(environ, "DATABASE_PATH", Read[s].database))
  BY <1>3 DEF PlayEnvironment
<1>7. DOMAIN environ \subseteq Foreign BY DEF Without
<1>8. /\ own \subseteq DOMAIN given /\ \A n \in DOMAIN given : environment[n] = given[n]
  <2>1. PICK base : base = With(environ, "DATABASE_PATH", Read[s].database) OBVIOUS
  <2>2. DOMAIN base \subseteq Foreign \cup {"DATABASE_PATH"} BY <1>7, <2>1 DEF With
  <2>3. environment = Over(given, base) BY <1>6, <2>1
  <2>4. DOMAIN environment = DOMAIN given \cup DOMAIN base
        /\ \A n \in DOMAIN given : environment[n] = given[n]
    BY <2>3 DEF Over
  <2> QED BY <2>2, <2>4
<1> HIDE DEF features, supplied, dotenv, environment, environ
<1>9. \A n \in own : n \in DOMAIN env /\ n \in declared /\ environment[n] = env[n]
  BY <1>4, <1>8
<1>10. {"API_KEY", "API_KEYS"} \cap own = {} BY <1>5, <1>9 DEF EnvironmentNames
<1> USE DEF features, supplied, dotenv, environment
<1> QED BY <1>5, <1>9, <1>10

-----------------------------------------------------------------------------
(* What the identity of a release decides.                                 *)

\* A compiled release has no artifacts exactly if a feature objected or a
\* setting clashes, and its other findings follow from what is compared.
LEMMA CompiledIs ==
    ASSUME NEW roster, NEW configs, NEW material, NEW inputs, NEW targets,
           Compile(roster, configs, material, inputs, targets) # Refused
    PROVE  LET r == Compile(roster, configs, material, inputs, targets)
               follows == {<<"derivation", h>> : h \in inputs.refused}
                          \cup Missing({s \in inputs.sites : s.serves}, Capabilities(roster), targets)
           IN /\ r.inputs = inputs /\ r.capabilities = Capabilities(roster) /\ r.targets = targets
              /\ follows \subseteq r.findings
              /\ r.artifacts # {} => r.findings = follows
              /\ r.artifacts = {} => r.findings # {}
<1> DEFINE sites == {s \in inputs.sites : s.serves}
           objections == Objections(configs, sites)
           rendered == [s \in sites |-> IF objections # {} THEN <<>> ELSE SiteVariables(roster, s, material)]
           fleet == IF objections # {} THEN <<>> ELSE FleetVariables(roster, sites)
           derived == Over([sites |-> rendered], fleet)
           conflicts == {<<"settings", k>> : k \in DOMAIN inputs.settings \cap DOMAIN derived}
           r == Compile(roster, configs, material, inputs, targets)
           derivation == {<<"derivation", h>> : h \in inputs.refused}
           missing == Missing(sites, Capabilities(roster), targets)
           artifacts == IF objections \cup conflicts # {} THEN {} ELSE {Over(inputs.settings, derived)}
           compilation == [inputs |-> inputs, capabilities |-> Capabilities(roster), targets |-> targets,
                           artifacts |-> artifacts,
                           findings |-> derivation \cup missing \cup objections \cup conflicts]
<1>1. r = IF fleet = Refused \/ \E s \in sites : rendered[s] = Refused THEN Refused ELSE compilation
  BY Zenon DEF Compile
<1>2. r = compilation BY <1>1
<1> HIDE DEF r
<1>3. /\ r.inputs = inputs /\ r.capabilities = Capabilities(roster) /\ r.targets = targets
      /\ r.artifacts = artifacts /\ r.findings = derivation \cup missing \cup objections \cup conflicts
  <2> HIDE DEF artifacts, derivation, missing, objections, conflicts
  <2> QED BY <1>2
<1> HIDE DEF derivation, missing, objections, conflicts, derived
<1>4. /\ derivation \cup missing \subseteq r.findings
      /\ r.artifacts # {} => r.findings = derivation \cup missing
      /\ r.artifacts = {} => r.findings # {}
  BY <1>3
<1> USE DEF r, derivation, missing
<1> QED BY <1>3, <1>4

-----------------------------------------------------------------------------
(* What does not depend on the order of a roster.                          *)

\* Every name is declared once; two rosters list the same features.
Named(roster) ==
    roster # Refused /\ \A i, j \in DOMAIN roster : i # j => roster[i].name # roster[j].name
Alike(r, q) == Named(r) /\ Named(q) /\ ToSet(r) = ToSet(q)

\* A roster that assembles declares every name once.
LEMMA AssemblyNamed ==
    ASSUME NEW core, NEW roster, NEW env, NEW file, Assembly(core, roster, env, file) # Refused
    PROVE  Named(roster)
<1>1. Registry(roster) # Refused BY Zenon DEF Assembly
<1>2. Distinct(roster, LAMBDA f : {f.name}) BY <1>1 DEF Registry
<1>3. roster # Refused BY <1>1 DEF Registry
<1> QED BY <1>2, <1>3 DEF Named, Distinct

\* A feature of one roster stands once in the other.
LEMMA AlikeElements ==
    ASSUME NEW r, NEW q, Alike(r, q)
    PROVE  /\ \A i \in DOMAIN r : \E j \in DOMAIN q : q[j] = r[i]
           /\ \A j \in DOMAIN q : \E i \in DOMAIN r : r[i] = q[j]
           /\ \A i, j \in DOMAIN r : i # j => r[i] # r[j]
           /\ \A i, j \in DOMAIN q : i # j => q[i] # q[j]
BY DEF Alike, Named, ToSet

\* What the resolvers sort, and what they gather, is the same.
LEMMA ByNameAlike ==
    ASSUME NEW r, NEW q, Alike(r, q)
    PROVE  ByName(r) = ByName(q)
BY DEF ByName, Alike

LEMMA SlotAlike ==
    ASSUME NEW r, NEW q, Alike(r, q), NEW slot
    PROVE  Slot(r, slot) = Slot(q, slot)
<1>1. (\A i \in DOMAIN r : ToSet(r[i][slot]) \subseteq r[i].roles)
      <=> (\A i \in DOMAIN q : ToSet(q[i][slot]) \subseteq q[i].roles)
  BY AlikeElements
<1>2. ByName(r) = ByName(q) BY ByNameAlike
<1> QED BY <1>1, <1>2 DEF Slot

LEMMA EdgeModulesAlike ==
    ASSUME NEW r, NEW q, Alike(r, q)
    PROVE  EdgeModules(r) = EdgeModules(q)
<1>1. ByName(r) = ByName(q) BY ByNameAlike
<1> QED BY <1>1, Zenon DEF EdgeModules

LEMMA RoleSearchPathAlike ==
    ASSUME NEW r, NEW q, Alike(r, q), NEW core
    PROVE  RoleSearchPath(core, r) = RoleSearchPath(core, q)
<1>1. ByName(r) = ByName(q) BY ByNameAlike
<1> QED BY <1>1, Zenon DEF RoleSearchPath

LEMMA NginxResourcesAlike ==
    ASSUME NEW r, NEW q, Alike(r, q)
    PROVE  NginxResources(r) = NginxResources(q)
<1>1. ByName(r) = ByName(q) BY ByNameAlike
<1> QED BY <1>1, Zenon DEF NginxResources

\* What is gathered from all of them.
SecretsOf(roster) == UNION {roster[i].secrets : i \in DOMAIN roster}
SettingsOf(roster) == UNION {roster[i].settings : i \in DOMAIN roster}
NamesOf(roster) == {roster[i].name : i \in DOMAIN roster}

LEMMA GatheredAlike ==
    ASSUME NEW r, NEW q, Alike(r, q)
    PROVE  /\ Capabilities(r) = Capabilities(q)
           /\ SecretsOf(r) = SecretsOf(q) /\ SettingsOf(r) = SettingsOf(q) /\ NamesOf(r) = NamesOf(q)
<1>1. /\ \A i \in DOMAIN r : \E j \in DOMAIN q : q[j] = r[i]
      /\ \A j \in DOMAIN q : \E i \in DOMAIN r : r[i] = q[j]
  BY AlikeElements
<1>2. {r[i].provides \cup {r[i].name} : i \in DOMAIN r} = {q[i].provides \cup {q[i].name} : i \in DOMAIN q}
  BY <1>1
<1>3. {r[i].secrets : i \in DOMAIN r} = {q[i].secrets : i \in DOMAIN q} BY <1>1
<1>4. {r[i].settings : i \in DOMAIN r} = {q[i].settings : i \in DOMAIN q} BY <1>1
<1>5. NamesOf(r) = NamesOf(q) BY <1>1 DEF NamesOf
<1> QED BY <1>2, <1>3, <1>4, <1>5 DEF Capabilities, SecretsOf, SettingsOf

\* The operator's configuration is scoped alike.
LEMMA CapabilityEnvironmentAlike ==
    ASSUME NEW r, NEW q, Alike(r, q), NEW env, NEW file
    PROVE  CapabilityEnvironment(r, env, file) = CapabilityEnvironment(q, env, file)
<1> DEFINE Config(f) == FeatureConfiguration(f, env, file)
           Once(roster) == Distinct(roster, LAMBDA f : f.secrets \cup f.settings)
           secrets == SecretsOf(r)
           claimed == secrets \cup SettingsOf(r)
           names == NamesOf(r)
           Of(roster, name) == CHOOSE i \in DOMAIN roster : roster[i].name = name
           Single(roster) == \A i, j \in DOMAIN roster :
               i # j => (roster[i].secrets \cup roster[i].settings)
                          \cap (roster[j].secrets \cup roster[j].settings) = {}
           Fails(roster) == \E i \in DOMAIN roster : Config(roster[i]) = Refused
           configs(roster) == [name \in names |-> Config(roster[Of(roster, name)])]
           Resolved(roster) ==
               IF \/ ~Once(roster)
                  \/ ~(DOMAIN env \cup DOMAIN file \subseteq claimed)
                  \/ DOMAIN file \cap secrets # {}
                  \/ Fails(roster)
               THEN Refused
               ELSE [environment |-> [n \in DOMAIN env \cap secrets |-> env[n]],
                     configs |-> configs(roster)]
<1>1. secrets = SecretsOf(q) /\ claimed = SecretsOf(q) \cup SettingsOf(q) /\ names = NamesOf(q)
  BY GatheredAlike
<1>2. CapabilityEnvironment(r, env, file) = Resolved(r) BY Zenon DEF CapabilityEnvironment, SecretsOf, SettingsOf, NamesOf
<1>3. CapabilityEnvironment(q, env, file) = Resolved(q) BY <1>1, Zenon DEF CapabilityEnvironment, SecretsOf, SettingsOf, NamesOf
<1>4. /\ \A i \in DOMAIN r : \E j \in DOMAIN q : q[j] = r[i]
      /\ \A j \in DOMAIN q : \E i \in DOMAIN r : r[i] = q[j]
      /\ \A i, j \in DOMAIN r : i # j => r[i] # r[j]
      /\ \A i, j \in DOMAIN q : i # j => q[i] # q[j]
  BY AlikeElements
<1>5. Single(r) <=> Single(q)
  <2>1. ASSUME Single(r) PROVE Single(q)
    <3> SUFFICES ASSUME NEW i \in DOMAIN q, NEW j \in DOMAIN q, i # j
                 PROVE  (q[i].secrets \cup q[i].settings) \cap (q[j].secrets \cup q[j].settings) = {}
      OBVIOUS
    <3>1. PICK k \in DOMAIN r, l \in DOMAIN r : r[k] = q[i] /\ r[l] = q[j] BY <1>4
    <3> QED BY <1>4, <2>1, <3>1
  <2>2. ASSUME Single(q) PROVE Single(r)
    <3> SUFFICES ASSUME NEW i \in DOMAIN r, NEW j \in DOMAIN r, i # j
                 PROVE  (r[i].secrets \cup r[i].settings) \cap (r[j].secrets \cup r[j].settings) = {}
      OBVIOUS
    <3>1. PICK k \in DOMAIN q, l \in DOMAIN q : q[k] = r[i] /\ q[l] = r[j] BY <1>4
    <3> QED BY <1>4, <2>2, <3>1
  <2> QED BY <2>1, <2>2
<1>10. (Once(r) <=> Single(r)) /\ (Once(q) <=> Single(q))
  BY DEF Distinct
<1>6. Fails(r) <=> Fails(q) BY <1>4, Zenon
<1>7. \A name \in names : r[Of(r, name)] = q[Of(q, name)]
  <2> SUFFICES ASSUME NEW name \in names PROVE r[Of(r, name)] = q[Of(q, name)] OBVIOUS
  <2>1. Of(r, name) \in DOMAIN r /\ r[Of(r, name)].name = name BY DEF NamesOf
  <2>2. Of(q, name) \in DOMAIN q /\ q[Of(q, name)].name = name BY <1>1 DEF NamesOf
  <2> HIDE DEF Of
  <2>3. PICK i \in DOMAIN r : r[i] = q[Of(q, name)] BY <1>4, <2>2
  <2> QED BY <2>1, <2>2, <2>3 DEF Alike, Named
<1> HIDE DEF Config, Of, names
<1>8. configs(r) = configs(q) BY <1>7
<1> HIDE DEF configs, Single, Once, Fails, secrets, claimed
<1>9. Resolved(r) = Resolved(q) BY <1>5, <1>6, <1>8, <1>10
<1> QED BY <1>2, <1>3, <1>9

\* What a process resolves once is the same.
LEMMA AssemblyAlike ==
    ASSUME NEW r, NEW q, Alike(r, q), NEW core, NEW env, NEW file
    PROVE  Assembly(core, r, env, file) = Assembly(core, q, env, file)
<1> DEFINE Parted(roster) == [settings |-> CapabilityEnvironment(roster, env, file),
                              path |-> RoleSearchPath(core, roster),
                              edge |-> Slot(roster, "edge"),
                              host |-> Slot(roster, "host"),
                              teardown |-> Slot(roster, "teardown"),
                              modules |-> EdgeModules(roster),
                              nginx |-> NginxResources(roster)]
           Of(parts) == IF \E p \in DOMAIN parts : parts[p] = Refused THEN Refused ELSE parts
<1>1. Parted(r) = Parted(q)
  <2>1. /\ CapabilityEnvironment(r, env, file) = CapabilityEnvironment(q, env, file)
        /\ RoleSearchPath(core, r) = RoleSearchPath(core, q)
        /\ \A slot : Slot(r, slot) = Slot(q, slot)
        /\ EdgeModules(r) = EdgeModules(q) /\ NginxResources(r) = NginxResources(q)
    BY CapabilityEnvironmentAlike, RoleSearchPathAlike, SlotAlike, EdgeModulesAlike, NginxResourcesAlike
  <2> QED BY <2>1
<1>2. Of(Parted(r)) = Of(Parted(q)) BY <1>1
<1>3. Registry(r) = r /\ Registry(q) = q
  <2>1. Distinct(r, LAMBDA f : {f.name}) /\ Distinct(q, LAMBDA f : {f.name})
    BY DEF Distinct, Alike, Named
  <2> QED BY <2>1, Zenon DEF Registry
<1> HIDE DEF Parted
<1>4. /\ Assembly(core, r, env, file) = IF Registry(r) = Refused THEN Refused ELSE Of(Parted(r))
      /\ Assembly(core, q, env, file) = IF Registry(q) = Refused THEN Refused ELSE Of(Parted(q))
  BY Zenon DEF Assembly, Parted
<1> HIDE DEF Of
<1> QED BY <1>2, <1>3, <1>4 DEF Alike, Named

\* A document is merged alike from what each feature contributes.
LEMMA MergeAlike ==
    ASSUME NEW r, NEW q, Alike(r, q), NEW given
    PROVE  MergeVariables([i \in DOMAIN r |-> given[r[i]]]) = MergeVariables([i \in DOMAIN q |-> given[q[i]]])
<1> DEFINE c == [i \in DOMAIN r |-> given[r[i]]]
           d == [i \in DOMAIN q |-> given[q[i]]]
           Keys(x) == UNION {DOMAIN x[i].variables : i \in DOMAIN x}
           Writers(x, k) == {i \in DOMAIN x : k \in DOMAIN x[i].variables}
           Claims(x, k) == {i \in Writers(x, k) : k \in x[i].overrides}
           Wins(x, k) == IF Claims(x, k) # {} THEN Claims(x, k) ELSE Writers(x, k)
           Clash(x) == \E k \in Keys(x) : \E i, j \in Wins(x, k) : i # j
           Winner(x, k) == CHOOSE i \in Wins(x, k) : TRUE
           Merged(x) == IF Clash(x) THEN Refused
                        ELSE [k \in Keys(x) |-> x[Winner(x, k)].variables[k]]
<1>1. MergeVariables(c) = Merged(c) /\ MergeVariables(d) = Merged(d)
  <2>1. ASSUME NEW x PROVE MergeVariables(x) = Merged(x) BY Zenon DEF MergeVariables
  <2> QED BY <2>1
<1>2. /\ DOMAIN c = DOMAIN r /\ DOMAIN d = DOMAIN q
      /\ \A i \in DOMAIN r : \E j \in DOMAIN q : q[j] = r[i]
      /\ \A j \in DOMAIN q : \E i \in DOMAIN r : r[i] = q[j]
      /\ \A i, j \in DOMAIN r : i # j => r[i] # r[j]
      /\ \A i, j \in DOMAIN q : i # j => q[i] # q[j]
      /\ \A i \in DOMAIN r, j \in DOMAIN q : r[i] = q[j] => c[i] = d[j]
  BY AlikeElements
<1> HIDE DEF c, d
<1>3. Keys(c) = Keys(d)
  <2>1. {c[i].variables : i \in DOMAIN c} = {d[i].variables : i \in DOMAIN d} BY <1>2
  <2>2. \A k : k \in Keys(c) <=> \E v \in {c[i].variables : i \in DOMAIN c} : k \in DOMAIN v OBVIOUS
  <2>3. \A k : k \in Keys(d) <=> \E v \in {d[i].variables : i \in DOMAIN d} : k \in DOMAIN v OBVIOUS
  <2> HIDE DEF Keys
  <2>4. \A k : k \in Keys(c) <=> k \in Keys(d) BY <2>1, <2>2, <2>3
  <2>5. Keys(c) \subseteq Keys(d) /\ Keys(d) \subseteq Keys(c) BY <2>4
  <2> QED BY <2>5
<1>4. ASSUME NEW k, NEW i \in DOMAIN r, NEW j \in DOMAIN q, r[i] = q[j]
      PROVE  i \in Wins(c, k) <=> j \in Wins(d, k)
  <2>1. \A a \in DOMAIN r, b \in DOMAIN q : r[a] = q[b] => (a \in Claims(c, k) <=> b \in Claims(d, k))
    BY <1>2
  <2>2. Claims(c, k) \subseteq DOMAIN r /\ Claims(d, k) \subseteq DOMAIN q BY <1>2
  <2>3. i \in Writers(c, k) <=> j \in Writers(d, k) BY <1>2, <1>4
  <2> HIDE DEF Claims, Writers
  <2>4. Claims(c, k) # {} <=> Claims(d, k) # {} BY <1>2, <2>1, <2>2
  <2> QED BY <1>4, <2>1, <2>3, <2>4
<1>5. \A k : Wins(c, k) \subseteq DOMAIN r /\ Wins(d, k) \subseteq DOMAIN q BY <1>2
<1>6. \A k \in Keys(c) : Wins(c, k) # {} OBVIOUS
<1> HIDE DEF Wins, Keys
<1>7. Clash(c) <=> Clash(d)
  <2>1. ASSUME NEW k PROVE (\E i, j \in Wins(c, k) : i # j) <=> (\E i, j \in Wins(d, k) : i # j)
    <3>1. ASSUME NEW i \in Wins(c, k), NEW j \in Wins(c, k), i # j PROVE \E a, b \in Wins(d, k) : a # b
      <4>1. PICK a \in DOMAIN q, b \in DOMAIN q : q[a] = r[i] /\ q[b] = r[j] BY <1>2, <1>5
      <4>2. a \in Wins(d, k) /\ b \in Wins(d, k) BY <1>4, <1>5, <4>1
      <4>3. a # b BY <1>2, <1>5, <3>1, <4>1
      <4> QED BY <4>2, <4>3
    <3>2. ASSUME NEW i \in Wins(d, k), NEW j \in Wins(d, k), i # j PROVE \E a, b \in Wins(c, k) : a # b
      <4>1. PICK a \in DOMAIN r, b \in DOMAIN r : r[a] = q[i] /\ r[b] = q[j] BY <1>2, <1>5
      <4>2. a \in Wins(c, k) /\ b \in Wins(c, k) BY <1>4, <1>5, <4>1
      <4>3. a # b BY <1>2, <1>5, <3>2, <4>1
      <4> QED BY <4>2, <4>3
    <3> QED BY <3>1, <3>2
  <2> QED BY <1>3, <2>1
<1>8. ASSUME ~Clash(c), NEW k \in Keys(c) PROVE c[Winner(c, k)] = d[Winner(d, k)]
  <2>1. PICK i \in Wins(c, k) : i = Winner(c, k) BY <1>6
  <2>2. PICK j \in DOMAIN q : q[j] = r[i] BY <1>2, <1>5
  <2>3. j \in Wins(d, k) BY <1>4, <1>5, <2>2
  <2>4. Winner(d, k) \in Wins(d, k) BY <2>3
  <2> HIDE DEF Winner
  <2>5. Winner(d, k) = j BY <1>3, <1>7, <1>8, <2>3, <2>4
  <2> QED BY <1>2, <1>5, <2>1, <2>2, <2>5
<1> HIDE DEF Clash, Winner
<1>9. Merged(c) = Merged(d)
  <2>1. CASE Clash(c) BY <1>7, <2>1
  <2>2. CASE ~Clash(c)
    <3>1. \A k \in Keys(c) : c[Winner(c, k)].variables[k] = d[Winner(d, k)].variables[k] BY <1>8, <2>2
    <3> QED BY <1>3, <1>7, <2>2, <3>1
  <2> QED BY <2>1, <2>2
<1> HIDE DEF Merged
<1>10. MergeVariables(c) = MergeVariables(d) BY <1>1, <1>9
<1> QED BY <1>10 DEF c, d

LEMMA SiteVariablesAlike ==
    ASSUME NEW r, NEW q, Alike(r, q), NEW site, NEW material
    PROVE  SiteVariables(r, site, material) = SiteVariables(q, site, material)
<1> DEFINE given == [f \in ToSet(r) |-> SiteContribution(f, site, material)]
           Lacks(roster) == /\ Managed(site) /\ site.name \notin DOMAIN material
                            /\ \E i \in DOMAIN roster : roster[i].name = "certificates"
           Merged(roster) == MergeVariables([i \in DOMAIN roster |-> SiteContribution(roster[i], site, material)])
<1>1. MergeVariables([i \in DOMAIN r |-> given[r[i]]]) = MergeVariables([i \in DOMAIN q |-> given[q[i]]])
  BY MergeAlike
<1>2. [i \in DOMAIN r |-> given[r[i]]] = [i \in DOMAIN r |-> SiteContribution(r[i], site, material)]
  BY DEF ToSet
<1>3. [i \in DOMAIN q |-> given[q[i]]] = [i \in DOMAIN q |-> SiteContribution(q[i], site, material)]
  BY DEF Alike, ToSet
<1>4. Merged(r) = Merged(q) BY <1>1, <1>2, <1>3
<1>5. Lacks(r) <=> Lacks(q) BY AlikeElements
<1>6. /\ SiteVariables(r, site, material) = IF Lacks(r) THEN Refused ELSE Merged(r)
      /\ SiteVariables(q, site, material) = IF Lacks(q) THEN Refused ELSE Merged(q)
  BY Zenon DEF SiteVariables
<1> HIDE DEF Lacks, Merged
<1> QED BY <1>4, <1>5, <1>6

LEMMA FleetVariablesAlike ==
    ASSUME NEW r, NEW q, Alike(r, q), NEW sites
    PROVE  FleetVariables(r, sites) = FleetVariables(q, sites)
<1> DEFINE given == [f \in ToSet(r) |-> FleetContribution(f, sites)]
<1>1. MergeVariables([i \in DOMAIN r |-> given[r[i]]]) = MergeVariables([i \in DOMAIN q |-> given[q[i]]])
  BY MergeAlike
<1>2. [i \in DOMAIN r |-> given[r[i]]] = [i \in DOMAIN r |-> FleetContribution(r[i], sites)]
  BY DEF ToSet
<1>3. [i \in DOMAIN q |-> given[q[i]]] = [i \in DOMAIN q |-> FleetContribution(q[i], sites)]
  BY DEF Alike, ToSet
<1> QED BY <1>1, <1>2, <1>3 DEF FleetVariables

\* A release is compiled alike.
LEMMA CompileAlike ==
    ASSUME NEW r, NEW q, Alike(r, q), NEW configs, NEW material, NEW inputs, NEW targets
    PROVE  Compile(r, configs, material, inputs, targets) = Compile(q, configs, material, inputs, targets)
<1> DEFINE sites == {s \in inputs.sites : s.serves}
           objections == Objections(configs, sites)
           Rendered(roster) == [s \in sites |-> IF objections # {} THEN <<>> ELSE SiteVariables(roster, s, material)]
           Settled(roster) == IF objections # {} THEN <<>> ELSE FleetVariables(roster, sites)
           Result(rendered, fleet, capabilities) ==
             LET derived == Over([sites |-> rendered], fleet)
                 conflicts == {<<"settings", k>> : k \in DOMAIN inputs.settings \cap DOMAIN derived}
             IN IF fleet = Refused \/ \E s \in sites : rendered[s] = Refused THEN Refused
                ELSE [inputs |-> inputs, capabilities |-> capabilities, targets |-> targets,
                      artifacts |-> IF objections \cup conflicts # {} THEN {} ELSE {Over(inputs.settings, derived)},
                      findings |-> {<<"derivation", h>> : h \in inputs.refused}
                                   \cup Missing(sites, capabilities, targets) \cup objections \cup conflicts]
<1>1. \A s \in sites : SiteVariables(r, s, material) = SiteVariables(q, s, material) BY SiteVariablesAlike
<1>2. FleetVariables(r, sites) = FleetVariables(q, sites) BY FleetVariablesAlike
<1>3. Capabilities(r) = Capabilities(q) BY GatheredAlike
<1>4. /\ Compile(r, configs, material, inputs, targets) = Result(Rendered(r), Settled(r), Capabilities(r))
      /\ Compile(q, configs, material, inputs, targets) = Result(Rendered(q), Settled(q), Capabilities(q))
  BY Zenon DEF Compile
<1> HIDE DEF Result, sites, objections
<1>5. Rendered(r) = Rendered(q) BY <1>1
<1>6. Settled(r) = Settled(q) BY <1>2
<1> QED BY <1>3, <1>4, <1>5, <1>6

-----------------------------------------------------------------------------
(* The theorems.                                                           *)

\* What is installed, held, running, on disk and compiled keeps its type.
THEOREM ProcessTypesHold == Spec => []ProcessesTypeOK
<1>1. LifeInv => ProcessesTypeOK
  BY ProcessesAssumption
  DEF LifeInv, ProcessesTypeOK, Stage, Empty, Contained, Featured, Pooled, Reporting, Quiet, PoolAtWork, WorkerAtWork,
      Recorded, Operated, Compilations, ProcessesAssumption
<1> QED BY <1>1, LifeAlways, PTL

\* Nothing outlives what it was built from, whichever step of a process fails
\* and whenever it is stopped or killed (HeldInOrder).
THEOREM NothingOutlives == Spec => []HeldInOrder
<1>1. LifeInv => HeldInOrder
  BY DEF LifeInv, HeldInOrder, Stage, Empty, Contained, Featured, Pooled, Reporting, Quiet, PoolAtWork, WorkerAtWork
<1> QED BY <1>1, LifeAlways, PTL

\* A play sees no operator's key and no secret that no feature declares, as
\* its process was launched, whatever the roster claims (SecretsConfined).
THEOREM PlaysAreConfined == Spec => []SecretsConfined
<1>1. ASSUME LifeInv PROVE SecretsConfined
  <2> SUFFICES ASSUME play # NoPlay PROVE SecretsConfined BY DEF SecretsConfined
  <2>1. PICK p \in Programs, s \in Sources :
          Parts[p][s] # Refused /\ play = [program |-> p, source |-> s, environment |-> PlayEnvironment(p, s)]
    BY <1>1 DEF LifeInv, Played
  <2>2. play.program = p /\ play.source = s /\ play.environment = PlayEnvironment(p, s) BY <2>1
  <2> QED BY <2>1, <2>2, PlayConfined DEF SecretsConfined
<1> QED BY <1>1, LifeAlways, PTL

\* Two releases of one identity are both servable or neither is
\* (IdentityDecides).
THEOREM IdentityIsDecisive == Spec => []IdentityDecides
<1>1. ASSUME LifeInv PROVE IdentityDecides
  <2> SUFFICES ASSUME NEW c \in compiled, NEW d \in compiled, Outcome(c) # Refused, Outcome(d) # Refused,
                      Servable(Outcome(c)), Identity(Outcome(c)) = Identity(Outcome(d))
               PROVE  Servable(Outcome(d))
    BY DEF IdentityDecides
  <2>1. c \in [program : Programs, source : Sources, state : States]
        /\ d \in [program : Programs, source : Sources, state : States]
    BY <1>1 DEF LifeInv, Compilations
  <2>2. PICK r : r = Outcome(c) OBVIOUS
  <2>3. PICK q : q = Outcome(d) OBVIOUS
  <2>4. PICK roster, configs, material, inputs, targets : r = Compile(roster, configs, material, inputs, targets)
    BY <2>1, <2>2 DEF Outcome, Made
  <2>5. PICK rosterD, configsD, materialD, inputsD, targetsD :
          q = Compile(rosterD, configsD, materialD, inputsD, targetsD)
    BY <2>1, <2>3 DEF Outcome, Made
  <2>6. r.inputs = q.inputs /\ r.capabilities = q.capabilities /\ r.targets = q.targets /\ r.artifacts = q.artifacts
    BY <2>2, <2>3 DEF Identity
  <2> DEFINE Follows(i, c_, t) == {<<"derivation", h>> : h \in i.refused} \cup Missing({s \in i.sites : s.serves}, c_, t)
  <2>7. /\ Follows(r.inputs, r.capabilities, r.targets) \subseteq r.findings
        /\ r.artifacts = {} => r.findings # {}
    BY <2>2, <2>4, CompiledIs
  <2>8. q.artifacts # {} => q.findings = Follows(q.inputs, q.capabilities, q.targets)
    BY <2>3, <2>5, CompiledIs
  <2> HIDE DEF Follows
  <2>9. Follows(r.inputs, r.capabilities, r.targets) = Follows(q.inputs, q.capabilities, q.targets) BY <2>6
  <2>10. r.findings = {} BY <2>2 DEF Servable
  <2> QED BY <2>3, <2>6, <2>7, <2>8, <2>9, <2>10 DEF Servable
<1> QED BY <1>1, LifeAlways, PTL

\* Two processes with the same features in any order resolve and compile the
\* same from one configuration and one state (RendersAlike): reordering the
\* roster never changes what an edge converges to (registry.py, merge_variables).
THEOREM RendersInAnyOrder == Spec => []RendersAlike
<1>1. ASSUME LifeInv PROVE RendersAlike
  <2> SUFFICES ASSUME NEW c \in compiled, NEW d \in compiled, c.source = d.source, c.state = d.state,
                      ToSet(FeaturesOf[c.program]) = ToSet(FeaturesOf[d.program])
               PROVE  Parts[c.program][c.source] = Parts[d.program][d.source] /\ Outcome(c) = Outcome(d)
    BY DEF RendersAlike
  <2>1. /\ c \in [program : Programs, source : Sources, state : States]
        /\ d \in [program : Programs, source : Sources, state : States]
        /\ Parts[c.program][c.source] # Refused /\ Parts[d.program][c.source] # Refused
    BY <1>1 DEF LifeInv, Compilations
  <2>2. PICK s \in Sources, t \in States : s = c.source /\ t = c.state BY <2>1
  <2>3. PICK r, q : r = FeaturesOf[c.program] /\ q = FeaturesOf[d.program] OBVIOUS
  <2>4. PICK env, file : env = Read[s].staged /\ file = Read[s].file OBVIOUS
  <2>5. /\ Read[s] # Refused
        /\ Parts[c.program][s] = Assembly(CoreRoles, r, env, file)
        /\ Parts[d.program][s] = Assembly(CoreRoles, q, env, file)
    BY <2>1, <2>2, <2>3, <2>4 DEF Parts
  <2>6. Alike(r, q) BY <2>1, <2>2, <2>3, <2>5, AssemblyNamed DEF Alike
  <2>7. Parts[c.program][s] = Parts[d.program][s] BY <2>5, <2>6, AssemblyAlike
  <2>8. PICK configs : configs = Parts[c.program][s].settings.configs OBVIOUS
  <2>9. /\ Made[c.program][s][t] = Compile(r, configs, StateOf[t].material, StateOf[t].inputs, StateOf[t].targets)
        /\ Made[d.program][s][t] = Compile(q, configs, StateOf[t].material, StateOf[t].inputs, StateOf[t].targets)
    BY <2>1, <2>2, <2>3, <2>7, <2>8 DEF Made
  <2>10. Made[c.program][s][t] = Made[d.program][s][t] BY <2>6, <2>9, CompileAlike
  <2> QED BY <2>2, <2>7, <2>10 DEF Outcome
<1> QED BY <1>1, LifeAlways, PTL
=============================================================================
