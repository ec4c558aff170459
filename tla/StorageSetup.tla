---------------------------- MODULE StorageSetup ----------------------------
(***************************************************************************)
(* How a process sets its database up, request by request                  *)
(* (tsdb/process.go Init, storage/influxdb_v1.go), while the commands of   *)
(* administrators restart it, take parts of the database away and change   *)
(* its profile (api/admin.go, integration.go), each in a goroutine of its  *)
(* own; requests fail, and the program is restarted.                       *)
(*                                                                         *)
(* Historian is about what the buckets are for; here it only matters       *)
(* whether they are there.  Schedulers and MQTT connections are            *)
(* ProcessLifecycle's: Stop is one step, and the connection parameters     *)
(* parse.  InitDb is on.                                                   *)
(***************************************************************************)
EXTENDS Retention, Sequences

CONSTANTS
    Calls,        \* goroutines, each of which runs a command at a time
    Main,         \* the one that boots the program
    Configured,   \* the profiles that configurations name
    Touched,      \* the buckets administrators name
    Durations,    \* what they set a retention to
    MaxCommands,  \* bounds the commands of administrators
    MaxFailures,  \* bounds the failures of the network and the restarts
    None

ASSUME CallsAssumption == Main \in Calls
ASSUME NamesAssumption == Configured \subseteq Profiles /\ Touched \subseteq Buckets
ASSUME NumbersAssumption ==
    Durations \subseteq Nat \ {0} /\ MaxCommands \in Nat /\ MaxFailures \in Nat
ASSUME NoneAssumption == None \notin Buckets \cup Profiles

VARIABLES
    database,    \* the database exists
    policies,    \* how long its retention policies keep points, 0 without one
    continuous,  \* its continuous queries
    profile,     \* Process.Config.Profile
    stored,      \* the profile in the configuration file
    state,       \* Process.State
    batches,     \* Process.batchPoints has been made
    pc,          \* where each call is
    next,        \* where it goes on after Init or Stop
    object,      \* the bucket it deletes, or the profile it brings
    plan,        \* the profile its Init sets up
    step,        \* how many requests of the plan it has made
    commands,    \* for the bounds
    failures

(***************************************************************************)
(* History: whether the last Init had everything to succeed and nothing    *)
(* was taken away since; and the same for each call.                       *)
(***************************************************************************)
VARIABLES orderly, promised

dbVars    == <<database, policies, continuous>>
procVars  == <<profile, stored, state, batches>>
callVars  == <<pc, next, object, plan, step>>
boundVars == <<commands, failures>>
vars      == <<dbVars, procVars, callVars, boundVars, orderly, promised>>

\* Retention policies of earlier versions.
Legacy == {"default_20w", "default_8w"}

States == {"LOADED", "STARTING", "INITIALIZED_WITH_ERRORS", "INITIALIZED", "RUNNING",
           "LOST_CONNECTION", "STOPPED"}
Locations == {"idle", "boot", "stop", "delete_policy", "delete_database", "start",
              "database", "setup", "built", "connect"}
Onward == {"idle", "start", "connect", "delete_policy", "delete_database"}

-----------------------------------------------------------------------------
(* The requests *)

Create(b, must) == [do |-> "create", name |-> b, must |-> must]
Delete(b, must) == [do |-> "delete", name |-> b, must |-> must]
AddCQ(q, must)  == [do |-> "cq", name |-> q, must |-> must]

\* Mutated form of InitDefaultBuckets: every error ends it.
InitDefaultBucketsStrict ==
    << Create("gen_year", TRUE), Create("gen_month", TRUE), Create("gen_week", TRUE),
       Create("gen_day", TRUE), Create("gen_raw", TRUE), Create("gen_default", TRUE),
       Delete("default_20w", TRUE), Delete("default_8w", TRUE),
       AddCQ("raw_to_day", TRUE), AddCQ("day_to_week", TRUE),
       AddCQ("week_to_month", TRUE), AddCQ("month_to_year", TRUE) >>

\* The error of the first of each kind ends it; the others are not looked at.
InitDefaultBuckets ==
    << Create("gen_year", TRUE), Create("gen_month", FALSE), Create("gen_week", FALSE),
       Create("gen_day", FALSE), Create("gen_raw", FALSE), Create("gen_default", FALSE),
       Delete("default_20w", TRUE), Delete("default_8w", FALSE),
       AddCQ("raw_to_day", TRUE), AddCQ("day_to_week", FALSE),
       AddCQ("week_to_month", FALSE), AddCQ("month_to_year", FALSE) >>

InitSimpleBuckets == << Create("gen_raw", FALSE), Create("gen_default", FALSE) >>

Requests(p) == IF p = "optimized" THEN InitDefaultBuckets ELSE InitSimpleBuckets

\* The database refuses what it has with other parameters, and anything but a deletion
\* when it does not exist.
Refused(r, p) ==
    \/ ~database /\ r.do # "delete"
    \/ r.do = "create" /\ policies[r.name] \notin {0, BucketDuration(p, r.name)}

Apply(r, p) ==
    /\ policies' = CASE r.do = "create" -> [policies EXCEPT ![r.name] = BucketDuration(p, r.name)]
                     [] r.do = "delete" -> [policies EXCEPT ![r.name] = 0]
                     [] OTHER -> policies
    /\ continuous' = IF r.do = "cq" THEN continuous \cup {r.name} ELSE continuous

-----------------------------------------------------------------------------
Nothing == [b \in Buckets \cup Legacy |-> 0]

\* A process is started automatically or not.
Booting == {[c \in Calls |-> "idle"], [c \in Calls |-> IF c = Main THEN "boot" ELSE "idle"]}

\* The program boots on a server that has no database yet or that of an earlier version.
Init ==
    /\ profile \in Configured
    /\ stored = profile
    /\ state = "LOADED"
    /\ batches = FALSE
    /\ database \in BOOLEAN
    /\ policies = [b \in Buckets \cup Legacy |->
                      IF database /\ b \in Legacy THEN 8 * Week ELSE 0]
    /\ continuous = {}
    /\ pc \in Booting
    /\ next = [c \in Calls |-> "idle"]
    /\ object = [c \in Calls |-> None]
    /\ plan = [c \in Calls |-> None]
    /\ step = [c \in Calls |-> 0]
    /\ commands = 0
    /\ failures = 0
    /\ orderly = FALSE
    /\ promised = [c \in Calls |-> pc[c] = "boot"]

Goto(c, l) == pc' = [pc EXCEPT ![c] = l]
Active == {c \in Calls : pc[c] # "idle"}
SettingUp == {c \in Calls : pc[c] \in {"database", "setup"}}
NoPromise == promised' = [c \in Calls |-> FALSE]

Fails ==
    /\ failures < MaxFailures
    /\ failures' = failures + 1
    /\ NoPromise

Works == UNCHANGED <<failures, promised>>

-----------------------------------------------------------------------------
(* Init *)

\* Nothing but an altered gen_year keeps a set-up from coming to its end.
CanSetUp(p) == p = "optimized" => policies["gen_year"] \in {0, 240 * Week}

\* The first part of Init, which goes on at n when it is done.
EnterInit(c, n) ==
    /\ state' = "STARTING"
    /\ next' = [next EXCEPT ![c] = n]
    /\ Goto(c, "database")
    /\ orderly' = CanSetUp(profile)
    /\ UNCHANGED <<dbVars, profile, stored, batches, object, plan, step, boundVars, promised>>

\* InitNewProcess: Init, then Start.
Boot(c) == pc[c] = "boot" /\ EnterInit(c, "start")

\* CREATE DATABASE.  Init goes on after an error.
InitDB(c) ==
    /\ pc[c] = "database"
    /\ \/ /\ database' = TRUE
          /\ Works
          /\ UNCHANGED <<state, orderly>>
       \/ /\ Fails
          /\ database' \in {database, TRUE}
          /\ state' = "INITIALIZED_WITH_ERRORS"
          /\ orderly' = FALSE
    /\ plan' = [plan EXCEPT ![c] = profile]
    /\ step' = [step EXCEPT ![c] = 0]
    /\ Goto(c, "setup")
    /\ UNCHANGED <<policies, continuous, profile, stored, batches, next, object, commands>>

\* The next request has been answered, or has not.
Answered(c, error) ==
    /\ step' = [step EXCEPT ![c] = @ + 1]
    /\ LET requests == Requests(plan[c])
       IN  IF (error /\ requests[step[c] + 1].must) \/ step[c] + 1 = Len(requests)
           THEN Goto(c, "built") ELSE Goto(c, "setup")

\* A request that fails may have been carried out.
SetupStep(c) ==
    /\ pc[c] = "setup"
    /\ LET r == Requests(plan[c])[step[c] + 1]
           refused == Refused(r, plan[c])
       IN  \/ /\ ~refused /\ Apply(r, plan[c])
              /\ Answered(c, FALSE)
              /\ Works /\ UNCHANGED orderly
           \/ /\ refused /\ UNCHANGED <<policies, continuous>>
              /\ Answered(c, TRUE)
              /\ Works /\ UNCHANGED orderly
           \/ /\ \/ ~refused /\ Apply(r, plan[c])
                 \/ UNCHANGED <<policies, continuous>>
              /\ Answered(c, TRUE)
              /\ Fails /\ orderly' = FALSE
    /\ UNCHANGED <<database, procVars, next, object, plan, commands>>

Built(c) ==
    /\ pc[c] = "built"
    /\ state' = IF state = "STARTING" THEN "INITIALIZED" ELSE state
    /\ Goto(c, next[c])
    /\ next' = [next EXCEPT ![c] = "idle"]
    /\ plan' = [plan EXCEPT ![c] = None]
    /\ step' = [step EXCEPT ![c] = 0]
    /\ batches' = TRUE
    /\ UNCHANGED <<dbVars, profile, stored, object, boundVars, orderly, promised>>

-----------------------------------------------------------------------------
(* Start and Stop *)

AlreadyUp == {"RUNNING", "STARTING"}

\* Mutated form of NeedsInit: a failed set-up is not tried again.
NeedsInitOnce == {"LOADED", "STOPPED"}

\* The states in which Start initialises the process first; LOST_CONNECTION is not one.
NeedsInit == {"LOADED", "INITIALIZED_WITH_ERRORS", "STOPPED"}

\* When Configure returns without an error UpdateProcConfig assigns the configuration,
\* which is the one the process points to, once more, and saves it.
Returns(c) ==
    /\ Goto(c, "idle")
    /\ IF object[c] \in Profiles
       THEN /\ profile' = object[c] /\ stored' = object[c]
            /\ orderly' = (orderly /\ profile' = profile)
       ELSE UNCHANGED <<profile, stored, orderly>>
    /\ object' = [object EXCEPT ![c] = None]
    /\ promised' = [promised EXCEPT ![c] = FALSE]

Start(c) ==
    /\ pc[c] = "start"
    /\ \/ state \in NeedsInit /\ EnterInit(c, "connect")
       \/ /\ state \notin NeedsInit
          /\ IF state \in AlreadyUp
             THEN Returns(c)
             ELSE Goto(c, "connect") /\ UNCHANGED <<profile, stored, object, orderly, promised>>
          /\ UNCHANGED <<dbVars, state, batches, next, plan, step, boundVars>>

\* The MQTT connection.  With an error Start returns it, and nothing is saved.
Connect(c) ==
    /\ pc[c] = "connect"
    /\ \/ /\ state' = IF state = "INITIALIZED" THEN "RUNNING" ELSE state
          /\ Returns(c)
          /\ UNCHANGED failures
       \/ /\ Fails
          /\ Goto(c, "idle")
          /\ object' = [object EXCEPT ![c] = None]
          /\ UNCHANGED <<profile, stored, state, orderly>>
    /\ UNCHANGED <<dbVars, batches, next, plan, step, commands>>

\* A process that is not RUNNING refuses, and the command goes on all the same.
Stop(c) ==
    /\ pc[c] = "stop"
    /\ state' = IF state = "RUNNING" THEN "STOPPED" ELSE state
    /\ Goto(c, next[c])
    /\ next' = [next EXCEPT ![c] = "idle"]
    /\ UNCHANGED <<dbVars, profile, stored, batches, object, plan, step, boundVars, orderly, promised>>

-----------------------------------------------------------------------------
(* The administrators *)

\* What a command that ends with Start leaves behind is promised when it is alone and
\* the process runs, was stopped or has nothing yet, or has not been set up.
Restarts(sound) ==
    /\ sound /\ Active = {}
    /\ state \in {"LOADED", "INITIALIZED_WITH_ERRORS", "STOPPED", "RUNNING"}

\* A command begins at location l and goes on at n.
Begin(c, l, n, o) ==
    /\ pc[c] = "idle"
    /\ commands < MaxCommands
    /\ commands' = commands + 1
    /\ Goto(c, l)
    /\ next' = [next EXCEPT ![c] = n]
    /\ object' = [object EXCEPT ![c] = o]
    /\ UNCHANGED <<dbVars, stored, state, batches, plan, step, failures>>

Promise(c, p) == promised' = [d \in Calls |-> d = c /\ p]

CtrlStart(c) ==
    /\ Begin(c, "start", "idle", None)
    /\ Promise(c, Restarts(CanSetUp(profile)) /\ state # "RUNNING")
    /\ UNCHANGED <<profile, orderly>>

CtrlStop(c) ==
    /\ Begin(c, "stop", "idle", None)
    /\ NoPromise
    /\ UNCHANGED <<profile, orderly>>

\* update_config: Configure assigns the new configuration, then Stop and Start.
UpdateConfig(c, p) ==
    /\ Begin(c, "stop", "start", p)
    /\ profile' = p
    /\ orderly' = (orderly /\ p = profile)
    /\ Promise(c, Restarts(CanSetUp(p)))

\* delete_object: Stop, the deletion and Start; refused without a storage.
DeleteRetentionPolicy(c, b) ==
    /\ state # "LOADED"
    /\ Begin(c, "stop", "delete_policy", b)
    /\ Promise(c, Restarts(CanSetUp(profile) \/ b = "gen_year"))
    /\ UNCHANGED <<profile, orderly>>

DropDB(c) ==
    /\ state # "LOADED"
    /\ Begin(c, "stop", "delete_database", None)
    /\ Promise(c, Restarts(TRUE))
    /\ UNCHANGED <<profile, orderly>>

\* The error of the deletion is not looked at; it may have been carried out.
DeletePolicyNow(c) ==
    /\ pc[c] = "delete_policy"
    /\ \/ policies' = [policies EXCEPT ![object[c]] = 0] /\ (Works \/ Fails)
       \/ UNCHANGED policies /\ Fails
    /\ orderly' = FALSE
    /\ Goto(c, "start")
    /\ UNCHANGED <<database, continuous, procVars, next, object, plan, step, commands>>

DropDBNow(c) ==
    /\ pc[c] = "delete_database"
    /\ \/ database' = FALSE /\ policies' = Nothing /\ continuous' = {} /\ (Works \/ Fails)
       \/ UNCHANGED dbVars /\ Fails
    /\ orderly' = FALSE
    /\ Goto(c, "start")
    /\ UNCHANGED <<procVars, next, object, plan, step, commands>>

\* The commands of one request, without a restart.
Request ==
    /\ state # "LOADED"
    /\ commands < MaxCommands
    /\ commands' = commands + 1
    /\ NoPromise
    /\ UNCHANGED <<database, procVars, callVars, failures>>

DeleteCQ(q) ==
    /\ Request
    /\ q \in continuous
    /\ continuous' = continuous \ {q}
    /\ orderly' = FALSE
    /\ UNCHANGED policies

\* add_retention_policy, of a policy there is not, or update_retention_policy.
SetRetentionPolicy(b, d) ==
    /\ Request
    /\ database
    /\ policies' = [policies EXCEPT ![b] = d]
    /\ orderly' = (orderly /\ (b # "gen_year" \/ SettingUp = {}))
    /\ UNCHANGED continuous

-----------------------------------------------------------------------------
(* What happens beside the commands *)

\* Mutated form of StateAfterError: another literal than the rest of the code knows.
StateAfterErrorTypo == "CONNECTION_LOST"

StateAfterError == "LOST_CONNECTION"

\* A flush ends, with what the database answers, and without a look at the state.
Flush(b) ==
    /\ batches
    /\ \/ /\ database /\ policies[b] # 0
          /\ state' = "RUNNING"
          /\ NoPromise /\ UNCHANGED failures
       \/ /\ ~database
          /\ state' = StateAfterError
          /\ NoPromise /\ UNCHANGED failures
       \/ state' = StateAfterError /\ Fails
    /\ state' # state
    /\ UNCHANGED <<dbVars, profile, stored, batches, callVars, commands, orderly>>

\* The program ends in the middle of anything, and boots with what was saved.
Restart ==
    /\ failures < MaxFailures
    /\ failures' = failures + 1
    /\ state' = "LOADED"
    /\ profile' = stored
    /\ batches' = FALSE
    /\ pc' \in Booting
    /\ next' = [c \in Calls |-> "idle"]
    /\ object' = [c \in Calls |-> None]
    /\ plan' = [c \in Calls |-> None]
    /\ step' = [c \in Calls |-> 0]
    /\ orderly' = FALSE
    /\ promised' = [c \in Calls |-> pc'[c] = "boot" /\ CanSetUp(stored)]
    /\ UNCHANGED <<dbVars, stored, commands>>

-----------------------------------------------------------------------------
Commands(c) ==
    \/ CtrlStart(c) \/ CtrlStop(c) \/ DropDB(c)
    \/ \E p \in Configured : UpdateConfig(c, p)
    \/ \E b \in Touched : DeleteRetentionPolicy(c, b)

Proceeds(c) ==
    \/ Boot(c) \/ InitDB(c) \/ SetupStep(c) \/ Built(c) \/ Start(c) \/ Connect(c) \/ Stop(c)
    \/ DeletePolicyNow(c) \/ DropDBNow(c)

Next ==
    \/ \E c \in Calls : Commands(c) \/ Proceeds(c)
    \/ \E q \in ContinuousQueries : DeleteCQ(q)
    \/ \E b \in Touched, d \in Durations : SetRetentionPolicy(b, d)
    \/ \E b \in {"gen_raw", "gen_default", "gen_year"} : Flush(b)
    \/ Restart

Spec == Init /\ [][Next]_vars

-----------------------------------------------------------------------------
(* Properties *)

\* Every variable has its type, and without a database there is nothing in it.
TypeOK ==
    /\ database \in BOOLEAN
    /\ policies \in [Buckets \cup Legacy -> Nat]
    /\ continuous \subseteq ContinuousQueries
    /\ ~database => policies = Nothing /\ continuous = {}
    /\ profile \in Profiles /\ stored \in Profiles
    /\ state \in States /\ batches \in BOOLEAN
    /\ pc \in [Calls -> Locations]
    /\ next \in [Calls -> Onward]
    /\ object \in [Calls -> Buckets \cup Profiles \cup {None}]
    /\ plan \in [Calls -> Profiles \cup {None}]
    /\ step \in [Calls -> Nat]
    /\ \A c \in Calls : pc[c] = "setup" => step[c] + 1 \in DOMAIN Requests(plan[c])
    /\ commands \in 0 .. MaxCommands /\ failures \in 0 .. MaxFailures
    /\ orderly \in BOOLEAN
    /\ promised \in [Calls -> BOOLEAN]

\* Everything is there that the profile of the process wants.
Complete ==
    /\ database
    /\ \A b \in Buckets : BucketDuration(profile, b) # 0 => policies[b] # 0
    /\ profile = "optimized" =>
          continuous = ContinuousQueries /\ \A b \in Legacy : policies[b] = 0

\* Once a set-up that met no failure is over, everything is there that the profile
\* wants, in a new database, in one that has parts of it or of another profile or of
\* an earlier version, and whatever the errors are that the set-up leaves alone
\* (influxdb_v1.go:45-85, process.go:80-93); it stays so until somebody takes
\* something away or changes the profile.
SetupIsComplete == orderly /\ SettingUp = {} => Complete

\* A command that is alone and meets no failure leaves a process that could be started
\* RUNNING and its database complete: what delete_object removes is made again, a
\* failed set-up is made up for, and a new profile is set up
\* (admin.go:354-362, process.go:341-349, 432-478).
RestartsRestore ==
    [][\A c \in Calls :
           promised[c] /\ pc[c] # "idle" /\ pc'[c] = "idle" /\ failures' = failures =>
               state' = "RUNNING" /\ Complete']_vars
=============================================================================
