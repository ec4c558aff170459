------------------------------ MODULE Registry ------------------------------
(***************************************************************************)
(* The processes of an Integration and their configurations, in memory and *)
(* on disk (src/integration/tsdb/integration.go).  Every API command runs  *)
(* in a goroutine of its own (api/admin.go) and no lock guards the two     *)
(* lists; configSaveMutex guards SaveConfigs only.                         *)
(*                                                                         *)
(* A process holds a pointer to its configuration.  One that a boot has    *)
(* made points into the array behind processConfigs, which RemoveProcess   *)
(* shifts in place and append may outgrow; one that a command has added    *)
(* points to a configuration of its own.                                   *)
(*                                                                         *)
(* A step is a statement, but where a statement reads processConfigs,      *)
(* works and assigns it, reading and assigning are two steps.              *)
(***************************************************************************)
EXTENDS Naturals, Sequences, FiniteSets

CONSTANTS
    Commands,  \* goroutines of the API, one command each
    Ids,       \* process identifiers, 1 .. n: GetNewID stops at the last one
    BootSizes, \* how many processes the file may hold at first
    Capacity,  \* the least capacity of an array that json.Unmarshal makes
    None,      \* nobody, no configuration
    Null,      \* a nil list, and the file that says null
    Torn,      \* a file that has been truncated and not yet written
    Absent     \* no file

ASSUME CommandsAssumption ==
    None \notin Commands /\ Commands \cap {"boot", "default"} = {}
ASSUME IdsAssumption ==
    /\ IsFiniteSet(Ids) /\ Ids = 1 .. Cardinality(Ids)
    /\ Ids \subseteq Nat \ {0} /\ 1 \in Ids
    /\ \A n \in BootSizes : n \in Nat \ {0} /\ 1 .. n \subseteq Ids
    /\ Capacity \in Nat \ {0}

\* A configuration: its identifier, and who wrote what is in it.
Configs == [id : Ids, rev : {"boot", "default"} \cup Commands]

ASSUME FileAssumption ==
    /\ \A x \in {Null, Torn, Absent} : x \notin Seq(Configs)
    /\ Torn \notin {Null, Absent} /\ Null # Absent

DefaultConfig(n) == [id |-> n, rev |-> "default"]

VARIABLES
    arrays,     \* the arrays of configurations there have been since boot
    list,       \* the slice processConfigs: its array, 0 for nil, and length
    processes,  \* Integration.processes: the pointer, and whom it was made for
    running,    \* the program runs
    file,       \* what the configuration file holds
    saveMutex,  \* who holds configSaveMutex
    pc,         \* where each command is
    op,         \* which command it is
    target,     \* the identifier it is about
    index,      \* the index it has found
    slice,      \* the processConfigs it has read
    payload     \* what json.Marshal, or ReadFile, returned to it

(***************************************************************************)
(* History: the configurations there should be, going by the saves of the  *)
(* commands; and whether commands came one after the other, no update      *)
(* failed half way, and no crash hit the writing of the file.              *)
(***************************************************************************)
VARIABLES expected, orderly

memVars  == <<arrays, list, processes>>
fileVars == <<file, saveMutex>>
cmdVars  == <<pc, op, target, index, slice, payload>>
histVars == <<expected, orderly>>
vars     == <<memVars, running, fileVars, cmdVars, histVars>>

Nil == [array |-> 0, len |-> 0]

\* What a slice into one of the arrays a holds, and what processConfigs holds.
Contents(a, l) == IF l.array = 0 THEN Null ELSE [i \in 1 .. l.len |-> a[l.array][i]]
Memory == Contents(arrays, list)

\* The configuration a process works with: *Process.Config.
ConfigOf(p) == arrays[p.array][p.slot]

\* Where a loop over the indices S stops that breaks at the first: a set of one
\* index, or of none.
First(S) == {i \in S : \A j \in S : i <= j}

\* The index of the first process whose configuration has identifier x, if any.
GetProcessByID(x) == First({i \in DOMAIN processes : ConfigOf(processes[i]).id = x})

\* The index of the first configuration with identifier x, if any.
ConfigIndex(x) == First({i \in 1 .. list.len : arrays[list.array][i].id = x})

\* Mutated form of GetNewID: the number of configurations instead of the largest.
GetNewIDCounted == list.len + 1

\* One more than the largest identifier in processConfigs.
GetNewID == CHOOSE n \in Ids \cup {1 + Cardinality(Ids)} :
    /\ \A i \in 1 .. list.len : arrays[list.array][i].id < n
    /\ n = 1 \/ \E i \in 1 .. list.len : arrays[list.array][i].id = n - 1

Without(s, i) == SubSeq(s, 1, i - 1) \o SubSeq(s, i + 1, Len(s))

-----------------------------------------------------------------------------
(* Boot *)

Extent(n, least) == IF n < least THEN least ELSE n

\* An array with the configurations s and room for more.
ArrayOf(s, room) ==
    [i \in 1 .. Extent(Len(s), room) |-> IF i \in DOMAIN s THEN s[i] ELSE None]

\* json.Unmarshal gives processConfigs a new array, or nil.
Load(configs) ==
    IF configs = Null
    THEN UNCHANGED arrays /\ list' = Nil
    ELSE /\ arrays' = Append(arrays, ArrayOf(configs, Capacity))
         /\ list' = [array |-> Len(arrays) + 1, len |-> Len(configs)]

\* InitProcesses: one more process per configuration, pointing into the array.
InitProcesses ==
    processes' = processes \o
        [i \in 1 .. list'.len |->
            [id |-> arrays'[list'.array][i].id, array |-> list'.array, slot |-> i]]

BootConfigs(n) == [i \in 1 .. n |-> [id |-> i, rev |-> "boot"]]

Init ==
    /\ file \in {BootConfigs(n) : n \in BootSizes} \cup {Absent}
    /\ arrays = <<>>
    /\ list = Nil
    /\ processes = <<>>
    /\ running = FALSE
    /\ saveMutex = None
    /\ pc = [c \in Commands |-> "ready"]
    /\ op = [c \in Commands |-> "none"]
    /\ target = [c \in Commands |-> 1]
    /\ index = [c \in Commands |-> 0]
    /\ slice = [c \in Commands |-> Nil]
    /\ payload = [c \in Commands |-> Null]
    /\ expected = IF file = Absent THEN {DefaultConfig(1)} ELSE {file[i] : i \in DOMAIN file}
    /\ orderly = TRUE

\* What a boot makes of a file: one that cannot be parsed leaves the list nil.
Loaded(f) == IF f = Torn THEN Null ELSE f

\* A nil list is a program that runs with no process.  An empty one makes
\* InitProcesses panic on its first element: the program ends and is started
\* again, for ever.
Boot ==
    /\ ~running
    /\ file \notin {Absent, <<>>}
    /\ running' = TRUE
    /\ Load(Loaded(file))
    /\ InitProcesses
    /\ UNCHANGED <<fileVars, cmdVars, histVars>>

\* Without a file the default list is loaded and saved before anybody runs.
BootDefaults ==
    /\ ~running
    /\ file = Absent
    /\ running' = TRUE
    /\ Load(<<DefaultConfig(1)>>)
    /\ file' = <<DefaultConfig(1)>>
    /\ InitProcesses
    /\ UNCHANGED <<saveMutex, cmdVars, histVars>>

\* The program is killed while it saves the default list.
BootDies ==
    /\ ~running
    /\ file = Absent
    /\ file' = Torn
    /\ orderly' = FALSE
    /\ UNCHANGED <<memVars, running, saveMutex, cmdVars, expected>>

\* The program ends: kill, power cut, os.Exit, the fatal panics of the other
\* components.
ProgramEnds ==
    /\ running' = FALSE
    /\ arrays' = <<>>
    /\ list' = Nil
    /\ processes' = <<>>
    /\ saveMutex' = None
    /\ pc' = [c \in Commands |-> IF pc[c] = "ready" THEN "ready" ELSE "done"]
    /\ slice' = [c \in Commands |-> Nil]
    /\ payload' = [c \in Commands |-> Null]
    /\ orderly' = (orderly /\ file # Torn)
    /\ UNCHANGED <<file, op, target, index, expected>>

Crash == running /\ ProgramEnds

-----------------------------------------------------------------------------
(* The commands *)

Goto(c, l) == pc' = [pc EXCEPT ![c] = l]
Busy == {c \in Commands : pc[c] \notin {"ready", "done", "failed"}}

Begin(c, o, x, l) ==
    /\ running
    /\ pc[c] = "ready"
    /\ op' = [op EXCEPT ![c] = o]
    /\ target' = [target EXCEPT ![c] = x]
    /\ Goto(c, l)
    /\ orderly' = (orderly /\ Busy = {})
    /\ UNCHANGED <<memVars, running, fileVars, index, slice, payload, expected>>

\* What a step of a command leaves alone, but for its save.
StepFrame == UNCHANGED <<running, fileVars, op, expected>>

\* AddProcess(nil).
AddProcess(c) == Begin(c, "add", 1, "newid")

AddTakesID(c) ==
    /\ pc[c] = "newid"
    /\ GetNewID \in Ids
    /\ target' = [target EXCEPT ![c] = GetNewID]
    /\ Goto(c, "header")
    /\ UNCHANGED <<memVars, index, slice, payload, orderly>> /\ StepFrame

\* append reads processConfigs.
AddReads(c) ==
    /\ pc[c] = "header"
    /\ slice' = [slice EXCEPT ![c] = list]
    /\ Goto(c, "append")
    /\ UNCHANGED <<memVars, target, index, payload, orderly>> /\ StepFrame

\* Mutated form of HasRoom: the capacity is off by one.
HasRoomToo(l) == l.array # 0 /\ l.len <= Len(arrays[l.array])

\* The array of a slice has room for one more.
HasRoom(l) == l.array # 0 /\ l.len < Len(arrays[l.array])

\* The configuration is copied behind the slice that was read.  An array that
\* is full is left to whoever points into it, and one of twice its size is used.
AddAppends(c) ==
    /\ pc[c] = "append"
    /\ LET l == slice[c]
       IN  IF HasRoom(l)
           THEN /\ arrays' = [arrays EXCEPT ![l.array][l.len + 1] = DefaultConfig(target[c])]
                /\ list' = [l EXCEPT !.len = @ + 1]
           ELSE /\ arrays' = Append(arrays,
                        ArrayOf(Append(IF l.array = 0 THEN <<>> ELSE Contents(arrays, l),
                                       DefaultConfig(target[c])), 2 * l.len))
                /\ list' = [array |-> Len(arrays) + 1, len |-> l.len + 1]
    /\ Goto(c, "lock")
    /\ UNCHANGED <<processes, target, index, slice, payload, orderly>> /\ StepFrame

\* RemoveProcess, as the API calls it: for an identifier some process has.
RemoveProcess(c, x) == Begin(c, "remove", x, "lookup")

RemoveLooksUp(c) ==
    /\ pc[c] = "lookup"
    /\ Goto(c, IF GetProcessByID(target[c]) = {} THEN "done" ELSE "find")
    /\ UNCHANGED <<memVars, target, index, slice, payload, orderly>> /\ StepFrame

\* The process is found, and stopped; an error of Stop does not matter here.
RemoveFinds(c) ==
    /\ pc[c] = "find"
    /\ \/ /\ GetProcessByID(target[c]) = {}
          /\ Goto(c, "search") /\ UNCHANGED index
       \/ \E i \in GetProcessByID(target[c]) :
             Goto(c, "unlist") /\ index' = [index EXCEPT ![c] = i]
    /\ UNCHANGED <<memVars, target, slice, payload, orderly>> /\ StepFrame

\* It is cut out of processes by its index; an index that has become too large
\* is a panic, which the API goroutine recovers.
RemoveUnlists(c) ==
    /\ pc[c] = "unlist"
    /\ IF index[c] > Len(processes)
       THEN Goto(c, "done") /\ UNCHANGED processes
       ELSE Goto(c, "search") /\ processes' = Without(processes, index[c])
    /\ UNCHANGED <<arrays, list, target, index, slice, payload, orderly>> /\ StepFrame

\* The configuration is found, and append reads processConfigs.
RemoveSearches(c) ==
    /\ pc[c] = "search"
    /\ slice' = [slice EXCEPT ![c] = list]
    /\ \/ /\ ConfigIndex(target[c]) = {}
          /\ Goto(c, "lock") /\ UNCHANGED index
       \/ \E i \in ConfigIndex(target[c]) :
             Goto(c, "cut") /\ index' = [index EXCEPT ![c] = i]
    /\ UNCHANGED <<memVars, target, payload, orderly>> /\ StepFrame

\* Mutated form of Cut: the configuration after the removed one goes.
CutNext(a, i, n) ==
    [k \in DOMAIN a |-> IF i < k /\ k < n THEN a[k + 1] ELSE a[k]]

\* An array when its first n slots lose the i-th: those after it move down, and
\* the last one stays where it was, too.
Cut(a, i, n) ==
    [k \in DOMAIN a |-> IF i <= k /\ k < n THEN a[k + 1] ELSE a[k]]

RemoveCuts(c) ==
    /\ pc[c] = "cut"
    /\ LET l == slice[c]
       IN  /\ arrays' = [arrays EXCEPT ![l.array] = Cut(@, index[c], l.len)]
           /\ list' = [l EXCEPT !.len = @ - 1]
    /\ Goto(c, "lock")
    /\ UNCHANGED <<processes, target, index, slice, payload, orderly>> /\ StepFrame

\* UpdateProcConfig.
UpdateProcConfig(c, x) == Begin(c, "update", x, "configure")

NewConfig(c) == [id |-> target[c], rev |-> c]

\* Configure overwrites the configuration through the pointer.  An identifier
\* nobody has is a nil pointer, and the API goroutine recovers.
UpdateConfigures(c) ==
    /\ pc[c] = "configure"
    /\ \/ /\ GetProcessByID(target[c]) = {}
          /\ Goto(c, "done") /\ UNCHANGED arrays
       \/ \E i \in GetProcessByID(target[c]) :
             /\ Goto(c, "restart")
             /\ arrays' = [arrays EXCEPT
                   ![processes[i].array][processes[i].slot] = NewConfig(c)]
    /\ UNCHANGED <<list, processes, target, index, slice, payload, orderly>> /\ StepFrame

\* Stop and Start; an error of Start ends the command.
UpdateRestarts(c) ==
    /\ pc[c] = "restart"
    /\ \/ Goto(c, "replace") /\ UNCHANGED orderly
       \/ Goto(c, "failed") /\ orderly' = FALSE
    /\ UNCHANGED <<memVars, target, index, slice, payload>> /\ StepFrame

\* The configuration is replaced in processConfigs.
UpdateReplaces(c) ==
    /\ pc[c] = "replace"
    /\ \/ ConfigIndex(target[c]) = {} /\ UNCHANGED arrays
       \/ \E i \in ConfigIndex(target[c]) :
             arrays' = [arrays EXCEPT ![list.array][i] = NewConfig(c)]
    /\ Goto(c, "lock")
    /\ UNCHANGED <<list, processes, target, index, slice, payload, orderly>> /\ StepFrame

\* ResetConfigsToDefault: no process, and the default list.
ResetConfigsToDefault(c) == Begin(c, "reset", 1, "clear")

ResetClears(c) ==
    /\ pc[c] = "clear"
    /\ Load(<<DefaultConfig(1)>>)
    /\ processes' = <<>>
    /\ Goto(c, "lock")
    /\ UNCHANGED <<target, index, slice, payload, orderly>> /\ StepFrame

\* LoadConfig reads the file; a file that cannot be parsed changes nothing.
ResetReads(c) ==
    /\ pc[c] = "reload"
    /\ payload' = [payload EXCEPT ![c] = file]
    /\ Goto(c, "init")
    /\ UNCHANGED <<memVars, target, index, slice, orderly>> /\ StepFrame

\* It loads what it has read, and InitProcesses; an empty list panics and the
\* API goroutine recovers.
ResetInits(c) ==
    /\ pc[c] = "init"
    /\ IF payload[c] = Torn THEN UNCHANGED <<arrays, list>> ELSE Load(payload[c])
    /\ InitProcesses
    /\ payload' = [payload EXCEPT ![c] = Null]
    /\ Goto(c, IF list'.array # 0 /\ list'.len = 0 THEN "failed" ELSE "exit")
    /\ UNCHANGED <<target, index, slice, orderly>> /\ StepFrame

\* os.Exit(0).
ResetExits(c) == pc[c] = "exit" /\ ProgramEnds

-----------------------------------------------------------------------------
(* SaveConfigs, and what follows it *)

\* Mutated form of SaveLocks: SaveConfigs without its mutex.
SaveLocksNot(c) ==
    /\ pc[c] = "lock"
    /\ Goto(c, "marshal")
    /\ UNCHANGED <<memVars, running, fileVars, op, target, index, slice, payload, histVars>>

SaveLocks(c) ==
    /\ pc[c] = "lock"
    /\ saveMutex = None
    /\ saveMutex' = c
    /\ Goto(c, "marshal")
    /\ UNCHANGED <<memVars, running, file, op, target, index, slice, payload, histVars>>

\* json.Marshal, and WriteFile truncates the file.
SaveMarshals(c) ==
    /\ pc[c] = "marshal"
    /\ payload' = [payload EXCEPT ![c] = Memory]
    /\ file' = Torn
    /\ Goto(c, "write")
    /\ UNCHANGED <<memVars, running, saveMutex, op, target, index, slice, histVars>>

\* WriteFile writes, and the mutex is released.
SaveWrites(c) ==
    /\ pc[c] = "write"
    /\ file' = payload[c]
    /\ saveMutex' = None
    /\ payload' = [payload EXCEPT ![c] = Null]
    /\ Goto(c, CASE op[c] = "add"   -> "register"
                 [] op[c] = "reset" -> "reload"
                 [] OTHER           -> "done")
    /\ expected' =
         CASE op[c] = "add"    -> expected \cup {DefaultConfig(target[c])}
           [] op[c] = "remove" -> {g \in expected : g.id # target[c]}
           [] op[c] = "update" -> {IF g.id = target[c] THEN NewConfig(c) ELSE g : g \in expected}
           [] OTHER            -> {DefaultConfig(1)}
    /\ UNCHANGED <<memVars, running, op, target, index, slice, orderly>>

\* InitNewProcess of an added process, which has a configuration of its own.
AddRegisters(c) ==
    /\ pc[c] = "register"
    /\ arrays' = Append(arrays, <<DefaultConfig(target[c])>>)
    /\ processes' = Append(processes,
                           [id |-> target[c], array |-> Len(arrays) + 1, slot |-> 1])
    /\ Goto(c, "done")
    /\ UNCHANGED <<list, target, index, slice, payload, orderly>> /\ StepFrame

-----------------------------------------------------------------------------
Begins(c) ==
    \/ AddProcess(c) \/ ResetConfigsToDefault(c)
    \/ \E x \in Ids : RemoveProcess(c, x) \/ UpdateProcConfig(c, x)

Adds(c) == AddTakesID(c) \/ AddReads(c) \/ AddAppends(c) \/ AddRegisters(c)
Removes(c) ==
    \/ RemoveLooksUp(c) \/ RemoveFinds(c) \/ RemoveUnlists(c)
    \/ RemoveSearches(c) \/ RemoveCuts(c)
Updates(c) == UpdateConfigures(c) \/ UpdateRestarts(c) \/ UpdateReplaces(c)
Resets(c) == ResetClears(c) \/ ResetReads(c) \/ ResetInits(c) \/ ResetExits(c)
Saves(c) == SaveLocks(c) \/ SaveMarshals(c) \/ SaveWrites(c)

Boots == Boot \/ BootDefaults \/ BootDies

Next ==
    \/ Boots
    \/ Crash
    \/ \E c \in Commands :
          Begins(c) \/ Adds(c) \/ Removes(c) \/ Updates(c) \/ Resets(c) \/ Saves(c)

Spec == Init /\ [][Next]_vars

-----------------------------------------------------------------------------
(* Properties *)

Slices == [array : Nat, len : Nat]
Pointers == [id : Ids, array : Nat \ {0}, slot : Nat \ {0}]
Operations == {"none", "add", "remove", "update", "reset"}
Locations ==
    {"ready", "newid", "header", "append", "lookup", "find", "unlist", "search", "cut",
     "configure", "restart", "replace", "clear", "lock", "marshal", "write",
     "register", "reload", "init", "exit", "done", "failed"}

\* A slice is nil, or an array holds a configuration at each of its indices.
IsFilled(a, l) ==
    \/ l = Nil
    \/ /\ l.array \in DOMAIN a
       /\ l.len <= Len(a[l.array])
       /\ \A i \in 1 .. l.len : a[l.array][i] \in Configs

\* The pointer of a process leads to a configuration.
IsPointer(a, p) ==
    /\ p.array \in DOMAIN a
    /\ p.slot \in DOMAIN a[p.array]
    /\ a[p.array][p.slot] \in Configs

\* Every variable has its type; and whatever commands shift, outgrow or overwrite
\* under each other, slices and pointers lead to configurations, never behind
\* the end of an array or to a slot nobody has written (integration.go:254-274).
TypeOK ==
    /\ arrays \in Seq(Seq(Configs \cup {None}))
    /\ list \in Slices
    /\ processes \in Seq(Pointers)
    /\ running \in BOOLEAN /\ orderly \in BOOLEAN
    /\ file \in Seq(Configs) \cup {Null, Torn, Absent}
    /\ saveMutex \in Commands \cup {None}
    /\ pc \in [Commands -> Locations]
    /\ op \in [Commands -> Operations]
    /\ target \in [Commands -> Ids]
    /\ index \in [Commands -> Nat]
    /\ slice \in [Commands -> Slices]
    /\ payload \in [Commands -> Seq(Configs) \cup {Null, Torn}]
    /\ expected \subseteq Configs
    /\ IsFilled(arrays, list) /\ \A c \in Commands : IsFilled(arrays, slice[c])
    /\ \A i \in DOMAIN processes : IsPointer(arrays, processes[i])

\* Nobody is at work, and no command has stopped half way.
Quiet == running /\ \A c \in Commands : pc[c] \in {"ready", "done"}

\* However commands interleave, and even where they overwrite each other's
\* changes in memory, a restart would load what processConfigs holds once the
\* last command has returned: the mutex spans Marshal and WriteFile, so the last
\* writer has seen every change (integration.go:155-172, 255-257, 264-280).
FileFollowsMemory == Quiet => Loaded(file) = Memory

\* When commands come one after the other and no crash hits the writing of the
\* file, the configurations are those the commands have asked for, each
\* once, whatever boots, crashes and aliased pointers come between
\* (integration.go:87-103, 239-281).
TableIsKept ==
    Quiet /\ orderly =>
        /\ Memory # Null
        /\ {Memory[i] : i \in DOMAIN Memory} = expected
        /\ \A i, j \in DOMAIN Memory : Memory[i].id = Memory[j].id => i = j

\* The same at any moment, also in the middle of a command: what a crash leaves behind
\* is the table of the commands that have saved, except while SaveConfigs is writing
\* (integration.go:155-172).
CrashKeepsTable ==
    orderly =>
        \/ file = Absent /\ expected = {DefaultConfig(1)}
        \/ file = Torn /\ \E c \in Commands : pc[c] = "write"
        \/ /\ file \notin {Absent, Torn, Null}
           /\ {file[i] : i \in DOMAIN file} = expected
           /\ \A i, j \in DOMAIN file : file[i].id = file[j].id => i = j

\* GetProcessByID returns the process that was made for the identifier
\* (integration.go:41-49).
LookupIsRight ==
    \A x \in Ids : \A i \in GetProcessByID(x) : processes[i].id = x
=============================================================================
