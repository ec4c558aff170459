------------------------- MODULE RegistryTableProofs -------------------------
(***************************************************************************)
(* Proof that commands one after the other do to processConfigs what they  *)
(* are asked for and nothing else, although append writes behind the       *)
(* slice, RemoveProcess shifts the array the processes point into, and     *)
(* Configure writes through such a pointer.                                *)
(***************************************************************************)
EXTENDS RegistryProofs, FiniteSetTheorems, WellFoundedInduction

Distinct(s) == \A i, j \in DOMAIN s : s[i].id = s[j].id => i = j

\* A list holds the configurations e, each once.
Agree(s, e) == s \in Seq(Configs) /\ {s[i] : i \in DOMAIN s} = e /\ Distinct(s)

-----------------------------------------------------------------------------
(* Lists of configurations *)

LEMMA LeastNatural ==
    ASSUME NEW S \in SUBSET Nat, S # {}
    PROVE  \E m \in S : \A n \in S : m <= n
<1>1. PICK m \in S : \A n \in S : ~ (<<n, m>> \in OpToRel(<, Nat))
  BY NatLessThanWellFounded, WFMin
<1>2. \A n \in S : ~ (n < m)
  BY <1>1 DEF OpToRel
<1> QED
  BY <1>2

\* The loop over a set of indices finds one if there is one.
LEMMA FirstFinds ==
    ASSUME NEW S \in SUBSET Nat, First(S) = {}
    PROVE  S = {}
  BY LeastNatural DEF First

LEMMA AgreeAppend ==
    ASSUME NEW s, NEW e, Agree(s, e), NEW x \in Configs,
           \A i \in DOMAIN s : s[i].id # x.id,
           NEW t \in Seq(Configs), Len(t) = Len(s) + 1,
           \A k \in 1 .. Len(s) : t[k] = s[k], t[Len(s) + 1] = x
    PROVE  Agree(t, e \cup {x})
<1>1. s \in Seq(Configs) /\ Len(s) \in Nat /\ DOMAIN s = 1 .. Len(s) /\ DOMAIN t = 1 .. Len(s) + 1
  BY DEF Agree
<1>2. {t[i] : i \in DOMAIN t} = e \cup {x}
  <2>1. \A i \in DOMAIN t : t[i] \in e \cup {x}
    BY <1>1 DEF Agree
  <2>2. \A g \in e : \E i \in DOMAIN t : t[i] = g
    BY <1>1 DEF Agree
  <2>3. \E i \in DOMAIN t : t[i] = x
    BY <1>1
  <2> QED
    BY <2>1, <2>2, <2>3
<1>3. Distinct(t)
  BY <1>1 DEF Agree, Distinct
<1> QED
  BY <1>2, <1>3 DEF Agree

LEMMA AgreeCut ==
    ASSUME NEW s, NEW e, Agree(s, e), NEW i \in DOMAIN s,
           NEW t \in Seq(Configs), Len(t) = Len(s) - 1,
           \A k \in 1 .. Len(t) : t[k] = IF i <= k THEN s[k + 1] ELSE s[k]
    PROVE  Agree(t, {g \in e : g.id # s[i].id})
<1>1. /\ s \in Seq(Configs) /\ Len(s) \in Nat
      /\ DOMAIN s = 1 .. Len(s) /\ DOMAIN t = 1 .. Len(s) - 1
      /\ \A k, j \in 1 .. Len(s) : s[k].id = s[j].id => k = j
      /\ \A k \in 1 .. Len(s) : s[k] \in e
      /\ \A g \in e : \E k \in 1 .. Len(s) : s[k] = g
  <2>1. s \in Seq(Configs) /\ Len(s) \in Nat /\ DOMAIN s = 1 .. Len(s)
    BY DEF Agree
  <2>2. DOMAIN t = 1 .. Len(s) - 1
    BY <2>1
  <2>3. \A k, j \in 1 .. Len(s) : s[k].id = s[j].id => k = j
    BY <2>1 DEF Agree, Distinct
  <2>4. \A k \in 1 .. Len(s) : s[k] \in e
    BY <2>1 DEF Agree
  <2>5. \A g \in e : \E k \in 1 .. Len(s) : s[k] = g
    BY <2>1 DEF Agree
  <2> QED
    BY <2>1, <2>2, <2>3, <2>4, <2>5
<1>2. ASSUME NEW k \in DOMAIN t PROVE t[k] \in {g \in e : g.id # s[i].id}
  <2>1. CASE i <= k
    <3>1. t[k] = s[k + 1] /\ k + 1 \in 1 .. Len(s) /\ k + 1 # i
      BY <1>1, <2>1
    <3> QED
      BY <1>1, <3>1
  <2>2. CASE ~(i <= k)
    <3>1. t[k] = s[k] /\ k \in 1 .. Len(s) /\ k # i
      BY <1>1, <2>2
    <3> QED
      BY <1>1, <3>1
  <2> QED
    BY <2>1, <2>2
<1>3. ASSUME NEW g \in e, g.id # s[i].id PROVE \E k \in DOMAIN t : t[k] = g
  <2>1. PICK j \in 1 .. Len(s) : s[j] = g
    BY <1>1
  <2>2. j # i
    BY <1>3, <2>1
  <2>0. i \in Nat /\ i <= Len(s) /\ j \in Nat /\ 1 <= j /\ j <= Len(s)
    BY <1>1
  <2>3. CASE j < i
    <3>1. j \in 1 .. Len(s) - 1 /\ ~(i <= j)
      BY <1>1, <2>0, <2>3
    <3> QED
      BY <1>1, <2>1, <3>1
  <2>4. CASE i < j
    <3>1. j - 1 \in 1 .. Len(s) - 1 /\ i <= j - 1 /\ (j - 1) + 1 = j
      BY <1>1, <2>0, <2>4
    <3>2. t[j - 1] = s[j]
      BY <1>1, <3>1
    <3> QED
      BY <1>1, <2>1, <3>1, <3>2
  <2> QED
    BY <2>0, <2>2, <2>3, <2>4
<1>4. Distinct(t)
  <2> SUFFICES ASSUME NEW k \in DOMAIN t, NEW j \in DOMAIN t, t[k].id = t[j].id
               PROVE  k = j
    BY DEF Distinct
  <2> DEFINE up(n) == IF i <= n THEN n + 1 ELSE n
  <2>1. /\ up(k) \in 1 .. Len(s) /\ up(j) \in 1 .. Len(s)
        /\ t[k] = s[up(k)] /\ t[j] = s[up(j)]
    BY <1>1
  <2>2. up(k) = up(j)
    BY <1>1, <2>1
  <2> QED
    BY <1>1, <2>2
<1>5. {t[k] : k \in DOMAIN t} = {g \in e : g.id # s[i].id}
  BY <1>2, <1>3
<1> QED
  BY <1>4, <1>5 DEF Agree

-----------------------------------------------------------------------------
(* The invariant of orderly commands *)

Renewed(c, g) == IF g.id = target[c] THEN NewConfig(c) ELSE g

\* The configurations there should be when the command c has saved.
Due(c) ==
    CASE op[c] = "add"    -> expected \cup {DefaultConfig(target[c])}
      [] op[c] = "remove" -> {g \in expected : g.id # target[c]}
      [] op[c] = "update" -> {Renewed(c, g) : g \in expected}
      [] OTHER            -> {DefaultConfig(1)}

AddAt == {"newid", "header", "append", "register"}
RemoveAt == {"lookup", "find", "unlist", "search", "cut"}
UpdateAt == {"configure", "restart", "replace"}
ResetAt == {"clear", "reload", "init", "exit"}

\* Where a command has changed nothing yet, or has saved its change.
UnchangedAt == AddAt \cup RemoveAt \cup {"configure"} \cup ResetAt

\* Configure has overwritten some of the configurations that are to be replaced.
HalfRenewed(c) ==
    /\ Memory \in Seq(Configs) /\ Distinct(Memory)
    /\ {Renewed(c, Memory[i]) : i \in DOMAIN Memory} = Due(c)

\* What a command that is alone relies on at its location.
Stage(c) ==
    /\ pc[c] \in AddAt => op[c] = "add"
    /\ pc[c] \in RemoveAt => op[c] = "remove"
    /\ pc[c] \in UpdateAt => op[c] = "update"
    /\ pc[c] \in ResetAt => op[c] = "reset"
    /\ pc[c] \in UnchangedAt => Agree(Memory, expected)
    /\ pc[c] \in {"header", "append"} => \A i \in DOMAIN Memory : Memory[i].id # target[c]
    /\ pc[c] \in {"append", "cut"} => slice[c] = list
    /\ pc[c] = "cut" => Memory[index[c]].id = target[c]
    /\ pc[c] \in {"restart", "replace"} => HalfRenewed(c)
    /\ pc[c] \in {"lock", "marshal", "write"} => Agree(Memory, Due(c))
    /\ pc[c] = "write" => payload[c] = Memory
    /\ pc[c] = "init" => Agree(payload[c], expected)

\* The file is always that of the last save, except while one is written.
FileKept ==
    \/ file = Absent /\ expected = {DefaultConfig(1)}
    \/ file = Torn /\ \E c \in Commands : pc[c] = "write"
    \/ Agree(file, expected)

Table ==
    /\ FileKept
    /\ running /\ Busy = {} => Agree(Memory, expected)
    /\ \A c, d \in Busy : c = d
    /\ \A c \in Commands : Stage(c)

TableInv == orderly => Table

Resting == {"ready", "done", "failed"}

\* A step of the only command at work.
LEMMA AloneStep ==
    ASSUME MemInv, Table, UNCHANGED running,
           NEW c \in Commands, pc[c] \notin Resting, NEW x, pc' = [pc EXCEPT ![c] = x],
           FileKept', Stage(c)', x \in Resting => Agree(Memory', expected')
    PROVE  Table'
<1>1. pc'[c] = x /\ \A d \in Commands \ {c} : pc'[d] = pc[d]
  BY DEF MemInv, Scalars
<1>2. \A d \in Commands \ {c} : pc[d] \in Resting
  BY DEF Table, Busy, Resting
<1>3. ASSUME NEW d \in Commands \ {c} PROVE Stage(d)'
  BY <1>1, <1>2, <1>3 DEF Resting, Stage, AddAt, RemoveAt, UpdateAt, ResetAt, UnchangedAt
<1>4. Busy' \subseteq {c} /\ (x \notin Resting => c \in Busy')
  BY <1>1, <1>2 DEF Busy, Resting
<1> QED
  BY <1>3, <1>4 DEF Table

\* The same when it leaves the file, what there should be, and memory alone.
LEMMA ReadingStep ==
    ASSUME MemInv, Table, UNCHANGED <<running, file, expected, op>>, Memory' = Memory,
           NEW c \in Commands, pc[c] \notin Resting \cup {"write"},
           NEW x, pc' = [pc EXCEPT ![c] = x],
           Stage(c)', x \in Resting => Agree(Memory, expected)
    PROVE  Table'
<1>1. \A d \in Commands : pc[d] # "write"
  BY DEF Table, Busy, Resting
<1>2. FileKept'
  BY <1>1 DEF Table, FileKept
<1> QED
  BY <1>2, AloneStep

LEMMA DefaultAgrees ==
    /\ <<DefaultConfig(1)>> \in Seq(Configs)
    /\ Agree(<<DefaultConfig(1)>>, {DefaultConfig(1)})
<1>1. DefaultConfig(1) \in Configs
  BY IdsAssumption DEF DefaultConfig, Configs
<1> QED
  BY <1>1 DEF Agree, Distinct

-----------------------------------------------------------------------------
(* The steps *)

LEMMA InitTable == ASSUME Init PROVE Table
<1>1. FileKept
  <2>1. ASSUME NEW n \in BootSizes, file = BootConfigs(n) PROVE Agree(file, expected)
    <3>1. n \in Nat /\ \A i \in 1 .. n : [id |-> i, rev |-> "boot"] \in Configs
      BY IdsAssumption DEF Configs
    <3>2. file \in [1 .. n -> Configs] /\ file = [i \in 1 .. n |-> [id |-> i, rev |-> "boot"]]
      BY <2>1, <3>1 DEF BootConfigs
    <3>3. file \in Seq(Configs) /\ DOMAIN file = 1 .. n
      BY <3>1, <3>2
    <3>4. file # Absent
      BY <3>3, FileAssumption
    <3>5. expected = {file[i] : i \in DOMAIN file}
      BY <3>4 DEF Init
    <3>6. Distinct(file)
      BY <3>2 DEF Distinct
    <3> QED
      BY <3>3, <3>5, <3>6 DEF Agree
  <2>2. file = Absent => expected = {DefaultConfig(1)}
    BY DEF Init
  <2> QED
    BY <2>1, <2>2 DEF Init, FileKept
<1> QED
  BY <1>1 DEF Init, Table, Busy, Stage, AddAt, RemoveAt, UpdateAt, ResetAt, UnchangedAt

LEMMA BootsTable == ASSUME MemInv, TableInv, Boots, orderly' PROVE Table'
<1>1. \A c \in Commands : pc[c] \in {"ready", "done"}
  BY DEF MemInv, Alive, Boots, Boot, BootDefaults, BootDies
<1>2. UNCHANGED <<pc, expected>>
  BY DEF Boots, Boot, BootDefaults, BootDies, cmdVars, histVars
<1>3. /\ orderly
      /\ \/ file = Absent /\ expected = {DefaultConfig(1)}
         \/ Agree(file, expected)
  BY <1>1 DEF TableInv, Table, FileKept, Boots, Boot, BootDefaults, BootDies, histVars
<1>4. ASSUME FileKept', Agree(Memory', expected') PROVE Table'
  BY <1>1, <1>2, <1>4 DEF Table, Busy, Stage, AddAt, RemoveAt, UpdateAt, ResetAt, UnchangedAt
<1>5. CASE Boot
  <2>1. Agree(file, expected) /\ file \in Seq(Configs) /\ file # Torn
    BY <1>3, <1>5, FileAssumption DEF Boot, Agree
  <2>2. Load(file) /\ UNCHANGED file
    BY <1>5, <2>1 DEF Boot, Loaded, fileVars
  <2>3. Memory' = file
    BY <2>1, <2>2, LoadLoads DEF Memory, MemInv, Pointed
  <2> QED
    BY <1>2, <1>4, <2>1, <2>2, <2>3 DEF FileKept
<1>6. CASE BootDefaults
  <2>1. expected = {DefaultConfig(1)}
    BY <1>3, <1>6, FileAssumption DEF BootDefaults, Agree
  <2>2. Memory' = <<DefaultConfig(1)>>
    BY <1>6, DefaultAgrees, LoadLoads DEF BootDefaults, Memory, MemInv, Pointed
  <2>3. file' = <<DefaultConfig(1)>>
    BY <1>6 DEF BootDefaults
  <2> QED
    BY <1>2, <1>4, <2>1, <2>2, <2>3, DefaultAgrees DEF FileKept
<1>7. CASE BootDies
  BY <1>7 DEF BootDies
<1> QED
  BY <1>5, <1>6, <1>7 DEF Boots

\* A crash that does not hit the writing leaves the file of the last save.
LEMMA EndTable == ASSUME MemInv, TableInv, ProgramEnds, orderly' PROVE Table'
<1>1. orderly /\ file # Torn /\ UNCHANGED <<file, expected>> /\ ~running'
  BY DEF ProgramEnds
<1>2. FileKept'
  BY <1>1 DEF TableInv, Table, FileKept
<1>3. \A c \in Commands : pc'[c] \in {"ready", "done"}
  BY DEF ProgramEnds
<1> QED
  BY <1>1, <1>2, <1>3 DEF Table, Busy, Stage, AddAt, RemoveAt, UpdateAt, ResetAt, UnchangedAt

LEMMA BeginsTable ==
    ASSUME MemInv, TableInv, NEW c \in Commands, Begins(c), orderly'
    PROVE  Table'
<1>1. PICK o \in Operations, x \in Ids, l \in Locations :
         /\ Begin(c, o, x, l)
         /\ \/ o = "add" /\ l = "newid"
            \/ o = "reset" /\ l = "clear"
            \/ o = "remove" /\ l = "lookup"
            \/ o = "update" /\ l = "configure"
  BY IdsAssumption DEF Begins, AddProcess, ResetConfigsToDefault, RemoveProcess, UpdateProcConfig,
     Operations, Locations
<1>2. /\ running /\ orderly /\ Busy = {} /\ Memory' = Memory
      /\ UNCHANGED <<file, expected, running>>
      /\ pc' = [pc EXCEPT ![c] = l] /\ op' = [op EXCEPT ![c] = o]
  BY <1>1 DEF Begin, Goto, Memory, memVars, fileVars
<1>3. pc'[c] = l /\ op'[c] = o /\ \A d \in Commands \ {c} : pc'[d] = pc[d]
  BY <1>2 DEF MemInv, Scalars
<1>4. Agree(Memory', expected') /\ FileKept'
  BY <1>2 DEF TableInv, Table, FileKept, Busy
<1>5. \A d \in Commands \ {c} : pc'[d] \in Resting
  BY <1>2, <1>3 DEF Busy, Resting
<1>6. Stage(c)'
  BY <1>1, <1>3, <1>4 DEF Stage, AddAt, RemoveAt, UpdateAt, ResetAt, UnchangedAt
<1>7. \A d \in Commands \ {c} : Stage(d)'
  BY <1>5 DEF Resting, Stage, AddAt, RemoveAt, UpdateAt, ResetAt, UnchangedAt
<1>8. Busy' = {c}
  BY <1>1, <1>3, <1>5 DEF Busy, Resting
<1> QED
  BY <1>4, <1>6, <1>7, <1>8 DEF Table

LEMMA MemoryAt ==
    ASSUME MemInv, Memory \in Seq(Configs)
    PROVE  /\ list.array \in DOMAIN arrays /\ list.array # 0 /\ list # Nil
           /\ list.len \in Nat /\ list.len <= Len(arrays[list.array])
           /\ DOMAIN Memory = 1 .. list.len /\ Len(Memory) = list.len
           /\ \A i \in 1 .. list.len : Memory[i] = arrays[list.array][i]
<1>1. list.array # 0
  BY FileAssumption DEF Memory, Contents
<1>2. list # Nil /\ list.len \in Nat
  BY <1>1 DEF Nil, MemInv, Pointed, Slices
<1>3. Memory = [i \in 1 .. list.len |-> arrays[list.array][i]]
  BY <1>1 DEF Memory, Contents
<1>4. DOMAIN Memory = 1 .. list.len /\ Len(Memory) = list.len
  BY <1>2, <1>3
<1> QED
  BY <1>1, <1>2, <1>3, <1>4 DEF MemInv, Pointed, IsFilled

\* GetNewID is larger than every identifier in processConfigs.
LEMMA NewIDIsLarger ==
    ASSUME MemInv, Memory \in Seq(Configs)
    PROVE  \A i \in DOMAIN Memory : Memory[i].id < GetNewID
<1> DEFINE n == Cardinality(Ids)
           IsNew(m) ==
               /\ \A i \in 1 .. list.len : arrays[list.array][i].id < m
               /\ m = 1 \/ \E i \in 1 .. list.len : arrays[list.array][i].id = m - 1
           Above == {m \in Nat : \A i \in 1 .. list.len : arrays[list.array][i].id < m}
<1>1. n \in Nat /\ Ids = 1 .. n
  BY IdsAssumption, FS_CardinalityType
<1>2. \A i \in 1 .. list.len : arrays[list.array][i].id \in 1 .. n
  <2>1. \A i \in 1 .. list.len : Memory[i] \in Configs
    BY MemoryAt
  <2> QED
    BY <1>1, <2>1, MemoryAt DEF Configs
<1>3. n + 1 \in Above
  BY <1>1, <1>2
<1>4. PICK m \in Above : \A k \in Above : m <= k
  BY <1>3, LeastNatural
<1>5. \E k \in Ids \cup {1 + n} : IsNew(k)
  <2>1. CASE m = 0
    <3>1. 1 .. list.len = {}
      BY <1>2, <1>4, <2>1
    <3>2. IsNew(1)
      BY <3>1
    <3> QED
      BY <3>2, IdsAssumption
  <2>2. CASE m # 0
    <3>1. m - 1 \in Nat /\ m - 1 \notin Above
      BY <1>4, <2>2
    <3>2. PICK i \in 1 .. list.len : ~(arrays[list.array][i].id < m - 1)
      BY <3>1
    <3>3. arrays[list.array][i].id = m - 1
      <4>1. arrays[list.array][i].id \in Nat /\ arrays[list.array][i].id < m /\ m \in Nat
        BY <1>1, <1>2, <1>4
      <4> QED
        BY <3>1, <3>2, <4>1
    <3>4. m \in Ids \cup {1 + n}
      BY <1>1, <1>2, <3>3
    <3>5. IsNew(m)
      BY <1>4, <3>3
    <3> QED
      BY <3>4, <3>5
  <2> QED
    BY <2>1, <2>2
<1>6. IsNew(GetNewID)
  <2> HIDE DEF IsNew, n
  <2>1. GetNewID = CHOOSE k \in Ids \cup {1 + n} : IsNew(k)
    BY DEF GetNewID, IsNew, n
  <2> QED
    BY <1>5, <2>1
<1> QED
  BY <1>6, MemoryAt

\* What append leaves in memory, in the array of its slice or in a new one.
LEMMA Appended ==
    ASSUME MemInv, Memory \in Seq(Configs), NEW c \in Commands, slice[c] = list, AddAppends(c)
    PROVE  /\ Memory' \in Seq(Configs) /\ Len(Memory') = Len(Memory) + 1
           /\ \A k \in 1 .. Len(Memory) : Memory'[k] = Memory[k]
           /\ Memory'[Len(Memory) + 1] = DefaultConfig(target[c])
<1> DEFINE x == DefaultConfig(target[c])
<1>1. x \in Configs
  BY DEF MemInv, Scalars, DefaultConfig, Configs
<1>2. CASE HasRoom(list)
  <2>1. /\ arrays' = [arrays EXCEPT ![list.array][list.len + 1] = x]
        /\ list' = [list EXCEPT !.len = @ + 1]
    BY <1>2 DEF AddAppends
  <2>2. list'.array = list.array /\ list'.len = list.len + 1
    BY <2>1 DEF MemInv, Pointed, Slices
  <2>3. list.array \in DOMAIN arrays /\ list.len + 1 \in DOMAIN arrays[list.array]
    BY <1>2, MemoryAt DEF HasRoom, MemInv, Pointed, Heap
  <2>4. arrays'[list.array] = [arrays[list.array] EXCEPT ![list.len + 1] = x]
    BY <2>1, <2>3
  <2>5. /\ \A k \in 1 .. list.len : arrays'[list.array][k] = Memory[k]
        /\ arrays'[list.array][list.len + 1] = x
    BY <2>3, <2>4, MemoryAt DEF MemInv, Pointed, Heap
  <2>6. Memory' = [k \in 1 .. list.len + 1 |-> arrays'[list.array][k]]
    BY <2>2, MemoryAt DEF Memory, Contents
  <2>7. \A k \in 1 .. list.len + 1 : arrays'[list.array][k] \in Configs
    BY <1>1, <2>5, MemoryAt
  <2>8. Memory' \in [1 .. list.len + 1 -> Configs] /\ list.len + 1 \in Nat
    BY <2>6, <2>7, MemoryAt
  <2>9. Memory' \in Seq(Configs) /\ Len(Memory') = list.len + 1
    BY <2>8
  <2>10. \A k \in 1 .. list.len + 1 : Memory'[k] = arrays'[list.array][k]
    BY <2>6
  <2>11. list.len \in Nat /\ Len(Memory) = list.len
    BY MemoryAt
  <2> QED
    BY <2>5, <2>9, <2>10, <2>11
<1>3. CASE ~HasRoom(list)
  <2> DEFINE s == Append(Memory, x)
             b == Append(arrays, ArrayOf(s, 2 * list.len))
             m == [array |-> Len(arrays) + 1, len |-> Len(s)]
  <2>1. s \in Seq(Configs) /\ Len(s) = list.len + 1 /\ 2 * list.len \in Nat
    BY <1>1, MemoryAt
  <2>2. arrays' = b /\ list' = m
    BY <1>3, <2>1, MemoryAt DEF AddAppends, Memory
  <2>3. Contents(b, m) = s
    <3> HIDE DEF s
    <3> QED
      BY <2>1, NewSlice DEF MemInv, Pointed
  <2>4. Memory' = s
    BY <2>2, <2>3 DEF Memory
  <2> QED
    BY <1>1, <2>4, MemoryAt
<1> QED
  BY <1>2, <1>3

\* A process that is added gets an array of its own.
LEMMA RegisterKeepsMemory ==
    ASSUME MemInv, NEW c \in Commands, AddRegisters(c)
    PROVE  Memory' = Memory
<1>1. list.array = 0 \/ list.array \in DOMAIN arrays
  BY DEF MemInv, Pointed, IsFilled, Nil
<1>2. <<DefaultConfig(target[c])>> \in Seq(Configs \cup {None})
  BY DEF MemInv, Scalars, DefaultConfig, Configs
<1>3. list.array # 0 => arrays'[list.array] = arrays[list.array]
  BY <1>1, <1>2 DEF AddRegisters, MemInv, Pointed, Heap
<1> QED
  BY <1>3 DEF AddRegisters, Memory, Contents

\* A step that changes the array and moves on to the save, which owes Due.
LEMMA OwingStep ==
    ASSUME MemInv, Table, NEW c \in Commands, pc[c] \in UnchangedAt \cup UpdateAt,
           NEW x \in {"lock", "restart"}, pc' = [pc EXCEPT ![c] = x],
           UNCHANGED <<running, file, expected, op, target>>,
           x = "lock" => Agree(Memory', Due(c)),
           x = "restart" => op[c] = "update" /\ HalfRenewed(c)'
    PROVE  Table'
<1>1. \A d \in Commands : pc[d] # "write"
  BY DEF Table, Busy, UnchangedAt, AddAt, RemoveAt, UpdateAt, ResetAt
<1>2. FileKept'
  BY <1>1 DEF Table, FileKept
<1>3. pc'[c] = x
  BY DEF MemInv, Scalars
<1>4. Due(c)' = Due(c)
  BY DEF Due, Renewed, NewConfig
<1>5. Stage(c)'
  BY <1>3, <1>4 DEF Stage, UnchangedAt, AddAt, RemoveAt, UpdateAt, ResetAt
<1> QED
  BY <1>2, <1>5, AloneStep DEF Resting, UnchangedAt, AddAt, RemoveAt, UpdateAt, ResetAt

LEMMA AddsTable ==
    ASSUME MemInv, Table, NEW c \in Commands, Adds(c)
    PROVE  Table'
<1>1. Stage(c) /\ op[c] = "add" /\ Agree(Memory, expected) /\ pc[c] \in AddAt
  BY DEF Adds, AddTakesID, AddReads, AddAppends, AddRegisters, Table, Stage, UnchangedAt, AddAt
<1>2. UNCHANGED <<running, file, expected, op>>
  BY DEF Adds, AddTakesID, AddReads, AddAppends, AddRegisters, StepFrame, fileVars
<1>3. CASE AddTakesID(c)
  <2>1. Memory' = Memory /\ pc' = [pc EXCEPT ![c] = "header"] /\ pc'[c] = "header"
    BY <1>3 DEF AddTakesID, Goto, Memory, memVars, MemInv, Scalars
  <2>2. target'[c] = GetNewID
    BY <1>3 DEF AddTakesID, MemInv, Scalars
  <2>3. \A i \in DOMAIN Memory : Memory[i].id # GetNewID
    <3>1. \A i \in DOMAIN Memory : Memory[i].id < GetNewID
      BY <1>1, NewIDIsLarger DEF Agree
    <3>2. \A i \in DOMAIN Memory : Memory[i].id \in Ids
      <4>1. Memory \in Seq(Configs)
        BY <1>1 DEF Agree
      <4>2. \A i \in DOMAIN Memory : Memory[i] \in Configs
        BY <4>1
      <4> QED
        BY <4>2 DEF Configs
    <3>3. \A i \in DOMAIN Memory : Memory[i].id \in Nat
      BY <3>2, IdsAssumption
    <3> QED
      BY <3>1, <3>3
  <2>4. Stage(c)'
    BY <1>1, <1>2, <2>1, <2>2, <2>3 DEF Stage, UnchangedAt, AddAt, RemoveAt, UpdateAt, ResetAt
  <2> QED
    BY <1>1, <1>2, <2>1, <2>4, ReadingStep DEF Resting, AddAt
<1>4. CASE AddReads(c)
  <2>1. Memory' = Memory /\ pc' = [pc EXCEPT ![c] = "append"] /\ pc'[c] = "append"
    BY <1>4 DEF AddReads, Goto, Memory, memVars, MemInv, Scalars
  <2>2. slice'[c] = list /\ list' = list /\ target' = target
    BY <1>4 DEF AddReads, memVars, MemInv, Pointed
  <2>3. \A i \in DOMAIN Memory : Memory[i].id # target[c]
    BY <1>1, <1>4 DEF Stage, AddReads
  <2>4. Stage(c)'
    BY <1>1, <1>2, <2>1, <2>2, <2>3 DEF Stage, UnchangedAt, AddAt, RemoveAt, UpdateAt, ResetAt
  <2> QED
    BY <1>1, <1>2, <2>1, <2>4, ReadingStep DEF Resting, AddAt
<1>5. CASE AddAppends(c)
  <2>1. Memory \in Seq(Configs) /\ slice[c] = list /\ \A i \in DOMAIN Memory : Memory[i].id # target[c]
    BY <1>1, <1>5 DEF Stage, Agree, AddAppends
  <2>2. DefaultConfig(target[c]) \in Configs /\ DefaultConfig(target[c]).id = target[c]
    BY DEF MemInv, Scalars, DefaultConfig, Configs
  <2>3. Agree(Memory', expected \cup {DefaultConfig(target[c])})
    BY <1>1, <1>5, <2>1, <2>2, Appended, AgreeAppend
  <2>4. Agree(Memory', Due(c))
    BY <1>1, <2>3 DEF Due
  <2> QED
    BY <1>1, <1>2, <1>5, <2>4, OwingStep DEF AddAppends, Goto, UnchangedAt
<1>6. CASE AddRegisters(c)
  <2>1. pc' = [pc EXCEPT ![c] = "done"] /\ pc'[c] = "done"
    BY <1>6 DEF AddRegisters, Goto, MemInv, Scalars
  <2>2. Stage(c)'
    BY <2>1 DEF Stage, UnchangedAt, AddAt, RemoveAt, UpdateAt, ResetAt
  <2> QED
    BY <1>1, <1>2, <1>6, <2>1, <2>2, RegisterKeepsMemory, ReadingStep DEF Resting, AddAt
<1> QED
  BY <1>3, <1>4, <1>5, <1>6 DEF Adds

\* What is left in memory after RemoveCuts, read through the shifted array.
LEMMA CutOut ==
    ASSUME MemInv, Memory \in Seq(Configs), NEW c \in Commands, slice[c] = list, RemoveCuts(c)
    PROVE  /\ index[c] \in DOMAIN Memory
           /\ Memory' \in Seq(Configs) /\ Len(Memory') = Len(Memory) - 1
           /\ \A k \in 1 .. Len(Memory') :
                 Memory'[k] = IF index[c] <= k THEN Memory[k + 1] ELSE Memory[k]
<1> DEFINE i == index[c]
           n == list.len
           old == arrays[list.array]
<1>1. i \in 1 .. n /\ n \in Nat /\ n <= Len(old) /\ list.array \in DOMAIN arrays /\ list.array # 0
  BY MemoryAt DEF RemoveCuts, MemInv, CutReady
<1>2. arrays' = [arrays EXCEPT ![list.array] = Cut(old, i, n)]
  BY DEF RemoveCuts
<1>3. list'.array = list.array /\ list'.len = n - 1
  BY DEF RemoveCuts, MemInv, Pointed, Slices
<1>4. arrays'[list.array] = Cut(old, i, n)
  BY <1>1, <1>2 DEF MemInv, Pointed, Heap
<1>5. DOMAIN old = 1 .. Len(old) /\ Len(old) \in Nat
  BY <1>1 DEF MemInv, Pointed, Heap
<1>6. \A k \in 1 .. n - 1 : arrays'[list.array][k] = IF i <= k THEN old[k + 1] ELSE old[k]
  BY <1>1, <1>4, <1>5 DEF Cut
<1>7. \A k \in 1 .. n - 1 :
         arrays'[list.array][k] = IF i <= k THEN Memory[k + 1] ELSE Memory[k]
  <2>1. \A k \in 1 .. n : Memory[k] = old[k]
    BY MemoryAt
  <2> QED
    BY <1>1, <1>6, <2>1
<1>8. Memory' = [k \in 1 .. n - 1 |-> arrays'[list.array][k]]
  BY <1>1, <1>3 DEF Memory, Contents
<1>9. \A k \in 1 .. n - 1 : arrays'[list.array][k] \in Configs
  <2>1. \A k \in 1 .. n : Memory[k] \in Configs
    BY MemoryAt
  <2> QED
    BY <1>1, <1>7, <2>1
<1>10. Memory' \in Seq(Configs) /\ Len(Memory') = n - 1
  <2>1. Memory' \in [1 .. n - 1 -> Configs] /\ n - 1 \in Nat
    BY <1>1, <1>8, <1>9
  <2> QED
    BY <2>1
<1>11. \A k \in 1 .. n - 1 : Memory'[k] = arrays'[list.array][k]
  BY <1>8
<1> QED
  BY <1>1, <1>7, <1>10, <1>11, MemoryAt

\* A look-up that finds no configuration of an identifier: there is none.
LEMMA NoneFound ==
    ASSUME MemInv, Memory \in Seq(Configs), NEW x, ConfigIndex(x) = {}
    PROVE  \A i \in DOMAIN Memory : Memory[i].id # x
<1>1. {i \in 1 .. list.len : arrays[list.array][i].id = x} = {}
  <2>1. {i \in 1 .. list.len : arrays[list.array][i].id = x} \in SUBSET Nat
    BY MemoryAt
  <2> QED
    BY <2>1, FirstFinds DEF ConfigIndex
<1> QED
  BY <1>1, MemoryAt

LEMMA RemovesTable ==
    ASSUME MemInv, Table, NEW c \in Commands, Removes(c)
    PROVE  Table'
<1>1. Stage(c) /\ op[c] = "remove" /\ Agree(Memory, expected) /\ pc[c] \in RemoveAt
  BY DEF Removes, RemoveLooksUp, RemoveFinds, RemoveUnlists, RemoveSearches, RemoveCuts, Table, Stage,
     UnchangedAt, RemoveAt
<1>2. UNCHANGED <<running, file, expected, op, target>>
  BY DEF Removes, RemoveLooksUp, RemoveFinds, RemoveUnlists, RemoveSearches, RemoveCuts, StepFrame,
     fileVars
<1>3. Memory \in Seq(Configs)
  BY <1>1 DEF Agree
<1>4. ASSUME Memory' = Memory, NEW x \in {"done", "find", "unlist", "search"},
             pc' = [pc EXCEPT ![c] = x]
      PROVE  Table'
  <2>1. pc'[c] = x
    BY <1>4 DEF MemInv, Scalars
  <2>2. Stage(c)'
    BY <1>1, <1>2, <1>4, <2>1 DEF Stage, UnchangedAt, AddAt, RemoveAt, UpdateAt, ResetAt
  <2> QED
    BY <1>1, <1>2, <1>4, <2>2, ReadingStep DEF Resting, RemoveAt
<1>5. CASE RemoveLooksUp(c)
  BY <1>4, <1>5 DEF RemoveLooksUp, Goto, Memory, memVars
<1>6. CASE RemoveFinds(c)
  BY <1>4, <1>6 DEF RemoveFinds, Goto, Memory, memVars
<1>7. CASE RemoveUnlists(c)
  BY <1>4, <1>7 DEF RemoveUnlists, Goto, Memory
<1>8. CASE RemoveSearches(c)
  <2>1. Memory' = Memory /\ slice'[c] = list /\ list' = list
    BY <1>8 DEF RemoveSearches, Memory, memVars, MemInv, Pointed
  <2>2. CASE ConfigIndex(target[c]) = {}
    <3>1. pc' = [pc EXCEPT ![c] = "lock"]
      BY <1>8, <2>2 DEF RemoveSearches, Goto
    <3>2. Agree(Memory, {g \in expected : g.id # target[c]})
      <4>1. \A i \in DOMAIN Memory : Memory[i].id # target[c]
        BY <1>3, <2>2, NoneFound
      <4>2. \A g \in expected : g.id # target[c]
        BY <1>1, <4>1 DEF Agree
      <4>3. {g \in expected : g.id # target[c]} = expected
        BY <4>2
      <4> QED
        BY <1>1, <4>3
    <3>3. Agree(Memory', Due(c))
      BY <1>1, <2>1, <3>2 DEF Due
    <3> QED
      BY <1>1, <1>2, <3>1, <3>3, OwingStep DEF UnchangedAt
  <2>3. CASE ConfigIndex(target[c]) # {}
    <3>1. PICK i \in ConfigIndex(target[c]) :
             pc' = [pc EXCEPT ![c] = "cut"] /\ index' = [index EXCEPT ![c] = i]
      BY <1>8, <2>3 DEF RemoveSearches, Goto
    <3>2. pc'[c] = "cut" /\ index'[c] = i
      BY <3>1 DEF MemInv, Scalars
    <3>3. Memory[i].id = target[c]
      BY <1>3, MemoryAt DEF ConfigIndex, First
    <3>4. Stage(c)'
      BY <1>1, <1>2, <2>1, <3>2, <3>3
         DEF Stage, UnchangedAt, AddAt, RemoveAt, UpdateAt, ResetAt
    <3> QED
      BY <1>1, <1>2, <2>1, <3>1, <3>4, ReadingStep DEF Resting, RemoveAt
  <2> QED
    BY <2>2, <2>3
<1>9. CASE RemoveCuts(c)
  <2>1. slice[c] = list /\ Memory[index[c]].id = target[c]
    BY <1>1, <1>9 DEF RemoveCuts, Stage
  <2>2. Agree(Memory', {g \in expected : g.id # target[c]})
    BY <1>1, <1>3, <1>9, <2>1, CutOut, AgreeCut
  <2>3. Agree(Memory', Due(c))
    BY <1>1, <2>2 DEF Due
  <2> QED
    BY <1>1, <1>2, <1>9, <2>3, OwingStep DEF RemoveCuts, Goto, UnchangedAt
<1> QED
  BY <1>5, <1>6, <1>7, <1>8, <1>9 DEF Removes

\* Configure writes through the pointer of a process whose configuration has the
\* identifier, wherever in the arrays that is by now.
LEMMA Configured ==
    ASSUME MemInv, Memory \in Seq(Configs), NEW c \in Commands,
           NEW i \in GetProcessByID(target[c]), UNCHANGED list,
           arrays' = [arrays EXCEPT ![processes[i].array][processes[i].slot] = NewConfig(c)]
    PROVE  /\ Memory' \in Seq(Configs) /\ Len(Memory') = Len(Memory)
           /\ \A k \in 1 .. Len(Memory) :
                 \/ Memory'[k] = Memory[k]
                 \/ Memory[k].id = target[c] /\ Memory'[k] = NewConfig(c)
<1> DEFINE a == processes[i].array
           n == processes[i].slot
<1>1. i \in DOMAIN processes /\ arrays[a][n].id = target[c]
  BY DEF GetProcessByID, First, ConfigOf
<1>2. a \in DOMAIN arrays /\ n \in DOMAIN arrays[a] /\ arrays \in Heap
  BY <1>1 DEF MemInv, Pointed, IsPointer
<1>3. NewConfig(c) \in Configs
  BY DEF MemInv, Scalars, NewConfig, Configs
<1>4. arrays'[list.array] = IF list.array = a THEN [arrays[a] EXCEPT ![n] = NewConfig(c)]
                                             ELSE arrays[list.array]
  BY <1>2, MemoryAt
<1>5. \A k \in 1 .. list.len : k \in DOMAIN arrays[list.array]
  BY <1>2, MemoryAt DEF Heap
<1>6. \A k \in 1 .. list.len :
         \/ arrays'[list.array][k] = Memory[k]
         \/ Memory[k].id = target[c] /\ arrays'[list.array][k] = NewConfig(c)
  BY <1>1, <1>4, <1>5, MemoryAt
<1>7. \A k \in 1 .. list.len : arrays'[list.array][k] \in Configs
  <2>1. \A k \in 1 .. list.len : Memory[k] \in Configs
    BY MemoryAt
  <2> QED
    BY <1>3, <1>6, <2>1
<1>8. Memory' = [k \in 1 .. list.len |-> arrays'[list.array][k]]
  BY MemoryAt DEF Memory, Contents
<1>9. Memory' \in Seq(Configs) /\ Len(Memory') = list.len
  <2>1. Memory' \in [1 .. list.len -> Configs] /\ list.len \in Nat
    BY <1>7, <1>8, MemoryAt
  <2> QED
    BY <2>1
<1>10. \A k \in 1 .. list.len : Memory'[k] = arrays'[list.array][k]
  BY <1>8
<1> QED
  BY <1>6, <1>9, <1>10, MemoryAt

LEMMA Replaced ==
    ASSUME MemInv, Memory \in Seq(Configs), NEW c \in Commands,
           NEW i \in ConfigIndex(target[c]), UNCHANGED list,
           arrays' = [arrays EXCEPT ![list.array][i] = NewConfig(c)]
    PROVE  /\ i \in DOMAIN Memory /\ Memory[i].id = target[c]
           /\ Memory' = [Memory EXCEPT ![i] = NewConfig(c)]
           /\ Memory' \in Seq(Configs)
<1>1. i \in 1 .. list.len /\ arrays[list.array][i].id = target[c]
  BY DEF ConfigIndex, First
<1>2. arrays'[list.array] = [arrays[list.array] EXCEPT ![i] = NewConfig(c)]
  BY MemoryAt
<1>3. \A k \in 1 .. list.len : k \in DOMAIN arrays[list.array]
  BY MemoryAt DEF MemInv, Pointed, Heap
<1>4. \A k \in 1 .. list.len :
         arrays'[list.array][k] = IF k = i THEN NewConfig(c) ELSE Memory[k]
  BY <1>1, <1>2, <1>3, MemoryAt
<1>5. Memory' = [k \in 1 .. list.len |-> arrays'[list.array][k]]
  BY MemoryAt DEF Memory, Contents
<1>6. Memory' = [k \in 1 .. list.len |-> IF k = i THEN NewConfig(c) ELSE Memory[k]]
  BY <1>4, <1>5
<1>7. Memory' = [Memory EXCEPT ![i] = NewConfig(c)]
  BY <1>1, <1>6, MemoryAt
<1>8. NewConfig(c) \in Configs
  BY DEF MemInv, Scalars, NewConfig, Configs
<1> QED
  BY <1>1, <1>7, <1>8, MemoryAt

LEMMA UpdatesTable ==
    ASSUME MemInv, Table, NEW c \in Commands, Updates(c), orderly'
    PROVE  Table'
<1>1. Stage(c) /\ op[c] = "update" /\ pc[c] \in UpdateAt
  BY DEF Updates, UpdateConfigures, UpdateRestarts, UpdateReplaces, Table, Stage, UpdateAt
<1>2. UNCHANGED <<running, file, expected, op, target>>
  BY DEF Updates, UpdateConfigures, UpdateRestarts, UpdateReplaces, StepFrame, fileVars
<1>3. NewConfig(c) \in Configs /\ NewConfig(c).id = target[c]
  BY DEF MemInv, Scalars, NewConfig, Configs
<1>4. Due(c) = {Renewed(c, g) : g \in expected} /\ Due(c)' = Due(c)
  BY <1>1, <1>2 DEF Due, Renewed, NewConfig
<1>5. CASE UpdateConfigures(c)
  <2>1. Agree(Memory, expected) /\ Memory \in Seq(Configs) /\ Distinct(Memory)
    BY <1>1, <1>5 DEF UpdateConfigures, Stage, UnchangedAt, Agree
  <2>2. CASE Goto(c, "done") /\ UNCHANGED arrays
    <3>1. Memory' = Memory /\ pc' = [pc EXCEPT ![c] = "done"] /\ pc'[c] = "done"
      BY <1>5, <2>2 DEF UpdateConfigures, Goto, Memory, MemInv, Scalars
    <3>2. Stage(c)'
      BY <3>1 DEF Stage, UnchangedAt, AddAt, RemoveAt, UpdateAt, ResetAt
    <3> QED
      BY <1>1, <1>2, <2>1, <3>1, <3>2, ReadingStep DEF Resting, UpdateAt
  <2>3. ASSUME NEW i \in GetProcessByID(target[c]), Goto(c, "restart"),
               arrays' = [arrays EXCEPT ![processes[i].array][processes[i].slot] = NewConfig(c)]
        PROVE  Table'
    <3>1. UNCHANGED list
      BY <1>5 DEF UpdateConfigures
    <3>2. /\ Memory' \in Seq(Configs) /\ Len(Memory') = Len(Memory)
          /\ \A k \in 1 .. Len(Memory) :
                \/ Memory'[k] = Memory[k]
                \/ Memory[k].id = target[c] /\ Memory'[k] = NewConfig(c)
      BY <2>1, <2>3, <3>1, Configured
    <3>3. /\ Distinct(Memory') /\ DOMAIN Memory' = DOMAIN Memory
          /\ \A k \in DOMAIN Memory : Renewed(c, Memory'[k]) = Renewed(c, Memory[k])
      <4>1. DOMAIN Memory = 1 .. Len(Memory) /\ DOMAIN Memory' = DOMAIN Memory
        BY <2>1, <3>2
      <4>2. \A k \in DOMAIN Memory : Memory'[k].id = Memory[k].id
        BY <1>3, <3>2, <4>1
      <4>3. Distinct(Memory')
        BY <2>1, <4>1, <4>2 DEF Distinct
      <4>4. \A k \in DOMAIN Memory : Renewed(c, Memory'[k]) = Renewed(c, Memory[k])
        BY <1>3, <3>2, <4>1 DEF Renewed
      <4> QED
        BY <4>1, <4>3, <4>4
    <3>4. {Renewed(c, Memory[i_1]) : i_1 \in DOMAIN Memory} = Due(c)
      BY <1>4, <2>1 DEF Agree
    <3>5. {Renewed(c, Memory'[i_1]) : i_1 \in DOMAIN Memory'} = Due(c)
      BY <3>3, <3>4
    <3>6. Renewed(c, 0)' = Renewed(c, 0) /\ NewConfig(c)' = NewConfig(c)
      BY <1>2 DEF Renewed, NewConfig
    <3>7. HalfRenewed(c)'
      BY <1>2, <1>4, <3>2, <3>3, <3>5, <3>6 DEF HalfRenewed, Renewed
    <3> QED
      BY <1>1, <1>2, <2>3, <3>7, OwingStep DEF Goto
  <2> QED
    BY <1>5, <2>2, <2>3 DEF UpdateConfigures
<1>6. CASE UpdateRestarts(c)
  <2>1. pc' = [pc EXCEPT ![c] = "replace"] /\ pc'[c] = "replace"
    BY <1>6 DEF UpdateRestarts, Goto, MemInv, Scalars
  <2>2. Memory' = Memory /\ HalfRenewed(c)
    BY <1>1, <1>6 DEF UpdateRestarts, Memory, memVars, Stage
  <2>3. HalfRenewed(c)'
    BY <1>2, <1>4, <2>2 DEF HalfRenewed, Renewed, NewConfig
  <2>4. Stage(c)'
    BY <1>1, <1>2, <2>1, <2>3 DEF Stage, UnchangedAt, AddAt, RemoveAt, UpdateAt, ResetAt
  <2> QED
    BY <1>1, <1>2, <2>1, <2>2, <2>4, ReadingStep DEF Resting, UpdateAt
<1>7. CASE UpdateReplaces(c)
  <2>1. HalfRenewed(c) /\ Memory \in Seq(Configs) /\ Distinct(Memory) /\ UNCHANGED list
    BY <1>1, <1>7 DEF UpdateReplaces, Stage, HalfRenewed
  <2>2. CASE ConfigIndex(target[c]) = {} /\ UNCHANGED arrays
    <3>1. Memory' = Memory
      BY <2>1, <2>2 DEF Memory
    <3>2. \A i \in DOMAIN Memory : Renewed(c, Memory[i]) = Memory[i]
      BY <2>1, <2>2, NoneFound DEF Renewed
    <3>3. Agree(Memory', Due(c))
      BY <2>1, <3>1, <3>2 DEF HalfRenewed, Agree
    <3> QED
      BY <1>1, <1>2, <1>7, <3>3, OwingStep DEF UpdateReplaces, Goto
  <2>3. ASSUME NEW i \in ConfigIndex(target[c]),
               arrays' = [arrays EXCEPT ![list.array][i] = NewConfig(c)]
        PROVE  Table'
    <3>1. /\ i \in DOMAIN Memory /\ Memory[i].id = target[c]
          /\ Memory' = [Memory EXCEPT ![i] = NewConfig(c)]
          /\ Memory' \in Seq(Configs)
      BY <2>1, <2>3, Replaced
    <3>2. \A k \in DOMAIN Memory : Memory'[k] = Renewed(c, Memory[k])
      BY <2>1, <3>1 DEF Distinct, Renewed
    <3>3. DOMAIN Memory' = DOMAIN Memory /\ \A k \in DOMAIN Memory : Memory'[k].id = Memory[k].id
      BY <1>3, <3>1, <3>2 DEF Renewed
    <3>4. Distinct(Memory')
      BY <2>1, <3>3 DEF Distinct
    <3>5. Agree(Memory', Due(c))
      BY <2>1, <3>1, <3>2, <3>3, <3>4 DEF HalfRenewed, Agree
    <3> QED
      BY <1>1, <1>2, <1>7, <3>5, OwingStep DEF UpdateReplaces, Goto
  <2> QED
    BY <1>7, <2>2, <2>3 DEF UpdateReplaces
<1> QED
  BY <1>5, <1>6, <1>7 DEF Updates

LEMMA ResetsTable ==
    ASSUME MemInv, Table, NEW c \in Commands,
           ResetClears(c) \/ ResetReads(c) \/ ResetInits(c)
    PROVE  Table'
<1>1. Stage(c) /\ op[c] = "reset" /\ Agree(Memory, expected) /\ pc[c] \in ResetAt
  BY DEF ResetClears, ResetReads, ResetInits, Table, Stage, UnchangedAt, ResetAt
<1>2. UNCHANGED <<running, file, expected, op, target>>
  BY DEF ResetClears, ResetReads, ResetInits, StepFrame, fileVars
<1>3. \A d \in Commands : pc[d] # "write"
  BY <1>1 DEF Table, Busy, ResetAt
<1>4. CASE ResetClears(c)
  <2>1. Memory' = <<DefaultConfig(1)>>
    BY <1>4, DefaultAgrees, LoadLoads DEF ResetClears, Memory, MemInv, Pointed
  <2>2. Agree(Memory', Due(c))
    BY <1>1, <2>1, DefaultAgrees DEF Due
  <2> QED
    BY <1>1, <1>2, <1>4, <2>2, OwingStep DEF ResetClears, Goto, UnchangedAt
<1>5. CASE ResetReads(c)
  <2>1. Memory' = Memory /\ pc' = [pc EXCEPT ![c] = "init"] /\ pc'[c] = "init" /\ payload'[c] = file
    BY <1>5 DEF ResetReads, Goto, Memory, memVars, MemInv, Scalars
  <2>2. Agree(file, expected)
    BY <1>3, <1>5 DEF ResetReads, Table, FileKept, MemInv, Alive
  <2>3. Stage(c)'
    BY <1>1, <1>2, <2>1, <2>2 DEF Stage, UnchangedAt, AddAt, RemoveAt, UpdateAt, ResetAt
  <2> QED
    BY <1>1, <1>2, <2>1, <2>3, ReadingStep DEF Resting, ResetAt
<1>6. CASE ResetInits(c)
  <2>1. Agree(payload[c], expected) /\ payload[c] \in Seq(Configs) /\ payload[c] # Torn
    BY <1>1, <1>6, FileAssumption DEF ResetInits, Stage, Agree
  <2>2. Memory' = payload[c]
    BY <1>6, <2>1, LoadLoads DEF ResetInits, Memory, MemInv, Pointed
  <2>3. PICK x \in {"failed", "exit"} : pc' = [pc EXCEPT ![c] = x]
    BY <1>6 DEF ResetInits, Goto
  <2>4. pc'[c] = x
    BY <2>3 DEF MemInv, Scalars
  <2>5. Agree(Memory', expected')
    BY <1>2, <2>1, <2>2
  <2>6. Stage(c)'
    BY <1>1, <1>2, <2>4, <2>5 DEF Stage, UnchangedAt, AddAt, RemoveAt, UpdateAt, ResetAt
  <2>7. FileKept'
    BY <1>2, <1>3 DEF Table, FileKept
  <2> QED
    BY <1>1, <1>2, <2>3, <2>5, <2>6, <2>7, AloneStep DEF Resting, ResetAt
<1> QED
  BY <1>4, <1>5, <1>6

\* The save makes true what was due, in the file as in memory.
LEMMA SavesTable ==
    ASSUME MemInv, Table, NEW c \in Commands, Saves(c)
    PROVE  Table'
<1>1. Stage(c) /\ Agree(Memory, Due(c)) /\ pc[c] \in {"lock", "marshal", "write"}
  BY DEF Saves, SaveLocks, SaveMarshals, SaveWrites, Table, Stage
<1>2. Memory' = Memory /\ UNCHANGED <<running, op, target>>
  BY DEF Saves, SaveLocks, SaveMarshals, SaveWrites, Memory, memVars
<1>3. CASE SaveLocks(c)
  <2>1. pc' = [pc EXCEPT ![c] = "marshal"] /\ pc'[c] = "marshal" /\ UNCHANGED <<file, expected>>
    BY <1>3 DEF SaveLocks, Goto, histVars, MemInv, Scalars
  <2>2. Due(c)' = Due(c)
    BY <1>2, <2>1 DEF Due, Renewed, NewConfig
  <2>3. Stage(c)'
    BY <1>1, <1>2, <2>1, <2>2 DEF Stage, UnchangedAt, AddAt, RemoveAt, UpdateAt, ResetAt
  <2> QED
    BY <1>2, <1>3, <2>1, <2>3, ReadingStep DEF SaveLocks, Resting
<1>4. CASE SaveMarshals(c)
  <2>1. /\ pc' = [pc EXCEPT ![c] = "write"] /\ pc'[c] = "write"
        /\ file' = Torn /\ payload'[c] = Memory /\ UNCHANGED expected
    BY <1>4 DEF SaveMarshals, Goto, histVars, MemInv, Scalars
  <2>2. Due(c)' = Due(c)
    BY <1>2, <2>1 DEF Due, Renewed, NewConfig
  <2>3. Stage(c)' /\ FileKept'
    BY <1>1, <1>2, <2>1, <2>2
       DEF Stage, FileKept, UnchangedAt, AddAt, RemoveAt, UpdateAt, ResetAt
  <2> QED
    BY <1>2, <1>4, <2>1, <2>3, AloneStep DEF SaveMarshals, Resting
<1>5. CASE SaveWrites(c)
  <2>1. file' = Memory
    BY <1>1, <1>5 DEF SaveWrites, Stage
  <2>2. expected' = Due(c)
    BY <1>5 DEF SaveWrites, Due, Renewed
  <2>3. Agree(Memory', expected') /\ FileKept'
    BY <1>1, <1>2, <2>1, <2>2 DEF FileKept
  <2>4. PICK x : /\ pc' = [pc EXCEPT ![c] = x]
                 /\ \/ x = "register" /\ op[c] = "add"
                    \/ x = "reload" /\ op[c] = "reset"
                    \/ x = "done"
    BY <1>5 DEF SaveWrites, Goto
  <2>5. pc'[c] = x
    BY <2>4 DEF MemInv, Scalars
  <2>6. Stage(c)'
    BY <1>2, <2>3, <2>4, <2>5 DEF Stage, UnchangedAt, AddAt, RemoveAt, UpdateAt, ResetAt
  <2> QED
    BY <1>2, <1>5, <2>3, <2>4, <2>6, AloneStep DEF SaveWrites, Resting
<1> QED
  BY <1>3, <1>4, <1>5 DEF Saves

LEMMA NextTable ==
    ASSUME MemInv, TableInv, [Next]_vars
    PROVE  TableInv'
<1> SUFFICES ASSUME orderly' PROVE Table'
  BY DEF TableInv
<1>1. CASE Boots
  BY <1>1, BootsTable
<1>2. CASE Crash
  BY <1>2, EndTable DEF Crash
<1>3. ASSUME NEW c \in Commands, Begins(c) PROVE Table'
  BY <1>3, BeginsTable
<1>4. ASSUME NEW c \in Commands, Adds(c) PROVE Table'
  BY <1>4, AddsTable DEF TableInv, Adds, AddTakesID, AddReads, AddAppends, AddRegisters
<1>5. ASSUME NEW c \in Commands, Removes(c) PROVE Table'
  BY <1>5, RemovesTable DEF TableInv, Removes, RemoveLooksUp, RemoveFinds, RemoveUnlists,
     RemoveSearches, RemoveCuts
<1>6. ASSUME NEW c \in Commands, Updates(c) PROVE Table'
  BY <1>6, UpdatesTable DEF TableInv, Updates, UpdateConfigures, UpdateRestarts, UpdateReplaces
<1>7. ASSUME NEW c \in Commands, ResetClears(c) \/ ResetReads(c) \/ ResetInits(c) PROVE Table'
  BY <1>7, ResetsTable DEF TableInv, ResetClears, ResetReads, ResetInits
<1>8. ASSUME NEW c \in Commands, ResetExits(c) PROVE Table'
  BY <1>8, EndTable DEF ResetExits
<1>9. ASSUME NEW c \in Commands, Saves(c) PROVE Table'
  BY <1>9, SavesTable DEF TableInv, Saves, SaveLocks, SaveMarshals, SaveWrites, histVars
<1>10. CASE UNCHANGED vars
  <2>1. UNCHANGED <<list, running, file, pc, op, target, index, slice, payload, expected, orderly>>
    BY <1>10 DEF vars, memVars, fileVars, cmdVars, histVars
  <2>2. Memory' = Memory
    BY <1>10 DEF vars, memVars, Memory
  <2>3. Busy' = Busy
    BY <2>1 DEF Busy
  <2>4. FileKept' = FileKept
    BY <2>1 DEF FileKept
  <2>5. ASSUME NEW c \in Commands, Stage(c) PROVE Stage(c)'
    <3>1. Due(c)' = Due(c) /\ NewConfig(c)' = NewConfig(c)
      BY <2>1 DEF Due, Renewed, NewConfig
    <3>2. HalfRenewed(c)' = HalfRenewed(c)
      BY <2>1, <2>2, <3>1 DEF HalfRenewed, Renewed
    <3> QED
      BY <2>1, <2>2, <2>5, <3>1, <3>2 DEF Stage
  <2> QED
    BY <2>1, <2>2, <2>3, <2>4, <2>5 DEF TableInv, Table
<1> QED
  BY <1>1, <1>2, <1>3, <1>4, <1>5, <1>6, <1>7, <1>8, <1>9, <1>10 DEF Next, Resets

LEMMA TableInvariant == Spec => []TableInv
<1>1. Init => TableInv
  BY InitTable DEF TableInv
<1>2. MemInv /\ TableInv /\ [Next]_vars => TableInv'
  BY NextTable
<1> QED
  BY <1>1, <1>2, MemInvariant, PTL DEF Spec

\* Commands one after the other leave exactly the configurations they were asked for,
\* each once, and boots and crashes between them lose none: append, RemoveProcess
\* and Configure never hit another configuration through the shared array
\* (integration.go:87-103, 239-281).
THEOREM TableConsistency == Spec => []TableIsKept
<1>1. TableInv => TableIsKept
  BY FileAssumption DEF TableInv, Table, Busy, Quiet, Agree, Distinct, TableIsKept
<1> QED
  BY <1>1, TableInvariant, PTL

\* What a crash leaves behind, at any moment but that of the write itself, is the table of
\* the commands that have saved, however far the next one has come in memory
\* (integration.go:155-172).
THEOREM CrashConsistency == Spec => []CrashKeepsTable
<1>1. TableInv => CrashKeepsTable
  <2> SUFFICES ASSUME FileKept, orderly PROVE CrashKeepsTable
    BY DEF TableInv, Table, CrashKeepsTable
  <2> QED BY FileAssumption DEF FileKept, Agree, Distinct, CrashKeepsTable
<1> QED
  BY <1>1, TableInvariant, PTL
==============================================================================
