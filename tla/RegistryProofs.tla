--------------------------- MODULE RegistryProofs ---------------------------
(***************************************************************************)
(* Proofs about Registry: memory is never misread, whatever the commands   *)
(* do to each other, and the configuration file follows memory.            *)
(***************************************************************************)
EXTENDS Registry, SequenceTheorems, TLAPS

Heap == Seq(Seq(Configs \cup {None}))

\* What every step but the end of the program does to the arrays: none goes or
\* changes its size, and no configuration gives way to an empty slot.
Grows(a, b) ==
    /\ Len(a) <= Len(b)
    /\ \A g \in DOMAIN a :
          /\ Len(b[g]) = Len(a[g])
          /\ \A k \in DOMAIN a[g] : a[g][k] \in Configs => b[g][k] \in Configs

-----------------------------------------------------------------------------
(* Arrays *)

LEMMA FilledStays ==
    ASSUME NEW a \in Heap, NEW b \in Heap, Grows(a, b), NEW l \in Slices, IsFilled(a, l)
    PROVE  IsFilled(b, l)
  BY DEF Heap, Grows, IsFilled, Slices

LEMMA PointerStays ==
    ASSUME NEW a \in Heap, NEW b \in Heap, Grows(a, b), NEW p \in Pointers, IsPointer(a, p)
    PROVE  IsPointer(b, p)
  BY DEF Heap, Grows, IsPointer, Pointers

LEMMA ArrayOfFits ==
    ASSUME NEW s \in Seq(Configs), NEW room \in Nat
    PROVE  /\ ArrayOf(s, room) \in Seq(Configs \cup {None})
           /\ Len(ArrayOf(s, room)) >= Len(s)
           /\ \A i \in 1 .. Len(s) : ArrayOf(s, room)[i] = s[i]
<1>1. Extent(Len(s), room) \in Nat /\ Extent(Len(s), room) >= Len(s)
  BY DEF Extent
<1>2. \A i \in 1 .. Extent(Len(s), room) :
          (IF i \in DOMAIN s THEN s[i] ELSE None) \in Configs \cup {None}
  OBVIOUS
<1>3. ArrayOf(s, room) \in [1 .. Extent(Len(s), room) -> Configs \cup {None}]
  BY <1>2 DEF ArrayOf
<1>4. ArrayOf(s, room) \in Seq(Configs \cup {None}) /\ Len(ArrayOf(s, room)) = Extent(Len(s), room)
  BY <1>1, <1>3
<1> QED
  BY <1>1, <1>4 DEF ArrayOf

\* What a slice that is not nil holds.
LEMMA ContentsAre ==
    ASSUME NEW a \in Heap, NEW l \in Slices, IsFilled(a, l), l.array # 0
    PROVE  Contents(a, l) \in Seq(Configs) /\ Len(Contents(a, l)) = l.len
<1>1. l.len \in Nat /\ \A i \in 1 .. l.len : a[l.array][i] \in Configs
  BY DEF IsFilled, Nil, Slices
<1>2. Contents(a, l) = [i \in 1 .. l.len |-> a[l.array][i]]
  BY DEF Contents
<1>3. Contents(a, l) \in [1 .. l.len -> Configs]
  BY <1>1, <1>2
<1> QED
  BY <1>1, <1>3

\* One more array.
LEMMA NewArray ==
    ASSUME NEW a \in Heap, NEW s \in Seq(Configs \cup {None})
    PROVE  Append(a, s) \in Heap /\ Grows(a, Append(a, s))
  BY DEF Heap, Grows

\* A slice of a new array.
LEMMA NewSlice ==
    ASSUME NEW a \in Heap, NEW s \in Seq(Configs), NEW room \in Nat
    PROVE  LET b == Append(a, ArrayOf(s, room))
               l == [array |-> Len(a) + 1, len |-> Len(s)]
           IN  /\ b \in Heap /\ Grows(a, b)
               /\ l \in Slices /\ IsFilled(b, l) /\ Contents(b, l) = s
<1> DEFINE b == Append(a, ArrayOf(s, room))
           l == [array |-> Len(a) + 1, len |-> Len(s)]
<1>1. /\ ArrayOf(s, room) \in Seq(Configs \cup {None})
      /\ Len(ArrayOf(s, room)) >= Len(s)
      /\ \A i \in 1 .. Len(s) : ArrayOf(s, room)[i] = s[i]
  BY ArrayOfFits
<1>2. b \in Heap /\ Grows(a, b)
  BY <1>1, NewArray
<1>3. l \in Slices /\ l.array = Len(a) + 1 /\ l.len = Len(s) /\ l.array # 0
  BY DEF Slices, Heap
<1>4. b[l.array] = ArrayOf(s, room) /\ l.array \in DOMAIN b
  BY <1>1, <1>3 DEF Heap
<1>5. IsFilled(b, l)
  BY <1>1, <1>3, <1>4 DEF IsFilled
<1>6. Contents(b, l) = [i \in 1 .. Len(s) |-> s[i]]
  BY <1>1, <1>3, <1>4 DEF Contents
<1>7. s = [i \in 1 .. Len(s) |-> s[i]]
  OBVIOUS
<1> QED
  BY <1>2, <1>3, <1>5, <1>6, <1>7

\* A configuration is written to a slot.
LEMMA SlotWritten ==
    ASSUME NEW a \in Heap, NEW g \in DOMAIN a, NEW k \in DOMAIN a[g], NEW x \in Configs
    PROVE  LET b == [a EXCEPT ![g][k] = x]
           IN  b \in Heap /\ Grows(a, b) /\ b[g][k] = x
<1> DEFINE b == [a EXCEPT ![g][k] = x]
<1>1. g \in 1 .. Len(a) /\ a[g] \in Seq(Configs \cup {None}) /\ Len(a) \in Nat
  BY DEF Heap
<1>2. [a[g] EXCEPT ![k] = x] \in Seq(Configs \cup {None}) /\ Len([a[g] EXCEPT ![k] = x]) = Len(a[g])
  BY <1>1
<1>3. b = [a EXCEPT ![g] = [a[g] EXCEPT ![k] = x]]
  OBVIOUS
<1>4. b \in Heap /\ Len(b) = Len(a)
  BY <1>1, <1>2, <1>3 DEF Heap
<1>5. \A h \in DOMAIN a : b[h] = IF h = g THEN [a[g] EXCEPT ![k] = x] ELSE a[h]
  BY <1>1, <1>3 DEF Heap
<1>6. Grows(a, b)
  BY <1>1, <1>2, <1>4, <1>5 DEF Grows, Heap
<1> QED
  BY <1>4, <1>5, <1>6

\* The slot behind a slice is written, and the slice takes it in.
LEMMA SliceExtended ==
    ASSUME NEW a \in Heap, NEW l \in Slices, IsFilled(a, l), l.array # 0,
           l.len < Len(a[l.array]), NEW x \in Configs
    PROVE  LET b == [a EXCEPT ![l.array][l.len + 1] = x]
               m == [l EXCEPT !.len = @ + 1]
           IN  b \in Heap /\ Grows(a, b) /\ m \in Slices /\ IsFilled(b, m)
<1> DEFINE b == [a EXCEPT ![l.array][l.len + 1] = x]
           m == [l EXCEPT !.len = @ + 1]
<1>1. /\ l.array \in DOMAIN a /\ l.len \in Nat
      /\ \A i \in 1 .. l.len : a[l.array][i] \in Configs
  BY DEF IsFilled, Nil, Slices
<1>2. l.len + 1 \in DOMAIN a[l.array]
  BY <1>1 DEF Heap
<1>3. b \in Heap /\ Grows(a, b) /\ b[l.array][l.len + 1] = x
  BY <1>1, <1>2, SlotWritten
<1>4. m \in Slices /\ m.array = l.array /\ m.len = l.len + 1
  BY <1>1 DEF Slices
<1>5. \A i \in 1 .. m.len : b[l.array][i] \in Configs
  <2> SUFFICES ASSUME NEW i \in 1 .. m.len PROVE b[l.array][i] \in Configs
    OBVIOUS
  <2>1. CASE i = l.len + 1
    BY <1>3, <2>1
  <2>2. CASE i \in 1 .. l.len
    BY <1>1, <1>2, <1>3, <2>2 DEF Grows, Heap
  <2> QED
    BY <1>1, <1>4, <2>1, <2>2
<1>6. m.array \in DOMAIN b /\ m.len <= Len(b[m.array])
  BY <1>1, <1>2, <1>3, <1>4 DEF Grows, Heap
<1> QED
  BY <1>3, <1>4, <1>5, <1>6 DEF IsFilled

\* A configuration is cut out of an array, under whoever points into it.
LEMMA ArrayCut ==
    ASSUME NEW a \in Heap, NEW l \in Slices, IsFilled(a, l), l # Nil,
           NEW i \in 1 .. l.len
    PROVE  LET b == [a EXCEPT ![l.array] = Cut(@, i, l.len)]
               m == [l EXCEPT !.len = @ - 1]
           IN  b \in Heap /\ Grows(a, b) /\ m \in Slices /\ IsFilled(b, m)
<1> DEFINE s == a[l.array]
           t == Cut(s, i, l.len)
           b == [a EXCEPT ![l.array] = Cut(@, i, l.len)]
           m == [l EXCEPT !.len = @ - 1]
<1>1. /\ l.array \in DOMAIN a /\ l.len \in Nat /\ l.len <= Len(s)
      /\ \A k \in 1 .. l.len : s[k] \in Configs
  BY DEF IsFilled, Slices
<1>2. s \in Seq(Configs \cup {None}) /\ l.array \in 1 .. Len(a) /\ Len(a) \in Nat
  BY <1>1 DEF Heap
<1>3. /\ t \in [1 .. Len(s) -> Configs \cup {None}]
      /\ \A k \in 1 .. Len(s) : s[k] \in Configs => t[k] \in Configs
  BY <1>1, <1>2 DEF Cut
<1>4. t \in Seq(Configs \cup {None}) /\ Len(t) = Len(s)
  BY <1>2, <1>3
<1>5. b = [a EXCEPT ![l.array] = t]
  OBVIOUS
<1>6. b \in Heap /\ Len(b) = Len(a) /\ DOMAIN b = DOMAIN a
  BY <1>2, <1>4, <1>5 DEF Heap
<1>7. \A g \in DOMAIN a : b[g] = IF g = l.array THEN t ELSE a[g]
  BY <1>2, <1>5 DEF Heap
<1>8. Grows(a, b)
  BY <1>2, <1>3, <1>4, <1>6, <1>7 DEF Grows, Heap
<1>9. m \in Slices /\ m.array = l.array /\ m.len = l.len - 1
  BY <1>1 DEF Slices
<1>10. m.array \in DOMAIN b /\ m.len <= Len(b[m.array])
  BY <1>1, <1>2, <1>4, <1>6, <1>7, <1>9
<1>11. \A k \in 1 .. m.len : b[m.array][k] \in Configs
  BY <1>1, <1>2, <1>3, <1>7, <1>9
<1> QED
  BY <1>6, <1>8, <1>9, <1>10, <1>11 DEF IsFilled

-----------------------------------------------------------------------------
(* Processes *)

\* Two lists of pointers, one behind the other.
LEMMA PointersJoined ==
    ASSUME NEW a, NEW f \in Seq(Pointers), NEW g \in Seq(Pointers),
           \A i \in DOMAIN f : IsPointer(a, f[i]),
           \A i \in DOMAIN g : IsPointer(a, g[i])
    PROVE  /\ f \o g \in Seq(Pointers)
           /\ \A i \in DOMAIN (f \o g) : IsPointer(a, (f \o g)[i])
<1>1. f \o g \in Seq(Pointers) /\ Len(f \o g) = Len(f) + Len(g)
  OBVIOUS
<1>2. \A i \in 1 .. Len(f \o g) : (f \o g)[i] = IF i <= Len(f) THEN f[i] ELSE g[i - Len(f)]
  BY <1>1
<1>3. \A i \in 1 .. Len(f \o g) : IsPointer(a, (f \o g)[i])
  BY <1>1, <1>2
<1> QED
  BY <1>1, <1>3

\* InitProcesses appends a pointer into the array for each configuration.
LEMMA ProcessesMade ==
    ASSUME NEW a \in Heap, NEW l \in Slices, IsFilled(a, l),
           NEW ps \in Seq(Pointers), \A i \in DOMAIN ps : IsPointer(a, ps[i])
    PROVE  LET qs == ps \o [i \in 1 .. l.len |->
                               [id |-> a[l.array][i].id, array |-> l.array, slot |-> i]]
           IN  qs \in Seq(Pointers) /\ \A i \in DOMAIN qs : IsPointer(a, qs[i])
<1> DEFINE rs == [i \in 1 .. l.len |->
                     [id |-> a[l.array][i].id, array |-> l.array, slot |-> i]]
<1>1. l.len \in Nat /\ l.array \in Nat
  BY DEF Slices
<1>2. \A i \in 1 .. l.len : rs[i] \in Pointers /\ IsPointer(a, rs[i])
  <2> SUFFICES ASSUME NEW i \in 1 .. l.len
               PROVE  rs[i] \in Pointers /\ IsPointer(a, rs[i])
    OBVIOUS
  <2>1. l # Nil
    BY <1>1 DEF Nil
  <2>2. /\ l.array \in DOMAIN a /\ l.len <= Len(a[l.array])
        /\ a[l.array][i] \in Configs
    BY <2>1 DEF IsFilled
  <2>3. i \in DOMAIN a[l.array] /\ l.array \in Nat \ {0} /\ i \in Nat \ {0}
    BY <1>1, <2>2 DEF Heap
  <2>4. a[l.array][i].id \in Ids
    BY <2>2 DEF Configs
  <2> QED
    BY <2>2, <2>3, <2>4 DEF IsPointer, Pointers
<1>3. DOMAIN rs = 1 .. l.len
  OBVIOUS
<1> HIDE DEF rs
<1>4. rs \in [1 .. l.len -> Pointers]
  <2>1. rs = [i \in 1 .. l.len |-> rs[i]]
    BY <1>3 DEF rs
  <2> QED
    BY <1>2, <2>1
<1>5. rs \in Seq(Pointers)
  BY <1>1, <1>4
<1>6. ps \o rs \in Seq(Pointers) /\ \A i \in DOMAIN (ps \o rs) : IsPointer(a, (ps \o rs)[i])
  BY <1>2, <1>3, <1>5, PointersJoined
<1> QED
  BY <1>6 DEF rs

\* What is left of the processes when one is cut out.
LEMMA ProcessesCut ==
    ASSUME NEW a \in Heap, NEW ps \in Seq(Pointers), NEW n \in Nat, n <= Len(ps),
           \A i \in DOMAIN ps : IsPointer(a, ps[i])
    PROVE  /\ Without(ps, n) \in Seq(Pointers)
           /\ \A i \in DOMAIN Without(ps, n) : IsPointer(a, Without(ps, n)[i])
<1> DEFINE f == SubSeq(ps, 1, n - 1)
           g == SubSeq(ps, n + 1, Len(ps))
<1>1. /\ f \in Seq(Pointers) /\ g \in Seq(Pointers)
      /\ Len(f) <= Len(ps) /\ Len(g) = Len(ps) - n
      /\ \A i \in 1 .. Len(f) : f[i] = ps[i]
      /\ \A i \in 1 .. Len(g) : g[i] = ps[n + i]
  <2>1. f \in Seq(Pointers) /\ Len(f) <= Len(ps) /\ \A i \in 1 .. Len(f) : f[i] = ps[i]
    <3>1. \A i \in 1 .. n - 1 : ps[i] \in Pointers
      OBVIOUS
    <3> QED
      BY <3>1, SubSeqProperties
  <2>2. g \in Seq(Pointers) /\ Len(g) = Len(ps) - n /\ \A i \in 1 .. Len(g) : g[i] = ps[n + i]
    <3>1. \A i \in n + 1 .. Len(ps) : ps[i] \in Pointers
      OBVIOUS
    <3> QED
      BY <3>1, SubSeqProperties
  <2> QED
    BY <2>1, <2>2
<1>2. \A i \in 1 .. Len(f) : IsPointer(a, f[i])
  BY <1>1
<1>3. \A i \in 1 .. Len(g) : IsPointer(a, g[i])
  BY <1>1
<1> HIDE DEF f, g
<1>4. f \o g \in Seq(Pointers) /\ \A i \in DOMAIN (f \o g) : IsPointer(a, (f \o g)[i])
  BY <1>1, <1>2, <1>3, PointersJoined
<1> QED
  BY <1>4 DEF Without, f, g

-----------------------------------------------------------------------------
(* The invariant of memory *)

Scalars ==
    /\ running \in BOOLEAN /\ orderly \in BOOLEAN
    /\ file \in Seq(Configs) \cup {Null, Torn, Absent}
    /\ saveMutex \in Commands \cup {None}
    /\ pc \in [Commands -> Locations]
    /\ op \in [Commands -> Operations]
    /\ target \in [Commands -> Ids]
    /\ index \in [Commands -> Nat]
    /\ payload \in [Commands -> Seq(Configs) \cup {Null, Torn}]
    /\ expected \subseteq Configs

Pointed ==
    /\ arrays \in Heap
    /\ list \in Slices
    /\ processes \in Seq(Pointers)
    /\ slice \in [Commands -> Slices]
    /\ IsFilled(arrays, list) /\ \A c \in Commands : IsFilled(arrays, slice[c])
    /\ \A i \in DOMAIN processes : IsPointer(arrays, processes[i])

LEMMA TypeOKParts == TypeOK <=> Scalars /\ Pointed
  BY DEF TypeOK, Scalars, Pointed, Heap

\* Nobody works while the program does not run, and while it runs there is a file.
Alive ==
    /\ ~running => \A c \in Commands : pc[c] \in {"ready", "done"}
    /\ running => file # Absent

\* A remove that is about to cut has found a slot of the slice it has read.
CutReady ==
    \A c \in Commands :
        pc[c] = "cut" => slice[c] # Nil /\ index[c] \in 1 .. slice[c].len

MemInv == Scalars /\ Pointed /\ Alive /\ CutReady

\* Slices and pointers that no step touches survive what it does to the arrays.
LEMMA PointedStays ==
    ASSUME Pointed, arrays' \in Heap, Grows(arrays, arrays')
    PROVE  /\ IsFilled(arrays', list)
           /\ \A c \in Commands : IsFilled(arrays', slice[c])
           /\ \A i \in DOMAIN processes : IsPointer(arrays', processes[i])
<1>1. IsFilled(arrays', list)
  BY FilledStays DEF Pointed
<1>2. ASSUME NEW c \in Commands PROVE IsFilled(arrays', slice[c])
  BY FilledStays DEF Pointed
<1>3. ASSUME NEW i \in DOMAIN processes PROVE IsPointer(arrays', processes[i])
  BY PointerStays DEF Pointed
<1> QED
  BY <1>1, <1>2, <1>3

\* The same with nothing done to them.
LEMMA PointedUnchanged ==
    ASSUME Pointed, UNCHANGED <<memVars, slice>>
    PROVE  Pointed'
  BY DEF Pointed, memVars

LEMMA MemInit == ASSUME Init PROVE MemInv
<1>1. Scalars
  <2>1. ASSUME NEW n \in BootSizes PROVE BootConfigs(n) \in Seq(Configs)
    <3>1. n \in Nat /\ \A i \in 1 .. n : [id |-> i, rev |-> "boot"] \in Configs
      BY IdsAssumption DEF Configs
    <3>2. BootConfigs(n) \in [1 .. n -> Configs]
      BY <3>1 DEF BootConfigs
    <3> QED
      BY <3>1, <3>2
  <2>2. file \in Seq(Configs) \cup {Absent}
    BY <2>1 DEF Init
  <2>3. DefaultConfig(1) \in Configs
    BY IdsAssumption DEF Configs, DefaultConfig
  <2>4. expected \subseteq Configs
    BY <2>2, <2>3 DEF Init
  <2> QED
    BY <2>2, <2>4, IdsAssumption DEF Init, Scalars, Locations, Operations
<1>2. Pointed
  BY DEF Init, Pointed, Heap, Slices, Nil, IsFilled
<1>3. Alive /\ CutReady
  BY DEF Init, Alive, CutReady
<1> QED
  BY <1>1, <1>2, <1>3 DEF MemInv

\* What Load does: the arrays grow, and processConfigs is what was loaded.
LEMMA LoadLoads ==
    ASSUME arrays \in Heap, NEW s \in Seq(Configs) \cup {Null}, Load(s)
    PROVE  /\ arrays' \in Heap /\ Grows(arrays, arrays')
           /\ list' \in Slices /\ IsFilled(arrays', list')
           /\ Contents(arrays', list') = s
<1>1. CASE s = Null
  BY <1>1 DEF Load, Grows, Heap, Slices, Nil, IsFilled, Contents
<1>2. CASE s # Null
  <2> DEFINE b == Append(arrays, ArrayOf(s, Capacity))
             l == [array |-> Len(arrays) + 1, len |-> Len(s)]
  <2>1. arrays' = b /\ list' = l
    BY <1>2 DEF Load
  <2>2. Capacity \in Nat /\ s \in Seq(Configs)
    BY <1>2, IdsAssumption
  <2>3. /\ b \in Heap /\ Grows(arrays, b)
        /\ l \in Slices /\ IsFilled(b, l) /\ Contents(b, l) = s
    BY <2>2, NewSlice
  <2> HIDE DEF b, l
  <2> QED
    BY <2>1, <2>3
<1> QED
  BY <1>1, <1>2

LEMMA InitProcessesPoints ==
    ASSUME Pointed, arrays' \in Heap, Grows(arrays, arrays'),
           list' \in Slices, IsFilled(arrays', list'), InitProcesses
    PROVE  /\ processes' \in Seq(Pointers)
           /\ \A i \in DOMAIN processes' : IsPointer(arrays', processes'[i])
<1>1. \A i \in DOMAIN processes : IsPointer(arrays', processes[i])
  BY PointedStays
<1> QED
  BY <1>1, ProcessesMade DEF InitProcesses, Pointed

LEMMA BootsMem == ASSUME MemInv, Boots PROVE MemInv'
<1> USE DEF MemInv
<1>1. CASE Boot
  <2>1. Loaded(file) \in Seq(Configs) \cup {Null}
    BY <1>1, FileAssumption DEF Boot, Loaded, Scalars
  <2>2. /\ arrays' \in Heap /\ Grows(arrays, arrays')
        /\ list' \in Slices /\ IsFilled(arrays', list')
    BY <1>1, <2>1, LoadLoads DEF Boot, Pointed
  <2>3. /\ processes' \in Seq(Pointers)
        /\ \A i \in DOMAIN processes' : IsPointer(arrays', processes'[i])
    BY <1>1, <2>2, InitProcessesPoints DEF Boot
  <2>4. Pointed'
    BY <1>1, <2>2, <2>3, PointedStays DEF Boot, Pointed, cmdVars
  <2>5. Scalars' /\ Alive' /\ CutReady'
    BY <1>1 DEF Boot, Scalars, Alive, CutReady, fileVars, cmdVars, histVars
  <2> QED
    BY <2>4, <2>5
<1>2. CASE BootDefaults
  <2>1. <<DefaultConfig(1)>> \in Seq(Configs)
    BY IdsAssumption DEF DefaultConfig, Configs
  <2>2. /\ arrays' \in Heap /\ Grows(arrays, arrays')
        /\ list' \in Slices /\ IsFilled(arrays', list')
    BY <1>2, <2>1, LoadLoads DEF BootDefaults, Pointed
  <2>3. /\ processes' \in Seq(Pointers)
        /\ \A i \in DOMAIN processes' : IsPointer(arrays', processes'[i])
    BY <1>2, <2>2, InitProcessesPoints DEF BootDefaults
  <2>4. Pointed'
    BY <1>2, <2>2, <2>3, PointedStays DEF BootDefaults, Pointed, cmdVars
  <2>5. file' \in Seq(Configs) /\ file' # Absent
    BY <1>2, <2>1, FileAssumption DEF BootDefaults
  <2>6. Scalars' /\ Alive' /\ CutReady'
    BY <1>2, <2>5 DEF BootDefaults, Scalars, Alive, CutReady, cmdVars, histVars
  <2> QED
    BY <2>4, <2>6
<1>3. CASE BootDies
  <2>1. Pointed'
    BY <1>3, PointedUnchanged DEF BootDies, cmdVars
  <2>2. Scalars' /\ Alive' /\ CutReady'
    BY <1>3 DEF BootDies, Scalars, Alive, CutReady, cmdVars, memVars
  <2> QED
    BY <2>1, <2>2
<1> QED
  BY <1>1, <1>2, <1>3 DEF Boots

LEMMA EndMem == ASSUME MemInv, ProgramEnds PROVE MemInv'
<1>1. Scalars'
  BY DEF MemInv, Scalars, ProgramEnds, Locations
<1>2. Pointed'
  BY DEF ProgramEnds, Pointed, Heap, Slices, Nil, IsFilled
<1>3. Alive' /\ CutReady'
  BY DEF MemInv, Scalars, ProgramEnds, Alive, CutReady
<1> QED
  BY <1>1, <1>2, <1>3 DEF MemInv

\* Steps that leave memory and the slices alone.
LEMMA QuietStep ==
    ASSUME MemInv, UNCHANGED <<memVars, slice, running, file, index>>, Scalars',
           NEW c \in Commands, pc[c] \notin {"ready", "done"} \/ running,
           NEW x \in Locations \ {"cut"}, pc' = [pc EXCEPT ![c] = x]
    PROVE  MemInv'
<1>1. Pointed'
  BY PointedUnchanged DEF MemInv, memVars
<1>2. running
  BY DEF MemInv, Alive
<1>3. Alive' /\ CutReady'
  BY <1>2 DEF MemInv, Alive, CutReady, Scalars
<1> QED
  BY <1>1, <1>3 DEF MemInv

LEMMA BeginsMem == ASSUME MemInv, NEW c \in Commands, Begins(c) PROVE MemInv'
<1>1. ASSUME NEW o \in Operations, NEW x \in Ids, NEW l \in Locations \ {"cut"},
             Begin(c, o, x, l)
      PROVE  MemInv'
  <2>1. Scalars'
    BY <1>1 DEF MemInv, Scalars, Begin, Goto, fileVars
  <2> QED
    BY <1>1, <2>1, QuietStep DEF Begin, Goto, fileVars
<1>2. CASE AddProcess(c)
  BY <1>1, <1>2, IdsAssumption DEF AddProcess, Operations, Locations
<1>3. CASE ResetConfigsToDefault(c)
  BY <1>1, <1>3, IdsAssumption DEF ResetConfigsToDefault, Operations, Locations
<1>4. ASSUME NEW x \in Ids, RemoveProcess(c, x) PROVE MemInv'
  BY <1>1, <1>4 DEF RemoveProcess, Operations, Locations
<1>5. ASSUME NEW x \in Ids, UpdateProcConfig(c, x) PROVE MemInv'
  BY <1>1, <1>5 DEF UpdateProcConfig, Operations, Locations
<1> QED
  BY <1>2, <1>3, <1>4, <1>5 DEF Begins

LEMMA AddsMem == ASSUME MemInv, NEW c \in Commands, Adds(c) PROVE MemInv'
<1>0. target[c] \in Ids /\ DefaultConfig(target[c]) \in Configs
  BY DEF MemInv, Scalars, DefaultConfig, Configs
<1>1. CASE AddTakesID(c)
  <2>1. Scalars'
    BY <1>1 DEF MemInv, Scalars, AddTakesID, Goto, StepFrame, fileVars, Locations
  <2> QED
    BY <1>1, <2>1, QuietStep DEF AddTakesID, Goto, StepFrame, fileVars, Locations
<1>2. CASE AddReads(c)
  <2>1. Scalars'
    BY <1>2 DEF MemInv, Scalars, AddReads, Goto, StepFrame, fileVars, Locations
  <2>2. Pointed'
    BY <1>2 DEF MemInv, Pointed, AddReads, memVars
  <2>3. Alive' /\ CutReady'
    BY <1>2 DEF MemInv, Scalars, Pointed, Alive, CutReady, AddReads, Goto, StepFrame, fileVars
  <2> QED
    BY <2>1, <2>2, <2>3 DEF MemInv
<1>3. CASE AddAppends(c)
  <2> DEFINE l == slice[c]
             x == DefaultConfig(target[c])
             s == Append(IF l.array = 0 THEN <<>> ELSE Contents(arrays, l), x)
  <2>1. l \in Slices /\ IsFilled(arrays, l) /\ arrays \in Heap
    BY DEF MemInv, Pointed
  <2>2. /\ arrays' \in Heap /\ Grows(arrays, arrays')
        /\ list' \in Slices /\ IsFilled(arrays', list')
    <3>1. CASE HasRoom(l)
      <4> DEFINE b == [arrays EXCEPT ![l.array][l.len + 1] = x]
                 m == [l EXCEPT !.len = @ + 1]
      <4>1. arrays' = b /\ list' = m
        BY <1>3, <3>1 DEF AddAppends
      <4>2. b \in Heap /\ Grows(arrays, b) /\ m \in Slices /\ IsFilled(b, m)
        BY <1>0, <2>1, <3>1, SliceExtended DEF HasRoom
      <4> HIDE DEF b, m
      <4> QED
        BY <4>1, <4>2
    <3>2. CASE ~HasRoom(l)
      <4> DEFINE b == Append(arrays, ArrayOf(s, 2 * l.len))
                 m == [array |-> Len(arrays) + 1, len |-> Len(s)]
      <4>1. s \in Seq(Configs) /\ Len(s) = l.len + 1 /\ l.len \in Nat
        <5>1. CASE l.array = 0
          <6>1. l.len = 0
            BY <2>1, <5>1 DEF IsFilled, Nil, Heap
          <6>2. s = Append(<<>>, x)
            BY <5>1
          <6> HIDE DEF s
          <6>3. s \in Seq(Configs) /\ Len(s) = 1
            BY <1>0, <6>2
          <6> QED
            BY <6>1, <6>3
        <5>2. CASE l.array # 0
          <6>1. Contents(arrays, l) \in Seq(Configs) /\ Len(Contents(arrays, l)) = l.len
            BY <2>1, <5>2, ContentsAre
          <6>2. s = Append(Contents(arrays, l), x)
            BY <5>2
          <6>3. l.len \in Nat
            BY <2>1 DEF Slices
          <6> HIDE DEF s
          <6> QED
            BY <1>0, <6>1, <6>2, <6>3
        <5> QED
          BY <5>1, <5>2
      <4>2. arrays' = b /\ list' = m
        BY <1>3, <3>2, <4>1 DEF AddAppends
      <4>3. b \in Heap /\ Grows(arrays, b) /\ m \in Slices /\ IsFilled(b, m)
        <5> HIDE DEF s
        <5> QED
          BY <2>1, <4>1, NewSlice
      <4> HIDE DEF b, m
      <4> QED
        BY <4>2, <4>3
    <3> QED
      BY <3>1, <3>2
  <2>3. Pointed'
    BY <1>3, <2>2, PointedStays DEF AddAppends, MemInv, Pointed
  <2>4. Scalars'
    BY <1>3 DEF MemInv, Scalars, AddAppends, Goto, StepFrame, fileVars, Locations
  <2>5. Alive' /\ CutReady'
    BY <1>3 DEF MemInv, Scalars, Alive, CutReady, AddAppends, Goto, StepFrame, fileVars
  <2> QED
    BY <2>3, <2>4, <2>5 DEF MemInv
<1>4. CASE AddRegisters(c)
  <2> DEFINE x == DefaultConfig(target[c])
             p == [id |-> target[c], array |-> Len(arrays) + 1, slot |-> 1]
  <2>1. arrays \in Heap /\ <<x>> \in Seq(Configs \cup {None})
    BY <1>0 DEF MemInv, Pointed
  <2>2. arrays' = Append(arrays, <<x>>) /\ arrays' \in Heap /\ Grows(arrays, arrays')
    BY <1>4, <2>1, NewArray DEF AddRegisters
  <2>3. <<p>> \in Seq(Pointers) /\ \A i \in DOMAIN <<p>> : IsPointer(arrays', <<p>>[i])
    <3>1. p \in Pointers
      BY <1>0, <2>1 DEF Pointers, Heap
    <3>2. p.array \in DOMAIN arrays' /\ arrays'[p.array] = <<x>> /\ p.slot = 1
      BY <2>1, <2>2 DEF Heap
    <3>3. IsPointer(arrays', p)
      BY <1>0, <3>2 DEF IsPointer
    <3> HIDE DEF p
    <3> QED
      BY <3>1, <3>3
  <2>4. processes \in Seq(Pointers) /\ \A i \in DOMAIN processes : IsPointer(arrays', processes[i])
    BY <2>2, PointedStays DEF MemInv, Pointed
  <2>5. processes' = processes \o <<p>>
    <3> HIDE DEF p
    <3>1. processes' = Append(processes, p)
      BY <1>4 DEF AddRegisters, p
    <3> QED
      BY <2>3, <2>4, <3>1
  <2>6. processes' \in Seq(Pointers) /\ \A i \in DOMAIN processes' : IsPointer(arrays', processes'[i])
    <3> HIDE DEF p
    <3> QED
      BY <2>3, <2>4, <2>5, PointersJoined
  <2>7. Pointed'
    BY <1>4, <2>2, <2>6, PointedStays DEF AddRegisters, MemInv, Pointed
  <2>8. Scalars'
    BY <1>4 DEF MemInv, Scalars, AddRegisters, Goto, StepFrame, fileVars, Locations
  <2>9. Alive' /\ CutReady'
    BY <1>4 DEF MemInv, Scalars, Alive, CutReady, AddRegisters, Goto, StepFrame, fileVars
  <2> QED
    BY <2>7, <2>8, <2>9 DEF MemInv
<1> QED
  BY <1>1, <1>2, <1>3, <1>4 DEF Adds

LEMMA RemovesMem == ASSUME MemInv, NEW c \in Commands, Removes(c) PROVE MemInv'
<1>0. CASE RemoveLooksUp(c)
  <2>1. PICK x \in {"done", "find"} : pc' = [pc EXCEPT ![c] = x]
    BY <1>0 DEF RemoveLooksUp, Goto
  <2>2. Scalars'
    BY <1>0, <2>1 DEF MemInv, Scalars, RemoveLooksUp, StepFrame, fileVars, Locations
  <2> QED
    BY <1>0, <2>1, <2>2, QuietStep DEF RemoveLooksUp, StepFrame, fileVars, Locations
<1>1. CASE RemoveFinds(c)
  <2>1. \A i \in GetProcessByID(target[c]) : i \in Nat
    BY DEF GetProcessByID, First, MemInv, Pointed
  <2>2. Scalars'
    BY <1>1, <2>1 DEF MemInv, Scalars, RemoveFinds, Goto, StepFrame, fileVars, Locations
  <2>3. Pointed'
    BY <1>1, PointedUnchanged DEF RemoveFinds, memVars, MemInv
  <2>4. Alive' /\ CutReady'
    BY <1>1 DEF MemInv, Scalars, Alive, CutReady, RemoveFinds, Goto, StepFrame, fileVars
  <2> QED
    BY <2>2, <2>3, <2>4 DEF MemInv
<1>2. CASE RemoveUnlists(c)
  <2>1. Scalars'
    BY <1>2 DEF MemInv, Scalars, RemoveUnlists, Goto, StepFrame, fileVars, Locations
  <2>2. processes' \in Seq(Pointers) /\ \A i \in DOMAIN processes' : IsPointer(arrays, processes'[i])
    <3>1. CASE index[c] > Len(processes)
      BY <1>2, <3>1 DEF RemoveUnlists, MemInv, Pointed
    <3>2. CASE index[c] <= Len(processes)
      <4>1. processes' = Without(processes, index[c]) /\ index[c] \in Nat
        BY <1>2, <3>2 DEF RemoveUnlists, MemInv, Scalars, Pointed
      <4> QED
        BY <3>2, <4>1, ProcessesCut DEF MemInv, Pointed
    <3>3. index[c] \in Nat /\ Len(processes) \in Nat
      BY DEF MemInv, Scalars, Pointed
    <3> QED
      BY <3>1, <3>2, <3>3
  <2>3. Pointed'
    BY <1>2, <2>2 DEF RemoveUnlists, MemInv, Pointed
  <2>4. Alive' /\ CutReady'
    BY <1>2 DEF MemInv, Scalars, Alive, CutReady, RemoveUnlists, Goto, StepFrame, fileVars
  <2> QED
    BY <2>1, <2>3, <2>4 DEF MemInv
<1>3. CASE RemoveSearches(c)
  <2>1. \A i \in ConfigIndex(target[c]) : i \in 1 .. list.len /\ i \in Nat
    BY DEF ConfigIndex, First, MemInv, Pointed, Slices
  <2>2. Scalars'
    BY <1>3, <2>1 DEF MemInv, Scalars, RemoveSearches, Goto, StepFrame, fileVars, Locations
  <2>3. Pointed'
    BY <1>3 DEF MemInv, Pointed, RemoveSearches, memVars
  <2>4. Alive'
    BY <1>3 DEF MemInv, Scalars, Alive, RemoveSearches, Goto, StepFrame, fileVars
  <2>5. CutReady'
    <3> SUFFICES ASSUME NEW d \in Commands, pc'[d] = "cut"
                 PROVE  slice'[d] # Nil /\ index'[d] \in 1 .. slice'[d].len
      BY DEF CutReady
    <3>1. CASE d = c
      <4>1. PICK i \in ConfigIndex(target[c]) : index' = [index EXCEPT ![c] = i]
        BY <1>3, <3>1 DEF RemoveSearches, Goto, MemInv, Scalars
      <4>2. slice'[c] = list /\ index'[c] = i
        BY <1>3, <4>1 DEF RemoveSearches, MemInv, Scalars, Pointed
      <4>3. list # Nil
        BY <2>1 DEF Nil
      <4> QED
        BY <2>1, <3>1, <4>2, <4>3
    <3>2. CASE d # c
      <4>1. pc'[d] = pc[d] /\ slice'[d] = slice[d] /\ index'[d] = index[d]
        BY <1>3, <3>2 DEF RemoveSearches, Goto, MemInv, Scalars, Pointed
      <4> QED
        BY <4>1 DEF MemInv, CutReady
    <3> QED
      BY <3>1, <3>2
  <2> QED
    BY <2>2, <2>3, <2>4, <2>5 DEF MemInv
<1>4. CASE RemoveCuts(c)
  <2> DEFINE l == slice[c]
             b == [arrays EXCEPT ![l.array] = Cut(@, index[c], l.len)]
             m == [l EXCEPT !.len = @ - 1]
  <2>1. arrays' = b /\ list' = m
    BY <1>4 DEF RemoveCuts
  <2>2. /\ l \in Slices /\ IsFilled(arrays, l) /\ arrays \in Heap
        /\ l # Nil /\ index[c] \in 1 .. l.len
    BY <1>4 DEF MemInv, Pointed, CutReady, RemoveCuts
  <2>3. b \in Heap /\ Grows(arrays, b) /\ m \in Slices /\ IsFilled(b, m)
    <3> HIDE DEF l
    <3> QED
      BY <2>2, ArrayCut
  <2> HIDE DEF b, m
  <2>4. Pointed'
    BY <1>4, <2>1, <2>3, PointedStays DEF RemoveCuts, MemInv, Pointed
  <2>5. Scalars'
    BY <1>4 DEF MemInv, Scalars, RemoveCuts, Goto, StepFrame, fileVars, Locations
  <2>6. Alive' /\ CutReady'
    BY <1>4 DEF MemInv, Scalars, Alive, CutReady, RemoveCuts, Goto, StepFrame, fileVars
  <2> QED
    BY <2>4, <2>5, <2>6 DEF MemInv
<1> QED
  BY <1>0, <1>1, <1>2, <1>3, <1>4 DEF Removes

LEMMA UpdatesMem == ASSUME MemInv, NEW c \in Commands, Updates(c) PROVE MemInv'
<1>0. NewConfig(c) \in Configs
  BY DEF MemInv, Scalars, NewConfig, Configs
<1>1. CASE UpdateConfigures(c)
  <2>1. arrays' \in Heap /\ Grows(arrays, arrays')
    <3>1. CASE UNCHANGED arrays
      BY <3>1 DEF MemInv, Pointed, Grows, Heap
    <3>2. ASSUME NEW i \in GetProcessByID(target[c]),
                 arrays' = [arrays EXCEPT
                   ![processes[i].array][processes[i].slot] = NewConfig(c)]
          PROVE  arrays' \in Heap /\ Grows(arrays, arrays')
      <4>1. i \in DOMAIN processes
        BY DEF GetProcessByID, First
      <4>2. /\ processes[i].array \in DOMAIN arrays
            /\ processes[i].slot \in DOMAIN arrays[processes[i].array]
        BY <4>1 DEF MemInv, Pointed, IsPointer
      <4> QED
        BY <1>0, <3>2, <4>2, SlotWritten DEF MemInv, Pointed
    <3> QED
      BY <1>1, <3>1, <3>2 DEF UpdateConfigures
  <2>2. Pointed'
    BY <1>1, <2>1, PointedStays DEF UpdateConfigures, MemInv, Pointed
  <2>3. Scalars'
    BY <1>1 DEF MemInv, Scalars, UpdateConfigures, Goto, StepFrame, fileVars, Locations
  <2>4. Alive' /\ CutReady'
    BY <1>1 DEF MemInv, Scalars, Alive, CutReady, UpdateConfigures, Goto, StepFrame, fileVars
  <2> QED
    BY <2>2, <2>3, <2>4 DEF MemInv
<1>2. CASE UpdateRestarts(c)
  <2>1. Scalars'
    BY <1>2 DEF MemInv, Scalars, UpdateRestarts, Goto, StepFrame, fileVars, Locations
  <2> QED
    BY <1>2, <2>1, QuietStep DEF UpdateRestarts, Goto, StepFrame, fileVars, Locations
<1>3. CASE UpdateReplaces(c)
  <2>1. arrays' \in Heap /\ Grows(arrays, arrays')
    <3>1. CASE UNCHANGED arrays
      BY <3>1 DEF MemInv, Pointed, Grows, Heap
    <3>2. ASSUME NEW i \in ConfigIndex(target[c]),
                 arrays' = [arrays EXCEPT ![list.array][i] = NewConfig(c)]
          PROVE  arrays' \in Heap /\ Grows(arrays, arrays')
      <4>1. i \in 1 .. list.len
        BY DEF ConfigIndex, First
      <4>2. list # Nil
        BY <4>1 DEF Nil
      <4>3. list.array \in DOMAIN arrays /\ i \in DOMAIN arrays[list.array]
        BY <4>1, <4>2 DEF MemInv, Pointed, IsFilled, Heap, Slices
      <4> QED
        BY <1>0, <3>2, <4>3, SlotWritten DEF MemInv, Pointed
    <3> QED
      BY <1>3, <3>1, <3>2 DEF UpdateReplaces
  <2>2. Pointed'
    BY <1>3, <2>1, PointedStays DEF UpdateReplaces, MemInv, Pointed
  <2>3. Scalars'
    BY <1>3 DEF MemInv, Scalars, UpdateReplaces, Goto, StepFrame, fileVars, Locations
  <2>4. Alive' /\ CutReady'
    BY <1>3 DEF MemInv, Scalars, Alive, CutReady, UpdateReplaces, Goto, StepFrame, fileVars
  <2> QED
    BY <2>2, <2>3, <2>4 DEF MemInv
<1> QED
  BY <1>1, <1>2, <1>3 DEF Updates

LEMMA ResetsMem == ASSUME MemInv, NEW c \in Commands, Resets(c) PROVE MemInv'
<1>1. CASE ResetClears(c)
  <2>1. <<DefaultConfig(1)>> \in Seq(Configs)
    BY IdsAssumption DEF DefaultConfig, Configs
  <2>2. /\ arrays' \in Heap /\ Grows(arrays, arrays')
        /\ list' \in Slices /\ IsFilled(arrays', list')
    BY <1>1, <2>1, LoadLoads DEF ResetClears, MemInv, Pointed
  <2>3. Pointed'
    BY <1>1, <2>2, PointedStays DEF ResetClears, MemInv, Pointed
  <2>4. Scalars'
    BY <1>1 DEF MemInv, Scalars, ResetClears, Goto, StepFrame, fileVars, Locations
  <2>5. Alive' /\ CutReady'
    BY <1>1 DEF MemInv, Scalars, Alive, CutReady, ResetClears, Goto, StepFrame, fileVars
  <2> QED
    BY <2>3, <2>4, <2>5 DEF MemInv
<1>2. CASE ResetReads(c)
  <2>1. file \in Seq(Configs) \cup {Null, Torn}
    BY <1>2 DEF ResetReads, MemInv, Alive, Scalars
  <2>2. Scalars'
    BY <1>2, <2>1 DEF MemInv, Scalars, ResetReads, Goto, StepFrame, fileVars, Locations
  <2> QED
    BY <1>2, <2>2, QuietStep DEF ResetReads, Goto, StepFrame, fileVars, Locations
<1>3. CASE ResetInits(c)
  <2>1. /\ arrays' \in Heap /\ Grows(arrays, arrays')
        /\ list' \in Slices /\ IsFilled(arrays', list')
    <3>1. CASE payload[c] = Torn
      BY <1>3, <3>1 DEF ResetInits, MemInv, Pointed, Grows, Heap
    <3>2. CASE payload[c] # Torn
      <4>1. payload[c] \in Seq(Configs) \cup {Null} /\ Load(payload[c])
        BY <1>3, <3>2 DEF ResetInits, MemInv, Scalars
      <4> QED
        BY <4>1, LoadLoads DEF MemInv, Pointed
    <3> QED
      BY <3>1, <3>2
  <2>2. /\ processes' \in Seq(Pointers)
        /\ \A i \in DOMAIN processes' : IsPointer(arrays', processes'[i])
    BY <1>3, <2>1, InitProcessesPoints DEF ResetInits, MemInv
  <2>3. Pointed'
    BY <1>3, <2>1, <2>2, PointedStays DEF ResetInits, MemInv, Pointed
  <2>4. Scalars'
    BY <1>3 DEF MemInv, Scalars, ResetInits, Goto, StepFrame, fileVars, Locations
  <2>5. Alive' /\ CutReady'
    BY <1>3 DEF MemInv, Scalars, Alive, CutReady, ResetInits, Goto, StepFrame, fileVars
  <2> QED
    BY <2>3, <2>4, <2>5 DEF MemInv
<1>4. CASE ResetExits(c)
  BY <1>4, EndMem DEF ResetExits
<1> QED
  BY <1>1, <1>2, <1>3, <1>4 DEF Resets

LEMMA MemoryIs == ASSUME MemInv PROVE Memory \in Seq(Configs) \cup {Null}
<1>1. CASE list.array = 0
  BY <1>1 DEF Memory, Contents
<1>2. CASE list.array # 0
  BY <1>2, ContentsAre DEF Memory, MemInv, Pointed
<1> QED
  BY <1>1, <1>2

LEMMA SavesMem == ASSUME MemInv, NEW c \in Commands, Saves(c) PROVE MemInv'
<1>0. pc[c] \in {"lock", "marshal", "write"} => running /\ file # Absent
  BY DEF MemInv, Alive
<1>1. CASE SaveLocks(c)
  <2>1. Scalars'
    BY <1>1 DEF MemInv, Scalars, SaveLocks, Goto, histVars, Locations
  <2> QED
    BY <1>1, <2>1, QuietStep DEF SaveLocks, Goto, Locations
<1>2. CASE SaveMarshals(c)
  <2>1. Scalars'
    BY <1>2, MemoryIs DEF MemInv, Scalars, SaveMarshals, Goto, histVars, Locations
  <2>2. Pointed'
    BY <1>2, PointedUnchanged DEF SaveMarshals, MemInv
  <2>3. Alive' /\ CutReady'
    BY <1>2, FileAssumption DEF MemInv, Scalars, Alive, CutReady, SaveMarshals, Goto
  <2> QED
    BY <2>1, <2>2, <2>3 DEF MemInv
<1>3. CASE SaveWrites(c)
  <2>1. file' \in Seq(Configs) \cup {Null, Torn} /\ file' # Absent
    BY <1>3, FileAssumption DEF SaveWrites, MemInv, Scalars
  <2>2. expected' \subseteq Configs
    <3>1. DefaultConfig(target[c]) \in Configs /\ DefaultConfig(1) \in Configs /\ NewConfig(c) \in Configs
      BY IdsAssumption DEF MemInv, Scalars, DefaultConfig, NewConfig, Configs
    <3>2. op[c] \in Operations /\ expected \subseteq Configs
      BY DEF MemInv, Scalars
    <3>3. \/ expected' = expected \cup {DefaultConfig(target[c])}
          \/ expected' = {g \in expected : g.id # target[c]}
          \/ expected' = {IF g.id = target[c] THEN NewConfig(c) ELSE g : g \in expected}
          \/ expected' = {DefaultConfig(1)}
      BY <1>3 DEF SaveWrites
    <3> QED
      BY <3>1, <3>2, <3>3
  <2>3. PICK x \in Locations \ {"cut"} : pc' = [pc EXCEPT ![c] = x]
    BY <1>3 DEF SaveWrites, Goto, Locations
  <2>4. Scalars'
    BY <1>3, <2>1, <2>2, <2>3 DEF MemInv, Scalars, SaveWrites
  <2>5. Pointed'
    BY <1>3, PointedUnchanged DEF SaveWrites, MemInv
  <2>6. Alive' /\ CutReady'
    BY <1>0, <1>3, <2>1, <2>3 DEF MemInv, Scalars, Alive, CutReady, SaveWrites
  <2> QED
    BY <2>4, <2>5, <2>6 DEF MemInv
<1> QED
  BY <1>1, <1>2, <1>3 DEF Saves

LEMMA StutterMem == ASSUME MemInv, UNCHANGED vars PROVE MemInv'
<1>1. Pointed'
  BY PointedUnchanged DEF MemInv, vars, cmdVars
<1>2. Scalars' /\ Alive' /\ CutReady'
  BY DEF MemInv, vars, Scalars, Alive, CutReady, fileVars, cmdVars, histVars
<1> QED
  BY <1>1, <1>2 DEF MemInv

THEOREM MemInvariant == Spec => []MemInv
<1>1. Init => MemInv
  BY MemInit
<1>2. MemInv /\ [Next]_vars => MemInv'
  BY BootsMem, EndMem, BeginsMem, AddsMem, RemovesMem, UpdatesMem, ResetsMem, SavesMem, StutterMem
     DEF Next, Crash
<1> QED
  BY <1>1, <1>2, PTL DEF Spec

\* Every variable has its type, and no slice or pointer leads behind the end of
\* an array or to a slot nobody has written, however commands shift and outgrow
\* the array under each other (integration.go:254-274).
THEOREM TypeCorrectness == Spec => []TypeOK
<1>1. MemInv => TypeOK
  BY TypeOKParts DEF MemInv
<1> QED
  BY <1>1, MemInvariant, PTL

-----------------------------------------------------------------------------
(* The file *)

\* A command that may have changed memory and has not looked at it since, or has
\* stopped before it could.
Owing == {"restart", "replace", "lock", "marshal", "init", "exit", "failed"}

\* While somebody owes a save nothing is said.  Otherwise what is about to be
\* written is what memory holds, or what has been written is.
FileInv ==
    running =>
        \/ \E c \in Commands : pc[c] \in Owing
        \/ \E c \in Commands : pc[c] = "write" /\ payload[c] = Memory
        \/ (\A c \in Commands : pc[c] # "write") /\ Loaded(file) = Memory

\* Who marshals or writes holds the mutex.
MutexHeld == \A c \in Commands : pc[c] \in {"marshal", "write"} => saveMutex = c

SaveInv == MemInv /\ MutexHeld /\ FileInv

\* A step that leaves somebody owing.
LEMMA StillOwing ==
    ASSUME MemInv, MutexHeld, UNCHANGED <<running, saveMutex>>, NEW c \in Commands,
           NEW x \in Owing \ {"marshal"}, pc' = [pc EXCEPT ![c] = x]
    PROVE  MutexHeld' /\ FileInv'
<1>1. pc'[c] = x /\ \A d \in Commands \ {c} : pc'[d] = pc[d]
  BY DEF MemInv, Scalars
<1>2. MutexHeld'
  BY <1>1 DEF MutexHeld, Owing
<1>3. FileInv'
  BY <1>1 DEF FileInv
<1> QED
  BY <1>2, <1>3

\* A step that keeps what memory and the file hold, and takes nobody out of debt.
LEMMA NothingSaved ==
    ASSUME SaveInv, UNCHANGED <<running, file, saveMutex>>, Memory' = Memory,
           NEW c \in Commands, pc[c] \notin Owing \cup {"write"},
           NEW x \in Locations \ {"marshal", "write"}, pc' = [pc EXCEPT ![c] = x],
           \A d \in Commands \ {c} : payload'[d] = payload[d]
    PROVE  MutexHeld' /\ FileInv'
<1>1. pc'[c] = x /\ \A d \in Commands \ {c} : pc'[d] = pc[d]
  BY DEF SaveInv, MemInv, Scalars
<1>2. MutexHeld'
  BY <1>1 DEF SaveInv, MutexHeld
<1>3. FileInv'
  <2> SUFFICES ASSUME running PROVE FileInv'
    BY DEF FileInv
  <2>1. CASE \E d \in Commands : pc[d] \in Owing
    BY <1>1, <2>1 DEF FileInv
  <2>2. CASE \E d \in Commands : pc[d] = "write" /\ payload[d] = Memory
    BY <1>1, <2>2 DEF FileInv
  <2>3. CASE (\A d \in Commands : pc[d] # "write") /\ Loaded(file) = Memory
    BY <1>1, <2>3 DEF FileInv, Loaded
  <2> QED
    BY <2>1, <2>2, <2>3 DEF SaveInv, FileInv
<1> QED
  BY <1>2, <1>3

LEMMA BootsSave == ASSUME SaveInv, Boots PROVE MutexHeld' /\ FileInv'
<1>1. \A c \in Commands : pc[c] \in {"ready", "done"}
  BY DEF SaveInv, MemInv, Alive, Boots, Boot, BootDefaults, BootDies
<1>2. UNCHANGED pc
  BY DEF Boots, Boot, BootDefaults, BootDies, cmdVars
<1>3. MutexHeld'
  BY <1>1, <1>2 DEF MutexHeld
<1>4. CASE Boot
  <2>1. Loaded(file) \in Seq(Configs) \cup {Null}
    BY <1>4, FileAssumption DEF Boot, Loaded, SaveInv, MemInv, Scalars
  <2>2. Contents(arrays', list') = Loaded(file)
    BY <1>4, <2>1, LoadLoads DEF Boot, SaveInv, MemInv, Pointed
  <2>3. Memory' = Loaded(file) /\ Loaded(file') = Loaded(file)
    BY <1>4, <2>2 DEF Memory, Boot, fileVars
  <2> QED
    BY <1>1, <1>2, <1>3, <2>3 DEF FileInv, Loaded
<1>5. CASE BootDefaults
  <2>1. <<DefaultConfig(1)>> \in Seq(Configs)
    BY IdsAssumption DEF DefaultConfig, Configs
  <2>2. Contents(arrays', list') = <<DefaultConfig(1)>>
    BY <1>5, <2>1, LoadLoads DEF BootDefaults, SaveInv, MemInv, Pointed
  <2>3. file' = <<DefaultConfig(1)>> /\ file' # Torn
    BY <1>5, <2>1, FileAssumption DEF BootDefaults
  <2>4. Memory' = file'
    BY <2>2, <2>3 DEF Memory
  <2> QED
    BY <1>1, <1>2, <1>3, <2>3, <2>4 DEF FileInv, Loaded
<1>6. CASE BootDies
  BY <1>3, <1>6 DEF BootDies, FileInv
<1> QED
  BY <1>4, <1>5, <1>6 DEF Boots

LEMMA EndSave == ASSUME SaveInv, ProgramEnds PROVE MutexHeld' /\ FileInv'
  BY DEF SaveInv, MemInv, Scalars, ProgramEnds, MutexHeld, FileInv

LEMMA BeginsSave == ASSUME SaveInv, NEW c \in Commands, Begins(c) PROVE MutexHeld' /\ FileInv'
<1>1. ASSUME NEW o, NEW x, NEW l \in Locations \ {"marshal", "write"}, Begin(c, o, x, l)
      PROVE  MutexHeld' /\ FileInv'
  <2>1. Memory' = Memory
    BY <1>1 DEF Begin, memVars, Memory
  <2>2. pc[c] \notin Owing \cup {"write"}
    BY <1>1 DEF Begin, Owing
  <2> QED
    BY <1>1, <2>1, <2>2, NothingSaved DEF Begin, Goto, fileVars
<1> QED
  BY <1>1 DEF Begins, AddProcess, ResetConfigsToDefault, RemoveProcess, UpdateProcConfig, Locations

LEMMA AddsSave == ASSUME SaveInv, NEW c \in Commands, Adds(c) PROVE MutexHeld' /\ FileInv'
<1>1. CASE AddTakesID(c)
  <2>1. Memory' = Memory
    BY <1>1 DEF AddTakesID, memVars, Memory
  <2> QED
    BY <1>1, <2>1, NothingSaved DEF AddTakesID, Goto, StepFrame, fileVars, Owing, Locations
<1>2. CASE AddReads(c)
  <2>1. Memory' = Memory
    BY <1>2 DEF AddReads, memVars, Memory
  <2> QED
    BY <1>2, <2>1, NothingSaved DEF AddReads, Goto, StepFrame, fileVars, Owing, Locations
<1>3. CASE AddAppends(c)
  BY <1>3, StillOwing DEF SaveInv, AddAppends, Goto, StepFrame, fileVars, Owing
<1>4. CASE AddRegisters(c)
  <2>1. list.array = 0 \/ list.array \in DOMAIN arrays
    BY DEF SaveInv, MemInv, Pointed, IsFilled, Nil
  <2>2. <<DefaultConfig(target[c])>> \in Seq(Configs \cup {None})
    BY DEF SaveInv, MemInv, Scalars, DefaultConfig, Configs
  <2>3. list.array # 0 => arrays'[list.array] = arrays[list.array]
    BY <1>4, <2>1, <2>2 DEF AddRegisters, SaveInv, MemInv, Pointed, Heap
  <2>4. Memory' = Memory
    BY <1>4, <2>3 DEF AddRegisters, Memory, Contents
  <2> QED
    BY <1>4, <2>4, NothingSaved DEF AddRegisters, Goto, StepFrame, fileVars, Owing, Locations
<1> QED
  BY <1>1, <1>2, <1>3, <1>4 DEF Adds

LEMMA RemovesSave == ASSUME SaveInv, NEW c \in Commands, Removes(c) PROVE MutexHeld' /\ FileInv'
<1>0. CASE RemoveLooksUp(c)
  <2>1. Memory' = Memory
    BY <1>0 DEF RemoveLooksUp, memVars, Memory
  <2>2. PICK x \in {"done", "find"} : pc' = [pc EXCEPT ![c] = x]
    BY <1>0 DEF RemoveLooksUp, Goto
  <2> QED
    BY <1>0, <2>1, <2>2, NothingSaved DEF RemoveLooksUp, StepFrame, fileVars, Owing, Locations
<1>1. CASE RemoveFinds(c)
  <2>1. Memory' = Memory
    BY <1>1 DEF RemoveFinds, memVars, Memory
  <2>2. PICK x \in {"search", "unlist"} : pc' = [pc EXCEPT ![c] = x]
    BY <1>1 DEF RemoveFinds, Goto
  <2> QED
    BY <1>1, <2>1, <2>2, NothingSaved DEF RemoveFinds, StepFrame, fileVars, Owing, Locations
<1>2. CASE RemoveUnlists(c)
  <2>1. Memory' = Memory
    BY <1>2 DEF RemoveUnlists, Memory
  <2>2. PICK x \in {"search", "done"} : pc' = [pc EXCEPT ![c] = x]
    BY <1>2 DEF RemoveUnlists, Goto
  <2> QED
    BY <1>2, <2>1, <2>2, NothingSaved DEF RemoveUnlists, StepFrame, fileVars, Owing, Locations
<1>3. CASE RemoveSearches(c)
  <2>1. Memory' = Memory
    BY <1>3 DEF RemoveSearches, memVars, Memory
  <2>2. PICK x \in {"lock", "cut"} : pc' = [pc EXCEPT ![c] = x]
    BY <1>3 DEF RemoveSearches, Goto
  <2> QED
    BY <1>3, <2>1, <2>2, NothingSaved DEF RemoveSearches, StepFrame, fileVars, Owing, Locations
<1>4. CASE RemoveCuts(c)
  BY <1>4, StillOwing DEF SaveInv, RemoveCuts, Goto, StepFrame, fileVars, Owing
<1> QED
  BY <1>0, <1>1, <1>2, <1>3, <1>4 DEF Removes

LEMMA UpdatesSave == ASSUME SaveInv, NEW c \in Commands, Updates(c) PROVE MutexHeld' /\ FileInv'
<1>1. CASE UpdateConfigures(c)
  <2>1. CASE Goto(c, "done") /\ UNCHANGED arrays
    <3>1. Memory' = Memory
      BY <1>1, <2>1 DEF UpdateConfigures, Memory
    <3> QED
      BY <1>1, <2>1, <3>1, NothingSaved DEF UpdateConfigures, Goto, StepFrame, fileVars, Owing, Locations
  <2>2. CASE Goto(c, "restart")
    BY <1>1, <2>2, StillOwing DEF SaveInv, UpdateConfigures, Goto, StepFrame, fileVars, Owing
  <2> QED
    BY <1>1, <2>1, <2>2 DEF UpdateConfigures
<1>2. CASE UpdateRestarts(c)
  <2>1. PICK x \in {"replace", "failed"} : pc' = [pc EXCEPT ![c] = x]
    BY <1>2 DEF UpdateRestarts, Goto
  <2> QED
    BY <1>2, <2>1, StillOwing DEF SaveInv, UpdateRestarts, StepFrame, fileVars, Owing
<1>3. CASE UpdateReplaces(c)
  BY <1>3, StillOwing DEF SaveInv, UpdateReplaces, Goto, StepFrame, fileVars, Owing
<1> QED
  BY <1>1, <1>2, <1>3 DEF Updates

LEMMA ResetsSave == ASSUME SaveInv, NEW c \in Commands, Resets(c) PROVE MutexHeld' /\ FileInv'
<1>1. CASE ResetClears(c)
  BY <1>1, StillOwing DEF SaveInv, ResetClears, Goto, StepFrame, fileVars, Owing
<1>2. CASE ResetReads(c)
  BY <1>2, StillOwing DEF SaveInv, ResetReads, Goto, StepFrame, fileVars, Owing
<1>3. CASE ResetInits(c)
  <2>1. PICK x \in {"failed", "exit"} : pc' = [pc EXCEPT ![c] = x]
    BY <1>3 DEF ResetInits, Goto
  <2> QED
    BY <1>3, <2>1, StillOwing DEF SaveInv, ResetInits, StepFrame, fileVars, Owing
<1>4. CASE ResetExits(c)
  BY <1>4, EndSave DEF ResetExits
<1> QED
  BY <1>1, <1>2, <1>3, <1>4 DEF Resets

LEMMA SavesSave == ASSUME SaveInv, NEW c \in Commands, Saves(c) PROVE MutexHeld' /\ FileInv'
<1> USE DEF SaveInv
<1>1. CASE SaveLocks(c)
  <2>1. pc'[c] = "marshal" /\ \A d \in Commands \ {c} : pc'[d] = pc[d]
    BY <1>1 DEF SaveLocks, Goto, MemInv, Scalars
  <2>2. MutexHeld'
    BY <1>1, <2>1, CommandsAssumption DEF SaveLocks, MutexHeld
  <2>3. FileInv'
    BY <2>1 DEF FileInv, Owing
  <2> QED
    BY <2>2, <2>3
<1>2. CASE SaveMarshals(c)
  <2>1. pc'[c] = "write" /\ \A d \in Commands \ {c} : pc'[d] = pc[d]
    BY <1>2 DEF SaveMarshals, Goto, MemInv, Scalars
  <2>2. Memory' = Memory /\ payload'[c] = Memory
    BY <1>2 DEF SaveMarshals, memVars, Memory, MemInv, Scalars
  <2>3. MutexHeld'
    BY <1>2, <2>1 DEF SaveMarshals, MutexHeld
  <2>4. FileInv'
    BY <2>1, <2>2 DEF FileInv
  <2> QED
    BY <2>3, <2>4
<1>3. CASE SaveWrites(c)
  <2>1. \A d \in Commands \ {c} : pc[d] \notin {"marshal", "write"}
    BY <1>3 DEF SaveWrites, MutexHeld
  <2>2. PICK x \in {"register", "reload", "done"} : pc' = [pc EXCEPT ![c] = x]
    BY <1>3 DEF SaveWrites, Goto
  <2>3. pc'[c] = x /\ \A d \in Commands \ {c} : pc'[d] = pc[d]
    BY <2>2 DEF MemInv, Scalars
  <2>4. MutexHeld'
    BY <2>1, <2>3 DEF MutexHeld
  <2>5. Memory' = Memory /\ file' = payload[c] /\ UNCHANGED running
    BY <1>3 DEF SaveWrites, memVars, Memory
  <2>6. CASE \E d \in Commands : pc[d] \in Owing
    <3>1. PICK d \in Commands \ {c} : pc[d] \in Owing
      BY <1>3, <2>6 DEF SaveWrites, Owing
    <3> QED
      BY <2>3, <2>4, <3>1 DEF FileInv
  <2>7. CASE payload[c] = Memory
    <3>1. Memory \in Seq(Configs) \cup {Null}
      BY MemoryIs
    <3>2. Memory # Torn
      BY <3>1, FileAssumption
    <3>3. Loaded(file') = Memory'
      BY <2>5, <2>7, <3>2 DEF Loaded
    <3>4. \A d \in Commands : pc'[d] # "write"
      BY <2>1, <2>3
    <3> QED
      BY <2>4, <3>3, <3>4 DEF FileInv, Loaded
  <2>8. running
    BY <1>3 DEF SaveWrites, MemInv, Alive
  <2>9. (\E d \in Commands : pc[d] \in Owing) \/ payload[c] = Memory
    BY <1>3, <2>1, <2>8 DEF FileInv, SaveWrites
  <2> QED
    BY <2>6, <2>7, <2>9
<1> QED
  BY <1>1, <1>2, <1>3 DEF Saves

LEMMA StutterSave == ASSUME SaveInv, UNCHANGED vars PROVE MutexHeld' /\ FileInv'
<1>1. Memory' = Memory
  BY DEF vars, memVars, Memory
<1> QED
  BY <1>1 DEF SaveInv, vars, fileVars, cmdVars, MutexHeld, FileInv, Loaded

THEOREM SaveInvariant == Spec => []SaveInv
<1>1. Init => SaveInv
  BY MemInit DEF Init, SaveInv, MutexHeld, FileInv
<1>2. SaveInv /\ [Next]_vars => MutexHeld' /\ FileInv'
  BY BootsSave, EndSave, BeginsSave, AddsSave, RemovesSave, UpdatesSave, ResetsSave, SavesSave,
     StutterSave DEF Next, Crash
<1>3. SaveInv /\ MemInv' /\ [Next]_vars => SaveInv'
  BY <1>2 DEF SaveInv
<1> QED
  BY <1>1, <1>3, MemInvariant, PTL DEF Spec

\* Once the last command has returned, a restart would load what processConfigs
\* holds: the mutex spans Marshal and WriteFile, so the last writer has seen every
\* change (integration.go:155-172).
THEOREM FileConsistency == Spec => []FileFollowsMemory
<1>1. SaveInv => FileFollowsMemory
  BY DEF SaveInv, FileInv, FileFollowsMemory, Quiet, Owing
<1> QED
  BY <1>1, SaveInvariant, PTL
=============================================================================
