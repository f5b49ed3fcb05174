----------------------------- MODULE BpfLoadProofs -----------------------------
(***************************************************************************)
(* What the loader leaves in the BPF file system, for any objects and any  *)
(* files a compiler makes of them, any number of runs, of failing calls    *)
(* and of kills.                                                           *)
(***************************************************************************)
EXTENDS BpfLoad, ElfObjectProofs, TLAPS

(* The item under way is one of the object's, and not pinned before Pin.   *)
AtItem ==
    /\ pc \in {"pin", "chmod", "chown"} => n \in 1 .. Len(items)
    /\ pc = "pin" => This.path \notin DOMAIN pins /\ ids # 0
    /\ pc \in {"chmod", "chown"} =>
          /\ This.path \in DOMAIN pins /\ pins[This.path].id = ids
          /\ pins[This.path].attr # "owned"
    /\ pc = "pin" /\ ~IsMap => \A j \in This.uses : fds[j] # 0

(* Every entry of mapFds is the map that is pinned under the path of the   *)
(* item with its index.                                                    *)
Bound ==
    \A i \in 1 .. Len(items) :
        items[i].kind = "map" /\ i < n /\ fds[i] # 0 =>
            items[i].path \in DOMAIN pins /\ pins[items[i].path].id = fds[i]

(* Every pin is a record of these four.                                    *)
Pins ==
    \A p \in DOMAIN pins :
        pins[p] = [id |-> pins[p].id, shape |-> pins[p].shape, attr |-> pins[p].attr,
                   uses |-> pins[p].uses]

Inv == TypeOK /\ Pins /\ AtItem /\ Bound /\ BoundToPinned

(* What the loader reads is well formed: indices, kernels and truth values *)
(* where it uses them as such, and the maps before the programs.           *)
LEMMA ItemsWellFormed ==
    ASSUME NEW source, ProperSource(source), NEW path, NEW list,
           ItemsOf(list, path, source, Kernel)
    PROVE  WellFormed(list)
<1>1. PICK m \in Nat : m = Len(source.maps) /\ DOMAIN source.maps = 1 .. m
    <2>1. source.maps \in Seq(MapDefs)
        BY DEF ProperSource
    <2>2. QED
        BY <2>1
<1>2. PICK l \in Nat : l = Len(list) /\ DOMAIN list = 1 .. l /\ m <= l
    BY <1>1 DEF ItemsOf
<1>3. ASSUME NEW j \in 1 .. m
      PROVE  /\ list[j].kind = "map" /\ list[j].uses = {}
             /\ list[j].min \in Nat /\ list[j].max \in Nat
             /\ list[j].defined \in BOOLEAN /\ list[j].optional \in BOOLEAN
    <2>1. source.maps \in Seq(MapDefs)
        BY DEF ProperSource
    <2>2. PICK def \in MapDefs : list[j] = MapItem(path, def, Kernel)
        BY <1>1, <2>1 DEF ItemsOf
    <2>3. def.min \in Nat /\ def.max \in Nat
        BY DEF MapDefs
    <2>4. QED
        BY <2>2, <2>3 DEF MapItem
<1>4. ASSUME NEW j \in 1 .. l, j \notin 1 .. m
      PROVE  /\ list[j].kind = "prog" /\ list[j].uses \subseteq 1 .. m
             /\ list[j].min \in Nat /\ list[j].max \in Nat
             /\ list[j].defined \in BOOLEAN /\ list[j].optional \in BOOLEAN
    <2>1. j \in m + 1 .. l
        BY <1>4
    <2>2. PICK k \in DOMAIN source.progs : list[j] = AsItem(path, source, source.progs[k])
        BY <1>1, <1>2, <2>1 DEF ItemsOf
    <2>3. PICK p : p = source.progs[k]
        OBVIOUS
    <2>4. p.min \in Nat /\ p.max \in Nat /\ p.defined \in BOOLEAN /\ p.optional \in BOOLEAN
        BY <2>3 DEF ProperSource
    <2>5. QED
        BY <1>1, <2>2, <2>3, <2>4 DEF AsItem
<1>5. \A j \in 1 .. l : list[j].kind \in {"map", "prog"} /\ (list[j].kind = "map" <=> j \in 1 .. m)
    BY <1>3, <1>4
<1>6. \A j \in 1 .. l : /\ list[j].min \in Nat /\ list[j].max \in Nat
                         /\ list[j].defined \in BOOLEAN /\ list[j].optional \in BOOLEAN
    BY <1>3, <1>4
<1>7. \A j \in 1 .. l : list[j].kind = "map" => list[j].uses = {}
    BY <1>3, <1>5
<1>8. \A j \in 1 .. l : \A i \in list[j].uses : i \in 1 .. l /\ list[i].kind = "map"
    <2>1. \A j \in 1 .. l : list[j].uses \subseteq 1 .. m
        BY <1>3, <1>4
    <2>2. 1 .. m \subseteq 1 .. l
        BY <1>2
    <2>3. QED
        BY <1>5, <2>1, <2>2
<1>9. \A i, j \in 1 .. l : i < j /\ list[j].kind = "map" => list[i].kind = "map"
    <2>1. \A i, j \in 1 .. l : i < j /\ j \in 1 .. m => i \in 1 .. m
        OBVIOUS
    <2>2. QED
        BY <1>5, <2>1
<1>10. list = [j \in 1 .. Len(list) |-> list[j]]
    BY DEF ItemsOf
<1>11. QED
    BY <1>2, <1>5, <1>6, <1>7, <1>8, <1>9, <1>10 DEF WellFormed

(* An object's items are what its source declares.                         *)
LEMMA OpenReads ==
    ASSUME NEW o \in Objects, OpenObject(o)
    PROVE  /\ ProperSource(Source[o])
           /\ ItemsOf(items', o, Source[o], Kernel)
           /\ bad' \subseteq DOMAIN Source[o].maps
<1>1. PICK f \in DOMAIN Image[o] : items' = Image[o][f] /\ bad' = NonZero(f)
    BY DEF OpenObject
<1>2. f \in Builds[o] /\ Readable(f) /\ items' = ReadItems(o, f, Kernel)
    BY <1>1 DEF Image
<1>3. ProperSource(Source[o]) /\ Compiled(f, Source[o])
    BY <1>2, BpfLoadAssumption
<1>4. bad' \subseteq DOMAIN MapNames(f)
    BY <1>1 DEF NonZero
<1>5. DOMAIN MapNames(f) = DOMAIN Source[o].maps
    BY <1>3, MapsRead
<1>6. QED
    BY <1>2, <1>3, <1>4, <1>5, ItemsRead

LEMMA InvInit == Init => Inv
<1> SUFFICES ASSUME Init PROVE Inv
    OBVIOUS
<1>1. obj \in Objects
    BY BpfLoadAssumption DEF Init
<1>2. /\ DOMAIN pins = {} /\ items = <<>> /\ Len(items) = 0 /\ fds \in Seq(0 .. ids)
    BY DEF Init
<1>3. WellFormed(items)
    BY <1>2 DEF WellFormed
<1>4. TypeOK
    <2>1. /\ MaxRuns \in Nat /\ MaxCrashes \in Nat /\ MaxFaults \in Nat
        BY BpfLoadAssumption
    <2>2. /\ todo = {} /\ loaded = {} /\ bad = {} /\ ids = 0 /\ retVal = 0 /\ n = 1
          /\ pc = "off" /\ critical = FALSE /\ clean = TRUE
          /\ runs = 0 /\ crashes = 0 /\ faults = 0
        BY DEF Init
    <2>3. n \in 1 .. Len(items) + 1 /\ 1 .. Len(items) = {}
        BY <1>2, <2>2
    <2>4. QED
        <3>1. critical \in BOOLEAN /\ clean \in BOOLEAN /\ retVal \in {0, -1}
            BY <2>2
        <3>2. runs \in 0 .. MaxRuns /\ crashes \in 0 .. MaxCrashes /\ faults \in 0 .. MaxFaults
            BY <2>1, <2>2
        <3>3. pc \in Places /\ ids \in Nat
            BY <2>2 DEF Places, Stopped
        <3>4. todo \subseteq Objects /\ loaded \subseteq Objects /\ bad \subseteq 1 .. Len(items)
            BY <2>2
        <3>5. QED
            BY <1>1, <1>2, <1>3, <2>3, <3>1, <3>2, <3>3, <3>4 DEF TypeOK
<1>5. QED
    BY <1>2, <1>4 DEF Init, Inv, Pins, AtItem, Bound, BoundToPinned

(* mapFds holds an entry for each map up to the current item.              *)
LEMMA MapsFirst ==
    ASSUME TypeOK, n \in 1 .. Len(items)
    PROVE  /\ IsMap => Len(fds) = n - 1
           /\ ~IsMap => \A j \in This.uses : j \in 1 .. Len(fds) /\ j < n
                                             /\ j \in 1 .. Len(items) /\ items[j].kind = "map"
<1>1. /\ Len(items) \in Nat /\ Len(fds) \in Nat /\ DOMAIN items = 1 .. Len(items)
      /\ \A i, j \in 1 .. Len(items) : i < j /\ items[j].kind = "map" => items[i].kind = "map"
      /\ \A i \in 1 .. Len(items) : \A j \in items[i].uses :
            j \in 1 .. Len(items) /\ items[j].kind = "map"
      /\ \A i \in 1 .. Len(items) : items[i].kind = "map" => (i \in 1 .. Len(fds) <=> i < n)
    BY DEF TypeOK, WellFormed
<1>2. ASSUME IsMap PROVE Len(fds) = n - 1
    <2>1. \A i \in 1 .. n - 1 : i \in 1 .. Len(fds)
        BY <1>1, <1>2 DEF IsMap, This
    <2>2. n \notin 1 .. Len(fds)
        BY <1>1, <1>2 DEF IsMap, This
    <2>3. CASE n = 1
        BY <1>1, <2>2, <2>3
    <2>4. CASE n > 1
        <3>1. n - 1 \in 1 .. Len(fds)
            BY <2>1, <2>4
        <3>2. QED
            BY <1>1, <2>2, <3>1
    <2>5. QED
        BY <2>3, <2>4
<1>3. ASSUME ~IsMap, NEW j \in This.uses
      PROVE  j \in 1 .. Len(fds) /\ j < n /\ j \in 1 .. Len(items) /\ items[j].kind = "map"
    <2>1. j \in 1 .. Len(items) /\ items[j].kind = "map"
        BY <1>1, <1>3 DEF This
    <2>2. j < n
        BY <1>1, <1>3, <2>1 DEF IsMap, This
    <2>3. QED
        BY <1>1, <2>1, <2>2
<1>4. QED
    BY <1>2, <1>3

(* The loader goes on to the next item, with id for the map it is at.      *)
LEMMA NextItemKeeps ==
    ASSUME TypeOK, n \in 1 .. Len(items), NEW id \in 0 .. ids, NextItem(id), ids' = ids,
           items' = items
    PROVE  /\ n' \in 1 .. Len(items') + 1
           /\ fds' \in Seq(0 .. ids')
           /\ \A i \in 1 .. Len(items') :
                 items'[i].kind = "map" => (i \in 1 .. Len(fds') <=> i < n')
           /\ \A i \in 1 .. Len(items) :
                 items[i].kind = "map" /\ i < n' =>
                     \/ i < n /\ fds'[i] = fds[i]
                     \/ i = n /\ fds'[i] = id
<1>1. /\ fds \in Seq(0 .. ids) /\ n' = n + 1 /\ Len(items) \in Nat
      /\ \A i \in 1 .. Len(items) : items[i].kind = "map" => (i \in 1 .. Len(fds) <=> i < n)
    BY DEF TypeOK, NextItem, WellFormed
<1>2. CASE IsMap
    <2>1. fds' = Append(fds, id) /\ Len(fds) = n - 1
        BY <1>2, MapsFirst DEF NextItem
    <2>2. /\ fds' \in Seq(0 .. ids) /\ Len(fds') = n /\ fds'[n] = id
          /\ \A i \in 1 .. n - 1 : fds'[i] = fds[i]
        BY <1>1, <2>1
    <2>3. /\ \A i \in 1 .. Len(items') :
                items'[i].kind = "map" => (i \in 1 .. Len(fds') <=> i < n')
          /\ n' \in 1 .. Len(items') + 1
        BY <1>1, <2>2
    <2>4. ASSUME NEW i \in 1 .. Len(items), i < n'
          PROVE  \/ i < n /\ fds'[i] = fds[i]
                 \/ i = n /\ fds'[i] = id
        <3>1. i \in 1 .. n - 1 \/ i = n
            BY <1>1, <2>4
        <3>2. QED
            BY <1>1, <2>2, <3>1
    <2>5. QED
        BY <2>2, <2>3, <2>4
<1>3. CASE ~IsMap
    BY <1>1, <1>3 DEF NextItem, IsMap, This
<1>4. QED
    BY <1>2, <1>3

(* What every step may change.                                             *)
Rest ==
    /\ todo \subseteq Objects /\ loaded \subseteq Objects
    /\ retVal \in {0, -1}
    /\ clean \in BOOLEAN
    /\ runs \in 0 .. MaxRuns /\ crashes \in 0 .. MaxCrashes /\ faults \in 0 .. MaxFaults

(* A step that makes and pins nothing, between two items or objects.       *)
LEMMA QuietKeeps ==
    ASSUME Inv, UNCHANGED <<pins, ids, object, n, fds>>, Rest',
           pc' \in Stopped \cup {"dir", "next", "exec", "item"}
    PROVE  Inv'
<1>1. TypeOK'
    BY DEF Inv, TypeOK, Rest, object, Places, ItemPlaces, WellFormed
<1>2. Pins' /\ AtItem' /\ Bound' /\ BoundToPinned'
    BY DEF Inv, Pins, AtItem, Bound, BoundToPinned, Stopped, object
<1>3. QED
    BY <1>1, <1>2 DEF Inv

(* A step to the next item.  The pins keep their ids, and the one that is  *)
(* entered into mapFds is that of the item's path.                         *)
LEMMA AdvanceKeeps ==
    ASSUME Inv, n \in 1 .. Len(items), NEW id \in 0 .. ids, NextItem(id),
           UNCHANGED <<ids, object>>, Rest',
           DOMAIN pins' = DOMAIN pins,
           \A p \in DOMAIN pins : /\ pins'[p].id = pins[p].id /\ pins'[p].uses = pins[p].uses
                                  /\ pins'[p].attr \in {"default", "mode", "owned"},
           Pins',
           IsMap /\ id # 0 => This.path \in DOMAIN pins /\ pins[This.path].id = id
    PROVE  Inv'
<1>1. TypeOK /\ UNCHANGED <<obj, items, critical, bad>>
    BY DEF Inv, object
<1>2. /\ n' \in 1 .. Len(items') + 1
      /\ fds' \in Seq(0 .. ids')
      /\ \A i \in 1 .. Len(items') : items'[i].kind = "map" => (i \in 1 .. Len(fds') <=> i < n')
      /\ \A i \in 1 .. Len(items) :
            items[i].kind = "map" /\ i < n' =>
                \/ i < n /\ fds'[i] = fds[i]
                \/ i = n /\ fds'[i] = id
    BY <1>1, NextItemKeeps
<1>3. pc' = "item"
    BY DEF NextItem
<1>4. TypeOK'
    <2>1. /\ WellFormed(items') /\ critical' \in BOOLEAN /\ obj' \in Objects
          /\ ids' \in Nat /\ pc' \in Places
        BY <1>1, <1>3 DEF TypeOK, Places, ItemPlaces
    <2>2. \A p \in DOMAIN pins' :
             pins'[p].id \in 1 .. ids' /\ pins'[p].attr \in {"default", "mode", "owned"}
        BY <1>1 DEF TypeOK
    <2>3. Rest' /\ bad' \subseteq 1 .. Len(items')
        BY <1>1 DEF TypeOK
    <2>4. QED
        BY <1>2, <2>1, <2>2, <2>3 DEF TypeOK, Rest
<1>5. AtItem'
    BY <1>3 DEF AtItem
<1>6. Bound'
    BY <1>1, <1>2 DEF Inv, Bound, IsMap, This
<1>7. BoundToPinned'
    BY DEF Inv, BoundToPinned
<1>8. QED
    BY <1>4, <1>5, <1>6, <1>7 DEF Inv

LEMMA RestNext ==
    ASSUME TypeOK, Next
    PROVE  Rest'
<1>0. Rest /\ MaxRuns \in Nat /\ MaxCrashes \in Nat /\ MaxFaults \in Nat
    BY BpfLoadAssumption DEF TypeOK, Rest
<1> USE <1>0 DEF Rest, run, bounds, object
<1>1. CASE Start
    BY <1>1 DEF Start
<1>2. CASE MakeDir \/ DirFails \/ DirDone \/ Exec \/ ExecFails
    <2>1. UNCHANGED <<todo, loaded, retVal, runs, crashes>>
        BY <1>2 DEF MakeDir, DirFails, DirDone, Exec, ExecFails
    <2>2. UNCHANGED <<clean, faults>> \/ Fault
        BY <1>2 DEF MakeDir, DirFails, DirDone, Exec, ExecFails
    <2>3. clean' \in BOOLEAN
        BY <2>2 DEF Fault
    <2>4. faults' \in 0 .. MaxFaults
        BY <2>2 DEF Fault
    <2>5. QED
        BY <2>1, <2>3, <2>4
<1>3. ASSUME NEW o \in Objects, OpenObject(o) PROVE Rest'
    BY <1>3 DEF OpenObject
<1>4. ASSUME NEW o \in Objects, RefuseObject(o) PROVE Rest'
    BY <1>4 DEF RefuseObject, ObjectOver, NoFault
<1>5. CASE Skip \/ Reuse \/ Create
    <2>1. UNCHANGED <<todo, loaded, retVal, clean, runs, crashes, faults>>
        BY <1>5 DEF Skip, Reuse, Create
    <2>2. QED
        BY <2>1
<1>6. CASE SkipRejected \/ Abort
    <2>1. UNCHANGED <<todo, retVal, runs, crashes>> /\ loaded' \in {loaded, {}}
        BY <1>6 DEF SkipRejected, Abort
    <2>2. UNCHANGED <<clean, faults>> \/ Fault
        BY <1>6 DEF SkipRejected, Abort, NoFault
    <2>3. clean' \in BOOLEAN
        BY <2>2 DEF Fault
    <2>4. faults' \in 0 .. MaxFaults
        BY <2>2 DEF Fault
    <2>5. QED
        BY <2>1, <2>3, <2>4
<1>7. ASSUME NEW o \in Objects, OpenFails(o) PROVE Rest'
    <2>1. ObjectOver(o, FALSE, -1) /\ UNCHANGED <<runs, crashes>> /\ Fault
        BY <1>7 DEF OpenFails
    <2>2. clean' \in BOOLEAN
        BY <2>1 DEF Fault
    <2>3. faults' \in 0 .. MaxFaults
        BY <2>1 DEF Fault
    <2>4. QED
        BY <2>1, <2>2, <2>3 DEF ObjectOver
<1>8. CASE ObjectFails \/ CallFails \/ ObjectDone
    <2>1. PICK ret \in {0, -1} : ObjectOver(obj, critical, ret)
        BY <1>8 DEF ObjectFails, CallFails, ObjectDone
    <2>2. UNCHANGED <<runs, crashes>> /\ (UNCHANGED <<clean, faults>> \/ Fault)
        BY <1>8 DEF ObjectFails, CallFails, ObjectDone, NoFault
    <2>3. obj \in Objects
        BY DEF TypeOK
    <2>4. clean' \in BOOLEAN
        BY <2>2 DEF Fault
    <2>5. faults' \in 0 .. MaxFaults
        BY <2>2 DEF Fault
    <2>6. /\ todo' \subseteq Objects /\ loaded' \subseteq Objects
          /\ retVal' \in {0, -1}
        BY <2>1, <2>3 DEF ObjectOver
    <2>7. QED
        BY <2>2, <2>4, <2>5, <2>6
<1>9. CASE Pin \/ Chmod \/ Chown
    <2>1. UNCHANGED <<todo, loaded, retVal, clean, runs, crashes, faults>>
        BY <1>9 DEF Pin, Chmod, Chown
    <2>2. QED
        BY <2>1
<1>10. CASE Crash
    BY <1>10 DEF Crash
<1>11. QED
    BY <1>1, <1>2, <1>3, <1>4, <1>5, <1>6, <1>7, <1>8, <1>9, <1>10 DEF Next, LoaderStep

LEMMA OpenKeeps ==
    ASSUME Inv, NEW o \in Objects, OpenObject(o), Rest'
    PROVE  Inv'
<1>1. WellFormed(items')
    BY OpenReads, ItemsWellFormed
<1>2. /\ pc' = "item" /\ obj' = o /\ n' = 1 /\ fds' = <<>> /\ UNCHANGED <<pins, ids>>
      /\ critical' \in BOOLEAN
    BY DEF OpenObject, IsCritical, HasSection
<1>3. /\ Len(items') \in Nat /\ n' \in 1 .. Len(items') + 1
      /\ fds' \in Seq(0 .. ids') /\ Len(fds') = 0
    BY <1>1, <1>2 DEF WellFormed
<1>4. \A i \in 1 .. Len(items') : ~(i < n') /\ i \notin 1 .. Len(fds')
    BY <1>2, <1>3
<1>5. bad' \subseteq 1 .. Len(items')
    <2>1. PICK m \in Nat : m = Len(Source[o].maps) /\ DOMAIN Source[o].maps = 1 .. m
        <3>1. Source[o].maps \in Seq(MapDefs)
            BY OpenReads DEF ProperSource
        <3>2. QED
            BY <3>1
    <2>2. m <= Len(items') /\ bad' \subseteq 1 .. m
        BY <2>1, OpenReads DEF ItemsOf
    <2>3. QED
        BY <1>3, <2>1, <2>2
<1>6. TypeOK'
    BY <1>1, <1>2, <1>3, <1>4, <1>5 DEF Inv, TypeOK, Rest, Places, ItemPlaces
<1>7. Pins' /\ AtItem' /\ Bound' /\ BoundToPinned'
    BY <1>2, <1>4 DEF Inv, Pins, AtItem, Bound, BoundToPinned
<1>8. QED
    BY <1>6, <1>7 DEF Inv

(* Skip and SkipRejected enter no map; Reuse enters the one it found.      *)
LEMMA PassKeeps ==
    ASSUME Inv, Skip \/ Reuse \/ SkipRejected, Rest'
    PROVE  Inv'
<1>1. /\ n \in 1 .. Len(items) /\ UNCHANGED <<pins, ids, object>>
    BY DEF Inv, TypeOK, WellFormed, Skip, Reuse, SkipRejected, Wanted, Loading,
           MayBeLeft
<1>2. PICK id \in 0 .. ids :
          NextItem(id) /\ (id # 0 => Pinned /\ pins[This.path].id = id)
    <2>1. CASE Skip \/ SkipRejected
        <3>1. NextItem(0) /\ 0 \in 0 .. ids
            BY <2>1 DEF Skip, SkipRejected, Inv, TypeOK
        <3>2. QED
            BY <3>1
    <2>2. CASE Reuse
        <3>1. Pinned /\ NextItem(pins[This.path].id)
            BY <2>2 DEF Reuse
        <3>2. pins[This.path].id \in 0 .. ids
            BY <3>1 DEF Pinned, Inv, TypeOK
        <3>3. QED
            BY <3>1, <3>2
    <2>3. QED
        BY <2>1, <2>2
<1>3. QED
    BY <1>1, <1>2, AdvanceKeeps DEF Inv, TypeOK, Pins, Pinned

LEMMA CreateKeeps ==
    ASSUME Inv, Create, Rest'
    PROVE  Inv'
<1>1. /\ n \in 1 .. Len(items) /\ ~Pinned /\ (IsMap \/ Accepted)
      /\ ids' = ids + 1 /\ pc' = "pin"
      /\ UNCHANGED <<pins, obj, items, critical, bad, n, fds>>
    BY DEF Create, Wanted, Loading, Inv, TypeOK, WellFormed, run, object
<1>2. TypeOK'
    <2>1. ids' \in Nat /\ fds' \in Seq(0 .. ids')
        BY <1>1 DEF Inv, TypeOK
    <2>2. \A p \in DOMAIN pins' : pins'[p].id \in 1 .. ids'
        BY <1>1 DEF Inv, TypeOK
    <2>3. /\ WellFormed(items') /\ pc' \in Places /\ obj' \in Objects /\ critical' \in BOOLEAN
          /\ \A i \in 1 .. Len(items') :
                items'[i].kind = "map" => (i \in 1 .. Len(fds') <=> i < n')
        BY <1>1 DEF Inv, TypeOK, Places, ItemPlaces
    <2>4. /\ n' \in 1 .. Len(items') + 1 /\ bad' \subseteq 1 .. Len(items')
          /\ \A p \in DOMAIN pins' : pins'[p].attr \in {"default", "mode", "owned"}
        BY <1>1 DEF Inv, TypeOK
    <2>5. QED
        BY <2>1, <2>2, <2>3, <2>4 DEF TypeOK, Rest
<1>3. AtItem'
    <2>1. ids' # 0
        BY <1>1 DEF Inv, TypeOK
    <2>2. QED
        BY <1>1, <2>1 DEF AtItem, Pinned, Accepted, IsMap, This
<1>4. Pins' /\ Bound' /\ BoundToPinned'
    BY <1>1 DEF Inv, Pins, Bound, BoundToPinned
<1>5. QED
    BY <1>2, <1>3, <1>4 DEF Inv

(* A program is pinned with the ids of the pinned maps it was bound to.    *)
LEMMA PinKeeps ==
    ASSUME Inv, Pin, Rest'
    PROVE  Inv'
<1>1. /\ n \in 1 .. Len(items) /\ This.path \notin DOMAIN pins
      /\ pc' = "chmod"
      /\ UNCHANGED <<ids, obj, items, critical, bad, n, fds>>
      /\ TypeOK /\ Pins /\ Bound /\ BoundToPinned
    BY DEF Pin, Inv, AtItem, run, object
<1>2. /\ DOMAIN pins' = DOMAIN pins \cup {This.path}
      /\ \A p \in DOMAIN pins : pins'[p] = pins[p]
      /\ pins'[This.path].id = ids /\ pins'[This.path].attr = "default"
      /\ pins'[This.path].uses =
             [q \in {items[j].path : j \in This.uses} |->
                 fds[CHOOSE j \in This.uses : items[j].path = q]]
    BY <1>1 DEF Pin
<1>3. ids \in Nat /\ ids # 0
    BY DEF Pin, Inv, TypeOK, AtItem
<1>4. TypeOK'
    <2>1. \A p \in DOMAIN pins' : pins'[p].id \in 1 .. ids'
                                    /\ pins'[p].attr \in {"default", "mode", "owned"}
        BY <1>1, <1>2, <1>3 DEF TypeOK
    <2>2. QED
        BY <1>1, <1>2, <2>1 DEF TypeOK, Rest, Places, ItemPlaces, WellFormed
<1>5. AtItem' /\ Bound'
    BY <1>1, <1>2 DEF AtItem, Bound, This
<1>6. Pins'
    BY <1>1, <1>2 DEF Pin, Pins
<1>7. ASSUME NEW q \in DOMAIN pins'[This.path].uses
      PROVE  q \in DOMAIN pins' /\ pins'[q].id = pins'[This.path].uses[q]
    <2>1. PICK j \in This.uses : items[j].path = q
        BY <1>2, <1>7
    <2> DEFINE i == CHOOSE m \in This.uses : items[m].path = q
    <2>2. i \in This.uses /\ items[i].path = q
        BY <2>1
    <2>3. ~IsMap
        BY <1>1, <2>2 DEF TypeOK, WellFormed, IsMap, This
    <2>4. i < n /\ i \in 1 .. Len(items) /\ items[i].kind = "map" /\ fds[i] # 0
        BY <1>1, <2>2, <2>3, MapsFirst DEF Pin, Inv, AtItem
    <2>5. q \in DOMAIN pins /\ pins[q].id = fds[i]
        BY <1>1, <2>2, <2>4 DEF Bound
    <2>6. QED
        BY <1>2, <2>1, <2>5
<1>8. ASSUME NEW p \in DOMAIN pins, NEW q \in DOMAIN pins'[p].uses
      PROVE  q \in DOMAIN pins' /\ pins'[q].id = pins'[p].uses[q]
    <2>1. q \in DOMAIN pins[p].uses /\ pins'[p].uses = pins[p].uses
        BY <1>2, <1>8
    <2>2. q \in DOMAIN pins /\ pins[q].id = pins[p].uses[q]
        BY <1>1, <1>8, <2>1 DEF BoundToPinned
    <2>3. QED
        BY <1>2, <2>1, <2>2
<1>9. BoundToPinned'
    <2>1. \A p \in DOMAIN pins' : p \in DOMAIN pins \/ p = This.path
        BY <1>2
    <2>2. QED
        BY <1>7, <1>8, <2>1 DEF BoundToPinned
<1>10. QED
    BY <1>4, <1>5, <1>6, <1>9 DEF Inv

(* The mode and the owner are set on the pin that was just made.           *)
LEMMA ChmodKeeps ==
    ASSUME Inv, Chmod, Rest'
    PROVE  Inv'
<1>1. /\ n \in 1 .. Len(items) /\ pc = "chmod" /\ pc' = "chown"
      /\ UNCHANGED <<ids, obj, items, critical, bad, n, fds>>
      /\ This.path \in DOMAIN pins /\ pins[This.path].id = ids
      /\ TypeOK /\ Pins /\ Bound /\ BoundToPinned
    BY DEF Chmod, Inv, AtItem, run, object
<1>2. /\ DOMAIN pins' = DOMAIN pins
      /\ \A p \in DOMAIN pins : p # This.path => pins'[p] = pins[p]
      /\ pins'[This.path].id = ids /\ pins'[This.path].attr = "mode"
      /\ pins'[This.path].uses = pins[This.path].uses
      /\ Pins'
    BY <1>1 DEF Chmod, Pins, This
<1>3. \A p \in DOMAIN pins : pins'[p].id = pins[p].id /\ pins'[p].uses = pins[p].uses
    BY <1>1, <1>2
<1>5. TypeOK'
    <2>1. \A p \in DOMAIN pins' : /\ pins'[p].id \in 1 .. ids'
                                  /\ pins'[p].attr \in {"default", "mode", "owned"}
        BY <1>1, <1>2, <1>3 DEF TypeOK
    <2>2. QED
        BY <1>1, <1>2, <2>1 DEF TypeOK, Rest, Places, ItemPlaces, WellFormed
<1>6. AtItem'
    BY <1>1, <1>2 DEF AtItem, This
<1>7. Bound' /\ BoundToPinned'
    BY <1>1, <1>2, <1>3 DEF Bound, BoundToPinned
<1>8. QED
    BY <1>2, <1>5, <1>6, <1>7 DEF Inv

LEMMA ChownKeeps ==
    ASSUME Inv, Chown, Rest'
    PROVE  Inv'
<1>1. /\ n \in 1 .. Len(items)
      /\ This.path \in DOMAIN pins /\ pins[This.path].id = ids
      /\ UNCHANGED <<ids, object>>
      /\ TypeOK /\ Pins
    BY DEF Chown, Inv, AtItem
<1>2. /\ DOMAIN pins' = DOMAIN pins
      /\ \A p \in DOMAIN pins : p # This.path => pins'[p] = pins[p]
      /\ pins'[This.path].id = ids /\ pins'[This.path].attr = "owned"
      /\ pins'[This.path].uses = pins[This.path].uses
      /\ Pins'
    BY <1>1 DEF Chown, Pins, This
<1>3. \A p \in DOMAIN pins : /\ pins'[p].id = pins[p].id /\ pins'[p].uses = pins[p].uses
                             /\ pins'[p].attr \in {"default", "mode", "owned"}
    BY <1>1, <1>2 DEF TypeOK
<1>4. ids \in 0 .. ids /\ NextItem(ids)
    BY DEF Chown, Inv, TypeOK
<1>5. QED
    BY <1>1, <1>2, <1>3, <1>4, AdvanceKeeps

LEMMA InvNext == Inv /\ [Next]_vars => Inv'
<1> SUFFICES ASSUME Inv, [Next]_vars PROVE Inv'
    OBVIOUS
<1>1. CASE UNCHANGED vars
    <2>1. Rest'
        BY <1>1 DEF Inv, TypeOK, Rest, vars, run, bounds
    <2>2. UNCHANGED <<pins, ids, pc, obj, items, critical, bad, n, fds>>
        BY <1>1 DEF vars, run, object
    <2>3. QED
        BY <2>1, <2>2
        DEF Inv, TypeOK, Rest, WellFormed, Pins, AtItem, Bound, BoundToPinned, This, IsMap
<1>2. CASE Next
    <2>1. Rest'
        BY <1>2, RestNext DEF Inv
    <2> USE <2>1
    <2>2. CASE Start \/ MakeDir \/ DirFails \/ DirDone \/ Exec \/ ExecFails \/ Abort \/ Crash
        <3>1. UNCHANGED <<pins, ids, object, n, fds>>
            BY <2>2 DEF Start, MakeDir, DirFails, DirDone, Exec, ExecFails, Abort, Crash, run
        <3>2. pc' \in Stopped \cup {"dir", "next", "exec", "item"}
            BY <2>2 DEF Start, MakeDir, DirFails, DirDone, Exec, ExecFails, Abort, Crash, Stopped
        <3>3. QED
            BY <3>1, <3>2, QuietKeeps
    <2>3. ASSUME NEW o \in Objects, OpenObject(o) PROVE Inv'
        BY <2>3, OpenKeeps
    <2>4. ASSUME NEW o \in Objects, RefuseObject(o) \/ OpenFails(o) PROVE Inv'
        BY <2>4, QuietKeeps DEF RefuseObject, OpenFails, ObjectOver
    <2>5. CASE ObjectFails \/ CallFails \/ ObjectDone
        BY <2>5, QuietKeeps DEF ObjectFails, CallFails, ObjectDone, ObjectOver
    <2>6. CASE Skip \/ Reuse \/ SkipRejected
        BY <2>6, PassKeeps
    <2>7. CASE Create \/ Pin \/ Chmod \/ Chown
        BY <2>7, CreateKeeps, PinKeeps, ChmodKeeps, ChownKeeps
    <2>8. QED
        BY <1>2, <2>2, <2>3, <2>4, <2>5, <2>6, <2>7 DEF Next, LoaderStep
<1>3. QED
    BY <1>1, <1>2

-------------------------------------------------------------------------------
(* Inv holds in every state of every behaviour.                            *)
THEOREM Invariance == Spec => []Inv
BY InvInit, InvNext, PTL DEF Spec

(* Every variable keeps its type, and mapFds has an entry for exactly the  *)
(* maps that were dealt with.                                              *)
THEOREM TypeCorrect == Spec => []TypeOK
<1>1. Inv => TypeOK
    BY DEF Inv
<1>2. QED
    BY Invariance, <1>1, PTL

(* A pinned program works on the maps that are pinned under the names its  *)
(* source uses.                                                            *)
THEOREM ProgramsBound == Spec => []BoundToPinned
<1>1. Inv => BoundToPinned
    BY DEF Inv
<1>2. QED
    BY Invariance, <1>1, PTL

-------------------------------------------------------------------------------
(* What the mishaps leave behind.                                          *)

InHand == IF pc \in {"chmod", "chown"} THEN 1 ELSE 0

MInv == IsFiniteSet(Unowned) /\ Cardinality(Unowned) <= crashes + faults + InHand

LEMMA MInvInit == Init => MInv
<1> SUFFICES ASSUME Init PROVE MInv
    OBVIOUS
<1>1. Unowned = {} /\ crashes = 0 /\ faults = 0 /\ InHand = 0
    BY DEF Init, Unowned, InHand
<1>2. QED
    BY <1>1, FS_EmptySet DEF MInv

(* A step that leaves the pins alone lets go of the item in hand only when *)
(* a call fails or the loader is killed.                                   *)
LEMMA LetGo ==
    ASSUME Inv, Next, ~Pin, ~Chmod, ~Chown
    PROVE  pins' = pins /\ crashes + faults + InHand <= crashes' + faults' + InHand'
<1>1. crashes \in Nat /\ faults \in Nat
    BY BpfLoadAssumption DEF Inv, TypeOK
<1>2. CASE Crash
    <2>1. pins' = pins /\ crashes' = crashes + 1 /\ faults' = faults
        BY <1>2 DEF Crash
    <2>2. QED
        BY <1>1, <2>1 DEF InHand
<1>3. CASE CallFails
    <2>1. pins' = pins /\ crashes' = crashes /\ faults' = faults + 1
        BY <1>3 DEF CallFails, Fault
    <2>2. QED
        BY <1>1, <2>1 DEF InHand
<1>4. CASE ~Crash /\ ~CallFails
    <2>1. pins' = pins /\ crashes' = crashes /\ (faults' = faults \/ faults' = faults + 1)
        <3>1. CASE \/ Start \/ MakeDir \/ DirFails \/ DirDone \/ Exec \/ ExecFails \/ Abort
                   \/ ObjectFails \/ ObjectDone
            BY <3>1 DEF Start, MakeDir, DirFails, DirDone, Exec, ExecFails, Abort, ObjectFails,
                        ObjectDone, NoFault, Fault, bounds
        <3>2. CASE Skip \/ Reuse \/ Create \/ SkipRejected
            BY <3>2 DEF Skip, Reuse, Create, SkipRejected, NoFault, Fault, bounds
        <3>3. ASSUME NEW o \in Objects, OpenObject(o) \/ RefuseObject(o) \/ OpenFails(o)
              PROVE  /\ pins' = pins /\ crashes' = crashes
                     /\ faults' = faults \/ faults' = faults + 1
            BY <3>3 DEF OpenObject, RefuseObject, OpenFails, NoFault, Fault, bounds
        <3>4. QED
            BY <1>4, <3>1, <3>2, <3>3 DEF Next, LoaderStep
    <2>2. InHand = 0
        <3>1. pc \notin {"chmod", "chown"}
            BY <1>4 DEF Next, LoaderStep, Start, MakeDir, DirFails, DirDone, Exec, ExecFails, Abort,
                        ObjectFails, ObjectDone, Skip, Reuse, Create, SkipRejected, MayBeLeft,
                        Wanted, Loading, OpenObject, RefuseObject, OpenFails, Stopped
        <3>2. QED
            BY <3>1 DEF InHand
    <2>3. QED
        BY <1>1, <2>1, <2>2 DEF InHand
<1>5. QED
    BY <1>2, <1>3, <1>4

LEMMA MInvNext ==
    ASSUME Inv, MInv, [Next]_vars
    PROVE  MInv'
<1>1. /\ crashes \in Nat /\ faults \in Nat /\ IsFiniteSet(Unowned)
      /\ Cardinality(Unowned) \in Nat
      /\ Cardinality(Unowned) <= crashes + faults + InHand
    BY BpfLoadAssumption, FS_CardinalityType DEF Inv, TypeOK, MInv
<1>2. CASE UNCHANGED vars
    BY <1>2 DEF MInv, vars, bounds, Unowned, InHand
<1>3. CASE Pin
    <2>1. /\ DOMAIN pins' = DOMAIN pins \cup {This.path} /\ pins'[This.path].attr = "default"
          /\ \A p \in DOMAIN pins : pins'[p] = pins[p]
          /\ UNCHANGED <<crashes, faults>> /\ pc = "pin" /\ pc' = "chmod"
        BY <1>3 DEF Pin, Inv, AtItem, bounds
    <2>2. Unowned' = Unowned \cup {This.path}
        BY <2>1 DEF Unowned
    <2>3. InHand = 0 /\ InHand' = 1
        BY <2>1 DEF InHand
    <2>4. IsFiniteSet(Unowned') /\ Cardinality(Unowned') <= Cardinality(Unowned) + 1
        BY <1>1, <2>2, FS_AddElement
    <2>5. Cardinality(Unowned') \in Nat
        BY <2>4, FS_CardinalityType
    <2>6. QED
        BY <1>1, <2>1, <2>3, <2>4, <2>5 DEF MInv
<1>4. CASE Chmod
    <2>1. /\ DOMAIN pins' = DOMAIN pins /\ pins'[This.path].attr = "mode"
          /\ \A p \in DOMAIN pins : p # This.path => pins'[p] = pins[p]
          /\ UNCHANGED <<crashes, faults>> /\ pc = "chmod" /\ pc' = "chown"
        BY <1>4 DEF Chmod, Inv, Pins, AtItem, bounds
    <2>2. Unowned' = Unowned
        BY <1>4, <2>1 DEF Unowned, Inv, AtItem
    <2>3. InHand = 1 /\ InHand' = 1
        BY <2>1 DEF InHand
    <2>4. QED
        BY <1>1, <2>1, <2>2, <2>3 DEF MInv
<1>5. CASE Chown
    <2>1. /\ DOMAIN pins' = DOMAIN pins /\ pins'[This.path].attr = "owned"
          /\ \A p \in DOMAIN pins : p # This.path => pins'[p] = pins[p]
          /\ UNCHANGED <<crashes, faults>> /\ pc = "chown" /\ pc' = "item"
        BY <1>5 DEF Chown, NextItem, Inv, Pins, AtItem, bounds
    <2>2. Unowned' = Unowned \ {This.path} /\ This.path \in Unowned
        BY <1>5, <2>1 DEF Unowned, Inv, AtItem
    <2>3. InHand = 1 /\ InHand' = 0
        BY <2>1 DEF InHand
    <2>4. IsFiniteSet(Unowned') /\ Cardinality(Unowned') = Cardinality(Unowned) - 1
        BY <1>1, <2>2, FS_RemoveElement
    <2>5. QED
        BY <1>1, <2>1, <2>3, <2>4 DEF MInv
<1>6. CASE Next /\ ~Pin /\ ~Chmod /\ ~Chown
    <2>1. pins' = pins /\ crashes + faults + InHand <= crashes' + faults' + InHand'
        BY <1>6, LetGo
    <2>2. Unowned' = Unowned
        BY <2>1 DEF Unowned
    <2>3. crashes' \in Nat /\ faults' \in Nat
        BY <1>6, RestNext, BpfLoadAssumption DEF Inv, Rest
    <2>4. InHand \in 0 .. 1 /\ InHand' \in 0 .. 1
        BY DEF InHand
    <2>5. Cardinality(Unowned') <= crashes' + faults' + InHand'
        <3>1. PICK c \in Nat : c = Cardinality(Unowned) /\ c = Cardinality(Unowned')
            BY <1>1, <2>2
        <3>2. PICK a \in Nat, b \in Nat, i \in 0 .. 1 : a = crashes /\ b = faults /\ i = InHand
            BY <1>1, <2>4
        <3>3. PICK d \in Nat, e \in Nat, j \in 0 .. 1 :
                  d = crashes' /\ e = faults' /\ j = InHand'
            BY <2>3, <2>4
        <3>4. c <= a + b + i /\ a + b + i <= d + e + j
            BY Zenon, <1>1, <2>1, <3>1, <3>2, <3>3
        <3>5. c <= d + e + j
            BY <3>4
        <3>6. QED
            BY Zenon, <3>1, <3>3, <3>5
    <2>6. QED
        BY <1>1, <2>2, <2>5 DEF MInv
<1>7. QED
    BY <1>2, <1>3, <1>4, <1>5, <1>6

(* Each kill and each failing call leaves one pin without its owner at     *)
(* most, for any objects and any number of runs.                           *)
THEOREM OneLeftPerMishap == Spec => []MishapsLeaveOne
<1>1. Init => MInv
    BY MInvInit
<1>2. Inv /\ MInv /\ [Next]_vars => MInv'
    BY MInvNext
<1>3. MInv => MishapsLeaveOne
    BY DEF MInv, InHand, MishapsLeaveOne
<1>4. QED
    BY <1>1, <1>2, <1>3, Invariance, PTL DEF Spec

-------------------------------------------------------------------------------
(* What is read, what is pinned and what a run recovers.                   *)

Pinning == {"pin", "chmod", "chown"}

(* The items of an object are what its source declares.                    *)
AsInSource == pc \in ItemPlaces => ItemsOf(items, obj, Source[obj], Kernel)

(* What is being pinned is for this kernel.                                *)
AtKernel ==
    /\ pc \in Pinning => ForKernel(This)
    /\ pc \in {"chmod", "chown"} => pins[This.path].shape = This.shape

(* Every pin has its shape from an item for this kernel.                   *)
PinsRight ==
    \A p \in DOMAIN pins : \E o \in Objects : \E item \in DeclaredBy[o] :
        item.path = p /\ item.shape = pins[p].shape /\ ForKernel(item)

(* Only a map that is not for this kernel leaves 0 in mapFds.              *)
Filled ==
    \A i \in 1 .. Len(items) :
        items[i].kind = "map" /\ i < n /\ fds[i] = 0 => ~ForKernel(items[i])

(* In a run in which no call has failed, an object that can be loaded is   *)
(* loaded, under way or still to come.                                     *)
Coming(o) ==
    \/ o \in loaded
    \/ pc # "exec" /\ o \in todo
    \/ pc \in ItemPlaces /\ o = obj

Recovering == clean /\ pc \notin Stopped => \A o \in Objects : Loadable(o) => Coming(o)

RInv == AsInSource /\ AtKernel /\ PinsRight /\ Filled /\ Recovering

LEMMA RInvInit == Init => RInv
<1> SUFFICES ASSUME Init PROVE RInv
    OBVIOUS
<1>1. pc = "off" /\ DOMAIN pins = {} /\ Len(items) = 0
    BY DEF Init
<1>2. QED
    BY <1>1 DEF RInv, AsInSource, AtKernel, PinsRight, Filled, Recovering, ItemPlaces, Pinning,
           Stopped

(* The items of the object being loaded are those its source declares.     *)
LEMMA ItemsAre ==
    ASSUME TypeOK, AsInSource, pc \in ItemPlaces
    PROVE  /\ \A j \in 1 .. Len(items) :
                 \E d \in DeclaredBy[obj] : Declares(d, items, items[j])
           /\ \A d \in DeclaredBy[obj] :
                 \E j \in 1 .. Len(items) : Declares(d, items, items[j])
<1>1. obj \in Objects /\ ProperSource(Source[obj])
    BY BpfLoadAssumption DEF TypeOK
<1>2. ItemsOf(items, obj, Source[obj], Kernel)
    BY DEF AsInSource
<1>3. DeclaredBy[obj] = Declared(obj, Source[obj], Kernel)
    BY <1>1 DEF DeclaredBy
<1>4. QED
    BY <1>1, <1>2, <1>3, ItemsDeclared

LEMMA DeclaresForKernel ==
    ASSUME NEW d, NEW list, NEW item, Declares(d, list, item)
    PROVE  ForKernel(d) <=> ForKernel(item)
BY DEF Declares, ForKernel

(* A step between objects, which touches neither pins nor items.           *)
LEMMA BetweenKeeps ==
    ASSUME RInv, UNCHANGED <<pins, object, n, fds>>, pc' \notin ItemPlaces, Recovering'
    PROVE  RInv'
<1>1. AsInSource' /\ AtKernel' /\ PinsRight' /\ Filled'
    BY DEF RInv, AsInSource, AtKernel, PinsRight, Filled, ItemPlaces, Pinning, object
<1>2. QED
    BY <1>1 DEF RInv

(* Nothing stands in the way of an object that can be loaded.              *)
LEMMA NotInItsWay ==
    ASSUME Inv, RInv, ObjectFails
    PROVE  ~Loadable(obj)
<1> SUFFICES ASSUME Loadable(obj) PROVE FALSE
    OBVIOUS
<1>1. pc \in ItemPlaces /\ n \in 1 .. Len(items) /\ TypeOK /\ AsInSource
    BY DEF ObjectFails, Loading, Inv, RInv, TypeOK, WellFormed, ItemPlaces
<1>2. PICK d \in DeclaredBy[obj] : Declares(d, items, This)
    BY <1>1, ItemsAre DEF This
<1>3. /\ d.defined /\ d.path = This.path /\ d.shape = This.shape /\ d.kind = This.kind
      /\ d.optional = This.optional /\ d.defined = This.defined
      /\ d.uses = {items[j].path : j \in This.uses}
      /\ (ForKernel(d) <=> ForKernel(This))
    BY <1>2, DeclaresForKernel DEF Loadable, Declares
<1>4. ASSUME Wanted, Pinned, Mismatch PROVE FALSE
    <2>1. PICK q \in Objects : \E other \in DeclaredBy[q] :
              other.path = This.path /\ other.shape = pins[This.path].shape /\ ForKernel(other)
        BY <1>4 DEF RInv, PinsRight, Pinned
    <2>2. d.kind = "map" /\ ForKernel(d)
        BY <1>3, <1>4 DEF Wanted, Mismatch, IsMap
    <2>3. pins[This.path].shape = This.shape
        BY <1>3, <2>1, <2>2 DEF Loadable
    <2>4. QED
        BY <1>4, <2>3 DEF Mismatch
<1>5. ASSUME Wanted, ~IsMap, ~Accepted, ~This.optional PROVE FALSE
    <2>1. d.kind = "prog" /\ ForKernel(d) /\ ~d.optional
        <3>1. This.kind \in {"map", "prog"}
            BY <1>1 DEF TypeOK, WellFormed, This
        <3>2. QED
            BY <1>3, <1>5, <3>1 DEF Wanted, IsMap
    <2>2. d.shape \notin Rejected
          /\ \A map \in DeclaredBy[obj] : map.path \in d.uses => ForKernel(map)
        BY <2>1 DEF Loadable
    <2>3. PICK j \in This.uses : fds[j] = 0
        BY <1>3, <1>5, <2>2 DEF Accepted
    <2>4. j < n /\ j \in 1 .. Len(items) /\ items[j].kind = "map"
        BY <1>1, <1>5, <2>3, MapsFirst
    <2>5. ~ForKernel(items[j])
        BY <2>3, <2>4 DEF RInv, Filled
    <2>6. PICK e \in DeclaredBy[obj] : Declares(e, items, items[j])
        BY <1>1, <2>4, ItemsAre
    <2>7. e.path \in d.uses
        BY <1>3, <2>3, <2>6 DEF Declares
    <2>8. ForKernel(e)
        BY <2>2, <2>7
    <2>9. QED
        BY <2>5, <2>6, <2>8, DeclaresForKernel
<1>6. QED
    BY <1>3, <1>4, <1>5 DEF ObjectFails

(* An object is over.                                                      *)
LEMMA OverKeeps ==
    ASSUME Inv, RInv, NEW ret, ObjectOver(obj, critical, ret), pc \in ItemPlaces,
           UNCHANGED <<pins, object, n, fds>>,
           clean' => clean,
           clean' /\ ret # 0 => ~Loadable(obj)
    PROVE  RInv'
<1>1. /\ pc' = "next" /\ todo' = todo \ {obj}
      /\ loaded' = IF ret = 0 THEN loaded \cup {obj} ELSE loaded
    BY DEF ObjectOver
<1>2. ASSUME clean', NEW o \in Objects, Loadable(o) PROVE Coming(o)'
    <2>1. o \in loaded \/ o \in todo \/ o = obj
        BY <1>2 DEF RInv, Recovering, Coming, ItemPlaces, Stopped
    <2>2. QED
        BY <1>1, <1>2, <2>1 DEF Coming
<1>3. Recovering'
    BY <1>2 DEF Recovering, Loadable
<1>4. QED
    BY <1>1, <1>3, BetweenKeeps DEF ItemPlaces

LEMMA RefuseKeeps ==
    ASSUME Inv, RInv, NEW o \in Objects, RefuseObject(o)
    PROVE  RInv'
<1>1. /\ pc = "next" /\ pc' = "next" /\ todo' = todo \ {o} /\ loaded \subseteq loaded'
      /\ UNCHANGED <<pins, object, n, fds, clean>>
    BY DEF RefuseObject, ObjectOver, NoFault
<1>2. ~Loadable(o)
    <2>1. PICK f \in Builds[o] : ~Readable(f)
        BY DEF RefuseObject
    <2>2. DOMAIN Image[o] = {b \in Builds[o] : Readable(b)}
        BY DEF Image
    <2>3. QED
        BY <2>1, <2>2 DEF Loadable
<1>3. Recovering'
    BY <1>1, <1>2 DEF RInv, Recovering, Coming, ItemPlaces, Loadable, Stopped
<1>4. QED
    BY <1>1, <1>3, BetweenKeeps DEF ItemPlaces

(* A step to the next item, whose map is there if it is for this kernel.   *)
LEMMA PassKeepsR ==
    ASSUME Inv, RInv, pc \in ItemPlaces, n \in 1 .. Len(items), NEW id \in 0 .. ids,
           NextItem(id), UNCHANGED <<ids, object, todo, loaded>>, clean' => clean,
           DOMAIN pins' = DOMAIN pins,
           \A p \in DOMAIN pins : pins'[p].shape = pins[p].shape,
           IsMap /\ id = 0 => ~ForKernel(This)
    PROVE  RInv'
<1>1. TypeOK /\ UNCHANGED <<obj, items, critical>> /\ pc' = "item"
    BY DEF Inv, object, NextItem
<1>2. \A i \in 1 .. Len(items) :
         items[i].kind = "map" /\ i < n' =>
             \/ i < n /\ fds'[i] = fds[i]
             \/ i = n /\ fds'[i] = id
    BY <1>1, NextItemKeeps
<1>3. Filled'
    <2>1. ASSUME NEW i \in 1 .. Len(items), items[i].kind = "map", i < n', fds'[i] = 0
          PROVE  ~ForKernel(items[i])
        <3>1. CASE i < n /\ fds'[i] = fds[i]
            BY <2>1, <3>1 DEF RInv, Filled
        <3>2. CASE i = n /\ fds'[i] = id
            BY <2>1, <3>2 DEF IsMap, This
        <3>3. QED
            BY <1>2, <2>1, <3>1, <3>2
    <2>2. QED
        BY <1>1, <2>1 DEF Filled, ForKernel
<1>4. AsInSource' /\ AtKernel' /\ PinsRight'
    BY <1>1 DEF RInv, AsInSource, AtKernel, PinsRight, Pinning, ItemPlaces, ForKernel
<1>5. Recovering'
    BY <1>1 DEF RInv, Recovering, Coming, ItemPlaces, Loadable, Stopped
<1>6. QED
    BY <1>3, <1>4, <1>5 DEF RInv

LEMMA RInvNext == Inv /\ RInv /\ [Next]_vars => RInv'
<1> SUFFICES ASSUME Inv, RInv, [Next]_vars PROVE RInv'
    OBVIOUS
<1>1. CASE UNCHANGED vars
    <2>1. UNCHANGED <<pins, ids, pc, todo, obj, items, n, fds, loaded, clean>>
        BY <1>1 DEF vars, run, object
    <2>2. QED
        BY <2>1 DEF RInv, AsInSource, AtKernel, PinsRight, Filled, Recovering, Coming, This
<1>2. CASE Start
    <2>1. /\ UNCHANGED <<pins, object, n, fds>> /\ pc' = "dir" /\ todo' = Objects
        BY <1>2 DEF Start
    <2>2. Recovering'
        BY <2>1 DEF Recovering, Coming, Loadable
    <2>3. QED
        BY <2>1, <2>2, BetweenKeeps DEF ItemPlaces
<1>3. CASE MakeDir \/ DirDone \/ Exec \/ DirFails \/ ExecFails \/ Abort \/ Crash
    <2>1. UNCHANGED <<pins, object, n, fds>> /\ pc' \notin ItemPlaces
        BY <1>3 DEF MakeDir, DirDone, Exec, DirFails, ExecFails, Abort, Crash, run, ItemPlaces
    <2>2. ASSUME MakeDir PROVE Recovering'
        BY <2>2 DEF MakeDir, RInv, Recovering, Coming, Loadable, ItemPlaces, Stopped, run
    <2>3. ASSUME DirDone PROVE Recovering'
        BY <2>3 DEF DirDone, RInv, Recovering, Coming, Loadable, ItemPlaces, Stopped, run
    <2>4. ASSUME Exec \/ ExecFails \/ Abort \/ Crash PROVE Recovering'
        BY <2>4 DEF Exec, ExecFails, Abort, Crash, Recovering, Stopped
    <2>5. ASSUME DirFails PROVE Recovering'
        BY <2>5 DEF DirFails, Fault, Recovering
    <2>6. Recovering'
        BY <1>3, <2>2, <2>3, <2>4, <2>5
    <2>7. QED
        BY <2>1, <2>6, BetweenKeeps
<1>4. ASSUME NEW o \in Objects, OpenObject(o) PROVE RInv'
    <2>1. /\ pc = "next" /\ pc' = "item" /\ obj' = o /\ n' = 1 /\ todo' = todo \ {o}
          /\ UNCHANGED <<pins, loaded, clean>>
        BY <1>4 DEF OpenObject
    <2>2. AsInSource'
        BY <1>4, <2>1, OpenReads DEF AsInSource
    <2>3. Filled'
        BY <2>1 DEF Filled
    <2>4. AtKernel' /\ PinsRight'
        BY <2>1 DEF RInv, AtKernel, PinsRight, Pinning, ForKernel
    <2>5. Recovering'
        BY <2>1 DEF RInv, Recovering, Coming, Loadable, ItemPlaces, Stopped
    <2>6. QED
        BY <2>2, <2>3, <2>4, <2>5 DEF RInv
<1>5. ASSUME NEW o \in Objects, RefuseObject(o) PROVE RInv'
    BY <1>5, RefuseKeeps
<1>6. ASSUME NEW o \in Objects, OpenFails(o) PROVE RInv'
    <2>1. UNCHANGED <<pins, object, n, fds>> /\ pc' \notin ItemPlaces /\ clean' = FALSE
        BY <1>6 DEF OpenFails, ObjectOver, Fault, ItemPlaces
    <2>2. Recovering'
        BY <2>1 DEF Recovering
    <2>3. QED
        BY <2>1, <2>2, BetweenKeeps
<1>7. CASE ObjectFails
    <2>1. /\ ObjectOver(obj, critical, -1) /\ UNCHANGED <<pins, object, n, fds, clean>>
          /\ pc \in ItemPlaces
        BY <1>7 DEF ObjectFails, NoFault, Loading, ItemPlaces
    <2>2. ~Loadable(obj)
        BY <1>7, NotInItsWay
    <2>3. QED
        BY <2>1, <2>2, OverKeeps
<1>8. CASE CallFails
    <2>1. /\ ObjectOver(obj, critical, -1) /\ UNCHANGED <<pins, object, n, fds>>
          /\ pc \in ItemPlaces /\ clean' = FALSE
        BY <1>8 DEF CallFails, Essential, Fault, Wanted, Loading, ItemPlaces
    <2>2. QED
        BY <2>1, OverKeeps
<1>9. CASE ObjectDone
    <2>1. /\ ObjectOver(obj, critical, 0) /\ UNCHANGED <<pins, object, n, fds, clean>>
          /\ pc \in ItemPlaces
        BY <1>9 DEF ObjectDone, NoFault, ItemPlaces
    <2>2. QED
        BY <2>1, OverKeeps
<1>10. CASE Skip \/ Reuse \/ SkipRejected
    <2>1. /\ pc \in ItemPlaces /\ n \in 1 .. Len(items)
          /\ UNCHANGED <<pins, ids, object, todo, loaded>>
        BY <1>10 DEF Skip, Reuse, SkipRejected, MayBeLeft, Wanted, Loading, ItemPlaces, Inv,
                    TypeOK, WellFormed
    <2>2. PICK id \in 0 .. ids : NextItem(id) /\ (IsMap /\ id = 0 => ~ForKernel(This))
        <3>1. CASE Skip
            BY <3>1 DEF Skip, Inv, TypeOK
        <3>2. CASE SkipRejected
            BY <3>2 DEF SkipRejected, MayBeLeft, Inv, TypeOK
        <3>3. CASE Reuse
            <4>1. pins[This.path].id \in 1 .. ids /\ NextItem(pins[This.path].id) /\ ids \in Nat
                BY <3>3 DEF Reuse, Pinned, Inv, TypeOK
            <4>2. QED
                BY <4>1
        <3>4. QED
            BY <1>10, <3>1, <3>2, <3>3
    <2>3. clean' => clean
        BY <1>10 DEF Skip, Reuse, SkipRejected, NoFault, Fault
    <2>4. QED
        BY <2>1, <2>2, <2>3, PassKeepsR
<1>11. CASE Create
    <2>1. /\ pc = "item" /\ pc' = "pin" /\ ForKernel(This)
          /\ UNCHANGED <<pins, todo, obj, items, n, fds, loaded, clean>>
        BY <1>11 DEF Create, Wanted, Loading, run, object
    <2>2. AsInSource' /\ AtKernel' /\ PinsRight' /\ Filled'
        BY <2>1 DEF RInv, AsInSource, AtKernel, PinsRight, Filled, Pinning, ItemPlaces, ForKernel,
                    This
    <2>3. Recovering'
        BY <2>1 DEF RInv, Recovering, Coming, Loadable, ItemPlaces, Stopped
    <2>4. QED
        BY <2>2, <2>3 DEF RInv
<1>12. CASE Pin
    <2>1. /\ pc = "pin" /\ pc' = "chmod" /\ ForKernel(This) /\ n \in 1 .. Len(items)
          /\ UNCHANGED <<todo, obj, items, n, fds, loaded, clean>>
          /\ This.path \notin DOMAIN pins /\ TypeOK /\ AsInSource /\ PinsRight
        BY <1>12 DEF Pin, Inv, RInv, AtItem, AtKernel, Pinning, run, object
    <2>2. /\ DOMAIN pins' = DOMAIN pins \cup {This.path}
          /\ \A p \in DOMAIN pins : pins'[p] = pins[p]
          /\ pins'[This.path].shape = This.shape
        BY <1>12, <2>1 DEF Pin
    <2>3. PICK d \in DeclaredBy[obj] : Declares(d, items, This)
        BY <2>1, ItemsAre DEF This, ItemPlaces
    <2>4. obj \in Objects /\ d.path = This.path /\ d.shape = This.shape /\ ForKernel(d)
        <3>1. obj \in Objects
            BY <2>1 DEF TypeOK
        <3>2. ForKernel(d)
            BY <2>1, <2>3, DeclaresForKernel
        <3>3. d.path = This.path /\ d.shape = This.shape
            BY <2>3 DEF Declares
        <3>4. QED
            BY <3>1, <3>2, <3>3
    <2>5. PinsRight'
        <3>1. ASSUME NEW p \in DOMAIN pins'
              PROVE  \E o \in Objects : \E item \in DeclaredBy[o] :
                        item.path = p /\ item.shape = pins'[p].shape /\ ForKernel(item)
            <4>1. CASE p \in DOMAIN pins
                BY <2>1, <2>2, <4>1 DEF PinsRight
            <4>2. CASE p = This.path
                BY <2>2, <2>3, <2>4, <4>2
            <4>3. QED
                BY <2>2, <3>1, <4>1, <4>2
        <3>2. QED
            BY <3>1 DEF PinsRight, DeclaredBy, ForKernel
    <2>6. AsInSource' /\ AtKernel' /\ Filled'
        BY <2>1, <2>2 DEF RInv, AsInSource, AtKernel, Filled, Pinning, ItemPlaces, ForKernel, This
    <2>7. Recovering'
        BY <2>1 DEF RInv, Recovering, Coming, Loadable, ItemPlaces, Stopped
    <2>8. QED
        BY <2>5, <2>6, <2>7 DEF RInv
<1>13. CASE Chmod
    <2>1. /\ pc = "chmod" /\ pc' = "chown"
          /\ UNCHANGED <<todo, obj, items, n, fds, loaded, clean>>
          /\ pins' = [pins EXCEPT ![This.path].attr = "mode"] /\ Pins /\ AtKernel
        BY <1>13 DEF Chmod, Inv, RInv, run, object
    <2>2. DOMAIN pins' = DOMAIN pins /\ \A p \in DOMAIN pins : pins'[p].shape = pins[p].shape
        BY <2>1 DEF Pins
    <2>3. This.path \in DOMAIN pins
        BY <2>1 DEF Inv, AtItem
    <2>4. AtKernel'
        BY <2>1, <2>2, <2>3 DEF AtKernel, Pinning, ForKernel, This
    <2>5. AsInSource' /\ PinsRight' /\ Filled'
        BY <2>1, <2>2 DEF RInv, AsInSource, PinsRight, Filled, ItemPlaces, ForKernel
    <2>6. Recovering'
        BY <2>1 DEF RInv, Recovering, Coming, Loadable, ItemPlaces, Stopped
    <2>7. QED
        BY <2>4, <2>5, <2>6 DEF RInv
<1>14. CASE Chown
    <2>1. /\ pc = "chown" /\ NextItem(ids) /\ n \in 1 .. Len(items)
          /\ UNCHANGED <<ids, object, todo, loaded, clean>>
          /\ pins' = [pins EXCEPT ![This.path].attr = "owned"] /\ Pins
          /\ pins[This.path].id = ids /\ This.path \in DOMAIN pins
        BY <1>14 DEF Chown, Inv, AtItem
    <2>2. DOMAIN pins' = DOMAIN pins /\ \A p \in DOMAIN pins : pins'[p].shape = pins[p].shape
        BY <2>1 DEF Pins
    <2>3. ids \in 1 .. ids /\ ids \in Nat
        BY <2>1 DEF Inv, TypeOK
    <2>4. QED
        <3>1. ids \in 0 .. ids /\ ids # 0 /\ pc \in ItemPlaces
            BY <2>1, <2>3 DEF ItemPlaces
        <3>2. QED
            BY <2>1, <2>2, <3>1, PassKeepsR
<1>15. QED
    BY <1>1, <1>2, <1>3, <1>4, <1>5, <1>6, <1>7, <1>8, <1>9, <1>10, <1>11, <1>12, <1>13, <1>14
    DEF Next, LoaderStep

(* RInv holds in every state of every behaviour.                           *)
THEOREM InvarianceR == Spec => []RInv
BY RInvInit, RInvNext, Invariance, PTL DEF Spec

(* What the loader goes by is what the source declares: no symbol the      *)
(* compiler adds, and no order it lists them in, gives a map the sizes, or *)
(* a program the definition or the maps, of another.                       *)
THEOREM DeclarationsRead == Spec => []ReadAsDeclared
<1>1. Inv /\ RInv => ReadAsDeclared
    <2> SUFFICES ASSUME TypeOK, AsInSource, pc = "item" PROVE ReadAsDeclared
        BY DEF ReadAsDeclared, Inv, RInv
    <2>1. obj \in Objects /\ ProperSource(Source[obj])
        BY BpfLoadAssumption DEF TypeOK
    <2>2. ItemsOf(items, obj, Source[obj], Kernel)
        BY DEF AsInSource, ItemPlaces
    <2>3. {[item EXCEPT !.uses = {items[j].path : j \in @}] : item \in ToSet(items)}
             = Declared(obj, Source[obj], Kernel)
        BY <2>1, <2>2, AsDeclared
    <2>4. QED
        BY <2>1, <2>3 DEF ReadAsDeclared, DeclaredBy
<1>2. QED
    BY Invariance, InvarianceR, <1>1, PTL

(* A run in which no call fails by chance loads every object that can be   *)
(* loaded, whatever earlier runs have left.                                *)
THEOREM RunRecovers == Spec => []RerunRecovers
<1>1. RInv => RerunRecovers
    BY DEF RInv, Recovering, Coming, RerunRecovers, ItemPlaces, Stopped
<1>2. QED
    BY InvarianceR, <1>1, PTL

-------------------------------------------------------------------------------
(* What is there when an object is loaded.                                 *)

(* Pinned, as the item wants it; and wanted at all.                        *)
There(item, now) == item.path \in DOMAIN now /\ now[item.path].shape = item.shape
Needed(item) == ForKernel(item) /\ ~item.optional

(* What the object needs up to the current item is there, and all that a   *)
(* loaded object needs.                                                    *)
Kept ==
    pc \in ItemPlaces =>
        \A i \in 1 .. Len(items) : i < n /\ Needed(items[i]) => There(items[i], pins)

AllThere ==
    \A o \in loaded : \A item \in DeclaredBy[o] : Needed(item) => There(item, pins)

KInv == Kept /\ AllThere

LEMMA KInvInit == Init => KInv
BY DEF Init, KInv, Kept, AllThere, ItemPlaces

(* No step takes a pin away or gives it another shape.                     *)
LEMMA PinsStay ==
    ASSUME Inv, [Next]_vars
    PROVE  \A p \in DOMAIN pins : p \in DOMAIN pins' /\ pins'[p].shape = pins[p].shape
<1>1. CASE UNCHANGED pins
    BY <1>1
<1>2. CASE Pin
    <2>1. This.path \notin DOMAIN pins
        BY <1>2 DEF Pin, Inv, AtItem
    <2>2. QED
        BY <1>2, <2>1 DEF Pin
<1>3. CASE Chmod \/ Chown
    BY <1>3 DEF Chmod, Chown, Inv, Pins
<1>4. Pin \/ Chmod \/ Chown \/ UNCHANGED pins
    BY DEF Next, LoaderStep, vars, Start, MakeDir, DirFails, OpenObject, OpenFails, RefuseObject,
           Abort, Skip, Reuse, Create, SkipRejected, ObjectFails, CallFails, ObjectDone, DirDone,
           Exec, ExecFails, Crash
<1>5. QED
    BY <1>1, <1>2, <1>3, <1>4

(* What is there stays there.                                              *)
LEMMA ThereStays ==
    ASSUME Inv, [Next]_vars, NEW item, There(item, pins)
    PROVE  There(item, pins')
BY PinsStay DEF There

(* A loaded object stays complete, and the one that is over has to be.     *)
LEMMA LoadedStays ==
    ASSUME Inv, KInv, [Next]_vars, NEW o \in loaded', o \notin loaded
    PROVE  ObjectDone /\ o = obj
<1>1. CASE ObjectDone
    BY <1>1 DEF ObjectDone, ObjectOver
<1>2. CASE ~ObjectDone
    <2>1. CASE loaded' = loaded \/ loaded' = {}
        BY <2>1
    <2>2. ASSUME NEW q, NEW essential, NEW ret, ret = -1, ObjectOver(q, essential, ret)
          PROVE  loaded' = loaded
        BY <2>2 DEF ObjectOver
    <2>3. loaded' = loaded \/ loaded' = {}
        <3>1. CASE UNCHANGED vars
            BY <3>1 DEF vars, run
        <3>2. CASE Start \/ MakeDir \/ DirFails \/ DirDone \/ Exec \/ ExecFails \/ Abort \/ Crash
            BY <3>2 DEF Start, MakeDir, DirFails, DirDone, Exec, ExecFails, Abort, Crash, run
        <3>3. ASSUME NEW q \in Objects, OpenObject(q) PROVE loaded' = loaded
            BY <3>3 DEF OpenObject
        <3>4. ASSUME NEW q \in Objects, RefuseObject(q) \/ OpenFails(q) PROVE loaded' = loaded
            BY <3>4, <2>2 DEF RefuseObject, OpenFails
        <3>5. CASE ObjectFails \/ CallFails
            BY <3>5, <2>2 DEF ObjectFails, CallFails
        <3>6. CASE Skip \/ Reuse \/ Create \/ SkipRejected \/ Pin \/ Chmod \/ Chown
            BY <3>6 DEF Skip, Reuse, Create, SkipRejected, Pin, Chmod, Chown, run
        <3>7. QED
            BY <1>2, <3>1, <3>2, <3>3, <3>4, <3>5, <3>6 DEF Next, LoaderStep
    <2>4. QED
        BY <2>1, <2>3
<1>3. QED
    BY <1>1, <1>2

(* The step past an item leaves it there if it is needed.                  *)
LEMMA PassedIsThere ==
    ASSUME Inv, RInv, Unambiguous, [Next]_vars, Skip \/ Reuse \/ SkipRejected \/ Chown,
           Needed(This)
    PROVE  There(This, pins')
<1>1. CASE Skip \/ SkipRejected
    <2>1. ~ForKernel(This) \/ (This.optional = TRUE)
        <3>1. CASE Skip
            BY <3>1 DEF Skip
        <3>2. CASE SkipRejected
            BY <3>2 DEF SkipRejected, MayBeLeft, Needed
        <3>3. QED
            BY <1>1, <3>1, <3>2
    <2>2. QED
        BY <2>1 DEF Needed
<1>2. CASE Reuse
    <2>1. /\ pc \in ItemPlaces /\ n \in 1 .. Len(items) /\ TypeOK /\ AsInSource /\ PinsRight
          /\ This.path \in DOMAIN pins /\ (IsMap => pins[This.path].shape = This.shape)
        BY <1>2 DEF Reuse, Wanted, Loading, Pinned, Mismatch, Inv, RInv, TypeOK, WellFormed,
                    ItemPlaces
    <2>2. CASE IsMap
        <3>1. There(This, pins)
            BY <2>1, <2>2 DEF There
        <3>2. QED
            BY <3>1, ThereStays
    <2>3. CASE ~IsMap
        <3>1. PICK d \in DeclaredBy[obj] : Declares(d, items, This)
            BY <2>1, ItemsAre DEF This
        <3>2. PICK o \in Objects : \E other \in DeclaredBy[o] :
                  /\ other.path = This.path /\ other.shape = pins[This.path].shape
                  /\ ForKernel(other)
            BY <2>1 DEF PinsRight
        <3>0. PICK other \in DeclaredBy[o] :
                  /\ other.path = This.path /\ other.shape = pins[This.path].shape
                  /\ ForKernel(other)
            BY <3>2
        <3>3. d.kind = "prog" /\ ~d.optional /\ d.path = This.path /\ d.shape = This.shape
            BY <2>1, <2>3, <3>1 DEF Declares, Needed, IsMap, TypeOK, WellFormed, This
        <3>4. ForKernel(d)
            BY <3>1, DeclaresForKernel DEF Needed
        <3>5. obj \in Objects
            BY <2>1 DEF TypeOK
        <3>6. other.shape = d.shape
            BY <3>0, <3>1, <3>3, <3>4, <3>5 DEF Unambiguous, ForKernel
        <3>7. There(This, pins)
            BY <2>1, <3>0, <3>3, <3>6 DEF There
        <3>8. QED
            BY <3>7, ThereStays
    <2>4. QED
        BY <2>2, <2>3
<1>3. CASE Chown
    <2>1. There(This, pins)
        BY <1>3 DEF Chown, Inv, RInv, AtItem, AtKernel, There
    <2>2. QED
        BY <2>1, ThereStays
<1>4. QED
    BY <1>1, <1>2, <1>3

LEMMA KInvNext ==
    ASSUME Unambiguous, Inv, RInv, KInv, [Next]_vars
    PROVE  KInv'
<1>1. Kept'
    <2>1. CASE pc' \notin ItemPlaces
        BY <2>1 DEF Kept
    <2>2. ASSUME pc \in ItemPlaces, UNCHANGED <<items, n>> PROVE Kept'
        <3>1. ASSUME NEW i \in 1 .. Len(items), i < n, Needed(items[i]) PROVE There(items[i], pins')
            BY <2>2, <3>1, ThereStays DEF KInv, Kept
        <3>2. QED
            BY <2>2, <3>1 DEF Kept, Needed, ForKernel, There
    <2>3. ASSUME NEW o \in Objects, OpenObject(o) PROVE Kept'
        <3>1. n' = 1
            BY <2>3 DEF OpenObject
        <3>2. QED
            BY <3>1 DEF Kept
    <2>4. CASE Skip \/ Reuse \/ SkipRejected \/ Chown
        <3>1. /\ pc \in ItemPlaces /\ n' = n + 1 /\ items' = items /\ n \in Nat
              /\ Len(items) \in Nat
            BY <2>4 DEF Skip, Reuse, SkipRejected, MayBeLeft, Chown, NextItem, Wanted, Loading,
                        ItemPlaces, object, Inv, TypeOK, WellFormed
        <3>2. ASSUME NEW i \in 1 .. Len(items), i < n', Needed(items[i]) PROVE There(items[i], pins')
            <4>1. CASE i < n
                <5>1. There(items[i], pins)
                    BY <3>1, <3>2, <4>1 DEF KInv, Kept
                <5>2. QED
                    BY <5>1, ThereStays
            <4>2. CASE i = n
                <5>1. Needed(This)
                    BY <3>2, <4>2 DEF This
                <5>2. There(This, pins')
                    BY <2>4, <5>1, PassedIsThere
                <5>3. QED
                    BY <3>1, <4>2, <5>2 DEF There, This
            <4>3. QED
                BY <3>1, <3>2, <4>1, <4>2
        <3>3. QED
            BY <3>1, <3>2 DEF Kept, Needed, ForKernel, There
    <2>5. CASE Create \/ Pin \/ Chmod \/ UNCHANGED vars
        <3>1. UNCHANGED <<items, n>>
            BY <2>5 DEF Create, Pin, Chmod, vars, run, object
        <3>2. pc \in ItemPlaces \/ pc' \notin ItemPlaces
            BY <2>5 DEF Create, Pin, Chmod, vars, Wanted, Loading, ItemPlaces
        <3>3. QED
            BY <2>1, <2>2, <3>1, <3>2
    <2>6. ASSUME NEW o \in Objects, RefuseObject(o) \/ OpenFails(o) PROVE Kept'
        BY <2>6, <2>1 DEF RefuseObject, OpenFails, ObjectOver, ItemPlaces
    <2>7. CASE \/ Start \/ MakeDir \/ DirFails \/ DirDone \/ Exec \/ ExecFails \/ Abort \/ Crash
               \/ ObjectFails \/ CallFails \/ ObjectDone
        <3>1. pc' \notin ItemPlaces
            BY <2>7 DEF Start, MakeDir, DirFails, DirDone, Exec, ExecFails, Abort, Crash,
                        ObjectFails, CallFails, ObjectDone, ObjectOver, ItemPlaces
        <3>2. QED
            BY <2>1, <3>1
    <2>8. QED
        BY <2>3, <2>4, <2>5, <2>6, <2>7 DEF Next, LoaderStep
<1>2. AllThere'
    <2>1. ASSUME NEW o \in loaded', NEW item \in DeclaredBy[o], Needed(item)
          PROVE  There(item, pins')
        <3>1. CASE o \in loaded
            BY <2>1, <3>1, ThereStays DEF KInv, AllThere
        <3>2. CASE o \notin loaded
            <4>1. ObjectDone /\ o = obj
                BY <3>2, LoadedStays
            <4>2. pc \in ItemPlaces /\ n > Len(items) /\ TypeOK /\ AsInSource /\ Kept
                BY <4>1 DEF ObjectDone, ItemPlaces, Inv, RInv, KInv
            <4>3. PICK j \in 1 .. Len(items) : Declares(item, items, items[j])
                BY <2>1, <4>1, <4>2, ItemsAre
            <4>4. Needed(items[j])
                BY <2>1, <4>3 DEF Needed, Declares, ForKernel
            <4>5. j < n
                BY <4>2 DEF TypeOK, WellFormed
            <4>6. There(items[j], pins)
                BY <4>2, <4>4, <4>5 DEF Kept
            <4>7. There(item, pins)
                BY <4>3, <4>6 DEF There, Declares
            <4>8. QED
                BY <4>7, ThereStays
        <3>3. QED
            BY <3>1, <3>2
    <2>2. QED
        BY <2>1 DEF AllThere, Needed, ForKernel, There, DeclaredBy
<1>3. QED
    BY <1>1, <1>2 DEF KInv

(* Every pin is of an item for this kernel, and of a loaded object         *)
(* everything is there that is for this kernel and not optional, in the    *)
(* shape the object declares, if no two programs for this kernel that      *)
(* differ are declared under the path of one that must load.               *)
THEOREM KernelsOwn ==
    ASSUME Unambiguous
    PROVE  Spec => []RightKernel
<1>1. Init => KInv
    BY KInvInit
<1>2. Inv /\ RInv /\ KInv /\ [Next]_vars => KInv'
    BY KInvNext
<1>3. Spec => []KInv
    BY <1>1, <1>2, Invariance, InvarianceR, PTL DEF Spec
<1>4. RInv /\ KInv => RightKernel
    BY DEF RInv, PinsRight, KInv, AllThere, Needed, There, ForKernel, RightKernel
<1>5. QED
    BY <1>3, <1>4, InvarianceR, PTL

===============================================================================
