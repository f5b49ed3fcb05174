------------------------------- MODULE BpfLoad -------------------------------
(***************************************************************************)
(* UprobeStatsBpfLoad: the loader that goes through the object files of    *)
(* the module, creates and pins their maps, loads and pins their programs, *)
(* and hands the boot over to the platform's loader.  It may be killed and *)
(* run again on what it left in the BPF file system.                       *)
(*                                                                         *)
(* An item is a map or a program of the object being loaded:               *)
(*   kind      "map" or "prog"                                             *)
(*   path      where it is pinned; shared maps, and the variants of a      *)
(*             program for different kernels, have a path in common        *)
(*   shape     of a map its type and sizes, of a program its code          *)
(*   min, max  the kernels it is for                                       *)
(*   uses      the indices of the maps a program's relocations name        *)
(*   defined   the program's definition is in the file                     *)
(*   optional  the program may fail to load                                *)
(***************************************************************************)
EXTENDS ElfObject, FiniteSets

CONSTANTS
    Objects,        \* names of the object files in the directory
    Source,         \* what the source of each declares
    Builds,         \* the files a compiler may make of it, whole or damaged
    Rejected,       \* code the kernel's verifier rejects
    Kernel,         \* kernelVersion(), which is 0 only where uname fails
    MaxRuns, MaxCrashes, MaxFaults  \* bounds

(* What the loader reads from each file, and what it should.               *)
Image == [o \in Objects |->
             [f \in {b \in Builds[o] : Readable(b)} |-> ReadItems(o, f, Kernel)]]
DeclaredBy == [o \in Objects |-> Declared(o, Source[o], Kernel)]

WellFormed(list) ==
    /\ list = [i \in 1 .. Len(list) |-> list[i]] /\ Len(list) \in Nat
    /\ \A i \in DOMAIN list :
          /\ list[i].kind \in {"map", "prog"}
          /\ list[i].min \in Nat /\ list[i].max \in Nat
          /\ list[i].defined \in BOOLEAN /\ list[i].optional \in BOOLEAN
          /\ list[i].kind = "map" => list[i].uses = {}
    /\ \A i \in DOMAIN list : \A j \in list[i].uses : j \in DOMAIN list /\ list[j].kind = "map"
    /\ \A i, j \in DOMAIN list : i < j /\ list[j].kind = "map" => list[i].kind = "map"

ASSUME BpfLoadAssumption ==
    /\ Objects # {}
    /\ \A o \in Objects : Builds[o] # {}
    /\ \A o \in Objects : /\ ProperSource(Source[o])
                          /\ \A f \in Builds[o] : Readable(f) => Compiled(f, Source[o])
    /\ Kernel \in Nat \ {0}
    /\ MaxRuns \in Nat /\ MaxCrashes \in Nat /\ MaxFaults \in Nat

VARIABLES
    pins,       \* what is pinned, by path: [id, shape, attr, uses]
    ids,        \* maps and programs the kernel has made so far
    pc,         \* where the loader is; "off", "killed" or "aborted" when it does not
                \* run, as the execve, a kill or its own abort() has left it
    todo,       \* objects readdir has still to return
    obj,        \* the object being loaded
    items,      \* what its file holds
    critical,   \* isCritical
    bad,        \* the maps of it whose definition has a zero that is not 0
    n,          \* the item of it
    fds,        \* mapFds: for each map of it so far an id, or 0 for none
    retVal,     \* of loadAllElfObjects
    loaded,     \* history: objects this run has loaded
    clean,      \* history: no call of this run has failed by chance
    runs, crashes, faults

object == <<obj, items, critical, bad>>
run == <<todo, object, n, fds, retVal, loaded>>
bounds == <<runs, crashes, faults>>
vars == <<pins, ids, pc, run, clean, bounds>>

This == items[n]
ItemPlaces == {"item", "pin", "chmod", "chown"}
Stopped == {"off", "killed", "aborted"}

Init ==
    /\ pins = <<>>
    /\ ids = 0
    /\ pc = "off"
    /\ todo = {}
    /\ obj = (CHOOSE o \in Objects : TRUE) /\ items = <<>>
    /\ critical = FALSE /\ bad = {}
    /\ n = 1 /\ fds = <<>> /\ retVal = 0 /\ loaded = {}
    /\ clean = TRUE
    /\ runs = 0 /\ crashes = 0 /\ faults = 0

(* The calls that may fail for reasons of their own are bounded.           *)
Fault == faults < MaxFaults /\ faults' = faults + 1 /\ clean' = FALSE

NoFault == UNCHANGED <<clean, faults>>

-------------------------------------------------------------------------------
Start ==
    /\ pc \in Stopped
    /\ runs < MaxRuns
    /\ runs' = runs + 1
    /\ pc' = "dir"
    /\ todo' = Objects /\ retVal' = 0 /\ loaded' = {}
    /\ clean' = TRUE
    /\ UNCHANGED <<pins, ids, object, n, fds, crashes, faults>>

(* mkdir, content with a directory that is there, and opendir.             *)
MakeDir ==
    /\ pc = "dir"
    /\ pc' = "next"
    /\ UNCHANGED <<pins, ids, run, clean, bounds>>

DirFails ==
    /\ pc = "dir"
    /\ Fault
    /\ pc' = "exec"
    /\ UNCHANGED <<pins, ids, run, runs, crashes>>

\* Mutant of ObjectOver: a failed object is tried again.
ObjectRetried(o, essential, ret) ==
    /\ pc' = "next"
    /\ retVal' = IF ret # 0 /\ essential THEN ret ELSE retVal
    /\ loaded' = IF ret = 0 THEN loaded \cup {o} ELSE loaded
    /\ todo' = IF ret # 0 THEN todo \cup {o} ELSE todo \ {o}

(* loadProg returns.  Only a critical object's result is kept.             *)
ObjectOver(o, essential, ret) ==
    /\ pc' = "next"
    /\ retVal' = IF ret # 0 /\ essential THEN ret ELSE retVal
    /\ loaded' = IF ret = 0 THEN loaded \cup {o} ELSE loaded
    /\ todo' = todo \ {o}

(* readdir has its own order, and an update may have replaced the file     *)
(* since another run.                                                      *)
OpenObject(o) ==
    /\ pc = "next"
    /\ o \in todo
    /\ \E f \in DOMAIN Image[o] :
          /\ items' = Image[o][f] /\ critical' = IsCritical(f) /\ bad' = NonZero(f)
    /\ obj' = o /\ n' = 1 /\ fds' = <<>>
    /\ pc' = "item"
    /\ todo' = todo \ {o}
    /\ UNCHANGED <<pins, ids, retVal, loaded, clean, bounds>>

(* The license and every code section are read before anything is created: *)
(* a file that is damaged or holds a section that is not allowed is left.  *)
RefuseObject(o) ==
    /\ pc = "next"
    /\ o \in todo
    /\ \E f \in Builds[o] : ~Readable(f) /\ ObjectOver(o, IsCritical(f), -1)
    /\ NoFault
    /\ UNCHANGED <<pins, ids, object, n, fds, runs, crashes>>

(* The file is gone, or cannot be opened: not critical, as far as loadProg *)
(* has come.                                                               *)
OpenFails(o) ==
    /\ pc = "next"
    /\ o \in todo
    /\ Fault
    /\ ObjectOver(o, FALSE, -1)
    /\ UNCHANGED <<pins, ids, object, n, fds, runs, crashes>>

Loading == pc = "item" /\ n <= Len(items) /\ n \notin bad
IsMap == This.kind = "map"

\* Mutant of ForKernel: max_kver is taken for the last kernel the item is for.
ForKernelInclusive(item) == item.min <= Kernel /\ Kernel <= item.max

ForKernel(item) == item.min <= Kernel /\ Kernel < item.max

(* One entry of mapFds per map, whatever became of it.                     *)
NextItem(id) ==
    /\ n' = n + 1
    /\ pc' = "item"
    /\ fds' = IF IsMap THEN Append(fds, id) ELSE fds

\* Mutant of Skip: nothing is pushed for a skipped map.
SkipUnaligned ==
    /\ Loading
    /\ This.defined
    /\ ~ForKernel(This)
    /\ n' = n + 1
    /\ UNCHANGED <<pins, ids, pc, todo, object, fds, retVal, loaded, clean, bounds>>

(* A definition of another layout than this loader's stops it for good,    *)
(* with the maps before it pinned.                                         *)
Abort ==
    /\ pc = "item"
    /\ n <= Len(items)
    /\ n \in bad
    /\ pc' = "aborted"
    /\ loaded' = {}
    /\ UNCHANGED <<pins, ids, todo, object, n, fds, retVal, clean, bounds>>

(* Not for this kernel.                                                    *)
Skip ==
    /\ Loading
    /\ This.defined
    /\ ~ForKernel(This)
    /\ NextItem(0)
    /\ UNCHANGED <<pins, ids, todo, object, retVal, loaded, clean, bounds>>

Wanted == Loading /\ This.defined /\ ForKernel(This)
Pinned == This.path \in DOMAIN pins
Mismatch == IsMap /\ pins[This.path].shape # This.shape

\* Mutants of Reuse: a new map in place of the pinned one; a pin that is there
\* is an error.
ReuseFresh ==
    /\ Wanted /\ Pinned /\ ~Mismatch
    /\ ids' = ids + 1
    /\ NextItem(ids + 1)
    /\ UNCHANGED <<pins, todo, object, retVal, loaded, clean, bounds>>

ReuseRefused ==
    /\ Wanted /\ Pinned
    /\ ObjectOver(obj, critical, -1) /\ UNCHANGED <<object, n, fds>>
    /\ NoFault
    /\ UNCHANGED <<pins, ids, runs, crashes>>

(* What an earlier run, or another object, has pinned is taken as it is:   *)
(* its mode and owner are not looked at.                                   *)
Reuse ==
    /\ Wanted /\ Pinned /\ ~Mismatch
    /\ NextItem(pins[This.path].id)
    /\ UNCHANGED <<pins, ids, todo, object, retVal, loaded, clean, bounds>>

(* A relocation to a map that was skipped leaves the program with fd -1.   *)
Accepted == This.shape \notin Rejected /\ \A j \in This.uses : fds[j] # 0

Create ==
    /\ Wanted /\ ~Pinned
    /\ IsMap \/ Accepted
    /\ ids' = ids + 1
    /\ pc' = "pin"
    /\ UNCHANGED <<pins, run, clean, bounds>>

MayBeLeft == Wanted /\ ~Pinned /\ ~IsMap /\ This.optional

(* BPF_PROG_LOAD fails, for the program or by chance, and it is optional.  *)
SkipRejected ==
    /\ MayBeLeft
    /\ \/ ~Accepted /\ NoFault
       \/ Fault
    /\ NextItem(0)
    /\ UNCHANGED <<pins, ids, todo, object, retVal, loaded, runs, crashes>>

(* No definition, a pinned map of another shape, or a mandatory program    *)
(* the kernel rejects: the rest of the object is not looked at.            *)
ObjectFails ==
    /\ Loading
    /\ \/ ~This.defined
       \/ Wanted /\ Pinned /\ Mismatch
       \/ Wanted /\ ~Pinned /\ ~IsMap /\ ~Accepted /\ ~This.optional
    /\ ObjectOver(obj, critical, -1) /\ UNCHANGED <<object, n, fds>>
    /\ NoFault
    /\ UNCHANGED <<pins, ids, runs, crashes>>

(* What makes an object fail: reading its file, finding or making an item, *)
(* and everything that is done to a pin.                                   *)
Essential ==
    \/ pc = "item" /\ n = 1
    \/ Wanted /\ ~MayBeLeft
    \/ pc \in {"pin", "chmod", "chown"}

(* Any of these calls fails; what is pinned stays pinned.                  *)
CallFails ==
    /\ Essential
    /\ Fault
    /\ ObjectOver(obj, critical, -1) /\ UNCHANGED <<object, n, fds>>
    /\ UNCHANGED <<pins, ids, runs, crashes>>

Pin ==
    /\ pc = "pin"
    /\ pins' = [p \in DOMAIN pins \cup {This.path} |->
                  IF p = This.path
                  THEN [id |-> ids, shape |-> This.shape, attr |-> "default",
                        uses |-> [q \in {items[j].path : j \in This.uses} |->
                                    fds[CHOOSE j \in This.uses : items[j].path = q]]]
                  ELSE pins[p]]
    /\ pc' = "chmod"
    /\ UNCHANGED <<ids, run, clean, bounds>>

\* Mutant of Chmod: the owner is left to the reader of the mode.
ChmodOnly ==
    /\ pc = "chmod"
    /\ pins' = [pins EXCEPT ![This.path].attr = "mode"]
    /\ NextItem(ids)
    /\ UNCHANGED <<ids, todo, object, retVal, loaded, clean, bounds>>

Chmod ==
    /\ pc = "chmod"
    /\ pins' = [pins EXCEPT ![This.path].attr = "mode"]
    /\ pc' = "chown"
    /\ UNCHANGED <<ids, run, clean, bounds>>

Chown ==
    /\ pc = "chown"
    /\ pins' = [pins EXCEPT ![This.path].attr = "owned"]
    /\ NextItem(ids)
    /\ UNCHANGED <<ids, todo, object, retVal, loaded, clean, bounds>>

ObjectDone ==
    /\ pc = "item"
    /\ n > Len(items)
    /\ ObjectOver(obj, critical, 0) /\ UNCHANGED <<object, n, fds>>
    /\ NoFault
    /\ UNCHANGED <<pins, ids, runs, crashes>>

DirDone ==
    /\ pc = "next"
    /\ todo = {}
    /\ pc' = "exec"
    /\ UNCHANGED <<pins, ids, run, clean, bounds>>

(* execve of the platform's loader, whatever load has come to.             *)
Exec ==
    /\ pc = "exec"
    /\ pc' = "off"
    /\ UNCHANGED <<pins, ids, run, clean, bounds>>

(* execve returns, and main with 1.                                        *)
ExecFails ==
    /\ pc = "exec"
    /\ Fault
    /\ pc' = "off"
    /\ UNCHANGED <<pins, ids, run, runs, crashes>>

Crash ==
    /\ pc \notin Stopped
    /\ crashes < MaxCrashes
    /\ crashes' = crashes + 1
    /\ pc' = "killed"
    /\ loaded' = {}
    /\ UNCHANGED <<pins, ids, todo, object, n, fds, retVal, clean, runs, faults>>

LoaderStep ==
    \/ MakeDir \/ DirFails
    \/ \E o \in Objects : OpenObject(o) \/ OpenFails(o) \/ RefuseObject(o)
    \/ Abort \/ Skip \/ Reuse \/ Create \/ SkipRejected \/ ObjectFails \/ CallFails
    \/ Pin \/ Chmod \/ Chown
    \/ ObjectDone \/ DirDone \/ Exec \/ ExecFails

Next == Start \/ LoaderStep \/ Crash

Spec == Init /\ [][Next]_vars

FairSpec == Spec /\ WF_vars(LoaderStep)

-------------------------------------------------------------------------------
Places == {"dir", "next", "exec"} \cup ItemPlaces \cup Stopped
TypeOK ==
    /\ \A p \in DOMAIN pins :
          /\ pins[p].id \in 1 .. ids
          /\ pins[p].attr \in {"default", "mode", "owned"}
    /\ ids \in Nat
    /\ pc \in Places
    /\ todo \subseteq Objects /\ obj \in Objects /\ loaded \subseteq Objects
    /\ WellFormed(items) /\ critical \in BOOLEAN /\ bad \subseteq 1 .. Len(items)
    /\ n \in 1 .. Len(items) + 1
    /\ fds \in Seq(0 .. ids)
    /\ \A i \in 1 .. Len(items) :
          items[i].kind = "map" => (i \in 1 .. Len(fds) <=> i < n)
    /\ retVal \in {0, -1}
    /\ clean \in BOOLEAN
    /\ runs \in 0 .. MaxRuns /\ crashes \in 0 .. MaxCrashes /\ faults \in 0 .. MaxFaults

(***************************************************************************)
(* In whatever order the compiler lists sections and symbols, and whatever *)
(* symbols of its own it adds, the loader finds in the file what the       *)
(* source declares: every map under its own name and sizes, every program  *)
(* with its own definition and with relocations to the maps it uses.       *)
(***************************************************************************)
ReadAsDeclared ==
    pc = "item" =>
        {[item EXCEPT !.uses = {items[j].path : j \in @}] : item \in ToSet(items)} = DeclaredBy[obj]

(***************************************************************************)
(* A pinned program works on the maps that are pinned under the names its  *)
(* source uses, the ones the daemon opens: neither a skipped map, nor a    *)
(* second object that shares one, nor a run that was cut short makes it    *)
(* write to a map nobody can open.                                         *)
(***************************************************************************)
BoundToPinned ==
    \A p \in DOMAIN pins : \A q \in DOMAIN pins[p].uses :
        q \in DOMAIN pins /\ pins[q].id = pins[p].uses[q]

(* Reuse looks at the shape of a map and never at a program's code: where  *)
(* a program must load, only one program for this kernel has its path.     *)
Unambiguous ==
    \A o, q \in Objects : \A item \in DeclaredBy[o], other \in DeclaredBy[q] :
        /\ item.kind = "prog" /\ ~item.optional /\ item.path = other.path
        /\ item.min <= Kernel /\ Kernel < item.max
        /\ other.min <= Kernel /\ Kernel < other.max
        => other.shape = item.shape

(***************************************************************************)
(* Of the variants that share a path, what is pinned is the one for this   *)
(* kernel; and when an object counts as loaded, everything in it that is   *)
(* for this kernel and not optional is there, in the shape the object      *)
(* declares.                                                               *)
(***************************************************************************)
RightKernel ==
    /\ \A p \in DOMAIN pins : \E o \in Objects : \E item \in DeclaredBy[o] :
          /\ item.path = p /\ item.shape = pins[p].shape
          /\ item.min <= Kernel /\ Kernel < item.max
    /\ \A o \in loaded : \A item \in DeclaredBy[o] :
          item.min <= Kernel /\ Kernel < item.max /\ ~item.optional =>
              item.path \in DOMAIN pins /\ pins[item.path].shape = item.shape

(* What is pinned and does not carry the owner it is declared with.        *)
Unowned == {p \in DOMAIN pins : pins[p].attr # "owned"}

(***************************************************************************)
(* No run repairs a pin that another left between the pin and the chown:   *)
(* Reuse never looks at the mode and the owner.  But each kill and each    *)
(* failing call leaves one such pin at most, whatever else goes wrong, and *)
(* a run in which neither happens adds none.                               *)
(***************************************************************************)
MishapsLeaveOne ==
    Cardinality(Unowned) <=
        crashes + faults + (IF pc \in {"chmod", "chown"} THEN 1 ELSE 0)

(* Nothing the kernel or another object has against it.                    *)
Loadable(o) ==
    /\ Builds[o] = DOMAIN Image[o] /\ \A f \in Builds[o] : NonZero(f) = {}
    /\ \A item \in DeclaredBy[o] :
          /\ item.defined
          /\ ForKernel(item) /\ item.kind = "map" =>
                \A q \in Objects : \A other \in DeclaredBy[q] :
                    ForKernel(other) /\ other.path = item.path => other.shape = item.shape
          /\ ForKernel(item) /\ item.kind = "prog" /\ ~item.optional =>
                /\ item.shape \notin Rejected
                /\ \A map \in DeclaredBy[o] : map.path \in item.uses => ForKernel(map)

(***************************************************************************)
(* A run in which no call fails by chance loads every object that can be   *)
(* loaded, in whatever order the directory lists them and wherever earlier *)
(* runs were cut short: what they left never stands in its way.            *)
(***************************************************************************)
RerunRecovers ==
    pc = "exec" /\ clean => \A o \in Objects : Loadable(o) => o \in loaded

(* Whatever objects fail, the loader comes to the execve of the platform's *)
(* loader, unless it is killed or a map of an object makes it abort: it    *)
(* never goes round in circles over what it cannot load.                   *)
BootGoesOn == pc = "dir" ~> pc \in {"exec", "killed", "aborted"}

(***************************************************************************)
(* "loading all kernel version appropriate programs in it must succeed for *)
(* bpfloader success" (bpf_helpers.h): the boot goes on to the platform's  *)
(* loader only when no critical object has failed.                         *)
(***************************************************************************)
CriticalMustLoad == pc = "exec" => retVal = 0

===============================================================================
