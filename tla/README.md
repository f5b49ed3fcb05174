# UprobeStats: a verification development

TLA+ modules, TLC configurations and TLAPS proofs for UprobeStats, the Android
mainline module that attaches BPF programs to methods of a running process,
collects the records they write and reports them to statsd. Paths below are
relative to the repository.

Check a module from this directory with
`tlc -config MCBpfRingbuf.cfg MCBpfRingbuf`, a proof with
`tlapm BpfRingbufProofs.tla`.

## 1. The system

A client (`UprobeStatsClient`, `src/src/lib`) writes a protobuf config to
`/data/misc/uprobestats-configs/config` and asks init to start the daemon. The
daemon (Rust: `src/rust`; where that one is not built, C++: `src/src/*.cpp`)
reads the config, checks it against an allow list, resolves the target process
and the file offset of every method, attaches a BPF program to each with
`perf_event_open`, and runs one poll loop for every ring buffer the config
lists until the task's duration is over. The programs (`src/src/bpf_progs`) run
in the kernel on every hit and share *pinned maps* with the daemon: ring
buffers and a filter map, created at boot by the module's own BPF loader
(`src/src/bpfloader`). Pinned maps outlive a run of the daemon, killed or not;
perf events, threads and the memory of the daemon do not.

| component | state | operations | interacts by |
|---|---|---|---|
| BPF ring buffer (`BpfRingbuf.h`, `ffi/bpf.cpp`) | producer and consumer position, data pages, the OFD lock of the map | reserve, submit, discard (kernel); `pollRingBuf`: lock, `wait`, `ConsumeAll` | shared memory between kernel and user space |
| daemon (`main.rs`, `config_resolver.rs`, `bpf_map/mod.rs`) | config, resolved probes, attached perf events, a timer and a batch for each thread | `main_impl`, `resolve_probes`, `poll_registry`, `poll_loop_generic` | file, calls, ring buffers, threads |
| binder filters (`binder_transaction.rs`, `Binder.c`) | `map_Binder_interfaces`, the accessor | put, drain, drop; look-up on every transaction | pinned hash map |
| guardrail (`guardrail.rs`) | none | `is_allowed` | called by `main_impl` |
| process start (`process.rs`, `activity_manager.*`, `ProcessManagement.c`) | observer, channel, timer, ring of starts | `wait_for_app_start_observer`, `_uprobe`, `on_process_started` | binder callbacks, pinned ring |
| bitmap snapshots (`BitmapAllocation.c`, `bitmap_allocation.rs`) | `active_bitmaps`, the output ring, the handler's map, totals and snapshot | three programs; `on_item`, `on_finished` | pinned ring and map |
| BPF loader (`UprobeStatsBpfLoad.cpp`, `bpf_helpers.h`, `bpf_map_def.h`) | pins below `/sys/fs/bpf`, the fds of the object in hand | reading of an object file's sections, symbols and relocations; `loadAllElfObjects`, `createMaps`, relocation, `loadCodeSections`, `execve` of the platform's loader | object files, pinned files |
| C++ daemon (`UprobeStats.cpp`, `Bpf.cpp`, ...) | the same as the daemon, one `doPoll` thread per listed map | `main`, `doPoll` | as the daemon |
| client library (`uprobestats_client.cpp`) | the config file | write config, `ctl.start` | file, property |
| BpfMap wrapper (`BpfMap.h`) | the keys of a map and the kernel's order of them | `iterate`, `iterateWithValue`, `clear`, write, delete, one system call at a time | pinned map, shared by processes |
| service, statsd wrappers, oatdump parsing, flags | none that persists | forward, format, parse | calls |

What is hard about it:

* *Interleaving below the level of calls*: BPF programs on several CPUs submit
  out of order into memory a reader is walking, and only half of each position
  is compared.
* *State that outlives its owner*: filters, `active_bitmaps` and undrained
  rings meet the next run; so do half-made pins.
* *Partial failure*: any step of resolving, attaching, polling or dropping may
  fail after earlier ones had an effect.
* *Two readings of one thing*: the guardrail and `resolve_probes` each choose
  how to read the description of a method; the key of a filter is written from
  a string and read back to a string.
* *Time*: timers that grant a round at zero, poll timeouts computed from a
  second look at the clock, callbacks that race a timeout.

PROJECT.json lists each hazard at its line with the properties aimed at it.

What makes each component correct: the ring buffer hands over each committed
record once, in order, never one that is not committed, and never gets stuck;
a run has in force exactly the filters it asked for and leaves none behind;
nothing is probed on a user device that the allow list does not name; success
means that everything taken was handled; every run ends; a wait for a process
resolves to the right one and a timeout misses none; the snapshot is a moment of
the app; what is pinned is what the source declares, for this kernel, bound to
what is pinned beside it, and a later run of the loader, in the same boot, makes up
for one that was cut short (a reboot starts from an empty `/sys/fs/bpf`);
an iteration that succeeds has seen every key that stayed, and says so when it
lost a race.

## 2. Modules

| module | of | role |
|---|---|---|
| `EventQueue` | ring buffer | abstract: what a ring promises who drains it |
| `BpfRingbuf` | ring buffer | detailed; refines `EventQueue` |
| `BpfRingbufProofs` | | theorems about it, and that it implements `EventQueue` |
| `Guardrail` | guardrail | pure operators, instantiated by both daemons |
| `Uprobestats` | daemon, filters, `Binder.c` | several runs over the pinned maps; composes `Guardrail` |
| `UprobestatsProofs` | | theorems: what may be attached, filters, success, what is left |
| `BitmapAllocation` | bitmap snapshots | app threads, programs, ring, handler, several runs |
| `BitmapAllocationProofs` | | theorems about it |
| `ProcessStart` | process start | both waits, several runs |
| `ProcessStartProofs` | | theorems about it |
| `ElfObject` | object files | the declaring macros and the reading of a file, as operators |
| `ElfObjectProofs` | | lemmas and a theorem: what is read is what was declared |
| `BpfLoad` | BPF loader | directory, objects, maps and programs, several runs in one boot; uses `ElfObject` |
| `BpfLoadProofs` | | theorems about it |
| `BpfMap` | BpfMap wrapper | processes that iterate, clear, write and delete in one map |
| `BpfMapProofs` | | theorems about it |
| `LegacyDaemon` | C++ daemon | one run; composes `Guardrail` |
| `LegacyDaemonProofs` | | theorems about it |
| `MC*` | | values of the constants for TLC |

**BpfRingbuf.** Positions are counted in 8-byte words (`roundLength` makes them
multiples of 8). `mem` maps each word of the data pages to the record whose
header lies there. `Reserve` and `Settle` are the kernel's half, known from
the contract `ConsumeAll` relies on. A poller goes through the places of `pollRingBuf`:
`Open` (`Init`, with the OFD write lock of `bpfLock` as `Lock`; a second holder fails), the wait, then
`ConsumeAll` one shared access at a time: `LoadPositions`, the header at the
reader's position (`ReturnAtEnd` when the low halves are equal, `ReturnAtBusy`,
`SkipDiscarded`, `RejectSize`, `TakeSample`), the `Callback` and
`StoreConsumerPos`. A crash may fall between any two. The compared half of the positions wraps at `PosModulus`.

**Uprobestats.** `pc` is the place in `main_impl`, from `ReadConfig` over
`CheckGuardrail`, `ResolveTask`, the loop of `resolve_probes` (`OffsetsFound`,
`OffsetsRetry`, `OatdumpFound`, `PutFilter`, ...) and `Attach` to
`SpawnThreads`. `thread[m]` is the place in `poll_loop_generic` of map `m`.
`Join`, `Drain`, `DrainDone` and `Exit` are the end of the scope, the `Drop` of
the accessor and the end of the process. `?` and early returns go to `"drop"`
with status `"failed"`: Rust drops the accessor in every case. `DrainFails` is a
failing `get_first_key` or `delete` of `drain`, which `Drop` only logs: what is in
the map then stays there, and `stale` keeps it in mind as it does for a run that is
killed. A name is a sequence of bytes and a key an array of `KeySize` of them:
`ToKey` cuts or pads with NULs, `FromKey` reads up to the first NUL and gives the empty
name where there is none, so that a name as long as a key, or with a NUL inside, does
not come back as it went in. `Recorded` is what `Binder.c` makes of a transaction's
descriptor before it looks it up. A ring is the
sequence of its waiting records here, which is what `BpfRingbuf` shows
`pollRingBuf` makes of it (`ImplementsQueue`). `BinderTransaction` is
`exec_transact_internal`'s look-up and scan, `OtherEvent` stands for programs
that write on every hit.

**BitmapAllocation.** A program's reservation and its submission are two
actions, because other threads run in between; that is where address reuse
and order matter. `ids` number the bitmaps; `seen`, `together`, `missed` and
`unheard` are history variables. Fields a program does not set take any value of
`Residue` (what the slot held).

**ProcessStart.** `Observe` registers the observer, `AttachProgram` attaches the program;
`OnProcessStarted` is the callback's thread, `inbox` the channel, `inflight`
what the activity manager still has to deliver. `CheckTimer`, `Poll`,
`SkipRecord`, `TakeRecord` are the loop of `wait_for_app_start_uprobe`. The
program stays attached until the process ends, and the ring is pinned.

**ElfObject.** A file is its sections, its symbols and its relocations.
`DefineMap`, `DefineRingbuf` and `DefineProg` are what the macros of
`bpf_map_def.h` and `bpf_helpers.h` leave in it, `KVER` packs a kernel version.
`ReadItems` is what the loader makes of the file: maps in the order of their
definitions (`MapNames`, by address and not by their place in the symbol
table), each with its type, rounded size and path (`MapType`, `MaxEntries`,
`MapPath`), then each code section with its name, its definition and the maps
its relocations name (`CodeSections`, `ProgDefs`, `Relocations`). `Readable` is
where the reading gives up. `Declared` is the same list straight from the
source, without a file between. `ProperSource` says how the programs have to be
written (functions named apart, each in a section of a type, using maps of the
same source) and `Compiled` what the compiler makes of that: one symbol for each
definition, offsets in the order of the definitions, the relocations of a section behind it.
It says nothing of the order of sections or of symbols.

**BpfLoad.** The items of an object are those read from its file, maps before
programs, each with a kernel range, a shape, the maps it uses and what the
kernel thinks of it. `SkipUnaligned`, `Skip`, `Reuse`, `Create`, `Pin`, `Chmod`
and `Chown` are the steps of `createMaps` and `loadCodeSections`; `fds` is `mapFds`,
in which a skipped map takes a place too. `Abort` is the `abort()` on a map definition
whose `zero` is not 0: it ends the loader where it stands, without the `execve`;
`OpenFails`, `CallFails`, `DirFails` and `ExecFails` are the calls that may fail. The object files of the runs come from
`Build` in `MCBpfLoad`, which lays a source out as the compiler does; TLC evaluates
`Compiled` on each of them (`BpfLoadAssumption`).

**BpfMap.** The kernel's table is the relation `before` on the keys that are
`present`: buckets in their order, and within one bucket the key written last
in front. A call is a sequence of system calls: `GetFirstKey` or `NoFirstKey`,
then `GetNextKey`, `ReadValue` (of `iterateWithValue`) and a step of the filter
(`FilterLooks`, `FilterChanges`, `FilterLate`, `FilterStops`) for each key, or
`ClearDelete` in `clear`; `CallFails` is any other error, `Return` the end.
`Write` and `Delete` of any process fall between them. `GetNextKey` of a key that
has gone meanwhile starts over, as the kernel does. `seen`, `again`, `steady` and
`others` are history variables.

**LegacyDaemon.** `main` up to `Join` and the rounds of `doPoll`, with the two
clock readings of a round as actions of their own (`ReadNow` at the end of a
round, `ReadClock` in the next), the cast to `int`, and a `poll` to which
a negative timeout is no timeout.

Two simplifications hold everywhere: what is written to logs and statsd is left
out, and names are model values or sequences of parts, never text (in
`Guardrail`, "an identifier is never a proper prefix of a part" makes the
comparison of parts the comparison of texts).

## 3. Runs

The runs `ringbuf`, `daemon`, `process_start` and `bpf_load` also check the type
invariant of their module; what follows are the other properties. Every property
has a mutant in PROJECT.json, a plausible slip in one mapped definition with which
the same run finds the property violated.

| run | what it shows | bounds |
|---|---|---|
| `ringbuf` | the reader is at a record's start wherever it reads a header or copies a value (`ReaderInSync`); values come once and in order (`ReturnedInOrderOnce`), also over a kill; without a kill or a sample of another size no good record is passed over (`NoSilentLoss`); no busy record is passed (`NeverPassesBusy`); all that is settled is consumed (`EventuallyConsumed`); the ring implements `EventQueue` (`ImplementsQueue`) | ring of 8 words, 2 pollers, 4 records of 2 or 3 words, start at 13, compared half wraps at 16, 1 kill |
| `daemon` | a filter in the map was asked for by the run that is going on or left by one that was killed or had a call of its drain fail, and an accessor that is dropped without such a call leaves none (`NothingLeftBehind`, `DrainedOnDrop`); every filter of the task is in force while its probes are (`FiltersInForce`); an event matches a filter of the task or one that such a run left (`NoForeignEvents`); on a user build only listed methods are attached (`OnlyAllowedAttached`); a run that exits with success lost no record it took and polled every map of its task to the end of the duration (`SuccessMeansHandled`); every run ends (`RunEnds`) | 10 configs, 2 runs, 1 kill, 1 failing call (of any step, the drain's included), 1 retry, 2 interface names, keys of 3 bytes, 2 code slots, filter map of 2, rings of 2, timeouts up to 2 |
| `bitmap` | a bitmap that lives and was heard of is in the handler's map under its own id (`LiveReported`), one that is gone is not once its free is handled (`NoPhantoms`), the snapshot at the maximum held bitmaps that lived together (`SnapshotCoexisted`), an activity is that of the creation (`ActivityAtCreation`) | 2 addresses, 3 bitmaps, 2 activity starts, ring of 2, `active_bitmaps` of 1, 2 runs; addresses symmetric |
| `process_start` | what a wait resolves to (`FirstStart`, `ResolvedInOrder`), that a timeout missed nothing (`TimeoutMeansNone`), that a wait ends (`WaitEnds`) | 2 names, 3 starts, 2 runs, ring of 2, duration 1, 1 kill, 1 failure |
| `bpf_load` | what is read of an object file is what its source declares (`ReadAsDeclared`); a program is bound to the maps pinned under its maps' names (`BoundToPinned`), of variants the one for this kernel is pinned, and a loaded object lacks nothing it must have (`RightKernel`), each kill and each failing call leaves one pin without its owner at most, which no later run repairs (`MishapsLeaveOne`), a run without failing calls loads all that can be loaded, whatever was left before (`RerunRecovers`), the loader comes to the `execve` of the platform's one whatever objects fail, unless it is killed or aborts on a map definition (`BootGoesOn`) | 4 objects in any order, each compiled with the symbols in either order, with and without section and label symbols, one of them cut short or of a type the directory is not for, one perhaps with a map definition of another layout; 2 runs, 1 kill, 1 failing call |
| `bpf_map` | an iteration that succeeds has seen every key that was there throughout and not written (`StableSeen`), no key comes twice unless another process changed the map (`OnceUnlessDisturbed`), an undisturbed iteration that deletes, or `clear`, leaves the map empty (`EmptiedByDeletion`), an error without a failing call is a race lost to another process (`LostRaceOnly`), every call returns (`CallsEnd`) | 3 keys in 2 buckets, 2 processes, 3 entries, 1 write, 1 failing call and 1 call each |
| `legacy` | success means every enabled map was polled to the end of the duration (`PolledToTheEnd`), `OnlyAllowedAttached` as above, only a failing open or a map listed twice aborts (`AbortsOnDuplicate`), a run ends while events keep coming (`EndsWithEvents`) | 8 configs, the offsets API present, ints up to 3, ring of 1, 1 failure |
| `long_names`, `bitmap_max`, `stale_start`, `critical_object`, `legacy_hang` | a promise of a comment, a doc or a test that the code does not keep; section 4 | as the passing run of the module |

Why these bounds are enough. *Ring*: three records fill it and a fourth wraps
it, so a record straddles the end of the data pages, and the positions cross
the wrap of their compared half; a record of the wrong size, one discarded and one busy
fit beside a good one; two pollers and a kill are the least with which a lock changes
hands in the middle of a scan. *Daemon*: what one run leaves for another needs
two runs; each config is there for a branch of its own (`MCUprobestats`), so
ten do; a full filter map, a full ring, a value with more codes than slots and a
timeout beyond `i32` are all reached. *Bitmaps*: the third bitmap reuses an
address while a record of its first use may still wait. *Starts*: one before, one during and
one after a wait; the ring of two is full between two runs. *Loader*: the kernel
range meets 5.8, the running version, from below and above; a shared map is declared
twice; relocation meets a skipped map; a wrong order of symbols needs
two symbols in a section. *Maps*: two keys of one bucket and one of another are
the least with which a write moves a key past a cursor and a restart of the walk meets
keys again; one write and one failing call suffice for each race, and two
processes delete what the other has just been given. Larger values repeat
these cases, and the theorems of section 6 hold for all values: each safety
property of a passing run is stated by one.

`CHECK_DEADLOCK FALSE` stands in every cfg but that of the ring buffer: the
number of runs, starts or records is bounded and when it is used up the system
has nothing left to do. The liveness properties say what must not hang.

## 4. Findings

* `long_names`: a name of 128 bytes or more makes a key without a NUL, which
  `drain` reads as "", and one with a NUL inside comes back shorter; either way the key
  `drain` computes is not in the map, its `delete` fails and it gives up: filters stay in
  the pinned map (`binder_transaction.rs:53-63, 93-114`).
* `bitmap_max`: a free record never sets `bitmap_size`, so the total drifts and
  the snapshot at the maximum is not (`BitmapAllocation.c:123-128`).
* `stale_start`: starts that an earlier run left in the pinned ring are taken
  for starts of this wait (`process.rs:119-151`).
* `critical_object`: the failure of a critical object does not stop the loader
  (`UprobeStatsBpfLoad.cpp:1052-1082`, against `bpf_helpers.h`).
* `legacy_hang`: the clock is read twice in a round of `doPoll`; a negative
  timeout is no timeout (`UprobeStats.cpp:77-81`).

A remark that needs no run: the doc comment of `is_allowed` (`guardrail.rs:16-17`)
has user and other builds the wrong way round; the code is what it should be.

## 5. Fairness

Weak fairness throughout, of steps that a scheduler or the clock takes and
never of the environment:

* `MainStep`, `ThreadStep(m)` and `WaitStep`: an enabled step of a running thread is
  taken some time. A kill, a failing call, a transaction and a start of a process are never
  forced.
* `Tick`: time passes.
* `Settle` and `PollStep` of the ring: BPF programs cannot block, so each one
  submits or discards what it reserved; the poll loop opens the ring again until its
  timer runs out, so some process keeps polling. Fairness is for the pollers
  together: one of them may lose the lock for ever.
* `LoaderStep`: init does not stop the loader.
* `Step(p)` of `BpfMap`: a process goes on with its call. Writes and deletes of others are
  never forced; that they are bounded is why a walk that starts over ends.
* `BusySpec` of the C++ daemon adds that probed methods are called again and
  again. It is needed: without it `legacy_hang` shows a run that does not end.

## 6. Proofs

TLAPS checks eight modules. Assumptions are those of the `ASSUME`s of the
modules, which say little more than that bounds are numbers and special values
are not names (and of the loader that `Kernel` is not 0, section 7); TLC evaluates them in the runs. Each proof has one lemma or step
for each action and part of the invariant the action can disturb. Where
a lemma about one state is needed of the next, a `PTL` step primes it.

**BpfRingbufProofs** (`RingAssumption`, `NoOneAssumption`: the ring is not
longer than the range of the compared half). `Inv`, in `BpfRingbuf`, is inductive: `Layout`
(records lie one behind the other), `ConsAtRecord`, `RingIntact` (a header in
reach is where its record starts; `ModDistinct` keeps apart positions less
than a ring away), `Exclusive` (who is past `Open` owns the lock), and
`ReaderPlace` for each poller. `TypeOK` alone is not inductive: that a header
is read where one lies depends on the layout, on the lock and on the copy of the producer
position being no newer than the ring. `OrderInv` adds that a batch holds exactly good
records behind all returned ones, `LossInv` that without a kill or a
record of another size each good record behind the consumer position is returned,
in the batch of the one reader or in its hand. From these: `TypeCorrect`, `InSync`,
`BusyRespected` (an action property), `InOrderOnce` and `NoLoss`.

The same module shows `Refinement`: `Spec` implies `EventQueue`'s under
the mapping of `BpfRingbuf`. `FirstUnique` identifies the front of the queue with
the record at the consumer position (that there is one such record is
`Layout`). `HeldInv` is what the invariant lacks: at the store
of the consumer position the record in hand is a discarded one or its value is the
last of the batch. Then `Reserve` is `Post`, `Settle` is `Settle`,
`StoreConsumerPos` is `Take` or `PassOver`, `RejectSize` is `Fail`, `Return` and
`Crash` are themselves, and every other step a stutter.

**UprobestatsProofs** (`UprobestatsAssumption`). `GuardInv` carries the verdict
of the guardrail from `CheckGuardrail` to the last perf event: the config in force was
allowed, and what is attached are indices of the probes of its first task.
`VerdictCoversTask` says the verdict on a config covers each of them, whichever
description `resolve_probes` then uses. Hence `AllowedOnly`.

The proofs about a run are in the same module. `LifeInv` is `TypeRun`, `TypeMaps` and
`TypePoll` (types, with the batch of a thread that handles an item not empty),
`Place` (which probe and which filter `main_impl` is at, and when the accessor
is open), `InForce` (the filters written so far are in the map with their codes,
by `Written`) and `Handled` (a record is lost only by a thread that failed;
no map of the task lacks its thread; a thread that is done saw the duration end).
`TypeCorrect`, `FiltersHold` and `SuccessIsHandled` follow for all configs. The
other three need `Entries`: each entry of the map is in `stale` (of a run that was
killed or whose drain failed) or asked for by the task, and its key comes back from
the trip through a String (`ComesBack`), so that `drain` can delete it. `Entries` is
inductive only where names are shorter than a key and have no NUL in them (`PlainNames`,
`PlainComesBack`), which `LeavesNothing`, `DrainsAll` and `NoneForeign` therefore
assume; the finding `long_names` shows that they must. That no call of a drain
fails is not assumed: `DrainFails` is a step like any other, and the three
properties say what holds in spite of it.

**ProcessStartProofs** (`ProcessStartAssumption`). `SafeInv` is inductive
relative to `TypeOK`: `Tidy` (only one kind of wait is in use, each place has its
own data), `Ordered` (results, then the batch, then the ring, each increasing),
`Observing` (what the activity manager has to report are exactly the starts
after `looked`, and the channel begins with the first that fits), `Polling` (a
start that fits is in the ring, in the batch, was dropped, or had no pid).
The properties do not follow from themselves: that a timeout missed nothing
depends on where each start is. Hence `FirstOfTheName`, `NothingMissed`,
`OlderNeverReturns`.

**BitmapAllocationProofs** (`BitmapAssumption`). `Inv` relates the places of
the app's threads, the ring, and the handler. `Kinds`: a record is about one
bitmap, and an id belongs to one address. `Busy`: a record that is not yet
submitted holds up the address it is about, so two records of an address are
never open at once. `InOrder`: the records of an address lie in the order of
its bitmaps. `Fresh`: once the allocation of the bitmap at an address is handled,
no record about it is left, from which `HandledStayReported`. `Accounted`: while
no free went unrecorded, a bitmap that is gone has its free behind its allocation
or behind all of the map, from which `OnlyLivingReported`. `Coexist`: two bitmaps
whose records have no free between them lived together, from which
`SnapshotIsAMoment`. `Activities`: the last start record before an allocation is
the one of its activity, from which `ReportedActivity`. None of the four
properties is inductive: each depends on what the ring still holds.

**ElfObjectProofs.** No assumption on constants; the hypotheses are `ProperSource`
and `Compiled`. `SortedByIs`: an enumeration of a set by increasing keys is what sorting
gives, so the choice in `SortedBy` does not matter. It is shown by the first place
where two enumerations differ (`Least`, from the library's `WFMin`, a form of
induction that takes a set and not an operator). `NamesRead`: the names of a section come
out in the order of its definitions; `FunctionRead`, `DefinitionRead` (a name with `_def` behind it
belongs to one function), `MapsRead`, `ProgramRead` and `ItemsRead` put an item together.
`SourceRead` states it for the file: as a set, with the maps a program uses by their
paths, the items are `Declared`. `ItemsDeclared` pairs each item with its declaration.

**BpfLoadProofs** (`BpfLoadAssumption`: sources are proper, and each readable build
is compiled from its source). `Inv` is `TypeOK`,
`Pins`, `AtItem` (the item under way and whether its path is pinned), `Bound` (an
entry of `mapFds` is the map pinned under the path of the item with its index, which
is why a skipped map must take a place) and `BoundToPinned`. Hence
`ProgramsBound`. `MInv` counts the pins without their owner (`Unowned`) against the kills,
the failing calls and the pin in hand (`InHand`): `Pin` adds one and takes it in hand,
`Chown` gives it its owner, and only a kill or a failing call lets go of it (`LetGo`). Hence
`OneLeftPerMishap`. `RInv` adds `AsInSource` (the items are those of the
source), `AtKernel` and `PinsRight` (what is pinned has its shape from an item
for this kernel), `Filled` (0 in `mapFds` means a map that is not for this kernel) and `Recovering`:
while no call of the run has failed, an object that can be loaded is loaded, under
way or to come. `NotInItsWay` is the heart of it. `ObjectFails` needs a missing
definition, a pin of another shape or a rejected program, and each contradicts
`Loadable`: the second by `PinsRight`, the third by `Filled`. Hence
`DeclarationsRead` and `RunRecovers`. `KInv` says what is there: all that the object
needs up to the current item, and all that a loaded object needs. It is inductive if
`Unambiguous` holds. `loadCodeSections` takes a pinned program by its path without a look at
its code (`UprobeStatsBpfLoad.cpp:822`), so two different programs for one kernel under one
path, one of them mandatory, would pass as loaded. `KernelsOwn` therefore assumes that there are none;
TLC checks that the objects of the run satisfy it.

**LegacyDaemonProofs** (`LegacyAssumption`: the fields of a config have the types of
`config.proto`). `Inv` is `TypeOK`, `Verdict` (past the guardrail on a user build the config is
allowed, and programs run only then), `Progress` and `Spawned` (which maps `main` has come to, and
that each enabled one of them has its thread), `Clocks` (a thread knows no more of the
time than is left, and one that polls a map is done only at the end), `Locks` (the
lock of a ring belongs to the thread that waits in its poll, and to no other) and
`AbortsOnDuplicate`. The last needs `Locks`: a `Create` that finds the lock taken without
a failing call has met another thread of the same map. `TimeoutTyped` covers the cast to
`int` for every width. Hence `AllowedOnly`, `SuccessMeansPolled` and
`OnlyDuplicatesAbort`.

**BpfMapProofs** (`BpfMapAssumption`). `Order`: the kernel's table is a strict
order that follows the buckets, through every write and delete. `Covered`: a key
that stayed is seen, under the cursor or ahead of it; "ahead" compares
buckets, which is what survives the deletion of the key under the cursor.
`Forward`: left alone, a walk has behind it what it has seen. `Found`: the key
under the cursor is there unless someone deleted. `Emptied`: what is left has
been there all along and was not handed out. Hence `NoneMissed`, `NoneTwice`,
`OnlyLostRaces` and `NoneLeft`.

Only model-checked: all liveness (`EventuallyConsumed`, `RunEnds`, `WaitEnds`,
`BootGoesOn`, `CallsEnd`, `EndsWithEvents`), which needs fairness and `ENABLED`, out
of the prover's reach.

## 7. Not modelled

* The client library: it writes the config file and starts the service
  (`uprobestats_client.cpp:24-30`); a second client may overwrite the config
  in between, and a start is ignored while a run is on. A run here reads any of the
  configs, which includes that one, but not one that is half written.
* The opening of a `BpfMap`: a file descriptor, a lock that must not be held, and
  checks of the key and value sizes that abort.
* A `kernelVersion()` of 0, with which `loadCodeSections` returns `-EINVAL`
  (`UprobeStatsBpfLoad.cpp:785-788`): it takes a failing `uname`, or an override that names
  0.0.0. `BpfLoadAssumption` excludes it.
* Two programs that share a path and are for the same kernel (names that differ behind a
  `$`, objects that differ behind an `@`): `Reuse` takes one for the other. It is listed as a
  hazard that no property covers: `Unambiguous` is assumed by `KernelsOwn`, and no object of
  the run has such a pair.
* `set_pid` (`ProcessManagement.c:81-95`), another program that writes to the ring of the
  starts: no wait attaches it, and a config that does is not among those modelled.
* The guardrail of the C++ daemon without the offsets API: TLC runs `OffsetsApi = TRUE`;
  `AllowedOnly` of `LegacyDaemonProofs` covers both values.
* `get_pid` (`process.rs:159-180`) as a search: it is a call that succeeds or fails.
  It accepts the first process whose command line *begins* with the name.
* `bitmap_creation`, `bitmap_constructor_heap` and the handler that keeps no
  state: they report and forget. `bitmap_creation` sets no record type; a config
  that attaches it beside the snapshot programs is not among those modelled.
* Handlers whose events become statsd atoms: in `Uprobestats` an event is
  handled or fails; what the atom contains is formatting. `call_detail` copies
  its registers into a record; the number of them is not modelled.
* ELF files no compiler writes: `Compiled` gives `maps` and `progs` no symbol of
  their own, as clang does, and `Build` puts the symbol and string tables last.
  `readCodeSections` looks at the section behind the last one; with these
  files it never is a code section.
* oatdump and protobuf parsing, statsd and service wrappers, flags: pure
  conversions and forwarding. Their outcome (found, not found, failed) is in the models.
* The target's own end while it is probed: no code here looks at it.

## 8. Plan

1. Proofs: the lock order of the C++ daemon as a property of its own; an abstract
   specification of the loader (a run loads a set of objects) and that `BpfLoad` implements it.
2. Model: `get_pid` and the target's life; the two other bitmap programs
   with their stateless handler; the client and its race on the config.
