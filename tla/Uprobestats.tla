------------------------------ MODULE Uprobestats ------------------------------
(***************************************************************************)
(* The life of the daemon over several runs: main_impl from the config to  *)
(* the exit status, the poll loops it spawns, and what the runs share, the *)
(* pinned maps: the ring buffers and the binder interface filter map that  *)
(* Binder.c looks up on every transaction.                                 *)
(*                                                                         *)
(* A probe of a config is a record [prog, class, method, signature,        *)
(* filters], a task is [probes, maps, duration], a config is a sequence of *)
(* tasks.  A ring buffer is the sequence of its committed records (module  *)
(* BpfRingbuf shows how ConsumeAll comes to see it that way).              *)
(***************************************************************************)
EXTENDS Integers, Sequences, FiniteSets

CONSTANTS
    Bytes,          \* what names are made of
    Nul,            \* the NUL byte
    KeySize,        \* bytes of a BinderInterfaceBpfMapKey
    Names,          \* interface names that configs use
    Descriptors,    \* interfaces of the probed process
    Configs,        \* the configs clients send
    NoName,         \* an optional field that is not set
    AllowedPrefixes,
    Maps,           \* map paths configs may list
    Registered,     \* keys of HANDLER_REGISTRY
    BinderRing,     \* map_Binder_output_buf
    CodeSlots,      \* entries of BinderCodesBpfMapValue
    Codes,          \* transaction codes the probed process uses
    RingCap,        \* records a ring holds
    MaxEntries,     \* capacity of the filter map
    MaxRetries,     \* MAX_RETRIES
    UseObserverApi, \* the use_process_observer_api flag
    MaxTimeout,     \* the largest timeout an i32 holds, in clock ticks
    MaxRuns, MaxCrashes, MaxFailures    \* bounds

(* A config as the protobuf parser delivers it.                            *)
FilterMsg == [name : Names \cup {NoName}, codes : Seq(Int)]
ProbeMsg == [prog : {"Binder", "Other"},
             class : Seq(STRING) \cup {NoName},
             method : Seq(STRING) \cup {NoName},
             signature : Seq(STRING) \cup {NoName},
             filters : Seq(FilterMsg)]
TaskMsg == [probes : Seq(ProbeMsg), maps : SUBSET Maps, duration : Int \cup {NoName}]

ASSUME UprobestatsAssumption ==
    /\ Configs \subseteq Seq(TaskMsg)
    /\ Nul \in Bytes
    /\ KeySize \in Nat \ {0}
    /\ Names \subseteq Seq(Bytes) /\ Descriptors \subseteq Seq(Bytes)
    /\ NoName \notin Names
    /\ Registered \subseteq Maps
    /\ BinderRing \in Maps
    /\ Codes \subseteq Nat \ {0}
    /\ CodeSlots \in Nat \ {0}
    /\ RingCap \in Nat /\ MaxEntries \in Nat /\ MaxRetries \in Nat
    /\ UseObserverApi \in BOOLEAN
    /\ MaxTimeout \in Nat
    /\ MaxRuns \in Nat /\ MaxCrashes \in Nat /\ MaxFailures \in Nat

Guard == INSTANCE Guardrail

VARIABLES
    ifaces,     \* the filter map: codes by key
    rings,      \* the records waiting in each ring buffer
    userBuild,  \* ro.build.type
    pc,         \* where main_impl is; "off" between runs
    config,     \* what read_config returned
    k,          \* the probe being resolved or attached
    f,          \* its filter being written
    retries,
    open,       \* the BinderInterfaceMapAccessor is alive
    attached,   \* probes whose program runs on every hit
    now,        \* the timers of the poll loops
    thread,     \* the poll loop of each map of the task
    batch,      \* items poll_ring_buf returned, not handled yet
    status,     \* what main_impl is about to return
    lost,       \* history: items taken from a ring and never handled
    stale,      \* history: filters left by a run that was killed, or that had a
                \* failing call while it drained
    runs, crashes, failures

pinned == <<ifaces, rings, stale>>
resolving == <<config, k, f, retries>>
polling == <<now, thread, batch, lost>>
bounds == <<runs, crashes, failures>>
vars == <<pinned, userBuild, pc, resolving, open, attached, polling, status, bounds>>

Min(a, b) == IF a < b THEN a ELSE b

Task == config[1]
Probe == Task.probes[k]
Filter == Probe.filters[f]
IsBinder(probe) == probe.prog = "Binder"

\* Mutant of ToValue: the codes are not cut to the slots there are.
ToValueWhole(codes) == codes

Keys == [1 .. KeySize -> Bytes]

(* The bytes of a name that fit, zeros behind them.                        *)
ToKey(name) == [i \in 1 .. KeySize |-> IF i <= Len(name) THEN name[i] ELSE Nul]

Nuls(bytes) == {i \in DOMAIN bytes : bytes[i] = Nul}

(* bytes_as_str ends at the first NUL; without one it fails, and           *)
(* unwrap_or_default makes it the empty name.                              *)
FromKey(key) ==
    IF Nuls(key) = {} THEN <<>>
    ELSE SubSeq(key, 1, (CHOOSE i \in Nuls(key) : \A j \in Nuls(key) : i <= j) - 1)

(* The first slots of the codes are kept.                                  *)
ToValue(codes) == SubSeq(codes, 1, Min(Len(codes), CodeSlots))

(* recordString: up to a NUL, and with one behind.                         *)
Recorded(descriptor) ==
    ToKey(FromKey([i \in 1 .. KeySize |->
                      IF i < KeySize /\ i <= Len(descriptor) THEN descriptor[i] ELSE Nul]))

(* Binder.c's scan of the value: a zero slot ends it.                      *)
Matches(codes, code) ==
    \E i \in DOMAIN codes :
        codes[i] = code /\ \A j \in 1 .. i - 1 : codes[j] # 0

Idle == [m \in Maps |-> "none"]

-------------------------------------------------------------------------------
Init ==
    /\ ifaces = <<>>
    /\ rings = [m \in Maps |-> <<>>]
    /\ userBuild \in BOOLEAN
    /\ pc = "off"
    /\ config = <<>>
    /\ k = 1 /\ f = 1 /\ retries = 0
    /\ open = FALSE
    /\ attached = {}
    /\ now = 0
    /\ thread = Idle
    /\ batch = [m \in Maps |-> 0]
    /\ status = "none"
    /\ lost = 0
    /\ stale = {}
    /\ runs = 0 /\ crashes = 0 /\ failures = 0

(* Failures of the environment (a syscall, a service, a file) are bounded. *)
Fault == failures < MaxFailures /\ failures' = failures + 1

Bail == pc' = "drop" /\ status' = "failed"

-------------------------------------------------------------------------------
(* main_impl up to the probes.  init starts the service only when it is    *)
(* not running.                                                            *)

Start ==
    /\ pc = "off"
    /\ runs < MaxRuns
    /\ runs' = runs + 1
    /\ pc' = "config"
    /\ UNCHANGED <<pinned, userBuild, resolving, open, attached, polling, status,
                   crashes, failures>>

ReadConfig(c) ==
    /\ pc = "config"
    /\ config' = c
    /\ pc' = "guardrail"
    /\ UNCHANGED <<pinned, userBuild, k, f, retries, open, attached, polling, status,
                   bounds>>

(* A flag is off, the config cannot be read or parsed.                     *)
ConfigFails ==
    /\ pc = "config"
    /\ Fault
    /\ Bail
    /\ UNCHANGED <<pinned, userBuild, resolving, open, attached, polling, runs, crashes>>

\* Mutant of CheckGuardrail: the names that are checked are not the ones used.
CheckSignatures ==
    /\ pc = "guardrail"
    /\ IF Guard!IsAllowed(config, userBuild, FALSE)
          THEN pc' = "task" /\ UNCHANGED status
          ELSE Bail
    /\ UNCHANGED <<pinned, userBuild, resolving, open, attached, polling, bounds>>

CheckGuardrail ==
    /\ pc = "guardrail"
    /\ IF Guard!IsAllowed(config, userBuild, TRUE)
          THEN pc' = "task" /\ UNCHANGED status
          ELSE Bail
    /\ UNCHANGED <<pinned, userBuild, resolving, open, attached, polling, bounds>>

(* A map is disabled by its flag, or get_pid does not find the target, or  *)
(* the target does not start in time (module ProcessStart).                *)
TaskFails ==
    /\ pc = "task"
    /\ Fault
    /\ Bail
    /\ UNCHANGED <<pinned, userBuild, resolving, open, attached, polling, runs, crashes>>

(* Only the first task is run; it needs a positive duration.               *)
ResolveTask ==
    /\ pc = "task"
    /\ IF config # <<>> /\ Task.duration # NoName /\ Task.duration > 0
          THEN pc' = "probes" /\ UNCHANGED status
          ELSE Bail
    /\ UNCHANGED <<pinned, userBuild, resolving, open, attached, polling, bounds>>

-------------------------------------------------------------------------------
(* resolve_probes, one probe after the other.                              *)

NextProbe == k' = k + 1 /\ f' = 1 /\ retries' = 0 /\ pc' = "probes"

ProbesLeft == pc = "probes" /\ k <= Len(Task.probes)

(* With a class the offsets come from the service, and a binder probe      *)
(* goes on to its filters.                                                 *)
OffsetsFound ==
    /\ ProbesLeft
    /\ Probe.class # NoName
    /\ Probe.method # NoName
    /\ IF IsBinder(Probe)
          THEN pc' = (IF open THEN "filters" ELSE "open") /\ UNCHANGED <<k, f, retries>>
          ELSE NextProbe
    /\ UNCHANGED <<pinned, userBuild, config, open, attached, polling, status, bounds>>

OffsetsRetry ==
    /\ ProbesLeft
    /\ Probe.class # NoName /\ Probe.method # NoName
    /\ UseObserverApi
    /\ retries < MaxRetries
    /\ retries' = retries + 1
    /\ UNCHANGED <<pinned, userBuild, pc, config, k, f, open, attached, polling, status,
                   bounds>>

(* Without a class they come from oatdump, and no filter is written.       *)
OatdumpFound ==
    /\ ProbesLeft
    /\ Probe.class = NoName
    /\ Probe.signature # NoName
    /\ NextProbe
    /\ UNCHANGED <<pinned, userBuild, config, open, attached, polling, status, bounds>>

(* The program is disabled, the method is not named, the service does not  *)
(* find it, or its error is not one to retry or was met too often.         *)
OffsetsMissing ==
    /\ ProbesLeft
    /\ Probe.class # NoName
    /\ \/ Fault
       \/ (Probe.method = NoName \/ retries = MaxRetries) /\ UNCHANGED failures
    /\ Bail
    /\ UNCHANGED <<pinned, userBuild, resolving, open, attached, polling, runs, crashes>>

(* Errors of oatdump count as offsets that are not found.                  *)
OatdumpMissing ==
    /\ ProbesLeft
    /\ Probe.class = NoName
    /\ \/ Fault
       \/ Probe.signature = NoName /\ UNCHANGED failures
    /\ Bail
    /\ UNCHANGED <<pinned, userBuild, resolving, open, attached, polling, runs, crashes>>

(* The accessor is opened for the first binder probe and kept.             *)
OpenAccessor ==
    /\ pc = "open"
    /\ open' = TRUE
    /\ pc' = "filters"
    /\ UNCHANGED <<pinned, userBuild, resolving, attached, polling, status, bounds>>

OpenFails ==
    /\ pc = "open"
    /\ Fault
    /\ Bail
    /\ UNCHANGED <<pinned, userBuild, resolving, open, attached, polling, runs, crashes>>

FilterValid ==
    /\ Filter.name # NoName
    /\ Filter.codes # <<>>
    /\ \A i \in DOMAIN Filter.codes : Filter.codes[i] >= 0

WriteFilter(key, value) ==
    /\ ifaces' = [x \in DOMAIN ifaces \cup {key} |-> IF x = key THEN value ELSE ifaces[x]]
    /\ IF f < Len(Probe.filters)
          THEN f' = f + 1 /\ UNCHANGED <<pc, k, retries>>
          ELSE NextProbe

\* Mutant of PutFilter: an entry that exists counts as written.
PutUnlessThere ==
    /\ pc = "filters"
    /\ Probe.filters # <<>>
    /\ FilterValid
    /\ LET key == ToKey(Filter.name)
       IN  WriteFilter(key, IF key \in DOMAIN ifaces THEN ifaces[key]
                            ELSE ToValue(Filter.codes))
    /\ UNCHANGED <<rings, stale, userBuild, config, open, attached, polling, status, bounds>>

(* UpdateMapElemFlags::Insert: the entry must be new.                      *)
PutFilter ==
    /\ pc = "filters"
    /\ Probe.filters # <<>>
    /\ FilterValid
    /\ ToKey(Filter.name) \notin DOMAIN ifaces
    /\ Cardinality(DOMAIN ifaces) < MaxEntries
    /\ WriteFilter(ToKey(Filter.name), ToValue(Filter.codes))
    /\ UNCHANGED <<rings, stale, userBuild, config, open, attached, polling, status, bounds>>

(* No filter, a bad one, one that is there already, or a full map; or put  *)
(* fails for another reason.                                               *)
FilterFails ==
    /\ pc = "filters"
    /\ \/ /\ \/ Probe.filters = <<>>
             \/ ~FilterValid
             \/ ToKey(Filter.name) \in DOMAIN ifaces
             \/ Cardinality(DOMAIN ifaces) >= MaxEntries
          /\ UNCHANGED failures
       \/ Fault
    /\ Bail
    /\ UNCHANGED <<pinned, userBuild, resolving, open, attached, polling, runs, crashes>>

ProbesResolved ==
    /\ pc = "probes"
    /\ k > Len(Task.probes)
    /\ k' = 1
    /\ pc' = "attach"
    /\ UNCHANGED <<pinned, userBuild, config, f, retries, open, attached, polling, status,
                   bounds>>

-------------------------------------------------------------------------------
(* Attaching.  The perf event is never closed: the probe stays until the   *)
(* process is gone.                                                        *)

Attach ==
    /\ pc = "attach"
    /\ k <= Len(Task.probes)
    /\ attached' = attached \cup {k}
    /\ k' = k + 1
    /\ UNCHANGED <<pinned, userBuild, pc, config, f, retries, open, polling, status, bounds>>

AttachFails ==
    /\ pc = "attach"
    /\ k <= Len(Task.probes)
    /\ Fault
    /\ Bail
    /\ UNCHANGED <<pinned, userBuild, resolving, open, attached, polling, runs, crashes>>

(* One thread per map path, a HashSet.  poll_registry fails at once for a  *)
(* path nobody handles.                                                    *)
SpawnThreads ==
    /\ pc = "attach"
    /\ k > Len(Task.probes)
    /\ pc' = "poll"
    /\ now' = 0
    /\ thread' = [m \in Maps |-> IF m \notin Task.maps THEN "none"
                                 ELSE IF m \in Registered THEN "top" ELSE "failed"]
    /\ UNCHANGED <<pinned, userBuild, resolving, open, attached, batch, lost, status, bounds>>

-------------------------------------------------------------------------------
(* poll_loop_generic, the loop of map m.                                   *)

Goto(m, place) == thread' = [thread EXCEPT ![m] = place]
Remaining == Task.duration - now

(* Timer: zero milliseconds left still is time left.                       *)
CheckTimer(m) ==
    /\ thread[m] = "top"
    /\ Remaining >= 0
    /\ Goto(m, IF Remaining <= MaxTimeout THEN "poll" ELSE "failed")
    /\ UNCHANGED <<pinned, userBuild, pc, resolving, open, attached, now, batch, lost,
                   status, bounds>>

(* The timer has run out: on_finished.                                     *)
Finish(m) ==
    /\ thread[m] = "top"
    /\ Remaining < 0
    /\ Goto(m, "done")
    /\ UNCHANGED <<pinned, userBuild, pc, resolving, open, attached, now, batch, lost,
                   status, bounds>>

FinishFails(m) ==
    /\ thread[m] = "top"
    /\ Remaining < 0
    /\ Fault
    /\ Goto(m, "failed")
    /\ UNCHANGED <<pinned, userBuild, pc, resolving, open, attached, now, batch, lost,
                   status, runs, crashes>>

Behind(n, s) == SubSeq(s, n + 1, Len(s))

(* The n oldest records, up to one that is not committed; none when the    *)
(* wait ended without any.                                                 *)
PollReturns(m, n) ==
    /\ thread[m] = "poll"
    /\ rings' = [rings EXCEPT ![m] = Behind(n, @)]
    /\ batch' = [batch EXCEPT ![m] = n]
    /\ Goto(m, IF n = 0 THEN "top" ELSE "item")
    /\ UNCHANGED <<ifaces, stale, userBuild, pc, resolving, open, attached, now, lost,
                   status, bounds>>

(* The map cannot be opened, or a record of another size was met.          *)
PollFails(m, n) ==
    /\ thread[m] = "poll"
    /\ Fault
    /\ rings' = [rings EXCEPT ![m] = Behind(n, @)]
    /\ lost' = lost + n
    /\ Goto(m, "failed")
    /\ UNCHANGED <<ifaces, stale, userBuild, pc, resolving, open, attached, now, batch,
                   status, runs, crashes>>

HandleItem(m) ==
    /\ thread[m] = "item"
    /\ batch' = [batch EXCEPT ![m] = @ - 1]
    /\ Goto(m, IF batch[m] = 1 THEN "top" ELSE "item")
    /\ UNCHANGED <<pinned, userBuild, pc, resolving, open, attached, now, lost, status,
                   bounds>>

\* Mutant of ItemFails: an error of on_item is logged and the loop goes on.
ItemFailsQuietly(m) ==
    /\ thread[m] = "item"
    /\ Fault
    /\ lost' = lost + batch[m]
    /\ batch' = [batch EXCEPT ![m] = 0]
    /\ Goto(m, "top")
    /\ UNCHANGED <<pinned, userBuild, pc, resolving, open, attached, now, status, runs,
                   crashes>>

(* on_item fails: the rest of the batch is dropped, on_finished is skipped.*)
ItemFails(m) ==
    /\ thread[m] = "item"
    /\ Fault
    /\ lost' = lost + batch[m]
    /\ batch' = [batch EXCEPT ![m] = 0]
    /\ Goto(m, "failed")
    /\ UNCHANGED <<pinned, userBuild, pc, resolving, open, attached, now, status, runs,
                   crashes>>

ThreadStep(m) ==
    /\ pc = "poll"
    /\ \/ CheckTimer(m) \/ Finish(m) \/ FinishFails(m)
       \/ \E n \in 0 .. Len(rings[m]) : PollReturns(m, n) \/ PollFails(m, n)
       \/ HandleItem(m) \/ ItemFails(m)

(* Time is cut off one tick after the timers ran out.                      *)
Tick ==
    /\ pc = "poll"
    /\ Remaining >= 0
    /\ now' = now + 1
    /\ UNCHANGED <<pinned, userBuild, pc, resolving, open, attached, thread, batch, lost,
                   status, bounds>>

\* Mutant of Join: a thread that failed is waited for.
JoinFinished ==
    /\ pc = "poll"
    /\ \A m \in Maps : thread[m] \in {"none", "done"}
    /\ pc' = "drop"
    /\ status' = "ok"
    /\ UNCHANGED <<pinned, userBuild, resolving, open, attached, polling, bounds>>

(* The scope ends when every thread has been joined.                       *)
Join ==
    /\ pc = "poll"
    /\ \A m \in Maps : thread[m] \in {"none", "done", "failed"}
    /\ pc' = "drop"
    /\ status' = IF \E m \in Maps : thread[m] = "failed" THEN "failed" ELSE "ok"
    /\ UNCHANGED <<pinned, userBuild, resolving, open, attached, polling, bounds>>

-------------------------------------------------------------------------------
(* Leaving.  Whatever main_impl returns, the accessor is dropped first,    *)
(* while the probes are still attached.                                    *)

Remove(key) == [x \in DOMAIN ifaces \ {key} |-> ifaces[x]]

Close == open' = FALSE /\ pc' = "exit"

\* Mutant of Drain: one entry is deleted.
DrainOne(key) ==
    /\ pc = "drop" /\ open
    /\ key \in DOMAIN ifaces
    /\ ifaces' = Remove(key)
    /\ stale' = stale \ {key}
    /\ Close
    /\ UNCHANGED <<rings, userBuild, resolving, attached, polling, status, bounds>>

(* One turn of drain's loop: the first key, in the map's own order, makes  *)
(* the trip through a String.  A key that does not come back is not        *)
(* deleted; drain gives up, and the Drop only logs it.                     *)
Drain(key) ==
    /\ pc = "drop" /\ open
    /\ key \in DOMAIN ifaces
    /\ LET again == ToKey(FromKey(key))
       IN  /\ ifaces' = Remove(again)
           /\ stale' = stale \ {again}
           /\ IF again \in DOMAIN ifaces THEN UNCHANGED <<open, pc>> ELSE Close
    /\ UNCHANGED <<rings, userBuild, resolving, attached, polling, status, bounds>>

(* get_first_key or delete fails: drain returns with what is left, and     *)
(* nobody drains it again.                                                 *)
DrainFails ==
    /\ pc = "drop" /\ open
    /\ Fault
    /\ stale' = DOMAIN ifaces
    /\ Close
    /\ UNCHANGED <<ifaces, rings, userBuild, resolving, attached, polling, status, runs,
                   crashes>>

\* Mutant of DrainDone: the accessor goes without draining.
DropUndrained ==
    /\ pc = "drop"
    /\ Close
    /\ UNCHANGED <<pinned, userBuild, resolving, attached, polling, status, bounds>>

DrainDone ==
    /\ pc = "drop"
    /\ open => DOMAIN ifaces = {}
    /\ Close
    /\ UNCHANGED <<pinned, userBuild, resolving, attached, polling, status, bounds>>

(* The process is gone, its probes, its threads and its lock with it.      *)
Gone ==
    /\ pc' = "off"
    /\ config' = <<>> /\ k' = 1 /\ f' = 1 /\ retries' = 0
    /\ open' = FALSE
    /\ attached' = {}
    /\ now' = 0
    /\ thread' = Idle
    /\ batch' = [m \in Maps |-> 0]
    /\ status' = "none"
    /\ lost' = 0

Exit ==
    /\ pc = "exit"
    /\ Gone
    /\ UNCHANGED <<pinned, userBuild, bounds>>

(* Killed: nothing is dropped, the pinned maps stay as they are.           *)
Crash ==
    /\ pc # "off"
    /\ crashes < MaxCrashes
    /\ crashes' = crashes + 1
    /\ Gone
    /\ stale' = DOMAIN ifaces
    /\ UNCHANGED <<ifaces, rings, userBuild, runs, failures>>

-------------------------------------------------------------------------------
(* The probed process.  A program that finds its ring full drops the event.*)

Emit(m, event) ==
    /\ Len(rings[m]) < RingCap
    /\ rings' = [rings EXCEPT ![m] = Append(@, event)]
    /\ UNCHANGED <<ifaces, stale, userBuild, pc, resolving, open, attached, polling,
                   status, bounds>>

\* Mutant of BinderTransaction: the codes of the interface are not looked at.
BinderAnyCode(descriptor, code) ==
    /\ \E p \in attached : IsBinder(Task.probes[p])
    /\ Recorded(descriptor) \in DOMAIN ifaces
    /\ Emit(BinderRing, [key |-> Recorded(descriptor), code |-> code])

(* exec_transact_internal: the event carries the key that was looked up.   *)
BinderTransaction(descriptor, code) ==
    /\ \E p \in attached : IsBinder(Task.probes[p])
    /\ Recorded(descriptor) \in DOMAIN ifaces
    /\ Matches(ifaces[Recorded(descriptor)], code)
    /\ Emit(BinderRing, [key |-> Recorded(descriptor), code |-> code])

(* The other programs write to their ring on every hit.                    *)
OtherEvent(m) ==
    /\ m # BinderRing
    /\ \E p \in attached : ~IsBinder(Task.probes[p])
    /\ Emit(m, [key |-> ToKey(<<>>), code |-> 0])

-------------------------------------------------------------------------------
MainStep ==
    \/ \E c \in Configs : ReadConfig(c)
    \/ ConfigFails \/ CheckGuardrail \/ ResolveTask \/ TaskFails
    \/ OffsetsFound \/ OffsetsRetry \/ OffsetsMissing \/ OatdumpFound \/ OatdumpMissing
    \/ OpenAccessor \/ OpenFails \/ PutFilter \/ FilterFails \/ ProbesResolved
    \/ Attach \/ AttachFails \/ SpawnThreads
    \/ Join
    \/ \E key \in DOMAIN ifaces : Drain(key)
    \/ DrainFails \/ DrainDone \/ Exit

KernelStep ==
    \/ \E descriptor \in Descriptors, code \in Codes : BinderTransaction(descriptor, code)
    \/ \E m \in Maps : OtherEvent(m)

Next ==
    \/ Start
    \/ MainStep
    \/ \E m \in Maps : ThreadStep(m)
    \/ Tick
    \/ Crash
    \/ KernelStep

Spec == Init /\ [][Next]_vars

(* The process and each of its threads are scheduled, and time passes.     *)
Fairness ==
    /\ WF_vars(MainStep)
    /\ \A m \in Maps : WF_vars(ThreadStep(m))
    /\ WF_vars(Tick)

FairSpec == Spec /\ Fairness

-------------------------------------------------------------------------------
Places == {"off", "config", "guardrail", "task", "probes", "open", "filters", "attach",
           "poll", "drop", "exit"}
ThreadPlaces == {"none", "top", "poll", "item", "done", "failed"}
Event == [key : Keys, code : Codes \cup {0}]

TypeOK ==
    /\ DOMAIN ifaces \subseteq Keys
    /\ \A x \in DOMAIN ifaces : ifaces[x] \in Seq(Nat) /\ Len(ifaces[x]) \in 1 .. CodeSlots
    /\ rings \in [Maps -> Seq(Event)]
    /\ \A m \in Maps : Len(rings[m]) <= RingCap
    /\ userBuild \in BOOLEAN
    /\ pc \in Places
    /\ config \in Configs \cup {<<>>}
    /\ k \in Nat \ {0} /\ f \in Nat \ {0}
    /\ retries \in 0 .. MaxRetries
    /\ open \in BOOLEAN
    /\ attached \subseteq Nat
    /\ now \in Nat
    /\ thread \in [Maps -> ThreadPlaces]
    /\ batch \in [Maps -> 0 .. RingCap]
    /\ status \in {"none", "ok", "failed"}
    /\ lost \in Nat
    /\ stale \subseteq Keys
    /\ runs \in 0 .. MaxRuns /\ crashes \in 0 .. MaxCrashes /\ failures \in 0 .. MaxFailures

(* The filters a task asks for: those of the binder probes whose offsets   *)
(* come from the service.                                                  *)
Filters ==
    UNION {{probe.filters[i] : i \in DOMAIN probe.filters} :
              probe \in {Task.probes[p] : p \in
                  {q \in DOMAIN Task.probes :
                      IsBinder(Task.probes[q]) /\ Task.probes[q].class # NoName}}}

(***************************************************************************)
(* A filter is in the map because the run that holds the accessor asked    *)
(* for it, or because a run left it that was killed or had a call fail on  *)
(* it while it drained: no other run that came to its end, with success or *)
(* without, leaves one behind, whatever else failed in it.                 *)
(***************************************************************************)
NothingLeftBehind ==
    \A key \in DOMAIN ifaces :
        \/ key \in stale
        \/ open /\ \E filter \in Filters : ToKey(filter.name) = key

(***************************************************************************)
(* While probes are attached and polled, every filter of the task is in    *)
(* force with the codes of its config: neither a filter of the same name   *)
(* left by an earlier run nor one of another probe has taken its place.    *)
(***************************************************************************)
FiltersInForce ==
    pc \in {"attach", "poll"} =>
        \A filter \in Filters :
            /\ ToKey(filter.name) \in DOMAIN ifaces
            /\ ifaces[ToKey(filter.name)] = ToValue(filter.codes)

(***************************************************************************)
(* On a user build no program is ever attached to a method that the allow  *)
(* list does not name, although the guardrail reads the names and          *)
(* resolve_probes chooses between two descriptions of the method.          *)
(***************************************************************************)
OnlyAllowedAttached ==
    userBuild =>
        \A p \in attached :
            LET probe == Task.probes[p]
            IN  /\ probe.class # NoName /\ probe.method # NoName
                /\ Guard!NameAllowed(probe.class \o <<".">> \o probe.method)

(***************************************************************************)
(* A run that reports success has handled every item it took from a ring   *)
(* buffer, and has polled every map of its task until after its duration.  *)
(***************************************************************************)
SuccessMeansHandled ==
    status = "ok" =>
        /\ lost = 0
        /\ \A m \in Task.maps : thread[m] = "done" /\ now > Task.duration

(***************************************************************************)
(* "drains any remaining entries from the map when it is dropped"          *)
(* (binder_transaction.rs): when the accessor is dropped by anything but   *)
(* the death of the process or a failing call, the map is empty, whoever   *)
(* wrote what was in it.                                                   *)
(***************************************************************************)
DrainedOnDrop ==
    [][open /\ ~open' /\ pc' # "off" /\ failures' = failures => DOMAIN ifaces' = {}]_vars

(***************************************************************************)
(* Every binder event comes from an interface and a code that the running  *)
(* task asks for, or from a filter left by a run that was killed or had a  *)
(* call fail on it while it drained.                                       *)
(***************************************************************************)
NoForeignEvents ==
    [][ Len(rings'[BinderRing]) > Len(rings[BinderRing]) =>
            LET event == rings'[BinderRing][Len(rings'[BinderRing])]
            IN  \/ event.key \in stale
                \/ \E filter \in Filters :
                      /\ ToKey(filter.name) = event.key
                      /\ \E i \in DOMAIN filter.codes : filter.codes[i] = event.code ]_vars

(* Every run comes to its end: offsets are not asked for for ever, no poll *)
(* loop outlives its timer however many events arrive, every thread is     *)
(* joined and drain does not go round in circles.                          *)
RunEnds == pc = "config" ~> pc = "off"

===============================================================================
