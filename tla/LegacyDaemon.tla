----------------------------- MODULE LegacyDaemon -----------------------------
(***************************************************************************)
(* One run of the C++ daemon, which is built where the Rust one is not:    *)
(* main from the config to the exit status and a doPoll thread for each    *)
(* entry of the task's bpf_maps.                                           *)
(*                                                                         *)
(* A config is a record [probes, maps, duration, target, others]: its      *)
(* first task, the only one that runs, and the probes of the further       *)
(* ones, which the guardrail looks at as well.  Time is counted in         *)
(* milliseconds, per thread as what is left of its duration.               *)
(***************************************************************************)
EXTENDS Integers, Sequences, FiniteSets

CONSTANTS
    Configs,
    NoName,         \* an optional field that is not set
    AllowedPrefixes,
    Maps,           \* maps configs may list
    Supported,      \* those doPoll recognises
    Disruptive,     \* map_MalwareSignal_output_buf
    OffsetsApi,     \* the executable_method_file_offsets flag
    MonitorDisruptive,  \* the uprobestats_monitor_disruptive_app_activities flag
    IntMax,         \* the largest int
    Forever,        \* the timeout of a poll that waits for an event only
    NoOne,
    RingCap,        \* records a ring holds
    MaxFailures     \* bound

(* Only the class is asked for with has_; any other field is empty where   *)
(* it is not set.                                                          *)
ProbeMsg == [class : Seq(STRING) \cup {NoName}, method : Seq(STRING), signature : Seq(STRING)]

ASSUME LegacyAssumption ==
    /\ \A c \in Configs : /\ c.probes \in Seq(ProbeMsg)
                          /\ c.maps \in Seq(Maps)
                          /\ c.duration \in Int \cup {NoName}
                          /\ c.others \subseteq ProbeMsg
    /\ Supported \subseteq Maps
    /\ OffsetsApi \in BOOLEAN /\ MonitorDisruptive \in BOOLEAN
    /\ IntMax \in Nat
    /\ Forever \notin Int /\ NoOne \notin Nat
    /\ RingCap \in Nat /\ MaxFailures \in Nat

Guard == INSTANCE Guardrail

VARIABLES
    userBuild,
    pc,         \* where main is
    config,
    k,          \* the probe or the map main has come to
    attached,   \* probes whose program runs
    thread,     \* where each doPoll is, by index into the maps of the task
    left,       \* of its duration, now
    seen,       \* of its duration, when it last read "now"
    timeout,    \* what is left of the timeout of its poll
    owner,      \* the thread that holds the lock of each map
    rings,      \* records in each ring
    failures

threads == <<thread, left, seen, timeout, owner>>
vars == <<userBuild, pc, config, k, attached, threads, rings, failures>>

Indices == UNION {DOMAIN c.maps : c \in Configs}
NoConfig == [probes |-> <<>>, maps |-> <<>>, duration |-> NoName, target |-> NoName,
             others |-> {}]

Init ==
    /\ userBuild \in BOOLEAN
    /\ pc = "config"
    /\ config = NoConfig
    /\ k = 1
    /\ attached = {}
    /\ thread = [i \in Indices |-> "none"]
    /\ left = [i \in Indices |-> 0] /\ seen = [i \in Indices |-> 0]
    /\ timeout = [i \in Indices |-> 0]
    /\ owner = [m \in Maps |-> NoOne]
    /\ rings = [m \in Maps |-> 0]
    /\ failures = 0

Fault == failures < MaxFailures /\ failures' = failures + 1

-------------------------------------------------------------------------------
(* main up to the threads.                                                 *)

ReadConfig(c) ==
    /\ pc = "config"
    /\ config' = c
    /\ pc' = "guardrail"
    /\ UNCHANGED <<userBuild, k, attached, threads, rings, failures>>

(* The exit status is 1 and the process is gone.                           *)
GiveUp ==
    /\ Fault
    /\ pc' = "failed"
    /\ attached' = {}
    /\ UNCHANGED <<userBuild, config, k, threads, rings>>

(* Disabled by flag, or no config.                                         *)
ConfigFails == pc = "config" /\ GiveUp

NoPid == pc = "task" /\ GiveUp

ByService(probe) == OffsetsApi /\ probe.class # NoName

OffsetsMissing ==
    /\ pc = "probes"
    /\ \E p \in DOMAIN config.probes : ByService(config.probes[p])
    /\ GiveUp

OatdumpMissing ==
    /\ pc = "probes"
    /\ \E p \in DOMAIN config.probes : ~ByService(config.probes[p])
    /\ GiveUp

AttachFails ==
    /\ pc = "attach"
    /\ k <= Len(config.probes)
    /\ GiveUp

(* getFullMethodName: the same choice resolveProbes makes.                 *)
MethodName(probe, offsetsApi) ==
    IF offsetsApi /\ probe.class # NoName THEN probe.class \o <<".">> \o probe.method
    ELSE probe.signature

AllAllowed(offsetsApi) ==
    \A probe \in {config.probes[p] : p \in DOMAIN config.probes} \cup config.others :
        Guard!NameAllowed(MethodName(probe, offsetsApi))

\* Mutant of CheckGuardrail: the flag is not handed over.
CheckSignatures ==
    /\ pc = "guardrail"
    /\ pc' = IF userBuild => AllAllowed(FALSE) THEN "task" ELSE "failed"
    /\ UNCHANGED <<userBuild, config, k, attached, threads, rings, failures>>

CheckGuardrail ==
    /\ pc = "guardrail"
    /\ pc' = IF userBuild => AllAllowed(OffsetsApi) THEN "task" ELSE "failed"
    /\ UNCHANGED <<userBuild, config, k, attached, threads, rings, failures>>

(* Only system_server is probed.  A duration of zero or less is logged.    *)
ResolveTask ==
    /\ pc = "task"
    /\ pc' = IF config.duration # NoName /\ config.target = "system_server"
             THEN "probes" ELSE "failed"
    /\ UNCHANGED <<userBuild, config, k, attached, threads, rings, failures>>

ResolveProbes ==
    /\ pc = "probes"
    /\ pc' = IF config.probes # <<>> THEN "attach" ELSE "failed"
    /\ UNCHANGED <<userBuild, config, k, attached, threads, rings, failures>>

(* The flags main looks at are compared with resolvedProbe.filename, the   *)
(* file that holds the method, which is never the name of a program.       *)
Attach ==
    /\ pc = "attach"
    /\ k <= Len(config.probes)
    /\ attached' = attached \cup {k}
    /\ k' = k + 1
    /\ UNCHANGED <<userBuild, pc, config, threads, rings, failures>>

AttachDone ==
    /\ pc = "attach"
    /\ k > Len(config.probes)
    /\ k' = 1
    /\ pc' = "poll"
    /\ UNCHANGED <<userBuild, config, attached, threads, rings, failures>>

Enabled(m) == m = Disruptive => MonitorDisruptive

(* One thread per entry, also for an entry that is there already.          *)
Spawn ==
    /\ pc = "poll"
    /\ k <= Len(config.maps)
    /\ thread' = [thread EXCEPT ![k] = IF Enabled(config.maps[k]) THEN "start" ELSE "none"]
    /\ k' = k + 1
    /\ UNCHANGED <<userBuild, pc, config, attached, left, seen, timeout, owner, rings,
                   failures>>

-------------------------------------------------------------------------------
(* doPoll.                                                                 *)

Ring(i) == config.maps[i]
Goto(i, place) == thread' = [thread EXCEPT ![i] = place]

Begin(i) ==
    /\ thread[i] = "start"
    /\ left' = [left EXCEPT ![i] = config.duration]
    /\ seen' = [seen EXCEPT ![i] = config.duration]
    /\ Goto(i, "check")
    /\ UNCHANGED <<userBuild, pc, config, k, attached, timeout, owner, rings, failures>>

\* Mutant of Check: the last millisecond is not polled.
CheckEarly(i) ==
    /\ thread[i] = "check"
    /\ Goto(i, IF seen[i] > 1 THEN "clock" ELSE "done")
    /\ UNCHANGED <<userBuild, pc, config, k, attached, left, seen, timeout, owner, rings,
                   failures>>

(* The loop's condition, on the time that was read in the last round.      *)
Check(i) ==
    /\ thread[i] = "check"
    /\ Goto(i, IF seen[i] > 0 THEN "clock" ELSE "done")
    /\ UNCHANGED <<userBuild, pc, config, k, attached, left, seen, timeout, owner, rings,
                   failures>>

(* static_cast<int>, and a poll to which every negative number is one.     *)
ToTimeout(millis) ==
    LET int == ((millis + IntMax + 1) % (2 * (IntMax + 1))) - (IntMax + 1)
    IN  IF int < 0 THEN Forever ELSE int

(* The clock is read again for what remains.  An unsupported map ends the  *)
(* thread.                                                                 *)
ReadClock(i) ==
    /\ thread[i] = "clock"
    /\ timeout' = [timeout EXCEPT ![i] = ToTimeout(left[i])]
    /\ Goto(i, IF Ring(i) \in Supported THEN "open" ELSE "done")
    /\ UNCHANGED <<userBuild, pc, config, k, attached, left, seen, owner, rings, failures>>

Open(i) ==
    /\ thread[i] = "open"
    /\ owner[Ring(i)] = NoOne
    /\ owner' = [owner EXCEPT ![Ring(i)] = i]
    /\ Goto(i, "wait")
    /\ UNCHANGED <<userBuild, pc, config, k, attached, left, seen, timeout, rings, failures>>

(* Create has failed and its value is taken: the process aborts.           *)
OpenFails(i) ==
    /\ thread[i] = "open"
    /\ \/ owner[Ring(i)] # NoOne /\ UNCHANGED failures
       \/ Fault
    /\ pc' = "aborted"
    /\ attached' = {}
    /\ UNCHANGED <<userBuild, config, k, threads, rings>>

\* Mutant of PollReturns: the ring stays open while there was something in it.
PollReturnsLocked(i) ==
    /\ thread[i] = "wait"
    /\ rings[Ring(i)] > 0 \/ timeout[i] = 0
    /\ owner' = IF rings[Ring(i)] > 0 THEN owner ELSE [owner EXCEPT ![Ring(i)] = NoOne]
    /\ rings' = [rings EXCEPT ![Ring(i)] = 0]
    /\ Goto(i, "read")
    /\ UNCHANGED <<userBuild, pc, config, k, attached, left, seen, timeout, failures>>

(* pollRingBuf returns what it consumed, or nothing when the timeout is    *)
(* over; the map is closed.  Each value is written to statsd.              *)
PollReturns(i) ==
    /\ thread[i] = "wait"
    /\ rings[Ring(i)] > 0 \/ timeout[i] = 0
    /\ owner' = [owner EXCEPT ![Ring(i)] = NoOne]
    /\ rings' = [rings EXCEPT ![Ring(i)] = 0]
    /\ Goto(i, "read")
    /\ UNCHANGED <<userBuild, pc, config, k, attached, left, seen, timeout, failures>>

\* Mutant of ReadNow: "now" is read once, before the loop.
ReadNowOnce(i) ==
    /\ thread[i] = "read"
    /\ Goto(i, "check")
    /\ UNCHANGED <<userBuild, pc, config, k, attached, left, seen, timeout, owner, rings,
                   failures>>

ReadNow(i) ==
    /\ thread[i] = "read"
    /\ seen' = [seen EXCEPT ![i] = left[i]]
    /\ Goto(i, "check")
    /\ UNCHANGED <<userBuild, pc, config, k, attached, left, timeout, owner, rings, failures>>

ThreadStep(i) ==
    /\ pc = "poll"
    /\ \/ Begin(i) \/ Check(i) \/ ReadClock(i) \/ Open(i) \/ OpenFails(i)
       \/ PollReturns(i) \/ ReadNow(i)

Join ==
    /\ pc = "poll"
    /\ k > Len(config.maps)
    /\ \A i \in Indices : thread[i] \in {"none", "done"}
    /\ pc' = "done"
    /\ attached' = {}
    /\ UNCHANGED <<userBuild, config, k, threads, rings, failures>>

-------------------------------------------------------------------------------
(* Time, cut off one millisecond after the last duration is over.          *)
Polling(i) == thread[i] \notin {"none", "start", "done"}

Tick ==
    /\ pc = "poll"
    /\ \E i \in Indices : Polling(i) /\ left[i] >= 0
    /\ left' = [i \in Indices |-> IF Polling(i) /\ left[i] >= 0 THEN left[i] - 1 ELSE left[i]]
    /\ timeout' = [i \in Indices |->
                     IF thread[i] = "wait" /\ timeout[i] \notin {0, Forever}
                     THEN timeout[i] - 1 ELSE timeout[i]]
    /\ UNCHANGED <<userBuild, pc, config, k, attached, thread, seen, owner, rings, failures>>

(* The probed process.  A ring nobody reads is left out.                   *)
Emit(m) ==
    /\ attached # {}
    /\ \E i \in DOMAIN config.maps : Ring(i) = m
    /\ rings[m] < RingCap
    /\ rings' = [rings EXCEPT ![m] = @ + 1]
    /\ UNCHANGED <<userBuild, pc, config, k, attached, threads, failures>>

MainStep ==
    \/ \E c \in Configs : ReadConfig(c)
    \/ ConfigFails \/ CheckGuardrail \/ ResolveTask \/ NoPid
    \/ ResolveProbes \/ OffsetsMissing \/ OatdumpMissing
    \/ Attach \/ AttachFails \/ AttachDone \/ Spawn \/ Join

Next ==
    \/ MainStep
    \/ \E i \in Indices : ThreadStep(i)
    \/ Tick
    \/ \E m \in Maps : Emit(m)

Spec == Init /\ [][Next]_vars

(* The process and its threads are scheduled and time passes.              *)
FairSpec ==
    /\ Spec
    /\ WF_vars(MainStep)
    /\ \A i \in Indices : WF_vars(ThreadStep(i))
    /\ WF_vars(Tick)

(* The probed methods are called again and again as well.                  *)
BusySpec == FairSpec /\ \A m \in Maps : WF_vars(Emit(m))

-------------------------------------------------------------------------------
Places == {"config", "guardrail", "task", "probes", "attach", "poll", "done", "failed",
           "aborted"}
ThreadPlaces == {"none", "start", "check", "clock", "open", "wait", "read", "done"}

TypeOK ==
    /\ userBuild \in BOOLEAN
    /\ pc \in Places
    /\ config \in Configs \cup {NoConfig}
    /\ k \in Nat
    /\ attached \subseteq DOMAIN config.probes
    /\ thread \in [Indices -> ThreadPlaces]
    /\ left \in [Indices -> Int] /\ seen \in [Indices -> Int]
    /\ timeout \in [Indices -> (0 .. IntMax) \cup {Forever}]
    /\ owner \in [Maps -> Indices \cup {NoOne}]
    /\ rings \in [Maps -> 0 .. RingCap]
    /\ failures \in 0 .. MaxFailures

(***************************************************************************)
(* When the run reports success, every map of the task that is enabled and *)
(* supported has been polled to the end of the duration.                   *)
(***************************************************************************)
PolledToTheEnd ==
    pc = "done" =>
        \A i \in DOMAIN config.maps :
            Enabled(Ring(i)) /\ Ring(i) \in Supported => thread[i] = "done" /\ left[i] <= 0

(***************************************************************************)
(* On a user build no program is attached to a method that the allow list  *)
(* does not name, although the guardrail and resolveProbes each decide     *)
(* which description of the method counts.                                 *)
(***************************************************************************)
OnlyAllowedAttached ==
    userBuild =>
        \A p \in attached :
            LET probe == config.probes[p]
            IN  Guard!NameAllowed(
                    IF OffsetsApi /\ probe.class # NoName
                    THEN probe.class \o <<".">> \o probe.method ELSE probe.signature)

(***************************************************************************)
(* The process aborts on a map it cannot open only when something is wrong *)
(* with the map or the config lists it twice: a thread never meets its own *)
(* lock, or that of a thread that has gone.                                *)
(***************************************************************************)
AbortsOnDuplicate ==
    pc = "aborted" /\ failures = 0 =>
        \E i, j \in DOMAIN config.maps : i # j /\ Ring(i) = Ring(j)

(***************************************************************************)
(* As long as the probed methods are called, the run ends, although a poll *)
(* that starts after the end of the duration, or with a timeout beyond an  *)
(* int, waits without limit.                                               *)
(***************************************************************************)
EndsWithEvents == pc = "poll" ~> pc \in {"done", "aborted"}

(***************************************************************************)
(* "How long the probes should remain active" (config.proto): the run      *)
(* ends once the duration is over, whether or not anything happens.        *)
(***************************************************************************)
EndsWithDuration == pc = "poll" ~> pc \in {"done", "aborted"}

===============================================================================
