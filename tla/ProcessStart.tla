----------------------------- MODULE ProcessStart -----------------------------
(***************************************************************************)
(* A run whose config selects its target on start waits for an app to      *)
(* start, through an observer registered with the activity manager or      *)
(* through a program attached to system_server that writes each start into *)
(* a pinned ring buffer.  Several runs, one after the other.               *)
(*                                                                         *)
(* Process starts are numbered in the order they happen.                   *)
(***************************************************************************)
EXTENDS Integers, Sequences, FiniteSets

CONSTANTS
    Names,          \* process names
    AnyName,        \* no name is asked for
    Pids,           \* pids read from a ProcessRecord; 0 before one is set
    Duration,       \* of the task, in clock ticks
    RingCap,        \* records process_change_output_buf holds
    MaxStarts, MaxRuns, MaxCrashes, MaxFailures     \* bounds

ASSUME ProcessStartAssumption ==
    /\ AnyName \notin Names
    /\ Pids \subseteq Int
    /\ Duration \in Nat
    /\ RingCap \in Nat
    /\ MaxStarts \in Nat /\ MaxRuns \in Nat /\ MaxCrashes \in Nat /\ MaxFailures \in Nat

VARIABLES
    observer,   \* the use_process_observer_api flag
    starts,     \* history: every process start, [name, pid]
    ring,       \* starts waiting in process_change_output_buf
    pc,         \* where the run is; "off" between runs
    target,     \* the name the run waits for
    inflight,   \* starts the activity manager has still to report to the observer
    inbox,      \* starts in the mpsc channel
    batch,      \* starts poll_ring_buf returned, not looked at yet
    left,       \* ticks until the timer runs out
    result,     \* the start the run resolved to; 0 for none
    mark,       \* history: starts before the run began to listen
    looked,     \* history: starts before the run's last look
    dropped,    \* history: starts that found the ring full
    results,    \* history: the results of all runs
    runs, crashes, failures

local == <<target, inflight, inbox, batch, left, result, mark, looked>>
bounds == <<runs, crashes, failures>>
vars == <<observer, starts, ring, pc, local, dropped, results, bounds>>

Waiting == {"recv", "timer", "poll", "batch"}

Idle ==
    /\ target = AnyName
    /\ inflight = <<>> /\ inbox = <<>> /\ batch = <<>>
    /\ left = 0 /\ result = 0 /\ mark = 0 /\ looked = 0

Init ==
    /\ observer \in BOOLEAN
    /\ starts = <<>>
    /\ ring = <<>>
    /\ pc = "off"
    /\ Idle
    /\ dropped = {}
    /\ results = <<>>
    /\ runs = 0 /\ crashes = 0 /\ failures = 0

Fault == failures < MaxFailures /\ failures' = failures + 1

-------------------------------------------------------------------------------
(* The system.                                                             *)

(* An app process starts.  The program that is attached, and stays so as   *)
(* long as the run lives, drops the event when the ring is full.           *)
Launch(name, pid) ==
    LET i == Len(starts) + 1
        traced == ~observer /\ pc # "off"
    IN  /\ Len(starts) < MaxStarts
        /\ starts' = Append(starts, [name |-> name, pid |-> pid])
        /\ ring' = IF traced /\ Len(ring) < RingCap THEN Append(ring, i) ELSE ring
        /\ dropped' = IF traced /\ Len(ring) >= RingCap THEN dropped \cup {i} ELSE dropped
        /\ inflight' = IF observer /\ pc \in Waiting THEN Append(inflight, i) ELSE inflight
        /\ UNCHANGED <<observer, pc, target, inbox, batch, left, result, mark, looked,
                       results, bounds>>

Tick ==
    /\ pc \in Waiting
    /\ left >= 0
    /\ left' = left - 1
    /\ UNCHANGED <<observer, starts, ring, pc, target, inflight, inbox, batch, result, mark,
                   looked, dropped, results, bounds>>

-------------------------------------------------------------------------------
(* The run.                                                                *)

NameMatches(i) == target = AnyName \/ starts[i].name = target

\* Mutant of Listen: the seconds of the task are taken for something longer.
ListenLong(name, place) ==
    /\ pc = "off"
    /\ runs < MaxRuns
    /\ runs' = runs + 1
    /\ target' = name
    /\ pc' = place
    /\ left' = 2 * Duration
    /\ mark' = Len(starts)
    /\ looked' = Len(starts)
    /\ UNCHANGED <<observer, starts, ring, inflight, inbox, batch, result, dropped, results,
                   crashes, failures>>

(* resolve_process for a target that is selected on its start.             *)
Listen(name, place) ==
    /\ pc = "off"
    /\ runs < MaxRuns
    /\ runs' = runs + 1
    /\ target' = name
    /\ pc' = place
    /\ left' = Duration
    /\ mark' = Len(starts)
    /\ looked' = Len(starts)
    /\ UNCHANGED <<observer, starts, ring, inflight, inbox, batch, result, dropped, results,
                   crashes, failures>>

Observe(name) == observer /\ Listen(name, "recv")

(* To makeActive, or to onProcessActive when that one is not found.        *)
AttachProgram(name) == ~observer /\ Listen(name, "timer")

NotListening ==
    /\ pc = "off"
    /\ runs < MaxRuns
    /\ Fault
    /\ runs' = runs + 1
    /\ UNCHANGED <<observer, starts, ring, pc, local, dropped, results, crashes>>

(* The platform has no such API, or refuses.                               *)
ObserveFails == observer /\ NotListening

(* Neither method is found, or the program cannot be attached.             *)
AttachFails == ~observer /\ NotListening

(* on_process_started, on the activity manager's thread.                   *)
OnProcessStarted ==
    /\ pc = "recv"
    /\ inflight # <<>>
    /\ inflight' = Tail(inflight)
    /\ inbox' = IF NameMatches(Head(inflight)) THEN Append(inbox, Head(inflight)) ELSE inbox
    /\ looked' = Head(inflight)
    /\ UNCHANGED <<observer, starts, ring, pc, target, batch, left, result, mark, dropped,
                   results, bounds>>

(* The wait ends; the observer is unregistered before the channel goes.    *)
WaitOver(place, i) ==
    /\ pc' = place
    /\ result' = i
    /\ results' = IF i = 0 THEN results ELSE Append(results, i)
    /\ inflight' = <<>> /\ inbox' = <<>> /\ batch' = <<>>
    /\ UNCHANGED <<observer, starts, ring, target, left, mark, dropped, runs, crashes>>

\* Mutant of Receive: the latest start in the channel is taken.
ReceiveLatest ==
    /\ pc = "recv"
    /\ inbox # <<>>
    /\ WaitOver("running", inbox[Len(inbox)])
    /\ UNCHANGED <<looked, failures>>

Receive ==
    /\ pc = "recv"
    /\ inbox # <<>>
    /\ WaitOver("running", Head(inbox))
    /\ UNCHANGED <<looked, failures>>

ReceiveTimeout ==
    /\ pc = "recv"
    /\ inbox = <<>>
    /\ left <= 0
    /\ WaitOver("timeout", 0)
    /\ UNCHANGED <<looked, failures>>

Goto(place) == pc' = place

\* Mutant of CheckTimer: every turn of the loop gets the whole duration.
RestartTimer ==
    /\ pc = "timer"
    /\ left' = Duration
    /\ Goto("poll")
    /\ UNCHANGED <<observer, starts, ring, target, inflight, inbox, batch, result, mark,
                   looked, dropped, results, bounds>>

(* With zero milliseconds left there is one more turn.                     *)
CheckTimer ==
    /\ pc = "timer"
    /\ left >= 0
    /\ Goto("poll")
    /\ UNCHANGED <<observer, starts, ring, local, dropped, results, bounds>>

TimerOut ==
    /\ pc = "timer"
    /\ left < 0
    /\ WaitOver("timeout", 0)
    /\ UNCHANGED <<looked, failures>>

\* Mutant of Poll: the records stay in the ring.
PollKeeping ==
    /\ pc = "poll"
    /\ ring # <<>> \/ left <= 0
    /\ batch' = ring
    /\ looked' = Len(starts)
    /\ Goto("batch")
    /\ UNCHANGED <<observer, starts, ring, target, inflight, inbox, left, result, mark,
                   dropped, results, bounds>>

(* poll_ring_buf returns what is in the ring, whoever was running when it  *)
(* was written, or nothing once the time is over.                          *)
Poll ==
    /\ pc = "poll"
    /\ ring # <<>> \/ left <= 0
    /\ batch' = ring
    /\ ring' = <<>>
    /\ looked' = Len(starts)
    /\ Goto("batch")
    /\ UNCHANGED <<observer, starts, target, inflight, inbox, left, result, mark, dropped,
                   results, bounds>>

(* The ring cannot be read, or a record's name is not UTF-8.               *)
PollFails ==
    /\ pc \in {"poll", "batch"}
    /\ Fault
    /\ WaitOver("failed", 0)
    /\ UNCHANGED looked

\* Mutant of SkipRecord: the rest of the batch is skipped with it.
SkipBatch ==
    /\ pc = "batch"
    /\ batch # <<>>
    /\ ~NameMatches(Head(batch)) \/ starts[Head(batch)].pid <= 0
    /\ batch' = <<>>
    /\ UNCHANGED <<observer, starts, ring, pc, target, inflight, inbox, left, result, mark,
                   looked, dropped, results, bounds>>

(* Another process, or one whose pid was not set when it was read.         *)
SkipRecord ==
    /\ pc = "batch"
    /\ batch # <<>>
    /\ ~NameMatches(Head(batch)) \/ starts[Head(batch)].pid <= 0
    /\ batch' = Tail(batch)
    /\ UNCHANGED <<observer, starts, ring, pc, target, inflight, inbox, left, result, mark,
                   looked, dropped, results, bounds>>

(* The first record that fits; the rest of the batch is thrown away.       *)
TakeRecord ==
    /\ pc = "batch"
    /\ batch # <<>>
    /\ NameMatches(Head(batch)) /\ starts[Head(batch)].pid > 0
    /\ WaitOver("running", Head(batch))
    /\ UNCHANGED <<looked, failures>>

BatchDone ==
    /\ pc = "batch"
    /\ batch = <<>>
    /\ Goto("timer")
    /\ UNCHANGED <<observer, starts, ring, local, dropped, results, bounds>>

(* The process is gone and its probe with it; the pinned ring stays.       *)
Gone ==
    /\ pc' = "off"
    /\ target' = AnyName
    /\ inflight' = <<>> /\ inbox' = <<>> /\ batch' = <<>>
    /\ left' = 0 /\ result' = 0 /\ mark' = 0 /\ looked' = 0
    /\ UNCHANGED <<observer, starts, ring, dropped, results, runs, failures>>

(* The run goes on to its probes, module Uprobestats, or to its error.     *)
Exit ==
    /\ pc \in {"running", "timeout", "failed"}
    /\ Gone
    /\ UNCHANGED crashes

Crash ==
    /\ pc # "off"
    /\ crashes < MaxCrashes
    /\ crashes' = crashes + 1
    /\ Gone

-------------------------------------------------------------------------------
WaitStep ==
    \/ Receive \/ ReceiveTimeout
    \/ CheckTimer \/ TimerOut \/ Poll \/ PollFails
    \/ SkipRecord \/ TakeRecord \/ BatchDone

Next ==
    \/ \E name \in Names, pid \in Pids : Launch(name, pid)
    \/ Tick
    \/ \E name \in Names \cup {AnyName} : Observe(name) \/ AttachProgram(name)
    \/ ObserveFails \/ AttachFails
    \/ OnProcessStarted
    \/ WaitStep
    \/ Exit
    \/ Crash

Spec == Init /\ [][Next]_vars

(* The waiting thread is scheduled and time passes.                        *)
FairSpec == Spec /\ WF_vars(WaitStep) /\ WF_vars(Tick)

-------------------------------------------------------------------------------
Ids == 1 .. Len(starts)

TypeOK ==
    /\ observer \in BOOLEAN
    /\ starts \in Seq([name : Names, pid : Pids])
    /\ ring \in Seq(Ids) /\ Len(ring) <= RingCap
    /\ pc \in Waiting \cup {"off", "running", "timeout", "failed"}
    /\ target \in Names \cup {AnyName}
    /\ inflight \in Seq(Ids) /\ inbox \in Seq(Ids) /\ batch \in Seq(Ids)
    /\ left \in -1 .. Duration
    /\ result \in 0 .. Len(starts) /\ mark \in 0 .. Len(starts)
    /\ looked \in 0 .. Len(starts)
    /\ dropped \subseteq Ids
    /\ results \in Seq(Ids)
    /\ runs \in 0 .. MaxRuns /\ crashes \in 0 .. MaxCrashes /\ failures \in 0 .. MaxFailures

(***************************************************************************)
(* With the observer, a run resolves to the first process of the name it   *)
(* waits for that starts after it began to wait, however the callbacks,    *)
(* the channel and the timeout interleave.                                 *)
(***************************************************************************)
FirstStart ==
    observer /\ result # 0 =>
        /\ result > mark
        /\ NameMatches(result)
        /\ \A i \in mark + 1 .. result - 1 : ~NameMatches(i)

(***************************************************************************)
(* A wait that times out has missed nothing: no process it waits for       *)
(* started between its beginning and its last look, unless the start was   *)
(* reported before the process had a pid or found the ring full.           *)
(***************************************************************************)
TimeoutMeansNone ==
    pc = "timeout" =>
        \A i \in mark + 1 .. looked :
            NameMatches(i) => ~observer /\ (starts[i].pid <= 0 \/ i \in dropped)

(***************************************************************************)
(* No start is resolved twice, nor one that is older than a start an       *)
(* earlier run resolved to, although the ring outlives the runs and they   *)
(* may be killed at any time.                                              *)
(***************************************************************************)
ResolvedInOrder ==
    \A i, j \in DOMAIN results : i < j => results[i] < results[j]

(* The wait comes to its end however many other processes start.           *)
WaitEnds == pc \in Waiting ~> pc \notin Waiting

(***************************************************************************)
(* "collecting any values emitted within `timeout_ms`" (bpf.rs): the       *)
(* process a run resolves to started while the run was waiting for it.     *)
(***************************************************************************)
StartedDuringWait == result # 0 => result > mark

===============================================================================
