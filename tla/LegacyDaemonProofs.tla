-------------------------- MODULE LegacyDaemonProofs --------------------------
(***************************************************************************)
(* What a run of the C++ daemon attaches, how long it polls and when it    *)
(* aborts, for any configs, any length of a duration and of an int, and    *)
(* any number of failing calls.                                            *)
(***************************************************************************)
EXTENDS LegacyDaemon, TLAPS

(* Where main is once the guardrail has let the config through.            *)
Passed == {"task", "probes", "attach", "poll"}

(* The verdict of the guardrail goes with the config, and programs run     *)
(* only where it was given.                                                *)
Verdict ==
    /\ pc \in Passed => (userBuild => AllAllowed(OffsetsApi))
    /\ attached # {} => pc \in {"attach", "poll"}

(* What main has come to.                                                  *)
Progress ==
    /\ pc \in {"guardrail", "task", "probes", "attach", "poll", "done", "aborted"} =>
          config \in Configs
    /\ pc \in {"probes", "attach", "poll", "done", "aborted"} => config.duration \in Int
    /\ k >= 1
    /\ pc \in {"config", "guardrail", "task", "probes"} => k = 1
    /\ pc \in {"poll", "done", "aborted"} => k <= Len(config.maps) + 1
    /\ pc = "done" => k > Len(config.maps)

(* The threads there are: those of the enabled maps main has come to.      *)
Spawned ==
    /\ \A i \in Indices :
          thread[i] # "none" =>
              pc \in {"poll", "done", "aborted"} /\ i \in DOMAIN config.maps /\ i < k
    /\ pc \in {"poll", "done"} =>
          \A i \in DOMAIN config.maps : i < k /\ Enabled(Ring(i)) => thread[i] # "none"
    /\ pc = "done" => \A i \in Indices : thread[i] \in {"none", "done"}

(* What a thread knows of the time is never less than what is left, and    *)
(* one that polls a map has stopped only at the end.                       *)
Clocks ==
    \A i \in Indices :
        /\ thread[i] \notin {"none", "start"} => left[i] <= seen[i]
        /\ thread[i] = "done" /\ Ring(i) \in Supported => seen[i] <= 0

(* A lock is held by the thread that waits in the poll of its ring, and by *)
(* no other.                                                               *)
Locks ==
    /\ \A m \in Maps :
          owner[m] # NoOne => /\ owner[m] \in DOMAIN config.maps
                              /\ Ring(owner[m]) = m
                              /\ thread[owner[m]] = "wait"
    /\ \A i \in Indices : thread[i] = "wait" => owner[Ring(i)] = i

Inv == TypeOK /\ Verdict /\ Progress /\ Spawned /\ Clocks /\ Locks /\ AbortsOnDuplicate

-------------------------------------------------------------------------------
(* The fields of a config, and of none.                                    *)
LEMMA ConfigTyped ==
    ASSUME TypeOK
    PROVE  /\ config.maps \in Seq(Maps) /\ config.probes \in Seq(ProbeMsg)
           /\ DOMAIN config.maps = 1 .. Len(config.maps) /\ Len(config.maps) \in Nat
           /\ DOMAIN config.probes = 1 .. Len(config.probes) /\ Len(config.probes) \in Nat
           /\ DOMAIN config.maps \subseteq Indices
           /\ \A i \in DOMAIN config.maps : Ring(i) \in Maps
<1>1. CASE config \in Configs
    <2>1. config.maps \in Seq(Maps) /\ config.probes \in Seq(ProbeMsg)
        BY <1>1, LegacyAssumption
    <2>2. DOMAIN config.maps \subseteq Indices
        BY <1>1 DEF Indices
    <2>3. QED
        BY <2>1, <2>2 DEF Ring
<1>2. CASE config = NoConfig
    BY <1>2 DEF NoConfig, Ring
<1>3. QED
    BY <1>1, <1>2 DEF TypeOK

LEMMA IndicesAreNumbers == Indices \subseteq Nat
<1> SUFFICES ASSUME NEW c \in Configs, NEW i \in DOMAIN c.maps PROVE i \in Nat
    BY DEF Indices
<1>1. c.maps \in Seq(Maps)
    BY LegacyAssumption
<1>2. QED
    BY <1>1

(* The cast to an int and what poll makes of it: a timeout or none.        *)
LEMMA TimeoutTyped ==
    ASSUME NEW millis \in Int
    PROVE  ToTimeout(millis) \in (0 .. IntMax) \cup {Forever}
<1> DEFINE size == 2 * (IntMax + 1)
           wrapped == (millis + IntMax + 1) % size
<1>1. IntMax \in Nat
    BY LegacyAssumption
<1>2. size \in Nat \ {0} /\ millis + IntMax + 1 \in Int
    BY <1>1
<1>3. wrapped \in 0 .. size - 1
    <2> HIDE DEF size
    <2>1. QED
        BY <1>2
<1>4. wrapped - (IntMax + 1) \in Int /\ wrapped - (IntMax + 1) <= IntMax
    BY <1>1, <1>3
<1>5. QED
    BY <1>1, <1>4 DEF ToTimeout

(* What a step of a thread leaves alone, and what it leaves of the rest.   *)
LEMMA ThreadFrame ==
    ASSUME NEW i \in Indices, ThreadStep(i), TypeOK
    PROVE  /\ UNCHANGED <<userBuild, config, k>>
           /\ \A j \in Indices \ {i} : thread'[j] = thread[j] /\ seen'[j] = seen[j]
                                       /\ left'[j] = left[j]
           /\ OpenFails(i) \/ UNCHANGED <<pc, attached, failures>>
BY DEF ThreadStep, Begin, Check, ReadClock, Open, OpenFails, PollReturns, ReadNow, Goto,
       TypeOK, threads

-------------------------------------------------------------------------------
LEMMA InvInit == Init => Inv
<1> SUFFICES ASSUME Init PROVE Inv
    OBVIOUS
<1>1. TypeOK
    BY LegacyAssumption DEF Init, TypeOK, Places, ThreadPlaces, NoConfig
<1>2. QED
    BY <1>1 DEF Init, Inv, Verdict, Passed, Progress, Spawned, Clocks, Locks,
                AbortsOnDuplicate, NoConfig

LEMMA TypeMain ==
    ASSUME Inv, MainStep
    PROVE  TypeOK'
<1> USE DEF threads, Places, GiveUp, Fault
<1>1. IntMax \in Nat /\ MaxFailures \in Nat /\ TypeOK /\ Progress
    BY LegacyAssumption DEF Inv
<1>2. ASSUME NEW c \in Configs, ReadConfig(c) PROVE TypeOK'
    <2>1. attached = {}
        BY <1>2 DEF Inv, ReadConfig, Verdict
    <2>2. QED
        BY <1>1, <1>2, <2>1 DEF ReadConfig, TypeOK
<1>3. CASE ConfigFails \/ NoPid \/ OffsetsMissing \/ OatdumpMissing \/ AttachFails
    BY <1>1, <1>3 DEF ConfigFails, NoPid, OffsetsMissing, OatdumpMissing, AttachFails, TypeOK
<1>4. CASE CheckGuardrail \/ ResolveTask \/ ResolveProbes \/ AttachDone
    BY <1>1, <1>4 DEF CheckGuardrail, ResolveTask, ResolveProbes, AttachDone, TypeOK
<1>5. CASE Attach
    <2>1. k \in DOMAIN config.probes
        BY <1>1, <1>5, ConfigTyped DEF Attach, Progress, TypeOK
    <2>2. QED
        BY <1>1, <1>5, <2>1 DEF Attach, TypeOK
<1>6. CASE Spawn
    <2>1. thread' \in [Indices -> ThreadPlaces] /\ k' \in Nat
        <3>1. thread \in [Indices -> ThreadPlaces] /\ k \in Nat
            BY <1>1 DEF TypeOK
        <3>2. PICK place \in {"start", "none"} : thread' = [thread EXCEPT ![k] = place]
            BY <1>6 DEF Spawn
        <3>3. place \in ThreadPlaces
            BY DEF ThreadPlaces
        <3>4. thread' \in [Indices -> ThreadPlaces]
            BY <3>1, <3>2, <3>3
        <3>5. QED
            BY <1>6, <3>1, <3>4 DEF Spawn
    <2>2. QED
        BY <1>1, <1>6, <2>1 DEF Spawn, TypeOK
<1>7. CASE Join
    BY <1>1, <1>7 DEF Join, TypeOK
<1>8. QED
    BY <1>2, <1>3, <1>4, <1>5, <1>6, <1>7 DEF MainStep

LEMMA TypeThread ==
    ASSUME Inv, NEW i \in Indices, ThreadStep(i)
    PROVE  TypeOK'
<1> USE DEF threads, Places, ThreadPlaces, Goto
<1>1. /\ IntMax \in Nat /\ RingCap \in Nat /\ MaxFailures \in Nat
      /\ TypeOK /\ Progress /\ Spawned /\ pc = "poll"
    BY LegacyAssumption DEF Inv, ThreadStep
<1>2. thread[i] # "none" => i \in DOMAIN config.maps /\ Ring(i) \in Maps
    BY <1>1, ConfigTyped DEF Spawned
<1>3. CASE Begin(i)
    BY <1>1, <1>3 DEF Begin, TypeOK, Progress
<1>4. CASE Check(i) \/ ReadNow(i)
    BY <1>1, <1>4 DEF Check, ReadNow, TypeOK
<1>5. CASE ReadClock(i)
    <2>1. ToTimeout(left[i]) \in (0 .. IntMax) \cup {Forever}
        BY <1>1, TimeoutTyped DEF TypeOK
    <2>2. QED
        BY <1>1, <1>5, <2>1 DEF ReadClock, TypeOK
<1>6. CASE Open(i)
    BY <1>1, <1>2, <1>6 DEF Open, TypeOK
<1>7. CASE OpenFails(i)
    BY <1>1, <1>7 DEF OpenFails, Fault, TypeOK
<1>8. CASE PollReturns(i)
    BY <1>1, <1>2, <1>8 DEF PollReturns, TypeOK
<1>9. QED
    BY <1>3, <1>4, <1>5, <1>6, <1>7, <1>8 DEF ThreadStep

LEMMA TypeTime ==
    ASSUME Inv, Tick
    PROVE  TypeOK'
<1>1. TypeOK /\ IntMax \in Nat /\ Forever \notin Int
    BY LegacyAssumption DEF Inv
<1>2. left' \in [Indices -> Int]
    BY <1>1 DEF Tick, TypeOK
<1>3. timeout' \in [Indices -> (0 .. IntMax) \cup {Forever}]
    BY <1>1 DEF Tick, TypeOK
<1>4. QED
    BY <1>1, <1>2, <1>3 DEF Tick, TypeOK

LEMMA TypeEmit ==
    ASSUME Inv, NEW m \in Maps, Emit(m)
    PROVE  TypeOK'
BY LegacyAssumption DEF Inv, Emit, TypeOK, threads

LEMMA TypeNext ==
    ASSUME Inv, [Next]_vars
    PROVE  TypeOK'
<1>1. CASE UNCHANGED vars
    BY <1>1 DEF Inv, TypeOK, vars, threads
<1>2. QED
    BY <1>1, TypeMain, TypeThread, TypeTime, TypeEmit DEF Next

-------------------------------------------------------------------------------
(* Outside of main's steps the threads end the run or leave main alone.    *)
LEMMA OthersLeaveMain ==
    ASSUME Inv, [Next]_vars, ~MainStep
    PROVE  /\ UNCHANGED <<userBuild, config, k>>
           /\ \/ UNCHANGED <<pc, attached, failures>>
              \/ pc = "poll" /\ pc' = "aborted" /\ attached' = {}
<1>1. CASE UNCHANGED vars
    BY <1>1 DEF vars
<1>2. ASSUME NEW i \in Indices, ThreadStep(i)
      PROVE  /\ UNCHANGED <<userBuild, config, k>>
             /\ \/ UNCHANGED <<pc, attached, failures>>
                \/ pc = "poll" /\ pc' = "aborted" /\ attached' = {}
    <2>1. pc = "poll"
        BY <1>2 DEF ThreadStep
    <2>2. CASE OpenFails(i)
        BY <2>1, <2>2 DEF OpenFails
    <2>3. CASE ~OpenFails(i)
        BY <1>2, <2>3, ThreadFrame DEF Inv
    <2>4. QED
        BY <2>2, <2>3
<1>3. CASE Tick \/ \E m \in Maps : Emit(m)
    BY <1>3 DEF Tick, Emit, threads
<1>4. QED
    BY <1>1, <1>2, <1>3 DEF Next

LEMMA VerdictNext ==
    ASSUME Inv, [Next]_vars
    PROVE  Verdict'
<1> USE DEF Passed, AllAllowed
<1>1. CASE ~MainStep
    BY <1>1, OthersLeaveMain DEF Inv, Verdict
<1>2. CASE MainStep
    <2>1. ASSUME NEW c \in Configs, ReadConfig(c) PROVE Verdict'
        BY <2>1 DEF ReadConfig, Inv, Verdict
    <2>2. CASE ConfigFails \/ NoPid \/ OffsetsMissing \/ OatdumpMissing \/ AttachFails
        BY <2>2 DEF ConfigFails, NoPid, OffsetsMissing, OatdumpMissing, AttachFails, GiveUp,
                    Verdict
    <2>3. CASE CheckGuardrail
        BY <2>3 DEF CheckGuardrail, Inv, Verdict
    <2>4. CASE ResolveTask \/ ResolveProbes \/ Attach \/ AttachDone \/ Spawn \/ Join
        BY <2>4 DEF ResolveTask, ResolveProbes, Attach, AttachDone, Spawn, Join, Inv, Verdict
    <2>5. QED
        BY <1>2, <2>1, <2>2, <2>3, <2>4 DEF MainStep
<1>3. QED
    BY <1>1, <1>2

LEMMA ProgressNext ==
    ASSUME Inv, [Next]_vars
    PROVE  Progress'
<1>1. /\ Progress /\ k \in Nat /\ Len(config.maps) \in Nat
    BY ConfigTyped DEF Inv, TypeOK
<1>2. CASE ~MainStep
    BY <1>1, <1>2, OthersLeaveMain DEF Progress
<1>3. CASE MainStep
    <2>1. ASSUME NEW c \in Configs, ReadConfig(c) PROVE Progress'
        BY <1>1, <2>1 DEF ReadConfig, Progress
    <2>2. CASE ConfigFails \/ NoPid \/ OffsetsMissing \/ OatdumpMissing \/ AttachFails
        BY <1>1, <2>2 DEF ConfigFails, NoPid, OffsetsMissing, OatdumpMissing, AttachFails,
                          GiveUp, Progress
    <2>3. CASE CheckGuardrail \/ ResolveProbes \/ Attach
        BY <1>1, <2>3 DEF CheckGuardrail, ResolveProbes, Attach, Progress
    <2>4. CASE ResolveTask
        <3>1. pc' = "probes" => config.duration \in Int
            BY <1>1, <2>4, LegacyAssumption DEF ResolveTask, Progress
        <3>2. QED
            BY <1>1, <2>4, <3>1 DEF ResolveTask, Progress
    <2>5. CASE AttachDone \/ Spawn \/ Join
        BY <1>1, <2>5 DEF AttachDone, Spawn, Join, Progress
    <2>6. QED
        BY <1>3, <2>1, <2>2, <2>3, <2>4, <2>5 DEF MainStep
<1>4. QED
    BY <1>2, <1>3

(* No thread but main's changes what there is to join.                     *)
LEMMA ThreadsMove ==
    ASSUME Inv, NEW i \in Indices, ThreadStep(i)
    PROVE  /\ thread[i] \notin {"none", "done"} /\ thread'[i] # "none"
           /\ i \in DOMAIN config.maps
           /\ thread' \in [Indices -> ThreadPlaces]
<1>1. thread \in [Indices -> ThreadPlaces] /\ thread[i] \notin {"none", "done"}
    BY DEF Inv, TypeOK, ThreadStep, Begin, Check, ReadClock, Open, OpenFails, PollReturns, ReadNow
<1>2. thread' = thread \/ \E place \in ThreadPlaces \ {"none"} : Goto(i, place)
    BY DEF ThreadStep, Begin, Check, ReadClock, Open, OpenFails, PollReturns, ReadNow,
           ThreadPlaces, threads
<1>3. thread'[i] # "none" /\ thread' \in [Indices -> ThreadPlaces]
    BY <1>1, <1>2 DEF Goto
<1>4. QED
    BY <1>1, <1>3 DEF Inv, Spawned

LEMMA SpawnedNext ==
    ASSUME Inv, [Next]_vars
    PROVE  Spawned'
<1>1. /\ Spawned /\ Progress /\ k \in Nat /\ thread \in [Indices -> ThreadPlaces]
      /\ DOMAIN config.maps = 1 .. Len(config.maps) /\ Len(config.maps) \in Nat
      /\ Indices \subseteq Nat /\ DOMAIN config.maps \subseteq Indices
    BY ConfigTyped, IndicesAreNumbers DEF Inv, TypeOK
<1>2. CASE UNCHANGED vars
    BY <1>1, <1>2 DEF vars, threads, Spawned, Ring
<1>3. ASSUME NEW i \in Indices, ThreadStep(i) PROVE Spawned'
    <2>1. /\ UNCHANGED <<config, k>> /\ pc = "poll" /\ pc' \in {"poll", "aborted"}
          /\ \A j \in Indices \ {i} : thread'[j] = thread[j]
        BY <1>3, ThreadFrame DEF Inv, ThreadStep, OpenFails
    <2>2. thread'[i] # "none" /\ thread[i] # "none"
        BY <1>3, ThreadsMove
    <2>3. QED
        BY <1>1, <2>1, <2>2 DEF Spawned, Ring
<1>4. CASE Tick \/ \E m \in Maps : Emit(m)
    BY <1>1, <1>4 DEF Tick, Emit, threads, Spawned, Ring
<1>5. CASE MainStep
    <2>1. ASSUME NEW c \in Configs, ReadConfig(c) PROVE Spawned'
        BY <1>1, <2>1 DEF ReadConfig, threads, Spawned
    <2>2. CASE ConfigFails \/ NoPid \/ OffsetsMissing \/ OatdumpMissing \/ AttachFails
        BY <1>1, <2>2 DEF ConfigFails, NoPid, OffsetsMissing, OatdumpMissing, AttachFails,
                          GiveUp, threads, Spawned
    <2>3. CASE CheckGuardrail \/ ResolveTask \/ ResolveProbes \/ Attach
        BY <1>1, <2>3 DEF CheckGuardrail, ResolveTask, ResolveProbes, Attach, threads, Spawned
    <2>4. CASE AttachDone
        <3>1. pc' = "poll" /\ k' = 1 /\ UNCHANGED <<config, threads>> /\ pc = "attach"
            BY <2>4 DEF AttachDone
        <3>2. \A i \in Indices : thread'[i] = "none"
            BY <1>1, <3>1 DEF Spawned, threads
        <3>3. \A i \in DOMAIN config'.maps : ~(i < k')
            BY <1>1, <3>1
        <3>4. QED
            BY <3>1, <3>2, <3>3 DEF Spawned
    <2>5. CASE Spawn
        <3>1. /\ pc = "poll" /\ UNCHANGED <<pc, config>> /\ k' = k + 1
              /\ k \in DOMAIN config.maps /\ k \in Indices
              /\ \A j \in Indices \ {k} : thread'[j] = thread[j]
              /\ thread'[k] = IF Enabled(Ring(k)) THEN "start" ELSE "none"
            BY <1>1, <2>5, ConfigTyped DEF Spawn, Progress, Ring, Inv
        <3>2. ASSUME NEW j \in Indices, thread'[j] # "none"
              PROVE  j \in DOMAIN config.maps /\ j < k'
            BY <1>1, <3>1, <3>2 DEF Spawned
        <3>3. ASSUME NEW j \in DOMAIN config.maps, j < k', Enabled(Ring(j))
              PROVE  thread'[j] # "none"
            <4>1. j \in Indices
                BY ConfigTyped DEF Inv
            <4>2. CASE j = k
                BY <3>1, <3>3, <4>2
            <4>3. CASE j # k
                BY <1>1, <3>1, <3>3, <4>1, <4>3 DEF Spawned
            <4>4. QED
                BY <4>2, <4>3
        <3>4. QED
            BY <3>1, <3>2, <3>3 DEF Spawned, Ring
    <2>6. CASE Join
        BY <1>1, <2>6 DEF Join, threads, Spawned, Ring
    <2>7. QED
        BY <1>5, <2>1, <2>2, <2>3, <2>4, <2>5, <2>6 DEF MainStep
<1>6. QED
    BY <1>2, <1>3, <1>4, <1>5 DEF Next

-------------------------------------------------------------------------------
(* No step of main's touches a thread that is there, its clock or a lock.  *)
LEMMA MainLeavesThreads ==
    ASSUME Inv, MainStep
    PROVE  /\ UNCHANGED <<left, seen, timeout, owner>>
           /\ config' = config \/ \A i \in Indices : thread[i] = "none"
           /\ \A i \in Indices : thread'[i] = thread[i] \/ (thread[i] = "none" /\ thread'[i] = "start")
<1> USE DEF threads, GiveUp
<1>1. CASE Spawn
    <2>1. /\ UNCHANGED <<config, left, seen, timeout, owner>>
          /\ thread \in [Indices -> ThreadPlaces]
          /\ thread' = [thread EXCEPT ![k] = IF Enabled(config.maps[k]) THEN "start" ELSE "none"]
        BY <1>1 DEF Spawn, Inv, TypeOK
    <2>2. \A i \in Indices : i # k => thread'[i] = thread[i]
        BY <2>1
    <2>3. k \in Indices => thread[k] = "none" /\ thread'[k] \in {"start", "none"}
        <3>1. k \in Indices => ~(k < k)
            BY IndicesAreNumbers
        <3>2. QED
            BY <2>1, <3>1 DEF Inv, Spawned
    <2>4. QED
        BY <2>1, <2>2, <2>3
<1>2. ASSUME NEW c \in Configs, ReadConfig(c)
      PROVE  /\ UNCHANGED threads
             /\ \A i \in Indices : thread[i] = "none"
    BY <1>2 DEF ReadConfig, Inv, Spawned
<1>3. CASE ~Spawn /\ ~\E c \in Configs : ReadConfig(c)
    BY <1>3 DEF MainStep, ConfigFails, CheckGuardrail, ResolveTask, NoPid, ResolveProbes,
                OffsetsMissing, OatdumpMissing, Attach, AttachFails, AttachDone, Join
<1>4. QED
    BY <1>1, <1>2, <1>3

LEMMA ClocksNext ==
    ASSUME Inv, [Next]_vars
    PROVE  Clocks'
<1>1. /\ Clocks /\ config.maps \in Seq(Maps)
      /\ left \in [Indices -> Int] /\ seen \in [Indices -> Int]
      /\ thread \in [Indices -> ThreadPlaces]
    BY ConfigTyped DEF Inv, TypeOK
<1>2. CASE UNCHANGED vars
    BY <1>1, <1>2 DEF vars, threads, Clocks, Ring
<1>3. CASE MainStep
    <2>1. /\ UNCHANGED <<left, seen>>
          /\ config' = config \/ \A i \in Indices : thread[i] = "none"
          /\ \A i \in Indices :
                thread'[i] = thread[i] \/ (thread[i] = "none" /\ thread'[i] = "start")
        BY <1>3, MainLeavesThreads
    <2>2. QED
        BY <1>1, <2>1 DEF Clocks, Ring
<1>4. ASSUME NEW i \in Indices, ThreadStep(i) PROVE Clocks'
    <2>1. /\ config' = config /\ pc = "poll"
          /\ \A j \in Indices \ {i} : thread'[j] = thread[j] /\ seen'[j] = seen[j]
                                      /\ left'[j] = left[j]
        BY <1>4, ThreadFrame DEF Inv, ThreadStep
    <2>2. SUFFICES ASSUME thread'[i] \notin {"none", "start"}
                   PROVE  /\ left'[i] <= seen'[i]
                          /\ thread'[i] = "done" /\ Ring(i) \in Supported => seen'[i] <= 0
        BY <1>1, <2>1 DEF Clocks, Ring
    <2> USE DEF Goto, threads
    <2>3. CASE Begin(i)
        <3>1. config.duration \in Int
            BY <2>1 DEF Inv, Progress
        <3>2. QED
            BY <1>1, <2>3, <3>1 DEF Begin
    <2>4. CASE Check(i)
        BY <1>1, <2>4 DEF Check, Clocks
    <2>5. CASE ReadClock(i)
        BY <1>1, <2>5 DEF ReadClock, Clocks
    <2>6. CASE Open(i) \/ PollReturns(i)
        BY <1>1, <2>6 DEF Open, PollReturns, Clocks
    <2>7. CASE ReadNow(i)
        BY <1>1, <2>7 DEF ReadNow, Clocks
    <2>8. CASE OpenFails(i)
        BY <1>1, <2>8 DEF OpenFails, Clocks
    <2>9. QED
        BY <1>4, <2>3, <2>4, <2>5, <2>6, <2>7, <2>8 DEF ThreadStep
<1>5. CASE Tick
    BY <1>1, <1>5 DEF Tick, Clocks, Polling, Ring
<1>6. CASE \E m \in Maps : Emit(m)
    BY <1>1, <1>6 DEF Emit, threads, Clocks, Ring
<1>7. QED
    BY <1>2, <1>3, <1>4, <1>5, <1>6 DEF Next

LEMMA LocksNext ==
    ASSUME Inv, [Next]_vars
    PROVE  Locks'
<1>1. /\ Locks /\ DOMAIN config.maps \subseteq Indices
      /\ owner \in [Maps -> Indices \cup {NoOne}]
      /\ thread \in [Indices -> ThreadPlaces]
      /\ \A i \in Indices : thread[i] # "none" => i \in DOMAIN config.maps /\ Ring(i) \in Maps
    BY ConfigTyped DEF Inv, TypeOK, Spawned
<1>2. CASE UNCHANGED <<config, thread, owner>>
    BY <1>1, <1>2 DEF Locks, Ring
<1>3. CASE MainStep
    <2>1. /\ owner' = owner
          /\ config' = config \/ \A i \in Indices : thread[i] = "none"
          /\ \A i \in Indices :
                thread'[i] = thread[i] \/ (thread[i] = "none" /\ thread'[i] = "start")
        BY <1>3, MainLeavesThreads
    <2>2. QED
        BY <1>1, <2>1 DEF Locks, Ring
<1>4. ASSUME NEW i \in Indices, Open(i), UNCHANGED config PROVE Locks'
    <2>1. /\ owner[Ring(i)] = NoOne /\ thread[i] = "open"
          /\ owner' = [owner EXCEPT ![Ring(i)] = i] /\ thread' = [thread EXCEPT ![i] = "wait"]
        BY <1>4 DEF Open, Goto
    <2>2. i \in DOMAIN config.maps /\ Ring(i) \in Maps
        BY <1>1, <2>1
    <2>3. ASSUME NEW m \in Maps, owner'[m] # NoOne
          PROVE  owner'[m] \in DOMAIN config.maps /\ Ring(owner'[m]) = m
                 /\ thread'[owner'[m]] = "wait"
        <3>1. CASE m = Ring(i)
            BY <1>1, <2>1, <2>2, <3>1
        <3>2. CASE m # Ring(i)
            BY <1>1, <2>1, <2>2, <2>3, <3>2 DEF Locks
        <3>3. QED
            BY <3>1, <3>2
    <2>4. ASSUME NEW j \in Indices, thread'[j] = "wait" PROVE owner'[Ring(j)] = j
        <3>1. CASE j = i
            BY <1>1, <2>1, <2>2, <3>1
        <3>2. CASE j # i
            <4>1. thread[j] = "wait" /\ owner[Ring(j)] = j /\ Ring(j) \in Maps
                BY <1>1, <2>1, <2>4, <3>2 DEF Locks
            <4>2. CASE Ring(j) # Ring(i)
                BY <1>1, <2>1, <4>1, <4>2
            <4>3. CASE Ring(j) = Ring(i)
                BY <2>1, <4>1, <4>3, IndicesAreNumbers, LegacyAssumption
            <4>4. QED
                BY <4>2, <4>3
        <3>3. QED
            BY <3>1, <3>2
    <2>5. QED
        BY <1>4, <2>3, <2>4 DEF Locks, Ring
<1>5. ASSUME NEW i \in Indices, PollReturns(i), UNCHANGED config PROVE Locks'
    <2>1. /\ thread[i] = "wait" /\ thread' = [thread EXCEPT ![i] = "read"]
          /\ owner' = [owner EXCEPT ![Ring(i)] = NoOne]
        BY <1>5 DEF PollReturns, Goto
    <2>2. i \in DOMAIN config.maps /\ Ring(i) \in Maps /\ owner[Ring(i)] = i
        BY <1>1, <2>1 DEF Locks
    <2>3. ASSUME NEW m \in Maps, owner'[m] # NoOne
          PROVE  owner'[m] \in DOMAIN config.maps /\ Ring(owner'[m]) = m
                 /\ thread'[owner'[m]] = "wait"
        <3>1. m # Ring(i) /\ owner'[m] = owner[m]
            BY <1>1, <2>1, <2>3
        <3>2. owner[m] \in DOMAIN config.maps /\ Ring(owner[m]) = m /\ thread[owner[m]] = "wait"
            BY <2>3, <3>1, <1>1 DEF Locks
        <3>3. QED
            BY <1>1, <2>1, <3>1, <3>2
    <2>4. ASSUME NEW j \in Indices, thread'[j] = "wait" PROVE owner'[Ring(j)] = j
        <3>1. j # i /\ thread[j] = "wait"
            BY <1>1, <2>1, <2>4
        <3>2. owner[Ring(j)] = j /\ Ring(j) \in Maps
            BY <1>1, <3>1 DEF Locks
        <3>3. Ring(j) # Ring(i)
            BY <2>2, <3>1, <3>2
        <3>4. QED
            BY <1>1, <2>1, <3>2, <3>3
    <2>5. QED
        BY <1>5, <2>3, <2>4 DEF Locks, Ring
<1>6. ASSUME NEW i \in Indices, Begin(i) \/ Check(i) \/ ReadClock(i) \/ ReadNow(i),
             UNCHANGED config
      PROVE  Locks'
    <2>1. /\ owner' = owner /\ thread[i] # "wait"
          /\ \E place \in ThreadPlaces \ {"wait"} : thread' = [thread EXCEPT ![i] = place]
        BY <1>6 DEF Begin, Check, ReadClock, ReadNow, Goto, ThreadPlaces
    <2>2. QED
        BY <1>1, <1>6, <2>1 DEF Locks, Ring
<1>7. ASSUME NEW i \in Indices, ThreadStep(i) PROVE Locks'
    <2>1. UNCHANGED config
        BY <1>7, ThreadFrame DEF Inv
    <2>2. CASE OpenFails(i)
        BY <1>2, <2>2 DEF OpenFails, threads
    <2>3. QED
        BY <1>4, <1>5, <1>6, <1>7, <2>1, <2>2 DEF ThreadStep
<1>8. CASE UNCHANGED vars \/ Tick \/ \E m \in Maps : Emit(m)
    BY <1>2, <1>8 DEF vars, Tick, Emit, threads
<1>9. QED
    BY <1>3, <1>7, <1>8 DEF Next

(* A thread that cannot open its ring, while no call has failed by chance, *)
(* meets the lock of another entry of the same map.                        *)
LEMMA AbortsNext ==
    ASSUME Inv, [Next]_vars
    PROVE  AbortsOnDuplicate'
<1>1. TypeOK /\ Locks /\ AbortsOnDuplicate /\ Spawned
    BY DEF Inv
<1>2. CASE UNCHANGED <<pc, config, failures>>
    BY <1>1, <1>2 DEF AbortsOnDuplicate, Ring
<1>3. ASSUME NEW i \in Indices, OpenFails(i) PROVE AbortsOnDuplicate'
    <2>1. SUFFICES ASSUME failures' = 0
                   PROVE  \E a, b \in DOMAIN config.maps : a # b /\ Ring(a) = Ring(b)
        BY <1>3 DEF OpenFails, AbortsOnDuplicate, Ring
    <2>2. thread[i] = "open" /\ owner[Ring(i)] # NoOne
        BY <1>1, <1>3, <2>1 DEF OpenFails, Fault, TypeOK
    <2>3. i \in DOMAIN config.maps /\ Ring(i) \in Maps
        BY <1>1, <2>2, ConfigTyped DEF Spawned
    <2>4. /\ owner[Ring(i)] \in DOMAIN config.maps
          /\ Ring(owner[Ring(i)]) = Ring(i) /\ thread[owner[Ring(i)]] = "wait"
        BY <1>1, <2>2, <2>3 DEF Locks
    <2>5. owner[Ring(i)] # i
        BY <2>2, <2>4
    <2>6. QED
        BY <2>3, <2>4, <2>5
<1>4. CASE MainStep
    BY <1>1, <1>4
    DEF AbortsOnDuplicate, MainStep, ReadConfig, ConfigFails, CheckGuardrail, ResolveTask, NoPid,
        ResolveProbes, OffsetsMissing, OatdumpMissing, Attach, AttachFails, AttachDone, Spawn, Join,
        GiveUp, Ring
<1>5. ASSUME NEW i \in Indices, ThreadStep(i), ~OpenFails(i) PROVE AbortsOnDuplicate'
    BY <1>1, <1>2, <1>5, ThreadFrame
<1>6. CASE UNCHANGED vars \/ Tick \/ \E m \in Maps : Emit(m)
    BY <1>2, <1>6 DEF vars, Tick, Emit
<1>7. QED
    BY <1>3, <1>4, <1>5, <1>6 DEF Next, ThreadStep

-------------------------------------------------------------------------------
(* Inv holds in every state of every behaviour.                            *)
THEOREM Invariance == Spec => []Inv
<1>1. Inv /\ [Next]_vars => Inv'
    BY TypeNext, VerdictNext, ProgressNext, SpawnedNext, ClocksNext, LocksNext, AbortsNext
    DEF Inv
<1>2. QED
    BY InvInit, <1>1, PTL DEF Spec

(* Every variable keeps its type: a timeout is one poll can be given, and  *)
(* only probes of the config are attached.                                 *)
THEOREM TypeCorrect == Spec => []TypeOK
<1>1. Inv => TypeOK
    BY DEF Inv
<1>2. QED
    BY Invariance, <1>1, PTL

(* On a user build no program is attached to a method that the allow list  *)
(* does not name, with the flag of the offsets API or without it.          *)
THEOREM AllowedOnly == Spec => []OnlyAllowedAttached
<1>1. Inv => OnlyAllowedAttached
    <2> SUFFICES ASSUME Inv, userBuild, NEW p \in attached
                 PROVE  Guard!NameAllowed(MethodName(config.probes[p], OffsetsApi))
        BY DEF OnlyAllowedAttached, MethodName
    <2>1. AllAllowed(OffsetsApi) /\ p \in DOMAIN config.probes
        BY DEF Inv, Verdict, Passed, TypeOK
    <2>2. QED
        BY <2>1 DEF AllAllowed
<1>2. QED
    BY Invariance, <1>1, PTL

(* A run that reports success has polled every enabled and supported map   *)
(* of its task to the end of the duration, however often the clock is read *)
(* and whatever a poll makes of its timeout.                               *)
THEOREM SuccessMeansPolled == Spec => []PolledToTheEnd
<1>1. Inv => PolledToTheEnd
    <2> SUFFICES ASSUME Inv, pc = "done", NEW i \in DOMAIN config.maps,
                        Enabled(Ring(i)), Ring(i) \in Supported
                 PROVE  thread[i] = "done" /\ left[i] <= 0
        BY DEF PolledToTheEnd
    <2>1. i \in Indices /\ i < k
        <3>1. i \in 1 .. Len(config.maps) /\ k > Len(config.maps) /\ k \in Nat /\ i \in Indices
              /\ Len(config.maps) \in Nat
            BY ConfigTyped DEF Inv, Progress, TypeOK
        <3>2. QED
            BY <3>1
    <2>2. thread[i] = "done"
        BY <2>1 DEF Inv, Spawned
    <2>3. left[i] <= seen[i] /\ seen[i] <= 0 /\ left[i] \in Int /\ seen[i] \in Int
        BY <2>1, <2>2 DEF Inv, Clocks, TypeOK
    <2>4. QED
        BY <2>2, <2>3
<1>2. QED
    BY Invariance, <1>1, PTL

(* Without a failing call the process aborts only on a config that lists a *)
(* map twice.                                                              *)
THEOREM OnlyDuplicatesAbort == Spec => []AbortsOnDuplicate
<1>1. Inv => AbortsOnDuplicate
    BY DEF Inv
<1>2. QED
    BY Invariance, <1>1, PTL

===============================================================================
