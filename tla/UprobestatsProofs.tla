--------------------------- MODULE UprobestatsProofs ---------------------------
(***************************************************************************)
(* What a run of the daemon may attach, has in force, leaves behind and    *)
(* reports, for any set of configs, any number of runs and any crashes.    *)
(* On a user build only methods of the allow list are ever probed; the     *)
(* second part has one invariant for each of the other promises, and one   *)
(* that says where main_impl may be.                                       *)
(***************************************************************************)
EXTENDS Uprobestats, WellFoundedInduction, TLAPS

(* Where main_impl is once the guardrail has let the config through.       *)
Passed == {"task", "probes", "open", "filters", "attach", "poll"}

(* A task was chosen.                                                      *)
Chosen == {"probes", "open", "filters", "attach", "poll"}

GuardInv ==
    /\ config \in Configs \cup {<<>>}
    /\ k \in Nat \ {0}
    /\ pc \in Passed => Guard!IsAllowed(config, userBuild, TRUE)
    /\ pc \in Chosen => config # <<>>
    /\ userBuild \in BOOLEAN
    /\ attached # {} =>
          /\ pc \in {"attach", "poll", "drop", "exit"}
          /\ config # <<>>
          /\ Guard!IsAllowed(config, userBuild, TRUE)
    /\ \A p \in attached : p \in 1 .. Len(Task.probes)

(* What the guardrail has let through is what the allow list names: the    *)
(* guardrail's verdict on a config covers every probe of its first task.   *)
LEMMA VerdictCoversTask ==
    ASSUME NEW c \in Configs, c # <<>>, NEW u \in BOOLEAN,
           Guard!IsAllowed(c, u, TRUE), u,
           NEW p \in 1 .. Len(c[1].probes)
    PROVE  LET probe == c[1].probes[p]
           IN  /\ probe.class # NoName /\ probe.method # NoName
               /\ Guard!NameAllowed(probe.class \o <<".">> \o probe.method)
<1>1. c \in Seq(TaskMsg)
    BY UprobestatsAssumption
<1>2. 1 \in DOMAIN c /\ c[1] \in TaskMsg
    BY <1>1
<1>3. c[1].probes \in Seq(ProbeMsg)
    BY <1>2 DEF TaskMsg
<1>4. p \in DOMAIN c[1].probes /\ c[1].probes[p] \in ProbeMsg
    BY <1>3
<1>5. Guard!ProbeAllowed(c[1].probes[p], TRUE)
    BY <1>2, <1>4 DEF Guard!IsAllowed
<1> DEFINE probe == c[1].probes[p]
<1>6. Guard!FullMethodName(probe, TRUE) # NoName
      /\ Guard!NameAllowed(Guard!FullMethodName(probe, TRUE))
    BY <1>5 DEF Guard!ProbeAllowed
<1>7. probe.class # NoName /\ probe.method # NoName
    BY <1>6 DEF Guard!FullMethodName
<1>8. Guard!FullMethodName(probe, TRUE) = probe.class \o <<".">> \o probe.method
    BY <1>7 DEF Guard!FullMethodName
<1>9. QED
    BY <1>6, <1>7, <1>8

LEMMA GuardInvInit == Init => GuardInv
BY DEF Init, GuardInv, Passed, Chosen

(* A step that keeps the config, the build and what is attached, and goes  *)
(* nowhere it may not go from where it is.                                 *)
LEMMA GuardInvKept ==
    ASSUME GuardInv, UNCHANGED <<config, userBuild, attached>>,
           k' \in Nat \ {0},
           pc' \in Passed => pc \in Passed,
           pc' \in Chosen => pc \in Chosen,
           attached = {} \/ pc' \in {"attach", "poll", "drop", "exit"}
    PROVE  GuardInv'
BY DEF GuardInv, Guard!IsAllowed, Task

(* Only CheckGuardrail lets a config through, only ResolveTask picks its   *)
(* task, only Attach attaches, and the config changes only where nothing   *)
(* is attached.                                                            *)
LEMMA GuardInvNext ==
    ASSUME GuardInv, [Next]_vars
    PROVE  GuardInv'
<1> USE DEF Bail, resolving, polling, bounds, pinned
<1>1. CASE UNCHANGED vars
    BY <1>1, GuardInvKept DEF vars, GuardInv
<1>2. CASE Start
    BY <1>2, GuardInvKept DEF Start, GuardInv, Passed, Chosen
<1>3. ASSUME NEW c \in Configs, ReadConfig(c) PROVE GuardInv'
    BY <1>3 DEF ReadConfig, GuardInv, Passed, Chosen
<1>4. CASE ConfigFails \/ TaskFails
    BY <1>4, GuardInvKept DEF ConfigFails, TaskFails, GuardInv, Passed, Chosen
<1>5. CASE CheckGuardrail
    BY <1>5 DEF CheckGuardrail, GuardInv, Passed, Chosen, Guard!IsAllowed, Task
<1>6. CASE ResolveTask
    BY <1>6 DEF ResolveTask, GuardInv, Passed, Chosen, Guard!IsAllowed, Task
<1>7. CASE OffsetsFound
    <2>1. k' \in Nat \ {0}
        BY <1>7 DEF OffsetsFound, ProbesLeft, NextProbe, GuardInv
    <2>2. UNCHANGED <<config, userBuild, attached>> /\ attached = {}
        BY <1>7 DEF OffsetsFound, ProbesLeft, NextProbe, GuardInv
    <2>3. pc \in Chosen /\ pc \in Passed
        BY <1>7 DEF OffsetsFound, ProbesLeft, NextProbe, Passed, Chosen
    <2>4. QED
        BY <2>1, <2>2, <2>3, GuardInvKept
<1>8. CASE OffsetsRetry
    BY <1>8, GuardInvKept DEF OffsetsRetry, GuardInv
<1>9. CASE OatdumpFound
    <2>1. k' \in Nat \ {0}
        BY <1>9 DEF OatdumpFound, ProbesLeft, NextProbe, GuardInv
    <2>2. UNCHANGED <<config, userBuild, attached>> /\ attached = {}
        BY <1>9 DEF OatdumpFound, ProbesLeft, NextProbe, GuardInv
    <2>3. pc \in Chosen /\ pc \in Passed
        BY <1>9 DEF OatdumpFound, ProbesLeft, NextProbe, Passed, Chosen
    <2>4. QED
        BY <2>1, <2>2, <2>3, GuardInvKept
<1>10. CASE OffsetsMissing \/ OatdumpMissing
    <2>1. k' \in Nat \ {0}
        BY <1>10 DEF OffsetsMissing, OatdumpMissing, ProbesLeft, NextProbe, GuardInv
    <2>2. UNCHANGED <<config, userBuild, attached>> /\ attached = {}
        BY <1>10 DEF OffsetsMissing, OatdumpMissing, ProbesLeft, GuardInv
    <2>3. pc' \notin Passed /\ pc' \notin Chosen
        BY <1>10 DEF OffsetsMissing, OatdumpMissing, Passed, Chosen
    <2>4. QED
        BY <2>1, <2>2, <2>3, GuardInvKept
<1>11. CASE OpenAccessor \/ OpenFails
    BY <1>11, GuardInvKept DEF OpenAccessor, OpenFails, GuardInv, Passed, Chosen
<1>12. CASE PutFilter
    <2>1. k' \in Nat \ {0}
        BY <1>12 DEF PutFilter, WriteFilter, NextProbe, GuardInv
    <2>2. UNCHANGED <<config, userBuild, attached>> /\ attached = {}
        BY <1>12 DEF PutFilter, WriteFilter, NextProbe, GuardInv
    <2>3. pc \in Chosen /\ pc \in Passed
        BY <1>12 DEF PutFilter, WriteFilter, NextProbe, Passed, Chosen
    <2>4. QED
        BY <2>1, <2>2, <2>3, GuardInvKept
<1>13. CASE FilterFails
    BY <1>13, GuardInvKept DEF FilterFails, GuardInv, Passed, Chosen
<1>14. CASE ProbesResolved
    <2>1. k' \in Nat \ {0}
        BY <1>14 DEF ProbesResolved, GuardInv
    <2>2. UNCHANGED <<config, userBuild, attached>> /\ attached = {}
        BY <1>14 DEF ProbesResolved, GuardInv
    <2>3. pc \in Chosen /\ pc \in Passed
        BY <1>14 DEF ProbesResolved, Passed, Chosen
    <2>4. QED
        BY <2>1, <2>2, <2>3, GuardInvKept
<1>15. CASE Attach
    <2>1. /\ UNCHANGED <<config, userBuild, pc>> /\ pc = "attach"
          /\ k \in 1 .. Len(Task.probes) /\ k' = k + 1 /\ k \in Nat \ {0}
          /\ attached' = attached \cup {k}
        BY <1>15, UprobestatsAssumption DEF Attach, GuardInv
    <2>2. config # <<>> /\ Guard!IsAllowed(config, userBuild, TRUE)
        BY <2>1 DEF GuardInv, Passed, Chosen
    <2>3. \A p \in attached' : p \in 1 .. Len(Task.probes)
        BY <2>1 DEF GuardInv
    <2>4. k' \in Nat \ {0}
        BY <2>1
    <2>5. QED
        BY <2>1, <2>2, <2>3, <2>4 DEF GuardInv, Guard!IsAllowed, Task
<1>16. CASE AttachFails
    BY <1>16, GuardInvKept DEF AttachFails, GuardInv, Passed, Chosen
<1>17. CASE SpawnThreads
    BY <1>17, GuardInvKept DEF SpawnThreads, GuardInv, Passed, Chosen
<1>18. CASE Join
    BY <1>18, GuardInvKept DEF Join, GuardInv, Passed, Chosen
<1>19. ASSUME NEW key \in DOMAIN ifaces, Drain(key) PROVE GuardInv'
    BY <1>19, GuardInvKept DEF Drain, Close, GuardInv, Passed, Chosen
<1>20. CASE DrainDone \/ DrainFails
    BY <1>20, GuardInvKept DEF DrainDone, DrainFails, Close, GuardInv, Passed, Chosen
<1>21. CASE Exit \/ Crash
    <2>1. config' = <<>> /\ k' = 1 /\ pc' = "off" /\ attached' = {} /\ userBuild' = userBuild
        BY <1>21 DEF Exit, Crash, Gone
    <2>2. QED
        BY <2>1 DEF GuardInv, Passed, Chosen
<1>22. ASSUME NEW m \in Maps, ThreadStep(m) PROVE GuardInv'
    BY <1>22, GuardInvKept
    DEF ThreadStep, CheckTimer, Finish, FinishFails, PollReturns, PollFails, HandleItem,
        ItemFails, GuardInv
<1>23. CASE Tick
    BY <1>23, GuardInvKept DEF Tick, GuardInv
<1>24. CASE KernelStep
    BY <1>24, GuardInvKept DEF KernelStep, BinderTransaction, OtherEvent, Emit, GuardInv
<1>25. QED
    BY <1>1, <1>2, <1>3, <1>4, <1>5, <1>6, <1>7, <1>8, <1>9, <1>10, <1>11, <1>12, <1>13,
       <1>14, <1>15, <1>16, <1>17, <1>18, <1>19, <1>20, <1>21, <1>22, <1>23, <1>24
    DEF Next, MainStep

(* Every program that is attached belongs to the task the guardrail has    *)
(* checked.                                                                *)
THEOREM GuardInvariance == Spec => []GuardInv
<1>1. GuardInv /\ [Next]_vars => GuardInv'
    BY GuardInvNext
<1>2. QED
    BY GuardInvInit, <1>1, PTL DEF Spec

(* OnlyAllowedAttached holds for all configs, runs and crashes: on a user  *)
(* build no probe is attached to a method outside the allow list, whatever *)
(* resolve_probes does after is_allowed (main.rs, guardrail.rs).           *)
THEOREM AllowedOnly == Spec => []OnlyAllowedAttached
<1>1. GuardInv => OnlyAllowedAttached
    <2> SUFFICES ASSUME GuardInv, userBuild, NEW p \in attached
                 PROVE  LET probe == Task.probes[p]
                        IN  /\ probe.class # NoName /\ probe.method # NoName
                            /\ Guard!NameAllowed(probe.class \o <<".">> \o probe.method)
        BY DEF OnlyAllowedAttached
    <2>1. config \in Configs /\ config # <<>> /\ p \in 1 .. Len(config[1].probes)
        BY DEF GuardInv, Task
    <2>2. Guard!IsAllowed(config, userBuild, TRUE) /\ userBuild \in BOOLEAN
        BY DEF GuardInv
    <2>3. QED
        BY <2>1, <2>2, VerdictCoversTask DEF Task
<1>2. QED
    BY GuardInvariance, <1>1, PTL

-------------------------------------------------------------------------------
TypeRun ==
    /\ userBuild \in BOOLEAN
    /\ pc \in Places
    /\ config \in Configs \cup {<<>>}
    /\ k \in Nat \ {0} /\ f \in Nat \ {0}
    /\ retries \in 0 .. MaxRetries
    /\ open \in BOOLEAN
    /\ attached \subseteq Nat
    /\ status \in {"none", "ok", "failed"}
    /\ runs \in 0 .. MaxRuns /\ crashes \in 0 .. MaxCrashes /\ failures \in 0 .. MaxFailures

TypeMaps ==
    /\ DOMAIN ifaces \subseteq Keys
    /\ \A x \in DOMAIN ifaces : ifaces[x] \in Seq(Nat) /\ Len(ifaces[x]) \in 1 .. CodeSlots
    /\ stale \subseteq Keys
    /\ rings \in [Maps -> Seq(Event)]
    /\ \A m \in Maps : Len(rings[m]) <= RingCap

TypePoll ==
    /\ now \in Nat
    /\ thread \in [Maps -> ThreadPlaces]
    /\ batch \in [Maps -> 0 .. RingCap]
    /\ lost \in Nat
    /\ \A m \in Maps : thread[m] = "item" => batch[m] # 0

(* A binder probe whose filters resolve_probes writes.                     *)
Filtered(p) ==
    p \in 1 .. Len(Task.probes) /\ IsBinder(Task.probes[p]) /\ Task.probes[p].class # NoName

(* Where main_impl is, what it holds and which probe it is at.             *)
Place ==
    /\ pc \in Chosen => config # <<>> /\ Task.duration \in Int
    /\ open => pc \in {"probes", "filters", "attach", "poll", "drop"}
    /\ open => config # <<>>
    /\ pc = "filters" => open
    /\ pc \in {"open", "filters"} => Filtered(k)
    /\ pc \notin {"filters", "attach", "poll", "drop", "exit"} => f = 1
    /\ pc \in {"off", "config", "guardrail", "task"} => k = 1
    /\ pc = "filters" /\ Probe.filters # <<>> => f \in 1 .. Len(Probe.filters)

(* The filters main_impl has written so far.                               *)
Written(p, i) ==
    \/ pc \in {"probes", "open"} /\ p < k
    \/ pc = "filters" /\ (p < k \/ (p = k /\ i < f))
    \/ pc \in {"attach", "poll"}

InForce ==
    \A p \in Nat \ {0} : Filtered(p) =>
        \A i \in 1 .. Len(Task.probes[p].filters) :
            LET filter == Task.probes[p].filters[i]
            IN  Written(p, i) => /\ ToKey(filter.name) \in DOMAIN ifaces
                                 /\ ifaces[ToKey(filter.name)] = ToValue(filter.codes)

(* A key that comes back from its trip through a String.                   *)
ComesBack(key) == ToKey(FromKey(key)) = key

(* An entry is of a killed run, of one that had a call fail on it while it *)
(* drained, or of the task, with the codes of its filter.                  *)
Asked(key) ==
    open /\ \E filter \in Filters :
        filter.name \in Names /\ ToKey(filter.name) = key /\ ifaces[key] = ToValue(filter.codes)

Entries == \A key \in DOMAIN ifaces : ComesBack(key) /\ (key \in stale \/ Asked(key))

(* What the threads have come to.                                          *)
Handled ==
    /\ pc \notin {"poll", "drop", "exit"} => lost = 0 /\ \A m \in Maps : thread[m] = "none"
    /\ pc \notin {"drop", "exit"} => status = "none"
    /\ pc = "poll" => /\ Task.maps \subseteq Maps
                      /\ lost = 0 \/ \E m \in Maps : thread[m] = "failed"
                      /\ \A m \in Task.maps : thread[m] # "none"
                      /\ \A m \in Maps : thread[m] = "done" => now > Task.duration
    /\ SuccessMeansHandled

-------------------------------------------------------------------------------
(* A config is a sequence of tasks, its first one well formed.             *)
LEMMA TaskTyped ==
    ASSUME TypeRun, config # <<>>
    PROVE  /\ Task.probes \in Seq(ProbeMsg)
           /\ Task.maps \subseteq Maps
           /\ Task.duration \in Int \cup {NoName}
           /\ \A p \in 1 .. Len(Task.probes) :
                 /\ Task.probes[p].filters \in Seq(FilterMsg)
                 /\ \A i \in 1 .. Len(Task.probes[p].filters) :
                       /\ Task.probes[p].filters[i].name \in Names \cup {NoName}
                       /\ Task.probes[p].filters[i].codes \in Seq(Int)
<1>1. config \in Seq(TaskMsg)
    BY UprobestatsAssumption DEF TypeRun
<1>2. config[1] \in TaskMsg
    BY <1>1
<1>3. /\ Task.probes \in Seq(ProbeMsg) /\ Task.maps \subseteq Maps
      /\ Task.duration \in Int \cup {NoName}
    BY <1>2 DEF Task, TaskMsg
<1>4. ASSUME NEW p \in 1 .. Len(Task.probes)
      PROVE  /\ Task.probes[p].filters \in Seq(FilterMsg)
             /\ \A i \in 1 .. Len(Task.probes[p].filters) :
                   /\ Task.probes[p].filters[i].name \in Names \cup {NoName}
                   /\ Task.probes[p].filters[i].codes \in Seq(Int)
    <2>1. Task.probes[p] \in ProbeMsg
        BY <1>3
    <2>2. Task.probes[p].filters \in Seq(FilterMsg)
        BY <2>1 DEF ProbeMsg
    <2>3. ASSUME NEW i \in 1 .. Len(Task.probes[p].filters)
          PROVE  Task.probes[p].filters[i] \in FilterMsg
        BY <2>2
    <2>4. QED
        BY <2>2, <2>3 DEF FilterMsg
<1>5. QED
    BY <1>3, <1>4

(* Filters, spelled out.                                                   *)
LEMMA FiltersAre ==
    ASSUME TypeRun, config # <<>>
    PROVE  \A filter : filter \in Filters <=>
               \E p \in 1 .. Len(Task.probes) :
                   Filtered(p) /\ \E i \in 1 .. Len(Task.probes[p].filters) :
                       filter = Task.probes[p].filters[i]
<1>1. /\ DOMAIN Task.probes = 1 .. Len(Task.probes)
      /\ \A p \in 1 .. Len(Task.probes) :
            DOMAIN Task.probes[p].filters = 1 .. Len(Task.probes[p].filters)
    BY TaskTyped
<1>2. QED
    BY <1>1 DEF Filters, Filtered

(* A key with a NUL has a first one.                                       *)
LEMMA FirstNul ==
    ASSUME NEW key \in Keys, Nuls(key) # {}
    PROVE  \E i \in 1 .. KeySize :
               /\ key[i] = Nul
               /\ \A j \in 1 .. i - 1 : key[j] # Nul
               /\ FromKey(key) = SubSeq(key, 1, i - 1)
<1>1. /\ KeySize \in Nat /\ DOMAIN key = 1 .. KeySize /\ Nuls(key) \subseteq Nat
    BY UprobestatsAssumption DEF Keys, Nuls
<1>2. PICK T, less : T = Nuls(key) /\ less = OpToRel(<, Nat)
    OBVIOUS
<1>3. \E m \in T : \A j \in T : m <= j
    <2>1. IsWellFoundedOn(less, Nat) /\ less = {ss \in Nat \X Nat : ss[1] < ss[2]}
        BY <1>2, NatLessThanWellFounded DEF OpToRel
    <2>2. T \subseteq Nat /\ T # {}
        BY <1>1, <1>2
    <2>3. PICK m \in T : \A j \in T : <<j, m>> \notin less
        BY <2>1, <2>2, WFMin
    <2>4. \A j \in T : <<j, m>> \in Nat \X Nat /\ (<<j, m>> \in less <=> j < m)
        BY <2>1, <2>2
    <2>5. \A j \in T : j \in Nat /\ ~(j < m)
        BY <2>2, <2>3, <2>4
    <2>6. QED
        BY <2>2, <2>5
<1>4. PICK i : i = CHOOSE l \in Nuls(key) : \A j \in Nuls(key) : l <= j
    OBVIOUS
<1>5. i \in Nuls(key) /\ \A j \in Nuls(key) : i <= j
    BY <1>2, <1>3, <1>4
<1>6. i \in 1 .. KeySize /\ key[i] = Nul
    BY <1>1, <1>5 DEF Nuls
<1>7. \A j \in 1 .. i - 1 : key[j] # Nul
    BY <1>1, <1>5, <1>6 DEF Nuls
<1>8. FromKey(key) = SubSeq(key, 1, i - 1)
    BY <1>4 DEF FromKey
<1>9. QED
    BY <1>6, <1>7, <1>8

(* Keys have their size, whatever they are made from.                      *)
LEMMA KeyTyped ==
    ASSUME NEW name \in Seq(Bytes)
    PROVE  ToKey(name) \in Keys
BY UprobestatsAssumption DEF ToKey, Keys

LEMMA FromKeyTyped ==
    ASSUME NEW key \in Keys
    PROVE  FromKey(key) \in Seq(Bytes)
<1>1. CASE Nuls(key) = {}
    BY <1>1 DEF FromKey
<1>2. CASE Nuls(key) # {}
    <2>1. PICK i \in 1 .. KeySize : FromKey(key) = SubSeq(key, 1, i - 1)
        BY <1>2, FirstNul
    <2>2. key \in Seq(Bytes) /\ Len(key) = KeySize /\ KeySize \in Nat
        BY UprobestatsAssumption DEF Keys
    <2>3. QED
        BY <2>1, <2>2
<1>3. QED
    BY <1>1, <1>2

LEMMA RecordedTyped ==
    ASSUME NEW descriptor \in Descriptors
    PROVE  Recorded(descriptor) \in Keys
<1> DEFINE read == [i \in 1 .. KeySize |->
                       IF i < KeySize /\ i <= Len(descriptor) THEN descriptor[i] ELSE Nul]
<1>1. read \in Keys
    BY UprobestatsAssumption DEF Keys
<1>2. QED
    BY <1>1, FromKeyTyped, KeyTyped DEF Recorded

(* The value a filter turns into: at least one code, none too many, none   *)
(* negative.                                                               *)
LEMMA ValueTyped ==
    ASSUME NEW codes \in Seq(Int), codes # <<>>, \A i \in DOMAIN codes : codes[i] >= 0
    PROVE  ToValue(codes) \in Seq(Nat) /\ Len(ToValue(codes)) \in 1 .. CodeSlots
<1>1. CodeSlots \in Nat \ {0} /\ Len(codes) \in Nat /\ Len(codes) # 0
    BY UprobestatsAssumption
<1> DEFINE last == Min(Len(codes), CodeSlots)
<1>2. last \in Nat /\ last >= 1 /\ last <= Len(codes) /\ last <= CodeSlots
    BY <1>1 DEF Min
<1>3. \A i \in 1 .. Len(codes) : codes[i] \in Nat
    OBVIOUS
<1>4. ToValue(codes) = [i \in 1 .. last |-> codes[i]]
    <2> HIDE DEF last
    <2>1. SubSeq(codes, 1, last) = [i \in 1 .. last |-> codes[i]]
        BY <1>2
    <2>2. QED
        BY <2>1 DEF ToValue, last
<1>5. \A i \in 1 .. last : codes[i] \in Nat
    BY <1>2, <1>3
<1> HIDE DEF last
<1>6. QED
    BY <1>2, <1>4, <1>5

-------------------------------------------------------------------------------
(* What the step of a thread leaves alone.                                 *)
LEMMA ThreadFrame ==
    ASSUME NEW m \in Maps, ThreadStep(m)
    PROVE  /\ pc = "poll"
           /\ UNCHANGED <<ifaces, stale, userBuild, pc, config, k, f, retries, open, attached,
                          now, status, runs, crashes>>
           /\ UNCHANGED failures \/ Fault
<1> USE DEF pinned, resolving, bounds
<1>1. CASE CheckTimer(m)
    BY <1>1 DEF CheckTimer, ThreadStep
<1>2. CASE Finish(m)
    BY <1>2 DEF Finish, ThreadStep
<1>3. CASE FinishFails(m)
    BY <1>3 DEF FinishFails, ThreadStep
<1>4. ASSUME NEW n \in 0 .. Len(rings[m]), PollReturns(m, n)
      PROVE  /\ UNCHANGED <<ifaces, stale, userBuild, pc, config, k, f, retries, open, attached,
                            now, status, runs, crashes>>
             /\ UNCHANGED failures
    BY <1>4 DEF PollReturns
<1>5. ASSUME NEW n \in 0 .. Len(rings[m]), PollFails(m, n)
      PROVE  /\ UNCHANGED <<ifaces, stale, userBuild, pc, config, k, f, retries, open, attached,
                            now, status, runs, crashes>>
             /\ Fault
    BY <1>5 DEF PollFails
<1>6. CASE HandleItem(m)
    BY <1>6 DEF HandleItem, ThreadStep
<1>7. CASE ItemFails(m)
    BY <1>7 DEF ItemFails, ThreadStep
<1>8. QED
    BY <1>1, <1>2, <1>3, <1>4, <1>5, <1>6, <1>7 DEF ThreadStep

LEMMA TypeRunInit == Init => TypeRun
<1> SUFFICES ASSUME Init PROVE TypeRun
    OBVIOUS
<1>1. userBuild \in BOOLEAN /\ open \in BOOLEAN
    BY DEF Init
<1>2. /\ retries \in 0 .. MaxRetries /\ runs \in 0 .. MaxRuns
      /\ crashes \in 0 .. MaxCrashes /\ failures \in 0 .. MaxFailures
    BY UprobestatsAssumption DEF Init
<1>3. /\ pc \in Places /\ config \in Configs \cup {<<>>} /\ k \in Nat \ {0} /\ f \in Nat \ {0}
      /\ attached \subseteq Nat /\ status \in {"none", "ok", "failed"}
    BY DEF Init, Places
<1>4. QED
    BY <1>1, <1>2, <1>3 DEF TypeRun

LEMMA TypeRunNext ==
    ASSUME TypeRun, [Next]_vars
    PROVE  TypeRun'
<1>0. /\ MaxRetries \in Nat /\ MaxRuns \in Nat /\ MaxCrashes \in Nat /\ MaxFailures \in Nat
      /\ k + 1 \in Nat \ {0} /\ f + 1 \in Nat \ {0} /\ 1 \in Nat \ {0} /\ k \in Nat
    BY UprobestatsAssumption DEF TypeRun
<1> USE <1>0 DEF TypeRun, Places, Bail, Fault, resolving, bounds
<1>1. CASE UNCHANGED vars
    BY <1>1 DEF vars
<1>2. CASE Start
    BY <1>2 DEF Start
<1>3. ASSUME NEW c \in Configs, ReadConfig(c) PROVE TypeRun'
    BY <1>3 DEF ReadConfig
<1>4. CASE ConfigFails
    BY <1>4 DEF ConfigFails
<1>5. CASE CheckGuardrail
    BY <1>5 DEF CheckGuardrail
<1>6. CASE ResolveTask
    BY <1>6 DEF ResolveTask
<1>7. CASE TaskFails
    BY <1>7 DEF TaskFails
<1>8. CASE OffsetsFound
    BY <1>8 DEF OffsetsFound, ProbesLeft, NextProbe
<1>9. CASE OffsetsRetry
    BY <1>9 DEF OffsetsRetry
<1>10. CASE OatdumpFound
    BY <1>10 DEF OatdumpFound, ProbesLeft, NextProbe
<1>11. CASE OffsetsMissing
    BY <1>11 DEF OffsetsMissing
<1>12. CASE OatdumpMissing
    BY <1>12 DEF OatdumpMissing
<1>13. CASE OpenAccessor
    BY <1>13 DEF OpenAccessor
<1>14. CASE OpenFails
    BY <1>14 DEF OpenFails
<1>15. CASE PutFilter
    BY <1>15 DEF PutFilter, WriteFilter, NextProbe
<1>16. CASE FilterFails
    BY <1>16 DEF FilterFails
<1>17. CASE ProbesResolved
    BY <1>17 DEF ProbesResolved
<1>18. CASE Attach
    BY <1>18 DEF Attach
<1>19. CASE AttachFails
    BY <1>19 DEF AttachFails
<1>20. CASE SpawnThreads \/ Join
    BY <1>20 DEF SpawnThreads, Join
<1>21. ASSUME NEW key \in DOMAIN ifaces, Drain(key) PROVE TypeRun'
    BY <1>21 DEF Drain, Close
<1>22. CASE DrainDone \/ DrainFails
    <2>1. CASE DrainDone
        BY <2>1 DEF DrainDone, Close
    <2>2. CASE DrainFails
        <3>1. /\ pc' = "exit" /\ open' = FALSE
              /\ UNCHANGED <<userBuild, config, k, f, retries, attached, status, runs, crashes>>
              /\ failures < MaxFailures /\ failures' = failures + 1
            BY <2>2 DEF DrainFails, Close
        <3>2. failures' \in 0 .. MaxFailures
            BY <3>1
        <3>3. open' \in BOOLEAN /\ userBuild' \in BOOLEAN
            BY <3>1
        <3>4. /\ pc' \in Places /\ config' \in Configs \cup {<<>>} /\ k' \in Nat \ {0}
              /\ f' \in Nat \ {0} /\ retries' \in 0 .. MaxRetries /\ attached' \subseteq Nat
              /\ status' \in {"none", "ok", "failed"}
              /\ runs' \in 0 .. MaxRuns /\ crashes' \in 0 .. MaxCrashes
            BY <3>1
        <3>5. QED
            BY <3>2, <3>3, <3>4
    <2>3. QED
        BY <1>22, <2>1, <2>2
<1>23. CASE Exit \/ Crash
    <2>1. /\ pc' = "off" /\ config' = <<>> /\ k' = 1 /\ f' = 1 /\ retries' = 0 /\ open' = FALSE
          /\ attached' = {} /\ status' = "none"
          /\ UNCHANGED <<userBuild, runs, failures>>
          /\ crashes' = crashes \/ (crashes < MaxCrashes /\ crashes' = crashes + 1)
        BY <1>23 DEF Exit, Crash, Gone
    <2>2. crashes' \in 0 .. MaxCrashes
        BY <2>1
    <2>3. open' \in BOOLEAN /\ userBuild' \in BOOLEAN
        BY <2>1
    <2>4. /\ pc' \in Places /\ config' \in Configs \cup {<<>>} /\ k' \in Nat \ {0}
          /\ f' \in Nat \ {0} /\ retries' \in 0 .. MaxRetries /\ attached' \subseteq Nat
          /\ status' \in {"none", "ok", "failed"}
          /\ runs' \in 0 .. MaxRuns /\ failures' \in 0 .. MaxFailures
        BY <2>1
    <2>5. QED
        BY <2>2, <2>3, <2>4
<1>24. ASSUME NEW m \in Maps, ThreadStep(m) PROVE TypeRun'
    <2>1. /\ UNCHANGED <<userBuild, pc, config, k, f, retries, open, attached, status, runs, crashes>>
          /\ UNCHANGED failures \/ Fault
        BY <1>24, ThreadFrame
    <2>2. failures' \in 0 .. MaxFailures
        BY <2>1
    <2>3. QED
        BY <2>1, <2>2
<1>25. CASE Tick
    BY <1>25 DEF Tick
<1>26. CASE KernelStep
    <2>1. UNCHANGED <<userBuild, pc, config, k, f, retries, open, attached, status, runs, crashes,
                      failures>>
        BY <1>26 DEF KernelStep, BinderTransaction, OtherEvent, Emit
    <2>2. QED
        BY <2>1
<1>27. QED
    BY <1>1, <1>2, <1>3, <1>4, <1>5, <1>6, <1>7, <1>8, <1>9, <1>10, <1>11, <1>12, <1>13,
       <1>14, <1>15, <1>16, <1>17, <1>18, <1>19, <1>20, <1>21, <1>22, <1>23, <1>24, <1>25,
       <1>26
    DEF Next, MainStep

-------------------------------------------------------------------------------
LEMMA TypeMapsInit == Init => TypeMaps
<1> SUFFICES ASSUME Init PROVE TypeMaps
    OBVIOUS
<1>1. DOMAIN ifaces = {} /\ stale = {}
    BY DEF Init
<1>2. /\ rings \in [Maps -> Seq(Event)]
      /\ \A m \in Maps : Len(rings[m]) = 0
    BY DEF Init
<1>3. QED
    BY <1>1, <1>2, UprobestatsAssumption DEF TypeMaps

(* An event goes to the end of a ring that has room.                       *)
LEMMA EmitTyped ==
    ASSUME TypeMaps, NEW m \in Maps, NEW event \in Event, Emit(m, event)
    PROVE  TypeMaps'
<1>1. /\ rings' = [rings EXCEPT ![m] = Append(@, event)] /\ Len(rings[m]) < RingCap
      /\ UNCHANGED <<ifaces, stale>>
    BY DEF Emit
<1>2. rings[m] \in Seq(Event) /\ RingCap \in Nat
    BY UprobestatsAssumption DEF TypeMaps
<1>3. Append(rings[m], event) \in Seq(Event) /\ Len(Append(rings[m], event)) <= RingCap
    BY <1>1, <1>2
<1>4. rings' \in [Maps -> Seq(Event)]
    BY <1>1, <1>3 DEF TypeMaps
<1>5. \A l \in Maps : Len(rings'[l]) <= RingCap
    BY <1>1, <1>3 DEF TypeMaps
<1>6. QED
    BY <1>1, <1>4, <1>5 DEF TypeMaps

(* A poll takes records from the front.                                    *)
LEMMA TakenTyped ==
    ASSUME TypeMaps, NEW m \in Maps, NEW n \in 0 .. Len(rings[m]),
           rings' = [rings EXCEPT ![m] = Behind(n, @)], UNCHANGED <<ifaces, stale>>
    PROVE  TypeMaps'
<1>1. rings[m] \in Seq(Event) /\ RingCap \in Nat /\ Len(rings[m]) \in Nat
      /\ Len(rings[m]) <= RingCap
    BY UprobestatsAssumption DEF TypeMaps
<1>2. Behind(n, rings[m]) \in Seq(Event) /\ Len(Behind(n, rings[m])) <= RingCap
    <2>1. /\ SubSeq(rings[m], n + 1, Len(rings[m])) \in Seq(Event)
          /\ Len(SubSeq(rings[m], n + 1, Len(rings[m]))) = Len(rings[m]) - n
        BY <1>1
    <2>2. QED
        BY <1>1, <2>1 DEF Behind
<1>3. rings' \in [Maps -> Seq(Event)]
    BY <1>2 DEF TypeMaps
<1>4. \A l \in Maps : Len(rings'[l]) <= RingCap
    BY <1>2 DEF TypeMaps
<1>5. QED
    BY <1>3, <1>4 DEF TypeMaps

(* A filter is written under a key of its name, and only if it is valid.   *)
LEMMA PutTyped ==
    ASSUME TypeRun, Place, PutFilter
    PROVE  /\ Filter.name \in Names /\ Filter.codes \in Seq(Int)
           /\ ToKey(Filter.name) \in Keys
           /\ ToValue(Filter.codes) \in Seq(Nat) /\ Len(ToValue(Filter.codes)) \in 1 .. CodeSlots
           /\ DOMAIN ifaces' = DOMAIN ifaces \cup {ToKey(Filter.name)}
           /\ ifaces'[ToKey(Filter.name)] = ToValue(Filter.codes)
           /\ \A x \in DOMAIN ifaces : ifaces'[x] = ifaces[x]
           /\ ToKey(Filter.name) \notin DOMAIN ifaces
           /\ UNCHANGED <<rings, stale, config, open>>
<1>1. k \in 1 .. Len(Task.probes) /\ f \in 1 .. Len(Probe.filters) /\ config # <<>>
    BY DEF PutFilter, Place, Filtered, Chosen
<1>2. Filter.name \in Names \cup {NoName} /\ Filter.codes \in Seq(Int)
    BY <1>1, TaskTyped DEF Filter, Probe
<1>3. /\ Filter.name # NoName /\ Filter.codes # <<>>
      /\ \A i \in DOMAIN Filter.codes : Filter.codes[i] >= 0
    BY DEF PutFilter, FilterValid
<1>4. /\ ToKey(Filter.name) \in Keys
      /\ ToValue(Filter.codes) \in Seq(Nat) /\ Len(ToValue(Filter.codes)) \in 1 .. CodeSlots
    BY <1>2, <1>3, ValueTyped, KeyTyped, UprobestatsAssumption
<1>5. ifaces' = [x \in DOMAIN ifaces \cup {ToKey(Filter.name)} |->
                    IF x = ToKey(Filter.name) THEN ToValue(Filter.codes) ELSE ifaces[x]]
      /\ ToKey(Filter.name) \notin DOMAIN ifaces
    BY DEF PutFilter, WriteFilter
<1>6. UNCHANGED <<rings, stale, config, open>>
    BY DEF PutFilter
<1>7. QED
    BY <1>2, <1>3, <1>4, <1>5, <1>6

(* A thread takes records of its own ring, main_impl takes none.           *)
LEMMA ThreadRings ==
    ASSUME NEW m \in Maps, ThreadStep(m)
    PROVE  \/ UNCHANGED rings
           \/ \E n \in 0 .. Len(rings[m]) : rings' = [rings EXCEPT ![m] = Behind(n, @)]
BY DEF ThreadStep, CheckTimer, Finish, FinishFails, PollReturns, PollFails, HandleItem,
       ItemFails, pinned

LEMMA MainRings == ASSUME MainStep PROVE UNCHANGED rings
BY DEF MainStep, ReadConfig, ConfigFails, CheckGuardrail, ResolveTask, TaskFails,
       OffsetsFound, OffsetsRetry, OffsetsMissing, OatdumpFound, OatdumpMissing,
       OpenAccessor, OpenFails, PutFilter, FilterFails, ProbesResolved, Attach, AttachFails,
       SpawnThreads, Join, Drain, DrainFails, DrainDone, Exit, pinned

LEMMA TypeMapsNext ==
    ASSUME TypeRun, Place, TypeMaps, [Next]_vars
    PROVE  TypeMaps'
<1>1. CASE UNCHANGED <<ifaces, stale, rings>>
    BY <1>1 DEF TypeMaps
<1>2. CASE PutFilter
    BY <1>2, PutTyped DEF TypeMaps
<1>3. ASSUME NEW key \in DOMAIN ifaces, Drain(key) PROVE TypeMaps'
    <2> DEFINE again == ToKey(FromKey(key))
    <2>1. ifaces' = [x \in DOMAIN ifaces \ {again} |-> ifaces[x]] /\ stale' = stale \ {again}
          /\ rings' = rings
        BY <1>3 DEF Drain, Remove
    <2>2. QED
        BY <2>1 DEF TypeMaps
<1>4. CASE Crash \/ DrainFails
    BY <1>4 DEF Crash, DrainFails, TypeMaps
<1>5. ASSUME NEW m \in Maps, ThreadStep(m) PROVE TypeMaps'
    <2>1. UNCHANGED <<ifaces, stale>>
        BY <1>5, ThreadFrame
    <2>2. \/ UNCHANGED rings
          \/ \E n \in 0 .. Len(rings[m]) : rings' = [rings EXCEPT ![m] = Behind(n, @)]
        BY <1>5, ThreadRings
    <2>3. QED
        BY <1>1, <2>1, <2>2, TakenTyped
<1>6. ASSUME NEW descriptor \in Descriptors, NEW code \in Codes,
             BinderTransaction(descriptor, code)
      PROVE  TypeMaps'
    <2>1. BinderRing \in Maps /\ [key |-> Recorded(descriptor), code |-> code] \in Event
        BY RecordedTyped, UprobestatsAssumption DEF Event
    <2>2. QED
        BY <1>6, <2>1, EmitTyped DEF BinderTransaction
<1>7. ASSUME NEW m \in Maps, OtherEvent(m) PROVE TypeMaps'
    <2>1. [key |-> ToKey(<<>>), code |-> 0] \in Event
        <3>1. <<>> \in Seq(Bytes)
            OBVIOUS
        <3>2. ToKey(<<>>) \in Keys
            BY <3>1, KeyTyped
        <3>3. QED
            BY <3>2 DEF Event
    <2>2. QED
        BY <1>7, <2>1, EmitTyped DEF OtherEvent
<1>8. ASSUME MainStep, ~PutFilter, ~DrainFails, \A key \in DOMAIN ifaces : ~Drain(key)
      PROVE  UNCHANGED <<ifaces, stale, rings>>
    BY <1>8 DEF MainStep, ReadConfig, ConfigFails, CheckGuardrail, ResolveTask, TaskFails,
                OffsetsFound, OffsetsRetry, OffsetsMissing, OatdumpFound, OatdumpMissing,
                OpenAccessor, OpenFails, FilterFails, ProbesResolved, Attach, AttachFails,
                SpawnThreads, Join, DrainDone, Exit, pinned
<1>9. QED
    BY <1>1, <1>2, <1>3, <1>4, <1>5, <1>6, <1>7, <1>8
    DEF Next, Start, Tick, KernelStep, vars, pinned

-------------------------------------------------------------------------------
LEMMA TypePollInit == Init => TypePoll
<1> SUFFICES ASSUME Init PROVE TypePoll
    OBVIOUS
<1>1. /\ now = 0 /\ lost = 0 /\ thread = [m \in Maps |-> "none"]
      /\ batch = [m \in Maps |-> 0] /\ RingCap \in Nat
    BY UprobestatsAssumption DEF Init, Idle
<1>2. QED
    BY <1>1 DEF TypePoll, ThreadPlaces

(* A loop never handles an item of an empty batch, and takes no more than  *)
(* a ring holds.                                                           *)
LEMMA TypePollNext ==
    ASSUME TypeMaps, TypePoll, [Next]_vars
    PROVE  TypePoll'
<1>0. RingCap \in Nat /\ 0 \in 0 .. RingCap
    BY UprobestatsAssumption
<1>1. CASE UNCHANGED polling
    BY <1>1 DEF TypePoll, polling
<1>2. CASE SpawnThreads
    <2>1. /\ now' = 0 /\ UNCHANGED <<batch, lost>>
          /\ thread' = [m \in Maps |-> IF m \notin Task.maps THEN "none"
                                        ELSE IF m \in Registered THEN "top" ELSE "failed"]
        BY <1>2 DEF SpawnThreads
    <2>2. QED
        BY <2>1 DEF TypePoll, ThreadPlaces
<1>3. CASE Exit \/ Crash
    <2>1. /\ now' = 0 /\ lost' = 0 /\ thread' = [m \in Maps |-> "none"]
          /\ batch' = [m \in Maps |-> 0]
        BY <1>3 DEF Exit, Crash, Gone, Idle
    <2>2. QED
        BY <1>0, <2>1 DEF TypePoll, ThreadPlaces
<1>4. CASE Tick
    BY <1>4 DEF Tick, TypePoll
<1>5. ASSUME NEW m \in Maps, ThreadStep(m) PROVE TypePoll'
    <2> DEFINE Sound(place, left, gone) ==
            /\ place \in ThreadPlaces /\ left \in 0 .. RingCap /\ gone \in Nat
            /\ place = "item" => left # 0
            /\ thread' = [thread EXCEPT ![m] = place]
            /\ batch' = [batch EXCEPT ![m] = left]
            /\ lost' = gone
    <2>0. /\ batch[m] \in 0 .. RingCap /\ batch = [batch EXCEPT ![m] = batch[m]]
          /\ batch[m] \in Nat /\ lost \in Nat /\ Len(rings[m]) <= RingCap
          /\ Len(rings[m]) \in Nat /\ (thread[m] = "item" => batch[m] # 0)
        BY <1>0 DEF TypePoll, TypeMaps
    <2> HIDE DEF Sound
    <2>1. ASSUME CheckTimer(m) \/ Finish(m) \/ FinishFails(m)
          PROVE  \E place : Sound(place, batch[m], lost)
        <3>1. PICK place \in {"poll", "failed", "done"} : thread' = [thread EXCEPT ![m] = place]
            BY <2>1 DEF CheckTimer, Finish, FinishFails, Goto
        <3>2. UNCHANGED <<batch, lost>>
            BY <2>1 DEF CheckTimer, Finish, FinishFails
        <3>3. Sound(place, batch[m], lost)
            BY <2>0, <3>1, <3>2 DEF Sound, ThreadPlaces
        <3>4. QED
            BY <3>3
    <2>2. ASSUME NEW n \in 0 .. Len(rings[m]), PollReturns(m, n)
          PROVE  \E place : Sound(place, n, lost)
        <3>1. /\ batch' = [batch EXCEPT ![m] = n] /\ UNCHANGED lost
              /\ thread' = [thread EXCEPT ![m] = IF n = 0 THEN "top" ELSE "item"]
            BY <2>2 DEF PollReturns, Goto
        <3>2. n \in 0 .. RingCap
            BY <1>0, <2>0
        <3>3. Sound(IF n = 0 THEN "top" ELSE "item", n, lost)
            BY <2>0, <3>1, <3>2 DEF Sound, ThreadPlaces
        <3>4. QED
            BY <3>3
    <2>3. ASSUME NEW n \in 0 .. Len(rings[m]), PollFails(m, n)
          PROVE  Sound("failed", batch[m], lost + n)
        <3>1. /\ UNCHANGED batch /\ lost' = lost + n
              /\ thread' = [thread EXCEPT ![m] = "failed"] /\ n \in Nat
            BY <2>0, <2>3 DEF PollFails, Goto
        <3>2. lost + n \in Nat
            BY <2>0, <3>1
        <3>3. QED
            BY <2>0, <3>1, <3>2 DEF Sound, ThreadPlaces
    <2>4. ASSUME HandleItem(m)
          PROVE  \E place : Sound(place, batch[m] - 1, lost)
        <3>1. /\ batch' = [batch EXCEPT ![m] = batch[m] - 1] /\ lost' = lost
              /\ thread' = [thread EXCEPT ![m] = IF batch[m] = 1 THEN "top" ELSE "item"]
              /\ batch[m] # 0
            BY <2>0, <2>4 DEF HandleItem, Goto
        <3>2. batch[m] - 1 \in 0 .. RingCap /\ (batch[m] # 1 => batch[m] - 1 # 0)
            BY <1>0, <2>0, <3>1
        <3>3. Sound(IF batch[m] = 1 THEN "top" ELSE "item", batch[m] - 1, lost)
            BY <2>0, <3>1, <3>2 DEF Sound, ThreadPlaces
        <3>4. QED
            BY <3>3
    <2>5. ASSUME ItemFails(m)
          PROVE  Sound("failed", 0, lost + batch[m])
        <3>1. /\ batch' = [batch EXCEPT ![m] = 0] /\ lost' = lost + batch[m]
              /\ thread' = [thread EXCEPT ![m] = "failed"]
            BY <2>5 DEF ItemFails, Goto
        <3>2. lost + batch[m] \in Nat
            BY <2>0
        <3>3. QED
            BY <1>0, <3>1, <3>2 DEF Sound, ThreadPlaces
    <2>6. PICK place, left, gone : Sound(place, left, gone)
        BY <1>5, <2>1, <2>2, <2>3, <2>4, <2>5 DEF ThreadStep
    <2>7. now' = now
        BY <1>5, ThreadFrame
    <2>8. QED
        BY <2>6, <2>7 DEF TypePoll, Sound
<1>6. ASSUME MainStep, ~SpawnThreads, ~Exit PROVE UNCHANGED polling
    BY <1>6 DEF MainStep, ReadConfig, ConfigFails, CheckGuardrail, ResolveTask, TaskFails,
                OffsetsFound, OffsetsRetry, OffsetsMissing, OatdumpFound, OatdumpMissing,
                OpenAccessor, OpenFails, PutFilter, FilterFails, ProbesResolved, Attach,
                AttachFails, Join, Drain, DrainFails, DrainDone
<1>7. CASE KernelStep
    BY <1>1, <1>7 DEF KernelStep, BinderTransaction, OtherEvent, Emit
<1>8. QED
    BY <1>1, <1>2, <1>3, <1>4, <1>5, <1>6, <1>7 DEF Next, Start, vars

-------------------------------------------------------------------------------
LEMMA PlaceInit == Init => Place
BY DEF Init, Place, Chosen

LEMMA PlaceNext ==
    ASSUME TypeRun, Place, [Next]_vars
    PROVE  Place'
<1> USE DEF Place, Chosen, Filtered, Task, Probe, Bail, resolving
<1>1. CASE UNCHANGED <<pc, config, k, f, open>>
    BY <1>1
(* Leaving for "drop" or a place before the task is always right.          *)
<1>2. ASSUME UNCHANGED <<config, open>>, pc' = "drop" PROVE Place'
    BY <1>2
<1>3. CASE Start
    BY <1>3 DEF Start
<1>4. ASSUME NEW c \in Configs, ReadConfig(c) PROVE Place'
    BY <1>4 DEF ReadConfig
<1>5. CASE ConfigFails \/ TaskFails \/ OffsetsMissing \/ OatdumpMissing \/ OpenFails
           \/ FilterFails \/ AttachFails \/ Join
    BY <1>2, <1>5 DEF ConfigFails, TaskFails, OffsetsMissing, OatdumpMissing, OpenFails,
                      FilterFails, AttachFails, Join
<1>6. CASE CheckGuardrail
    BY <1>6 DEF CheckGuardrail
<1>7. CASE ResolveTask
    <2>1. config # <<>> => Task.duration \in Int \cup {NoName}
        BY TaskTyped
    <2>2. QED
        BY <1>7, <2>1 DEF ResolveTask
<1>8. CASE OffsetsFound
    <2>1. /\ k \in 1 .. Len(Task.probes) /\ Probe.class # NoName /\ f = 1
          /\ UNCHANGED <<config, open>> /\ pc = "probes"
        <3>1. Task.probes \in Seq(ProbeMsg)
            BY <1>8, TaskTyped DEF OffsetsFound, ProbesLeft
        <3>2. Len(Task.probes) \in Nat /\ k \in Nat \ {0}
            BY <3>1 DEF TypeRun
        <3>3. QED
            BY <1>8, <3>2 DEF OffsetsFound, ProbesLeft
    <2>2. CASE IsBinder(Probe)
        <3>1. UNCHANGED <<k, f>> /\ pc' = IF open THEN "filters" ELSE "open"
            BY <1>8, <2>2 DEF OffsetsFound
        <3>2. Probe.filters # <<>> => 1 \in 1 .. Len(Probe.filters)
            BY <2>1, TaskTyped
        <3>3. QED
            BY <2>1, <2>2, <3>1, <3>2
    <2>3. CASE ~IsBinder(Probe)
        <3>1. f' = 1 /\ pc' = "probes"
            BY <1>8, <2>3 DEF OffsetsFound, NextProbe
        <3>2. QED
            BY <2>1, <3>1
    <2>4. QED
        BY <2>2, <2>3
<1>9. CASE OffsetsRetry
    BY <1>1, <1>9 DEF OffsetsRetry
<1>10. CASE OatdumpFound
    BY <1>10 DEF OatdumpFound, ProbesLeft, NextProbe
<1>11. CASE OpenAccessor
    <2>1. /\ open' = TRUE /\ pc' = "filters" /\ UNCHANGED <<config, k, f>>
          /\ config # <<>> /\ Filtered(k) /\ f = 1 /\ Task.duration \in Int
        BY <1>11 DEF OpenAccessor
    <2>2. Probe.filters # <<>> => 1 \in 1 .. Len(Probe.filters)
        BY <2>1, TaskTyped
    <2>3. Filtered(k)' /\ (Probe.filters # <<>> => f \in 1 .. Len(Probe.filters))'
        BY <2>1, <2>2
    <2>4. (Task.duration \in Int /\ config # <<>>)'
        BY <2>1
    <2> HIDE DEF Filtered, Task, Probe
    <2>5. QED
        BY <2>1, <2>3, <2>4
<1>12. CASE PutFilter
    <2>1. /\ pc = "filters" /\ UNCHANGED <<config, open>> /\ f \in 1 .. Len(Probe.filters)
          /\ k \in 1 .. Len(Task.probes) /\ config # <<>>
        BY <1>12 DEF PutFilter
    <2>2. Probe.filters \in Seq(FilterMsg)
        <3> HIDE DEF Place, Chosen, Filtered
        <3>1. \A p \in 1 .. Len(Task.probes) : Task.probes[p].filters \in Seq(FilterMsg)
            BY <2>1, TaskTyped
        <3>2. QED
            BY <2>1, <3>1
    <2>3. /\ pc = "filters" /\ UNCHANGED <<config, open>> /\ f \in 1 .. Len(Probe.filters)
          /\ Len(Probe.filters) \in Nat
        <3> HIDE DEF Place, Chosen, Filtered, Task, Probe, TypeRun
        <3>1. QED
            BY <2>1, <2>2
    <2>4. CASE f < Len(Probe.filters)
        <3>1. f' = f + 1 /\ UNCHANGED <<pc, k>>
            BY <1>12, <2>4 DEF PutFilter, WriteFilter
        <3>2. f' \in 1 .. Len(Probe.filters)
            BY <2>3, <2>4, <3>1
        <3>3. QED
            BY <2>3, <3>1, <3>2
    <2>5. CASE ~(f < Len(Probe.filters))
        <3>1. f' = 1 /\ pc' = "probes"
            BY <1>12, <2>5 DEF PutFilter, WriteFilter, NextProbe
        <3>2. QED
            BY <2>3, <3>1
    <2>6. QED
        BY <2>4, <2>5
<1>13. CASE ProbesResolved
    BY <1>13 DEF ProbesResolved
<1>14. CASE Attach
    BY <1>14 DEF Attach
<1>15. CASE SpawnThreads
    BY <1>15 DEF SpawnThreads
<1>16. ASSUME NEW key \in DOMAIN ifaces, Drain(key) PROVE Place'
    BY <1>16 DEF Drain, Close
<1>17. CASE DrainDone \/ DrainFails
    BY <1>17 DEF DrainDone, DrainFails, Close
<1>18. CASE Exit \/ Crash
    BY <1>18 DEF Exit, Crash, Gone
<1>19. ASSUME NEW m \in Maps, ThreadStep(m) PROVE Place'
    BY <1>1, <1>19, ThreadFrame
<1>20. CASE Tick \/ KernelStep
    BY <1>1, <1>20 DEF Tick, KernelStep, BinderTransaction, OtherEvent, Emit
<1>21. QED
    BY <1>1, <1>3, <1>4, <1>5, <1>6, <1>7, <1>8, <1>9, <1>10, <1>11, <1>12, <1>13, <1>14,
       <1>15, <1>16, <1>17, <1>18, <1>19, <1>20
    DEF Next, MainStep, vars

-------------------------------------------------------------------------------
LEMMA InForceInit == Init => InForce
BY DEF Init, InForce, Written

(* A step that keeps the entries, and after which no filter counts as      *)
(* written that did not before.                                            *)
LEMMA InForceKept ==
    ASSUME InForce, UNCHANGED <<config, ifaces>>,
           \A p \in Nat \ {0} : Filtered(p) =>
               \A i \in 1 .. Len(Task.probes[p].filters) : Written(p, i)' => Written(p, i)
    PROVE  InForce'
BY DEF InForce, Filtered, Task, ToKey, ToValue

(* On the way to the end nothing counts as written.                        *)
LEMMA InForceVoid ==
    ASSUME pc' \notin {"probes", "open", "filters", "attach", "poll"}
    PROVE  InForce'
BY DEF InForce, Written

(* An entry that is written is in force from then on, and none before it   *)
(* is overwritten.                                                         *)
LEMMA InForcePut ==
    ASSUME TypeRun, Place, InForce, PutFilter
    PROVE  InForce'
<1>1. /\ pc = "filters" /\ f \in 1 .. Len(Probe.filters) /\ Filtered(k) /\ k \in Nat
      /\ UNCHANGED config
    BY DEF PutFilter, Place, TypeRun
<1>2. /\ ifaces'[ToKey(Filter.name)] = ToValue(Filter.codes)
      /\ ToKey(Filter.name) \in DOMAIN ifaces'
      /\ \A x \in DOMAIN ifaces : x \in DOMAIN ifaces' /\ ifaces'[x] = ifaces[x]
    BY PutTyped
<1>3. ASSUME NEW p \in Nat \ {0}, Filtered(p), NEW i \in 1 .. Len(Task.probes[p].filters),
             Written(p, i)'
      PROVE  p < k \/ (p = k /\ i < f) \/ (p = k /\ i = f)
    <2>1. CASE f < Len(Probe.filters)
        <3>1. pc' = "filters" /\ k' = k /\ f' = f + 1
            BY <1>1, <2>1 DEF PutFilter, WriteFilter
        <3>2. p < k \/ (p = k /\ i < f + 1)
            BY <1>3, <3>1 DEF Written
        <3>3. QED
            BY <1>1, <3>2
    <2>2. CASE ~(f < Len(Probe.filters))
        <3>1. pc' = "probes" /\ k' = k + 1
            BY <2>2 DEF PutFilter, WriteFilter, NextProbe
        <3>2. p < k + 1
            BY <1>3, <3>1 DEF Written
        <3>3. p < k \/ (p = k /\ i \in 1 .. Len(Probe.filters))
            BY <1>1, <1>3, <3>2 DEF Probe
        <3>4. QED
            BY <1>1, <2>2, <3>3
    <2>3. QED
        BY <2>1, <2>2
<1>4. ASSUME NEW p \in Nat \ {0}, Filtered(p), NEW i \in 1 .. Len(Task.probes[p].filters),
             Written(p, i)'
      PROVE  LET filter == Task.probes[p].filters[i]
             IN  /\ ToKey(filter.name) \in DOMAIN ifaces'
                 /\ ifaces'[ToKey(filter.name)] = ToValue(filter.codes)
    <2>1. CASE p = k /\ i = f
        BY <1>2, <2>1 DEF Filter, Probe
    <2>2. CASE p < k \/ (p = k /\ i < f)
        <3>1. Written(p, i)
            BY <1>1, <2>2 DEF Written
        <3>2. QED
            BY <1>2, <1>4, <3>1 DEF InForce
    <2>3. QED
        BY <1>3, <1>4, <2>1, <2>2
<1>5. QED
    BY <1>1, <1>4 DEF InForce, Filtered, Task, ToKey, ToValue

LEMMA InForceNext ==
    ASSUME TypeRun, Place, InForce, [Next]_vars
    PROVE  InForce'
<1> USE DEF Bail, pinned, resolving
<1>1. CASE UNCHANGED <<pc, config, k, f, ifaces>>
    BY <1>1, InForceKept DEF Written
<1>2. CASE pc' \notin {"probes", "open", "filters", "attach", "poll"}
    BY <1>2, InForceVoid
<1>3. CASE ResolveTask
    <2>1. CASE pc' = "probes"
        <3>1. UNCHANGED <<config, ifaces, k>> /\ k = 1
            BY <1>3 DEF ResolveTask, Place
        <3>2. QED
            BY <2>1, <3>1, InForceKept DEF Written
    <2>2. QED
        BY <1>2, <1>3, <2>1 DEF ResolveTask
<1>4. CASE OffsetsFound
    <2>1. /\ pc = "probes" /\ f = 1 /\ UNCHANGED <<config, ifaces>> /\ k \in Nat
        BY <1>4 DEF OffsetsFound, ProbesLeft, Place, TypeRun
    <2>2. CASE IsBinder(Probe)
        <3>1. UNCHANGED <<k, f>> /\ pc' \in {"filters", "open"}
            BY <1>4, <2>2 DEF OffsetsFound
        <3>2. QED
            BY <2>1, <3>1, InForceKept DEF Written
    <2>3. CASE ~IsBinder(Probe)
        <3>1. pc' = "probes" /\ k' = k + 1 /\ ~Filtered(k)
            BY <1>4, <2>3 DEF OffsetsFound, NextProbe, Filtered, Probe
        <3>2. QED
            BY <2>1, <3>1, InForceKept DEF Written
    <2>4. QED
        BY <2>2, <2>3
<1>5. CASE OatdumpFound
    <2>1. /\ pc = "probes" /\ UNCHANGED <<config, ifaces>> /\ k \in Nat
          /\ pc' = "probes" /\ k' = k + 1 /\ ~Filtered(k)
        BY <1>5 DEF OatdumpFound, ProbesLeft, NextProbe, TypeRun, Filtered, Probe
    <2>2. QED
        BY <2>1, InForceKept DEF Written
<1>6. CASE OpenAccessor
    <2>1. /\ pc = "open" /\ pc' = "filters" /\ f = 1 /\ UNCHANGED <<config, ifaces, k, f>>
        BY <1>6 DEF OpenAccessor, Place
    <2>2. QED
        BY <2>1, InForceKept DEF Written
<1>7. CASE PutFilter
    BY <1>7, InForcePut
<1>8. CASE ProbesResolved
    <2>1. /\ pc = "probes" /\ UNCHANGED <<config, ifaces>> /\ k > Len(Task.probes) /\ k \in Nat
          /\ Len(Task.probes) \in Nat
        BY <1>8, TaskTyped DEF ProbesResolved, TypeRun, Place, Chosen
    <2>2. \A p \in Nat \ {0} : Filtered(p) => p < k
        BY <2>1 DEF Filtered
    <2>3. QED
        BY <2>1, <2>2, InForceKept DEF Written
<1>9. CASE Attach \/ SpawnThreads
    <2>1. pc \in {"attach", "poll"} /\ UNCHANGED <<config, ifaces>>
        BY <1>9 DEF Attach, SpawnThreads
    <2>2. QED
        BY <2>1, InForceKept DEF Written
<1>10. ASSUME NEW m \in Maps, ThreadStep(m) PROVE InForce'
    BY <1>1, <1>10, ThreadFrame
<1>11. ASSUME NEW key \in DOMAIN ifaces, Drain(key) PROVE InForce'
    BY <1>2, <1>11 DEF Drain, Close
<1>12. CASE DrainDone \/ DrainFails \/ Exit \/ Crash \/ Start \/ Join \/ CheckGuardrail
    BY <1>2, <1>12 DEF DrainDone, DrainFails, Close, Exit, Crash, Gone, Start, Join, CheckGuardrail
<1>13. ASSUME NEW c \in Configs, ReadConfig(c) PROVE InForce'
    BY <1>2, <1>13 DEF ReadConfig
<1>14. CASE ConfigFails \/ TaskFails \/ OffsetsMissing \/ OatdumpMissing \/ OpenFails
            \/ FilterFails \/ AttachFails
    BY <1>2, <1>14 DEF ConfigFails, TaskFails, OffsetsMissing, OatdumpMissing, OpenFails,
                       FilterFails, AttachFails
<1>15. CASE OffsetsRetry \/ Tick \/ KernelStep
    BY <1>1, <1>15 DEF OffsetsRetry, Tick, KernelStep, BinderTransaction, OtherEvent, Emit
<1>16. QED
    BY <1>1, <1>3, <1>4, <1>5, <1>6, <1>7, <1>8, <1>9, <1>10, <1>11, <1>12, <1>13, <1>14,
       <1>15
    DEF Next, MainStep, vars

-------------------------------------------------------------------------------
LEMMA HandledInit == Init => Handled
BY DEF Init, Handled, Idle, SuccessMeansHandled

(* The step of a thread: what it has not handled is lost only where it     *)
(* fails, and it is done only when the time is over.                       *)
LEMMA ThreadHandled ==
    ASSUME TypePoll, NEW m \in Maps, ThreadStep(m)
    PROVE  \E place \in ThreadPlaces \ {"none"} :
              /\ thread' = [thread EXCEPT ![m] = place]
              /\ thread[m] \notin {"none", "failed"}
              /\ lost' = lost \/ place = "failed"
              /\ place = "done" => Remaining < 0
<1> DEFINE Goes(place) ==
        /\ place \in ThreadPlaces \ {"none"}
        /\ thread' = [thread EXCEPT ![m] = place]
        /\ thread[m] \notin {"none", "failed"}
        /\ lost' = lost \/ place = "failed"
        /\ place = "done" => Remaining < 0
<1> HIDE DEF Goes
<1> USE DEF Goto, ThreadPlaces
<1>1. ASSUME CheckTimer(m) PROVE Goes(IF Remaining <= MaxTimeout THEN "poll" ELSE "failed")
    BY <1>1 DEF CheckTimer, Goes
<1>2. ASSUME Finish(m) PROVE Goes("done")
    BY <1>2 DEF Finish, Goes
<1>3. ASSUME FinishFails(m) PROVE Goes("failed")
    BY <1>3 DEF FinishFails, Goes
<1>4. ASSUME NEW n \in 0 .. Len(rings[m]), PollReturns(m, n)
      PROVE  Goes(IF n = 0 THEN "top" ELSE "item")
    BY <1>4 DEF PollReturns, Goes
<1>5. ASSUME NEW n \in 0 .. Len(rings[m]), PollFails(m, n) PROVE Goes("failed")
    BY <1>5 DEF PollFails, Goes
<1>6. ASSUME HandleItem(m) PROVE Goes(IF batch[m] = 1 THEN "top" ELSE "item")
    BY <1>6 DEF HandleItem, Goes
<1>7. ASSUME ItemFails(m) PROVE Goes("failed")
    BY <1>7 DEF ItemFails, Goes
<1>8. \E place : Goes(place)
    BY <1>1, <1>2, <1>3, <1>4, <1>5, <1>6, <1>7 DEF ThreadStep
<1>9. QED
    BY <1>8 DEF Goes

LEMMA HandledNext ==
    ASSUME TypeRun, TypePoll, Place, Handled, [Next]_vars
    PROVE  Handled'
<1> USE DEF Bail, pinned, resolving, polling
<1>1. CASE UNCHANGED <<pc, config, now, thread, lost, status>>
    BY <1>1 DEF Handled, SuccessMeansHandled, Task
(* A step between places before the threads.                               *)
<1>2. ASSUME UNCHANGED <<thread, lost, status>>, pc \notin {"poll", "drop", "exit"},
             pc' \notin {"poll", "drop", "exit"}
      PROVE  Handled'
    BY <1>2 DEF Handled, SuccessMeansHandled
(* A failure.                                                              *)
<1>3. ASSUME pc' = "drop", status' = "failed" PROVE Handled'
    BY <1>3 DEF Handled, SuccessMeansHandled
<1>4. CASE Start \/ OffsetsFound \/ OffsetsRetry \/ OatdumpFound \/ OpenAccessor \/ PutFilter
           \/ ProbesResolved \/ Attach
    <2>1. /\ UNCHANGED <<thread, lost, status>> /\ pc \notin {"poll", "drop", "exit"}
          /\ pc' \notin {"poll", "drop", "exit"}
        BY <1>4 DEF Start, OffsetsFound, OffsetsRetry, OatdumpFound, OpenAccessor, PutFilter,
                    WriteFilter, ProbesResolved, Attach, ProbesLeft, NextProbe
    <2>2. QED
        BY <1>2, <2>1
<1>5. ASSUME NEW c \in Configs, ReadConfig(c) PROVE Handled'
    BY <1>2, <1>5 DEF ReadConfig
<1>6. CASE ConfigFails \/ TaskFails \/ OffsetsMissing \/ OatdumpMissing \/ OpenFails
           \/ FilterFails \/ AttachFails
    BY <1>3, <1>6 DEF ConfigFails, TaskFails, OffsetsMissing, OatdumpMissing, OpenFails,
                      FilterFails, AttachFails
<1>7. CASE CheckGuardrail \/ ResolveTask
    BY <1>2, <1>3, <1>7 DEF CheckGuardrail, ResolveTask
<1>8. CASE SpawnThreads
    <2>1. /\ pc = "attach" /\ pc' = "poll" /\ UNCHANGED <<config, lost, status>>
          /\ thread' = [m \in Maps |-> IF m \notin Task.maps THEN "none"
                                        ELSE IF m \in Registered THEN "top" ELSE "failed"]
        BY <1>8 DEF SpawnThreads
    <2>2. Task.maps \subseteq Maps /\ lost = 0 /\ status = "none"
        BY <2>1, TaskTyped DEF Handled, Place, Chosen
    <2>3. (\A m \in Task.maps : thread'[m] # "none") /\ \A m \in Maps : thread'[m] # "done"
        BY <2>1, <2>2
    <2>4. QED
        BY <2>1, <2>2, <2>3 DEF Handled, SuccessMeansHandled, Task
<1>9. CASE Join
    <2>1. /\ pc = "poll" /\ pc' = "drop" /\ UNCHANGED <<config, now, thread, lost>>
          /\ \A m \in Maps : thread[m] \in {"none", "done", "failed"}
          /\ status' = IF \E m \in Maps : thread[m] = "failed" THEN "failed" ELSE "ok"
        BY <1>9 DEF Join
    <2>2. status' = "ok" =>
              /\ lost = 0
              /\ \A m \in Task.maps : thread[m] = "done" /\ now > Task.duration
        BY <2>1 DEF Handled
    <2>3. QED
        BY <2>1, <2>2 DEF Handled, SuccessMeansHandled, Task
<1>10. ASSUME NEW key \in DOMAIN ifaces, Drain(key) PROVE Handled'
    <2>1. /\ pc = "drop" /\ pc' \in {"drop", "exit"}
          /\ UNCHANGED <<config, now, thread, lost, status>>
        BY <1>10 DEF Drain, Close
    <2>2. QED
        BY <2>1 DEF Handled, SuccessMeansHandled, Task
<1>11. CASE DrainDone \/ DrainFails
    <2>1. /\ pc = "drop" /\ pc' = "exit" /\ UNCHANGED <<config, now, thread, lost, status>>
        BY <1>11 DEF DrainDone, DrainFails, Close
    <2>2. QED
        BY <2>1 DEF Handled, SuccessMeansHandled, Task
<1>12. CASE Exit \/ Crash
    <2>1. /\ pc' = "off" /\ thread' = [m \in Maps |-> "none"] /\ status' = "none" /\ lost' = 0
        BY <1>12 DEF Exit, Crash, Gone, Idle
    <2>2. QED
        BY <2>1 DEF Handled, SuccessMeansHandled
<1>13. ASSUME NEW m \in Maps, ThreadStep(m) PROVE Handled'
    <2>1. PICK place \in ThreadPlaces \ {"none"} :
              /\ thread' = [thread EXCEPT ![m] = place]
              /\ thread[m] \notin {"none", "failed"}
              /\ lost' = lost \/ place = "failed"
              /\ place = "done" => Remaining < 0
        BY <1>13, ThreadHandled
    <2>2. pc = "poll" /\ UNCHANGED <<pc, config, now, status>> /\ status = "none"
        BY <1>13, ThreadFrame DEF Handled
    <2>3. now \in Nat /\ Task.duration \in Int
        BY <2>2 DEF TypePoll, Place, Chosen
    <2>4. thread'[m] = place /\ \A l \in Maps : l # m => thread'[l] = thread[l]
        BY <2>1 DEF TypePoll
    <2>5. place = "done" => now > Task.duration
        BY <2>1, <2>3 DEF Remaining
    <2>6. lost' = 0 \/ \E l \in Maps : thread'[l] = "failed"
        BY <2>1, <2>2, <2>4 DEF Handled
    <2>7. QED
        BY <2>1, <2>2, <2>4, <2>5, <2>6 DEF Handled, SuccessMeansHandled, Task
<1>14. CASE Tick
    <2>1. pc = "poll" /\ UNCHANGED <<pc, config, thread, lost, status>> /\ now' = now + 1
        BY <1>14 DEF Tick
    <2>2. now \in Nat /\ Task.duration \in Int
        BY <2>1 DEF TypePoll, Place, Chosen
    <2>3. now > Task.duration => now' > Task.duration
        BY <2>1, <2>2
    <2>4. QED
        BY <2>1, <2>3 DEF Handled, SuccessMeansHandled, Task
<1>15. CASE KernelStep
    BY <1>1, <1>15 DEF KernelStep, BinderTransaction, OtherEvent, Emit
<1>16. QED
    BY <1>1, <1>4, <1>5, <1>6, <1>7, <1>8, <1>9, <1>10, <1>11, <1>12, <1>13, <1>14, <1>15
    DEF Next, MainStep, vars

-------------------------------------------------------------------------------
LifeInv == TypeRun /\ TypeMaps /\ TypePoll /\ Place /\ InForce /\ Handled

(* Each part is kept by every step.                                        *)
THEOREM LifeInvariance == Spec => []LifeInv
<1>1. Init => LifeInv
    BY TypeRunInit, TypeMapsInit, TypePollInit, PlaceInit, InForceInit, HandledInit DEF LifeInv
<1>2. LifeInv /\ [Next]_vars => LifeInv'
    BY TypeRunNext, TypeMapsNext, TypePollNext, PlaceNext, InForceNext, HandledNext DEF LifeInv
<1>3. QED
    BY <1>1, <1>2, PTL DEF Spec

(* TypeOK holds for all configs: codes fit the slots of a value, rings     *)
(* stay within their capacity, an item is taken only from a batch that has *)
(* one.                                                                    *)
THEOREM TypeCorrect == Spec => []TypeOK
<1>1. LifeInv => TypeOK
    BY DEF LifeInv, TypeRun, TypeMaps, TypePoll, TypeOK
<1>2. QED
    BY <1>1, LifeInvariance, PTL

(* FiltersInForce holds for all configs, names of any length included:     *)
(* while probes are attached every filter of the task is in the map with   *)
(* its own codes (resolve_probes, BinderInterfaceMapAccessor::put).        *)
THEOREM FiltersHold == Spec => []FiltersInForce
<1>1. LifeInv => FiltersInForce
    <2> SUFFICES ASSUME LifeInv, pc \in {"attach", "poll"}, NEW filter \in Filters
                 PROVE  /\ ToKey(filter.name) \in DOMAIN ifaces
                        /\ ifaces[ToKey(filter.name)] = ToValue(filter.codes)
        BY DEF FiltersInForce
    <2>1. TypeRun /\ config # <<>> /\ InForce
        BY DEF LifeInv, Place, Chosen
    <2>2. PICK p \in 1 .. Len(Task.probes) :
              Filtered(p) /\ \E i \in 1 .. Len(Task.probes[p].filters) :
                  filter = Task.probes[p].filters[i]
        BY <2>1, FiltersAre
    <2>3. PICK i \in 1 .. Len(Task.probes[p].filters) : filter = Task.probes[p].filters[i]
        BY <2>2
    <2>4. p \in Nat \ {0} /\ Written(p, i)
        BY DEF Written
    <2>5. QED
        BY <2>1, <2>2, <2>3, <2>4 DEF InForce
<1>2. QED
    BY <1>1, LifeInvariance, PTL

(* SuccessMeansHandled holds for all configs: main_impl returns Ok only    *)
(* when every poll loop ended by its timer with nothing dropped on the way.*)
THEOREM SuccessIsHandled == Spec => []SuccessMeansHandled
<1>1. LifeInv => SuccessMeansHandled
    BY DEF LifeInv, Handled
<1>2. QED
    BY <1>1, LifeInvariance, PTL

-------------------------------------------------------------------------------
(* Where every name is shorter than a key and has no NUL in it, every key  *)
(* comes back from its trip through a String, so that drain goes on to the *)
(* last entry unless a call fails.                                         *)
PlainNames == \A name \in Names : Len(name) < KeySize /\ \A i \in DOMAIN name : name[i] # Nul

LEMMA PlainComesBack ==
    ASSUME PlainNames, NEW name \in Names
    PROVE  ComesBack(ToKey(name))
<1>1. /\ name \in Seq(Bytes) /\ KeySize \in Nat /\ Len(name) \in Nat /\ Len(name) < KeySize
      /\ \A i \in 1 .. Len(name) : name[i] # Nul
    BY UprobestatsAssumption DEF PlainNames
<1>2. PICK key : key = ToKey(name)
    OBVIOUS
<1>3. key \in Keys
    BY <1>1, <1>2, KeyTyped
<1>4. \A i \in 1 .. KeySize : key[i] = IF i <= Len(name) THEN name[i] ELSE Nul
    BY <1>2 DEF ToKey
<1>5. Len(name) + 1 \in Nuls(key)
    BY <1>1, <1>3, <1>4 DEF Nuls, Keys
<1>6. PICK i \in 1 .. KeySize :
          /\ key[i] = Nul
          /\ \A j \in 1 .. i - 1 : key[j] # Nul
          /\ FromKey(key) = SubSeq(key, 1, i - 1)
    BY <1>3, <1>5, FirstNul
<1>7. i = Len(name) + 1
    <2>1. ~(i <= Len(name))
        BY <1>1, <1>4, <1>6
    <2>2. ~(Len(name) + 1 < i)
        BY <1>1, <1>4, <1>6
    <2>3. QED
        BY <1>1, <2>1, <2>2
<1>8. /\ Len(FromKey(key)) = Len(name)
      /\ \A j \in 1 .. Len(name) : FromKey(key)[j] = name[j]
    <2>1. key \in Seq(Bytes) /\ Len(key) = KeySize
        BY <1>1, <1>3 DEF Keys
    <2>2. FromKey(key) = SubSeq(key, 1, Len(name))
        BY <1>1, <1>6, <1>7
    <2>3. QED
        BY <1>1, <1>4, <2>1, <2>2
<1>9. ToKey(FromKey(key)) = key
    <2>1. \A j \in 1 .. KeySize :
              (IF j <= Len(FromKey(key)) THEN FromKey(key)[j] ELSE Nul) = key[j]
        BY <1>1, <1>4, <1>8
    <2>2. key = [j \in 1 .. KeySize |-> key[j]]
        BY <1>3 DEF Keys
    <2>3. QED
        BY <2>1, <2>2 DEF ToKey
<1>10. QED
    BY <1>2, <1>9 DEF ComesBack

LEMMA EntriesInit == Init => Entries
BY DEF Init, Entries

LEMMA EntriesNext ==
    ASSUME PlainNames, TypeRun, TypeMaps, Place, Entries, [Next]_vars
    PROVE  Entries'
<1> USE DEF Bail, pinned, resolving
<1>1. ASSUME UNCHANGED <<ifaces, stale, config>>, open => open' PROVE Entries'
    BY <1>1 DEF Entries, Asked, Filters, Task, ToKey, ToValue
<1>2. CASE PutFilter
    <2>0. PICK key, filter : filter = Filter /\ key = ToKey(filter.name)
        OBVIOUS
    <2>1. /\ Filter.name \in Names /\ key \notin DOMAIN ifaces
          /\ DOMAIN ifaces' = DOMAIN ifaces \cup {key}
          /\ ifaces'[key] = ToValue(Filter.codes)
          /\ \A x \in DOMAIN ifaces : ifaces'[x] = ifaces[x]
          /\ UNCHANGED <<stale, config, open>>
        BY <1>2, <2>0, PutTyped
    <2>2. /\ open /\ config # <<>> /\ Filtered(k) /\ f \in 1 .. Len(Probe.filters)
          /\ k \in 1 .. Len(Task.probes)
        BY <1>2 DEF PutFilter, Place, Chosen, Filtered
    <2>3. filter \in Filters /\ Filters' = Filters
        <3>1. Filter \in Filters
            BY <2>2, FiltersAre DEF Filter, Probe
        <3>2. Filters' = Filters
            BY <2>1 DEF Filters, Task
        <3>3. QED
            BY <2>0, <3>1, <3>2
    <2>4. ComesBack(key)
        BY <2>0, <2>1, PlainComesBack
    <2>5. Asked(key)'
        BY <2>0, <2>1, <2>2, <2>3 DEF Asked, ToKey, ToValue
    <2>6. ASSUME NEW x \in DOMAIN ifaces
          PROVE  ComesBack(x) /\ (x \in stale \/ Asked(x)')
        BY <2>1, <2>3 DEF Entries, Asked, ToKey, ToValue
    <2>7. QED
        BY <2>1, <2>4, <2>5, <2>6 DEF Entries
<1>3. ASSUME NEW key \in DOMAIN ifaces, Drain(key) PROVE Entries'
    <2>1. key \in DOMAIN ifaces /\ UNCHANGED config
        BY <1>3 DEF Drain
    <2>2. ToKey(FromKey(key)) = key
        BY <2>1 DEF Entries, ComesBack
    <2>3. ifaces' = [x \in DOMAIN ifaces \ {key} |-> ifaces[x]] /\ stale' = stale \ {key}
          /\ UNCHANGED open
        BY <1>3, <2>1, <2>2 DEF Drain, Remove
    <2>4. QED
        BY <2>1, <2>3 DEF Entries, Asked, Filters, Task, ToKey, ToValue
<1>4. CASE DrainDone
    <2>1. UNCHANGED <<ifaces, stale, config>> /\ (open => DOMAIN ifaces = {})
        BY <1>4 DEF DrainDone
    <2>2. QED
        BY <2>1 DEF Entries, Asked
<1>5. CASE Exit
    <2>1. UNCHANGED <<ifaces, stale>> /\ ~open
        BY <1>5 DEF Exit, Place
    <2>2. QED
        BY <2>1 DEF Entries, Asked
<1>6. CASE Crash \/ DrainFails
    BY <1>6 DEF Crash, DrainFails, Entries
<1>7. ASSUME NEW c \in Configs, ReadConfig(c) PROVE Entries'
    <2>1. UNCHANGED <<ifaces, stale>> /\ ~open
        BY <1>7 DEF ReadConfig, Place
    <2>2. QED
        BY <2>1 DEF Entries, Asked
<1>8. CASE Start \/ ConfigFails \/ CheckGuardrail \/ ResolveTask \/ TaskFails
    <2>1. UNCHANGED <<ifaces, stale, config, open>>
        BY <1>8 DEF Start, ConfigFails, CheckGuardrail, ResolveTask, TaskFails
    <2>2. QED
        BY <1>1, <2>1
<1>9. CASE OffsetsFound \/ OffsetsRetry \/ OatdumpFound \/ OffsetsMissing \/ OatdumpMissing
    <2>1. UNCHANGED <<ifaces, stale, config, open>>
        BY <1>9 DEF OffsetsFound, OffsetsRetry, OatdumpFound, OffsetsMissing, OatdumpMissing
    <2>2. QED
        BY <1>1, <2>1
<1>10. CASE OpenFails \/ FilterFails \/ ProbesResolved \/ Attach \/ AttachFails
    <2>1. UNCHANGED <<ifaces, stale, config, open>>
        BY <1>10 DEF OpenFails, FilterFails, ProbesResolved, Attach, AttachFails
    <2>2. QED
        BY <1>1, <2>1
<1>11. CASE SpawnThreads \/ Join \/ Tick
    <2>1. UNCHANGED <<ifaces, stale, config, open>>
        BY <1>11 DEF SpawnThreads, Join, Tick
    <2>2. QED
        BY <1>1, <2>1
<1>12. CASE OpenAccessor
    <2>1. UNCHANGED <<ifaces, stale, config>> /\ open' = TRUE
        BY <1>12 DEF OpenAccessor
    <2>2. QED
        BY <1>1, <2>1
<1>13. CASE KernelStep
    <2>1. UNCHANGED <<ifaces, stale, config, open>>
        BY <1>13 DEF KernelStep, BinderTransaction, OtherEvent, Emit
    <2>2. QED
        BY <1>1, <2>1
<1>14. ASSUME NEW m \in Maps, ThreadStep(m) PROVE Entries'
    BY <1>1, <1>14, ThreadFrame
<1>15. QED
    BY <1>1, <1>2, <1>3, <1>4, <1>5, <1>6, <1>7, <1>8, <1>9, <1>10, <1>11, <1>12, <1>13, <1>14
    DEF Next, MainStep, vars

LEMMA EntriesInvariance ==
    ASSUME PlainNames
    PROVE  Spec => [](LifeInv /\ Entries)
<1>1. LifeInv /\ Entries /\ [Next]_vars => Entries'
    BY EntriesNext DEF LifeInv
<1>2. QED
    BY <1>1, EntriesInit, LifeInvariance, PTL DEF Spec

(* NothingLeftBehind holds for all configs with plain names: a filter that *)
(* is in the pinned map while no accessor is alive was left by a run that  *)
(* was killed or had get_first_key or delete fail in its drain (Drop of    *)
(* BinderInterfaceMapAccessor); no other failure leaves one.  For longer   *)
(* names it is false, which is the run long_names.                         *)
THEOREM LeavesNothing ==
    ASSUME PlainNames
    PROVE  Spec => []NothingLeftBehind
<1>1. Entries => NothingLeftBehind
    BY DEF Entries, Asked, NothingLeftBehind
<1>2. QED
    BY <1>1, EntriesInvariance, PTL

(* DrainedOnDrop holds for all such configs: a drain in which no call      *)
(* fails does not give up before the map is empty, whoever wrote what it   *)
(* finds there.                                                            *)
THEOREM DrainsAll ==
    ASSUME PlainNames
    PROVE  Spec => DrainedOnDrop
<1>1. ASSUME LifeInv, Entries, [Next]_vars, open, ~open', pc' # "off", failures' = failures
      PROVE  DOMAIN ifaces' = {}
    <2>0. ~Fault
        BY <1>1 DEF Fault, LifeInv, TypeRun
    <2> USE DEF Bail, resolving
    <2>1. CASE DrainDone
        BY <1>1, <2>1 DEF DrainDone, pinned
    <2>2. ASSUME NEW key \in DOMAIN ifaces, Drain(key) PROVE FALSE
        <3>1. key \in DOMAIN ifaces
            BY <2>2
        <3>2. ToKey(FromKey(key)) = key
            BY <1>1, <3>1 DEF Entries, ComesBack
        <3>3. QED
            BY <1>1, <2>2, <3>1, <3>2 DEF Drain
    <2>3. CASE Exit \/ Crash
        BY <1>1, <2>3 DEF Exit, Crash, Gone
    <2>4. CASE Start \/ (\E c \in Configs : ReadConfig(c)) \/ ConfigFails \/ CheckGuardrail
               \/ ResolveTask \/ TaskFails \/ OffsetsFound \/ OffsetsRetry \/ OatdumpFound
               \/ OffsetsMissing \/ OatdumpMissing \/ OpenAccessor
        BY <1>1, <2>4 DEF Start, ReadConfig, ConfigFails, CheckGuardrail, ResolveTask, TaskFails,
                          OffsetsFound, OffsetsRetry, OatdumpFound, OffsetsMissing,
                          OatdumpMissing, OpenAccessor
    <2>5. CASE OpenFails \/ PutFilter \/ FilterFails \/ ProbesResolved \/ Attach \/ AttachFails
               \/ SpawnThreads \/ Join \/ Tick \/ KernelStep
        BY <1>1, <2>5 DEF OpenFails, PutFilter, FilterFails, ProbesResolved, Attach, AttachFails,
                          SpawnThreads, Join, Tick, KernelStep, BinderTransaction, OtherEvent,
                          Emit
    <2>6. ASSUME NEW m \in Maps, ThreadStep(m) PROVE FALSE
        BY <1>1, <2>6, ThreadFrame
    <2>7. ~DrainFails
        BY <2>0 DEF DrainFails
    <2>8. QED
        BY <1>1, <2>1, <2>2, <2>3, <2>4, <2>5, <2>6, <2>7 DEF Next, MainStep, vars
<1>2. LifeInv /\ Entries /\ [Next]_vars =>
          [open /\ ~open' /\ pc' # "off" /\ failures' = failures => DOMAIN ifaces' = {}]_vars
    BY <1>1
<1>3. QED
    BY <1>2, EntriesInvariance, PTL DEF Spec, DrainedOnDrop

(* The codes of a value are codes of its filter.                           *)
LEMMA ValueOfFilter ==
    ASSUME NEW codes \in Seq(Int), NEW i \in DOMAIN ToValue(codes)
    PROVE  i \in DOMAIN codes /\ ToValue(codes)[i] = codes[i]
<1> DEFINE last == Min(Len(codes), CodeSlots)
<1>1. CodeSlots \in Nat \ {0} /\ Len(codes) \in Nat
    BY UprobestatsAssumption
<1>2. last \in Nat /\ last <= Len(codes)
    BY <1>1 DEF Min
<1> HIDE DEF last
<1>3. ToValue(codes) = [j \in 1 .. last |-> codes[j]]
    <2>1. SubSeq(codes, 1, last) = [j \in 1 .. last |-> codes[j]]
        BY <1>2
    <2>2. QED
        BY <2>1 DEF ToValue, last
<1>4. i \in 1 .. last /\ i \in 1 .. Len(codes)
    BY <1>1, <1>2, <1>3
<1>5. QED
    BY <1>3, <1>4

(* NoForeignEvents holds for all such configs: the codes that Binder.c     *)
(* finds under a key are those of a filter of the task, or the key was     *)
(* left by a run that was killed or had a call fail in its drain.          *)
THEOREM NoneForeign ==
    ASSUME PlainNames
    PROVE  Spec => NoForeignEvents
<1> DEFINE Known(event) ==
        \/ event.key \in stale
        \/ \E filter \in Filters :
              /\ ToKey(filter.name) = event.key
              /\ \E i \in DOMAIN filter.codes : filter.codes[i] = event.code
<1>1. ASSUME LifeInv, Entries, NEW descriptor \in Descriptors, NEW code \in Codes,
             BinderTransaction(descriptor, code)
      PROVE  Known(rings'[BinderRing][Len(rings'[BinderRing])])
    <2>0. PICK key : key = Recorded(descriptor)
        OBVIOUS
    <2>1. /\ rings' = [rings EXCEPT ![BinderRing] = Append(@, [key |-> key, code |-> code])]
          /\ key \in DOMAIN ifaces /\ Matches(ifaces[key], code)
        BY <1>1, <2>0 DEF BinderTransaction, Emit
    <2>2. rings'[BinderRing][Len(rings'[BinderRing])] = [key |-> key, code |-> code]
        <3>1. BinderRing \in Maps /\ rings[BinderRing] \in Seq(Event)
            BY <1>1, UprobestatsAssumption DEF LifeInv, TypeMaps
        <3>2. rings'[BinderRing] = Append(rings[BinderRing], [key |-> key, code |-> code])
            BY <1>1, <2>1, <3>1 DEF LifeInv, TypeMaps
        <3>3. QED
            BY <3>1, <3>2
    <2>3. key \in stale \/ Asked(key)
        BY <1>1, <2>1 DEF Entries
    <2>4. ASSUME Asked(key)
          PROVE  \E filter \in Filters :
                    /\ ToKey(filter.name) = key
                    /\ \E i \in DOMAIN filter.codes : filter.codes[i] = code
        <3>1. PICK filter \in Filters :
                  filter.name \in Names /\ ToKey(filter.name) = key
                  /\ ifaces[key] = ToValue(filter.codes)
            BY <2>4 DEF Asked
        <3>2. config # <<>> /\ TypeRun
            BY <1>1, <2>4 DEF Asked, LifeInv, Place
        <3>3. filter.codes \in Seq(Int)
            BY <3>1, <3>2, FiltersAre, TaskTyped
        <3>4. PICK i \in DOMAIN ToValue(filter.codes) : ToValue(filter.codes)[i] = code
            BY <2>1, <3>1 DEF Matches
        <3>5. i \in DOMAIN filter.codes /\ filter.codes[i] = code
            BY <3>3, <3>4, ValueOfFilter
        <3>6. QED
            BY <3>1, <3>5
    <2>5. QED
        BY <2>2, <2>3, <2>4
<1>2. ASSUME LifeInv, [Next]_vars,
             \A descriptor \in Descriptors, code \in Codes : ~BinderTransaction(descriptor, code)
      PROVE  ~(Len(rings'[BinderRing]) > Len(rings[BinderRing]))
    <2>0. BinderRing \in Maps /\ Len(rings[BinderRing]) \in Nat
        BY <1>2, UprobestatsAssumption DEF LifeInv, TypeMaps
    <2>1. ASSUME rings'[BinderRing] = rings[BinderRing]
          PROVE  ~(Len(rings'[BinderRing]) > Len(rings[BinderRing]))
        BY <2>0, <2>1
    <2>2. ASSUME NEW m \in Maps, OtherEvent(m) PROVE rings'[BinderRing] = rings[BinderRing]
        BY <1>2, <2>0, <2>2 DEF OtherEvent, Emit, LifeInv, TypeMaps
    <2>3. ASSUME NEW m \in Maps, ThreadStep(m)
          PROVE  ~(Len(rings'[BinderRing]) > Len(rings[BinderRing]))
        <3>1. CASE UNCHANGED rings
            BY <2>1, <3>1
        <3>2. ASSUME NEW n \in 0 .. Len(rings[m]), rings' = [rings EXCEPT ![m] = Behind(n, @)]
              PROVE  ~(Len(rings'[BinderRing]) > Len(rings[BinderRing]))
            <4>1. CASE m # BinderRing
                BY <1>2, <2>0, <2>1, <3>2, <4>1 DEF LifeInv, TypeMaps
            <4>2. CASE m = BinderRing
                <5>1. rings[m] \in Seq(Event) /\ rings'[m] = SubSeq(rings[m], n + 1, Len(rings[m]))
                    BY <1>2, <3>2 DEF LifeInv, TypeMaps, Behind
                <5>2. Len(rings'[m]) = Len(rings[m]) - n
                    BY <5>1
                <5>3. QED
                    BY <2>0, <4>2, <5>2
            <4>3. QED
                BY <4>1, <4>2
        <3>3. QED
            BY <2>3, <3>1, <3>2, ThreadRings
    <2>4. CASE UNCHANGED rings
        BY <2>1, <2>4
    <2>5. QED
        BY <1>2, <2>1, <2>2, <2>3, <2>4, MainRings
        DEF Next, Start, Tick, Crash, KernelStep, vars, pinned
<1>3. LifeInv /\ Entries /\ [Next]_vars =>
          [ Len(rings'[BinderRing]) > Len(rings[BinderRing]) =>
              Known(rings'[BinderRing][Len(rings'[BinderRing])]) ]_vars
    BY <1>1, <1>2
<1>4. QED
    BY <1>3, EntriesInvariance, PTL DEF Spec, NoForeignEvents

===============================================================================
