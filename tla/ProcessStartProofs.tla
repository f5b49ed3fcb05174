--------------------------- MODULE ProcessStartProofs ---------------------------
(***************************************************************************)
(* What a wait for a process start resolves to, for any number of names,   *)
(* starts, runs, kills and failures and any size of the ring.              *)
(***************************************************************************)
EXTENDS ProcessStart, TLAPS

Looping == {"timer", "poll", "batch"}

(* Each place has its own data, and only one kind of wait is ever used.    *)
Tidy ==
    /\ pc = "recv" => observer
    /\ pc \in Looping => ~observer
    /\ pc # "recv" => inflight = <<>> /\ inbox = <<>>
    /\ pc # "batch" => batch = <<>>
    /\ pc # "running" => result = 0
    /\ observer => ring = <<>> /\ batch = <<>>

(* Records leave the ring in the order of the starts, behind everything    *)
(* that was resolved.                                                      *)
Ordered ==
    /\ \A i, j \in DOMAIN ring : i < j => ring[i] < ring[j]
    /\ \A i, j \in DOMAIN batch : i < j => batch[i] < batch[j]
    /\ \A i \in DOMAIN batch, j \in DOMAIN ring : batch[i] < ring[j]
    /\ \A i \in DOMAIN results :
          /\ \A j \in DOMAIN ring : results[i] < ring[j]
          /\ \A j \in DOMAIN batch : results[i] < batch[j]
          /\ pc = "recv" => results[i] <= mark
    /\ ResolvedInOrder

(* What the activity manager has still to report are the latest starts,    *)
(* and what is in the channel begins with the first that fits.             *)
Observing ==
    pc = "recv" =>
        /\ mark <= looked
        /\ Len(inflight) = Len(starts) - looked
        /\ \A j \in DOMAIN inflight : inflight[j] = looked + j
        /\ \A j \in DOMAIN inbox : inbox[j] \in mark + 1 .. looked /\ NameMatches(inbox[j])
        /\ \A i \in mark + 1 .. looked : NameMatches(i) => inbox # <<>> /\ inbox[1] <= i

(* A start that fits is still to be read, or cannot be taken; what is in   *)
(* the ring came before the wait or after the last look.                   *)
Polling ==
    pc \in Looping =>
        /\ \A i \in mark + 1 .. Len(starts) :
              NameMatches(i) =>
                  \/ starts[i].pid <= 0
                  \/ i \in dropped
                  \/ \E j \in DOMAIN ring : ring[j] = i
                  \/ \E j \in DOMAIN batch : batch[j] = i
        /\ \A j \in DOMAIN ring : ring[j] > mark => ring[j] > looked

SafeInv == Tidy /\ Ordered /\ Observing /\ Polling /\ FirstStart /\ TimeoutMeansNone

-------------------------------------------------------------------------------
(* Sequences of starts, while more processes start.                        *)

LEMMA MoreStarts ==
    ASSUME NEW n \in Nat, NEW s \in Seq(1 .. n)
    PROVE  s \in Seq(1 .. n + 1)
OBVIOUS

LEMMA AppendLast ==
    ASSUME NEW S, NEW s \in Seq(S), NEW e \in S
    PROVE  /\ Append(s, e) \in Seq(S)
           /\ DOMAIN Append(s, e) = 1 .. Len(s) + 1
           /\ Len(Append(s, e)) = Len(s) + 1
           /\ \A i \in DOMAIN s : i \in DOMAIN Append(s, e) /\ Append(s, e)[i] = s[i]
           /\ Append(s, e)[Len(s) + 1] = e
OBVIOUS

LEMMA TailShifts ==
    ASSUME NEW S, NEW s \in Seq(S), s # <<>>
    PROVE  /\ Tail(s) \in Seq(S) /\ Head(s) \in S
           /\ Head(s) = s[1] /\ 1 \in DOMAIN s
           /\ Len(Tail(s)) = Len(s) - 1 /\ Len(s) \in Nat \ {0}
           /\ DOMAIN Tail(s) = 1 .. Len(s) - 1 /\ DOMAIN s = 1 .. Len(s)
           /\ \A i \in DOMAIN Tail(s) : Tail(s)[i] = s[i + 1] /\ i + 1 \in DOMAIN s
OBVIOUS

LEMMA CountsUp ==
    ASSUME NEW m \in Nat, NEW c \in 0 .. m, c < m
    PROVE  c + 1 \in 0 .. m
OBVIOUS

LEMMA FaultCounted == TypeOK /\ Fault => failures' \in 0 .. MaxFailures
BY CountsUp, ProcessStartAssumption DEF TypeOK, Fault

-------------------------------------------------------------------------------
LEMMA TypeInit == Init => TypeOK
BY ProcessStartAssumption DEF Init, Idle, TypeOK, Ids

LEMMA TypeNext ==
    ASSUME TypeOK, [Next]_vars
    PROVE  TypeOK'
<1> USE ProcessStartAssumption DEF TypeOK, Ids, Waiting, local, bounds
<1>1. CASE UNCHANGED vars
    BY <1>1 DEF vars
<1>2. ASSUME NEW name \in Names, NEW pid \in Pids, Launch(name, pid) PROVE TypeOK'
    <2> DEFINE new == [name |-> name, pid |-> pid]
    <2> DEFINE n == Len(starts)
    <2>1. new \in [name : Names, pid : Pids]
        OBVIOUS
    <2>2. starts' = Append(starts, new) /\ starts' \in Seq([name : Names, pid : Pids])
          /\ Len(starts') = n + 1 /\ n \in Nat
        BY <1>2, <2>1 DEF Launch
    <2>3. /\ ring \in Seq(1 .. n + 1) /\ inflight \in Seq(1 .. n + 1)
          /\ inbox \in Seq(1 .. n + 1) /\ batch \in Seq(1 .. n + 1)
          /\ results \in Seq(1 .. n + 1)
        BY <2>2, MoreStarts
    <2>4. n + 1 \in 1 .. n + 1
        BY <2>2
    <2>5. ring' \in Seq(1 .. n + 1) /\ Len(ring') <= RingCap
        <3>1. CASE ring' = ring
            BY <3>1, <2>3
        <3>2. CASE Len(ring) < RingCap /\ ring' = Append(ring, n + 1)
            BY <3>2, <2>3, <2>4, AppendLast
        <3>3. QED
            BY <1>2, <3>1, <3>2 DEF Launch
    <2>6. inflight' \in Seq(1 .. n + 1)
        BY <1>2, <2>3, <2>4, AppendLast DEF Launch
    <2>7. dropped' \subseteq 1 .. n + 1
        <3>1. dropped' = dropped \/ dropped' = dropped \cup {n + 1}
            BY <1>2 DEF Launch
        <3>2. dropped \subseteq 1 .. n
            OBVIOUS
        <3>3. 1 .. n \subseteq 1 .. n + 1
            BY <2>2
        <3>4. QED
            BY <3>1, <3>2, <3>3, <2>4
    <2>8. UNCHANGED <<observer, pc, target, inbox, batch, left, result, mark, looked, results,
                      runs, crashes, failures>>
        BY <1>2 DEF Launch
    <2>9. result \in 0 .. n + 1 /\ mark \in 0 .. n + 1 /\ looked \in 0 .. n + 1
        BY <2>2
    <2>10. QED
        BY <2>2, <2>3, <2>5, <2>6, <2>7, <2>8, <2>9
<1>3. CASE Tick
    BY <1>3 DEF Tick
<1>4. ASSUME NEW name \in Names \cup {AnyName}, Observe(name) \/ AttachProgram(name)
      PROVE TypeOK'
    <2>1. Len(starts) \in Nat
        OBVIOUS
    <2>2. runs' \in 0 .. MaxRuns /\ left' \in -1 .. Duration
        <3>1. runs' = runs + 1 /\ runs < MaxRuns /\ left' = Duration
            BY <1>4 DEF Observe, AttachProgram, Listen
        <3>2. runs' \in 0 .. MaxRuns
            BY <3>1, CountsUp
        <3>3. Duration \in -1 .. Duration
            OBVIOUS
        <3>4. QED
            BY <3>1, <3>2, <3>3
    <2>3. mark' = Len(starts) /\ looked' = Len(starts)
        BY <1>4 DEF Observe, AttachProgram, Listen
    <2>4. pc' \in Waiting /\ target' \in Names \cup {AnyName}
        BY <1>4 DEF Observe, AttachProgram, Listen
    <2>5. UNCHANGED <<observer, starts, ring, inflight, inbox, batch, result, dropped, results,
                      crashes, failures>>
        BY <1>4 DEF Observe, AttachProgram, Listen
    <2>6. QED
        BY <2>1, <2>2, <2>3, <2>4, <2>5
<1>5. CASE ObserveFails \/ AttachFails
    <2>1. runs' \in 0 .. MaxRuns /\ failures' \in 0 .. MaxFailures
        <3>1. runs' = runs + 1 /\ runs < MaxRuns /\ Fault
            BY <1>5 DEF ObserveFails, AttachFails, NotListening
        <3>2. runs' \in 0 .. MaxRuns
            BY <3>1, CountsUp
        <3>3. QED
            BY <3>1, <3>2, FaultCounted
    <2>2. UNCHANGED <<observer, starts, ring, pc, local, dropped, results, crashes>>
        BY <1>5 DEF ObserveFails, AttachFails, NotListening
    <2>3. QED
        BY <2>1, <2>2
<1>6. CASE OnProcessStarted
    <2>1. Tail(inflight) \in Seq(1 .. Len(starts)) /\ Head(inflight) \in 1 .. Len(starts)
        BY <1>6, TailShifts DEF OnProcessStarted
    <2>2. inbox' \in Seq(1 .. Len(starts))
        <3>1. inbox' \in {inbox, Append(inbox, Head(inflight))}
            BY <1>6 DEF OnProcessStarted
        <3>2. Append(inbox, Head(inflight)) \in Seq(1 .. Len(starts))
            BY <2>1, AppendLast
        <3>3. QED
            BY <3>1, <3>2
    <2>3. inflight' = Tail(inflight) /\ looked' = Head(inflight)
        BY <1>6 DEF OnProcessStarted
    <2>4. UNCHANGED <<observer, starts, ring, pc, target, batch, left, result, mark, dropped,
                      results, runs, crashes, failures>>
        BY <1>6 DEF OnProcessStarted
    <2>5. QED
        BY SMTT(30), <2>1, <2>2, <2>3, <2>4
<1>7. CASE Receive
    <2>1. Head(inbox) \in 1 .. Len(starts)
        BY <1>7, TailShifts DEF Receive
    <2>2. Append(results, Head(inbox)) \in Seq(1 .. Len(starts))
        BY <2>1, AppendLast
    <2>3. result' \in 0 .. Len(starts) /\ results' \in Seq(1 .. Len(starts))
        <3>1. result' = Head(inbox) /\ results' \in {results, Append(results, Head(inbox))}
            BY <1>7 DEF Receive, WaitOver
        <3>2. result' \in 0 .. Len(starts)
            BY <3>1, <2>1
        <3>3. results' \in Seq(1 .. Len(starts))
            BY <3>1, <2>2
        <3>4. QED
            BY <3>2, <3>3
    <2>4. /\ pc' = "running" /\ inflight' = <<>> /\ inbox' = <<>> /\ batch' = <<>>
          /\ UNCHANGED <<observer, starts, ring, target, left, mark, dropped, runs, crashes,
                        looked, failures>>
        BY <1>7 DEF Receive, WaitOver
    <2>5. QED
        BY <2>3, <2>4
<1>8. CASE TakeRecord
    <2>1. Head(batch) \in 1 .. Len(starts)
        BY <1>8, TailShifts DEF TakeRecord
    <2>2. Append(results, Head(batch)) \in Seq(1 .. Len(starts))
        BY <2>1, AppendLast
    <2>3. result' \in 0 .. Len(starts) /\ results' \in Seq(1 .. Len(starts))
        <3>1. result' = Head(batch) /\ results' \in {results, Append(results, Head(batch))}
            BY <1>8 DEF TakeRecord, WaitOver
        <3>2. result' \in 0 .. Len(starts)
            BY <3>1, <2>1
        <3>3. results' \in Seq(1 .. Len(starts))
            BY <3>1, <2>2
        <3>4. QED
            BY <3>2, <3>3
    <2>4. /\ pc' = "running" /\ inflight' = <<>> /\ inbox' = <<>> /\ batch' = <<>>
          /\ UNCHANGED <<observer, starts, ring, target, left, mark, dropped, runs, crashes,
                        looked, failures>>
        BY <1>8 DEF TakeRecord, WaitOver
    <2>5. QED
        BY <2>3, <2>4
<1>9. CASE ReceiveTimeout \/ TimerOut \/ PollFails
    <2>1. failures' \in 0 .. MaxFailures
        <3>1. failures' = failures \/ Fault
            BY <1>9 DEF ReceiveTimeout, TimerOut, PollFails
        <3>2. QED
            BY <3>1, FaultCounted
    <2>2. /\ result' = 0 /\ inflight' = <<>> /\ inbox' = <<>> /\ batch' = <<>>
          /\ UNCHANGED <<observer, starts, ring, target, left, mark, looked, dropped, results,
                        runs, crashes>>
        BY <1>9 DEF ReceiveTimeout, TimerOut, PollFails, WaitOver
    <2>3. pc' \in {"timeout", "failed"}
        BY <1>9 DEF ReceiveTimeout, TimerOut, PollFails, WaitOver
    <2>4. QED
        BY <2>1, <2>2, <2>3
<1>10. CASE CheckTimer \/ Poll \/ BatchDone
    <2>1. pc' \in Waiting /\ looked' \in 0 .. Len(starts)
        <3>1. pc' \in Waiting /\ looked' \in {looked, Len(starts)}
            BY <1>10 DEF CheckTimer, Poll, BatchDone, Goto
        <3>2. Len(starts) \in 0 .. Len(starts)
            OBVIOUS
        <3>3. QED
            BY <3>1, <3>2
    <2>2. /\ batch' \in Seq(1 .. Len(starts)) /\ ring' \in Seq(1 .. Len(starts))
          /\ Len(ring') <= RingCap
        <3>1. CASE CheckTimer \/ BatchDone
            BY <3>1 DEF CheckTimer, BatchDone, Goto
        <3>2. CASE Poll
            BY <3>2 DEF Poll, Goto
        <3>3. QED
            BY <1>10, <3>1, <3>2
    <2>3. UNCHANGED <<observer, starts, target, inflight, inbox, left, result, mark, dropped,
                      results, runs, crashes, failures>>
        BY <1>10 DEF CheckTimer, Poll, BatchDone, Goto
    <2>4. QED
        BY <2>1, <2>2, <2>3
<1>11. CASE SkipRecord
    <2>1. batch' \in Seq(1 .. Len(starts))
        BY <1>11, TailShifts DEF SkipRecord
    <2>2. UNCHANGED <<observer, starts, ring, pc, target, inflight, inbox, left, result, mark,
                      looked, dropped, results, runs, crashes, failures>>
        BY <1>11 DEF SkipRecord
    <2>3. QED
        BY <2>1, <2>2
<1>12. CASE Exit \/ Crash
    <2>1. crashes' \in 0 .. MaxCrashes
        BY SMTT(30), <1>12 DEF Exit, Crash, Gone
    <2>2. /\ pc' = "off" /\ target' = AnyName
          /\ inflight' = <<>> /\ inbox' = <<>> /\ batch' = <<>>
          /\ left' = 0 /\ result' = 0 /\ mark' = 0 /\ looked' = 0
          /\ UNCHANGED <<observer, starts, ring, dropped, results, runs, failures>>
        BY <1>12 DEF Exit, Crash, Gone
    <2>3. QED
        BY <2>1, <2>2
<1>13. QED
    BY <1>1, <1>2, <1>3, <1>4, <1>5, <1>6, <1>7, <1>8, <1>9, <1>10, <1>11, <1>12
    DEF Next, WaitStep

(* Every variable keeps its type: no start that has not happened is        *)
(* waiting, reported or resolved, and the ring never exceeds its size.     *)
THEOREM TypeCorrect == Spec => []TypeOK
BY TypeInit, TypeNext, PTL DEF Spec

-------------------------------------------------------------------------------
LEMMA SafeInit == Init => SafeInv
BY DEF Init, Idle, SafeInv, Tidy, Ordered, Observing, Polling, FirstStart, TimeoutMeansNone,
       ResolvedInOrder, Looping

(* A step that moves no start.                                             *)
LEMMA SafeKept ==
    ASSUME SafeInv,
           UNCHANGED <<observer, starts, ring, pc, target, inflight, inbox, batch, result, mark,
                       looked, dropped, results>>
    PROVE  SafeInv'
BY DEF SafeInv, Tidy, Ordered, Observing, Polling, FirstStart, TimeoutMeansNone,
       ResolvedInOrder, NameMatches

(* One more start: it comes behind all others wherever it is put.          *)
LEMMA SafeLaunch ==
    ASSUME TypeOK, SafeInv, NEW name \in Names, NEW pid \in Pids, Launch(name, pid)
    PROVE  SafeInv'
<1> DEFINE new == [name |-> name, pid |-> pid]
<1> DEFINE n == Len(starts)
<1>1. /\ starts' = Append(starts, new) /\ n \in Nat /\ Len(starts') = n + 1
      /\ \A i \in 1 .. n : starts'[i] = starts[i]
    BY AppendLast DEF Launch, TypeOK
<1>2. UNCHANGED <<observer, pc, target, inbox, batch, left, result, mark, looked, results>>
    BY DEF Launch
<1>3. \A i \in 1 .. n : NameMatches(i)' <=> NameMatches(i)
    BY <1>1, <1>2 DEF NameMatches
<1>4. /\ mark \in 0 .. n /\ looked \in 0 .. n /\ result \in 0 .. n
      /\ \A i \in DOMAIN results : results[i] \in 1 .. n
      /\ \A i \in DOMAIN batch : batch[i] \in 1 .. n
      /\ \A i \in DOMAIN inbox : inbox[i] \in 1 .. n
      /\ \A i \in DOMAIN ring : ring[i] \in 1 .. n
    <2>1. mark \in 0 .. n /\ looked \in 0 .. n /\ result \in 0 .. n
        BY DEF TypeOK
    <2>2. results \in Seq(1 .. n) /\ batch \in Seq(1 .. n) /\ inbox \in Seq(1 .. n)
          /\ ring \in Seq(1 .. n)
        BY DEF TypeOK, Ids
    <2>3. \A s \in Seq(1 .. n) : \A i \in DOMAIN s : s[i] \in 1 .. n
        OBVIOUS
    <2>4. QED
        BY <2>1, <2>2, <2>3
<1>5. \/ ring' = ring
      \/ /\ ~observer /\ ring' = Append(ring, n + 1)
         /\ DOMAIN ring' = 1 .. Len(ring) + 1 /\ DOMAIN ring = 1 .. Len(ring)
         /\ Len(ring) \in Nat
         /\ \A i \in DOMAIN ring : ring'[i] = ring[i]
         /\ ring'[Len(ring) + 1] = n + 1
    <2>1. ring \in Seq(Int) /\ n + 1 \in Int
        BY <1>1 DEF TypeOK, Ids
    <2>2. ring' = ring \/ (~observer /\ ring' = Append(ring, n + 1))
        BY DEF Launch
    <2>3. DOMAIN ring = 1 .. Len(ring) /\ Len(ring) \in Nat
        BY <2>1
    <2>4. QED
        BY <2>1, <2>2, <2>3, AppendLast
<1>6. dropped \subseteq dropped'
    BY DEF Launch
<1>7. Tidy'
    BY <1>2, <1>5 DEF SafeInv, Tidy, Launch, Waiting, Looping
<1>8. Ordered'
    <2>1. CASE ring' = ring
        BY <2>1, <1>2 DEF SafeInv, Ordered, ResolvedInOrder
    <2>2. CASE ring' # ring
        <3>1. ASSUME NEW j \in DOMAIN ring'
              PROVE  \/ j \in DOMAIN ring /\ ring'[j] = ring[j]
                     \/ j = Len(ring) + 1 /\ ring'[j] = n + 1
            BY <2>2, <1>5
        <3>2. ASSUME NEW i \in DOMAIN ring', NEW j \in DOMAIN ring', i < j
              PROVE  ring'[i] < ring'[j]
            <4>1. i \in DOMAIN ring /\ ring'[i] = ring[i]
                BY <3>2, <2>2, <1>5
            <4>2. CASE j \in DOMAIN ring
                BY <3>1, <3>2, <4>1, <4>2, <2>2, <1>5 DEF SafeInv, Ordered
            <4>3. CASE j = Len(ring) + 1
                <5>1. ring[i] \in 1 .. n /\ ring'[j] = n + 1
                    BY <4>1, <4>3, <2>2, <1>4, <1>5
                <5>2. QED
                    BY <4>1, <5>1, <1>1
            <4>4. QED
                BY <3>1, <4>2, <4>3
        <3>3. ASSUME NEW i \in DOMAIN batch, NEW j \in DOMAIN ring'
              PROVE  batch[i] < ring'[j]
            <4>1. batch[i] \in 1 .. n
                BY <1>4
            <4>2. QED
                BY <3>1, <4>1, <1>1 DEF SafeInv, Ordered
        <3>4. ASSUME NEW i \in DOMAIN results, NEW j \in DOMAIN ring'
              PROVE  results[i] < ring'[j]
            <4>1. results[i] \in 1 .. n
                BY <1>4
            <4>2. QED
                BY <3>1, <4>1, <1>1 DEF SafeInv, Ordered
        <3>5. QED
            BY <3>2, <3>3, <3>4, <1>2 DEF SafeInv, Ordered, ResolvedInOrder
    <2>3. QED
        BY <2>1, <2>2
<1>9. Observing'
    <2> SUFFICES ASSUME pc = "recv" PROVE Observing'
        BY <1>2 DEF Observing
    <2>1. inflight' = Append(inflight, n + 1)
        BY DEF SafeInv, Tidy, Launch, Waiting
    <2>2. Len(inflight') = Len(starts') - looked'
          /\ \A j \in DOMAIN inflight' : inflight'[j] = looked' + j
        <3>1. inflight \in Seq(Int) /\ n + 1 \in Int
            BY <1>1 DEF TypeOK, Ids
        <3>2. /\ DOMAIN inflight' = 1 .. Len(inflight) + 1 /\ Len(inflight) \in Nat
              /\ DOMAIN inflight = 1 .. Len(inflight)
              /\ Len(inflight') = Len(inflight) + 1
              /\ \A j \in DOMAIN inflight : inflight'[j] = inflight[j]
              /\ inflight'[Len(inflight) + 1] = n + 1
            BY <2>1, <3>1, AppendLast
        <3>3. Len(inflight) = n - looked /\ \A j \in DOMAIN inflight : inflight[j] = looked + j
            BY DEF SafeInv, Observing
        <3>4. \A j \in DOMAIN inflight' : j \in DOMAIN inflight \/ j = Len(inflight) + 1
            BY <3>2
        <3>5. n + 1 = looked + (Len(inflight) + 1) /\ Len(starts') - looked = Len(inflight) + 1
            BY <3>3, <1>1, <1>4
        <3>6. QED
            BY <3>2, <3>3, <3>4, <3>5, <1>2
    <2>3. QED
        BY <2>2, <1>2, <1>3, <1>4 DEF SafeInv, Observing
<1>10. Polling'
    <2> SUFFICES ASSUME pc \in Looping PROVE Polling'
        BY <1>2 DEF Polling
    <2>1. n + 1 \in dropped' \/ \E j \in DOMAIN ring' : ring'[j] = n + 1
        <3>1. ~observer /\ pc # "off"
            BY DEF SafeInv, Tidy, Looping
        <3>2. CASE Len(ring) < RingCap
            <4>1. ring' = Append(ring, n + 1)
                BY <3>1, <3>2 DEF Launch
            <4>2. ring \in Seq(Int) /\ n + 1 \in Int
                BY <1>1 DEF TypeOK, Ids
            <4>3. Len(ring) + 1 \in DOMAIN ring' /\ ring'[Len(ring) + 1] = n + 1
                BY <4>1, <4>2, AppendLast
            <4>4. QED
                BY <4>3
        <3>3. CASE ~(Len(ring) < RingCap)
            <4>1. Len(ring) >= RingCap
                BY <3>3, ProcessStartAssumption DEF TypeOK
            <4>2. QED
                BY <3>1, <4>1 DEF Launch
        <3>4. QED
            BY <3>2, <3>3
    <2>2. \A i \in 1 .. n : (\E j \in DOMAIN ring : ring[j] = i)
                              => \E j \in DOMAIN ring' : ring'[j] = i
        BY <1>5
    <2>3. \A j \in DOMAIN ring' : ring'[j] > mark => ring'[j] > looked
        BY <1>4, <1>5 DEF SafeInv, Polling
    <2>4. QED
        BY <2>1, <2>2, <2>3, <1>1, <1>2, <1>3, <1>4, <1>6 DEF SafeInv, Polling
<1>11. FirstStart'
    BY <1>1, <1>2, <1>3, <1>4 DEF SafeInv, FirstStart
<1>12. TimeoutMeansNone'
    BY <1>1, <1>2, <1>3, <1>4, <1>6 DEF SafeInv, TimeoutMeansNone
<1>13. QED
    BY <1>7, <1>8, <1>9, <1>10, <1>11, <1>12 DEF SafeInv

(* The oldest start that was not reported yet is reported.                 *)
LEMMA SafeReport ==
    ASSUME TypeOK, SafeInv, OnProcessStarted
    PROVE  SafeInv'
<1>1. /\ pc = "recv" /\ inflight # <<>> /\ inflight' = Tail(inflight)
      /\ looked' = Head(inflight)
      /\ UNCHANGED <<observer, starts, ring, pc, target, batch, result, mark, dropped, results>>
    BY DEF OnProcessStarted
<1>2. /\ Head(inflight) = inflight[1] /\ 1 \in DOMAIN inflight
      /\ Len(inflight') = Len(inflight) - 1
      /\ \A j \in DOMAIN inflight' : inflight'[j] = inflight[j + 1] /\ j + 1 \in DOMAIN inflight
      /\ DOMAIN inflight' = 1 .. Len(inflight) - 1 /\ Len(inflight) \in Nat \ {0}
    BY <1>1, TailShifts DEF TypeOK
<1>3. looked' = looked + 1 /\ looked \in Nat /\ mark \in Nat
    <2>1. looked \in Nat /\ mark \in Nat
        BY DEF TypeOK
    <2>2. inflight[1] = looked + 1
        BY <1>1, <1>2 DEF SafeInv, Observing
    <2>3. QED
        BY <1>1, <1>2, <2>1, <2>2
<1>4. /\ Len(inflight') = Len(starts') - looked'
      /\ \A j \in DOMAIN inflight' : inflight'[j] = looked' + j
    <2>1. Len(starts) \in Nat
        BY DEF TypeOK
    <2>2. /\ Len(inflight) = Len(starts) - looked
          /\ \A j \in DOMAIN inflight : inflight[j] = looked + j
        BY <1>1 DEF SafeInv, Observing
    <2>3. Len(inflight') = Len(starts') - looked'
        BY <1>1, <1>2, <1>3, <2>1, <2>2
    <2>4. ASSUME NEW j \in DOMAIN inflight' PROVE inflight'[j] = looked' + j
        BY <1>2, <1>3, <2>2
    <2>5. QED
        BY <2>3, <2>4
<1>5. Observing'
    <2>1. mark' <= looked'
        BY <1>1, <1>3 DEF SafeInv, Observing
    <2>2. \A i \in mark + 1 .. looked + 1 : i \in mark + 1 .. looked \/ i = looked + 1
        BY <1>3
    <2>3. looked + 1 \in mark + 1 .. looked + 1 /\ looked + 1 \in Int
        BY <1>1, <1>3 DEF SafeInv, Observing
    <2>4. CASE ~NameMatches(looked + 1)
        <3>1. inbox' = inbox
            BY <1>1, <1>3, <2>4 DEF OnProcessStarted
        <3>2. \A i \in mark + 1 .. looked + 1 : NameMatches(i) => inbox # <<>> /\ inbox[1] <= i
            BY <1>1, <2>2, <2>4 DEF SafeInv, Observing
        <3>3. \A j \in DOMAIN inbox : inbox[j] \in mark + 1 .. looked + 1 /\ NameMatches(inbox[j])
            BY <1>1, <1>3 DEF SafeInv, Observing
        <3>4. QED
            BY <1>1, <1>3, <1>4, <2>1, <3>1, <3>2, <3>3 DEF Observing, NameMatches
    <2>5. CASE NameMatches(looked + 1)
        <3>1. inbox' = Append(inbox, looked + 1)
            BY <1>1, <1>3, <2>5 DEF OnProcessStarted
        <3>2. inbox \in Seq(Int)
            BY DEF TypeOK, Ids
        <3>3. /\ DOMAIN inbox' = 1 .. Len(inbox) + 1 /\ DOMAIN inbox = 1 .. Len(inbox)
              /\ Len(inbox) \in Nat
              /\ \A i \in DOMAIN inbox : inbox'[i] = inbox[i]
              /\ inbox'[Len(inbox) + 1] = looked + 1 /\ inbox' # <<>>
            BY <2>3, <3>1, <3>2, AppendLast
        <3>4. ASSUME NEW j \in DOMAIN inbox'
              PROVE  inbox'[j] \in mark + 1 .. looked + 1 /\ NameMatches(inbox'[j])
            <4>1. CASE j \in DOMAIN inbox
                BY <1>1, <1>3, <3>3, <4>1 DEF SafeInv, Observing
            <4>2. CASE j = Len(inbox) + 1
                BY <2>3, <2>5, <3>3, <4>2
            <4>3. QED
                BY <3>3, <4>1, <4>2
        <3>5. ASSUME NEW i \in mark + 1 .. looked + 1, NameMatches(i)
              PROVE  inbox'[1] <= i
            <4>1. CASE inbox = <<>>
                BY <1>1, <2>2, <3>3, <3>5, <4>1 DEF SafeInv, Observing
            <4>2. CASE inbox # <<>>
                <5>1. 1 \in DOMAIN inbox /\ inbox'[1] = inbox[1] /\ inbox[1] \in mark + 1 .. looked
                    BY SMTT(30), <1>1, <3>2, <3>3, <4>2 DEF SafeInv, Observing
                <5>2. QED
                    BY <1>1, <1>3, <2>2, <3>5, <5>1 DEF SafeInv, Observing
            <4>3. QED
                BY <4>1, <4>2
        <3>6. QED
            BY <1>1, <1>3, <1>4, <2>1, <3>3, <3>4, <3>5 DEF Observing, NameMatches
    <2>6. QED
        BY <2>4, <2>5
<1>6. Tidy' /\ Polling'
    BY <1>1 DEF SafeInv, Tidy, Polling, Looping
<1>7. Ordered'
    BY <1>1 DEF SafeInv, Ordered, ResolvedInOrder
<1>8. FirstStart' /\ TimeoutMeansNone'
    BY <1>1 DEF SafeInv, FirstStart, TimeoutMeansNone, NameMatches
<1>9. QED
    BY <1>5, <1>6, <1>7, <1>8 DEF SafeInv

(* A run resolves to a start that is behind everything that was resolved.  *)
LEMMA ResolvedAppended ==
    ASSUME NEW n \in Nat, NEW s \in Seq(1 .. n), NEW e \in 1 .. n,
           \A i, j \in DOMAIN s : i < j => s[i] < s[j],
           \A i \in DOMAIN s : s[i] < e
    PROVE  /\ \A i, j \in DOMAIN Append(s, e) : i < j => Append(s, e)[i] < Append(s, e)[j]
           /\ \A i \in DOMAIN Append(s, e) : Append(s, e)[i] <= e
<1> DEFINE t == Append(s, e)
<1>1. /\ DOMAIN t = 1 .. Len(s) + 1 /\ DOMAIN s = 1 .. Len(s) /\ Len(s) \in Nat
      /\ \A i \in DOMAIN s : t[i] = s[i] /\ s[i] \in 1 .. n
      /\ t[Len(s) + 1] = e
    BY AppendLast
<1> HIDE DEF t
<1>2. \A i \in DOMAIN t : i \in DOMAIN s \/ i = Len(s) + 1
    BY <1>1
<1>3. QED
    <2>1. \A i, j \in DOMAIN t : i < j => t[i] < t[j]
        BY <1>1, <1>2
    <2>2. \A i \in DOMAIN t : t[i] <= e
        BY <1>1, <1>2
    <2>3. QED
        BY <2>1, <2>2 DEF t

LEMMA SafeListen ==
    ASSUME TypeOK, SafeInv, NEW name, Observe(name) \/ AttachProgram(name)
    PROVE  SafeInv'
<1>1. /\ pc = "off" /\ mark' = Len(starts) /\ looked' = Len(starts)
      /\ \/ pc' = "recv" /\ observer
         \/ pc' = "timer" /\ ~observer
      /\ UNCHANGED <<observer, starts, ring, inflight, inbox, batch, result, dropped, results>>
    BY DEF Observe, AttachProgram, Listen
<1>2. /\ inflight = <<>> /\ inbox = <<>> /\ batch = <<>> /\ result = 0
      /\ observer => ring = <<>>
    BY <1>1 DEF SafeInv, Tidy
<1>3. Len(starts) \in Nat
    BY DEF TypeOK
<1>4. Tidy' /\ FirstStart' /\ TimeoutMeansNone'
    BY <1>1, <1>2 DEF Tidy, Looping, FirstStart, TimeoutMeansNone
<1>5. \A i \in DOMAIN results : results[i] <= Len(starts)
    BY DEF TypeOK, Ids
<1>6. Ordered'
    BY <1>1, <1>5 DEF SafeInv, Ordered, ResolvedInOrder
<1>7. Observing'
    BY <1>1, <1>2, <1>3 DEF Observing
<1>8. Polling'
    <2>1. \A i \in Len(starts) + 1 .. Len(starts) : FALSE
        BY <1>3
    <2>2. \A j \in DOMAIN ring : ring[j] <= Len(starts)
        BY DEF TypeOK, Ids
    <2>3. QED
        BY <1>1, <1>3, <2>1, <2>2 DEF Polling
<1>9. QED
    BY <1>4, <1>6, <1>7, <1>8 DEF SafeInv

(* With the observer the first of the channel is taken.                    *)
LEMMA SafeReceive ==
    ASSUME TypeOK, SafeInv, Receive
    PROVE  SafeInv'
<1> DEFINE e == inbox[1]
<1>1. /\ pc = "recv" /\ pc' = "running" /\ inbox # <<>> /\ 1 \in DOMAIN inbox
      /\ result' = e /\ e \in 1 .. Len(starts)
      /\ inflight' = <<>> /\ inbox' = <<>> /\ batch' = <<>>
      /\ UNCHANGED <<observer, starts, ring, target, mark, looked, dropped>>
    BY TailShifts DEF Receive, WaitOver, TypeOK, Ids
<1>2. results' = Append(results, e) /\ Len(starts) \in Nat /\ mark \in Nat /\ looked \in Nat
    BY SMTT(30), <1>1, TailShifts DEF Receive, WaitOver, TypeOK
<1>3. observer /\ ring = <<>>
    BY <1>1 DEF SafeInv, Tidy
<1>4. /\ e \in mark + 1 .. looked /\ NameMatches(e)
      /\ \A i \in mark + 1 .. looked : NameMatches(i) => e <= i
    BY <1>1 DEF SafeInv, Observing
<1>5. \A i \in DOMAIN results : results[i] \in Int /\ results[i] <= mark
    <2>1. \A i \in DOMAIN results : results[i] \in Int
        BY DEF TypeOK, Ids
    <2>2. QED
        BY <1>1, <2>1 DEF SafeInv, Ordered
<1>6. \A i, j \in DOMAIN results' : i < j => results'[i] < results'[j]
    <2>1. \A i \in DOMAIN results : results[i] < e
        BY <1>2, <1>4, <1>5
    <2>2. results \in Seq(1 .. Len(starts))
        BY DEF TypeOK, Ids
    <2>3. \A i, j \in DOMAIN results : i < j => results[i] < results[j]
        BY DEF SafeInv, Ordered, ResolvedInOrder
    <2>4. QED
        BY <1>1, <1>2, <2>1, <2>2, <2>3, ResolvedAppended
<1>7. Tidy' /\ Observing' /\ Polling'
    BY <1>1, <1>3 DEF Tidy, Observing, Polling, Looping
<1>8. Ordered'
    BY <1>1, <1>3, <1>6 DEF Ordered, ResolvedInOrder
<1>9. FirstStart'
    <2>1. \A i \in mark + 1 .. e - 1 : ~NameMatches(i)
        BY <1>2, <1>4
    <2>2. QED
        BY <1>1, <1>2, <1>4, <2>1 DEF FirstStart, NameMatches
<1>10. TimeoutMeansNone'
    BY <1>1 DEF TimeoutMeansNone
<1>11. QED
    BY <1>7, <1>8, <1>9, <1>10 DEF SafeInv

(* With the program, the first record that fits.                           *)
LEMMA SafeTake ==
    ASSUME TypeOK, SafeInv, TakeRecord
    PROVE  SafeInv'
<1> DEFINE e == batch[1]
<1>1. /\ pc = "batch" /\ pc' = "running" /\ batch # <<>> /\ 1 \in DOMAIN batch
      /\ result' = e /\ e \in 1 .. Len(starts)
      /\ inflight' = <<>> /\ inbox' = <<>> /\ batch' = <<>>
      /\ UNCHANGED <<observer, starts, ring, target, mark, looked, dropped>>
    BY TailShifts DEF TakeRecord, WaitOver, TypeOK, Ids
<1>2. results' = Append(results, e)
    BY <1>1, TailShifts DEF TakeRecord, WaitOver, TypeOK
<1>3. ~observer
    BY <1>1 DEF SafeInv, Tidy, Looping
<1>4. \A i \in DOMAIN results : results[i] < e
    BY <1>1 DEF SafeInv, Ordered
<1>5. \A j \in DOMAIN ring : e < ring[j]
    BY <1>1 DEF SafeInv, Ordered
<1>6. /\ \A i, j \in DOMAIN results' : i < j => results'[i] < results'[j]
      /\ \A i \in DOMAIN results' : results'[i] <= e /\ results'[i] \in Int
    <2>1. results \in Seq(1 .. Len(starts)) /\ Len(starts) \in Nat
        BY DEF TypeOK, Ids
    <2>2. \A i, j \in DOMAIN results : i < j => results[i] < results[j]
        BY DEF SafeInv, Ordered, ResolvedInOrder
    <2>3. results' \in Seq(1 .. Len(starts))
        BY <1>1, <1>2, <2>1, AppendLast
    <2>4. \A i \in DOMAIN results' : results'[i] \in Int
        BY <2>3
    <2>5. QED
        BY <1>1, <1>2, <1>4, <2>1, <2>2, <2>4, ResolvedAppended
<1>7. Tidy' /\ Observing' /\ Polling'
    BY <1>1, <1>3 DEF Tidy, Observing, Polling, Looping
<1>8. Ordered'
    <2>1. \A j \in DOMAIN ring : ring[j] \in Int
        BY DEF TypeOK, Ids
    <2>2. \A i \in DOMAIN results', j \in DOMAIN ring' : results'[i] < ring'[j]
        BY <1>1, <1>5, <1>6, <2>1
    <2>3. \A i, j \in DOMAIN ring : i < j => ring[i] < ring[j]
        BY DEF SafeInv, Ordered
    <2>4. QED
        BY <1>1, <1>6, <2>2, <2>3 DEF Ordered, ResolvedInOrder
<1>9. FirstStart' /\ TimeoutMeansNone'
    BY <1>1, <1>3 DEF FirstStart, TimeoutMeansNone
<1>10. QED
    BY <1>7, <1>8, <1>9 DEF SafeInv

(* The ring is read at once, what is in it before the last look; the other *)
(* steps of the loop pass over one record, or over none.                   *)
LEMMA SafePoll ==
    ASSUME TypeOK, SafeInv, Poll
    PROVE  SafeInv'
<1>1. /\ pc = "poll" /\ pc' = "batch" /\ batch' = ring /\ ring' = <<>>
      /\ looked' = Len(starts)
      /\ UNCHANGED <<observer, starts, target, inflight, inbox, result, mark, dropped, results>>
    BY DEF Poll, Goto
<1>2. ~observer /\ batch = <<>>
    BY <1>1 DEF SafeInv, Tidy, Looping
<1>3. Tidy' /\ Observing' /\ FirstStart' /\ TimeoutMeansNone'
    BY <1>1, <1>2 DEF SafeInv, Tidy, Observing, FirstStart, TimeoutMeansNone, Looping
<1>4. Ordered'
    BY <1>1 DEF SafeInv, Ordered, ResolvedInOrder
<1>5. Polling'
    BY <1>1, <1>2 DEF SafeInv, Polling, Looping, NameMatches
<1>6. QED
    BY <1>3, <1>4, <1>5 DEF SafeInv

LEMMA SafeSkip ==
    ASSUME TypeOK, SafeInv, SkipRecord
    PROVE  SafeInv'
<1>1. /\ pc = "batch" /\ batch # <<>> /\ batch' = Tail(batch)
      /\ ~NameMatches(batch[1]) \/ starts[batch[1]].pid <= 0
      /\ UNCHANGED <<observer, starts, ring, pc, target, inflight, inbox, result, mark, looked,
                     dropped, results>>
    BY TailShifts DEF SkipRecord, TypeOK
<1>2. /\ \A i \in DOMAIN batch' : batch'[i] = batch[i + 1] /\ i + 1 \in DOMAIN batch
      /\ DOMAIN batch' = 1 .. Len(batch) - 1 /\ DOMAIN batch = 1 .. Len(batch)
      /\ Len(batch) \in Nat
    BY <1>1, TailShifts DEF TypeOK
<1>3. \A i \in DOMAIN batch : i # 1 => i - 1 \in DOMAIN batch' /\ batch'[i - 1] = batch[i]
    BY <1>2
<1>4. Tidy' /\ Observing' /\ FirstStart' /\ TimeoutMeansNone'
    BY <1>1 DEF SafeInv, Tidy, Observing, FirstStart, TimeoutMeansNone, NameMatches
<1>5. Ordered'
    <2>1. \A i, j \in DOMAIN batch' : i < j => batch'[i] < batch'[j]
        BY <1>2 DEF SafeInv, Ordered
    <2>2. QED
        BY <1>1, <1>2, <2>1 DEF SafeInv, Ordered, ResolvedInOrder
<1>6. Polling'
    <2>1. ~observer /\ pc \in Looping
        BY <1>1 DEF SafeInv, Tidy, Looping
    <2>2. ASSUME NEW i \in mark + 1 .. Len(starts), NameMatches(i), ~(starts[i].pid <= 0),
                 \E j \in DOMAIN batch : batch[j] = i
          PROVE  \E j \in DOMAIN batch' : batch'[j] = i
        BY <1>1, <1>3, <2>2
    <2>3. QED
        BY <1>1, <2>1, <2>2 DEF SafeInv, Polling, NameMatches
<1>7. QED
    BY <1>4, <1>5, <1>6 DEF SafeInv

(* CheckTimer and BatchDone move nothing but the place.                    *)
LEMMA SafeTurn ==
    ASSUME TypeOK, SafeInv, CheckTimer \/ BatchDone
    PROVE  SafeInv'
<1>1. /\ \/ pc = "timer" /\ pc' = "poll"
         \/ pc = "batch" /\ pc' = "timer" /\ batch = <<>>
      /\ UNCHANGED <<observer, starts, ring, target, inflight, inbox, batch, result, mark,
                     looked, dropped, results>>
    BY DEF CheckTimer, BatchDone, Goto, local
<1>2. Tidy' /\ Observing' /\ FirstStart' /\ TimeoutMeansNone'
    BY <1>1 DEF SafeInv, Tidy, Observing, FirstStart, TimeoutMeansNone, Looping, NameMatches
<1>3. Ordered'
    BY <1>1 DEF SafeInv, Ordered, ResolvedInOrder
<1>4. Polling'
    BY <1>1 DEF SafeInv, Polling, Looping, NameMatches
<1>5. QED
    BY <1>2, <1>3, <1>4 DEF SafeInv

(* A wait that ends with nothing, and a run that ends.                     *)
LEMMA SafeEnd ==
    ASSUME TypeOK, SafeInv, ReceiveTimeout \/ TimerOut \/ PollFails \/ Exit \/ Crash
    PROVE  SafeInv'
<1>1. /\ pc' \in {"timeout", "failed", "off"} /\ result' = 0
      /\ inflight' = <<>> /\ inbox' = <<>> /\ batch' = <<>>
      /\ UNCHANGED <<observer, starts, ring, dropped, results>>
    BY DEF ReceiveTimeout, TimerOut, PollFails, WaitOver, Exit, Crash, Gone
<1>2. pc' = "timeout" =>
        /\ (pc = "recv" /\ inbox = <<>>) \/ pc = "timer"
        /\ UNCHANGED <<mark, looked, target>>
    BY DEF ReceiveTimeout, TimerOut, PollFails, WaitOver, Exit, Crash, Gone
<1>3. Tidy' /\ Observing' /\ Polling' /\ FirstStart'
    BY <1>1 DEF SafeInv, Tidy, Observing, Polling, FirstStart, Looping
<1>4. Ordered'
    BY <1>1 DEF SafeInv, Ordered, ResolvedInOrder
<1>5. TimeoutMeansNone'
    <2> SUFFICES ASSUME pc' = "timeout", NEW i \in mark' + 1 .. looked', NameMatches(i)'
                 PROVE  ~observer' /\ (starts'[i].pid <= 0 \/ i \in dropped')
        BY DEF TimeoutMeansNone
    <2>1. NameMatches(i) /\ i \in mark + 1 .. looked
        BY <1>1, <1>2 DEF NameMatches
    <2>2. CASE pc = "recv" /\ inbox = <<>>
        BY <2>1, <2>2 DEF SafeInv, Observing
    <2>3. CASE pc = "timer"
        <3>1. ~observer /\ batch = <<>>
            BY <2>3 DEF SafeInv, Tidy, Looping
        <3>2. i \in mark + 1 .. Len(starts) /\ i <= looked /\ mark < i /\ looked \in Nat
            BY <2>1 DEF TypeOK
        <3>3. \A j \in DOMAIN ring : ring[j] # i
            BY <2>3, <3>2 DEF SafeInv, Polling, Looping
        <3>4. QED
            BY <1>1, <2>1, <2>3, <3>1, <3>2, <3>3 DEF SafeInv, Polling, Looping
    <2>4. QED
        BY <1>2, <2>2, <2>3
<1>6. QED
    BY <1>3, <1>4, <1>5 DEF SafeInv

LEMMA SafeNext ==
    ASSUME TypeOK, SafeInv, [Next]_vars
    PROVE  SafeInv'
<1>1. CASE UNCHANGED vars
    BY <1>1, SafeKept DEF vars, local
<1>2. CASE Tick
    BY <1>2, SafeKept DEF Tick
<1>3. CASE ObserveFails \/ AttachFails
    BY <1>3, SafeKept DEF ObserveFails, AttachFails, NotListening, local
<1>4. QED
    BY <1>1, <1>2, <1>3, SafeLaunch, SafeListen, SafeReport, SafeReceive, SafeTake, SafePoll,
       SafeSkip, SafeTurn, SafeEnd
    DEF Next, WaitStep

THEOREM SafeInvariance == Spec => []SafeInv
BY TypeInit, TypeNext, SafeInit, SafeNext, PTL DEF Spec

(* FirstStart for all names, starts, runs and kills: with the observer a   *)
(* run resolves to the first process of the name after it registered, and  *)
(* a callback that races recv_timeout changes nothing (process.rs:89-103). *)
THEOREM FirstOfTheName == Spec => []FirstStart
<1>1. SafeInv => FirstStart
    BY DEF SafeInv
<1>2. QED
    BY SafeInvariance, <1>1, PTL

(* TimeoutMeansNone for any size of the ring: recv_timeout and the loop of *)
(* wait_for_app_start_uprobe give up only when there was nothing to take.  *)
THEOREM NothingMissed == Spec => []TimeoutMeansNone
<1>1. SafeInv => TimeoutMeansNone
    BY DEF SafeInv
<1>2. QED
    BY SafeInvariance, <1>1, PTL

(* ResolvedInOrder: the pinned ring and the throwing away of a batch never *)
(* let a later run resolve to a start an earlier one resolved to, nor to   *)
(* an older one, whatever was left in the ring (process.rs:137-151).       *)
THEOREM OlderNeverReturns == Spec => []ResolvedInOrder
<1>1. SafeInv => ResolvedInOrder
    BY DEF SafeInv, Ordered
<1>2. QED
    BY SafeInvariance, <1>1, PTL

===============================================================================
