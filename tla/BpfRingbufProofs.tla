--------------------------- MODULE BpfRingbufProofs ---------------------------
(* Proofs about BpfRingbuf, for every ring size, sample length, number of  *)
(* pollers and of crashes: its invariants, and in the second part that it  *)
(* implements EventQueue, so that who drains the ring sees a queue of      *)
(* events.                                                                 *)
EXTENDS BpfRingbuf, SequenceTheorems, TLAPS

(* Two positions less than a period apart never fall on the same residue:  *)
(* the wrap of the data pages keeps unconsumed records apart.              *)
LEMMA ModDistinct ==
    ASSUME NEW N \in Nat \ {0}, NEW a \in Nat, NEW b \in Nat,
           a < b, b - a < N
    PROVE  a % N # b % N
<1> DEFINE qa == a \div N
           qb == b \div N
<1>1. a = N * qa + (a % N) /\ qa \in Nat /\ a % N \in 0 .. N - 1
  OBVIOUS
<1>2. b = N * qb + (b % N) /\ qb \in Nat /\ b % N \in 0 .. N - 1
  OBVIOUS
<1> HIDE DEF qa, qb
<1>3. SUFFICES ASSUME a % N = b % N PROVE FALSE
  OBVIOUS
<1>4. b - a = N * (qb - qa)
  BY <1>1, <1>2, <1>3
<1>5. CASE qb <= qa
  <2>1. N * (qb - qa) <= 0
    BY <1>1, <1>2, <1>5
  <2> QED BY <2>1, <1>4
<1>6. CASE qb >= qa + 1
  <2>1. N * (qb - qa) >= N
    BY <1>1, <1>2, <1>6
  <2> QED BY <2>1, <1>4
<1> QED BY <1>1, <1>2, <1>5, <1>6

-------------------------------------------------------------------------------
(* The reader takes a record to be exactly as long as the kernel made it.  *)
LEMMA LengthsAgree ==
    \A len \in Lens :
        /\ RoundLength(len) = RecordWords(len)
        /\ RecordWords(len) \in Nat \ {0}
BY RingAssumption DEF RoundLength, RecordWords, HeaderBytes

(* Record boundaries are positions, and none lies beyond the producer's.   *)
LEMMA Boundaries ==
    ASSUME Inv
    PROVE  /\ Len(recs) \in Nat
           /\ DOMAIN recs = 1 .. Len(recs)
           /\ \A i \in 1 .. Len(recs) :
                /\ recs[i] \in Record
                /\ StartOf(i) = recs[i].start
                /\ recs[i].start < prod
           /\ StartOf(Len(recs) + 1) = prod
           /\ \A i \in 1 .. Len(recs) + 1 : StartOf(i) \in Nat /\ StartOf(i) <= prod
<1>1. /\ recs \in Seq(Record) /\ prod \in Nat
      /\ \A i, j \in 1 .. Len(recs) + 1 : i < j => StartOf(i) < StartOf(j)
  BY DEF Inv, TypeOK, Layout
<1>2. Len(recs) \in Nat /\ DOMAIN recs = 1 .. Len(recs)
  BY <1>1
<1>3. \A i \in 1 .. Len(recs) : recs[i] \in Record /\ StartOf(i) = recs[i].start
  BY <1>1, <1>2 DEF StartOf
<1>4. StartOf(Len(recs) + 1) = prod
  BY <1>2 DEF StartOf
<1>5. \A i \in 1 .. Len(recs) : recs[i].start < prod
  BY <1>1, <1>2, <1>3, <1>4
<1> QED BY <1>1, <1>2, <1>3, <1>4, <1>5 DEF Record

(* Where the loop reads a header it reads the first unconsumed record, and *)
(* the record lies before the boundary the reader stops at.                *)
LEMMA HeaderRead ==
    ASSUME Inv, NEW p \in Pollers, pc[p] = "scan", ~CaughtUp(p)
    PROVE  \E i \in 1 .. Len(recs) :
              /\ pos[p] = recs[i].start
              /\ pos[p] = cons
              /\ mem[At(pos[p])] = i
              /\ HeaderAt(p) = recs[i]
              /\ \E j \in i + 1 .. Len(recs) + 1 : snap[p] = Low(StartOf(j))
<1>1. pos[p] = cons /\ SnapAhead(p)
  BY DEF Inv, ReaderPlace
<1>2. PICK j \in 1 .. Len(recs) + 1, k \in 1 .. Len(recs) + 1 :
        k <= j /\ snap[p] = Low(StartOf(j)) /\ pos[p] = StartOf(k)
  BY <1>1 DEF SnapAhead
<1>3. Len(recs) \in Nat
  BY Boundaries
<1>4. k # j
  BY <1>2 DEF CaughtUp
<1>5. k \in 1 .. Len(recs) /\ j \in k + 1 .. Len(recs) + 1
  BY <1>2, <1>3, <1>4
<1>6. pos[p] = recs[k].start /\ recs[k].start \in Nat
  BY <1>2, <1>5, Boundaries DEF Record
<1>7. mem[At(recs[k].start)] = k
  BY <1>1, <1>5, <1>6 DEF Inv, RingIntact
<1>8. HeaderAt(p) = recs[k]
  BY <1>6, <1>7 DEF HeaderAt
<1> QED BY <1>1, <1>2, <1>5, <1>6, <1>7, <1>8

(* What holds of the shared memory only depends on it.                     *)
LEMMA SharedUnchanged ==
    ASSUME Inv, UNCHANGED shared
    PROVE  /\ Layout' /\ ConsAtRecord' /\ RingIntact'
           /\ \A i : StartOf(i)' = StartOf(i)
BY DEF Inv, shared, Layout, ConsAtRecord, RingIntact, StartOf, At

(* A poller that is not inside the call has no place to keep, and a step   *)
(* that leaves its locals and the shared memory alone keeps its place.     *)
LEMMA PlaceKept ==
    ASSUME Inv, UNCHANGED shared, NEW q \in Pollers,
           pc'[q] = pc[q], snap'[q] = snap[q], pos'[q] = pos[q], start'[q] = start[q]
    PROVE  ReaderPlace(q)'
BY DEF Inv, shared, ReaderPlace, SnapAhead, Holds, Good, StartOf, Low

LEMMA PlaceIdle ==
    ASSUME NEW q \in Pollers, pc'[q] \in {"idle", "open", "load"}
    PROVE  ReaderPlace(q)'
BY DEF ReaderPlace

LEMMA InitInv == Init => Inv
<1> SUFFICES ASSUME Init PROVE Inv
  OBVIOUS
<1> USE RingAssumption, NoOneAssumption DEF Init
<1>1. TypeOK
  BY DEF TypeOK, Words, Payload, Places
<1>2. Layout /\ ConsAtRecord /\ RingIntact
  BY DEF Layout, ConsAtRecord, RingIntact, StartOf
<1>3. Exclusive
  BY DEF Exclusive
<1>4. \A p \in Pollers : ReaderPlace(p)
  BY DEF ReaderPlace
<1> QED BY <1>1, <1>2, <1>3, <1>4 DEF Inv

-------------------------------------------------------------------------------
(* The kernel's steps.                                                     *)

LEMMA ReserveInv ==
    ASSUME Inv, NEW len \in Lens, Reserve(len)
    PROVE  Inv'
<1> DEFINE n == RecordWords(len)
           id == Len(recs) + 1
<1> USE RingAssumption
<1>1. n \in Nat \ {0}
  BY LengthsAgree
<1> HIDE DEF n
<1>2. /\ prod + n - cons < RingWords
      /\ recs' = Append(recs, [start |-> prod, len |-> len, st |-> "busy"])
      /\ prod' = prod + n
      /\ mem' = [w \in Words |->
                     IF w = At(prod) THEN id
                     ELSE IF \E k \in 1 .. n - 1 : w = At(prod + k) THEN Payload
                     ELSE mem[w]]
      /\ UNCHANGED <<cons, owner, pc, snap, pos, start, batch, returned, crashes>>
  BY DEF Reserve, locals, n
<1>3. /\ prod \in Nat /\ cons \in Nat /\ prod - cons \in 0 .. RingWords - 1
      /\ recs \in Seq(Record) /\ mem \in [Words -> Nat] /\ Len(recs) \in Nat
  BY DEF Inv, TypeOK
<1>4. [start |-> prod, len |-> len, st |-> "busy"] \in Record
  BY <1>3 DEF Record, Statuses
<1>5. /\ recs' \in Seq(Record)
      /\ Len(recs') = Len(recs) + 1
      /\ DOMAIN recs' = 1 .. Len(recs) + 1
      /\ \A i \in 1 .. Len(recs) : recs'[i] = recs[i]
      /\ recs'[id] = [start |-> prod, len |-> len, st |-> "busy"]
  BY <1>2, <1>3, <1>4
<1>6. /\ \A i \in 1 .. Len(recs) + 1 : StartOf(i)' = StartOf(i)
      /\ StartOf(Len(recs) + 2)' = prod + n
  BY <1>2, <1>3, <1>5, Boundaries DEF StartOf
<1>7. TypeOK'
  <2>1. mem' \in [Words -> Nat]
    BY <1>2, <1>3 DEF Payload
  <2>2. prod' \in Nat /\ prod' - cons' \in 0 .. RingWords - 1
    BY <1>1, <1>2, <1>3
  <2> QED BY <1>2, <1>5, <2>1, <2>2 DEF Inv, TypeOK
<1>8. Layout'
  <2>1. \A i \in 1 .. Len(recs) + 1 :
          StartOf(i + 1)' = recs'[i].start + RecordWords(recs'[i].len)
    <3> TAKE i \in 1 .. Len(recs) + 1
    <3>1. CASE i \in 1 .. Len(recs)
      BY <3>1, <1>3, <1>5, <1>6 DEF Inv, Layout
    <3>2. CASE i = id
      <4>1. StartOf(i + 1)' = prod + n
        BY <1>2, <1>3, <1>5, <3>2 DEF StartOf
      <4> QED BY <3>2, <4>1, <1>5 DEF n
    <3> QED BY <1>3, <3>1, <3>2
  <2>2. \A i, j \in 1 .. Len(recs) + 2 : i < j => StartOf(i)' < StartOf(j)'
    <3> SUFFICES ASSUME NEW i \in 1 .. Len(recs) + 2, NEW j \in 1 .. Len(recs) + 2, i < j
                 PROVE  StartOf(i)' < StartOf(j)'
      OBVIOUS
    <3>1. i \in 1 .. Len(recs) + 1 /\ StartOf(i)' = StartOf(i) /\ StartOf(i) <= prod
          /\ StartOf(i) \in Nat
      BY <1>3, <1>6, Boundaries
    <3>2. CASE j \in 1 .. Len(recs) + 1
      BY <3>1, <3>2, <1>6 DEF Inv, Layout
    <3>3. CASE j = Len(recs) + 2
      <4>1. StartOf(j)' = prod + n
        BY <1>2, <1>3, <1>5, <3>3 DEF StartOf
      <4> QED BY <3>1, <4>1, <1>1, <1>3
    <3> QED BY <1>3, <3>2, <3>3
  <2> QED BY <1>3, <1>5, <2>1, <2>2 DEF Layout
<1>9. ConsAtRecord'
  BY <1>2, <1>3, <1>5, <1>6 DEF Inv, ConsAtRecord
<1>10. RingIntact'
  <2> SUFFICES ASSUME NEW i \in 1 .. Len(recs) + 1, recs'[i].start >= cons
               PROVE  mem'[At(recs'[i].start)] = i
    BY <1>2, <1>5 DEF RingIntact, At
  <2>1. \A a \in Nat : At(a) \in Words
    BY DEF At, Words
  <2>2. CASE i = id
    BY <1>2, <1>3, <1>5, <2>1, <2>2
  <2>3. CASE i \in 1 .. Len(recs)
    <3>1. /\ recs'[i] = recs[i] /\ recs[i].start \in Nat /\ recs[i].start < prod
          /\ recs[i].start >= cons
      BY <2>3, <1>5, Boundaries DEF Record
    <3>2. \A k \in 0 .. n - 1 : At(recs[i].start) # At(prod + k)
      <4> TAKE k \in 0 .. n - 1
      <4>1. prod + k \in Nat /\ recs[i].start < prod + k /\ (prod + k) - recs[i].start < RingWords
        BY <1>1, <1>2, <1>3, <3>1
      <4> QED BY <3>1, <4>1, ModDistinct DEF At
    <3>3. At(recs[i].start) # At(prod)
      <4>1. prod - recs[i].start < RingWords
        BY <1>3, <3>1
      <4> QED BY <1>3, <3>1, <4>1, ModDistinct DEF At
    <3>4. mem'[At(recs[i].start)] = mem[At(recs[i].start)]
      BY <1>1, <1>2, <2>1, <3>1, <3>2, <3>3
    <3> QED BY <2>3, <3>1, <3>4 DEF Inv, RingIntact
  <2> QED BY <1>3, <2>2, <2>3
<1>11. Exclusive'
  BY <1>2 DEF Inv, Exclusive
<1>12. \A p \in Pollers : ReaderPlace(p)'
  <2> TAKE p \in Pollers
  <2>1. ReaderPlace(p)
    BY DEF Inv
  <2>2. SnapAhead(p) => SnapAhead(p)'
    <3> SUFFICES ASSUME SnapAhead(p) PROVE SnapAhead(p)'
      OBVIOUS
    <3>1. PICK j \in 1 .. Len(recs) + 1, k \in 1 .. Len(recs) + 1 :
            k <= j /\ snap[p] = Low(StartOf(j)) /\ pos[p] = StartOf(k)
      BY DEF SnapAhead
    <3>2. j \in 1 .. Len(recs)' + 1 /\ k \in 1 .. Len(recs)' + 1
      BY <1>3, <1>5
    <3>3. snap'[p] = Low(StartOf(j)') /\ pos'[p] = StartOf(k)'
      BY <1>2, <1>6, <3>1
    <3> QED BY <3>1, <3>2, <3>3 DEF SnapAhead, Low
  <2>3. \A i \in 1 .. Len(recs) : Holds(p, i) => Holds(p, i)'
    BY <1>2, <1>3, <1>5, <1>6 DEF Holds
  <2>4. \A i \in 1 .. Len(recs) : Good(i) => Good(i)'
    BY <1>5 DEF Good
  <2> QED BY <1>2, <1>3, <1>5, <2>1, <2>2, <2>3, <2>4 DEF ReaderPlace
<1> QED BY <1>7, <1>8, <1>9, <1>10, <1>11, <1>12 DEF Inv

LEMMA SettleInv ==
    ASSUME Inv, NEW i \in DOMAIN recs, NEW st \in {"ready", "discard"}, Settle(i, st)
    PROVE  Inv'
<1>1. /\ recs[i].st = "busy"
      /\ recs' = [recs EXCEPT ![i].st = st]
      /\ UNCHANGED <<prod, cons, mem, owner, pc, snap, pos, start, batch, returned, crashes>>
  BY DEF Settle, locals
<1>2. recs \in Seq(Record) /\ Len(recs) \in Nat /\ DOMAIN recs = 1 .. Len(recs)
  BY DEF Inv, TypeOK
<1>3. recs[i] \in Record /\ [recs[i] EXCEPT !.st = st] \in Record
  <2>1. recs[i] \in Record
    BY <1>2
  <2>2. \A r \in Record : [r EXCEPT !.st = st] \in Record
    BY DEF Record, Statuses
  <2> QED BY <2>1, <2>2
<1>4. /\ recs' \in Seq(Record)
      /\ Len(recs') = Len(recs) /\ DOMAIN recs' = DOMAIN recs
      /\ \A j \in 1 .. Len(recs) :
            /\ recs'[j].start = recs[j].start
            /\ recs'[j].len = recs[j].len
            /\ recs[j].st # "busy" => recs'[j].st = recs[j].st
  <2>1. recs' \in Seq(Record) /\ Len(recs') = Len(recs) /\ DOMAIN recs' = DOMAIN recs
    BY <1>1, <1>2, <1>3
  <2>2. ASSUME NEW j \in 1 .. Len(recs)
        PROVE  /\ recs'[j].start = recs[j].start
               /\ recs'[j].len = recs[j].len
               /\ recs[j].st # "busy" => recs'[j].st = recs[j].st
    <3>1. recs'[j] = IF j = i THEN [recs[i] EXCEPT !.st = st] ELSE recs[j]
      BY <1>1, <1>2
    <3> QED BY <3>1, <1>1, <1>2, <1>3 DEF Record
  <2> QED BY <2>1, <2>2
<1>5. \A j \in 1 .. Len(recs) + 1 : StartOf(j)' = StartOf(j)
  BY <1>1, <1>2, <1>4 DEF StartOf
<1>6. TypeOK'
  BY <1>1, <1>4 DEF Inv, TypeOK
<1>7. Layout'
  <2>1. \A j \in 1 .. Len(recs) :
          StartOf(j + 1)' = recs'[j].start + RecordWords(recs'[j].len)
    <3> TAKE j \in 1 .. Len(recs)
    <3>1. j + 1 \in 1 .. Len(recs) + 1
      BY <1>2
    <3>2. StartOf(j + 1)' = StartOf(j + 1)
      BY <1>5, <3>1
    <3>3. StartOf(j + 1) = recs[j].start + RecordWords(recs[j].len)
      BY DEF Inv, Layout
    <3> QED BY <1>4, <3>2, <3>3
  <2>2. \A j, k \in 1 .. Len(recs) + 1 : j < k => StartOf(j)' < StartOf(k)'
    BY <1>5 DEF Inv, Layout
  <2> QED BY <1>4, <2>1, <2>2 DEF Layout
<1>8. ConsAtRecord' /\ RingIntact' /\ Exclusive'
  BY <1>1, <1>4, <1>5 DEF Inv, ConsAtRecord, RingIntact, Exclusive, At
<1>9. \A p \in Pollers : ReaderPlace(p)'
  <2> TAKE p \in Pollers
  <2>1. ReaderPlace(p)
    BY DEF Inv
  <2>2. SnapAhead(p) => SnapAhead(p)'
    BY <1>1, <1>4, <1>5 DEF SnapAhead, Low
  <2>3. \A j \in 1 .. Len(recs) : Holds(p, j) => Holds(p, j)'
    <3> SUFFICES ASSUME NEW j \in 1 .. Len(recs), Holds(p, j) PROVE Holds(p, j)'
      OBVIOUS
    <3>1. StartOf(j + 1)' = StartOf(j + 1)
      BY <1>2, <1>5
    <3> QED BY <1>1, <1>4, <3>1 DEF Holds
  <2>4. \A j \in 1 .. Len(recs) : Good(j) => Good(j)'
    BY <1>4 DEF Good
  <2> QED BY <1>1, <1>4, <2>1, <2>2, <2>3, <2>4 DEF ReaderPlace
<1> QED BY <1>6, <1>7, <1>8, <1>9 DEF Inv

-------------------------------------------------------------------------------
(* The readers' steps.                                                     *)

(* A step of one poller that leaves the shared memory alone need only be   *)
(* examined at that poller.                                                *)
LEMMA LocalStep ==
    ASSUME Inv, UNCHANGED shared, NEW p \in Pollers,
           TypeOK', Exclusive', ReaderPlace(p)',
           \A q \in Pollers \ {p} : /\ pc'[q] = pc[q] /\ snap'[q] = snap[q]
                                    /\ pos'[q] = pos[q] /\ start'[q] = start[q]
    PROVE  Inv'
<1>1. Layout' /\ ConsAtRecord' /\ RingIntact'
  BY SharedUnchanged
<1>2. \A q \in Pollers \ {p} : ReaderPlace(q)'
  BY PlaceKept
<1> QED BY <1>1, <1>2 DEF Inv

(* A call that ends, whatever it does to the consumer position, leaves no  *)
(* poller with a place to keep.                                            *)
LEMMA GoneIdle ==
    ASSUME Inv, NEW p \in Pollers, pc[p] # "idle", Gone(p)
    PROVE  /\ Exclusive'
           /\ \A q \in Pollers : ReaderPlace(q)'
           /\ snap' \in [Pollers -> 0 .. PosModulus - 1]
           /\ pos' \in [Pollers -> Nat] /\ start' \in [Pollers -> Nat]
           /\ batch' \in [Pollers -> Seq(Nat)] /\ pc' \in [Pollers -> Places]
           /\ owner' \in Pollers \cup {NoOne}
<1>1. TypeOK /\ owner = p /\ \A q \in Pollers : q # p => pc[q] = "idle"
  BY DEF Inv, Exclusive
<1>2. \A q \in Pollers : pc'[q] = "idle"
  BY <1>1 DEF Gone, TypeOK
<1>3. \A q \in Pollers : ReaderPlace(q)'
  BY <1>2, PlaceIdle
<1>4. Exclusive'
  BY <1>2, NoOneAssumption DEF Exclusive, Gone
<1>5. 0 \in 0 .. PosModulus - 1 /\ <<>> \in Seq(Nat)
  BY RingAssumption
<1> QED BY <1>1, <1>3, <1>4, <1>5 DEF Gone, TypeOK, Places

LEMMA LeaveInv ==
    ASSUME Inv, NEW p \in Pollers, pc[p] # "idle", Gone(p), UNCHANGED shared,
           returned' \in Seq(Nat), crashes' \in 0 .. MaxCrashes
    PROVE  Inv'
<1>1. TypeOK'
  BY GoneIdle DEF Inv, TypeOK, shared
<1> QED BY <1>1, GoneIdle, SharedUnchanged DEF Inv

LEMMA EnterInv ==
    ASSUME Inv, NEW p \in Pollers, Open(p) \/ WaitData(p) \/ LoadPositions(p)
    PROVE  Inv'
<1>1. TypeOK /\ Exclusive /\ pc[p] \in Places
  BY DEF Inv, TypeOK
<1>2. CASE Open(p)
  <2>1. /\ UNCHANGED <<shared, locals, batch, returned, crashes>>
        /\ owner = NoOne /\ owner' = p /\ pc' = [pc EXCEPT ![p] = "open"]
    BY <1>2 DEF Open, Lock
  <2>2. TypeOK'
    BY <1>1, <2>1 DEF TypeOK, shared, locals, Places
  <2>3. Exclusive'
    BY <1>1, <2>1, NoOneAssumption DEF Exclusive, TypeOK
  <2>4. ReaderPlace(p)'
    BY <1>1, <2>1, PlaceIdle DEF TypeOK
  <2> QED BY <1>1, <2>1, <2>2, <2>3, <2>4, LocalStep DEF locals, TypeOK
<1>3. CASE WaitData(p)
  <2>1. /\ UNCHANGED <<shared, owner, locals, batch, returned, crashes>>
        /\ pc[p] = "open" /\ pc' = [pc EXCEPT ![p] = "load"]
    BY <1>3 DEF WaitData
  <2>2. TypeOK'
    BY <1>1, <2>1 DEF TypeOK, shared, locals, Places
  <2>3. Exclusive'
    BY <1>1, <2>1 DEF Exclusive, TypeOK
  <2>4. ReaderPlace(p)'
    BY <1>1, <2>1, PlaceIdle DEF TypeOK
  <2> QED BY <1>1, <2>1, <2>2, <2>3, <2>4, LocalStep DEF locals, TypeOK
<1>4. CASE LoadPositions(p)
  <2>1. /\ UNCHANGED <<shared, owner, start, batch, returned, crashes>>
        /\ pc[p] = "load" /\ pc' = [pc EXCEPT ![p] = "scan"]
        /\ snap' = [snap EXCEPT ![p] = Low(prod)]
        /\ pos' = [pos EXCEPT ![p] = cons]
    BY <1>4 DEF LoadPositions
  <2>2. Low(prod) \in 0 .. PosModulus - 1
    BY <1>1, RingAssumption DEF Low, TypeOK
  <2>3. TypeOK'
    BY <1>1, <2>1, <2>2 DEF TypeOK, shared, Places
  <2>4. Exclusive'
    BY <1>1, <2>1 DEF Exclusive, TypeOK
  <2>5. SnapAhead(p)'
    <3>1. PICK k \in 1 .. Len(recs) + 1 : cons = StartOf(k)
      BY DEF Inv, ConsAtRecord
    <3>2. /\ snap'[p] = Low(StartOf(Len(recs) + 1))
          /\ pos'[p] = StartOf(k)
          /\ \A i : StartOf(i)' = StartOf(i)
          /\ recs' = recs
      BY <1>1, <2>1, <3>1, Boundaries, SharedUnchanged DEF TypeOK, shared
    <3>3. k <= Len(recs) + 1 /\ Len(recs) + 1 \in 1 .. Len(recs) + 1
      BY Boundaries
    <3> QED BY <3>2, <3>3 DEF SnapAhead, Low
  <2>6. ReaderPlace(p)'
    BY <1>1, <2>1, <2>5 DEF ReaderPlace, TypeOK, shared
  <2> QED BY <1>1, <2>1, <2>3, <2>4, <2>6, LocalStep DEF TypeOK
<1> QED BY <1>2, <1>3, <1>4

(* TakeSample and SkipDiscarded: the reader moves past a settled record in *)
(* its own position only.                                                  *)
LEMMA AdvanceInv ==
    ASSUME Inv, NEW p \in Pollers, TakeSample(p) \/ SkipDiscarded(p)
    PROVE  Inv'
<1>1. TypeOK /\ Exclusive /\ pc[p] = "scan" /\ ~CaughtUp(p)
  BY DEF Inv, TakeSample, SkipDiscarded, Scanning
<1>2. PICK i \in 1 .. Len(recs) :
        /\ pos[p] = recs[i].start
        /\ pos[p] = cons
        /\ HeaderAt(p) = recs[i]
        /\ \E j \in i + 1 .. Len(recs) + 1 : snap[p] = Low(StartOf(j))
  BY <1>1, HeaderRead
<1>a. PICK j \in i + 1 .. Len(recs) + 1 : snap[p] = Low(StartOf(j))
  BY <1>2
<1>3. PICK next \in {"copy", "store"} :
        /\ recs[i].st # "busy"
        /\ next = "copy" => Good(i)
        /\ start' = [start EXCEPT ![p] = pos[p]]
        /\ pos' = [pos EXCEPT ![p] = @ + RoundLength(recs[i].len)]
        /\ pc' = [pc EXCEPT ![p] = next]
        /\ UNCHANGED <<shared, owner, snap, batch, returned, crashes>>
  BY <1>2 DEF TakeSample, SkipDiscarded, Good
<1>4. Len(recs) \in Nat /\ recs[i] \in Record /\ pos[p] \in Nat
  BY <1>1, Boundaries DEF TypeOK
<1>5. pos[p] + RoundLength(recs[i].len) = StartOf(i + 1)
  <2>1. RoundLength(recs[i].len) = RecordWords(recs[i].len)
    BY <1>4, LengthsAgree DEF Record
  <2> QED BY <1>2, <2>1 DEF Inv, Layout
<1>6. i + 1 \in 1 .. Len(recs) + 1 /\ i + 1 <= j /\ j \in 1 .. Len(recs) + 1
  BY <1>4
<1>7. /\ pos'[p] = StartOf(i + 1) /\ StartOf(i + 1) \in Nat
      /\ start'[p] = recs[i].start /\ pc'[p] = next
  BY <1>1, <1>2, <1>3, <1>5, <1>6, Boundaries DEF TypeOK
<1>8. TypeOK'
  BY <1>1, <1>3, <1>4, <1>5, <1>7 DEF TypeOK, shared, Places
<1>9. Exclusive'
  BY <1>1, <1>3 DEF Exclusive, TypeOK
<1>10. ReaderPlace(p)'
  <2>1. recs' = recs /\ cons' = cons /\ snap' = snap /\ \A k : StartOf(k)' = StartOf(k)
    BY <1>3, SharedUnchanged DEF shared
  <2>2. SnapAhead(p)'
    BY <1>a, <1>6, <1>7, <2>1 DEF SnapAhead, Low
  <2>3. Holds(p, i)' /\ (next = "copy" => Good(i)')
    BY <1>2, <1>3, <1>7, <2>1 DEF Holds, Good
  <2> QED BY <1>3, <1>7, <2>1, <2>2, <2>3 DEF ReaderPlace
<1> QED BY <1>1, <1>3, <1>8, <1>9, <1>10, LocalStep DEF TypeOK

LEMMA CallbackInv ==
    ASSUME Inv, NEW p \in Pollers, Callback(p)
    PROVE  Inv'
<1>1. /\ TypeOK /\ Exclusive /\ ReaderPlace(p)
      /\ pc[p] = "copy" /\ pc' = [pc EXCEPT ![p] = "store"]
      /\ batch' = [batch EXCEPT ![p] = Append(@, mem[At(start[p])])]
      /\ UNCHANGED <<shared, owner, snap, pos, start, returned, crashes>>
  <2>1. TypeOK /\ Exclusive /\ ReaderPlace(p)
    BY DEF Inv
  <2> QED BY <2>1 DEF Callback, locals
<1>2. At(start[p]) \in Words
  <2>1. start[p] \in Nat
    BY <1>1 DEF TypeOK
  <2> QED BY <2>1, RingAssumption DEF At, Words
<1>3. TypeOK'
  <2>1. batch' \in [Pollers -> Seq(Nat)]
    BY <1>1, <1>2 DEF TypeOK
  <2> QED BY <1>1, <2>1 DEF TypeOK, shared, Places
<1>4. Exclusive'
  BY <1>1 DEF Exclusive, TypeOK
<1>5. ReaderPlace(p)'
  <2>1. recs' = recs /\ \A k : StartOf(k)' = StartOf(k)
    BY <1>1, SharedUnchanged DEF shared
  <2>2. pc'[p] = "store"
    BY <1>1 DEF TypeOK
  <2>3. PICK i \in 1 .. Len(recs) : Holds(p, i)
    BY <1>1 DEF ReaderPlace
  <2>4. Holds(p, i)'
    BY <1>1, <2>1, <2>3 DEF Holds, shared
  <2>5. SnapAhead(p)'
    BY <1>1, <2>1 DEF ReaderPlace, SnapAhead, Low
  <2> QED BY <2>1, <2>2, <2>4, <2>5 DEF ReaderPlace
<1> QED BY <1>1, <1>3, <1>4, <1>5, LocalStep DEF TypeOK

(* The consumer position moves from one record boundary to the next: what  *)
(* the shared invariants need of StoreConsumerPos and RejectSize.          *)
LEMMA ConsumeOne ==
    ASSUME Inv, NEW i \in 1 .. Len(recs), cons = recs[i].start,
           cons' = StartOf(i + 1), UNCHANGED <<prod, recs, mem>>
    PROVE  /\ Layout' /\ ConsAtRecord' /\ RingIntact'
           /\ cons' \in Nat /\ prod' - cons' \in 0 .. RingWords - 1
           /\ cons' > cons
           /\ \A k : StartOf(k)' = StartOf(k)
<1>1. \A k : StartOf(k)' = StartOf(k)
  BY DEF StartOf
<1>2. /\ Len(recs) \in Nat /\ i + 1 \in 1 .. Len(recs) + 1
      /\ StartOf(i + 1) \in Nat /\ StartOf(i + 1) <= prod
  BY Boundaries
<1>3. StartOf(i) = recs[i].start /\ recs[i].start \in Nat /\ StartOf(i) < StartOf(i + 1)
  BY <1>2, Boundaries DEF Inv, Layout, Record
<1>4. Layout'
  BY <1>1 DEF Inv, Layout
<1>5. ConsAtRecord'
  BY <1>1, <1>2 DEF ConsAtRecord
<1>6. RingIntact'
  <2> SUFFICES ASSUME NEW k \in 1 .. Len(recs), recs[k].start >= cons'
               PROVE  mem[At(recs[k].start)] = k
    BY DEF RingIntact, At
  <2>1. recs[k].start >= cons
    BY <1>2, <1>3, Boundaries DEF Record
  <2> QED BY <2>1 DEF Inv, RingIntact
<1>7. prod \in Nat /\ cons \in Nat /\ prod - cons \in 0 .. RingWords - 1
  BY DEF Inv, TypeOK
<1> QED BY <1>1, <1>2, <1>3, <1>4, <1>5, <1>6, <1>7, RingAssumption

LEMMA StoreInv ==
    ASSUME Inv, NEW p \in Pollers, StoreConsumerPos(p)
    PROVE  Inv'
<1>1. /\ TypeOK /\ Exclusive /\ ReaderPlace(p)
      /\ pc[p] = "store" /\ pc' = [pc EXCEPT ![p] = "scan"]
      /\ cons' = pos[p]
      /\ UNCHANGED <<prod, recs, mem, owner, snap, pos, start, batch, returned, crashes>>
  BY DEF Inv, StoreConsumerPos, locals
<1>2. PICK i \in 1 .. Len(recs) : Holds(p, i)
  BY <1>1 DEF ReaderPlace
<1>3. /\ Layout' /\ ConsAtRecord' /\ RingIntact'
      /\ cons' \in Nat /\ prod' - cons' \in 0 .. RingWords - 1
      /\ \A k : StartOf(k)' = StartOf(k)
  BY <1>1, <1>2, ConsumeOne DEF Holds
<1>4. TypeOK'
  BY <1>1, <1>3 DEF TypeOK, Places
<1>5. Exclusive'
  BY <1>1 DEF Exclusive, TypeOK
<1>6. \A q \in Pollers : ReaderPlace(q)'
  <2> TAKE q \in Pollers
  <2>1. CASE q = p
    <3>1. pc'[q] = "scan" /\ pos'[q] = cons'
      BY <1>1, <2>1 DEF TypeOK
    <3>2. SnapAhead(q)'
      BY <1>1, <1>3, <2>1 DEF ReaderPlace, SnapAhead, Low
    <3> QED BY <3>1, <3>2 DEF ReaderPlace
  <2>2. CASE q # p
    <3>1. pc'[q] = "idle"
      BY <1>1, <2>2 DEF Exclusive, TypeOK
    <3> QED BY <3>1, PlaceIdle
  <2> QED BY <2>1, <2>2
<1> QED BY <1>3, <1>4, <1>5, <1>6 DEF Inv

LEMMA RejectInv ==
    ASSUME Inv, NEW p \in Pollers, RejectSize(p)
    PROVE  Inv'
<1>1. /\ TypeOK /\ pc[p] = "scan" /\ ~CaughtUp(p)
      /\ cons' = pos[p] + RoundLength(HeaderAt(p).len)
      /\ Gone(p) /\ UNCHANGED <<prod, recs, mem, returned, crashes>>
  BY DEF Inv, RejectSize, Scanning, Leave
<1>2. PICK i \in 1 .. Len(recs) :
        pos[p] = recs[i].start /\ pos[p] = cons /\ HeaderAt(p) = recs[i]
  BY <1>1, HeaderRead
<1>3. cons' = StartOf(i + 1)
  <2>1. RoundLength(recs[i].len) = RecordWords(recs[i].len)
    BY <1>2, Boundaries, LengthsAgree DEF Record
  <2> QED BY <1>1, <1>2, <2>1 DEF Inv, Layout
<1>4. /\ Layout' /\ ConsAtRecord' /\ RingIntact'
      /\ cons' \in Nat /\ prod' - cons' \in 0 .. RingWords - 1
  BY <1>1, <1>2, <1>3, ConsumeOne
<1>5. /\ Exclusive' /\ \A q \in Pollers : ReaderPlace(q)'
      /\ snap' \in [Pollers -> 0 .. PosModulus - 1]
      /\ pos' \in [Pollers -> Nat] /\ start' \in [Pollers -> Nat]
      /\ batch' \in [Pollers -> Seq(Nat)] /\ pc' \in [Pollers -> Places]
      /\ owner' \in Pollers \cup {NoOne}
  BY <1>1, GoneIdle
<1>6. TypeOK'
  BY <1>1, <1>4, <1>5 DEF TypeOK
<1> QED BY <1>4, <1>5, <1>6 DEF Inv

LEMMA NextInv == Inv /\ [Next]_vars => Inv'
<1> SUFFICES ASSUME Inv, [Next]_vars PROVE Inv'
  OBVIOUS
<1>1. ASSUME NEW len \in Lens, Reserve(len) PROVE Inv'
  BY <1>1, ReserveInv
<1>2. ASSUME NEW i \in DOMAIN recs, NEW st \in {"ready", "discard"}, Settle(i, st)
      PROVE  Inv'
  BY <1>2, SettleInv
<1>3. ASSUME NEW p \in Pollers, PollStep(p) PROVE Inv'
  <2>1. returned \in Seq(Nat) /\ batch[p] \in Seq(Nat) /\ crashes \in 0 .. MaxCrashes
    BY DEF Inv, TypeOK
  <2>2. CASE Open(p) \/ WaitData(p) \/ LoadPositions(p)
    BY <2>2, EnterInv
  <2>3. CASE WaitEmpty(p)
    BY <2>1, <2>3, LeaveInv DEF WaitEmpty, Leave
  <2>4. CASE ReturnAtEnd(p) \/ ReturnAtBusy(p)
    <3>1. returned \o batch[p] \in Seq(Nat)
      BY <2>1
    <3> QED BY <2>1, <2>4, <3>1, LeaveInv DEF ReturnAtEnd, ReturnAtBusy, Scanning, Return, Leave
  <2>5. CASE TakeSample(p) \/ SkipDiscarded(p)
    BY <2>5, AdvanceInv
  <2>6. CASE RejectSize(p)
    BY <2>6, RejectInv
  <2>7. CASE Callback(p)
    BY <2>7, CallbackInv
  <2>8. CASE StoreConsumerPos(p)
    BY <2>8, StoreInv
  <2> QED BY <1>3, <2>2, <2>3, <2>4, <2>5, <2>6, <2>7, <2>8 DEF PollStep
<1>4. ASSUME NEW p \in Pollers, Crash(p) PROVE Inv'
  <2>1. returned \in Seq(Nat) /\ crashes' \in 0 .. MaxCrashes
    BY <1>4, RingAssumption DEF Inv, TypeOK, Crash
  <2> QED BY <1>4, <2>1, LeaveInv DEF Crash
<1>5. CASE UNCHANGED vars
  <2>1. UNCHANGED shared /\ TypeOK' /\ Exclusive'
    BY <1>5 DEF vars, shared, Inv, TypeOK, Exclusive
  <2>2. \A q \in Pollers : ReaderPlace(q)'
    BY <1>5, <2>1, PlaceKept DEF vars
  <2> QED BY <2>1, <2>2, SharedUnchanged DEF Inv
<1> QED BY <1>1, <1>2, <1>3, <1>4, <1>5 DEF Next, KernelStep

-------------------------------------------------------------------------------
THEOREM Invariance == Spec => []Inv
BY InitInv, NextInv, PTL DEF Spec

(* Every variable keeps its type; in particular the reader's position      *)
(* never passes the producer's, nor falls a ring's length behind it.       *)
THEOREM TypeCorrect == Spec => []TypeOK
<1>1. Inv => TypeOK
  BY DEF Inv
<1> QED BY <1>1, Invariance, PTL

(* ConsumeAll's loop never reads a header that is not the header of an     *)
(* unconsumed record, nor copies a sample that was overwritten.            *)
THEOREM InSync == Spec => []ReaderInSync
<1>1. Inv => ReaderInSync
  <2> SUFFICES ASSUME Inv, NEW p \in Pollers
               PROVE  /\ pc[p] = "scan" /\ ~CaughtUp(p) =>
                            \E i \in DOMAIN recs :
                               pos[p] = recs[i].start /\ mem[At(pos[p])] = i
                      /\ pc[p] = "copy" =>
                            \E i \in DOMAIN recs :
                               /\ start[p] = recs[i].start
                               /\ mem[At(start[p])] = i
                               /\ Good(i)
    BY DEF ReaderInSync
  <2>1. DOMAIN recs = 1 .. Len(recs)
    BY Boundaries
  <2>2. ASSUME pc[p] = "scan", ~CaughtUp(p)
        PROVE  \E i \in DOMAIN recs : pos[p] = recs[i].start /\ mem[At(pos[p])] = i
    BY <2>1, <2>2, HeaderRead
  <2>3. ASSUME pc[p] = "copy"
        PROVE  \E i \in DOMAIN recs :
                  start[p] = recs[i].start /\ mem[At(start[p])] = i /\ Good(i)
    <3>1. PICK i \in 1 .. Len(recs) : Holds(p, i) /\ Good(i)
      BY <2>3 DEF Inv, ReaderPlace
    <3>2. start[p] = recs[i].start /\ recs[i].start >= cons
      BY <3>1, Boundaries DEF Holds, Record
    <3>3. mem[At(recs[i].start)] = i
      BY <3>2 DEF Inv, RingIntact
    <3> QED BY <2>1, <3>1, <3>2, <3>3
  <2> QED BY <2>2, <2>3
<1> QED BY <1>1, Invariance, PTL

-------------------------------------------------------------------------------
(* NeverPassesBusy as an action.                                           *)
SettledOnly ==
    /\ cons' >= cons
    /\ \A i \in DOMAIN recs : Consumed(i)' /\ ~Consumed(i) => recs[i].st # "busy"

(* A step that moves the consumer position over record i alone.            *)
LEMMA OneConsumed ==
    ASSUME Inv, NEW i \in 1 .. Len(recs), cons = recs[i].start,
           cons' = StartOf(i + 1), UNCHANGED <<prod, recs, mem>>
    PROVE  /\ cons' >= cons
           /\ \A k \in DOMAIN recs : Consumed(k)' => Consumed(k) \/ k = i
<1>1. cons' > cons /\ cons \in Nat /\ cons' \in Nat
  BY ConsumeOne DEF Inv, TypeOK
<1>2. ASSUME NEW k \in DOMAIN recs, recs[k].start < cons', ~(recs[k].start < cons)
      PROVE  k = i
  <2>1. /\ Len(recs) \in Nat /\ k \in 1 .. Len(recs)
        /\ StartOf(k) = recs[k].start /\ recs[k].start \in Nat
        /\ StartOf(i) = recs[i].start
    BY Boundaries DEF Record
  <2>2. ~(i < k)
    <3> SUFFICES ASSUME i < k PROVE FALSE
      OBVIOUS
    <3>1. i + 1 \in 1 .. Len(recs) + 1 /\ (i + 1 = k \/ i + 1 < k)
      BY <2>1
    <3>2. StartOf(i + 1) <= StartOf(k)
      <4> DEFINE m == i + 1
      <4>1. k \in 1 .. Len(recs) + 1 /\ m \in 1 .. Len(recs) + 1
        BY <2>1, <3>1
      <4>2. StartOf(m) \in Nat /\ (m < k => StartOf(m) < StartOf(k))
        BY <4>1, Boundaries DEF Inv, Layout
      <4> QED BY <2>1, <3>1, <4>2
    <3> QED BY <1>1, <1>2, <2>1, <3>2
  <2>3. ~(k < i)
    <3>1. k < i => StartOf(k) < StartOf(i)
      BY <2>1 DEF Inv, Layout
    <3> QED BY <1>1, <1>2, <2>1, <3>1
  <2> QED BY <2>1, <2>2, <2>3
<1> QED BY <1>1, <1>2 DEF Consumed

LEMMA OneSettled ==
    ASSUME Inv, NEW i \in 1 .. Len(recs), cons = recs[i].start,
           cons' = StartOf(i + 1), UNCHANGED <<prod, recs, mem>>,
           recs[i].st # "busy"
    PROVE  SettledOnly
BY OneConsumed DEF SettledOnly

LEMMA ConsSteps == Inv /\ [Next]_vars => [SettledOnly]_cons
<1> SUFFICES ASSUME Inv, [Next]_vars, cons' # cons PROVE SettledOnly
  OBVIOUS
<1>1. PICK p \in Pollers : StoreConsumerPos(p) \/ RejectSize(p)
  <2>1. ~(\E len \in Lens : Reserve(len))
    BY DEF Reserve
  <2>2. ~(\E i \in DOMAIN recs, st \in {"ready", "discard"} : Settle(i, st))
    BY DEF Settle
  <2>3. UNCHANGED shared => FALSE
    BY DEF shared
  <2>4. ~UNCHANGED vars
    BY DEF vars
  <2>5. ~(\E p \in Pollers : Crash(p))
    BY <2>3 DEF Crash
  <2>6. \E p \in Pollers : PollStep(p)
    BY <2>1, <2>2, <2>4, <2>5 DEF Next, KernelStep
  <2> QED BY <2>3, <2>6 DEF PollStep, Open, Lock, WaitEmpty, WaitData, LoadPositions,
             ReturnAtEnd, ReturnAtBusy, Return, TakeSample, SkipDiscarded, Callback
<1>2. CASE StoreConsumerPos(p)
  <2>1. PICK i \in 1 .. Len(recs) : Holds(p, i)
    BY <1>2 DEF Inv, ReaderPlace, StoreConsumerPos
  <2> QED BY <1>2, <2>1, OneSettled DEF Holds, StoreConsumerPos
<1>3. CASE RejectSize(p)
  <2>1. /\ pc[p] = "scan" /\ ~CaughtUp(p) /\ HeaderAt(p).st = "ready"
        /\ cons' = pos[p] + RoundLength(HeaderAt(p).len)
        /\ UNCHANGED <<prod, recs, mem>>
    BY <1>3 DEF RejectSize, Scanning
  <2>2. PICK i \in 1 .. Len(recs) :
          pos[p] = recs[i].start /\ pos[p] = cons /\ HeaderAt(p) = recs[i]
    BY <2>1, HeaderRead
  <2>3. cons' = StartOf(i + 1)
    <3>1. RoundLength(recs[i].len) = RecordWords(recs[i].len)
      BY <2>2, Boundaries, LengthsAgree DEF Record
    <3> QED BY <2>1, <2>2, <3>1 DEF Inv, Layout
  <2> QED BY <2>1, <2>2, <2>3, OneSettled
<1> QED BY <1>1, <1>2, <1>3

(* The consumer position never moves back and never passes a record whose  *)
(* producer is still writing it.                                           *)
THEOREM BusyRespected == Spec => NeverPassesBusy
<1>1. Spec => [][SettledOnly]_cons
  BY ConsSteps, Invariance, PTL DEF Spec
<1> QED BY <1>1 DEF NeverPassesBusy, SettledOnly

-------------------------------------------------------------------------------
(* The order of what is returned.                                          *)

(* What is passed stays passed as the position and the records grow.       *)
LEMMA PassedMono ==
    ASSUME Inv, Inv', NEW s, NEW a \in Nat, NEW b \in Nat, a <= b,
           PassedIn(recs, s, a), DOMAIN recs \subseteq DOMAIN recs',
           \A i \in DOMAIN recs : recs'[i].start = recs[i].start
    PROVE  PassedIn(recs', s, b)
<1> SUFFICES ASSUME NEW k \in DOMAIN s
             PROVE  s[k] \in DOMAIN recs' /\ recs'[s[k]].start < b
  BY DEF PassedIn
<1>1. s[k] \in DOMAIN recs /\ recs[s[k]].start < a
  BY DEF PassedIn
<1>2. recs[s[k]].start \in Nat
  BY <1>1, Boundaries DEF Record
<1> QED BY <1>1, <1>2

(* Records the reader has passed have smaller ids than the one it is at.   *)
LEMMA PassedSmaller ==
    ASSUME Inv, NEW s, NEW i \in 1 .. Len(recs), PassedIn(recs, s, recs[i].start)
    PROVE  \A k \in DOMAIN s : s[k] < i
<1> SUFFICES ASSUME NEW k \in DOMAIN s PROVE s[k] < i
  OBVIOUS
<1>1. s[k] \in 1 .. Len(recs) /\ recs[s[k]].start < recs[i].start
  BY Boundaries DEF PassedIn
<1>2. /\ Len(recs) \in Nat
      /\ StartOf(s[k]) = recs[s[k]].start /\ StartOf(i) = recs[i].start
      /\ recs[i].start \in Nat /\ recs[s[k]].start \in Nat
  BY <1>1, Boundaries DEF Record
<1>3. i < s[k] => StartOf(i) < StartOf(s[k])
  BY <1>1, <1>2 DEF Inv, Layout
<1> QED BY <1>1, <1>2, <1>3

LEMMA EmptyBatch ==
    ASSUME NEW q \in Pollers, batch'[q] = <<>>
    PROVE  BatchOrder(q)'
BY DEF BatchOrder, Passed, PassedIn, InOrder

(* While a poller is inside the call the others hold nothing.              *)
LEMMA OthersEmpty ==
    ASSUME Inv, OrderInv, NEW p \in Pollers, pc[p] # "idle" \/ owner = NoOne,
           NEW q \in Pollers, q # p
    PROVE  batch[q] = <<>>
<1>1. pc[q] = "idle"
  BY NoOneAssumption DEF Inv, Exclusive, TypeOK
<1> QED BY <1>1 DEF OrderInv, BatchOrder

(* A step that returns nothing keeps what was returned in order and passed.*)
LEMMA ReturnedKept ==
    ASSUME Inv, Inv', OrderInv, returned' = returned, cons <= cons',
           DOMAIN recs \subseteq DOMAIN recs',
           \A i \in DOMAIN recs : recs'[i].start = recs[i].start
    PROVE  InOrder(returned)' /\ Passed(returned, cons)'
<1>1. cons \in Nat /\ cons' \in Nat /\ InOrder(returned) /\ PassedIn(recs, returned, cons)
  BY DEF Inv, TypeOK, OrderInv, Passed
<1>2. PassedIn(recs', returned, cons')
  BY <1>1, PassedMono
<1> QED BY <1>1, <1>2 DEF Passed, InOrder

LEMMA OrderKernel ==
    ASSUME Inv, Inv', OrderInv, KernelStep
    PROVE  OrderInv'
<1>1. /\ UNCHANGED <<cons, owner, pc, pos, batch, returned>>
      /\ DOMAIN recs \subseteq DOMAIN recs'
      /\ \A i \in DOMAIN recs : recs'[i].start = recs[i].start
  <2>1. recs \in Seq(Record)
    BY DEF Inv, TypeOK
  <2>2. CASE \E len \in Lens : Reserve(len)
    BY <2>1, <2>2 DEF Reserve, locals
  <2>3. CASE \E i \in DOMAIN recs, st \in {"ready", "discard"} : Settle(i, st)
    <3>1. \A i \in DOMAIN recs : recs[i] \in Record
      BY <2>1
    <3> QED BY <2>1, <2>3, <3>1 DEF Settle, locals, Record
  <2> QED BY <2>2, <2>3 DEF KernelStep
<1>2. cons \in Nat /\ \A q \in Pollers : pos[q] \in Nat
  BY DEF Inv, TypeOK
<1>3. ASSUME NEW q \in Pollers PROVE BatchOrder(q)'
  <2>1. BatchOrder(q)
    BY DEF OrderInv
  <2>2. PassedIn(recs, batch[q], cons) => PassedIn(recs', batch[q], cons)
    BY <1>1, <1>2, PassedMono
  <2>3. PassedIn(recs, batch[q], pos[q]) => PassedIn(recs', batch[q], pos[q])
    BY <1>1, <1>2, PassedMono
  <2> QED BY <1>1, <2>1, <2>2, <2>3 DEF BatchOrder, Passed, InOrder
<1> QED BY <1>1, <1>2, <1>3, ReturnedKept DEF OrderInv

(* Steps after which no poller holds anything, and nothing is returned.    *)
LEMMA OrderEmpty ==
    ASSUME Inv, Inv', OrderInv, NEW p \in Pollers,
           pc[p] # "idle" \/ owner = NoOne,
           batch'[p] = <<>>, \A q \in Pollers \ {p} : batch'[q] = batch[q],
           returned' = returned, recs' = recs, cons <= cons'
    PROVE  OrderInv'
<1>1. \A q \in Pollers : BatchOrder(q)'
  BY OthersEmpty, EmptyBatch
<1> QED BY <1>1, ReturnedKept DEF OrderInv

LEMMA OrderReturn ==
    ASSUME Inv, Inv', OrderInv, NEW p \in Pollers, pc[p] = "scan", Return(p)
    PROVE  OrderInv'
<1> DEFINE b == batch[p]
<1>1. /\ returned' = returned \o b /\ recs' = recs /\ cons' = cons
      /\ batch' = [batch EXCEPT ![p] = <<>>]
  BY DEF Return, Leave, Gone, shared
<1>2. /\ returned \in Seq(Nat) /\ b \in Seq(Nat) /\ batch \in [Pollers -> Seq(Nat)]
      /\ InOrder(returned) /\ InOrder(b)
      /\ PassedIn(recs, returned, cons) /\ PassedIn(recs, b, cons)
      /\ \A j \in DOMAIN returned, k \in DOMAIN b : returned[j] < b[k]
  BY DEF Inv, TypeOK, OrderInv, BatchOrder, Passed
<1> HIDE DEF b
<1>3. /\ DOMAIN returned' = 1 .. Len(returned) + Len(b)
      /\ DOMAIN returned = 1 .. Len(returned) /\ DOMAIN b = 1 .. Len(b)
      /\ Len(returned) \in Nat /\ Len(b) \in Nat
      /\ \A k \in 1 .. Len(returned) + Len(b) :
            returned'[k] = IF k <= Len(returned) THEN returned[k]
                           ELSE b[k - Len(returned)]
  BY <1>1, <1>2
<1>4. \A k \in DOMAIN returned' :
         \/ k \in DOMAIN returned /\ returned'[k] = returned[k]
         \/ /\ k - Len(returned) \in DOMAIN b /\ k \notin DOMAIN returned
            /\ returned'[k] = b[k - Len(returned)]
  BY <1>3
<1>5. InOrder(returned)'
  <2> SUFFICES ASSUME NEW i \in DOMAIN returned', NEW j \in DOMAIN returned', i < j
               PROVE  returned'[i] < returned'[j]
    BY DEF InOrder
  <2>1. CASE j \in DOMAIN returned
    BY <1>2, <1>3, <2>1 DEF InOrder
  <2>2. CASE i \in DOMAIN returned /\ j \notin DOMAIN returned
    BY <1>2, <1>4, <2>2
  <2>3. CASE i \notin DOMAIN returned
    <3>1. /\ i - Len(returned) \in DOMAIN b /\ j - Len(returned) \in DOMAIN b
          /\ i - Len(returned) < j - Len(returned)
          /\ returned'[i] = b[i - Len(returned)] /\ returned'[j] = b[j - Len(returned)]
      BY <1>3, <2>3
    <3> QED BY <1>2, <3>1 DEF InOrder
  <2> QED BY <1>3, <2>1, <2>2, <2>3
<1>6. Passed(returned, cons)'
  BY <1>1, <1>2, <1>4 DEF Passed, PassedIn
<1>7. \A q \in Pollers : BatchOrder(q)'
  <2>1. \A q \in Pollers : batch'[q] = <<>>
    BY <1>1, <1>2, OthersEmpty
  <2> QED BY <2>1, EmptyBatch
<1> QED BY <1>5, <1>6, <1>7 DEF OrderInv

(* TakeSample and SkipDiscarded: what was collected stays passed.          *)
LEMMA OrderAdvance ==
    ASSUME Inv, Inv', OrderInv, NEW p \in Pollers, TakeSample(p) \/ SkipDiscarded(p)
    PROVE  OrderInv'
<1>1. /\ UNCHANGED <<shared, batch, returned>> /\ pc[p] = "scan"
      /\ pos' = [pos EXCEPT ![p] = @ + RoundLength(HeaderAt(p).len)]
      /\ pc' = [pc EXCEPT ![p] = "copy"] \/ pc' = [pc EXCEPT ![p] = "store"]
  BY DEF TakeSample, SkipDiscarded, Scanning
<1>2. /\ pc \in [Pollers -> Places] /\ cons \in Nat /\ cons' = cons /\ recs' = recs
      /\ pos' \in [Pollers -> Nat]
  BY <1>1 DEF Inv, TypeOK, shared
<1>3. BatchOrder(p)'
  <2>1. BatchOrder(p) /\ PassedIn(recs, batch[p], cons)
    BY <1>1 DEF OrderInv, BatchOrder, Passed
  <2>2. pc'[p] = "store" => cons <= pos'[p]
    <3>1. ASSUME pc'[p] = "store" PROVE cons <= pos'[p]
      <4>1. PICK i \in 1 .. Len(recs) : Holds(p, i)'
        BY <1>2, <3>1 DEF Inv, ReaderPlace
      <4>2. cons = recs[i].start /\ pos'[p] = StartOf(i + 1) /\ StartOf(i) < StartOf(i + 1)
            /\ StartOf(i) = recs[i].start
        <5>1. cons' = recs'[i].start /\ pos'[p] = StartOf(i + 1)'
          BY <4>1 DEF Holds
        <5>2. StartOf(i + 1)' = StartOf(i + 1)
          BY <1>1, <1>2 DEF StartOf, shared
        <5>3. i + 1 \in 1 .. Len(recs) + 1 /\ i \in 1 .. Len(recs) + 1 /\ i < i + 1
          BY Boundaries
        <5> QED BY <1>2, <5>1, <5>2, <5>3, Boundaries DEF Inv, Layout
      <4> QED BY <1>2, <4>2
    <3> QED BY <3>1
  <2>3. pc'[p] = "store" => PassedIn(recs', batch[p], pos'[p])
    BY <1>2, <2>1, <2>2, PassedMono
  <2> QED BY <1>1, <1>2, <2>1, <2>3 DEF BatchOrder, Passed, InOrder
<1>4. \A q \in Pollers \ {p} : BatchOrder(q)'
  BY <1>1, OthersEmpty, EmptyBatch
<1> QED BY <1>1, <1>2, <1>3, <1>4, ReturnedKept DEF OrderInv

LEMMA OrderCallback ==
    ASSUME Inv, Inv', OrderInv, NEW p \in Pollers, Callback(p)
    PROVE  OrderInv'
<1> DEFINE b == batch[p]
           v == mem[At(start[p])]
<1>1. /\ pc[p] = "copy" /\ pc' = [pc EXCEPT ![p] = "store"]
      /\ batch' = [batch EXCEPT ![p] = Append(b, v)]
      /\ UNCHANGED <<shared, pos, returned>>
  BY DEF Callback, locals
<1>2. /\ batch \in [Pollers -> Seq(Nat)] /\ pc \in [Pollers -> Places]
      /\ returned \in Seq(Nat) /\ b \in Seq(Nat) /\ cons \in Nat /\ pos[p] \in Nat
      /\ recs' = recs /\ cons' = cons /\ mem' = mem
  BY <1>1 DEF Inv, TypeOK, shared
<1>3. PICK i \in 1 .. Len(recs) : Holds(p, i)
  BY <1>1 DEF Inv, ReaderPlace
<1>4. v = i /\ cons = recs[i].start
  <2>1. start[p] = recs[i].start /\ recs[i].start >= cons /\ cons = recs[i].start
    BY <1>2, <1>3, Boundaries DEF Holds, Record
  <2> QED BY <2>1 DEF Inv, RingIntact
<1>5. cons < pos[p]
  <2>1. i + 1 \in 1 .. Len(recs) + 1 /\ i \in 1 .. Len(recs) + 1 /\ i < i + 1
    BY Boundaries
  <2> QED BY <1>3, <1>4, <2>1, Boundaries DEF Inv, Layout, Holds
<1>6. /\ InOrder(b) /\ PassedIn(recs, b, cons) /\ PassedIn(recs, returned, cons)
      /\ \A j \in DOMAIN returned, k \in DOMAIN b : returned[j] < b[k]
  BY <1>1 DEF OrderInv, BatchOrder, Passed
<1> HIDE DEF b, v
<1>7. (\A k \in DOMAIN b : b[k] < i) /\ (\A k \in DOMAIN returned : returned[k] < i)
  BY <1>4, <1>6, PassedSmaller
<1>8. DEFINE c == Append(b, i)
<1>9. /\ DOMAIN b = 1 .. Len(b) /\ Len(b) \in Nat /\ DOMAIN c = 1 .. Len(b) + 1
      /\ \A k \in DOMAIN b : c[k] = b[k]
      /\ c[Len(b) + 1] = i
  BY <1>2, Boundaries
<1> HIDE DEF c
<1>10. \A k \in DOMAIN c : k \in DOMAIN b \/ k = Len(b) + 1
  BY <1>9
<1>11. BatchOrder(p)'
  <2>1. batch'[p] = c /\ pc'[p] = "store" /\ pos'[p] = pos[p] /\ returned' = returned
    BY <1>1, <1>2, <1>4 DEF c
  <2>2. InOrder(c)
    BY <1>6, <1>7, <1>9, <1>10 DEF InOrder
  <2>3. PassedIn(recs, c, pos[p])
    <3>1. PassedIn(recs', b, pos[p])
      BY <1>2, <1>5, <1>6, PassedMono
    <3>2. i \in DOMAIN recs /\ recs[i].start < pos[p]
      BY <1>4, <1>5, Boundaries
    <3> QED BY <1>2, <1>9, <1>10, <3>1, <3>2 DEF PassedIn
  <2>4. \A j \in DOMAIN returned, k \in DOMAIN c : returned[j] < c[k]
    BY <1>6, <1>7, <1>9, <1>10
  <2> QED BY <1>2, <2>1, <2>2, <2>3, <2>4 DEF BatchOrder, Passed
<1>12. \A q \in Pollers \ {p} : BatchOrder(q)'
  BY <1>1, <1>2, OthersEmpty, EmptyBatch
<1> QED BY <1>1, <1>2, <1>11, <1>12, ReturnedKept DEF OrderInv

LEMMA OrderStore ==
    ASSUME Inv, Inv', OrderInv, NEW p \in Pollers, StoreConsumerPos(p)
    PROVE  OrderInv'
<1>1. /\ pc[p] = "store" /\ pc' = [pc EXCEPT ![p] = "scan"] /\ cons' = pos[p]
      /\ UNCHANGED <<recs, batch, returned>>
  BY DEF StoreConsumerPos
<1>2. cons <= cons' /\ pc'[p] = "scan"
  <2>1. Inv /\ [Next]_vars
    BY DEF Next, PollStep
  <2>2. cons' >= cons \/ cons' = cons
    BY <2>1, ConsSteps DEF SettledOnly
  <2> QED BY <1>1, <2>2 DEF Inv, TypeOK
<1>3. BatchOrder(p)'
  BY <1>1, <1>2 DEF OrderInv, BatchOrder, Passed, InOrder
<1>4. \A q \in Pollers \ {p} : BatchOrder(q)'
  BY <1>1, OthersEmpty, EmptyBatch
<1> QED BY <1>1, <1>2, <1>3, <1>4, ReturnedKept DEF OrderInv

LEMMA NextOrder == Inv /\ Inv' /\ OrderInv /\ [Next]_vars => OrderInv'
<1> SUFFICES ASSUME Inv, Inv', OrderInv, [Next]_vars PROVE OrderInv'
  OBVIOUS
<1>1. cons <= cons' /\ batch \in [Pollers -> Seq(Nat)] /\ pc \in [Pollers -> Places]
  <2>1. cons' >= cons \/ cons' = cons
    BY ConsSteps DEF SettledOnly
  <2>2. cons' \in Nat
    BY DEF Inv, TypeOK
  <2>3. cons \in Nat /\ batch \in [Pollers -> Seq(Nat)] /\ pc \in [Pollers -> Places]
    BY DEF Inv, TypeOK
  <2> QED BY <2>1, <2>2, <2>3
<1>2. CASE KernelStep
  BY <1>2, OrderKernel
<1>3. ASSUME NEW p \in Pollers, PollStep(p) PROVE OrderInv'
  <2>1. CASE Open(p) \/ WaitData(p) \/ LoadPositions(p)
    <3>1. /\ pc[p] \in {"idle", "open", "load"} /\ (pc[p] # "idle" \/ owner = NoOne)
          /\ UNCHANGED <<shared, batch, returned>>
      BY <2>1 DEF Open, Lock, WaitData, LoadPositions
    <3>2. batch[p] = <<>>
      BY <3>1 DEF OrderInv, BatchOrder
    <3> QED BY <1>1, <3>1, <3>2, OrderEmpty DEF shared
  <2>2. CASE WaitEmpty(p) \/ RejectSize(p)
    <3>1. /\ pc[p] # "idle" /\ batch' = [batch EXCEPT ![p] = <<>>]
          /\ UNCHANGED <<recs, returned>>
      BY <2>2 DEF WaitEmpty, RejectSize, Scanning, Leave, Gone, shared
    <3> QED BY <1>1, <3>1, OrderEmpty
  <2>3. CASE ReturnAtEnd(p) \/ ReturnAtBusy(p)
    BY <2>3, OrderReturn DEF ReturnAtEnd, ReturnAtBusy, Scanning
  <2>4. CASE TakeSample(p) \/ SkipDiscarded(p)
    BY <2>4, OrderAdvance
  <2>5. CASE Callback(p)
    BY <2>5, OrderCallback
  <2>6. CASE StoreConsumerPos(p)
    BY <2>6, OrderStore
  <2> QED BY <1>3, <2>1, <2>2, <2>3, <2>4, <2>5, <2>6 DEF PollStep
<1>4. ASSUME NEW p \in Pollers, Crash(p) PROVE OrderInv'
  <2>1. /\ pc[p] # "idle" /\ batch' = [batch EXCEPT ![p] = <<>>]
        /\ UNCHANGED <<recs, returned>>
    BY <1>4 DEF Crash, Gone, shared
  <2> QED BY <1>1, <2>1, OrderEmpty
<1>5. CASE UNCHANGED vars
  BY <1>5 DEF vars, OrderInv, BatchOrder, Passed, PassedIn, InOrder
<1> QED BY <1>2, <1>3, <1>4, <1>5 DEF Next

(* Over all readers, crashes included, values are returned in the order of *)
(* the records and never twice.                                            *)
THEOREM InOrderOnce == Spec => []ReturnedInOrderOnce
<1>1. Init => OrderInv
  BY DEF Init, OrderInv, BatchOrder, Passed, PassedIn, InOrder
<1>2. OrderInv => ReturnedInOrderOnce
  BY DEF OrderInv, ReturnedInOrderOnce
<1> QED BY <1>1, <1>2, Invariance, NextOrder, PTL DEF Spec

-------------------------------------------------------------------------------
(* Nothing is lost.  A record is good or bad for ever once the consumer    *)
(* position has passed it, and the value of a good one is in the batch     *)
(* before the position moves.                                              *)

Undisturbed == crashes = 0 /\ ~\E i \in DOMAIN recs : Consumed(i) /\ WrongSize(i)

InBatch(p, i) == \E k \in DOMAIN batch[p] : batch[p][k] = i
Heard(i) == (\E k \in DOMAIN returned : returned[k] = i) \/ \E p \in Pollers : InBatch(p, i)

LossInv ==
    /\ \A i \in DOMAIN recs : Consumed(i) => recs[i].st # "busy"
    /\ \A p \in Pollers : pc[p] = "store" =>
           \A i \in DOMAIN recs : Holds(p, i) /\ Good(i) => InBatch(p, i)
    /\ Undisturbed => \A i \in DOMAIN recs : Consumed(i) /\ Good(i) => Heard(i)

(* A step of p that consumes nothing and forgets nothing.                  *)
LEMMA LossKept ==
    ASSUME LossInv, UNCHANGED shared, crashes' = crashes, NEW p \in Pollers,
           pc \in [Pollers -> Places], pc' = [pc EXCEPT ![p] = pc'[p]], pc'[p] # "store",
           \A q \in Pollers \ {p} : pos'[q] = pos[q] /\ start'[q] = start[q],
           \A q \in Pollers \ {p} : batch'[q] = batch[q],
           \A i \in DOMAIN recs : Heard(i) => Heard(i)'
    PROVE  LossInv'
<1>1. \A i \in DOMAIN recs : /\ Consumed(i)' <=> Consumed(i)
                             /\ Good(i)' <=> Good(i)
                             /\ WrongSize(i)' <=> WrongSize(i)
  BY DEF shared, Consumed, Good, WrongSize
<1>2. ASSUME NEW q \in Pollers, pc'[q] = "store", NEW i \in DOMAIN recs, Holds(q, i)', Good(i)'
      PROVE  InBatch(q, i)'
  <2>1. q # p /\ pc[q] = "store"
    BY <1>2
  <2>2. Holds(q, i)
    BY <1>2, <2>1 DEF Holds, shared, StartOf
  <2> QED BY <1>1, <1>2, <2>1, <2>2 DEF LossInv, InBatch
<1>3. recs' = recs /\ cons' = cons
  BY DEF shared
<1> QED BY <1>1, <1>2, <1>3 DEF LossInv, Undisturbed

LEMMA LossReserve ==
    ASSUME Inv, LossInv, NEW len \in Lens, Reserve(len)
    PROVE  LossInv'
<1>1. /\ recs \in Seq(Record) /\ prod \in Nat /\ cons \in Nat /\ cons <= prod
      /\ recs' = Append(recs, [start |-> prod, len |-> len, st |-> "busy"])
      /\ UNCHANGED <<cons, pc, pos, start, batch, returned, crashes>>
  BY DEF Inv, TypeOK, Reserve, locals
<1>0. PICK last : last = Len(recs) + 1
  OBVIOUS
<1>2. /\ Len(recs) \in Nat /\ DOMAIN recs = 1 .. Len(recs) /\ DOMAIN recs' = 1 .. last
      /\ \A i \in DOMAIN recs : recs'[i] = recs[i]
      /\ recs'[last].start = prod /\ recs'[last].st = "busy"
  BY <1>0, <1>1
<1>3. \A i \in DOMAIN recs' : i \in DOMAIN recs \/ i = last
  BY <1>0, <1>2
<1>4. ~Consumed(last)' /\ ~Good(last)'
  <2>1. cons' = cons /\ cons \in Nat /\ prod \in Nat /\ cons <= prod
    BY <1>1
  <2>2. recs'[last].start = prod /\ recs'[last].st = "busy"
    BY <1>2
  <2>3. ~(recs'[last].start < cons')
    BY <2>1, <2>2
  <2> QED BY <2>2, <2>3 DEF Consumed, Good
<1>5. \A i \in DOMAIN recs : /\ Consumed(i)' <=> Consumed(i)
                             /\ Good(i)' <=> Good(i)
                             /\ WrongSize(i)' <=> WrongSize(i)
                             /\ i \in DOMAIN recs'
  BY <1>0, <1>1, <1>2 DEF Consumed, Good, WrongSize
<1>6. ASSUME NEW q \in Pollers, pc'[q] = "store", NEW i \in DOMAIN recs, Holds(q, i)', Good(i)'
      PROVE  InBatch(q, i)'
  <2>1. Holds(q, i)
    <3>1. StartOf(i + 1)' = StartOf(i + 1)
      <4>1. CASE i + 1 \in DOMAIN recs
        BY <1>2, <1>5, <4>1 DEF StartOf
      <4>2. CASE i + 1 \notin DOMAIN recs
        <5>1. i + 1 = last
          BY <1>0, <1>2, <4>2
        <5>2. last \in DOMAIN recs'
          BY <1>0, <1>2
        <5> QED BY <1>2, <4>2, <5>1, <5>2 DEF StartOf
      <4> QED BY <4>1, <4>2
    <3> QED BY <1>1, <1>2, <1>6, <3>1 DEF Holds
  <2> QED BY <1>1, <1>5, <1>6, <2>1 DEF LossInv, InBatch
<1>7. \A i \in DOMAIN recs : Heard(i)' <=> Heard(i)
  BY <1>1 DEF Heard, InBatch
<1>8. Undisturbed' => Undisturbed
  BY <1>1, <1>5 DEF Undisturbed
<1>9. \A i \in DOMAIN recs' : Consumed(i)' => recs'[i].st # "busy"
  BY <1>2, <1>3, <1>4, <1>5 DEF LossInv
<1>10. Undisturbed' => \A i \in DOMAIN recs' : Consumed(i)' /\ Good(i)' => Heard(i)'
  BY <1>3, <1>4, <1>5, <1>7, <1>8 DEF LossInv
<1>11. \A q \in Pollers : pc'[q] = "store" =>
          \A i \in DOMAIN recs' : Holds(q, i)' /\ Good(i)' => InBatch(q, i)'
  BY <1>3, <1>4, <1>6
<1> QED BY <1>9, <1>10, <1>11 DEF LossInv

(* A record settles before it is consumed or held.                         *)
LEMMA LossSettle ==
    ASSUME Inv, LossInv, NEW i \in DOMAIN recs, NEW st \in {"ready", "discard"}, Settle(i, st)
    PROVE  LossInv'
<1>1. /\ recs[i].st = "busy" /\ recs' = [recs EXCEPT ![i].st = st]
      /\ UNCHANGED <<prod, cons, pc, pos, start, batch, returned, crashes>>
      /\ recs \in Seq(Record)
  BY DEF Settle, locals, Inv, TypeOK
<1>2. /\ DOMAIN recs' = DOMAIN recs /\ recs'[i].start = recs[i].start /\ recs'[i].st = st
      /\ \A j \in DOMAIN recs \ {i} : recs'[j] = recs[j]
  <2>1. recs[i] \in Record
    BY <1>1
  <2> QED BY <1>1, <2>1 DEF Record
<1>3. ~Consumed(i) /\ \A j \in DOMAIN recs : Consumed(j)' <=> Consumed(j)
  BY <1>1, <1>2 DEF LossInv, Consumed
<1>4. \A j \in DOMAIN recs \ {i} : (Good(j)' <=> Good(j)) /\ (WrongSize(j)' <=> WrongSize(j))
  BY <1>2 DEF Good, WrongSize
<1>5. ASSUME NEW q \in Pollers, pc'[q] = "store", NEW j \in DOMAIN recs, Holds(q, j)', Good(j)'
      PROVE  InBatch(q, j)'
  <2>1. PICK h \in 1 .. Len(recs) : Holds(q, h)
    BY <1>1, <1>5 DEF Inv, ReaderPlace
  <2>2. recs'[j].start = cons /\ recs[j].start = cons /\ recs[h].start = cons /\ h # i
    BY <1>1, <1>2, <1>5, <2>1 DEF Holds
  <2>3. j = h
    <3>1. /\ j \in 1 .. Len(recs) /\ Len(recs) \in Nat
          /\ StartOf(j) = cons /\ StartOf(h) = cons /\ cons \in Nat
      BY <2>2, Boundaries DEF Inv, TypeOK
    <3>2. (j < h => StartOf(j) < StartOf(h)) /\ (h < j => StartOf(h) < StartOf(j))
      BY <3>1 DEF Inv, Layout
    <3> QED BY <3>1, <3>2
  <2>4. Good(j)
    BY <1>4, <1>5, <2>2, <2>3
  <2> QED BY <1>1, <1>5, <2>1, <2>3, <2>4 DEF LossInv, InBatch
<1>6. \A j \in DOMAIN recs : Heard(j)' <=> Heard(j)
  BY <1>1 DEF Heard, InBatch
<1>7. Undisturbed' => Undisturbed
  BY <1>1, <1>2, <1>3, <1>4 DEF Undisturbed
<1>8. \A j \in DOMAIN recs' : Consumed(j)' => recs'[j].st # "busy"
  BY <1>2, <1>3 DEF LossInv
<1>9. Undisturbed' => \A j \in DOMAIN recs' : Consumed(j)' /\ Good(j)' => Heard(j)'
  BY <1>2, <1>3, <1>4, <1>6, <1>7 DEF LossInv
<1>10. \A q \in Pollers : pc'[q] = "store" =>
          \A j \in DOMAIN recs' : Holds(q, j)' /\ Good(j)' => InBatch(q, j)'
  BY <1>2, <1>5
<1> QED BY <1>8, <1>9, <1>10 DEF LossInv

(* The value of record i joins the batch of the poller that holds it.      *)
LEMMA LossCallback ==
    ASSUME Inv, LossInv, NEW p \in Pollers, Callback(p)
    PROVE  LossInv'
<1>1. /\ pc[p] = "copy" /\ pc' = [pc EXCEPT ![p] = "store"]
      /\ batch' = [batch EXCEPT ![p] = Append(batch[p], mem[At(start[p])])]
      /\ UNCHANGED <<prod, cons, recs, mem, pos, start, returned, crashes>>
      /\ batch \in [Pollers -> Seq(Nat)] /\ pc \in [Pollers -> Places] /\ cons \in Nat
  BY DEF Callback, locals, shared, Inv, TypeOK
<1>2. PICK i \in 1 .. Len(recs) : Holds(p, i)
  BY <1>1 DEF Inv, ReaderPlace
<1>3. mem[At(start[p])] = i /\ recs[i].start = cons
  <2>1. start[p] = recs[i].start /\ recs[i].start >= cons /\ cons = recs[i].start
    BY <1>1, <1>2 DEF Holds
  <2> QED BY <2>1 DEF Inv, RingIntact
<1>4. /\ batch'[p] = Append(batch[p], i) /\ batch[p] \in Seq(Nat) /\ i \in Nat
      /\ \A q \in Pollers \ {p} : batch'[q] = batch[q] /\ pc'[q] = pc[q]
  BY <1>1, <1>3, Boundaries
<1>5. /\ Len(batch'[p]) \in DOMAIN batch'[p] /\ batch'[p][Len(batch'[p])] = i
      /\ \A k \in DOMAIN batch[p] : k \in DOMAIN batch'[p] /\ batch'[p][k] = batch[p][k]
  BY <1>4
<1>6. InBatch(p, i)' /\ \A q \in Pollers : \A j \in DOMAIN recs : InBatch(q, j) => InBatch(q, j)'
  BY <1>4, <1>5 DEF InBatch
<1>7. \A j \in DOMAIN recs : /\ Consumed(j)' <=> Consumed(j)
                             /\ Good(j)' <=> Good(j)
                             /\ WrongSize(j)' <=> WrongSize(j)
                             /\ \A q \in Pollers : Holds(q, j)' <=> Holds(q, j)
  BY <1>1 DEF Consumed, Good, WrongSize, Holds, StartOf
<1>8. \A j \in DOMAIN recs : Holds(p, j) => j = i
  <2> SUFFICES ASSUME NEW j \in DOMAIN recs, recs[j].start = cons PROVE j = i
    BY DEF Holds
  <2>1. /\ j \in 1 .. Len(recs) /\ Len(recs) \in Nat
        /\ StartOf(j) = cons /\ StartOf(i) = cons
    BY <1>3, Boundaries
  <2>2. (j < i => StartOf(j) < StartOf(i)) /\ (i < j => StartOf(i) < StartOf(j))
    BY <2>1 DEF Inv, Layout
  <2> QED BY <1>1, <2>1, <2>2
<1>9. \A q \in Pollers : pc'[q] = "store" =>
         \A j \in DOMAIN recs' : Holds(q, j)' /\ Good(j)' => InBatch(q, j)'
  BY <1>1, <1>4, <1>6, <1>7, <1>8 DEF LossInv
<1>10. \A j \in DOMAIN recs : Heard(j) => Heard(j)'
  BY <1>1, <1>6 DEF Heard
<1>11. Undisturbed' => Undisturbed
  BY <1>1, <1>7 DEF Undisturbed
<1> QED BY <1>1, <1>7, <1>9, <1>10, <1>11 DEF LossInv

(* A discarded record has no value to keep.                                *)
LEMMA LossSkip ==
    ASSUME Inv, Inv', LossInv, NEW p \in Pollers, SkipDiscarded(p)
    PROVE  LossInv'
<1>1. /\ pc[p] = "scan" /\ ~CaughtUp(p) /\ HeaderAt(p).st = "discard"
      /\ pc' = [pc EXCEPT ![p] = "store"]
      /\ start' = [start EXCEPT ![p] = pos[p]]
      /\ pos' = [pos EXCEPT ![p] = pos[p] + RoundLength(HeaderAt(p).len)]
      /\ UNCHANGED <<prod, cons, recs, mem, batch, returned, crashes>>
  BY DEF SkipDiscarded, Scanning, shared
<1>2. /\ pc \in [Pollers -> Places] /\ start \in [Pollers -> Nat] /\ pos \in [Pollers -> Nat]
      /\ cons \in Nat
  BY DEF Inv, TypeOK
<1>3. PICK i \in 1 .. Len(recs) : pos[p] = recs[i].start /\ pos[p] = cons /\ HeaderAt(p) = recs[i]
  BY <1>1, HeaderRead
<1>4. ~Good(i)' /\ recs'[i].start = cons'
  BY <1>1, <1>3 DEF Good
<1>5. \A j \in DOMAIN recs : Holds(p, j)' => j = i
  <2> SUFFICES ASSUME NEW j \in DOMAIN recs, recs[j].start = cons PROVE j = i
    BY <1>1 DEF Holds
  <2>1. /\ j \in 1 .. Len(recs) /\ Len(recs) \in Nat
        /\ StartOf(j) = cons /\ StartOf(i) = cons
    BY <1>3, Boundaries
  <2>2. (j < i => StartOf(j) < StartOf(i)) /\ (i < j => StartOf(i) < StartOf(j))
    BY <2>1 DEF Inv, Layout
  <2> QED BY <1>2, <2>1, <2>2
<1>6. \A j \in DOMAIN recs : /\ Consumed(j)' <=> Consumed(j)
                             /\ Good(j)' <=> Good(j)
                             /\ WrongSize(j)' <=> WrongSize(j)
                             /\ Heard(j)' <=> Heard(j)
                             /\ \A q \in Pollers : InBatch(q, j)' <=> InBatch(q, j)
  BY <1>1 DEF Consumed, Good, WrongSize, Heard, InBatch
<1>7. ASSUME NEW q \in Pollers \ {p}, NEW j \in DOMAIN recs
      PROVE  pc'[q] = pc[q] /\ (Holds(q, j)' <=> Holds(q, j))
  BY <1>1, <1>2 DEF Holds, StartOf
<1>8. \A q \in Pollers : pc'[q] = "store" =>
         \A j \in DOMAIN recs' : Holds(q, j)' /\ Good(j)' => InBatch(q, j)'
  BY <1>1, <1>4, <1>5, <1>6, <1>7 DEF LossInv
<1>9. Undisturbed' => Undisturbed
  BY <1>1, <1>6 DEF Undisturbed
<1> QED BY <1>1, <1>6, <1>8, <1>9 DEF LossInv

(* The consumer position passes the record that is held, and its value is  *)
(* in the batch if it has one.                                             *)
LEMMA LossStore ==
    ASSUME Inv, LossInv, NEW p \in Pollers, StoreConsumerPos(p)
    PROVE  LossInv'
<1>1. /\ pc[p] = "store" /\ pc' = [pc EXCEPT ![p] = "scan"] /\ cons' = pos[p]
      /\ UNCHANGED <<prod, recs, mem, pos, start, batch, returned, crashes>>
      /\ pc \in [Pollers -> Places]
  BY DEF StoreConsumerPos, locals, Inv, TypeOK
<1>2. PICK i \in 1 .. Len(recs) : Holds(p, i)
  BY <1>1 DEF Inv, ReaderPlace
<1>3. cons' >= cons /\ \A k \in DOMAIN recs : Consumed(k)' => Consumed(k) \/ k = i
  BY <1>1, <1>2, OneConsumed DEF Holds
<1>4. /\ recs[i].st # "busy" /\ i \in DOMAIN recs
      /\ Good(i) => InBatch(p, i)
  BY <1>1, <1>2, Boundaries DEF LossInv, Holds
<1>5. \A k \in DOMAIN recs : /\ Good(k)' <=> Good(k)
                             /\ WrongSize(k)' <=> WrongSize(k)
                             /\ Heard(k)' <=> Heard(k)
                             /\ Consumed(k) => Consumed(k)'
  <2>1. \A k \in DOMAIN recs : recs[k].start \in Nat
    BY Boundaries DEF Record
  <2>2. cons \in Nat /\ cons' \in Nat
    BY <1>1 DEF Inv, TypeOK
  <2> QED BY <1>1, <1>3, <2>1, <2>2 DEF Good, WrongSize, Heard, InBatch, Consumed
<1>6. Undisturbed' => Undisturbed
  BY <1>1, <1>5 DEF Undisturbed
<1>7. \A q \in Pollers : pc'[q] # "store"
  <2>1. \A q \in Pollers \ {p} : pc[q] = "idle"
    BY <1>1 DEF Inv, Exclusive
  <2> QED BY <1>1, <2>1
<1>8. Good(i) => Heard(i)
  BY <1>4 DEF Heard
<1>9. Undisturbed' => \A k \in DOMAIN recs' : Consumed(k)' /\ Good(k)' => Heard(k)'
  BY <1>1, <1>3, <1>5, <1>6, <1>8 DEF LossInv
<1>10. \A k \in DOMAIN recs' : Consumed(k)' => recs'[k].st # "busy"
  BY <1>1, <1>3, <1>4 DEF LossInv
<1> QED BY <1>7, <1>9, <1>10 DEF LossInv

(* A sample of another size is consumed: from then on nothing is promised. *)
LEMMA LossReject ==
    ASSUME Inv, LossInv, NEW p \in Pollers, RejectSize(p)
    PROVE  LossInv'
<1>1. /\ pc[p] = "scan" /\ ~CaughtUp(p) /\ HeaderAt(p).st = "ready"
      /\ HeaderAt(p).len # ValueLen
      /\ cons' = pos[p] + RoundLength(HeaderAt(p).len)
      /\ pc' = [pc EXCEPT ![p] = "idle"]
      /\ UNCHANGED <<prod, recs, mem>>
      /\ pc \in [Pollers -> Places]
  BY DEF RejectSize, Scanning, Leave, Gone, Inv, TypeOK
<1>2. PICK i \in 1 .. Len(recs) :
          pos[p] = recs[i].start /\ pos[p] = cons /\ HeaderAt(p) = recs[i]
  BY <1>1, HeaderRead
<1>3. cons' = StartOf(i + 1)
  <2>1. RoundLength(recs[i].len) = RecordWords(recs[i].len)
    BY <1>2, Boundaries, LengthsAgree DEF Record
  <2> QED BY <1>1, <1>2, <2>1 DEF Inv, Layout
<1>4. \A k \in DOMAIN recs : Consumed(k)' => Consumed(k) \/ k = i
  BY <1>1, <1>2, <1>3, OneConsumed
<1>5. cons' > cons
  BY <1>1, <1>2, <1>3, ConsumeOne
<1>6. i \in DOMAIN recs /\ Consumed(i)' /\ WrongSize(i)' /\ recs[i].st = "ready"
  BY <1>1, <1>2, <1>5, Boundaries DEF Consumed, WrongSize, Inv, TypeOK
<1>7. ~Undisturbed'
  BY <1>1, <1>6 DEF Undisturbed
<1>8. \A q \in Pollers : pc'[q] # "store"
  <2>1. \A q \in Pollers \ {p} : pc[q] = "idle"
    BY <1>1 DEF Inv, Exclusive
  <2> QED BY <1>1, <2>1
<1>9. \A k \in DOMAIN recs' : Consumed(k)' => recs'[k].st # "busy"
  BY <1>1, <1>4, <1>6 DEF LossInv
<1> QED BY <1>7, <1>8, <1>9 DEF LossInv

(* The batch is returned: no other poller holds one.                       *)
LEMMA LossReturn ==
    ASSUME Inv, OrderInv, LossInv, NEW p \in Pollers, pc[p] = "scan", Return(p)
    PROVE  LossInv'
<1>1. /\ returned' = returned \o batch[p] /\ UNCHANGED shared /\ crashes' = crashes
      /\ pc' = [pc EXCEPT ![p] = "idle"] /\ pc \in [Pollers -> Places]
      /\ pos' = [pos EXCEPT ![p] = 0] /\ start' = [start EXCEPT ![p] = 0]
      /\ batch' = [batch EXCEPT ![p] = <<>>]
      /\ returned \in Seq(Nat) /\ batch \in [Pollers -> Seq(Nat)]
      /\ pos \in [Pollers -> Nat] /\ start \in [Pollers -> Nat]
  BY DEF Return, Leave, Gone, Inv, TypeOK
<1>2. ASSUME NEW i \in DOMAIN recs, Heard(i) PROVE Heard(i)'
  <2> DEFINE b == batch[p]
             n == Len(returned)
  <2>1. /\ b \in Seq(Nat) /\ n \in Nat /\ Len(b) \in Nat /\ DOMAIN b = 1 .. Len(b)
        /\ DOMAIN returned = 1 .. n /\ DOMAIN returned' = 1 .. n + Len(b)
        /\ \A k \in 1 .. n : returned'[k] = returned[k]
        /\ \A k \in 1 .. Len(b) : returned'[n + k] = b[k]
    BY <1>1
  <2>2. \A q \in Pollers \ {p} : ~InBatch(q, i)
    BY OthersEmpty DEF InBatch
  <2>3. (\E k \in DOMAIN returned : returned[k] = i) \/ \E k \in DOMAIN b : b[k] = i
    BY <1>2, <2>2 DEF Heard, InBatch
  <2> HIDE DEF b, n
  <2>4. \A k \in 1 .. Len(b) : n + k \in 1 .. n + Len(b)
    BY <2>1
  <2>5. \A k \in 1 .. n : k \in 1 .. n + Len(b)
    BY <2>1
  <2>6. \E k \in DOMAIN returned' : returned'[k] = i
    BY <2>1, <2>3, <2>4, <2>5
  <2> QED BY <2>6 DEF Heard
<1>3. pc'[p] = "idle"
  BY <1>1
<1> QED BY <1>1, <1>2, <1>3, LossKept

LEMMA LossNext == Inv /\ Inv' /\ OrderInv /\ LossInv /\ [Next]_vars => LossInv'
<1> SUFFICES ASSUME Inv, Inv', OrderInv, LossInv, [Next]_vars PROVE LossInv'
  OBVIOUS
<1>0. /\ pc \in [Pollers -> Places] /\ batch \in [Pollers -> Seq(Nat)]
      /\ pos \in [Pollers -> Nat] /\ start \in [Pollers -> Nat] /\ crashes \in Nat
  <2>1. crashes \in 0 .. MaxCrashes /\ MaxCrashes \in Nat
    BY RingAssumption DEF Inv, TypeOK
  <2>2. crashes \in Nat
    BY <2>1
  <2> QED BY <2>2 DEF Inv, TypeOK
<1>1. CASE KernelStep
  BY <1>1, LossReserve, LossSettle DEF KernelStep
<1>2. ASSUME NEW p \in Pollers, PollStep(p) PROVE LossInv'
  <2>1. CASE Open(p) \/ WaitData(p) \/ LoadPositions(p) \/ TakeSample(p)
    <3>1. /\ UNCHANGED <<shared, batch, returned, crashes>>
          /\ \E place \in {"open", "load", "scan", "copy"} : pc' = [pc EXCEPT ![p] = place]
          /\ \A q \in Pollers \ {p} : pos'[q] = pos[q] /\ start'[q] = start[q]
      BY <1>0, <2>1 DEF Open, Lock, WaitData, LoadPositions, TakeSample, locals
    <3>2. pc'[p] # "store" /\ pc' = [pc EXCEPT ![p] = pc'[p]]
      BY <1>0, <3>1
    <3>3. \A i \in DOMAIN recs : Heard(i) => Heard(i)'
      BY <3>1 DEF Heard, InBatch
    <3> QED BY <1>0, <3>1, <3>2, <3>3, LossKept
  <2>2. CASE WaitEmpty(p)
    <3>1. /\ pc[p] = "open" /\ UNCHANGED <<shared, returned, crashes>>
          /\ pc' = [pc EXCEPT ![p] = "idle"] /\ pos' = [pos EXCEPT ![p] = 0]
          /\ start' = [start EXCEPT ![p] = 0] /\ batch' = [batch EXCEPT ![p] = <<>>]
      BY <2>2 DEF WaitEmpty, Leave, Gone
    <3>2. batch' = batch
      <4>1. batch[p] = <<>>
        BY <3>1 DEF OrderInv, BatchOrder
      <4> QED BY <1>0, <3>1, <4>1
    <3>3. \A i \in DOMAIN recs : Heard(i) => Heard(i)'
      BY <3>1, <3>2 DEF Heard, InBatch
    <3>4. /\ pc'[p] # "store" /\ pc' = [pc EXCEPT ![p] = pc'[p]]
          /\ \A q \in Pollers \ {p} : pos'[q] = pos[q] /\ start'[q] = start[q]
      BY <1>0, <3>1
    <3> QED BY <1>0, <3>1, <3>2, <3>3, <3>4, LossKept
  <2>3. CASE RejectSize(p)
    BY <2>3, LossReject
  <2>4. CASE ReturnAtEnd(p) \/ ReturnAtBusy(p)
    BY <2>4, LossReturn DEF ReturnAtEnd, ReturnAtBusy, Scanning
  <2>5. CASE SkipDiscarded(p)
    BY <2>5, LossSkip
  <2>6. CASE Callback(p)
    BY <2>6, LossCallback
  <2>7. CASE StoreConsumerPos(p)
    BY <2>7, LossStore
  <2> QED BY <1>2, <2>1, <2>2, <2>3, <2>4, <2>5, <2>6, <2>7 DEF PollStep
<1>3. ASSUME NEW p \in Pollers, Crash(p) PROVE LossInv'
  <2>1. /\ UNCHANGED <<recs, cons>> /\ crashes' = crashes + 1
        /\ pc[p] # "idle" /\ pc' = [pc EXCEPT ![p] = "idle"]
    BY <1>3 DEF Crash, Gone, shared
  <2>2. ~Undisturbed'
    BY <1>0, <2>1 DEF Undisturbed
  <2>3. \A q \in Pollers : pc'[q] # "store"
    <3>1. \A q \in Pollers \ {p} : pc[q] = "idle"
      BY <2>1 DEF Inv, Exclusive
    <3> QED BY <1>0, <2>1, <3>1
  <2> QED BY <2>1, <2>2, <2>3 DEF LossInv, Consumed
<1>4. CASE UNCHANGED vars
  <2>1. UNCHANGED <<prod, cons, recs, pc, pos, start, batch, returned, crashes>>
    BY <1>4 DEF vars, shared, locals
  <2>2. \A q \in Pollers : pc'[q] = "store" =>
           \A i \in DOMAIN recs' : Holds(q, i)' /\ Good(i)' => InBatch(q, i)'
    BY <2>1 DEF LossInv, Holds, StartOf, Good, InBatch
  <2>3. Undisturbed' => Undisturbed
    BY <2>1 DEF Undisturbed, Consumed, WrongSize
  <2>4. Undisturbed' => \A i \in DOMAIN recs' : Consumed(i)' /\ Good(i)' => Heard(i)'
    BY <2>1, <2>3 DEF LossInv, Consumed, Good, Heard, InBatch
  <2>5. \A i \in DOMAIN recs' : Consumed(i)' => recs'[i].st # "busy"
    BY <2>1 DEF LossInv, Consumed
  <2> QED BY <2>2, <2>4, <2>5 DEF LossInv
<1> QED BY <1>1, <1>2, <1>3, <1>4 DEF Next

(* NoSilentLoss holds for every ring, every set of lengths and any number  *)
(* of pollers: ConsumeAll hands over each good record it passes.           *)
THEOREM NoLoss == Spec => []NoSilentLoss
<1>1. Init => LossInv
  BY DEF Init, LossInv
<1>2. LossInv => NoSilentLoss
  BY DEF LossInv, Undisturbed, Heard, InBatch, NoSilentLoss
<1>3. Spec => []OrderInv
  <2>1. Init => OrderInv
    BY DEF Init, OrderInv, BatchOrder, Passed, PassedIn, InOrder
  <2> QED BY <2>1, Invariance, NextOrder, PTL DEF Spec
<1> QED BY <1>1, <1>2, <1>3, Invariance, LossNext, PTL DEF Spec

-------------------------------------------------------------------------------
(* The front of the queue is the record at the consumer position.          *)
LEMMA FirstUnique ==
    Inv => \A c \in 1 .. Len(recs) + 1 : StartOf(c) = cons => FirstPending = c
<1> SUFFICES ASSUME Inv, NEW c \in 1 .. Len(recs) + 1, StartOf(c) = cons
             PROVE  FirstPending = c
  OBVIOUS
<1> DEFINE AtFront(i) == /\ i \in DOMAIN recs => ~Consumed(i)
                         /\ \A j \in 1 .. i - 1 : Consumed(j)
<1>1. /\ Len(recs) \in Nat /\ DOMAIN recs = 1 .. Len(recs) /\ cons \in Nat
      /\ \A i \in 1 .. Len(recs) : StartOf(i) = recs[i].start /\ recs[i].start \in Nat
      /\ \A i, j \in 1 .. Len(recs) + 1 : i < j => StartOf(i) < StartOf(j)
  BY Boundaries DEF Inv, TypeOK, Layout, Record
<1>2. \A j \in 1 .. Len(recs) : Consumed(j) <=> j < c
  <2> SUFFICES ASSUME NEW j \in 1 .. Len(recs) PROVE Consumed(j) <=> j < c
    OBVIOUS
  <2>1. j \in 1 .. Len(recs) + 1 /\ (j < c \/ j = c \/ c < j)
    BY <1>1
  <2>2. /\ j < c => StartOf(j) < StartOf(c)
        /\ c < j => StartOf(c) < StartOf(j)
    BY <1>1, <2>1
  <2> QED BY <1>1, <2>1, <2>2 DEF Consumed
<1>3. AtFront(c)
  BY <1>1, <1>2
<1>4. \A i \in 1 .. Len(recs) + 1 : AtFront(i) => i = c
  <2> SUFFICES ASSUME NEW i \in 1 .. Len(recs) + 1, AtFront(i) PROVE i = c
    OBVIOUS
  <2>1. ~(i < c)
    BY <1>1, <1>2
  <2>2. ~(c < i)
    BY <1>1, <1>2
  <2> QED BY <1>1, <2>1, <2>2
<1>5. FirstPending = CHOOSE i \in 1 .. Len(recs) + 1 : AtFront(i)
  BY DEF FirstPending
<1> HIDE DEF AtFront
<1> QED BY <1>3, <1>4, <1>5

LEMMA FirstUniqueNext ==
    Inv' => \A c \in 1 .. Len(recs') + 1 : StartOf(c)' = cons' => FirstPending' = c
<1>1. (Inv => \A c \in 1 .. Len(recs) + 1 : StartOf(c) = cons => FirstPending = c)'
  BY FirstUnique, PTL
<1> QED BY <1>1

(* The events of a ring whose front is record c.                           *)
EventOf(i) == [id |-> i, st |-> QueueStatus(i)]

LEMMA PendingFrom ==
    ASSUME Inv, NEW c \in 1 .. Len(recs) + 1, StartOf(c) = cons
    PROVE  PendingEvents = [k \in 1 .. Len(recs) + 1 - c |-> EventOf(c + k - 1)]
BY FirstUnique DEF PendingEvents, EventOf

LEMMA PendingFromNext ==
    ASSUME Inv', NEW c \in 1 .. Len(recs') + 1, StartOf(c)' = cons'
    PROVE  PendingEvents' = [k \in 1 .. Len(recs') + 1 - c |-> EventOf(c + k - 1)']
BY FirstUniqueNext DEF PendingEvents, EventOf

LEMMA PendingKept ==
    ASSUME UNCHANGED <<cons, recs>>
    PROVE  PendingEvents' = PendingEvents
BY DEF PendingEvents, FirstPending, Consumed, QueueStatus, WrongSize

(* The front of the queue leaves it when the consumer position passes one  *)
(* record.                                                                 *)
LEMMA FrontLeaves ==
    ASSUME Inv, Inv', NEW i \in 1 .. Len(recs), cons = recs[i].start,
           cons' = StartOf(i + 1), UNCHANGED <<prod, recs, mem>>
    PROVE  /\ PendingEvents # <<>>
           /\ Head(PendingEvents) = EventOf(i)
           /\ PendingEvents' = Tail(PendingEvents)
<1>1. /\ Len(recs) \in Nat /\ StartOf(i) = cons
      /\ i \in 1 .. Len(recs) + 1 /\ i + 1 \in 1 .. Len(recs) + 1
  BY Boundaries
<1>2. \A k : StartOf(k)' = StartOf(k)
  BY DEF StartOf
<1>3. PendingEvents = [k \in 1 .. Len(recs) + 1 - i |-> EventOf(i + k - 1)]
  BY <1>1, PendingFrom
<1>4. PendingEvents' = [k \in 1 .. Len(recs) - i |-> EventOf(i + k)]
  <2> DEFINE c == i + 1
  <2>1. c \in 1 .. Len(recs') + 1 /\ StartOf(c)' = cons'
    BY <1>1, <1>2
  <2> HIDE DEF c
  <2>2. PendingEvents' = [k \in 1 .. Len(recs') + 1 - c |-> EventOf(c + k - 1)']
    BY <2>1, PendingFromNext
  <2>3. \A k : EventOf(k)' = EventOf(k)
    BY DEF EventOf, QueueStatus, WrongSize
  <2>4. PendingEvents' = [k \in 1 .. Len(recs) + 1 - c |-> EventOf(c + k - 1)]
    BY <2>2, <2>3
  <2>5. Len(recs) + 1 - c = Len(recs) - i
    BY <1>1 DEF c
  <2>6. \A k \in 1 .. Len(recs) - i : c + k - 1 = i + k
    BY <1>1 DEF c
  <2> QED BY <2>4, <2>5, <2>6
<1>5. PICK n \in Nat \ {0} : n = Len(recs) + 1 - i
  BY <1>1
<1>6. PendingEvents = [k \in 1 .. n |-> EventOf(i + k - 1)]
  BY <1>3, <1>5
<1> DEFINE P == PendingEvents
<1> DEFINE S == {EventOf(k) : k \in Nat}
<1>7. P \in Seq(S) /\ Len(P) = n /\ P[1] = EventOf(i)
  <2>1. \A k \in 1 .. n : EventOf(i + k - 1) \in S
    BY <1>1
  <2>2. i + 1 - 1 = i /\ 1 \in 1 .. n
    BY <1>1
  <2> HIDE DEF S
  <2>3. P \in [1 .. n -> S] /\ P[1] = EventOf(i)
    BY <1>6, <2>1, <2>2
  <2> HIDE DEF P
  <2>4. P \in Seq(S) /\ DOMAIN P = 1 .. n
    BY <2>3
  <2>5. Len(P) = n
    BY <2>4
  <2> QED BY <2>3, <2>4, <2>5
<1> HIDE DEF S
<1>8. P # <<>> /\ Head(P) = P[1] /\ Tail(P) = [k \in 1 .. n - 1 |-> P[k + 1]]
  <2> HIDE DEF P
  <2>1. P # <<>>
    BY <1>7
  <2>2. /\ Tail(P) \in Seq(S) /\ Len(Tail(P)) = n - 1
        /\ \A k \in 1 .. n - 1 : Tail(P)[k] = P[k + 1]
    BY <1>7, <2>1, HeadTailProperties
  <2>3. Tail(P) = [k \in 1 .. n - 1 |-> P[k + 1]]
    <3> DEFINE t == Tail(P)
               m == n - 1
    <3>1. t \in [1 .. m -> S] /\ \A k \in 1 .. m : t[k] = P[k + 1]
      BY <2>2, LenProperties
    <3> HIDE DEF t, m
    <3>2. t = [k \in 1 .. m |-> P[k + 1]]
      BY <3>1
    <3> QED BY <3>2 DEF t, m
  <2> QED BY <1>7, <2>1, <2>3
<1>9. \A k \in 1 .. n - 1 : P[k + 1] = EventOf(i + k)
  <2>1. \A k \in 1 .. n - 1 : k + 1 \in 1 .. n /\ i + (k + 1) - 1 = i + k
    BY <1>1
  <2> QED BY <1>6, <2>1
<1>10. n - 1 = Len(recs) - i
  BY <1>1, <1>5
<1> QED BY <1>4, <1>7, <1>8, <1>9, <1>10

(* A reservation goes to the end of the queue.                             *)
LEMMA BackGrows ==
    ASSUME Inv, Inv', NEW len \in Lens, Reserve(len)
    PROVE  /\ Len(recs') = Len(recs) + 1
           /\ PendingEvents' = Append(PendingEvents, [id |-> Len(recs) + 1, st |-> "busy"])
<1>1. /\ recs \in Seq(Record) /\ Len(recs) \in Nat /\ cons' = cons
      /\ recs' = Append(recs, [start |-> prod, len |-> len, st |-> "busy"])
  BY DEF Inv, TypeOK, Reserve
<1>2. PICK c \in 1 .. Len(recs) + 1 : StartOf(c) = cons
  BY DEF Inv, ConsAtRecord
<1>3. PICK last : last = Len(recs) + 1
  OBVIOUS
<1>4. /\ Len(recs') = last /\ DOMAIN recs' = 1 .. last /\ DOMAIN recs = 1 .. Len(recs)
      /\ \A i \in 1 .. Len(recs) : recs'[i] = recs[i]
      /\ recs'[last].start = prod /\ recs'[last].st = "busy"
  BY <1>1, <1>3
<1>5. StartOf(c)' = cons'
  <2>1. CASE c \in 1 .. Len(recs)
    <3>1. c \in 1 .. last
      BY <1>1, <1>3, <2>1
    <3> QED BY <1>1, <1>2, <1>4, <2>1, <3>1 DEF StartOf
  <2>2. CASE c = last
    <3>1. last \in 1 .. last /\ last \notin 1 .. Len(recs)
      BY <1>1, <1>3
    <3> QED BY <1>1, <1>2, <1>4, <2>2, <3>1 DEF StartOf
  <2> QED BY <1>1, <1>3, <2>1, <2>2
<1>6. c \in 1 .. Len(recs') + 1
  BY <1>1, <1>2, <1>3, <1>4
<1>7. PendingEvents = [k \in 1 .. Len(recs) + 1 - c |-> EventOf(c + k - 1)]
  BY <1>2, PendingFrom
<1>8. PendingEvents' = [k \in 1 .. last + 1 - c |-> EventOf(c + k - 1)']
  BY <1>4, <1>5, <1>6, PendingFromNext
<1>9. /\ \A i \in 1 .. Len(recs) : EventOf(i)' = EventOf(i)
      /\ EventOf(last)' = [id |-> last, st |-> "busy"]
  BY <1>4 DEF EventOf, QueueStatus, WrongSize
<1>10. PICK n \in Nat : n = Len(recs) + 1 - c
  BY <1>1, <1>2
<1> DEFINE S == {EventOf(k) : k \in Nat} \cup {[id |-> last, st |-> "busy"]}
           P == PendingEvents
           e == [id |-> last, st |-> "busy"]
<1>11. P \in [1 .. n -> S] /\ e \in S
  <2>1. \A k \in 1 .. n : c + k - 1 \in Nat
    BY <1>1, <1>2, <1>10
  <2> QED BY <1>7, <1>10, <2>1
<1>12. \A k \in 1 .. n : P[k] = EventOf(c + k - 1) /\ c + k - 1 \in 1 .. Len(recs)
  <2>1. \A k \in 1 .. n : c + k - 1 \in 1 .. Len(recs)
    BY <1>1, <1>2, <1>10
  <2> QED BY <1>7, <1>10, <2>1
<1>13. PendingEvents' = [k \in 1 .. n + 1 |-> IF k = n + 1 THEN e ELSE P[k]]
  <2>1. last + 1 - c = n + 1 /\ c + (n + 1) - 1 = last
    BY <1>1, <1>2, <1>3, <1>10
  <2>2. \A k \in 1 .. n + 1 : k \in 1 .. n \/ k = n + 1
    BY <1>10
  <2>3. \A k \in 1 .. n + 1 : EventOf(c + k - 1)' = IF k = n + 1 THEN e ELSE P[k]
    <3> SUFFICES ASSUME NEW k \in 1 .. n + 1
                 PROVE  EventOf(c + k - 1)' = IF k = n + 1 THEN e ELSE P[k]
      OBVIOUS
    <3>1. CASE k \in 1 .. n
      <4>1. k # n + 1
        BY <1>10, <3>1
      <4> HIDE DEF P
      <4> QED BY <1>9, <1>12, <3>1, <4>1
    <3>2. CASE k = n + 1
      BY <1>9, <2>1, <3>2
    <3> QED BY <2>2, <3>1, <3>2
  <2> HIDE DEF P, e
  <2> QED BY <1>8, <2>1, <2>3
<1> HIDE DEF S, P, e
<1>14. P \in Seq(S) /\ Len(P) = n
  <2>1. P \in Seq(S) /\ DOMAIN P = 1 .. n
    BY <1>10, <1>11
  <2> QED BY <1>10, <2>1, LenProperties
<1>15. Append(P, e) = [k \in 1 .. n + 1 |-> IF k = n + 1 THEN e ELSE P[k]]
  <2> DEFINE t == Append(P, e)
             m == n + 1
  <2>1. /\ t \in Seq(S) /\ Len(t) = m /\ t[m] = e
        /\ \A k \in 1 .. n : t[k] = P[k]
    BY <1>10, <1>11, <1>14, AppendProperties
  <2>2. \A k \in 1 .. m : t[k] = IF k = m THEN e ELSE P[k]
    <3>1. \A k \in 1 .. m : k \in 1 .. n \/ k = m
      BY <1>10
    <3> HIDE DEF t, m
    <3> QED BY <2>1, <3>1
  <2> HIDE DEF t, m
  <2>3. t \in [1 .. m -> S]
    BY <2>1, LenProperties
  <2>4. t = [k \in 1 .. m |-> IF k = m THEN e ELSE P[k]]
    BY <2>2, <2>3
  <2> QED BY <2>4 DEF t, m
<1> QED BY <1>3, <1>4, <1>13, <1>15 DEF P, e

(* A record settles in its place of the queue.                             *)
LEMMA OneSettles ==
    ASSUME Inv, Inv', LossInv, NEW i \in DOMAIN recs, NEW st \in {"ready", "discard"},
           Settle(i, st)
    PROVE  /\ Len(recs') = Len(recs)
           /\ \E k \in DOMAIN PendingEvents, s \in {"ready", "discard", "bad"} :
                 /\ PendingEvents[k].st = "busy"
                 /\ PendingEvents' = [PendingEvents EXCEPT ![k].st = s]
<1>1. /\ recs[i].st = "busy" /\ recs' = [recs EXCEPT ![i].st = st]
      /\ prod' = prod /\ cons' = cons /\ recs \in Seq(Record)
  BY DEF Settle, Inv, TypeOK
<1>2. /\ DOMAIN recs' = DOMAIN recs /\ Len(recs') = Len(recs) /\ Len(recs) \in Nat
      /\ DOMAIN recs = 1 .. Len(recs)
      /\ recs'[i].start = recs[i].start /\ recs'[i].st = st
      /\ \A j \in DOMAIN recs \ {i} : recs'[j] = recs[j]
  <2>1. recs[i] \in Record
    BY <1>1
  <2> QED BY <1>1, <2>1 DEF Record
<1>3. PICK c \in 1 .. Len(recs) + 1 : StartOf(c) = cons
  BY DEF Inv, ConsAtRecord
<1>4. StartOf(c)' = cons'
  BY <1>1, <1>2, <1>3 DEF StartOf
<1>5. i \in c .. Len(recs)
  <2>1. ~Consumed(i) /\ i \in 1 .. Len(recs)
    BY <1>1, <1>2 DEF LossInv
  <2>2. i < c => StartOf(i) < StartOf(c)
    BY <1>2, <2>1 DEF Inv, Layout
  <2> QED BY <1>2, <1>3, <2>1, <2>2, Boundaries DEF Consumed
<1>6. PendingEvents = [k \in 1 .. Len(recs) + 1 - c |-> EventOf(c + k - 1)]
  BY <1>3, PendingFrom
<1>7. PendingEvents' = [k \in 1 .. Len(recs) + 1 - c |-> EventOf(c + k - 1)']
  BY <1>2, <1>3, <1>4, PendingFromNext
<1>8. PICK s \in {"ready", "discard", "bad"} : QueueStatus(i)' = s
  BY <1>2 DEF QueueStatus
<1>9. /\ EventOf(i).st = "busy" /\ EventOf(i)' = [EventOf(i) EXCEPT !.st = s]
      /\ \A j \in DOMAIN recs \ {i} : EventOf(j)' = EventOf(j)
  BY <1>1, <1>2, <1>8 DEF EventOf, QueueStatus, WrongSize
<1>10. PICK n \in Nat : n = Len(recs) + 1 - c
  BY <1>2, <1>3
<1>11. PICK m \in 1 .. n : c + m - 1 = i
  <2>1. i - c + 1 \in 1 .. n /\ c + (i - c + 1) - 1 = i
    BY <1>2, <1>3, <1>5, <1>10
  <2> QED BY <2>1
<1>12. \A k \in 1 .. n : /\ c + k - 1 \in DOMAIN recs
                         /\ k # m => c + k - 1 # i
  BY <1>2, <1>3, <1>5, <1>10, <1>11
<1> DEFINE P == PendingEvents
<1>13. DOMAIN P = 1 .. n /\ \A k \in 1 .. n : P[k] = EventOf(c + k - 1)
  BY <1>6, <1>10
<1>14. P' = [k \in 1 .. n |-> IF k = m THEN [P[m] EXCEPT !.st = s] ELSE P[k]]
  <2>1. \A k \in 1 .. n : EventOf(c + k - 1)' = IF k = m THEN [P[m] EXCEPT !.st = s] ELSE P[k]
    <3> SUFFICES ASSUME NEW k \in 1 .. n
                 PROVE  EventOf(c + k - 1)' = IF k = m THEN [P[m] EXCEPT !.st = s] ELSE P[k]
      OBVIOUS
    <3> HIDE DEF P
    <3>1. CASE k = m
      BY <1>9, <1>11, <1>13, <3>1
    <3>2. CASE k # m
      BY <1>9, <1>12, <1>13, <3>2
    <3> QED BY <3>1, <3>2
  <2> QED BY <1>7, <1>10, <2>1
<1>15. P' = [P EXCEPT ![m].st = s]
  <2>1. P = [k \in 1 .. n |-> P[k]]
    BY <1>6, <1>10
  <2> QED BY <1>13, <1>14, <2>1
<1>16. m \in DOMAIN P /\ P[m].st = "busy"
  BY <1>9, <1>11, <1>13
<1> QED BY <1>2, <1>8, <1>15, <1>16

-------------------------------------------------------------------------------
(* What the reader has taken.  While it holds a record the newest value of *)
(* its batch is the one of that record, unless the record has none.        *)

Skipped(p, i) == recs[i].st = "discard" /\ Passed(batch[p], cons)

Collected(p, i) ==
    Good(i) /\ batch[p] # <<>> /\ batch[p][Len(batch[p])] = i

HeldInv ==
    \A p \in Pollers : pc[p] = "store" =>
        \E i \in DOMAIN recs : Holds(p, i) /\ (Skipped(p, i) \/ Collected(p, i))

LEMMA OwnerOf ==
    ASSUME Inv, NEW p \in Pollers, pc[p] # "idle"
    PROVE  owner = p /\ owner # NoOne
BY NoOneAssumption DEF Inv, Exclusive

LEMMA TakenPassed ==
    Inv => \A p \in Pollers :
              pc[p] # "idle" /\ Passed(batch[p], cons) => TakenEvents = batch[p]
<1> SUFFICES ASSUME Inv, NEW p \in Pollers, pc[p] # "idle", Passed(batch[p], cons)
             PROVE  TakenEvents = batch[p]
  OBVIOUS
<1>1. owner = p /\ owner # NoOne
  BY OwnerOf
<1>2. batch[p] # <<>> => Consumed(batch[p][Len(batch[p])])
  <2>1. batch[p] \in Seq(Nat)
    BY DEF Inv, TypeOK
  <2>2. batch[p] # <<>> => Len(batch[p]) \in DOMAIN batch[p]
    BY <2>1
  <2> QED BY <2>2 DEF Passed, PassedIn, Consumed
<1> QED BY <1>1, <1>2 DEF TakenEvents

LEMMA TakenPassedNext ==
    Inv' => \A p \in Pollers :
              pc'[p] # "idle" /\ Passed(batch[p], cons)' => TakenEvents' = batch'[p]
<1>1. (Inv => \A p \in Pollers :
              pc[p] # "idle" /\ Passed(batch[p], cons) => TakenEvents = batch[p])'
  BY TakenPassed, PTL
<1> QED BY <1>1

(* The value of a record that is held is not taken yet.                    *)
LEMMA TakenHeld ==
    Inv => \A p \in Pollers, i \in 1 .. Len(recs) :
              pc[p] # "idle" /\ cons = recs[i].start /\ Collected(p, i) =>
                  TakenEvents = SubSeq(batch[p], 1, Len(batch[p]) - 1)
<1> SUFFICES ASSUME Inv, NEW p \in Pollers, NEW i \in 1 .. Len(recs), pc[p] # "idle",
                    cons = recs[i].start, Collected(p, i)
             PROVE  TakenEvents = SubSeq(batch[p], 1, Len(batch[p]) - 1)
  OBVIOUS
<1>1. owner = p /\ owner # NoOne
  BY OwnerOf
<1>2. batch[p] # <<>> /\ ~Consumed(batch[p][Len(batch[p])])
  BY DEF Collected, Consumed, Inv, TypeOK
<1> QED BY <1>1, <1>2 DEF TakenEvents

LEMMA TakenHeldNext ==
    Inv' => \A p \in Pollers, i \in 1 .. Len(recs') :
              pc'[p] # "idle" /\ cons' = recs'[i].start /\ Collected(p, i)' =>
                  TakenEvents' = SubSeq(batch'[p], 1, Len(batch'[p]) - 1)
<1>1. (Inv => \A p \in Pollers, i \in 1 .. Len(recs) :
              pc[p] # "idle" /\ cons = recs[i].start /\ Collected(p, i) =>
                  TakenEvents = SubSeq(batch[p], 1, Len(batch[p]) - 1))'
  BY TakenHeld, PTL
<1> QED BY <1>1

LEMMA TakenKept ==
    ASSUME UNCHANGED <<cons, recs, owner, batch>>
    PROVE  TakenEvents' = TakenEvents
BY DEF TakenEvents, Consumed

-------------------------------------------------------------------------------
(* HeldInv is kept.                                                        *)
LEMMA HeldKept ==
    ASSUME HeldInv, DOMAIN recs \subseteq DOMAIN recs', cons' = cons,
           \A i \in DOMAIN recs :
              /\ recs'[i].start = recs[i].start
              /\ recs'[i].len = recs[i].len
              /\ recs[i].st # "busy" => recs'[i].st = recs[i].st,
           \A i \in DOMAIN recs : StartOf(i + 1)' = StartOf(i + 1),
           UNCHANGED <<pc, start, pos, batch>>
    PROVE  HeldInv'
<1> SUFFICES ASSUME NEW q \in Pollers, pc'[q] = "store"
             PROVE  \E i \in DOMAIN recs' :
                       Holds(q, i)' /\ (Skipped(q, i)' \/ Collected(q, i)')
  BY DEF HeldInv
<1>1. PICK i \in DOMAIN recs : Holds(q, i) /\ (Skipped(q, i) \/ Collected(q, i))
  BY DEF HeldInv
<1>2. Holds(q, i)'
  BY <1>1 DEF Holds
<1>3. recs'[i].st = recs[i].st
  BY <1>1 DEF Holds
<1>4. Skipped(q, i) => Skipped(q, i)'
  BY <1>3 DEF Skipped, Passed, PassedIn
<1>5. Collected(q, i) => Collected(q, i)'
  BY <1>3 DEF Collected, Good
<1> QED BY <1>1, <1>2, <1>4, <1>5

LEMMA HeldReserve ==
    ASSUME Inv, HeldInv, NEW len \in Lens, Reserve(len)
    PROVE  HeldInv'
<1>1. /\ recs \in Seq(Record) /\ DOMAIN recs = 1 .. Len(recs) /\ Len(recs) \in Nat
      /\ recs' = Append(recs, [start |-> prod, len |-> len, st |-> "busy"])
      /\ UNCHANGED <<cons, pc, start, pos, batch>>
  BY DEF Inv, TypeOK, Reserve, locals
<1>2. PICK last : last = Len(recs) + 1
  OBVIOUS
<1>3. /\ DOMAIN recs' = 1 .. last /\ DOMAIN recs \subseteq DOMAIN recs'
      /\ \A i \in DOMAIN recs : recs'[i] = recs[i]
      /\ recs'[last].start = prod
  BY <1>1, <1>2
<1>4. \A i \in DOMAIN recs : StartOf(i + 1)' = StartOf(i + 1)
  <2> SUFFICES ASSUME NEW i \in DOMAIN recs PROVE StartOf(i + 1)' = StartOf(i + 1)
    OBVIOUS
  <2>1. CASE i + 1 \in DOMAIN recs
    BY <1>3, <2>1 DEF StartOf
  <2>2. CASE i + 1 \notin DOMAIN recs
    <3>1. i + 1 = last /\ last \in 1 .. last
      BY <1>1, <1>2, <2>2
    <3> QED BY <1>3, <2>2, <3>1 DEF StartOf
  <2> QED BY <2>1, <2>2
<1> QED BY <1>1, <1>3, <1>4, HeldKept

LEMMA HeldSettle ==
    ASSUME Inv, HeldInv, NEW i \in DOMAIN recs, NEW st \in {"ready", "discard"}, Settle(i, st)
    PROVE  HeldInv'
<1>1. /\ recs[i].st = "busy" /\ recs' = [recs EXCEPT ![i].st = st]
      /\ UNCHANGED <<prod, cons, pc, start, pos, batch>> /\ recs \in Seq(Record)
  BY DEF Settle, locals, Inv, TypeOK
<1>2. /\ DOMAIN recs' = DOMAIN recs
      /\ recs'[i].start = recs[i].start /\ recs'[i].len = recs[i].len
      /\ \A j \in DOMAIN recs \ {i} : recs'[j] = recs[j]
  <2>1. recs[i] \in Record
    BY <1>1
  <2> QED BY <1>1, <2>1 DEF Record
<1>3. \A j : StartOf(j)' = StartOf(j)
  BY <1>1, <1>2 DEF StartOf
<1>4. \A j \in DOMAIN recs :
        /\ recs'[j].start = recs[j].start
        /\ recs'[j].len = recs[j].len
        /\ recs[j].st # "busy" => recs'[j].st = recs[j].st
  BY <1>1, <1>2
<1> QED BY <1>1, <1>2, <1>3, <1>4, HeldKept

(* A step of p that leaves it elsewhere leaves nobody at "store".          *)
LEMMA HeldNone ==
    ASSUME Inv, NEW p \in Pollers, pc[p] # "idle" \/ owner = NoOne, pc'[p] # "store",
           \A q \in Pollers \ {p} : pc'[q] = pc[q]
    PROVE  HeldInv'
<1>1. \A q \in Pollers \ {p} : pc[q] = "idle"
  BY NoOneAssumption DEF Inv, Exclusive
<1> QED BY <1>1 DEF HeldInv

LEMMA HeldBy ==
    ASSUME Inv, NEW p \in Pollers, pc[p] # "idle",
           \A q \in Pollers \ {p} : pc'[q] = pc[q],
           \E i \in DOMAIN recs' : Holds(p, i)' /\ (Skipped(p, i)' \/ Collected(p, i)')
    PROVE  HeldInv'
<1>1. \A q \in Pollers \ {p} : pc[q] = "idle"
  BY NoOneAssumption DEF Inv, Exclusive
<1> QED BY <1>1 DEF HeldInv

LEMMA HeldSkip ==
    ASSUME Inv, Inv', OrderInv, NEW p \in Pollers, SkipDiscarded(p)
    PROVE  HeldInv'
<1>1. /\ pc[p] = "scan" /\ ~CaughtUp(p) /\ HeaderAt(p).st = "discard"
      /\ pc' = [pc EXCEPT ![p] = "store"]
      /\ start' = [start EXCEPT ![p] = pos[p]]
      /\ pos' = [pos EXCEPT ![p] = pos[p] + RoundLength(HeaderAt(p).len)]
      /\ UNCHANGED <<prod, cons, recs, mem, batch>>
      /\ pc \in [Pollers -> Places] /\ start \in [Pollers -> Nat] /\ pos \in [Pollers -> Nat]
  BY DEF SkipDiscarded, Scanning, shared, Inv, TypeOK
<1>2. PICK i \in 1 .. Len(recs) : pos[p] = recs[i].start /\ pos[p] = cons /\ HeaderAt(p) = recs[i]
  BY <1>1, HeaderRead
<1>3. pos'[p] = StartOf(i + 1) /\ i \in DOMAIN recs
  <2>1. RoundLength(recs[i].len) = RecordWords(recs[i].len) /\ i \in DOMAIN recs
    BY <1>2, Boundaries, LengthsAgree DEF Record
  <2> QED BY <1>1, <1>2, <2>1 DEF Inv, Layout
<1>4. Holds(p, i)'
  <2>1. StartOf(i + 1)' = StartOf(i + 1)
    BY <1>1 DEF StartOf
  <2> QED BY <1>1, <1>2, <1>3, <2>1 DEF Holds
<1>5. Skipped(p, i)'
  BY <1>1, <1>2 DEF Skipped, OrderInv, BatchOrder, Passed, PassedIn
<1>6. i \in DOMAIN recs'
  BY <1>1, <1>3
<1> QED BY <1>1, <1>4, <1>5, <1>6, HeldBy

LEMMA HeldCallback ==
    ASSUME Inv, NEW p \in Pollers, Callback(p)
    PROVE  /\ HeldInv'
           /\ \E i \in DOMAIN recs :
                /\ cons' = recs'[i].start
                /\ Collected(p, i)'
                /\ batch'[p] = Append(batch[p], i)
<1>1. /\ pc[p] = "copy" /\ pc' = [pc EXCEPT ![p] = "store"]
      /\ batch' = [batch EXCEPT ![p] = Append(batch[p], mem[At(start[p])])]
      /\ UNCHANGED <<prod, cons, recs, mem, pos, start>>
      /\ batch \in [Pollers -> Seq(Nat)] /\ pc \in [Pollers -> Places] /\ cons \in Nat
  BY DEF Callback, locals, shared, Inv, TypeOK
<1>2. PICK i \in 1 .. Len(recs) : Holds(p, i) /\ Good(i)
  BY <1>1 DEF Inv, ReaderPlace
<1>3. mem[At(start[p])] = i /\ recs[i].start = cons /\ i \in DOMAIN recs /\ i \in Nat
  <2>1. start[p] = recs[i].start /\ recs[i].start >= cons /\ cons = recs[i].start
    BY <1>1, <1>2 DEF Holds
  <2> QED BY <2>1, Boundaries DEF Inv, RingIntact
<1>4. batch'[p] = Append(batch[p], i) /\ batch[p] \in Seq(Nat)
  BY <1>1, <1>3
<1>5. batch'[p] # <<>> /\ batch'[p][Len(batch'[p])] = i
  BY <1>3, <1>4
<1>6. Holds(p, i)' /\ Collected(p, i)'
  BY <1>1, <1>2, <1>5 DEF Holds, Collected, Good, StartOf
<1>7. HeldInv'
  BY <1>1, <1>3, <1>6, HeldBy
<1> QED BY <1>1, <1>3, <1>4, <1>6, <1>7

LEMMA HeldNext == Inv /\ Inv' /\ OrderInv /\ HeldInv /\ [Next]_vars => HeldInv'
<1> SUFFICES ASSUME Inv, Inv', OrderInv, HeldInv, [Next]_vars PROVE HeldInv'
  OBVIOUS
<1>0. pc \in [Pollers -> Places]
  BY DEF Inv, TypeOK
<1>1. CASE KernelStep
  BY <1>1, HeldReserve, HeldSettle DEF KernelStep
<1>2. ASSUME NEW p \in Pollers, PollStep(p) PROVE HeldInv'
  <2>1. CASE Open(p) \/ WaitData(p) \/ LoadPositions(p) \/ TakeSample(p)
    <3>1. /\ pc[p] # "idle" \/ owner = NoOne
          /\ \E place \in {"open", "load", "scan", "copy"} : pc' = [pc EXCEPT ![p] = place]
      BY <2>1 DEF Open, Lock, WaitData, LoadPositions, TakeSample, Scanning
    <3>2. pc'[p] # "store" /\ \A q \in Pollers \ {p} : pc'[q] = pc[q]
      BY <1>0, <3>1
    <3> QED BY <3>1, <3>2, HeldNone
  <2>2. CASE WaitEmpty(p) \/ RejectSize(p) \/ ReturnAtEnd(p) \/ ReturnAtBusy(p)
    <3>1. pc[p] # "idle" /\ pc' = [pc EXCEPT ![p] = "idle"]
      BY <2>2 DEF WaitEmpty, RejectSize, ReturnAtEnd, ReturnAtBusy, Return, Scanning, Leave, Gone
    <3>2. pc'[p] # "store" /\ \A q \in Pollers \ {p} : pc'[q] = pc[q]
      BY <1>0, <3>1
    <3> QED BY <3>1, <3>2, HeldNone
  <2>3. CASE SkipDiscarded(p)
    BY <2>3, HeldSkip
  <2>4. CASE Callback(p)
    BY <2>4, HeldCallback
  <2>5. CASE StoreConsumerPos(p)
    <3>1. pc[p] # "idle" /\ pc' = [pc EXCEPT ![p] = "scan"]
      BY <2>5 DEF StoreConsumerPos
    <3>2. pc'[p] # "store" /\ \A q \in Pollers \ {p} : pc'[q] = pc[q]
      BY <1>0, <3>1
    <3> QED BY <3>1, <3>2, HeldNone
  <2> QED BY <1>2, <2>1, <2>2, <2>3, <2>4, <2>5 DEF PollStep
<1>3. ASSUME NEW p \in Pollers, Crash(p) PROVE HeldInv'
  <2>1. pc[p] # "idle" /\ pc' = [pc EXCEPT ![p] = "idle"]
    BY <1>3 DEF Crash, Gone
  <2>2. pc'[p] # "store" /\ \A q \in Pollers \ {p} : pc'[q] = pc[q]
    BY <1>0, <2>1
  <2> QED BY <2>1, <2>2, HeldNone
<1>4. CASE UNCHANGED vars
  <2>1. UNCHANGED <<prod, cons, recs, pc, start, pos, batch>>
    BY <1>4 DEF vars, shared, locals
  <2>2. \A i : StartOf(i)' = StartOf(i)
    BY <2>1 DEF StartOf
  <2> QED BY <2>1, <2>2, HeldKept
<1> QED BY <1>1, <1>2, <1>3, <1>4 DEF Next

-------------------------------------------------------------------------------
(* Each step of the ring buffer is a step of the queue or changes nothing  *)
(* of it.                                                                  *)

AllInv == Inv /\ OrderInv /\ LossInv /\ HeldInv

(* The kernel's steps leave alone what has been taken.                     *)
LEMMA TakenWaits ==
    ASSUME AllInv, UNCHANGED <<cons, owner, batch>>,
           \A i \in DOMAIN recs : recs'[i].start = recs[i].start
    PROVE  TakenEvents' = TakenEvents
<1>1. CASE owner = NoOne
  BY <1>1 DEF TakenEvents
<1>2. CASE owner # NoOne
  <2>1. owner \in Pollers /\ batch[owner] \in Seq(Nat)
    BY <1>2 DEF AllInv, Inv, TypeOK
  <2>2. ASSUME batch[owner] # <<>>
        PROVE  batch[owner][Len(batch[owner])] \in DOMAIN recs
    <3>1. Len(batch[owner]) \in DOMAIN batch[owner]
      BY <2>1, <2>2
    <3>2. Passed(batch[owner], cons) \/ Passed(batch[owner], pos[owner])
      <4>1. pc[owner] \in Places /\ BatchOrder(owner)
        BY <2>1 DEF AllInv, Inv, TypeOK, OrderInv
      <4> QED BY <4>1, <2>2 DEF BatchOrder, Places
    <3> QED BY <3>1, <3>2 DEF Passed, PassedIn
  <2>3. batch[owner] # <<>> => (Consumed(batch[owner][Len(batch[owner])])'
                                 <=> Consumed(batch[owner][Len(batch[owner])]))
    BY <2>2 DEF Consumed
  <2> QED BY <1>2, <2>3 DEF TakenEvents
<1> QED BY <1>1, <1>2

LEMMA PostStep ==
    ASSUME AllInv, AllInv', NEW len \in Lens, Reserve(len)
    PROVE  Queue!Post
<1>1. /\ Len(recs') = Len(recs) + 1
      /\ PendingEvents' = Append(PendingEvents, [id |-> Len(recs) + 1, st |-> "busy"])
  BY BackGrows DEF AllInv
<1>2. Len(recs) < MaxRecords /\ UNCHANGED <<cons, owner, batch, returned>>
  BY DEF Reserve
<1>3. \A i \in DOMAIN recs : recs'[i].start = recs[i].start
  <2>1. /\ recs' = Append(recs, [start |-> prod, len |-> len, st |-> "busy"])
        /\ recs \in Seq(Record)
    BY DEF Reserve, AllInv, Inv, TypeOK
  <2> QED BY <2>1
<1>4. TakenEvents' = TakenEvents
  BY <1>2, <1>3, TakenWaits
<1> QED BY <1>1, <1>2, <1>4 DEF Queue!Post

LEMMA SettleStep ==
    ASSUME AllInv, AllInv', NEW i \in DOMAIN recs, NEW st \in {"ready", "discard"},
           Settle(i, st)
    PROVE  Queue!Settle
<1>1. /\ Len(recs') = Len(recs)
      /\ \E k \in DOMAIN PendingEvents, s \in {"ready", "discard", "bad"} :
            /\ PendingEvents[k].st = "busy"
            /\ PendingEvents' = [PendingEvents EXCEPT ![k].st = s]
  BY OneSettles DEF AllInv
<1>2. UNCHANGED <<cons, owner, batch, returned>> /\ recs' = [recs EXCEPT ![i].st = st]
      /\ recs \in Seq(Record)
  BY DEF Settle, AllInv, Inv, TypeOK
<1>3. \A j \in DOMAIN recs : recs'[j].start = recs[j].start
  <2>1. \A j \in DOMAIN recs : recs[j] \in Record
    BY <1>2
  <2> QED BY <1>2, <2>1 DEF Record
<1>4. TakenEvents' = TakenEvents
  BY <1>2, <1>3, TakenWaits
<1> QED BY <1>1, <1>2, <1>4 DEF Queue!Settle, Queue!Settled

(* Inside the call, between two records.                                   *)
LEMMA InnerStep ==
    ASSUME AllInv, AllInv', NEW p \in Pollers,
           \/ Open(p) \/ WaitEmpty(p) \/ WaitData(p) \/ LoadPositions(p)
           \/ TakeSample(p) \/ SkipDiscarded(p) \/ Callback(p)
    PROVE  UNCHANGED <<Len(recs), PendingEvents, TakenEvents, returned>>
<1>1. UNCHANGED <<cons, recs, returned>>
  BY DEF Open, Lock, WaitEmpty, WaitData, LoadPositions, TakeSample, SkipDiscarded, Callback, shared
<1>2. PendingEvents' = PendingEvents
  BY <1>1, PendingKept
<1>3. TakenEvents' = TakenEvents
  <2>1. CASE WaitData(p) \/ LoadPositions(p) \/ TakeSample(p) \/ SkipDiscarded(p)
    <3>1. UNCHANGED <<owner, batch>>
      BY <2>1 DEF WaitData, LoadPositions, TakeSample, SkipDiscarded
    <3> QED BY <1>1, <3>1, TakenKept
  <2>2. CASE Open(p)
    <3>1. /\ pc[p] = "idle" /\ owner = NoOne /\ owner' = p /\ batch' = batch
      BY <2>2 DEF Open, Lock
    <3>2. batch[p] = <<>>
      BY <3>1 DEF AllInv, OrderInv, BatchOrder
    <3> QED BY <3>1, <3>2 DEF TakenEvents
  <2>3. CASE WaitEmpty(p)
    <3>1. pc[p] = "open" /\ owner' = NoOne
      BY <2>3 DEF WaitEmpty, Leave, Gone
    <3>2. batch[p] = <<>> /\ owner = p
      BY <3>1, OwnerOf DEF AllInv, OrderInv, BatchOrder
    <3> QED BY <3>1, <3>2 DEF TakenEvents
  <2>4. CASE Callback(p)
    <3>1. PICK i \in DOMAIN recs :
            cons' = recs'[i].start /\ Collected(p, i)' /\ batch'[p] = Append(batch[p], i)
      BY <2>4, HeldCallback DEF AllInv
    <3>2. pc[p] = "copy" /\ pc'[p] = "store" /\ batch[p] \in Seq(Nat)
      BY <2>4 DEF Callback, AllInv, Inv, TypeOK
    <3>3. TakenEvents = batch[p]
      BY <3>2, TakenPassed DEF AllInv, OrderInv, BatchOrder
    <3>4. i \in 1 .. Len(recs') /\ i \in Nat
      BY <1>1, Boundaries DEF AllInv
    <3>5. TakenEvents' = SubSeq(batch'[p], 1, Len(batch'[p]) - 1)
      BY <3>1, <3>2, <3>4, TakenHeldNext DEF AllInv
    <3>6. SubSeq(Append(batch[p], i), 1, Len(Append(batch[p], i)) - 1) = batch[p]
      BY <3>2, <3>4
    <3> QED BY <3>1, <3>3, <3>5, <3>6
  <2> QED BY <2>1, <2>2, <2>3, <2>4
<1> QED BY <1>1, <1>2, <1>3

(* The consumer position passes the record that is held.                   *)
LEMMA StoreStep ==
    ASSUME AllInv, AllInv', NEW p \in Pollers, StoreConsumerPos(p)
    PROVE  Queue!Take \/ Queue!PassOver
<1>1. /\ pc[p] = "store" /\ pc'[p] = "scan" /\ cons' = pos[p]
      /\ UNCHANGED <<prod, recs, mem, batch, returned>>
      /\ batch[p] \in Seq(Nat)
  BY DEF StoreConsumerPos, AllInv, Inv, TypeOK
<1>2. PICK i \in DOMAIN recs : Holds(p, i) /\ (Skipped(p, i) \/ Collected(p, i))
  BY <1>1 DEF AllInv, HeldInv
<1>3. i \in 1 .. Len(recs) /\ cons = recs[i].start /\ cons' = StartOf(i + 1)
  BY <1>1, <1>2, Boundaries DEF Holds, AllInv
<1>4. /\ PendingEvents # <<>>
      /\ Head(PendingEvents) = EventOf(i)
      /\ PendingEvents' = Tail(PendingEvents)
  BY <1>1, <1>3, FrontLeaves DEF AllInv
<1>5. TakenEvents' = batch[p]
  BY <1>1, TakenPassedNext DEF AllInv, OrderInv, BatchOrder
<1>6. CASE Skipped(p, i)
  <2>1. TakenEvents = batch[p]
    BY <1>1, <1>6, TakenPassed DEF AllInv, Skipped
  <2>2. EventOf(i).st = "discard"
    BY <1>6 DEF Skipped, EventOf, QueueStatus, WrongSize
  <2> QED BY <1>1, <1>4, <1>5, <2>1, <2>2 DEF Queue!PassOver
<1>7. CASE Collected(p, i)
  <2>1. TakenEvents = SubSeq(batch[p], 1, Len(batch[p]) - 1)
    BY <1>1, <1>3, <1>7, TakenHeld DEF AllInv
  <2>2. batch[p] # <<>> /\ batch[p][Len(batch[p])] = i
    BY <1>7 DEF Collected
  <2>3. batch[p] = Append(SubSeq(batch[p], 1, Len(batch[p]) - 1), i)
    BY <1>1, <2>2
  <2>4. EventOf(i).st = "ready" /\ EventOf(i).id = i
    BY <1>7 DEF Collected, Good, EventOf, QueueStatus, WrongSize
  <2> QED BY <1>1, <1>4, <1>5, <2>1, <2>3, <2>4 DEF Queue!Take
<1> QED BY <1>2, <1>6, <1>7

LEMMA RejectStep ==
    ASSUME AllInv, AllInv', NEW p \in Pollers, RejectSize(p)
    PROVE  Queue!Fail
<1>1. /\ pc[p] = "scan" /\ ~CaughtUp(p) /\ HeaderAt(p).st = "ready"
      /\ HeaderAt(p).len # ValueLen
      /\ cons' = pos[p] + RoundLength(HeaderAt(p).len)
      /\ owner' = NoOne
      /\ UNCHANGED <<prod, recs, mem, returned>>
  BY DEF RejectSize, Scanning, Leave, Gone
<1>2. PICK i \in 1 .. Len(recs) :
          pos[p] = recs[i].start /\ pos[p] = cons /\ HeaderAt(p) = recs[i]
  BY <1>1, HeaderRead DEF AllInv
<1>3. cons' = StartOf(i + 1)
  <2>1. RoundLength(recs[i].len) = RecordWords(recs[i].len)
    BY <1>2, Boundaries, LengthsAgree DEF Record, AllInv
  <2> QED BY <1>1, <1>2, <2>1 DEF AllInv, Inv, Layout
<1>4. /\ PendingEvents # <<>>
      /\ Head(PendingEvents) = EventOf(i)
      /\ PendingEvents' = Tail(PendingEvents)
  BY <1>1, <1>2, <1>3, FrontLeaves DEF AllInv
<1>5. EventOf(i).st = "bad"
  BY <1>1, <1>2 DEF EventOf, QueueStatus, WrongSize
<1>6. TakenEvents' = <<>>
  BY <1>1 DEF TakenEvents
<1> QED BY <1>1, <1>4, <1>5, <1>6 DEF Queue!Fail

LEMMA ReturnStep ==
    ASSUME AllInv, NEW p \in Pollers, pc[p] = "scan", Return(p)
    PROVE  Queue!Return \/ UNCHANGED Queue!vars
<1>1. /\ returned' = returned \o batch[p] /\ owner' = NoOne /\ UNCHANGED <<cons, recs>>
      /\ batch[p] \in Seq(Nat) /\ returned \in Seq(Nat)
  BY DEF Return, Leave, Gone, shared, AllInv, Inv, TypeOK
<1>2. PendingEvents' = PendingEvents
  BY <1>1, PendingKept
<1>3. TakenEvents = batch[p] /\ TakenEvents' = <<>>
  <2>1. TakenEvents = batch[p]
    BY TakenPassed DEF AllInv, OrderInv, BatchOrder
  <2> QED BY <1>1, <2>1 DEF TakenEvents
<1>4. CASE batch[p] = <<>>
  <2>1. returned' = returned
    BY <1>1, <1>4, ConcatEmptySeq
  <2> QED BY <1>1, <1>2, <1>3, <1>4, <2>1 DEF Queue!vars
<1>5. CASE batch[p] # <<>>
  BY <1>1, <1>2, <1>3, <1>5 DEF Queue!Return
<1> QED BY <1>4, <1>5

LEMMA CrashStep ==
    ASSUME NEW p \in Pollers, Crash(p)
    PROVE  Queue!Crash \/ UNCHANGED Queue!vars
<1>1. owner' = NoOne /\ UNCHANGED <<cons, recs, returned>>
  BY DEF Crash, Gone, shared
<1>2. PendingEvents' = PendingEvents
  BY <1>1, PendingKept
<1>3. TakenEvents' = <<>>
  BY <1>1 DEF TakenEvents
<1>4. CASE TakenEvents = <<>>
  BY <1>1, <1>2, <1>3, <1>4 DEF Queue!vars
<1>5. CASE TakenEvents # <<>>
  BY <1>1, <1>2, <1>3, <1>5 DEF Queue!Crash
<1> QED BY <1>4, <1>5

LEMMA QueueNext == AllInv /\ AllInv' /\ [Next]_vars => [Queue!Next]_(Queue!vars)
<1> SUFFICES ASSUME AllInv, AllInv', [Next]_vars
             PROVE  Queue!Next \/ UNCHANGED Queue!vars
  OBVIOUS
<1>1. CASE KernelStep
  BY <1>1, PostStep, SettleStep DEF KernelStep, Queue!Next
<1>2. ASSUME NEW p \in Pollers, PollStep(p) PROVE Queue!Next \/ UNCHANGED Queue!vars
  <2>1. CASE \/ Open(p) \/ WaitEmpty(p) \/ WaitData(p) \/ LoadPositions(p)
             \/ TakeSample(p) \/ SkipDiscarded(p) \/ Callback(p)
    BY <2>1, InnerStep DEF Queue!vars
  <2>2. CASE StoreConsumerPos(p)
    BY <2>2, StoreStep DEF Queue!Next
  <2>3. CASE RejectSize(p)
    BY <2>3, RejectStep DEF Queue!Next
  <2>4. CASE ReturnAtEnd(p) \/ ReturnAtBusy(p)
    BY <2>4, ReturnStep DEF ReturnAtEnd, ReturnAtBusy, Scanning, Queue!Next
  <2> QED BY <1>2, <2>1, <2>2, <2>3, <2>4 DEF PollStep
<1>3. ASSUME NEW p \in Pollers, Crash(p) PROVE Queue!Next \/ UNCHANGED Queue!vars
  BY <1>3, CrashStep DEF Queue!Next
<1>4. CASE UNCHANGED vars
  <2>1. UNCHANGED <<cons, recs, owner, batch, returned>>
    BY <1>4 DEF vars, shared
  <2> QED BY <2>1, PendingKept, TakenKept DEF Queue!vars
<1> QED BY <1>1, <1>2, <1>3, <1>4 DEF Next

LEMMA QueueInit == Init => Queue!Init
<1> SUFFICES ASSUME Init PROVE Queue!Init
  OBVIOUS
<1>1. recs = <<>> /\ owner = NoOne /\ returned = <<>> /\ Len(recs) = 0
  BY DEF Init
<1>2. PendingEvents = <<>>
  <2>1. Inv /\ StartOf(1) = cons /\ 1 \in 1 .. Len(recs) + 1
    BY <1>1, InitInv DEF Init, StartOf
  <2>2. PendingEvents = [k \in 1 .. Len(recs) + 1 - 1 |-> EventOf(1 + k - 1)]
    BY <2>1, PendingFrom
  <2>3. 1 .. Len(recs) + 1 - 1 = {}
    BY <1>1
  <2> QED BY <2>2, <2>3
<1>3. TakenEvents = <<>>
  BY <1>1 DEF TakenEvents
<1> QED BY <1>1, <1>2, <1>3 DEF Queue!Init

(* The ring buffer and its readers implement the event queue: whoever      *)
(* drains the map sees records leave strictly from the front, each handed  *)
(* over, passed over or dropped with its batch, never out of order.        *)
THEOREM Refinement == Spec => ImplementsQueue
<1>1. Init => AllInv
  BY InitInv DEF Init, AllInv, OrderInv, BatchOrder, Passed, PassedIn, InOrder, LossInv, HeldInv
<1>2. AllInv /\ Inv' /\ [Next]_vars => AllInv'
  BY NextOrder, LossNext, HeldNext DEF AllInv
<1>3. Spec => []AllInv
  BY <1>1, <1>2, Invariance, PTL DEF Spec
<1> QED BY <1>3, QueueInit, QueueNext, PTL DEF Spec, ImplementsQueue, Queue!Spec

===============================================================================
