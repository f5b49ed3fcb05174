------------------------------ MODULE BpfRingbuf ------------------------------
(***************************************************************************)
(* One pinned BPF ring buffer: the kernel's producers on one side, and on  *)
(* the other the processes that call pollRingBuf, each call opening the    *)
(* map under an exclusive lock, waiting, and walking ConsumeAll's loop one *)
(* shared-memory access at a time.                                         *)
(*                                                                         *)
(* Positions are counted in 8-byte words, the granularity roundLength      *)
(* gives them.  A word of the data pages holds the id of the record whose  *)
(* header it is, or Payload.  Record ids are a numbering of the model.     *)
(***************************************************************************)
EXTENDS Integers, Sequences, FiniteSets

CONSTANTS
    Pollers,        \* processes that may call pollRingBuf on the map
    RingWords,      \* max_entries of the map, in words
    PosModulus,     \* the 32-bit position range, in words
    ValueLen,       \* mValueSize, in bytes
    Lens,           \* sample lengths producers submit, in bytes
    StartPositions, \* where a ring left drained by earlier runs may stand
    MaxRecords,     \* bound on the records ever reserved
    MaxCrashes      \* bound on the reader processes killed

ASSUME RingAssumption ==
    /\ RingWords \in Nat \ {0}
    /\ PosModulus \in Nat /\ PosModulus >= RingWords
    /\ ValueLen \in Nat
    /\ Lens \subseteq Nat
    /\ StartPositions \subseteq Nat
    /\ MaxRecords \in Nat
    /\ MaxCrashes \in Nat

VARIABLES
    prod,       \* producer position
    cons,       \* *mConsumerPos
    recs,       \* every record ever reserved: [start, len, st], by id
    mem,        \* the data pages, by word
    owner,      \* who holds the OFD write lock of the map, or NoOne
    pc,         \* where each poller is in pollRingBuf
    snap,       \* ConsumeAll's local prod_pos (low 32 bits)
    pos,        \* ConsumeAll's local cons_pos
    start,      \* ConsumeAll's local start_ptr, as a position
    batch,      \* values the callback has pushed in this call
    returned,   \* history: values pollRingBuf has returned, in order
    crashes

shared == <<prod, cons, recs, mem>>
locals == <<snap, pos, start>>
vars == <<prod, cons, recs, mem, owner, pc, snap, pos, start, batch, returned, crashes>>

CONSTANT NoOne
ASSUME NoOneAssumption == NoOne \notin Pollers

Payload == 0
Words == 0 .. RingWords - 1
Statuses == {"busy", "ready", "discard"}
Places == {"idle", "open", "load", "scan", "copy", "store"}

(* The word of the data pages a position falls on (cons_pos & mPosMask).   *)
At(p) == p % RingWords

(* The low-order half of a position, the only part that is compared.       *)
Low(p) == p % PosModulus

(* Words the kernel takes for a sample: its 8-byte header and the sample,  *)
(* aligned.                                                                *)
RecordWords(len) == (len + 15) \div 8

HeaderBytes == 8

\* Mutants of RoundLength: no alignment; the header counted twice.
RoundLengthUnaligned(len) == (len + HeaderBytes) \div 8
RoundLengthTwoHeaders(len) == (len + 2 * HeaderBytes + 7) \div 8

(* roundLength: what the reader takes one record to occupy.  The busy and  *)
(* discard bits it clears are the record's st here.                        *)
RoundLength(len) == (len + HeaderBytes + 7) \div 8

(* Where record i starts; the first record never reserved starts at prod.  *)
StartOf(i) == IF i \in DOMAIN recs THEN recs[i].start ELSE prod

Consumed(i) == recs[i].start < cons
Good(i) == recs[i].st = "ready" /\ recs[i].len = ValueLen
WrongSize(i) == recs[i].st = "ready" /\ recs[i].len # ValueLen

-------------------------------------------------------------------------------
(* The map as a run of the daemon finds it: drained, at any position.      *)

Init ==
    /\ prod \in StartPositions
    /\ cons = prod
    /\ recs = <<>>
    /\ mem = [w \in Words |-> Payload]
    /\ owner = NoOne
    /\ pc = [p \in Pollers |-> "idle"]
    /\ snap = [p \in Pollers |-> 0]
    /\ pos = [p \in Pollers |-> 0]
    /\ start = [p \in Pollers |-> 0]
    /\ batch = [p \in Pollers |-> <<>>]
    /\ returned = <<>>
    /\ crashes = 0

-------------------------------------------------------------------------------
(* The kernel (external): bpf_ringbuf_reserve and _submit/_discard.        *)

(* A reservation that does not fit fails, and the BPF program drops the    *)
(* event: nothing changes.                                                 *)
Reserve(len) ==
    LET n == RecordWords(len)
        id == Len(recs) + 1
    IN  /\ Len(recs) < MaxRecords
        /\ prod + n - cons < RingWords
        /\ recs' = Append(recs, [start |-> prod, len |-> len, st |-> "busy"])
        /\ mem' = [w \in Words |->
                     IF w = At(prod) THEN id
                     ELSE IF \E k \in 1 .. n - 1 : w = At(prod + k) THEN Payload
                     ELSE mem[w]]
        /\ prod' = prod + n
        /\ UNCHANGED <<cons, owner, pc, locals, batch, returned, crashes>>

(* Programs on several CPUs finish in any order.                           *)
Settle(i, st) ==
    /\ recs[i].st = "busy"
    /\ recs' = [recs EXCEPT ![i].st = st]
    /\ UNCHANGED <<prod, cons, mem, owner, pc, locals, batch, returned, crashes>>

-------------------------------------------------------------------------------
(* pollRingBuf.  Every call maps the ring anew and unmaps it on return.    *)

\* Mutant of Open: the map is retrieved without the exclusive lock.
OpenShared(p) ==
    /\ pc[p] = "idle"
    /\ owner' = p
    /\ pc' = [pc EXCEPT ![p] = "open"]
    /\ UNCHANGED <<shared, locals, batch, returned, crashes>>

(* mapRetrieveExclusiveRW: one descriptor at a time has the map's lock.    *)
Lock(p) == owner = NoOne /\ owner' = p

(* Create/Init: where the lock, or a mapping of the ring, is not to be had *)
(* pollRingBuf returns -1 and nothing has changed.                         *)
Open(p) ==
    /\ pc[p] = "idle"
    /\ Lock(p)
    /\ pc' = [pc EXCEPT ![p] = "open"]
    /\ UNCHANGED <<shared, locals, batch, returned, crashes>>

IsEmpty == Low(cons) = Low(prod)

(* The call is over, by return or by death: the lock goes with the fd and  *)
(* the locals with the stack.                                              *)
Gone(p) ==
    /\ owner' = NoOne
    /\ pc' = [pc EXCEPT ![p] = "idle"]
    /\ snap' = [snap EXCEPT ![p] = 0]
    /\ pos' = [pos EXCEPT ![p] = 0]
    /\ start' = [start EXCEPT ![p] = 0]
    /\ batch' = [batch EXCEPT ![p] = <<>>]

Leave(p) == Gone(p) /\ UNCHANGED crashes

(* wait() is a best-effort poll that ends, by event or timeout, in a test  *)
(* of isEmpty: an empty ring returns 0...                                  *)
WaitEmpty(p) ==
    /\ pc[p] = "open"
    /\ IsEmpty
    /\ Leave(p)
    /\ UNCHANGED <<shared, returned>>

(* ... and any other goes on to ConsumeAll.                                *)
WaitData(p) ==
    /\ pc[p] = "open"
    /\ ~IsEmpty
    /\ pc' = [pc EXCEPT ![p] = "load"]
    /\ UNCHANGED <<shared, owner, locals, batch, returned, crashes>>

LoadPositions(p) ==
    /\ pc[p] = "load"
    /\ snap' = [snap EXCEPT ![p] = Low(prod)]
    /\ pos' = [pos EXCEPT ![p] = cons]
    /\ pc' = [pc EXCEPT ![p] = "scan"]
    /\ UNCHANGED <<shared, owner, start, batch, returned, crashes>>

CaughtUp(p) == Low(pos[p]) = snap[p]

(* The header at the reader's position, as the shared memory shows it now. *)
HeaderAt(p) == recs[mem[At(pos[p])]]

Scanning(p) ==
    /\ pc[p] = "scan"
    /\ ~CaughtUp(p)
    /\ mem[At(pos[p])] # Payload

Return(p) ==
    /\ returned' = returned \o batch[p]
    /\ Leave(p)
    /\ UNCHANGED shared

(* The loop ends where the producer stood when it was entered.             *)
ReturnAtEnd(p) ==
    /\ pc[p] = "scan"
    /\ CaughtUp(p)
    /\ Return(p)

(* A sample that is not committed ends the loop, even with committed ones  *)
(* behind it.                                                              *)
ReturnAtBusy(p) ==
    /\ Scanning(p)
    /\ HeaderAt(p).st = "busy"
    /\ Return(p)

\* Mutant of TakeSample: the busy bit is not tested.
TakeBusyToo(p) ==
    /\ Scanning(p)
    /\ HeaderAt(p).st # "discard"
    /\ HeaderAt(p).len = ValueLen
    /\ start' = [start EXCEPT ![p] = pos[p]]
    /\ pos' = [pos EXCEPT ![p] = @ + RoundLength(HeaderAt(p).len)]
    /\ pc' = [pc EXCEPT ![p] = "copy"]
    /\ UNCHANGED <<shared, owner, snap, batch, returned, crashes>>

\* Mutant of TakeSample: the shared position moves before the callback.
TakeStoringFirst(p) ==
    /\ Scanning(p)
    /\ HeaderAt(p).st = "ready"
    /\ HeaderAt(p).len = ValueLen
    /\ start' = [start EXCEPT ![p] = pos[p]]
    /\ pos' = [pos EXCEPT ![p] = @ + RoundLength(HeaderAt(p).len)]
    /\ cons' = pos'[p]
    /\ pc' = [pc EXCEPT ![p] = "copy"]
    /\ UNCHANGED <<prod, recs, mem, owner, snap, batch, returned, crashes>>

(* A committed sample of the right size: the local position moves past it  *)
(* at once, the shared one only after the callback.                        *)
TakeSample(p) ==
    /\ Scanning(p)
    /\ HeaderAt(p).st = "ready"
    /\ HeaderAt(p).len = ValueLen
    /\ start' = [start EXCEPT ![p] = pos[p]]
    /\ pos' = [pos EXCEPT ![p] = @ + RoundLength(HeaderAt(p).len)]
    /\ pc' = [pc EXCEPT ![p] = "copy"]
    /\ UNCHANGED <<shared, owner, snap, batch, returned, crashes>>

(* A discarded record is stepped over, whatever its length.                *)
SkipDiscarded(p) ==
    /\ Scanning(p)
    /\ HeaderAt(p).st = "discard"
    /\ start' = [start EXCEPT ![p] = pos[p]]
    /\ pos' = [pos EXCEPT ![p] = @ + RoundLength(HeaderAt(p).len)]
    /\ pc' = [pc EXCEPT ![p] = "store"]
    /\ UNCHANGED <<shared, owner, snap, batch, returned, crashes>>

\* Mutant of RejectSize: the error return forgets the consumer position.
RejectAndStay(p) ==
    /\ Scanning(p)
    /\ HeaderAt(p).st = "ready"
    /\ HeaderAt(p).len # ValueLen
    /\ Leave(p)
    /\ UNCHANGED <<shared, returned>>

(* EMSGSIZE: the offending sample is consumed, and pollRingBuf answers -2, *)
(* on which its caller looks at nothing this call had pushed.              *)
RejectSize(p) ==
    /\ Scanning(p)
    /\ HeaderAt(p).st = "ready"
    /\ HeaderAt(p).len # ValueLen
    /\ cons' = pos[p] + RoundLength(HeaderAt(p).len)
    /\ Leave(p)
    /\ UNCHANGED <<prod, recs, mem, returned>>

(* The callback copies the value out of the mapped memory.                 *)
Callback(p) ==
    /\ pc[p] = "copy"
    /\ batch' = [batch EXCEPT ![p] = Append(@, mem[At(start[p])])]
    /\ pc' = [pc EXCEPT ![p] = "store"]
    /\ UNCHANGED <<shared, owner, locals, returned, crashes>>

\* Mutant of StoreConsumerPos: everything produced counts as consumed.
StoreProducerPos(p) ==
    /\ pc[p] = "store"
    /\ cons' = prod
    /\ pc' = [pc EXCEPT ![p] = "scan"]
    /\ UNCHANGED <<prod, recs, mem, owner, locals, batch, returned, crashes>>

StoreConsumerPos(p) ==
    /\ pc[p] = "store"
    /\ cons' = pos[p]
    /\ pc' = [pc EXCEPT ![p] = "scan"]
    /\ UNCHANGED <<prod, recs, mem, owner, locals, batch, returned, crashes>>

PollStep(p) ==
    \/ Open(p) \/ WaitEmpty(p) \/ WaitData(p) \/ LoadPositions(p)
    \/ ReturnAtEnd(p) \/ ReturnAtBusy(p)
    \/ TakeSample(p) \/ SkipDiscarded(p) \/ RejectSize(p)
    \/ Callback(p) \/ StoreConsumerPos(p)

(* The polling process is killed; its lock and its memory go with it, the  *)
(* pinned map stays.                                                       *)
Crash(p) ==
    /\ pc[p] # "idle"
    /\ crashes < MaxCrashes
    /\ crashes' = crashes + 1
    /\ Gone(p)
    /\ UNCHANGED <<shared, returned>>

-------------------------------------------------------------------------------
KernelStep ==
    \/ \E len \in Lens : Reserve(len)
    \/ \E i \in DOMAIN recs, st \in {"ready", "discard"} : Settle(i, st)

Next ==
    \/ KernelStep
    \/ \E p \in Pollers : PollStep(p)
    \/ \E p \in Pollers : Crash(p)

Spec == Init /\ [][Next]_vars

(* BPF programs run to completion, and some process keeps polling (the     *)
(* poll loop opens the ring again until its timer runs out).               *)
Fairness ==
    /\ WF_vars(\E i \in DOMAIN recs, st \in {"ready", "discard"} : Settle(i, st))
    /\ WF_vars(\E p \in Pollers : PollStep(p))

FairSpec == Spec /\ Fairness

-------------------------------------------------------------------------------
Record == [start : Nat, len : Lens, st : Statuses]

TypeOK ==
    /\ prod \in Nat
    /\ cons \in Nat
    /\ prod - cons \in 0 .. RingWords - 1
    /\ recs \in Seq(Record)
    /\ mem \in [Words -> Nat]
    /\ owner \in Pollers \cup {NoOne}
    /\ pc \in [Pollers -> Places]
    /\ snap \in [Pollers -> 0 .. PosModulus - 1]
    /\ pos \in [Pollers -> Nat]
    /\ start \in [Pollers -> Nat]
    /\ batch \in [Pollers -> Seq(Nat)]
    /\ returned \in Seq(Nat)
    /\ crashes \in 0 .. MaxCrashes

(***************************************************************************)
(* The reader never loses step with the kernel: wherever ConsumeAll's loop *)
(* reads a header, the position is the start of a record, the memory holds *)
(* that record and no other, and while the callback copies it the kernel   *)
(* has not reused its words, whatever the lengths, the wrap of the data    *)
(* pages and the wrap of the 32-bit positions.                             *)
(***************************************************************************)
ReaderInSync ==
    \A p \in Pollers :
        /\ pc[p] = "scan" /\ ~CaughtUp(p) =>
              \E i \in DOMAIN recs :
                  pos[p] = recs[i].start /\ mem[At(pos[p])] = i
        /\ pc[p] = "copy" =>
              \E i \in DOMAIN recs :
                  /\ start[p] = recs[i].start
                  /\ mem[At(start[p])] = i
                  /\ Good(i)

InOrder(s) == \A i, j \in DOMAIN s : i < j => s[i] < s[j]

(***************************************************************************)
(* Every value is returned at most once and in the order the records were  *)
(* reserved, over all the processes that ever polled the ring and however  *)
(* many of them were killed between the callback and the store of the      *)
(* consumer position.                                                      *)
(***************************************************************************)
ReturnedInOrderOnce == InOrder(returned)

(***************************************************************************)
(* ConsumeAll loses nothing on its own: as long as no reader was killed    *)
(* and no sample of another size was met, every good record that the       *)
(* consumer position has passed was returned, or is in the batch of the    *)
(* call that is running.                                                   *)
(***************************************************************************)
NoSilentLoss ==
    (crashes = 0 /\ ~\E i \in DOMAIN recs : Consumed(i) /\ WrongSize(i)) =>
        \A i \in DOMAIN recs :
            Consumed(i) /\ Good(i) =>
                \/ \E k \in DOMAIN returned : returned[k] = i
                \/ \E p \in Pollers : \E k \in DOMAIN batch[p] : batch[p][k] = i

(***************************************************************************)
(* The consumer position only moves past records, whole ones, that their   *)
(* producers have settled.  A reader that passed a busy record would let   *)
(* the kernel reuse memory a BPF program is still writing.                 *)
(***************************************************************************)
NeverPassesBusy ==
    [][ /\ cons' >= cons
        /\ \A i \in DOMAIN recs :
              Consumed(i)' /\ ~Consumed(i) => recs[i].st # "busy" ]_cons

(* Every record that is reserved is consumed in the end: neither a busy    *)
(* head, a full ring, a wrong size nor a killed reader wedges the ring.    *)
EventuallyConsumed ==
    \A i \in 1 .. MaxRecords :
        (i \in DOMAIN recs) ~> (i \in DOMAIN recs /\ Consumed(i))

-------------------------------------------------------------------------------
(* The strengthening of ReaderInSync and ReturnedInOrderOnce that every    *)
(* step preserves.                                                         *)

(* Records lie end to end, in the order of their ids.                      *)
Layout ==
    /\ \A i \in 1 .. Len(recs) :
          StartOf(i + 1) = recs[i].start + RecordWords(recs[i].len)
    /\ \A i, j \in 1 .. Len(recs) + 1 : i < j => StartOf(i) < StartOf(j)

ConsAtRecord == \E i \in 1 .. Len(recs) + 1 : cons = StartOf(i)

(* Nothing unconsumed has been overwritten.                                *)
RingIntact ==
    \A i \in 1 .. Len(recs) :
        recs[i].start >= cons => mem[At(recs[i].start)] = i

Exclusive == \A p \in Pollers : pc[p] # "idle" <=> owner = p

(* The snapshot is a record boundary the reader has not passed.            *)
SnapAhead(p) ==
    \E j, k \in 1 .. Len(recs) + 1 :
        /\ k <= j
        /\ snap[p] = Low(StartOf(j))
        /\ pos[p] = StartOf(k)

(* In "copy" and "store" the reader holds record i, the first unconsumed.  *)
Holds(p, i) ==
    /\ start[p] = cons
    /\ cons = recs[i].start
    /\ pos[p] = StartOf(i + 1)
    /\ recs[i].st # "busy"

ReaderPlace(p) ==
    /\ pc[p] \in {"scan", "copy", "store"} => SnapAhead(p)
    /\ pc[p] = "scan" => pos[p] = cons
    /\ pc[p] = "copy" => \E i \in 1 .. Len(recs) : Holds(p, i) /\ Good(i)
    /\ pc[p] = "store" => \E i \in 1 .. Len(recs) : Holds(p, i)

Inv ==
    /\ TypeOK
    /\ Layout
    /\ ConsAtRecord
    /\ RingIntact
    /\ Exclusive
    /\ \A p \in Pollers : ReaderPlace(p)

(* For the order of what is returned: values are collected in order, after *)
(* everything returned before, from records the reader has passed.         *)
PassedIn(rs, s, p) ==
    \A k \in DOMAIN s : s[k] \in DOMAIN rs /\ rs[s[k]].start < p

Passed(s, p) == PassedIn(recs, s, p)

BatchOrder(p) ==
    /\ pc[p] \in {"idle", "open", "load"} => batch[p] = <<>>
    /\ pc[p] \in {"scan", "copy"} => Passed(batch[p], cons)
    /\ pc[p] = "store" => Passed(batch[p], pos[p])
    /\ InOrder(batch[p])
    /\ \A j \in DOMAIN returned, k \in DOMAIN batch[p] : returned[j] < batch[p][k]

OrderInv ==
    /\ InOrder(returned)
    /\ Passed(returned, cons)
    /\ \A p \in Pollers : BatchOrder(p)

-------------------------------------------------------------------------------
(* Refinement: what the processes that poll see is an event queue.         *)

QueueStatus(i) ==
    IF WrongSize(i) THEN "bad" ELSE recs[i].st

FirstPending == CHOOSE i \in 1 .. Len(recs) + 1 :
                    /\ i \in DOMAIN recs => ~Consumed(i)
                    /\ \A j \in 1 .. i - 1 : Consumed(j)

PendingEvents ==
    [k \in 1 .. Len(recs) + 1 - FirstPending |->
        LET i == FirstPending + k - 1 IN [id |-> i, st |-> QueueStatus(i)]]

(* A value counts as taken once the consumer position has passed its       *)
(* record.  Only the newest one of a batch may still lie ahead of it.      *)
TakenEvents ==
    IF owner = NoOne THEN <<>>
    ELSE LET b == batch[owner]
         IN  IF b # <<>> /\ ~Consumed(b[Len(b)]) THEN SubSeq(b, 1, Len(b) - 1) ELSE b

Queue == INSTANCE EventQueue WITH
            posted <- Len(recs),
            pending <- PendingEvents,
            taken <- TakenEvents

(* The ring buffer and its readers implement EventQueue.                   *)
ImplementsQueue == Queue!Spec

===============================================================================
