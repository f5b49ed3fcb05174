------------------------ MODULE BitmapAllocationProofs ------------------------
(***************************************************************************)
(* What the handler of bitmap snapshots reports, for any number of         *)
(* addresses, of records the ring holds, of runs and of activities.        *)
(***************************************************************************)
EXTENDS BitmapAllocation, FiniteSetTheorems, SequenceTheorems, TLAPS

Rec == [st : {"busy", "ready"}, type : {"alloc", "free", "start"},
        ptr : Ptrs \cup {NoPtr}, id : 0 .. MaxBitmaps,
        size : Sizes \cup Residue \cup {0}, act : 0 .. MaxStarts]

Records == 1 .. Len(ring)
IsAlloc(n) == ring[n].type = "alloc"
IsFree(n) == ring[n].type = "free"
IsStart(n) == ring[n].type = "start"
Lives(p) == place[p] \in {"creating", "live"}
Current(p, i) == place[p] # "none" /\ i = id[p]

(* A free of p lies behind record m; none does before record n.            *)
Freed(p, m) == \E f \in Records : m < f /\ IsFree(f) /\ ring[f].ptr = p
NotFreed(p, m, n) == \A f \in Records : m < f /\ f < n /\ IsFree(f) => ring[f].ptr # p
NoStart(m, n) == \A s \in Records : m < s /\ s < n => ~IsStart(s)

Bounds ==
    /\ IsFiniteSet(active)
    /\ Len(sizes) <= MaxBitmaps
    /\ Len(acts) = Len(sizes)
    /\ \A i \in DOMAIN acts : acts[i] \in 0 .. MaxStarts
    /\ seen \subseteq 1 .. Len(sizes)
    /\ \A p \in DOMAIN bitmaps : bitmaps[p].id \in seen
    /\ \A x \in snapshot : x.id \in seen

(* A record is about one bitmap, and an id belongs to one address.         *)
Kinds ==
    /\ \A n \in Records : IsAlloc(n) =>
          /\ ring[n].ptr \in Ptrs
          /\ ring[n].id \in 1 .. Len(sizes)
          /\ ring[n].id <= id[ring[n].ptr]
          /\ ring[n].act = acts[ring[n].id]
    /\ \A n \in Records : IsFree(n) => ring[n].ptr \in Ptrs
    /\ \A n \in Records : IsStart(n) => ring[n].ptr \notin Ptrs
    /\ \A n \in Records, p \in Ptrs : IsAlloc(n) /\ ring[n].id = id[p] => ring[n].ptr = p
    /\ \A p \in Ptrs : id[p] <= Len(sizes) /\ (place[p] # "none" => id[p] >= 1)
    /\ \A p, q \in Ptrs : id[p] = id[q] /\ id[p] # 0 => p = q

(* A record that is not submitted holds up the address it is about.        *)
Busy ==
    /\ \A n \in Records : ring[n].st = "busy" =>
          /\ IsAlloc(n) => place[ring[n].ptr] = "creating"
          /\ IsFree(n) => place[ring[n].ptr] = "freeing"
    /\ \A m, n \in Records :
          ring[m].st = "busy" /\ ring[n].st = "busy" /\ ring[m].ptr = ring[n].ptr
            /\ ~IsStart(m) => m = n
    /\ \A m, n \in Records :
          IsAlloc(m) /\ IsFree(n) /\ ring[n].st = "busy" /\ ring[m].ptr = ring[n].ptr
            => m < n

(* The records of an address lie in the order of its bitmaps.              *)
InOrder ==
    /\ \A m, n \in Records :
          IsAlloc(m) /\ IsAlloc(n) /\ m < n /\ ring[m].ptr = ring[n].ptr
            => ring[m].id < ring[n].id
    /\ \A m, n \in Records :
          IsAlloc(m) /\ IsFree(n) /\ ring[m].ptr = ring[n].ptr
            /\ Lives(ring[m].ptr) /\ ring[m].id = id[ring[m].ptr] => n < m

(* LiveReported: once the allocation of the bitmap at an address is        *)
(* handled, no record left is about that address.                          *)
Fresh ==
    /\ \A n \in Records : IsAlloc(n) => id[ring[n].ptr] \notin seen
    /\ \A n \in Records : IsFree(n) /\ Lives(ring[n].ptr) => id[ring[n].ptr] \notin seen

(* NoPhantoms: a bitmap that is gone has its free behind its allocation.   *)
Accounted ==
    ~missed =>
        /\ \A n \in Records : IsAlloc(n) =>
              Current(ring[n].ptr, ring[n].id) \/ Freed(ring[n].ptr, n)
        /\ \A p \in DOMAIN bitmaps : Current(p, bitmaps[p].id) \/ Freed(p, 0)

(* SnapshotCoexisted: bitmaps no free lies between were alive together.    *)
Coexist ==
    /\ \A n \in Records : IsAlloc(n) => {ring[n].id} \in together
    /\ ~missed =>
          /\ \A p, q \in DOMAIN bitmaps : {bitmaps[p].id, bitmaps[q].id} \in together
          /\ \A p \in DOMAIN bitmaps, n \in Records :
                IsAlloc(n) /\ ring[n].ptr # p /\ NotFreed(p, 0, n)
                    => {ring[n].id, bitmaps[p].id} \in together
          /\ \A m, n \in Records :
                IsAlloc(m) /\ IsAlloc(n) /\ m < n /\ ring[m].ptr # ring[n].ptr
                  /\ NotFreed(ring[m].ptr, m, n)
                    => {ring[m].id, ring[n].id} \in together
          /\ SnapshotCoexisted

(* ActivityAtCreation: the start before an allocation is its activity's.   *)
Activities ==
    /\ act = 0 => /\ \A i \in DOMAIN acts : acts[i] = 0
                  /\ \A n \in Records : ~IsStart(n)
    /\ ~unheard =>
          /\ \A n \in Records : IsAlloc(n) /\ NoStart(0, n) => ring[n].act = activity
          /\ \A m, n \in Records :
                IsStart(m) /\ IsAlloc(n) /\ m < n /\ NoStart(m, n)
                    => ring[n].act = ring[m].act
          /\ NoStart(0, Len(ring) + 1) => activity = act
          /\ \A m \in Records : IsStart(m) /\ NoStart(m, Len(ring) + 1) => ring[m].act = act
    /\ ActivityAtCreation

Inv ==
    /\ TypeOK /\ Bounds /\ Kinds /\ Busy /\ InOrder /\ Fresh
    /\ LiveReported /\ Accounted /\ Coexist /\ Activities

LEMMA InvInit == Init => Inv
<1> SUFFICES ASSUME Init PROVE Inv
    OBVIOUS
<1>1. Len(sizes) = 0 /\ Len(acts) = 0 /\ Len(ring) = 0 /\ DOMAIN bitmaps = {}
    BY DEF Init, NoMeta
<1>2. TypeOK
    <2>1. Cardinality({}) = 0
        BY FS_EmptySet
    <2>2. runs \in 1 .. MaxRuns
        BY BitmapAssumption DEF Init
    <2>3. /\ place \in [Ptrs -> {"none", "creating", "live", "freeing"}]
          /\ id \in [Ptrs -> 0 .. MaxBitmaps]
          /\ sizes \in Seq(Sizes) /\ acts \in Seq(Nat)
          /\ act \in 0 .. MaxStarts /\ activity \in 0 .. MaxStarts
        BY BitmapAssumption DEF Init
    <2>4. /\ Reported(bitmaps) = {} /\ snapshot \subseteq Meta
          /\ max \in Nat /\ current \in Int /\ current <= max
        BY <1>1, BitmapAssumption DEF Init, Reported
    <2>5. ring \in Seq(Rec) /\ Len(ring) <= RingCap
        BY <1>1, BitmapAssumption DEF Init
    <2>6. Cardinality(active) <= ActiveCap
        BY <2>1, BitmapAssumption DEF Init
    <2>7. probing \in BOOLEAN /\ missed \in BOOLEAN /\ unheard \in BOOLEAN
        BY DEF Init
    <2>8. QED
        BY <1>1, <2>2, <2>3, <2>4, <2>5, <2>6, <2>7 DEF Init, TypeOK, Rec
<1>3. Records = {}
    BY <1>1 DEF Records
<1>4. Bounds
    BY <1>1, BitmapAssumption, FS_EmptySet DEF Init, Bounds
<1>5. Kinds
    BY <1>1, <1>3 DEF Init, Kinds
<1>6. Busy /\ InOrder /\ Fresh
    BY <1>3 DEF Busy, InOrder, Fresh
<1>7. LiveReported
    BY DEF Init, LiveReported
<1>8. Accounted /\ Coexist
    BY <1>1, <1>3 DEF Init, Accounted, Coexist, SnapshotCoexisted
<1>9. Activities
    BY <1>1, <1>3 DEF Init, Activities, ActivityAtCreation, Reported
<1>10. QED
    BY <1>2, <1>4, <1>5, <1>6, <1>7, <1>8, <1>9 DEF Inv

(***************************************************************************)
(* What a step does to the ring: a record at the end, one submitted, the   *)
(* first one taken.                                                        *)
(***************************************************************************)
Added(r) ==
    /\ Len(ring') = Len(ring) + 1
    /\ \A n \in 1 .. Len(ring) : ring'[n] = ring[n]
    /\ ring'[Len(ring) + 1] = r

Marked(n) ==
    /\ Len(ring') = Len(ring)
    /\ \A m \in 1 .. Len(ring) :
          /\ ring'[m].type = ring[m].type /\ ring'[m].ptr = ring[m].ptr
          /\ ring'[m].id = ring[m].id /\ ring'[m].act = ring[m].act
          /\ ring'[m].st = IF m = n THEN "ready" ELSE ring[m].st

Shifted ==
    /\ Len(ring) >= 1
    /\ Len(ring') = Len(ring) - 1
    /\ \A n \in 1 .. Len(ring) - 1 : ring'[n] = ring[n + 1]

LEMMA AddedWhen ==
    ASSUME ring \in Seq(Rec), NEW r \in Rec, ring' = Append(ring, r)
    PROVE  Added(r) /\ ring' \in Seq(Rec)
BY DEF Added

LEMMA MarkedWhen ==
    ASSUME ring \in Seq(Rec), NEW n \in 1 .. Len(ring), Ready(n)
    PROVE  Marked(n) /\ ring' \in Seq(Rec)
<1> DEFINE R == Rec
<1>1. \A m \in 1 .. Len(ring) : ring[m] \in R
    OBVIOUS
<1>2. [ring[n] EXCEPT !.st = "ready"] \in R
    BY <1>1 DEF Rec
<1>3. ring' = [ring EXCEPT ![n] = [ring[n] EXCEPT !.st = "ready"]]
    BY DEF Ready
<1> HIDE DEF R
<1>4. ring \in Seq(R)
    BY DEF R
<1>5. /\ ring' \in Seq(R) /\ Len(ring') = Len(ring)
      /\ \A m \in 1 .. Len(ring) :
            ring'[m] = IF m = n THEN [ring[n] EXCEPT !.st = "ready"] ELSE ring[m]
    BY <1>2, <1>3, <1>4
<1>6. ASSUME NEW m \in 1 .. Len(ring)
      PROVE  /\ ring'[m].type = ring[m].type /\ ring'[m].ptr = ring[m].ptr
             /\ ring'[m].id = ring[m].id /\ ring'[m].act = ring[m].act
             /\ ring'[m].st = IF m = n THEN "ready" ELSE ring[m].st
    <2>1. CASE m = n
        <3>1. ring'[m] = [ring[n] EXCEPT !.st = "ready"] /\ ring[n] \in Rec
            BY <1>1, <1>5, <2>1 DEF R
        <3>2. QED
            BY <2>1, <3>1 DEF Rec
    <2>2. CASE m # n
        BY <1>5, <2>2
    <2>3. QED
        BY <2>1, <2>2
<1>7. QED
    BY <1>5, <1>6 DEF R, Marked

LEMMA ShiftedWhen ==
    ASSUME ring \in Seq(Rec), 1 \in 1 .. Len(ring), Taken(1)
    PROVE  Shifted /\ ring' \in Seq(Rec)
<1> DEFINE R == Rec
<1> HIDE DEF R
<1>1. ring \in Seq(R) /\ Len(ring) \in Nat /\ Len(ring) >= 1
    BY DEF R
<1> DEFINE t == SubSeq(ring, 2, Len(ring))
<1>2. /\ t \in Seq(R) /\ Len(t) = Len(ring) - 1
      /\ \A n \in 1 .. Len(ring) - 1 : t[n] = ring[n + 1]
    <2>1. \A n \in 2 .. Len(ring) : ring[n] \in R
        BY <1>1
    <2>2. /\ t \in Seq(R)
          /\ Len(t) = IF 2 <= Len(ring) THEN Len(ring) - 2 + 1 ELSE 0
          /\ \A n \in 1 .. Len(ring) - 2 + 1 : t[n] = ring[2 + n - 1]
        BY <1>1, <2>1, SubSeqProperties
    <2> HIDE DEF t
    <2>3. Len(t) = Len(ring) - 1
        <3> DEFINE k == Len(ring)
        <3>1. k \in Nat /\ k >= 1
            BY <1>1
        <3>2. Len(t) = IF 2 <= k THEN k - 2 + 1 ELSE 0
            BY <2>2
        <3> HIDE DEF k
        <3>3. Len(t) = k - 1
            BY <3>1, <3>2
        <3>4. QED
            BY <3>3 DEF k
    <2>4. ASSUME NEW n \in 1 .. Len(ring) - 1 PROVE t[n] = ring[n + 1]
        <3>1. n \in 1 .. Len(ring) - 2 + 1 /\ 2 + n - 1 = n + 1
            BY <1>1
        <3>2. t[n] = ring[2 + n - 1]
            BY <2>2, <3>1
        <3>3. QED
            BY <3>1, <3>2
    <2>5. QED
        BY <2>2, <2>3, <2>4
<1>3. SubSeq(ring, 1, 0) = <<>>
    BY <1>1, SubSeqEmpty
<1>4. ring' = <<>> \o t
    BY <1>3 DEF Taken
<1> HIDE DEF t
<1>5. ring' = t
    BY <1>2, <1>4, ConcatEmptySeq
<1>6. ring' \in Seq(R) /\ Shifted
    BY <1>1, <1>2, <1>5 DEF Shifted
<1>7. QED
    BY <1>6 DEF R

(* At the end of the ring there is one record more, r, or none.            *)
AtMostAdded(r) ==
    /\ Len(ring') = Len(ring) \/ Len(ring') = Len(ring) + 1
    /\ \A n \in 1 .. Len(ring) : ring'[n] = ring[n]
    /\ Len(ring') # Len(ring) => ring'[Len(ring) + 1] = r

(* What the types say of the records of the ring.                          *)
LEMMA RecordTypes ==
    ASSUME TypeOK
    PROVE  /\ ring \in Seq(Rec) /\ Len(ring) \in Nat /\ DOMAIN ring = Records
           /\ \A n \in Records :
                /\ n \in Int /\ ring[n].id \in Int /\ ring[n].act \in Int
                /\ ring[n].size \in Nat
                /\ ring[n].type \in {"alloc", "free", "start"}
                /\ ring[n].st \in {"busy", "ready"}
<1>1. ring \in Seq(Rec) /\ Len(ring) \in Nat /\ DOMAIN ring = Records
    BY DEF TypeOK, Rec, Records
<1>2. ASSUME NEW n \in Records
      PROVE  /\ n \in Int /\ ring[n].id \in Int /\ ring[n].act \in Int
             /\ ring[n].size \in Nat
             /\ ring[n].type \in {"alloc", "free", "start"}
             /\ ring[n].st \in {"busy", "ready"}
    <2>1. ring[n] \in Rec
        BY <1>1
    <2>2. n \in Int
        BY DEF Records
    <2>3. Sizes \cup Residue \cup {0} \subseteq Nat
        BY BitmapAssumption
    <2>4. /\ ring[n].id \in 0 .. MaxBitmaps /\ ring[n].act \in 0 .. MaxStarts
          /\ ring[n].size \in Sizes \cup Residue \cup {0}
          /\ ring[n].type \in {"alloc", "free", "start"}
          /\ ring[n].st \in {"busy", "ready"}
        BY <2>1 DEF Rec
    <2>5. QED
        BY <2>2, <2>3, <2>4
<1>3. QED
    BY <1>1, <1>2

LEMMA CreateShape ==
    ASSUME TypeOK, Bounds, NEW p \in Ptrs, NEW s \in Sizes, Create(p, s),
           NEW i, i = Len(sizes) + 1
    PROVE  /\ place[p] = "none" /\ i \in 1 .. MaxBitmaps
           /\ id' = [id EXCEPT ![p] = i]
           /\ Len(sizes') = i /\ Len(acts') = i
           /\ acts'[i] = act /\ \A j \in 1 .. Len(sizes) : acts'[j] = acts[j]
           /\ sizes' \in Seq(Sizes) /\ acts' \in Seq(Nat)
           /\ together' = together \cup {{i, id[q]} : q \in Alive} \cup {{i}}
           /\ \E l \in {"creating", "live"} : place' = [place EXCEPT ![p] = l]
           /\ AtMostAdded(Record("alloc", p, i, s, act))
           /\ Len(ring') # Len(ring) => place'[p] = "creating"
           /\ ring' \in Seq(Rec) /\ Len(ring') <= RingCap
<1>1. /\ place[p] = "none" /\ Len(sizes) < MaxBitmaps
      /\ id' = [id EXCEPT ![p] = i]
      /\ together' = together \cup {{i, id[q]} : q \in Alive} \cup {{i}}
      /\ sizes' = Append(sizes, s) /\ acts' = Append(acts, act)
    BY DEF Create, Allocate
<1>2. /\ sizes \in Seq(Sizes) /\ acts \in Seq(Nat) /\ act \in Nat /\ act \in 0 .. MaxStarts
      /\ Len(acts) = Len(sizes) /\ Len(ring) <= RingCap
      /\ place \in [Ptrs -> {"none", "creating", "live", "freeing"}]
    BY DEF TypeOK, Bounds
<1>3. /\ Len(sizes') = i /\ Len(acts') = i
      /\ acts'[i] = act /\ \A j \in 1 .. Len(sizes) : acts'[j] = acts[j]
      /\ sizes' \in Seq(Sizes) /\ acts' \in Seq(Nat)
      /\ i \in 1 .. MaxBitmaps
    BY <1>1, <1>2, BitmapAssumption
<1>4. ring \in Seq(Rec) /\ Len(ring) \in Nat
    BY RecordTypes
<1> DEFINE r == Record("alloc", p, i, s, act)
<1>5. r \in Rec
    BY <1>2, <1>3 DEF Rec, Record
<1>6. CASE probing /\ Room
    <2>1. ring' = Append(ring, r) /\ place' = [place EXCEPT ![p] = "creating"]
        BY <1>6 DEF Create
    <2> HIDE DEF r
    <2>2. Added(r) /\ ring' \in Seq(Rec)
        BY <1>4, <1>5, <2>1, AddedWhen
    <2>3. AtMostAdded(r) /\ Len(ring') <= RingCap
        BY <1>4, <1>6, <2>2, BitmapAssumption DEF Added, AtMostAdded, Room
    <2>4. place'[p] = "creating"
        BY <1>2, <2>1
    <2>5. QED
        BY <1>1, <1>3, <2>1, <2>2, <2>3, <2>4 DEF r
<1>7. CASE ~(probing /\ Room)
    <2>1. ring' = ring /\ place' = [place EXCEPT ![p] = "live"]
        BY <1>7 DEF Create
    <2>2. QED
        BY <1>1, <1>2, <1>3, <1>4, <2>1 DEF AtMostAdded
<1>8. QED
    BY <1>6, <1>7

LEMMA FreeShape ==
    ASSUME TypeOK, NEW p \in Ptrs, Free(p)
    PROVE  /\ place[p] = "live"
           /\ \E l \in {"freeing", "none"} : place' = [place EXCEPT ![p] = l]
           /\ active' \subseteq active
           /\ \E r \in Nat : AtMostAdded(Record("free", p, 0, r, 0))
           /\ Len(ring') # Len(ring) => place'[p] = "freeing"
           /\ Len(ring') = Len(ring) => place'[p] = "none"
           /\ (missed' = missed) \/ (missed' = (missed \/ Traced(p)))
           /\ ~missed' => ~missed
           /\ ~missed' /\ Len(ring') = Len(ring) => ~Traced(p)
           /\ ring' \in Seq(Rec) /\ Len(ring') <= RingCap
<1>1. /\ place[p] = "live" /\ active' \subseteq active
      /\ place \in [Ptrs -> {"none", "creating", "live", "freeing"}]
      /\ ring \in Seq(Rec) /\ Len(ring) \in Nat /\ Len(ring) <= RingCap
    BY RecordTypes DEF Free, TypeOK
<1>2. CASE probing /\ p \in active /\ Room
    <2>1. place' = [place EXCEPT ![p] = "freeing"] /\ missed' = missed
        BY <1>2 DEF Free
    <2>2. PICK r \in Residue : ring' = Append(ring, Record("free", p, 0, r, 0))
        BY <1>2 DEF Free
    <2>3. Record("free", p, 0, r, 0) \in Rec
        BY BitmapAssumption DEF Record, Rec
    <2> DEFINE rec == Record("free", p, 0, r, 0)
    <2> HIDE DEF rec
    <2>4. Added(rec) /\ ring' \in Seq(Rec)
        BY <1>1, <2>2, <2>3, AddedWhen DEF rec
    <2>5. AtMostAdded(rec) /\ Len(ring') <= RingCap /\ Len(ring') # Len(ring)
        BY <1>1, <1>2, <2>4, BitmapAssumption DEF Added, AtMostAdded, Room
    <2>6. r \in Nat
        BY BitmapAssumption
    <2>7. place'[p] = "freeing"
        BY <1>1, <2>1
    <2>8. QED
        BY <1>1, <2>1, <2>4, <2>5, <2>6, <2>7 DEF rec
<1>3. CASE ~(probing /\ p \in active /\ Room)
    <2>1. /\ place' = [place EXCEPT ![p] = "none"] /\ missed' = (missed \/ Traced(p))
          /\ ring' = ring
        BY <1>3 DEF Free
    <2>2. AtMostAdded(Record("free", p, 0, 0, 0))
        BY <1>1, <2>1 DEF AtMostAdded
    <2>3. place'[p] = "none"
        BY <1>1, <2>1
    <2>4. QED
        BY <1>1, <2>1, <2>2, <2>3
<1>4. QED
    BY <1>2, <1>3

LEMMA StartShape ==
    ASSUME TypeOK, StartActivity
    PROVE  /\ act' = act + 1 /\ act' \in 0 .. MaxStarts
           /\ AtMostAdded(Record("start", NoPtr, 0, 0, act + 1))
           /\ Len(ring') = Len(ring) => unheard'
           /\ unheard' \in BOOLEAN
           /\ ~unheard' => ~unheard
           /\ ring' \in Seq(Rec) /\ Len(ring') <= RingCap
<1>1. /\ act \in 0 .. MaxStarts /\ act < MaxStarts /\ act' = act + 1 /\ unheard \in BOOLEAN
      /\ ring \in Seq(Rec) /\ Len(ring) \in Nat /\ Len(ring) <= RingCap
    BY RecordTypes DEF StartActivity, TypeOK
<1> DEFINE rec == Record("start", NoPtr, 0, 0, act + 1)
<1>2. rec \in Rec
    BY <1>1, BitmapAssumption DEF Record, Rec
<1>3. CASE probing /\ Room
    <2>1. ring' = Append(ring, rec) /\ unheard' = unheard
        BY <1>3 DEF StartActivity
    <2> HIDE DEF rec
    <2>2. Added(rec) /\ ring' \in Seq(Rec)
        BY <1>1, <1>2, <2>1, AddedWhen
    <2>3. AtMostAdded(rec) /\ Len(ring') <= RingCap /\ Len(ring') # Len(ring)
        BY <1>1, <1>3, <2>2, BitmapAssumption DEF Added, AtMostAdded, Room
    <2>4. act' \in 0 .. MaxStarts
        BY <1>1, BitmapAssumption
    <2>5. QED
        BY <1>1, <2>1, <2>2, <2>3, <2>4 DEF rec
<1>4. CASE ~(probing /\ Room)
    <2>1. ring' = ring /\ unheard' = TRUE
        BY <1>4 DEF StartActivity
    <2>2. AtMostAdded(rec) /\ act' \in 0 .. MaxStarts
        BY <1>1, <2>1, BitmapAssumption DEF AtMostAdded
    <2>3. QED
        BY <1>1, <2>1, <2>2
<1>5. QED
    BY <1>3, <1>4

(* The handler takes the first record: on_item.                            *)
LEMMA HandleShape ==
    ASSUME TypeOK, NEW n \in DOMAIN ring, NEW type, Oldest(n, type), Taken(n)
    PROVE  /\ n = 1 /\ 1 \in Records /\ ring[1].type = type /\ ring[1].st = "ready"
           /\ Shifted /\ ring' \in Seq(Rec) /\ Len(ring') <= RingCap
<1>1. n = 1 /\ ring[1].type = type /\ ring[1].st = "ready" /\ 1 \in 1 .. Len(ring)
    BY RecordTypes DEF Oldest, Records
<1>2. ring \in Seq(Rec) /\ Len(ring) \in Nat /\ Len(ring) <= RingCap
    BY RecordTypes DEF TypeOK
<1>3. Taken(1)
    BY <1>1
<1>4. Shifted /\ ring' \in Seq(Rec)
    BY <1>1, <1>2, <1>3, ShiftedWhen
<1>5. Len(ring') <= RingCap
    BY <1>2, <1>4, BitmapAssumption DEF Shifted
<1>6. QED
    BY <1>1, <1>4, <1>5 DEF Records

(* TypeOK says nothing of how the handler's records are made up.           *)
AppTypes ==
    /\ place \in [Ptrs -> {"none", "creating", "live", "freeing"}]
    /\ id \in [Ptrs -> 0 .. MaxBitmaps]
    /\ sizes \in Seq(Sizes) /\ acts \in Seq(Nat)
    /\ act \in 0 .. MaxStarts
    /\ together \subseteq SUBSET (1 .. MaxBitmaps)
    /\ missed \in BOOLEAN /\ unheard \in BOOLEAN

ProbeTypes ==
    /\ probing \in BOOLEAN /\ runs \in 1 .. MaxRuns
    /\ active \subseteq Ptrs /\ Cardinality(active) <= ActiveCap
    /\ ring \in Seq(Rec) /\ Len(ring) <= RingCap

HandlerTypes ==
    /\ DOMAIN bitmaps \subseteq Ptrs /\ Reported(bitmaps) \subseteq Meta
    /\ snapshot \subseteq Meta
    /\ max \in Nat /\ current \in Int /\ current <= max
    /\ activity \in 0 .. MaxStarts
    /\ seen \subseteq 1 .. MaxBitmaps

LEMMA TypesTogether == TypeOK <=> AppTypes /\ ProbeTypes /\ HandlerTypes
BY DEF TypeOK, AppTypes, ProbeTypes, HandlerTypes, Rec

LEMMA CreateTypes ==
    ASSUME TypeOK, Bounds, Kinds, NEW p \in Ptrs, NEW s \in Sizes, Create(p, s)
    PROVE  TypeOK' /\ Bounds'
<1> DEFINE i == Len(sizes) + 1
<1>1. /\ i \in 1 .. MaxBitmaps
      /\ id' = [id EXCEPT ![p] = i]
      /\ Len(sizes') = i /\ Len(acts') = i
      /\ acts'[i] = act /\ \A j \in 1 .. Len(sizes) : acts'[j] = acts[j]
      /\ sizes' \in Seq(Sizes) /\ acts' \in Seq(Nat)
      /\ together' = together \cup {{i, id[q]} : q \in Alive} \cup {{i}}
      /\ \E l \in {"creating", "live"} : place' = [place EXCEPT ![p] = l]
      /\ ring' \in Seq(Rec) /\ Len(ring') <= RingCap
    BY CreateShape
<1>2. UNCHANGED <<act, probing, active, handler, seen, missed, unheard, runs>>
    BY DEF Create
<1>3. AppTypes /\ ProbeTypes /\ HandlerTypes
    BY TypesTogether
<1>4. \A q \in Alive : q \in Ptrs /\ id[q] \in 1 .. MaxBitmaps
    <2>1. ASSUME NEW q \in Alive PROVE id[q] \in 0 .. MaxBitmaps /\ id[q] >= 1
        BY <1>3 DEF Alive, Kinds, AppTypes
    <2>2. QED
        BY <2>1, BitmapAssumption DEF Alive
<1> HIDE DEF i
<1>5. AppTypes'
    <2>1. together' \subseteq SUBSET (1 .. MaxBitmaps)
        <3>1. \A q \in Alive : {i, id[q]} \in SUBSET (1 .. MaxBitmaps)
            BY <1>1, <1>4
        <3>2. {i} \in SUBSET (1 .. MaxBitmaps)
            BY <1>1
        <3>3. together \subseteq SUBSET (1 .. MaxBitmaps)
            BY <1>3 DEF AppTypes
        <3>4. together' = together \cup {{i, id[q]} : q \in Alive} \cup {{i}}
            BY <1>1
        <3>5. \A x \in {{i, id[q]} : q \in Alive} : x \in SUBSET (1 .. MaxBitmaps)
            BY <3>1
        <3>6. QED
            BY <3>2, <3>3, <3>4, <3>5
    <2>2. id' \in [Ptrs -> 0 .. MaxBitmaps]
        BY <1>1, <1>3, BitmapAssumption DEF AppTypes
    <2>3. place' \in [Ptrs -> {"none", "creating", "live", "freeing"}]
        BY <1>1, <1>3 DEF AppTypes
    <2>4. act' \in 0 .. MaxStarts /\ missed' \in BOOLEAN /\ unheard' \in BOOLEAN
        BY <1>2, <1>3 DEF AppTypes
    <2>5. QED
        BY <1>1, <2>1, <2>2, <2>3, <2>4 DEF AppTypes
<1>6. ProbeTypes'
    BY <1>1, <1>2, <1>3 DEF ProbeTypes
<1>7. HandlerTypes'
    BY <1>2, <1>3 DEF HandlerTypes, handler, Reported
<1>8. Bounds'
    <2>1. Len(sizes) \in Nat /\ i = Len(sizes) + 1
        BY <1>3 DEF AppTypes, i
    <2>2. Len(sizes') <= MaxBitmaps /\ Len(acts') = Len(sizes')
        BY <1>1, BitmapAssumption
    <2>3. ASSUME NEW j \in DOMAIN acts' PROVE acts'[j] \in 0 .. MaxStarts
        <3>1. j \in 1 .. i
            BY <1>1, <2>3
        <3>2. CASE j = i
            BY <1>1, <1>3, <3>2 DEF AppTypes
        <3>3. CASE j # i
            <4>1. j \in 1 .. Len(sizes) /\ j \in DOMAIN acts
                BY <1>3, <2>1, <3>1, <3>3 DEF AppTypes, Bounds
            <4>2. QED
                BY <1>1, <4>1 DEF Bounds
        <3>4. QED
            BY <3>2, <3>3
    <2>4. seen' \subseteq 1 .. Len(sizes')
        BY <1>1, <1>2, <2>1 DEF Bounds
    <2>5. /\ \A q \in DOMAIN bitmaps' : bitmaps'[q].id \in seen'
          /\ \A x \in snapshot' : x.id \in seen'
        BY <1>2 DEF Bounds, handler
    <2>6. IsFiniteSet(active')
        BY <1>2 DEF Bounds
    <2>7. QED
        BY <2>2, <2>3, <2>4, <2>5, <2>6 DEF Bounds
<1>9. QED
    BY <1>5, <1>6, <1>7, <1>8, TypesTogether, PTL

(* The programs that touch neither the handler nor what a bitmap is.       *)
LEMMA ProbeStepTypes ==
    ASSUME TypeOK, Bounds,
           place' \in [Ptrs -> {"none", "creating", "live", "freeing"}],
           UNCHANGED <<id, sizes, acts, handler, seen, together>>,
           act' \in 0 .. MaxStarts, missed' \in BOOLEAN, unheard' \in BOOLEAN,
           ProbeTypes', IsFiniteSet(active')
    PROVE  TypeOK' /\ Bounds'
<1>1. AppTypes /\ HandlerTypes
    BY TypesTogether
<1>2. AppTypes'
    BY <1>1 DEF AppTypes
<1>3. HandlerTypes'
    BY <1>1 DEF HandlerTypes, handler, Reported
<1>4. Bounds'
    BY DEF Bounds, handler
<1>5. QED
    BY <1>2, <1>3, <1>4, TypesTogether, PTL

LEMMA AppStepTypes ==
    ASSUME TypeOK, Bounds, Kinds, AppStep
    PROVE  TypeOK' /\ Bounds'
<1>1. /\ AppTypes /\ ProbeTypes /\ HandlerTypes
      /\ ring \in Seq(Rec) /\ Len(ring) \in Nat /\ DOMAIN ring = Records
    BY TypesTogether, RecordTypes
<1>2. ASSUME NEW p \in Ptrs, NEW s \in Sizes, Create(p, s) PROVE TypeOK' /\ Bounds'
    BY <1>2, CreateTypes
<1>3. ASSUME NEW p \in Ptrs, Free(p) PROVE TypeOK' /\ Bounds'
    <2>1. /\ \E l \in {"freeing", "none"} : place' = [place EXCEPT ![p] = l]
          /\ active' \subseteq active
          /\ ring' \in Seq(Rec) /\ Len(ring') <= RingCap
          /\ (missed' = missed) \/ (missed' = (missed \/ Traced(p)))
        BY <1>3, FreeShape
    <2>2. UNCHANGED <<id, sizes, acts, act, probing, handler, seen, together, unheard, runs>>
        BY <1>3 DEF Free
    <2>3. /\ active' \subseteq Ptrs /\ Cardinality(active') <= ActiveCap
          /\ IsFiniteSet(active')
        <3>1. active \subseteq Ptrs /\ IsFiniteSet(active) /\ Cardinality(active) <= ActiveCap
            BY <1>1 DEF ProbeTypes, Bounds
        <3>2. /\ IsFiniteSet(active') /\ Cardinality(active') <= Cardinality(active)
              /\ Cardinality(active') \in Nat /\ Cardinality(active) \in Nat
            BY <2>1, <3>1, FS_Subset, FS_CardinalityType
        <3>3. QED
            BY <2>1, <3>1, <3>2, BitmapAssumption
    <2>4. ProbeTypes'
        BY <1>1, <2>1, <2>2, <2>3 DEF ProbeTypes
    <2>5. QED
        BY <1>1, <2>1, <2>2, <2>3, <2>4, ProbeStepTypes DEF AppTypes, Traced
<1>4. ASSUME StartActivity PROVE TypeOK' /\ Bounds'
    <2>1. /\ act' \in 0 .. MaxStarts /\ unheard' \in BOOLEAN
          /\ ring' \in Seq(Rec) /\ Len(ring') <= RingCap
        BY <1>4, StartShape
    <2>2. UNCHANGED <<place, id, sizes, acts, probing, active, handler, seen, together, missed,
                      runs>>
        BY <1>4 DEF StartActivity
    <2>3. ProbeTypes'
        BY <1>1, <2>1, <2>2 DEF ProbeTypes
    <2>4. QED
        BY <1>1, <2>1, <2>2, <2>3, ProbeStepTypes DEF AppTypes, Bounds
<1>5. ASSUME NEW n \in DOMAIN ring, SubmitCreate(n) \/ SubmitFree(n) \/ SubmitStart(n)
      PROVE  TypeOK' /\ Bounds'
    <2>1. Ready(n) /\ n \in 1 .. Len(ring)
        BY <1>1, <1>5 DEF SubmitCreate, SubmitFree, SubmitStart, Records
    <2>2. ring' \in Seq(Rec) /\ Len(ring') <= RingCap
        BY <1>1, <2>1, MarkedWhen DEF Marked, ProbeTypes
    <2>3. UNCHANGED <<id, sizes, acts, act, probing, handler, seen, together, missed, unheard,
                      runs>>
        BY <1>5 DEF SubmitCreate, SubmitFree, SubmitStart, app
    <2>4. place' \in [Ptrs -> {"none", "creating", "live", "freeing"}]
        BY <1>1, <1>5 DEF SubmitCreate, SubmitFree, SubmitStart, app, AppTypes
    <2>5. /\ active' \subseteq Ptrs /\ Cardinality(active') <= ActiveCap
          /\ IsFiniteSet(active')
        <3>1. active \subseteq Ptrs /\ IsFiniteSet(active) /\ Cardinality(active) <= ActiveCap
            BY <1>1 DEF ProbeTypes, Bounds
        <3>2. CASE UNCHANGED active
            BY <3>1, <3>2
        <3>3. CASE active' # active
            <4>1. /\ ring[n].type = "alloc" /\ n \in Records /\ Cardinality(active) < ActiveCap
                  /\ active' = active \cup {ring[n].ptr}
                BY <1>1, <1>5, <3>3 DEF SubmitCreate, SubmitFree, SubmitStart
            <4>2. ring[n].ptr \in Ptrs
                BY <4>1 DEF Kinds, IsAlloc
            <4>3. /\ IsFiniteSet(active') /\ Cardinality(active') <= Cardinality(active) + 1
                  /\ Cardinality(active) \in Nat /\ Cardinality(active') \in Nat
                <5>1. /\ IsFiniteSet(active')
                      /\ Cardinality(active') = IF ring[n].ptr \in active
                            THEN Cardinality(active) ELSE Cardinality(active) + 1
                    BY <3>1, <4>1, FS_AddElement
                <5>2. Cardinality(active) \in Nat
                    BY <3>1, FS_CardinalityType
                <5>3. QED
                    BY <5>1, <5>2
            <4>4. Cardinality(active') <= ActiveCap
                BY <4>1, <4>3, BitmapAssumption
            <4>5. QED
                BY <3>1, <4>1, <4>2, <4>3, <4>4
        <3>4. QED
            BY <3>2, <3>3
    <2>6. ProbeTypes'
        BY <1>1, <2>2, <2>3, <2>5 DEF ProbeTypes
    <2>7. QED
        BY <1>1, <2>3, <2>4, <2>5, <2>6, ProbeStepTypes DEF AppTypes
<1>6. QED
    BY <1>2, <1>3, <1>4, <1>5 DEF AppStep

(* An allocation, a free and a start, as the handler leaves them.          *)
LEMMA AllocHandled ==
    ASSUME TypeOK, Kinds, NEW n \in DOMAIN ring, HandleAlloc(n),
           NEW p, p = ring[1].ptr, NEW i, i = ring[1].id
    PROVE  /\ 1 \in Records /\ IsAlloc(1) /\ ring[1].st = "ready"
           /\ p \in Ptrs /\ i \in 1 .. Len(sizes)
           /\ Shifted /\ ring' \in Seq(Rec) /\ Len(ring') <= RingCap
           /\ DOMAIN bitmaps' = DOMAIN bitmaps \cup {p}
           /\ bitmaps'[p] = [id |-> i, act |-> activity]
           /\ \A q \in DOMAIN bitmaps \ {p} : bitmaps'[q] = bitmaps[q]
           /\ snapshot' = snapshot \/ snapshot' = Reported(bitmaps')
           /\ seen' = seen \cup {i}
           /\ UNCHANGED <<app, probing, active, together, missed, unheard, runs, activity>>
<1>1. Oldest(n, "alloc") /\ Taken(n) /\ Remember(n)
    BY DEF HandleAlloc
<1>2. /\ n = 1 /\ 1 \in Records /\ ring[1].type = "alloc" /\ ring[1].st = "ready"
      /\ Shifted /\ ring' \in Seq(Rec) /\ Len(ring') <= RingCap
    BY <1>1, HandleShape
<1>3. p \in Ptrs /\ i \in 1 .. Len(sizes)
    BY <1>2 DEF Kinds, IsAlloc
<1>4. bitmaps' = [q \in DOMAIN bitmaps \cup {p} |->
                    IF q = p THEN [id |-> i, act |-> activity] ELSE bitmaps[q]]
    BY <1>1, <1>2 DEF Remember
<1>5. /\ snapshot' = snapshot \/ snapshot' = Reported(bitmaps')
      /\ seen' = seen \cup {i}
      /\ UNCHANGED <<app, probing, active, together, missed, unheard, runs, activity>>
    BY <1>2 DEF HandleAlloc, Quiet
<1>6. QED
    BY <1>2, <1>3, <1>4, <1>5 DEF IsAlloc

LEMMA FreeHandled ==
    ASSUME TypeOK, Kinds, NEW n \in DOMAIN ring, HandleFree(n), NEW p, p = ring[1].ptr
    PROVE  /\ 1 \in Records /\ IsFree(1) /\ ring[1].st = "ready" /\ p \in Ptrs
           /\ Shifted /\ ring' \in Seq(Rec) /\ Len(ring') <= RingCap
           /\ DOMAIN bitmaps' = DOMAIN bitmaps \ {p}
           /\ \A q \in DOMAIN bitmaps \ {p} : bitmaps'[q] = bitmaps[q]
           /\ UNCHANGED <<app, probing, active, together, missed, unheard, runs, activity,
                          snapshot, seen>>
<1>1. Oldest(n, "free") /\ Taken(n) /\ bitmaps' = Without(bitmaps, ring[n].ptr)
    BY DEF HandleFree
<1>2. /\ n = 1 /\ 1 \in Records /\ ring[1].type = "free" /\ ring[1].st = "ready"
      /\ Shifted /\ ring' \in Seq(Rec) /\ Len(ring') <= RingCap
    BY <1>1, HandleShape
<1>3. p \in Ptrs
    BY <1>2 DEF Kinds, IsFree
<1>4. bitmaps' = [q \in DOMAIN bitmaps \ {p} |-> bitmaps[q]]
    BY <1>1, <1>2 DEF Without
<1>5. UNCHANGED <<app, probing, active, together, missed, unheard, runs, activity,
                  snapshot, seen>>
    BY DEF HandleFree, Quiet
<1>6. QED
    BY <1>2, <1>3, <1>4, <1>5 DEF IsFree

LEMMA StartHandled ==
    ASSUME TypeOK, NEW n \in DOMAIN ring, HandleStart(n)
    PROVE  /\ 1 \in Records /\ IsStart(1) /\ ring[1].st = "ready"
           /\ Shifted /\ ring' \in Seq(Rec) /\ Len(ring') <= RingCap
           /\ activity' = ring[1].act
           /\ UNCHANGED <<app, probing, active, together, missed, unheard, runs, bitmaps, max,
                          current, snapshot, seen>>
<1>1. Oldest(n, "start") /\ Taken(n)
    BY DEF HandleStart
<1>2. /\ n = 1 /\ 1 \in Records /\ ring[1].type = "start" /\ ring[1].st = "ready"
      /\ Shifted /\ ring' \in Seq(Rec) /\ Len(ring') <= RingCap
    BY <1>1, HandleShape
<1>3. QED
    BY <1>2 DEF HandleStart, Quiet, IsStart

(* A step of the handler leaves the types of everything else alone.        *)
LEMMA HandlerKeeps ==
    ASSUME TypeOK, Bounds, UNCHANGED <<app, probing, active, together, missed, unheard, runs>>,
           ring' \in Seq(Rec), Len(ring') <= RingCap, HandlerTypes',
           seen' \subseteq 1 .. Len(sizes),
           (\A p \in DOMAIN bitmaps : bitmaps[p].id \in seen)',
           (\A x \in snapshot : x.id \in seen)'
    PROVE  TypeOK' /\ Bounds'
<1>1. AppTypes' /\ ProbeTypes'
    BY TypesTogether DEF AppTypes, ProbeTypes, app
<1>2. Bounds'
    BY DEF Bounds, app
<1>3. QED
    BY <1>1, <1>2, TypesTogether, PTL

LEMMA HandlerStepTypes ==
    ASSUME TypeOK, Bounds, Kinds, HandlerStep
    PROVE  TypeOK' /\ Bounds'
<1>1. HandlerTypes /\ AppTypes
    BY TypesTogether
<1>2. PICK n \in DOMAIN ring : HandleAlloc(n) \/ HandleFree(n) \/ HandleStart(n)
    BY DEF HandlerStep
<1>3. /\ \A m \in Records : ring[m].size \in Nat /\ ring[m] \in Rec
      /\ max \in Nat /\ current \in Int /\ activity \in 0 .. MaxStarts
    <2>1. /\ \A m \in Records : ring[m].size \in Nat
          /\ max \in Nat /\ current \in Int /\ activity \in 0 .. MaxStarts
        BY <1>1, RecordTypes DEF HandlerTypes
    <2>2. \A m \in Records : ring[m] \in Rec
        BY RecordTypes DEF Records
    <2>3. QED
        BY <2>1, <2>2
<1>4. CASE HandleAlloc(n)
    <2> DEFINE p == ring[1].ptr
               i == ring[1].id
    <2>1. /\ 1 \in Records /\ p \in Ptrs /\ i \in 1 .. Len(sizes)
          /\ ring' \in Seq(Rec) /\ Len(ring') <= RingCap
          /\ DOMAIN bitmaps' = DOMAIN bitmaps \cup {p}
          /\ bitmaps'[p] = [id |-> i, act |-> activity]
          /\ \A q \in DOMAIN bitmaps \ {p} : bitmaps'[q] = bitmaps[q]
          /\ snapshot' = snapshot \/ snapshot' = Reported(bitmaps')
          /\ seen' = seen \cup {i}
          /\ UNCHANGED <<app, probing, active, together, missed, unheard, runs, activity>>
        BY <1>4, AllocHandled
    <2>2. n = 1
        BY <1>4 DEF HandleAlloc, Oldest
    <2> HIDE DEF p, i
    <2>3. i \in 1 .. MaxBitmaps /\ 1 .. Len(sizes) \subseteq 1 .. MaxBitmaps
        BY <1>1, <2>1, BitmapAssumption DEF Bounds, AppTypes
    <2>4. \A q \in DOMAIN bitmaps' : bitmaps'[q] \in Meta /\ bitmaps'[q].id \in seen'
        <3>1. [id |-> i, act |-> activity] \in Meta /\ [id |-> i, act |-> activity].id = i
            BY <1>3, <2>3 DEF Meta
        <3>2. \A q \in DOMAIN bitmaps : bitmaps[q] \in Meta /\ bitmaps[q].id \in seen
            BY <1>1 DEF HandlerTypes, Reported, Bounds
        <3>3. QED
            BY <2>1, <3>1, <3>2
    <2>5. Reported(bitmaps') \subseteq Meta /\ \A x \in Reported(bitmaps') : x.id \in seen'
        BY <2>4 DEF Reported
    <2>6. snapshot' \subseteq Meta /\ \A x \in snapshot' : x.id \in seen'
        BY <1>1, <2>1, <2>5 DEF HandlerTypes, Bounds
    <2>7. max' \in Nat /\ current' \in Int /\ current' <= max'
        <3>1. /\ current' = current + ring[1].size
              /\ \/ current' > max /\ max' = current'
                 \/ ~(current' > max) /\ max' = max
            BY <1>4, <2>2 DEF HandleAlloc
        <3>2. QED
            BY <1>3, <2>1, <3>1
    <2>8. seen' \subseteq 1 .. Len(sizes)
        BY <2>1 DEF Bounds
    <2>9. HandlerTypes'
        BY <1>1, <2>1, <2>3, <2>5, <2>6, <2>7, <2>8 DEF HandlerTypes
    <2>10. QED
        BY <2>1, <2>4, <2>6, <2>8, <2>9, HandlerKeeps
<1>5. CASE HandleFree(n)
    <2> DEFINE p == ring[1].ptr
    <2>1. /\ 1 \in Records /\ p \in Ptrs
          /\ ring' \in Seq(Rec) /\ Len(ring') <= RingCap
          /\ DOMAIN bitmaps' = DOMAIN bitmaps \ {p}
          /\ \A q \in DOMAIN bitmaps \ {p} : bitmaps'[q] = bitmaps[q]
          /\ UNCHANGED <<app, probing, active, together, missed, unheard, runs, activity,
                         snapshot, seen>>
        BY <1>5, FreeHandled
    <2>2. n = 1
        BY <1>5 DEF HandleFree, Oldest
    <2> HIDE DEF p
    <2>3. \A q \in DOMAIN bitmaps' : bitmaps'[q] \in Meta /\ bitmaps'[q].id \in seen'
        BY <1>1, <2>1 DEF HandlerTypes, Reported, Bounds
    <2>4. Reported(bitmaps') \subseteq Meta
        BY <2>3 DEF Reported
    <2>5. max' \in Nat /\ current' \in Int /\ current' <= max'
        <3>1. current' = current - ring[1].size /\ max' = max
            BY <1>5, <2>2 DEF HandleFree
        <3>2. current <= max
            BY <1>1 DEF HandlerTypes
        <3>3. QED
            BY <1>3, <2>1, <3>1, <3>2
    <2>6. HandlerTypes'
        BY <1>1, <2>1, <2>4, <2>5 DEF HandlerTypes
    <2>7. QED
        BY <2>1, <2>3, <2>6, HandlerKeeps DEF Bounds
<1>6. CASE HandleStart(n)
    <2>1. /\ 1 \in Records
          /\ ring' \in Seq(Rec) /\ Len(ring') <= RingCap
          /\ activity' = ring[1].act
          /\ UNCHANGED <<app, probing, active, together, missed, unheard, runs, bitmaps, max,
                         current, snapshot, seen>>
        BY <1>6, StartHandled
    <2>2. activity' \in 0 .. MaxStarts
        BY <1>3, <2>1 DEF Rec
    <2>3. HandlerTypes'
        BY <1>1, <2>1, <2>2 DEF HandlerTypes, Reported
    <2>4. QED
        BY <2>1, <2>3, HandlerKeeps DEF Bounds
<1>7. QED
    BY <1>2, <1>4, <1>5, <1>6

LEMMA RunStepTypes ==
    ASSUME TypeOK, Bounds, EndRun \/ StartRun
    PROVE  TypeOK' /\ Bounds'
<1>1. HandlerTypes /\ AppTypes /\ ProbeTypes
    BY TypesTogether
<1>2. UNCHANGED <<app, active, ring, together, missed>> /\ probing' \in BOOLEAN
    BY DEF EndRun, StartRun
<1>3. unheard' \in BOOLEAN /\ runs' \in 1 .. MaxRuns
    <2>1. CASE EndRun
        BY <1>1, <2>1 DEF EndRun, AppTypes, ProbeTypes
    <2>2. CASE StartRun
        BY <1>1, <2>2, BitmapAssumption DEF StartRun, ProbeTypes
    <2>3. QED
        BY <2>1, <2>2
<1>4. AppTypes' /\ ProbeTypes'
    BY <1>1, <1>2, <1>3 DEF AppTypes, ProbeTypes, app
<1>5. HandlerTypes' /\ Bounds'
    <2>1. CASE EndRun
        BY <1>1, <1>2, <2>1 DEF EndRun, HandlerTypes, Bounds, handler, app, Reported
    <2>2. CASE StartRun
        <3>1. /\ bitmaps' = NoMeta /\ max' = 0 /\ current' = 0 /\ snapshot' = {}
              /\ activity' = 0 /\ seen' = {} /\ DOMAIN NoMeta = {}
            BY <2>2 DEF StartRun, NoMeta
        <3>2. HandlerTypes'
            BY <3>1, BitmapAssumption DEF HandlerTypes, Reported
        <3>3. Bounds'
            BY <1>2, <3>1 DEF Bounds, app
        <3>4. QED
            BY <3>2, <3>3
    <2>3. QED
        BY <2>1, <2>2
<1>6. QED
    BY <1>4, <1>5, TypesTogether, PTL

(***************************************************************************)
(* What the records are about, step by step.                               *)
(***************************************************************************)
LEMMA ShiftedRecords ==
    ASSUME TypeOK, Shifted
    PROVE  \A n \in Records' : n \in Int /\ n + 1 \in Records /\ ring'[n] = ring[n + 1]
BY RecordTypes DEF Shifted, Records

LEMMA ShiftedKeeps ==
    ASSUME TypeOK, Kinds, Busy, InOrder, Shifted, UNCHANGED app
    PROVE  Kinds' /\ Busy' /\ InOrder'
<1>1. \A n \in Records' : n \in Int /\ n + 1 \in Records /\ ring'[n] = ring[n + 1]
    BY ShiftedRecords
<1>2. UNCHANGED <<place, id, sizes, acts>>
    BY DEF app
<1>3. Kinds'
    BY <1>1, <1>2 DEF Kinds, IsAlloc, IsFree, IsStart
<1>4. Busy'
    BY <1>1, <1>2 DEF Busy, IsAlloc, IsFree, IsStart
<1>5. InOrder'
    BY <1>1, <1>2 DEF InOrder, IsAlloc, IsFree, Lives
<1>6. QED
    BY <1>3, <1>4, <1>5

LEMMA AllocFresh ==
    ASSUME TypeOK, Bounds, Kinds, InOrder, Fresh, LiveReported,
           NEW n \in DOMAIN ring, HandleAlloc(n)
    PROVE  Fresh' /\ LiveReported'
<1> DEFINE p == ring[1].ptr
           i == ring[1].id
<1>1. /\ 1 \in Records /\ IsAlloc(1) /\ p \in Ptrs /\ i \in 1 .. Len(sizes) /\ Shifted
      /\ DOMAIN bitmaps' = DOMAIN bitmaps \cup {p}
      /\ bitmaps'[p] = [id |-> i, act |-> activity]
      /\ \A q \in DOMAIN bitmaps \ {p} : bitmaps'[q] = bitmaps[q]
      /\ seen' = seen \cup {i}
      /\ UNCHANGED <<place, id>>
    BY AllocHandled DEF app
<1>2. \A m \in Records' : m \in Int /\ m + 1 \in Records /\ ring'[m] = ring[m + 1]
    BY <1>1, ShiftedRecords
<1>3. \A q \in Ptrs : id[q] = i => q = p
    BY <1>1 DEF Kinds
<1>4. id[p] \notin seen
    BY <1>1 DEF Fresh
<1>5. ASSUME NEW m \in Records', IsAlloc(m)' PROVE id[ring'[m].ptr] \notin seen'
    <2>1. PICK k \in Records : k = m + 1
        BY <1>2
    <2>2. IsAlloc(k) /\ ring'[m] = ring[k] /\ 1 < k
        BY <1>2, <1>5, <2>1 DEF IsAlloc, Records
    <2> DEFINE q == ring[k].ptr
    <2>3. q \in Ptrs /\ ring[k].id <= id[q] /\ id[q] \notin seen
        BY <2>2 DEF Kinds, Fresh
    <2>4. ASSUME q = p PROVE id[q] # i
        <3>1. i < ring[k].id
            BY <1>1, <2>2, <2>4 DEF InOrder
        <3>2. id[q] \in Int /\ ring[k].id \in Int /\ i \in Int
            <4>1. id[q] \in Int
                BY <2>3 DEF TypeOK
            <4>2. QED
                BY <1>1, <4>1, RecordTypes
        <3>3. QED
            BY <2>3, <3>1, <3>2
    <2>5. id[q] # i
        BY <1>3, <2>3, <2>4
    <2>6. QED
        BY <1>1, <2>2, <2>3, <2>5
<1>6. ASSUME NEW m \in Records', IsFree(m)', Lives(ring[m].ptr)'
      PROVE  id[ring'[m].ptr] \notin seen'
    <2>1. PICK k \in Records : k = m + 1
        BY <1>2
    <2>2. IsFree(k) /\ ring'[m] = ring[k] /\ ~(k < 1) /\ Lives(ring[k].ptr)
        BY <1>1, <1>2, <1>6, <2>1 DEF IsFree, Records, Lives
    <2> DEFINE q == ring[k].ptr
    <2>3. q \in Ptrs /\ id[q] \notin seen
        BY <2>2 DEF Kinds, Fresh
    <2>4. ASSUME id[q] = i PROVE FALSE
        <3>1. q = p
            BY <1>3, <2>3, <2>4
        <3>2. k < 1
            BY <1>1, <2>2, <2>4, <3>1 DEF InOrder
        <3>3. QED
            BY <2>2, <3>2
    <2>5. QED
        BY <1>1, <2>2, <2>3, <2>4
<1>7. Fresh'
    BY <1>1, <1>5, <1>6 DEF Fresh
<1>8. ASSUME NEW q \in Ptrs, Lives(q), id[q] \in seen'
      PROVE  q \in DOMAIN bitmaps' /\ bitmaps'[q].id = id[q]
    <2>1. CASE q = p
        <3>1. id[p] = i
            BY <1>1, <1>4, <1>8, <2>1
        <3>2. QED
            BY <1>1, <2>1, <3>1
    <2>2. CASE q # p
        <3>1. id[q] \in seen
            BY <1>1, <1>3, <1>8, <2>2
        <3>2. q \in DOMAIN bitmaps /\ bitmaps[q].id = id[q]
            BY <1>8, <3>1 DEF LiveReported, Lives
        <3>3. QED
            BY <1>1, <2>2, <3>2
    <2>3. QED
        BY <2>1, <2>2
<1>9. LiveReported'
    BY <1>1, <1>8 DEF LiveReported, Lives
<1>10. QED
    BY <1>7, <1>9

LEMMA FreeFresh ==
    ASSUME TypeOK, Bounds, Kinds, InOrder, Fresh, LiveReported,
           NEW n \in DOMAIN ring, HandleFree(n)
    PROVE  Fresh' /\ LiveReported'
<1> DEFINE p == ring[1].ptr
<1>1. /\ 1 \in Records /\ IsFree(1) /\ p \in Ptrs /\ Shifted
      /\ DOMAIN bitmaps' = DOMAIN bitmaps \ {p}
      /\ \A q \in DOMAIN bitmaps \ {p} : bitmaps'[q] = bitmaps[q]
      /\ UNCHANGED <<place, id, seen>>
    BY FreeHandled DEF app
<1>2. \A m \in Records' : m \in Int /\ m + 1 \in Records /\ ring'[m] = ring[m + 1]
    BY <1>1, ShiftedRecords
<1>3. Fresh'
    BY <1>1, <1>2 DEF Fresh, IsAlloc, IsFree, Lives
<1>4. Lives(p) => id[p] \notin seen
    BY <1>1 DEF Fresh
<1>5. LiveReported'
    BY <1>1, <1>4 DEF LiveReported, Lives
<1>6. QED
    BY <1>3, <1>5

LEMMA StartFresh ==
    ASSUME TypeOK, Fresh, LiveReported, NEW n \in DOMAIN ring, HandleStart(n)
    PROVE  Fresh' /\ LiveReported'
<1>1. Shifted /\ UNCHANGED <<place, id, seen, bitmaps>>
    BY StartHandled DEF app
<1>2. \A m \in Records' : m \in Int /\ m + 1 \in Records /\ ring'[m] = ring[m + 1]
    BY <1>1, ShiftedRecords
<1>3. QED
    BY <1>1, <1>2 DEF Fresh, LiveReported, IsAlloc, IsFree, Lives

LEMMA AddedRecords ==
    ASSUME TypeOK, NEW r, AtMostAdded(r)
    PROVE  /\ Records \subseteq Records'
           /\ \A n \in Records : n \in Int /\ ring'[n] = ring[n] /\ n < Len(ring) + 1
           /\ \A n \in Records' :
                \/ n \in Records
                \/ n = Len(ring) + 1 /\ ring'[n] = r /\ Len(ring') # Len(ring)
BY RecordTypes DEF AtMostAdded, Records

LEMMA CreateKeeps ==
    ASSUME TypeOK, Bounds, Kinds, Busy, InOrder, Fresh, LiveReported,
           NEW p \in Ptrs, NEW s \in Sizes, Create(p, s)
    PROVE  Kinds' /\ Busy' /\ InOrder' /\ Fresh' /\ LiveReported'
<1>1. PICK i : i = Len(sizes) + 1
    OBVIOUS
<1>2. PICK r : r = Record("alloc", p, i, s, act)
    OBVIOUS
<1>3. /\ r.type = "alloc" /\ r.ptr = p /\ r.id = i /\ r.act = act /\ r.st = "busy"
    BY <1>2 DEF Record
<1>4. /\ place[p] = "none" /\ i \in 1 .. MaxBitmaps
      /\ id' = [id EXCEPT ![p] = i]
      /\ Len(sizes') = i /\ Len(acts') = i
      /\ acts'[i] = act /\ \A j \in 1 .. Len(sizes) : acts'[j] = acts[j]
      /\ \E l \in {"creating", "live"} : place' = [place EXCEPT ![p] = l]
      /\ AtMostAdded(r)
      /\ Len(ring') # Len(ring) => place'[p] = "creating"
    BY <1>1, <1>2, CreateShape
<1>5. UNCHANGED <<bitmaps, seen>>
    BY DEF Create, handler
<1>6. PICK z : z = Len(ring) + 1
    OBVIOUS
<1>7. /\ Records \subseteq Records' /\ z \in Int
      /\ \A n \in Records : n \in Int /\ ring'[n] = ring[n] /\ n < z
      /\ \A n \in Records' :
            \/ n \in Records
            \/ n = z /\ ring'[n] = r /\ place'[p] = "creating"
    BY <1>4, <1>6, AddedRecords, RecordTypes
<1>8. /\ Len(sizes) \in Nat /\ id \in [Ptrs -> Int]
      /\ place \in [Ptrs -> {"none", "creating", "live", "freeing"}]
    BY DEF TypeOK
<1>9. /\ id'[p] = i /\ id' \in [Ptrs -> Int] /\ place'[p] \in {"creating", "live"}
      /\ \A q \in Ptrs : q # p => id'[q] = id[q] /\ place'[q] = place[q]
      /\ i \in Int /\ Len(sizes') = i /\ i > Len(sizes)
    BY <1>1, <1>4, <1>8
<1>10. \A n \in Records : ring[n].id \in Int /\ ring[n].type \in {"alloc", "free", "start"}
    BY RecordTypes
<1>11. Kinds'
    <2>1. ASSUME NEW n \in Records', IsAlloc(n)'
          PROVE  /\ ring'[n].ptr \in Ptrs
                 /\ ring'[n].id \in 1 .. Len(sizes')
                 /\ ring'[n].id <= id'[ring'[n].ptr]
                 /\ ring'[n].act = acts'[ring'[n].id]
        <3>1. CASE n \in Records
            <4>1. /\ ring'[n] = ring[n] /\ ring[n].ptr \in Ptrs /\ ring[n].id \in 1 .. Len(sizes)
                  /\ ring[n].id <= id[ring[n].ptr] /\ ring[n].act = acts[ring[n].id]
                BY <1>7, <2>1, <3>1 DEF Kinds, IsAlloc
            <4>2. ring[n].id <= id'[ring[n].ptr]
                <5>1. CASE ring[n].ptr = p
                    <6>1. ring[n].id <= Len(sizes) /\ ring[n].id \in Int
                        BY <1>8, <4>1
                    <6>2. QED
                        BY <1>8, <1>9, <5>1, <6>1
                <5>2. CASE ring[n].ptr # p
                    BY <1>9, <4>1, <5>2
                <5>3. QED
                    BY <5>1, <5>2
            <4>3. ring[n].id \in 1 .. Len(sizes') /\ acts'[ring[n].id] = acts[ring[n].id]
                BY <1>4, <1>8, <1>9, <4>1
            <4>4. QED
                BY <4>1, <4>2, <4>3
        <3>2. CASE n \notin Records
            BY <1>3, <1>4, <1>7, <1>9, <3>2
        <3>3. QED
            BY <3>1, <3>2
    <2>2. \A n \in Records' :
             /\ IsFree(n)' => ring'[n].ptr \in Ptrs
             /\ IsStart(n)' => ring'[n].ptr \notin Ptrs
        BY <1>3, <1>7 DEF Kinds, IsFree, IsStart
    <2>3. ASSUME NEW n \in Records', NEW q \in Ptrs, IsAlloc(n)', ring'[n].id = id'[q]
          PROVE  ring'[n].ptr = q
        <3>1. CASE n \in Records
            <4>1. ring'[n] = ring[n] /\ ring[n].id \in 1 .. Len(sizes) /\ IsAlloc(n)
                BY <1>7, <2>3, <3>1 DEF Kinds, IsAlloc
            <4>2. q # p
                BY <1>8, <1>9, <2>3, <4>1
            <4>3. QED
                BY <1>9, <2>3, <3>1, <4>1, <4>2 DEF Kinds
        <3>2. CASE n \notin Records
            <4>1. ring'[n] = r
                BY <1>7, <3>2
            <4>2. q # p => id[q] <= Len(sizes)
                BY DEF Kinds
            <4>3. QED
                BY <1>3, <1>8, <1>9, <2>3, <4>1, <4>2
        <3>3. QED
            BY <3>1, <3>2
    <2>4. ASSUME NEW q \in Ptrs
          PROVE  id'[q] <= Len(sizes') /\ (place'[q] # "none" => id'[q] >= 1)
        BY <1>4, <1>8, <1>9 DEF Kinds
    <2>5. ASSUME NEW q \in Ptrs, NEW o \in Ptrs, id'[q] = id'[o], id'[q] # 0
          PROVE  q = o
        <3>1. \A x \in Ptrs : id[x] <= Len(sizes) /\ id[x] # i
            BY <1>8, <1>9 DEF Kinds
        <3>2. QED
            BY <1>9, <2>5, <3>1 DEF Kinds
    <2>6. QED
        BY <2>1, <2>2, <2>3, <2>4, <2>5 DEF Kinds
<1>12. \A n \in Records :
          /\ IsAlloc(n) => ring[n].ptr \in Ptrs
          /\ IsFree(n) => ring[n].ptr \in Ptrs
          /\ ring[n].st = "busy" /\ ~IsStart(n) => ring[n].ptr # p
    BY <1>4, <1>10 DEF Kinds, Busy, IsAlloc, IsFree, IsStart
<1>13. Busy'
    <2>1. ASSUME NEW n \in Records', ring'[n].st = "busy"
          PROVE  /\ IsAlloc(n)' => place'[ring'[n].ptr] = "creating"
                 /\ IsFree(n)' => place'[ring'[n].ptr] = "freeing"
        <3>1. CASE n \in Records
            <4>1. ring'[n] = ring[n]
                BY <1>7, <3>1
            <4>2. CASE IsStart(n)
                BY <4>1, <4>2 DEF IsAlloc, IsFree, IsStart
            <4>3. CASE ~IsStart(n)
                <5>1. ring[n].ptr \in Ptrs /\ ring[n].ptr # p
                    BY <1>10, <1>12, <2>1, <3>1, <4>1, <4>3 DEF IsAlloc, IsFree, IsStart
                <5>2. QED
                    BY <1>9, <2>1, <3>1, <4>1, <5>1 DEF Busy, IsAlloc, IsFree
            <4>4. QED
                BY <4>2, <4>3
        <3>2. CASE n \notin Records
            BY <1>3, <1>7, <3>2 DEF IsAlloc, IsFree
        <3>3. QED
            BY <3>1, <3>2
    <2>2. ASSUME NEW m \in Records', NEW n \in Records', ring'[m].st = "busy",
                 ring'[n].st = "busy", ring'[m].ptr = ring'[n].ptr, ~IsStart(m)'
          PROVE  m = n
        <3>1. CASE m \in Records /\ n \in Records
            BY <1>7, <2>2, <3>1 DEF Busy, IsStart
        <3>2. CASE m \in Records /\ n \notin Records
            BY <1>3, <1>7, <1>12, <2>2, <3>2 DEF IsStart
        <3>3. CASE m \notin Records /\ n \in Records
            <4>1. ring'[n] = ring[n] /\ ring[n].ptr = p /\ IsStart(n)
                BY <1>3, <1>7, <1>12, <2>2, <3>3
            <4>2. QED
                BY <3>3, <4>1 DEF Kinds
        <3>4. CASE m \notin Records /\ n \notin Records
            BY <1>7, <3>4
        <3>5. QED
            BY <3>1, <3>2, <3>3, <3>4
    <2>3. ASSUME NEW m \in Records', NEW n \in Records', IsAlloc(m)', IsFree(n)',
                 ring'[n].st = "busy", ring'[m].ptr = ring'[n].ptr
          PROVE  m < n
        <3>1. n \in Records /\ ring'[n] = ring[n] /\ IsFree(n)
            BY <1>3, <1>7, <2>3 DEF IsFree
        <3>2. ring[n].ptr # p
            BY <1>12, <2>3, <3>1 DEF IsFree, IsStart
        <3>3. m \in Records /\ ring'[m] = ring[m] /\ IsAlloc(m)
            BY <1>3, <1>7, <2>3, <3>1, <3>2 DEF IsAlloc
        <3>4. QED
            BY <2>3, <3>1, <3>3 DEF Busy
    <2>4. QED
        BY <2>1, <2>2, <2>3 DEF Busy
<1>14. InOrder'
    <2>1. ASSUME NEW m \in Records', NEW n \in Records', IsAlloc(m)', IsAlloc(n)', m < n,
                 ring'[m].ptr = ring'[n].ptr
          PROVE  ring'[m].id < ring'[n].id
        <3>1. m \in Records /\ ring'[m] = ring[m] /\ IsAlloc(m)
            BY <1>7, <2>1 DEF IsAlloc
        <3>2. CASE n \in Records
            BY <1>7, <2>1, <3>1, <3>2 DEF InOrder, IsAlloc
        <3>3. CASE n \notin Records
            BY <1>3, <1>7, <1>8, <1>9, <3>1, <3>3 DEF Kinds
        <3>4. QED
            BY <3>2, <3>3
    <2>2. ASSUME NEW m \in Records', NEW n \in Records', IsAlloc(m)', IsFree(n)',
                 ring'[m].ptr = ring'[n].ptr, Lives(ring[m].ptr)',
                 ring'[m].id = id'[ring'[m].ptr]
          PROVE  n < m
        <3>1. n \in Records /\ ring'[n] = ring[n] /\ IsFree(n)
            BY <1>3, <1>7, <2>2 DEF IsFree
        <3>2. CASE m \notin Records
            BY <1>7, <3>1, <3>2
        <3>3. CASE m \in Records
            <4>1. /\ ring'[m] = ring[m] /\ IsAlloc(m) /\ ring[m].ptr \in Ptrs
                  /\ ring[m].id \in 1 .. Len(sizes)
                BY <1>7, <2>2, <3>3 DEF IsAlloc, Kinds
            <4>2. ring[m].ptr # p
                BY <1>8, <1>9, <2>2, <4>1
            <4>3. Lives(ring[m].ptr) /\ ring[m].id = id[ring[m].ptr]
                BY <1>9, <2>2, <4>1, <4>2 DEF Lives
            <4>4. QED
                BY <2>2, <3>1, <3>3, <4>1, <4>3 DEF InOrder
        <3>4. QED
            BY <3>2, <3>3
    <2>3. QED
        BY <2>1, <2>2 DEF InOrder
<1>15. i \notin seen
    BY <1>8, <1>9 DEF Bounds
<1>16. Fresh'
    <2>1. ASSUME NEW n \in Records', IsAlloc(n)' PROVE id'[ring'[n].ptr] \notin seen'
        BY <1>3, <1>5, <1>7, <1>9, <1>12, <1>15, <2>1 DEF Fresh, IsAlloc
    <2>2. ASSUME NEW n \in Records', IsFree(n)', Lives(ring[n].ptr)'
          PROVE  id'[ring'[n].ptr] \notin seen'
        <3>1. n \in Records /\ ring'[n] = ring[n] /\ IsFree(n) /\ ring[n].ptr \in Ptrs
            BY <1>3, <1>7, <1>12, <2>2 DEF IsFree
        <3>2. CASE ring[n].ptr = p
            BY <1>5, <1>9, <1>15, <3>1, <3>2
        <3>3. CASE ring[n].ptr # p
            BY <1>5, <1>9, <2>2, <3>1, <3>3 DEF Fresh, Lives
        <3>4. QED
            BY <3>2, <3>3
    <2>3. QED
        BY <2>1, <2>2 DEF Fresh
<1>17. LiveReported'
    BY <1>5, <1>9, <1>15 DEF LiveReported
<1>18. QED
    BY <1>11, <1>13, <1>14, <1>16, <1>17

LEMMA FreeKeeps ==
    ASSUME TypeOK, Bounds, Kinds, Busy, InOrder, Fresh, LiveReported,
           NEW p \in Ptrs, Free(p)
    PROVE  Kinds' /\ Busy' /\ InOrder' /\ Fresh' /\ LiveReported'
<1>1. PICK size \in Nat : AtMostAdded(Record("free", p, 0, size, 0))
    BY FreeShape
<1>2. PICK r : r = Record("free", p, 0, size, 0)
    OBVIOUS
<1>3. r.type = "free" /\ r.ptr = p /\ r.st = "busy"
    BY <1>2 DEF Record
<1>4. /\ place[p] = "live" /\ AtMostAdded(r)
      /\ \E l \in {"freeing", "none"} : place' = [place EXCEPT ![p] = l]
      /\ Len(ring') # Len(ring) => place'[p] = "freeing"
    BY <1>1, <1>2, FreeShape
<1>5. UNCHANGED <<id, sizes, acts, bitmaps, seen>>
    BY DEF Free, handler
<1>6. PICK z : z = Len(ring) + 1
    OBVIOUS
<1>7. /\ Records \subseteq Records' /\ z \in Int
      /\ \A n \in Records : n \in Int /\ ring'[n] = ring[n] /\ n < z
      /\ \A n \in Records' :
            \/ n \in Records
            \/ n = z /\ ring'[n] = r /\ place'[p] = "freeing"
    BY <1>4, <1>6, AddedRecords, RecordTypes
<1>8. place \in [Ptrs -> {"none", "creating", "live", "freeing"}]
    BY DEF TypeOK
<1>9. /\ place'[p] \in {"freeing", "none"}
      /\ \A q \in Ptrs : q # p => place'[q] = place[q]
    BY <1>4, <1>8
<1>10. \A n \in Records : ring[n].type \in {"alloc", "free", "start"}
    BY RecordTypes
<1>11. \A n \in Records :
          ring[n].st = "busy" /\ ~IsStart(n) => ring[n].ptr \in Ptrs /\ ring[n].ptr # p
    BY <1>4, <1>10 DEF Kinds, Busy, IsAlloc, IsFree, IsStart
<1>12. Kinds'
    <2>1. \A q \in Ptrs : place'[q] # "none" => place[q] # "none"
        BY <1>4, <1>9
    <2>2. QED
        BY <1>3, <1>5, <1>7, <2>1 DEF Kinds, IsAlloc, IsFree, IsStart
<1>13. Busy'
    <2>1. ASSUME NEW n \in Records', ring'[n].st = "busy"
          PROVE  /\ IsAlloc(n)' => place'[ring'[n].ptr] = "creating"
                 /\ IsFree(n)' => place'[ring'[n].ptr] = "freeing"
        <3>1. CASE n \in Records
            <4>1. ring'[n] = ring[n]
                BY <1>7, <3>1
            <4>2. CASE IsStart(n)
                BY <4>1, <4>2 DEF IsAlloc, IsFree, IsStart
            <4>3. CASE ~IsStart(n)
                BY <1>9, <1>11, <2>1, <3>1, <4>1, <4>3 DEF Busy, IsAlloc, IsFree
            <4>4. QED
                BY <4>2, <4>3
        <3>2. CASE n \notin Records
            BY <1>3, <1>7, <3>2 DEF IsAlloc, IsFree
        <3>3. QED
            BY <3>1, <3>2
    <2>2. ASSUME NEW m \in Records', NEW n \in Records', ring'[m].st = "busy",
                 ring'[n].st = "busy", ring'[m].ptr = ring'[n].ptr, ~IsStart(m)'
          PROVE  m = n
        <3>1. CASE m \in Records /\ n \in Records
            BY <1>7, <2>2, <3>1 DEF Busy, IsStart
        <3>2. CASE m \in Records /\ n \notin Records
            BY <1>3, <1>7, <1>11, <2>2, <3>2 DEF IsStart
        <3>3. CASE m \notin Records /\ n \in Records
            <4>1. ring'[n] = ring[n] /\ ring[n].ptr = p /\ IsStart(n)
                BY <1>3, <1>7, <1>11, <2>2, <3>3
            <4>2. QED
                BY <3>3, <4>1 DEF Kinds
        <3>4. CASE m \notin Records /\ n \notin Records
            BY <1>7, <3>4
        <3>5. QED
            BY <3>1, <3>2, <3>3, <3>4
    <2>3. ASSUME NEW m \in Records', NEW n \in Records', IsAlloc(m)', IsFree(n)',
                 ring'[n].st = "busy", ring'[m].ptr = ring'[n].ptr
          PROVE  m < n
        <3>1. m \in Records /\ ring'[m] = ring[m] /\ IsAlloc(m)
            BY <1>3, <1>7, <2>3 DEF IsAlloc
        <3>2. CASE n \in Records
            BY <1>7, <2>3, <3>1, <3>2 DEF Busy, IsFree
        <3>3. CASE n \notin Records
            BY <1>7, <3>1, <3>3
        <3>4. QED
            BY <3>2, <3>3
    <2>4. QED
        BY <2>1, <2>2, <2>3 DEF Busy
<1>14. \A n \in Records' : IsAlloc(n)' => n \in Records /\ ring'[n] = ring[n] /\ IsAlloc(n)
    BY <1>3, <1>7 DEF IsAlloc
<1>15. \A n \in Records', q \in Ptrs : IsFree(n)' /\ Lives(q)' /\ ring'[n].ptr = q =>
          n \in Records /\ ring'[n] = ring[n] /\ IsFree(n) /\ q # p /\ Lives(q)
    BY <1>3, <1>7, <1>9 DEF IsFree, Lives
<1>16. InOrder'
    <2>1. ASSUME NEW m \in Records', NEW n \in Records', IsAlloc(m)', IsAlloc(n)', m < n,
                 ring'[m].ptr = ring'[n].ptr
          PROVE  ring'[m].id < ring'[n].id
        BY <1>14, <2>1 DEF InOrder
    <2>2. ASSUME NEW m \in Records', NEW n \in Records', IsAlloc(m)', IsFree(n)',
                 ring'[m].ptr = ring'[n].ptr, Lives(ring[m].ptr)',
                 ring'[m].id = id'[ring'[m].ptr]
          PROVE  n < m
        <3>1. m \in Records /\ ring'[m] = ring[m] /\ IsAlloc(m) /\ ring[m].ptr \in Ptrs
            BY <1>14, <2>2 DEF Kinds
        <3>2. n \in Records /\ ring'[n] = ring[n] /\ IsFree(n) /\ Lives(ring[m].ptr)
            BY <1>15, <2>2, <3>1
        <3>3. QED
            BY <1>5, <2>2, <3>1, <3>2 DEF InOrder
    <2>3. QED
        BY <2>1, <2>2 DEF InOrder
<1>17. Fresh'
    <2>1. \A n \in Records' : IsAlloc(n)' => id'[ring'[n].ptr] \notin seen'
        BY <1>5, <1>14 DEF Fresh
    <2>2. ASSUME NEW n \in Records', IsFree(n)', Lives(ring[n].ptr)'
          PROVE  id'[ring'[n].ptr] \notin seen'
        <3>1. ring'[n].ptr \in Ptrs
            BY <1>12, <2>2 DEF Kinds
        <3>2. n \in Records /\ ring'[n] = ring[n] /\ IsFree(n) /\ Lives(ring[n].ptr)
            BY <1>15, <2>2, <3>1
        <3>3. QED
            BY <1>5, <3>2 DEF Fresh
    <2>3. QED
        BY <2>1, <2>2 DEF Fresh
<1>18. LiveReported'
    BY <1>5, <1>9 DEF LiveReported
<1>19. QED
    BY <1>12, <1>13, <1>16, <1>17, <1>18

LEMMA StartKeeps ==
    ASSUME TypeOK, Bounds, Kinds, Busy, InOrder, Fresh, LiveReported, StartActivity
    PROVE  Kinds' /\ Busy' /\ InOrder' /\ Fresh' /\ LiveReported'
<1>1. PICK r : r = Record("start", NoPtr, 0, 0, act + 1)
    OBVIOUS
<1>2. r.type = "start" /\ r.ptr \notin Ptrs
    BY <1>1, BitmapAssumption DEF Record
<1>3. UNCHANGED <<place, id, sizes, acts, bitmaps, seen>>
    BY DEF StartActivity, handler
<1>4. AtMostAdded(r)
    BY <1>1, StartShape
<1>5. PICK z : z = Len(ring) + 1
    OBVIOUS
<1>6. /\ Records \subseteq Records' /\ z \in Int
      /\ \A n \in Records : n \in Int /\ ring'[n] = ring[n] /\ n < z
      /\ \A n \in Records' : n \in Records \/ (n = z /\ ring'[n] = r)
    BY <1>4, <1>5, AddedRecords, RecordTypes
<1>7. \A n \in Records : ring[n].type \in {"alloc", "free", "start"}
    BY RecordTypes
<1>8. \A n \in Records' : ~IsStart(n)' => n \in Records /\ ring'[n] = ring[n] /\ ~IsStart(n)
    BY <1>2, <1>6 DEF IsStart
<1>9. \A n \in Records' :
          /\ IsAlloc(n)' => n \in Records /\ ring'[n] = ring[n] /\ IsAlloc(n)
          /\ IsFree(n)' => n \in Records /\ ring'[n] = ring[n] /\ IsFree(n)
    BY <1>2, <1>6 DEF IsAlloc, IsFree
<1>10. Kinds'
    <2>1. \A n \in Records' : IsStart(n)' => ring'[n].ptr \notin Ptrs
        BY <1>2, <1>6 DEF Kinds, IsStart
    <2>2. QED
        BY <1>3, <1>9, <2>1 DEF Kinds
<1>11. Busy'
    <2>1. ASSUME NEW m \in Records', NEW n \in Records', ring'[m].st = "busy",
                 ring'[n].st = "busy", ring'[m].ptr = ring'[n].ptr, ~IsStart(m)'
          PROVE  m = n
        <3>1. m \in Records /\ ring'[m] = ring[m] /\ ~IsStart(m) /\ ring[m].ptr \in Ptrs
            BY <1>7, <1>8, <2>1 DEF Kinds, IsAlloc, IsFree, IsStart
        <3>2. n \in Records /\ ring'[n] = ring[n]
            BY <1>2, <1>6, <2>1, <3>1
        <3>3. QED
            BY <2>1, <3>1, <3>2 DEF Busy
    <2>2. QED
        BY <1>3, <1>9, <2>1 DEF Busy
<1>12. InOrder' /\ Fresh' /\ LiveReported'
    BY <1>3, <1>9 DEF InOrder, Fresh, LiveReported, Lives
<1>13. QED
    BY <1>10, <1>11, <1>12

LEMMA SubmitShape ==
    ASSUME TypeOK, Kinds, Busy, NEW n \in DOMAIN ring,
           SubmitCreate(n) \/ SubmitFree(n) \/ SubmitStart(n)
    PROVE  /\ n \in Records /\ ring[n].st = "busy" /\ Records' = Records
           /\ \A m \in Records :
                /\ ring'[m].type = ring[m].type /\ ring'[m].ptr = ring[m].ptr
                /\ ring'[m].id = ring[m].id /\ ring'[m].act = ring[m].act
                /\ ring'[m].st = IF m = n THEN "ready" ELSE ring[m].st
           /\ \/ IsAlloc(n) /\ ring[n].ptr \in Ptrs /\ place[ring[n].ptr] = "creating"
                 /\ place' = [place EXCEPT ![ring[n].ptr] = "live"]
              \/ IsFree(n) /\ ring[n].ptr \in Ptrs /\ place[ring[n].ptr] = "freeing"
                 /\ place' = [place EXCEPT ![ring[n].ptr] = "none"]
              \/ IsStart(n) /\ ring[n].ptr \notin Ptrs /\ place' = place
           /\ UNCHANGED <<id, sizes, acts, act, probing, handler, seen, together, missed,
                          unheard, runs>>
<1>1. ring \in Seq(Rec) /\ n \in 1 .. Len(ring) /\ n \in Records
    BY RecordTypes DEF Records
<1>2. Ready(n) /\ ring[n].st = "busy"
    BY DEF SubmitCreate, SubmitFree, SubmitStart
<1>3. Marked(n)
    BY <1>1, <1>2, MarkedWhen
<1>4. /\ Records' = Records
      /\ \A m \in Records :
            /\ ring'[m].type = ring[m].type /\ ring'[m].ptr = ring[m].ptr
            /\ ring'[m].id = ring[m].id /\ ring'[m].act = ring[m].act
            /\ ring'[m].st = IF m = n THEN "ready" ELSE ring[m].st
    BY <1>3 DEF Marked, Records
<1>5. CASE SubmitCreate(n)
    BY <1>1, <1>2, <1>4, <1>5 DEF SubmitCreate, Kinds, Busy, IsAlloc
<1>6. CASE SubmitFree(n)
    BY <1>1, <1>2, <1>4, <1>6 DEF SubmitFree, Kinds, Busy, IsFree
<1>7. CASE SubmitStart(n)
    BY <1>1, <1>2, <1>4, <1>7 DEF SubmitStart, Kinds, Busy, IsStart, app
<1>8. QED
    BY <1>5, <1>6, <1>7

LEMMA SubmitKeeps ==
    ASSUME TypeOK, Bounds, Kinds, Busy, InOrder, Fresh, LiveReported,
           NEW n \in DOMAIN ring, SubmitCreate(n) \/ SubmitFree(n) \/ SubmitStart(n)
    PROVE  Kinds' /\ Busy' /\ InOrder' /\ Fresh' /\ LiveReported'
<1> DEFINE p == ring[n].ptr
<1>1. /\ n \in Records /\ ring[n].st = "busy" /\ Records' = Records
      /\ \A m \in Records :
            /\ ring'[m].type = ring[m].type /\ ring'[m].ptr = ring[m].ptr
            /\ ring'[m].id = ring[m].id /\ ring'[m].act = ring[m].act
            /\ ring'[m].st = IF m = n THEN "ready" ELSE ring[m].st
      /\ UNCHANGED <<id, sizes, acts, bitmaps, seen>>
    BY SubmitShape DEF handler
<1>2. place \in [Ptrs -> {"none", "creating", "live", "freeing"}]
    BY DEF TypeOK
<1>3. /\ \A q \in Ptrs : q # p => place'[q] = place[q]
      /\ \A q \in Ptrs : Lives(q)' => Lives(q)
      /\ \A q \in Ptrs : place'[q] # "none" => place[q] # "none"
      /\ p \in Ptrs => ~IsStart(n)
    BY <1>2, SubmitShape DEF Lives, IsAlloc, IsFree, IsStart
<1>4. Kinds'
    BY <1>1, <1>3 DEF Kinds, IsAlloc, IsFree, IsStart
<1>5. Busy'
    <2>1. ASSUME NEW m \in Records, m # n, ring[m].st = "busy", ring[m].ptr \in Ptrs
          PROVE  ring[m].ptr # p
        BY <1>1, <1>3, <2>1 DEF Busy
    <2>2. ASSUME NEW m \in Records', ring'[m].st = "busy"
          PROVE  /\ IsAlloc(m)' => place'[ring'[m].ptr] = "creating"
                 /\ IsFree(m)' => place'[ring'[m].ptr] = "freeing"
        <3>1. m \in Records /\ m # n /\ ring[m].st = "busy"
            BY <1>1, <2>2
        <3>2. CASE IsAlloc(m) \/ IsFree(m)
            <4>1. ring[m].ptr \in Ptrs /\ ring[m].ptr # p
                BY <2>1, <3>1, <3>2 DEF Kinds
            <4>2. QED
                BY <1>1, <1>3, <3>1, <4>1 DEF Busy, IsAlloc, IsFree
        <3>3. CASE ~(IsAlloc(m) \/ IsFree(m))
            BY <1>1, <3>1, <3>3 DEF IsAlloc, IsFree
        <3>4. QED
            BY <3>2, <3>3
    <2>3. QED
        BY <1>1, <2>2 DEF Busy, IsAlloc, IsFree, IsStart
<1>6. \A m \in Records :
          /\ IsAlloc(m) => ring[m].ptr \in Ptrs
          /\ IsFree(m) => ring[m].ptr \in Ptrs
    BY DEF Kinds
<1>7. \A m \in Records :
          /\ IsAlloc(m)' <=> IsAlloc(m)
          /\ IsFree(m)' <=> IsFree(m)
          /\ m \in Records'
          /\ ring'[m].ptr = ring[m].ptr /\ ring'[m].id = ring[m].id
    BY <1>1 DEF IsAlloc, IsFree
<1>8. InOrder'
    <2>1. ASSUME NEW m \in Records, Lives(ring[m].ptr)', IsAlloc(m)
          PROVE  Lives(ring[m].ptr)
        BY <1>3, <1>6, <1>7, <2>1 DEF Lives
    <2>2. QED
        BY <1>1, <1>7, <2>1 DEF InOrder
<1>9. Fresh'
    <2>1. ASSUME NEW m \in Records, Lives(ring[m].ptr)', IsFree(m)
          PROVE  Lives(ring[m].ptr)
        BY <1>3, <1>6, <1>7, <2>1 DEF Lives
    <2>2. QED
        BY <1>1, <1>7, <2>1 DEF Fresh
<1>10. LiveReported'
    BY <1>1, <1>3 DEF LiveReported, Lives
<1>11. QED
    BY <1>4, <1>5, <1>8, <1>9, <1>10

LEMMA RunKeeps ==
    ASSUME TypeOK, Bounds, Kinds, Busy, InOrder, Fresh, LiveReported, EndRun \/ StartRun
    PROVE  Kinds' /\ Busy' /\ InOrder' /\ Fresh' /\ LiveReported'
<1>1. UNCHANGED <<place, id, sizes, acts, ring>>
    BY DEF EndRun, StartRun, app
<1>2. \/ UNCHANGED <<bitmaps, seen>>
      \/ seen' = {}
    BY DEF EndRun, StartRun, handler
<1>3. Kinds' /\ Busy' /\ InOrder'
    BY <1>1 DEF Kinds, Busy, InOrder, Records, IsAlloc, IsFree, IsStart, Lives
<1>4. Fresh' /\ LiveReported'
    BY <1>1, <1>2 DEF Fresh, LiveReported, Records, IsAlloc, IsFree, Lives
<1>5. QED
    BY <1>3, <1>4

(***************************************************************************)
(* Frees behind allocations, and bitmaps that were alive together.         *)
(***************************************************************************)
LEMMA AppAccounted ==
    ASSUME TypeOK, Bounds, Kinds, Busy, Accounted, AppStep
    PROVE  Accounted'
<1>1. place \in [Ptrs -> {"none", "creating", "live", "freeing"}] /\ id \in [Ptrs -> Nat]
    BY DEF TypeOK
<1>2. DOMAIN bitmaps \subseteq Ptrs /\ \A n \in Records : IsAlloc(n) => ring[n].ptr \in Ptrs
    BY DEF TypeOK, Kinds
<1>3. ASSUME NEW p \in Ptrs, NEW s \in Sizes, Create(p, s) PROVE Accounted'
    <2>1. PICK i, r : i = Len(sizes) + 1 /\ r = Record("alloc", p, i, s, act)
        OBVIOUS
    <2>2. r.type = "alloc" /\ r.ptr = p /\ r.id = i
        BY <2>1 DEF Record
    <2>3. /\ place[p] = "none" /\ AtMostAdded(r)
          /\ id' = [id EXCEPT ![p] = i]
          /\ \E l \in {"creating", "live"} : place' = [place EXCEPT ![p] = l]
        BY <1>3, <2>1, CreateShape
    <2>4. UNCHANGED <<bitmaps, missed>>
        BY <1>3 DEF Create, handler
    <2>5. /\ Records \subseteq Records'
          /\ \A n \in Records : ring'[n] = ring[n]
          /\ \A n \in Records' : n \in Records \/ ring'[n] = r
        BY <2>3, AddedRecords
    <2>6. /\ \A q \in Ptrs : \A j : Current(q, j) => Current(q, j)'
          /\ Current(p, i)'
        BY <1>1, <2>3 DEF Current
    <2>7. \A q \in Ptrs : \A m : Freed(q, m) => Freed(q, m)'
        BY <2>5 DEF Freed, IsFree
    <2>8. ASSUME ~missed, NEW n \in Records', IsAlloc(n)'
          PROVE  Current(ring[n].ptr, ring[n].id)' \/ Freed(ring[n].ptr, n)'
        <3>1. CASE n \in Records
            <4>1. ring'[n] = ring[n] /\ IsAlloc(n)
                BY <2>5, <2>8, <3>1 DEF IsAlloc
            <4>2. Current(ring[n].ptr, ring[n].id) \/ Freed(ring[n].ptr, n)
                BY <2>8, <3>1, <4>1 DEF Accounted
            <4>3. PICK q, j : q \in Ptrs /\ q = ring[n].ptr /\ j = ring[n].id
                BY <1>2, <3>1, <4>1
            <4>4. Current(q, j)' \/ Freed(q, n)'
                BY <2>6, <2>7, <4>2, <4>3
            <4>5. QED
                BY <4>1, <4>3, <4>4 DEF Current, Freed
        <3>2. CASE n \notin Records
            BY <2>2, <2>5, <2>6, <3>2 DEF Current
        <3>3. QED
            BY <3>1, <3>2
    <2>9. ASSUME ~missed, NEW q \in DOMAIN bitmaps
          PROVE  Current(q, bitmaps[q].id)' \/ Freed(q, 0)'
        <3>1. Current(q, bitmaps[q].id) \/ Freed(q, 0)
            BY <2>9 DEF Accounted
        <3>2. Current(q, bitmaps[q].id) => Current(q, bitmaps[q].id)'
            BY <1>2, <2>4, <2>6 DEF Current
        <3>3. QED
            BY <1>2, <2>7, <3>1, <3>2
    <2>10. QED
        BY <2>4, <2>8, <2>9 DEF Accounted
<1>4. ASSUME NEW p \in Ptrs, Free(p) PROVE Accounted'
    <2>1. PICK size \in Nat : AtMostAdded(Record("free", p, 0, size, 0))
        BY <1>4, FreeShape
    <2>2. PICK r : r = Record("free", p, 0, size, 0)
        OBVIOUS
    <2>3. r.type = "free" /\ AtMostAdded(r)
        BY <2>1, <2>2 DEF Record
    <2>4. /\ \E l \in {"freeing", "none"} : place' = [place EXCEPT ![p] = l]
          /\ place[p] = "live"
          /\ Len(ring') # Len(ring) => place'[p] = "freeing"
          /\ ~missed' => ~missed
          /\ ~missed' /\ Len(ring') = Len(ring) => ~Traced(p)
        BY <1>4, FreeShape
    <2>5. UNCHANGED <<id, bitmaps>>
        BY <1>4 DEF Free, handler
    <2>6. /\ Records \subseteq Records'
          /\ \A n \in Records : ring'[n] = ring[n]
          /\ \A n \in Records' : IsAlloc(n)' => n \in Records /\ IsAlloc(n)
        BY <2>3, AddedRecords DEF IsAlloc
    <2>7. \A q \in Ptrs : \A m : Freed(q, m) => Freed(q, m)'
        BY <2>6 DEF Freed, IsFree
    <2>8. \A q \in Ptrs : \A j : Current(q, j) /\ q # p => Current(q, j)'
        BY <1>1, <2>4, <2>5 DEF Current
    <2>9. ASSUME ~missed', NEW j, Current(p, j), j \in seen \/ \E n \in Records : ring[n].id = j
          PROVE  Current(p, j)'
        <3>1. Traced(p)
            BY <2>9, RecordTypes DEF Traced, Current
        <3>2. place'[p] = "freeing"
            BY <2>4, <2>9, <3>1
        <3>3. QED
            BY <2>5, <2>9, <3>2 DEF Current
    <2>10. ASSUME ~missed', NEW n \in Records, IsAlloc(n)
           PROVE  Current(ring[n].ptr, ring[n].id)' \/ Freed(ring[n].ptr, n)'
        <3>1. PICK q, j : q \in Ptrs /\ q = ring[n].ptr /\ j = ring[n].id
            BY <1>2, <2>10
        <3>2. Current(q, j) \/ Freed(q, n)
            BY <2>4, <2>10, <3>1 DEF Accounted
        <3>3. Current(q, j)' \/ Freed(q, n)'
            BY <2>7, <2>8, <2>9, <2>10, <3>1, <3>2
        <3>4. QED
            BY <2>6, <3>1, <3>3 DEF Current, Freed
    <2>11. ASSUME ~missed', NEW q \in DOMAIN bitmaps
           PROVE  Current(q, bitmaps[q].id)' \/ Freed(q, 0)'
        <3>1. Current(q, bitmaps[q].id) \/ Freed(q, 0)
            BY <2>4, <2>11 DEF Accounted
        <3>2. PICK j : j = bitmaps[q].id
            OBVIOUS
        <3>3. Current(q, j) => Current(q, j)'
            BY <1>2, <2>8, <2>9, <2>11, <3>2 DEF Bounds
        <3>4. QED
            BY <1>2, <2>5, <2>7, <3>1, <3>2, <3>3 DEF Current
    <2>12. QED
        BY <2>5, <2>6, <2>10, <2>11 DEF Accounted
<1>5. ASSUME StartActivity PROVE Accounted'
    <2>1. PICK r : r = Record("start", NoPtr, 0, 0, act + 1)
        OBVIOUS
    <2>2. r.type = "start" /\ AtMostAdded(r)
        BY <1>5, <2>1, StartShape DEF Record
    <2>3. UNCHANGED <<place, id, bitmaps, missed>>
        BY <1>5 DEF StartActivity, handler
    <2>4. /\ Records \subseteq Records'
          /\ \A n \in Records : ring'[n] = ring[n]
          /\ \A n \in Records' : IsAlloc(n)' => n \in Records /\ IsAlloc(n)
        BY <2>2, AddedRecords DEF IsAlloc
    <2>5. \A q, m : Freed(q, m) => Freed(q, m)'
        BY <2>4 DEF Freed, IsFree
    <2>6. ASSUME ~missed, NEW n \in Records, IsAlloc(n)
          PROVE  Current(ring[n].ptr, ring[n].id)' \/ Freed(ring[n].ptr, n)'
        <3>1. Current(ring[n].ptr, ring[n].id) \/ Freed(ring[n].ptr, n)
            BY <2>6 DEF Accounted
        <3>2. Freed(ring[n].ptr, n) => Freed(ring[n].ptr, n)'
            BY <2>4 DEF Freed, IsFree
        <3>3. QED
            BY <2>3, <2>4, <3>1, <3>2 DEF Current
    <2>7. ASSUME ~missed, NEW q \in DOMAIN bitmaps
          PROVE  Current(q, bitmaps[q].id)' \/ Freed(q, 0)'
        BY <2>3, <2>5, <2>7 DEF Accounted, Current
    <2>8. QED
        BY <2>3, <2>4, <2>6, <2>7 DEF Accounted
<1>6. ASSUME NEW n \in DOMAIN ring, SubmitCreate(n) \/ SubmitFree(n) \/ SubmitStart(n)
      PROVE  Accounted'
    <2> DEFINE p == ring[n].ptr
    <2>1. /\ n \in Records /\ Records' = Records
          /\ \A m \in Records :
                ring'[m].type = ring[m].type /\ ring'[m].ptr = ring[m].ptr
                /\ ring'[m].id = ring[m].id
          /\ UNCHANGED <<id, bitmaps, missed>>
        BY <1>6, SubmitShape DEF handler
    <2>2. \A q, m : Freed(q, m) <=> Freed(q, m)'
        BY <2>1 DEF Freed, IsFree
    <2>3. CASE ~IsFree(n)
        <3>1. \A q \in Ptrs : place[q] # "none" => place'[q] # "none"
            BY <1>1, <1>6, <2>3, SubmitShape
        <3>2. \A q \in Ptrs : \A j : Current(q, j) => Current(q, j)'
            BY <2>1, <3>1 DEF Current
        <3>3. ASSUME ~missed, NEW m \in Records, IsAlloc(m)
              PROVE  Current(ring[m].ptr, ring[m].id)' \/ Freed(ring[m].ptr, m)'
            <4>1. PICK q, j : q \in Ptrs /\ q = ring[m].ptr /\ j = ring[m].id
                BY <1>2, <3>3
            <4>2. Current(q, j)' \/ Freed(q, m)'
                BY <2>2, <3>2, <3>3, <4>1 DEF Accounted
            <4>3. QED
                BY <2>1, <4>1, <4>2 DEF Current, Freed
        <3>4. ASSUME ~missed, NEW q \in DOMAIN bitmaps
              PROVE  Current(q, bitmaps[q].id)' \/ Freed(q, 0)'
            BY <1>2, <2>1, <2>2, <3>1, <3>4 DEF Accounted, Current
        <3>5. QED
            BY <2>1, <3>3, <3>4 DEF Accounted, IsAlloc
    <2>4. CASE IsFree(n)
        <3>1. \A q \in Ptrs : q # p => place'[q] = place[q]
            BY <1>1, <1>6, <2>4, SubmitShape DEF IsAlloc, IsFree, IsStart
        <3>2. \A q \in Ptrs : \A j : Current(q, j) /\ q # p => Current(q, j)'
            BY <2>1, <3>1 DEF Current
        <3>3. n \in Records /\ ring[n].st = "busy" /\ n \in Int /\ n > 0
            BY <1>6, SubmitShape DEF Records
        <3>4. ASSUME NEW m \in Records, IsAlloc(m), ring[m].ptr = p
              PROVE  \E f \in Records' : m < f /\ IsFree(f)' /\ ring'[f].ptr = p
            <4>1. m < n
                BY <2>4, <3>3, <3>4 DEF Busy
            <4>2. QED
                BY <2>1, <2>4, <4>1 DEF IsFree
        <3>5. \E f \in Records' : 0 < f /\ IsFree(f)' /\ ring'[f].ptr = p
            BY <2>1, <2>4, <3>3 DEF IsFree
        <3>6. ASSUME ~missed, NEW m \in Records, IsAlloc(m)
              PROVE  Current(ring[m].ptr, ring[m].id)' \/ Freed(ring[m].ptr, m)'
            <4>1. PICK q, j : q \in Ptrs /\ q = ring[m].ptr /\ j = ring[m].id
                BY <1>2, <3>6
            <4>2. Current(q, j) \/ Freed(q, m)
                BY <3>6, <4>1 DEF Accounted
            <4>3. CASE q = p
                <5>1. \E f \in Records' : m < f /\ IsFree(f)' /\ ring'[f].ptr = p
                    BY <3>4, <3>6, <4>1, <4>3
                <5>2. QED
                    BY <2>1, <4>1, <4>3, <5>1 DEF Freed
            <4>4. CASE q # p
                <5>1. Current(q, j)' \/ Freed(q, m)'
                    BY <2>2, <3>2, <4>1, <4>2, <4>4
                <5>2. QED
                    BY <2>1, <4>1, <5>1 DEF Current, Freed
            <4>5. QED
                BY <4>3, <4>4
        <3>7. ASSUME ~missed, NEW q \in DOMAIN bitmaps
              PROVE  Current(q, bitmaps[q].id)' \/ Freed(q, 0)'
            <4>1. CASE q = p
                BY <3>5, <4>1 DEF Freed
            <4>2. CASE q # p
                <5>1. Current(q, bitmaps[q].id) \/ Freed(q, 0)
                    BY <3>7 DEF Accounted
                <5>2. CASE Freed(q, 0)
                    BY <2>2, <5>2
                <5>3. CASE Current(q, bitmaps[q].id)
                    BY <1>2, <2>1, <3>1, <4>2, <5>3 DEF Current
                <5>4. QED
                    BY <5>1, <5>2, <5>3
            <4>3. QED
                BY <4>1, <4>2
        <3>8. QED
            BY <2>1, <3>6, <3>7 DEF Accounted, IsAlloc
    <2>5. QED
        BY <2>3, <2>4
<1>7. QED
    BY <1>3, <1>4, <1>5, <1>6 DEF AppStep

LEMMA OtherAccounted ==
    ASSUME TypeOK, Bounds, Kinds, Accounted, HandlerStep \/ EndRun \/ StartRun
    PROVE  Accounted'
<1>1. CASE EndRun \/ StartRun
    <2>1. UNCHANGED <<place, id, ring, missed>>
        BY <1>1 DEF EndRun, StartRun, app
    <2>2. UNCHANGED bitmaps \/ DOMAIN bitmaps' = {}
        BY <1>1 DEF EndRun, StartRun, handler, NoMeta
    <2>3. QED
        BY <2>1, <2>2 DEF Accounted, Records, IsAlloc, IsFree, Current, Freed
<1>2. CASE HandlerStep
    <2> DEFINE p == ring[1].ptr
    <2>1. PICK n \in DOMAIN ring : HandleAlloc(n) \/ HandleFree(n) \/ HandleStart(n)
        BY <1>2 DEF HandlerStep
    <2>2. /\ 1 \in Records /\ Shifted
          /\ UNCHANGED <<place, id, missed>>
          /\ \A q \in DOMAIN bitmaps' :
                \/ q \in DOMAIN bitmaps /\ bitmaps'[q] = bitmaps[q] /\ ~(IsFree(1) /\ q = p)
                \/ q = p /\ IsAlloc(1) /\ bitmaps'[q].id = ring[1].id
        <3>1. CASE HandleAlloc(n)
            <4>1. /\ 1 \in Records /\ Shifted /\ IsAlloc(1) /\ UNCHANGED <<place, id, missed>>
                  /\ DOMAIN bitmaps' = DOMAIN bitmaps \cup {p}
                  /\ bitmaps'[p] = [id |-> ring[1].id, act |-> activity]
                  /\ \A q \in DOMAIN bitmaps \ {p} : bitmaps'[q] = bitmaps[q]
                BY <3>1, AllocHandled DEF app
            <4>2. bitmaps'[p].id = ring[1].id /\ ~IsFree(1)
                BY <4>1 DEF IsAlloc, IsFree
            <4>3. QED
                BY <4>1, <4>2
        <3>2. CASE HandleFree(n)
            BY <3>2, FreeHandled DEF app
        <3>3. CASE HandleStart(n)
            BY <3>3, StartHandled DEF app, IsFree, IsStart
        <3>4. QED
            BY <2>1, <3>1, <3>2, <3>3
    <2>3. \A m \in Records' : m \in Int /\ m + 1 \in Records /\ ring'[m] = ring[m + 1]
        BY <2>2, ShiftedRecords
    <2>4. \A f \in Records : f \in Int /\ (f > 1 => f - 1 \in Records' /\ ring'[f - 1] = ring[f])
        <3>1. ASSUME NEW f \in Records, f > 1 PROVE f - 1 \in Records' /\ ring'[f - 1] = ring[f]
            <4>1. PICK m : m = f - 1
                OBVIOUS
            <4>2. m \in Records' /\ f = m + 1
                BY <2>2, <3>1, <4>1 DEF Shifted, Records
            <4>3. QED
                BY <2>3, <4>1, <4>2
        <3>2. QED
            BY <3>1 DEF Records
    <2>5. ASSUME NEW q, NEW m \in Int, m >= 1, Freed(q, m) PROVE Freed(q, m - 1)'
        <3>1. PICK f \in Records : m < f /\ IsFree(f) /\ ring[f].ptr = q
            BY <2>5 DEF Freed
        <3>2. PICK g : g = f - 1
            OBVIOUS
        <3>3. g \in Records' /\ m - 1 < g /\ ring'[g] = ring[f]
            BY <2>4, <2>5, <3>1, <3>2
        <3>4. QED
            BY <3>1, <3>3 DEF Freed, IsFree
    <2>6. ASSUME ~missed, NEW m \in Records', IsAlloc(m)'
          PROVE  Current(ring[m].ptr, ring[m].id)' \/ Freed(ring[m].ptr, m)'
        <3>1. PICK k \in Records : k = m + 1
            BY <2>3
        <3>2. ring'[m] = ring[k] /\ IsAlloc(k) /\ m = k - 1 /\ k \in Int /\ k >= 1
            BY <2>3, <2>4, <2>6, <3>1 DEF IsAlloc, Records
        <3>3. PICK q, j : q = ring[k].ptr /\ j = ring[k].id
            OBVIOUS
        <3>4. Current(q, j) \/ Freed(q, k)
            BY <2>6, <3>2, <3>3 DEF Accounted
        <3>5. Current(q, j)' \/ Freed(q, m)'
            <4>1. CASE Current(q, j)
                BY <2>2, <4>1 DEF Current
            <4>2. CASE Freed(q, k)
                BY <2>5, <3>2, <4>2
            <4>3. QED
                BY <3>4, <4>1, <4>2
        <3>6. QED
            BY <3>2, <3>3, <3>5 DEF Current, Freed
    <2>7. ASSUME ~missed, NEW q \in DOMAIN bitmaps'
          PROVE  Current(q, bitmaps[q].id)' \/ Freed(q, 0)'
        <3>1. CASE q \in DOMAIN bitmaps /\ bitmaps'[q] = bitmaps[q] /\ ~(IsFree(1) /\ q = p)
            <4>1. CASE Current(q, bitmaps[q].id)
                BY <2>2, <3>1, <4>1 DEF Current
            <4>2. CASE Freed(q, 0)
                <5>1. PICK f \in Records : 0 < f /\ IsFree(f) /\ ring[f].ptr = q
                    BY <4>2 DEF Freed
                <5>2. f > 1
                    BY <2>4, <3>1, <5>1
                <5>3. Freed(q, 1)
                    BY <5>1, <5>2 DEF Freed
                <5>4. Freed(q, 1 - 1)'
                    BY <2>5, <5>3
                <5>5. QED
                    BY <5>4
            <4>3. QED
                BY <2>7, <3>1, <4>1, <4>2 DEF Accounted
        <3>2. CASE q = p /\ IsAlloc(1) /\ bitmaps'[q].id = ring[1].id
            <4>1. Current(p, ring[1].id) \/ Freed(p, 1)
                BY <2>2, <2>7, <3>2 DEF Accounted
            <4>2. CASE Current(p, ring[1].id)
                BY <2>2, <3>2, <4>2 DEF Current
            <4>3. CASE Freed(p, 1)
                <5>1. Freed(q, 1)
                    BY <3>2, <4>3
                <5>2. Freed(q, 1 - 1)'
                    BY <2>5, <5>1
                <5>3. QED
                    BY <5>2
            <4>4. QED
                BY <4>1, <4>2, <4>3
        <3>3. QED
            BY <2>2, <2>7, <3>1, <3>2
    <2>8. QED
        BY <2>2, <2>6, <2>7 DEF Accounted
<1>3. QED
    BY <1>1, <1>2

(* Steps that bring no allocation and leave the handler's fields alone.    *)
LEMMA NothingAllocated ==
    ASSUME Coexist, UNCHANGED <<bitmaps, snapshot, together>>, ~missed' => ~missed,
           \A n \in Records :
              /\ n \in Records'
              /\ ring'[n].type = ring[n].type /\ ring'[n].ptr = ring[n].ptr
              /\ ring'[n].id = ring[n].id,
           \A n \in Records' : n \in Records \/ ~IsAlloc(n)'
    PROVE  Coexist'
<1>1. \A n \in Records : (IsAlloc(n)' <=> IsAlloc(n)) /\ (IsFree(n)' <=> IsFree(n))
    BY DEF IsAlloc, IsFree
<1>2. \A p, m, n : NotFreed(p, m, n)' => NotFreed(p, m, n)
    BY <1>1 DEF NotFreed
<1>3. \A n \in Records' : IsAlloc(n)' => {ring'[n].id} \in together'
    BY <1>1 DEF Coexist
<1>4. ASSUME ~missed', NEW p \in DOMAIN bitmaps', NEW n \in Records', IsAlloc(n)',
             ring'[n].ptr # p, NotFreed(p, 0, n)'
      PROVE  {ring'[n].id, bitmaps'[p].id} \in together'
    <2>1. n \in Records /\ IsAlloc(n) /\ ring[n].ptr # p /\ NotFreed(p, 0, n) /\ ~missed
        BY <1>1, <1>2, <1>4
    <2>2. {ring[n].id, bitmaps[p].id} \in together
        BY <1>4, <2>1 DEF Coexist
    <2>3. QED
        BY <2>1, <2>2
<1>5. ASSUME ~missed', NEW m \in Records', NEW n \in Records', IsAlloc(m)', IsAlloc(n)',
             m < n, ring'[m].ptr # ring'[n].ptr, NotFreed(ring[m].ptr, m, n)'
      PROVE  {ring'[m].id, ring'[n].id} \in together'
    <2>1. m \in Records /\ n \in Records /\ IsAlloc(m) /\ IsAlloc(n) /\ ~missed
        BY <1>1, <1>5
    <2>2. PICK p : p = ring[m].ptr
        OBVIOUS
    <2>3. NotFreed(p, m, n)'
        BY <1>5, <2>1, <2>2 DEF NotFreed
    <2>4. NotFreed(ring[m].ptr, m, n)
        BY <1>2, <2>2, <2>3
    <2>5. QED
        BY <1>5, <2>1, <2>4 DEF Coexist
<1>6. ~missed' => SnapshotCoexisted'
    BY DEF Coexist, SnapshotCoexisted
<1>7. ~missed' => \A p, q \in DOMAIN bitmaps' : {bitmaps'[p].id, bitmaps'[q].id} \in together'
    BY DEF Coexist
<1>8. QED
    BY <1>3, <1>4, <1>5, <1>6, <1>7 DEF Coexist

(* The new bitmap is alive together with each that has not been freed.     *)
LEMMA CreateCoexist ==
    ASSUME TypeOK, Bounds, Kinds, Accounted, Coexist,
           NEW p \in Ptrs, NEW s \in Sizes, Create(p, s)
    PROVE  Coexist'
<1>1. PICK i, r : i = Len(sizes) + 1 /\ r = Record("alloc", p, i, s, act)
    OBVIOUS
<1>2. r.type = "alloc" /\ r.ptr = p /\ r.id = i
    BY <1>1 DEF Record
<1>3. /\ place[p] = "none" /\ AtMostAdded(r)
      /\ together' = together \cup {{i, id[q]} : q \in Alive} \cup {{i}}
    <2>1. together' = together \cup {{i, id[q]} : q \in Alive} \cup {{i}}
        BY <1>1, Zenon DEF Create, Allocate
    <2>2. place[p] = "none" /\ AtMostAdded(r)
        BY <1>1, CreateShape, Zenon
    <2>3. QED
        BY <2>1, <2>2
<1>4. UNCHANGED <<bitmaps, snapshot, missed>>
    BY DEF Create, handler
<1>5. /\ Records \subseteq Records'
      /\ \A n \in Records : n \in Int /\ ring'[n] = ring[n] /\ n < Len(ring) + 1
      /\ \A n \in Records' : n \in Records \/ (n = Len(ring) + 1 /\ ring'[n] = r)
    BY <1>3, AddedRecords
<1>6. \A n \in Records : (IsAlloc(n)' <=> IsAlloc(n)) /\ (IsFree(n)' <=> IsFree(n))
    BY <1>5 DEF IsAlloc, IsFree
<1>7. \A q, m, n : NotFreed(q, m, n)' => NotFreed(q, m, n)
    BY <1>5, <1>6 DEF NotFreed
<1>8. \A q, m : NotFreed(q, m, Len(ring) + 1) => ~Freed(q, m)
    BY <1>5 DEF NotFreed, Freed
<1>9. ASSUME NEW q \in Ptrs, NEW j, Current(q, j) PROVE {j, i} \in together'
    <2>1. q \in Alive /\ j = id[q]
        BY <1>9 DEF Current, Alive
    <2>2. {i, id[q]} \in together' /\ {i, id[q]} = {j, i}
        BY <1>3, <2>1
    <2>3. QED
        BY <2>2
<1>10. together \subseteq together' /\ {i} \in together'
    BY <1>3
<1>11. \A n \in Records' : IsAlloc(n)' => {ring'[n].id} \in together'
    BY <1>2, <1>5, <1>6, <1>10 DEF Coexist
<1>12. ASSUME ~missed, NEW q \in DOMAIN bitmaps, NEW n \in Records', IsAlloc(n)',
              ring'[n].ptr # q, NotFreed(q, 0, n)'
       PROVE  {ring'[n].id, bitmaps[q].id} \in together'
    <2>1. NotFreed(q, 0, n) /\ q \in Ptrs
        BY <1>7, <1>12 DEF TypeOK
    <2>2. CASE n \in Records
        <3>1. ring'[n] = ring[n] /\ IsAlloc(n)
            BY <1>5, <1>6, <1>12, <2>2
        <3>2. {ring[n].id, bitmaps[q].id} \in together
            BY <1>12, <2>1, <2>2, <3>1 DEF Coexist
        <3>3. QED
            BY <1>10, <3>1, <3>2
    <2>3. CASE n \notin Records
        <3>1. ring'[n] = r /\ ~Freed(q, 0)
            BY <1>5, <1>8, <2>1, <2>3
        <3>2. Current(q, bitmaps[q].id)
            BY <1>12, <3>1 DEF Accounted
        <3>3. {bitmaps[q].id, i} \in together'
            BY <1>9, <2>1, <3>2
        <3>4. {bitmaps[q].id, i} = {ring'[n].id, bitmaps[q].id}
            BY <1>2, <3>1
        <3>5. QED
            BY <3>3, <3>4
    <2>4. QED
        BY <2>2, <2>3
<1>13. ASSUME ~missed, NEW m \in Records', NEW n \in Records', IsAlloc(m)', IsAlloc(n)',
              m < n, ring'[m].ptr # ring'[n].ptr, NotFreed(ring[m].ptr, m, n)'
       PROVE  {ring'[m].id, ring'[n].id} \in together'
    <2>1. m \in Records /\ ring'[m] = ring[m] /\ IsAlloc(m)
        <3>1. m \in Records
            BY <1>5, <1>13, RecordTypes
        <3>2. QED
            BY <1>5, <1>6, <1>13, <3>1
    <2>2. PICK q : q = ring[m].ptr
        OBVIOUS
    <2>3. NotFreed(q, m, n)'
        BY <1>13, <2>1, <2>2 DEF NotFreed
    <2>4. NotFreed(q, m, n) /\ q \in Ptrs
        BY <1>7, <2>1, <2>2, <2>3 DEF Kinds
    <2>5. CASE n \in Records
        <3>1. ring'[n] = ring[n] /\ IsAlloc(n)
            BY <1>5, <1>6, <1>13, <2>5
        <3>2. {ring[m].id, ring[n].id} \in together
            BY <1>13, <2>1, <2>2, <2>4, <2>5, <3>1 DEF Coexist
        <3>3. QED
            BY <1>10, <2>1, <3>1, <3>2
    <2>6. CASE n \notin Records
        <3>1. ring'[n] = r /\ ~Freed(q, m)
            BY <1>5, <1>8, <2>4, <2>6
        <3>2. Current(q, ring[m].id)
            BY <1>13, <2>1, <2>2, <3>1 DEF Accounted
        <3>3. {ring[m].id, i} \in together'
            BY <1>9, <2>4, <3>2
        <3>4. QED
            BY <1>2, <2>1, <3>1, <3>3
    <2>7. QED
        BY <2>5, <2>6
<1>14. /\ ~missed' => SnapshotCoexisted'
       /\ ~missed' => \A x, q \in DOMAIN bitmaps' :
              {bitmaps'[x].id, bitmaps'[q].id} \in together'
    BY <1>4, <1>10 DEF Coexist, SnapshotCoexisted
<1>15. QED
    BY <1>4, <1>11, <1>12, <1>13, <1>14 DEF Coexist

LEMMA AppCoexist ==
    ASSUME TypeOK, Bounds, Kinds, Busy, Accounted, Coexist, AppStep
    PROVE  Coexist'
<1>1. ASSUME NEW p \in Ptrs, NEW s \in Sizes, Create(p, s) PROVE Coexist'
    BY <1>1, CreateCoexist
<1>2. ASSUME NEW p \in Ptrs, Free(p) PROVE Coexist'
    <2>1. PICK size \in Nat : AtMostAdded(Record("free", p, 0, size, 0))
        BY <1>2, FreeShape
    <2>2. PICK r : r = Record("free", p, 0, size, 0)
        OBVIOUS
    <2>3. r.type = "free" /\ AtMostAdded(r)
        BY <2>1, <2>2 DEF Record
    <2>4. UNCHANGED <<bitmaps, snapshot, together>> /\ (~missed' => ~missed)
        BY <1>2, FreeShape DEF Free, handler
    <2>5. QED
        BY <2>3, <2>4, AddedRecords, NothingAllocated DEF IsAlloc
<1>3. ASSUME StartActivity PROVE Coexist'
    <2>1. PICK r : r = Record("start", NoPtr, 0, 0, act + 1)
        OBVIOUS
    <2>2. r.type = "start" /\ AtMostAdded(r)
        BY <1>3, <2>1, StartShape DEF Record
    <2>3. UNCHANGED <<bitmaps, snapshot, together, missed>>
        BY <1>3 DEF StartActivity, handler
    <2>4. QED
        BY <2>2, <2>3, AddedRecords, NothingAllocated DEF IsAlloc
<1>4. ASSUME NEW n \in DOMAIN ring, SubmitCreate(n) \/ SubmitFree(n) \/ SubmitStart(n)
      PROVE  Coexist'
    BY <1>4, SubmitShape, NothingAllocated DEF handler
<1>5. QED
    BY <1>1, <1>2, <1>3, <1>4 DEF AppStep

(* What the handler takes is the first record: the pairs it makes are      *)
(* those with no free in between.                                          *)
LEMMA OtherCoexist ==
    ASSUME TypeOK, Bounds, Kinds, Coexist, HandlerStep \/ EndRun \/ StartRun
    PROVE  Coexist'
<1>1. CASE EndRun \/ StartRun
    <2>1. UNCHANGED <<ring, together, missed>>
        BY <1>1 DEF EndRun, StartRun
    <2>2. UNCHANGED <<bitmaps, snapshot>> \/ (DOMAIN bitmaps' = {} /\ snapshot' = {})
        BY <1>1 DEF EndRun, StartRun, handler, NoMeta
    <2>3. CASE UNCHANGED <<bitmaps, snapshot>>
        BY <2>1, <2>3, NothingAllocated DEF Records
    <2>4. CASE DOMAIN bitmaps' = {} /\ snapshot' = {}
        <3>1. /\ \A n \in Records' : IsAlloc(n)' => {ring'[n].id} \in together'
              /\ ~missed' => \A m, n \in Records' :
                    IsAlloc(m)' /\ IsAlloc(n)' /\ m < n /\ ring'[m].ptr # ring'[n].ptr
                      /\ NotFreed(ring[m].ptr, m, n)'
                        => {ring'[m].id, ring'[n].id} \in together'
            BY <2>1 DEF Coexist, Records, IsAlloc, IsFree, NotFreed
        <3>2. SnapshotCoexisted'
            BY <2>4 DEF SnapshotCoexisted
        <3>3. QED
            BY <2>4, <3>1, <3>2 DEF Coexist
    <2>5. QED
        BY <2>2, <2>3, <2>4
<1>2. CASE HandlerStep
    <2>1. PICK p, i : p = ring[1].ptr /\ i = ring[1].id
        OBVIOUS
    <2>2. PICK x \in DOMAIN ring : HandleAlloc(x) \/ HandleFree(x) \/ HandleStart(x)
        BY <1>2 DEF HandlerStep
    <2>3. /\ 1 \in Records /\ Shifted
          /\ UNCHANGED <<together, missed>>
          /\ \A q \in DOMAIN bitmaps' :
                \/ q \in DOMAIN bitmaps /\ bitmaps'[q] = bitmaps[q] /\ ~(IsFree(1) /\ q = p)
                      /\ ~(IsAlloc(1) /\ q = p)
                \/ q = p /\ IsAlloc(1) /\ bitmaps'[q].id = i
          /\ snapshot' = snapshot \/ snapshot' = Reported(bitmaps')
        <3>1. CASE HandleAlloc(x)
            <4>1. /\ 1 \in Records /\ Shifted /\ IsAlloc(1) /\ UNCHANGED <<together, missed>>
                  /\ DOMAIN bitmaps' = DOMAIN bitmaps \cup {p}
                  /\ bitmaps'[p] = [id |-> i, act |-> activity]
                  /\ \A q \in DOMAIN bitmaps \ {p} : bitmaps'[q] = bitmaps[q]
                  /\ snapshot' = snapshot \/ snapshot' = Reported(bitmaps')
                BY <2>1, <3>1, AllocHandled
            <4>2. bitmaps'[p].id = i /\ ~IsFree(1)
                BY <4>1 DEF IsAlloc, IsFree
            <4>3. QED
                BY <4>1, <4>2
        <3>2. CASE HandleFree(x)
            BY <2>1, <3>2, FreeHandled DEF IsFree, IsAlloc
        <3>3. CASE HandleStart(x)
            BY <3>3, StartHandled DEF IsAlloc, IsFree, IsStart
        <3>4. QED
            BY <2>2, <3>1, <3>2, <3>3
    <2>4. \A m \in Records' : m \in Int /\ m + 1 \in Records /\ ring'[m] = ring[m + 1]
        BY <2>3, ShiftedRecords
    <2>5. \A f \in Records : f \in Int /\ f >= 1
                               /\ (f > 1 => f - 1 \in Records' /\ ring'[f - 1] = ring[f])
        <3>1. ASSUME NEW f \in Records, f > 1 PROVE f - 1 \in Records' /\ ring'[f - 1] = ring[f]
            <4>1. PICK m : m = f - 1
                OBVIOUS
            <4>2. m \in Records' /\ f = m + 1
                BY <2>3, <3>1, <4>1 DEF Shifted, Records
            <4>3. QED
                BY <2>4, <4>1, <4>2
        <3>2. QED
            BY <3>1 DEF Records
    <2>6. ASSUME NEW q, NEW m \in Int, NEW n \in Int, m >= 1, NotFreed(q, m - 1, n - 1)'
          PROVE  NotFreed(q, m, n)
        <3>1. ASSUME NEW f \in Records, m < f, f < n, IsFree(f) PROVE ring[f].ptr # q
            <4>1. PICK g : g = f - 1
                OBVIOUS
            <4>2. f \in Int /\ f > 1 /\ m - 1 < g /\ g < n - 1
                BY <2>5, <2>6, <3>1, <4>1
            <4>3. g \in Records' /\ ring'[g] = ring[f]
                BY <2>5, <4>1, <4>2
            <4>4. QED
                BY <2>6, <3>1, <4>2, <4>3 DEF NotFreed, IsFree
        <3>2. QED
            BY <3>1 DEF NotFreed
    <2>7. \A m \in Records' : \E k \in Records :
              k = m + 1 /\ m = k - 1 /\ k > 1 /\ ring'[m] = ring[k] /\ (IsAlloc(m)' <=> IsAlloc(k))
        BY <2>4 DEF IsAlloc, Records
    <2>8. \A m \in Records' : IsAlloc(m)' => {ring'[m].id} \in together'
        <3>1. ASSUME NEW m \in Records', IsAlloc(m)' PROVE {ring'[m].id} \in together'
            <4>1. PICK k \in Records : ring'[m] = ring[k] /\ IsAlloc(k)
                BY <2>7, <3>1
            <4>2. {ring[k].id} \in together
                BY <4>1 DEF Coexist
            <4>3. QED
                BY <2>3, <4>1, <4>2
        <3>2. QED
            BY <3>1
    <2>9. ASSUME ~missed, NEW q \in DOMAIN bitmaps', NEW m \in Records', IsAlloc(m)',
                 ring'[m].ptr # q, NotFreed(q, 0, m)'
          PROVE  {ring'[m].id, bitmaps'[q].id} \in together
        <3>1. PICK k \in Records : k = m + 1 /\ m = k - 1 /\ k > 1 /\ ring'[m] = ring[k]
                                     /\ IsAlloc(k)
            BY <2>7, <2>9
        <3>2. NotFreed(q, 1, k)
            BY <2>5, <2>6, <2>9, <3>1
        <3>3. CASE q \in DOMAIN bitmaps /\ bitmaps'[q] = bitmaps[q] /\ ~(IsFree(1) /\ q = p)
            <4>1. NotFreed(q, 0, k)
                BY <2>1, <2>5, <3>2, <3>3 DEF NotFreed
            <4>2. {ring[k].id, bitmaps[q].id} \in together
                BY <2>9, <3>1, <3>3, <4>1 DEF Coexist
            <4>3. QED
                BY <3>1, <3>3, <4>2
        <3>4. CASE q = p /\ IsAlloc(1) /\ bitmaps'[q].id = i
            <4>1. {ring[1].id, ring[k].id} \in together
                BY <2>1, <2>3, <2>9, <3>1, <3>2, <3>4 DEF Coexist
            <4>2. {ring[1].id, ring[k].id} = {ring'[m].id, bitmaps'[q].id}
                BY <2>1, <3>1, <3>4
            <4>3. QED
                BY <4>1, <4>2
        <3>5. QED
            BY <2>3, <2>9, <3>3, <3>4
    <2>10. ASSUME ~missed, NEW m \in Records', NEW n \in Records', IsAlloc(m)', IsAlloc(n)',
                  m < n, ring'[m].ptr # ring'[n].ptr, NotFreed(ring[m].ptr, m, n)'
           PROVE  {ring'[m].id, ring'[n].id} \in together
        <3>1. PICK k \in Records : k = m + 1 /\ m = k - 1 /\ k > 1 /\ ring'[m] = ring[k]
                                     /\ IsAlloc(k)
            BY <2>7, <2>10
        <3>2. PICK l \in Records : l = n + 1 /\ n = l - 1 /\ l > 1 /\ ring'[n] = ring[l]
                                     /\ IsAlloc(l)
            BY <2>7, <2>10
        <3>3. PICK q : q = ring[k].ptr
            OBVIOUS
        <3>4. NotFreed(q, m, n)'
            BY <2>10, <3>1, <3>3 DEF NotFreed
        <3>5. NotFreed(q, k, l) /\ k < l
            BY <2>4, <2>5, <2>6, <2>10, <3>1, <3>2, <3>4
        <3>6. {ring[k].id, ring[l].id} \in together
            BY <2>10, <3>1, <3>2, <3>3, <3>5 DEF Coexist
        <3>7. QED
            BY <3>1, <3>2, <3>6
    <2>11. ASSUME ~missed, NEW a \in DOMAIN bitmaps', NEW b \in DOMAIN bitmaps'
           PROVE  {bitmaps'[a].id, bitmaps'[b].id} \in together
        <3>1. ASSUME NEW q \in DOMAIN bitmaps, q # p, IsAlloc(1)
              PROVE  {i, bitmaps[q].id} \in together
            <4>1. NotFreed(q, 0, 1)
                BY <2>5 DEF NotFreed
            <4>2. QED
                BY <2>1, <2>3, <2>11, <3>1, <4>1 DEF Coexist
        <3>2. CASE a \in DOMAIN bitmaps /\ bitmaps'[a] = bitmaps[a] /\ ~(IsAlloc(1) /\ a = p)
            <4>1. CASE b \in DOMAIN bitmaps /\ bitmaps'[b] = bitmaps[b]
                BY <2>11, <3>2, <4>1 DEF Coexist
            <4>2. CASE b = p /\ IsAlloc(1) /\ bitmaps'[b].id = i
                <5>1. {i, bitmaps[a].id} \in together
                    BY <3>1, <3>2, <4>2
                <5>2. {i, bitmaps[a].id} = {bitmaps'[a].id, bitmaps'[b].id}
                    BY <3>2, <4>2
                <5>3. QED
                    BY <5>1, <5>2
            <4>3. QED
                BY <2>3, <2>11, <4>1, <4>2
        <3>3. CASE a = p /\ IsAlloc(1) /\ bitmaps'[a].id = i
            <4>1. CASE b \in DOMAIN bitmaps /\ bitmaps'[b] = bitmaps[b] /\ b # p
                BY <3>1, <3>3, <4>1
            <4>2. CASE b = p
                <5>1. {i} \in together
                    BY <2>1, <2>3, <3>3 DEF Coexist
                <5>2. {bitmaps'[a].id, bitmaps'[b].id} = {i}
                    BY <3>3, <4>2
                <5>3. QED
                    BY <5>1, <5>2
            <4>3. QED
                BY <2>3, <2>11, <4>1, <4>2
        <3>4. QED
            BY <2>3, <2>11, <3>2, <3>3
    <2>12. ~missed' => SnapshotCoexisted'
        <3>1. CASE snapshot' = snapshot
            BY <2>3, <3>1 DEF Coexist, SnapshotCoexisted
        <3>2. CASE snapshot' = Reported(bitmaps')
            BY <2>3, <2>11, <3>2 DEF SnapshotCoexisted, Reported
        <3>3. QED
            BY <2>3, <3>1, <3>2
    <2>13. QED
        BY <2>3, <2>8, <2>9, <2>10, <2>11, <2>12 DEF Coexist
<1>3. QED
    BY <1>1, <1>2

(***************************************************************************)
(* The activity a bitmap is reported with.                                 *)
(***************************************************************************)
LEMMA Dated ==
    ASSUME TypeOK, Bounds
    PROVE  \A x \in Reported(bitmaps) \cup snapshot : x.id \in 1 .. Len(sizes)
BY DEF Bounds, Reported

(* Steps of the app that leave the activity alone.                         *)
LEMMA SameActivity ==
    ASSUME TypeOK, Bounds, Activities,
           UNCHANGED <<act, activity, unheard, bitmaps, snapshot>>,
           \A j \in 1 .. Len(sizes) : acts'[j] = acts[j],
           \A j \in DOMAIN acts' : j \in 1 .. Len(sizes) \/ acts'[j] = act,
           Len(ring') >= Len(ring), Len(ring') \in Nat,
           \A n \in Records :
              n \in Records' /\ ring'[n].type = ring[n].type /\ ring'[n].act = ring[n].act,
           \A n \in Records' :
              \/ n \in Records
              \/ ~IsStart(n)' /\ n >= Len(ring) + 1 /\ (IsAlloc(n)' => ring'[n].act = act)
    PROVE  Activities'
<1>1. \A n \in Records : (IsAlloc(n)' <=> IsAlloc(n)) /\ (IsStart(n)' <=> IsStart(n))
    BY DEF IsAlloc, IsStart
<1>2. /\ Len(ring) \in Nat /\ \A n \in Records : n \in Int /\ n <= Len(ring)
      /\ \A n \in Records' : n \in Int
    BY RecordTypes DEF Records
<1>3. \A m, n : NoStart(m, n)' => NoStart(m, n)
    BY <1>1 DEF NoStart
<1>4. ASSUME NEW m, NEW n \in Int, n >= Len(ring) + 1, NoStart(m, n)'
      PROVE  NoStart(m, Len(ring) + 1)
    <2>1. NoStart(m, n)
        BY <1>3, <1>4
    <2>2. \A f \in Records : f < Len(ring) + 1 => f < n
        BY <1>2, <1>4
    <2>3. QED
        BY <2>1, <2>2 DEF NoStart
<1>5. act' = 0 => /\ \A i \in DOMAIN acts' : acts'[i] = 0
                  /\ \A n \in Records' : ~IsStart(n)'
    <2>1. \A j \in 1 .. Len(sizes) : j \in DOMAIN acts
        BY DEF TypeOK, Bounds
    <2>2. QED
        BY <1>1, <2>1 DEF Activities
<1>6. ASSUME ~unheard', NEW n \in Records', IsAlloc(n)', NoStart(0, n)'
      PROVE  ring'[n].act = activity'
    <2>1. CASE n \in Records
        BY <1>1, <1>3, <1>6, <2>1 DEF Activities
    <2>2. CASE n \notin Records
        <3>1. n >= Len(ring) + 1 /\ ring'[n].act = act
            BY <1>6, <2>2
        <3>2. NoStart(0, Len(ring) + 1)
            BY <1>2, <1>4, <1>6, <3>1
        <3>3. QED
            BY <1>6, <3>1, <3>2 DEF Activities
    <2>3. QED
        BY <2>1, <2>2
<1>7. ASSUME ~unheard', NEW m \in Records', NEW n \in Records', IsStart(m)', IsAlloc(n)', m < n,
             NoStart(m, n)'
      PROVE  ring'[n].act = ring'[m].act
    <2>1. m \in Records /\ IsStart(m)
        BY <1>1, <1>7
    <2>2. CASE n \in Records
        BY <1>1, <1>3, <1>7, <2>1, <2>2 DEF Activities
    <2>3. CASE n \notin Records
        <3>1. n >= Len(ring) + 1 /\ ring'[n].act = act
            BY <1>7, <2>3
        <3>2. NoStart(m, Len(ring) + 1)
            BY <1>2, <1>4, <1>7, <3>1
        <3>3. ring[m].act = act
            BY <1>7, <2>1, <3>2 DEF Activities
        <3>4. QED
            BY <2>1, <3>1, <3>3
    <2>4. QED
        BY <2>2, <2>3
<1>8. ASSUME ~unheard', NoStart(0, Len(ring) + 1)' PROVE activity' = act'
    <2>1. NoStart(0, Len(ring) + 1)
        BY <1>2, <1>4, <1>8 DEF NoStart
    <2>2. QED
        BY <1>8, <2>1 DEF Activities
<1>9. ASSUME ~unheard', NEW m \in Records', IsStart(m)', NoStart(m, Len(ring) + 1)'
      PROVE  ring'[m].act = act'
    <2>1. m \in Records /\ IsStart(m)
        BY <1>1, <1>9
    <2>2. NoStart(m, Len(ring) + 1)
        BY <1>2, <1>4, <1>9 DEF NoStart
    <2>3. QED
        BY <1>9, <2>1, <2>2 DEF Activities
<1>10. ActivityAtCreation'
    BY Dated DEF Activities, ActivityAtCreation, Reported
<1>11. QED
    BY <1>5, <1>6, <1>7, <1>8, <1>9, <1>10 DEF Activities

LEMMA AppActivities ==
    ASSUME TypeOK, Bounds, Kinds, Busy, Activities, AppStep
    PROVE  Activities'
<1>1. ring \in Seq(Rec) /\ Len(ring) \in Nat
    BY RecordTypes
<1>2. ASSUME NEW p \in Ptrs, NEW s \in Sizes, Create(p, s) PROVE Activities'
    <2>1. PICK i, r : i = Len(sizes) + 1 /\ r = Record("alloc", p, i, s, act)
        OBVIOUS
    <2>2. r.type = "alloc" /\ r.act = act
        BY <2>1 DEF Record
    <2>3. /\ AtMostAdded(r) /\ Len(acts') = i /\ acts'[i] = act
          /\ \A j \in 1 .. Len(sizes) : acts'[j] = acts[j]
          /\ acts' \in Seq(Nat)
        BY <1>2, <2>1, CreateShape
    <2>4. UNCHANGED <<act, activity, unheard, bitmaps, snapshot>>
        BY <1>2 DEF Create, handler
    <2>5. \A j \in DOMAIN acts' : j \in 1 .. Len(sizes) \/ acts'[j] = act
        <3>1. Len(sizes) \in Nat
            BY DEF TypeOK
        <3>2. QED
            BY <2>1, <2>3, <3>1
    <2>6. Len(ring') >= Len(ring) /\ Len(ring') \in Nat
        BY <1>1, <2>3 DEF AtMostAdded
    <2>7. /\ \A n \in Records :
                n \in Records' /\ ring'[n].type = ring[n].type /\ ring'[n].act = ring[n].act
          /\ \A n \in Records' :
                \/ n \in Records
                \/ ~IsStart(n)' /\ n >= Len(ring) + 1 /\ (IsAlloc(n)' => ring'[n].act = act)
        BY <1>1, <2>2, <2>3, AddedRecords DEF IsStart, IsAlloc
    <2>8. QED
        BY <2>3, <2>4, <2>5, <2>6, <2>7, SameActivity
<1>3. ASSUME NEW p \in Ptrs, Free(p) PROVE Activities'
    <2>1. PICK size \in Nat : AtMostAdded(Record("free", p, 0, size, 0))
        BY <1>3, FreeShape
    <2>2. PICK r : r = Record("free", p, 0, size, 0)
        OBVIOUS
    <2>3. r.type = "free" /\ AtMostAdded(r)
        BY <2>1, <2>2 DEF Record
    <2>4. UNCHANGED <<act, acts, activity, unheard, bitmaps, snapshot>>
        BY <1>3 DEF Free, handler
    <2>5. \A j \in DOMAIN acts' : j \in 1 .. Len(sizes)
        BY <2>4 DEF TypeOK, Bounds
    <2>6. Len(ring') >= Len(ring) /\ Len(ring') \in Nat
        BY <1>1, <2>3 DEF AtMostAdded
    <2>7. /\ \A n \in Records :
                n \in Records' /\ ring'[n].type = ring[n].type /\ ring'[n].act = ring[n].act
          /\ \A n \in Records' :
                \/ n \in Records
                \/ ~IsStart(n)' /\ n >= Len(ring) + 1 /\ (IsAlloc(n)' => ring'[n].act = act)
        BY <1>1, <2>3, AddedRecords DEF IsStart, IsAlloc
    <2>8. QED
        BY <2>4, <2>5, <2>6, <2>7, SameActivity
<1>4. ASSUME NEW n \in DOMAIN ring, SubmitCreate(n) \/ SubmitFree(n) \/ SubmitStart(n)
      PROVE  Activities'
    <2>1. /\ Records' = Records
          /\ \A m \in Records : ring'[m].type = ring[m].type /\ ring'[m].act = ring[m].act
          /\ UNCHANGED <<act, acts, activity, unheard, bitmaps, snapshot>>
        BY <1>4, SubmitShape DEF handler
    <2>2. \A j \in DOMAIN acts' : j \in 1 .. Len(sizes)
        BY <2>1 DEF TypeOK, Bounds
    <2>3. Len(ring') = Len(ring)
        <3>1. Ready(n) /\ n \in 1 .. Len(ring)
            BY <1>4, RecordTypes DEF SubmitCreate, SubmitFree, SubmitStart, Records
        <3>2. QED
            BY <1>1, <3>1, MarkedWhen DEF Marked
    <2>4. Len(ring') >= Len(ring) /\ Len(ring') \in Nat
        BY <1>1, <2>3
    <2>5. QED
        BY <2>1, <2>2, <2>4, SameActivity
<1>5. ASSUME StartActivity PROVE Activities'
    <2>1. PICK r : r = Record("start", NoPtr, 0, 0, act + 1)
        OBVIOUS
    <2>2. r.type = "start" /\ r.act = act + 1
        BY <2>1 DEF Record
    <2>3. /\ AtMostAdded(r) /\ act' = act + 1
          /\ Len(ring') = Len(ring) => unheard'
          /\ ~unheard' => ~unheard
        BY <1>5, <2>1, StartShape
    <2>4. UNCHANGED <<acts, activity, bitmaps, snapshot>>
        BY <1>5 DEF StartActivity, handler
    <2>5. act' # 0
        BY <2>3 DEF TypeOK
    <2>6. PICK z : z = Len(ring) + 1
        OBVIOUS
    <2>7. /\ z \in Int
          /\ \A n \in Records : n \in Records' /\ n \in Int /\ ring'[n] = ring[n] /\ n < z
          /\ \A n \in Records' : n \in Records \/ (n = z /\ ring'[n] = r)
        BY <1>1, <2>3, <2>6, AddedRecords
    <2>8. \A n \in Records' : IsAlloc(n)' => n \in Records /\ ring'[n] = ring[n] /\ IsAlloc(n)
        BY <2>2, <2>7 DEF IsAlloc
    <2>9. \A m, n : NoStart(m, n)' => NoStart(m, n)
        BY <2>7 DEF NoStart, IsStart
    <2>10. ASSUME ~unheard' PROVE z \in Records' /\ IsStart(z)' /\ z < Len(ring') + 1
        <3>1. Len(ring') = z
            BY <2>3, <2>6, <2>10 DEF AtMostAdded
        <3>2. z \in Records'
            BY <1>1, <2>6, <3>1 DEF Records
        <3>3. ring'[z] = r
            BY <2>7, <3>2
        <3>4. QED
            BY <2>2, <2>7, <3>1, <3>2, <3>3 DEF IsStart
    <2>11. ASSUME ~unheard', NEW m \in Records', IsStart(m)', NoStart(m, Len(ring) + 1)'
           PROVE  ring'[m].act = act'
        <3>1. m \notin Records
            BY <2>7, <2>10, <2>11 DEF NoStart
        <3>2. QED
            BY <2>2, <2>3, <2>7, <3>1
    <2>12. ASSUME ~unheard' PROVE ~NoStart(0, Len(ring) + 1)'
        <3>1. 0 < z
            BY <1>1, <2>6
        <3>2. QED
            BY <2>10, <2>12, <3>1 DEF NoStart
    <2>13. ASSUME ~unheard', NEW m \in Records', NEW n \in Records', IsStart(m)', IsAlloc(n)',
                  m < n, NoStart(m, n)'
           PROVE  ring'[n].act = ring'[m].act
        <3>1. n \in Records /\ ring'[n] = ring[n] /\ IsAlloc(n) /\ n < z
            BY <2>7, <2>8, <2>13
        <3>2. m \in Records /\ ring'[m] = ring[m] /\ IsStart(m)
            BY <2>7, <2>13, <3>1 DEF IsStart
        <3>3. QED
            BY <2>3, <2>9, <2>13, <3>1, <3>2 DEF Activities
    <2>14. ASSUME ~unheard', NEW n \in Records', IsAlloc(n)', NoStart(0, n)'
           PROVE  ring'[n].act = activity'
        BY <2>3, <2>4, <2>8, <2>9, <2>14 DEF Activities
    <2>15. ActivityAtCreation'
        BY <2>3, <2>4 DEF Activities, ActivityAtCreation, Reported
    <2>16. QED
        BY <2>5, <2>11, <2>12, <2>13, <2>14, <2>15 DEF Activities
<1>6. QED
    BY <1>2, <1>3, <1>4, <1>5 DEF AppStep

LEMMA OtherActivities ==
    ASSUME TypeOK, Bounds, Kinds, Activities, HandlerStep \/ EndRun \/ StartRun
    PROVE  Activities'
<1>1. CASE EndRun
    BY <1>1 DEF EndRun, app, handler, Activities, ActivityAtCreation, Reported, Records,
                IsAlloc, IsStart, NoStart
<1>2. CASE StartRun
    <2>1. /\ UNCHANGED <<act, acts, ring>> /\ unheard' = (act > 0) /\ activity' = 0
          /\ snapshot' = {} /\ Reported(bitmaps') = {}
        BY <1>2 DEF StartRun, app, Reported, NoMeta
    <2>2. act \in Nat
        BY DEF TypeOK
    <2>3. CASE act = 0
        <3>1. /\ \A i \in DOMAIN acts : acts[i] = 0
              /\ \A n \in Records : ~IsStart(n)
            BY <2>3 DEF Activities
        <3>2. \A n \in Records : IsAlloc(n) => ring[n].act = 0
            <4>1. \A i \in 1 .. Len(sizes) : acts[i] = 0
                BY <3>1 DEF Bounds, TypeOK
            <4>2. QED
                BY <4>1 DEF Kinds
        <3>3. \A n \in Records' : ~IsStart(n)' /\ (IsAlloc(n)' => ring'[n].act = 0)
            BY <2>1, <3>1, <3>2 DEF Records, IsStart, IsAlloc
        <3>4. QED
            BY <2>1, <2>3, <3>1, <3>3 DEF Activities, ActivityAtCreation
    <2>4. CASE act # 0
        <3>1. act > 0
            BY <2>2, <2>4
        <3>2. unheard'
            BY <2>1, <3>1, Zenon
        <3>3. act' # 0
            BY <2>1, <2>4
        <3>4. QED
            BY <3>2, <3>3 DEF Activities, ActivityAtCreation
    <2>5. QED
        BY <2>3, <2>4
<1>3. CASE HandlerStep
    <2>1. PICK x \in DOMAIN ring : HandleAlloc(x) \/ HandleFree(x) \/ HandleStart(x)
        BY <1>3 DEF HandlerStep
    <2>2. /\ 1 \in Records /\ Shifted /\ UNCHANGED <<act, acts, unheard>>
          /\ IsStart(1) => activity' = ring[1].act
          /\ ~IsStart(1) => activity' = activity
        <3>1. CASE HandleAlloc(x)
            BY <3>1, AllocHandled DEF app, IsAlloc, IsStart
        <3>2. CASE HandleFree(x)
            BY <3>2, FreeHandled DEF app, IsFree, IsStart
        <3>3. CASE HandleStart(x)
            BY <3>3, StartHandled DEF app
        <3>4. QED
            BY <2>1, <3>1, <3>2, <3>3
    <2>3. \A m \in Records' : m \in Int /\ m + 1 \in Records /\ ring'[m] = ring[m + 1]
        BY <2>2, ShiftedRecords
    <2>4. \A f \in Records : f \in Int /\ f >= 1
                               /\ (f > 1 => f - 1 \in Records' /\ ring'[f - 1] = ring[f])
        <3>1. ASSUME NEW f \in Records, f > 1 PROVE f - 1 \in Records' /\ ring'[f - 1] = ring[f]
            <4>1. PICK m : m = f - 1
                OBVIOUS
            <4>2. m \in Records' /\ f = m + 1
                BY <2>2, <3>1, <4>1 DEF Shifted, Records
            <4>3. QED
                BY <2>3, <4>1, <4>2
        <3>2. QED
            BY <3>1 DEF Records
    <2>5. \A m \in Records' : \E k \in Records :
             /\ k = m + 1 /\ m = k - 1 /\ k > 1 /\ ring'[m] = ring[k]
             /\ (IsAlloc(m)' <=> IsAlloc(k)) /\ (IsStart(m)' <=> IsStart(k))
        BY <2>3 DEF IsAlloc, IsStart, Records
    <2>6. ASSUME NEW m \in Int, NEW n \in Int, m >= 1, NoStart(m - 1, n - 1)'
          PROVE  NoStart(m, n)
        <3>1. ASSUME NEW f \in Records, m < f, f < n PROVE ~IsStart(f)
            <4>1. PICK g : g = f - 1
                OBVIOUS
            <4>2. f \in Int /\ f > 1 /\ m - 1 < g /\ g < n - 1
                BY <2>4, <2>6, <3>1, <4>1
            <4>3. g \in Records' /\ ring'[g] = ring[f]
                BY <2>4, <4>1, <4>2
            <4>4. QED
                BY <2>6, <4>2, <4>3 DEF NoStart, IsStart
        <3>2. QED
            BY <3>1 DEF NoStart
    <2>7. ASSUME NEW n \in Int, NoStart(0, n - 1)'
          PROVE  NoStart(1, n) /\ (~IsStart(1) => NoStart(0, n))
        <3>1. NoStart(1, n)
            BY <2>6, <2>7
        <3>2. \A f \in Records : f = 1 \/ 1 < f
            BY <2>4
        <3>3. QED
            BY <3>1, <3>2 DEF NoStart
    <2>8. PICK z : z = Len(ring) + 1
        OBVIOUS
    <2>9. z \in Int /\ Len(ring') + 1 = z - 1
        BY <2>2, <2>8, RecordTypes DEF Shifted
    <2>10. act' = 0 => /\ \A i \in DOMAIN acts' : acts'[i] = 0
                       /\ \A n \in Records' : ~IsStart(n)'
        BY <2>2, <2>5 DEF Activities
    <2>11. ASSUME ~unheard, NEW n \in Records', IsAlloc(n)', NoStart(0, n)'
           PROVE  ring'[n].act = activity'
        <3>1. PICK k \in Records : n = k - 1 /\ k > 1 /\ ring'[n] = ring[k] /\ IsAlloc(k)
            BY <2>5, <2>11
        <3>2. k \in Int /\ NoStart(1, k) /\ (~IsStart(1) => NoStart(0, k))
            BY <2>4, <2>7, <2>11, <3>1
        <3>3. QED
            BY <2>2, <2>11, <3>1, <3>2 DEF Activities
    <2>12. ASSUME ~unheard, NEW m \in Records', NEW n \in Records', IsStart(m)', IsAlloc(n)',
                  m < n, NoStart(m, n)'
           PROVE  ring'[n].act = ring'[m].act
        <3>1. PICK k \in Records : n = k - 1 /\ k > 1 /\ ring'[n] = ring[k] /\ IsAlloc(k)
            BY <2>5, <2>12
        <3>2. PICK l \in Records : m = l - 1 /\ l > 1 /\ ring'[m] = ring[l] /\ IsStart(l)
            BY <2>5, <2>12
        <3>3. l \in Int /\ k \in Int /\ l < k
            BY <2>4, <2>12, <3>1, <3>2
        <3>4. NoStart(l, k)
            BY <2>6, <2>12, <3>1, <3>2, <3>3
        <3>5. QED
            BY <2>12, <3>1, <3>2, <3>3, <3>4 DEF Activities
    <2>13. ASSUME ~unheard, NoStart(0, Len(ring) + 1)' PROVE activity' = act
        <3>1. NoStart(0, z - 1)'
            BY <2>9, <2>13 DEF NoStart
        <3>2. NoStart(1, z) /\ (~IsStart(1) => NoStart(0, z))
            BY <2>7, <2>9, <3>1
        <3>3. QED
            BY <2>2, <2>8, <2>13, <3>2 DEF Activities
    <2>14. ASSUME ~unheard, NEW m \in Records', IsStart(m)', NoStart(m, Len(ring) + 1)'
           PROVE  ring'[m].act = act
        <3>1. PICK l \in Records : m = l - 1 /\ l > 1 /\ ring'[m] = ring[l] /\ IsStart(l)
            BY <2>5, <2>14
        <3>2. NoStart(m, z - 1)'
            BY <2>9, <2>14 DEF NoStart
        <3>3. NoStart(l, z)
            BY <2>4, <2>6, <2>9, <3>1, <3>2
        <3>4. QED
            BY <2>8, <2>14, <3>1, <3>3 DEF Activities
    <2>15. ActivityAtCreation'
        <3>1. CASE HandleAlloc(x)
            <4>1. PICK p, i : p = ring[1].ptr /\ i = ring[1].id
                OBVIOUS
            <4>2. /\ IsAlloc(1) /\ i \in 1 .. Len(sizes)
                  /\ DOMAIN bitmaps' = DOMAIN bitmaps \cup {p}
                  /\ bitmaps'[p] = [id |-> i, act |-> activity]
                  /\ \A q \in DOMAIN bitmaps \ {p} : bitmaps'[q] = bitmaps[q]
                  /\ snapshot' = snapshot \/ snapshot' = Reported(bitmaps')
                BY <3>1, <4>1, AllocHandled
            <4>3. ASSUME ~unheard PROVE activity = acts[i]
                <5>1. NoStart(0, 1)
                    BY <2>4 DEF NoStart
                <5>2. ring[1].act = activity
                    BY <2>2, <4>2, <4>3, <5>1 DEF Activities
                <5>3. ring[1].act = acts[i]
                    BY <2>2, <4>1, <4>2 DEF Kinds
                <5>4. QED
                    BY <5>2, <5>3
            <4>4. ASSUME ~unheard, NEW q \in DOMAIN bitmaps'
                  PROVE  bitmaps'[q].act = acts[bitmaps'[q].id]
                <5>1. CASE q = p
                    BY <4>2, <4>3, <4>4, <5>1
                <5>2. CASE q # p
                    BY <4>2, <4>4, <5>2 DEF Activities, ActivityAtCreation, Reported
                <5>3. QED
                    BY <5>1, <5>2
            <4>5. ~unheard => \A y \in Reported(bitmaps') : y.act = acts[y.id]
                BY <4>4 DEF Reported
            <4>6. ~unheard => \A y \in snapshot' : y.act = acts[y.id]
                BY <4>2, <4>5 DEF Activities, ActivityAtCreation
            <4>7. QED
                BY <2>2, <4>5, <4>6 DEF ActivityAtCreation
        <3>2. CASE HandleFree(x)
            <4>1. /\ \A q \in DOMAIN bitmaps' : q \in DOMAIN bitmaps /\ bitmaps'[q] = bitmaps[q]
                  /\ UNCHANGED snapshot
                BY <3>2, FreeHandled
            <4>2. Reported(bitmaps') \subseteq Reported(bitmaps)
                BY <4>1 DEF Reported
            <4>3. QED
                BY <2>2, <4>1, <4>2 DEF Activities, ActivityAtCreation
        <3>3. CASE HandleStart(x)
            BY <2>2, <3>3, StartHandled DEF Activities, ActivityAtCreation, Reported
        <3>4. QED
            BY <2>1, <3>1, <3>2, <3>3
    <2>16. QED
        BY <2>2, <2>10, <2>11, <2>12, <2>13, <2>14, <2>15 DEF Activities
<1>4. QED
    BY <1>1, <1>2, <1>3

-------------------------------------------------------------------------------
LEMMA InvStutter == Inv /\ UNCHANGED vars => Inv'
<1> SUFFICES ASSUME Inv, UNCHANGED vars PROVE Inv'
    OBVIOUS
<1>1. UNCHANGED <<place, id, sizes, acts, act, probing, active, ring, bitmaps, max, current,
                  snapshot, activity, seen, together, missed, unheard, runs>>
    BY DEF vars, app, handler
<1>2. TypeOK'
    BY <1>1 DEF Inv, TypeOK, Reported
<1>3. Bounds' /\ Kinds'
    BY <1>1 DEF Inv, Bounds, Kinds, Records, IsAlloc, IsFree, IsStart
<1>4. Busy' /\ InOrder' /\ Fresh' /\ LiveReported'
    BY <1>1 DEF Inv, Busy, InOrder, Fresh, LiveReported, Records, IsAlloc, IsFree, IsStart, Lives
<1>5. Accounted'
    BY <1>1 DEF Inv, Accounted, Records, IsAlloc, IsFree, Current, Freed
<1>6. Coexist'
    BY <1>1 DEF Inv, Coexist, SnapshotCoexisted, Records, IsAlloc, IsFree, NotFreed
<1>7. Activities'
    BY <1>1 DEF Inv, Activities, ActivityAtCreation, Reported, Records, IsAlloc, IsStart, NoStart
<1>8. QED
    BY <1>2, <1>3, <1>4, <1>5, <1>6, <1>7 DEF Inv

LEMMA InvStep == Inv /\ Next => Inv'
<1> SUFFICES ASSUME Inv, Next PROVE Inv'
    OBVIOUS
<1>1. /\ TypeOK /\ Bounds /\ Kinds /\ Busy /\ InOrder /\ Fresh
      /\ LiveReported /\ Accounted /\ Coexist /\ Activities
    BY DEF Inv
<1>2. AppStep \/ HandlerStep \/ EndRun \/ StartRun
    BY DEF Next
<1>3. TypeOK' /\ Bounds'
    BY <1>1, <1>2, AppStepTypes, HandlerStepTypes, RunStepTypes
<1>4. Kinds' /\ Busy' /\ InOrder' /\ Fresh' /\ LiveReported'
    <2>1. CASE AppStep
        BY <1>1, <2>1, CreateKeeps, FreeKeeps, StartKeeps, SubmitKeeps DEF AppStep
    <2>2. CASE HandlerStep
        <3>1. PICK n \in DOMAIN ring : HandleAlloc(n) \/ HandleFree(n) \/ HandleStart(n)
            BY <2>2 DEF HandlerStep
        <3>2. Shifted /\ UNCHANGED app
            BY <1>1, <3>1, AllocHandled, FreeHandled, StartHandled
        <3>3. Kinds' /\ Busy' /\ InOrder'
            BY <1>1, <3>2, ShiftedKeeps
        <3>4. Fresh' /\ LiveReported'
            BY <1>1, <3>1, AllocFresh, FreeFresh, StartFresh
        <3>5. QED
            BY <3>3, <3>4
    <2>3. CASE EndRun \/ StartRun
        BY <1>1, <2>3, RunKeeps
    <2>4. QED
        BY <1>2, <2>1, <2>2, <2>3
<1>5. Accounted'
    BY <1>1, <1>2, AppAccounted, OtherAccounted
<1>6. Coexist'
    BY <1>1, <1>2, AppCoexist, OtherCoexist
<1>7. Activities'
    BY <1>1, <1>2, AppActivities, OtherActivities
<1>8. QED
    BY <1>3, <1>4, <1>5, <1>6, <1>7 DEF Inv

(***************************************************************************)
(* The invariant holds of the probes, the ring and the handler together.   *)
(***************************************************************************)
THEOREM Invariance == Spec => []Inv
<1>1. Inv /\ [Next]_vars => Inv'
    BY InvStep, InvStutter
<1>2. QED
    BY <1>1, InvInit, PTL DEF Spec

(***************************************************************************)
(* Every field keeps its type; active_bitmaps stays within its capacity    *)
(* and the ring within its own.                                            *)
(***************************************************************************)
THEOREM TypeCorrect == Spec => []TypeOK
<1>1. Inv => TypeOK
    BY DEF Inv
<1>2. QED
    BY <1>1, Invariance, PTL

(***************************************************************************)
(* on_item of BitmapAllocationHandlerV1: a bitmap whose allocation was     *)
(* handled is in the map under its own id for as long as it lives,         *)
(* whatever was dropped, left over by a run or written for an earlier      *)
(* bitmap at its address.                                                  *)
(***************************************************************************)
THEOREM HandledStayReported == Spec => []LiveReported
<1>1. Inv => LiveReported
    BY DEF Inv
<1>2. QED
    BY <1>1, Invariance, PTL

(***************************************************************************)
(* As long as no free went unrecorded, the handler knows no bitmap that is *)
(* gone, unless its free is still in the ring.                             *)
(***************************************************************************)
THEOREM OnlyLivingReported == Spec => []NoPhantoms
<1>1. ASSUME Inv PROVE NoPhantoms
    <2>1. Accounted /\ ring \in Seq(Rec)
        BY <1>1, RecordTypes DEF Inv
    <2>2. ASSUME ~missed, NEW p \in DOMAIN bitmaps
          PROVE  \/ place[p] # "none" /\ bitmaps[p].id = id[p]
                 \/ \E n \in DOMAIN ring : ring[n].type = "free" /\ ring[n].ptr = p
        <3>1. Current(p, bitmaps[p].id) \/ Freed(p, 0)
            BY <2>1, <2>2 DEF Accounted
        <3>2. DOMAIN ring = Records
            BY <2>1 DEF Records
        <3>3. QED
            BY <3>1, <3>2 DEF Current, Freed, IsFree
    <2>3. QED
        BY <2>2 DEF NoPhantoms
<1>2. QED
    BY <1>1, Invariance, PTL

(***************************************************************************)
(* The snapshot is a moment of the app: its bitmaps were alive together.   *)
(***************************************************************************)
THEOREM SnapshotIsAMoment == Spec => []SnapshotCoexisted
<1>1. Inv => SnapshotCoexisted
    BY DEF Inv, Coexist, SnapshotCoexisted
<1>2. QED
    BY <1>1, Invariance, PTL

(***************************************************************************)
(* The activity of a reported bitmap is the one it was created under, as   *)
(* long as no start went unrecorded.                                       *)
(***************************************************************************)
THEOREM ReportedActivity == Spec => []ActivityAtCreation
<1>1. Inv => ActivityAtCreation
    BY DEF Inv, Activities
<1>2. QED
    BY <1>1, Invariance, PTL

===============================================================================
