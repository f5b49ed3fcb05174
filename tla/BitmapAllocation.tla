--------------------------- MODULE BitmapAllocation ---------------------------
(***************************************************************************)
(* Bitmap snapshots: the BPF programs of BitmapAllocation.c, the ring they *)
(* share, and BitmapAllocationHandlerV1 at the other end.  The probed app  *)
(* creates and frees bitmaps on several threads and reuses addresses; the  *)
(* daemon comes and goes, the pinned maps stay.                            *)
(*                                                                         *)
(* A bitmap is known by an id, the order of its creation.  The ids stand   *)
(* for the width, height and storage type that are reported; a record and  *)
(* a reported bitmap carry the id.                                         *)
(***************************************************************************)
EXTENDS Integers, Sequences, FiniteSets, FiniteSetsExt

CONSTANTS
    Ptrs,           \* native pointers of the app
    NoPtr,          \* in a record without one
    Sizes,          \* heap sizes of bitmaps
    Residue,        \* what a ring slot may hold where bitmap_size will be
    RingCap,        \* records the ring holds
    ActiveCap,      \* entries active_bitmaps holds
    MaxBitmaps, MaxStarts, MaxRuns      \* bounds

ASSUME BitmapAssumption ==
    /\ NoPtr \notin Ptrs
    /\ Sizes \subseteq Nat
    /\ Residue \subseteq Nat
    /\ RingCap \in Nat /\ ActiveCap \in Nat
    /\ MaxBitmaps \in Nat /\ MaxStarts \in Nat /\ MaxRuns \in Nat \ {0}

VARIABLES
    place,      \* where each address is in a bitmap's life
    id,         \* the bitmap that has, or last had, the address
    sizes,      \* history: the size of each bitmap
    acts,       \* history: the activity each bitmap was created under
    act,        \* activities started so far; the last one is the current
    probing,    \* a run has its probes attached
    active,     \* the active_bitmaps map
    ring,       \* the records of the output ring
    bitmaps, max, current, snapshot, activity,      \* the handler's fields
    seen,       \* history: bitmaps whose allocation this run handled
    together,   \* history: pairs of bitmaps that were alive together
    missed,     \* history: a free of a traced bitmap left no record
    unheard,    \* history: the start of an activity left no record
    runs

app == <<place, id, sizes, acts, act>>
handler == <<bitmaps, max, current, snapshot, activity>>
vars == <<app, probing, active, ring, handler, seen, together, missed, unheard, runs>>

Alive == {p \in Ptrs : place[p] # "none"}
Room == Len(ring) < RingCap

Record(type, p, i, size, a) ==
    [st |-> "busy", type |-> type, ptr |-> p, id |-> i, size |-> size, act |-> a]

NoMeta == [p \in {} |-> 0]

Init ==
    /\ place = [p \in Ptrs |-> "none"]
    /\ id = [p \in Ptrs |-> 0]
    /\ sizes = <<>> /\ acts = <<>>
    /\ act = 0
    /\ probing = TRUE
    /\ active = {}
    /\ ring = <<>>
    /\ bitmaps = NoMeta /\ max = 0 /\ current = 0 /\ snapshot = {} /\ activity = 0
    /\ seen = {} /\ together = {} /\ missed = FALSE /\ unheard = FALSE
    /\ runs = 1

-------------------------------------------------------------------------------
(* The app and the programs its probes run.  A program reserves its record *)
(* and submits it later; other threads run in between.                     *)

Allocate(p, s) ==
    /\ place[p] = "none"
    /\ Len(sizes) < MaxBitmaps
    /\ LET i == Len(sizes) + 1
       IN  /\ id' = [id EXCEPT ![p] = i]
           /\ together' = together \cup {{i, id[q]} : q \in Alive} \cup {{i}}
    /\ sizes' = Append(sizes, s)
    /\ acts' = Append(acts, act)

(* bitmap_creation_for_snapshot, up to its reservation.  Without room it   *)
(* returns before the bitmap is put into active_bitmaps.                   *)
Create(p, s) ==
    /\ Allocate(p, s)
    /\ IF probing /\ Room
          THEN /\ ring' = Append(ring, Record("alloc", p, Len(sizes) + 1, s, act))
               /\ place' = [place EXCEPT ![p] = "creating"]
          ELSE /\ place' = [place EXCEPT ![p] = "live"]
               /\ UNCHANGED ring
    /\ UNCHANGED <<act, probing, active, handler, seen, missed, unheard, runs>>

Ready(n) == ring' = [ring EXCEPT ![n].st = "ready"]

(* The rest of it.  The update is BPF_NOEXIST and its result is not looked *)
(* at: a full map leaves the bitmap out.                                   *)
SubmitCreate(n) ==
    /\ ring[n].st = "busy" /\ ring[n].type = "alloc"
    /\ Ready(n)
    /\ place' = [place EXCEPT ![ring[n].ptr] = "live"]
    /\ active' = IF Cardinality(active) < ActiveCap THEN active \cup {ring[n].ptr} ELSE active
    /\ UNCHANGED <<id, sizes, acts, act, probing, handler, seen, together, missed, unheard,
                   runs>>

(* A bitmap whose allocation was recorded and handled or is still waiting. *)
Traced(p) == id[p] \in seen \/ \E n \in DOMAIN ring : ring[n].id = id[p]

(* apply_free_function: a bitmap that is not active is none of its         *)
(* business; an active one is deleted before there is known to be room for *)
(* the record.  The record's bitmap_size is never set: it keeps whatever   *)
(* the slot held.                                                          *)
Free(p) ==
    /\ place[p] = "live"
    /\ LET hit == probing /\ p \in active
       IN  /\ active' = IF hit THEN active \ {p} ELSE active
           /\ IF hit /\ Room
                 THEN /\ \E r \in Residue : ring' = Append(ring, Record("free", p, 0, r, 0))
                      /\ place' = [place EXCEPT ![p] = "freeing"]
                      /\ UNCHANGED missed
                 ELSE /\ place' = [place EXCEPT ![p] = "none"]
                      /\ missed' = (missed \/ Traced(p))
                      /\ UNCHANGED ring
    /\ UNCHANGED <<id, sizes, acts, act, probing, handler, seen, together, unheard, runs>>

SubmitFree(n) ==
    /\ ring[n].st = "busy" /\ ring[n].type = "free"
    /\ Ready(n)
    /\ place' = [place EXCEPT ![ring[n].ptr] = "none"]
    /\ UNCHANGED <<id, sizes, acts, act, probing, active, handler, seen, together, missed,
                   unheard, runs>>

(* activity_perform_start; the handler reads no other field of its record. *)
StartActivity ==
    /\ act < MaxStarts
    /\ act' = act + 1
    /\ IF probing /\ Room
          THEN /\ ring' = Append(ring, Record("start", NoPtr, 0, 0, act + 1))
               /\ UNCHANGED unheard
          ELSE unheard' = TRUE /\ UNCHANGED ring
    /\ UNCHANGED <<place, id, sizes, acts, probing, active, handler, seen, together, missed,
                   runs>>

SubmitStart(n) ==
    /\ ring[n].st = "busy" /\ ring[n].type = "start"
    /\ Ready(n)
    /\ UNCHANGED <<app, probing, active, handler, seen, together, missed, unheard, runs>>

-------------------------------------------------------------------------------
(* The handler: on_item for the oldest record of the ring.                 *)

Reported(f) == {f[p] : p \in DOMAIN f}
Without(f, p) == [q \in DOMAIN f \ {p} |-> f[q]]

Taken(n) == ring' = SubSeq(ring, 1, n - 1) \o SubSeq(ring, n + 1, Len(ring))
Quiet == UNCHANGED <<app, probing, active, together, missed, unheard, runs>>

\* Mutant of Oldest: a committed record is taken from behind a busy one.
AnyReady(n, type) ==
    probing /\ ring[n].st = "ready" /\ ring[n].type = type

Oldest(n, type) ==
    probing /\ n = 1 /\ ring[n].st = "ready" /\ ring[n].type = type

Remember(n) ==
    bitmaps' = [p \in DOMAIN bitmaps \cup {ring[n].ptr} |->
                  IF p = ring[n].ptr THEN [id |-> ring[n].id, act |-> activity]
                  ELSE bitmaps[p]]

\* Mutant of HandleAlloc: the snapshot is added to.
HandleAllocAdding(n) ==
    /\ Oldest(n, "alloc")
    /\ Remember(n)
    /\ current' = current + ring[n].size
    /\ IF current' > max
          THEN max' = current' /\ snapshot' = snapshot \cup Reported(bitmaps')
          ELSE UNCHANGED <<max, snapshot>>
    /\ seen' = seen \cup {ring[n].id}
    /\ Taken(n)
    /\ Quiet /\ UNCHANGED activity

HandleAlloc(n) ==
    /\ Oldest(n, "alloc")
    /\ Remember(n)
    /\ current' = current + ring[n].size
    /\ IF current' > max
          THEN max' = current' /\ snapshot' = Reported(bitmaps')
          ELSE UNCHANGED <<max, snapshot>>
    /\ seen' = seen \cup {ring[n].id}
    /\ Taken(n)
    /\ Quiet /\ UNCHANGED activity

\* Mutant of HandleFree: only the total is kept up.
HandleFreeTotal(n) ==
    /\ Oldest(n, "free")
    /\ current' = current - ring[n].size
    /\ Taken(n)
    /\ Quiet /\ UNCHANGED <<bitmaps, max, snapshot, activity, seen>>

HandleFree(n) ==
    /\ Oldest(n, "free")
    /\ bitmaps' = Without(bitmaps, ring[n].ptr)
    /\ current' = current - ring[n].size
    /\ Taken(n)
    /\ Quiet /\ UNCHANGED <<max, snapshot, activity, seen>>

\* Mutant of HandleStart: a new activity does not replace the first one.
HandleFirstStart(n) ==
    /\ Oldest(n, "start")
    /\ activity' = IF activity = 0 THEN ring[n].act ELSE activity
    /\ Taken(n)
    /\ Quiet /\ UNCHANGED <<bitmaps, max, current, snapshot, seen>>

HandleStart(n) ==
    /\ Oldest(n, "start")
    /\ activity' = ring[n].act
    /\ Taken(n)
    /\ Quiet /\ UNCHANGED <<bitmaps, max, current, snapshot, seen>>

(* The run ends: on_finished reports snapshot and bitmaps, the process and *)
(* its probes go.  Ring and active_bitmaps are pinned.                     *)
EndRun ==
    /\ probing
    /\ probing' = FALSE
    /\ UNCHANGED <<app, active, ring, handler, seen, together, missed, unheard, runs>>

StartRun ==
    /\ ~probing
    /\ runs < MaxRuns
    /\ runs' = runs + 1
    /\ probing' = TRUE
    /\ bitmaps' = NoMeta /\ max' = 0 /\ current' = 0 /\ snapshot' = {} /\ activity' = 0
    /\ seen' = {}
    /\ unheard' = (act > 0)
    /\ UNCHANGED <<app, active, ring, together, missed>>

-------------------------------------------------------------------------------
AppStep ==
    \/ \E p \in Ptrs, s \in Sizes : Create(p, s)
    \/ \E p \in Ptrs : Free(p)
    \/ StartActivity
    \/ \E n \in DOMAIN ring : SubmitCreate(n) \/ SubmitFree(n) \/ SubmitStart(n)

HandlerStep == \E n \in DOMAIN ring : HandleAlloc(n) \/ HandleFree(n) \/ HandleStart(n)

Next == AppStep \/ HandlerStep \/ EndRun \/ StartRun

Spec == Init /\ [][Next]_vars

-------------------------------------------------------------------------------
Meta == [id : 1 .. MaxBitmaps, act : 0 .. MaxStarts]

TypeOK ==
    /\ place \in [Ptrs -> {"none", "creating", "live", "freeing"}]
    /\ id \in [Ptrs -> 0 .. MaxBitmaps]
    /\ sizes \in Seq(Sizes) /\ acts \in Seq(Nat)
    /\ act \in 0 .. MaxStarts
    /\ probing \in BOOLEAN
    /\ active \subseteq Ptrs /\ Cardinality(active) <= ActiveCap
    /\ ring \in Seq([st : {"busy", "ready"}, type : {"alloc", "free", "start"},
                     ptr : Ptrs \cup {NoPtr}, id : 0 .. MaxBitmaps,
                     size : Sizes \cup Residue \cup {0}, act : 0 .. MaxStarts])
    /\ Len(ring) <= RingCap
    /\ DOMAIN bitmaps \subseteq Ptrs /\ Reported(bitmaps) \subseteq Meta
    /\ snapshot \subseteq Meta
    /\ max \in Nat /\ current \in Int /\ current <= max
    /\ activity \in 0 .. MaxStarts
    /\ seen \subseteq 1 .. MaxBitmaps
    /\ together \subseteq SUBSET (1 .. MaxBitmaps)
    /\ missed \in BOOLEAN /\ unheard \in BOOLEAN
    /\ runs \in 1 .. MaxRuns

(***************************************************************************)
(* A bitmap whose allocation this run has handled is reported for as long  *)
(* as it lives, under its own id: no record that was dropped, left by an   *)
(* earlier run or written for an earlier bitmap at the same address takes  *)
(* it out of the handler's map.                                            *)
(***************************************************************************)
LiveReported ==
    \A p \in Ptrs :
        place[p] \in {"creating", "live"} /\ id[p] \in seen =>
            p \in DOMAIN bitmaps /\ bitmaps[p].id = id[p]

(***************************************************************************)
(* As long as no free went unrecorded, every bitmap the random sample      *)
(* would report is alive, or its free is still waiting in the ring.        *)
(***************************************************************************)
NoPhantoms ==
    ~missed =>
        \A p \in DOMAIN bitmaps :
            \/ place[p] # "none" /\ bitmaps[p].id = id[p]
            \/ \E n \in DOMAIN ring : ring[n].type = "free" /\ ring[n].ptr = p

(***************************************************************************)
(* The snapshot of the maximum is a moment of the app: any two bitmaps it  *)
(* reports were alive at the same time.                                    *)
(***************************************************************************)
SnapshotCoexisted ==
    ~missed => \A x, y \in snapshot : {x.id, y.id} \in together

(***************************************************************************)
(* A bitmap is reported with the activity that had been started last when  *)
(* it was created, however late its record is handled, as long as every    *)
(* start was recorded.                                                     *)
(***************************************************************************)
ActivityAtCreation ==
    ~unheard => \A m \in Reported(bitmaps) \cup snapshot : m.act = acts[m.id]

(***************************************************************************)
(* SNAPSHOT_TYPE_MAX_ALLOCATION_SIZE, bitmap_snapshot_at_max_size: the     *)
(* bitmaps of the snapshot are together at least as large as those the     *)
(* handler knows of at any later time.                                     *)
(***************************************************************************)
Total(reported) == MapThenSumSet(LAMBDA m : sizes[m.id], reported)

SnapshotAtMax == Total(Reported(bitmaps)) <= Total(snapshot)

===============================================================================
