-------------------------------- MODULE BpfMap --------------------------------
(***************************************************************************)
(* BpfMap.h: the wrapper through which processes use a pinned hash map,    *)
(* one system call at a time.  iterate and iterateWithValue walk the map   *)
(* by next key and hand every key to a filter, which may delete or rewrite *)
(* it; clear deletes the first key until there is none.  Nothing locks the *)
(* map meanwhile: every process may write and delete between two calls of  *)
(* another.                                                                *)
(*                                                                         *)
(* The kernel's table is the relation "before": buckets in their order,    *)
(* and within a bucket the key written last in front.                      *)
(***************************************************************************)
EXTENDS Integers, FiniteSets, Functions

CONSTANTS
    Keys,
    Bucket,         \* of each key
    MaxEntries,     \* what the map holds
    Procs,          \* processes with the map open
    Filters,        \* what the filters of a process do
    NoKey,          \* the error ENOENT in place of a key
    BadKey,         \* any other error in place of a key
    MaxWrites, MaxFaults, MaxCalls  \* bounds

ASSUME BpfMapAssumption ==
    /\ Bucket \in [Keys -> Nat]
    /\ MaxEntries \in Nat
    /\ Filters \in [Procs -> SUBSET {"look", "delete", "rewrite", "stop"}]
    /\ NoKey \notin Keys /\ BadKey \notin Keys /\ NoKey # BadKey
    /\ MaxWrites \in Nat /\ MaxFaults \in Nat /\ MaxCalls \in Nat

VARIABLES
    present,    \* the keys in the map
    before,     \* the order in which BPF_MAP_GET_NEXT_KEY finds them
    pc,         \* where each process is in its call
    op,         \* the call: the filter of an iteration, or "clear"
    valued,     \* it is iterateWithValue
    cur, nxt,   \* curKey and nextKey
    result,     \* of the call
    seen,       \* history: keys handed to the filter
    again,      \* history: keys handed to it a second time
    steady,     \* history: keys there since the call began, not written since
    others,     \* history: what other processes did meanwhile
    writes, faults, calls

table == <<present, before>>
call == <<op, valued>>
cursor == <<cur, nxt>>
history == <<seen, again, steady, others>>
bounds == <<writes, faults, calls>>
vars == <<table, pc, call, cursor, result, history, bounds>>

(* Keys in the order of their buckets, and by rank within one.             *)
Ordered(keys, rank) ==
    {pair \in keys \X keys :
        \/ Bucket[pair[1]] < Bucket[pair[2]]
        \/ Bucket[pair[1]] = Bucket[pair[2]] /\ rank[pair[1]] < rank[pair[2]]}

(* The processes find a map that others have filled, in any order.         *)
Init ==
    /\ present \in {keys \in SUBSET Keys : Cardinality(keys) <= MaxEntries}
    /\ \E rank \in Injection(Keys, 1 .. Cardinality(Keys)) : before = Ordered(present, rank)
    /\ pc = [p \in Procs |-> "idle"]
    /\ op = [p \in Procs |-> "look"] /\ valued = [p \in Procs |-> FALSE]
    /\ cur = [p \in Procs |-> NoKey] /\ nxt = [p \in Procs |-> NoKey]
    /\ result = [p \in Procs |-> "none"]
    /\ seen = [p \in Procs |-> {}] /\ again = [p \in Procs |-> {}]
    /\ steady = [p \in Procs |-> {}] /\ others = [p \in Procs |-> {}]
    /\ writes = 0 /\ faults = 0
    /\ calls = [p \in Procs |-> 0]

Fault == faults < MaxFaults /\ faults' = faults + 1

-------------------------------------------------------------------------------
(* The kernel's side.  A key that is written goes to the front of its      *)
(* bucket, wherever it was.                                                *)

Without(k) == {pair \in before : k \notin {pair[1], pair[2]}}

Stored(k) ==
    /\ present' = present \cup {k}
    /\ before' = Without(k) \cup {<<k, j>> : j \in {i \in present \ {k} : Bucket[k] <= Bucket[i]}}
                            \cup {<<j, k>> : j \in {i \in present \ {k} : Bucket[i] < Bucket[k]}}

Removed(k) == present' = present \ {k} /\ before' = Without(k)

(* What the calls that are under way have to say about it.                 *)
Changed(p, k, what) ==
    /\ steady' = [q \in Procs |-> steady[q] \ {k}]
    /\ others' = [q \in Procs |-> IF q = p THEN others[q] ELSE others[q] \cup {what}]

IsFirst(k) == k \in present /\ \A j \in present : <<j, k>> \notin before

(* BPF_MAP_GET_NEXT_KEY: a key that is not there has the first key next.   *)
IsNext(k, j) ==
    IF k \in present
    THEN <<k, j>> \in before /\ \A i \in present : ~(<<k, i>> \in before /\ <<i, j>> \in before)
    ELSE IsFirst(j)

IsLast(k) ==
    IF k \in present THEN \A j \in present : <<k, j>> \notin before ELSE present = {}

-------------------------------------------------------------------------------
(* writeValue and deleteValue, by a process that is not in another call.   *)

Write(p, k) ==
    /\ pc[p] = "idle"
    /\ writes < MaxWrites
    /\ writes' = writes + 1
    /\ k \in present \/ Cardinality(present) < MaxEntries
    /\ Stored(k)
    /\ Changed(p, k, "write")
    /\ UNCHANGED <<pc, call, cursor, result, seen, again, faults, calls>>

Delete(p, k) ==
    /\ pc[p] = "idle"
    /\ writes < MaxWrites
    /\ writes' = writes + 1
    /\ k \in present
    /\ Removed(k)
    /\ Changed(p, k, "delete")
    /\ UNCHANGED <<pc, call, cursor, result, seen, again, faults, calls>>

-------------------------------------------------------------------------------
Goto(p, place) == pc' = [pc EXCEPT ![p] = place]

Finish(p, res) == Goto(p, "done") /\ result' = [result EXCEPT ![p] = res]

Begin(p, what, value, place) ==
    /\ pc[p] = "idle"
    /\ calls[p] < MaxCalls
    /\ calls' = [calls EXCEPT ![p] = @ + 1]
    /\ op' = [op EXCEPT ![p] = what]
    /\ valued' = [valued EXCEPT ![p] = value]
    /\ Goto(p, place)
    /\ seen' = [seen EXCEPT ![p] = {}] /\ again' = [again EXCEPT ![p] = {}]
    /\ steady' = [steady EXCEPT ![p] = present]
    /\ others' = [others EXCEPT ![p] = {}]
    /\ UNCHANGED <<table, cursor, result, writes, faults>>

Iterate(p, filter, value) == filter \in Filters[p] /\ Begin(p, filter, value, "first")
Clear(p) == Begin(p, "clear", FALSE, "first")

Looping(p) == IF op[p] = "clear" THEN "delete" ELSE "next"

GetFirstKey(p) ==
    /\ pc[p] = "first"
    /\ \E k \in Keys :
          /\ IsFirst(k)
          /\ cur' = [cur EXCEPT ![p] = k]
    /\ Goto(p, Looping(p))
    /\ UNCHANGED <<table, call, nxt, result, history, bounds>>

(* ENOENT is how an empty map, and the end of one, look.                   *)
NoFirstKey(p) ==
    /\ pc[p] = "first"
    /\ present = {}
    /\ Finish(p, "ok")
    /\ UNCHANGED <<table, call, cursor, history, bounds>>

Fetched(p) == Goto(p, IF valued[p] THEN "read" ELSE "filter")

(* The next key is asked for before the filter gets the current one.  An   *)
(* error is kept in nextKey until the filter has been called.              *)
GetNextKey(p) ==
    /\ pc[p] = "next"
    /\ \/ /\ \E k \in Keys : IsNext(cur[p], k) /\ nxt' = [nxt EXCEPT ![p] = k]
          /\ UNCHANGED faults
       \/ IsLast(cur[p]) /\ nxt' = [nxt EXCEPT ![p] = NoKey] /\ UNCHANGED faults
       \/ Fault /\ nxt' = [nxt EXCEPT ![p] = BadKey]
    /\ Fetched(p)
    /\ UNCHANGED <<table, call, cur, result, history, writes, calls>>

\* Mutant of ReadValue: an entry that is gone ends the iteration like the last.
ReadValueLenient(p) ==
    /\ pc[p] = "read"
    /\ IF cur[p] \in present THEN Goto(p, "filter") /\ UNCHANGED result ELSE Finish(p, "ok")
    /\ UNCHANGED <<table, call, cursor, history, bounds>>

(* iterateWithValue: the entry may be gone since its key was found.        *)
ReadValue(p) ==
    /\ pc[p] = "read"
    /\ IF cur[p] \in present THEN Goto(p, "filter") /\ UNCHANGED result ELSE Finish(p, "ENOENT")
    /\ UNCHANGED <<table, call, cursor, history, bounds>>

(* curKey = nextKey, and the end of the loop.                              *)
Advance(p) ==
    /\ cur' = [cur EXCEPT ![p] = nxt[p]]
    /\ CASE nxt[p] = NoKey  -> Finish(p, "ok")
         [] nxt[p] = BadKey -> Finish(p, "error")
         [] OTHER           -> Goto(p, "next") /\ UNCHANGED result

Handed(p) ==
    /\ pc[p] = "filter"
    /\ seen' = [seen EXCEPT ![p] = @ \cup {cur[p]}]
    /\ again' = [again EXCEPT ![p] = @ \cup ({cur[p]} \cap seen[p])]

FilterLooks(p) ==
    /\ op[p] = "look"
    /\ Handed(p)
    /\ Advance(p)
    /\ UNCHANGED <<table, call, nxt, steady, others, bounds>>

\* Mutant of FilterChanges: the walk starts over when the map has changed.
FilterChangesRestart(p) ==
    /\ op[p] \in {"delete", "rewrite"}
    /\ cur[p] \in present
    /\ Handed(p)
    /\ IF op[p] = "delete"
          THEN Removed(cur[p]) /\ Changed(p, cur[p], "delete")
          ELSE Stored(cur[p]) /\ Changed(p, cur[p], "write")
    /\ Goto(p, "first")
    /\ UNCHANGED <<call, cursor, result, bounds>>

(* The filter calls deleteValue, or writeValue with BPF_EXIST, on the key. *)
FilterChanges(p) ==
    /\ op[p] \in {"delete", "rewrite"}
    /\ cur[p] \in present
    /\ Handed(p)
    /\ IF op[p] = "delete"
          THEN Removed(cur[p]) /\ Changed(p, cur[p], "delete")
          ELSE Stored(cur[p]) /\ Changed(p, cur[p], "write")
    /\ Advance(p)
    /\ UNCHANGED <<call, nxt, bounds>>

(* The entry is gone: the filter's error is the result of the iteration.   *)
FilterLate(p) ==
    /\ op[p] \in {"delete", "rewrite"}
    /\ cur[p] \notin present
    /\ Handed(p)
    /\ Finish(p, "ENOENT")
    /\ UNCHANGED <<table, call, cursor, steady, others, bounds>>

FilterStops(p) ==
    /\ op[p] = "stop"
    /\ Handed(p)
    /\ Finish(p, "error")
    /\ UNCHANGED <<table, call, cursor, steady, others, bounds>>

\* Mutant of ClearDelete: a key that is gone ends the call.
ClearDeleteStrict(p) ==
    /\ pc[p] = "delete"
    /\ IF cur[p] \in present
          THEN Removed(cur[p]) /\ Changed(p, cur[p], "delete") /\ Goto(p, "first")
               /\ UNCHANGED result
          ELSE Finish(p, "ENOENT") /\ UNCHANGED <<table, steady, others>>
    /\ UNCHANGED <<call, cursor, seen, again, bounds>>

(* "Someone else could have deleted the key, so ignore ENOENT".            *)
ClearDelete(p) ==
    /\ pc[p] = "delete"
    /\ IF cur[p] \in present
          THEN Removed(cur[p]) /\ Changed(p, cur[p], "delete")
          ELSE UNCHANGED <<table, steady, others>>
    /\ Goto(p, "first")
    /\ UNCHANGED <<call, cursor, result, seen, again, bounds>>

(* Any other error of a call than ENOENT.                                  *)
CallFails(p) ==
    /\ pc[p] \in {"first", "read", "delete"}
    /\ Fault
    /\ Finish(p, "error")
    /\ UNCHANGED <<table, call, cursor, history, writes, calls>>

Return(p) ==
    /\ pc[p] = "done"
    /\ Goto(p, "idle")
    /\ op' = [op EXCEPT ![p] = "look"] /\ valued' = [valued EXCEPT ![p] = FALSE]
    /\ cur' = [cur EXCEPT ![p] = NoKey] /\ nxt' = [nxt EXCEPT ![p] = NoKey]
    /\ result' = [result EXCEPT ![p] = "none"]
    /\ seen' = [seen EXCEPT ![p] = {}] /\ again' = [again EXCEPT ![p] = {}]
    /\ steady' = [steady EXCEPT ![p] = {}] /\ others' = [others EXCEPT ![p] = {}]
    /\ UNCHANGED <<table, bounds>>

Step(p) ==
    \/ GetFirstKey(p) \/ NoFirstKey(p) \/ GetNextKey(p) \/ ReadValue(p)
    \/ FilterLooks(p) \/ FilterChanges(p) \/ FilterLate(p) \/ FilterStops(p)
    \/ ClearDelete(p) \/ CallFails(p) \/ Return(p)

Next ==
    \E p \in Procs :
        \/ \E k \in Keys : Write(p, k) \/ Delete(p, k)
        \/ \E filter \in Filters[p], value \in BOOLEAN : Iterate(p, filter, value)
        \/ Clear(p)
        \/ Step(p)

Spec == Init /\ [][Next]_vars

FairSpec == Spec /\ \A p \in Procs : WF_vars(Step(p))

-------------------------------------------------------------------------------
Places == {"idle", "first", "next", "read", "filter", "delete", "done"}

TypeOK ==
    /\ present \subseteq Keys
    /\ before \subseteq present \X present
    /\ pc \in [Procs -> Places]
    /\ op \in [Procs -> {"look", "delete", "rewrite", "stop", "clear"}]
    /\ valued \in [Procs -> BOOLEAN]
    /\ cur \in [Procs -> Keys \cup {NoKey, BadKey}]
    /\ nxt \in [Procs -> Keys \cup {NoKey, BadKey}]
    /\ result \in [Procs -> {"none", "ok", "ENOENT", "error"}]
    /\ seen \in [Procs -> SUBSET Keys] /\ again \in [Procs -> SUBSET Keys]
    /\ steady \in [Procs -> SUBSET Keys]
    /\ others \in [Procs -> SUBSET {"write", "delete"}]
    /\ writes \in 0 .. MaxWrites /\ faults \in 0 .. MaxFaults
    /\ calls \in [Procs -> 0 .. MaxCalls]

(***************************************************************************)
(* An iteration that succeeds has handed to its filter every key that was  *)
(* in the map all along, however often entries around it were deleted,     *)
(* added or moved and the walk sent back to the first key; a clear that    *)
(* succeeds has left none of those it found.                               *)
(***************************************************************************)
StableSeen == \A p \in Procs : result[p] = "ok" => steady[p] \subseteq seen[p]

(***************************************************************************)
(* "the iteration can return duplicate entries" (BpfMap.h) only when other *)
(* processes change the map meanwhile: a filter that deletes or rewrites   *)
(* the key it is given never makes the walk come back to one.              *)
(***************************************************************************)
OnceUnlessDisturbed == \A p \in Procs : again[p] # {} => others[p] # {}

(***************************************************************************)
(* BpfMapTest's iterate and iterateWithValue: after a successful iteration *)
(* whose filter deletes every key, and after a clear, the map is empty,    *)
(* unless somebody else has written to it.                                 *)
(***************************************************************************)
EmptiedByDeletion ==
    \A p \in Procs :
        result[p] = "ok" /\ op[p] \in {"delete", "clear"} /\ "write" \notin others[p]
            => present = {}

(***************************************************************************)
(* ENOENT comes out of a call only where another process deleted the entry *)
(* the iteration stood on; clear takes a lost race for done work.          *)
(***************************************************************************)
LostRaceOnly ==
    \A p \in Procs : result[p] = "ENOENT" => "delete" \in others[p] /\ op[p] # "clear"

(* Every call returns: deletions by others send a walk back to the first   *)
(* key, but only writes could keep it, or a clear, going for ever.         *)
CallsEnd == \A p \in Procs : pc[p] = "first" ~> pc[p] = "idle"

===============================================================================
