------------------------------ MODULE EventQueue ------------------------------
(***************************************************************************)
(* What a BPF ring buffer promises the code that drains it, without        *)
(* positions, memory or locks: events are posted, settle in any order, are *)
(* taken strictly from the front, and what was taken is handed to a caller *)
(* in order or is dropped together with the rest of its batch.             *)
(*                                                                         *)
(* An event is a record whose "st" is busy until its producer settles it.  *)
(* Only "ready" events are handed over; "discard" (the producer gave it    *)
(* up) and "bad" (not of the reader's size) events are passed over.        *)
(***************************************************************************)
EXTENDS Naturals, Sequences

CONSTANT MaxRecords     \* bound on the events ever posted

VARIABLES
    posted,     \* how many events were ever posted; event i is the i-th
    pending,    \* the events not taken yet, oldest first: [id, st]
    taken,      \* ids taken by the reader and not handed over yet
    returned    \* ids handed to callers, in order

vars == <<posted, pending, taken, returned>>

Settled == {"ready", "discard", "bad"}

Init ==
    /\ posted = 0
    /\ pending = <<>>
    /\ taken = <<>>
    /\ returned = <<>>

Post ==
    /\ posted < MaxRecords
    /\ posted' = posted + 1
    /\ pending' = Append(pending, [id |-> posted + 1, st |-> "busy"])
    /\ UNCHANGED <<taken, returned>>

Settle ==
    /\ \E k \in DOMAIN pending, s \in Settled :
        /\ pending[k].st = "busy"
        /\ pending' = [pending EXCEPT ![k].st = s]
    /\ UNCHANGED <<posted, taken, returned>>

(* The oldest event leaves the queue, never one behind an unsettled event. *)
Take ==
    /\ pending # <<>>
    /\ Head(pending).st = "ready"
    /\ pending' = Tail(pending)
    /\ taken' = Append(taken, Head(pending).id)
    /\ UNCHANGED <<posted, returned>>

PassOver ==
    /\ pending # <<>>
    /\ Head(pending).st = "discard"
    /\ pending' = Tail(pending)
    /\ UNCHANGED <<posted, taken, returned>>

Return ==
    /\ taken # <<>>
    /\ returned' = returned \o taken
    /\ taken' = <<>>
    /\ UNCHANGED <<posted, pending>>

(* A read that meets an event of another size fails: the event is removed  *)
(* and everything the failed read had taken is lost with it.               *)
Fail ==
    /\ pending # <<>>
    /\ Head(pending).st = "bad"
    /\ pending' = Tail(pending)
    /\ taken' = <<>>
    /\ UNCHANGED <<posted, returned>>

(* The reader dies: what it had taken dies with it, the queue stays.       *)
Crash ==
    /\ taken # <<>>
    /\ taken' = <<>>
    /\ UNCHANGED <<posted, pending, returned>>

Next == Post \/ Settle \/ Take \/ PassOver \/ Return \/ Fail \/ Crash

Spec == Init /\ [][Next]_vars

===============================================================================
