---------------------------- MODULE BpfMapProofs ----------------------------
(***************************************************************************)
(* What a call that succeeds has seen and left behind, for any keys and    *)
(* buckets, any number of processes and of writes, faults and calls.       *)
(***************************************************************************)
EXTENDS BpfMap, TLAPS

(* The table is a strict order of the keys in the map that follows the     *)
(* buckets.                                                                *)
Order ==
    /\ \A i \in present : <<i, i>> \notin before
    /\ \A i, j \in present : i # j => <<i, j>> \in before \/ <<j, i>> \in before
    /\ \A i, j, l \in present :
          <<i, j>> \in before /\ <<j, l>> \in before => <<i, l>> \in before
    /\ \A i, j \in present : <<i, j>> \in before => Bucket[i] <= Bucket[j]

Walking(p) == pc[p] \in {"next", "read", "filter"}
HasNext(p) == pc[p] \in {"read", "filter"}

(* A walk that stands on c will come to s.  The comparison of the buckets  *)
(* is what survives the deletion of c and makes c come back before s.      *)
After(c, s) == Bucket[c] <= Bucket[s] /\ (c \in present => <<c, s>> \in before)

(* StableSeen: whatever has been there all along and was not handed out    *)
(* lies under the cursor or ahead of it.                                   *)
Covered(p) ==
    /\ steady[p] \subseteq present
    /\ pc[p] = "delete" => cur[p] \in Keys
    /\ Walking(p) => cur[p] \in Keys
    /\ Walking(p) =>
          \A s \in steady[p] : s \in seen[p] \/ s = cur[p] \/ After(cur[p], s)
    /\ HasNext(p) =>
          \A s \in steady[p] :
              \/ s \in seen[p] \/ s = cur[p]
              \/ nxt[p] = BadKey
              \/ nxt[p] \in Keys /\ (s = nxt[p] \/ After(nxt[p], s))
    /\ pc[p] # "done" => result[p] = "none"
    /\ result[p] = "ok" => steady[p] \subseteq seen[p]

(* OnceUnlessDisturbed: left alone, a walk has behind it what it has seen. *)
Forward(p) ==
    /\ again[p] # {} => others[p] # {}
    /\ pc[p] \in {"first", "delete"} => seen[p] = {}
    /\ others[p] = {} /\ Walking(p) =>
          /\ cur[p] \in present
          /\ \A s \in seen[p] : s \in present => <<s, cur[p]>> \in before
    /\ others[p] = {} /\ Walking(p) => cur[p] \notin seen[p]
    /\ others[p] = {} /\ HasNext(p) /\ nxt[p] \in Keys =>
          nxt[p] \in present /\ <<cur[p], nxt[p]>> \in before /\ nxt[p] \notin seen[p]

(* LostRaceOnly                                                            *)
Found(p) ==
    /\ result[p] = "ENOENT" => "delete" \in others[p]
    /\ result[p] = "ENOENT" => op[p] # "clear"
    /\ Walking(p) => op[p] # "clear"
    /\ "delete" \notin others[p] /\ Walking(p) => cur[p] \in present
    /\ "delete" \notin others[p] /\ HasNext(p) /\ nxt[p] \in Keys =>
          nxt[p] \in present /\ nxt[p] # cur[p]

(* EmptiedByDeletion: without writes, what is there has been there all     *)
(* along, and none of it has been handed out.                              *)
Emptied(p) ==
    op[p] \in {"delete", "clear"} /\ "write" \notin others[p] /\ pc[p] # "idle" =>
        present \subseteq steady[p] /\ seen[p] \cap present = {}

ProcInv(p) == Covered(p) /\ Forward(p) /\ Found(p) /\ Emptied(p)

Inv == TypeOK /\ Order /\ \A p \in Procs : ProcInv(p)

LEMMA InvInit == Init => Inv
<1> SUFFICES ASSUME Init PROVE Inv
    OBVIOUS
<1>1. TypeOK
    BY BpfMapAssumption DEF Init, TypeOK, Places, Ordered
<1>2. Order
    <2>1. PICK rank \in Injection(Keys, 1 .. Cardinality(Keys)) : before = Ordered(present, rank)
        BY DEF Init
    <2>2. /\ \A i \in Keys : rank[i] \in Int
          /\ \A i, j \in Keys : i # j => rank[i] # rank[j]
        BY DEF Injection, IsInjective
    <2>3. present \subseteq Keys /\ \A i \in Keys : Bucket[i] \in Int
        BY BpfMapAssumption DEF Init
    <2>4. \A i, j \in present : <<i, j>> \in before <=>
              Bucket[i] < Bucket[j] \/ (Bucket[i] = Bucket[j] /\ rank[i] < rank[j])
        BY <2>1 DEF Ordered
    <2> HIDE DEF Init
    <2>5. QED
        BY <2>2, <2>3, <2>4 DEF Order
<1>3. \A p \in Procs : ProcInv(p)
    BY DEF Init, ProcInv, Covered, Forward, Found, Emptied, Walking, HasNext
<1>4. QED
    BY <1>1, <1>2, <1>3 DEF Inv

(* A write or a deletion leaves an order.                                  *)
LEMMA OrderStored ==
    ASSUME TypeOK, Order, NEW k \in Keys, Stored(k)
    PROVE  Order' /\ present' \subseteq Keys /\ before' \subseteq present' \X present'
<1>1. /\ present' = present \cup {k} /\ present' \subseteq Keys
      /\ \A i \in Keys : Bucket[i] \in Int
    BY BpfMapAssumption DEF TypeOK, Stored
<1>2. before' \subseteq present' \X present'
    BY <1>1 DEF Stored, Without, TypeOK
<1>3. ASSUME NEW i \in present', NEW j \in present'
      PROVE  <<i, j>> \in before' <=>
                \/ i # k /\ j # k /\ <<i, j>> \in before
                \/ i = k /\ j # k /\ Bucket[k] <= Bucket[j]
                \/ j = k /\ i # k /\ Bucket[i] < Bucket[k]
    BY <1>1, <1>3 DEF Stored, Without
<1>4. ASSUME NEW i \in present, NEW j \in present, <<i, j>> \in before
      PROVE  Bucket[i] <= Bucket[j]
    BY <1>4 DEF Order
<1>5. \A i \in present' : <<i, i>> \notin before'
    BY <1>1, <1>3 DEF Order
<1>6. ASSUME NEW i \in present', NEW j \in present', i # j
      PROVE  <<i, j>> \in before' \/ <<j, i>> \in before'
    <2>1. Bucket[i] \in Int /\ Bucket[j] \in Int
        BY <1>1
    <2>2. CASE i = k \/ j = k
        BY <1>3, <1>6, <2>1, <2>2
    <2>3. CASE i # k /\ j # k
        <3>1. <<i, j>> \in before \/ <<j, i>> \in before
            BY <1>1, <1>6, <2>3 DEF Order
        <3>2. QED
            BY <1>3, <2>3, <3>1
    <2>4. QED
        BY <2>2, <2>3
<1>7. ASSUME NEW i \in present', NEW j \in present', NEW l \in present',
             <<i, j>> \in before', <<j, l>> \in before'
      PROVE  <<i, l>> \in before'
    <2>1. CASE i # k /\ j # k /\ l # k
        BY <1>1, <1>3, <1>7, <2>1 DEF Order
    <2>2. CASE i = k \/ j = k \/ l = k
        <3>1. \A x, y \in present' : x # k /\ y # k /\ <<x, y>> \in before' =>
                  Bucket[x] <= Bucket[y]
            BY <1>1, <1>3, <1>4
        <3>2. i # j /\ j # l
            BY <1>3, <1>5, <1>7
        <3>3. CASE i = k
            BY <1>1, <1>3, <1>7, <3>1, <3>2, <3>3
        <3>4. CASE j = k
            <4>1. /\ i \in present /\ l \in present /\ i # k /\ l # k
                  /\ Bucket[i] < Bucket[l]
                BY <1>1, <1>3, <1>7, <3>2, <3>4
            <4>2. Bucket[i] \in Int /\ Bucket[l] \in Int
                BY <1>1
            <4>3. i # l /\ <<l, i>> \notin before
                BY <1>4, <4>1, <4>2
            <4>4. <<i, l>> \in before
                BY <4>1, <4>3 DEF Order
            <4>5. QED
                BY <1>3, <4>1, <4>4
        <3>5. CASE l = k
            BY <1>1, <1>3, <1>7, <3>1, <3>2, <3>5
        <3>6. QED
            BY <2>2, <3>3, <3>4, <3>5
    <2>3. QED
        BY <2>1, <2>2
<1>8. \A i, j \in present' : <<i, j>> \in before' => Bucket[i] <= Bucket[j]
    BY <1>1, <1>3, <1>4
<1>9. QED
    BY <1>1, <1>2, <1>5, <1>6, <1>7, <1>8 DEF Order

LEMMA OrderRemoved ==
    ASSUME TypeOK, Order, NEW k \in Keys, Removed(k)
    PROVE  Order' /\ present' \subseteq Keys /\ before' \subseteq present' \X present'
<1>1. present' = present \ {k} /\ present' \subseteq Keys
    BY DEF TypeOK, Removed
<1>2. before' \subseteq present' \X present'
    BY <1>1 DEF Removed, Without, TypeOK
<1>3. \A i, j \in present' : <<i, j>> \in before' <=> <<i, j>> \in before
    BY <1>1 DEF Removed, Without
<1>4. QED
    BY <1>1, <1>2, <1>3 DEF Order

(* What lies ahead of a cursor stays ahead of it while other keys, or the  *)
(* key under the cursor, are written and deleted.                          *)
LEMMA AfterKept ==
    ASSUME TypeOK, NEW k \in Keys, Stored(k) \/ Removed(k),
           NEW c \in Keys, NEW s \in present, s # k, After(c, s)
    PROVE  After(c, s)'
<1>1. CASE c = k
    BY <1>1 DEF After, Stored, Removed
<1>2. CASE c # k
    BY <1>2 DEF After, Stored, Removed, Without
<1>3. QED
    BY <1>1, <1>2

(* What belongs to a process and no other touches.                         *)
Kept(q) ==
    /\ pc'[q] = pc[q] /\ op'[q] = op[q]
    /\ cur'[q] = cur[q] /\ nxt'[q] = nxt[q] /\ result'[q] = result[q]
    /\ seen'[q] = seen[q] /\ again'[q] = again[q]

LEMMA Undisturbed ==
    ASSUME TypeOK, NEW q \in Procs, ProcInv(q), UNCHANGED table, Kept(q),
           steady'[q] = steady[q], others'[q] = others[q]
    PROVE  ProcInv(q)'
<1>1. Covered(q)'
    BY DEF ProcInv, Covered, Kept, Walking, HasNext, After, table
<1>2. Forward(q)'
    BY DEF ProcInv, Forward, Kept, Walking, HasNext, table
<1>3. Found(q)'
    BY DEF ProcInv, Found, Kept, Walking, HasNext, table
<1>4. Emptied(q)'
    BY DEF ProcInv, Emptied, Kept, table
<1>5. QED
    BY <1>1, <1>2, <1>3, <1>4 DEF ProcInv

(* A key is written or deleted by another process, or by the process       *)
(* itself outside of a call.                                               *)
LEMMA Disturbed ==
    ASSUME TypeOK, Order, NEW p \in Procs, NEW q \in Procs, ProcInv(q), NEW k \in Keys,
           \/ Stored(k) /\ Changed(p, k, "write")
           \/ Removed(k) /\ Changed(p, k, "delete"),
           Kept(q), q # p \/ pc[q] = "idle"
    PROVE  ProcInv(q)'
<1>1. /\ steady'[q] = steady[q] \ {k}
      /\ q # p => others'[q] # {}
      /\ q = p => others'[q] = others[q]
      /\ others[q] \subseteq others'[q]
    <2>1. PICK what \in {"write", "delete"} : Changed(p, k, what)
        OBVIOUS
    <2>2. others'[q] = IF q = p THEN others[q] ELSE others[q] \cup {what}
        BY <2>1 DEF Changed
    <2>3. steady'[q] = steady[q] \ {k}
        BY <2>1 DEF Changed
    <2>4. QED
        BY <2>2, <2>3
<1>2. /\ Stored(k) \/ Removed(k)
      /\ present \ {k} \subseteq present' /\ present' \subseteq present \cup {k}
      /\ q # p /\ "delete" \notin others'[q] => present \subseteq present'
      /\ q # p /\ "write" \notin others'[q] => present' = present \ {k}
    BY DEF Changed, TypeOK, Stored, Removed
<1>3. /\ Covered(q) /\ Forward(q) /\ Found(q) /\ Emptied(q)
      /\ cur[q] \in Keys \cup {NoKey, BadKey} /\ nxt[q] \in Keys \cup {NoKey, BadKey}
    BY DEF ProcInv, TypeOK
<1>4. Covered(q)'
    <2>1. /\ steady'[q] \subseteq present'
          /\ pc'[q] = "delete" => cur'[q] \in Keys
          /\ Walking(q)' => cur'[q] \in Keys
          /\ pc'[q] # "done" => result'[q] = "none"
          /\ result'[q] = "ok" => steady'[q] \subseteq seen'[q]
        BY <1>1, <1>2, <1>3 DEF Covered, Kept, Walking
    <2>2. ASSUME NEW c \in Keys, NEW s \in steady'[q], After(c, s) PROVE After(c, s)'
        BY <1>1, <1>2, <1>3, <2>2, AfterKept DEF Covered
    <2>3. Walking(q)' =>
              \A s \in steady'[q] : s \in seen'[q] \/ s = cur'[q] \/ After(cur[q], s)'
        BY <1>1, <1>3, <2>2 DEF Covered, Kept, Walking
    <2>4. HasNext(q)' =>
              \A s \in steady'[q] :
                  \/ s \in seen'[q] \/ s = cur'[q]
                  \/ nxt'[q] = BadKey
                  \/ nxt'[q] \in Keys /\ (s = nxt'[q] \/ After(nxt[q], s)')
        BY <1>1, <1>3, <2>2 DEF Covered, Kept, HasNext
    <2>5. QED
        BY <2>1, <2>3, <2>4 DEF Covered, Kept, After
<1>5. Forward(q)'
    BY <1>1, <1>3 DEF Forward, Kept, Walking, HasNext
<1>6. Found(q)'
    BY <1>1, <1>2, <1>3 DEF Found, Kept, Walking, HasNext
<1>7. Emptied(q)'
    BY <1>1, <1>2, <1>3 DEF Emptied, Kept
<1>8. QED
    BY <1>4, <1>5, <1>6, <1>7 DEF ProcInv

-------------------------------------------------------------------------------
LEMMA TypeNext ==
    ASSUME Inv, [Next]_vars
    PROVE  TypeOK'
<1> USE BpfMapAssumption DEF Places
<1>1. TypeOK /\ Order
    BY DEF Inv
<1>2. ASSUME NEW p \in Procs, NEW k \in Keys, Write(p, k) PROVE TypeOK'
    <2>1. present' \subseteq Keys /\ before' \subseteq present' \X present'
        BY <1>1, <1>2, OrderStored DEF Write
    <2>2. QED
        BY <1>1, <1>2, <2>1 DEF Write, TypeOK, Changed, call, cursor
<1>3. ASSUME NEW p \in Procs, NEW k \in Keys, Delete(p, k) PROVE TypeOK'
    <2>1. present' \subseteq Keys /\ before' \subseteq present' \X present'
        BY <1>1, <1>3, OrderRemoved DEF Delete
    <2>2. QED
        BY <1>1, <1>3, <2>1 DEF Delete, TypeOK, Changed, call, cursor
<1>4. ASSUME NEW p \in Procs, NEW filter \in Filters[p], NEW value \in BOOLEAN,
             Iterate(p, filter, value)
      PROVE  TypeOK'
    <2>1. filter \in {"look", "delete", "rewrite", "stop"}
        BY <1>4
    <2>2. QED
        BY <1>1, <1>4, <2>1 DEF Iterate, Begin, Goto, TypeOK, table, cursor
<1>5. ASSUME NEW p \in Procs, Clear(p) PROVE TypeOK'
    BY <1>1, <1>5 DEF Clear, Begin, Goto, TypeOK, table, cursor
<1>6. ASSUME NEW p \in Procs, GetFirstKey(p) PROVE TypeOK'
    BY <1>1, <1>6 DEF GetFirstKey, Looping, Goto, TypeOK, table, call, history, bounds
<1>7. ASSUME NEW p \in Procs, NoFirstKey(p) PROVE TypeOK'
    BY <1>1, <1>7 DEF NoFirstKey, Finish, Goto, TypeOK, table, call, cursor, history, bounds
<1>8. ASSUME NEW p \in Procs, GetNextKey(p) PROVE TypeOK'
    BY <1>1, <1>8 DEF GetNextKey, Fetched, Fault, Goto, TypeOK, table, call, history
<1>9. ASSUME NEW p \in Procs, ReadValue(p) PROVE TypeOK'
    BY <1>1, <1>9 DEF ReadValue, Finish, Goto, TypeOK, table, call, cursor, history, bounds
<1>10. ASSUME NEW p \in Procs, Handed(p)
       PROVE  seen' \in [Procs -> SUBSET Keys] /\ again' \in [Procs -> SUBSET Keys]
    <2>1. cur[p] \in Keys
        BY <1>10 DEF Inv, ProcInv, Covered, Walking, Handed
    <2>2. QED
        BY <1>1, <1>10, <2>1 DEF Handed, TypeOK
<1>11. ASSUME NEW p \in Procs, Advance(p)
       PROVE  /\ pc' \in [Procs -> Places]
              /\ cur' \in [Procs -> Keys \cup {NoKey, BadKey}]
              /\ result' \in [Procs -> {"none", "ok", "ENOENT", "error"}]
    BY <1>1, <1>11 DEF Advance, Finish, Goto, TypeOK
<1>12. ASSUME NEW p \in Procs, FilterLooks(p) PROVE TypeOK'
    BY <1>1, <1>10, <1>11, <1>12 DEF FilterLooks, TypeOK, table, call, bounds
<1>13. ASSUME NEW p \in Procs, FilterChanges(p) PROVE TypeOK'
    <2>1. cur[p] \in Keys
        BY <1>1, <1>13 DEF FilterChanges, TypeOK
    <2>2. present' \subseteq Keys /\ before' \subseteq present' \X present'
        BY <1>1, <1>13, <2>1, OrderStored, OrderRemoved DEF FilterChanges
    <2>3. steady' \in [Procs -> SUBSET Keys] /\ others' \in [Procs -> SUBSET {"write", "delete"}]
        BY <1>1, <1>13 DEF FilterChanges, Changed, TypeOK
    <2>4. Handed(p) /\ Advance(p) /\ UNCHANGED <<call, nxt, bounds>>
        BY <1>13 DEF FilterChanges
    <2>5. QED
        BY <1>1, <1>10, <1>11, <2>2, <2>3, <2>4 DEF TypeOK, call, bounds
<1>14. ASSUME NEW p \in Procs, FilterLate(p) \/ FilterStops(p) PROVE TypeOK'
    <2>1. Handed(p) /\ \E res \in {"ENOENT", "error"} : Finish(p, res)
        BY <1>14 DEF FilterLate, FilterStops
    <2>2. UNCHANGED <<table, call, cursor, steady, others, bounds>>
        BY <1>14 DEF FilterLate, FilterStops
    <2>3. QED
        BY <1>1, <1>10, <2>1, <2>2 DEF Finish, Goto, TypeOK, table, call, cursor, bounds
<1>15. ASSUME NEW p \in Procs, ClearDelete(p) PROVE TypeOK'
    <2>1. present' \subseteq Keys /\ before' \subseteq present' \X present'
        BY <1>1, <1>15, OrderRemoved DEF ClearDelete, TypeOK, table
    <2>2. steady' \in [Procs -> SUBSET Keys] /\ others' \in [Procs -> SUBSET {"write", "delete"}]
        BY <1>1, <1>15 DEF ClearDelete, Changed, TypeOK
    <2>3. QED
        BY <1>1, <1>15, <2>1, <2>2 DEF ClearDelete, Goto, TypeOK, call, cursor, bounds
<1>16. ASSUME NEW p \in Procs, CallFails(p) PROVE TypeOK'
    BY <1>1, <1>16 DEF CallFails, Fault, Finish, Goto, TypeOK, table, call, cursor, history
<1>17. ASSUME NEW p \in Procs, Return(p) PROVE TypeOK'
    BY <1>1, <1>17 DEF Return, Goto, TypeOK, table, bounds
<1>18. CASE UNCHANGED vars
    BY <1>1, <1>18 DEF TypeOK, vars, table, call, cursor, history, bounds
<1>19. QED
    BY <1>2, <1>3, <1>4, <1>5, <1>6, <1>7, <1>8, <1>9, <1>12, <1>13, <1>14, <1>15, <1>16,
       <1>17, <1>18 DEF Next, Step

LEMMA OrderNext ==
    ASSUME Inv, [Next]_vars
    PROVE  Order'
<1>1. TypeOK /\ Order
    BY DEF Inv
<1>2. CASE UNCHANGED table
    BY <1>1, <1>2 DEF Order, table
<1>3. CASE \E k \in Keys : Stored(k) \/ Removed(k)
    BY <1>1, <1>3, OrderStored, OrderRemoved
<1>4. \A p \in Procs : FilterChanges(p) => cur[p] \in Keys
    BY BpfMapAssumption, <1>1 DEF FilterChanges, TypeOK
<1>5. \A p \in Procs : ClearDelete(p) /\ cur[p] \in present => cur[p] \in Keys
    BY <1>1 DEF TypeOK
<1>6. QED
    BY <1>2, <1>3, <1>4, <1>5
    DEF Next, Step, Write, Delete, Iterate, Clear, Begin, GetFirstKey, NoFirstKey, GetNextKey,
        ReadValue, FilterLooks, FilterChanges, FilterLate, FilterStops, ClearDelete, CallFails,
        Return, vars

-------------------------------------------------------------------------------
(* What each step of a process does to its own part of the invariant.      *)

(* The start of a call.                                                    *)
LEMMA BeginKeeps ==
    ASSUME Inv, NEW p \in Procs, NEW what, NEW value, Begin(p, what, value, "first")
    PROVE  ProcInv(p)'
<1>1. /\ pc'[p] = "first" /\ steady'[p] = present /\ seen'[p] = {} /\ again'[p] = {}
      /\ result'[p] = "none" /\ UNCHANGED table
    BY DEF Begin, Goto, Inv, TypeOK, ProcInv, Covered
<1>2. QED
    BY <1>1 DEF ProcInv, Covered, Forward, Found, Emptied, Walking, HasNext, table

LEMMA GetFirstKeyKeeps ==
    ASSUME Inv, NEW p \in Procs, GetFirstKey(p)
    PROVE  ProcInv(p)'
<1>1. PICK k \in Keys : IsFirst(k) /\ cur' = [cur EXCEPT ![p] = k]
    BY DEF GetFirstKey
<1>2. /\ cur'[p] = k /\ k \in present
      /\ pc'[p] = IF op[p] = "clear" THEN "delete" ELSE "next"
      /\ result'[p] = "none" /\ steady'[p] = steady[p] /\ seen'[p] = seen[p]
      /\ seen[p] = {} /\ op'[p] = op[p] /\ others'[p] = others[p] /\ again'[p] = again[p]
      /\ UNCHANGED table
    BY <1>1 DEF GetFirstKey, Goto, Looping, IsFirst, Inv, TypeOK, ProcInv, Covered, Forward,
                call, history
<1>3. \A s \in present : s = k \/ After(k, s)
    BY <1>1 DEF IsFirst, After, Inv, Order
<1>4. Covered(p)'
    BY <1>2, <1>3 DEF Inv, ProcInv, Covered, Walking, HasNext, After, table
<1>5. Forward(p)'
    BY <1>2 DEF Inv, ProcInv, Forward, Walking, HasNext, table
<1>6. Found(p)' /\ Emptied(p)'
    <2>1. pc[p] = "first"
        BY DEF GetFirstKey
    <2>2. QED
        BY <1>2, <2>1 DEF Inv, ProcInv, Found, Emptied, Walking, HasNext, table
<1>7. QED
    BY <1>4, <1>5, <1>6 DEF ProcInv

(* A call that finishes without touching the table.                        *)
LEMMA FinishKeeps ==
    ASSUME Inv, NEW p \in Procs, NEW res \in {"ok", "ENOENT", "error"}, Finish(p, res),
           UNCHANGED <<table, op, steady, others>>,
           pc[p] # "idle",
           seen[p] \subseteq seen'[p],
           again'[p] # {} => others[p] # {},
           seen'[p] \cap present \subseteq seen[p] \/ op[p] \notin {"delete", "clear"}
               \/ "write" \in others[p],
           res = "ok" => steady[p] \subseteq seen'[p],
           res = "ENOENT" => "delete" \in others[p] /\ op[p] # "clear"
    PROVE  ProcInv(p)'
<1>1. pc'[p] = "done" /\ result'[p] = res
    BY DEF Finish, Goto, Inv, TypeOK
<1>2. QED
    BY <1>1 DEF Inv, ProcInv, Covered, Forward, Found, Emptied, Walking, HasNext, table

(* What the next key has behind it, by the time it is fetched.             *)
LEMMA NextAhead ==
    ASSUME Inv, NEW p \in Procs, pc[p] = "next", NEW j \in Keys, IsNext(cur[p], j)
    PROVE  /\ j \in present
           /\ \A s \in steady[p] :
                 s \in seen[p] \/ s = cur[p] \/ s = j \/ After(j, s)
           /\ cur[p] \in present => <<cur[p], j>> \in before /\ j # cur[p]
<1>1. /\ cur[p] \in Keys /\ steady[p] \subseteq present
      /\ \A s \in steady[p] : s \in seen[p] \/ s = cur[p] \/ After(cur[p], s)
    BY DEF Inv, ProcInv, Covered, Walking
<1>2. CASE cur[p] \in present
    <2>1. /\ <<cur[p], j>> \in before
          /\ \A i \in present : ~(<<cur[p], i>> \in before /\ <<i, j>> \in before)
        BY <1>2 DEF IsNext
    <2>2. j \in present /\ j # cur[p]
        BY <1>2, <2>1 DEF Inv, TypeOK, Order
    <2>3. ASSUME NEW s \in steady[p] PROVE s \in seen[p] \/ s = cur[p] \/ s = j \/ After(j, s)
        <3>1. s \in present
            BY <1>1
        <3>2. CASE After(cur[p], s) /\ s # j
            <4>1. <<s, j>> \notin before
                BY <1>2, <2>1, <3>1, <3>2 DEF After
            <4>2. <<j, s>> \in before
                BY <2>2, <3>1, <3>2, <4>1 DEF Inv, Order
            <4>3. QED
                BY <2>2, <3>1, <4>2 DEF After, Inv, Order
        <3>3. QED
            BY <1>1, <3>2
    <2>4. QED
        BY <2>1, <2>2, <2>3
<1>3. CASE cur[p] \notin present
    <2>1. j \in present /\ \A i \in present : <<i, j>> \notin before
        BY <1>3 DEF IsNext, IsFirst
    <2>2. \A s \in present : s = j \/ After(j, s)
        BY <2>1 DEF After, Inv, Order
    <2>3. QED
        BY <1>1, <1>3, <2>1, <2>2
<1>4. QED
    BY <1>2, <1>3

LEMMA GetNextKeyKeeps ==
    ASSUME Inv, NEW p \in Procs, GetNextKey(p)
    PROVE  ProcInv(p)'
<1>1. /\ pc[p] = "next" /\ pc'[p] \in {"read", "filter"}
      /\ op'[p] = op[p] /\ cur'[p] = cur[p] /\ result'[p] = result[p]
      /\ steady'[p] = steady[p] /\ seen'[p] = seen[p] /\ others'[p] = others[p]
      /\ again'[p] = again[p] /\ UNCHANGED table
    BY DEF GetNextKey, Fetched, Goto, Inv, TypeOK, table, call, history
<1>2. /\ Covered(p) /\ Forward(p) /\ Found(p) /\ Emptied(p)
      /\ NoKey \notin Keys /\ BadKey \notin Keys
    BY BpfMapAssumption DEF Inv, ProcInv
<1>3. \/ nxt'[p] \in Keys /\ IsNext(cur[p], nxt'[p])
      \/ nxt'[p] = NoKey /\ IsLast(cur[p])
      \/ nxt'[p] = BadKey
    BY DEF GetNextKey, Inv, TypeOK
<1>4. ASSUME NEW s \in steady[p]
      PROVE  \/ s \in seen[p] \/ s = cur[p]
             \/ nxt'[p] = BadKey
             \/ nxt'[p] \in Keys /\ (s = nxt'[p] \/ After(nxt'[p], s))
    <2>1. CASE nxt'[p] \in Keys /\ IsNext(cur[p], nxt'[p])
        BY <1>1, <2>1, NextAhead
    <2>2. CASE IsLast(cur[p])
        BY <1>1, <1>2, <2>2 DEF IsLast, Covered, Walking, After
    <2>3. QED
        BY <1>3, <2>1, <2>2
<1>5. Covered(p)'
    BY <1>1, <1>2, <1>4 DEF Covered, Walking, HasNext, After, table
<1>6. nxt'[p] \in Keys =>
          /\ nxt'[p] \in present
          /\ cur[p] \in present => <<cur[p], nxt'[p]>> \in before /\ nxt'[p] # cur[p]
    BY <1>1, <1>2, <1>3, NextAhead
<1>7. Forward(p)'
    <2>1. ASSUME others[p] = {}, nxt'[p] \in Keys
          PROVE  nxt'[p] \in present /\ <<cur[p], nxt'[p]>> \in before /\ nxt'[p] \notin seen[p]
        <3>1. cur[p] \in present /\ \A s \in seen[p] : s \in present => <<s, cur[p]>> \in before
            BY <1>1, <1>2, <2>1 DEF Forward, Walking
        <3>2. nxt'[p] \in present /\ <<cur[p], nxt'[p]>> \in before
            BY <1>6, <2>1, <3>1
        <3>3. nxt'[p] \notin seen[p]
            BY <3>1, <3>2 DEF Inv, Order
        <3>4. QED
            BY <3>2, <3>3
    <2>2. QED
        BY <1>1, <1>2, <2>1 DEF Forward, Walking, HasNext, table
<1>8. Found(p)'
    BY <1>1, <1>2, <1>6 DEF Found, Walking, HasNext, table
<1>9. Emptied(p)'
    BY <1>1, <1>2 DEF Emptied, table
<1>10. QED
    BY <1>5, <1>7, <1>8, <1>9 DEF ProcInv

LEMMA ReadValueKeeps ==
    ASSUME Inv, NEW p \in Procs, ReadValue(p)
    PROVE  ProcInv(p)'
<1>1. /\ pc[p] = "read" /\ ProcInv(p)
      /\ UNCHANGED <<table, op, cur, nxt, seen, again, steady, others>>
    BY DEF ReadValue, Inv, call, cursor, history
<1>2. CASE cur[p] \in present
    <2>1. pc'[p] = "filter" /\ result' = result
        BY <1>2 DEF ReadValue, Goto, Inv, TypeOK
    <2>2. QED
        BY <1>1, <2>1
        DEF ProcInv, Covered, Forward, Found, Emptied, Walking, HasNext, After, table
<1>3. CASE cur[p] \notin present
    <2>1. Finish(p, "ENOENT")
        BY <1>3 DEF ReadValue
    <2>2. "delete" \in others[p] /\ op[p] # "clear" /\ (again[p] # {} => others[p] # {})
        BY <1>1, <1>3 DEF ProcInv, Found, Forward, Walking
    <2>3. QED
        BY <1>1, <2>1, <2>2, FinishKeeps
<1>4. QED
    BY <1>2, <1>3

(* The filter has had the key under the cursor and the walk goes on.       *)
LEMMA HandedKeeps ==
    ASSUME Inv, NEW p \in Procs, Handed(p), Advance(p), UNCHANGED <<op, nxt>>,
           \/ op[p] = "look" /\ UNCHANGED <<table, steady, others>>
           \/ op[p] = "delete" /\ Removed(cur[p]) /\ Changed(p, cur[p], "delete")
           \/ op[p] = "rewrite" /\ Stored(cur[p]) /\ Changed(p, cur[p], "write"),
           op[p] # "look" => cur[p] \in present
    PROVE  ProcInv(p)'
<1>0. /\ pc[p] = "filter" /\ Covered(p) /\ Forward(p) /\ Found(p) /\ Emptied(p)
      /\ cur[p] \in Keys /\ nxt[p] \in Keys \cup {NoKey, BadKey}
      /\ NoKey \notin Keys /\ BadKey \notin Keys /\ NoKey # BadKey
    BY BpfMapAssumption DEF Handed, Inv, TypeOK, ProcInv, Covered, Walking
<1> DEFINE k == cur[p]
<1>1. /\ seen'[p] = seen[p] \cup {k} /\ cur'[p] = nxt[p] /\ nxt'[p] = nxt[p]
      /\ op'[p] = op[p] /\ again'[p] = again[p] \cup ({k} \cap seen[p])
    BY DEF Handed, Advance, Inv, TypeOK
<1>2. /\ others'[p] = others[p]
      /\ steady'[p] \subseteq steady[p]
      /\ op[p] = "look" => UNCHANGED table
      /\ op[p] # "look" => steady'[p] = steady[p] \ {k}
      /\ op[p] = "delete" => present' = present \ {k}
      /\ op[p] = "rewrite" => present' = present \cup {k}
    BY DEF Changed, Removed, Stored, Inv, TypeOK
<1>3. ASSUME NEW s \in steady'[p], NEW c \in Keys, After(c, s) PROVE After(c, s)'
    <2>1. CASE op[p] = "look"
        BY <1>2, <1>3, <2>1 DEF After, table
    <2>2. CASE op[p] # "look"
        BY <1>0, <1>2, <1>3, <2>2, AfterKept DEF Covered, Inv
    <2>3. QED
        BY <2>1, <2>2
<1>4. \A s \in steady'[p] : s \in steady[p]
    BY <1>2
<1>5. \A s \in steady'[p] :
          \/ s \in seen'[p]
          \/ nxt[p] = BadKey
          \/ nxt[p] \in Keys /\ (s = nxt[p] \/ After(nxt[p], s)')
    BY <1>0, <1>1, <1>3, <1>4 DEF Covered, HasNext
<1>6. steady'[p] \subseteq present'
    <2>1. steady[p] \subseteq present
        BY <1>0 DEF Covered
    <2>2. CASE op[p] = "look"
        BY <1>2, <2>1, <2>2 DEF table
    <2>3. CASE op[p] # "look"
        BY <1>2, <2>1, <2>3
    <2>4. QED
        BY <2>2, <2>3
<1>7. \/ nxt[p] \in Keys /\ pc'[p] = "next" /\ result'[p] = "none"
      \/ nxt[p] = NoKey /\ pc'[p] = "done" /\ result'[p] = "ok"
      \/ nxt[p] = BadKey /\ pc'[p] = "done" /\ result'[p] = "error"
    BY <1>0 DEF Advance, Finish, Goto, Inv, TypeOK, Covered
<1>8. Covered(p)'
    BY <1>0, <1>1, <1>5, <1>6, <1>7 DEF Covered, Walking, HasNext, After
<1>9. Forward(p)'
    <2>1. again'[p] # {} => others'[p] # {}
        BY <1>0, <1>1, <1>2 DEF Forward, Walking
    <2>2. ASSUME others[p] = {}, nxt[p] \in Keys
          PROVE  /\ nxt[p] \in present' /\ nxt[p] \notin seen'[p]
                 /\ \A s \in seen'[p] : s \in present' => <<s, nxt[p]>> \in before'
        <3>1. /\ k \in present /\ nxt[p] \in present /\ <<k, nxt[p]>> \in before
              /\ nxt[p] \notin seen[p]
              /\ \A s \in seen[p] : s \in present => <<s, k>> \in before
            BY <1>0, <2>2 DEF Forward, Walking, HasNext
        <3>2. nxt[p] # k /\ Bucket[k] <= Bucket[nxt[p]]
            BY <3>1 DEF Inv, Order
        <3>3. nxt[p] \in present'
            BY <1>2, <3>1, <3>2 DEF table, Handed, Removed, Stored
        <3>4. \A s \in present : s \in seen'[p] => <<s, nxt[p]>> \in before
            BY <1>1, <3>1 DEF Inv, Order
        <3>5. present' \subseteq present
            BY <1>2, <3>1 DEF table, Removed, Stored
        <3>6. ASSUME NEW s \in present', <<s, nxt[p]>> \in before
              PROVE  <<s, nxt[p]>> \in before'
            <4>1. CASE s # k
                BY <3>2, <3>6, <4>1 DEF table, Removed, Stored, Without
            <4>2. CASE s = k
                BY <3>1, <3>2, <3>6, <4>2 DEF table, Removed, Stored
            <4>3. QED
                BY <4>1, <4>2
        <3>7. QED
            BY <1>1, <3>1, <3>2, <3>3, <3>4, <3>5, <3>6
    <2>3. QED
        BY <1>1, <1>2, <1>7, <2>1, <2>2 DEF Forward, Walking, HasNext
<1>10. Found(p)'
    <2>1. ASSUME "delete" \notin others[p], nxt[p] \in Keys PROVE nxt[p] \in present'
        <3>1. nxt[p] \in present /\ nxt[p] # k
            BY <1>0, <2>1 DEF Found, HasNext
        <3>2. QED
            BY <1>2, <3>1 DEF table, Removed, Stored
    <2>2. QED
        BY <1>0, <1>1, <1>2, <1>7, <2>1 DEF Found, Walking, HasNext
<1>11. Emptied(p)'
    <2>1. CASE op[p] = "delete"
        BY <1>0, <1>1, <1>2, <2>1 DEF Emptied
    <2>2. CASE op[p] # "delete"
        BY <1>0, <1>1, <2>2 DEF Emptied, Found, Walking
    <2>3. QED
        BY <2>1, <2>2
<1>12. QED
    BY <1>8, <1>9, <1>10, <1>11 DEF ProcInv

(* The filter's own error ends the iteration.                              *)
LEMMA FilterEndsKeeps ==
    ASSUME Inv, NEW p \in Procs, FilterLate(p) \/ FilterStops(p)
    PROVE  ProcInv(p)'
<1>1. /\ pc[p] = "filter" /\ Covered(p) /\ Forward(p) /\ Found(p) /\ Emptied(p)
      /\ UNCHANGED <<table, op, steady, others>>
      /\ seen'[p] = seen[p] \cup {cur[p]} /\ again'[p] = again[p] \cup ({cur[p]} \cap seen[p])
    BY DEF FilterLate, FilterStops, Handed, Inv, TypeOK, ProcInv, call
<1>2. again'[p] # {} => others[p] # {}
    BY <1>1 DEF Forward, Walking
<1>3. CASE FilterLate(p)
    <2>1. Finish(p, "ENOENT") /\ cur[p] \notin present
        BY <1>3 DEF FilterLate
    <2>2. "delete" \in others[p] /\ op[p] # "clear"
        BY <1>1, <2>1 DEF Found, Walking
    <2>3. seen'[p] \cap present \subseteq seen[p]
        BY <1>1, <2>1
    <2>4. QED
        BY <1>1, <1>2, <2>1, <2>2, <2>3, FinishKeeps
<1>4. CASE FilterStops(p)
    <2>1. Finish(p, "error") /\ op[p] = "stop"
        BY <1>4 DEF FilterStops
    <2>2. QED
        BY <1>1, <1>2, <2>1, FinishKeeps
<1>5. QED
    BY <1>3, <1>4

LEMMA ClearDeleteKeeps ==
    ASSUME Inv, NEW p \in Procs, ClearDelete(p)
    PROVE  ProcInv(p)'
<1>1. /\ pc[p] = "delete" /\ pc'[p] = "first"
      /\ Covered(p) /\ Forward(p) /\ Found(p) /\ Emptied(p)
      /\ op'[p] = op[p] /\ result' = result /\ seen' = seen /\ again' = again
    BY DEF ClearDelete, Goto, Inv, TypeOK, ProcInv, call
<1>2. /\ others'[p] = others[p]
      /\ \/ steady'[p] = steady[p] /\ present' = present
         \/ steady'[p] = steady[p] \ {cur[p]} /\ present' = present \ {cur[p]}
    BY DEF ClearDelete, Changed, Removed, table, Inv, TypeOK
<1>3. Covered(p)' /\ Forward(p)'
    BY <1>1, <1>2 DEF Covered, Forward, Walking, HasNext
<1>4. Found(p)' /\ Emptied(p)'
    BY <1>1, <1>2 DEF Covered, Found, Emptied, Walking, HasNext
<1>5. QED
    BY <1>3, <1>4 DEF ProcInv

LEMMA ReturnKeeps ==
    ASSUME Inv, NEW p \in Procs, Return(p)
    PROVE  ProcInv(p)'
<1>1. /\ pc'[p] = "idle" /\ steady'[p] = {} /\ again'[p] = {} /\ result'[p] = "none"
    BY DEF Return, Goto, Inv, TypeOK
<1>2. QED
    BY <1>1 DEF ProcInv, Covered, Forward, Found, Emptied, Walking, HasNext

(* Of the others a step of p touches at most the table, by one key.        *)
LEMMA OthersKeep ==
    ASSUME Inv, NEW p \in Procs, NEW q \in Procs, q # p,
           \/ Step(p)
           \/ \E k \in Keys : Write(p, k) \/ Delete(p, k)
           \/ \E filter \in Filters[p], value \in BOOLEAN : Iterate(p, filter, value)
           \/ Clear(p)
    PROVE  ProcInv(q)'
<1>1. TypeOK /\ Order /\ ProcInv(q)
    BY DEF Inv
<1> USE DEF call, cursor, history, bounds
<1>2. ASSUME GetFirstKey(p) \/ NoFirstKey(p) \/ GetNextKey(p) \/ ReadValue(p) \/ CallFails(p)
      PROVE  ProcInv(q)'
    <2>1. /\ UNCHANGED <<table, op, seen, again, steady, others>>
          /\ \A r \in Procs : r # p => pc'[r] = pc[r] /\ cur'[r] = cur[r] /\ nxt'[r] = nxt[r]
                                         /\ result'[r] = result[r]
        BY <1>1, <1>2
        DEF GetFirstKey, NoFirstKey, GetNextKey, ReadValue, CallFails, Fetched, Finish, Goto,
            TypeOK
    <2>2. QED
        BY <1>1, <2>1, Undisturbed DEF Kept
<1>3. ASSUME Return(p) \/ Clear(p) \/ \E f \in Filters[p], v \in BOOLEAN : Iterate(p, f, v)
      PROVE  ProcInv(q)'
    <2>1. UNCHANGED table /\ Kept(q) /\ steady'[q] = steady[q] /\ others'[q] = others[q]
        BY <1>1, <1>3 DEF Return, Clear, Iterate, Begin, Goto, TypeOK, Kept
    <2>2. QED
        BY <1>1, <2>1, Undisturbed
<1>4. ASSUME NEW k \in Keys, Write(p, k) \/ Delete(p, k) PROVE ProcInv(q)'
    <2>1. \/ Stored(k) /\ Changed(p, k, "write")
          \/ Removed(k) /\ Changed(p, k, "delete")
        BY <1>4 DEF Write, Delete
    <2>2. Kept(q)
        BY <1>4 DEF Write, Delete, Kept
    <2>3. QED
        BY <1>1, <2>1, <2>2, Disturbed
<1>5. ASSUME Handed(p), UNCHANGED <<op, nxt>>, Advance(p) \/ \E res : Finish(p, res) /\ cur' = cur
      PROVE  Kept(q)
    BY <1>1, <1>5 DEF Handed, Advance, Finish, Goto, TypeOK, Kept
<1>6. ASSUME FilterLooks(p) \/ FilterLate(p) \/ FilterStops(p) PROVE ProcInv(q)'
    <2>1. Kept(q)
        BY <1>5, <1>6 DEF FilterLooks, FilterLate, FilterStops
    <2>2. UNCHANGED <<table, steady, others>>
        BY <1>6 DEF FilterLooks, FilterLate, FilterStops
    <2>3. QED
        BY <1>1, <2>1, <2>2, Undisturbed
<1>7. ASSUME FilterChanges(p) PROVE ProcInv(q)'
    <2>1. /\ cur[p] \in Keys /\ Kept(q)
        BY <1>1, <1>5, <1>7 DEF FilterChanges, TypeOK
    <2>2. \/ Stored(cur[p]) /\ Changed(p, cur[p], "write")
          \/ Removed(cur[p]) /\ Changed(p, cur[p], "delete")
        BY <1>7 DEF FilterChanges
    <2>3. QED
        BY <1>1, <2>1, <2>2, Disturbed
<1>8. ASSUME ClearDelete(p) PROVE ProcInv(q)'
    <2>1. Kept(q)
        BY <1>1, <1>8 DEF ClearDelete, Goto, TypeOK, Kept
    <2>2. CASE cur[p] \in present
        <3>1. cur[p] \in Keys /\ Removed(cur[p]) /\ Changed(p, cur[p], "delete")
            BY <1>1, <1>8, <2>2 DEF ClearDelete, TypeOK
        <3>2. QED
            BY <1>1, <2>1, <3>1, Disturbed
    <2>3. CASE cur[p] \notin present
        BY <1>1, <1>8, <2>1, <2>3, Undisturbed DEF ClearDelete
    <2>4. QED
        BY <2>2, <2>3
<1>9. QED
    BY <1>2, <1>3, <1>4, <1>6, <1>7, <1>8 DEF Step

LEMMA OwnKept ==
    ASSUME Inv, NEW p \in Procs, Step(p)
    PROVE  ProcInv(p)'
<1> USE DEF call, cursor, history, bounds
<1>1. CASE GetFirstKey(p) \/ GetNextKey(p) \/ ReadValue(p)
    BY <1>1, GetFirstKeyKeeps, GetNextKeyKeeps, ReadValueKeeps
<1>2. CASE NoFirstKey(p)
    <2>1. steady[p] = {} /\ (again[p] # {} => others[p] # {})
        BY <1>2 DEF NoFirstKey, Inv, ProcInv, Covered, Forward
    <2>2. QED
        BY <1>2, <2>1, FinishKeeps DEF NoFirstKey
<1>3. CASE CallFails(p)
    <2>1. again[p] # {} => others[p] # {}
        BY DEF Inv, ProcInv, Forward
    <2>2. QED
        BY <1>3, <2>1, FinishKeeps DEF CallFails
<1>4. CASE FilterLooks(p)
    BY <1>4, HandedKeeps DEF FilterLooks
<1>5. CASE FilterChanges(p)
    BY <1>5, HandedKeeps DEF FilterChanges
<1>6. CASE FilterLate(p) \/ FilterStops(p)
    BY <1>6, FilterEndsKeeps
<1>7. CASE ClearDelete(p) \/ Return(p)
    BY <1>7, ClearDeleteKeeps, ReturnKeeps
<1>8. QED
    BY <1>1, <1>2, <1>3, <1>4, <1>5, <1>6, <1>7 DEF Step

LEMMA InvNext == Inv /\ [Next]_vars => Inv'
<1> SUFFICES ASSUME Inv, [Next]_vars PROVE Inv'
    OBVIOUS
<1>1. TypeOK' /\ Order'
    BY TypeNext, OrderNext
<1>2. ASSUME NEW q \in Procs PROVE ProcInv(q)'
    <2>1. TypeOK /\ Order /\ ProcInv(q)
        BY DEF Inv
    <2>2. CASE UNCHANGED vars
        BY <2>1, <2>2, Undisturbed DEF vars, call, cursor, history, Kept
    <2>3. ASSUME NEW p \in Procs, NEW k \in Keys, Write(p, k) \/ Delete(p, k)
          PROVE  ProcInv(q)'
        <3>1. /\ \/ Stored(k) /\ Changed(p, k, "write")
                 \/ Removed(k) /\ Changed(p, k, "delete")
              /\ Kept(q) /\ pc[p] = "idle"
            BY <2>3 DEF Write, Delete, Kept, call, cursor
        <3>2. QED
            BY <2>1, <3>1, Disturbed
    <2>4. ASSUME NEW p \in Procs, NEW filter \in Filters[p], NEW value \in BOOLEAN,
                 Iterate(p, filter, value)
          PROVE  ProcInv(q)'
        BY <2>4, BeginKeeps, OthersKeep DEF Iterate
    <2>5. ASSUME NEW p \in Procs, Clear(p) PROVE ProcInv(q)'
        BY <2>5, BeginKeeps, OthersKeep DEF Clear
    <2>6. ASSUME NEW p \in Procs, Step(p) PROVE ProcInv(q)'
        BY <2>6, OwnKept, OthersKeep
    <2>7. QED
        BY <2>2, <2>3, <2>4, <2>5, <2>6 DEF Next
<1>3. QED
    BY <1>1, <1>2 DEF Inv

-------------------------------------------------------------------------------
(* Inv holds in every state of every behaviour.                            *)
THEOREM Invariance == Spec => []Inv
BY InvInit, InvNext, PTL DEF Spec

(* Every variable keeps its type.                                          *)
THEOREM TypeCorrect == Spec => []TypeOK
<1>1. Inv => TypeOK
    BY DEF Inv
<1>2. QED
    BY Invariance, <1>1, PTL

(* An iteration that succeeds has handed out every key that was in the map *)
(* all along; a clear that succeeds has left none of those it found.       *)
THEOREM NoneMissed == Spec => []StableSeen
<1>1. Inv => StableSeen
    BY DEF Inv, ProcInv, Covered, StableSeen
<1>2. QED
    BY Invariance, <1>1, PTL

(* A key comes twice only when another process has changed the map.        *)
THEOREM NoneTwice == Spec => []OnceUnlessDisturbed
<1>1. Inv => OnceUnlessDisturbed
    BY DEF Inv, ProcInv, Forward, OnceUnlessDisturbed
<1>2. QED
    BY Invariance, <1>1, PTL

(* A clear, or an iteration that deletes every key, leaves an empty map    *)
(* behind unless another process has written to it.                        *)
THEOREM NoneLeft == Spec => []EmptiedByDeletion
<1>1. ASSUME Inv, NEW p \in Procs, result[p] = "ok", op[p] \in {"delete", "clear"},
             "write" \notin others[p]
      PROVE  present = {}
    <2>1. pc[p] = "done" /\ steady[p] \subseteq seen[p]
        BY <1>1 DEF Inv, ProcInv, Covered
    <2>2. present \subseteq steady[p] /\ seen[p] \cap present = {}
        BY <1>1, <2>1 DEF Inv, ProcInv, Emptied
    <2>3. QED
        BY <2>1, <2>2
<1>2. Inv => EmptiedByDeletion
    BY <1>1 DEF EmptiedByDeletion
<1>3. QED
    BY Invariance, <1>2, PTL

(* ENOENT means a race lost to a deletion, and never comes out of a clear. *)
THEOREM OnlyLostRaces == Spec => []LostRaceOnly
<1>1. Inv => LostRaceOnly
    BY DEF Inv, ProcInv, Found, LostRaceOnly
<1>2. QED
    BY Invariance, <1>1, PTL
=============================================================================
