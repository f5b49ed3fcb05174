------------------------------- MODULE MCBpfMap -------------------------------
(* Three keys in two buckets; a process that does every kind of iteration  *)
(* and one that looks and deletes.                                         *)
EXTENDS BpfMap

CONSTANTS a, b, c, p, q

MCKeys == {a, b, c}
MCProcs == {p, q}
MCBucket == [k \in MCKeys |-> IF k = c THEN 1 ELSE 0]
MCFilters == [r \in MCProcs |-> IF r = p THEN {"look", "delete", "rewrite", "stop"}
                                ELSE {"delete"}]
===============================================================================
