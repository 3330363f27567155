---------------------------- MODULE MCCloudStaging ----------------------------
(* Model values of CloudStaging for TLC.                                   *)
EXTENDS CloudStaging

(* Against 3 bytes: a small object; a large one that has to wait for it;   *)
(* one staged under the same path as the first, as two keys or buckets can *)
(* be; one that grows while it is read; one that is declared with another  *)
(* size; and one over the whole budget.                                    *)
O(path, size, declared, got, stream) ==
    [path |-> path, size |-> size, declared |-> declared, got |-> got, stream |-> stream]
SixObjects ==
    <<O("a", 1, -1, 1, 1), O("b", 3, 3, 3, 3), O("a", 1, -1, 1, 1), O("c", 1, -1, 1, 2),
      O("d", 2, 1, 2, 2), O("e", 4, -1, 5, 5)>>

(* The byte cap binds, or the file cap does.                               *)
TightBudgets ==
    {[maxBytes |-> 3, maxFiles |-> 2, objectMax |-> 4], [maxBytes |-> 9, maxFiles |-> 1, objectMax |-> 9]}
===============================================================================
