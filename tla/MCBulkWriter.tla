---------------------------- MODULE MCBulkWriter ----------------------------
(* Instances of BulkWriter for TLC.                                        *)
EXTENDS BulkWriter

CONSTANTS c1, c2, c3

(* c1 has a key twice, in one chunk; c2 overlaps it in another order, over *)
(* two chunks; c3, of one record, competes for the last key of both.       *)
Overlapping ==
  [c \in Calls |-> CASE c = c1 -> <<"a", "b", "b">>
                     [] c = c2 -> <<"d", "b", "a">>
                     [] c = c3 -> <<"a">>]
=============================================================================
