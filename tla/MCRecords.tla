----------------------------- MODULE MCRecords ------------------------------
(* A small instance of Records. *)
EXTENDS Records

CONSTANTS v1, v2, v3, a1, e1, d1, d2

\* Bytes that no assets have in common with other items.
Bytes  == [i \in Items |-> CASE i = v1 -> 6 [] i = v2 -> 9 [] i = v3 -> 11
                             [] i = a1 -> 12 [] i = e1 -> 13]
Spaces == [i \in Items |-> CASE i = a1 -> "asset" [] i = e1 -> "export"
                             [] i = v3 -> d2 [] OTHER -> d1]

ASSUME SizesApart
=============================================================================
