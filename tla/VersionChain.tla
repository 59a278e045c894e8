---------------------------- MODULE VersionChain ----------------------------
(***************************************************************************)
(* What the version pipeline promises about one document, without jobs,    *)
(* locks, workers or storage: a document's history is a chain.  A version, *)
(* once recorded, never changes; it is computed from the version that was  *)
(* current when it was recorded; and the current version only ever moves   *)
(* to a newly recorded one.  A document that is deleted takes its history  *)
(* with it.                                                                *)
(*                                                                         *)
(* JobPipeline implements this specification.                              *)
(***************************************************************************)
EXTENDS Naturals, Sequences

CONSTANT Writers        \* who may record a version

VARIABLES vers,         \* DocumentVersion rows, indexed by their seq
          cur,          \* Document.current_version, as a seq; 0 for null
          erased        \* TRUE once deletion of the document has begun

chain == <<vers, cur, erased>>

Version == [by : Writers, from : Nat]

Init == /\ \E w \in Writers : vers = <<[by |-> w, from |-> 0]>>
        /\ cur = 1
        /\ erased = FALSE

\* A new row, computed from the version current now.  It is not current yet:
\* record_version writes the row and the document in two statements.
Record(w) == /\ ~erased
             /\ vers' = Append(vers, [by |-> w, from |-> cur])
             /\ UNCHANGED <<cur, erased>>

\* The newest row becomes current, provided it was computed from the version
\* it replaces.
Advance == /\ ~erased
           /\ vers[Len(vers)].from = cur
           /\ cur' = Len(vers)
           /\ UNCHANGED <<vers, erased>>

Erase == /\ ~erased
         /\ erased' = TRUE
         /\ vers' = <<>>
         /\ cur' = 0

Next == (\E w \in Writers : Record(w)) \/ Advance \/ Erase

Spec == Init /\ [][Next]_chain
=============================================================================
