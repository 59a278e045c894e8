------------------------------ MODULE Ceremony -------------------------------
(***************************************************************************)
(* What a signing request promises the people on it, whatever handlers,    *)
(* workers and crashes do: those who sign or approve have agreed to sign   *)
(* electronically before they finish, groups finish in their order, and    *)
(* once everybody has finished the document is sealed, once.               *)
(***************************************************************************)
EXTENDS Naturals

CONSTANTS Acting,    \* the recipients the request waits for
          Consenting,\* those of them who must agree first
          Order      \* recipient -> group

VARIABLES agreed,    \* who has agreed
          finished,  \* who has finished
          sealed     \* which sealed file is the result; 0 while there is none

vars == <<agreed, finished, sealed>>

Init == agreed = {} /\ finished = {} /\ sealed = 0

Agree(r) == /\ agreed' = agreed \cup {r}
            /\ UNCHANGED <<finished, sealed>>

Finish(r) ==
  /\ r \in Consenting => r \in agreed
  /\ \A q \in Acting : Order[q] < Order[r] => q \in finished
  /\ finished' = finished \cup {r}
  /\ UNCHANGED <<agreed, sealed>>

Seal ==
  /\ Acting \subseteq finished /\ sealed = 0
  /\ sealed' \in Nat \ {0}
  /\ UNCHANGED <<agreed, finished>>

\* The recipients who only receive a copy may agree too; it means nothing.
Next == \/ \E r \in DOMAIN Order : Agree(r)
        \/ \E r \in Acting : Finish(r)
        \/ Seal

Spec == Init /\ [][Next]_vars
=============================================================================
