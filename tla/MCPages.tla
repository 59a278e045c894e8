------------------------------- MODULE MCPages -------------------------------
(* A small instance of Pages. *)
EXTENDS Pages

CONSTANTS x1, x2, x3, y2, z1

\* Each part begins in every way its module allows, but for a name that stands for any other;
\* what is not the part in question begins in one way.
Start == /\ Init
         /\ panelsDoc = x1 /\ font = z1 /\ signDoc = x1
         /\ \A f, g \in {x1, x2, x3} : held[f] = held[g]
         /\ part # "library" => order = <<>>
         /\ part # "letter" => (held[x1] = y2 /\ ~consented /\ ~turn)
         /\ part # "sign" => account
         /\ part # "visit" => (place = "doc" /\ ~required /\ writable /\ stored = None)
         /\ part # "tool" => tool = "merge"

\* A report and an export are the panels' one at a time.
Small == part = "panels" => report' = None \/ (lastExport' = None /\ convert' = None /\ ~force')

MCSpec == Start /\ [][Next /\ Small]_vars
=============================================================================
