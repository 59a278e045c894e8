------------------------------- MODULE MCEditor -------------------------------
(***************************************************************************)
(* A small instance of Editor, and beside it the text box: a behaviour is of *)
(* the one or, when something is being typed, of the other.                  *)
(***************************************************************************)
EXTENDS Editor

CONSTANTS x1, x2, y1, y2

VARIABLES typing, width, here, where, textTyped

textVars == <<width, here, where, textTyped>>

Words == INSTANCE TextBox WITH LetterWidth <- 2, Grid <- 12, Guess <- 4, Actual <- 3,
    Places <- {0, 9}, Keys <- {"letter", "space", "newline"}, MaxLength <- 4, MaxSteps <- 1,
    typed <- textTyped
Box == INSTANCE TextBox WITH LetterWidth <- 2, Grid <- 12, Guess <- 4, Actual <- 3,
    Places <- {0, 9}, Keys <- {"letter", "tab"}, MaxLength <- 2, MaxSteps <- 3,
    typed <- textTyped

ASSUME Words!Assumptions /\ Box!Assumptions

\* What is not the part in question begins in one way.
Start == /\ Init
         /\ route = x1 /\ editPage = x1 /\ query = y1 /\ gesturePage = x1 /\ protectDoc = x1
         /\ (files[1][x1] # None /\ files[1][x1].def = y1)
         /\ part # "protect" => (secret[x1] = None /\ secret[x2] = None)
         /\ typing \in {"nothing", "words", "box"}
         /\ typing # "nothing" => part = "annotate"
         /\ IF typing = "box" THEN Box!Init ELSE Words!Init
         /\ typing = "nothing" => here.box.x = 0

\* Cut short: where nobody waits one mark is enough, and two versions; of two marks the second
\* is a shape; two versions are enough to read the history; a second kind of field is there
\* while there is one version; versions are made of one of two documents to protect; the menu
\* is open over a page that has arrived; and no editor is open over a selected image.
Kinds(list) == {list[i].def : i \in DOMAIN list}
Found(file) == {file[n].def : n \in {m \in Names : file[m] # None}}
Small == /\ part = "anyhow" => born' \subseteq {x1} /\ Len(versions') <= 2
         /\ part = "annotate" => local'.drafts[x2] \notin {"blank", "text"} /\ editing' # x2
         /\ part = "protect" => seq'[x2] = 1 /\ secret'[x2] = None
         /\ part = "gesture" => ~menu' \/ gestureAsked' = None
         /\ part = "edit" => editor' = None \/ (editPicked' = None /\ editAsked' = None)
         /\ part = "history" => \A d \in Docs : Len(chain'[d]) <= 2
         /\ part = "forms" => \A v \in 2..Len(files') :
               /\ y2 \notin Kinds(ops') \cup Kinds(formsJob'.ops) \cup Found(files'[v])
               /\ \A i \in DOMAIN formsPast' : y2 \notin Kinds(formsPast'[i])
               /\ \A i \in DOMAIN formsFuture' : y2 \notin Kinds(formsFuture'[i])

MCNext == \/ typing = "nothing" /\ Next /\ Small /\ UNCHANGED <<typing, textVars>>
          \/ /\ typing = "words" /\ Words!Next /\ Words!Bound /\ Words!Patient
             /\ UNCHANGED <<typing, vars>>
          \/ /\ typing = "box" /\ Box!Next /\ Box!Bound /\ Box!Patient
             /\ UNCHANGED <<typing, vars>>

MCSpec == Start /\ [][MCNext]_<<typing, vars, textVars>>

-----------------------------------------------------------------------------
\* What is typed is shown in the lines it will be drawn in, whole, and on its page.
LaidOut == /\ typing = "words" => Words!TypeOK /\ Words!LaidOutWhole /\ Words!LaidOnItsPage
           /\ typing = "box" => Box!TypeOK /\ Box!LaidOutWhole /\ Box!LaidOnItsPage
=============================================================================
