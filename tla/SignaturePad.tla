----------------------------- MODULE SignaturePad ------------------------------
(***************************************************************************)
(* The pad a signature is made on: drawn on a canvas, typed and rendered by *)
(* the server, or photographed.  It stores nothing and gives out a picture. *)
(***************************************************************************)
EXTENDS Integers, Sequences, SequencesExt

CONSTANTS Names, Blank,   \* what is typed; Blank is nothing but spaces
          Fonts, None,
          MaxRenders      \* renders in flight: a bound of the model

Assumptions == Blank \notin Names /\ MaxRenders \in Nat

VARIABLES
    tab,        \* the way in use
    ink,        \* the canvas has a line on it
    drawn,      \* the pad believes that it has
    pen,        \* the pointer is down
    typed, font, preview,   \* one preview for the typed and the photographed
    timer,      \* a render is due when the typing pauses
    renders,    \* asked for and not yet shown
    given       \* the last picture given out, beside what the person had made; None before

vars == <<tab, ink, drawn, pen, typed, font, preview, timer, renders, given>>
canvas == <<ink, drawn, pen>>
text   == <<typed, font, timer, renders>>

Tabs   == {"draw", "type", "upload"}
Line   == [of |-> "line", name |-> None, font |-> None]
Paper  == [of |-> "paper", name |-> None, font |-> None]   \* a canvas nobody has drawn on
Photo  == [of |-> "photo", name |-> None, font |-> None]
Writing(n, f) == [of |-> "writing", name |-> n, font |-> f]
Drawings == {Line, Paper, Photo} \cup {Writing(n, f) : n \in Names, f \in Fonts}

HasInk == IF tab = "draw" THEN drawn ELSE preview # None

-----------------------------------------------------------------------------
\* The canvas of the Draw tab goes with the tab, and a new one is empty.
SetTab(t) ==
    /\ t # tab /\ ~pen /\ tab' = t
    /\ ink' = FALSE
    /\ UNCHANGED <<drawn, pen, text, preview, given>>

Down == tab = "draw" /\ ~pen /\ pen' = TRUE /\ UNCHANGED <<tab, ink, drawn, text, preview, given>>
Up   == pen /\ pen' = FALSE /\ UNCHANGED <<tab, ink, drawn, text, preview, given>>
Move == /\ pen /\ ink' = TRUE /\ drawn' = TRUE
        /\ UNCHANGED <<tab, pen, text, preview, given>>

\* Every letter, and every choice of a font, puts the render off by 250 ms.
OnTyped(n) ==
    /\ tab = "type" /\ n # typed
    /\ typed' = n /\ timer' = TRUE
    /\ UNCHANGED <<tab, canvas, font, renders, preview, given>>

ChooseFont(f) ==
    /\ tab = "type" /\ f # font
    /\ font' = f /\ timer' = TRUE
    /\ UNCHANGED <<tab, canvas, typed, renders, preview, given>>

\* The name is read when the timer goes off.  A blank one is not rendered.
RenderTyped ==
    /\ timer /\ timer' = FALSE
    /\ IF typed = Blank
       THEN preview' = None /\ UNCHANGED renders
       ELSE /\ Len(renders) < MaxRenders
            /\ renders' = Append(renders, Writing(typed, font)) /\ UNCHANGED preview
    /\ UNCHANGED <<tab, canvas, typed, font, given>>

\* Pictures are shown in the order in which they come back; one that fails shows none.
Rendered(i, ok) ==
    /\ i \in DOMAIN renders
    /\ preview' = IF ok THEN renders[i] ELSE None
    /\ renders' = RemoveAt(renders, i)
    /\ UNCHANGED <<tab, canvas, typed, font, timer, given>>

OnFile ==
    /\ tab = "upload" /\ preview' = Photo
    /\ UNCHANGED <<tab, canvas, text, given>>

\* What is under way goes on.
Clear_KeepsTheFlag ==
    /\ ~pen /\ ink' = FALSE /\ preview' = None /\ typed' = Blank
    /\ UNCHANGED <<tab, drawn, pen, font, timer, renders, given>>
Clear ==
    /\ ~pen /\ ink' = FALSE /\ drawn' = FALSE /\ preview' = None /\ typed' = Blank
    /\ UNCHANGED <<tab, pen, font, timer, renders, given>>

\* What the person has made on the tab that is open.
Made == CASE tab = "draw"   -> IF ink THEN Line ELSE Paper
          [] tab = "type"   -> Writing(typed, font)
          [] tab = "upload" -> Photo

Use ==
    /\ HasInk /\ ~pen
    /\ given' = [picture |-> IF tab = "draw" THEN IF ink THEN Line ELSE Paper ELSE preview,
                 made |-> Made]
    /\ UNCHANGED <<tab, canvas, text, preview>>

-----------------------------------------------------------------------------
Init == /\ tab = "draw" /\ ink = FALSE /\ drawn = FALSE /\ pen = FALSE
        /\ typed = Blank /\ font \in Fonts /\ preview = None
        /\ timer = FALSE /\ renders = <<>> /\ given = None

Next == \/ \E t \in Tabs : SetTab(t)
        \/ Down \/ Move \/ Up \/ RenderTyped \/ OnFile \/ Clear \/ Use
        \/ \E n \in Names \cup {Blank} : OnTyped(n)
        \/ \E f \in Fonts : ChooseFont(f)
        \/ \E i \in 1..MaxRenders, ok \in BOOLEAN : Rendered(i, ok)
Spec == Init /\ [][Next]_vars

\* Somebody who looks before going on, on a connection that keeps the order: what is typed has
\* come back before the picture is used or the name is taken out again, and one way in is
\* cleared before another is tried.
Looks == /\ tab' # tab => ~drawn /\ preview = None /\ typed = Blank
         /\ tab' # tab \/ given' # given => ~timer /\ renders = <<>>
         /\ typed' = Blank /\ typed # Blank => renders = <<>>
         /\ Len(renders') < Len(renders) => renders' = Tail(renders)

-----------------------------------------------------------------------------
TypeOK ==
    /\ tab \in Tabs /\ {ink, drawn, pen, timer} \subseteq BOOLEAN
    /\ typed \in Names \cup {Blank} /\ font \in Fonts /\ preview \in Drawings \cup {None}
    /\ Len(renders) <= MaxRenders
    /\ (given = None \/ given.picture \in Drawings)

(* What goes into the document is what was made: the picture given out is   *)
(* of the name typed in the font chosen, of the photograph, or of a drawing *)
(* that has a line in it.  (use; test "withholds the signature until there  *)
(* is ink".)                                                                *)
GivenIsMade == given # None => given.picture = given.made /\ given.picture # Paper
=============================================================================
