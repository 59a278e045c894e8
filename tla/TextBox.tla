------------------------------- MODULE TextBox --------------------------------
(***************************************************************************)
(* A text box on the page, from the click that places it: typed into on the *)
(* page or in the comments margin, moved, undone.  Its lines are laid out   *)
(* against the page's width, which is guessed until the server has told it: *)
(* hard breaks are kept, a soft one is made where a line would cross the    *)
(* edge.  A text is a sequence of letters, spaces, tabs and newlines.       *)
(* A place is a number of Grid-ths of the page.                             *)
(***************************************************************************)
EXTENDS Integers, Sequences, SequencesExt

CONSTANTS LetterWidth,     \* a letter is this many spaces wide
          Grid,
          Guess, Actual,   \* the page's width: the A4 guess, and what it is
          Places,          \* left edges a box may be put at
          Keys,            \* what is typed, of Chars
          MaxLength,       \* of what is typed: a bound of the model
          MaxSteps         \* undo steps: a bound of the model (the code keeps 100)

Chars == {"letter", "space", "tab", "newline"}

Assumptions == /\ \A w \in {Actual, Guess} : w > 0 /\ Grid % w = 0
               /\ Places \subseteq 0..Grid /\ Keys \subseteq Chars

VARIABLES
    width,   \* the page's own width; 0 until it has arrived
    here,    \* box, past, future; and guessed: laidOnGuess, by the step that laid it out; 0 is none
    where,   \* the editor that is open: "page", "margin" or "none"
    typed    \* what it holds

vars == <<width, here, where, typed>>

Gone == [x |-> 0, text |-> <<>>, lines |-> <<>>]     \* no box; one that is there has a line
There(l) == l.box # Gone
Step(l) == Len(l.past)

-----------------------------------------------------------------------------
\* How the lines are decided.
Wide(line) == FoldLeft(LAMBDA n, c : n + (IF c = "letter" THEN LetterWidth ELSE 1), 0, line)
Inked(c) == c = "letter"
Ink(s) == SelectSeq(s, Inked)

\* trimEnd.
TrimEnd(s) == SubSeq(s, 1, Max({0} \cup {i \in DOMAIN s : Inked(s[i])}))

ExpandTabs(s) == FoldLeft(LAMBDA out, c : out \o (IF c = "tab" THEN [i \in 1..4 |-> "space"] ELSE <<c>>),
                          <<>>, s)

\* A sequence of sequences grows: at its end by a new one, or in its last one.
Begin(ss, s) == Append(ss, s)
Extend(ss, c) == [ss EXCEPT ![Len(ss)] = Append(@, c)]

Paragraphs(s) == FoldLeft(LAMBDA ps, c : IF c = "newline" THEN Begin(ps, <<>>) ELSE Extend(ps, c),
                          << <<>> >>, s)

\* A word with the spaces that follow it; spaces a paragraph begins with are a piece too.
Pieces(p) == FoldLeft(LAMBDA ps, c : IF ps = <<>> \/ (Inked(c) /\ ~Inked(Last(Last(ps))))
                                     THEN Begin(ps, <<c>>) ELSE Extend(ps, c),
                      <<>>, p)

Fits(s, room) == Wide(s) <= room

\* A word wider than the room: as many characters to a line as fit, and one at the least.
Break_Always(word, room) ==
    FoldLeft(LAMBDA out, c : IF Fits(Append(Last(out), c), room)
                             THEN Extend(out, c) ELSE Begin(out, <<>>),
             << <<>> >>, word)
Break(word, room) ==
    FoldLeft(LAMBDA out, c : IF Last(out) = <<>> \/ Fits(Append(Last(out), c), room)
                             THEN Extend(out, c) ELSE Begin(out, <<c>>),
             << <<>> >>, word)

\* The lines so far, the last still open, with one more piece.
Place(out, piece, room) ==
    LET line == Last(out)
        done == IF TrimEnd(line) = <<>> THEN Front(out) ELSE Append(Front(out), TrimEnd(line))
        word == IF TrimEnd(line) = <<>> THEN line \o piece ELSE piece
        ink  == TrimEnd(word)
        bits == Break(ink, room)
    IN  CASE Fits(line \o piece, room) \/ Fits(line \o TrimEnd(piece), room) ->
               Append(Front(out), line \o piece)
          [] Fits(ink, room) -> Append(done, word)
          [] OTHER -> done \o Front(bits)
                        \o << Last(bits) \o SubSeq(word, Len(ink) + 1, Len(word)) >>

LayoutParagraph(p, room) ==
    IF Fits(TrimEnd(p), room) THEN <<p>>
    ELSE FoldLeft(LAMBDA out, piece : Place(out, piece, room), << <<>> >>, Pieces(p))

LayoutText(s, room) ==
    FoldLeft(LAMBDA out, p : out \o LayoutParagraph(p, room), <<>>, Paragraphs(ExpandTabs(s)))

\* The box is as wide as its widest line; spaces at a line's end do not count.
BoxWidth(ls) == Max({Wide(TrimEnd(ls[i])) : i \in DOMAIN ls})

\* The lines as a text, every break a hard one.
Joined(ls) == Tail(FoldLeft(LAMBDA s, l : s \o <<"newline">> \o l, <<>>, ls))

-----------------------------------------------------------------------------
PageWidth == IF width = 0 THEN Guess ELSE width
Room(x)   == ((Grid - x) * PageWidth) \div Grid

\* The box is as wide as its text, and moves left rather than cross the edge.
Laid(x, s) ==
    LET lines == LayoutText(s, Room(x))
        wide  == Min({PageWidth, Max({1, BoxWidth(lines)})}) * (Grid \div PageWidth)
    IN  [x |-> Min({x, Grid - wide}), text |-> s, lines |-> lines]

\* A change that changes nothing is no step.
Update(l, b) == IF b = l.box THEN l
                ELSE [l EXCEPT !.box = b, !.past = Append(@, l.box), !.future = <<>>]

\* A box laid out on a guess waits for the page's size; on the size, for nothing.
RelayWhenSized_Once(l) == IF width = 0 /\ l.guessed # 0 THEN l
                          ELSE [l EXCEPT !.guessed = IF width = 0 THEN Step(l) ELSE 0]
RelayWhenSized(l) == [l EXCEPT !.guessed = IF width = 0 THEN Step(l) ELSE 0]

RelayoutText(l, x, s) == IF There(l) THEN RelayWhenSized(Update(l, Laid(x, s))) ELSE l

\* The editor on the page is closed: what it holds is laid out, and an empty box goes.
Committed(l) ==
    LET kept == IF typed = l.box.text THEN l ELSE RelayoutText(l, l.box.x, typed)
    IN  CASE where # "page" \/ ~There(l) -> l
          [] Ink(kept.box.text) = <<>> -> Update(kept, Gone)
          [] OTHER -> kept

FinishEditing == IF where = "page" THEN where' = "none" /\ typed' = <<>>
                 ELSE UNCHANGED <<where, typed>>

\* What is typed on the page is shown in the lines it will be drawn in.
FlowText(s) ==
    LET flat  == ExpandTabs(s)
        lines == LayoutText(flat, Room(here.box.x))
    IN  IF Len(lines) > Len(Paragraphs(flat)) THEN Joined(lines) ELSE flat

-----------------------------------------------------------------------------
EditOnPage ==
    /\ There(here) /\ where # "page"
    /\ where' = "page" /\ typed' = here.box.text
    /\ UNCHANGED <<width, here>>

StartEditing ==
    /\ There(Committed(here)) /\ where # "margin"
    /\ where' = "margin" /\ typed' = Committed(here).box.text /\ here' = Committed(here)
    /\ UNCHANGED width

OnTextInput(s) ==
    /\ where # "none" /\ There(here)
    /\ typed' = IF where = "page" THEN FlowText(s) ELSE s
    /\ UNCHANGED <<width, here, where>>

EndEditing ==
    /\ where = "page"
    /\ here' = Committed(here) /\ FinishEditing /\ UNCHANGED width

CommitEditing ==
    /\ where = "margin"
    /\ here' = IF typed = here.box.text THEN here ELSE RelayoutText(here, here.box.x, typed)
    /\ where' = "none" /\ typed' = <<>> /\ UNCHANGED width

OnGeometryChanged(x) ==
    /\ There(Committed(here)) /\ x # here.box.x
    /\ LET l == Committed(here) IN here' = RelayoutText(l, x, l.box.text)
    /\ FinishEditing /\ UNCHANGED width

Undo ==
    LET l == Committed(here)
    IN  /\ l.past # <<>>
        /\ here' = [l EXCEPT !.box = Last(l.past), !.past = Front(@),
                             !.future = Append(@, l.box)]
        /\ FinishEditing /\ UNCHANGED width

Redo ==
    LET l == Committed(here)
    IN  /\ l.future # <<>>
        /\ here' = [l EXCEPT !.box = Last(l.future), !.past = Append(@, l.box),
                             !.future = Front(@)]
        /\ FinishEditing /\ UNCHANGED width

SizeArrives ==
    /\ width = 0 /\ width' = Actual
    /\ UNCHANGED <<here, where, typed>>

\* The effect: what waits and is still what it was is laid out again, within the step
\* that made it; what is no longer there does not wait.
Waiting == here.guessed # 0
Ready   == width # 0 /\ where # "page" /\ There(here) /\ here.guessed = Step(here)
Corrected(l) == [l EXCEPT !.box = Laid(l.box.x, l.box.text), !.guessed = 0]

Resize ==
    /\ Waiting
    /\ \/ Ready /\ here' = Corrected(here)
       \/ ~There(here) /\ here' = [here EXCEPT !.guessed = 0]
    /\ UNCHANGED <<width, where, typed>>

Init == \E x \in Places :
    /\ width = 0 /\ where = "page" /\ typed = <<>>
    /\ here = [box |-> Laid(x, <<>>), past |-> <<Gone>>, future |-> <<>>, guessed |-> 1]

Typings == {Append(typed, c) : c \in Keys} \cup {Front(typed) : t \in {typed} \ {<<>>}}

\* Effects run before the next event does.
Next == IF Waiting /\ (Ready \/ ~There(here)) THEN Resize
        ELSE \/ EditOnPage \/ StartEditing \/ EndEditing \/ CommitEditing \/ Undo \/ Redo
             \/ SizeArrives
             \/ \E s \in Typings : Len(s) <= MaxLength /\ OnTextInput(s)
             \/ \E x \in Places : OnGeometryChanged(x)

Bound == Step(here') <= MaxSteps
Spec  == Init /\ [][Next /\ Bound]_vars

\* A box that waits for its page's size is not undone out of existence; and undone to
\* before the step that waits, it is not put where it stands, which is no step but would
\* forget the wait.
Patient ==
    Waiting /\ There(here) =>
        /\ There(here') \/ Step(here') > Step(here)
        /\ here.guessed # Step(here) => here'.guessed = here.guessed \/ here'.future = <<>>

-----------------------------------------------------------------------------
Texts == Seq(Chars)
Boxes == [x : 0..Grid, text : Texts, lines : Seq(Seq({"letter", "space"}))]

TypeOK == /\ width \in {0, Actual} /\ where \in {"page", "margin", "none"} /\ typed \in Texts
          /\ here.box \in Boxes /\ here.past \in Seq(Boxes) /\ here.future \in Seq(Boxes)
          /\ here.guessed \in 0..(MaxSteps + 2)

(* Laying a text out keeps it, wherever the box stands: every letter is in the lines in its order,   *)
(* every hard break is a break, no empty line is made that was not typed,   *)
(* and laying the lines out again at their own width changes nothing.       *)
(* (layoutText: "Idempotent: laying the output out again at its own width   *)
(* reproduces it".)                                                         *)
LaidOutWhole == \A x \in Places :
    LET ls == LayoutText(typed, Room(x))
    IN  /\ Ink(FlattenSeq(ls)) = Ink(typed)
        /\ Len(ls) >= Len(Paragraphs(typed))
        /\ LayoutText(Joined(ls), BoxWidth(ls)) = ls
        /\ Ink(typed) = typed => typed = <<>> \/ \A i \in DOMAIN ls : ls[i] # <<>>

(* Once the page's size has come and the effects have run, a box that       *)
(* nobody has undone is as its words are laid out on that page, where it    *)
(* stands or where the edge has pushed it from, whatever was typed, moved   *)
(* or edited before; and no line crosses the edge unless one character      *)
(* alone does.  (The effect of relayWhenSized: "re-lays every box that was  *)
(* laid out without it".)                                                   *)
LaidOnItsPage ==
    There(here) /\ here.future = <<>> /\ width # 0 /\ ~Waiting =>
        /\ \E x \in here.box.x..Grid : here.box = Laid(x, here.box.text)
        /\ \A i \in DOMAIN here.box.lines :
               LET ink == TrimEnd(here.box.lines[i]) IN Fits(ink, Room(here.box.x)) \/ Len(ink) = 1
=============================================================================
