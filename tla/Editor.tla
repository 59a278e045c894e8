-------------------------------- MODULE Editor --------------------------------
(***************************************************************************)
(* The workspace of the Angular client, of parts that share no state here:  *)
(* the annotation session, the bar and its history, the edit, the forms and *)
(* the protect panel, and the overlay they draw through.  `part` says which *)
(* of them a behaviour is of; the others stay as they began.  Each part      *)
(* runs under the discipline its own module names for what it promises;      *)
(* annotations once more under none ("anyhow").                              *)
(***************************************************************************)
EXTENDS Integers, Sequences

CONSTANTS None, Limit, MaxVersion,
          Marks, MarkVersions,                  \* of AnnotationSession
          Docs, DocVersions,                    \* of Workspace
          Pages, Queries,                       \* of EditSession
          Names, Defs, Vals, MaxOps,            \* of FormsSession
          N, Stride, MaxStroke, MaxPoints,      \* of OverlayGesture
          Searches, Passwords, Matches          \* of ProtectSession

VARIABLES
    part,
    versions, annoSeen, saved, local, saving, editing, annoTyped, born, loads, annoJob,
    open, annoBusy,
    chain, route, barDoc, loading, listing, rows, more, cursor, barPicked, barAsked, op,
    barBusy,
    head, editSeen, editPage, cache, editAsks, staged, editPast, editFuture, editor,
    editPicked, editAsked, query, held, jobs, editBusy,
    files, formsSeen, model, formsAsks, values, ops, formsPast, formsFuture, sheet,
    formsAsked, formsJob, formsBusy,
    gesturePage, tool, item, selected, drag, pending, menu, out, gestureAsked, image, drew,
    seq, secret, protectDoc, shown, protectLoading, known, search, report, excluded, areas,
    protectPast, protectFuture, protectAsked, protectJob

annoVars == <<versions, annoSeen, saved, local, saving, editing, annoTyped, born, loads,
              annoJob, open, annoBusy>>
barVars == <<chain, route, barDoc, loading, listing, rows, more, cursor, barPicked,
             barAsked, op, barBusy>>
editVars == <<head, editSeen, editPage, cache, editAsks, staged, editPast, editFuture,
              editor, editPicked, editAsked, query, held, jobs, editBusy>>
formsVars == <<files, formsSeen, model, formsAsks, values, ops, formsPast, formsFuture,
               sheet, formsAsked, formsJob, formsBusy>>
gestureVars == <<gesturePage, tool, item, selected, drag, pending, menu, out, gestureAsked,
                 image, drew>>
protectVars == <<seq, secret, protectDoc, shown, protectLoading, known, search, report,
                 excluded, areas, protectPast, protectFuture, protectAsked, protectJob>>
vars == <<part, annoVars, barVars, editVars, formsVars, gestureVars, protectVars>>

Anno == INSTANCE AnnotationSession WITH MaxVersion <- MarkVersions,
    seen <- annoSeen, typed <- annoTyped, job <- annoJob, busy <- annoBusy
Bar == INSTANCE Workspace WITH MaxVersion <- DocVersions,
    doc <- barDoc, picked <- barPicked, asked <- barAsked, busy <- barBusy
Edit == INSTANCE EditSession WITH seen <- editSeen, page <- editPage, asks <- editAsks,
    past <- editPast, future <- editFuture, picked <- editPicked, asked <- editAsked,
    busy <- editBusy
Forms == INSTANCE FormsSession WITH seen <- formsSeen, asks <- formsAsks,
    past <- formsPast, future <- formsFuture, asked <- formsAsked, job <- formsJob,
    busy <- formsBusy
Gesture == INSTANCE OverlayGesture WITH Step <- Stride, page <- gesturePage,
    asked <- gestureAsked
Protect == INSTANCE ProtectSession WITH doc <- protectDoc, loading <- protectLoading,
    past <- protectPast, future <- protectFuture, asked <- protectAsked, job <- protectJob

ASSUME PartsAssumption ==
  /\ Anno!Assumptions /\ Bar!Assumptions /\ Edit!Assumptions
  /\ Forms!Assumptions /\ Gesture!Assumptions /\ Protect!Assumptions

Init == /\ part \in {"annotate", "anyhow", "bar", "history", "edit", "forms", "gesture",
                     "protect"}
        /\ Anno!Init /\ Bar!Init /\ Edit!Init
        /\ Forms!Init /\ Gesture!Init /\ Protect!Init

\* One part moves, as its module and the discipline it states allow.
Next == \/ /\ part = "annotate" /\ Anno!PatientNext /\ Anno!Retries
           /\ UNCHANGED <<part, barVars, editVars, formsVars, gestureVars, protectVars>>
        \/ /\ part = "anyhow" /\ Anno!Next
           /\ UNCHANGED <<part, barVars, editVars, formsVars, gestureVars, protectVars>>
        \/ /\ part = "bar" /\ Bar!Bar
           /\ UNCHANGED <<part, annoVars, editVars, formsVars, gestureVars, protectVars>>
        \/ /\ part = "history" /\ Bar!Next /\ Bar!Reads
           /\ UNCHANGED <<part, annoVars, editVars, formsVars, gestureVars, protectVars>>
        \/ /\ part = "edit" /\ Edit!OrderlyNext
           /\ UNCHANGED <<part, annoVars, barVars, formsVars, gestureVars, protectVars>>
        \/ /\ part = "forms" /\ Forms!OrderlyNext
           /\ UNCHANGED <<part, annoVars, barVars, editVars, gestureVars, protectVars>>
        \/ /\ part = "gesture" /\ Gesture!Next /\ Gesture!Sighted
           /\ UNCHANGED <<part, annoVars, barVars, editVars, formsVars, protectVars>>
        \/ /\ part = "protect" /\ Protect!Next /\ Protect!Patient
           /\ UNCHANGED <<part, annoVars, barVars, editVars, formsVars, gestureVars>>

Spec == Init /\ [][Next]_vars

-----------------------------------------------------------------------------
(* What the modules state, of the instances above.                         *)

\* The types of each part.
TypeOK == /\ part \in {"annotate", "anyhow"} => Anno!TypeOK
          /\ part \in {"bar", "history"} => Bar!TypeOK
          /\ part = "edit" => Edit!TypeOK
          /\ part = "forms" => Forms!TypeOK
          /\ part = "gesture" => Gesture!TypeOK
          /\ part = "protect" => Protect!TypeOK

\* What is drawn, changed or deleted leaves the browser only for a version of the file that
\* has it: no answer, conflict or reload loses it.
KeptUntilStored == [][part = "annotate" => Anno!Kept]_vars

\* No batch both writes and deletes a mark, also when nobody waits for anything.
OneFatePerMark == part \in {"annotate", "anyhow"} => Anno!OneFatePerMark

\* What is undone is what was done: the marks' undo and redo lose no state between them, the
\* bar's step from the version whose content is shown, and the History tab lists the versions
\* of the document shown, which is the one the address names.
HistoryIsTrue == [][/\ part = "anyhow" => Anno!Walked
                    /\ part \in {"bar", "history"} => Bar!CursorTellsTruth'
                    /\ part = "history" => (Bar!ShownIsNamed /\ Bar!RowsAreOfDocument)']_vars

\* What is done to a file is what was on screen: pages of the version they were selected in,
\* the occurrences and matches that were reviewed, edits of the text they were read from,
\* areas of the document they were drawn on; and the password kept is one that opens it.
SentIsSeen == [][/\ part \in {"bar", "history"} => Bar!Aimed
                 /\ part = "edit" => (Edit!ReviewedIsReplaced /\ Edit!StagedWhereRead)'
                 /\ part = "protect" => Protect!Removed /\ Protect!KeptOpens]_vars

\* What is drawn or built is made as it is shown: a shape whole and on its page, a form with
\* the fields the page shows.
ShownIsMade == /\ part = "gesture" => Gesture!ShapesStayOnPage /\ Gesture!EmittedIsWhole
               /\ part = "forms" => Forms!ShownIsMade /\ Forms!NothingRefused
=============================================================================
