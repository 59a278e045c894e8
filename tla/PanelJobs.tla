------------------------------ MODULE PanelJobs -------------------------------
(***************************************************************************)
(* The workspace's Convert and Compare panels.  Each runs one job at a time *)
(* and keeps the answer in a facade that outlives the panel: the report of  *)
(* a comparison, the last export.  A panel that closes hears of nothing.    *)
(***************************************************************************)
EXTENDS Integers, FiniteSets

CONSTANTS Docs, None,
          Offsets,     \* page offsets a person types
          Formats,     \* formats exported to
          MaxPages     \* page pairs of a report: a bound of the model

VARIABLES
    doc,         \* the document in the workspace
    mode,        \* the panel that is open
    candidates,  \* Compare: the documents offered; None until they are listed
    other, offset, report, selected,   \* CompareFacade
    page,        \* Compare: the pair on screen
    compare,     \* the comparison under way
    lastExport,  \* ConvertFacade
    pending,     \* Convert: the format whose note is shown
    force,       \* Convert: text that is there is recognised again
    convert      \* Convert: its job under way

vars == <<doc, mode, candidates, other, offset, report, selected, page, compare,
          lastExport, pending, force, convert>>
comparing  == <<candidates, other, offset, report, selected, page, compare>>
converting == <<lastExport, pending, force, convert>>

Assumptions == None \notin Docs \cup Formats /\ 0 \in Offsets /\ MaxPages \in Nat \ {0}

\* A report pairs pages; `rows` are the pairs with a change, each a row of the list.
Reports == [doc : Docs, other : Docs, offset : Offsets, count : 1..MaxPages, rows : SUBSET (0..MaxPages - 1)]
Ends    == {"sent", "ok", "failed", "already"}
Pairs   == IF report = None THEN {} ELSE 0..(report.count - 1)
Started(kind) == [st |-> "sent", doc |-> doc, kind |-> kind]

-----------------------------------------------------------------------------
(* Compare.                                                                 *)

\* The documents to compare with are listed again for every document; so that list may be
\* of the one before for a moment.
Listed(ok) ==
    /\ mode = "compare"
    /\ candidates' = IF ok THEN Docs \ {doc} ELSE {}
    /\ UNCHANGED <<doc, mode, other, offset, report, selected, page, compare, converting>>

\* (The report that is there stays.)
SetOther_KeepsReport(o) ==
    /\ mode = "compare" /\ candidates # None /\ o \in candidates \cup {None}
    /\ other' = o
    /\ UNCHANGED <<doc, mode, candidates, offset, report, selected, page, compare, converting>>

\* A report that is there goes with the document it compares to.
SetOther(o) ==
    /\ mode = "compare" /\ candidates # None /\ o \in candidates \cup {None}
    /\ other' = o /\ report' = None /\ selected' = None
    /\ UNCHANGED <<doc, mode, candidates, offset, page, compare, converting>>

SetOffset(n) ==
    /\ mode = "compare" /\ offset # n
    /\ offset' = n
    /\ UNCHANGED <<doc, mode, candidates, other, report, selected, page, compare, converting>>

RunCompare ==
    /\ mode = "compare" /\ compare = None /\ other # None
    /\ compare' = [st |-> "sent", doc |-> doc, other |-> other, offset |-> offset]
    /\ UNCHANGED <<doc, mode, candidates, other, offset, report, selected, page, converting>>

CompareServed(ok) ==
    /\ compare # None /\ compare.st = "sent"
    /\ compare' = [compare EXCEPT !.st = IF ok THEN "ok" ELSE "failed"]
    /\ UNCHANGED <<doc, mode, candidates, other, offset, report, selected, page, converting>>

\* The report replaces the one there was, and is shown from its first pair.
CompareAnswer ==
    /\ compare # None /\ compare.st \in {"ok", "failed"}
    /\ IF compare.st = "ok"
       THEN /\ \E n \in 1..MaxPages : \E rows \in SUBSET (0..(n - 1)) :
                  report' = [doc |-> compare.doc, other |-> compare.other,
                             offset |-> compare.offset, count |-> n, rows |-> rows]
            /\ selected' = None /\ page' = 0
       ELSE UNCHANGED <<report, selected, page>>
    /\ compare' = None
    /\ UNCHANGED <<doc, mode, candidates, other, offset, converting>>

\* A row of the list, or a mark on the page.
GoTo(row) ==
    /\ mode = "compare" /\ report # None /\ row \in report.rows
    /\ selected' = row /\ page' = row
    /\ UNCHANGED <<doc, mode, candidates, other, offset, report, compare, converting>>

\* (Also before the first pair.)
PrevPage_Blindly ==
    /\ mode = "compare"
    /\ page' = page - 1
    /\ UNCHANGED <<doc, mode, candidates, other, offset, report, selected, compare, converting>>

PrevPage ==
    /\ mode = "compare" /\ page > 0
    /\ page' = page - 1
    /\ UNCHANGED <<doc, mode, candidates, other, offset, report, selected, compare, converting>>

NextPage ==
    /\ mode = "compare" /\ page + 1 \in Pairs
    /\ page' = page + 1
    /\ UNCHANGED <<doc, mode, candidates, other, offset, report, selected, compare, converting>>

-----------------------------------------------------------------------------
(* Convert.                                                                 *)

RunExport(format) ==
    /\ mode = "convert" /\ convert = None
    /\ pending' = format
    /\ convert' = Started("export")
    /\ UNCHANGED <<doc, mode, lastExport, force, comparing>>

\* Recognising text, and repairing.
RunOperation(kind) ==
    /\ mode = "convert" /\ convert = None
    /\ convert' = Started(kind)
    /\ UNCHANGED <<doc, mode, lastExport, pending, force, comparing>>

\* Text is not recognised twice unless it is forced.
ConvertServed(end) ==
    /\ convert # None /\ convert.st = "sent"
    /\ end = "already" => convert.kind = "ocr" /\ ~force
    /\ convert' = [convert EXCEPT !.st = end]
    /\ UNCHANGED <<doc, mode, lastExport, pending, force, comparing>>

\* An export is offered for download; one that fails leaves the one before on offer.
ConvertAnswer ==
    /\ convert # None /\ convert.st # "sent"
    /\ lastExport' = IF convert.kind = "export" /\ convert.st = "ok"
                     THEN [doc |-> convert.doc] ELSE lastExport
    /\ pending' = IF convert.kind = "export" /\ convert.st # "ok" THEN None ELSE pending
    /\ force' = (force \/ convert.st = "already")
    /\ convert' = None
    /\ UNCHANGED <<doc, mode, comparing>>

ToggleForce ==
    /\ mode = "convert" /\ force' = ~force
    /\ UNCHANGED <<doc, mode, lastExport, pending, convert, comparing>>

\* What Convert does for a document it has not shown.
Forget == lastExport' = None /\ pending' = None

-----------------------------------------------------------------------------
(* The workspace.                                                           *)

\* A panel comes and goes with its own state; what the facades keep stays.
Open(m) ==
    /\ m # mode /\ mode' = m
    /\ compare' = None /\ convert' = None
    /\ IF m = "compare" THEN candidates' = None /\ page' = 0 ELSE UNCHANGED <<candidates, page>>
    /\ IF m = "convert" THEN Forget /\ force' = FALSE ELSE UNCHANGED <<lastExport, pending, force>>
    /\ UNCHANGED <<doc, other, offset, report, selected>>

\* Another document in the same panel.
Navigate(d) ==
    /\ d # doc /\ doc' = d
    /\ IF mode = "convert" THEN Forget ELSE UNCHANGED <<lastExport, pending>>
    /\ UNCHANGED <<mode, comparing, force, convert>>

\* The compare tool's page opens the workspace on two documents it has uploaded.
OpenCompared(d, o) ==
    /\ mode = "view" /\ d # doc /\ o # d
    /\ doc' = d /\ mode' = "compare" /\ candidates' = None /\ page' = 0
    /\ other' = o /\ report' = None /\ selected' = None
    /\ UNCHANGED <<offset, compare, converting>>

-----------------------------------------------------------------------------
Init == /\ doc \in Docs /\ mode = "view"
        /\ candidates = None /\ other = None /\ offset = 0 /\ report = None /\ selected = None
        /\ page = 0 /\ compare = None
        /\ lastExport = None /\ pending = None /\ force = FALSE /\ convert = None

Next == \/ \E ok \in BOOLEAN : Listed(ok) \/ CompareServed(ok)
        \/ \E o \in Docs \cup {None} : SetOther(o)
        \/ \E n \in Offsets : SetOffset(n)
        \/ RunCompare \/ CompareAnswer \/ PrevPage \/ NextPage
        \/ \E row \in 0..(MaxPages - 1) : GoTo(row)
        \/ \E format \in Formats : RunExport(format)
        \/ \E kind \in {"ocr", "repair"} : RunOperation(kind)
        \/ \E end \in Ends \ {"sent"} : ConvertServed(end)
        \/ ConvertAnswer \/ ToggleForce
        \/ \E m \in {"view", "compare", "convert"} : Open(m)
        \/ \E d \in Docs : Navigate(d) \/ \E o \in Docs : OpenCompared(d, o)

Spec == Init /\ [][Next]_vars

\* Somebody who leaves alone, until the answer comes, the document a comparison is with and
\* the one an export is of.
Waits == /\ compare # None /\ compare' # None => other' = other
         /\ convert # None /\ convert' # None => doc' = doc

-----------------------------------------------------------------------------
TypeOK ==
    /\ doc \in Docs /\ mode \in {"view", "compare", "convert"}
    /\ (candidates = None \/ candidates \subseteq Docs)
    /\ other \in Docs \cup {None} /\ offset \in Offsets /\ page \in Nat
    /\ (report = None \/ report \in Reports)
    /\ (compare = None \/ compare.st \in Ends) /\ (convert = None \/ convert.st \in Ends)
    /\ pending \in Formats \cup {None} /\ force \in BOOLEAN

(* The panel shows answers to what it is asked about: the report on screen  *)
(* compares with the document chosen, the pair and the row on screen are in  *)
(* it, and the export offered is the document's.  (CompareFacade.setOther;   *)
(* Convert: "without this the panel kept offering the download after the     *)
(* user moved to another document".  Compare does nothing of the kind: the   *)
(* document compared may be the one that was open before.)                   *)
AnswersAreOfDocument ==
    /\ mode = "compare" /\ report # None =>
          /\ report.other = other
          /\ page \in Pairs
          /\ selected # None => selected \in report.rows
    /\ mode = "convert" /\ lastExport # None => lastExport.doc = doc
=============================================================================
