----------------------------- MODULE Workspace ------------------------------
(***************************************************************************)
(* The document workspace of the Angular client: the document on screen    *)
(* and the requests that fetch it, the page selection, the operations the   *)
(* bar dispatches, and the bar's Undo and Redo, which walk through the       *)
(* versions of the file with reverts.  The server is the version chain of    *)
(* each document.                                                            *)
(*                                                                           *)
(* What a version holds is a number: an edit makes content of its own, a     *)
(* revert a copy of the target's.                                            *)
(***************************************************************************)
EXTENDS Integers, Sequences

CONSTANTS Docs, None,
          MaxVersion     \* versions of a document: a bound of the model

VARIABLES
    chain,     \* content of each version of each document
    route,     \* the document the address names
    doc,       \* viewer.doc(): its id and the version it is believed to be at
    loading,   \* the document whose GET is the current load's
    listing,   \* the document whose version list the current load has asked for
    rows,      \* documents the rows of the History tab belong to
    more,      \* "Show older versions" requests in flight
    cursor,    \* where the undo chain is
    picked,    \* where the selected pages were selected: document and version
    asked,     \* the selection Delete has asked about
    op,        \* the operation under way
    busy

vars == <<chain, route, doc, loading, listing, rows, more, cursor, picked, asked, op, busy>>

Assumptions == None \notin Docs /\ MaxVersion \in Nat \ {0}

At     == [id : Docs, seq : 1..MaxVersion]
Cursor == [ceiling : 1..MaxVersion, content : 1..MaxVersion, expected : 1..MaxVersion + 1]
NoOp   == [st |-> "idle", kind |-> "pages", on |-> None, base |-> 0, target |-> 0,
           picked |-> None, chain |-> None, made |-> 0]
Newest(d) == Len(chain[d])

-----------------------------------------------------------------------------
(* Loading.                                                                 *)

\* A load supersedes the one before: its GET and its list are the ones listened to.
Load(d) == loading' = d /\ listing' = d

\* Fetch what is on screen again; nothing on screen, nothing fetched.
Reload(d) == IF d = None THEN UNCHANGED <<loading, listing>> ELSE Load(d.id)

\* (A new version of the same document keeps the selection.)
Reselect_ByDocument(d, e) == picked' = IF d # None /\ d.id = e.id THEN picked ELSE None

\* The selection is cleared when the version number, or the number of pages, changes.
Reselect(d, e) == picked' \in IF d # None /\ e # None /\ d.seq = e.seq
                              THEN IF d.id = e.id THEN {picked} ELSE {picked, None}
                              ELSE {None}

\* The address bar, a link or Back: the same component loads another document.
Navigate(d) ==
    /\ d # route
    /\ route' = d /\ Load(d)
    /\ UNCHANGED <<chain, doc, rows, more, cursor, picked, asked, op, busy>>

LoadAnswer ==
    /\ loading # None
    /\ doc' = [id |-> loading, seq |-> Newest(loading)]
    /\ Reselect(doc, doc')
    /\ loading' = None
    /\ UNCHANGED <<chain, route, listing, rows, more, cursor, asked, op, busy>>

\* A document that will not load is not shown, nor is the one before.
LoadFails ==
    /\ loading # None
    /\ doc' = None /\ rows' = {} /\ picked' = None
    /\ loading' = None
    /\ UNCHANGED <<chain, route, listing, more, cursor, asked, op, busy>>

\* (A list that will not load leaves the one before.)
ListAnswer_KeepsRows(ok) ==
    /\ listing # None
    /\ rows' = IF ok THEN {listing} ELSE rows
    /\ listing' = None
    /\ UNCHANGED <<chain, route, doc, loading, more, cursor, picked, asked, op, busy>>

ListAnswer(ok) ==
    /\ listing # None
    /\ rows' = IF ok THEN {listing} ELSE {}
    /\ listing' = None
    /\ UNCHANGED <<chain, route, doc, loading, more, cursor, picked, asked, op, busy>>

MoreRows == /\ doc # None /\ rows # {}
            /\ more' = more \union {doc.id}
            /\ UNCHANGED <<chain, route, doc, loading, listing, rows, cursor, picked, asked,
                           op, busy>>

\* Older rows are appended to the list, whichever it is by now.
MoreAnswer(d, ok) ==
    /\ d \in more
    /\ more' = more \ {d}
    /\ rows' = IF ok THEN rows \union {d} ELSE rows
    /\ UNCHANGED <<chain, route, doc, loading, listing, cursor, picked, asked, op, busy>>

-----------------------------------------------------------------------------
(* Selecting and operating.                                                 *)

Select == /\ doc # None /\ picked = None
          /\ picked' = doc
          /\ UNCHANGED <<chain, route, doc, loading, listing, rows, more, cursor, asked, op, busy>>

Dispatch(kind, sel) ==
    /\ op.st = "idle"
    /\ op' = [NoOp EXCEPT !.st = "sent", !.kind = kind, !.on = doc.id, !.base = doc.seq,
                          !.picked = sel]
    /\ busy' = TRUE

\* Rotate, duplicate, scale, extract, split: at once, on what is selected.
Run(kind) ==
    /\ doc # None /\ picked # None
    /\ Dispatch(kind, picked)
    /\ UNCHANGED <<chain, route, doc, loading, listing, rows, more, cursor, picked, asked>>

\* Delete reads the selection, asks, and goes on with what it read.
AskDelete == /\ doc # None /\ picked # None /\ asked = None
             /\ asked' = picked
             /\ UNCHANGED <<chain, route, doc, loading, listing, rows, more, cursor, picked,
                            op, busy>>

AnswerDelete(yes) ==
    /\ asked # None
    /\ asked' = None
    /\ IF yes /\ doc # None THEN Dispatch("pages", asked) ELSE UNCHANGED <<op, busy>>
    /\ UNCHANGED <<chain, route, doc, loading, listing, rows, more, cursor, picked>>

-----------------------------------------------------------------------------
(* Undo and redo through the versions.                                      *)

Live     == cursor # None /\ doc # None /\ cursor.expected = doc.seq
ShownSeq == IF Live THEN cursor.content ELSE doc.seq
CanUndo  == doc # None /\ ShownSeq > 1
CanRedo  == Live /\ cursor.content < cursor.ceiling

\* A revert names no base: the server takes the head it finds.
Revert(target, link) ==
    /\ op.st = "idle"
    /\ op' = [NoOp EXCEPT !.st = "sent", !.kind = "revert", !.on = doc.id,
                          !.base = Newest(doc.id), !.target = target, !.chain = link]
    /\ busy' = TRUE

StepVersion(target) ==
    /\ ~busy
    /\ Revert(target, [ceiling |-> IF Live THEN cursor.ceiling ELSE doc.seq,
                       content |-> target, expected |-> doc.seq + 1])
    /\ UNCHANGED <<chain, route, doc, loading, listing, rows, more, cursor, picked, asked>>

UndoLastChange == CanUndo /\ StepVersion(ShownSeq - 1)
RedoLastChange == CanRedo /\ StepVersion(ShownSeq + 1)

\* "Revert to this", on a row of the History tab that is not the version shown, is no step
\* of a chain.
RevertTo(seq) ==
    /\ doc # None /\ rows # {} /\ seq \in (1..Newest(doc.id)) \ {doc.seq}
    /\ Revert(seq, None)
    /\ UNCHANGED <<chain, route, doc, loading, listing, rows, more, cursor, picked, asked>>

-----------------------------------------------------------------------------
(* The server, and what the workspace does when it hears.                   *)

JobWorks ==
    /\ op.st = "sent" /\ op.base = Newest(op.on)
    /\ IF op.kind = "documents"                \* split, extract: another document
       THEN op' = [op EXCEPT !.st = "succeeded"] /\ UNCHANGED chain
       ELSE /\ Newest(op.on) < MaxVersion
            /\ chain' = [chain EXCEPT ![op.on] = Append(@,
                            IF op.kind = "revert" THEN @[op.target] ELSE Len(@) + 1)]
            /\ op' = [op EXCEPT !.st = "succeeded", !.made = Newest(op.on) + 1]
    /\ UNCHANGED <<route, doc, loading, listing, rows, more, cursor, picked, asked, busy>>

JobRefused(st) ==
    /\ op.st = "sent" /\ (st = "conflict" => op.base # Newest(op.on))
    /\ op' = [op EXCEPT !.st = st]
    /\ UNCHANGED <<chain, route, doc, loading, listing, rows, more, cursor, picked, asked, busy>>

OtherTab(d) == /\ Newest(d) < MaxVersion
               /\ chain' = [chain EXCEPT ![d] = Append(@, Len(@) + 1)]
               /\ UNCHANGED <<route, doc, loading, listing, rows, more, cursor, picked, asked,
                              op, busy>>

\* The version the job made is the document's, if the job was on the document shown;
\* either way what is shown is fetched again.
Adopted == IF doc # None /\ doc.id = op.on THEN [doc EXCEPT !.seq = op.made] ELSE doc

\* A finished revert of a chain says where the chain now is.
CommitCursor == IF op.kind = "revert" /\ op.chain # None
                THEN cursor' = [op.chain EXCEPT !.expected = op.made]
                ELSE UNCHANGED cursor

OpSucceeded ==
    /\ op.st = "succeeded" /\ op.kind # "documents"
    /\ doc' = Adopted /\ picked' = None
    /\ Reload(Adopted) /\ CommitCursor
    /\ op' = NoOp /\ busy' = FALSE
    /\ UNCHANGED <<chain, route, rows, more, asked>>

\* Split and extract go on to the document they made.
DocumentsMade(d) ==
    /\ op.st = "succeeded" /\ op.kind = "documents" /\ d # op.on
    /\ route' = d /\ (IF d = route THEN UNCHANGED <<loading, listing>> ELSE Load(d))
    /\ op' = NoOp /\ busy' = FALSE
    /\ UNCHANGED <<chain, doc, rows, more, cursor, picked, asked>>

HandleFailure ==
    /\ op.st \in {"conflict", "failed"}
    /\ IF op.st = "conflict" THEN Reload(doc) ELSE UNCHANGED <<loading, listing>>
    /\ op' = NoOp /\ busy' = FALSE
    /\ UNCHANGED <<chain, route, doc, rows, more, cursor, picked, asked>>

-----------------------------------------------------------------------------
Init == /\ chain = [d \in Docs |-> <<1>>]
        /\ route \in Docs /\ doc = None
        /\ loading = route /\ listing = route /\ rows = {} /\ more = {}
        /\ cursor = None /\ picked = None /\ asked = None
        /\ op = NoOp /\ busy = FALSE

Panel == \/ MoreRows
         \/ \E ok \in BOOLEAN : ListAnswer(ok) \/ \E d \in Docs : MoreAnswer(d, ok)
Bar   == \/ LoadAnswer \/ LoadFails
         \/ Select \/ AskDelete \/ UndoLastChange \/ RedoLastChange
         \/ \E kind \in {"pages", "documents"} : Run(kind)
         \/ \E yes \in BOOLEAN : AnswerDelete(yes)
         \/ \E seq \in 1..MaxVersion : RevertTo(seq)
         \/ \E d \in Docs : Navigate(d) \/ OtherTab(d) \/ DocumentsMade(d)
         \/ JobWorks \/ \E st \in {"conflict", "failed"} : JobRefused(st)
         \/ OpSucceeded \/ HandleFailure

\* The bar behaves the same without the History tab, whose list is only read.
Next == Bar \/ Panel

Spec == Init /\ [][Next]_vars

-----------------------------------------------------------------------------
TypeOK ==
    /\ \A d \in Docs : Newest(d) \in 1..MaxVersion
    /\ route \in Docs /\ doc \in At \union {None}
    /\ {loading, listing} \subseteq Docs \union {None} /\ rows \subseteq Docs /\ more \subseteq Docs
    /\ cursor \in Cursor \union {None} /\ {picked, asked} \subseteq At \union {None}
    /\ op.st \in {"idle", "sent", "succeeded", "conflict", "failed"} /\ busy \in BOOLEAN

\* While the undo chain is live, the version it says is shown holds what the head holds: the
\* next Undo and Redo step from there, whatever was opened, reloaded or operated on since.
EndsByArithmetic == Live => chain[doc.id][doc.seq] = chain[doc.id][cursor.content]

\* The chain knows a version by its number, of whichever document is shown, and so it is true
\* as long as no other document has a version of that number that was reverted to.
Reverted(d, n)   == n <= Newest(d) /\ chain[d][n] # n
CursorTellsTruth == Live /\ (\A d \in Docs \ {doc.id} : ~Reverted(d, cursor.expected))
                        => EndsByArithmetic

\* Pages selected in this document and operated on at once are operated on in the
\* version they were selected in.
Aimed == \A kind \in {"pages", "documents"} :
            (Run(kind) /\ picked.id = doc.id) => picked.seq = doc.seq

\* With nothing in flight, what is shown is what the address names.
ShownIsNamed == loading = None /\ doc # None => doc.id = route

\* With nothing in flight, the rows of the History tab are of the document shown.
RowsAreOfDocument == loading = None /\ listing = None /\ more = {} /\ doc # None
                        => rows \subseteq {doc.id}

\* Somebody who reads the History tab operates on the document the address names and stays
\* there until the answer has come, and asks for older rows of what has been loaded, and waits
\* for them before going on.
Reads == /\ op.st = "idle" /\ op'.st # "idle" => doc.id = route
         /\ op'.st # "idle" => route' = route
         /\ more' # {} => loading' = None /\ listing' = None /\ op'.st = "idle"
=============================================================================
