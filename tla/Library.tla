------------------------------ MODULE Library -------------------------------
(***************************************************************************)
(* The dashboard's list of documents: a window onto the server's ordering   *)
(* under a filter, grown by "Load more" and reloaded by nearly everything,  *)
(* with the card's own changes applied on screen before the server answers. *)
(*                                                                           *)
(* The Starred filter stands for every filter a change to a document can    *)
(* take it out of; a search is one too.                                     *)
(***************************************************************************)
EXTENDS Integers, Sequences, FiniteSets, SequencesExt, Lists

CONSTANTS Docs, PageSize

VARIABLES
    order,       \* the server's documents, the latest updated first
    binned,      \* those in the trash
    starred,     \* those with a star
    writes,      \* what has been asked about each document, until it is answered
    uploads,     \* documents being uploaded
    filter,      \* the filter on screen
    shown,       \* DocumentsFacade.documents
    offset, hasMore, loading,
    load,        \* the current load, and the window it was answered
    stale,       \* a load that has been superseded is still out
    more,        \* the "Load more" in flight; `fresh` while its generation is current
    answered     \* the list answers the filter on screen (not in the code)

vars == <<order, binned, starred, writes, uploads, filter, shown, offset, hasMore, loading,
          load, stale, more, answered>>
server == <<order, binned, starred>>
list   == <<shown, offset, hasMore, loading, load, stale, more, answered>>

Assumptions == PageSize \in Nat \ {0} /\ IsFiniteSet(Docs)

Filters == {"library", "starred", "bin"}
Kinds   == {"trash", "restore", "purge", "star", "unstar", "rename"}
NoWrite == [kind |-> "none", st |-> "no"]
Windows == [st : {"no", "sent", "read"}, at : Nat, rows : Seq(Docs), next : BOOLEAN,
            fresh : BOOLEAN]
NoWindow == [st |-> "no", at |-> 0, rows |-> <<>>, next |-> FALSE, fresh |-> FALSE]
Ask(from) == [NoWindow EXCEPT !.st = "sent", !.at = from, !.fresh = TRUE]

-----------------------------------------------------------------------------
(* The server's list.                                                       *)

Under(d, f) == CASE f = "library" -> d \notin binned
                 [] f = "starred" -> d \notin binned /\ d \in starred
                 [] f = "bin"     -> d \in binned
Listed(f) == Filtered(order, {d \in Docs : Under(d, f)})

Rows(f, from, to) == SubSeq(Listed(f), from + 1, IF to < Len(Listed(f)) THEN to ELSE Len(Listed(f)))

\* A window of the list, and whether there is more behind it.
Read(w) == [w EXCEPT !.st = "read",
                     !.rows = Rows(filter, w.at, w.at + PageSize),
                     !.next = w.at + PageSize < Len(Listed(filter))]

Without(s, d) == Filtered(s, Docs \ {d})

\* What a change does; whatever is changed becomes the latest updated.
Apply(d, kind) ==
    /\ order' = IF kind = "purge" THEN Without(order, d) ELSE <<d>> \o Without(order, d)
    /\ binned' = CASE kind = "trash" -> binned \cup {d}
                   [] kind \in {"restore", "purge"} -> binned \ {d}
                   [] OTHER -> binned
    /\ starred' = CASE kind = "star" -> starred \cup {d}
                    [] kind \in {"unstar", "purge"} -> starred \ {d}
                    [] OTHER -> starred

-----------------------------------------------------------------------------
(* Loading.                                                                 *)

\* A new generation: the load before it, and a "Load more" under way, are dropped.
Load ==
    /\ loading' = TRUE /\ load' = Ask(0) /\ offset' = 0 /\ answered' = FALSE
    /\ stale' = (stale \/ load.st # "no")
    /\ more' = [more EXCEPT !.fresh = FALSE]
    /\ UNCHANGED <<shown, hasMore>>

SetFilter(f) ==
    /\ f # filter /\ filter' = f
    /\ Load
    /\ UNCHANGED <<server, writes, uploads>>

LoadServed ==
    /\ load.st = "sent"
    /\ load' = Read(load)
    /\ UNCHANGED <<server, writes, uploads, filter, shown, offset, hasMore, loading, stale, more, answered>>

LoadAnswer ==
    /\ load.st = "read"
    /\ shown' = load.rows /\ offset' = Len(load.rows) /\ hasMore' = load.next
    /\ loading' = FALSE /\ answered' = TRUE
    /\ load' = NoWindow
    /\ UNCHANGED <<server, writes, uploads, filter, stale, more>>

LoadFails ==
    /\ load.st # "no" /\ load' = NoWindow
    /\ loading' = FALSE
    /\ UNCHANGED <<server, writes, uploads, filter, shown, offset, hasMore, stale, more, answered>>

\* A superseded load's rows are dropped; its error still ends the waiting.  There may be others.
StaleAnswer(bad) ==
    /\ stale /\ stale' \in BOOLEAN
    /\ loading' = (loading /\ ~bad)
    /\ UNCHANGED <<server, writes, uploads, filter, shown, offset, hasMore, load, more, answered>>

LoadMore ==
    /\ ~loading /\ more.st = "no" /\ hasMore
    /\ more' = Ask(offset)
    /\ UNCHANGED <<server, writes, uploads, filter, shown, offset, hasMore, loading, load, stale, answered>>

MoreServed ==
    /\ more.st = "sent"
    /\ more' = Read(more)
    /\ UNCHANGED <<server, writes, uploads, filter, shown, offset, hasMore, loading, load, stale, answered>>

\* (Every row of the window is appended.)
MoreAnswer_Undeduped ==
    /\ more.st = "read"
    /\ IF more.fresh
       THEN /\ offset' = offset + Len(more.rows)
            /\ hasMore' = more.next
            /\ shown' = shown \o more.rows
       ELSE UNCHANGED <<offset, hasMore, shown>>
    /\ more' = NoWindow
    /\ UNCHANGED <<server, writes, uploads, filter, loading, load, stale, answered>>

\* Rows already on screen are not appended again.
MoreAnswer ==
    /\ more.st = "read"
    /\ IF more.fresh
       THEN /\ offset' = offset + Len(more.rows)
            /\ hasMore' = more.next
            /\ shown' = shown \o Filtered(more.rows, Docs \ ToSet(shown))
       ELSE UNCHANGED <<offset, hasMore, shown>>
    /\ more' = NoWindow
    /\ UNCHANGED <<server, writes, uploads, filter, loading, load, stale, answered>>

MoreFails ==
    /\ more.st # "no" /\ more' = NoWindow
    /\ UNCHANGED <<server, writes, uploads, filter, shown, offset, hasMore, loading, load, stale, answered>>

-----------------------------------------------------------------------------
(* The cards.                                                               *)

\* Which changes a card offers, and which take the row off the screen at once.
Offers(d, kind) == IF filter = "bin" THEN kind \in {"restore", "purge"}
                   ELSE kind \in {"trash", "star", "unstar", "rename"}
Removes(kind)   == kind \in {"trash", "restore", "purge"}

Change(d, kind) ==
    /\ ~loading /\ d \in ToSet(shown) /\ writes[d] = NoWrite
    /\ Offers(d, kind)
    /\ writes' = [writes EXCEPT ![d] = [kind |-> kind, st |-> "asked"]]
    /\ IF Removes(kind)
       THEN /\ shown' = Without(shown, d)
            /\ offset' = IF offset > 0 THEN offset - 1 ELSE 0
       ELSE UNCHANGED <<shown, offset>>
    /\ UNCHANGED <<server, uploads, filter, hasMore, loading, load, stale, more, answered>>

ChangeServed(d, ok) ==
    /\ writes[d].st = "asked"
    /\ IF ok /\ d \in ToSet(order) THEN Apply(d, writes[d].kind) ELSE UNCHANGED server
    /\ writes' = [writes EXCEPT ![d].st = IF ok /\ d \in ToSet(order) THEN "done" ELSE "refused"]
    /\ UNCHANGED <<uploads, filter, list>>

\* A refusal reloads the list; so does a change that takes its row out of the filter.
ChangeAnswer(d) ==
    /\ writes[d].st \in {"done", "refused"}
    /\ IF \/ writes[d].st = "refused"
          \/ filter = "starred" /\ writes[d].kind = "unstar"
       THEN Load
       ELSE UNCHANGED list
    /\ writes' = [writes EXCEPT ![d] = NoWrite]
    /\ UNCHANGED <<server, uploads, filter>>

\* Files dropped on the dashboard go up, or are converted, in parallel; so is an address that
\* is imported.  Each success reloads.
Upload(d) ==
    /\ d \notin ToSet(order) /\ uploads[d] = "no"
    /\ uploads' = [uploads EXCEPT ![d] = "sent"]
    /\ UNCHANGED <<server, writes, filter, list>>

UploadServed(d) ==
    /\ uploads[d] = "sent"
    /\ order' = <<d>> \o order
    /\ uploads' = [uploads EXCEPT ![d] = "done"]
    /\ UNCHANGED <<binned, starred, writes, filter, list>>

UploadAnswer(d) ==
    /\ uploads[d] = "done"
    /\ uploads' = [uploads EXCEPT ![d] = "no"]
    /\ Load
    /\ UNCHANGED <<server, writes, filter>>

UploadFails(d) ==
    /\ uploads[d] = "sent"
    /\ uploads' = [uploads EXCEPT ![d] = "no"]
    /\ UNCHANGED <<server, writes, filter, list>>

-----------------------------------------------------------------------------
Init ==
    /\ \E there \in SUBSET Docs : order = SetToSeq(there)
    /\ binned = {} /\ starred = {}
    /\ writes = [d \in Docs |-> NoWrite] /\ uploads = [d \in Docs |-> "no"]
    /\ filter = "library" /\ shown = <<>> /\ offset = 0 /\ hasMore = FALSE
    /\ loading = TRUE /\ load = Ask(0) /\ stale = FALSE
    /\ more = NoWindow /\ answered = FALSE

Next ==
    \/ \E f \in Filters : SetFilter(f)
    \/ LoadServed \/ LoadAnswer \/ LoadFails
    \/ LoadMore \/ MoreServed \/ MoreAnswer \/ MoreFails
    \/ \E yes \in BOOLEAN : StaleAnswer(yes) \/ \E d \in Docs : ChangeServed(d, yes)
    \/ \E d \in Docs, kind \in Kinds : Change(d, kind)
    \/ \E d \in Docs : \/ ChangeAnswer(d)
                       \/ Upload(d) \/ UploadServed(d) \/ UploadAnswer(d) \/ UploadFails(d)

Spec == Init /\ [][Next]_vars

\* How the list is used when a person does one thing at a time: a card is changed, and the
\* filter set, once the change and the window before it are in; and no superseded load fails.
Changing == {d \in Docs : writes[d] # NoWrite}
OneAtATime ==
    /\ Changing = {} /\ Changing' # {} => more.st = "no" /\ \A d \in Docs : uploads[d] = "no"
    /\ Changing # {} => /\ Changing' \subseteq Changing
                        /\ filter' = filter /\ more' = more /\ uploads' = uploads
    /\ stale /\ loading /\ ~loading' => load # NoWindow /\ load' = NoWindow

-----------------------------------------------------------------------------
TypeOK ==
    /\ order \in Seq(Docs) /\ binned \subseteq ToSet(order) /\ starred \subseteq ToSet(order)
    /\ writes \in [Docs -> [kind : Kinds, st : {"asked", "done", "refused"}] \cup {NoWrite}]
    /\ uploads \in [Docs -> {"no", "sent", "done"}]
    /\ filter \in Filters /\ shown \in Seq(Docs) /\ offset \in Nat
    /\ {hasMore, loading, stale, answered} \subseteq BOOLEAN
    /\ load \in Windows /\ more \in Windows

(* Whatever arrives in whatever order, no document is on screen twice.      *)
(* (DocumentsFacade.loadMore: "Deduped by id because -updated_at is not a   *)
(* stable sort key".)                                                       *)
NoRowTwice == \A i, j \in DOMAIN shown : shown[i] = shown[j] => i = j

(* When nothing is in flight, every document the server lists inside the    *)
(* window that has been consumed is on screen; when there is no more to     *)
(* load, that is every document of the filter.  (DocumentsFacade.offset and *)
(* toggleStar: "reporting a complete list that is missing a document".)     *)
Settled == /\ answered /\ Changing = {}
           /\ load.st = "no" /\ more.st = "no"
           /\ \A d \in Docs : uploads[d] = "no"
NothingSkipped ==
    Settled => ToSet(IF hasMore THEN Rows(filter, 0, offset) ELSE Listed(filter))
                   \subseteq ToSet(shown)
=============================================================================
