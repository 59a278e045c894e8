---------------------------- MODULE EditSession -----------------------------
(***************************************************************************)
(* The content-editing session of the Angular client: the per-page cache of *)
(* what is on a page, the block edits staged over it with their undo        *)
(* history, the open editor, the reviewed find & replace, and the           *)
(* operations that go straight to the server.                               *)
(*                                                                          *)
(* What a block, an image, a link or a match is lies in the version and on  *)
(* the page it was read from, so that is what the model keeps of it.        *)
(***************************************************************************)
EXTENDS Integers, Sequences

CONSTANTS Pages, Queries, None, Limit,
          MaxVersion   \* versions of the file: a bound of the model

VARIABLES
    head,      \* the newest version on the server
    seen,      \* currentSeq
    page,      \* the page on screen
    cache,     \* the version each cached page was read from; 0: not cached
    asks,      \* requests for a page of a version
    staged,    \* the edit of each page's block: where its block was read, or None
    past, future,
    editor,    \* the open editor: a block's or a new text's, where it was read or drawn
    picked,    \* the image or link selected: where it was read
    asked,     \* what the delete dialog has been opened for
    query,     \* the find field
    held,      \* _report and _reportQuery
    jobs,      \* operations under way
    busy

vars == <<head, seen, page, cache, asks, staged, past, future, editor, picked, asked, query,
          held, jobs, busy>>

Assumptions == /\ Limit \in Nat \ {0} /\ MaxVersion \in Nat \ {0} /\ Pages # {}
               /\ None \notin Pages \union Queries

Versions == 1..MaxVersion
Place    == [page : Pages, of : Versions]
NoEdits  == [p \in Pages |-> None]
NoReport == [of |-> 0, of_query |-> None, query |-> None]   \* report; _reportQuery
NoJob    == [st |-> "idle", kind |-> "none", base |-> 0, at |-> None, query |-> None]
Slots    == 1..2                       \* operations at once: a bound of the model
Here     == [page |-> page, of |-> cache[page]]

-----------------------------------------------------------------------------
(* The cache.                                                               *)

\* What of the session is thrown away when the version changes, and what is asked for
\* then: the page on screen, unless it is cached.
Forget == /\ cache' = [p \in Pages |-> 0] /\ staged' = NoEdits
          /\ past' = <<>> /\ future' = <<>> /\ held' = NoReport

Fetch(p, v, c) == asks' = IF c[p] = 0 THEN asks \union {[page |-> p, of |-> v]} ELSE asks

TurnPage(p) ==
    /\ p # page
    /\ page' = p /\ Fetch(p, seen, cache)
    /\ UNCHANGED <<head, seen, cache, staged, past, future, editor, picked, asked, query, held,
                   jobs, busy>>

\* An answer is put in the cache under its page.
Answer(a) ==
    /\ a \in asks
    /\ asks' = asks \ {a} /\ cache' = [cache EXCEPT ![a.page] = a.of]
    /\ UNCHANGED <<head, seen, page, staged, past, future, editor, picked, asked, query, held,
                   jobs, busy>>

AnswerFails(a) ==
    /\ a \in asks
    /\ asks' = asks \ {a}
    /\ UNCHANGED <<head, seen, page, cache, staged, past, future, editor, picked, asked, query,
                   held, jobs, busy>>

-----------------------------------------------------------------------------
(* Staging block edits.                                                     *)

Remember == /\ past' = LET longer == Append(past, staged)
                       IN  IF Len(longer) > Limit THEN Tail(longer) ELSE longer
            /\ future' = <<>>

OpenEditor ==
    /\ cache[page] # 0
    /\ editor' = [kind |-> "block", at |-> Here]
    /\ UNCHANGED <<head, seen, page, cache, asks, staged, past, future, picked, asked, query,
                   held, jobs, busy>>

\* The edit is staged under the page on screen; typing the block's own text unstages it.
StageEdit(changed) ==
    /\ editor # None /\ editor.kind = "block"
    /\ Remember
    /\ staged' = [staged EXCEPT ![page] = IF changed THEN editor.at ELSE None]
    /\ editor' = None
    /\ UNCHANGED <<head, seen, page, cache, asks, picked, asked, query, held, jobs, busy>>

CancelEditor ==
    /\ editor # None
    /\ editor' = None
    /\ UNCHANGED <<head, seen, page, cache, asks, staged, past, future, picked, asked, query,
                   held, jobs, busy>>

DiscardEdit ==
    /\ staged[page] # None /\ cache[page] # 0
    /\ Remember
    /\ staged' = [staged EXCEPT ![page] = None]
    /\ UNCHANGED <<head, seen, page, cache, asks, editor, picked, asked, query, held, jobs,
                   busy>>

Undo == /\ past # <<>>
        /\ staged' = past[Len(past)]
        /\ past' = SubSeq(past, 1, Len(past) - 1) /\ future' = Append(future, staged)
        /\ UNCHANGED <<head, seen, page, cache, asks, editor, picked, asked, query, held, jobs,
                       busy>>

Redo == /\ future # <<>>
        /\ staged' = future[Len(future)]
        /\ future' = SubSeq(future, 1, Len(future) - 1) /\ past' = Append(past, staged)
        /\ UNCHANGED <<head, seen, page, cache, asks, editor, picked, asked, query, held, jobs,
                       busy>>

-----------------------------------------------------------------------------
(* Operations.  Every one is sent with the version the panel now shows.     *)

Sent(kind, at, q) ==
    \E s \in Slots :
        /\ jobs[s].st = "idle" /\ \A r \in 1..(s - 1) : jobs[r].st # "idle"
        /\ jobs' = [jobs EXCEPT ![s] = [st |-> "sent", kind |-> kind, base |-> seen,
                                        at |-> at, query |-> q]]
        /\ busy' = TRUE

\* Every staged block in one operation; with none staged, no operation.
CommitEdits == staged # NoEdits /\ Sent("edit_text", staged, None)

\* Save: the button waits for a running job, the key does not.
Save == /\ CommitEdits
        /\ UNCHANGED <<head, seen, page, cache, asks, staged, past, future, editor, picked,
                       asked, query, held>>

\* An image or a link of the page is selected.
Pick == /\ cache[page] # 0 /\ picked = None
        /\ picked' = Here
        /\ UNCHANGED <<head, seen, page, cache, asks, staged, past, future, editor, asked,
                       query, held, jobs, busy>>

\* A rectangle drawn for text to come opens the same editor, on an empty text.
DrawTextBox ==
    /\ editor' = [kind |-> "new", at |-> [page |-> page, of |-> seen]]
    /\ UNCHANGED <<head, seen, page, cache, asks, staged, past, future, picked, asked, query,
                   held, jobs, busy>>

CommitNewText ==
    /\ editor # None /\ editor.kind = "new"
    /\ editor' = None
    /\ Sent("add_text", [editor.at EXCEPT !.page = page], None)
    /\ UNCHANGED <<head, seen, page, cache, asks, staged, past, future, picked, asked, query,
                   held>>

\* What is found on a page goes out with the page on screen by then.
RunOp(at) == Sent("on_page", [at EXCEPT !.page = page], None)

\* Whiteout, a placed image, a link: at once, where it was drawn.
OnPage == /\ RunOp([page |-> page, of |-> seen])
          /\ UNCHANGED <<head, seen, page, cache, asks, staged, past, future, editor, picked,
                         asked, query, held>>

\* Watermark, numbers, header, Bates, overlay, metadata, bookmarks.
OnDocument == /\ ~busy
              /\ Sent("on_document", None, None)
              /\ UNCHANGED <<head, seen, page, cache, asks, staged, past, future, editor,
                             picked, asked, query, held>>

\* The replacement's upload has been answered: it goes where the selection is by then.
ReplaceImage ==
    /\ picked # None
    /\ RunOp(picked)
    /\ UNCHANGED <<head, seen, page, cache, asks, staged, past, future, editor, picked, asked,
                   query, held>>

\* Delete reads the selection, asks, and goes on with what it read, on the page and
\* with the version of the moment the answer came.
AskDelete ==
    /\ picked # None /\ asked = None
    /\ asked' = picked
    /\ UNCHANGED <<head, seen, page, cache, asks, staged, past, future, editor, picked, query,
                   held, jobs, busy>>

AnswerDelete(yes) ==
    /\ asked # None
    /\ asked' = None
    /\ IF yes THEN /\ RunOp(asked)
                   /\ picked' = None
              ELSE UNCHANGED <<picked, jobs, busy>>
    /\ UNCHANGED <<head, seen, page, cache, asks, staged, past, future, editor, query, held>>

-----------------------------------------------------------------------------
(* Find & replace.                                                          *)

\* Another search drops the report that is held.
SetQuery(q) ==
    /\ q # query
    /\ query' = q
    /\ held' = [held EXCEPT !.of = 0, !.of_query = None]
    /\ UNCHANGED <<head, seen, page, cache, asks, staged, past, future, editor, picked, asked,
                   jobs, busy>>

DryRun == Sent("preview", None, query)

Preview ==
    /\ ~busy
    /\ held' = [of |-> 0, of_query |-> None, query |-> query]
    /\ DryRun
    /\ UNCHANGED <<head, seen, page, cache, asks, staged, past, future, editor, picked, asked,
                   query>>

\* The ids that are still ticked go out, with the search of the field.
ReplaceKept == Sent("replace", [of |-> held.of, query |-> held.of_query], query)

\* The report has to be for the search in the field.
Execute ==
    /\ ~busy /\ held.of # 0
    /\ IF held.query = query
       THEN /\ ReplaceKept
            /\ UNCHANGED held
       ELSE /\ held' = [held EXCEPT !.of = 0, !.of_query = None] /\ UNCHANGED <<jobs, busy>>
    /\ UNCHANGED <<head, seen, page, cache, asks, staged, past, future, editor, picked, asked,
                   query>>

-----------------------------------------------------------------------------
(* The server, and what the panel does when it hears.                       *)

JobWorks(s) ==
    /\ jobs[s].st = "sent" /\ jobs[s].base = head
    /\ IF jobs[s].kind = "preview" THEN UNCHANGED head
                                   ELSE head < MaxVersion /\ head' = head + 1
    /\ jobs' = [jobs EXCEPT ![s].st = "succeeded"]
    /\ UNCHANGED <<seen, page, cache, asks, staged, past, future, editor, picked, asked, query,
                   held, busy>>

JobRefused(s, st) ==
    /\ jobs[s].st = "sent" /\ (st = "conflict" => jobs[s].base # head)
    /\ jobs' = [jobs EXCEPT ![s].st = st]
    /\ UNCHANGED <<head, seen, page, cache, asks, staged, past, future, editor, picked, asked,
                   query, held, busy>>

\* The workspace adopts a version: the panel's effect resets, then loads the page.
See(v) == /\ seen' = v /\ Forget
          /\ asks' = asks \union {[page |-> page, of |-> v]}

OnJob(s) ==
    /\ jobs[s].st = "succeeded" /\ jobs[s].kind # "preview"
    /\ See(jobs[s].base + 1)
    /\ jobs' = [jobs EXCEPT ![s] = NoJob] /\ busy' = FALSE
    /\ UNCHANGED <<head, page, editor, picked, asked, query>>

OnPreview(s) ==
    /\ jobs[s].st = "succeeded" /\ jobs[s].kind = "preview"
    /\ held' = [held EXCEPT !.of = jobs[s].base, !.of_query = jobs[s].query]
    /\ jobs' = [jobs EXCEPT ![s] = NoJob] /\ busy' = FALSE
    /\ UNCHANGED <<head, seen, page, cache, asks, staged, past, future, editor, picked, asked,
                   query>>

\* A conflict has the workspace fetch the head; any other failure is a toast.  So is
\* either for a preview.
OnFailure(s) ==
    /\ jobs[s].st \in {"conflict", "failed"}
    /\ IF jobs[s].st = "conflict" /\ jobs[s].kind # "preview" /\ seen # head
       THEN See(head)
       ELSE UNCHANGED <<seen, cache, asks, staged, past, future, held>>
    /\ jobs' = [jobs EXCEPT ![s] = NoJob] /\ busy' = FALSE
    /\ UNCHANGED <<head, page, editor, picked, asked, query>>

OtherTab == /\ head < MaxVersion
            /\ head' = head + 1
            /\ UNCHANGED <<seen, page, cache, asks, staged, past, future, editor, picked, asked,
                           query, held, jobs, busy>>

-----------------------------------------------------------------------------
Init == /\ head = 1 /\ seen = 1 /\ page \in Pages
        /\ cache = [p \in Pages |-> 0] /\ asks = {[page |-> page, of |-> 1]}
        /\ staged = NoEdits /\ past = <<>> /\ future = <<>>
        /\ editor = None /\ picked = None /\ asked = None
        /\ query \in Queries /\ held = NoReport
        /\ jobs = [s \in Slots |-> NoJob] /\ busy = FALSE

Reading == \/ \E p \in Pages : TurnPage(p)
           \/ \E a \in asks : Answer(a) \/ AnswerFails(a)
Staging == \/ OpenEditor \/ CancelEditor \/ DiscardEdit \/ Undo \/ Redo
           \/ \E changed \in BOOLEAN : StageEdit(changed)
Sending == \/ Save \/ Pick \/ DrawTextBox \/ CommitNewText \/ OnPage \/ OnDocument
           \/ ReplaceImage \/ AskDelete \/ \E yes \in BOOLEAN : AnswerDelete(yes)
Finding == Preview \/ Execute \/ \E q \in Queries : SetQuery(q)
Server  == \/ \E s \in Slots : \/ JobWorks(s) \/ OnJob(s) \/ OnPreview(s) \/ OnFailure(s)
                               \/ \E st \in {"conflict", "failed"} : JobRefused(s, st)
           \/ OtherTab

Next == Reading \/ Staging \/ Sending \/ Finding \/ Server
Spec == Init /\ [][Next]_vars

-----------------------------------------------------------------------------
TypeOK ==
    /\ head \in Versions /\ seen \in Versions /\ page \in Pages
    /\ cache \in [Pages -> Versions \union {0}] /\ asks \subseteq Place
    /\ staged \in [Pages -> Place \union {None}]
    /\ Len(past) <= Limit /\ Len(future) <= Limit
    /\ {picked, asked} \subseteq Place \union {None}
    /\ query \in Queries /\ held.of \in Versions \union {0}
    /\ \A s \in Slots : jobs[s].st \in {"idle", "sent", "succeeded", "conflict", "failed"}
    /\ busy \in BOOLEAN

\* The occurrences that are replaced are the ones that were reviewed: their ids, which
\* count occurrences, go out with the search and the version they were counted in.
ReviewedIsReplaced ==
    \A s \in Slots : (jobs[s].st = "sent" /\ jobs[s].kind = "replace")
        => jobs[s].at = [of |-> jobs[s].base, query |-> jobs[s].query]

\* An edit is staged under the page, and for the version, its block was read from.
StagedWhereRead == \A p \in Pages : staged[p] # None => staged[p] = [page |-> p, of |-> seen]

\* One operation runs at a time; nothing is open, selected or in question when the page
\* or the version changes, and no page is still being fetched when the version does.
Calm        == editor = None /\ picked = None /\ asked = None
OrderlyNext == \/ Reading /\ (page' # page => Calm)
               \/ Staging
               \/ Sending /\ (jobs' # jobs => ~busy)
               \/ Finding
               \/ Server /\ (seen' # seen => Calm /\ asks = {})
=============================================================================
