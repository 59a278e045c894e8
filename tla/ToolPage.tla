------------------------------- MODULE ToolPage -------------------------------
(***************************************************************************)
(* A tool's own page: files are picked, uploaded in parallel, given to one *)
(* operation, and its results fetched in parallel.  A run is a closure of  *)
(* its own; the phase, the files and the pages typed are the page's.       *)
(*                                                                           *)
(* JobsFacade.track is part of a run: it follows the job to its end, and    *)
(* gives up on one that is still going when its time is over.  A document  *)
(* is the run and the place of the file it was uploaded from, or, made by   *)
(* the job, its place in the result.                                        *)
(***************************************************************************)
EXTENDS Integers, SequencesExt, Lists

CONSTANTS Files, None,
          MaxPicked,    \* files picked at once: a bound of the model
          MaxRuns,      \* times the button is pressed: a bound of the model
          PageCount     \* pages of every file

VARIABLES
    tool,      \* the tool of the page
    phase,     \* "idle", "uploading", "running", "done" or "error"
    picked,    \* the files, in the order they were picked
    typed,     \* the pages typed, as ranges
    cached,    \* ToolPage.uploaded: the file already up, and its document
    results,   \* what the page offers to download
    spare,     \* uploads of the picked file since it was picked or a run failed (not in the code)
    run        \* the runs

vars == <<tool, phase, picked, typed, cached, results, spare, run>>

Assumptions == /\ {MaxPicked, MaxRuns, PageCount} \subseteq Nat \ {0}
               /\ None \notin [file : Files, doc : [run : Nat, at : Nat]]

Tools  == {"merge", "delete", "extract", "import", "watermark", "sign"}
Runs   == 1..MaxRuns
Busy   == phase \in {"uploading", "running"}

-----------------------------------------------------------------------------
(* The pages typed.                                                         *)

NeedsPages == tool \in {"delete", "extract"}

\* What people type: a page, a range, a range that runs backwards, page 0, one too far.
Parts == {<<0, 0>>, <<1, 1>>, <<1, PageCount>>, <<PageCount, 1>>, <<2, PageCount + 1>>,
          <<PageCount + 1, PageCount + 1>>}

Spread(part) == [i \in 1..(part[2] - part[1] + 1) |-> part[1] + i - 1]

Selection(parts) ==
    IF \A i \in DOMAIN parts : parts[i][1] >= 1 /\ parts[i][2] >= parts[i][1]
    THEN [pages |-> FlattenSeq([i \in DOMAIN parts |-> Spread(parts[i])]), error |-> FALSE]
    ELSE [pages |-> <<>>, error |-> TRUE]

\* uniquePages, sorted.
Unique(pages) == InOrder(ToSet(pages))

\* The list shown: the maximal ranges of the pages chosen.
Format(pages) ==
    LET P == ToSet(pages)
        ends(a) == CHOOSE b \in P : /\ b >= a /\ b + 1 \notin P /\ a..b \subseteq P
        starts == InOrder({a \in P : a - 1 \notin P})
    IN [i \in DOMAIN starts |-> <<starts[i], ends(starts[i])>>]

Ready == /\ Len(picked) >= IF tool = "merge" THEN 2 ELSE 1
         /\ NeedsPages => ~Selection(typed).error /\ typed # <<>>

-----------------------------------------------------------------------------
(* A run.                                                                   *)

Doc(r, i) == [run |-> r, at |-> i]
NoRun == [st |-> "no", files |-> <<>>, up |-> <<>>, docs |-> <<>>, params |-> <<>>,
          job |-> "none", made |-> 0, got |-> {}]

\* A failure of anything asked for over the network.
Failing == phase' = "error" /\ cached' = None /\ spare' = 0

\* What the operation is given, and what stops it before it is asked for.
Wanted   == Selection(typed).pages
Beyond   == \E i \in DOMAIN Wanted : Wanted[i] > PageCount
Refuses  == NeedsPages /\ (Beyond \/ (tool = "delete" /\ Len(Unique(Wanted)) >= PageCount))
Params   == CASE tool = "delete"  -> [i \in DOMAIN Unique(Wanted) |-> Unique(Wanted)[i] - 1]
              [] tool = "extract" -> [i \in DOMAIN Wanted |-> Wanted[i] - 1]
              [] OTHER -> <<>>

Dispatch(r, docs) ==
    IF Refuses
    THEN phase' = "error" /\ run' = [run EXCEPT ![r] = [NoRun EXCEPT !.st = "over"]]
    ELSE /\ phase' = "running"
         /\ run' = [run EXCEPT ![r] =
                [@ EXCEPT !.st = IF tool = "sign" THEN "left" ELSE "job", !.docs = docs,
                          !.params = Params, !.job = IF tool = "sign" THEN "none" ELSE "going"]]

\* The session is asked for first, so that parallel uploads share one.
Run(r) ==
    /\ Ready /\ ~Busy /\ run[r].st = "no" /\ \A q \in Runs : q < r => run[q].st # "no"
    /\ phase \in {"idle", "error"}      \* where the button is
    /\ phase' = "uploading" /\ results' = <<>>
    /\ run' = [run EXCEPT ![r].st = "session"]
    /\ UNCHANGED <<tool, picked, typed, cached, spare>>

Begin(r) ==
    /\ run[r].st = "session"
    /\ CASE tool = "import" ->
              /\ phase' = "running"
              /\ run' = [run EXCEPT ![r] = [@ EXCEPT !.st = "job", !.files = picked, !.job = "going"]]
         [] NeedsPages /\ cached # None /\ cached.file = picked[1] ->
              Dispatch(r, <<cached.doc>>)
         [] OTHER ->
              /\ run' = [run EXCEPT ![r] = [@ EXCEPT !.st = "upload", !.files = picked,
                                            !.up = [i \in DOMAIN picked |-> "sent"]]]
              /\ UNCHANGED phase
    /\ UNCHANGED <<tool, picked, typed, cached, results, spare>>

\* (The documents are in the order the uploads arrived.)
Uploaded_AsTheyCome(r, i) ==
    LET q  == run[r]
        up == [q.up EXCEPT ![i] = "ok"]
        docs == Append(q.docs, Doc(r, i))
    IN
    /\ q.st = "upload" /\ q.up[i] = "sent"
    /\ IF \A j \in DOMAIN up : up[j] = "ok"
       THEN Dispatch(r, docs)
       ELSE run' = [run EXCEPT ![r].up = up, ![r].docs = docs] /\ UNCHANGED phase
    /\ UNCHANGED <<tool, picked, typed, cached, results, spare>>

\* One upload is up.  The documents keep the order of the files.
Uploaded(r, i) ==
    LET q  == run[r]
        up == [q.up EXCEPT ![i] = "ok"]
    IN
    /\ q.st = "upload" /\ q.up[i] = "sent"
    /\ cached' = IF NeedsPages /\ Len(q.files) = 1
                 THEN [file |-> q.files[1], doc |-> Doc(r, 1)] ELSE cached
    /\ spare' = IF NeedsPages THEN spare + 1 ELSE spare
    /\ IF \A j \in DOMAIN up : up[j] = "ok"
       THEN Dispatch(r, [j \in DOMAIN up |-> Doc(r, j)])
       ELSE run' = [run EXCEPT ![r].up = up] /\ UNCHANGED phase
    /\ UNCHANGED <<tool, picked, typed, results>>

UploadFails(r, i) ==
    /\ run[r].st = "upload" /\ run[r].up[i] = "sent"
    /\ run' = [run EXCEPT ![r].up[i] = "bad"]
    /\ Failing
    /\ UNCHANGED <<tool, picked, typed, results>>

\* The server: the job ends, with documents of its own or in the one it was given.
JobServed(r, end, n) ==
    /\ run[r].job = "going"
    /\ n > 0 => end = "succeeded" /\ tool \in {"merge", "import", "extract"}
    /\ run' = [run EXCEPT ![r] = [@ EXCEPT !.job = end, !.made = n]]
    /\ UNCHANGED <<tool, phase, picked, typed, cached, results, spare>>

\* The documents to fetch: those made, or the one that was changed.
Target(q) == IF q.made > 0 THEN q.made ELSE IF tool \in {"delete", "watermark"} THEN 1 ELSE 0

\* The poll that reads the end of the job.
Poll(r) ==
    LET q == run[r] IN
    /\ q.st = "job" /\ q.job \in {"succeeded", "failed", "canceled"}
    /\ CASE q.job = "succeeded" /\ Target(q) > 0 ->
              run' = [run EXCEPT ![r].st = "fetch"] /\ UNCHANGED phase
         [] q.job = "canceled" ->
              run' = [run EXCEPT ![r].st = "over"] /\ UNCHANGED phase
         [] OTHER ->
              run' = [run EXCEPT ![r].st = "over"] /\ phase' = "error"
    /\ UNCHANGED <<tool, picked, typed, cached, results, spare>>

PollFails(r) ==
    /\ run[r].st = "job"
    /\ run' = [run EXCEPT ![r].st = "over"]
    /\ Failing
    /\ UNCHANGED <<tool, picked, typed, results>>

\* (A job that does not end is followed for ever.)
Ceiling_Never(r) == FALSE

\* TRACK_CEILING_MS is over and the job is not: it is reported as failed.
Ceiling(r) ==
    /\ run[r].st = "job" /\ run[r].job = "going"
    /\ run' = [run EXCEPT ![r].st = "over"]
    /\ phase' = "error"
    /\ UNCHANGED <<tool, picked, typed, cached, results, spare>>

\* One of the results is in; they are shown together, in the job's order.
Fetched(r, i) ==
    LET q == run[r]
        got == q.got \cup {i}
    IN
    /\ q.st = "fetch" /\ i \in (1..Target(q)) \ q.got
    /\ IF got = 1..Target(q)
       THEN /\ results' = [j \in 1..Target(q) |-> j] /\ phase' = "done"
            /\ run' = [run EXCEPT ![r].st = "over"]
       ELSE run' = [run EXCEPT ![r].got = got] /\ UNCHANGED <<results, phase>>
    /\ UNCHANGED <<tool, picked, typed, cached, spare>>

\* The others may still arrive: without this one they are never all there.
FetchFails(r) ==
    /\ run[r].st = "fetch"
    /\ run' = [run EXCEPT ![r].st = "over"]
    /\ Failing
    /\ UNCHANGED <<tool, picked, typed, results>>

-----------------------------------------------------------------------------
(* The visitor.  While the page is busy its controls are not there.         *)

OnFilesPicked(f) ==
    /\ phase \in {"idle", "error"} /\ f \notin ToSet(picked)
    /\ IF tool \in {"merge", "import"}
       THEN Len(picked) < MaxPicked /\ picked' = Append(picked, f)
       ELSE picked' = <<f>>
    /\ phase' = "idle" /\ cached' = None /\ spare' = 0
    /\ UNCHANGED <<tool, typed, results, run>>

OnPageSpec(parts) ==
    /\ phase \in {"idle", "error"} /\ NeedsPages /\ parts # typed
    /\ typed' = parts
    /\ phase' = "idle"
    /\ UNCHANGED <<tool, picked, cached, results, spare, run>>

RemoveFile(i) ==
    /\ phase \in {"idle", "error"}
    /\ picked' = RemoveAt(picked, i)
    /\ UNCHANGED <<tool, phase, typed, cached, results, spare, run>>

Reset ==
    /\ phase = "done"
    /\ picked' = <<>> /\ results' = <<>> /\ phase' = "idle" /\ cached' = None /\ spare' = 0
    /\ UNCHANGED <<tool, typed, run>>

-----------------------------------------------------------------------------
Typings == {<<>>} \cup {<<p>> : p \in Parts} \cup {<<<<1, 1>>, p>> : p \in Parts}

Init == /\ tool \in Tools /\ phase = "idle" /\ picked = <<>> /\ typed = <<>>
        /\ cached = None /\ results = <<>> /\ spare = 0
        /\ run = [r \in Runs |-> NoRun]

Left == \E r \in Runs : run[r].st = "left"      \* the workspace is open, the page is gone

Progress(r) ==
    \/ Begin(r) \/ Poll(r) \/ Ceiling(r) \/ FetchFails(r)
    \/ \E i \in DOMAIN run[r].up : Uploaded(r, i) \/ UploadFails(r, i)
    \/ \E i \in 1..2 : Fetched(r, i)
Visitor == \/ \E r \in Runs : Run(r)
           \/ \E f \in Files : OnFilesPicked(f)
           \/ \E parts \in Typings : OnPageSpec(parts)
           \/ \E i \in DOMAIN picked : RemoveFile(i)
           \/ Reset

Next == ~Left /\ \/ Visitor
                 \/ \E r \in Runs : Progress(r) \/ PollFails(r)
                 \/ \E r \in Runs, end \in {"succeeded", "failed", "canceled"}, n \in 0..2 :
                        JobServed(r, end, n)

Spec == Init /\ [][Next]_vars

\* Requests are answered or fail, what is polled for is read, and the timer of the ceiling goes
\* off; the worker owes nothing.
FairSpec == Spec /\ \A r \in Runs : WF_vars(~Left /\ Progress(r))

-----------------------------------------------------------------------------
TypeOK ==
    /\ tool \in Tools /\ phase \in {"idle", "uploading", "running", "done", "error"}
    /\ picked \in Seq(Files) /\ typed \in Typings /\ spare \in Nat
    /\ cached = None \/ cached.file \in Files
    /\ \A r \in Runs : /\ run[r].st \in {"no", "session", "upload", "job", "fetch", "over", "left"}
                       /\ run[r].job \in {"none", "going", "succeeded", "failed", "canceled"}

\* An operation is given one document for each of the files it was started with, in the
\* order they were picked.  (uploadAll: `uploaded` by index; merge's document_ids.)
GivenInOrder ==
    \A r \in Runs : run[r].st \in {"job", "left"} /\ tool \in {"merge", "watermark", "sign"} =>
        run[r].docs = [i \in DOMAIN run[r].files |-> Doc(r, i)]

\* The pages it is given exist, and one that deletes leaves a page.  (dispatchPages.)
PagesExist ==
    \A r \in Runs : run[r].st = "job" =>
        /\ ToSet(run[r].params) \subseteq 0..(PageCount - 1)
        /\ tool = "delete" => /\ IsInjective(run[r].params)
                              /\ Len(run[r].params) < PageCount

\* A run whose pages are corrected does not upload the file again.  (ToolPage.uploaded.)
UploadedOnce == spare <= 1

\* What is offered to download is all that one job made.  (onSuccess.)
ResultsWhole ==
    phase = "done" => \E r \in Runs : /\ run[r].st = "over" /\ run[r].job = "succeeded"
                                      /\ results = [j \in 1..Target(run[r]) |-> j]
                                      /\ results # <<>>

\* The list the summary shows, typed again, selects the pages chosen, each once.
FormatParses == Selection(Format(Wanted)).pages = Unique(Wanted)

(* In whatever order uploads and results arrive, and whatever was typed,    *)
(* run and corrected before, a run does to the files what the visitor was   *)
(* shown, and offers all of what it made.  (ToolPage.uploadAll,             *)
(* dispatchPages, onSuccess; page-spec.ts.)                                 *)
RunsAreTrue == GivenInOrder /\ PagesExist /\ UploadedOnce /\ ResultsWhole /\ FormatParses

(* A run ends: the page does not stay busy, however the server, the network *)
(* and the worker behave, unless the job was canceled from elsewhere, which *)
(* the page does not ask about.  (JobsFacade.TRACK_CEILING_MS.)             *)
RunEnds == Busy ~> (~Busy \/ Left \/ \E r \in Runs : run[r].job = "canceled")
=============================================================================
