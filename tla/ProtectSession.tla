--------------------------- MODULE ProtectSession ---------------------------
(***************************************************************************)
(* Protect mode: an encrypted document's password and who remembers it, and  *)
(* redaction, which previews what a search would take, lets matches be       *)
(* unticked, and then removes what is left together with the areas drawn.   *)
(* Operations carry the version the workspace shows, which the server's may  *)
(* have left behind: a conflict, a success and the bar's Undo bring another  *)
(* one, and the review and the areas stay through all three.                 *)
(*                                                                           *)
(* A match is its position in the answer to one search at one version, and  *)
(* so is its id.                                                             *)
(***************************************************************************)
EXTENDS Integers, Sequences

CONSTANTS Docs, Searches, Passwords, None,
          Matches,       \* positions a search can answer with
          MaxVersion     \* versions of a document: a bound of the model

VARIABLES
    seq,        \* the server's version of each document
    secret,     \* the password that opens it
    doc, shown, \* the document in the workspace, and its version as the client has it
    loading,    \* the workspace is fetching the document again
    known,      \* DocumentPasswords: what this tab remembers
    search,     \* what is being looked for: presets, pattern, text and case
    report,     \* the review: which document, version and search it answers
    excluded,   \* matches unticked
    areas,      \* areas drawn: the document and version each was drawn on
    past, future, \* HistoryStack of the areas
    asked,      \* the confirmation is open
    job         \* the operation under way, and what has become of it

vars == <<seq, secret, doc, shown, loading, known, search, report, excluded, areas, past, future, asked, job>>
screen  == <<doc, shown, loading>>
review  == <<search, report, excluded>>
drawing == <<areas, past, future>>

Kinds  == {"encrypt", "decrypt", "permissions", "sanitize", "preview", "apply"}
Places == [doc : Docs, seq : 1..MaxVersion]
Here   == [doc |-> doc, seq |-> shown]
\* `only` is the ids kept, or None when there is no review to filter by.
Jobs   == [st : {"sent", "ok", "wrong", "conflict", "failed"}, kind : Kinds, on : Docs, base : 1..MaxVersion,
           key : Passwords \cup {None}, new : Passwords \cup {None}, clean : BOOLEAN,
           search : Searches \cup {None}, only : (SUBSET Matches) \cup {None}, areas : SUBSET Places]
Kept   == IF report = None THEN {} ELSE report.found \ excluded

Assumptions == /\ None \notin Docs \cup Searches \cup Passwords /\ None \notin Jobs
               /\ MaxVersion \in Nat \ {0} /\ Matches # {}

-----------------------------------------------------------------------------
(* Redaction.                                                               *)

\* (A change of the search leaves the review on screen.)
SetSearch_KeepsReview(s) ==
    /\ s # search /\ ~asked
    /\ search' = s
    /\ UNCHANGED <<seq, secret, screen, known, report, excluded, drawing, asked, job>>

\* What a search is for has changed: a review there is goes.
SetSearch(s) ==
    /\ s # search /\ ~asked
    /\ search' = s
    /\ report' = None
    /\ excluded' = IF report = None THEN excluded ELSE {}
    /\ UNCHANGED <<seq, secret, screen, known, drawing, asked, job>>

Toggle(m) ==
    /\ report # None /\ m \in report.found /\ ~asked
    /\ excluded' = IF m \in excluded THEN excluded \ {m} ELSE excluded \cup {m}
    /\ UNCHANGED <<seq, secret, screen, known, search, report, drawing, asked, job>>

Drawn(to) == areas' = to /\ past' = Append(past, areas) /\ future' = <<>>

\* An area drawn, moved or removed.
Draw ==
    /\ ~asked /\ Len(past) < 2
    /\ Drawn(areas \cup {Here})
    /\ UNCHANGED <<seq, secret, screen, known, review, asked, job>>

RemoveArea(a) ==
    /\ ~asked /\ Len(past) < 2 /\ a \in areas
    /\ Drawn(areas \ {a})
    /\ UNCHANGED <<seq, secret, screen, known, review, asked, job>>

UndoAreas ==
    /\ ~asked /\ past # <<>>
    /\ areas' = past[Len(past)] /\ past' = SubSeq(past, 1, Len(past) - 1)
    /\ future' = Append(future, areas)
    /\ UNCHANGED <<seq, secret, screen, known, review, asked, job>>

RedoAreas ==
    /\ ~asked /\ future # <<>>
    /\ areas' = future[Len(future)] /\ future' = SubSeq(future, 1, Len(future) - 1)
    /\ past' = Append(past, areas)
    /\ UNCHANGED <<seq, secret, screen, known, review, asked, job>>

\* SecurityFacade.clear.
Clear == /\ areas' = {} /\ past' = <<>> /\ future' = <<>>
         /\ report' = None /\ excluded' = {}

-----------------------------------------------------------------------------
(* Operations: one at a time, each carrying the password remembered for its *)
(* document.                                                                *)

Dispatch(kind, new, clean) ==
    /\ job = None
    /\ job' = [st |-> "sent", kind |-> kind, on |-> doc, base |-> shown,
               key |-> known[doc], new |-> new, clean |-> clean,
               search |-> IF kind \in {"preview", "apply"} THEN search ELSE None,
               only |-> IF kind = "apply" /\ search # None /\ report # None THEN Kept ELSE None,
               areas |-> IF kind = "apply" THEN areas ELSE {}]

\* Protecting, removing the password, changing restrictions, cleaning up.
Operate(kind, p) ==
    /\ kind \in Kinds \ {"preview", "apply"} /\ ~asked
    /\ Dispatch(kind, p, FALSE)
    /\ UNCHANGED <<seq, secret, screen, known, review, drawing, asked>>

Preview ==
    /\ search # None /\ ~asked
    /\ Dispatch("preview", None, FALSE)
    /\ UNCHANGED <<seq, secret, screen, known, review, drawing, asked>>

\* With something to remove, the person is asked first.
AskToApply ==
    /\ job = None /\ ~asked
    /\ areas # {} \/ Kept # {}
    /\ asked' = TRUE
    /\ UNCHANGED <<seq, secret, screen, known, review, drawing, job>>

Apply(clean) ==
    /\ asked /\ asked' = FALSE
    /\ Dispatch("apply", None, clean)
    /\ UNCHANGED <<seq, secret, screen, known, review, drawing>>

Decline ==
    /\ asked /\ asked' = FALSE
    /\ UNCHANGED <<seq, secret, screen, known, review, drawing, job>>

\* The password is typed for this session; nothing checks it.
Remember(p) ==
    /\ job = None /\ ~asked /\ known[doc] # p
    /\ known' = [known EXCEPT ![doc] = p]
    /\ UNCHANGED <<seq, secret, screen, review, drawing, asked, job>>

\* The server refuses a base that has moved and a password that does not open the file, and
\* otherwise makes a version, except of what was only previewed or went into a new document.
\* What is not itself about the password works on the opened file, and takes it off.
Copies == job.kind = "apply" /\ job.clean
Edits  == job.kind # "preview" /\ ~Copies
Opens  == IF job.kind = "decrypt" THEN secret[job.on] = job.new
                                  ELSE secret[job.on] \in {None, job.key}

Answered(st) ==
    LET does == st = "ok" /\ Edits
    IN /\ job' = [job EXCEPT !.st = st]
       /\ seq' = [seq EXCEPT ![job.on] = IF does THEN @ + 1 ELSE @]
       /\ secret' = [secret EXCEPT ![job.on] =
                        IF ~does THEN @
                        ELSE IF job.kind \in {"encrypt", "permissions"} THEN job.new ELSE None]
       /\ UNCHANGED <<screen, known, review, drawing, asked>>

\* (Whatever the version has become.)
Serve_AnyBase(ok) ==
    /\ job # None /\ job.st = "sent"
    /\ Edits => seq[job.on] < MaxVersion
    /\ Answered(IF ~Opens THEN "wrong" ELSE IF ok THEN "ok" ELSE "failed")

Serve(ok) ==
    /\ job # None /\ job.st = "sent"
    /\ Edits /\ job.base = seq[job.on] => seq[job.on] < MaxVersion
    /\ Answered(IF job.base # seq[job.on] THEN "conflict" ELSE IF ~Opens THEN "wrong"
                ELSE IF ok THEN "ok" ELSE "failed")

\* A preview's answer: what was found, for review, all of it to be removed.
Reported ==
    /\ \E found \in SUBSET Matches :
          report' = [doc |-> job.on, seq |-> job.base, search |-> job.search, found |-> found]
    /\ excluded' = {}
    /\ UNCHANGED <<search, drawing>>

\* The panel hears: the document on screen is the one the password is kept for.  The workspace
\* adopts a version that was made of it, and fetches the document again.
Succeeded ==
    /\ job # None /\ job.st = "ok" /\ ~Copies
    /\ known' = CASE job.kind = "encrypt" -> [known EXCEPT ![doc] = job.new]
                  [] job.kind = "decrypt" -> [known EXCEPT ![doc] = None]
                  [] OTHER -> known
    /\ CASE job.kind = "apply" -> Clear /\ UNCHANGED search
         [] job.kind = "preview" -> Reported
         [] OTHER -> UNCHANGED <<review, drawing>>
    /\ shown' = IF Edits /\ job.on = doc THEN job.base + 1 ELSE shown
    /\ loading' = (loading \/ Edits)
    /\ job' = None
    /\ UNCHANGED <<seq, secret, doc, asked>>

\* What was removed into a clean copy: the panel goes, and the workspace with it, to the copy.
Copied ==
    /\ job # None /\ job.st = "ok" /\ Copies
    /\ Clear /\ search' = None /\ job' = None
    /\ doc' \in Docs /\ shown' = seq[doc'] /\ loading' = FALSE
    /\ UNCHANGED <<seq, secret, known, asked>>

\* (A password is kept although the document was not protected with it.)
Failed_Remembers ==
    /\ job # None /\ job.st \in {"wrong", "conflict", "failed"}
    /\ known' = IF job.kind = "encrypt" THEN [known EXCEPT ![doc] = job.new] ELSE known
    /\ loading' = (loading \/ job.st = "conflict")
    /\ job' = None
    /\ UNCHANGED <<seq, secret, doc, shown, review, drawing, asked>>

\* A wrong password, a failure: said, and nothing else.  After a conflict the document is
\* fetched again, and what was found and drawn stays.
Failed ==
    /\ job # None /\ job.st \in {"wrong", "conflict", "failed"}
    /\ loading' = (loading \/ job.st = "conflict")
    /\ job' = None
    /\ UNCHANGED <<seq, secret, doc, shown, known, review, drawing, asked>>

-----------------------------------------------------------------------------
(* What happens around the panel.                                           *)

\* The document arrives, as it is by now.
Loaded ==
    /\ loading /\ loading' = FALSE
    /\ shown' = seq[doc]
    /\ UNCHANGED <<seq, secret, doc, known, review, drawing, asked, job>>

\* The workspace shows another document: the same panel, cleared.
Navigate(d) ==
    /\ d # doc /\ doc' = d /\ Clear
    /\ shown' = seq[d] /\ loading' = FALSE
    /\ UNCHANGED <<seq, secret, known, search, asked, job>>

\* The panel goes, and comes back empty: nobody hears of the operation.
Reopen ==
    /\ ~asked
    /\ Clear
    /\ search' = None /\ job' = None
    /\ UNCHANGED <<seq, secret, screen, known, asked>>

\* A version made elsewhere, whatever opens it: in another tab, which this one does not hear
\* of; or by the bar, whose Undo asks for no base and whose version the workspace adopts.
Remade(d) ==
    /\ seq[d] < MaxVersion
    /\ seq' = [seq EXCEPT ![d] = @ + 1]
    /\ \E p \in Passwords \cup {None} : secret' = [secret EXCEPT ![d] = p]

OtherVersion(d) ==
    /\ Remade(d)
    /\ UNCHANGED <<screen, known, review, drawing, asked, job>>

BarUndo ==
    /\ Remade(doc)
    /\ shown' = seq'[doc] /\ loading' = TRUE
    /\ UNCHANGED <<doc, known, review, drawing, asked, job>>

\* The session ends: every password is forgotten, whatever was under way.
SessionEnds ==
    /\ known' = [d \in Docs |-> None]
    /\ UNCHANGED <<seq, secret, screen, review, drawing, asked, job>>

-----------------------------------------------------------------------------
Init ==
    /\ seq = [d \in Docs |-> 1]
    /\ secret \in [Docs -> Passwords \cup {None}] /\ known = [d \in Docs |-> None]
    /\ doc \in Docs /\ shown = 1 /\ loading = FALSE
    /\ search = None /\ report = None /\ excluded = {}
    /\ areas = {} /\ past = <<>> /\ future = <<>>
    /\ asked = FALSE /\ job = None

Next ==
    \/ \E s \in Searches \cup {None} : SetSearch(s)
    \/ \E m \in Matches : Toggle(m)
    \/ Draw \/ UndoAreas \/ RedoAreas
    \/ \E a \in areas : RemoveArea(a)
    \/ \E kind \in Kinds, p \in Passwords : Operate(kind, p)
    \/ Preview \/ AskToApply \/ Decline
    \/ \E yes \in BOOLEAN : Apply(yes) \/ Serve(yes)
    \/ \E p \in Passwords : Remember(p)
    \/ Succeeded \/ Copied \/ Failed \/ Loaded
    \/ \E d \in Docs : Navigate(d) \/ OtherVersion(d)
    \/ BarUndo \/ Reopen \/ SessionEnds

Spec == Init /\ [][Next]_vars

\* How a person uses it who lets an answer arrive: the panel, the document and what is looked
\* for stay while an operation is under way; and who, when another version has come to the
\* screen, looks and draws again before applying.
Patient ==
    /\ job # None /\ job' # None => doc' = doc /\ search' = search
    /\ job # None => job' # None \/ job.st # "sent"
    /\ job = None /\ job' # None /\ job'.kind = "apply" =>
          /\ \A a \in areas : a.seq = shown
          /\ report # None => report.seq = shown

-----------------------------------------------------------------------------
TypeOK ==
    /\ seq \in [Docs -> 1..MaxVersion] /\ secret \in [Docs -> Passwords \cup {None}]
    /\ doc \in Docs /\ shown \in 1..MaxVersion /\ loading \in BOOLEAN
    /\ known \in [Docs -> Passwords \cup {None}]
    /\ search \in Searches \cup {None} /\ excluded \subseteq Matches
    /\ report = None \/ (report.found \subseteq Matches /\ report.search \in Searches)
    /\ areas \subseteq Places /\ past \in Seq(SUBSET Places) /\ future \in Seq(SUBSET Places)
    /\ asked \in BOOLEAN /\ (job = None \/ job \in Jobs)

(* What cannot be undone is done to what was looked at: when the server    *)
(* removes something, the ids it was sent are positions in a review of this *)
(* search in this document, at the version they are applied to, and every   *)
(* area was drawn on it; whatever versions other tabs and the bar have made *)
(* since.  (SecurityFacade.clearReview: "applying against a stale one sends *)
(* ids that now identify different matches"; Protect's docId effect: "the   *)
(* areas drawn on one document are drawn, and applied, on the next one".)   *)
Removed ==
    job # None /\ job' # None /\ job.st = "sent" /\ job'.st = "ok" /\ job.kind = "apply" =>
        /\ \A a \in job.areas : a.doc = job.on /\ a.seq = seq[job.on]
        /\ job.only # None => /\ report.doc = job.on /\ report.seq = seq[job.on]
                              /\ report.search = job.search
RemovesWhatWasSeen == [][Removed]_vars

(* A password the tab keeps because it protected the document opens it,     *)
(* until another version comes: one document's is never kept for another,   *)
(* nor one that was refused.  (Protect.applyProtection,                     *)
(* DocumentPasswords.remember.)                                             *)
KeptOpens ==
    job # None /\ job' = None =>
        \A d \in Docs : known'[d] \notin {known[d], None} =>
            d = job.on /\ (seq[d] <= job.base + 1 => secret[d] = known'[d])
KeptPasswordOpens == [][KeptOpens]_vars
=============================================================================
