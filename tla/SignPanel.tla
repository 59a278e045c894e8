------------------------------- MODULE SignPanel -------------------------------
(***************************************************************************)
(* Signing a document oneself: a signature is made or chosen, placed on     *)
(* pages, and burned into the document by one job.  What is placed waits in *)
(* the browser, with an undo of its own, until it is applied.               *)
(***************************************************************************)
EXTENDS Integers, Sequences, SequencesExt, Functions

CONSTANTS Docs, None,
          Sigs,        \* signatures: pictures made on the pad, and those kept
          PageCount,
          Limit,       \* 100: steps that can be undone
          MaxIds, MaxHead, MaxAsks   \* bounds of the model

VARIABLES
    doc, seen,           \* the document on screen, and its version as the workspace knows it
    account, kept,       \* signed in; the signatures kept with the account
    sig, padOpen, keepIt, asks, busy,   \* asks: signatures on their way to the server
    placements, past, future, next, selected, page,
    job,                 \* the job under way; None
    head, burned,        \* the server: each document's version, how often a placement is in it
    withdrawn            \* placements the person has taken back: a history variable

vars == <<doc, seen, account, kept, sig, padOpen, keepIt, asks, busy, placements, past, future,
          next, selected, page, job, head, burned, withdrawn>>
pad    == <<account, kept, sig, padOpen, keepIt, asks>>
placed == <<placements, past, future, next, withdrawn>>
server == <<head, burned>>

Ids == 1..MaxIds
IdsOf(list) == {p.id : p \in Range(list)}
Withdraw == withdrawn' = (withdrawn \cup IdsOf(placements)) \ IdsOf(placements')

Jobs == [doc : Docs, base : Nat, ids : SUBSET Ids, sig : Sigs \cup {None},
         st : {"sent", "ok", "failed", "conflict"}]

Assumptions == /\ None \notin Docs \cup Sigs \cup Jobs /\ PageCount \in Nat \ {0} /\ Limit \in Nat \ {0}
               /\ {MaxIds, MaxHead, MaxAsks} \subseteq Nat

-----------------------------------------------------------------------------
(* The signature.                                                           *)

Saved(ok) ==
    /\ account /\ kept' \in (IF ok THEN {kept, Sigs} ELSE {{}})
    /\ UNCHANGED <<doc, seen, account, sig, padOpen, keepIt, asks, busy, placed, selected, page, job, server>>

Choose(s) ==
    /\ padOpen /\ s \in kept
    /\ sig' = s /\ padOpen' = FALSE
    /\ UNCHANGED <<doc, seen, account, kept, keepIt, asks, busy, placed, selected, page, job, server>>

TogglePad  == padOpen' = ~padOpen
              /\ UNCHANGED <<doc, seen, account, kept, sig, keepIt, asks, busy, placed, selected, page, job, server>>
ToggleKeep == padOpen /\ account /\ keepIt' = ~keepIt
              /\ UNCHANGED <<doc, seen, account, kept, sig, padOpen, asks, busy, placed, selected, page, job, server>>

\* A picture from the pad is kept with the account, or uploaded for this once.
OnSignature(s) ==
    /\ padOpen /\ Len(asks) < MaxAsks
    /\ asks' = Append(asks, [sig |-> s, keep |-> keepIt /\ account])
    /\ busy' = (busy \/ ~(keepIt /\ account))
    /\ UNCHANGED <<doc, seen, account, kept, sig, padOpen, keepIt, placed, selected, page, job, server>>

\* An upload that ends, well or not, releases the buttons whoever holds them.
SignatureAnswer(i, ok) ==
    /\ i \in DOMAIN asks /\ asks' = RemoveAt(asks, i)
    /\ busy' = (busy /\ asks[i].keep)
    /\ IF ok THEN /\ sig' = asks[i].sig /\ padOpen' = FALSE
                  /\ kept' = IF asks[i].keep THEN kept \cup {asks[i].sig} ELSE kept
             ELSE UNCHANGED <<sig, padOpen, kept>>
    /\ UNCHANGED <<doc, seen, account, keepIt, placed, selected, page, job, server>>

-----------------------------------------------------------------------------
(* Where it goes.                                                           *)

Remember == /\ past' = LET longer == Append(past, placements)
                       IN  IF Len(longer) > Limit THEN Tail(longer) ELSE longer
            /\ future' = <<>>
Beside == UNCHANGED <<doc, seen, account, kept, sig, keepIt, asks, busy, page, job, server>>

\* The facade's list, with the state before the change remembered.
Place == /\ Remember /\ next' = next + 1
         /\ placements' = Append(placements, [id |-> next + 1, page |-> page, moved |-> FALSE])

MovePlacement(id) ==
    /\ Remember
    /\ placements' = [i \in DOMAIN placements |->
                        IF placements[i].id = id THEN [placements[i] EXCEPT !.moved = ~@] ELSE placements[i]]

Unplace(id) ==
    /\ Remember
    /\ \E i \in DOMAIN placements : placements[i].id = id /\ placements' = RemoveAt(placements, i)

\* With nothing to place the pad opens instead.
OnPlaced ==
    /\ ~padOpen
    /\ IF sig = None
       THEN padOpen' = TRUE /\ UNCHANGED placed
       ELSE next < MaxIds /\ Place /\ Withdraw /\ UNCHANGED padOpen
    /\ UNCHANGED selected /\ Beside

RemovePlacement(id) ==
    /\ id \in IdsOf(placements)
    /\ Unplace(id)
    /\ Withdraw /\ selected' = IF selected = id THEN None ELSE selected
    /\ UNCHANGED <<padOpen, next>> /\ Beside

OnGeometryChanged(id) ==
    /\ id \in IdsOf(placements)
    /\ MovePlacement(id)
    /\ UNCHANGED <<padOpen, next, selected, withdrawn>> /\ Beside

OnSelect(id) ==
    /\ id \in {p.id : p \in {q \in Range(placements) : q.page = page}} \cup {None}
    /\ selected' = id /\ UNCHANGED <<padOpen, placed>> /\ Beside

Undo == /\ past # <<>>
        /\ placements' = Last(past) /\ past' = Front(past) /\ future' = Append(future, placements)
        /\ Withdraw /\ UNCHANGED <<padOpen, next, selected>> /\ Beside
Redo == /\ future # <<>>
        /\ placements' = Last(future) /\ future' = Front(future) /\ past' = Append(past, placements)
        /\ Withdraw /\ UNCHANGED <<padOpen, next, selected>> /\ Beside

TurnPage(p) ==
    /\ p \in 0..PageCount - 1 /\ p \in {page - 1, page + 1} /\ page' = p
    /\ UNCHANGED <<doc, seen, pad, busy, placed, selected, job, server>>

Clear_KeepsHistory == placements' = <<>> /\ UNCHANGED <<past, future>>
Clear == placements' = <<>> /\ past' = <<>> /\ future' = <<>>

-----------------------------------------------------------------------------
(* Applying it.                                                             *)

Apply ==
    /\ ~busy /\ placements # <<>> /\ job = None
    /\ job' = [doc |-> doc, base |-> seen, ids |-> IdsOf(placements), sig |-> sig, st |-> "sent"]
    /\ busy' = TRUE
    /\ UNCHANGED <<doc, seen, pad, placed, selected, page, server>>

\* A job made for another version of the document is refused.
JobServed(ok) ==
    /\ job # None /\ job.st = "sent"
    /\ IF ok /\ job.base = head[job.doc] /\ head[job.doc] < MaxHead
       THEN /\ head' = [head EXCEPT ![job.doc] = @ + 1]
            /\ burned' = [id \in Ids |-> burned[id] + IF id \in job.ids THEN 1 ELSE 0]
            /\ job' = [job EXCEPT !.st = "ok"]
       ELSE /\ job' = [job EXCEPT !.st = IF job.base = head[job.doc] THEN "failed" ELSE "conflict"]
            /\ UNCHANGED server
    /\ UNCHANGED <<doc, seen, pad, busy, placed, selected, page>>

\* What is on the page when the job ends is forgotten, whatever the job was for.
JobAnswer ==
    /\ job # None /\ job.st # "sent" /\ job' = None /\ busy' = FALSE
    /\ IF job.st = "ok" THEN Clear ELSE UNCHANGED <<placements, past, future>>
    /\ seen' = IF job.st # "failed" /\ job.doc = doc THEN head[doc] ELSE seen
    /\ UNCHANGED <<doc, pad, next, withdrawn, selected, page, server>>

\* The answer does not get through.
JobLost ==
    /\ job # None /\ job' = None /\ busy' = FALSE
    /\ UNCHANGED <<doc, seen, pad, placed, selected, page, server>>

\* Another tab, another tool.
Elsewhere(d) ==
    /\ head[d] < MaxHead /\ head' = [head EXCEPT ![d] = @ + 1]
    /\ UNCHANGED <<doc, seen, pad, busy, placed, selected, page, job, burned>>

Refreshed ==
    /\ seen # head[doc] /\ seen' = head[doc]
    /\ UNCHANGED <<doc, pad, busy, placed, selected, page, job, server>>

\* For another document the panel begins again, with the pad open.
Navigate(d) ==
    /\ d # doc /\ doc' = d /\ seen' = head[d]
    /\ Clear /\ Withdraw /\ sig' = None /\ padOpen' = TRUE
    /\ UNCHANGED <<account, kept, keepIt, asks, busy, next, selected, page, job, server>>

-----------------------------------------------------------------------------
Init == /\ doc \in Docs /\ head = [d \in Docs |-> 1] /\ seen = 1
        /\ account \in BOOLEAN /\ kept = {} /\ sig = None /\ padOpen = TRUE /\ keepIt = FALSE
        /\ asks = <<>> /\ busy = FALSE
        /\ placements = <<>> /\ past = <<>> /\ future = <<>> /\ next = 0
        /\ selected = None /\ page = 0 /\ job = None
        /\ burned = [id \in Ids |-> 0] /\ withdrawn = {}

Next == \/ \E ok \in BOOLEAN : \/ Saved(ok) \/ JobServed(ok)
                               \/ \E i \in 1..MaxAsks : SignatureAnswer(i, ok)
        \/ \E s \in Sigs : Choose(s) \/ OnSignature(s)
        \/ TogglePad \/ ToggleKeep \/ OnPlaced \/ Undo \/ Redo
        \/ \E id \in Ids : RemovePlacement(id) \/ OnGeometryChanged(id)
        \/ \E id \in Ids \cup {None} : OnSelect(id)
        \/ \E p \in 0..PageCount - 1 : TurnPage(p)
        \/ Apply \/ JobAnswer \/ JobLost \/ Refreshed
        \/ \E d \in Docs : Elsewhere(d) \/ Navigate(d)
Spec == Init /\ [][Next]_vars

\* Somebody who waits for the job, on a connection that brings its answer.
Waits == job # None => /\ doc' = doc
                       /\ placements' # placements => JobAnswer
                       /\ job' = None => JobAnswer

-----------------------------------------------------------------------------
TypeOK ==
    /\ doc \in Docs /\ seen <= head[doc] /\ {account, padOpen, keepIt, busy} \subseteq BOOLEAN
    /\ kept \subseteq Sigs /\ sig \in Sigs \cup {None} /\ IdsOf(placements) \subseteq Ids
    /\ selected \in Ids \cup {None} /\ page \in 0..PageCount - 1
    /\ job \in Jobs \cup {None}

(* What is placed is signed, once: a placement not taken back is on the     *)
(* page until it is in the document, it is not in the document twice and    *)
(* not after it was taken back, and there is a signature to burn for        *)
(* whatever is on the page.  (EsignFacade.apply, clear, reset.)             *)
SignedOnce ==
    /\ \A id \in 1..next :
          /\ id \in IdsOf(placements) \cup withdrawn \/ burned[id] > 0
          /\ burned[id] <= (IF id \in withdrawn THEN 0 ELSE 1)
    /\ placements # <<>> => sig # None
=============================================================================
