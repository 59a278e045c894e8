----------------------------- MODULE CeremonyPage ------------------------------
(***************************************************************************)
(* The page a signing link opens, in the signer's browser: what it shows,   *)
(* what it has sent, and the answers still to come.  The server's side of   *)
(* the same calls is cut down to one signer's fields.                       *)
(***************************************************************************)
EXTENDS Integers, Sequences, SequencesExt

CONSTANTS Texts, Ticks, Pictures,  \* the signer's fields, by how they are filled
          Required,                \* those that must be filled
          Vals, Empty,             \* what a field may hold, and nothing
          None,
          MaxPolls,                \* 12: polls for the seal after the first
          PageCount,
          MaxCalls                 \* calls in flight: a bound of the model

Fields == Texts \cup Ticks \cup Pictures
Assumptions == /\ Required \subseteq Fields /\ Empty \notin Vals
               /\ Texts \cap Pictures = {} /\ Ticks \cap (Texts \cup Pictures) = {}
               /\ {None, "decline", "report"} \cap Fields = {} /\ None # "decline" /\ None # "report"
               /\ None \notin 0..MaxPolls
               /\ MaxPolls \in Nat /\ {PageCount, MaxCalls} \subseteq Nat \ {0}

VARIABLES
    screen, meta,            \* meta: the fields as the server gave them; None before
    values, saved, filled,
    page, focus, dialog,     \* the field typed in; the dialog open: a field's pad, or one of two
    busy, failed,            \* a call holds the buttons; the page has told of a failure
    finalizing, attempt,     \* attempt: None, or the poll the timer is set for
    calls,                   \* sent and not yet answered
    held, consented, turn, me, request   \* the server: fields, consent, turn, recipient, request

vars == <<screen, meta, values, saved, filled, page, focus, dialog, busy, failed, finalizing,
          attempt, calls, held, consented, turn, me, request>>
server == <<held, consented, turn, me, request>>
shown  == <<screen, meta, values, saved, filled>>
seal   == <<finalizing, attempt>>
browser == <<shown, page, focus, dialog, busy, failed, seal>>

Call(kind, f, v) == [kind |-> kind, field |-> f, val |-> v, st |-> "sent", got |-> None]
Send(c) == Len(calls) < MaxCalls /\ calls' = Append(calls, c)

-----------------------------------------------------------------------------
(* The server.                                                              *)

\* A recipient may act on an open request, in turn, having consented, until done.
Acting == request = "sent" /\ turn /\ consented /\ me = "open"

\* What the page is told of the request and of its fields.
Told == [held |-> held, status |-> request, me |-> me, turn |-> turn, consented |-> consented]

Slots == 1..(MaxCalls + 1)   \* a poll is sent besides
Settle(i, st, got) == calls' = [calls EXCEPT ![i].st = st, ![i].got = got]
Asked(i, kinds) == i \in DOMAIN calls /\ calls[i].st = "sent" /\ calls[i].kind \in kinds

ServeRead(i) ==
    /\ Asked(i, {"load", "poll"})
    /\ IF request # "closed" THEN Settle(i, "ok", Told) ELSE Settle(i, "closed", None)
    /\ UNCHANGED server

ServeConsent(i) ==
    /\ Asked(i, {"consent"})
    /\ IF request # "closed" THEN Settle(i, "ok", None) ELSE Settle(i, "no", None)
    /\ consented' = (consented \/ request # "closed")
    /\ UNCHANGED <<held, turn, me, request>>

ServeField(i) ==
    /\ Asked(i, {"value", "picture"})
    /\ IF Acting
       THEN /\ held' = [held EXCEPT ![calls[i].field] = calls[i].val]
            /\ Settle(i, "ok", calls[i].val # Empty)
       ELSE Settle(i, "no", None) /\ UNCHANGED held
    /\ UNCHANGED <<consented, turn, me, request>>

\* `last`: nobody is left to act, so the envelope is finalized.
ServeComplete(i, last) ==
    /\ Asked(i, {"complete"})
    /\ IF Acting /\ \A f \in Required : held[f] # Empty
       THEN me' = "completed" /\ Settle(i, "ok", IF last THEN "completed" ELSE "waiting")
       ELSE Settle(i, "no", None) /\ UNCHANGED me
    /\ UNCHANGED <<held, consented, turn, request>>

ServeDecline(i) ==
    /\ Asked(i, {"decline"})
    /\ IF request = "sent" /\ me = "open"
       THEN request' = "closed" /\ Settle(i, "ok", None)
       ELSE Settle(i, "no", None) /\ UNCHANGED request
    /\ UNCHANGED <<held, consented, turn, me>>

\* The third report pauses the request.
ServeReport(i, third) ==
    /\ Asked(i, {"report"})
    /\ IF request # "closed" THEN Settle(i, "ok", None) ELSE Settle(i, "no", None)
    /\ request' = IF third /\ request = "sent" THEN "closed" ELSE request
    /\ UNCHANGED <<held, consented, turn, me>>

\* The call or its answer does not get through.
Lose(i) ==
    /\ i \in DOMAIN calls /\ calls[i].st # "lost"
    /\ Settle(i, "lost", None) /\ UNCHANGED server

\* Everybody else: the turn comes, the sender or another signer closes it, the worker seals it.
Others ==
    /\ \/ ~turn /\ turn' = TRUE /\ UNCHANGED request
       \/ request = "sent" /\ request' = "closed" /\ UNCHANGED turn
       \/ me = "completed" /\ request = "sent" /\ request' = "completed" /\ UNCHANGED turn
    /\ UNCHANGED <<held, consented, me, calls, browser>>

Serve(i) == /\ \/ ServeRead(i) \/ ServeConsent(i) \/ ServeField(i) \/ ServeDecline(i) \/ Lose(i)
               \/ \E b \in BOOLEAN : ServeComplete(i, b) \/ ServeReport(i, b)
            /\ UNCHANGED browser

-----------------------------------------------------------------------------
(* What the signer does.                                                    *)

Signing == screen = "sign" /\ dialog = None

ScreenFor(m) == IF m.me = "completed" THEN "done" ELSE IF ~m.turn THEN "wait"
                ELSE IF ~m.consented THEN "consent" ELSE "sign"

\* Done is what the page has learnt since, or what the server said when it loaded.
Done(f)   == filled[f] \/ meta.held[f] # Empty
CanFinish == \A f \in Required : Done(f)

Consent ==
    /\ screen = "consent" /\ dialog = None /\ ~busy
    /\ Send(Call("consent", None, None)) /\ busy' = TRUE
    /\ UNCHANGED <<shown, page, focus, dialog, failed, seal, server>>

\* Typing: nothing leaves the browser.
Stage(f, v) ==
    /\ Signing /\ f \in Texts /\ focus \in {None, f} /\ v # values[f]
    /\ values' = [values EXCEPT ![f] = v] /\ focus' = f
    /\ UNCHANGED <<screen, meta, saved, filled, page, dialog, busy, failed, seal, calls, server>>

\* Leaving a field sends it if it is not what the server last accepted.
Changed_SinceLoaded(f) == meta.held[f] # values[f]
Changed(f) == saved[f] # values[f]
Commit ==
    /\ Signing /\ focus # None
    /\ focus' = None
    /\ IF Changed(focus) THEN Send(Call("value", focus, values[focus])) ELSE UNCHANGED calls
    /\ UNCHANGED <<shown, page, dialog, busy, failed, seal, server>>

\* A tick is sent at once.
Tick(f, v) ==
    /\ Signing /\ focus = None /\ f \in Ticks /\ v # values[f]
    /\ values' = [values EXCEPT ![f] = v]
    /\ Send(Call("value", f, v))
    /\ UNCHANGED <<screen, meta, saved, filled, page, focus, dialog, busy, failed, seal, server>>

OpenPad(f) ==
    /\ Signing /\ focus = None /\ f \in Pictures
    /\ dialog' = f
    /\ UNCHANGED <<shown, page, focus, busy, failed, seal, calls, server>>

OnSignature(v) ==
    /\ dialog \in Pictures
    /\ Send(Call("picture", dialog, v)) /\ busy' = TRUE
    /\ UNCHANGED <<shown, page, focus, dialog, failed, seal, server>>

OpenDialog(d) ==
    /\ dialog = None /\ focus = None
    /\ d = "decline" => screen \in {"consent", "sign"}
    /\ dialog' = d
    /\ UNCHANGED <<shown, page, focus, busy, failed, seal, calls, server>>

Cancel ==
    /\ dialog # None /\ dialog' = None
    /\ UNCHANGED <<shown, page, focus, busy, failed, seal, calls, server>>

Confirm ==
    /\ dialog \in {"decline", "report"} /\ ~busy
    /\ Send(Call(dialog, None, None)) /\ busy' = TRUE
    /\ UNCHANGED <<shown, page, focus, dialog, failed, seal, server>>

\* Pressing the button leaves the field typed in first: both calls are then in flight.
Finish ==
    /\ Signing /\ focus = None /\ CanFinish /\ ~busy
    /\ Send(Call("complete", None, None)) /\ busy' = TRUE
    /\ UNCHANGED <<shown, page, focus, dialog, failed, seal, server>>

\* The arrows, and the link from a field to its page.
Turn(n) ==
    /\ Signing /\ n \in 0..PageCount - 1 /\ page' = n
    /\ UNCHANGED <<shown, focus, dialog, busy, failed, seal, calls, server>>

Person == \/ Consent \/ Commit \/ Cancel \/ Confirm \/ Finish
          \/ \E f \in Fields : OpenPad(f) \/ \E v \in Vals \cup {Empty} : Stage(f, v)
          \/ \E v \in Vals : OnSignature(v) \/ \E f \in Ticks : Tick(f, v)
          \/ \E d \in {"decline", "report"} : OpenDialog(d)
          \/ \E n \in 0..PageCount - 1 : Turn(n)

-----------------------------------------------------------------------------
(* What the page does with the answers.                                     *)

Answers(i, kind) == i \in DOMAIN calls /\ calls[i].kind = kind /\ calls[i].st # "sent"
Drop(i) == calls' = RemoveAt(calls, i)
Failure == failed' = TRUE

Loaded(i) ==
    /\ Answers(i, "load") /\ Drop(i)
    /\ IF calls[i].st = "ok"
       THEN /\ meta' = calls[i].got /\ screen' = ScreenFor(calls[i].got)
            /\ values' = calls[i].got.held /\ saved' = calls[i].got.held
            /\ filled' = [f \in Fields |-> calls[i].got.held[f] # Empty]
            /\ UNCHANGED failed
       ELSE /\ screen' = IF calls[i].st = "closed" THEN "closed" ELSE "error"
            /\ Failure /\ UNCHANGED <<meta, values, saved, filled>>
    /\ UNCHANGED <<page, focus, dialog, busy, seal, server>>

Consented(i) ==
    /\ Answers(i, "consent") /\ Drop(i) /\ busy' = FALSE
    /\ IF calls[i].st = "ok" THEN screen' = "sign" /\ UNCHANGED failed
                             ELSE Failure /\ UNCHANGED screen
    /\ UNCHANGED <<meta, values, saved, filled, page, focus, dialog, seal, server>>

Learn(i) == /\ filled' = [filled EXCEPT ![calls[i].field] = calls[i].got]
            /\ saved' = [saved EXCEPT ![calls[i].field] = calls[i].val]

ValueSaved(i) ==
    /\ Answers(i, "value") /\ Drop(i)
    /\ IF calls[i].st = "ok" THEN Learn(i) /\ UNCHANGED failed
                             ELSE Failure /\ UNCHANGED <<filled, saved>>
    /\ UNCHANGED <<screen, meta, values, page, focus, dialog, busy, seal, server>>

\* It closes the pad that is open, whichever field that is now for.
PictureSaved(i) ==
    /\ Answers(i, "picture") /\ Drop(i) /\ busy' = FALSE
    /\ IF calls[i].st = "ok"
       THEN /\ filled' = [filled EXCEPT ![calls[i].field] = TRUE]
            /\ dialog' = (IF dialog \in Pictures THEN None ELSE dialog) /\ UNCHANGED failed
       ELSE Failure /\ UNCHANGED <<filled, dialog>>
    /\ UNCHANGED <<screen, meta, values, saved, page, focus, seal, server>>

\* The request is read again; the last signer also waits for the seal.
Finished(i) ==
    /\ Answers(i, "complete") /\ busy' = FALSE
    /\ IF calls[i].st = "ok"
       THEN /\ screen' = "done" /\ finalizing' = (calls[i].got = "completed")
            /\ calls' = Append(RemoveAt(calls, i), Call("load", None, None))
            /\ attempt' = (IF calls[i].got = "completed" THEN 0 ELSE attempt)
            /\ UNCHANGED failed
       ELSE Drop(i) /\ Failure /\ UNCHANGED <<screen, seal>>
    /\ UNCHANGED <<meta, values, saved, filled, page, focus, dialog, server>>

Declined(i) ==
    /\ Answers(i, "decline") /\ Drop(i) /\ busy' = FALSE /\ Failure
    /\ IF calls[i].st = "ok"
       THEN screen' = "closed" /\ dialog' = (IF dialog = "decline" THEN None ELSE dialog)
       ELSE UNCHANGED <<screen, dialog>>
    /\ UNCHANGED <<meta, values, saved, filled, page, focus, seal, server>>

\* What became of a report is told in a banner or in the dialog, never as a failure of the page.
Reported(i) ==
    /\ Answers(i, "report") /\ Drop(i) /\ busy' = FALSE
    /\ dialog' = IF calls[i].st = "ok" /\ dialog = "report" THEN None ELSE dialog
    /\ UNCHANGED <<shown, page, focus, failed, seal, server>>

\* awaitCompletion: a second and a half later the request is read again, MaxPolls times over.
Poll ==
    /\ attempt # None /\ \A i \in DOMAIN calls : calls[i].kind # "poll"
    /\ calls' = Append(calls, Call("poll", None, attempt)) /\ attempt' = None
    /\ UNCHANGED <<shown, page, focus, dialog, busy, failed, finalizing, server>>

Again_Forever(n) == attempt' = 0 /\ UNCHANGED finalizing
Again(n) == IF n > MaxPolls THEN attempt' = None /\ finalizing' = FALSE
                            ELSE attempt' = n /\ UNCHANGED finalizing

Polled(i) ==
    /\ Answers(i, "poll") /\ Drop(i)
    /\ meta' = IF calls[i].st = "ok" THEN calls[i].got ELSE meta
    /\ IF calls[i].st = "ok" /\ calls[i].got.status # "completed" THEN Again(calls[i].val + 1)
       ELSE finalizing' = FALSE /\ UNCHANGED attempt
    /\ UNCHANGED <<screen, values, saved, filled, page, focus, dialog, busy, failed, server>>

Answer(i) == \/ Loaded(i) \/ Consented(i) \/ ValueSaved(i) \/ PictureSaved(i)
             \/ Finished(i) \/ Declined(i) \/ Reported(i) \/ Polled(i)

-----------------------------------------------------------------------------
Nothing == [f \in Fields |-> Empty]
Init == /\ screen = "loading" /\ meta = None /\ values = Nothing /\ saved = Nothing
        /\ filled = [f \in Fields |-> FALSE] /\ page = 0 /\ focus = None /\ dialog = None
        /\ busy = FALSE /\ failed = FALSE /\ finalizing = FALSE /\ attempt = None
        /\ calls = <<Call("load", None, None)>>
        /\ held \in [Fields -> Vals \cup {Empty}]
        /\ consented \in BOOLEAN /\ turn \in BOOLEAN /\ me = "open" /\ request = "sent"

Next == Others \/ Person \/ Poll \/ \E i \in Slots : Serve(i) \/ Answer(i)
Spec == Init /\ [][Next]_vars

\* A call is answered or lost, its answer is handled, and the timer goes off.
FairSpec == Spec /\ WF_vars(Poll) /\ \A i \in Slots : WF_vars(Serve(i)) /\ WF_vars(Answer(i))

\* A signer who waits for what is sent before going on.
Patient == LET waiting == \E i \in DOMAIN calls : calls[i].kind \in {"value", "picture", "complete"}
           IN  waiting => values' = values /\ Len(calls') <= Len(calls)

-----------------------------------------------------------------------------
TypeOK ==
    /\ screen \in {"loading", "consent", "sign", "wait", "done", "closed", "error"}
    /\ values \in [Fields -> Vals \cup {Empty}] /\ saved \in [Fields -> Vals \cup {Empty}]
    /\ filled \in [Fields -> BOOLEAN] /\ page \in 0..PageCount - 1
    /\ focus \in Texts \cup {None} /\ dialog \in Pictures \cup {None, "decline", "report"}
    /\ attempt \in 0..MaxPolls \cup {None} /\ Len(calls) \in 0..(MaxCalls + 1)
    /\ held \in [Fields -> Vals \cup {Empty}]

(* What is signed is what was on the screen: once the signer has completed, *)
(* the server holds for every field the value the page showed, unless the   *)
(* page told of a failure.  (commit: "the ceremony showed empty and the     *)
(* signed PDF did not".)                                                    *)
SignedIsShown ==
    me = "completed" /\ ~failed => \A f \in Texts \cup Ticks : values[f] = held[f]

(* The last signer is not left waiting: "sealing the document now" gives    *)
(* way to the downloads or to the sentence for those who wait, whatever     *)
(* becomes of the polls.  (awaitCompletion.)                                *)
SealingEnds == finalizing ~> ~finalizing
=============================================================================
