-------------------------------- MODULE Pages --------------------------------
(***************************************************************************)
(* What a browser tab keeps outside the document's editor: the parts of     *)
(* SitePages, and those that sign, which are a signing ceremony, the        *)
(* signature pad, the request builder and the Sign panel.  They share no    *)
(* state: `part` says which of them a behaviour is of, and the others stay  *)
(* as they began.  Each part runs under the discipline its own module names *)
(* for what it promises.                                                    *)
(***************************************************************************)
EXTENDS SitePages

CONSTANTS Texts, Ticks, Pictures, Required, Vals, Empty,      \* of CeremonyPage
          MaxPolls, LetterPages, MaxCalls,
          Names, Unwritten, Fonts, MaxRenders,                \* of SignaturePad
          People, BuilderPages, BuilderLimit,                 \* of RequestBuilder
          MaxRows, MaxFields, MaxSaves,
          SignDocs, Sigs, SignPages, SignLimit,               \* of SignPanel
          MaxIds, MaxHead, MaxAsks

VARIABLES
    part,
    screen, meta, values, saved, letterFilled, letterPage, focus, dialog, letterBusy,
    failed, finalizing, attempt, calls, held, consented, turn, me, request,
    tab, ink, drawn, pen, padTyped, font, preview, timer, renders, given,
    step, builderBusy, call, recipients, fields, builderPast, builderFuture,
    builderSelected, builderPage, armedFor, unverified, draft, saves,
    signDoc, seen, account, kept, sig, padOpen, keepIt, asks, signBusy, placements,
    signPast, signFuture, next, signSelected, signPage, job, head, burned, withdrawn

letterVars == <<screen, meta, values, saved, letterFilled, letterPage, focus, dialog,
                letterBusy, failed, finalizing, attempt, calls, held, consented, turn, me,
                request>>
padVars == <<tab, ink, drawn, pen, padTyped, font, preview, timer, renders, given>>
builderVars == <<step, builderBusy, call, recipients, fields, builderPast, builderFuture,
                 builderSelected, builderPage, armedFor, unverified, draft, saves>>
signVars == <<signDoc, seen, account, kept, sig, padOpen, keepIt, asks, signBusy,
              placements, signPast, signFuture, next, signSelected, signPage, job, head,
              burned, withdrawn>>
vars == <<part, sessionVars, libraryVars, panelsVars, letterVars, padVars, builderVars,
         signVars, visitVars, toolVars>>

Letter == INSTANCE CeremonyPage WITH PageCount <- LetterPages, filled <- letterFilled,
    page <- letterPage, busy <- letterBusy
Pad == INSTANCE SignaturePad WITH Blank <- Unwritten, typed <- padTyped
Builder == INSTANCE RequestBuilder WITH PageCount <- BuilderPages, Limit <- BuilderLimit,
    busy <- builderBusy, past <- builderPast, future <- builderFuture,
    selected <- builderSelected, page <- builderPage
Sign == INSTANCE SignPanel WITH Docs <- SignDocs, PageCount <- SignPages, Limit <- SignLimit,
    doc <- signDoc, busy <- signBusy, past <- signPast, future <- signFuture,
    selected <- signSelected, page <- signPage
ASSUME SigningAssumption ==
  /\ Letter!Assumptions /\ Pad!Assumptions /\ Builder!Assumptions /\ Sign!Assumptions

-----------------------------------------------------------------------------
Init == /\ part \in {"session", "library", "panels", "letter", "pad", "builder", "sign",
                    "visit", "tool"}
        /\ Session!Init /\ Library!Init /\ Panels!Init
        /\ Letter!Init /\ Pad!Init /\ Builder!Init
        /\ Sign!Init /\ Visit!Init /\ Tool!Init

\* One part moves, as its module and the discipline it states allow.
Next == \/ /\ part = "session" /\ Session!Next /\ Session!InTurn
           /\ UNCHANGED <<part, libraryVars, panelsVars, letterVars, padVars, builderVars,
                         signVars, visitVars, toolVars>>
        \/ /\ part = "library" /\ Library!Next /\ Library!OneAtATime
           /\ UNCHANGED <<part, sessionVars, panelsVars, letterVars, padVars, builderVars,
                         signVars, visitVars, toolVars>>
        \/ /\ part = "panels" /\ Panels!Next /\ Panels!Waits
           /\ UNCHANGED <<part, sessionVars, libraryVars, letterVars, padVars, builderVars,
                         signVars, visitVars, toolVars>>
        \/ /\ part = "letter" /\ Letter!Next /\ Letter!Patient
           /\ UNCHANGED <<part, sessionVars, libraryVars, panelsVars, padVars, builderVars,
                         signVars, visitVars, toolVars>>
        \/ /\ part = "pad" /\ Pad!Next /\ Pad!Looks
           /\ UNCHANGED <<part, sessionVars, libraryVars, panelsVars, letterVars,
                         builderVars, signVars, visitVars, toolVars>>
        \/ /\ part = "builder" /\ Builder!Next /\ Builder!Waits
           /\ UNCHANGED <<part, sessionVars, libraryVars, panelsVars, letterVars, padVars,
                         signVars, visitVars, toolVars>>
        \/ /\ part = "sign" /\ Sign!Next /\ Sign!Waits
           /\ UNCHANGED <<part, sessionVars, libraryVars, panelsVars, letterVars, padVars,
                         builderVars, visitVars, toolVars>>
        \/ /\ part = "visit" /\ Visit!Next /\ Visit!Still
           /\ UNCHANGED <<part, sessionVars, libraryVars, panelsVars, letterVars, padVars,
                         builderVars, signVars, toolVars>>
        \/ /\ part = "tool" /\ Tool!Next
           /\ UNCHANGED <<part, sessionVars, libraryVars, panelsVars, letterVars, padVars,
                         builderVars, signVars, visitVars>>

Spec == Init /\ [][Next]_vars

-----------------------------------------------------------------------------
(* What the modules state.                         *)

\* The types of each part.
TypeOK == /\ part = "session" => Session!TypeOK
          /\ part = "library" => Library!TypeOK
          /\ part = "panels" => Panels!TypeOK
          /\ part = "letter" => Letter!TypeOK
          /\ part = "pad" => Pad!TypeOK
          /\ part = "builder" => Builder!TypeOK
          /\ part = "sign" => Sign!TypeOK
          /\ part = "visit" => Visit!TypeOK
          /\ part = "tool" => Tool!TypeOK

\* No work is stranded in a guest session the tab has let go of, and no refresh token is
\* spent twice, however many requests meet a 401 at once.
WorkIsInReach == [][part = "session" => /\ Session!WorkIsInReach'
                                        /\ Session!GuestIsKept /\ Session!SpentOnce]_vars

\* What is signed, sent or placed is what was on screen, and is so once: the values of a
\* ceremony, the request that was reviewed, the picture of a signature, the placements.
SentIsSeen == /\ part = "letter" => Letter!SignedIsShown
              /\ part = "builder" => Builder!ReviewedIsSent
              /\ part = "pad" => Pad!GivenIsMade
              /\ part = "sign" => Sign!SignedOnce
              /\ part = "tool" => Tool!RunsAreTrue

\* The library lists every document once, and a comparison or an export on offer is of the
\* document on screen.
ListsAreTrue == /\ part = "library" => Library!NoRowTwice /\ Library!NothingSkipped
                /\ part = "panels" => Panels!AnswersAreOfDocument

\* A consent taken back is taken back, and a reload for a new build costs no work.
VisitorKeeps == part = "visit" => Visit!WithdrawnIsGone /\ Visit!UpdateLosesNothing

=============================================================================
