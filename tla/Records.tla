------------------------------- MODULE Records -------------------------------
(***************************************************************************)
(* What the server keeps, of components that share no state: the draft,    *)
(* the audit chain, the storage ledger, the guest session, the slots for   *)
(* jobs and the password meter.  `part` says which of them a behaviour is  *)
(* of; the others stay as they began.  Each part runs under the condition  *)
(* its own module names for what it promises.                              *)
(***************************************************************************)
EXTENDS Integers, FiniteSets

CONSTANTS Windows, Sweep, MaxVersion,             \* of SignDraft
          Writers, Unlocked, Ids, MaxTime,        \* of AuditChain
          Items, Size, Docs, Space,               \* of StorageLedger
          Jobs, Uploads, Deleters, Quota,
          GuestUploads, GuestJobs, Users,         \* of GuestLifecycle
          AccountQuota, Guest, Nobody, Gone,
          Requests, Metered, OpsPerHour, MaxKills,  \* of JobAdmission
          MaxConcurrentJobs,                      \* of JobAdmission and PasswordMeter
          Guesses, AttemptsPerMinute,             \* of PasswordMeter
          Bucket, Span, KeyLife, Horizon

VARIABLES part,
          req, source, people, fields, ver, doc, files, at, saw,
          now, events, holder, pc, event, tail, damage,
          used, blobs, rows, spent, gone, begun, flight, step, hand, read,
          rpc, before, tally, kills,
          alive, expired, claimed, bytes, owed, owner, jobs, asset, lease, does, who, loaded,
          sweep, victims,
          asks, slot, job, charged, deaths,
          clock, count, ends, tries, failedAt

draftVars  == <<req, source, people, fields, ver, doc, files, at, saw>>
chainVars  == <<now, events, holder, pc, event, tail, damage>>
ledgerVars == <<used, blobs, rows, spent, gone, begun, flight, step, hand, read,
                rpc, before, tally, kills>>
guestVars  == <<alive, expired, claimed, bytes, owed, owner, jobs, asset, lease, does, who,
                loaded, sweep, victims>>
slotVars   == <<asks, slot, job, charged, deaths>>
meterVars  == <<clock, count, ends, tries, failedAt>>
vars == <<part, draftVars, chainVars, ledgerVars, guestVars, slotVars, meterVars>>

Draft   == INSTANCE SignDraft WITH blobs <- files
Chain   == INSTANCE AuditChain WITH rows <- events
\* Nobody is killed: a kill leaves a counter off until the recount of a night that is quiet.
Ledger  == INSTANCE StorageLedger WITH MaxKills <- 0, pc <- step, saw <- read
\* A recount that finds the counter where it was takes it that nothing has moved: so it is, if
\* what jobs make meanwhile never has just as many bytes as the assets they delete.
SizesApart ==
  \A S \in SUBSET Ledger!Assets, R \in SUBSET (Items \ Ledger!Assets) :
    Ledger!Bytes(S) = Ledger!Bytes(R) => Ledger!Bytes(S) = 0
Session == INSTANCE GuestLifecycle WITH Uploads <- GuestUploads, Jobs <- GuestJobs,
              Quota <- AccountQuota, used <- owed, holder <- lease, pc <- does
Slots   == INSTANCE JobAdmission WITH pc <- asks, kills <- deaths
Meter   == INSTANCE PasswordMeter WITH MaxTime <- Horizon, now <- clock, pc <- tries,
              at <- failedAt

ASSUME PartsAssumption ==
  /\ Draft!Assumptions /\ Chain!Assumptions /\ Ledger!Assumptions
  /\ Session!Assumptions /\ Slots!Assumptions /\ Meter!Assumptions
ASSUME FiniteAssumption ==
  /\ IsFiniteSet(Items) /\ IsFiniteSet(Jobs \cup Uploads)
  /\ IsFiniteSet(GuestUploads \cup GuestJobs)
  /\ IsFiniteSet(Requests) /\ IsFiniteSet(Guesses)

Init == /\ part \in {"draft", "chain", "ledger", "session", "slots", "meter"}
        /\ Draft!Init /\ Chain!Init /\ Ledger!Init
        /\ Session!Init /\ Slots!Init /\ Meter!Init

Next == \/ /\ part = "draft" /\ Draft!Next /\ Draft!Alone
           /\ UNCHANGED <<part, chainVars, ledgerVars, guestVars, slotVars, meterVars>>
        \/ /\ part = "chain" /\ Chain!Next /\ Chain!InTime /\ Chain!Distinct
           /\ UNCHANGED <<part, draftVars, ledgerVars, guestVars, slotVars, meterVars>>
        \/ /\ part = "ledger" /\ Ledger!Next /\ Ledger!Calm
           /\ UNCHANGED <<part, draftVars, chainVars, guestVars, slotVars, meterVars>>
        \/ /\ part = "session" /\ Session!Next /\ Session!Unhurried
           /\ UNCHANGED <<part, draftVars, chainVars, ledgerVars, slotVars, meterVars>>
        \/ /\ part = "slots" /\ Slots!Next
           /\ UNCHANGED <<part, draftVars, chainVars, ledgerVars, guestVars, meterVars>>
        \/ /\ part = "meter" /\ Meter!Next /\ Meter!Prompt
           /\ UNCHANGED <<part, draftVars, chainVars, ledgerVars, guestVars, slotVars>>

Spec == Init /\ [][Next]_vars

-----------------------------------------------------------------------------
(* What the modules state, of the instances above.                         *)

\* The types of each part.
TypeOK == /\ Draft!TypeOK /\ Chain!TypeOK /\ Ledger!TypeOK
          /\ Session!TypeOK /\ Slots!TypeOK /\ Meter!TypeOK

\* The file everybody is asked to sign can be read until the request is over; and what a
\* guest made is the account's once it is claimed, so that no purge finds it.
KeptWhileNeeded == Draft!SourceReadable /\ Session!WorkFollows

\* What is sent has signers, each has something to sign, and stays as it was sent: its
\* version, its recipients and fields, and the request itself.
SentStays == [][Draft!SentStays]_vars

\* No two events are chained to the same one, and verify_chain reports no break where
\* nothing has happened.
OneChain == Chain!NoFork /\ Chain!ChainVerifies

\* A row altered or lost is noticed.
DamageNoticed == Chain!DamageNoticed

\* With nothing under way, the counters are what is charged, through jobs, recounts and claims.
Settled == Ledger!Settled /\ Session!CountedOnce

\* No batch walks past the quota, no crowd of requests past the tier's slots and its hourly
\* operations, and no guesses past the attempts of a minute.
LimitsHold == Ledger!QuotaHeld /\ Slots!SlotsHold /\ Meter!MeterHolds
=============================================================================
