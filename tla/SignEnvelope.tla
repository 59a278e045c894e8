---------------------------- MODULE SignEnvelope ----------------------------
(***************************************************************************)
(* One signing request from the moment it is sent: the recipients' links,  *)
(* the owner and the beat sweeps acting on it, and the Celery task that    *)
(* burns the fields, seals the file, and finishes with a certificate, an   *)
(* appended version and a mail.                                            *)
(*                                                                         *)
(* Every HTTP handler reads its rows first and writes them later, one      *)
(* autocommitted statement at a time, so a handler here is a read step and *)
(* write steps with anything in between; it may die anywhere.  A "tab" is  *)
(* one request at a time made with one recipient's link; a recipient may   *)
(* have several.  The links are capabilities: an early one may have been   *)
(* forwarded, so nobody has to be mailed before opening.                   *)
(*                                                                         *)
(* A definition named X_Y is X with the slip its comment names, put in the *)
(* place of X to see that a property notices; no action uses it.           *)
(***************************************************************************)
EXTENDS Naturals, FiniteSets

CONSTANTS Signers, Approvers, Viewers, Copied,  \* the recipients by role
          Order,           \* recipient -> group
          Tabs, Holder,    \* requests by link, and whose link it is
          Owner, Beat,     \* the sender's request; the expiry sweep
          Workers, Nobody, \* executions of finalize_sign_request; a free lock
          ReportsToPause,  \* ABUSE_REPORTS_TO_PAUSE
          MaxKills,        \* bound: how many executions are killed
          Faults,          \* may the engine or the storage fail an execution?
          HardLimit,       \* --time-limit of the heavy lane
          LockTTL,         \* DOC_LOCK_TTL
          LockWait,        \* DOC_LOCK_TIMEOUT
          Retries, Countdown  \* of finalize_sign_request

Recipients == Signers \cup Approvers \cup Viewers \cup Copied
Acting     == Recipients \ Copied
Consenting == Signers \cup Approvers
Handlers   == Tabs \cup {Owner, Beat}

ASSUME RolesAssumption ==
  /\ Signers # {} /\ Order \in [Recipients -> Nat]
  /\ Copied \cap (Signers \cup Approvers \cup Viewers) = {}
ASSUME ProcessAssumption ==
  /\ Holder \in [Tabs -> Recipients]
  /\ Owner \notin Tabs /\ Beat \notin Tabs /\ Owner # Beat
  /\ Nobody \notin Workers
ASSUME BoundAssumption ==
  /\ {ReportsToPause, MaxKills} \subseteq Nat /\ Faults \in BOOLEAN
  /\ {HardLimit, LockTTL, LockWait, Retries, Countdown} \subseteq Nat

VARIABLES
  req,        \* SignRequest.status
  late,       \* expires_at has passed
  rec,        \* Recipient.status
  consented,  \* Recipient.consent_at is set
  mailed,     \* Recipient.last_notified_at is set
  ink,        \* the required fields of a signer are filled
  signed,     \* how many "signed" or "approved" events name the recipient
  claimed,    \* who has ever won the conditional UPDATE to COMPLETED
  reports,    \* who has reported the request
  at,         \* what each handler does next
  todo,       \* whom it still has to mail, with the status it read
  queue,      \* finalize messages at the broker
  fpc,        \* where each execution of finalize is
  bytes,      \* the file an execution has produced, by number
  files,      \* how many files have been produced
  row,        \* what an execution last read of the tail's marks
  lock,       \* holder of the Redis lock zen:doc:sign-{id}
  kills,      \* executions killed so far
  stored,     \* which file sign/{id}/final.pdf is; 0 before there is one
  sha,        \* which file final_sha256 describes; 0 while it is empty
  events,     \* how many "seal_applied" and "completed" events there are
  marks,      \* certificate_key, source_appended_at, completed_notified_at
  listed,     \* whose signing the certificate lists
  appended,   \* versions labelled "Signed" appended to the document
  mails       \* rounds of "completed" mail

peopleVars == <<rec, consented, mailed, ink, signed, claimed, reports>>
webVars    == <<at, todo>>
taskVars   == <<queue, fpc, bytes, files, row, lock, kills>>
tailVars   == <<events, marks, listed, appended, mails>>
vars == <<req, late, rec, consented, mailed, ink, signed, claimed, reports, at,
          todo, queue, fpc, bytes, files, row, lock, kills, stored, sha,
          events, marks, listed, appended, mails>>

Closed   == {"expired", "canceled", "canceled_by_abuse", "declined"}
ReqStatus == {"sent", "completed"} \cup Closed
RecStatus == {"pending", "notified", "viewed", "consented", "completed", "declined"}
Marks    == {"certificate", "appended", "notified"}

\* A killed execution's lock goes with its TTL, a live one is killed first;
\* and whoever keeps asking outlives a dead holder's lock.
Outlasts        == HardLimit < LockTTL
RetriesOutlast  == (Retries + 1) * LockWait + Retries * Countdown > LockTTL

-----------------------------------------------------------------------------
(* The routing engine: who is next, and when is the request finished.      *)

Outstanding  == {r \in Acting : rec[r] # "completed"}
EveryoneDone == Outstanding = {}
IsTurn(r)    == /\ r \in Acting /\ Outstanding # {}
                /\ \A q \in Outstanding : Order[r] <= Order[q]
NextToNotify == {r \in Outstanding : IsTurn(r) /\ ~mailed[r]}

\* The link works: neither closed nor past its date.  A completed request is
\* not closed, so that its people can fetch their copy.
LinkOpen  == req \notin Closed /\ ~late
\* (whose turn it is is not asked)
MayAct_Early(r) == /\ LinkOpen /\ rec[r] # "completed" /\ r \in Acting
                   /\ r \in Consenting => consented[r]
\* (consent is not asked)
MayAct_Unasked(r) == LinkOpen /\ rec[r] # "completed" /\ IsTurn(r)
MayAct(r) == /\ LinkOpen /\ rec[r] # "completed" /\ IsTurn(r)
             /\ r \in Consenting => consented[r]

\* The row is locked while a finalize commits; whoever writes it waits, and so
\* does an audit event, which locks the row to read the chain's tail.
RowLocked == \E t \in Workers : fpc[t] = "commit"

-----------------------------------------------------------------------------
Init ==
  /\ req = "sent" /\ late = FALSE
  /\ rec = [r \in Recipients |-> "pending"]
  /\ consented = [r \in Recipients |-> FALSE]
  /\ mailed = [r \in Recipients |-> FALSE]
  /\ ink = [r \in Recipients |-> FALSE]
  /\ signed = [r \in Recipients |-> 0]
  /\ claimed = {} /\ reports = {}
  \* The send handler has saved the status and is about to mail the first group.
  /\ at = [h \in Handlers |-> IF h = Owner THEN "notify" ELSE "idle"]
  /\ todo = [h \in Handlers |-> IF h = Owner
               THEN {<<r, "pending">> : r \in NextToNotify} ELSE {}]
  /\ queue = 0
  /\ fpc = [t \in Workers |-> "idle"]
  /\ bytes = [t \in Workers |-> 0] /\ files = 0
  /\ row = [t \in Workers |-> {}]
  /\ lock = Nobody /\ kills = 0
  /\ stored = 0 /\ sha = 0
  /\ events = [e \in {"seal_applied", "completed"} |-> 0]
  /\ marks = {} /\ listed = {} /\ appended = 0 /\ mails = 0

-----------------------------------------------------------------------------
(* The public ceremony.                                                    *)

Goto(h, a) == at' = [at EXCEPT ![h] = a]

Open(h) ==
  /\ at[h] = "idle" /\ LinkOpen
  /\ rec[Holder[h]] \in {"pending", "notified"}
  /\ Goto(h, "open")
  /\ UNCHANGED <<req, late, peopleVars, todo, taskVars, stored, sha, tailVars>>

\* The status is saved whatever it has become.
SaveOpen(h) ==
  /\ at[h] = "open" /\ Goto(h, "idle")
  /\ rec' = [rec EXCEPT ![Holder[h]] = "viewed"]
  /\ UNCHANGED <<req, late, consented, mailed, ink, signed, claimed, reports,
                 todo, taskVars, stored, sha, tailVars>>

Consent(h) ==
  /\ at[h] = "idle" /\ LinkOpen /\ ~consented[Holder[h]]
  /\ Goto(h, "consent")
  /\ UNCHANGED <<req, late, peopleVars, todo, taskVars, stored, sha, tailVars>>

SaveConsent(h) ==
  /\ at[h] = "consent" /\ Goto(h, "idle")
  /\ consented' = [consented EXCEPT ![Holder[h]] = TRUE]
  /\ rec' = [rec EXCEPT ![Holder[h]] = "consented"]
  /\ UNCHANGED <<req, late, mailed, ink, signed, claimed, reports,
                 todo, taskVars, stored, sha, tailVars>>

Fill(h) ==
  /\ at[h] = "idle" /\ MayAct(Holder[h]) /\ Holder[h] \in Signers
  /\ Goto(h, "fill")
  /\ UNCHANGED <<req, late, peopleVars, todo, taskVars, stored, sha, tailVars>>

\* A text field can be emptied again.
SaveFill(h) ==
  /\ at[h] = "fill" /\ Goto(h, "idle")
  /\ \E filled \in BOOLEAN : ink' = [ink EXCEPT ![Holder[h]] = filled]
  /\ UNCHANGED <<req, late, rec, consented, mailed, signed, claimed, reports,
                 todo, taskVars, stored, sha, tailVars>>

\* Only a signer is held to the required fields.
Complete(h) ==
  /\ at[h] = "idle" /\ MayAct(Holder[h])
  /\ Holder[h] \in Signers => ink[Holder[h]]
  /\ Goto(h, "claim")
  /\ UNCHANGED <<req, late, peopleVars, todo, taskVars, stored, sha, tailVars>>

\* The conditional UPDATE.  Whoever does not win it still goes on to advance.
Claim(h) ==
  /\ at[h] = "claim"
  /\ \/ /\ rec[Holder[h]] # "completed"
        /\ rec' = [rec EXCEPT ![Holder[h]] = "completed"]
        /\ claimed' = claimed \cup {Holder[h]}
        /\ Goto(h, "record")
     \/ /\ rec[Holder[h]] = "completed"
        /\ Goto(h, "advance") /\ UNCHANGED <<rec, claimed>>
  /\ UNCHANGED <<req, late, consented, mailed, ink, signed, reports,
                 todo, taskVars, stored, sha, tailVars>>

Record(h) ==
  /\ at[h] = "record" /\ ~RowLocked /\ Goto(h, "advance")
  /\ signed' = [signed EXCEPT ![Holder[h]] = @ + 1]
  /\ UNCHANGED <<req, late, rec, consented, mailed, ink, claimed, reports,
                 todo, taskVars, stored, sha, tailVars>>

\* (done when nobody is left in the completer's own group)
Advance_Group(h) ==
  /\ at[h] = "advance"
  /\ \/ /\ \A r \in Outstanding : Order[r] # Order[Holder[h]]
        /\ Goto(h, "dispatch") /\ UNCHANGED todo
     \/ /\ ~EveryoneDone /\ NextToNotify = {}
        /\ Goto(h, "idle") /\ UNCHANGED todo
     \/ /\ ~EveryoneDone /\ NextToNotify # {}
        /\ Goto(h, "notify")
        /\ todo' = [todo EXCEPT ![h] = {<<r, rec[r]>> : r \in NextToNotify}]
  /\ UNCHANGED <<req, late, peopleVars, taskVars, stored, sha, tailVars>>

Advance(h) ==
  /\ at[h] = "advance"
  /\ \/ /\ EveryoneDone
        /\ Goto(h, "dispatch") /\ UNCHANGED todo
     \/ /\ ~EveryoneDone /\ NextToNotify = {}
        /\ Goto(h, "idle") /\ UNCHANGED todo
     \/ /\ ~EveryoneDone /\ NextToNotify # {}
        /\ Goto(h, "notify")
        /\ todo' = [todo EXCEPT ![h] = {<<r, rec[r]>> : r \in NextToNotify}]
  /\ UNCHANGED <<req, late, peopleVars, taskVars, stored, sha, tailVars>>

\* Mail one of them, and save the time with the status as it was read; an
\* address that cannot be reached is passed over.
NotifyOne(h) ==
  /\ at[h] = "notify"
  /\ \E p \in todo[h] :
       /\ todo' = [todo EXCEPT ![h] = @ \ {p}]
       /\ Goto(h, IF todo[h] = {p} THEN "idle" ELSE "notify")
       /\ \/ UNCHANGED <<mailed, rec>>
          \/ /\ mailed' = [mailed EXCEPT ![p[1]] = TRUE]
             /\ rec' = [rec EXCEPT ![p[1]] =
                          IF p[2] = "pending" THEN "notified" ELSE p[2]]
  /\ UNCHANGED <<req, late, consented, ink, signed, claimed, reports,
                 taskVars, stored, sha, tailVars>>

Dispatch(h) ==
  /\ at[h] = "dispatch" /\ Goto(h, "idle")
  /\ queue' = queue + 1
  /\ UNCHANGED <<req, late, peopleVars, todo, fpc, bytes, files, row, lock,
                 kills, stored, sha, tailVars>>

Decline(h) ==
  /\ at[h] = "idle" /\ LinkOpen /\ rec[Holder[h]] # "completed"
  /\ Goto(h, "decline")
  /\ UNCHANGED <<req, late, peopleVars, todo, taskVars, stored, sha, tailVars>>

SaveDecline(h) ==
  /\ at[h] = "decline" /\ Goto(h, "stop")
  /\ rec' = [rec EXCEPT ![Holder[h]] = "declined"]
  /\ UNCHANGED <<req, late, consented, mailed, ink, signed, claimed, reports,
                 todo, taskVars, stored, sha, tailVars>>

\* Enough distinct reporters pause a request that is still open.
Report(h) ==
  /\ at[h] = "idle" /\ LinkOpen
  /\ reports' = reports \cup {Holder[h]}
  /\ Goto(h, IF Cardinality(reports') >= ReportsToPause /\ req = "sent"
             THEN "pause" ELSE "idle")
  /\ UNCHANGED <<req, late, rec, consented, mailed, ink, signed, claimed,
                 todo, taskVars, stored, sha, tailVars>>

-----------------------------------------------------------------------------
(* The sender and the sweeps.                                              *)

Cancel ==
  /\ at[Owner] = "idle" /\ req = "sent"
  /\ Goto(Owner, "cancel")
  /\ UNCHANGED <<req, late, peopleVars, todo, taskVars, stored, sha, tailVars>>

Expire ==
  /\ at[Beat] = "idle" /\ req = "sent" /\ late
  /\ Goto(Beat, "expire")
  /\ UNCHANGED <<req, late, peopleVars, todo, taskVars, stored, sha, tailVars>>

\* (a status that is not one of the choices)
Outcome_Spelt == [stop |-> "declined", pause |-> "canceled_by_abuse",
                  cancel |-> "cancelled", expire |-> "expired"]

Outcome == [stop |-> "declined", pause |-> "canceled_by_abuse",
            cancel |-> "canceled", expire |-> "expired"]

\* Each of the four saves its status whatever the request has become.
Close(h) ==
  /\ at[h] \in DOMAIN Outcome /\ ~RowLocked
  /\ req' = Outcome[at[h]]
  /\ Goto(h, "idle")
  /\ UNCHANGED <<late, peopleVars, todo, taskVars, stored, sha, tailVars>>

\* A reminder, by the sender or by the daily sweep.
Remind(r) ==
  /\ req = "sent" /\ r \in Outstanding /\ IsTurn(r)
  /\ mailed' = [mailed EXCEPT ![r] = TRUE]
  /\ UNCHANGED <<req, late, rec, consented, ink, signed, claimed, reports,
                 webVars, taskVars, stored, sha, tailVars>>

DeadlinePasses ==
  /\ ~late /\ late' = TRUE
  /\ UNCHANGED <<req, peopleVars, webVars, taskVars, stored, sha, tailVars>>

HandlerCrash(h) ==
  /\ at[h] # "idle" /\ Goto(h, "idle")
  /\ todo' = [todo EXCEPT ![h] = {}]
  /\ UNCHANGED <<req, late, peopleVars, taskVars, stored, sha, tailVars>>

-----------------------------------------------------------------------------
(* finalize_sign_request.                                                  *)

Point(t, p) == fpc' = [fpc EXCEPT ![t] = p]
Rest(t)     == /\ Point(t, "idle")
               /\ bytes' = [bytes EXCEPT ![t] = 0]
               /\ row' = [row EXCEPT ![t] = {}]

Take(t) ==
  /\ fpc[t] = "idle" /\ queue > 0
  /\ queue' = queue - 1 /\ Point(t, "wait")
  /\ UNCHANGED <<req, late, peopleVars, webVars, bytes, files, row, lock, kills,
                 stored, sha, tailVars>>

Acquire(t) ==
  /\ fpc[t] = "wait" /\ lock = Nobody
  /\ lock' = t /\ Point(t, "read")
  /\ UNCHANGED <<req, late, peopleVars, webVars, queue, bytes, files, row, kills,
                 stored, sha, tailVars>>

\* "locked": try again in a minute, or give up when the retries are spent.
Retry(t) ==
  /\ fpc[t] = "wait" /\ lock # Nobody
  /\ queue' = queue + 1 /\ Point(t, "idle")
  /\ UNCHANGED <<req, late, peopleVars, webVars, bytes, files, row, lock, kills,
                 stored, sha, tailVars>>

\* (a single retry)
GiveUp_Soon(t) ==
  /\ fpc[t] = "wait" /\ lock # Nobody
  /\ Point(t, "idle")
  /\ UNCHANGED <<req, late, peopleVars, webVars, queue, bytes, files, row, lock,
                 kills, stored, sha, tailVars>>
GiveUp(t) ==
  /\ fpc[t] = "wait" /\ lock # Nobody /\ ~RetriesOutlast
  /\ Point(t, "idle")
  /\ UNCHANGED <<req, late, peopleVars, webVars, queue, bytes, files, row, lock,
                 kills, stored, sha, tailVars>>

\* (a request found completed is left alone)
ReadRequest_Already(t) ==
  /\ fpc[t] = "read"
  /\ row' = [row EXCEPT ![t] = marks]
  /\ \/ req = "sent" /\ Point(t, "burn")
     \/ req # "sent" /\ Point(t, "unlock")
  /\ UNCHANGED <<req, late, peopleVars, webVars, queue, bytes, files, lock, kills,
                 stored, sha, tailVars>>

\* A request found completed has had its file sealed by an execution that was
\* killed: what is left of the tail is done.
ReadRequest(t) ==
  /\ fpc[t] = "read"
  /\ row' = [row EXCEPT ![t] = marks]
  /\ \/ req = "completed" /\ Point(t, "sealed?")
     \/ req = "sent" /\ Point(t, "burn")
     \/ req \in Closed /\ Point(t, "unlock")
  /\ UNCHANGED <<req, late, peopleVars, webVars, queue, bytes, files, lock, kills,
                 stored, sha, tailVars>>

\* Burn the fields into the frozen version, stamp and seal: no two sealed
\* files are the same.
Burn(t) ==
  /\ fpc[t] = "burn"
  /\ files' = files + 1
  /\ bytes' = [bytes EXCEPT ![t] = files + 1]
  /\ Point(t, "claim")
  /\ UNCHANGED <<req, late, peopleVars, webVars, queue, row, lock, kills,
                 stored, sha, tailVars>>

\* (the second look under the row lock is dropped)
ClaimRequest_Blind(t) ==
  /\ fpc[t] = "claim" /\ ~RowLocked
  /\ stored' = bytes[t] /\ Point(t, "commit")
  /\ UNCHANGED <<req, late, peopleVars, webVars, queue, bytes, files, row, lock,
                 kills, sha, tailVars>>

\* Inside the transaction: lock the row, look again, put the file.
ClaimRequest(t) ==
  /\ fpc[t] = "claim" /\ ~RowLocked
  /\ \/ /\ req = "completed"
        /\ Point(t, "unlock") /\ UNCHANGED stored
     \/ /\ req # "completed"
        /\ stored' = bytes[t] /\ Point(t, "commit")
  /\ UNCHANGED <<req, late, peopleVars, webVars, queue, bytes, files, row, lock,
                 kills, sha, tailVars>>

Commit(t) ==
  /\ fpc[t] = "commit"
  /\ sha' = bytes[t] /\ req' = "completed"
  /\ row' = [row EXCEPT ![t] = marks]
  /\ Point(t, "sealed?")
  /\ UNCHANGED <<late, peopleVars, webVars, queue, bytes, files, lock, kills,
                 stored, tailVars>>

-----------------------------------------------------------------------------
(* The tail: every step asks whether it has been done.                     *)

\* The two completion events: look in the chain, then record.
NextPoint == [seal_applied |-> "completed?", completed |-> "certificate"]
LookAt    == [seal_applied |-> "sealed?", completed |-> "completed?"]
WriteAt   == [seal_applied |-> "seal", completed |-> "complete"]

\* (without the look)
LookFor_Blind(t, e) ==
  /\ fpc[t] = LookAt[e]
  /\ Point(t, WriteAt[e])
  /\ UNCHANGED <<req, late, peopleVars, webVars, queue, bytes, files, row, lock,
                 kills, stored, sha, tailVars>>

LookFor(t, e) ==
  /\ fpc[t] = LookAt[e]
  /\ Point(t, IF events[e] > 0 THEN NextPoint[e] ELSE WriteAt[e])
  /\ UNCHANGED <<req, late, peopleVars, webVars, queue, bytes, files, row, lock,
                 kills, stored, sha, tailVars>>

Write(t, e) ==
  /\ fpc[t] = WriteAt[e] /\ ~RowLocked
  /\ events' = [events EXCEPT ![e] = @ + 1]
  /\ Point(t, NextPoint[e])
  /\ UNCHANGED <<req, late, peopleVars, webVars, queue, bytes, files, row, lock,
                 kills, stored, sha, marks, listed, appended, mails>>

Certify(t) ==
  /\ fpc[t] = "certificate" /\ Point(t, "append")
  /\ \/ "certificate" \in row[t] /\ UNCHANGED <<marks, listed>>
     \/ /\ "certificate" \notin row[t]
        /\ listed' = {r \in Recipients : signed[r] > 0}
        /\ marks' = marks \cup {"certificate"}
  /\ UNCHANGED <<req, late, peopleVars, webVars, queue, bytes, files, row, lock,
                 kills, stored, sha, events, appended, mails>>

\* The sealed file becomes a version of the owner's document, if it can.
AppendSigned(t) ==
  /\ fpc[t] = "append"
  /\ \/ /\ "appended" \in row[t]
        /\ Point(t, "mail") /\ UNCHANGED appended
     \/ /\ "appended" \notin row[t]
        /\ Point(t, "mail") /\ UNCHANGED appended
     \/ /\ "appended" \notin row[t]
        /\ Point(t, "mark appended") /\ appended' = appended + 1
  /\ UNCHANGED <<req, late, peopleVars, webVars, queue, bytes, files, row, lock,
                 kills, stored, sha, events, marks, listed, mails>>

MailCompleted(t) ==
  /\ fpc[t] = "mail"
  /\ \/ /\ "notified" \in row[t]
        /\ Point(t, "unlock") /\ UNCHANGED mails
     \/ /\ "notified" \notin row[t]
        /\ Point(t, "mark notified") /\ mails' = mails + 1
  /\ UNCHANGED <<req, late, peopleVars, webVars, queue, bytes, files, row, lock,
                 kills, stored, sha, events, marks, listed, appended>>

\* The timestamp of either follows in a save of its own.
SaveMark(t) ==
  /\ \/ /\ fpc[t] = "mark appended" /\ Point(t, "mail")
        /\ marks' = marks \cup {"appended"}
     \/ /\ fpc[t] = "mark notified" /\ Point(t, "unlock")
        /\ marks' = marks \cup {"notified"}
  /\ UNCHANGED <<req, late, peopleVars, webVars, queue, bytes, files, row, lock,
                 kills, stored, sha, events, listed, appended, mails>>

Free(t) == lock' = IF lock = t THEN Nobody ELSE lock

Unlock(t) ==
  /\ fpc[t] = "unlock"
  /\ Rest(t) /\ Free(t)
  /\ UNCHANGED <<req, late, peopleVars, webVars, queue, files, kills, stored, sha,
                 tailVars>>

\* Any other exception leaves the lock and ends the task; its message is gone.
Fault(t) ==
  /\ Faults /\ fpc[t] \notin {"idle", "wait"}
  /\ Rest(t) /\ Free(t)
  /\ UNCHANGED <<req, late, peopleVars, webVars, queue, files, kills, stored, sha,
                 tailVars>>

\* The late acknowledgement: a killed execution's message comes back.
Kill(t) ==
  /\ fpc[t] # "idle" /\ kills < MaxKills
  /\ kills' = kills + 1 /\ queue' = queue + 1
  /\ Rest(t)
  /\ UNCHANGED <<req, late, peopleVars, webVars, files, lock, stored, sha, tailVars>>

\* (the TTL is shorter than the work)
LockExpire_Early ==
  /\ lock # Nobody /\ lock' = Nobody
  /\ UNCHANGED <<req, late, peopleVars, webVars, queue, fpc, bytes, files, row,
                 kills, stored, sha, tailVars>>
LockExpire ==
  /\ lock # Nobody
  /\ Outlasts => fpc[lock] \in {"idle", "wait"}
  /\ lock' = Nobody
  /\ UNCHANGED <<req, late, peopleVars, webVars, queue, fpc, bytes, files, row,
                 kills, stored, sha, tailVars>>

-----------------------------------------------------------------------------
\* What a handler does once it has begun, and what begins it.
Proceed(h) ==
  \/ h \in Tabs /\ \/ SaveOpen(h) \/ SaveConsent(h) \/ SaveFill(h) \/ Claim(h)
                   \/ Record(h) \/ Advance(h) \/ Dispatch(h) \/ SaveDecline(h)
  \/ NotifyOne(h) \/ Close(h)

Begin(h) == \/ Open(h) \/ Consent(h) \/ Fill(h) \/ Complete(h) \/ Decline(h)
            \/ Report(h)

Finalize(t) ==
  \/ Take(t) \/ Acquire(t) \/ Retry(t) \/ GiveUp(t) \/ ReadRequest(t) \/ Burn(t)
  \/ ClaimRequest(t) \/ Commit(t)
  \/ \E e \in DOMAIN events : LookFor(t, e) \/ Write(t, e)
  \/ Certify(t) \/ AppendSigned(t) \/ MailCompleted(t) \/ SaveMark(t) \/ Unlock(t)

Next ==
  \/ \E h \in Tabs : Begin(h)
  \/ \E h \in Handlers : Proceed(h) \/ HandlerCrash(h)
  \/ Cancel \/ Expire \/ DeadlinePasses
  \/ \E r \in Recipients : Remind(r)
  \/ \E t \in Workers : Finalize(t) \/ Fault(t) \/ Kill(t)
  \/ LockExpire

Spec == Init /\ [][Next]_vars

\* A handler that has begun goes on unless it crashes; workers and Redis run.
\* Nobody is obliged to open, sign, cancel or report.
Fairness == /\ \A h \in Handlers : WF_vars(Proceed(h))
            /\ \A t \in Workers : WF_vars(Finalize(t))
            /\ WF_vars(LockExpire)

FairSpec == Spec /\ Fairness

-----------------------------------------------------------------------------
(* Properties.                                                             *)

Steps  == {"idle", "open", "consent", "fill", "claim", "record", "advance", "notify",
           "dispatch", "decline"} \cup DOMAIN Outcome
Points == {"idle", "wait", "read", "burn", "claim", "commit", "sealed?", "seal",
           "completed?", "complete", "certificate", "append", "mark appended", "mail",
           "mark notified", "unlock"}

TypeOK ==
  /\ req \in ReqStatus /\ late \in BOOLEAN
  /\ rec \in [Recipients -> RecStatus]
  /\ consented \in [Recipients -> BOOLEAN]
  /\ mailed \in [Recipients -> BOOLEAN]
  /\ ink \in [Recipients -> BOOLEAN]
  /\ signed \in [Recipients -> Nat]
  /\ claimed \subseteq Recipients /\ reports \subseteq Recipients
  /\ at \in [Handlers -> Steps]
  /\ todo \in [Handlers -> SUBSET (Recipients \X RecStatus)]
  /\ queue \in Nat
  /\ fpc \in [Workers -> Points]
  /\ bytes \in [Workers -> Nat] /\ files \in Nat
  /\ row \in [Workers -> SUBSET Marks]
  /\ lock \in Workers \cup {Nobody} /\ kills \in 0..MaxKills
  /\ stored \in Nat /\ sha \in Nat
  /\ events \in [{"seal_applied", "completed"} -> Nat]
  /\ marks \subseteq Marks /\ listed \subseteq Recipients
  /\ appended \in Nat /\ mails \in Nat

\* Groups act in ascending order: nobody finishes before everyone in the groups
\* ahead has, however long a handler sits between asking whose turn it is and
\* claiming it.
TurnRespected ==
  \A r \in claimed, q \in Acting : Order[q] < Order[r] => q \in claimed

\* The fingerprint is that of the file that is downloaded: a second execution,
\* a redelivery, or a kill between the put and the commit never leaves
\* final_sha256 describing a file nobody has.
FingerprintMatches == sha # 0 => stored = sha

\* And it is sealed once: the fingerprint, once there, is never another.
SealedOnce == [][sha # 0 => sha' = sha]_vars

\* The chain says once that the seal was applied and once that the request is
\* complete, however often the tail is resumed.
CompletionRecordedOnce == \A e \in DOMAIN events : events[e] <= 1

\* The whole is a Ceremony: whoever signs or approves has agreed first, whatever
\* is opened, declined or mailed meanwhile; nothing is sealed that somebody has
\* still to sign; and it is sealed once.
Promise == INSTANCE Ceremony
             WITH agreed   <- {r \in Recipients : consented[r]},
                  finished <- claimed,
                  sealed   <- sha
PromiseSpec == Promise!Spec

\* A finalize that has been dispatched is not lost: the request is sealed, or
\* somebody has closed it, as long as kills end and no engine error ends the
\* task (message redelivery and "locked" retries that outlast a dead lock).
DispatchedIsFinalized == queue > 0 /\ req = "sent" ~> req # "sent"

\* A sealed request gets its certificate and its mail even if the worker is
\* killed after the commit, unless somebody has closed it meanwhile.
TailFinishes ==
  sha # 0 ~> req # "completed" \/ {"certificate", "notified"} \subseteq marks

-----------------------------------------------------------------------------
(* Said of the code, and not so.                                           *)

\* "the other statuses are closed, completed is deliberately not": a completed
\* request stays one, and its people can open it and fetch their copy.
CompletedStays == [][req = "completed" => req' = "completed"]_vars

\* complete_recipient "must not write two signed events" for one recipient.
SignedOnce == \A r \in Recipients : signed[r] <= 1

\* "Nobody else will be asked to sign it, and no completed document will be
\* produced": a request that was closed is not sealed.
ClosedIsNotSealed == [][sha' # sha => req = "sent"]_vars

\* The certificate "lists every action taken": everyone's signing is on it.
CertificateComplete == "certificate" \in marks => Acting \subseteq listed

\* "Close requests nobody finished in time": one that everybody has finished
\* is not expired.
ExpiredUnfinished ==
  [][req' = "expired" /\ req # "expired" => ~EveryoneDone]_vars

\* A field is filled by somebody who has "not already finished".
FilledBeforeFinishing ==
  [][\A r \in Recipients : ink'[r] # ink[r] => rec[r] # "completed"]_vars

\* For a viewer "opening the document is completion".
ViewingCompletes == \A r \in Viewers : rec[r] # "viewed"

\* The timestamps keep a resumed finalize from mailing "a second copy".
MailedOnce == mails <= 1

\* A fully signed request does not "sit at sent for ever".
DoneIsFinalized == EveryoneDone /\ req = "sent" ~> req # "sent" \/ ~EveryoneDone
=============================================================================
