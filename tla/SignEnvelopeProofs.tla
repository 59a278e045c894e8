------------------------ MODULE SignEnvelopeProofs -------------------------
(***************************************************************************)
(* Theorems about SignEnvelope, for any recipients in any groups, any      *)
(* number of tabs and of executions of finalize, and any number of kills.  *)
(***************************************************************************)
EXTENDS SignEnvelope, TLAPS

USE DEF peopleVars, webVars, taskVars, tailVars, Goto, Point, Rest, Free

\* What happens over HTTP and in beat, and what happens in finalize.
Web == \/ \E h \in Tabs : Begin(h)
       \/ \E h \in Handlers : Proceed(h) \/ HandlerCrash(h)
       \/ Cancel \/ Expire \/ DeadlinePasses
       \/ \E r \in Recipients : Remind(r)
Task == \/ \E t \in Workers : Finalize(t) \/ Fault(t) \/ Kill(t)
        \/ LockExpire

-----------------------------------------------------------------------------
(* Types.                                                                  *)

LEMMA StepNames ==
  {"idle", "open", "consent", "fill", "claim", "record", "advance", "notify", "dispatch",
   "decline", "stop", "pause", "cancel", "expire"} \subseteq Steps
  BY DEF Steps, Outcome

LEMMA PointNames ==
  {"idle", "wait", "read", "burn", "claim", "commit", "sealed?", "seal", "completed?",
   "complete", "certificate", "append", "mark appended", "mail", "mark notified", "unlock"}
     \subseteq Points
  BY DEF Points

LEMMA EventNames ==
  \A e \in {"seal_applied", "completed"} : NextPoint[e] \in Points /\ WriteAt[e] \in Points
  <1>1. NextPoint["seal_applied"] = "completed?" /\ NextPoint["completed"] = "certificate"
    BY DEF NextPoint
  <1>2. WriteAt["seal_applied"] = "seal" /\ WriteAt["completed"] = "complete"
    BY DEF WriteAt
  <1> QED
    BY <1>1, <1>2, PointNames

LEMMA TypeInit == Init => TypeOK
  <1> SUFFICES ASSUME Init PROVE TypeOK
    OBVIOUS
  <1>1. todo \in [Handlers -> SUBSET (Recipients \X RecStatus)]
    <2>1. NextToNotify \subseteq Recipients /\ "pending" \in RecStatus
      BY DEF NextToNotify, Outstanding, Acting, RecStatus
    <2>2. {<<r, "pending">> : r \in NextToNotify} \subseteq Recipients \X RecStatus
      BY <2>1
    <2> QED
      BY <2>2 DEF Init
  <1>2. at \in [Handlers -> Steps]
    BY StepNames DEF Init, Handlers
  <1>3. fpc \in [Workers -> Points]
    BY PointNames DEF Init
  <1>4. kills \in 0..MaxKills
    BY BoundAssumption DEF Init
  <1> QED
    BY <1>1, <1>2, <1>3, <1>4 DEF Init, TypeOK, ReqStatus, RecStatus, Closed, Marks

LEMMA WebTypes == ASSUME TypeOK, Web PROVE TypeOK'
  <1> USE ProcessAssumption, StepNames DEF TypeOK, ReqStatus, Closed, RecStatus, Handlers
  <1>1. ASSUME NEW h \in Tabs, Open(h) PROVE TypeOK'  BY <1>1 DEF Open
  <1>2. ASSUME NEW h \in Tabs, Consent(h) PROVE TypeOK'  BY <1>2 DEF Consent
  <1>3. ASSUME NEW h \in Tabs, Fill(h) PROVE TypeOK'  BY <1>3 DEF Fill
  <1>4. ASSUME NEW h \in Tabs, Complete(h) PROVE TypeOK'  BY <1>4 DEF Complete
  <1>5. ASSUME NEW h \in Tabs, Decline(h) PROVE TypeOK'  BY <1>5 DEF Decline
  <1>6. ASSUME NEW h \in Tabs, Report(h) PROVE TypeOK'  BY <1>6 DEF Report, Outcome
  <1>7. ASSUME NEW h \in Tabs, SaveOpen(h) PROVE TypeOK'  BY <1>7 DEF SaveOpen
  <1>8. ASSUME NEW h \in Tabs, SaveConsent(h) PROVE TypeOK'  BY <1>8 DEF SaveConsent
  <1>9. ASSUME NEW h \in Tabs, SaveFill(h) PROVE TypeOK'  BY <1>9 DEF SaveFill
  <1>10. ASSUME NEW h \in Tabs, Claim(h) PROVE TypeOK'  BY <1>10 DEF Claim
  <1>11. ASSUME NEW h \in Tabs, Record(h) PROVE TypeOK'  BY <1>11 DEF Record
  <1>12. ASSUME NEW h \in Tabs, Advance(h) PROVE TypeOK'
    <2>1. {<<r, rec[r]>> : r \in NextToNotify} \in SUBSET (Recipients \X RecStatus)
      BY DEF NextToNotify, Outstanding, Acting
    <2> QED
      BY <1>12, <2>1 DEF Advance
  <1>13. ASSUME NEW h \in Tabs, Dispatch(h) PROVE TypeOK'  BY <1>13 DEF Dispatch
  <1>14. ASSUME NEW h \in Tabs, SaveDecline(h) PROVE TypeOK'
    BY <1>14 DEF SaveDecline, Outcome
  <1>15. ASSUME NEW h \in Handlers, NotifyOne(h) PROVE TypeOK'
    <2>1. PICK p \in todo[h] :
            /\ todo' = [todo EXCEPT ![h] = @ \ {p}]
            /\ Goto(h, IF todo[h] = {p} THEN "idle" ELSE "notify")
            /\ \/ UNCHANGED <<mailed, rec>>
               \/ /\ mailed' = [mailed EXCEPT ![p[1]] = TRUE]
                  /\ rec' = [rec EXCEPT ![p[1]] =
                               IF p[2] = "pending" THEN "notified" ELSE p[2]]
      BY <1>15 DEF NotifyOne
    <2>2. p[1] \in Recipients /\ p[2] \in RecStatus
      OBVIOUS
    <2>3. todo' \in [Handlers -> SUBSET (Recipients \X RecStatus)]
      BY <2>1
    <2>4. rec' \in [Recipients -> RecStatus] /\ mailed' \in [Recipients -> BOOLEAN]
      BY <2>1, <2>2
    <2> QED
      BY <1>15, <2>1, <2>3, <2>4 DEF NotifyOne
  <1>16. ASSUME NEW h \in Handlers, Close(h) PROVE TypeOK'
    BY <1>16 DEF Close, Outcome
  <1>17. ASSUME NEW h \in Handlers, HandlerCrash(h) PROVE TypeOK'
    BY <1>17 DEF HandlerCrash
  <1>18. CASE Cancel  BY <1>18 DEF Cancel, Outcome
  <1>19. CASE Expire  BY <1>19 DEF Expire, Outcome
  <1>20. CASE DeadlinePasses  BY <1>20 DEF DeadlinePasses
  <1>21. ASSUME NEW r \in Recipients, Remind(r) PROVE TypeOK'  BY <1>21 DEF Remind
  <1> QED
    BY <1>1, <1>2, <1>3, <1>4, <1>5, <1>6, <1>7, <1>8, <1>9, <1>10, <1>11, <1>12, <1>13,
       <1>14, <1>15, <1>16, <1>17, <1>18, <1>19, <1>20, <1>21
    DEF Web, Begin, Proceed

LEMMA TaskTypes == ASSUME TypeOK, Task PROVE TypeOK'
  <1>0. /\ queue \in Nat /\ files \in Nat /\ appended \in Nat /\ mails \in Nat
        /\ kills \in 0..MaxKills /\ MaxKills \in Nat /\ bytes \in [Workers -> Nat]
        /\ events \in [{"seal_applied", "completed"} -> Nat]
    BY BoundAssumption DEF TypeOK
  <1>1. ASSUME NEW t \in Workers, Take(t) PROVE TypeOK'
    <2>1. fpc' \in [Workers -> Points]
      <3>1. fpc' = [fpc EXCEPT ![t] = "wait"]
        BY <1>1 DEF Take
      <3> QED
        BY <3>1, PointNames DEF TypeOK
    <2>2. queue' \in Nat
      BY <1>0, <1>1 DEF Take
    <2>3. UNCHANGED <<req, late, peopleVars, webVars, bytes, files, row, lock, kills,
                     stored, sha, events, marks, listed, appended, mails>>
      BY <1>1 DEF Take
    <2> QED
      BY <2>1, <2>2, <2>3 DEF TypeOK
  <1>2. ASSUME NEW t \in Workers, Acquire(t) PROVE TypeOK'
    BY <1>2, PointNames DEF Acquire, TypeOK
  <1>3. ASSUME NEW t \in Workers, Retry(t) PROVE TypeOK'
    <2>1. fpc' \in [Workers -> Points]
      <3>1. fpc' = [fpc EXCEPT ![t] = "idle"]
        BY <1>3 DEF Retry
      <3> QED
        BY <3>1, PointNames DEF TypeOK
    <2>2. queue' \in Nat
      BY <1>0, <1>3 DEF Retry
    <2>3. UNCHANGED <<req, late, peopleVars, webVars, bytes, files, row, lock, kills,
                     stored, sha, events, marks, listed, appended, mails>>
      BY <1>3 DEF Retry
    <2> QED
      BY <2>1, <2>2, <2>3 DEF TypeOK
  <1>4. ASSUME NEW t \in Workers, GiveUp(t) PROVE TypeOK'
    BY <1>4, PointNames DEF GiveUp, TypeOK
  <1>5. ASSUME NEW t \in Workers, ReadRequest(t) PROVE TypeOK'
    BY <1>5, PointNames DEF ReadRequest, TypeOK
  <1>6. ASSUME NEW t \in Workers, Burn(t) PROVE TypeOK'
    <2>1. fpc' \in [Workers -> Points]
      <3>1. fpc' = [fpc EXCEPT ![t] = "claim"]
        BY <1>6 DEF Burn
      <3> QED
        BY <3>1, PointNames DEF TypeOK
    <2>2. bytes' \in [Workers -> Nat]
      BY <1>0, <1>6 DEF Burn
    <2>3. files' \in Nat
      BY <1>0, <1>6 DEF Burn
    <2>4. UNCHANGED <<req, late, peopleVars, webVars, queue, row, lock, kills,
                     stored, sha, events, marks, listed, appended, mails>>
      BY <1>6 DEF Burn
    <2> QED
      BY <2>1, <2>2, <2>3, <2>4 DEF TypeOK
  <1>7. ASSUME NEW t \in Workers, ClaimRequest(t) PROVE TypeOK'
    <2>1. fpc' \in [Workers -> Points]
      BY <1>7, PointNames DEF ClaimRequest, TypeOK
    <2>2. stored' = stored \/ stored' = bytes[t]
      BY <1>7 DEF ClaimRequest
    <2>3. UNCHANGED <<req, late, peopleVars, webVars, queue, bytes, files, row, lock, kills,
                     sha, events, marks, listed, appended, mails>>
      BY <1>7 DEF ClaimRequest
    <2> QED
      BY <2>1, <2>2, <2>3 DEF TypeOK
  <1>8. ASSUME NEW t \in Workers, Commit(t) PROVE TypeOK'
    BY <1>8, PointNames DEF Commit, TypeOK, ReqStatus
  <1>9. ASSUME NEW t \in Workers, NEW e \in DOMAIN events, LookFor(t, e) PROVE TypeOK'
    <2>1. e \in {"seal_applied", "completed"}
      BY DEF TypeOK
    <2>2. \E p \in Points : fpc' = [fpc EXCEPT ![t] = p]
      BY <1>9, <2>1, EventNames DEF LookFor
    <2>3. fpc' \in [Workers -> Points]
      BY <2>2 DEF TypeOK
    <2>4. UNCHANGED <<req, late, peopleVars, webVars, queue, bytes, files, row, lock, kills,
                     stored, sha, events, marks, listed, appended, mails>>
      BY <1>9 DEF LookFor
    <2> QED
      BY <2>3, <2>4 DEF TypeOK
  <1>10. ASSUME NEW t \in Workers, NEW e \in DOMAIN events, Write(t, e) PROVE TypeOK'
    <2>1. fpc' \in [Workers -> Points]
      <3>1. e \in {"seal_applied", "completed"}
        BY DEF TypeOK
      <3>2. fpc' = [fpc EXCEPT ![t] = NextPoint[e]]
        BY <1>10 DEF Write
      <3> QED
        BY <3>1, <3>2, EventNames DEF TypeOK
    <2>2. events' \in [{"seal_applied", "completed"} -> Nat]
      BY <1>0, <1>10 DEF Write, NextPoint
    <2>3. UNCHANGED <<req, late, peopleVars, webVars, queue, bytes, files, row, lock,
                     kills, stored, sha, marks, listed, appended, mails>>
      BY <1>10 DEF Write, NextPoint
    <2> QED
      BY <2>1, <2>2, <2>3 DEF TypeOK
  <1>11. ASSUME NEW t \in Workers, Certify(t) PROVE TypeOK'
    BY <1>11, PointNames DEF Certify, TypeOK, Marks
  <1>12. ASSUME NEW t \in Workers, AppendSigned(t) PROVE TypeOK'
    <2>1. fpc' \in [Workers -> Points]
      <3>1. \E p \in {"mail", "mark appended"} : fpc' = [fpc EXCEPT ![t] = p]
        BY <1>12 DEF AppendSigned
      <3> QED
        BY <3>1, PointNames DEF TypeOK
    <2>2. appended' \in Nat
      <3>1. appended' = appended \/ appended' = appended + 1
        BY <1>12 DEF AppendSigned
      <3> QED
        BY <1>0, <3>1
    <2>3. UNCHANGED <<req, late, peopleVars, webVars, queue, bytes, files, row, lock,
                     kills, stored, sha, events, marks, listed, mails>>
      BY <1>12 DEF AppendSigned
    <2> QED
      BY <2>1, <2>2, <2>3 DEF TypeOK
  <1>13. ASSUME NEW t \in Workers, MailCompleted(t) PROVE TypeOK'
    <2>1. fpc' \in [Workers -> Points]
      <3>1. \E p \in {"unlock", "mark notified"} : fpc' = [fpc EXCEPT ![t] = p]
        BY <1>13 DEF MailCompleted
      <3> QED
        BY <3>1, PointNames DEF TypeOK
    <2>2. mails' \in Nat
      <3>1. mails' = mails \/ mails' = mails + 1
        BY <1>13 DEF MailCompleted
      <3> QED
        BY <1>0, <3>1
    <2>3. UNCHANGED <<req, late, peopleVars, webVars, queue, bytes, files, row, lock,
                     kills, stored, sha, events, marks, listed, appended>>
      BY <1>13 DEF MailCompleted
    <2> QED
      BY <2>1, <2>2, <2>3 DEF TypeOK
  <1>14. ASSUME NEW t \in Workers, SaveMark(t) PROVE TypeOK'
    BY <1>14, PointNames DEF SaveMark, TypeOK, Marks
  <1>15. ASSUME NEW t \in Workers, Unlock(t) PROVE TypeOK'
    BY <1>15, PointNames, ProcessAssumption DEF Unlock, TypeOK
  <1>16. ASSUME NEW t \in Workers, Fault(t) PROVE TypeOK'
    BY <1>16, PointNames, ProcessAssumption DEF Fault, TypeOK
  <1>17. ASSUME NEW t \in Workers, Kill(t) PROVE TypeOK'
    <2>1. fpc' \in [Workers -> Points]
      <3>1. fpc' = [fpc EXCEPT ![t] = "idle"]
        BY <1>17 DEF Kill
      <3> QED
        BY <3>1, PointNames DEF TypeOK
    <2>2. queue' \in Nat
      BY <1>0, <1>17 DEF Kill
    <2>3. kills' \in 0..MaxKills
      BY <1>0, <1>17 DEF Kill
    <2>4. /\ bytes' \in [Workers -> Nat] /\ row' \in [Workers -> SUBSET Marks]
      BY <1>0, <1>17 DEF Kill, TypeOK
    <2>5. UNCHANGED <<req, late, peopleVars, webVars, files, lock, stored, sha,
                     events, marks, listed, appended, mails>>
      BY <1>17 DEF Kill
    <2> QED
      BY <2>1, <2>2, <2>3, <2>4, <2>5 DEF TypeOK
  <1>18. CASE LockExpire
    BY <1>18, ProcessAssumption DEF LockExpire, TypeOK
  <1> QED
    BY <1>1, <1>2, <1>3, <1>4, <1>5, <1>6, <1>7, <1>8, <1>9, <1>10, <1>11, <1>12, <1>13,
       <1>14, <1>15, <1>16, <1>17, <1>18
    DEF Task, Finalize

LEMMA NextSplits == Next => Web \/ Task
  BY DEF Next, Web, Task

LEMMA TypeStep == TypeOK /\ [Next]_vars => TypeOK'
  <1>1. TypeOK /\ UNCHANGED vars => TypeOK'
    BY DEF TypeOK, vars
  <1> QED
    BY <1>1, NextSplits, WebTypes, TaskTypes

\* The variables of SignEnvelope hold what their declarations say.
THEOREM TypeCorrect == Spec => []TypeOK
  BY TypeInit, TypeStep, PTL DEF Spec

-----------------------------------------------------------------------------
(* The invariants, and what leaves them alone.                             *)

\* What a recipient needs who has asked whether he may finish: nothing that could stop him
\* is ever taken back.
Ready(r) == /\ r \in Acting /\ (r \in Consenting => consented[r])
            /\ \A q \in Acting : Order[q] < Order[r] => q \in claimed

\* Only the conditional UPDATE makes anybody "completed"; a save of a status read earlier
\* can unmake it, but the status was never read as "completed".
PeopleInv == /\ \A r \in Recipients : rec[r] = "completed" => r \in claimed
             /\ \A h \in Handlers : \A p \in todo[h] : p[2] # "completed"
             /\ \A h \in Tabs : at[h] = "claim" => Ready(Holder[h])
             /\ \A r \in claimed : Ready(r)

\* No execution begins before everybody has finished.
FinishedInv == (\/ \E h \in Tabs : at[h] = "dispatch"
                \/ queue > 0
                \/ \E t \in Workers : fpc[t] # "idle") => Acting \subseteq claimed

\* Whoever is past its lock still has it.
LockInv == \A t \in Workers : fpc[t] \notin {"idle", "wait"} => lock = t

\* Whoever is on the way to the seal has found none, and what it has put is what it will
\* describe.
SealInv == /\ sha # 0 => req # "sent" /\ stored = sha
           /\ \A t \in Workers : fpc[t] \in {"burn", "claim", "commit"} => sha = 0
           /\ \A t \in Workers : fpc[t] \in {"claim", "commit"} => bytes[t] # 0
           /\ \A t \in Workers : fpc[t] = "commit" => stored = bytes[t]

\* Whoever is about to record an event has found none of its kind.
RecordInv == \A e \in {"seal_applied", "completed"} :
                /\ events[e] <= 1
                /\ \A t \in Workers : fpc[t] = WriteAt[e] => events[e] = 0

IInv == TypeOK /\ PeopleInv /\ FinishedInv /\ LockInv /\ SealInv /\ RecordInv

\* A handler leaves the executions alone, and changes the request only by closing it.
LEMMA WebFrame ==
  ASSUME TypeOK, Web
  PROVE  /\ UNCHANGED <<fpc, bytes, files, lock, stored, sha, events>>
         /\ req' = req \/ req' \in Closed
         /\ queue' = queue \/ (queue' > queue /\ \E h \in Tabs : at[h] = "dispatch")
         /\ claimed \subseteq claimed'
  <1> DEFINE Framed == /\ UNCHANGED <<fpc, bytes, files, lock, stored, sha, events>>
                       /\ req' = req \/ req' \in Closed
                       /\ queue' = queue \/ (queue' > queue /\ \E h \in Tabs : at[h] = "dispatch")
                       /\ claimed \subseteq claimed'
  <1>1. ASSUME NEW h \in Tabs, Open(h) PROVE Framed  BY <1>1 DEF Open
  <1>2. ASSUME NEW h \in Tabs, Consent(h) PROVE Framed  BY <1>2 DEF Consent
  <1>3. ASSUME NEW h \in Tabs, Fill(h) PROVE Framed  BY <1>3 DEF Fill
  <1>4. ASSUME NEW h \in Tabs, Complete(h) PROVE Framed  BY <1>4 DEF Complete
  <1>5. ASSUME NEW h \in Tabs, Decline(h) PROVE Framed  BY <1>5 DEF Decline
  <1>6. ASSUME NEW h \in Tabs, Report(h) PROVE Framed  BY <1>6 DEF Report
  <1>7. ASSUME NEW h \in Tabs, SaveOpen(h) PROVE Framed  BY <1>7 DEF SaveOpen
  <1>8. ASSUME NEW h \in Tabs, SaveConsent(h) PROVE Framed  BY <1>8 DEF SaveConsent
  <1>9. ASSUME NEW h \in Tabs, SaveFill(h) PROVE Framed  BY <1>9 DEF SaveFill
  <1>10. ASSUME NEW h \in Tabs, Claim(h) PROVE Framed  BY <1>10 DEF Claim
  <1>11. ASSUME NEW h \in Tabs, Record(h) PROVE Framed  BY <1>11 DEF Record
  <1>12. ASSUME NEW h \in Tabs, Advance(h) PROVE Framed  BY <1>12 DEF Advance
  <1>13. ASSUME NEW h \in Tabs, Dispatch(h) PROVE Framed
    <2>1. queue' > queue
      BY <1>13 DEF Dispatch, TypeOK
    <2> QED
      BY <1>13, <2>1 DEF Dispatch
  <1>14. ASSUME NEW h \in Tabs, SaveDecline(h) PROVE Framed  BY <1>14 DEF SaveDecline
  <1>15. ASSUME NEW h \in Handlers, NotifyOne(h) PROVE Framed  BY <1>15 DEF NotifyOne
  <1>16. ASSUME NEW h \in Handlers, Close(h) PROVE Framed
    <2>1. at[h] \in {"stop", "pause", "cancel", "expire"} /\ req' = Outcome[at[h]]
      BY <1>16 DEF Close, Outcome
    <2>2. req' \in Closed
      BY <2>1 DEF Outcome, Closed
    <2> QED
      BY <1>16, <2>2 DEF Close
  <1>17. ASSUME NEW h \in Handlers, HandlerCrash(h) PROVE Framed  BY <1>17 DEF HandlerCrash
  <1>18. CASE Cancel  BY <1>18 DEF Cancel
  <1>19. CASE Expire  BY <1>19 DEF Expire
  <1>20. CASE DeadlinePasses  BY <1>20 DEF DeadlinePasses
  <1>21. ASSUME NEW r \in Recipients, Remind(r) PROVE Framed  BY <1>21 DEF Remind
  <1> QED
    BY <1>1, <1>2, <1>3, <1>4, <1>5, <1>6, <1>7, <1>8, <1>9, <1>10, <1>11, <1>12, <1>13,
       <1>14, <1>15, <1>16, <1>17, <1>18, <1>19, <1>20, <1>21
    DEF Web, Begin, Proceed

\* An execution leaves the people and the handlers alone.
LEMMA TaskFrame == ASSUME Task PROVE UNCHANGED <<peopleVars, webVars>>
  <1> DEFINE Framed == UNCHANGED <<peopleVars, webVars>>
  <1>1. ASSUME NEW t \in Workers, Take(t) PROVE Framed  BY <1>1 DEF Take
  <1>2. ASSUME NEW t \in Workers, Acquire(t) PROVE Framed  BY <1>2 DEF Acquire
  <1>3. ASSUME NEW t \in Workers, Retry(t) PROVE Framed  BY <1>3 DEF Retry
  <1>4. ASSUME NEW t \in Workers, GiveUp(t) PROVE Framed  BY <1>4 DEF GiveUp
  <1>5. ASSUME NEW t \in Workers, ReadRequest(t) PROVE Framed  BY <1>5 DEF ReadRequest
  <1>6. ASSUME NEW t \in Workers, Burn(t) PROVE Framed  BY <1>6 DEF Burn
  <1>7. ASSUME NEW t \in Workers, ClaimRequest(t) PROVE Framed  BY <1>7 DEF ClaimRequest
  <1>8. ASSUME NEW t \in Workers, Commit(t) PROVE Framed  BY <1>8 DEF Commit
  <1>9. ASSUME NEW t \in Workers, NEW e \in DOMAIN events, LookFor(t, e) PROVE Framed
    BY <1>9 DEF LookFor
  <1>10. ASSUME NEW t \in Workers, NEW e \in DOMAIN events, Write(t, e) PROVE Framed
    BY <1>10 DEF Write
  <1>11. ASSUME NEW t \in Workers, Certify(t) PROVE Framed  BY <1>11 DEF Certify
  <1>12. ASSUME NEW t \in Workers, AppendSigned(t) PROVE Framed  BY <1>12 DEF AppendSigned
  <1>13. ASSUME NEW t \in Workers, MailCompleted(t) PROVE Framed  BY <1>13 DEF MailCompleted
  <1>14. ASSUME NEW t \in Workers, SaveMark(t) PROVE Framed  BY <1>14 DEF SaveMark
  <1>15. ASSUME NEW t \in Workers, Unlock(t) PROVE Framed  BY <1>15 DEF Unlock
  <1>16. ASSUME NEW t \in Workers, Fault(t) PROVE Framed  BY <1>16 DEF Fault
  <1>17. ASSUME NEW t \in Workers, Kill(t) PROVE Framed  BY <1>17 DEF Kill
  <1>18. CASE LockExpire  BY <1>18 DEF LockExpire
  <1> QED
    BY <1>1, <1>2, <1>3, <1>4, <1>5, <1>6, <1>7, <1>8, <1>9, <1>10, <1>11, <1>12, <1>13,
       <1>14, <1>15, <1>16, <1>17, <1>18
    DEF Task, Finalize

-----------------------------------------------------------------------------
(* One lemma for each part of the invariant.                               *)

\* Nobody is claimed who was not ready: consent is never taken back, and whoever was in an
\* earlier group has been claimed for good.
LEMMA PeopleStep == ASSUME TypeOK, PeopleInv, [Next]_vars PROVE PeopleInv'
  <1>0. ASSUME Web PROVE PeopleInv'
    <2> USE ProcessAssumption DEF TypeOK, PeopleInv, Ready, Handlers
    <2>1. ASSUME NEW h \in Tabs, Open(h) PROVE PeopleInv'  BY <2>1 DEF Open
    <2>2. ASSUME NEW h \in Tabs, Consent(h) PROVE PeopleInv'  BY <2>2 DEF Consent
    <2>3. ASSUME NEW h \in Tabs, Fill(h) PROVE PeopleInv'  BY <2>3 DEF Fill
    <2>4. ASSUME NEW h \in Tabs, Complete(h) PROVE PeopleInv'
      <3>1. Holder[h] \in Recipients /\ IsTurn(Holder[h])
        BY <2>4 DEF Complete, MayAct
      <3>2. ASSUME NEW q \in Acting, Order[q] < Order[Holder[h]] PROVE q \in claimed
        <4>1. q \in Recipients
          BY DEF Acting
        <4>2. Order[q] \in Nat /\ Order[Holder[h]] \in Nat
          BY <3>1, <4>1, RolesAssumption
        <4>3. q \notin Outstanding
          BY <3>1, <3>2, <4>2 DEF IsTurn
        <4> QED
          BY <4>1, <4>3 DEF Outstanding
      <3>3. Ready(Holder[h])
        BY <2>4, <3>1, <3>2 DEF Complete, MayAct, IsTurn
      <3> QED
        BY <2>4, <3>3 DEF Complete
    <2>5. ASSUME NEW h \in Tabs, Decline(h) PROVE PeopleInv'  BY <2>5 DEF Decline
    <2>6. ASSUME NEW h \in Tabs, Report(h) PROVE PeopleInv'  BY <2>6 DEF Report
    <2>7. ASSUME NEW h \in Tabs, SaveOpen(h) PROVE PeopleInv'  BY <2>7 DEF SaveOpen
    <2>8. ASSUME NEW h \in Tabs, SaveConsent(h) PROVE PeopleInv'  BY <2>8 DEF SaveConsent
    <2>9. ASSUME NEW h \in Tabs, SaveFill(h) PROVE PeopleInv'  BY <2>9 DEF SaveFill
    <2>10. ASSUME NEW h \in Tabs, Claim(h) PROVE PeopleInv'  BY <2>10 DEF Claim
    <2>11. ASSUME NEW h \in Tabs, Record(h) PROVE PeopleInv'  BY <2>11 DEF Record
    <2>12. ASSUME NEW h \in Tabs, Advance(h) PROVE PeopleInv'
      <3>1. \A p \in {<<r, rec[r]>> : r \in NextToNotify} : p[2] # "completed"
        BY DEF NextToNotify, Outstanding
      <3>2. \A g \in Handlers : \A p \in todo'[g] : p[2] # "completed"
        BY <2>12, <3>1 DEF Advance
      <3>3. UNCHANGED <<rec, claimed, consented>> /\ \A g \in Tabs : at'[g] = "claim" => at[g] = "claim"
        BY <2>12 DEF Advance
      <3> QED
        BY <3>2, <3>3
    <2>13. ASSUME NEW h \in Tabs, Dispatch(h) PROVE PeopleInv'  BY <2>13 DEF Dispatch
    <2>14. ASSUME NEW h \in Tabs, SaveDecline(h) PROVE PeopleInv'  BY <2>14 DEF SaveDecline
    <2>15. ASSUME NEW h \in Handlers, NotifyOne(h) PROVE PeopleInv'  BY <2>15 DEF NotifyOne
    <2>16. ASSUME NEW h \in Handlers, Close(h) PROVE PeopleInv'  BY <2>16 DEF Close
    <2>17. ASSUME NEW h \in Handlers, HandlerCrash(h) PROVE PeopleInv'  BY <2>17 DEF HandlerCrash
    <2>18. CASE Cancel  BY <2>18 DEF Cancel
    <2>19. CASE Expire  BY <2>19 DEF Expire
    <2>20. CASE DeadlinePasses  BY <2>20 DEF DeadlinePasses
    <2>21. ASSUME NEW r \in Recipients, Remind(r) PROVE PeopleInv'  BY <2>21 DEF Remind
    <2> QED
      BY <1>0, <2>1, <2>2, <2>3, <2>4, <2>5, <2>6, <2>7, <2>8, <2>9, <2>10, <2>11, <2>12, <2>13,
         <2>14, <2>15, <2>16, <2>17, <2>18, <2>19, <2>20, <2>21
      DEF Web, Begin, Proceed
  <1>1. ASSUME Task PROVE PeopleInv'
    BY <1>1, TaskFrame DEF PeopleInv, Ready
  <1>2. CASE UNCHANGED vars
    BY <1>2 DEF vars, PeopleInv, Ready
  <1> QED
    BY <1>0, <1>1, <1>2, NextSplits

\* The lock is taken when it is free, and expires only under an execution that is dead.
LEMMA LockStep == ASSUME Outlasts, TypeOK, LockInv, [Next]_vars PROVE LockInv'
  <1>0. ASSUME Web PROVE LockInv'
    BY <1>0, WebFrame DEF LockInv
  <1>1. ASSUME Task PROVE LockInv'
    <2> USE ProcessAssumption, EventNames DEF TypeOK, LockInv
    <2>1. ASSUME NEW t \in Workers, Take(t) PROVE LockInv'  BY <2>1 DEF Take
    <2>2. ASSUME NEW t \in Workers, Acquire(t) PROVE LockInv'  BY <2>2 DEF Acquire
    <2>3. ASSUME NEW t \in Workers, Retry(t) PROVE LockInv'  BY <2>3 DEF Retry
    <2>4. ASSUME NEW t \in Workers, GiveUp(t) PROVE LockInv'  BY <2>4 DEF GiveUp
    <2>5. ASSUME NEW t \in Workers, ReadRequest(t) PROVE LockInv'  BY <2>5 DEF ReadRequest
    <2>6. ASSUME NEW t \in Workers, Burn(t) PROVE LockInv'  BY <2>6 DEF Burn
    <2>7. ASSUME NEW t \in Workers, ClaimRequest(t) PROVE LockInv'  BY <2>7 DEF ClaimRequest
    <2>8. ASSUME NEW t \in Workers, Commit(t) PROVE LockInv'  BY <2>8 DEF Commit
    <2>9. ASSUME NEW t \in Workers, NEW e \in DOMAIN events, LookFor(t, e) PROVE LockInv'
      BY <2>9 DEF LookFor, LookAt
    <2>10. ASSUME NEW t \in Workers, NEW e \in DOMAIN events, Write(t, e) PROVE LockInv'
      BY <2>10 DEF Write, WriteAt
    <2>11. ASSUME NEW t \in Workers, Certify(t) PROVE LockInv'  BY <2>11 DEF Certify
    <2>12. ASSUME NEW t \in Workers, AppendSigned(t) PROVE LockInv'  BY <2>12 DEF AppendSigned
    <2>13. ASSUME NEW t \in Workers, MailCompleted(t) PROVE LockInv'  BY <2>13 DEF MailCompleted
    <2>14. ASSUME NEW t \in Workers, SaveMark(t) PROVE LockInv'  BY <2>14 DEF SaveMark
    <2>15. ASSUME NEW t \in Workers, Unlock(t) PROVE LockInv'  BY <2>15 DEF Unlock
    <2>16. ASSUME NEW t \in Workers, Fault(t) PROVE LockInv'  BY <2>16 DEF Fault
    <2>17. ASSUME NEW t \in Workers, Kill(t) PROVE LockInv'  BY <2>17 DEF Kill
    <2>18. CASE LockExpire  BY <2>18 DEF LockExpire
    <2> QED
      BY <1>1, <2>1, <2>2, <2>3, <2>4, <2>5, <2>6, <2>7, <2>8, <2>9, <2>10, <2>11, <2>12, <2>13,
         <2>14, <2>15, <2>16, <2>17, <2>18
      DEF Task, Finalize
  <1>2. CASE UNCHANGED vars
    BY <1>2 DEF vars, LockInv
  <1> QED
    BY <1>0, <1>1, <1>2, NextSplits

\* Whoever goes on to dispatch has found that everybody is done.
LEMMA DispatchFrame ==
  ASSUME TypeOK, Web
  PROVE  \A g \in Tabs : at'[g] = "dispatch" => at[g] = "dispatch" \/ EveryoneDone
  <1> DEFINE Framed == \A g \in Tabs : at'[g] = "dispatch" => at[g] = "dispatch" \/ EveryoneDone
  <1> USE ProcessAssumption DEF TypeOK, Handlers
  <1>1. ASSUME NEW h \in Tabs, Open(h) PROVE Framed  BY <1>1 DEF Open
  <1>2. ASSUME NEW h \in Tabs, Consent(h) PROVE Framed  BY <1>2 DEF Consent
  <1>3. ASSUME NEW h \in Tabs, Fill(h) PROVE Framed  BY <1>3 DEF Fill
  <1>4. ASSUME NEW h \in Tabs, Complete(h) PROVE Framed  BY <1>4 DEF Complete
  <1>5. ASSUME NEW h \in Tabs, Decline(h) PROVE Framed  BY <1>5 DEF Decline
  <1>6. ASSUME NEW h \in Tabs, Report(h) PROVE Framed  BY <1>6 DEF Report
  <1>7. ASSUME NEW h \in Tabs, SaveOpen(h) PROVE Framed  BY <1>7 DEF SaveOpen
  <1>8. ASSUME NEW h \in Tabs, SaveConsent(h) PROVE Framed  BY <1>8 DEF SaveConsent
  <1>9. ASSUME NEW h \in Tabs, SaveFill(h) PROVE Framed  BY <1>9 DEF SaveFill
  <1>10. ASSUME NEW h \in Tabs, Claim(h) PROVE Framed  BY <1>10 DEF Claim
  <1>11. ASSUME NEW h \in Tabs, Record(h) PROVE Framed  BY <1>11 DEF Record
  <1>12. ASSUME NEW h \in Tabs, Advance(h) PROVE Framed  BY <1>12 DEF Advance
  <1>13. ASSUME NEW h \in Tabs, Dispatch(h) PROVE Framed  BY <1>13 DEF Dispatch
  <1>14. ASSUME NEW h \in Tabs, SaveDecline(h) PROVE Framed  BY <1>14 DEF SaveDecline
  <1>15. ASSUME NEW h \in Handlers, NotifyOne(h) PROVE Framed  BY <1>15 DEF NotifyOne
  <1>16. ASSUME NEW h \in Handlers, Close(h) PROVE Framed  BY <1>16 DEF Close
  <1>17. ASSUME NEW h \in Handlers, HandlerCrash(h) PROVE Framed  BY <1>17 DEF HandlerCrash
  <1>18. CASE Cancel  BY <1>18 DEF Cancel
  <1>19. CASE Expire  BY <1>19 DEF Expire
  <1>20. CASE DeadlinePasses  BY <1>20 DEF DeadlinePasses
  <1>21. ASSUME NEW r \in Recipients, Remind(r) PROVE Framed  BY <1>21 DEF Remind
  <1> QED
    BY <1>1, <1>2, <1>3, <1>4, <1>5, <1>6, <1>7, <1>8, <1>9, <1>10, <1>11, <1>12, <1>13,
       <1>14, <1>15, <1>16, <1>17, <1>18, <1>19, <1>20, <1>21
    DEF Web, Begin, Proceed

\* An execution follows a message, or another execution.
LEMMA StartFrame ==
  ASSUME TypeOK, Task
  PROVE  queue' > 0 \/ (\E t \in Workers : fpc'[t] # "idle")
           => queue > 0 \/ (\E t \in Workers : fpc[t] # "idle")
  <1> DEFINE Started == queue > 0 \/ (\E t \in Workers : fpc[t] # "idle")
  <1>1. ASSUME NEW t \in Workers, Finalize(t) \/ Fault(t) \/ Kill(t) PROVE Started
    <2>1. CASE Take(t)  BY <2>1 DEF Take
    <2>2. CASE Acquire(t) \/ Retry(t) \/ GiveUp(t)
      BY <2>2 DEF Acquire, Retry, GiveUp
    <2>3. CASE ReadRequest(t) \/ Burn(t) \/ ClaimRequest(t) \/ Commit(t)
      BY <2>3 DEF ReadRequest, Burn, ClaimRequest, Commit
    <2>4. ASSUME NEW e \in DOMAIN events, LookFor(t, e) \/ Write(t, e) PROVE Started
      <3>1. e \in {"seal_applied", "completed"}
        BY DEF TypeOK
      <3>2. LookAt[e] # "idle" /\ WriteAt[e] # "idle"
        BY <3>1 DEF LookAt, WriteAt
      <3> QED
        BY <2>4, <3>2 DEF LookFor, Write
    <2>5. CASE Certify(t) \/ AppendSigned(t) \/ MailCompleted(t) \/ SaveMark(t) \/ Unlock(t)
      BY <2>5 DEF Certify, AppendSigned, MailCompleted, SaveMark, Unlock
    <2>6. CASE Fault(t) \/ Kill(t)
      BY <2>6 DEF Fault, Kill
    <2> QED
      BY <1>1, <2>1, <2>2, <2>3, <2>4, <2>5, <2>6 DEF Finalize
  <1>2. CASE LockExpire
    BY <1>2 DEF LockExpire
  <1> QED
    BY <1>1, <1>2 DEF Task

\* Finalize is only ever asked for when everybody has finished, and that cannot be undone.
LEMMA FinishedStep ==
  ASSUME TypeOK, PeopleInv, FinishedInv, [Next]_vars PROVE FinishedInv'
  <1>1. ASSUME Web PROVE FinishedInv'
    <2>1. EveryoneDone => Acting \subseteq claimed
      BY DEF EveryoneDone, Outstanding, Acting, PeopleInv
    <2>2. claimed \subseteq claimed' /\ UNCHANGED fpc
      BY <1>1, WebFrame
    <2>3. queue' > 0 => queue > 0 \/ \E h \in Tabs : at[h] = "dispatch"
      BY <1>1, WebFrame
    <2>4. (\E h \in Tabs : at'[h] = "dispatch")
             => EveryoneDone \/ \E h \in Tabs : at[h] = "dispatch"
      BY <1>1, DispatchFrame
    <2> QED
      BY <2>1, <2>2, <2>3, <2>4 DEF FinishedInv
  <1>2. ASSUME Task PROVE FinishedInv'
    BY <1>2, StartFrame, TaskFrame DEF FinishedInv
  <1>3. CASE UNCHANGED vars
    BY <1>3 DEF vars, FinishedInv
  <1> QED
    BY <1>1, <1>2, <1>3, NextSplits

\* The execution that has the lock is the only one on the way to the seal, so what it has
\* found and put stays as it is until it commits.
LEMMA SealStep == ASSUME TypeOK, LockInv, SealInv, [Next]_vars PROVE SealInv'
  <1>1. ASSUME Web PROVE SealInv'
    BY <1>1, WebFrame DEF SealInv, Closed
  <1>2. ASSUME Task PROVE SealInv'
    <2>0. /\ fpc \in [Workers -> Points] /\ bytes \in [Workers -> Nat] /\ files \in Nat
          /\ \A t, u \in Workers : {fpc[t], fpc[u]} \cap {"idle", "wait"} = {} => t = u
          /\ DOMAIN events = {"seal_applied", "completed"}
      BY DEF TypeOK, LockInv
    <2> USE <2>0 DEF SealInv
    <2>1. ASSUME NEW t \in Workers, Take(t) PROVE SealInv'  BY <2>1 DEF Take
    <2>2. ASSUME NEW t \in Workers, Acquire(t) PROVE SealInv'  BY <2>2 DEF Acquire
    <2>3. ASSUME NEW t \in Workers, Retry(t) PROVE SealInv'  BY <2>3 DEF Retry
    <2>4. ASSUME NEW t \in Workers, GiveUp(t) PROVE SealInv'  BY <2>4 DEF GiveUp
    <2>5. ASSUME NEW t \in Workers, ReadRequest(t) PROVE SealInv'  BY <2>5 DEF ReadRequest
    <2>6. ASSUME NEW t \in Workers, Burn(t) PROVE SealInv'
      <3>1. fpc[t] = "burn" /\ sha = 0
        BY <2>6 DEF Burn
      <3>2. fpc' = [fpc EXCEPT ![t] = "claim"] /\ UNCHANGED <<sha, stored>>
        BY <2>6 DEF Burn
      <3>3. bytes'[t] # 0
        BY <2>6 DEF Burn
      <3>4. \A u \in Workers \ {t} : fpc'[u] \in {"idle", "wait"}
        BY <3>1, <3>2
      <3> QED
        BY <3>1, <3>2, <3>3, <3>4
    <2>7. ASSUME NEW t \in Workers, ClaimRequest(t) PROVE SealInv'
      <3>1. /\ fpc[t] = "claim" /\ sha = 0 /\ bytes[t] # 0
            /\ UNCHANGED <<sha, bytes>>
        BY <2>7 DEF ClaimRequest
      <3>2. \A u \in Workers \ {t} : fpc'[u] = fpc[u] /\ fpc[u] \in {"idle", "wait"}
        BY <2>7, <3>1 DEF ClaimRequest
      <3>3. \/ fpc'[t] = "unlock"
            \/ fpc'[t] = "commit" /\ stored' = bytes[t]
        BY <2>7 DEF ClaimRequest
      <3> QED
        BY <3>1, <3>2, <3>3
    <2>8. ASSUME NEW t \in Workers, Commit(t) PROVE SealInv'
      <3>1. fpc[t] = "commit" /\ stored = bytes[t] /\ UNCHANGED stored
        BY <2>8 DEF Commit
      <3>2. sha' = bytes[t] /\ req' = "completed" /\ fpc' = [fpc EXCEPT ![t] = "sealed?"]
        BY <2>8 DEF Commit
      <3>3. \A u \in Workers : fpc'[u] \notin {"burn", "claim", "commit"}
        BY <3>1, <3>2
      <3> QED
        BY <3>1, <3>2, <3>3
    <2>9. ASSUME NEW t \in Workers, NEW e \in DOMAIN events, LookFor(t, e) PROVE SealInv'
      BY <2>9 DEF LookFor, LookAt, WriteAt, NextPoint
    <2>10. ASSUME NEW t \in Workers, NEW e \in DOMAIN events, Write(t, e) PROVE SealInv'
      BY <2>10 DEF Write, WriteAt, NextPoint
    <2>11. ASSUME NEW t \in Workers, Certify(t) PROVE SealInv'  BY <2>11 DEF Certify
    <2>12. ASSUME NEW t \in Workers, AppendSigned(t) PROVE SealInv'
      BY <2>12 DEF AppendSigned
    <2>13. ASSUME NEW t \in Workers, MailCompleted(t) PROVE SealInv'
      BY <2>13 DEF MailCompleted
    <2>14. ASSUME NEW t \in Workers, SaveMark(t) PROVE SealInv'  BY <2>14 DEF SaveMark
    <2>15. ASSUME NEW t \in Workers, Unlock(t) PROVE SealInv'  BY <2>15 DEF Unlock
    <2>16. ASSUME NEW t \in Workers, Fault(t) PROVE SealInv'  BY <2>16 DEF Fault
    <2>17. ASSUME NEW t \in Workers, Kill(t) PROVE SealInv'  BY <2>17 DEF Kill
    <2>18. CASE LockExpire  BY <2>18 DEF LockExpire
    <2> QED
      BY <1>2, <2>1, <2>2, <2>3, <2>4, <2>5, <2>6, <2>7, <2>8, <2>9, <2>10, <2>11, <2>12, <2>13,
         <2>14, <2>15, <2>16, <2>17, <2>18
      DEF Task, Finalize
  <1>3. CASE UNCHANGED vars
    BY <1>3 DEF vars, SealInv
  <1> QED
    BY <1>1, <1>2, <1>3, NextSplits

\* The row's lock alone: one execution at a time is between the second look and the commit,
\* and the file in storage is the one it has put there.
RowLockInv == /\ \A t \in Workers : fpc[t] = "commit" => stored = bytes[t]
              /\ \A t, u \in Workers : fpc[t] = "commit" /\ fpc[u] = "commit" => t = u

\* It holds through every step, whoever has the Redis lock.
LEMMA RowLockStep ==
  ASSUME TypeOK, RowLockInv, [Next]_vars
  PROVE  RowLockInv' /\ (sha' # sha => sha' = stored')
  <1>1. ASSUME Web PROVE RowLockInv' /\ sha' = sha
    BY <1>1, WebFrame DEF RowLockInv
  <1>2. ASSUME Task PROVE RowLockInv' /\ (sha' # sha => sha' = stored')
    <2>0. /\ fpc \in [Workers -> Points] /\ bytes \in [Workers -> Nat] /\ files \in Nat
          /\ DOMAIN events = {"seal_applied", "completed"}
      BY DEF TypeOK
    <2> USE <2>0 DEF RowLockInv
    <2>1. ASSUME NEW t \in Workers, Take(t) PROVE RowLockInv' /\ sha' = sha
      BY <2>1 DEF Take
    <2>2. ASSUME NEW t \in Workers, Acquire(t) PROVE RowLockInv' /\ sha' = sha
      BY <2>2 DEF Acquire
    <2>3. ASSUME NEW t \in Workers, Retry(t) PROVE RowLockInv' /\ sha' = sha
      BY <2>3 DEF Retry
    <2>4. ASSUME NEW t \in Workers, GiveUp(t) PROVE RowLockInv' /\ sha' = sha
      BY <2>4 DEF GiveUp
    <2>5. ASSUME NEW t \in Workers, ReadRequest(t) PROVE RowLockInv' /\ sha' = sha
      BY <2>5 DEF ReadRequest
    <2>6. ASSUME NEW t \in Workers, Burn(t) PROVE RowLockInv' /\ sha' = sha
      <3>1. /\ fpc[t] = "burn" /\ fpc' = [fpc EXCEPT ![t] = "claim"]
            /\ bytes' = [bytes EXCEPT ![t] = files + 1] /\ UNCHANGED <<req, sha, stored>>
        BY <2>6 DEF Burn
      <3> QED
        BY <3>1
    <2>7. ASSUME NEW t \in Workers, ClaimRequest(t) PROVE RowLockInv' /\ sha' = sha
      <3>1. /\ fpc[t] = "claim" /\ UNCHANGED <<sha, bytes>>
            /\ \A u \in Workers : fpc[u] # "commit"
        BY <2>7 DEF ClaimRequest, RowLocked
      <3>2. CASE stored' = stored /\ fpc' = [fpc EXCEPT ![t] = "unlock"]
        BY <3>1, <3>2
      <3>3. CASE stored' = bytes[t] /\ fpc' = [fpc EXCEPT ![t] = "commit"]
        BY <3>1, <3>3
      <3> QED
        BY <2>7, <3>1, <3>2, <3>3 DEF ClaimRequest
    <2>8. ASSUME NEW t \in Workers, Commit(t) PROVE RowLockInv' /\ sha' = stored'
      <3>1. fpc[t] = "commit" /\ stored = bytes[t] /\ UNCHANGED <<stored, bytes>>
        BY <2>8 DEF Commit
      <3>2. sha' = bytes[t] /\ fpc' = [fpc EXCEPT ![t] = "sealed?"]
        BY <2>8 DEF Commit
      <3>3. \A u \in Workers : fpc'[u] # "commit"
        BY <3>1, <3>2
      <3> QED
        BY <3>1, <3>2, <3>3
    <2>9. ASSUME NEW t \in Workers, NEW e \in DOMAIN events, LookFor(t, e)
          PROVE  RowLockInv' /\ sha' = sha
      BY <2>9 DEF LookFor, LookAt, WriteAt, NextPoint
    <2>10. ASSUME NEW t \in Workers, NEW e \in DOMAIN events, Write(t, e)
          PROVE  RowLockInv' /\ sha' = sha
      BY <2>10 DEF Write, WriteAt, NextPoint
    <2>11. ASSUME NEW t \in Workers, Certify(t) PROVE RowLockInv' /\ sha' = sha
      BY <2>11 DEF Certify
    <2>12. ASSUME NEW t \in Workers, AppendSigned(t) PROVE RowLockInv' /\ sha' = sha
      BY <2>12 DEF AppendSigned
    <2>13. ASSUME NEW t \in Workers, MailCompleted(t) PROVE RowLockInv' /\ sha' = sha
      BY <2>13 DEF MailCompleted
    <2>14. ASSUME NEW t \in Workers, SaveMark(t) PROVE RowLockInv' /\ sha' = sha
      BY <2>14 DEF SaveMark
    <2>15. ASSUME NEW t \in Workers, Unlock(t) PROVE RowLockInv' /\ sha' = sha
      BY <2>15 DEF Unlock
    <2>16. ASSUME NEW t \in Workers, Fault(t) PROVE RowLockInv' /\ sha' = sha
      BY <2>16 DEF Fault
    <2>17. ASSUME NEW t \in Workers, Kill(t) PROVE RowLockInv' /\ sha' = sha
      BY <2>17 DEF Kill
    <2>18. CASE LockExpire  BY <2>18 DEF LockExpire
    <2> QED
      BY <1>2, <2>1, <2>2, <2>3, <2>4, <2>5, <2>6, <2>7, <2>8, <2>9, <2>10, <2>11, <2>12, <2>13,
         <2>14, <2>15, <2>16, <2>17, <2>18
      DEF Task, Finalize
  <1>3. CASE UNCHANGED vars
    BY <1>3 DEF vars, RowLockInv
  <1> QED
    BY <1>1, <1>2, <1>3, NextSplits

\* The same for the two events: between the look and the write nobody else writes.
LEMMA RecordStep == ASSUME TypeOK, LockInv, RecordInv, [Next]_vars PROVE RecordInv'
  <1>1. ASSUME Web PROVE RecordInv'
    BY <1>1, WebFrame DEF RecordInv
  <1>2. ASSUME Task PROVE RecordInv'
    <2>0. /\ fpc \in [Workers -> Points]
          /\ \A t, u \in Workers : {fpc[t], fpc[u]} \cap {"idle", "wait"} = {} => t = u
          /\ events \in [{"seal_applied", "completed"} -> Nat]
      BY DEF TypeOK, LockInv
    <2>00. /\ WriteAt["seal_applied"] = "seal" /\ WriteAt["completed"] = "complete"
           /\ LookAt["seal_applied"] = "sealed?" /\ LookAt["completed"] = "completed?"
           /\ NextPoint["seal_applied"] = "completed?"
           /\ NextPoint["completed"] = "certificate"
      BY DEF WriteAt, LookAt, NextPoint
    <2> USE <2>0, <2>00 DEF RecordInv
    <2>1. ASSUME NEW t \in Workers, Take(t) PROVE RecordInv'  BY <2>1 DEF Take
    <2>2. ASSUME NEW t \in Workers, Acquire(t) PROVE RecordInv'  BY <2>2 DEF Acquire
    <2>3. ASSUME NEW t \in Workers, Retry(t) PROVE RecordInv'  BY <2>3 DEF Retry
    <2>4. ASSUME NEW t \in Workers, GiveUp(t) PROVE RecordInv'  BY <2>4 DEF GiveUp
    <2>5. ASSUME NEW t \in Workers, ReadRequest(t) PROVE RecordInv'  BY <2>5 DEF ReadRequest
    <2>6. ASSUME NEW t \in Workers, Burn(t) PROVE RecordInv'  BY <2>6 DEF Burn
    <2>7. ASSUME NEW t \in Workers, ClaimRequest(t) PROVE RecordInv'
      BY <2>7 DEF ClaimRequest
    <2>8. ASSUME NEW t \in Workers, Commit(t) PROVE RecordInv'  BY <2>8 DEF Commit
    <2>9. ASSUME NEW t \in Workers, NEW e \in DOMAIN events, LookFor(t, e)
         PROVE  RecordInv'
      <3>1. /\ UNCHANGED events
            /\ fpc' = [fpc EXCEPT ![t] = IF events[e] > 0 THEN NextPoint[e] ELSE WriteAt[e]]
        BY <2>9 DEF LookFor
      <3>2. CASE events[e] > 0
        <4>1. fpc' = [fpc EXCEPT ![t] = NextPoint[e]]
          BY <3>1, <3>2
        <4> QED
          BY <3>1, <4>1
      <3>3. CASE events[e] = 0
        <4>1. fpc' = [fpc EXCEPT ![t] = WriteAt[e]]
          BY <3>1, <3>3
        <4> QED
          BY <3>1, <3>3, <4>1
      <3>4. events[e] \in Nat
        OBVIOUS
      <3> QED
        BY <3>2, <3>3, <3>4
    <2>10. ASSUME NEW t \in Workers, NEW e \in DOMAIN events, Write(t, e)
         PROVE  RecordInv'
      <3>1. /\ fpc[t] = WriteAt[e] /\ events[e] = 0
            /\ events' = [events EXCEPT ![e] = events[e] + 1]
            /\ fpc' = [fpc EXCEPT ![t] = NextPoint[e]]
        BY <2>10 DEF Write
      <3>2. \A d \in DOMAIN events : events'[d] <= 1
        BY <3>1
      <3>3. \A u \in Workers : fpc'[u] \notin {"seal", "complete"}
        BY <3>1
      <3> QED
        BY <3>2, <3>3
    <2>11. ASSUME NEW t \in Workers, Certify(t) PROVE RecordInv'  BY <2>11 DEF Certify
    <2>12. ASSUME NEW t \in Workers, AppendSigned(t) PROVE RecordInv'
      BY <2>12 DEF AppendSigned
    <2>13. ASSUME NEW t \in Workers, MailCompleted(t) PROVE RecordInv'
      BY <2>13 DEF MailCompleted
    <2>14. ASSUME NEW t \in Workers, SaveMark(t) PROVE RecordInv'  BY <2>14 DEF SaveMark
    <2>15. ASSUME NEW t \in Workers, Unlock(t) PROVE RecordInv'  BY <2>15 DEF Unlock
    <2>16. ASSUME NEW t \in Workers, Fault(t) PROVE RecordInv'  BY <2>16 DEF Fault
    <2>17. ASSUME NEW t \in Workers, Kill(t) PROVE RecordInv'  BY <2>17 DEF Kill
    <2>18. CASE LockExpire  BY <2>18 DEF LockExpire
    <2> QED
      BY <1>2, <2>1, <2>2, <2>3, <2>4, <2>5, <2>6, <2>7, <2>8, <2>9, <2>10, <2>11, <2>12, <2>13,
         <2>14, <2>15, <2>16, <2>17, <2>18
      DEF Task, Finalize
  <1>3. CASE UNCHANGED vars
    BY <1>3 DEF vars, RecordInv
  <1> QED
    BY <1>1, <1>2, <1>3, NextSplits

-----------------------------------------------------------------------------
(* The theorems.                                                           *)

LEMMA PeopleInit == Init => PeopleInv
  BY DEF Init, PeopleInv, Handlers

LEMMA InvInit == Init => IInv
  <1> SUFFICES ASSUME Init PROVE IInv
    OBVIOUS
  <1>1. FinishedInv
    BY DEF Init, FinishedInv, Handlers
  <1>2. LockInv /\ SealInv
    BY DEF Init, LockInv, SealInv
  <1>3. RecordInv
    BY DEF Init, RecordInv, WriteAt
  <1> QED
    BY <1>1, <1>2, <1>3, TypeInit, PeopleInit DEF IInv

\* As long as no execution outlives its lock, every part of the invariant holds.
THEOREM InvCorrect == ASSUME Outlasts PROVE Spec => []IInv
  <1>1. IInv /\ [Next]_vars => IInv'
    BY TypeStep, PeopleStep, FinishedStep, LockStep, SealStep, RecordStep DEF IInv
  <1> QED
    BY InvInit, <1>1, PTL DEF Spec

\* Groups act in their order, whatever becomes of the executions and their lock: a handler
\* that has asked whose turn it is may claim at any later time.
THEOREM TurnCorrect == Spec => []TurnRespected
  <1> DEFINE Inv == TypeOK /\ PeopleInv
  <1>1. Init => Inv
    BY TypeInit, PeopleInit
  <1>2. Inv /\ [Next]_vars => Inv'
    BY TypeStep, PeopleStep
  <1>3. Inv => TurnRespected
    BY DEF PeopleInv, Ready, TurnRespected
  <1> QED
    BY <1>1, <1>2, <1>3, PTL DEF Spec

\* final_sha256 describes the file that is downloaded.
THEOREM FingerprintCorrect == ASSUME Outlasts PROVE Spec => []FingerprintMatches
  <1>1. IInv => FingerprintMatches
    BY DEF IInv, SealInv, FingerprintMatches
  <1> QED
    BY <1>1, InvCorrect, PTL

\* Each completion event is in the chain once at most, however often the tail is resumed.
THEOREM RecordedOnceCorrect ==
  ASSUME Outlasts PROVE Spec => []CompletionRecordedOnce
  <1>1. IInv => CompletionRecordedOnce
    BY DEF IInv, TypeOK, RecordInv, CompletionRecordedOnce
  <1> QED
    BY <1>1, InvCorrect, PTL

\* A request is a Ceremony when it is made.
LEMMA PromiseInitMaps == Init => Promise!Init
  BY DEF Init, Promise!Init

\* A handler takes the ceremony a step on, by an agreement or by a finish, or leaves it.
LEMMA WebMaps ==
  ASSUME TypeOK, PeopleInv, Web PROVE [Promise!Next]_(Promise!vars)
  <1> DEFINE Agreed == {r \in Recipients : consented[r]}
             Mapped == [Promise!Next]_(Promise!vars)
             Still  == UNCHANGED <<consented, claimed, sha>>
  <1>0. Still => Mapped
    BY DEF Promise!vars
  <1>1. ASSUME NEW h \in Tabs, Open(h) PROVE Mapped
    BY <1>0, <1>1 DEF Open
  <1>2. ASSUME NEW h \in Tabs, Consent(h) PROVE Mapped
    BY <1>0, <1>2 DEF Consent
  <1>3. ASSUME NEW h \in Tabs, Fill(h) PROVE Mapped
    BY <1>0, <1>3 DEF Fill
  <1>4. ASSUME NEW h \in Tabs, Complete(h) PROVE Mapped
    BY <1>0, <1>4 DEF Complete
  <1>5. ASSUME NEW h \in Tabs, Decline(h) PROVE Mapped
    BY <1>0, <1>5 DEF Decline
  <1>6. ASSUME NEW h \in Tabs, Report(h) PROVE Mapped
    BY <1>0, <1>6 DEF Report
  <1>7. ASSUME NEW h \in Tabs, SaveOpen(h) PROVE Mapped
    BY <1>0, <1>7 DEF SaveOpen
  <1>8. ASSUME NEW h \in Tabs, SaveConsent(h) PROVE Mapped
    <2>1. Holder[h] \in Recipients /\ DOMAIN Order = Recipients
      BY ProcessAssumption, RolesAssumption
    <2>2. Agreed' = Agreed \cup {Holder[h]} /\ UNCHANGED <<claimed, sha>>
      BY <1>8, <2>1 DEF SaveConsent, TypeOK
    <2>3. Promise!Agree(Holder[h])
      BY <2>2 DEF Promise!Agree
    <2> QED
      BY <2>1, <2>3 DEF Promise!Next
  <1>9. ASSUME NEW h \in Tabs, SaveFill(h) PROVE Mapped
    BY <1>0, <1>9 DEF SaveFill
  <1>10. ASSUME NEW h \in Tabs, Claim(h) PROVE Mapped
    <2>1. Ready(Holder[h]) /\ UNCHANGED <<consented, sha>>
      BY <1>10 DEF Claim, PeopleInv
    <2>2. CASE claimed' = claimed
      BY <1>0, <2>1, <2>2
    <2>3. CASE claimed' = claimed \cup {Holder[h]}
      <3>1. Holder[h] \in Acting /\ Acting \subseteq Recipients
        BY <2>1 DEF Ready, Acting
      <3>2. Promise!Finish(Holder[h])
        BY <2>1, <2>3, <3>1 DEF Ready, Promise!Finish
      <3> QED
        BY <3>1, <3>2 DEF Promise!Next
    <2> QED
      BY <1>10, <2>2, <2>3 DEF Claim
  <1>11. ASSUME NEW h \in Tabs, Record(h) PROVE Mapped
    BY <1>0, <1>11 DEF Record
  <1>12. ASSUME NEW h \in Tabs, Advance(h) PROVE Mapped
    BY <1>0, <1>12 DEF Advance
  <1>13. ASSUME NEW h \in Tabs, Dispatch(h) PROVE Mapped
    BY <1>0, <1>13 DEF Dispatch
  <1>14. ASSUME NEW h \in Tabs, SaveDecline(h) PROVE Mapped
    BY <1>0, <1>14 DEF SaveDecline
  <1>15. ASSUME NEW h \in Handlers, NotifyOne(h) PROVE Mapped
    BY <1>0, <1>15 DEF NotifyOne
  <1>16. ASSUME NEW h \in Handlers, Close(h) PROVE Mapped
    BY <1>0, <1>16 DEF Close
  <1>17. ASSUME NEW h \in Handlers, HandlerCrash(h) PROVE Mapped
    BY <1>0, <1>17 DEF HandlerCrash
  <1>18. CASE Cancel
    BY <1>0, <1>18 DEF Cancel
  <1>19. CASE Expire
    BY <1>0, <1>19 DEF Expire
  <1>20. CASE DeadlinePasses
    BY <1>0, <1>20 DEF DeadlinePasses
  <1>21. ASSUME NEW r \in Recipients, Remind(r) PROVE Mapped
    BY <1>0, <1>21 DEF Remind
  <1> QED
    BY <1>1, <1>2, <1>3, <1>4, <1>5, <1>6, <1>7, <1>8, <1>9, <1>10, <1>11, <1>12, <1>13,
       <1>14, <1>15, <1>16, <1>17, <1>18, <1>19, <1>20, <1>21
    DEF Web, Begin, Proceed

\* An execution takes it on by the seal, when everybody has finished and there is none.
LEMMA TaskMaps ==
  ASSUME TypeOK, FinishedInv, Task,
         \A t \in Workers : fpc[t] = "commit" => sha = 0 /\ bytes[t] # 0
  PROVE  [Promise!Next]_(Promise!vars)
  <1> DEFINE Still == UNCHANGED <<consented, claimed, sha>>
  <1>1. UNCHANGED <<consented, claimed>>
    BY TaskFrame
  <1>2. ASSUME NEW t \in Workers, Commit(t) PROVE Promise!Seal
    <2>1. fpc[t] = "commit" /\ sha' = bytes[t]
      BY <1>2 DEF Commit
    <2>2. Acting \subseteq claimed
      BY <2>1 DEF FinishedInv
    <2>3. sha = 0 /\ bytes[t] # 0
      BY <2>1
    <2>4. bytes[t] \in Nat
      BY DEF TypeOK
    <2> QED
      BY <1>1, <2>1, <2>2, <2>3, <2>4 DEF Promise!Seal
  <1>3. (\E t \in Workers : Commit(t)) \/ UNCHANGED sha
    BY DEF Task, Finalize, Take, Acquire, Retry, GiveUp, ReadRequest, Burn, ClaimRequest,
           LookFor, Write, Certify, AppendSigned, MailCompleted, SaveMark, Unlock, Fault,
           Kill, LockExpire
  <1> QED
    BY <1>1, <1>2, <1>3 DEF Promise!Next, Promise!vars

\* A request keeps the promise of Ceremony: agreed before finished, groups in order,
\* nothing sealed that somebody has still to sign, and sealed once.
THEOREM ImplementsCeremony == ASSUME Outlasts PROVE Spec => PromiseSpec
  <1>1. IInv /\ [Next]_vars => [Promise!Next]_(Promise!vars)
    <2>1. CASE UNCHANGED vars
      BY <2>1 DEF vars, Promise!vars
    <2> QED
      BY <2>1, NextSplits, WebMaps, TaskMaps DEF IInv, SealInv
  <1> QED
    BY PromiseInitMaps, <1>1, InvCorrect, PTL DEF Spec, PromiseSpec, Promise!Spec

\* The fingerprint, once there, is never another: a redelivery never seals again.
THEOREM SealedOnceCorrect == ASSUME Outlasts PROVE Spec => SealedOnce
  <1>1. [Promise!Next]_(Promise!vars) => [sha # 0 => sha' = sha]_vars
    BY DEF Promise!Next, Promise!vars, Promise!Agree, Promise!Finish, Promise!Seal
  <1> QED
    BY <1>1, ImplementsCeremony, PTL DEF PromiseSpec, Promise!Spec, SealedOnce

\* What is written as the fingerprint is that of the file in storage at that moment, also
\* where the Redis lock is lost under a live execution and another puts a file of its own:
\* the row's lock is held from before the file is put until the commit.  (esign/tasks.py,
\* _finalize: "Stored *inside* the claim, so the bytes and the fingerprint that describes them
\* are committed together".)
PublishedTogether == [][sha' # sha => sha' = stored']_vars

THEOREM PublishedTogetherCorrect == Spec => PublishedTogether
  <1>1. Init => RowLockInv
    BY DEF Init, RowLockInv
  <1>2. TypeOK /\ RowLockInv /\ [Next]_vars => RowLockInv' /\ [sha' # sha => sha' = stored']_vars
    BY RowLockStep
  <1> QED
    BY <1>1, <1>2, TypeCorrect, PTL DEF Spec, PublishedTogether
=============================================================================
