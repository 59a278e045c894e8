------------------------- MODULE JobPipelineProofs -------------------------
(***************************************************************************)
(* Theorems about JobPipeline, for any number of jobs and any batch size.  *)
(***************************************************************************)
EXTENDS JobPipeline, WellFoundedInduction, NaturalsInduction, TLAPS

USE DEF rowVars, outVars, chainVars, At, Goto, Mark, Stop, Release

-----------------------------------------------------------------------------
(* Types.                                                                  *)

LEMMA TypeInit == Init => TypeOK
  <1> SUFFICES ASSUME Init PROVE TypeOK
    OBVIOUS
  <1>1. vers \in Seq([by : Writers, from : Nat])
    BY DEF Init, Writers
  <1>2. DOMAIN blob \subseteq Nat /\ \A i \in DOMAIN blob : blob[i] \in Writers
    BY DEF Init, Writers
  <1> QED
    BY <1>1, <1>2 DEF Init, TypeOK, Status, Points

LEMMA TypeStep == TypeOK /\ [Next]_vars => TypeOK'
  <1> SUFFICES ASSUME TypeOK, [Next]_vars PROVE TypeOK'
    OBVIOUS
  <1> USE DEF TypeOK, Status, Active, Terminal, Points, Body, Inside
  <1>1. ASSUME NEW j \in Jobs, NEW b \in 0..Len(vers), Submit(j, b) PROVE TypeOK'
    BY <1>1 DEF Submit
  <1>2. ASSUME NEW j \in Jobs, Enqueue(j) PROVE TypeOK'
    BY <1>2 DEF Enqueue
  <1>3. ASSUME NEW j \in Jobs, CancelRead(j) PROVE TypeOK'
    BY <1>3 DEF CancelRead
  <1>4. ASSUME NEW j \in Jobs, CancelWrite(j) PROVE TypeOK'
    BY <1>4 DEF CancelWrite
  <1>5. ASSUME NEW j \in Jobs, ApiCrash(j) PROVE TypeOK'
    BY <1>5 DEF ApiCrash
  <1>6. ASSUME NEW j \in Jobs, Deliver(j) PROVE TypeOK'
    BY <1>6 DEF Deliver
  <1>7. ASSUME NEW j \in Jobs, FailRedelivered(j) PROVE TypeOK'
    BY <1>7 DEF FailRedelivered
  <1>8. ASSUME NEW j \in Jobs, MarkRunning(j) PROVE TypeOK'
    BY <1>8 DEF MarkRunning
  <1>9. ASSUME NEW j \in Jobs, Acquire(j) PROVE TypeOK'
    BY <1>9 DEF Acquire
  <1>10. ASSUME NEW j \in Jobs, CheckBase(j) PROVE TypeOK'
    BY <1>10 DEF CheckBase
  <1>11. ASSUME NEW j \in Jobs, FailConflict(j) PROVE TypeOK'
    BY <1>11 DEF FailConflict
  <1>12. ASSUME NEW j \in Jobs, Checkpoint(j) PROVE TypeOK'
    <2>1. next' \in [Jobs -> Nat]
      BY <1>12 DEF Checkpoint
    <2>2. pc' \in [Jobs -> Points]
      BY <1>12 DEF Checkpoint
    <2> QED
      BY <1>12, <2>1, <2>2 DEF Checkpoint
  <1>13. ASSUME NEW j \in Jobs, PutBlob(j) PROVE TypeOK'
    BY <1>13 DEF PutBlob, Writers
  <1>14. ASSUME NEW j \in Jobs, InsertVersion(j) PROVE TypeOK'
    <2>1. [by |-> j, from |-> read[j]] \in [by : Writers, from : Nat]
      BY DEF Writers
    <2> QED
      BY <1>14, <2>1 DEF InsertVersion
  <1>15. ASSUME NEW j \in Jobs, AdvanceDocument(j) PROVE TypeOK'
    BY <1>15 DEF AdvanceDocument
  <1>16. ASSUME NEW j \in Jobs, CreateRow(j) PROVE TypeOK'
    BY <1>16 DEF CreateRow
  <1>17. ASSUME NEW j \in Jobs, FillRow(j) PROVE TypeOK'
    BY <1>17 DEF FillRow
  <1>18. ASSUME NEW j \in Jobs, Finish(j) PROVE TypeOK'
    BY <1>18 DEF Finish
  <1>19. ASSUME NEW j \in Jobs, Return(j) PROVE TypeOK'
    BY <1>19 DEF Return
  <1>20. ASSUME NEW j \in Jobs, Raise(j) PROVE TypeOK'
    BY <1>20 DEF Raise
  <1>21. ASSUME NEW j \in Jobs, MarkFailed(j) PROVE TypeOK'
    BY <1>21 DEF MarkFailed
  <1>22. ASSUME NEW j \in Jobs, Kill(j) PROVE TypeOK'
    BY <1>22 DEF Kill
  <1>23. ASSUME NEW j \in Jobs, LoseMessage(j) PROVE TypeOK'
    BY <1>23 DEF LoseMessage
  <1>24. ASSUME NEW j \in Jobs, ReapRead(j) PROVE TypeOK'
    BY <1>24 DEF ReapRead
  <1>25. ASSUME NEW j \in Jobs, ReapWrite(j) PROVE TypeOK'
    BY <1>25 DEF ReapWrite
  <1>26. CASE LockExpire
    BY <1>26 DEF LockExpire
  <1>27. CASE PurgeBlobs
    BY <1>27 DEF PurgeBlobs
  <1>28. CASE PurgeUnset
    BY <1>28 DEF PurgeUnset
  <1>29. CASE PurgeDelete
    BY <1>29 DEF PurgeDelete
  <1>30. CASE UNCHANGED vars
    BY <1>30 DEF vars
  <1> QED
    BY <1>1, <1>2, <1>3, <1>4, <1>5, <1>6, <1>7, <1>8, <1>9, <1>10, <1>11,
       <1>12, <1>13, <1>14, <1>15, <1>16, <1>17, <1>18, <1>19, <1>20, <1>21,
       <1>22, <1>23, <1>24, <1>25, <1>26, <1>27, <1>28, <1>29, <1>30
    DEF Next, Step

\* The variables of JobPipeline hold what their declarations say.
THEOREM TypeCorrect == Spec => []TypeOK
  BY TypeInit, TypeStep, PTL DEF Spec

-----------------------------------------------------------------------------
(* What is true at each point of a task.                                   *)

\* Only Acquire takes the lock, and only when it is free; a lock expires only
\* under an execution that is dead.
LEMMA LockStep ==
  ASSUME Outlasts, TypeOK, LockInv, [Next]_vars
  PROVE  LockInv'
  <1> USE NamesAssumption DEF LockInv, HoldsLock, TypeOK, Points, Body, Inside,
       Status, Active, Terminal
  <1>1. ASSUME NEW j \in Jobs, NEW b \in 0..Len(vers), Submit(j, b) PROVE LockInv'
    BY <1>1 DEF Submit
  <1>2. ASSUME NEW j \in Jobs, Enqueue(j) PROVE LockInv'  BY <1>2 DEF Enqueue
  <1>3. ASSUME NEW j \in Jobs, CancelRead(j) PROVE LockInv'  BY <1>3 DEF CancelRead
  <1>4. ASSUME NEW j \in Jobs, CancelWrite(j) PROVE LockInv'  BY <1>4 DEF CancelWrite
  <1>5. ASSUME NEW j \in Jobs, ApiCrash(j) PROVE LockInv'  BY <1>5 DEF ApiCrash
  <1>6. ASSUME NEW j \in Jobs, Deliver(j) PROVE LockInv'  BY <1>6 DEF Deliver
  <1>7. ASSUME NEW j \in Jobs, FailRedelivered(j) PROVE LockInv'  BY <1>7 DEF FailRedelivered
  <1>8. ASSUME NEW j \in Jobs, MarkRunning(j) PROVE LockInv'  BY <1>8 DEF MarkRunning
  <1>9. ASSUME NEW j \in Jobs, Acquire(j) PROVE LockInv'  BY <1>9 DEF Acquire
  <1>10. ASSUME NEW j \in Jobs, CheckBase(j) PROVE LockInv'  BY <1>10 DEF CheckBase
  <1>11. ASSUME NEW j \in Jobs, FailConflict(j) PROVE LockInv'  BY <1>11 DEF FailConflict
  <1>12. ASSUME NEW j \in Jobs, Checkpoint(j) PROVE LockInv'  BY <1>12 DEF Checkpoint
  <1>13. ASSUME NEW j \in Jobs, PutBlob(j) PROVE LockInv'  BY <1>13 DEF PutBlob
  <1>14. ASSUME NEW j \in Jobs, InsertVersion(j) PROVE LockInv'  BY <1>14 DEF InsertVersion
  <1>15. ASSUME NEW j \in Jobs, AdvanceDocument(j) PROVE LockInv'  BY <1>15 DEF AdvanceDocument
  <1>16. ASSUME NEW j \in Jobs, CreateRow(j) PROVE LockInv'  BY <1>16 DEF CreateRow
  <1>17. ASSUME NEW j \in Jobs, FillRow(j) PROVE LockInv'  BY <1>17 DEF FillRow
  <1>18. ASSUME NEW j \in Jobs, Finish(j) PROVE LockInv'  BY <1>18 DEF Finish
  <1>19. ASSUME NEW j \in Jobs, Return(j) PROVE LockInv'  BY <1>19 DEF Return
  <1>20. ASSUME NEW j \in Jobs, Raise(j) PROVE LockInv'  BY <1>20 DEF Raise
  <1>21. ASSUME NEW j \in Jobs, MarkFailed(j) PROVE LockInv'  BY <1>21 DEF MarkFailed
  <1>22. ASSUME NEW j \in Jobs, Kill(j) PROVE LockInv'  BY <1>22 DEF Kill
  <1>23. ASSUME NEW j \in Jobs, LoseMessage(j) PROVE LockInv'  BY <1>23 DEF LoseMessage
  <1>24. ASSUME NEW j \in Jobs, ReapRead(j) PROVE LockInv'  BY <1>24 DEF ReapRead
  <1>25. ASSUME NEW j \in Jobs, ReapWrite(j) PROVE LockInv'  BY <1>25 DEF ReapWrite
  <1>26. CASE LockExpire  BY <1>26 DEF LockExpire
  <1>27. CASE PurgeBlobs  BY <1>27 DEF PurgeBlobs
  <1>28. CASE PurgeUnset  BY <1>28 DEF PurgeUnset
  <1>29. CASE PurgeDelete  BY <1>29 DEF PurgeDelete
  <1>30. CASE UNCHANGED vars  BY <1>30 DEF vars
  <1> QED
    BY <1>1, <1>2, <1>3, <1>4, <1>5, <1>6, <1>7, <1>8, <1>9, <1>10, <1>11,
       <1>12, <1>13, <1>14, <1>15, <1>16, <1>17, <1>18, <1>19, <1>20, <1>21,
       <1>22, <1>23, <1>24, <1>25, <1>26, <1>27, <1>28, <1>29, <1>30
    DEF Next, Step

\* A task is past its start exactly when its row no longer says queued, and
\* nothing ever makes a row queued again.
LEMMA RowStep ==
  TypeOK /\ RowInv /\ [Next]_vars => RowInv'
  <1> SUFFICES ASSUME TypeOK, RowInv, [Next]_vars PROVE RowInv'
    OBVIOUS
  <1> USE DEF RowInv, Done, Written, TypeOK, Points, Body, Inside, Status,
       Active, Terminal
  <1>1. ASSUME NEW j \in Jobs, NEW b \in 0..Len(vers), Submit(j, b) PROVE RowInv'
    BY <1>1 DEF Submit
  <1>2. ASSUME NEW j \in Jobs, Enqueue(j) PROVE RowInv'  BY <1>2 DEF Enqueue
  <1>3. ASSUME NEW j \in Jobs, CancelRead(j) PROVE RowInv'  BY <1>3 DEF CancelRead
  <1>4. ASSUME NEW j \in Jobs, CancelWrite(j) PROVE RowInv'  BY <1>4 DEF CancelWrite
  <1>5. ASSUME NEW j \in Jobs, ApiCrash(j) PROVE RowInv'  BY <1>5 DEF ApiCrash
  <1>6. ASSUME NEW j \in Jobs, Deliver(j) PROVE RowInv'  BY <1>6 DEF Deliver
  <1>7. ASSUME NEW j \in Jobs, FailRedelivered(j) PROVE RowInv'  BY <1>7 DEF FailRedelivered
  <1>8. ASSUME NEW j \in Jobs, MarkRunning(j) PROVE RowInv'  BY <1>8 DEF MarkRunning
  <1>9. ASSUME NEW j \in Jobs, Acquire(j) PROVE RowInv'  BY <1>9 DEF Acquire
  <1>10. ASSUME NEW j \in Jobs, CheckBase(j) PROVE RowInv'  BY <1>10 DEF CheckBase
  <1>11. ASSUME NEW j \in Jobs, FailConflict(j) PROVE RowInv'  BY <1>11 DEF FailConflict
  <1>12. ASSUME NEW j \in Jobs, Checkpoint(j) PROVE RowInv'
    <2>1. /\ pc[j] = "engine" /\ UNCHANGED rowVars
          /\ \E p \in {"unlock", "put", "finish", "create"} : pc' = [pc EXCEPT ![j] = p]
      BY <1>12 DEF Checkpoint
    <2>2. pc \in [Jobs -> Points] /\ status \in [Jobs -> Status] /\ UNCHANGED vers
      BY <1>12 DEF Checkpoint
    <2> QED
      BY ONLY <2>1, <2>2, RowInv DEF RowInv, Written, Done, rowVars
  <1>13. ASSUME NEW j \in Jobs, PutBlob(j) PROVE RowInv'  BY <1>13 DEF PutBlob
  <1>14. ASSUME NEW j \in Jobs, InsertVersion(j) PROVE RowInv'  BY <1>14 DEF InsertVersion
  <1>15. ASSUME NEW j \in Jobs, AdvanceDocument(j) PROVE RowInv'  BY <1>15 DEF AdvanceDocument
  <1>16. ASSUME NEW j \in Jobs, CreateRow(j) PROVE RowInv'  BY <1>16 DEF CreateRow
  <1>17. ASSUME NEW j \in Jobs, FillRow(j) PROVE RowInv'  BY <1>17 DEF FillRow
  <1>18. ASSUME NEW j \in Jobs, Finish(j) PROVE RowInv'  BY <1>18 DEF Finish
  <1>19. ASSUME NEW j \in Jobs, Return(j) PROVE RowInv'  BY <1>19 DEF Return
  <1>20. ASSUME NEW j \in Jobs, Raise(j) PROVE RowInv'  BY <1>20 DEF Raise
  <1>21. ASSUME NEW j \in Jobs, MarkFailed(j) PROVE RowInv'  BY <1>21 DEF MarkFailed
  <1>22. ASSUME NEW j \in Jobs, Kill(j) PROVE RowInv'  BY <1>22 DEF Kill
  <1>23. ASSUME NEW j \in Jobs, LoseMessage(j) PROVE RowInv'  BY <1>23 DEF LoseMessage
  <1>24. ASSUME NEW j \in Jobs, ReapRead(j) PROVE RowInv'  BY <1>24 DEF ReapRead
  <1>25. ASSUME NEW j \in Jobs, ReapWrite(j) PROVE RowInv'  BY <1>25 DEF ReapWrite
  <1>26. CASE LockExpire  BY <1>26 DEF LockExpire
  <1>27. CASE PurgeBlobs  BY <1>27 DEF PurgeBlobs
  <1>28. CASE PurgeUnset  BY <1>28 DEF PurgeUnset
  <1>29. CASE PurgeDelete  BY <1>29 DEF PurgeDelete
  <1>30. CASE UNCHANGED vars  BY <1>30 DEF vars
  <1> QED
    BY <1>1, <1>2, <1>3, <1>4, <1>5, <1>6, <1>7, <1>8, <1>9, <1>10, <1>11,
       <1>12, <1>13, <1>14, <1>15, <1>16, <1>17, <1>18, <1>19, <1>20, <1>21,
       <1>22, <1>23, <1>24, <1>25, <1>26, <1>27, <1>28, <1>29, <1>30
    DEF Next, Step

\* Only the holder of the lock moves a live document on.
LEMMA ReadStep ==
  TypeOK /\ LockInv /\ RowInv /\ ReadInv /\ [Next]_vars => ReadInv'
  <1> SUFFICES ASSUME TypeOK, LockInv, RowInv, ReadInv, [Next]_vars PROVE ReadInv'
    OBVIOUS
  <1> USE DEF ReadInv, LockInv, RowInv, HoldsLock, TypeOK, Points, Body,
       Inside, Status, Active, Terminal
  <1>1. ASSUME NEW j \in Jobs, NEW b \in 0..Len(vers), Submit(j, b) PROVE ReadInv'
    BY <1>1 DEF Submit
  <1>2. ASSUME NEW j \in Jobs, Enqueue(j) PROVE ReadInv'  BY <1>2 DEF Enqueue
  <1>3. ASSUME NEW j \in Jobs, CancelRead(j) PROVE ReadInv'  BY <1>3 DEF CancelRead
  <1>4. ASSUME NEW j \in Jobs, CancelWrite(j) PROVE ReadInv'  BY <1>4 DEF CancelWrite
  <1>5. ASSUME NEW j \in Jobs, ApiCrash(j) PROVE ReadInv'  BY <1>5 DEF ApiCrash
  <1>6. ASSUME NEW j \in Jobs, Deliver(j) PROVE ReadInv'  BY <1>6 DEF Deliver
  <1>7. ASSUME NEW j \in Jobs, FailRedelivered(j) PROVE ReadInv'  BY <1>7 DEF FailRedelivered
  <1>8. ASSUME NEW j \in Jobs, MarkRunning(j) PROVE ReadInv'  BY <1>8 DEF MarkRunning
  <1>9. ASSUME NEW j \in Jobs, Acquire(j) PROVE ReadInv'  BY <1>9 DEF Acquire
  <1>10. ASSUME NEW j \in Jobs, CheckBase(j) PROVE ReadInv'  BY <1>10 DEF CheckBase
  <1>11. ASSUME NEW j \in Jobs, FailConflict(j) PROVE ReadInv'  BY <1>11 DEF FailConflict
  <1>12. ASSUME NEW j \in Jobs, Checkpoint(j) PROVE ReadInv'  BY <1>12 DEF Checkpoint
  <1>13. ASSUME NEW j \in Jobs, PutBlob(j) PROVE ReadInv'  BY <1>13 DEF PutBlob
  <1>14. ASSUME NEW j \in Jobs, InsertVersion(j) PROVE ReadInv'  BY <1>14 DEF InsertVersion
  <1>15. ASSUME NEW j \in Jobs, AdvanceDocument(j) PROVE ReadInv'  BY <1>15 DEF AdvanceDocument
  <1>16. ASSUME NEW j \in Jobs, CreateRow(j) PROVE ReadInv'  BY <1>16 DEF CreateRow
  <1>17. ASSUME NEW j \in Jobs, FillRow(j) PROVE ReadInv'  BY <1>17 DEF FillRow
  <1>18. ASSUME NEW j \in Jobs, Finish(j) PROVE ReadInv'  BY <1>18 DEF Finish
  <1>19. ASSUME NEW j \in Jobs, Return(j) PROVE ReadInv'  BY <1>19 DEF Return
  <1>20. ASSUME NEW j \in Jobs, Raise(j) PROVE ReadInv'  BY <1>20 DEF Raise
  <1>21. ASSUME NEW j \in Jobs, MarkFailed(j) PROVE ReadInv'  BY <1>21 DEF MarkFailed
  <1>22. ASSUME NEW j \in Jobs, Kill(j) PROVE ReadInv'  BY <1>22 DEF Kill
  <1>23. ASSUME NEW j \in Jobs, LoseMessage(j) PROVE ReadInv'  BY <1>23 DEF LoseMessage
  <1>24. ASSUME NEW j \in Jobs, ReapRead(j) PROVE ReadInv'  BY <1>24 DEF ReapRead
  <1>25. ASSUME NEW j \in Jobs, ReapWrite(j) PROVE ReadInv'  BY <1>25 DEF ReapWrite
  <1>26. CASE LockExpire  BY <1>26 DEF LockExpire
  <1>27. CASE PurgeBlobs  BY <1>27 DEF PurgeBlobs
  <1>28. CASE PurgeUnset  BY <1>28 DEF PurgeUnset
  <1>29. CASE PurgeDelete  BY <1>29 DEF PurgeDelete
  <1>30. CASE UNCHANGED vars  BY <1>30 DEF vars
  <1> QED
    BY <1>1, <1>2, <1>3, <1>4, <1>5, <1>6, <1>7, <1>8, <1>9, <1>10, <1>11,
       <1>12, <1>13, <1>14, <1>15, <1>16, <1>17, <1>18, <1>19, <1>20, <1>21,
       <1>22, <1>23, <1>24, <1>25, <1>26, <1>27, <1>28, <1>29, <1>30
    DEF Next, Step

\* Only the holder of the lock adds versions, so its seq stays free.
LEMMA SeqStep ==
  TypeOK /\ LockInv /\ ReadInv /\ SeqInv /\ [Next]_vars => SeqInv'
  <1> SUFFICES ASSUME TypeOK, LockInv, ReadInv, SeqInv, [Next]_vars PROVE SeqInv'
    OBVIOUS
  <1> USE DEF SeqInv, LockInv, ReadInv, HoldsLock, TypeOK, Points, Body,
       Inside, Status, Active, Terminal
  <1>1. ASSUME NEW j \in Jobs, NEW b \in 0..Len(vers), Submit(j, b) PROVE SeqInv'
    BY <1>1 DEF Submit
  <1>2. ASSUME NEW j \in Jobs, Enqueue(j) PROVE SeqInv'  BY <1>2 DEF Enqueue
  <1>3. ASSUME NEW j \in Jobs, CancelRead(j) PROVE SeqInv'  BY <1>3 DEF CancelRead
  <1>4. ASSUME NEW j \in Jobs, CancelWrite(j) PROVE SeqInv'  BY <1>4 DEF CancelWrite
  <1>5. ASSUME NEW j \in Jobs, ApiCrash(j) PROVE SeqInv'  BY <1>5 DEF ApiCrash
  <1>6. ASSUME NEW j \in Jobs, Deliver(j) PROVE SeqInv'  BY <1>6 DEF Deliver
  <1>7. ASSUME NEW j \in Jobs, FailRedelivered(j) PROVE SeqInv'  BY <1>7 DEF FailRedelivered
  <1>8. ASSUME NEW j \in Jobs, MarkRunning(j) PROVE SeqInv'  BY <1>8 DEF MarkRunning
  <1>9. ASSUME NEW j \in Jobs, Acquire(j) PROVE SeqInv'  BY <1>9 DEF Acquire
  <1>10. ASSUME NEW j \in Jobs, CheckBase(j) PROVE SeqInv'  BY <1>10 DEF CheckBase
  <1>11. ASSUME NEW j \in Jobs, FailConflict(j) PROVE SeqInv'  BY <1>11 DEF FailConflict
  <1>12. ASSUME NEW j \in Jobs, Checkpoint(j) PROVE SeqInv'  BY <1>12 DEF Checkpoint
  <1>13. ASSUME NEW j \in Jobs, PutBlob(j) PROVE SeqInv'  BY <1>13 DEF PutBlob
  <1>14. ASSUME NEW j \in Jobs, InsertVersion(j) PROVE SeqInv'  BY <1>14 DEF InsertVersion
  <1>15. ASSUME NEW j \in Jobs, AdvanceDocument(j) PROVE SeqInv'  BY <1>15 DEF AdvanceDocument
  <1>16. ASSUME NEW j \in Jobs, CreateRow(j) PROVE SeqInv'  BY <1>16 DEF CreateRow
  <1>17. ASSUME NEW j \in Jobs, FillRow(j) PROVE SeqInv'  BY <1>17 DEF FillRow
  <1>18. ASSUME NEW j \in Jobs, Finish(j) PROVE SeqInv'  BY <1>18 DEF Finish
  <1>19. ASSUME NEW j \in Jobs, Return(j) PROVE SeqInv'  BY <1>19 DEF Return
  <1>20. ASSUME NEW j \in Jobs, Raise(j) PROVE SeqInv'  BY <1>20 DEF Raise
  <1>21. ASSUME NEW j \in Jobs, MarkFailed(j) PROVE SeqInv'  BY <1>21 DEF MarkFailed
  <1>22. ASSUME NEW j \in Jobs, Kill(j) PROVE SeqInv'  BY <1>22 DEF Kill
  <1>23. ASSUME NEW j \in Jobs, LoseMessage(j) PROVE SeqInv'  BY <1>23 DEF LoseMessage
  <1>24. ASSUME NEW j \in Jobs, ReapRead(j) PROVE SeqInv'  BY <1>24 DEF ReapRead
  <1>25. ASSUME NEW j \in Jobs, ReapWrite(j) PROVE SeqInv'  BY <1>25 DEF ReapWrite
  <1>26. CASE LockExpire  BY <1>26 DEF LockExpire
  <1>27. CASE PurgeBlobs  BY <1>27 DEF PurgeBlobs
  <1>28. CASE PurgeUnset  BY <1>28 DEF PurgeUnset
  <1>29. CASE PurgeDelete  BY <1>29 DEF PurgeDelete
  <1>30. CASE UNCHANGED vars  BY <1>30 DEF vars
  <1> QED
    BY <1>1, <1>2, <1>3, <1>4, <1>5, <1>6, <1>7, <1>8, <1>9, <1>10, <1>11,
       <1>12, <1>13, <1>14, <1>15, <1>16, <1>17, <1>18, <1>19, <1>20, <1>21,
       <1>22, <1>23, <1>24, <1>25, <1>26, <1>27, <1>28, <1>29, <1>30
    DEF Next, Step

\* A task runs at most once past its checkpoint, so it counts from zero once.
LEMMA RowsStep ==
  TypeOK /\ LockInv /\ RowInv /\ RowsInv /\ [Next]_vars => RowsInv'
  <1> SUFFICES ASSUME TypeOK, LockInv, RowInv, RowsInv, [Next]_vars PROVE RowsInv'
    OBVIOUS
  <1> USE BatchAssumption DEF RowsInv, LockInv, RowInv, Outputs, TypeOK,
       Points, Body, Inside, Status, Active, Terminal
  <1>1. ASSUME NEW j \in Jobs, NEW b \in 0..Len(vers), Submit(j, b) PROVE RowsInv'
    BY <1>1 DEF Submit
  <1>2. ASSUME NEW j \in Jobs, Enqueue(j) PROVE RowsInv'  BY <1>2 DEF Enqueue
  <1>3. ASSUME NEW j \in Jobs, CancelRead(j) PROVE RowsInv'  BY <1>3 DEF CancelRead
  <1>4. ASSUME NEW j \in Jobs, CancelWrite(j) PROVE RowsInv'  BY <1>4 DEF CancelWrite
  <1>5. ASSUME NEW j \in Jobs, ApiCrash(j) PROVE RowsInv'  BY <1>5 DEF ApiCrash
  <1>6. ASSUME NEW j \in Jobs, Deliver(j) PROVE RowsInv'  BY <1>6 DEF Deliver
  <1>7. ASSUME NEW j \in Jobs, FailRedelivered(j) PROVE RowsInv'  BY <1>7 DEF FailRedelivered
  <1>8. ASSUME NEW j \in Jobs, MarkRunning(j) PROVE RowsInv'  BY <1>8 DEF MarkRunning
  <1>9. ASSUME NEW j \in Jobs, Acquire(j) PROVE RowsInv'  BY <1>9 DEF Acquire
  <1>10. ASSUME NEW j \in Jobs, CheckBase(j) PROVE RowsInv'  BY <1>10 DEF CheckBase
  <1>11. ASSUME NEW j \in Jobs, FailConflict(j) PROVE RowsInv'  BY <1>11 DEF FailConflict
  <1>12. ASSUME NEW j \in Jobs, Checkpoint(j) PROVE RowsInv'  BY <1>12 DEF Checkpoint
  <1>13. ASSUME NEW j \in Jobs, PutBlob(j) PROVE RowsInv'  BY <1>13 DEF PutBlob
  <1>14. ASSUME NEW j \in Jobs, InsertVersion(j) PROVE RowsInv'  BY <1>14 DEF InsertVersion
  <1>15. ASSUME NEW j \in Jobs, AdvanceDocument(j) PROVE RowsInv'  BY <1>15 DEF AdvanceDocument
  <1>16. ASSUME NEW j \in Jobs, CreateRow(j) PROVE RowsInv'  BY <1>16 DEF CreateRow
  <1>17. ASSUME NEW j \in Jobs, FillRow(j) PROVE RowsInv'  BY <1>17 DEF FillRow
  <1>18. ASSUME NEW j \in Jobs, Finish(j) PROVE RowsInv'  BY <1>18 DEF Finish
  <1>19. ASSUME NEW j \in Jobs, Return(j) PROVE RowsInv'  BY <1>19 DEF Return
  <1>20. ASSUME NEW j \in Jobs, Raise(j) PROVE RowsInv'  BY <1>20 DEF Raise
  <1>21. ASSUME NEW j \in Jobs, MarkFailed(j) PROVE RowsInv'  BY <1>21 DEF MarkFailed
  <1>22. ASSUME NEW j \in Jobs, Kill(j) PROVE RowsInv'  BY <1>22 DEF Kill
  <1>23. ASSUME NEW j \in Jobs, LoseMessage(j) PROVE RowsInv'  BY <1>23 DEF LoseMessage
  <1>24. ASSUME NEW j \in Jobs, ReapRead(j) PROVE RowsInv'  BY <1>24 DEF ReapRead
  <1>25. ASSUME NEW j \in Jobs, ReapWrite(j) PROVE RowsInv'  BY <1>25 DEF ReapWrite
  <1>26. CASE LockExpire  BY <1>26 DEF LockExpire
  <1>27. CASE PurgeBlobs  BY <1>27 DEF PurgeBlobs
  <1>28. CASE PurgeUnset  BY <1>28 DEF PurgeUnset
  <1>29. CASE PurgeDelete  BY <1>29 DEF PurgeDelete
  <1>30. CASE UNCHANGED vars  BY <1>30 DEF vars
  <1> QED
    BY <1>1, <1>2, <1>3, <1>4, <1>5, <1>6, <1>7, <1>8, <1>9, <1>10, <1>11,
       <1>12, <1>13, <1>14, <1>15, <1>16, <1>17, <1>18, <1>19, <1>20, <1>21,
       <1>22, <1>23, <1>24, <1>25, <1>26, <1>27, <1>28, <1>29, <1>30
    DEF Next, Step

-----------------------------------------------------------------------------
(* The chain.                                                              *)

\* The five kinds of step that change the document; the others leave it alone.
LEMMA ChainFrame ==
  ASSUME [Next]_vars
  PROVE  \/ UNCHANGED chainVars
         \/ \E j \in Jobs : PutBlob(j) \/ InsertVersion(j) \/ AdvanceDocument(j)
         \/ PurgeBlobs \/ PurgeUnset \/ PurgeDelete
  <1> USE DEF Submit, Enqueue, CancelRead, CancelWrite, ApiCrash, Deliver,
       FailRedelivered, MarkRunning, Acquire, CheckBase, FailConflict,
       Checkpoint, CreateRow, FillRow, Finish, Return, Raise, MarkFailed, Kill,
       LoseMessage, ReapRead, ReapWrite, LockExpire
  <1>1. ASSUME NEW j \in Jobs,
               \/ \E b \in 0..Len(vers) : Submit(j, b)
               \/ Enqueue(j) \/ CancelRead(j) \/ CancelWrite(j) \/ ApiCrash(j)
               \/ Kill(j) \/ LoseMessage(j) \/ ReapRead(j) \/ ReapWrite(j)
        PROVE  UNCHANGED chainVars
    BY <1>1
  <1>2. ASSUME NEW j \in Jobs, Step(j)
        PROVE  \/ UNCHANGED chainVars
               \/ PutBlob(j) \/ InsertVersion(j) \/ AdvanceDocument(j)
    BY <1>2 DEF Step
  <1>3. LockExpire \/ UNCHANGED vars => UNCHANGED chainVars
    BY DEF vars
  <1> QED
    BY <1>1, <1>2, <1>3 DEF Next

\* What an INSERT does to the history.
Inserted(j) ==
  /\ Len(vers) \in Nat /\ DOMAIN vers = 1..Len(vers)
  /\ Len(vers') = Len(vers) + 1 /\ DOMAIN vers' = 1..(Len(vers) + 1)
  /\ \A i \in DOMAIN vers : vers'[i] = vers[i]
  /\ vers'[Len(vers) + 1] = [by |-> j, from |-> read[j]]

LEMMA InsertFacts ==
  ASSUME TypeOK, NEW j \in Jobs, InsertVersion(j)
  PROVE  Inserted(j)
  BY DEF TypeOK, InsertVersion, Inserted

LEMMA VersStep == TypeOK /\ VersInv /\ [Next]_vars => VersInv'
  <1> SUFFICES ASSUME TypeOK, VersInv, [Next]_vars PROVE VersInv'
    OBVIOUS
  <1> USE DEF VersInv
  <1>1. CASE UNCHANGED chainVars
    BY <1>1
  <1>2. ASSUME NEW j \in Jobs, PutBlob(j) \/ AdvanceDocument(j) PROVE VersInv'
    BY <1>2 DEF PutBlob, AdvanceDocument
  <1>3. ASSUME NEW j \in Jobs, InsertVersion(j) PROVE VersInv'
    <2>1. Inserted(j)
      BY <1>3, InsertFacts
    <2>2. doc' = doc /\ doc # "gone"
      BY <1>3 DEF InsertVersion
    <2>3. Len(vers) # 0 /\ j # Ingest
      BY <2>2, NamesAssumption
    <2> QED
      BY <2>1, <2>2, <2>3 DEF Inserted
  <1>4. CASE PurgeBlobs \/ PurgeUnset \/ PurgeDelete
    BY <1>4 DEF PurgeBlobs, PurgeUnset, PurgeDelete
  <1> QED
    BY <1>1, <1>2, <1>3, <1>4, ChainFrame

LEMMA CommitStep == TypeOK /\ RowInv /\ CommitOnce /\ [Next]_vars => CommitOnce'
  <1> SUFFICES ASSUME TypeOK, RowInv, CommitOnce, [Next]_vars PROVE CommitOnce'
    OBVIOUS
  <1> USE DEF CommitOnce
  <1>1. CASE UNCHANGED chainVars
    BY <1>1
  <1>2. ASSUME NEW j \in Jobs, PutBlob(j) \/ AdvanceDocument(j) PROVE CommitOnce'
    BY <1>2 DEF PutBlob, AdvanceDocument
  <1>3. ASSUME NEW j \in Jobs, InsertVersion(j) PROVE CommitOnce'
    <2>1. Inserted(j)
      BY <1>3, InsertFacts
    <2>2. \A i \in DOMAIN vers : vers[i].by # j
      BY <1>3 DEF InsertVersion, RowInv, Done, Written
    <2> QED
      BY <2>1, <2>2 DEF Inserted
  <1>4. CASE PurgeBlobs \/ PurgeUnset \/ PurgeDelete
    BY <1>4 DEF PurgeBlobs, PurgeUnset, PurgeDelete
  <1> QED
    BY <1>1, <1>2, <1>3, <1>4, ChainFrame

LEMMA BlobStep == TypeOK /\ SeqInv /\ BlobIntact /\ [Next]_vars => BlobIntact'
  <1> SUFFICES ASSUME TypeOK, SeqInv, BlobIntact, [Next]_vars PROVE BlobIntact'
    OBVIOUS
  <1> USE DEF BlobIntact
  <1>1. CASE UNCHANGED chainVars
    BY <1>1
  <1>2. ASSUME NEW j \in Jobs, PutBlob(j) PROVE BlobIntact'
    <2>1. doc = "live" => next[j] \notin DOMAIN vers
      BY <1>2 DEF PutBlob, SeqInv, TypeOK
    <2> QED
      BY <1>2, <2>1 DEF PutBlob
  <1>3. ASSUME NEW j \in Jobs, InsertVersion(j) PROVE BlobIntact'
    <2>1. Inserted(j)
      BY <1>3, InsertFacts
    <2>2. blob' = blob /\ doc' = doc
      BY <1>3 DEF InsertVersion
    <2>3. doc = "live" => Len(vers) + 1 \in DOMAIN blob /\ blob[Len(vers) + 1] = j
      BY <1>3 DEF InsertVersion, SeqInv
    <2> QED
      BY <2>1, <2>2, <2>3 DEF Inserted
  <1>4. ASSUME NEW j \in Jobs, AdvanceDocument(j) PROVE BlobIntact'
    BY <1>4 DEF AdvanceDocument
  <1>5. CASE PurgeBlobs \/ PurgeUnset \/ PurgeDelete
    BY <1>5 DEF PurgeBlobs, PurgeUnset, PurgeDelete
  <1> QED
    BY <1>1, <1>2, <1>3, <1>4, <1>5, ChainFrame

\* A job's base version is fixed when its row is created, before it can have
\* written anything.
LEMMA BaseFrame ==
  ASSUME TypeOK, RowInv, [Next]_vars, NEW j \in Jobs, Written(j)
  PROVE  base'[j] = base[j]
  <1> USE DEF Submit, Enqueue, CancelRead, CancelWrite, ApiCrash, Deliver,
       FailRedelivered, MarkRunning, Acquire, CheckBase, FailConflict,
       Checkpoint, PutBlob, InsertVersion, AdvanceDocument, CreateRow, FillRow,
       Finish, Return, Raise, MarkFailed, Kill, LoseMessage, ReapRead, ReapWrite,
       LockExpire, PurgeBlobs, PurgeUnset, PurgeDelete
  <1>1. ASSUME NEW k \in Jobs, NEW b \in 0..Len(vers), Submit(k, b)
        PROVE  base'[j] = base[j]
    BY <1>1 DEF RowInv, TypeOK
  <1>2. ASSUME NEW k \in Jobs,
               \/ Enqueue(k) \/ CancelRead(k) \/ CancelWrite(k) \/ ApiCrash(k)
               \/ Kill(k) \/ LoseMessage(k) \/ ReapRead(k) \/ ReapWrite(k)
        PROVE  base' = base
    BY <1>2
  <1>3. ASSUME NEW k \in Jobs, Step(k) PROVE base' = base
    BY <1>3 DEF Step
  <1>4. LockExpire \/ PurgeBlobs \/ PurgeUnset \/ PurgeDelete \/ UNCHANGED vars
          => base' = base
    BY DEF vars
  <1> QED
    BY <1>1, <1>2, <1>3, <1>4 DEF Next

LEMMA BaseStep ==
  TypeOK /\ LockInv /\ RowInv /\ ReadInv /\ BaseRespected /\ [Next]_vars
    => BaseRespected'
  <1> SUFFICES ASSUME TypeOK, LockInv, RowInv, ReadInv, BaseRespected, [Next]_vars
               PROVE  BaseRespected'
    OBVIOUS
  <1>0. \A j \in Jobs : Written(j) => base'[j] = base[j]
    BY BaseFrame
  <1> USE DEF BaseRespected, Written
  <1>1. CASE UNCHANGED chainVars
    BY <1>0, <1>1
  <1>2. ASSUME NEW j \in Jobs, PutBlob(j) \/ AdvanceDocument(j) PROVE BaseRespected'
    BY <1>0, <1>2 DEF PutBlob, AdvanceDocument
  <1>3. ASSUME NEW j \in Jobs, InsertVersion(j) PROVE BaseRespected'
    <2>1. Inserted(j)
      BY <1>3, InsertFacts
    <2>2. base' = base /\ (base[j] # 0 => read[j] = base[j])
      BY <1>3 DEF InsertVersion, LockInv, ReadInv
    <2> QED
      BY <2>1, <2>2 DEF Inserted
  <1>4. CASE PurgeBlobs \/ PurgeUnset \/ PurgeDelete
    BY <1>0, <1>4 DEF PurgeBlobs, PurgeUnset, PurgeDelete
  <1> QED
    BY <1>1, <1>2, <1>3, <1>4, ChainFrame

-----------------------------------------------------------------------------
(* Where a success leads.                                                  *)

LEMMA SeqElement == ASSUME NEW S, NEW s \in Seq(S), NEW i \in 1..Len(s) PROVE s[i] \in S
  OBVIOUS

\* The history is a sequence of versions, each of which says what it was computed from.
LEMMA VersFacts ==
  ASSUME TypeOK
  PROVE  /\ Len(vers) \in Nat /\ DOMAIN vers = 1..Len(vers)
         /\ \A i \in DOMAIN vers : vers[i].from \in Nat
  <1>1. vers \in Seq([by : Writers, from : Nat])
    BY DEF TypeOK
  <1>2. Len(vers) \in Nat /\ DOMAIN vers = 1..Len(vers)
    BY <1>1
  <1>3. ASSUME NEW i \in 1..Len(vers) PROVE vers[i] \in [by : Writers, from : Nat]
    BY <1>1, SeqElement
  <1>4. {"unlock", "put", "finish", "create"} \subseteq Points
    BY DEF Points, Body, Inside
  <1> QED
    BY <1>2, <1>3, <1>4

\* A version is written with what was read of the document, which is there.
LEMMA FromStep == TypeOK /\ SeqInv /\ FromInv /\ [Next]_vars => FromInv'
  <1> SUFFICES ASSUME TypeOK, SeqInv, FromInv, [Next]_vars PROVE FromInv'
    OBVIOUS
  <1> USE DEF FromInv, TypeOK
  <1>1. ASSUME NEW j \in Jobs, NEW b \in 0..Len(vers), Submit(j, b) PROVE FromInv'
    BY <1>1 DEF Submit
  <1>2. ASSUME NEW j \in Jobs, Enqueue(j) PROVE FromInv'  BY <1>2 DEF Enqueue
  <1>3. ASSUME NEW j \in Jobs, CancelRead(j) PROVE FromInv'  BY <1>3 DEF CancelRead
  <1>4. ASSUME NEW j \in Jobs, CancelWrite(j) PROVE FromInv'  BY <1>4 DEF CancelWrite
  <1>5. ASSUME NEW j \in Jobs, ApiCrash(j) PROVE FromInv'  BY <1>5 DEF ApiCrash
  <1>6. ASSUME NEW j \in Jobs, Deliver(j) PROVE FromInv'  BY <1>6 DEF Deliver
  <1>7. ASSUME NEW j \in Jobs, FailRedelivered(j) PROVE FromInv'  BY <1>7 DEF FailRedelivered
  <1>8. ASSUME NEW j \in Jobs, MarkRunning(j) PROVE FromInv'  BY <1>8 DEF MarkRunning
  <1>9. ASSUME NEW j \in Jobs, Acquire(j) PROVE FromInv'  BY <1>9 DEF Acquire
  <1>10. ASSUME NEW j \in Jobs, CheckBase(j) PROVE FromInv'  BY <1>10 DEF CheckBase
  <1>11. ASSUME NEW j \in Jobs, FailConflict(j) PROVE FromInv'  BY <1>11 DEF FailConflict
  <1>12. ASSUME NEW j \in Jobs, Checkpoint(j) PROVE FromInv'  BY <1>12 DEF Checkpoint
  <1>13. ASSUME NEW j \in Jobs, PutBlob(j) PROVE FromInv'  BY <1>13 DEF PutBlob
  <1>14. ASSUME NEW j \in Jobs, InsertVersion(j) PROVE FromInv'
    <2>1. Inserted(j) /\ doc # "gone"
      BY <1>14, InsertFacts DEF InsertVersion
    <2>2. UNCHANGED <<cur, doc, read>> /\ read[j] <= Len(vers)
      BY <1>14, <2>1 DEF InsertVersion
    <2>3. Len(vers) \in Nat /\ DOMAIN vers = 1..Len(vers)
      OBVIOUS
    <2>4. \A i \in DOMAIN vers' : vers'[i].from < i
      <3>1. ASSUME NEW i \in DOMAIN vers PROVE vers'[i].from < i
        BY <2>1 DEF Inserted
      <3>2. vers'[Len(vers) + 1].from = read[j]
        BY <2>1 DEF Inserted
      <3> QED
        BY <2>1, <2>2, <2>3, <3>1, <3>2 DEF Inserted
    <2>5. Len(vers') = Len(vers) + 1
      BY <2>1 DEF Inserted
    <2> HIDE DEF FromInv
    <2>6. cur <= Len(vers) /\ (doc = "live" => cur # 0) /\ \A k \in Jobs : read[k] <= Len(vers)
      BY <2>1 DEF FromInv
    <2>7. cur' <= Len(vers') /\ \A k \in Jobs : read'[k] <= Len(vers')
      BY <2>2, <2>3, <2>5, <2>6
    <2> QED
      BY <2>2, <2>4, <2>6, <2>7 DEF FromInv
  <1>15. ASSUME NEW j \in Jobs, AdvanceDocument(j) PROVE FromInv'
    <2>1. doc # "gone" /\ cur' = Len(vers) /\ Len(vers) > 0 /\ UNCHANGED <<vers, doc, read>>
      BY <1>15 DEF AdvanceDocument, SeqInv
    <2> QED
      BY <2>1
  <1>16. ASSUME NEW j \in Jobs, CreateRow(j) PROVE FromInv'  BY <1>16 DEF CreateRow
  <1>17. ASSUME NEW j \in Jobs, FillRow(j) PROVE FromInv'  BY <1>17 DEF FillRow
  <1>18. ASSUME NEW j \in Jobs, Finish(j) PROVE FromInv'  BY <1>18 DEF Finish
  <1>19. ASSUME NEW j \in Jobs, Return(j) PROVE FromInv'  BY <1>19 DEF Return
  <1>20. ASSUME NEW j \in Jobs, Raise(j) PROVE FromInv'  BY <1>20 DEF Raise
  <1>21. ASSUME NEW j \in Jobs, MarkFailed(j) PROVE FromInv'  BY <1>21 DEF MarkFailed
  <1>22. ASSUME NEW j \in Jobs, Kill(j) PROVE FromInv'  BY <1>22 DEF Kill
  <1>23. ASSUME NEW j \in Jobs, LoseMessage(j) PROVE FromInv'  BY <1>23 DEF LoseMessage
  <1>24. ASSUME NEW j \in Jobs, ReapRead(j) PROVE FromInv'  BY <1>24 DEF ReapRead
  <1>25. ASSUME NEW j \in Jobs, ReapWrite(j) PROVE FromInv'  BY <1>25 DEF ReapWrite
  <1>26. CASE LockExpire  BY <1>26 DEF LockExpire
  <1>27. CASE PurgeBlobs  BY <1>27 DEF PurgeBlobs
  <1>28. CASE PurgeUnset  BY <1>28 DEF PurgeUnset
  <1>29. CASE PurgeDelete  BY <1>29 DEF PurgeDelete
  <1>30. CASE UNCHANGED vars  BY <1>30 DEF vars
  <1> QED
    BY <1>1, <1>2, <1>3, <1>4, <1>5, <1>6, <1>7, <1>8, <1>9, <1>10, <1>11,
       <1>12, <1>13, <1>14, <1>15, <1>16, <1>17, <1>18, <1>19, <1>20, <1>21,
       <1>22, <1>23, <1>24, <1>25, <1>26, <1>27, <1>28, <1>29, <1>30
    DEF Next, Step

\* What the current version came of, a later one comes of too: whoever inserts a version only
\* adds one after it,
LEMMA PartOfInsert ==
  ASSUME TypeOK, FromInv, NEW j \in Jobs, InsertVersion(j), NEW k \in Jobs, PartOf(k)
  PROVE  PartOf(k)'
  <1>1. Inserted(j) /\ UNCHANGED cur
    BY InsertFacts DEF InsertVersion
  <1>2. cur <= Len(vers)
    BY DEF FromInv, InsertVersion
  <1> SUFFICES ASSUME NEW C \in SUBSET (DOMAIN vers'), cur \in C, Looks(C)'
               PROVE  \E i \in C : vers'[i].by = k
    BY <1>1 DEF PartOf
  <1> DEFINE D == C \cap DOMAIN vers
  <1>3. cur \in D
    BY <1>1, <1>2 DEF Inserted
  <1>4. Looks(D)
    <2> SUFFICES ASSUME NEW i \in D, vers[i].from # 0 PROVE vers[i].from \in D
      BY DEF Looks
    <2>1. vers'[i] = vers[i] /\ vers[i].from < i /\ i \in 1..Len(vers)
      BY <1>1 DEF Inserted, FromInv
    <2>2. vers[i].from \in C
      BY <2>1 DEF Looks
    <2>3. vers[i].from \in Nat
      BY <2>1, VersFacts
    <2> QED
      BY <1>1, <2>1, <2>2, <2>3 DEF Inserted
  <1>5. PICK i \in D : vers[i].by = k
    BY <1>3, <1>4 DEF PartOf
  <1> QED
    BY <1>1, <1>5 DEF Inserted

\* and whoever advances the document goes on from the current one to one of his own.
LEMMA PartOfAdvance ==
  ASSUME TypeOK, SeqInv, FromInv, DeliveredInv, doc = "live",
         NEW j \in Jobs, AdvanceDocument(j), NEW k \in Jobs, PartOf(k) \/ k = j
  PROVE  PartOf(k)'
  <1>1. /\ pc[j] = "advance" /\ cur' = Len(vers) /\ Len(vers) > 0 /\ UNCHANGED vers
        /\ vers[Len(vers)].from = cur /\ vers[Len(vers)].by = j
    BY DEF AdvanceDocument, SeqInv, DeliveredInv
  <1> SUFFICES ASSUME NEW C \in SUBSET (DOMAIN vers), Len(vers) \in C, Looks(C)
               PROVE  \E i \in C : vers[i].by = k
    BY <1>1 DEF PartOf, Looks
  <1>2. CASE k = j
    BY <1>1, <1>2
  <1>3. CASE PartOf(k)
    <2>1. cur \in C
      BY <1>1 DEF Looks, FromInv
    <2> QED
      BY <1>3, <2>1 DEF PartOf
  <1> QED
    BY <1>2, <1>3

\* Only a report goes from the checkpoint to its end.
LEMMA CheckpointFacts ==
  ASSUME TypeOK, NEW j \in Jobs, Checkpoint(j)
  PROVE  pc'[j] \in {"unlock", "put", "create"} \/ (pc'[j] = "finish" /\ kind[j] = "report")
  <1>1. pc \in [Jobs -> Points]
    BY DEF TypeOK
  <1> QED
    BY <1>1 DEF Checkpoint

\* So it stays, as long as the document is there.
LEMMA PartOfStep ==
  ASSUME TypeOK, SeqInv, FromInv, DeliveredInv, [Next]_vars, doc' = "live",
         NEW k \in Jobs, PartOf(k)
  PROVE  PartOf(k)'
  <1>1. CASE UNCHANGED chainVars
    BY <1>1 DEF PartOf, Looks
  <1>2. ASSUME NEW j \in Jobs, PutBlob(j) PROVE PartOf(k)'
    BY <1>2 DEF PutBlob, PartOf, Looks
  <1>3. ASSUME NEW j \in Jobs, InsertVersion(j) PROVE PartOf(k)'
    BY <1>3, PartOfInsert
  <1>4. ASSUME NEW j \in Jobs, AdvanceDocument(j) PROVE PartOf(k)'
    BY <1>4, PartOfAdvance DEF AdvanceDocument
  <1>5. CASE PurgeBlobs \/ PurgeUnset \/ PurgeDelete
    BY <1>5 DEF PurgeBlobs, PurgeUnset, PurgeDelete
  <1> QED
    BY <1>1, <1>2, <1>3, <1>4, <1>5, ChainFrame

\* Whoever reports a success has come from where it was delivered, and nobody starts again
\* after one.
LEMMA DeliveredStep ==
  ASSUME TypeOK, LockInv, RowInv, SeqInv, RowsInv, FromInv, DeliveredInv, [Next]_vars
  PROVE  DeliveredInv'
  <1>0. ASSUME NEW k \in Jobs, PartOf(k), doc' = "live" PROVE PartOf(k)'
    BY <1>0, PartOfStep
  <1> USE BatchAssumption, <1>0 DEF DeliveredInv, LockInv, RowInv, RowsInv, TypeOK, HoldsLock,
       Outputs, Points, Body, Inside, Status, Active, Terminal
  <1>1. ASSUME NEW j \in Jobs, NEW b \in 0..Len(vers), Submit(j, b) PROVE DeliveredInv'
    BY <1>1 DEF Submit
  <1>2. ASSUME NEW j \in Jobs, Enqueue(j) PROVE DeliveredInv'  BY <1>2 DEF Enqueue
  <1>3. ASSUME NEW j \in Jobs, CancelRead(j) PROVE DeliveredInv'  BY <1>3 DEF CancelRead
  <1>4. ASSUME NEW j \in Jobs, CancelWrite(j) PROVE DeliveredInv'  BY <1>4 DEF CancelWrite
  <1>5. ASSUME NEW j \in Jobs, ApiCrash(j) PROVE DeliveredInv'  BY <1>5 DEF ApiCrash
  <1>6. ASSUME NEW j \in Jobs, Deliver(j) PROVE DeliveredInv'  BY <1>6 DEF Deliver
  <1>7. ASSUME NEW j \in Jobs, FailRedelivered(j) PROVE DeliveredInv'  BY <1>7 DEF FailRedelivered
  <1>8. ASSUME NEW j \in Jobs, MarkRunning(j) PROVE DeliveredInv'  BY <1>8 DEF MarkRunning
  <1>9. ASSUME NEW j \in Jobs, Acquire(j) PROVE DeliveredInv'  BY <1>9 DEF Acquire
  <1>10. ASSUME NEW j \in Jobs, CheckBase(j) PROVE DeliveredInv'  BY <1>10 DEF CheckBase
  <1>11. ASSUME NEW j \in Jobs, FailConflict(j) PROVE DeliveredInv'  BY <1>11 DEF FailConflict
  <1>12. ASSUME NEW j \in Jobs, Checkpoint(j) PROVE DeliveredInv'
    <2>1. /\ pc[j] = "engine" /\ UNCHANGED <<status, kind, rows, ready, vers, doc, cur>>
          /\ \A k \in Jobs : k # j => pc'[k] = pc[k]
      BY <1>12 DEF Checkpoint
    <2>2. pc'[j] \in {"unlock", "put", "create"} \/ (pc'[j] = "finish" /\ kind[j] = "report")
      BY <1>12, CheckpointFacts
    <2>3. vers' = vers /\ kind[j] \in Kinds /\ status[j] # "succeeded"
      BY <2>1
    <2> QED
      BY <2>1, <2>2, <2>3
  <1>13. ASSUME NEW j \in Jobs, PutBlob(j) PROVE DeliveredInv'  BY <1>13 DEF PutBlob
  <1>14. ASSUME NEW j \in Jobs, InsertVersion(j) PROVE DeliveredInv'
    <2>1. Inserted(j)
      BY <1>14, InsertFacts
    <2> QED
      BY <1>14, <2>1 DEF InsertVersion, Inserted
  <1>15. ASSUME NEW j \in Jobs, AdvanceDocument(j) PROVE DeliveredInv'
    <2>1. doc = "live" => PartOf(j)'
      BY <1>15, PartOfAdvance
    <2>2. kind[j] = "version"
      BY <1>15 DEF AdvanceDocument
    <2> QED
      BY <1>15, <2>1, <2>2 DEF AdvanceDocument
  <1>16. ASSUME NEW j \in Jobs, CreateRow(j) PROVE DeliveredInv'  BY <1>16 DEF CreateRow
  <1>17. ASSUME NEW j \in Jobs, FillRow(j) PROVE DeliveredInv'  BY <1>17 DEF FillRow
  <1>18. ASSUME NEW j \in Jobs, Finish(j) PROVE DeliveredInv'  BY <1>18 DEF Finish
  <1>19. ASSUME NEW j \in Jobs, Return(j) PROVE DeliveredInv'  BY <1>19 DEF Return
  <1>20. ASSUME NEW j \in Jobs, Raise(j) PROVE DeliveredInv'  BY <1>20 DEF Raise
  <1>21. ASSUME NEW j \in Jobs, MarkFailed(j) PROVE DeliveredInv'  BY <1>21 DEF MarkFailed
  <1>22. ASSUME NEW j \in Jobs, Kill(j) PROVE DeliveredInv'  BY <1>22 DEF Kill
  <1>23. ASSUME NEW j \in Jobs, LoseMessage(j) PROVE DeliveredInv'  BY <1>23 DEF LoseMessage
  <1>24. ASSUME NEW j \in Jobs, ReapRead(j) PROVE DeliveredInv'  BY <1>24 DEF ReapRead
  <1>25. ASSUME NEW j \in Jobs, ReapWrite(j) PROVE DeliveredInv'  BY <1>25 DEF ReapWrite
  <1>26. CASE LockExpire  BY <1>26 DEF LockExpire
  <1>27. CASE PurgeBlobs  BY <1>27 DEF PurgeBlobs
  <1>28. CASE PurgeUnset  BY <1>28 DEF PurgeUnset
  <1>29. CASE PurgeDelete  BY <1>29 DEF PurgeDelete
  <1>30. CASE UNCHANGED vars  BY <1>30 DEF vars
  <1> QED
    BY <1>1, <1>2, <1>3, <1>4, <1>5, <1>6, <1>7, <1>8, <1>9, <1>10, <1>11,
       <1>12, <1>13, <1>14, <1>15, <1>16, <1>17, <1>18, <1>19, <1>20, <1>21,
       <1>22, <1>23, <1>24, <1>25, <1>26, <1>27, <1>28, <1>29, <1>30
    DEF Next, Step

\* The least of some numbers.
LEMMA Least == ASSUME NEW S \in SUBSET Nat, S # {} PROVE \E m \in S : \A k \in S : m <= k
  <1>1. PICK m \in S : \A k \in S : <<k, m>> \notin OpToRel(<, Nat)
    BY WFMin, NatLessThanWellFounded, Zenon
  <1>2. \A k \in S : ~ (k < m)
    BY <1>1, Zenon DEF OpToRel
  <1> QED
    BY <1>2

\* Lineage is defined by a recursion, which has a solution: the versions that are in every set
\* one gets by looking back from the one in question.
Backwards(f) == f = [i \in 0..Len(vers) |-> IF i = 0 THEN {} ELSE {i} \cup f[vers[i].from]]
LEMMA LineageIs ==
  ASSUME TypeOK, FromInv
  PROVE  \E f : Backwards(f) /\ Lineage = f[cur]
  <1>0. DOMAIN vers = 1..Len(vers) /\ Len(vers) \in Nat
        /\ \A i \in 1..Len(vers) : vers[i].from \in 0..Len(vers) /\ vers[i].from < i
    BY VersFacts DEF FromInv
  <1> DEFINE Around(i) == {C \in SUBSET (DOMAIN vers) : i \in C /\ Looks(C)}
             Of(i) == {k \in DOMAIN vers : \A C \in Around(i) : k \in C}
             g == [i \in 0..Len(vers) |-> IF i = 0 THEN {} ELSE Of(i)]
  <1>1. ASSUME NEW i \in 1..Len(vers) PROVE Looks(Of(i)) /\ i \in Of(i)
    BY <1>0 DEF Looks
  <1>2. ASSUME NEW i \in 1..Len(vers) PROVE Of(i) = {i} \cup g[vers[i].from]
    <2> DEFINE p == vers[i].from
    <2>1. CASE p = 0
      <3>1. {i} \in Around(i)
        BY <1>0, <2>1 DEF Looks
      <3>2. g[p] = {}
        BY <1>0, <2>1
      <3> QED
        BY <1>1, <3>1, <3>2
    <2>2. CASE p # 0
      <3>1. p \in 1..Len(vers) /\ g[p] = Of(p)
        BY <1>0, <2>2
      <3> HIDE DEF g
      <3>2. Around(i) \subseteq Around(p)
        BY <2>2 DEF Looks
      <3>3. Of(p) \subseteq Of(i)
        BY <3>2
      <3>4. {i} \cup Of(p) \in Around(i)
        <4>1. Looks(Of(p)) /\ p \in Of(p)
          BY <1>1, <3>1
        <4>2. {i} \cup Of(p) \in SUBSET (DOMAIN vers)
          BY <1>0
        <4> HIDE DEF Of
        <4>3. Looks({i} \cup Of(p))
          BY <4>1 DEF Looks
        <4> QED
          BY <4>2, <4>3
      <3>5. Of(i) \subseteq {i} \cup Of(p)
        BY <3>4
      <3> QED
        BY <1>1, <3>1, <3>3, <3>5
    <2> QED
      BY <2>1, <2>2
  <1> HIDE DEF Of
  <1>3. g = [i \in 0..Len(vers) |-> IF i = 0 THEN {} ELSE {i} \cup g[vers[i].from]]
    <2>1. \A i \in 0..Len(vers) : i # 0 => i \in 1..Len(vers)
      BY <1>0
    <2> QED
      BY <1>2, <2>1
  <1> HIDE DEF g
  <1>4. Backwards(g)
    BY <1>3 DEF Backwards
  <1>5. Backwards(CHOOSE f : Backwards(f))
    BY <1>4
  <1>6. Lineage = (CHOOSE f : Backwards(f))[cur]
    BY DEF Lineage, Backwards
  <1> QED
    BY <1>5, <1>6

\* It is a set of versions that holds the current one and, with each, what it was computed from.
LEMMA LineageLooks ==
  ASSUME TypeOK, FromInv, doc = "live"
  PROVE  Lineage \in SUBSET (DOMAIN vers) /\ cur \in Lineage /\ Looks(Lineage)
  <1>1. PICK f : Backwards(f) /\ Lineage = f[cur]
    BY LineageIs
  <1>2. /\ Len(vers) \in Nat /\ DOMAIN vers = 1..Len(vers) /\ cur \in 1..Len(vers)
        /\ \A i \in 1..Len(vers) : vers[i].from \in Nat /\ vers[i].from < i
    <2>1. cur \in Nat
      BY DEF TypeOK
    <2> QED
      BY <2>1, VersFacts DEF FromInv
  <1>3. f[0] = {} /\ \A i \in 1..Len(vers) : f[i] = {i} \cup f[vers[i].from]
    BY <1>1, <1>2 DEF Backwards
  <1> DEFINE Good(i) == f[i] \in SUBSET (DOMAIN vers) /\ Looks(f[i])
             Bad == {i \in 0..Len(vers) : ~Good(i)}
  <1>4. Bad = {}
    <2> SUFFICES ASSUME Bad # {} PROVE FALSE
      OBVIOUS
    <2>1. PICK m \in Bad : \A k \in Bad : m <= k
      <3>1. Bad \in SUBSET Nat
        BY <1>2
      <3> HIDE DEF Bad
      <3> QED
        BY <3>1, Least
    <2>2. m # 0
      BY <1>3, <2>1 DEF Looks
    <2> DEFINE p == vers[m].from
    <2>3. m \in 1..Len(vers) /\ p \in 0..Len(vers) /\ p < m
      BY <1>2, <2>1, <2>2
    <2>4. Good(p)
      BY <1>2, <2>1, <2>3
    <2>5. f[m] = {m} \cup f[p] /\ (p # 0 => p \in f[p])
      <3>1. p # 0 => p \in 1..Len(vers)
        BY <2>3
      <3> QED
        BY <1>3, <2>3, <3>1
    <2>6. f[m] \in SUBSET (DOMAIN vers)
      BY <1>2, <2>3, <2>4, <2>5
    <2>7. Looks(f[m])
      BY <2>4, <2>5 DEF Looks
    <2> QED
      BY <2>1, <2>6, <2>7
  <1>5. Good(cur)
    BY <1>2, <1>4
  <1>6. cur \in f[cur]
    BY <1>2, <1>3
  <1> QED
    BY <1>1, <1>5, <1>6

-----------------------------------------------------------------------------
(* The invariants, put together.                                           *)

LEMMA InvInit == Init => IInv
  <1> SUFFICES ASSUME Init PROVE IInv
    OBVIOUS
  <1>1. TypeOK
    BY TypeInit
  <1>2. DOMAIN vers = {1} /\ Len(vers) = 1 /\ vers[1].by = Ingest
    BY DEF Init
  <1>3. LockInv /\ ReadInv /\ SeqInv
    BY DEF Init, LockInv, ReadInv, SeqInv, HoldsLock, Inside
  <1>4. RowInv
    BY <1>2, NamesAssumption DEF Init, RowInv, Written
  <1>5. VersInv /\ CommitOnce /\ BaseRespected
    BY <1>2, NamesAssumption DEF VersInv, CommitOnce, BaseRespected
  <1>6. BlobIntact
    BY <1>2 DEF Init, BlobIntact
  <1>7. RowsInv
    BY BatchAssumption DEF Init, RowsInv, Outputs
  <1>8. FromInv /\ DeliveredInv
    BY <1>2, NamesAssumption DEF Init, FromInv, DeliveredInv
  <1> QED
    BY <1>1, <1>3, <1>4, <1>5, <1>6, <1>7, <1>8 DEF IInv

LEMMA InvStep == Outlasts /\ IInv /\ [Next]_vars => IInv'
  BY TypeStep, LockStep, RowStep, ReadStep, SeqStep, RowsStep, VersStep,
     FromStep, DeliveredStep, CommitStep, BlobStep, BaseStep DEF IInv

\* The inductive invariant: where the lock is, what a row's status says about
\* its task, and what a task knows of the document, at each program point.
THEOREM InvCorrect == ASSUME Outlasts PROVE Spec => []IInv
  BY InvInit, InvStep, PTL DEF Spec

\* Whatever is killed, redelivered, reaped or canceled, a job records at most
\* one version.
THEOREM CommitsOnce == ASSUME Outlasts PROVE Spec => []CommitOnce
  <1>1. IInv => CommitOnce
    BY DEF IInv
  <1> QED
    BY <1>1, InvCorrect, PTL

\* Every version row of a document that is not being deleted has the bytes its
\* own job wrote.
THEOREM BlobsIntact == ASSUME Outlasts PROVE Spec => []BlobIntact
  <1>1. IInv => BlobIntact
    BY DEF IInv
  <1> QED
    BY <1>1, InvCorrect, PTL

\* An edit is applied to the version it was made against, or not at all.
THEOREM BasesRespected == ASSUME Outlasts PROVE Spec => []BaseRespected
  <1>1. IInv => BaseRespected
    BY DEF IInv
  <1> QED
    BY <1>1, InvCorrect, PTL

\* A split or a merge never produces more than its outputs.
THEOREM OutputsProducedOnce == ASSUME Outlasts PROVE Spec => []OutputsOnce
  <1>1. IInv => OutputsOnce
    BY DEF IInv, RowsInv, OutputsOnce
  <1> QED
    BY <1>1, InvCorrect, PTL

\* A job reported as succeeded has delivered: the current version came of its version, or its
\* documents are all there.
THEOREM DeliveredCorrect == ASSUME Outlasts PROVE Spec => []SucceededDelivered
  <1>1. IInv => SucceededDelivered
    <2> SUFFICES ASSUME IInv, NEW j \in Jobs, status[j] = "succeeded"
                 PROVE  CASE kind[j] = "version" ->
                               doc = "live" => \E i \in Lineage : vers[i].by = j
                          [] kind[j] = "report"  -> TRUE
                          [] OTHER -> ready[j] = Outputs(j) /\ rows[j] = Outputs(j)
      BY DEF SucceededDelivered
    <2>1. CASE kind[j] = "version"
      <3>1. ASSUME doc = "live" PROVE \E i \in Lineage : vers[i].by = j
        BY <2>1, <3>1, LineageLooks DEF IInv, DeliveredInv, PartOf
      <3> QED
        BY <2>1, <3>1
    <2>2. CASE kind[j] = "report"
      BY <2>2
    <2>3. CASE kind[j] \in {"split", "merge"}
      BY <2>3 DEF IInv, DeliveredInv
    <2>4. kind[j] \in {"version", "report", "split", "merge"}
      BY KindsAssumption DEF IInv, TypeOK
    <2> QED
      BY <2>1, <2>2, <2>3, <2>4
  <1> QED
    BY <1>1, InvCorrect, PTL

-----------------------------------------------------------------------------
(* The steps.                                                              *)

\* Under IInv the document moves on only to a version computed from the
\* one it replaces.
LEMMA AdvanceFacts ==
  ASSUME IInv, NEW j \in Jobs, AdvanceDocument(j), doc = "live"
  PROVE  /\ cur' = Len(vers) /\ Len(vers) \in Nat \ {0}
         /\ vers[Len(vers)].from = cur /\ UNCHANGED <<vers, doc>>
  BY DEF IInv, AdvanceDocument, SeqInv, TypeOK

\* No update of the document is lost: each new current version was computed
\* from the current version it replaces.
THEOREM NoUpdateLost == ASSUME Outlasts PROVE Spec => NoLostUpdate
  <1>1. ASSUME IInv, [Next]_vars, doc' = "live", cur' # cur
        PROVE  vers'[cur'].from = cur
    <2>1. CASE UNCHANGED chainVars
      BY <1>1, <2>1
    <2>2. ASSUME NEW j \in Jobs, PutBlob(j) \/ InsertVersion(j)
          PROVE  FALSE
      BY <1>1, <2>2 DEF PutBlob, InsertVersion
    <2>3. ASSUME NEW j \in Jobs, AdvanceDocument(j)
          PROVE  vers'[cur'].from = cur
      <3>1. doc = "live"
        BY <1>1, <2>3 DEF AdvanceDocument
      <3> QED
        BY <1>1, <2>3, <3>1, AdvanceFacts
    <2>4. CASE PurgeBlobs \/ PurgeUnset \/ PurgeDelete
      BY <1>1, <2>4 DEF PurgeBlobs, PurgeUnset, PurgeDelete
    <2> QED
      BY <1>1, <2>1, <2>2, <2>3, <2>4, ChainFrame
  <1>2. IInv /\ [Next]_vars
          => [doc' = "live" /\ cur' # cur => vers'[cur'].from = cur]_vars
    BY <1>1
  <1> QED
    BY <1>2, InvCorrect, PTL DEF Spec, NoLostUpdate

-----------------------------------------------------------------------------
(* The refinement.                                                         *)

LEMMA ChainInitMaps == Init => Chain!Init
  BY DEF Init, Chain!Init, Writers

LEMMA ChainStepMaps == IInv /\ [Next]_vars => [Chain!Next]_Chain!chain
  <1> SUFFICES ASSUME IInv, [Next]_vars PROVE [Chain!Next]_Chain!chain
    OBVIOUS
  <1> USE DEF Chain!chain
  <1>1. CASE UNCHANGED chainVars
    BY <1>1
  <1>2. ASSUME NEW j \in Jobs, PutBlob(j) PROVE UNCHANGED Chain!chain
    BY <1>2 DEF PutBlob
  <1>3. ASSUME NEW j \in Jobs, InsertVersion(j) PROVE [Chain!Next]_Chain!chain
    <2>1. CASE doc = "live"
      <3>1. /\ vers' = Append(vers, [by |-> j, from |-> cur])
            /\ cur' = cur /\ doc' = doc
        BY <1>3, <2>1 DEF InsertVersion, IInv, ReadInv, LockInv
      <3>2. Chain!Record(j)
        BY <2>1, <3>1 DEF Chain!Record
      <3> QED
        BY <3>2 DEF Chain!Next, Writers
    <2>2. CASE doc # "live"
      BY <1>3, <2>2 DEF InsertVersion
    <2> QED
      BY <2>1, <2>2
  <1>4. ASSUME NEW j \in Jobs, AdvanceDocument(j) PROVE [Chain!Next]_Chain!chain
    <2>1. CASE doc = "live"
      <3>1. Chain!Advance
        BY <1>4, <2>1, AdvanceFacts DEF Chain!Advance
      <3> QED
        BY <3>1 DEF Chain!Next
    <2>2. CASE doc # "live"
      BY <1>4, <2>2 DEF AdvanceDocument
    <2> QED
      BY <2>1, <2>2
  <1>5. CASE PurgeBlobs
    <2>1. Chain!Erase
      BY <1>5 DEF PurgeBlobs, Chain!Erase
    <2> QED
      BY <2>1 DEF Chain!Next
  <1>6. CASE PurgeUnset \/ PurgeDelete
    BY <1>6 DEF PurgeUnset, PurgeDelete
  <1> QED
    BY <1>1, <1>2, <1>3, <1>4, <1>5, <1>6, ChainFrame

\* The pipeline implements the chain of versions: with all its workers, kills,
\* redeliveries and sweeps, a document's history is a chain.
THEOREM ImplementsVersionChain == ASSUME Outlasts PROVE Spec => ChainSpec
  BY ChainInitMaps, ChainStepMaps, InvCorrect, PTL DEF Spec, ChainSpec, Chain!Spec
=============================================================================
