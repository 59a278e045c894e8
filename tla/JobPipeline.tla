---------------------------- MODULE JobPipeline -----------------------------
(***************************************************************************)
(* The asynchronous operations on ONE document: the API view that creates  *)
(* a Job row and enqueues its Celery task, the worker that runs the task,  *)
(* the cancel view, the sweep that reaps stalled jobs, and the purge that  *)
(* deletes the document.  Nothing here runs in a transaction (autocommit), *)
(* so each database statement, lock call and blob write is a step of its   *)
(* own, and a worker may be killed between any two of them.                *)
(*                                                                         *)
(* The message of a job is acknowledged late and rejected when its worker  *)
(* is lost, so a killed execution is delivered again; one message has at   *)
(* most one live execution, so the worker's state is kept per job.         *)
(*                                                                         *)
(* A definition named X_Y is X with the slip its comment names, put in the *)
(* place of X to see that a property notices; no action uses it.           *)
(***************************************************************************)
EXTENDS Naturals, Sequences, FiniteSets

CONSTANTS Jobs,         \* job ids; each is created at most once
          Kinds,        \* what the operations on offer yield
          Ingest,       \* the writer of version 1
          NoJob,        \* "nobody": a free lock
          Batch,        \* how many documents a "split" produces
          ReapLive,     \* may the sweep reap a job whose worker is alive?
          HardLimit,    \* --time-limit of the worker that runs the lane
          LaneLimit,    \* LANE_TIME_LIMITS[lane]: what the code believes it is
          TimeLimit,    \* CELERY_TASK_TIME_LIMIT
          DocLockTTL    \* DOC_LOCK_TTL

ASSUME NamesAssumption == Ingest \notin Jobs /\ NoJob \notin Jobs /\ Ingest # NoJob
ASSUME KindsAssumption == Kinds \subseteq {"version", "report", "split", "merge"}
ASSUME BatchAssumption == Batch \in Nat \ {0}
ASSUME ReapAssumption  == ReapLive \in BOOLEAN
ASSUME LimitAssumption == {HardLimit, LaneLimit, TimeLimit, DocLockTTL} \subseteq Nat

VARIABLES
  status,   \* Job.status; "none" before the row exists
  kind,     \* what the operation of the job yields, fixed by its type
  base,     \* Job.base_version_seq; 0 for null
  msg,      \* the job's message at the broker
  pc,       \* where the live execution of the job's task is
  read,     \* the seq of the current version the execution read
  next,     \* the seq the execution is about to record
  rows,     \* new Document rows the job has created
  ready,    \* how many of those have their version 1
  lock,     \* holder of the Redis lock zen:doc:{id}
  vers,     \* DocumentVersion rows of the document, indexed by seq
  cur,      \* Document.current_version, as a seq; 0 for null
  blob,     \* storage: who wrote docs/{id}/v{seq}.pdf, for each key present
  doc,      \* how far a hard delete of the document has come
  api,      \* the API request under way about the job, if any
  reap      \* rows the stall sweep has read and is about to fail

rowVars   == <<status, kind, base>>
outVars   == <<rows, ready>>
chainVars == <<vers, cur, blob, doc>>
vars == <<status, kind, base, msg, pc, read, next, rows, ready, lock,
          vers, cur, blob, doc, api, reap>>

Terminal == {"succeeded", "failed", "canceled"}
Active   == {"queued", "running"}
Status   == {"none"} \cup Active \cup Terminal
Writers  == Jobs \cup {Ingest}

\* Program points of a task between marking its job running and returning.
\* From "locked" to "unlock" a single-document task is inside doc_lock.
Inside == {"locked", "conflict", "engine", "put", "insert", "advance",
           "create", "fill", "finish", "unlock"}
Body   == Inside \cup {"wait", "fail"}
Points == Body \cup {"idle", "start", "dup"}

\* A merge takes no document lock.
HoldsLock(j) == kind[j] # "merge" /\ pc[j] \in Inside
Outputs(j)   == IF kind[j] = "split" THEN Batch ELSE 1

At(j, p)   == pc[j] = p
Goto(j, p) == pc' = [pc EXCEPT ![j] = p]
Mark(j, s) == status' = [status EXCEPT ![j] = s]

\* lock_ttl_for(lane): the lane's limit plus the margin the default TTL has.
Margin  == IF DocLockTTL > TimeLimit THEN DocLockTTL - TimeLimit ELSE 0
LockTTL == IF LaneLimit + Margin < DocLockTTL THEN LaneLimit + Margin ELSE DocLockTTL

\* "The TTL must outlast the longest op" (settings): so it does under the
\* worker commands of infra/docker-compose.yml.
Outlasts == HardLimit < LockTTL

\* lock.release() of the lock j holds; the token of a lock j no longer holds
\* does not match and the error is suppressed.
Release(j) == lock' = IF lock = j THEN NoJob ELSE lock

\* The execution is over; what it had read and computed goes with it.
Stop(j, p) == /\ Goto(j, p)
              /\ read' = [read EXCEPT ![j] = 0]
              /\ next' = [next EXCEPT ![j] = 0]

-----------------------------------------------------------------------------
Init ==
  /\ status = [j \in Jobs |-> "none"]
  /\ kind \in [Jobs -> Kinds]
  /\ base = [j \in Jobs |-> 0]
  /\ msg = [j \in Jobs |-> "absent"]
  /\ pc = [j \in Jobs |-> "idle"]
  /\ read = [j \in Jobs |-> 0]
  /\ next = [j \in Jobs |-> 0]
  /\ rows = [j \in Jobs |-> 0]
  /\ ready = [j \in Jobs |-> 0]
  /\ lock = NoJob
  /\ vers = <<[by |-> Ingest, from |-> 0]>>
  /\ cur = 1
  /\ blob = [i \in {1} |-> Ingest]
  /\ doc = "live"
  /\ api = [j \in Jobs |-> "idle"]
  /\ reap = {}

-----------------------------------------------------------------------------
(* The API.  A request may die between any two of its statements.          *)

\* The operation, revert and cross-document views create the row.  A client
\* sends the seq it is looking at, which may be stale by now, or none.
Submit(j, b) ==
  /\ status[j] = "none" /\ doc # "gone"
  /\ kind[j] = "merge" => b = 0
  /\ Mark(j, "queued")
  /\ base' = [base EXCEPT ![j] = b]
  /\ api' = [api EXCEPT ![j] = "enqueue"]
  /\ UNCHANGED <<kind, msg, pc, read, next, outVars, lock, chainVars, reap>>

Enqueue(j) ==
  /\ api[j] = "enqueue"
  /\ api' = [api EXCEPT ![j] = "idle"]
  /\ msg' = [msg EXCEPT ![j] = "queued"]
  /\ UNCHANGED <<rowVars, pc, read, next, outVars, lock, chainVars, reap>>

\* JobCancelView reads the row, then writes it.
CancelRead(j) ==
  /\ api[j] = "idle" /\ status[j] \in Active
  /\ api' = [api EXCEPT ![j] = IF status[j] = "queued" THEN "revoke" ELSE "cancel"]
  /\ UNCHANGED <<rowVars, msg, pc, read, next, outVars, lock, chainVars, reap>>

\* A revoke drops the message if a worker has not taken it, unless the
\* worker that would have dropped it has restarted since.
CancelWrite(j) ==
  /\ api[j] \in {"revoke", "cancel"}
  /\ Mark(j, "canceled")
  /\ \/ UNCHANGED msg
     \/ /\ api[j] = "revoke" /\ msg[j] = "queued"
        /\ msg' = [msg EXCEPT ![j] = "absent"]
  /\ api' = [api EXCEPT ![j] = "idle"]
  /\ UNCHANGED <<kind, base, pc, read, next, outVars, lock, chainVars, reap>>

ApiCrash(j) ==
  /\ api[j] # "idle"
  /\ api' = [api EXCEPT ![j] = "idle"]
  /\ UNCHANGED <<rowVars, msg, pc, read, next, outVars, lock, chainVars, reap>>

-----------------------------------------------------------------------------
(* The worker.                                                             *)

\* (a redelivered job is run again)
Deliver_Again(j) ==
  /\ msg[j] = "queued" /\ At(j, "idle")
  /\ IF status[j] \in Terminal
       THEN msg' = [msg EXCEPT ![j] = "absent"] /\ UNCHANGED pc
       ELSE msg' = [msg EXCEPT ![j] = "held"] /\ Goto(j, "start")
  /\ UNCHANGED <<rowVars, read, next, outVars, lock, chainVars, api, reap>>

\* The task starts by reading the row.  A finished job is not run again; a
\* row found running belongs to an execution that died.
Deliver(j) ==
  /\ msg[j] = "queued" /\ At(j, "idle")
  /\ \/ /\ status[j] \in Terminal
        /\ msg' = [msg EXCEPT ![j] = "absent"]
        /\ UNCHANGED pc
     \/ /\ status[j] = "running"
        /\ msg' = [msg EXCEPT ![j] = "held"] /\ Goto(j, "dup")
     \/ /\ status[j] = "queued"
        /\ msg' = [msg EXCEPT ![j] = "held"] /\ Goto(j, "start")
  /\ UNCHANGED <<rowVars, read, next, outVars, lock, chainVars, api, reap>>

\* (the error code ends up in the status)
FailRedelivered_Code(j) ==
  /\ At(j, "dup")
  /\ Mark(j, "timeout")
  /\ msg' = [msg EXCEPT ![j] = "absent"] /\ Stop(j, "idle")
  /\ UNCHANGED <<kind, base, outVars, lock, chainVars, api, reap>>

FailRedelivered(j) ==
  /\ At(j, "dup")
  /\ Mark(j, "failed")
  /\ msg' = [msg EXCEPT ![j] = "absent"] /\ Stop(j, "idle")
  /\ UNCHANGED <<kind, base, outVars, lock, chainVars, api, reap>>

\* mark_running writes the status whatever it has become since it was read.
MarkRunning(j) ==
  /\ At(j, "start")
  /\ Mark(j, "running")
  /\ Goto(j, IF kind[j] = "merge" THEN "engine" ELSE "wait")
  /\ UNCHANGED <<kind, base, msg, read, next, outVars, lock, chainVars, api, reap>>

\* (a wait that timed out falls through into the body)
Acquire_FailsOpen(j) ==
  /\ At(j, "wait")
  /\ lock' = (IF lock = NoJob THEN j ELSE lock) /\ Goto(j, "locked")
  /\ UNCHANGED <<rowVars, msg, read, next, outVars, chainVars, api, reap>>

Acquire(j) ==
  /\ At(j, "wait") /\ lock = NoJob
  /\ lock' = j /\ Goto(j, "locked")
  /\ UNCHANGED <<rowVars, msg, read, next, outVars, chainVars, api, reap>>

\* (the base version is not checked)
CheckBase_Unchecked(j) ==
  /\ At(j, "locked") /\ doc # "gone" /\ (cur = 0 \/ cur \in DOMAIN blob)
  /\ read' = [read EXCEPT ![j] = cur]
  /\ Goto(j, IF cur = 0 THEN "conflict" ELSE "engine")
  /\ UNCHANGED <<rowVars, msg, next, outVars, lock, chainVars, api, reap>>

\* Under the lock: reread the document, check the base version, read the
\* bytes.  A row or a blob that is gone makes the step a Raise.
CheckBase(j) ==
  /\ At(j, "locked") /\ doc # "gone" /\ (cur = 0 \/ cur \in DOMAIN blob)
  /\ read' = [read EXCEPT ![j] = cur]
  /\ IF cur = 0 \/ (base[j] # 0 /\ base[j] # cur)
       THEN Goto(j, "conflict") ELSE Goto(j, "engine")
  /\ UNCHANGED <<rowVars, msg, next, outVars, lock, chainVars, api, reap>>

\* No current version, or version_conflict: failed while still in the lock.
FailConflict(j) ==
  /\ At(j, "conflict")
  /\ Mark(j, "failed") /\ Goto(j, "unlock")
  /\ UNCHANGED <<kind, base, msg, read, next, outVars, lock, chainVars, api, reap>>

\* (the next seq is counted from the current version, not from the newest)
Checkpoint_FromCurrent(j) ==
  /\ At(j, "engine") /\ status[j] = "running" /\ kind[j] = "version"
  /\ Goto(j, "put")
  /\ next' = [next EXCEPT ![j] = read[j] + 1]
  /\ UNCHANGED <<rowVars, msg, read, outVars, lock, chainVars, api, reap>>

\* The engine has returned.  _abandoned is the last look at the row before
\* the result is committed; what follows depends on the kind of result.
Checkpoint(j) ==
  /\ At(j, "engine")
  /\ \/ /\ status[j] # "running"
        /\ Goto(j, "unlock") /\ UNCHANGED next
     \/ /\ status[j] = "running" /\ kind[j] = "version"
        /\ Goto(j, "put")
        /\ next' = [next EXCEPT ![j] = Len(vers) + 1]
     \/ /\ status[j] = "running" /\ kind[j] = "report"
        /\ Goto(j, "finish") /\ UNCHANGED next
     \/ /\ status[j] = "running" /\ kind[j] \in {"split", "merge"}
        /\ Goto(j, "create") /\ UNCHANGED next
  /\ UNCHANGED <<rowVars, msg, read, outVars, lock, chainVars, api, reap>>

PutBlob(j) ==
  /\ At(j, "put")
  /\ blob' = [i \in DOMAIN blob \cup {next[j]} |->
                IF i = next[j] THEN j ELSE blob[i]]
  /\ Goto(j, "insert")
  /\ UNCHANGED <<rowVars, msg, read, next, outVars, lock, vers, cur, doc, api, reap>>

\* INSERT of the version row; (document, seq) is unique, and the document
\* must still exist.  When either fails the step is a Raise.
InsertVersion(j) ==
  /\ At(j, "insert") /\ doc # "gone" /\ next[j] = Len(vers) + 1
  /\ vers' = Append(vers, [by |-> j, from |-> read[j]])
  /\ Goto(j, "advance")
  /\ UNCHANGED <<rowVars, msg, read, next, outVars, lock, cur, blob, doc, api, reap>>

AdvanceDocument(j) ==
  /\ At(j, "advance") /\ doc # "gone"
  /\ cur' = next[j]
  /\ Goto(j, "finish")
  /\ UNCHANGED <<rowVars, msg, read, next, outVars, lock, vers, blob, doc, api, reap>>

\* A document the job produces: its row first, still processing ...
CreateRow(j) ==
  /\ At(j, "create")
  /\ rows' = [rows EXCEPT ![j] = @ + 1]
  /\ Goto(j, "fill")
  /\ UNCHANGED <<rowVars, msg, read, next, ready, lock, chainVars, api, reap>>

\* (the last document of the batch is dropped)
FillRow_Short(j) ==
  /\ At(j, "fill")
  /\ ready' = [ready EXCEPT ![j] = @ + 1]
  /\ Goto(j, IF ready[j] + 2 < Outputs(j) THEN "create" ELSE "finish")
  /\ UNCHANGED <<rowVars, msg, read, next, rows, lock, chainVars, api, reap>>

\* ... then its blob and its version 1, which make it ready.
FillRow(j) ==
  /\ At(j, "fill")
  /\ ready' = [ready EXCEPT ![j] = @ + 1]
  /\ Goto(j, IF ready[j] + 1 < Outputs(j) THEN "create" ELSE "finish")
  /\ UNCHANGED <<rowVars, msg, read, next, rows, lock, chainVars, api, reap>>

\* mark_succeeded writes the status whatever it has become.
Finish(j) ==
  /\ At(j, "finish")
  /\ Mark(j, "succeeded") /\ Goto(j, "unlock")
  /\ UNCHANGED <<kind, base, msg, read, next, outVars, lock, chainVars, api, reap>>

\* Leave doc_lock and return; the broker gets its late acknowledgement.
Return(j) ==
  /\ At(j, "unlock")
  /\ Release(j)
  /\ msg' = [msg EXCEPT ![j] = "absent"] /\ Stop(j, "idle")
  /\ UNCHANGED <<rowVars, outVars, chainVars, api, reap>>

\* Anything raised in the body: the lock not obtained in time, an engine
\* error, a quota or page-cap refusal, a row that is gone, a broker error
\* when thumbnails are dispatched, the soft time limit.  The exception leaves
\* doc_lock first and is handled outside it.
Raise(j) ==
  /\ pc[j] \in Body \ {"fail"}
  /\ Release(j) /\ Stop(j, "fail")
  /\ UNCHANGED <<rowVars, msg, outVars, chainVars, api, reap>>

MarkFailed(j) ==
  /\ At(j, "fail")
  /\ Mark(j, "failed")
  /\ msg' = [msg EXCEPT ![j] = "absent"] /\ Stop(j, "idle")
  /\ UNCHANGED <<kind, base, outVars, lock, chainVars, api, reap>>

\* SIGKILL by the hard limit or the memory cap: no handler runs, the message
\* goes back to its queue, a Redis lock stays until its TTL.
Kill(j) ==
  /\ pc[j] # "idle"
  /\ Stop(j, "idle")
  /\ msg' = [msg EXCEPT ![j] = "queued"]
  /\ UNCHANGED <<rowVars, outVars, lock, chainVars, api, reap>>

\* (the lock has no TTL)
LockExpire_Never == lock # NoJob /\ FALSE /\ UNCHANGED vars

\* (the margin over the hard limit is lost)
LockExpire_Early ==
  /\ lock # NoJob /\ (HoldsLock(lock) => HardLimit >= LockTTL - Margin)
  /\ lock' = NoJob
  /\ UNCHANGED <<rowVars, msg, pc, read, next, outVars, chainVars, api, reap>>

\* A live execution is killed at the hard limit, so a TTL that outlasts it
\* expires only under an execution that is dead.
LockExpire ==
  /\ lock # NoJob /\ (HoldsLock(lock) => ~Outlasts)
  /\ lock' = NoJob
  /\ UNCHANGED <<rowVars, msg, pc, read, next, outVars, chainVars, api, reap>>

LoseMessage(j) ==
  /\ msg[j] = "queued"
  /\ msg' = [msg EXCEPT ![j] = "absent"]
  /\ UNCHANGED <<rowVars, pc, read, next, outVars, lock, chainVars, api, reap>>

-----------------------------------------------------------------------------
(* The stall sweep.  A queued row is old enough at any moment; a running   *)
(* one only when its execution is dead, unless ReapLive (a slow lane, a    *)
(* skewed clock).                                                          *)

\* (only rows a worker had marked running are swept)
Stalled_Running(j) == status[j] = "running" /\ (ReapLive \/ pc[j] \notin Body)

Stalled(j) == \/ status[j] = "queued"
              \/ status[j] = "running" /\ (ReapLive \/ pc[j] \notin Body)

ReapRead(j) ==
  /\ j \notin reap /\ Stalled(j)
  /\ reap' = reap \cup {j}
  /\ UNCHANGED <<rowVars, msg, pc, read, next, outVars, lock, chainVars, api>>

ReapWrite(j) ==
  /\ j \in reap
  /\ reap' = reap \ {j}
  /\ Mark(j, "failed")
  /\ UNCHANGED <<kind, base, msg, pc, read, next, outVars, lock, chainVars, api>>

-----------------------------------------------------------------------------
(* _purge, called by permanent delete and by trash_purge: it takes no lock *)
(* and asks nothing of the jobs in flight.                                 *)

PurgeBlobs ==
  /\ doc = "live"
  /\ doc' = "purging"
  /\ blob' = [i \in DOMAIN blob \ DOMAIN vers |-> blob[i]]
  /\ UNCHANGED <<rowVars, msg, pc, read, next, outVars, lock, vers, cur, api, reap>>

PurgeUnset ==
  /\ doc = "purging"
  /\ doc' = "unset" /\ cur' = 0
  /\ UNCHANGED <<rowVars, msg, pc, read, next, outVars, lock, vers, blob, api, reap>>

\* The delete cascades to every version row there is now.
PurgeDelete ==
  /\ doc = "unset"
  /\ doc' = "gone" /\ vers' = <<>> /\ cur' = 0
  /\ UNCHANGED <<rowVars, msg, pc, read, next, outVars, lock, blob, api, reap>>

-----------------------------------------------------------------------------
Step(j) == \/ Deliver(j) \/ FailRedelivered(j) \/ MarkRunning(j)
           \/ Acquire(j) \/ CheckBase(j) \/ FailConflict(j) \/ Checkpoint(j)
           \/ PutBlob(j) \/ InsertVersion(j) \/ AdvanceDocument(j)
           \/ CreateRow(j) \/ FillRow(j) \/ Finish(j) \/ Return(j)
           \/ Raise(j) \/ MarkFailed(j)

Next ==
  \/ \E j \in Jobs :
       \/ \E b \in 0..Len(vers) : Submit(j, b)
       \/ Enqueue(j) \/ CancelRead(j) \/ CancelWrite(j) \/ ApiCrash(j)
       \/ Step(j) \/ Kill(j) \/ LoseMessage(j)
       \/ ReapRead(j) \/ ReapWrite(j)
  \/ LockExpire
  \/ PurgeBlobs \/ PurgeUnset \/ PurgeDelete

Spec == Init /\ [][Next]_vars

\* Workers keep running what they hold and taking what is queued, beat keeps
\* sweeping, Redis expires keys.  Nobody is obliged to submit, cancel or
\* purge, and nothing is assumed about crashes: they may go on for ever.
Fairness == /\ \A j \in Jobs : /\ WF_vars(Step(j))
                               /\ WF_vars(ReapRead(j))
                               /\ WF_vars(ReapWrite(j))
            /\ WF_vars(LockExpire)

FairSpec == Spec /\ Fairness

-----------------------------------------------------------------------------
(* Properties.                                                             *)

TypeOK ==
  /\ status \in [Jobs -> Status]
  /\ kind \in [Jobs -> Kinds]
  /\ base \in [Jobs -> Nat]
  /\ msg \in [Jobs -> {"absent", "queued", "held"}]
  /\ pc \in [Jobs -> Points]
  /\ read \in [Jobs -> Nat]
  /\ next \in [Jobs -> Nat]
  /\ rows \in [Jobs -> Nat]
  /\ ready \in [Jobs -> Nat]
  /\ lock \in Jobs \cup {NoJob}
  /\ vers \in Seq([by : Writers, from : Nat])
  /\ cur \in Nat
  /\ DOMAIN blob \subseteq Nat /\ \A i \in DOMAIN blob : blob[i] \in Writers
  /\ doc \in {"live", "purging", "unset", "gone"}
  /\ api \in [Jobs -> {"idle", "enqueue", "revoke", "cancel"}]
  /\ reap \subseteq Jobs

Written(j) == \E i \in DOMAIN vers : vers[i].by = j

\* Exactly once: however often its message is delivered, its worker killed or
\* its row reaped, a job records at most one version (run_operation's checks
\* of is_terminal and of RUNNING under acks_late).
CommitOnce ==
  \A i, k \in DOMAIN vers : vers[i].by = vers[k].by => i = k

\* And the documents of a split or a merge are produced once, not once per
\* delivery: there are never more than the operation's outputs.
OutputsOnce == \A j \in Jobs : ready[j] <= rows[j] /\ rows[j] <= Outputs(j)

\* As long as no deletion has begun, every version row has its blob, and the
\* blob holds the bytes of the job the row names: no other job has written
\* over docs/{id}/v{seq}.pdf (put_bytes comes before record_version, and the
\* seq is chosen under the lock).
BlobIntact ==
  doc = "live" =>
    \A i \in DOMAIN vers : i \in DOMAIN blob /\ blob[i] = vers[i].by

\* An edit made against a given version is applied to that version or not at
\* all (base_version_seq, checked under the lock and held until the write).
BaseRespected ==
  \A i \in DOMAIN vers :
    \A j \in Jobs : vers[i].by = j /\ base[j] # 0 => vers[i].from = base[j]

\* The versions the current one was computed from, itself included.
Lineage ==
  LET from[i \in 0..Len(vers)] ==
        IF i = 0 THEN {} ELSE {i} \cup from[vers[i].from]
  IN  from[cur]

\* A job reported as succeeded has delivered: its version is part of what the
\* user now sees, or all of its documents exist and are ready.
SucceededDelivered ==
  \A j \in Jobs : status[j] = "succeeded" =>
    CASE kind[j] = "version" -> doc = "live" => \E i \in Lineage : vers[i].by = j
      [] kind[j] = "report"  -> TRUE
      [] OTHER               -> ready[j] = Outputs(j) /\ rows[j] = Outputs(j)

\* Provided the TTL outlasts the operation (Outlasts): between a job's reading of the
\* document and its writing of the next version nobody else advances the document: the
\* new current version was computed from the one it replaces (doc_lock around the whole
\* of run_operation).
NoLostUpdate == [][doc' = "live" /\ cur' # cur => vers'[cur'].from = cur]_vars

\* No job is polled for ever: a row that is queued or running is finished, by
\* its worker or by reap_stalled_jobs, even when its message was lost or its
\* request died before enqueueing it.
JobSettles == \A j \in Jobs : status[j] \in Active ~> status[j] \in Terminal

\* A killed worker wedges the document only until the lock's TTL: whoever
\* holds the lock, it is free again later.
LockFreed == \A j \in Jobs : lock = j ~> lock # j

\* The chain of versions, as VersionChain promises it.
Chain == INSTANCE VersionChain
           WITH vers <- IF doc = "live" THEN vers ELSE <<>>,
                cur <- IF doc = "live" THEN cur ELSE 0,
                erased <- doc # "live"
ChainSpec == Chain!Spec

-----------------------------------------------------------------------------
(* Why the safety properties hold: what is true at each point of a task.   *)
(* IInv is inductive; JobPipelineProofs proves it so.                      *)

\* Where a job that has recorded its version can be.
Done == {"idle", "dup", "advance", "finish", "unlock", "fail"}

\* Whoever is inside doc_lock holds the lock, so there is one at a time; the
\* steps that write a version are inside.
LockInv == \A j \in Jobs :
  /\ HoldsLock(j) => lock = j
  /\ pc[j] \in {"wait", "locked", "conflict", "put", "insert", "advance"} =>
       kind[j] # "merge"
  /\ pc[j] \in {"put", "insert", "advance"} => kind[j] = "version"
  /\ pc[j] \in {"create", "fill"} => kind[j] \in {"split", "merge"}

\* A row that says queued has nothing behind it yet.
RowInv == \A j \in Jobs :
  /\ status[j] = "none" => pc[j] = "idle"
  /\ status[j] = "queued" => pc[j] \in {"idle", "start"}
  /\ Written(j) => status[j] \notin {"none", "queued"} /\ pc[j] \in Done

\* What an execution read is still what the document says.
ReadInv == \A j \in Jobs :
  pc[j] \in {"engine", "put", "insert"} /\ kind[j] = "version" =>
    /\ doc = "live" => read[j] = cur
    /\ base[j] # 0 => read[j] = base[j]

\* The seq an execution chose is still free, and then its own.
SeqInv == \A j \in Jobs :
  /\ pc[j] \in {"put", "insert"} /\ doc # "gone" => next[j] = Len(vers) + 1
  /\ pc[j] = "insert" /\ doc = "live" =>
       next[j] \in DOMAIN blob /\ blob[next[j]] = j
  /\ pc[j] = "advance" /\ doc # "gone" =>
       next[j] = Len(vers) /\ Len(vers) > 0
  /\ pc[j] = "advance" /\ doc = "live" => vers[Len(vers)].from = cur

\* Version 1 is the upload's and the others are the jobs'.
VersInv ==
  /\ \A i \in DOMAIN vers : vers[i].by = Ingest <=> i = 1
  /\ doc # "gone" => Len(vers) > 0

\* How many documents a split or a merge has produced at each point.
RowsInv == \A j \in Jobs :
  /\ status[j] \in {"none", "queued"} => rows[j] = 0 /\ ready[j] = 0
  /\ pc[j] \in {"start", "wait", "locked", "engine"} => rows[j] = 0 /\ ready[j] = 0
  /\ ready[j] <= rows[j] /\ rows[j] <= Outputs(j)
  /\ pc[j] = "create" => ready[j] = rows[j] /\ rows[j] < Outputs(j)
  /\ pc[j] = "fill" => rows[j] = ready[j] + 1

\* The current version came of one of the job's, whichever way one looks back: any versions
\* that hold the current one, and with each the one it was computed from, hold one of the job's.
Looks(C)  == \A i \in C : vers[i].from # 0 => vers[i].from \in C
PartOf(j) == \A C \in SUBSET (DOMAIN vers) :
               cur \in C /\ Looks(C) => \E i \in C : vers[i].by = j

\* Versions are computed from earlier ones, and nobody has read one that is not there.
FromInv ==
  /\ \A i \in DOMAIN vers : vers[i].from < i
  /\ doc # "gone" => cur <= Len(vers) /\ \A j \in Jobs : read[j] <= Len(vers)
  /\ doc = "live" => cur # 0

\* Whoever is about to report a success has delivered, and is not run again once it has.
DeliveredInv == \A j \in Jobs :
  /\ status[j] = "succeeded" => pc[j] \in {"idle", "unlock", "fail"}
  /\ pc[j] = "advance" /\ doc = "live" => vers[Len(vers)].by = j
  /\ pc[j] = "finish" \/ status[j] = "succeeded" =>
       /\ kind[j] = "version" /\ doc = "live" => PartOf(j)
       /\ kind[j] \in {"split", "merge"} => ready[j] = Outputs(j) /\ rows[j] = Outputs(j)

IInv == /\ TypeOK /\ LockInv /\ RowInv /\ ReadInv /\ SeqInv /\ VersInv /\ RowsInv
        /\ FromInv /\ DeliveredInv
        /\ CommitOnce /\ BlobIntact /\ BaseRespected

-----------------------------------------------------------------------------
\* Said of the code, and not so: "Anything other than RUNNING means this task
\* no longer owns the row" (_abandoned): a job that has ended keeps its ending.
TerminalIsFinal ==
  [][\A j \in Jobs : status[j] \in Terminal => status'[j] = status[j]]_vars

\* Said of the code, and not so: "On any exception the document is untouched".
ExceptionLeavesDocument ==
  \A j \in Jobs : At(j, "fail") /\ doc = "live" => ~Written(j)
=============================================================================
