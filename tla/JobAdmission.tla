---------------------------- MODULE JobAdmission ----------------------------
(***************************************************************************)
(* How the operations of one principal become jobs: the count of those it  *)
(* has under way, the slot (a transaction that holds the principal's row), *)
(* and the hourly charge for a heavy operation, which is in Redis and is   *)
(* not rolled back.                                                        *)
(*                                                                         *)
(* A definition named X_Y is X with the slip its comment names, put in the *)
(* place of X to see that a property notices; no action uses it.           *)
(***************************************************************************)
EXTENDS Naturals, FiniteSets

CONSTANTS Requests, Metered,  \* the requests, and those for heavy operations
          MaxConcurrentJobs, OpsPerHour,
          MaxKills,           \* bound: how many API processes are killed
          Nobody

Assumptions == /\ Metered \subseteq Requests /\ Nobody \notin Requests
               /\ {MaxConcurrentJobs, OpsPerHour, MaxKills} \subseteq Nat

VARIABLES
  pc,      \* what each request does next
  slot,    \* the request that holds the principal's row
  job,     \* the status of the job it made
  charged, \* the operations charged in this hour
  kills    \* kills so far

vars == <<pc, slot, job, charged, kills>>

Init == /\ pc = [r \in Requests |-> "idle"] /\ slot = Nobody
        /\ job = [r \in Requests |-> "none"] /\ charged = 0 /\ kills = 0

Goto(r, a) == pc' = [pc EXCEPT ![r] = a]
Active == Cardinality({r \in Requests : job[r] \in {"queued", "running"}})
Spent  == charged >= OpsPerHour

\* _guard_operation: the count that refuses early, before the challenge's work is wasted.
Guard(r) ==
  /\ pc[r] = "idle"
  /\ Goto(r, IF Active >= MaxConcurrentJobs THEN "refused" ELSE "slot")
  /\ UNCHANGED <<slot, job, charged, kills>>

\* (the row is not held: count, then create)
Enter_Unlocked(r) ==
  /\ pc[r] = "slot"
  /\ Goto(r, IF Active >= MaxConcurrentJobs THEN "refused" ELSE "charge")
  /\ UNCHANGED <<slot, job, charged, kills>>

\* _concurrency_slot, and the count that is true.
Enter(r) ==
  /\ pc[r] = "slot" /\ slot = Nobody
  /\ \/ /\ Active >= MaxConcurrentJobs
        /\ Goto(r, "refused") /\ UNCHANGED slot
     \/ /\ Active < MaxConcurrentJobs
        /\ Goto(r, "charge") /\ slot' = r
  /\ UNCHANGED <<job, charged, kills>>

\* enforce_metered_op reads the window, then adds to it.
Meter(r) ==
  /\ pc[r] = "charge"
  /\ IF r \in Metered /\ Spent THEN Goto(r, "refused") /\ slot' = Nobody
                               ELSE Goto(r, "count") /\ UNCHANGED slot
  /\ UNCHANGED <<job, charged, kills>>

Count(r) ==
  /\ pc[r] = "count" /\ Goto(r, "create")
  /\ charged' = IF r \in Metered THEN charged + 1 ELSE charged
  /\ UNCHANGED <<slot, job, kills>>

\* Nobody sees the row before the transaction commits.
Create(r) ==
  /\ pc[r] = "create" /\ Goto(r, "enqueue")
  /\ job' = [job EXCEPT ![r] = "queued"] /\ slot' = Nobody
  /\ UNCHANGED <<charged, kills>>

Enqueue(r) ==
  /\ pc[r] = "enqueue" /\ Goto(r, "done")
  /\ UNCHANGED <<slot, job, charged, kills>>

\* The process dies; its transaction is rolled back, and its row is not enqueued.
Kill(r) ==
  /\ pc[r] \in {"slot", "charge", "count", "create", "enqueue"}
  /\ kills < MaxKills /\ kills' = kills + 1
  /\ Goto(r, "dead") /\ slot' = IF slot = r THEN Nobody ELSE slot
  /\ UNCHANGED <<job, charged>>

-----------------------------------------------------------------------------
(* The worker, the owner's cancel, and the sweep.                          *)

Run(r) ==
  /\ job[r] = "queued" /\ pc[r] = "done"
  /\ job' = [job EXCEPT ![r] = "running"] /\ UNCHANGED <<pc, slot, charged, kills>>

End(r) ==
  /\ job[r] \in {"queued", "running"}
  /\ job' = [job EXCEPT ![r] = "over"] /\ UNCHANGED <<pc, slot, charged, kills>>

Next == \E r \in Requests : \/ Guard(r) \/ Enter(r) \/ Meter(r) \/ Count(r) \/ Create(r)
                            \/ Enqueue(r) \/ Kill(r) \/ Run(r) \/ End(r)

Spec == Init /\ [][Next]_vars

-----------------------------------------------------------------------------
(* Properties.                                                             *)

TypeOK ==
  /\ pc \in [Requests -> {"idle", "refused", "slot", "charge", "count", "create",
                          "enqueue", "done", "dead"}]
  /\ slot \in Requests \cup {Nobody}
  /\ job \in [Requests -> {"none", "queued", "running", "over"}]
  /\ charged \in Nat /\ kills \in 0..MaxKills

\* However many requests arrive together and die, a principal has no more jobs than its
\* tier allows and no more heavy ones in an hour, and pays for none that is not made,
\* but one for each process that died (_concurrency_slot's docstring, views.py:731-735).
Made == {r \in Requests : job[r] # "none"}
SlotsHold ==
  /\ Active <= MaxConcurrentJobs /\ charged <= OpsPerHour
  /\ slot = Nobody => charged <= Cardinality(Made \cap Metered) + kills
=============================================================================
