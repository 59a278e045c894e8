---------------------------- MODULE StorageLedger ----------------------------
(***************************************************************************)
(* The storage counter of one principal (User or GuestSession              *)
(* .storage_bytes_used) against what the principal is charged for: the     *)
(* versions of its documents, its assets, and its exports.  A file, its    *)
(* row and its charge are three writes in three places, so the counter     *)
(* drifts; every night usage_recompute counts and sets it right.           *)
(*                                                                         *)
(* A definition named X_Y is X with the slip its comment names, put in the *)
(* place of X to see that a property notices; no action uses it.           *)
(***************************************************************************)
EXTENDS Integers, FiniteSets, FiniteSetsExt

CONSTANTS Items, Size,  \* the files that may come to be, and their bytes
          Docs, Space,  \* item -> its document, or "asset", or "export"
          Jobs,         \* operations run by workers
          Uploads,      \* requests that upload a document or an asset
          Deleters,     \* deletes, permanent deletes, and the nightly purges
          Quota,        \* Limits.storage_bytes
          MaxKills      \* bound: how many processes are killed

Makers == Jobs \cup Uploads
Procs   == Makers \cup Deleters

Assumptions ==
  /\ Size \in [Items -> Nat] /\ Space \in [Items -> Docs \cup {"asset", "export"}]
  /\ {"asset", "export"} \cap Docs = {}
  /\ Makers # {} /\ \E i \in Items : Space[i] # "export"
  /\ Jobs \cap Uploads = {} /\ Deleters \cap Makers = {}
  /\ {Quota, MaxKills} \subseteq Nat

VARIABLES
  used,     \* storage_bytes_used
  blobs,    \* the files in storage
  rows,     \* DocumentVersion rows, and exports their jobs' results advertise
  spent,    \* items that have been made
  gone,     \* documents deleted
  begun,    \* writers that have begun: each does so once
  flight,   \* jobs queued or running
  pc,       \* what each process does next
  hand,     \* the items it is working on
  saw,      \* the counter as it was when the process began
  rpc,      \* what the reconciler does next
  before,   \* the counter it started from
  tally,    \* the bytes it has counted
  kills     \* kills so far

things == <<blobs, rows, spent, gone>>
procs  == <<begun, flight, pc, hand, saw>>
recon  == <<rpc, before, tally>>
vars   == <<used, blobs, rows, spent, gone, begun, flight, pc, hand, saw,
            rpc, before, tally, kills>>

Bytes(S)  == MapThenSumSet(LAMBDA i : Size[i], S)
Versions  == {i \in Items : Space[i] \in Docs}
Assets    == {i \in Items : Space[i] = "asset"}
Exports   == {i \in Items : Space[i] = "export"}

Init ==
  /\ used = 0 /\ blobs = {} /\ rows = {} /\ spent = {} /\ gone = {}
  /\ begun = {} /\ flight = {}
  /\ pc = [p \in Procs |-> "idle"] /\ hand = [p \in Procs |-> {}]
  /\ saw = [p \in Procs |-> 0]
  /\ rpc = "idle" /\ before = 0 /\ tally = 0 /\ kills = 0

Goto(p, a) == pc' = [pc EXCEPT ![p] = a]
Hold(p, S) == hand' = [hand EXCEPT ![p] = S]
Leave(p)   == Goto(p, "idle") /\ Hold(p, {}) /\ saw' = [saw EXCEPT ![p] = 0]

-----------------------------------------------------------------------------
(* What writes.                                                            *)

\* An upload has no job row.
Begin(w) ==
  /\ w \notin begun /\ begun' = begun \cup {w}
  /\ flight' = flight \cup ({w} \cap Jobs)
  /\ saw' = [saw EXCEPT ![w] = used]
  /\ Goto(w, IF w \in Jobs THEN "engine" ELSE "next")
  /\ UNCHANGED <<used, things, hand, recon, kills>>

\* _abandoned: a job that was canceled meanwhile writes nothing.
Checkpoint(j) ==
  /\ pc[j] = "engine" /\ Goto(j, IF j \in flight THEN "next" ELSE "idle")
  /\ UNCHANGED <<used, things, begun, flight, hand, saw, recon, kills>>

\* (a job checks the counter its principal was loaded with)
Reading_Stale(w) == saw[w]
\* A job reads it again for every file, an upload has it from its session.
Reading(w) == IF w \in Jobs THEN used ELSE saw[w]

\* What a job makes: versions and exports; and an upload: an asset, or the first
\* version of a new document.
Makes(w, i) ==
  \/ w \in Jobs /\ i \notin Assets
  \/ w \in Uploads /\ i \notin Exports /\ \A k \in spent \cap Versions : Space[k] # Space[i]

\* The door.  An export is never refused: it is the way out of a full account.
Admit(w, i) ==
  /\ pc[w] = "next" /\ i \notin spent /\ Makes(w, i)
  /\ \/ i \in Exports
     \/ i \notin Exports /\ Reading(w) + Size[i] <= Quota
  /\ spent' = spent \cup {i}
  /\ Hold(w, {i}) /\ Goto(w, "put")
  /\ UNCHANGED <<used, blobs, rows, gone, begun, flight, saw, recon, kills>>

Put(w) ==
  /\ pc[w] = "put"
  /\ blobs' = blobs \cup hand[w]
  /\ Goto(w, IF hand[w] \subseteq Versions THEN "row" ELSE "charge")
  /\ UNCHANGED <<used, rows, spent, gone, begun, flight, hand, saw, recon, kills>>

\* A version of a document that is gone cannot be inserted: the writer fails.
InsertRow(w) ==
  /\ pc[w] = "row"
  /\ \/ /\ \E i \in hand[w] : Space[i] \in gone
        /\ Goto(w, "result") /\ Hold(w, {}) /\ UNCHANGED rows
     \/ /\ \A i \in hand[w] : Space[i] \notin gone
        /\ rows' = rows \cup hand[w] /\ Goto(w, "charge") /\ UNCHANGED hand
  /\ UNCHANGED <<used, blobs, spent, gone, begun, flight, saw, recon, kills>>

\* One more file of the batch, or the end; an export ends its job.
Charge(w) ==
  /\ pc[w] = "charge"
  /\ used' = used + Bytes(hand[w])
  /\ \/ hand[w] \subseteq Exports /\ Goto(w, "result") /\ UNCHANGED hand
     \/ ~ hand[w] \subseteq Exports /\ w \in Jobs /\ Goto(w, "next") /\ Hold(w, {})
     \/ ~ hand[w] \subseteq Exports /\ Goto(w, "result") /\ Hold(w, {})
  /\ UNCHANGED <<things, begun, flight, saw, recon, kills>>

\* The result and the ending of a job are one save; a refusal ends it too.
Finish(w) ==
  /\ pc[w] \in {"next", "result"}
  /\ rows' = rows \cup hand[w]
  /\ flight' = flight \ {w} /\ Leave(w)
  /\ UNCHANGED <<used, blobs, spent, gone, begun, recon, kills>>

Cancel(j) ==
  /\ j \in flight /\ flight' = flight \ {j}
  /\ UNCHANGED <<used, things, begun, pc, hand, saw, recon, kills>>

\* reap_stalled_jobs, or the redelivery: the row of a killed worker's job.
Reap(j) ==
  /\ j \in flight /\ pc[j] = "idle" /\ flight' = flight \ {j}
  /\ UNCHANGED <<used, things, begun, pc, hand, saw, recon, kills>>

-----------------------------------------------------------------------------
(* What deletes.  A job deletes the source it has converted.               *)

\* _purge: the versions there are, their files, the refund, then the rows.
PurgeDocument(d, k) ==
  /\ pc[d] = "idle" /\ k \notin gone
  /\ LET mine == {i \in rows : Space[i] = k}
     IN  /\ mine # {} /\ Hold(d, mine) /\ blobs' = blobs \ mine
  /\ Goto(d, "refund")
  /\ UNCHANGED <<used, rows, spent, gone, begun, flight, saw, recon, kills>>

FindAsset(p, i) ==
  /\ \/ pc[p] = "idle" /\ p \in Deleters
     \/ pc[p] = "engine" /\ p \in Jobs
  /\ i \in blobs \cap Assets
  /\ Hold(p, {i}) /\ Goto(p, "unlink")
  /\ UNCHANGED <<used, things, begun, flight, saw, recon, kills>>

FindExport(d, i) ==
  /\ pc[d] = "idle" /\ i \in rows \cap Exports
  /\ Hold(d, {i}) /\ Goto(d, "unlink")
  /\ UNCHANGED <<used, things, begun, flight, saw, recon, kills>>

\* An asset is measured before it is deleted, and refunded all the same.  An export is refunded only if
\* there was a file; if there was none, exports_purge leaves its row, and
\* jobs_purge deletes it.
Unlink(p) ==
  /\ pc[p] = "unlink"
  /\ blobs' = blobs \ hand[p]
  /\ \/ hand[p] \subseteq Assets \cup blobs /\ Goto(p, "refund") /\ UNCHANGED <<hand, saw>>
     \/ ~ hand[p] \subseteq Assets \cup blobs /\ Goto(p, "strip") /\ UNCHANGED <<hand, saw>>
     \/ ~ hand[p] \subseteq Assets \cup blobs /\ Leave(p)
  /\ UNCHANGED <<used, rows, spent, gone, begun, flight, recon, kills>>

Refund(p) ==
  /\ pc[p] = "refund"
  /\ used' = used - Bytes(hand[p])
  /\ \/ hand[p] \subseteq Assets /\ p \in Deleters /\ Leave(p)
     \/ hand[p] \subseteq Assets /\ p \in Jobs /\ Goto(p, "engine") /\ Hold(p, {})
        /\ UNCHANGED saw
     \/ ~ hand[p] \subseteq Assets /\ Goto(p, "strip") /\ UNCHANGED <<hand, saw>>
  /\ UNCHANGED <<things, begun, flight, recon, kills>>

\* The export leaves its row; a document goes with every version it has now.
Strip(d) ==
  /\ pc[d] = "strip" /\ Leave(d)
  /\ gone' = gone \cup {Space[i] : i \in hand[d] \cap Versions}
  /\ rows' = (rows \ hand[d]) \ {i \in Items : Space[i] \in gone'}
  /\ UNCHANGED <<used, blobs, spent, begun, flight, recon, kills>>

\* A request or a worker dies.
Kill(p) ==
  /\ pc[p] # "idle" /\ kills < MaxKills /\ kills' = kills + 1
  /\ Leave(p)
  /\ UNCHANGED <<used, things, begun, flight, recon>>

-----------------------------------------------------------------------------
(* usage_recompute, for this principal.                                    *)

\* Every principal is loaded when the sweep begins.
Load ==
  /\ rpc = "idle"
  /\ before' = used /\ rpc' = "look"
  /\ UNCHANGED <<used, things, procs, tally, kills>>

\* One that has a job queued or running is left to another night.
Look ==
  /\ rpc = "look"
  /\ \/ flight = {} /\ rpc' = "versions" /\ UNCHANGED before
     \/ flight # {} /\ rpc' = "idle" /\ before' = 0
  /\ UNCHANGED <<used, things, procs, tally, kills>>

\* (an export counts while its row says so)
Owes_Advertised == [versions |-> rows \cap Versions, assets |-> blobs \cap Assets,
                    exports |-> rows \cap Exports]
\* What each of the three spaces is charged for.
Owes == [versions |-> rows \cap Versions, assets |-> blobs \cap Assets,
         exports |-> rows \cap blobs \cap Exports]
After == [versions |-> "assets", assets |-> "exports", exports |-> "write"]

Count ==
  /\ rpc \in DOMAIN After
  /\ tally' = tally + Bytes(Owes[rpc]) /\ rpc' = After[rpc]
  /\ UNCHANGED <<used, things, procs, before, kills>>

\* (whether the counter has moved is not asked)
Recompute_Moved ==
  /\ rpc = "write" /\ rpc' = "idle"
  /\ used' = IF flight = {} THEN tally ELSE used
  /\ before' = 0 /\ tally' = 0
  /\ UNCHANGED <<things, procs, kills>>

\* With the row locked, and if neither the counter nor a job has moved.
Recompute ==
  /\ rpc = "write" /\ rpc' = "idle"
  /\ used' = IF used = before /\ flight = {} THEN tally ELSE used
  /\ before' = 0 /\ tally' = 0
  /\ UNCHANGED <<things, procs, kills>>

-----------------------------------------------------------------------------
Step(p) ==
  \/ p \in Makers /\ \/ Put(p) \/ InsertRow(p) \/ Charge(p) \/ Finish(p)
                      \/ \E i \in Items : Admit(p, i)
  \/ p \in Jobs /\ Checkpoint(p)
  \/ p \in Deleters /\ Strip(p)
  \/ Unlink(p) \/ Refund(p)

Delete(p) == \/ \E i \in Items : FindAsset(p, i) \/ (p \in Deleters /\ FindExport(p, i))
             \/ p \in Deleters /\ \E k \in Docs : PurgeDocument(p, k)

Reconcile == Load \/ Look \/ Count \/ Recompute

Next ==
  \/ \E w \in Makers : Begin(w)
  \/ \E p \in Procs : Step(p) \/ Delete(p) \/ Kill(p)
  \/ \E j \in Jobs : Cancel(j) \/ Reap(j)
  \/ Reconcile

Spec == Init /\ [][Next]_vars

\* What the reconciler does not see: requests and sweeps, which are no jobs, and
\* a job that was canceled and still runs.  They stay out of its way.
Apart   == rpc' # "idle" => \A p \in Uploads \cup Deleters : pc'[p] = "idle"
Carried == \A j \in Jobs : pc'[j] # "idle" => j \in flight'

\* One item is not deleted twice at a time, and nobody writes to a document that
\* is being purged.
Deleting(p) == pc[p] \in {"unlink", "refund", "strip"}
Once == \A p, q \in Procs : p # q /\ Deleting(p)' => ~ Deleting(q)'
Kept == \A w \in Makers, d \in Deleters, i, k \in Versions :
          i \in hand'[w] /\ k \in hand'[d] => Space[i] # Space[k]

Calm == Apart /\ Carried /\ Once /\ Kept

\* Workers and requests go on or are killed; beat sweeps.
Fairness == /\ \A p \in Procs : WF_vars(Step(p))
            /\ \A j \in Jobs : WF_vars(Reap(j))
            /\ WF_vars(Reconcile)

FairSpec == Spec /\ Fairness

-----------------------------------------------------------------------------
(* Properties.                                                             *)

TypeOK ==
  /\ used \in Int /\ blobs \subseteq spent /\ rows \subseteq spent
  /\ spent \subseteq Items /\ gone \subseteq Docs
  /\ begun \subseteq Makers /\ flight \subseteq Jobs \cap begun
  /\ pc \in [Procs -> {"idle", "engine", "next", "put", "row", "charge",
                       "result", "unlink", "refund", "strip"}]
  /\ hand \in [Procs -> SUBSET Items] /\ saw \in [Procs -> Int]
  /\ rpc \in {"idle", "look", "write"} \cup DOMAIN After
  /\ before \in Int /\ tally \in Int /\ kills \in 0..MaxKills

\* What the principal is charged for (charged_bytes): versions while they have a
\* row, trash included; assets while they are in storage; exports while they are
\* both there and advertised.
Charged == {i \in spent :
              \/ i \in Versions /\ i \in rows
              \/ i \in Assets /\ i \in blobs
              \/ i \in Exports /\ i \in rows /\ i \in blobs}

Quiescent == rpc = "idle" /\ flight = {} /\ \A p \in Procs : pc[p] = "idle"

\* Whenever nothing is under way, the counter is what is charged, however jobs,
\* their batches and the nightly recount were interleaved (under Calm).
Settled == Quiescent => used = Bytes(Charged)

\* A batch cannot walk past the quota: what is above it is exports, and at most
\* the one file each other writer was let in with before it was charged.
Largest   == Max({Size[i] : i \in Items \ Exports})
QuotaHeld == used <= Quota + Bytes(spent \cap Exports)
                           + (Cardinality(Makers) - 1) * Largest

\* Whatever is killed, canceled, deleted twice or recounted at the wrong moment
\* (bump_storage has no floor and no transaction), the counter comes to be what is charged and stays so once nobody writes.
DriftHeals == <>[](used = Bytes(Charged))
=============================================================================
