--------------------------- MODULE GuestLifecycle ---------------------------
(***************************************************************************)
(* One guest session: the uploads and jobs that work for it, the accounts  *)
(* that claim it (claim_session) and the hourly sweep that deletes it once *)
(* it has expired (guest_purge).                                           *)
(*                                                                         *)
(* A claim is one transaction that holds the session's row; a statement    *)
(* that writes the row, or inserts a row that points to it, waits for it.  *)
(* The storage knows no transactions.  Every maker makes one document of   *)
(* one byte; the session has one asset, under a key that names its owner.  *)
(*                                                                         *)
(* A definition named X_Y is X with the slip its comment names, put in the *)
(* place of X to see that a property notices; no action uses it.           *)
(***************************************************************************)
EXTENDS Naturals, FiniteSets

CONSTANTS Uploads, Jobs,    \* requests and jobs that make a document each
          Users,            \* accounts, each with a request to claim
          Quota,            \* Limits.storage_bytes of an account
          Guest, Nobody, Gone  \* owners that are no account

Makers == Uploads \cup Jobs

Assumptions == /\ Uploads \cap Jobs = {} /\ Makers \cap Users = {} /\ Quota \in Nat
               /\ Users \cap {Guest, Nobody, Gone} = {}
               /\ Guest # Nobody /\ Guest # Gone /\ Nobody # Gone

VARIABLES
  alive,    \* the session's row exists
  expired,  \* expires_at has passed
  claimed,  \* claimed_by
  bytes,    \* the session's storage_bytes_used
  used,     \* account -> its storage_bytes_used
  owner,    \* maker -> who owns the document it made
  jobs,     \* job -> who owns its row
  asset,    \* whose key the asset is stored under
  holder,   \* the account whose claim holds the session's row
  pc, who,  \* what a maker or a claim does next; the principal a maker was loaded with
  loaded,   \* account -> the session's bytes as it read them
  sweep,    \* what the purge does next
  victims   \* the documents it has listed

rows  == <<alive, expired, claimed, bytes, used>>
work  == <<owner, jobs, asset>>
purge == <<sweep, victims>>
vars  == <<alive, expired, claimed, bytes, used, owner, jobs, asset, holder, pc, who,
           loaded, sweep, victims>>

Init ==
  /\ alive = TRUE /\ expired = FALSE /\ claimed = Nobody /\ bytes = 0 /\ used = [u \in Users |-> 0]
  /\ owner = [p \in Makers |-> Nobody] /\ jobs = [j \in Jobs |-> Nobody] /\ asset = Guest
  /\ holder = Nobody /\ pc = [p \in Makers \cup Users |-> "idle"]
  /\ who = [p \in Makers |-> Guest] /\ loaded = [c \in Users |-> 0]
  /\ sweep = "idle" /\ victims = {}

Goto(p, a) == pc' = [pc EXCEPT ![p] = a]
Free == holder = Nobody
Open == alive /\ ~ expired /\ claimed = Nobody

\* What was the session's becomes x's.
Pass(f, x) == [p \in DOMAIN f |-> IF f[p] = Guest THEN x ELSE f[p]]

-----------------------------------------------------------------------------
(* The guest's requests and jobs.                                          *)

\* The token is looked up in one statement, and its session's time extended in another.
Authenticate(w) ==
  /\ pc[w] = "idle" /\ Open
  /\ Goto(w, "touch") /\ UNCHANGED <<rows, work, holder, who, loaded, purge>>

\* (not past created_at plus the longest life there is)
Touch(w) ==
  /\ pc[w] = "touch" /\ Free
  /\ expired' \in {expired, FALSE}
  /\ Goto(w, "create")
  /\ UNCHANGED <<alive, claimed, bytes, used, work, holder, who, loaded, purge>>

\* The request that makes a job, and the job's row.
Submit(j) ==
  /\ jobs[j] = Nobody /\ Open /\ Free
  /\ jobs' = [jobs EXCEPT ![j] = Guest]
  /\ UNCHANGED <<rows, owner, asset, holder, pc, who, loaded, purge>>

\* The worker loads the job: principal_of(job) is whose it was then.
Fetch(j) ==
  /\ pc[j] = "idle" /\ jobs[j] \notin {Nobody, Gone}
  /\ who' = [who EXCEPT ![j] = jobs[j]] /\ Goto(j, "create")
  /\ UNCHANGED <<rows, work, holder, loaded, purge>>

\* Document.objects.create: for a session that is gone it fails.
Create(p) ==
  /\ pc[p] = "create"
  /\ \/ who[p] = Guest /\ alive /\ Free
     \/ who[p] # Guest
  /\ owner' = [owner EXCEPT ![p] = who[p]] /\ Goto(p, "charge")
  /\ UNCHANGED <<rows, jobs, asset, holder, who, loaded, purge>>

CreateFails(p) ==
  /\ pc[p] = "create" /\ who[p] = Guest /\ ~ alive
  /\ Goto(p, "done") /\ UNCHANGED <<rows, work, holder, who, loaded, purge>>

\* bump_storage: an UPDATE of the principal the maker has, if it is still there.
Charge(p) ==
  /\ pc[p] = "charge"
  /\ \/ who[p] = Guest /\ Free /\ bytes' = (IF alive THEN bytes + 1 ELSE 0) /\ UNCHANGED used
     \/ /\ who[p] # Guest /\ used' = [used EXCEPT ![who[p]] = @ + 1]
        /\ UNCHANGED bytes
  /\ Goto(p, "done")
  /\ UNCHANGED <<alive, expired, claimed, work, holder, who, loaded, purge>>

-----------------------------------------------------------------------------
(* claim_session.                                                          *)

\* The session is found by its token, expired or not.
Ask(c) ==
  /\ pc[c] = "idle" /\ alive
  /\ Goto(c, "lock") /\ UNCHANGED <<rows, work, holder, who, loaded, purge>>

\* (the row is read, and not locked)
Lock_Unlocked(c) ==
  /\ pc[c] = "lock" /\ alive /\ claimed = Nobody
  /\ used[c] + bytes <= Quota
  /\ loaded' = [loaded EXCEPT ![c] = bytes]
  /\ Goto(c, "move") /\ UNCHANGED <<rows, work, holder, who, purge>>

\* select_for_update, and the preflight.
Lock(c) ==
  /\ pc[c] = "lock" /\ Free /\ alive /\ claimed = Nobody
  /\ used[c] + bytes <= Quota
  /\ holder' = c /\ loaded' = [loaded EXCEPT ![c] = bytes]
  /\ Goto(c, "move") /\ UNCHANGED <<rows, work, who, purge>>

\* Gone, claimed before, or more than the account may hold: nothing moves.
Refuse(c) ==
  /\ pc[c] = "lock" /\ Free
  /\ ~ alive \/ claimed # Nobody \/ used[c] + bytes > Quota
  /\ Goto(c, "idle") /\ UNCHANGED <<rows, work, holder, who, loaded, purge>>

\* move_assets is the last call of the transaction, and no part of it.
MoveAssets(c) ==
  /\ pc[c] = "move"
  /\ asset' = IF asset = Guest THEN c ELSE asset
  /\ Goto(c, "commit") /\ UNCHANGED <<rows, owner, jobs, holder, who, loaded, purge>>

\* (the jobs stay the session's)
Commit_DocumentsOnly(c) ==
  /\ pc[c] = "commit" /\ holder' = Nobody
  /\ owner' = Pass(owner, c) /\ UNCHANGED jobs
  /\ used' = [used EXCEPT ![c] = @ + loaded[c]] /\ bytes' = 0
  /\ claimed' = c /\ expired' = TRUE
  /\ Goto(c, "done") /\ UNCHANGED <<alive, asset, who, loaded, purge>>

\* The documents, the jobs, the counter, and the session, which expires at once.
Commit(c) ==
  /\ pc[c] = "commit" /\ holder' = Nobody
  /\ owner' = Pass(owner, c) /\ jobs' = Pass(jobs, c)
  /\ used' = [used EXCEPT ![c] = @ + loaded[c]] /\ bytes' = 0
  /\ claimed' = c /\ expired' = TRUE
  /\ Goto(c, "done") /\ UNCHANGED <<alive, asset, who, loaded, purge>>

\* The process dies: the rows are rolled back, the asset stays where it is.
Rollback(c) ==
  /\ pc[c] \in {"move", "commit"} /\ holder' = Nobody
  /\ Goto(c, "idle") /\ UNCHANGED <<rows, work, who, loaded, purge>>

-----------------------------------------------------------------------------
(* guest_purge.                                                            *)

Expire ==
  /\ ~ expired /\ alive /\ expired' = TRUE
  /\ UNCHANGED <<alive, claimed, bytes, used, work, holder, pc, who, loaded, purge>>

\* The expired sessions are read once, at the start.
List ==
  /\ sweep = "idle" /\ alive /\ expired
  /\ sweep' = "documents"
  /\ UNCHANGED <<rows, work, holder, pc, who, loaded, victims>>

FindDocuments ==
  /\ sweep = "documents" /\ sweep' = "delete"
  /\ victims' = {p \in Makers : owner[p] = Guest}
  /\ UNCHANGED <<rows, work, holder, pc, who, loaded>>

\* By its key, whoever owns it now.
DeleteDocument(p) ==
  /\ p \in victims /\ victims' = victims \ {p}
  /\ owner' = [owner EXCEPT ![p] = Gone]
  /\ UNCHANGED <<rows, jobs, asset, holder, pc, who, loaded, sweep>>

DeleteAssets ==
  /\ sweep = "delete" /\ victims = {} /\ sweep' = "session"
  /\ asset' = IF asset = Guest THEN Gone ELSE asset
  /\ UNCHANGED <<rows, owner, jobs, holder, pc, who, loaded, victims>>

\* What still points to the session goes with it.
DeleteSession ==
  /\ sweep = "session" /\ Free /\ sweep' = "idle"
  /\ alive' = FALSE /\ bytes' = 0 /\ owner' = Pass(owner, Gone) /\ jobs' = Pass(jobs, Gone)
  /\ UNCHANGED <<expired, claimed, used, asset, holder, pc, who, loaded, victims>>

-----------------------------------------------------------------------------
Next ==
  \/ \E w \in Uploads : Authenticate(w) \/ Touch(w)
  \/ \E j \in Jobs : Submit(j) \/ Fetch(j)
  \/ \E p \in Makers : Create(p) \/ CreateFails(p) \/ Charge(p) \/ DeleteDocument(p)
  \/ \E c \in Users : Ask(c) \/ Lock(c) \/ Refuse(c) \/ MoveAssets(c) \/ Commit(c)
                       \/ Rollback(c)
  \/ Expire \/ List \/ FindDocuments \/ DeleteAssets \/ DeleteSession

Spec == Init /\ [][Next]_vars

\* No session is claimed while the purge deletes what is listed for it, and none for
\* which a request or a worker is at work: they would go on making what is the session's.
Busy(p)   == pc[p] \in {"touch", "create", "charge"} /\ who[p] = Guest
Unhurried == /\ holder' # Nobody => sweep' \in {"idle", "documents"}
             /\ claimed' # claimed => \A p \in Makers : ~ Busy(p)

-----------------------------------------------------------------------------
(* Properties.                                                             *)

TypeOK ==
  /\ {alive, expired} \subseteq BOOLEAN /\ claimed \in Users \cup {Nobody}
  /\ bytes \in 0..Cardinality(Makers) /\ used \in [Users -> Nat]
  /\ owner \in [Makers -> Users \cup {Guest, Nobody, Gone}]
  /\ jobs \in [Jobs -> Users \cup {Guest, Nobody, Gone}]
  /\ asset \in Users \cup {Guest, Gone} /\ holder \in Users \cup {Nobody}
  /\ pc \in [Makers \cup Users -> {"idle", "touch", "create", "charge", "done", "lock",
                                    "move", "commit"}]
  /\ who \in [Makers -> Users \cup {Guest}] /\ loaded \in [Users -> Nat]
  /\ sweep \in {"idle", "documents", "delete", "session"} /\ victims \subseteq Makers

\* Once a session is claimed nothing of it is left to be purged with it: documents, jobs
\* and assets are the account's, and of one account (claim_session; under Unhurried).
WorkFollows ==
  claimed # Nobody =>
    /\ \A p \in Makers : owner[p] \notin {Guest} \cup (Users \ {claimed})
    /\ \A j \in Jobs : jobs[j] \notin {Guest} \cup (Users \ {claimed})
    /\ asset # Guest

\* When nothing is under way every byte is on one counter, of whoever owns the document,
\* however claims race or fail (claim_session's lock and fold; under Unhurried).
Owned(x)    == Cardinality({p \in Makers : owner[p] = x})
CountedOnce ==
  (\A p \in Makers \cup Users : pc[p] \in {"idle", "done"}) =>
    /\ \A u \in Users : used[u] = Owned(u)
    /\ alive /\ sweep = "idle" => bytes = Owned(Guest)

\* The purge deletes nothing an account owns ("guest_purge can never cascade into rows
\* the user now owns", claim.py:16): it does, if the claim commits after its question.
PurgeSparesAccounts ==
  [][\A p \in Makers : owner[p] \in Users => owner'[p] # Gone]_vars
=============================================================================
