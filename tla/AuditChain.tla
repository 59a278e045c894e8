----------------------------- MODULE AuditChain ------------------------------
(***************************************************************************)
(* The hash chain of a signing request's audit events.  An event takes its *)
(* time when it is constructed; saving it locks the request's row, reads   *)
(* the last event by (created_at, id), and inserts the new one chained to  *)
(* it.  verify_chain reads the events in that same order.                  *)
(*                                                                         *)
(* The keyed digest is a pair of what it covers: equal only if all of it   *)
(* is equal.  Nobody without the key can make one, so damage to a row is a *)
(* change of its payload, or its loss, that leaves every digest as it was. *)
(*                                                                         *)
(* A definition named X_Y is X with the slip its comment names, put in the *)
(* place of X to see that a property notices; no action uses it.           *)
(***************************************************************************)
EXTENDS Naturals

CONSTANTS Writers,   \* requests and tasks that each record events
          Unlocked,  \* nobody holds the row
          Ids,       \* primary keys, random
          MaxTime    \* bound: how far the clock goes

Assumptions ==
  /\ Unlocked \notin Writers /\ Ids \subseteq Nat /\ MaxTime \in Nat \ {0}

VARIABLES
  now,      \* the clock
  rows,     \* the AuditEvent rows of the request
  holder,   \* who holds the lock on the request's row
  pc,       \* where each writer is
  event,    \* the event it is writing: created_at and id
  tail,     \* the event_hash it has read; Genesis if there was no event
  damage    \* "none", "altered" or "lost": what has befallen one row

vars == <<now, rows, holder, pc, event, tail, damage>>

Genesis == <<>>
NoEvent == [at |-> 0, id |-> 0]

\* The order of the rows.
Before(a, b) == a.at < b.at \/ (a.at = b.at /\ a.id < b.id)
Earlier(r)   == {q \in rows : Before(q, r)}
Last(S)      == CHOOSE r \in S : \A q \in S \ {r} : Before(q, r)
LastHash(S)  == IF S = {} THEN Genesis ELSE Last(S).hash

\* (the digest of the links alone)
Digest_Links(payload, prev) == <<prev>>
Digest(payload, prev) == <<payload, prev>>
Payload(r) == <<r.what, r.at>>

Init ==
  /\ now = 1 /\ rows = {} /\ holder = Unlocked
  /\ pc = [w \in Writers |-> "idle"]
  /\ event = [w \in Writers |-> NoEvent]
  /\ tail = [w \in Writers |-> Genesis]
  /\ damage = "none"

Tick ==
  /\ now < MaxTime /\ now' = now + 1
  /\ UNCHANGED <<rows, holder, pc, event, tail, damage>>

Idle(w) ==
  /\ pc' = [pc EXCEPT ![w] = "idle"]
  /\ event' = [event EXCEPT ![w] = NoEvent]
  /\ tail' = [tail EXCEPT ![w] = Genesis]

\* AuditEvent(...): the defaults are taken here, before any lock.
Construct(w) ==
  /\ pc[w] = "idle"
  /\ \E i \in Ids \ ({r.id : r \in rows} \cup {event[v].id : v \in Writers}) :
       event' = [event EXCEPT ![w] = [at |-> now, id |-> i]]
  /\ pc' = [pc EXCEPT ![w] = "lock"]
  /\ UNCHANGED <<now, rows, holder, tail, damage>>

\* (nobody waits)
LockRow_Unlocked(w) ==
  /\ pc[w] = "lock"
  /\ pc' = [pc EXCEPT ![w] = "read"]
  /\ UNCHANGED <<now, rows, holder, event, tail, damage>>

LockRow(w) ==
  /\ pc[w] = "lock" /\ holder = Unlocked
  /\ holder' = w /\ pc' = [pc EXCEPT ![w] = "read"]
  /\ UNCHANGED <<now, rows, event, tail, damage>>

ReadTail(w) ==
  /\ pc[w] = "read"
  /\ tail' = [tail EXCEPT ![w] = LastHash(rows)]
  /\ pc' = [pc EXCEPT ![w] = "insert"]
  /\ UNCHANGED <<now, rows, holder, event, damage>>

\* The commit frees the row.
Insert(w) ==
  /\ pc[w] = "insert"
  /\ rows' = rows \cup {[at |-> event[w].at, id |-> event[w].id, what |-> "event",
                         prev |-> tail[w],
                         hash |-> Digest(<<"event", event[w].at>>, tail[w])]}
  /\ holder' = (IF holder = w THEN Unlocked ELSE holder) /\ Idle(w)
  /\ UNCHANGED <<now, damage>>

\* The transaction is rolled back.
Crash(w) ==
  /\ pc[w] # "idle"
  /\ holder' = (IF holder = w THEN Unlocked ELSE holder) /\ Idle(w)
  /\ UNCHANGED <<now, rows, damage>>

\* One row of the table is altered, or lost: any but the last, whose loss
\* nothing in the table shows.
Alter(r) ==
  /\ damage = "none" /\ damage' = "altered"
  /\ rows' = (rows \ {r}) \cup {[r EXCEPT !.what = "altered"]}
  /\ UNCHANGED <<now, holder, pc, event, tail>>

Lose(r) ==
  /\ damage = "none" /\ damage' = "lost"
  /\ r # Last(rows) /\ rows' = rows \ {r}
  /\ UNCHANGED <<now, holder, pc, event, tail>>

Next ==
  \/ Tick
  \/ \E w \in Writers : \/ Construct(w) \/ LockRow(w) \/ ReadTail(w) \/ Insert(w)
                        \/ Crash(w)
  \/ \E r \in rows : Alter(r) \/ Lose(r)

Spec == Init /\ [][Next]_vars

\* The condition under which the chain is one: times that are all different and
\* reach the lock in their order.
InTime ==
  \A w \in Writers : pc[w] = "lock" /\ pc'[w] = "read" =>
    \A v \in Writers : pc[v] = "lock" => event[w].at <= event[v].at
Distinct ==
  \A w \in Writers : event'[w] # event[w] /\ event'[w] # NoEvent =>
    /\ \A r \in rows : r.at # event'[w].at
    /\ \A v \in Writers \ {w} : event[v].at # event'[w].at

DistinctSpec == Init /\ [][Next /\ Distinct]_vars

-----------------------------------------------------------------------------
(* Properties.                                                             *)

TypeOK ==
  /\ now \in 1..MaxTime /\ holder \in Writers \cup {Unlocked}
  /\ \A r \in rows : r.at \in 1..MaxTime /\ r.id \in Ids
  /\ \A q, r \in rows : q.id = r.id => q = r
  /\ pc \in [Writers -> {"idle", "lock", "read", "insert"}]
  /\ \A w \in Writers : event[w] = NoEvent \/ event[w].id \in Ids
  /\ damage \in {"none", "altered", "lost"}

\* verify_chain: every row points at the one before it and has the digest of its
\* payload and of that.
Intact == \A r \in rows : /\ r.prev = LastHash(Earlier(r))
                          /\ r.hash = Digest(Payload(r), r.prev)

\* "verify_chain would report broken for ever on a request where nothing wrong
\* actually happened": it does not, whoever writes at the same time.
ChainVerifies == damage = "none" => Intact

\* Two events are never chained to the same one, which would fork the chain.
NoFork == \A q, r \in rows : q.prev = r.prev => q = r

\* A row altered or lost, and everything recorded after it, is noticed for good.
DamageNoticed == damage # "none" => ~Intact
=============================================================================
