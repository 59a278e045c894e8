-------------------------- MODULE AuditChainProofs --------------------------
(***************************************************************************)
(* Theorems about AuditChain, for any writers, any ids and any clock, when *)
(* the events' times are all different and reach the row's lock in their   *)
(* order.                                                                  *)
(***************************************************************************)
EXTENDS AuditChain, Sequences, TLAPS

OrderlySpec == Init /\ [][Next /\ InTime /\ Distinct]_vars

\* The clock, and the times taken from it.
TimeInv ==
  /\ now \in Nat \ {0}
  /\ \A r \in rows : /\ r.at \in Nat \ {0} /\ r.at <= now /\ r.id \in Nat
                     /\ {"at", "id", "what", "prev", "hash"} \subseteq DOMAIN r
  /\ pc \in [Writers -> {"idle", "lock", "read", "insert"}]
  /\ DOMAIN event = Writers /\ DOMAIN tail = Writers
  /\ \A w \in Writers : /\ pc[w] = "idle" => event[w] = NoEvent
                        /\ pc[w] # "idle" => event[w].at \in 1..now /\ event[w].id \in Nat

\* Every row and every event that is being written has an id of its own.
IdInv ==
  /\ now <= MaxTime /\ holder \in Writers \cup {Unlocked}
  /\ damage \in {"none", "altered", "lost"}
  /\ \A r \in rows : r.id \in Ids
  /\ \A q, r \in rows : q.id = r.id => q = r
  /\ \A w \in Writers : pc[w] # "idle" => /\ event[w].id \in Ids
                                          /\ \A r \in rows : r.id # event[w].id
  /\ \A v, w \in Writers : /\ v # w /\ pc[v] # "idle" /\ pc[w] # "idle"
                           => event[v].id # event[w].id

\* All times are different; an event that is being written is later than the rows, and one
\* whose writer holds the row is earlier than those that wait for it.
OrderInv ==
  /\ \A q, r \in rows : q.at = r.at => q = r
  /\ \A w \in Writers : pc[w] # "idle" => \A r \in rows : r.at < event[w].at
  /\ \A v, w \in Writers : /\ v # w /\ pc[v] # "idle" /\ pc[w] # "idle"
                           => event[v].at # event[w].at
  /\ \A w \in Writers : pc[w] \in {"read", "insert"} => holder = w
  /\ \A v, w \in Writers : pc[w] \in {"read", "insert"} /\ pc[v] = "lock"
                           => event[w].at < event[v].at

IsLast(S, l) == l \in S /\ \A q \in S \ {l} : q.at < l.at
Ended(S)     == S = {} \/ \E l \in S : IsLast(S, l)

\* A row covers its time and what it is chained to, which is something earlier; whoever is
\* about to insert has the hash of the last row.
ShapeInv ==
  /\ \A r \in rows : /\ r.hash = <<<<"event", r.at>>, r.prev>>
                     /\ r.prev # Genesis => r.prev[1][2] \in Nat /\ r.prev[1][2] < r.at
  /\ Ended(rows)
  /\ \A w \in Writers : pc[w] = "insert" => tail[w] = LastHash(rows)

\* While nothing has been damaged the chain is whole, and every row but the last has one
\* that is chained to it.
WholeInv == damage = "none" =>
              /\ Intact /\ \A r \in rows : Ended(Earlier(r))
              /\ \A r \in rows : IsLast(rows, r) \/ \E s \in rows : s.prev = r.hash

\* Afterwards there is a row that shows it.
DamageInv == /\ damage \in {"none", "altered", "lost"}
             /\ damage = "altered" => \E r \in rows : r.what = "altered"
             /\ damage = "lost" => \E r \in rows : r.prev # LastHash(Earlier(r))

IInv == TimeInv /\ OrderInv /\ ShapeInv /\ NoFork /\ WholeInv /\ DamageInv

-----------------------------------------------------------------------------
(* The last of some rows.                                                  *)

Timed(S) == /\ \A q \in S : q.at \in Nat /\ q.id \in Nat
            /\ \A q, r \in S : q.at = r.at => q = r

LEMMA EarlierIs ==
  ASSUME NEW S, Timed(S), NEW r \in S
  PROVE  {q \in S : Before(q, r)} = {q \in S : q.at < r.at}
  <1>1. \A q \in S : q.at \in Nat /\ q.id \in Nat /\ (q.at = r.at => q = r)
    BY DEF Timed
  <1>2. \A q \in S : Before(q, r) <=> q.at < r.at
    <2> TAKE q \in S
    <2>1. CASE q.at = r.at
      BY <1>1, <2>1 DEF Before
    <2>2. CASE q.at # r.at
      BY <1>1, <2>2 DEF Before
    <2> QED
      BY <2>1, <2>2
  <1> QED
    BY <1>2

LEMMA LastIs ==
  ASSUME NEW S, Timed(S), NEW l, IsLast(S, l)
  PROVE  Last(S) = l /\ LastHash(S) = l.hash
  <1>1. \A q \in S : q.at \in Nat
    BY DEF Timed
  <1>2. \A q \in S \ {l} : Before(q, l) /\ q.at < l.at
    BY <1>1 DEF IsLast, Before
  <1>3. \A k \in S : (\A q \in S \ {k} : Before(q, k)) => k = l
    <2> SUFFICES ASSUME NEW k \in S, \A q \in S \ {k} : Before(q, k), k # l PROVE FALSE
      OBVIOUS
    <2>1. l \in S /\ Before(l, k) /\ k.at < l.at
      BY <1>2 DEF IsLast
    <2>2. l.at < k.at \/ l.at = k.at
      BY <2>1 DEF Before
    <2>3. l.at \in Nat /\ k.at \in Nat
      BY <1>1, <2>1
    <2> QED
      BY <2>1, <2>2, <2>3
  <1>4. l \in S /\ S # {}
    BY DEF IsLast
  <1>5. Last(S) = l
    BY <1>2, <1>3, <1>4 DEF Last
  <1> QED
    BY <1>4, <1>5 DEF LastHash

\* The rows of a chain are such a set, before a step and after it.
LEMMA RowsTimed == TimeInv /\ OrderInv => Timed(rows)
  BY DEF TimeInv, OrderInv, Timed

LEMMA RowsTimedNext == TimeInv' /\ OrderInv' => Timed(rows')
  BY DEF TimeInv, OrderInv, Timed

-----------------------------------------------------------------------------
(* The times.                                                              *)

LEMMA TimeStep == ASSUME Assumptions, TimeInv, [Next]_vars PROVE TimeInv'
  <1> USE DEF TimeInv, NoEvent, Idle
  <1>1. CASE Tick
    BY <1>1 DEF Tick
  <1>2. ASSUME NEW w \in Writers, Construct(w) PROVE TimeInv'
    <2>1. /\ event'[w].at = now /\ event'[w].id \in Ids /\ DOMAIN event' = DOMAIN event
          /\ \A v \in Writers \ {w} : event'[v] = event[v]
      BY <1>2 DEF Construct
    <2>2. pc' = [pc EXCEPT ![w] = "lock"] /\ UNCHANGED <<now, rows, tail>>
      BY <1>2 DEF Construct
    <2>3. Ids \subseteq Nat /\ now \in 1..now
      BY DEF Assumptions
    <2>4. \A v \in Writers : v = w \/ (pc'[v] = pc[v] /\ event'[v] = event[v])
      BY <2>1, <2>2
    <2>5. pc'[w] = "lock" /\ event'[w].at \in 1..now /\ event'[w].id \in Nat
      BY <2>1, <2>2, <2>3
    <2> QED
      BY <2>1, <2>2, <2>4, <2>5
  <1>3. ASSUME NEW w \in Writers, LockRow(w) PROVE TimeInv'  BY <1>3 DEF LockRow
  <1>4. ASSUME NEW w \in Writers, ReadTail(w) PROVE TimeInv'  BY <1>4 DEF ReadTail
  <1>5. ASSUME NEW w \in Writers, Insert(w) PROVE TimeInv'
    <2>1. event[w].at \in 1..now /\ event[w].id \in Nat
      BY <1>5 DEF Insert
    <2>2. \A r \in rows' : /\ r.at \in Nat \ {0} /\ r.at <= now /\ r.id \in Nat
                           /\ {"at", "id", "what", "prev", "hash"} \subseteq DOMAIN r
      BY <1>5, <2>1 DEF Insert
    <2>3. /\ pc' = [pc EXCEPT ![w] = "idle"] /\ event' = [event EXCEPT ![w] = NoEvent]
          /\ DOMAIN tail' = DOMAIN tail /\ UNCHANGED now
      BY <1>5 DEF Insert
    <2> QED
      BY <2>2, <2>3
  <1>6. ASSUME NEW w \in Writers, Crash(w) PROVE TimeInv'  BY <1>6 DEF Crash
  <1>7. ASSUME NEW r \in rows, Alter(r) PROVE TimeInv'
    <2>1. /\ rows' = (rows \ {r}) \cup {[r EXCEPT !.what = "altered"]}
          /\ UNCHANGED <<now, pc, event, tail>>
      BY <1>7 DEF Alter
    <2>2. LET s == [r EXCEPT !.what = "altered"]
          IN  s.at = r.at /\ s.id = r.id /\ DOMAIN s = DOMAIN r
      OBVIOUS
    <2> QED
      BY <2>1, <2>2
  <1>8. ASSUME NEW r \in rows, Lose(r) PROVE TimeInv'  BY <1>8 DEF Lose
  <1>9. CASE UNCHANGED vars  BY <1>9 DEF vars
  <1> QED
    BY <1>1, <1>2, <1>3, <1>4, <1>5, <1>6, <1>7, <1>8, <1>9 DEF Next

LEMMA IdStep == ASSUME Assumptions, TimeInv, IdInv, [Next]_vars PROVE IdInv'
  <1> USE DEF TimeInv, IdInv, Idle
  <1>1. CASE Tick
    BY <1>1 DEF Tick, Assumptions
  <1>2. ASSUME NEW w \in Writers, Construct(w) PROVE IdInv'
    <2>1. /\ event'[w].id \in Ids /\ \A r \in rows : r.id # event'[w].id
          /\ \A v \in Writers \ {w} : /\ event'[v] = event[v] /\ pc'[v] = pc[v]
                                      /\ event[v].id # event'[w].id
      BY <1>2 DEF Construct
    <2>2. UNCHANGED <<now, rows, holder, damage>>
      BY <1>2 DEF Construct
    <2> QED
      BY <2>1, <2>2
  <1>3. ASSUME NEW w \in Writers, LockRow(w) PROVE IdInv'  BY <1>3 DEF LockRow
  <1>4. ASSUME NEW w \in Writers, ReadTail(w) PROVE IdInv'  BY <1>4 DEF ReadTail
  <1>5. ASSUME NEW w \in Writers, Insert(w) PROVE IdInv'
    <2> DEFINE n == [at |-> event[w].at, id |-> event[w].id, what |-> "event",
                     prev |-> tail[w], hash |-> Digest(<<"event", event[w].at>>, tail[w])]
    <2>1. n.id \in Ids /\ (\A r \in rows : r.id # n.id) /\ rows' = rows \cup {n}
      BY <1>5 DEF Insert
    <2>2. \A v \in Writers \ {w} : pc[v] # "idle" => event[v].id # n.id
      BY <1>5 DEF Insert
    <2>3. /\ pc' = [pc EXCEPT ![w] = "idle"] /\ event' = [event EXCEPT ![w] = NoEvent]
          /\ UNCHANGED <<now, damage>> /\ holder' \in {holder, Unlocked}
      BY <1>5 DEF Insert
    <2> HIDE DEF n
    <2>4. \A q, r \in rows' : q.id = r.id => q = r
      BY <2>1
    <2>5. \A v \in Writers : pc'[v] # "idle" => v # w /\ pc'[v] = pc[v] /\ event'[v] = event[v]
      BY <2>3
    <2>6. \A v \in Writers : pc'[v] # "idle" => \A r \in rows' : r.id # event'[v].id
      BY <2>1, <2>2, <2>5
    <2> QED
      BY <2>1, <2>3, <2>4, <2>5, <2>6
  <1>6. ASSUME NEW w \in Writers, Crash(w) PROVE IdInv'  BY <1>6 DEF Crash
  <1>7. ASSUME NEW r \in rows, Alter(r) PROVE IdInv'
    <2> DEFINE s == [r EXCEPT !.what = "altered"]
    <2>1. /\ rows' = (rows \ {r}) \cup {s} /\ damage' = "altered"
          /\ UNCHANGED <<now, holder, pc, event, tail>>
      BY <1>7 DEF Alter
    <2>2. s.id = r.id
      OBVIOUS
    <2> HIDE DEF s
    <2> QED
      BY <2>1, <2>2
  <1>8. ASSUME NEW r \in rows, Lose(r) PROVE IdInv'  BY <1>8 DEF Lose
  <1>9. CASE UNCHANGED vars  BY <1>9 DEF vars
  <1> QED
    BY <1>1, <1>2, <1>3, <1>4, <1>5, <1>6, <1>7, <1>8, <1>9 DEF Next

-----------------------------------------------------------------------------
(* The order.                                                              *)

LEMMA OrderStep ==
  ASSUME Assumptions, TimeInv, OrderInv, [Next /\ InTime /\ Distinct]_vars PROVE OrderInv'
  <1> USE DEF TimeInv, OrderInv, Idle
  <1>1. CASE Tick
    BY <1>1 DEF Tick
  <1>2. ASSUME NEW w \in Writers, Construct(w), Distinct PROVE OrderInv'
    <2>1. /\ event'[w].at = now /\ \A v \in Writers \ {w} : event'[v] = event[v]
          /\ pc' = [pc EXCEPT ![w] = "lock"] /\ UNCHANGED <<rows, holder>>
          /\ pc[w] = "idle"
      BY <1>2 DEF Construct
    <2>2. event[w].at = 0 /\ event[w] # event'[w] /\ event'[w] # NoEvent
      BY <2>1 DEF NoEvent
    <2>3. /\ \A r \in rows : r.at # now
          /\ \A v \in Writers \ {w} : event[v].at # now
      BY <1>2, <2>1, <2>2 DEF Distinct
    <2>4. /\ \A r \in rows : r.at < now
          /\ \A v \in Writers \ {w} : pc[v] # "idle" => event[v].at < now
      BY <2>3
    <2> QED
      BY <2>1, <2>4
  <1>3. ASSUME NEW w \in Writers, LockRow(w), InTime PROVE OrderInv'
    <2>1. /\ pc[w] = "lock" /\ pc' = [pc EXCEPT ![w] = "read"]
          /\ holder = Unlocked /\ holder' = w /\ UNCHANGED <<rows, event>>
      BY <1>3 DEF LockRow
    <2>2. \A v \in Writers : pc[v] = "lock" => event[w].at <= event[v].at
      BY <1>3, <2>1 DEF InTime
    <2>3. \A v \in Writers : pc'[v] \in {"read", "insert"} => v = w
      BY <2>1 DEF Assumptions
    <2>4. \A v \in Writers : pc'[v] = "lock" => v # w /\ event[w].at < event[v].at
      BY <2>1, <2>2
    <2> QED
      BY <2>1, <2>3, <2>4
  <1>4. ASSUME NEW w \in Writers, ReadTail(w) PROVE OrderInv'  BY <1>4 DEF ReadTail
  <1>5. ASSUME NEW w \in Writers, Insert(w) PROVE OrderInv'
    <2>1. /\ pc[w] = "insert" /\ pc' = [pc EXCEPT ![w] = "idle"]
          /\ event' = [event EXCEPT ![w] = NoEvent]
          /\ holder = w /\ holder' = Unlocked
      BY <1>5 DEF Insert
    <2>2. PICK n : n.at = event[w].at /\ rows' = rows \cup {n}
      BY <1>5 DEF Insert
    <2>3. \A v \in Writers \ {w} : pc[v] # "idle" => pc[v] = "lock" /\ n.at < event[v].at
      BY <2>1, <2>2
    <2> QED
      BY <2>1, <2>2, <2>3
  <1>6. ASSUME NEW w \in Writers, Crash(w) PROVE OrderInv'
    BY <1>6 DEF Crash
  <1>7. ASSUME NEW r \in rows, Alter(r) PROVE OrderInv'
    <2>1. /\ rows' = (rows \ {r}) \cup {[r EXCEPT !.what = "altered"]}
          /\ UNCHANGED <<now, holder, pc, event, tail>>
      BY <1>7 DEF Alter
    <2>2. [r EXCEPT !.what = "altered"].at = r.at
      OBVIOUS
    <2> QED
      BY <2>1, <2>2
  <1>8. ASSUME NEW r \in rows, Lose(r) PROVE OrderInv'  BY <1>8 DEF Lose
  <1>9. CASE UNCHANGED vars  BY <1>9 DEF vars
  <1> QED
    BY <1>1, <1>2, <1>3, <1>4, <1>5, <1>6, <1>7, <1>8, <1>9 DEF Next

-----------------------------------------------------------------------------
(* The links.                                                              *)

\* An altered row keeps its time, its link and its hash; so the last row's hash does not
\* change.
LEMMA AlterKeeps ==
  ASSUME TimeInv, OrderInv, TimeInv', OrderInv', Ended(rows), NEW r \in rows, Alter(r)
  PROVE  /\ LastHash(rows') = LastHash(rows) /\ Ended(rows')
         /\ \E s : /\ rows' = (rows \ {r}) \cup {s} /\ s.what = "altered"
                   /\ s.at = r.at /\ s.prev = r.prev /\ s.hash = r.hash
  <1> DEFINE s == [r EXCEPT !.what = "altered"]
  <1>1. /\ rows' = (rows \ {r}) \cup {s} /\ s.what = "altered"
        /\ s.at = r.at /\ s.prev = r.prev /\ s.hash = r.hash
    BY DEF Alter, TimeInv
  <1> HIDE DEF s
  <1>2. PICK l \in rows : IsLast(rows, l)
    BY DEF Ended
  <1>3. LastHash(rows) = l.hash
    BY <1>2, RowsTimed, LastIs
  <1>4. \E k \in rows' : IsLast(rows', k) /\ k.hash = l.hash
    <2>1. CASE l = r
      BY <1>1, <1>2, <2>1 DEF IsLast
    <2>2. CASE l # r
      BY <1>1, <1>2, <2>2 DEF IsLast
    <2> QED
      BY <2>1, <2>2
  <1> QED
    BY <1>1, <1>3, <1>4, RowsTimedNext, LastIs DEF Ended

\* A lost row was not the last.
LEMMA LoseKeeps ==
  ASSUME TimeInv, OrderInv, TimeInv', OrderInv', Ended(rows), NEW r \in rows, Lose(r)
  PROVE  LastHash(rows') = LastHash(rows) /\ Ended(rows')
  <1>1. PICK l \in rows : IsLast(rows, l)
    BY DEF Ended
  <1>2. Last(rows) = l /\ LastHash(rows) = l.hash
    BY <1>1, RowsTimed, LastIs
  <1>3. IsLast(rows', l)
    BY <1>1, <1>2 DEF Lose, IsLast
  <1> QED
    BY <1>2, <1>3, RowsTimedNext, LastIs DEF Ended, IsLast

\* A new row is the last one, and is chained to the one that was.
LEMMA InsertAdds ==
  ASSUME TimeInv, OrderInv, ShapeInv, NEW w \in Writers, Insert(w)
  PROVE  \E n : /\ rows' = rows \cup {n} /\ n.what = "event"
                /\ n.at \in Nat /\ n.at = event[w].at /\ n.prev = LastHash(rows)
                /\ n.hash = <<<<"event", n.at>>, n.prev>>
                /\ \A q \in rows : q.at < n.at
  <1> DEFINE n == [at |-> event[w].at, id |-> event[w].id, what |-> "event",
                   prev |-> tail[w], hash |-> Digest(<<"event", event[w].at>>, tail[w])]
  <1>1. pc[w] = "insert" /\ rows' = rows \cup {n}
    BY DEF Insert
  <1>2. \A q \in rows : q.at < n.at
    BY <1>1 DEF OrderInv
  <1>3. n.prev = LastHash(rows) /\ n.at \in Nat
    BY <1>1 DEF ShapeInv, TimeInv
  <1>4. n.hash = <<<<"event", n.at>>, n.prev>>
    BY DEF Digest
  <1> QED
    BY <1>1, <1>2, <1>3, <1>4

LEMMA ShapeStep ==
  ASSUME TimeInv, OrderInv, TimeInv', OrderInv', ShapeInv, [Next]_vars PROVE ShapeInv'
  <1> USE DEF ShapeInv, Idle
  <1>1. CASE Tick
    BY <1>1 DEF Tick
  <1>2. ASSUME NEW w \in Writers, Construct(w) PROVE ShapeInv'
    BY <1>2 DEF Construct, TimeInv
  <1>3. ASSUME NEW w \in Writers, LockRow(w) PROVE ShapeInv'
    BY <1>3 DEF LockRow, TimeInv
  <1>4. ASSUME NEW w \in Writers, ReadTail(w) PROVE ShapeInv'
    BY <1>4 DEF ReadTail, TimeInv, OrderInv
  <1>5. ASSUME NEW w \in Writers, Insert(w) PROVE ShapeInv'
    <2>1. PICK n : /\ rows' = rows \cup {n}
                   /\ n.at \in Nat /\ n.at = event[w].at /\ n.prev = LastHash(rows)
                   /\ n.hash = <<<<"event", n.at>>, n.prev>>
                   /\ \A q \in rows : q.at < n.at
      BY <1>5, InsertAdds
    <2>2. n.prev # Genesis => n.prev[1][2] \in Nat /\ n.prev[1][2] < n.at
      <3>1. CASE rows = {}
        BY <2>1, <3>1 DEF LastHash
      <3>2. CASE rows # {}
        <4>1. PICK l \in rows : IsLast(rows, l)
          BY <3>2 DEF Ended
        <4>2. n.prev = <<<<"event", l.at>>, l.prev>>
          BY <2>1, <4>1, RowsTimed, LastIs
        <4>3. l.at \in Nat /\ l.at < n.at
          BY <2>1 DEF TimeInv
        <4> QED
          BY <4>2, <4>3
      <3> QED
        BY <3>1, <3>2
    <2>3. IsLast(rows', n)
      BY <2>1 DEF IsLast
    <2>4. \A v \in Writers : pc'[v] # "insert"
      BY <1>5 DEF Insert, OrderInv, TimeInv
    <2> QED
      BY <2>1, <2>2, <2>3, <2>4 DEF Ended, IsLast
  <1>6. ASSUME NEW w \in Writers, Crash(w) PROVE ShapeInv'
    BY <1>6 DEF Crash, TimeInv
  <1>7. ASSUME NEW r \in rows, Alter(r) PROVE ShapeInv'
    <2>1. UNCHANGED <<pc, tail>>
      BY <1>7 DEF Alter
    <2> QED
      BY <1>7, <2>1, AlterKeeps
  <1>8. ASSUME NEW r \in rows, Lose(r) PROVE ShapeInv'
    <2>1. UNCHANGED <<pc, tail>> /\ rows' \subseteq rows
      BY <1>8 DEF Lose
    <2> QED
      BY <1>8, <2>1, LoseKeeps
  <1>9. CASE UNCHANGED vars  BY <1>9 DEF vars
  <1> QED
    BY <1>1, <1>2, <1>3, <1>4, <1>5, <1>6, <1>7, <1>8, <1>9 DEF Next

\* A new row is chained to the last one, and no other row was.
LEMMA ForkStep ==
  ASSUME TimeInv, OrderInv, TimeInv', OrderInv', ShapeInv, NoFork, [Next]_vars
  PROVE  NoFork'
  <1> USE DEF NoFork
  <1>1. ASSUME UNCHANGED rows PROVE NoFork'
    BY <1>1
  <1>2. ASSUME NEW w \in Writers, Insert(w) PROVE NoFork'
    <2>1. PICK n : rows' = rows \cup {n} /\ n.prev = LastHash(rows)
      BY <1>2, InsertAdds
    <2>2. ASSUME NEW q \in rows PROVE q.prev # n.prev
      <3>1. PICK l \in rows : IsLast(rows, l)
        BY <2>2 DEF ShapeInv, Ended
      <3>2. n.prev = <<<<"event", l.at>>, l.prev>>
        BY <2>1, <3>1, RowsTimed, LastIs DEF ShapeInv
      <3>3. q.at <= l.at /\ q.at \in Nat /\ l.at \in Nat
        BY <3>1 DEF IsLast, TimeInv
      <3>4. CASE q.prev = Genesis
        BY <3>2, <3>4 DEF Genesis
      <3>5. CASE q.prev # Genesis
        <4>1. q.prev[1][2] \in Nat /\ q.prev[1][2] < q.at
          BY <3>5 DEF ShapeInv
        <4>2. n.prev[1][2] = l.at
          BY <3>2
        <4> QED
          BY <3>3, <4>1, <4>2
      <3> QED
        BY <3>4, <3>5
    <2> QED
      BY <2>1, <2>2
  <1>3. ASSUME NEW r \in rows, Alter(r) PROVE NoFork'
    <2>1. PICK s : rows' = (rows \ {r}) \cup {s} /\ s.prev = r.prev
      BY <1>3, AlterKeeps DEF ShapeInv
    <2> QED
      BY <2>1
  <1>4. ASSUME NEW r \in rows, Lose(r) PROVE NoFork'
    BY <1>4 DEF Lose
  <1> QED
    BY <1>1, <1>2, <1>3, <1>4
    DEF Next, Tick, Construct, LockRow, ReadTail, Crash, vars

\* What is earlier than a row stays as it is when a later one comes.
LEMMA InsertLeaves ==
  ASSUME TimeInv, OrderInv, TimeInv', OrderInv', ShapeInv, NEW w \in Writers, Insert(w),
         NEW r \in rows
  PROVE  r \in rows' /\ Earlier(r)' = Earlier(r)
  <1>1. PICK n : rows' = rows \cup {n} /\ \A q \in rows : q.at < n.at
    BY InsertAdds
  <1>2. /\ {q \in rows : Before(q, r)} = {q \in rows : q.at < r.at}
        /\ {q \in rows' : Before(q, r)} = {q \in rows' : q.at < r.at}
    BY <1>1, RowsTimed, RowsTimedNext, EarlierIs
  <1>3. {q \in rows' : q.at < r.at} = {q \in rows : q.at < r.at}
    <2>1. r.at \in Nat /\ n.at \in Nat /\ r.at < n.at
      BY <1>1 DEF TimeInv
    <2> QED
      BY <1>1, <2>1
  <1> QED
    BY <1>1, <1>2, <1>3 DEF Earlier

LEMMA WholeStep ==
  ASSUME TimeInv, OrderInv, TimeInv', OrderInv', ShapeInv, WholeInv, [Next]_vars
  PROVE  WholeInv'
  <1> SUFFICES ASSUME damage' = "none" PROVE WholeInv'
    BY DEF WholeInv
  <1>1. ASSUME UNCHANGED <<rows, damage>> PROVE WholeInv'
    BY <1>1 DEF WholeInv, Intact, Earlier
  <1>2. ASSUME NEW w \in Writers, Insert(w) PROVE WholeInv'
    <2>1. PICK n : /\ rows' = rows \cup {n} /\ n.what = "event"
                   /\ n.at \in Nat /\ n.prev = LastHash(rows)
                   /\ n.hash = <<<<"event", n.at>>, n.prev>>
                   /\ \A q \in rows : q.at < n.at
      BY <1>2, InsertAdds
    <2>2. /\ Intact /\ \A r \in rows : Ended(Earlier(r))
          /\ \A r \in rows : IsLast(rows, r) \/ \E s \in rows : s.prev = r.hash
      BY <1>2 DEF WholeInv, Insert
    <2>3. \A r \in rows : Earlier(r)' = Earlier(r)
      BY <1>2, InsertLeaves
    <2>4. {q \in rows' : Before(q, n)} = rows
      <3>1. {q \in rows' : Before(q, n)} = {q \in rows' : q.at < n.at}
        BY <2>1, RowsTimedNext, EarlierIs
      <3> QED
        BY <2>1, <3>1
    <2>5. Intact'
      <3>1. ASSUME NEW r \in rows
            PROVE  r.prev = LastHash(Earlier(r)') /\ r.hash = Digest(Payload(r), r.prev)
        BY <2>2, <2>3 DEF Intact
      <3>2. n.prev = LastHash({q \in rows' : Before(q, n)})
        BY <2>1, <2>4
      <3>3. n.hash = Digest(Payload(n), n.prev)
        BY <2>1 DEF Digest, Payload
      <3> QED
        BY <2>1, <3>1, <3>2, <3>3 DEF Intact, Earlier
    <2>6. \A r \in rows' : Ended({q \in rows' : Before(q, r)})
      BY <2>1, <2>2, <2>3, <2>4 DEF ShapeInv, Earlier
    <2>7. ASSUME NEW r \in rows
          PROVE  IsLast(rows', r) \/ \E s \in rows' : s.prev = r.hash
      <3>1. CASE IsLast(rows, r)
        BY <2>1, <3>1, RowsTimed, LastIs
      <3> QED
        BY <2>1, <2>2, <3>1
    <2>8. IsLast(rows', n)
      BY <2>1 DEF IsLast
    <2> QED
      BY <2>1, <2>5, <2>6, <2>7, <2>8 DEF WholeInv, Earlier
  <1> QED
    BY <1>1, <1>2
    DEF Next, Tick, Construct, LockRow, ReadTail, Crash, Alter, Lose, vars

\* The row that was chained to a lost one is chained to nothing that is left.
LEMMA LossShows ==
  ASSUME TimeInv, OrderInv, TimeInv', OrderInv', ShapeInv, WholeInv, NEW r \in rows, Lose(r)
  PROVE  \E s \in rows' : s.prev # LastHash(Earlier(s)')
  <1>1. rows' = rows \ {r} /\ r # Last(rows) /\ damage = "none"
    BY DEF Lose
  <1>2. PICK s \in rows : s.prev = r.hash
    BY <1>1, RowsTimed, LastIs DEF WholeInv
  <1>3. r.hash = <<<<"event", r.at>>, r.prev>> /\ r.hash # Genesis /\ r.at \in Nat
    <2>1. r.hash = <<<<"event", r.at>>, r.prev>> /\ r.at \in Nat
      BY DEF ShapeInv, TimeInv
    <2>2. Len(r.hash) = 2 /\ Len(Genesis) = 0
      BY <2>1 DEF Genesis
    <2> QED
      BY <2>1, <2>2
  <1>4. s \in rows'
    <2>1. r.prev # r.hash
      <3>1. CASE r.prev = Genesis
        BY <1>3, <3>1
      <3>2. CASE r.prev # Genesis
        <4>1. r.prev[1][2] \in Nat /\ r.prev[1][2] < r.at
          BY <3>2 DEF ShapeInv
        <4>2. r.hash[1][2] = r.at
          BY <1>3
        <4> QED
          BY <1>3, <4>1, <4>2
      <3> QED
        BY <3>1, <3>2
    <2> QED
      BY <1>1, <1>2, <2>1
  <1>5. IsLast(Earlier(s), r)
    <2>1. s.prev = LastHash(Earlier(s)) /\ Ended(Earlier(s))
      BY <1>1 DEF WholeInv, Intact
    <2>2. Earlier(s) # {}
      BY <1>2, <1>3, <2>1 DEF LastHash
    <2>3. PICK l \in Earlier(s) : IsLast(Earlier(s), l)
      BY <2>1, <2>2 DEF Ended
    <2>4. l \in rows /\ Timed(Earlier(s))
      BY RowsTimed DEF Earlier, Timed
    <2>5. l.hash = r.hash
      BY <1>2, <2>1, <2>3, <2>4, LastIs
    <2>6. l.at = r.at
      <3>1. l.hash[1][2] = l.at /\ r.hash[1][2] = r.at
        BY <1>3, <2>4 DEF ShapeInv
      <3> QED
        BY <2>5, <3>1
    <2> QED
      BY <2>3, <2>4, <2>6 DEF OrderInv
  <1>6. {q \in rows' : Before(q, s)} = {q \in rows : q.at < r.at}
    <2>1. {q \in rows' : Before(q, s)} = {q \in rows' : q.at < s.at}
      BY <1>4, RowsTimedNext, EarlierIs
    <2>2. Earlier(s) = {q \in rows : q.at < s.at}
      BY RowsTimed, EarlierIs DEF Earlier
    <2>3. r.at < s.at /\ \A q \in rows \ {r} : q.at < s.at => q.at < r.at
      BY <1>5, <2>2 DEF IsLast
    <2>4. \A q \in rows : q.at \in Nat
      BY DEF TimeInv
    <2>5. \A q \in rows \ {r} : q.at < r.at => q.at < s.at
      BY <2>3, <2>4
    <2>6. ~ r.at < r.at
      BY <1>3
    <2> QED
      BY <1>1, <2>1, <2>3, <2>5, <2>6
  <1>7. LastHash({q \in rows : q.at < r.at}) # r.hash
    <2>1. Earlier(r) = {q \in rows : q.at < r.at} /\ Ended(Earlier(r))
      BY <1>1, RowsTimed, EarlierIs DEF Earlier, WholeInv
    <2>2. CASE Earlier(r) = {}
      BY <1>3, <2>1, <2>2 DEF LastHash
    <2>3. CASE Earlier(r) # {}
      <3>1. PICK l \in Earlier(r) : IsLast(Earlier(r), l)
        BY <2>1, <2>3 DEF Ended
      <3>2. l \in rows /\ l.at < r.at /\ l.at \in Nat /\ Timed(Earlier(r))
        BY <2>1, RowsTimed DEF Timed, TimeInv
      <3>3. LastHash(Earlier(r)) = l.hash
        BY <3>1, <3>2, LastIs
      <3>4. l.hash[1][2] = l.at /\ r.hash[1][2] = r.at
        BY <1>3, <3>2 DEF ShapeInv
      <3> QED
        BY <1>3, <2>1, <3>2, <3>3, <3>4
    <2> QED
      BY <2>2, <2>3
  <1> QED
    BY <1>2, <1>4, <1>6, <1>7 DEF Earlier

LEMMA DamageStep ==
  ASSUME TimeInv, OrderInv, TimeInv', OrderInv', ShapeInv, WholeInv, DamageInv, [Next]_vars
  PROVE  DamageInv'
  <1>1. ASSUME UNCHANGED <<rows, damage>> PROVE DamageInv'
    BY <1>1 DEF DamageInv, Earlier
  <1>2. ASSUME NEW w \in Writers, Insert(w) PROVE DamageInv'
    <2>1. \A r \in rows : r \in rows' /\ Earlier(r)' = Earlier(r)
      BY <1>2, InsertLeaves
    <2>2. damage' = damage
      BY <1>2 DEF Insert
    <2> QED
      BY <2>1, <2>2 DEF DamageInv, Earlier
  <1>3. ASSUME NEW r \in rows, Alter(r) PROVE DamageInv'
    <2>1. \E s \in rows' : s.what = "altered"
      BY <1>3, AlterKeeps DEF ShapeInv
    <2>2. damage' = "altered"
      BY <1>3 DEF Alter
    <2> QED
      BY <2>1, <2>2 DEF DamageInv
  <1>4. ASSUME NEW r \in rows, Lose(r) PROVE DamageInv'
    <2>1. damage' = "lost"
      BY <1>4 DEF Lose
    <2>2. PICK s \in rows' : s.prev # LastHash(Earlier(s)')
      BY <1>4, LossShows
    <2> QED
      BY <2>1, <2>2 DEF DamageInv, Earlier
  <1> QED
    BY <1>1, <1>2, <1>3, <1>4
    DEF Next, Tick, Construct, LockRow, ReadTail, Crash, vars

-----------------------------------------------------------------------------
(* The theorems.                                                           *)

LEMMA InvInit == Init => IInv
  BY DEF Init, IInv, TimeInv, OrderInv, ShapeInv, NoFork, WholeInv, DamageInv, Ended,
         Intact, Earlier

\* Whatever the order of the times, the rows and the events that are being written have the
\* types they should have, and ids that are all different.
THEOREM TypeCorrect == ASSUME Assumptions PROVE Spec => []TypeOK
  <1>1. Init => TimeInv /\ IdInv
    BY DEF Assumptions, Init, TimeInv, IdInv
  <1>2. TimeInv /\ IdInv /\ [Next]_vars => TimeInv' /\ IdInv'
    BY TimeStep, IdStep
  <1>3. TimeInv /\ IdInv => TypeOK
    BY DEF Assumptions, TimeInv, IdInv, TypeOK
  <1> QED
    BY <1>1, <1>2, <1>3, PTL DEF Spec

\* Under the condition every part of the invariant holds.
THEOREM InvCorrect == ASSUME Assumptions PROVE OrderlySpec => []IInv
  <1>1. IInv /\ [Next /\ InTime /\ Distinct]_vars => IInv'
    <2> SUFFICES ASSUME IInv, [Next /\ InTime /\ Distinct]_vars PROVE IInv'
      OBVIOUS
    <2>1. TimeInv' /\ OrderInv'
      BY TimeStep, OrderStep DEF IInv
    <2> QED
      BY <2>1, ShapeStep, ForkStep, WholeStep, DamageStep DEF IInv
  <1> QED
    BY InvInit, <1>1, PTL DEF OrderlySpec

\* However many writers there are, no two events are chained to the same one.
THEOREM NoForkCorrect == ASSUME Assumptions PROVE OrderlySpec => []NoFork
  <1>1. IInv => NoFork
    BY DEF IInv
  <1> QED
    BY <1>1, InvCorrect, PTL

\* verify_chain finds nothing broken where nothing has happened.
THEOREM ChainVerifiesCorrect == ASSUME Assumptions PROVE OrderlySpec => []ChainVerifies
  <1>1. IInv => ChainVerifies
    BY DEF IInv, WholeInv, ChainVerifies
  <1> QED
    BY <1>1, InvCorrect, PTL

\* verify_chain finds the row that was altered, or the gap one has left, for good.
THEOREM DamageNoticedCorrect == ASSUME Assumptions PROVE OrderlySpec => []DamageNoticed
  <1>1. IInv => DamageNoticed
    <2> SUFFICES ASSUME IInv, damage # "none" PROVE ~Intact
      BY DEF DamageNoticed
    <2>1. CASE damage = "altered"
      <3>1. PICK r \in rows : r.what = "altered"
        BY <2>1 DEF IInv, DamageInv
      <3>2. r.hash[1][1] = "event"
        BY DEF IInv, ShapeInv
      <3>3. Digest(Payload(r), r.prev)[1][1] = "altered"
        BY <3>1 DEF Digest, Payload
      <3> QED
        BY <3>2, <3>3 DEF Intact
    <2>2. CASE damage = "lost"
      BY <2>2 DEF IInv, DamageInv, Intact
    <2> QED
      BY <2>1, <2>2 DEF IInv, DamageInv
  <1> QED
    BY <1>1, InvCorrect, PTL
=============================================================================
