---------------------------- MODULE PasswordMeter ----------------------------
(***************************************************************************)
(* Wrong passwords on one document: counted in Redis, in buckets of a few  *)
(* seconds that slide, by the worker that meets them; a later request is   *)
(* refused.  The requests are the jobs of JobAdmission, at most            *)
(* MaxConcurrentJobs at a time.                                            *)
(*                                                                         *)
(* A definition named X_Y is X with the slip its comment names, put in the *)
(* place of X to see that a property notices; no action uses it.           *)
(***************************************************************************)
EXTENDS Naturals, FiniteSets, FiniteSetsExt

CONSTANTS Guesses,            \* requests with a wrong password
          AttemptsPerMinute, MaxConcurrentJobs,
          Bucket, Span,       \* ticks in a bucket, and buckets in the window
          KeyLife,            \* ticks a key lives: more than the window (thrice, in the code)
          MaxTime             \* bound

Window == Bucket * Span
Assumptions == {MaxConcurrentJobs, KeyLife, MaxTime} \subseteq Nat
               /\ {AttemptsPerMinute, Bucket, Span} \subseteq Nat \ {0} /\ KeyLife > Window

VARIABLES
  now,    \* the clock, in ticks
  count,  \* bucket -> its count, while the key is there
  ends,   \* bucket -> when its key expires
  pc,     \* what each guess does next
  at      \* when it was counted

vars == <<now, count, ends, pc, at>>

Init == /\ now = 0 /\ count = <<>> /\ ends = <<>>
        /\ pc = [g \in Guesses |-> "idle"] /\ at = [g \in Guesses |-> 0]

Goto(g, a) == pc' = [pc EXCEPT ![g] = a]
BucketOf(t) == t \div Bucket
Put(f, k, x) == [i \in DOMAIN f \cup {k} |-> IF i = k THEN x ELSE f[i]]

\* _password_keys: the buckets of the last minute that are there.
Keys == {b \in DOMAIN count : b + Span > BucketOf(now)}
FailuresInWindow == MapThenSumSet(LAMBDA b : count[b], Keys)

InFlight == {g \in Guesses : pc[g] \in {"queued", "add", "incr"}}

\* enforce_password_attempts, at the door.
Enforce(g) ==
  /\ pc[g] = "idle" /\ FailuresInWindow < AttemptsPerMinute
  /\ Goto(g, "asked") /\ UNCHANGED <<now, count, ends, at>>

\* And later the slot.
Enter(g) ==
  /\ pc[g] = "asked"
  /\ Goto(g, IF Cardinality(InFlight) < MaxConcurrentJobs THEN "queued" ELSE "idle")
  /\ UNCHANGED <<now, count, ends, at>>

\* The worker finds that it is wrong, and which bucket it is in.
Fail(g) ==
  /\ pc[g] = "queued"
  /\ at' = [at EXCEPT ![g] = now] /\ Goto(g, "add")
  /\ UNCHANGED <<now, count, ends>>

\* (set, not add)
Add_Sets(g) ==
  /\ pc[g] = "add" /\ Goto(g, "incr")
  /\ LET b == BucketOf(at[g])
     IN  count' = Put(count, b, 0) /\ ends' = Put(ends, b, now + KeyLife)
  /\ UNCHANGED <<now, at>>

\* cache.add: nothing, if the key is there.
Add(g) ==
  /\ pc[g] = "add" /\ Goto(g, "incr")
  /\ LET b == BucketOf(at[g])
     IN  IF b \in DOMAIN count THEN UNCHANGED <<count, ends>>
         ELSE /\ count' = Put(count, b, 0) /\ ends' = Put(ends, b, now + KeyLife)
  /\ UNCHANGED <<now, at>>

\* cache.incr, or cache.set if the key has expired since.
Incr(g) ==
  /\ pc[g] = "incr" /\ Goto(g, "done")
  /\ LET b == BucketOf(at[g])
     IN  IF b \in DOMAIN count
         THEN count' = [count EXCEPT ![b] = @ + 1] /\ UNCHANGED ends
         ELSE count' = Put(count, b, 1) /\ ends' = Put(ends, b, now + KeyLife)
  /\ UNCHANGED <<now, at>>

Tick ==
  /\ now < MaxTime /\ now' = now + 1
  /\ LET left == {b \in DOMAIN ends : ends[b] > now'}
     IN  /\ count' = [b \in left |-> count[b]] /\ ends' = [b \in left |-> ends[b]]
  /\ UNCHANGED <<pc, at>>

Next == Tick \/ \E g \in Guesses : Enforce(g) \/ Enter(g) \/ Fail(g) \/ Add(g) \/ Incr(g)

Spec == Init /\ [][Next]_vars

\* Nothing is counted while a request is between the two questions of its door: one
\* that waits there comes in on an old answer.
Prompt == (\E g \in Guesses : pc[g] = "asked") => count' = count

-----------------------------------------------------------------------------
(* Properties.                                                             *)

TypeOK ==
  /\ now \in 0..MaxTime /\ DOMAIN count \subseteq 0..MaxTime /\ DOMAIN ends = DOMAIN count
  /\ \A b \in DOMAIN count : count[b] \in 0..Cardinality(Guesses) /\ ends[b] \in Nat
  /\ pc \in [Guesses -> {"idle", "asked", "queued", "add", "incr", "done"}]
  /\ at \in [Guesses -> 0..MaxTime]

\* What is counted is neither lost, though many fail at once on a cold bucket, nor kept
\* past the minute (record_password_failure's docstring); and however the guesses are
\* timed, no more of them fall in one window than are allowed, and those at work with
\* the last one that was let in (that, under Prompt).
Done == {g \in Guesses : pc[g] = "done"}
Within(n) == Cardinality({g \in Done : now - at[g] < n})
MeterHolds ==
  /\ FailuresInWindow >= Within(Window - Bucket + 1) /\ FailuresInWindow <= Within(Window)
  /\ Within(Window - Bucket + 1) < AttemptsPerMinute + MaxConcurrentJobs
=============================================================================
