------------------------- MODULE AnnotationSession --------------------------
(***************************************************************************)
(* The annotation session of the Angular client: the facade's three stores *)
(* (saved, drafts, removed) and its undo history, the Annotate panel's      *)
(* gestures, autosave and save handler, the workspace's reloads, and as     *)
(* much of the server as decides them: a chain of versions, and jobs that   *)
(* carry the version they were based on.                                    *)
(*                                                                          *)
(* A mark is an annotation id; its value stands for all its fields.  A text *)
(* box that holds no text is "blank".                                       *)
(***************************************************************************)
EXTENDS Integers, Sequences, FiniteSets

CONSTANTS Marks,       \* annotation ids that may be drawn
          None,        \* no text box is being typed into
          Limit,       \* undo steps kept (the code keeps 100)
          MaxVersion   \* versions of the file: a bound of the model

VARIABLES
    versions,  \* what each version of the file holds, on the server
    seen,      \* viewer.currentSeq(): the version the client believes is the head
    saved,     \* what the last load said is in the file
    local,     \* drafts, removed, and the history of both
    saving,    \* the ids of the batch being saved
    editing,   \* the text box the caret is in
    typed,     \* what its editor holds
    born,      \* ids given out
    loads,     \* versions whose annotations have been asked for
    job,       \* the save under way, and who waits for its end
    open,      \* the panel is on the screen
    busy       \* its flag that a job is running

vars == <<versions, seen, saved, local, saving, editing, typed, born, loads, job, open, busy>>

Assumptions == /\ IsFiniteSet(Marks) /\ None \notin Marks
               /\ Limit \in Nat \ {0} /\ MaxVersion \in Nat \ {0}

Values == {"none", "blank", "ink", "moved", "text"}
Stores == [Marks -> Values]
NoMark == [m \in Marks |-> "none"]
Newest == Len(versions)
NoJob  == [st |-> "idle", put |-> NoMark, del |-> {}, base |-> 0, by |-> "panel", made |-> 0]

-----------------------------------------------------------------------------
(* The stores and their history.  An operation maps the local state to the *)
(* local state after it, so that a gesture that makes several is one step.  *)

Snapshot(l) == [drafts |-> l.drafts, removed |-> l.removed]

\* (The oldest steps are never dropped.)
Remember_KeepsAll(l) == [l EXCEPT !.past = Append(@, Snapshot(l)), !.future = <<>>]

\* The state before a change is remembered, the oldest step goes when there are too
\* many, and what could have been redone is forgotten.
Remember(l) ==
    LET longer == Append(l.past, Snapshot(l))
    IN  [l EXCEPT !.past = IF Len(longer) > Limit THEN Tail(longer) ELSE longer,
                  !.future = <<>>]

\* saved, under drafts, without removed.
All(l, m) == IF m \in l.removed THEN "none"
             ELSE IF l.drafts[m] # "none" THEN l.drafts[m] ELSE saved[m]

Add(l, m, v)  == [Remember(l) EXCEPT !.drafts[m] = v]

\* A change to a mark that is not there, or to what it already is, is no step.
Update(l, m, v) == IF All(l, m) \in {"none", v} THEN l
                   ELSE [Remember(l) EXCEPT !.drafts[m] = v]

\* (A mark that is deleted keeps its draft.)
Remove_KeepsDraft(l, m) == [Remember(l) EXCEPT !.removed = @ \union {m}]

Remove(l, m)  == [Remember(l) EXCEPT !.removed = @ \union {m}, !.drafts[m] = "none"]

RemoveAll(l)  == [Remember(l) EXCEPT
                    !.removed = @ \union {m \in Marks : All(l, m) # "none"},
                    !.drafts = NoMark]

\* A state that was remembered comes back whole.
Restored(l, s) == [l EXCEPT !.drafts = s.drafts, !.removed = s.removed]

\* The state now goes on the other stack.
Undone(l) == IF l.past = <<>> THEN l
             ELSE [Restored(l, l.past[Len(l.past)]) EXCEPT
                     !.past = SubSeq(l.past, 1, Len(l.past) - 1),
                     !.future = Append(@, Snapshot(l))]

Redone(l) == IF l.future = <<>> THEN l
             ELSE [Restored(l, l.future[Len(l.future)]) EXCEPT
                     !.past = Append(@, Snapshot(l)),
                     !.future = SubSeq(l.future, 1, Len(l.future) - 1)]

\* The batch: what was deleted and is in the file, and every draft.
Batch(l)  == [put |-> l.drafts, del |-> {m \in l.removed : saved[m] # "none"}]
BatchIds(b) == b.del \union {m \in Marks : b.put[m] # "none"}
Dirty     == BatchIds(Batch(local)) # {}

-----------------------------------------------------------------------------
(* Gestures.                                                                *)

\* Closing the editor commits what was typed, and drops a box left empty.
Committed(l) ==
    IF editing = None THEN l
    ELSE LET kept == Update(l, editing, typed)
         IN  IF All(kept, editing) = "blank" THEN Remove(kept, editing) ELSE kept

EndEditing == /\ editing # None /\ open
              /\ local' = Committed(local)
              /\ editing' = None /\ typed' = "none"
              /\ UNCHANGED <<versions, seen, saved, saving, born, loads, job, open, busy>>

\* A gesture on the page ends the open editor first.  A text box is created empty,
\* with the caret in it; any other mark is complete.
Draw(m, v) ==
    /\ open /\ m \notin born
    /\ born' = born \union {m}
    /\ local' = Add(Committed(local), m, v)
    /\ editing' = IF v = "blank" THEN m ELSE None
    /\ typed' = IF v = "blank" THEN "blank" ELSE "none"
    /\ UNCHANGED <<versions, seen, saved, saving, loads, job, open, busy>>

\* "Edit text" on a box, after closing the one the caret may be in.
EditText(m) ==
    /\ open /\ m # editing
    /\ All(Committed(local), m) \in {"text", "blank"}
    /\ local' = Committed(local)
    /\ editing' = m /\ typed' = All(Committed(local), m)
    /\ UNCHANGED <<versions, seen, saved, saving, born, loads, job, open, busy>>

Type(v) == /\ editing # None /\ v # typed
           /\ typed' = v
           /\ UNCHANGED <<versions, seen, saved, local, saving, editing, born, loads, job,
                          open, busy>>

\* A drag or a nudge reports the new rectangle, and the mark's points follow it.
Move(m) == /\ open /\ editing = None /\ All(local, m) \in {"ink", "moved"}
           /\ local' = Update(local, m, "moved")
           /\ UNCHANGED <<versions, seen, saved, saving, editing, typed, born, loads, job,
                          open, busy>>

\* A copy has an id of its own.
Duplicate(m, copy) ==
    /\ open /\ editing = None /\ All(local, m) # "none" /\ copy \notin born
    /\ born' = born \union {copy}
    /\ local' = Add(local, copy, All(local, m))
    /\ UNCHANGED <<versions, seen, saved, saving, editing, typed, loads, job, open, busy>>

Delete(m) == /\ open /\ editing = None /\ All(local, m) # "none"
             /\ local' = Remove(local, m)
             /\ UNCHANGED <<versions, seen, saved, saving, editing, typed, born, loads, job,
                            open, busy>>

ClearAll == /\ open /\ editing = None /\ \E m \in Marks : All(local, m) # "none"
            /\ local' = RemoveAll(local)
            /\ UNCHANGED <<versions, seen, saved, saving, editing, typed, born, loads, job,
                           open, busy>>

Undo == /\ open /\ Committed(local).past # <<>>
        /\ local' = Undone(Committed(local))
        /\ editing' = None /\ typed' = "none"
        /\ UNCHANGED <<versions, seen, saved, saving, born, loads, job, open, busy>>

Redo == /\ open /\ Committed(local).future # <<>>
        /\ local' = Redone(Committed(local))
        /\ editing' = None /\ typed' = "none"
        /\ UNCHANGED <<versions, seen, saved, saving, born, loads, job, open, busy>>

-----------------------------------------------------------------------------
(* Loading and saving.                                                      *)

\* The workspace's effect asks again when the panel opens and when the version it
\* sees has changed.
Ask(v) == loads' = IF open THEN loads \union {v} ELSE loads

\* The answer replaces saved, and drops from the local stores what was being saved.
LoadAnswer(v) ==
    /\ v \in loads
    /\ loads' = loads \ {v}
    /\ saved' = versions[v]
    /\ local' = [local EXCEPT
                   !.drafts = [m \in Marks |-> IF m \in saving THEN "none" ELSE @[m]],
                   !.removed = @ \ saving]
    /\ saving' = {}
    /\ UNCHANGED <<versions, seen, editing, typed, born, job, open, busy>>

LoadFails(v) == /\ v \in loads
                /\ loads' = loads \ {v}
                /\ UNCHANGED <<versions, seen, saved, local, saving, editing, typed, born,
                               job, open, busy>>

\* The ids that go out are remembered for the reload that will confirm them.
Dispatch(l, by) ==
    /\ BatchIds(Batch(l)) # {}
    /\ saving' = BatchIds(Batch(l))
    /\ job' = [st |-> "sent", put |-> Batch(l).put, del |-> Batch(l).del, base |-> seen,
               by |-> by, made |-> 0]

\* Save and autosave (every 30 s): the button and the timer wait for a running job.
Save == /\ open /\ ~busy /\ job.st = "idle"
        /\ Dispatch(local, "panel")
        /\ busy' = TRUE
        /\ UNCHANGED <<versions, seen, saved, local, editing, typed, born, loads, open>>

\* The worker applies the batch to the head, if the batch was based on it.
JobWorks ==
    /\ job.st = "sent" /\ job.base = Newest /\ Newest < MaxVersion
    /\ versions' = Append(versions,
           [m \in Marks |-> IF job.put[m] # "none" THEN job.put[m]
                            ELSE IF m \in job.del THEN "none" ELSE versions[Newest][m]])
    /\ job' = [job EXCEPT !.st = "succeeded", !.made = Newest + 1]
    /\ UNCHANGED <<seen, saved, local, saving, editing, typed, born, loads, open, busy>>

JobConflicts == /\ job.st = "sent" /\ job.base # Newest
                /\ job' = [job EXCEPT !.st = "conflict"]
                /\ UNCHANGED <<versions, seen, saved, local, saving, editing, typed, born,
                               loads, open, busy>>

\* Any other failure of the job, or of a request about it.
JobFails == /\ job.st = "sent"
            /\ job' = [job EXCEPT !.st = "failed"]
            /\ UNCHANGED <<versions, seen, saved, local, saving, editing, typed, born,
                           loads, open, busy>>

\* The panel hears of success: the workspace adopts the version, which reloads.
SaveSucceeded ==
    /\ job.st = "succeeded" /\ job.by = "panel"
    /\ job' = NoJob /\ busy' = FALSE
    /\ seen' = job.made /\ Ask(job.made)
    /\ UNCHANGED <<versions, saved, local, saving, editing, typed, born, open>>

\* (The ids that went out with a batch that was refused are remembered.)
SaveConflicted_KeepsSaving ==
    /\ job.st = "conflict" /\ job.by = "panel"
    /\ job' = NoJob /\ busy' = FALSE
    /\ seen' = Newest /\ Ask(Newest)
    /\ UNCHANGED <<versions, saved, local, saving, editing, typed, born, open>>

\* A conflict: forget that a save was under way, then reload at the head.
SaveConflicted ==
    /\ job.st = "conflict" /\ job.by = "panel"
    /\ job' = NoJob /\ busy' = FALSE /\ saving' = {}
    /\ seen' = Newest /\ Ask(Newest)
    /\ UNCHANGED <<versions, saved, local, editing, typed, born, open>>

\* Any other failure: a toast.
SaveFailed == /\ job.st = "failed" /\ job.by = "panel"
              /\ job' = NoJob /\ busy' = FALSE
              /\ UNCHANGED <<versions, seen, saved, local, saving, editing, typed, born,
                             loads, open>>

\* Nobody but a toast waits for a job whose panel has gone.
Unheard == /\ job.st \in {"succeeded", "conflict", "failed"} /\ job.by # "panel"
           /\ job' = NoJob
           /\ UNCHANGED <<versions, seen, saved, local, saving, editing, typed, born, loads,
                          open, busy>>

-----------------------------------------------------------------------------
(* Coming and going.                                                        *)

\* Another mode: the panel is destroyed, and with it its wait for a job.
SwitchAway ==
    /\ open
    /\ open' = FALSE /\ busy' = FALSE /\ editing' = None /\ typed' = "none"
    /\ local' = Committed(local)
    /\ job' = [job EXCEPT !.by = IF @ = "panel" THEN "nobody" ELSE @]
    /\ UNCHANGED <<versions, seen, saved, saving, born, loads>>

\* Another page of the site: the guard commits what is unsaved and lets go.
Leave ==
    /\ open /\ job.st = "idle" /\ editing = None
    /\ open' = FALSE /\ busy' = FALSE
    /\ Dispatch(local, "guard")
    /\ UNCHANGED <<versions, seen, saved, local, editing, typed, born, loads>>

\* Annotate again, in a workspace that has kept or fetched the document.
Open(v) ==
    /\ ~open /\ v \in {seen, Newest}
    /\ open' = TRUE /\ seen' = v /\ loads' = loads \union {v}
    /\ UNCHANGED <<versions, saved, local, saving, editing, typed, born, job, busy>>

\* Another operation, here or in another tab, makes a version.  Here, it is adopted.
OtherVersion(here) ==
    /\ Newest < MaxVersion
    /\ versions' = Append(versions, versions[Newest])
    /\ seen' = IF here THEN Newest + 1 ELSE seen
    /\ IF here THEN Ask(Newest + 1) ELSE UNCHANGED loads
    /\ UNCHANGED <<saved, local, saving, editing, typed, born, job, open, busy>>

-----------------------------------------------------------------------------
Init == /\ versions = <<NoMark>> /\ seen = 1
        /\ saved = NoMark /\ saving = {} /\ born = {}
        /\ local = [drafts |-> NoMark, removed |-> {}, past |-> <<>>, future |-> <<>>]
        /\ editing = None /\ typed = "none"
        /\ loads = {} /\ job = NoJob /\ open = TRUE /\ busy = FALSE

Next == \/ EndEditing \/ ClearAll \/ Undo \/ Redo \/ SwitchAway
        \/ \E m \in Marks : \/ \E v \in {"blank", "ink"} : Draw(m, v)
                            \/ \E copy \in Marks : Duplicate(m, copy)
                            \/ EditText(m) \/ Move(m) \/ Delete(m)
        \/ \E v \in {"blank", "text"} : Type(v)
        \/ Save \/ Leave
        \/ JobWorks \/ JobConflicts \/ JobFails
        \/ SaveSucceeded \/ SaveConflicted \/ SaveFailed \/ Unheard
        \/ \E v \in 1..MaxVersion : LoadAnswer(v) \/ LoadFails(v) \/ Open(v)
        \/ \E here \in BOOLEAN : OtherVersion(here)

Spec == Init /\ [][Next]_vars

-----------------------------------------------------------------------------
TypeOK ==
    /\ \A i \in 1..Newest : versions[i] \in Stores
    /\ Newest \in 1..MaxVersion /\ seen \in 1..MaxVersion /\ saved \in Stores
    /\ local.drafts \in Stores /\ local.removed \subseteq Marks
    /\ Len(local.past) <= Limit
    /\ saving \subseteq Marks /\ editing \in Marks \union {None} /\ typed \in Values
    /\ born \subseteq Marks /\ loads \subseteq 1..MaxVersion
    /\ job.st \in {"idle", "sent", "succeeded", "conflict", "failed"}
    /\ job.by \in {"panel", "guard", "nobody"} /\ {open, busy} \subseteq BOOLEAN

\* A batch never writes and deletes the same mark: whatever has been undone, redone,
\* saved or reloaded, no mark is both a draft and removed.
OneFatePerMark == \A m \in local.removed : local.drafts[m] = "none"

\* Undo and redo walk along one line of states and lose none of them: the states
\* before, the state now and the states after read the same when they have stepped.
Timeline(l) == l.past \o <<Snapshot(l)>>
                      \o [i \in 1..Len(l.future) |-> l.future[Len(l.future) + 1 - i]]
Walked == Undo \/ Redo => Timeline(local') = Timeline(Committed(local))
WalksTheLine == [][Walked]_vars

\* What the person drew, changed or deleted leaves the local stores in a reload only
\* when the version that is loaded has it.
Kept == \A v \in 1..MaxVersion : LoadAnswer(v) =>
            \A m \in Marks :
               /\ (local.drafts[m] # "none" /\ local'.drafts[m] = "none")
                     => versions[v][m] = local.drafts[m]
               /\ (m \in local.removed /\ m \notin local'.removed)
                     => versions[v][m] = "none"
KeptUntilStored == [][Kept]_vars

\* The person waits for the save: until the reload that follows has been answered, marks may
\* be drawn and changed, but those that went out stay as they are; nothing else is saved or
\* loaded, and nobody goes away.  The guard's save lands.
Waiting == job.st # "idle" \/ loads # {}
Gesture == \/ EndEditing \/ ClearAll \/ Undo \/ Redo
           \/ \E m \in Marks : \/ \E v \in {"blank", "ink"} : Draw(m, v)
                               \/ \E copy \in Marks : Duplicate(m, copy)
                               \/ EditText(m) \/ Move(m) \/ Delete(m)
           \/ \E v \in {"blank", "text"} : Type(v)
SentStays == \A m \in saving : /\ local'.drafts[m] = local.drafts[m]
                               /\ m \in local'.removed <=> m \in local.removed
PatientNext ==
    \/ Gesture /\ (Waiting => SentStays)
    \/ /\ ~Waiting
       /\ \/ Save \/ Leave \/ SwitchAway \/ OtherVersion(TRUE)
          \/ \E v \in 1..MaxVersion : Open(v)
    \/ JobWorks \/ (job.by = "panel" /\ (JobConflicts \/ JobFails))
    \/ SaveSucceeded \/ SaveConflicted \/ SaveFailed \/ Unheard
    \/ \E v \in 1..MaxVersion : LoadAnswer(v) \/ LoadFails(v)
    \/ OtherVersion(FALSE)
PatientSpec == Init /\ [][PatientNext]_vars

\* What a save or a reload that failed has left in `saving` is saved again before anything
\* else loads the marks; and who left the document comes back to the version made meanwhile.
Retries == ~Waiting /\ saving # {} =>
              /\ ~SwitchAway /\ ~OtherVersion(TRUE)
              /\ \A v \in 1..MaxVersion : Open(v) => v = Newest
=============================================================================
