---------------------------- MODULE FormsSession ----------------------------
(***************************************************************************)
(* The forms session of the Angular client: the fields of the file as last  *)
(* read, the values filled in, the builder's staged changes with their undo *)
(* history and its property sheet, and the jobs that save either.  The      *)
(* server's part is what it does with a batch of field changes, which it    *)
(* takes one by one and refuses whole.                                      *)
(*                                                                          *)
(* A field's definition stands for its type, place, options and flags.      *)
(***************************************************************************)
EXTENDS Integers, Sequences, SequencesExt, Lists

CONSTANTS Names, Defs, Vals, None, Limit,
          MaxVersion, MaxOps   \* versions, staged changes: bounds of the model

VARIABLES
    files,     \* the fields of each version, on the server
    seen,      \* currentSeq
    model,     \* the version the fields shown were read from; 0: none
    asks,      \* versions whose fields have been asked for
    values,    \* values staged by name
    ops,       \* staged changes of fields
    past, future,
    sheet,     \* the property sheet: the field selected, as it was then
    asked,     \* the field whose removal the dialog asks about
    job, busy

vars == <<files, seen, model, asks, values, ops, past, future, sheet, asked, job, busy>>

Assumptions == /\ Limit \in Nat \ {0} /\ MaxVersion \in Nat \ {0} /\ MaxOps \in Nat
               /\ Names # {} /\ None \notin Names \union Defs \union Vals
               /\ None \notin [def : Defs, val : Vals \union {None}]

Versions == 1..MaxVersion
Field    == [def : Defs, val : Vals \union {None}]
File     == [Names -> Field \union {None}]
Op       == [action : {"add", "update", "delete"}, name : Names, def : Defs \union {None}]
NoFile   == [n \in Names |-> None]
NoJob    == [st |-> "idle", kind |-> "none", base |-> 0, ops |-> <<>>, values |-> NoFile]
Fields   == IF model = 0 THEN NoFile ELSE files[model]

-----------------------------------------------------------------------------
(* What the server does with a batch.                                       *)

Refused == <<>>      \* no file

\* An update is a removal and a new field, which holds nothing.
ApplyOp(file, op) ==
    IF file = Refused \/ (op.action = "add") # (file[op.name] = None)
    THEN Refused
    ELSE [file EXCEPT ![op.name] = IF op.action = "delete" THEN None
                                   ELSE [def |-> op.def, val |-> None]]

ApplyBatch(file, batch) == FoldLeft(ApplyOp, file, batch)

\* Filling refuses a name that is not there.
Fill(file, vals) == IF \E n \in Names : vals[n] # None /\ file[n] = None THEN Refused
                    ELSE [n \in Names |-> IF vals[n] = None THEN file[n]
                                          ELSE [file[n] EXCEPT !.val = vals[n]]]

-----------------------------------------------------------------------------
(* Staging.  Each maps the staged changes to the staged changes after it.   *)

Staged(list, n) == {i \in DOMAIN list : list[i].name = n /\ list[i].action # "delete"}

\* (What is only staged does not take a name.)
Taken_OnFile(n) == Fields[n] # None
Taken(n)     == Fields[n] # None \/ \E i \in DOMAIN ops : ops[i].name = n
NameTaken(n) == Fields[n] # None \/ Staged(ops, n) # {}

Added(list, n, d) == Append(list, [action |-> "add", name |-> n, def |-> d])

\* One change a field: an update after an add is a different add.
Updated(list, n, d) ==
    IF Staged(list, n) = {}
    THEN Append(list, [action |-> "update", name |-> n, def |-> d])
    ELSE [list EXCEPT ![CHOOSE i \in Staged(list, n) : \A k \in Staged(list, n) : i <= k].def = d]

\* A field that was only ever staged is not the server's to remove.
Deleted(list, n) ==
    LET rest == Filtered(list, {op \in ToSet(list) : op.name # n})
    IN  IF \E i \in DOMAIN list : list[i].name = n /\ list[i].action = "add" THEN rest
        ELSE Append(rest, [action |-> "delete", name |-> n, def |-> None])

Remember(stack, list) == LET longer == Append(stack, list)
                         IN  IF Len(longer) > Limit THEN Tail(longer) ELSE longer

\* One step of the history, and the change.
Stage(list) == /\ Len(list) <= MaxOps
               /\ ops' = list /\ past' = Remember(past, ops) /\ future' = <<>>

\* What the page shows: the file's fields that no staged change deletes or replaces, and
\* every staged field.
Shown(n) ==
    IF Staged(ops, n) # {}
    THEN ops[CHOOSE i \in Staged(ops, n) : \A k \in Staged(ops, n) : k <= i].def
    ELSE IF Fields[n] = None \/ \E i \in DOMAIN ops : ops[i].name = n THEN None
    ELSE Fields[n].def

\* The sheet shows the first staged change of the field, else the file's field.
Select(list, n, isNew) ==
    LET at == {i \in DOMAIN list : list[i].name = n}
        op == list[CHOOSE i \in at : \A k \in at : i <= k]
    IN  [name |-> n,
         isNew |-> isNew \/ (at # {} /\ op.action = "add"),
         original |-> IF at # {} THEN [name |-> n, def |-> op.def]
                      ELSE IF Fields[n] # None THEN [name |-> n, def |-> Fields[n].def]
                      ELSE None]

-----------------------------------------------------------------------------
(* Building.                                                                *)

\* A field drawn on the page: staged under a name of its own, and selected.
Draw(n, d) ==
    /\ ~Taken(n)
    /\ Stage(Added(ops, n, d))
    /\ sheet' = Select(ops', n, TRUE)
    /\ UNCHANGED <<files, seen, model, asks, values, asked, job, busy>>

\* Paste and duplicate: what is copied is a definition, the name is a new one.
PlaceCopy(n, d) ==
    /\ \E held \in Names : Shown(held) = d
    /\ ~Taken(n)
    /\ Stage(Added(ops, n, d))
    /\ sheet' = Select(ops', n, TRUE)
    /\ UNCHANGED <<files, seen, model, asks, values, asked, job, busy>>

OnSelect(n) ==
    /\ Shown(n) # None
    /\ sheet' = Select(ops, n, FALSE)
    /\ UNCHANGED <<files, seen, model, asks, values, ops, past, future, asked, job, busy>>

\* Apply: a field believed to be staged is staged anew; a renamed one is a removal and a
\* new field; any other is an update.
ApplyProperties(n, d) ==
    /\ sheet # None /\ sheet.original # None
    /\ n # sheet.original.name => ~NameTaken(n)
    /\ LET old   == sheet.original.name
           fresh == sheet.isNew \/ n # old
       IN  /\ IF fresh
              THEN /\ Len(Added(Deleted(ops, old), n, d)) <= MaxOps
                   /\ ops' = Added(Deleted(ops, old), n, d)
                   /\ past' = Remember(Remember(past, ops), Deleted(ops, old))
                   /\ future' = <<>>
              ELSE Stage(Updated(ops, n, d))
           /\ sheet' = [name |-> n, isNew |-> fresh, original |-> [name |-> n, def |-> d]]
    /\ UNCHANGED <<files, seen, model, asks, values, asked, job, busy>>

OnGeometryChanged(n, d) ==
    /\ Shown(n) # None /\ d # Shown(n)
    /\ Stage(Updated(ops, n, d))
    /\ sheet' = IF sheet # None /\ sheet.name = n THEN Select(ops', n, sheet.isNew) ELSE sheet
    /\ UNCHANGED <<files, seen, model, asks, values, asked, job, busy>>

AskDelete(n) ==
    /\ asked = None /\ (Shown(n) # None \/ (sheet # None /\ sheet.name = n))
    /\ asked' = n
    /\ UNCHANGED <<files, seen, model, asks, values, ops, past, future, sheet, job, busy>>

AnswerDelete(yes) ==
    /\ asked # None
    /\ asked' = None
    /\ IF yes THEN /\ Stage(Deleted(ops, asked))
                   /\ sheet' = IF sheet # None /\ sheet.name = asked THEN None ELSE sheet
              ELSE UNCHANGED <<ops, past, future, sheet>>
    /\ UNCHANGED <<files, seen, model, asks, values, job, busy>>

DiscardFields == /\ ops # <<>>
                 /\ Stage(<<>>) /\ sheet' = None
                 /\ UNCHANGED <<files, seen, model, asks, values, asked, job, busy>>

Undo == /\ past # <<>>
        /\ ops' = past[Len(past)]
        /\ past' = SubSeq(past, 1, Len(past) - 1) /\ future' = Append(future, ops)
        /\ UNCHANGED <<files, seen, model, asks, values, sheet, asked, job, busy>>

Redo == /\ future # <<>>
        /\ ops' = future[Len(future)]
        /\ future' = SubSeq(future, 1, Len(future) - 1) /\ past' = Append(past, ops)
        /\ UNCHANGED <<files, seen, model, asks, values, sheet, asked, job, busy>>

-----------------------------------------------------------------------------
(* Filling, and the jobs.                                                   *)

\* Only names the fields shown have are taken from the viewer's form layer.
SetValue(n, v) ==
    /\ Fields[n] # None /\ values[n] # v
    /\ values' = [values EXCEPT ![n] = v]
    /\ UNCHANGED <<files, seen, model, asks, ops, past, future, sheet, asked, job, busy>>

Changed == [n \in Names |-> IF Fields[n] # None /\ values[n] # Fields[n].val
                            THEN values[n] ELSE None]

Send(kind, list, vals) ==
    /\ job.st = "idle"
    /\ job' = [st |-> "sent", kind |-> kind, base |-> seen, ops |-> list, values |-> vals]
    /\ busy' = TRUE
    /\ UNCHANGED <<files, seen, model, asks, values, ops, past, future, sheet, asked>>

Save       == Changed # NoFile /\ Send("fill", <<>>, Changed)
Flatten    == Send("flatten", <<>>, Changed)
Import(vs) == Send("import", <<>>, vs)
SaveFields == ops # <<>> /\ Send("batch", ops, NoFile)

Result == LET file == files[job.base]
          IN  CASE job.kind = "batch"   -> ApplyBatch(file, job.ops)
                [] job.kind = "flatten" -> IF Fill(file, job.values) = Refused THEN Refused
                                           ELSE NoFile
                [] OTHER                -> Fill(file, job.values)

Ended(st) == [NoJob EXCEPT !.st = st, !.base = job.base]

JobWorks ==
    /\ job.st = "sent" /\ job.base = Len(files) /\ Len(files) < MaxVersion
    /\ IF Result = Refused THEN job' = Ended("failed") /\ UNCHANGED files
       ELSE job' = Ended("succeeded") /\ files' = Append(files, Result)
    /\ UNCHANGED <<seen, model, asks, values, ops, past, future, sheet, asked, busy>>

JobRefused(st) ==
    /\ job.st = "sent" /\ (st = "conflict" => job.base # Len(files))
    /\ job' = Ended(st)
    /\ UNCHANGED <<files, seen, model, asks, values, ops, past, future, sheet, asked, busy>>

OtherTab ==
    /\ Len(files) < MaxVersion
    /\ \E n \in Names : /\ files[Len(files)][n] # None
                        /\ files' = Append(files, [files[Len(files)] EXCEPT ![n] = None])
    /\ UNCHANGED <<seen, model, asks, values, ops, past, future, sheet, asked, job, busy>>

\* A new version replaces the fields: everything staged is dropped, and they are read.
See(v) == /\ seen' = v /\ model' = 0 /\ asks' = asks \union {v}
          /\ values' = NoFile /\ ops' = <<>> /\ past' = <<>> /\ future' = <<>>
          /\ sheet' = None

OnJob ==
    /\ job.st = "succeeded"
    /\ See(job.base + 1)
    /\ job' = NoJob /\ busy' = FALSE
    /\ UNCHANGED <<files, asked>>

OnFailure ==
    /\ job.st \in {"conflict", "failed"}
    /\ IF job.st = "conflict" /\ seen # Len(files) THEN See(Len(files))
       ELSE UNCHANGED <<seen, model, asks, values, ops, past, future, sheet>>
    /\ job' = NoJob /\ busy' = FALSE
    /\ UNCHANGED <<files, asked>>

Answer(v, ok) ==
    /\ v \in asks
    /\ asks' = asks \ {v} /\ model' = IF ok THEN v ELSE 0
    /\ UNCHANGED <<files, seen, values, ops, past, future, sheet, asked, job, busy>>

-----------------------------------------------------------------------------
Init == /\ \E d \in Defs, n \in Names :
              files = <<[NoFile EXCEPT ![n] = [def |-> d, val |-> None]]>>
        /\ seen = 1 /\ model = 0 /\ asks = {1} /\ values = NoFile
        /\ ops = <<>> /\ past = <<>> /\ future = <<>>
        /\ sheet = None /\ asked = None /\ job = NoJob /\ busy = FALSE

Building == \/ \E n \in Names : \/ OnSelect(n) \/ AskDelete(n)
                                \/ \E d \in Defs : \/ Draw(n, d) \/ PlaceCopy(n, d)
                                                   \/ ApplyProperties(n, d)
                                                   \/ OnGeometryChanged(n, d)
            \/ DiscardFields \/ \E yes \in BOOLEAN : AnswerDelete(yes)
Filling  == \E n \in Names, v \in Vals : SetValue(n, v)
Sending  == ~busy /\ \/ Save \/ Flatten
                     \/ \E n \in Names, v \in Vals : Import([NoFile EXCEPT ![n] = v])
Server   == \/ JobWorks \/ OtherTab \/ OnJob \/ OnFailure
            \/ \E st \in {"conflict", "failed"} : JobRefused(st)
            \/ \E v \in Versions, ok \in BOOLEAN : Answer(v, ok)

Next == Building \/ Undo \/ Redo \/ SaveFields \/ Filling \/ Sending \/ Server
Spec == Init /\ [][Next]_vars

-----------------------------------------------------------------------------
TypeOK ==
    /\ Len(files) \in Versions /\ \A v \in 1..Len(files) : files[v] \in File
    /\ seen \in Versions /\ model \in Versions \union {0} /\ asks \subseteq Versions
    /\ values \in [Names -> Vals \union {None}]
    /\ \A i \in DOMAIN ops : ops[i] \in Op
    /\ Len(past) <= Limit /\ asked \in Names \union {None}
    /\ job.st \in {"idle", "sent", "succeeded", "conflict", "failed"} /\ busy \in BOOLEAN

\* What the page shows is what Save makes: a batch the server takes leaves exactly the
\* fields the page showed.
ShownIsMade ==
    LET made == ApplyBatch(Fields, ops)
    IN  made # Refused
          => \A n \in Names : Shown(n) = IF made[n] = None THEN None ELSE made[n].def

\* The server never has to refuse what was built or filled in for a field's name.
NothingRefused == /\ ops # <<>> /\ model # 0 => ApplyBatch(Fields, ops) # Refused
                  /\ job.st = "sent" /\ job.kind = "fill" => Fill(files[job.base], job.values) # Refused

\* Nothing is built before the fields are read, answers come before the version changes,
\* undo is pressed with no field selected, an open question is answered before anything
\* else is built, and none is open when the version changes.
OrderlyNext == \/ Building /\ model # 0 /\ (asked # None => asked' = None)
               \/ SaveFields \/ Filling \/ Sending
               \/ (Undo \/ Redo) /\ sheet = None /\ asked = None
               \/ Server /\ (seen' # seen => asks = {} /\ asked = None)
=============================================================================
