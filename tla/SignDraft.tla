----------------------------- MODULE SignDraft ------------------------------
(***************************************************************************)
(* A signing request until it is sent: its owner, in one or several        *)
(* windows, creates it, lays it out and sends it, while the document goes  *)
(* on being edited and may be trashed and purged.  Handlers read the row   *)
(* first and write it later; PATCH writes the whole row back.  A handler   *)
(* that fails on what it finds has stopped where it was: see Crash.        *)
(*                                                                         *)
(* A definition named X_Y is X with the slip its comment names, put in the *)
(* place of X to see that a property notices; no action uses it.           *)
(***************************************************************************)
EXTENDS Naturals

CONSTANTS Windows,    \* requests the owner's windows make, one at a time each
          Sweep,      \* trash_purge, or a permanent delete
          MaxVersion  \* bound: how far the document is edited

Assumptions == Sweep \notin Windows /\ MaxVersion \in Nat \ {0}

VARIABLES
  req,      \* SignRequest.status; "none" before, "deleted" after the row
  source,   \* SignRequest.source_version; 0 for null
  people,   \* the request has recipients
  fields,   \* and fields for its signers
  ver,      \* Document.current_version; 0 for null
  doc,      \* "live", "trashed" or "gone"
  blobs,    \* which versions' files are in storage
  at,       \* what each handler does next
  saw       \* the row it has read

vars == <<req, source, people, fields, ver, doc, blobs, at, saw>>
reqVars == <<req, source, people, fields>>
docVars == <<ver, doc, blobs>>

Status   == {"none", "draft", "sent", "canceled", "deleted"}
Handlers == Windows \cup {Sweep}
Nothing  == [req |-> "none", source |-> 0]
Row      == [req |-> req, source |-> source]

Init ==
  /\ req = "none" /\ source = 0 /\ people = FALSE /\ fields = FALSE
  /\ ver = 1 /\ doc = "live" /\ blobs = {1}
  /\ at = [h \in Handlers |-> "idle"]
  /\ saw = [h \in Handlers |-> Nothing]

Goto(h, a)    == at' = [at EXCEPT ![h] = a]
Read(h, what) == saw' = [saw EXCEPT ![h] = what]
Leave(h)      == Goto(h, "idle") /\ Read(h, Nothing)

-----------------------------------------------------------------------------
Create(w) ==
  /\ at[w] = "idle" /\ req = "none" /\ doc = "live"
  /\ Goto(w, "create")
  /\ UNCHANGED <<reqVars, docVars, saw>>

\* One request is followed; a second create would make another.
SaveCreate(w) ==
  /\ at[w] = "create" /\ doc # "gone" /\ req = "none"
  /\ req' = "draft" /\ Leave(w)
  /\ UNCHANGED <<source, people, fields, docVars>>

\* (a request that was sent can be changed too)
Patch_Sent(w) ==
  /\ at[w] = "idle" /\ req \in {"draft", "sent"}
  /\ Goto(w, "patch") /\ Read(w, Row)
  /\ UNCHANGED <<reqVars, docVars>>

Patch(w) ==
  /\ at[w] = "idle" /\ req = "draft"
  /\ Goto(w, "patch") /\ Read(w, Row)
  /\ UNCHANGED <<reqVars, docVars>>

\* save() without update_fields writes every column as it was read, and makes
\* the row anew if there is none.  What follows depends on the payload.
SavePatch(w) ==
  /\ at[w] = "patch" /\ doc # "gone"
  /\ req' = saw[w].req /\ source' = saw[w].source
  /\ \E next \in {"idle", "drop people", "drop fields"} : Goto(w, next)
  /\ Read(w, Nothing)
  /\ UNCHANGED <<people, fields, docVars>>

\* Fields hang off recipients, so they go with them.
DropPeople(w) ==
  /\ at[w] = "drop people" /\ people' = FALSE /\ fields' = FALSE
  /\ Goto(w, "add people")
  /\ UNCHANGED <<req, source, docVars, saw>>

\* The list may hold no signer.
AddPeople(w) ==
  /\ at[w] = "add people" /\ req # "deleted"
  /\ people' \in BOOLEAN
  /\ \E next \in {"idle", "drop fields"} : Goto(w, next)
  /\ UNCHANGED <<req, source, fields, docVars, saw>>

\* A field bound to somebody who is not on the request is refused.
DropFields(w) ==
  /\ at[w] = "drop fields"
  /\ \/ fields' = FALSE /\ Goto(w, "add fields")
     \/ UNCHANGED fields /\ Goto(w, "idle")
  /\ UNCHANGED <<req, source, people, docVars, saw>>

\* Those of every signer, or of fewer.
AddFields(w) ==
  /\ at[w] = "add fields"
  /\ fields' \in {FALSE, people} /\ Goto(w, "idle")
  /\ UNCHANGED <<req, source, people, docVars, saw>>

\* (fields are not asked for)
Send_Unchecked(w) ==
  /\ at[w] = "idle" /\ req = "draft"
  /\ people /\ ver # 0 /\ doc # "gone"
  /\ Goto(w, "send") /\ Read(w, [req |-> req, source |-> ver])
  /\ UNCHANGED <<reqVars, docVars>>

\* The checks, and the version that will be frozen.
Send(w) ==
  /\ at[w] = "idle" /\ req = "draft"
  /\ people /\ fields /\ ver # 0 /\ doc # "gone"
  /\ Goto(w, "send") /\ Read(w, [req |-> req, source |-> ver])
  /\ UNCHANGED <<reqVars, docVars>>

\* Both columns in one UPDATE, which fails if there is no row, or no version.
SaveSend(w) ==
  /\ at[w] = "send" /\ req # "deleted" /\ doc # "gone"
  /\ req' = "sent" /\ source' = saw[w].source /\ Leave(w)
  /\ UNCHANGED <<people, fields, docVars>>

Cancel(w) ==
  /\ at[w] = "idle" /\ req \in {"draft", "sent"}
  /\ Goto(w, "cancel")
  /\ UNCHANGED <<reqVars, docVars, saw>>

\* (a status that is not one of the choices)
SaveCancel_Spelt(w) ==
  /\ at[w] = "cancel" /\ req # "deleted" /\ req' = "cancelled" /\ Leave(w)
  /\ UNCHANGED <<source, people, fields, docVars>>

SaveCancel(w) ==
  /\ at[w] = "cancel" /\ req # "deleted" /\ req' = "canceled" /\ Leave(w)
  /\ UNCHANGED <<source, people, fields, docVars>>

\* (whatever its status)
Discard_Any(w) ==
  /\ at[w] = "idle" /\ req \notin {"none", "deleted"}
  /\ Goto(w, "discard")
  /\ UNCHANGED <<reqVars, docVars, saw>>

Discard(w) ==
  /\ at[w] = "idle" /\ req = "draft"
  /\ Goto(w, "discard")
  /\ UNCHANGED <<reqVars, docVars, saw>>

\* Whatever the row has become, with its recipients, fields and events.
SaveDiscard(w) ==
  /\ at[w] = "discard" /\ Leave(w)
  /\ req' = "deleted" /\ source' = 0 /\ people' = FALSE /\ fields' = FALSE
  /\ UNCHANGED docVars

Crash(h) ==
  /\ at[h] # "idle" /\ Leave(h)
  /\ UNCHANGED <<reqVars, docVars>>

-----------------------------------------------------------------------------
(* The document meanwhile: the pipeline appends versions; it is trashed,   *)
(* restored and purged.                                                    *)

Edit ==
  /\ ver # 0 /\ ver < MaxVersion /\ doc = "live"
  /\ ver' = ver + 1 /\ blobs' = blobs \cup {ver + 1}
  /\ UNCHANGED <<reqVars, doc, at, saw>>

Trash == /\ doc = "live" /\ doc' = "trashed"
         /\ UNCHANGED <<reqVars, ver, blobs, at, saw>>

Restore == /\ doc = "trashed" /\ doc' = "live"
           /\ UNCHANGED <<reqVars, ver, blobs, at, saw>>

\* (the refusal comes after the storage was emptied)
Purge_Late ==
  /\ at[Sweep] = "idle" /\ doc = "trashed" /\ ver # 0
  /\ Goto(Sweep, "blobs")
  /\ UNCHANGED <<reqVars, docVars, saw>>

\* Refused when a request refers to the document, before a blob is touched.
Purge ==
  /\ at[Sweep] = "idle" /\ doc = "trashed" /\ req \in {"none", "deleted"}
  /\ Goto(Sweep, "blobs")
  /\ UNCHANGED <<reqVars, docVars, saw>>

PurgeBlobs ==
  /\ at[Sweep] = "blobs"
  /\ blobs' = {} /\ Goto(Sweep, "rows")
  /\ UNCHANGED <<reqVars, ver, doc, saw>>

\* current_version is unset, then the rows go, and a draft is left without its
\* document; unless a version is protected as the source of a request.
PurgeUnset ==
  /\ at[Sweep] = "rows"
  /\ ver' = 0 /\ Goto(Sweep, "delete")
  /\ UNCHANGED <<reqVars, doc, blobs, saw>>

PurgeDelete ==
  /\ at[Sweep] = "delete" /\ Goto(Sweep, "idle")
  /\ doc' = IF source = 0 THEN "gone" ELSE doc
  /\ UNCHANGED <<reqVars, ver, blobs, saw>>

-----------------------------------------------------------------------------
Next ==
  \/ \E w \in Windows :
       \/ Create(w) \/ SaveCreate(w) \/ Patch(w) \/ SavePatch(w)
       \/ DropPeople(w) \/ AddPeople(w) \/ DropFields(w) \/ AddFields(w)
       \/ Send(w) \/ SaveSend(w) \/ Cancel(w) \/ SaveCancel(w)
       \/ Discard(w) \/ SaveDiscard(w)
  \/ \E h \in Handlers : Crash(h)
  \/ Edit \/ Trash \/ Restore
  \/ Purge \/ PurgeBlobs \/ PurgeUnset \/ PurgeDelete

Spec == Init /\ [][Next]_vars

\* One handler at a time, windows and purge alike, and a purge that has emptied
\* the storage goes on to unset the version.
Alone   == /\ \A h \in Handlers : at'[h] # "idle" =>
                \A g \in Handlers \ {h} : at'[g] = "idle"
           /\ at[Sweep] = "rows" => at'[Sweep] # "idle"

-----------------------------------------------------------------------------
(* Properties.                                                             *)

TypeOK ==
  /\ req \in Status
  /\ source \in 0..MaxVersion /\ ver \in 0..MaxVersion
  /\ people \in BOOLEAN /\ fields \in BOOLEAN
  /\ doc \in {"live", "trashed", "gone"} /\ blobs \subseteq 1..MaxVersion
  /\ at \in [Handlers -> {"idle", "create", "patch", "drop people", "add people",
                          "drop fields", "add fields", "send", "cancel",
                          "discard", "blobs", "rows", "delete"}]
  /\ saw \in [Handlers -> [req : Status, source : 0..MaxVersion]]

\* What goes out is complete: it has signers, every one of them has something to
\* sign, and its version is frozen, even if an earlier PATCH died half way.
SentIsComplete == req' = "sent" /\ req # "sent" => people /\ fields /\ source' # 0

\* The file everybody is asked to sign can be read until the request is over:
\* a purge that must not happen has not emptied the storage on its way.
SourceReadable == req = "sent" => source \in blobs

\* "Frozen here, deliberately": the version stays the one that was sent, however
\* the document is edited.
SourceFrozen == req = "sent" /\ req' # "deleted" => source' = source

\* Once it is sent, "changing it underneath them is the one thing a signing
\* product must never do".
LayoutFrozen ==
  req = "sent" /\ req' = "sent" => <<people, fields>>' = <<people, fields>>

\* It is "editable only in draft": and what was sent or canceled is not a draft
\* again.
NeverADraftAgain == [][req' = "draft" => req \in {"none", "draft"}]_vars

\* "Only a draft can be deleted": not a request that people have been asked to
\* sign, with the events that say so.
SentIsKept == req = "sent" => req' # "deleted"

\* What a step may never do to a request that is being sent or has been.
SentStays == SentIsComplete /\ SourceFrozen /\ LayoutFrozen /\ SentIsKept
=============================================================================
