---------------------------- MODULE RequestBuilder -----------------------------
(***************************************************************************)
(* "Send for signature": four steps over a draft the server keeps.  Each    *)
(* step sends its part of the draft and goes on when the answer comes; what *)
(* is reviewed and sent is what the server has by then.                     *)
(***************************************************************************)
EXTENDS Integers, Sequences, FiniteSets, SequencesExt, Functions, Lists

CONSTANTS People, None,
          PageCount,
          Limit,       \* 100: steps that can be undone
          MaxRows, MaxFields, MaxSaves   \* bounds of the model

VARIABLES
    step, busy, call,        \* the one call that holds the Next buttons, or None
    recipients, fields,      \* what the builder shows
    past, future,            \* undo and redo of the fields
    selected, page, armedFor,
    unverified,              \* the address has to be confirmed first
    draft, saves             \* the server: recipients, fields and status; lists saved so far

vars == <<step, busy, call, recipients, fields, past, future, selected, page, armedFor,
          unverified, draft, saves>>
history == <<past, future>>
server  == <<draft, saves>>

Roles  == {"signer", "cc"}
Blank  == [id |-> None, who |-> None, role |-> "signer"]
Signers == {r \in Range(recipients) : r.role = "signer"}

\* A field is known by its place among those on the page.
OnPage == {i \in DOMAIN fields : fields[i].page = page}
Spots == 1..Cardinality(OnPage)
PlaceOf(k) == Nth(OnPage, k)

Ids    == (Nat \X Nat) \cup {None}
Rows   == [id : Ids, who : People \cup {None}, role : Roles]
Placings == [owner : Ids, page : 0..PageCount - 1, moved : BOOLEAN]
Calls  == [kind : {"recipients", "fields", "message", "send"}, st : {"sent", "ok", "no"},
           rows : Seq(Rows) \cup Seq(Placings) \cup {None}]

Assumptions == /\ None \notin People \cup Calls /\ PageCount \in Nat \ {0} /\ Limit \in Nat \ {0}
               /\ {MaxFields, MaxSaves} \subseteq Nat /\ MaxRows \in Nat \ {0}

-----------------------------------------------------------------------------
(* Who needs to act.                                                        *)

AddRecipient ==
    /\ step = 1 /\ Len(recipients) < MaxRows
    /\ recipients' = Append(recipients, Blank)
    /\ UNCHANGED <<step, busy, call, fields, history, selected, page, armedFor, unverified, server>>

\* A field of somebody who is no longer asked would be worse than an empty page.
RemoveRecipient(i) ==
    /\ step = 1 /\ i \in DOMAIN recipients
    /\ recipients' = RemoveAt(recipients, i) /\ fields' = <<>>
    /\ UNCHANGED <<step, busy, call, history, selected, page, armedFor, unverified, server>>

Update(i, who, role) ==
    /\ step = 1 /\ i \in DOMAIN recipients
    /\ recipients' = [recipients EXCEPT ![i].who = who, ![i].role = role]
    /\ recipients' # recipients
    /\ UNCHANGED <<step, busy, call, fields, history, selected, page, armedFor, unverified, server>>

\* One call at a time; what it carries is what the builder shows at that moment.
Send(kind, rows) == /\ call = None /\ ~busy /\ busy' = TRUE
                    /\ call' = [kind |-> kind, rows |-> rows, st |-> "sent"]
Keep == UNCHANGED <<step, recipients, fields, history, selected, page, armedFor, unverified, server>>

SaveRecipients ==
    LET rows == Filtered(recipients, {r \in Range(recipients) : r.who # None})
    IN  /\ step = 1 /\ \E r \in Range(rows) : r.role = "signer"
        /\ saves < MaxSaves
        /\ Send("recipients", rows) /\ Keep

-----------------------------------------------------------------------------
(* Where they sign.                                                         *)

Remember == /\ past' = LET longer == Append(past, fields)
                       IN  IF Len(longer) > Limit THEN Tail(longer) ELSE longer
            /\ future' = <<>>

ArmFor(id) ==
    /\ step = 2 /\ \E r \in Range(recipients) : r.id = id
    /\ armedFor' = id
    /\ UNCHANGED <<step, busy, call, recipients, fields, history, selected, page, unverified, server>>

OnDrawn ==
    /\ step = 2 /\ armedFor # None /\ Len(fields) < MaxFields
    /\ Remember
    /\ fields' = Append(fields, [owner |-> armedFor, page |-> page, moved |-> FALSE])
    /\ UNCHANGED <<step, busy, call, recipients, selected, page, armedFor, unverified, server>>

\* By a click, from the list, or from the menu; None by a click beside them all.
OnSelect(k) ==
    /\ step = 2 /\ k \in Spots \cup {None}
    /\ selected' = k
    /\ UNCHANGED <<step, busy, call, recipients, fields, history, page, armedFor, unverified, server>>

RemoveField(k) ==
    /\ step = 2 /\ k \in Spots
    /\ Remember /\ fields' = RemoveAt(fields, PlaceOf(k)) /\ selected' = None
    /\ UNCHANGED <<step, busy, call, recipients, page, armedFor, unverified, server>>

OnGeometryChanged(k) ==
    /\ step = 2 /\ k \in Spots
    /\ Remember /\ fields' = [fields EXCEPT ![PlaceOf(k)].moved = ~@]
    /\ UNCHANGED <<step, busy, call, recipients, selected, page, armedFor, unverified, server>>

Undo == /\ step = 2 /\ past # <<>>
        /\ fields' = Last(past) /\ past' = Front(past) /\ future' = Append(future, fields)
        /\ selected' = None
        /\ UNCHANGED <<step, busy, call, recipients, page, armedFor, unverified, server>>

Redo == /\ step = 2 /\ future # <<>>
        /\ fields' = Last(future) /\ future' = Front(future) /\ past' = Append(past, fields)
        /\ selected' = None
        /\ UNCHANGED <<step, busy, call, recipients, page, armedFor, unverified, server>>

\* The place that is selected stays, and is then another page's.
TurnPage(p) ==
    /\ step = 2 /\ p \in 0..PageCount - 1 /\ p \in {page - 1, page + 1}
    /\ page' = p
    /\ UNCHANGED <<step, busy, call, recipients, fields, history, selected, armedFor, unverified, server>>

SaveFields ==
    /\ step = 2
    /\ \A r \in Signers : \E f \in Range(fields) : f.owner = r.id
    /\ Send("fields", fields) /\ Keep

SaveMessage == step = 3 /\ Send("message", None) /\ Keep
SendRequest == step = 4 /\ Send("send", None) /\ Keep

\* Nothing holds the Back buttons.
Back(n) ==
    /\ step \in 2..4 /\ n = step - 1 /\ step' = n
    /\ UNCHANGED <<busy, call, recipients, fields, history, selected, page, armedFor, unverified, server>>

-----------------------------------------------------------------------------
(* The server.  New recipients are new rows, and the fields of the old ones go with them. *)

Answered(ok) == call' = [call EXCEPT !.st = IF ok THEN "ok" ELSE "no"]
Draft == draft.status = "draft"
Numbered(rows) == [i \in DOMAIN rows |-> [rows[i] EXCEPT !.id = <<saves + 1, i>>]]

ReplaceRecipients ==
    /\ call.kind = "recipients" /\ Draft
    /\ draft' = [draft EXCEPT !.recipients = Numbered(call.rows), !.fields = <<>>]
    /\ saves' = saves + 1 /\ Answered(TRUE)

\* A field bound to somebody who is not a recipient is refused, and all with it.
Bound(f) == \E r \in Range(draft.recipients) : f.owner = r.id
ReplaceFields ==
    /\ call.kind = "fields" /\ Draft /\ \A f \in Range(call.rows) : Bound(f)
    /\ draft' = [draft EXCEPT !.fields = call.rows]
    /\ UNCHANGED saves /\ Answered(TRUE)

PatchMessage == call.kind = "message" /\ Draft /\ UNCHANGED server /\ Answered(TRUE)

\* Sent if somebody signs, every signer has a field and the address is confirmed.
SendOut ==
    /\ call.kind = "send" /\ Draft
    /\ \E r \in Range(draft.recipients) : r.role = "signer"
    /\ \A r \in Range(draft.recipients) :
          r.role = "signer" => \E f \in Range(draft.fields) : f.owner = r.id
    /\ draft' = [draft EXCEPT !.status = "sent"]
    /\ UNCHANGED saves /\ Answered(TRUE)

\* Refused, for a limit or for any of the reasons above, or never reached.
Refuse == UNCHANGED server /\ Answered(FALSE)

Serve == /\ call # None /\ call.st = "sent"
         /\ (ReplaceRecipients \/ ReplaceFields \/ PatchMessage \/ SendOut \/ Refuse)
         /\ UNCHANGED <<step, busy, recipients, fields, history, selected, page, armedFor, unverified>>

-----------------------------------------------------------------------------
(* The answers.                                                             *)

Answer(kind) == call # None /\ call.kind = kind /\ call.st = "ok" /\ call' = None /\ busy' = FALSE

FirstSigner == LET signing == {i \in DOMAIN draft.recipients : draft.recipients[i].role = "signer"}
               IN  IF signing = {} THEN None ELSE draft.recipients[Nth(signing, 1)].id

\* The rows come back with their ids; what was placed for the old ones is forgotten, and so
\* is the way back to it.
RecipientsSaved_KeepsHistory ==
    /\ Answer("recipients")
    /\ recipients' = draft.recipients /\ fields' = <<>> /\ selected' = None /\ step' = 2
    /\ armedFor' = FirstSigner
    /\ UNCHANGED <<history, page, unverified, server>>
RecipientsSaved ==
    /\ Answer("recipients")
    /\ recipients' = draft.recipients /\ fields' = <<>>
    /\ past' = <<>> /\ future' = <<>> /\ selected' = None /\ step' = 2
    /\ armedFor' = FirstSigner
    /\ UNCHANGED <<page, unverified, server>>

FieldsSaved ==
    /\ Answer("fields") /\ step' = 3
    /\ UNCHANGED <<recipients, fields, history, selected, page, armedFor, unverified, server>>

MessageSaved ==
    /\ Answer("message") /\ step' = 4
    /\ UNCHANGED <<recipients, fields, history, selected, page, armedFor, unverified, server>>

\* On to the request's own page.
Sent ==
    /\ Answer("send") /\ step' = 5
    /\ UNCHANGED <<recipients, fields, history, selected, page, armedFor, unverified, server>>

\* Sending may be refused because the address is not confirmed, and only that is remembered.
NotSaved(confirm) ==
    /\ call # None /\ call.st = "no" /\ call' = None /\ busy' = FALSE
    /\ unverified' = (unverified \/ (call.kind = "send" /\ confirm))
    /\ UNCHANGED <<step, recipients, fields, history, selected, page, armedFor, server>>

-----------------------------------------------------------------------------
Init == /\ step = 1 /\ busy = FALSE /\ call = None
        /\ recipients = <<Blank>> /\ fields = <<>> /\ past = <<>> /\ future = <<>>
        /\ selected = None /\ page = 0 /\ armedFor = None /\ unverified = FALSE
        /\ draft = [recipients |-> <<>>, fields |-> <<>>, status |-> "draft"] /\ saves = 0

Next == \/ AddRecipient \/ SaveRecipients
        \/ \E i \in 1..MaxRows : \/ RemoveRecipient(i)
                                 \/ \E who \in People \cup {None}, role \in Roles : Update(i, who, role)
        \/ \E id \in (1..MaxSaves) \X (1..MaxRows) : ArmFor(id)
        \/ OnDrawn \/ Undo \/ Redo \/ SaveFields \/ SaveMessage \/ SendRequest
        \/ \E k \in 1..MaxFields : RemoveField(k) \/ OnGeometryChanged(k)
        \/ \E k \in 1..MaxFields \cup {None} : OnSelect(k)
        \/ \E p \in 0..PageCount - 1 : TurnPage(p)
        \/ \E n \in 1..3 : Back(n)
        \/ Serve \/ RecipientsSaved \/ FieldsSaved \/ MessageSaved \/ Sent
        \/ \E confirm \in BOOLEAN : NotSaved(confirm)
Spec == Init /\ [][Next]_vars

\* Somebody who waits for Next.
Waits == call # None /\ call' # None => UNCHANGED <<step, recipients, fields>>

-----------------------------------------------------------------------------
TypeOK ==
    /\ step \in 1..5 /\ busy = (call # None)
    /\ Len(recipients) <= MaxRows /\ Len(fields) <= MaxFields
    /\ page \in 0..PageCount - 1 /\ Len(past) <= Limit + Len(future) + 1
    /\ selected \in 1..MaxFields \cup {None} /\ unverified \in BOOLEAN
    /\ draft.status \in {"draft", "sent"} /\ saves \in 0..MaxSaves

(* What is sent is what was reviewed: past the second step the people and   *)
(* the fields on the screen are the draft's, and at that step nothing is    *)
(* placed, or can be brought back by undo, for somebody who is not asked.   *)
(* (_replace_recipients: "a field bound to a recipient who is no longer on  *)
(* the request is worse than an empty page".)                               *)
Placed(fs) == \A i \in DOMAIN fs : \E r \in Range(recipients) : fs[i].owner = r.id
ReviewedIsSent ==
    /\ step > 2 => recipients = draft.recipients /\ fields = draft.fields
    /\ step = 2 => Placed(fields) /\ \A i \in DOMAIN past : Placed(past[i])
=============================================================================
