# A verification development for ZenPDF

ZenPDF is a web application for working on PDF files: a Django/DRF backend with
Celery workers, Postgres, Redis and an S3-like blob store, and an Angular
single-page client. This directory holds TLA+ models of its concurrent and
stateful parts, the TLC configurations that check them on small instances, and
proofs, checked by TLAPS, of what matters most for every instance.

Paths below are relative to `src/`; `apps/` stands for `src/backend/apps/`.

## 1. Inventory

| component | state | operations | correctness |
|---|---|---|---|
| **Job pipeline** (`apps/documents/{tasks,views,models}.py`, `apps/jobs/`) | `Job` row, message at the broker, Redis lock `zen:doc:{id}`, `DocumentVersion` chain, blobs | submit, deliver, run, commit a version, cancel, reap, purge | an edit happens once or not at all, on the version it was made for; no lost update; versions and blobs immutable; every job ends |
| **Signature envelope** (`apps/esign/{routing,tasks,views,emails}.py`) | `SignRequest.status`, `Recipient` statuses, consents and notifications, the Redis lock `zen:doc:sign-{id}`, the sealed file and its fingerprint, the tail's marks | open, consent, fill, complete, decline, report, cancel, remind, expire, finalize | nobody finishes without consent or out of turn; sealed once, only when all have finished; what is stored is what the fingerprint describes; a dispatched finalize is not lost |
| **Signature drafts** (`apps/esign/views.py`, `apps/documents/views.py` `_purge`) | the draft's row, recipients, fields, `source_version`; the document's current version and blobs | create, patch, send, cancel, discard; edit, trash, restore, purge | what is sent is complete, frozen, readable and kept |
| **Audit chain** (`apps/esign/models.py`) | hash-chained `AuditEvent` rows of a request | append, verify | appended concurrently the chain still verifies; a change is noticed |
| **Storage ledger** (`apps/core/limits.py`, `apps/core/tasks.py`, `_purge`) | `storage_bytes` counters, `charged_bytes` of rows, blobs | enforce, charge, refund, reconcile | the counter never drifts for good; nobody is refused room he has |
| **Guest lifecycle** (`apps/core/claim.py`, `apps/core/principals.py`, `guest_purge`) | `GuestSession`, ownership of rows and assets | create, touch, claim at login, purge | a claim moves everything or nothing, once; a claimed document is never purged as a guest's |
| **Concurrency slots** (`_check_concurrency`, `_concurrency_slot`) | number of active jobs of a principal, the lock on its row | admit, release | never more active jobs than the plan allows; a slot always comes back |
| **Password meter** (`apps/core/limits.py`) | buckets of failed passwords in the cache | attempt, block, age | at most the limit of guesses in a window |
| **Job secrets** (`apps/jobs/models.py` `forget_secrets`, `job_params_purge`) | passwords in `Job.params` | store, redact, sweep | no password outlives its job for longer than the sweep |
| **Version protection** (`is_encrypted`, passwords) | `is_encrypted` of versions and documents | protect, unprotect, sign, revert | the flag tells whether the current bytes need a password |
| **Sweeps** (`apps/core/tasks.py`) | heartbeats, trash, exports, previews, assets | one beat task each | what expired goes, what is in use stays |
| **PDF engine** (`apps/pdf_engine/engine/*`, `geometry.py`, `registry.py`, `schemas/`) | none (functions of bytes) | page operations, annotations, forms, content, redaction, signatures, conversion | page arithmetic, coordinate transforms |
| **Accounts** (`apps/users/*`) | users, verification and reset tokens, e-mail preferences | register, verify, log in, export, delete | tokens are used once; deletion takes everything |
| **Client session** (`core/interceptors`, `core/services/{auth,token,guest-token}.service.ts`, `abstraction/{auth,guest}.facade.ts`) | access and refresh token, guest token, a renewal and a mint in flight | request, renew, recover, sign in, sign out | one renewal for many 401s; no work stranded under a dead principal |
| **Workspace bar** (`features/workspace/workspace.ts`, `abstraction/viewer.facade.ts`) | the document on screen, loads, page selection, undo chain, History tab | open, select, operate, undo, redo, revert, list | pages operated on are those selected; undo steps from what is shown |
| **Annotations** (`features/workspace/annotate.ts`, `abstraction/annotations.facade.ts`) | saved marks, drafts, removals, undo history, one save | draw, type, move, delete, undo, save, reload | nothing drawn is lost or both written and deleted |
| **Page overlay** (`shared/page-overlay`) | a drag, a half-drawn shape, a selection, the raster | pointer, keys, turn the page | a shape is whole and on the page it was begun on |
| **Edit panel** (`features/workspace/edit.ts`, `abstraction/edit.facade.ts`) | per-page cache, staged edits, editor, a search and its report | stage, undo, save, find, replace | what is replaced was reviewed |
| **Forms panel** (`features/workspace/forms.ts`, `abstraction/forms.facade.ts`) | fields as read, values, staged changes, sheet | fill, build, undo, save, import | the page shows what Save makes |
| **Protect panel** (`features/workspace/protect.ts`, `abstraction/security.facade.ts`) | search, report, areas, password | preview, untick, apply, protect, unlock | what is removed was seen |
| **Convert and compare panels** (`features/workspace/{convert,compare}.ts` and facades) | a job each, a report, an export | run, choose, page through | an answer on offer is of the document on screen |
| **Library** (`features/dashboard`, `abstraction/documents.facade.ts`) | a window of the list, filter, offset, changes in flight | filter, load more, star, bin, upload | every document once, none skipped |
| **Tool pages** (`features/tools`, `core/page-spec.ts`, `abstraction/jobs.facade.ts`) | files, uploads, a job, results | pick, run, correct, download | the job gets the files in order; the page does not stay busy |
| **Ceremony page** (`features/sign/ceremony.ts`, `shared/signature-pad.ts`) | the request as loaded, values, calls in flight | consent, fill, sign, finish, decline, wait | what is signed is what was shown |
| **Request builder** (`features/sign/request-builder.ts`) | four steps over a draft | add, place, save, send | what is sent is what was reviewed |
| **Sign panel** (`features/workspace/sign.ts`, `abstraction/esign.facade.ts`) | signatures, placements, a job | make, place, undo, apply | every placement is signed once |
| **Thumbnails** (`core/services/thumbnail-scheduler.ts`, `shared/pdf-thumbnail.ts`) | a shared pause, a request per tile | fetch, back off, retry | every tile ends with a preview or a button |
| **Consent, ads and updates** (`core/services/{consent,app-update}.service.ts`, `shared/ad-slot.ts`) | the stored choice, the script, a pending reload | ask, withdraw, reload | consent taken back is taken back; a reload loses no work |
| **Presentation** (templates, styles, routes, texts), **infrastructure**, **vendored fonts, fixtures, archived evidence** | none of their own | | out of scope |

(Client paths are below `frontend/src/app/`.)

How they interact. The client creates a guest session or logs in, uploads, and
posts operations; each operation is a `Job` row plus a Celery message; a worker
takes the document lock, runs the engine on the current version's bytes and
records a new version; the client polls the job and fetches the version. The
storage ledger is charged by every step that writes a blob and refunded by
every purge. E-signing freezes a version of a document, lets recipients act
through public links, and seals the result with a finalize task that appends
the signed file as a version, under the same document lock. Beat runs the sweeps.
There is no `ATOMIC_REQUESTS`: each database statement commits by itself except
where a `transaction.atomic` block says otherwise, so every pair of statements is
a place for a crash or for another process.

What is hard here: at-least-once delivery with late acknowledgement; status
columns written unconditionally after an earlier check; a lock with a TTL around
work with a hard time limit; blobs, rows and counters that no transaction spans;
sweeps that race the work they clean up after; public links used by several
people at once; and a client in which every answer may come after the page, the
version, the document or the principal it was asked for has changed. PROJECT.json lists each such place, at its
line, under `hazards`, with the properties that guard it.

## 2. Modules

The backend, at the grain of one statement:

| module | what it is | state and actions, against the code |
|---|---|---|
| `VersionChain` | what the pipeline promises about one document, without jobs, locks or storage | a chain of versions: `Record`, `Advance`, `Erase` |
| `JobPipeline` | the pipeline of one document | `status`, `kind`, `base` are the `Job` row; `msg` its Celery message (absent, queued, or held unacknowledged); `pc`, `read`, `next` the live execution and its local variables; `lock` the Redis lock; `vers`, `cur`, `blob`, `doc` the document; `api` the request under way; `reap` what the stall sweep has read. One action per statement of `run_operation`, `run_cross_document_operation`, `revert_version`, `_save_new_version`, `_create_document_from_bytes`, `record_version`, the views, `reap_stalled_jobs` and `_purge` |
| `Ceremony` | what a signing request promises the people on it | `Agree`, `Finish`, `Seal` |
| `SignEnvelope` | one request from the moment it is sent | `req`, `late`, `sha` and `marks` are columns of `SignRequest`; `rec`, `consented`, `mailed`, `ink` of the recipients; `signed`, `events` count audit events; `at`, `todo` are the HTTP handlers, each a read followed by writes; `queue`, `fpc`, `bytes`, `row`, `lock` the executions of `finalize_sign_request`; `stored` and `listed` the sealed file and the certificate. `claimed` is history: who has ever won the conditional UPDATE |
| `SignDraft` | a request until it is sent, and its document | the row read by a handler is `saw`, because PATCH writes it back whole |
| `AuditChain` | the hash chain of a request's events | `Construct` takes the time, `LockRow`, `ReadTail`, `Insert` are `AuditEvent.save`, `Intact` is `verify_chain` |
| `StorageLedger` | the storage counter of one principal | `used` is `storage_bytes_used`; `blobs` the files in storage, `rows` the versions' rows and the exports that job results advertise, `gone` deleted documents; `flight` the jobs queued or running; `pc`, `hand`, `saw` each writer or deleter, the items in its hands and the counter it was loaded with; `rpc`, `before`, `tally` the recount. The door (`Admit`), the file (`Put`), the row (`InsertRow`) and the charge (`Charge`) are steps of their own, as are file, refund and row of a deletion |
| `GuestLifecycle` | one guest session, its uploads and jobs, the accounts that claim it, the purge | `alive`, `expired`, `claimed`, `bytes` are the session's row, `holder` who holds its lock in `claim_session`; `owner`, `jobs`, `asset` whose the documents, jobs and assets are; `pc`, `who`, `loaded` a maker's or claimer's place, principal and loaded counter; `sweep`, `victims` `guest_purge` and the documents it has listed. A claim is `Ask`, `Lock`, `MoveAssets` (storage, which no transaction covers), `Commit` or `Rollback` |
| `JobAdmission` | how requests become jobs under the tier's limits | `Guard` is the early count, `Enter` takes the row lock, `Meter` charges the hour in Redis, `Count`, `Create`, `Enqueue` follow; `Kill` any API process |
| `PasswordMeter` | wrong passwords on one document | `Enforce` and `Enter` are the two questions at the door, `Fail`, `Add`, `Incr` the worker's record in Redis, `Tick` the sliding window |

The client, at the grain of one handler: between two events of the browser
nothing interleaves, so a handler with everything it calls is one action, and so
is the arrival of an answer; the server's own step on a call (`...Served`, `Serve`,
`Job...`) is a third. The server behind each is as much of it as decides the
answers: a chain of versions, a job that may succeed, fail or find its base
overtaken, a list, a status.

| module | what it is | against the code |
|---|---|---|
| `Workspace` | the bar | `loading`, `listing`, `more` the requests for a document and its versions; `cursor` the undo chain; `picked`, `asked` page selection and question; `op` the operation |
| `AnnotationSession` | the Annotate panel and its facade | `saved`, `local` (drafts, removed, past, future) are the facade's stores; `saving` what the save under way carries; `loads` loads in flight; `open`, `busy` |
| `TextBox` | a text box and how its lines are decided | `here` the box with its history; `width` the page's width once known; `LayoutText` is `layoutText` as a function of text and room |
| `OverlayGesture` | pointer and keys on a page | `drag`, `pending`, `item`, `menu`; `out` what was last emitted; `asked`, `image`, `drew` the raster |
| `EditSession` | the Edit panel | `cache` what was read of each page, `staged` with `past`, `future`; `held` the report; `jobs` the operations, which may overlap |
| `FormsSession` | the Forms panel and `_apply` of a batch | `model`, `values`, `ops`, `sheet`; `ApplyBatch`, `Fill` are the server's |
| `ProtectSession` | the Protect panel | `search`, `report`, `excluded`, `areas`; `seq` the server's version of each document, `shown` the client's and `loading` the one that is read again; `secret` and `known` the passwords |
| `PanelJobs` | Convert and Compare | `report`, `lastExport` in facades that outlive the panels |
| `Library` | the dashboard's list | `order`, `binned`, `starred` are the server's; `shown`, `offset`, `hasMore`, `load`, `more`, `stale` the facade's |
| `ClientSession` | the credentials of one tab | `issued`, `alive`, `usable`, `guests` are the server's; `jwt`, `guest` the tab's; `req`, `mint`, `renewal`, `login`, `goodbye` what is in flight |
| `ToolPage` | a tool's page, `page-spec.ts`, the poller | `run` each run as a closure; `cached` the uploaded file a corrected run uses again |
| `CeremonyPage`, `SignaturePad` | the page a signing link opens, and the pad | `calls` what is in flight with its answer; `held` the server's values; `renders` the pad's |
| `RequestBuilder` | the four steps of a request | `draft` is the server's |
| `SignPanel` | signing a document oneself | `placements` with `past`, `future`; `burned` how often each is in the document |
| `Thumbnails` | the page rail | `pause` is the scheduler's, the rest each tile's |
| `Visit` | one page load | `stored`, `choice` the consent; `running` the script; `ready`, `activating`, `going` update and uploads |

`MCJobPipeline`, `MCSignEnvelope`, `MCRecords`, `MCEditor`,
`MCPages` and `MCProgress` hold the instances. `Records`, which `MCRecords` instantiates,
`Editor`, which `MCEditor` does, `Pages`, which `MCPages` does, and `MCProgress` put
components that share no state into one specification (`MCEditor` puts the text box beside
`Editor`; `Pages` takes the parts of `SitePages`, the session, the
library, the panels, the visitor and the tools, and adds those that sign: ceremony, pad,
builder and Sign panel; the two are two modules so that proofs about the first see only
it): `part` says which of them a behaviour is of, `Init` and `Next` take that part's, and a composite property says the module's property
of the part it names (section 3). `Editor` and `Pages` contain their parts' disciplines, as
`Records` does, so that what TLC checks of them is what is proved. `JobPipelineProofs` and
the other proof modules are described in section 5.

The backend's grain is the statement because under autocommit every query, lock
call, blob write and broker call is a step, and a crash or another process may
come between any two. Steps are merged only when nothing between them is visible
to anybody else: the reads of one handler before its first write are one step;
the queries inside a `transaction.atomic` that holds the row lock are one step,
except in `_finalize`, where the blob is put inside the transaction and does not
roll back with it (`ClaimRequest`, `Commit`), in `claim_session`, where assets are
moved in storage before the commit, in the slot, where Redis is charged inside the
transaction, and in `AuditEvent.save`, whose locking is the question.

`Lists` has what JavaScript's `filter` and `sort` do to an array, without recursion:
`Nth(S, k)` is the `k`-th smallest of a set of places, `InOrder(S)` the sequence of
them, `Filtered(s, T)` the elements of `s` that are in `T`, in their order.

A definition named `X_Y` is `X` with a slip somebody might make. No action uses
it; putting it in the place of `X` makes TLC refute the property PROJECT.json
names, which shows that the property depends on that line of the code.

What is abstracted. Bytes are named by who wrote them (`JobPipeline!blob`) or by
number (`SignEnvelope!bytes`: no two sealed files are the same, they carry times).
The engine is the kind of its result. A keyed digest is the pair of what it
covers. A recipient's fields are one bit, filled or not; so are a draft's
recipients and fields, complete or not. In the client a mark, a field, a block, a
match or an area is what identifies it (an id, or the version and page it was
read from) with one value for how it looks; a page is a grid of cells; a line of
text has letters of one width. Time is where it decides something: the lock's TTL
against the hard limit, the finalize retries against the TTL, the date of a
request (`late`), the timestamps of events, the password buckets, the rail's
pause.


## 3. Runs

All runs say `CHECK_DEADLOCK FALSE`: once every job has ended, everybody has
signed, or a bound is reached, nothing more has to happen.

| run | instance | states | shows |
|---|---|---|---|
| `pipeline_edits` | two jobs: two edits under every disturbance, or any two kinds without cancels and purges | 2.7 M | no edit is lost, doubled, applied to another base, or served with another job's bytes; outputs are produced once; a success has delivered; `VersionChain` is implemented |
| `envelope_ceremony` | a signer with two windows, then an approver | 2.6 M | consent, order and sealing, and `Ceremony` is implemented |
| `envelope_finalize` | a signer and an approver in one group, two executions, a kill, faults, spent retries, declines, reports, cancels, expiry | 2.8 M | sealed with the fingerprint of the stored file, recorded once, still a `Ceremony` |
| `envelope_tail` | a signer whose two windows both dispatch; the lock may expire under a live execution; a kill | 660 k | the row lock alone keeps the file and its fingerprint together; every dispatched finalize and every tail is finished |
| `envelope_signed` | a signer with two windows | violation | section 6 |
| `records` | the small backend components, one at a time | 842 k | the next table; and TLC evaluates `SizesApart`, a hypothesis of section 5, for the instance |
| `chain_concurrent` | two writers | violation | section 6 |
| `editor` | the workspace's panels, one at a time | 2.0 M | the next table |
| `pages` | the session and the pages outside the workspace, one at a time | 2.9 M | the next table |
| `progress` | liveness: one job of each kind under every disturbance, or two contending edits; the ledger; a tool's run; the wait for the seal; the page rail | 175 k | every job ends, every lock is freed; the rest in the next table |
| `annotations_failed` | one mark, two versions, who does not save again after a failure | violation | section 6 |
| `guest_purge` | one session, one account, the purge | violation | section 6 |

The properties of the compositions, each of the part it names:

| property | is |
|---|---|
| `Records!KeptWhileNeeded` | `SignDraft!SourceReadable`: the file under a request can be read until the request is over; `GuestLifecycle!WorkFollows`: what a guest made is the account's after the claim, so no purge finds it |
| `Records!SentStays` | `SignDraft!SentStays`: what is sent is complete and stays as it was sent |
| `Records!OneChain`, `DamageNoticed` | `AuditChain!NoFork`, `ChainVerifies`; `DamageNoticed` |
| `Records!Settled` | `StorageLedger!Settled`: at rest the counter is what is charged; `GuestLifecycle!CountedOnce`: also through a claim |
| `Records!LimitsHold` | `StorageLedger!QuotaHeld`, `JobAdmission!SlotsHold`, `PasswordMeter!MeterHolds` |
| `Editor!OneFatePerMark` | the property of `AnnotationSession`, for a patient person and for anybody |
| `Editor!KeptUntilStored` | `AnnotationSession!Kept`: through saves that fail, conflict or go unheard, a load takes nothing from the browser that its version does not have |
| `Editor!HistoryIsTrue` | `AnnotationSession!Walked`; `Workspace!CursorTellsTruth`: a live undo chain says which version's content is shown, unless another document has a reverted version of that number; for who reads the History tab `ShownIsNamed`, `RowsAreOfDocument` |
| `Editor!SentIsSeen` | `Workspace!Aimed`; `EditSession!ReviewedIsReplaced`, `StagedWhereRead`; `ProtectSession!Removed`, `KeptOpens` |
| `Editor!ShownIsMade` | `OverlayGesture!ShapesStayOnPage`, `EmittedIsWhole`; `FormsSession!ShownIsMade`, `NothingRefused` |
| `MCEditor!LaidOut` | `TextBox!LaidOutWhole`, `LaidOnItsPage`, with its types |
| `Pages!WorkIsInReach` | `ClientSession!WorkIsInReach`, `GuestIsKept`, `SpentOnce` |
| `Pages!SentIsSeen` | `CeremonyPage!SignedIsShown`, `RequestBuilder!ReviewedIsSent`, `SignaturePad!GivenIsMade`, `SignPanel!SignedOnce`, `ToolPage!RunsAreTrue` |
| `Pages!ListsAreTrue` | `Library!NoRowTwice`, `NothingSkipped`; `PanelJobs!AnswersAreOfDocument` |
| `Pages!VisitorKeeps` | `Visit!WithdrawnIsGone`, `UpdateLosesNothing` |
| `MCProgress!JobSettles`, `LockFreed` | the properties of `JobPipeline` |
| `MCProgress!DriftHeals` | the property of `StorageLedger` |
| `MCProgress!NobodyIsLeftWaiting` | `ToolPage!RunEnds`, `CeremonyPage!SealingEnds`, `Thumbnails!TilesEnd` |

Bounds and why they are enough. In the backend, two jobs: every property of the
pipeline is about a job, or a pair of jobs, and one document; the safety properties
are proved for any number. Kills, redeliveries, reaps and cancels are not bounded
at all, since they add no state. `Batch = 2` is the smallest batch with an item
that is neither first nor only. Two recipients suffice for the order of groups and
for two that finish together; two windows of one recipient for every stale read;
two executions of finalize, because a third would wait for the same lock; one kill
(`MaxKills`), because the message that comes back and the lock that stays behind
are then both there, and a second kill finds the same choices. `MaxVersion = 3`
versions: the one frozen, the one read, a newer one. Three writers of the audit
chain with four times and four ids: two that overlap and one that comes after.
Five items, of which any two non-exports together exceed the quota: a batch of two
versions of one document and one of another, an asset and an export, so that
every space is counted and a batch must be refused; two jobs, because the recount
must miss one that begins and ends while it counts, and because one of them may
delete what was there before. In `progress` one item of each space and one kill: a
kill leaves at most one item half written or half deleted. Two accounts and a
session with an upload and a job: two claims that meet, and work of either kind
under them. Three requests, two of them heavy, at a limit of one slot and one heavy
operation: one inside, one that waits, one that died. Three guesses at a limit of
one, buckets of two ticks under a window of two: an attempt in the newest and in
the oldest bucket that counts, and one that has aged.

In the client: two documents, pages, marks, files, requests or tiles, one on screen
and one an answer may be late for; three documents in the library, with a window of
one, so that an offset is wrong by one row in either direction; two or three
versions: the one read, the one made, another tab's. An undo history of one state,
so that the oldest is dropped at the second gesture. Two guest sessions and two refresh
tokens: the one lost and the one in its place. A pointer grid of three by three, with
strokes of at most three points: a click, a line, and one with an inside. A page of
12 units, letters of 2, with the guessed width wider than the actual: the text that
fits the one and not the other. Two attempts at a thumbnail: one that is retried and
the last. No poll in `pages` and one in `progress`, where the wait for the seal is
the question.

Disciplines. Some promises hold only of a person, or a system, that does not do
everything the code lets him do. What is asked is stated in the module, beside
`Next`, and is not there for size:

| discipline | asks that |
|---|---|
| `SignDraft!Alone` | one handler of a request works at a time |
| `AuditChain!InTime`, `Distinct` | times differ and reach the row's lock in order |
| `StorageLedger!Calm` | nothing the recount cannot see overlaps it; nothing is deleted twice at once or written under a purge |
| `GuestLifecycle!Unhurried` | no session is claimed under a purge of its documents, or with work under way |
| `PasswordMeter!Prompt` | no attempt is counted between the two questions at the door |
| `AnnotationSession!PatientNext`, `Retries` | until the load that follows a save has been answered, the marks that went out are let alone; a save that failed is made again before anything else loads the marks |
| `ProtectSession!Patient` | the panel, the document and the search stay while an operation is under way; when another version has come to the screen, one looks and draws again before applying |
| `PanelJobs!Waits` | the other document stays chosen while a comparison runs, and the document on screen while an export does |
| `CeremonyPage!Patient`, `RequestBuilder!Waits`, `SignPanel!Waits`, `Library!OneAtATime`, `Visit!Still` | an answer is waited for before what was asked about is changed |
| `EditSession!OrderlyNext` | one operation at a time, nothing open, selected or in question when the page or the version changes |
| `FormsSession!OrderlyNext` | nothing is built before the fields are read, Undo and Redo are pressed with no field selected, one question at a time |
| `ClientSession!InTurn` | nobody signs in or out while anything is in flight |
| `SignaturePad!Looks` | the picture is used when it has come back |
| `Workspace!Reads` | one operates on the document the address names and stays there for the answer; older rows are asked for of what has been loaded, and waited for |
| `OverlayGesture!Sighted` | one draws on a page one sees |
| `TextBox!Patient` | a box whose page's size is unknown is not undone out of existence, nor, undone to an earlier step, put where it already stands |

Section 6 says, discipline by discipline, what happens without them. Five things are for size only, and are named
in the MC modules: `MixedSpec` leaves out cancels and purges beside jobs that are not
edits; `Ceremonial` ends the run at the seal and leaves to `FinalizeSpec` the declines,
the reports and the date; `MCSignEnvelope!Apart` and `Calm` let a handler begin only
while the others are idle or finishing, and keep the request from being closed; `MCPages!Start` lets a part
that is not in question begin in one way only, and leaves out begins that differ in a
name alone, and `MCPages!Small` runs a comparison and an export one after the other;
`MCEditor!Start` does the same, and its `Small` takes one mark and two versions where
nobody waits, two versions under the History tab, a second kind of form field only in
the first version, versions of one of two documents to protect, an overlay's menu only over
a page that has arrived, and no editor over a selected image. In the modules, `TextBox!Bound` counts steps. `Retries = 1` in
`envelope_finalize` makes `RetriesOutlast` false, so that an execution can give up; the
code's 5 retries give 6 x 120 s + 5 x 60 s = 1020 s of asking, more than the lock's 960 s.

The server of the client modules is theirs: that `CeremonyPage` meets exactly what
`SignEnvelope` answers, or `Workspace` what `JobPipeline` makes, is by construction of
the two from the code on both sides, and not checked as a composition, whose states
would be the product.

## 4. Fairness

`JobPipeline`: weak fairness of a job's next step (workers run what they hold
and take what is queued), of the two halves of the sweep for each job (beat runs
every few minutes) and of the lock's expiry (Redis). `SignEnvelope`: weak
fairness of a handler that has begun, unless it crashes; of each execution of
finalize; and of the lock's expiry. Nobody is obliged to submit, cancel, open,
sign or report, and nothing is assumed of crashes in the pipeline; in the
envelope kills end (`MaxKills`) and there are no faults in the run with liveness,
because an engine error does end a finalize for good.

`MCProgress` states its modules' fairness of the part a behaviour is of, `JobPipeline`'s as above.
`StorageLedger`: a writer's or deleter's next step, the stall sweep of each job and
the recount, which beat starts every night; nothing of who begins what, and kills
end. `ToolPage`: the steps of a run that has begun, that is, answers of uploads, the
job and polls, while the page is open. `CeremonyPage`: the poll's timer, and that a
call is served or lost and its answer handled. `Thumbnails`: the clock, and each
tile's request and its answer, or its error, which is as good. In a browser a timer
goes off and a request ends one way or the other, by the network's timeout if by
nothing else. The rest of the client states no fairness, because it promises no progress.

## 5. Proofs

TLAPS checks seven modules of theorems, for every value of the constants.

`JobPipelineProofs`, for any set of jobs, any kinds and any batch size:

- `TypeCorrect`: `Spec => []TypeOK`;
- `InvCorrect`, and from it `CommitsOnce`, `BlobsIntact`, `BasesRespected`,
  `OutputsProducedOnce`;
- `DeliveredCorrect`: `SucceededDelivered`;
- `NoUpdateLost`: the action property `NoLostUpdate`;
- `ImplementsVersionChain`: `Spec => Chain!Spec`, with a document whose deletion
  has begun mapped to the erased chain.

All but the first assume `Outlasts`: `HardLimit < LockTTL`, the condition
`settings/base.py` states for `DOC_LOCK_TTL`; section 6 shows that it is needed. The
other assumptions are those of the module: names are distinct, the batch is not
empty, limits are naturals.

The argument. None of the safety properties is inductive. What carries them is
mutual exclusion: whoever is between `Acquire` and `Return` holds the lock
(`LockInv`; a lock expires only under a dead execution, by `Outlasts`). So what
an execution has read is still what the document says (`ReadInv`), the seq it
chose is free until it writes it and its own afterwards (`SeqInv`), and the newest
version names the one it replaces. `RowInv` is why a job commits once: a row that
says queued has nothing behind it, a job that has recorded a version is past the
point of recording, and a redelivery finds its row running or ended. `VersInv`
and `RowsInv` complete `IInv`. For `SucceededDelivered`, `FromInv` says
that versions are computed from earlier ones, and `DeliveredInv` that whoever is about
to report a success has delivered. There the history is not walked by `Lineage`, a
recursion, but described (`PartOf`): every set of versions that holds the current one,
and with each the one it was computed from, holds one of the job's. That survives an
`Append` and an advance without an induction (`PartOfStep`); that the recursion has a
solution, and that it is such a set, takes only a least counterexample (`LineageIs`,
`LineageLooks`). Each conjunct has a lemma of its own
(`LockStep`, `RowStep`, ...) with one step per action; `ChainFrame` and
`BaseFrame` say that all actions but three leave the chain alone. For the
refinement, `InsertVersion` maps to `Record`, `AdvanceDocument` to `Advance`,
`PurgeBlobs` to `Erase`, every other action to a stutter.

`SignEnvelopeProofs`, for any recipients in any groups and roles, any number of
windows, executions and kills:

- `TypeCorrect`, and `TurnCorrect` (`TurnRespected`), which need nothing of the lock;
- under `Outlasts`, `FingerprintCorrect`, `RecordedOnceCorrect`, `SealedOnceCorrect`
  and `ImplementsCeremony`: `Spec => PromiseSpec`;
- without it, `PublishedTogetherCorrect`: whatever becomes of the Redis lock, what an
  execution writes as the fingerprint is that of the file in storage at that moment.

A handler's question and its conditional UPDATE lie apart, so `PeopleInv` says that
what the question found stays true: consents and wins are never taken back, only
the UPDATE writes `completed`, and a status a handler is about to save was never
read as that. `FinishedInv` carries "everybody has finished" from the dispatch through
the queue to every execution that has begun. `LockInv` is mutual exclusion again; on it
stand `SealInv` (whoever burns has found no fingerprint, what it has put is what it
is about to describe, and what is described is stored) and `RecordInv` (whoever is
about to record an event has found none). In the refinement
`SaveConsent` is `Agree`, a won `Claim` is `Finish`, `Commit` is `Seal`; the invariant
gives each its guard. Where the Redis lock can be lost under a live execution, which is
what `envelope_tail` checks, `RowLockInv` takes the place of `LockInv`: one execution at
a time is between its second look and its commit, so nobody else puts a file between the
one it has put and the fingerprint it writes. That a request is sealed once is not claimed
there: a recipient of a copy may close a completed request (section 6), and then a second
seal passes the second look.

`AuditChainProofs`, for any writers, ids and clock, under
`OrderlySpec == Init /\ [][Next /\ InTime /\ Distinct]_vars`: `NoForkCorrect`,
`ChainVerifiesCorrect`, `DamageNoticedCorrect`; and `TypeCorrect` without the condition. `TimeInv` and `OrderInv` say that an
event being written is later than every row, and that the lock's holder is earlier than
those who wait; so the last row in the order of verification is the last that was
inserted (`ShapeInv`), and inserting after it keeps `NoFork` and `WholeInv`: nothing is
broken, and every row but the last has one chained to it, so that a lost row leaves a gap.
`DamageInv` keeps a witness: an altered row stays, and so does a gap, because nothing is
ever inserted before what follows it. Without `InTime` the conclusion fails, which is `chain_concurrent`.

`RecordsProofs`, for all six components of `Records`, any windows, writers, items, jobs,
accounts, requests, guesses and bounds: `TypeCorrect`, `KeptCorrect`, `SentCorrect`,
`OneChainCorrect`, `DamageNoticedCorrect`, `SettledCorrect`, `LimitsCorrect`, which are all
properties of the run `records`. `Records!Spec` contains the discipline of each
part, so these are the theorems under the conditions of section 3. For the chain the
theorems of its own module are lifted: a behaviour of the composition is one of the part,
or of one that never moves.

- The draft. `WindowInv`: the one handler at work (`Alone`) has found a draft and what it
  will write is what it has read; `SweepInv`: a purge has found no request that names the
  document, and outside of it the current version has its file.
- The session. Until a claim commits every maker works for the guest and nothing is an
  account's (`MakerInv`), who has the session's row knows its bytes (`ClaimInv`), and
  what a purge has listed is still the session's (`PurgeInv`). `CountInv` says what
  each counter is: how many of its owner's makers are done.
- The slots. Between `Enter` and the commit a request alone holds the principal's row
  (`SlotHolder`), so no job appears after it has counted (`SlotRoom`); `SlotCharges`
  balances the hour's charges against jobs made, the charge just made and the processes
  that died.
- The meter. `KeysInv`: a key lives as long as its bucket is in the window and has the
  count of what was done in it, so the sum over live keys is the number of recent
  attempts; `DoorInv`: whoever has been told there is room is right (`Prompt`), and what is
  at work when the last attempt is taken is what has a slot.
- The ledger. `HandsInv` says who has which item in hand at which step, and that no
  two have the same (`Calm`), except an asset deleted before its charge. `BooksInv` is the
  balance at every moment: the counter plus what was refunded early is what is paid for
  (`Paid`, by each item's rows, files and hands). `RecountInv` keeps a witness: there are
  sets `B`, paid for when the recount began, and `T`, counted so far, and at each point of
  its reading what lies between them, `rows` and `blobs` is bounded. If the counter
  is where it was at the second look, what was added meanwhile weighs as much as the assets
  that were deleted; by `SizesApart` neither happened, and what is written is what is
  paid for. Without that hypothesis the step is false: a counter that moved and came back
  passes for one that did not move (section 6). For the quota, `QuotaInv` sets
  the counter and everything let in and not yet charged against the quota plus the
  largest file for every maker that may still be let in on a reading that is stale.

Sums are not computed by induction, which is out of reach: `Sum` is shown to be the number
of cells in columns of the given heights, from the recursion's defining equation and a
smallest subset for which it fails (`SumIs`, `SmallestSubset`), and everything else is
about cardinalities. `Sum` is what `MapThenSumSet` of the community modules computes.

`PagesProofs`, with `SitePagesProofs`, for all nine parts of `Pages`, any requests,
documents, windows, fields, people, files and runs: `TypeCorrect`,
`WorkIsInReachCorrect`, `ListsAreTrueCorrect`, `SentIsSeenCorrect`,
`VisitorKeepsCorrect`, which are all properties of the run `pages`. They are theorems of
`Pages!Spec`, where each part moves under the discipline its module names (`InTurn`,
`OneAtATime`, `Waits`, `Patient`, `Looks`, `Still`; the tool's page has none); `MCSpec`,
which TLC checks, is `Spec` from fewer initial states. Assumed are the modules'
`Assumptions`: bounds are numbers, sets of names are apart, the set of the library's
documents is finite. `PartsInv` says of the part a behaviour is of that its invariant
holds; the parts' own are:

- The session. `GuestInv`: the tab lets go of a guest token only when its session is
  over, so a live session that some request carries, or that has work in it, is the
  tab's; a mint is under way only when the tab has no guest. `TokenInv`: the pair the tab
  has can be spent unless a renewal that has spent it is still to be answered, and then
  somebody waits for the answer.
- The library. A window's offset counts rows of the server's list, whose order other
  steps change. `LibraryCovers` says what the list on screen covers: every document that
  has at most `offset` rows of the server's list up to and including itself, with that
  document left out while it is being changed (`CoversBut`); `LibraryFlow` says that a window
  read while nothing is being uploaded is still what the server would answer. `NoRowTwice`
  is injectivity of the sequence; `NothingSkipped` follows because a document is among the
  first `offset` rows exactly when it has at most that many rows up to itself, a fact
  about cardinalities.
- The panels. A comparison under way is with the document chosen, so its report is, and
  `setOther` drops a report with the choice it was of; an export under way is of the document
  on screen, and the panel drops what was exported of the one before (`PanelsInv`). The document
  compared need not be the one on screen (section 6).
- The ceremony. `Agrees`: every field that nothing is on its way for shows what the server
  holds (`Synced`), one call of a patient signer is under way at a time, never Finish beside a
  save (section 6), and only then can the signer have finished while the page still signs. It is not claimed once a save has failed (`failed`), which
  `SignedIsShown` excepts.
- The pad. When no render is due or under way the preview is of what is typed, and a way in
  that has been left is left clean.
- The builder. A call carries what its step shows (`CallIsOfStep`); from the second step on
  everything placed, and everything undo or redo can place again, is for one of the
  recipients, who are the draft's (`AllPlaced`).
- The Sign panel. Nothing on the page, or in the history, has been burned while no job has
  succeeded; a job under way is for what is on the page.
- The visitor. A script that runs can be taken back until a reload is on its way; nobody
  works while an update is being activated.
- The tools. Where pages are asked for there is one file and at most one run under way, the
  file is remembered when it is up, and the pages given to a job are pages of that file.
  `Parts` and `Selection` are what `page-spec.ts` makes of the specifications in
  `Typings`, of at most two ranges, for any number of pages, and `FormatParses` is proved of
  those; lists of every length would be an induction over data.

`SitePagesProofs` first proves what `Lists` returns (`NthIs`, `FilteredIs`), without
induction: the rank of a place in a finite set of places is a bijection onto
`1..Cardinality`, so `Nth` is its inverse.

`EditorProofs`, for all six panels of `Editor`, any marks, documents, pages, fields, points,
searches and bounds: `TypeCorrect`, `OneFateCorrect`, `KeptCorrect`, `HistoryCorrect`,
`SentCorrect`, `ShownCorrect`, which are all properties of the run `editor` but the text
box's. They are theorems of `Editor!Spec`, where each part moves under the discipline its
module names (and the marks once more under none); `MCSpec` is `Spec` from fewer initial
states, with `Small`. Assumed are the modules' `Assumptions`. `InvCorrect` puts the parts
together; their own invariants are:

- The marks. `OneFatePerMark` is not inductive, since undo and redo bring back old states:
  `AnnoInv` says it of every state in the history too, and that drafts and removals are
  marks that were born, so that a new mark is in none of them. `AnnoWaits` is about what the
  last batch took out (`saving`), also after it failed or conflicted or nobody heard of it: while
  a job is at work the stores still hold what it carries (`HasSent`), and each version that a
  load is under way for, or that may be opened next, has it (`HasStored`).
  `Walked` compares timelines: past, the state shown, and future turned round are one sequence
  (`Line`), and each gesture either keeps it or cuts it at the state shown and appends, and drops
  from its far end what exceeds the limit (`AnnoSized`).
- The bar. `BarCursor`: the version an undo chain steps from exists and holds what the chain
  says is shown, whether or not it is still the head; a revert under way goes back to a version
  that was there when it was sent, and makes what the cursor it carries says (`BarOp`).
  Chains only grow (`BarGrown`), which is why the content of an old version stays what it was,
  and none holds what a later one was made with (`BarOld`). The chain is known by the number
  alone of the version it expects, and that version was reverted to: where no other document
  has a reverted version of that number, the document shown is the chain's (`BarCursorTrue`).
  `BarReads`: for who stays until the answer has come, every load, list and row is of the
  document the address names.
- The Edit panel. What is cached, asked for and staged was read from the version shown
  (`EditRead`, and `EditPast` for the history too), an open editor is of this page and version
  (`EditOpen`), at most one operation is under way and it is for what is shown (`EditAlone`),
  and a report held is of that version and of the search it was made with (`EditHeld`).
- The overlay. The mark lies on its page through every move, resize and key (`GestureFits`,
  with the four handles one by one), a drag and the vertices clicked are of the page shown
  (`GestDragHolds`, `GestPending`), and what was last emitted is whole (`GestOut`).
- The forms. `Batches(F)` describes the batches that fit a file `F`: one change for a field at
  most, and an addition exactly where `F` has no such field. Every staged batch and every batch
  in the history is one (`BuildHolds`), what is on the sheet is in the file or staged
  (`SheetHolds`), and a batch that was sent fits the version it was made against
  (`FormJobHolds`). What the server makes of a batch is a fold over it;
  it is not computed by induction but described (`BatchIs`): `ApplyBatch` is the only function
  on sets of places that satisfies the fold's equation, because two that do would first differ
  at a smallest set, and the description by names satisfies it.
- The protect panel. Areas and their history are of the document on screen, and the report of
  that and of what is searched (`ProtDrawn`, `ProtReview`), of whichever version; a job is for
  the document on screen, carries areas and ids of its own base while it is unanswered
  (`ProtJob`), and an encryption that has succeeded has made its password the file's until
  another version comes. The server works only on the base (`ProtServed`), so what the client
  has not heard of is refused.

What the theorems do not say: liveness is out of TLAPS's reach here (no ENABLED), so
`JobSettles`, `LockFreed`, `DispatchedIsFinalized`, `TailFinishes`, `DriftHeals` and
`NobodyIsLeftWaiting` are model-checked only. Text layout is a fold over the text, of
which each promise (that the lines keep the text, that laying them out again changes
nothing) would be an induction over data: `MCEditor!LaidOut` stays with TLC, which tries
every text of up to four characters in the instance.


## 6. Disagreements

Places where the code does something else than a comment, a docstring or a
document of the repository says. Four are runs of their own and quoted in
PROJECT.json under `findings`:

| property | what happens |
|---|---|
| `SignEnvelope!SignedOnce` | A late `viewed` or `consented` is saved over `completed`; the recipient finishes again |
| `AuditChain!ChainVerifies` | Two events stamped in one order and saved in the other |
| `GuestLifecycle!PurgeSparesAccounts` | A session is claimed while the purge is deleting the documents it has listed for it |
| `AnnotationSession!KeptUntilStored` | A save fails; the next load drops what it carried, which no version has |

The rest are stated in the modules and not listed as runs. TLC refutes each on a
configuration named here with the property in the place of its own:

| property | configuration | what happens |
|---|---|---|
| `JobPipeline!NoLostUpdate` | `edits` with `HardLimit = 300`, the `worker-default` limit of `docs/ops/railway.md:65` | The lock of that lane is 180 s, so it is taken by another job while its holder still works |
| `JobPipeline!TerminalIsFinal` | `edits` | A status written after a stale read overwrites an ending |
| `JobPipeline!ExceptionLeavesDocument` | `edits` | An exception after `record_version` leaves the new version with a failed job |
| `SignEnvelope!CompletedStays` | `finalize` with a copied Cy and his window in Bob's place | A recipient of a copy declines a completed request, which closes it |
| `SignEnvelope!ClosedIsNotSealed` | `finalize` | Declined while finalize works; sealed and completed all the same |
| `SignEnvelope!CertificateComplete` | `finalize` | The last signing is recorded after the UPDATE that lets another handler dispatch |
| `SignEnvelope!ExpiredUnfinished` | `finalize` | A request everybody has finished expires while it waits for finalize |
| `SignEnvelope!MailedOnce` | `finalize` | A kill between the mail and its timestamp mails again |
| `SignEnvelope!FilledBeforeFinishing` | `signed` | A field is saved after its signer has finished |
| `SignEnvelope!ViewingCompletes` | `signed` with `Viewers = {Bob}` and Bob's window | Opening sets a viewer to viewed and completes nothing |
| `SignEnvelope!DoneIsFinalized` | `tail` | The API process dies between the last signing and the dispatch |
| `SignDraft!SourceFrozen`, `LayoutFrozen`, `NeverADraftAgain`, `SentIsKept`, `SourceReadable` | `records` without `Alone` | Send, PATCH, DELETE or cancel overlap another of them; a purge found no request, and one was created meanwhile |
| `StorageLedger!Settled` | `records` without a conjunct of `Calm` (`Once` with two deleters) | see below |
| `GuestLifecycle!WorkFollows`, `CountedOnce` | `records` without `Unhurried` | see below |
| `PasswordMeter!MeterHolds` | `records` without `Prompt` | A guess that waits between the two questions comes in on an old count |
| `Workspace!EndsByArithmetic` | the module with `Spec`, `Docs = {d1, d2}`, `MaxVersion = 3` | The undo chain is kept through navigations and known by a number alone (`workspace.ts:464-480`): a document opened at the version the chain of another expects has that chain taken for its own, so that Undo reverts past what is shown and Redo is offered to what is not its own. `:447-450` says "Any other operation appends a version, `expected` stops matching, and the chain ends by arithmetic" |
| `ProtectSession!RemovesWhatWasSeen` | the module with `Spec`, two documents and searches, one match and password, `MaxVersion = 3` | Only another document clears the review and the areas (`protect.ts:155`). After a conflict or the bar's Undo, or while the question is open, the version on screen changes and they stay; Apply then sends the old ids and rectangles with the new version (`protect.ts:478`), which "identify *different* matches" (`security.facade.ts:157-159`) |
| `PanelJobs!AnswersAreOfDocument` with `report.doc = doc` | `pages`, the panels alone | A report is cleared by choosing another document to compare with and by nothing else (`compare.facade.ts:138`; nobody calls `reset`, `:148`): after a navigation the report of the document before is shown as that of the new one. Convert says of the same lifetime that "without this the panel kept offering the download after the user moved to another document" and clears (`convert.ts:84`) |
| `Workspace!ShownIsNamed` | `editor` without `Reads` | An operation succeeds after the address has gone to another document whose GET is not answered: `adopt` reloads the first, which takes the facade from the newer load, and the first stays on screen (`viewer.facade.ts:253`; `:239` says that "the generation guard makes that a no-op if a newer load owns the facade") |
| `Workspace!RowsAreOfDocument` | `editor` without `Reads` | `loadMoreVersions` appends the rows of a document that has been left (`viewer.facade.ts:170`, against the comment at `:138`) |

The ledger. `_reconcile_one` says that its second look under the row lock makes it
safe to count outside it (`apps/core/tasks.py:389`). For jobs it does, and `Settled`
holds under `Calm`. Uploads and purges have no job row and are not seen (`Apart`), nor
is a job that was canceled and still runs (`Carried`): counted between its row and
its charge, a version is charged twice. A sweep and a request that purge the same
thing refund it twice (`Once`), and a version recorded in a document that is being
purged is charged and never refunded (`Kept`). And the look compares numbers: a
counter that has moved and come back passes for one that has not moved, which is why
`SizesApart` asks that what jobs make and what they delete never weigh the same. The next
night's recount heals all of it, as `DriftHeals` shows; until then the quota is
refused, or room given away, on a wrong number.

The guest session. A job or an upload under way at the claim still makes its document
for the session, which is claimed and soon purged, and the charge goes to a session
nobody has. A claim that overlaps the purge is charged for files that are deleted
next. A claim that dies after its assets have moved in storage leaves them under the
account while the session stays unclaimed. `GuestClaimView` claims expired sessions
too, and a request that touches a session after its claim un-expires it.

The disciplines of the client. Each of these is reached by the module's own `Spec`, with
`Next` in the discipline's place:

- `AnnotationSession`, `KeptUntilStored` without `PatientNext`. A load drops the ids of the last
  batch (`saving`, `annotations.facade.ts:205-217`) whatever has happened to them since: a mark
  that went out and was drawn over before the reload loses the later change; a load that was
  under way when the save began drops the marks before they are stored; an autosave between a
  success and its reload replaces `saving`, so that the first batch stays a draft and the second
  is dropped early; the guard's save (`Leave`) may fail or conflict when nobody listens.
  Without `Retries` it is `annotations_failed`: a failure that is no conflict leaves `saving` as
  it was (`:381`, `annotate.ts:1337-1343`), and another mode and back, or another operation's
  version, drops what was never stored.
- `ProtectSession`, without `Patient`. Beside the row above: a preview's answer after the search
  has changed puts the old search's report under the new one; `remember(this.docId(), ...)` reads
  the document when the job has ended (`protect.ts:289`), so that after a navigation one
  document's password is kept for another (`KeptOpens`). And where nothing was previewed, a typed
  search goes out with the areas and no ids, and all of its matches are removed, of which the
  question, which counts areas and ticked matches, says nothing (`security.facade.ts:196-209`,
  `protect.ts:460-465`); `Removed` is about ids that were sent.
- `PanelJobs`, without `Waits`. The other document chosen while a comparison runs, or a navigation
  while an export does: the answer is kept for what is chosen, or shown, by then.
- `EditSession`, without `OrderlyNext`. A page turned under an open editor stages the block of one
  page under another (`StagedWhereRead`); a whiteout, which asks nobody whether an operation is
  under way, frees the panel when it has ended, and the preview that was under way answers for the
  version before: its ids go out with the new one (`ReviewedIsReplaced`).
- `FormsSession`, without `OrderlyNext`. Undo leaves the sheet of the field it took back open as
  new, and Apply then stages a deletion of a field the file does not have; a field staged before
  the fields are read may take a name that the file has; a late answer shows the fields of the
  version before; a second question about one field stages its deletion twice. The server refuses the batch
  (`NothingRefused`). What it takes is still what is shown: no run refuted `ShownIsMade`.
- `Library`, without `OneAtATime`. A change is asked for under one filter and served after the
  window of another has been read: the document leaves or enters that list without the offset
  being told, so that the next window begins a row too late, or the list ends without it
  (`NothingSkipped`).
- `Workspace`, without `Reads`, in the table above; `ClientSession` without `InTurn`,
  `CeremonyPage`, `RequestBuilder`, `SignPanel` and `SignaturePad` without theirs, `TextBox`
  without `Patient` and `OverlayGesture` without `Sighted`, `Visit` without `Still`: below.

Smaller observations, met while modelling, of things the code does that a reader may
not expect. None of them is a run.

- Passwords: a worker killed between a job's terminal save and `forget_secrets`
  leaves the password on the row until the purge of old jobs. The meter asks before
  the attempt is recorded, so guesses that run at once share one answer.
- Session: a renewal lost by the network ends the account session, as a refused one
  does. A sign-in that overlaps a sign-out or a recovery can leave the tab signed in
  again, or with a notice of a lost session that was not lost.
- Workspace: a page selection survives the navigation to another document with the
  same version number and page count. A text box undone past its placing while its
  page's size is unknown is redone on the A4 guess and stays so
  (`annotate.ts:430-457`). So is one of which a later step, undone, still waits for the
  size, when the box is meanwhile put where it already stands, against the edge: that is
  no step, so Redo stays, but the wait is taken over by the earlier one
  (`annotate.ts:869-884`). After a page is turned, the old page's raster counts as
  drawn until the new one answers (`page-overlay.ts:273-274`). A request for a page's
  words that fails is never repeated.
- Convert and compare: a failed second export leaves the first on offer;
  `CompareFacade.reset` is never called, and a stale candidate list lets a document be
  compared with itself.
- Tools: a job canceled elsewhere leaves the page running; siblings of a failed upload
  can change a later run's phase. Upload row ids can collide after finished rows are
  cleared.
- Ceremony: Finish pressed right after typing races its own save; a load that fails
  right after finishing says the link does not work; an older load's answer can
  overwrite a completed request; the answer for a picture closes whichever pad is open.
- Request builder: undo, or going back, while a save is in flight makes the review
  differ from the draft.
- Signature pad: the debounce lets the previous picture be used; switching tabs leaves
  a blank canvas that counts as drawn; renders answered out of order are shown so, and
  clearing cancels none.
- Sign panel: placements added while a job runs are cleared by its success; a lost
  answer leads to signing again; adding a picture frees the panel while a job runs.
- Thumbnails: a tile stays failed while its next version is fetched; a request already
  under way is made while the rail is paused.
- Visit: work begun while an update is being activated is cut off by the reload;
  another open tab keeps its ad script after consent is denied in this one;
  `ConsentService.reset` is never called.
- Dialogs: a second question replaces one that is open, whose promise then never
  resolves.

## 7. Not modelled

Within the modelled components. Pipeline: thumbnails and table extraction. Ledger: that
a purge of one account's assets refunds them together. Envelope: its detachment when its
owner deletes the account (`source_version` null), downloads, the envelope lookup,
recipient quotas, and the audit events `opened`, `consented` and `field_filled`, which
decide nothing (`AuditChain` has their concurrency). The loss of the newest audit row
shows nowhere in the table, and `Lose` leaves it out. Guest session: its minting and the
monthly counters a claim merges. Slots: the challenge a request may have to answer.

In the client: zoom, search, printing and downloading; stamps' forms and the
appearance of marks and fields beyond one value; the drawing of differences; the folder
import; registration, two-factor and password forms; reporting to the ads' provider.

Not modelled at all, each with its reason in PROJECT.json: the PDF engine (functions of
bytes, most of them a library's, that keep no state: a result or a refusal is a choice
of the modules that call them), accounts (single rows, no step that meets another
process), job secrets and version protection (one write each inside what `JobPipeline`
already orders), sweeps that only delete what nothing refers to, presentation and
infrastructure.

What is left to do, in the order it would pay: the compositions of a client page with the
backend's own module where today the page has a server of its own; a description of
`LayoutText` that does not fold, against which its promises could be proved.
