# A verification of dms-core in TLA+

dms-core keeps documents for a host application: the content of a document in
an object store (MinIO), its metadata in a relational database, and, for
idempotent registration, a record of each upload operation in the same
database. No transaction spans two of these stores. Everything the product
promises about partial failures, retries, cancellations and concurrent callers
therefore depends on the order in which `src/dms/sdk` calls the stores and on
what it does when a call fails; that is what the modules here model.

## The system

| Component | State it keeps | Operations | Hard behaviour |
|---|---|---|---|
| Metadata store `infrastructure/metadata/*sqlalchemy.py` | document rows, id sequence | allocate, exists, save, update, mark_deleted, hard_delete, get, list, page, clear | an update merges the caller's copy into the row, looked up by partition and written by identifier; a commit whose reply is lost; keyset and offset pages of a table that changes |
| Object store `infrastructure/storage/minio.py` | objects by storage key | put, get, exists, delete, clear | put overwrites; delete of a missing key succeeds; a cancelled task leaves its request to a thread |
| Operation store `infrastructure/metadata/*operations.py` | one operation per (partition, scope, key) | claim, get, mark_succeeded, mark_failed, clear | INSERT, then SELECT FOR UPDATE, then a conditional UPDATE; SQLite drops FOR UPDATE; no owner in a mark |
| Upload service `sdk/upload.py` | none: a sequence of store calls | upload_document, upload_document_stream, get_upload_operation | rollback of content, retry, races on one id or key, crashes, shielded and unshielded awaits |
| Document service `sdk/documents.py` | none | delete (soft, hard), set_status, content reads, lists, cursors | stale copies, deletion racing deletion or a read, cancellation half way |
| Reconciliation `sdk/reconciliation.py` | plans | inspect, reconcile, plan, batch | check-then-act across two stores; a batch that is cancelled |
| Content streams `sdk/types.py`, `sdk/implementation.py` | open/closed | iterate, copy, close | one close on every exit, two tasks, cancellation in an opening or closing |
| Facade `sdk/implementation.py`, `sdk/async_implementation.py`, `sdk/contracts.py` | observers, access policy, the context of a recovery | asks the policy, delegates; data reset; iterators; copies | nested public methods; reset of three stores with partial failure |
| Asynchronous facade `sdk/async_sdk.py` | initialised flag and lock | delegates to a native core or, by thread, to the synchronous SDK | lazy initialisation by concurrent calls; cancelled worker threads. It has no close |
| Factory, errors, domain model | none | assembly, types | - |

Callers are threads, tasks or host processes. They interact only through the
three stores: the SDK objects keep no document state of their own.

What makes each component correct:

- *Upload service*: a retried request registers one document; a result is the
  result of the request made; a refused, failed or cancelled registration leaves
  no content the host was not told of; a registered document keeps its content.
- *Operation store*: one holder of a claim; an operation does not stay pending.
- *Document service*: an available document has its content; deletion leaves
  none; a finished deletion stays finished; reads do not expose what is deleted.
- *Reconciliation*: it repairs without destroying the work of others, in its
  own partition only.
- *Data reset*: ready is said only of empty stores; other partitions stay.
- *Lists*: pages neither repeat nor skip, and show one partition and status.
- *Streams*: the connection returns to the pool, once, before the caller goes on.
- *Facade*: the policy is asked with the caller's own context, before anything
  is changed; a batch goes on; the audit is right; every call ends.

## Modules

| Module | Models | Extends |
|---|---|---|
| `Stores` | the three stores, one operator per call, with its three endings | - |
| `UploadService` | registration, from bytes or stream, keyed or not | `Stores` |
| `Registry` | abstract: what a registration promises its host | - |
| `UploadRegistry` | the refinement mapping from one to the other | `UploadService` |
| `AsyncUploadService` | registrations as tasks that may be cancelled | `UploadService` |
| `DocumentService` | soft and hard deletion, content reads | `Stores` |
| `AsyncDocumentService` | the same as tasks that may be cancelled | `DocumentService` |
| `Reconciliation` | inspection and repair, one by one, by plan or in batches | `Stores` |
| `DataReset` | the clearing of the three stores, for one partition or all | `Stores` |
| `AsyncRecovery` | repairs and resets of the native SDK, with cancellation | the two above |
| `Dms` | a deployment: all services on the same stores | `UploadService`, `DocumentService`, `AsyncRecovery` |
| `DocumentPages` | listing by cursor and by offset while the table changes | - |
| `ContentStreams` | one content stream from its opening to its release | - |
| `Facade` | the public methods: questions, service calls, nested methods | - |
| `MC*` | libraries, request sets, symmetry for TLC | the module checked |
| `UploadServiceProofs` | theorems: types, idempotency, claims, results, orphaned content, contents under allocated ids | `UploadService`, `TLAPS` |
| `UploadRegistryProofs` | theorem: the refinement of `Registry` | `UploadRegistry`, `UploadServiceProofs` |
| `AsyncUploadProofs` | theorems: the same promises under cancellation | `AsyncUploadService`, `UploadServiceProofs` |
| `DocumentServiceProofs` | theorems: deletions and reads, by threads and tasks | `AsyncDocumentService`, `TLAPS` |
| `DocumentPagesProofs` | theorems: walks by cursor and by offset | `DocumentPages`, `TLAPS` |
| `ContentStreamsProofs` | theorems: closes, releases, copies, first errors | `ContentStreams`, `TLAPS` |
| `FacadeProofs` | theorems: questions to the policy, batches, initialisation | `Facade`, `TLAPS` |
| `DmsProofs` | theorems: all services together, on shared stores | `Dms`, `UploadServiceProofs` |

Definitions named `X_Something` and commented *Mutant* are wrong variants of
`X`, each one plausible slip of the code; every property is violated by one.

### Stores

`meta` maps a document id to its row, `objects` a storage key to a content,
`ops` an operation key to its operation; `seq` is the auto-increment sequence.
A call ends in one of three ways (`Replies`): `"ok"`; `"err"`, it raises and
had no effect; `"lost"`, it took effect and raises all the same, as a COMMIT or
a PUT does whose connection drops. `Answer` charges failures to the budget
`faults`. Each store call is one atomic step, but three transactions read and
then write without a lock that lasts, so that others may come between:

- `claim()` selects `FOR UPDATE` and then updates; SQLite drops the lock, and
  the two are two steps when `RowLocks` is FALSE;
- `update_metadata` and `hard_delete` select the row by identifier and partition
  and then write by primary key alone. Their step is the write; `Lookup` is what
  the select may have found before it, so a row that is gone, or that was
  registered again in another partition since, may be written. `Merged` is what
  an update writes: the columns in which the copy differs from the row it found,
  which are the status or, over another document, everything but the
  partition. A DELETE that meets no row any more succeeds, an UPDATE raises;
- `clear_partition` and `clear_all` select the rows of the scope and then delete
  them one by one by primary key. They are one step (`ClearMetadata`), which is
  exact unless somebody registers in the scope between the two; no property
  speaks of that.

A content stands for the bytes with their checksum and size; a filename for the
sanitised name; the times of a row are left out. The storage key of the code is a
string built from partition, id and filename, here the triple.

### UploadService

`upc[c]` is the store call that caller `c` makes next; an action performs the
call and everything the code does up to the next one.

| Action | Code (`sdk/upload.py` unless said) |
|---|---|
| `UploadDocument` | validation, then the path with or without a key |
| `Allocate` | `_allocate_document_id` |
| `Claim` | the INSERT of `claim()` (`operations.py`) |
| `Select`, `Reclaim` | the SELECT of `claim()` and what follows it |
| `Replay` | metadata read answering a completed operation |
| `CheckExists`, `Put`, `Save`, `Rollback` | `_upload_document`, `_upload_document_stream` |
| `MarkSucceeded`, `MarkFailed` | the try and except of `_idempotent_upload` |
| `Crash` | the process dies between two calls |

`settled` and `reports` are history: which document was saved or replayed for
which key, and which storage keys the host was told of with an alarm
(`StorageError`, `ConsistencyError`, or its own death). The path of a stream
differs from that of bytes only in its input `"short"` (a stream that ends
before its declared size) and in having no key. A loser of the SQLite race is
answered "in progress": its UPDATE finds no row, and the ORM has by then set
the record it holds to pending.

### Registry and UploadRegistry

`Registry` knows no stores, claims, marks or clean-up. A caller asks
(`Ask`), its document appears at once (`Register`) under an identifier that was
free and is the only one of its operation key, and it is told that document
(`Answer`, or directly without a key) or a failure; `GiveUp` ends the chance to
register. Rows never change and never go. `UploadRegistry` maps `rows` to what
the rows of `meta` describe, `given` to `settled`, `phase` to `"open"` up to
`save()` and `"closing"` after it, `told` to the document or the error a caller
was answered with. The step that registers is `Save`, with its reply lost too.

### AsyncUploadService

Each call is the action of `UploadService`; what is added is where a
cancellation finds the task. `CancelCall` cuts the awaits before the completion
task of a keyed registration, which nothing shields. `HoldBack` is the first
cancellation of a shielded completion, kept until that is done.
`CancelCompletion` is the next one, which passes `asyncio.shield`'s caller and
reaches the completion itself. A cut transaction was committed or not
(`CutTransaction`); an object store call runs on in its thread and has its
effect later or never (`late`, `Land`). `torn` and `interrupted` remember the
keys whose claim or mark was cut and the contents of registrations cancelled
twice: there the code promises nothing, and the properties except them by name.

### DocumentService and AsyncDocumentService

`dcopy[c]` is the copy of the row that a client read and writes back.
`Load`/`SetDeleting`/`Remove`/`Erase`/`MarkLoad`/`MarkWrite` are the calls of
`delete`, `SetFailed` its error path, `Fetch` that of `get_content` and
`get_content_stream`. `mark_deleted` of the store is a read and a write in two
transactions, hence two actions. Documents start registered (`Library`); their
registration is `UploadService`'s. In the asynchronous service nothing is
shielded: `CancelDocument` ends a request at any of its calls, with the row
write under way made or not, and leaves a removal to its thread (`dlate`).

### Reconciliation, DataReset, AsyncRecovery

`rpc[c]` is the next call of operator `c`. `InspectRow`, `InspectObject` and
`InspectAgain` are `inspect_document` as the synchronous facade runs it: row,
object, and the row again for the access policy; the native coordinator reads
the row once (`AsyncInspectObject`). `Eligible` is what `_apply` demands of the
inspection, `FirstCall` the call it then makes; `CompleteLoad`/`CompleteWrite`
are `mark_deleted`, `FailedLoad`/`FailedWrite` the read and the write of
`MARK_FAILED`. `InNamespace` is the comparison of the key with the prefix of
partition and identifier; an identifier of the host may contain "/", and the
prefix of `a` then reaches the keys of `a/b` too: `NestedIds` holds such pairs. After the repair the document is inspected again (`rdone`). A dry
run is verified at once. A batch lists its candidates and a plan names its
documents; either way an error ends one document and `NextItem` goes on with
another, whereas a cancellation ends the whole request (`CancelRepair`).

`ListObjects` and `RemoveObject` are `_clear_prefix`, one request each;
`ClearMetadata` and `ClearOperations` are one transaction each. `sfailed` is
`failed_stores`, which decides between "ready" and `DataResetError`. The steps
go on after a failure, as `_reset_data` does, but not after a cancellation
(`CancelReset`). `rlate` holds the removals left to threads. `sbegun` is history:
the partitions some reset was begun for, where rows and contents are taken one
after the other and the properties about their accord are silent.

### Dms

`DmsNext` is a step of any of the parts; each leaves the variables of the others
alone and works on the shared `storeVars`. The parts have no other coupling in
the code either: no lock, no lease, no version column. `NativeOperators` and
`NativeResetters` are tasks, the others threads. `PurgeTold` restricts the
environment: an operator purges a storage key only when its host was told of a
failure of the registration that used it, as the messages of `StorageError` and
`ConsistencyError` suggest. Without it, see `purge_race`.

### DocumentPages

One reader walks one listing; between its pages other callers insert rows,
change their status and remove them. A row has any of the five statuses: a soft
deletion leaves it in the table as DELETED, and `PublicExcluded` hides it. An
identifier is registered once in a walk (a host's own may come back after it was
purged, which no property here is about). `MetadataStatement` is the WHERE clause,
`Precedes` the ORDER BY, `After` the keyset condition, `ListMetadataPage` the
`limit + 1` rows a cursor page fetches; `EncodeCursor`, `DecodeCursor` and
`SameListing` are what a cursor holds and how it is checked. `ListPage` and
`ListInternal` are the two requests, `IterDocuments` and
`IterRecoveryCandidates` the generators, with their asynchronous twins, which a
cancellation may cut. `ForeignCursor` is a host that presents the cursor of
another listing, or a damaged one. A page is a set: the order within it is
`Precedes`. `seen` is history.

### ContentStreams

`plan` says which SDK opens the stream (`sync`; `compat`, the awaitable SDK over
the synchronous one; `native`) and how it is consumed (`iterate`, `chunks`,
`copy`). Opening is `StatObject` and `GetObjectStream`; a close is one process
of `closeOf`, with the calls of `close()` and `release_conn()` as steps and, on
the synchronous stream, the test and the setting of `_closed` as two. `Proceed`
counts the closes still to come when iterators nest, and whether the error of
each gives way to an earlier one. Cancellations reach the opening, the transfer
and each close, which is shielded once. A second task may close the stream.
A copy of the awaitable SDK over the synchronous one is the synchronous copy,
whole in a thread, so `Plan` has no such plan of its own. `StopEarly` is a
consumer that closes the iterator after a first chunk; `StopUnstarted` one that
closes it before: the closing iterators are generators, which run nothing
when they are closed before they are started, so the response stays open.

### Facade

A method is a sequence of steps: a question to the policy, a service call that
reads or changes, another public method, the recovery context variable, a batch
item, the audit. `SyncPrograms` and `NativePrograms` give the sequence of every
public method; `stack[t]` holds the methods under way. The native side differs
in one thing: its coordinator inspects past the public method and its policy.
`Call`, `Queue`, `Lock`, `Initialize` and the cancellations are
`async_sdk.py`: lazy initialisation under a lock, and `_run_blocking`, which
awaits its worker thread once more after a first cancellation.

## Runs

| Run | States | Shows |
|---|---|---|
| `upload_faults` | 660 k | allocated ids, no row locks, 2 callers, 3 registrations, 2 failures of any kind, crashes: type invariant, right results, content intact, and the refinement of `Registry` |
| `async_uploads` | 415 k | the same calls as tasks, no row locks, one key retried, reused and combined with an explicit id, 2 cancellations and 1 failing call, fair: one document per key, one holder, replays of completed registrations only, no orphan, content intact, no operation stays pending |
| `deletions` | 480 k | 3 clients, tasks and threads, 2 failures, crashes, 1 cancellation, fair: available documents have content, deletion leaves nothing, "deleted" stays true, a late removal takes from no reader, undisturbed deletions end, reads accuse no available document |
| `dms_lifecycle` | 503 k | 2 callers, a client, a synchronous and a native operator, 2 partitions, 2 failures, 1 cancellation: registrations against deletions and purges: rows and contents in accord, no silent orphan, purges take orphans only |
| `dms_repair` | 514 k | 2 repairs, or a repair and a reset, by threads and tasks, against a deletion, 1 failure, 1 cancellation: repairs keep rows and contents in accord, completions take no available document, ready means empty, partitions isolated |
| `pages` | 803 k | walks over 4 rows, two times, two partitions, limits 0 to 2, 2 changes, 1 failure: nothing skipped or repeated by cursor, bounded drift by offset, only what was asked for, nothing that is being deleted or deleted |
| `content_streams` | 94 k | 2 chunks, 2 failures, 2 cancellations, all plans, fair: closed once, released in time, whole copies, first errors, an end |
| `facade_calls` | 159 k | 2 tasks, 2 calls of any method, 2 refusals or failures, 1 cancellation, all three SDKs, fair |
| `upload_contention`, `upload_unmarked`, `purge_race`, `claim_spins` | | violations, see below |

Deadlock is not checked: when the budget of requests is used up and every
caller is idle, nothing is left to do, and the system rightly stops.

**Bounds.** `MaxDoc` identifiers, `MaxFaults` failing calls; `MaxCalls`,
`MaxDocCalls`, `MaxRepairs` and `MaxResets` requests of each kind; `MaxCancels`,
`MaxDocCancels` and `MaxRecoveryCancels` cancellations. Three registrations by
two callers are a first attempt, a concurrent one and a retry of either; two
failures are what it takes to lose a call and its compensation (save and
rollback; save and mark; removal and FAILED). Two cancellations are what it
takes to get past a shield. `MaxDoc` is at least the number of requests that
allocate, so the sequence never runs out. Two partitions and two contents tell a
foreign document or content from one's own. The claim race of SQLite needs a
failed operation and two retakers, which two callers are; whatever row locks
allow is a schedule without them, so both upload runs leave them out. Repairs race in pairs,
and with one client: three writers of one row, each with a copy of its own. In
`pages`, three rows of one partition and limits 1 and 2 give a first, a middle,
a full last and a short last page, ids are numbered as their strings sort, and
two changes let one row leave and another come between two pages. In
`facade_calls` one task calls every method that differs in more than the name of
its question, and the other makes short calls beside it; two items tell a batch
that goes on from one that stops.

**Fairness.** `FairSpec` of `UploadService`, `AsyncFairSpec`, `AsyncDocFairSpec`
and `DmsFairSpec` ask weak fairness of each caller's next step: a running call
eventually returns or raises, and the caller goes on in straight-line code.
`ContentStreams` asks it of the threads and of the tasks whose call returned,
`Facade` of each task. Starting a request, failing, being cancelled and dying
are never forced, and a left-over thread may never land.

### Where code and documents part

- `upload_contention`: two registrations of one explicit id both pass
  `exists()` and write one storage key; the one refused by the primary key then
  deletes that key, and the registered document has lost its content.
  `OrphanAccounted` and idempotency still hold there (they are proved for every
  request set).
- `upload_unmarked`: when `mark_succeeded` fails the completed operation is
  marked failed, and each retry ends in `DuplicateDocumentError` instead of the
  completed result.
- `purge_race`: between its PUT and its INSERT a registration looks like an
  orphan; a purge that inspected the row before the INSERT and removes the object
  after it takes the content of an available document. No failure is needed.
- `claim_spins`: when a reset removes the operation that an INSERT has met,
  `claim()` selects it for ever; only another caller's INSERT could free it.

Met while modelling, in the models, and without a run of their own:

- a content read overtaken by a deletion raises `ConsistencyError`
  (`documents.py:320`) where `docs/srs.md:96` asks for `DocumentDeletedError`;
- a keyed registration whose mark failed and that is retried after its document
  was deleted registers the old identifier again (`operations.py:107`), and a
  slower deletion of the first document then removes the content of the second:
  TLC finds `ContentUnlessReset` violated when `dms_lifecycle` is given
  `KeyedUpload` for its requests and two clients that delete;
- `MARK_FAILED` of a softly deleted document, and deleting one again with a
  removal that fails, make it FAILED, which public reads show (`docs/prd.md:49`);
- a cancellation of the claim leaves the operation pending although nobody works
  on it (`docs/srs.md:160`): `torn` of `AsyncUploadService`;
- a native opening cancelled while its thread is in `get_object` leaves the
  response open (`minio.py:325`, `docs/prd.md:108`): `LandOpen`. The synchronous
  store leaves a response without a size open, too;
- closing a closing iterator before its first chunk leaves the response open
  (`types.py:197-210`, `276-303`: a generator that has not started runs neither
  its body nor its `finally`), where the docstring at `types.py:198` promises
  "close this stream on ... iterator close" and `docs/srs.md:103` (SRS-GET-018)
  that an explicit close of the iterator cleans up at once: `StopUnstarted`.
  `ReleasedBeforeReturn` and `StreamsEnd` except exactly that case (`Unstarted`).
  `iter_document_chunks` has not opened the stream before its first chunk;
- an identifier of the host that is deleted and registered again in another
  partition, between the select of an `update_metadata` or `hard_delete` and its
  write, has its new row written or deleted by a call for the old partition
  (`sqlalchemy.py:91-103`, `198-209`): `Lookup` of `Stores`, and the reason why
  `PartitionsIsolated` has a hypothesis;
- a purge for identifier `a` is let through to the keys of identifier `a/b`
  (`reconciliation.py:171`), which a host may register (`upload.py:494`), and
  whose row it does not ask for: `NestedIds`;
- `iter_document_chunks` (`implementation.py:745`) raises the error of a close in
  place of the read error before it (`docs/srs.md:101`);
- a repair of the synchronous SDK may be refused by the policy after it was made
  (the inspection that verifies it asks), and the audit then denies it
  (`reconciliation.py:245`); a cancelled native batch reports nothing of the
  items it has repaired;
- a second cancellation of the sync-backed facade leaves a worker thread that
  still writes.

Limits of properties that hold: `ContentIntact`, `ContentUnlessReset`,
`CompletionTakesDeleted`, `PartitionIsolation` and `DeletedIsFinal` beside
registrations hold where no identifier is registered twice (an identifier taken again between inspection and
`hard_delete` loses its new row; so may a retry that registers its first
identifier again). `ContentUnlessReset` says nothing of the scope of a
reset, and `ReadyMeansEmpty` is stated without registrations in it: one under
way while the stores are cleared may insert its row after its content was
removed, and a removal of a cancelled native reset may land after the load that
follows, so a host has to keep registrations away from a reset and wait after a
cancelled one. A keyed retry writes the storage key of its first attempt again,
so purging a key it was told of races with that retry as in `purge_race`;
`dms_lifecycle` registers without keys. `NoFalseInconsistency` and
`UndisturbedDeletingSettles` speak of runs without failure, crash or
cancellation; after one, a document may stay DELETING until it is repaired.

## Proofs

TLAPS proves, for every value of the constants that the named assumptions of
the modules allow (any set of callers, tasks and requests, either kind of
database, lost replies and crashes or not, any number of failures and
cancellations, batches and contents of any length):

| Theorem | Property | Of |
|---|---|---|
| `TypeCorrect` | `TypeOK` | `UploadService` |
| `RegisteredOnce`, `OneHolder` | `IdempotentOnce`, `ClaimOwnership` | |
| `ResultCorrect`, `ReplayCorrect` | `ResultMatchesRequest`, `ReplayIsCompleted` | |
| `NoSilentOrphan` | `OrphanAccounted` (of which `ContentUnlessReset` is the form in a deployment) | |
| `AllocatedContentIntact` | `ContentIntact`, under `Allocated` | |
| `RegistryImplemented` | `ImplementsRegistry` | `UploadRegistry` |
| `CancelledOnce`, `CancelledOneHolder`, `CancelledReplay` | `IdempotentOnce`, `ClaimOwnership`, `ReplayIsCompleted` | `AsyncUploadService` |
| `CancelledNoOrphan` | `CancelledOrphanAccounted` | |
| `CancelledIntact` | `CancelledContentIntact`, under `Allocated` | |
| `AvailableAlwaysHasContent`, `DeletionNeverLeaves` | `AvailableHasContent`, `DeletionLeavesNothing` | `AsyncDocumentService` |
| `DeletedStaysFinal`, `InconsistencyNeverFalse` | `DeletedIsFinal`, `NoFalseInconsistency` | |
| `LateRemovalHarmless` | `LateRemovalTakesDeleted` | |
| `CursorComplete`, `OffsetDriftBounded` | `CursorSkipsNothing`, `OffsetDrift` | `DocumentPages` |
| `PagesInOrder`, `PagesWithinListing` | `PagesDescend`, `PageWithinListing` | |
| `NativeFlagMeansReleased`, `ResponseClosedOnce` | `ClosedMeansReleased`, `ClosedOnce` | `ContentStreams` |
| `ReturnReleases`, `CancelledOpenDrops` | `ReleasedBeforeReturn`, `CancelledOpenReleased` | |
| `CopyIsWhole`, `FirstErrorStays` | `CopiedIsWhole`, `FirstErrorKept` | |
| `ContextIsCallers`, `RefusedFirst` | `AskedWithOwnContext`, `RefusalComesFirst` | `Facade` |
| `BatchContinues`, `AuditTruthful` | `BatchGoesOn`, `AuditTellsApplied` | |
| `InitializedOnce`, `CancelledWaits` | `InitOnce`, `CancelWaits` | |
| `PartitionsIsolated` | `PartitionIsolation`, under `FreshIdentifiers` | `Dms` |
| `ReadyIsEmpty` | `ReadyMeansEmpty`, under `ResetApart` | |
| `ContentKept`, `PurgeTakesOrphans` | `ContentUnlessReset`, `PurgedIsOrphan`, under `FreshIdentifiers` and `PurgesTold` | |
| `CompletionSafe`, `DeletedForEver` | `CompletionTakesDeleted`, `DeletedIsFinal`, under `FreshIdentifiers` | |

`DocInvariant`, `StreamsInvariant` and `FacadeInvariant` state the inductive
invariants of their modules. The assumptions are types and bounds, that `None`
is not a value, and: streams have no key (`UploadAssumption`), the library holds
available documents (`DocumentAssumption`), a table is finite
(`PagesAssumption`), a task calls public methods (`MethodsAssumption`). Some
theorems have a hypothesis about what the host asks for:

| Hypothesis | Says | Without it |
|---|---|---|
| `Allocated` | every request lets the service choose its identifier | `upload_contention` |
| `FreshIdentifiers` | so does every request of a deployment, and none has a key: a retry with a key registers its first identifier again; no identifier is nested in another, as numerals never are | `upload_contention`, the retry after a deletion, and the cases above of an identifier that comes back in another partition or is nested |
| `PurgesTold` | a purge is of a key its host was told of (`PurgeTold`), or nobody registers | `purge_race` |
| `ResetApart` | no registration is made into a partition that may be reset | a registration cut in two by the reset leaves its row |

The runs `dms_lifecycle` and `dms_repair` meet all of them, the second by having
no registrations.

Almost none of the properties is inductive. What each proof adds:

- *Registration.* `TypeInv` adds to `TypeOK` what each `upc` implies of the
  local state (`LocalOK`): past allocation there is an id, points of the keyed
  path have a key. `IdemInv` says that the holder's `udoc` is the operation's,
  so a retake reuses the document; that the operation of a holder is pending, so
  it is alone; and that a holder about to mark success has saved its row, which
  nothing in `UploadService` removes. `NoSilentOrphan` splits on the objects a
  step may leave: `Put` puts the key in flight, `Save` references it or moves to
  the rollback, `Rollback` removes it or reports.
- *Contents of rows.* A rollback deletes a storage key, and keys are made of
  identifiers; so `WorkInv` says whose an identifier is: one caller's until a
  claim is made, then one operation's (`OwnInv`), and that a caller puts
  content only where there is no row (`PathInv`). Then one writer of a key is
  left, and `KeyInv` follows the content from the PUT to the row.
- *Refinement.* `RegistryInv` ties the local state to the history the mapping
  uses: an operation of a request with an explicit identifier names that one, a
  completed operation and a holder about to complete one have an entry of
  `settled`, a rollback already knows its error. Each action then maps to one
  step of `Registry`, or to none.
- *Cancellation.* `CutTransaction` has the effect of the call it cuts or none,
  so what the lemmas say of operations and rows that are kept carries over;
  `LateInv` says that the keys a left-over thread may still write are those of
  registrations cancelled twice, and `IntactInv` speaks of all the others.
- *Deletion.* A copy of a row is stale the moment it is read. `ClientInv` keeps
  of it only what no other client can undo: an unavailable row never becomes
  available again, removed content never comes back. `ContentInv` orders the
  two: content goes before the row says deleted and stays while it says
  available.
- *Pages.* By cursor, every row kept up to the cursor was given and none beyond
  (`DocumentsInv`). By offset, `Below` are the kept rows the offset has moved
  past unseen and `Again` the given rows at or beyond it; `RecoveryInv` bounds
  their number by the rows that left and entered, and the step counts positions
  in the listing before and after a change.
- *Streams.* `ControlInv` says for each task which closes are under way and
  which are still to come, `HandInv` and `NativeInv` what response and flag have
  seen of them, `AloneState` what holds as long as nobody else closes, nothing
  fails and one cancellation at most arrives, `ErrorInv` that an earlier error is
  in the place a later one would take.
- *Facade.* `Programs` says of every method of the three SDKs where it sets and
  resets the variable, what it enters in between, and that what may be refused
  comes before what changes something (`WellFormed`, `Orderly`), for batches of
  any length. `TaskOK` says of the methods under way: each was entered by the one
  below it (`Chained`); a token is held between setting and resetting
  (`FrameOK`) and restores what was there before (`TokensOK`), so the variable is
  the caller's context or nothing; who has no context of the caller may read it
  there (`ContextsOK`); what has changed something asks nothing more (`QuietOK`);
  a batch under way meets no failure of its own (`BatchOK`). `HostInv` and
  `LockInv` tie the host's side to it.

- *Deployment.* What a process has read is out of date when it acts, and
  everybody writes everywhere. The proofs turn that round: they say what no step
  of anybody does. For partitions, `Within(p)` bounds what a step changes to
  the partition of its request, because a storage key's and an operation's
  partition are checked or written by the call itself (`ClientLocal`,
  `OperatorLocal`, `ResetterLocal`), and a row's is that of the copy the call
  read before (`CopyOf`), as long as no identifier comes back. For resets, `Spares(S)`: nobody but a
  registration makes anything appear, since an update of a missing row raises;
  so what a resetter has emptied stays empty (`ResetterInv`). For documents,
  `Aging`: once the registration of an identifier is over (`Past`), its row may
  go but not come, never becomes available again and keeps its partition, name
  and content, and removed content does not come back. What deletions, repairs,
  purges and left-over threads rely on (`ClientFresh`, `OperatorFresh`,
  `LateFresh`) is stable under `Aging`, so each has to be shown only for the
  steps of its own process. In return deletions, repairs, resets and threads
  take `Later` steps, which keep what callers and the stores rely on
  (`LaterKeeps`), and a caller's step touches its own document only (`Acts`).
  `FreshInv` is the whole: `Accord` of content and row, `NoOrphan`, and that an
  identifier above the sequence is unused (`Unused`) and one below has one caller
  (`OwnIdentifiers`).

Each invariance proof has one lemma per action and, for what a step leaves
alone, lemmas that say so once (`Alone`, `DocAlone`, `WorkKeeps`, `HostMoves`).

Only model-checked: the liveness properties (`CancelledPendingResolves`,
`UndisturbedDeletingSettles`, `StreamsEnd`, `CallEnds`, `ClaimReturns`), which
need fairness and ENABLED and are beyond the prover. Every safety and action
property of a passing run is proved too. What the theorems say of one service is
not inherited by a deployment, where others write the same stores: there what
`DmsProofs` says holds. Idempotency, for one, is stated of `UploadService` alone,
since a reset clears operations.

## What is not modelled

Not modelled: logging, timings, the events to the operation observer,
serialisation, the configuration factory, the exception classes, HTTP headers,
the lazy creation of tables and bucket, the rules of an access policy (only
whether it agrees). `get_upload_operation`, `get_metadata` and
`get_internal_metadata` are reads that change nothing. A plan of another
partition is refused before any call.
