---------------------------- MODULE UploadService ----------------------------
(***************************************************************************)
(* UploadService (sdk/upload.py): registration of a document from bytes or *)
(* from a stream, with or without an idempotency key.                      *)
(*                                                                         *)
(* One registration is a sequence of calls on three stores:                *)
(*                                                                         *)
(*   allocate   an identifier, when the request names none                 *)
(*   claim      INSERT of the upload operation        (only with a key)    *)
(*   select     SELECT ... FOR UPDATE of an existing operation             *)
(*   reclaim    its UPDATE, a step of its own where rows are not locked     *)
(*   replay     metadata read that answers a completed operation           *)
(*   exists     is the identifier a row already?                           *)
(*   put        content under the storage key                              *)
(*   save       INSERT of the row                                          *)
(*   rollback   removal of the content after a failed save                 *)
(*   mark_succeeded, mark_failed   the operation's final state (with a key) *)
(*                                                                         *)
(* upc[c] is the call caller c performs next.  Callers are threads or host *)
(* processes sharing the stores; one of them may die at any point.         *)
(***************************************************************************)
EXTENDS Stores

CONSTANTS
    Callers,        \* threads and processes that register documents
    Requests,       \* the upload requests they may issue
    MaxCalls,       \* bound: registrations started in a behaviour
    RowLocks        \* TRUE: PostgreSQL; FALSE: SQLite, which drops FOR UPDATE

VARIABLES
    upc,            \* upc[c]: the next store call of caller c, or "idle"
    ureq,           \* ureq[c]: the request being served, or the last one
    udoc,           \* udoc[c]: its document identifier, once there is one
    uout,           \* uout[c]: the result, or the exception being raised
    calls,          \* registrations that may still be started
    settled,        \* history: <<operation key, document>> saved or replayed
    reports         \* history: <<storage key, error>> the host was told of

uploadVars == <<upc, ureq, udoc, uout, calls, settled, reports>>

vars == <<storeVars, uploadVars>>

-----------------------------------------------------------------------------
(* Requests *)

(***************************************************************************)
(* input is what validation and reading make of the request: "invalid" is  *)
(* refused before any store call, "short" is a stream that ends before its *)
(* declared size.  Stream requests carry no idempotency key.               *)
(***************************************************************************)
UploadRequests ==
    [kind : {"bytes", "stream"}, part : Partitions, file : Filenames,
     content : Contents, doc : DocIds \cup {None},
     key : IdemKeys \cup {None}, input : {"good", "invalid", "short"}]

ASSUME UploadAssumption ==
    /\ Requests \subseteq UploadRequests
    /\ \A r \in Requests : /\ r.kind = "stream" => r.key = None
                           /\ r.input = "short" => r.kind = "stream"
    /\ MaxCalls \in Nat
    /\ RowLocks \in BOOLEAN

Fingerprint(r) == [part |-> r.part, file |-> r.file,
                   content |-> r.content, doc |-> r.doc]

(* Mutant: the fingerprint is not compared. *)
Matches_Any(op, r) == TRUE

Matches(op, r) == op.fp = Fingerprint(r)

(* Refused by the validation of fields, partition and size. *)
Refused(r) == r.input = "invalid"

(* The stream ended before the declared size had been read. *)
EndsEarly(r) == r.input = "short"

Keyed(c) == ureq[c].key # None

OpKey(c) == <<ureq[c].part, ureq[c].key>>

BuildStorageKey(c) == <<ureq[c].part, udoc[c], ureq[c].file>>

NewRow(c) == [part |-> ureq[c].part, file |-> ureq[c].file,
              content |-> ureq[c].content, status |-> "available"]

Points == {"idle", "allocate", "claim", "select", "reclaim", "replay",
           "exists", "put", "save", "rollback", "mark_succeeded",
           "mark_failed"}

(* Where _idempotent_upload is inside the try that follows its claim. *)
ClaimedPoints == {"exists", "put", "save", "rollback", "mark_succeeded",
                  "mark_failed"}

(* Errors that tell the host to inspect the document. *)
Alarms == {"StorageError", "ConsistencyError", "Crashed"}

(* CancelledError is raised in tasks only (AsyncUploadService). *)
Results == Alarms \cup
    {"None", "Created", "Replayed", "ValidationError", "MetadataStoreError",
     "BackendError", "IdempotencyConflictError", "IdempotencyInProgressError",
     "DuplicateDocumentError", "DocumentNotFoundError", "CancelledError"}

UploadTypeOK ==
    /\ StoresTypeOK
    /\ upc \in [Callers -> Points]
    /\ ureq \in [Callers -> Requests \cup {None}]
    /\ udoc \in [Callers -> DocIds \cup {None}]
    /\ uout \in [Callers -> Results]
    /\ calls \in 0 .. MaxCalls
    /\ settled \subseteq OpKeys \X DocIds
    /\ reports \subseteq StorageKeys \X Alarms

UploadInit ==
    /\ upc = [c \in Callers |-> "idle"]
    /\ ureq = [c \in Callers |-> None]
    /\ udoc = [c \in Callers |-> None]
    /\ uout = [c \in Callers |-> "None"]
    /\ calls = MaxCalls
    /\ settled = {}
    /\ reports = {}

Init == StoresInit /\ UploadInit

-----------------------------------------------------------------------------
(* Moving on, returning and raising *)

Goto(c, p) ==
    /\ upc' = [upc EXCEPT ![c] = p]
    /\ UNCHANGED <<uout, reports>>

(* The call ends; an alarm is told to the host with the key it is about. *)
Return(c, res) ==
    /\ upc' = [upc EXCEPT ![c] = "idle"]
    /\ uout' = [uout EXCEPT ![c] = res]
    /\ reports' = IF res \in Alarms
                    THEN reports \cup {<<BuildStorageKey(c), res>>}
                    ELSE reports

(* An exception leaves _upload_document: with a key, _idempotent_upload    *)
(* catches it, marks the operation failed and raises it again.             *)
Raise(c, e) ==
    IF Keyed(c)
      THEN /\ upc' = [upc EXCEPT ![c] = "mark_failed"]
           /\ uout' = [uout EXCEPT ![c] = e]
           /\ UNCHANGED reports
      ELSE Return(c, e)

-----------------------------------------------------------------------------
(* The steps of a registration *)

AfterIdentifier(r) == IF r.key = None THEN "exists" ELSE "claim"

(* Mutant: the identifier is left to _upload_document, after the claim. *)
UploadDocument_LateIdentifier(c, r) ==
    /\ upc[c] = "idle"
    /\ calls > 0
    /\ calls' = calls - 1
    /\ ureq' = [ureq EXCEPT ![c] = r]
    /\ udoc' = [udoc EXCEPT ![c] = r.doc]
    /\ uout' = [uout EXCEPT ![c] = "None"]
    /\ upc' = [upc EXCEPT ![c] = IF r.doc = None /\ r.key = None
                                   THEN "allocate" ELSE AfterIdentifier(r)]
    /\ UNCHANGED <<storeVars, settled, reports>>

UploadDocument(c, r) ==
    /\ upc[c] = "idle"
    /\ calls > 0
    /\ calls' = calls - 1
    /\ ureq' = [ureq EXCEPT ![c] = r]
    /\ udoc' = [udoc EXCEPT ![c] = r.doc]
    /\ IF Refused(r)
         THEN /\ uout' = [uout EXCEPT ![c] = "ValidationError"]
              /\ UNCHANGED upc
         ELSE /\ uout' = [uout EXCEPT ![c] = "None"]
              /\ upc' = [upc EXCEPT ![c] = IF r.doc = None
                                             THEN "allocate"
                                             ELSE AfterIdentifier(r)]
    /\ UNCHANGED <<storeVars, settled, reports>>

Allocate(c) ==
    /\ upc[c] = "allocate"
    /\ \E d \in DocIds, o \in Replies :
         /\ AllocateDocumentId(d, o)
         /\ IF o = "ok"
              THEN /\ udoc' = [udoc EXCEPT ![c] = d]
                   /\ Goto(c, AfterIdentifier(ureq[c]))
              ELSE /\ Return(c, "MetadataStoreError")
                   /\ UNCHANGED udoc
    /\ UNCHANGED <<meta, objects, ops, ureq, calls, settled>>

(* claim(): INSERT, and on a unique-key violation on to the SELECT.  An    *)
(* error here leaves _idempotent_upload before its try: nothing is marked. *)
Claim(c) ==
    /\ upc[c] = "claim"
    /\ \E o \in Replies :
         /\ InsertOperation(OpKey(c), Fingerprint(ureq[c]), udoc[c], o)
         /\ IF o # "ok" THEN Return(c, "BackendError")
            ELSE Goto(c, IF ops[OpKey(c)] = None THEN "exists" ELSE "select")
    /\ UNCHANGED <<meta, objects, seq, ureq, udoc, calls, settled>>

(* Mutant: a retaken claim keeps the identifier generated for the retry. *)
Reuse_NewIdentifier(c) == Goto(c, "exists") /\ UNCHANGED udoc

(* The claim is granted on the operation's original document. *)
Reuse(c) ==
    /\ udoc' = [udoc EXCEPT ![c] = ops[OpKey(c)].doc]
    /\ Goto(c, "exists")

(* Mutant: the UPDATE's rowcount is not looked at. *)
Retake_AnyRowcount(c) ==
    \E o \in Replies :
       /\ MoveOperation(OpKey(c), "failed", "pending", o)
       /\ \/ o = "ok" /\ Reuse(c)
          \/ o # "ok" /\ Return(c, "BackendError") /\ UNCHANGED udoc

(* Mutant: the loser of the race is answered with the state it had read. *)
Retake_StaleState(c) ==
    \E o \in Replies :
       /\ MoveOperation(OpKey(c), "failed", "pending", o)
       /\ \/ o = "ok" /\ InState(OpKey(c), "failed") /\ Reuse(c)
          \/ /\ o = "ok" /\ ~InState(OpKey(c), "failed")
             /\ udoc' = [udoc EXCEPT ![c] = ops[OpKey(c)].doc]
             /\ Goto(c, "replay")
          \/ o # "ok" /\ Return(c, "BackendError") /\ UNCHANGED udoc

(* A failed operation moves back to pending; the UPDATE's lost answer is a *)
(* backend error.  A loser of the race without row locks sees rowcount 0   *)
(* and a record the ORM has already set to pending.                        *)
Retake(c) ==
    \E o \in Replies :
       /\ MoveOperation(OpKey(c), "failed", "pending", o)
       /\ \/ o = "ok" /\ InState(OpKey(c), "failed") /\ Reuse(c)
          \/ /\ o = "ok" /\ ~InState(OpKey(c), "failed")
             /\ Return(c, "IdempotencyInProgressError")
             /\ UNCHANGED udoc
          \/ o # "ok" /\ Return(c, "BackendError") /\ UNCHANGED udoc

(* Where the record is missing the loop selects again, which is no step.   *)
Select(c) ==
    /\ upc[c] = "select"
    /\ ops[OpKey(c)] # None
    /\ LET op == ops[OpKey(c)]
           matches == Matches(op, ureq[c])
       IN \/ /\ Answer("err")
             /\ Return(c, "BackendError")
             /\ UNCHANGED <<ops, udoc>>
          \/ /\ ~matches
             /\ Return(c, "IdempotencyConflictError")
             /\ UNCHANGED <<ops, udoc, faults>>
          \/ /\ matches /\ op.state = "pending"
             /\ Return(c, "IdempotencyInProgressError")
             /\ UNCHANGED <<ops, udoc, faults>>
          \/ /\ matches /\ op.state = "succeeded"
             /\ udoc' = [udoc EXCEPT ![c] = op.doc]
             /\ Goto(c, "replay")
             /\ UNCHANGED <<ops, faults>>
          \/ /\ matches /\ op.state = "failed" /\ RowLocks
             /\ Retake(c)
          \/ /\ matches /\ op.state = "failed" /\ ~RowLocks
             /\ Goto(c, "reclaim")
             /\ UNCHANGED <<ops, udoc, faults>>
    /\ UNCHANGED <<meta, objects, seq, ureq, calls, settled>>

Reclaim(c) ==
    /\ upc[c] = "reclaim"
    /\ Retake(c)
    /\ UNCHANGED <<meta, objects, seq, ureq, calls, settled>>

Settle(c) == settled' = settled \cup {<<OpKey(c), udoc[c]>>}

(* get_internal_metadata: the row in the request's partition, of any status *)
Replay(c) ==
    /\ upc[c] = "replay"
    /\ \E o \in ReadReplies :
         /\ Answer(o)
         /\ \/ /\ o = "ok" /\ InPartition(udoc[c], ureq[c].part)
               /\ Return(c, "Replayed")
               /\ Settle(c)
            \/ /\ o = "ok" /\ ~InPartition(udoc[c], ureq[c].part)
               /\ Return(c, "DocumentNotFoundError")
               /\ UNCHANGED settled
            \/ /\ o # "ok"
               /\ Return(c, "MetadataStoreError")
               /\ UNCHANGED settled
    /\ UNCHANGED <<meta, objects, ops, seq, ureq, udoc, calls>>

CheckExists(c) ==
    /\ upc[c] = "exists"
    /\ \E o \in ReadReplies :
         /\ Answer(o)
         /\ IF o # "ok" THEN Raise(c, "BackendError")
            ELSE IF Exists(udoc[c]) THEN Raise(c, "DuplicateDocumentError")
            ELSE Goto(c, "put")
    /\ UNCHANGED <<meta, objects, ops, seq, ureq, udoc, calls, settled>>

(* No cleanup follows a failed PUT, whatever it left behind. *)
Put(c) ==
    /\ upc[c] = "put"
    /\ \E o \in Replies :
         /\ PutObject(BuildStorageKey(c), ureq[c].content, o)
         /\ IF o # "ok" THEN Raise(c, "StorageError")
            ELSE IF EndsEarly(ureq[c])
              THEN /\ upc' = [upc EXCEPT ![c] = "rollback"]
                   /\ uout' = [uout EXCEPT ![c] = "ValidationError"]
                   /\ UNCHANGED reports
            ELSE Goto(c, "save")
    /\ UNCHANGED <<meta, ops, seq, ureq, udoc, calls, settled>>

Save(c) ==
    /\ upc[c] = "save"
    /\ \E o \in Replies :
         /\ SaveMetadata(udoc[c], NewRow(c), o)
         /\ IF Keyed(c) /\ Applied(o) /\ ~Exists(udoc[c])
              THEN Settle(c) ELSE UNCHANGED settled
         /\ IF o = "ok" /\ ~Exists(udoc[c])
              THEN IF Keyed(c) THEN Goto(c, "mark_succeeded")
                               ELSE Return(c, "Created")
              ELSE /\ upc' = [upc EXCEPT ![c] = "rollback"]
                   /\ uout' = [uout EXCEPT ![c] =
                                 IF o = "ok" THEN "DuplicateDocumentError"
                                             ELSE "ConsistencyError"]
                   /\ UNCHANGED reports
    /\ UNCHANGED <<objects, ops, seq, ureq, udoc, calls>>

Rollback(c) ==
    /\ upc[c] = "rollback"
    /\ \E o \in Replies :
         /\ DeleteObject(BuildStorageKey(c), o)
         /\ Raise(c, IF o = "ok" THEN uout[c] ELSE "ConsistencyError")
    /\ UNCHANGED <<meta, ops, seq, ureq, udoc, calls, settled>>

MarkSucceeded(c) ==
    /\ upc[c] = "mark_succeeded"
    /\ \E o \in Replies :
         /\ MarkOperation(OpKey(c), "succeeded", o)
         /\ IF o = "ok" THEN Return(c, "Created") ELSE Raise(c, "BackendError")
    /\ UNCHANGED <<meta, objects, seq, ureq, udoc, calls, settled>>

(* A failure to mark is logged; the exception in flight is raised anyway. *)
MarkFailed(c) ==
    /\ upc[c] = "mark_failed"
    /\ \E o \in Replies : MarkOperation(OpKey(c), "failed", o)
    /\ Return(c, uout[c])
    /\ UNCHANGED <<meta, objects, seq, ureq, udoc, calls, settled>>

(* The process dies: no exception handler runs. *)
Crash(c) ==
    /\ upc[c] # "idle"
    /\ Die
    /\ upc' = [upc EXCEPT ![c] = "idle"]
    /\ uout' = [uout EXCEPT ![c] = "Crashed"]
    /\ reports' = IF upc[c] \in {"save", "rollback", "mark_failed"}
                    THEN reports \cup {<<BuildStorageKey(c), "Crashed">>}
                    ELSE reports
    /\ UNCHANGED <<ureq, udoc, calls, settled>>

UploadStep(c) ==
    \/ Allocate(c) \/ Claim(c) \/ Select(c) \/ Reclaim(c) \/ Replay(c)
    \/ CheckExists(c) \/ Put(c) \/ Save(c) \/ Rollback(c)
    \/ MarkSucceeded(c) \/ MarkFailed(c)

UploadNext ==
    \E c \in Callers :
       \/ \E r \in Requests : UploadDocument(c, r)
       \/ UploadStep(c)
       \/ Crash(c)

Spec == Init /\ [][UploadNext]_vars

(* A running caller keeps running: each of its calls eventually answers.   *)
FairSpec == Spec /\ \A c \in Callers : WF_vars(UploadStep(c))

-----------------------------------------------------------------------------
(* Properties *)

(***************************************************************************)
(* Type invariant of the stores and of the callers' local state.           *)
(***************************************************************************)
TypeOK == UploadTypeOK

(***************************************************************************)
(* However often a keyed request is retried, by however many callers, with *)
(* failures and crashes in between, every document saved or returned for   *)
(* one operation key is the same document (claim() reuses the original     *)
(* document id; no unintended duplicate is registered).                    *)
(***************************************************************************)
IdempotentOnce ==
    \A s, t \in settled : s[1] = t[1] => s[2] = t[2]

HoldsClaim(c) == upc[c] \in ClaimedPoints /\ Keyed(c)

(***************************************************************************)
(* A claim has one holder: never are two callers between the claim and the *)
(* final mark of the same operation, although _mark() carries no owner and *)
(* any caller may retake a failed operation.                               *)
(***************************************************************************)
ClaimOwnership ==
    \A c, e \in Callers :
       HoldsClaim(c) /\ HoldsClaim(e) /\ OpKey(c) = OpKey(e) => c = e

RegisteredFrom(d, r) ==
    /\ meta[d] # None
    /\ meta[d].part = r.part
    /\ meta[d].file = r.file
    /\ meta[d].content = r.content

(***************************************************************************)
(* What a caller is given is what it asked for: a result, new or replayed, *)
(* names a row of the request's partition, filename and content (the       *)
(* fingerprint check of claim(), and the order save before mark).          *)
(***************************************************************************)
ResultMatchesRequest ==
    \A c \in Callers :
       upc[c] = "idle" /\ uout[c] \in {"Created", "Replayed"} =>
          RegisteredFrom(udoc[c], ureq[c])

(***************************************************************************)
(* Only a completed registration is replayed: a succeeded operation has    *)
(* its row, and a caller refused while another one is at work, on a store  *)
(* with or without row locks, is told so and is never sent to read a       *)
(* document that is not there.                                             *)
(***************************************************************************)
ReplayIsCompleted ==
    /\ \A k \in OpKeys : InState(k, "succeeded") =>
          RegisteredFrom(ops[k].doc, ops[k].fp)
    /\ \A c \in Callers : upc[c] = "replay" => InState(OpKey(c), "succeeded")

(* The host has been told of key k with one of the errors E, or is about   *)
(* to be, once the operation is marked.                                    *)
Told(k, E) ==
    \/ \E e \in E : <<k, e>> \in reports
    \/ \E c \in Callers : /\ upc[c] = "mark_failed"
                          /\ uout[c] \in E
                          /\ BuildStorageKey(c) = k

Referenced(k) == meta[k[2]] # None /\ StorageKeyOf(k[2], meta[k[2]]) = k

InFlight(k) ==
    \E c \in Callers : upc[c] \in {"save", "rollback"} /\ BuildStorageKey(c) = k

(***************************************************************************)
(* No silent orphan: content without a row belongs to a registration still *)
(* at work, or its host was told of it (StorageError, ConsistencyError, or *)
(* its own death).  A refused or conflicting registration leaves nothing.  *)
(***************************************************************************)
OrphanAccounted ==
    \A k \in StorageKeys :
       objects[k] # None => Referenced(k) \/ InFlight(k) \/ Told(k, Alarms)

(***************************************************************************)
(* An available document has exactly the content its row describes, unless *)
(* the host was told otherwise.  The rollback of a failed save must never  *)
(* take away the content of a registration that succeeded.                 *)
(***************************************************************************)
ContentIntact ==
    \A d \in DocIds :
       meta[d] # None /\ meta[d].status = "available" =>
          LET k == StorageKeyOf(d, meta[d])
          IN objects[k] = meta[d].content
             \/ Told(k, {"ConsistencyError", "Crashed"})

(***************************************************************************)
(* A retry of a keyed request whose document is already registered never   *)
(* ends as a duplicate of itself.                                          *)
(***************************************************************************)
RegisteredNotDuplicate ==
    \A c \in Callers :
       upc[c] = "idle" /\ uout[c] = "DuplicateDocumentError" /\ Keyed(c) =>
          <<OpKey(c), udoc[c]>> \notin settled

=============================================================================
