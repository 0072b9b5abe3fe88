-------------------------- MODULE AsyncUploadService --------------------------
(***************************************************************************)
(* AsyncUploadService (sdk/upload.py): the registrations of UploadService, *)
(* call for call, as tasks of an event loop, which may be cancelled while  *)
(* they await a store.                                                     *)
(*                                                                         *)
(* Up to the claim, a keyed registration awaits its calls directly and the *)
(* cancellation ends it there.  What follows the claim, and all of a       *)
(* registration without a key, runs in a task of its own that is awaited   *)
(* through asyncio.shield: the first cancellation is kept until that task  *)
(* is done, the second one reaches it.                                     *)
(*                                                                         *)
(* A database call that is cancelled was committed or not.  An object      *)
(* store call runs in a worker thread (asyncio.to_thread), which cannot be *)
(* cancelled: what it does lands later, in the set late.                   *)
(***************************************************************************)
EXTENDS UploadService

CONSTANT MaxCancels     \* bound: cancellations in a behaviour

ASSUME CancelAssumption == MaxCancels \in Nat

VARIABLES
    cancels,        \* cancellations that may still be requested
    cancelled,      \* cancelled[c]: cancellations of c's current registration
    late,           \* <<storage key, content or None>>: writes and removals
                    \* left to worker threads
    torn,           \* history: operation keys whose claim or last mark was cut
    interrupted     \* history: storage keys whose registration was cancelled
                    \* a second time

taskVars == <<cancels, cancelled, late, torn, interrupted>>

asyncVars == <<vars, taskVars>>

TaskInit ==
    /\ cancels = MaxCancels
    /\ cancelled = [c \in Callers |-> 0]
    /\ late = {}
    /\ torn = {}
    /\ interrupted = {}

AsyncInit == Init /\ TaskInit

-----------------------------------------------------------------------------
(* The calls of a registration, as those of UploadService *)

AsyncUploadDocument(c, r) ==
    /\ UploadDocument(c, r)
    /\ cancelled' = [cancelled EXCEPT ![c] = 0]
    /\ UNCHANGED <<cancels, late, torn, interrupted>>

AsyncAllocate(c) == Allocate(c) /\ UNCHANGED taskVars

(* claim() of the asynchronous operation store *)
AsyncClaim(c) == (Claim(c) \/ Select(c) \/ Reclaim(c)) /\ UNCHANGED taskVars

AsyncReplay(c) == Replay(c) /\ UNCHANGED taskVars

AsyncUploadBytes(c) ==
    /\ ureq[c] # None /\ ureq[c].kind = "bytes"
    /\ CheckExists(c) \/ Put(c) \/ Save(c) \/ Rollback(c)
    /\ UNCHANGED taskVars

AsyncUploadStream(c) ==
    /\ ureq[c] # None /\ ureq[c].kind = "stream"
    /\ CheckExists(c) \/ Put(c) \/ Save(c) \/ Rollback(c)
    /\ UNCHANGED taskVars

AsyncComplete(c) == (MarkSucceeded(c) \/ MarkFailed(c)) /\ UNCHANGED taskVars

AsyncUploadStep(c) ==
    \/ AsyncAllocate(c) \/ AsyncClaim(c) \/ AsyncReplay(c)
    \/ AsyncUploadBytes(c) \/ AsyncUploadStream(c) \/ AsyncComplete(c)

-----------------------------------------------------------------------------
(* Cancellation *)

(* The awaits of _idempotent_upload before its completion task. *)
Unshielded(c) ==
    upc[c] \in {"allocate", "claim", "select", "reclaim", "replay"} /\ Keyed(c)

(* Mutant: the completion is awaited without asyncio.shield. *)
Shielded_Never(c) == FALSE

(* The completion task runs and no cancellation has been held back yet. *)
Shielded(c) == upc[c] # "idle" /\ ~Unshielded(c) /\ cancelled[c] = 0

RequestCancel(c) ==
    /\ upc[c] # "idle"
    /\ cancels > 0
    /\ cancels' = cancels - 1
    /\ cancelled' = [cancelled EXCEPT ![c] = @ + 1]

(* The database transaction under way when its task is cancelled: rolled   *)
(* back, or committed although nobody reads its answer.                    *)
CutTransaction(c) ==
    \/ UNCHANGED storeVars
    \/ /\ upc[c] = "allocate"
       /\ \E d \in DocIds : AllocateDocumentId(d, "ok")
       /\ UNCHANGED <<meta, objects, ops>>
    \/ /\ upc[c] = "claim"
       /\ InsertOperation(OpKey(c), Fingerprint(ureq[c]), udoc[c], "ok")
       /\ UNCHANGED <<meta, objects, seq>>
    \/ /\ \/ upc[c] = "reclaim"
          \/ upc[c] = "select" /\ RowLocks /\ Matches(ops[OpKey(c)], ureq[c])
       /\ MoveOperation(OpKey(c), "failed", "pending", "ok")
       /\ UNCHANGED <<meta, objects, seq>>
    \/ /\ upc[c] = "save"
       /\ SaveMetadata(udoc[c], NewRow(c), "ok")
       /\ UNCHANGED <<objects, ops, seq>>
    \/ /\ upc[c] = "mark_succeeded"
       /\ MarkOperation(OpKey(c), "succeeded", "ok")
       /\ UNCHANGED <<meta, objects, seq>>
    \/ /\ upc[c] = "mark_failed"
       /\ MarkOperation(OpKey(c), "failed", "ok")
       /\ UNCHANGED <<meta, objects, seq>>

(* The object store call under way goes on in its thread. *)
LeaveToThread(c) ==
    late' = IF upc[c] \in {"put", "rollback"}
              THEN late \cup {<<BuildStorageKey(c),
                                IF upc[c] = "put" THEN ureq[c].content
                                                  ELSE None>>}
              ELSE late

(* A saved row counts as registered for its key, whoever learns of it. *)
SettleCut(c) ==
    IF Keyed(c) /\ meta' # meta THEN Settle(c) ELSE UNCHANGED settled

(* CancelledError is raised where the call is awaited: nothing is marked.  *)
CancelCall(c) ==
    /\ Unshielded(c)
    /\ RequestCancel(c)
    /\ CutTransaction(c)
    /\ Return(c, "CancelledError")
    /\ torn' = IF upc[c] \in {"claim", "select", "reclaim"}
                 THEN torn \cup {OpKey(c)} ELSE torn
    /\ UNCHANGED <<ureq, udoc, calls, settled, late, interrupted>>

(* The completion goes on and is awaited; its result becomes a note.       *)
HoldBack(c) ==
    /\ Shielded(c)
    /\ RequestCancel(c)
    /\ UNCHANGED <<vars, late, torn, interrupted>>

(* Mutant: only Exception is caught, which CancelledError is not.          *)
RaiseCancelled_NotCaught(c) == Return(c, "CancelledError")

(* CancelledError leaves the inner task: a keyed one marks it failed first, *)
(* unless it is that mark which was cut.                                   *)
RaiseCancelled(c) ==
    IF upc[c] = "mark_failed" THEN Return(c, "CancelledError")
                              ELSE Raise(c, "CancelledError")

(* The second cancellation goes through to the completion task. None of    *)
(* its clean-up handlers but the mark catches it.                          *)
CancelCompletion(c) ==
    /\ ~Unshielded(c)
    /\ ~Shielded(c)
    /\ RequestCancel(c)
    /\ CutTransaction(c)
    /\ LeaveToThread(c)
    /\ SettleCut(c)
    /\ RaiseCancelled(c)
    /\ torn' = IF upc[c] = "mark_failed" THEN torn \cup {OpKey(c)} ELSE torn
    /\ interrupted' = IF udoc[c] = None \/ cancelled[c] = 0 THEN interrupted
                      ELSE interrupted \cup {BuildStorageKey(c)}
    /\ UNCHANGED <<ureq, udoc, calls>>

(* The worker thread ends; its request was served, or was not.             *)
Land(t) ==
    /\ late' = late \ {t}
    /\ objects' \in {objects, [objects EXCEPT ![t[1]] = t[2]]}
    /\ UNCHANGED <<meta, ops, seq, faults, uploadVars, cancels, cancelled,
                   torn, interrupted>>

AsyncNext ==
    \/ \E c \in Callers :
          \/ \E r \in Requests : AsyncUploadDocument(c, r)
          \/ AsyncUploadStep(c)
          \/ CancelCall(c) \/ HoldBack(c) \/ CancelCompletion(c)
    \/ \E t \in late : Land(t)

AsyncSpec == AsyncInit /\ [][AsyncNext]_asyncVars

(* A task whose call has answered is scheduled again. *)
AsyncFairSpec ==
    AsyncSpec /\ \A c \in Callers : WF_asyncVars(AsyncUploadStep(c))

-----------------------------------------------------------------------------
(* Properties *)

(***************************************************************************)
(* One cancellation leaves no trace in the stores: content without a row   *)
(* is that of a registration at work, was reported, or its registration    *)
(* was cancelled twice.  (_idempotent_upload and its siblings finish the   *)
(* completion before the cancellation is raised.)                          *)
(***************************************************************************)
CancelledOrphanAccounted ==
    \A k \in StorageKeys :
       objects[k] # None => \/ Referenced(k) \/ InFlight(k)
                            \/ Told(k, Alarms) \/ k \in interrupted

(***************************************************************************)
(* An available document keeps its content, however often registrations    *)
(* are cancelled and retried, unless its host was told otherwise, or a     *)
(* removal was left to a thread by a registration cancelled twice.         *)
(***************************************************************************)
CancelledContentIntact ==
    \A d \in DocIds :
       meta[d] # None /\ meta[d].status = "available" =>
          LET k == StorageKeyOf(d, meta[d])
          IN \/ objects[k] = meta[d].content
             \/ Told(k, {"ConsistencyError"})
             \/ k \in interrupted

(***************************************************************************)
(* An operation does not stay pending, whichever of its steps is cancelled *)
(* or fails: CancelledError is caught and marked as any exception is.  The *)
(* exceptions are the awaits without protection, the claim and the mark    *)
(* itself, and a mark that fails after a cancellation.                     *)
(***************************************************************************)
CancelledPendingResolves ==
    \A k \in OpKeys :
       InState(k, "pending") ~>
          \/ ~InState(k, "pending")
          \/ k \in torn
          \/ faults = 0 /\ interrupted # {}

=============================================================================
