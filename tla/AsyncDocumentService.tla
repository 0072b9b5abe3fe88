------------------------- MODULE AsyncDocumentService -------------------------
(***************************************************************************)
(* AsyncDocumentService (sdk/documents.py): the deletions and content      *)
(* reads of DocumentService, call for call, as tasks that may be cancelled *)
(* at each await.  Nothing here is shielded and no handler catches         *)
(* CancelledError: the deletion stops where it is.  A database call that   *)
(* is cancelled was committed or not; a removal goes on in its worker      *)
(* thread (asyncio.to_thread) and lands later.                             *)
(***************************************************************************)
EXTENDS DocumentService

CONSTANT MaxDocCancels  \* bound: cancelled requests in a behaviour

ASSUME DocCancelAssumption == MaxDocCancels \in Nat

VARIABLES
    dcancels,       \* cancellations that may still be requested
    dlate           \* storage keys whose removal is left to a worker thread

docTaskVars == <<dcancels, dlate>>

asyncDocVars == <<docVars, docTaskVars>>

AsyncDocInit == DocInit /\ dcancels = MaxDocCancels /\ dlate = {}

(* get_internal_metadata and the row's check *)
AsyncLoad(c) == Load(c) /\ UNCHANGED docTaskVars

AsyncFetch(c) == Fetch(c) /\ UNCHANGED docTaskVars

AsyncDelete(c) ==
    /\ \/ SetDeleting(c) \/ Remove(c) \/ SetFailed(c) \/ Erase(c)
       \/ MarkLoad(c) \/ MarkWrite(c)
    /\ UNCHANGED docTaskVars

AsyncDocStep(c) == AsyncLoad(c) \/ AsyncFetch(c) \/ AsyncDelete(c)

(* The transaction of a cancelled task: rolled back, or committed although *)
(* nobody reads its answer.                                                *)
CutRowWrite(c) ==
    \/ UNCHANGED meta
    \/ \E found \in Lookup(Doc(c), dreq[c].part) :
          \/ /\ dpc[c] = "deleting"
             /\ UpdateMetadata(Doc(c), WithStatus(dcopy[c], "deleting"), found, "ok")
          \/ /\ dpc[c] = "fail"
             /\ UpdateMetadata(Doc(c), WithStatus(dcopy[c], "failed"), found, "ok")
          \/ /\ dpc[c] = "erase"
             /\ HardDelete(Doc(c), found, "ok")
          \/ /\ dpc[c] = "mark_write"
             /\ UpdateMetadata(Doc(c), DeletedRow(dcopy[c]), found, "ok")

(* Mutant: a cancelled deletion writes back the row it started from. *)
CancelDocument_Undo(c) ==
    /\ dpc[c] # "idle"
    /\ dcancels > 0
    /\ dcancels' = dcancels - 1
    /\ dlate' = IF dpc[c] = "remove" THEN dlate \cup {CopyKey(c)} ELSE dlate
    /\ IF dpc[c] = "remove"
         THEN UpdateMetadata(Doc(c), WithStatus(dcopy[c], "available"), TRUE, "ok")
         ELSE UNCHANGED <<meta, faults>>
    /\ DocReturn(c, "CancelledError")
    /\ UNCHANGED <<objects, ops, seq, dreq, dcopy, dcalls>>

CancelDocument(c) ==
    /\ dpc[c] # "idle"
    /\ dcancels > 0
    /\ dcancels' = dcancels - 1
    /\ CutRowWrite(c)
    /\ dlate' = IF dpc[c] = "remove" THEN dlate \cup {CopyKey(c)} ELSE dlate
    /\ DocReturn(c, "CancelledError")
    /\ UNCHANGED <<objects, ops, seq, faults, dreq, dcopy, dcalls>>

(* The worker thread ends; its request was served, or was not.             *)
LandRemoval(k) ==
    /\ dlate' = dlate \ {k}
    /\ objects' \in {objects, [objects EXCEPT ![k] = None]}
    /\ UNCHANGED <<meta, ops, seq, faults, documentVars, dcancels>>

AsyncDocNext ==
    \/ \E c \in Clients :
          \/ \E r \in DocRequests : Request(c, r) /\ UNCHANGED docTaskVars
          \/ AsyncDocStep(c)
          \/ DocCrash(c) /\ UNCHANGED docTaskVars
          \/ CancelDocument(c)
    \/ \E k \in dlate : LandRemoval(k)

AsyncDocSpec == AsyncDocInit /\ [][AsyncDocNext]_asyncDocVars

(* A running client keeps running: each of its calls eventually answers.   *)
AsyncDocFairSpec ==
    AsyncDocSpec /\ \A c \in Clients : WF_asyncDocVars(AsyncDocStep(c))

-----------------------------------------------------------------------------
(* Properties *)

(***************************************************************************)
(* A removal that outlives its cancelled deletion takes nothing from a     *)
(* reader: whatever other clients and the cancellation write, the row of   *)
(* that content does not say available as long as the removal is under way. *)
(***************************************************************************)
LateRemovalTakesDeleted ==
    \A k \in dlate : meta[k[2]] # None => meta[k[2]].status # "available"

(***************************************************************************)
(* A started deletion of an existing document ends with the row deleted or *)
(* gone, unless a store call fails, a process dies or a deletion is        *)
(* cancelled: concurrent soft and hard deletions, synchronous or not, do   *)
(* not leave each other's row in DELETING.                                 *)
(***************************************************************************)
UndisturbedDeletingSettles ==
    \A d \in DocIds :
       (meta[d] # None /\ meta[d].status = "deleting") ~>
          \/ meta[d] = None \/ meta[d].status = "deleted"
          \/ ~NothingFailed \/ dcancels < MaxDocCancels
=============================================================================
