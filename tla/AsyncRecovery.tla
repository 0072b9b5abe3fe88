----------------------------- MODULE AsyncRecovery -----------------------------
(***************************************************************************)
(* AsyncReconciliationCoordinator (sdk/reconciliation.py) and _reset_data  *)
(* of the native asynchronous SDK (sdk/async_implementation.py): the       *)
(* repairs of Reconciliation and the resets of DataReset, as tasks that    *)
(* may be cancelled at each await.                                         *)
(*                                                                         *)
(* Two things differ from the synchronous ones.  An inspection reads the   *)
(* row once, and decides on the answer of the object store.  And a         *)
(* CancelledError is no Exception: neither the item of a batch nor the     *)
(* store of a reset catches it, the whole request ends where it is.  The   *)
(* transaction it cuts is committed or not; a removal goes on in its       *)
(* worker thread and lands later.                                          *)
(***************************************************************************)
EXTENDS Reconciliation, DataReset

CONSTANTS
    NativeOperators,    \* the operators that are tasks of the native SDK
    NativeResetters,    \* the resetters that are
    MaxRecoveryCancels  \* bound: cancelled requests in a behaviour

ASSUME RecoveryCancelAssumption ==
    /\ NativeOperators \subseteq Operators
    /\ NativeResetters \subseteq Resetters
    /\ MaxRecoveryCancels \in Nat

VARIABLES
    rcancels,       \* cancellations that may still be requested
    rlate           \* storage keys whose removal is left to a worker thread

recoveryTaskVars == <<rcancels, rlate>>

RecoveryTaskInit == rcancels = MaxRecoveryCancels /\ rlate = {}

-----------------------------------------------------------------------------
(* Repairs *)

AsyncListCandidates(c) == ListCandidates(c)

AsyncInspectRow(c) == InspectRow(c)

(* Nobody reads the row again: what the object store answers decides. *)
AsyncInspectObject(c) ==
    /\ rpc[c] = "inspect_object"
    /\ \E o \in ReadReplies :
         /\ Answer(o)
         /\ IF o # "ok" THEN Report(c) /\ UNCHANGED rseen
            ELSE LET seen == objects[StorageKeyOf(rdoc[c], rcopy[c])] # None
                 IN  /\ rseen' = [rseen EXCEPT ![c] = seen]
                     /\ Decide(c, seen)
    /\ UNCHANGED <<meta, objects, ops, seq, rreq, rcopy, rcalls>>

AsyncApply(c) ==
    \/ StatOrphan(c) \/ Purge(c) \/ CompleteHard(c)
    \/ CompleteLoad(c) \/ CompleteWrite(c) \/ FailedLoad(c) \/ FailedWrite(c)

AsyncRepairStep(c) ==
    /\ \/ AsyncListCandidates(c) \/ AsyncInspectRow(c)
       \/ AsyncInspectObject(c) \/ AsyncApply(c) \/ RepairCrash(c)
    /\ UNCHANGED recoveryTaskVars

(* The transaction of a cancelled repair: rolled back, or committed.       *)
CutRepairWrite(c) ==
    \/ UNCHANGED <<meta, faults>>
    \/ /\ rpc[c] \in {"complete_hard", "complete_write", "failed_write"}
       /\ \E found \in Lookup(rdoc[c], rreq[c].part) :
             \/ /\ rpc[c] = "complete_hard"
                /\ HardDelete(rdoc[c], found, "ok")
             \/ /\ rpc[c] = "complete_write"
                /\ UpdateMetadata(rdoc[c], DeletedRow(rcopy[c]), found, "ok")
             \/ /\ rpc[c] = "failed_write"
                /\ UpdateMetadata(rdoc[c], WithStatus(rcopy[c], "failed"), found, "ok")

(* Mutant: a cancelled item undoes its repair with the row it last read.   *)
CancelRepair_Undo(c) ==
    /\ rpc[c] # "idle"
    /\ rcancels > 0
    /\ rcancels' = rcancels - 1
    /\ UNCHANGED <<rlate, faults>>
    /\ meta' = IF rcopy[c] = None THEN meta
               ELSE [meta EXCEPT ![rdoc[c]] = WithStatus(rcopy[c], "available")]
    /\ rpc' = [rpc EXCEPT ![c] = "idle"]
    /\ rqueue' = [rqueue EXCEPT ![c] = {}]
    /\ rdone' = [rdone EXCEPT ![c] = FALSE]
    /\ UNCHANGED <<objects, ops, seq, rreq, rdoc, rcopy, rseen, rcalls>>

(* The items after the cancelled one are not begun, and nobody is told of  *)
(* the items before it.                                                    *)
CancelRepair(c) ==
    /\ rpc[c] # "idle"
    /\ rcancels > 0
    /\ rcancels' = rcancels - 1
    /\ rlate' = IF rpc[c] = "purge" THEN rlate \cup {rreq[c].key} ELSE rlate
    /\ CutRepairWrite(c)
    /\ rpc' = [rpc EXCEPT ![c] = "idle"]
    /\ rqueue' = [rqueue EXCEPT ![c] = {}]
    /\ rdone' = [rdone EXCEPT ![c] = FALSE]
    /\ UNCHANGED <<objects, ops, seq, rreq, rdoc, rcopy, rseen, rcalls>>

-----------------------------------------------------------------------------
(* Resets *)

AsyncListObjects(c) == ListObjects(c)

AsyncRemoveObject(c) == RemoveObject(c)

AsyncClearMetadata(c) == ClearMetadata(c)

AsyncClearOperations(c) == ClearOperations(c)

AsyncResetStep(c) ==
    /\ \/ AsyncListObjects(c) \/ AsyncRemoveObject(c)
       \/ AsyncClearMetadata(c) \/ AsyncClearOperations(c) \/ ResetCrash(c)
    /\ UNCHANGED recoveryTaskVars

(* The stores that were not reached stay as they are.                      *)
CancelReset(c) ==
    /\ spc[c] # "idle"
    /\ rcancels > 0
    /\ rcancels' = rcancels - 1
    /\ IF spc[c] = "remove"
         THEN \E k \in slisted[c] : rlate' = rlate \cup {k}
         ELSE UNCHANGED rlate
    /\ \/ UNCHANGED <<meta, ops>>
       \/ spc[c] = "metadata" /\ meta' = WithoutRows(c) /\ UNCHANGED ops
       \/ spc[c] = "operations" /\ ops' = WithoutOperations(c) /\ UNCHANGED meta
    /\ spc' = [spc EXCEPT ![c] = "idle"]
    /\ sout' = [sout EXCEPT ![c] = "CancelledError"]
    /\ slisted' = [slisted EXCEPT ![c] = {}]
    /\ UNCHANGED <<objects, seq, faults, sscope, sfailed, scalls, sbegun>>

(* The worker thread ends; its request was served, or was not.             *)
LandRemoval(k) ==
    /\ rlate' = rlate \ {k}
    /\ objects' \in {objects, [objects EXCEPT ![k] = None]}
    /\ UNCHANGED <<meta, ops, seq, faults, repairVars, resetVars, rcancels>>
=============================================================================
