--------------------------------- MODULE Dms ---------------------------------
(***************************************************************************)
(* A DMS deployment: processes that register, read, delete, repair and     *)
(* reset documents, all on the same three stores and with no other         *)
(* coordination.  The library holds the documents registered before.       *)
(*                                                                         *)
(* PurgeTold restricts the operators: they purge a storage key only when   *)
(* its host was told of the failure that left content there.               *)
(***************************************************************************)
EXTENDS UploadService, DocumentService, AsyncRecovery

CONSTANT PurgeTold

ASSUME DmsAssumption == PurgeTold \in BOOLEAN

recoveryVars == <<repairVars, resetVars, recoveryTaskVars>>

dmsVars == <<storeVars, uploadVars, documentVars, recoveryVars>>

othersOfUpload == <<documentVars, recoveryVars>>
othersOfDocument == <<uploadVars, recoveryVars>>
othersOfRecovery == <<uploadVars, documentVars>>
othersOfRepair == <<othersOfRecovery, resetVars>>
othersOfReset == <<othersOfRecovery, repairVars>>

DmsInit ==
    DocInit /\ UploadInit /\ RepairInit /\ ResetInit /\ RecoveryTaskInit

Permitted(r) ==
    PurgeTold /\ r.action = "purge" => \E e \in Alarms : <<r.key, e>> \in reports

UploadActs == UploadNext /\ UNCHANGED othersOfUpload

DocumentActs == DocNext /\ UNCHANGED othersOfDocument

RepairActs ==
    /\ \E c \in Operators :
          \/ /\ \E r \in RepairRequests : Permitted(r) /\ Repair(c, r)
             /\ UNCHANGED recoveryTaskVars
          \/ /\ c \notin NativeOperators
             /\ RepairStep(c)
             /\ UNCHANGED recoveryTaskVars
          \/ c \in NativeOperators /\ (AsyncRepairStep(c) \/ CancelRepair(c))
    /\ UNCHANGED othersOfRepair

ResetActs ==
    /\ \E c \in Resetters :
          \/ /\ \E scope \in Scopes : Reset(c, scope)
             /\ UNCHANGED recoveryTaskVars
          \/ /\ c \notin NativeResetters
             /\ ResetStep(c)
             /\ UNCHANGED recoveryTaskVars
          \/ c \in NativeResetters /\ (AsyncResetStep(c) \/ CancelReset(c))
    /\ UNCHANGED othersOfReset

LateRemovals == (\E k \in rlate : LandRemoval(k)) /\ UNCHANGED othersOfRecovery

DmsNext ==
    UploadActs \/ DocumentActs \/ RepairActs \/ ResetActs \/ LateRemovals

DmsSpec == DmsInit /\ [][DmsNext]_dmsVars

(* A running registration or reset eventually makes its next call.         *)
DmsFairSpec ==
    /\ DmsSpec
    /\ \A c \in Callers :
          WF_dmsVars(UploadStep(c) /\ UNCHANGED othersOfUpload)
    /\ \A c \in Resetters :
          WF_dmsVars(ResetCall(c) /\ UNCHANGED recoveryTaskVars
                       /\ UNCHANGED othersOfReset)

-----------------------------------------------------------------------------
(* Properties *)

NeverReset(p) == p \notin sbegun

(***************************************************************************)
(* Rows and contents stay in accord, whatever registrations, deletions,    *)
(* repairs and resets do to one document at once, with copies read before, *)
(* previewed, cancelled or cut short: an available row has its content and *)
(* a deleted row has none, and content without a row belongs to a          *)
(* registration at work, except what a host was told of.  Only a reset     *)
(* breaks this, which takes the contents first, and only in its scope.     *)
(***************************************************************************)
ContentUnlessReset ==
    /\ \A d \in DocIds :
          meta[d] # None /\ NeverReset(meta[d].part) =>
             /\ meta[d].status = "available" =>
                   \/ ContentOf(d) = meta[d].content
                   \/ Told(StorageKeyOf(d, meta[d]),
                           {"ConsistencyError", "Crashed"})
             /\ meta[d].status = "deleted" => ContentOf(d) = None
    /\ \A k \in StorageKeys :
          objects[k] # None /\ NeverReset(k[1]) =>
             Referenced(k) \/ InFlight(k) \/ Told(k, Alarms)

(* The partitions for which somebody's call is answered in this step. *)
Serves(p) ==
    \/ \E c \in Callers : /\ upc[c] # "idle" /\ upc'[c] # upc[c]
                          /\ ureq[c].part = p
    \/ \E c \in Clients : /\ dpc[c] # "idle" /\ dpc'[c] # dpc[c]
                          /\ dreq[c].part = p
    \/ \E c \in Operators : /\ rpc[c] # "idle" /\ rpc'[c] # rpc[c]
                            /\ rreq[c].part = p
    \/ \E c \in Resetters : /\ spc[c] # "idle"
                            /\ <<spc'[c], slisted'[c]>> # <<spc[c], slisted[c]>>
                            /\ p \in sscope[c]
    \/ \E k \in rlate \ rlate' : k[1] = p

Untouched(p) ==
    /\ \A d \in DocIds :
          InPartition(d, p) \/ InPartition(d, p)' => meta'[d] = meta[d]
    /\ \A k \in StorageKeys : k[1] = p => objects'[k] = objects[k]
    /\ \A k \in OpKeys : k[1] = p => ops'[k] = ops[k]

(***************************************************************************)
(* Partitions are isolated: a call made for one partition, whatever it is  *)
(* and whichever identifiers and storage keys it is given, changes no row, *)
(* content or operation of another partition.                              *)
(***************************************************************************)
PartitionIsolation ==
    [][\A p \in Partitions : Serves(p) \/ Untouched(p)]_dmsVars

(***************************************************************************)
(* An orphan purge removes orphans: the content it takes away belongs to   *)
(* no row, although it looked for the row three calls earlier (the message *)
(* "orphan purge requires absent metadata") and may do so in a thread that *)
(* its cancelled task has left behind (as a reset's may, in its scope).    *)
(***************************************************************************)
PurgedIsOrphan ==
    [][/\ \A c \in Operators :
            rpc[c] = "purge" /\ rpc'[c] # "purge" => ~Referenced(rreq[c].key)
       /\ \A k \in rlate \ rlate' :
            NeverReset(k[1]) => ~Referenced(k)]_dmsVars

(***************************************************************************)
(* Completing a deletion takes away no available document, although the    *)
(* status was read several calls earlier and others delete, fail and mark  *)
(* the same document meanwhile.                                            *)
(***************************************************************************)
CompletionTakesDeleted ==
    [][\A c \in Operators :
         rpc[c] \in {"complete_hard", "complete_write"} /\ rpc'[c] # rpc[c] =>
            meta'[rdoc[c]] = meta[rdoc[c]] \/
            meta[rdoc[c]].status # "available"]_dmsVars

(***************************************************************************)
(* claim() returns: a caller whose INSERT met another operation leaves the *)
(* loop that selects it, also when that operation is cleared in between    *)
(* (the loop's comment expects a transaction that was rolled back).        *)
(***************************************************************************)
ClaimReturns ==
    \A c \in Callers : upc[c] = "select" ~> upc[c] # "select"
=============================================================================
