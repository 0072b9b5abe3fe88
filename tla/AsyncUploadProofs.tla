-------------------------- MODULE AsyncUploadProofs --------------------------
(***************************************************************************)
(* Registrations as tasks: what UploadServiceProofs shows of threads and   *)
(* processes, shown of tasks that are cancelled any number of times, at    *)
(* any of their calls.                                                     *)
(***************************************************************************)
EXTENDS AsyncUploadService, UploadServiceProofs

USE DEF TypeOK

(* The keys that worker threads may still write are those of registrations *)
(* cancelled a second time.                                                *)
LateInv ==
    /\ late \subseteq StorageKeys \X (Contents \cup {None})
    /\ \A t \in late : t[1] \in interrupted

-----------------------------------------------------------------------------
(* A cancellation as a step of UploadService's variables *)

(* What a transaction that is cut leaves behind. *)
LEMMA CutEffects ==
    ASSUME TypeInv, NEW c \in Callers, upc[c] # "idle", CutTransaction(c)
    PROVE  /\ objects' = objects /\ faults' = faults
           /\ seq' \in 0 .. MaxDoc
           /\ meta' \in [DocIds -> Rows \cup {None}]
           /\ ops' \in [OpKeys -> Operations \cup {None}]
           /\ upc[c] # "save" => meta' = meta
           /\ RowsKept
  <1> DEFINE k == OpKey(c)
  <1>0. /\ meta \in [DocIds -> Rows \cup {None}]
        /\ ops \in [OpKeys -> Operations \cup {None}]
        /\ seq \in 0 .. MaxDoc
        /\ upc[c] \in KeyedPoints => k \in OpKeys
        /\ NewRow(c) \in Rows
        /\ upc[c] # "allocate" => udoc[c] \in DocIds
        /\ Fingerprint(ureq[c]) \in Fingerprints
    BY CallerTypes, RequestType
    DEF TypeInv, UploadTypeOK, StoresTypeOK, LocalOK, KeyedPoints
  <1>1. CASE UNCHANGED storeVars
    BY <1>0, <1>1 DEF storeVars, RowsKept
  <1>2. ASSUME NEW d \in DocIds, AllocateDocumentId(d, "ok"),
               UNCHANGED <<meta, objects, ops>>
        PROVE  faults' = faults /\ seq' \in 0 .. MaxDoc /\ RowsKept
    BY <1>0, <1>2, BoundsAssumption
    DEF AllocateDocumentId, Answer, DocIds, RowsKept
  <1>3. CASE /\ upc[c] = "claim"
             /\ InsertOperation(k, Fingerprint(ureq[c]), udoc[c], "ok")
             /\ UNCHANGED <<meta, objects, seq>>
    <2>1. [fp |-> Fingerprint(ureq[c]), doc |-> udoc[c], state |-> "pending"]
             \in Operations
      BY <1>0, <1>3 DEF Operations, UploadOperationState
    <2>2. ops' \in [OpKeys -> Operations \cup {None}] /\ faults' = faults
      BY <1>0, <1>3, <2>1 DEF InsertOperation, Answer, KeyedPoints
    <2> QED BY <1>0, <1>3, <2>2 DEF RowsKept
  <1>4. ASSUME NEW from \in UploadOperationState, NEW to \in UploadOperationState,
               upc[c] \in KeyedPoints, MoveOperation(k, from, to, "ok"),
               UNCHANGED <<meta, objects, seq>>
        PROVE  /\ ops' \in [OpKeys -> Operations \cup {None}]
               /\ faults' = faults /\ RowsKept
    <2>1. ops' \in [OpKeys -> Operations \cup {None}]
      BY <1>0, <1>4, MoveOperationType
    <2> QED BY <1>4, <2>1 DEF MoveOperation, Answer, RowsKept
  <1>5. CASE /\ upc[c] = "save"
             /\ SaveMetadata(udoc[c], NewRow(c), "ok")
             /\ UNCHANGED <<objects, ops, seq>>
    BY <1>0, <1>5 DEF SaveMetadata, Answer, Exists, RowsKept
  <1> QED
    BY <1>0, <1>1, <1>2, <1>3, <1>4, <1>5
    DEF CutTransaction, MarkOperation, KeyedPoints, UploadOperationState

(* The call ends with CancelledError, or goes on to mark its operation. *)
CancelledEnd(c) == Return(c, "CancelledError") \/ Raise(c, "CancelledError")

LEMMA CancelledControl ==
    ASSUME TypeInv, NEW c \in Callers, upc[c] # "idle",
           ureq' = ureq, udoc' = udoc, CancelledEnd(c),
           upc[c] = "allocate" => Return(c, "CancelledError")
    PROVE  ControlOK'
  <1>1. "CancelledError" \in Results \ Alarms
    BY DEF Results, Alarms
  <1>2. CASE Return(c, "CancelledError")
    BY <1>1, <1>2, ReturnControl
  <1>3. CASE Raise(c, "CancelledError") /\ upc[c] # "allocate"
    BY <1>1, <1>3, RaiseControl
  <1> QED BY <1>2, <1>3 DEF CancelledEnd

(* Both cancellations that end a call, without the tasks' own variables. *)
Cut(c) ==
    /\ upc[c] # "idle"
    /\ CutTransaction(c)
    /\ \/ Unshielded(c) /\ Return(c, "CancelledError") /\ UNCHANGED settled
       \/ ~Unshielded(c) /\ RaiseCancelled(c) /\ SettleCut(c)
    /\ UNCHANGED <<ureq, udoc, calls>>

LEMMA CancelIsCut ==
    ASSUME NEW c \in Callers, CancelCall(c) \/ CancelCompletion(c)
    PROVE  Cut(c)
  BY DEF Cut, CancelCall, CancelCompletion, RequestCancel

LEMMA CutEnds ==
    ASSUME TypeInv, NEW c \in Callers, Cut(c)
    PROVE  /\ CancelledEnd(c)
           /\ upc[c] \in {"allocate", "claim", "select", "reclaim", "replay",
                          "mark_failed"} => Return(c, "CancelledError")
  <1>1. upc[c] \in {"claim", "select", "reclaim", "replay"} => Keyed(c)
    BY DEF TypeInv, LocalOK
  <1> QED BY <1>1 DEF Cut, CancelledEnd, RaiseCancelled, Raise, Unshielded

LEMMA CutType ==
    ASSUME TypeInv, NEW c \in Callers, Cut(c)
    PROVE  TypeInv'
  <1>1. ControlOK'
    BY CutEnds, CancelledControl DEF Cut
  <1>2. /\ objects' = objects /\ faults' = faults
        /\ seq' \in 0 .. MaxDoc
        /\ meta' \in [DocIds -> Rows \cup {None}]
        /\ ops' \in [OpKeys -> Operations \cup {None}]
    BY CutEffects DEF Cut
  <1>3. settled' \subseteq OpKeys \X DocIds
    <2>1. CASE UNCHANGED settled
      BY <2>1 DEF TypeInv, UploadTypeOK
    <2>2. CASE Keyed(c) /\ meta' # meta /\ Settle(c)
      <3>1. upc[c] = "save"
        BY <2>2, CutEffects DEF Cut
      <3>2. OpKey(c) \in OpKeys /\ udoc[c] \in DocIds
        BY <2>2, <3>1, CallerTypes
      <3> QED BY <2>2, <3>2 DEF Settle, TypeInv, UploadTypeOK
    <2> QED BY <2>1, <2>2 DEF Cut, SettleCut
  <1> QED
    BY <1>1, <1>2, <1>3
    DEF Cut, ControlOK, TypeInv, UploadTypeOK, StoresTypeOK

-----------------------------------------------------------------------------
(* Idempotency *)

LEMMA IdemCut ==
    ASSUME TypeInv, IdemInv, NEW c \in Callers, Cut(c)
    PROVE  IdemInv'
  <1> DEFINE k == OpKey(c)
  <1>0. /\ ureq' = ureq /\ udoc' = udoc /\ upc[c] # "idle" /\ CutTransaction(c)
        /\ CancelledEnd(c)
        /\ "CancelledError" \in Results \ {"Created", "Replayed"}
        /\ upc[c] \in Points
    BY CutEnds DEF Cut, Results, Alarms, TypeInv, UploadTypeOK
  <1>1. /\ Alone(c) /\ uout'[c] = "CancelledError"
        /\ \/ upc'[c] = "idle"
           \/ upc'[c] = "mark_failed" /\ Keyed(c)
    BY <1>0, ReturnAlone, RaiseAlone DEF CancelledEnd, Alone
  <1>2. upc[c] # "save" => settled' = settled /\ meta' = meta
    BY CutEffects DEF Cut, SettleCut
  <1>3. CASE upc[c] \in {"allocate", "claim", "select", "reclaim", "replay"}
    <2>1. Return(c, "CancelledError") /\ upc'[c] = "idle"
      BY <1>3, CutEnds, ReturnAlone
    <2>2. CASE ops' = ops
      BY <1>0, <1>2, <1>3, <2>1, <2>2, IdemRefused
    <2>3. CASE /\ upc[c] = "claim"
               /\ InsertOperation(k, Fingerprint(ureq[c]), udoc[c], "ok")
      <3>1. ~HoldsClaim(c)'
        BY <2>1 DEF HoldsClaim, ClaimedPoints
      <3> QED BY <1>0, <1>1, <1>2, <2>1, <2>3, <3>1, IdemInsert DEF Replies
    <2>4. CASE /\ upc[c] \in {"select", "reclaim"}
               /\ Record(c).fp = Fingerprint(ureq[c])
               /\ MoveOperation(k, "failed", "pending", "ok")
      BY <1>0, <1>1, <1>2, <2>1, <2>4, IdemMoveBack DEF Replies
    <2>5. upc[c] = "reclaim" => Record(c).fp = Fingerprint(ureq[c])
      BY DEF IdemInv, CallerInv
    <2> QED
      BY <1>0, <1>3, <2>2, <2>3, <2>4, <2>5
      DEF CutTransaction, Matches, Record, storeVars
  <1>4. CASE upc[c] \in {"exists", "put", "rollback"}
    <2>1. ops' = ops /\ (upc[c] = "exists" \/ upc[c] = "put" \/ upc[c] = "rollback")
      BY <1>0, <1>4 DEF CutTransaction, storeVars
    <2>2. Raise(c, "CancelledError")
      BY <1>4 DEF Cut, RaiseCancelled, Unshielded
    <2> QED BY <1>0, <1>2, <1>4, <2>1, <2>2, IdemOnward
  <1>5. CASE upc[c] = "save"
    <2>1. Raise(c, "CancelledError") /\ SettleCut(c)
      BY <1>5 DEF Cut, RaiseCancelled, Unshielded
    <2>2. CASE meta' = meta
      <3>1. settled' = settled /\ ops' = ops
        BY <1>0, <1>5, <2>1, <2>2 DEF SettleCut, CutTransaction, storeVars
      <3> QED BY <1>0, <1>5, <2>1, <2>2, <3>1, IdemOnward
    <2>3. CASE meta' # meta
      <3>1. SaveMetadata(udoc[c], NewRow(c), "ok") /\ ops' = ops
        BY <1>0, <1>5, <2>3 DEF CutTransaction, storeVars
      <3>2. (Keyed(c) /\ Settle(c)) \/ settled' = settled
        BY <2>1 DEF SettleCut
      <3>3. CallerInv(c)'
        <4>1. CallerInv(c) /\ (HoldsClaim(c) <=> Keyed(c))
          BY <1>5 DEF IdemInv, HoldsClaim, ClaimedPoints
        <4>2. Record(c)' = Record(c) /\ Fingerprint(ureq[c])' = Fingerprint(ureq[c])
          BY <1>0, <3>1 DEF Record, Fingerprint, OpKey
        <4>3. HoldsClaim(c)' => Keyed(c)
          BY <1>0 DEF HoldsClaim, Keyed
        <4> QED BY <1>0, <1>1, <1>5, <4>1, <4>2, <4>3 DEF CallerInv
      <3> QED BY <1>0, <1>1, <1>5, <3>1, <3>2, <3>3, IdemInsertRow DEF Replies
    <2> QED BY <2>2, <2>3
  <1>6. CASE upc[c] = "mark_succeeded"
    <2>1. CASE ops' = ops
      <3>1. CallerInv(c) /\ HoldsClaim(c)
        BY <1>6 DEF IdemInv, HoldsClaim, ClaimedPoints, TypeInv, LocalOK
      <3>2. Record(c)' = Record(c) /\ Fingerprint(ureq[c])' = Fingerprint(ureq[c])
            /\ OpKey(c)' = OpKey(c)
        BY <1>0, <2>1 DEF Record, Fingerprint, OpKey
      <3>3. CallerInv(c)'
        BY <1>0, <1>1, <1>6, <3>1, <3>2 DEF CallerInv, HoldsClaim, ClaimedPoints
      <3>4. SettledInv'
        BY <1>2, <1>6, <2>1 DEF IdemInv, SettledInv
      <3> QED BY <1>1, <1>2, <1>6, <2>1, <3>1, <3>2, <3>3, <3>4, QuietStep
    <2>2. CASE MarkOperation(k, "succeeded", "ok")
      BY <1>0, <1>1, <1>2, <1>6, <2>2, IdemMarkDone DEF Replies
    <2> QED BY <1>0, <1>6, <2>1, <2>2 DEF CutTransaction, storeVars
  <1>7. CASE upc[c] = "mark_failed"
    <2>1. Return(c, "CancelledError") /\ upc'[c] = "idle"
      BY <1>7, CutEnds, ReturnAlone
    <2>2. CASE ops' = ops
      BY <1>0, <1>2, <1>7, <2>1, <2>2, IdemRefused
    <2>3. CASE MarkOperation(k, "failed", "ok")
      <3>1. CallerInv(c)' /\ ~HoldsClaim(c)'
        BY <1>1, <2>1 DEF CallerInv, HoldsClaim, ClaimedPoints
      <3> QED BY <1>0, <1>1, <1>2, <1>7, <2>3, <3>1, IdemMark
          DEF UploadOperationState, Replies
    <2> QED BY <1>0, <1>7, <2>2, <2>3 DEF CutTransaction, storeVars
  <1> QED BY <1>0, <1>3, <1>4, <1>5, <1>6, <1>7 DEF Points

-----------------------------------------------------------------------------
(* The invariant of tasks *)

TaskInv == TypeInv /\ IdemInv /\ LateInv

LEMMA TaskUploadStep ==
    ASSUME NEW c \in Callers,
           AsyncUploadStep(c) \/ \E r \in Requests : AsyncUploadDocument(c, r)
    PROVE  /\ UploadNext
           /\ \/ UploadStep(c)
              \/ \E r \in Requests : UploadDocument(c, r)
           /\ late' = late /\ interrupted' = interrupted
  BY DEF AsyncUploadStep, AsyncUploadDocument, AsyncAllocate, AsyncClaim,
         AsyncReplay, AsyncUploadBytes, AsyncUploadStream, AsyncComplete,
         UploadNext, UploadStep, taskVars

(* Only a second cancellation leaves a call to its thread. *)
LEMMA LateCut ==
    ASSUME TypeInv, LateInv, NEW c \in Callers,
           CancelCall(c) \/ CancelCompletion(c)
    PROVE  /\ LateInv'
           /\ interrupted \subseteq interrupted'
           /\ upc[c] \notin {"idle", "allocate"} /\ ~Unshielded(c) =>
                 BuildStorageKey(c) \in interrupted'
  <1>1. CASE CancelCall(c)
    BY <1>1 DEF CancelCall, LateInv
  <1>2. CASE CancelCompletion(c)
    <2>1. upc[c] # "idle" /\ cancelled[c] # 0
      BY <1>2 DEF CancelCompletion, Shielded, RequestCancel
    <2>2. upc[c] # "allocate" => /\ udoc[c] # None
                                 /\ BuildStorageKey(c) \in StorageKeys
                                 /\ ureq[c].content \in Contents
      BY <2>1, CallerTypes, RequestType, NoneAssumption
    <2>3. interrupted \subseteq interrupted'
      BY <1>2 DEF CancelCompletion
    <2>4. upc[c] # "allocate" => BuildStorageKey(c) \in interrupted'
      BY <1>2, <2>1, <2>2 DEF CancelCompletion
    <2>5. late' \subseteq late \cup
             {<<BuildStorageKey(c), x>> : x \in {ureq[c].content, None}}
      BY <1>2 DEF CancelCompletion, LeaveToThread
    <2>6. upc[c] \notin {"put", "rollback"} => late' = late
      BY <1>2 DEF CancelCompletion, LeaveToThread
    <2>7. LateInv'
      BY <2>2, <2>3, <2>4, <2>5, <2>6 DEF LateInv
    <2> QED BY <2>3, <2>4, <2>7
  <1> QED BY <1>1, <1>2

LEMMA LandType ==
    ASSUME TypeInv, LateInv, NEW t \in late, Land(t)
    PROVE  /\ TypeInv' /\ LateInv'
           /\ \A k \in StorageKeys \ interrupted : objects'[k] = objects[k]
  <1>1. /\ t[1] \in StorageKeys /\ t[2] \in Contents \cup {None}
        /\ t[1] \in interrupted
    BY DEF LateInv
  <1>2. /\ objects' \in [StorageKeys -> Contents \cup {None}]
        /\ \A k \in StorageKeys \ {t[1]} : objects'[k] = objects[k]
    BY <1>1 DEF Land, TypeInv, UploadTypeOK, StoresTypeOK
  <1>3. LateInv'
    BY DEF Land, LateInv
  <1>4. TypeInv'
    BY <1>2 DEF Land, uploadVars, TypeInv, UploadTypeOK, StoresTypeOK, LocalOK, Keyed
  <1> QED BY <1>1, <1>2, <1>3, <1>4

LEMMA TasksInit == AsyncInit => TaskInv
  <1>1. AsyncInit => LateInv
    BY DEF AsyncInit, TaskInit, LateInv
  <1> QED BY <1>1, TypeInit, IdemInit DEF AsyncInit, TaskInv

LEMMA TaskStep == TaskInv /\ [AsyncNext]_asyncVars => TaskInv'
  <1> SUFFICES ASSUME TypeInv, IdemInv, LateInv, [AsyncNext]_asyncVars
               PROVE  TypeInv' /\ IdemInv' /\ LateInv'
    BY DEF TaskInv
  <1>1. ASSUME NEW c \in Callers,
               AsyncUploadStep(c) \/ \E r \in Requests : AsyncUploadDocument(c, r)
        PROVE  TypeInv' /\ IdemInv' /\ LateInv'
    BY <1>1, TaskUploadStep, TypeStep, IdemStep DEF LateInv
  <1>2. ASSUME NEW c \in Callers, CancelCall(c) \/ CancelCompletion(c)
        PROVE  TypeInv' /\ IdemInv' /\ LateInv'
    BY <1>2, CancelIsCut, CutType, IdemCut, LateCut
  <1>3. ASSUME UNCHANGED <<vars, late, interrupted>>
        PROVE  TypeInv' /\ IdemInv' /\ LateInv'
    BY <1>3, TypeStep, IdemStep DEF LateInv
  <1>4. ASSUME NEW t \in late, Land(t)
        PROVE  TypeInv' /\ IdemInv' /\ LateInv'
    <2>1. TypeInv' /\ LateInv'
      BY <1>4, LandType
    <2>2. IdemInv'
      BY <1>4
      DEF Land, IdemInv, CallerInv, SucceededInv, SettledInv, ClaimOwnership,
          HoldsClaim, Keyed, OpKey, Record, RegisteredFrom, Fingerprint,
          InState, uploadVars
    <2> QED BY <2>1, <2>2
  <1> QED
    BY <1>1, <1>2, <1>3, <1>4
    DEF AsyncNext, HoldBack, asyncVars, taskVars

LEMMA TaskInvariant == AsyncSpec => []TaskInv
  BY TasksInit, TaskStep, PTL DEF AsyncSpec

(***************************************************************************)
(* A keyed registration that is cancelled and retried registers its        *)
(* document once: cancellation, like failure, leaves the operation with    *)
(* its identifier.                                                         *)
(***************************************************************************)
THEOREM CancelledOnce == AsyncSpec => []IdempotentOnce
  <1>1. TaskInv => IdempotentOnce
    BY DEF TaskInv, IdemInv, SettledInv, IdempotentOnce
  <1> QED BY TaskInvariant, <1>1, PTL

(***************************************************************************)
(* Cancelling tasks never leaves two of them between the claim and the     *)
(* final mark of one operation.                                            *)
(***************************************************************************)
THEOREM CancelledOneHolder == AsyncSpec => []ClaimOwnership
  <1>1. TaskInv => ClaimOwnership
    BY DEF TaskInv, IdemInv
  <1> QED BY TaskInvariant, <1>1, PTL

(***************************************************************************)
(* Only completed registrations are replayed, wherever those that made     *)
(* them were cancelled.                                                    *)
(***************************************************************************)
THEOREM CancelledReplay == AsyncSpec => []ReplayIsCompleted
  <1>1. TaskInv => ReplayIsCompleted
    BY DEF TaskInv, IdemInv, CallerInv, SucceededInv, ReplayIsCompleted,
           InState, Record
  <1> QED BY TaskInvariant, <1>1, PTL

-----------------------------------------------------------------------------
(* Contents without a row *)

(* A cut registration that answered for nothing leaves nothing. *)
LEMMA OrphanCut ==
    ASSUME TypeInv, NEW q \in StorageKeys, KeyAccounted(q), NEW c \in Callers,
           Cut(c), ~AnswersFor(c, q)
    PROVE  KeyAccounted(q)'
  <1>1. CancelledEnd(c) /\ objects' = objects /\ RowsKept
    BY CutEnds, CutEffects DEF Cut
  <1>2. Alone(c) /\ reports \subseteq reports'
    BY <1>1, ReturnAlone, RaiseAlone, ReportsGrow DEF Cut, CancelledEnd, Alone
  <1> QED BY <1>1, <1>2, OrphanStep

LEMMA CancelledMeaning ==
    CancelledOrphanAccounted <=>
       \A k \in StorageKeys \ interrupted : KeyAccounted(k)
  BY DEF CancelledOrphanAccounted, KeyAccounted, Accounted, AnswersFor,
         Reported, InFlight, Told

LEMMA CancelledOrphanStep ==
    ASSUME TypeInv, LateInv, NEW q \in StorageKeys, KeyAccounted(q),
           [AsyncNext]_asyncVars, q \notin interrupted, q \notin interrupted'
    PROVE  KeyAccounted(q)'
  <1>1. ASSUME NEW c \in Callers,
               AsyncUploadStep(c) \/ \E r \in Requests : AsyncUploadDocument(c, r)
        PROVE  KeyAccounted(q)'
    BY <1>1, TaskUploadStep, OrphanNext
  <1>2. ASSUME NEW c \in Callers, CancelCall(c) \/ CancelCompletion(c)
        PROVE  KeyAccounted(q)'
    <2>1. ~AnswersFor(c, q)
      BY <1>2, LateCut DEF AnswersFor, Unshielded
    <2> QED BY <1>2, <2>1, CancelIsCut, OrphanCut
  <1>3. ASSUME UNCHANGED vars
        PROVE  KeyAccounted(q)'
    BY <1>3, OrphanNext
  <1>4. ASSUME NEW t \in late, Land(t)
        PROVE  KeyAccounted(q)'
    <2>1. objects'[q] = objects[q]
      BY <1>4, LandType
    <2> QED
      BY <1>4, <2>1
      DEF Land, uploadVars, KeyAccounted, Accounted, AnswersFor, Reported,
          Referenced, BuildStorageKey
  <1> QED
    BY <1>1, <1>2, <1>3, <1>4
    DEF AsyncNext, HoldBack, asyncVars, taskVars

(***************************************************************************)
(* One cancellation leaves no content behind that nobody answers for:      *)
(* content without a row is that of a registration at work, was reported,  *)
(* or its registration was cancelled twice.                                *)
(***************************************************************************)
THEOREM CancelledNoOrphan == AsyncSpec => []CancelledOrphanAccounted
  <1>1. AsyncInit => CancelledOrphanAccounted
    BY DEF AsyncInit, Init, StoresInit, CancelledOrphanAccounted
  <1>2. TaskInv /\ CancelledOrphanAccounted /\ [AsyncNext]_asyncVars
           => CancelledOrphanAccounted'
    <2> SUFFICES ASSUME TypeInv, LateInv, CancelledOrphanAccounted,
                        [AsyncNext]_asyncVars
                 PROVE  CancelledOrphanAccounted'
      BY DEF TaskInv
    <2>1. interrupted \subseteq interrupted'
      BY TaskUploadStep, LateCut
      DEF AsyncNext, HoldBack, Land, asyncVars, taskVars
    <2>2. \A k \in StorageKeys : k \notin interrupted' => KeyAccounted(k)'
      BY <2>1, CancelledMeaning, CancelledOrphanStep
    <2>3. (\A k \in StorageKeys \ interrupted : KeyAccounted(k))'
      BY <2>2
    <2> QED BY <2>3, CancelledMeaning, PTL
  <1> QED BY TaskInvariant, <1>1, <1>2, PTL DEF AsyncSpec

-----------------------------------------------------------------------------
(* The content of a row, where identifiers are allocated *)

LEMMA OwnCut ==
    ASSUME Inductive, NEW c \in Callers, Cut(c)
    PROVE  OwnInv'
  <1>1. /\ CutTransaction(c) /\ CancelledEnd(c) /\ ureq' = ureq /\ udoc' = udoc
        /\ TypeInv /\ upc[c] # "idle"
    BY CutEnds DEF Cut, Inductive
  <1>2. Alone(c) /\ upc'[c] \in {"idle", "mark_failed"}
    BY <1>1, ReturnAlone, RaiseAlone DEF CancelledEnd, Alone
  <1>3. ~Private(c)'
    BY <1>2 DEF Private
  <1>4. /\ upc[c] # "allocate" => udoc[c] \in DocIds /\ udoc[c] <= seq
        /\ seq \in Nat
        /\ upc[c] = "allocate" => upc'[c] = "idle"
        /\ upc[c] \in KeyedPoints => OpKey(c) \in OpKeys
    BY <1>1, CallerTypes, CutEnds, ReturnAlone
    DEF KeyedPoints, Inductive, TypeInv, LocalOK, UploadTypeOK, StoresTypeOK,
        WorkInv, OwnInv
  <1>5. CASE seq' = seq /\ ops' = ops
    BY <1>1, <1>2, <1>3, <1>4, <1>5, OwnStep
  <1>6. ASSUME upc[c] = "allocate", NEW d \in DocIds,
               AllocateDocumentId(d, "ok"), ops' = ops
        PROVE  OwnInv'
    <2>1. seq' \in Nat /\ seq <= seq'
      BY <1>4, <1>6, BoundsAssumption
      DEF AllocateDocumentId, AllocatedId, Applied, DocIds
    <2> QED BY <1>2, <1>3, <1>4, <1>6, <2>1, OwnStep
  <1>7. CASE /\ upc[c] = "claim" /\ seq' = seq
             /\ InsertOperation(OpKey(c), Fingerprint(ureq[c]), udoc[c], "ok")
    <2>1. upc'[c] = "idle"
      BY <1>1, <1>7, CutEnds, ReturnAlone
    <2> QED BY <1>1, <1>2, <1>7, <2>1, OwnInsert
  <1>8. ASSUME upc[c] \in KeyedPoints, seq' = seq,
               NEW from \in UploadOperationState, NEW to \in UploadOperationState,
               MoveOperation(OpKey(c), from, to, "ok")
        PROVE  OwnInv'
    <2>1. \A j \in OpKeys : ops'[j] # None =>
             ops[j] # None /\ ops'[j].doc = ops[j].doc
      BY <1>1, <1>4, <1>8, MovedDocs
    <2>2. upc[c] # "allocate"
      BY <1>8 DEF KeyedPoints
    <2> QED BY <1>1, <1>2, <1>3, <1>4, <1>8, <2>1, <2>2, OwnStep
  <1> QED
    BY <1>1, <1>5, <1>6, <1>7, <1>8
    DEF CutTransaction, MarkOperation, KeyedPoints, UploadOperationState,
        storeVars

(* A cut leaves every content alone but that of its own registration. *)
LEMMA ContentCut ==
    ASSUME Inductive, NEW c \in Callers, Cut(c)
    PROVE  /\ WorkInv'
           /\ \A k \in StorageKeys, E \in SUBSET Alarms :
                 /\ KeyInv(k, E)
                 /\ upc[c] \notin {"idle", "allocate"} /\ ~Unshielded(c) =>
                       k # BuildStorageKey(c)
                 => KeyInv(k, E)'
  <1>1. /\ CutTransaction(c) /\ CancelledEnd(c) /\ ureq' = ureq /\ udoc' = udoc
        /\ TypeInv /\ upc[c] # "idle" /\ objects' = objects
        /\ upc[c] # "save" => meta' = meta
    BY CutEnds, CutEffects DEF Cut, Inductive
  <1>2. /\ Alone(c) /\ upc'[c] \in {"idle", "mark_failed"}
        /\ reports \subseteq reports'
    BY <1>1, ReturnAlone, RaiseAlone, ReportsGrow DEF CancelledEnd, Alone
  <1>3. upc[c] = "save" => /\ udoc[c] \in DocIds /\ meta[udoc[c]] = None
                           /\ \A d \in DocIds \ {udoc[c]} : meta'[d] = meta[d]
                           /\ meta'[udoc[c]] \in {None, NewRow(c)}
    <2>1. upc[c] = "save" => udoc[c] \in DocIds /\ meta[udoc[c]] = None
      BY CallerTypes DEF Inductive, WorkInv, PathInv
    <2> QED BY <1>1, <2>1
        DEF CutTransaction, SaveMetadata, storeVars, TypeInv, UploadTypeOK,
            StoresTypeOK
  <1>4. Touches(c)
    BY <1>1, <1>3 DEF Touches, AtContent
  <1>5. PathInv(c)'
    BY <1>2 DEF PathInv
  <1>6. WorkInv'
    BY <1>2, <1>4, <1>5, OwnCut, WorkStep
  <1>7. ASSUME NEW k \in StorageKeys, NEW E \in SUBSET Alarms, KeyInv(k, E),
               upc[c] \notin {"idle", "allocate"} /\ ~Unshielded(c) =>
                  k # BuildStorageKey(c)
        PROVE  KeyInv(k, E)'
    <2>1. Told(k, E) => Told(k, E)'
      <3>1. upc[c] = "mark_failed" => k # BuildStorageKey(c)
        BY <1>7 DEF Unshielded
      <3> QED BY <1>2, <3>1, ToldKept
    <2>2. ASSUME AtContent(c), k[2] = udoc[c] PROVE IntactAt(k, E)'
      <3>1. k # BuildStorageKey(c)
        BY <1>7, <2>2 DEF AtContent, Unshielded
      <3>2. CASE meta' = meta
        BY <1>1, <1>7, <2>1, <3>2 DEF KeyInv, IntactAt, Referenced, StorageKeyOf
      <3>3. CASE upc[c] = "save"
        <4>1. StorageKeyOf(udoc[c], NewRow(c)) = BuildStorageKey(c)
          BY DEF StorageKeyOf, NewRow, BuildStorageKey
        <4>2. ~Referenced(k)'
          BY <1>3, <2>2, <3>1, <3>3, <4>1 DEF Referenced
        <4> QED BY <4>2 DEF IntactAt
      <3> QED BY <1>1, <3>2, <3>3
    <2>3. upc'[c] # "save"
      BY <1>2
    <2> QED BY <1>2, <1>4, <1>7, <2>1, <2>2, <2>3, KeyStep
  <1> QED BY <1>6, <1>7

(* In a task the host learns of its exceptions: no death among them. *)
Told1 == {"ConsistencyError"}

IntactInv ==
    /\ WorkInv
    /\ \A k \in StorageKeys \ interrupted : KeyInv(k, Told1)

LEMMA IntactTask ==
    ASSUME Allocated, TaskInv, IntactInv, [AsyncNext]_asyncVars
    PROVE  IntactInv'
  <1>0. TypeInv /\ IdemInv /\ LateInv /\ Inductive
        /\ "ConsistencyError" \in Told1 /\ Told1 \in SUBSET Alarms
    BY DEF TaskInv, IntactInv, Inductive, Told1, Alarms
  <1>1. ASSUME WorkInv', KeysKept(Told1), interrupted' = interrupted
        PROVE  IntactInv'
    BY <1>1 DEF IntactInv, KeysKept
  <1>2. ASSUME NEW c \in Callers,
               AsyncUploadStep(c) \/ \E r \in Requests : AsyncUploadDocument(c, r)
        PROVE  IntactInv'
    BY <1>0, <1>1, <1>2, Allocated, TaskUploadStep, ContentNext
  <1>3. ASSUME NEW c \in Callers, CancelCall(c) \/ CancelCompletion(c)
        PROVE  IntactInv'
    <2>1. Cut(c)
      BY <1>3, CancelIsCut
    <2>2. WorkInv'
      BY <1>0, <2>1, ContentCut
    <2>3. ASSUME NEW k \in StorageKeys, k \notin interrupted'
          PROVE  KeyInv(k, Told1)'
      <3>1. /\ k \notin interrupted
            /\ upc[c] \notin {"idle", "allocate"} /\ ~Unshielded(c) =>
                  k # BuildStorageKey(c)
        BY <1>0, <1>3, <2>3, LateCut
      <3>2. KeyInv(k, Told1)
        BY <3>1 DEF IntactInv
      <3> QED BY <1>0, <2>1, <3>1, <3>2, ContentCut
    <2> QED BY <2>2, <2>3 DEF IntactInv
  <1>4. ASSUME UNCHANGED vars, interrupted' = interrupted
        PROVE  IntactInv'
    BY <1>0, <1>1, <1>4, ContentIdle
  <1>5. ASSUME NEW t \in late, Land(t)
        PROVE  IntactInv'
    <2>1. \A k \in StorageKeys \ interrupted : objects'[k] = objects[k]
      BY <1>0, <1>5, LandType
    <2>2. WorkInv'
      BY <1>5 DEF Land, uploadVars, IntactInv, WorkInv, OwnInv, PathInv,
                  Private, Keyed
    <2>3. ASSUME NEW k \in StorageKeys, k \notin interrupted
          PROVE  KeyInv(k, Told1)'
      BY <1>5, <2>1, <2>3
      DEF Land, uploadVars, IntactInv, KeyInv, IntactAt, Referenced,
          StorageKeyOf, Told, BuildStorageKey
    <2> QED BY <1>5, <2>2, <2>3 DEF Land, IntactInv
  <1> QED
    BY <1>2, <1>3, <1>4, <1>5
    DEF AsyncNext, HoldBack, asyncVars, taskVars

(***************************************************************************)
(* Where identifiers are allocated, an available document keeps its        *)
(* content however often its registration and the others are cancelled and *)
(* retried, unless its host was told otherwise or its registration was     *)
(* cancelled a second time, which may leave a removal to a thread.         *)
(***************************************************************************)
THEOREM CancelledIntact ==
    ASSUME Allocated
    PROVE  AsyncSpec => []CancelledContentIntact
  <1>1. AsyncInit => IntactInv
    BY WorkInit DEF AsyncInit, IntactInv, Told1, Alarms
  <1>2. TaskInv /\ IntactInv /\ [AsyncNext]_asyncVars => IntactInv'
    BY Allocated, IntactTask
  <1>3. TaskInv /\ IntactInv => CancelledContentIntact
    <2> SUFFICES ASSUME TypeInv, IntactInv, NEW d \in DocIds, meta[d] # None,
                        meta[d].status = "available",
                        StorageKeyOf(d, meta[d]) \notin interrupted
                 PROVE  \/ objects[StorageKeyOf(d, meta[d])] = meta[d].content
                        \/ Told(StorageKeyOf(d, meta[d]), Told1)
      BY DEF TaskInv, CancelledContentIntact, Told1
    <2>1. IntactAt(StorageKeyOf(d, meta[d]), Told1)
      BY RowKey DEF IntactInv, KeyInv
    <2> QED BY <2>1, IntactRow
  <1> QED BY TaskInvariant, <1>1, <1>2, <1>3, PTL DEF AsyncSpec
=============================================================================
