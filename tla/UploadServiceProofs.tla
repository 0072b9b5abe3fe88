------------------------ MODULE UploadServiceProofs ------------------------
(***************************************************************************)
(* Theorems about UploadService, for every set of callers and requests and *)
(* every bound: types, idempotency and claims first, then the contents     *)
(* without a row (explicit identifiers included) and the contents of rows  *)
(* (where identifiers are allocated).                                      *)
(***************************************************************************)
EXTENDS UploadService, TLAPS

(***************************************************************************)
(* What a caller's program counter says of its local variables.  The type  *)
(* invariant is not inductive without it: a caller past "allocate" has an  *)
(* identifier, and only keyed requests reach the operation store.          *)
(***************************************************************************)
LocalOK ==
    \A c \in Callers :
       /\ upc[c] # "idle" => ureq[c] \in Requests
       /\ upc[c] \notin {"idle", "allocate"} => udoc[c] \in DocIds
       /\ upc[c] \in {"claim", "select", "reclaim", "replay",
                      "mark_succeeded", "mark_failed"} => Keyed(c)

TypeInv == TypeOK /\ LocalOK

(* The part of TypeInv that moving, returning and raising decide. *)
ControlOK ==
    /\ LocalOK
    /\ upc \in [Callers -> Points]
    /\ udoc \in [Callers -> DocIds \cup {None}]
    /\ uout \in [Callers -> Results]
    /\ reports \subseteq StorageKeys \X Alarms

USE DEF TypeOK

LEMMA AnswerType ==
    ASSUME faults \in 0 .. MaxFaults, NEW o, Answer(o)
    PROVE  faults' \in 0 .. MaxFaults
  BY BoundsAssumption DEF Answer

LEMMA RequestType ==
    ASSUME NEW r \in Requests
    PROVE  /\ r.part \in Partitions
           /\ r.file \in Filenames
           /\ r.content \in Contents
           /\ r.doc \in DocIds \cup {None}
           /\ r.key \in IdemKeys \cup {None}
           /\ Fingerprint(r) \in Fingerprints
  BY UploadAssumption DEF UploadRequests, Fingerprint, Fingerprints

LEMMA CallerTypes ==
    ASSUME TypeInv, NEW c \in Callers, upc[c] # "idle"
    PROVE  /\ ureq[c] \in Requests
           /\ upc[c] # "allocate" => udoc[c] \in DocIds
           /\ upc[c] # "allocate" => BuildStorageKey(c) \in StorageKeys
           /\ Keyed(c) => OpKey(c) \in OpKeys
           /\ NewRow(c) \in Rows
  <1>1. ureq[c] \in Requests /\ (upc[c] # "allocate" => udoc[c] \in DocIds)
    BY DEF TypeInv, LocalOK
  <1>2. upc[c] # "allocate" => BuildStorageKey(c) \in StorageKeys
    BY <1>1, RequestType DEF BuildStorageKey, StorageKeys
  <1>3. Keyed(c) => OpKey(c) \in OpKeys
    BY <1>1, RequestType DEF Keyed, OpKey, OpKeys
  <1>4. NewRow(c) \in Rows
    BY <1>1, RequestType DEF NewRow, Rows, DocumentStatus
  <1> QED BY <1>1, <1>2, <1>3, <1>4

LEMMA ReturnType ==
    ASSUME TypeInv, NEW c \in Callers, NEW res \in Results,
           upc[c] # "idle", res \in Alarms => upc[c] # "allocate",
           Return(c, res)
    PROVE  /\ upc' = [upc EXCEPT ![c] = "idle"]
           /\ upc' \in [Callers -> Points]
           /\ uout' \in [Callers -> Results]
           /\ reports' \subseteq StorageKeys \X Alarms
  <1>1. upc' \in [Callers -> Points] /\ uout' \in [Callers -> Results]
    BY DEF TypeInv, UploadTypeOK, Return, Points
  <1>2. reports' \subseteq StorageKeys \X Alarms
    BY CallerTypes DEF TypeInv, UploadTypeOK, Return
  <1> QED BY <1>1, <1>2 DEF Return

LEMMA RaiseType ==
    ASSUME TypeInv, NEW c \in Callers, NEW e \in Results,
           upc[c] \notin {"idle", "allocate"}, Raise(c, e)
    PROVE  /\ \/ upc' = [upc EXCEPT ![c] = "mark_failed"] /\ Keyed(c)
              \/ upc' = [upc EXCEPT ![c] = "idle"]
           /\ upc' \in [Callers -> Points]
           /\ uout' \in [Callers -> Results]
           /\ reports' \subseteq StorageKeys \X Alarms
  <1>1. CASE Keyed(c)
    BY <1>1 DEF TypeInv, UploadTypeOK, Raise, Points
  <1>2. CASE ~Keyed(c)
    BY <1>2, ReturnType DEF Raise
  <1> QED BY <1>1, <1>2

LEMMA GotoType ==
    ASSUME TypeInv, NEW c \in Callers, NEW p \in Points, Goto(c, p)
    PROVE  /\ upc' = [upc EXCEPT ![c] = p]
           /\ upc' \in [Callers -> Points]
           /\ uout' \in [Callers -> Results]
           /\ reports' \subseteq StorageKeys \X Alarms
  BY DEF TypeInv, UploadTypeOK, Goto

KeyedPoints == {"claim", "select", "reclaim", "replay", "mark_succeeded",
                "mark_failed"}

(* A step of caller c alone, to point p with identifier d. *)
LEMMA LocalStep ==
    ASSUME TypeInv, NEW c \in Callers, NEW p \in Points,
           NEW d \in DocIds \cup {None},
           upc[c] # "idle", ureq' = ureq,
           upc' = [upc EXCEPT ![c] = p],
           udoc' = [udoc EXCEPT ![c] = d],
           p \notin {"idle", "allocate"} => d \in DocIds,
           p \in KeyedPoints => Keyed(c)
    PROVE  LocalOK' /\ udoc' \in [Callers -> DocIds \cup {None}]
  <1> USE DEF TypeInv, UploadTypeOK
  <1>1. udoc' \in [Callers -> DocIds \cup {None}]
    OBVIOUS
  <1>2. ASSUME NEW e \in Callers
        PROVE  /\ upc'[e] # "idle" => ureq'[e] \in Requests
               /\ upc'[e] \notin {"idle", "allocate"} => udoc'[e] \in DocIds
               /\ upc'[e] \in KeyedPoints => Keyed(e)'
    <2>1. CASE e = c BY <2>1 DEF LocalOK, Keyed, KeyedPoints
    <2>2. CASE e # c BY <2>2 DEF LocalOK, Keyed, KeyedPoints
    <2> QED BY <2>1, <2>2
  <1>3. LocalOK'
    BY <1>2 DEF LocalOK, KeyedPoints
  <1> QED BY <1>1, <1>3

(* The same when the identifier stays. *)
LEMMA LocalMove ==
    ASSUME TypeInv, NEW c \in Callers, NEW p \in Points,
           upc[c] # "idle", ureq' = ureq, udoc' = udoc,
           upc' = [upc EXCEPT ![c] = p],
           p = "idle" \/ upc[c] # "allocate",
           p # "allocate",
           p \in KeyedPoints => Keyed(c)
    PROVE  LocalOK'
  <1>1. udoc' = [udoc EXCEPT ![c] = udoc[c]] /\ udoc[c] \in DocIds \cup {None}
    BY DEF TypeInv, UploadTypeOK
  <1>2. p \notin {"idle", "allocate"} => udoc[c] \in DocIds
    BY DEF TypeInv, LocalOK
  <1> QED BY <1>1, <1>2, LocalStep

LEMMA ReturnControl ==
    ASSUME TypeInv, NEW c \in Callers, NEW res \in Results,
           upc[c] # "idle", res \in Alarms => upc[c] # "allocate",
           ureq' = ureq, udoc' = udoc, Return(c, res)
    PROVE  ControlOK'
  <1>1. /\ upc' = [upc EXCEPT ![c] = "idle"]
        /\ upc' \in [Callers -> Points]
        /\ uout' \in [Callers -> Results]
        /\ reports' \subseteq StorageKeys \X Alarms
    BY ReturnType
  <1>2. LocalOK'
    BY <1>1, LocalMove DEF Points, KeyedPoints
  <1> QED BY <1>1, <1>2 DEF ControlOK, TypeInv, UploadTypeOK

LEMMA RaiseControl ==
    ASSUME TypeInv, NEW c \in Callers, NEW e \in Results,
           upc[c] \notin {"idle", "allocate"},
           ureq' = ureq, udoc' = udoc, Raise(c, e)
    PROVE  ControlOK'
  <1>1. /\ \/ upc' = [upc EXCEPT ![c] = "mark_failed"] /\ Keyed(c)
           \/ upc' = [upc EXCEPT ![c] = "idle"]
        /\ upc' \in [Callers -> Points]
        /\ uout' \in [Callers -> Results]
        /\ reports' \subseteq StorageKeys \X Alarms
    BY RaiseType
  <1>2. LocalOK'
    BY <1>1, LocalMove DEF Points, KeyedPoints
  <1> QED BY <1>1, <1>2 DEF ControlOK, TypeInv, UploadTypeOK

LEMMA GotoControl ==
    ASSUME TypeInv, NEW c \in Callers, NEW p \in Points,
           upc[c] \notin {"idle", "allocate"}, p # "allocate",
           p \in KeyedPoints => Keyed(c),
           ureq' = ureq, udoc' = udoc, Goto(c, p)
    PROVE  ControlOK'
  <1>1. /\ upc' = [upc EXCEPT ![c] = p]
        /\ upc' \in [Callers -> Points]
        /\ uout' \in [Callers -> Results]
        /\ reports' \subseteq StorageKeys \X Alarms
    BY GotoType
  <1>2. LocalOK'
    BY <1>1, LocalMove
  <1> QED BY <1>1, <1>2 DEF ControlOK, TypeInv, UploadTypeOK

(* Going on with another identifier: an allocated one, or the claim's. *)
LEMMA IdentifierControl ==
    ASSUME TypeInv, NEW c \in Callers, NEW p \in Points, NEW d \in DocIds,
           upc[c] # "idle", p # "allocate", p \in KeyedPoints => Keyed(c),
           ureq' = ureq, udoc' = [udoc EXCEPT ![c] = d], Goto(c, p)
    PROVE  ControlOK'
  <1>1. /\ upc' = [upc EXCEPT ![c] = p]
        /\ upc' \in [Callers -> Points]
        /\ uout' \in [Callers -> Results]
        /\ reports' \subseteq StorageKeys \X Alarms
    BY GotoType
  <1>2. LocalOK' /\ udoc' \in [Callers -> DocIds \cup {None}]
    BY <1>1, LocalStep
  <1> QED BY <1>1, <1>2 DEF ControlOK

(* To the rollback, with the exception to be raised after it. *)
LEMMA RollbackControl ==
    ASSUME TypeInv, NEW c \in Callers, NEW e \in Results,
           upc[c] \notin {"idle", "allocate"},
           ureq' = ureq, udoc' = udoc, reports' = reports,
           upc' = [upc EXCEPT ![c] = "rollback"],
           uout' = [uout EXCEPT ![c] = e]
    PROVE  ControlOK'
  <1>1. LocalOK'
    BY LocalMove DEF Points, KeyedPoints
  <1> QED BY <1>1 DEF ControlOK, TypeInv, UploadTypeOK, Points

LEMMA MoveOperationType ==
    ASSUME ops \in [OpKeys -> Operations \cup {None}],
           NEW k \in OpKeys, NEW from \in UploadOperationState,
           NEW to \in UploadOperationState, NEW o,
           MoveOperation(k, from, to, o)
    PROVE  ops' \in [OpKeys -> Operations \cup {None}]
  BY NoneAssumption DEF MoveOperation, InState, Operations

LEMMA RetakeType ==
    ASSUME TypeInv, NEW c \in Callers, upc[c] \in {"select", "reclaim"},
           ureq' = ureq, Retake(c)
    PROVE  /\ ControlOK'
           /\ ops' \in [OpKeys -> Operations \cup {None}]
           /\ faults' \in 0 .. MaxFaults
  <1> DEFINE k == OpKey(c)
  <1>0. Keyed(c) /\ k \in OpKeys
    BY CallerTypes DEF TypeInv, LocalOK
  <1>1. PICK o \in Replies :
           /\ MoveOperation(k, "failed", "pending", o)
           /\ \/ o = "ok" /\ InState(k, "failed") /\ Reuse(c)
              \/ /\ o = "ok" /\ ~InState(k, "failed")
                 /\ Return(c, "IdempotencyInProgressError")
                 /\ UNCHANGED udoc
              \/ o # "ok" /\ Return(c, "BackendError") /\ UNCHANGED udoc
    BY DEF Retake
  <1>2. ops \in [OpKeys -> Operations \cup {None}] /\ faults \in 0 .. MaxFaults
    BY DEF TypeInv, UploadTypeOK, StoresTypeOK
  <1>3. ops' \in [OpKeys -> Operations \cup {None}]
    BY <1>0, <1>1, <1>2, MoveOperationType DEF UploadOperationState
  <1>4. faults' \in 0 .. MaxFaults
    BY <1>1, <1>2, AnswerType DEF MoveOperation
  <1>5. CASE InState(k, "failed") /\ Reuse(c)
    <2>1. ops[k].doc \in DocIds
      BY <1>0, <1>2, <1>5, NoneAssumption DEF InState, Operations
    <2>2. Goto(c, "exists") /\ udoc' = [udoc EXCEPT ![c] = ops[k].doc]
      BY <1>5 DEF Reuse
    <2>3. ControlOK'
      BY <2>1, <2>2, IdentifierControl DEF Points, KeyedPoints
    <2> QED BY <1>3, <1>4, <2>3
  <1>6. ASSUME NEW e \in {"IdempotencyInProgressError", "BackendError"},
               Return(c, e), udoc' = udoc
        PROVE  ControlOK'
    BY <1>6, ReturnControl DEF Results
  <1> QED BY <1>1, <1>3, <1>4, <1>5, <1>6

LEMMA TypeInit == Init => TypeInv
  <1> SUFFICES ASSUME Init PROVE TypeInv
    OBVIOUS
  <1>1. StoresTypeOK
    BY BoundsAssumption DEF Init, StoresInit, StoresTypeOK
  <1>2. UploadTypeOK
    BY <1>1, UploadAssumption
    DEF Init, UploadInit, UploadTypeOK, Points, Results
  <1>3. LocalOK
    BY DEF Init, UploadInit, LocalOK
  <1> QED BY <1>2, <1>3 DEF TypeInv

(***************************************************************************)
(* TypeInv is inductive: one step per action.                              *)
(***************************************************************************)
LEMMA TypeStep == TypeInv /\ [UploadNext]_vars => TypeInv'
  <1> SUFFICES ASSUME TypeInv, [UploadNext]_vars PROVE TypeInv'
    OBVIOUS
  <1>0. /\ meta \in [DocIds -> Rows \cup {None}]
        /\ objects \in [StorageKeys -> Contents \cup {None}]
        /\ ops \in [OpKeys -> Operations \cup {None}]
        /\ seq \in 0 .. MaxDoc
        /\ faults \in 0 .. MaxFaults
        /\ ureq \in [Callers -> Requests \cup {None}]
        /\ udoc \in [Callers -> DocIds \cup {None}]
        /\ uout \in [Callers -> Results]
        /\ calls \in 0 .. MaxCalls
        /\ settled \subseteq OpKeys \X DocIds
        /\ LocalOK
    BY DEF TypeInv, UploadTypeOK, StoresTypeOK
  <1> DEFINE Combined ==
        /\ meta' \in [DocIds -> Rows \cup {None}]
        /\ objects' \in [StorageKeys -> Contents \cup {None}]
        /\ ops' \in [OpKeys -> Operations \cup {None}]
        /\ seq' \in 0 .. MaxDoc
        /\ faults' \in 0 .. MaxFaults
        /\ ureq' \in [Callers -> Requests \cup {None}]
        /\ calls' \in 0 .. MaxCalls
        /\ settled' \subseteq OpKeys \X DocIds
        /\ ControlOK'
  <1>c. Combined => TypeInv'
    BY DEF ControlOK, TypeInv, UploadTypeOK, StoresTypeOK
  <1>1. ASSUME NEW c \in Callers, NEW r \in Requests, UploadDocument(c, r)
        PROVE  TypeInv'
    <2> DEFINE p == IF r.input = "invalid" THEN "idle"
                    ELSE IF r.doc = None THEN "allocate"
                    ELSE IF r.key = None THEN "exists" ELSE "claim"
    <2>1. /\ upc' = [upc EXCEPT ![c] = p]
          /\ udoc' = [udoc EXCEPT ![c] = r.doc]
          /\ ureq' = [ureq EXCEPT ![c] = r]
          /\ calls' \in 0 .. MaxCalls
          /\ reports' = reports
          /\ uout' \in [Callers -> Results]
      BY <1>0, <1>1, UploadAssumption
      DEF UploadDocument, Refused, AfterIdentifier, Results, TypeInv, UploadTypeOK
    <2>2. /\ upc' \in [Callers -> Points]
          /\ udoc' \in [Callers -> DocIds \cup {None}]
          /\ ureq' \in [Callers -> Requests \cup {None}]
      BY <1>0, <2>1, RequestType DEF Points, TypeInv, UploadTypeOK
    <2>3. ASSUME NEW e \in Callers
          PROVE  /\ upc'[e] # "idle" => ureq'[e] \in Requests
                 /\ upc'[e] \notin {"idle", "allocate"} => udoc'[e] \in DocIds
                 /\ upc'[e] \in KeyedPoints => ureq'[e].key # None
      <3>1. CASE e = c
        BY <1>0, <2>1, <3>1, RequestType
        DEF KeyedPoints, TypeInv, UploadTypeOK
      <3>2. CASE e # c
        BY <1>0, <2>1, <3>2
        DEF KeyedPoints, LocalOK, Keyed, TypeInv, UploadTypeOK
      <3> QED BY <3>1, <3>2
    <2>4. LocalOK'
      BY <2>3 DEF LocalOK, Keyed, KeyedPoints
    <2>5. ControlOK'
      BY <2>1, <2>2, <2>4 DEF ControlOK, TypeInv, UploadTypeOK
    <2> QED BY <1>0, <1>1, <1>c, <2>1, <2>2, <2>5 DEF UploadDocument, Refused, storeVars
  <1>2. ASSUME NEW c \in Callers, Allocate(c) PROVE TypeInv'
    <2>1. PICK d \in DocIds, o \in Replies :
             /\ AllocateDocumentId(d, o)
             /\ IF o = "ok"
                  THEN /\ udoc' = [udoc EXCEPT ![c] = d]
                       /\ Goto(c, AfterIdentifier(ureq[c]))
                  ELSE Return(c, "MetadataStoreError") /\ UNCHANGED udoc
      BY <1>2 DEF Allocate
    <2>2. upc[c] = "allocate" /\ ureq' = ureq
      BY <1>2 DEF Allocate
    <2>3. faults' \in 0 .. MaxFaults /\ seq' \in 0 .. MaxDoc
      BY <1>0, <2>1, AnswerType, BoundsAssumption
      DEF AllocateDocumentId, DocIds
    <2>4. ControlOK'
      <3>1. CASE o = "ok"
        BY <2>1, <2>2, <3>1, IdentifierControl
        DEF AfterIdentifier, Points, KeyedPoints, Keyed
      <3>2. CASE o # "ok"
        BY <2>1, <2>2, <3>2, ReturnControl DEF Results, Alarms
      <3> QED BY <3>1, <3>2
    <2> QED BY <1>0, <1>2, <1>c, <2>3, <2>4 DEF Allocate
  <1>3. ASSUME NEW c \in Callers, Claim(c) PROVE TypeInv'
    <2>1. PICK o \in Replies :
             /\ InsertOperation(OpKey(c), Fingerprint(ureq[c]), udoc[c], o)
             /\ IF o # "ok" THEN Return(c, "BackendError")
                ELSE Goto(c, IF ops[OpKey(c)] = None THEN "exists" ELSE "select")
      BY <1>3 DEF Claim
    <2>2. /\ upc[c] = "claim" /\ ureq' = ureq /\ udoc' = udoc
          /\ Keyed(c) /\ OpKey(c) \in OpKeys
          /\ ureq[c] \in Requests /\ udoc[c] \in DocIds
      BY <1>0, <1>3, CallerTypes DEF Claim, LocalOK
    <2>3. [fp |-> Fingerprint(ureq[c]), doc |-> udoc[c], state |-> "pending"]
             \in Operations
      BY <2>2, RequestType DEF Operations, UploadOperationState
    <2>4. ops' \in [OpKeys -> Operations \cup {None}]
      BY <1>0, <2>1, <2>2, <2>3 DEF InsertOperation
    <2>5. faults' \in 0 .. MaxFaults
      BY <1>0, <2>1, AnswerType DEF InsertOperation
    <2>6. ControlOK'
      <3>1. CASE o = "ok"
        BY <2>1, <2>2, <3>1, GotoControl DEF Points, KeyedPoints
      <3>2. CASE o # "ok"
        BY <2>1, <2>2, <3>2, ReturnControl DEF Results
      <3> QED BY <3>1, <3>2
    <2> QED BY <1>0, <1>3, <1>c, <2>4, <2>5, <2>6 DEF Claim
  <1>4. ASSUME NEW c \in Callers, Select(c) PROVE TypeInv'
    <2> DEFINE op == ops[OpKey(c)]
    <2>1. /\ upc[c] = "select" /\ ureq' = ureq /\ op # None
          /\ OpKey(c) \in OpKeys /\ Keyed(c)
      BY <1>0, <1>4, CallerTypes DEF Select, LocalOK
    <2>2. CASE Retake(c)
      BY <1>0, <1>4, <1>c, <2>1, <2>2, RetakeType DEF Select
    <2>3. ASSUME NEW e \in {"BackendError", "IdempotencyConflictError",
                             "IdempotencyInProgressError"},
                 Return(c, e), UNCHANGED <<ops, udoc>>,
                 faults' = faults \/ Answer("err")
          PROVE  TypeInv'
      <3>1. ControlOK'
        BY <2>1, <2>3, ReturnControl DEF Results
      <3>2. faults' \in 0 .. MaxFaults
        BY <1>0, <2>3, AnswerType
      <3> QED BY <1>0, <1>4, <1>c, <2>3, <3>1, <3>2 DEF Select
    <2>4. CASE udoc' = [udoc EXCEPT ![c] = op.doc] /\ Goto(c, "replay")
               /\ UNCHANGED <<ops, faults>>
      <3>1. op.doc \in DocIds
        BY <1>0, <2>1 DEF Operations
      <3>2. ControlOK'
        BY <2>1, <2>4, <3>1, IdentifierControl DEF Points, KeyedPoints
      <3> QED BY <1>0, <1>4, <1>c, <2>4, <3>2 DEF Select
    <2>5. CASE Goto(c, "reclaim") /\ UNCHANGED <<ops, udoc, faults>>
      <3>1. ControlOK'
        BY <2>1, <2>5, GotoControl DEF Points, KeyedPoints
      <3> QED BY <1>0, <1>4, <1>c, <2>5, <3>1 DEF Select
    <2> QED BY <1>4, <2>2, <2>3, <2>4, <2>5 DEF Select
  <1>5. ASSUME NEW c \in Callers, Reclaim(c) PROVE TypeInv'
    BY <1>0, <1>5, <1>c, RetakeType DEF Reclaim
  <1>6. ASSUME NEW c \in Callers, Replay(c) PROVE TypeInv'
    <2>1. PICK o \in ReadReplies :
             /\ Answer(o)
             /\ \/ Return(c, "Replayed") /\ Settle(c)
                \/ Return(c, "DocumentNotFoundError") /\ UNCHANGED settled
                \/ Return(c, "MetadataStoreError") /\ UNCHANGED settled
      BY <1>6 DEF Replay
    <2>2. /\ upc[c] = "replay" /\ ureq' = ureq /\ udoc' = udoc
          /\ OpKey(c) \in OpKeys /\ udoc[c] \in DocIds
      BY <1>0, <1>6, CallerTypes DEF Replay, LocalOK
    <2>3. ControlOK'
      BY <2>1, <2>2, ReturnControl DEF Results, Alarms
    <2>4. settled' \subseteq OpKeys \X DocIds
      BY <1>0, <2>1, <2>2 DEF Settle
    <2>5. faults' \in 0 .. MaxFaults
      BY <1>0, <2>1, AnswerType
    <2> QED BY <1>0, <1>6, <1>c, <2>3, <2>4, <2>5 DEF Replay
  <1>7. ASSUME NEW c \in Callers, CheckExists(c) PROVE TypeInv'
    <2>1. PICK o \in ReadReplies :
             /\ Answer(o)
             /\ \/ Raise(c, "BackendError")
                \/ Raise(c, "DuplicateDocumentError")
                \/ Goto(c, "put")
      BY <1>7 DEF CheckExists
    <2>2. upc[c] = "exists" /\ ureq' = ureq /\ udoc' = udoc
      BY <1>7 DEF CheckExists
    <2>3. ControlOK'
      <3>1. CASE Goto(c, "put")
        BY <2>2, <3>1, GotoControl DEF Points, KeyedPoints
      <3>2. CASE Raise(c, "BackendError") \/ Raise(c, "DuplicateDocumentError")
        BY <2>2, <3>2, RaiseControl DEF Results
      <3> QED BY <2>1, <3>1, <3>2
    <2>4. faults' \in 0 .. MaxFaults
      BY <1>0, <2>1, AnswerType
    <2> QED BY <1>0, <1>7, <1>c, <2>3, <2>4 DEF CheckExists
  <1>8. ASSUME NEW c \in Callers, Put(c) PROVE TypeInv'
    <2>1. PICK o \in Replies :
             /\ PutObject(BuildStorageKey(c), ureq[c].content, o)
             /\ \/ Raise(c, "StorageError")
                \/ /\ upc' = [upc EXCEPT ![c] = "rollback"]
                   /\ uout' = [uout EXCEPT ![c] = "ValidationError"]
                   /\ UNCHANGED reports
                \/ Goto(c, "save")
      BY <1>8 DEF Put, EndsEarly
    <2>2. /\ upc[c] = "put" /\ ureq' = ureq /\ udoc' = udoc
          /\ BuildStorageKey(c) \in StorageKeys
          /\ ureq[c].content \in Contents
      BY <1>0, <1>8, CallerTypes, RequestType DEF Put, EndsEarly
    <2>3. ControlOK'
      <3>1. CASE Goto(c, "save")
        BY <2>2, <3>1, GotoControl DEF Points, KeyedPoints
      <3>2. CASE Raise(c, "StorageError")
        BY <2>2, <3>2, RaiseControl DEF Results, Alarms
      <3>3. CASE /\ upc' = [upc EXCEPT ![c] = "rollback"]
                 /\ uout' = [uout EXCEPT ![c] = "ValidationError"]
                 /\ UNCHANGED reports
        BY <2>2, <3>3, RollbackControl DEF Results
      <3> QED BY <2>1, <3>1, <3>2, <3>3
    <2>4. objects' \in [StorageKeys -> Contents \cup {None}]
      BY <1>0, <2>1, <2>2 DEF PutObject
    <2>5. faults' \in 0 .. MaxFaults
      BY <1>0, <2>1, AnswerType DEF PutObject
    <2> QED BY <1>0, <1>8, <1>c, <2>3, <2>4, <2>5 DEF Put, EndsEarly
  <1>9. ASSUME NEW c \in Callers, Save(c) PROVE TypeInv'
    <2>1. PICK o \in Replies :
             /\ SaveMetadata(udoc[c], NewRow(c), o)
             /\ (Keyed(c) /\ Settle(c)) \/ UNCHANGED settled
             /\ \/ Keyed(c) /\ Goto(c, "mark_succeeded")
                \/ Return(c, "Created")
                \/ /\ upc' = [upc EXCEPT ![c] = "rollback"]
                   /\ uout' = [uout EXCEPT ![c] =
                                 IF o = "ok" THEN "DuplicateDocumentError"
                                             ELSE "ConsistencyError"]
                   /\ UNCHANGED reports
      BY <1>9 DEF Save
    <2>2. /\ upc[c] = "save" /\ ureq' = ureq /\ udoc' = udoc
          /\ NewRow(c) \in Rows /\ udoc[c] \in DocIds
          /\ Keyed(c) => OpKey(c) \in OpKeys
      BY <1>0, <1>9, CallerTypes DEF Save
    <2>3. ControlOK'
      <3>1. CASE Keyed(c) /\ Goto(c, "mark_succeeded")
        BY <2>2, <3>1, GotoControl DEF Points, KeyedPoints
      <3>2. CASE Return(c, "Created")
        BY <2>2, <3>2, ReturnControl DEF Results, Alarms
      <3>3. CASE /\ upc' = [upc EXCEPT ![c] = "rollback"]
                 /\ uout' = [uout EXCEPT ![c] =
                               IF o = "ok" THEN "DuplicateDocumentError"
                                           ELSE "ConsistencyError"]
                 /\ UNCHANGED reports
        BY <2>2, <3>3, RollbackControl DEF Results, Alarms
      <3> QED BY <2>1, <3>1, <3>2, <3>3
    <2>4. meta' \in [DocIds -> Rows \cup {None}]
      BY <1>0, <2>1, <2>2 DEF SaveMetadata
    <2>5. settled' \subseteq OpKeys \X DocIds
      BY <1>0, <2>1, <2>2 DEF Settle
    <2>6. faults' \in 0 .. MaxFaults
      BY <1>0, <2>1, AnswerType DEF SaveMetadata
    <2> QED BY <1>0, <1>9, <1>c, <2>3, <2>4, <2>5, <2>6 DEF Save
  <1>10. ASSUME NEW c \in Callers, Rollback(c) PROVE TypeInv'
    <2>1. PICK o \in Replies :
             /\ DeleteObject(BuildStorageKey(c), o)
             /\ Raise(c, IF o = "ok" THEN uout[c] ELSE "ConsistencyError")
      BY <1>10 DEF Rollback
    <2>2. /\ upc[c] = "rollback" /\ ureq' = ureq /\ udoc' = udoc
          /\ BuildStorageKey(c) \in StorageKeys
      BY <1>10, CallerTypes DEF Rollback
    <2>3. ControlOK'
      BY <1>0, <2>1, <2>2, RaiseControl DEF Results, Alarms
    <2>4. objects' \in [StorageKeys -> Contents \cup {None}]
      BY <1>0, <2>1, <2>2 DEF DeleteObject
    <2>5. faults' \in 0 .. MaxFaults
      BY <1>0, <2>1, AnswerType DEF DeleteObject
    <2> QED BY <1>0, <1>10, <1>c, <2>3, <2>4, <2>5 DEF Rollback
  <1>11. ASSUME NEW c \in Callers, MarkSucceeded(c) PROVE TypeInv'
    <2>1. PICK o \in Replies :
             /\ MoveOperation(OpKey(c), "pending", "succeeded", o)
             /\ Return(c, "Created") \/ Raise(c, "BackendError")
      BY <1>11 DEF MarkSucceeded, MarkOperation
    <2>2. /\ upc[c] = "mark_succeeded" /\ ureq' = ureq /\ udoc' = udoc
          /\ OpKey(c) \in OpKeys
      BY <1>0, <1>11, CallerTypes DEF MarkSucceeded, LocalOK
    <2>3. ControlOK'
      BY <2>1, <2>2, ReturnControl, RaiseControl DEF Results, Alarms
    <2>4. ops' \in [OpKeys -> Operations \cup {None}]
      BY <1>0, <2>1, <2>2, MoveOperationType DEF UploadOperationState
    <2>5. faults' \in 0 .. MaxFaults
      BY <1>0, <2>1, AnswerType DEF MoveOperation
    <2> QED BY <1>0, <1>11, <1>c, <2>3, <2>4, <2>5 DEF MarkSucceeded
  <1>12. ASSUME NEW c \in Callers, MarkFailed(c) PROVE TypeInv'
    <2>1. PICK o \in Replies : MoveOperation(OpKey(c), "pending", "failed", o)
      BY <1>12 DEF MarkFailed, MarkOperation
    <2>2. /\ upc[c] = "mark_failed" /\ ureq' = ureq /\ udoc' = udoc
          /\ OpKey(c) \in OpKeys /\ Return(c, uout[c])
      BY <1>0, <1>12, CallerTypes DEF MarkFailed, LocalOK
    <2>3. ControlOK'
      BY <1>0, <2>2, ReturnControl
    <2>4. ops' \in [OpKeys -> Operations \cup {None}]
      BY <1>0, <2>1, <2>2, MoveOperationType DEF UploadOperationState
    <2>5. faults' \in 0 .. MaxFaults
      BY <1>0, <2>1, AnswerType DEF MoveOperation
    <2> QED BY <1>0, <1>12, <1>c, <2>3, <2>4, <2>5 DEF MarkFailed
  <1>13. ASSUME NEW c \in Callers, Crash(c) PROVE TypeInv'
    <2>1. /\ upc[c] # "idle" /\ ureq' = ureq /\ udoc' = udoc
          /\ upc' = [upc EXCEPT ![c] = "idle"]
          /\ uout' = [uout EXCEPT ![c] = "Crashed"]
      BY <1>13 DEF Crash
    <2>2. reports' \subseteq StorageKeys \X Alarms
      BY <1>13, CallerTypes DEF Crash, TypeInv, UploadTypeOK, Alarms
    <2>3. LocalOK'
      BY <2>1, LocalMove DEF Points, KeyedPoints
    <2>4. ControlOK'
      BY <1>0, <2>1, <2>2, <2>3
      DEF ControlOK, TypeInv, UploadTypeOK, Points, Results, Alarms
    <2>5. faults' \in 0 .. MaxFaults
      BY <1>0, <1>13, AnswerType DEF Crash, Die
    <2> QED BY <1>0, <1>13, <1>c, <2>4, <2>5 DEF Crash, Die
  <1>14. CASE UNCHANGED vars
    BY <1>0, <1>14
    DEF TypeInv, UploadTypeOK, StoresTypeOK, LocalOK, Keyed,
        vars, storeVars, uploadVars
  <1> QED
    BY <1>1, <1>2, <1>3, <1>4, <1>5, <1>6, <1>7, <1>8, <1>9, <1>10, <1>11,
       <1>12, <1>13, <1>14
    DEF UploadNext, UploadStep

(***************************************************************************)
(* TypeOK holds in every reachable state of the upload service, for all    *)
(* callers, requests, stores and bounds.                                   *)
(***************************************************************************)
THEOREM TypeCorrect == Spec => []TypeOK
  <1>1. TypeInv => TypeOK BY DEF TypeInv
  <1> QED BY TypeInit, TypeStep, <1>1, PTL DEF Spec

-----------------------------------------------------------------------------
(* Whom a step concerns; shared by the proofs about the stores. *)

(* The step is one of caller c: the other callers' variables stay. *)
Alone(c) ==
    \A e \in Callers \ {c} : /\ upc'[e] = upc[e]
                             /\ ureq'[e] = ureq[e]
                             /\ udoc'[e] = udoc[e]
                             /\ uout'[e] = uout[e]

RowsKept == \A d \in DocIds : meta[d] # None => meta'[d] = meta[d]

LEMMA ReturnAlone ==
    ASSUME TypeInv, NEW c \in Callers, NEW res, Return(c, res)
    PROVE  /\ upc'[c] = "idle" /\ uout'[c] = res
           /\ \A e \in Callers \ {c} : upc'[e] = upc[e] /\ uout'[e] = uout[e]
  BY DEF Return, TypeInv, UploadTypeOK

LEMMA RaiseAlone ==
    ASSUME TypeInv, NEW c \in Callers, NEW e, Raise(c, e)
    PROVE  /\ uout'[c] = e
           /\ upc'[c] = IF Keyed(c) THEN "mark_failed" ELSE "idle"
           /\ \A d \in Callers \ {c} : upc'[d] = upc[d] /\ uout'[d] = uout[d]
  BY ReturnAlone DEF Raise, TypeInv, UploadTypeOK

LEMMA GotoAlone ==
    ASSUME TypeInv, NEW c \in Callers, NEW p, Goto(c, p)
    PROVE  /\ upc'[c] = p /\ uout' = uout
           /\ \A e \in Callers \ {c} : upc'[e] = upc[e] /\ uout'[e] = uout[e]
  BY DEF Goto, TypeInv, UploadTypeOK

-----------------------------------------------------------------------------
(* Idempotency of keyed registrations, on stores with and without row locks. *)

Record(c) == ops[OpKey(c)]

(***************************************************************************)
(* What a caller may rely on at each point.  The holder of a claim works   *)
(* under the operation's own identifier and request, and nobody else moves *)
(* the operation: it is pending until the holder marks it.  At             *)
(* "mark_failed" it may be succeeded already (mark_succeeded took effect   *)
(* and its reply was lost), but never failed, so it cannot be retaken.     *)
(***************************************************************************)
CallerInv(c) ==
    /\ HoldsClaim(c) =>
          /\ Record(c) # None
          /\ Record(c).doc = udoc[c]
          /\ Record(c).fp = Fingerprint(ureq[c])
          /\ IF upc[c] = "mark_failed" THEN Record(c).state # "failed"
                                       ELSE Record(c).state = "pending"
    /\ upc[c] = "mark_succeeded" => RegisteredFrom(udoc[c], ureq[c])
    /\ upc[c] = "reclaim" => /\ Record(c) # None
                             /\ Record(c).fp = Fingerprint(ureq[c])
    /\ upc[c] = "replay" => /\ Record(c) # None
                            /\ Record(c).state = "succeeded"
                            /\ Record(c).doc = udoc[c]
                            /\ Record(c).fp = Fingerprint(ureq[c])
    /\ upc[c] = "idle" /\ uout[c] \in {"Created", "Replayed"} =>
          udoc[c] \in DocIds /\ RegisteredFrom(udoc[c], ureq[c])
    /\ upc[c] # "idle" => uout[c] \notin {"Created", "Replayed"}

SucceededInv ==
    \A k \in OpKeys : InState(k, "succeeded") =>
       RegisteredFrom(ops[k].doc, ops[k].fp)

SettledInv ==
    \A s \in settled : ops[s[1]] # None /\ ops[s[1]].doc = s[2]

IdemInv ==
    /\ \A c \in Callers : CallerInv(c)
    /\ SucceededInv
    /\ SettledInv
    /\ ClaimOwnership

-----------------------------------------------------------------------------
(* What a step leaves alone *)

OpsKept ==
    \A k \in OpKeys : ops[k] # None => /\ ops'[k] # None
                                      /\ ops'[k].doc = ops[k].doc
                                      /\ ops'[k].fp = ops[k].fp

(* Operations other callers hold or replay do not move. *)
OthersKept(c) ==
    \A e \in Callers \ {c} :
       HoldsClaim(e) \/ upc[e] = "replay" => ops'[OpKey(e)] = ops[OpKey(e)]

(* A caller that comes to hold a claim finds it without a holder. *)
NoRival(c) ==
    HoldsClaim(c)' =>
       \/ HoldsClaim(c)
       \/ \A e \in Callers \ {c} : HoldsClaim(e) => OpKey(e) # OpKey(c)'

LEMMA OtherCaller ==
    ASSUME TypeInv, IdemInv, NEW c \in Callers, NEW e \in Callers \ {c},
           Alone(c), RowsKept, OpsKept, OthersKept(c)
    PROVE  CallerInv(e)'
  <1>1. /\ upc'[e] = upc[e] /\ ureq'[e] = ureq[e]
        /\ udoc'[e] = udoc[e] /\ uout'[e] = uout[e]
    BY DEF Alone
  <1>2. CallerInv(e)
    BY DEF IdemInv
  <1>3. HoldsClaim(e)' <=> HoldsClaim(e)
    BY <1>1 DEF HoldsClaim, Keyed
  <1>4. OpKey(e)' = OpKey(e)
    BY <1>1 DEF OpKey
  <1>5. HoldsClaim(e) \/ upc[e] \in {"replay", "reclaim"} => OpKey(e) \in OpKeys
    BY CallerTypes DEF TypeInv, LocalOK, HoldsClaim, ClaimedPoints
  <1>6. udoc[e] \in DocIds /\ RegisteredFrom(udoc[e], ureq[e])
           => RegisteredFrom(udoc[e], ureq[e])'
    BY <1>1 DEF RegisteredFrom, RowsKept
  <1>7. upc[e] = "mark_succeeded" => udoc[e] \in DocIds
    BY CallerTypes
  <1>8. HoldsClaim(e) \/ upc[e] \in {"replay", "reclaim"} =>
           (Record(e) # None => /\ Record(e)' # None
                                /\ Record(e)'.doc = Record(e).doc
                                /\ Record(e)'.fp = Record(e).fp)
    BY <1>4, <1>5 DEF OpsKept, Record
  <1>9. HoldsClaim(e) \/ upc[e] = "replay" => Record(e)' = Record(e)
    BY <1>4 DEF OthersKept, Record
  <1>10. Fingerprint(ureq[e])' = Fingerprint(ureq[e])
    BY <1>1 DEF Fingerprint
  <1> QED
    BY <1>1, <1>2, <1>3, <1>6, <1>7, <1>8, <1>9, <1>10 DEF CallerInv

(* What remains to be shown of a step of caller c. *)
LEMMA StepInv ==
    ASSUME TypeInv, IdemInv, NEW c \in Callers,
           Alone(c), RowsKept, OpsKept, OthersKept(c), NoRival(c),
           HoldsClaim(c) => OpKey(c)' = OpKey(c),
           CallerInv(c)', SucceededInv', SettledInv'
    PROVE  IdemInv'
  <1>1. ASSUME NEW e \in Callers PROVE CallerInv(e)'
    BY OtherCaller
  <1>2. \A e \in Callers \ {c} :
           (HoldsClaim(e)' <=> HoldsClaim(e)) /\ OpKey(e)' = OpKey(e)
    BY DEF Alone, HoldsClaim, Keyed, OpKey
  <1>3. \A e \in Callers \ {c} :
           HoldsClaim(c)' /\ HoldsClaim(e)' => OpKey(e)' # OpKey(c)'
    BY <1>2 DEF IdemInv, ClaimOwnership, NoRival
  <1>4. ClaimOwnership'
    BY <1>2, <1>3 DEF IdemInv, ClaimOwnership
  <1> QED BY <1>1, <1>4 DEF IdemInv

(* A step that leaves rows and operations alone. *)
LEMMA QuietStep ==
    ASSUME TypeInv, IdemInv, NEW c \in Callers, Alone(c),
           meta' = meta, ops' = ops, HoldsClaim(c)' => HoldsClaim(c),
           HoldsClaim(c) => OpKey(c)' = OpKey(c),
           CallerInv(c)', SettledInv'
    PROVE  IdemInv'
  <1>1. RowsKept /\ OpsKept /\ OthersKept(c) /\ NoRival(c)
    BY DEF RowsKept, OpsKept, OthersKept, NoRival
  <1>2. SucceededInv'
    BY DEF IdemInv, SucceededInv, InState, RegisteredFrom
  <1> QED BY <1>1, <1>2, StepInv

(* UPDATE ... WHERE state = from touches one operation's state. *)
LEMMA MoveOperationKept ==
    ASSUME TypeInv, NEW k \in OpKeys,
           NEW from \in UploadOperationState, NEW to \in UploadOperationState,
           NEW o, MoveOperation(k, from, to, o)
    PROVE  /\ OpsKept
           /\ \A j \in OpKeys \ {k} : ops'[j] = ops[j]
           /\ Applied(o) /\ InState(k, from) => ops'[k].state = to
           /\ ~(Applied(o) /\ InState(k, from)) => ops'[k] = ops[k]
  <1>1. /\ ops \in [OpKeys -> Operations \cup {None}]
        /\ ops' = IF Applied(o) /\ InState(k, from)
                    THEN [ops EXCEPT ![k].state = to] ELSE ops
    BY DEF TypeInv, UploadTypeOK, StoresTypeOK, MoveOperation
  <1>2. CASE Applied(o) /\ InState(k, from)
    <2>1. ops[k] \in Operations
      BY <1>1, <1>2 DEF InState
    <2>2. /\ ops'[k] = [ops[k] EXCEPT !.state = to]
          /\ \A j \in OpKeys \ {k} : ops'[j] = ops[j]
      BY <1>1, <1>2
    <2>3. /\ ops'[k].doc = ops[k].doc /\ ops'[k].fp = ops[k].fp
          /\ ops'[k].state = to
      BY <2>1, <2>2 DEF Operations
    <2>4. ops'[k] # None
      <3>1. ops'[k] \in Operations
        BY <2>1, <2>2 DEF Operations
      <3> QED BY <3>1, NoneAssumption
    <2> QED BY <1>2, <2>2, <2>3, <2>4 DEF OpsKept
  <1>3. CASE ~(Applied(o) /\ InState(k, from))
    BY <1>1, <1>3 DEF OpsKept
  <1> QED BY <1>2, <1>3

-----------------------------------------------------------------------------
(* The actions *)

(* While a call is running it has no result. *)
LEMMA NoResultYet ==
    ASSUME IdemInv, NEW c \in Callers, upc[c] # "idle"
    PROVE  uout[c] \notin {"Created", "Replayed"}
  BY DEF IdemInv, CallerInv

LEMMA IdemUploadDocument ==
    ASSUME TypeInv, IdemInv, NEW c \in Callers, NEW r \in Requests,
           UploadDocument(c, r)
    PROVE  IdemInv'
  <1>1. /\ upc[c] = "idle" /\ upc'[c] \in {"idle", "allocate", "exists", "claim"}
        /\ upc'[c] = "exists" => ureq'[c].key = None
        /\ uout'[c] \in {"None", "ValidationError"}
        /\ Alone(c) /\ meta' = meta /\ ops' = ops /\ settled' = settled
    BY DEF UploadDocument, Refused, AfterIdentifier, Alone, storeVars,
           TypeInv, UploadTypeOK
  <1>2. ~HoldsClaim(c) /\ ~HoldsClaim(c)'
    BY <1>1 DEF HoldsClaim, ClaimedPoints, Keyed
  <1>3. CallerInv(c)'
    BY <1>1, <1>2 DEF CallerInv
  <1>4. SettledInv'
    BY <1>1 DEF IdemInv, SettledInv
  <1> QED BY <1>1, <1>2, <1>3, <1>4, QuietStep

(* A step that ends a call without a result, holding no claim. *)
LEMMA IdemRefused ==
    ASSUME TypeInv, IdemInv, NEW c \in Callers,
           NEW e \in Results \ {"Created", "Replayed"}, Return(c, e),
           meta' = meta, ops' = ops, ureq' = ureq, settled' = settled,
           \A d \in Callers \ {c} : udoc'[d] = udoc[d]
    PROVE  IdemInv'
  <1>1. Alone(c) /\ upc'[c] = "idle" /\ uout'[c] = e
    BY ReturnAlone DEF Alone
  <1>2. CallerInv(c)' /\ ~HoldsClaim(c)'
    BY <1>1 DEF CallerInv, HoldsClaim, ClaimedPoints
  <1>3. OpKey(c)' = OpKey(c) /\ SettledInv'
    BY DEF OpKey, IdemInv, SettledInv
  <1> QED BY <1>1, <1>2, <1>3, QuietStep

(* A step of a claim's holder on its way, raising included. *)
LEMMA IdemOnward ==
    ASSUME TypeInv, IdemInv, NEW c \in Callers,
           upc[c] \in {"exists", "put", "save", "rollback"},
           \/ \E p \in {"put", "save"} : Goto(c, p)
           \/ \E e \in Results \ {"Created", "Replayed"} : Raise(c, e)
           \/ /\ upc' = [upc EXCEPT ![c] = "rollback"]
              /\ \E e \in Results \ {"Created", "Replayed"} :
                    uout' = [uout EXCEPT ![c] = e],
           meta' = meta, ops' = ops, ureq' = ureq, udoc' = udoc,
           settled' = settled
    PROVE  IdemInv'
  <1>1. /\ Alone(c)
        /\ \/ upc'[c] \in {"put", "save", "rollback"}
           \/ upc'[c] = "mark_failed" /\ Keyed(c)
           \/ upc'[c] = "idle"
        /\ uout'[c] \notin {"Created", "Replayed"}
    <2>1. CASE \E p \in {"put", "save"} : Goto(c, p)
      BY <2>1, GotoAlone, NoResultYet DEF Alone
    <2>2. CASE \E e \in Results \ {"Created", "Replayed"} : Raise(c, e)
      BY <2>2, RaiseAlone DEF Alone
    <2>3. CASE /\ upc' = [upc EXCEPT ![c] = "rollback"]
               /\ \E e \in Results \ {"Created", "Replayed"} :
                     uout' = [uout EXCEPT ![c] = e]
      BY <2>3 DEF Alone, TypeInv, UploadTypeOK
    <2> QED BY <2>1, <2>2, <2>3
  <1>2. HoldsClaim(c) <=> Keyed(c)
    BY DEF HoldsClaim, ClaimedPoints
  <1>3. HoldsClaim(c)' => Keyed(c)
    BY DEF HoldsClaim, Keyed
  <1>4. OpKey(c)' = OpKey(c) /\ SettledInv'
    BY DEF OpKey, IdemInv, SettledInv
  <1>5. CallerInv(c)'
    <2>1. CallerInv(c) BY DEF IdemInv
    <2>2. Record(c)' = Record(c) /\ Fingerprint(ureq[c])' = Fingerprint(ureq[c])
      BY <1>4 DEF Record, Fingerprint
    <2> QED BY <1>1, <1>2, <1>3, <2>1, <2>2 DEF CallerInv
  <1> QED BY <1>1, <1>2, <1>3, <1>4, <1>5, QuietStep

LEMMA IdemAllocate ==
    ASSUME TypeInv, IdemInv, NEW c \in Callers, Allocate(c)
    PROVE  IdemInv'
  <1>1. PICK d \in DocIds, o \in Replies :
           IF o = "ok" THEN /\ udoc' = [udoc EXCEPT ![c] = d]
                            /\ Goto(c, AfterIdentifier(ureq[c]))
                       ELSE Return(c, "MetadataStoreError") /\ UNCHANGED udoc
    BY DEF Allocate
  <1>2. /\ upc[c] = "allocate" /\ ureq' = ureq /\ meta' = meta /\ ops' = ops
        /\ settled' = settled
    BY DEF Allocate
  <1>3. CASE o = "ok"
    <2>1. /\ Alone(c)
          /\ upc'[c] \in {"exists", "claim"}
          /\ upc'[c] = "exists" => ureq[c].key = None
          /\ uout'[c] \notin {"Created", "Replayed"}
      BY <1>1, <1>2, <1>3, GotoAlone, NoResultYet
      DEF AfterIdentifier, Alone, TypeInv, UploadTypeOK
    <2>2. ~HoldsClaim(c)'
      BY <1>2, <2>1 DEF HoldsClaim, ClaimedPoints, Keyed
    <2>3. CallerInv(c)'
      BY <2>1, <2>2 DEF CallerInv
    <2>4. OpKey(c)' = OpKey(c) /\ SettledInv'
      BY <1>2 DEF OpKey, IdemInv, SettledInv
    <2> QED BY <1>2, <2>1, <2>2, <2>3, <2>4, QuietStep
  <1>4. CASE o # "ok"
    BY <1>1, <1>2, <1>4, IdemRefused DEF Results
  <1> QED BY <1>3, <1>4

(* The INSERT of a claim: whoever holds the claim after it made the        *)
(* operation, so nobody else holds it.                                     *)
LEMMA IdemInsert ==
    ASSUME TypeInv, IdemInv, NEW c \in Callers, upc[c] = "claim",
           NEW o \in Replies,
           InsertOperation(OpKey(c), Fingerprint(ureq[c]), udoc[c], o),
           HoldsClaim(c)' => /\ o = "ok" /\ ops[OpKey(c)] = None
                             /\ upc'[c] = "exists",
           upc'[c] \in {"exists", "select", "idle"},
           uout'[c] \notin {"Created", "Replayed"}, Alone(c),
           meta' = meta, ureq' = ureq, udoc' = udoc, settled' = settled
    PROVE  IdemInv'
  <1> DEFINE k == OpKey(c)
             new == [fp |-> Fingerprint(ureq[c]), doc |-> udoc[c],
                     state |-> "pending"]
  <1>1. /\ k \in OpKeys /\ k' = k /\ ureq[c] \in Requests /\ udoc[c] \in DocIds
    BY CallerTypes DEF TypeInv, LocalOK, OpKey
  <1>2. /\ new \in Operations
        /\ new # None /\ new.fp = Fingerprint(ureq[c]) /\ new.doc = udoc[c]
        /\ new.state = "pending"
    <2>1. new \in Operations
      BY <1>1, RequestType DEF Operations, UploadOperationState
    <2> QED BY <2>1, NoneAssumption
  <1>3. /\ \A j \in OpKeys \ {k} : ops'[j] = ops[j]
        /\ ops'[k] = IF ops[k] = None /\ Applied(o) THEN new ELSE ops[k]
    BY <1>1 DEF InsertOperation, TypeInv, UploadTypeOK, StoresTypeOK
  <1>4. RowsKept /\ OpsKept
    BY <1>3 DEF RowsKept, OpsKept
  <1>5. \A e \in Callers \ {c} :
           HoldsClaim(e) \/ upc[e] = "replay" =>
              OpKey(e) \in OpKeys /\ ops[OpKey(e)] # None
    BY CallerTypes
    DEF IdemInv, CallerInv, Record, HoldsClaim, ClaimedPoints, TypeInv, LocalOK
  <1>6. OthersKept(c)
    BY <1>3, <1>5 DEF OthersKept
  <1>7. NoRival(c) /\ ~HoldsClaim(c)
    BY <1>1, <1>5 DEF NoRival, HoldsClaim, ClaimedPoints
  <1>8. CallerInv(c)'
    <2>1. HoldsClaim(c)' => ops'[k] = new /\ upc'[c] = "exists"
      BY <1>3 DEF Applied
    <2> QED BY <1>1, <1>2, <2>1 DEF CallerInv, Record, Fingerprint
  <1>9. SucceededInv'
    BY <1>1, <1>2, <1>3 DEF IdemInv, SucceededInv, InState, RegisteredFrom
  <1>10. SettledInv'
    BY <1>4 DEF IdemInv, SettledInv, OpsKept, TypeInv, UploadTypeOK
  <1> QED
    BY <1>1, <1>4, <1>6, <1>7, <1>8, <1>9, <1>10, StepInv

LEMMA IdemClaim ==
    ASSUME TypeInv, IdemInv, NEW c \in Callers, Claim(c)
    PROVE  IdemInv'
  <1>1. PICK o \in Replies :
           /\ InsertOperation(OpKey(c), Fingerprint(ureq[c]), udoc[c], o)
           /\ IF o # "ok" THEN Return(c, "BackendError")
              ELSE Goto(c, IF ops[OpKey(c)] = None THEN "exists" ELSE "select")
    BY DEF Claim
  <1>2. /\ upc[c] = "claim" /\ ureq' = ureq /\ udoc' = udoc /\ meta' = meta
        /\ settled' = settled
    BY DEF Claim
  <1>3. HoldsClaim(c)' => /\ o = "ok" /\ ops[OpKey(c)] = None
                          /\ upc'[c] = "exists"
    BY <1>1, GotoAlone, ReturnAlone DEF HoldsClaim, ClaimedPoints
  <1>4. /\ upc'[c] \in {"exists", "select", "idle"} /\ Alone(c)
        /\ uout'[c] \notin {"Created", "Replayed"}
    BY <1>1, <1>2, GotoAlone, ReturnAlone, NoResultYet DEF Alone
  <1> QED BY <1>1, <1>2, <1>3, <1>4, IdemInsert

(* A failed operation has no holder, so retaking it makes no rival. *)
LEMMA IdemMoveBack ==
    ASSUME TypeInv, IdemInv, NEW c \in Callers,
           upc[c] \in {"select", "reclaim"}, NEW o \in Replies,
           MoveOperation(OpKey(c), "failed", "pending", o),
           Record(c).fp = Fingerprint(ureq[c]),
           \/ /\ o = "ok" /\ InState(OpKey(c), "failed")
              /\ upc'[c] = "exists" /\ udoc'[c] = Record(c).doc
           \/ upc'[c] = "idle",
           uout'[c] \notin {"Created", "Replayed"}, Alone(c),
           meta' = meta, ureq' = ureq, settled' = settled
    PROVE  IdemInv'
  <1> DEFINE k == OpKey(c)
  <1>1. k \in OpKeys /\ k' = k
    BY CallerTypes DEF TypeInv, LocalOK, OpKey
  <1>2. /\ OpsKept
        /\ \A j \in OpKeys \ {k} : ops'[j] = ops[j]
        /\ Applied(o) /\ InState(k, "failed") => ops'[k].state = "pending"
        /\ ~(Applied(o) /\ InState(k, "failed")) => ops'[k] = ops[k]
    BY <1>1, MoveOperationKept DEF UploadOperationState
  <1>3. ASSUME NEW e \in Callers \ {c}, HoldsClaim(e) \/ upc[e] = "replay"
        PROVE  /\ OpKey(e) \in OpKeys
               /\ InState(k, "failed") => OpKey(e) # k
    <2>1. OpKey(e) \in OpKeys
      BY <1>3, CallerTypes DEF TypeInv, LocalOK, HoldsClaim, ClaimedPoints
    <2>2. Record(e).state # "failed"
      BY <1>3 DEF IdemInv, CallerInv
    <2> QED BY <2>1, <2>2 DEF InState, Record
  <1>4. OthersKept(c)
    BY <1>2, <1>3 DEF OthersKept
  <1>5. RowsKept /\ ~HoldsClaim(c)
    BY DEF RowsKept, HoldsClaim, ClaimedPoints
  <1>6. NoRival(c)
    BY <1>1, <1>3 DEF NoRival, HoldsClaim, ClaimedPoints
  <1>7. CallerInv(c)'
    <2>1. CASE upc'[c] = "idle"
      BY <2>1 DEF CallerInv, HoldsClaim, ClaimedPoints
    <2>2. CASE /\ o = "ok" /\ InState(k, "failed")
               /\ upc'[c] = "exists" /\ udoc'[c] = Record(c).doc
      <3>1. /\ Record(c)' # None /\ Record(c)'.state = "pending"
            /\ Record(c)'.doc = udoc'[c]
            /\ Record(c)'.fp = Fingerprint(ureq[c])'
        BY <1>1, <1>2, <2>2
        DEF Record, OpsKept, InState, Applied, Fingerprint
      <3> QED BY <2>2, <3>1 DEF CallerInv
    <2> QED BY <2>1, <2>2
  <1>8. SucceededInv'
    BY <1>1, <1>2 DEF IdemInv, SucceededInv, InState, RegisteredFrom
  <1>9. SettledInv'
    BY <1>2 DEF IdemInv, SettledInv, OpsKept, TypeInv, UploadTypeOK
  <1> QED
    BY <1>1, <1>2, <1>4, <1>5, <1>6, <1>7, <1>8, <1>9, StepInv

LEMMA IdemRetake ==
    ASSUME TypeInv, IdemInv, NEW c \in Callers,
           upc[c] \in {"select", "reclaim"}, Retake(c),
           Record(c).fp = Fingerprint(ureq[c]),
           meta' = meta, ureq' = ureq, settled' = settled
    PROVE  IdemInv'
  <1>1. PICK o \in Replies :
           /\ MoveOperation(OpKey(c), "failed", "pending", o)
           /\ \/ o = "ok" /\ InState(OpKey(c), "failed") /\ Reuse(c)
              \/ \E e \in {"IdempotencyInProgressError", "BackendError"} :
                    Return(c, e) /\ udoc' = udoc
    BY DEF Retake
  <1>2. CASE o = "ok" /\ InState(OpKey(c), "failed") /\ Reuse(c)
    <2>1. /\ Alone(c) /\ upc'[c] = "exists" /\ udoc'[c] = Record(c).doc
          /\ uout'[c] \notin {"Created", "Replayed"}
      BY <1>2, GotoAlone, NoResultYet
      DEF Reuse, Record, Alone, TypeInv, UploadTypeOK
    <2> QED BY <1>1, <1>2, <2>1, IdemMoveBack
  <1>3. ASSUME NEW e \in {"IdempotencyInProgressError", "BackendError"},
               Return(c, e), udoc' = udoc
        PROVE  IdemInv'
    <2>1. Alone(c) /\ upc'[c] = "idle" /\ uout'[c] = e
      BY <1>3, ReturnAlone DEF Alone
    <2> QED BY <1>1, <2>1, IdemMoveBack
  <1> QED BY <1>1, <1>2, <1>3

LEMMA IdemSelect ==
    ASSUME TypeInv, IdemInv, NEW c \in Callers, Select(c)
    PROVE  IdemInv'
  <1> DEFINE op == ops[OpKey(c)]
  <1>1. /\ upc[c] = "select" /\ op # None /\ meta' = meta /\ ureq' = ureq
        /\ settled' = settled /\ OpKey(c)' = OpKey(c)
    BY DEF Select, OpKey
  <1>2. ASSUME NEW e \in {"BackendError", "IdempotencyConflictError",
                          "IdempotencyInProgressError"},
               Return(c, e), UNCHANGED <<ops, udoc>>
        PROVE  IdemInv'
    BY <1>1, <1>2, IdemRefused DEF Results
  <1>3. CASE op.fp = Fingerprint(ureq[c]) /\ Retake(c)
    BY <1>1, <1>3, IdemRetake DEF Record
  <1>4. CASE /\ op.fp = Fingerprint(ureq[c]) /\ op.state = "succeeded"
             /\ udoc' = [udoc EXCEPT ![c] = op.doc]
             /\ Goto(c, "replay") /\ ops' = ops
    <2>1. /\ Alone(c) /\ upc'[c] = "replay" /\ udoc'[c] = op.doc
          /\ uout'[c] \notin {"Created", "Replayed"}
      BY <1>1, <1>4, GotoAlone, NoResultYet DEF Alone, TypeInv, UploadTypeOK
    <2>2. CallerInv(c)' /\ ~HoldsClaim(c)'
      BY <1>1, <1>4, <2>1
      DEF CallerInv, HoldsClaim, ClaimedPoints, Record, Fingerprint
    <2>3. SettledInv'
      BY <1>1, <1>4 DEF IdemInv, SettledInv
    <2> QED BY <1>1, <1>4, <2>1, <2>2, <2>3, QuietStep
  <1>5. CASE /\ op.fp = Fingerprint(ureq[c])
             /\ Goto(c, "reclaim") /\ UNCHANGED <<ops, udoc>>
    <2>1. /\ Alone(c) /\ upc'[c] = "reclaim"
          /\ uout'[c] \notin {"Created", "Replayed"}
      BY <1>1, <1>5, GotoAlone, NoResultYet DEF Alone
    <2>2. CallerInv(c)' /\ ~HoldsClaim(c)'
      BY <1>1, <1>5, <2>1
      DEF CallerInv, HoldsClaim, ClaimedPoints, Record, Fingerprint
    <2>3. SettledInv'
      BY <1>1, <1>5 DEF IdemInv, SettledInv
    <2> QED BY <1>1, <1>5, <2>1, <2>2, <2>3, QuietStep
  <1> QED BY <1>2, <1>3, <1>4, <1>5 DEF Select, Matches

LEMMA IdemReclaim ==
    ASSUME TypeInv, IdemInv, NEW c \in Callers, Reclaim(c)
    PROVE  IdemInv'
  <1>1. Record(c).fp = Fingerprint(ureq[c])
    BY DEF Reclaim, IdemInv, CallerInv
  <1> QED BY <1>1, IdemRetake DEF Reclaim

LEMMA IdemReplay ==
    ASSUME TypeInv, IdemInv, NEW c \in Callers, Replay(c)
    PROVE  IdemInv'
  <1>1. /\ upc[c] = "replay" /\ meta' = meta /\ ops' = ops /\ ureq' = ureq
        /\ udoc' = udoc /\ OpKey(c)' = OpKey(c)
    BY DEF Replay, OpKey
  <1>2. /\ OpKey(c) \in OpKeys /\ udoc[c] \in DocIds
        /\ Record(c) # None /\ Record(c).state = "succeeded"
        /\ Record(c).doc = udoc[c] /\ Record(c).fp = Fingerprint(ureq[c])
    BY <1>1, CallerTypes DEF TypeInv, LocalOK, IdemInv, CallerInv
  <1>3. ASSUME NEW e \in {"DocumentNotFoundError", "MetadataStoreError"},
               Return(c, e), settled' = settled
        PROVE  IdemInv'
    BY <1>1, <1>3, IdemRefused DEF Results
  <1>4. CASE Return(c, "Replayed") /\ Settle(c)
    <2>1. RegisteredFrom(udoc[c], Fingerprint(ureq[c]))
      BY <1>2 DEF IdemInv, SucceededInv, InState, Record
    <2>2. RegisteredFrom(udoc[c], ureq[c])'
      BY <1>1, <2>1 DEF RegisteredFrom, Fingerprint
    <2>3. Alone(c) /\ upc'[c] = "idle"
      BY <1>1, <1>4, ReturnAlone DEF Alone
    <2>4. CallerInv(c)' /\ ~HoldsClaim(c)'
      BY <1>1, <1>2, <2>2, <2>3 DEF CallerInv, HoldsClaim, ClaimedPoints
    <2>5. SettledInv'
      BY <1>1, <1>2, <1>4 DEF IdemInv, SettledInv, Settle, Record
    <2> QED BY <1>1, <2>3, <2>4, <2>5, QuietStep
  <1> QED BY <1>3, <1>4 DEF Replay

(* The INSERT of a row, whoever learns of it. *)
LEMMA IdemInsertRow ==
    ASSUME TypeInv, IdemInv, NEW c \in Callers, upc[c] = "save",
           NEW o \in Replies, SaveMetadata(udoc[c], NewRow(c), o),
           (Keyed(c) /\ Settle(c)) \/ settled' = settled,
           ops' = ops, ureq' = ureq, udoc' = udoc, Alone(c), CallerInv(c)'
    PROVE  IdemInv'
  <1>1. /\ OpKey(c)' = OpKey(c)
        /\ udoc[c] \in DocIds /\ NewRow(c) \in Rows /\ NewRow(c) # None
    BY CallerTypes, NoneAssumption DEF OpKey
  <1>2. RowsKept
    BY <1>1 DEF SaveMetadata, RowsKept, Exists, TypeInv, UploadTypeOK, StoresTypeOK
  <1>3. OpsKept /\ OthersKept(c) /\ NoRival(c)
    BY DEF OpsKept, OthersKept, NoRival, HoldsClaim, ClaimedPoints, Keyed
  <1>4. SucceededInv'
    <2>1. \A k \in OpKeys : ops[k] # None => ops[k].doc \in DocIds
      BY DEF TypeInv, UploadTypeOK, StoresTypeOK, Operations
    <2> QED BY <1>2, <2>1
        DEF IdemInv, SucceededInv, InState, RegisteredFrom, RowsKept
  <1>5. SettledInv'
    <2>1. CASE Keyed(c) /\ Settle(c)
      <3>1. ops[OpKey(c)] # None /\ ops[OpKey(c)].doc = udoc[c]
        BY <2>1 DEF IdemInv, CallerInv, HoldsClaim, ClaimedPoints, Record
      <3> QED BY <2>1, <3>1 DEF IdemInv, SettledInv, Settle
    <2>2. CASE settled' = settled
      BY <2>2 DEF IdemInv, SettledInv
    <2> QED BY <2>1, <2>2
  <1> QED
    BY <1>1, <1>2, <1>3, <1>4, <1>5, StepInv

LEMMA IdemSave ==
    ASSUME TypeInv, IdemInv, NEW c \in Callers, Save(c)
    PROVE  IdemInv'
  <1>1. PICK o \in Replies :
           /\ SaveMetadata(udoc[c], NewRow(c), o)
           /\ IF Keyed(c) /\ Applied(o) /\ ~Exists(udoc[c])
                THEN Settle(c) ELSE UNCHANGED settled
           /\ IF o = "ok" /\ ~Exists(udoc[c])
                THEN IF Keyed(c) THEN Goto(c, "mark_succeeded")
                                 ELSE Return(c, "Created")
                ELSE /\ upc' = [upc EXCEPT ![c] = "rollback"]
                     /\ uout' = [uout EXCEPT ![c] =
                                   IF o = "ok" THEN "DuplicateDocumentError"
                                               ELSE "ConsistencyError"]
                     /\ UNCHANGED reports
    BY DEF Save
  <1>2. /\ upc[c] = "save" /\ ops' = ops /\ ureq' = ureq /\ udoc' = udoc
        /\ OpKey(c)' = OpKey(c) /\ (Keyed(c)' <=> Keyed(c))
        /\ udoc[c] \in DocIds
    BY CallerTypes DEF Save, OpKey, Keyed
  <1>3. o = "ok" /\ ~Exists(udoc[c]) => meta'[udoc[c]] = NewRow(c)
    BY <1>1, <1>2
    DEF SaveMetadata, Exists, Applied, TypeInv, UploadTypeOK, StoresTypeOK
  <1>4. /\ Alone(c)
        /\ \/ /\ o = "ok" /\ ~Exists(udoc[c])
              /\ \/ upc'[c] = "mark_succeeded" /\ Keyed(c)
                 \/ upc'[c] = "idle" /\ uout'[c] = "Created" /\ ~Keyed(c)
           \/ upc'[c] = "rollback"
        /\ upc'[c] # "idle" => uout'[c] \notin {"Created", "Replayed"}
    <2>1. CASE o = "ok" /\ ~Exists(udoc[c])
      BY <1>1, <1>2, <2>1, GotoAlone, ReturnAlone, NoResultYet DEF Alone
    <2>2. CASE ~(o = "ok" /\ ~Exists(udoc[c]))
      BY <1>1, <1>2, <2>2 DEF Alone, TypeInv, UploadTypeOK
    <2> QED BY <2>1, <2>2
  <1>5. o = "ok" /\ ~Exists(udoc[c]) => RegisteredFrom(udoc[c], ureq[c])'
    <2>1. NewRow(c) # None
      BY <1>2, CallerTypes, NoneAssumption
    <2> QED BY <1>2, <1>3, <2>1 DEF RegisteredFrom, NewRow
  <1>6. CallerInv(c)'
    <2>1. CallerInv(c) /\ (HoldsClaim(c) <=> Keyed(c))
      BY <1>2 DEF IdemInv, HoldsClaim, ClaimedPoints
    <2>2. Record(c)' = Record(c) /\ Fingerprint(ureq[c])' = Fingerprint(ureq[c])
      BY <1>2 DEF Record, Fingerprint
    <2>3. HoldsClaim(c)' => Keyed(c)
      BY <1>2 DEF HoldsClaim
    <2> QED BY <1>2, <1>4, <1>5, <2>1, <2>2, <2>3 DEF CallerInv
  <1>7. (Keyed(c) /\ Settle(c)) \/ settled' = settled
    BY <1>1
  <1> QED BY <1>1, <1>2, <1>4, <1>6, <1>7, IdemInsertRow

LEMMA IdemCheckExists ==
    ASSUME TypeInv, IdemInv, NEW c \in Callers, CheckExists(c)
    PROVE  IdemInv'
  <1>1. \/ \E p \in {"put", "save"} : Goto(c, p)
        \/ \E e \in Results \ {"Created", "Replayed"} : Raise(c, e)
    BY DEF CheckExists, Results
  <1> QED BY <1>1, IdemOnward DEF CheckExists

LEMMA IdemPut ==
    ASSUME TypeInv, IdemInv, NEW c \in Callers, Put(c)
    PROVE  IdemInv'
  <1>1. \/ \E p \in {"put", "save"} : Goto(c, p)
        \/ \E e \in Results \ {"Created", "Replayed"} : Raise(c, e)
        \/ /\ upc' = [upc EXCEPT ![c] = "rollback"]
           /\ \E e \in Results \ {"Created", "Replayed"} :
                 uout' = [uout EXCEPT ![c] = e]
    BY DEF Put, EndsEarly, Results, Alarms
  <1> QED BY <1>1, IdemOnward DEF Put, EndsEarly

LEMMA IdemRollback ==
    ASSUME TypeInv, IdemInv, NEW c \in Callers, Rollback(c)
    PROVE  IdemInv'
  <1>1. uout[c] \in Results \ {"Created", "Replayed"}
    BY DEF Rollback, IdemInv, CallerInv, TypeInv, UploadTypeOK
  <1>2. \E e \in Results \ {"Created", "Replayed"} : Raise(c, e)
    BY <1>1 DEF Rollback, Results, Alarms
  <1> QED BY <1>2, IdemOnward DEF Rollback

(* A mark moves only the marking caller's own operation. *)
LEMMA IdemMark ==
    ASSUME TypeInv, IdemInv, NEW c \in Callers,
           upc[c] \in {"mark_succeeded", "mark_failed"},
           NEW to \in UploadOperationState, NEW o \in Replies,
           MarkOperation(OpKey(c), to, o),
           to = "succeeded" => RegisteredFrom(udoc[c], ureq[c]),
           meta' = meta, ureq' = ureq, udoc' = udoc, settled' = settled,
           Alone(c), CallerInv(c)', HoldsClaim(c)' => HoldsClaim(c)
    PROVE  IdemInv'
  <1> DEFINE k == OpKey(c)
  <1>1. k \in OpKeys /\ k' = k /\ HoldsClaim(c)
    BY CallerTypes DEF TypeInv, LocalOK, OpKey, HoldsClaim, ClaimedPoints
  <1>2. /\ OpsKept
        /\ \A j \in OpKeys \ {k} : ops'[j] = ops[j]
        /\ Applied(o) /\ InState(k, "pending") => ops'[k].state = to
        /\ ~(Applied(o) /\ InState(k, "pending")) => ops'[k] = ops[k]
    BY <1>1, MoveOperationKept DEF MarkOperation, UploadOperationState
  <1>3. ASSUME NEW e \in Callers \ {c}, HoldsClaim(e) \/ upc[e] = "replay"
        PROVE  ops'[OpKey(e)] = ops[OpKey(e)]
    <2>1. OpKey(e) \in OpKeys
      BY <1>3, CallerTypes DEF TypeInv, LocalOK, HoldsClaim, ClaimedPoints
    <2>2. CASE OpKey(e) # k
      BY <1>2, <2>1, <2>2
    <2>3. CASE OpKey(e) = k
      <3>1. ~HoldsClaim(e)
        BY <1>1, <2>3 DEF IdemInv, ClaimOwnership
      <3>2. ops[k].state = "succeeded"
        BY <1>3, <2>3, <3>1 DEF IdemInv, CallerInv, Record
      <3> QED BY <1>2, <2>3, <3>2 DEF InState
    <2> QED BY <2>2, <2>3
  <1>4. OthersKept(c) /\ RowsKept /\ NoRival(c)
    BY <1>1, <1>3 DEF OthersKept, RowsKept, NoRival
  <1>5. SucceededInv'
    <2>1. ops[k].doc = udoc[c] /\ ops[k].fp = Fingerprint(ureq[c])
      BY <1>1 DEF IdemInv, CallerInv, Record
    <2>2. ASSUME NEW j \in OpKeys, InState(j, "succeeded")'
          PROVE  RegisteredFrom(ops[j].doc, ops[j].fp)'
      <3>1. CASE ops'[j] = ops[j]
        BY <2>2, <3>1
        DEF IdemInv, SucceededInv, InState, RegisteredFrom
      <3>2. CASE j = k /\ to = "succeeded" /\ ops[k] # None
        BY <1>2, <2>1, <3>2 DEF OpsKept, RegisteredFrom, Fingerprint
      <3>3. CASE j = k /\ to # "succeeded"
        BY <1>2, <2>2, <3>1, <3>3 DEF InState
      <3>4. CASE j = k /\ ops[k] = None
        BY <1>2, <3>1, <3>4 DEF InState
      <3> QED BY <1>2, <3>1, <3>2, <3>3, <3>4
    <2> QED BY <2>2 DEF SucceededInv
  <1>6. SettledInv'
    BY <1>2 DEF IdemInv, SettledInv, OpsKept, TypeInv, UploadTypeOK
  <1> QED BY <1>1, <1>2, <1>4, <1>5, <1>6, StepInv

(* The mark of a holder that has registered its document. *)
LEMMA IdemMarkDone ==
    ASSUME TypeInv, IdemInv, NEW c \in Callers, upc[c] = "mark_succeeded",
           NEW o \in Replies, MarkOperation(OpKey(c), "succeeded", o),
           \/ upc'[c] = "idle"
           \/ upc'[c] = "mark_failed" /\ uout'[c] \notin {"Created", "Replayed"},
           Alone(c), meta' = meta, ureq' = ureq, udoc' = udoc,
           settled' = settled
    PROVE  IdemInv'
  <1>1. Keyed(c) /\ OpKey(c) \in OpKeys /\ udoc[c] \in DocIds
    BY CallerTypes DEF TypeInv, LocalOK
  <1>2. /\ HoldsClaim(c) /\ RegisteredFrom(udoc[c], ureq[c])
        /\ Record(c) # None /\ Record(c).state = "pending"
        /\ Record(c).doc = udoc[c] /\ Record(c).fp = Fingerprint(ureq[c])
    BY <1>1 DEF IdemInv, CallerInv, HoldsClaim, ClaimedPoints
  <1>3. /\ OpsKept
        /\ Applied(o) /\ InState(OpKey(c), "pending") =>
              ops'[OpKey(c)].state = "succeeded"
        /\ ~(Applied(o) /\ InState(OpKey(c), "pending")) =>
              ops'[OpKey(c)] = ops[OpKey(c)]
    BY <1>1, MoveOperationKept DEF MarkOperation, UploadOperationState
  <1>4. /\ Record(c)' # None /\ Record(c)'.state # "failed"
        /\ Record(c)'.doc = udoc'[c]
        /\ Record(c)'.fp = Fingerprint(ureq[c])'
    BY <1>1, <1>2, <1>3 DEF Record, OpsKept, OpKey, Fingerprint
  <1>5. RegisteredFrom(udoc[c], ureq[c])'
    BY <1>2 DEF RegisteredFrom
  <1>6. CallerInv(c)'
    BY <1>1, <1>4, <1>5 DEF CallerInv, HoldsClaim, ClaimedPoints
  <1> QED BY <1>2, <1>6, IdemMark DEF UploadOperationState

LEMMA IdemMarkSucceeded ==
    ASSUME TypeInv, IdemInv, NEW c \in Callers, MarkSucceeded(c)
    PROVE  IdemInv'
  <1>1. PICK o \in Replies :
           /\ MarkOperation(OpKey(c), "succeeded", o)
           /\ IF o = "ok" THEN Return(c, "Created")
                          ELSE Raise(c, "BackendError")
    BY DEF MarkSucceeded
  <1>2. /\ upc[c] = "mark_succeeded" /\ meta' = meta /\ ureq' = ureq
        /\ udoc' = udoc /\ settled' = settled
    BY DEF MarkSucceeded
  <1>3. /\ Alone(c)
        /\ \/ upc'[c] = "idle"
           \/ upc'[c] = "mark_failed" /\ uout'[c] = "BackendError"
    BY <1>1, <1>2, ReturnAlone, RaiseAlone DEF Alone
  <1> QED BY <1>1, <1>2, <1>3, IdemMarkDone

LEMMA IdemMarkFailed ==
    ASSUME TypeInv, IdemInv, NEW c \in Callers, MarkFailed(c)
    PROVE  IdemInv'
  <1>1. PICK o \in Replies : MarkOperation(OpKey(c), "failed", o)
    BY DEF MarkFailed
  <1>2. /\ upc[c] = "mark_failed" /\ meta' = meta /\ ureq' = ureq
        /\ udoc' = udoc /\ settled' = settled /\ Return(c, uout[c])
    BY DEF MarkFailed
  <1>3. /\ Alone(c) /\ upc'[c] = "idle"
        /\ uout'[c] \notin {"Created", "Replayed"}
    BY <1>2, ReturnAlone DEF Alone, IdemInv, CallerInv
  <1>4. CallerInv(c)' /\ ~HoldsClaim(c)'
    BY <1>3 DEF CallerInv, HoldsClaim, ClaimedPoints
  <1> QED BY <1>1, <1>2, <1>3, <1>4, IdemMark DEF UploadOperationState

LEMMA IdemCrash ==
    ASSUME TypeInv, IdemInv, NEW c \in Callers, Crash(c)
    PROVE  IdemInv'
  <1>1. /\ Alone(c) /\ upc'[c] = "idle" /\ uout'[c] = "Crashed"
        /\ meta' = meta /\ ops' = ops /\ ureq' = ureq /\ settled' = settled
    BY DEF Crash, Die, Alone, TypeInv, UploadTypeOK
  <1>2. CallerInv(c)' /\ ~HoldsClaim(c)'
    BY <1>1 DEF CallerInv, HoldsClaim, ClaimedPoints
  <1>3. OpKey(c)' = OpKey(c) /\ SettledInv'
    BY <1>1 DEF OpKey, IdemInv, SettledInv
  <1> QED BY <1>1, <1>2, <1>3, QuietStep

LEMMA IdemInit == Init => IdemInv
  BY NoneAssumption
  DEF Init, StoresInit, UploadInit, IdemInv, CallerInv, SucceededInv,
      SettledInv, ClaimOwnership, HoldsClaim, ClaimedPoints, InState

LEMMA IdemStep == TypeInv /\ IdemInv /\ [UploadNext]_vars => IdemInv'
  <1> SUFFICES ASSUME TypeInv, IdemInv, [UploadNext]_vars PROVE IdemInv'
    OBVIOUS
  <1>1. CASE UNCHANGED vars
    BY <1>1
    DEF IdemInv, CallerInv, SucceededInv, SettledInv, ClaimOwnership,
        HoldsClaim, Keyed, OpKey, Record, RegisteredFrom, Fingerprint, InState,
        vars, storeVars, uploadVars
  <1>2. CASE UploadNext
    BY <1>2, IdemUploadDocument, IdemAllocate, IdemClaim, IdemSelect,
       IdemReclaim, IdemReplay, IdemCheckExists, IdemPut, IdemSave,
       IdemRollback, IdemMarkSucceeded, IdemMarkFailed, IdemCrash
    DEF UploadNext, UploadStep
  <1> QED BY <1>1, <1>2

-----------------------------------------------------------------------------

LEMMA IdemInvariant == Spec => [](TypeInv /\ IdemInv)
  BY TypeInit, TypeStep, IdemInit, IdemStep, PTL DEF Spec

(***************************************************************************)
(* However often a keyed request is retried, every document saved or       *)
(* returned for one operation key is the same document.                    *)
(***************************************************************************)
THEOREM RegisteredOnce == Spec => []IdempotentOnce
  <1>1. IdemInv => IdempotentOnce
    BY DEF IdemInv, SettledInv, IdempotentOnce
  <1> QED BY IdemInvariant, <1>1, PTL

(***************************************************************************)
(* No two callers are ever between the claim and the final mark of one     *)
(* operation.                                                              *)
(***************************************************************************)
THEOREM OneHolder == Spec => []ClaimOwnership
  <1>1. IdemInv => ClaimOwnership
    BY DEF IdemInv
  <1> QED BY IdemInvariant, <1>1, PTL

(***************************************************************************)
(* A result, new or replayed, names a row of the request's partition,      *)
(* filename and content.                                                   *)
(***************************************************************************)
THEOREM ResultCorrect == Spec => []ResultMatchesRequest
  <1>1. IdemInv => ResultMatchesRequest
    BY DEF IdemInv, CallerInv, ResultMatchesRequest
  <1> QED BY IdemInvariant, <1>1, PTL

(***************************************************************************)
(* A succeeded operation has its row, and only succeeded operations are    *)
(* replayed, with row locks and without.                                   *)
(***************************************************************************)
THEOREM ReplayCorrect == Spec => []ReplayIsCompleted
  <1>1. TypeInv /\ IdemInv => ReplayIsCompleted
    BY DEF IdemInv, CallerInv, SucceededInv, ReplayIsCompleted, InState, Record
  <1> QED BY IdemInvariant, <1>1, PTL

-----------------------------------------------------------------------------
(* Contents *)

(* Caller c answers for key k: it will save or remove the content, or is   *)
(* about to raise an alarm about it.                                       *)
AnswersFor(c, k) ==
    /\ BuildStorageKey(c) = k
    /\ \/ upc[c] \in {"save", "rollback"}
       \/ upc[c] = "mark_failed" /\ uout[c] \in Alarms

Reported(k) == \E e \in Alarms : <<k, e>> \in reports

Accounted(k) ==
    Referenced(k) \/ Reported(k) \/ \E c \in Callers : AnswersFor(c, k)

KeyAccounted(k) == objects[k] # None => Accounted(k)

LEMMA AccountedMeaning ==
    OrphanAccounted <=> \A k \in StorageKeys : KeyAccounted(k)
  BY DEF OrphanAccounted, KeyAccounted, Accounted, AnswersFor, Reported,
         InFlight, Told

(* What remains to be shown of a step of caller c, for one key: the lemmas *)
(* speak of each key by itself, as some keys may be excepted.              *)
LEMMA OrphanStep ==
    ASSUME TypeInv, NEW k \in StorageKeys, KeyAccounted(k), NEW c \in Callers,
           Alone(c), RowsKept, reports \subseteq reports',
           objects'[k] # None => objects[k] # None \/ Accounted(k)',
           AnswersFor(c, k) /\ objects'[k] # None => Accounted(k)'
    PROVE  KeyAccounted(k)'
  <1> SUFFICES ASSUME objects'[k] # None PROVE Accounted(k)'
    BY DEF KeyAccounted
  <1>1. CASE Accounted(k)'
    BY <1>1
  <1>2. CASE objects[k] # None
    <2>1. Accounted(k)
      BY <1>2 DEF KeyAccounted
    <2>2. CASE Referenced(k)
      <3>1. k[2] \in DocIds
        BY DEF StorageKeys
      <3> QED BY <2>2, <3>1 DEF Accounted, Referenced, StorageKeyOf, RowsKept
    <2>3. CASE Reported(k)
      BY <2>3 DEF Accounted, Reported
    <2>4. ASSUME NEW e \in Callers, AnswersFor(e, k) PROVE Accounted(k)'
      <3>1. CASE e = c
        BY <2>4, <3>1
      <3>2. CASE e # c
        <4>1. AnswersFor(e, k)'
          BY <2>4, <3>2 DEF AnswersFor, Alone, BuildStorageKey
        <4> QED BY <4>1 DEF Accounted
      <3> QED BY <3>1, <3>2
    <2> QED BY <2>1, <2>2, <2>3, <2>4 DEF Accounted
  <1> QED BY <1>1, <1>2

(* A step that touches no content, of a caller that answers for none. *)
LEMMA OrphanQuiet ==
    ASSUME TypeInv, NEW k \in StorageKeys, KeyAccounted(k), NEW c \in Callers,
           upc[c] \notin {"save", "rollback", "mark_failed"},
           Alone(c), meta' = meta, objects' = objects,
           reports \subseteq reports'
    PROVE  KeyAccounted(k)'
  BY OrphanStep DEF RowsKept, AnswersFor

LEMMA ReportsGrow ==
    ASSUME NEW c \in Callers, NEW e,
           Return(c, e) \/ Raise(c, e) \/ Goto(c, e)
    PROVE  reports \subseteq reports'
  BY DEF Return, Raise, Goto

(* After an alarm is raised, or returned, its key is accounted for. *)
LEMMA AlarmAccounted ==
    ASSUME TypeInv, NEW c \in Callers, NEW e \in Alarms,
           Return(c, e) \/ Raise(c, e), ureq' = ureq, udoc' = udoc
    PROVE  Accounted(BuildStorageKey(c))'
  <1>1. BuildStorageKey(c)' = BuildStorageKey(c)
    BY DEF BuildStorageKey
  <1>2. CASE Return(c, e)
    BY <1>1, <1>2 DEF Return, Accounted, Reported
  <1>3. CASE Raise(c, e) /\ Keyed(c)
    BY <1>1, <1>3, RaiseAlone DEF Accounted, AnswersFor
  <1>4. CASE Raise(c, e) /\ ~Keyed(c)
    BY <1>2, <1>4 DEF Raise
  <1> QED BY <1>2, <1>3, <1>4

LEMMA OrphanPut ==
    ASSUME TypeInv, NEW q \in StorageKeys, KeyAccounted(q),
           NEW c \in Callers, Put(c)
    PROVE  KeyAccounted(q)'
  <1> DEFINE k == BuildStorageKey(c)
  <1>1. PICK o \in Replies :
           /\ PutObject(k, ureq[c].content, o)
           /\ \/ o # "ok" /\ Raise(c, "StorageError")
              \/ /\ upc' = [upc EXCEPT ![c] = "rollback"]
                 /\ uout' = [uout EXCEPT ![c] = "ValidationError"]
                 /\ UNCHANGED reports
              \/ Goto(c, "save")
    BY DEF Put, EndsEarly
  <1>2. /\ upc[c] = "put" /\ ureq' = ureq /\ udoc' = udoc /\ meta' = meta
        /\ k' = k
    BY DEF Put, EndsEarly, BuildStorageKey
  <1>3. \A j \in StorageKeys \ {k} : objects'[j] = objects[j]
    BY <1>1 DEF PutObject, TypeInv, UploadTypeOK, StoresTypeOK
  <1>4. Accounted(k)'
    <2>1. CASE Raise(c, "StorageError")
      BY <1>2, <2>1, AlarmAccounted DEF Alarms
    <2>2. CASE Goto(c, "save")
      BY <1>2, <2>2, GotoAlone DEF Accounted, AnswersFor
    <2>3. CASE upc' = [upc EXCEPT ![c] = "rollback"]
      BY <1>2, <2>3 DEF Accounted, AnswersFor, TypeInv, UploadTypeOK
    <2> QED BY <1>1, <2>1, <2>2, <2>3
  <1>5. Alone(c) /\ reports \subseteq reports'
    BY <1>1, <1>2, RaiseAlone, GotoAlone, ReportsGrow
    DEF Alone, TypeInv, UploadTypeOK
  <1>6. RowsKept
    BY <1>2 DEF RowsKept
  <1>7. \A j \in StorageKeys : ~AnswersFor(c, j)
    BY <1>2 DEF AnswersFor
  <1> QED BY <1>2, <1>3, <1>4, <1>5, <1>6, <1>7, OrphanStep

LEMMA OrphanSave ==
    ASSUME TypeInv, NEW q \in StorageKeys, KeyAccounted(q),
           NEW c \in Callers, Save(c)
    PROVE  KeyAccounted(q)'
  <1> DEFINE k == BuildStorageKey(c)
  <1>1. PICK o \in Replies :
           /\ SaveMetadata(udoc[c], NewRow(c), o)
           /\ \/ /\ o = "ok" /\ ~Exists(udoc[c])
                 /\ Goto(c, "mark_succeeded") \/ Return(c, "Created")
              \/ /\ upc' = [upc EXCEPT ![c] = "rollback"]
                 /\ \E e \in Results : uout' = [uout EXCEPT ![c] = e]
                 /\ UNCHANGED reports
    BY DEF Save, Results, Alarms
  <1>2. /\ upc[c] = "save" /\ ureq' = ureq /\ udoc' = udoc
        /\ objects' = objects /\ k' = k
        /\ udoc[c] \in DocIds /\ NewRow(c) \in Rows /\ NewRow(c) # None
    BY CallerTypes, NoneAssumption DEF Save, BuildStorageKey
  <1>3. /\ RowsKept
        /\ o = "ok" /\ ~Exists(udoc[c]) => meta'[udoc[c]] = NewRow(c)
    BY <1>1, <1>2
    DEF SaveMetadata, RowsKept, Exists, Applied,
        TypeInv, UploadTypeOK, StoresTypeOK
  <1>4. Accounted(k)'
    <2>1. CASE o = "ok" /\ ~Exists(udoc[c])
      BY <1>2, <1>3, <2>1
      DEF Accounted, Referenced, StorageKeyOf, BuildStorageKey, NewRow
    <2>2. CASE upc' = [upc EXCEPT ![c] = "rollback"]
      BY <1>2, <2>2 DEF Accounted, AnswersFor, TypeInv, UploadTypeOK
    <2> QED BY <1>1, <2>1, <2>2
  <1>5. Alone(c) /\ reports \subseteq reports'
    BY <1>1, <1>2, ReturnAlone, GotoAlone, ReportsGrow
    DEF Alone, TypeInv, UploadTypeOK
  <1>6. \A j \in StorageKeys : AnswersFor(c, j) => j = k
    BY DEF AnswersFor
  <1> QED BY <1>2, <1>3, <1>4, <1>5, <1>6, OrphanStep

LEMMA OrphanRollback ==
    ASSUME TypeInv, NEW q \in StorageKeys, KeyAccounted(q),
           NEW c \in Callers, Rollback(c)
    PROVE  KeyAccounted(q)'
  <1> DEFINE k == BuildStorageKey(c)
  <1>1. PICK o \in Replies :
           /\ DeleteObject(k, o)
           /\ Raise(c, IF o = "ok" THEN uout[c] ELSE "ConsistencyError")
    BY DEF Rollback
  <1>2. /\ upc[c] = "rollback" /\ ureq' = ureq /\ udoc' = udoc /\ meta' = meta
        /\ k \in StorageKeys
    BY CallerTypes DEF Rollback
  <1>3. /\ \A j \in StorageKeys \ {k} : objects'[j] = objects[j]
        /\ o = "ok" => objects'[k] = None
        /\ objects'[k] \in {None, objects[k]}
    BY <1>1, <1>2
    DEF DeleteObject, Applied, TypeInv, UploadTypeOK, StoresTypeOK
  <1>4. o # "ok" => Accounted(k)'
    BY <1>1, <1>2, AlarmAccounted DEF Alarms
  <1>5. Alone(c) /\ reports \subseteq reports' /\ RowsKept
    BY <1>1, <1>2, RaiseAlone, ReportsGrow DEF Alone, RowsKept
  <1>6. \A j \in StorageKeys : AnswersFor(c, j) => j = k
    BY DEF AnswersFor
  <1>7. k' = k
    BY <1>2 DEF BuildStorageKey
  <1> QED BY <1>3, <1>4, <1>5, <1>6, <1>7, OrphanStep

LEMMA OrphanMarkFailed ==
    ASSUME TypeInv, NEW q \in StorageKeys, KeyAccounted(q),
           NEW c \in Callers, MarkFailed(c)
    PROVE  KeyAccounted(q)'
  <1>1. /\ upc[c] = "mark_failed" /\ ureq' = ureq /\ udoc' = udoc
        /\ meta' = meta /\ objects' = objects /\ Return(c, uout[c])
    BY DEF MarkFailed
  <1>2. Alone(c) /\ reports \subseteq reports' /\ RowsKept
    BY <1>1, ReturnAlone, ReportsGrow DEF Alone, RowsKept
  <1>3. ASSUME NEW j \in StorageKeys, AnswersFor(c, j) PROVE Accounted(j)'
    BY <1>1, <1>3, AlarmAccounted DEF AnswersFor, BuildStorageKey
  <1> QED BY <1>1, <1>2, <1>3, OrphanStep

LEMMA OrphanCrash ==
    ASSUME TypeInv, NEW q \in StorageKeys, KeyAccounted(q),
           NEW c \in Callers, Crash(c)
    PROVE  KeyAccounted(q)'
  <1>1. Alone(c) /\ RowsKept /\ objects' = objects /\ reports \subseteq reports'
    BY DEF Crash, Die, Alone, RowsKept, TypeInv, UploadTypeOK
  <1>2. ASSUME NEW j \in StorageKeys, AnswersFor(c, j) PROVE Accounted(j)'
    <2>1. <<j, "Crashed">> \in reports'
      BY <1>2 DEF Crash, AnswersFor
    <2> QED BY <2>1 DEF Accounted, Reported, Alarms
  <1> QED BY <1>1, <1>2, OrphanStep

LEMMA OrphanNext ==
    ASSUME TypeInv, NEW q \in StorageKeys, KeyAccounted(q), [UploadNext]_vars
    PROVE  KeyAccounted(q)'
  <1>1. ASSUME NEW c \in Callers, NEW r \in Requests, UploadDocument(c, r)
        PROVE  KeyAccounted(q)'
    <2>1. Alone(c) /\ upc[c] = "idle"
      BY <1>1 DEF UploadDocument, Refused, Alone, TypeInv, UploadTypeOK
    <2> QED BY <1>1, <2>1, OrphanQuiet DEF UploadDocument, Refused, storeVars
  <1>2. ASSUME NEW c \in Callers, Allocate(c) PROVE KeyAccounted(q)'
    <2>1. Alone(c) /\ reports \subseteq reports'
      BY <1>2, GotoAlone, ReturnAlone, ReportsGrow
      DEF Allocate, Alone, TypeInv, UploadTypeOK
    <2> QED BY <1>2, <2>1, OrphanQuiet DEF Allocate
  <1>3. ASSUME NEW c \in Callers, Claim(c) PROVE KeyAccounted(q)'
    <2>1. Alone(c) /\ reports \subseteq reports'
      BY <1>3, GotoAlone, ReturnAlone, ReportsGrow DEF Claim, Alone
    <2> QED BY <1>3, <2>1, OrphanQuiet DEF Claim
  <1>4. ASSUME NEW c \in Callers, Retake(c), ureq' = ureq
        PROVE  Alone(c) /\ reports \subseteq reports'
    BY <1>4, GotoAlone, ReturnAlone, ReportsGrow
    DEF Retake, Reuse, Alone, TypeInv, UploadTypeOK
  <1>5. ASSUME NEW c \in Callers, Select(c) PROVE KeyAccounted(q)'
    <2>1. ureq' = ureq /\ upc[c] = "select" /\ meta' = meta /\ objects' = objects
      BY <1>5 DEF Select
    <2>2. \/ Retake(c)
          \/ \E e \in Results : Return(c, e) /\ udoc' = udoc
          \/ /\ \E d : udoc' = [udoc EXCEPT ![c] = d]
             /\ Goto(c, "replay")
          \/ Goto(c, "reclaim") /\ udoc' = udoc
      BY <1>5 DEF Select, Results
    <2>3. Alone(c) /\ reports \subseteq reports'
      BY <1>4, <2>1, <2>2, GotoAlone, ReturnAlone, ReportsGrow
      DEF Alone, TypeInv, UploadTypeOK
    <2> QED BY <2>1, <2>3, OrphanQuiet
  <1>6. ASSUME NEW c \in Callers, Reclaim(c) PROVE KeyAccounted(q)'
    BY <1>4, <1>6, OrphanQuiet DEF Reclaim
  <1>7. ASSUME NEW c \in Callers, Replay(c) PROVE KeyAccounted(q)'
    <2>1. Alone(c) /\ reports \subseteq reports'
      BY <1>7, ReturnAlone, ReportsGrow DEF Replay, Alone
    <2> QED BY <1>7, <2>1, OrphanQuiet DEF Replay
  <1>8. ASSUME NEW c \in Callers, CheckExists(c) PROVE KeyAccounted(q)'
    <2>1. Alone(c) /\ reports \subseteq reports'
      BY <1>8, GotoAlone, RaiseAlone, ReportsGrow DEF CheckExists, Alone
    <2> QED BY <1>8, <2>1, OrphanQuiet DEF CheckExists
  <1>9. ASSUME NEW c \in Callers, MarkSucceeded(c) PROVE KeyAccounted(q)'
    <2>1. Alone(c) /\ reports \subseteq reports'
      BY <1>9, ReturnAlone, RaiseAlone, ReportsGrow DEF MarkSucceeded, Alone
    <2> QED BY <1>9, <2>1, OrphanQuiet DEF MarkSucceeded
  <1>10. CASE UNCHANGED vars
    BY <1>10
    DEF KeyAccounted, Accounted, AnswersFor, Reported, Referenced,
        BuildStorageKey,
        vars, storeVars, uploadVars
  <1> QED
    BY <1>1, <1>2, <1>3, <1>5, <1>6, <1>7, <1>8, <1>9, <1>10, OrphanPut,
       OrphanSave, OrphanRollback, OrphanMarkFailed, OrphanCrash
    DEF UploadNext, UploadStep

(***************************************************************************)
(* Content without a row always has somebody who answers for it: a         *)
(* registration still at work, or a host that was told of it.              *)
(***************************************************************************)
THEOREM NoSilentOrphan == Spec => []OrphanAccounted
  <1>1. Init => OrphanAccounted
    BY DEF Init, StoresInit, OrphanAccounted
  <1>2. TypeInv /\ OrphanAccounted /\ [UploadNext]_vars => OrphanAccounted'
    <2> SUFFICES ASSUME TypeInv, OrphanAccounted, [UploadNext]_vars
                 PROVE  OrphanAccounted'
      OBVIOUS
    <2>1. \A k \in StorageKeys : KeyAccounted(k)'
      BY AccountedMeaning, OrphanNext
    <2>2. (\A k \in StorageKeys : KeyAccounted(k))'
      BY <2>1
    <2> QED BY <2>2, AccountedMeaning, PTL
  <1> QED BY TypeInit, TypeStep, <1>1, <1>2, PTL DEF Spec

-----------------------------------------------------------------------------
(* The content of a row.  Two registrations under one identifier of the    *)
(* host can take away each other's content, so identifiers are allocated.  *)

Allocated == \A r \in Requests : r.doc = None

(* Caller c has an identifier that no operation knows. *)
Private(c) ==
    \/ upc[c] = "claim"
    \/ upc[c] \in {"exists", "put", "save", "rollback"} /\ ~Keyed(c)

(* Every identifier at work has been allocated, once, for one caller or    *)
(* for one operation.                                                      *)
OwnInv ==
    /\ \A c \in Callers : upc[c] \notin {"idle", "allocate"} => udoc[c] <= seq
    /\ \A k \in OpKeys : ops[k] # None => ops[k].doc <= seq
    /\ \A c, e \in Callers :
          Private(c) /\ Private(e) /\ udoc[c] = udoc[e] => c = e
    /\ \A c \in Callers, k \in OpKeys :
          Private(c) /\ ops[k] # None => ops[k].doc # udoc[c]
    /\ \A j, k \in OpKeys :
          ops[j] # None /\ ops[k] # None /\ ops[j].doc = ops[k].doc => j = k

(* A caller puts content under a key that has no row; it removes it from   *)
(* under a row only to tell its host of it.                                *)
PathInv(c) ==
    /\ upc[c] \in {"put", "save"} => meta[udoc[c]] = None
    /\ upc[c] = "rollback" /\ meta[udoc[c]] # None => uout[c] = "ConsistencyError"

WorkInv == OwnInv /\ \A c \in Callers : PathInv(c)

Inductive == TypeInv /\ IdemInv /\ WorkInv

(* The content under key k is that of the row that names k, and of the     *)
(* registration about to save such a row; E are the errors that tell the   *)
(* host of an exception.  Each key is spoken of by itself, as some may be  *)
(* excepted.                                                               *)
IntactAt(k, E) ==
    Referenced(k) /\ meta[k[2]].status = "available" =>
       objects[k] = meta[k[2]].content \/ Told(k, E)

KeyInv(k, E) ==
    /\ \A c \in Callers :
          upc[c] = "save" /\ BuildStorageKey(c) = k =>
             objects[k] = ureq[c].content
    /\ IntactAt(k, E)

AtContent(c) == upc[c] \in {"put", "save", "rollback"}

LEMMA OneAtContent ==
    ASSUME Inductive, NEW c \in Callers, NEW e \in Callers \ {c},
           AtContent(c), AtContent(e)
    PROVE  udoc[c] # udoc[e]
  <1>1. \A d \in {c, e} : Keyed(d) => /\ OpKey(d) \in OpKeys /\ HoldsClaim(d)
                                     /\ ops[OpKey(d)] # None
                                     /\ ops[OpKey(d)].doc = udoc[d]
    BY CallerTypes
    DEF Inductive, IdemInv, CallerInv, Record, HoldsClaim, ClaimedPoints,
        AtContent
  <1>2. \A d \in {c, e} : ~Keyed(d) => Private(d)
    BY DEF AtContent, Private
  <1>3. CASE Keyed(c) /\ Keyed(e)
    <2>1. OpKey(c) # OpKey(e)
      BY <1>1, <1>3 DEF Inductive, IdemInv, ClaimOwnership
    <2> QED BY <1>1, <1>3, <2>1 DEF Inductive, WorkInv, OwnInv
  <1>4. CASE ~Keyed(c) /\ ~Keyed(e)
    BY <1>2, <1>4 DEF Inductive, WorkInv, OwnInv
  <1>5. CASE Keyed(c) /\ ~Keyed(e)
    BY <1>1, <1>2, <1>5 DEF Inductive, WorkInv, OwnInv
  <1>6. CASE ~Keyed(c) /\ Keyed(e)
    BY <1>1, <1>2, <1>6 DEF Inductive, WorkInv, OwnInv
  <1> QED BY <1>3, <1>4, <1>5, <1>6

(* A step of caller c that claims no new operation. *)
LEMMA OwnStep ==
    ASSUME Inductive, NEW c \in Callers, Alone(c), seq' \in Nat, seq <= seq',
           \A k \in OpKeys : ops'[k] # None =>
              ops[k] # None /\ ops'[k].doc = ops[k].doc,
           upc'[c] \notin {"idle", "allocate"} =>
              udoc'[c] \in DocIds /\ udoc'[c] <= seq',
           Private(c)' => \/ Private(c) /\ udoc'[c] = udoc[c]
                          \/ udoc'[c] > seq
    PROVE  OwnInv'
  <1>1. \A e \in Callers \ {c} :
           /\ upc'[e] = upc[e] /\ udoc'[e] = udoc[e]
           /\ Private(e)' <=> Private(e)
    BY DEF Alone, Private, Keyed
  <1>2. /\ seq \in Nat
        /\ \A e \in Callers : upc[e] \notin {"idle", "allocate"} =>
              udoc[e] \in Nat /\ udoc[e] <= seq
        /\ \A k \in OpKeys : ops[k] # None =>
              ops[k].doc \in Nat /\ ops[k].doc <= seq
    <2>1. /\ seq \in Nat /\ DocIds \subseteq Nat
          /\ ops \in [OpKeys -> Operations \cup {None}]
      BY BoundsAssumption
      DEF Inductive, TypeInv, UploadTypeOK, StoresTypeOK, DocIds
    <2>2. \A k \in OpKeys : ops[k] # None => ops[k].doc \in Nat
      BY <2>1 DEF Operations
    <2> QED BY <2>1, <2>2 DEF Inductive, TypeInv, LocalOK, WorkInv, OwnInv
  <1>3. \A e \in Callers : Private(e) => upc[e] \notin {"idle", "allocate"}
    BY DEF Private
  <1>4. \A e \in Callers \ {c} : Private(e) => udoc[e] <= seq
    BY <1>2, <1>3
  <1>5. DocIds \subseteq Nat /\ (Private(c)' => udoc'[c] \in DocIds)
    BY BoundsAssumption DEF DocIds, Private
  <1>6. \A e \in Callers : upc'[e] \notin {"idle", "allocate"} => udoc'[e] <= seq'
    BY <1>1, <1>2
  <1>7. \A k \in OpKeys : ops'[k] # None => ops'[k].doc <= seq'
    BY <1>2
  <1>8. \A e \in Callers \ {c} : Private(c)' /\ Private(e)' => udoc'[c] # udoc'[e]
    BY <1>1, <1>2, <1>3, <1>5 DEF Inductive, WorkInv, OwnInv
  <1>9. \A k \in OpKeys : Private(c)' /\ ops'[k] # None => ops'[k].doc # udoc'[c]
    BY <1>2, <1>5 DEF Inductive, WorkInv, OwnInv
  <1>10. \A e \in Callers, d \in Callers :
            Private(e)' /\ Private(d)' /\ udoc'[e] = udoc'[d] => e = d
    BY <1>1, <1>8 DEF Inductive, WorkInv, OwnInv
  <1>11. \A e \in Callers, k \in OpKeys :
            Private(e)' /\ ops'[k] # None => ops'[k].doc # udoc'[e]
    BY <1>1, <1>9 DEF Inductive, WorkInv, OwnInv
  <1>12. \A j, k \in OpKeys :
            ops'[j] # None /\ ops'[k] # None /\ ops'[j].doc = ops'[k].doc => j = k
    BY DEF Inductive, WorkInv, OwnInv
  <1> QED BY <1>6, <1>7, <1>10, <1>11, <1>12 DEF OwnInv

(* The INSERT hands the caller's own identifier over to its operation. *)
LEMMA OwnInsert ==
    ASSUME Inductive, NEW c \in Callers, upc[c] = "claim", NEW o,
           InsertOperation(OpKey(c), Fingerprint(ureq[c]), udoc[c], o),
           upc'[c] \in {"idle", "exists", "select"}, Alone(c),
           ureq' = ureq, udoc' = udoc, seq' = seq
    PROVE  OwnInv'
  <1> DEFINE k == OpKey(c)
             new == [fp |-> Fingerprint(ureq[c]), doc |-> udoc[c],
                     state |-> "pending"]
  <1>2. k \in OpKeys /\ Keyed(c) /\ TypeInv /\ Private(c)
    BY CallerTypes DEF Inductive, TypeInv, LocalOK, Private
  <1>3. /\ \A j \in OpKeys \ {k} : ops'[j] = ops[j]
        /\ ops'[k] = ops[k] \/ (ops[k] = None /\ ops'[k] = new)
    BY <1>2 DEF InsertOperation, TypeInv, UploadTypeOK, StoresTypeOK
  <1>4. \A e \in Callers \ {c} : upc'[e] = upc[e]
    BY DEF Alone
  <1>5. /\ ~Private(c)'
        /\ \A e \in Callers \ {c} : Private(e)' <=> Private(e)
    BY <1>2, <1>4 DEF Private, Keyed
  <1>6. \A j \in OpKeys : ops'[j] # None =>
           \/ ops[j] # None /\ ops'[j].doc = ops[j].doc
           \/ j = k /\ ops'[j].doc = udoc[c]
    BY <1>3
  <1>7. \A e \in Callers : upc'[e] \notin {"idle", "allocate"} => udoc[e] <= seq
    BY <1>2, <1>4 DEF Inductive, WorkInv, OwnInv
  <1>8. \A j \in OpKeys : ops'[j] # None => ops'[j].doc <= seq
    BY <1>2, <1>6 DEF Inductive, WorkInv, OwnInv
  <1>9. \A e \in Callers, j \in OpKeys :
           Private(e)' /\ ops'[j] # None => ops'[j].doc # udoc[e]
    BY <1>2, <1>5, <1>6 DEF Inductive, WorkInv, OwnInv
  <1>10. \A i, j \in OpKeys :
            ops'[i] # None /\ ops'[j] # None /\ ops'[i].doc = ops'[j].doc => i = j
    BY <1>2, <1>6 DEF Inductive, WorkInv, OwnInv
  <1>11. \A e, d \in Callers :
            Private(e)' /\ Private(d)' /\ udoc[e] = udoc[d] => e = d
    BY <1>5 DEF Inductive, WorkInv, OwnInv
  <1> QED BY <1>2, <1>7, <1>8, <1>9, <1>10, <1>11 DEF OwnInv

-----------------------------------------------------------------------------

(* A step of caller c touches the row and the content it works on only. *)
Touches(c) ==
    /\ \A d \in DocIds : meta'[d] # meta[d] => AtContent(c) /\ d = udoc[c]
    /\ \A k \in StorageKeys :
          objects'[k] # objects[k] => AtContent(c) /\ k = BuildStorageKey(c)

LEMMA ToldKept ==
    ASSUME NEW c \in Callers, Alone(c), reports \subseteq reports',
           NEW k \in StorageKeys, NEW E,
           upc[c] = "mark_failed" /\ uout[c] \in E /\ BuildStorageKey(c) = k
              => \E x \in E : <<k, x>> \in reports'
    PROVE  Told(k, E) => Told(k, E)'
  <1> SUFFICES ASSUME Told(k, E) PROVE Told(k, E)'
    OBVIOUS
  <1>1. CASE \E x \in E : <<k, x>> \in reports
    BY <1>1 DEF Told
  <1>2. ASSUME NEW e \in Callers, upc[e] = "mark_failed", uout[e] \in E,
               BuildStorageKey(e) = k
        PROVE  Told(k, E)'
    <2>1. CASE e = c
      BY <1>2, <2>1 DEF Told
    <2>2. CASE e # c
      <3>1. BuildStorageKey(e)' = k /\ upc'[e] = upc[e] /\ uout'[e] = uout[e]
        BY <1>2, <2>2 DEF Alone, BuildStorageKey
      <3> QED BY <1>2, <3>1 DEF Told
    <2> QED BY <2>1, <2>2
  <1> QED BY <1>1, <1>2 DEF Told

LEMMA RowKey ==
    ASSUME TypeInv, NEW d \in DocIds, meta[d] # None
    PROVE  /\ StorageKeyOf(d, meta[d]) \in StorageKeys
           /\ StorageKeyOf(d, meta[d])[2] = d
  BY DEF StorageKeyOf, StorageKeys, Rows, TypeInv, UploadTypeOK, StoresTypeOK

(* An available document is intact where its key is. *)
LEMMA IntactRow ==
    ASSUME TypeInv, NEW d \in DocIds, meta[d] # None,
           meta[d].status = "available", NEW E,
           IntactAt(StorageKeyOf(d, meta[d]), E)
    PROVE  \/ objects[StorageKeyOf(d, meta[d])] = meta[d].content
           \/ Told(StorageKeyOf(d, meta[d]), E)
  <1> DEFINE k == StorageKeyOf(d, meta[d])
  <1>1. k[2] = d
    BY RowKey
  <1>2. Referenced(k)
    BY <1>1 DEF Referenced
  <1> HIDE DEF k
  <1>3. objects[k] = meta[d].content \/ Told(k, E)
    BY <1>1, <1>2 DEF IntactAt, k
  <1> QED BY <1>3 DEF k

LEMMA WorkStep ==
    ASSUME Inductive, NEW c \in Callers, Alone(c), Touches(c), OwnInv',
           PathInv(c)'
    PROVE  WorkInv'
  <1>1. ASSUME NEW e \in Callers \ {c} PROVE PathInv(e)'
    <2>1. upc'[e] = upc[e] /\ udoc'[e] = udoc[e] /\ uout'[e] = uout[e]
      BY DEF Alone
    <2>2. upc[e] \in {"put", "save", "rollback"} =>
             meta'[udoc[e]] = meta[udoc[e]]
      <3>1. AtContent(e) => udoc[e] \in DocIds
        BY CallerTypes DEF Inductive, AtContent
      <3> QED BY <3>1, OneAtContent DEF Touches, AtContent
    <2> QED BY <2>1, <2>2 DEF PathInv, Inductive, WorkInv
  <1> QED BY <1>1 DEF WorkInv

(* What remains to be shown of a step of caller c, for one key. *)
LEMMA KeyStep ==
    ASSUME Inductive, NEW c \in Callers, Alone(c), Touches(c),
           NEW k \in StorageKeys, NEW E, KeyInv(k, E),
           Told(k, E) => Told(k, E)',
           upc'[c] = "save" /\ BuildStorageKey(c)' = k =>
              objects'[k] = ureq'[c].content,
           AtContent(c) /\ k[2] = udoc[c] => IntactAt(k, E)'
    PROVE  KeyInv(k, E)'
  <1>1. k[2] \in DocIds
    BY DEF StorageKeys
  <1>2. AtContent(c) /\ k = BuildStorageKey(c) => k[2] = udoc[c]
    BY DEF BuildStorageKey
  <1>3. ASSUME NEW e \in Callers \ {c}, upc'[e] = "save",
               BuildStorageKey(e)' = k
        PROVE  objects'[k] = ureq'[e].content
    <2>1. /\ upc[e] = "save" /\ ureq'[e] = ureq[e]
          /\ BuildStorageKey(e) = k /\ udoc[e] = k[2]
      BY <1>3 DEF Alone, BuildStorageKey
    <2>2. objects'[k] = objects[k]
      BY <1>2, <2>1, OneAtContent DEF Touches, AtContent
    <2> QED BY <2>1, <2>2 DEF KeyInv
  <1>4. IntactAt(k, E)'
    <2>1. CASE AtContent(c) /\ k[2] = udoc[c]
      BY <2>1
    <2>2. CASE ~(AtContent(c) /\ k[2] = udoc[c])
      <3>1. meta'[k[2]] = meta[k[2]] /\ objects'[k] = objects[k]
        BY <1>1, <1>2, <2>2 DEF Touches
      <3>2. IntactAt(k, E)
        BY DEF KeyInv
      <3> QED BY <3>1, <3>2 DEF IntactAt, Referenced, StorageKeyOf
    <2> QED BY <2>1, <2>2
  <1> QED BY <1>3, <1>4 DEF KeyInv

KeysKept(E) == \A k \in StorageKeys : KeyInv(k, E) => KeyInv(k, E)'

(* The same for every key. *)
LEMMA ContentStep ==
    ASSUME Inductive, NEW c \in Callers, Alone(c), Touches(c), NEW E,
           OwnInv', PathInv(c)',
           \A k \in StorageKeys : Told(k, E) => Told(k, E)',
           \A k \in StorageKeys :
              upc'[c] = "save" /\ BuildStorageKey(c)' = k =>
                 objects'[k] = ureq'[c].content,
           \A k \in StorageKeys :
              AtContent(c) /\ k[2] = udoc[c] /\ KeyInv(k, E) => IntactAt(k, E)'
    PROVE  WorkInv' /\ KeysKept(E)
  <1>1. WorkInv'
    BY WorkStep
  <1>2. ASSUME NEW k \in StorageKeys, KeyInv(k, E) PROVE KeyInv(k, E)'
    BY <1>2, KeyStep
  <1> QED BY <1>1, <1>2 DEF KeysKept

(* A step that touches no row and no content. *)
LEMMA ContentQuiet ==
    ASSUME Inductive, NEW c \in Callers, Alone(c), NEW E,
           upc[c] \notin {"put", "save", "rollback", "mark_failed"},
           upc'[c] # "save", meta' = meta, objects' = objects,
           reports \subseteq reports', OwnInv', PathInv(c)'
    PROVE  WorkInv' /\ KeysKept(E)
  <1>1. Touches(c) /\ ~AtContent(c)
    BY DEF Touches, AtContent
  <1>2. \A k \in StorageKeys : Told(k, E) => Told(k, E)'
    BY ToldKept
  <1> QED BY <1>1, <1>2, ContentStep

(* A step that keeps the identifiers, after which caller c is not at the   *)
(* content, or is about to put it under a key without a row.               *)
LEMMA OwnKept ==
    ASSUME Inductive, NEW c \in Callers, Alone(c), seq' = seq,
           \A k \in OpKeys : ops'[k] # None =>
              ops[k] # None /\ ops'[k].doc = ops[k].doc,
           upc[c] \notin {"idle", "allocate"}, udoc' = udoc,
           Private(c)' => Private(c)
    PROVE  OwnInv'
  <1>1. udoc[c] \in DocIds /\ udoc[c] <= seq /\ seq \in Nat
    BY DEF Inductive, TypeInv, LocalOK, UploadTypeOK, StoresTypeOK, WorkInv,
           OwnInv
  <1> QED BY <1>1, OwnStep

LEMMA MovedDocs ==
    ASSUME TypeInv, NEW k \in OpKeys, NEW from \in UploadOperationState,
           NEW to \in UploadOperationState, NEW o, MoveOperation(k, from, to, o)
    PROVE  \A j \in OpKeys : ops'[j] # None =>
              ops[j] # None /\ ops'[j].doc = ops[j].doc
  <1>1. /\ OpsKept
        /\ \A j \in OpKeys \ {k} : ops'[j] = ops[j]
        /\ ~(Applied(o) /\ InState(k, from)) => ops'[k] = ops[k]
    BY MoveOperationKept
  <1> QED BY <1>1 DEF OpsKept, InState

LEMMA ContentRequest ==
    ASSUME Inductive, Allocated, NEW c \in Callers, NEW E, NEW r \in Requests,
           UploadDocument(c, r)
    PROVE  WorkInv' /\ KeysKept(E)
  <1>1. /\ upc[c] = "idle" /\ upc'[c] \in {"idle", "allocate"} /\ Alone(c)
        /\ meta' = meta /\ objects' = objects /\ ops' = ops /\ seq' = seq
        /\ reports' = reports
    BY DEF UploadDocument, Allocated, Refused, Alone, storeVars, Inductive,
           TypeInv, UploadTypeOK
  <1>2. PathInv(c)' /\ ~Private(c)' /\ seq \in Nat
    BY <1>1 DEF PathInv, Private, Inductive, TypeInv, UploadTypeOK, StoresTypeOK
  <1>3. OwnInv'
    BY <1>1, <1>2, OwnStep
  <1> QED BY <1>1, <1>2, <1>3, ContentQuiet

LEMMA ContentAllocate ==
    ASSUME Inductive, NEW c \in Callers, NEW E, Allocate(c)
    PROVE  WorkInv' /\ KeysKept(E)
  <1>1. PICK d \in DocIds, o \in Replies :
           /\ AllocateDocumentId(d, o)
           /\ IF o = "ok" THEN /\ udoc' = [udoc EXCEPT ![c] = d]
                               /\ Goto(c, AfterIdentifier(ureq[c]))
                          ELSE Return(c, "MetadataStoreError") /\ UNCHANGED udoc
    BY DEF Allocate
  <1>2. /\ upc[c] = "allocate" /\ ureq' = ureq /\ meta' = meta /\ ops' = ops
        /\ objects' = objects /\ TypeInv /\ seq \in Nat
    BY DEF Allocate, Inductive, TypeInv, UploadTypeOK, StoresTypeOK
  <1>3. /\ d > seq /\ d \in Nat /\ seq' \in {seq, d}
        /\ o = "ok" => seq' = d
    BY <1>1, BoundsAssumption
    DEF AllocateDocumentId, AllocatedId, Applied, DocIds
  <1>4. /\ Alone(c) /\ reports \subseteq reports'
        /\ \/ upc'[c] = "idle"
           \/ o = "ok" /\ upc'[c] \in {"exists", "claim"} /\ udoc'[c] = d
    BY <1>1, <1>2, GotoAlone, ReturnAlone, ReportsGrow
    DEF AfterIdentifier, Alone, TypeInv, UploadTypeOK
  <1>5. PathInv(c)' /\ (upc'[c] = "idle" => ~Private(c)')
    BY <1>4 DEF PathInv, Private
  <1>6. OwnInv'
    BY <1>2, <1>3, <1>4, <1>5, OwnStep
  <1> QED BY <1>2, <1>4, <1>5, <1>6, ContentQuiet

LEMMA ContentClaim ==
    ASSUME Inductive, NEW c \in Callers, NEW E, Claim(c)
    PROVE  WorkInv' /\ KeysKept(E)
  <1>1. PICK o \in Replies :
           /\ InsertOperation(OpKey(c), Fingerprint(ureq[c]), udoc[c], o)
           /\ IF o # "ok" THEN Return(c, "BackendError")
              ELSE Goto(c, IF ops[OpKey(c)] = None THEN "exists" ELSE "select")
    BY DEF Claim
  <1>2. /\ upc[c] = "claim" /\ ureq' = ureq /\ udoc' = udoc /\ meta' = meta
        /\ objects' = objects /\ seq' = seq /\ TypeInv
    BY DEF Claim, Inductive
  <1>3. /\ Alone(c) /\ reports \subseteq reports'
        /\ upc'[c] \in {"idle", "exists", "select"}
    BY <1>1, <1>2, GotoAlone, ReturnAlone, ReportsGrow DEF Alone
  <1>4. PathInv(c)'
    BY <1>3 DEF PathInv
  <1>5. OwnInv'
    BY <1>1, <1>2, <1>3, OwnInsert
  <1> QED BY <1>2, <1>3, <1>4, <1>5, ContentQuiet

LEMMA ContentRetake ==
    ASSUME Inductive, NEW c \in Callers, NEW E, upc[c] \in {"select", "reclaim"},
           Retake(c), ops[OpKey(c)] # None, ureq' = ureq, meta' = meta,
           objects' = objects, seq' = seq
    PROVE  WorkInv' /\ KeysKept(E)
  <1> DEFINE k == OpKey(c)
  <1>1. PICK o \in Replies :
           /\ MoveOperation(k, "failed", "pending", o)
           /\ \/ Reuse(c)
              \/ \E e \in {"IdempotencyInProgressError", "BackendError"} :
                    Return(c, e) /\ udoc' = udoc
    BY DEF Retake
  <1>2. k \in OpKeys /\ Keyed(c) /\ TypeInv
    BY CallerTypes DEF Inductive, TypeInv, LocalOK
  <1>3. /\ ops[k].doc \in DocIds /\ ops[k].doc <= seq /\ seq \in Nat
    BY <1>2 DEF TypeInv, UploadTypeOK, StoresTypeOK, Operations, Inductive,
                WorkInv, OwnInv
  <1>4. /\ Alone(c) /\ reports \subseteq reports'
        /\ upc'[c] = "idle" \/ (upc'[c] = "exists" /\ udoc'[c] = ops[k].doc)
    BY <1>1, <1>2, GotoAlone, ReturnAlone, ReportsGrow
    DEF Reuse, Alone, TypeInv, UploadTypeOK
  <1>5. PathInv(c)' /\ ~Private(c)'
    BY <1>2, <1>4 DEF PathInv, Private, Keyed
  <1>6. OwnInv'
    BY <1>1, <1>2, <1>3, <1>4, <1>5, MovedDocs, OwnStep DEF UploadOperationState
  <1> QED BY <1>4, <1>5, <1>6, ContentQuiet

LEMMA ContentSelect ==
    ASSUME Inductive, NEW c \in Callers, NEW E, Select(c)
    PROVE  WorkInv' /\ KeysKept(E)
  <1> DEFINE op == ops[OpKey(c)]
  <1>1. /\ upc[c] = "select" /\ op # None /\ ureq' = ureq /\ meta' = meta
        /\ objects' = objects /\ seq' = seq
    BY DEF Select
  <1>2. OpKey(c) \in OpKeys /\ Keyed(c) /\ TypeInv
    BY <1>1, CallerTypes DEF Inductive, TypeInv, LocalOK
  <1>3. /\ op.doc \in DocIds /\ op.doc <= seq /\ seq \in Nat
        /\ udoc[c] \in DocIds /\ udoc[c] <= seq
    BY <1>1, <1>2
    DEF TypeInv, LocalOK, UploadTypeOK, StoresTypeOK, Operations, Inductive,
        WorkInv, OwnInv
  <1>4. CASE Retake(c)
    BY <1>1, <1>4, ContentRetake
  <1>5. CASE /\ ops' = ops
             /\ \/ \E e \in {"BackendError", "IdempotencyConflictError",
                              "IdempotencyInProgressError"} :
                      Return(c, e) /\ udoc' = udoc
                \/ /\ udoc' = [udoc EXCEPT ![c] = op.doc]
                   /\ Goto(c, "replay")
                \/ Goto(c, "reclaim") /\ udoc' = udoc
    <2>1. /\ Alone(c) /\ reports \subseteq reports'
          /\ upc'[c] \in {"idle", "replay", "reclaim"}
          /\ udoc'[c] \in {udoc[c], op.doc}
      BY <1>1, <1>2, <1>5, GotoAlone, ReturnAlone, ReportsGrow
      DEF Alone, TypeInv, UploadTypeOK
    <2>2. PathInv(c)' /\ ~Private(c)'
      BY <2>1 DEF PathInv, Private
    <2>3. OwnInv'
      BY <1>1, <1>3, <1>5, <2>1, <2>2, OwnStep
    <2> QED BY <1>1, <2>1, <2>2, <2>3, ContentQuiet
  <1> QED BY <1>4, <1>5 DEF Select

LEMMA ContentReclaim ==
    ASSUME Inductive, NEW c \in Callers, NEW E, Reclaim(c)
    PROVE  WorkInv' /\ KeysKept(E)
  <1>1. ops[OpKey(c)] # None
    BY DEF Reclaim, Inductive, IdemInv, CallerInv, Record
  <1> QED BY <1>1, ContentRetake DEF Reclaim

LEMMA ContentReplay ==
    ASSUME Inductive, NEW c \in Callers, NEW E, Replay(c)
    PROVE  WorkInv' /\ KeysKept(E)
  <1>1. /\ upc[c] = "replay" /\ meta' = meta /\ objects' = objects /\ ops' = ops
        /\ seq' = seq /\ ureq' = ureq /\ udoc' = udoc /\ TypeInv
        /\ \E e \in {"Replayed", "DocumentNotFoundError", "MetadataStoreError"} :
              Return(c, e)
    BY DEF Replay, Inductive
  <1>2. Alone(c) /\ reports \subseteq reports' /\ upc'[c] = "idle"
    BY <1>1, ReturnAlone, ReportsGrow DEF Alone
  <1>3. PathInv(c)' /\ ~Private(c)'
    BY <1>2 DEF PathInv, Private
  <1>4. OwnInv'
    BY <1>1, <1>2, <1>3, OwnKept
  <1> QED BY <1>1, <1>2, <1>3, <1>4, ContentQuiet

LEMMA ContentCheckExists ==
    ASSUME Inductive, NEW c \in Callers, NEW E, CheckExists(c)
    PROVE  WorkInv' /\ KeysKept(E)
  <1>1. /\ upc[c] = "exists" /\ meta' = meta /\ objects' = objects /\ ops' = ops
        /\ seq' = seq /\ ureq' = ureq /\ udoc' = udoc /\ TypeInv
        /\ \/ \E e \in {"BackendError", "DuplicateDocumentError"} : Raise(c, e)
           \/ Goto(c, "put") /\ ~Exists(udoc[c])
    BY DEF CheckExists, Inductive
  <1>2. /\ Alone(c) /\ reports \subseteq reports'
        /\ \/ upc'[c] = "idle"
           \/ upc'[c] = "mark_failed"
           \/ upc'[c] = "put" /\ meta[udoc[c]] = None
    BY <1>1, RaiseAlone, GotoAlone, ReportsGrow DEF Alone, Exists
  <1>3. PathInv(c)'
    BY <1>1, <1>2 DEF PathInv
  <1>4. Private(c)' => Private(c)
    BY <1>1, <1>2 DEF Private, Keyed
  <1>5. OwnInv'
    BY <1>1, <1>2, <1>4, OwnKept
  <1> QED BY <1>1, <1>2, <1>3, <1>5, ContentQuiet

LEMMA ContentMarkSucceeded ==
    ASSUME Inductive, NEW c \in Callers, NEW E, MarkSucceeded(c)
    PROVE  WorkInv' /\ KeysKept(E)
  <1>1. PICK o \in Replies :
           /\ MarkOperation(OpKey(c), "succeeded", o)
           /\ Return(c, "Created") \/ Raise(c, "BackendError")
    BY DEF MarkSucceeded
  <1>2. /\ upc[c] = "mark_succeeded" /\ meta' = meta /\ objects' = objects
        /\ seq' = seq /\ ureq' = ureq /\ udoc' = udoc /\ TypeInv
        /\ OpKey(c) \in OpKeys
    BY CallerTypes DEF MarkSucceeded, Inductive, TypeInv, LocalOK
  <1>3. /\ Alone(c) /\ reports \subseteq reports'
        /\ upc'[c] \in {"idle", "mark_failed"}
    BY <1>1, <1>2, ReturnAlone, RaiseAlone, ReportsGrow DEF Alone
  <1>4. PathInv(c)' /\ ~Private(c)'
    BY <1>3 DEF PathInv, Private
  <1>5. OwnInv'
    BY <1>1, <1>2, <1>3, <1>4, MovedDocs, OwnKept
    DEF MarkOperation, UploadOperationState
  <1> QED BY <1>2, <1>3, <1>4, <1>5, ContentQuiet

LEMMA ContentPut ==
    ASSUME Inductive, NEW c \in Callers, NEW E, Put(c)
    PROVE  WorkInv' /\ KeysKept(E)
  <1> DEFINE k == BuildStorageKey(c)
  <1>1. PICK o \in Replies :
           /\ PutObject(k, ureq[c].content, o)
           /\ \/ Raise(c, "StorageError")
              \/ /\ upc' = [upc EXCEPT ![c] = "rollback"]
                 /\ uout' = [uout EXCEPT ![c] = "ValidationError"]
                 /\ UNCHANGED reports
              \/ o = "ok" /\ Goto(c, "save")
    BY DEF Put
  <1>2. /\ upc[c] = "put" /\ ureq' = ureq /\ udoc' = udoc /\ meta' = meta
        /\ ops' = ops /\ seq' = seq /\ TypeInv /\ k \in StorageKeys
        /\ meta[udoc[c]] = None
    BY CallerTypes DEF Put, Inductive, WorkInv, PathInv
  <1>3. /\ \A j \in StorageKeys \ {k} : objects'[j] = objects[j]
        /\ o = "ok" => objects'[k] = ureq[c].content
    BY <1>1, <1>2 DEF PutObject, Applied, TypeInv, UploadTypeOK, StoresTypeOK
  <1>4. /\ Alone(c) /\ reports \subseteq reports'
        /\ \/ upc'[c] \in {"idle", "mark_failed", "rollback"}
           \/ upc'[c] = "save" /\ o = "ok"
    BY <1>1, <1>2, RaiseAlone, GotoAlone, ReportsGrow
    DEF Alone, TypeInv, UploadTypeOK
  <1>5. PathInv(c)'
    BY <1>2, <1>3, <1>4 DEF PathInv, BuildStorageKey
  <1>6. Private(c)' => Private(c)
    BY <1>2, <1>4 DEF Private, Keyed
  <1>7. OwnInv'
    BY <1>2, <1>4, <1>6, OwnKept
  <1>8. Touches(c)
    BY <1>2, <1>3 DEF Touches, AtContent
  <1>9. \A j \in StorageKeys : Told(j, E) => Told(j, E)'
    BY <1>2, <1>4, ToldKept
  <1>10. \A j \in StorageKeys : j[2] = udoc[c] => IntactAt(j, E)'
    BY <1>2 DEF IntactAt, Referenced
  <1>11. upc'[c] = "save" => objects'[k] = ureq'[c].content /\ k = BuildStorageKey(c)'
    BY <1>2, <1>3, <1>4 DEF BuildStorageKey
  <1> QED BY <1>4, <1>5, <1>7, <1>8, <1>9, <1>10, <1>11, ContentStep

LEMMA ContentSave ==
    ASSUME Inductive, NEW c \in Callers, NEW E, Save(c)
    PROVE  WorkInv' /\ KeysKept(E)
  <1> DEFINE k == BuildStorageKey(c)
  <1>1. /\ upc[c] = "save" /\ ureq' = ureq /\ udoc' = udoc /\ objects' = objects
        /\ ops' = ops /\ seq' = seq /\ TypeInv /\ udoc[c] \in DocIds
        /\ meta[udoc[c]] = None /\ k \in StorageKeys
    BY CallerTypes DEF Save, Inductive, WorkInv, PathInv
  <1>2. PICK o \in Replies :
           /\ SaveMetadata(udoc[c], NewRow(c), o)
           /\ \/ Goto(c, "mark_succeeded")
              \/ Return(c, "Created")
              \/ /\ upc' = [upc EXCEPT ![c] = "rollback"]
                 /\ uout' = [uout EXCEPT ![c] = "ConsistencyError"]
                 /\ UNCHANGED reports
    BY <1>1 DEF Save, Exists
  <1>3. /\ \A d \in DocIds \ {udoc[c]} : meta'[d] = meta[d]
        /\ meta'[udoc[c]] \in {None, NewRow(c)}
    BY <1>1, <1>2
    DEF SaveMetadata, TypeInv, UploadTypeOK, StoresTypeOK
  <1>4. /\ Alone(c) /\ reports \subseteq reports'
        /\ \/ upc'[c] \in {"idle", "mark_succeeded"}
           \/ upc'[c] = "rollback" /\ uout'[c] = "ConsistencyError"
    BY <1>1, <1>2, ReturnAlone, GotoAlone, ReportsGrow
    DEF Alone, TypeInv, UploadTypeOK
  <1>5. PathInv(c)'
    BY <1>4 DEF PathInv
  <1>6. Private(c)' => Private(c)
    BY <1>1, <1>4 DEF Private, Keyed
  <1>7. OwnInv'
    BY <1>1, <1>4, <1>6, OwnKept
  <1>8. Touches(c)
    BY <1>1, <1>3 DEF Touches, AtContent
  <1>9. \A j \in StorageKeys : Told(j, E) => Told(j, E)'
    BY <1>1, <1>4, ToldKept
  <1>10. StorageKeyOf(udoc[c], NewRow(c)) = k /\ NewRow(c).content = ureq[c].content
    BY DEF StorageKeyOf, NewRow, BuildStorageKey
  <1>11. ASSUME NEW j \in StorageKeys, j[2] = udoc[c], KeyInv(j, E)
         PROVE  IntactAt(j, E)'
    <2>1. Referenced(j)' => j = k /\ meta'[udoc[c]] = NewRow(c)
      BY <1>3, <1>10, <1>11 DEF Referenced
    <2>2. j = k => objects[k] = ureq[c].content
      BY <1>1, <1>11 DEF KeyInv
    <2> QED BY <1>1, <1>10, <1>11, <2>1, <2>2 DEF IntactAt
  <1> QED BY <1>4, <1>5, <1>7, <1>8, <1>9, <1>11, ContentStep

LEMMA ContentRollback ==
    ASSUME Inductive, NEW c \in Callers, NEW E,
           "ConsistencyError" \in E, E \subseteq Alarms, Rollback(c)
    PROVE  WorkInv' /\ KeysKept(E)
  <1> DEFINE k == BuildStorageKey(c)
  <1>1. PICK o \in Replies :
           /\ DeleteObject(k, o)
           /\ Raise(c, IF o = "ok" THEN uout[c] ELSE "ConsistencyError")
    BY DEF Rollback
  <1>2. /\ upc[c] = "rollback" /\ ureq' = ureq /\ udoc' = udoc /\ meta' = meta
        /\ ops' = ops /\ seq' = seq /\ TypeInv /\ k \in StorageKeys /\ k' = k
        /\ udoc[c] \in DocIds
        /\ meta[udoc[c]] # None => uout[c] = "ConsistencyError"
    BY CallerTypes DEF Rollback, BuildStorageKey, Inductive, WorkInv, PathInv
  <1>3. \A j \in StorageKeys \ {k} : objects'[j] = objects[j]
    BY <1>1, <1>2 DEF DeleteObject, TypeInv, UploadTypeOK, StoresTypeOK
  <1>4. /\ Alone(c) /\ reports \subseteq reports'
        /\ upc'[c] \in {"idle", "mark_failed"}
    BY <1>1, <1>2, RaiseAlone, ReportsGrow DEF Alone
  <1>5. PathInv(c)' /\ ~Private(c)'
    BY <1>4 DEF PathInv, Private
  <1>6. OwnInv'
    BY <1>2, <1>4, <1>5, OwnKept
  <1>7. Touches(c)
    BY <1>2, <1>3 DEF Touches, AtContent
  <1>8. \A j \in StorageKeys : Told(j, E) => Told(j, E)'
    BY <1>2, <1>4, ToldKept
  <1>9. ASSUME meta[udoc[c]] # None PROVE Told(k, E)'
    <2>1. Raise(c, "ConsistencyError")
      BY <1>1, <1>2, <1>9
    <2>2. CASE Keyed(c)
      BY <1>2, <2>1, <2>2, RaiseAlone DEF Told
    <2>3. CASE ~Keyed(c)
      <3>1. <<k, "ConsistencyError">> \in reports'
        BY <2>1, <2>3 DEF Raise, Return, Alarms
      <3> QED BY <1>2, <3>1 DEF Told
    <2> QED BY <2>2, <2>3
  <1>10. ASSUME NEW j \in StorageKeys, j[2] = udoc[c], KeyInv(j, E)
         PROVE  IntactAt(j, E)'
    <2>1. CASE j = k
      BY <1>2, <1>9, <2>1 DEF IntactAt, Referenced, BuildStorageKey
    <2>2. CASE j # k
      BY <1>2, <1>3, <1>8, <1>10, <2>2
      DEF KeyInv, IntactAt, Referenced, StorageKeyOf
    <2> QED BY <2>1, <2>2
  <1> QED BY <1>4, <1>5, <1>6, <1>7, <1>8, <1>10, ContentStep

LEMMA ContentMarkFailed ==
    ASSUME Inductive, NEW c \in Callers, NEW E, E \subseteq Alarms,
           MarkFailed(c)
    PROVE  WorkInv' /\ KeysKept(E)
  <1>1. /\ upc[c] = "mark_failed" /\ ureq' = ureq /\ udoc' = udoc /\ seq' = seq
        /\ meta' = meta /\ objects' = objects /\ Return(c, uout[c]) /\ TypeInv
        /\ \E o \in Replies : MarkOperation(OpKey(c), "failed", o)
        /\ OpKey(c) \in OpKeys
    BY CallerTypes DEF MarkFailed, Inductive, TypeInv, LocalOK
  <1>2. Alone(c) /\ reports \subseteq reports' /\ upc'[c] = "idle"
    BY <1>1, ReturnAlone, ReportsGrow DEF Alone
  <1>3. PathInv(c)' /\ ~Private(c)'
    BY <1>2 DEF PathInv, Private
  <1>4. OwnInv'
    BY <1>1, <1>2, <1>3, MovedDocs, OwnKept DEF MarkOperation, UploadOperationState
  <1>5. uout[c] \in E => <<BuildStorageKey(c), uout[c]>> \in reports'
    BY <1>1 DEF Return
  <1>6. \A k \in StorageKeys : Told(k, E) => Told(k, E)'
    BY <1>2, <1>5, ToldKept
  <1>7. Touches(c) /\ ~AtContent(c)
    BY <1>1 DEF Touches, AtContent
  <1> QED BY <1>2, <1>3, <1>4, <1>6, <1>7, ContentStep

LEMMA ContentCrash ==
    ASSUME Inductive, NEW c \in Callers, NEW E, "Crashed" \in E,
           Crash(c)
    PROVE  WorkInv' /\ KeysKept(E)
  <1>1. /\ meta' = meta /\ objects' = objects /\ ops' = ops /\ seq' = seq
        /\ ureq' = ureq /\ udoc' = udoc /\ TypeInv /\ Alone(c)
        /\ upc'[c] = "idle" /\ reports \subseteq reports' /\ seq \in Nat
    BY DEF Crash, Die, Alone, Inductive, TypeInv, UploadTypeOK, StoresTypeOK
  <1>2. PathInv(c)' /\ ~Private(c)'
    BY <1>1 DEF PathInv, Private
  <1>3. OwnInv'
    BY <1>1, <1>2, OwnStep
  <1>4. upc[c] = "mark_failed" => <<BuildStorageKey(c), "Crashed">> \in reports'
    BY DEF Crash
  <1>5. \A k \in StorageKeys : Told(k, E) => Told(k, E)'
    BY <1>1, <1>4, ToldKept
  <1>6. Touches(c)
    BY <1>1 DEF Touches
  <1>7. ASSUME NEW k \in StorageKeys, KeyInv(k, E) PROVE IntactAt(k, E)'
    BY <1>1, <1>5, <1>7 DEF KeyInv, IntactAt, Referenced, StorageKeyOf
  <1> QED BY <1>1, <1>2, <1>3, <1>5, <1>6, <1>7, ContentStep

(* The host's errors about a row that may lack its content: those of its   *)
(* registration, and its own death.                                        *)
Serious == {"ConsistencyError", "Crashed"}

LEMMA WorkInit ==
    Init => WorkInv /\ \A k \in StorageKeys, E \in SUBSET Alarms : KeyInv(k, E)
  BY DEF Init, StoresInit, UploadInit, WorkInv, OwnInv, PathInv, Private,
         KeyInv, IntactAt, Referenced, StorageKeys

(* Every step but a crash, of which not every host learns as an error. *)
LEMMA ContentNext ==
    ASSUME Inductive, Allocated, NEW c \in Callers, NEW E,
           "ConsistencyError" \in E, E \subseteq Alarms,
           UploadStep(c) \/ \E r \in Requests : UploadDocument(c, r)
    PROVE  WorkInv' /\ KeysKept(E)
  BY ContentRequest, ContentAllocate, ContentClaim, ContentSelect,
     ContentReclaim, ContentReplay, ContentCheckExists, ContentPut,
     ContentSave, ContentRollback, ContentMarkSucceeded, ContentMarkFailed
  DEF UploadStep

LEMMA ContentIdle ==
    ASSUME Inductive, NEW E, UNCHANGED vars
    PROVE  WorkInv' /\ KeysKept(E)
  <1>1. WorkInv'
    <2>1. WorkInv
      BY DEF Inductive
    <2> QED BY <2>1 DEF WorkInv, OwnInv, PathInv, Private, Keyed, vars,
                        storeVars, uploadVars
  <1>2. KeysKept(E)
    BY DEF KeysKept, KeyInv, IntactAt, Referenced, Told, BuildStorageKey, vars,
           storeVars, uploadVars
  <1> QED BY <1>1, <1>2

LEMMA IntactMeaning ==
    ASSUME TypeInv, \A k \in StorageKeys : KeyInv(k, Serious)
    PROVE  ContentIntact
  BY RowKey, IntactRow DEF ContentIntact, KeyInv, Serious

(***************************************************************************)
(* Where identifiers are allocated, an available document has the content  *)
(* its row describes, or its host was told of a failed registration: the   *)
(* rollback of one registration never takes away the content of another.   *)
(* The hypothesis is needed: two registrations without a key may name the  *)
(* same identifier, both pass the check that it is free, and the loser's   *)
(* rollback removes what the winner registered.                            *)
(***************************************************************************)
THEOREM AllocatedContentIntact ==
    ASSUME Allocated
    PROVE  Spec => []ContentIntact
  <1> DEFINE Intact == \A k \in StorageKeys : KeyInv(k, Serious)
  <1>1. Init => Inductive /\ Intact
    BY TypeInit, IdemInit, WorkInit DEF Inductive, Serious, Alarms
  <1>2. Inductive /\ Intact /\ [UploadNext]_vars => Inductive' /\ Intact'
    <2> SUFFICES ASSUME Inductive, Intact, [UploadNext]_vars
                 PROVE  Inductive' /\ Intact'
      OBVIOUS
    <2>1. WorkInv' /\ KeysKept(Serious)
      BY Allocated, ContentNext, ContentCrash, ContentIdle
      DEF UploadNext, Serious, Alarms
    <2>2. TypeInv' /\ IdemInv'
      BY TypeStep, IdemStep DEF Inductive
    <2>3. Intact'
      BY <2>1 DEF KeysKept
    <2> QED BY <2>1, <2>2, <2>3 DEF Inductive
  <1>3. Inductive /\ Intact => ContentIntact
    BY IntactMeaning DEF Inductive
  <1> QED BY <1>1, <1>2, <1>3, PTL DEF Spec
=============================================================================
