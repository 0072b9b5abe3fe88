------------------------ MODULE UploadRegistryProofs ------------------------
(***************************************************************************)
(* The upload service implements the registry, for every set of callers    *)
(* and requests and every number of failing calls, lost replies and        *)
(* crashes: the initial states map to initial states, and every step of    *)
(* the service is a step of the registry or leaves it alone.               *)
(***************************************************************************)
EXTENDS UploadRegistry, UploadServiceProofs

USE DEF TypeOK

-----------------------------------------------------------------------------
(* The invariant of the refinement *)

(* The request, its document and what is recorded of it, at each point. *)
RequestInv(c) ==
    /\ upc[c] # "idle" => ~Refused(ureq[c])
    /\ upc[c] = "save" => ~EndsEarly(ureq[c])
    /\ upc[c] = "allocate" => ureq[c].doc = None
    /\ upc[c] \notin {"idle", "allocate"} /\ ureq[c].doc # None =>
          udoc[c] = ureq[c].doc
    /\ upc[c] = "mark_succeeded" => <<OpKey(c), udoc[c]>> \in settled
    /\ upc[c] \in {"rollback", "mark_failed"} => uout[c] # "None"

(* An operation is about the document its request names, if it names one,  *)
(* and has succeeded only after its document was saved.                    *)
OperationsInv ==
    \A k \in OpKeys :
       /\ ops[k] # None /\ ops[k].fp.doc # None => ops[k].doc = ops[k].fp.doc
       /\ InState(k, "succeeded") => <<k, ops[k].doc>> \in settled

RegistryInv == OperationsInv /\ \A c \in Callers : RequestInv(c)

-----------------------------------------------------------------------------
(* The mapping of a step *)

LEMMA MappedInit == Init => Abstract!Init
  BY DEF Init, StoresInit, UploadInit, Abstract!Init, Registered, Phase,
         Answered, Abstract!Nothing

(* A step of caller c moves its own phase and answer only. *)
LEMMA MappedMove ==
    ASSUME TypeInv, NEW c \in Callers, Alone(c),
           NEW p, NEW t, Phase(c)' = p, Answered(c)' = t
    PROVE  Abstract!Move(c, p, t)
  <1>1. \A e \in Callers \ {c} :
           Phase(e)' = Phase(e) /\ Answered(e)' = Answered(e)
    BY DEF Alone, Phase, Answered
  <1> QED BY <1>1 DEF Abstract!Move

Refines == [Abstract!Next]_(Abstract!vars)

NoResult == {"None", "Created", "Replayed"}

(***************************************************************************)
(* A step of a running call that registers and answers nothing: it goes on *)
(* towards save(), gives up with an exception in flight, or raises it.     *)
(***************************************************************************)
Onward(c) ==
    /\ upc[c] # "idle"
    /\ Alone(c)
    /\ meta' = meta /\ settled' = settled /\ ureq' = ureq
    /\ \/ upc'[c] \in {"idle", "rollback", "mark_failed"} /\ uout'[c] \notin NoResult
       \/ /\ Phase(c) = "open"
          /\ upc'[c] \in {"claim", "select", "reclaim", "replay", "exists",
                          "put", "save"}
          /\ upc'[c] = "save" => ~EndsEarly(ureq[c])
    /\ upc'[c] # "idle" /\ ureq[c].doc # None => udoc'[c] = ureq[c].doc

LEMMA OnwardRefines ==
    ASSUME TypeInv, NEW c \in Callers, Onward(c)
    PROVE  Refines
  <1>2. /\ [d \in DocIds |-> Registered(d)]' = [d \in DocIds |-> Registered(d)]
        /\ [k \in OpKeys |-> {d \in DocIds : <<k, d>> \in settled}]' =
              [k \in OpKeys |-> {d \in DocIds : <<k, d>> \in settled}]
        /\ ureq' = ureq
    BY DEF Onward, Registered
  <1>3. CASE upc'[c] = "idle" /\ uout'[c] \notin NoResult
    <2>1. Phase(c)' = "idle" /\ Answered(c)' = <<"error">> /\ Phase(c) # "idle"
      BY <1>3 DEF Phase, Answered, NoResult, Onward
    <2>2. Abstract!Fail(c)
      BY <1>2, <2>1, MappedMove DEF Onward, Abstract!Fail, Abstract!Failure
    <2> QED BY <2>2 DEF Refines, Abstract!Next
  <1>4. CASE upc'[c] \in {"rollback", "mark_failed"} /\ Phase(c) = "open"
    <2>1. Phase(c)' = "closing" /\ Answered(c)' = <<>>
      BY <1>4 DEF Phase, Answered
    <2>2. Abstract!GiveUp(c)
      BY <1>2, <1>4, <2>1, MappedMove
      DEF Onward, Abstract!GiveUp, Abstract!Nothing
    <2> QED BY <2>2 DEF Refines, Abstract!Next
  <1>5. CASE upc'[c] # "idle" /\ Phase(c)' = Phase(c)
    <2>1. Answered(c)' = Answered(c)
      BY <1>5 DEF Answered, Onward
    <2>2. \A e \in Callers : Phase(e)' = Phase(e) /\ Answered(e)' = Answered(e)
      BY <1>5, <2>1 DEF Phase, Answered, Onward, Alone
    <2> QED BY <1>2, <2>2 DEF Refines, Abstract!vars
  <1> QED BY <1>3, <1>4, <1>5 DEF Onward, Phase, NoResult

(* What remains to be shown of a step of caller c. *)
LEMMA RegistryStep ==
    ASSUME TypeInv, RegistryInv, NEW c \in Callers, Alone(c),
           settled \subseteq settled', OperationsInv', RequestInv(c)'
    PROVE  RegistryInv'
  <1>1. ASSUME NEW e \in Callers \ {c} PROVE RequestInv(e)'
    <2>1. /\ upc'[e] = upc[e] /\ ureq'[e] = ureq[e]
          /\ udoc'[e] = udoc[e] /\ uout'[e] = uout[e] /\ OpKey(e)' = OpKey(e)
      BY DEF Alone, OpKey
    <2> QED BY <2>1 DEF RegistryInv, RequestInv, Refused, EndsEarly
  <1> QED BY <1>1 DEF RegistryInv

LEMMA OnwardInv ==
    ASSUME TypeInv, RegistryInv, NEW c \in Callers, Onward(c), OperationsInv'
    PROVE  RegistryInv'
  <1>1. upc'[c] \notin {"allocate", "mark_succeeded"} /\ ureq'[c] = ureq[c]
    BY DEF Onward
  <1>2. RequestInv(c)'
    BY <1>1
    DEF Onward, RegistryInv, RequestInv, Refused, EndsEarly, NoResult
  <1> QED BY <1>2, RegistryStep DEF Onward

(* Operations that did not move, or moved but not to succeeded. *)
LEMMA OperationsKept ==
    ASSUME TypeInv, RegistryInv, settled \subseteq settled', ops' = ops
    PROVE  OperationsInv'
  BY DEF RegistryInv, OperationsInv, InState

LEMMA OperationsMoved ==
    ASSUME TypeInv, RegistryInv, NEW k \in OpKeys,
           NEW from \in UploadOperationState, NEW to \in UploadOperationState,
           NEW o, MoveOperation(k, from, to, o), settled' = settled,
           to = "succeeded" => <<k, ops[k].doc>> \in settled
    PROVE  OperationsInv'
  <1>1. /\ OpsKept
        /\ \A j \in OpKeys \ {k} : ops'[j] = ops[j]
        /\ Applied(o) /\ InState(k, from) => ops'[k].state = to
        /\ ~(Applied(o) /\ InState(k, from)) => ops'[k] = ops[k]
    BY MoveOperationKept
  <1>2. ASSUME NEW j \in OpKeys, ops'[j] = ops[j]
        PROVE  /\ ops'[j] # None /\ ops'[j].fp.doc # None =>
                     ops'[j].doc = ops'[j].fp.doc
               /\ InState(j, "succeeded")' => <<j, ops'[j].doc>> \in settled'
    BY <1>2 DEF RegistryInv, OperationsInv, InState
  <1>3. CASE Applied(o) /\ InState(k, from)
    <2>1. /\ ops[k] # None /\ ops'[k].state = to
          /\ ops'[k].doc = ops[k].doc /\ ops'[k].fp = ops[k].fp
      BY <1>1, <1>3 DEF InState, OpsKept
    <2>2. /\ ops'[k] # None /\ ops'[k].fp.doc # None =>
                 ops'[k].doc = ops'[k].fp.doc
          /\ InState(k, "succeeded")' => <<k, ops'[k].doc>> \in settled'
      BY <2>1 DEF RegistryInv, OperationsInv, InState
    <2> QED BY <1>1, <1>2, <2>2 DEF OperationsInv
  <1>4. CASE ~(Applied(o) /\ InState(k, from))
    BY <1>1, <1>2, <1>4 DEF OperationsInv
  <1> QED BY <1>3, <1>4

-----------------------------------------------------------------------------
(* The actions *)

LEMMA AskRefines ==
    ASSUME TypeInv, RegistryInv, NEW c \in Callers, NEW r \in Requests,
           UploadDocument(c, r)
    PROVE  RegistryInv' /\ Refines
  <1>1. /\ upc[c] = "idle" /\ ureq' = [ureq EXCEPT ![c] = r] /\ ureq'[c] = r
        /\ udoc'[c] = r.doc /\ Alone(c)
        /\ meta' = meta /\ ops' = ops /\ settled' = settled
        /\ \/ /\ Refused(r)
              /\ uout'[c] = "ValidationError" /\ upc'[c] = "idle"
           \/ /\ ~Refused(r) /\ uout'[c] = "None"
              /\ \/ upc'[c] = "allocate" /\ r.doc = None
                 \/ upc'[c] \in {"exists", "claim"}
    <2>1. /\ upc[c] = "idle" /\ ureq' = [ureq EXCEPT ![c] = r]
          /\ udoc' = [udoc EXCEPT ![c] = r.doc]
          /\ meta' = meta /\ ops' = ops /\ settled' = settled
      BY DEF UploadDocument, storeVars
    <2>2. CASE Refused(r)
      BY <2>1, <2>2 DEF UploadDocument, Alone, TypeInv, UploadTypeOK
    <2>3. CASE ~Refused(r)
      BY <2>1, <2>3
      DEF UploadDocument, AfterIdentifier, Alone, TypeInv, UploadTypeOK
    <2> QED BY <2>2, <2>3
  <1>2. RequestInv(c)'
    BY <1>1 DEF RequestInv, Refused
  <1>3. RegistryInv'
    BY <1>1, <1>2, OperationsKept, RegistryStep
  <1>5. /\ Phase(c) = "idle"
        /\ [d \in DocIds |-> Registered(d)]' = [d \in DocIds |-> Registered(d)]
        /\ [k \in OpKeys |-> {d \in DocIds : <<k, d>> \in settled}]' =
              [k \in OpKeys |-> {d \in DocIds : <<k, d>> \in settled}]
    BY <1>1 DEF Registered, Phase
  <1>6. \/ Phase(c)' = "open" /\ Answered(c)' = <<>>
        \/ /\ r.input = "invalid"
           /\ Phase(c)' = "idle" /\ Answered(c)' = <<"error">>
    BY <1>1 DEF Phase, Answered, Refused
  <1>7. Abstract!Ask(c, r)
    BY <1>1, <1>5, <1>6, MappedMove
    DEF Abstract!Ask, Abstract!Nothing, Abstract!Failure
  <1> QED BY <1>3, <1>7 DEF Refines, Abstract!Next

(* The three ways on: an exception ends the call or is being raised, or    *)
(* the next store call is made.                                            *)
LEMMA ReturnOnward ==
    ASSUME TypeInv, NEW c \in Callers, upc[c] # "idle",
           NEW e, e \notin NoResult, Return(c, e),
           meta' = meta, settled' = settled, ureq' = ureq,
           \A d \in Callers \ {c} : udoc'[d] = udoc[d]
    PROVE  Onward(c)
  BY ReturnAlone DEF Onward, Alone

LEMMA RaiseOnward ==
    ASSUME TypeInv, RegistryInv, NEW c \in Callers,
           upc[c] \notin {"idle", "allocate"},
           NEW e, e \notin NoResult, Raise(c, e),
           meta' = meta, settled' = settled, ureq' = ureq, udoc' = udoc
    PROVE  Onward(c)
  BY RaiseAlone DEF Onward, Alone, RegistryInv, RequestInv

LEMMA GotoOnward ==
    ASSUME TypeInv, NEW c \in Callers, upc[c] # "idle", Phase(c) = "open",
           NEW p \in {"claim", "select", "reclaim", "replay", "exists", "put",
                     "save"},
           p = "save" => ~EndsEarly(ureq[c]), Goto(c, p),
           meta' = meta, settled' = settled, ureq' = ureq,
           \A d \in Callers \ {c} : udoc'[d] = udoc[d],
           ureq[c].doc # None => udoc'[c] = ureq[c].doc
    PROVE  Onward(c)
  BY GotoAlone DEF Onward, Alone

LEMMA OnwardStep ==
    ASSUME TypeInv, RegistryInv, NEW c \in Callers, Onward(c), OperationsInv'
    PROVE  RegistryInv' /\ Refines
  BY OnwardInv, OnwardRefines

LEMMA AllocateRefines ==
    ASSUME TypeInv, RegistryInv, NEW c \in Callers, Allocate(c)
    PROVE  RegistryInv' /\ Refines
  <1>1. PICK d \in DocIds, o \in Replies :
           IF o = "ok" THEN /\ udoc' = [udoc EXCEPT ![c] = d]
                            /\ Goto(c, AfterIdentifier(ureq[c]))
                       ELSE Return(c, "MetadataStoreError") /\ UNCHANGED udoc
    BY DEF Allocate
  <1>2. /\ upc[c] = "allocate" /\ ureq' = ureq /\ meta' = meta /\ ops' = ops
        /\ settled' = settled /\ ureq[c].doc = None
    BY DEF Allocate, RegistryInv, RequestInv
  <1>3. CASE o = "ok"
    <2>1. \A e \in Callers \ {c} : udoc'[e] = udoc[e]
      BY <1>1, <1>3 DEF TypeInv, UploadTypeOK
    <2>2. Onward(c)
      BY <1>1, <1>2, <1>3, <2>1, GotoOnward DEF AfterIdentifier, Phase
    <2> QED BY <1>2, <2>2, OperationsKept, OnwardStep
  <1>4. CASE o # "ok"
    <2>1. Onward(c)
      BY <1>1, <1>2, <1>4, ReturnOnward DEF NoResult
    <2> QED BY <1>2, <2>1, OperationsKept, OnwardStep
  <1> QED BY <1>3, <1>4

LEMMA ClaimRefines ==
    ASSUME TypeInv, RegistryInv, NEW c \in Callers, Claim(c)
    PROVE  RegistryInv' /\ Refines
  <1> DEFINE k == OpKey(c)
             new == [fp |-> Fingerprint(ureq[c]), doc |-> udoc[c],
                     state |-> "pending"]
  <1>1. PICK o \in Replies :
           /\ InsertOperation(k, Fingerprint(ureq[c]), udoc[c], o)
           /\ IF o # "ok" THEN Return(c, "BackendError")
              ELSE Goto(c, IF ops[k] = None THEN "exists" ELSE "select")
    BY DEF Claim
  <1>2. /\ upc[c] = "claim" /\ ureq' = ureq /\ udoc' = udoc /\ meta' = meta
        /\ settled' = settled /\ k \in OpKeys
        /\ ureq[c].doc # None => udoc[c] = ureq[c].doc
    BY CallerTypes DEF Claim, TypeInv, LocalOK, RegistryInv, RequestInv
  <1>3. Onward(c)
    <2>1. CASE o # "ok"
      BY <1>1, <1>2, <2>1, ReturnOnward DEF NoResult
    <2>2. CASE o = "ok"
      BY <1>1, <1>2, <2>2, GotoOnward DEF Phase
    <2> QED BY <2>1, <2>2
  <1>4. /\ \A j \in OpKeys \ {k} : ops'[j] = ops[j]
        /\ ops'[k] \in {ops[k], new}
    BY <1>1, <1>2
    DEF InsertOperation, TypeInv, UploadTypeOK, StoresTypeOK
  <1>5. new.fp.doc = ureq[c].doc /\ new.doc = udoc[c] /\ new.state = "pending"
    BY DEF Fingerprint
  <1>6. OperationsInv'
    BY <1>2, <1>4, <1>5 DEF RegistryInv, OperationsInv, InState
  <1> QED BY <1>3, <1>6, OnwardStep

(* A request that names its document names the one of its operation. *)
LEMMA SameIdentifier ==
    ASSUME RegistryInv, NEW k \in OpKeys, ops[k] # None,
           NEW r, ops[k].fp = Fingerprint(r), r.doc # None
    PROVE  ops[k].doc = r.doc
  <1>1. ops[k].fp.doc = r.doc
    BY DEF Fingerprint
  <1> QED BY <1>1 DEF RegistryInv, OperationsInv

LEMMA RetakeRefines ==
    ASSUME TypeInv, RegistryInv, NEW c \in Callers,
           upc[c] \in {"select", "reclaim"}, Retake(c),
           Record(c) # None, Record(c).fp = Fingerprint(ureq[c]),
           meta' = meta, ureq' = ureq, settled' = settled
    PROVE  RegistryInv' /\ Refines
  <1> DEFINE k == OpKey(c)
  <1>1. PICK o \in Replies :
           /\ MoveOperation(k, "failed", "pending", o)
           /\ \/ Reuse(c)
              \/ \E e \in {"IdempotencyInProgressError", "BackendError"} :
                    Return(c, e) /\ udoc' = udoc
    BY DEF Retake
  <1>2. k \in OpKeys /\ Phase(c) = "open" /\ upc[c] # "idle"
    BY CallerTypes DEF TypeInv, LocalOK, Phase
  <1>3. OperationsInv'
    BY <1>1, <1>2, OperationsMoved DEF UploadOperationState
  <1>4. Onward(c)
    <2>1. CASE Reuse(c)
      <3>1. /\ Goto(c, "exists") /\ udoc'[c] = Record(c).doc
            /\ \A e \in Callers \ {c} : udoc'[e] = udoc[e]
        BY <2>1 DEF Reuse, Record, TypeInv, UploadTypeOK
      <3>2. ureq[c].doc # None => Record(c).doc = ureq[c].doc
        BY <1>2, SameIdentifier DEF Record
      <3> QED BY <1>2, <3>1, <3>2, GotoOnward
    <2>2. CASE \E e \in {"IdempotencyInProgressError", "BackendError"} :
                  Return(c, e) /\ udoc' = udoc
      BY <1>2, <2>2, ReturnOnward DEF NoResult
    <2> QED BY <1>1, <2>1, <2>2
  <1> QED BY <1>3, <1>4, OnwardStep

LEMMA SelectRefines ==
    ASSUME TypeInv, RegistryInv, NEW c \in Callers, Select(c)
    PROVE  RegistryInv' /\ Refines
  <1> DEFINE op == ops[OpKey(c)]
  <1>1. /\ upc[c] = "select" /\ op # None /\ meta' = meta /\ ureq' = ureq
        /\ settled' = settled /\ OpKey(c) \in OpKeys /\ Phase(c) = "open"
        /\ ureq[c].doc # None => udoc[c] = ureq[c].doc
    BY CallerTypes
    DEF Select, TypeInv, LocalOK, RegistryInv, RequestInv, Phase
  <1>2. ASSUME NEW e \in {"BackendError", "IdempotencyConflictError",
                          "IdempotencyInProgressError"},
               Return(c, e), UNCHANGED <<ops, udoc>>
        PROVE  RegistryInv' /\ Refines
    <2>1. Onward(c)
      BY <1>1, <1>2, ReturnOnward DEF NoResult
    <2> QED BY <1>1, <1>2, <2>1, OperationsKept, OnwardStep
  <1>3. CASE op.fp = Fingerprint(ureq[c]) /\ Retake(c)
    BY <1>1, <1>3, RetakeRefines DEF Record
  <1>4. CASE /\ op.fp = Fingerprint(ureq[c])
             /\ udoc' = [udoc EXCEPT ![c] = op.doc]
             /\ Goto(c, "replay") /\ ops' = ops
    <2>1. /\ udoc'[c] = op.doc
          /\ \A e \in Callers \ {c} : udoc'[e] = udoc[e]
          /\ ureq[c].doc # None => op.doc = ureq[c].doc
      BY <1>1, <1>4, SameIdentifier DEF TypeInv, UploadTypeOK
    <2>2. Onward(c)
      BY <1>1, <1>4, <2>1, GotoOnward
    <2> QED BY <1>1, <1>4, <2>2, OperationsKept, OnwardStep
  <1>5. CASE Goto(c, "reclaim") /\ UNCHANGED <<ops, udoc>>
    <2>1. Onward(c)
      BY <1>1, <1>5, GotoOnward
    <2> QED BY <1>1, <1>5, <2>1, OperationsKept, OnwardStep
  <1> QED BY <1>2, <1>3, <1>4, <1>5 DEF Select, Matches

LEMMA ReclaimRefines ==
    ASSUME TypeInv, IdemInv, RegistryInv, NEW c \in Callers, Reclaim(c)
    PROVE  RegistryInv' /\ Refines
  <1>1. Record(c) # None /\ Record(c).fp = Fingerprint(ureq[c])
    BY DEF Reclaim, IdemInv, CallerInv
  <1> QED BY <1>1, RetakeRefines DEF Reclaim

LEMMA CheckExistsRefines ==
    ASSUME TypeInv, RegistryInv, NEW c \in Callers, CheckExists(c)
    PROVE  RegistryInv' /\ Refines
  <1>1. /\ upc[c] = "exists" /\ Phase(c) = "open"
        /\ meta' = meta /\ ops' = ops /\ ureq' = ureq /\ udoc' = udoc
        /\ settled' = settled /\ (ureq[c].doc # None => udoc[c] = ureq[c].doc)
        /\ \/ \E e \in {"BackendError", "DuplicateDocumentError"} : Raise(c, e)
           \/ Goto(c, "put")
    BY DEF CheckExists, Phase, RegistryInv, RequestInv
  <1>2. Onward(c)
    BY <1>1, RaiseOnward, GotoOnward DEF NoResult
  <1> QED BY <1>1, <1>2, OperationsKept, OnwardStep

LEMMA PutRefines ==
    ASSUME TypeInv, RegistryInv, NEW c \in Callers, Put(c)
    PROVE  RegistryInv' /\ Refines
  <1>1. /\ upc[c] = "put" /\ Phase(c) = "open"
        /\ meta' = meta /\ ops' = ops /\ ureq' = ureq /\ udoc' = udoc
        /\ settled' = settled /\ (ureq[c].doc # None => udoc[c] = ureq[c].doc)
        /\ \/ Raise(c, "StorageError")
           \/ /\ upc' = [upc EXCEPT ![c] = "rollback"]
              /\ uout' = [uout EXCEPT ![c] = "ValidationError"]
           \/ ~EndsEarly(ureq[c]) /\ Goto(c, "save")
    BY DEF Put, Phase, RegistryInv, RequestInv
  <1>2. Onward(c)
    <2>1. CASE /\ upc' = [upc EXCEPT ![c] = "rollback"]
               /\ uout' = [uout EXCEPT ![c] = "ValidationError"]
      BY <1>1, <2>1 DEF Onward, Alone, NoResult, TypeInv, UploadTypeOK
    <2> QED BY <1>1, <2>1, RaiseOnward, GotoOnward DEF NoResult
  <1> QED BY <1>1, <1>2, OperationsKept, OnwardStep

LEMMA RollbackRefines ==
    ASSUME TypeInv, IdemInv, RegistryInv, NEW c \in Callers, Rollback(c)
    PROVE  RegistryInv' /\ Refines
  <1>1. /\ upc[c] = "rollback"
        /\ meta' = meta /\ ops' = ops /\ ureq' = ureq /\ udoc' = udoc
        /\ settled' = settled
        /\ \E e \in {uout[c], "ConsistencyError"} : Raise(c, e)
    BY DEF Rollback
  <1>2. uout[c] \notin NoResult
    BY <1>1, NoResultYet DEF RegistryInv, RequestInv, NoResult
  <1>3. Onward(c)
    BY <1>1, <1>2, RaiseOnward DEF NoResult
  <1> QED BY <1>1, <1>3, OperationsKept, OnwardStep

LEMMA MarkFailedRefines ==
    ASSUME TypeInv, IdemInv, RegistryInv, NEW c \in Callers, MarkFailed(c)
    PROVE  RegistryInv' /\ Refines
  <1>1. PICK o \in Replies : MarkOperation(OpKey(c), "failed", o)
    BY DEF MarkFailed
  <1>2. /\ upc[c] = "mark_failed" /\ meta' = meta /\ ureq' = ureq
        /\ udoc' = udoc /\ settled' = settled /\ Return(c, uout[c])
        /\ OpKey(c) \in OpKeys
    BY CallerTypes DEF MarkFailed, TypeInv, LocalOK
  <1>3. uout[c] \notin NoResult
    BY <1>2, NoResultYet DEF RegistryInv, RequestInv, NoResult
  <1>4. Onward(c)
    BY <1>2, <1>3, ReturnOnward
  <1>5. OperationsInv'
    BY <1>1, <1>2, OperationsMoved DEF MarkOperation, UploadOperationState
  <1> QED BY <1>4, <1>5, OnwardStep

LEMMA CrashRefines ==
    ASSUME TypeInv, RegistryInv, NEW c \in Callers, Crash(c)
    PROVE  RegistryInv' /\ Refines
  <1>1. Onward(c) /\ ops' = ops /\ settled' = settled
    BY DEF Crash, Die, Onward, Alone, NoResult, TypeInv, UploadTypeOK
  <1> QED BY <1>1, OperationsKept, OnwardStep

Given(k) == {d \in DocIds : <<k, d>> \in settled}

(* An operation key is given one document at most. *)
LEMMA GivenOne ==
    ASSUME IdemInv, NEW k \in OpKeys, NEW d \in DocIds, <<k, d>> \in settled
    PROVE  Given(k) = {d}
  BY DEF Given, IdemInv, SettledInv

(* The answer with a document, new or replayed, of a keyed request. *)
LEMMA AnswerRefines ==
    ASSUME TypeInv, IdemInv, RegistryInv, NEW c \in Callers,
           upc[c] # "idle", Keyed(c), OpKey(c) \in OpKeys, udoc[c] \in DocIds,
           <<OpKey(c), udoc[c]>> \in settled, RegisteredFrom(udoc[c], ureq[c]),
           NEW res \in {"Created", "Replayed"}, Return(c, res),
           meta' = meta, settled' = settled, ureq' = ureq, udoc' = udoc,
           OperationsInv'
    PROVE  RegistryInv' /\ Refines
  <1>1. Alone(c) /\ upc'[c] = "idle" /\ uout'[c] = res
    BY ReturnAlone DEF Alone
  <1>2. RequestInv(c)'
    BY <1>1 DEF RequestInv
  <1>3. RegistryInv'
    BY <1>1, <1>2, RegistryStep
  <1>4. /\ Phase(c) # "idle"
        /\ Phase(c)' = "idle" /\ Answered(c)' = <<"document", udoc[c]>>
    BY <1>1 DEF Phase, Answered
  <1>5. /\ [d \in DocIds |-> Registered(d)]' = [d \in DocIds |-> Registered(d)]
        /\ [k \in OpKeys |-> {d \in DocIds : <<k, d>> \in settled}]' =
              [k \in OpKeys |-> {d \in DocIds : <<k, d>> \in settled}]
    BY DEF Registered
  <1>6. {d \in DocIds : <<OpKey(c), d>> \in settled} = {udoc[c]}
    BY GivenOne DEF Given
  <1>7. Registered(udoc[c]) = Abstract!Described(ureq[c])
    BY DEF Registered, RegisteredFrom, Abstract!Described
  <1>8. Abstract!Move(c, "idle", Abstract!Document(udoc[c]))
    BY <1>1, <1>4, MappedMove DEF Abstract!Document
  <1>9. Abstract!Answer(c, udoc[c])
    BY <1>4, <1>5, <1>6, <1>7, <1>8
    DEF Abstract!Answer, Abstract!Keyed, Abstract!OpKey, Keyed, OpKey
  <1> QED BY <1>3, <1>9 DEF Refines, Abstract!Next

LEMMA ReplayRefines ==
    ASSUME TypeInv, IdemInv, RegistryInv, NEW c \in Callers, Replay(c)
    PROVE  RegistryInv' /\ Refines
  <1>1. /\ upc[c] = "replay" /\ meta' = meta /\ ops' = ops /\ ureq' = ureq
        /\ udoc' = udoc /\ Keyed(c) /\ OpKey(c) \in OpKeys /\ udoc[c] \in DocIds
    BY CallerTypes DEF Replay, TypeInv, LocalOK
  <1>2. /\ Record(c) # None /\ Record(c).state = "succeeded"
        /\ Record(c).doc = udoc[c] /\ Record(c).fp = Fingerprint(ureq[c])
    BY <1>1 DEF IdemInv, CallerInv
  <1>3. ASSUME NEW e \in {"DocumentNotFoundError", "MetadataStoreError"},
               Return(c, e), settled' = settled
        PROVE  RegistryInv' /\ Refines
    <2>1. Onward(c)
      BY <1>1, <1>3, ReturnOnward DEF NoResult
    <2> QED BY <1>1, <1>3, <2>1, OperationsKept, OnwardStep
  <1>4. CASE Return(c, "Replayed") /\ Settle(c)
    <2>1. RegisteredFrom(udoc[c], ureq[c])
      <3>1. RegisteredFrom(udoc[c], Fingerprint(ureq[c]))
        BY <1>1, <1>2 DEF IdemInv, SucceededInv, InState, Record
      <3> QED BY <3>1 DEF RegisteredFrom, Fingerprint
    <2>2. <<OpKey(c), udoc[c]>> \in settled
      BY <1>1, <1>2 DEF RegistryInv, OperationsInv, InState, Record
    <2>3. settled' = settled
      BY <1>4, <2>2 DEF Settle
    <2> QED BY <1>1, <1>4, <2>1, <2>2, <2>3, OperationsKept, AnswerRefines
  <1> QED BY <1>3, <1>4 DEF Replay

LEMMA MarkSucceededRefines ==
    ASSUME TypeInv, IdemInv, RegistryInv, NEW c \in Callers, MarkSucceeded(c)
    PROVE  RegistryInv' /\ Refines
  <1>1. PICK o \in Replies :
           /\ MarkOperation(OpKey(c), "succeeded", o)
           /\ IF o = "ok" THEN Return(c, "Created")
                          ELSE Raise(c, "BackendError")
    BY DEF MarkSucceeded
  <1>2. /\ upc[c] = "mark_succeeded" /\ meta' = meta /\ ureq' = ureq
        /\ udoc' = udoc /\ settled' = settled
        /\ Keyed(c) /\ OpKey(c) \in OpKeys /\ udoc[c] \in DocIds
        /\ <<OpKey(c), udoc[c]>> \in settled
    BY CallerTypes DEF MarkSucceeded, TypeInv, LocalOK, RegistryInv, RequestInv
  <1>3. /\ RegisteredFrom(udoc[c], ureq[c])
        /\ ops[OpKey(c)].doc = udoc[c]
    BY <1>2 DEF IdemInv, CallerInv, HoldsClaim, ClaimedPoints, Record
  <1>4. OperationsInv'
    BY <1>1, <1>2, <1>3, OperationsMoved
    DEF MarkOperation, UploadOperationState
  <1>5. CASE o = "ok"
    BY <1>1, <1>2, <1>3, <1>4, <1>5, AnswerRefines
  <1>6. CASE o # "ok"
    <2>1. Onward(c)
      BY <1>1, <1>2, <1>6, RaiseOnward DEF NoResult
    <2> QED BY <1>4, <2>1, OnwardStep
  <1> QED BY <1>5, <1>6

LEMMA RegisterRefines ==
    ASSUME NEW c \in Callers, NEW d \in DocIds, Abstract!Register(c, d)
    PROVE  Refines
  BY DEF Refines, Abstract!Next

(* The row appears, its document is given to the key, both in one step. *)
LEMMA SaveRefines ==
    ASSUME TypeInv, IdemInv, RegistryInv, NEW c \in Callers, Save(c)
    PROVE  RegistryInv' /\ Refines
  <1>0. PICK d \in DocIds : udoc[c] = d
    BY CallerTypes DEF Save
  <1>1. PICK o \in Replies :
           /\ SaveMetadata(d, NewRow(c), o)
           /\ IF Keyed(c) /\ Applied(o) /\ ~Exists(d)
                THEN Settle(c) ELSE UNCHANGED settled
           /\ IF o = "ok" /\ ~Exists(d)
                THEN IF Keyed(c) THEN Goto(c, "mark_succeeded")
                                 ELSE Return(c, "Created")
                ELSE /\ upc' = [upc EXCEPT ![c] = "rollback"]
                     /\ uout' = [uout EXCEPT ![c] =
                                   IF o = "ok" THEN "DuplicateDocumentError"
                                               ELSE "ConsistencyError"]
    BY <1>0 DEF Save
  <1>2. /\ upc[c] = "save" /\ ops' = ops /\ ureq' = ureq /\ udoc' = udoc
        /\ NewRow(c) # None /\ ureq[c] \in Requests
        /\ Phase(c) = "open"
        /\ ~Refused(ureq[c]) /\ ~EndsEarly(ureq[c])
        /\ ureq[c].doc # None => d = ureq[c].doc
    BY <1>0, CallerTypes, NoneAssumption
    DEF Save, Phase, RegistryInv, RequestInv
  <1>3. CASE ~(Applied(o) /\ ~Exists(d))
    <2>1. /\ meta' = meta /\ settled' = settled
          /\ upc' = [upc EXCEPT ![c] = "rollback"]
          /\ \E e \in {"DuplicateDocumentError", "ConsistencyError"} :
                uout' = [uout EXCEPT ![c] = e]
      BY <1>1, <1>3 DEF SaveMetadata, Applied
    <2>2. Onward(c)
      BY <1>0, <1>2, <2>1 DEF Onward, Alone, NoResult, TypeInv, UploadTypeOK
    <2> QED BY <1>2, <2>1, <2>2, OperationsKept, OnwardStep
  <1>4. CASE Applied(o) /\ ~Exists(d)
    <2>1. /\ meta' = [meta EXCEPT ![d] = NewRow(c)] /\ meta[d] = None
          /\ settled' = IF Keyed(c) THEN settled \cup {<<OpKey(c), d>>}
                                    ELSE settled
      BY <1>0, <1>1, <1>4 DEF SaveMetadata, Exists, Settle
    <2>2. /\ Alone(c)
          /\ \/ upc'[c] = "mark_succeeded" /\ Keyed(c)
             \/ upc'[c] = "rollback" /\ uout'[c] # "None"
             \/ upc'[c] = "idle" /\ uout'[c] = "Created" /\ ~Keyed(c)
      <3>1. CASE o = "ok"
        BY <1>1, <1>2, <1>4, <3>1, GotoAlone, ReturnAlone DEF Alone
      <3>2. CASE o # "ok"
        BY <1>1, <1>2, <3>2 DEF Alone, TypeInv, UploadTypeOK
      <3> QED BY <3>1, <3>2
    <2>3. RegistryInv'
      <3>1. RequestInv(c)'
        BY <1>0, <1>2, <2>1, <2>2
        DEF RequestInv, Refused, EndsEarly, OpKey
      <3>2. settled \subseteq settled'
        BY <2>1
      <3> QED BY <1>2, <2>2, <3>1, <3>2, OperationsKept, RegistryStep
    <2>4. Keyed(c) => OpKey(c) \in OpKeys /\ Given(OpKey(c)) \subseteq {d}
      <3>1. ASSUME Keyed(c) PROVE OpKey(c) \in OpKeys /\ Record(c).doc = d
        BY <1>0, <1>2, <3>1, CallerTypes
        DEF IdemInv, CallerInv, HoldsClaim, ClaimedPoints
      <3> QED BY <3>1 DEF Given, IdemInv, SettledInv, Record
    <2>5. Abstract!MayRegister(ureq[c], d)
      <3>1. ureq[c].input = "good"
        BY <1>2, UploadAssumption DEF UploadRequests, Refused, EndsEarly
      <3>2. Registered(d) = None
        BY <2>1 DEF Registered
      <3> QED BY <1>2, <2>4, <3>1, <3>2
              DEF Abstract!MayRegister, Abstract!Keyed, Abstract!OpKey, Keyed,
                  OpKey, Given
    <2>6. [e \in DocIds |-> Registered(e)]' =
             [[e \in DocIds |-> Registered(e)] EXCEPT
                 ![d] = Abstract!Described(ureq[c])]
      <3>1. Registered(d)' = Abstract!Described(ureq[c])
        BY <1>2, <2>1
        DEF Registered, NewRow, Abstract!Described, TypeInv, UploadTypeOK,
            StoresTypeOK
      <3>2. \A e \in DocIds \ {d} : Registered(e)' = Registered(e)
        BY <1>2, <2>1
        DEF Registered, TypeInv, UploadTypeOK, StoresTypeOK
      <3> QED BY <3>1, <3>2
    <2>7. CASE Keyed(c)
      <3>1. [k \in OpKeys |-> {e \in DocIds : <<k, e>> \in settled}]' =
               [[k \in OpKeys |-> {e \in DocIds : <<k, e>> \in settled}]
                  EXCEPT ![OpKey(c)] = {d}]
        <4>1. \A k \in OpKeys \ {OpKey(c)} : Given(k)' = Given(k)
          BY <2>1, <2>7 DEF Given
        <4>2. \A k \in OpKeys : k = OpKey(c) => Given(k)' = {d}
          BY <1>2, <2>1, <2>4, <2>7 DEF Given
        <4> QED BY <4>1, <4>2 DEF Given
      <3>2. Phase(c)' = "closing" /\ Answered(c)' = <<>>
        BY <2>2, <2>7 DEF Phase, Answered
      <3>3. Abstract!Move(c, "closing", Abstract!Nothing)
        BY <2>2, <3>2, MappedMove DEF Abstract!Nothing
      <3>4. Abstract!Register(c, d)
        BY <1>2, <2>5, <2>6, <2>7, <3>1, <3>3
        DEF Abstract!Register, Abstract!Keyed, Abstract!OpKey, Keyed, OpKey
      <3> QED BY <2>3, <3>4, RegisterRefines
    <2>8. CASE ~Keyed(c)
      <3>1. [k \in OpKeys |-> {e \in DocIds : <<k, e>> \in settled}]' =
               [k \in OpKeys |-> {e \in DocIds : <<k, e>> \in settled}]
        BY <2>1, <2>8
      <3>2. \/ Phase(c)' = "closing" /\ Answered(c)' = <<>>
            \/ Phase(c)' = "idle" /\ Answered(c)' = <<"document", d>>
        BY <1>0, <1>2, <2>2, <2>8 DEF Phase, Answered
      <3>3. \/ Abstract!Move(c, "closing", Abstract!Nothing)
            \/ Abstract!Move(c, "idle", Abstract!Document(d))
        BY <2>2, <3>2, MappedMove DEF Abstract!Nothing, Abstract!Document
      <3>4. Abstract!Register(c, d)
        BY <1>2, <2>5, <2>6, <2>8, <3>1, <3>3
        DEF Abstract!Register, Abstract!Keyed, Abstract!OpKey, Keyed, OpKey
      <3> QED BY <2>3, <3>4, RegisterRefines
    <2> QED BY <2>7, <2>8
  <1> QED BY <1>3, <1>4

-----------------------------------------------------------------------------

LEMMA RegistryInit == Init => RegistryInv
  BY NoneAssumption
  DEF Init, StoresInit, UploadInit, RegistryInv, OperationsInv, RequestInv,
      InState

LEMMA StepRefines ==
    ASSUME TypeInv, IdemInv, RegistryInv, [UploadNext]_vars
    PROVE  RegistryInv' /\ Refines
  <1>1. CASE UNCHANGED vars
    <2>1. /\ meta' = meta /\ ops' = ops /\ settled' = settled /\ upc' = upc
          /\ ureq' = ureq /\ udoc' = udoc /\ uout' = uout
      BY <1>1 DEF vars, storeVars, uploadVars
    <2>2. RegistryInv'
      BY <2>1 DEF RegistryInv, OperationsInv, InState, RequestInv, OpKey,
                  Refused, EndsEarly
    <2>3. UNCHANGED Abstract!vars
      BY <2>1 DEF Abstract!vars, Registered, Phase, Answered
    <2> QED BY <2>2, <2>3 DEF Refines
  <1>2. CASE UploadNext
    BY <1>2, AskRefines, AllocateRefines, ClaimRefines, SelectRefines,
       ReclaimRefines, ReplayRefines, CheckExistsRefines, PutRefines,
       SaveRefines, RollbackRefines, MarkSucceededRefines, MarkFailedRefines,
       CrashRefines
    DEF UploadNext, UploadStep
  <1> QED BY <1>1, <1>2

(***************************************************************************)
(* Every registration, with its claims, retries, failures, lost replies,   *)
(* crashes and clean-up, is a registration of the abstract registry: the   *)
(* row appears in one step, once per request and key, nothing of another   *)
(* caller takes it back, and the answer names it.                          *)
(***************************************************************************)
THEOREM RegistryImplemented == Spec => ImplementsRegistry
  <1>1. Spec => [](TypeInv /\ IdemInv)
    BY IdemInvariant
  <1>2. Init => Abstract!Init /\ RegistryInv
    BY MappedInit, RegistryInit
  <1>3. TypeInv /\ IdemInv /\ RegistryInv /\ [UploadNext]_vars
           => RegistryInv' /\ [Abstract!Next]_(Abstract!vars)
    BY StepRefines DEF Refines
  <1> QED BY <1>1, <1>2, <1>3, PTL
          DEF Spec, ImplementsRegistry, Abstract!Spec
=============================================================================
