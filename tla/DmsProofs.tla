------------------------------- MODULE DmsProofs -------------------------------
(***************************************************************************)
(* Theorems about a whole deployment: registrations, deletions, repairs    *)
(* and resets, by any number of threads and tasks, on the same stores.     *)
(*                                                                         *)
(* A process cannot rely on what it reads: the others go on.  The proofs   *)
(* therefore say what no step of anybody does (Effects for partitions,     *)
(* Aging for documents) and show that what each process relies on is       *)
(* stable under that.                                                      *)
(***************************************************************************)
EXTENDS Dms, UploadServiceProofs, FiniteSetTheorems

-----------------------------------------------------------------------------
(* Types, and what each program counter says of the local variables.  The  *)
(* partition of what a process writes and removes is that of its request.  *)

DocPoints == {"idle", "load", "deleting", "remove", "fail", "erase",
              "mark_load", "mark_write", "fetch"}

DocResults == {"None", "Content", "Deleted", "MetadataStoreError",
               "StorageError", "ConsistencyError", "DocumentNotFoundError",
               "DocumentDeletedError", "Crashed"}

RepairPoints == {"idle", "list", "inspect_row", "inspect_object",
                 "inspect_again", "stat", "purge", "complete_hard",
                 "complete_load", "complete_write", "failed_load",
                 "failed_write"}

(* Where an operator repairs, and where it holds a copy of the row. *)
Completing == {"complete_hard", "complete_load", "complete_write"}
Repairing == Completing \cup {"failed_load", "failed_write"}
Holding == Repairing \cup {"inspect_object", "inspect_again"}

ResetPoints == {"idle", "list", "remove", "metadata", "operations"}

ResetResults == {"None", "Ready", "DataResetError", "Crashed", "CancelledError"}

ClientsTyped ==
    /\ dpc \in [Clients -> DocPoints]
    /\ dreq \in [Clients -> DocRequests \cup {None}]
    /\ dcopy \in [Clients -> Rows \cup {None}]
    /\ dout \in [Clients -> DocResults]

ClientLocal(c) ==
    /\ dpc[c] # "idle" => dreq[c] \in DocRequests
    /\ dpc[c] \notin {"idle", "load"} =>
          dcopy[c] \in Rows /\ dcopy[c].part = dreq[c].part

OperatorsTyped ==
    /\ rpc \in [Operators -> RepairPoints]
    /\ rreq \in [Operators -> RepairRequests \cup {None}]
    /\ rqueue \in [Operators -> SUBSET DocIds]
    /\ rdoc \in [Operators -> DocIds \cup {None}]
    /\ rcopy \in [Operators -> Rows \cup {None}]
    /\ rseen \in [Operators -> BOOLEAN]
    /\ rdone \in [Operators -> BOOLEAN]

OperatorLocal(c) ==
    /\ rpc[c] # "idle" => rreq[c] \in RepairRequests
    /\ rpc[c] \notin {"idle", "list"} => rdoc[c] \in DocIds
    /\ rpc[c] \in Holding => rcopy[c] \in Rows /\ rcopy[c].part = rreq[c].part
    /\ rpc[c] \in {"stat", "purge"} =>
          rreq[c].action = "purge" /\ InNamespace(c)

ResettersTyped ==
    /\ spc \in [Resetters -> ResetPoints]
    /\ sscope \in [Resetters -> SUBSET Partitions]
    /\ slisted \in [Resetters -> SUBSET StorageKeys]
    /\ sfailed \in [Resetters -> SUBSET {"objects", "metadata", "operations"}]
    /\ sout \in [Resetters -> ResetResults]

ResetterLocal(c) ==
    /\ sscope[c] \in Scopes \cup {{}}
    /\ sscope[c] \subseteq sbegun
    /\ \A k \in slisted[c] : k[1] \in sscope[c]
    /\ spc[c] # "remove" => slisted[c] = {}

DmsTypeInv ==
    /\ TypeInv
    /\ ClientsTyped /\ \A c \in Clients : ClientLocal(c)
    /\ OperatorsTyped /\ \A c \in Operators : OperatorLocal(c)
    /\ ResettersTyped /\ \A c \in Resetters : ResetterLocal(c)
    /\ rlate \subseteq StorageKeys

-----------------------------------------------------------------------------
(* Resets *)

(* No partition that may be reset is registered into. *)
ResetApart == \A r \in Requests, s \in Scopes : r.part \notin s

NoContents(S) == \A k \in StorageKeys : k[1] \in S => objects[k] = None
NoRows(S) == \A d \in DocIds : meta[d] # None => meta[d].part \notin S
NoOperations(S) == \A k \in OpKeys : k[1] \in S => ops[k] = None

(* What a resetter has achieved when nothing has failed. *)
ResetterInv(c) ==
    /\ spc[c] # "idle" => sout[c] = "None"
    /\ /\ spc[c] \in {"remove", "metadata", "operations"}
       /\ "objects" \notin sfailed[c]
       => \A k \in StorageKeys :
             k[1] \in sscope[c] /\ objects[k] # None => k \in slisted[c]
    /\ spc[c] = "operations" /\ "metadata" \notin sfailed[c] =>
          NoRows(sscope[c])
    /\ sout[c] = "Ready" => /\ NoContents(sscope[c])
                            /\ NoRows(sscope[c])
                            /\ NoOperations(sscope[c])

ResetInv == \A c \in Resetters : ResetterInv(c)

-----------------------------------------------------------------------------
(* Documents that are registered once *)

(* Every registration is given an identifier of its own, once.  Allocated   *)
(* identifiers are numerals, none of them nested in another.               *)
FreshIdentifiers ==
    /\ \A r \in Requests : r.doc = None /\ r.key = None
    /\ NestedIds = {}

(* A purge is of a key its host was told of, or nobody registers. *)
PurgesTold == PurgeTold \/ Requests = {}

(* The registration that was given identifier d, if any, is past its INSERT: *)
(* no row of that identifier will appear, and no content.                  *)
Past(d) ==
    /\ d <= seq \/ Requests = {}
    /\ \A c \in Callers :
          upc[c] \in {"exists", "put", "save"} => udoc[c] # d

Available(d) == meta[d] # None /\ meta[d].status = "available"

(* row is a copy of the document, of whatever status. *)
CopyOf(d, row) ==
    meta[d] # None => /\ meta[d].part = row.part
                      /\ meta[d].file = row.file
                      /\ meta[d].content = row.content

Said(k, E) == \E e \in E : <<k, e>> \in reports

AtDocument == {"exists", "put", "save", "rollback"}

CallerFresh(c) ==
    /\ upc[c] \in AtDocument \cup {"idle", "allocate"}
    /\ upc[c] \in AtDocument => udoc[c] <= seq
    /\ upc[c] \in {"exists", "put", "save"} => meta[udoc[c]] = None
    /\ upc[c] \in {"exists", "put"} =>
          \A k \in StorageKeys : k[2] = udoc[c] => objects[k] = None
    /\ upc[c] \in {"save", "rollback"} =>
          \A k \in StorageKeys :
             k[2] = udoc[c] /\ objects[k] # None => k = BuildStorageKey(c)
    /\ PurgesTold /\ upc[c] = "save" /\ NeverReset(ureq[c].part) =>
          objects[BuildStorageKey(c)] = ureq[c].content
    /\ upc[c] = "rollback" /\ meta[udoc[c]] # None =>
          /\ uout[c] = "ConsistencyError"
          /\ StorageKeyOf(udoc[c], meta[udoc[c]]) = BuildStorageKey(c)

(* An identifier has one caller. *)
OwnIdentifiers ==
    \A c, e \in Callers :
       /\ upc[c] \in AtDocument /\ upc[e] \in AtDocument
       /\ udoc[c] = udoc[e]
       => c = e

Unused ==
    /\ \A d \in DocIds : d > seq => meta[d] = None
    /\ \A k \in StorageKeys : k[2] > seq => objects[k] = None
    /\ \A k \in StorageKeys, e \in Alarms : <<k, e>> \in reports => Past(k[2])

(* Where a deletion has made its row unavailable, and removed its content. *)
PastDeleting == {"remove", "fail", "erase", "mark_load", "mark_write"}
PastRemoval == {"erase", "mark_load", "mark_write"}

ToldDeleted(c) == dpc[c] = "idle" /\ dout[c] = "Deleted"

ClientFresh(c) ==
    /\ ToldDeleted(c) => /\ dreq[c] \in DocRequests
                         /\ dcopy[c] \in Rows
    /\ dpc[c] \notin {"idle", "load"} \/ ToldDeleted(c) =>
          Past(Doc(c)) /\ CopyOf(Doc(c), dcopy[c])
    /\ dpc[c] \in PastDeleting \/ ToldDeleted(c) => ~Available(Doc(c))
    /\ dpc[c] \in PastRemoval \/ ToldDeleted(c) => objects[CopyKey(c)] = None

InspectedKey(c) == StorageKeyOf(rdoc[c], rcopy[c])

OperatorFresh(c) ==
    /\ rpc[c] \in Holding =>
          /\ Past(rdoc[c])
          /\ CopyOf(rdoc[c], rcopy[c])
          /\ rcopy[c].status # "available" => ~Available(rdoc[c])
    /\ rpc[c] \in Repairing \/ (rpc[c] = "inspect_again" /\ ~rseen[c]) =>
          objects[InspectedKey(c)] = None
    /\ rpc[c] \in Completing => ~Available(rdoc[c])
    /\ PurgesTold =>
          /\ rpc[c] # "idle" /\ rreq[c].action = "purge"
                /\ rreq[c].key # None => Past(rreq[c].key[2])
          /\ rpc[c] \in {"stat", "purge"} => ~Referenced(rreq[c].key)

LateFresh ==
    PurgesTold =>
       \A k \in rlate : NeverReset(k[1]) => Past(k[2]) /\ ~Referenced(k)

(* Content and row of a document. *)
Accord(d) ==
    meta[d] # None =>
       /\ meta[d].status = "deleted" => ContentOf(d) = None
       /\ PurgesTold /\ Available(d) /\ NeverReset(meta[d].part) =>
             \/ ContentOf(d) = meta[d].content
             \/ Said(StorageKeyOf(d, meta[d]), Serious)

NoOrphan(k) ==
    objects[k] # None /\ NeverReset(k[1]) =>
       \/ Referenced(k)
       \/ InFlight(k)
       \/ Said(k, Alarms)

FreshInv ==
    /\ \A c \in Callers : CallerFresh(c)
    /\ OwnIdentifiers
    /\ Unused
    /\ \A c \in Clients : ClientFresh(c)
    /\ \A c \in Operators : OperatorFresh(c)
    /\ LateFresh
    /\ \A d \in DocIds : Accord(d)
    /\ \A k \in StorageKeys : NoOrphan(k)

-----------------------------------------------------------------------------
(* Types *)

USE DEF TypeOK

LEMMA StoresSuffice ==
    ASSUME TypeInv, UNCHANGED uploadVars, StoresTypeOK'
    PROVE  TypeInv'
  BY DEF TypeInv, LocalOK, UploadTypeOK, uploadVars, Keyed

LEMMA StoreTypes ==
    ASSUME TypeInv
    PROVE  StoresTypeOK
  BY DEF TypeInv, UploadTypeOK

LEMMA UpdateType ==
    ASSUME StoresTypeOK, NEW d \in DocIds, NEW row \in Rows, NEW found, NEW o,
           UpdateMetadata(d, row, found, o), UNCHANGED <<objects, ops, seq>>
    PROVE  StoresTypeOK'
  <1>1. CASE meta' = meta
    BY <1>1, AnswerType DEF UpdateMetadata, StoresTypeOK
  <1>2. CASE Exists(d) /\ \E r \in Merged(d, row) : meta' = [meta EXCEPT ![d] = r]
    <2>1. meta[d] \in Rows
      BY <1>2 DEF Exists, StoresTypeOK
    <2>2. Merged(d, row) \subseteq Rows
      BY <2>1 DEF Merged, Rows
    <2> QED BY <1>2, <2>2, AnswerType DEF UpdateMetadata, StoresTypeOK
  <1> QED BY <1>1, <1>2 DEF UpdateMetadata

LEMMA HardDeleteType ==
    ASSUME StoresTypeOK, NEW d \in DocIds, NEW found, NEW o,
           HardDelete(d, found, o), UNCHANGED <<objects, ops, seq>>
    PROVE  StoresTypeOK'
  BY AnswerType DEF HardDelete, StoresTypeOK

LEMMA DeleteType ==
    ASSUME StoresTypeOK, NEW k \in StorageKeys, NEW o,
           DeleteObject(k, o), UNCHANGED <<meta, ops, seq>>
    PROVE  StoresTypeOK'
  BY AnswerType DEF DeleteObject, StoresTypeOK

LEMMA ReadType ==
    ASSUME StoresTypeOK, NEW o, Answer(o), UNCHANGED <<meta, objects, ops, seq>>
    PROVE  StoresTypeOK'
  BY AnswerType DEF StoresTypeOK

LEMMA CopyTypes ==
    ASSUME NEW row \in Rows
    PROVE  /\ DeletedRow(row) \in Rows /\ DeletedRow(row).part = row.part
           /\ \A s \in DocumentStatus : /\ WithStatus(row, s) \in Rows
                                        /\ WithStatus(row, s).part = row.part
  BY DEF DeletedRow, WithStatus, Rows, DocumentStatus

(* A client in the middle of a call: its request, and the copy it writes.  *)
LEMMA ClientFacts ==
    ASSUME DmsTypeInv, NEW c \in Clients, dpc[c] # "idle"
    PROVE  /\ dreq[c] \in DocRequests
           /\ Doc(c) \in DocIds
           /\ dreq[c].part \in Partitions
           /\ dpc[c] # "load" => /\ dcopy[c] \in Rows
                                 /\ dcopy[c].part = dreq[c].part
                                 /\ CopyKey(c) \in StorageKeys
  <1>1. /\ dreq[c] \in DocRequests
        /\ dpc[c] # "load" => dcopy[c] \in Rows /\ dcopy[c].part = dreq[c].part
    BY DEF DmsTypeInv, ClientLocal
  <1>2. Doc(c) \in DocIds /\ dreq[c].part \in Partitions
    BY <1>1, DocumentAssumption DEF DocumentRequests, Doc
  <1>3. dpc[c] # "load" => CopyKey(c) \in StorageKeys
    BY <1>1, <1>2 DEF CopyKey, StorageKeyOf, StorageKeys, Rows
  <1> QED BY <1>1, <1>2, <1>3

(* A step of client c alone that starts no request. *)
LEMMA ClientMoves ==
    ASSUME DmsTypeInv, NEW c \in Clients, NEW p \in DocPoints,
           dpc' = [dpc EXCEPT ![c] = p], dreq' = dreq,
           dpc[c] # "idle",
           ClientsTyped',
           \A e \in Clients : e # c => dcopy'[e] = dcopy[e],
           p \notin {"idle", "load"} =>
              dcopy'[c] \in Rows /\ dcopy'[c].part = dreq[c].part
    PROVE  \A e \in Clients : ClientLocal(e)'
  BY DEF DmsTypeInv, ClientsTyped, ClientLocal

LEMMA ClientsType ==
    ASSUME DmsTypeInv, DocNext, UNCHANGED uploadVars
    PROVE  /\ StoresTypeOK'
           /\ ClientsTyped' /\ \A c \in Clients : ClientLocal(c)'
  <1> DEFINE Done == /\ StoresTypeOK'
                     /\ ClientsTyped' /\ \A c \in Clients : ClientLocal(c)'
  <1>0. StoresTypeOK /\ ClientsTyped
    BY StoreTypes DEF DmsTypeInv
  <1>1. ASSUME NEW c \in Clients, NEW r \in DocRequests, Request(c, r)
        PROVE  Done
    <2>1. StoresTypeOK'
      BY <1>0, <1>1 DEF Request, storeVars, StoresTypeOK
    <2>2. ClientsTyped'
      BY <1>0, <1>1 DEF Request, ClientsTyped, DocPoints, DocResults
    <2>3. \A e \in Clients : ClientLocal(e)'
      BY <1>0, <1>1 DEF Request, ClientsTyped, ClientLocal, DmsTypeInv
    <2> QED BY <2>1, <2>2, <2>3
  <1>2. ASSUME NEW c \in Clients, DocStep(c) \/ DocCrash(c)
        PROVE  Done
    <2>0. /\ dpc[c] # "idle" /\ dreq' = dreq
          /\ dreq[c] \in DocRequests
          /\ Doc(c) \in DocIds
          /\ dreq[c].part \in Partitions
          /\ dpc[c] # "load" => /\ dcopy[c] \in Rows
                                /\ dcopy[c].part = dreq[c].part
                                /\ CopyKey(c) \in StorageKeys
      <3>1. dpc[c] # "idle" /\ dreq' = dreq
        BY <1>2 DEF DocStep, Load, Fetch, SetDeleting, Remove, SetFailed,
                    Erase, MarkLoad, MarkWrite, DocCrash
      <3> QED BY <3>1, ClientFacts
    <2> DEFINE Moved(p) == /\ dpc' = [dpc EXCEPT ![c] = p]
                           /\ ClientsTyped'
                           /\ \A e \in Clients : e # c => dcopy'[e] = dcopy[e]
                           /\ p \notin {"idle", "load"} =>
                                 /\ dcopy'[c] \in Rows
                                 /\ dcopy'[c].part = dreq[c].part
    <2>m. ASSUME StoresTypeOK', \E p \in DocPoints : Moved(p)
          PROVE  Done
      BY <2>0, <2>m, ClientMoves
    <2>1. CASE Load(c)
      <3>1. StoresTypeOK'
        BY <1>0, <2>1, ReadType DEF Load
      <3>2. CASE \E res \in DocResults : DocReturn(c, res) /\ dcopy' = dcopy
        BY <1>0, <2>0, <3>2, <3>1, <2>m DEF DocReturn, ClientsTyped, DocPoints
      <3>3. CASE /\ InPartition(Doc(c), dreq[c].part)
                 /\ dcopy' = [dcopy EXCEPT ![c] = meta[Doc(c)]]
                 /\ \/ DocReturn(c, "DocumentDeletedError")
                    \/ DocGoto(c, AfterLoad(c))
        <4>1. meta[Doc(c)] \in Rows /\ meta[Doc(c)].part = dreq[c].part
          BY <1>0, <2>0, <3>3 DEF InPartition, StoresTypeOK
        <4>2. AfterLoad(c) \in DocPoints \ {"idle", "load"}
          BY DEF AfterLoad, DocPoints
        <4>3. CASE DocReturn(c, "DocumentDeletedError")
          <5>1. ClientsTyped'
            BY <1>0, <2>0, <3>3, <4>1, <4>3
            DEF DocReturn, ClientsTyped, DocPoints, DocResults
          <5>2. Moved("idle")
            BY <1>0, <3>3, <4>3, <5>1 DEF DocReturn, ClientsTyped
          <5> QED BY <3>1, <5>2, <2>m DEF DocPoints
        <4>4. CASE DocGoto(c, AfterLoad(c))
          <5>1. ClientsTyped'
            BY <1>0, <2>0, <3>3, <4>1, <4>2, <4>4 DEF DocGoto, ClientsTyped
          <5>2. Moved(AfterLoad(c))
            BY <1>0, <3>3, <4>1, <4>4, <5>1 DEF DocGoto, ClientsTyped
          <5> QED BY <3>1, <4>2, <5>2, <2>m
        <4> QED BY <3>3, <4>3, <4>4
      <3>4. {"MetadataStoreError", "DocumentNotFoundError"} \subseteq DocResults
        BY DEF DocResults
      <3> QED BY <2>1, <3>2, <3>3, <3>4 DEF Load
    <2> DEFINE Finished == \E res \in DocResults : DocReturn(c, res)
    <2>r. ASSUME StoresTypeOK', dcopy' = dcopy, Finished
          PROVE  Done
      BY <1>0, <2>0, <2>r, <2>m DEF DocReturn, ClientsTyped, DocPoints
    <2>2. CASE Fetch(c)
      BY <1>0, <2>2, <2>r, ReadType DEF Fetch, DocResults
    <2>3. CASE SetDeleting(c)
      <3>1. StoresTypeOK'
        BY <1>0, <2>0, <2>3, CopyTypes, UpdateType
        DEF SetDeleting, DocumentStatus
      <3>2. CASE /\ dcopy' = [dcopy EXCEPT ![c].status = "deleting"]
                 /\ DocGoto(c, "remove")
        <4>1. dcopy' = [dcopy EXCEPT ![c] = WithStatus(dcopy[c], "deleting")]
          BY <1>0, <3>2 DEF WithStatus, ClientsTyped
        <4>2. ClientsTyped' /\ Moved("remove")
          BY <1>0, <2>0, <2>3, <3>2, <4>1, CopyTypes
          DEF SetDeleting, DocGoto, ClientsTyped, DocPoints, DocumentStatus
        <4> QED BY <3>1, <4>2, <2>m DEF DocPoints
      <3>3. CASE DocReturn(c, "MetadataStoreError") /\ dcopy' = dcopy
        BY <3>1, <3>3, <2>r DEF DocResults
      <3> QED BY <2>3, <3>2, <3>3 DEF SetDeleting
    <2>4. CASE Remove(c)
      <3>1. PICK p \in {"erase", "mark_load", "fail"} :
               DocGoto(c, p) /\ dcopy' = dcopy
        BY <2>4 DEF Remove, AfterRemove
      <3>2. StoresTypeOK'
        BY <1>0, <2>0, <2>4, DeleteType DEF Remove
      <3>3. Moved(p) /\ p \in DocPoints
        BY <1>0, <2>0, <2>4, <3>1 DEF Remove, DocGoto, ClientsTyped, DocPoints
      <3> QED BY <3>2, <3>3, <2>m
    <2>5. CASE SetFailed(c)
      BY <1>0, <2>0, <2>5, <2>r, CopyTypes, UpdateType
      DEF SetFailed, DocumentStatus, DocResults
    <2>6. CASE Erase(c)
      BY <1>0, <2>0, <2>6, <2>r, HardDeleteType DEF Erase, DocResults
    <2>7. CASE MarkLoad(c)
      <3>1. StoresTypeOK'
        BY <1>0, <2>7, ReadType DEF MarkLoad
      <3>2. CASE /\ InPartition(Doc(c), dreq[c].part)
                 /\ dcopy' = [dcopy EXCEPT ![c] = meta[Doc(c)]]
                 /\ DocGoto(c, "mark_write")
        <4>1. meta[Doc(c)] \in Rows /\ meta[Doc(c)].part = dreq[c].part
          BY <1>0, <2>0, <3>2 DEF InPartition, StoresTypeOK
        <4>2. ClientsTyped' /\ Moved("mark_write")
          BY <1>0, <2>0, <3>2, <4>1 DEF DocGoto, ClientsTyped, DocPoints
        <4> QED BY <3>1, <4>2, <2>m DEF DocPoints
      <3>3. CASE DocReturn(c, "ConsistencyError") /\ dcopy' = dcopy
        BY <3>1, <3>3, <2>r DEF DocResults
      <3> QED BY <2>7, <3>2, <3>3 DEF MarkLoad
    <2>8. CASE MarkWrite(c)
      BY <1>0, <2>0, <2>8, <2>r, CopyTypes, UpdateType DEF MarkWrite, DocResults
    <2>9. CASE DocCrash(c)
      BY <1>0, <2>9, <2>r, ReadType DEF DocCrash, Die, DocResults
    <2> QED BY <1>2, <2>1, <2>2, <2>3, <2>4, <2>5, <2>6, <2>7, <2>8, <2>9
            DEF DocStep
  <1> QED BY <1>1, <1>2 DEF DocNext

(* An operator in the middle of a request. *)
LEMMA OperatorFacts ==
    ASSUME DmsTypeInv, NEW c \in Operators, rpc[c] # "idle"
    PROVE  /\ rreq[c] \in RepairRequests
           /\ rreq[c].action \in RecoveryAction
           /\ rreq[c].part \in Partitions
           /\ rreq[c].key \in StorageKeys \cup {None}
           /\ rreq[c].docs \subseteq DocIds
           /\ rqueue[c] \subseteq DocIds
           /\ rpc[c] # "list" => rdoc[c] \in DocIds
           /\ rpc[c] \in Holding => /\ rcopy[c] \in Rows
                                    /\ rcopy[c].part = rreq[c].part
                                    /\ StorageKeyOf(rdoc[c], rcopy[c])
                                          \in StorageKeys
           /\ rpc[c] \in {"stat", "purge"} =>
                 /\ rreq[c].action = "purge" /\ InNamespace(c)
                 /\ rreq[c].key \in StorageKeys
  <1>1. OperatorLocal(c) /\ rqueue[c] \subseteq DocIds
    BY DEF DmsTypeInv, OperatorsTyped
  <1>2. /\ rreq[c] \in RepairRequests
        /\ rreq[c].action \in RecoveryAction
        /\ rreq[c].part \in Partitions
        /\ rreq[c].key \in StorageKeys \cup {None}
        /\ rreq[c].docs \subseteq DocIds
    BY <1>1, RepairAssumption DEF OperatorLocal, RecoveryRequests
  <1>3. rpc[c] # "list" => rdoc[c] \in DocIds
    BY <1>1 DEF OperatorLocal
  <1>4. rpc[c] \in Holding => /\ rcopy[c] \in Rows
                              /\ rcopy[c].part = rreq[c].part
                              /\ StorageKeyOf(rdoc[c], rcopy[c]) \in StorageKeys
    <2> SUFFICES ASSUME rpc[c] \in Holding
                 PROVE  /\ rcopy[c] \in Rows
                        /\ rcopy[c].part = rreq[c].part
                        /\ StorageKeyOf(rdoc[c], rcopy[c]) \in StorageKeys
      OBVIOUS
    <2>1. /\ rcopy[c] \in Rows /\ rcopy[c].part = rreq[c].part
          /\ rdoc[c] \in DocIds
      BY <1>1 DEF OperatorLocal, Holding, Repairing, Completing
    <2> QED BY <2>1 DEF StorageKeyOf, StorageKeys, Rows
  <1>5. rpc[c] \in {"stat", "purge"} =>
           rreq[c].action = "purge" /\ InNamespace(c) /\ rreq[c].key \in StorageKeys
    BY <1>1, <1>2 DEF OperatorLocal, InNamespace
  <1> QED BY <1>1, <1>2, <1>3, <1>4, <1>5

(* Between two documents, or after the last one. *)
Between(c) ==
    /\ \E p \in {"idle", "inspect_row"} : rpc' = [rpc EXCEPT ![c] = p]
    /\ rqueue' \in [Operators -> SUBSET DocIds]
    /\ rdoc' \in [Operators -> DocIds \cup {None}]
    /\ \A e \in Operators : e # c => rdoc'[e] = rdoc[e]
    /\ rpc'[c] = "inspect_row" => rdoc'[c] \in DocIds

LEMMA NextItemType ==
    ASSUME DmsTypeInv, NEW c \in Operators, NEW Q \in SUBSET DocIds,
           NextItem(c, Q)
    PROVE  Between(c)
  <1>1. /\ rpc \in [Operators -> RepairPoints]
        /\ rqueue \in [Operators -> SUBSET DocIds]
        /\ rdoc \in [Operators -> DocIds \cup {None}]
    BY DEF DmsTypeInv, OperatorsTyped
  <1>2. CASE Q = {} /\ rpc' = [rpc EXCEPT ![c] = "idle"]
             /\ rqueue' = [rqueue EXCEPT ![c] = {}] /\ UNCHANGED rdoc
    BY <1>1, <1>2 DEF Between
  <1>3. CASE \E d \in Q : /\ rpc' = [rpc EXCEPT ![c] = "inspect_row"]
                          /\ rqueue' = [rqueue EXCEPT ![c] = Q \ {d}]
                          /\ rdoc' = [rdoc EXCEPT ![c] = d]
    BY <1>1, <1>3 DEF Between
  <1> QED BY <1>2, <1>3 DEF NextItem

LEMMA ReportType ==
    ASSUME DmsTypeInv, NEW c \in Operators, Report(c)
    PROVE  Between(c) /\ rdone' \in [Operators -> BOOLEAN]
  <1>1. rqueue[c] \in SUBSET DocIds /\ rdone \in [Operators -> BOOLEAN]
    BY DEF DmsTypeInv, OperatorsTyped
  <1> QED BY <1>1, NextItemType DEF Report

LEMMA VerifyType ==
    ASSUME DmsTypeInv, NEW c \in Operators, rpc[c] \notin {"idle", "list"},
           Verify(c)
    PROVE  Between(c) /\ rdone' \in [Operators -> BOOLEAN]
  <1>1. OperatorsTyped /\ rdoc[c] \in DocIds
    BY OperatorFacts DEF DmsTypeInv
  <1> QED BY <1>1 DEF Verify, RepairGoto, Between, OperatorsTyped

LEMMA EndType ==
    ASSUME DmsTypeInv, NEW c \in Operators,
           rpc' = [rpc EXCEPT ![c] = "idle"],
           rqueue' = [rqueue EXCEPT ![c] = {}],
           rdone' = [rdone EXCEPT ![c] = FALSE], rdoc' = rdoc
    PROVE  Between(c) /\ rdone' \in [Operators -> BOOLEAN]
  BY DEF Between, DmsTypeInv, OperatorsTyped

(* A step of operator c alone that starts no request. *)
LEMMA OperatorMoves ==
    ASSUME DmsTypeInv, NEW c \in Operators, NEW p \in RepairPoints,
           rpc' = [rpc EXCEPT ![c] = p], rreq' = rreq,
           rpc[c] # "idle", OperatorsTyped',
           \A e \in Operators :
              e # c => rcopy'[e] = rcopy[e] /\ rdoc'[e] = rdoc[e],
           p \notin {"idle", "list"} => rdoc'[c] \in DocIds,
           p \in Holding =>
              rcopy'[c] \in Rows /\ rcopy'[c].part = rreq[c].part,
           p \in {"stat", "purge"} =>
              rreq[c].action = "purge" /\ InNamespace(c) /\ rdoc'[c] = rdoc[c]
    PROVE  \A e \in Operators : OperatorLocal(e)'
  BY DEF DmsTypeInv, OperatorsTyped, OperatorLocal, InNamespace

OperatorsOK == OperatorsTyped /\ \A c \in Operators : OperatorLocal(c)

LEMMA BetweenOK ==
    ASSUME DmsTypeInv, NEW c \in Operators, rpc[c] # "idle", rreq' = rreq,
           Between(c), rdone' \in [Operators -> BOOLEAN],
           rseen' \in [Operators -> BOOLEAN],
           rcopy' \in [Operators -> Rows \cup {None}],
           \A e \in Operators : e # c => rcopy'[e] = rcopy[e]
    PROVE  OperatorsOK'
  <1>1. PICK p \in {"idle", "inspect_row"} : rpc' = [rpc EXCEPT ![c] = p]
    BY DEF Between
  <1>2. OperatorsTyped'
    BY <1>1 DEF Between, OperatorsTyped, DmsTypeInv, RepairPoints
  <1>3. \A e \in Operators : OperatorLocal(e)'
    BY <1>1, <1>2, OperatorMoves
    DEF Between, RepairPoints, Holding, Repairing, Completing, DmsTypeInv,
        OperatorsTyped
  <1> QED BY <1>2, <1>3 DEF OperatorsOK

(* Onward with the same document, the copy as it is or just read. *)
LEMMA OnwardOK ==
    ASSUME DmsTypeInv, NEW c \in Operators, rpc[c] \notin {"idle", "list"},
           NEW p \in RepairPoints, rreq' = rreq,
           RepairGoto(c, p), rdone' = rdone,
           rseen' \in [Operators -> BOOLEAN],
           \/ rcopy' = rcopy
           \/ \E row \in Rows \cup {None} : rcopy' = [rcopy EXCEPT ![c] = row],
           p \in Holding =>
              rcopy'[c] \in Rows /\ rcopy'[c].part = rreq[c].part,
           p \in {"stat", "purge"} => rreq[c].action = "purge" /\ InNamespace(c)
    PROVE  OperatorsOK'
  <1>0. OperatorsTyped /\ rdoc[c] \in DocIds
    BY OperatorFacts DEF DmsTypeInv
  <1>1. OperatorsTyped'
    BY <1>0 DEF RepairGoto, OperatorsTyped
  <1>2. \A e \in Operators : OperatorLocal(e)'
    BY <1>0, <1>1, OperatorMoves DEF RepairGoto, OperatorsTyped
  <1> QED BY <1>1, <1>2 DEF OperatorsOK

LEMMA RepairBegins ==
    ASSUME DmsTypeInv, NEW c \in Operators, NEW r \in RepairRequests,
           Repair(c, r)
    PROVE  OperatorsOK'
  <1>0. OperatorsTyped /\ \A e \in Operators : OperatorLocal(e)
    BY DEF DmsTypeInv
  <1>1. rreq' = [rreq EXCEPT ![c] = r] /\ UNCHANGED <<rcopy, rseen, rdone>>
    BY DEF Repair
  <1>2. CASE rpc' = [rpc EXCEPT ![c] = "list"] /\ UNCHANGED <<rqueue, rdoc>>
    <2>1. OperatorsTyped'
      BY <1>0, <1>1, <1>2 DEF OperatorsTyped, RepairPoints
    <2>2. \A e \in Operators : OperatorLocal(e)'
      BY <1>0, <1>1, <1>2
      DEF OperatorLocal, OperatorsTyped, InNamespace, Holding, Repairing,
          Completing
    <2> QED BY <2>1, <2>2 DEF OperatorsOK
  <1>3. CASE NextItem(c, r.docs)
    <2>1. r.docs \in SUBSET DocIds
      BY RepairAssumption DEF RecoveryRequests
    <2>2. Between(c)
      BY <1>3, <2>1, NextItemType
    <2>3. PICK p \in {"idle", "inspect_row"} : rpc' = [rpc EXCEPT ![c] = p]
      BY <2>2 DEF Between
    <2>4. OperatorsTyped'
      BY <1>0, <1>1, <2>2, <2>3 DEF OperatorsTyped, RepairPoints, Between
    <2>5. \A e \in Operators : OperatorLocal(e)'
      BY <1>0, <1>1, <2>2, <2>3
      DEF OperatorLocal, OperatorsTyped, InNamespace, Holding, Repairing,
          Completing, Between
    <2> QED BY <2>4, <2>5 DEF OperatorsOK
  <1> QED BY <1>2, <1>3 DEF Repair

(* What the inspection decides. *)
LEMMA DecideOK ==
    ASSUME DmsTypeInv, NEW c \in Operators, rpc[c] \in Holding,
           NEW seen, Decide(c, seen),
           rreq' = rreq, rcopy' = rcopy, rseen' \in [Operators -> BOOLEAN]
    PROVE  OperatorsOK'
  <1>0. /\ rreq[c].action \in RecoveryAction
        /\ rcopy[c] \in Rows /\ rcopy[c].part = rreq[c].part
        /\ rcopy \in [Operators -> Rows \cup {None}]
    BY OperatorFacts
    DEF Holding, Repairing, Completing, DmsTypeInv, OperatorsTyped
  <1>h. rpc[c] \notin {"idle", "list"}
    BY DEF Holding, Repairing, Completing
  <1>1. CASE Report(c)
    BY <1>0, <1>1, <1>h, ReportType, BetweenOK
  <1>2. CASE Verify(c)
    BY <1>0, <1>2, <1>h, VerifyType, BetweenOK
  <1>3. CASE /\ Eligible(c, seen)
             /\ RepairGoto(c, FirstCall(rreq[c].action)) /\ UNCHANGED rdone
    <2>1. FirstCall(rreq[c].action) \in
             {"complete_hard", "complete_load", "failed_load"}
      BY <1>3 DEF Eligible, FirstCall
    <2>2. FirstCall(rreq[c].action) \in RepairPoints
      BY <2>1 DEF RepairPoints
    <2> QED BY <1>0, <1>3, <1>h, <2>1, <2>2, OnwardOK
  <1> QED BY <1>1, <1>2, <1>3 DEF Decide

LEMMA ReloadOK ==
    ASSUME DmsTypeInv, NEW c \in Operators, NEW p \in RepairPoints,
           rpc[c] \notin {"idle", "list"},
           p \notin {"stat", "purge"}, Reload(c, p)
    PROVE  StoresTypeOK' /\ OperatorsOK'
  <1>0. /\ rdoc[c] \in DocIds /\ StoresTypeOK
        /\ rcopy \in [Operators -> Rows \cup {None}]
        /\ rseen \in [Operators -> BOOLEAN]
    BY OperatorFacts, StoreTypes DEF DmsTypeInv, OperatorsTyped
  <1>1. StoresTypeOK' /\ rreq' = rreq /\ rseen' = rseen
    BY <1>0, ReadType DEF Reload
  <1>2. CASE Report(c) /\ UNCHANGED rcopy
    BY <1>0, <1>1, <1>2, ReportType, BetweenOK
  <1>3. CASE /\ InPartition(rdoc[c], rreq[c].part)
             /\ rcopy' = [rcopy EXCEPT ![c] = meta[rdoc[c]]]
             /\ RepairGoto(c, p) /\ UNCHANGED rdone
    <2>1. meta[rdoc[c]] \in Rows /\ meta[rdoc[c]].part = rreq[c].part
      BY <1>0, <1>3 DEF InPartition, StoresTypeOK
    <2> QED BY <1>0, <1>1, <1>3, <2>1, OnwardOK
  <1> QED BY <1>2, <1>3, <1>1 DEF Reload

LEMMA RowWriteOK ==
    ASSUME DmsTypeInv, NEW c \in Operators,
           rpc[c] \notin {"idle", "list"}, NEW done, RowWrite(c, done),
           UNCHANGED <<rreq, rcopy, rseen>>
    PROVE  OperatorsOK'
  <1>0. /\ rcopy \in [Operators -> Rows \cup {None}]
        /\ rseen \in [Operators -> BOOLEAN]
    BY DEF DmsTypeInv, OperatorsTyped
  <1>1. Between(c) /\ rdone' \in [Operators -> BOOLEAN]
    BY ReportType, VerifyType DEF RowWrite
  <1> QED BY <1>0, <1>1, BetweenOK

LEMMA OperatorsType ==
    ASSUME DmsTypeInv, RepairActs
    PROVE  StoresTypeOK' /\ OperatorsOK' /\ (rlate \subseteq StorageKeys)'
  <1> DEFINE Done == StoresTypeOK' /\ OperatorsOK'
  <1>0. /\ StoresTypeOK
        /\ rcopy \in [Operators -> Rows \cup {None}]
        /\ rseen \in [Operators -> BOOLEAN]
        /\ rlate \subseteq StorageKeys
    BY StoreTypes DEF DmsTypeInv, OperatorsTyped
  <1>1. ASSUME NEW c \in Operators, NEW r \in RepairRequests, Repair(c, r)
        PROVE  Done
    BY <1>0, <1>1, RepairBegins DEF Repair, storeVars, StoresTypeOK
  <1>s. ASSUME NEW c \in Operators,
               RepairStep(c) \/ AsyncInspectObject(c) \/ CancelRepair(c)
        PROVE  Done
    <2>0. /\ rpc[c] # "idle" /\ rreq' = rreq
          /\ rpc[c] # "list" => rdoc[c] \in DocIds
      <3>1. rpc[c] # "idle" /\ rreq' = rreq
        BY <1>s DEF RepairStep, ListCandidates, InspectRow, InspectObject,
             InspectAgain, StatOrphan, Purge, CompleteHard, CompleteLoad,
             CompleteWrite, FailedLoad, FailedWrite, RepairCrash, Reload,
             AsyncInspectObject, CancelRepair
      <3> QED BY <3>1, OperatorFacts
    <2>r. ASSUME Report(c), rseen' = rseen,
                 rcopy' = rcopy \/ rcopy' = [rcopy EXCEPT ![c] = None]
          PROVE  OperatorsOK'
      BY <1>0, <2>0, <2>r, ReportType, BetweenOK
    <2>1. CASE ListCandidates(c)
      <3>1. PICK o \in ReadReplies :
               NextItem(c, IF o = "ok" THEN Candidates(rreq[c]) ELSE {})
        BY <2>1 DEF ListCandidates
      <3>2. Between(c)
        BY <3>1, NextItemType DEF Candidates
      <3>3. rdone' \in [Operators -> BOOLEAN]
        BY <2>1 DEF ListCandidates, DmsTypeInv, OperatorsTyped
      <3>4. StoresTypeOK' /\ UNCHANGED <<rcopy, rseen>>
        BY <1>0, <2>1, ReadType DEF ListCandidates
      <3> QED BY <1>0, <2>0, <3>2, <3>3, <3>4, BetweenOK
    <2>2. CASE InspectRow(c)
      <3>1. StoresTypeOK' /\ rseen' = rseen /\ rdoc[c] \in DocIds
        BY <1>0, <2>0, <2>2, ReadType DEF InspectRow
      <3>2. CASE /\ InPartition(rdoc[c], rreq[c].part)
                 /\ rcopy' = [rcopy EXCEPT ![c] = meta[rdoc[c]]]
                 /\ RepairGoto(c, "inspect_object") /\ UNCHANGED rdone
        <4>1. meta[rdoc[c]] \in Rows /\ meta[rdoc[c]].part = rreq[c].part
          BY <1>0, <3>1, <3>2 DEF InPartition, StoresTypeOK
        <4>2. rpc[c] \notin {"idle", "list"}
          BY <2>2 DEF InspectRow
        <4> QED BY <1>0, <2>0, <3>1, <3>2, <4>1, <4>2, OnwardOK DEF RepairPoints
      <3>3. CASE /\ rcopy' = [rcopy EXCEPT ![c] = None]
                 /\ rreq[c].action = "purge" /\ InNamespace(c)
                 /\ RepairGoto(c, FirstCall("purge")) /\ UNCHANGED rdone
        <4>1. FirstCall("purge") = "stat" /\ rpc[c] \notin {"idle", "list"}
          BY <2>2 DEF FirstCall, InspectRow
        <4> QED BY <1>0, <2>0, <3>1, <3>3, <4>1, OnwardOK
                DEF RepairPoints, Holding, Repairing, Completing
      <3> QED BY <2>2, <2>r, <3>1, <3>2, <3>3 DEF InspectRow
    <2>3. CASE InspectObject(c) \/ AsyncInspectObject(c)
      <3>1. StoresTypeOK' /\ rcopy' = rcopy /\ rpc[c] = "inspect_object"
        BY <1>0, <2>3, ReadType DEF InspectObject, AsyncInspectObject
      <3>2. rpc[c] \in Holding /\ rcopy[c] \in Rows
                /\ rcopy[c].part = rreq[c].part
        BY <3>1, OperatorFacts DEF Holding
      <3>3. CASE Report(c) /\ UNCHANGED rseen
        BY <2>r, <3>1, <3>3
      <3>4. ASSUME NEW seen \in BOOLEAN, rseen' = [rseen EXCEPT ![c] = seen],
                   \/ RepairGoto(c, "inspect_again") /\ UNCHANGED rdone
                   \/ Decide(c, seen)
            PROVE  OperatorsOK'
        <4>1. CASE RepairGoto(c, "inspect_again") /\ UNCHANGED rdone
          BY <1>0, <2>0, <3>1, <3>2, <3>4, <4>1, OnwardOK
          DEF RepairPoints
        <4>2. CASE Decide(c, seen)
          BY <1>0, <2>0, <3>1, <3>2, <3>4, <4>2, DecideOK
        <4> QED BY <3>4, <4>1, <4>2
      <3> QED BY <2>3, <3>1, <3>3, <3>4 DEF InspectObject, AsyncInspectObject
    <2>4. CASE InspectAgain(c)
      <3>1. StoresTypeOK' /\ rcopy' = rcopy /\ rseen' = rseen
              /\ rpc[c] = "inspect_again"
        BY <1>0, <2>4, ReadType DEF InspectAgain
      <3>2. CASE Decide(c, rseen[c])
        BY <1>0, <2>0, <3>1, <3>2, DecideOK DEF Holding
      <3>3. CASE Report(c)
        BY <2>r, <3>1, <3>3
      <3> QED BY <2>4, <3>1, <3>2, <3>3 DEF InspectAgain
    <2>5. CASE StatOrphan(c)
      <3>1. StoresTypeOK' /\ rcopy' = rcopy /\ rseen' = rseen
              /\ rpc[c] = "stat"
        BY <1>0, <2>5, ReadType DEF StatOrphan
      <3>2. rreq[c].action = "purge" /\ InNamespace(c)
        BY <2>0, <3>1, OperatorFacts
      <3>3. CASE RepairGoto(c, "purge") /\ UNCHANGED rdone
        BY <1>0, <2>0, <3>1, <3>2, <3>3, OnwardOK
        DEF RepairPoints, Holding, Repairing, Completing
      <3>4. CASE Verify(c)
        BY <1>0, <2>0, <3>1, <3>4, VerifyType, BetweenOK
      <3>5. CASE Report(c)
        BY <2>r, <3>1, <3>5
      <3> QED BY <2>5, <3>1, <3>3, <3>4, <3>5 DEF StatOrphan
    <2>6. CASE Purge(c)
      <3>1. rcopy' = rcopy /\ rseen' = rseen /\ rpc[c] = "purge"
              /\ rreq[c].key \in StorageKeys
        BY <2>0, <2>6, OperatorFacts DEF Purge
      <3>2. StoresTypeOK'
        BY <1>0, <2>6, <3>1, DeleteType DEF Purge
      <3>3. CASE Verify(c)
        BY <1>0, <2>0, <3>1, <3>2, <3>3, VerifyType, BetweenOK
      <3> QED BY <2>6, <2>r, <3>1, <3>2, <3>3 DEF Purge
    <2>7. CASE CompleteHard(c)
      BY <1>0, <2>0, <2>7, HardDeleteType, RowWriteOK DEF CompleteHard
    <2>8. CASE CompleteLoad(c) \/ FailedLoad(c)
      <3>1. rpc[c] \notin {"idle", "list"}
        BY <2>8 DEF CompleteLoad, FailedLoad
      <3>2. \E p \in {"complete_write", "failed_write"} : Reload(c, p)
        BY <2>8 DEF CompleteLoad, FailedLoad
      <3> QED BY <3>1, <3>2, ReloadOK DEF RepairPoints
    <2>9. CASE CompleteWrite(c) \/ FailedWrite(c)
      <3>1. rcopy[c] \in Rows /\ rpc[c] \notin {"idle", "list"}
        BY <2>9, OperatorFacts
        DEF CompleteWrite, FailedWrite, Holding, Repairing, Completing
      <3>2. PICK o \in Replies, found \in BOOLEAN, row \in Rows :
               /\ UpdateMetadata(rdoc[c], row, found, o)
               /\ RowWrite(c, Updated(rdoc[c], found, o))
        BY <2>9, <3>1, CopyTypes
        DEF CompleteWrite, FailedWrite, DocumentStatus, Lookup
      <3>3. UNCHANGED <<objects, ops, seq, rreq, rcopy, rseen>>
        BY <2>9 DEF CompleteWrite, FailedWrite
      <3> QED BY <1>0, <2>0, <3>1, <3>2, <3>3, UpdateType, RowWriteOK
    <2>a. CASE RepairCrash(c)
      BY <1>0, <2>0, <2>a, EndType, BetweenOK, ReadType DEF RepairCrash, Die
    <2>b. CASE CancelRepair(c)
      <3> DEFINE Cut == {DeletedRow(rcopy[c]), WithStatus(rcopy[c], "failed")}
      <3>1. OperatorsOK'
        BY <1>0, <2>0, <2>b, EndType, BetweenOK DEF CancelRepair
      <3>2. CASE UNCHANGED <<meta, faults>>
        BY <1>0, <2>b, <3>1, <3>2 DEF CancelRepair, StoresTypeOK
      <3>3. CASE /\ rpc[c] = "complete_hard"
                 /\ \E found \in BOOLEAN : HardDelete(rdoc[c], found, "ok")
        BY <1>0, <2>0, <2>b, <3>1, <3>3, HardDeleteType DEF CancelRepair
      <3>4. CASE /\ rpc[c] \in {"complete_write", "failed_write"}
                 /\ \E found \in BOOLEAN, r \in Cut :
                       UpdateMetadata(rdoc[c], r, found, "ok")
        <4>1. rcopy[c] \in Rows
          BY <3>4, OperatorFacts DEF Holding, Repairing, Completing
        <4>2. PICK row \in Rows, found \in BOOLEAN :
                 UpdateMetadata(rdoc[c], row, found, "ok")
          BY <3>4, <4>1, CopyTypes DEF DocumentStatus
        <4> QED BY <1>0, <2>0, <2>b, <3>1, <3>4, <4>2, UpdateType
                DEF CancelRepair
      <3> QED BY <2>b, <3>2, <3>3, <3>4
              DEF CancelRepair, CutRepairWrite, Lookup
    <2> QED BY <1>s, <2>1, <2>2, <2>3, <2>4, <2>5, <2>6, <2>7, <2>8, <2>9,
               <2>a, <2>b
            DEF RepairStep
  <1>2. Done
    BY <1>1, <1>s DEF RepairActs, AsyncRepairStep, AsyncListCandidates,
       AsyncInspectRow, AsyncApply, RepairStep
  <1>3. (rlate \subseteq StorageKeys)'
    <2>1. ASSUME NEW c \in Operators, CancelRepair(c)
          PROVE  rlate' \subseteq StorageKeys
      BY <1>0, <2>1, OperatorFacts DEF CancelRepair
    <2> QED BY <1>0, <2>1 DEF RepairActs, AsyncRepairStep, recoveryTaskVars
  <1> QED BY <1>2, <1>3

(* The reset at work is that of resetter c, for the partitions it keeps.   *)
ResetsOnly(c) ==
    /\ spc[c] # "idle"
    /\ UNCHANGED <<sscope, scalls, sbegun, seq>>
    /\ \A e \in Resetters : e # c => /\ spc'[e] = spc[e]
                                     /\ slisted'[e] = slisted[e]
                                     /\ sfailed'[e] = sfailed[e]
                                     /\ sout'[e] = sout[e]

ResettersOK == ResettersTyped /\ \A c \in Resetters : ResetterLocal(c)

LEMMA ResettersType ==
    ASSUME DmsTypeInv, NEW c \in Resetters,
           ResetStep(c) \/ CancelReset(c)
    PROVE  /\ StoresTypeOK' /\ ResettersOK' /\ ResetsOnly(c)
           /\ slisted'[c] \subseteq slisted[c] \/ spc[c] = "list"
  <1>0. /\ StoresTypeOK /\ ResettersTyped
        /\ \A e \in Resetters : ResetterLocal(e)
        /\ slisted[c] \subseteq StorageKeys
    BY StoreTypes DEF DmsTypeInv, ResettersTyped
  <1>1. ASSUME ResettersTyped', ResetsOnly(c),
               \A k \in slisted'[c] : k[1] \in sscope[c],
               spc'[c] # "remove" => slisted'[c] = {}
        PROVE  ResettersOK'
    BY <1>0, <1>1 DEF ResettersOK, ResetterLocal, ResetsOnly
  <1>2. CASE ListObjects(c)
    <2>1. StoresTypeOK'
      BY <1>0, <1>2, ReadType DEF ListObjects
    <2>2. PICK o \in ReadReplies, Q \in SUBSET {k \in StorageKeys : k[1] \in sscope[c]} :
             Note(c, "objects", o) /\ RemoveNext(c, Q)
      BY <1>2 DEF ListObjects
    <2>3. ResettersTyped' /\ ResetsOnly(c)
      BY <1>0, <1>2, <2>2
      DEF ListObjects, Note, Failures, RemoveNext, ResettersTyped, ResetsOnly,
          ResetPoints
    <2>4. slisted'[c] = Q /\ (spc'[c] # "remove" => Q = {})
      BY <1>0, <2>2 DEF RemoveNext, ResettersTyped
    <2> QED BY <1>1, <1>2, <2>1, <2>2, <2>3, <2>4 DEF ListObjects
  <1>3. CASE RemoveObject(c)
    <2>1. PICK k \in slisted[c], o \in Replies :
             /\ DeleteObject(k, o)
             /\ Note(c, "objects", o) /\ RemoveNext(c, slisted[c] \ {k})
      BY <1>3 DEF RemoveObject
    <2>2. StoresTypeOK'
      BY <1>0, <1>3, <2>1, DeleteType DEF RemoveObject
    <2>3. ResettersTyped' /\ ResetsOnly(c)
      BY <1>0, <1>3, <2>1
      DEF RemoveObject, Note, Failures, RemoveNext, ResettersTyped,
          ResetsOnly, ResetPoints
    <2>4. /\ slisted'[c] = slisted[c] \ {k}
          /\ spc'[c] # "remove" => slisted'[c] = {}
      BY <1>0, <2>1 DEF RemoveNext, ResettersTyped
    <2> QED BY <1>0, <1>1, <2>2, <2>3, <2>4 DEF ResetterLocal
  <1>4. CASE ClearMetadata(c) \/ ClearOperations(c)
    <2>1. PICK o \in Replies, s \in {"metadata", "operations"} :
             Answer(o) /\ Note(c, s, o)
      BY <1>4 DEF ClearMetadata, ClearOperations
    <2>2. WithoutRows(c) \in [DocIds -> Rows \cup {None}]
             /\ WithoutOperations(c) \in [OpKeys -> Operations \cup {None}]
      BY <1>0 DEF WithoutRows, WithoutOperations, StoresTypeOK
    <2>3. StoresTypeOK'
      BY <1>0, <1>4, <2>1, <2>2, AnswerType
      DEF ClearMetadata, ClearOperations, StoresTypeOK
    <2>4. ResettersTyped' /\ ResetsOnly(c) /\ slisted' = slisted
      BY <1>0, <1>4, <2>1
      DEF ClearMetadata, ClearOperations, Note, Failures, ResettersTyped,
          ResetsOnly, ResetPoints, ResetResults
    <2>5. slisted[c] = {}
      BY <1>0, <1>4 DEF ClearMetadata, ClearOperations, ResetterLocal
    <2> QED BY <1>1, <2>3, <2>4, <2>5
  <1>5. CASE ResetCrash(c) \/ CancelReset(c)
    <2>1. WithoutRows(c) \in [DocIds -> Rows \cup {None}]
             /\ WithoutOperations(c) \in [OpKeys -> Operations \cup {None}]
      BY <1>0 DEF WithoutRows, WithoutOperations, StoresTypeOK
    <2>2. StoresTypeOK'
      BY <1>0, <1>5, <2>1, ReadType
      DEF ResetCrash, CancelReset, Die, StoresTypeOK
    <2>3. ResettersTyped' /\ ResetsOnly(c) /\ slisted'[c] = {}
      BY <1>0, <1>5
      DEF ResetCrash, CancelReset, Die, ResettersTyped, ResetsOnly,
          ResetPoints, ResetResults
    <2> QED BY <1>1, <2>2, <2>3
  <1> QED BY <1>2, <1>3, <1>4, <1>5 DEF ResetStep, ResetCall

LEMMA ResetBegins ==
    ASSUME DmsTypeInv, NEW c \in Resetters, NEW scope \in Scopes,
           Reset(c, scope)
    PROVE  StoresTypeOK' /\ ResettersOK'
  <1>0. /\ StoresTypeOK /\ ResettersTyped
        /\ \A e \in Resetters : ResetterLocal(e)
    BY StoreTypes DEF DmsTypeInv
  <1>1. StoresTypeOK' /\ ResettersTyped'
    BY <1>0, ResetAssumption
    DEF Reset, storeVars, StoresTypeOK, ResettersTyped, ResetPoints,
        ResetResults
  <1>2. slisted[c] = {}
    BY <1>0 DEF Reset, ResetterLocal
  <1>3. \A e \in Resetters : ResetterLocal(e)'
    BY <1>0, <1>2 DEF Reset, ResettersTyped, ResetterLocal
  <1> QED BY <1>1, <1>3 DEF ResettersOK

(* DmsInit sets every store and every process. *)
LEMMA DmsTypeInit == DmsInit => DmsTypeInv
  <1> SUFFICES ASSUME DmsInit PROVE DmsTypeInv
    OBVIOUS
  <1>1. StoresTypeOK
    <2>1. seq \in 0 .. MaxDoc
      <3> DEFINE n == Cardinality(DOMAIN Library)
      <3>0. IsFiniteSet(1 .. MaxDoc)
        BY BoundsAssumption, FS_Interval
      <3>1. IsFiniteSet(DOMAIN Library)
        BY <3>0, DocumentAssumption, FS_Subset DEF DocIds
      <3>2. n \in Nat
        BY <3>1, FS_CardinalityType
      <3>3. n = 0 \/ n \in DOMAIN Library
        BY <3>2, DocumentAssumption
      <3>4. n \in 0 .. MaxDoc
        BY <3>2, <3>3, DocumentAssumption, BoundsAssumption DEF DocIds
      <3> QED BY <3>4 DEF DmsInit, DocInit
    <2>2. \A d \in DOMAIN Library : Library[d] \in Rows
                                      /\ Library[d].content \in Contents
      BY DocumentAssumption DEF Rows
    <2> QED BY <2>1, <2>2, BoundsAssumption DEF DmsInit, DocInit, StoresTypeOK
  <1>2. TypeInv
    BY <1>1, UploadAssumption
    DEF DmsInit, UploadInit, TypeInv, UploadTypeOK, LocalOK, Points, Results
  <1>3. ClientsTyped /\ \A c \in Clients : ClientLocal(c)
    BY DEF DmsInit, DocInit, ClientsTyped, ClientLocal, DocPoints, DocResults
  <1>4. OperatorsTyped /\ \A c \in Operators : OperatorLocal(c)
    BY DEF DmsInit, RepairInit, OperatorsTyped, OperatorLocal, RepairPoints,
           Holding, Repairing, Completing
  <1>5. ResettersTyped /\ \A c \in Resetters : ResetterLocal(c)
    BY DEF DmsInit, ResetInit, ResettersTyped, ResetterLocal, ResetPoints,
           ResetResults
  <1> QED BY <1>2, <1>3, <1>4, <1>5 DEF DmsTypeInv, DmsInit, RecoveryTaskInit

(* What a step of one kind of process leaves to the others. *)
LEMMA ClientsKept ==
    ASSUME DmsTypeInv, UNCHANGED documentVars
    PROVE  ClientsTyped' /\ \A c \in Clients : ClientLocal(c)'
  BY DEF DmsTypeInv, documentVars, ClientsTyped, ClientLocal

LEMMA OperatorsKept ==
    ASSUME DmsTypeInv, UNCHANGED repairVars
    PROVE  OperatorsTyped' /\ \A c \in Operators : OperatorLocal(c)'
  BY DEF DmsTypeInv, repairVars, OperatorsTyped, OperatorLocal, InNamespace

LEMMA ResettersKept ==
    ASSUME DmsTypeInv, UNCHANGED resetVars
    PROVE  ResettersTyped' /\ \A c \in Resetters : ResetterLocal(c)'
  BY DEF DmsTypeInv, resetVars, ResettersTyped, ResetterLocal

LEMMA DmsTypeStep == DmsTypeInv /\ [DmsNext]_dmsVars => DmsTypeInv'
  <1> SUFFICES ASSUME DmsTypeInv, [DmsNext]_dmsVars PROVE DmsTypeInv'
    OBVIOUS
  <1> USE DEF recoveryVars
  <1>0. StoresTypeOK
    BY StoreTypes DEF DmsTypeInv
  <1>1. CASE UploadActs
    <2>1. TypeInv'
      BY <1>1, TypeStep DEF UploadActs, DmsTypeInv
    <2>2. UNCHANGED <<documentVars, repairVars, resetVars, rlate>>
      BY <1>1 DEF UploadActs, othersOfUpload, recoveryTaskVars
    <2> QED BY <2>1, <2>2, ClientsKept, OperatorsKept, ResettersKept
            DEF DmsTypeInv
  <1>2. CASE DocumentActs
    <2>1. UNCHANGED <<uploadVars, repairVars, resetVars, rlate>>
      BY <1>2 DEF DocumentActs, othersOfDocument, recoveryTaskVars
    <2>2. /\ StoresTypeOK'
          /\ ClientsTyped' /\ \A c \in Clients : ClientLocal(c)'
      BY <1>2, <2>1, ClientsType DEF DocumentActs
    <2>3. TypeInv'
      BY <2>1, <2>2, StoresSuffice DEF DmsTypeInv
    <2> QED BY <2>1, <2>2, <2>3, OperatorsKept, ResettersKept DEF DmsTypeInv
  <1>3. CASE RepairActs
    <2>1. UNCHANGED <<uploadVars, documentVars, resetVars>>
      BY <1>3 DEF RepairActs, othersOfRepair, othersOfRecovery
    <2>2. StoresTypeOK' /\ OperatorsOK' /\ (rlate \subseteq StorageKeys)'
      BY <1>3, OperatorsType
    <2>3. TypeInv'
      BY <2>1, <2>2, StoresSuffice DEF DmsTypeInv
    <2> QED BY <2>1, <2>2, <2>3, ClientsKept, ResettersKept
            DEF DmsTypeInv, OperatorsOK
  <1>4. CASE ResetActs
    <2>1. UNCHANGED <<uploadVars, documentVars, repairVars>>
      BY <1>4 DEF ResetActs, othersOfReset, othersOfRecovery
    <2>2. StoresTypeOK' /\ ResettersOK'
      BY <1>4, ResettersType, ResetBegins
      DEF ResetActs, AsyncResetStep, ResetStep, ResetCall, AsyncListObjects,
          AsyncRemoveObject, AsyncClearMetadata, AsyncClearOperations
    <2>3. rlate' \subseteq StorageKeys
      <3>1. ASSUME NEW c \in Resetters, CancelReset(c)
            PROVE  rlate' \subseteq StorageKeys
        BY <3>1 DEF CancelReset, DmsTypeInv, ResettersTyped
      <3> QED BY <1>4, <3>1
              DEF ResetActs, AsyncResetStep, recoveryTaskVars, DmsTypeInv
    <2>4. TypeInv'
      BY <2>1, <2>2, StoresSuffice DEF DmsTypeInv
    <2> QED BY <2>1, <2>2, <2>3, <2>4, ClientsKept, OperatorsKept
            DEF DmsTypeInv, ResettersOK
  <1>5. CASE LateRemovals
    <2>1. /\ UNCHANGED <<uploadVars, documentVars, repairVars, resetVars>>
          /\ rlate' \subseteq rlate
      BY <1>5 DEF LateRemovals, LandRemoval, othersOfRecovery
    <2>2. StoresTypeOK'
      BY <1>0, <1>5 DEF LateRemovals, LandRemoval, StoresTypeOK
    <2>3. TypeInv'
      BY <2>1, <2>2, StoresSuffice DEF DmsTypeInv
    <2> QED BY <2>1, <2>3, ClientsKept, OperatorsKept, ResettersKept
            DEF DmsTypeInv
  <1>6. CASE UNCHANGED dmsVars
    <2>1. /\ UNCHANGED <<uploadVars, documentVars, repairVars, resetVars, rlate>>
          /\ StoresTypeOK'
      BY <1>0, <1>6 DEF dmsVars, recoveryTaskVars, storeVars, StoresTypeOK
    <2>2. TypeInv'
      BY <2>1, StoresSuffice DEF DmsTypeInv
    <2> QED BY <2>1, <2>2, ClientsKept, OperatorsKept, ResettersKept
            DEF DmsTypeInv
  <1> QED BY <1>1, <1>2, <1>3, <1>4, <1>5, <1>6 DEF DmsNext

LEMMA DmsTypeCorrect == DmsSpec => []DmsTypeInv
  BY DmsTypeInit, DmsTypeStep, PTL DEF DmsSpec

-----------------------------------------------------------------------------
(* What a step does to the stores, in terms of partitions *)

Contained == <<meta, objects, ops>>

(* Only in partition p does the step change anything. *)
Within(p) ==
    /\ \A d \in DocIds :
          \/ meta'[d] = meta[d]
          \/ /\ meta[d] # None => meta[d].part = p
             /\ meta'[d] # None => meta'[d].part = p
    /\ \A k \in StorageKeys : objects'[k] = objects[k] \/ k[1] = p
    /\ \A k \in OpKeys : ops'[k] = ops[k] \/ k[1] = p

(* Nothing appears that was not there. *)
Fades ==
    /\ \A d \in DocIds :
          meta'[d] # None => meta[d] # None /\ meta'[d].part = meta[d].part
    /\ \A k \in StorageKeys : objects'[k] # None => objects'[k] = objects[k]
    /\ \A k \in OpKeys : ops'[k] # None => ops'[k] = ops[k]

LEMMA NothingWithin ==
    ASSUME UNCHANGED Contained, NEW p
    PROVE  Within(p) /\ Fades
  BY DEF Within, Fades, Contained

(* The row of a document, if it has one, is of partition p. *)
OwnRow(d, p) == meta[d] # None => meta[d].part = p

LEMMA UpdateWithin ==
    ASSUME StoresTypeOK, NEW d \in DocIds, NEW row \in Rows, NEW found, NEW o,
           UpdateMetadata(d, row, found, o), UNCHANGED <<objects, ops>>
    PROVE  Fades /\ (OwnRow(d, row.part) => Within(row.part))
  <1>1. CASE meta' = meta
    BY <1>1, NothingWithin DEF Contained
  <1>2. CASE Exists(d) /\ \E r \in Merged(d, row) : meta' = [meta EXCEPT ![d] = r]
    <2>1. PICK r \in Merged(d, row) : meta' = [meta EXCEPT ![d] = r]
      BY <1>2
    <2>2. meta[d] # None /\ meta[d] \in Rows /\ r.part = meta[d].part
      BY <1>2 DEF Exists, StoresTypeOK, Merged, Rows
    <2> QED BY <2>1, <2>2 DEF OwnRow, Within, Fades, StoresTypeOK
  <1> QED BY <1>1, <1>2 DEF UpdateMetadata

LEMMA HardDeleteWithin ==
    ASSUME StoresTypeOK, NEW d \in DocIds, NEW found, NEW o,
           HardDelete(d, found, o), UNCHANGED <<objects, ops>>, NEW p
    PROVE  Fades /\ (OwnRow(d, p) => Within(p))
  BY DEF HardDelete, OwnRow, Within, Fades, StoresTypeOK

LEMMA DeleteWithin ==
    ASSUME StoresTypeOK, NEW k \in StorageKeys, NEW o,
           DeleteObject(k, o), UNCHANGED <<meta, ops>>
    PROVE  Within(k[1]) /\ Fades
  BY DEF DeleteObject, Within, Fades, StoresTypeOK

LEMMA MoveOperationWithin ==
    ASSUME StoresTypeOK, NEW k \in OpKeys, NEW from, NEW to, NEW o,
           MoveOperation(k, from, to, o), UNCHANGED <<meta, objects>>
    PROVE  Within(k[1])
  BY DEF MoveOperation, Within, StoresTypeOK

LEMMA GotoMoves ==
    ASSUME TypeInv, NEW c \in Callers, NEW e, NEW p
    PROVE  /\ Goto(c, p) => upc'[c] = p
           /\ Return(c, e) => upc'[c] = "idle"
           /\ Raise(c, e) => upc'[c] \in {"idle", "mark_failed"}
  BY DEF TypeInv, UploadTypeOK, Goto, Return, Raise

(* A registration changes its own partition. *)
LEMMA UploadWithin ==
    ASSUME TypeInv, NEW c \in Callers, UploadStep(c) \/ Crash(c)
    PROVE  /\ Within(ureq[c].part)
           /\ upc[c] # "idle" /\ upc'[c] # upc[c]
           /\ ureq[c] \in Requests
  <1> DEFINE p == ureq[c].part
  <1>0. /\ StoresTypeOK /\ upc[c] # "idle" /\ ureq[c] \in Requests
        /\ upc[c] # "allocate" => udoc[c] \in DocIds
        /\ upc[c] # "allocate" => BuildStorageKey(c) \in StorageKeys
        /\ Keyed(c) => OpKey(c) \in OpKeys
        /\ NewRow(c) \in Rows
    <2>1. upc[c] # "idle"
      BY DEF UploadStep, Allocate, Claim, Select, Reclaim, Replay,
         CheckExists, Put, Save, Rollback, MarkSucceeded, MarkFailed, Crash
    <2> QED BY <2>1, CallerTypes, StoreTypes
  <1>k. upc[c] \in {"claim", "select", "reclaim", "mark_succeeded",
                    "mark_failed"} => OpKey(c) \in OpKeys /\ OpKey(c)[1] = p
    BY <1>0 DEF TypeInv, LocalOK, OpKey
  <1>q. UNCHANGED Contained => Within(p)
    BY NothingWithin
  <1>m. ASSUME NEW from, NEW to, NEW o, OpKey(c) \in OpKeys,
               MoveOperation(OpKey(c), from, to, o), UNCHANGED <<meta, objects>>
        PROVE  Within(p)
    BY <1>0, <1>m, MoveOperationWithin DEF OpKey
  <1>1. CASE Allocate(c)
    BY <1>0, <1>q, <1>1, GotoMoves DEF Allocate, Contained, AfterIdentifier
  <1>2. CASE Claim(c)
    <2>1. Within(p)
      BY <1>0, <1>2, <1>k DEF Claim, InsertOperation, Within, StoresTypeOK
    <2> QED BY <1>0, <1>2, <2>1, GotoMoves DEF Claim
  <1>3. CASE Select(c) \/ Reclaim(c)
    <2>1. /\ upc[c] \in {"select", "reclaim"} /\ UNCHANGED <<meta, objects>>
          /\ \/ ops' = ops
             \/ \E o \in Replies : MoveOperation(OpKey(c), "failed", "pending", o)
      BY <1>3 DEF Select, Reclaim, Retake
    <2>2. Within(p)
      BY <1>k, <1>q, <1>m, <2>1 DEF Contained
    <2>3. Retake(c) => upc'[c] \in {"idle", "exists"}
      BY GotoMoves DEF Retake, Reuse
    <2>4. upc'[c] # upc[c]
      BY <1>3, <2>3, GotoMoves DEF Select, Reclaim
    <2> QED BY <1>0, <2>2, <2>4
  <1>4. CASE Replay(c)
    BY <1>0, <1>q, <1>4, GotoMoves DEF Replay, Contained
  <1>5. CASE CheckExists(c)
    BY <1>0, <1>q, <1>5, GotoMoves DEF CheckExists, Contained
  <1>6. CASE Put(c)
    <2>1. Within(p)
      BY <1>0, <1>6 DEF Put, PutObject, Within, StoresTypeOK, BuildStorageKey
    <2>2. upc'[c] \in {"idle", "mark_failed", "rollback", "save"}
      BY <1>6, GotoMoves DEF Put, TypeInv, UploadTypeOK
    <2> QED BY <1>0, <1>6, <2>1, <2>2 DEF Put
  <1>7. CASE Save(c)
    <2>1. Within(p)
      BY <1>0, <1>7
      DEF Save, SaveMetadata, Exists, Within, StoresTypeOK, NewRow
    <2>2. upc'[c] \in {"idle", "mark_succeeded", "rollback"}
      BY <1>7, GotoMoves DEF Save, TypeInv, UploadTypeOK
    <2> QED BY <1>0, <1>7, <2>1, <2>2 DEF Save
  <1>8. CASE Rollback(c)
    <2>1. Within(p)
      BY <1>0, <1>8, DeleteWithin DEF Rollback, BuildStorageKey
    <2> QED BY <1>0, <1>8, <2>1, GotoMoves DEF Rollback
  <1>9. CASE MarkSucceeded(c) \/ MarkFailed(c)
    <2>1. Within(p)
      BY <1>9, <1>k, <1>m DEF MarkSucceeded, MarkFailed, MarkOperation
    <2>2. upc'[c] # upc[c]
      BY <1>9, GotoMoves DEF MarkSucceeded, MarkFailed
    <2> QED BY <1>0, <2>1, <2>2
  <1>a. CASE Crash(c)
    BY <1>0, <1>q, <1>a DEF Crash, Die, Contained, TypeInv, UploadTypeOK
  <1> QED BY <1>0, <1>1, <1>2, <1>3, <1>4, <1>5, <1>6, <1>7, <1>8, <1>9, <1>a
          DEF UploadStep

(* A deletion adds nothing, and changes its own partition as long as its   *)
(* identifier is of that partition.                                        *)
LEMMA ClientWithin ==
    ASSUME DmsTypeInv, NEW c \in Clients, DocStep(c) \/ DocCrash(c)
    PROVE  /\ Fades /\ dpc[c] # "idle" /\ dpc'[c] # dpc[c]
           /\ (dpc[c] # "load" => OwnRow(Doc(c), dreq[c].part))
                 => Within(dreq[c].part)
  <1> DEFINE p == dreq[c].part
             Contains == /\ Fades
                         /\ (dpc[c] # "load" => OwnRow(Doc(c), p)) => Within(p)
  <1>0. dpc[c] # "idle" /\ dpc \in [Clients -> DocPoints]
    BY DEF DocStep, Load, Fetch, SetDeleting, Remove, SetFailed, Erase,
           MarkLoad, MarkWrite, DocCrash, DmsTypeInv, ClientsTyped
  <1>1. /\ StoresTypeOK /\ Doc(c) \in DocIds /\ p \in Partitions
        /\ dpc[c] # "load" => /\ dcopy[c] \in Rows /\ dcopy[c].part = p
                              /\ CopyKey(c) \in StorageKeys
                              /\ CopyKey(c)[1] = p
    BY <1>0, ClientFacts, StoreTypes DEF DmsTypeInv, CopyKey, StorageKeyOf
  <1>q. UNCHANGED Contained => Contains
    BY NothingWithin
  <1>u. ASSUME NEW row \in Rows, NEW o, NEW found, row.part = p,
               dpc[c] # "load",
               UpdateMetadata(Doc(c), row, found, o), UNCHANGED <<objects, ops>>
        PROVE  Contains
    BY <1>1, <1>u, UpdateWithin
  <1>2. CASE Load(c)
    BY <1>0, <1>q, <1>2 DEF Load, DocReturn, DocGoto, AfterLoad, Contained
  <1>3. CASE Fetch(c)
    BY <1>0, <1>q, <1>3 DEF Fetch, DocReturn, Contained
  <1>4. CASE SetDeleting(c)
    <2>1. Contains
      BY <1>1, <1>4, <1>u, CopyTypes DEF SetDeleting, DocumentStatus
    <2> QED BY <1>0, <1>4, <2>1 DEF SetDeleting, DocReturn, DocGoto
  <1>5. CASE Remove(c)
    <2>1. Contains
      BY <1>1, <1>5, DeleteWithin DEF Remove
    <2> QED BY <1>0, <1>5, <2>1 DEF Remove, DocGoto, AfterRemove
  <1>6. CASE SetFailed(c)
    <2>1. Contains
      BY <1>1, <1>6, <1>u, CopyTypes DEF SetFailed, DocumentStatus
    <2> QED BY <1>0, <1>6, <2>1 DEF SetFailed, DocReturn
  <1>7. CASE Erase(c)
    <2>1. Contains
      BY <1>1, <1>7, HardDeleteWithin DEF Erase
    <2> QED BY <1>0, <1>7, <2>1 DEF Erase, DocReturn
  <1>8. CASE MarkLoad(c)
    BY <1>0, <1>q, <1>8 DEF MarkLoad, DocReturn, DocGoto, Contained
  <1>9. CASE MarkWrite(c)
    <2>1. Contains
      BY <1>1, <1>9, <1>u, CopyTypes DEF MarkWrite
    <2> QED BY <1>0, <1>9, <2>1 DEF MarkWrite, DocReturn
  <1>a. CASE DocCrash(c)
    BY <1>0, <1>q, <1>a DEF DocCrash, Die, DocReturn, Contained
  <1> QED BY <1>2, <1>3, <1>4, <1>5, <1>6, <1>7, <1>8, <1>9, <1>a DEF DocStep

LEMMA BetweenMoves ==
    ASSUME DmsTypeInv, NEW c \in Operators,
           Report(c) \/ Verify(c)
    PROVE  rpc'[c] \in {"idle", "inspect_row"}
  BY DEF DmsTypeInv, OperatorsTyped, Report, Verify, NextItem, RepairGoto

(* A repair adds nothing, and changes its own partition as long as the     *)
(* document it repairs is of that partition.                               *)
LEMMA OperatorWithin ==
    ASSUME DmsTypeInv, NEW c \in Operators,
           RepairStep(c) \/ AsyncRepairStep(c) \/ CancelRepair(c)
    PROVE  /\ Fades /\ rpc[c] # "idle"
           /\ rpc'[c] # rpc[c] \/ UNCHANGED Contained
           /\ (rpc[c] \in Repairing => OwnRow(rdoc[c], rreq[c].part))
                 => Within(rreq[c].part)
  <1> DEFINE p == rreq[c].part
             Contains == /\ Fades
                         /\ (rpc[c] \in Repairing => OwnRow(rdoc[c], p))
                               => Within(p)
  <1>0. rpc[c] # "idle" /\ rpc \in [Operators -> RepairPoints] /\ StoresTypeOK
    BY StoreTypes DEF RepairStep, AsyncRepairStep, CancelRepair, AsyncApply,
       AsyncListCandidates, AsyncInspectRow, AsyncInspectObject,
       ListCandidates, InspectRow, InspectObject, InspectAgain, StatOrphan,
       Purge, CompleteHard, CompleteLoad, CompleteWrite, FailedLoad,
       FailedWrite, RepairCrash, DmsTypeInv, OperatorsTyped
  <1>1. CASE \/ ListCandidates(c) \/ InspectRow(c) \/ InspectObject(c)
             \/ InspectAgain(c) \/ StatOrphan(c) \/ AsyncInspectObject(c)
             \/ CompleteLoad(c) \/ FailedLoad(c) \/ RepairCrash(c)
    <2>1. UNCHANGED Contained
      BY <1>1 DEF ListCandidates, InspectRow, InspectObject, InspectAgain,
         StatOrphan, AsyncInspectObject, CompleteLoad, FailedLoad, Reload,
         RepairCrash, Die, Contained
    <2> QED BY <1>0, <2>1, NothingWithin
  <1>h. CASE CompleteHard(c)
    <2>1. Contains
      BY <1>0, <1>h, OperatorFacts, HardDeleteWithin
      DEF CompleteHard, Repairing, Completing
    <2> QED BY <1>0, <1>h, <2>1, BetweenMoves DEF CompleteHard, RowWrite
  <1>w. ASSUME rpc[c] \in {"complete_write", "failed_write"}
        PROVE  /\ rcopy[c] \in Rows /\ rcopy[c].part = p
               /\ rdoc[c] \in DocIds
    BY <1>w, OperatorFacts DEF Holding, Repairing, Completing
  <1>2. CASE CompleteWrite(c) \/ FailedWrite(c)
    <2>1. Contains
      <3>1. /\ rpc[c] \in {"complete_write", "failed_write"}
            /\ UNCHANGED <<objects, ops>>
        BY <1>2 DEF CompleteWrite, FailedWrite
      <3>2. PICK row \in Rows, found \in BOOLEAN, o \in Replies :
               UpdateMetadata(rdoc[c], row, found, o) /\ row.part = p
        <4>1. CASE CompleteWrite(c)
          <5>1. PICK o \in Replies, found \in Lookup(rdoc[c], p) :
                   UpdateMetadata(rdoc[c], DeletedRow(rcopy[c]), found, o)
            BY <4>1 DEF CompleteWrite
          <5>2. found \in BOOLEAN
            BY <5>1 DEF Lookup
          <5>3. /\ DeletedRow(rcopy[c]) \in Rows
                /\ DeletedRow(rcopy[c]).part = p
            BY <1>w, <3>1, CopyTypes
          <5> QED BY <5>1, <5>2, <5>3
        <4>2. CASE FailedWrite(c)
          <5> DEFINE failed == WithStatus(rcopy[c], "failed")
          <5>1. PICK o \in Replies, found \in Lookup(rdoc[c], p) :
                   UpdateMetadata(rdoc[c], failed, found, o)
            BY <4>2 DEF FailedWrite
          <5>2. found \in BOOLEAN
            BY <5>1 DEF Lookup
          <5>3. failed \in Rows /\ failed.part = p
            BY <1>w, <3>1, CopyTypes DEF DocumentStatus
          <5> HIDE DEF failed
          <5> QED BY <5>1, <5>2, <5>3
        <4> QED BY <1>2, <4>1, <4>2
      <3> QED BY <1>0, <1>w, <3>1, <3>2, UpdateWithin DEF Repairing, Completing
    <2> QED BY <1>0, <1>2, <2>1, BetweenMoves
            DEF CompleteWrite, FailedWrite, RowWrite
  <1>3. CASE Purge(c)
    <2>1. rreq[c].key \in StorageKeys /\ rreq[c].key[1] = p
      BY <1>3, OperatorFacts DEF Purge, InNamespace
    <2>2. Contains
      BY <1>0, <1>3, <2>1, DeleteWithin DEF Purge
    <2> QED BY <1>0, <1>3, <2>2, BetweenMoves DEF Purge
  <1>4. CASE CancelRepair(c)
    <2> DEFINE Cut == {DeletedRow(rcopy[c]), WithStatus(rcopy[c], "failed")}
    <2>1. Contains
      <3>1. CASE UNCHANGED meta
        BY <1>4, <3>1, NothingWithin DEF CancelRepair, Contained
      <3>2. CASE /\ rpc[c] = "complete_hard"
                 /\ \E found \in BOOLEAN : HardDelete(rdoc[c], found, "ok")
        BY <1>0, <1>4, <3>2, OperatorFacts, HardDeleteWithin
        DEF CancelRepair, Repairing, Completing
      <3>3. CASE /\ rpc[c] \in {"complete_write", "failed_write"}
                 /\ \E found \in BOOLEAN, r \in Cut :
                       UpdateMetadata(rdoc[c], r, found, "ok")
        <4>1. PICK row \in Rows, found \in BOOLEAN :
                 UpdateMetadata(rdoc[c], row, found, "ok") /\ row.part = p
          BY <1>w, <3>3, CopyTypes DEF DocumentStatus
        <4> QED BY <1>0, <1>4, <1>w, <3>3, <4>1, UpdateWithin
                DEF CancelRepair, Repairing, Completing
      <3> QED BY <1>4, <3>1, <3>2, <3>3
              DEF CancelRepair, CutRepairWrite, Lookup
    <2> QED BY <1>0, <1>4, <2>1 DEF CancelRepair
  <1> QED BY <1>0, <1>1, <1>h, <1>2, <1>3, <1>4
          DEF RepairStep, AsyncRepairStep, AsyncApply, AsyncListCandidates,
              AsyncInspectRow

(* A reset changes nothing outside its scope, and adds nothing. *)
LEMMA ResetterWithin ==
    ASSUME DmsTypeInv, NEW c \in Resetters, ResetStep(c) \/ CancelReset(c)
    PROVE  /\ \A p \in Partitions : p \notin sscope[c] => Untouched(p)
           /\ Fades /\ spc[c] # "idle"
           /\ \/ <<spc'[c], slisted'[c]>> # <<spc[c], slisted[c]>>
              \/ UNCHANGED Contained
  <1>0. /\ StoresTypeOK /\ spc[c] # "idle" /\ spc \in [Resetters -> ResetPoints]
        /\ slisted \in [Resetters -> SUBSET StorageKeys]
        /\ \A k \in slisted[c] : k[1] \in sscope[c]
    BY ResettersType, StoreTypes
    DEF ResetsOnly, DmsTypeInv, ResettersTyped, ResetterLocal
  <1>q. UNCHANGED Contained => Fades /\ \A p \in Partitions : Untouched(p)
    BY DEF Contained, Fades, Untouched
  <1>1. ASSUME meta' = meta \/ meta' = WithoutRows(c),
               ops' = ops \/ ops' = WithoutOperations(c), objects' = objects
        PROVE  Fades /\ \A p \in Partitions : p \notin sscope[c] => Untouched(p)
    <2>1. Fades
      BY <1>0, <1>1
      DEF Fades, StoresTypeOK, WithoutRows, WithoutOperations
    <2>2. ASSUME NEW p \in Partitions, p \notin sscope[c]
          PROVE  Untouched(p)
      BY <1>0, <1>1, <2>2
      DEF Untouched, InPartition, StoresTypeOK, WithoutRows, KeptRow,
          WithoutOperations
    <2> QED BY <2>1, <2>2
  <1>2. CASE ListObjects(c) \/ ResetCrash(c)
    BY <1>0, <1>2, <1>q DEF ListObjects, ResetCrash, Die, Contained
  <1>3. CASE RemoveObject(c)
    <2>1. PICK k \in slisted[c], o \in Replies :
             DeleteObject(k, o) /\ RemoveNext(c, slisted[c] \ {k})
      BY <1>3 DEF RemoveObject
    <2>2. k \in StorageKeys /\ k[1] \in sscope[c] /\ UNCHANGED <<meta, ops>>
      BY <1>0, <1>3, <2>1 DEF RemoveObject
    <2>3. Fades
      BY <1>0, <2>1, <2>2, DeleteWithin
    <2>4. \A p \in Partitions : p \notin sscope[c] => Untouched(p)
      BY <1>0, <2>1, <2>2 DEF DeleteObject, Untouched, InPartition, StoresTypeOK
    <2>5. slisted'[c] # slisted[c]
      BY <1>0, <2>1 DEF RemoveNext
    <2> QED BY <1>0, <2>3, <2>4, <2>5
  <1>4. CASE ClearMetadata(c) \/ ClearOperations(c)
    <2>1. spc'[c] # spc[c]
      BY <1>0, <1>4 DEF ClearMetadata, ClearOperations
    <2>2. Fades /\ \A p \in Partitions : p \notin sscope[c] => Untouched(p)
      BY <1>1, <1>4 DEF ClearMetadata, ClearOperations
    <2> QED BY <1>0, <2>1, <2>2
  <1>5. CASE CancelReset(c)
    <2>1. spc'[c] # spc[c]
      BY <1>0, <1>5 DEF CancelReset
    <2>2. Fades /\ \A p \in Partitions : p \notin sscope[c] => Untouched(p)
      BY <1>1, <1>5 DEF CancelReset
    <2> QED BY <1>0, <2>1, <2>2
  <1> QED BY <1>2, <1>3, <1>4, <1>5 DEF ResetStep, ResetCall

(* A late removal changes the partition of its key. *)
LEMMA LateWithin ==
    ASSUME DmsTypeInv, NEW k \in rlate, LandRemoval(k)
    PROVE  Within(k[1]) /\ Fades /\ k \in rlate \ rlate'
  <1>1. StoresTypeOK /\ k \in StorageKeys /\ k \notin rlate'
    BY StoreTypes DEF DmsTypeInv, LandRemoval
  <1> QED BY <1>1 DEF LandRemoval, Within, Fades, StoresTypeOK

LEMMA WithinUntouched ==
    ASSUME NEW q, Within(q), NEW p, p # q
    PROVE  Untouched(p)
  BY DEF Within, Untouched, InPartition

(* The steps that begin a call. *)
Begins ==
    \/ \E c \in Callers, r \in Requests : UploadDocument(c, r)
    \/ \E c \in Clients, r \in DocRequests : Request(c, r)
    \/ \E c \in Operators, r \in RepairRequests : Repair(c, r)
    \/ \E c \in Resetters, scope \in Scopes : Reset(c, scope)

LEMMA BeginsQuiet ==
    ASSUME Begins
    PROVE  UNCHANGED Contained
  BY DEF Begins, UploadDocument, Request, Repair, Reset, Contained, storeVars

LEMMA NextCases ==
    ASSUME DmsNext
    PROVE  \/ Begins
           \/ \E c \in Callers : UploadStep(c) \/ Crash(c)
           \/ \E c \in Clients : DocStep(c) \/ DocCrash(c)
           \/ \E c \in Operators :
                 RepairStep(c) \/ AsyncRepairStep(c) \/ CancelRepair(c)
           \/ \E c \in Resetters : ResetStep(c) \/ CancelReset(c)
           \/ \E k \in rlate : LandRemoval(k)
  <1>1. CASE UploadActs \/ DocumentActs
    BY <1>1 DEF UploadActs, DocumentActs, UploadNext, DocNext, Begins
  <1>2. CASE RepairActs
    BY <1>2 DEF RepairActs, Begins
  <1>3. CASE ResetActs
    BY <1>3 DEF ResetActs, Begins, AsyncResetStep, ResetStep, ResetCall,
       AsyncListObjects, AsyncRemoveObject, AsyncClearMetadata,
       AsyncClearOperations
  <1>4. CASE LateRemovals
    BY <1>4 DEF LateRemovals
  <1> QED BY <1>1, <1>2, <1>3, <1>4 DEF DmsNext

-----------------------------------------------------------------------------
(* Resets: what the resetters achieve nobody undoes *)

(* Nothing appears in the partitions S. *)
Spares(S) ==
    /\ \A d \in DocIds : meta'[d] # None /\ meta'[d].part \in S =>
                            meta[d] # None /\ meta[d].part \in S
    /\ \A k \in StorageKeys : k[1] \in S /\ objects'[k] # None =>
                                 objects[k] # None
    /\ \A k \in OpKeys : k[1] \in S /\ ops'[k] # None => ops[k] # None

LEMMA SparesKeeps ==
    ASSUME NEW c \in Resetters, Spares(sscope[c]), ResetterInv(c),
           spc'[c] = spc[c], sscope'[c] = sscope[c],
           slisted'[c] = slisted[c], sfailed'[c] = sfailed[c],
           sout'[c] = sout[c]
    PROVE  ResetterInv(c)'
  BY DEF Spares, ResetterInv, NoContents, NoRows, NoOperations

LEMMA FadesSpares ==
    ASSUME Fades, NEW S
    PROVE  Spares(S)
  BY DEF Fades, Spares

(* The step of the resetter itself. *)
LEMMA ResetterStep ==
    ASSUME DmsTypeInv, NEW c \in Resetters, ResetterInv(c),
           ResetStep(c) \/ CancelReset(c)
    PROVE  ResetterInv(c)'
  <1>0. /\ StoresTypeOK /\ ResettersTyped /\ ResetterLocal(c)
        /\ sscope' = sscope /\ spc[c] # "idle"
        /\ slisted[c] \subseteq StorageKeys
    BY ResettersType, StoreTypes DEF ResetsOnly, DmsTypeInv, ResettersTyped
  <1>1. CASE ListObjects(c)
    <2>1. sout'[c] = "None" /\ spc'[c] \in {"remove", "metadata"}
      BY <1>0, <1>1 DEF ListObjects, RemoveNext, ResetterInv, ResettersTyped
    <2>2. \/ "objects" \in sfailed'[c]
          \/ \A k \in StorageKeys :
                k[1] \in sscope[c] /\ objects[k] # None => k \in slisted'[c]
      BY <1>0, <1>1
      DEF ListObjects, RemoveNext, Note, Failures, ResettersTyped, ReadReplies
    <2> QED BY <1>0, <1>1, <2>1, <2>2 DEF ListObjects, ResetterInv
  <1>2. CASE RemoveObject(c)
    <2>1. PICK k \in slisted[c], o \in Replies :
             /\ DeleteObject(k, o) /\ Note(c, "objects", o)
             /\ RemoveNext(c, slisted[c] \ {k})
      BY <1>2 DEF RemoveObject
    <2>2. /\ sout'[c] = "None" /\ spc'[c] \in {"remove", "metadata"}
          /\ slisted'[c] = slisted[c] \ {k}
          /\ spc[c] = "remove"
      BY <1>0, <1>2, <2>1 DEF RemoveObject, RemoveNext, ResetterInv, ResettersTyped
    <2>3. \/ "objects" \in sfailed'[c]
          \/ /\ "objects" \notin sfailed[c]
             /\ objects' = [objects EXCEPT ![k] = None]
      BY <1>0, <2>1 DEF Note, Failures, ResettersTyped, DeleteObject, Applied
    <2> QED BY <1>0, <2>1, <2>2, <2>3 DEF ResetterInv, StoresTypeOK
  <1>3. CASE ClearMetadata(c)
    <2>1. /\ sout'[c] = "None" /\ spc'[c] = "operations" /\ spc[c] = "metadata"
          /\ slisted' = slisted /\ objects' = objects
      BY <1>0, <1>3 DEF ClearMetadata, ResetterInv, ResettersTyped
    <2>2. /\ sfailed[c] \subseteq sfailed'[c]
          /\ "metadata" \in sfailed'[c] \/ meta' = WithoutRows(c)
      BY <1>0, <1>3 DEF ClearMetadata, Note, Failures, ResettersTyped, Applied
    <2>3. meta' = WithoutRows(c) => NoRows(sscope[c])'
      BY <1>0 DEF NoRows, WithoutRows, KeptRow
    <2> QED BY <1>0, <2>1, <2>2, <2>3 DEF ResetterInv
  <1>4. CASE ClearOperations(c)
    <2>1. /\ sout'[c] \in {"Ready", "DataResetError"}
          /\ spc'[c] = "idle" /\ spc[c] = "operations"
          /\ slisted[c] = {} /\ UNCHANGED <<meta, objects>>
      BY <1>0, <1>4 DEF ClearOperations, ResettersTyped, ResetterLocal
    <2>2. ASSUME sout'[c] = "Ready"
          PROVE  sfailed[c] = {} /\ ops' = WithoutOperations(c)
      BY <1>0, <1>4, <2>2
      DEF ClearOperations, Note, Failures, ResettersTyped, Applied
    <2>3. ASSUME sout'[c] = "Ready"
          PROVE  (NoContents(sscope[c]) /\ NoRows(sscope[c])
                    /\ NoOperations(sscope[c]))'
      BY <1>0, <2>1, <2>2, <2>3
      DEF ResetterInv, NoContents, NoRows, NoOperations, WithoutOperations
    <2> QED BY <1>0, <2>1, <2>3 DEF ResetterInv
  <1>5. CASE ResetCrash(c) \/ CancelReset(c)
    <2>1. spc'[c] = "idle" /\ sout'[c] \in {"Crashed", "CancelledError"}
      BY <1>0, <1>5 DEF ResetCrash, CancelReset, ResettersTyped
    <2> QED BY <2>1 DEF ResetterInv
  <1> QED BY <1>1, <1>2, <1>3, <1>4, <1>5 DEF ResetStep, ResetCall

LEMMA ResetInvInit == DmsInit => ResetInv
  BY DEF DmsInit, ResetInit, ResetInv, ResetterInv

LEMMA ResetInvStep ==
    ASSUME ResetApart, DmsTypeInv, ResetInv, [DmsNext]_dmsVars
    PROVE  ResetInv'
  <1> USE DEF recoveryVars
  <1>f. ASSUME Fades, UNCHANGED resetVars
        PROVE  ResetInv'
    BY <1>f, FadesSpares, SparesKeeps DEF ResetInv, resetVars
  <1>q. ASSUME UNCHANGED Contained
        PROVE  Fades
    BY <1>q, NothingWithin
  <1>1. CASE UploadActs
    <2>1. UNCHANGED resetVars
      BY <1>1 DEF UploadActs, othersOfUpload
    <2>2. CASE UNCHANGED Contained
      BY <1>f, <1>q, <2>1, <2>2
    <2>3. ASSUME NEW c \in Callers, UploadStep(c) \/ Crash(c)
          PROVE  ResetInv'
      <3>1. Within(ureq[c].part) /\ ureq[c] \in Requests
        BY <2>3, UploadWithin DEF DmsTypeInv
      <3>2. ASSUME NEW e \in Resetters
            PROVE  ResetterInv(e)'
        <4>1. ureq[c].part \notin sscope[e]
          BY <3>1 DEF ResetApart, DmsTypeInv, ResetterLocal
        <4>2. Spares(sscope[e])
          BY <3>1, <4>1 DEF Within, Spares
        <4> QED BY <2>1, <4>2, SparesKeeps DEF ResetInv, resetVars
      <3> QED BY <3>2 DEF ResetInv
    <2>4. ASSUME NEW c \in Callers, NEW r \in Requests, UploadDocument(c, r)
          PROVE  ResetInv'
      BY <2>2, <2>4, BeginsQuiet DEF Begins
    <2> QED BY <1>1, <2>3, <2>4 DEF UploadActs, UploadNext
  <1>2. CASE DocumentActs
    <2>1. UNCHANGED resetVars
      BY <1>2 DEF DocumentActs, othersOfDocument
    <2>2. Fades
      BY <1>2, <1>q, ClientWithin, BeginsQuiet DEF DocumentActs, DocNext, Begins
    <2> QED BY <1>f, <2>1, <2>2
  <1>3. CASE RepairActs
    <2>1. UNCHANGED resetVars
      BY <1>3 DEF RepairActs, othersOfRepair
    <2>2. Fades
      BY <1>3, <1>q, OperatorWithin, BeginsQuiet DEF RepairActs, Begins
    <2> QED BY <1>f, <2>1, <2>2
  <1>4. CASE ResetActs
    <2>1. ASSUME NEW c \in Resetters, NEW scope \in Scopes, Reset(c, scope)
          PROVE  ResetInv'
      <3>1. Fades
        BY <1>q, <2>1, BeginsQuiet DEF Begins
      <3>2. ASSUME NEW e \in Resetters
            PROVE  ResetterInv(e)'
        <4>1. CASE e = c
          BY <2>1, <4>1 DEF Reset, ResetterInv, DmsTypeInv, ResettersTyped
        <4>2. CASE e # c
          BY <2>1, <3>1, <4>2, FadesSpares, SparesKeeps
          DEF Reset, ResetInv, DmsTypeInv, ResettersTyped
        <4> QED BY <4>1, <4>2
      <3> QED BY <3>2 DEF ResetInv
    <2>2. ASSUME NEW c \in Resetters, ResetStep(c) \/ CancelReset(c)
          PROVE  ResetInv'
      <3>1. Fades /\ ResetsOnly(c)
        BY <2>2, ResetterWithin, ResettersType
      <3>2. ASSUME NEW e \in Resetters
            PROVE  ResetterInv(e)'
        <4>1. CASE e = c
          BY <2>2, <4>1, ResetterStep DEF ResetInv
        <4>2. CASE e # c
          BY <3>1, <4>2, FadesSpares, SparesKeeps DEF ResetsOnly, ResetInv
        <4> QED BY <4>1, <4>2
      <3> QED BY <3>2 DEF ResetInv
    <2> QED BY <1>4, <2>1, <2>2
            DEF ResetActs, AsyncResetStep, ResetStep, ResetCall,
                AsyncListObjects, AsyncRemoveObject, AsyncClearMetadata,
                AsyncClearOperations
  <1>5. CASE LateRemovals
    <2>1. UNCHANGED resetVars
      BY <1>5 DEF LateRemovals, LandRemoval
    <2>2. Fades
      BY <1>5, LateWithin DEF LateRemovals
    <2> QED BY <1>f, <2>1, <2>2
  <1>6. CASE UNCHANGED dmsVars
    BY <1>6, <1>f, <1>q DEF dmsVars, storeVars, Contained
  <1> QED BY <1>1, <1>2, <1>3, <1>4, <1>5, <1>6 DEF DmsNext

(***************************************************************************)
(* A reset that answers "ready" has left nothing, and nothing comes back:  *)
(* the writes of deletions and repairs that hold copies of its rows do not *)
(* bring a row back.  Registrations do, so none may be made in the scope   *)
(* of a reset (ResetApart).                                                *)
(***************************************************************************)
THEOREM ReadyIsEmpty ==
    ASSUME ResetApart PROVE DmsSpec => []ReadyMeansEmpty
  <1>1. ResetInv => ReadyMeansEmpty
    BY DEF ResetInv, ResetterInv, ReadyMeansEmpty, NoContents, NoRows,
           NoOperations, InScope
  <1>2. DmsTypeInv /\ ResetInv /\ [DmsNext]_dmsVars => ResetInv'
    BY ResetInvStep
  <1> QED BY <1>1, <1>2, ResetInvInit, DmsTypeCorrect, PTL DEF DmsSpec

-----------------------------------------------------------------------------
(* Documents that are registered once *)

SameDocument(row, copy) == /\ row.part = copy.part
                           /\ row.file = copy.file
                           /\ row.content = copy.content

(* The stores part of FreshInv. *)
StoresFresh ==
    /\ \A c \in Callers : CallerFresh(c)
    /\ OwnIdentifiers
    /\ Unused
    /\ \A d \in DocIds : Accord(d)
    /\ \A k \in StorageKeys : NoOrphan(k)

(* What a step of anybody leaves of a document whose registration is over: *)
(* its row may go but not come, or become available, and so its contents.  *)
Aging ==
    /\ sbegun \subseteq sbegun'
    /\ \A d \in DocIds : Past(d) =>
          /\ Past(d)'
          /\ meta'[d] # None =>
                /\ meta[d] # None /\ SameDocument(meta'[d], meta[d])
                /\ meta'[d].status = "available" => Available(d)
          /\ \A k \in StorageKeys :
                k[2] = d /\ objects[k] = None => objects'[k] = None

LEMMA RowPast ==
    ASSUME DmsTypeInv, StoresFresh, NEW d \in DocIds, meta[d] # None
    PROVE  Past(d)
  <1>1. seq \in Nat /\ d \in Nat
    BY DEF DmsTypeInv, TypeInv, UploadTypeOK, StoresTypeOK, DocIds
  <1>2. d <= seq
    BY <1>1 DEF StoresFresh, Unused
  <1> QED BY <1>2 DEF Past, StoresFresh, CallerFresh

(* What a process relies on that takes no step itself. *)
LEMMA ClientStable ==
    ASSUME DmsTypeInv, Aging, NEW c \in Clients, ClientFresh(c),
           dpc'[c] = dpc[c], dreq'[c] = dreq[c],
           dcopy'[c] = dcopy[c], dout'[c] = dout[c]
    PROVE  ClientFresh(c)'
  <1> DEFINE Acts == dpc[c] \notin {"idle", "load"} \/ ToldDeleted(c)
  <1>1. CASE ~Acts
    BY <1>1 DEF ClientFresh, ToldDeleted, PastDeleting, PastRemoval
  <1>2. CASE Acts
    <2>1. /\ Doc(c) \in DocIds /\ Past(Doc(c)) /\ dcopy[c] \in Rows
          /\ CopyKey(c) \in StorageKeys /\ CopyKey(c)[2] = Doc(c)
      <3>1. dreq[c] \in DocRequests /\ dcopy[c] \in Rows /\ Past(Doc(c))
        BY <1>2, ClientFacts DEF ClientFresh, ToldDeleted
      <3>2. Doc(c) \in DocIds
        BY <3>1, DocumentAssumption DEF DocumentRequests, Doc
      <3> QED BY <3>1, <3>2 DEF CopyKey, StorageKeyOf, StorageKeys, Rows
    <2>2. Doc(c)' = Doc(c) /\ CopyKey(c)' = CopyKey(c)
             /\ ToldDeleted(c)' = ToldDeleted(c)
      BY DEF Doc, CopyKey, StorageKeyOf, ToldDeleted
    <2>3. Past(Doc(c))' /\ CopyOf(Doc(c), dcopy[c])'
      BY <1>2, <2>1, <2>2 DEF Aging, SameDocument, CopyOf, ClientFresh
    <2>4. ~Available(Doc(c)) => ~Available(Doc(c))'
      BY <2>1, <2>2 DEF Aging, Available
    <2>5. objects[CopyKey(c)] = None => (objects[CopyKey(c)] = None)'
      BY <2>1, <2>2 DEF Aging
    <2> QED BY <1>2, <2>1, <2>2, <2>3, <2>4, <2>5 DEF ClientFresh, ToldDeleted
  <1> QED BY <1>1, <1>2

LEMMA UnreferencedStable ==
    ASSUME DmsTypeInv, Aging, NEW k \in StorageKeys, Past(k[2]), ~Referenced(k)
    PROVE  Past(k[2])' /\ ~Referenced(k)'
  <1>1. k[2] \in DocIds
    BY DEF StorageKeys
  <1> QED BY <1>1 DEF Aging, Referenced, SameDocument, StorageKeyOf

LEMMA OperatorStable ==
    ASSUME DmsTypeInv, Aging, NEW c \in Operators, OperatorFresh(c),
           rpc'[c] = rpc[c], rreq'[c] = rreq[c], rdoc'[c] = rdoc[c],
           rcopy'[c] = rcopy[c], rseen'[c] = rseen[c]
    PROVE  OperatorFresh(c)'
  <1>1. CASE rpc[c] \in Holding
    <2>1. /\ rdoc[c] \in DocIds /\ Past(rdoc[c]) /\ rcopy[c] \in Rows
          /\ InspectedKey(c) \in StorageKeys /\ InspectedKey(c)[2] = rdoc[c]
      BY <1>1, OperatorFacts
      DEF OperatorFresh, InspectedKey, StorageKeyOf, Holding, Repairing,
          Completing
    <2>2. InspectedKey(c)' = InspectedKey(c)
      BY DEF InspectedKey, StorageKeyOf
    <2>3. Past(rdoc[c])' /\ CopyOf(rdoc[c], rcopy[c])'
      BY <1>1, <2>1, <2>2 DEF Aging, SameDocument, CopyOf, OperatorFresh
    <2>4. ~Available(rdoc[c]) => ~Available(rdoc[c])'
      BY <2>1, <2>2 DEF Aging, Available
    <2>5. objects[InspectedKey(c)] = None => (objects[InspectedKey(c)] = None)'
      BY <2>1, <2>2 DEF Aging
    <2>6. PurgesTold /\ rreq[c].action = "purge" /\ rreq[c].key # None =>
             Past(rreq[c].key[2])'
      <3>1. rreq[c].key # None => rreq[c].key[2] \in DocIds
        BY <1>1, OperatorFacts
        DEF StorageKeys, Holding, Repairing, Completing
      <3> QED BY <1>1, <3>1
              DEF Aging, OperatorFresh, Holding, Repairing, Completing
    <2> QED BY <1>1, <2>1, <2>2, <2>3, <2>4, <2>5, <2>6
            DEF OperatorFresh, Holding, Repairing, Completing
  <1>2. CASE rpc[c] \notin Holding
    <2>1. ASSUME PurgesTold, rpc[c] # "idle", rreq[c].action = "purge",
                 rreq[c].key # None
          PROVE  Past(rreq[c].key[2])'
      <3>1. rreq[c].key[2] \in DocIds
        BY <2>1, OperatorFacts DEF StorageKeys
      <3> QED BY <2>1, <3>1 DEF Aging, OperatorFresh
    <2>2. ASSUME PurgesTold, rpc[c] \in {"stat", "purge"}
          PROVE  ~Referenced(rreq[c].key)'
      <3>1. /\ rreq[c].key \in StorageKeys /\ rreq[c].action = "purge"
            /\ rreq[c].key # None
        BY <2>2, OperatorFacts DEF InNamespace
      <3>2. Past(rreq[c].key[2]) /\ ~Referenced(rreq[c].key)
        BY <2>2, <3>1 DEF OperatorFresh
      <3> QED BY <3>1, <3>2, UnreferencedStable
    <2> QED BY <1>2, <2>1, <2>2
            DEF OperatorFresh, PurgesTold, Referenced, StorageKeyOf, Holding,
                Repairing, Completing
  <1> QED BY <1>1, <1>2

LEMMA LateStable ==
    ASSUME DmsTypeInv, Aging, LateFresh,
           \A k \in rlate' \ rlate :
              /\ k \in StorageKeys
              /\ PurgesTold /\ k[1] \notin sbegun =>
                    Past(k[2]) /\ ~Referenced(k)
    PROVE  LateFresh'
  <1> SUFFICES ASSUME PurgesTold, NEW k \in rlate', k[1] \notin sbegun'
               PROVE  Past(k[2])' /\ ~Referenced(k)'
    BY DEF LateFresh, NeverReset, PurgesTold
  <1>1. k \in StorageKeys /\ k[1] \notin sbegun
    BY DEF DmsTypeInv, Aging
  <1>2. Past(k[2]) /\ ~Referenced(k)
    BY <1>1 DEF LateFresh, NeverReset
  <1> QED BY <1>1, <1>2, UnreferencedStable

(* What a deletion, a repair, a reset or a late removal may do: rows are   *)
(* rewritten as they are and never as available, as deleted only without   *)
(* content; rows go only without content, contents only from documents     *)
(* that are not available, unless the partition is being reset.            *)
Later ==
    /\ UNCHANGED <<uploadVars, seq>>
    /\ sbegun \subseteq sbegun'
    /\ \A d \in DocIds :
          \/ meta'[d] = meta[d]
          \/ /\ meta[d] # None /\ meta'[d] = None
             /\ meta[d].part \notin sbegun' => ContentOf(d) = None
          \/ /\ meta[d] # None /\ meta'[d] \in Rows
             /\ SameDocument(meta'[d], meta[d])
             /\ meta'[d].status # "available"
             /\ meta'[d].status = "deleted" => ContentOf(d) = None
    /\ \A k \in StorageKeys :
          \/ objects'[k] = objects[k]
          \/ /\ objects'[k] = None
             /\ PurgesTold /\ k[1] \notin sbegun' =>
                   Past(k[2]) /\ ~(Referenced(k) /\ Available(k[2]))

LEMMA LaterAges ==
    ASSUME DmsTypeInv, Later
    PROVE  Aging
  <1>1. \A d \in DocIds : Past(d) => Past(d)'
    BY DEF Later, Past, uploadVars
  <1>2. ASSUME NEW d \in DocIds, meta'[d] # None
        PROVE  /\ meta[d] # None /\ SameDocument(meta'[d], meta[d])
               /\ meta'[d].status = "available" => Available(d)
    BY <1>2 DEF Later, SameDocument, Available
  <1>3. \A k \in StorageKeys : objects[k] = None => objects'[k] = None
    BY DEF Later
  <1> QED BY <1>1, <1>2, <1>3 DEF Aging, Later

LEMMA LaterKeeps ==
    ASSUME DmsTypeInv, StoresFresh, Later
    PROVE  StoresFresh'
  <1>0. /\ UNCHANGED <<upc, ureq, udoc, uout, reports, seq>>
        /\ sbegun \subseteq sbegun'
        /\ StoresTypeOK
    BY StoreTypes DEF Later, uploadVars, DmsTypeInv
  <1>1. ASSUME NEW c \in Callers
        PROVE  CallerFresh(c)'
    <2> DEFINE d == udoc[c]
               k == BuildStorageKey(c)
    <2>0. CallerFresh(c) /\ k' = k /\ d' = d
      BY <1>0 DEF StoresFresh, BuildStorageKey
    <2>1. upc[c] \in AtDocument =>
             d \in DocIds /\ k \in StorageKeys /\ k[1] = ureq[c].part /\ k[2] = d
      BY CallerTypes DEF DmsTypeInv, AtDocument, BuildStorageKey
    <2>2. upc[c] \in AtDocument =>
             /\ meta[d] = None => meta'[d] = None
             /\ meta'[d] # None => meta[d] # None /\ SameDocument(meta'[d], meta[d])
      BY <2>1 DEF Later, SameDocument
    <2>3. \A j \in StorageKeys : objects[j] = None => objects'[j] = None
      BY DEF Later
    <2>4. ASSUME PurgesTold, upc[c] = "save", ureq[c].part \notin sbegun'
          PROVE  objects'[k] = ureq[c].content
      <3>1. ~Past(d) /\ k \in StorageKeys /\ k[1] = ureq[c].part /\ k[2] = d
        BY <2>1, <2>4 DEF Past, AtDocument
      <3>2. objects'[k] = objects[k]
        BY <2>4, <3>1 DEF Later
      <3>3. objects[k] = ureq[c].content
        BY <1>0, <2>0, <2>4 DEF CallerFresh, NeverReset
      <3> QED BY <3>2, <3>3
    <2>5. upc[c] = "rollback" /\ meta'[d] # None =>
             uout[c] = "ConsistencyError" /\ StorageKeyOf(d, meta'[d]) = k
      BY <2>0, <2>2 DEF CallerFresh, AtDocument, StorageKeyOf, SameDocument
    <2> QED BY <1>0, <2>0, <2>1, <2>2, <2>3, <2>4, <2>5
            DEF CallerFresh, AtDocument, NeverReset, PurgesTold
  <1>2. OwnIdentifiers'
    BY <1>0 DEF StoresFresh, OwnIdentifiers
  <1>3. Unused'
    <2>1. \A d \in DocIds : meta[d] = None => meta'[d] = None
      BY DEF Later
    <2>2. \A k \in StorageKeys : objects[k] = None => objects'[k] = None
      BY DEF Later
    <2>3. \A d \in DocIds : Past(d) => Past(d)'
      BY LaterAges DEF Aging
    <2>4. \A k \in StorageKeys : k[2] \in DocIds
      BY DEF StorageKeys
    <2> QED BY <1>0, <2>1, <2>2, <2>3, <2>4 DEF StoresFresh, Unused
  <1>4. ASSUME NEW d \in DocIds, meta'[d] # None
        PROVE  /\ meta'[d].status = "deleted" => ContentOf(d)' = None
               /\ PurgesTold /\ Available(d)' /\ meta'[d].part \notin sbegun' =>
                    \/ ContentOf(d)' = meta'[d].content
                    \/ Said(StorageKeyOf(d, meta[d]), Serious)
               /\ StorageKeyOf(d, meta[d]) = StorageKeyOf(d, meta'[d])
    <2> DEFINE k == StorageKeyOf(d, meta[d])
    <2>1. /\ meta[d] # None /\ SameDocument(meta'[d], meta[d])
          /\ meta'[d] = meta[d] \/ meta'[d].status # "available"
          /\ meta'[d].status = "deleted" =>
                ContentOf(d) = None \/ meta'[d] = meta[d]
      BY <1>4 DEF Later, SameDocument
    <2>2. Accord(d) /\ meta[d] \in Rows
      BY <1>0, <2>1 DEF StoresFresh, StoresTypeOK
    <2>3. /\ k = StorageKeyOf(d, meta'[d]) /\ k \in StorageKeys
          /\ ContentOf(d) = objects[k] /\ ContentOf(d)' = objects'[k]
          /\ k[1] = meta[d].part /\ k[2] = d
      BY <2>1, <2>2
      DEF SameDocument, StorageKeyOf, StorageKeys, Rows, ContentOf
    <2>4. meta'[d].status = "deleted" => ContentOf(d)' = None
      BY <2>1, <2>2, <2>3 DEF Accord, Later
    <2>5. ASSUME PurgesTold, Available(d)', meta'[d].part \notin sbegun'
          PROVE  \/ ContentOf(d)' = meta'[d].content
                 \/ Said(k, Serious)
      <3>1. meta'[d] = meta[d]
        BY <2>1, <2>5 DEF Available
      <3>2. Available(d) /\ Referenced(k)
        BY <2>1, <2>3, <2>5, <3>1 DEF Available, Referenced
      <3>3. objects'[k] = objects[k]
        BY <2>3, <2>5, <3>1, <3>2 DEF Later
      <3> QED BY <1>0, <2>1, <2>2, <2>3, <2>5, <3>1, <3>2, <3>3
              DEF Accord, NeverReset
    <2> QED BY <2>3, <2>4, <2>5
  <1>5. \A d \in DocIds : Accord(d)'
    BY <1>0, <1>4 DEF Accord, Said, NeverReset, PurgesTold
  <1>6. ASSUME NEW k \in StorageKeys, objects'[k] # None, k[1] \notin sbegun'
        PROVE  Referenced(k)' \/ InFlight(k) \/ Said(k, Alarms)
    <2>1. objects'[k] = objects[k] /\ k[1] \notin sbegun /\ k[2] \in DocIds
      BY <1>0, <1>6 DEF Later, StorageKeys
    <2>2. Referenced(k) \/ InFlight(k) \/ Said(k, Alarms)
      BY <1>6, <2>1 DEF StoresFresh, NoOrphan, NeverReset
    <2>3. ASSUME Referenced(k)
          PROVE  Referenced(k)'
      <3>1. /\ meta[k[2]] # None /\ k = StorageKeyOf(k[2], meta[k[2]])
            /\ ContentOf(k[2]) = objects[k] /\ meta[k[2]].part = k[1]
        BY <2>1, <2>3 DEF Referenced, ContentOf, StorageKeyOf
      <3>2. meta'[k[2]] # None /\ SameDocument(meta'[k[2]], meta[k[2]])
        BY <1>6, <2>1, <3>1, NoneAssumption DEF Later, SameDocument
      <3> QED BY <3>1, <3>2 DEF Referenced, SameDocument, StorageKeyOf
    <2> QED BY <2>2, <2>3
  <1>7. \A k \in StorageKeys : NoOrphan(k)'
    BY <1>0, <1>6 DEF NoOrphan, InFlight, Said, NeverReset, BuildStorageKey
  <1> QED BY <1>1, <1>2, <1>3, <1>5, <1>7 DEF StoresFresh

LEMMA QuietLater ==
    ASSUME UNCHANGED <<uploadVars, seq, sbegun, meta, objects>>
    PROVE  Later
  BY DEF Later

(* Over the row it is a copy of, a copy is written as it is. *)
LEMMA CopyWrites ==
    ASSUME StoresTypeOK, NEW d \in DocIds, NEW row \in Rows, CopyOf(d, row),
           NEW found, NEW o, UpdateMetadata(d, row, found, o)
    PROVE  \/ meta' = meta /\ ~(Applied(o) /\ found /\ Exists(d))
           \/ meta[d] # None /\ meta' = [meta EXCEPT ![d] = row]
  <1>1. ASSUME meta[d] # None PROVE Merged(d, row) = {row}
    BY <1>1 DEF CopyOf, Merged, StoresTypeOK, Rows
  <1> QED BY <1>1 DEF UpdateMetadata, Exists

LEMMA UpdateLater ==
    ASSUME DmsTypeInv, NEW d \in DocIds, NEW row \in Rows, NEW found, NEW o,
           UNCHANGED <<uploadVars, seq, sbegun, objects>>,
           UpdateMetadata(d, row, found, o), CopyOf(d, row),
           row.status # "available",
           row.status = "deleted" => objects[StorageKeyOf(d, row)] = None
    PROVE  Later
  <1>1. CASE meta' = meta
    BY <1>1, QuietLater
  <1>2. CASE meta[d] # None /\ meta' = [meta EXCEPT ![d] = row]
    <2>1. /\ meta[d] # None /\ SameDocument(row, meta[d])
          /\ StorageKeyOf(d, row) = StorageKeyOf(d, meta[d])
      BY <1>2 DEF CopyOf, SameDocument, StorageKeyOf
    <2>2. meta'[d] = row /\ \A e \in DocIds : e # d => meta'[e] = meta[e]
      BY <1>2, StoreTypes DEF DmsTypeInv, StoresTypeOK
    <2> QED BY <2>1, <2>2 DEF Later, ContentOf
  <1> QED BY <1>1, <1>2, CopyWrites, StoreTypes DEF DmsTypeInv

LEMMA HardDeleteLater ==
    ASSUME DmsTypeInv, NEW d \in DocIds, NEW found, NEW o,
           UNCHANGED <<uploadVars, seq, sbegun, objects>>,
           HardDelete(d, found, o), meta[d] # None => ContentOf(d) = None
    PROVE  Later
  <1>1. meta \in [DocIds -> Rows \cup {None}]
    BY StoreTypes DEF DmsTypeInv, StoresTypeOK
  <1> QED BY <1>1 DEF HardDelete, Later

LEMMA DeleteLater ==
    ASSUME DmsTypeInv, NEW k \in StorageKeys, NEW o,
           UNCHANGED <<uploadVars, seq, sbegun, meta>>,
           DeleteObject(k, o),
           PurgesTold => Past(k[2]) /\ ~(Referenced(k) /\ Available(k[2]))
    PROVE  Later
  <1>1. objects \in [StorageKeys -> Contents \cup {None}]
    BY StoreTypes DEF DmsTypeInv, StoresTypeOK
  <1>2. CASE objects' = objects
    BY <1>2, QuietLater
  <1>3. CASE objects' = [objects EXCEPT ![k] = None]
    <2>1. objects'[k] = None /\ \A j \in StorageKeys :
                                    j # k => objects'[j] = objects[j]
      BY <1>1, <1>3
    <2> QED BY <2>1 DEF Later
  <1> QED BY <1>2, <1>3 DEF DeleteObject

(* A client that has just read the row. *)
LEMMA ReadFresh ==
    ASSUME DmsTypeInv, StoresFresh, NEW d \in DocIds, meta[d] # None,
           UNCHANGED <<uploadVars, seq, meta>>
    PROVE  /\ Past(d)' /\ CopyOf(d, meta[d])'
           /\ meta[d].status # "available" => ~Available(d)'
           /\ meta[d] \in Rows
  <1>1. Past(d)
    BY RowPast
  <1>2. meta[d] \in Rows
    BY StoreTypes DEF DmsTypeInv, StoresTypeOK
  <1> QED BY <1>1, <1>2 DEF Past, CopyOf, Available, uploadVars

(* A deletion, from its removal on. *)
LEMMA DeletionFacts ==
    ASSUME DmsTypeInv, NEW c \in Clients, ClientFresh(c),
           dpc[c] \notin {"idle", "load"}
    PROVE  /\ Doc(c) \in DocIds /\ dcopy[c] \in Rows
           /\ dreq[c] \in DocRequests
           /\ dcopy[c].part = dreq[c].part
           /\ CopyKey(c) \in StorageKeys /\ CopyKey(c)[2] = Doc(c)
           /\ Past(Doc(c)) /\ CopyOf(Doc(c), dcopy[c])
           /\ dpc[c] \in PastDeleting => ~Available(Doc(c))
           /\ dpc[c] \in PastRemoval =>
                 /\ objects[CopyKey(c)] = None
                 /\ meta[Doc(c)] # None => ContentOf(Doc(c)) = None
  <1>1. /\ Doc(c) \in DocIds /\ dcopy[c] \in Rows /\ dreq[c] \in DocRequests
        /\ dcopy[c].part = dreq[c].part /\ CopyKey(c) \in StorageKeys
    BY ClientFacts
  <1>2. /\ Past(Doc(c)) /\ CopyOf(Doc(c), dcopy[c])
        /\ dpc[c] \in PastDeleting => ~Available(Doc(c))
        /\ dpc[c] \in PastRemoval => objects[CopyKey(c)] = None
    BY DEF ClientFresh
  <1>3. CopyKey(c)[2] = Doc(c)
    BY DEF CopyKey, StorageKeyOf
  <1>4. meta[Doc(c)] # None => ContentOf(Doc(c)) = objects[CopyKey(c)]
    BY <1>2 DEF CopyOf, ContentOf, CopyKey, StorageKeyOf
  <1> QED BY <1>1, <1>2, <1>3, <1>4

LEMMA ClientEnds ==
    ASSUME NEW c \in Clients, dpc'[c] = "idle", dout'[c] # "Deleted"
    PROVE  ClientFresh(c)'
  BY DEF ClientFresh, ToldDeleted, PastDeleting, PastRemoval

(* The deletion goes on, or ends, with the same copy or one just read.     *)
LEMMA DeletionGoesOn ==
    ASSUME DmsTypeInv, NEW c \in Clients, ClientFresh(c), Later,
           dpc[c] \notin {"idle", "load"}, dreq' = dreq,
           dcopy'[c] \in Rows, SameDocument(dcopy'[c], dcopy[c]),
           dpc'[c] \in PastDeleting \/ dpc'[c] = "idle" =>
              dpc[c] \in PastDeleting \/ ~Available(Doc(c))',
           dpc'[c] \in PastRemoval \/ dpc'[c] = "idle" =>
              dpc[c] \in PastRemoval \/ objects'[CopyKey(c)] = None
    PROVE  ClientFresh(c)'
  <1>1. /\ Doc(c) \in DocIds /\ dreq[c] \in DocRequests
        /\ CopyKey(c) \in StorageKeys /\ CopyKey(c)[2] = Doc(c)
        /\ Past(Doc(c)) /\ CopyOf(Doc(c), dcopy[c])
        /\ dpc[c] \in PastDeleting => ~Available(Doc(c))
        /\ dpc[c] \in PastRemoval => objects[CopyKey(c)] = None
    BY DeletionFacts
  <1>2. Aging
    BY LaterAges
  <1>3. Doc(c)' = Doc(c) /\ CopyKey(c)' = CopyKey(c)
    BY DEF Doc, CopyKey, StorageKeyOf, SameDocument
  <1>4. Past(Doc(c))' /\ CopyOf(Doc(c), dcopy[c])'
    BY <1>1, <1>2, <1>3 DEF Aging, CopyOf, SameDocument
  <1>5. dpc[c] \in PastDeleting => ~Available(Doc(c))'
    BY <1>1, <1>2, <1>3 DEF Aging, Available
  <1>6. dpc[c] \in PastRemoval => objects'[CopyKey(c)] = None
    BY <1>1, <1>2 DEF Aging
  <1> QED BY <1>1, <1>3, <1>4, <1>5, <1>6 DEF ClientFresh, ToldDeleted

LEMMA ClientFreshStep ==
    ASSUME DmsTypeInv, StoresFresh, NEW c \in Clients, ClientFresh(c),
           DocStep(c) \/ DocCrash(c), UNCHANGED <<uploadVars, sbegun>>
    PROVE  Later /\ ClientFresh(c)'
  <1>0. /\ StoresTypeOK /\ ClientsTyped /\ dpc[c] # "idle"
        /\ dreq' = dreq /\ seq' = seq
        /\ Doc(c) \in DocIds
    <2>1. dpc[c] # "idle" /\ dreq' = dreq /\ seq' = seq
      BY DEF DocStep, Load, Fetch, SetDeleting, Remove, SetFailed,
             Erase, MarkLoad, MarkWrite, DocCrash, Die
    <2> QED BY <2>1, ClientFacts, StoreTypes DEF DmsTypeInv
  <1>f. dpc[c] # "load" =>
           /\ dcopy[c] \in Rows
           /\ CopyKey(c) \in StorageKeys /\ CopyKey(c)[2] = Doc(c)
           /\ Past(Doc(c)) /\ CopyOf(Doc(c), dcopy[c])
           /\ dpc[c] \in PastDeleting => ~Available(Doc(c))
           /\ dpc[c] \in PastRemoval =>
                 /\ objects[CopyKey(c)] = None
                 /\ meta[Doc(c)] # None => ContentOf(Doc(c)) = None
    BY <1>0, DeletionFacts
  <1>s. dpc[c] # "load" => SameDocument(dcopy[c], dcopy[c])
    BY DEF SameDocument
  <1>1. CASE Load(c)
    <2>1. Later
      BY <1>0, <1>1, QuietLater DEF Load
    <2>2. CASE \E res \in {"MetadataStoreError", "DocumentNotFoundError",
                           "DocumentDeletedError"} : DocReturn(c, res)
      BY <1>0, <2>1, <2>2, ClientEnds DEF DocReturn, ClientsTyped
    <2>3. CASE /\ meta[Doc(c)] # None
               /\ dcopy' = [dcopy EXCEPT ![c] = meta[Doc(c)]]
               /\ DocGoto(c, AfterLoad(c))
      <3>1. dpc'[c] \in {"fetch", "deleting"} /\ dcopy'[c] = meta[Doc(c)]
              /\ Doc(c)' = Doc(c)
        BY <1>0, <2>3 DEF DocGoto, AfterLoad, ClientsTyped, Doc
      <3>2. meta' = meta /\ Past(Doc(c))'
        BY <1>0, <1>1, <2>3, <3>1, ReadFresh DEF Load
      <3>3. CopyOf(Doc(c), dcopy[c])'
        BY <3>1, <3>2 DEF CopyOf
      <3>4. ClientFresh(c)'
        BY <3>1, <3>2, <3>3
        DEF ClientFresh, ToldDeleted, PastDeleting, PastRemoval
      <3> QED BY <2>1, <3>4
    <2> QED BY <1>1, <2>2, <2>3 DEF Load, InPartition
  <1>2. CASE Fetch(c)
    <2>1. Later
      BY <1>0, <1>2, QuietLater DEF Fetch
    <2>2. dpc'[c] = "idle" /\ dout'[c] # "Deleted"
      BY <1>0, <1>2 DEF Fetch, DocReturn, ClientsTyped
    <2> QED BY <2>1, <2>2, ClientEnds
  <1>3. CASE SetDeleting(c)
    <2>0. dpc[c] = "deleting"
      BY <1>3 DEF SetDeleting
    <2>1. PICK o \in Replies, found \in Lookup(Doc(c), dcopy[c].part) :
             /\ UpdateMetadata(Doc(c), WithStatus(dcopy[c], "deleting"), found, o)
             /\ IF Updated(Doc(c), found, o)
                  THEN /\ dcopy' = [dcopy EXCEPT ![c].status = "deleting"]
                       /\ DocGoto(c, "remove")
                  ELSE /\ DocReturn(c, "MetadataStoreError")
                       /\ UNCHANGED dcopy
      BY <1>3 DEF SetDeleting
    <2> DEFINE row == WithStatus(dcopy[c], "deleting")
    <2>2. /\ row \in Rows /\ SameDocument(row, dcopy[c])
          /\ row.status = "deleting"
      BY <1>f, <2>0 DEF WithStatus, Rows, DocumentStatus, SameDocument
    <2>3. CopyOf(Doc(c), row)
      BY <1>f, <2>0, <2>2 DEF CopyOf, SameDocument
    <2>4. Later
      BY <1>0, <1>3, <2>1, <2>2, <2>3, UpdateLater DEF SetDeleting
    <2>5. CASE Updated(Doc(c), found, o)
      <3>1. meta' = [meta EXCEPT ![Doc(c)] = row]
        BY <1>0, <2>1, <2>2, <2>3, <2>5, CopyWrites DEF Updated, Applied
      <3>2. ~Available(Doc(c))'
        BY <1>0, <2>2, <3>1 DEF Available, StoresTypeOK, Doc
      <3>3. dcopy'[c] = row /\ dpc'[c] = "remove"
        BY <1>0, <1>f, <2>0, <2>1, <2>5
        DEF DocGoto, ClientsTyped, WithStatus
      <3>4. ClientFresh(c)'
        BY <1>0, <2>0, <2>2, <2>4, <3>2, <3>3, DeletionGoesOn DEF PastRemoval
      <3> QED BY <2>4, <3>4
    <2>6. CASE DocReturn(c, "MetadataStoreError")
      BY <1>0, <2>4, <2>6, ClientEnds DEF DocReturn, ClientsTyped
    <2> QED BY <2>1, <2>5, <2>6
  <1>4. CASE Remove(c)
    <2>1. PICK o \in Replies :
             /\ DeleteObject(CopyKey(c), o)
             /\ DocGoto(c, IF o = "ok" THEN AfterRemove(c) ELSE "fail")
      BY <1>4 DEF Remove
    <2>2. /\ dpc[c] = "remove" /\ dcopy' = dcopy /\ meta' = meta
          /\ dpc[c] \in PastDeleting
          /\ dpc'[c] \in {"erase", "mark_load", "fail"}
          /\ dpc'[c] \in PastRemoval => o = "ok"
      BY <1>0, <1>4, <2>1
      DEF Remove, DocGoto, AfterRemove, ClientsTyped, PastDeleting, PastRemoval
    <2>3. Later
      BY <1>0, <1>f, <2>1, <2>2, DeleteLater
    <2>4. o = "ok" => objects'[CopyKey(c)] = None
      BY <1>0, <1>f, <2>1, <2>2 DEF DeleteObject, Applied, StoresTypeOK
    <2>5. ClientFresh(c)'
      BY <1>0, <1>f, <1>s, <2>2, <2>3, <2>4, DeletionGoesOn
    <2> QED BY <2>3, <2>5
  <1>5. CASE SetFailed(c)
    <2>0. dpc[c] = "fail" /\ dpc'[c] = "idle" /\ dout'[c] = "StorageError"
      BY <1>0, <1>5 DEF SetFailed, DocReturn, ClientsTyped
    <2> DEFINE row == WithStatus(dcopy[c], "failed")
    <2>1. /\ row \in Rows /\ SameDocument(row, dcopy[c])
          /\ row.status = "failed"
      BY <1>f, <2>0 DEF WithStatus, Rows, DocumentStatus, SameDocument
    <2>2. CopyOf(Doc(c), row)
      BY <1>f, <2>0, <2>1 DEF CopyOf, SameDocument
    <2>3. Later
      BY <1>0, <1>5, <2>1, <2>2, UpdateLater DEF SetFailed
    <2> QED BY <2>0, <2>3, ClientEnds
  <1>6. CASE Erase(c)
    <2>1. /\ dpc[c] = "erase" /\ dpc'[c] = "idle" /\ dcopy' = dcopy
          /\ dpc[c] \in PastDeleting /\ dpc[c] \in PastRemoval
      BY <1>0, <1>6
      DEF Erase, DocReturn, ClientsTyped, PastDeleting, PastRemoval
    <2>2. Later
      BY <1>0, <1>f, <1>6, <2>1, HardDeleteLater DEF Erase
    <2> QED BY <1>0, <1>f, <1>s, <2>1, <2>2, DeletionGoesOn
  <1>7. CASE MarkLoad(c)
    <2>1. dpc[c] = "mark_load" /\ UNCHANGED <<meta, objects>>
      BY <1>7 DEF MarkLoad
    <2>2. Later
      BY <1>0, <2>1, QuietLater
    <2>3. CASE /\ meta[Doc(c)] # None
               /\ dcopy' = [dcopy EXCEPT ![c] = meta[Doc(c)]]
               /\ DocGoto(c, "mark_write")
      <3>1. /\ dcopy'[c] = meta[Doc(c)] /\ dcopy'[c] \in Rows
            /\ dpc'[c] = "mark_write"
        BY <1>0, <2>3 DEF DocGoto, ClientsTyped, StoresTypeOK
      <3>2. SameDocument(dcopy'[c], dcopy[c])
        BY <1>f, <2>1, <2>3, <3>1 DEF CopyOf, SameDocument
      <3> QED BY <1>0, <2>1, <2>2, <3>1, <3>2, DeletionGoesOn
              DEF PastDeleting, PastRemoval
    <2>4. CASE DocReturn(c, "ConsistencyError")
      BY <1>0, <2>2, <2>4, ClientEnds DEF DocReturn, ClientsTyped
    <2> QED BY <1>7, <2>3, <2>4 DEF MarkLoad, InPartition
  <1>8. CASE MarkWrite(c)
    <2>1. /\ dpc[c] = "mark_write" /\ dpc'[c] = "idle" /\ dcopy' = dcopy
          /\ dpc[c] \in PastDeleting /\ dpc[c] \in PastRemoval
      BY <1>0, <1>8
      DEF MarkWrite, DocReturn, ClientsTyped, PastDeleting, PastRemoval
    <2> DEFINE row == DeletedRow(dcopy[c])
    <2>2. /\ row \in Rows /\ SameDocument(row, dcopy[c])
          /\ row.status = "deleted"
      BY <1>f, <2>1 DEF DeletedRow, WithStatus, Rows, DocumentStatus, SameDocument
    <2>3. CopyOf(Doc(c), row) /\ StorageKeyOf(Doc(c), row) = CopyKey(c)
      BY <1>f, <2>1, <2>2 DEF CopyOf, SameDocument, StorageKeyOf, CopyKey
    <2>4. Later
      BY <1>0, <1>f, <1>8, <2>1, <2>2, <2>3, UpdateLater DEF MarkWrite
    <2> QED BY <1>0, <1>f, <1>s, <2>1, <2>4, DeletionGoesOn
  <1>9. CASE DocCrash(c)
    <2>1. Later
      BY <1>0, <1>9, QuietLater DEF DocCrash, Die
    <2>2. dpc'[c] = "idle" /\ dout'[c] # "Deleted"
      BY <1>0, <1>9 DEF DocCrash, DocReturn, ClientsTyped
    <2> QED BY <2>1, <2>2, ClientEnds
  <1> QED BY <1>1, <1>2, <1>3, <1>4, <1>5, <1>6, <1>7, <1>8, <1>9 DEF DocStep

(* An operator that holds a copy of a row. *)
LEMMA InspectionFacts ==
    ASSUME DmsTypeInv, NEW c \in Operators, OperatorFresh(c),
           rpc[c] \in Holding
    PROVE  /\ rdoc[c] \in DocIds /\ rcopy[c] \in Rows
           /\ rcopy[c].part = rreq[c].part
           /\ InspectedKey(c) \in StorageKeys /\ InspectedKey(c)[2] = rdoc[c]
           /\ Past(rdoc[c]) /\ CopyOf(rdoc[c], rcopy[c])
           /\ rcopy[c].status # "available" => ~Available(rdoc[c])
           /\ meta[rdoc[c]] # None =>
                 ContentOf(rdoc[c]) = objects[InspectedKey(c)]
           /\ rpc[c] \in Repairing => objects[InspectedKey(c)] = None
           /\ rpc[c] \in Completing => ~Available(rdoc[c])
  <1>1. rpc[c] \notin {"idle", "list"}
    BY DEF Holding, Repairing, Completing
  <1>2. /\ rdoc[c] \in DocIds /\ rcopy[c] \in Rows
        /\ rcopy[c].part = rreq[c].part
        /\ InspectedKey(c) \in StorageKeys
    BY <1>1, OperatorFacts DEF InspectedKey
  <1>3. InspectedKey(c)[2] = rdoc[c]
    BY DEF InspectedKey, StorageKeyOf
  <1>4. /\ Past(rdoc[c]) /\ CopyOf(rdoc[c], rcopy[c])
        /\ rcopy[c].status # "available" => ~Available(rdoc[c])
        /\ rpc[c] \in Repairing => objects[InspectedKey(c)] = None
        /\ rpc[c] \in Completing => ~Available(rdoc[c])
    BY DEF OperatorFresh
  <1>5. meta[rdoc[c]] # None => ContentOf(rdoc[c]) = objects[InspectedKey(c)]
    BY <1>4 DEF CopyOf, ContentOf, InspectedKey, StorageKeyOf
  <1> QED BY <1>2, <1>3, <1>4, <1>5

LEMMA PurgeKeyPast ==
    ASSUME DmsTypeInv, NEW c \in Operators, OperatorFresh(c), Aging,
           PurgesTold, rpc[c] # "idle", rreq[c].action = "purge",
           rreq[c].key # None, rreq' = rreq
    PROVE  Past(rreq[c].key[2]) /\ Past(rreq[c].key[2])'
  <1>1. rreq[c].key[2] \in DocIds
    BY OperatorFacts DEF StorageKeys
  <1>2. Past(rreq[c].key[2])
    BY DEF OperatorFresh
  <1> QED BY <1>1, <1>2 DEF Aging

LEMMA OperatorRests ==
    ASSUME DmsTypeInv, NEW c \in Operators, OperatorFresh(c), Aging,
           rpc[c] # "idle", rreq' = rreq,
           rpc'[c] \in {"idle", "inspect_row", "list"}
    PROVE  OperatorFresh(c)'
  BY PurgeKeyPast
  DEF OperatorFresh, PurgesTold, Holding, Repairing, Completing

LEMMA InspectionGoesOn ==
    ASSUME DmsTypeInv, NEW c \in Operators, OperatorFresh(c), Later,
           rpc[c] \in Holding, rpc'[c] \in Holding,
           rreq' = rreq, rdoc' = rdoc,
           rcopy'[c] \in Rows, SameDocument(rcopy'[c], rcopy[c]),
           rcopy'[c].status # "available" => ~Available(rdoc[c]),
           rpc'[c] \in Repairing \/ (rpc'[c] = "inspect_again" /\ ~rseen'[c])
              => objects[InspectedKey(c)] = None,
           rpc'[c] \in Completing => ~Available(rdoc[c])
    PROVE  OperatorFresh(c)'
  <1>1. /\ rdoc[c] \in DocIds /\ rcopy[c] \in Rows
        /\ InspectedKey(c) \in StorageKeys /\ InspectedKey(c)[2] = rdoc[c]
        /\ Past(rdoc[c]) /\ CopyOf(rdoc[c], rcopy[c])
    BY InspectionFacts
  <1>2. Aging
    BY LaterAges
  <1>3. InspectedKey(c)' = InspectedKey(c)
    BY DEF InspectedKey, StorageKeyOf, SameDocument
  <1>4. Past(rdoc[c])' /\ CopyOf(rdoc[c], rcopy[c])'
    BY <1>1, <1>2 DEF Aging, CopyOf, SameDocument
  <1>5. ~Available(rdoc[c]) => ~Available(rdoc[c])'
    BY <1>1, <1>2 DEF Aging, Available
  <1>6. objects[InspectedKey(c)] = None => (objects[InspectedKey(c)] = None)'
    BY <1>1, <1>2, <1>3 DEF Aging
  <1>7. PurgesTold /\ rreq[c].action = "purge" /\ rreq[c].key # None =>
           Past(rreq[c].key[2])'
    BY <1>2, PurgeKeyPast DEF Holding, Repairing, Completing
  <1> QED BY <1>1, <1>3, <1>4, <1>5, <1>6, <1>7
          DEF OperatorFresh, PurgesTold, Holding, Repairing, Completing

(* A purge goes on to its next call. *)
LEMMA PurgeGoesOn ==
    ASSUME DmsTypeInv, NEW c \in Operators, OperatorFresh(c), Later,
           rpc[c] # "idle", rreq' = rreq, rreq[c].action = "purge",
           rpc'[c] \in {"stat", "purge"}, rreq[c].key \in StorageKeys,
           rreq[c].key # None,
           ~Referenced(rreq[c].key) \/ rpc[c] \in {"stat", "purge"}
    PROVE  OperatorFresh(c)'
  <1>1. Aging
    BY LaterAges
  <1>2. ASSUME PurgesTold
        PROVE  Past(rreq[c].key[2])' /\ ~Referenced(rreq[c].key)'
    <2>1. Past(rreq[c].key[2])
      BY <1>1, <1>2, PurgeKeyPast
    <2>2. ~Referenced(rreq[c].key)
      BY <1>2 DEF OperatorFresh
    <2> QED BY <1>1, <2>1, <2>2, UnreferencedStable
  <1> QED BY <1>2
          DEF OperatorFresh, PurgesTold, Referenced, StorageKeyOf, Holding,
              Repairing, Completing

LEMMA DecideFresh ==
    ASSUME DmsTypeInv, NEW c \in Operators, OperatorFresh(c), Later,
           rpc[c] \in {"inspect_object", "inspect_again"},
           NEW seen \in BOOLEAN, Decide(c, seen),
           UNCHANGED <<rreq, rcopy>>,
           ~seen => objects[InspectedKey(c)] = None
    PROVE  OperatorFresh(c)'
  <1>0. Aging /\ OperatorsTyped /\ rpc[c] # "idle" /\ rpc[c] \in Holding
    BY LaterAges DEF DmsTypeInv, Holding
  <1>1. CASE Report(c) \/ Verify(c)
    BY <1>0, <1>1, BetweenMoves, OperatorRests
  <1>2. CASE /\ Eligible(c, seen)
             /\ RepairGoto(c, FirstCall(rreq[c].action))
    <2>1. /\ rcopy[c] \in Rows
          /\ rcopy[c].status # "available" => ~Available(rdoc[c])
      BY <1>0, InspectionFacts
    <2>2. /\ rpc'[c] \in {"complete_hard", "complete_load", "failed_load"}
          /\ rpc'[c] \in Completing => rcopy[c].status = "deleting"
          /\ ~seen /\ rdoc' = rdoc
      BY <1>0, <1>2
      DEF Eligible, FirstCall, RepairGoto, OperatorsTyped, Completing
    <2>3. SameDocument(rcopy'[c], rcopy[c])
      BY DEF SameDocument
    <2> QED BY <1>0, <2>1, <2>2, <2>3, InspectionGoesOn
            DEF Holding, Repairing, Completing
  <1> QED BY <1>1, <1>2 DEF Decide

LEMMA ReloadFresh ==
    ASSUME DmsTypeInv, NEW c \in Operators, OperatorFresh(c),
           UNCHANGED <<uploadVars, sbegun>>,
           \/ rpc[c] = "complete_load" /\ Reload(c, "complete_write")
           \/ rpc[c] = "failed_load" /\ Reload(c, "failed_write")
    PROVE  Later /\ OperatorFresh(c)'
  <1>0. /\ OperatorsTyped /\ StoresTypeOK /\ rpc[c] # "idle"
        /\ rpc[c] \in Repairing /\ rpc[c] \in Holding
        /\ rreq' = rreq /\ UNCHANGED <<meta, objects, seq>>
    BY StoreTypes DEF DmsTypeInv, Reload, Holding, Repairing, Completing
  <1>1. Later
    BY <1>0, QuietLater
  <1>2. Aging
    BY <1>1, LaterAges
  <1>3. CASE Report(c)
    BY <1>0, <1>1, <1>2, <1>3, BetweenMoves, OperatorRests
  <1>4. CASE /\ InPartition(rdoc[c], rreq[c].part)
             /\ rcopy' = [rcopy EXCEPT ![c] = meta[rdoc[c]]]
             /\ \/ rpc[c] = "complete_load" /\ RepairGoto(c, "complete_write")
                \/ rpc[c] = "failed_load" /\ RepairGoto(c, "failed_write")
    <2>1. /\ rdoc[c] \in DocIds
          /\ CopyOf(rdoc[c], rcopy[c])
          /\ objects[InspectedKey(c)] = None
          /\ rpc[c] \in Completing => ~Available(rdoc[c])
      BY <1>0, InspectionFacts
    <2>2. /\ rcopy'[c] = meta[rdoc[c]] /\ rcopy'[c] \in Rows /\ rdoc' = rdoc
          /\ rpc'[c] \in {"complete_write", "failed_write"}
          /\ rpc'[c] \in Completing => rpc[c] \in Completing
      BY <1>0, <1>4, <2>1
      DEF InPartition, StoresTypeOK, OperatorsTyped, RepairGoto, Completing
    <2>3. SameDocument(rcopy'[c], rcopy[c])
      BY <1>4, <2>1, <2>2 DEF InPartition, CopyOf, SameDocument
    <2>4. rcopy'[c].status # "available" => ~Available(rdoc[c])
      BY <2>2 DEF Available
    <2>5. OperatorFresh(c)'
      BY <1>0, <1>1, <2>1, <2>2, <2>3, <2>4, InspectionGoesOn
      DEF Holding, Repairing, Completing
    <2> QED BY <1>1, <2>5
  <1> QED BY <1>3, <1>4 DEF Reload

(* The writes, cut short by a cancellation or not. *)
LEMMA RepairWriteLater ==
    ASSUME DmsTypeInv, NEW c \in Operators, OperatorFresh(c), NEW o, NEW found,
           UNCHANGED <<uploadVars, sbegun, seq, objects>>,
           \/ /\ rpc[c] = "complete_hard"
              /\ HardDelete(rdoc[c], found, o)
           \/ /\ rpc[c] = "complete_write"
              /\ UpdateMetadata(rdoc[c], DeletedRow(rcopy[c]), found, o)
           \/ /\ rpc[c] = "failed_write"
              /\ UpdateMetadata(rdoc[c], WithStatus(rcopy[c], "failed"), found, o)
    PROVE  Later
  <1>0. rpc[c] \in Holding /\ rpc[c] \in Repairing
    BY DEF Holding, Repairing, Completing
  <1>1. /\ rdoc[c] \in DocIds /\ rcopy[c] \in Rows
        /\ CopyOf(rdoc[c], rcopy[c])
        /\ objects[InspectedKey(c)] = None
        /\ meta[rdoc[c]] # None => ContentOf(rdoc[c]) = None
    BY <1>0, InspectionFacts
  <1>2. CASE HardDelete(rdoc[c], found, o)
    BY <1>1, <1>2, HardDeleteLater
  <1>3. ASSUME NEW row \in Rows, SameDocument(row, rcopy[c]),
               row.status \in {"deleted", "failed"},
               UpdateMetadata(rdoc[c], row, found, o)
        PROVE  Later
    <2>1. CopyOf(rdoc[c], row)
      BY <1>1, <1>3 DEF CopyOf, SameDocument
    <2>2. StorageKeyOf(rdoc[c], row) = InspectedKey(c)
      BY <1>3 DEF SameDocument, StorageKeyOf, InspectedKey
    <2> QED BY <1>1, <1>3, <2>1, <2>2, UpdateLater
  <1>4. /\ DeletedRow(rcopy[c]) \in Rows
        /\ SameDocument(DeletedRow(rcopy[c]), rcopy[c])
        /\ DeletedRow(rcopy[c]).status = "deleted"
        /\ WithStatus(rcopy[c], "failed") \in Rows
        /\ SameDocument(WithStatus(rcopy[c], "failed"), rcopy[c])
        /\ WithStatus(rcopy[c], "failed").status = "failed"
    BY <1>1 DEF DeletedRow, WithStatus, Rows, DocumentStatus, SameDocument
  <1> QED BY <1>2, <1>3, <1>4

LEMMA PurgeLater ==
    ASSUME DmsTypeInv, NEW c \in Operators, OperatorFresh(c), NEW o,
           UNCHANGED <<uploadVars, sbegun, seq, meta>>,
           rpc[c] = "purge", DeleteObject(rreq[c].key, o)
    PROVE  Later
  <1>1. /\ rreq[c].key \in StorageKeys /\ rreq[c].key # None
        /\ rreq[c].action = "purge"
    BY OperatorFacts DEF InNamespace
  <1>2. PurgesTold => Past(rreq[c].key[2]) /\ ~Referenced(rreq[c].key)
    BY <1>1 DEF OperatorFresh
  <1> QED BY <1>1, <1>2, DeleteLater

LEMMA OperatorFreshStep ==
    ASSUME FreshIdentifiers, DmsTypeInv, StoresFresh,
           NEW c \in Operators, OperatorFresh(c),
           RepairStep(c) \/ AsyncRepairStep(c) \/ CancelRepair(c),
           UNCHANGED <<uploadVars, sbegun>>
    PROVE  Later /\ OperatorFresh(c)'
  <1>0. /\ OperatorsTyped /\ StoresTypeOK /\ rpc[c] # "idle"
        /\ rreq' = rreq /\ seq' = seq
    BY StoreTypes DEF RepairStep, AsyncRepairStep, CancelRepair, AsyncApply,
       AsyncListCandidates, AsyncInspectRow, AsyncInspectObject,
       ListCandidates, InspectRow, InspectObject, InspectAgain, StatOrphan,
       Purge, CompleteHard, CompleteLoad, CompleteWrite, FailedLoad,
       FailedWrite, RepairCrash, Reload, Die, DmsTypeInv
  <1>l. UNCHANGED <<meta, objects>> => Later
    BY <1>0, QuietLater
  <1>r. ASSUME Later, rpc'[c] \in {"idle", "inspect_row"}
        PROVE  OperatorFresh(c)'
    BY <1>0, <1>r, LaterAges, OperatorRests
  <1>b. Report(c) \/ Verify(c) => rpc'[c] \in {"idle", "inspect_row"}
    BY BetweenMoves
  <1>1. CASE ListCandidates(c)
    <2>1. rpc'[c] \in {"idle", "inspect_row"}
      BY <1>0, <1>1 DEF ListCandidates, NextItem, OperatorsTyped
    <2>2. Later
      BY <1>1, <1>l DEF ListCandidates
    <2> QED BY <1>r, <2>1, <2>2
  <1>2. CASE InspectRow(c)
    <2>0. Later /\ UNCHANGED <<meta, objects>> /\ rdoc[c] \in DocIds
            /\ rpc[c] = "inspect_row"
      BY <1>l, <1>2, OperatorFacts DEF InspectRow
    <2>1. CASE /\ InPartition(rdoc[c], rreq[c].part)
               /\ rcopy' = [rcopy EXCEPT ![c] = meta[rdoc[c]]]
               /\ RepairGoto(c, "inspect_object")
      <3>1. /\ meta[rdoc[c]] # None /\ rcopy'[c] = meta[rdoc[c]]
            /\ rpc'[c] = "inspect_object" /\ rdoc' = rdoc
        BY <1>0, <2>1 DEF InPartition, OperatorsTyped, RepairGoto
      <3>2. Past(rdoc[c])'
        BY <1>0, <2>0, <3>1, ReadFresh
      <3>3. /\ CopyOf(rdoc[c], rcopy[c])'
            /\ rcopy'[c].status # "available" => ~Available(rdoc[c])'
        BY <2>0, <3>1 DEF CopyOf, Available
      <3>4. Aging
        BY <2>0, LaterAges
      <3>5. PurgesTold /\ rreq[c].action = "purge" /\ rreq[c].key # None =>
               Past(rreq[c].key[2])'
        BY <1>0, <3>4, PurgeKeyPast
      <3>6. OperatorFresh(c)'
        BY <1>0, <3>1, <3>2, <3>3, <3>5
        DEF OperatorFresh, PurgesTold, Holding, Repairing, Completing
      <3> QED BY <2>0, <3>6
    <2>2. CASE /\ ~InPartition(rdoc[c], rreq[c].part)
               /\ rreq[c].action = "purge" /\ InNamespace(c)
               /\ RepairGoto(c, FirstCall("purge"))
      <3>1. /\ rreq[c].key # None /\ rreq[c].key \in StorageKeys
            /\ rreq[c].key[1] = rreq[c].part /\ rreq[c].key[2] = rdoc[c]
            /\ rpc'[c] = "stat"
        BY <1>0, <2>2, OperatorFacts
        DEF InNamespace, FreshIdentifiers, FirstCall, RepairGoto,
            OperatorsTyped
      <3>2. ~Referenced(rreq[c].key)
        BY <2>2, <3>1 DEF Referenced, InPartition, StorageKeyOf
      <3> QED BY <1>0, <2>0, <2>2, <3>1, <3>2, PurgeGoesOn
    <2>3. CASE Report(c)
      BY <1>b, <1>r, <2>0, <2>3
    <2> QED BY <1>2, <2>1, <2>2, <2>3 DEF InspectRow
  <1>3. CASE InspectObject(c) \/ AsyncInspectObject(c)
    <2>0. /\ Later /\ rpc[c] = "inspect_object" /\ rpc[c] \in Holding
          /\ rcopy' = rcopy /\ rcopy[c] \in Rows
          /\ rcopy[c].status # "available" => ~Available(rdoc[c])
      BY <1>l, <1>3, InspectionFacts
      DEF InspectObject, AsyncInspectObject, Holding
    <2> DEFINE seen == objects[InspectedKey(c)] # None
    <2>1. CASE Report(c)
      BY <1>b, <1>r, <2>0, <2>1
    <2>2. CASE Decide(c, seen)
      BY <1>0, <2>0, <2>2, DecideFresh
    <2>3. CASE /\ rseen' = [rseen EXCEPT ![c] = seen]
               /\ RepairGoto(c, "inspect_again")
      <3>1. rseen'[c] = seen /\ rpc'[c] = "inspect_again" /\ rdoc' = rdoc
        BY <1>0, <2>3 DEF RepairGoto, OperatorsTyped
      <3>2. SameDocument(rcopy'[c], rcopy[c])
        BY <2>0 DEF SameDocument
      <3> QED BY <1>0, <2>0, <3>1, <3>2, InspectionGoesOn
              DEF Holding, Repairing, Completing
    <2> QED BY <1>3, <2>1, <2>2, <2>3
            DEF InspectObject, AsyncInspectObject, InspectedKey
  <1>4. CASE InspectAgain(c)
    <2>0. /\ Later /\ rpc[c] = "inspect_again" /\ rcopy' = rcopy
          /\ rseen[c] \in BOOLEAN
          /\ ~rseen[c] => objects[InspectedKey(c)] = None
      BY <1>0, <1>l, <1>4 DEF InspectAgain, OperatorsTyped, OperatorFresh
    <2>1. CASE Report(c)
      BY <1>b, <1>r, <2>0, <2>1
    <2>2. CASE Decide(c, rseen[c])
      BY <1>0, <2>0, <2>2, DecideFresh
    <2> QED BY <1>4, <2>1, <2>2 DEF InspectAgain
  <1>5. CASE StatOrphan(c)
    <2>0. /\ Later /\ rpc[c] = "stat" /\ rreq[c].action = "purge"
          /\ rreq[c].key # None /\ rreq[c].key \in StorageKeys
      BY <1>l, <1>5, OperatorFacts DEF StatOrphan, InNamespace
    <2>1. CASE Report(c) \/ Verify(c)
      BY <1>b, <1>r, <2>0, <2>1
    <2>2. CASE RepairGoto(c, "purge")
      <3>1. rpc'[c] = "purge"
        BY <1>0, <2>2 DEF RepairGoto, OperatorsTyped
      <3> QED BY <1>0, <2>0, <3>1, PurgeGoesOn
    <2> QED BY <1>5, <2>1, <2>2 DEF StatOrphan
  <1>6. CASE Purge(c)
    <2>1. Later
      BY <1>0, <1>6, PurgeLater DEF Purge
    <2>2. Report(c) \/ Verify(c)
      BY <1>6 DEF Purge
    <2> QED BY <1>b, <1>r, <2>1, <2>2
  <1>7. CASE CompleteHard(c) \/ CompleteWrite(c) \/ FailedWrite(c)
    <2>1. Later
      BY <1>0, <1>7, RepairWriteLater
      DEF CompleteHard, CompleteWrite, FailedWrite
    <2>2. Report(c) \/ Verify(c)
      BY <1>7 DEF CompleteHard, CompleteWrite, FailedWrite, RowWrite
    <2> QED BY <1>b, <1>r, <2>1, <2>2
  <1>8. CASE CompleteLoad(c) \/ FailedLoad(c)
    BY <1>8, ReloadFresh DEF CompleteLoad, FailedLoad
  <1>9. CASE RepairCrash(c) \/ CancelRepair(c)
    <2>1. rpc'[c] = "idle"
      BY <1>0, <1>9 DEF RepairCrash, CancelRepair, OperatorsTyped
    <2>2. CASE UNCHANGED <<meta, objects>>
      BY <1>l, <1>r, <2>1, <2>2
    <2>3. CASE CancelRepair(c) /\ ~UNCHANGED <<meta, objects>>
      <3>1. Later
        BY <1>0, <2>3, RepairWriteLater DEF CancelRepair, CutRepairWrite
      <3> QED BY <1>r, <2>1, <3>1
    <2> QED BY <1>9, <2>2, <2>3 DEF RepairCrash, Die
  <1> QED BY <1>1, <1>2, <1>3, <1>4, <1>5, <1>6, <1>7, <1>8, <1>9
          DEF RepairStep, AsyncRepairStep, AsyncApply, AsyncListCandidates,
              AsyncInspectRow

(* A request begins: its key, if it is to be purged, was told to the host. *)
LEMMA RepairBeginsFresh ==
    ASSUME DmsTypeInv, StoresFresh, NEW c \in Operators,
           NEW r \in RepairRequests, Permitted(r), Repair(c, r),
           UNCHANGED <<uploadVars, sbegun>>
    PROVE  Later /\ OperatorFresh(c)'
  <1>0. OperatorsTyped
    BY DEF DmsTypeInv
  <1>1. Later
    BY QuietLater DEF Repair, storeVars
  <1>2. /\ rreq'[c] = r
        /\ rpc'[c] \in {"idle", "inspect_row", "list"}
    BY <1>0 DEF Repair, NextItem, OperatorsTyped
  <1>3. ASSUME PurgesTold, r.action = "purge", r.key # None
        PROVE  Past(r.key[2])'
    <2>1. r.key \in StorageKeys /\ r.key[2] \in DocIds
      BY <1>3, RepairAssumption DEF RecoveryRequests, StorageKeys
    <2>2. CASE PurgeTold
      <3>1. PICK e \in Alarms : <<r.key, e>> \in reports
        BY <1>3, <2>2 DEF Permitted
      <3>2. Past(r.key[2])
        BY <2>1, <3>1 DEF StoresFresh, Unused
      <3> QED BY <1>1, <2>1, <3>2, LaterAges DEF Aging
    <2>3. CASE Requests = {}
      <3>1. \A e \in Callers : upc[e] = "idle"
        BY <2>3 DEF DmsTypeInv, TypeInv, LocalOK
      <3>2. Past(r.key[2])
        BY <2>3, <3>1 DEF Past
      <3> QED BY <1>1, <2>1, <3>2, LaterAges DEF Aging
    <2> QED BY <1>3, <2>2, <2>3 DEF PurgesTold
  <1>4. OperatorFresh(c)'
    BY <1>2, <1>3
    DEF OperatorFresh, PurgesTold, Holding, Repairing, Completing
  <1> QED BY <1>1, <1>4

(* A step of one process leaves the variables of its fellows.              *)
LEMMA ClientAlone ==
    ASSUME DmsTypeInv, NEW c \in Clients,
           (\E r \in DocRequests : Request(c, r)) \/ DocStep(c) \/ DocCrash(c),
           NEW e \in Clients, e # c
    PROVE  /\ dpc'[e] = dpc[e] /\ dreq'[e] = dreq[e]
           /\ dcopy'[e] = dcopy[e] /\ dout'[e] = dout[e]
  BY DEF DmsTypeInv, ClientsTyped, Request, DocStep, Load, Fetch, SetDeleting,
         Remove, SetFailed, Erase, MarkLoad, MarkWrite, DocCrash, DocGoto,
         DocReturn

LEMMA OperatorAlone ==
    ASSUME DmsTypeInv, NEW c \in Operators,
           \/ \E r \in RepairRequests : Repair(c, r)
           \/ RepairStep(c) \/ AsyncRepairStep(c) \/ CancelRepair(c),
           NEW e \in Operators, e # c
    PROVE  /\ rpc'[e] = rpc[e] /\ rreq'[e] = rreq[e] /\ rdoc'[e] = rdoc[e]
           /\ rcopy'[e] = rcopy[e] /\ rseen'[e] = rseen[e]
  <1>0. OperatorsTyped
    BY DEF DmsTypeInv
  <1> DEFINE Moved == rpc'[e] = rpc[e] /\ rdoc'[e] = rdoc[e]
  <1>1. ASSUME NEW Q, NextItem(c, Q) PROVE Moved
    BY <1>0, <1>1 DEF NextItem, OperatorsTyped
  <1>2. ASSUME NEW p, RepairGoto(c, p) PROVE Moved
    BY <1>0, <1>2 DEF RepairGoto, OperatorsTyped
  <1>3. Report(c) \/ Verify(c) => Moved
    BY <1>1, <1>2 DEF Report, Verify
  <1>4. ASSUME NEW seen, Decide(c, seen) PROVE Moved
    BY <1>2, <1>3, <1>4 DEF Decide
  <1>5. CASE \E r \in RepairRequests : Repair(c, r)
    BY <1>0, <1>1, <1>5 DEF Repair, OperatorsTyped
  <1>6. CASE ListCandidates(c)
    BY <1>1, <1>6 DEF ListCandidates
  <1>7. CASE InspectRow(c)
    BY <1>0, <1>2, <1>3, <1>7 DEF InspectRow, OperatorsTyped
  <1>8. CASE InspectObject(c) \/ AsyncInspectObject(c)
    BY <1>0, <1>2, <1>3, <1>4, <1>8
    DEF InspectObject, AsyncInspectObject, OperatorsTyped
  <1>9. CASE InspectAgain(c) \/ StatOrphan(c)
    BY <1>2, <1>3, <1>4, <1>9 DEF InspectAgain, StatOrphan
  <1>a. CASE Purge(c) \/ CompleteHard(c) \/ CompleteWrite(c) \/ FailedWrite(c)
    BY <1>3, <1>a DEF Purge, CompleteHard, CompleteWrite, FailedWrite, RowWrite
  <1>b. CASE CompleteLoad(c) \/ FailedLoad(c)
    BY <1>0, <1>2, <1>3, <1>b DEF CompleteLoad, FailedLoad, Reload, OperatorsTyped
  <1>c. CASE RepairCrash(c) \/ CancelRepair(c)
    BY <1>0, <1>c DEF RepairCrash, CancelRepair, OperatorsTyped
  <1> QED BY <1>5, <1>6, <1>7, <1>8, <1>9, <1>a, <1>b, <1>c
          DEF RepairStep, AsyncRepairStep, AsyncApply, AsyncListCandidates,
              AsyncInspectRow

(* A reset is exempt in its scope, and does nothing outside of it. *)
LEMMA ResetLater ==
    ASSUME DmsTypeInv, NEW c \in Resetters, UNCHANGED uploadVars,
           ResetStep(c) \/ CancelReset(c)
    PROVE  Later
  <1>0. /\ StoresTypeOK /\ UNCHANGED <<seq, sbegun>>
        /\ sscope[c] \subseteq sbegun
        /\ \A k \in slisted[c] : k \in StorageKeys /\ k[1] \in sscope[c]
    BY ResettersType, StoreTypes
    DEF ResetsOnly, DmsTypeInv, ResettersTyped, ResetterLocal
  <1>1. CASE UNCHANGED <<meta, objects>>
    BY <1>0, <1>1, QuietLater
  <1>2. CASE meta' = WithoutRows(c) /\ objects' = objects
    <2>1. \A d \in DocIds :
             \/ meta'[d] = meta[d]
             \/ /\ meta[d] # None /\ meta'[d] = None
                /\ meta[d].part \in sscope[c]
      BY <1>2 DEF WithoutRows, KeptRow
    <2> QED BY <1>0, <1>2, <2>1 DEF Later
  <1>3. CASE RemoveObject(c)
    <2>1. PICK k \in slisted[c], o \in Replies : DeleteObject(k, o)
      BY <1>3 DEF RemoveObject
    <2>2. meta' = meta /\ k \in StorageKeys /\ k[1] \in sbegun
      BY <1>0, <1>3, <2>1 DEF RemoveObject
    <2>3. \A j \in StorageKeys : objects'[j] = objects[j]
                                   \/ (objects'[j] = None /\ j[1] \in sbegun)
      BY <1>0, <2>1, <2>2 DEF DeleteObject, StoresTypeOK
    <2> QED BY <1>0, <2>2, <2>3 DEF Later
  <1> QED BY <1>1, <1>2, <1>3
          DEF ResetStep, ResetCall, ListObjects, ClearMetadata,
              ClearOperations, ResetCrash, CancelReset, Die

LEMMA LateLater ==
    ASSUME DmsTypeInv, LateFresh, UNCHANGED <<uploadVars, sbegun>>,
           NEW k \in rlate, LandRemoval(k)
    PROVE  Later
  <1>1. k \in StorageKeys /\ objects \in [StorageKeys -> Contents \cup {None}]
    BY StoreTypes DEF DmsTypeInv, StoresTypeOK
  <1>2. PurgesTold /\ k[1] \notin sbegun => Past(k[2]) /\ ~Referenced(k)
    BY DEF LateFresh, NeverReset
  <1>3. \A j \in StorageKeys :
           objects'[j] = objects[j] \/ (objects'[j] = None /\ j = k)
    BY <1>1 DEF LandRemoval
  <1> QED BY <1>1, <1>2, <1>3 DEF LandRemoval, Later

(* Registrations.  A caller at its document touches that document only.    *)
Acts(c) ==
    /\ upc[c] \in AtDocument /\ upc'[c] \in AtDocument \cup {"idle"}
    /\ UNCHANGED <<ureq, udoc, seq, sbegun>>
    /\ \A e \in Callers : e # c => upc'[e] = upc[e] /\ uout'[e] = uout[e]
    /\ \A d \in DocIds : d # udoc[c] \/ meta[d] # None => meta'[d] = meta[d]
    /\ \A k \in StorageKeys : k # BuildStorageKey(c) => objects'[k] = objects[k]
    /\ reports \subseteq reports'
    /\ \A k, e : <<k, e>> \in reports' \ reports =>
                    k = BuildStorageKey(c) /\ upc'[c] = "idle"
    /\ upc[c] = "rollback" => upc'[c] = "idle" /\ meta' = meta
    /\ objects[BuildStorageKey(c)] = None /\ upc[c] # "put" =>
          objects'[BuildStorageKey(c)] = None

LEMMA ActsAges ==
    ASSUME DmsTypeInv, StoresFresh, NEW c \in Callers, Acts(c)
    PROVE  Aging
  <1>0. /\ udoc[c] \in DocIds /\ BuildStorageKey(c) \in StorageKeys
        /\ BuildStorageKey(c)[2] = udoc[c]
    BY CallerTypes DEF DmsTypeInv, Acts, AtDocument, BuildStorageKey
  <1>1. ASSUME NEW d \in DocIds, Past(d)
        PROVE  /\ Past(d)'
               /\ meta'[d] = meta[d]
               /\ \A k \in StorageKeys :
                     k[2] = d /\ objects[k] = None => objects'[k] = None
    <2>1. CASE d = udoc[c]
      <3>1. upc[c] = "rollback"
        BY <1>1, <2>1 DEF Past, Acts, AtDocument
      <3> QED BY <1>0, <1>1, <2>1, <3>1 DEF Past, Acts
    <2>2. CASE d # udoc[c]
      <3>1. Past(d)'
        BY <1>1, <2>2 DEF Past, Acts, AtDocument
      <3>2. meta'[d] = meta[d]
        BY <2>2 DEF Acts
      <3>3. \A k \in StorageKeys :
               k[2] = d => k # BuildStorageKey(c) /\ objects'[k] = objects[k]
        BY <1>0, <2>2 DEF Acts
      <3> QED BY <3>1, <3>2, <3>3
    <2> QED BY <2>1, <2>2
  <1> QED BY <1>1 DEF Aging, Acts, SameDocument, Available

LEMMA ActsKeeps ==
    ASSUME DmsTypeInv, StoresFresh, NEW c \in Callers, Acts(c),
           CallerFresh(c)', Accord(udoc[c])', NoOrphan(BuildStorageKey(c))'
    PROVE  StoresFresh'
  <1> DEFINE k0 == BuildStorageKey(c)
             d0 == udoc[c]
  <1>0. /\ d0 \in DocIds /\ k0 \in StorageKeys /\ k0[2] = d0
        /\ d0 <= seq /\ k0' = k0 /\ d0' = d0
        /\ StoresTypeOK /\ seq \in Nat
    <2>1. upc[c] \in AtDocument /\ UNCHANGED <<ureq, udoc>>
      BY DEF Acts
    <2>2. d0 \in DocIds /\ k0 \in StorageKeys
      BY <2>1, CallerTypes DEF DmsTypeInv, AtDocument
    <2>3. d0 <= seq
      BY <2>1 DEF StoresFresh, CallerFresh
    <2>4. k0[2] = d0 /\ k0' = k0 /\ d0' = d0
      BY <2>1 DEF BuildStorageKey
    <2>5. StoresTypeOK /\ seq \in Nat
      BY StoreTypes DEF DmsTypeInv, StoresTypeOK
    <2> QED BY <2>2, <2>3, <2>4, <2>5
  <1>a. Aging
    BY ActsAges
  <1>1. ASSUME NEW e \in Callers, e # c
        PROVE  CallerFresh(e)'
    <2>1. /\ upc'[e] = upc[e] /\ uout'[e] = uout[e]
          /\ CallerFresh(e) /\ BuildStorageKey(e)' = BuildStorageKey(e)
      BY <1>1 DEF Acts, StoresFresh, BuildStorageKey
    <2>2. ASSUME upc[e] \in AtDocument
          PROVE  /\ udoc[e] \in DocIds /\ udoc[e] # d0
                 /\ BuildStorageKey(e) \in StorageKeys
                 /\ BuildStorageKey(e)[2] = udoc[e]
      BY <1>1, <2>2, CallerTypes
      DEF DmsTypeInv, AtDocument, BuildStorageKey, StoresFresh,
          OwnIdentifiers, Acts
    <2>3. ASSUME upc[e] \in AtDocument
          PROVE  /\ meta'[udoc[e]] = meta[udoc[e]]
                 /\ \A k \in StorageKeys :
                       k[2] = udoc[e] => objects'[k] = objects[k]
      BY <1>0, <2>2, <2>3 DEF Acts
    <2> QED BY <2>1, <2>2, <2>3
            DEF CallerFresh, AtDocument, Acts, NeverReset, PurgesTold,
                StorageKeyOf
  <1>2. OwnIdentifiers'
    <2>1. \A e \in Callers : upc'[e] \in AtDocument => upc[e] \in AtDocument
      BY DEF Acts
    <2> QED BY <2>1 DEF StoresFresh, OwnIdentifiers, Acts
  <1>3. Unused'
    <2>1. \A d \in DocIds : d > seq => d # d0 /\ meta'[d] = None
      BY <1>0 DEF StoresFresh, Unused, Acts, DocIds
    <2>2. \A k \in StorageKeys : k[2] > seq => objects'[k] = None
      BY <1>0 DEF StoresFresh, Unused, Acts, StorageKeys, DocIds
    <2>3. ASSUME NEW k \in StorageKeys, NEW e \in Alarms, <<k, e>> \in reports'
          PROVE  Past(k[2])'
      <3>1. CASE <<k, e>> \in reports
        <4>1. Past(k[2]) /\ k[2] \in DocIds
          BY <2>3, <3>1 DEF StoresFresh, Unused, StorageKeys
        <4> QED BY <1>a, <4>1 DEF Aging
      <3>2. CASE <<k, e>> \notin reports
        <4>1. k = k0 /\ upc'[c] = "idle"
          BY <2>3, <3>2 DEF Acts
        <4>2. \A g \in Callers :
                 upc'[g] \in {"exists", "put", "save"} => udoc'[g] # d0
          BY <4>1 DEF StoresFresh, OwnIdentifiers, Acts, AtDocument
        <4> QED BY <1>0, <4>1, <4>2 DEF Past, Acts
      <3> QED BY <3>1, <3>2
    <2> QED BY <2>1, <2>2, <2>3 DEF Unused, Acts
  <1>s. \A k, E : Said(k, E) => Said(k, E)'
    BY DEF Said, Acts
  <1>4. ASSUME NEW d \in DocIds, d # d0
        PROVE  Accord(d)'
    <2>1. meta'[d] = meta[d] /\ Accord(d)
      BY <1>4 DEF Acts, StoresFresh
    <2>2. ASSUME meta[d] # None
          PROVE  ContentOf(d)' = ContentOf(d)
                   /\ StorageKeyOf(d, meta[d])' = StorageKeyOf(d, meta[d])
      <3>1. meta[d] \in Rows
        BY <1>0, <2>2 DEF StoresTypeOK
      <3>2. StorageKeyOf(d, meta[d]) \in StorageKeys
               /\ StorageKeyOf(d, meta[d]) # k0
        BY <1>0, <1>4, <3>1 DEF StorageKeyOf, StorageKeys, Rows
      <3> QED BY <2>1, <3>2 DEF Acts, ContentOf, StorageKeyOf
    <2> QED BY <1>s, <2>1, <2>2
            DEF Accord, Available, NeverReset, PurgesTold, Acts
  <1>5. ASSUME NEW k \in StorageKeys, k # k0
        PROVE  NoOrphan(k)'
    <2>1. objects'[k] = objects[k] /\ k[2] \in DocIds
      BY <1>5 DEF Acts, StorageKeys
    <2>2. Referenced(k) => Referenced(k)'
      BY <2>1 DEF Referenced, Acts, StorageKeyOf
    <2>3. InFlight(k) => InFlight(k)'
      BY <1>5 DEF InFlight, Acts, BuildStorageKey
    <2> QED BY <1>s, <2>1, <2>2, <2>3
            DEF StoresFresh, NoOrphan, NeverReset, Acts
  <1>6. /\ \A d \in DocIds : Accord(d)'
        /\ \A k \in StorageKeys : NoOrphan(k)'
        /\ \A e \in Callers : CallerFresh(e)'
    BY <1>0, <1>1, <1>4, <1>5
  <1> QED BY <1>2, <1>3, <1>6 DEF StoresFresh

(* A caller at its document, when no request has a key. *)
LEMMA AtDocumentFacts ==
    ASSUME FreshIdentifiers, DmsTypeInv, StoresFresh, NEW c \in Callers,
           upc[c] \in AtDocument
    PROVE  /\ ureq[c] \in Requests /\ ~Keyed(c)
           /\ udoc[c] \in DocIds /\ udoc[c] <= seq
           /\ BuildStorageKey(c) \in StorageKeys
           /\ BuildStorageKey(c)[1] = ureq[c].part
           /\ BuildStorageKey(c)[2] = udoc[c]
           /\ NewRow(c) \in Rows /\ NewRow(c).status = "available"
           /\ NewRow(c).content = ureq[c].content
           /\ NewRow(c).part = ureq[c].part
           /\ StorageKeyOf(udoc[c], NewRow(c)) = BuildStorageKey(c)
           /\ CallerFresh(c)
  <1>1. CallerFresh(c)
    BY DEF StoresFresh
  <1>2. /\ ureq[c] \in Requests /\ udoc[c] \in DocIds
        /\ BuildStorageKey(c) \in StorageKeys /\ NewRow(c) \in Rows
    BY CallerTypes DEF DmsTypeInv, AtDocument
  <1>3. ~Keyed(c)
    BY <1>2 DEF FreshIdentifiers, Keyed
  <1>4. /\ BuildStorageKey(c)[1] = ureq[c].part
        /\ BuildStorageKey(c)[2] = udoc[c]
        /\ NewRow(c).status = "available"
        /\ NewRow(c).content = ureq[c].content
        /\ NewRow(c).part = ureq[c].part
        /\ StorageKeyOf(udoc[c], NewRow(c)) = BuildStorageKey(c)
    BY DEF BuildStorageKey, NewRow, StorageKeyOf
  <1> QED BY <1>1, <1>2, <1>3, <1>4 DEF CallerFresh

(* How such a caller moves on, and ends. *)
LEMMA UnkeyedMoves ==
    ASSUME DmsTypeInv, NEW c \in Callers, ~Keyed(c), NEW e, NEW p
    PROVE  /\ Goto(c, p) => /\ upc'[c] = p /\ uout' = uout
                            /\ reports' = reports
           /\ Return(c, e) \/ Raise(c, e) =>
                 /\ upc'[c] = "idle" /\ uout'[c] = e
                 /\ reports' = IF e \in Alarms
                                 THEN reports \cup {<<BuildStorageKey(c), e>>}
                                 ELSE reports
           /\ Goto(c, p) \/ Return(c, e) \/ Raise(c, e) =>
                 \A g \in Callers :
                    g # c => upc'[g] = upc[g] /\ uout'[g] = uout[g]
  BY DEF DmsTypeInv, TypeInv, UploadTypeOK, Goto, Return, Raise

LEMMA CheckExistsFresh ==
    ASSUME FreshIdentifiers, DmsTypeInv, StoresFresh, NEW c \in Callers,
           CheckExists(c), sbegun' = sbegun
    PROVE  StoresFresh' /\ Aging
  <1>0. upc[c] = "exists" /\ upc[c] \in AtDocument
    BY DEF CheckExists, AtDocument
  <1>1. /\ ~Keyed(c) /\ CallerFresh(c) /\ meta[udoc[c]] = None
        /\ \A k \in StorageKeys : k[2] = udoc[c] => objects[k] = None
        /\ BuildStorageKey(c) \in StorageKeys
        /\ BuildStorageKey(c)[2] = udoc[c]
    BY <1>0, AtDocumentFacts DEF CallerFresh
  <1>2. /\ UNCHANGED <<meta, objects, seq, ureq, udoc, reports>>
        /\ upc'[c] \in {"idle", "put"}
        /\ \A g \in Callers : g # c => upc'[g] = upc[g] /\ uout'[g] = uout[g]
    BY <1>1, UnkeyedMoves DEF CheckExists, Exists, Alarms
  <1>3. Acts(c)
    BY <1>0, <1>1, <1>2 DEF Acts, AtDocument
  <1>4. CallerFresh(c)'
    BY <1>0, <1>1, <1>2 DEF CallerFresh, AtDocument
  <1>5. Accord(udoc[c])'
    BY <1>1, <1>2 DEF Accord
  <1>6. NoOrphan(BuildStorageKey(c))'
    BY <1>1, <1>2 DEF NoOrphan, BuildStorageKey
  <1> QED BY <1>3, <1>4, <1>5, <1>6, ActsKeeps, ActsAges

LEMMA PutFresh ==
    ASSUME FreshIdentifiers, DmsTypeInv, StoresFresh, NEW c \in Callers,
           Put(c), sbegun' = sbegun
    PROVE  StoresFresh' /\ Aging
  <1> DEFINE k0 == BuildStorageKey(c)
  <1>0. upc[c] = "put" /\ upc[c] \in AtDocument
    BY DEF Put, AtDocument
  <1>1. /\ ~Keyed(c) /\ CallerFresh(c) /\ meta[udoc[c]] = None
        /\ \A k \in StorageKeys : k[2] = udoc[c] => objects[k] = None
        /\ k0 \in StorageKeys /\ k0[2] = udoc[c]
        /\ objects \in [StorageKeys -> Contents \cup {None}]
    BY <1>0, AtDocumentFacts, StoreTypes
    DEF CallerFresh, DmsTypeInv, StoresTypeOK
  <1>2. PICK o \in Replies :
           /\ PutObject(k0, ureq[c].content, o)
           /\ IF o # "ok" THEN Raise(c, "StorageError")
              ELSE IF EndsEarly(ureq[c])
                THEN /\ upc' = [upc EXCEPT ![c] = "rollback"]
                     /\ uout' = [uout EXCEPT ![c] = "ValidationError"]
                     /\ UNCHANGED reports
              ELSE Goto(c, "save")
    BY DEF Put
  <1>3. /\ UNCHANGED <<meta, seq, ureq, udoc>> /\ k0' = k0
        /\ \A g \in Callers : g # c => upc'[g] = upc[g] /\ uout'[g] = uout[g]
        /\ \/ /\ upc'[c] = "idle" /\ o # "ok"
              /\ reports' = reports \cup {<<k0, "StorageError">>}
           \/ /\ upc'[c] \in {"rollback", "save"} /\ o = "ok"
              /\ reports' = reports
    <2>1. UNCHANGED <<meta, seq, ureq, udoc>> /\ k0' = k0
      BY DEF Put, BuildStorageKey
    <2>2. CASE o # "ok"
      BY <1>1, <1>2, <2>1, <2>2, UnkeyedMoves DEF Alarms
    <2>3. CASE o = "ok" /\ EndsEarly(ureq[c])
      BY <1>2, <2>1, <2>3 DEF DmsTypeInv, TypeInv, UploadTypeOK
    <2>4. CASE o = "ok" /\ ~EndsEarly(ureq[c])
      BY <1>1, <1>2, <2>1, <2>4, UnkeyedMoves
    <2> QED BY <2>2, <2>3, <2>4
  <1>4. /\ o = "ok" => objects'[k0] = ureq[c].content
        /\ \A k \in StorageKeys : k # k0 => objects'[k] = objects[k]
    BY <1>1, <1>2 DEF PutObject, Applied
  <1>5. Acts(c)
    BY <1>0, <1>3, <1>4 DEF Acts, AtDocument
  <1>6. CallerFresh(c)'
    BY <1>0, <1>1, <1>3, <1>4 DEF CallerFresh, AtDocument
  <1>7. Accord(udoc[c])'
    BY <1>1, <1>3 DEF Accord
  <1>8. NoOrphan(k0)'
    BY <1>3 DEF NoOrphan, InFlight, Said, Alarms
  <1> QED BY <1>5, <1>6, <1>7, <1>8, ActsKeeps, ActsAges

LEMMA SaveFresh ==
    ASSUME FreshIdentifiers, DmsTypeInv, StoresFresh, NEW c \in Callers,
           Save(c), sbegun' = sbegun
    PROVE  StoresFresh' /\ Aging
  <1> DEFINE k0 == BuildStorageKey(c)
             d0 == udoc[c]
  <1>0. upc[c] = "save" /\ upc[c] \in AtDocument
    BY DEF Save, AtDocument
  <1>1. /\ ~Keyed(c) /\ CallerFresh(c) /\ meta[d0] = None /\ ~Exists(d0)
        /\ \A k \in StorageKeys :
              k[2] = d0 /\ objects[k] # None => k = k0
        /\ PurgesTold /\ NeverReset(ureq[c].part) =>
              objects[k0] = ureq[c].content
        /\ k0 \in StorageKeys /\ k0[2] = d0 /\ k0[1] = ureq[c].part
        /\ d0 \in DocIds
        /\ meta \in [DocIds -> Rows \cup {None}]
    BY <1>0, AtDocumentFacts, StoreTypes
    DEF CallerFresh, DmsTypeInv, StoresTypeOK, Exists
  <1>2. /\ NewRow(c).status = "available" /\ NewRow(c).content = ureq[c].content
        /\ NewRow(c).part = ureq[c].part
        /\ StorageKeyOf(d0, NewRow(c)) = k0
        /\ NewRow(c) # None
    BY <1>0, AtDocumentFacts, NoneAssumption DEF Rows
  <1>3. PICK o \in Replies :
           /\ SaveMetadata(d0, NewRow(c), o)
           /\ IF o = "ok" THEN Return(c, "Created")
              ELSE /\ upc' = [upc EXCEPT ![c] = "rollback"]
                   /\ uout' = [uout EXCEPT ![c] = "ConsistencyError"]
                   /\ UNCHANGED reports
    BY <1>1 DEF Save
  <1>4. UNCHANGED <<objects, seq, ureq, udoc>> /\ k0' = k0 /\ reports' = reports
    BY <1>1, <1>3, UnkeyedMoves DEF Save, BuildStorageKey, Alarms
  <1>5. /\ \A g \in Callers : g # c => upc'[g] = upc[g] /\ uout'[g] = uout[g]
        /\ \/ upc'[c] = "idle" /\ o = "ok"
           \/ upc'[c] = "rollback" /\ uout'[c] = "ConsistencyError"
    BY <1>1, <1>3, UnkeyedMoves DEF DmsTypeInv, TypeInv, UploadTypeOK
  <1>6. /\ meta'[d0] \in {None, NewRow(c)}
        /\ o = "ok" => meta'[d0] = NewRow(c)
        /\ \A d \in DocIds : d # d0 => meta'[d] = meta[d]
    BY <1>1, <1>3 DEF SaveMetadata, Applied
  <1>7. Acts(c)
    BY <1>0, <1>1, <1>4, <1>5, <1>6 DEF Acts, AtDocument
  <1>8. CallerFresh(c)'
    BY <1>0, <1>1, <1>2, <1>4, <1>5, <1>6 DEF CallerFresh, AtDocument
  <1>9. Accord(d0)'
    <2>1. CASE meta'[d0] = None
      BY <1>4, <2>1 DEF Accord
    <2>2. CASE meta'[d0] = NewRow(c)
      <3>1. ContentOf(d0)' = objects[k0]
        BY <1>2, <1>4, <2>2 DEF ContentOf, StorageKeyOf
      <3> QED BY <1>1, <1>2, <1>4, <2>2, <3>1
              DEF Accord, NeverReset, PurgesTold
    <2> QED BY <1>6, <2>1, <2>2
  <1>a. NoOrphan(k0)'
    <2>1. CASE o = "ok"
      <3>1. meta'[d0] # None /\ StorageKeyOf(d0, meta'[d0]) = k0
        BY <1>2, <1>6, <2>1
      <3>2. Referenced(k0)'
        BY <1>1, <1>4, <3>1 DEF Referenced, StorageKeyOf
      <3> QED BY <3>2 DEF NoOrphan
    <2>2. CASE upc'[c] = "rollback"
      BY <1>4, <2>2 DEF NoOrphan, InFlight
    <2> QED BY <1>5, <2>1, <2>2
  <1> QED BY <1>7, <1>8, <1>9, <1>a, ActsKeeps, ActsAges

LEMMA RollbackFresh ==
    ASSUME FreshIdentifiers, DmsTypeInv, StoresFresh, NEW c \in Callers,
           Rollback(c), sbegun' = sbegun
    PROVE  StoresFresh' /\ Aging
  <1> DEFINE k0 == BuildStorageKey(c)
             d0 == udoc[c]
  <1>0. upc[c] = "rollback" /\ upc[c] \in AtDocument
    BY DEF Rollback, AtDocument
  <1>1. /\ ~Keyed(c) /\ CallerFresh(c)
        /\ meta[d0] # None => /\ uout[c] = "ConsistencyError"
                              /\ StorageKeyOf(d0, meta[d0]) = k0
        /\ k0 \in StorageKeys /\ d0 \in DocIds
        /\ objects \in [StorageKeys -> Contents \cup {None}]
        /\ Accord(d0)
    BY <1>0, AtDocumentFacts, StoreTypes
    DEF CallerFresh, DmsTypeInv, StoresTypeOK, StoresFresh
  <1>2. PICK o \in Replies :
           /\ DeleteObject(k0, o)
           /\ Raise(c, IF o = "ok" THEN uout[c] ELSE "ConsistencyError")
    BY DEF Rollback
  <1> DEFINE e == IF o = "ok" THEN uout[c] ELSE "ConsistencyError"
  <1>3. /\ UNCHANGED <<meta, seq, ureq, udoc>> /\ k0' = k0
        /\ upc'[c] = "idle"
        /\ reports' = IF e \in Alarms THEN reports \cup {<<k0, e>>}
                      ELSE reports
        /\ \A g \in Callers : g # c => upc'[g] = upc[g] /\ uout'[g] = uout[g]
    BY <1>1, <1>2, UnkeyedMoves DEF Rollback, BuildStorageKey
  <1>4. /\ o = "ok" => objects'[k0] = None
        /\ objects'[k0] \in {None, objects[k0]}
        /\ \A k \in StorageKeys : k # k0 => objects'[k] = objects[k]
    BY <1>1, <1>2 DEF DeleteObject, Applied
  <1>5. Acts(c)
    BY <1>0, <1>3, <1>4 DEF Acts, AtDocument
  <1>6. CallerFresh(c)'
    BY <1>3 DEF CallerFresh, AtDocument
  <1>7. Accord(d0)'
    <2>1. CASE meta[d0] = None
      BY <1>3, <2>1 DEF Accord
    <2>2. CASE meta[d0] # None
      <3>1. Said(k0, Serious)'
        BY <1>1, <1>3, <2>2 DEF Said, Serious, Alarms
      <3>2. ContentOf(d0) = objects[k0] /\ ContentOf(d0)' = objects'[k0]
              /\ StorageKeyOf(d0, meta[d0])' = k0
        BY <1>1, <1>3, <2>2 DEF ContentOf, StorageKeyOf
      <3> QED BY <1>1, <1>3, <1>4, <2>2, <3>1, <3>2 DEF Accord
    <2> QED BY <2>1, <2>2
  <1>8. NoOrphan(k0)'
    <2>1. CASE o = "ok"
      BY <1>3, <1>4, <2>1 DEF NoOrphan
    <2>2. CASE o # "ok"
      BY <1>3, <2>2 DEF NoOrphan, Said, Alarms
    <2> QED BY <2>1, <2>2
  <1> QED BY <1>5, <1>6, <1>7, <1>8, ActsKeeps, ActsAges

LEMMA CrashFresh ==
    ASSUME FreshIdentifiers, DmsTypeInv, StoresFresh, NEW c \in Callers,
           upc[c] \in AtDocument, Crash(c), sbegun' = sbegun
    PROVE  StoresFresh' /\ Aging
  <1> DEFINE k0 == BuildStorageKey(c)
             d0 == udoc[c]
  <1>1. /\ UNCHANGED <<meta, objects, seq, ureq, udoc>> /\ k0' = k0
        /\ upc'[c] = "idle"
        /\ reports' = IF upc[c] \in {"save", "rollback"}
                        THEN reports \cup {<<k0, "Crashed">>} ELSE reports
        /\ \A g \in Callers : g # c => upc'[g] = upc[g] /\ uout'[g] = uout[g]
    BY DEF Crash, Die, BuildStorageKey, DmsTypeInv, TypeInv, UploadTypeOK,
           AtDocument
  <1>2. /\ CallerFresh(c) /\ k0 \in StorageKeys /\ k0[2] = d0
        /\ d0 \in DocIds /\ Accord(d0)
    BY AtDocumentFacts DEF StoresFresh
  <1>3. Acts(c)
    BY <1>1 DEF Acts, AtDocument
  <1>4. CallerFresh(c)'
    BY <1>1 DEF CallerFresh, AtDocument
  <1>5. Accord(d0)'
    <2>1. ContentOf(d0)' = ContentOf(d0)
             /\ StorageKeyOf(d0, meta[d0])' = StorageKeyOf(d0, meta[d0])
      BY <1>1 DEF ContentOf, StorageKeyOf
    <2>2. \A k, E : Said(k, E) => Said(k, E)'
      BY <1>1 DEF Said
    <2> QED BY <1>1, <1>2, <2>1, <2>2
            DEF Accord, Available, NeverReset, PurgesTold
  <1>6. NoOrphan(k0)'
    <2>1. CASE upc[c] \in {"exists", "put"}
      BY <1>1, <1>2, <2>1 DEF NoOrphan, CallerFresh
    <2>2. CASE upc[c] \in {"save", "rollback"}
      BY <1>1, <2>2 DEF NoOrphan, Said, Alarms
    <2> QED BY <2>1, <2>2 DEF AtDocument
  <1> QED BY <1>3, <1>4, <1>5, <1>6, ActsKeeps, ActsAges

(* A caller that has no identifier yet touches no document. *)
Rests(c) ==
    /\ upc[c] \in {"idle", "allocate"}
    /\ \A e \in Callers :
          e # c => /\ upc'[e] = upc[e] /\ uout'[e] = uout[e]
                   /\ ureq'[e] = ureq[e] /\ udoc'[e] = udoc[e]
    /\ UNCHANGED <<meta, objects, reports, sbegun>>

(* The others, when identifiers only grow. *)
LEMMA RestsAges ==
    ASSUME DmsTypeInv, StoresFresh, NEW c \in Callers, Rests(c),
           seq' \in Nat, seq <= seq',
           \/ upc'[c] \in {"idle", "allocate"}
           \/ /\ upc'[c] = "exists" /\ Requests # {}
              /\ udoc'[c] > seq
    PROVE  /\ Aging
           /\ \A e \in Callers : e # c => CallerFresh(e)'
           /\ Unused'
           /\ \A d \in DocIds : Accord(d)'
           /\ \A k \in StorageKeys : NoOrphan(k)'
  <1>0. /\ StoresTypeOK /\ seq \in Nat
        /\ \A e \in Callers : upc[e] \in AtDocument => udoc[e] \in DocIds
    BY StoreTypes, CallerTypes DEF DmsTypeInv, StoresTypeOK, AtDocument
  <1>1. ASSUME NEW d \in DocIds, Past(d)
        PROVE  Past(d)'
    <2>1. d \in Nat
      BY DEF DocIds
    <2> QED BY <1>0, <1>1, <2>1 DEF Past, Rests, DocIds
  <1>2. Aging
    BY <1>1 DEF Aging, Rests, SameDocument, Available
  <1>3. ASSUME NEW e \in Callers, e # c
        PROVE  CallerFresh(e)'
    <2>1. /\ upc'[e] = upc[e] /\ uout'[e] = uout[e]
          /\ ureq'[e] = ureq[e] /\ udoc'[e] = udoc[e]
          /\ CallerFresh(e) /\ BuildStorageKey(e)' = BuildStorageKey(e)
      BY <1>3 DEF Rests, StoresFresh, BuildStorageKey
    <2>2. upc[e] \in AtDocument => udoc[e] <= seq'
      BY <1>0, <2>1 DEF CallerFresh, DocIds
    <2> QED BY <2>1, <2>2
            DEF CallerFresh, Rests, AtDocument, NeverReset, PurgesTold,
                StorageKeyOf
  <1>4. Unused'
    <2>1. \A d \in DocIds : d > seq' => meta'[d] = None
      BY <1>0 DEF StoresFresh, Unused, Rests, DocIds
    <2>2. \A k \in StorageKeys : k[2] > seq' => objects'[k] = None
      BY <1>0 DEF StoresFresh, Unused, Rests, StorageKeys, DocIds
    <2>3. \A k \in StorageKeys, e \in Alarms :
             <<k, e>> \in reports' => Past(k[2])'
      BY <1>1 DEF StoresFresh, Unused, Rests, StorageKeys
    <2> QED BY <2>1, <2>2, <2>3 DEF Unused
  <1>5. ASSUME NEW d \in DocIds
        PROVE  Accord(d)'
    BY DEF Accord, Available, NeverReset, PurgesTold, StoresFresh, Rests,
           Said, ContentOf, StorageKeyOf
  <1>6. ASSUME NEW k \in StorageKeys
        PROVE  NoOrphan(k)'
    <2>1. InFlight(k) => InFlight(k)'
      BY DEF InFlight, Rests, BuildStorageKey
    <2>2. Referenced(k)' = Referenced(k) /\ Said(k, Alarms)' = Said(k, Alarms)
      BY DEF Referenced, StorageKeyOf, Said, Rests
    <2> QED BY <2>1, <2>2 DEF NoOrphan, NeverReset, StoresFresh, Rests
  <1> QED BY <1>2, <1>3, <1>4, <1>5, <1>6

LEMMA RestsKeeps ==
    ASSUME DmsTypeInv, StoresFresh, NEW c \in Callers, Rests(c),
           seq' \in Nat, seq <= seq', upc'[c] \in {"idle", "allocate"}
    PROVE  StoresFresh' /\ Aging
  <1>1. CallerFresh(c)'
    BY DEF CallerFresh, AtDocument
  <1>2. OwnIdentifiers'
    BY DEF StoresFresh, OwnIdentifiers, Rests, AtDocument
  <1> QED BY <1>1, <1>2, RestsAges DEF StoresFresh

LEMMA BeginFresh ==
    ASSUME FreshIdentifiers, DmsTypeInv, StoresFresh, NEW c \in Callers,
           NEW r \in Requests, UploadDocument(c, r), sbegun' = sbegun
    PROVE  StoresFresh' /\ Aging
  <1>1. r.doc = None /\ upc[c] = "idle" /\ seq' = seq /\ seq \in Nat
    BY StoreTypes
    DEF FreshIdentifiers, UploadDocument, storeVars, DmsTypeInv, StoresTypeOK
  <1>2. Rests(c) /\ upc'[c] \in {"idle", "allocate"}
    BY <1>1
    DEF UploadDocument, storeVars, Rests, DmsTypeInv, TypeInv, UploadTypeOK
  <1> QED BY <1>1, <1>2, RestsKeeps

LEMMA AllocateFresh ==
    ASSUME FreshIdentifiers, DmsTypeInv, StoresFresh, NEW c \in Callers,
           Allocate(c), sbegun' = sbegun
    PROVE  StoresFresh' /\ Aging
  <1>0. /\ upc[c] = "allocate" /\ ureq[c] \in Requests
        /\ ureq[c].key = None /\ seq \in Nat
    BY StoreTypes, CallerTypes
    DEF FreshIdentifiers, Allocate, DmsTypeInv, StoresTypeOK
  <1>1. PICK d \in DocIds, o \in Replies :
           /\ AllocateDocumentId(d, o)
           /\ IF o = "ok"
                THEN /\ udoc' = [udoc EXCEPT ![c] = d]
                     /\ Goto(c, "exists")
                ELSE /\ Return(c, "MetadataStoreError")
                     /\ UNCHANGED udoc
    BY <1>0 DEF Allocate, AfterIdentifier
  <1>2. /\ d \in Nat /\ d > seq /\ seq' \in {seq, d}
        /\ o = "ok" => seq' = d
    BY <1>0, <1>1 DEF AllocateDocumentId, AllocatedId, Applied, DocIds
  <1>3. /\ upc' = [upc EXCEPT ![c] = IF o = "ok" THEN "exists" ELSE "idle"]
        /\ udoc' = IF o = "ok" THEN [udoc EXCEPT ![c] = d] ELSE udoc
        /\ \A e \in Callers : e # c => uout'[e] = uout[e]
        /\ UNCHANGED <<reports, meta, objects, ureq>>
    BY <1>0, <1>1
    DEF Goto, Return, Alarms, Allocate, DmsTypeInv, TypeInv, UploadTypeOK
  <1>4. Rests(c)
    BY <1>0, <1>3 DEF Rests, DmsTypeInv, TypeInv, UploadTypeOK
  <1>5. CASE o # "ok"
    <2>1. upc'[c] = "idle"
      BY <1>3, <1>5 DEF DmsTypeInv, TypeInv, UploadTypeOK
    <2> QED BY <1>0, <1>2, <1>4, <2>1, RestsKeeps
  <1>6. CASE o = "ok"
    <2>1. upc'[c] = "exists" /\ udoc'[c] = d /\ seq' = d
      BY <1>2, <1>3, <1>6 DEF DmsTypeInv, TypeInv, UploadTypeOK
    <2>2. /\ Aging
          /\ \A e \in Callers : e # c => CallerFresh(e)'
          /\ Unused'
          /\ \A e \in DocIds : Accord(e)'
          /\ \A k \in StorageKeys : NoOrphan(k)'
      BY <1>0, <1>2, <1>4, <2>1, RestsAges
    <2>3. CallerFresh(c)'
      <3>1. meta'[d] = None
        BY <1>2, <1>3 DEF StoresFresh, Unused
      <3>2. \A k \in StorageKeys : k[2] = d => objects'[k] = None
        BY <1>2, <1>3 DEF StoresFresh, Unused
      <3> QED BY <1>2, <2>1, <3>1, <3>2 DEF CallerFresh, AtDocument
    <2>4. OwnIdentifiers'
      <3>1. ASSUME NEW e \in Callers, e # c, upc'[e] \in AtDocument
            PROVE  udoc'[e] # d
        <4>1. /\ upc[e] \in AtDocument /\ udoc'[e] = udoc[e]
              /\ udoc[e] \in DocIds /\ udoc[e] <= seq
          BY <1>4, <3>1, AtDocumentFacts DEF Rests
        <4> QED BY <1>0, <1>2, <4>1 DEF DocIds
      <3>2. ASSUME NEW e \in Callers, NEW g \in Callers,
                   upc'[e] \in AtDocument, upc'[g] \in AtDocument,
                   udoc'[e] = udoc'[g], e # c, g # c
            PROVE  e = g
        BY <1>4, <3>2 DEF StoresFresh, OwnIdentifiers, Rests
      <3> QED BY <2>1, <3>1, <3>2 DEF OwnIdentifiers
    <2> QED BY <2>2, <2>3, <2>4 DEF StoresFresh
  <1> QED BY <1>5, <1>6

(* A registration, or the death of one. *)
LEMMA UploadFreshStep ==
    ASSUME FreshIdentifiers, DmsTypeInv, StoresFresh, UploadNext,
           sbegun' = sbegun
    PROVE  StoresFresh' /\ Aging
  <1>1. PICK c \in Callers : \/ \E r \in Requests : UploadDocument(c, r)
                             \/ UploadStep(c)
                             \/ Crash(c)
    BY DEF UploadNext
  <1>2. upc[c] \in AtDocument \cup {"idle", "allocate"}
    BY DEF StoresFresh, CallerFresh
  <1>3. CASE \E r \in Requests : UploadDocument(c, r)
    BY <1>3, BeginFresh
  <1>4. CASE UploadStep(c)
    <2>1. \/ Allocate(c) \/ CheckExists(c) \/ Put(c) \/ Save(c)
          \/ Rollback(c)
      BY <1>2, <1>4
      DEF UploadStep, AtDocument, Claim, Select, Reclaim, Replay,
          MarkSucceeded, MarkFailed
    <2> QED BY <2>1, AllocateFresh, CheckExistsFresh, PutFresh, SaveFresh,
               RollbackFresh
  <1>5. CASE Crash(c)
    <2>1. CASE upc[c] \in AtDocument
      BY <1>5, <2>1, CrashFresh
    <2>2. CASE upc[c] = "allocate"
      <3>1. seq' = seq /\ seq \in Nat
        BY <1>5, StoreTypes DEF Crash, Die, DmsTypeInv, StoresTypeOK
      <3>2. Rests(c) /\ upc'[c] = "idle"
        BY <1>5, <2>2
        DEF Crash, Die, Rests, DmsTypeInv, TypeInv, UploadTypeOK
      <3> QED BY <3>1, <3>2, RestsKeeps
    <2> QED BY <1>2, <1>5, <2>1, <2>2 DEF Crash
  <1> QED BY <1>1, <1>3, <1>4, <1>5

-----------------------------------------------------------------------------
(* The whole deployment *)

(* The documents of the library are registered, each with its content. *)
LEMMA FreshInit == DmsInit => FreshInv
  <1> SUFFICES ASSUME DmsInit PROVE FreshInv
    OBVIOUS
  <1>1. /\ \A c \in Callers : upc[c] = "idle"
        /\ \A c \in Clients : dpc[c] = "idle" /\ dout[c] = "None"
        /\ \A c \in Operators : rpc[c] = "idle"
        /\ rlate = {} /\ reports = {}
    BY DEF DmsInit, DocInit, UploadInit, RepairInit, RecoveryTaskInit
  <1>2. seq \in Nat /\ DOMAIN Library = 1 .. seq
    BY DmsTypeInit, StoreTypes, DocumentAssumption
    DEF DmsTypeInv, StoresTypeOK, DmsInit, DocInit
  <1>3. ASSUME NEW d \in DocIds
        PROVE  meta[d] = IF d \in DOMAIN Library THEN Library[d] ELSE None
    BY DEF DmsInit, DocInit
  <1>4. ASSUME NEW k \in StorageKeys
        PROVE  objects[k] = IF k[2] \in DOMAIN Library /\
                               StorageKeyOf(k[2], Library[k[2]]) = k
                              THEN Library[k[2]].content ELSE None
    BY DEF DmsInit, DocInit
  <1>5. Unused
    BY <1>1, <1>2, <1>3, <1>4 DEF Unused, DocIds
  <1>6. ASSUME NEW d \in DocIds
        PROVE  Accord(d)
    <2>1. CASE d \in DOMAIN Library
      <3>1. meta[d] = Library[d] /\ Library[d] \in Rows
               /\ meta[d].status = "available"
        BY <1>3, <2>1, DocumentAssumption
      <3>2. StorageKeyOf(d, meta[d]) \in StorageKeys
               /\ StorageKeyOf(d, meta[d])[2] = d
        BY <3>1 DEF StorageKeyOf, StorageKeys, Rows
      <3>3. ContentOf(d) = meta[d].content
        BY <1>4, <2>1, <3>1, <3>2 DEF ContentOf
      <3> QED BY <3>1, <3>3 DEF Accord
    <2>2. CASE d \notin DOMAIN Library
      BY <1>3, <2>2 DEF Accord
    <2> QED BY <2>1, <2>2
  <1>7. ASSUME NEW k \in StorageKeys
        PROVE  NoOrphan(k)
    <2>1. CASE k[2] \in DOMAIN Library /\ StorageKeyOf(k[2], Library[k[2]]) = k
      <3>1. meta[k[2]] = Library[k[2]] /\ Library[k[2]] \in Rows
        BY <1>3, <2>1, DocumentAssumption
      <3> QED BY <2>1, <3>1, NoneAssumption DEF NoOrphan, Referenced
    <2>2. CASE ~(k[2] \in DOMAIN Library
                   /\ StorageKeyOf(k[2], Library[k[2]]) = k)
      BY <1>4, <2>2 DEF NoOrphan
    <2> QED BY <2>1, <2>2
  <1>8. (\A c \in Callers : CallerFresh(c)) /\ OwnIdentifiers
    BY <1>1 DEF CallerFresh, OwnIdentifiers, AtDocument
  <1>9. \A c \in Clients : ClientFresh(c)
    BY <1>1 DEF ClientFresh, ToldDeleted, PastDeleting, PastRemoval
  <1>a. (\A c \in Operators : OperatorFresh(c)) /\ LateFresh
    BY <1>1 DEF OperatorFresh, LateFresh, Holding, Repairing, Completing
  <1> QED BY <1>5, <1>6, <1>7, <1>8, <1>9, <1>a DEF FreshInv

(* What the processes that take no step keep. *)
LEMMA ClientsStable ==
    ASSUME DmsTypeInv, FreshInv, Aging, UNCHANGED documentVars
    PROVE  \A c \in Clients : ClientFresh(c)'
  BY ClientStable DEF FreshInv, documentVars

LEMMA OperatorsStable ==
    ASSUME DmsTypeInv, FreshInv, Aging, UNCHANGED repairVars
    PROVE  \A c \in Operators : OperatorFresh(c)'
  BY OperatorStable DEF FreshInv, repairVars

LEMMA UploadFresh ==
    ASSUME FreshIdentifiers, DmsTypeInv, FreshInv, UploadActs
    PROVE  FreshInv' /\ Aging
  <1>1. UploadNext /\ UNCHANGED <<documentVars, repairVars, resetVars, rlate>>
    BY DEF UploadActs, othersOfUpload, recoveryVars, recoveryTaskVars
  <1>2. StoresFresh' /\ Aging
    BY <1>1, UploadFreshStep DEF FreshInv, StoresFresh, resetVars
  <1>3. LateFresh'
    BY <1>1, <1>2, LateStable DEF FreshInv
  <1> QED BY <1>1, <1>2, <1>3, ClientsStable, OperatorsStable
          DEF FreshInv, StoresFresh

LEMMA DocumentFresh ==
    ASSUME DmsTypeInv, FreshInv, DocumentActs
    PROVE  FreshInv' /\ Aging
  <1>0. /\ UNCHANGED <<uploadVars, repairVars, resetVars, rlate, sbegun>>
        /\ StoresFresh
    BY DEF DocumentActs, othersOfDocument, recoveryVars, recoveryTaskVars,
           resetVars, FreshInv, StoresFresh
  <1>1. PICK c \in Clients : \/ \E r \in DocRequests : Request(c, r)
                             \/ DocStep(c) \/ DocCrash(c)
    BY DEF DocumentActs, DocNext
  <1>2. Later /\ ClientFresh(c)'
    <2>1. CASE \E r \in DocRequests : Request(c, r)
      <3>1. UNCHANGED storeVars /\ dpc'[c] = "load"
        BY <2>1 DEF Request, DmsTypeInv, ClientsTyped
      <3> QED BY <1>0, <3>1, QuietLater
              DEF storeVars, ClientFresh, ToldDeleted, PastDeleting,
                  PastRemoval
    <2>2. CASE DocStep(c) \/ DocCrash(c)
      BY <1>0, <2>2, ClientFreshStep DEF FreshInv
    <2> QED BY <1>1, <2>1, <2>2
  <1>3. StoresFresh' /\ Aging
    BY <1>0, <1>2, LaterAges, LaterKeeps
  <1>4. ASSUME NEW e \in Clients
        PROVE  ClientFresh(e)'
    BY <1>1, <1>2, <1>3, ClientAlone, ClientStable DEF FreshInv
  <1>5. LateFresh'
    BY <1>0, <1>3, LateStable DEF FreshInv
  <1> QED BY <1>0, <1>3, <1>4, <1>5, OperatorsStable
          DEF FreshInv, StoresFresh

(* A purge that is cancelled leaves its removal to a thread. *)
LEMMA RepairLate ==
    ASSUME DmsTypeInv, NEW c \in Operators, OperatorFresh(c),
           CancelRepair(c), NEW k \in rlate' \ rlate
    PROVE  /\ k \in StorageKeys
           /\ PurgesTold => Past(k[2]) /\ ~Referenced(k)
  <1>1. rpc[c] = "purge" /\ k = rreq[c].key
    BY DEF CancelRepair
  <1>2. /\ rreq[c].key \in StorageKeys /\ rreq[c].action = "purge"
        /\ rreq[c].key # None
    BY <1>1, OperatorFacts DEF InNamespace
  <1> QED BY <1>1, <1>2 DEF OperatorFresh

LEMMA RepairFresh ==
    ASSUME FreshIdentifiers, DmsTypeInv, FreshInv, RepairActs
    PROVE  FreshInv' /\ Aging
  <1>0. /\ UNCHANGED <<uploadVars, documentVars, sbegun>>
        /\ StoresFresh
    BY DEF RepairActs, othersOfRepair, othersOfRecovery, resetVars, FreshInv,
           StoresFresh
  <1>1. PICK c \in Operators :
           \/ \E r \in RepairRequests : Permitted(r) /\ Repair(c, r)
           \/ RepairStep(c) \/ AsyncRepairStep(c) \/ CancelRepair(c)
    BY DEF RepairActs
  <1>2. Later /\ OperatorFresh(c)'
    BY <1>0, <1>1, OperatorFreshStep, RepairBeginsFresh DEF FreshInv
  <1>3. StoresFresh' /\ Aging
    BY <1>0, <1>2, LaterAges, LaterKeeps
  <1>4. ASSUME NEW e \in Operators
        PROVE  OperatorFresh(e)'
    BY <1>1, <1>2, <1>3, OperatorAlone, OperatorStable DEF FreshInv
  <1>5. LateFresh'
    <2>1. UNCHANGED rlate \/ \E e \in Operators : CancelRepair(e)
      BY DEF RepairActs, recoveryTaskVars, AsyncRepairStep
    <2>2. \A k \in rlate' \ rlate :
             /\ k \in StorageKeys
             /\ PurgesTold => Past(k[2]) /\ ~Referenced(k)
      BY <2>1, RepairLate DEF FreshInv
    <2> QED BY <1>3, <2>2, LateStable DEF FreshInv
  <1> QED BY <1>0, <1>3, <1>4, <1>5, ClientsStable DEF FreshInv, StoresFresh

LEMMA ResetFresh ==
    ASSUME DmsTypeInv, FreshInv, ResetActs
    PROVE  FreshInv' /\ Aging
  <1>0. /\ UNCHANGED <<uploadVars, documentVars, repairVars>>
        /\ StoresFresh
    BY DEF ResetActs, othersOfReset, othersOfRecovery, FreshInv, StoresFresh
  <1>1. Later
    <2>1. ASSUME NEW c \in Resetters, NEW scope \in Scopes, Reset(c, scope)
          PROVE  Later
      BY <1>0, <2>1 DEF Reset, storeVars, Later
    <2>2. ASSUME NEW c \in Resetters, ResetStep(c) \/ CancelReset(c)
          PROVE  Later
      BY <1>0, <2>2, ResetLater
    <2> QED BY <2>1, <2>2
            DEF ResetActs, AsyncResetStep, ResetStep, ResetCall,
                AsyncListObjects, AsyncRemoveObject, AsyncClearMetadata,
                AsyncClearOperations
  <1>2. StoresFresh' /\ Aging
    BY <1>0, <1>1, LaterAges, LaterKeeps
  <1>3. LateFresh'
    <2>1. UNCHANGED rlate \/ \E c \in Resetters : CancelReset(c)
      BY DEF ResetActs, recoveryTaskVars, AsyncResetStep
    <2>2. ASSUME NEW c \in Resetters, CancelReset(c), NEW k \in rlate' \ rlate
          PROVE  k \in StorageKeys /\ k[1] \in sbegun
      <3>1. k \in slisted[c]
        BY <2>2 DEF CancelReset
      <3>2. ResetterLocal(c) /\ slisted[c] \subseteq StorageKeys
        BY DEF DmsTypeInv, ResettersTyped
      <3> QED BY <3>1, <3>2 DEF ResetterLocal
    <2> QED BY <1>2, <2>1, <2>2, LateStable DEF FreshInv
  <1> QED BY <1>0, <1>2, <1>3, ClientsStable, OperatorsStable
          DEF FreshInv, StoresFresh

LEMMA LateRemovalFresh ==
    ASSUME DmsTypeInv, FreshInv, LateRemovals
    PROVE  FreshInv' /\ Aging
  <1>1. PICK k \in rlate : LandRemoval(k)
    BY DEF LateRemovals
  <1>2. /\ UNCHANGED <<uploadVars, documentVars, repairVars, sbegun>>
        /\ rlate' \subseteq rlate /\ StoresFresh
    BY <1>1 DEF LateRemovals, LandRemoval, othersOfRecovery, resetVars,
       FreshInv, StoresFresh
  <1>3. StoresFresh' /\ Aging
    BY <1>1, <1>2, LateLater, LaterAges, LaterKeeps DEF FreshInv
  <1>4. LateFresh'
    BY <1>2, <1>3, LateStable DEF FreshInv
  <1> QED BY <1>2, <1>3, <1>4, ClientsStable, OperatorsStable
          DEF FreshInv, StoresFresh

LEMMA FreshStep ==
    ASSUME FreshIdentifiers, DmsTypeInv, FreshInv, [DmsNext]_dmsVars
    PROVE  FreshInv' /\ Aging
  <1>1. CASE DmsNext
    BY <1>1, UploadFresh, DocumentFresh, RepairFresh, ResetFresh,
       LateRemovalFresh DEF DmsNext
  <1>2. CASE UNCHANGED dmsVars
    <2>1. UNCHANGED <<storeVars, uploadVars, documentVars, repairVars,
                      resetVars, rlate>>
      BY <1>2 DEF dmsVars, recoveryVars, recoveryTaskVars
    <2>2. Later /\ StoresFresh
      BY <2>1, QuietLater DEF storeVars, resetVars, FreshInv, StoresFresh
    <2>3. StoresFresh' /\ Aging
      BY <2>2, LaterAges, LaterKeeps
    <2>4. LateFresh'
      BY <2>1, <2>3, LateStable DEF FreshInv
    <2> QED BY <2>1, <2>3, <2>4, ClientsStable, OperatorsStable
            DEF FreshInv, StoresFresh
  <1> QED BY <1>1, <1>2

LEMMA FreshCorrect ==
    ASSUME FreshIdentifiers PROVE DmsSpec => [](DmsTypeInv /\ FreshInv)
  <1>1. DmsTypeInv /\ FreshInv /\ [DmsNext]_dmsVars => FreshInv'
    BY FreshStep
  <1> QED BY <1>1, FreshInit, DmsTypeCorrect, PTL DEF DmsSpec

LEMMA IsolationStep ==
    ASSUME DmsTypeInv, FreshInv, DmsNext, NEW p \in Partitions
    PROVE  Serves(p) \/ Untouched(p)
  <1>q. UNCHANGED Contained => Untouched(p)
    BY DEF Contained, Untouched
  <1>1. CASE Begins
    BY <1>1, <1>q, BeginsQuiet
  <1>2. ASSUME NEW c \in Callers, UploadStep(c) \/ Crash(c)
        PROVE  Serves(p) \/ Untouched(p)
    <2>1. Within(ureq[c].part) /\ upc[c] # "idle" /\ upc'[c] # upc[c]
      BY <1>2, UploadWithin DEF DmsTypeInv
    <2> QED BY <2>1, WithinUntouched DEF Serves
  <1>3. ASSUME NEW c \in Clients, DocStep(c) \/ DocCrash(c)
        PROVE  Serves(p) \/ Untouched(p)
    <2>1. dpc[c] \notin {"idle", "load"} => OwnRow(Doc(c), dreq[c].part)
      BY DEF FreshInv, ClientFresh, CopyOf, OwnRow, DmsTypeInv, ClientLocal
    <2>2. Within(dreq[c].part) /\ dpc[c] # "idle" /\ dpc'[c] # dpc[c]
      BY <1>3, <2>1, ClientWithin
    <2> QED BY <2>2, WithinUntouched DEF Serves
  <1>4. ASSUME NEW c \in Operators,
               RepairStep(c) \/ AsyncRepairStep(c) \/ CancelRepair(c)
        PROVE  Serves(p) \/ Untouched(p)
    <2>1. rpc[c] \in Repairing => OwnRow(rdoc[c], rreq[c].part)
      BY DEF FreshInv, OperatorFresh, CopyOf, OwnRow, DmsTypeInv,
             OperatorLocal, Holding
    <2>2. /\ Within(rreq[c].part) /\ rpc[c] # "idle"
          /\ rpc'[c] # rpc[c] \/ UNCHANGED Contained
      BY <1>4, <2>1, OperatorWithin
    <2> QED BY <1>q, <2>2, WithinUntouched DEF Serves
  <1>5. ASSUME NEW c \in Resetters, ResetStep(c) \/ CancelReset(c)
        PROVE  Serves(p) \/ Untouched(p)
    <2>1. /\ p \notin sscope[c] => Untouched(p)
          /\ spc[c] # "idle"
          /\ \/ <<spc'[c], slisted'[c]>> # <<spc[c], slisted[c]>>
             \/ UNCHANGED Contained
      BY <1>5, ResetterWithin
    <2> QED BY <1>q, <2>1 DEF Serves
  <1>6. ASSUME NEW k \in rlate, LandRemoval(k)
        PROVE  Serves(p) \/ Untouched(p)
    <2>1. Within(k[1]) /\ k \in rlate \ rlate'
      BY <1>6, LateWithin
    <2> QED BY <2>1, WithinUntouched DEF Serves
  <1> QED BY <1>1, <1>2, <1>3, <1>4, <1>5, <1>6, NextCases

(***************************************************************************)
(* No call of any process changes a row, a content or an operation of a    *)
(* partition it was not made for: not a repair with the identifier or the  *)
(* storage key of another partition, not the removal a cancelled task has  *)
(* left to its thread, not a reset in the next partition.  The writes of   *)
(* rows look the partition up and then write by identifier alone; that     *)
(* stays in the partition because no identifier comes back in another one  *)
(* (FreshIdentifiers), as a host's own identifiers may.                    *)
(***************************************************************************)
THEOREM PartitionsIsolated ==
    ASSUME FreshIdentifiers
    PROVE  DmsSpec => PartitionIsolation
  <1>1. ASSUME DmsTypeInv, FreshInv, [DmsNext]_dmsVars
        PROVE  [\A p \in Partitions : Serves(p) \/ Untouched(p)]_dmsVars
    BY <1>1, IsolationStep
  <1> QED BY <1>1, FreshCorrect, PTL DEF DmsSpec, PartitionIsolation

(***************************************************************************)
(* Rows and contents stay in accord under registrations, deletions,        *)
(* repairs, resets and late removals of one document at once.  The two     *)
(* hypotheses are what the code needs of its host: without FreshIdentifiers*)
(* a copy of the last document's row writes over the next one's, and       *)
(* without PurgesTold a purge meets a registration that is not done yet.   *)
(***************************************************************************)
THEOREM ContentKept ==
    ASSUME FreshIdentifiers, PurgesTold
    PROVE  DmsSpec => []ContentUnlessReset
  <1>1. FreshInv => ContentUnlessReset
    <2> SUFFICES ASSUME FreshInv PROVE ContentUnlessReset
      OBVIOUS
    <2>1. ASSUME NEW d \in DocIds, meta[d] # None, NeverReset(meta[d].part)
          PROVE  /\ meta[d].status = "available" =>
                       \/ ContentOf(d) = meta[d].content
                       \/ Told(StorageKeyOf(d, meta[d]),
                               {"ConsistencyError", "Crashed"})
                 /\ meta[d].status = "deleted" => ContentOf(d) = None
      <3>1. Accord(d)
        BY DEF FreshInv
      <3> QED BY <2>1, <3>1 DEF Accord, Available, Said, Serious, Told
    <2>2. ASSUME NEW k \in StorageKeys, objects[k] # None, NeverReset(k[1])
          PROVE  Referenced(k) \/ InFlight(k) \/ Told(k, Alarms)
      <3>1. NoOrphan(k)
        BY DEF FreshInv
      <3> QED BY <2>2, <3>1 DEF NoOrphan, Said, Told
    <2> QED BY <2>1, <2>2 DEF ContentUnlessReset
  <1> QED BY <1>1, FreshCorrect, PTL

(***************************************************************************)
(* What a purge takes away is an orphan, three calls after it looked, and  *)
(* when a cancelled task has left the removal to its thread.  A host that  *)
(* purges keys it was not told of has no such promise (run purge_race).    *)
(***************************************************************************)
THEOREM PurgeTakesOrphans ==
    ASSUME FreshIdentifiers, PurgesTold
    PROVE  DmsSpec => PurgedIsOrphan
  <1> DEFINE Step ==
         /\ \A c \in Operators :
               rpc[c] = "purge" /\ rpc'[c] # "purge" => ~Referenced(rreq[c].key)
         /\ \A k \in rlate \ rlate' : NeverReset(k[1]) => ~Referenced(k)
  <1>1. DmsTypeInv /\ FreshInv => Step
    <2> SUFFICES ASSUME DmsTypeInv, FreshInv PROVE Step
      OBVIOUS
    <2>1. ASSUME NEW c \in Operators, rpc[c] = "purge"
          PROVE  ~Referenced(rreq[c].key)
      <3>1. OperatorFresh(c)
        BY DEF FreshInv
      <3> QED BY <2>1, <3>1 DEF OperatorFresh
    <2>2. ASSUME NEW k \in rlate, NeverReset(k[1])
          PROVE  ~Referenced(k)
      BY <2>2 DEF FreshInv, LateFresh
    <2> QED BY <2>1, <2>2
  <1>2. DmsTypeInv /\ FreshInv => [Step]_dmsVars
    BY <1>1
  <1> QED BY <1>2, FreshCorrect, PTL DEF PurgedIsOrphan

(***************************************************************************)
(* Completing a deletion never takes an available document away, whatever  *)
(* the others did since the operator read its status: no status goes back  *)
(* to available.                                                           *)
(***************************************************************************)
THEOREM CompletionSafe ==
    ASSUME FreshIdentifiers
    PROVE  DmsSpec => CompletionTakesDeleted
  <1>1. ASSUME DmsTypeInv, FreshInv, [DmsNext]_dmsVars,
               NEW c \in Operators,
               rpc[c] \in {"complete_hard", "complete_write"}
        PROVE  \/ meta'[rdoc[c]] = meta[rdoc[c]]
               \/ meta[rdoc[c]].status # "available"
    <2>1. OperatorFresh(c) /\ rpc[c] \in Holding
      BY <1>1 DEF FreshInv, Holding, Repairing, Completing
    <2>2. rdoc[c] \in DocIds /\ Past(rdoc[c]) /\ ~Available(rdoc[c])
      BY <1>1, <2>1, InspectionFacts DEF Completing
    <2>3. meta[rdoc[c]] = None => meta'[rdoc[c]] = None
      BY <1>1, <2>2, FreshStep DEF Aging
    <2> QED BY <2>2, <2>3 DEF Available
  <1>2. ASSUME DmsTypeInv, FreshInv, [DmsNext]_dmsVars
        PROVE  [\A c \in Operators :
                   rpc[c] \in {"complete_hard", "complete_write"}
                     /\ rpc'[c] # rpc[c] =>
                        meta'[rdoc[c]] = meta[rdoc[c]] \/
                        meta[rdoc[c]].status # "available"]_dmsVars
    BY <1>1, <1>2
  <1> QED BY <1>2, FreshCorrect, PTL DEF DmsSpec, CompletionTakesDeleted

(***************************************************************************)
(* A client that was told "deleted" stays right in a whole deployment:     *)
(* repairs that hold a copy of the row, previews and late removals never   *)
(* bring the document or its content back.                                 *)
(***************************************************************************)
THEOREM DeletedForEver ==
    ASSUME FreshIdentifiers
    PROVE  DmsSpec => []DeletedIsFinal
  <1>1. FreshInv => DeletedIsFinal
    <2> SUFFICES ASSUME FreshInv, NEW c \in Clients,
                        dpc[c] = "idle", dout[c] = "Deleted",
                        meta[Doc(c)] # None
                 PROVE  meta[Doc(c)].status # "available"
                          /\ ContentOf(Doc(c)) = None
      BY DEF DeletedIsFinal
    <2>1. ClientFresh(c) /\ ToldDeleted(c)
      BY DEF FreshInv, ToldDeleted
    <2>2. /\ CopyOf(Doc(c), dcopy[c]) /\ ~Available(Doc(c))
          /\ objects[CopyKey(c)] = None
      BY <2>1 DEF ClientFresh
    <2>3. ContentOf(Doc(c)) = objects[CopyKey(c)]
      BY <2>2 DEF CopyOf, ContentOf, CopyKey, StorageKeyOf
    <2> QED BY <2>2, <2>3 DEF Available
  <1> QED BY <1>1, FreshCorrect, PTL

=============================================================================
