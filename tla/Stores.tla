------------------------------- MODULE Stores -------------------------------
(***************************************************************************)
(* The three stores a DMS instance works on, and their calls:              *)
(*                                                                         *)
(*   meta     document rows         (infrastructure/metadata/sqlalchemy.py) *)
(*   objects  document contents     (infrastructure/storage/minio.py)       *)
(*   ops      upload operations     (infrastructure/metadata/operations.py) *)
(*   seq      the auto-increment document identifier sequence              *)
(*                                                                         *)
(* No transaction spans two stores.  Every call is one step of one store   *)
(* (its own transaction or HTTP request), so the calls of different        *)
(* processes interleave freely between them.  A call whose transaction     *)
(* reads before it writes, without a lock, keeps what others may do in     *)
(* between: see claim() in UploadService, and Lookup below.                *)
(*                                                                         *)
(* A call ends in one of three ways.  "ok": it takes effect and returns.   *)
(* "err": it raises and had no effect.  "lost": it took effect, but the    *)
(* reply did not arrive, so the caller sees an exception all the same (a   *)
(* COMMIT or a PUT whose connection drops).  The variable faults is the    *)
(* budget of failures left in the behaviour.                               *)
(***************************************************************************)
EXTENDS Integers, FiniteSets

CONSTANTS
    Partitions,     \* personal and group partitions (DocumentPartition)
    Filenames,      \* sanitised filenames, the last part of a storage key
    Contents,       \* contents; equal contents have equal sha256 and size
    IdemKeys,       \* (idempotency_scope, idempotency_key) pairs of the host
    MaxDoc,         \* bound: document identifiers are 1 .. MaxDoc
    MaxFaults,      \* bound: failing store calls (and crashes) in a behaviour
    LostReplies,    \* TRUE: a failing call may have taken effect
    Crashes,        \* TRUE: a process may die between two of its calls
    None            \* Python's None; no row, no object, no operation

VARIABLES meta, objects, ops, seq, faults

storeVars == <<meta, objects, ops, seq, faults>>

-----------------------------------------------------------------------------
(* Types *)

DocIds == 1 .. MaxDoc

DocumentStatus == {"uploaded", "available", "deleting", "deleted", "failed"}

UploadOperationState == {"pending", "succeeded", "failed"}

(***************************************************************************)
(* A DocumentMetadata row.  content stands for checksum and file_size; the *)
(* times are left out.  The storage key is a function of the identifier    *)
(* and the row, see StorageKeyOf.                                          *)
(***************************************************************************)
Rows == [part : Partitions, file : Filenames, content : Contents,
         status : DocumentStatus]

(* What build_upload_fingerprint digests; doc is the requested identifier. *)
Fingerprints == [part : Partitions, file : Filenames, content : Contents,
                 doc : DocIds \cup {None}]

Operations == [fp : Fingerprints, doc : DocIds, state : UploadOperationState]

(* partition prefix + document_id + "/" + filename *)
StorageKeys == Partitions \X DocIds \X Filenames

(* partition_operation_scope: an operation is unique per partition and key *)
OpKeys == Partitions \X IdemKeys

StorageKeyOf(d, row) == <<row.part, d, row.file>>

ASSUME BoundsAssumption ==
    /\ MaxDoc \in Nat
    /\ MaxFaults \in Nat
    /\ LostReplies \in BOOLEAN
    /\ Crashes \in BOOLEAN

ASSUME NoneAssumption ==
    None \notin Rows \cup Operations \cup Contents \cup DocIds \cup IdemKeys

StoresTypeOK ==
    /\ meta \in [DocIds -> Rows \cup {None}]
    /\ objects \in [StorageKeys -> Contents \cup {None}]
    /\ ops \in [OpKeys -> Operations \cup {None}]
    /\ seq \in 0 .. MaxDoc
    /\ faults \in 0 .. MaxFaults

StoresInit ==
    /\ meta = [d \in DocIds |-> None]
    /\ objects = [k \in StorageKeys |-> None]
    /\ ops = [k \in OpKeys |-> None]
    /\ seq = 0
    /\ faults = MaxFaults

-----------------------------------------------------------------------------
(* How a call ends *)

Replies == {"ok", "err", "lost"}

(* A read has no effect that a lost reply could hide. *)
ReadReplies == {"ok", "err"}

Answer(o) ==
    /\ o # "ok" => faults > 0
    /\ o = "lost" => LostReplies
    /\ faults' = IF o = "ok" THEN faults ELSE faults - 1

Applied(o) == o # "err"

(* The process dies between two calls, which no store notices. *)
Die == Crashes /\ Answer("err") /\ UNCHANGED <<meta, objects, ops, seq>>

-----------------------------------------------------------------------------
(* Metadata store.  exists looks at the identifier alone: identifiers are  *)
(* the table's primary key, across every partition.                        *)

Exists(d) == meta[d] # None

InPartition(d, p) == meta[d] # None /\ meta[d].part = p

(* Sequence values whose identifier is already a row are skipped. *)
AllocatedId(d) ==
    /\ d \in DocIds
    /\ d > seq
    /\ ~Exists(d)
    /\ \A e \in DocIds : seq < e /\ e < d => Exists(e)

(* Mutant: the sequence does not advance (an identifier computed from the  *)
(* rows, such as MAX + 1).                                                 *)
AllocateDocumentId_NoSequence(d, o) ==
    /\ AllocatedId(d)
    /\ UNCHANGED seq
    /\ Answer(o)

AllocateDocumentId(d, o) ==
    /\ AllocatedId(d)
    /\ seq' = IF Applied(o) THEN d ELSE seq
    /\ Answer(o)

(* INSERT: the primary key refuses a second row of the same identifier. *)
SaveMetadata(d, row, o) ==
    /\ meta' = IF Applied(o) /\ ~Exists(d)
                 THEN [meta EXCEPT ![d] = row] ELSE meta
    /\ Answer(o)

(***************************************************************************)
(* update_metadata and hard_delete look the row up by identifier and       *)
(* partition and then write by identifier alone, with no lock on the row.  *)
(* The step is the write; Lookup(d, p) is what the call may have found     *)
(* before it.  The caller has met the row in its partition earlier, so the *)
(* call may have found it there even if it is gone by now, or registered   *)
(* anew in another partition.                                              *)
(***************************************************************************)
Lookup(d, p) == IF InPartition(d, p) THEN {TRUE} ELSE BOOLEAN

(* merge() writes the columns in which the copy differs from the row it    *)
(* found, the partition never among them.                                  *)
Merged(d, row) == {[meta[d] EXCEPT !.status = row.status],
                   [row EXCEPT !.part = meta[d].part]}

(* Without a row, found or still there, the call raises. *)
UpdateMetadata(d, row, found, o) ==
    /\ IF Applied(o) /\ found /\ Exists(d)
         THEN \E r \in Merged(d, row) : meta' = [meta EXCEPT ![d] = r]
         ELSE UNCHANGED meta
    /\ Answer(o)

Updated(d, found, o) == o = "ok" /\ found /\ Exists(d)

(* The row set_status() writes. *)
WithStatus(row, s) == [row EXCEPT !.status = s]

(* Mutant: deleted_at is set and the status is not. *)
DeletedRow_KeepsStatus(row) == row

(* The row mark_deleted() writes, over the copy it read. *)
DeletedRow(row) == WithStatus(row, "deleted")

(* A DELETE that meets no row any more only warns: of two that found the   *)
(* row both return.                                                        *)
HardDelete(d, found, o) ==
    /\ meta' = IF Applied(o) /\ found THEN [meta EXCEPT ![d] = None] ELSE meta
    /\ Answer(o)

-----------------------------------------------------------------------------
(* Object store.  PUT overwrites, and removing a missing key succeeds. *)

PutObject(k, x, o) ==
    /\ objects' = IF Applied(o) THEN [objects EXCEPT ![k] = x] ELSE objects
    /\ Answer(o)

DeleteObject(k, o) ==
    /\ objects' = IF Applied(o) THEN [objects EXCEPT ![k] = None] ELSE objects
    /\ Answer(o)

-----------------------------------------------------------------------------
(* Upload operation store *)

(* The INSERT of claim(): the unique key refuses a second operation. *)
InsertOperation(k, fp, d, o) ==
    /\ ops' = IF Applied(o) /\ ops[k] = None
                THEN [ops EXCEPT ![k] = [fp |-> fp, doc |-> d,
                                         state |-> "pending"]]
                ELSE ops
    /\ Answer(o)

InState(k, s) == ops[k] # None /\ ops[k].state = s

(* UPDATE ... SET state WHERE state = from; says nothing of its owner. *)
MoveOperation(k, from, to, o) ==
    /\ ops' = IF Applied(o) /\ InState(k, from)
                THEN [ops EXCEPT ![k].state = to] ELSE ops
    /\ Answer(o)

MarkOperation(k, to, o) == MoveOperation(k, "pending", to, o)
=============================================================================
