--------------------------- MODULE DocumentService ---------------------------
(***************************************************************************)
(* DocumentService (sdk/documents.py): deletion, soft and hard, and content *)
(* reads of registered documents.                                          *)
(*                                                                         *)
(*   load        metadata read of the document in the caller's partition   *)
(*   deleting    status DELETING is written                                *)
(*   remove      the content is removed                                    *)
(*   fail        status FAILED is written, after a failed removal          *)
(*   erase       the row is removed                       (hard deletion)  *)
(*   mark_load   mark_deleted() reads the row ...         (soft deletion)  *)
(*   mark_write  ... and writes it back as DELETED                         *)
(*   fetch       the content is read                                       *)
(*                                                                         *)
(* Every status write merges the copy its client read earlier into the     *)
(* row; dcopy[c] is that copy.                                             *)
(***************************************************************************)
EXTENDS Stores

CONSTANTS
    Clients,        \* threads and processes that read and delete documents
    DocRequests,    \* the requests they may issue
    MaxDocCalls,    \* bound: requests started in a behaviour
    Library         \* the documents registered beforehand, under the first
                    \* allocated identifiers

VARIABLES
    dpc,            \* dpc[c]: the store call client c makes next, or "idle"
    dreq,           \* dreq[c]: its request
    dcopy,          \* dcopy[c]: the row it has read and writes back
    dout,           \* dout[c]: its last result
    dcalls          \* requests that may still be started

documentVars == <<dpc, dreq, dcopy, dout, dcalls>>

docVars == <<storeVars, documentVars>>

DocumentRequests ==
    [op : {"soft", "hard", "content"}, doc : DocIds, part : Partitions]

ASSUME DocumentAssumption ==
    /\ DocRequests \subseteq DocumentRequests
    /\ MaxDocCalls \in Nat
    /\ DOMAIN Library \subseteq DocIds
    /\ DOMAIN Library = 1 .. Cardinality(DOMAIN Library)
    /\ \A d \in DOMAIN Library : /\ Library[d] \in Rows
                                 /\ Library[d].status = "available"

(* _PUBLIC_EXCLUDED_STATUSES: a FAILED document is public. *)
Hidden == {"deleting", "deleted"}

DocInit ==
    /\ meta = [d \in DocIds |-> IF d \in DOMAIN Library
                                  THEN Library[d] ELSE None]
    /\ objects = [k \in StorageKeys |->
                    IF k[2] \in DOMAIN Library /\
                       StorageKeyOf(k[2], Library[k[2]]) = k
                      THEN Library[k[2]].content ELSE None]
    /\ ops = [k \in OpKeys |-> None]
    /\ seq = Cardinality(DOMAIN Library)
    /\ faults = MaxFaults
    /\ dpc = [c \in Clients |-> "idle"]
    /\ dreq = [c \in Clients |-> None]
    /\ dcopy = [c \in Clients |-> None]
    /\ dout = [c \in Clients |-> "None"]
    /\ dcalls = MaxDocCalls

-----------------------------------------------------------------------------

DocGoto(c, p) ==
    /\ dpc' = [dpc EXCEPT ![c] = p]
    /\ UNCHANGED dout

DocReturn(c, res) ==
    /\ dpc' = [dpc EXCEPT ![c] = "idle"]
    /\ dout' = [dout EXCEPT ![c] = res]

Doc(c) == dreq[c].doc

CopyKey(c) == StorageKeyOf(Doc(c), dcopy[c])

Request(c, r) ==
    /\ dpc[c] = "idle"
    /\ dcalls > 0
    /\ dcalls' = dcalls - 1
    /\ dreq' = [dreq EXCEPT ![c] = r]
    /\ dcopy' = [dcopy EXCEPT ![c] = None]
    /\ dpc' = [dpc EXCEPT ![c] = "load"]
    /\ dout' = [dout EXCEPT ![c] = "None"]
    /\ UNCHANGED storeVars

(* Mutant: the content is removed before the row says so. *)
AfterLoad_RemoveFirst(c) == IF dreq[c].op = "content" THEN "fetch" ELSE "remove"

AfterLoad(c) == IF dreq[c].op = "content" THEN "fetch" ELSE "deleting"

(* get_internal_metadata; deletion takes a row of any status, even one      *)
(* already deleted, a content read refuses the hidden ones.                *)
Load(c) ==
    /\ dpc[c] = "load"
    /\ \E o \in ReadReplies :
         /\ Answer(o)
         /\ \/ /\ o # "ok"
               /\ DocReturn(c, "MetadataStoreError")
               /\ UNCHANGED dcopy
            \/ /\ o = "ok" /\ ~InPartition(Doc(c), dreq[c].part)
               /\ DocReturn(c, "DocumentNotFoundError")
               /\ UNCHANGED dcopy
            \/ /\ o = "ok" /\ InPartition(Doc(c), dreq[c].part)
               /\ dcopy' = [dcopy EXCEPT ![c] = meta[Doc(c)]]
               /\ IF dreq[c].op = "content" /\ meta[Doc(c)].status \in Hidden
                    THEN DocReturn(c, "DocumentDeletedError")
                    ELSE DocGoto(c, AfterLoad(c))
    /\ UNCHANGED <<meta, objects, ops, seq, dreq, dcalls>>

(* get_object of the key in the copy; any failure is an inconsistency. *)
Fetch(c) ==
    /\ dpc[c] = "fetch"
    /\ \E o \in ReadReplies :
         /\ Answer(o)
         /\ DocReturn(c, IF o = "ok" /\ objects[CopyKey(c)] # None
                           THEN "Content" ELSE "ConsistencyError")
    /\ UNCHANGED <<meta, objects, ops, seq, dreq, dcopy, dcalls>>

SetDeleting(c) ==
    /\ dpc[c] = "deleting"
    /\ \E o \in Replies, found \in Lookup(Doc(c), dcopy[c].part) :
         /\ UpdateMetadata(Doc(c), WithStatus(dcopy[c], "deleting"), found, o)
         /\ IF Updated(Doc(c), found, o)
              THEN /\ dcopy' = [dcopy EXCEPT ![c].status = "deleting"]
                   /\ DocGoto(c, "remove")
              ELSE /\ DocReturn(c, "MetadataStoreError")
                   /\ UNCHANGED dcopy
    /\ UNCHANGED <<objects, ops, seq, dreq, dcalls>>

AfterRemove(c) == IF dreq[c].op = "hard" THEN "erase" ELSE "mark_load"

(* Mutant: a failed removal does not stop the deletion. *)
Remove_FailureIgnored(c) ==
    /\ dpc[c] = "remove"
    /\ \E o \in Replies : DeleteObject(CopyKey(c), o)
    /\ DocGoto(c, AfterRemove(c))
    /\ UNCHANGED <<meta, ops, seq, dreq, dcopy, dcalls>>

Remove(c) ==
    /\ dpc[c] = "remove"
    /\ \E o \in Replies :
         /\ DeleteObject(CopyKey(c), o)
         /\ DocGoto(c, IF o = "ok" THEN AfterRemove(c) ELSE "fail")
    /\ UNCHANGED <<meta, ops, seq, dreq, dcopy, dcalls>>

(* set_status_best_effort: its own failure is swallowed. *)
SetFailed(c) ==
    /\ dpc[c] = "fail"
    /\ \E o \in Replies, found \in Lookup(Doc(c), dcopy[c].part) :
         UpdateMetadata(Doc(c), WithStatus(dcopy[c], "failed"), found, o)
    /\ DocReturn(c, "StorageError")
    /\ UNCHANGED <<objects, ops, seq, dreq, dcopy, dcalls>>

Erase(c) ==
    /\ dpc[c] = "erase"
    /\ \E o \in Replies, found \in Lookup(Doc(c), dreq[c].part) :
         /\ HardDelete(Doc(c), found, o)
         /\ DocReturn(c, IF o = "ok" /\ found
                           THEN "Deleted" ELSE "ConsistencyError")
    /\ UNCHANGED <<objects, ops, seq, dreq, dcopy, dcalls>>

MarkLoad(c) ==
    /\ dpc[c] = "mark_load"
    /\ \E o \in ReadReplies :
         /\ Answer(o)
         /\ IF o = "ok" /\ InPartition(Doc(c), dreq[c].part)
              THEN /\ dcopy' = [dcopy EXCEPT ![c] = meta[Doc(c)]]
                   /\ DocGoto(c, "mark_write")
              ELSE /\ DocReturn(c, "ConsistencyError")
                   /\ UNCHANGED dcopy
    /\ UNCHANGED <<meta, objects, ops, seq, dreq, dcalls>>

MarkWrite(c) ==
    /\ dpc[c] = "mark_write"
    /\ \E o \in Replies, found \in Lookup(Doc(c), dcopy[c].part) :
         /\ UpdateMetadata(Doc(c), DeletedRow(dcopy[c]), found, o)
         /\ DocReturn(c, IF Updated(Doc(c), found, o)
                           THEN "Deleted" ELSE "ConsistencyError")
    /\ UNCHANGED <<objects, ops, seq, dreq, dcopy, dcalls>>

DocCrash(c) ==
    /\ dpc[c] # "idle"
    /\ Die
    /\ DocReturn(c, "Crashed")
    /\ UNCHANGED <<dreq, dcopy, dcalls>>

DocStep(c) ==
    \/ Load(c) \/ Fetch(c) \/ SetDeleting(c) \/ Remove(c) \/ SetFailed(c)
    \/ Erase(c) \/ MarkLoad(c) \/ MarkWrite(c)

DocNext ==
    \E c \in Clients :
       \/ \E r \in DocRequests : Request(c, r)
       \/ DocStep(c)
       \/ DocCrash(c)

DocSpec == DocInit /\ [][DocNext]_docVars

-----------------------------------------------------------------------------
(* Properties *)

ContentOf(d) == objects[StorageKeyOf(d, meta[d])]

(***************************************************************************)
(* A document whose row says available has its content, whatever deletions *)
(* run, fail or die half way: DELETING is written before the removal, and  *)
(* no write of a stale copy brings the status back.                        *)
(***************************************************************************)
AvailableHasContent ==
    \A d \in DocIds :
       meta[d] # None /\ meta[d].status = "available" =>
          ContentOf(d) = meta[d].content

(***************************************************************************)
(* Deletion leaves no content behind: not under a row that says deleted,   *)
(* and not without a row after a hard deletion (a failed removal stops the *)
(* deletion before its row is finished).                                   *)
(***************************************************************************)
DeletionLeavesNothing ==
    /\ \A d \in DocIds :
          meta[d] # None /\ meta[d].status = "deleted" => ContentOf(d) = None
    /\ \A k \in StorageKeys :
          objects[k] # None => /\ meta[k[2]] # None
                               /\ StorageKeyOf(k[2], meta[k[2]]) = k

(***************************************************************************)
(* A client that was told "deleted" stays right about the content, and     *)
(* about the row not being available, whatever other clients do later with *)
(* the copies of the row they still hold.                                  *)
(***************************************************************************)
DeletedIsFinal ==
    \A c \in Clients :
       dpc[c] = "idle" /\ dout[c] = "Deleted" =>
          \/ meta[Doc(c)] = None
          \/ meta[Doc(c)].status # "available" /\ ContentOf(Doc(c)) = None

NothingFailed == faults = MaxFaults

(***************************************************************************)
(* As long as no store call fails, a content read that reports an          *)
(* inconsistency was overtaken by a deletion of that document: it never    *)
(* accuses one that is available.                                          *)
(***************************************************************************)
NoFalseInconsistency ==
    \A c \in Clients :
       /\ NothingFailed
       /\ dpc[c] = "idle" /\ dout[c] = "ConsistencyError"
       /\ dreq[c].op = "content"
       => meta[Doc(c)] = None \/ meta[Doc(c)].status # "available"

=============================================================================
