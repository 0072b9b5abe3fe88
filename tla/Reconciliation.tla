--------------------------- MODULE Reconciliation ---------------------------
(***************************************************************************)
(* ReconciliationCoordinator (sdk/reconciliation.py): repair of documents  *)
(* whose row and content disagree, one by one, in batches of candidates or *)
(* from a plan.                                                            *)
(*                                                                         *)
(*   list              the candidates of a batch                           *)
(*   inspect_row, inspect_object, inspect_again                            *)
(*                     inspect_document, with the second row read of the   *)
(*                     facade; done before the repair and again after it   *)
(*   stat, purge       PURGE_ORPHAN_OBJECT                                 *)
(*   complete_hard     COMPLETE_DELETION_HARD                              *)
(*   complete_load, complete_write   COMPLETE_DELETION_SOFT                *)
(*   failed_load, failed_write       MARK_FAILED                           *)
(*                                                                         *)
(* A repair checks with one call and acts with a later one; nothing holds  *)
(* the document in between.                                                *)
(***************************************************************************)
EXTENDS Stores

CONSTANTS
    Operators,      \* the processes that inspect and repair
    RepairRequests, \* the requests they may issue
    MaxRepairs,     \* bound: repair requests started in a behaviour
    NestedIds       \* pairs <<d, e>> where the identifier e is d + "/" + more,
                    \* as only a host's own identifiers can be

VARIABLES
    rpc,            \* rpc[c]: the call operator c makes next, or "idle"
    rreq,           \* rreq[c]: its request
    rqueue,         \* rqueue[c]: the documents of the request still to come
    rdoc,           \* rdoc[c]: the document being repaired
    rcopy,          \* rcopy[c]: its row as last read; None if there was none
    rseen,          \* rseen[c]: its content existed when inspected
    rdone,          \* rdone[c]: the repair was made or previewed, and is
                    \* being verified
    rcalls          \* repair requests that may still be started

repairVars == <<rpc, rreq, rqueue, rdoc, rcopy, rseen, rdone, rcalls>>

-----------------------------------------------------------------------------

RecoveryAction == {"complete_soft", "complete_hard", "mark_failed", "purge"}

(***************************************************************************)
(* A request names its documents (one, or those of an executed plan), or   *)
(* the status whose documents it repairs (a batch, where docs is empty).   *)
(* key is the storage location an orphan purge is given.                   *)
(***************************************************************************)
RecoveryRequests ==
    [action : RecoveryAction, part : Partitions, docs : SUBSET DocIds,
     status : {"failed", "deleting", None}, key : StorageKeys \cup {None},
     dry : BOOLEAN]

ASSUME RepairAssumption ==
    /\ RepairRequests \subseteq RecoveryRequests
    /\ \A r \in RepairRequests : r.docs = {} <=> r.status # None
    /\ MaxRepairs \in Nat
    /\ NestedIds \subseteq DocIds \X DocIds

RepairInit ==
    /\ rpc = [c \in Operators |-> "idle"]
    /\ rreq = [c \in Operators |-> None]
    /\ rqueue = [c \in Operators |-> {}]
    /\ rdoc = [c \in Operators |-> None]
    /\ rcopy = [c \in Operators |-> None]
    /\ rseen = [c \in Operators |-> FALSE]
    /\ rdone = [c \in Operators |-> FALSE]
    /\ rcalls \in 0 .. MaxRepairs

-----------------------------------------------------------------------------
(* From document to document *)

RepairGoto(c, p) ==
    /\ rpc' = [rpc EXCEPT ![c] = p]
    /\ UNCHANGED <<rqueue, rdoc>>

(* Begin the next document of Q; the request ends when there is none. *)
NextItem(c, Q) ==
    \/ /\ Q = {}
       /\ rpc' = [rpc EXCEPT ![c] = "idle"]
       /\ rqueue' = [rqueue EXCEPT ![c] = {}]
       /\ UNCHANGED rdoc
    \/ \E d \in Q :
          /\ rpc' = [rpc EXCEPT ![c] = "inspect_row"]
          /\ rqueue' = [rqueue EXCEPT ![c] = Q \ {d}]
          /\ rdoc' = [rdoc EXCEPT ![c] = d]

(* A document is finished, or failed: an error ends it alone, it is caught *)
(* and reported, and the next document is begun.                           *)
Report(c) ==
    /\ rdone' = [rdone EXCEPT ![c] = FALSE]
    /\ NextItem(c, rqueue[c])

(* The repair is made, or only previewed: the document is inspected again. *)
Verify(c) ==
    /\ rdone' = [rdone EXCEPT ![c] = TRUE]
    /\ RepairGoto(c, "inspect_row")

Repair(c, r) ==
    /\ rpc[c] = "idle"
    /\ rcalls > 0
    /\ rcalls' = rcalls - 1
    /\ rreq' = [rreq EXCEPT ![c] = r]
    /\ IF r.docs = {}
         THEN /\ rpc' = [rpc EXCEPT ![c] = "list"]
              /\ UNCHANGED <<rqueue, rdoc>>
         ELSE NextItem(c, r.docs)
    /\ UNCHANGED <<storeVars, rcopy, rseen, rdone>>

(* One page of candidates: the documents of the status, in the partition. *)
Candidates(r) == {d \in DocIds : InPartition(d, r.part)
                                 /\ meta[d].status = r.status}

ListCandidates(c) ==
    /\ rpc[c] = "list"
    /\ \E o \in ReadReplies :
         /\ Answer(o)
         /\ NextItem(c, IF o = "ok" THEN Candidates(rreq[c]) ELSE {})
    /\ UNCHANGED <<meta, objects, ops, seq, rreq, rcopy, rseen, rdone,
                   rcalls>>

-----------------------------------------------------------------------------
(* Inspection *)

(* Mutant: any storage key is accepted. *)
InNamespace_Any(c) == rreq[c].key # None

(* The key of an orphan purge begins with the prefix of partition and id,  *)
(* as the key of an identifier nested in it does.                          *)
InNamespace(c) ==
    /\ rreq[c].key # None
    /\ rreq[c].key[1] = rreq[c].part
    /\ rreq[c].key[2] = rdoc[c] \/ <<rdoc[c], rreq[c].key[2]>> \in NestedIds

(* The call a repair begins with, once it is allowed. *)
FirstCall(action) ==
    CASE action = "purge"         -> "stat"
      [] action = "complete_hard" -> "complete_hard"
      [] action = "complete_soft" -> "complete_load"
      [] action = "mark_failed"   -> "failed_load"

InspectRow(c) ==
    /\ rpc[c] = "inspect_row"
    /\ \E o \in ReadReplies :
         /\ Answer(o)
         /\ \/ /\ o # "ok"
               /\ Report(c)
               /\ UNCHANGED rcopy
            \/ /\ o = "ok" /\ InPartition(rdoc[c], rreq[c].part)
               /\ rcopy' = [rcopy EXCEPT ![c] = meta[rdoc[c]]]
               /\ RepairGoto(c, "inspect_object")
               /\ UNCHANGED rdone
            \/ /\ o = "ok" /\ ~InPartition(rdoc[c], rreq[c].part)
               /\ rcopy' = [rcopy EXCEPT ![c] = None]
               /\ IF ~rdone[c] /\ rreq[c].action = "purge" /\ InNamespace(c)
                    THEN RepairGoto(c, FirstCall("purge")) /\ UNCHANGED rdone
                    ELSE Report(c)
    /\ UNCHANGED <<meta, objects, ops, seq, rreq, rseen, rcalls>>

InspectObject(c) ==
    /\ rpc[c] = "inspect_object"
    /\ \E o \in ReadReplies :
         /\ Answer(o)
         /\ IF o = "ok"
              THEN /\ rseen' = [rseen EXCEPT ![c] =
                        objects[StorageKeyOf(rdoc[c], rcopy[c])] # None]
                   /\ RepairGoto(c, "inspect_again")
                   /\ UNCHANGED rdone
              ELSE /\ Report(c)
                   /\ UNCHANGED rseen
    /\ UNCHANGED <<meta, objects, ops, seq, rreq, rcopy, rcalls>>

(* Mutant: the inspection is not looked at. *)
Eligible_Unchecked(c, seen) == rreq[c].action # "purge"

(* Mutant: an orphan purge does not mind a row. *)
Eligible_PurgeRow(c, seen) == rreq[c].action = "purge" /\ InNamespace(c)

(* What the inspected document allows; an orphan purge wants no row. *)
Eligible(c, seen) ==
    \/ rreq[c].action = "mark_failed" /\ ~seen
    \/ /\ rreq[c].action \in {"complete_soft", "complete_hard"}
       /\ rcopy[c].status = "deleting"
       /\ ~seen

(* The inspected document is repaired, previewed or refused; the inspection *)
(* that follows a repair ends the item.                                    *)
Decide(c, seen) ==
    IF rdone[c] \/ ~Eligible(c, seen) THEN Report(c)
    ELSE IF rreq[c].dry THEN Verify(c)
    ELSE RepairGoto(c, FirstCall(rreq[c].action)) /\ UNCHANGED rdone

(* The row is read once more for the access policy; it may be gone by now. *)
InspectAgain(c) ==
    /\ rpc[c] = "inspect_again"
    /\ \E o \in ReadReplies :
         /\ Answer(o)
         /\ IF o = "ok" /\ InPartition(rdoc[c], rreq[c].part)
              THEN Decide(c, rseen[c]) ELSE Report(c)
    /\ UNCHANGED <<meta, objects, ops, seq, rreq, rcopy, rseen, rcalls>>

-----------------------------------------------------------------------------
(* Repairs *)

StatOrphan(c) ==
    /\ rpc[c] = "stat"
    /\ \E o \in ReadReplies :
         /\ Answer(o)
         /\ IF o # "ok" \/ objects[rreq[c].key] = None THEN Report(c)
            ELSE IF rreq[c].dry THEN Verify(c)
            ELSE RepairGoto(c, "purge") /\ UNCHANGED rdone
    /\ UNCHANGED <<meta, objects, ops, seq, rreq, rcopy, rseen, rcalls>>

Purge(c) ==
    /\ rpc[c] = "purge"
    /\ \E o \in Replies :
         /\ DeleteObject(rreq[c].key, o)
         /\ IF o = "ok" THEN Verify(c) ELSE Report(c)
    /\ UNCHANGED <<meta, ops, seq, rreq, rcopy, rseen, rcalls>>

(* A write to the row of the document is done, or it failed. *)
RowWrite(c, done) == IF done THEN Verify(c) ELSE Report(c)

CompleteHard(c) ==
    /\ rpc[c] = "complete_hard"
    /\ \E o \in Replies, found \in Lookup(rdoc[c], rreq[c].part) :
         /\ HardDelete(rdoc[c], found, o)
         /\ RowWrite(c, o = "ok" /\ found)
    /\ UNCHANGED <<objects, ops, seq, rreq, rcopy, rseen, rcalls>>

(* The row is read again, and whatever it now says is what is written back. *)
Reload(c, next) ==
    /\ \E o \in ReadReplies :
         /\ Answer(o)
         /\ IF o = "ok" /\ InPartition(rdoc[c], rreq[c].part)
              THEN /\ rcopy' = [rcopy EXCEPT ![c] = meta[rdoc[c]]]
                   /\ RepairGoto(c, next)
                   /\ UNCHANGED rdone
              ELSE Report(c) /\ UNCHANGED rcopy
    /\ UNCHANGED <<meta, objects, ops, seq, rreq, rseen, rcalls>>

CompleteLoad(c) == rpc[c] = "complete_load" /\ Reload(c, "complete_write")

CompleteWrite(c) ==
    /\ rpc[c] = "complete_write"
    /\ \E o \in Replies, found \in Lookup(rdoc[c], rreq[c].part) :
         /\ UpdateMetadata(rdoc[c], DeletedRow(rcopy[c]), found, o)
         /\ RowWrite(c, Updated(rdoc[c], found, o))
    /\ UNCHANGED <<objects, ops, seq, rreq, rcopy, rseen, rcalls>>

FailedLoad(c) == rpc[c] = "failed_load" /\ Reload(c, "failed_write")

FailedWrite(c) ==
    /\ rpc[c] = "failed_write"
    /\ \E o \in Replies, found \in Lookup(rdoc[c], rreq[c].part) :
         /\ UpdateMetadata(rdoc[c], WithStatus(rcopy[c], "failed"), found, o)
         /\ RowWrite(c, Updated(rdoc[c], found, o))
    /\ UNCHANGED <<objects, ops, seq, rreq, rcopy, rseen, rcalls>>

RepairCrash(c) ==
    /\ rpc[c] # "idle"
    /\ Die
    /\ rpc' = [rpc EXCEPT ![c] = "idle"]
    /\ rqueue' = [rqueue EXCEPT ![c] = {}]
    /\ rdone' = [rdone EXCEPT ![c] = FALSE]
    /\ UNCHANGED <<rreq, rdoc, rcopy, rseen, rcalls>>

RepairStep(c) ==
    \/ ListCandidates(c) \/ InspectRow(c) \/ InspectObject(c)
    \/ InspectAgain(c) \/ StatOrphan(c) \/ Purge(c) \/ CompleteHard(c)
    \/ CompleteLoad(c) \/ CompleteWrite(c) \/ FailedLoad(c) \/ FailedWrite(c)
    \/ RepairCrash(c)
=============================================================================
