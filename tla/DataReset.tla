------------------------------ MODULE DataReset ------------------------------
(***************************************************************************)
(* _reset_data (sdk/implementation.py): the removal of everything DMS keeps *)
(* of one partition or of all, before a fresh load.                        *)
(*                                                                         *)
(*   list         the object keys under the prefix are listed              *)
(*   remove       they are removed one by one                              *)
(*   metadata     the rows are removed, in one transaction                 *)
(*   operations   the upload operations are removed, in one transaction    *)
(*                                                                         *)
(* A failing store is recorded, and the next one is cleared all the same.  *)
(***************************************************************************)
EXTENDS Stores

CONSTANTS
    Resetters,      \* the processes that reset data
    Scopes,         \* the scopes they may ask for, sets of partitions
    MaxResets       \* bound: resets started in a behaviour

VARIABLES
    spc,            \* spc[c]: the call resetter c makes next, or "idle"
    sscope,         \* sscope[c]: the partitions it clears
    slisted,        \* slisted[c]: listed keys that are still to be removed
    sfailed,        \* sfailed[c]: the stores that failed
    sout,           \* sout[c]: the result
    scalls,         \* resets that may still be started
    sbegun          \* history: the partitions a reset was begun for

resetVars == <<spc, sscope, slisted, sfailed, sout, scalls, sbegun>>

ASSUME ResetAssumption ==
    /\ Scopes \subseteq SUBSET Partitions
    /\ MaxResets \in Nat

ResetInit ==
    /\ spc = [c \in Resetters |-> "idle"]
    /\ sscope = [c \in Resetters |-> {}]
    /\ slisted = [c \in Resetters |-> {}]
    /\ sfailed = [c \in Resetters |-> {}]
    /\ sout = [c \in Resetters |-> "None"]
    /\ scalls \in 0 .. MaxResets
    /\ sbegun = {}

-----------------------------------------------------------------------------

Reset(c, scope) ==
    /\ spc[c] = "idle"
    /\ scalls > 0
    /\ scalls' = scalls - 1
    /\ spc' = [spc EXCEPT ![c] = "list"]
    /\ sscope' = [sscope EXCEPT ![c] = scope]
    /\ sbegun' = sbegun \cup scope
    /\ sfailed' = [sfailed EXCEPT ![c] = {}]
    /\ sout' = [sout EXCEPT ![c] = "None"]
    /\ UNCHANGED <<storeVars, slisted>>

(* Mutant: a failing store is not recorded. *)
Failures_Forgotten(c, store, o) == sfailed[c]

Failures(c, store, o) ==
    IF o = "ok" THEN sfailed[c] ELSE sfailed[c] \cup {store}

Note(c, store, o) == sfailed' = [sfailed EXCEPT ![c] = Failures(c, store, o)]

(* Remove the keys Q that are left, or go on to the rows. *)
RemoveNext(c, Q) ==
    /\ slisted' = [slisted EXCEPT ![c] = Q]
    /\ spc' = [spc EXCEPT ![c] = IF Q = {} THEN "metadata" ELSE "remove"]

ListObjects(c) ==
    /\ spc[c] = "list"
    /\ \E o \in ReadReplies :
         /\ Answer(o)
         /\ Note(c, "objects", o)
         /\ RemoveNext(c, IF o = "ok"
                            THEN {k \in StorageKeys :
                                    k[1] \in sscope[c] /\ objects[k] # None}
                            ELSE {})
    /\ UNCHANGED <<meta, objects, ops, seq, sscope, sout, scalls, sbegun>>

RemoveObject(c) ==
    /\ spc[c] = "remove"
    /\ \E k \in slisted[c], o \in Replies :
         /\ DeleteObject(k, o)
         /\ Note(c, "objects", o)
         /\ RemoveNext(c, slisted[c] \ {k})
    /\ UNCHANGED <<meta, ops, seq, sscope, sout, scalls, sbegun>>

KeptRow(c, row) == row.part \notin sscope[c]

WithoutRows(c) ==
    [d \in DocIds |-> IF meta[d] # None /\ KeptRow(c, meta[d])
                        THEN meta[d] ELSE None]

(* One transaction, which selects the rows of the scope and then deletes    *)
(* each by its identifier.  It is one step here: only a registration in    *)
(* the scope, between the two, could tell (its row would be kept).         *)
ClearMetadata(c) ==
    /\ spc[c] = "metadata"
    /\ \E o \in Replies :
         /\ Answer(o)
         /\ Note(c, "metadata", o)
         /\ meta' = IF Applied(o) THEN WithoutRows(c) ELSE meta
    /\ spc' = [spc EXCEPT ![c] = "operations"]
    /\ UNCHANGED <<objects, ops, seq, sscope, slisted, sout, scalls, sbegun>>

WithoutOperations(c) ==
    [k \in OpKeys |-> IF k[1] \in sscope[c] THEN None ELSE ops[k]]

ClearOperations(c) ==
    /\ spc[c] = "operations"
    /\ \E o \in Replies :
         /\ Answer(o)
         /\ Note(c, "operations", o)
         /\ ops' = IF Applied(o) THEN WithoutOperations(c) ELSE ops
    /\ spc' = [spc EXCEPT ![c] = "idle"]
    /\ sout' = [sout EXCEPT ![c] = IF sfailed'[c] = {}
                                     THEN "Ready" ELSE "DataResetError"]
    /\ UNCHANGED <<meta, objects, seq, sscope, slisted, scalls,
                   sbegun>>

ResetCrash(c) ==
    /\ spc[c] # "idle"
    /\ Die
    /\ spc' = [spc EXCEPT ![c] = "idle"]
    /\ sout' = [sout EXCEPT ![c] = "Crashed"]
    /\ slisted' = [slisted EXCEPT ![c] = {}]
    /\ UNCHANGED <<sscope, sfailed, scalls, sbegun>>

ResetCall(c) ==
    ListObjects(c) \/ RemoveObject(c) \/ ClearMetadata(c) \/ ClearOperations(c)

ResetStep(c) == ResetCall(c) \/ ResetCrash(c)

-----------------------------------------------------------------------------
(* Properties *)

InScope(c, p) == p \in sscope[c]

(***************************************************************************)
(* Ready for a load means empty: when a reset answers "ready" none of the  *)
(* rows, contents and operations of its scope is left, whatever failed on  *)
(* the way and whoever deletes or repairs documents meanwhile with copies  *)
(* of their rows (registrations in its scope aside).                       *)
(***************************************************************************)
ReadyMeansEmpty ==
    \A c \in Resetters : sout[c] = "Ready" =>
       /\ \A d \in DocIds : meta[d] = None \/ ~InScope(c, meta[d].part)
       /\ \A k \in StorageKeys : objects[k] = None \/ ~InScope(c, k[1])
       /\ \A k \in OpKeys : ops[k] = None \/ ~InScope(c, k[1])
=============================================================================
