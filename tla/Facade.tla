------------------------------- MODULE Facade -------------------------------
(***************************************************************************)
(* The public methods of the SDK around the services they delegate to: who *)
(* is asked, with whose access context, before what is done.               *)
(*                                                                         *)
(*   sync     DefaultDocumentManagementSDK, called from threads            *)
(*   compat   AsyncDocumentManagementSDK over it: a worker thread per call *)
(*   native   AsyncDocumentManagementSDK over AsyncDocumentManagementCore  *)
(*                                                                         *)
(* A method is a sequence of steps:                                        *)
(*   ask            the access policy of the host                          *)
(*   load, find     read the row for the policy; find accepts that there   *)
(*                  is none                                                *)
(*   serve, change  the work of a service; only change writes              *)
(*   call, bare     another public method, with the context of this call   *)
(*                  or without                                             *)
(*   set, reset     the context variable of recoveries                     *)
(*   item, review   one repair of a batch; the inspection if it failed     *)
(*   audit          the recovery audit hook                                *)
(*   open, close    the file of upload_file                                *)
(* What the services do with the stores is in the other modules.           *)
(***************************************************************************)
EXTENDS Naturals, Sequences, SequencesExt

CONSTANTS
    Tasks,       \* threads or asyncio tasks of the host
    Methods,     \* Methods[t]: the methods task t may call
    Contexts,    \* access contexts
    None,
    Items,       \* documents of a batch or of a plan
    MaxCalls, MaxTrouble, MaxCancels    \* bounds

(* The token of a context variable that is not set. *)
Unset == "unset"

ASSUME FacadeAssumption ==
    /\ None \notin Contexts \cup Tasks
    /\ Unset \notin Contexts
    /\ None \notin {Unset, "denied", "error", "cancelled", "applied"}
    /\ {Items, MaxCalls, MaxTrouble, MaxCancels} \subseteq Nat

VARIABLES
    side,        \* the kind of SDK
    ready,       \* _initialized
    holder,      \* the task that holds the initialisation lock
    inits,       \* how often the initialisation was completed
    host,        \* host[t]: how far the call of t has come
    want,        \* want[t]: the method t has called
    given,       \* given[t]: with this context
    hits,        \* hits[t]: cancellations of this call
    stack,       \* stack[t]: the methods under way, the outermost first
    raised,      \* raised[t]: the exception under way
    var,         \* var[t]: _recovery_access_context, as the code of t sees it
    file,        \* file[t]: the file of upload_file
    told,        \* told[t]: the outcome of the last call of t
    calls, trouble, cancels     \* what is left of the bounds

hostVars == <<host, want, given, hits, told, calls>>
lockVars == <<ready, holder, inits>>
workVars == <<stack, raised, var, file>>
vars == <<side, lockVars, hostVars, workVars, trouble, cancels>>

-----------------------------------------------------------------------------
(* The methods *)

ask(q) == <<"ask", q>>
call(m) == <<"call", m>>
bare(m) == <<"bare", m>>
does(kind) == <<kind, None>>

(* The repairs, by what they do; they differ in their steps. *)
Repairs == {"mark_failed", "complete_deletion", "preview"}

Batches == {"reconcile_documents", "execute_reconciliation_plan"}

Deletions == {"soft_delete_document", "hard_delete_document"}

Resets ==
    [clear_all_data |-> "data.clear_all",
     clear_partition_data |-> "data.clear_partition",
     initialize_for_data_load |-> "data.initialize_for_data_load",
     initialize_partition_for_data_load |->
        "data.initialize_partition_for_data_load"]

SyncUploads ==
    [upload_document |-> <<ask("upload"), does("change")>>,
     upload_document_stream |-> <<ask("upload"), does("change")>>,
     upload_file |-> <<ask("upload"), does("open"),
                       call("upload_document_stream"), does("close")>>,
     get_upload_operation |-> <<ask("upload.operation.get"), does("serve")>>]

SyncReads ==
    [get_internal_document_metadata |->
        <<does("serve"), ask("metadata.internal")>>,
     get_document_metadata |-> <<does("serve"), ask("metadata.get")>>,
     list_documents |-> <<ask("documents.list"), does("serve")>>]

SyncInspect == <<does("serve"), does("load"), ask("document.inspect")>>

SyncListCandidates == <<ask("recovery.list"), does("serve")>>

(* _apply, with the checks and the writes of one repair. *)
Apply(m, inspect) ==
    <<inspect>>
    \o (CASE m = "mark_failed" -> <<bare("get_internal_document_metadata"),
                                    does("change")>>
          [] m = "complete_deletion" -> <<does("change")>>
          [] m = "preview" -> <<>>)
    \o <<inspect>>

(* The coordinator inspects through the public method. *)
SyncApply(m) == Apply(m, bare("inspect_document"))

SyncReconcile(m) ==
    <<does("find"), ask("recovery.execute"), does("set")>> \o SyncApply(m)
    \o <<does("audit"), does("reset")>>

Repeat(steps, n) ==
    [i \in 1 .. n * Len(steps) |-> steps[((i - 1) % Len(steps)) + 1]]

EachItem == Repeat(<<<<"item", "mark_failed">>, does("review")>>, Items)

SyncBatch ==
    <<ask("recovery.execute"), call("list_recovery_candidates"), does("set")>>
    \o EachItem \o <<does("reset")>>

SyncPlan ==
    Repeat(<<does("find"), ask("recovery.execute")>>, Items)
    \o <<does("set")>> \o EachItem \o <<does("reset")>>

SyncContent ==
    [get_document_content |->
        <<does("load"), ask("content.get"), does("serve")>>,
     get_document_content_stream |->
        <<does("load"), ask("content.stream"), does("serve")>>,
     copy_document_to |->
        <<does("load"), ask("content.copy"),
          call("get_document_content_stream"), does("serve")>>]

(* Mutant: the policy is asked once the document is deleted. *)
SyncDelete_AskLast(m) ==
    <<does("load"), does("change"), ask("document.delete")>>

SyncDelete(m) ==
    <<does("load"),
      ask(IF m = "hard_delete_document" THEN "document.hard_delete"
                                        ELSE "document.delete"),
      does("change")>>

SyncReset(m) == <<ask(Resets[m]), does("change")>>

(* The core of the native side asks the same, in the same order ... *)
NativeUploads == SyncUploads
NativeReads == SyncReads
NativeInspect == SyncInspect
NativeListCandidates == SyncListCandidates
NativeBatch == SyncBatch
NativePlan == SyncPlan
NativeContent == SyncContent
NativeDelete(m) == SyncDelete(m)
NativeReset(m) == SyncReset(m)

(* ... but its coordinator inspects past the public method and its policy. *)
NativeApply(m) == Apply(m, does("serve"))

NativeReconcile(m) ==
    <<does("find"), ask("recovery.execute"), does("set")>> \o NativeApply(m)
    \o <<does("audit"), does("reset")>>

SyncProgram(m) ==
    CASE m \in DOMAIN SyncUploads -> SyncUploads[m]
      [] m \in DOMAIN SyncReads -> SyncReads[m]
      [] m \in DOMAIN SyncContent -> SyncContent[m]
      [] m = "inspect_document" -> SyncInspect
      [] m = "list_recovery_candidates" -> SyncListCandidates
      [] m \in Repairs -> SyncReconcile(m)
      [] m = "reconcile_documents" -> SyncBatch
      [] m = "execute_reconciliation_plan" -> SyncPlan
      [] m \in Deletions -> SyncDelete(m)
      [] m \in DOMAIN Resets -> SyncReset(m)

NativeProgram(m) ==
    CASE m \in DOMAIN NativeUploads -> NativeUploads[m]
      [] m \in DOMAIN NativeReads -> NativeReads[m]
      [] m \in DOMAIN NativeContent -> NativeContent[m]
      [] m = "inspect_document" -> NativeInspect
      [] m = "list_recovery_candidates" -> NativeListCandidates
      [] m \in Repairs -> NativeReconcile(m)
      [] m = "reconcile_documents" -> NativeBatch
      [] m = "execute_reconciliation_plan" -> NativePlan
      [] m \in Deletions -> NativeDelete(m)
      [] m \in DOMAIN Resets -> NativeReset(m)

(* The methods the asynchronous facade passes on to the SDK behind it. *)
DelegatedDocuments ==
    DOMAIN SyncUploads \cup DOMAIN SyncReads \cup {"get_document_content"}

DelegatedRecovery ==
    {"inspect_document", "list_recovery_candidates"} \cup Repairs \cup Batches

DelegatedContent ==
    {"get_document_content_stream", "copy_document_to"} \cup Deletions
    \cup DOMAIN Resets

AllMethods == DelegatedDocuments \cup DelegatedRecovery \cup DelegatedContent

(* Written as constants, which are computed once. *)
SyncPrograms == [m \in AllMethods |-> SyncProgram(m)]
NativePrograms == [m \in AllMethods |-> NativeProgram(m)]

ASSUME MethodsAssumption == \A t \in Tasks : Methods[t] \subseteq AllMethods

Program(m) == IF side = "native" THEN NativePrograms[m] ELSE SyncPrograms[m]

-----------------------------------------------------------------------------
(* Frames *)

Frame(m, c) ==
    [method |-> m, pc |-> 1, context |-> c, token |-> Unset,
     changed |-> FALSE, audit |-> None]

Top(t) == Last(stack[t])

StepOf(f) == Program(f.method)[f.pc]

Running(t) == stack[t] # <<>> /\ raised[t] = None

AtEnd(t) == Top(t).pc > Len(Program(Top(t).method))

At(t, kinds) == Running(t) /\ ~AtEnd(t) /\ StepOf(Top(t))[1] \in kinds

Replace(t, f) == stack' = [stack EXCEPT ![t] = Append(Front(@), f)]

Raise(t, e) == raised' = [raised EXCEPT ![t] = e]

Advance(f) == [f EXCEPT !.pc = @ + 1]

(* A failure, or a policy that does not agree, is counted. *)
Trouble(costs) ==
    /\ costs => trouble > 0
    /\ trouble' = IF costs THEN trouble - 1 ELSE trouble

(* access_context or _recovery_access_context.get() *)
Effective(t, c) == IF c # None THEN c ELSE var[t]

(* These take the effective context when they are entered. *)
Capturing == {"inspect_document", "execute_reconciliation_plan"} \cup Repairs

Entered(t, m, c) ==
    Frame(m, IF m \in Capturing THEN Effective(t, c) ELSE c)

-----------------------------------------------------------------------------
(* Steps of a method *)

(* A policy that raises, or answers what cannot be awaited, refuses. *)
Allows(reply) == reply = "yes"

Ask(t) ==
    /\ At(t, {"ask"})
    /\ \E reply \in {"yes", "no", "broken"} :
         /\ Trouble(reply # "yes")
         /\ Replace(t, IF Allows(reply) THEN Advance(Top(t)) ELSE Top(t))
         /\ Raise(t, IF Allows(reply) THEN None ELSE "denied")
    /\ UNCHANGED <<side, lockVars, hostVars, var, file, cancels>>

(* A call of a service; one that changes may have done so although it fails. *)
Work(t) ==
    /\ At(t, {"load", "find", "serve", "change"})
    /\ LET writes == StepOf(Top(t))[1] = "change"
       IN  \/ /\ Replace(t, [Advance(Top(t)) EXCEPT !.changed = @ \/ writes])
              /\ UNCHANGED <<raised, trouble>>
           \/ \E done \in {FALSE, writes} :
                 /\ Trouble(TRUE)
                 /\ Replace(t, [Top(t) EXCEPT !.changed = @ \/ done])
                 /\ Raise(t, "error")
    /\ UNCHANGED <<side, lockVars, hostVars, var, file, cancels>>

(* The native coordinator reviews a failed item itself; if that fails too, *)
(* the item has no inspection.                                             *)
Review(t) ==
    /\ At(t, {"review"})
    /\ side = "native"
    /\ \E fails \in BOOLEAN : Trouble(fails)
    /\ Replace(t, Advance(Top(t)))
    /\ UNCHANGED <<side, lockVars, hostVars, raised, var, file, cancels>>

Enter(t) ==
    /\ \/ At(t, {"call", "bare", "item"})
       \/ At(t, {"review"}) /\ side # "native"
    /\ LET s == StepOf(Top(t))
           m == IF s[1] = "review" THEN "inspect_document" ELSE s[2]
           c == IF s[1] = "call" THEN Top(t).context ELSE None
       IN  stack' = [stack EXCEPT ![t] = Append(@, Entered(t, m, c))]
    /\ UNCHANGED <<side, lockVars, hostVars, raised, var, file, trouble,
                   cancels>>

(* Mutant: the context is kept in the SDK object. *)
SetVariable_Shared(t) ==
    /\ At(t, {"set"})
    /\ Replace(t, [Advance(Top(t)) EXCEPT !.token = var[t]])
    /\ var' = [u \in Tasks |-> Effective(t, Top(t).context)]
    /\ UNCHANGED <<side, lockVars, hostVars, raised, file, trouble, cancels>>

SetVariable(t) ==
    /\ At(t, {"set"})
    /\ Replace(t, [Advance(Top(t)) EXCEPT !.token = var[t]])
    /\ var' = [var EXCEPT ![t] = Effective(t, Top(t).context)]
    /\ UNCHANGED <<side, lockVars, hostVars, raised, file, trouble, cancels>>

ResetVariable(t) ==
    /\ At(t, {"reset"})
    /\ Replace(t, [Advance(Top(t)) EXCEPT !.token = Unset])
    /\ var' = [var EXCEPT ![t] = Top(t).token]
    /\ UNCHANGED <<side, lockVars, hostVars, raised, file, trouble, cancels>>

(* Mutant: the event does not tell a preview. *)
AuditEvent_NoPreview(m) == "applied"

AuditEvent(m) == IF m = "preview" THEN "previewed" ELSE "applied"

(* A hook that raises is logged. *)
Audit(t) ==
    /\ At(t, {"audit"})
    /\ Replace(t, [Advance(Top(t)) EXCEPT !.audit = AuditEvent(Top(t).method)])
    /\ UNCHANGED <<side, lockVars, hostVars, raised, var, file, trouble,
                   cancels>>

OpenFile(t) ==
    /\ At(t, {"open"})
    /\ \/ /\ file' = [file EXCEPT ![t] = "open"]
          /\ Replace(t, Advance(Top(t)))
          /\ UNCHANGED <<raised, trouble>>
       \/ /\ Trouble(TRUE)
          /\ Raise(t, "error")
          /\ UNCHANGED <<file, stack>>
    /\ UNCHANGED <<side, lockVars, hostVars, var, cancels>>

CloseFile(t) ==
    /\ At(t, {"close"})
    /\ file' = [file EXCEPT ![t] = None]
    /\ Replace(t, Advance(Top(t)))
    /\ UNCHANGED <<side, lockVars, hostVars, raised, var, trouble, cancels>>

-----------------------------------------------------------------------------
(* Results and exceptions *)

Outcome(result, changed) == [result |-> result, changed |-> changed]

(* The outermost method has ended.  A host that waits is told; one that    *)
(* has cancelled the call meanwhile is told that, and one that has         *)
(* abandoned it nothing.  A worker thread has its own context variables.   *)
Finish(t, result, changed) ==
    /\ stack' = [stack EXCEPT ![t] = <<>>]
    /\ told' = IF host[t] = "idle" THEN told
               ELSE [told EXCEPT ![t] = Outcome(
                       IF host[t] = "draining" THEN "cancelled" ELSE result,
                       changed)]
    /\ host' = [host EXCEPT ![t] = "idle"]
    /\ want' = [want EXCEPT ![t] = None]
    /\ given' = [given EXCEPT ![t] = None]
    /\ hits' = [hits EXCEPT ![t] = 0]
    /\ raised' = [raised EXCEPT ![t] = None]

(* The caller of the top frame, with what was changed on its behalf. *)
Parent(t) ==
    [stack[t][Len(stack[t]) - 1] EXCEPT !.changed = @ \/ Top(t).changed]

BackTo(t, f) ==
    stack' = [stack EXCEPT ![t] = Append(Front(Front(@)), f)]

(* A repair that succeeded needs no review. *)
After(f) ==
    IF StepOf(f)[1] = "item" THEN Advance(Advance(f)) ELSE Advance(f)

Return(t) ==
    /\ Running(t)
    /\ AtEnd(t)
    /\ IF Len(stack[t]) = 1
         THEN /\ Finish(t, "ok", Top(t).changed)
              /\ var' = IF side = "compat" THEN [var EXCEPT ![t] = None]
                                           ELSE var
         ELSE /\ BackTo(t, After(Parent(t)))
              /\ UNCHANGED <<hostVars, raised, var>>
    /\ UNCHANGED <<side, lockVars, calls, file, trouble, cancels>>

(* finally: _recovery_access_context.reset(token) *)
Restored(t) == IF Top(t).token # Unset THEN Top(t).token ELSE var[t]

(* Mutant: the inspection of a failed item is not guarded. *)
Caught_ItemOnly(f, e) == StepOf(f)[1] = "item" /\ e # "cancelled"

(* except Exception: in _reconcile_item, which lets a cancellation pass. *)
Caught(f, e) == StepOf(f)[1] \in {"item", "review"} /\ e # "cancelled"

Unwind(t) ==
    /\ stack[t] # <<>>
    /\ raised[t] # None
    /\ var' = [var EXCEPT ![t] = IF side = "compat" /\ Len(stack[t]) = 1
                                   THEN None ELSE Restored(t)]
    /\ file' = IF Top(t).method = "upload_file" /\ file[t] = "open"
                 THEN [file EXCEPT ![t] = None] ELSE file
    /\ IF Len(stack[t]) = 1
         THEN Finish(t, raised[t], Top(t).changed)
         ELSE /\ IF Caught(Parent(t), raised[t])
                   THEN BackTo(t, Advance(Parent(t))) /\ Raise(t, None)
                   ELSE BackTo(t, Parent(t)) /\ UNCHANGED raised
              /\ UNCHANGED hostVars
    /\ UNCHANGED <<side, lockVars, calls, trouble, cancels>>

-----------------------------------------------------------------------------
(* Calls, initialisation and cancellation *)

Call(t, m, c) ==
    /\ host[t] = "idle"
    /\ stack[t] = <<>>
    /\ calls > 0
    /\ calls' = calls - 1
    /\ host' = [host EXCEPT ![t] = "starting"]
    /\ want' = [want EXCEPT ![t] = m]
    /\ given' = [given EXCEPT ![t] = c]
    /\ hits' = [hits EXCEPT ![t] = 0]
    /\ told' = [told EXCEPT ![t] = Outcome(None, FALSE)]
    /\ UNCHANGED <<side, lockVars, workVars, trouble, cancels>>

(* Mutant: who gets the lock does not look again. *)
Recheck_Missing(t) == host[t] = "starting" /\ ready

(* _initialized, before the lock and again under it. *)
Recheck(t) == host[t] \in {"starting", "locked"} /\ ready

(* _call *)
Dispatch(t) ==
    /\ Recheck(t)
    /\ host' = [host EXCEPT ![t] = "called"]
    /\ holder' = IF holder = t THEN None ELSE holder
    /\ stack' = [stack EXCEPT ![t] = <<Entered(t, want[t], given[t])>>]
    /\ UNCHANGED <<side, ready, inits, want, given, hits, told, calls, raised,
                   var, file, trouble, cancels>>

(* async with self._initialize_lock: a task queues and is given the lock. *)
Queue(t) ==
    /\ host[t] = "starting"
    /\ ~ready
    /\ host' = [host EXCEPT ![t] = "queued"]
    /\ UNCHANGED <<side, lockVars, want, given, hits, told, calls, workVars,
                   trouble, cancels>>

Lock(t) ==
    /\ host[t] = "queued"
    /\ holder = None
    /\ holder' = t
    /\ host' = [host EXCEPT ![t] = "locked"]
    /\ UNCHANGED <<side, ready, inits, want, given, hits, told, calls,
                   workVars, trouble, cancels>>

(* The call ends before it has begun. *)
GiveUp(t, result) ==
    /\ holder' = IF holder = t THEN None ELSE holder
    /\ host' = [host EXCEPT ![t] = "idle"]
    /\ told' = [told EXCEPT ![t] = Outcome(result, FALSE)]

(* Only a callback that has succeeded sets the flag. *)
Initialized(succeeds) == succeeds

(* Mutant: the lock is kept when the callback fails. *)
Initialize_KeepsLock(t) ==
    /\ host[t] = "locked"
    /\ ~Recheck(t)
    /\ \E succeeds \in BOOLEAN :
         /\ Trouble(~succeeds)
         /\ inits' = IF succeeds THEN inits + 1 ELSE inits
         /\ ready' = succeeds
         /\ host' = [host EXCEPT ![t] = IF succeeds THEN "starting"
                                                    ELSE "idle"]
         /\ holder' = IF succeeds THEN None ELSE t
         /\ UNCHANGED told
    /\ UNCHANGED <<side, want, given, hits, calls, workVars, cancels>>

(* The callback of the host's initialisation, under the lock. *)
Initialize(t) ==
    /\ host[t] = "locked"
    /\ ~Recheck(t)
    /\ \E succeeds \in BOOLEAN :
         /\ Trouble(~succeeds)
         /\ inits' = IF succeeds THEN inits + 1 ELSE inits
         /\ ready' = Initialized(succeeds)
         /\ IF succeeds
              THEN /\ host' = [host EXCEPT ![t] = "starting"]
                   /\ holder' = None
                   /\ UNCHANGED told
              ELSE GiveUp(t, "error")
    /\ UNCHANGED <<side, want, given, hits, calls, workVars, cancels>>

Hit(t) ==
    /\ cancels > 0
    /\ cancels' = cancels - 1
    /\ hits' = [hits EXCEPT ![t] = @ + 1]

(* Cancelled while it waits for the lock or for the callback. *)
CancelStart(t) ==
    /\ side # "sync"
    /\ host[t] \in {"queued", "locked"}
    /\ Hit(t)
    /\ GiveUp(t, "cancelled")
    /\ UNCHANGED <<side, ready, inits, want, given, calls, workVars, trouble>>

(* What a native method awaits.  The work is done or not, and a file that  *)
(* a thread opens for a cancelled task is closed by nobody.                *)
CancelNative(t) ==
    /\ side = "native"
    /\ At(t, {"ask", "load", "find", "serve", "change", "review", "audit",
              "open", "close"})
    /\ Hit(t)
    /\ LET kind == StepOf(Top(t))[1]
       IN  /\ \E done \in {FALSE, kind = "change"} :
                 Replace(t, [Top(t) EXCEPT !.changed = @ \/ done])
           /\ file' = IF kind = "open" THEN [file EXCEPT ![t] = "lost"]
                                       ELSE file
    /\ Raise(t, "cancelled")
    /\ UNCHANGED <<side, lockVars, host, want, given, told, calls, var,
                   trouble>>

(* Mutant: the call is not shielded. *)
Shielded_Not(t) == FALSE

(* The first cancellation waits for the worker, the next abandons it. *)
Shielded(t) == host[t] = "called"

(* _run_blocking *)
CancelCompat(t) ==
    /\ side = "compat"
    /\ host[t] \in {"called", "draining"}
    /\ stack[t] # <<>>
    /\ Hit(t)
    /\ IF Shielded(t)
         THEN /\ host' = [host EXCEPT ![t] = "draining"]
              /\ UNCHANGED told
         ELSE /\ host' = [host EXCEPT ![t] = "idle"]
              /\ told' = [told EXCEPT ![t] =
                            Outcome("cancelled", stack[t][1].changed)]
    /\ UNCHANGED <<side, lockVars, want, given, calls, workVars, trouble>>

-----------------------------------------------------------------------------

Init ==
    /\ side \in {"sync", "compat", "native"}
    /\ ready = (side = "sync")
    /\ holder = None
    /\ inits = 0
    /\ host = [t \in Tasks |-> "idle"]
    /\ want = [t \in Tasks |-> None]
    /\ given = [t \in Tasks |-> None]
    /\ hits = [t \in Tasks |-> 0]
    /\ stack = [t \in Tasks |-> <<>>]
    /\ raised = [t \in Tasks |-> None]
    /\ var = [t \in Tasks |-> None]
    /\ file = [t \in Tasks |-> None]
    /\ told = [t \in Tasks |-> Outcome(None, FALSE)]
    /\ calls = MaxCalls
    /\ trouble = MaxTrouble
    /\ cancels = MaxCancels

TaskStep(t) ==
    \/ Dispatch(t) \/ Queue(t) \/ Lock(t) \/ Initialize(t)
    \/ Ask(t) \/ Work(t) \/ Review(t) \/ Enter(t) \/ Audit(t)
    \/ SetVariable(t) \/ ResetVariable(t) \/ OpenFile(t) \/ CloseFile(t)
    \/ Return(t) \/ Unwind(t)

Cancel(t) == CancelStart(t) \/ CancelNative(t) \/ CancelCompat(t)

Next ==
    \E t \in Tasks :
       \/ \E m \in Methods[t], c \in Contexts \cup {None} : Call(t, m, c)
       \/ TaskStep(t)
       \/ Cancel(t)

Spec == Init /\ [][Next]_vars

(* Threads and tasks go on; nobody has to call or to cancel. *)
FairSpec == Spec /\ \A t \in Tasks : WF_vars(TaskStep(t))

-----------------------------------------------------------------------------
(* Properties *)

(***************************************************************************)
(* The policy is always asked with the context the host gave with its      *)
(* call, however deep in a recovery the question arises, and whatever      *)
(* other tasks, earlier calls, failures and cancellations have left behind *)
(* (SRS-INT-003: no current context in the shared SDK).                    *)
(***************************************************************************)
AskedWithOwnContext ==
    \A t \in Tasks :
       At(t, {"ask"}) => Effective(t, Top(t).context) = given[t]

(***************************************************************************)
(* A batch or plan that has begun goes on to its last document: neither a  *)
(* failed or refused repair nor a failed inspection after it ends it       *)
(* (SRS-REC-008); only a cancellation does.                                *)
(***************************************************************************)
BatchGoesOn ==
    \A t \in Tasks :
       stack[t] # <<>> /\ raised[t] \in {"error", "denied"} =>
          Top(t).method \notin Batches \/ Top(t).token = Unset

(***************************************************************************)
(* The audit claims a repair only if one was made: not for a preview, and  *)
(* not for a repair that stopped before its write.                         *)
(***************************************************************************)
AuditTellsApplied ==
    \A t \in Tasks : \A i \in DOMAIN stack[t] :
       stack[t][i].audit = "applied" => stack[t][i].changed

(***************************************************************************)
(* Lazy initialisation is completed once, however many calls, failures and *)
(* cancellations compete for it, and no method is entered before.          *)
(***************************************************************************)
InitOnce ==
    /\ inits <= 1
    /\ \A t \in Tasks : stack[t] # <<>> => side = "sync" \/ inits > 0

(***************************************************************************)
(* A cancelled call of the sync-backed facade is over before its host is   *)
(* told: a single cancellation leaves no worker behind that still writes   *)
(* (SRS-ASY-004; a second one does).                                       *)
(***************************************************************************)
CancelWaits ==
    \A t \in Tasks : host[t] = "idle" /\ stack[t] # <<>> => hits[t] > 1

(***************************************************************************)
(* Every call ends: nobody waits for ever for a lock, also not one whose   *)
(* holder failed or was cancelled.                                         *)
(***************************************************************************)
CallEnds == \A t \in Tasks : host[t] # "idle" ~> host[t] = "idle"

(***************************************************************************)
(* A refused call has changed nothing (SRS-ACC-005), whichever method is   *)
(* refused at whichever of its questions.  One kind of call is excepted: a *)
(* repair of the synchronous SDK inspects the document again through the   *)
(* public method, and its policy may refuse what is already repaired.      *)
(***************************************************************************)
RefusalComesFirst ==
    \A t \in Tasks :
       Len(stack[t]) = 1 /\ raised[t] = "denied" /\ Top(t).changed =>
          side # "native" /\ Top(t).method \in Repairs
=============================================================================
