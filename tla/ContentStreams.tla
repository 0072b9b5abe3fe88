---------------------------- MODULE ContentStreams ----------------------------
(***************************************************************************)
(* One content stream from its opening to its release: opened by the       *)
(* synchronous SDK ("sync"), by the awaitable SDK over the synchronous one *)
(* ("compat", get_document_content_async_stream) or by the native one      *)
(* ("native"), and consumed through its closing iterator ("iterate"), by   *)
(* iter_document_chunks ("chunks") or by copy_document_to ("copy").        *)
(*                                                                         *)
(* On the asynchronous paths every call of the MinIO client is a worker    *)
(* thread's: a cancelled task stops waiting, the thread does not stop.  A  *)
(* second task of the host may close the stream while the first reads it.  *)
(***************************************************************************)
EXTENDS Integers, Sequences

CONSTANTS
    Chunks,       \* length of the stored content, in chunks
    MaxFaults,    \* bound: client calls that fail, chunks lost or damaged
    MaxCancels    \* bound: cancellations

ASSUME StreamsAssumption ==
    /\ Chunks \in Nat
    /\ MaxFaults \in Nat
    /\ MaxCancels \in Nat

VARIABLES
    plan,      \* how the stream is opened and consumed
    opener,    \* how far the opening came
    resp,      \* the client's response: opened, close() and release_conn() calls
    src,       \* the synchronous DocumentContentStream: _closed, its callback
    aclosed,   \* _closed of the asynchronous stream
    task,      \* the reading task and the one that only closes
    closeOf,   \* what each close under way is doing
    data,      \* what reached the sink: chunks, and whether they are intact
    budget     \* faults and cancellations left

vars == <<plan, opener, resp, src, aclosed, task, closeOf, data, budget>>

-----------------------------------------------------------------------------
Tasks == {"reader", "closer"}
Async == plan.path # "sync"

(* The awaitable SDK over the synchronous one copies by the synchronous    *)
(* copy, whole in one thread: that is a plan of the synchronous path.      *)
Plan == {p \in [path: {"sync", "compat", "native"},
                use: {"iterate", "chunks", "copy"},
                sized: BOOLEAN, verify: BOOLEAN] :
            p.path = "compat" => p.use # "copy"}

Failure == {"none", "openError", "readError", "writeError", "stopped",
            "cancelled", "closeError", "mismatch"}

Fault == /\ budget.faults > 0
         /\ budget' = [budget EXCEPT !.faults = @ - 1]

Cancellation == /\ Async
                /\ budget.cancels > 0
                /\ budget' = [budget EXCEPT !.cancels = @ - 1]

NoFault == UNCHANGED budget

(* The flag a further close looks at. *)
Closed == IF Async THEN aclosed ELSE src.closed

-----------------------------------------------------------------------------
(* Closing, as the consumers do it: one TRUE or FALSE for each close still *)
(* to come, TRUE when an error of that close gives way to an earlier one.  *)

(* iter_chunks_closing; iter_document_chunks and copy_document_to around   *)
(* iter_chunks                                                             *)
SyncClosings == IF plan.use = "chunks" THEN <<FALSE>> ELSE <<TRUE>>

(* aiter_chunks_closing closes, and the caller around it closes again.  An *)
(* exception in the caller's loop body leaves the inner iterator suspended.*)
AsyncClosings(inner) ==
    LET outer == CASE plan.use = "iterate" -> <<>>
                   [] plan.use = "chunks"  -> <<FALSE>>
                   [] plan.use = "copy"    -> <<TRUE>>
    IN  IF inner \/ plan.use = "iterate" THEN <<TRUE>> \o outer ELSE outer

Closings(inner) == IF Async THEN AsyncClosings(inner) ELSE SyncClosings

(* Mutant: the size is not compared. *)
CopyChecked_NoSize(failure) ==
    IF plan.use # "copy" \/ failure # "none" THEN failure
    ELSE IF plan.verify /\ ~data.intact THEN "mismatch" ELSE "none"

(* copy_document_to compares what it copied with the stored size and the   *)
(* checksum, once the stream is closed.                                    *)
CopyChecked(failure) ==
    IF plan.use # "copy" \/ failure # "none" THEN failure
    ELSE IF data.written # Chunks \/ (plan.verify /\ ~data.intact) THEN "mismatch"
    ELSE "none"

(* The task goes on: to its next close, or out of the call. *)
Proceed(t, failure, left, closed) ==
    LET closing == left # <<>> /\ ~closed
    IN  /\ task' = [task EXCEPT ![t] =
              [pc |-> IF closing THEN "closing" ELSE "over",
               left |-> IF closing THEN left ELSE <<>>,
               failure |-> IF closing \/ t = "closer" THEN failure
                           ELSE CopyChecked(failure)]]
        /\ closeOf' = IF closing THEN [closeOf EXCEPT ![t][Len(left)] = "close"]
                                 ELSE closeOf

(* Mutant: the error of the close is the one raised. *)
AfterClose_LastError(t, error, closed) ==
    Proceed(t, IF error = "none" THEN task[t].failure ELSE error,
            Tail(task[t].left), closed)

(* A close ended with "none", "closeError" or "cancelled". *)
AfterClose(t, error, closed) ==
    LET kept == task[t].failure
        failure == CASE error = "none" -> kept
                     [] error = "cancelled" -> "cancelled"
                     [] error = "closeError" ->
                          IF Head(task[t].left) /\ kept # "none" THEN kept ELSE error
    IN  Proceed(t, failure, Tail(task[t].left), closed)

-----------------------------------------------------------------------------
(* Opening *)

StatObject ==
    /\ opener = "stat"
    /\ \/ NoFault /\ opener' = "get"
       \/ Fault /\ opener' = "failed"
    /\ UNCHANGED <<plan, resp, src, aclosed, task, closeOf, data>>

(* Without a size the stream is refused: the native store closes the       *)
(* response first, the synchronous one leaves it open.                     *)
GetObjectStream ==
    /\ opener = "get"
    /\ \/ /\ NoFault
          /\ resp' = [resp EXCEPT !.opened = TRUE]
          /\ opener' = IF plan.sized THEN "open"
                       ELSE IF plan.path = "native" THEN "unsized" ELSE "failed"
       \/ Fault /\ opener' = "failed" /\ UNCHANGED resp
    /\ UNCHANGED <<plan, src, aclosed, task, closeOf, data>>

CloseUnsized ==
    /\ opener \in {"unsized", "unsizedRelease"}
    /\ \/ /\ NoFault
          /\ IF opener = "unsized"
             THEN opener' = "unsizedRelease" /\ resp' = [resp EXCEPT !.closes = @ + 1]
             ELSE opener' = "failed" /\ resp' = [resp EXCEPT !.releases = @ + 1]
       \/ Fault /\ opener' = "failed" /\ UNCHANGED resp
    /\ UNCHANGED <<plan, src, aclosed, task, closeOf, data>>

Opened ==
    /\ task["reader"].pc = "opening"
    /\ opener \in {"open", "failed"}
    /\ task' = [task EXCEPT !["reader"] =
                  IF opener = "open" THEN [@ EXCEPT !.pc = "reading"]
                  ELSE [@ EXCEPT !.pc = "over", !.failure = "openError"]]
    /\ opener' = IF opener = "open" THEN "handed" ELSE opener
    /\ UNCHANGED <<plan, resp, src, aclosed, closeOf, data, budget>>

(* Native: the task stops waiting for the call that is under way; that     *)
(* call is the last one.                                                   *)
CancelOpen ==
    /\ plan.path = "native"
    /\ task["reader"].pc = "opening"
    /\ Cancellation
    /\ task' = [task EXCEPT !["reader"] = [@ EXCEPT !.pc = "over", !.failure = "cancelled"]]
    /\ opener' = CASE opener = "stat" -> "failed"
                   [] opener = "get" -> "lastGet"
                   [] opener = "unsized" -> "lastClose"
                   [] opener = "unsizedRelease" -> "lastRelease"
                   [] OTHER -> opener
    /\ UNCHANGED <<plan, resp, src, aclosed, closeOf, data>>

LandOpen ==
    /\ opener \in {"lastGet", "lastClose", "lastRelease"}
    /\ resp' = CASE opener = "lastGet" -> [resp EXCEPT !.opened = TRUE]
                 [] opener = "lastClose" -> [resp EXCEPT !.closes = @ + 1]
                 [] opener = "lastRelease" -> [resp EXCEPT !.releases = @ + 1]
    /\ opener' = "failed"
    /\ UNCHANGED <<plan, src, aclosed, task, closeOf, data, budget>>

(* Mutant: the opening is awaited without a shield. *)
CancelCompatOpen_Unshielded ==
    /\ plan.path = "compat"
    /\ task["reader"].pc = "opening"
    /\ Cancellation
    /\ task' = [task EXCEPT !["reader"] = [@ EXCEPT !.pc = "over", !.failure = "cancelled"]]
    /\ UNCHANGED <<plan, opener, resp, src, aclosed, closeOf, data>>

(* Compat: the opening is shielded, awaited again, and what it opened is   *)
(* closed; a second cancellation abandons it to its thread.                *)
CancelCompatOpen ==
    /\ plan.path = "compat"
    /\ task["reader"].pc \in {"opening", "openDrain"}
    /\ Cancellation
    /\ task' = [task EXCEPT !["reader"] =
                  IF @.pc = "opening" THEN [@ EXCEPT !.pc = "openDrain"]
                  ELSE [@ EXCEPT !.pc = "over", !.failure = "cancelled"]]
    /\ UNCHANGED <<plan, opener, resp, src, aclosed, closeOf, data>>

DrainOpen ==
    /\ task["reader"].pc = "openDrain"
    /\ \/ /\ opener = "open"
          /\ task' = [task EXCEPT !["reader"] =
                        [pc |-> "dropping", failure |-> "cancelled", left |-> <<FALSE>>]]
          /\ closeOf' = [closeOf EXCEPT !["reader"][1] = "close"]
       \/ /\ opener = "failed"
          /\ task' = [task EXCEPT !["reader"] =
                        [@ EXCEPT !.pc = "over", !.failure = "openError"]]
          /\ UNCHANGED closeOf
    /\ UNCHANGED <<plan, opener, resp, src, aclosed, data, budget>>

(* The source is closed by a thread the task awaits, unshielded. *)
DropOpened ==
    /\ task["reader"].pc = "dropping"
    /\ closeOf["reader"][1] \in {"ok", "failed"}
    /\ task' = [task EXCEPT !["reader"] =
                  [pc |-> "over", left |-> <<>>,
                   failure |-> IF closeOf["reader"][1] = "ok" THEN "cancelled"
                               ELSE "closeError"]]
    /\ UNCHANGED <<plan, opener, resp, src, aclosed, closeOf, data, budget>>

CancelDrop ==
    /\ task["reader"].pc = "dropping"
    /\ Cancellation
    /\ task' = [task EXCEPT !["reader"] = [@ EXCEPT !.pc = "over", !.left = <<>>]]
    /\ UNCHANGED <<plan, opener, resp, src, aclosed, closeOf, data>>

-----------------------------------------------------------------------------
(* Reading *)

Reading == task["reader"].pc = "reading"

(* Mutant: closed on Exception, which neither a cancellation nor the       *)
(* closing of the iterator is.                                             *)
StopReading_OnException(failure, inner) ==
    Proceed("reader", failure,
            IF failure \in {"cancelled", "stopped"} THEN <<>> ELSE Closings(inner), Closed)

StopReading(failure, inner) == Proceed("reader", failure, Closings(inner), Closed)

(* A chunk: handed to the consumer, or on its way to the sink. *)
ReadChunk ==
    /\ Reading /\ data.read < Chunks
    /\ data' = [data EXCEPT !.read = @ + 1]
    /\ task' = [task EXCEPT !["reader"].pc =
                  IF plan.use = "copy" THEN "writing" ELSE "reading"]
    /\ UNCHANGED <<plan, opener, resp, src, aclosed, closeOf, budget>>

(* The end, too early when the connection is lost or the other task closed *)
(* the response.                                                           *)
ReadEnd ==
    /\ Reading
    /\ IF data.read = Chunks \/ resp.closes > 0 THEN NoFault ELSE Fault
    /\ StopReading("none", TRUE)
    /\ UNCHANGED <<plan, opener, resp, src, aclosed, data>>

ReadFails ==
    /\ Reading
    /\ IF resp.closes > 0 THEN NoFault ELSE Fault
    /\ StopReading("readError", TRUE)
    /\ UNCHANGED <<plan, opener, resp, src, aclosed, data>>

Damage ==
    /\ Reading /\ data.intact /\ Fault
    /\ data' = [data EXCEPT !.intact = FALSE]
    /\ UNCHANGED <<plan, opener, resp, src, aclosed, task, closeOf>>

(* The consumer closes the iterator between two chunks. *)
StopEarly ==
    /\ Reading /\ plan.use # "copy" /\ data.read > 0
    /\ StopReading("stopped", FALSE)
    /\ UNCHANGED <<plan, opener, resp, src, aclosed, data, budget>>

(* It closes a closing iterator whose first chunk it has not asked for:    *)
(* close() or aclose() of a generator that has not started runs neither    *)
(* its body nor its finally, and nothing closes the stream.                *)
StopUnstarted ==
    /\ Reading /\ plan.use = "iterate" /\ data.read = 0
    /\ task' = [task EXCEPT !["reader"] = [@ EXCEPT !.pc = "over", !.failure = "stopped"]]
    /\ UNCHANGED <<plan, opener, resp, src, aclosed, closeOf, data, budget>>

WriteChunk ==
    /\ task["reader"].pc = "writing"
    /\ \/ /\ NoFault
          /\ data' = [data EXCEPT !.written = @ + 1]
          /\ task' = [task EXCEPT !["reader"].pc = "reading"]
          /\ UNCHANGED closeOf
       \/ Fault /\ StopReading("writeError", FALSE) /\ UNCHANGED data
    /\ UNCHANGED <<plan, opener, resp, src, aclosed>>

(* Cancelled while a thread reads or writes a chunk. *)
CancelTransfer ==
    /\ task["reader"].pc \in {"reading", "writing"}
    /\ Cancellation
    /\ StopReading("cancelled", Reading)
    /\ UNCHANGED <<plan, opener, resp, src, aclosed, data>>

-----------------------------------------------------------------------------
(* Closing.  closeOf[t][k] is the close task t started with k closes to    *)
(* come:                                                                   *)
(*   "close"     about to close; on the synchronous stream, to look at its *)
(*               flag, then "enter" to set it and take the callback        *)
(*   "callback", "release", "stream"   calls on the response               *)
(*   "lastClose", "lastRelease"        the same, nothing follows           *)
(* close() of the synchronous stream, in the caller's thread or a worker's:*)
(* two of them may both find it open.                                      *)
SourceClose(t, k) ==
    \/ /\ closeOf[t][k] = "close"
       /\ closeOf' = [closeOf EXCEPT ![t][k] = IF src.closed THEN "ok" ELSE "enter"]
       /\ UNCHANGED src
    \/ /\ closeOf[t][k] = "enter"
       /\ closeOf' = [closeOf EXCEPT ![t][k] = IF src.callback THEN "callback" ELSE "stream"]
       /\ src' = [closed |-> TRUE, callback |-> FALSE]

(* close_stream and _close_async_response: close(), then release_conn().   *)
CallClose(t, k) ==
    /\ closeOf[t][k] \in {"callback", "stream", "lastClose"}
    /\ \/ /\ NoFault
          /\ resp' = [resp EXCEPT !.closes = @ + 1]
          /\ closeOf' = [closeOf EXCEPT ![t][k] =
                           CASE @ = "callback" -> "release"
                             [] @ = "stream" -> "ok"
                             [] @ = "lastClose" -> "failed"]
       \/ /\ Fault /\ UNCHANGED resp
          /\ closeOf' = [closeOf EXCEPT ![t][k] = "failed"]

CallRelease(t, k) ==
    /\ closeOf[t][k] \in {"release", "lastRelease"}
    /\ \/ /\ NoFault
          /\ resp' = [resp EXCEPT !.releases = @ + 1]
          /\ closeOf' = [closeOf EXCEPT ![t][k] = IF @ = "release" THEN "ok" ELSE "failed"]
       \/ /\ Fault /\ UNCHANGED resp
          /\ closeOf' = [closeOf EXCEPT ![t][k] = "failed"]

CloseStep(t, k) ==
    /\ \/ plan.path # "native" /\ SourceClose(t, k) /\ UNCHANGED <<resp, budget>>
       \/ /\ plan.path = "native" /\ closeOf[t][k] = "close"
          /\ closeOf' = [closeOf EXCEPT ![t][k] = "callback"]
          /\ UNCHANGED <<src, resp, budget>>
       \/ (CallClose(t, k) \/ CallRelease(t, k)) /\ UNCHANGED src
    /\ UNCHANGED <<plan, opener, aclosed, task, data>>

MyClose(t) == closeOf[t][Len(task[t].left)]

(* Mutant: the asynchronous stream is marked closed however its close went.*)
MarkClosed_Always(t) == Async

(* Mutant: nothing marks the asynchronous stream closed. *)
MarkClosed_Never(t) == FALSE

MarkClosed(t) == Async /\ MyClose(t) = "ok"

(* aclose: the flag follows the close; sync: the close returned or raised. *)
Return(t) ==
    /\ task[t].pc = "closing"
    /\ MyClose(t) \in {"ok", "failed"}
    /\ aclosed' = (aclosed \/ MarkClosed(t))
    /\ AfterClose(t, IF MyClose(t) = "ok" THEN "none" ELSE "closeError",
                  IF Async THEN aclosed \/ MarkClosed(t) ELSE src.closed)
    /\ UNCHANGED <<plan, opener, resp, src, data, budget>>

(* Mutant: the cancellation is passed on at once. *)
CancelClose_NoDrain(t) ==
    /\ task[t].pc = "closing"
    /\ Cancellation
    /\ AfterClose(t, "cancelled", aclosed)
    /\ UNCHANGED <<plan, opener, resp, src, aclosed, data>>

(* The close is shielded: the cancellation waits for it. *)
CancelClose(t) ==
    /\ task[t].pc = "closing"
    /\ Cancellation
    /\ IF MyClose(t) \in {"ok", "failed"}
       THEN /\ aclosed' = (aclosed \/ MarkClosed(t))
            /\ AfterClose(t, "cancelled", aclosed \/ MarkClosed(t))
       ELSE /\ task' = [task EXCEPT ![t].pc = "draining"]
            /\ UNCHANGED <<aclosed, closeOf>>
    /\ UNCHANGED <<plan, opener, resp, src, data>>

Drained(t) ==
    /\ task[t].pc = "draining"
    /\ MyClose(t) \in {"ok", "failed"}
    /\ aclosed' = (aclosed \/ MarkClosed(t))
    /\ AfterClose(t, "cancelled", aclosed \/ MarkClosed(t))
    /\ UNCHANGED <<plan, opener, resp, src, data, budget>>

(* A second cancellation reaches the close itself, or the task before it   *)
(* learns that the close is done: the flag is not set.  A native close ends    *)
(* with the call under way; a compat one is all in one thread and goes on. *)
CutClose(t) ==
    LET k == Len(task[t].left)
        cut == CASE closeOf[t][k] = "callback" -> "lastClose"
                 [] closeOf[t][k] = "release" -> "lastRelease"
                 [] closeOf[t][k] = "close" -> "failed"
                 [] OTHER -> closeOf[t][k]
        kept == IF plan.path = "native" THEN [closeOf EXCEPT ![t][k] = cut] ELSE closeOf
        left == IF aclosed THEN <<>> ELSE Tail(task[t].left)
    IN  /\ task[t].pc = "draining"
        /\ Cancellation
        /\ task' = [task EXCEPT ![t] =
              [pc |-> IF left = <<>> THEN "over" ELSE "closing",
               left |-> left, failure |-> "cancelled"]]
        /\ closeOf' = IF left = <<>> THEN kept ELSE [kept EXCEPT ![t][Len(left)] = "close"]
        /\ UNCHANGED <<plan, opener, resp, src, aclosed, data>>

(* Another task of the host closes the stream it was handed. *)
OtherCloses ==
    /\ Async
    /\ task["closer"].pc = "idle"
    /\ opener = "handed"
    /\ Proceed("closer", "none", <<FALSE>>, aclosed)
    /\ UNCHANGED <<plan, opener, resp, src, aclosed, data, budget>>

-----------------------------------------------------------------------------
Init ==
    /\ plan \in {p \in Plan : p.use # "copy" => ~p.verify}
    /\ opener = "stat"
    /\ resp = [opened |-> FALSE, closes |-> 0, releases |-> 0]
    /\ src = [closed |-> FALSE, callback |-> TRUE]
    /\ aclosed = FALSE
    /\ task = [t \in Tasks |-> [pc |-> IF t = "reader" THEN "opening" ELSE "idle",
                                 failure |-> "none", left |-> <<>>]]
    /\ closeOf = [t \in Tasks |-> [k \in 1 .. 2 |-> "none"]]
    /\ data = [read |-> 0, written |-> 0, intact |-> TRUE]
    /\ budget = [faults |-> MaxFaults, cancels |-> MaxCancels]

Threads == \/ StatObject \/ GetObjectStream \/ CloseUnsized \/ LandOpen
           \/ \E t \in Tasks, k \in 1 .. 2 : CloseStep(t, k)

Continue == \/ Opened \/ DrainOpen
            \/ DropOpened
            \/ ReadChunk \/ ReadEnd \/ ReadFails \/ WriteChunk
            \/ \E t \in Tasks : Return(t) \/ Drained(t)

Next ==
    \/ Threads
    \/ Continue
    \/ CancelOpen \/ CancelCompatOpen \/ CancelDrop \/ CancelTransfer
    \/ Damage \/ StopEarly \/ StopUnstarted \/ OtherCloses
    \/ \E t \in Tasks : CancelClose(t) \/ CutClose(t)

Spec == Init /\ [][Next]_vars

(* Client calls return, and a task whose call returned goes on. *)
FairSpec == Spec /\ WF_vars(Threads) /\ WF_vars(Continue)

-----------------------------------------------------------------------------
(* Properties *)

(* A close went wrong, or was cut by a second cancellation. *)
Trouble == \E t \in Tasks, k \in 1 .. 2 :
              closeOf[t][k] \in {"failed", "lastClose", "lastRelease"}

Cancels == MaxCancels - budget.cancels

Handed == opener = "handed"

(* The iterator was closed before its first chunk was asked for. *)
Unstarted == task["reader"].failure = "stopped" /\ data.read = 0

(* AsyncDocumentContentStream.aclose sets _closed after the close and not  *)
(* before: on the native path a stream that says closed has its connection *)
(* back in the pool, so a close that failed or was cut can be tried again. *)
ClosedMeansReleased ==
    plan.path = "native" /\ aclosed => resp.closes > 0 /\ resp.releases > 0

(* DocumentContentStream.close, aclose: a response is closed a second time *)
(* only when two tasks close it, a close went wrong before, or a second    *)
(* cancellation hid that it went well (prd.md:108).                        *)
ClosedOnce ==
    resp.closes <= 1 \/ Trouble \/ Cancels > 1 \/ task["closer"].pc # "idle"

(* iter_chunks_closing, aiter_chunks_closing, iter_document_chunks and     *)
(* copy_document_to: at the end, by exhaustion, error, early stop or one   *)
(* cancellation, the response is closed and released before the caller     *)
(* goes on, unless a call on it failed (SRS-OPS-004) or the iterator had   *)
(* not been started, where it stays open.                                  *)
ReleasedBeforeReturn ==
    Handed /\ task["reader"].pc = "over" /\ ~Trouble /\ Cancels <= 1
    /\ task["closer"].pc = "idle" /\ ~Unstarted
      => resp.releases > 0

(* get_document_content_async_stream: a cancellation while the thread is   *)
(* opening waits for it, and the response it opened is released before the *)
(* cancellation is passed on.                                              *)
CancelledOpenReleased ==
    /\ plan.path = "compat" /\ ~Handed /\ task["reader"].pc = "over" /\ ~Trouble
    /\ task["reader"].failure = "cancelled" /\ Cancels = 1
    => (resp.opened /\ plan.sized => resp.releases > 0)

(* iter_chunks_closing, copy_document_to: a read or write error reaches    *)
(* the caller even when closing fails too; only a cancellation replaces it *)
(* (SRS-GET-016).                                                          *)
FirstErrorKept ==
    [][\A t \in Tasks :
          task[t].failure \in {"readError", "writeError", "openError", "mismatch"}
          /\ plan.use # "chunks"
            => task'[t].failure \in {task[t].failure, "cancelled"}]_vars

(* copy_document_to succeeds only if the whole content is in the sink, and *)
(* undamaged where a checksum is verified (SRS-GET-022).                   *)
CopiedIsWhole ==
    plan.use = "copy" /\ task["reader"].pc = "over" /\ task["reader"].failure = "none"
      => data.written = Chunks /\ (plan.verify => data.intact)

(* However the tasks are cancelled and the client fails, the reading task  *)
(* ends, and a stream it was handed is released in the end unless a close  *)
(* went wrong or its iterator was closed before it was started.            *)
StreamsEnd ==
    /\ <>(task["reader"].pc = "over")
    /\ Handed ~> (resp.releases > 0 \/ Trouble \/ Unstarted)

=============================================================================
