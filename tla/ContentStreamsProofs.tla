------------------------ MODULE ContentStreamsProofs ------------------------
(***************************************************************************)
(* Theorems about one content stream, for every length of the content and  *)
(* every number of failing client calls and cancellations, on the three    *)
(* paths and for the three consumers.                                      *)
(***************************************************************************)
EXTENDS ContentStreams, SequenceTheorems, TLAPS

(* The closes a task may still have to make: two at most. *)
Lefts == {left \in Seq(BOOLEAN) : Len(left) <= 2}

(* All of them give way to an earlier error. *)
Keeping(left) == \A i \in 1 .. Len(left) : left[i] = TRUE

Points == {"idle", "opening", "openDrain", "dropping", "reading", "writing",
           "closing", "draining", "over"}

Openings == {"stat", "get", "open", "failed", "unsized", "unsizedRelease",
             "lastGet", "lastClose", "lastRelease", "handed"}

CloseStates == {"none", "close", "enter", "callback", "release", "stream",
                "lastClose", "lastRelease", "ok", "failed"}

TaskStates == [pc: Points, failure: Failure, left: Lefts]

StreamsTypeOK ==
    /\ plan \in Plan
    /\ opener \in Openings
    /\ resp \in [opened: BOOLEAN, closes: Nat, releases: Nat]
    /\ src \in [closed: BOOLEAN, callback: BOOLEAN]
    /\ aclosed \in BOOLEAN
    /\ task \in [Tasks -> TaskStates]
    /\ closeOf \in [Tasks -> [1 .. 2 -> CloseStates]]
    /\ data \in [read: Nat, written: Nat, intact: BOOLEAN]
    /\ budget \in [faults: Nat, cancels: 0 .. MaxCancels]

-----------------------------------------------------------------------------
(* The inductive invariant *)

AtClose(t) == task[t].pc \in {"closing", "draining"}

(* What the place of a task says of the closes it has made and has to make.*)
ControlOf(state, closes) ==
    /\ state.pc \in {"closing", "draining"} =>
          /\ state.left # <<>>
          /\ closes[Len(state.left)] # "none"
          /\ \A k \in 1 .. 2 : k < Len(state.left) => closes[k] = "none"
    /\ state.pc = "dropping" =>
          /\ state.failure = "cancelled"
          /\ closes[1] # "none" /\ closes[2] = "none"
    /\ state.pc \notin {"closing", "draining", "dropping"} => state.left = <<>>
    /\ state.pc \notin {"closing", "draining", "dropping", "over"} =>
          /\ closes[1] = "none" /\ closes[2] = "none"
          /\ state.failure = "none"

ControlInv(t) ==
    /\ ControlOf(task[t], closeOf[t])
    /\ task[t].pc = "draining" => Async /\ Cancels > 0

(* How far the opening came, and which of the tasks has the stream. *)
HandInv ==
    /\ task["closer"].pc \in {"idle", "closing", "draining", "over"}
    /\ task["closer"].failure \in {"none", "closeError", "cancelled"}
    /\ ~Handed => task["closer"].pc = "idle"
    /\ task["reader"].pc # "idle"
    /\ task["reader"].pc = "opening" => ~Handed
    /\ task["reader"].pc \in {"reading", "writing", "closing", "draining"} => Handed
    /\ task["reader"].pc \in {"openDrain", "dropping"} =>
          plan.path = "compat" /\ Cancels > 0 /\ ~Handed
    /\ task["reader"].pc = "dropping" => opener = "open"
    /\ opener \in {"lastGet", "lastClose", "lastRelease"} =>
          task["reader"].pc = "over" /\ plan.path = "native"
    /\ opener \in {"unsized", "unsizedRelease"} => plan.path = "native"
    /\ plan.use # "copy" => task["reader"].pc # "writing"

(* A native close has made the calls it is past, in their order. *)
NativeInv ==
    plan.path = "native" =>
       /\ \A t \in Tasks, k \in 1 .. 2 :
             /\ closeOf[t][k] \notin {"enter", "stream"}
             /\ closeOf[t][k] \in {"release", "lastRelease", "ok"} => resp.closes > 0
             /\ closeOf[t][k] = "ok" => resp.releases > 0
       /\ aclosed => resp.closes > 0 /\ resp.releases > 0

(* Around a reading that failed only iter_document_chunks closes without   *)
(* keeping the error.                                                      *)
ErrorInv ==
    plan.use # "chunks" /\ AtClose("reader") =>
       Keeping(task["reader"].left)

(* Nobody else closes the stream, no call on the response fails, and no    *)
(* second cancellation cuts a close.                                       *)
Alone == ~Trouble /\ Cancels <= 1 /\ task["closer"].pc = "idle"

(* Then the reading task makes one close, and its next ones find it made;  *)
(* an iterator that was not started makes none.                            *)
TheClose == IF closeOf["reader"][1] # "none" THEN closeOf["reader"][1]
            ELSE closeOf["reader"][2]

AloneState ==
    /\ closeOf["reader"][1] = "none" \/ closeOf["reader"][2] = "none"
    /\ TheClose # "stream"
    /\ TheClose \in {"none", "close", "enter"} => ~src.closed /\ src.callback
    /\ TheClose \in {"callback", "release", "ok"} /\ plan.path # "native" => src.closed
    /\ TheClose \in {"none", "close", "enter", "callback"} => ~aclosed
    /\ opener \in {"open", "handed", "stat", "get", "lastGet", "unsized", "lastClose"}
          /\ TheClose \notin {"release", "ok"} => resp.closes = 0
    /\ opener # "open" /\ ~Handed => TheClose = "none"
    /\ resp.closes <= 1
    /\ TheClose = "ok" => resp.releases > 0
    /\ task["reader"].pc \in {"reading", "writing"} => TheClose = "none"
    /\ AtClose("reader") => ~aclosed
    /\ Handed /\ task["reader"].pc = "over" => TheClose = "ok" \/ Unstarted
    /\ plan.path = "compat" /\ ~Handed /\ task["reader"].pc = "over"
          /\ task["reader"].failure = "cancelled" => TheClose = "ok"

AloneInv == Alone => AloneState

StreamsInv ==
    /\ StreamsTypeOK
    /\ \A t \in Tasks : ControlInv(t)
    /\ HandInv
    /\ NativeInv
    /\ ErrorInv
    /\ AloneInv
    /\ CopiedIsWhole

-----------------------------------------------------------------------------
(* The closes a task has left *)

LEMMA LeftFacts ==
    ASSUME NEW left \in Lefts, left # <<>>
    PROVE  /\ Len(left) \in 1 .. 2
           /\ Head(left) \in BOOLEAN
           /\ Tail(left) \in Lefts
           /\ Tail(left) # <<>> <=> Len(left) = 2
           /\ Tail(left) # <<>> => Len(Tail(left)) = 1
           /\ Keeping(left) => Head(left) = TRUE /\ Keeping(Tail(left))
  <1> DEFINE tail == Tail(left)
             n == Len(left)
             m == Len(tail)
  <1>1. left \in Seq(BOOLEAN) /\ n \in Nat /\ n <= 2 /\ n # 0
    BY LenProperties, EmptySeq DEF Lefts
  <1>2. /\ Head(left) = left[1]
        /\ Head(left) \in BOOLEAN
        /\ tail \in Seq(BOOLEAN)
        /\ m = n - 1
        /\ \A i \in 1 .. m : tail[i] = left[i + 1]
    BY <1>1, HeadTailProperties
  <1>3. m = 0 <=> tail = <<>>
    BY <1>2, EmptySeq
  <1>4. ASSUME Keeping(left) PROVE Head(left) = TRUE /\ Keeping(tail)
    <2>1. \A i \in 1 .. n : left[i] = TRUE
      BY <1>4 DEF Keeping
    <2> HIDE DEF n, m, tail
    <2>2. left[1] = TRUE /\ \A i \in 1 .. m : tail[i] = TRUE
      BY <1>1, <1>2, <2>1
    <2> QED BY <2>2, <1>2 DEF Keeping, m
  <1> HIDE DEF n, m, tail
  <1>5. n \in 1 .. 2 /\ m <= 2 /\ (m # 0 <=> n = 2) /\ (m # 0 => m = 1)
    BY <1>1, <1>2
  <1>6. tail \in Lefts
    BY <1>2, <1>5 DEF Lefts, m
  <1>7. (tail # <<>> <=> n = 2) /\ (tail # <<>> => m = 1)
    BY <1>3, <1>5
  <1> QED BY <1>2, <1>4, <1>5, <1>6, <1>7 DEF n, m, tail

LEMMA OneClose ==
    ASSUME NEW a \in BOOLEAN
    PROVE  /\ <<a>> \in Lefts
           /\ <<a>> # <<>>
           /\ a = TRUE => Keeping(<<a>>)
  BY SMT DEF Lefts, Keeping

LEMMA TwoCloses ==
    ASSUME NEW a \in BOOLEAN
    PROVE  /\ <<TRUE>> \o <<a>> \in Lefts
           /\ <<TRUE>> \o <<a>> # <<>>
           /\ a = TRUE => Keeping(<<TRUE>> \o <<a>>)
  <1> DEFINE l == <<TRUE>>
             r == <<a>>
             both == l \o r
  <1>1. /\ l \in Seq(BOOLEAN) /\ Len(l) = 1 /\ l[1] = TRUE
        /\ r \in Seq(BOOLEAN) /\ Len(r) = 1 /\ r[1] = a
    OBVIOUS
  <1> HIDE DEF l, r
  <1>2. /\ both \in Seq(BOOLEAN) /\ Len(both) = 2
        /\ \A i \in 1 .. 2 : both[i] = IF i <= 1 THEN l[i] ELSE r[i - 1]
    BY <1>1, ConcatProperties
  <1>4. both # <<>>
    BY <1>2, EmptySeq
  <1> HIDE DEF both
  <1>5. both[1] = TRUE /\ both[2] = a
    BY <1>1, <1>2
  <1>3. ASSUME a = TRUE PROVE Keeping(both)
    <2>1. both[1] = TRUE /\ both[2] = TRUE
      BY <1>5, <1>3
    <2>2. \A i \in 1 .. 2 : i = 1 \/ i = 2
      OBVIOUS
    <2>3. \A i \in 1 .. 2 : both[i] = TRUE
      BY <2>1, <2>2, Zenon
    <2> QED BY <1>2, <2>3 DEF Keeping
  <1>6. both \in Seq(BOOLEAN) /\ Len(both) <= 2
    BY <1>2
  <1>7. both \in Lefts
    BY <1>6, Zenon DEF Lefts
  <1> QED BY <1>3, <1>4, <1>7, Zenon DEF l, r, both

(* Every reading that was begun closes once or twice. *)
LEMMA ClosingsFacts ==
    ASSUME plan \in Plan, NEW inner \in BOOLEAN
    PROVE  /\ Closings(inner) \in Lefts
           /\ Closings(inner) # <<>>
           /\ plan.use # "chunks" => Keeping(Closings(inner))
  <1>1. \/ Closings(inner) = <<TRUE>>
        \/ Closings(inner) = <<TRUE>> \o <<TRUE>>
        \/ /\ plan.use = "chunks"
           /\ \/ Closings(inner) = <<FALSE>>
              \/ Closings(inner) = <<TRUE>> \o <<FALSE>>
    <2>1. <<TRUE>> \o <<>> = <<TRUE>>
      OBVIOUS
    <2> QED BY <2>1 DEF Plan, Closings, SyncClosings, AsyncClosings
  <1> QED BY <1>1, OneClose, TwoCloses

-----------------------------------------------------------------------------
(* The kinds of step *)

(* Task t begins its next close, or its call ends. *)
ToClose(t, failure, left) ==
    /\ task' = [task EXCEPT ![t] =
                  [pc |-> "closing", left |-> left, failure |-> failure]]
    /\ closeOf' = [closeOf EXCEPT ![t][Len(left)] = "close"]

Leaves(t, failure) ==
    /\ task' = [task EXCEPT ![t] =
                  [pc |-> "over", left |-> <<>>, failure |-> failure]]
    /\ closeOf' = closeOf

LEMMA ProceedFacts ==
    ASSUME NEW t, NEW failure, NEW left, NEW closed \in BOOLEAN,
           Proceed(t, failure, left, closed)
    PROVE  \/ left # <<>> /\ ~closed /\ ToClose(t, failure, left)
           \/ /\ left = <<>> \/ closed
              /\ Leaves(t, IF t = "closer" THEN failure ELSE CopyChecked(failure))
  BY DEF Proceed, ToClose, Leaves

(* One reading or writing of the reading task, then the closes. *)
Stop(failure, inner) ==
    /\ task["reader"].pc \in {"reading", "writing"}
    /\ StopReading(failure, inner)
    /\ failure = "none" => Reading
    /\ IF failure = "cancelled" THEN Cancellation ELSE Fault \/ NoFault
    /\ UNCHANGED <<plan, opener, resp, src, aclosed, data>>

(* A chunk goes from the client to the sink. *)
Written ==
    /\ task["reader"].pc = "writing"
    /\ data' = [data EXCEPT !.written = @ + 1]
    /\ task' = [task EXCEPT !["reader"].pc = "reading"]
    /\ UNCHANGED <<plan, opener, resp, src, aclosed, closeOf, budget>>

Transfer ==
    /\ task["reader"].pc \in {"reading", "writing"}
    /\ ReadChunk \/ Damage \/ Written

(* A close of task t is over, with what it tells of it. *)
Done(t, error) ==
    /\ AtClose(t)
    /\ MyClose(t) \in {"ok", "failed"}
    /\ aclosed' = (aclosed \/ MarkClosed(t))
    /\ AfterClose(t, error, IF Async THEN aclosed \/ MarkClosed(t) ELSE src.closed)
    /\ error # "cancelled" => /\ error = IF MyClose(t) = "ok" THEN "none" ELSE "closeError"
                             /\ UNCHANGED budget
    /\ error = "cancelled" => /\ Async
                             /\ \/ Cancellation
                                \/ Cancels > 0 /\ UNCHANGED budget
    /\ UNCHANGED <<plan, opener, resp, src, data>>

(* A close that is under way is cancelled for the first time. *)
Drain(t) ==
    /\ task[t].pc = "closing"
    /\ MyClose(t) \notin {"ok", "failed"}
    /\ Cancellation
    /\ task' = [task EXCEPT ![t].pc = "draining"]
    /\ UNCHANGED <<plan, opener, resp, src, aclosed, data, closeOf>>

Stops == {"none", "readError", "stopped", "writeError", "cancelled"}

Errors == {"none", "closeError", "cancelled"}

OpenStep ==
    \/ StatObject \/ GetObjectStream \/ CloseUnsized \/ LandOpen \/ Opened
    \/ CancelOpen \/ CancelCompatOpen \/ DrainOpen \/ DropOpened \/ CancelDrop

StepKinds ==
    \/ OpenStep
    \/ Transfer
    \/ \E failure \in Stops, inner \in BOOLEAN : Stop(failure, inner)
    \/ \E t \in Tasks, k \in 1 .. 2 : CloseStep(t, k)
    \/ \E t \in Tasks, error \in Errors : Done(t, error)
    \/ \E t \in Tasks : Drain(t) \/ CutClose(t)
    \/ OtherCloses
    \/ StopUnstarted
    \/ UNCHANGED vars

LEMMA EveryStep ==
    ASSUME StreamsTypeOK, \A t \in Tasks : ControlInv(t), [Next]_vars
    PROVE  StepKinds
  <1>1. CASE Threads \/ UNCHANGED vars
    BY <1>1 DEF Threads, StepKinds, OpenStep
  <1>2. CASE \/ Opened \/ DrainOpen \/ DropOpened
             \/ CancelOpen \/ CancelCompatOpen \/ CancelDrop
    BY <1>2 DEF StepKinds, OpenStep
  <1>3. CASE ReadChunk \/ Damage
    BY <1>3 DEF StepKinds, Transfer, ReadChunk, Damage, Reading
  <1>4. CASE ReadEnd
    <2>1. Stop("none", TRUE)
      BY <1>4 DEF ReadEnd, Stop, Reading
    <2> QED BY <2>1 DEF StepKinds, Stops
  <1>5. CASE ReadFails
    <2>1. Stop("readError", TRUE)
      BY <1>5 DEF ReadFails, Stop, Reading
    <2> QED BY <2>1 DEF StepKinds, Stops
  <1>6. CASE StopEarly
    <2>1. Stop("stopped", FALSE)
      BY <1>6 DEF StopEarly, Stop, Reading, NoFault
    <2> QED BY <2>1 DEF StepKinds, Stops
  <1>7. CASE WriteChunk
    <2>1. Transfer \/ Stop("writeError", FALSE)
      BY <1>7 DEF WriteChunk, Stop, Transfer, Written, NoFault
    <2> QED BY <2>1 DEF StepKinds, Stops
  <1>8. CASE CancelTransfer
    <2>1. Stop("cancelled", Reading)
      BY <1>8 DEF CancelTransfer, Stop
    <2> QED BY <2>1 DEF StepKinds, Stops, Reading
  <1>9. ASSUME NEW t \in Tasks, Return(t) PROVE StepKinds
    <2>1. \/ Done(t, "none")
          \/ Done(t, "closeError")
      BY <1>9 DEF Return, Done, AtClose
    <2> QED BY <2>1 DEF StepKinds, Errors
  <1>10. ASSUME NEW t \in Tasks, Drained(t) PROVE StepKinds
    <2>1. Done(t, "cancelled")
      BY <1>10 DEF Drained, Done, AtClose, ControlInv
    <2> QED BY <2>1 DEF StepKinds, Errors
  <1>11. ASSUME NEW t \in Tasks, CancelClose(t) PROVE StepKinds
    <2>1. Done(t, "cancelled") \/ Drain(t)
      BY <1>11 DEF CancelClose, Done, Drain, AtClose, Cancellation
    <2> QED BY <2>1 DEF StepKinds, Errors
  <1>12. ASSUME NEW t \in Tasks, CutClose(t) PROVE StepKinds
    BY <1>12 DEF StepKinds
  <1>13. CASE OtherCloses \/ StopUnstarted
    BY <1>13 DEF StepKinds
  <1> QED BY <1>1, <1>2, <1>3, <1>4, <1>5, <1>6, <1>7, <1>8, <1>9, <1>10, <1>11,
             <1>12, <1>13
          DEF Next, Continue

(* What a task goes on with once its close is over. *)
Told(t, error) ==
    IF error = "none" THEN task[t].failure
    ELSE IF error = "closeError" /\ Head(task[t].left) = TRUE /\ task[t].failure # "none"
         THEN task[t].failure
    ELSE error

LEMMA StopFacts ==
    ASSUME StreamsTypeOK, NEW failure \in Stops, NEW inner \in BOOLEAN,
           Stop(failure, inner)
    PROVE  \E left \in Lefts :
              /\ left # <<>>
              /\ plan.use # "chunks" => Keeping(left)
              /\ \/ ~Closed /\ ToClose("reader", failure, left)
                 \/ Closed /\ Leaves("reader", CopyChecked(failure))
  <1>1. plan \in Plan /\ Closed \in BOOLEAN
    BY DEF StreamsTypeOK, Closed
  <1>2. PICK left \in Lefts : /\ left = Closings(inner)
                              /\ left # <<>>
                              /\ plan.use # "chunks" => Keeping(left)
    BY <1>1, ClosingsFacts
  <1>3. Proceed("reader", failure, left, Closed)
    BY <1>2 DEF Stop, StopReading
  <1>4. \/ ~Closed /\ ToClose("reader", failure, left)
        \/ Closed /\ Leaves("reader", CopyChecked(failure))
    BY <1>1, <1>2, <1>3, ProceedFacts
  <1> QED BY <1>2, <1>4

(* A task at a close has one to two left. *)
LEMMA CloseFacts ==
    ASSUME StreamsTypeOK, NEW t \in Tasks, ControlInv(t), AtClose(t)
    PROVE  /\ task[t].left \in Lefts
           /\ task[t].left # <<>>
           /\ Len(task[t].left) \in 1 .. 2
           /\ Tail(task[t].left) \in Lefts
           /\ Head(task[t].left) \in BOOLEAN
           /\ Tail(task[t].left) # <<>> <=> Len(task[t].left) = 2
           /\ Tail(task[t].left) # <<>> => Len(Tail(task[t].left)) = 1
           /\ Keeping(task[t].left) =>
                 Head(task[t].left) = TRUE /\ Keeping(Tail(task[t].left))
  BY LeftFacts DEF StreamsTypeOK, TaskStates, ControlInv, ControlOf, AtClose

LEMMA DoneFacts ==
    ASSUME StreamsTypeOK, NEW t \in Tasks, ControlInv(t), NEW error \in Errors,
           Done(t, error)
    PROVE  LET left == Tail(task[t].left)
               failure == Told(t, error)
           IN  \/ left # <<>> /\ ToClose(t, failure, left)
                     /\ ~(IF Async THEN aclosed' ELSE src.closed)
               \/ /\ left = <<>> \/ (IF Async THEN aclosed' ELSE src.closed)
                  /\ Leaves(t, IF t = "closer" THEN failure ELSE CopyChecked(failure))
  <1> DEFINE left == Tail(task[t].left)
             failure == Told(t, error)
             closed == IF Async THEN aclosed' ELSE src.closed
  <1>1. closed \in BOOLEAN
    BY DEF StreamsTypeOK, Done, MarkClosed, Async
  <1>2. Head(task[t].left) \in BOOLEAN
    BY CloseFacts DEF Done
  <1>3. Proceed(t, failure, left, closed)
    BY <1>2 DEF Done, AfterClose, Told, Errors
  <1> HIDE DEF left, failure, closed
  <1>4. \/ left # <<>> /\ ~closed /\ ToClose(t, failure, left)
        \/ /\ left = <<>> \/ closed
           /\ Leaves(t, IF t = "closer" THEN failure ELSE CopyChecked(failure))
    BY <1>1, <1>3, ProceedFacts
  <1> QED BY <1>4 DEF left, failure, closed

(* The cut close of a task: nothing but a native one is changed by it. *)
Cut(t, state) ==
    \/ state = MyClose(t)
    \/ /\ plan.path = "native"
       /\ \/ MyClose(t) = "callback" /\ state = "lastClose"
          \/ MyClose(t) = "release" /\ state = "lastRelease"
          \/ MyClose(t) = "close" /\ state = "failed"

Closes == [Tasks -> [1 .. 2 -> CloseStates]]

LEMMA CutFacts ==
    ASSUME StreamsTypeOK, NEW t \in Tasks, ControlInv(t), CutClose(t)
    PROVE  LET left == Tail(task[t].left)
               again == left # <<>> /\ ~aclosed
           IN  \E state \in CloseStates :
                  /\ Cut(t, state)
                  /\ closeOf' \in Closes
                  /\ \A u \in Tasks, j \in 1 .. 2 : closeOf'[u][j] =
                        IF u = t /\ j = Len(task[t].left) THEN state
                        ELSE IF u = t /\ again THEN "close"
                        ELSE closeOf[u][j]
                  /\ task' = [task EXCEPT ![t] =
                        [pc |-> IF again THEN "closing" ELSE "over",
                         left |-> IF again THEN left ELSE <<>>,
                         failure |-> "cancelled"]]
  <1> DEFINE k == Len(task[t].left)
             left == Tail(task[t].left)
             again == left # <<>> /\ ~aclosed
             rest == IF aclosed THEN <<>> ELSE left
             cut == CASE closeOf[t][k] = "callback" -> "lastClose"
                      [] closeOf[t][k] = "release" -> "lastRelease"
                      [] closeOf[t][k] = "close" -> "failed"
                      [] OTHER -> closeOf[t][k]
             kept == IF plan.path = "native" THEN [closeOf EXCEPT ![t][k] = cut]
                     ELSE closeOf
             state == kept[t][k]
  <1>1. /\ k \in 1 .. 2
        /\ left # <<>> => k = 2 /\ Len(left) = 1
    BY CloseFacts DEF CutClose, AtClose
  <1>2. /\ aclosed \in BOOLEAN
        /\ closeOf \in Closes
    BY DEF StreamsTypeOK, Closes
  <1>3. /\ task' = [task EXCEPT ![t] =
              [pc |-> IF rest = <<>> THEN "over" ELSE "closing",
               left |-> rest, failure |-> "cancelled"]]
        /\ closeOf' = IF rest = <<>> THEN kept ELSE [kept EXCEPT ![t][Len(rest)] = "close"]
    BY DEF CutClose
  <1>4. (rest = <<>> <=> ~again) /\ (again => rest = left)
    BY <1>2
  <1> HIDE DEF left
  <1>5. closeOf[t][k] \in CloseStates /\ cut \in CloseStates
    BY <1>1, <1>2 DEF Closes, CloseStates
  <1> HIDE DEF cut
  <1>6. /\ kept \in Closes
        /\ \A u \in Tasks, j \in 1 .. 2 :
              kept[u][j] = IF u = t /\ j = k /\ plan.path = "native" THEN cut
                           ELSE closeOf[u][j]
    BY <1>1, <1>2, <1>5 DEF Closes
  <1>7. Cut(t, state)
    BY <1>1, <1>6 DEF Cut, MyClose, cut
  <1> HIDE DEF kept, rest, k
  <1>8. closeOf' = IF again THEN [kept EXCEPT ![t][1] = "close"] ELSE kept
    BY <1>1, <1>3, <1>4
  <1>9. /\ closeOf' \in Closes
        /\ \A u \in Tasks, j \in 1 .. 2 : closeOf'[u][j] =
                        IF u = t /\ again /\ j = 1 THEN "close" ELSE kept[u][j]
    BY <1>6, <1>8 DEF Closes, CloseStates
  <1>10. \A u \in Tasks, j \in 1 .. 2 : closeOf'[u][j] =
                        IF u = t /\ j = k THEN state
                        ELSE IF u = t /\ again THEN "close"
                        ELSE closeOf[u][j]
    BY <1>1, <1>6, <1>9
  <1>11. state \in CloseStates
    BY <1>1, <1>6 DEF Closes
  <1>12. task' = [task EXCEPT ![t] =
                        [pc |-> IF again THEN "closing" ELSE "over",
                         left |-> IF again THEN left ELSE <<>>,
                         failure |-> "cancelled"]]
    BY <1>3, <1>4 DEF rest
  <1> HIDE DEF state, again
  <1>13. \E s \in CloseStates :
                  /\ Cut(t, s)
                  /\ closeOf' \in Closes
                  /\ \A u \in Tasks, j \in 1 .. 2 : closeOf'[u][j] =
                        IF u = t /\ j = k THEN s
                        ELSE IF u = t /\ again THEN "close"
                        ELSE closeOf[u][j]
                  /\ task' = [task EXCEPT ![t] =
                        [pc |-> IF again THEN "closing" ELSE "over",
                         left |-> IF again THEN left ELSE <<>>,
                         failure |-> "cancelled"]]
    BY <1>7, <1>9, <1>10, <1>11, <1>12
  <1> QED BY <1>13 DEF k, left, again

LEMMA ToCloseAt ==
    ASSUME StreamsTypeOK, NEW t \in Tasks, NEW failure \in Failure,
           NEW left \in Lefts, left # <<>>, ToClose(t, failure, left)
    PROVE  /\ task' \in [Tasks -> TaskStates]
           /\ closeOf' \in Closes
           /\ task'[t] = [pc |-> "closing", left |-> left, failure |-> failure]
           /\ Len(left) \in 1 .. 2
           /\ closeOf'[t][Len(left)] = "close"
           /\ \A j \in 1 .. 2 : j # Len(left) => closeOf'[t][j] = closeOf[t][j]
           /\ \A u \in Tasks : u # t => task'[u] = task[u] /\ closeOf'[u] = closeOf[u]
  <1>1. Len(left) \in 1 .. 2
    BY LeftFacts
  <1> QED BY <1>1 DEF ToClose, StreamsTypeOK, TaskStates, Points, Closes, CloseStates

LEMMA LeavesAt ==
    ASSUME StreamsTypeOK, NEW t \in Tasks, NEW failure \in Failure, Leaves(t, failure)
    PROVE  /\ task' \in [Tasks -> TaskStates]
           /\ closeOf' = closeOf
           /\ task'[t] = [pc |-> "over", left |-> <<>>, failure |-> failure]
           /\ \A u \in Tasks : u # t => task'[u] = task[u]
  <1>1. <<>> \in Lefts
    BY EmptySeq DEF Lefts
  <1> QED BY <1>1 DEF Leaves, StreamsTypeOK, TaskStates, Points

LEMMA FailureFacts ==
    /\ Stops \subseteq Failure
    /\ Errors \subseteq Failure
    /\ \A failure \in Failure :
          /\ CopyChecked(failure) \in Failure
          /\ failure # "none" => CopyChecked(failure) = failure
          /\ plan.use # "copy" => CopyChecked(failure) = failure
  BY DEF Stops, Errors, Failure, CopyChecked

LEMMA ToldFacts ==
    ASSUME StreamsTypeOK, NEW t \in Tasks, NEW error \in Errors
    PROVE  /\ Told(t, error) \in Failure
           /\ t = "closer" /\ task[t].failure \in Errors => Told(t, error) \in Errors
           /\ error = "cancelled" => Told(t, error) = "cancelled"
           /\ Told(t, error) \in {task[t].failure, "closeError", "cancelled"}
           /\ task[t].failure # "none" /\ Head(task[t].left) = TRUE =>
                 Told(t, error) \in {task[t].failure, "cancelled"}
  BY FailureFacts DEF Told, StreamsTypeOK, TaskStates, Errors, Failure

(* A cancellation is counted, and only the asynchronous paths have one; a  *)
(* fault leaves the count alone.                                           *)
LEMMA BudgetFacts ==
    ASSUME StreamsTypeOK
    PROVE  /\ Cancels \in Nat
           /\ Cancellation => /\ budget' \in [faults: Nat, cancels: 0 .. MaxCancels]
                              /\ Cancels' = Cancels + 1
                              /\ Async
           /\ Fault \/ NoFault => /\ budget' \in [faults: Nat, cancels: 0 .. MaxCancels]
                                  /\ Cancels' = Cancels
  BY StreamsAssumption DEF StreamsTypeOK, Cancels, Cancellation, Fault, NoFault

-----------------------------------------------------------------------------
(* Types *)

LEMMA InitType == Init => StreamsTypeOK
  <1> SUFFICES ASSUME Init PROVE StreamsTypeOK
    OBVIOUS
  <1>1. <<>> \in Lefts
    BY EmptySeq DEF Lefts
  <1>2. task \in [Tasks -> TaskStates]
    BY <1>1 DEF Init, TaskStates, Points, Failure
  <1>3. /\ closeOf \in [Tasks -> [1 .. 2 -> CloseStates]]
        /\ plan \in Plan
        /\ opener \in Openings
    BY DEF Init, CloseStates, Openings
  <1>4. budget \in [faults: Nat, cancels: 0 .. MaxCancels]
    BY StreamsAssumption DEF Init
  <1>5. /\ resp \in [opened: BOOLEAN, closes: Nat, releases: Nat]
        /\ data \in [read: Nat, written: Nat, intact: BOOLEAN]
        /\ src \in [closed: BOOLEAN, callback: BOOLEAN]
        /\ aclosed \in BOOLEAN
    BY DEF Init
  <1> QED BY <1>2, <1>3, <1>4, <1>5 DEF StreamsTypeOK

(* What the calls of the client, the reading and the writing change. *)
Responses == [opened: BOOLEAN, closes: Nat, releases: Nat]

Called ==
    \/ resp' = resp
    \/ resp' = [resp EXCEPT !.opened = TRUE]
    \/ resp' = [resp EXCEPT !.closes = @ + 1]
    \/ resp' = [resp EXCEPT !.releases = @ + 1]

LEMMA CalledType ==
    ASSUME resp \in Responses, Called
    PROVE  resp' \in Responses
  <1> USE DEF Responses
  <1>1. CASE resp' = resp
    BY <1>1
  <1>2. CASE resp' = [resp EXCEPT !.opened = TRUE]
    BY <1>2
  <1>3. CASE resp' = [resp EXCEPT !.closes = @ + 1]
    BY <1>3
  <1>4. CASE resp' = [resp EXCEPT !.releases = @ + 1]
    BY <1>4
  <1> QED BY <1>1, <1>2, <1>3, <1>4 DEF Called

Copies == [read: Nat, written: Nat, intact: BOOLEAN]

LEMMA DataType ==
    ASSUME data \in Copies,
           \/ data' = data
           \/ data' = [data EXCEPT !.read = @ + 1]
           \/ data' = [data EXCEPT !.written = @ + 1]
           \/ data' = [data EXCEPT !.intact = FALSE]
    PROVE  data' \in Copies
  <1> USE DEF Copies
  <1>1. CASE data' = data
    BY <1>1
  <1>2. CASE data' = [data EXCEPT !.read = @ + 1]
    BY <1>2
  <1>3. CASE data' = [data EXCEPT !.written = @ + 1]
    BY <1>3
  <1>4. CASE data' = [data EXCEPT !.intact = FALSE]
    BY <1>4
  <1> QED BY <1>1, <1>2, <1>3, <1>4

LEMMA OpenType ==
    ASSUME StreamsTypeOK, OpenStep
    PROVE  /\ StreamsTypeOK'
           /\ plan' = plan
           /\ Cancels' >= Cancels
  <1>1. <<>> \in Lefts /\ <<FALSE>> \in Lefts
    BY EmptySeq, OneClose DEF Lefts
  <1>2. /\ opener' \in Openings
        /\ resp' \in [opened: BOOLEAN, closes: Nat, releases: Nat]
        /\ plan' = plan /\ src' = src /\ aclosed' = aclosed /\ data' = data
    <2>1. UNCHANGED <<plan, src, aclosed, data>>
      BY DEF OpenStep, StatObject, GetObjectStream, CloseUnsized, LandOpen, Opened,
             CancelOpen, CancelCompatOpen, DrainOpen, DropOpened, CancelDrop
    <2>2. opener' \in Openings
      <3>1. CASE StatObject \/ GetObjectStream \/ CloseUnsized \/ LandOpen
        BY <3>1 DEF StatObject, GetObjectStream, CloseUnsized, LandOpen, Openings
      <3>2. CASE \/ Opened \/ CancelOpen \/ CancelCompatOpen \/ DrainOpen
                 \/ DropOpened \/ CancelDrop
        BY <3>2 DEF Opened, CancelOpen, CancelCompatOpen, DrainOpen, DropOpened,
                    CancelDrop, Openings, StreamsTypeOK
      <3> QED BY <3>1, <3>2 DEF OpenStep
    <2>3. Called
      BY DEF Called, OpenStep, StatObject, GetObjectStream, CloseUnsized, LandOpen, Opened,
             CancelOpen, CancelCompatOpen, DrainOpen, DropOpened, CancelDrop
    <2> QED BY <2>1, <2>2, <2>3, CalledType DEF StreamsTypeOK, Responses
  <1>3. /\ budget' \in [faults: Nat, cancels: 0 .. MaxCancels]
        /\ Cancels' >= Cancels
    <2>1. Fault \/ Cancellation \/ NoFault
      BY DEF OpenStep, StatObject, GetObjectStream, CloseUnsized, LandOpen, Opened,
             CancelOpen, CancelCompatOpen, DrainOpen, DropOpened, CancelDrop, NoFault
    <2> QED BY <2>1, BudgetFacts
  <1>4. closeOf' \in [Tasks -> [1 .. 2 -> CloseStates]]
    <2>1. closeOf' = closeOf \/ closeOf' = [closeOf EXCEPT !["reader"][1] = "close"]
      BY DEF OpenStep, StatObject, GetObjectStream, CloseUnsized, LandOpen, Opened,
             CancelOpen, CancelCompatOpen, DrainOpen, DropOpened, CancelDrop
    <2> QED BY <2>1 DEF StreamsTypeOK, CloseStates
  <1>5. task' \in [Tasks -> TaskStates]
    <2>1. CASE StatObject \/ GetObjectStream \/ CloseUnsized \/ LandOpen
      BY <2>1 DEF StreamsTypeOK, StatObject, GetObjectStream, CloseUnsized, LandOpen
    <2>2. \A state \in TaskStates :
             task' = [task EXCEPT !["reader"] = state] => task' \in [Tasks -> TaskStates]
      BY DEF StreamsTypeOK, Tasks
    <2>3. task["reader"] \in TaskStates
      BY DEF StreamsTypeOK, Tasks
    <2>4. CASE \/ Opened \/ CancelOpen \/ CancelCompatOpen \/ DrainOpen
               \/ DropOpened \/ CancelDrop
      BY <2>2, <2>3, <2>4, <1>1
      DEF TaskStates, Points, Failure, Opened, CancelOpen, CancelCompatOpen, DrainOpen,
          DropOpened, CancelDrop
    <2> QED BY <2>1, <2>4 DEF OpenStep
  <1> QED BY <1>2, <1>3, <1>4, <1>5 DEF StreamsTypeOK

LEMMA TypeStep ==
    ASSUME StreamsTypeOK, \A t \in Tasks : ControlInv(t), StepKinds
    PROVE  /\ StreamsTypeOK'
           /\ plan' = plan
           /\ Cancels' >= Cancels
  <1> USE DEF Closes
  <1>1. CASE OpenStep
    BY <1>1, OpenType
  <1>2. CASE Transfer
    <2>1. Fault \/ NoFault
      BY <1>2 DEF Transfer, ReadChunk, Damage, Written, NoFault
    <2>2. /\ data' \in [read: Nat, written: Nat, intact: BOOLEAN]
          /\ task' \in [Tasks -> TaskStates]
      <3>1. \/ data' = data
            \/ data' = [data EXCEPT !.read = @ + 1]
            \/ data' = [data EXCEPT !.written = @ + 1]
            \/ data' = [data EXCEPT !.intact = FALSE]
        BY <1>2 DEF Transfer, ReadChunk, Damage, Written
      <3>2. \/ task' = task
            \/ task' = [task EXCEPT !["reader"].pc = "writing"]
            \/ task' = [task EXCEPT !["reader"].pc = "reading"]
        <4>1. CASE ReadChunk
          BY <4>1, Zenon DEF ReadChunk
        <4>2. CASE Damage
          BY <4>2 DEF Damage
        <4>3. CASE Written
          BY <4>3 DEF Written
        <4> QED BY <1>2, <4>1, <4>2, <4>3 DEF Transfer
      <3>3. task' \in [Tasks -> TaskStates]
        BY <3>2 DEF StreamsTypeOK, TaskStates, Points
      <3> QED BY <3>1, <3>3, DataType DEF StreamsTypeOK, Copies
    <2>3. UNCHANGED <<plan, opener, resp, src, aclosed, closeOf>>
      BY <1>2 DEF Transfer, ReadChunk, Damage, Written
    <2> QED BY <2>1, <2>2, <2>3, BudgetFacts DEF StreamsTypeOK
  <1>3. ASSUME NEW failure \in Stops, NEW inner \in BOOLEAN, Stop(failure, inner)
        PROVE  StreamsTypeOK' /\ plan' = plan /\ Cancels' >= Cancels
    <2>1. PICK left \in Lefts :
             /\ left # <<>>
             /\ \/ ToClose("reader", failure, left)
                \/ Leaves("reader", CopyChecked(failure))
      BY <1>3, StopFacts
    <2>2. failure \in Failure /\ CopyChecked(failure) \in Failure /\ "reader" \in Tasks
      BY FailureFacts DEF Tasks
    <2>3. task' \in [Tasks -> TaskStates] /\ closeOf' \in [Tasks -> [1 .. 2 -> CloseStates]]
      BY <2>1, <2>2, ToCloseAt, LeavesAt DEF StreamsTypeOK
    <2>4. Fault \/ NoFault \/ Cancellation
      BY <1>3 DEF Stop
    <2>5. UNCHANGED <<plan, opener, resp, src, aclosed, data>>
      BY <1>3 DEF Stop
    <2> QED BY <2>3, <2>4, <2>5, BudgetFacts DEF StreamsTypeOK
  <1>4. ASSUME NEW t \in Tasks, NEW k \in 1 .. 2, CloseStep(t, k)
        PROVE  StreamsTypeOK' /\ plan' = plan /\ Cancels' >= Cancels
    <2>1. /\ UNCHANGED <<plan, opener, aclosed, task, data>>
          /\ closeOf' \in [Tasks -> [1 .. 2 -> CloseStates]]
      BY <1>4 DEF CloseStep, SourceClose, CallClose, CallRelease, StreamsTypeOK,
                  CloseStates
    <2>2. /\ src' \in [closed: BOOLEAN, callback: BOOLEAN]
          /\ resp' \in [opened: BOOLEAN, closes: Nat, releases: Nat]
          /\ Fault \/ NoFault
      <3>1. Fault \/ NoFault
        BY <1>4 DEF CloseStep, SourceClose, CallClose, CallRelease, NoFault
      <3>2. src' = src \/ src' = [closed |-> TRUE, callback |-> FALSE]
        BY <1>4 DEF CloseStep, SourceClose
      <3>3. Called
        BY <1>4 DEF Called, CloseStep, CallClose, CallRelease
      <3>4. resp' \in Responses
        BY <3>3, CalledType DEF StreamsTypeOK, Responses
      <3>5. src' \in [closed: BOOLEAN, callback: BOOLEAN]
        <4>1. [closed |-> TRUE, callback |-> FALSE] \in [closed: BOOLEAN, callback: BOOLEAN]
          OBVIOUS
        <4> QED BY <3>2, <4>1, Zenon DEF StreamsTypeOK
      <3> QED BY <3>1, <3>4, <3>5 DEF Responses
    <2> QED BY <2>1, <2>2, BudgetFacts DEF StreamsTypeOK
  <1>5. ASSUME NEW t \in Tasks, NEW error \in Errors, Done(t, error)
        PROVE  StreamsTypeOK' /\ plan' = plan /\ Cancels' >= Cancels
    <2> DEFINE left == Tail(task[t].left)
               failure == Told(t, error)
    <2>1. left \in Lefts /\ failure \in Failure /\ CopyChecked(failure) \in Failure
      BY <1>5, CloseFacts, ToldFacts, FailureFacts DEF Done
    <2>2. \/ left # <<>> /\ ToClose(t, failure, left)
          \/ Leaves(t, failure)
          \/ Leaves(t, CopyChecked(failure))
      BY <1>5, DoneFacts
    <2> HIDE DEF left, failure
    <2>3. task' \in [Tasks -> TaskStates] /\ closeOf' \in [Tasks -> [1 .. 2 -> CloseStates]]
      BY <2>1, <2>2, ToCloseAt, LeavesAt DEF StreamsTypeOK
    <2>4. NoFault \/ Cancellation
      BY <1>5 DEF Done, NoFault
    <2>5. UNCHANGED <<plan, opener, resp, src, data>> /\ aclosed' \in BOOLEAN
      BY <1>5 DEF Done
    <2> QED BY <2>3, <2>4, <2>5, BudgetFacts DEF StreamsTypeOK
  <1>6. ASSUME NEW t \in Tasks, Drain(t)
        PROVE  StreamsTypeOK' /\ plan' = plan /\ Cancels' >= Cancels
    <2>1. UNCHANGED <<plan, opener, resp, src, aclosed, data, closeOf>> /\ Cancellation
      BY <1>6 DEF Drain
    <2>2. task' \in [Tasks -> TaskStates]
      BY <1>6 DEF Drain, StreamsTypeOK, TaskStates, Points
    <2> QED BY <2>1, <2>2, BudgetFacts DEF StreamsTypeOK
  <1>7. ASSUME NEW t \in Tasks, CutClose(t)
        PROVE  StreamsTypeOK' /\ plan' = plan /\ Cancels' >= Cancels
    <2>1. UNCHANGED <<plan, opener, resp, src, aclosed, data>> /\ Cancellation
      BY <1>7 DEF CutClose
    <2>2. AtClose(t)
      BY <1>7 DEF CutClose, AtClose
    <2>3. /\ closeOf' \in Closes
          /\ \E left \in Lefts, pc \in Points :
                task' = [task EXCEPT ![t] = [pc |-> pc, left |-> left, failure |-> "cancelled"]]
      <3> DEFINE left == Tail(task[t].left)
      <3>1. left \in Lefts /\ <<>> \in Lefts
        <4>1. <<>> \in Lefts
          BY EmptySeq DEF Lefts
        <4> QED BY <2>2, <4>1, CloseFacts
      <3>2. /\ closeOf' \in Closes
            /\ LET again == left # <<>> /\ ~aclosed
               IN  task' = [task EXCEPT ![t] =
                     [pc |-> IF again THEN "closing" ELSE "over",
                      left |-> IF again THEN left ELSE <<>>,
                      failure |-> "cancelled"]]
        BY <1>7, CutFacts
      <3> HIDE DEF left
      <3> QED BY <3>1, <3>2 DEF Points
    <2>4. task' \in [Tasks -> TaskStates]
      BY <2>3 DEF StreamsTypeOK, TaskStates, Failure
    <2> QED BY <2>1, <2>3, <2>4, BudgetFacts DEF StreamsTypeOK
  <1>8. CASE OtherCloses
    <2>1. UNCHANGED <<plan, opener, resp, src, aclosed, data>> /\ NoFault
      BY <1>8 DEF OtherCloses, NoFault
    <2>2. /\ "closer" \in Tasks /\ "none" \in Failure /\ <<FALSE>> \in Lefts
          /\ <<FALSE>> # <<>>
      BY OneClose DEF Tasks, Failure
    <2>3. ToClose("closer", "none", <<FALSE>>) \/ Leaves("closer", "none")
      BY <1>8, ProceedFacts DEF OtherCloses, StreamsTypeOK
    <2>4. task' \in [Tasks -> TaskStates] /\ closeOf' \in [Tasks -> [1 .. 2 -> CloseStates]]
      BY <2>2, <2>3, ToCloseAt, LeavesAt DEF StreamsTypeOK
    <2> QED BY <2>1, <2>4, BudgetFacts DEF StreamsTypeOK
  <1>9. CASE UNCHANGED vars
    BY <1>9, BudgetFacts DEF vars, StreamsTypeOK, NoFault
  <1>10. CASE StopUnstarted
    <2>1. UNCHANGED <<plan, opener, resp, src, aclosed, closeOf, data>> /\ NoFault
      BY <1>10 DEF StopUnstarted, NoFault
    <2>2. task' \in [Tasks -> TaskStates]
      <3>1. task' = [task EXCEPT !["reader"] =
                                   [@ EXCEPT !.pc = "over", !.failure = "stopped"]]
        BY <1>10 DEF StopUnstarted
      <3>2. /\ task \in [Tasks -> TaskStates]
            /\ task["reader"] \in TaskStates
        BY DEF StreamsTypeOK, Tasks
      <3>3. [task["reader"] EXCEPT !.pc = "over", !.failure = "stopped"] \in TaskStates
        BY <3>2 DEF TaskStates, Points, Failure
      <3> QED BY <3>1, <3>2, <3>3
    <2> QED BY <2>1, <2>2, BudgetFacts DEF StreamsTypeOK
  <1> QED BY <1>1, <1>2, <1>3, <1>4, <1>5, <1>6, <1>7, <1>8, <1>9, <1>10
          DEF StepKinds

-----------------------------------------------------------------------------
(* Control *)

LEMMA CloseStepAt ==
    ASSUME StreamsTypeOK, NEW t \in Tasks, NEW k \in 1 .. 2, CloseStep(t, k)
    PROVE  /\ closeOf[t][k] \notin {"none", "ok", "failed"}
           /\ closeOf'[t][k] # "none"
           /\ \A u \in Tasks, j \in 1 .. 2 :
                 u # t \/ j # k => closeOf'[u][j] = closeOf[u][j]
           /\ UNCHANGED <<plan, opener, aclosed, task, data>>
  BY DEF CloseStep, SourceClose, CallClose, CallRelease, StreamsTypeOK

LEMMA ControlCases ==
    ASSUME NEW state, NEW closes
    PROVE  /\ state.pc \in {"closing", "draining"} /\ state.left # <<>>
                 /\ closes[Len(state.left)] # "none"
                 /\ (\A k \in 1 .. 2 : k < Len(state.left) => closes[k] = "none")
              => ControlOf(state, closes)
           /\ state.pc = "over" /\ state.left = <<>> => ControlOf(state, closes)
           /\ state.pc = "dropping" /\ state.failure = "cancelled"
                 /\ closes[1] # "none" /\ closes[2] = "none"
              => ControlOf(state, closes)
           /\ state.pc \notin {"closing", "draining", "dropping"}
                 /\ state.left = <<>> /\ state.failure = "none"
                 /\ closes[1] = "none" /\ closes[2] = "none"
              => ControlOf(state, closes)
  BY DEF ControlOf

LEMMA CancelsType ==
    ASSUME StreamsTypeOK PROVE Cancels \in Nat
  BY BudgetFacts

(* A task whose place and closes are left alone keeps its invariant. *)
LEMMA ControlKept ==
    ASSUME StreamsTypeOK, StreamsTypeOK', plan' = plan, Cancels' >= Cancels,
           NEW t \in Tasks, ControlInv(t), task'[t] = task[t],
           closeOf'[t] = closeOf[t]
    PROVE  ControlInv(t)'
  <1>1. Cancels \in Nat
    BY BudgetFacts
  <1>2. Cancels' \in Nat
    BY StreamsAssumption DEF StreamsTypeOK, Cancels
  <1>3. Cancels > 0 => Cancels' > 0
    BY <1>1, <1>2
  <1>4. Async' = Async
    BY DEF Async
  <1> QED BY <1>3, <1>4 DEF ControlInv

(* The opening concerns the reading task only. *)
LEMMA OpenAt ==
    ASSUME StreamsTypeOK, OpenStep
    PROVE  /\ task'["closer"] = task["closer"]
           /\ closeOf'["closer"] = closeOf["closer"]
           /\ closeOf'["reader"][2] = closeOf["reader"][2]
           /\ \/ closeOf' = closeOf
              \/ DrainOpen /\ closeOf'["reader"][1] = "close"
           /\ \/ task' = task
              \/ task["reader"].pc \in {"opening", "openDrain", "dropping"}
           /\ UNCHANGED <<plan, src, aclosed, data>>
  <1> USE DEF StreamsTypeOK, Tasks
  <1>1. CASE StatObject \/ GetObjectStream \/ CloseUnsized \/ LandOpen
    BY <1>1 DEF StatObject, GetObjectStream, CloseUnsized, LandOpen
  <1>2. CASE Opened \/ CancelOpen \/ CancelCompatOpen
    BY <1>2 DEF Opened, CancelOpen, CancelCompatOpen
  <1>3. CASE DrainOpen
    <2>1. /\ UNCHANGED <<plan, src, aclosed, data>>
          /\ task["reader"].pc = "openDrain"
          /\ \E s : task' = [task EXCEPT !["reader"] = s]
      BY <1>3 DEF DrainOpen
    <2>2. \/ closeOf' = closeOf
          \/ closeOf' = [closeOf EXCEPT !["reader"][1] = "close"]
      BY <1>3 DEF DrainOpen
    <2> QED BY <1>3, <2>1, <2>2
  <1>4. CASE DropOpened \/ CancelDrop
    BY <1>4 DEF DropOpened, CancelDrop
  <1> QED BY <1>1, <1>2, <1>3, <1>4 DEF OpenStep

LEMMA OpenControl ==
    ASSUME StreamsTypeOK, StreamsTypeOK', \A t \in Tasks : ControlInv(t), OpenStep,
           Cancels' >= Cancels
    PROVE  \A t \in Tasks : ControlInv(t)'
  <1> USE DEF Tasks
  <1>1. ControlInv("closer")'
    BY OpenAt, ControlKept
  <1>2. ControlInv("reader")'
    <2> DEFINE s == task["reader"]
               c == closeOf["reader"]
    <2>1. CASE task' = task /\ closeOf' = closeOf
      BY <2>1, OpenAt, ControlKept
    <2>2. s \in TaskStates /\ ControlOf(s, c)
      BY DEF StreamsTypeOK, ControlInv
    <2>3. s.pc \in {"opening", "openDrain"} =>
             s.left = <<>> /\ s.failure = "none" /\ c[1] = "none" /\ c[2] = "none"
      BY <2>2 DEF ControlOf
    <2>4. task \in [Tasks -> TaskStates] /\ "reader" \in Tasks
      BY DEF StreamsTypeOK
    <2>5. CASE Opened \/ CancelOpen \/ CancelCompatOpen
      <3>1. closeOf' = closeOf
        BY <2>5 DEF Opened, CancelOpen, CancelCompatOpen
      <3>2. /\ task'["reader"].left = <<>>
            /\ \/ task'["reader"].pc = "over"
               \/ /\ task'["reader"].pc \in {"reading", "openDrain"}
                  /\ task'["reader"].failure = "none"
                  /\ c[1] = "none" /\ c[2] = "none"
        <4>1. s.pc \in {"opening", "openDrain"}
          BY <2>5 DEF Opened, CancelOpen, CancelCompatOpen
        <4>2. \/ task'["reader"] = [s EXCEPT !.pc = "reading"]
              \/ task'["reader"] = [s EXCEPT !.pc = "over", !.failure = "openError"]
              \/ task'["reader"] = [s EXCEPT !.pc = "over", !.failure = "cancelled"]
              \/ task'["reader"] = [s EXCEPT !.pc = "openDrain"]
          BY <2>4, <2>5 DEF Opened, CancelOpen, CancelCompatOpen
        <4> HIDE DEF s, c
        <4> QED BY <2>2, <2>3, <4>1, <4>2 DEF TaskStates
      <3> QED BY <3>1, <3>2, ControlCases DEF ControlInv
    <2>6. CASE DrainOpen
      <3>1. \/ /\ task'["reader"].pc = "dropping"
               /\ task'["reader"].failure = "cancelled"
               /\ closeOf'["reader"][1] = "close" /\ closeOf'["reader"][2] = "none"
            \/ task'["reader"].pc = "over" /\ task'["reader"].left = <<>>
        <4>1. CASE opener = "open"
          <5>1. task'["reader"] = [pc |-> "dropping", failure |-> "cancelled", left |-> <<FALSE>>]
            BY <2>4, <2>6, <4>1 DEF DrainOpen
          <5>2. closeOf' = [closeOf EXCEPT !["reader"][1] = "close"]
            BY <2>6, <4>1 DEF DrainOpen
          <5>3. closeOf'["reader"][1] = "close" /\ closeOf'["reader"][2] = c[2]
            BY <5>2 DEF StreamsTypeOK
          <5>4. task'["reader"].pc = "dropping" /\ task'["reader"].failure = "cancelled"
            BY <5>1
          <5>5. s.pc = "openDrain"
            BY <2>6 DEF DrainOpen
          <5> QED BY <2>3, <5>3, <5>4, <5>5
        <4>2. CASE opener # "open"
          <5>1. task'["reader"] = [s EXCEPT !.pc = "over", !.failure = "openError"]
            BY <2>4, <2>6, <4>2 DEF DrainOpen
          <5>2. s.left = <<>>
            BY <2>3, <2>6 DEF DrainOpen
          <5> QED BY <2>2, <5>1, <5>2 DEF TaskStates
        <4> QED BY <4>1, <4>2
      <3> QED BY <3>1, ControlCases DEF ControlInv
    <2>7. CASE DropOpened \/ CancelDrop
      <3>1. task'["reader"].pc = "over" /\ task'["reader"].left = <<>>
        <4>1. CASE DropOpened
          BY <2>4, <4>1 DEF DropOpened
        <4>2. CASE CancelDrop
          <5>1. task'["reader"] = [task["reader"] EXCEPT !.pc = "over", !.left = <<>>]
            BY <2>4, <4>2 DEF CancelDrop
          <5> QED BY <2>2, <5>1 DEF TaskStates
        <4> QED BY <2>7, <4>1, <4>2
      <3> QED BY <3>1, ControlCases DEF ControlInv
    <2> QED BY <2>1, <2>5, <2>6, <2>7
            DEF OpenStep, StatObject, GetObjectStream, CloseUnsized, LandOpen
  <1> QED BY <1>1, <1>2

(* What the other kinds of step do, at the tasks and their closes. *)
LEMMA TransferAt ==
    ASSUME StreamsTypeOK, Transfer
    PROVE  /\ UNCHANGED <<plan, opener, resp, src, aclosed, closeOf>>
           /\ Cancels' = Cancels
           /\ task'["closer"] = task["closer"]
           /\ task["reader"].pc \in {"reading", "writing"}
           /\ task'["reader"].pc \in {"reading", "writing"}
           /\ plan.use # "copy" => task'["reader"].pc # "writing" \/ task' = task
           /\ task'["reader"].left = task["reader"].left
           /\ task'["reader"].failure = task["reader"].failure
  <1> USE DEF Tasks
  <1> DEFINE s == task["reader"]
  <1>1. /\ UNCHANGED <<plan, opener, resp, src, aclosed, closeOf>>
        /\ Fault \/ NoFault
        /\ s.pc \in {"reading", "writing"}
    BY DEF Transfer, ReadChunk, Damage, Written, NoFault
  <1>2. \/ task' = task
        \/ /\ plan.use = "copy"
           /\ task' = [task EXCEPT !["reader"].pc = "writing"]
        \/ task' = [task EXCEPT !["reader"].pc = "reading"]
    BY DEF Transfer, ReadChunk, Damage, Written
  <1>3. task \in [Tasks -> TaskStates]
    BY DEF StreamsTypeOK
  <1>4. /\ task'["closer"] = task["closer"]
        /\ \/ task' = task
           \/ plan.use = "copy" /\ task'["reader"] = [s EXCEPT !.pc = "writing"]
           \/ task'["reader"] = [s EXCEPT !.pc = "reading"]
    BY <1>2, <1>3
  <1>5. s \in TaskStates
    BY <1>3
  <1> HIDE DEF s
  <1>6. ASSUME NEW p, task'["reader"] = [s EXCEPT !.pc = p]
        PROVE  task'["reader"].pc = p /\ task'["reader"].left = s.left
                  /\ task'["reader"].failure = s.failure
    BY <1>5, <1>6 DEF TaskStates
  <1> QED BY <1>1, <1>4, <1>6, BudgetFacts DEF s

(* The iterator that was not started leaves everything as the hand-over     *)
(* left it.                                                                *)
LEMMA UnstartedAt ==
    ASSUME StreamsTypeOK, \A t \in Tasks : ControlInv(t), StopUnstarted
    PROVE  /\ UNCHANGED <<plan, opener, resp, src, aclosed, closeOf, data>>
           /\ Cancels' = Cancels
           /\ task'["closer"] = task["closer"]
           /\ task["reader"].pc = "reading" /\ data.read = 0
           /\ task'["reader"].pc = "over" /\ task'["reader"].left = <<>>
           /\ task'["reader"].failure = "stopped"
  <1>1. /\ UNCHANGED <<plan, opener, resp, src, aclosed, closeOf, data, budget>>
        /\ task["reader"].pc = "reading" /\ data.read = 0
        /\ task' = [task EXCEPT !["reader"] =
                                   [@ EXCEPT !.pc = "over", !.failure = "stopped"]]
    BY DEF StopUnstarted, Reading
  <1>2. task \in [Tasks -> TaskStates]
    BY DEF StreamsTypeOK
  <1>3. task["reader"].left = <<>>
    BY <1>1 DEF ControlInv, ControlOf, Tasks
  <1>4. task["reader"] \in TaskStates
    BY <1>2 DEF Tasks
  <1>5. /\ task'["closer"] = task["closer"]
        /\ task'["reader"] = [task["reader"] EXCEPT !.pc = "over", !.failure = "stopped"]
    BY <1>1, <1>2 DEF Tasks
  <1> QED BY <1>1, <1>3, <1>4, <1>5 DEF TaskStates, Cancels

LEMMA DrainAt ==
    ASSUME StreamsTypeOK, NEW t \in Tasks, Drain(t)
    PROVE  /\ UNCHANGED <<plan, opener, resp, src, aclosed, data, closeOf>>
           /\ Cancels' = Cancels + 1
           /\ Async
           /\ task[t].pc = "closing"
           /\ task'[t].pc = "draining"
           /\ task'[t].left = task[t].left
           /\ task'[t].failure = task[t].failure
           /\ \A u \in Tasks : u # t => task'[u] = task[u]
  <1>1. /\ UNCHANGED <<plan, opener, resp, src, aclosed, data, closeOf>>
        /\ Cancels' = Cancels + 1
        /\ Async
        /\ task[t].pc = "closing"
    BY BudgetFacts DEF Drain
  <1>2. /\ task'[t] = [task[t] EXCEPT !.pc = "draining"]
        /\ \A u \in Tasks : u # t => task'[u] = task[u]
        /\ task[t] \in TaskStates
    BY DEF Drain, StreamsTypeOK
  <1>3. task'[t].pc = "draining" /\ task'[t].left = task[t].left
           /\ task'[t].failure = task[t].failure
    BY <1>2 DEF TaskStates
  <1> QED BY <1>1, <1>2, <1>3

LEMMA CutAt ==
    ASSUME StreamsTypeOK, NEW t \in Tasks, ControlInv(t), CutClose(t)
    PROVE  /\ UNCHANGED <<plan, opener, resp, src, aclosed, data>>
           /\ Cancels' = Cancels + 1
           /\ task[t].pc = "draining"
           /\ \A u \in Tasks : u # t => task'[u] = task[u] /\ closeOf'[u] = closeOf[u]
           /\ task'[t].failure = "cancelled"
           /\ \E state \in CloseStates :
                 /\ Cut(t, state)
                 /\ closeOf'[t][Len(task[t].left)] = state
           /\ \/ /\ task'[t].pc = "over" /\ task'[t].left = <<>>
                 /\ \A j \in 1 .. 2 :
                       j # Len(task[t].left) => closeOf'[t][j] = closeOf[t][j]
              \/ /\ task'[t].pc = "closing"
                 /\ task'[t].left = Tail(task[t].left)
                 /\ task'[t].left # <<>>
                 /\ Len(task[t].left) = 2 /\ Len(task'[t].left) = 1
                 /\ closeOf'[t][1] = "close"
                 /\ ~aclosed
  <1>1. /\ UNCHANGED <<plan, opener, resp, src, aclosed, data>>
        /\ Cancels' = Cancels + 1
        /\ task[t].pc = "draining"
    BY BudgetFacts DEF CutClose
  <1> DEFINE left == Tail(task[t].left)
             again == left # <<>> /\ ~aclosed
             n == Len(task[t].left)
  <1>2. PICK state \in CloseStates :
           /\ Cut(t, state)
           /\ closeOf' \in Closes
           /\ \A u \in Tasks, j \in 1 .. 2 : closeOf'[u][j] =
                 IF u = t /\ j = n THEN state
                 ELSE IF u = t /\ again THEN "close"
                 ELSE closeOf[u][j]
           /\ task' = [task EXCEPT ![t] =
                 [pc |-> IF again THEN "closing" ELSE "over",
                  left |-> IF again THEN left ELSE <<>>,
                  failure |-> "cancelled"]]
    BY CutFacts
  <1>3. /\ n \in 1 .. 2
        /\ left # <<>> => n = 2 /\ Len(left) = 1
    BY <1>1, CloseFacts DEF AtClose
  <1> HIDE DEF left, n
  <1>4. ASSUME NEW u \in Tasks, u # t
        PROVE  task'[u] = task[u] /\ closeOf'[u] = closeOf[u]
    <2>1. task'[u] = task[u]
      BY <1>2, <1>4 DEF StreamsTypeOK
    <2>2. \A j \in 1 .. 2 : closeOf'[u][j] = closeOf[u][j]
      BY <1>2, <1>4
    <2>3. closeOf'[u] \in [1 .. 2 -> CloseStates] /\ closeOf[u] \in [1 .. 2 -> CloseStates]
      BY <1>2 DEF Closes, StreamsTypeOK
    <2> QED BY <2>1, <2>2, <2>3
  <1>5. closeOf'[t][n] = state
    BY <1>2, <1>3
  <1>6. task'[t] = [pc |-> IF again THEN "closing" ELSE "over",
                    left |-> IF again THEN left ELSE <<>>,
                    failure |-> "cancelled"]
    BY <1>2 DEF StreamsTypeOK
  <1>7. task'[t].failure = "cancelled"
    BY <1>6
  <1>8. CASE again
    <2>1. task'[t].pc = "closing" /\ task'[t].left = left
      BY <1>6, <1>8
    <2>2. closeOf'[t][1] = "close"
      BY <1>2, <1>3, <1>8
    <2> QED BY <1>1, <1>2, <1>3, <1>4, <1>5, <1>7, <1>8, <2>1, <2>2 DEF left, n
  <1>9. CASE ~again
    <2>1. task'[t].pc = "over" /\ task'[t].left = <<>>
      BY <1>6, <1>9
    <2>2. \A j \in 1 .. 2 : j # n => closeOf'[t][j] = closeOf[t][j]
      BY <1>2, <1>9
    <2> QED BY <1>1, <1>2, <1>4, <1>5, <1>7, <2>1, <2>2 DEF n
  <1> QED BY <1>8, <1>9

LEMMA DoneAt ==
    ASSUME StreamsTypeOK, NEW t \in Tasks, ControlInv(t), NEW error \in Errors,
           Done(t, error)
    PROVE  LET closed == IF Async THEN aclosed' ELSE src.closed
           IN  /\ UNCHANGED <<plan, opener, resp, src, data>>
               /\ \A u \in Tasks : u # t => task'[u] = task[u] /\ closeOf'[u] = closeOf[u]
               /\ \/ /\ task'[t].pc = "over" /\ task'[t].left = <<>>
                     /\ task'[t].failure = IF t = "closer" THEN Told(t, error)
                                           ELSE CopyChecked(Told(t, error))
                     /\ closeOf' = closeOf
                     /\ Tail(task[t].left) = <<>> \/ closed
                  \/ /\ task'[t].pc = "closing"
                     /\ task'[t].left = Tail(task[t].left)
                     /\ task'[t].left # <<>>
                     /\ task'[t].failure = Told(t, error)
                     /\ Len(task[t].left) = 2 /\ Len(task'[t].left) = 1
                     /\ closeOf'[t][1] = "close" /\ closeOf'[t][2] = closeOf[t][2]
                     /\ ~closed
  <1> DEFINE left == Tail(task[t].left)
             failure == Told(t, error)
             last == IF t = "closer" THEN failure ELSE CopyChecked(failure)
             closed == IF Async THEN aclosed' ELSE src.closed
  <1>1. UNCHANGED <<plan, opener, resp, src, data>> /\ AtClose(t)
    BY DEF Done
  <1>2. /\ left \in Lefts /\ failure \in Failure /\ last \in Failure
        /\ left # <<>> => Len(task[t].left) = 2 /\ Len(left) = 1
    BY <1>1, CloseFacts, ToldFacts, FailureFacts
  <1>3. \/ left # <<>> /\ ToClose(t, failure, left) /\ ~closed
        \/ (left = <<>> \/ closed) /\ Leaves(t, last)
    BY DoneFacts
  <1> HIDE DEF left, failure, last, closed
  <1>4. CASE left # <<>> /\ ToClose(t, failure, left) /\ ~closed
    <2>1. /\ task'[t] = [pc |-> "closing", left |-> left, failure |-> failure]
          /\ closeOf'[t][1] = "close" /\ closeOf'[t][2] = closeOf[t][2]
          /\ \A u \in Tasks : u # t => task'[u] = task[u] /\ closeOf'[u] = closeOf[u]
      <3>1. /\ task'[t] = [pc |-> "closing", left |-> left, failure |-> failure]
            /\ closeOf'[t][Len(left)] = "close"
            /\ \A j \in 1 .. 2 : j # Len(left) => closeOf'[t][j] = closeOf[t][j]
            /\ \A u \in Tasks : u # t => task'[u] = task[u] /\ closeOf'[u] = closeOf[u]
        BY <1>2, <1>4, ToCloseAt
      <3>2. Len(left) = 1
        BY <1>2, <1>4
      <3> QED BY <3>1, <3>2
    <2>2. task'[t].pc = "closing" /\ task'[t].left = left /\ task'[t].failure = failure
      BY <2>1
    <2> QED BY <1>1, <1>2, <1>4, <2>1, <2>2 DEF left, failure, closed
  <1>5. CASE (left = <<>> \/ closed) /\ Leaves(t, last)
    <2>1. /\ task'[t] = [pc |-> "over", left |-> <<>>, failure |-> last]
          /\ closeOf' = closeOf
          /\ \A u \in Tasks : u # t => task'[u] = task[u]
      BY <1>2, <1>5, LeavesAt
    <2>2. task'[t].pc = "over" /\ task'[t].left = <<>> /\ task'[t].failure = last
      BY <2>1
    <2> QED BY <1>1, <1>5, <2>1, <2>2 DEF left, failure, last, closed
  <1> QED BY <1>3, <1>4, <1>5

LEMMA StopAt ==
    ASSUME StreamsTypeOK, NEW failure \in Stops, NEW inner \in BOOLEAN,
           Stop(failure, inner)
    PROVE  /\ UNCHANGED <<plan, opener, resp, src, aclosed, data>>
           /\ Cancels' >= Cancels
           /\ task["reader"].pc \in {"reading", "writing"}
           /\ task'["closer"] = task["closer"] /\ closeOf'["closer"] = closeOf["closer"]
           /\ \/ /\ task'["reader"].pc = "over" /\ task'["reader"].left = <<>>
                 /\ task'["reader"].failure = CopyChecked(failure)
                 /\ closeOf' = closeOf
                 /\ Closed
              \/ /\ task'["reader"].pc = "closing"
                 /\ task'["reader"].left \in Lefts
                 /\ task'["reader"].left # <<>>
                 /\ plan.use # "chunks" => Keeping(task'["reader"].left)
                 /\ task'["reader"].failure = failure
                 /\ Len(task'["reader"].left) \in 1 .. 2
                 /\ closeOf'["reader"][Len(task'["reader"].left)] = "close"
                 /\ \A j \in 1 .. 2 : j # Len(task'["reader"].left) =>
                       closeOf'["reader"][j] = closeOf["reader"][j]
                 /\ ~Closed
  <1>1. /\ UNCHANGED <<plan, opener, resp, src, aclosed, data>>
        /\ task["reader"].pc \in {"reading", "writing"}
        /\ Cancellation \/ Fault \/ NoFault
    BY DEF Stop
  <1>2. Cancels' >= Cancels
    BY <1>1, BudgetFacts
  <1>3. failure \in Failure /\ CopyChecked(failure) \in Failure
    BY FailureFacts
  <1>4. PICK left \in Lefts :
              /\ left # <<>>
              /\ plan.use # "chunks" => Keeping(left)
              /\ \/ ~Closed /\ ToClose("reader", failure, left)
                 \/ Closed /\ Leaves("reader", CopyChecked(failure))
    BY StopFacts
  <1>5. CASE ~Closed /\ ToClose("reader", failure, left)
    <2>1. /\ task'["reader"] = [pc |-> "closing", left |-> left, failure |-> failure]
          /\ Len(left) \in 1 .. 2
          /\ closeOf'["reader"][Len(left)] = "close"
          /\ \A j \in 1 .. 2 :
                j # Len(left) => closeOf'["reader"][j] = closeOf["reader"][j]
          /\ task'["closer"] = task["closer"] /\ closeOf'["closer"] = closeOf["closer"]
      BY <1>3, <1>4, <1>5, ToCloseAt DEF Tasks
    <2>2. /\ task'["reader"].pc = "closing" /\ task'["reader"].left = left
          /\ task'["reader"].failure = failure
      BY <2>1
    <2> QED BY <1>1, <1>2, <1>4, <1>5, <2>1, <2>2
  <1>6. CASE Closed /\ Leaves("reader", CopyChecked(failure))
    <2>1. /\ task'["reader"] =
                [pc |-> "over", left |-> <<>>, failure |-> CopyChecked(failure)]
          /\ closeOf' = closeOf
          /\ task'["closer"] = task["closer"]
      BY <1>3, <1>6, LeavesAt DEF Tasks
    <2>2. /\ task'["reader"].pc = "over" /\ task'["reader"].left = <<>>
          /\ task'["reader"].failure = CopyChecked(failure)
      BY <2>1
    <2> QED BY <1>1, <1>2, <1>6, <2>1, <2>2
  <1> QED BY <1>4, <1>5, <1>6

LEMMA OtherAt ==
    ASSUME StreamsTypeOK, OtherCloses
    PROVE  /\ UNCHANGED <<plan, opener, resp, src, aclosed, data, budget>>
           /\ Async
           /\ task["closer"].pc = "idle" /\ Handed
           /\ task'["reader"] = task["reader"] /\ closeOf'["reader"] = closeOf["reader"]
           /\ task'["closer"].failure = "none"
           /\ \/ /\ task'["closer"].pc = "over" /\ task'["closer"].left = <<>>
                 /\ closeOf' = closeOf
              \/ /\ task'["closer"].pc = "closing" /\ task'["closer"].left = <<FALSE>>
                 /\ closeOf'["closer"][1] = "close"
                 /\ closeOf'["closer"][2] = closeOf["closer"][2]
  <1>1. /\ UNCHANGED <<plan, opener, resp, src, aclosed, data, budget>>
        /\ Async
        /\ task["closer"].pc = "idle" /\ Handed
    BY DEF OtherCloses, Handed
  <1>2. PICK left \in Lefts : left = <<FALSE>> /\ left # <<>>
    BY OneClose
  <1>3. /\ "closer" \in Tasks /\ "none" \in Failure
        /\ Len(left) = 1 /\ "reader" \in Tasks /\ left # <<>>
    BY <1>2 DEF Tasks, Failure
  <1>4. left # <<>>
    BY <1>2
  <1>5. ToClose("closer", "none", left) \/ Leaves("closer", "none")
    BY <1>2, ProceedFacts DEF OtherCloses, StreamsTypeOK
  <1>6. CASE ToClose("closer", "none", left)
    <2>1. /\ task'["closer"] = [pc |-> "closing", left |-> left, failure |-> "none"]
          /\ closeOf'["closer"][Len(left)] = "close"
          /\ \A j \in 1 .. 2 :
                j # Len(left) => closeOf'["closer"][j] = closeOf["closer"][j]
          /\ task'["reader"] = task["reader"] /\ closeOf'["reader"] = closeOf["reader"]
      <3>1. PICK t \in Tasks, failure \in Failure : t = "closer" /\ failure = "none"
        BY <1>3
      <3>2. ToClose(t, failure, left)
        BY <1>6, <3>1
      <3>3. /\ task'[t] = [pc |-> "closing", left |-> left, failure |-> failure]
            /\ closeOf'[t][Len(left)] = "close"
            /\ \A j \in 1 .. 2 : j # Len(left) => closeOf'[t][j] = closeOf[t][j]
            /\ \A u \in Tasks : u # t => task'[u] = task[u] /\ closeOf'[u] = closeOf[u]
        BY <1>4, <3>2, ToCloseAt
      <3> QED BY <1>3, <3>1, <3>3
    <2>2. /\ task'["closer"].pc = "closing" /\ task'["closer"].left = left
          /\ task'["closer"].failure = "none"
      BY <2>1
    <2>3. closeOf'["closer"][1] = "close" /\ closeOf'["closer"][2] = closeOf["closer"][2]
      BY <1>3, <2>1
    <2> QED BY <1>1, <1>2, <2>1, <2>2, <2>3
  <1>7. CASE Leaves("closer", "none")
    <2>1. /\ task'["closer"] = [pc |-> "over", left |-> <<>>, failure |-> "none"]
          /\ closeOf' = closeOf
          /\ task'["reader"] = task["reader"]
      BY <1>3, <1>7, LeavesAt
    <2>2. /\ task'["closer"].pc = "over" /\ task'["closer"].left = <<>>
          /\ task'["closer"].failure = "none"
      BY <2>1
    <2> QED BY <1>1, <2>1, <2>2
  <1> QED BY <1>5, <1>6, <1>7

LEMMA CloseStepControl ==
    ASSUME StreamsTypeOK, StreamsTypeOK', \A t \in Tasks : ControlInv(t),
           NEW t \in Tasks, NEW k \in 1 .. 2, CloseStep(t, k), Cancels' >= Cancels
    PROVE  \A u \in Tasks : ControlInv(u)'
  <1>1. /\ closeOf[t][k] # "none"
        /\ closeOf'[t][k] # "none"
        /\ \A u \in Tasks, j \in 1 .. 2 :
              u # t \/ j # k => closeOf'[u][j] = closeOf[u][j]
        /\ UNCHANGED <<plan, task>>
    BY CloseStepAt
  <1>2. ASSUME NEW u \in Tasks PROVE ControlInv(u)'
    <2>1. \A j \in 1 .. 2 : closeOf'[u][j] = "none" <=> closeOf[u][j] = "none"
      BY <1>1
    <2>2. task[u].pc \in {"closing", "draining"} => Len(task[u].left) \in 1 .. 2
      BY CloseFacts DEF AtClose
    <2>3. ControlOf(task[u], closeOf[u])
      BY DEF ControlInv
    <2>4. ControlOf(task[u], closeOf'[u])
      <3>1. 1 \in 1 .. 2 /\ 2 \in 1 .. 2
        OBVIOUS
      <3> QED BY <2>1, <2>2, <2>3, <3>1, Zenon DEF ControlOf
    <2>5. Cancels > 0 => Cancels' > 0
      <3>1. Cancels \in Nat /\ Cancels' \in Nat
        BY StreamsAssumption DEF StreamsTypeOK, Cancels
      <3> QED BY <3>1
    <2>6. Async' = Async
      BY <1>1 DEF Async
    <2> QED BY <1>1, <2>4, <2>5, <2>6 DEF ControlInv
  <1> QED BY <1>2

LEMMA ControlStep ==
    ASSUME StreamsTypeOK, StreamsTypeOK', \A t \in Tasks : ControlInv(t), StepKinds,
           plan' = plan, Cancels' >= Cancels
    PROVE  \A t \in Tasks : ControlInv(t)'
  <1>0. Cancels \in Nat /\ Cancels' \in Nat
    BY StreamsAssumption DEF StreamsTypeOK, Cancels
  <1>1. CASE OpenStep
    BY <1>1, OpenControl
  <1>2. CASE Transfer
    <2>1. ControlInv("closer")'
      BY <1>2, TransferAt, ControlKept DEF Tasks
    <2>2. ControlOf(task["reader"], closeOf["reader"])
      BY DEF ControlInv, Tasks
    <2>3. /\ task["reader"].left = <<>> /\ task["reader"].failure = "none"
          /\ closeOf["reader"][1] = "none" /\ closeOf["reader"][2] = "none"
      BY <1>2, <2>2, TransferAt DEF ControlOf
    <2>4. ControlOf(task'["reader"], closeOf'["reader"])
      BY <1>2, <2>3, TransferAt, ControlCases
    <2>5. task'["reader"].pc # "draining"
      BY <1>2, TransferAt
    <2> QED BY <2>1, <2>4, <2>5 DEF ControlInv, Tasks
  <1>3. ASSUME NEW failure \in Stops, NEW inner \in BOOLEAN, Stop(failure, inner)
        PROVE  \A t \in Tasks : ControlInv(t)'
    <2>1. ControlInv("closer")'
      BY <1>3, StopAt, ControlKept DEF Tasks
    <2>2. ControlOf(task["reader"], closeOf["reader"])
      BY DEF ControlInv, Tasks
    <2>3. closeOf["reader"][1] = "none" /\ closeOf["reader"][2] = "none"
      BY <1>3, <2>2, StopAt DEF ControlOf
    <2> DEFINE s == task'["reader"]
               c == closeOf'["reader"]
    <2>4. CASE s.pc = "over" /\ s.left = <<>>
      BY <2>1, <2>4, ControlCases DEF ControlInv, Tasks
    <2>5. CASE /\ s.pc = "closing" /\ s.left # <<>>
               /\ Len(s.left) \in 1 .. 2
               /\ c[Len(s.left)] = "close"
               /\ \A j \in 1 .. 2 : j # Len(s.left) => c[j] = closeOf["reader"][j]
      <3>1. \A j \in 1 .. 2 : j < Len(s.left) => c[j] = "none"
        <4>1. \A j \in 1 .. 2 : j < Len(s.left) => j # Len(s.left)
          BY <2>5
        <4>2. \A j \in 1 .. 2 : closeOf["reader"][j] = "none"
          BY <2>3
        <4> QED BY <2>5, <4>1, <4>2, Zenon
      <3>2. ControlOf(s, c)
        BY <2>5, <3>1, ControlCases
      <3> QED BY <2>1, <2>5, <3>2 DEF ControlInv, Tasks
    <2> QED BY <1>3, <2>4, <2>5, StopAt
  <1>4. ASSUME NEW t \in Tasks, NEW k \in 1 .. 2, CloseStep(t, k)
        PROVE  \A u \in Tasks : ControlInv(u)'
    BY <1>4, CloseStepControl
  <1>5. ASSUME NEW t \in Tasks, NEW error \in Errors, Done(t, error)
        PROVE  \A u \in Tasks : ControlInv(u)'
    <2>1. ASSUME NEW u \in Tasks, u # t PROVE ControlInv(u)'
      BY <1>5, <2>1, DoneAt, ControlKept
    <2>2. CASE task'[t].pc = "over" /\ task'[t].left = <<>>
      BY <2>1, <2>2, ControlCases DEF ControlInv
    <2>3. CASE /\ task'[t].pc = "closing" /\ task'[t].left # <<>>
               /\ Len(task'[t].left) = 1 /\ closeOf'[t][1] = "close"
      <3>1. \A j \in 1 .. 2 : j < Len(task'[t].left) => closeOf'[t][j] = "none"
        BY <2>3
      <3>2. ControlOf(task'[t], closeOf'[t])
        BY <2>3, <3>1, ControlCases
      <3> QED BY <2>1, <2>3, <3>2 DEF ControlInv
    <2> QED BY <1>5, <2>2, <2>3, DoneAt
  <1>6. ASSUME NEW t \in Tasks, Drain(t) PROVE \A u \in Tasks : ControlInv(u)'
    <2>1. ASSUME NEW u \in Tasks, u # t PROVE ControlInv(u)'
      BY <1>6, <2>1, DrainAt, ControlKept
    <2>2. ControlOf(task[t], closeOf[t])
      BY DEF ControlInv
    <2>3. /\ task[t].pc = "closing" /\ task'[t].pc = "draining"
          /\ task'[t].left = task[t].left
          /\ closeOf' = closeOf
      BY <1>6, DrainAt
    <2>4. /\ task[t].left # <<>>
          /\ closeOf[t][Len(task[t].left)] # "none"
          /\ \A j \in 1 .. 2 : j < Len(task[t].left) => closeOf[t][j] = "none"
      BY <2>2, <2>3 DEF ControlOf
    <2>5. ControlOf(task'[t], closeOf'[t])
      BY <2>3, <2>4, ControlCases
    <2>6. Async' /\ Cancels' > 0
      BY <1>0, <1>6, DrainAt DEF Async
    <2> QED BY <2>1, <2>5, <2>6 DEF ControlInv
  <1>7. ASSUME NEW t \in Tasks, CutClose(t) PROVE \A u \in Tasks : ControlInv(u)'
    <2>1. ASSUME NEW u \in Tasks, u # t PROVE ControlInv(u)'
      BY <1>7, <2>1, CutAt, ControlKept
    <2>2. CASE task'[t].pc = "over" /\ task'[t].left = <<>>
      BY <2>1, <2>2, ControlCases DEF ControlInv
    <2>3. CASE /\ task'[t].pc = "closing" /\ task'[t].left # <<>>
               /\ Len(task'[t].left) = 1 /\ closeOf'[t][1] = "close"
      <3>1. \A j \in 1 .. 2 : j < Len(task'[t].left) => closeOf'[t][j] = "none"
        BY <2>3
      <3>2. ControlOf(task'[t], closeOf'[t])
        BY <2>3, <3>1, ControlCases
      <3> QED BY <2>1, <2>3, <3>2 DEF ControlInv
    <2> QED BY <1>7, <2>2, <2>3, CutAt
  <1>8. CASE OtherCloses
    <2>1. ControlInv("reader")'
      BY <1>8, OtherAt, ControlKept DEF Tasks
    <2>2. CASE task'["closer"].pc = "over" /\ task'["closer"].left = <<>>
      BY <2>1, <2>2, ControlCases DEF ControlInv, Tasks
    <2>3. CASE /\ task'["closer"].pc = "closing" /\ task'["closer"].left = <<FALSE>>
               /\ closeOf'["closer"][1] = "close"
      <3>1. task'["closer"].left # <<>> /\ Len(task'["closer"].left) = 1
        BY <2>3, OneClose
      <3>2. \A j \in 1 .. 2 :
               j < Len(task'["closer"].left) => closeOf'["closer"][j] = "none"
        BY <3>1
      <3>3. ControlOf(task'["closer"], closeOf'["closer"])
        BY <2>3, <3>1, <3>2, ControlCases
      <3> QED BY <2>1, <2>3, <3>3 DEF ControlInv, Tasks
    <2> QED BY <1>8, <2>2, <2>3, OtherAt
  <1>9. CASE UNCHANGED vars
    BY <1>9, ControlKept DEF vars
  <1>10. CASE StopUnstarted
    <2>1. ControlInv("closer")'
      BY <1>10, UnstartedAt, ControlKept DEF Tasks
    <2>2. ControlOf(task'["reader"], closeOf'["reader"])
      BY <1>10, UnstartedAt, ControlCases
    <2> QED BY <1>10, <2>1, <2>2, UnstartedAt DEF ControlInv, Tasks
  <1> QED BY <1>1, <1>2, <1>3, <1>4, <1>5, <1>6, <1>7, <1>8, <1>9, <1>10
          DEF StepKinds

-----------------------------------------------------------------------------
(* The hand-over of the stream *)

LEMMA HandStep ==
    ASSUME StreamsTypeOK, StreamsTypeOK', \A t \in Tasks : ControlInv(t), HandInv,
           StepKinds, plan' = plan, Cancels' >= Cancels
    PROVE  HandInv'
  <1>0. Cancels \in Nat /\ Cancels' \in Nat
    BY StreamsAssumption DEF StreamsTypeOK, Cancels
  <1> USE DEF Tasks
  <1>1. CASE OpenStep
    <2> DEFINE s == task["reader"]
    <2>1. s \in TaskStates /\ s.pc \in Points /\ task \in [Tasks -> TaskStates]
      BY DEF StreamsTypeOK, TaskStates
    <2>2. CASE StatObject \/ GetObjectStream \/ CloseUnsized \/ LandOpen
      BY <1>0, <2>2, OpenAt, <1>1 DEF StatObject, GetObjectStream, CloseUnsized, LandOpen,
                                HandInv, Handed
    <2>3. CASE Opened
      <3>1. /\ s.pc = "opening" /\ opener \in {"open", "failed"}
            /\ \/ opener' = "handed" /\ task'["reader"] = [s EXCEPT !.pc = "reading"]
               \/ /\ opener = "failed" /\ opener' = opener
                  /\ task'["reader"] = [s EXCEPT !.pc = "over", !.failure = "openError"]
        BY <2>1, <2>3 DEF Opened
      <3>2. /\ \/ opener' = "handed" /\ task'["reader"].pc = "reading"
               \/ opener = "failed" /\ opener' = opener /\ task'["reader"].pc = "over"
        BY <2>1, <3>1 DEF TaskStates
      <3> QED BY <1>0, <1>1, <3>1, <3>2, OpenAt DEF HandInv, Handed
    <2>4. CASE CancelOpen
      <3>1. /\ s.pc = "opening" /\ plan.path = "native"
            /\ task'["reader"] = [s EXCEPT !.pc = "over", !.failure = "cancelled"]
            /\ opener' = CASE opener = "stat" -> "failed"
                   [] opener = "get" -> "lastGet"
                   [] opener = "unsized" -> "lastClose"
                   [] opener = "unsizedRelease" -> "lastRelease"
                   [] OTHER -> opener
        BY <2>1, <2>4 DEF CancelOpen
      <3>2. task'["reader"].pc = "over"
        BY <2>1, <3>1 DEF TaskStates
      <3> QED BY <1>0, <1>1, <3>1, <3>2, OpenAt DEF HandInv, Handed
    <2>5. CASE CancelCompatOpen
      <3>1. /\ s.pc \in {"opening", "openDrain"} /\ plan.path = "compat"
            /\ opener' = opener
            /\ Cancels' = Cancels + 1
            /\ \/ task'["reader"] = [s EXCEPT !.pc = "over", !.failure = "cancelled"]
               \/ task'["reader"] = [s EXCEPT !.pc = "openDrain"]
        BY <2>1, <2>5, BudgetFacts DEF CancelCompatOpen
      <3>2. task'["reader"].pc \in {"over", "openDrain"}
        BY <2>1, <3>1 DEF TaskStates
      <3> QED BY <1>0, <1>1, <3>1, <3>2, OpenAt DEF HandInv, Handed
    <2>6. CASE DrainOpen
      <3>1. /\ s.pc = "openDrain"
            /\ opener' = opener
            /\ \/ /\ opener = "open"
                  /\ task'["reader"] = [pc |-> "dropping", failure |-> "cancelled",
                                        left |-> <<FALSE>>]
               \/ /\ opener = "failed"
                  /\ task'["reader"] = [s EXCEPT !.pc = "over", !.failure = "openError"]
        BY <2>1, <2>6 DEF DrainOpen
      <3>2. \/ opener = "open" /\ task'["reader"].pc = "dropping"
            \/ task'["reader"].pc = "over"
        <4>1. CASE /\ opener = "open"
                   /\ task'["reader"] = [pc |-> "dropping", failure |-> "cancelled",
                                         left |-> <<FALSE>>]
          BY <4>1
        <4>2. CASE task'["reader"] = [s EXCEPT !.pc = "over", !.failure = "openError"]
          BY <2>1, <4>2 DEF TaskStates
        <4> QED BY <3>1, <4>1, <4>2
      <3> QED BY <1>0, <1>1, <3>1, <3>2, OpenAt DEF HandInv, Handed
    <2>7. CASE DropOpened \/ CancelDrop
      <3>1. s.pc = "dropping" /\ opener' = opener
        BY <2>7 DEF DropOpened, CancelDrop
      <3>2. task'["reader"].pc = "over"
        <4>1. CASE DropOpened
          BY <2>1, <4>1 DEF DropOpened
        <4>2. CASE CancelDrop
          <5>1. task'["reader"] = [s EXCEPT !.pc = "over", !.left = <<>>]
            BY <2>1, <4>2 DEF CancelDrop
          <5> QED BY <2>1, <5>1 DEF TaskStates
        <4> QED BY <2>7, <4>1, <4>2
      <3> QED BY <1>0, <1>1, <3>1, <3>2, OpenAt DEF HandInv, Handed
    <2> QED BY <1>1, <2>2, <2>3, <2>4, <2>5, <2>6, <2>7 DEF OpenStep
  <1>2. CASE Transfer
    BY <1>0, <1>2, TransferAt DEF HandInv, Handed
  <1>3. ASSUME NEW failure \in Stops, NEW inner \in BOOLEAN, Stop(failure, inner)
        PROVE  HandInv'
    BY <1>0, <1>3, StopAt DEF HandInv, Handed
  <1>4. ASSUME NEW t \in Tasks, NEW k \in 1 .. 2, CloseStep(t, k)
        PROVE  HandInv'
    BY <1>0, <1>4, CloseStepAt DEF HandInv, Handed
  <1>5. ASSUME NEW t \in Tasks, NEW error \in Errors, Done(t, error)
        PROVE  HandInv'
    <2>1. task[t].pc \in {"closing", "draining"}
      BY <1>5 DEF Done, AtClose
    <2>2. /\ task'[t].pc \in {"closing", "over"}
          /\ t = "closer" => task'[t].failure \in Errors
          /\ \A u \in Tasks : u # t => task'[u] = task[u]
          /\ UNCHANGED <<plan, opener>>
      BY <1>5, DoneAt, ToldFacts DEF HandInv, Errors
    <2>3. CASE t = "reader"
      BY <1>0, <2>1, <2>2, <2>3 DEF HandInv, Handed
    <2>4. CASE t = "closer"
      BY <1>0, <2>1, <2>2, <2>4 DEF HandInv, Handed, Errors
    <2> QED BY <2>3, <2>4
  <1>6. ASSUME NEW t \in Tasks, Drain(t) PROVE HandInv'
    <2>1. CASE t = "reader"
      BY <1>0, <1>6, <2>1, DrainAt DEF HandInv, Handed
    <2>2. CASE t = "closer"
      BY <1>0, <1>6, <2>2, DrainAt DEF HandInv, Handed
    <2> QED BY <2>1, <2>2
  <1>7. ASSUME NEW t \in Tasks, CutClose(t) PROVE HandInv'
    <2>1. /\ UNCHANGED <<plan, opener>>
          /\ task[t].pc = "draining"
          /\ \A u \in Tasks : u # t => task'[u] = task[u]
          /\ task'[t].failure = "cancelled"
          /\ task'[t].pc \in {"over", "closing"}
      BY <1>7, CutAt
    <2>2. CASE t = "reader"
      BY <1>0, <2>1, <2>2 DEF HandInv, Handed
    <2>3. CASE t = "closer"
      BY <1>0, <2>1, <2>3 DEF HandInv, Handed
    <2> QED BY <2>2, <2>3
  <1>8. CASE OtherCloses
    BY <1>0, <1>8, OtherAt DEF HandInv, Handed
  <1>9. CASE UNCHANGED vars
    BY <1>9 DEF vars, HandInv, Handed, Cancels
  <1>10. CASE StopUnstarted
    BY <1>0, <1>10, UnstartedAt DEF HandInv, Handed
  <1> QED BY <1>1, <1>2, <1>3, <1>4, <1>5, <1>6, <1>7, <1>8, <1>9, <1>10
          DEF StepKinds

-----------------------------------------------------------------------------
(* The native closes *)

(* A call of the client is counted, and none is ever taken back. *)
LEMMA CalledGrows ==
    ASSUME resp \in Responses, Called
    PROVE  resp'.closes >= resp.closes /\ resp'.releases >= resp.releases
  <1> USE DEF Responses
  <1>1. CASE resp' = resp
    BY <1>1
  <1>2. CASE resp' = [resp EXCEPT !.opened = TRUE]
    BY <1>2
  <1>3. CASE resp' = [resp EXCEPT !.closes = @ + 1]
    BY <1>3
  <1>4. CASE resp' = [resp EXCEPT !.releases = @ + 1]
    BY <1>4
  <1> QED BY <1>1, <1>2, <1>3, <1>4 DEF Called

LEMMA NativeKept ==
    ASSUME StreamsTypeOK, StreamsTypeOK', NativeInv, plan' = plan, aclosed' = aclosed,
           Called,
           \A t \in Tasks, k \in 1 .. 2 :
              closeOf'[t][k] \in {closeOf[t][k], "close", "none"}
    PROVE  NativeInv'
  <1>1. resp.closes > 0 => resp'.closes > 0
    BY CalledGrows DEF StreamsTypeOK, Responses
  <1>2. resp.releases > 0 => resp'.releases > 0
    BY CalledGrows DEF StreamsTypeOK, Responses
  <1>3. ASSUME plan.path = "native", NEW t \in Tasks, NEW k \in 1 .. 2
        PROVE  /\ closeOf'[t][k] \notin {"enter", "stream"}
               /\ closeOf'[t][k] \in {"release", "lastRelease", "ok"} => resp'.closes > 0
               /\ closeOf'[t][k] = "ok" => resp'.releases > 0
    BY <1>1, <1>2, <1>3 DEF NativeInv
  <1>4. plan.path = "native" /\ aclosed => resp'.closes > 0 /\ resp'.releases > 0
    BY <1>1, <1>2 DEF NativeInv
  <1> QED BY <1>3, <1>4 DEF NativeInv

(* One step of a native close. *)
LEMMA NativeCloseStep ==
    ASSUME StreamsTypeOK, NativeInv, plan.path = "native",
           NEW t \in Tasks, NEW k \in 1 .. 2, CloseStep(t, k)
    PROVE  \/ /\ closeOf[t][k] = "close" /\ closeOf'[t][k] = "callback"
              /\ resp' = resp
           \/ /\ closeOf[t][k] = "callback" /\ closeOf'[t][k] = "release"
              /\ resp' = [resp EXCEPT !.closes = @ + 1]
           \/ /\ closeOf[t][k] = "release" /\ closeOf'[t][k] = "ok"
              /\ resp' = [resp EXCEPT !.releases = @ + 1]
           \/ /\ closeOf'[t][k] = "failed"
              /\ Called
  <1>1. closeOf[t][k] # "stream" /\ closeOf[t][k] \in CloseStates
    BY DEF NativeInv, StreamsTypeOK
  <1>2. \A state : closeOf' = [closeOf EXCEPT ![t][k] = state] => closeOf'[t][k] = state
    BY DEF StreamsTypeOK
  <1>3. CASE CallClose(t, k)
    <2>1. CASE /\ resp' = [resp EXCEPT !.closes = @ + 1]
               /\ closeOf' = [closeOf EXCEPT ![t][k] =
                                 CASE @ = "callback" -> "release"
                                   [] @ = "stream" -> "ok"
                                   [] @ = "lastClose" -> "failed"]
      <3>1. CASE closeOf[t][k] = "callback"
        BY <2>1, <3>1 DEF StreamsTypeOK
      <3>2. CASE closeOf[t][k] = "lastClose"
        <4>1. closeOf'[t][k] = "failed"
          BY <2>1, <3>2 DEF StreamsTypeOK
        <4> QED BY <2>1, <4>1 DEF Called
      <3> QED BY <1>1, <1>3, <3>1, <3>2 DEF CallClose
    <2>2. CASE resp' = resp /\ closeOf' = [closeOf EXCEPT ![t][k] = "failed"]
      BY <1>2, <2>2 DEF Called
    <2> QED BY <1>3, <2>1, <2>2 DEF CallClose
  <1>4. CASE CallRelease(t, k)
    <2>1. CASE /\ resp' = [resp EXCEPT !.releases = @ + 1]
               /\ closeOf' = [closeOf EXCEPT ![t][k] =
                                 IF @ = "release" THEN "ok" ELSE "failed"]
      <3>1. CASE closeOf[t][k] = "release"
        BY <2>1, <3>1 DEF StreamsTypeOK
      <3>2. CASE closeOf[t][k] # "release"
        <4>1. closeOf'[t][k] = "failed"
          BY <2>1, <3>2 DEF StreamsTypeOK
        <4> QED BY <2>1, <4>1 DEF Called
      <3> QED BY <3>1, <3>2
    <2>2. CASE resp' = resp /\ closeOf' = [closeOf EXCEPT ![t][k] = "failed"]
      BY <1>2, <2>2 DEF Called
    <2> QED BY <1>4, <2>1, <2>2 DEF CallRelease
  <1>5. CASE /\ closeOf[t][k] = "close" /\ resp' = resp
             /\ closeOf' = [closeOf EXCEPT ![t][k] = "callback"]
    BY <1>2, <1>5
  <1> QED BY <1>3, <1>4, <1>5 DEF CloseStep

LEMMA NativeStep ==
    ASSUME StreamsTypeOK, StreamsTypeOK', \A t \in Tasks : ControlInv(t), HandInv,
           NativeInv, StepKinds, plan' = plan
    PROVE  NativeInv'
  <1> USE DEF Tasks
  <1>1. CASE OpenStep
    <2>1. Called
      BY <1>1 DEF Called, OpenStep, StatObject, GetObjectStream, CloseUnsized, LandOpen,
                  Opened, CancelOpen, CancelCompatOpen, DrainOpen, DropOpened, CancelDrop
    <2>2. CASE closeOf' = closeOf
      BY <1>1, <2>1, <2>2, OpenAt, NativeKept
    <2>3. CASE DrainOpen
      <3>1. plan.path = "compat"
        BY <2>3 DEF DrainOpen, HandInv
      <3> QED BY <3>1 DEF NativeInv
    <2> QED BY <1>1, <2>2, <2>3, OpenAt
  <1>2. CASE Transfer
    BY <1>2, TransferAt, NativeKept DEF Called
  <1>3. ASSUME NEW failure \in Stops, NEW inner \in BOOLEAN, Stop(failure, inner)
        PROVE  NativeInv'
    <2>1. \A t \in Tasks, k \in 1 .. 2 : closeOf'[t][k] \in {closeOf[t][k], "close"}
      BY <1>3, StopAt
    <2>2. UNCHANGED <<plan, resp, aclosed>>
      BY <1>3, StopAt
    <2> QED BY <2>1, <2>2, NativeKept DEF Called
  <1>4. ASSUME NEW t \in Tasks, NEW k \in 1 .. 2, CloseStep(t, k)
        PROVE  NativeInv'
    <2> SUFFICES ASSUME plan.path = "native" PROVE NativeInv'
      BY DEF NativeInv
    <2>1. /\ \A u \in Tasks, j \in 1 .. 2 :
                u # t \/ j # k => closeOf'[u][j] = closeOf[u][j]
          /\ aclosed' = aclosed
      BY <1>4, CloseStepAt
    <2>2. \/ /\ closeOf[t][k] = "close" /\ closeOf'[t][k] = "callback"
             /\ resp' = resp
          \/ /\ closeOf[t][k] = "callback" /\ closeOf'[t][k] = "release"
             /\ resp' = [resp EXCEPT !.closes = @ + 1]
          \/ /\ closeOf[t][k] = "release" /\ closeOf'[t][k] = "ok"
             /\ resp' = [resp EXCEPT !.releases = @ + 1]
          \/ /\ closeOf'[t][k] = "failed"
             /\ Called
      BY <1>4, NativeCloseStep
    <2>3. Called
      BY <2>2 DEF Called
    <2>4. resp \in Responses
      BY DEF StreamsTypeOK, Responses
    <2>5. /\ resp.closes > 0 => resp'.closes > 0
          /\ resp.releases > 0 => resp'.releases > 0
      BY <2>3, <2>4, CalledGrows, CalledType DEF Responses
    <2>6. /\ closeOf'[t][k] \notin {"enter", "stream"}
          /\ closeOf'[t][k] \in {"release", "lastRelease", "ok"} => resp'.closes > 0
          /\ closeOf'[t][k] = "ok" => resp'.releases > 0
      BY <2>2, <2>4, <2>5 DEF NativeInv, Responses
    <2>7. ASSUME NEW u \in Tasks, NEW j \in 1 .. 2
          PROVE  /\ closeOf'[u][j] \notin {"enter", "stream"}
                 /\ closeOf'[u][j] \in {"release", "lastRelease", "ok"} => resp'.closes > 0
                 /\ closeOf'[u][j] = "ok" => resp'.releases > 0
      <3>1. CASE u = t /\ j = k
        BY <2>6, <3>1
      <3>2. CASE u # t \/ j # k
        <4>1. closeOf'[u][j] = closeOf[u][j]
          BY <2>1, <3>2
        <4> QED BY <2>5, <4>1 DEF NativeInv
      <3> QED BY <3>1, <3>2
    <2>8. aclosed' => resp'.closes > 0 /\ resp'.releases > 0
      BY <2>1, <2>5 DEF NativeInv
    <2> QED BY <2>7, <2>8 DEF NativeInv
  <1>5. ASSUME NEW t \in Tasks, NEW error \in Errors, Done(t, error)
        PROVE  NativeInv'
    <2> SUFFICES ASSUME plan.path = "native" PROVE NativeInv'
      BY DEF NativeInv
    <2>1. Len(task[t].left) \in 1 .. 2
      BY <1>5, CloseFacts DEF Done
    <2>2. aclosed' => aclosed \/ MyClose(t) = "ok"
      BY <1>5 DEF Done, MarkClosed
    <2>3. aclosed' => resp.closes > 0 /\ resp.releases > 0
      BY <2>1, <2>2 DEF NativeInv, MyClose
    <2>4. UNCHANGED <<plan, resp>>
      BY <1>5, DoneAt
    <2>5. \A u \in Tasks, k \in 1 .. 2 : closeOf'[u][k] \in {closeOf[u][k], "close"}
      BY <1>5, DoneAt
    <2>6. ASSUME NEW u \in Tasks, NEW k \in 1 .. 2
          PROVE  /\ closeOf'[u][k] \notin {"enter", "stream"}
                 /\ closeOf'[u][k] \in {"release", "lastRelease", "ok"} => resp'.closes > 0
                 /\ closeOf'[u][k] = "ok" => resp'.releases > 0
      BY <2>4, <2>5 DEF NativeInv
    <2> QED BY <2>3, <2>4, <2>6 DEF NativeInv
  <1>6. ASSUME NEW t \in Tasks, Drain(t) PROVE NativeInv'
    BY <1>6, DrainAt, NativeKept DEF Called
  <1>7. ASSUME NEW t \in Tasks, CutClose(t) PROVE NativeInv'
    <2> SUFFICES ASSUME plan.path = "native" PROVE NativeInv'
      BY DEF NativeInv
    <2> DEFINE n == Len(task[t].left)
    <2>1. n \in 1 .. 2
      BY <1>7, CloseFacts DEF CutClose, AtClose
    <2>2. /\ UNCHANGED <<plan, resp, aclosed>>
          /\ \A u \in Tasks : u # t => closeOf'[u] = closeOf[u]
          /\ \A j \in 1 .. 2 : j # n => closeOf'[t][j] \in {closeOf[t][j], "close"}
          /\ Cut(t, closeOf'[t][n])
      BY <1>7, <2>1, CutAt
    <2>3. \/ closeOf'[t][n] \in {closeOf[t][n], "lastClose", "failed"}
          \/ closeOf[t][n] = "release" /\ closeOf'[t][n] = "lastRelease"
      BY <2>2 DEF Cut, MyClose
    <2> HIDE DEF n
    <2>4. ASSUME NEW u \in Tasks, NEW k \in 1 .. 2
          PROVE  /\ closeOf'[u][k] \notin {"enter", "stream"}
                 /\ closeOf'[u][k] \in {"release", "lastRelease", "ok"} => resp'.closes > 0
                 /\ closeOf'[u][k] = "ok" => resp'.releases > 0
      <3>1. CASE u # t
        BY <2>2, <3>1 DEF NativeInv
      <3>2. CASE u = t /\ k # n
        BY <2>2, <3>2 DEF NativeInv
      <3>3. CASE u = t /\ k = n
        BY <2>2, <2>3, <3>3 DEF NativeInv
      <3> QED BY <3>1, <3>2, <3>3
    <2> QED BY <2>2, <2>4 DEF NativeInv
  <1>8. CASE OtherCloses
    <2>1. \A t \in Tasks, k \in 1 .. 2 : closeOf'[t][k] \in {closeOf[t][k], "close"}
      <3>1. ASSUME NEW k \in 1 .. 2
            PROVE  /\ closeOf'["closer"][k] \in {closeOf["closer"][k], "close"}
                   /\ closeOf'["reader"][k] = closeOf["reader"][k]
        <4>1. k = 1 \/ k = 2
          OBVIOUS
        <4> QED BY <1>8, <4>1, OtherAt
      <3> QED BY <3>1
    <2>2. UNCHANGED <<plan, resp, aclosed>>
      BY <1>8, OtherAt
    <2> QED BY <2>1, <2>2, NativeKept DEF Called
  <1>9. CASE UNCHANGED vars
    BY <1>9, NativeKept DEF vars, Called
  <1>10. CASE StopUnstarted
    BY <1>10, UnstartedAt, NativeKept DEF Called
  <1> QED BY <1>1, <1>2, <1>3, <1>4, <1>5, <1>6, <1>7, <1>8, <1>9, <1>10
          DEF StepKinds

-----------------------------------------------------------------------------
(* What was copied, and what was left to close *)

(* Where the opening takes the reading task. *)
LEMMA OpenReader ==
    ASSUME StreamsTypeOK, ControlInv("reader"), OpenStep
    PROVE  \/ task' = task /\ closeOf' = closeOf
           \/ /\ Opened
              /\ closeOf' = closeOf
              /\ \/ task'["reader"].pc = "reading" /\ opener' = "handed"
                 \/ /\ task'["reader"].pc = "over" /\ opener' = "failed"
                    /\ task'["reader"].failure = "openError"
           \/ /\ CancelOpen \/ CancelCompatOpen
              /\ closeOf' = closeOf
              /\ \/ task'["reader"].pc = "openDrain" /\ opener' = opener
                 \/ /\ task'["reader"].pc = "over"
                    /\ task'["reader"].failure = "cancelled"
           \/ /\ DrainOpen
              /\ opener' = opener
              /\ \/ /\ task'["reader"].pc = "dropping" /\ opener = "open"
                    /\ closeOf'["reader"][1] = "close"
                 \/ /\ task'["reader"].pc = "over"
                    /\ task'["reader"].failure = "openError"
                    /\ closeOf' = closeOf
           \/ /\ DropOpened \/ CancelDrop
              /\ closeOf' = closeOf /\ opener' = opener
              /\ task'["reader"].pc = "over"
              /\ task'["reader"].failure \in {"cancelled", "closeError"}
  <1> USE DEF Tasks
  <1> DEFINE s == task["reader"]
  <1>1. s \in TaskStates /\ task \in [Tasks -> TaskStates]
    BY DEF StreamsTypeOK
  <1>2. CASE StatObject \/ GetObjectStream \/ CloseUnsized \/ LandOpen
    BY <1>2 DEF StatObject, GetObjectStream, CloseUnsized, LandOpen
  <1>3. CASE Opened
    <2>1. \/ opener' = "handed" /\ task'["reader"] = [s EXCEPT !.pc = "reading"]
          \/ /\ opener' = "failed"
             /\ task'["reader"] = [s EXCEPT !.pc = "over", !.failure = "openError"]
      BY <1>1, <1>3 DEF Opened
    <2>2. closeOf' = closeOf
      BY <1>3 DEF Opened
    <2> QED BY <1>1, <1>3, <2>1, <2>2 DEF TaskStates
  <1>4. CASE CancelOpen
    <2>1. /\ task'["reader"] = [s EXCEPT !.pc = "over", !.failure = "cancelled"]
          /\ closeOf' = closeOf
      BY <1>1, <1>4 DEF CancelOpen
    <2> QED BY <1>1, <1>4, <2>1 DEF TaskStates
  <1>5. CASE CancelCompatOpen
    <2>1. /\ opener' = opener /\ closeOf' = closeOf
          /\ \/ task'["reader"] = [s EXCEPT !.pc = "over", !.failure = "cancelled"]
             \/ task'["reader"] = [s EXCEPT !.pc = "openDrain"]
      BY <1>1, <1>5 DEF CancelCompatOpen
    <2> QED BY <1>1, <1>5, <2>1 DEF TaskStates
  <1>6. CASE DrainOpen
    <2>1. opener' = opener
      BY <1>6 DEF DrainOpen
    <2>2. \/ /\ opener = "open"
             /\ task'["reader"] = [pc |-> "dropping", failure |-> "cancelled",
                                   left |-> <<FALSE>>]
             /\ closeOf' = [closeOf EXCEPT !["reader"][1] = "close"]
          \/ /\ task'["reader"] = [s EXCEPT !.pc = "over", !.failure = "openError"]
             /\ closeOf' = closeOf
      BY <1>1, <1>6 DEF DrainOpen
    <2>3. CASE /\ opener = "open"
               /\ task'["reader"] = [pc |-> "dropping", failure |-> "cancelled",
                                     left |-> <<FALSE>>]
               /\ closeOf' = [closeOf EXCEPT !["reader"][1] = "close"]
      <3>1. task'["reader"].pc = "dropping"
        BY <2>3
      <3>2. closeOf'["reader"][1] = "close"
        BY <2>3 DEF StreamsTypeOK
      <3> QED BY <1>6, <2>1, <2>3, <3>1, <3>2
    <2>4. CASE /\ task'["reader"] = [s EXCEPT !.pc = "over", !.failure = "openError"]
               /\ closeOf' = closeOf
      BY <1>1, <1>6, <2>1, <2>4 DEF TaskStates
    <2> QED BY <2>2, <2>3, <2>4
  <1>7. CASE DropOpened
    <2>1. /\ opener' = opener /\ closeOf' = closeOf
          /\ task'["reader"] = [pc |-> "over", left |-> <<>>,
                   failure |-> IF closeOf["reader"][1] = "ok" THEN "cancelled"
                               ELSE "closeError"]
      BY <1>1, <1>7 DEF DropOpened
    <2> QED BY <1>7, <2>1
  <1>8. CASE CancelDrop
    <2>1. /\ opener' = opener /\ closeOf' = closeOf
          /\ task'["reader"] = [s EXCEPT !.pc = "over", !.left = <<>>]
          /\ s.pc = "dropping"
      BY <1>1, <1>8 DEF CancelDrop
    <2>2. s.failure = "cancelled"
      BY <2>1 DEF ControlInv, ControlOf
    <2> QED BY <1>1, <1>8, <2>1, <2>2 DEF TaskStates
  <1> QED BY <1>2, <1>3, <1>4, <1>5, <1>6, <1>7, <1>8 DEF OpenStep

LEMMA CopyCheckedNone ==
    ASSUME NEW failure, CopyChecked(failure) = "none", plan.use = "copy"
    PROVE  data.written = Chunks /\ (plan.verify => data.intact)
  BY DEF CopyChecked

LEMMA CopyStep ==
    ASSUME StreamsTypeOK, \A t \in Tasks : ControlInv(t), CopiedIsWhole, StepKinds,
           plan' = plan
    PROVE  CopiedIsWhole'
  <1> USE DEF Tasks
  <1>1. CASE OpenStep
    <2>1. data' = data
      BY <1>1, OpenAt
    <2>2. \/ task' = task
          \/ task'["reader"].pc # "over"
          \/ task'["reader"].failure # "none"
      BY <1>1, OpenReader
    <2> QED BY <2>1, <2>2 DEF CopiedIsWhole
  <1>2. CASE Transfer
    BY <1>2, TransferAt DEF CopiedIsWhole
  <1>3. ASSUME NEW failure \in Stops, NEW inner \in BOOLEAN, Stop(failure, inner)
        PROVE  CopiedIsWhole'
    <2>1. data' = data
      BY <1>3, StopAt
    <2>2. task'["reader"].pc = "over" =>
             task'["reader"].failure = CopyChecked(failure)
      BY <1>3, StopAt
    <2> QED BY <2>1, <2>2, CopyCheckedNone DEF CopiedIsWhole
  <1>4. ASSUME NEW t \in Tasks, NEW k \in 1 .. 2, CloseStep(t, k)
        PROVE  CopiedIsWhole'
    BY <1>4, CloseStepAt DEF CopiedIsWhole
  <1>5. ASSUME NEW t \in Tasks, NEW error \in Errors, Done(t, error)
        PROVE  CopiedIsWhole'
    <2>1. data' = data
      BY <1>5, DoneAt
    <2>2. CASE t = "closer"
      BY <1>5, <2>1, <2>2, DoneAt DEF CopiedIsWhole
    <2>3. CASE t = "reader"
      <3>1. task'["reader"].pc = "over" =>
               task'["reader"].failure = CopyChecked(Told("reader", error))
        BY <1>5, <2>3, DoneAt
      <3> QED BY <2>1, <3>1, CopyCheckedNone DEF CopiedIsWhole
    <2> QED BY <2>2, <2>3
  <1>6. ASSUME NEW t \in Tasks, Drain(t) PROVE CopiedIsWhole'
    BY <1>6, DrainAt DEF CopiedIsWhole
  <1>7. ASSUME NEW t \in Tasks, CutClose(t) PROVE CopiedIsWhole'
    BY <1>7, CutAt DEF CopiedIsWhole
  <1>8. CASE OtherCloses
    BY <1>8, OtherAt DEF CopiedIsWhole
  <1>9. CASE UNCHANGED vars
    BY <1>9 DEF vars, CopiedIsWhole
  <1>10. CASE StopUnstarted
    BY <1>10, UnstartedAt DEF CopiedIsWhole
  <1> QED BY <1>1, <1>2, <1>3, <1>4, <1>5, <1>6, <1>7, <1>8, <1>9, <1>10
          DEF StepKinds

LEMMA ErrorStep ==
    ASSUME StreamsTypeOK, \A t \in Tasks : ControlInv(t), ErrorInv, StepKinds,
           plan' = plan
    PROVE  ErrorInv'
  <1> USE DEF Tasks
  <1>1. CASE OpenStep
    BY <1>1, OpenReader DEF ErrorInv, AtClose
  <1>2. CASE Transfer
    BY <1>2, TransferAt DEF ErrorInv, AtClose
  <1>3. ASSUME NEW failure \in Stops, NEW inner \in BOOLEAN, Stop(failure, inner)
        PROVE  ErrorInv'
    BY <1>3, StopAt DEF ErrorInv, AtClose
  <1>4. ASSUME NEW t \in Tasks, NEW k \in 1 .. 2, CloseStep(t, k)
        PROVE  ErrorInv'
    BY <1>4, CloseStepAt DEF ErrorInv, AtClose
  <1>5. ASSUME NEW t \in Tasks, NEW error \in Errors, Done(t, error)
        PROVE  ErrorInv'
    <2>1. CASE t = "closer"
      BY <1>5, <2>1, DoneAt DEF ErrorInv, AtClose
    <2>2. CASE t = "reader"
      <3>1. AtClose("reader")
        BY <1>5, <2>2 DEF Done
      <3>2. /\ Keeping(task["reader"].left) => Keeping(Tail(task["reader"].left))
        BY <3>1, CloseFacts
      <3>3. \/ task'["reader"].pc = "over"
            \/ task'["reader"].left = Tail(task["reader"].left)
        BY <1>5, <2>2, DoneAt
      <3> QED BY <3>1, <3>2, <3>3 DEF ErrorInv, AtClose
    <2> QED BY <2>1, <2>2
  <1>6. ASSUME NEW t \in Tasks, Drain(t) PROVE ErrorInv'
    BY <1>6, DrainAt DEF ErrorInv, AtClose
  <1>7. ASSUME NEW t \in Tasks, CutClose(t) PROVE ErrorInv'
    <2>1. CASE t = "closer"
      BY <1>7, <2>1, CutAt DEF ErrorInv, AtClose
    <2>2. CASE t = "reader"
      <3>1. AtClose("reader")
        BY <1>7, <2>2 DEF CutClose, AtClose
      <3>2. /\ Keeping(task["reader"].left) => Keeping(Tail(task["reader"].left))
        BY <3>1, CloseFacts
      <3>3. \/ task'["reader"].pc = "over"
            \/ task'["reader"].left = Tail(task["reader"].left)
        BY <1>7, <2>2, CutAt
      <3> QED BY <3>1, <3>2, <3>3 DEF ErrorInv, AtClose
    <2> QED BY <2>1, <2>2
  <1>8. CASE OtherCloses
    BY <1>8, OtherAt DEF ErrorInv, AtClose
  <1>9. CASE UNCHANGED vars
    BY <1>9 DEF vars, ErrorInv, AtClose
  <1>10. CASE StopUnstarted
    BY <1>10, UnstartedAt DEF ErrorInv, AtClose
  <1> QED BY <1>1, <1>2, <1>3, <1>4, <1>5, <1>6, <1>7, <1>8, <1>9, <1>10
          DEF StepKinds

-----------------------------------------------------------------------------
(* The reading task alone *)

Bad == {"failed", "lastClose", "lastRelease"}

(* A task with two closes to come has not begun the last one. *)
LEMMA SecondClose ==
    ASSUME NEW t \in Tasks, ControlInv(t), AtClose(t), Len(task[t].left) = 2
    PROVE  closeOf[t][1] = "none"
  <1>1. \A k \in 1 .. 2 : k < Len(task[t].left) => closeOf[t][k] = "none"
    BY DEF ControlInv, ControlOf, AtClose
  <1> QED BY <1>1

LEMMA TroubleStays ==
    ASSUME StreamsTypeOK, \A t \in Tasks : ControlInv(t), StepKinds,
           NEW t \in Tasks, NEW k \in 1 .. 2, closeOf[t][k] \in Bad
    PROVE  closeOf'[t][k] \in Bad
  <1> USE DEF Tasks, Bad
  <1>1. CASE OpenStep
    <2>1. CASE task["reader"].pc = "openDrain"
      <3>1. closeOf["reader"][1] = "none"
        BY <2>1 DEF ControlInv, ControlOf
      <3>2. closeOf'["closer"] = closeOf["closer"]
            /\ closeOf'["reader"][2] = closeOf["reader"][2]
        BY <1>1, OpenAt
      <3>3. k = 1 \/ k = 2
        OBVIOUS
      <3> QED BY <3>1, <3>2, <3>3
    <2>2. CASE task["reader"].pc # "openDrain"
      <3>1. closeOf' = closeOf
        BY <1>1, <2>2, OpenAt DEF DrainOpen
      <3> QED BY <3>1
    <2> QED BY <2>1, <2>2
  <1>2. CASE Transfer
    BY <1>2, TransferAt
  <1>3. ASSUME NEW failure \in Stops, NEW inner \in BOOLEAN, Stop(failure, inner)
        PROVE  closeOf'[t][k] \in Bad
    <2>1. /\ task["reader"].pc \in {"reading", "writing"}
          /\ closeOf'["closer"] = closeOf["closer"]
      BY <1>3, StopAt
    <2>2. closeOf["reader"][1] = "none" /\ closeOf["reader"][2] = "none"
      BY <2>1 DEF ControlInv, ControlOf
    <2>3. k = 1 \/ k = 2
      OBVIOUS
    <2> QED BY <2>1, <2>2, <2>3
  <1>4. ASSUME NEW u \in Tasks, NEW j \in 1 .. 2, CloseStep(u, j)
        PROVE  closeOf'[t][k] \in Bad
    <2>1. CASE u # t \/ j # k
      BY <1>4, <2>1, CloseStepAt
    <2>2. CASE u = t /\ j = k
      <3>1. closeOf[t][k] \in {"lastClose", "lastRelease"}
        BY <1>4, <2>2, CloseStepAt
      <3>2. closeOf' = [closeOf EXCEPT ![t][k] = "failed"]
        BY <1>4, <2>2, <3>1 DEF CloseStep, SourceClose, CallClose, CallRelease
      <3> QED BY <3>2 DEF StreamsTypeOK
    <2> QED BY <2>1, <2>2
  <1>5. ASSUME NEW u \in Tasks, NEW error \in Errors, Done(u, error)
        PROVE  closeOf'[t][k] \in Bad
    <2>1. CASE closeOf' = closeOf
      BY <2>1
    <2>2. CASE /\ Len(task[u].left) = 2
               /\ closeOf'[u][2] = closeOf[u][2]
               /\ \A v \in Tasks : v # u => closeOf'[v] = closeOf[v]
      <3>1. AtClose(u)
        BY <1>5 DEF Done
      <3>2. closeOf[u][1] = "none"
        BY <2>2, <3>1, SecondClose
      <3>3. k = 1 \/ k = 2
        OBVIOUS
      <3> QED BY <2>2, <3>2, <3>3
    <2> QED BY <1>5, <2>1, <2>2, DoneAt
  <1>6. ASSUME NEW u \in Tasks, Drain(u) PROVE closeOf'[t][k] \in Bad
    BY <1>6, DrainAt
  <1>7. ASSUME NEW u \in Tasks, CutClose(u) PROVE closeOf'[t][k] \in Bad
    <2> DEFINE n == Len(task[u].left)
    <2>1. AtClose(u)
      BY <1>7 DEF CutClose, AtClose
    <2>2. n \in 1 .. 2
      BY <2>1, CloseFacts
    <2>3. CASE u # t
      BY <1>7, <2>3, CutAt
    <2>4. CASE u = t /\ k = n
      <3>1. Cut(t, closeOf'[t][k])
        BY <1>7, <2>4, CutAt
      <3>2. MyClose(t) = closeOf[t][k]
        BY <2>4 DEF MyClose
      <3> QED BY <3>1, <3>2 DEF Cut
    <2>5. CASE u = t /\ k # n
      <3>1. n = 2 => closeOf[u][1] = "none"
        BY <2>1, SecondClose
      <3>2. ~(n = 2)
        <4>1. SUFFICES ASSUME n = 2 PROVE FALSE
          OBVIOUS
        <4>2. k = 1
          BY <2>5, <4>1
        <4> QED BY <2>5, <3>1, <4>1, <4>2
      <3>3. closeOf'[t][k] = closeOf[t][k]
        BY <1>7, <2>5, <3>2, CutAt
      <3> QED BY <3>3
    <2> QED BY <2>3, <2>4, <2>5
  <1>8. CASE OtherCloses
    <2>1. /\ task["closer"].pc = "idle"
          /\ closeOf'["reader"] = closeOf["reader"]
      BY <1>8, OtherAt
    <2>2. closeOf["closer"][1] = "none" /\ closeOf["closer"][2] = "none"
      BY <2>1 DEF ControlInv, ControlOf
    <2>3. k = 1 \/ k = 2
      OBVIOUS
    <2> QED BY <2>1, <2>2, <2>3
  <1>9. CASE UNCHANGED vars
    BY <1>9 DEF vars
  <1>10. CASE StopUnstarted
    BY <1>10, UnstartedAt
  <1> QED BY <1>1, <1>2, <1>3, <1>4, <1>5, <1>6, <1>7, <1>8, <1>9, <1>10
          DEF StepKinds

LEMMA CloserStays ==
    ASSUME StreamsTypeOK, \A t \in Tasks : ControlInv(t), HandInv, StepKinds,
           task'["closer"].pc = "idle"
    PROVE  task["closer"].pc = "idle"
  <1> USE DEF Tasks
  <1>1. CASE OpenStep
    BY <1>1, OpenAt
  <1>2. CASE Transfer
    BY <1>2, TransferAt
  <1>3. ASSUME NEW failure \in Stops, NEW inner \in BOOLEAN, Stop(failure, inner)
        PROVE  task["closer"].pc = "idle"
    BY <1>3, StopAt
  <1>4. ASSUME NEW t \in Tasks, NEW k \in 1 .. 2, CloseStep(t, k)
        PROVE  task["closer"].pc = "idle"
    BY <1>4, CloseStepAt
  <1>5. ASSUME NEW t \in Tasks, NEW error \in Errors, Done(t, error)
        PROVE  task["closer"].pc = "idle"
    BY <1>5, DoneAt
  <1>6. ASSUME NEW t \in Tasks, Drain(t) PROVE task["closer"].pc = "idle"
    BY <1>6, DrainAt
  <1>7. ASSUME NEW t \in Tasks, CutClose(t) PROVE task["closer"].pc = "idle"
    BY <1>7, CutAt
  <1>8. CASE OtherCloses
    BY <1>8, OtherAt
  <1>9. CASE UNCHANGED vars
    BY <1>9 DEF vars
  <1>10. CASE StopUnstarted
    BY <1>10, UnstartedAt
  <1> QED BY <1>1, <1>2, <1>3, <1>4, <1>5, <1>6, <1>7, <1>8, <1>9, <1>10
          DEF StepKinds

LEMMA AloneBefore ==
    ASSUME StreamsTypeOK, StreamsTypeOK', \A t \in Tasks : ControlInv(t), HandInv,
           StepKinds, Cancels' >= Cancels, Alone'
    PROVE  Alone
  <1>1. ~Trouble
    BY TroubleStays DEF Alone, Trouble, Bad
  <1>2. Cancels \in Nat /\ Cancels' \in Nat
    BY StreamsAssumption DEF StreamsTypeOK, Cancels
  <1>3. Cancels' <= 1 /\ task'["closer"].pc = "idle"
    BY DEF Alone
  <1> QED BY <1>1, <1>2, <1>3, CloserStays DEF Alone

(* Before the stream is handed over. *)
LEMMA AloneCalls ==
    ASSUME StreamsTypeOK, HandInv, AloneState, plan' = plan,
           StatObject \/ GetObjectStream \/ CloseUnsized \/ LandOpen
    PROVE  AloneState'
  <1>1. UNCHANGED <<src, aclosed, task, closeOf>>
    BY DEF StatObject, GetObjectStream, CloseUnsized, LandOpen
  <1>2. TheClose' = TheClose
    BY <1>1 DEF TheClose
  <1>3. /\ opener \in {"stat", "get", "unsized", "unsizedRelease",
                       "lastGet", "lastClose", "lastRelease"}
        /\ opener' \in {"get", "open", "unsized", "unsizedRelease", "failed"}
    BY DEF StatObject, GetObjectStream, CloseUnsized, LandOpen
  <1>4. TheClose = "none" /\ ~Handed /\ ~Handed'
    BY <1>3 DEF AloneState, Handed
  <1>5. resp \in Responses
    BY DEF StreamsTypeOK, Responses
  <1>6. /\ resp'.closes <= 1
        /\ opener' \in {"open", "get", "unsized"} => resp'.closes = 0
    <2>1. CASE StatObject
      BY <2>1, <1>4 DEF StatObject, AloneState
    <2>2. CASE GetObjectStream
      <3>1. resp.closes = 0
        BY <2>2, <1>4 DEF GetObjectStream, AloneState
      <3>2. resp' = resp \/ resp' = [resp EXCEPT !.opened = TRUE]
        BY <2>2 DEF GetObjectStream
      <3> QED BY <1>5, <3>1, <3>2 DEF Responses
    <2>3. CASE CloseUnsized
      <3>1. \/ resp'.closes = resp.closes
            \/ opener = "unsized" /\ resp'.closes = resp.closes + 1
        BY <1>5, <2>3 DEF CloseUnsized, Responses
      <3>2. opener' \in {"unsizedRelease", "failed"}
        BY <2>3 DEF CloseUnsized
      <3>3. resp.closes <= 1 /\ (opener = "unsized" => resp.closes = 0)
        BY <1>4 DEF AloneState
      <3> QED BY <3>1, <3>2, <3>3
    <2>4. CASE LandOpen
      <3>1. opener' = "failed"
        BY <2>4 DEF LandOpen
      <3>2. \/ resp'.closes = resp.closes
            \/ opener = "lastClose" /\ resp'.closes = resp.closes + 1
        BY <1>5, <2>4 DEF LandOpen, Responses
      <3>3. resp.closes <= 1 /\ (opener = "lastClose" => resp.closes = 0)
        BY <1>4 DEF AloneState
      <3> QED BY <3>1, <3>2, <3>3
    <2> QED BY <2>1, <2>2, <2>3, <2>4
  <1>7. AtClose("reader")' = AtClose("reader")
    BY <1>1 DEF AtClose
  <1> QED BY <1>1, <1>2, <1>3, <1>4, <1>6, <1>7 DEF AloneState

LEMMA AloneOpening ==
    ASSUME StreamsTypeOK, ControlInv("reader"), HandInv, Alone, AloneState,
           plan' = plan, Alone', OpenStep, Cancels \in Nat
    PROVE  AloneState'
  <1> USE DEF Tasks
  <1>1. CASE StatObject \/ GetObjectStream \/ CloseUnsized \/ LandOpen
    BY <1>1, AloneCalls
  <1>2. UNCHANGED <<src, aclosed>>
    BY OpenAt
  <1>3. closeOf' = closeOf => TheClose' = TheClose
    BY DEF TheClose
  <1>4. task["reader"].pc \in {"opening", "openDrain"} => TheClose = "none"
    BY DEF ControlInv, ControlOf, TheClose
  <1>5. Cancellation => Cancels = 0
    BY BudgetFacts DEF Alone
  <1>6. CASE Opened
    <2>1. /\ resp' = resp /\ closeOf' = closeOf
          /\ opener \in {"open", "failed"}
          /\ task["reader"].pc = "opening"
      BY <1>6 DEF Opened
    <2>2. \/ task'["reader"].pc = "reading" /\ opener' = "handed" /\ opener = "open"
          \/ /\ task'["reader"].pc = "over" /\ opener' = "failed" /\ opener = "failed"
             /\ task'["reader"].failure = "openError"
      <3>1. task["reader"] \in TaskStates
        BY DEF StreamsTypeOK
      <3>2. \/ /\ task'["reader"] = [task["reader"] EXCEPT !.pc = "reading"]
               /\ opener' = "handed" /\ opener = "open"
            \/ /\ task'["reader"] = [task["reader"] EXCEPT !.pc = "over",
                                                           !.failure = "openError"]
               /\ opener' = "failed" /\ opener = "failed"
        BY <1>6 DEF Opened, StreamsTypeOK
      <3> QED BY <3>1, <3>2 DEF TaskStates
    <2> QED BY <1>2, <1>3, <1>4, <2>1, <2>2 DEF AloneState, Handed, AtClose
  <1>7. CASE CancelOpen
    <2>1. /\ resp' = resp /\ closeOf' = closeOf
          /\ plan.path = "native"
          /\ task["reader"].pc = "opening"
          /\ \/ opener' = opener
             \/ opener = "stat" /\ opener' = "failed"
             \/ opener = "get" /\ opener' = "lastGet"
             \/ opener = "unsized" /\ opener' = "lastClose"
             \/ opener = "unsizedRelease" /\ opener' = "lastRelease"
      BY <1>7 DEF CancelOpen
    <2>2. ~Handed /\ ~Handed'
      BY <2>1 DEF HandInv, Handed
    <2>3. task'["reader"].pc = "over"
      <3>1. task["reader"] \in TaskStates
        BY DEF StreamsTypeOK
      <3>2. task'["reader"] = [task["reader"] EXCEPT !.pc = "over", !.failure = "cancelled"]
        BY <1>7 DEF CancelOpen, StreamsTypeOK
      <3> QED BY <3>1, <3>2 DEF TaskStates
    <2> QED BY <1>2, <1>3, <1>4, <2>1, <2>2, <2>3 DEF AloneState, AtClose
  <1>8. CASE CancelCompatOpen
    <2>1. /\ resp' = resp /\ closeOf' = closeOf /\ opener' = opener
          /\ task["reader"].pc \in {"opening", "openDrain"}
      BY <1>8 DEF CancelCompatOpen
    <2>2. task["reader"].pc = "opening" /\ ~Handed /\ ~Handed'
      BY <1>5, <1>8, <2>1 DEF CancelCompatOpen, HandInv, Handed
    <2>3. task'["reader"].pc = "openDrain"
      <3>1. task["reader"] \in TaskStates
        BY DEF StreamsTypeOK
      <3>2. task'["reader"] = [task["reader"] EXCEPT !.pc = "openDrain"]
        BY <1>8, <2>2 DEF CancelCompatOpen, StreamsTypeOK
      <3> QED BY <3>1, <3>2 DEF TaskStates
    <2> QED BY <1>2, <1>3, <1>4, <2>1, <2>2, <2>3 DEF AloneState, AtClose
  <1>9. CASE DrainOpen
    <2>1. resp' = resp /\ opener' = opener /\ task["reader"].pc = "openDrain" /\ ~Handed
      BY <1>9 DEF DrainOpen, HandInv
    <2>2. CASE task'["reader"].pc = "dropping" /\ opener = "open"
                  /\ closeOf'["reader"][1] = "close"
      <3>1. TheClose' = "close"
        BY <2>2 DEF TheClose
      <3>2. closeOf'["reader"][2] = "none"
        BY <1>9, <2>1, OpenAt DEF ControlInv, ControlOf
      <3> QED BY <1>2, <1>4, <2>1, <2>2, <3>1, <3>2 DEF AloneState, AtClose, Handed
    <2>3. CASE /\ task'["reader"].pc = "over"
               /\ task'["reader"].failure = "openError"
               /\ closeOf' = closeOf
      BY <1>2, <1>3, <1>4, <2>1, <2>3 DEF AloneState, AtClose, Handed
    <2>4. \/ /\ opener = "open"
             /\ task'["reader"] = [pc |-> "dropping", failure |-> "cancelled",
                                   left |-> <<FALSE>>]
             /\ closeOf' = [closeOf EXCEPT !["reader"][1] = "close"]
          \/ /\ task'["reader"] =
                   [task["reader"] EXCEPT !.pc = "over", !.failure = "openError"]
             /\ closeOf' = closeOf
      BY <1>9 DEF DrainOpen, StreamsTypeOK
    <2>5. CASE /\ opener = "open"
               /\ task'["reader"] = [pc |-> "dropping", failure |-> "cancelled",
                                     left |-> <<FALSE>>]
               /\ closeOf' = [closeOf EXCEPT !["reader"][1] = "close"]
      <3>1. task'["reader"].pc = "dropping"
        BY <2>5
      <3>2. closeOf'["reader"][1] = "close"
        BY <2>5 DEF StreamsTypeOK
      <3> QED BY <2>2, <2>5, <3>1, <3>2
    <2>6. CASE /\ task'["reader"] =
                     [task["reader"] EXCEPT !.pc = "over", !.failure = "openError"]
               /\ closeOf' = closeOf
      <3>1. task["reader"] \in TaskStates
        BY DEF StreamsTypeOK
      <3>2. task'["reader"].pc = "over" /\ task'["reader"].failure = "openError"
        BY <2>6, <3>1 DEF TaskStates
      <3> QED BY <2>3, <2>6, <3>2
    <2> QED BY <2>4, <2>5, <2>6
  <1>10. CASE DropOpened
    <2>1. /\ resp' = resp /\ closeOf' = closeOf /\ opener' = opener
          /\ task["reader"].pc = "dropping"
          /\ task'["reader"].pc = "over"
          /\ closeOf["reader"][1] \in {"ok", "failed"}
      BY <1>10 DEF DropOpened, StreamsTypeOK
    <2>2. TheClose = "ok"
      BY <2>1 DEF TheClose, Alone, Trouble
    <2>3. opener = "open" /\ ~Handed /\ ~Handed'
      BY <2>1 DEF HandInv, Handed
    <2> QED BY <1>2, <1>3, <2>1, <2>2, <2>3 DEF AloneState, AtClose
  <1>11. CASE CancelDrop
    <2>1. task["reader"].pc = "dropping" /\ Cancellation
      BY <1>11 DEF CancelDrop
    <2> QED BY <1>5, <2>1 DEF HandInv
  <1> QED BY <1>1, <1>6, <1>7, <1>8, <1>9, <1>10, <1>11 DEF OpenStep

(* Once it closes. *)
LEMMA AloneClosing ==
    ASSUME StreamsTypeOK, \A t \in Tasks : ControlInv(t), HandInv, Alone, AloneState,
           plan' = plan, Alone',
           NEW t \in Tasks, NEW k \in 1 .. 2, CloseStep(t, k)
    PROVE  AloneState'
  <1> USE DEF Tasks
  <1> DEFINE s == closeOf[t][k]
             n == closeOf'[t][k]
  <1>1. /\ s \notin {"none", "ok", "failed"} /\ n # "none"
        /\ \A u \in Tasks, j \in 1 .. 2 :
              u # t \/ j # k => closeOf'[u][j] = closeOf[u][j]
        /\ UNCHANGED <<plan, opener, aclosed, task, data>>
    BY CloseStepAt
  <1>2. t = "reader"
    <2>1. closeOf["closer"][1] = "none" /\ closeOf["closer"][2] = "none"
      BY DEF Alone, ControlInv, ControlOf
    <2>2. k = 1 \/ k = 2
      OBVIOUS
    <2> QED BY <1>1, <2>1, <2>2
  <1>3. n \notin Bad
    BY DEF Alone, Trouble, Bad
  <1>4. s \notin Bad
    BY DEF Alone, Trouble, Bad
  <1>5. TheClose = s /\ TheClose' = n
    <2>1. CASE k = 1
      BY <1>1, <1>2, <2>1 DEF TheClose
    <2>2. CASE k = 2
      <3>1. closeOf["reader"][1] = "none"
        BY <1>1, <1>2, <2>2 DEF AloneState
      <3>2. closeOf'["reader"][1] = "none"
        BY <1>1, <1>2, <2>2, <3>1
      <3> QED BY <1>2, <2>2, <3>1, <3>2 DEF TheClose
    <2>3. k = 1 \/ k = 2
      OBVIOUS
    <2> QED BY <2>1, <2>2, <2>3
  <1>6. \/ closeOf'["reader"][1] = "none"
        \/ closeOf'["reader"][2] = "none"
    <2>1. k = 1 \/ k = 2
      OBVIOUS
    <2> QED BY <1>1, <1>2, <2>1 DEF AloneState
  <1>7. \A state : closeOf' = [closeOf EXCEPT ![t][k] = state] => n = state
    BY DEF StreamsTypeOK
  <1>8. \/ /\ s = "close" /\ n = "enter"
           /\ src' = src /\ resp' = resp
        \/ /\ s = "enter" /\ n = "callback"
           /\ src'.closed /\ resp' = resp
        \/ /\ s = "close" /\ n = "callback" /\ plan.path = "native"
           /\ src' = src /\ resp' = resp
        \/ /\ s = "callback" /\ n = "release"
           /\ src' = src /\ resp' = [resp EXCEPT !.closes = @ + 1]
        \/ /\ s = "release" /\ n = "ok"
           /\ src' = src /\ resp' = [resp EXCEPT !.releases = @ + 1]
    <2>1. CASE plan.path # "native" /\ SourceClose(t, k) /\ UNCHANGED resp
      <3>1. s \in {"close", "enter"}
        BY <2>1 DEF SourceClose
      <3>2. ~src.closed /\ src.callback
        BY <1>5, <3>1 DEF AloneState
      <3>3. \/ /\ s = "close" /\ src' = src
               /\ closeOf' = [closeOf EXCEPT ![t][k] = "enter"]
            \/ /\ s = "enter" /\ src' = [closed |-> TRUE, callback |-> FALSE]
               /\ closeOf' = [closeOf EXCEPT ![t][k] = "callback"]
        BY <2>1, <3>2 DEF SourceClose
      <3> QED BY <1>7, <2>1, <3>3
    <2>2. CASE /\ plan.path = "native" /\ s = "close"
               /\ closeOf' = [closeOf EXCEPT ![t][k] = "callback"]
               /\ UNCHANGED <<src, resp>>
      BY <1>7, <2>2
    <2>3. CASE CallClose(t, k) /\ UNCHANGED src
      <3>1. s = "callback"
        BY <1>4, <1>5, <2>3 DEF CallClose, Bad, AloneState
      <3>2. \/ /\ resp' = [resp EXCEPT !.closes = @ + 1]
               /\ closeOf' = [closeOf EXCEPT ![t][k] = "release"]
            \/ closeOf' = [closeOf EXCEPT ![t][k] = "failed"]
        BY <2>3, <3>1 DEF CallClose, StreamsTypeOK
      <3> QED BY <1>3, <1>7, <2>3, <3>1, <3>2 DEF Bad
    <2>4. CASE CallRelease(t, k) /\ UNCHANGED src
      <3>1. s = "release"
        BY <1>4, <2>4 DEF CallRelease, Bad
      <3>2. \/ /\ resp' = [resp EXCEPT !.releases = @ + 1]
               /\ closeOf' = [closeOf EXCEPT ![t][k] = "ok"]
            \/ closeOf' = [closeOf EXCEPT ![t][k] = "failed"]
        BY <2>4, <3>1 DEF CallRelease, StreamsTypeOK
      <3> QED BY <1>3, <1>7, <2>4, <3>1, <3>2 DEF Bad
    <2> QED BY <2>1, <2>2, <2>3, <2>4 DEF CloseStep
  <1> HIDE DEF s, n
  <1>9. /\ opener = "open" \/ Handed
        /\ task["reader"].pc \notin {"reading", "writing"}
        /\ Handed /\ task["reader"].pc = "over" => Unstarted
        /\ ~(/\ plan.path = "compat" /\ ~Handed /\ task["reader"].pc = "over"
             /\ task["reader"].failure = "cancelled")
        /\ s \in {"close", "enter", "callback"} => resp.closes = 0 /\ ~aclosed
    BY <1>1, <1>5, <1>8 DEF AloneState, Handed
  <1>10. /\ resp'.closes <= 1
         /\ n \in {"enter", "callback"} => resp'.closes = 0
         /\ n = "ok" => resp'.releases > 0
    <2>1. resp \in Responses /\ resp.closes <= 1
      BY DEF StreamsTypeOK, Responses, AloneState
    <2> QED BY <1>8, <1>9, <2>1 DEF Responses
  <1>11. /\ n \in {"none", "close", "enter"} => ~src'.closed /\ src'.callback
         /\ n \in {"callback", "release", "ok"} /\ plan.path # "native" => src'.closed
         /\ n # "stream"
    BY <1>5, <1>8 DEF AloneState
  <1>12. /\ AtClose("reader")' = AtClose("reader")
         /\ Handed' = Handed
         /\ Unstarted' = Unstarted
    BY <1>1 DEF AtClose, Handed, Unstarted
  <1>13. /\ n \in {"enter", "callback", "release", "ok"}
         /\ n \in {"enter", "callback"} => ~aclosed
         /\ AtClose("reader") => ~aclosed
    BY <1>8, <1>9 DEF AloneState
  <1> QED BY <1>1, <1>5, <1>6, <1>9, <1>10, <1>11, <1>12, <1>13 DEF AloneState, Handed

LEMMA AloneStep ==
    ASSUME StreamsTypeOK, StreamsTypeOK', \A t \in Tasks : ControlInv(t), HandInv,
           AloneInv, StepKinds, plan' = plan, Cancels' >= Cancels
    PROVE  AloneInv'
  <1> USE DEF Tasks
  <1> SUFFICES ASSUME Alone' PROVE AloneState'
    BY DEF AloneInv
  <1>1. Alone /\ AloneState
    BY AloneBefore DEF AloneInv
  <1>2. Cancels \in Nat /\ Cancels' <= 1
    BY CancelsType DEF Alone
  <1>3. task["closer"].pc = "idle" /\ task'["closer"].pc = "idle"
    BY <1>1 DEF Alone
  <1>4. closeOf'["reader"] = closeOf["reader"] => TheClose' = TheClose
    BY DEF TheClose
  <1>5. CASE OpenStep
    BY <1>1, <1>2, <1>5, AloneOpening
  <1>6. CASE Transfer
    BY <1>1, <1>4, <1>6, TransferAt DEF AloneState, Handed, AtClose
  <1>7. ASSUME NEW failure \in Stops, NEW inner \in BOOLEAN, Stop(failure, inner)
        PROVE  AloneState'
    <2>1. /\ UNCHANGED <<opener, resp, src, aclosed>>
          /\ task["reader"].pc \in {"reading", "writing"}
      BY <1>7, StopAt
    <2>2. TheClose = "none" /\ closeOf["reader"][1] = "none" /\ closeOf["reader"][2] = "none"
      BY <2>1 DEF ControlInv, ControlOf, TheClose
    <2>3. ~Closed
      BY <1>1, <2>2 DEF AloneState, Closed
    <2>4. Handed
      BY <2>1 DEF HandInv
    <2>5. PICK n \in 1 .. 2 :
             /\ closeOf'["reader"][n] = "close"
             /\ \A j \in 1 .. 2 : j # n => closeOf'["reader"][j] = closeOf["reader"][j]
      BY <1>7, <2>3, StopAt
    <2>6. task'["reader"].pc = "closing"
      BY <1>7, <2>3, StopAt
    <2>7. n = 1 \/ n = 2
      OBVIOUS
    <2>8. /\ TheClose' = "close"
          /\ closeOf'["reader"][1] = "none" \/ closeOf'["reader"][2] = "none"
      BY <2>2, <2>5, <2>7 DEF TheClose
    <2> QED BY <1>1, <2>1, <2>2, <2>4, <2>6, <2>8 DEF AloneState, Handed
  <1>8. ASSUME NEW t \in Tasks, NEW k \in 1 .. 2, CloseStep(t, k)
        PROVE  AloneState'
    BY <1>1, <1>8, AloneClosing
  <1>9. ASSUME NEW t \in Tasks, NEW error \in Errors, Done(t, error)
        PROVE  AloneState'
    <2>1. t = "reader"
      BY <1>3, <1>9 DEF Done, AtClose
    <2>2. /\ AtClose("reader") /\ Handed
          /\ aclosed' = (aclosed \/ MarkClosed("reader"))
      BY <1>9, <2>1 DEF Done, AtClose, HandInv
    <2>3. MyClose("reader") = "ok"
      <3>1. Len(task["reader"].left) \in 1 .. 2
        BY <2>2, CloseFacts
      <3> QED BY <1>1, <1>9, <2>1, <3>1 DEF Done, MyClose, Alone, Trouble
    <2>4. TheClose = "ok"
      <3>1. Len(task["reader"].left) = 1 \/ Len(task["reader"].left) = 2
        BY <2>2, CloseFacts
      <3> QED BY <1>1, <2>3, <3>1 DEF MyClose, TheClose, AloneState
    <2>5. IF Async THEN aclosed' ELSE src.closed
      BY <1>1, <2>2, <2>3, <2>4 DEF MarkClosed, Async, AloneState
    <2>6. /\ UNCHANGED <<opener, resp, src, closeOf>>
          /\ task'["reader"].pc = "over"
      BY <1>9, <2>1, <2>5, DoneAt
    <2> QED BY <1>1, <1>4, <2>2, <2>4, <2>6 DEF AloneState, Handed, AtClose
  <1>10. ASSUME NEW t \in Tasks, Drain(t) PROVE AloneState'
    <2>1. /\ UNCHANGED <<opener, resp, src, aclosed, closeOf>>
          /\ task[t].pc = "closing"
          /\ task'[t].pc = "draining"
      BY <1>10, DrainAt
    <2>2. t = "reader"
      BY <1>3, <2>1
    <2> QED BY <1>1, <1>4, <2>1, <2>2 DEF AloneState, Handed, AtClose
  <1>11. ASSUME NEW t \in Tasks, CutClose(t) PROVE AloneState'
    <2>1. Cancels' = Cancels + 1 /\ task[t].pc = "draining"
      BY <1>11, CutAt
    <2>2. Cancels > 0
      BY <2>1 DEF ControlInv
    <2> QED BY <1>2, <2>1, <2>2
  <1>12. CASE OtherCloses
    BY <1>3, <1>12, OtherAt
  <1>13. CASE UNCHANGED vars
    BY <1>1, <1>13 DEF vars, AloneState, TheClose, Handed, AtClose, Unstarted
  <1>14. CASE StopUnstarted
    <2>1. Unstarted'
      BY <1>14, UnstartedAt DEF Unstarted
    <2> QED BY <1>1, <1>4, <1>14, <2>1, UnstartedAt DEF AloneState, Handed, AtClose
  <1> QED BY <1>5, <1>6, <1>7, <1>8, <1>9, <1>10, <1>11, <1>12, <1>13, <1>14
          DEF StepKinds

-----------------------------------------------------------------------------
(* The invariant *)

LEMMA InitInv == Init => StreamsInv
  <1> SUFFICES ASSUME Init PROVE StreamsInv
    OBVIOUS
  <1> USE DEF Tasks
  <1>1. StreamsTypeOK
    BY InitType
  <1>2. /\ task["reader"].pc = "opening" /\ task["closer"].pc = "idle"
        /\ \A t \in Tasks : task[t].failure = "none" /\ task[t].left = <<>>
        /\ \A t \in Tasks, k \in 1 .. 2 : closeOf[t][k] = "none"
        /\ opener = "stat" /\ resp.closes = 0 /\ aclosed = FALSE
        /\ src.closed = FALSE /\ src.callback = TRUE
    BY DEF Init
  <1>3. \A t \in Tasks : closeOf[t][1] = "none" /\ closeOf[t][2] = "none"
    BY <1>2
  <1>4. \A t \in Tasks : task[t].pc \in {"opening", "idle"}
    BY <1>2
  <1>5. ASSUME NEW t \in Tasks PROVE ControlInv(t)
    <2>1. ControlOf(task[t], closeOf[t])
      BY <1>2, <1>3, <1>4, ControlCases
    <2> QED BY <1>4, <2>1 DEF ControlInv
  <1>6. HandInv
    BY <1>2 DEF HandInv, Handed
  <1>7. NativeInv
    BY <1>2 DEF NativeInv
  <1>8. ErrorInv
    BY <1>2 DEF ErrorInv, AtClose
  <1>9. TheClose = "none"
    BY <1>3 DEF TheClose
  <1>10. AloneInv
    BY <1>2, <1>3, <1>9 DEF AloneInv, AloneState, Handed, AtClose
  <1>11. CopiedIsWhole
    BY <1>2 DEF CopiedIsWhole
  <1> QED BY <1>1, <1>5, <1>6, <1>7, <1>8, <1>10, <1>11 DEF StreamsInv

LEMMA StreamsInvStep ==
    ASSUME StreamsInv, [Next]_vars
    PROVE  StreamsInv'
  <1>1. StreamsTypeOK /\ \A t \in Tasks : ControlInv(t)
    BY DEF StreamsInv
  <1>2. StepKinds
    BY <1>1, EveryStep
  <1>3. StreamsTypeOK' /\ plan' = plan /\ Cancels' >= Cancels
    BY <1>1, <1>2, TypeStep
  <1>4. \A t \in Tasks : ControlInv(t)'
    BY <1>1, <1>2, <1>3, ControlStep
  <1>5. HandInv'
    BY <1>1, <1>2, <1>3, HandStep DEF StreamsInv
  <1>6. NativeInv'
    BY <1>1, <1>2, <1>3, NativeStep DEF StreamsInv
  <1>7. ErrorInv'
    BY <1>1, <1>2, <1>3, ErrorStep DEF StreamsInv
  <1>8. AloneInv'
    BY <1>1, <1>2, <1>3, AloneStep DEF StreamsInv
  <1>9. CopiedIsWhole'
    BY <1>1, <1>2, <1>3, CopyStep DEF StreamsInv
  <1>10. (\A t \in Tasks : ControlInv(t))'
    BY <1>4 DEF Tasks
  <1> QED BY <1>3, <1>10, <1>5, <1>6, <1>7, <1>8, <1>9 DEF StreamsInv

(* The inductive invariant holds in every reachable state: types, where    *)
(* each task is among the closes it makes, what the opening handed over,   *)
(* and what the client's response has seen of the closes.                  *)
THEOREM StreamsInvariant == Spec => []StreamsInv
  <1>1. Init => StreamsInv
    BY InitInv
  <1>2. StreamsInv /\ [Next]_vars => StreamsInv'
    BY StreamsInvStep
  <1> QED BY <1>1, <1>2, PTL DEF Spec

-----------------------------------------------------------------------------
(* The theorems *)

(* On the native path a stream that says closed has had its response       *)
(* closed and released: AsyncDocumentContentStream.aclose sets its flag    *)
(* only after its close went well, whatever failed or was cancelled.       *)
THEOREM NativeFlagMeansReleased == Spec => []ClosedMeansReleased
  <1>1. StreamsInv => ClosedMeansReleased
    BY DEF StreamsInv, NativeInv, ClosedMeansReleased
  <1> QED BY <1>1, StreamsInvariant, PTL

(* The response is closed once, unless two tasks close the stream, a close *)
(* went wrong, or a second cancellation hid that it went well.             *)
THEOREM ResponseClosedOnce == Spec => []ClosedOnce
  <1>1. StreamsInv => ClosedOnce
    <2> SUFFICES ASSUME StreamsInv, ~Trouble, ~(Cancels > 1), task["closer"].pc = "idle"
                 PROVE  resp.closes <= 1
      BY DEF ClosedOnce
    <2>1. Cancels \in Nat
      BY CancelsType DEF StreamsInv
    <2>2. AloneState
      BY <2>1 DEF StreamsInv, AloneInv, Alone
    <2> QED BY <2>2 DEF AloneState
  <1> QED BY <1>1, StreamsInvariant, PTL

(* When the reading call returns or raises, the response of the stream it  *)
(* was handed is released, by whichever of the ends of iter_chunks_closing,*)
(* aiter_chunks_closing, iter_document_chunks and copy_document_to, except *)
(* the closing of an iterator that was not started.                        *)
THEOREM ReturnReleases == Spec => []ReleasedBeforeReturn
  <1>1. StreamsInv => ReleasedBeforeReturn
    <2> SUFFICES ASSUME StreamsInv, Handed, task["reader"].pc = "over", ~Trouble,
                        Cancels <= 1, task["closer"].pc = "idle", ~Unstarted
                 PROVE  resp.releases > 0
      BY DEF ReleasedBeforeReturn
    <2>1. AloneState
      BY DEF StreamsInv, AloneInv, Alone
    <2> QED BY <2>1 DEF AloneState
  <1> QED BY <1>1, StreamsInvariant, PTL

(* The call of get_document_content_async_stream that is cancelled while   *)
(* its thread opens the content ends with that content released.           *)
THEOREM CancelledOpenDrops == Spec => []CancelledOpenReleased
  <1>1. StreamsInv => CancelledOpenReleased
    <2> SUFFICES ASSUME StreamsInv, plan.path = "compat", ~Handed,
                        task["reader"].pc = "over", ~Trouble,
                        task["reader"].failure = "cancelled", Cancels = 1
                 PROVE  resp.releases > 0
      BY DEF CancelledOpenReleased
    <2>1. task["closer"].pc = "idle"
      BY DEF StreamsInv, HandInv
    <2>2. AloneState
      BY <2>1 DEF StreamsInv, AloneInv, Alone
    <2> QED BY <2>2 DEF AloneState
  <1> QED BY <1>1, StreamsInvariant, PTL

(* copy_document_to returns without an error only when the sink has every  *)
(* chunk of the content, undamaged where the checksum is verified.         *)
THEOREM CopyIsWhole == Spec => []CopiedIsWhole
  <1>1. StreamsInv => CopiedIsWhole
    BY DEF StreamsInv
  <1> QED BY <1>1, StreamsInvariant, PTL

LEMMA FirstErrorStep ==
    ASSUME StreamsInv, [Next]_vars,
           NEW t \in Tasks, plan.use # "chunks",
           task[t].failure \in {"readError", "writeError", "openError", "mismatch"}
    PROVE  task'[t].failure \in {task[t].failure, "cancelled"}
  <1> USE DEF Tasks
  <1>1. StreamsTypeOK /\ (\A u \in Tasks : ControlInv(u)) /\ HandInv
    BY DEF StreamsInv
  <1>2. StepKinds
    BY <1>1, EveryStep
  <1>3. t = "reader"
    BY <1>1 DEF HandInv
  <1>4. task["reader"].pc \notin {"opening", "openDrain", "dropping", "reading", "writing"}
    BY <1>1, <1>3 DEF ControlInv, ControlOf
  <1>5. CASE OpenStep
    BY <1>1, <1>3, <1>4, <1>5, OpenAt
  <1>6. CASE Transfer
    BY <1>1, <1>4, <1>6, TransferAt
  <1>7. ASSUME NEW failure \in Stops, NEW inner \in BOOLEAN, Stop(failure, inner)
        PROVE  FALSE
    BY <1>1, <1>4, <1>7, StopAt
  <1>8. ASSUME NEW u \in Tasks, NEW k \in 1 .. 2, CloseStep(u, k)
        PROVE  task' = task
    BY <1>1, <1>8, CloseStepAt
  <1>9. ASSUME NEW u \in Tasks, NEW error \in Errors, Done(u, error)
        PROVE  task'[t].failure \in {task[t].failure, "cancelled"}
    <2>1. CASE u = "closer"
      BY <1>1, <1>3, <1>9, <2>1, DoneAt
    <2>2. CASE u = "reader"
      <3>1. AtClose("reader")
        BY <1>9, <2>2 DEF Done
      <3>2. Keeping(task["reader"].left)
        BY <3>1 DEF StreamsInv, ErrorInv
      <3>3. Head(task["reader"].left) = TRUE
        BY <1>1, <3>1, <3>2, CloseFacts
      <3>4. /\ Told("reader", error) \in {task["reader"].failure, "cancelled"}
            /\ Told("reader", error) \in Failure
        BY <1>1, <1>3, <3>3, ToldFacts
      <3>5. CopyChecked(Told("reader", error)) = Told("reader", error)
        BY <1>3, <3>4, FailureFacts
      <3>6. task'["reader"].failure = Told("reader", error)
        BY <1>1, <1>9, <2>2, <3>5, DoneAt
      <3> QED BY <1>3, <3>4, <3>6
    <2> QED BY <2>1, <2>2
  <1>10. ASSUME NEW u \in Tasks, Drain(u) PROVE task'[t].failure = task[t].failure
    BY <1>1, <1>10, DrainAt
  <1>11. ASSUME NEW u \in Tasks, CutClose(u)
         PROVE  task'[t].failure \in {task[t].failure, "cancelled"}
    BY <1>1, <1>11, CutAt
  <1>12. CASE OtherCloses
    BY <1>1, <1>3, <1>12, OtherAt
  <1>13. CASE UNCHANGED vars
    BY <1>13 DEF vars
  <1>14. CASE StopUnstarted
    BY <1>1, <1>4, <1>14, UnstartedAt
  <1> QED BY <1>2, <1>5, <1>6, <1>7, <1>8, <1>9, <1>10, <1>11, <1>12, <1>13, <1>14
          DEF StepKinds

(* An error of opening, reading, writing or comparing stays the one the    *)
(* call ends with, unless a cancellation replaces it: no error of a later  *)
(* close does (iter_chunks_closing, copy_document_to).                     *)
THEOREM FirstErrorStays == Spec => FirstErrorKept
  <1>1. StreamsInv /\ [Next]_vars =>
           [\A t \in Tasks :
              task[t].failure \in {"readError", "writeError", "openError", "mismatch"}
              /\ plan.use # "chunks"
                => task'[t].failure \in {task[t].failure, "cancelled"}]_vars
    BY FirstErrorStep
  <1> QED BY <1>1, StreamsInvariant, PTL DEF Spec, FirstErrorKept

=============================================================================
