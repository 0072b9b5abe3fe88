---------------------------- MODULE FacadeProofs ----------------------------
(***************************************************************************)
(* Theorems about Facade, for any number of tasks, contexts, calls,        *)
(* failures and cancellations, and batches of any size.                    *)
(***************************************************************************)
EXTENDS Facade, SequenceTheorems, TLAPS

Recoveries == Repairs \cup Batches

(* Where a recovery sets its context variable. *)
SetPoint(m) == IF m = "execute_reconciliation_plan" THEN 2 * Items + 1 ELSE 3

Entering == {"call", "bare", "item", "review"}

(***************************************************************************)
(* What the proofs use of the method m with the steps p: between setting   *)
(* and resetting the variable, a batch does nothing but repair and review, *)
(* and only there methods are entered without a context.                   *)
(***************************************************************************)
WellFormed(m, p) ==
    /\ Len(p) \in Nat \ {0}
    /\ m \in Recoveries =>
          /\ SetPoint(m) \in 1 .. Len(p) - 1
          /\ p[SetPoint(m)][1] = "set"
          /\ p[Len(p)][1] = "reset"
    /\ \A i \in 1 .. Len(p) :
          /\ p[i][1] = "set" => m \in Recoveries /\ i = SetPoint(m)
          /\ p[i][1] = "reset" => m \in Recoveries /\ i = Len(p)
          /\ p[i][1] \in {"bare", "item", "review"} =>
                m \in Recoveries /\ SetPoint(m) < i /\ i < Len(p)
          /\ p[i][1] = "item" => /\ p[i][2] = "mark_failed"
                                 /\ i + 1 < Len(p)
                                 /\ p[i + 1][1] = "review"
          /\ p[i][1] = "bare" =>
                p[i][2] \in {"inspect_document",
                             "get_internal_document_metadata"}
          /\ p[i][1] = "call" =>
                /\ m \in {"upload_file", "copy_document_to",
                          "reconcile_documents"}
                /\ p[i][2] \in {"upload_document_stream",
                                "get_document_content_stream",
                                "list_recovery_candidates"}
                /\ m \in Recoveries => i < SetPoint(m)
          /\ m \in Batches /\ SetPoint(m) < i /\ i < Len(p) =>
                p[i][1] \in {"item", "review"}
          /\ p[i][1] = "audit" =>
                /\ m \in Repairs
                /\ m # "preview" => \E j \in 1 .. i - 1 : p[j][1] = "change"

(* What may be refused comes before what changes something. *)
Orderly(p) ==
    \A i, j \in 1 .. Len(p) :
       i < j /\ p[i][1] \in Entering \cup {"change"} =>
          p[j][1] \notin {"ask", "call", "bare"}

-----------------------------------------------------------------------------
(* The programs *)

(* The methods that enter no other. *)
LEMMA ShortPrograms ==
    ASSUME NEW m, m \notin Recoveries, NEW q, NEW p, NEW k,
           k \in {"serve", "load", "change"},
           \/ p = <<ask(q), does(k)>>
           \/ p = <<does("serve"), ask(q)>>
           \/ p = <<does("serve"), does("load"), ask(q)>>
           \/ p = <<does("load"), ask(q), does(k)>>
    PROVE  WellFormed(m, p) /\ Orderly(p)
<1>1. CASE p = <<ask(q), does(k)>>
  BY <1>1 DEF WellFormed, Orderly, Recoveries, Batches, Repairs, Entering, ask,
              does
<1>2. CASE p = <<does("serve"), ask(q)>>
  BY <1>2 DEF WellFormed, Orderly, Recoveries, Batches, Repairs, Entering, ask,
              does
<1>3. CASE p = <<does("serve"), does("load"), ask(q)>>
  BY <1>3 DEF WellFormed, Orderly, Recoveries, Batches, Repairs, Entering, ask,
              does
<1>4. CASE p = <<does("load"), ask(q), does(k)>>
  BY <1>4 DEF WellFormed, Orderly, Recoveries, Batches, Repairs, Entering, ask,
              does
<1>. QED BY <1>1, <1>2, <1>3, <1>4

LEMMA UploadPrograms ==
    ASSUME NEW m \in DOMAIN SyncUploads
    PROVE  WellFormed(m, SyncUploads[m]) /\ Orderly(SyncUploads[m])
<1>1. CASE m = "upload_file"
  <2>. DEFINE p == SyncUploads[m]
  <2>1. p = <<ask("upload"), does("open"), call("upload_document_stream"),
              does("close")>>
    BY <1>1 DEF SyncUploads
  <2>. HIDE DEF p
  <2>2. WellFormed(m, p)
    BY <1>1, <2>1 DEF WellFormed, ask, does, call, Recoveries, Repairs, Batches
  <2>3. Orderly(p)
    BY <2>1 DEF Orderly, Entering, ask, does, call
  <2>. QED BY <2>2, <2>3 DEF p
<1>2. CASE m # "upload_file"
  <2>1. m \notin Recoveries
    BY <1>2 DEF SyncUploads, Recoveries, Repairs, Batches
  <2>2. \E k \in {"change", "serve"} : \E q :
           SyncUploads[m] = <<ask(q), does(k)>>
    BY <1>2 DEF SyncUploads
  <2>. QED BY <2>1, <2>2, ShortPrograms
<1>. QED BY <1>1, <1>2

LEMMA ReadPrograms ==
    ASSUME NEW m \in DOMAIN SyncReads
    PROVE  WellFormed(m, SyncReads[m]) /\ Orderly(SyncReads[m])
<1>1. m \notin Recoveries
  BY DEF SyncReads, Recoveries, Repairs, Batches
<1>2. \E q : \/ SyncReads[m] = <<does("serve"), ask(q)>>
             \/ SyncReads[m] = <<ask(q), does("serve")>>
  BY DEF SyncReads
<1>. QED BY <1>1, <1>2, ShortPrograms

LEMMA ContentPrograms ==
    ASSUME NEW m \in DOMAIN SyncContent
    PROVE  WellFormed(m, SyncContent[m]) /\ Orderly(SyncContent[m])
<1>1. CASE m = "copy_document_to"
  <2>. DEFINE p == SyncContent[m]
  <2>1. p = <<does("load"), ask("content.copy"),
              call("get_document_content_stream"), does("serve")>>
    BY <1>1 DEF SyncContent
  <2>. HIDE DEF p
  <2>2. WellFormed(m, p)
    BY <1>1, <2>1 DEF WellFormed, ask, does, call, Recoveries, Repairs, Batches
  <2>3. Orderly(p)
    BY <2>1 DEF Orderly, Entering, ask, does, call
  <2>. QED BY <2>2, <2>3 DEF p
<1>2. CASE m # "copy_document_to"
  <2>1. m \notin Recoveries
    BY <1>2 DEF SyncContent, Recoveries, Repairs, Batches
  <2>2. \E q : SyncContent[m] = <<does("load"), ask(q), does("serve")>>
    BY <1>2 DEF SyncContent
  <2>. QED BY <2>1, <2>2, ShortPrograms
<1>. QED BY <1>1, <1>2

(* From a point on nobody is asked, and before it nothing is changed. *)
TurnsAt(p, k) ==
    \A i \in 1 .. Len(p) :
       /\ i < k => p[i][1] \notin Entering \cup {"change"}
       /\ i > k => p[i][1] \notin {"ask", "call", "bare"}

LEMMA Threshold ==
    \A p : \A k \in Nat : Len(p) \in Nat /\ TurnsAt(p, k) => Orderly(p)
  BY DEF Orderly, TurnsAt

(* The shape of a recovery: the preliminaries, the work, the end. *)
LEMMA RepairShape ==
    ASSUME NEW inspect \in {bare("inspect_document"), does("serve")},
           NEW m \in Repairs
    PROVE  \A p :
              p = <<does("find"), ask("recovery.execute"), does("set")>>
                  \o Apply(m, inspect) \o <<does("audit"), does("reset")>>
              => /\ WellFormed(m, p)
                 /\ inspect = does("serve") => Orderly(p)
<1>. SUFFICES ASSUME NEW p PROVE
              p = <<does("find"), ask("recovery.execute"), does("set")>>
                  \o Apply(m, inspect) \o <<does("audit"), does("reset")>>
              => /\ WellFormed(m, p)
                 /\ inspect = does("serve") => Orderly(p)
  OBVIOUS
<1>0. SUFFICES
         ASSUME p = <<does("find"), ask("recovery.execute"), does("set")>>
                    \o Apply(m, inspect) \o <<does("audit"), does("reset")>>
         PROVE  /\ WellFormed(m, p)
                /\ inspect = does("serve") => Orderly(p)
  OBVIOUS
<1>1. CASE m = "mark_failed"
  <2>1. /\ Len(p) = 9
        /\ p[1] = does("find")
        /\ p[2] = ask("recovery.execute")
        /\ p[3] = does("set")
        /\ p[4] = inspect
        /\ p[5] = bare("get_internal_document_metadata")
        /\ p[6] = does("change")
        /\ p[7] = inspect
        /\ p[8] = does("audit")
        /\ p[9] = does("reset")
    BY <1>0, <1>1 DEF Apply
  <2>2. /\ p[1][1] = "find"
        /\ p[2][1] = "ask"
        /\ p[3][1] = "set"
        /\ p[4][1] \in {"bare", "serve"}
        /\ p[4][1] = "bare" => p[4][2] = "inspect_document"
        /\ p[5][1] = "bare"
        /\ p[5][2] = "get_internal_document_metadata"
        /\ p[6][1] = "change"
        /\ p[7][1] \in {"bare", "serve"}
        /\ p[7][1] = "bare" => p[7][2] = "inspect_document"
        /\ p[8][1] = "audit"
        /\ p[9][1] = "reset"
    BY <2>1 DEF ask, does, bare
  <2>3. \A i \in 1 .. 9 : p[i][1] = "audit" => i = 8
    BY <2>2
  <2>4. WellFormed(m, p)
    BY <1>1, <2>1, <2>2, <2>3
    DEF WellFormed, Recoveries, Repairs, Batches, SetPoint
  <2>5. ASSUME inspect = does("serve") PROVE Orderly(p)
    <3>1. p[4][1] = "serve" /\ p[7][1] = "serve"
      BY <2>1, <2>5 DEF does
    <3>2. TurnsAt(p, 5)
      BY <2>1, <2>2, <3>1 DEF Entering, TurnsAt
    <3>. QED BY <2>1, <3>2, Threshold
  <2>. QED BY <2>4, <2>5
<1>2. CASE m = "complete_deletion"
  <2>1. /\ Len(p) = 8
        /\ p[1] = does("find")
        /\ p[2] = ask("recovery.execute")
        /\ p[3] = does("set")
        /\ p[4] = inspect
        /\ p[5] = does("change")
        /\ p[6] = inspect
        /\ p[7] = does("audit")
        /\ p[8] = does("reset")
    BY <1>0, <1>2 DEF Apply
  <2>2. /\ p[1][1] = "find"
        /\ p[2][1] = "ask"
        /\ p[3][1] = "set"
        /\ p[4][1] \in {"bare", "serve"}
        /\ p[4][1] = "bare" => p[4][2] = "inspect_document"
        /\ p[5][1] = "change"
        /\ p[6][1] \in {"bare", "serve"}
        /\ p[6][1] = "bare" => p[6][2] = "inspect_document"
        /\ p[7][1] = "audit"
        /\ p[8][1] = "reset"
    BY <2>1 DEF ask, does, bare
  <2>3. \A i \in 1 .. 8 : p[i][1] = "audit" => i = 7
    BY <2>2
  <2>4. WellFormed(m, p)
    BY <1>2, <2>1, <2>2, <2>3
    DEF WellFormed, Recoveries, Repairs, Batches, SetPoint
  <2>5. ASSUME inspect = does("serve") PROVE Orderly(p)
    <3>1. p[4][1] = "serve" /\ p[6][1] = "serve"
      BY <2>1, <2>5 DEF does
    <3>2. TurnsAt(p, 5)
      BY <2>1, <2>2, <3>1 DEF Entering, TurnsAt
    <3>. QED BY <2>1, <3>2, Threshold
  <2>. QED BY <2>4, <2>5
<1>3. CASE m = "preview"
  <2>1. /\ Len(p) = 7
        /\ p[1] = does("find")
        /\ p[2] = ask("recovery.execute")
        /\ p[3] = does("set")
        /\ p[4] = inspect
        /\ p[5] = inspect
        /\ p[6] = does("audit")
        /\ p[7] = does("reset")
    BY <1>0, <1>3 DEF Apply
  <2>2. /\ p[1][1] = "find"
        /\ p[2][1] = "ask"
        /\ p[3][1] = "set"
        /\ p[4][1] \in {"bare", "serve"}
        /\ p[4][1] = "bare" => p[4][2] = "inspect_document"
        /\ p[5][1] \in {"bare", "serve"}
        /\ p[5][1] = "bare" => p[5][2] = "inspect_document"
        /\ p[6][1] = "audit"
        /\ p[7][1] = "reset"
    BY <2>1 DEF ask, does, bare
  <2>3. m = "preview"
    BY <1>3
  <2>4. WellFormed(m, p)
    BY <1>3, <2>1, <2>2, <2>3
    DEF WellFormed, Recoveries, Repairs, Batches, SetPoint
  <2>5. ASSUME inspect = does("serve") PROVE Orderly(p)
    <3>1. p[4][1] = "serve" /\ p[5][1] = "serve"
      BY <2>1, <2>5 DEF does
    <3>2. TurnsAt(p, 7)
      BY <2>1, <2>2, <3>1 DEF Entering, TurnsAt
    <3>. QED BY <2>1, <3>2, Threshold
  <2>. QED BY <2>4, <2>5
<1>. QED BY <1>1, <1>2, <1>3 DEF Repairs

LEMMA RepairPrograms ==
    ASSUME NEW m \in Repairs
    PROVE  /\ WellFormed(m, SyncReconcile(m))
           /\ WellFormed(m, NativeReconcile(m))
           /\ Orderly(NativeReconcile(m))
  BY RepairShape DEF SyncReconcile, SyncApply, NativeReconcile, NativeApply

(* The steps a batch or plan consists of. *)
BatchSteps ==
    {ask("recovery.execute"), call("list_recovery_candidates"), does("find"),
     does("set"), <<"item", "mark_failed">>, does("review"), does("reset")}

LEMMA Pair ==
    ASSUME NEW S, NEW x \in S, NEW y \in S, NEW z \in S
    PROVE  /\ <<x>> \in Seq(S) /\ Len(<<x>>) = 1
           /\ <<x, y>> \in Seq(S) /\ Len(<<x, y>>) = 2
           /\ <<x, y, z>> \in Seq(S) /\ Len(<<x, y, z>>) = 3
  OBVIOUS

(* A program of three parts. *)
LEMMA Concat3 ==
    \A S : \A a, b, c \in Seq(S) : \A p :
       p = a \o b \o c =>
          /\ Len(p) = Len(a) + Len(b) + Len(c)
          /\ \A i \in 1 .. Len(a) : p[i] = a[i]
          /\ \A i \in 1 .. Len(b) : p[Len(a) + i] = b[i]
          /\ \A i \in 1 .. Len(c) : p[Len(a) + Len(b) + i] = c[i]
  OBVIOUS

(* The items of a batch or plan: repairs at odd places, reviews at even. *)
LEMMA ItemSteps ==
    /\ EachItem \in Seq(BatchSteps)
    /\ Len(EachItem) = 2 * Items
    /\ \A i \in 1 .. 2 * Items :
          EachItem[i] = IF i % 2 = 1 THEN <<"item", "mark_failed">>
                                     ELSE does("review")
<1>. DEFINE two == <<<<"item", "mark_failed">>, does("review")>>
<1>. Items \in Nat
  BY FacadeAssumption
<1>0. <<"item", "mark_failed">> \in BatchSteps /\ does("review") \in BatchSteps
  BY DEF BatchSteps
<1>1. two \in Seq(BatchSteps) /\ Len(two) = 2
  BY <1>0, Pair
<1>2. two[1] = <<"item", "mark_failed">> /\ two[2] = does("review")
  OBVIOUS
<1>3. EachItem = [i \in 1 .. Items * Len(two) |->
                    two[((i - 1) % Len(two)) + 1]]
  BY DEF EachItem, Repeat
<1>. HIDE DEF two
<1>4. EachItem = [i \in 1 .. 2 * Items |-> two[((i - 1) % 2) + 1]]
  BY <1>1, <1>3
<1>5. \A i \in 1 .. 2 * Items :
         /\ ((i - 1) % 2) + 1 \in 1 .. 2
         /\ i % 2 = 1 => ((i - 1) % 2) + 1 = 1
         /\ i % 2 # 1 => ((i - 1) % 2) + 1 = 2
  OBVIOUS
<1>6. \A i \in 1 .. 2 * Items : two[((i - 1) % 2) + 1] \in BatchSteps
  BY <1>1, <1>5, ElementOfSeq
<1>. QED BY <1>1, <1>2, <1>4, <1>5, <1>6

LEMMA BatchProgram ==
    WellFormed("reconcile_documents", SyncBatch) /\ Orderly(SyncBatch)
<1>. DEFINE a == <<ask("recovery.execute"), call("list_recovery_candidates"),
                   does("set")>>
            c == <<does("reset")>>
            n == 2 * Items
<1>. Items \in Nat
  BY FacadeAssumption
<1>1. SUFFICES ASSUME NEW p, p = SyncBatch
               PROVE  WellFormed("reconcile_documents", p) /\ Orderly(p)
  OBVIOUS
<1>2. /\ a \in Seq(BatchSteps) /\ Len(a) = 3
      /\ c \in Seq(BatchSteps) /\ Len(c) = 1
  <2>1. /\ ask("recovery.execute") \in BatchSteps
        /\ call("list_recovery_candidates") \in BatchSteps
        /\ does("set") \in BatchSteps /\ does("reset") \in BatchSteps
    BY DEF BatchSteps
  <2>. QED BY <2>1, Pair
<1>0. p = a \o EachItem \o c
  BY <1>1 DEF SyncBatch
<1>. HIDE DEF a, c
<1>3. /\ Len(p) = Len(a) + Len(EachItem) + Len(c)
      /\ \A i \in 1 .. Len(a) : p[i] = a[i]
      /\ \A i \in 1 .. Len(EachItem) : p[Len(a) + i] = EachItem[i]
      /\ \A i \in 1 .. Len(c) : p[Len(a) + Len(EachItem) + i] = c[i]
  <2>1. a \in Seq(BatchSteps) /\ c \in Seq(BatchSteps)
    BY <1>2
  <2>2. EachItem \in Seq(BatchSteps)
    BY ItemSteps
  <2>. QED BY <1>0, <2>1, <2>2, Concat3, SMT
<1>4. /\ Len(p) = n + 4
      /\ p[1] = a[1] /\ p[2] = a[2] /\ p[3] = a[3]
      /\ \A i \in 1 .. n : p[3 + i] = EachItem[i]
      /\ p[n + 4] = c[1]
  BY <1>2, <1>3, ItemSteps
<1>5. \A i \in 4 .. n + 3 :
         p[i] = IF i % 2 = 0 THEN <<"item", "mark_failed">> ELSE does("review")
  <2>. SUFFICES ASSUME NEW i \in 4 .. n + 3
                PROVE  p[i] = IF i % 2 = 0 THEN <<"item", "mark_failed">>
                                           ELSE does("review")
    OBVIOUS
  <2>. DEFINE e == i - 3
  <2>1. e \in 1 .. n /\ 3 + e = i /\ (e % 2 = 1 <=> i % 2 = 0)
    OBVIOUS
  <2>2. p[i] = EachItem[e]
    BY <1>4, <2>1
  <2>. QED BY <2>1, <2>2, ItemSteps
<1>6. /\ p[1][1] = "ask"
      /\ p[2][1] = "call" /\ p[2][2] = "list_recovery_candidates"
      /\ p[3][1] = "set" /\ p[n + 4][1] = "reset"
  BY <1>4 DEF a, c, ask, call, does
<1>7. \A i \in 4 .. n + 3 :
         /\ p[i][1] \in {"item", "review"}
         /\ p[i][1] = "item" => i % 2 = 0 /\ p[i][2] = "mark_failed"
         /\ i % 2 # 0 => p[i][1] = "review"
  BY <1>5 DEF does
<1>8. ASSUME NEW i \in 1 .. n + 4, p[i][1] = "item"
      PROVE  /\ p[i][2] = "mark_failed"
             /\ i + 1 < n + 4
             /\ p[i + 1][1] = "review"
  <2>1. i \in 4 .. n + 3 /\ i % 2 = 0 /\ p[i][2] = "mark_failed"
    BY <1>6, <1>7, <1>8
  <2>2. i + 1 \in 4 .. n + 3 /\ (i + 1) % 2 # 0
    BY <2>1
  <2>. QED BY <1>7, <2>1, <2>2
<1>9. WellFormed("reconcile_documents", p)
  BY <1>4, <1>6, <1>7, <1>8
  DEF WellFormed, Recoveries, Repairs, Batches, SetPoint
<1>10. TurnsAt(p, 2)
  BY <1>4, <1>6, <1>7 DEF TurnsAt, Entering
<1>. QED BY <1>4, <1>9, <1>10, Threshold

LEMMA PlanProgram ==
    WellFormed("execute_reconciliation_plan", SyncPlan) /\ Orderly(SyncPlan)
<1>. DEFINE q == Repeat(<<does("find"), ask("recovery.execute")>>, Items)
            a == q \o <<does("set")>>
            c == <<does("reset")>>
            n == 2 * Items
            m == "execute_reconciliation_plan"
<1>. Items \in Nat
  BY FacadeAssumption
<1>1. SUFFICES ASSUME NEW p, p = SyncPlan
               PROVE  WellFormed(m, p) /\ Orderly(p)
  OBVIOUS
<1>2. /\ q \in Seq(BatchSteps) /\ Len(q) = n
      /\ \A i \in 1 .. n : q[i] \in {does("find"), ask("recovery.execute")}
  <2>. DEFINE two == <<does("find"), ask("recovery.execute")>>
  <2>1. two \in Seq(BatchSteps) /\ Len(two) = 2
    BY Pair DEF BatchSteps
  <2>2. two[1] = does("find") /\ two[2] = ask("recovery.execute")
    OBVIOUS
  <2>3. q = [i \in 1 .. Items * Len(two) |-> two[((i - 1) % Len(two)) + 1]]
    BY DEF Repeat
  <2>. HIDE DEF two, q
  <2>4. q = [i \in 1 .. 2 * Items |-> two[((i - 1) % 2) + 1]]
    BY <2>1, <2>3
  <2>5. \A i \in 1 .. 2 * Items : ((i - 1) % 2) + 1 \in {1, 2}
    OBVIOUS
  <2>6. \A i \in 1 .. 2 * Items :
           two[((i - 1) % 2) + 1] \in {does("find"), ask("recovery.execute")}
    BY <2>2, <2>5
  <2>. QED BY <2>4, <2>6 DEF BatchSteps
<1>3. SyncPlan = (q \o <<does("set")>>) \o EachItem \o c
  BY DEF SyncPlan
<1>. HIDE DEF q, c, m
<1>4. /\ a \in Seq(BatchSteps) /\ Len(a) = n + 1 /\ a[n + 1] = does("set")
      /\ \A i \in 1 .. n : a[i] \in {does("find"), ask("recovery.execute")}
      /\ c \in Seq(BatchSteps) /\ Len(c) = 1 /\ c[1] = does("reset")
  BY <1>2, Pair DEF BatchSteps, c
<1>5. p = a \o EachItem \o c
  BY <1>1, <1>3
<1>. HIDE DEF a
<1>6. /\ Len(p) = Len(a) + Len(EachItem) + Len(c)
      /\ \A i \in 1 .. Len(a) : p[i] = a[i]
      /\ \A i \in 1 .. Len(EachItem) : p[Len(a) + i] = EachItem[i]
      /\ \A i \in 1 .. Len(c) : p[Len(a) + Len(EachItem) + i] = c[i]
  <2>1. a \in Seq(BatchSteps) /\ c \in Seq(BatchSteps)
    BY <1>4
  <2>2. EachItem \in Seq(BatchSteps)
    BY ItemSteps
  <2>. QED BY <1>5, <2>1, <2>2, Concat3, SMT
<1>7. /\ Len(p) = 2 * n + 2
      /\ \A i \in 1 .. n : p[i] = a[i]
      /\ p[n + 1] = a[n + 1]
      /\ \A i \in 1 .. n : p[n + 1 + i] = EachItem[i]
      /\ p[2 * n + 2] = c[1]
  BY <1>4, <1>6, ItemSteps
<1>8. \A i \in n + 2 .. 2 * n + 1 :
         p[i] = IF i % 2 = 0 THEN <<"item", "mark_failed">> ELSE does("review")
  <2>. SUFFICES ASSUME NEW i \in n + 2 .. 2 * n + 1
                PROVE  p[i] = IF i % 2 = 0 THEN <<"item", "mark_failed">>
                                           ELSE does("review")
    OBVIOUS
  <2>. DEFINE e == i - (n + 1)
  <2>1. e \in 1 .. n /\ n + 1 + e = i /\ (e % 2 = 1 <=> i % 2 = 0)
    OBVIOUS
  <2>2. p[i] = EachItem[e]
    BY <1>7, <2>1
  <2>. QED BY <2>1, <2>2, ItemSteps
<1>9. /\ p[n + 1][1] = "set" /\ p[2 * n + 2][1] = "reset"
      /\ \A i \in 1 .. n : p[i][1] \in {"find", "ask"}
  <2>1. \A i \in 1 .. n : p[i] \in {does("find"), ask("recovery.execute")}
    BY <1>4, <1>7
  <2>. QED BY <1>4, <1>7, <2>1 DEF ask, does
<1>10. \A i \in n + 2 .. 2 * n + 1 :
         /\ p[i][1] \in {"item", "review"}
         /\ p[i][1] = "item" => i % 2 = 0 /\ p[i][2] = "mark_failed"
         /\ i % 2 # 0 => p[i][1] = "review"
  BY <1>8 DEF does
<1>11. ASSUME NEW i \in 1 .. 2 * n + 2, p[i][1] = "item"
       PROVE  /\ p[i][2] = "mark_failed"
              /\ i + 1 < 2 * n + 2
              /\ p[i + 1][1] = "review"
  <2>1. i \in n + 2 .. 2 * n + 1 /\ i % 2 = 0 /\ p[i][2] = "mark_failed"
    BY <1>9, <1>10, <1>11
  <2>2. i + 1 \in n + 2 .. 2 * n + 1 /\ (i + 1) % 2 # 0
    BY <2>1
  <2>. QED BY <1>10, <2>1, <2>2
<1>12. WellFormed(m, p)
  BY <1>7, <1>9, <1>10, <1>11, SMTT(30)
  DEF WellFormed, Recoveries, Repairs, Batches, SetPoint, m
<1>13. TurnsAt(p, n + 1)
  BY <1>7, <1>9, <1>10, SMTT(30) DEF TurnsAt, Entering
<1>. QED BY <1>7, <1>12, <1>13, Threshold

-----------------------------------------------------------------------------

(* The steps of a method on a kind of SDK. *)
Steps(sd, m) == IF sd = "native" THEN NativePrograms[m] ELSE SyncPrograms[m]

(* A repair of the synchronous SDK asks again at its end. *)
AsksAgain(sd, m) == sd # "native" /\ m \in Repairs

LEMMA Programs ==
    ASSUME NEW sd, NEW m \in AllMethods
    PROVE  /\ WellFormed(m, Steps(sd, m))
           /\ AsksAgain(sd, m) \/ Orderly(Steps(sd, m))
<1>1. /\ DOMAIN SyncUploads = {"upload_document", "upload_document_stream",
                               "upload_file", "get_upload_operation"}
      /\ DOMAIN SyncReads = {"get_internal_document_metadata",
                             "get_document_metadata", "list_documents"}
      /\ DOMAIN SyncContent = {"get_document_content",
                               "get_document_content_stream",
                               "copy_document_to"}
      /\ DOMAIN Resets = {"clear_all_data", "clear_partition_data",
                          "initialize_for_data_load",
                          "initialize_partition_for_data_load"}
  BY DEF SyncUploads, SyncReads, SyncContent, Resets
<1>2. /\ SyncPrograms[m] = SyncProgram(m)
      /\ NativePrograms[m] = NativeProgram(m)
  BY DEF SyncPrograms, NativePrograms
<1>3. Steps(sd, m) \in {SyncProgram(m), NativeProgram(m)}
  BY <1>2 DEF Steps
<1>4. CASE m \in DOMAIN SyncUploads
  <2>1. Steps(sd, m) = SyncUploads[m]
    BY <1>1, <1>3, <1>4
    DEF SyncProgram, NativeProgram, NativeUploads, NativeReads, NativeContent,
        Repairs, Deletions
  <2>. QED BY <1>4, <2>1, UploadPrograms
<1>5. CASE m \in DOMAIN SyncReads
  <2>1. Steps(sd, m) = SyncReads[m]
    BY <1>1, <1>3, <1>5
    DEF SyncProgram, NativeProgram, NativeUploads, NativeReads, NativeContent,
        Repairs, Deletions
  <2>. QED BY <1>5, <2>1, ReadPrograms
<1>6. CASE m \in DOMAIN SyncContent
  <2>1. Steps(sd, m) = SyncContent[m]
    BY <1>1, <1>3, <1>6
    DEF SyncProgram, NativeProgram, NativeUploads, NativeReads, NativeContent,
        Repairs, Deletions
  <2>. QED BY <1>6, <2>1, ContentPrograms
<1>7. CASE m = "inspect_document"
  <2>1. Steps(sd, m) = SyncInspect
    BY <1>1, <1>3, <1>7
    DEF SyncProgram, NativeProgram, NativeUploads, NativeReads, NativeContent,
        NativeInspect, Repairs, Deletions
  <2>. QED BY <1>7, <2>1, ShortPrograms
           DEF SyncInspect, Recoveries, Repairs, Batches
<1>8. CASE m = "list_recovery_candidates"
  <2>1. Steps(sd, m) = SyncListCandidates
    BY <1>1, <1>3, <1>8
    DEF SyncProgram, NativeProgram, NativeUploads, NativeReads, NativeContent,
        NativeListCandidates, Repairs, Deletions
  <2>. QED BY <1>8, <2>1, ShortPrograms
           DEF SyncListCandidates, Recoveries, Repairs, Batches
<1>9. CASE m \in Repairs
  <2>1. Steps(sd, m) = 
       IF sd = "native"
       THEN NativeReconcile(m) ELSE SyncReconcile(m)
    BY <1>1, <1>2, <1>9
    DEF Steps, SyncProgram, NativeProgram, NativeUploads, NativeReads,
        NativeContent, Repairs, Deletions
  <2>. QED BY <1>9, <2>1, RepairPrograms DEF AsksAgain
<1>10. CASE m = "reconcile_documents"
  <2>1. Steps(sd, m) = SyncBatch
    BY <1>1, <1>3, <1>10
    DEF SyncProgram, NativeProgram, NativeUploads, NativeReads, NativeContent,
        NativeBatch, Repairs, Deletions
  <2>. QED BY <1>10, <2>1, BatchProgram
<1>11. CASE m = "execute_reconciliation_plan"
  <2>1. Steps(sd, m) = SyncPlan
    BY <1>1, <1>3, <1>11
    DEF SyncProgram, NativeProgram, NativeUploads, NativeReads, NativeContent,
        NativePlan, Repairs, Deletions
  <2>. QED BY <1>11, <2>1, PlanProgram
<1>12. CASE m \in Deletions
  <2>1. Steps(sd, m) = SyncDelete(m)
    BY <1>1, <1>3, <1>12
    DEF SyncProgram, NativeProgram, NativeUploads, NativeReads, NativeContent,
        NativeDelete, Repairs, Deletions
  <2>. QED BY <1>12, <2>1, ShortPrograms
           DEF SyncDelete, Deletions, Recoveries, Repairs, Batches
<1>13. CASE m \in DOMAIN Resets
  <2>1. Steps(sd, m) = SyncReset(m)
    BY <1>1, <1>3, <1>13
    DEF SyncProgram, NativeProgram, NativeUploads, NativeReads, NativeContent,
        NativeReset, Repairs, Deletions
  <2>. QED BY <1>1, <1>13, <2>1, ShortPrograms
           DEF SyncReset, Recoveries, Repairs, Batches
<1>. QED BY <1>1, <1>4, <1>5, <1>6, <1>7, <1>8, <1>9, <1>10, <1>11, <1>12, <1>13
     DEF AllMethods, DelegatedDocuments, DelegatedRecovery, DelegatedContent,
         Batches

-----------------------------------------------------------------------------
(* The inductive invariant *)

Frames ==
    [method : AllMethods, pc : Nat \ {0}, context : Contexts \cup {None},
     token : Contexts \cup {None, Unset}, changed : BOOLEAN,
     audit : {None, "applied", "previewed"}]

Length(sd, f) == Len(Steps(sd, f.method))

Kind(sd, f) == Steps(sd, f.method)[f.pc][1]

Callee(sd, f) ==
    IF Kind(sd, f) = "review" THEN "inspect_document"
                              ELSE Steps(sd, f.method)[f.pc][2]

(***************************************************************************)
(* A frame by itself: it holds a token between setting and resetting the   *)
(* variable, and has noted that it is past its change.                     *)
(***************************************************************************)
FrameOK(sd, f) ==
    /\ f.pc <= Length(sd, f) + 1
    /\ f.token # Unset <=> /\ f.method \in Recoveries
                          /\ SetPoint(f.method) < f.pc
                          /\ f.pc <= Length(sd, f)
    /\ (\E j \in 1 .. f.pc - 1 : Steps(sd, f.method)[j][1] = "change")
          => f.changed
    /\ f.audit = "applied" => f.changed

(* Each frame is there because the one below it is entering its method. *)
Chained(sd, s) ==
    \A i \in 1 .. Len(s) - 1 :
       /\ s[i].pc <= Length(sd, s[i])
       /\ Kind(sd, s[i]) \in Entering
       /\ s[i + 1].method = Callee(sd, s[i])

(* The variable after the first n frames of a call made with context g. *)
ValueAt(s, n, g) ==
    IF \E i \in 1 .. n : s[i].token # Unset THEN g ELSE None

(* The variable has the caller's context while a recovery is under way, and *)
(* every token restores what was there before.                             *)
TokensOK(s, v, g) ==
    /\ v = ValueAt(s, Len(s), g)
    /\ \A i \in 1 .. Len(s) :
          s[i].token # Unset => s[i].token = ValueAt(s, i - 1, g)

(* Who has no context of the caller reads it from the variable. *)
ContextsOK(s, g) ==
    \A i \in 1 .. Len(s) :
       \/ s[i].context = g
       \/ /\ s[i].context = None
          /\ s[i].method = "get_internal_document_metadata"
          /\ i > 1 /\ s[i - 1].token # Unset

(* Nothing that follows may be refused. *)
Quiet(sd, f) ==
    \A j \in f.pc .. Length(sd, f) :
       Steps(sd, f.method)[j][1] \notin {"ask", "call", "bare"}

(* What has changed something goes on without being refused. *)
QuietOK(sd, s, r) ==
    /\ \A i \in 1 .. Len(s) :
          s[i].changed /\ (i < Len(s) \/ r = None) =>
             AsksAgain(sd, s[i].method) \/ Quiet(sd, s[i])
    /\ s # <<>> /\ r = "denied" /\ s[Len(s)].changed =>
          AsksAgain(sd, s[Len(s)].method)

BatchOK(s, r) ==
    s # <<>> /\ r \in {"error", "denied"} =>
       s[Len(s)].method \notin Batches \/ s[Len(s)].token = Unset

Exceptions == {"denied", "error", "cancelled"}

(* A task with the frames s, the exception r, the variable v, called with g. *)
TaskOK(sd, s, r, v, g) ==
    /\ s \in Seq(Frames)
    /\ r \in Exceptions \cup {None}
    /\ g \in Contexts \cup {None}
    /\ \A i \in 1 .. Len(s) : FrameOK(sd, s[i])
    /\ Chained(sd, s)
    /\ TokensOK(s, v, g)
    /\ ContextsOK(s, g)
    /\ QuietOK(sd, s, r)
    /\ BatchOK(s, r)

TaskInv(t) == TaskOK(side, stack[t], raised[t], var[t], given[t])

Places == {"idle", "starting", "queued", "locked", "called", "draining"}

(* Where the host of a task is, and what it may find there. *)
HostInv(t) ==
    /\ host[t] \in {"starting", "queued", "locked"} =>
          stack[t] = <<>> /\ want[t] \in AllMethods
    /\ stack[t] = <<>> => raised[t] = None
    /\ stack[t] # <<>> => ready
    /\ host[t] = "draining" => hits[t] > 0
    /\ host[t] = "idle" /\ stack[t] # <<>> => hits[t] > 1

LockInv ==
    /\ side \in {"sync", "compat", "native"}
    /\ ready \in BOOLEAN
    /\ side = "sync" => ready
    /\ inits = IF ready /\ side # "sync" THEN 1 ELSE 0

FacadeTypeOK ==
    /\ host \in [Tasks -> Places]
    /\ want \in [Tasks -> AllMethods \cup {None}]
    /\ given \in [Tasks -> Contexts \cup {None}]
    /\ hits \in [Tasks -> Nat]
    /\ stack \in [Tasks -> Seq(Frames)]
    /\ raised \in [Tasks -> Exceptions \cup {None}]
    /\ var \in [Tasks -> Contexts \cup {None}]

FacadeInv ==
    FacadeTypeOK /\ LockInv /\ \A t \in Tasks : TaskInv(t) /\ HostInv(t)

-----------------------------------------------------------------------------
(* Sequences of frames *)

LEMMA Fronted ==
    ASSUME NEW s \in Seq(Frames), s # <<>>
    PROVE  /\ Len(s) \in Nat \ {0}
           /\ s[Len(s)] \in Frames
           /\ Last(s) = s[Len(s)]
           /\ Front(s) \in Seq(Frames)
           /\ Len(Front(s)) = Len(s) - 1
           /\ \A i \in 1 .. Len(s) - 1 : Front(s)[i] = s[i]
<1>1. Len(s) \in Nat \ {0}
  BY EmptySeq
<1>2. s[Len(s)] \in Frames
  BY <1>1, ElementOfSeq
<1>3. /\ SubSeq(s, 1, Len(s) - 1) \in Seq(Frames)
      /\ Len(SubSeq(s, 1, Len(s) - 1)) = Len(s) - 1
      /\ \A i \in 1 .. Len(s) - 1 : SubSeq(s, 1, Len(s) - 1)[i] = s[i]
  <2>1. \A i \in 1 .. Len(s) - 1 : s[i] \in Frames
    BY <1>1, ElementOfSeq
  <2>. DEFINE n == Len(s) - 1
  <2>2. n \in Nat /\ \A i \in 1 .. n : s[i] \in Frames
    BY <1>1, <2>1
  <2>. HIDE DEF n
  <2>3. /\ SubSeq(s, 1, n) \in Seq(Frames)
        /\ Len(SubSeq(s, 1, n)) = IF 1 <= n THEN n - 1 + 1 ELSE 0
        /\ \A i \in 1 .. n - 1 + 1 : SubSeq(s, 1, n)[i] = s[1 + i - 1]
    BY <2>2, SubSeqProperties
  <2>4. \A i \in 1 .. n : i \in 1 .. n - 1 + 1 /\ 1 + i - 1 = i
    BY <2>2
  <2>5. \A i \in 1 .. n : SubSeq(s, 1, n)[i] = s[i]
    BY <2>3, <2>4
  <2>6. Len(SubSeq(s, 1, n)) = n
    BY <2>2, <2>3
  <2>. QED BY <2>3, <2>5, <2>6 DEF n
<1>. QED BY <1>1, <1>2, <1>3 DEF Front, Last

LEMMA Pushed ==
    ASSUME NEW s \in Seq(Frames), NEW f \in Frames
    PROVE  /\ Append(s, f) \in Seq(Frames)
           /\ Len(Append(s, f)) = Len(s) + 1
           /\ Append(s, f)[Len(s) + 1] = f
           /\ \A i \in 1 .. Len(s) : Append(s, f)[i] = s[i]
           /\ Append(s, f) # <<>>
  BY AppendProperties

LEMMA Replaced ==
    ASSUME NEW s \in Seq(Frames), s # <<>>, NEW f \in Frames
    PROVE  /\ Append(Front(s), f) \in Seq(Frames)
           /\ Len(Append(Front(s), f)) = Len(s)
           /\ Append(Front(s), f)[Len(s)] = f
           /\ \A i \in 1 .. Len(s) - 1 : Append(Front(s), f)[i] = s[i]
           /\ Append(Front(s), f) # <<>>
<1>. DEFINE b == Front(s)
<1>1. b \in Seq(Frames) /\ Len(b) = Len(s) - 1 /\ Len(s) \in Nat \ {0}
      /\ \A i \in 1 .. Len(s) - 1 : b[i] = s[i]
  BY Fronted
<1>. HIDE DEF b
<1>. QED BY <1>1, Pushed DEF b

(* The value of the variable depends on the tokens alone. *)
LEMMA SameValue ==
    ASSUME NEW s, NEW q, NEW n \in Int, NEW g,
           \A i \in 1 .. n : (q[i].token # Unset) <=> (s[i].token # Unset)
    PROVE  ValueAt(q, n, g) = ValueAt(s, n, g)
  BY DEF ValueAt

-----------------------------------------------------------------------------
(* The steps of one task *)

(* The top frame goes on, by an ordinary step or past an item's review. *)
LEMMA AdvanceKeeps ==
    ASSUME NEW sd, NEW s, NEW v, NEW g, TaskOK(sd, s, None, v, g), s # <<>>,
           NEW top, top = s[Len(s)],
           top.pc <= Length(sd, top),
           Kind(sd, top) \notin {"set", "reset"},
           NEW d \in {1, 2}, d = 2 => Kind(sd, top) = "item",
           NEW f \in Frames,
           f.method = top.method, f.context = top.context,
           f.token = top.token, f.pc = top.pc + d,
           top.changed => f.changed,
           Kind(sd, top) = "change" => f.changed,
           f.changed => top.changed \/
              Kind(sd, top) \in Entering \cup {"change"},
           f.audit = "applied" => f.changed
    PROVE  TaskOK(sd, Append(Front(s), f), None, v, g)
<1>. DEFINE q == Append(Front(s), f)
            n == Len(s)
            p == Steps(sd, top.method)
<1>1. /\ s \in Seq(Frames) /\ n \in Nat \ {0} /\ top \in Frames
      /\ q \in Seq(Frames) /\ Len(q) = n /\ q[n] = f /\ q # <<>>
      /\ \A i \in 1 .. n - 1 : q[i] = s[i]
  BY Fronted, Replaced DEF TaskOK
<1>. HIDE DEF q
<1>2. WellFormed(top.method, p) /\ (AsksAgain(sd, top.method) \/ Orderly(p))
  BY <1>1, Programs DEF Frames
<1>3. top.pc \in 1 .. Len(p) /\ Kind(sd, top) = p[top.pc][1]
      /\ Steps(sd, f.method) = p /\ Length(sd, f) = Len(p)
  <2>1. Len(p) \in Nat /\ top.pc \in Nat \ {0}
    BY <1>1, <1>2 DEF Frames, WellFormed
  <2>. QED BY <2>1 DEF Length, Kind
<1>4. FrameOK(sd, top)
  BY <1>1 DEF TaskOK
<1>5. d = 2 => /\ top.pc + 1 < Len(p)
               /\ p[top.pc + 1][1] = "review"
               /\ p[top.pc][1] = "item"
  BY <1>2, <1>3 DEF WellFormed
<1>6. f.pc <= Len(p) + 1
  BY <1>1, <1>3, <1>5 DEF Frames
<1>7. f.token # Unset <=> /\ f.method \in Recoveries
                          /\ SetPoint(f.method) < f.pc
                          /\ f.pc <= Length(sd, f)
  <2>1. top.method \in Recoveries =>
           /\ SetPoint(top.method) \in 1 .. Len(p) - 1
           /\ top.pc # SetPoint(top.method)
           /\ top.pc # Len(p)
    BY <1>2, <1>3 DEF WellFormed
  <2>2. d = 2 => top.method \in Recoveries /\ SetPoint(top.method) < top.pc
    <3>1. p[top.pc][1] = "item" =>
             top.method \in Recoveries /\ SetPoint(top.method) < top.pc
      BY <1>2, <1>3 DEF WellFormed
    <3>. QED BY <1>5, <3>1
  <2>3. /\ top.pc \in Int /\ Len(p) \in Int /\ f.pc = top.pc + d
        /\ Length(sd, f) = Len(p) /\ Length(sd, top) = Len(p)
        /\ top.pc <= Len(p) /\ d \in {1, 2}
        /\ d = 2 => top.pc + 1 < Len(p)
    BY <1>1, <1>3, <1>5 DEF Frames, Length
  <2>4. top.token # Unset <=> /\ top.method \in Recoveries
                              /\ SetPoint(top.method) < top.pc
    BY <1>4, <2>3 DEF FrameOK
  <2>5. CASE top.method \in Recoveries
    <3>1. SetPoint(top.method) \in Int
      BY <2>1, <2>5
    <3>2. SetPoint(top.method) < top.pc <=> SetPoint(top.method) < f.pc
      BY <2>1, <2>2, <2>3, <2>5, <3>1
    <3>3. f.pc <= Len(p)
      BY <2>1, <2>3, <2>5
    <3>. QED BY <2>3, <2>4, <2>5, <3>2, <3>3
  <2>6. CASE top.method \notin Recoveries
    BY <2>4, <2>6
  <2>. QED BY <2>5, <2>6
<1>8. ASSUME NEW j \in 1 .. f.pc - 1, p[j][1] = "change"
      PROVE  f.changed
  <2>1. j < top.pc \/ j = top.pc \/ (d = 2 /\ j = top.pc + 1)
    BY <1>3
  <2>2. CASE j < top.pc
    BY <1>3, <1>4, <1>8, <2>2 DEF FrameOK
  <2>. QED BY <1>3, <1>5, <1>8, <2>1, <2>2
<1>9. FrameOK(sd, f)
  BY <1>3, <1>6, <1>7, <1>8 DEF FrameOK
<1>10. Chained(sd, q)
  <2>. SUFFICES ASSUME NEW i \in 1 .. n - 1
                PROVE  /\ q[i].pc <= Length(sd, q[i])
                       /\ Kind(sd, q[i]) \in Entering
                       /\ q[i + 1].method = Callee(sd, q[i])
    BY <1>1 DEF Chained
  <2>1. q[i] = s[i] /\ q[i + 1].method = s[i + 1].method
    BY <1>1
  <2>2. /\ s[i].pc <= Length(sd, s[i]) /\ Kind(sd, s[i]) \in Entering
        /\ s[i + 1].method = Callee(sd, s[i])
    BY <1>1 DEF TaskOK, Chained
  <2>. QED BY <2>1, <2>2
<1>11. TokensOK(q, v, g)
  <2>1. \A i \in 1 .. n : (q[i].token # Unset) <=> (s[i].token # Unset)
    BY <1>1
  <2>2. \A i \in 0 .. n : ValueAt(q, i, g) = ValueAt(s, i, g)
    BY <1>1, <2>1, SameValue
  <2>. QED BY <1>1, <2>2 DEF TaskOK, TokensOK
<1>12. ContextsOK(q, g)
  BY <1>1 DEF TaskOK, ContextsOK
<1>13. f.changed => AsksAgain(sd, f.method) \/ Quiet(sd, f)
  <2>1. CASE top.changed
    <3>1. AsksAgain(sd, top.method) \/ Quiet(sd, top)
      BY <1>1, <2>1 DEF TaskOK, QuietOK
    <3>2. /\ top.pc \in Nat /\ f.pc \in Nat /\ top.pc <= f.pc
          /\ Length(sd, f) = Length(sd, top) /\ Len(p) \in Nat
          /\ Length(sd, top) = Len(p) /\ f.method = top.method
      <4>1. /\ top.pc \in Nat /\ f.pc \in Nat /\ top.pc <= f.pc
            /\ f.method = top.method
        BY <1>1, <1>3 DEF Frames
      <4>2. Len(p) \in Nat /\ Length(sd, top) = Len(p)
        BY <1>2 DEF Length, WellFormed
      <4>3. Length(sd, f) = Length(sd, top)
        BY <4>1 DEF Length
      <4>. QED BY <4>1, <4>2, <4>3
    <3>3. \A j \in f.pc .. Length(sd, f) : j \in top.pc .. Length(sd, top)
      BY <3>2
    <3>. QED BY <3>1, <3>2, <3>3 DEF Quiet
  <2>2. CASE ~top.changed
    <3>. SUFFICES ASSUME f.changed, ~AsksAgain(sd, f.method),
                         NEW j \in f.pc .. Len(p)
                  PROVE  p[j][1] \notin {"ask", "call", "bare"}
      BY <1>3 DEF Quiet
    <3>1. j \in 1 .. Len(p) /\ top.pc < j
      BY <1>3
    <3>. QED BY <1>2, <1>3, <2>2, <3>1 DEF Orderly
  <2>. QED BY <2>1, <2>2
<1>14. QuietOK(sd, q, None)
  BY <1>1, <1>13, FacadeAssumption DEF TaskOK, QuietOK
<1>15. BatchOK(q, None)
  BY FacadeAssumption DEF BatchOK
<1>16. \A i \in 1 .. Len(q) : FrameOK(sd, q[i])
  BY <1>1, <1>9 DEF TaskOK
<1>. QED BY <1>1, <1>10, <1>11, <1>12, <1>14, <1>15, <1>16 DEF TaskOK, q

(* The top frame is left with an exception, its work done or not. *)
LEMMA FailKeeps ==
    ASSUME NEW sd, NEW s, NEW v, NEW g, TaskOK(sd, s, None, v, g), s # <<>>,
           NEW top, top = s[Len(s)],
           NEW r \in Exceptions,
           NEW f \in Frames,
           f.method = top.method, f.context = top.context,
           f.token = top.token, f.pc = top.pc, f.audit = top.audit,
           top.changed => f.changed,
           f.changed /\ r = "denied" => AsksAgain(sd, f.method),
           r \in {"error", "denied"} =>
              f.method \notin Batches \/ f.token = Unset
    PROVE  TaskOK(sd, Append(Front(s), f), r, v, g)
<1>. DEFINE q == Append(Front(s), f)
            n == Len(s)
<1>1. /\ s \in Seq(Frames) /\ n \in Nat \ {0} /\ top \in Frames
      /\ q \in Seq(Frames) /\ Len(q) = n /\ q[n] = f /\ q # <<>>
      /\ \A i \in 1 .. n - 1 : q[i] = s[i]
  BY Fronted, Replaced DEF TaskOK
<1>. HIDE DEF q
<1>2. FrameOK(sd, f)
  BY <1>1 DEF TaskOK, FrameOK, Length
<1>3. Chained(sd, q)
  <2>. SUFFICES ASSUME NEW i \in 1 .. n - 1
                PROVE  /\ q[i].pc <= Length(sd, q[i])
                       /\ Kind(sd, q[i]) \in Entering
                       /\ q[i + 1].method = Callee(sd, q[i])
    BY <1>1 DEF Chained
  <2>1. q[i] = s[i] /\ q[i + 1].method = s[i + 1].method
    BY <1>1
  <2>. QED BY <1>1, <2>1 DEF TaskOK, Chained
<1>4. TokensOK(q, v, g)
  <2>1. \A i \in 1 .. n : (q[i].token # Unset) <=> (s[i].token # Unset)
    BY <1>1
  <2>2. \A i \in 0 .. n : ValueAt(q, i, g) = ValueAt(s, i, g)
    BY <1>1, <2>1, SameValue
  <2>. QED BY <1>1, <2>2 DEF TaskOK, TokensOK
<1>5. ContextsOK(q, g)
  BY <1>1 DEF TaskOK, ContextsOK
<1>6. QuietOK(sd, q, r)
  BY <1>1, FacadeAssumption DEF TaskOK, QuietOK, Exceptions
<1>7. BatchOK(q, r)
  BY <1>1 DEF BatchOK
<1>8. \A i \in 1 .. Len(q) : FrameOK(sd, q[i])
  BY <1>1, <1>2 DEF TaskOK
<1>. QED BY <1>1, <1>3, <1>4, <1>5, <1>6, <1>7, <1>8 DEF TaskOK, q

(* _recovery_access_context.set(effective context) *)
LEMMA SetKeeps ==
    ASSUME NEW sd, NEW s, NEW v, NEW g, TaskOK(sd, s, None, v, g), s # <<>>,
           NEW top, top = s[Len(s)],
           top.pc <= Length(sd, top), Kind(sd, top) = "set"
    PROVE  /\ [top EXCEPT !.pc = @ + 1, !.token = v] \in Frames
           /\ TaskOK(sd,
                     Append(Front(s), [top EXCEPT !.pc = @ + 1, !.token = v]),
                     None, IF top.context # None THEN top.context ELSE v, g)
<1>. DEFINE f == [top EXCEPT !.pc = @ + 1, !.token = v]
            q == Append(Front(s), f)
            n == Len(s)
            p == Steps(sd, top.method)
            w == IF top.context # None THEN top.context ELSE v
<1>1. s \in Seq(Frames) /\ n \in Nat \ {0} /\ top \in Frames
  BY Fronted DEF TaskOK
<1>2. WellFormed(top.method, p) /\ (AsksAgain(sd, top.method) \/ Orderly(p))
  BY <1>1, Programs DEF Frames
<1>3. /\ top.pc \in 1 .. Len(p) /\ p[top.pc][1] = "set"
      /\ top.method \in Recoveries /\ top.pc = SetPoint(top.method)
      /\ top.pc < Len(p)
  <2>1. Len(p) \in Nat /\ top.pc \in Nat \ {0}
    BY <1>1, <1>2 DEF Frames, WellFormed
  <2>2. top.pc \in 1 .. Len(p) /\ Kind(sd, top) = p[top.pc][1]
    BY <2>1 DEF Length, Kind
  <2>. QED BY <1>2, <2>1, <2>2 DEF WellFormed
<1>4. FrameOK(sd, top)
  BY <1>1 DEF TaskOK
<1>5. top.token = Unset
  BY <1>3, <1>4 DEF FrameOK
<1>6. v \in {g, None} /\ g \in Contexts \cup {None} /\ v # Unset
  BY FacadeAssumption DEF TaskOK, TokensOK, ValueAt
<1>7. w = g
  <2>1. top.method # "get_internal_document_metadata"
    BY <1>3 DEF Recoveries, Repairs, Batches
  <2>2. top.context = g
    BY <1>1, <2>1 DEF TaskOK, ContextsOK
  <2>. QED BY <1>6, <2>2
<1>8. f \in Frames
  <2>1. v \in Contexts \cup {None, Unset} /\ top.pc + 1 \in Nat \ {0}
    BY <1>1, <1>6 DEF Frames
  <2>. QED BY <1>1, <2>1 DEF Frames
<1>9. /\ q \in Seq(Frames) /\ Len(q) = n /\ q[n] = f /\ q # <<>>
      /\ \A i \in 1 .. n - 1 : q[i] = s[i]
  BY <1>1, <1>8, Replaced
<1>10. /\ f.method = top.method /\ f.context = top.context /\ f.token = v
       /\ f.pc = top.pc + 1 /\ f.audit = top.audit
       /\ f.changed = top.changed
  BY <1>1 DEF Frames
<1>. HIDE DEF q, f, w
<1>11. FrameOK(sd, f)
  BY <1>3, <1>4, <1>6, <1>10 DEF FrameOK, Length
<1>12. Chained(sd, q)
  <2>. SUFFICES ASSUME NEW i \in 1 .. n - 1
                PROVE  /\ q[i].pc <= Length(sd, q[i])
                       /\ Kind(sd, q[i]) \in Entering
                       /\ q[i + 1].method = Callee(sd, q[i])
    BY <1>9 DEF Chained
  <2>1. q[i] = s[i] /\ q[i + 1].method = s[i + 1].method
    BY <1>1, <1>9, <1>10
  <2>. QED BY <1>1, <2>1 DEF TaskOK, Chained
<1>13. TokensOK(q, w, g)
  <2>1. \A i \in 0 .. n - 1 : ValueAt(q, i, g) = ValueAt(s, i, g)
    BY <1>1, <1>9, SameValue
  <2>2. ValueAt(q, n, g) = g
    BY <1>1, <1>6, <1>9, <1>10 DEF ValueAt
  <2>3. v = ValueAt(s, n - 1, g)
    BY <1>1, <1>5 DEF TaskOK, TokensOK, ValueAt
  <2>. QED BY <1>1, <1>7, <1>9, <1>10, <2>1, <2>2, <2>3 DEF TaskOK, TokensOK
<1>14. ContextsOK(q, g)
  BY <1>1, <1>9, <1>10 DEF TaskOK, ContextsOK
<1>15. QuietOK(sd, q, None)
  <2>1. f.changed => AsksAgain(sd, f.method) \/ Quiet(sd, f)
    <3>1. top.changed => AsksAgain(sd, top.method) \/ Quiet(sd, top)
      BY <1>1 DEF TaskOK, QuietOK
    <3>. QED BY <1>3, <1>10, <3>1 DEF Quiet, Length
  <2>. QED BY <1>1, <1>9, <2>1, FacadeAssumption DEF TaskOK, QuietOK
<1>16. BatchOK(q, None)
  BY FacadeAssumption DEF BatchOK
<1>17. \A i \in 1 .. Len(q) : FrameOK(sd, q[i])
  BY <1>1, <1>9, <1>11 DEF TaskOK
<1>18. TaskOK(sd, q, None, w, g)
  BY <1>6, <1>9, <1>12, <1>13, <1>14, <1>15, <1>16, <1>17 DEF TaskOK
<1>. QED BY <1>8, <1>18 DEF q, f, w

(* _recovery_access_context.reset(token), as the method goes on *)
LEMMA ResetKeeps ==
    ASSUME NEW sd, NEW s, NEW v, NEW g, TaskOK(sd, s, None, v, g), s # <<>>,
           NEW top, top = s[Len(s)],
           top.pc <= Length(sd, top), Kind(sd, top) = "reset"
    PROVE  /\ [top EXCEPT !.pc = @ + 1, !.token = Unset] \in Frames
           /\ TaskOK(sd,
                     Append(Front(s),
                            [top EXCEPT !.pc = @ + 1, !.token = Unset]),
                     None, top.token, g)
<1>. DEFINE f == [top EXCEPT !.pc = @ + 1, !.token = Unset]
            q == Append(Front(s), f)
            n == Len(s)
            p == Steps(sd, top.method)
<1>1. s \in Seq(Frames) /\ n \in Nat \ {0} /\ top \in Frames
  BY Fronted DEF TaskOK
<1>2. WellFormed(top.method, p) /\ (AsksAgain(sd, top.method) \/ Orderly(p))
  BY <1>1, Programs DEF Frames
<1>3. /\ top.pc \in 1 .. Len(p) /\ p[top.pc][1] = "reset"
      /\ top.method \in Recoveries /\ top.pc = Len(p)
      /\ SetPoint(top.method) \in 1 .. Len(p) - 1
  <2>1. Len(p) \in Nat /\ top.pc \in Nat \ {0}
    BY <1>1, <1>2 DEF Frames, WellFormed
  <2>2. top.pc \in 1 .. Len(p) /\ Kind(sd, top) = p[top.pc][1]
    BY <2>1 DEF Length, Kind
  <2>. QED BY <1>2, <2>1, <2>2 DEF WellFormed
<1>4. FrameOK(sd, top)
  BY <1>1 DEF TaskOK
<1>5. top.token # Unset
  BY <1>3, <1>4 DEF FrameOK, Length
<1>6. f \in Frames
  <2>1. top.pc + 1 \in Nat \ {0}
    BY <1>1 DEF Frames
  <2>. QED BY <1>1, <2>1 DEF Frames
<1>7. /\ q \in Seq(Frames) /\ Len(q) = n /\ q[n] = f /\ q # <<>>
      /\ \A i \in 1 .. n - 1 : q[i] = s[i]
  BY <1>1, <1>6, Replaced
<1>8. /\ f.method = top.method /\ f.context = top.context /\ f.token = Unset
      /\ f.pc = top.pc + 1 /\ f.audit = top.audit
      /\ f.changed = top.changed
  BY <1>1 DEF Frames
<1>. HIDE DEF q, f
<1>9. FrameOK(sd, f)
  <2>1. \A j \in 1 .. f.pc - 1 : j \in 1 .. top.pc - 1 \/ j = Len(p)
    BY <1>3, <1>8
  <2>. QED BY <1>3, <1>4, <1>8, <2>1 DEF FrameOK, Length
<1>10. Chained(sd, q)
  <2>. SUFFICES ASSUME NEW i \in 1 .. n - 1
                PROVE  /\ q[i].pc <= Length(sd, q[i])
                       /\ Kind(sd, q[i]) \in Entering
                       /\ q[i + 1].method = Callee(sd, q[i])
    BY <1>7 DEF Chained
  <2>1. q[i] = s[i] /\ q[i + 1].method = s[i + 1].method
    BY <1>1, <1>7, <1>8
  <2>. QED BY <1>1, <2>1 DEF TaskOK, Chained
<1>11. TokensOK(q, top.token, g)
  <2>1. \A i \in 0 .. n - 1 : ValueAt(q, i, g) = ValueAt(s, i, g)
    BY <1>1, <1>7, SameValue
  <2>2. ValueAt(q, n, g) = ValueAt(q, n - 1, g)
    BY <1>1, <1>7, <1>8 DEF ValueAt
  <2>3. top.token = ValueAt(s, n - 1, g)
    BY <1>1, <1>5 DEF TaskOK, TokensOK
  <2>. QED BY <1>1, <1>7, <1>8, <2>1, <2>2, <2>3 DEF TaskOK, TokensOK
<1>12. ContextsOK(q, g)
  BY <1>1, <1>7, <1>8 DEF TaskOK, ContextsOK
<1>13. QuietOK(sd, q, None)
  <2>1. Quiet(sd, f)
    BY <1>3, <1>8 DEF Quiet, Length
  <2>. QED BY <1>1, <1>7, <2>1, FacadeAssumption DEF TaskOK, QuietOK
<1>14. BatchOK(q, None)
  BY FacadeAssumption DEF BatchOK
<1>15. \A i \in 1 .. Len(q) : FrameOK(sd, q[i])
  BY <1>1, <1>7, <1>9 DEF TaskOK
<1>16. TaskOK(sd, q, None, top.token, g)
  BY <1>7, <1>10, <1>11, <1>12, <1>13, <1>14, <1>15 DEF TaskOK
<1>. QED BY <1>6, <1>16 DEF q, f

(* A frame that has just been entered. *)
LEMMA NewFrame ==
    ASSUME NEW sd, NEW m \in AllMethods, NEW c \in Contexts \cup {None}
    PROVE  /\ Frame(m, c) \in Frames
           /\ Frame(m, c).method = m /\ Frame(m, c).context = c
           /\ Frame(m, c).token = Unset /\ Frame(m, c).changed = FALSE
           /\ FrameOK(sd, Frame(m, c))
<1>. DEFINE f == Frame(m, c)
<1>1. /\ f \in Frames
      /\ f.method = m /\ f.context = c /\ f.token = Unset /\ f.changed = FALSE
      /\ f.pc = 1 /\ f.audit = None
  BY DEF Frame, Frames
<1>. HIDE DEF f
<1>2. WellFormed(m, Steps(sd, m))
  BY Programs
<1>3. SetPoint(m) \in Nat \ {0}
  BY FacadeAssumption DEF SetPoint
<1>4. FrameOK(sd, f)
  BY <1>1, <1>2, <1>3, FacadeAssumption DEF FrameOK, Length, WellFormed
<1>. QED BY <1>1, <1>4 DEF f

(* The context of an entered method: its own, or the variable's. *)
ContextOf(m, c, v) == IF m \in Capturing /\ c = None THEN v ELSE c

(* The top frame enters another method. *)
LEMMA PushKeeps ==
    ASSUME NEW sd, NEW s, NEW v, NEW g, TaskOK(sd, s, None, v, g), s # <<>>,
           NEW top, top = s[Len(s)],
           top.pc <= Length(sd, top), Kind(sd, top) \in Entering,
           NEW m, m = Callee(sd, top),
           NEW c, c = IF Kind(sd, top) = "call" THEN top.context ELSE None
    PROVE  TaskOK(sd, Append(s, Frame(m, ContextOf(m, c, v))), None, v, g)
<1>. DEFINE w == ContextOf(m, c, v)
            f == Frame(m, w)
            q == Append(s, f)
            n == Len(s)
            p == Steps(sd, top.method)
<1>1. s \in Seq(Frames) /\ n \in Nat \ {0} /\ top \in Frames
  BY Fronted DEF TaskOK
<1>2. WellFormed(top.method, p) /\ (AsksAgain(sd, top.method) \/ Orderly(p))
  BY <1>1, Programs DEF Frames
<1>3. top.pc \in 1 .. Len(p) /\ Kind(sd, top) = p[top.pc][1]
  BY <1>1 DEF Frames, Length, Kind
<1>4. FrameOK(sd, top)
  BY <1>1 DEF TaskOK
<1>5. LET k == p[top.pc][1]
          e == p[top.pc][2]
      IN  /\ k = "item" => e = "mark_failed"
          /\ k = "bare" => e \in {"inspect_document",
                                 "get_internal_document_metadata"}
          /\ k = "call" => /\ top.method \in {"upload_file", "copy_document_to",
                                               "reconcile_documents"}
                          /\ e \in {"upload_document_stream",
                                    "get_document_content_stream",
                                    "list_recovery_candidates"}
          /\ k \in {"bare", "item", "review"} =>
                /\ top.method \in Recoveries
                /\ SetPoint(top.method) < top.pc /\ top.pc < Len(p)
  BY <1>2, <1>3 DEF WellFormed
<1>. HIDE DEF p
<1>6. /\ Kind(sd, top) = p[top.pc][1]
      /\ m = IF Kind(sd, top) = "review" THEN "inspect_document"
                                         ELSE p[top.pc][2]
  BY <1>3 DEF Callee, p
<1>7. ASSUME Kind(sd, top) = "call"
      PROVE  m \in AllMethods /\ w = g
  <2>1. m \in {"upload_document_stream", "get_document_content_stream",
               "list_recovery_candidates"}
    BY <1>5, <1>6, <1>7
  <2>2. top.method # "get_internal_document_metadata"
    BY <1>5, <1>6, <1>7
  <2>3. top.context = g
    BY <1>1, <2>2 DEF TaskOK, ContextsOK
  <2>4. w = g
    BY <1>7, <2>1, <2>3 DEF ContextOf, Capturing, Repairs
  <2>5. m \in AllMethods
    BY <2>1 DEF AllMethods, DelegatedDocuments, DelegatedRecovery,
                DelegatedContent, SyncUploads
  <2>. QED BY <2>4, <2>5
<1>8. ASSUME Kind(sd, top) # "call"
      PROVE  /\ m \in AllMethods /\ top.token # Unset
             /\ w = g \/ (w = None /\ m = "get_internal_document_metadata")
  <2>1. m \in {"mark_failed", "inspect_document",
               "get_internal_document_metadata"}
    BY <1>5, <1>6, <1>8 DEF Entering
  <2>2. top.token # Unset
    BY <1>4, <1>5, <1>6, <1>8 DEF FrameOK, Length, Entering, p
  <2>3. v = g
    BY <1>1, <2>2 DEF TaskOK, TokensOK, ValueAt
  <2>4. w = g \/ (w = None /\ m = "get_internal_document_metadata")
    BY <1>8, <2>1, <2>3 DEF ContextOf, Capturing, Repairs
  <2>5. m \in AllMethods
    BY <2>1 DEF AllMethods, DelegatedDocuments, DelegatedRecovery, SyncReads,
                Repairs
  <2>. QED BY <2>2, <2>4, <2>5
<1>9. /\ m \in AllMethods
      /\ \/ w = g
         \/ /\ w = None /\ m = "get_internal_document_metadata"
            /\ top.token # Unset
  BY <1>7, <1>8
<1>. HIDE DEF w
<1>10. g \in Contexts \cup {None} /\ w \in Contexts \cup {None}
  BY <1>9 DEF TaskOK
<1>11. /\ f \in Frames /\ f.method = m /\ f.context = w /\ f.token = Unset
       /\ f.changed = FALSE /\ FrameOK(sd, f)
  <2>1. m \in AllMethods
    BY <1>9
  <2>2. /\ Frame(m, w) \in Frames /\ Frame(m, w).method = m
        /\ Frame(m, w).context = w /\ Frame(m, w).token = Unset
        /\ Frame(m, w).changed = FALSE /\ FrameOK(sd, Frame(m, w))
    <3>. HIDE DEF f, q, n
    <3>. QED BY <1>10, <2>1, NewFrame, ZenonT(30)
  <2>. QED BY <2>2
<1>. HIDE DEF f
<1>12. /\ q \in Seq(Frames) /\ Len(q) = n + 1 /\ q[n + 1] = f /\ q # <<>>
       /\ \A i \in 1 .. n : q[i] = s[i]
  BY <1>1, <1>11, Pushed
<1>. HIDE DEF q
<1>13. Chained(sd, q)
  <2>. SUFFICES ASSUME NEW i \in 1 .. n
                PROVE  /\ q[i].pc <= Length(sd, q[i])
                       /\ Kind(sd, q[i]) \in Entering
                       /\ q[i + 1].method = Callee(sd, q[i])
    BY <1>12 DEF Chained
  <2>1. CASE i = n
    BY <1>1, <1>11, <1>12, <2>1
  <2>2. CASE i # n
    <3>1. i \in 1 .. n - 1 /\ q[i] = s[i] /\ q[i + 1] = s[i + 1]
      BY <1>1, <1>12, <2>2
    <3>. QED BY <1>1, <3>1 DEF TaskOK, Chained
  <2>. QED BY <2>1, <2>2
<1>14. TokensOK(q, v, g)
  <2>1. \A i \in 0 .. n : ValueAt(q, i, g) = ValueAt(s, i, g)
    BY <1>1, <1>12, SameValue
  <2>2. ValueAt(q, n + 1, g) = ValueAt(q, n, g)
    BY <1>1, <1>11, <1>12 DEF ValueAt
  <2>. QED BY <1>1, <1>11, <1>12, <2>1, <2>2 DEF TaskOK, TokensOK
<1>15. ContextsOK(q, g)
  BY <1>1, <1>9, <1>11, <1>12 DEF TaskOK, ContextsOK
<1>16. QuietOK(sd, q, None)
  BY <1>1, <1>11, <1>12, FacadeAssumption DEF TaskOK, QuietOK
<1>17. BatchOK(q, None)
  BY FacadeAssumption DEF BatchOK
<1>18. \A i \in 1 .. Len(q) : FrameOK(sd, q[i])
  BY <1>1, <1>11, <1>12 DEF TaskOK
<1>19. TaskOK(sd, q, None, v, g)
  BY <1>10, <1>12, <1>13, <1>14, <1>15, <1>16, <1>17, <1>18 DEF TaskOK
<1>. QED BY <1>19 DEF q, f, w

(* The top frame has gone, its token has been given back, and the frame    *)
(* below is in control.                                                    *)
LEMMA PopKeeps ==
    ASSUME NEW sd, NEW s, NEW r, NEW v, NEW g, TaskOK(sd, s, r, v, g),
           s # <<>>, Len(s) # 1,
           NEW top, top = s[Len(s)]
    PROVE  TaskOK(sd, Front(s), None,
                  IF top.token # Unset THEN top.token ELSE v, g)
<1>. DEFINE q == Front(s)
            n == Len(s)
            w == IF top.token # Unset THEN top.token ELSE v
<1>1. /\ s \in Seq(Frames) /\ n \in Nat \ {0, 1} /\ top \in Frames
      /\ q \in Seq(Frames) /\ Len(q) = n - 1
      /\ \A i \in 1 .. n - 1 : q[i] = s[i]
  BY Fronted DEF TaskOK
<1>. HIDE DEF q
<1>2. Chained(sd, q)
  <2>. SUFFICES ASSUME NEW i \in 1 .. n - 2
                PROVE  /\ q[i].pc <= Length(sd, q[i])
                       /\ Kind(sd, q[i]) \in Entering
                       /\ q[i + 1].method = Callee(sd, q[i])
    <3>1. Len(q) - 1 = n - 2
      BY <1>1
    <3>. HIDE DEF n
    <3>. QED BY <3>1 DEF Chained
  <2>0. i \in 1 .. n - 1 /\ i + 1 \in 1 .. n - 1
    <3>1. n \in Nat
      BY <1>1
    <3>. HIDE DEF n
    <3>. QED BY <3>1
  <2>1. i \in 1 .. n - 1 /\ q[i] = s[i] /\ q[i + 1] = s[i + 1]
    <3>1. \A j \in 1 .. n - 1 : q[j] = s[j]
      BY <1>1
    <3>. QED BY <2>0, <3>1, Zenon
  <2>. QED BY <1>1, <2>1 DEF TaskOK, Chained
<1>3. TokensOK(q, w, g)
  <2>1. \A i \in 0 .. n - 1 : ValueAt(q, i, g) = ValueAt(s, i, g)
    BY <1>1, SameValue
  <2>2. w = ValueAt(s, n - 1, g)
    <3>1. CASE top.token # Unset
      BY <1>1, <3>1 DEF TaskOK, TokensOK
    <3>2. CASE top.token = Unset
      BY <1>1, <3>2 DEF TaskOK, TokensOK, ValueAt
    <3>. QED BY <3>1, <3>2
  <2>. QED BY <1>1, <2>1, <2>2 DEF TaskOK, TokensOK
<1>4. ContextsOK(q, g)
  <2>. SUFFICES ASSUME NEW i \in 1 .. n - 1
                PROVE  \/ q[i].context = g
                       \/ /\ q[i].context = None
                          /\ q[i].method = "get_internal_document_metadata"
                          /\ i > 1 /\ q[i - 1].token # Unset
    BY <1>1 DEF ContextsOK
  <2>1. i \in 1 .. n /\ q[i] = s[i]
    BY <1>1
  <2>2. i > 1 => q[i - 1] = s[i - 1]
    BY <1>1
  <2>3. \/ s[i].context = g
        \/ /\ s[i].context = None
           /\ s[i].method = "get_internal_document_metadata"
           /\ i > 1 /\ s[i - 1].token # Unset
    BY <2>1 DEF TaskOK, ContextsOK
  <2>. QED BY <2>1, <2>2, <2>3
<1>5. QuietOK(sd, q, None)
  <2>1. \A i \in 1 .. n - 1 : i \in 1 .. n /\ i < n
    BY <1>1
  <2>2. \A i \in 1 .. n - 1 : s[i].changed =>
           AsksAgain(sd, s[i].method) \/ Quiet(sd, s[i])
    BY <2>1 DEF TaskOK, QuietOK
  <2>. QED BY <1>1, <2>2, FacadeAssumption DEF QuietOK
<1>6. BatchOK(q, None)
  BY FacadeAssumption DEF BatchOK
<1>7. \A i \in 1 .. Len(q) : FrameOK(sd, q[i])
  BY <1>1 DEF TaskOK
<1>. QED BY <1>1, <1>2, <1>3, <1>4, <1>5, <1>6, <1>7 DEF TaskOK, q

(* A call has not begun, or has ended. *)
LEMMA EmptyKeeps ==
    ASSUME NEW sd, NEW g \in Contexts \cup {None}
    PROVE  TaskOK(sd, <<>>, None, None, g)
  BY EmptySeq DEF TaskOK, Chained, TokensOK, ValueAt, ContextsOK, QuietOK,
                  BatchOK

LEMMA EmptyVariable ==
    ASSUME NEW sd, NEW r, NEW v, NEW g, TaskOK(sd, <<>>, r, v, g)
    PROVE  v = None
  BY DEF TaskOK, TokensOK, ValueAt

(* The first frame of a call. *)
LEMMA StartKeeps ==
    ASSUME NEW sd, NEW g \in Contexts \cup {None}, NEW m \in AllMethods
    PROVE  TaskOK(sd, <<Frame(m, ContextOf(m, g, None))>>, None, None, g)
<1>. DEFINE f == Frame(m, g)
            q == <<f>>
<1>1. ContextOf(m, g, None) = g
  BY DEF ContextOf
<1>2. /\ f \in Frames /\ f.method = m /\ f.context = g /\ f.token = Unset
      /\ f.changed = FALSE /\ FrameOK(sd, f)
  BY NewFrame
<1>. HIDE DEF f
<1>3. q \in Seq(Frames) /\ Len(q) = 1 /\ q[1] = f
  BY <1>2
<1>. HIDE DEF q
<1>4. TaskOK(sd, q, None, None, g)
  BY <1>2, <1>3, FacadeAssumption
  DEF TaskOK, Chained, TokensOK, ValueAt, ContextsOK, QuietOK, BatchOK
<1>. QED BY <1>1, <1>4 DEF q, f

-----------------------------------------------------------------------------
(* The steps of the system *)

(* Where a frame stands in its program. *)
LEMMA AtTop ==
    ASSUME FacadeInv, NEW t \in Tasks, NEW kinds, At(t, kinds)
    PROVE  /\ stack[t] # <<>> /\ raised[t] = None
           /\ TaskOK(side, stack[t], None, var[t], given[t])
           /\ Top(t) = stack[t][Len(stack[t])] /\ Top(t) \in Frames
           /\ Top(t).pc <= Length(side, Top(t))
           /\ Kind(side, Top(t)) \in kinds
           /\ StepOf(Top(t)) = Steps(side, Top(t).method)[Top(t).pc]
<1>1. stack[t] # <<>> /\ raised[t] = None
  BY DEF At, Running
<1>2. TaskOK(side, stack[t], None, var[t], given[t]) /\ stack[t] \in Seq(Frames)
  BY <1>1 DEF FacadeInv, TaskInv, TaskOK
<1>3. Top(t) = stack[t][Len(stack[t])] /\ Top(t) \in Frames
  BY <1>1, <1>2, Fronted DEF Top
<1>4. Program(Top(t).method) = Steps(side, Top(t).method)
  BY DEF Program, Steps
<1>5. Top(t).pc <= Length(side, Top(t)) /\ Kind(side, Top(t)) \in kinds
      /\ StepOf(Top(t)) = Steps(side, Top(t).method)[Top(t).pc]
  <2>1. Top(t).pc \in Nat /\ Len(Program(Top(t).method)) \in Nat
    BY <1>3, <1>4, Programs DEF Frames, WellFormed
  <2>. QED BY <1>4, <2>1 DEF At, AtEnd, StepOf, Length, Kind
<1>. QED BY <1>1, <1>2, <1>3, <1>5

(* A batch that is under way does nothing that may be refused or fail. *)
LEMMA BatchKinds ==
    ASSUME NEW sd, NEW f \in Frames, FrameOK(sd, f), f.pc <= Length(sd, f),
           Kind(sd, f) \notin {"item", "review", "reset"}
    PROVE  f.method \notin Batches \/ f.token = Unset
<1>1. WellFormed(f.method, Steps(sd, f.method)) /\ f.pc \in Nat \ {0}
      /\ f.method \in AllMethods
  BY Programs DEF Frames
<1>. QED BY <1>1 DEF WellFormed, FrameOK, Kind, Length, Recoveries

(* A step of one task that is at work. *)
LEMMA WorkKeeps ==
    ASSUME FacadeInv, NEW t \in Tasks, stack[t] # <<>>,
           UNCHANGED <<side, lockVars, host, want, given>>,
           hits' = hits \/ hits' = [hits EXCEPT ![t] = @ + 1],
           NEW s, s # <<>>, stack' = [stack EXCEPT ![t] = s],
           NEW r, raised' = [raised EXCEPT ![t] = r],
           NEW v, var' = [var EXCEPT ![t] = v],
           TaskOK(side, s, r, v, given[t])
    PROVE  FacadeInv'
<1>1. /\ s \in Seq(Frames) /\ r \in Exceptions \cup {None}
      /\ v \in Contexts \cup {None}
  BY DEF TaskOK, TokensOK, ValueAt
<1>2. FacadeTypeOK'
  <2>1. FacadeTypeOK
    BY DEF FacadeInv
  <2>2. hits' \in [Tasks -> Nat]
    <3>1. hits \in [Tasks -> Nat]
      BY <2>1 DEF FacadeTypeOK
    <3>. QED BY <3>1
  <2>3. stack' \in [Tasks -> Seq(Frames)]
    BY <1>1, <2>1 DEF FacadeTypeOK
  <2>4. /\ raised' \in [Tasks -> Exceptions \cup {None}]
        /\ var' \in [Tasks -> Contexts \cup {None}]
    BY <1>1, <2>1 DEF FacadeTypeOK
  <2>. QED BY <2>1, <2>2, <2>3, <2>4 DEF FacadeTypeOK
<1>3. LockInv'
  BY DEF FacadeInv, LockInv, lockVars
<1>4. ASSUME NEW u \in Tasks \ {t}
      PROVE  TaskInv(u)' /\ HostInv(u)'
  <2>1. /\ stack'[u] = stack[u] /\ raised'[u] = raised[u] /\ var'[u] = var[u]
        /\ given'[u] = given[u] /\ host'[u] = host[u] /\ want'[u] = want[u]
        /\ hits'[u] = hits[u] /\ ready' = ready /\ side' = side
    BY DEF FacadeInv, FacadeTypeOK, lockVars
  <2>2. TaskInv(u) /\ HostInv(u)
    BY DEF FacadeInv
  <2>. QED BY <2>1, <2>2 DEF TaskInv, HostInv
<1>5. /\ stack'[t] = s /\ raised'[t] = r /\ var'[t] = v
      /\ given'[t] = given[t] /\ host'[t] = host[t] /\ want'[t] = want[t]
      /\ hits'[t] \in {hits[t], hits[t] + 1} /\ hits[t] \in Nat
      /\ ready' = ready /\ side' = side
  BY DEF FacadeInv, FacadeTypeOK, lockVars
<1>6. TaskInv(t)'
  BY <1>5 DEF TaskInv
<1>7. HostInv(t)'
  BY <1>5 DEF FacadeInv, HostInv
<1>. QED BY <1>2, <1>3, <1>4, <1>6, <1>7 DEF FacadeInv

(* An unchanged function is one whose entry is overwritten with itself. *)
LEMMA SameEntry ==
    ASSUME FacadeInv, NEW t \in Tasks
    PROVE  /\ raised = [raised EXCEPT ![t] = raised[t]]
           /\ var = [var EXCEPT ![t] = var[t]]
           /\ stack = [stack EXCEPT ![t] = stack[t]]
           /\ host = [host EXCEPT ![t] = host[t]]
           /\ want = [want EXCEPT ![t] = want[t]]
           /\ given = [given EXCEPT ![t] = given[t]]
           /\ hits = [hits EXCEPT ![t] = hits[t]]
  BY DEF FacadeInv, FacadeTypeOK

(* The stack after the top frame is replaced. *)
LEMMA NewTop ==
    ASSUME FacadeInv, NEW t \in Tasks, stack[t] # <<>>,
           NEW f \in Frames, Replace(t, f)
    PROVE  /\ stack' = [stack EXCEPT ![t] = Append(Front(stack[t]), f)]
           /\ Append(Front(stack[t]), f) # <<>>
<1>1. stack \in [Tasks -> Seq(Frames)]
  BY DEF FacadeInv, FacadeTypeOK
<1>2. stack[t] \in Seq(Frames)
  BY <1>1
<1>3. Append(Front(stack[t]), f) # <<>>
  BY <1>2, Replaced
<1>4. stack' = [stack EXCEPT ![t] = Append(Front(stack[t]), f)]
  BY <1>1 DEF Replace
<1>. QED BY <1>3, <1>4

(* An ordinary step that succeeds. *)
LEMMA WorkAdvances ==
    ASSUME FacadeInv, NEW t \in Tasks,
           NEW kinds, At(t, kinds), {"set", "reset"} \cap kinds = {},
           UNCHANGED <<side, lockVars, hostVars, raised, var>>,
           NEW f, Replace(t, f),
           \/ f = Advance(Top(t)) /\ Kind(side, Top(t)) # "change"
           \/ f = [Advance(Top(t)) EXCEPT !.changed = TRUE]
                 /\ Kind(side, Top(t)) = "change"
           \/ \E e \in {"applied", "previewed"} :
                 /\ f = [Advance(Top(t)) EXCEPT !.audit = e]
                 /\ Kind(side, Top(t)) # "change"
                 /\ e = "applied" => Top(t).changed
    PROVE  FacadeInv'
<1>. DEFINE top == Top(t)
            s == stack[t]
<1>1. /\ s # <<>> /\ raised[t] = None
      /\ TaskOK(side, s, None, var[t], given[t])
      /\ top = s[Len(s)] /\ top \in Frames
      /\ top.pc <= Length(side, top) /\ Kind(side, top) \notin {"set", "reset"}
  BY AtTop
<1>. HIDE DEF top
<1>2. FrameOK(side, top)
  <2>1. Len(s) \in 1 .. Len(s)
    BY <1>1, Fronted DEF TaskOK
  <2>. QED BY <1>1, <2>1 DEF TaskOK
<1>3. top.pc + 1 \in Nat \ {0}
  BY <1>1 DEF Frames
<1>4. /\ f \in Frames /\ f.method = top.method /\ f.context = top.context
      /\ f.token = top.token /\ f.pc = top.pc + 1
      /\ top.changed => f.changed
      /\ Kind(side, top) = "change" => f.changed
      /\ f.changed => top.changed \/ Kind(side, top) = "change"
      /\ f.audit = "applied" => f.changed
  <2>1. top.audit = "applied" => top.changed
    BY <1>2 DEF FrameOK
  <2>. HIDE DEF s
  <2>2. CASE f = [top EXCEPT !.pc = @ + 1] /\ Kind(side, top) # "change"
    BY <1>1, <1>3, <2>1, <2>2 DEF Frames
  <2>3. CASE /\ f = [top EXCEPT !.pc = @ + 1, !.changed = TRUE]
             /\ Kind(side, top) = "change"
    BY <1>1, <1>3, <2>3 DEF Frames
  <2>4. CASE \E e \in {"applied", "previewed"} :
                /\ f = [top EXCEPT !.pc = @ + 1, !.audit = e]
                /\ Kind(side, top) # "change"
                /\ e = "applied" => top.changed
    BY <1>1, <1>3, <2>4 DEF Frames
  <2>5. /\ Advance(top) = [top EXCEPT !.pc = @ + 1]
        /\ [Advance(top) EXCEPT !.changed = TRUE]
              = [top EXCEPT !.pc = @ + 1, !.changed = TRUE]
        /\ \A e : [Advance(top) EXCEPT !.audit = e]
                     = [top EXCEPT !.pc = @ + 1, !.audit = e]
    BY <1>1 DEF Advance, Frames
  <2>. QED BY <2>2, <2>3, <2>4, <2>5 DEF top
<1>5. TaskOK(side, Append(Front(s), f), None, var[t], given[t])
  <2>1. f.changed => top.changed \/ Kind(side, top) \in Entering \cup {"change"}
    BY <1>4
  <2>. QED BY <1>1, <1>4, <2>1, AdvanceKeeps
<1>6. /\ stack' = [stack EXCEPT ![t] = Append(Front(s), f)]
      /\ Append(Front(s), f) # <<>>
  BY <1>1, <1>4, NewTop
<1>7. UNCHANGED <<side, lockVars, host, want, given>> /\ hits' = hits
  BY DEF hostVars
<1>. DEFINE q == Append(Front(s), f)
<1>8. /\ q # <<>> /\ stack' = [stack EXCEPT ![t] = q]
      /\ TaskOK(side, q, None, var[t], given[t])
      /\ raised' = [raised EXCEPT ![t] = None]
      /\ var' = [var EXCEPT ![t] = var[t]]
  BY <1>1, <1>5, <1>6, SameEntry
<1>. HIDE DEF q, s
<1>. QED BY <1>1, <1>7, <1>8, WorkKeeps DEF s

(* A step that fails, is refused or is cancelled. *)
LEMMA WorkFails ==
    ASSUME FacadeInv, NEW t \in Tasks, NEW kinds, At(t, kinds),
           UNCHANGED <<side, lockVars, host, want, given, var>>,
           hits' = hits \/ hits' = [hits EXCEPT ![t] = @ + 1],
           NEW e \in Exceptions, Raise(t, e),
           e = "denied" => kinds = {"ask"},
           e # "cancelled" => {"item", "review", "reset"} \cap kinds = {},
           NEW f, Replace(t, f),
           \/ f = Top(t)
           \/ f = [Top(t) EXCEPT !.changed = TRUE] /\ e # "denied"
    PROVE  FacadeInv'
<1>. DEFINE top == Top(t)
            s == stack[t]
<1>1. /\ s # <<>> /\ raised[t] = None
      /\ TaskOK(side, s, None, var[t], given[t])
      /\ top = s[Len(s)] /\ top \in Frames
      /\ top.pc <= Length(side, top) /\ Kind(side, top) \in kinds
  BY AtTop
<1>. HIDE DEF top
<1>2. /\ FrameOK(side, top) /\ Len(s) \in 1 .. Len(s)
      /\ top.pc \in 1 .. Length(side, top)
  <2>1. Len(s) \in 1 .. Len(s)
    BY <1>1, Fronted DEF TaskOK
  <2>2. Length(side, top) \in Nat
    BY <1>1, Programs DEF Frames, Length, WellFormed
  <2>. QED BY <1>1, <2>1, <2>2 DEF TaskOK, Frames
<1>3. /\ f \in Frames /\ f.method = top.method /\ f.context = top.context
      /\ f.token = top.token /\ f.pc = top.pc /\ f.audit = top.audit
      /\ top.changed => f.changed
      /\ f.changed /\ e = "denied" => top.changed
  BY <1>1 DEF Frames, top
<1>4. f.changed /\ e = "denied" => AsksAgain(side, f.method)
  <2>. SUFFICES ASSUME top.changed, e = "denied"
                PROVE  AsksAgain(side, top.method)
    BY <1>3
  <2>1. AsksAgain(side, top.method) \/ Quiet(side, top)
    BY <1>1, <1>2 DEF TaskOK, QuietOK
  <2>2. ~Quiet(side, top)
    BY <1>1, <1>2 DEF Quiet, Kind
  <2>. QED BY <2>1, <2>2
<1>5. e \in {"error", "denied"} => f.method \notin Batches \/ f.token = Unset
  <2>. SUFFICES ASSUME e \in {"error", "denied"}
                PROVE  top.method \notin Batches \/ top.token = Unset
    BY <1>3
  <2>1. Kind(side, top) \notin {"item", "review", "reset"}
    BY <1>1
  <2>. QED BY <1>1, <1>2, <2>1, BatchKinds
<1>6. TaskOK(side, Append(Front(s), f), e, var[t], given[t])
  BY <1>1, <1>3, <1>4, <1>5, FailKeeps
<1>7. /\ stack' = [stack EXCEPT ![t] = Append(Front(s), f)]
      /\ Append(Front(s), f) # <<>>
  BY <1>1, <1>3, NewTop
<1>8. raised' = [raised EXCEPT ![t] = e]
  BY DEF Raise
<1>. DEFINE q == Append(Front(s), f)
<1>9. /\ q # <<>> /\ stack' = [stack EXCEPT ![t] = q]
      /\ TaskOK(side, q, e, var[t], given[t])
      /\ var' = [var EXCEPT ![t] = var[t]]
  BY <1>1, <1>6, <1>7, SameEntry
<1>. HIDE DEF q, s
<1>. QED BY <1>1, <1>8, <1>9, WorkKeeps DEF s

LEMMA FrontLast ==
    ASSUME NEW s \in Seq(Frames), s # <<>>
    PROVE  Append(Front(s), Last(s)) = s
<1>. DEFINE q == Append(Front(s), Last(s))
<1>1. /\ s[Len(s)] \in Frames /\ Last(s) = s[Len(s)] /\ Len(s) \in Nat \ {0}
  BY Fronted
<1>2. /\ q \in Seq(Frames) /\ Len(q) = Len(s) /\ q[Len(s)] = s[Len(s)]
      /\ \A i \in 1 .. Len(s) - 1 : q[i] = s[i]
  BY <1>1, Replaced
<1>. HIDE DEF q
<1>3. \A i \in 1 .. Len(s) : q[i] = s[i]
  BY <1>1, <1>2
<1>4. q = s
  BY <1>1, <1>2, <1>3, SeqEqual
<1>. QED BY <1>4 DEF q

LEMMA AskStep ==
    ASSUME FacadeInv, NEW t \in Tasks, Ask(t)
    PROVE  FacadeInv'
<1>1. At(t, {"ask"}) /\ UNCHANGED <<side, lockVars, hostVars, var>>
  BY DEF Ask
<1>2. PICK reply \in {"yes", "no", "broken"} :
         /\ Replace(t, IF Allows(reply) THEN Advance(Top(t)) ELSE Top(t))
         /\ Raise(t, IF Allows(reply) THEN None ELSE "denied")
  BY DEF Ask
<1>3. Kind(side, Top(t)) \in {"ask"} /\ raised[t] = None
  BY <1>1, AtTop
<1>4. CASE Allows(reply)
  <2>1. raised' = raised
    BY <1>2, <1>3, <1>4, SameEntry DEF Raise
  <2>. QED BY <1>1, <1>2, <1>3, <1>4, <2>1, WorkAdvances
<1>5. CASE ~Allows(reply)
  BY <1>1, <1>2, <1>5, WorkFails DEF Exceptions, hostVars
<1>. QED BY <1>4, <1>5

LEMMA WorkStep ==
    ASSUME FacadeInv, NEW t \in Tasks, Work(t)
    PROVE  FacadeInv'
<1>. DEFINE kinds == {"load", "find", "serve", "change"}
            writes == StepOf(Top(t))[1] = "change"
<1>1. At(t, kinds) /\ UNCHANGED <<side, lockVars, hostVars, var>>
  BY DEF Work
<1>2. /\ Kind(side, Top(t)) \in kinds /\ raised[t] = None
      /\ Top(t) \in Frames
      /\ writes <=> Kind(side, Top(t)) = "change"
  BY <1>1, AtTop DEF Kind
<1>3. CASE /\ Replace(t, [Advance(Top(t)) EXCEPT !.changed = @ \/ writes])
           /\ UNCHANGED raised
  <2>. DEFINE f == [Advance(Top(t)) EXCEPT !.changed = @ \/ writes]
  <2>1. CASE writes
    <3>1. f = [Advance(Top(t)) EXCEPT !.changed = TRUE]
      BY <2>1
    <3>. QED BY <1>1, <1>2, <1>3, <2>1, <3>1, WorkAdvances
  <2>2. CASE ~writes
    <3>1. f = Advance(Top(t))
      BY <1>2, <2>2 DEF Advance, Frames
    <3>. QED BY <1>1, <1>2, <1>3, <2>2, <3>1, WorkAdvances
  <2>. QED BY <2>1, <2>2
<1>4. CASE \E done \in {FALSE, writes} :
              /\ Replace(t, [Top(t) EXCEPT !.changed = @ \/ done])
              /\ Raise(t, "error")
  <2>1. PICK done \in {FALSE, writes} :
              /\ Replace(t, [Top(t) EXCEPT !.changed = @ \/ done])
              /\ Raise(t, "error")
    BY <1>4
  <2>. DEFINE f == [Top(t) EXCEPT !.changed = @ \/ done]
  <2>2. f \in {Top(t), [Top(t) EXCEPT !.changed = TRUE]}
    <3>1. CASE done
      BY <3>1
    <3>2. CASE ~done
      BY <1>2, <3>2 DEF Frames
    <3>. QED BY <3>1, <3>2
  <2>. QED BY <1>1, <2>1, <2>2, WorkFails DEF Exceptions, hostVars
<1>. QED BY <1>3, <1>4 DEF Work

LEMMA ReviewStep ==
    ASSUME FacadeInv, NEW t \in Tasks, Review(t)
    PROVE  FacadeInv'
<1>1. /\ At(t, {"review"}) /\ Replace(t, Advance(Top(t)))
      /\ UNCHANGED <<side, lockVars, hostVars, raised, var>>
  BY DEF Review
<1>2. Kind(side, Top(t)) \in {"review"}
  BY <1>1, AtTop
<1>. QED BY <1>1, <1>2, WorkAdvances

LEMMA AuditStep ==
    ASSUME FacadeInv, NEW t \in Tasks, Audit(t)
    PROVE  FacadeInv'
<1>. DEFINE top == Top(t)
            p == Steps(side, top.method)
<1>1. /\ At(t, {"audit"})
      /\ Replace(t, [Advance(top) EXCEPT !.audit = AuditEvent(top.method)])
      /\ UNCHANGED <<side, lockVars, hostVars, raised, var>>
  BY DEF Audit
<1>2. /\ Kind(side, top) \in {"audit"} /\ top \in Frames
      /\ top.pc <= Length(side, top)
      /\ TaskOK(side, stack[t], None, var[t], given[t]) /\ stack[t] # <<>>
      /\ top = stack[t][Len(stack[t])]
  BY <1>1, AtTop
<1>3. FrameOK(side, top)
  BY <1>2, Fronted DEF TaskOK
<1>4. top.method # "preview" => \E j \in 1 .. top.pc - 1 : p[j][1] = "change"
  <2>1. WellFormed(top.method, p) /\ top.pc \in 1 .. Len(p)
    <3>1. WellFormed(top.method, p) /\ top.pc \in Nat \ {0}
      BY <1>2, Programs DEF Frames
    <3>2. Len(p) \in Nat
      BY <3>1 DEF WellFormed
    <3>. QED BY <1>2, <3>1, <3>2 DEF Length
  <2>. QED BY <1>2, <2>1 DEF WellFormed, Kind
<1>5. AuditEvent(top.method) = "applied" => top.changed
  BY <1>3, <1>4 DEF FrameOK, AuditEvent
<1>6. AuditEvent(top.method) \in {"applied", "previewed"}
  BY DEF AuditEvent
<1>. QED BY <1>1, <1>2, <1>5, <1>6, WorkAdvances

LEMMA OpenStep ==
    ASSUME FacadeInv, NEW t \in Tasks, OpenFile(t)
    PROVE  FacadeInv'
<1>1. At(t, {"open"}) /\ UNCHANGED <<side, lockVars, hostVars, var>>
  BY DEF OpenFile
<1>2. /\ Kind(side, Top(t)) \in {"open"} /\ stack[t] # <<>>
      /\ stack[t] \in Seq(Frames)
  BY <1>1, AtTop DEF TaskOK
<1>3. CASE Replace(t, Advance(Top(t))) /\ UNCHANGED raised
  BY <1>1, <1>2, <1>3, WorkAdvances
<1>4. CASE Raise(t, "error") /\ UNCHANGED stack
  <2>1. Append(Front(stack[t]), Top(t)) = stack[t]
    BY <1>2, FrontLast DEF Top
  <2>2. Replace(t, Top(t))
    BY <1>4, <2>1, SameEntry DEF Replace
  <2>. QED BY <1>1, <1>4, <2>2, WorkFails DEF Exceptions, hostVars
<1>. QED BY <1>3, <1>4 DEF OpenFile

LEMMA CloseStep ==
    ASSUME FacadeInv, NEW t \in Tasks, CloseFile(t)
    PROVE  FacadeInv'
<1>1. /\ At(t, {"close"}) /\ Replace(t, Advance(Top(t)))
      /\ UNCHANGED <<side, lockVars, hostVars, raised, var>>
  BY DEF CloseFile
<1>2. Kind(side, Top(t)) \in {"close"}
  BY <1>1, AtTop
<1>. QED BY <1>1, <1>2, WorkAdvances

LEMMA CancelNativeStep ==
    ASSUME FacadeInv, NEW t \in Tasks, CancelNative(t)
    PROVE  FacadeInv'
<1>. DEFINE kinds == {"ask", "load", "find", "serve", "change", "review",
                      "audit", "open", "close"}
<1>1. /\ At(t, kinds) /\ UNCHANGED <<side, lockVars, host, want, given, var>>
      /\ hits' = [hits EXCEPT ![t] = @ + 1]
      /\ Raise(t, "cancelled")
      /\ \E done \in BOOLEAN :
            Replace(t, [Top(t) EXCEPT !.changed = @ \/ done])
  BY DEF CancelNative, Hit
<1>2. Top(t) \in Frames
  BY <1>1, AtTop
<1>3. PICK done \in BOOLEAN :
              Replace(t, [Top(t) EXCEPT !.changed = @ \/ done])
  BY <1>1
<1>. DEFINE f == [Top(t) EXCEPT !.changed = @ \/ done]
<1>4. f \in {Top(t), [Top(t) EXCEPT !.changed = TRUE]}
  <2>1. CASE done
    BY <2>1
  <2>2. CASE ~done
    BY <1>2, <2>2 DEF Frames
  <2>. QED BY <2>1, <2>2
<1>. QED BY <1>1, <1>3, <1>4, WorkFails DEF Exceptions

LEMMA SetStep ==
    ASSUME FacadeInv, NEW t \in Tasks, SetVariable(t)
    PROVE  FacadeInv'
<1>. DEFINE top == Top(t)
            s == stack[t]
            f == [top EXCEPT !.pc = @ + 1, !.token = var[t]]
            w == IF top.context # None THEN top.context ELSE var[t]
<1>1. /\ At(t, {"set"})
      /\ Replace(t, [Advance(top) EXCEPT !.token = var[t]])
      /\ var' = [var EXCEPT ![t] = w]
      /\ UNCHANGED <<side, lockVars, hostVars, raised>>
  BY DEF SetVariable, Effective
<1>2. /\ s # <<>> /\ raised[t] = None
      /\ TaskOK(side, s, None, var[t], given[t])
      /\ top = s[Len(s)] /\ top \in Frames
      /\ top.pc <= Length(side, top) /\ Kind(side, top) = "set"
  BY <1>1, AtTop
<1>3. [Advance(top) EXCEPT !.token = var[t]] = f
  BY <1>2 DEF Advance, Frames
<1>4. f \in Frames /\ TaskOK(side, Append(Front(s), f), None, w, given[t])
  BY <1>2, SetKeeps
<1>5. /\ stack' = [stack EXCEPT ![t] = Append(Front(s), f)]
      /\ Append(Front(s), f) # <<>>
  BY <1>1, <1>2, <1>3, <1>4, NewTop
<1>6. UNCHANGED <<side, lockVars, host, want, given, hits, raised>>
  BY <1>1 DEF hostVars
<1>. HIDE DEF w, f
<1>. QED BY <1>1, <1>2, <1>4, <1>5, <1>6, SameEntry, WorkKeeps

LEMMA ResetStep ==
    ASSUME FacadeInv, NEW t \in Tasks, ResetVariable(t)
    PROVE  FacadeInv'
<1>. DEFINE top == Top(t)
            s == stack[t]
            f == [top EXCEPT !.pc = @ + 1, !.token = Unset]
<1>1. /\ At(t, {"reset"})
      /\ Replace(t, [Advance(top) EXCEPT !.token = Unset])
      /\ var' = [var EXCEPT ![t] = top.token]
      /\ UNCHANGED <<side, lockVars, hostVars, raised>>
  BY DEF ResetVariable
<1>2. /\ s # <<>> /\ raised[t] = None
      /\ TaskOK(side, s, None, var[t], given[t])
      /\ top = s[Len(s)] /\ top \in Frames
      /\ top.pc <= Length(side, top) /\ Kind(side, top) = "reset"
  BY <1>1, AtTop
<1>3. [Advance(top) EXCEPT !.token = Unset] = f
  BY <1>2 DEF Advance, Frames
<1>4. /\ f \in Frames
      /\ TaskOK(side, Append(Front(s), f), None, top.token, given[t])
  BY <1>2, ResetKeeps
<1>5. /\ stack' = [stack EXCEPT ![t] = Append(Front(s), f)]
      /\ Append(Front(s), f) # <<>>
  BY <1>1, <1>2, <1>3, <1>4, NewTop
<1>6. UNCHANGED <<side, lockVars, host, want, given, hits, raised>>
  BY <1>1 DEF hostVars
<1>. HIDE DEF f
<1>. QED BY <1>1, <1>2, <1>4, <1>5, <1>6, SameEntry, WorkKeeps

LEMMA EnterStep ==
    ASSUME FacadeInv, NEW t \in Tasks, Enter(t)
    PROVE  FacadeInv'
<1>. DEFINE top == Top(t)
            s == stack[t]
            m == Callee(side, top)
            c == IF Kind(side, top) = "call" THEN top.context ELSE None
            q == Append(s, Frame(m, ContextOf(m, c, var[t])))
<1>1. At(t, Entering)
  BY DEF Enter, At, Entering
<1>2. /\ s # <<>> /\ raised[t] = None
      /\ TaskOK(side, s, None, var[t], given[t])
      /\ top = s[Len(s)] /\ top \in Frames
      /\ top.pc <= Length(side, top) /\ Kind(side, top) \in Entering
      /\ StepOf(top) = Steps(side, top.method)[top.pc]
  BY <1>1, AtTop
<1>3. stack' = [stack EXCEPT ![t] = q]
  <2>1. Entered(t, m, c) = Frame(m, ContextOf(m, c, var[t]))
    BY DEF Entered, Effective, ContextOf
  <2>2. stack' = [stack EXCEPT ![t] = Append(@, Entered(t, m, c))]
    BY <1>2 DEF Enter, Callee, Kind
  <2>3. stack' = [stack EXCEPT ![t] = Append(s, Entered(t, m, c))]
    BY <2>2 DEF FacadeInv, FacadeTypeOK
  <2>. QED BY <2>1, <2>3
<1>4. TaskOK(side, q, None, var[t], given[t])
  BY <1>2, PushKeeps
<1>. HIDE DEF q
<1>5. q # <<>>
  <2>1. s \in Seq(Frames) /\ q \in Seq(Frames)
    BY <1>2, <1>4 DEF TaskOK
  <2>2. Len(q) = Len(s) + 1
    BY <2>1 DEF q
  <2>3. Len(s) \in Nat /\ Len(<<>>) = 0
    BY <2>1
  <2>. QED BY <2>2, <2>3
<1>6. /\ UNCHANGED <<side, lockVars, host, want, given>> /\ hits' = hits
      /\ raised' = raised /\ var' = var
  BY DEF Enter, hostVars
<1>7. /\ raised' = [raised EXCEPT ![t] = None]
      /\ var' = [var EXCEPT ![t] = var[t]]
  BY <1>2, <1>6, SameEntry
<1>. HIDE DEF s
<1>. QED BY <1>2, <1>3, <1>4, <1>5, <1>6, <1>7, WorkKeeps DEF s

(* A frame that ends or is unwound, and the one below it. *)
LEMMA Below ==
    ASSUME FacadeInv, NEW t \in Tasks, stack[t] # <<>>, Len(stack[t]) # 1
    PROVE  LET s == stack[t]
               b == Front(s)
               under == s[Len(s) - 1]
           IN  /\ TaskOK(side, b, None, Restored(t), given[t])
               /\ b # <<>> /\ under = b[Len(b)]
               /\ under \in Frames /\ FrameOK(side, under)
               /\ under.pc <= Length(side, under)
               /\ under.pc \in 1 .. Length(side, under)
               /\ Kind(side, under) \in Entering
               /\ Top(t).method = Callee(side, under)
               /\ Top(t) \in Frames /\ Top(t) = s[Len(s)]
<1>. DEFINE s == stack[t]
            b == Front(s)
            n == Len(s)
            under == s[n - 1]
            w == IF s[n].token # Unset THEN s[n].token ELSE var[t]
<1>1. TaskOK(side, s, raised[t], var[t], given[t])
  BY DEF FacadeInv, TaskInv
<1>2. /\ s \in Seq(Frames) /\ n \in Nat \ {0, 1} /\ s[n] \in Frames
      /\ Top(t) = s[n] /\ b \in Seq(Frames) /\ Len(b) = n - 1
      /\ \A i \in 1 .. n - 1 : b[i] = s[i]
  BY <1>1, Fronted DEF TaskOK, Top
<1>3. TaskOK(side, b, None, w, given[t])
  BY <1>1, PopKeeps
<1>4. w = Restored(t)
  BY <1>2 DEF Restored
<1>. HIDE DEF b, w, s, n
<1>0. /\ n - 1 \in 1 .. n - 1 /\ n - 1 \in 1 .. Len(b) /\ n - 1 + 1 = n
      /\ Len(b) # 0
  BY <1>2
<1>5. b # <<>> /\ under = b[Len(b)]
  BY <1>0, <1>2
<1>6. under \in Frames /\ FrameOK(side, under)
  <2>1. b[n - 1] \in Frames
    BY <1>0, <1>2, ElementOfSeq
  <2>2. FrameOK(side, b[n - 1])
    BY <1>0, <1>3 DEF TaskOK
  <2>. QED BY <1>0, <1>2, <2>1, <2>2
<1>7. /\ under.pc <= Length(side, under) /\ Kind(side, under) \in Entering
      /\ Top(t).method = Callee(side, under)
  <2>1. /\ s[n - 1].pc <= Length(side, s[n - 1])
        /\ Kind(side, s[n - 1]) \in Entering
        /\ s[n - 1 + 1].method = Callee(side, s[n - 1])
    BY <1>0, <1>1 DEF TaskOK, Chained, n
  <2>. QED BY <1>0, <1>2, <2>1
<1>8. under.pc \in 1 .. Length(side, under)
  <2>1. Length(side, under) \in Nat
    BY <1>6, Programs DEF Frames, Length, WellFormed
  <2>. QED BY <1>6, <1>7, <2>1 DEF Frames
<1>. QED BY <1>2, <1>3, <1>4, <1>5, <1>6, <1>7, <1>8 DEF b, s, n

(* The frame below with what was changed on its behalf. *)
LEMMA ParentFrame ==
    ASSUME FacadeInv, NEW t \in Tasks, stack[t] # <<>>, Len(stack[t]) # 1,
           NEW under, under = stack[t][Len(stack[t]) - 1]
    PROVE  /\ Parent(t) \in Frames
           /\ Parent(t).method = under.method /\ Parent(t).pc = under.pc
           /\ Parent(t).context = under.context
           /\ Parent(t).token = under.token /\ Parent(t).audit = under.audit
           /\ Parent(t).changed \in BOOLEAN
           /\ Parent(t).changed <=> under.changed \/ Top(t).changed
           /\ StepOf(Parent(t))[1] = Kind(side, under)
<1>1. under \in Frames /\ Top(t) \in Frames
  BY Below
<1>2. Parent(t) = [under EXCEPT !.changed = @ \/ Top(t).changed]
  BY DEF Parent
<1>3. (under.changed \/ Top(t).changed) \in BOOLEAN
  OBVIOUS
<1>4. /\ Parent(t) \in Frames
      /\ Parent(t).method = under.method /\ Parent(t).pc = under.pc
      /\ Parent(t).context = under.context
      /\ Parent(t).token = under.token /\ Parent(t).audit = under.audit
      /\ Parent(t).changed = (under.changed \/ Top(t).changed)
  BY <1>1, <1>2, <1>3 DEF Frames
<1>. QED BY <1>4 DEF StepOf, Program, Steps, Kind

(* A method that was entered has ended: its caller goes on. *)
LEMMA ReturnBelow ==
    ASSUME FacadeInv, NEW t \in Tasks, stack[t] # <<>>, Len(stack[t]) # 1,
           NEW d \in {1, 2}, d = 2 => StepOf(Parent(t))[1] = "item",
           NEW f, f = [Parent(t) EXCEPT !.pc = @ + d],
           UNCHANGED <<side, lockVars, hostVars>>,
           BackTo(t, f),
           raised' = [raised EXCEPT ![t] = None],
           var' = [var EXCEPT ![t] = Restored(t)]
    PROVE  FacadeInv'
<1>. DEFINE s == stack[t]
            b == Front(s)
            under == s[Len(s) - 1]
            w == Restored(t)
<1>1. /\ TaskOK(side, b, None, w, given[t])
      /\ b # <<>> /\ under = b[Len(b)] /\ b \in Seq(Frames)
      /\ under \in Frames /\ FrameOK(side, under)
      /\ under.pc <= Length(side, under)
      /\ Kind(side, under) \in Entering
  BY Below DEF TaskOK
<1>2. /\ f \in Frames
      /\ f.method = under.method /\ f.context = under.context
      /\ f.token = under.token /\ f.pc = under.pc + d
      /\ f.audit = under.audit
      /\ f.changed <=> under.changed \/ Top(t).changed
      /\ StepOf(Parent(t))[1] = Kind(side, under)
  <2>1. under.pc + d \in Nat \ {0}
    BY <1>1 DEF Frames
  <2>2. /\ Parent(t) \in Frames
        /\ Parent(t).method = under.method /\ Parent(t).pc = under.pc
        /\ Parent(t).context = under.context
        /\ Parent(t).token = under.token /\ Parent(t).audit = under.audit
        /\ Parent(t).changed <=> under.changed \/ Top(t).changed
        /\ StepOf(Parent(t))[1] = Kind(side, under)
    BY ParentFrame
  <2>. HIDE DEF under
  <2>. QED BY <2>1, <2>2 DEF Frames
<1>3. TaskOK(side, Append(Front(b), f), None, w, given[t])
  <2>1. /\ Kind(side, under) \notin {"set", "reset"}
        /\ d = 2 => Kind(side, under) = "item"
        /\ under.changed => f.changed
        /\ Kind(side, under) = "change" => f.changed
        /\ f.changed =>
              under.changed \/ Kind(side, under) \in Entering \cup {"change"}
        /\ f.audit = "applied" => f.changed
    <3>1. under.audit = "applied" => under.changed
      BY <1>1 DEF FrameOK
    <3>2. Kind(side, under) \in Entering
      BY <1>1
    <3>. HIDE DEF under
    <3>3. Kind(side, under) \notin {"set", "reset", "change"}
      BY <3>2 DEF Entering
    <3>4. d = 2 => Kind(side, under) = "item"
      BY <1>1, <1>2
    <3>5. /\ under.changed => f.changed
          /\ f.changed =>
                under.changed \/ Kind(side, under) \in Entering \cup {"change"}
          /\ f.audit = "applied" => f.changed
      BY <1>1, <1>2, <3>1, <3>2
    <3>. QED BY <3>3, <3>4, <3>5
  <2>. HIDE DEF b, under, w
  <2>. QED BY <1>1, <1>2, <2>1, AdvanceKeeps, ZenonT(30)
<1>4. /\ stack' = [stack EXCEPT ![t] = Append(Front(b), f)]
      /\ Append(Front(b), f) # <<>>
  BY <1>1, <1>2, Replaced DEF BackTo, FacadeInv, FacadeTypeOK
<1>5. UNCHANGED <<side, lockVars, host, want, given>> /\ hits' = hits
  BY DEF hostVars
<1>. DEFINE q == Append(Front(b), f)
<1>6. /\ q # <<>> /\ stack' = [stack EXCEPT ![t] = q]
      /\ TaskOK(side, q, None, w, given[t])
      /\ var' = [var EXCEPT ![t] = w]
  BY <1>3, <1>4
<1>. HIDE DEF q, w, b, s
<1>. QED BY <1>5, <1>6, WorkKeeps

(* An exception that nobody catches goes on to the caller. *)
LEMMA UnwindBelow ==
    ASSUME FacadeInv, NEW t \in Tasks, stack[t] # <<>>, Len(stack[t]) # 1,
           raised[t] # None, ~Caught(Parent(t), raised[t]),
           UNCHANGED <<side, lockVars, hostVars, raised>>,
           BackTo(t, Parent(t)),
           var' = [var EXCEPT ![t] = Restored(t)]
    PROVE  FacadeInv'
<1>. DEFINE s == stack[t]
            b == Front(s)
            under == s[Len(s) - 1]
            w == Restored(t)
            f == Parent(t)
            r == raised[t]
<1>1. /\ TaskOK(side, b, None, w, given[t])
      /\ b # <<>> /\ under = b[Len(b)] /\ b \in Seq(Frames)
      /\ under \in Frames /\ FrameOK(side, under)
      /\ under.pc <= Length(side, under)
      /\ under.pc \in 1 .. Length(side, under)
      /\ Kind(side, under) \in Entering
      /\ Top(t).method = Callee(side, under)
      /\ Top(t) \in Frames /\ Top(t) = s[Len(s)]
  BY Below DEF TaskOK
<1>2. /\ f \in Frames
      /\ f.method = under.method /\ f.context = under.context
      /\ f.token = under.token /\ f.pc = under.pc
      /\ f.audit = under.audit
      /\ f.changed <=> under.changed \/ Top(t).changed
      /\ StepOf(f)[1] = Kind(side, under)
  BY ParentFrame
<1>3. r \in Exceptions /\ TaskOK(side, s, r, var[t], given[t])
  BY DEF FacadeInv, TaskInv, TaskOK
<1>4. r # "cancelled" => Kind(side, under) \in {"call", "bare"}
  BY <1>1, <1>2 DEF Caught, Entering
<1>5. ASSUME r = "denied", f.changed
      PROVE  AsksAgain(side, f.method)
  <2>1. Kind(side, under) \in {"call", "bare"}
    BY <1>4, <1>5
  <2>2. ~Quiet(side, under)
    <3>1. under.pc \in under.pc .. Length(side, under)
      BY <1>1 DEF Frames
    <3>. QED BY <2>1, <3>1 DEF Quiet, Kind
  <2>3. CASE under.changed
    <3>1. Len(b) \in 1 .. Len(b)
      BY <1>1, Fronted
    <3>2. AsksAgain(side, under.method) \/ Quiet(side, under)
      BY <1>1, <2>3, <3>1 DEF TaskOK, QuietOK
    <3>. QED BY <1>2, <2>2, <3>2
  <2>4. CASE Top(t).changed
    <3>1. AsksAgain(side, Top(t).method)
      BY <1>1, <1>3, <1>5, <2>4 DEF TaskOK, QuietOK
    <3>2. WellFormed(under.method, Steps(side, under.method))
      BY <1>1, Programs DEF Frames
    <3>3. Callee(side, under) \notin Repairs
      BY <1>1, <2>1, <3>2 DEF WellFormed, Callee, Kind, Length, Repairs
    <3>. QED BY <1>1, <3>1, <3>3 DEF AsksAgain
  <2>. QED BY <1>2, <1>5, <2>3, <2>4
<1>6. r \in {"error", "denied"} => f.method \notin Batches \/ f.token = Unset
  <2>. SUFFICES ASSUME r \in {"error", "denied"}
                PROVE  under.method \notin Batches \/ under.token = Unset
    BY <1>2
  <2>1. Kind(side, under) \notin {"item", "review", "reset"}
    BY <1>4
  <2>. QED BY <1>1, <2>1, BatchKinds
<1>7. TaskOK(side, Append(Front(b), f), r, w, given[t])
  <2>. HIDE DEF b, under, w, f, r
  <2>. QED BY <1>1, <1>2, <1>3, <1>5, <1>6, FailKeeps
<1>8. /\ stack' = [stack EXCEPT ![t] = Append(Front(b), f)]
      /\ Append(Front(b), f) # <<>>
  BY <1>1, <1>2, Replaced DEF BackTo, FacadeInv, FacadeTypeOK
<1>9. UNCHANGED <<side, lockVars, host, want, given>> /\ hits' = hits
  BY DEF hostVars
<1>. DEFINE q == Append(Front(b), f)
<1>10. /\ q # <<>> /\ stack' = [stack EXCEPT ![t] = q]
       /\ TaskOK(side, q, r, w, given[t])
       /\ raised' = [raised EXCEPT ![t] = r]
       /\ var' = [var EXCEPT ![t] = w]
  BY <1>7, <1>8, SameEntry
<1>. HIDE DEF q, w, b, s, f, r
<1>. QED BY <1>9, <1>10, WorkKeeps

(* A step of one task, whatever it does with its call. *)
LEMMA OneTask ==
    ASSUME FacadeInv, NEW t \in Tasks, side' = side, ready => ready',
           FacadeTypeOK', LockInv',
           \A u \in Tasks \ {t} :
              /\ host'[u] = host[u] /\ want'[u] = want[u]
              /\ given'[u] = given[u] /\ hits'[u] = hits[u]
              /\ stack'[u] = stack[u] /\ raised'[u] = raised[u]
              /\ var'[u] = var[u],
           TaskInv(t)', HostInv(t)'
    PROVE  FacadeInv'
<1>1. ASSUME NEW u \in Tasks \ {t}
      PROVE  TaskInv(u)' /\ HostInv(u)'
  <2>1. TaskInv(u) /\ HostInv(u)
    BY DEF FacadeInv
  <2>. QED BY <2>1 DEF TaskInv, HostInv
<1>. QED BY <1>1 DEF FacadeInv

(* The outermost method leaves the variable as the caller had it. *)
LEMMA LastRestored ==
    ASSUME FacadeInv, NEW t \in Tasks, Len(stack[t]) = 1
    PROVE  Restored(t) = None /\ stack[t] # <<>>
<1>. DEFINE s == stack[t]
<1>1. TaskOK(side, s, raised[t], var[t], given[t]) /\ s \in Seq(Frames)
  BY DEF FacadeInv, TaskInv, TaskOK
<1>2. s # <<>>
  <2>1. Len(s) = 1 /\ Len(<<>>) = 0
    OBVIOUS
  <2>. HIDE DEF s
  <2>. QED BY <2>1
<1>3. Top(t) = s[1]
  BY <1>1, <1>2, Fronted DEF Top
<1>. HIDE DEF s
<1>4. /\ var[t] = ValueAt(s, 1, given[t])
      /\ s[1].token # Unset => s[1].token = ValueAt(s, 0, given[t])
  BY <1>1 DEF TaskOK, TokensOK, s
<1>5. ValueAt(s, 0, given[t]) = None
  BY DEF ValueAt
<1>6. s[1].token = Unset => ValueAt(s, 1, given[t]) = None
  BY DEF ValueAt
<1>. QED BY <1>2, <1>3, <1>4, <1>5, <1>6 DEF Restored, s

(* A call that ends leaves nothing. *)
LEMMA FinishKeeps ==
    ASSUME FacadeInv, NEW t \in Tasks, NEW result, NEW changed,
           Finish(t, result, changed), UNCHANGED <<side, lockVars>>,
           var' = [var EXCEPT ![t] = None]
    PROVE  FacadeInv'
<1>1. /\ host' = [host EXCEPT ![t] = "idle"]
      /\ want' = [want EXCEPT ![t] = None]
      /\ given' = [given EXCEPT ![t] = None]
      /\ hits' = [hits EXCEPT ![t] = 0]
      /\ raised' = [raised EXCEPT ![t] = None]
      /\ stack' = [stack EXCEPT ![t] = <<>>]
      /\ ready' = ready /\ inits' = inits
  BY DEF Finish, lockVars
<1>2. <<>> \in Seq(Frames)
  BY EmptySeq
<1>3. FacadeTypeOK'
  <2>1. FacadeTypeOK
    BY DEF FacadeInv
  <2>2. host' \in [Tasks -> Places]
    BY <1>1, <2>1 DEF FacadeTypeOK, Places
  <2>3. want' \in [Tasks -> AllMethods \cup {None}]
    BY <1>1, <2>1 DEF FacadeTypeOK
  <2>4. given' \in [Tasks -> Contexts \cup {None}]
    BY <1>1, <2>1 DEF FacadeTypeOK
  <2>5. hits' \in [Tasks -> Nat]
    BY <1>1, <2>1 DEF FacadeTypeOK
  <2>6. stack' \in [Tasks -> Seq(Frames)]
    BY <1>1, <1>2, <2>1 DEF FacadeTypeOK
  <2>7. raised' \in [Tasks -> Exceptions \cup {None}]
    BY <1>1, <2>1 DEF FacadeTypeOK
  <2>8. var' \in [Tasks -> Contexts \cup {None}]
    BY <2>1 DEF FacadeTypeOK
  <2>. QED BY <2>2, <2>3, <2>4, <2>5, <2>6, <2>7, <2>8 DEF FacadeTypeOK
<1>4. LockInv'
  BY <1>1 DEF FacadeInv, LockInv
<1>5. \A u \in Tasks \ {t} :
         /\ host'[u] = host[u] /\ want'[u] = want[u]
         /\ given'[u] = given[u] /\ hits'[u] = hits[u]
         /\ stack'[u] = stack[u] /\ raised'[u] = raised[u]
         /\ var'[u] = var[u]
  BY <1>1 DEF FacadeInv, FacadeTypeOK
<1>6. /\ host'[t] = "idle" /\ stack'[t] = <<>> /\ raised'[t] = None
      /\ given'[t] = None /\ var'[t] = None
  BY <1>1 DEF FacadeInv, FacadeTypeOK
<1>7. TaskInv(t)'
  BY <1>6, EmptyKeeps DEF TaskInv
<1>8. HostInv(t)'
  BY <1>6 DEF HostInv
<1>. QED BY <1>1, <1>3, <1>4, <1>5, <1>7, <1>8, OneTask

(* A method that has come to its end has reset the variable. *)
LEMMA EndReset ==
    ASSUME FacadeInv, NEW t \in Tasks, stack[t] # <<>>, AtEnd(t)
    PROVE  Top(t).token = Unset
<1>. DEFINE s == stack[t]
<1>1. TaskOK(side, s, raised[t], var[t], given[t]) /\ s \in Seq(Frames)
  BY DEF FacadeInv, TaskInv, TaskOK
<1>2. /\ Top(t) = s[Len(s)] /\ Top(t) \in Frames
      /\ Len(s) \in 1 .. Len(s)
  BY <1>1, Fronted DEF Top
<1>3. FrameOK(side, Top(t))
  BY <1>1, <1>2 DEF TaskOK
<1>4. Program(Top(t).method) = Steps(side, Top(t).method)
  BY DEF Program, Steps
<1>5. Top(t).pc \in Nat /\ Length(side, Top(t)) \in Nat
  BY <1>2, Programs DEF Frames, Length, WellFormed
<1>. QED BY <1>3, <1>4, <1>5 DEF AtEnd, FrameOK, Length

LEMMA ReturnStep ==
    ASSUME FacadeInv, NEW t \in Tasks, Return(t)
    PROVE  FacadeInv'
<1>1. /\ stack[t] # <<>> /\ raised[t] = None /\ AtEnd(t)
      /\ UNCHANGED <<side, lockVars>>
  BY DEF Return, Running
<1>2. Restored(t) = var[t]
  BY <1>1, EndReset DEF Restored
<1>3. CASE Len(stack[t]) = 1
  <2>1. var[t] = None
    BY <1>2, <1>3, LastRestored
  <2>2. var' = [var EXCEPT ![t] = None]
    BY <1>3, <2>1, SameEntry DEF Return
  <2>3. Finish(t, "ok", Top(t).changed)
    BY <1>3 DEF Return
  <2>. QED BY <1>1, <2>2, <2>3, FinishKeeps
<1>4. CASE Len(stack[t]) # 1
  <2>. DEFINE f == After(Parent(t))
  <2>1. /\ BackTo(t, f) /\ UNCHANGED <<side, lockVars, hostVars>>
        /\ raised' = raised /\ var' = var
    BY <1>1, <1>4 DEF Return
  <2>2. /\ raised' = [raised EXCEPT ![t] = None]
        /\ var' = [var EXCEPT ![t] = Restored(t)]
    BY <1>1, <1>2, <2>1, SameEntry
  <2>3. Parent(t) \in Frames
    BY <1>1, <1>4, ParentFrame
  <2>4. CASE StepOf(Parent(t))[1] = "item"
    <3>1. f = [Parent(t) EXCEPT !.pc = @ + 2]
      <4>1. /\ Parent(t).pc \in Nat /\ Parent(t).pc + 1 + 1 = Parent(t).pc + 2
        BY <2>3 DEF Frames
      <4>2. f = [[Parent(t) EXCEPT !.pc = @ + 1] EXCEPT !.pc = @ + 1]
        BY <2>4 DEF After, Advance
      <4>. QED BY <2>3, <4>1, <4>2 DEF Frames
    <3>. HIDE DEF f
    <3>. QED BY <1>1, <1>4, <2>1, <2>2, <2>4, <3>1, ReturnBelow
  <2>5. CASE StepOf(Parent(t))[1] # "item"
    <3>1. f = [Parent(t) EXCEPT !.pc = @ + 1]
      BY <2>5 DEF After, Advance
    <3>. HIDE DEF f
    <3>. DEFINE d == 1
    <3>2. /\ d \in {1, 2} /\ (d = 2 => StepOf(Parent(t))[1] = "item")
          /\ f = [Parent(t) EXCEPT !.pc = @ + d]
      BY <3>1
    <3>. HIDE DEF d
    <3>. QED BY <1>1, <1>4, <2>1, <2>2, <3>2, ReturnBelow
  <2>. QED BY <2>4, <2>5
<1>. QED BY <1>3, <1>4

LEMMA UnwindStep ==
    ASSUME FacadeInv, NEW t \in Tasks, Unwind(t)
    PROVE  FacadeInv'
<1>1. /\ stack[t] # <<>> /\ raised[t] # None
      /\ UNCHANGED <<side, lockVars>>
  BY DEF Unwind
<1>2. CASE Len(stack[t]) = 1
  <2>1. var' = [var EXCEPT ![t] = None]
    BY <1>2, LastRestored DEF Unwind
  <2>2. Finish(t, raised[t], Top(t).changed)
    BY <1>2 DEF Unwind
  <2>. QED BY <1>1, <2>1, <2>2, FinishKeeps
<1>3. CASE Len(stack[t]) # 1
  <2>1. /\ var' = [var EXCEPT ![t] = Restored(t)]
        /\ UNCHANGED <<side, lockVars, hostVars>>
    BY <1>1, <1>3 DEF Unwind
  <2>2. CASE Caught(Parent(t), raised[t])
    <3>. DEFINE d == 1
                f == [Parent(t) EXCEPT !.pc = @ + d]
    <3>1. BackTo(t, f) /\ raised' = [raised EXCEPT ![t] = None]
      BY <1>3, <2>2 DEF Unwind, Advance, Raise
    <3>2. d \in {1, 2} /\ (d = 2 => StepOf(Parent(t))[1] = "item")
      OBVIOUS
    <3>. HIDE DEF d
    <3>. QED BY <1>1, <1>3, <2>1, <3>1, <3>2, ReturnBelow
  <2>3. CASE ~Caught(Parent(t), raised[t])
    <3>1. BackTo(t, Parent(t)) /\ UNCHANGED raised
      BY <1>3, <2>3 DEF Unwind
    <3>. QED BY <1>1, <1>3, <2>1, <2>3, <3>1, UnwindBelow
  <2>. QED BY <2>2, <2>3
<1>. QED BY <1>2, <1>3

(* A call begins, is dispatched, given up, or loses its host. *)
LEMMA HostMoves ==
    ASSUME FacadeInv, NEW t \in Tasks, side' = side, ready => ready', LockInv',
           NEW h \in Places, host' = [host EXCEPT ![t] = h],
           NEW w \in AllMethods \cup {None}, want' = [want EXCEPT ![t] = w],
           NEW g \in Contexts \cup {None}, given' = [given EXCEPT ![t] = g],
           NEW k \in Nat, hits' = [hits EXCEPT ![t] = k],
           NEW s, stack' = [stack EXCEPT ![t] = s],
           UNCHANGED <<raised, var>>,
           TaskOK(side, s, raised[t], var[t], g),
           h \in {"starting", "queued", "locked"} =>
              s = <<>> /\ w \in AllMethods,
           s = <<>> => raised[t] = None,
           s # <<>> => ready',
           h = "draining" => k > 0,
           h = "idle" /\ s # <<>> => k > 1
    PROVE  FacadeInv'
<1>1. FacadeTypeOK /\ s \in Seq(Frames)
  BY DEF FacadeInv, TaskOK
<1>2. FacadeTypeOK'
  <2>1. host' \in [Tasks -> Places]
    BY <1>1 DEF FacadeTypeOK
  <2>2. want' \in [Tasks -> AllMethods \cup {None}]
    BY <1>1 DEF FacadeTypeOK
  <2>3. given' \in [Tasks -> Contexts \cup {None}]
    BY <1>1 DEF FacadeTypeOK
  <2>4. hits' \in [Tasks -> Nat]
    BY <1>1 DEF FacadeTypeOK
  <2>5. stack' \in [Tasks -> Seq(Frames)]
    BY <1>1 DEF FacadeTypeOK
  <2>. QED BY <1>1, <2>1, <2>2, <2>3, <2>4, <2>5 DEF FacadeTypeOK
<1>3. /\ host'[t] = h /\ want'[t] = w /\ given'[t] = g /\ hits'[t] = k
      /\ stack'[t] = s /\ raised'[t] = raised[t] /\ var'[t] = var[t]
  BY <1>1 DEF FacadeTypeOK
<1>4. \A u \in Tasks \ {t} :
         /\ host'[u] = host[u] /\ want'[u] = want[u]
         /\ given'[u] = given[u] /\ hits'[u] = hits[u]
         /\ stack'[u] = stack[u] /\ raised'[u] = raised[u]
         /\ var'[u] = var[u]
  BY <1>1 DEF FacadeTypeOK
<1>5. TaskInv(t)'
  BY <1>3 DEF TaskInv
<1>6. HostInv(t)'
  BY <1>3 DEF HostInv
<1>. QED BY <1>2, <1>4, <1>5, <1>6, OneTask

LEMMA CallStep ==
    ASSUME FacadeInv, NEW t \in Tasks, NEW m \in Methods[t],
           NEW c \in Contexts \cup {None}, Call(t, m, c)
    PROVE  FacadeInv'
<1>1. /\ stack[t] = <<>>
      /\ host' = [host EXCEPT ![t] = "starting"]
      /\ want' = [want EXCEPT ![t] = m]
      /\ given' = [given EXCEPT ![t] = c]
      /\ hits' = [hits EXCEPT ![t] = 0]
      /\ UNCHANGED <<side, ready, inits, stack, raised, var>>
  BY DEF Call, lockVars, workVars
<1>2. m \in AllMethods
  BY MethodsAssumption
<1>3. TaskInv(t) /\ HostInv(t)
  BY DEF FacadeInv
<1>4. raised[t] = None /\ var[t] = None
  BY <1>1, <1>3, EmptyVariable DEF TaskInv, HostInv
<1>5. TaskOK(side, <<>>, raised[t], var[t], c)
  BY <1>4, EmptyKeeps
<1>6. stack' = [stack EXCEPT ![t] = <<>>]
  BY <1>1, SameEntry
<1>7. LockInv'
  BY <1>1 DEF FacadeInv, LockInv
<1>. QED BY <1>1, <1>2, <1>4, <1>5, <1>6, <1>7, HostMoves DEF Places

LEMMA DispatchStep ==
    ASSUME FacadeInv, NEW t \in Tasks, Dispatch(t)
    PROVE  FacadeInv'
<1>. DEFINE m == want[t]
            g == given[t]
            s == <<Entered(t, m, g)>>
<1>1. /\ host[t] \in {"starting", "locked"} /\ ready
      /\ host' = [host EXCEPT ![t] = "called"]
      /\ stack' = [stack EXCEPT ![t] = s]
      /\ UNCHANGED <<side, ready, inits, want, given, hits, raised, var>>
  BY DEF Dispatch, Recheck
<1>2. TaskInv(t) /\ HostInv(t) /\ FacadeTypeOK
  BY DEF FacadeInv
<1>3. stack[t] = <<>> /\ m \in AllMethods /\ raised[t] = None
  BY <1>1, <1>2 DEF HostInv
<1>4. var[t] = None
  BY <1>2, <1>3, EmptyVariable DEF TaskInv
<1>5. g \in Contexts \cup {None} /\ hits[t] \in Nat
  BY <1>2 DEF FacadeTypeOK
<1>6. Entered(t, m, g) = Frame(m, ContextOf(m, g, None))
  BY <1>4 DEF Entered, Effective, ContextOf
<1>7. TaskOK(side, s, raised[t], var[t], g)
  BY <1>3, <1>4, <1>5, <1>6, StartKeeps
<1>8. LockInv'
  BY <1>1 DEF FacadeInv, LockInv
<1>9. /\ want' = [want EXCEPT ![t] = m] /\ given' = [given EXCEPT ![t] = g]
      /\ hits' = [hits EXCEPT ![t] = hits[t]]
  BY <1>1, SameEntry
<1>10. s # <<>>
  OBVIOUS
<1>. HIDE DEF s, m, g
<1>. QED BY <1>1, <1>3, <1>5, <1>7, <1>8, <1>9, <1>10, HostMoves DEF Places

(* A call that has not begun moves on, waits or is given up: first with the *)
(* entries of the other variables written out, then as the actions say it.  *)
LEMMA StartMovesTo ==
    ASSUME FacadeInv, NEW t \in Tasks,
           host[t] \in {"starting", "queued", "locked"},
           side' = side, ready => ready', LockInv',
           NEW h \in {"idle", "starting", "queued", "locked"},
           host' = [host EXCEPT ![t] = h],
           NEW k \in Nat, hits' = [hits EXCEPT ![t] = k],
           want' = [want EXCEPT ![t] = want[t]],
           given' = [given EXCEPT ![t] = given[t]],
           stack' = [stack EXCEPT ![t] = <<>>],
           UNCHANGED <<raised, var>>
    PROVE  FacadeInv'
<1>1. TaskInv(t) /\ HostInv(t) /\ FacadeTypeOK
  BY DEF FacadeInv
<1>2. stack[t] = <<>> /\ raised[t] = None /\ want[t] \in AllMethods
  BY <1>1 DEF HostInv
<1>. DEFINE w == want[t]
            g == given[t]
            s == <<>>
<1>3. /\ w \in AllMethods \cup {None} /\ g \in Contexts \cup {None}
      /\ TaskOK(side, s, raised[t], var[t], g)
  BY <1>1, <1>2 DEF FacadeTypeOK, TaskInv
<1>4. /\ h \in {"starting", "queued", "locked"} => s = <<>> /\ w \in AllMethods
      /\ s = <<>> => raised[t] = None
      /\ s # <<>> => ready'
      /\ h = "draining" => k > 0
      /\ h = "idle" /\ s # <<>> => k > 1
  BY <1>2
<1>5. h \in Places
  BY DEF Places
<1>6. /\ want' = [want EXCEPT ![t] = w] /\ given' = [given EXCEPT ![t] = g]
      /\ stack' = [stack EXCEPT ![t] = s]
  OBVIOUS
<1>. HIDE DEF w, g, s
<1>. QED BY <1>3, <1>4, <1>5, <1>6, HostMoves

LEMMA StartMoves ==
    ASSUME FacadeInv, NEW t \in Tasks,
           host[t] \in {"starting", "queued", "locked"},
           side' = side, ready => ready', LockInv',
           NEW h \in {"idle", "starting", "queued", "locked"},
           host' = [host EXCEPT ![t] = h],
           hits' = hits \/ hits' = [hits EXCEPT ![t] = @ + 1],
           UNCHANGED <<want, given, stack, raised, var>>
    PROVE  FacadeInv'
<1>1. stack[t] = <<>> /\ hits[t] \in Nat
  BY DEF FacadeInv, HostInv, FacadeTypeOK
<1>2. PICK k \in Nat : hits' = [hits EXCEPT ![t] = k]
  <2>1. CASE hits' = hits
    BY <1>1, <2>1, SameEntry
  <2>2. CASE hits' = [hits EXCEPT ![t] = @ + 1]
    <3>1. hits' = [hits EXCEPT ![t] = hits[t] + 1] /\ hits[t] + 1 \in Nat
      BY <1>1, <2>2
    <3>. QED BY <3>1
  <2>. QED BY <2>1, <2>2
<1>3. /\ want' = [want EXCEPT ![t] = want[t]]
      /\ given' = [given EXCEPT ![t] = given[t]]
      /\ stack' = [stack EXCEPT ![t] = <<>>]
  BY <1>1, SameEntry
<1>. QED BY <1>2, <1>3, StartMovesTo

LEMMA QueueStep ==
    ASSUME FacadeInv, NEW t \in Tasks, Queue(t)
    PROVE  FacadeInv'
<1>1. LockInv'
  BY DEF FacadeInv, LockInv, Queue, lockVars
<1>. QED BY <1>1, StartMoves DEF Queue, lockVars, workVars

LEMMA LockStep ==
    ASSUME FacadeInv, NEW t \in Tasks, Lock(t)
    PROVE  FacadeInv'
<1>1. LockInv'
  BY DEF FacadeInv, LockInv, Lock
<1>. QED BY <1>1, StartMoves DEF Lock, workVars

LEMMA InitializeStep ==
    ASSUME FacadeInv, NEW t \in Tasks, Initialize(t)
    PROVE  FacadeInv'
<1>1. host[t] = "locked" /\ ~ready
  BY DEF Initialize, Recheck
<1>2. side # "sync" /\ inits = 0
  BY <1>1 DEF FacadeInv, LockInv
<1>3. PICK succeeds \in BOOLEAN :
         /\ inits' = IF succeeds THEN inits + 1 ELSE inits
         /\ ready' = succeeds
         /\ host' = [host EXCEPT ![t] = IF succeeds THEN "starting"
                                                    ELSE "idle"]
  BY DEF Initialize, Initialized, GiveUp
<1>4. UNCHANGED <<side, want, given, hits, stack, raised, var>>
  BY DEF Initialize, workVars
<1>5. LockInv'
  BY <1>1, <1>2, <1>3, <1>4 DEF FacadeInv, LockInv
<1>. QED BY <1>1, <1>3, <1>4, <1>5, StartMoves

LEMMA CancelStartStep ==
    ASSUME FacadeInv, NEW t \in Tasks, CancelStart(t)
    PROVE  FacadeInv'
<1>1. LockInv'
  BY DEF FacadeInv, LockInv, CancelStart
<1>. QED BY <1>1, StartMoves DEF CancelStart, Hit, GiveUp, workVars

LEMMA CancelCompatStep ==
    ASSUME FacadeInv, NEW t \in Tasks, CancelCompat(t)
    PROVE  FacadeInv'
<1>. DEFINE h == IF Shielded(t) THEN "draining" ELSE "idle"
            k == hits[t] + 1
<1>1. /\ host[t] \in {"called", "draining"} /\ stack[t] # <<>>
      /\ host' = [host EXCEPT ![t] = h]
      /\ hits' = [hits EXCEPT ![t] = @ + 1]
      /\ UNCHANGED <<side, ready, inits, want, given, stack, raised, var>>
  BY DEF CancelCompat, Hit, lockVars, workVars
<1>2. TaskInv(t) /\ HostInv(t) /\ FacadeTypeOK
  BY DEF FacadeInv
<1>3. /\ hits[t] \in Nat /\ given[t] \in Contexts \cup {None}
      /\ want[t] \in AllMethods \cup {None}
  BY <1>2 DEF FacadeTypeOK
<1>4. /\ k \in Nat /\ k > 0 /\ (h = "idle" => k > 1)
      /\ h \in {"draining", "idle"}
  BY <1>1, <1>2, <1>3 DEF Shielded, HostInv
<1>5. ready'
  BY <1>1, <1>2 DEF HostInv
<1>6. LockInv'
  BY <1>1 DEF FacadeInv, LockInv
<1>7. /\ want' = [want EXCEPT ![t] = want[t]]
      /\ given' = [given EXCEPT ![t] = given[t]]
      /\ stack' = [stack EXCEPT ![t] = stack[t]]
      /\ hits' = [hits EXCEPT ![t] = k]
  BY <1>1, SameEntry
<1>8. TaskOK(side, stack[t], raised[t], var[t], given[t])
  BY <1>2 DEF TaskInv
<1>9. h \in Places /\ h \notin {"starting", "queued", "locked"}
  BY <1>4 DEF Places
<1>. DEFINE s == stack[t]
            w == want[t]
            g == given[t]
<1>10. /\ UNCHANGED <<side, raised, var>>
       /\ host' = [host EXCEPT ![t] = h] /\ want' = [want EXCEPT ![t] = w]
       /\ given' = [given EXCEPT ![t] = g] /\ hits' = [hits EXCEPT ![t] = k]
       /\ stack' = [stack EXCEPT ![t] = s] /\ s # <<>>
       /\ TaskOK(side, s, raised[t], var[t], g)
       /\ w \in AllMethods \cup {None} /\ g \in Contexts \cup {None}
  BY <1>1, <1>3, <1>7, <1>8
<1>. HIDE DEF h, k, s, w, g
<1>. QED BY <1>4, <1>5, <1>6, <1>9, <1>10, HostMoves

-----------------------------------------------------------------------------
(* The invariant holds *)

LEMMA InitInv == Init => FacadeInv
<1>. SUFFICES ASSUME Init PROVE FacadeInv
  OBVIOUS
<1>1. <<>> \in Seq(Frames)
  BY EmptySeq
<1>2. FacadeTypeOK
  <2>1. "idle" \in Places
    BY DEF Places
  <2>. QED BY <1>1, <2>1 DEF Init, FacadeTypeOK
<1>3. LockInv
  BY DEF Init, LockInv
<1>4. ASSUME NEW t \in Tasks
      PROVE  TaskInv(t) /\ HostInv(t)
  <2>1. /\ stack[t] = <<>> /\ raised[t] = None /\ var[t] = None
        /\ given[t] = None /\ host[t] = "idle"
    BY DEF Init
  <2>2. TaskInv(t)
    BY <2>1, EmptyKeeps DEF TaskInv
  <2>. QED BY <2>1, <2>2 DEF HostInv
<1>. QED BY <1>2, <1>3, <1>4 DEF FacadeInv

LEMMA NextKeeps ==
    ASSUME FacadeInv, [Next]_vars
    PROVE  FacadeInv'
<1>1. CASE UNCHANGED vars
  BY <1>1 DEF vars, lockVars, hostVars, workVars, FacadeInv, FacadeTypeOK,
              LockInv, TaskInv, HostInv
<1>2. CASE Next
  <2>1. PICK t \in Tasks :
           \/ \E m \in Methods[t], c \in Contexts \cup {None} : Call(t, m, c)
           \/ TaskStep(t)
           \/ Cancel(t)
    BY <1>2 DEF Next
  <2>2. CASE \E m \in Methods[t], c \in Contexts \cup {None} : Call(t, m, c)
    BY <2>2, CallStep
  <2>3. CASE TaskStep(t)
    BY <2>3, DispatchStep, QueueStep, LockStep, InitializeStep, AskStep,
       WorkStep, ReviewStep, EnterStep, AuditStep, SetStep, ResetStep,
       OpenStep, CloseStep, ReturnStep, UnwindStep DEF TaskStep
  <2>4. CASE Cancel(t)
    BY <2>4, CancelStartStep, CancelNativeStep, CancelCompatStep DEF Cancel
  <2>. QED BY <2>1, <2>2, <2>3, <2>4
<1>. QED BY <1>1, <1>2

(***************************************************************************)
(* Every method under way stands in its program, holds the token of the    *)
(* variable it has set, and has noted what it changed; every call is where *)
(* its host, the lock and the variable say it is.                          *)
(***************************************************************************)
THEOREM FacadeInvariant == Spec => []FacadeInv
<1>1. Init => FacadeInv
  BY InitInv
<1>2. FacadeInv /\ [Next]_vars => FacadeInv'
  BY NextKeeps
<1>. QED BY <1>1, <1>2, PTL DEF Spec

-----------------------------------------------------------------------------
(* The properties *)

(* The top frame of a task. *)
LEMMA TopFrame ==
    ASSUME FacadeInv, NEW t \in Tasks, stack[t] # <<>>
    PROVE  /\ TaskOK(side, stack[t], raised[t], var[t], given[t])
           /\ Len(stack[t]) \in 1 .. Len(stack[t])
           /\ Top(t) = stack[t][Len(stack[t])]
<1>1. TaskOK(side, stack[t], raised[t], var[t], given[t])
  BY DEF FacadeInv, TaskInv
<1>2. stack[t] \in Seq(Frames)
  BY <1>1 DEF TaskOK
<1>. QED BY <1>1, <1>2, Fronted DEF Top

(***************************************************************************)
(* However deep in a recovery the policy is asked, it is asked with the    *)
(* context the host gave (_recovery_access_context, per thread and task).  *)
(***************************************************************************)
THEOREM ContextIsCallers == Spec => []AskedWithOwnContext
<1>1. FacadeInv => AskedWithOwnContext
  <2>. SUFFICES ASSUME FacadeInv, NEW t \in Tasks, At(t, {"ask"})
                PROVE  Effective(t, Top(t).context) = given[t]
    BY DEF AskedWithOwnContext
  <2>. DEFINE s == stack[t]
              n == Len(s)
              g == given[t]
  <2>1. s # <<>>
    BY DEF At, Running
  <2>2. /\ TaskOK(side, s, raised[t], var[t], g) /\ n \in 1 .. n
        /\ Top(t) = s[n]
    BY <2>1, TopFrame
  <2>. HIDE DEF s, n, g
  <2>3. /\ var[t] = ValueAt(s, n, g)
        /\ \/ s[n].context = g
           \/ s[n].context = None /\ n > 1 /\ s[n - 1].token # Unset
    BY <2>2 DEF TaskOK, TokensOK, ContextsOK, n
  <2>4. CASE s[n].context = g
    <3>1. ValueAt(s, n, g) \in {g, None}
      BY DEF ValueAt
    <3>. QED BY <2>2, <2>3, <2>4, <3>1 DEF Effective, g
  <2>5. CASE s[n].context = None /\ n > 1 /\ s[n - 1].token # Unset
    <3>1. n - 1 \in 1 .. n
      BY <2>2, <2>5
    <3>2. ValueAt(s, n, g) = g
      BY <2>5, <3>1 DEF ValueAt
    <3>. QED BY <2>2, <2>3, <2>5, <3>2 DEF Effective, g
  <2>. QED BY <2>3, <2>4, <2>5
<1>. QED BY <1>1, FacadeInvariant, PTL

(***************************************************************************)
(* No failure and no refusal ends a batch between its first item and the   *)
(* reset of the variable (_reconcile_item catches both).                   *)
(***************************************************************************)
THEOREM BatchContinues == Spec => []BatchGoesOn
<1>1. FacadeInv => BatchGoesOn
  BY TopFrame DEF BatchGoesOn, TaskOK, BatchOK
<1>. QED BY <1>1, FacadeInvariant, PTL

(***************************************************************************)
(* A repair whose audit event says applied has written, at any depth of a  *)
(* batch and whatever fails or is cancelled after it                     *)
(* (_emit_recovery_audit).                                               *)
(***************************************************************************)
THEOREM AuditTruthful == Spec => []AuditTellsApplied
<1>1. FacadeInv => AuditTellsApplied
  <2>. SUFFICES ASSUME FacadeInv, NEW t \in Tasks, NEW i \in DOMAIN stack[t],
                       stack[t][i].audit = "applied"
                PROVE  stack[t][i].changed
    BY DEF AuditTellsApplied
  <2>1. TaskOK(side, stack[t], raised[t], var[t], given[t])
        /\ stack[t] \in Seq(Frames)
    BY DEF FacadeInv, TaskInv, TaskOK
  <2>2. i \in 1 .. Len(stack[t])
    BY <2>1
  <2>. QED BY <2>1, <2>2 DEF TaskOK, FrameOK
<1>. QED BY <1>1, FacadeInvariant, PTL

(***************************************************************************)
(* The callback of the lazy initialisation completes at most once, and no  *)
(* method of an asynchronous SDK is entered before (initialize).           *)
(***************************************************************************)
THEOREM InitializedOnce == Spec => []InitOnce
<1>1. FacadeInv => InitOnce
  BY DEF FacadeInv, LockInv, HostInv, InitOnce
<1>. QED BY <1>1, FacadeInvariant, PTL

(***************************************************************************)
(* A worker that outlives its call was cancelled twice (_run_blocking).    *)
(***************************************************************************)
THEOREM CancelledWaits == Spec => []CancelWaits
<1>1. FacadeInv => CancelWaits
  BY DEF FacadeInv, HostInv, CancelWaits
<1>. QED BY <1>1, FacadeInvariant, PTL

(***************************************************************************)
(* What is refused has changed nothing, but for a repair that the          *)
(* synchronous SDK inspects once more when it is done (_apply).            *)
(***************************************************************************)
THEOREM RefusedFirst == Spec => []RefusalComesFirst
<1>1. FacadeInv => RefusalComesFirst
  <2>. SUFFICES ASSUME FacadeInv, NEW t \in Tasks, Len(stack[t]) = 1,
                       raised[t] = "denied", Top(t).changed
                PROVE  side # "native" /\ Top(t).method \in Repairs
    BY DEF RefusalComesFirst
  <2>1. stack[t] # <<>>
    BY LastRestored
  <2>2. AsksAgain(side, Top(t).method)
    BY <2>1, TopFrame DEF TaskOK, QuietOK
  <2>. QED BY <2>2 DEF AsksAgain
<1>. QED BY <1>1, FacadeInvariant, PTL
=============================================================================
