------------------------------- MODULE MCPages -------------------------------
(***************************************************************************)
(* Four rows and one id to come, in two partitions.  Ids are numbered as   *)
(* str(id) sorts, so 0 stands for "10", which sorts before "7" .. "9".     *)
(***************************************************************************)
EXTENDS DocumentPages

MCDocuments == {0, 7, 8, 9}
MCTimes == {1, 2}
MCLimits == {0, 1, 2}

(* The reader's partition holds three rows, one of them perhaps deleted;   *)
(* the fourth row is the other partition's, or is still to come.           *)
MCRows ==
    {r \in [MCDocuments -> Row] :
        /\ \A d \in {7, 8, 9} : r[d].partition = "own"
        /\ \A d \in {7, 9} : r[d].status \in {"AVAILABLE", "FAILED"}
        /\ \/ r[8].status \in {"AVAILABLE", "FAILED"}
           \/ r[8].status = "DELETED" /\ r[7].status = r[9].status
        /\ r[7].created <= r[8].created /\ r[8].created <= r[9].created
        /\ r[0].created = 1
        /\ \/ r[0].status = "NotYet" /\ r[0].partition = "own"
           \/ r[0].status = "FAILED" /\ r[0].partition = "other"}

(* The synchronous walks are the native ones without their cancellations:  *)
(* a few are enough.  UPLOADED is a status no row has.                     *)
MCListings == {l \in Listing : /\ l.partition = "own"
                               /\ l.status \notin {"AVAILABLE", "UPLOADED"}
                               /\ l.limit = 0 \/ ~l.native => l.status = "FAILED"
                               /\ l.status = "DELETED" =>
                                     l.kind = "documents" /\ l.limit = 1}

MCSpec == InitFrom(MCRows, MCListings) /\ [][Next]_vars
=============================================================================
