-------------------------------- MODULE MCDms --------------------------------
(* Libraries, requests and symmetry for the runs of the whole system. *)
EXTENDS Dms

CONSTANTS p1, p2, f1, x1, x2, k1

NoDocuments == <<>>

Registered(p, x) == [part |-> p, file |-> f1, content |-> x,
                     status |-> "available"]

TwoDocuments == <<Registered(p1, x1), Registered(p2, x2)>>

Upload(p, x, d, k) ==
    [kind |-> "bytes", part |-> p, file |-> f1, content |-> x,
     doc |-> d, key |-> k, input |-> "good"]

(* Allocated identifiers, no keys, two partitions. *)
PlainUploads == {Upload(p1, x1, None, None), Upload(p2, x2, None, None)}

PlainUpload == {Upload(p1, x1, None, None)}

KeyedUpload == {Upload(p1, x1, None, k1)}

Ask(op, d, p) == [op |-> op, doc |-> d, part |-> p]

(* Deletions of documents 1 and 2 from the first partition, whichever      *)
(* partition they are in.                                                  *)
Deletions == [op : {"soft", "hard"}, doc : {1, 2}, part : {p1}]

OneDeletion == {Ask("soft", 1, p1), Ask("hard", 1, p1)}

One(action, d, p, key, dry) ==
    [action |-> action, part |-> p, docs |-> {d}, status |-> None,
     key |-> key, dry |-> dry]

Batch(action, status, dry) ==
    [action |-> action, part |-> p1, docs |-> {}, status |-> status,
     key |-> None, dry |-> dry]

(* Repairs of document 1, one by one, by status, and as a preview; and     *)
(* from a partition that does not hold the document.                       *)
Repairs ==
    {One(a, 1, p1, None, FALSE) :
        a \in {"complete_soft", "complete_hard", "mark_failed"}}
    \cup {Batch("complete_hard", "deleting", FALSE),
          Batch("complete_soft", "failed", FALSE),
          One("complete_hard", 1, p1, None, TRUE),
          One("complete_hard", 2, p1, None, FALSE),
          One("purge", 1, p1, <<p1, 1, f1>>, FALSE),
          One("purge", 2, p1, <<p2, 2, f1>>, FALSE)}

PurgeOfUploads ==
    {One("purge", d, p1, <<p1, d, f1>>, FALSE) : d \in 1 .. 2}
    \cup {One("purge", 1, p1, <<p1, 1, f1>>, TRUE)}

PurgeOfOne == {One("purge", 1, p1, <<p1, 1, f1>>, FALSE)}

Nothing == {}

OneScope == {{p1}}

BothScopes == {{p1}, {p1, p2}}

(* Two requests in a behaviour: two repairs, or a repair and a reset.      *)
TwoRecoveries == DmsInit /\ rcalls + scalls = 2

RecoverySpec == TwoRecoveries /\ [][DmsNext]_dmsVars
=============================================================================
