----------------------------- MODULE MCDocument -----------------------------
(* Library and requests for the runs of the document services. *)
EXTENDS AsyncDocumentService

CONSTANTS p1, p2, f1, x1, x2

Registered(p, x) == [part |-> p, file |-> f1, content |-> x,
                     status |-> "available"]

(* Documents 1 and 2, in different partitions. *)
TwoDocuments == <<Registered(p1, x1), Registered(p2, x2)>>

(* Deletions and reads of document 1, and a request from a partition that  *)
(* does not hold the document.                                             *)
SharedRequests ==
    [op : {"soft", "hard", "content"}, doc : {1}, part : {p1}]
       \cup {[op |-> "hard", doc |-> 2, part |-> p1]}

=============================================================================
