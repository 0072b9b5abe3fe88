------------------------------ MODULE MCUpload ------------------------------
(* Request sets and symmetry for the model-checking runs of UploadService. *)
EXTENDS UploadRegistry, TLC

CONSTANTS p1, p2, f1, x1, x2, k1

Req(kind, p, x, d, k, input) ==
    [kind |-> kind, part |-> p, file |-> f1, content |-> x,
     doc |-> d, key |-> k, input |-> input]

(* Identifiers are allocated: a keyed request, the same key with another   *)
(* content, the same key in another partition, a stream that ends early.   *)
AllocatedRequests ==
    {Req("bytes", p1, x1, None, k1, "good"),
     Req("bytes", p1, x2, None, k1, "good"),
     Req("bytes", p2, x1, None, k1, "good"),
     Req("bytes", p1, x1, None, None, "invalid"),
     Req("stream", p1, x2, None, None, "good"),
     Req("stream", p1, x1, None, None, "short")}

(* One keyed request, retried; the key used for another content, and with  *)
(* an identifier of the host.                                              *)
RetriedRequests == {Req("bytes", p1, x1, None, k1, "good"),
                    Req("bytes", p1, x2, None, k1, "good"),
                    Req("bytes", p1, x1, 1, k1, "good")}

(* Two plain registrations under one identifier and one storage key. *)
ContendingRequests == {Req("bytes", p1, x1, 1, None, "good")}

Symmetry == Permutations(Callers)
=============================================================================
