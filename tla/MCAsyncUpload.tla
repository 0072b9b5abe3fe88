---------------------------- MODULE MCAsyncUpload ----------------------------
(* Request sets for the model-checking runs of AsyncUploadService. *)
EXTENDS AsyncUploadService

CONSTANTS p1, f1, x1, x2, k1

Req(kind, x, d, k, input) ==
    [kind |-> kind, part |-> p1, file |-> f1, content |-> x,
     doc |-> d, key |-> k, input |-> input]

Keyed1 == Req("bytes", x1, None, k1, "good")

(* One keyed request, retried; the key used for another content, and with  *)
(* an identifier of the host; a stream that ends before its declared size. *)
RetriedRequests == {Keyed1,
                    Req("bytes", x2, None, k1, "good"),
                    Req("bytes", x1, 3, k1, "good"),
                    Req("stream", x1, None, None, "short")}

=============================================================================
