------------------------------- MODULE Registry -------------------------------
(***************************************************************************)
(* What a registration promises its host, without stores, claims, marks    *)
(* and clean-up (upload_document and upload_document_stream of             *)
(* sdk/upload.py): a document is registered at once, at most one for each  *)
(* request and for each operation key, it stays as it was registered, and  *)
(* an answer names the document of that request or of that key.  A request *)
(* may fail at any time, before or after it has registered its document.   *)
(***************************************************************************)
CONSTANTS Callers, Requests, Ids, Keys, None

VARIABLES
    rows,       \* rows[d]: what is registered as document d, or None
    given,      \* given[k]: the documents registered for operation key k
    asked,      \* asked[c]: the request c has made last
    phase,      \* phase[c]: its request is "open", "closing" (it registers
                \* nothing any more) or "idle"
    told        \* told[c]: the document or failure c was answered with

(* What a caller has been told. *)
Nothing == <<>>
Failure == <<"error">>
Document(d) == <<"document", d>>

vars == <<rows, given, asked, phase, told>>

Described(r) == [part |-> r.part, file |-> r.file, content |-> r.content]

Keyed(r) == r.key # None

OpKey(r) == <<r.part, r.key>>

Init ==
    /\ rows = [d \in Ids |-> None]
    /\ given = [k \in Keys |-> {}]
    /\ asked = [c \in Callers |-> None]
    /\ phase = [c \in Callers |-> "idle"]
    /\ told = [c \in Callers |-> Nothing]

-----------------------------------------------------------------------------

Move(c, p, t) ==
    /\ phase' = [phase EXCEPT ![c] = p]
    /\ told' = [told EXCEPT ![c] = t]

Ask(c, r) ==
    /\ phase[c] = "idle"
    /\ asked' = [asked EXCEPT ![c] = r]
    /\ \/ Move(c, "open", Nothing)
       \/ r.input = "invalid" /\ Move(c, "idle", Failure)
    /\ UNCHANGED <<rows, given>>

(* The document a request may register: a new one, of the identifier it    *)
(* asks for, and the only one of its key.                                  *)
MayRegister(r, d) ==
    /\ r.input = "good"
    /\ r.doc # None => d = r.doc
    /\ rows[d] = None
    /\ Keyed(r) => given[OpKey(r)] \subseteq {d}

Register(c, d) ==
    /\ phase[c] = "open"
    /\ MayRegister(asked[c], d)
    /\ rows' = [rows EXCEPT ![d] = Described(asked[c])]
    /\ given' = IF Keyed(asked[c])
                  THEN [given EXCEPT ![OpKey(asked[c])] = {d}] ELSE given
    /\ \/ Move(c, "closing", Nothing)
       \/ ~Keyed(asked[c]) /\ Move(c, "idle", Document(d))
    /\ UNCHANGED asked

GiveUp(c) ==
    /\ phase[c] = "open"
    /\ Move(c, "closing", Nothing)
    /\ UNCHANGED <<rows, given, asked>>

(* A keyed request is answered with the document of its key.               *)
Answer(c, d) ==
    /\ phase[c] # "idle"
    /\ Keyed(asked[c])
    /\ given[OpKey(asked[c])] = {d}
    /\ rows[d] = Described(asked[c])
    /\ Move(c, "idle", Document(d))
    /\ UNCHANGED <<rows, given, asked>>

Fail(c) ==
    /\ phase[c] # "idle"
    /\ Move(c, "idle", Failure)
    /\ UNCHANGED <<rows, given, asked>>

Next ==
    \E c \in Callers :
       \/ \E r \in Requests : Ask(c, r)
       \/ \E d \in Ids : Register(c, d) \/ Answer(c, d)
       \/ GiveUp(c) \/ Fail(c)

Spec == Init /\ [][Next]_vars
=============================================================================
