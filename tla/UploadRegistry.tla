---------------------------- MODULE UploadRegistry ----------------------------
(***************************************************************************)
(* The upload service implements the registry: the refinement mapping.     *)
(***************************************************************************)
EXTENDS UploadService

Registered(d) ==
    IF meta[d] = None THEN None
    ELSE [part |-> meta[d].part, file |-> meta[d].file,
          content |-> meta[d].content]

(* After save() a request registers nothing more.                          *)
Phase(c) ==
    IF upc[c] = "idle" THEN "idle"
    ELSE IF upc[c] \in {"rollback", "mark_succeeded", "mark_failed"}
           THEN "closing" ELSE "open"

Answered(c) ==
    IF upc[c] # "idle" \/ uout[c] = "None" THEN <<>>
    ELSE IF uout[c] \in {"Created", "Replayed"} THEN <<"document", udoc[c]>>
    ELSE <<"error">>

Abstract == INSTANCE Registry WITH
    Ids <- DocIds,
    Keys <- OpKeys,
    rows <- [d \in DocIds |-> Registered(d)],
    given <- [k \in OpKeys |-> {d \in DocIds : <<k, d>> \in settled}],
    asked <- ureq,
    phase <- [c \in Callers |-> Phase(c)],
    told <- [c \in Callers |-> Answered(c)]

(***************************************************************************)
(* Every registration, with its claims, retries, failures, lost replies,   *)
(* crashes and clean-up, is a registration of the abstract registry: the   *)
(* row appears in one step, once per request and key, nothing of another   *)
(* caller takes it back, and the answer names it.                          *)
(***************************************************************************)
ImplementsRegistry == Abstract!Spec
=============================================================================
