---------------------------- MODULE DocumentPages ----------------------------
(***************************************************************************)
(* Listing, page by page, while the table changes between the pages: the   *)
(* public listing under a cursor (list_page, iter_documents) and the       *)
(* recovery candidates by offset (list_internal,                           *)
(* iter_recovery_candidates), each from the synchronous or from the        *)
(* asynchronous SDK.                                                       *)
(*                                                                         *)
(* One reader walks one listing; other callers insert rows, change their   *)
(* status (a repair of what the reader was given is one of these) and      *)
(* remove them.  A page is the set of its rows: the order inside it is     *)
(* Precedes.                                                               *)
(***************************************************************************)
EXTENDS Integers, FiniteSets

CONSTANTS
    Documents,      \* document ids, in the order str(id) has in the database
    Times,          \* values of created_at: two rows may share one
    Partitions,
    Limits,         \* page sizes the reader asks for, 0 among them
    MaxPageLimit,   \* _MAX_PAGE_LIMIT
    MaxChanges,     \* bound: changes other callers make during the walk
    MaxFaults       \* bound: failing statements

ASSUME PagesAssumption ==
    /\ Documents \subseteq Int /\ IsFiniteSet(Documents)
    /\ Times \subseteq Int
    /\ Limits \subseteq Int
    /\ MaxPageLimit \in Nat
    /\ MaxChanges \in Nat
    /\ MaxFaults \in Nat

VARIABLES
    rows,       \* the document table: one record for each id
    listing,    \* what the reader asked for
    reader,     \* where it is: its state, cursor, offset and what it was given
    seen,       \* what the properties remember: the rows listed all along, how
                \* many rows left and entered the listing, how many came twice
    budget      \* changes and failures still allowed

vars == <<rows, listing, reader, seen, budget>>

-----------------------------------------------------------------------------
(* Rows.  "NotYet" and "Purged" mark ids without a row; an id is registered *)
(* once in a walk.  A softly deleted document keeps its row, as DELETED.   *)

DocumentStatus == {"UPLOADED", "AVAILABLE", "DELETING", "DELETED", "FAILED"}
AnyStatus == "None"

(* Mutant: only a deletion under way hides a document. *)
PublicExcluded_DeletingOnly == {"DELETING"}

PublicExcluded == {"DELETING", "DELETED"}

Row == [created: Times, partition: Partitions,
        status: DocumentStatus \union {"NotYet", "Purged"}]

Present(d) == rows[d].status \in DocumentStatus

(* The WHERE clause every listing starts from. *)
MetadataStatement(partition, status, excluded) ==
    {d \in Documents : /\ Present(d)
                       /\ rows[d].partition = partition
                       /\ status # AnyStatus => rows[d].status = status
                       /\ rows[d].status \notin excluded}

(* ORDER BY created_at DESC, document_id DESC *)
Precedes(d, e) == \/ rows[d].created > rows[e].created
                  \/ rows[d].created = rows[e].created /\ d > e

Position(d, S) == Cardinality({e \in S : Precedes(e, d)})

(* OFFSET offset LIMIT limit *)
ListMetadata(S, offset, limit) ==
    {d \in S : Position(d, S) \in offset .. (offset + limit - 1)}

-----------------------------------------------------------------------------
(* Cursors *)

NoCursor == [none |-> TRUE]
Garbage == [garbled |-> TRUE]

Cursor == [created: Times, id: Documents, status: DocumentStatus \union {AnyStatus},
           limit: Limits, partition: Partitions]

EncodeCursor(d) ==
    [created |-> rows[d].created, id |-> d, status |-> listing.status,
     limit |-> listing.limit, partition |-> listing.partition]

(* What decode_cursor lets through *)
DecodeCursor(c) == c # Garbage

(* The comparison of a decoded cursor with the request *)
SameListing(c) ==
    /\ c.status = listing.status
    /\ c.limit = listing.limit
    /\ c.partition = listing.partition

CursorAccepted(c) ==
    IF c = NoCursor THEN TRUE ELSE DecodeCursor(c) /\ SameListing(c)

(* Mutant: <= for <: the page starts again with the cursor's row. *)
After_Inclusive(d, c) == \/ rows[d].created < c.created
                         \/ rows[d].created = c.created /\ d <= c.id

(* The keyset condition: strictly after the cursor's row *)
After(d, c) == \/ rows[d].created < c.created
               \/ rows[d].created = c.created /\ d < c.id

(* Mutant: limit rows fetched: a full last page cannot be told from a middle one. *)
ListMetadataPage_NoExtraRow(S, c, limit) ==
    LET rest == IF c = NoCursor THEN S ELSE {d \in S : After(d, c)}
    IN  ListMetadata(rest, 0, limit - 1)

ListMetadataPage(S, c, limit) ==
    LET rest == IF c = NoCursor THEN S ELSE {d \in S : After(d, c)}
    IN  ListMetadata(rest, 0, limit)

ValidatePublicStatus(status) == status \notin PublicExcluded

-----------------------------------------------------------------------------
(* The reader *)

Listing == [kind: {"documents", "recovery"}, native: BOOLEAN, limit: Limits,
            status: DocumentStatus \union {AnyStatus}, partition: Partitions]

(* The rows the listing is about. *)
Members ==
    MetadataStatement(listing.partition, listing.status,
                      IF listing.kind = "documents" THEN PublicExcluded ELSE {})

Walking(kind) == reader.state = "walking" /\ listing.kind = kind

EndWalk(state) ==
    /\ reader' = [reader EXCEPT !.state = state]
    /\ UNCHANGED <<rows, listing, seen>>

(* Repetitions are counted up to MaxChanges + 1. *)
Give(items, state, cursor, offset) ==
    /\ reader' = [state |-> state, cursor |-> cursor, offset |-> offset,
                  given |-> reader.given \union items]
    /\ LET n == seen.twice + Cardinality(reader.given \intersect items)
       IN  seen' = [seen EXCEPT !.twice = IF n <= MaxChanges THEN n ELSE MaxChanges + 1]
    /\ UNCHANGED <<rows, listing>>

(* A failing statement reaches the reader as MetadataStoreError. *)
StatementFails ==
    /\ budget.faults > 0
    /\ budget' = [budget EXCEPT !.faults = @ - 1]
    /\ EndWalk("failed")

(* list_page: limit + 1 rows are fetched to learn whether there are more. *)
ListPage(c) ==
    LET valid == /\ ValidatePublicStatus(listing.status)
                 /\ listing.limit \in 1 .. MaxPageLimit
                 /\ CursorAccepted(c)
        fetched == ListMetadataPage(Members, c, listing.limit + 1)
        hasMore == Cardinality(fetched) > listing.limit
        items == ListMetadata(fetched, 0, listing.limit)
        last == CHOOSE d \in items : \A e \in items : e = d \/ Precedes(e, d)
    IN  \/ ~valid /\ EndWalk("refused") /\ UNCHANGED budget
        \/ valid /\ StatementFails
        \/ /\ valid
           /\ IF hasMore
              THEN Give(items, "walking", EncodeCursor(last), reader.offset)
              ELSE Give(items, "done", NoCursor, reader.offset)
           /\ UNCHANGED budget

(* iter_documents hands each page's cursor to the next request. *)
IterDocuments == Walking("documents") /\ ListPage(reader.cursor)

Foreign == {c \in Cursor : /\ ValidatePublicStatus(c.status)
                           /\ <<c.partition, c.status, c.limit>> #
                              <<listing.partition, listing.status, listing.limit>>}

(* A caller that pages by hand may confuse its cursors: one of another     *)
(* listing, or one that was cut short.                                     *)
ForeignCursor ==
    /\ Walking("documents")
    /\ \E c \in Foreign \union {Garbage} : ListPage(c)

ValidateRecoveryPage ==
    /\ listing.status \in {"FAILED", "DELETING"}
    /\ reader.offset >= 0
    /\ listing.limit \in 1 .. MaxPageLimit

(* Mutant: the next page starts where this one ended, plus one. *)
ServeCandidates_OneTooFar(items) ==
    LET n == Cardinality(items)
    IN  IF n < listing.limit
        THEN Give(items, "done", NoCursor, reader.offset)
        ELSE Give(items, "walking", NoCursor, reader.offset + n + 1)

(* A short page is the last one; else the offset moves past the page. *)
ServeCandidates(items) ==
    LET n == Cardinality(items)
    IN  IF n < listing.limit
        THEN Give(items, "done", NoCursor, reader.offset)
        ELSE Give(items, "walking", NoCursor, reader.offset + n)

(* list_recovery_candidates and list_internal *)
ListInternal ==
    \/ ~ValidateRecoveryPage /\ EndWalk("refused") /\ UNCHANGED budget
    \/ ValidateRecoveryPage /\ StatementFails
    \/ /\ ValidateRecoveryPage
       /\ ServeCandidates(ListMetadata(Members, reader.offset, listing.limit))
       /\ UNCHANGED budget

IterRecoveryCandidates ==
    Walking("recovery") /\ ListInternal

(* The awaitable listings run the same requests: the task may be cancelled *)
(* while the statement is under way, and then nothing of the page is kept. *)
CutSelect ==
    /\ listing.native
    /\ EndWalk("cancelled")
    /\ UNCHANGED budget

AsyncListPage(c) == ListPage(c) \/ CutSelect

AsyncListInternal == ListInternal \/ CutSelect

AsyncIterDocuments ==
    Walking("documents") /\ listing.native /\ AsyncListPage(reader.cursor)

AsyncIterRecoveryCandidates ==
    Walking("recovery") /\ listing.native /\ AsyncListInternal

-----------------------------------------------------------------------------
(* The other callers *)

Change(new) ==
    /\ reader.state = "walking"
    /\ budget.changes > 0
    /\ budget' = [budget EXCEPT !.changes = @ - 1]
    /\ rows' = new
    /\ UNCHANGED <<listing, reader>>
    /\ seen' = [seen EXCEPT !.steady = @ \intersect Members',
                            !.left = @ + Cardinality(Members \ Members'),
                            !.came = @ + Cardinality(Members' \ Members)]

(* save_metadata: created_at was read before the insert, so the new row    *)
(* need not be the newest.                                                 *)
SaveMetadata(d, t) ==
    /\ rows[d].status = "NotYet"
    /\ \E p \in Partitions :
           Change([rows EXCEPT ![d] = [created |-> t, partition |-> p,
                                       status |-> "AVAILABLE"]])

(* What deletions, failure marks and repairs write; nothing writes UPLOADED. *)
WrittenStatus == DocumentStatus \ {"UPLOADED"}

(* update_metadata, mark_deleted *)
UpdateMetadata(d, s) ==
    /\ Present(d) /\ rows[d].status # s
    /\ Change([rows EXCEPT ![d].status = s])

HardDelete(d) ==
    /\ Present(d)
    /\ Change([rows EXCEPT ![d].status = "Purged"])

-----------------------------------------------------------------------------
InitFrom(initialRows, listings) ==
    /\ rows \in initialRows
    /\ listing \in listings
    /\ reader = [state |-> "walking", cursor |-> NoCursor, offset |-> 0, given |-> {}]
    /\ seen = [steady |-> Members, left |-> 0, came |-> 0, twice |-> 0]
    /\ budget = [changes |-> MaxChanges, faults |-> MaxFaults]

Init == InitFrom([Documents -> Row], Listing)

NextPage == \/ IterDocuments
            \/ IterRecoveryCandidates
            \/ AsyncIterDocuments
            \/ AsyncIterRecoveryCandidates

Next ==
    \/ NextPage
    \/ ForeignCursor
    \/ \E d \in Documents, t \in Times : SaveMetadata(d, t)
    \/ \E d \in Documents, s \in WrittenStatus : UpdateMetadata(d, s)
    \/ \E d \in Documents : HardDelete(d)

Spec == Init /\ [][Next]_vars

-----------------------------------------------------------------------------
(* Properties *)

(* list_page, list_metadata_page: whatever is inserted, repaired or purged *)
(* between the pages, a row that stayed listed all along and sorts up to   *)
(* the cursor was given already, and all of them when the walk is done:    *)
(* equal times, a page filled to its limit and the last row of a page lose *)
(* nothing (SRS-GET-007).                                                  *)
CursorSkipsNothing ==
    listing.kind = "documents" =>
        /\ reader.state = "done" => seen.steady \subseteq reader.given
        /\ reader.state = "walking" /\ reader.cursor # NoCursor =>
               {d \in seen.steady : ~After(d, reader.cursor)} \subseteq reader.given

(* list_metadata_page: each page comes strictly after everything given     *)
(* before it in (created_at, document_id) descending, so no row is given   *)
(* twice, not even one that left the listing and came back.                *)
PagesDescend ==
    [][listing.kind = "documents" =>
         /\ \A d \in reader.given, e \in reader'.given \ reader.given :
               Precedes(d, e)
         /\ seen'.twice = seen.twice]_vars

(* list_page, _validate_public_status, _metadata_statement: a page holds   *)
(* rows of the one partition and status asked for; a public one never a    *)
(* deleted or half deleted document, whose rows stay in the table, whatever *)
(* status is asked for and cursor presented (SRS-GET-012, SRS-GET-025).    *)
PageWithinListing ==
    [][\A d \in reader'.given \ reader.given :
          /\ rows[d].partition = listing.partition
          /\ Present(d)
          /\ listing.status # AnyStatus => rows[d].status = listing.status
          /\ listing.kind = "documents" =>
                rows[d].status \notin {"DELETING", "DELETED"}]_vars

(* iter_recovery_candidates: pages by offset misplace no more candidates   *)
(* than the other callers, or the caller's own repairs between two pages,  *)
(* make them: one is missed at most for each that left the list meanwhile, *)
(* and one is given again at most for each that entered it.                *)
OffsetDrift ==
    /\ reader.state = "done" =>
           Cardinality(seen.steady \ reader.given) <= seen.left
    /\ seen.twice <= seen.came

=============================================================================
