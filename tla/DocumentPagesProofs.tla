------------------------- MODULE DocumentPagesProofs -------------------------
(***************************************************************************)
(* Listings page by page, for every table, every page size, every number   *)
(* of changes between the pages and of failing statements.                 *)
(***************************************************************************)
EXTENDS DocumentPages, FiniteSetTheorems, FunctionTheorems, TLAPS

(***************************************************************************)
(* The type of the variables: the reader walks, or has stopped for good.   *)
(***************************************************************************)
PagesTypeOK ==
    /\ rows \in [Documents -> Row]
    /\ listing \in Listing
    /\ reader \in [state: {"walking", "done", "failed", "refused", "cancelled"},
                   cursor: Cursor \union {NoCursor}, offset: Nat,
                   given: SUBSET Documents]
    /\ seen \in [steady: SUBSET Documents, left: Nat, came: Nat, twice: Nat]
    /\ budget \in [changes: Nat, faults: Nat]

-----------------------------------------------------------------------------
(* Positions: the rows of a listing are numbered without gaps. *)

LEMMA FiniteSubset ==
    ASSUME NEW S \in SUBSET Documents
    PROVE  IsFiniteSet(S) /\ Cardinality(S) \in Nat
  BY PagesAssumption, FS_Subset, FS_CardinalityType

LEMMA PrecedesOrder ==
    ASSUME rows \in [Documents -> Row]
    PROVE  \A d, e, f \in Documents :
              /\ ~Precedes(d, d)
              /\ Precedes(d, e) /\ Precedes(e, f) => Precedes(d, f)
              /\ d = e \/ Precedes(d, e) \/ Precedes(e, d)
  <1>1. \A d \in Documents : d \in Int /\ rows[d].created \in Int
    BY PagesAssumption DEF Row
  <1> QED BY <1>1 DEF Precedes

LEMMA PositionGrows ==
    ASSUME rows \in [Documents -> Row], NEW S \in SUBSET Documents,
           NEW d \in S, NEW e \in S, Precedes(d, e)
    PROVE  Position(d, S) < Position(e, S)
  <1> DEFINE D == {f \in S : Precedes(f, d)}
             E == {f \in S : Precedes(f, e)}
  <1>1. D \subseteq E /\ d \in E \ D
    BY PrecedesOrder
  <1>2. /\ IsFiniteSet(D) /\ Cardinality(D) \in Nat
        /\ IsFiniteSet(E) /\ Cardinality(E) \in Nat
    <2>1. D \in SUBSET Documents /\ E \in SUBSET Documents
      OBVIOUS
    <2> QED BY <2>1, FiniteSubset
  <1>3. Cardinality(D) <= Cardinality(E) /\ Cardinality(D) # Cardinality(E)
    BY <1>1, <1>2, FS_Subset
  <1> QED BY <1>2, <1>3 DEF Position

LEMMA PositionRange ==
    ASSUME NEW S \in SUBSET Documents, NEW d \in S, ~Precedes(d, d)
    PROVE  Position(d, S) \in 0 .. Cardinality(S) - 1
  <1> DEFINE D == {e \in S : Precedes(e, d)}
  <1>1. D \subseteq S /\ d \notin D
    OBVIOUS
  <1>2. IsFiniteSet(S) /\ Cardinality(S) \in Nat /\ Cardinality(D) \in Nat
    <2>1. D \in SUBSET Documents
      OBVIOUS
    <2> QED BY <2>1, FiniteSubset
  <1>3. Cardinality(D) <= Cardinality(S) /\ Cardinality(D) # Cardinality(S)
    BY <1>1, <1>2, FS_Subset
  <1> QED BY <1>2, <1>3 DEF Position

(* Position numbers S from 0 to Cardinality(S) - 1, in the listing's order. *)
LEMMA Positions ==
    ASSUME rows \in [Documents -> Row], NEW S \in SUBSET Documents
    PROVE  /\ Cardinality(S) \in Nat
           /\ \A d \in S : Position(d, S) \in 0 .. Cardinality(S) - 1
           /\ \A d, e \in S : Precedes(d, e) <=> Position(d, S) < Position(e, S)
           /\ \A d, e \in S : Position(d, S) = Position(e, S) => d = e
           /\ \A n \in 0 .. Cardinality(S) - 1 :
                 \E d \in S : Position(d, S) = n
  <1> DEFINE Places == 0 .. Cardinality(S) - 1
             f == [d \in S |-> Position(d, S)]
  <1>1. IsFiniteSet(S) /\ Cardinality(S) \in Nat
    BY FiniteSubset
  <1>2. \A d \in S : Position(d, S) \in Places
    BY PrecedesOrder, PositionRange
  <1>3. \A d, e \in S : Precedes(d, e) => Position(d, S) < Position(e, S)
    BY PositionGrows
  <1>4. \A d, e \in S : Position(d, S) \in Int /\ Position(e, S) \in Int
    BY <1>2
  <1>5. \A d, e \in S : Precedes(d, e) <=> Position(d, S) < Position(e, S)
    BY <1>3, <1>4, PrecedesOrder
  <1>6. \A d, e \in S : Position(d, S) = Position(e, S) => d = e
    BY <1>4, <1>5, PrecedesOrder
  <1>7. f \in Injection(S, Places)
    <2>1. f \in [S -> Places] /\ \A d, e \in S : f[d] = f[e] => d = e
      BY <1>2, <1>6
    <2> QED BY <2>1, Fun_IsInj
  <1>8. IsFiniteSet(Places) /\ Cardinality(Places) = Cardinality(S)
    BY <1>1, FS_Interval
  <1>9. f \in Surjection(S, Places)
    BY <1>7, <1>8, FS_Injection
  <1>10. \A n \in Places : \E d \in S : f[d] = n
    <2> HIDE DEF f, Places
    <2> QED BY <1>9, Fun_SurjectionProperties
  <1> QED BY <1>1, <1>2, <1>5, <1>6, <1>10

(* OFFSET o LIMIT l: at most l rows, and fewer only when no row is left. *)
LEMMA PageRows ==
    ASSUME rows \in [Documents -> Row], NEW S \in SUBSET Documents,
           NEW o \in Nat, NEW l \in Nat
    PROVE  /\ ListMetadata(S, o, l) \in SUBSET S
           /\ Cardinality(ListMetadata(S, o, l)) \in 0 .. l
           /\ Cardinality(ListMetadata(S, o, l)) < l =>
                 \A d \in S : Position(d, S) < o + l
  <1> DEFINE L == ListMetadata(S, o, l)
             Places == o .. (o + l - 1)
             f == [d \in L |-> Position(d, S)]
  <1>1. L \in SUBSET S /\ L \in SUBSET Documents
    BY DEF ListMetadata
  <1>2. IsFiniteSet(L) /\ Cardinality(L) \in Nat
    BY <1>1, FiniteSubset
  <1>3. f \in Injection(L, Places)
    <2>1. f \in [L -> Places]
      BY DEF ListMetadata
    <2>2. \A d, e \in L : f[d] = f[e] => d = e
      BY <1>1, Positions
    <2> QED BY <2>1, <2>2, Fun_IsInj
  <1>4. IsFiniteSet(Places) /\ Cardinality(Places) = l
    BY FS_Interval
  <1>5. Cardinality(L) <= l
    BY <1>3, <1>4, FS_Injection
  <1>6. ASSUME NEW d \in S, ~(Position(d, S) < o + l)
        PROVE  Cardinality(L) = l
    <2>1. Position(d, S) \in Nat /\ Position(d, S) <= Cardinality(S) - 1
          /\ Cardinality(S) \in Nat
      BY Positions
    <2>2. ASSUME NEW n \in Places PROVE \E e \in L : f[e] = n
      <3>1. n \in 0 .. Cardinality(S) - 1
        BY <1>6, <2>1
      <3>2. PICK e \in S : Position(e, S) = n
        BY <3>1, Positions
      <3> QED BY <3>2 DEF ListMetadata
    <2>3. f \in Surjection(L, Places)
      <3>1. f \in [L -> Places]
        BY DEF ListMetadata
      <3> QED BY <2>2, <3>1, Fun_IsSurj
    <2> QED BY <1>2, <1>3, <1>4, <2>3, FS_Injection
  <1> QED BY <1>1, <1>2, <1>5, <1>6

-----------------------------------------------------------------------------
(* The inductive invariant *)

Given == reader.given

(* Rows kept that the next page's offset has moved past, ungiven; and rows *)
(* already given that lie at the offset or beyond it.                      *)
Below == {d \in seen.steady \ Given : Position(d, Members) < reader.offset}
Again == {d \in Given \cap Members : Position(d, Members) >= reader.offset}

(* What was given had a row, so its created_at stays. *)
GivenInv ==
    /\ \A d \in Given : rows[d].status # "NotYet"
    /\ seen.steady \subseteq Members

(* Up to the cursor every row kept was given, and beyond it none. *)
DocumentsInv ==
    listing.kind = "documents" =>
       /\ seen.twice = 0
       /\ reader.state = "walking" =>
             IF reader.cursor = NoCursor THEN Given = {}
             ELSE /\ \A d \in Given : ~After(d, reader.cursor)
                  /\ \A d \in seen.steady :
                        After(d, reader.cursor) \/ d \in Given
       /\ reader.state = "done" => seen.steady \subseteq Given

(* Each row lost below the offset, and each given one pushed beyond it, is *)
(* owed to a row of its own that left, or entered, the listing.            *)
RecoveryInv ==
    listing.kind = "recovery" =>
       /\ seen.twice <= seen.came
       /\ reader.state = "walking" =>
             /\ Cardinality(Below) <= seen.left
             /\ Cardinality(Again) + seen.twice <= seen.came
       /\ reader.state = "done" =>
             Cardinality(seen.steady \ Given) <= seen.left

PagesInv == PagesTypeOK /\ GivenInv /\ DocumentsInv /\ RecoveryInv

LEMMA MembersType == Members \in SUBSET Documents
  BY DEF Members, MetadataStatement

LEMMA ReaderType ==
    ASSUME PagesTypeOK
    PROVE  /\ rows \in [Documents -> Row]
           /\ listing.kind \in {"documents", "recovery"}
           /\ reader.cursor \in Cursor \cup {NoCursor}
           /\ reader.offset \in Nat
           /\ Given \in SUBSET Documents
           /\ seen.steady \in SUBSET Documents
           /\ seen.left \in Nat /\ seen.came \in Nat /\ seen.twice \in Nat
  BY DEF PagesTypeOK, Listing, Given

(* The walk stops, refused, failed or cancelled. *)
LEMMA EndWalkKept ==
    ASSUME PagesInv, NEW s \in {"failed", "refused", "cancelled"}, EndWalk(s),
           budget' \in [changes: Nat, faults: Nat]
    PROVE  PagesInv'
  <1>1. /\ rows' = rows /\ listing' = listing /\ seen' = seen
        /\ reader'.given = reader.given /\ reader'.state = s
        /\ reader'.offset = reader.offset
    BY DEF EndWalk, PagesInv, PagesTypeOK
  <1>2. PagesTypeOK'
    BY DEF EndWalk, PagesInv, PagesTypeOK
  <1>3. Members' = Members /\ Given' = Given
    BY <1>1 DEF Members, MetadataStatement, Present, Given
  <1>4. GivenInv'
    BY <1>1, <1>3 DEF PagesInv, GivenInv
  <1>5. DocumentsInv' /\ RecoveryInv'
    BY <1>1 DEF PagesInv, DocumentsInv, RecoveryInv
  <1> QED BY <1>2, <1>4, <1>5 DEF PagesInv

LEMMA StatementFailsKept ==
    ASSUME PagesInv, StatementFails
    PROVE  PagesInv'
  <1>1. budget' \in [changes: Nat, faults: Nat]
    BY DEF StatementFails, PagesInv, PagesTypeOK
  <1> QED BY <1>1, EndWalkKept DEF StatementFails

(* A page handed to the reader, of n rows given before. *)
LEMMA GiveKept ==
    ASSUME PagesInv, NEW items \in SUBSET Members, NEW state \in {"walking", "done"},
           NEW cursor \in Cursor \cup {NoCursor}, NEW offset \in Nat,
           Give(items, state, cursor, offset), budget' = budget
    PROVE  /\ PagesTypeOK' /\ GivenInv' /\ Members' = Members
           /\ rows' = rows /\ listing' = listing
           /\ Given' = Given \cup items
           /\ reader'.state = state /\ reader'.cursor = cursor
           /\ reader'.offset = offset
           /\ seen'.steady = seen.steady /\ seen'.left = seen.left
           /\ seen'.came = seen.came /\ seen'.twice \in Nat
           /\ seen'.twice <= seen.twice + Cardinality(Given \cap items)
  <1> DEFINE n == seen.twice + Cardinality(Given \cap items)
  <1>1. /\ rows' = rows /\ listing' = listing
        /\ reader' = [state |-> state, cursor |-> cursor, offset |-> offset,
                      given |-> Given \cup items]
        /\ seen' = [seen EXCEPT !.twice = IF n <= MaxChanges THEN n
                                          ELSE MaxChanges + 1]
    BY DEF Give, Given
  <1>2. items \in SUBSET Documents /\ Given \in SUBSET Documents
        /\ seen.twice \in Nat
    BY MembersType, ReaderType DEF PagesInv
  <1>3. n \in Nat /\ MaxChanges \in Nat
    <2>1. Given \cap items \in SUBSET Documents
      BY <1>2
    <2> QED BY <1>2, <2>1, FiniteSubset, PagesAssumption
  <1>4. /\ seen'.twice \in Nat /\ seen'.twice <= n
        /\ seen'.steady = seen.steady /\ seen'.left = seen.left
        /\ seen'.came = seen.came
        /\ seen' \in [steady: SUBSET Documents, left: Nat, came: Nat, twice: Nat]
    <2>1. PICK m \in Nat : m <= n /\ seen' = [seen EXCEPT !.twice = m]
      <3> HIDE DEF n
      <3> QED BY <1>1, <1>3
    <2>2. seen \in [steady: SUBSET Documents, left: Nat, came: Nat, twice: Nat]
      BY DEF PagesInv, PagesTypeOK
    <2> HIDE DEF n
    <2> QED BY <2>1, <2>2
  <1>5. PagesTypeOK'
    BY <1>1, <1>2, <1>4 DEF PagesInv, PagesTypeOK
  <1>6. Members' = Members /\ Given' = Given \cup items
    BY <1>1 DEF Members, MetadataStatement, Present, Given
  <1>7. \A d \in Members : rows[d].status # "NotYet"
    BY DEF Members, MetadataStatement, Present, DocumentStatus
  <1>8. GivenInv'
    BY <1>1, <1>4, <1>6, <1>7 DEF GivenInv, PagesInv
  <1> QED BY <1>1, <1>4, <1>5, <1>6, <1>8

-----------------------------------------------------------------------------
(* Pages under a cursor *)

LEMMA AfterCursor ==
    ASSUME rows \in [Documents -> Row], NEW c \in Cursor,
           NEW d \in Documents, NEW e \in Documents
    PROVE  /\ ~After(d, c) /\ After(e, c) => Precedes(d, e)
           /\ After(d, EncodeCursor(e)) <=> Precedes(e, d)
  <1>1. /\ d \in Int /\ e \in Int /\ rows[d].created \in Int
        /\ rows[e].created \in Int /\ c.created \in Int /\ c.id \in Int
    BY PagesAssumption DEF Row, Cursor
  <1> QED BY <1>1 DEF After, Precedes, EncodeCursor

(* One row more than the limit is fetched: without it the page is all that *)
(* is left, with it the page ends with its last row and omits none before. *)
LEMMA PageOfDocuments ==
    ASSUME rows \in [Documents -> Row], NEW S \in SUBSET Documents,
           NEW l \in Nat \ {0}, NEW fetched, NEW items,
           fetched = ListMetadata(S, 0, l + 1),
           items = ListMetadata(fetched, 0, l)
    PROVE  /\ items \in SUBSET S
           /\ ~(Cardinality(fetched) > l) => items = S
           /\ Cardinality(fetched) > l =>
                 \E z \in items :
                    /\ \A e \in items : e = z \/ Precedes(e, z)
                    /\ \A d \in S : d = z \/ Precedes(d, z) => d \in items
  <1>1. /\ fetched \in SUBSET S /\ fetched \in SUBSET Documents
        /\ Cardinality(fetched) \in Nat
        /\ Cardinality(fetched) < l + 1 => \A d \in S : Position(d, S) < l + 1
    <2>1. 0 \in Nat /\ l + 1 \in Nat /\ 0 + (l + 1) = l + 1
      OBVIOUS
    <2>2. /\ fetched \in SUBSET S
          /\ Cardinality(fetched) < l + 1 =>
                \A d \in S : Position(d, S) < 0 + (l + 1)
      BY <2>1, PageRows
    <2> QED BY <2>1, <2>2, FiniteSubset
  <1>2. items \in SUBSET fetched
    BY <1>1, PageRows
  <1>3. \A d \in S : d \in fetched <=> Position(d, S) \in 0 .. l
    BY DEF ListMetadata
  <1>4. \A d \in fetched : d \in items <=> Position(d, fetched) \in 0 .. l - 1
    BY DEF ListMetadata
  <1>5. \A d \in S : Position(d, S) \in Nat
    <2>1. /\ Cardinality(S) \in Nat
          /\ \A d \in S : Position(d, S) \in 0 .. Cardinality(S) - 1
      BY Positions
    <2> QED BY <2>1
  <1>6. \A d \in fetched : Position(d, fetched) \in 0 .. Cardinality(fetched) - 1
    BY <1>1, Positions
  <1>7. ASSUME ~(Cardinality(fetched) > l) PROVE items = S
    <2>1. fetched = S
      <3>1. \A d \in S : Position(d, S) < l + 1
        BY <1>1, <1>7
      <3>2. \A d \in S : Position(d, S) \in 0 .. l
        BY <1>5, <3>1
      <3> QED BY <1>1, <1>3, <3>2
    <2>2. items = fetched
      BY <1>1, <1>2, <1>4, <1>6, <1>7
    <2> QED BY <2>1, <2>2
  <1>8. ASSUME Cardinality(fetched) > l
        PROVE  \E z \in items :
                  /\ \A e \in items : e = z \/ Precedes(e, z)
                  /\ \A d \in S : d = z \/ Precedes(d, z) => d \in items
    <2>1. PICK z \in fetched : Position(z, fetched) = l - 1
      <3>1. l - 1 \in 0 .. Cardinality(fetched) - 1
        BY <1>1, <1>8
      <3> QED BY <1>1, <3>1, Positions
    <2>2. z \in items
      BY <1>4, <2>1
    <2>3. ASSUME NEW e \in items PROVE e = z \/ Precedes(e, z)
      <3>1. Position(e, fetched) \in 0 .. l - 1 /\ e \in fetched
        BY <1>2, <1>4
      <3>2. CASE Position(e, fetched) = l - 1
        BY <1>1, <2>1, <3>1, <3>2, Positions
      <3>3. CASE Position(e, fetched) < l - 1
        BY <1>1, <2>1, <3>1, <3>3, Positions
      <3> QED BY <3>1, <3>2, <3>3
    <2>4. ASSUME NEW d \in S, Precedes(d, z) PROVE d \in items
      <3>1. Position(d, S) < Position(z, S) /\ Position(z, S) \in 0 .. l
        BY <1>1, <1>3, <2>1, <2>4, Positions
      <3>2. d \in fetched
        BY <1>3, <1>5, <3>1
      <3>3. Position(d, fetched) < l - 1
        BY <1>1, <2>1, <2>4, <3>2, Positions
      <3> QED BY <1>4, <1>6, <3>2, <3>3
    <2> QED BY <2>2, <2>3, <2>4
  <1> QED BY <1>1, <1>2, <1>7, <1>8

(* The rows a page under cursor c is taken from. *)
Rest(c) == IF c = NoCursor THEN Members ELSE {d \in Members : After(d, c)}

(* A page is the end of the listing, or everything up to its last row. *)
LEMMA ListPageCases ==
    ASSUME PagesInv, NEW c, ListPage(c), listing.kind = "documents"
    PROVE  \/ EndWalk("refused") /\ budget' = budget
           \/ StatementFails
           \/ /\ CursorAccepted(c) /\ budget' = budget
              /\ Give(Rest(c), "done", NoCursor, reader.offset)
           \/ /\ CursorAccepted(c) /\ budget' = budget
              /\ \E items \in SUBSET Rest(c), z \in Documents :
                    /\ z \in items
                    /\ \A e \in items : e = z \/ Precedes(e, z)
                    /\ \A d \in Rest(c) : d = z \/ Precedes(d, z) => d \in items
                    /\ Give(items, "walking", EncodeCursor(z), reader.offset)
  <1> DEFINE limit == listing.limit
             fetched == ListMetadataPage(Members, c, limit + 1)
             items == ListMetadata(fetched, 0, limit)
             last == CHOOSE d \in items : \A e \in items : e = d \/ Precedes(e, d)
  <1>1. \/ EndWalk("refused") /\ budget' = budget
        \/ StatementFails
        \/ /\ CursorAccepted(c) /\ budget' = budget
           /\ limit \in 1 .. MaxPageLimit
           /\ IF Cardinality(fetched) > limit
                THEN Give(items, "walking", EncodeCursor(last), reader.offset)
                ELSE Give(items, "done", NoCursor, reader.offset)
    BY DEF ListPage
  <1>2. fetched = ListMetadata(Rest(c), 0, limit + 1)
    BY DEF ListMetadataPage, Rest
  <1>3. Rest(c) \in SUBSET Documents /\ rows \in [Documents -> Row]
    BY MembersType, ReaderType DEF Rest, PagesInv
  <1>4. CASE limit \in 1 .. MaxPageLimit
    <2>1. limit \in Nat \ {0}
      BY <1>4, PagesAssumption
    <2>2. /\ items \in SUBSET Rest(c)
          /\ ~(Cardinality(fetched) > limit) => items = Rest(c)
          /\ Cardinality(fetched) > limit =>
                \E z \in items :
                   /\ \A e \in items : e = z \/ Precedes(e, z)
                   /\ \A d \in Rest(c) : d = z \/ Precedes(d, z) => d \in items
      <3> HIDE DEF limit, fetched, items
      <3>1. items = ListMetadata(fetched, 0, limit)
        BY DEF items
      <3>2. \A l \in Nat \ {0}, S \in SUBSET Documents : \A f, i :
               f = ListMetadata(S, 0, l + 1) /\ i = ListMetadata(f, 0, l) =>
                 /\ i \in SUBSET S
                 /\ ~(Cardinality(f) > l) => i = S
                 /\ Cardinality(f) > l =>
                       \E z \in i :
                          /\ \A e \in i : e = z \/ Precedes(e, z)
                          /\ \A d \in S : d = z \/ Precedes(d, z) => d \in i
        BY <1>3, PageOfDocuments
      <3> QED BY <1>2, <1>3, <2>1, <3>1, <3>2
    <2>3. ASSUME NEW z \in items, \A e \in items : e = z \/ Precedes(e, z)
          PROVE  last = z
      <3>1. items \in SUBSET Documents
        BY <1>3, <2>2
      <3>2. \A y \in items : (\A e \in items : e = y \/ Precedes(e, y)) => y = z
        BY <1>3, <2>3, <3>1, PrecedesOrder
      <3> QED BY <2>3, <3>2
    <2> HIDE DEF limit, fetched, items, last
    <2> QED BY <1>1, <1>3, <2>2, <2>3
  <1> QED BY <1>1, <1>4

LEMMA ListPageKept ==
    ASSUME PagesInv, Walking("documents"), ListPage(reader.cursor)
    PROVE  PagesInv'
  <1> DEFINE c == reader.cursor
  <1>1. listing.kind = "documents" /\ reader.state = "walking"
    BY DEF Walking
  <1>2. /\ Rest(c) \in SUBSET Members /\ Members \in SUBSET Documents
        /\ c \in Cursor \cup {NoCursor} /\ rows \in [Documents -> Row]
        /\ reader.offset \in Nat /\ seen.twice = 0 /\ seen.steady \subseteq Members
        /\ Given \in SUBSET Documents
    BY <1>1, MembersType, ReaderType DEF Rest, PagesInv, DocumentsInv, GivenInv
  <1>3. /\ Given \cap Rest(c) = {}
        /\ \A d \in seen.steady : d \in Rest(c) \/ d \in Given
    BY <1>1, <1>2 DEF PagesInv, DocumentsInv, Rest
  <1>4. \A items \in SUBSET Rest(c) : Cardinality(Given \cap items) = 0
    BY <1>3, FS_EmptySet
  <1>5. CASE Give(Rest(c), "done", NoCursor, reader.offset) /\ budget' = budget
    <2>1. /\ PagesTypeOK' /\ GivenInv' /\ listing' = listing
          /\ Given' = Given \cup Rest(c) /\ reader'.state = "done"
          /\ seen'.steady = seen.steady /\ seen'.twice \in Nat
          /\ seen'.twice <= 0 + Cardinality(Given \cap Rest(c))
      BY <1>2, <1>5, GiveKept
    <2>2. seen'.twice = 0
      BY <1>4, <2>1
    <2> QED BY <1>1, <1>3, <2>1, <2>2 DEF PagesInv, DocumentsInv, RecoveryInv
  <1>6. ASSUME NEW items \in SUBSET Rest(c), NEW z \in items, budget' = budget,
               \A e \in items : e = z \/ Precedes(e, z),
               \A d \in Rest(c) : d = z \/ Precedes(d, z) => d \in items,
               Give(items, "walking", EncodeCursor(z), reader.offset)
        PROVE  PagesInv'
    <2> DEFINE enc == EncodeCursor(z)
    <2>1. enc \in Cursor /\ enc # NoCursor
      BY <1>2 DEF PagesInv, PagesTypeOK, EncodeCursor, Cursor, NoCursor, Row, Listing
    <2>2. /\ PagesTypeOK' /\ GivenInv' /\ listing' = listing /\ rows' = rows
          /\ Given' = Given \cup items /\ reader'.state = "walking"
          /\ reader'.cursor = enc
          /\ seen'.steady = seen.steady /\ seen'.twice = 0
      <3>1. items \in SUBSET Members
        BY <1>2
      <3> HIDE DEF enc
      <3>2. /\ PagesTypeOK' /\ GivenInv' /\ listing' = listing /\ rows' = rows
            /\ Given' = Given \cup items /\ reader'.state = "walking"
            /\ reader'.cursor = enc
            /\ seen'.steady = seen.steady /\ seen'.twice \in Nat
            /\ seen'.twice <= 0 + Cardinality(Given \cap items)
        BY <1>2, <1>6, <2>1, <3>1, GiveKept DEF enc
      <3> QED BY <1>4, <3>2
    <2>3. \A d \in Documents : After(d, reader.cursor)' <=> Precedes(z, d)
      <3>1. \A d \in Documents : After(d, enc) <=> Precedes(z, d)
        BY <1>2, <2>1, AfterCursor
      <3> HIDE DEF enc
      <3> QED BY <2>2, <3>1 DEF After
    <2>4. ASSUME NEW d \in Given PROVE Precedes(d, z)
      <3>1. c # NoCursor /\ ~After(d, c) /\ After(z, c)
        BY <1>1, <1>2, <1>3 DEF PagesInv, DocumentsInv, Rest
      <3> QED BY <1>2, <3>1, AfterCursor
    <2>5. \A d \in Given \cup items : ~Precedes(z, d)
      BY <1>2, <1>6, <2>4, PrecedesOrder
    <2>6. \A d \in seen.steady : Precedes(z, d) \/ d \in Given \cup items
      BY <1>2, <1>3, <1>6, PrecedesOrder
    <2>7. /\ \A d \in Given' : ~After(d, reader.cursor)'
          /\ \A d \in seen'.steady : After(d, reader.cursor)' \/ d \in Given'
      BY <1>2, <2>2, <2>3, <2>5, <2>6
    <2>8. DocumentsInv'
      <3> HIDE DEF enc
      <3> QED BY <2>1, <2>2, <2>7 DEF DocumentsInv
    <2> QED BY <1>1, <2>2, <2>8 DEF PagesInv, RecoveryInv
  <1> QED BY <1>1, <1>5, <1>6, ListPageCases, EndWalkKept, StatementFailsKept
          DEF PagesInv, PagesTypeOK

(* A cursor of another listing, or a damaged one, is refused. *)
LEMMA ForeignRefused ==
    ASSUME NEW c \in Foreign \cup {Garbage}
    PROVE  ~CursorAccepted(c)
  <1>1. CASE c \in Foreign
    <2>1. c \in Cursor /\ ~SameListing(c)
      BY <1>1 DEF Foreign, SameListing
    <2>2. c # NoCursor
      BY <2>1 DEF Cursor, NoCursor
    <2> QED BY <2>1, <2>2 DEF CursorAccepted
  <1>2. CASE c = Garbage
    BY <1>2 DEF Garbage, NoCursor, CursorAccepted, DecodeCursor
  <1> QED BY <1>1, <1>2

LEMMA ForeignCursorKept ==
    ASSUME PagesInv, ForeignCursor
    PROVE  PagesInv'
  <1>1. PICK c \in Foreign \cup {Garbage} : ListPage(c)
    BY DEF ForeignCursor
  <1>2. EndWalk("refused") /\ budget' = budget
    BY <1>1, ForeignRefused DEF ListPage
  <1> QED BY <1>2, EndWalkKept DEF PagesInv, PagesTypeOK

LEMMA CutSelectKept ==
    ASSUME PagesInv, CutSelect
    PROVE  PagesInv'
  BY EndWalkKept DEF CutSelect, PagesInv, PagesTypeOK

-----------------------------------------------------------------------------
(* Pages by offset *)

LEMMA CandidatesKept ==
    ASSUME PagesInv, Walking("recovery"), listing.limit \in Nat \ {0},
           NEW items, items = ListMetadata(Members, reader.offset, listing.limit),
           ServeCandidates(items), budget' = budget
    PROVE  PagesInv'
  <1> DEFINE o == reader.offset
             l == listing.limit
             G == Given \cap items
  <1>1. listing.kind = "recovery" /\ reader.state = "walking"
    BY DEF Walking
  <1>2. /\ Members \in SUBSET Documents /\ rows \in [Documents -> Row]
        /\ o \in Nat /\ l \in Nat \ {0}
        /\ Given \in SUBSET Documents /\ seen.steady \subseteq Members
        /\ seen.steady \in SUBSET Documents
        /\ seen.left \in Nat /\ seen.came \in Nat /\ seen.twice \in Nat
    BY MembersType, ReaderType DEF PagesInv, GivenInv
  <1>3. /\ items \in SUBSET Members
        /\ Cardinality(items) \in 0 .. l
        /\ Cardinality(items) < l => \A d \in Members : Position(d, Members) < o + l
    BY <1>2, PageRows
  <1>4. \A d \in Members : /\ Position(d, Members) \in Int
                           /\ d \in items <=> /\ Position(d, Members) >= o
                                              /\ Position(d, Members) < o + l
    <2>1. /\ Cardinality(Members) \in Nat
          /\ \A d \in Members : Position(d, Members) \in 0 .. Cardinality(Members) - 1
      BY <1>2, Positions
    <2> QED BY <1>2, <2>1 DEF ListMetadata
  <1>5. /\ Cardinality(Below) <= seen.left
        /\ Cardinality(Again) + seen.twice <= seen.came
        /\ Below \in SUBSET Documents /\ Again \in SUBSET Documents
        /\ G \in SUBSET Documents
    BY <1>1, <1>2 DEF PagesInv, RecoveryInv, Below, Again
  <1>6. /\ Cardinality(Below) \in Nat /\ Cardinality(Again) \in Nat
        /\ Cardinality(G) \in Nat /\ IsFiniteSet(Below) /\ IsFiniteSet(Again)
    BY <1>5, FiniteSubset
  <1>7. G \subseteq Again
    BY <1>3, <1>4 DEF Again
  <1>8. CASE Cardinality(items) < l
    <2>1. Give(items, "done", NoCursor, o)
      BY <1>8 DEF ServeCandidates
    <2>2. /\ PagesTypeOK' /\ GivenInv' /\ listing' = listing
          /\ Given' = Given \cup items /\ reader'.state = "done"
          /\ seen'.steady = seen.steady /\ seen'.left = seen.left
          /\ seen'.came = seen.came /\ seen'.twice \in Nat
          /\ seen'.twice <= seen.twice + Cardinality(G)
      BY <1>2, <1>3, <2>1, GiveKept
    <2>3. Cardinality(G) <= Cardinality(Again)
      BY <1>6, <1>7, FS_Subset
    <2>4. seen.steady \ Given' \subseteq Below
      BY <1>2, <1>3, <1>4, <1>8, <2>2 DEF Below
    <2>5. Cardinality(seen.steady \ Given') <= Cardinality(Below)
      BY <1>6, <2>4, FS_Subset
    <2>6. Cardinality(seen.steady \ Given') \in Nat
      <3>1. seen.steady \ Given' \in SUBSET Documents
        BY <1>2
      <3> QED BY <3>1, FiniteSubset
    <2>7. seen'.twice <= seen'.came /\ Cardinality(seen'.steady \ Given') <= seen'.left
      BY <1>2, <1>5, <1>6, <2>2, <2>3, <2>5, <2>6
    <2> QED BY <1>1, <2>2, <2>7 DEF PagesInv, DocumentsInv, RecoveryInv
  <1>9. CASE ~(Cardinality(items) < l)
    <2>1. Cardinality(items) = l
      BY <1>2, <1>3, <1>9
    <2>2. Give(items, "walking", NoCursor, o + l) /\ o + l \in Nat
      BY <1>2, <1>9, <2>1 DEF ServeCandidates
    <2>3. /\ PagesTypeOK' /\ GivenInv' /\ listing' = listing /\ rows' = rows
          /\ Members' = Members
          /\ Given' = Given \cup items /\ reader'.state = "walking"
          /\ reader'.offset = o + l
          /\ seen'.steady = seen.steady /\ seen'.left = seen.left
          /\ seen'.came = seen.came /\ seen'.twice \in Nat
          /\ seen'.twice <= seen.twice + Cardinality(G)
      BY <1>2, <1>3, <2>2, GiveKept
    <2>4. \A d \in Members : Position(d, Members)' = Position(d, Members)
      BY <2>3 DEF Position, Precedes
    <2>5. /\ Below' = {d \in seen.steady \ Given' : Position(d, Members) < o + l}
          /\ Again' = {d \in Given' \cap Members : Position(d, Members) >= o + l}
      BY <1>2, <2>3, <2>4 DEF Below, Again
    <2>6. Below' \subseteq Below
      BY <1>2, <1>4, <2>3, <2>5 DEF Below
    <2>7. Again' \subseteq Again \ G
      BY <1>2, <1>4, <2>3, <2>5 DEF Again
    <2>8. Cardinality(Below') \in Nat /\ Cardinality(Below') <= Cardinality(Below)
      BY <1>5, <1>6, <2>6, FS_Subset, FiniteSubset
    <2>9. Cardinality(Again') \in Nat
          /\ Cardinality(Again') <= Cardinality(Again) - Cardinality(G)
      <3>1. /\ IsFiniteSet(Again \ G)
            /\ Cardinality(Again \ G) = Cardinality(Again) - Cardinality(Again \cap G)
        BY <1>6, FS_Difference
      <3>2. Again \cap G = G
        BY <1>7
      <3> QED BY <1>5, <2>7, <3>1, <3>2, FS_Subset, FiniteSubset
    <2>10. /\ Cardinality(Below') <= seen'.left
           /\ Cardinality(Again') + seen'.twice <= seen'.came
           /\ seen'.twice <= seen'.came
      BY <1>2, <1>5, <1>6, <2>3, <2>8, <2>9
    <2> QED BY <1>1, <2>3, <2>10 DEF PagesInv, DocumentsInv, RecoveryInv
  <1> QED BY <1>8, <1>9

LEMMA ListInternalKept ==
    ASSUME PagesInv, Walking("recovery"), ListInternal
    PROVE  PagesInv'
  <1>1. \/ EndWalk("refused") /\ budget' = budget
        \/ StatementFails
        \/ /\ ServeCandidates(ListMetadata(Members, reader.offset, listing.limit))
           /\ budget' = budget /\ listing.limit \in Nat \ {0}
    BY PagesAssumption DEF ListInternal, ValidateRecoveryPage
  <1>2. budget' = budget => budget' \in [changes: Nat, faults: Nat]
    BY DEF PagesInv, PagesTypeOK
  <1> QED BY <1>1, <1>2, EndWalkKept, StatementFailsKept, CandidatesKept

-----------------------------------------------------------------------------
(* Changes between the pages *)

(* A step in which the row of x alone changes; created_at does not, once   *)
(* the row is there.                                                       *)
OneRow(x) ==
    /\ \A d \in Documents \ {x} : rows'[d] = rows[d]
    /\ rows[x].status # "NotYet" => rows'[x].created = rows[x].created
    /\ rows'[x].status # "NotYet"

LEMMA OneMember ==
    ASSUME NEW x \in Documents, OneRow(x), listing' = listing
    PROVE  Members' \ {x} = Members \ {x}
  BY DEF OneRow, Members, MetadataStatement, Present

LEMMA MemberHasRow ==
    ASSUME NEW d \in Members
    PROVE  d \in Documents /\ rows[d].status # "NotYet"
  BY DEF Members, MetadataStatement, Present, DocumentStatus

(* Positions, for a state and the next one. *)
Numbered ==
    /\ \A d \in Members : Position(d, Members) \in Nat
    /\ \A d, e \in Members :
          /\ Precedes(d, e) => Position(d, Members) < Position(e, Members)
          /\ Position(d, Members) = Position(e, Members) => d = e

LEMMA MembersNumbered == rows \in [Documents -> Row] => Numbered
  <1> SUFFICES ASSUME rows \in [Documents -> Row] PROVE Numbered
    OBVIOUS
  <1>1. /\ Cardinality(Members) \in Nat
        /\ \A d \in Members : Position(d, Members) \in 0 .. Cardinality(Members) - 1
        /\ \A d, e \in Members :
              Precedes(d, e) <=> Position(d, Members) < Position(e, Members)
        /\ \A d, e \in Members :
              Position(d, Members) = Position(e, Members) => d = e
    BY MembersType, Positions
  <1> QED BY <1>1 DEF Numbered

(* How the position of a row that stays a member moves. *)
LEMMA PositionMoves ==
    ASSUME rows \in [Documents -> Row], NEW x \in Documents, OneRow(x),
           listing' = listing, NEW d \in Members, d \in Members'
    PROVE  /\ (x \in Members <=> x \in Members') =>
                 Position(d, Members)' = Position(d, Members)
           /\ x \in Members \ Members' =>
                 Position(d, Members)' \in
                    {Position(d, Members), Position(d, Members) - 1}
           /\ x \in Members' \ Members =>
                 \/ Position(d, Members)' = Position(d, Members)
                 \/ /\ Position(d, Members)' = Position(d, Members) + 1
                    /\ Precedes(x, d)'
  <1> DEFINE P == {e \in Members : Precedes(e, d)}
             Q == {e \in Members' : Precedes(e, d)'}
  <1>1. /\ Members' \ {x} = Members \ {x}
        /\ Position(d, Members) = Cardinality(P)
        /\ Position(d, Members)' = Cardinality(Q)
    BY OneMember DEF Position
  <1>2. d \in Documents /\ rows'[d].created = rows[d].created
    BY MemberHasRow DEF OneRow
  <1>3. \A e \in Members \ {x} : Precedes(e, d)' <=> Precedes(e, d)
    BY <1>2, MembersType DEF OneRow, Precedes
  <1>4. P \ {x} = Q \ {x}
    BY <1>1, <1>3
  <1>5. x \in Members => (Precedes(x, d)' <=> Precedes(x, d))
    BY <1>2, MemberHasRow DEF OneRow, Precedes
  <1>6. /\ IsFiniteSet(P) /\ Cardinality(P) \in Nat
        /\ IsFiniteSet(Q) /\ Cardinality(Q) \in Nat
    <2>1. P \in SUBSET Documents /\ Q \in SUBSET Documents
      BY MembersType, <1>1
    <2> QED BY <2>1, FiniteSubset
  <1>7. CASE x \in Members <=> x \in Members'
    <2>1. P = Q
      BY <1>1, <1>3, <1>5, <1>7
    <2> QED BY <1>1, <1>7, <2>1
  <1>8. CASE x \in Members \ Members'
    <2>1. Q = P \ {x}
      BY <1>4, <1>8
    <2>2. Cardinality(Q) \in {Cardinality(P), Cardinality(P) - 1}
      BY <1>6, <2>1, FS_RemoveElement
    <2> QED BY <1>1, <1>8, <2>2
  <1>9. CASE x \in Members' \ Members
    <2>1. P = Q \ {x}
      BY <1>4, <1>9
    <2>2. Cardinality(P) = IF x \in Q THEN Cardinality(Q) - 1 ELSE Cardinality(Q)
      BY <1>6, <2>1, FS_RemoveElement
    <2> QED BY <1>1, <1>6, <1>9, <2>2
  <1> QED BY <1>7, <1>8, <1>9

LEMMA OneMore ==
    ASSUME NEW S \in SUBSET Documents, NEW T \in SUBSET Documents, NEW z,
           T \subseteq S \cup {z}
    PROVE  Cardinality(T) <= Cardinality(S) + 1
  <1>1. IsFiniteSet(S) /\ Cardinality(S) \in Nat /\ Cardinality(T) \in Nat
    BY FiniteSubset
  <1>2. /\ IsFiniteSet(S \cup {z})
        /\ Cardinality(S \cup {z}) \in {Cardinality(S), Cardinality(S) + 1}
    BY <1>1, FS_AddElement
  <1>3. Cardinality(T) <= Cardinality(S \cup {z})
    BY <1>2, FS_Subset
  <1> QED BY <1>1, <1>2, <1>3

LEMMA NoMore ==
    ASSUME NEW S \in SUBSET Documents, NEW T \in SUBSET Documents, T \subseteq S
    PROVE  Cardinality(T) <= Cardinality(S)
  BY FiniteSubset, FS_Subset

(* What a change does to the sets counted by RecoveryInv. *)
LEMMA BelowMoves ==
    ASSUME PagesInv, PagesTypeOK', NEW x \in Documents, OneRow(x), listing' = listing,
           reader' = reader, seen'.steady = seen.steady \cap Members'
    PROVE  Cardinality(Below') <=
              IF x \in Members \ Members' THEN Cardinality(Below) + 1
                                          ELSE Cardinality(Below)
  <1> DEFINE o == reader.offset
  <1>1. /\ Members \in SUBSET Documents /\ rows \in [Documents -> Row]
        /\ o \in Nat /\ seen.steady \subseteq Members /\ Given' = Given
        /\ seen.steady \in SUBSET Documents
    BY MembersType, ReaderType DEF PagesInv, GivenInv, Given
  <1>2. /\ \A d \in Members : Position(d, Members) \in Nat
        /\ \A d, e \in Members : Position(d, Members) = Position(e, Members) => d = e
    BY <1>1, MembersNumbered DEF Numbered
  <1>3. /\ Below \in SUBSET Documents /\ Below' \in SUBSET Documents
        /\ \A d \in Below' : /\ d \in seen.steady \ Given
                             /\ d \in Members /\ d \in Members'
                             /\ Position(d, Members)' < o
        /\ \A d \in seen.steady \ Given : Position(d, Members) < o => d \in Below
    BY <1>1 DEF Below
  <1>4. CASE x \in Members \ Members'
    <2>1. \A d \in Below' : Position(d, Members) < o \/ Position(d, Members) = o
      <3>1. ASSUME NEW d \in Below'
            PROVE  Position(d, Members) < o \/ Position(d, Members) = o
        <4>1. /\ d \in Members /\ d \in Members' /\ Position(d, Members)' < o
              /\ Position(d, Members) \in Nat
          BY <1>2, <1>3
        <4>2. Position(d, Members)' \in
                 {Position(d, Members), Position(d, Members) - 1}
          BY <1>1, <1>4, <4>1, PositionMoves
        <4> QED BY <1>1, <4>1, <4>2
      <3> QED BY <3>1
    <2>2. \E z : Below' \subseteq Below \cup {z}
      <3>1. CASE \E z \in Members : Position(z, Members) = o
        BY <1>2, <1>3, <2>1, <3>1
      <3>2. CASE ~\E z \in Members : Position(z, Members) = o
        BY <1>3, <2>1, <3>2
      <3> QED BY <3>1, <3>2
    <2> QED BY <1>3, <1>4, <2>2, OneMore
  <1>5. CASE ~(x \in Members \ Members')
    <2>1. \A d \in Below' : Position(d, Members) < o
      <3>1. ASSUME NEW d \in Below' PROVE Position(d, Members) < o
        <4>1. /\ d \in Members /\ d \in Members' /\ Position(d, Members)' < o
              /\ Position(d, Members) \in Nat
          BY <1>2, <1>3
        <4>2. Position(d, Members)' \in
                 {Position(d, Members), Position(d, Members) + 1}
          BY <1>1, <1>5, <4>1, PositionMoves
        <4> QED BY <1>1, <4>1, <4>2
      <3> QED BY <3>1
    <2>2. Below' \subseteq Below
      BY <1>3, <2>1
    <2> QED BY <1>3, <1>5, <2>2, NoMore
  <1> QED BY <1>4, <1>5

LEMMA AgainMoves ==
    ASSUME PagesInv, PagesTypeOK', NEW x \in Documents, OneRow(x), listing' = listing,
           reader' = reader
    PROVE  Cardinality(Again') <=
              IF x \in Members' \ Members THEN Cardinality(Again) + 1
                                          ELSE Cardinality(Again)
  <1> DEFINE o == reader.offset
  <1>1. /\ Members \in SUBSET Documents /\ rows \in [Documents -> Row]
        /\ rows' \in [Documents -> Row]
        /\ o \in Nat /\ Given' = Given /\ Given \in SUBSET Documents
    BY MembersType, ReaderType DEF PagesInv, PagesTypeOK, Given
  <1>2. /\ \A d \in Members : Position(d, Members) \in Nat
        /\ \A d, e \in Members : Position(d, Members) = Position(e, Members) => d = e
    BY <1>1, MembersNumbered DEF Numbered
  <1>3. /\ \A d \in Members' : Position(d, Members)' \in Nat
        /\ \A d, e \in Members' : Precedes(d, e)' =>
              Position(d, Members)' < Position(e, Members)'
    <2>1. (rows \in [Documents -> Row])'
      BY <1>1
    <2>2. Numbered'
      BY <2>1, MembersNumbered, PTL
    <2> QED BY <2>2 DEF Numbered
  <1>4. /\ Again \in SUBSET Documents /\ Again' \in SUBSET Documents
        /\ \A d \in Again' : /\ d \in Given /\ d \in Members'
                             /\ Position(d, Members)' >= o
                             /\ d # x => d \in Members
        /\ \A d \in Given \cap Members : Position(d, Members) >= o => d \in Again
    BY <1>1, OneMember DEF Again
  <1>5. CASE x \in Members' \ Members
    <2>1. ASSUME NEW d \in Again', d # x
          PROVE  \/ d \in Again
                 \/ /\ d \in Members /\ Position(d, Members) = o - 1
                    /\ Position(x, Members)' < o
      <3>1. /\ d \in Members /\ d \in Members' /\ Position(d, Members)' >= o
            /\ Position(d, Members) \in Nat /\ Position(x, Members)' \in Nat
            /\ Position(d, Members)' \in Nat
        BY <1>2, <1>3, <1>4, <1>5, <2>1
      <3>2. \/ Position(d, Members)' = Position(d, Members)
            \/ /\ Position(d, Members)' = Position(d, Members) + 1
               /\ Precedes(x, d)'
        BY <1>1, <1>5, <3>1, PositionMoves
      <3>3. Precedes(x, d)' => Position(x, Members)' < Position(d, Members)'
        BY <1>3, <1>5, <3>1
      <3>4. CASE Position(d, Members) >= o
        BY <1>4, <2>1, <3>1, <3>4
      <3>5. CASE ~(Position(d, Members) >= o)
        BY <1>1, <3>1, <3>2, <3>3, <3>5
      <3> QED BY <3>4, <3>5
    <2>2. \E z : Again' \subseteq Again \cup {z}
      <3>1. CASE ~(Position(x, Members)' < o)
        BY <2>1, <3>1
      <3>2. CASE Position(x, Members)' < o
        <4>1. x \notin Again'
          <5>1. x \in Again' => Position(x, Members)' >= o
            BY <1>4
          <5> QED BY <1>1, <1>3, <1>5, <3>2, <5>1
        <4>2. CASE \E z \in Members : Position(z, Members) = o - 1
          BY <1>2, <2>1, <4>1, <4>2
        <4>3. CASE ~\E z \in Members : Position(z, Members) = o - 1
          BY <2>1, <4>1, <4>3
        <4> QED BY <4>2, <4>3
      <3> QED BY <3>1, <3>2
    <2> QED BY <1>4, <1>5, <2>2, OneMore
  <1>6. CASE ~(x \in Members' \ Members)
    <2>1. \A d \in Again' : d \in Again
      <3>1. ASSUME NEW d \in Again' PROVE d \in Again
        <4>1. /\ d \in Members /\ d \in Members' /\ Position(d, Members)' >= o
              /\ Position(d, Members) \in Nat
          BY <1>2, <1>4, <1>6
        <4>2. Position(d, Members)' \in
                 {Position(d, Members), Position(d, Members) - 1}
          BY <1>1, <1>6, <4>1, PositionMoves
        <4>3. Position(d, Members) >= o
          BY <1>1, <4>1, <4>2
        <4> QED BY <1>4, <4>1, <4>3
      <3> QED BY <3>1
    <2> QED BY <1>4, <1>6, <2>1, NoMore
  <1> QED BY <1>5, <1>6

LEMMA ChangeKept ==
    ASSUME PagesInv, NEW x \in Documents, NEW new \in [Documents -> Row],
           Change(new), OneRow(x)
    PROVE  PagesInv'
  <1>1. /\ rows' = new /\ listing' = listing /\ reader' = reader
        /\ reader.state = "walking" /\ Given' = Given
        /\ seen' = [seen EXCEPT !.steady = @ \cap Members',
                                !.left = @ + Cardinality(Members \ Members'),
                                !.came = @ + Cardinality(Members' \ Members)]
        /\ budget' \in [changes: Nat, faults: Nat]
    BY DEF Change, PagesInv, PagesTypeOK, Given
  <1>2. Members' \ {x} = Members \ {x}
    BY <1>1, OneMember
  <1>3. /\ Cardinality(Members \ Members') = IF x \in Members \ Members' THEN 1 ELSE 0
        /\ Cardinality(Members' \ Members) = IF x \in Members' \ Members THEN 1 ELSE 0
    <2>1. /\ Members \ Members' = IF x \in Members \ Members' THEN {x} ELSE {}
          /\ Members' \ Members = IF x \in Members' \ Members THEN {x} ELSE {}
      BY <1>2
    <2> QED BY <2>1, FS_EmptySet, FS_Singleton
  <1>4. /\ seen'.steady = seen.steady \cap Members' /\ seen'.twice = seen.twice
        /\ seen'.left = seen.left + (IF x \in Members \ Members' THEN 1 ELSE 0)
        /\ seen'.came = seen.came + (IF x \in Members' \ Members THEN 1 ELSE 0)
        /\ seen' \in [steady: SUBSET Documents, left: Nat, came: Nat, twice: Nat]
    <2>1. PICK l \in Nat, k \in Nat :
             /\ seen' = [seen EXCEPT !.steady = @ \cap Members',
                                     !.left = @ + l, !.came = @ + k]
             /\ l = IF x \in Members \ Members' THEN 1 ELSE 0
             /\ k = IF x \in Members' \ Members THEN 1 ELSE 0
      BY <1>1, <1>3
    <2>2. seen \in [steady: SUBSET Documents, left: Nat, came: Nat, twice: Nat]
      BY DEF PagesInv, PagesTypeOK
    <2>3. /\ seen'.steady = seen.steady \cap Members' /\ seen'.twice = seen.twice
          /\ seen'.left = seen.left + l /\ seen'.came = seen.came + k
      BY <2>1, <2>2
    <2>4. seen' \in [steady: SUBSET Documents, left: Nat, came: Nat, twice: Nat]
      <3>1. /\ seen.steady \cap Members' \in SUBSET Documents
            /\ seen.left + l \in Nat /\ seen.came + k \in Nat
        BY <2>2
      <3> QED BY <2>1, <2>2, <3>1
    <2> QED BY <2>1, <2>3, <2>4
  <1>5. PagesTypeOK'
    BY <1>1, <1>4 DEF PagesInv, PagesTypeOK
  <1>6. GivenInv'
    <2>1. Given \in SUBSET Documents
      BY ReaderType DEF PagesInv
    <2> QED BY <1>1, <1>4, <2>1 DEF PagesInv, GivenInv, OneRow
  <1>7. DocumentsInv'
    <2>1. \A d \in Given \cup seen.steady :
             After(d, reader.cursor)' <=> After(d, reader.cursor)
      <3>1. \A d \in Given \cup seen.steady : rows[d].status # "NotYet" /\ d \in Documents
        BY MemberHasRow, ReaderType DEF PagesInv, GivenInv
      <3>2. \A d \in Given \cup seen.steady : rows'[d].created = rows[d].created
        BY <3>1 DEF OneRow
      <3> QED BY <1>1, <3>2 DEF After
    <2> QED BY <1>1, <1>4, <2>1 DEF PagesInv, DocumentsInv
  <1>8. RecoveryInv'
    <2>1. /\ Cardinality(Below') <= IF x \in Members \ Members'
                                     THEN Cardinality(Below) + 1 ELSE Cardinality(Below)
          /\ Cardinality(Again') <= IF x \in Members' \ Members
                                     THEN Cardinality(Again) + 1 ELSE Cardinality(Again)
      BY <1>1, <1>4, <1>5, BelowMoves, AgainMoves
    <2>2. /\ Cardinality(Below) \in Nat /\ Cardinality(Again) \in Nat
          /\ Cardinality(Below') \in Nat /\ Cardinality(Again') \in Nat
      <3>1. /\ Below \in SUBSET Documents /\ Again \in SUBSET Documents
            /\ Below' \in SUBSET Documents /\ Again' \in SUBSET Documents
        BY <1>1, <1>4, ReaderType DEF PagesInv, Below, Again
      <3> QED BY <3>1, FiniteSubset
    <2>3. /\ seen.left \in Nat /\ seen.came \in Nat /\ seen.twice \in Nat
      BY ReaderType DEF PagesInv
    <2>4. listing.kind = "recovery" =>
             /\ Cardinality(Below') <= seen'.left
             /\ Cardinality(Again') + seen'.twice <= seen'.came
             /\ seen'.twice <= seen'.came
      BY <1>1, <1>4, <2>1, <2>2, <2>3 DEF PagesInv, RecoveryInv
    <2> QED BY <1>1, <2>4 DEF RecoveryInv
  <1> QED BY <1>5, <1>6, <1>7, <1>8 DEF PagesInv

LEMMA SaveMetadataKept ==
    ASSUME PagesInv, NEW d \in Documents, NEW t \in Times, SaveMetadata(d, t)
    PROVE  PagesInv'
  <1>1. PICK p \in Partitions :
           Change([rows EXCEPT ![d] = [created |-> t, partition |-> p,
                                       status |-> "AVAILABLE"]])
    BY DEF SaveMetadata
  <1> DEFINE new == [rows EXCEPT ![d] = [created |-> t, partition |-> p,
                                         status |-> "AVAILABLE"]]
  <1>2. rows \in [Documents -> Row] /\ rows[d].status = "NotYet"
    BY ReaderType DEF SaveMetadata, PagesInv
  <1>3. new \in [Documents -> Row]
    BY <1>2 DEF Row, DocumentStatus, WrittenStatus
  <1>4. OneRow(d)
    BY <1>1, <1>2 DEF Change, OneRow
  <1> QED BY <1>1, <1>3, <1>4, ChangeKept

LEMMA UpdateMetadataKept ==
    ASSUME PagesInv, NEW d \in Documents, NEW s \in WrittenStatus,
           UpdateMetadata(d, s)
    PROVE  PagesInv'
  <1> DEFINE new == [rows EXCEPT ![d].status = s]
  <1>1. Change(new) /\ rows \in [Documents -> Row]
    BY ReaderType DEF UpdateMetadata, PagesInv
  <1>2. new \in [Documents -> Row] /\ s # "NotYet"
    BY <1>1 DEF Row, DocumentStatus, WrittenStatus
  <1>3. OneRow(d)
    BY <1>1, <1>2 DEF Change, OneRow, Row
  <1> QED BY <1>1, <1>2, <1>3, ChangeKept

LEMMA HardDeleteKept ==
    ASSUME PagesInv, NEW d \in Documents, HardDelete(d)
    PROVE  PagesInv'
  <1> DEFINE new == [rows EXCEPT ![d].status = "Purged"]
  <1>1. Change(new) /\ rows \in [Documents -> Row]
    BY ReaderType DEF HardDelete, PagesInv
  <1>2. new \in [Documents -> Row]
    BY <1>1 DEF Row
  <1>3. OneRow(d)
    BY <1>1 DEF Change, OneRow, Row
  <1> QED BY <1>1, <1>2, <1>3, ChangeKept

-----------------------------------------------------------------------------
(* The specification *)

LEMMA PagesInit == Init => PagesInv
  <1> SUFFICES ASSUME Init PROVE PagesInv
    OBVIOUS
  <1>1. /\ rows \in [Documents -> Row] /\ listing \in Listing
        /\ reader = [state |-> "walking", cursor |-> NoCursor, offset |-> 0,
                     given |-> {}]
        /\ seen = [steady |-> Members, left |-> 0, came |-> 0, twice |-> 0]
        /\ budget = [changes |-> MaxChanges, faults |-> MaxFaults]
    BY DEF Init, InitFrom
  <1>2. PagesTypeOK
    BY <1>1, MembersType, PagesAssumption DEF PagesTypeOK
  <1>3. GivenInv
    BY <1>1 DEF GivenInv, Given
  <1>4. DocumentsInv
    BY <1>1 DEF DocumentsInv, Given
  <1>5. RecoveryInv
    <2>1. Below = {} /\ Again = {}
      BY <1>1, MembersNumbered DEF Below, Again, Given, Numbered
    <2> QED BY <1>1, <2>1, FS_EmptySet DEF RecoveryInv
  <1> QED BY <1>2, <1>3, <1>4, <1>5 DEF PagesInv

LEMMA PagesNext == PagesInv /\ [Next]_vars => PagesInv'
  <1> SUFFICES ASSUME PagesInv, [Next]_vars PROVE PagesInv'
    OBVIOUS
  <1>1. CASE UNCHANGED vars
    <2>1. Members' = Members /\ Given' = Given
      BY <1>1 DEF vars, Members, MetadataStatement, Present, Given
    <2>2. Below' = Below /\ Again' = Again
      BY <1>1, <2>1 DEF vars, Below, Again, Position, Precedes
    <2> QED
      BY <1>1, <2>1, <2>2
      DEF vars, PagesInv, PagesTypeOK, GivenInv, DocumentsInv, RecoveryInv, After
  <1>2. CASE NextPage
    BY <1>2, ListPageKept, ListInternalKept, CutSelectKept
    DEF NextPage, IterDocuments, IterRecoveryCandidates, AsyncIterDocuments,
        AsyncIterRecoveryCandidates, AsyncListPage, AsyncListInternal
  <1> QED
    BY <1>1, <1>2, ForeignCursorKept, SaveMetadataKept, UpdateMetadataKept,
       HardDeleteKept
    DEF Next

LEMMA PagesInvariant == Spec => []PagesInv
  BY PagesInit, PagesNext, PTL DEF Spec

(* What a step gives is of the listing, and of the rest beyond the cursor. *)
LEMMA GivenFrom ==
    ASSUME PagesInv, [Next]_vars
    PROVE  /\ Given' \ Given \subseteq Members
           /\ listing.kind = "documents" => Given' \ Given \subseteq Rest(reader.cursor)
  <1>1. /\ Rest(reader.cursor) \subseteq Members
        /\ Members \in SUBSET Documents /\ rows \in [Documents -> Row]
    BY MembersType, ReaderType DEF Rest, PagesInv
  <1>2. ASSUME NEW s, EndWalk(s) PROVE Given' = Given
    BY <1>2 DEF EndWalk, Given, PagesInv, PagesTypeOK
  <1>3. ASSUME NEW items, NEW s, NEW c, NEW o, Give(items, s, c, o)
        PROVE  Given' = Given \cup items
    BY <1>3 DEF Give, Given
  <1>4. CASE NextPage
    <2>1. CASE Walking("documents") /\ ListPage(reader.cursor)
      <3>1. listing.kind = "documents"
        BY <2>1 DEF Walking
      <3>2. \/ EndWalk("refused")
            \/ StatementFails
            \/ \E items \in SUBSET Rest(reader.cursor), z \in Documents :
                  \/ Give(items, "done", NoCursor, reader.offset)
                  \/ Give(items, "walking", EncodeCursor(z), reader.offset)
            \/ Give(Rest(reader.cursor), "done", NoCursor, reader.offset)
        BY <2>1, <3>1, ListPageCases
      <3> QED BY <1>1, <1>2, <1>3, <3>2 DEF StatementFails
    <2>2. CASE Walking("recovery") /\ ListInternal
      <3>1. listing.kind = "recovery"
        BY <2>2 DEF Walking
      <3>2. \/ EndWalk("refused")
            \/ StatementFails
            \/ ServeCandidates(ListMetadata(Members, reader.offset, listing.limit))
        BY <2>2 DEF ListInternal
      <3>3. ListMetadata(Members, reader.offset, listing.limit) \subseteq Members
        BY DEF ListMetadata
      <3> QED BY <1>2, <1>3, <3>1, <3>2, <3>3 DEF StatementFails, ServeCandidates
    <2>3. CASE CutSelect
      BY <1>2, <2>3 DEF CutSelect
    <2> QED
      BY <1>4, <2>1, <2>2, <2>3
      DEF NextPage, IterDocuments, IterRecoveryCandidates, AsyncIterDocuments,
          AsyncIterRecoveryCandidates, AsyncListPage, AsyncListInternal
  <1>5. CASE ForeignCursor
    <2>1. EndWalk("refused")
      BY <1>5, ForeignRefused DEF ForeignCursor, ListPage
    <2> QED BY <1>2, <2>1
  <1>6. CASE reader' = reader
    BY <1>6 DEF Given
  <1> QED
    BY <1>4, <1>5, <1>6
    DEF Next, SaveMetadata, UpdateMetadata, HardDelete, Change, vars

(***************************************************************************)
(* A walk by cursor skips no row that stayed listed all along, whatever is *)
(* inserted, repaired and purged between its pages (list_page,             *)
(* list_metadata_page).                                                    *)
(***************************************************************************)
THEOREM CursorComplete == Spec => []CursorSkipsNothing
  <1>1. PagesInv => CursorSkipsNothing
    BY DEF PagesInv, DocumentsInv, CursorSkipsNothing, Given
  <1> QED BY <1>1, PagesInvariant, PTL

(***************************************************************************)
(* A walk by offset (iter_recovery_candidates) misses at most one row for  *)
(* each that left the listing meanwhile, and repeats at most one for each  *)
(* that entered it.                                                        *)
(***************************************************************************)
THEOREM OffsetDriftBounded == Spec => []OffsetDrift
  <1>1. ASSUME PagesInv PROVE OffsetDrift
    <2>1. /\ listing.kind \in {"documents", "recovery"}
          /\ seen.left \in Nat /\ seen.came \in Nat
      BY <1>1, ReaderType DEF PagesInv
    <2>2. CASE listing.kind = "documents"
      <3>1. seen.twice = 0 /\ (reader.state = "done" => seen.steady \ Given = {})
        BY <1>1, <2>2 DEF PagesInv, DocumentsInv
      <3> QED BY <2>1, <3>1, FS_EmptySet DEF OffsetDrift, Given
    <2>3. CASE listing.kind = "recovery"
      BY <1>1, <2>3 DEF PagesInv, RecoveryInv, OffsetDrift, Given
    <2> QED BY <2>1, <2>2, <2>3
  <1>2. PagesInv => OffsetDrift
    BY <1>1
  <1> QED BY <1>2, PagesInvariant, PTL

(***************************************************************************)
(* Pages under a cursor follow one another in the order of the listing and *)
(* give no row twice, not even one that left and came back.                *)
(***************************************************************************)
THEOREM PagesInOrder == Spec => PagesDescend
  <1>1. ASSUME PagesInv, PagesInv', [Next]_vars, listing.kind = "documents"
        PROVE  /\ \A d \in reader.given, e \in reader'.given \ reader.given :
                     Precedes(d, e)
               /\ seen'.twice = seen.twice
    <2>1. listing' = listing
      BY <1>1
      DEF Next, NextPage, IterDocuments, IterRecoveryCandidates, AsyncIterDocuments,
          AsyncIterRecoveryCandidates, AsyncListPage, AsyncListInternal,
          ForeignCursor, ListPage, ListInternal, CutSelect, StatementFails, EndWalk,
          ServeCandidates, Give, SaveMetadata, UpdateMetadata, HardDelete, Change,
          vars
    <2>2. seen'.twice = seen.twice
      BY <1>1, <2>1 DEF PagesInv, DocumentsInv
    <2>3. ASSUME NEW d \in Given, NEW e \in Given' \ Given PROVE Precedes(d, e)
      <3>1. /\ e \in Rest(reader.cursor) /\ d \in Documents /\ e \in Documents
            /\ rows \in [Documents -> Row] /\ reader.cursor \in Cursor \cup {NoCursor}
        BY <1>1, GivenFrom, MembersType, ReaderType DEF PagesInv
      <3>2. reader.state = "walking"
        BY <1>1, <2>3
        DEF Next, NextPage, IterDocuments, IterRecoveryCandidates,
            AsyncIterDocuments, AsyncIterRecoveryCandidates, ForeignCursor, Walking,
            SaveMetadata, UpdateMetadata, HardDelete, Change, vars, Given
      <3>3. reader.cursor # NoCursor /\ ~After(d, reader.cursor)
        BY <1>1, <2>3, <3>2 DEF PagesInv, DocumentsInv
      <3>4. After(e, reader.cursor)
        BY <3>1, <3>3 DEF Rest
      <3> QED BY <3>1, <3>3, <3>4, AfterCursor
    <2> QED BY <2>2, <2>3 DEF Given
  <1>2. PagesInv /\ PagesInv' /\ [Next]_vars =>
           [listing.kind = "documents" =>
              /\ \A d \in reader.given, e \in reader'.given \ reader.given :
                    Precedes(d, e)
              /\ seen'.twice = seen.twice]_vars
    BY <1>1
  <1> QED BY <1>2, PagesInvariant, PTL DEF Spec, PagesDescend

(***************************************************************************)
(* A page holds rows of the partition and status asked for; a public one   *)
(* never a deleted or half deleted document, although the rows of both are *)
(* in the table and a status or a cursor may ask for them.                 *)
(***************************************************************************)
THEOREM PagesWithinListing == Spec => PageWithinListing
  <1>1. ASSUME PagesInv, [Next]_vars, NEW d \in reader'.given \ reader.given
        PROVE  /\ rows[d].partition = listing.partition
               /\ Present(d)
               /\ listing.status # AnyStatus => rows[d].status = listing.status
               /\ listing.kind = "documents" =>
                     rows[d].status \notin {"DELETING", "DELETED"}
    <2>1. d \in Members
      BY <1>1, GivenFrom DEF Given
    <2> QED BY <2>1 DEF Members, MetadataStatement, PublicExcluded
  <1>2. PagesInv /\ [Next]_vars =>
           [\A d \in reader'.given \ reader.given :
              /\ rows[d].partition = listing.partition
              /\ Present(d)
              /\ listing.status # AnyStatus => rows[d].status = listing.status
              /\ listing.kind = "documents" =>
                    rows[d].status \notin {"DELETING", "DELETED"}]_vars
    BY <1>1
  <1> QED BY <1>2, PagesInvariant, PTL DEF Spec, PageWithinListing
=============================================================================
