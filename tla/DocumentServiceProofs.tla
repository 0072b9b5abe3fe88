------------------------ MODULE DocumentServiceProofs ------------------------
(***************************************************************************)
(* Theorems about deletions and content reads, for every library, every    *)
(* set of clients and requests, every number of failing calls, lost        *)
(* replies, crashes and cancellations.  They are about AsyncDocSpec, which *)
(* without a cancellation is the synchronous service.                      *)
(***************************************************************************)
EXTENDS AsyncDocumentService, TLAPS

DocPoints == {"idle", "load", "deleting", "remove", "fail", "erase",
              "mark_load", "mark_write", "fetch"}

DocResults == {"None", "Content", "Deleted", "MetadataStoreError",
               "StorageError", "ConsistencyError", "DocumentNotFoundError",
               "DocumentDeletedError", "Crashed", "CancelledError"}

DocTypeOK ==
    /\ meta \in [DocIds -> Rows \cup {None}]
    /\ objects \in [StorageKeys -> Contents \cup {None}]
    /\ faults \in 0 .. MaxFaults
    /\ dpc \in [Clients -> DocPoints]
    /\ dreq \in [Clients -> DocRequests \cup {None}]
    /\ dcopy \in [Clients -> Rows \cup {None}]
    /\ dout \in [Clients -> DocResults]
    /\ dlate \subseteq StorageKeys

-----------------------------------------------------------------------------
(* The inductive invariant *)

(* Nothing but the status of a row ever changes. *)
SameDocument(d, row) ==
    /\ d \in DOMAIN Library
    /\ row \in Rows
    /\ row.part = Library[d].part
    /\ row.file = Library[d].file
    /\ row.content = Library[d].content

KeyOf(d) == StorageKeyOf(d, Library[d])

Available(d) == meta[d] # None /\ meta[d].status = "available"

RowsInv == \A d \in DocIds : meta[d] # None => SameDocument(d, meta[d])

(* Content is there only under the key of a row, and goes before the row   *)
(* says deleted, but not as long as it says available.                     *)
ContentInv ==
    /\ \A k \in StorageKeys :
          objects[k] # None => meta[k[2]] # None /\ k = KeyOf(k[2])
    /\ \A d \in DocIds :
          meta[d] # None =>
             /\ Available(d) => objects[KeyOf(d)] = Library[d].content
             /\ meta[d].status = "deleted" => objects[KeyOf(d)] = None

(* Where the deletion has made its row unavailable; a removal that is under *)
(* way, or has left its mark, is past this.                                *)
PastDeleting == {"remove", "fail", "erase", "mark_load", "mark_write"}

PastRemoval == {"erase", "mark_load", "mark_write"}

(***************************************************************************)
(* What a client may rely on.  What it knows of the row and the content is *)
(* of the kind that other clients cannot undo: an unavailable row never    *)
(* becomes available, removed content never comes back.                    *)
(***************************************************************************)
ClientInv(c) ==
    /\ dpc[c] # "idle" => dreq[c] \in DocRequests
    /\ dpc[c] \notin {"idle", "load"} =>
          SameDocument(Doc(c), dcopy[c]) /\ dcopy[c].part = dreq[c].part
    /\ dpc[c] \notin {"idle", "load", "fetch"} => dreq[c].op # "content"
    /\ dpc[c] \in PastDeleting => ~Available(Doc(c))
    /\ dpc[c] \in PastRemoval => objects[KeyOf(Doc(c))] = None
    /\ dpc[c] = "idle" /\ dout[c] = "Deleted" =>
          /\ dreq[c] \in DocRequests
          /\ Doc(c) \in DOMAIN Library
          /\ ~Available(Doc(c))
          /\ objects[KeyOf(Doc(c))] = None
    /\ NothingFailed /\ dpc[c] = "idle" /\ dout[c] = "ConsistencyError" =>
          dreq[c] \in DocRequests /\ (dreq[c].op = "content" => ~Available(Doc(c)))

LateInv == \A k \in dlate : ~Available(k[2])

DocInv ==
    /\ DocTypeOK
    /\ RowsInv
    /\ ContentInv
    /\ \A c \in Clients : ClientInv(c)
    /\ LateInv

-----------------------------------------------------------------------------
(* What a step leaves alone *)

DocAlone(c) ==
    \A e \in Clients \ {c} : /\ dpc'[e] = dpc[e]
                             /\ dreq'[e] = dreq[e]
                             /\ dcopy'[e] = dcopy[e]
                             /\ dout'[e] = dout[e]

(* Rows keep their identity and go, contents go, failures are used up. *)
RowsShrink ==
    \A d \in DocIds : meta'[d] # None =>
       /\ meta[d] # None
       /\ SameDocument(d, meta'[d])
       /\ meta'[d].status = "available" => meta[d].status = "available"

ContentsShrink == \A k \in StorageKeys : objects'[k] \in {objects[k], None}

FaultsShrink == faults' \in 0 .. MaxFaults /\ faults' <= faults

Shrink == RowsShrink /\ ContentsShrink /\ FaultsShrink

LEMMA LibraryRow ==
    ASSUME NEW d \in DOMAIN Library
    PROVE  /\ d \in DocIds
           /\ KeyOf(d) \in StorageKeys
           /\ KeyOf(d)[2] = d
           /\ SameDocument(d, Library[d])
           /\ \A row : SameDocument(d, row) => StorageKeyOf(d, row) = KeyOf(d)
  BY DocumentAssumption
  DEF KeyOf, StorageKeyOf, StorageKeys, SameDocument, Rows

LEMMA RequestTypes ==
    ASSUME NEW r \in DocRequests
    PROVE  r.doc \in DocIds /\ r.op \in {"soft", "hard", "content"}
  BY DocumentAssumption DEF DocumentRequests

LEMMA ClientTypes ==
    ASSUME DocInv, NEW c \in Clients, dpc[c] # "idle"
    PROVE  /\ dreq[c] \in DocRequests
           /\ Doc(c) \in DocIds
           /\ dpc[c] # "load" => /\ Doc(c) \in DOMAIN Library
                                 /\ SameDocument(Doc(c), dcopy[c])
                                 /\ dcopy[c].part = dreq[c].part
                                 /\ CopyKey(c) = KeyOf(Doc(c))
                                 /\ KeyOf(Doc(c)) \in StorageKeys
  <1>1. dreq[c] \in DocRequests /\ Doc(c) \in DocIds
    BY RequestTypes DEF DocInv, ClientInv, Doc
  <1>2. dpc[c] # "load" => /\ SameDocument(Doc(c), dcopy[c])
                            /\ dcopy[c].part = dreq[c].part
    BY DEF DocInv, ClientInv
  <1>3. dpc[c] # "load" => /\ Doc(c) \in DOMAIN Library
                            /\ CopyKey(c) = KeyOf(Doc(c))
                            /\ KeyOf(Doc(c)) \in StorageKeys
    BY <1>2, LibraryRow DEF SameDocument, CopyKey
  <1> QED BY <1>1, <1>2, <1>3

LEMMA AnswerShrinks ==
    ASSUME DocInv, NEW o \in Replies, Answer(o)
    PROVE  FaultsShrink /\ (o # "ok" => faults' < MaxFaults)
  BY BoundsAssumption DEF DocInv, DocTypeOK, Answer, FaultsShrink

LEMMA OtherClient ==
    ASSUME DocInv, NEW c \in Clients, NEW e \in Clients \ {c},
           DocAlone(c), Shrink
    PROVE  ClientInv(e)'
  <1>1. /\ dpc'[e] = dpc[e] /\ dreq'[e] = dreq[e]
        /\ dcopy'[e] = dcopy[e] /\ dout'[e] = dout[e] /\ Doc(e)' = Doc(e)
    BY DEF DocAlone, Doc
  <1>2. ClientInv(e)
    BY DEF DocInv
  <1>3. Doc(e) \in DocIds /\ ~Available(Doc(e)) => ~Available(Doc(e))'
    BY <1>1 DEF Shrink, RowsShrink, Available
  <1>4. Doc(e) \in DOMAIN Library /\ objects[KeyOf(Doc(e))] = None
           => (objects[KeyOf(Doc(e))] = None)'
    <2>1. ASSUME Doc(e) \in DOMAIN Library, objects[KeyOf(Doc(e))] = None
          PROVE  objects'[KeyOf(Doc(e))] = None
      BY <2>1, LibraryRow DEF Shrink, ContentsShrink
    <2> QED BY <1>1, <2>1 DEF KeyOf
  <1>5. NothingFailed' => NothingFailed
    BY BoundsAssumption
    DEF NothingFailed, Shrink, FaultsShrink, DocInv, DocTypeOK
  <1>6. dreq[e] \in DocRequests => Doc(e) \in DocIds
    BY RequestTypes DEF Doc
  <1>7. dpc[e] \in PastDeleting => Doc(e) \in DOMAIN Library
    BY ClientTypes DEF PastDeleting
  <1>8. dpc[e] \in PastDeleting => dreq[e] \in DocRequests
    BY <1>2 DEF ClientInv, PastDeleting
  <1>9. SameDocument(Doc(e), dcopy[e]) => SameDocument(Doc(e), dcopy[e])'
    BY <1>1 DEF SameDocument
  <1>10. PastRemoval \subseteq PastDeleting
    BY DEF PastRemoval, PastDeleting
  <1> QED
    BY <1>1, <1>2, <1>3, <1>4, <1>5, <1>6, <1>7, <1>8, <1>9, <1>10
    DEF ClientInv

-----------------------------------------------------------------------------
(* The stores after a step *)

LEMMA StaysUnavailable ==
    ASSUME Shrink, NEW d \in DocIds, ~Available(d)
    PROVE  ~Available(d)'
  BY DEF Shrink, RowsShrink, Available

LEMMA LateKept ==
    ASSUME DocInv, Shrink, dlate' \subseteq dlate
    PROVE  LateInv' /\ dlate' \subseteq StorageKeys
  BY StaysUnavailable DEF DocInv, DocTypeOK, LateInv, StorageKeys

StoresKept == /\ meta' \in [DocIds -> Rows \cup {None}]
              /\ objects' \in [StorageKeys -> Contents \cup {None}]
              /\ ContentInv'

LEMMA StoresUnchanged ==
    ASSUME DocInv, meta' = meta, objects' = objects, FaultsShrink
    PROVE  Shrink /\ StoresKept
  <1>1. RowsShrink
    BY DEF DocInv, RowsInv, RowsShrink
  <1>2. ContentsShrink /\ StoresKept
    BY DEF DocInv, DocTypeOK, ContentsShrink, StoresKept, ContentInv,
           Available, KeyOf
  <1> QED BY <1>1, <1>2 DEF Shrink

(* Merging an unavailable copy of a document into its row. *)
LEMMA RowWrite ==
    ASSUME DocInv, NEW d \in DocIds, NEW row, SameDocument(d, row),
           row.status # "available",
           row.status = "deleted" => objects[KeyOf(d)] = None,
           NEW found, NEW o, UpdateMetadata(d, row, found, o), FaultsShrink,
           objects' = objects
    PROVE  /\ Shrink /\ StoresKept
           /\ Updated(d, found, o) => ~Available(d)'
  <1>1. /\ meta \in [DocIds -> Rows \cup {None}]
        /\ row \in Rows /\ row # None
        /\ meta[d] # None => SameDocument(d, meta[d])
    BY NoneAssumption DEF DocInv, DocTypeOK, RowsInv, SameDocument
  <1>2. CASE Applied(o) /\ found /\ Exists(d)
    <2>1. PICK r \in Merged(d, row) : meta' = [meta EXCEPT ![d] = r]
      BY <1>2 DEF UpdateMetadata
    <2>2. r = row
      BY <1>1, <1>2, <2>1 DEF Merged, SameDocument, Exists, Rows
    <2>3. /\ meta' \in [DocIds -> Rows \cup {None}]
          /\ meta'[d] = row /\ meta[d] # None
          /\ \A e \in DocIds \ {d} : meta'[e] = meta[e]
      BY <1>1, <1>2, <2>1, <2>2 DEF Exists
    <2>4. RowsShrink
      BY <2>3 DEF RowsShrink, DocInv, RowsInv
    <2>5. ContentInv'
      BY <1>1, <2>3 DEF ContentInv, DocInv, KeyOf, Available, StorageKeys
    <2> QED
      BY <1>1, <2>3, <2>4, <2>5
      DEF Shrink, ContentsShrink, StoresKept, Available, DocInv, DocTypeOK
  <1>3. CASE ~(Applied(o) /\ found /\ Exists(d))
    <2>1. meta' = meta
      BY <1>3 DEF UpdateMetadata
    <2> QED BY <1>3, <2>1, StoresUnchanged DEF Applied, Updated
  <1> QED BY <1>2, <1>3

(* Removing the row of a document whose content is gone. *)
LEMMA RowRemoval ==
    ASSUME DocInv, NEW d \in DOMAIN Library, objects[KeyOf(d)] = None,
           NEW found, NEW o, HardDelete(d, found, o), FaultsShrink,
           objects' = objects
    PROVE  Shrink /\ StoresKept
  <1>1. /\ meta \in [DocIds -> Rows \cup {None}] /\ d \in DocIds
        /\ meta' = IF Applied(o) /\ found
                     THEN [meta EXCEPT ![d] = None] ELSE meta
    BY LibraryRow DEF DocInv, DocTypeOK, HardDelete
  <1>2. CASE Applied(o) /\ found
    <2>1. /\ meta' \in [DocIds -> Rows \cup {None}]
          /\ meta'[d] = None
          /\ \A e \in DocIds \ {d} : meta'[e] = meta[e]
      BY <1>1, <1>2
    <2>2. RowsShrink
      BY <2>1 DEF RowsShrink, DocInv, RowsInv
    <2>3. ContentInv'
      BY <1>1, <2>1 DEF ContentInv, DocInv, KeyOf, Available, StorageKeys
    <2> QED
      BY <1>1, <2>1, <2>2, <2>3
      DEF Shrink, ContentsShrink, StoresKept, DocInv, DocTypeOK
  <1>3. CASE ~(Applied(o) /\ found)
    BY <1>1, <1>3, StoresUnchanged
  <1> QED BY <1>2, <1>3

(* Removing the content of a document that is not available. *)
LEMMA ContentRemoval ==
    ASSUME DocInv, NEW k \in StorageKeys, ~Available(k[2]),
           objects' \in {objects, [objects EXCEPT ![k] = None]},
           meta' = meta, FaultsShrink
    PROVE  Shrink /\ StoresKept
  <1>1. CASE objects' = objects
    BY <1>1, StoresUnchanged
  <1>2. CASE objects' = [objects EXCEPT ![k] = None]
    <2>1. /\ objects' \in [StorageKeys -> Contents \cup {None}]
          /\ objects'[k] = None
          /\ \A j \in StorageKeys \ {k} : objects'[j] = objects[j]
      BY <1>2 DEF DocInv, DocTypeOK
    <2>2. RowsShrink /\ ContentsShrink
      BY <2>1 DEF RowsShrink, ContentsShrink, DocInv, RowsInv
    <2>3. \A d \in DocIds : meta[d] # None =>
             /\ KeyOf(d) \in StorageKeys
             /\ KeyOf(d)[2] = d
             /\ Available(d) => KeyOf(d) # k
      BY LibraryRow DEF DocInv, RowsInv, SameDocument
    <2>4. ContentInv'
      BY <2>1, <2>3 DEF ContentInv, DocInv, KeyOf, Available
    <2> QED BY <2>1, <2>2, <2>4 DEF Shrink, StoresKept, DocInv, DocTypeOK
  <1> QED BY <1>1, <1>2

-----------------------------------------------------------------------------
(* The client after a step *)

ClientsTyped == /\ dpc' \in [Clients -> DocPoints]
                /\ dreq' \in [Clients -> DocRequests \cup {None}]
                /\ dcopy' \in [Clients -> Rows \cup {None}]
                /\ dout' \in [Clients -> DocResults]

(* What remains to be shown of a step of client c. *)
LEMMA DocStepInv ==
    ASSUME DocInv, NEW c \in Clients, DocAlone(c), Shrink, StoresKept,
           ClientsTyped, ClientInv(c)', LateInv', dlate' \subseteq StorageKeys
    PROVE  DocInv'
  <1>1. \A e \in Clients : ClientInv(e)'
    BY OtherClient
  <1>2. RowsInv'
    BY DEF Shrink, RowsShrink, RowsInv, SameDocument
  <1>3. DocTypeOK'
    BY DEF DocTypeOK, StoresKept, ClientsTyped, Shrink, FaultsShrink
  <1> QED BY <1>1, <1>2, <1>3 DEF DocInv, StoresKept

(* A step that ends a call. *)
LEMMA DocReturned ==
    ASSUME DocInv, NEW c \in Clients, dpc[c] # "idle",
           NEW res \in DocResults, DocReturn(c, res),
           dreq' = dreq, dcopy' = dcopy, Shrink, StoresKept,
           LateInv', dlate' \subseteq StorageKeys,
           res = "Deleted" => /\ Doc(c) \in DOMAIN Library
                              /\ ~Available(Doc(c))'
                              /\ objects'[KeyOf(Doc(c))] = None,
           res = "ConsistencyError" /\ dreq[c].op = "content" =>
              (NothingFailed' => ~Available(Doc(c))')
    PROVE  DocInv'
  <1>1. /\ ClientsTyped /\ DocAlone(c)
        /\ dpc'[c] = "idle" /\ dout'[c] = res /\ Doc(c)' = Doc(c)
    BY DEF DocInv, DocTypeOK, DocReturn, ClientsTyped, DocAlone, DocPoints, Doc
  <1>2. dreq'[c] \in DocRequests
    BY ClientTypes
  <1>3. (objects[KeyOf(Doc(c))] = None)' <=> objects'[KeyOf(Doc(c))] = None
    BY <1>1 DEF KeyOf
  <1>4. Available(Doc(c))' <=> meta'[Doc(c)] # None
                              /\ meta'[Doc(c)].status = "available"
    BY <1>1 DEF Available
  <1>5. ClientInv(c)'
    BY <1>1, <1>2, <1>3, <1>4
    DEF ClientInv, PastDeleting, PastRemoval, Available
  <1> QED BY <1>1, <1>5, DocStepInv

(* A step that goes on with the deletion. *)
LEMMA DocWent ==
    ASSUME DocInv, NEW c \in Clients, dpc[c] # "idle",
           NEW p \in DocPoints \ {"idle", "load"}, DocGoto(c, p),
           dreq' = dreq, DocAlone(c), dcopy' \in [Clients -> Rows \cup {None}],
           Shrink, StoresKept, LateInv', dlate' \subseteq StorageKeys,
           SameDocument(Doc(c), dcopy'[c]), dcopy'[c].part = dreq[c].part,
           p # "fetch" => dreq[c].op # "content",
           p \in PastDeleting => ~Available(Doc(c))',
           p \in PastRemoval => objects'[KeyOf(Doc(c))] = None
    PROVE  DocInv'
  <1>1. /\ ClientsTyped
        /\ dpc'[c] = p /\ dreq'[c] = dreq[c] /\ Doc(c)' = Doc(c)
    BY DEF DocInv, DocTypeOK, DocGoto, ClientsTyped, Doc
  <1>2. dreq'[c] \in DocRequests
    BY ClientTypes
  <1>3. (objects[KeyOf(Doc(c))] = None)' <=> objects'[KeyOf(Doc(c))] = None
    BY <1>1 DEF KeyOf
  <1>4. SameDocument(Doc(c), dcopy[c])'
    BY <1>1 DEF SameDocument
  <1>5. Available(Doc(c))' <=> meta'[Doc(c)] # None
                              /\ meta'[Doc(c)].status = "available"
    BY <1>1 DEF Available
  <1>6. ClientInv(c)'
    BY <1>1, <1>2, <1>3, <1>4, <1>5 DEF ClientInv, Available
  <1> QED BY <1>1, <1>6, DocStepInv

-----------------------------------------------------------------------------
(* The actions *)

LEMMA DocInitially == AsyncDocInit => DocInv
  <1> SUFFICES ASSUME AsyncDocInit PROVE DocInv
    OBVIOUS
  <1>1. \A d \in DocIds : meta[d] = IF d \in DOMAIN Library
                                     THEN Library[d] ELSE None
    BY DEF AsyncDocInit, DocInit
  <1>2. RowsInv
    BY <1>1, LibraryRow DEF RowsInv
  <1>3. \A k \in StorageKeys :
           objects[k] = IF k[2] \in DOMAIN Library /\ KeyOf(k[2]) = k
                          THEN Library[k[2]].content ELSE None
    BY DEF AsyncDocInit, DocInit, KeyOf
  <1>4. \A d \in DOMAIN Library :
           /\ Library[d] \in Rows /\ Library[d] # None
           /\ Library[d].status = "available"
           /\ Library[d].content \in Contents
    BY DocumentAssumption, NoneAssumption DEF Rows
  <1>5. ContentInv
    <2>1. \A k \in StorageKeys : k[2] \in DocIds
      BY DEF StorageKeys
    <2>2. ASSUME NEW k \in StorageKeys, objects[k] # None
          PROVE  meta[k[2]] # None /\ k = KeyOf(k[2])
      BY <1>1, <1>3, <1>4, <2>1, <2>2
    <2>3. ASSUME NEW d \in DocIds, meta[d] # None
          PROVE  /\ Available(d) => objects[KeyOf(d)] = Library[d].content
                 /\ meta[d].status # "deleted"
      BY <1>1, <1>3, <1>4, <2>3, LibraryRow
    <2> QED BY <2>2, <2>3 DEF ContentInv
  <1>6. DocTypeOK
    <2>1. meta \in [DocIds -> Rows \cup {None}]
      BY <1>4 DEF AsyncDocInit, DocInit
    <2>2. objects \in [StorageKeys -> Contents \cup {None}]
      BY <1>4 DEF AsyncDocInit, DocInit
    <2>3. faults \in 0 .. MaxFaults
      BY BoundsAssumption DEF AsyncDocInit, DocInit
    <2>4. /\ dpc \in [Clients -> DocPoints]
          /\ dreq \in [Clients -> DocRequests \cup {None}]
          /\ dcopy \in [Clients -> Rows \cup {None}]
      BY DEF AsyncDocInit, DocInit, DocPoints
    <2>5. dout \in [Clients -> DocResults] /\ dlate \subseteq StorageKeys
      BY DEF AsyncDocInit, DocInit, DocResults
    <2> QED BY <2>1, <2>2, <2>3, <2>4, <2>5 DEF DocTypeOK
  <1>7. (\A c \in Clients : ClientInv(c)) /\ LateInv
    BY DEF AsyncDocInit, DocInit, ClientInv, LateInv, PastDeleting, PastRemoval
  <1> QED BY <1>2, <1>5, <1>6, <1>7 DEF DocInv

LEMMA KeptRequest ==
    ASSUME DocInv, NEW c \in Clients, NEW r \in DocRequests, Request(c, r),
           dlate' = dlate
    PROVE  DocInv'
  <1>1. /\ meta' = meta /\ objects' = objects /\ faults' = faults
        /\ dpc'[c] = "load" /\ dreq'[c] = r
    BY DEF Request, storeVars, DocInv, DocTypeOK
  <1>4. DocAlone(c) /\ ClientsTyped
    <2>1. DocAlone(c)
      BY DEF Request, DocAlone, DocInv, DocTypeOK
    <2>2. dpc' \in [Clients -> DocPoints] /\ dout' \in [Clients -> DocResults]
      BY DEF Request, DocInv, DocTypeOK, DocPoints, DocResults
    <2>3. /\ dreq' \in [Clients -> DocRequests \cup {None}]
          /\ dcopy' \in [Clients -> Rows \cup {None}]
      BY DEF Request, DocInv, DocTypeOK
    <2> QED BY <2>1, <2>2, <2>3 DEF ClientsTyped
  <1>2. Shrink /\ StoresKept
    BY <1>1, StoresUnchanged, BoundsAssumption
    DEF FaultsShrink, DocInv, DocTypeOK
  <1>3. ClientInv(c)'
    BY <1>1 DEF ClientInv, PastDeleting, PastRemoval
  <1> QED BY <1>2, <1>3, <1>4, LateKept, DocStepInv

(* A call on a store answers, or is one of the failures that are left. *)
LEMMA AnswerKept ==
    ASSUME DocInv, NEW o \in Replies, Answer(o), meta' = meta,
           objects' = objects, dlate' = dlate
    PROVE  /\ Shrink /\ StoresKept /\ LateInv' /\ dlate' \subseteq StorageKeys
           /\ NothingFailed' => o = "ok" /\ NothingFailed
  <1>1. FaultsShrink /\ (o # "ok" => faults' < MaxFaults)
    BY AnswerShrinks
  <1>2. NothingFailed' => o = "ok" /\ NothingFailed
    BY <1>1, BoundsAssumption
    DEF NothingFailed, FaultsShrink, DocInv, DocTypeOK
  <1> QED BY <1>1, <1>2, StoresUnchanged, LateKept

LEMMA KeptLoad ==
    ASSUME DocInv, NEW c \in Clients, Load(c), dlate' = dlate
    PROVE  DocInv'
  <1>1. PICK o \in ReadReplies :
           /\ Answer(o)
           /\ \/ DocReturn(c, "MetadataStoreError") /\ UNCHANGED dcopy
              \/ DocReturn(c, "DocumentNotFoundError") /\ UNCHANGED dcopy
              \/ /\ InPartition(Doc(c), dreq[c].part)
                 /\ dcopy' = [dcopy EXCEPT ![c] = meta[Doc(c)]]
                 /\ \/ DocReturn(c, "DocumentDeletedError")
                    \/ DocGoto(c, AfterLoad(c))
    BY DEF Load
  <1>2. /\ dpc[c] = "load" /\ dreq' = dreq
        /\ meta' = meta /\ objects' = objects /\ o \in Replies
    BY DEF Load, ReadReplies, Replies
  <1>3. Shrink /\ StoresKept /\ LateInv' /\ dlate' \subseteq StorageKeys
    BY <1>1, <1>2, AnswerKept
  <1>4. CASE \E res \in {"MetadataStoreError", "DocumentNotFoundError"} :
               DocReturn(c, res) /\ dcopy' = dcopy
    <2>1. PICK res \in {"MetadataStoreError", "DocumentNotFoundError"} :
             DocReturn(c, res) /\ dcopy' = dcopy
      BY <1>4
    <2>2. /\ res \in DocResults /\ res # "Deleted" /\ res # "ConsistencyError"
          /\ dpc[c] # "idle"
      BY <1>2 DEF DocResults
    <2> QED BY <1>2, <1>3, <2>1, <2>2, DocReturned
  <1>5. CASE /\ InPartition(Doc(c), dreq[c].part)
             /\ dcopy' = [dcopy EXCEPT ![c] = meta[Doc(c)]]
             /\ \/ DocReturn(c, "DocumentDeletedError")
                \/ DocGoto(c, AfterLoad(c))
    <2>1. /\ dreq[c] \in DocRequests /\ Doc(c) \in DocIds
          /\ SameDocument(Doc(c), meta[Doc(c)])
          /\ meta[Doc(c)].part = dreq[c].part
      BY <1>2, <1>5, ClientTypes DEF InPartition, DocInv, RowsInv
    <2>2. /\ dcopy' \in [Clients -> Rows \cup {None}]
          /\ dcopy'[c] = meta[Doc(c)]
          /\ \A e \in Clients \ {c} : dcopy'[e] = dcopy[e]
      BY <1>5, <2>1 DEF DocInv, DocTypeOK, SameDocument
    <2>3. CASE DocGoto(c, AfterLoad(c))
      <3>1. /\ AfterLoad(c) \in {"fetch", "deleting"}
            /\ AfterLoad(c) # "fetch" => dreq[c].op # "content"
        BY DEF AfterLoad
      <3>2. DocAlone(c)
        BY <1>2, <2>2, <2>3 DEF DocAlone, DocGoto, DocInv, DocTypeOK
      <3> QED
        BY <1>2, <1>3, <2>1, <2>2, <2>3, <3>1, <3>2, DocWent
        DEF DocPoints, PastDeleting, PastRemoval
    <2>4. CASE DocReturn(c, "DocumentDeletedError")
      <3>1. /\ dpc' \in [Clients -> DocPoints] /\ dout' \in [Clients -> DocResults]
            /\ dpc'[c] = "idle" /\ dout'[c] = "DocumentDeletedError"
            /\ \A e \in Clients \ {c} : dpc'[e] = dpc[e] /\ dout'[e] = dout[e]
        BY <2>4 DEF DocInv, DocTypeOK, DocReturn, DocPoints, DocResults
      <3>3. ClientsTyped /\ DocAlone(c)
        BY <1>2, <2>2, <3>1 DEF DocInv, DocTypeOK, ClientsTyped, DocAlone
      <3>2. ClientInv(c)'
        BY <3>1 DEF ClientInv, PastDeleting, PastRemoval
      <3> QED BY <1>3, <3>2, <3>3, DocStepInv
    <2> QED BY <1>5, <2>3, <2>4
  <1> QED BY <1>1, <1>4, <1>5

(* A read that finds no content found a document made unavailable. *)
LEMMA KeptFetch ==
    ASSUME DocInv, NEW c \in Clients, Fetch(c), dlate' = dlate
    PROVE  DocInv'
  <1>1. PICK o \in ReadReplies :
           /\ Answer(o)
           /\ DocReturn(c, IF o = "ok" /\ objects[CopyKey(c)] # None
                             THEN "Content" ELSE "ConsistencyError")
    BY DEF Fetch
  <1>2. /\ dpc[c] = "fetch" /\ dreq' = dreq /\ dcopy' = dcopy
        /\ meta' = meta /\ objects' = objects /\ o \in Replies
    BY DEF Fetch, ReadReplies, Replies
  <1>3. /\ Shrink /\ StoresKept /\ LateInv' /\ dlate' \subseteq StorageKeys
        /\ NothingFailed' => o = "ok"
    BY <1>1, <1>2, AnswerKept
  <1>4. /\ CopyKey(c) = KeyOf(Doc(c)) /\ Doc(c) \in DocIds
        /\ Doc(c) \in DOMAIN Library
    BY <1>2, ClientTypes
  <1>5. objects[KeyOf(Doc(c))] = None => ~Available(Doc(c))
    <2>1. Library[Doc(c)].content # None
      BY <1>4, DocumentAssumption, NoneAssumption DEF Rows
    <2> QED BY <1>4, <2>1 DEF DocInv, ContentInv, Available
  <1>6. ~Available(Doc(c)) => ~Available(Doc(c))'
    BY <1>2 DEF Available, Doc
  <1>7. CASE o = "ok" /\ objects[CopyKey(c)] # None
    <2>1. DocReturn(c, "Content") /\ "Content" \in DocResults
      BY <1>1, <1>7 DEF DocResults
    <2> QED BY <1>2, <1>3, <2>1, DocReturned
  <1>8. CASE ~(o = "ok" /\ objects[CopyKey(c)] # None)
    <2>1. DocReturn(c, "ConsistencyError") /\ "ConsistencyError" \in DocResults
      BY <1>1, <1>8 DEF DocResults
    <2>2. NothingFailed' => ~Available(Doc(c))'
      BY <1>3, <1>4, <1>5, <1>6, <1>8
    <2> QED BY <1>2, <1>3, <2>1, <2>2, DocReturned
  <1> QED BY <1>7, <1>8

LEMMA KeptSetDeleting ==
    ASSUME DocInv, NEW c \in Clients, SetDeleting(c), dlate' = dlate
    PROVE  DocInv'
  <1> DEFINE row == WithStatus(dcopy[c], "deleting")
  <1>1. PICK o \in Replies, found \in BOOLEAN :
           /\ UpdateMetadata(Doc(c), row, found, o)
           /\ IF Updated(Doc(c), found, o)
                THEN /\ dcopy' = [dcopy EXCEPT ![c].status = "deleting"]
                     /\ DocGoto(c, "remove")
                ELSE /\ DocReturn(c, "MetadataStoreError")
                     /\ UNCHANGED dcopy
    BY DEF SetDeleting, Lookup
  <1>2. /\ dpc[c] = "deleting" /\ dreq' = dreq /\ objects' = objects
        /\ Doc(c) \in DocIds /\ SameDocument(Doc(c), dcopy[c])
        /\ dcopy[c].part = dreq[c].part /\ dreq[c].op # "content"
    BY ClientTypes DEF SetDeleting, DocInv, ClientInv
  <1>3. /\ SameDocument(Doc(c), row) /\ row.status = "deleting"
        /\ row.part = dcopy[c].part
    BY <1>2 DEF SameDocument, WithStatus, Rows, DocumentStatus
  <1>4. FaultsShrink
    BY <1>1, AnswerShrinks DEF UpdateMetadata
  <1>5. /\ Shrink /\ StoresKept
        /\ Updated(Doc(c), found, o) => ~Available(Doc(c))'
    <2>1. Updated(Doc(c), found, o) =>
             (meta'[Doc(c)] # None => meta'[Doc(c)].status # "available")
      BY <1>1, <1>2, <1>3, <1>4, RowWrite DEF Available
    <2>2. Doc(c)' = Doc(c)
      BY <1>2 DEF Doc
    <2> QED BY <1>1, <1>2, <1>3, <1>4, <2>1, <2>2, RowWrite DEF Available
  <1>6. LateInv' /\ dlate' \subseteq StorageKeys
    BY <1>5, LateKept
  <1>7. CASE Updated(Doc(c), found, o)
    <2>1. /\ dcopy' \in [Clients -> Rows \cup {None}]
          /\ SameDocument(Doc(c), dcopy'[c])
          /\ dcopy'[c].part = dreq[c].part
          /\ \A e \in Clients \ {c} : dcopy'[e] = dcopy[e]
      BY <1>1, <1>2, <1>7
      DEF DocInv, DocTypeOK, SameDocument, Rows, DocumentStatus
    <2>2. DocAlone(c)
      BY <1>1, <1>2, <1>7, <2>1 DEF DocAlone, DocGoto, DocInv, DocTypeOK
    <2> QED
      BY <1>1, <1>2, <1>3, <1>5, <1>6, <1>7, <2>1, <2>2, DocWent
      DEF DocPoints, PastRemoval
  <1>8. CASE ~(Updated(Doc(c), found, o))
    <2>1. DocReturn(c, "MetadataStoreError")
          /\ "MetadataStoreError" \in DocResults /\ dcopy' = dcopy
      BY <1>1, <1>8 DEF DocResults
    <2> QED BY <1>2, <1>5, <1>6, <2>1, DocReturned
  <1> QED BY <1>7, <1>8

LEMMA KeptRemove ==
    ASSUME DocInv, NEW c \in Clients, Remove(c), dlate' = dlate
    PROVE  DocInv'
  <1>1. PICK o \in Replies :
           /\ DeleteObject(CopyKey(c), o)
           /\ DocGoto(c, IF o = "ok" THEN AfterRemove(c) ELSE "fail")
    BY DEF Remove
  <1>2. /\ dpc[c] = "remove" /\ dreq' = dreq /\ dcopy' = dcopy
        /\ meta' = meta /\ Doc(c)' = Doc(c)
        /\ dreq[c].op # "content"
        /\ ~Available(Doc(c)) /\ ~Available(Doc(c))'
    BY DEF Remove, DocInv, ClientInv, PastDeleting, Available, Doc
  <1>3. /\ SameDocument(Doc(c), dcopy[c]) /\ dcopy[c].part = dreq[c].part
        /\ CopyKey(c) = KeyOf(Doc(c)) /\ KeyOf(Doc(c)) \in StorageKeys
        /\ KeyOf(Doc(c))[2] = Doc(c)
    BY <1>2, ClientTypes, LibraryRow
  <1>4. FaultsShrink
    BY <1>1, AnswerShrinks DEF DeleteObject
  <1>5. objects' \in {objects, [objects EXCEPT ![CopyKey(c)] = None]}
    BY <1>1 DEF DeleteObject
  <1>6. Shrink /\ StoresKept
    BY <1>2, <1>3, <1>4, <1>5, ContentRemoval
  <1>7. LateInv' /\ dlate' \subseteq StorageKeys
    BY <1>6, LateKept
  <1>8. o = "ok" => objects'[KeyOf(Doc(c))] = None
    BY <1>1, <1>3 DEF DeleteObject, Applied, DocInv, DocTypeOK
  <1>9. DocAlone(c) /\ dcopy' \in [Clients -> Rows \cup {None}]
    BY <1>1, <1>2 DEF DocAlone, DocGoto, DocInv, DocTypeOK
  <1>10. CASE o = "ok"
    <2>1. DocGoto(c, AfterRemove(c)) /\ AfterRemove(c) \in {"erase", "mark_load"}
      BY <1>1, <1>10 DEF AfterRemove
    <2> QED
      BY <1>2, <1>3, <1>6, <1>7, <1>8, <1>9, <1>10, <2>1, DocWent DEF DocPoints
  <1>11. CASE o # "ok"
    <2>1. DocGoto(c, "fail")
      BY <1>1, <1>11
    <2> QED
      BY <1>2, <1>3, <1>6, <1>7, <1>9, <2>1, DocWent
      DEF DocPoints, PastRemoval
  <1> QED BY <1>10, <1>11

LEMMA KeptSetFailed ==
    ASSUME DocInv, NEW c \in Clients, SetFailed(c), dlate' = dlate
    PROVE  DocInv'
  <1> DEFINE row == WithStatus(dcopy[c], "failed")
  <1>1. PICK o \in Replies, found \in BOOLEAN :
           UpdateMetadata(Doc(c), row, found, o)
    BY DEF SetFailed, Lookup
  <1>2. /\ dpc[c] = "fail" /\ dreq' = dreq /\ dcopy' = dcopy
        /\ objects' = objects
        /\ Doc(c) \in DocIds /\ SameDocument(Doc(c), dcopy[c])
        /\ DocReturn(c, "StorageError") /\ "StorageError" \in DocResults
    BY ClientTypes DEF SetFailed, DocResults
  <1>3. SameDocument(Doc(c), row) /\ row.status = "failed"
    BY <1>2 DEF SameDocument, WithStatus, Rows, DocumentStatus
  <1>4. FaultsShrink
    BY <1>1, AnswerShrinks DEF UpdateMetadata
  <1>5. Shrink /\ StoresKept
    BY <1>1, <1>2, <1>3, <1>4, RowWrite
  <1>6. LateInv' /\ dlate' \subseteq StorageKeys
    BY <1>5, LateKept
  <1> QED BY <1>2, <1>5, <1>6, DocReturned

LEMMA KeptErase ==
    ASSUME DocInv, NEW c \in Clients, Erase(c), dlate' = dlate
    PROVE  DocInv'
  <1>1. PICK o \in Replies, found \in BOOLEAN :
           /\ HardDelete(Doc(c), found, o)
           /\ \/ DocReturn(c, "ConsistencyError")
              \/ DocReturn(c, "Deleted")
    BY DEF Erase, Lookup
  <1>2. /\ dpc[c] = "erase" /\ dreq' = dreq /\ dcopy' = dcopy
        /\ objects' = objects /\ Doc(c)' = Doc(c)
        /\ Doc(c) \in DOMAIN Library /\ Doc(c) \in DocIds
        /\ objects[KeyOf(Doc(c))] = None /\ ~Available(Doc(c))
        /\ dreq[c].op # "content"
    BY ClientTypes
    DEF Erase, DocInv, ClientInv, PastDeleting, PastRemoval, Doc
  <1>3. FaultsShrink
    BY <1>1, AnswerShrinks DEF HardDelete
  <1>4. Shrink /\ StoresKept
    BY <1>1, <1>2, <1>3, RowRemoval
  <1>5. LateInv' /\ dlate' \subseteq StorageKeys /\ ~Available(Doc(c))'
    BY <1>2, <1>4, LateKept, StaysUnavailable DEF Available
  <1>6. "Deleted" \in DocResults /\ "ConsistencyError" \in DocResults
    BY DEF DocResults
  <1> QED BY <1>1, <1>2, <1>4, <1>5, <1>6, DocReturned

LEMMA KeptMarkLoad ==
    ASSUME DocInv, NEW c \in Clients, MarkLoad(c), dlate' = dlate
    PROVE  DocInv'
  <1>1. PICK o \in ReadReplies :
           /\ Answer(o)
           /\ \/ /\ InPartition(Doc(c), dreq[c].part)
                 /\ dcopy' = [dcopy EXCEPT ![c] = meta[Doc(c)]]
                 /\ DocGoto(c, "mark_write")
              \/ /\ DocReturn(c, "ConsistencyError")
                 /\ UNCHANGED dcopy
    BY DEF MarkLoad
  <1>2. /\ dpc[c] = "mark_load" /\ dreq' = dreq /\ Doc(c)' = Doc(c)
        /\ meta' = meta /\ objects' = objects /\ o \in Replies
        /\ Doc(c) \in DocIds /\ dreq[c].op # "content"
        /\ objects'[KeyOf(Doc(c))] = None
        /\ ~Available(Doc(c)) /\ ~Available(Doc(c))'
    BY ClientTypes
    DEF MarkLoad, ReadReplies, Replies, DocInv, ClientInv, PastDeleting,
        PastRemoval, Available, Doc
  <1>3. Shrink /\ StoresKept /\ LateInv' /\ dlate' \subseteq StorageKeys
    BY <1>1, <1>2, AnswerKept
  <1>4. CASE DocReturn(c, "ConsistencyError") /\ dcopy' = dcopy
    <2>1. "ConsistencyError" \in DocResults
      BY DEF DocResults
    <2> QED BY <1>2, <1>3, <1>4, <2>1, DocReturned
  <1>5. CASE /\ InPartition(Doc(c), dreq[c].part)
             /\ dcopy' = [dcopy EXCEPT ![c] = meta[Doc(c)]]
             /\ DocGoto(c, "mark_write")
    <2>1. /\ SameDocument(Doc(c), meta[Doc(c)])
          /\ meta[Doc(c)].part = dreq[c].part
      BY <1>2, <1>5 DEF InPartition, DocInv, RowsInv
    <2>2. /\ dcopy' \in [Clients -> Rows \cup {None}]
          /\ dcopy'[c] = meta[Doc(c)]
          /\ \A e \in Clients \ {c} : dcopy'[e] = dcopy[e]
      BY <1>5, <2>1 DEF DocInv, DocTypeOK, SameDocument
    <2>3. DocAlone(c)
      BY <1>2, <1>5, <2>2 DEF DocAlone, DocGoto, DocInv, DocTypeOK
    <2> QED
      BY <1>2, <1>3, <1>5, <2>1, <2>2, <2>3, DocWent DEF DocPoints
  <1> QED BY <1>1, <1>4, <1>5

LEMMA KeptMarkWrite ==
    ASSUME DocInv, NEW c \in Clients, MarkWrite(c), dlate' = dlate
    PROVE  DocInv'
  <1> DEFINE row == DeletedRow(dcopy[c])
  <1>1. PICK o \in Replies, found \in BOOLEAN :
           /\ UpdateMetadata(Doc(c), row, found, o)
           /\ \/ DocReturn(c, "ConsistencyError")
              \/ DocReturn(c, "Deleted")
    BY DEF MarkWrite, Lookup
  <1>2. /\ dpc[c] = "mark_write" /\ dreq' = dreq /\ dcopy' = dcopy
        /\ objects' = objects /\ Doc(c)' = Doc(c)
        /\ Doc(c) \in DOMAIN Library /\ Doc(c) \in DocIds
        /\ SameDocument(Doc(c), dcopy[c])
        /\ objects[KeyOf(Doc(c))] = None /\ ~Available(Doc(c))
        /\ dreq[c].op # "content"
    BY ClientTypes
    DEF MarkWrite, DocInv, ClientInv, PastDeleting, PastRemoval, Doc
  <1>3. SameDocument(Doc(c), row) /\ row.status = "deleted"
    BY <1>2 DEF SameDocument, DeletedRow, WithStatus, Rows, DocumentStatus
  <1>4. FaultsShrink
    BY <1>1, AnswerShrinks DEF UpdateMetadata
  <1>5. Shrink /\ StoresKept
    BY <1>1, <1>2, <1>3, <1>4, RowWrite
  <1>6. LateInv' /\ dlate' \subseteq StorageKeys /\ ~Available(Doc(c))'
    BY <1>2, <1>5, LateKept, StaysUnavailable DEF Available
  <1>7. "Deleted" \in DocResults /\ "ConsistencyError" \in DocResults
    BY DEF DocResults
  <1> QED BY <1>1, <1>2, <1>5, <1>6, <1>7, DocReturned

LEMMA KeptDocCrash ==
    ASSUME DocInv, NEW c \in Clients, DocCrash(c), dlate' = dlate
    PROVE  DocInv'
  <1>1. /\ dpc[c] # "idle" /\ Answer("err") /\ "err" \in Replies
        /\ meta' = meta /\ objects' = objects
        /\ DocReturn(c, "Crashed") /\ "Crashed" \in DocResults
        /\ dreq' = dreq /\ dcopy' = dcopy
    BY DEF DocCrash, Die, Replies, DocResults
  <1>2. Shrink /\ StoresKept /\ LateInv' /\ dlate' \subseteq StorageKeys
    BY <1>1, AnswerKept
  <1> QED BY <1>1, <1>2, DocReturned

(* A cancelled row write happened or did not. *)
LEMMA CutRowWriteKept ==
    ASSUME DocInv, NEW c \in Clients, dpc[c] # "idle", CutRowWrite(c),
           faults' = faults, objects' = objects
    PROVE  Shrink /\ StoresKept
  <1>1. FaultsShrink
    BY BoundsAssumption DEF FaultsShrink, DocInv, DocTypeOK
  <1>2. CASE meta' = meta
    BY <1>1, <1>2, StoresUnchanged
  <1>3. ASSUME NEW found, dpc[c] = "deleting",
                    UpdateMetadata(Doc(c), WithStatus(dcopy[c], "deleting"), found, "ok")
        PROVE  Shrink /\ StoresKept
    <2>1. Doc(c) \in DocIds /\ SameDocument(Doc(c), dcopy[c])
      BY <1>3, ClientTypes
    <2>2. /\ SameDocument(Doc(c), WithStatus(dcopy[c], "deleting"))
          /\ WithStatus(dcopy[c], "deleting").status = "deleting"
      BY <2>1 DEF SameDocument, WithStatus, Rows, DocumentStatus
    <2> QED BY <1>1, <1>3, <2>1, <2>2, RowWrite
  <1>4. ASSUME NEW found, dpc[c] = "fail",
                    UpdateMetadata(Doc(c), WithStatus(dcopy[c], "failed"), found, "ok")
        PROVE  Shrink /\ StoresKept
    <2>1. Doc(c) \in DocIds /\ SameDocument(Doc(c), dcopy[c])
      BY <1>4, ClientTypes
    <2>2. /\ SameDocument(Doc(c), WithStatus(dcopy[c], "failed"))
          /\ WithStatus(dcopy[c], "failed").status = "failed"
      BY <2>1 DEF SameDocument, WithStatus, Rows, DocumentStatus
    <2> QED BY <1>1, <1>4, <2>1, <2>2, RowWrite
  <1>5. ASSUME NEW found, dpc[c] = "erase", HardDelete(Doc(c), found, "ok")
        PROVE  Shrink /\ StoresKept
    <2>1. Doc(c) \in DOMAIN Library /\ objects[KeyOf(Doc(c))] = None
      BY <1>5, ClientTypes DEF DocInv, ClientInv, PastRemoval
    <2> QED BY <1>1, <1>5, <2>1, RowRemoval
  <1>6. ASSUME NEW found, dpc[c] = "mark_write",
                    UpdateMetadata(Doc(c), DeletedRow(dcopy[c]), found, "ok")
        PROVE  Shrink /\ StoresKept
    <2>1. /\ Doc(c) \in DocIds /\ SameDocument(Doc(c), dcopy[c])
          /\ objects[KeyOf(Doc(c))] = None
      BY <1>6, ClientTypes DEF DocInv, ClientInv, PastRemoval
    <2>2. /\ SameDocument(Doc(c), DeletedRow(dcopy[c]))
          /\ DeletedRow(dcopy[c]).status = "deleted"
      BY <2>1 DEF SameDocument, DeletedRow, WithStatus, Rows, DocumentStatus
    <2> QED BY <1>1, <1>6, <2>1, <2>2, RowWrite
  <1> QED BY <1>2, <1>3, <1>4, <1>5, <1>6 DEF CutRowWrite

(* The removal it leaves behind is of a document made unavailable. *)
LEMMA KeptCancelDocument ==
    ASSUME DocInv, NEW c \in Clients, CancelDocument(c)
    PROVE  DocInv'
  <1>1. /\ dpc[c] # "idle" /\ CutRowWrite(c)
        /\ dlate' = IF dpc[c] = "remove" THEN dlate \cup {CopyKey(c)} ELSE dlate
        /\ DocReturn(c, "CancelledError") /\ "CancelledError" \in DocResults
        /\ objects' = objects /\ faults' = faults
        /\ dreq' = dreq /\ dcopy' = dcopy
    BY DEF CancelDocument, DocResults
  <1>2. Shrink /\ StoresKept
    BY <1>1, CutRowWriteKept
  <1>3. dpc[c] = "remove" =>
           /\ CopyKey(c) \in StorageKeys
           /\ ~Available(CopyKey(c)[2])
    BY ClientTypes, LibraryRow DEF DocInv, ClientInv, PastDeleting
  <1>4. dlate' \subseteq StorageKeys /\ \A k \in dlate' : ~Available(k[2])
    BY <1>1, <1>3 DEF DocInv, DocTypeOK, LateInv
  <1>5. LateInv'
    BY <1>2, <1>4, StaysUnavailable DEF LateInv, StorageKeys
  <1> QED BY <1>1, <1>2, <1>4, <1>5, DocReturned

LEMMA KeptLandRemoval ==
    ASSUME DocInv, NEW k \in dlate, LandRemoval(k)
    PROVE  DocInv'
  <1>1. /\ dlate' \subseteq dlate /\ meta' = meta /\ faults' = faults
        /\ objects' \in {objects, [objects EXCEPT ![k] = None]}
        /\ dpc' = dpc /\ dreq' = dreq /\ dcopy' = dcopy /\ dout' = dout
    BY DEF LandRemoval, documentVars
  <1>2. /\ k \in StorageKeys /\ ~Available(k[2]) /\ FaultsShrink
    BY <1>1, BoundsAssumption
    DEF DocInv, DocTypeOK, LateInv, FaultsShrink
  <1>3. Shrink /\ StoresKept
    BY <1>1, <1>2, ContentRemoval
  <1>4. LateInv' /\ dlate' \subseteq StorageKeys
    BY <1>1, <1>3, LateKept
  <1>5. \A c \in Clients : DocAlone(c)
    BY <1>1 DEF DocAlone
  <1>6. ClientsTyped
    BY <1>1 DEF ClientsTyped, DocInv, DocTypeOK
  <1>7. ASSUME NEW c \in Clients PROVE ClientInv(c)'
    <2>1. /\ Doc(c)' = Doc(c) /\ dpc'[c] = dpc[c] /\ dreq'[c] = dreq[c]
          /\ dcopy'[c] = dcopy[c] /\ dout'[c] = dout[c]
          /\ NothingFailed' = NothingFailed
      BY <1>1 DEF Doc, NothingFailed
    <2>2. Available(Doc(c))' = Available(Doc(c))
      BY <1>1, <2>1 DEF Available
    <2>3. (objects[KeyOf(Doc(c))] = None)' <=> objects'[KeyOf(Doc(c))] = None
      BY <2>1 DEF KeyOf
    <2>4. Doc(c) \in DOMAIN Library /\ objects[KeyOf(Doc(c))] = None
             => objects'[KeyOf(Doc(c))] = None
      BY <1>3, LibraryRow DEF Shrink, ContentsShrink
    <2>5. dpc[c] \in PastRemoval => Doc(c) \in DOMAIN Library
      BY ClientTypes DEF PastRemoval
    <2>6. SameDocument(Doc(c), dcopy[c])' = SameDocument(Doc(c), dcopy[c])
      BY <2>1 DEF SameDocument
    <2> QED
      BY <2>1, <2>2, <2>3, <2>4, <2>5, <2>6 DEF DocInv, ClientInv
  <1>8. RowsInv' /\ DocTypeOK'
    BY <1>3, <1>4, <1>6
    DEF Shrink, RowsShrink, RowsInv, SameDocument, DocTypeOK, StoresKept,
        ClientsTyped, FaultsShrink
  <1> QED BY <1>3, <1>4, <1>7, <1>8 DEF DocInv, StoresKept

LEMMA DocStutter ==
    ASSUME DocInv, UNCHANGED asyncDocVars
    PROVE  DocInv'
  <1>1. /\ meta' = meta /\ objects' = objects /\ faults' = faults
        /\ dpc' = dpc /\ dreq' = dreq /\ dcopy' = dcopy /\ dout' = dout
        /\ dlate' = dlate
    BY DEF asyncDocVars, docVars, storeVars, documentVars, docTaskVars
  <1>2. (DocTypeOK /\ RowsInv /\ ContentInv /\ LateInv)'
    BY <1>1
    DEF DocInv, DocTypeOK, RowsInv, SameDocument, ContentInv, Available, KeyOf,
        LateInv
  <1>3. ASSUME NEW c \in Clients PROVE ClientInv(c)'
    BY <1>1 DEF DocInv, ClientInv, SameDocument, Available, Doc, NothingFailed,
                KeyOf
  <1> QED BY <1>2, <1>3 DEF DocInv

LEMMA DocStepKept ==
    ASSUME DocInv, [AsyncDocNext]_asyncDocVars
    PROVE  DocInv'
  <1>1. CASE UNCHANGED asyncDocVars
    BY <1>1, DocStutter
  <1>2. ASSUME NEW c \in Clients, NEW r \in DocRequests, Request(c, r),
               UNCHANGED docTaskVars
        PROVE  DocInv'
    BY <1>2, KeptRequest DEF docTaskVars
  <1>3. ASSUME NEW c \in Clients, AsyncDocStep(c)
        PROVE  DocInv'
    <2>1. dlate' = dlate
      BY <1>3 DEF AsyncDocStep, AsyncLoad, AsyncFetch, AsyncDelete, docTaskVars
    <2> QED
      BY <1>3, <2>1, KeptLoad, KeptFetch, KeptSetDeleting, KeptRemove,
         KeptSetFailed, KeptErase, KeptMarkLoad, KeptMarkWrite
      DEF AsyncDocStep, AsyncLoad, AsyncFetch, AsyncDelete
  <1>4. ASSUME NEW c \in Clients, DocCrash(c), UNCHANGED docTaskVars
        PROVE  DocInv'
    BY <1>4, KeptDocCrash DEF docTaskVars
  <1>5. ASSUME NEW c \in Clients, CancelDocument(c) PROVE DocInv'
    BY <1>5, KeptCancelDocument
  <1>6. ASSUME NEW k \in dlate, LandRemoval(k) PROVE DocInv'
    BY <1>6, KeptLandRemoval
  <1> QED BY <1>1, <1>2, <1>3, <1>4, <1>5, <1>6 DEF AsyncDocNext

-----------------------------------------------------------------------------
(* The theorems *)

(***************************************************************************)
(* The inductive invariant holds in every reachable state of the deletions *)
(* and reads, by threads and by tasks: what each point of a request knows  *)
(* of the row, of its own copy of it and of the content.                   *)
(***************************************************************************)
THEOREM DocInvariant == AsyncDocSpec => []DocInv
  <1>1. AsyncDocInit => DocInv
    BY DocInitially
  <1>2. DocInv /\ [AsyncDocNext]_asyncDocVars => DocInv'
    BY DocStepKept
  <1> QED BY <1>1, <1>2, PTL DEF AsyncDocSpec

LEMMA ContentUnderKey ==
    ASSUME DocInv, NEW d \in DocIds, meta[d] # None
    PROVE  /\ d \in DOMAIN Library
           /\ StorageKeyOf(d, meta[d]) = KeyOf(d)
           /\ ContentOf(d) = objects[KeyOf(d)]
           /\ meta[d].content = Library[d].content
  BY LibraryRow DEF DocInv, RowsInv, SameDocument, ContentOf

(***************************************************************************)
(* A document whose row says available has its content, at every moment of *)
(* any deletions that run, fail, are cancelled or die half way.            *)
(***************************************************************************)
THEOREM AvailableAlwaysHasContent == AsyncDocSpec => []AvailableHasContent
  <1>1. DocInv => AvailableHasContent
    BY ContentUnderKey DEF DocInv, ContentInv, AvailableHasContent, Available
  <1> QED BY <1>1, DocInvariant, PTL

(***************************************************************************)
(* A deletion leaves no content behind, under a row that says deleted or   *)
(* without a row: the removal is answered before the row is finished.      *)
(***************************************************************************)
THEOREM DeletionNeverLeaves == AsyncDocSpec => []DeletionLeavesNothing
  <1>1. ASSUME DocInv PROVE DeletionLeavesNothing
    <2>1. ASSUME NEW d \in DocIds, meta[d] # None, meta[d].status = "deleted"
          PROVE  ContentOf(d) = None
      BY <1>1, <2>1, ContentUnderKey DEF DocInv, ContentInv
    <2>2. ASSUME NEW k \in StorageKeys, objects[k] # None
          PROVE  meta[k[2]] # None /\ StorageKeyOf(k[2], meta[k[2]]) = k
      <3>1. meta[k[2]] # None /\ k = KeyOf(k[2]) /\ k[2] \in DocIds
        BY <1>1, <2>2 DEF DocInv, ContentInv, StorageKeys
      <3> QED BY <1>1, <3>1, ContentUnderKey
    <2> QED BY <2>1, <2>2 DEF DeletionLeavesNothing
  <1> QED BY <1>1, DocInvariant, PTL

(***************************************************************************)
(* Who was told "deleted" stays right: no later write of a stale copy of   *)
(* the row makes the document available or brings its content back.        *)
(***************************************************************************)
THEOREM DeletedStaysFinal == AsyncDocSpec => []DeletedIsFinal
  <1>1. ASSUME DocInv, NEW c \in Clients,
               dpc[c] = "idle", dout[c] = "Deleted", meta[Doc(c)] # None
        PROVE  meta[Doc(c)].status # "available" /\ ContentOf(Doc(c)) = None
    <2>1. /\ Doc(c) \in DOMAIN Library /\ Doc(c) \in DocIds
          /\ ~Available(Doc(c)) /\ objects[KeyOf(Doc(c))] = None
      BY <1>1, LibraryRow DEF DocInv, ClientInv
    <2> QED BY <1>1, <2>1, ContentUnderKey DEF Available
  <1>2. DocInv => DeletedIsFinal
    BY <1>1 DEF DeletedIsFinal
  <1> QED BY <1>2, DocInvariant, PTL

(***************************************************************************)
(* Without failing store calls, a content read that reports an             *)
(* inconsistency never accuses an available document: it was overtaken by  *)
(* a deletion.                                                             *)
(***************************************************************************)
THEOREM InconsistencyNeverFalse == AsyncDocSpec => []NoFalseInconsistency
  <1>1. DocInv => NoFalseInconsistency
    BY DEF DocInv, ClientInv, NoFalseInconsistency, Available
  <1> QED BY <1>1, DocInvariant, PTL

(***************************************************************************)
(* The removal that a cancelled deletion leaves to its worker thread takes *)
(* no content of an available document.                                    *)
(***************************************************************************)
THEOREM LateRemovalHarmless == AsyncDocSpec => []LateRemovalTakesDeleted
  <1>1. DocInv => LateRemovalTakesDeleted
    BY DEF DocInv, LateInv, LateRemovalTakesDeleted, Available
  <1> QED BY <1>1, DocInvariant, PTL
=============================================================================
