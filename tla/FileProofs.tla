------------------------------ MODULE FileProofs ------------------------------
(***************************************************************************)
(* Proofs about files: what storage keeps of them, and what the parsers    *)
(* and decoders read from them.  The walk of each parser has an invariant  *)
(* of its own, which says what has been read up to where it stands; the    *)
(* file is any of the format's, of any length.                             *)
(***************************************************************************)
EXTENDS FileStorage, FileParsers, FiniteSetTheorems, SequenceTheorems, NaturalsInduction, WellFoundedInduction, TLAPS

-----------------------------------------------------------------------------
(* FileStorage: no job loses its file, whatever uploads, analyses,         *)
(* deletions and restarts there are and however they interleave.           *)
(*                                                                         *)
(* The jobs alone do not say why: an upload names a file long before it    *)
(* makes its job, and a deletion is decided long before its unlink.  The   *)
(* invariant therefore says of each request in flight what it has seen and *)
(* what still is so.                                                       *)

\* The file of an upload's own contents is what it will save.
BringsItsOwn(r) ==
    r.at \in {"printer", "validate", "hash", "analyse", "save"} => r.id = r.own

\* The file an upload to a printer will name in its job is there.
HasItsFile(r) ==
    r.kind = "printer" /\ r.at \in {"cached", "analyseStored", "thumbs", "metadata"} =>
        r.id \in files \cup taken

\* The jobs that name the file of a deletion that counted them came later.
SparesNoEarlierJob(r) ==
    r.kind = "deletion" /\ r.row # 0 =>
        /\ r.seen <= lastRow
        /\ \A j \in DOMAIN rows : rows[j].storage = r.id => r.seen < j

RequestOK(r) ==
    /\ BringsItsOwn(r)
    /\ HasItsFile(r)
    /\ SparesNoEarlierJob(r)
    /\ r.id[1] = r.own[1]
    /\ r.at \in {"find", "unlink", "unlinkJson"} => r.kind = "deletion"

RequestsOK == \A h \in Handlers : handling[h] # Idle => RequestOK(handling[h])

StorageInv ==
    /\ StorageTypeOK
    /\ JobsKeepTheirFiles
    /\ DuplicatesAreEqual
    /\ RequestsOK

LEMMA StorageInvInit == StorageInit => StorageInv
  BY StorageAssumption
  DEF StorageInit, StorageInv, StorageTypeOK, JobsKeepTheirFiles, DuplicatesAreEqual, RequestsOK

\* A handler's request is one that its location in the code allows, or none.
LEMMA BusyIsRequest ==
    ASSUME StorageTypeOK, NEW h \in Handlers, handling[h].at # "idle"
    PROVE  handling[h] \in Request /\ handling[h] # Idle
  BY DEF StorageTypeOK, Idle

-----------------------------------------------------------------------------
(* The ways in which actions change the state.                             *)

\* One request begins, goes on or ends, and nothing else changes.
LEMMA OneRequestMoves ==
    ASSUME StorageInv, NEW h \in Handlers, NEW r,
           (r \in Request /\ RequestOK(r)) \/ r = Idle,
           handling' = [handling EXCEPT ![h] = r],
           UNCHANGED <<diskVars, rows, lastRow, taken>>
    PROVE  StorageInv'
<1>1. UNCHANGED <<files, json, rows, lastRow, taken>>
  BY DEF diskVars
<1>2. StorageTypeOK'
  BY <1>1 DEF StorageInv, StorageTypeOK
<1>3. JobsKeepTheirFiles' /\ DuplicatesAreEqual'
  BY <1>1 DEF StorageInv, JobsKeepTheirFiles, DuplicatesAreEqual
<1>4. ASSUME NEW g \in Handlers, handling'[g] # Idle
      PROVE  RequestOK(handling[g])'
  <2>1. RequestOK(handling'[g])
    BY <1>4 DEF StorageInv, StorageTypeOK, RequestsOK
  <2>2. QED
    BY <1>1, <2>1 DEF RequestOK, BringsItsOwn, HasItsFile, SparesNoEarlierJob
<1>5. QED
  BY <1>2, <1>3, <1>4 DEF StorageInv, RequestsOK

\* A job is made of a file that is there, by a request that ends or by none.
LEMMA JobIsMade ==
    ASSUME StorageInv, NEW i \in files \cup taken, NEW row \in FileRow,
           row.storage = i, row.hash = i[1],
           lastRow < MaxRows, lastRow' = lastRow + 1, rows' = Put(lastRow', row),
           files' = files, taken' = taken,
           json' \in [StorageIds -> Names \cup {NoJson, Unnamed}],
           \/ UNCHANGED handling
           \/ \E h \in Handlers : Done(h)
    PROVE  StorageInv'
<1>1. \A j \in DOMAIN rows : j < lastRow'
  BY StorageAssumption DEF StorageInv, StorageTypeOK
<1>2. /\ DOMAIN rows' = DOMAIN rows \cup {lastRow'}
      /\ rows'[lastRow'] = row
      /\ \A j \in DOMAIN rows : rows'[j] = rows[j]
  BY <1>1, StorageAssumption DEF Put, StorageInv, StorageTypeOK
<1>3. StorageTypeOK'
  <2>1. lastRow' \in 0..MaxRows /\ DOMAIN rows' \subseteq 1..lastRow'
    BY <1>1, <1>2, StorageAssumption DEF StorageInv, StorageTypeOK
  <2>2. rows' \in [DOMAIN rows' -> FileRow]
    BY <1>2 DEF StorageInv, StorageTypeOK, Put
  <2>3. handling' \in [Handlers -> Request \cup {Idle}]
    BY DEF StorageInv, StorageTypeOK, Done
  <2>4. QED
    BY <2>1, <2>2, <2>3 DEF StorageInv, StorageTypeOK
<1>4. JobsKeepTheirFiles' /\ DuplicatesAreEqual'
  BY <1>2 DEF StorageInv, JobsKeepTheirFiles, DuplicatesAreEqual
<1>5. ASSUME NEW g \in Handlers, handling'[g] # Idle
      PROVE  RequestOK(handling[g])'
  <2>1. handling'[g] = handling[g] /\ RequestOK(handling[g]) /\ handling[g] \in Request
    BY <1>5 DEF StorageInv, StorageTypeOK, RequestsOK, Done
  <2>2. SparesNoEarlierJob(handling[g])'
    BY <1>1, <1>2, <2>1, StorageAssumption
    DEF RequestOK, SparesNoEarlierJob, StorageInv, StorageTypeOK, Request
  <2>3. QED
    BY <2>1, <2>2 DEF RequestOK, BringsItsOwn, HasItsFile
<1>6. QED
  BY <1>3, <1>4, <1>5 DEF StorageInv, RequestsOK

-----------------------------------------------------------------------------
(* The beginnings.                                                         *)

\* An upload, an analysis or a client's deletion begins with a request that
\* nothing has yet been decided for.
LEMMA BeginKeeps ==
    ASSUME StorageInv, NEW h \in Handlers, NEW kind \in Kinds, NEW at, NEW id \in StorageIds,
           NEW row \in 0..MaxRows, Begin(h, kind, at, id, row),
           \/ kind = "printer" /\ at = "printer"
           \/ kind \in {"storage", "slicer"} /\ at = "validate"
           \/ kind = "analysis" /\ at = "analyseStored"
           \/ kind = "deletion" /\ at = "find" /\ row = 0,
           UNCHANGED <<diskVars, rows, lastRow, taken>>
    PROVE  StorageInv'
<1> DEFINE r == [kind |-> kind, at |-> at, id |-> id, own |-> id, row |-> row, seen |-> 0,
                 known |-> FALSE]
<1>1. r \in Request
  BY StorageAssumption DEF Request, Kinds, Uploads
<1>2. RequestOK(r)
  BY DEF RequestOK, BringsItsOwn, HasItsFile, SparesNoEarlierJob
<1>3. handling' = [handling EXCEPT ![h] = r]
  BY DEF Begin
<1>4. QED
  BY <1>1, <1>2, <1>3, OneRequestMoves

LEMMA ReAnalyseKeeps ==
    ASSUME StorageInv, NEW h \in Handlers, NEW j \in DOMAIN rows, ReAnalyse(h, j)
    PROVE  StorageInv'
<1> DEFINE r == [kind |-> "analysis", at |-> "analyseStored", id |-> rows[j].storage,
                 own |-> rows[j].storage, row |-> j, seen |-> 0, known |-> FALSE]
<1>1. /\ rows[j] \in FileRow
      /\ handling' = [handling EXCEPT ![h] = r]
      /\ rows' = Put(j, [rows[j] EXCEPT !.analysed = FALSE])
      /\ UNCHANGED <<files, json, lastRow, taken>>
  BY DEF ReAnalyse, Begin, diskVars, StorageInv, StorageTypeOK
<1>2. r \in Request /\ RequestOK(r)
  BY <1>1, StorageAssumption
  DEF RequestOK, BringsItsOwn, HasItsFile, SparesNoEarlierJob, Request, Kinds, FileRow,
      StorageInv, StorageTypeOK
<1>3. /\ DOMAIN rows' = DOMAIN rows
      /\ rows' \in [DOMAIN rows -> FileRow]
      /\ \A k \in DOMAIN rows : /\ rows'[k].storage = rows[k].storage
                                /\ rows'[k].hash = rows[k].hash
  BY <1>1 DEF Put, FileRow, StorageInv, StorageTypeOK
<1>4. StorageTypeOK'
  BY <1>1, <1>2, <1>3 DEF StorageInv, StorageTypeOK
<1>5. JobsKeepTheirFiles' /\ DuplicatesAreEqual'
  BY <1>1, <1>3 DEF StorageInv, JobsKeepTheirFiles, DuplicatesAreEqual
<1>6. ASSUME NEW g \in Handlers, handling'[g] # Idle
      PROVE  RequestOK(handling[g])'
  <2>1. RequestOK(handling'[g])
    BY <1>1, <1>2, <1>6 DEF StorageInv, StorageTypeOK, RequestsOK
  <2>2. QED
    BY <1>1, <1>3, <2>1 DEF RequestOK, BringsItsOwn, HasItsFile, SparesNoEarlierJob
<1>7. QED
  BY <1>4, <1>5, <1>6 DEF StorageInv, RequestsOK

\* The last job of a file is deleted, and the file's deletion begins; or
\* another job keeps the file.
LEMMA DeleteJobKeeps ==
    ASSUME StorageInv, NEW h \in Handlers, NEW j \in DOMAIN rows, DeleteJobAndFile(h, j)
    PROVE  StorageInv'
<1> DEFINE r == [kind |-> "deletion", at |-> "find", id |-> rows[j].storage,
                 own |-> rows[j].storage, row |-> j, seen |-> lastRow, known |-> FALSE]
<1>1. /\ DOMAIN rows' = DOMAIN rows \ {j}
      /\ \A k \in DOMAIN rows' : rows'[k] = rows[k]
      /\ UNCHANGED <<files, json, lastRow, taken>>
      /\ \/ UNCHANGED handling
         \/ FileGoesToo(j) /\ handling' = [handling EXCEPT ![h] = r]
  BY DEF DeleteJobAndFile, diskVars
<1>2. r \in Request
  BY StorageAssumption DEF Request, Kinds, FileRow, StorageInv, StorageTypeOK
<1>3. StorageTypeOK'
  <2>1. handling' \in [Handlers -> Request \cup {Idle}]
    BY <1>1, <1>2 DEF StorageInv, StorageTypeOK
  <2>2. rows' \in [DOMAIN rows' -> FileRow]
    BY DEF DeleteJobAndFile, StorageInv, StorageTypeOK
  <2>3. QED
    BY <1>1, <2>1, <2>2 DEF StorageInv, StorageTypeOK
<1>4. JobsKeepTheirFiles' /\ DuplicatesAreEqual'
  BY <1>1 DEF StorageInv, JobsKeepTheirFiles, DuplicatesAreEqual
<1>5. ASSUME NEW g \in Handlers, handling'[g] # Idle
      PROVE  RequestOK(handling[g])'
  <2>1. CASE handling'[g] = handling[g]
    <3>1. RequestOK(handling[g])
      BY <1>5, <2>1 DEF StorageInv, RequestsOK
    <3>2. QED
      BY <1>1, <2>1, <3>1 DEF RequestOK, BringsItsOwn, HasItsFile, SparesNoEarlierJob
  <2>2. CASE FileGoesToo(j) /\ handling'[g] = r
    <3>1. \A k \in DOMAIN rows' : rows'[k].storage # rows[j].storage
      BY <1>1, <2>2 DEF FileGoesToo
    <3>2. SparesNoEarlierJob(handling[g])'
      BY <1>1, <2>2, <3>1, StorageAssumption DEF SparesNoEarlierJob, StorageInv, StorageTypeOK
    <3>3. QED
      BY <2>2, <3>2 DEF RequestOK, BringsItsOwn, HasItsFile
  <2>3. QED
    BY <1>1, <2>1, <2>2 DEF StorageInv, StorageTypeOK
<1>6. QED
  BY <1>3, <1>4, <1>5 DEF StorageInv, RequestsOK

LEMMA JobFromFileKeeps ==
    ASSUME StorageInv, NEW i \in StorageIds, JobFromFile(i)
    PROVE  StorageInv'
<1> DEFINE row == [storage |-> i, hash |-> i[1], name |-> json[i], analysed |-> TRUE]
<1>1. row \in FileRow
  BY DEF JobFromFile, FileRow, StorageIds, StorageInv, StorageTypeOK
<1>2. QED
  BY <1>1, JobIsMade DEF JobFromFile, diskVars, StorageInv, StorageTypeOK

LEMMA BeginsKeeps ==
    ASSUME StorageInv, NEW h \in Handlers, Begins(h)
    PROVE  StorageInv'
<1>1. ASSUME NEW c \in Contents, NEW n \in Names,
             \/ UploadToPrinter(h, c, n)
             \/ UploadToStorage(h, "storage", c, n)
             \/ UploadToStorage(h, "slicer", c, n)
      PROVE  StorageInv'
  <2>1. <<c, n>> \in StorageIds /\ 0 \in 0..MaxRows
    BY StorageAssumption DEF StorageIds
  <2>2. CASE UploadToPrinter(h, c, n)
    BY <2>1, <2>2, BeginKeeps DEF UploadToPrinter, Kinds, Uploads
  <2>3. CASE UploadToStorage(h, "storage", c, n)
    BY <2>1, <2>3, BeginKeeps DEF UploadToStorage, Kinds, Uploads
  <2>4. CASE UploadToStorage(h, "slicer", c, n)
    BY <2>1, <2>4, BeginKeeps DEF UploadToStorage, Kinds, Uploads
  <2>5. QED
    BY <1>1, <2>2, <2>3, <2>4
<1>2. ASSUME NEW i \in StorageIds, AnalyseFile(h, i) \/ DeleteFile(h, i)
      PROVE  StorageInv'
  <2>1. 0 \in 0..MaxRows
    BY StorageAssumption
  <2>2. CASE AnalyseFile(h, i)
    BY <2>1, <2>2, BeginKeeps DEF AnalyseFile, Kinds
  <2>3. CASE DeleteFile(h, i)
    BY <2>1, <2>3, BeginKeeps DEF DeleteFile, Kinds
  <2>4. QED
    BY <1>2, <2>2, <2>3
<1>3. QED
  BY <1>1, <1>2, ReAnalyseKeeps, DeleteJobKeeps DEF Begins

-----------------------------------------------------------------------------
(* The steps and the ends.                                                 *)

\* What is known of a request on its way
LEMMA RequestOnItsWay ==
    ASSUME StorageInv, NEW h \in Handlers, handling[h].at # "idle"
    PROVE  handling[h] \in Request /\ RequestOK(handling[h])
  BY BusyIsRequest DEF StorageInv, RequestsOK

\* A request that only goes on keeps what is known of it.
LEMMA GotoKeeps ==
    ASSUME StorageInv, NEW h \in Handlers, NEW at, handling[h].at # "idle", Goto(h, at),
           [handling[h] EXCEPT !.at = at] \in Request,
           RequestOK([handling[h] EXCEPT !.at = at]),
           UNCHANGED <<diskVars, rows, lastRow, taken>>
    PROVE  StorageInv'
<1>1. handling' = [handling EXCEPT ![h] = [handling[h] EXCEPT !.at = at]]
  BY RequestOnItsWay DEF Goto, StorageInv, StorageTypeOK
<1>2. QED
  BY <1>1, OneRequestMoves

LEMMA DoneKeeps ==
    ASSUME StorageInv, NEW h \in Handlers, Done(h),
           UNCHANGED <<diskVars, rows, lastRow, taken>>
    PROVE  StorageInv'
  BY OneRequestMoves DEF Done

\* The steps that move one request and write nothing.
LEMMA QuietStepKeeps ==
    ASSUME StorageInv, NEW h \in Handlers,
           \/ Fails(h) \/ Transferred(h) \/ Validated(h) \/ Analysed(h)
           \/ AnalysedStored(h) \/ ThumbsSaved(h) \/ Found(h)
    PROVE  StorageInv'
<1>1. handling[h].at # "idle"
  BY DEF Fails, Transferred, Validated, Analysed, AnalysedStored, ThumbsSaved, Found
<1>2. handling[h] \in Request /\ RequestOK(handling[h])
  BY <1>1, RequestOnItsWay
<1>3. CASE Done(h) /\ UNCHANGED <<diskVars, rows, lastRow, taken>>
  BY <1>3, DoneKeeps
<1>4. CASE Transferred(h) \/ Validated(h) \/ Analysed(h)
  <2>1. SUFFICES ASSUME NEW at \in {"hash", "save"}, Goto(h, at),
                        handling[h].at \in {"printer", "validate", "analyse"},
                        UNCHANGED <<diskVars, rows, lastRow, taken>>
                 PROVE  StorageInv'
    BY <1>3, <1>4 DEF Transferred, Validated, Analysed
  <2>2. [handling[h] EXCEPT !.at = at] \in Request
    BY <1>2, <2>1 DEF Request
  <2>3. RequestOK([handling[h] EXCEPT !.at = at])
    BY <1>2, <2>1 DEF RequestOK, BringsItsOwn, HasItsFile, SparesNoEarlierJob, Request
  <2>4. QED
    BY <1>1, <2>1, <2>2, <2>3, GotoKeeps
<1>5. CASE AnalysedStored(h) \/ ThumbsSaved(h)
  <2>1. SUFFICES ASSUME NEW at \in {"thumbs", "metadata"}, Goto(h, at),
                        \/ handling[h].at = "analyseStored" /\ handling[h].id \in files
                        \/ handling[h].at = "thumbs",
                        UNCHANGED <<diskVars, rows, lastRow, taken>>
                 PROVE  StorageInv'
    BY <1>3, <1>5 DEF AnalysedStored, ThumbsSaved
  <2>2. [handling[h] EXCEPT !.at = at] \in Request
    BY <1>2, <2>1 DEF Request
  <2>3. RequestOK([handling[h] EXCEPT !.at = at])
    BY <1>2, <2>1 DEF RequestOK, BringsItsOwn, HasItsFile, SparesNoEarlierJob, Request
  <2>4. QED
    BY <1>1, <2>1, <2>2, <2>3, GotoKeeps
<1>6. CASE Found(h)
  <2>1. SUFFICES ASSUME Goto(h, "unlink"), handling[h].at = "find",
                        UNCHANGED <<diskVars, rows, lastRow, taken>>
                 PROVE  StorageInv'
    BY <1>3, <1>6 DEF Found
  <2>2. [handling[h] EXCEPT !.at = "unlink"] \in Request
    BY <1>2 DEF Request
  <2>3. RequestOK([handling[h] EXCEPT !.at = "unlink"])
    BY <1>2, <2>1 DEF RequestOK, BringsItsOwn, HasItsFile, SparesNoEarlierJob, Request
  <2>4. QED
    BY <1>1, <2>1, <2>2, <2>3, GotoKeeps
<1>7. QED
  BY <1>3, <1>4, <1>5, <1>6 DEF Fails

\* An upload finds the last job with its contents, and takes that job's file.
LEMMA HashedKeeps ==
    ASSUME StorageInv, NEW h \in Handlers, Hashed(h)
    PROVE  StorageInv'
<1> DEFINE r == handling[h]
           dups == IF r.kind = "printer" THEN Duplicates(r.own[1], r.own[2]) ELSE {}
<1>1. r \in Request /\ RequestOK(r) /\ r.at = "hash"
  BY RequestOnItsWay DEF Hashed
<1>2. CASE dups # {}
  <2>1. PICK j \in dups : handling' = [handling EXCEPT ![h] =
                 [r EXCEPT !.at = "cached", !.id = rows[j].storage, !.known = rows[j].analysed]]
    BY <1>2 DEF Hashed
  <2>2. j \in DOMAIN rows /\ rows[j].hash = r.own[1] /\ r.kind = "printer"
    BY DEF Duplicates
  <2>3. /\ rows[j] \in FileRow
        /\ rows[j].storage \in files \cup taken
        /\ rows[j].storage[1] = r.own[1]
    BY <2>2 DEF StorageInv, StorageTypeOK, JobsKeepTheirFiles, DuplicatesAreEqual
  <2>4. DEFINE s == [r EXCEPT !.at = "cached", !.id = rows[j].storage, !.known = rows[j].analysed]
  <2>5. s \in Request
    BY <1>1, <2>3 DEF Request, FileRow
  <2>6. RequestOK(s)
    BY <1>1, <2>2, <2>3
    DEF RequestOK, BringsItsOwn, HasItsFile, SparesNoEarlierJob, Request
  <2>7. QED
    BY <2>1, <2>5, <2>6, OneRequestMoves DEF Hashed
<1>3. CASE dups = {}
  <2>1. PICK at \in {"save", "analyse"} :
            Goto(h, at) /\ UNCHANGED <<diskVars, rows, lastRow, taken>>
    BY <1>3 DEF Hashed
  <2>2. [r EXCEPT !.at = at] \in Request
    BY <1>1 DEF Request
  <2>3. RequestOK([r EXCEPT !.at = at])
    BY <1>1, <2>1 DEF RequestOK, BringsItsOwn, HasItsFile, SparesNoEarlierJob, Request
  <2>4. QED
    BY <1>1, <2>1, <2>2, <2>3, GotoKeeps
<1>4. QED
  BY <1>2, <1>3

\* The job of an upload to a printer
LEMMA SaveJobKeeps ==
    ASSUME StorageInv, NEW h \in Handlers, NEW r \in Request, RequestOK(r),
           r.id \in files \cup taken, SaveJob(r, r.id), Done(h),
           files' = files, taken' = taken,
           json' \in [StorageIds -> Names \cup {NoJson, Unnamed}]
    PROVE  StorageInv'
<1>1. PICK a \in BOOLEAN :
         rows' = Put(lastRow', [storage |-> r.id, hash |-> r.own[1], name |-> r.own[2],
                                analysed |-> a])
  BY DEF SaveJob
<1>2. DEFINE row == [storage |-> r.id, hash |-> r.own[1], name |-> r.own[2], analysed |-> a]
<1>3. row \in FileRow /\ row.hash = r.id[1]
  BY DEF Request, FileRow, StorageIds, RequestOK
<1>4. QED
  BY <1>1, <1>3, JobIsMade DEF SaveJob

LEMMA CachedKeeps ==
    ASSUME StorageInv, NEW h \in Handlers, Cached(h)
    PROVE  StorageInv'
<1> DEFINE r == handling[h]
<1>1. r \in Request /\ RequestOK(r) /\ r.at = "cached"
  BY RequestOnItsWay DEF Cached
<1>2. CASE r.id \in files /\ json[r.id] # NoJson
  <2>1. SaveJob(r, r.id) /\ Done(h) /\ files' = files /\ json' = json /\ taken' = taken
    BY <1>2 DEF Cached, diskVars
  <2>2. QED
    BY <1>1, <1>2, <2>1, SaveJobKeeps DEF StorageInv, StorageTypeOK
<1>3. CASE ~(r.id \in files /\ json[r.id] # NoJson)
  <2>1. PICK at \in {"metadata", "analyseStored"} :
            Goto(h, at) /\ UNCHANGED <<diskVars, rows, lastRow, taken>>
    BY <1>3 DEF Cached
  <2>2. [r EXCEPT !.at = at] \in Request
    BY <1>1 DEF Request
  <2>3. RequestOK([r EXCEPT !.at = at])
    BY <1>1, <2>1 DEF RequestOK, BringsItsOwn, HasItsFile, SparesNoEarlierJob, Request
  <2>4. QED
    BY <1>1, <2>1, <2>2, <2>3, GotoKeeps
<1>4. QED
  BY <1>2, <1>3

\* The rename puts the request's own file in storage.
LEMMA SavedKeeps ==
    ASSUME StorageInv, NEW h \in Handlers, Saved(h)
    PROVE  StorageInv'
<1> DEFINE r == handling[h]
<1>1. r \in Request /\ RequestOK(r) /\ r.at = "save" /\ r.id = r.own
  BY RequestOnItsWay DEF Saved, RequestOK, BringsItsOwn
<1>2. PICK at \in {"analyseStored", "thumbs", "metadata"} :
          handling' = [handling EXCEPT ![h] = [r EXCEPT !.at = at]]
  BY DEF Saved, Goto
<1>3. /\ files' = files \cup {r.own}
      /\ UNCHANGED <<json, rows, lastRow, taken>>
  BY DEF Saved
<1>4. [r EXCEPT !.at = at] \in Request
  BY <1>1 DEF Request
<1>5. StorageTypeOK'
  BY <1>1, <1>2, <1>3, <1>4 DEF StorageInv, StorageTypeOK, Request
<1>6. JobsKeepTheirFiles' /\ DuplicatesAreEqual'
  BY <1>3 DEF StorageInv, JobsKeepTheirFiles, DuplicatesAreEqual
<1>7. ASSUME NEW g \in Handlers, handling'[g] # Idle
      PROVE  RequestOK(handling[g])'
  <2>1. CASE g = h
    <3>1. handling'[g] = [r EXCEPT !.at = at] /\ r.id \in files'
      BY <1>1, <1>2, <1>3, <2>1 DEF StorageInv, StorageTypeOK
    <3>2. SparesNoEarlierJob(handling[g])'
      BY <1>1, <1>3, <3>1 DEF RequestOK, SparesNoEarlierJob, Request
    <3>3. QED
      BY <1>1, <3>1, <3>2 DEF RequestOK, BringsItsOwn, HasItsFile, Request
  <2>2. CASE g # h
    <3>1. handling'[g] = handling[g] /\ RequestOK(handling[g])
      BY <1>2, <1>7, <2>2 DEF StorageInv, StorageTypeOK, RequestsOK
    <3>2. QED
      BY <1>3, <3>1 DEF RequestOK, BringsItsOwn, HasItsFile, SparesNoEarlierJob
  <2>3. QED
    BY <2>1, <2>2
<1>8. QED
  BY <1>5, <1>6, <1>7 DEF StorageInv, RequestsOK

\* The rows that stay as they are, but for the column "analysed", and a
\* request that ends
LEMMA RequestEnds ==
    ASSUME StorageInv, NEW h \in Handlers, Done(h),
           files' = files, taken' = taken, lastRow' = lastRow,
           json' \in [StorageIds -> Names \cup {NoJson, Unnamed}],
           DOMAIN rows' = DOMAIN rows, rows' \in [DOMAIN rows -> FileRow],
           \A k \in DOMAIN rows : /\ rows'[k].storage = rows[k].storage
                                  /\ rows'[k].hash = rows[k].hash
    PROVE  StorageInv'
<1>1. StorageTypeOK'
  BY DEF StorageInv, StorageTypeOK, Done
<1>2. JobsKeepTheirFiles' /\ DuplicatesAreEqual'
  BY DEF StorageInv, JobsKeepTheirFiles, DuplicatesAreEqual
<1>3. ASSUME NEW g \in Handlers, handling'[g] # Idle
      PROVE  RequestOK(handling[g])'
  <2>1. handling'[g] = handling[g] /\ RequestOK(handling[g])
    BY <1>3 DEF StorageInv, StorageTypeOK, RequestsOK, Done
  <2>2. QED
    BY <2>1 DEF RequestOK, BringsItsOwn, HasItsFile, SparesNoEarlierJob
<1>4. QED
  BY <1>1, <1>2, <1>3 DEF StorageInv, RequestsOK

LEMMA MetadataSavedKeeps ==
    ASSUME StorageInv, NEW h \in Handlers, MetadataSaved(h)
    PROVE  StorageInv'
<1> DEFINE r == handling[h]
<1>1. r \in Request /\ RequestOK(r) /\ r.at = "metadata"
  BY RequestOnItsWay DEF MetadataSaved
<1>2. NameGiven(r) \in Names \cup {NoJson, Unnamed}
  BY <1>1 DEF NameGiven, Request, StorageIds, FileRow, StorageInv, StorageTypeOK
<1>3. json' \in [StorageIds -> Names \cup {NoJson, Unnamed}]
  BY <1>2 DEF MetadataSaved, StorageInv, StorageTypeOK
<1>4. Done(h) /\ files' = files /\ taken' = taken
  BY DEF MetadataSaved
<1>5. CASE r.kind = "printer"
  <2>1. SaveJob(r, r.id) /\ r.id \in files \cup taken
    BY <1>1, <1>5 DEF MetadataSaved, RequestOK, HasItsFile
  <2>2. QED
    BY <1>1, <1>3, <1>4, <2>1, SaveJobKeeps
<1>6. CASE r.kind # "printer"
  <2>1. /\ DOMAIN rows' = DOMAIN rows /\ lastRow' = lastRow
        /\ rows' \in [DOMAIN rows -> FileRow]
        /\ \A k \in DOMAIN rows : /\ rows'[k].storage = rows[k].storage
                                  /\ rows'[k].hash = rows[k].hash
    <3>1. rows \in [DOMAIN rows -> FileRow]
      BY DEF StorageInv, StorageTypeOK
    <3>2. lastRow' = lastRow
      BY <1>6 DEF MetadataSaved
    <3>3. CASE rows' = rows
      BY <3>1, <3>2, <3>3
    <3>4. CASE /\ r.row \in DOMAIN rows
               /\ rows' = Put(r.row, [rows[r.row] EXCEPT !.analysed = TRUE])
      <4>1. DOMAIN rows' = DOMAIN rows
        BY <3>4 DEF Put
      <4>2. \A k \in DOMAIN rows :
               rows'[k] = IF k = r.row THEN [rows[k] EXCEPT !.analysed = TRUE] ELSE rows[k]
        BY <3>4 DEF Put
      <4>3. \A k \in DOMAIN rows : rows[k] \in FileRow
        BY <3>1
      <4>4. \A k \in DOMAIN rows : /\ rows'[k] \in FileRow
                                   /\ rows'[k].storage = rows[k].storage
                                   /\ rows'[k].hash = rows[k].hash
        BY <4>2, <4>3 DEF FileRow
      <4>5. rows' = [k \in DOMAIN rows |-> rows'[k]]
        BY <3>4, <4>1 DEF Put
      <4>6. QED
        BY <3>2, <4>1, <4>4, <4>5
    <3>5. QED
      BY <1>6, <3>3, <3>4 DEF MetadataSaved
  <2>2. QED
    BY <1>3, <1>4, <2>1, RequestEnds
<1>7. QED
  BY <1>5, <1>6

\* The unlink takes a file from nobody unseen: the jobs and uploads that have
\* come to use it since the deletion was decided are those InUse looks for.
LEMMA UnlinkedKeeps ==
    ASSUME StorageInv, NEW h \in Handlers, Unlinked(h)
    PROVE  StorageInv'
<1> DEFINE r == handling[h]
<1>1. r \in Request /\ RequestOK(r) /\ r.at = "unlink" /\ r.kind = "deletion"
  BY RequestOnItsWay DEF Unlinked, RequestOK
<1>2. /\ files' = files \ {r.id}
      /\ taken' = IF InUse(h, r) THEN taken \cup {r.id} ELSE taken
      /\ UNCHANGED <<json, rows, lastRow>>
  BY DEF Unlinked
<1>3. PICK s \in {Idle, [r EXCEPT !.at = "unlinkJson"]} : handling' = [handling EXCEPT ![h] = s]
  BY DEF Unlinked, Goto, Done
<1>4. s = Idle \/ s \in Request
  BY <1>1, <1>3 DEF Request
<1>5. StorageTypeOK'
  <2>1. files' \subseteq StorageIds /\ taken' \subseteq StorageIds
    BY <1>1, <1>2 DEF StorageInv, StorageTypeOK, Request
  <2>2. handling' \in [Handlers -> Request \cup {Idle}]
    BY <1>3, <1>4 DEF StorageInv, StorageTypeOK
  <2>3. QED
    BY <1>2, <2>1, <2>2 DEF StorageInv, StorageTypeOK
<1>6. /\ files \cup taken \subseteq files' \cup taken' \cup {r.id}
      /\ InUse(h, r) => files \cup taken \subseteq files' \cup taken'
  BY <1>2
<1>7. JobsKeepTheirFiles'
  <2>1. ASSUME NEW j \in DOMAIN rows, rows[j].storage = r.id
        PROVE  InUse(h, r)
    BY <1>1, <2>1 DEF RequestOK, SparesNoEarlierJob, InUse
  <2>2. QED
    BY <1>2, <1>6, <2>1 DEF StorageInv, JobsKeepTheirFiles
<1>8. DuplicatesAreEqual'
  BY <1>2 DEF StorageInv, DuplicatesAreEqual
<1>9. ASSUME NEW g \in Handlers, handling'[g] # Idle
      PROVE  RequestOK(handling[g])'
  <2>1. CASE g = h
    <3>1. handling'[g] = [r EXCEPT !.at = "unlinkJson"]
      BY <1>3, <1>9, <2>1 DEF StorageInv, StorageTypeOK
    <3>2. SparesNoEarlierJob(handling[g])'
      BY <1>1, <1>2, <3>1 DEF RequestOK, SparesNoEarlierJob, Request
    <3>3. QED
      BY <1>1, <3>1, <3>2 DEF RequestOK, BringsItsOwn, HasItsFile, Request
  <2>2. CASE g # h
    <3>1. handling'[g] = handling[g] /\ handling[g] # Idle /\ RequestOK(handling[g])
      BY <1>3, <1>9, <2>2 DEF StorageInv, StorageTypeOK, RequestsOK
    <3>2. HasItsFile(handling[g])'
      BY <1>6, <2>2, <3>1 DEF RequestOK, HasItsFile, InUse
    <3>3. QED
      BY <1>2, <3>1, <3>2 DEF RequestOK, BringsItsOwn, SparesNoEarlierJob
  <2>3. QED
    BY <2>1, <2>2
<1>10. QED
  BY <1>5, <1>7, <1>8, <1>9 DEF StorageInv, RequestsOK

LEMMA JsonUnlinkedKeeps ==
    ASSUME StorageInv, NEW h \in Handlers, JsonUnlinked(h)
    PROVE  StorageInv'
<1>1. json' \in [StorageIds -> Names \cup {NoJson, Unnamed}]
  BY DEF JsonUnlinked, StorageInv, StorageTypeOK
<1>2. rows' \in [DOMAIN rows -> FileRow]
  BY DEF JsonUnlinked, StorageInv, StorageTypeOK
<1>3. QED
  BY <1>1, <1>2, RequestEnds DEF JsonUnlinked

LEMMA RestartKeeps == StorageInv /\ Restart => StorageInv'
  BY DEF Restart, diskVars, StorageInv, StorageTypeOK, JobsKeepTheirFiles, DuplicatesAreEqual,
         RequestsOK

-----------------------------------------------------------------------------

LEMMA StorageInvNext == StorageInv /\ [StorageNext]_vars => StorageInv'
<1> SUFFICES ASSUME StorageInv, [StorageNext]_vars
             PROVE  StorageInv'
  OBVIOUS
<1>1. ASSUME NEW h \in Handlers, Continues(h)
      PROVE  StorageInv'
  BY <1>1, QuietStepKeeps, HashedKeeps, CachedKeeps, SavedKeeps, MetadataSavedKeeps,
     UnlinkedKeeps, JsonUnlinkedKeeps DEF Continues
<1>2. CASE UNCHANGED vars
  BY <1>2 DEF vars, diskVars, StorageInv, StorageTypeOK, JobsKeepTheirFiles, DuplicatesAreEqual,
              RequestsOK, RequestOK, BringsItsOwn, HasItsFile, SparesNoEarlierJob
<1>3. QED
  BY <1>1, <1>2, BeginsKeeps, JobFromFileKeeps, RestartKeeps DEF StorageNext

\* FileStorageService and its callers: of any contents, names, jobs and
\* requests, the rows, the metadata and the requests are well formed.
THEOREM StorageType == StorageSpec => []StorageTypeOK
<1>1. StorageInv => StorageTypeOK
  BY DEF StorageInv
<1>2. QED
  BY <1>1, StorageInvInit, StorageInvNext, PTL DEF StorageSpec

\* deleteFile after countJobsReferencingFile, beside uploads that find their
\* file by its hash: no job is without its file, unless it was taken away by a
\* client's own request or while an upload was about to use it.
THEOREM StorageKeepsFiles == StorageSpec => []JobsKeepTheirFiles
<1>1. StorageInv => JobsKeepTheirFiles
  BY DEF StorageInv
<1>2. QED
  BY <1>1, StorageInvInit, StorageInvNext, PTL DEF StorageSpec

\* findDuplicateByHash: the file a job is given has the contents it was
\* created for, whichever uploads brought them and under whatever names.
THEOREM StorageDuplicates == StorageSpec => []DuplicatesAreEqual
<1>1. StorageInv => DuplicatesAreEqual
  BY DEF StorageInv
<1>2. QED
  BY <1>1, StorageInvInit, StorageInvNext, PTL DEF StorageSpec

--------------------------------------------------------------------------

-----------------------------------------------------------------------------
(* BGCodeFile: where blocks begin.                                         *)

\* Of the numbers up to n that something is true of there is a first.
LEMMA FirstNumber ==
    ASSUME NEW n \in Nat, NEW S \in SUBSET (1..n), S # {}
    PROVE  \E i \in S : \A k \in S : i <= k
<1> DEFINE LT == {ss \in Nat \X Nat : ss[1] < ss[2]}
<1>1. S \subseteq Nat
  OBVIOUS
<1>2. IsWellFoundedOn(LT, Nat)
  BY NatLessThanWellFounded DEF OpToRel
<1> HIDE DEF LT
<1>3. PICK i \in S : \A k \in S : ~(<<k, i>> \in LT)
  BY <1>1, <1>2, WFMin, Zenon
<1>4. ASSUME NEW k \in S PROVE i <= k
  <2>1. i \in Nat /\ k \in Nat
    BY <1>1
  <2>2. k < i => <<k, i>> \in LT
    BY <2>1 DEF LT
  <2>3. QED
    BY <1>3, <2>1, <2>2
<1>5. QED
  BY <1>4

LEMMA BlocksOf ==
    ASSUME NEW f \in BGCode
    PROVE  /\ Len(f.blocks) \in Nat /\ DOMAIN f.blocks = 1..Len(f.blocks)
           /\ \A i \in 1..Len(f.blocks) : f.blocks[i] \in BGCodeBlock
           /\ f.checksum \in Nat /\ f.version \in Nat
<1>1. f.blocks \in Seq(BGCodeBlock) /\ f.checksum \in Nat /\ f.version \in Nat
  BY DEF BGCode
<1>2. QED
  BY <1>1, LenProperties, ElementOfSeq

\* The parser's size of a block is the length its writer gave it.
LEMMA LengthIs ==
    ASSUME NEW f \in BGCode, NEW b \in BGCodeBlock
    PROVE  /\ BlockLength(f, b) \in Nat /\ BlockLength(f, b) >= 10
           /\ BlockLength(f, b) = BlockSize(b, f.checksum)
           /\ Stored(b) \in Nat
           /\ Laid(f, b)[1] = BlockHeaderSize(b) /\ Laid(f, b)[2] = ParametersSize(b.type)
           /\ Laid(f, b)[1] \in Nat /\ Laid(f, b)[1] >= 8 /\ Laid(f, b)[2] \in Nat
           /\ Laid(f, b)[1] + Laid(f, b)[2] <= BlockLength(f, b)
           /\ BlockLength(f, b) - ParametersSize(b.type) - ChecksumSize(f.checksum)
                 = Laid(f, b)[1] + Stored(b)
<1> DEFINE p1 == IF b.compression = 0 THEN 8 ELSE 12
           p2 == IF b.type = 5 THEN 6 ELSE 2
           p3 == Stored(b)
           p4 == IF f.checksum = 1 THEN 4 ELSE 0
<1>1. /\ b.type \in Nat /\ b.compression \in Nat /\ b.uncompressed \in Nat /\ b.compressed \in Nat
      /\ f.checksum \in Nat
  BY DEF BGCodeBlock, BGCode
<1>2. Laid(f, b) = <<p1, p2, p3, p4>>
  BY DEF Laid
<1>3. p1 \in {8, 12} /\ p2 \in {2, 6} /\ p3 \in Nat /\ p4 \in {0, 4}
  BY <1>1 DEF Stored
<1>4. p1 = BlockHeaderSize(b) /\ p2 = ParametersSize(b.type) /\ p4 = ChecksumSize(f.checksum)
  BY <1>1 DEF BlockHeaderSize, MaxBlockHeaderSize, MinBlockHeaderSize, ParametersSize, Thumbnail,
              ChecksumSize
<1>5. BlockSize(b, f.checksum) = p1 + p2 + p4 + p3
  BY <1>4 DEF BlockSize, Stored
<1>6. BlockLength(f, b) = p1 + p2 + p3 + p4
  BY <1>2 DEF BlockLength
<1>7. Laid(f, b)[1] = p1 /\ Laid(f, b)[2] = p2
  BY <1>2
<1> HIDE DEF p1, p2, p3, p4
<1>8. QED
  BY <1>3, <1>4, <1>5, <1>6, <1>7 DEF p3

LEMMA StartsAre ==
    ASSUME NEW f \in BGCode
    PROVE  /\ \A i \in 1..(Len(f.blocks) + 1) : Starts(f, i) \in Nat
           /\ Starts(f, 1) = 10
           /\ \A i \in 1..Len(f.blocks) :
                 Starts(f, i + 1) = Starts(f, i) + BlockLength(f, f.blocks[i])
<1> DEFINE n == Len(f.blocks)
           L(i) == BlockLength(f, f.blocks[i])
           E(g, k) == [i \in 1..k |-> IF i = 1 THEN 10 ELSE g[i - 1] + L(i - 1)]
<1>1. n \in Nat /\ \A i \in 1..n : L(i) \in Nat
  BY BlocksOf, LengthIs
<1>2. Offsets(f) = CHOOSE g : g = E(g, n + 1)
  BY DEF Offsets
<1> HIDE DEF n, L
<1>3. \E g : g = E(g, n + 1)
  <2> DEFINE Bad == {k \in 1..(n + 1) : ~ \E g : g = E(g, k)}
  <2>1. SUFFICES Bad = {}
    <3>1. n + 1 \in 1..(n + 1)
      BY <1>1
    <3>2. QED
      BY <2>1, <3>1
  <2>2. SUFFICES ASSUME Bad # {} PROVE FALSE
    OBVIOUS
  <2>8. n + 1 \in Nat /\ Bad \in SUBSET (1..(n + 1))
    BY <1>1
  <2> HIDE DEF Bad
  <2>3. PICK k \in Bad : \A j \in Bad : k <= j
    BY <2>2, <2>8, FirstNumber
  <2> USE DEF Bad
  <2>4. k \in Nat /\ k >= 1 /\ k <= n + 1
    BY <1>1, <2>3
  <2>5. CASE k = 1
    <3>1. [i \in 1..1 |-> 10] = E([i \in 1..1 |-> 10], 1)
      BY <2>5
    <3>2. \E g : g = E(g, k)
      BY <2>5, <3>1
    <3>3. QED
      BY <2>3, <3>2
  <2>6. CASE k # 1
    <3>1. k - 1 \in 1..(n + 1) /\ ~(k <= k - 1)
      BY <1>1, <2>4, <2>6
    <3>2. PICK g : g = E(g, k - 1)
      BY <2>3, <3>1
    <3> DEFINE h == [i \in 1..k |-> IF i = k THEN g[k - 1] + L(k - 1) ELSE g[i]]
    <3>3. ASSUME NEW i \in 1..k
          PROVE  h[i] = IF i = 1 THEN 10 ELSE h[i - 1] + L(i - 1)
      <4>1. CASE i = k
        <5>1. k - 1 \in 1..k /\ k - 1 # k
          BY <2>4, <2>6
        <5>2. QED
          BY <2>6, <4>1, <5>1
      <4>2. CASE i # k
        <5>1. i \in 1..(k - 1)
          BY <2>4, <4>2
        <5>2. g[i] = IF i = 1 THEN 10 ELSE g[i - 1] + L(i - 1)
          BY <3>2, <5>1
        <5>3. i # 1 => i - 1 \in 1..k /\ i - 1 # k
          BY <2>4, <5>1
        <5>4. QED
          BY <4>2, <5>2, <5>3
      <4>3. QED
        BY <4>1, <4>2
    <3>4. h = E(h, k)
      BY <3>3
    <3>5. QED
      BY <2>3, <3>4
  <2>7. QED
    BY <2>5, <2>6
<1>4. Offsets(f) = E(Offsets(f), n + 1)
  BY <1>2, <1>3
<1> DEFINE g == Offsets(f)
<1>5. \A i \in 1..(n + 1) : g[i] = IF i = 1 THEN 10 ELSE g[i - 1] + L(i - 1)
  BY <1>4
<1> HIDE DEF g
<1>6. \A i \in 1..(n + 1) : g[i] \in Nat
  <2> DEFINE Bad == {k \in 1..(n + 1) : g[k] \notin Nat}
  <2>1. SUFFICES ASSUME Bad # {} PROVE FALSE
    OBVIOUS
  <2>8. n + 1 \in Nat /\ Bad \in SUBSET (1..(n + 1))
    BY <1>1
  <2> HIDE DEF Bad
  <2>2. PICK k \in Bad : \A j \in Bad : k <= j
    BY <2>1, <2>8, FirstNumber
  <2> USE DEF Bad
  <2>3. k \in Nat /\ k >= 1 /\ k <= n + 1 /\ k # 1
    BY <1>1, <1>5, <2>2
  <2>4. k - 1 \in 1..(n + 1) /\ k - 1 \in 1..n /\ ~(k <= k - 1)
    BY <1>1, <2>3
  <2>5. g[k - 1] \in Nat /\ L(k - 1) \in Nat
    BY <1>1, <2>2, <2>4
  <2>6. g[k] = g[k - 1] + L(k - 1)
    BY <1>5, <2>2, <2>3
  <2>7. QED
    BY <2>2, <2>5, <2>6
<1>7. 1 \in 1..(n + 1) /\ g[1] = 10
  BY <1>1, <1>5
<1>8. ASSUME NEW i \in 1..n PROVE g[i + 1] = g[i] + L(i)
  <2>1. i + 1 \in 1..(n + 1) /\ i + 1 # 1 /\ (i + 1) - 1 = i
    BY <1>1
  <2>2. QED
    BY <1>5, <2>1
<1>9. QED
  BY <1>6, <1>7, <1>8 DEF Starts, g, L, n

\* Later blocks begin behind earlier ones.
LEMMA StartsGrow ==
    ASSUME NEW f \in BGCode, NEW i \in 1..(Len(f.blocks) + 1), NEW j \in 1..(Len(f.blocks) + 1), i < j
    PROVE  Starts(f, i) < Starts(f, j)
<1> DEFINE n == Len(f.blocks)
           S(k) == Starts(f, k)
           L(k) == BlockLength(f, f.blocks[k])
           Bad == {k \in 1..(n + 1) : i < k /\ ~(S(i) < S(k))}
<1>1. /\ n \in Nat /\ \A k \in 1..n : L(k) \in Nat /\ L(k) >= 10
      /\ \A k \in 1..(n + 1) : S(k) \in Nat
      /\ \A k \in 1..n : S(k + 1) = S(k) + L(k)
  BY BlocksOf, LengthIs, StartsAre
<1> HIDE DEF n, S, L
<1>2. SUFFICES ASSUME Bad # {} PROVE FALSE
  BY DEF n, S
<1>10. n + 1 \in Nat /\ Bad \in SUBSET (1..(n + 1))
  BY <1>1
<1> HIDE DEF Bad
<1>3. PICK k \in Bad : \A m \in Bad : k <= m
  BY <1>2, <1>10, FirstNumber
<1> USE DEF Bad
<1>4. i \in 1..(n + 1)
  BY DEF n
<1>5. k \in Nat /\ i \in Nat /\ i >= 1 /\ i < k /\ k <= n + 1 /\ ~(S(i) < S(k))
  BY <1>1, <1>3, <1>4
<1> DEFINE m == k - 1
<1>6. m \in Nat /\ k = m + 1 /\ m \in 1..n /\ m \in 1..(n + 1) /\ ~(k <= m) /\ (i = m \/ i < m)
  BY <1>1, <1>5
<1> HIDE DEF m
<1>7. S(i) = S(m) \/ S(i) < S(m)
  BY <1>3, <1>6
<1>8. S(i) \in Nat /\ S(m) \in Nat /\ L(m) \in Nat /\ L(m) >= 10 /\ S(k) = S(m) + L(m)
  BY <1>1, <1>4, <1>6
<1>9. QED
  BY <1>5, <1>7, <1>8

LEMMA StartsDiffer ==
    ASSUME NEW f \in BGCode, NEW i \in 1..(Len(f.blocks) + 1), NEW j \in 1..(Len(f.blocks) + 1),
           Starts(f, i) = Starts(f, j)
    PROVE  i = j
<1>1. i \in Nat /\ j \in Nat
  BY BlocksOf
<1>2. Starts(f, i) \in Nat /\ Starts(f, j) \in Nat
  BY StartsAre
<1>3. ~(i < j) /\ ~(j < i)
  BY <1>2, StartsGrow
<1>4. QED
  BY <1>1, <1>3

\* The data of a block begins between the block and the next.
LEMMA DataBetween ==
    ASSUME NEW f \in BGCode, NEW i \in 1..Len(f.blocks)
    PROVE  /\ DataStarts(f, i) \in Nat
           /\ Starts(f, i) < DataStarts(f, i) /\ DataStarts(f, i) <= Starts(f, i + 1)
<1> DEFINE b == f.blocks[i]
           s == Starts(f, i)
           p == Laid(f, b)[1]
           q == Laid(f, b)[2]
           l == BlockLength(f, b)
<1>1. b \in BGCodeBlock /\ i \in 1..(Len(f.blocks) + 1)
  BY BlocksOf
<1>2. p \in Nat /\ p >= 8 /\ q \in Nat /\ p + q <= l /\ l \in Nat
  BY <1>1, LengthIs
<1>3. s \in Nat /\ Starts(f, i + 1) = s + l /\ DataStarts(f, i) = s + p + q
  BY <1>1, StartsAre DEF DataStarts
<1> HIDE DEF b, s, p, q, l
<1>4. QED
  BY <1>2, <1>3 DEF s

LEMMA DataDiffers ==
    ASSUME NEW f \in BGCode, NEW i \in 1..Len(f.blocks), NEW j \in 1..Len(f.blocks),
           DataStarts(f, i) = DataStarts(f, j)
    PROVE  i = j
<1>1. /\ Len(f.blocks) \in Nat /\ i \in Nat /\ j \in Nat
      /\ {i, j, i + 1, j + 1} \subseteq 1..(Len(f.blocks) + 1)
  BY BlocksOf
<1>2. \A k \in {i, j, i + 1, j + 1} : Starts(f, k) \in Nat
  BY <1>1, StartsAre
<1>3. ASSUME NEW k \in {i, j}, NEW m \in {i, j}, k < m PROVE FALSE
  <2>1. k + 1 = m \/ k + 1 < m
    BY <1>1, <1>3
  <2>2. Starts(f, k + 1) <= Starts(f, m)
    BY <1>1, <1>2, <2>1, StartsGrow
  <2>3. /\ DataStarts(f, k) <= Starts(f, k + 1) /\ Starts(f, m) < DataStarts(f, m)
        /\ DataStarts(f, k) \in Nat /\ DataStarts(f, k) = DataStarts(f, m)
    BY DataBetween
  <2>4. QED
    BY <1>2, <2>2, <2>3
<1>4. QED
  BY <1>1, <1>3

-----------------------------------------------------------------------------
(* BGCodeFile: the walk over the blocks.                                   *)

Header == [type : Nat, start : Nat, blockSize : Nat, dataOffset : Nat, dataSize : Nat]

BGCodeTyped ==
    /\ bgcode \in BGCode
    /\ bgPhase \in {"start", "blocks", "metadata", "thumbnails", "done", "failed"}
    /\ expected \in 1..6
    /\ headers \in Seq(Header)
    /\ reads \in Seq([of : Header, first : Nat, bytes : Nat])

\* What is to be found of the file's block k
HeaderOf(k) ==
    LET b      == bgcode.blocks[k]
        length == BlockLength(bgcode, b)
    IN  [type       |-> b.type,
         start      |-> Starts(bgcode, k),
         blockSize  |-> length,
         dataOffset |-> DataStarts(bgcode, k),
         dataSize   |-> length - ParametersSize(b.type) - ChecksumSize(bgcode.checksum)]

\* The headers found are those of the first blocks, of which none is of
\* G-code; and when the blocks are left, one of G-code or nothing follows.
HeadersFollow ==
    /\ Len(headers) <= Len(bgcode.blocks)
    /\ offset = Starts(bgcode, Len(headers) + 1)
    /\ \A k \in 1..Len(headers) : headers[k] = HeaderOf(k) /\ bgcode.blocks[k].type # GCode
    /\ bgPhase \in {"metadata", "thumbnails", "done"} =>
          \/ Len(headers) = Len(bgcode.blocks)
          \/ bgcode.blocks[Len(headers) + 1].type = GCode

\* The types of the headers grow up to the one last expected.
TypesFollow ==
    /\ \A k \in 1..Len(headers) : headers[k].type \in 0..5 /\ Rank(headers[k].type) <= expected
    /\ \A i, k \in 1..Len(headers) : i < k => Rank(headers[i].type) <= Rank(headers[k].type)
    /\ expected = IF headers = << >> THEN 1 ELSE Rank(headers[Len(headers)].type)

\* Each data read is that of a header, and of another one each time; none is
\* missing where a phase is left.
ReadsFollow ==
    /\ \A r \in DOMAIN reads : \E k \in 1..Len(headers) :
          reads[r] = [of |-> headers[k], first |-> headers[k].dataOffset, bytes |-> headers[k].dataSize]
    /\ \A r, t \in DOMAIN reads : reads[r].of = reads[t].of => r = t
    /\ bgPhase \in {"thumbnails", "done"} =>
          \A k \in 1..Len(headers) :
             headers[k].type # Thumbnail => \E r \in DOMAIN reads : reads[r].of = headers[k]
    /\ bgPhase = "done" =>
          \A k \in 1..Len(headers) : \E r \in DOMAIN reads : reads[r].of = headers[k]

FailureIsDue == bgPhase = "failed" => ~Sound(bgcode) \/ Types(bgcode) # 0..5

BGCodeInv == BGCodeTyped /\ HeadersFollow /\ TypesFollow /\ ReadsFollow /\ FailureIsDue

LEMMA TypeOfHeader == ASSUME NEW k PROVE HeaderOf(k).type = bgcode.blocks[k].type
BY DEF HeaderOf

LEMMA HeaderType ==
    ASSUME bgcode \in BGCode, NEW k \in 1..Len(bgcode.blocks)
    PROVE  HeaderOf(k) \in Header /\ HeaderOf(k).dataSize >= Stored(bgcode.blocks[k])
<1> DEFINE b == bgcode.blocks[k]
           l == BlockLength(bgcode, b)
           d == l - ParametersSize(b.type) - ChecksumSize(bgcode.checksum)
           p == Laid(bgcode, b)[1]
<1>1. b \in BGCodeBlock /\ k \in 1..(Len(bgcode.blocks) + 1)
  BY BlocksOf
<1>2. l \in Nat /\ d = p + Stored(b) /\ p \in Nat /\ Stored(b) \in Nat
  BY <1>1, LengthIs
<1>3. b.type \in Nat
  BY <1>1 DEF BGCodeBlock
<1>4. Starts(bgcode, k) \in Nat /\ DataStarts(bgcode, k) \in Nat
  BY <1>1, StartsAre, DataBetween
<1>5. HeaderOf(k) = [type |-> b.type, start |-> Starts(bgcode, k), blockSize |-> l,
                     dataOffset |-> DataStarts(bgcode, k), dataSize |-> d]
  BY DEF HeaderOf
<1> HIDE DEF b, l, d, p
<1>6. d \in Nat /\ d >= Stored(b)
  BY <1>2
<1>7. HeaderOf(k) \in Header /\ HeaderOf(k).dataSize >= Stored(b)
  BY <1>2, <1>3, <1>4, <1>5, <1>6 DEF Header
<1>8. QED
  BY <1>7 DEF b

\* At the offset there is the next block.
LEMMA NextBlock ==
    ASSUME BGCodeTyped, HeadersFollow, offset < FileSize(bgcode)
    PROVE  LET n == Len(headers) + 1
           IN  /\ n \in 1..Len(bgcode.blocks)
               /\ BlockAt(offset) = bgcode.blocks[n] /\ bgcode.blocks[n] \in BGCodeBlock
               /\ ParsedHeader(BlockAt(offset)) = HeaderOf(n)
               /\ offset + BlockSize(BlockAt(offset), bgcode.checksum) = Starts(bgcode, n + 1)
<1> DEFINE n == Len(headers) + 1
           N == Len(bgcode.blocks)
<1>1. /\ bgcode \in BGCode /\ headers \in Seq(Header) /\ Len(headers) \in Nat /\ N \in Nat
      /\ DOMAIN bgcode.blocks = 1..N
  BY BlocksOf, LenProperties DEF BGCodeTyped
<1>2. n \in Nat /\ n >= 1 /\ n <= N + 1 /\ offset = Starts(bgcode, n)
  BY <1>1 DEF HeadersFollow
<1>3. n # N + 1
  <2>1. SUFFICES ASSUME n = N + 1 PROVE FALSE
    OBVIOUS
  <2>2. offset = FileSize(bgcode)
    BY <1>2, <2>1 DEF FileSize
  <2>3. N + 1 \in 1..(N + 1)
    BY <1>1
  <2>4. offset \in Nat
    BY <1>1, <1>2, <2>1, <2>3, StartsAre
  <2>5. QED
    BY <2>2, <2>4
<1>4. n \in 1..N /\ n \in 1..(N + 1) /\ 1..N \subseteq 1..(N + 1)
  BY <1>1, <1>2, <1>3
<1> DEFINE b == bgcode.blocks[n]
<1>5. BlockAt(offset) = b
  <2> DEFINE at == {i \in 1..N : Starts(bgcode, i) = offset}
  <2>1. n \in at /\ \A i \in at : i = n
    BY <1>1, <1>2, <1>4, StartsDiffer
  <2>2. BlockAt(offset) = IF at = {} THEN NoBlock ELSE bgcode.blocks[CHOOSE i \in at : TRUE]
    BY <1>1 DEF BlockAt
  <2>3. at # {} /\ (CHOOSE i \in at : TRUE) = n
    BY <2>1
  <2> HIDE DEF at
  <2>4. QED
    BY <2>2, <2>3
<1>6. b \in BGCodeBlock
  BY <1>1, <1>4, BlocksOf
<1>7. /\ BlockLength(bgcode, b) = BlockSize(b, bgcode.checksum)
      /\ Laid(bgcode, b)[1] = BlockHeaderSize(b) /\ Laid(bgcode, b)[2] = ParametersSize(b.type)
      /\ Starts(bgcode, n + 1) = offset + BlockLength(bgcode, b)
  BY <1>1, <1>2, <1>4, <1>6, LengthIs, StartsAre
<1>8. DataStarts(bgcode, n) = offset + BlockHeaderSize(b) + ParametersSize(b.type)
  BY <1>2, <1>7 DEF DataStarts
<1>9. ParsedHeader(b) = HeaderOf(n)
  BY <1>2, <1>7, <1>8 DEF ParsedHeader, HeaderOf
<1>10. QED
  BY <1>4, <1>5, <1>6, <1>7, <1>9

\* The documented order
LEMMA RankIs ==
    ASSUME NEW t \in 0..5
    PROVE  /\ Rank(t) \in 1..6 /\ ExpectedHeaders[Rank(t)] = t
           /\ \A n \in 1..6 : ExpectedHeaders[n] = t => n = Rank(t)
<1>1. /\ DOMAIN ExpectedHeaders = 1..6
      /\ ExpectedHeaders = <<0, 3, 5, 4, 2, 1>>
  BY DEF ExpectedHeaders, FileMetadata, PrinterMetadata, Thumbnail, PrintMetadata, SlicerMetadata, GCode
<1> DEFINE Is(n) == ExpectedHeaders[n] = t
<1>2. \E n \in 1..6 : Is(n)
  <2>1. t = 0 \/ t = 1 \/ t = 2 \/ t = 3 \/ t = 4 \/ t = 5
    OBVIOUS
  <2>2. 1 \in 1..6 /\ 2 \in 1..6 /\ 3 \in 1..6 /\ 4 \in 1..6 /\ 5 \in 1..6 /\ 6 \in 1..6
    OBVIOUS
  <2>3. ExpectedHeaders[1] = 0 /\ ExpectedHeaders[2] = 3 /\ ExpectedHeaders[3] = 5
        /\ ExpectedHeaders[4] = 4 /\ ExpectedHeaders[5] = 2 /\ ExpectedHeaders[6] = 1
    BY <1>1
  <2>4. QED
    BY <2>1, <2>2, <2>3
<1>3. \A n, m \in 1..6 : Is(n) /\ Is(m) => n = m
  BY <1>1
<1>4. Rank(t) = CHOOSE n \in 1..6 : Is(n)
  BY <1>1 DEF Rank
<1> HIDE DEF Is
<1>5. Rank(t) \in 1..6 /\ Is(Rank(t))
  BY <1>2, <1>4
<1>6. QED
  BY <1>3, <1>5 DEF Is

LEMMA ExpectedIs ==
    ASSUME BGCodeTyped, NEW t \in Nat, NextExpected(t) # {}
    PROVE  /\ t \in 0..5 /\ Rank(t) \in {expected, expected + 1}
           /\ (CHOOSE n \in NextExpected(t) : TRUE) = Rank(t)
<1>1. DOMAIN ExpectedHeaders = 1..6 /\ \A n \in 1..6 : ExpectedHeaders[n] \in 0..5
  BY DEF ExpectedHeaders, FileMetadata, PrinterMetadata, Thumbnail, PrintMetadata, SlicerMetadata, GCode
<1>2. PICK n \in 1..6 : n \in {expected, expected + 1} /\ ExpectedHeaders[n] = t
  BY <1>1 DEF NextExpected
<1>3. t \in 0..5
  BY <1>1, <1>2
<1>4. \A m \in NextExpected(t) : m = Rank(t)
  BY <1>1, <1>3, RankIs DEF NextExpected
<1>5. n = Rank(t)
  BY <1>2, <1>3, RankIs
<1>6. (CHOOSE m \in NextExpected(t) : TRUE) \in NextExpected(t)
  OBVIOUS
<1>7. QED
  BY <1>2, <1>3, <1>4, <1>5, <1>6

\* A block is refused only if something is wrong with the file, or some type
\* of block is missing.
LEMMA RefusalIsDue ==
    ASSUME BGCodeInv, NEW n, n = Len(headers) + 1, n \in 1..Len(bgcode.blocks),
           NEW b, b = bgcode.blocks[n],
           Refused(b) \/ (b.type # GCode /\ NextExpected(b.type) = {})
    PROVE  ~Sound(bgcode) \/ Types(bgcode) # 0..5
<1> SUFFICES ASSUME Sound(bgcode), Types(bgcode) = 0..5 PROVE FALSE
  OBVIOUS
<1> DEFINE N == Len(bgcode.blocks)
<1>1. /\ bgcode \in BGCode /\ N \in Nat /\ DOMAIN bgcode.blocks = 1..N
      /\ b \in BGCodeBlock /\ bgcode.checksum \in Nat
  BY BlocksOf DEF BGCodeInv, BGCodeTyped
<1>2. /\ b.type \in 0..5 /\ b.uncompressed # 0 /\ b.compression <= 3 /\ Stored(b) # 0
      /\ BlockLength(bgcode, b) >= 12 /\ bgcode.checksum <= 1
  <2>1. b.type \in Types(bgcode)
    BY <1>1 DEF Types
  <2>2. QED
    BY <1>1, <2>1 DEF Sound, MaxBlockHeaderSize
<1>3. offset + MaxBlockHeaderSize <= FileSize(bgcode)
  <2>1. n + 1 \in 1..(N + 1) /\ N + 1 \in 1..(N + 1) /\ n \in 1..(N + 1) /\ (n + 1 = N + 1 \/ n + 1 < N + 1)
    BY <1>1
  <2>2. Starts(bgcode, n + 1) \in Nat /\ Starts(bgcode, N + 1) \in Nat /\ offset \in Nat
    BY <1>1, <2>1, StartsAre DEF BGCodeInv, HeadersFollow
  <2>3. Starts(bgcode, n + 1) <= Starts(bgcode, N + 1)
    BY <1>1, <2>1, <2>2, StartsGrow
  <2>4. Starts(bgcode, n + 1) = offset + BlockLength(bgcode, b)
    BY <1>1, StartsAre DEF BGCodeInv, HeadersFollow
  <2>5. BlockLength(bgcode, b) \in Nat
    BY <1>1, LengthIs
  <2>6. QED
    BY <1>2, <2>2, <2>3, <2>4, <2>5 DEF FileSize, MaxBlockHeaderSize
<1>4. ~Refused(b)
  <2>1. /\ b.type \in Nat /\ b.uncompressed \in Nat /\ b.compression \in Nat /\ b.compressed \in Nat
    BY <1>1 DEF BGCodeBlock
  <2>2. ~(offset + MaxBlockHeaderSize > FileSize(bgcode))
    <3>1. offset + MaxBlockHeaderSize \in Nat /\ FileSize(bgcode) \in Nat
      <4>1. n \in 1..(N + 1) /\ N + 1 \in 1..(N + 1)
        BY <1>1
      <4>2. QED
        BY <1>1, <4>1, StartsAre DEF BGCodeInv, HeadersFollow, FileSize, MaxBlockHeaderSize
    <3>2. QED
      BY <1>3, <3>1
  <2>3. ~(b.compression > 0 /\ b.compressed = 0)
    BY <1>2, <2>1 DEF Stored
  <2>4. QED
    BY <1>1, <1>2, <2>1, <2>2, <2>3 DEF Refused
<1>5. NextExpected(b.type) = {}
  BY <1>4
<1> DEFINE r == Rank(b.type)
<1>6. r \in 1..6 /\ ExpectedHeaders[r] = b.type /\ expected \in 1..6
  BY <1>2, RankIs DEF BGCodeInv, BGCodeTyped
<1>7. r # expected /\ r # expected + 1
  <2>1. DOMAIN ExpectedHeaders = 1..6
    BY DEF ExpectedHeaders
  <2>2. QED
    BY <1>5, <1>6, <2>1 DEF NextExpected
<1>8. \A i, k \in 1..N : i < k => Rank(bgcode.blocks[i].type) <= Rank(bgcode.blocks[k].type)
  BY <1>1 DEF Sound, InOrder
<1>9. \A k \in 1..Len(headers) :
         /\ headers[k].type = bgcode.blocks[k].type /\ k \in 1..N /\ k < n
         /\ Rank(bgcode.blocks[k].type) <= expected
  <2>1. Len(headers) \in Nat
    BY LenProperties DEF BGCodeInv, BGCodeTyped
  <2>2. \A k \in 1..Len(headers) : headers[k].type = bgcode.blocks[k].type
    BY TypeOfHeader DEF BGCodeInv, HeadersFollow
  <2>3. \A k \in 1..Len(headers) : Rank(headers[k].type) <= expected
    BY DEF BGCodeInv, TypesFollow
  <2>4. QED
    BY <1>1, <2>1, <2>2, <2>3
<1>10. expected <= r
  <2>1. CASE headers = << >>
    BY <1>6, <2>1 DEF BGCodeInv, TypesFollow
  <2>2. CASE headers # << >>
    <3>1. Len(headers) \in 1..Len(headers)
      BY <2>2, EmptySeq, LenProperties DEF BGCodeInv, BGCodeTyped
    <3>2. expected = Rank(bgcode.blocks[Len(headers)].type)
      BY <1>9, <2>2, <3>1 DEF BGCodeInv, TypesFollow
    <3>3. QED
      BY <1>8, <1>9, <3>1, <3>2
  <2>3. QED
    BY <2>1, <2>2
<1>11. expected + 1 < r /\ expected + 1 \in 1..6
  BY <1>6, <1>7, <1>10
<1> DEFINE t == ExpectedHeaders[expected + 1]
<1>12. t \in 0..5 /\ Rank(t) = expected + 1
  <2>1. t \in 0..5
    BY <1>11 DEF ExpectedHeaders, FileMetadata, PrinterMetadata, Thumbnail, PrintMetadata, SlicerMetadata, GCode
  <2>2. QED
    BY <1>11, <2>1, RankIs
<1>13. PICK j \in 1..N : bgcode.blocks[j].type = t
  BY <1>1, <1>12 DEF Types
<1>14. Rank(bgcode.blocks[j].type) = expected + 1
  BY <1>12, <1>13
<1>15. j # n /\ ~(n < j)
  <2>1. j # n
    BY <1>11, <1>14
  <2>2. ~(n < j)
    BY <1>6, <1>8, <1>11, <1>14
  <2>3. QED
    BY <2>1, <2>2
<1>16. j \in 1..Len(headers)
  <2>1. Len(headers) \in Nat
    BY LenProperties DEF BGCodeInv, BGCodeTyped
  <2>2. QED
    BY <1>1, <1>15, <2>1
<1>17. QED
  BY <1>6, <1>9, <1>14, <1>16

LEMMA AcceptedBlock ==
    ASSUME BGCodeInv, bgPhase = "blocks", NEW n, n = Len(headers) + 1, n \in 1..Len(bgcode.blocks),
           NEW b, b = bgcode.blocks[n], b \in BGCodeBlock, b.type # GCode, NextExpected(b.type) # {},
           headers' = Append(headers, HeaderOf(n)),
           expected' = CHOOSE m \in NextExpected(b.type) : TRUE,
           offset' = Starts(bgcode, n + 1),
           UNCHANGED <<bgPhase, bgcode, reads>>
    PROVE  BGCodeInv'
<1> DEFINE N == Len(bgcode.blocks)
           H == headers'
           l == Len(headers)
<1>1. /\ bgcode \in BGCode /\ N \in Nat /\ headers \in Seq(Header) /\ l \in Nat /\ n = l + 1
      /\ HeaderOf(n) \in Header /\ b.type \in Nat
  BY BlocksOf, LenProperties, HeaderType DEF BGCodeInv, BGCodeTyped, BGCodeBlock
<1>2. /\ H \in Seq(Header) /\ Len(H) = n /\ H[n] = HeaderOf(n) /\ H # << >>
      /\ \A k \in 1..l : H[k] = headers[k]
  BY <1>1, AppendProperties, EmptySeq
<1>3. /\ b.type \in 0..5 /\ Rank(b.type) \in {expected, expected + 1} /\ expected' = Rank(b.type)
      /\ Rank(b.type) \in 1..6 /\ expected \in 1..6
  BY <1>1, ExpectedIs, RankIs DEF BGCodeInv, BGCodeTyped
<1>4. /\ bgcode' = bgcode /\ bgPhase' = bgPhase /\ reads' = reads
      /\ \A k : HeaderOf(k)' = HeaderOf(k)
  BY DEF HeaderOf
<1>5. \A k \in 1..n : k \in 1..l \/ k = n
  BY <1>1
<1>6. HeaderOf(n).type = b.type
  BY TypeOfHeader
<1> HIDE DEF H, l
<1>7. BGCodeTyped'
  BY <1>1, <1>2, <1>3, <1>4 DEF BGCodeInv, BGCodeTyped, H
<1>8. HeadersFollow'
  <2>1. n <= N
    BY <1>1
  <2>2. \A k \in 1..n : H[k] = HeaderOf(k) /\ bgcode.blocks[k].type # GCode
    BY <1>2, <1>5 DEF BGCodeInv, HeadersFollow, l
  <2>3. QED
    BY <1>2, <1>4, <2>1, <2>2 DEF HeadersFollow, H
<1>9. TypesFollow'
  <2>1. \A k \in 1..n : H[k].type \in 0..5 /\ Rank(H[k].type) <= Rank(b.type)
    <3> TAKE k \in 1..n
    <3>1. CASE k = n
      BY <1>2, <1>3, <1>6, <3>1
    <3>2. CASE k \in 1..l
      <4>1. H[k].type \in 0..5 /\ Rank(H[k].type) <= expected
        BY <1>2, <3>2 DEF BGCodeInv, TypesFollow, l
      <4>2. Rank(H[k].type) \in 1..6
        BY <4>1, RankIs
      <4>3. QED
        BY <1>3, <4>1, <4>2
    <3>3. QED
      BY <1>5, <3>1, <3>2
  <2>2. \A i, k \in 1..n : i < k => Rank(H[i].type) <= Rank(H[k].type)
    <3> TAKE i, k \in 1..n
    <3> SUFFICES ASSUME i < k PROVE Rank(H[i].type) <= Rank(H[k].type)
      OBVIOUS
    <3>1. i \in 1..l
      BY <1>1, <1>5
    <3>2. CASE k = n
      BY <1>2, <1>6, <2>1, <3>2
    <3>3. CASE k \in 1..l
      BY <1>2, <3>1, <3>3 DEF BGCodeInv, TypesFollow, l
    <3>4. QED
      BY <1>5, <3>2, <3>3
  <2>3. QED
    BY <1>2, <1>3, <1>6, <2>1, <2>2 DEF TypesFollow, H
<1>10. ReadsFollow'
  <2>1. 1..l \subseteq 1..n
    BY <1>1
  <2>2. \A r \in DOMAIN reads : \E k \in 1..n :
           reads[r] = [of |-> H[k], first |-> H[k].dataOffset, bytes |-> H[k].dataSize]
    BY <1>2, <2>1 DEF BGCodeInv, ReadsFollow, l
  <2>3. QED
    BY <1>2, <1>4, <2>2 DEF BGCodeInv, ReadsFollow, H
<1>11. FailureIsDue'
  BY <1>4 DEF FailureIsDue
<1>12. QED
  BY <1>7, <1>8, <1>9, <1>10, <1>11 DEF BGCodeInv

\* A step that changes neither the blocks found nor the data read
LEMMA SameBlocks ==
    ASSUME BGCodeInv, UNCHANGED <<bgcode, offset, expected, headers, reads>>
    PROVE  /\ bgPhase' \in {"start", "blocks", "metadata", "thumbnails", "done", "failed"} => BGCodeTyped'
           /\ TypesFollow'
           /\ bgPhase' \in {"start", "blocks", "failed"} => HeadersFollow' /\ ReadsFollow'
<1>1. \A k : HeaderOf(k)' = HeaderOf(k)
  BY DEF HeaderOf
<1>2. TypesFollow'
  BY DEF BGCodeInv, TypesFollow
<1>3. bgPhase' \in {"start", "blocks", "metadata", "thumbnails", "done", "failed"} => BGCodeTyped'
  BY DEF BGCodeInv, BGCodeTyped
<1>4. bgPhase' \in {"start", "blocks", "failed"} => HeadersFollow'
  BY <1>1 DEF BGCodeInv, HeadersFollow
<1>5. bgPhase' \in {"start", "blocks", "failed"} => ReadsFollow'
  BY DEF BGCodeInv, ReadsFollow
<1>6. QED
  BY <1>2, <1>3, <1>4, <1>5

LEMMA FileHeaderInv == ASSUME BGCodeInv, ParseFileHeader PROVE BGCodeInv'
<1>1. /\ UNCHANGED <<bgcode, offset, expected, headers, reads>>
      /\ bgPhase' = IF bgcode.version = 1 THEN "blocks" ELSE "failed"
  BY DEF ParseFileHeader
<1>2. FailureIsDue'
  BY <1>1 DEF FailureIsDue, Sound
<1>3. QED
  BY <1>1, <1>2, SameBlocks DEF BGCodeInv

LEMMA ParseBlockInv == ASSUME BGCodeInv, ParseBlock PROVE BGCodeInv'
<1> DEFINE n == Len(headers) + 1
           b == BlockAt(offset)
<1>1. /\ n \in 1..Len(bgcode.blocks) /\ b = bgcode.blocks[n] /\ b \in BGCodeBlock
      /\ ParsedHeader(b) = HeaderOf(n)
      /\ offset + BlockSize(b, bgcode.checksum) = Starts(bgcode, n + 1)
  BY NextBlock DEF BGCodeInv, ParseBlock
<1>2. bgPhase = "blocks" /\ bgcode' = bgcode /\ reads' = reads
  BY DEF ParseBlock
<1>3. CASE /\ ~Refused(b) /\ b.type # GCode /\ NextExpected(b.type) # {}
           /\ expected' = CHOOSE m \in NextExpected(b.type) : TRUE
           /\ headers' = Append(headers, ParsedHeader(b))
           /\ offset' = offset + BlockSize(b, bgcode.checksum)
           /\ UNCHANGED bgPhase
  BY <1>1, <1>2, <1>3, AcceptedBlock
<1>4. CASE /\ b.type = GCode /\ bgPhase' = "metadata"
           /\ UNCHANGED <<offset, expected, headers>>
  <2>1. BGCodeTyped' /\ TypesFollow'
    BY <1>2, <1>4, SameBlocks
  <2>2. HeadersFollow'
    <3>1. \A k : HeaderOf(k)' = HeaderOf(k)
      BY <1>2 DEF HeaderOf
    <3>2. QED
      BY <1>1, <1>2, <1>4, <3>1 DEF BGCodeInv, HeadersFollow
  <2>3. ReadsFollow' /\ FailureIsDue'
    BY <1>2, <1>4 DEF BGCodeInv, ReadsFollow, FailureIsDue
  <2>4. QED
    BY <2>1, <2>2, <2>3 DEF BGCodeInv
<1>5. CASE /\ Refused(b) \/ (b.type # GCode /\ NextExpected(b.type) = {})
           /\ bgPhase' = "failed"
           /\ UNCHANGED <<offset, expected, headers>>
  <2>1. ~Sound(bgcode) \/ Types(bgcode) # 0..5
    BY <1>1, <1>5, RefusalIsDue
  <2>2. FailureIsDue'
    BY <1>2, <2>1 DEF FailureIsDue
  <2>3. QED
    BY <1>2, <1>5, <2>2, SameBlocks DEF BGCodeInv
<1>6. QED
  BY <1>3, <1>4, <1>5 DEF ParseBlock

LEMMA BlocksEndInv == ASSUME BGCodeInv, BlocksEnd PROVE BGCodeInv'
<1> DEFINE N == Len(bgcode.blocks)
           l == Len(headers)
<1>1. /\ UNCHANGED <<bgcode, offset, expected, headers, reads>> /\ bgPhase' = "metadata"
      /\ offset >= FileSize(bgcode)
  BY DEF BlocksEnd
<1>2. /\ bgcode \in BGCode /\ N \in Nat /\ l \in Nat /\ l <= N
      /\ l + 1 \in 1..(N + 1) /\ N + 1 \in 1..(N + 1)
  BY BlocksOf, LenProperties DEF BGCodeInv, BGCodeTyped, HeadersFollow
<1>3. l = N
  <2>1. SUFFICES ASSUME l < N PROVE FALSE
    BY <1>2
  <2>2. l + 1 < N + 1
    BY <1>2, <2>1
  <2>3. offset < FileSize(bgcode) /\ offset \in Nat /\ FileSize(bgcode) \in Nat
    BY <1>2, <2>2, StartsGrow, StartsAre DEF BGCodeInv, HeadersFollow, FileSize
  <2>4. QED
    BY <1>1, <2>3
<1>4. \A k : HeaderOf(k)' = HeaderOf(k)
  BY <1>1 DEF HeaderOf
<1>5. HeadersFollow'
  BY <1>1, <1>3, <1>4 DEF BGCodeInv, HeadersFollow
<1>6. ReadsFollow' /\ FailureIsDue'
  BY <1>1 DEF BGCodeInv, ReadsFollow, FailureIsDue
<1>7. QED
  BY <1>1, <1>5, <1>6, SameBlocks DEF BGCodeInv

\* The headers found are of blocks before the G-code: of all, in the end.
LEMMA HeadersBefore ==
    ASSUME BGCodeInv
    PROVE  /\ 1..Len(headers) \subseteq BlocksBefore(bgcode)
           /\ BlocksBefore(bgcode) \subseteq 1..Len(bgcode.blocks)
           /\ bgPhase \in {"metadata", "thumbnails", "done"} => BlocksBefore(bgcode) = 1..Len(headers)
<1> DEFINE N == Len(bgcode.blocks)
           l == Len(headers)
           gs == {i \in 1..N : bgcode.blocks[i].type = GCode}
           B == BlocksBefore(bgcode)
<1>1. N \in Nat /\ l \in Nat /\ l <= N /\ DOMAIN bgcode.blocks = 1..N
  BY BlocksOf, LenProperties DEF BGCodeInv, BGCodeTyped, HeadersFollow
<1>2. B = IF gs = {} THEN 1..N ELSE {i \in 1..N : \A g \in gs : i < g}
  BY <1>1 DEF BlocksBefore
<1>3. \A k \in 1..l : bgcode.blocks[k].type # GCode
  BY DEF BGCodeInv, HeadersFollow
<1>4. \A g \in gs : g \in Nat /\ ~(g <= l)
  BY <1>1, <1>3
<1>5. bgPhase \in {"metadata", "thumbnails", "done"} => l = N \/ (l + 1 \in 1..N /\ l + 1 \in gs)
  <2>1. l = N \/ l + 1 \in 1..N
    BY <1>1
  <2>2. QED
    BY <2>1 DEF BGCodeInv, HeadersFollow
<1> HIDE DEF N, l, gs, B
<1>6. 1..l \subseteq B
  BY <1>1, <1>2, <1>4
<1>7. B \subseteq 1..N
  BY <1>2
<1>8. l = N => B \subseteq 1..l
  BY <1>7
<1>9. l + 1 \in gs => B \subseteq 1..l
  BY <1>1, <1>2
<1>10. QED
  BY <1>5, <1>6, <1>7, <1>8, <1>9 DEF N, l, B

LEMMA ReadBlockInv == ASSUME BGCodeInv, ReadBlock PROVE BGCodeInv'
<1>1. PICK k \in Unread :
         LET h == headers[k]
         IN  IF h.blockSize = 1000 THEN bgPhase' = "failed" /\ UNCHANGED reads
             ELSE /\ reads' = Append(reads, [of |-> h, first |-> h.dataOffset, bytes |-> h.dataSize])
                  /\ UNCHANGED bgPhase
  BY DEF ReadBlock
<1>2. UNCHANGED <<bgcode, offset, expected, headers>> /\ bgPhase \in {"metadata", "thumbnails"}
  BY DEF ReadBlock
<1>3. /\ k \in 1..Len(headers) /\ headers \in Seq(Header) /\ headers[k] \in Header
      /\ \A r \in DOMAIN reads : reads[r].of # headers[k]
  BY <1>1, LenProperties, ElementOfSeq DEF Unread, Wanted, BGCodeInv, BGCodeTyped
<1>4. CASE headers[k].blockSize = 1000
  <2>1. bgPhase' = "failed" /\ reads' = reads
    BY <1>1, <1>4
  <2>2. k \in BlocksBefore(bgcode)
    BY <1>3, HeadersBefore
  <2>3. headers[k] = HeaderOf(k)
    BY <1>3 DEF BGCodeInv, HeadersFollow
  <2>4. BlockLength(bgcode, bgcode.blocks[k]) = 1000
    BY <1>4, <2>3 DEF HeaderOf
  <2>5. FailureIsDue'
    BY <1>2, <2>2, <2>4 DEF FailureIsDue, Sound
  <2>6. QED
    BY <1>2, <2>1, <2>5, SameBlocks DEF BGCodeInv
<1>5. CASE headers[k].blockSize # 1000
  <2> DEFINE x == [of |-> headers[k], first |-> headers[k].dataOffset, bytes |-> headers[k].dataSize]
             R == reads'
             m == Len(reads)
  <2>1. bgPhase' = bgPhase /\ R = Append(reads, x)
    BY <1>1, <1>5
  <2>2. x \in [of : Header, first : Nat, bytes : Nat] /\ x.of = headers[k]
    BY <1>3 DEF Header
  <2>3. reads \in Seq([of : Header, first : Nat, bytes : Nat])
    BY DEF BGCodeInv, BGCodeTyped
  <2>4. /\ R \in Seq([of : Header, first : Nat, bytes : Nat]) /\ m \in Nat
        /\ DOMAIN reads = 1..m /\ DOMAIN R = 1..(m + 1)
        /\ R[m + 1] = x /\ \A i \in 1..m : R[i] = reads[i]
    BY <2>1, <2>2, <2>3, LenProperties, AppendProperties
  <2>5. 1..m \subseteq 1..(m + 1) /\ \A i \in 1..(m + 1) : i \in 1..m \/ i = m + 1
    BY <2>4
  <2> HIDE DEF x, R, m
  <2>6. BGCodeTyped'
    BY <1>2, <2>1, <2>4 DEF BGCodeInv, BGCodeTyped, R
  <2>7. HeadersFollow'
    <3>1. \A i : HeaderOf(i)' = HeaderOf(i)
      BY <1>2 DEF HeaderOf
    <3>2. QED
      BY <1>2, <2>1, <3>1 DEF BGCodeInv, HeadersFollow
  <2>8. TypesFollow' /\ FailureIsDue'
    BY <1>2, <2>1 DEF BGCodeInv, TypesFollow, FailureIsDue
  <2>9. \A r \in DOMAIN R : \E j \in 1..Len(headers) :
           R[r] = [of |-> headers[j], first |-> headers[j].dataOffset, bytes |-> headers[j].dataSize]
    <3> TAKE r \in DOMAIN R
    <3>1. CASE r \in 1..m
      <4>1. r \in DOMAIN reads /\ R[r] = reads[r]
        BY <2>4, <3>1
      <4>2. \E j \in 1..Len(headers) :
               reads[r] = [of |-> headers[j], first |-> headers[j].dataOffset, bytes |-> headers[j].dataSize]
        BY <4>1 DEF BGCodeInv, ReadsFollow
      <4>3. QED
        BY <4>1, <4>2
    <3>2. CASE r = m + 1
      BY <1>3, <2>4, <3>2 DEF x
    <3>3. QED
      BY <2>4, <2>5, <3>1, <3>2
  <2>10. \A r, t \in DOMAIN R : R[r].of = R[t].of => r = t
    <3> TAKE r, t \in DOMAIN R
    <3>1. CASE r \in 1..m /\ t \in 1..m
      BY <2>4, <3>1 DEF BGCodeInv, ReadsFollow
    <3>2. CASE r = m + 1 /\ t \in 1..m
      BY <1>3, <2>2, <2>4, <3>2
    <3>3. CASE r \in 1..m /\ t = m + 1
      BY <1>3, <2>2, <2>4, <3>3
    <3>4. QED
      BY <2>4, <2>5, <3>1, <3>2, <3>3
  <2>11. \A r \in DOMAIN reads : r \in DOMAIN R /\ R[r] = reads[r]
    BY <2>4, <2>5
  <2>12. ReadsFollow'
    <3>1. bgPhase = "thumbnails" =>
             \A j \in 1..Len(headers) :
                headers[j].type # Thumbnail => \E r \in DOMAIN R : R[r].of = headers[j]
      BY <2>11 DEF BGCodeInv, ReadsFollow
    <3>2. QED
      BY <1>2, <2>1, <2>9, <2>10, <3>1 DEF ReadsFollow, R
  <2>13. QED
    BY <2>6, <2>7, <2>8, <2>12 DEF BGCodeInv
<1>6. QED
  BY <1>4, <1>5

LEMMA AllReadInv == ASSUME BGCodeInv, AllRead PROVE BGCodeInv'
<1>1. /\ UNCHANGED <<bgcode, offset, expected, headers, reads>>
      /\ bgPhase \in {"metadata", "thumbnails"} /\ Unread = {}
      /\ bgPhase' = IF bgPhase = "metadata" THEN "thumbnails" ELSE "done"
  BY DEF AllRead
<1>2. DOMAIN headers = 1..Len(headers)
  BY LenProperties DEF BGCodeInv, BGCodeTyped
<1>3. \A k \in 1..Len(headers) :
         (IF bgPhase = "metadata" THEN headers[k].type # Thumbnail ELSE headers[k].type = Thumbnail)
            => \E r \in DOMAIN reads : reads[r].of = headers[k]
  BY <1>1, <1>2 DEF Unread, Wanted
<1>4. ReadsFollow'
  BY <1>1, <1>3 DEF BGCodeInv, ReadsFollow
<1>5. \A k : HeaderOf(k)' = HeaderOf(k)
  BY <1>1 DEF HeaderOf
<1>6. HeadersFollow'
  BY <1>1, <1>5 DEF BGCodeInv, HeadersFollow
<1>7. FailureIsDue'
  BY <1>1 DEF FailureIsDue
<1>8. QED
  BY <1>1, <1>4, <1>6, <1>7, SameBlocks DEF BGCodeInv

LEMMA BGCodeInvInit == ASSUME BGCodeInit(BGCode) PROVE BGCodeInv
<1>1. /\ bgcode \in BGCode /\ bgPhase = "start" /\ offset = 10 /\ expected = 1
      /\ headers = << >> /\ reads = << >>
  BY DEF BGCodeInit, HeaderSize
<1>2. Len(headers) = 0 /\ Len(bgcode.blocks) \in Nat /\ DOMAIN reads = {}
  BY <1>1, BlocksOf, EmptySeq
<1>3. BGCodeTyped
  BY <1>1 DEF BGCodeTyped
<1>4. Starts(bgcode, 0 + 1) = 10
  BY <1>1, StartsAre
<1>5. HeadersFollow
  BY <1>1, <1>2, <1>4 DEF HeadersFollow
<1>6. TypesFollow /\ ReadsFollow /\ FailureIsDue
  BY <1>1, <1>2 DEF TypesFollow, ReadsFollow, FailureIsDue
<1>7. QED
  BY <1>3, <1>5, <1>6 DEF BGCodeInv

LEMMA BGCodeInvNext == ASSUME BGCodeInv, BGCodeNext PROVE BGCodeInv'
BY FileHeaderInv, ParseBlockInv, BlocksEndInv, ReadBlockInv, AllReadInv DEF BGCodeNext

LEMMA BGCodeUnchanged == ASSUME BGCodeInv, UNCHANGED bgcodeVars PROVE BGCodeInv'
<1>1. /\ bgcode' = bgcode /\ bgPhase' = bgPhase /\ offset' = offset /\ expected' = expected
      /\ headers' = headers /\ reads' = reads
  BY DEF bgcodeVars
<1>2. \A k : HeaderOf(k)' = HeaderOf(k)
  BY <1>1 DEF HeaderOf
<1>3. BGCodeTyped' /\ TypesFollow' /\ FailureIsDue'
  BY <1>1 DEF BGCodeInv, BGCodeTyped, TypesFollow, FailureIsDue
<1>4. HeadersFollow'
  BY <1>1, <1>2 DEF BGCodeInv, HeadersFollow
<1>5. ReadsFollow'
  BY <1>1 DEF BGCodeInv, ReadsFollow
<1>6. QED
  BY <1>3, <1>4, <1>5 DEF BGCodeInv

\* What the invariant says of the data read
LEMMA ReadIs ==
    ASSUME BGCodeInv, NEW r \in DOMAIN reads, NEW k \in 1..Len(headers), reads[r].of = headers[k]
    PROVE  /\ reads[r].first = DataStarts(bgcode, k)
           /\ reads[r].bytes >= Stored(bgcode.blocks[k])
<1>1. PICK j \in 1..Len(headers) :
         reads[r] = [of |-> headers[j], first |-> headers[j].dataOffset, bytes |-> headers[j].dataSize]
  BY DEF BGCodeInv, ReadsFollow
<1>2. headers[j] = headers[k]
  BY <1>1
<1>3. headers[k] = HeaderOf(k) /\ HeaderOf(k).dataOffset = DataStarts(bgcode, k)
  BY DEF BGCodeInv, HeadersFollow, HeaderOf
<1>4. k \in 1..Len(bgcode.blocks) /\ bgcode \in BGCode
  BY HeadersBefore DEF BGCodeInv, BGCodeTyped
<1>5. HeaderOf(k).dataSize >= Stored(bgcode.blocks[k])
  BY <1>4, HeaderType
<1>6. QED
  BY <1>1, <1>2, <1>3, <1>5

LEMMA BGCodeReads == ASSUME BGCodeInv PROVE BlocksAreRead
<1>1. DOMAIN headers = 1..Len(headers) /\ bgcode \in BGCode
  BY LenProperties DEF BGCodeInv, BGCodeTyped
<1>2. \A k \in 1..Len(headers) : headers[k] = HeaderOf(k) /\ HeaderOf(k).start = Starts(bgcode, k)
                                  /\ headers[k].type = bgcode.blocks[k].type
  BY TypeOfHeader DEF BGCodeInv, HeadersFollow, HeaderOf
<1>3. /\ offset = Starts(bgcode, Len(headers) + 1)
      /\ \A k \in DOMAIN headers :
            headers[k].start = Starts(bgcode, k) /\ headers[k].type = bgcode.blocks[k].type
  BY <1>1, <1>2 DEF BGCodeInv, HeadersFollow
<1>4. \A r \in DOMAIN reads : \E k \in 1..Len(headers) : reads[r].of = headers[k]
  BY DEF BGCodeInv, ReadsFollow
<1>5. \A r \in DOMAIN reads : \E i \in BlocksBefore(bgcode) :
         reads[r].first = DataStarts(bgcode, i) /\ reads[r].bytes >= Stored(bgcode.blocks[i])
  BY <1>4, ReadIs, HeadersBefore
<1>6. ASSUME NEW r \in DOMAIN reads, NEW t \in DOMAIN reads, reads[r].first = reads[t].first
      PROVE  r = t
  <2>1. PICK i \in 1..Len(headers) : reads[r].of = headers[i]
    BY <1>4
  <2>2. PICK k \in 1..Len(headers) : reads[t].of = headers[k]
    BY <1>4
  <2>3. DataStarts(bgcode, i) = DataStarts(bgcode, k)
    BY <1>6, <2>1, <2>2, ReadIs
  <2>4. i = k
    BY <1>1, <2>3, HeadersBefore, DataDiffers
  <2>5. QED
    BY <2>1, <2>2, <2>4 DEF BGCodeInv, ReadsFollow
<1>7. bgPhase = "done" =>
         \A i \in BlocksBefore(bgcode) : \E r \in DOMAIN reads : reads[r].first = DataStarts(bgcode, i)
  BY ReadIs, HeadersBefore DEF BGCodeInv, ReadsFollow
<1>8. QED
  BY <1>3, <1>5, <1>6, <1>7 DEF BlocksAreRead

LEMMA BGCodeOrder == ASSUME BGCodeInv PROVE OrderDecides
<1>1. \A k \in 1..Len(headers) : headers[k].type = bgcode.blocks[k].type
  BY TypeOfHeader DEF BGCodeInv, HeadersFollow
<1>2. InOrder(bgcode, 1..Len(headers))
  BY <1>1 DEF BGCodeInv, TypesFollow, InOrder
<1>3. bgPhase = "done" => InOrder(bgcode, BlocksBefore(bgcode))
  BY <1>2, HeadersBefore
<1>4. QED
  BY <1>3 DEF BGCodeInv, FailureIsDue, OrderDecides

-----------------------------------------------------------------------------
(* QoiDecoder: the bytes of a chunk.                                       *)

\* The pixels before and after, and the rest of a byte: every channel of a
\* chunk is again the one it was made of.
LEMMA Wraps ==
    ASSUME NEW x \in 0..255, NEW y \in 0..255
    PROVE  /\ ((x - y + 128) % 256) - 128 \in -128..127
           /\ (y + (((x - y + 128) % 256) - 128)) % 256 = x
<1> DEFINE m == (x - y + 128) % 256
<1>1. \/ x - y < -128 /\ m = x - y + 384
      \/ x - y \in -128..127 /\ m = x - y + 128
      \/ x - y > 127 /\ m = x - y - 128
  OBVIOUS
<1> HIDE DEF m
<1>2. \/ y + (m - 128) = x + 256
      \/ y + (m - 128) = x
      \/ y + (m - 128) = x - 256
  BY <1>1
<1>3. (x + 256) % 256 = x /\ x % 256 = x /\ (x - 256) % 256 = x
  OBVIOUS
<1>4. (y + (m - 128)) % 256 = x
  BY <1>2, <1>3
<1>5. m - 128 \in -128..127
  BY <1>1
<1>6. QED
  BY <1>4, <1>5 DEF m

LEMMA PixelIs ==
    ASSUME NEW p \in Pixel
    PROVE  /\ p[1] \in 0..255 /\ p[2] \in 0..255 /\ p[3] \in 0..255 /\ p[4] \in 0..255
           /\ p = <<p[1], p[2], p[3], p[4]>>
BY DEF Pixel

LEMMA PixelOf ==
    ASSUME NEW r \in 0..255, NEW g \in 0..255, NEW b \in 0..255, NEW a \in 0..255
    PROVE  <<r, g, b, a>> \in Pixel
BY DEF Pixel

LEMMA HashOf ==
    ASSUME NEW r \in 0..255, NEW g \in 0..255, NEW b \in 0..255, NEW a \in 0..255
    PROVE  (r * 3 + g * 5 + b * 7 + a * 11) % 64 \in 0..63
<1>1. r * 3 + g * 5 + b * 7 + a * 11 \in Nat
  OBVIOUS
<1>2. \A n \in Nat : n % 64 \in 0..63
  OBVIOUS
<1>3. QED
  BY <1>1, <1>2

LEMMA HashRange == ASSUME NEW p \in Pixel PROVE HashColor(p) \in 0..63
BY PixelIs, HashOf DEF HashColor

LEMMA RunBytes ==
    ASSUME NEW k \in 1..62
    PROVE  /\ Tag(<<192 + k - 1>>) = 192
           /\ Field(192 + k - 1, 1, 64) = k - 1
BY DEF Tag, Field

LEMMA IndexBytes ==
    ASSUME NEW h \in 0..63
    PROVE  Tag(<<h>>) = 0 /\ Field(h, 1, 64) = h
BY DEF Tag, Field

-----------------------------------------------------------------------------
(* QoiDecoder: what is decoded from a chunk is the next pixel.             *)

QoiTyped ==
    /\ image \in Seq(Pixel)
    /\ pixels \in Seq(Pixel)
    /\ pixel \in Pixel

QoiInv ==
    /\ QoiTyped
    /\ DecodedIsImage
    /\ pixel = Before(Len(pixels))
    /\ DOMAIN colors \subseteq 0..63
    /\ colors = [h \in DOMAIN colors |-> colors[h]]
    /\ \A h \in 0..63 : ColorAt(h) = Seen(Len(pixels), h)

LEMMA QoiInvInit == QoiInit(Seq(Pixel)) => QoiInv
<1> SUFFICES ASSUME QoiInit(Seq(Pixel)) PROVE QoiInv
  OBVIOUS
<1>1. pixels = << >> /\ Len(pixels) = 0 /\ pixels \in Seq(Pixel)
  BY DEF QoiInit
<1>2. <<0, 0, 0, 255>> \in Pixel
  BY DEF Pixel
<1>3. \A h : Seen(0, h) = <<0, 0, 0, 0>>
  BY DEF Seen
<1>4. colors = [h \in {} |-> 0] /\ DOMAIN colors = {}
  BY DEF QoiInit
<1>5. QED
  BY <1>1, <1>2, <1>3, <1>4 DEF QoiInit, QoiInv, QoiTyped, DecodedIsImage, Before, ColorAt

LEMMA LastIsPixel ==
    ASSUME image \in Seq(Pixel), NEW n \in 0..Len(image)
    PROVE  Before(n) \in Pixel
<1>1. <<0, 0, 0, 255>> \in Pixel
  BY DEF Pixel
<1>2. n # 0 => image[n] \in Pixel
  BY ElementOfSeq
<1>3. QED
  BY <1>1, <1>2 DEF Before

\* What chunk makes of the next pixels, one or a run of them
Gives(chunk, p, n) ==
    /\ DecodedPixel(chunk) = p
    /\ (IF Tag(chunk) = 192 THEN Field(chunk[1], 1, 64) + 1 ELSE 1) = n

LEMMA RunGives ==
    ASSUME QoiInv, Len(pixels) < Len(image), NEW chunk \in Runs(Len(pixels))
    PROVE  \E n \in 1..(Len(image) - Len(pixels)) :
              /\ Gives(chunk, pixel, n)
              /\ \A i \in 1..n : image[Len(pixels) + i] = pixel
<1>1. Len(pixels) \in Nat /\ Len(image) \in Nat
  BY LenProperties DEF QoiInv, QoiTyped
<1>2. PICK k \in 1..(Len(image) - Len(pixels)) :
         /\ k <= 62 /\ chunk = <<192 + k - 1>>
         /\ \A i \in 1..k : image[Len(pixels) + i] = pixel
  BY DEF Runs, QoiInv
<1>3. k \in 1..62
  BY <1>1, <1>2
<1>4. Tag(chunk) = 192 /\ Field(chunk[1], 1, 64) = k - 1
  BY <1>2, <1>3, RunBytes
<1>5. Gives(chunk, pixel, k)
  BY <1>3, <1>4 DEF Gives, DecodedPixel
<1>6. QED
  BY <1>2, <1>5

\* A chunk of one pixel gives the next of the image.
GivesNext(chunk) == Gives(chunk, image[Len(pixels) + 1], 1)

LEMMA NextPixel ==
    ASSUME QoiInv, Len(pixels) < Len(image)
    PROVE  /\ Len(pixels) \in Nat /\ Len(image) \in Nat
           /\ image[Len(pixels) + 1] \in Pixel
           /\ Before(Len(pixels)) = pixel /\ pixel \in Pixel
<1>1. Len(pixels) \in Nat /\ Len(image) \in Nat
  BY LenProperties DEF QoiInv, QoiTyped
<1>2. image[Len(pixels) + 1] \in Pixel
  <2>1. Len(pixels) + 1 \in 1..Len(image)
    BY <1>1
  <2>2. QED
    BY <2>1, ElementOfSeq DEF QoiInv, QoiTyped
<1>3. QED
  BY <1>1, <1>2 DEF QoiInv, QoiTyped

LEMMA IndexGives ==
    ASSUME QoiInv, Len(pixels) < Len(image), NEW chunk \in Indices(Len(pixels))
    PROVE  GivesNext(chunk)
<1> DEFINE n == Len(pixels)
           h == HashColor(image[n + 1])
<1>1. image[n + 1] \in Pixel /\ h \in 0..63
  BY NextPixel, HashRange
<1>2. chunk = <<h>> /\ Seen(n, h) = image[n + 1]
  BY DEF Indices
<1>3. Tag(chunk) = 0 /\ Field(chunk[1], 1, 64) = h
  BY <1>1, <1>2, IndexBytes
<1>4. ColorAt(h) = image[n + 1]
  BY <1>1, <1>2 DEF QoiInv
<1>5. QED
  BY <1>3, <1>4 DEF GivesNext, Gives, DecodedPixel

\* Adding the change of a channel to what it was gives what it is.
LEMMA ChangeAdds ==
    ASSUME QoiInv, Len(pixels) < Len(image), NEW c \in 1..4
    PROVE  /\ Change(Len(pixels), c) \in -128..127
           /\ pixel[c] \in 0..255 /\ image[Len(pixels) + 1][c] \in 0..255
           /\ Byte(pixel[c] + Change(Len(pixels), c)) = image[Len(pixels) + 1][c]
<1>1. pixel[c] \in 0..255 /\ image[Len(pixels) + 1][c] \in 0..255
  BY NextPixel DEF Pixel
<1>2. Before(Len(pixels)) = pixel
  BY NextPixel
<1> DEFINE x == image[Len(pixels) + 1][c]
           y == pixel[c]
<1>3. Change(Len(pixels), c) = ((x - y + 128) % 256) - 128
  BY <1>2 DEF Change
<1> HIDE DEF x, y
<1>4. x \in 0..255 /\ y \in 0..255
  BY <1>1 DEF x, y
<1>5. /\ ((x - y + 128) % 256) - 128 \in -128..127
      /\ (y + (((x - y + 128) % 256) - 128)) % 256 = x
  BY <1>4, Wraps
<1>6. QED
  BY <1>1, <1>3, <1>5 DEF Byte, x, y

\* What moves the three colours by their changes gives the next pixel.
LEMMA MovesToNext ==
    ASSUME QoiInv, Len(pixels) < Len(image), SameAlpha(Len(pixels)),
           NEW dr, NEW dg, NEW db,
           dr = Change(Len(pixels), 1), dg = Change(Len(pixels), 2), db = Change(Len(pixels), 3)
    PROVE  Moved(pixel, dr, dg, db) = image[Len(pixels) + 1]
<1>1. \A c \in 1..3 : Byte(pixel[c] + Change(Len(pixels), c)) = image[Len(pixels) + 1][c]
  BY ChangeAdds
<1>2. pixel[4] = image[Len(pixels) + 1][4]
  BY NextPixel DEF SameAlpha
<1>3. image[Len(pixels) + 1] = <<image[Len(pixels) + 1][1], image[Len(pixels) + 1][2],
                                 image[Len(pixels) + 1][3], image[Len(pixels) + 1][4]>>
  BY NextPixel, PixelIs
<1>4. QED
  BY <1>1, <1>2, <1>3 DEF Moved

LEMMA DifferenceGives ==
    ASSUME QoiInv, Len(pixels) < Len(image), NEW chunk \in Differences(Len(pixels))
    PROVE  GivesNext(chunk)
<1> DEFINE n == Len(pixels)
           a == Change(n, 1) + 2
           b == Change(n, 2) + 2
           c == Change(n, 3) + 2
           byte == 64 + 16 * a + 4 * b + c
<1>1. SameAlpha(n) /\ chunk = <<byte>> /\ \A k \in 1..3 : Change(n, k) \in -2..1
  BY DEF Differences
<1>2. a \in 0..3 /\ b \in 0..3 /\ c \in 0..3
  BY <1>1
<1>3. a - 2 = Change(n, 1) /\ b - 2 = Change(n, 2) /\ c - 2 = Change(n, 3)
  BY <1>1
<1> HIDE DEF a, b, c
<1>4. /\ byte < 254 /\ byte \div 64 = 1
      /\ Field(byte, 16, 4) = a /\ Field(byte, 4, 4) = b /\ Field(byte, 1, 4) = c
  BY <1>2 DEF Field
<1>5. byte \in Int
  BY <1>2
<1> HIDE DEF byte
<1>6. Tag(chunk) = 64 /\ chunk[1] = byte
  BY <1>1, <1>4, <1>5 DEF Tag
<1>7. Moved(pixel, a - 2, b - 2, c - 2) = image[n + 1]
  BY <1>1, <1>3, MovesToNext
<1>8. QED
  BY <1>4, <1>6, <1>7 DEF GivesNext, Gives, DecodedPixel

LEMMA LumaGives ==
    ASSUME QoiInv, Len(pixels) < Len(image), NEW chunk \in Lumas(Len(pixels))
    PROVE  GivesNext(chunk)
<1> DEFINE n == Len(pixels)
           g == Change(n, 2)
           dr == Change(n, 1) - g
           db == Change(n, 3) - g
<1>1. /\ SameAlpha(n) /\ chunk = <<128 + g + 32, 16 * (dr + 8) + db + 8>>
      /\ g \in -32..31 /\ dr \in -8..7 /\ db \in -8..7
  BY DEF Lumas
<1>2. g + dr = Change(n, 1) /\ g + db = Change(n, 3)
  <2> DEFINE x == Change(n, 1)
             y == Change(n, 2)
             z == Change(n, 3)
  <2>1. \A c \in 1..4 : Change(n, c) \in -128..127
    BY ChangeAdds
  <2>2. x \in -128..127 /\ y \in -128..127 /\ z \in -128..127
    BY <2>1
  <2> HIDE DEF x, y, z
  <2>3. y + (x - y) = x /\ y + (z - y) = z
    BY <2>2
  <2>4. QED
    BY <2>3 DEF x, y, z
<1> DEFINE d == g + 32
           r == dr + 8
           b == db + 8
<1> HIDE DEF g, dr, db
<1>3. /\ d \in 0..63 /\ r \in 0..15 /\ b \in 0..15
      /\ 128 + g + 32 = 128 + d /\ 16 * (dr + 8) + db + 8 = 16 * r + b
  BY <1>1
<1>4. d - 32 = g /\ (d - 32) + r - 8 = g + dr /\ (d - 32) + b - 8 = g + db
  BY <1>1
<1>5. chunk = <<128 + d, 16 * r + b>>
  BY <1>1, <1>3
<1> HIDE DEF d, r, b
<1>6. /\ 128 + d < 254 /\ (128 + d) \div 64 = 2
      /\ Field(128 + d, 1, 64) = d
      /\ Field(16 * r + b, 16, 16) = r /\ Field(16 * r + b, 1, 16) = b
  BY <1>3 DEF Field
<1>7. Tag(chunk) = 128 /\ chunk[1] = 128 + d /\ chunk[2] = 16 * r + b
  BY <1>3, <1>5, <1>6 DEF Tag
<1>8. Moved(pixel, d - 32 + r - 8, d - 32, d - 32 + b - 8) = image[n + 1]
  BY <1>1, <1>2, <1>4, MovesToNext DEF g
<1>9. QED
  BY <1>6, <1>7, <1>8 DEF GivesNext, Gives, DecodedPixel

LEMMA PlainGives ==
    ASSUME QoiInv, Len(pixels) < Len(image), NEW chunk \in Plains(Len(pixels))
    PROVE  GivesNext(chunk)
<1> DEFINE n == Len(pixels)
           p == image[n + 1]
<1>1. p = <<p[1], p[2], p[3], p[4]>>
  BY NextPixel, PixelIs
<1>2. \/ chunk = <<255, p[1], p[2], p[3], p[4]>>
      \/ SameAlpha(n) /\ chunk = <<254, p[1], p[2], p[3]>>
  BY DEF Plains
<1>3. SameAlpha(n) => pixel[4] = p[4]
  BY NextPixel DEF SameAlpha
<1> HIDE DEF p
<1>4. CASE chunk = <<255, p[1], p[2], p[3], p[4]>>
  <2>1. Tag(chunk) = 255
    BY <1>4 DEF Tag
  <2>2. QED
    BY <1>1, <1>4, <2>1 DEF GivesNext, Gives, DecodedPixel, p
<1>5. CASE SameAlpha(n) /\ chunk = <<254, p[1], p[2], p[3]>>
  <2>1. Tag(chunk) = 254
    BY <1>5 DEF Tag
  <2>2. QED
    BY <1>1, <1>3, <1>5, <2>1 DEF GivesNext, Gives, DecodedPixel, p
<1>6. QED
  BY <1>2, <1>4, <1>5

\* Whatever the chunk, the pixels it gives are the next of the image.
LEMMA ChunkGives ==
    ASSUME QoiInv, Len(pixels) < Len(image), NEW chunk \in Chunks(Len(pixels))
    PROVE  \E n \in 1..(Len(image) - Len(pixels)) : \E p \in Pixel :
              /\ Gives(chunk, p, n)
              /\ \A i \in 1..n : image[Len(pixels) + i] = p
<1>1. CASE chunk \in Runs(Len(pixels))
  BY <1>1, RunGives, NextPixel
<1>2. ASSUME GivesNext(chunk)
      PROVE  \E n \in 1..(Len(image) - Len(pixels)) : \E p \in Pixel :
                /\ Gives(chunk, p, n)
                /\ \A i \in 1..n : image[Len(pixels) + i] = p
  <2>1. 1 \in 1..(Len(image) - Len(pixels))
    BY NextPixel
  <2>2. \A i \in 1..1 : image[Len(pixels) + i] = image[Len(pixels) + 1]
    OBVIOUS
  <2>3. QED
    BY <1>2, <2>1, <2>2, NextPixel DEF GivesNext
<1>3. QED
  BY <1>1, <1>2, IndexGives, DifferenceGives, LumaGives, PlainGives DEF Chunks

\* The latest of each hash, behind pixels that are all p
LEMMA SeenBehind ==
    ASSUME image \in Seq(Pixel), NEW m \in Nat, NEW n \in Nat, m < n, n <= Len(image),
           NEW p \in Pixel, \A i \in (m + 1)..n : image[i] = p,
           NEW h
    PROVE  Seen(n, h) = IF h = HashColor(p) THEN p ELSE Seen(m, h)
<1> DEFINE of(k) == {i \in 1..k : HashColor(image[i]) = h}
           seen(S) == IF S = {} THEN <<0, 0, 0, 0>> ELSE image[CHOOSE i \in S : \A k \in S : k <= i]
<1>0. Seen(n, h) = seen(of(n)) /\ Seen(m, h) = seen(of(m))
  BY DEF Seen
<1>1. CASE h = HashColor(p)
  <2>1. n \in (m + 1)..n /\ image[n] = p
    OBVIOUS
  <2>2. n \in of(n) /\ \A k \in of(n) : k <= n
    BY <1>1, <2>1
  <2>3. \A i \in of(n) : (\A k \in of(n) : k <= i) => i = n
    BY <2>2
  <2>4. of(n) # {} /\ (CHOOSE i \in of(n) : \A k \in of(n) : k <= i) = n
    BY <2>2, <2>3
  <2>5. Seen(n, h) = image[n]
    BY <2>4 DEF Seen
  <2>6. QED
    BY <1>1, <2>1, <2>5
<1>2. CASE h # HashColor(p)
  <2>1. of(n) = of(m)
    BY <1>2
  <2> HIDE DEF of, seen
  <2>2. QED
    BY <1>0, <1>2, <2>1
<1>3. QED
  BY <1>1, <1>2

LEMMA DecodeInv == ASSUME QoiInv, DecodeChunk PROVE QoiInv'
<1> DEFINE m == Len(pixels)
<1>1. PICK chunk \in Chunks(m) :
         LET p == DecodedPixel(chunk)
             n == IF Tag(chunk) = 192 THEN Field(chunk[1], 1, 64) + 1 ELSE 1
         IN  /\ pixel' = p
             /\ pixels' = pixels \o [i \in 1..n |-> p]
             /\ colors' = [h \in DOMAIN colors \cup {HashColor(p)} |->
                              IF h = HashColor(p) THEN p ELSE colors[h]]
  BY DEF DecodeChunk
<1>2. m < Len(image) /\ image' = image
  BY DEF DecodeChunk
<1>3. PICK n \in 1..(Len(image) - m), p \in Pixel :
         Gives(chunk, p, n) /\ \A i \in 1..n : image[m + i] = p
  BY <1>1, <1>2, ChunkGives
<1>4. /\ pixel' = p
      /\ pixels' = pixels \o [i \in 1..n |-> p]
      /\ colors' = [h \in DOMAIN colors \cup {HashColor(p)} |->
                       IF h = HashColor(p) THEN p ELSE colors[h]]
  BY <1>1, <1>3 DEF Gives
<1>5. m \in Nat /\ Len(image) \in Nat /\ pixels \in Seq(Pixel) /\ image \in Seq(Pixel)
  BY <1>2, NextPixel DEF QoiInv, QoiTyped
<1>6. [i \in 1..n |-> p] \in Seq(Pixel) /\ Len([i \in 1..n |-> p]) = n
  BY <1>3, <1>5
<1>7. /\ pixels' \in Seq(Pixel) /\ Len(pixels') = m + n
      /\ \A i \in 1..(m + n) : pixels'[i] = IF i <= m THEN pixels[i] ELSE p
  BY <1>3, <1>4, <1>5, <1>6, ConcatProperties
<1>8. \A i \in (m + 1)..(m + n) : image[i] = p
  <2> TAKE i \in (m + 1)..(m + n)
  <2>1. i - m \in 1..n /\ m + (i - m) = i
    BY <1>3, <1>5
  <2>2. QED
    BY <1>3, <2>1
<1>9. m + n \in Nat /\ m < m + n /\ m + n <= Len(image)
  BY <1>3, <1>5
<1>10. QoiTyped' /\ DecodedIsImage' /\ (pixel = Before(Len(pixels)))'
  <2>1. \A i \in 1..m : pixels[i] = image[i]
    BY <1>5, LenProperties DEF QoiInv, DecodedIsImage
  <2>2. \A i \in 1..(m + n) : pixels'[i] = image[i]
    BY <1>5, <1>7, <1>8, <1>9, <2>1
  <2>3. DOMAIN pixels' = 1..(m + n)
    BY <1>7, LenProperties
  <2>4. image[m + n] = p
    BY <1>5, <1>8, <1>9
  <2>5. QoiTyped'
    BY <1>2, <1>4, <1>5, <1>7 DEF QoiTyped
  <2>6. DecodedIsImage'
    BY <1>2, <1>7, <1>9, <2>2, <2>3 DEF DecodedIsImage
  <2>7. m + n # 0
    BY <1>5, <1>9
  <2>8. (pixel = Before(Len(pixels)))'
    BY <1>2, <1>4, <1>7, <2>4, <2>7 DEF Before
  <2>9. QED
    BY <2>5, <2>6, <2>8
<1>11. HashColor(p) \in 0..63
  BY HashRange
<1>12. \A h \in 0..63 : Seen(m + n, h) = IF h = HashColor(p) THEN p ELSE Seen(m, h)
  BY <1>5, <1>8, <1>9, SeenBehind
<1>13. \A h \in 0..63 : ColorAt(h)' = IF h = HashColor(p) THEN p ELSE ColorAt(h)
  BY <1>4 DEF ColorAt
<1>14. (\A h \in 0..63 : ColorAt(h) = Seen(Len(pixels), h))'
  <2>1. \A h : Seen(Len(pixels), h)' = Seen(m + n, h)
    BY <1>2, <1>7 DEF Seen
  <2>2. QED
    BY <1>12, <1>13, <2>1 DEF QoiInv
<1>15. DOMAIN colors' = DOMAIN colors \cup {HashColor(p)}
  BY <1>4
<1>16. DOMAIN colors' \subseteq 0..63 /\ colors' = [h \in DOMAIN colors' |-> colors'[h]]
  BY <1>4, <1>11, <1>15 DEF QoiInv
<1>17. QED
  BY <1>10, <1>14, <1>16 DEF QoiInv


-----------------------------------------------------------------------------
(* GCodeFile: the keys.                                                    *)

GCodeTyped ==
    /\ lines \in Seq(Line)
    /\ footerFrom \in 1..(Len(lines) + 1)
    /\ gPhase \in {"header", "footer", "thumbnails", "done"}
    /\ cursor \in 1..(Len(lines) + 1)
    /\ metadata \in [Keys -> Nat]
    /\ current \in [inside : BOOLEAN, format : {"PNG", "JPG", "QOI", ""}, data : Seq(Nat)]
    /\ thumbnails \in Seq([format : {"PNG", "JPG", "QOI", ""}, data : Seq(Nat)])

\* How far the keys are known: those of the header line by line, then those
\* it does not have, of the footer.
KeysAreFirst ==
    \A k \in Keys :
        CASE gPhase = "header" -> IsFirst(metadata[k], k, 1..(cursor - 1))
          [] gPhase # "header" /\ KeyLines(k, HeaderLines) # {} -> IsFirst(metadata[k], k, HeaderLines)
          [] gPhase = "footer" /\ KeyLines(k, HeaderLines) = {} ->
                IsFirst(metadata[k], k, footerFrom..(cursor - 1))
          [] gPhase \in {"thumbnails", "done"} /\ KeyLines(k, HeaderLines) = {} ->
                IsFirst(metadata[k], k, footerFrom..Len(lines))

KeysInv ==
    /\ KeysAreFirst
    /\ gPhase = "header" => cursor <= MaxHeaderLines + 1
    /\ gPhase = "footer" => footerFrom <= cursor

LEMMA LengthOfLines ==
    ASSUME GCodeTyped
    PROVE  /\ Len(lines) \in Nat /\ DOMAIN lines = 1..Len(lines)
           /\ cursor \in Nat /\ cursor >= 1 /\ cursor <= Len(lines) + 1
           /\ footerFrom \in Nat /\ footerFrom >= 1
<1>1. lines \in Seq(Line)
  BY DEF GCodeTyped
<1>2. Len(lines) \in Nat /\ DOMAIN lines = 1..Len(lines)
  BY <1>1, LenProperties
<1>3. cursor \in 1..(Len(lines) + 1) /\ footerFrom \in 1..(Len(lines) + 1)
  BY DEF GCodeTyped
<1>4. QED
  BY <1>2, <1>3

\* One line more
LEMMA ParsedIsFirst ==
    ASSUME GCodeTyped, cursor <= Len(lines), NEW from \in Nat, 1 <= from, from <= cursor,
           NEW k \in Keys, IsFirst(metadata[k], k, from..(cursor - 1))
    PROVE  IsFirst(ParsedLine(cursor)[k], k, from..cursor)
<1> DEFINE K == KeyLines(k, from..(cursor - 1))
           is == lines[cursor].kind = "key" /\ lines[cursor].key = k
<1>1. cursor \in Nat /\ from..cursor = (from..(cursor - 1)) \cup {cursor} /\ K \subseteq from..(cursor - 1)
  BY LengthOfLines DEF KeyLines
<1>2. KeyLines(k, from..cursor) = IF is THEN K \cup {cursor} ELSE K
  BY <1>1 DEF KeyLines
<1>3. ParsedLine(cursor)[k] = IF is /\ metadata[k] = 0 THEN cursor ELSE metadata[k]
  BY DEF ParsedLine
<1>4. \A m \in K : m \in Nat /\ m # 0 /\ m <= cursor
  BY <1>1
<1> HIDE DEF K, is
<1>5. CASE K = {}
  <2>1. metadata[k] = 0
    BY <1>5 DEF IsFirst, K
  <2>2. CASE is
    <3>1. KeyLines(k, from..cursor) = {cursor} /\ ParsedLine(cursor)[k] = cursor
      BY <1>2, <1>3, <1>5, <2>1, <2>2
    <3>2. QED
      BY <1>1, <3>1 DEF IsFirst
  <2>3. CASE ~is
    BY <1>2, <1>3, <1>5, <2>1, <2>3 DEF IsFirst
  <2>4. QED
    BY <2>2, <2>3
<1>6. CASE K # {}
  <2>1. metadata[k] \in K /\ \A m \in K : metadata[k] <= m
    BY <1>6 DEF IsFirst, K
  <2>2. ParsedLine(cursor)[k] = metadata[k] /\ metadata[k] <= cursor
    BY <1>3, <1>4, <2>1
  <2>3. KeyLines(k, from..cursor) \in {K, K \cup {cursor}}
    BY <1>2
  <2>4. QED
    BY <2>1, <2>2, <2>3 DEF IsFirst
<1>7. QED
  BY <1>5, <1>6

LEMMA HeaderLineKeys == ASSUME GCodeTyped, KeysInv, HeaderLine PROVE KeysInv'
<1>1. MaxHeaderLines \in Nat
  BY ParserAssumption
<1>2. gPhase = "header" /\ lines' = lines /\ footerFrom' = footerFrom
  BY DEF HeaderLine
<1>3. \A k, N : KeyLines(k, N)' = KeyLines(k, N)
  BY <1>2 DEF KeyLines
<1>4. \A n, k, N : IsFirst(n, k, N)' = IsFirst(n, k, N)
  BY <1>3 DEF IsFirst
<1>5. HeaderLines' = HeaderLines
  BY <1>2 DEF HeaderLines
<1>6. \A k \in Keys : IsFirst(metadata[k], k, 1..(cursor - 1))
  BY <1>2 DEF KeysInv, KeysAreFirst
<1>7. CASE cursor <= Len(lines) /\ cursor <= MaxHeaderLines
  <2>1. gPhase' = "header" /\ metadata' = ParsedLine(cursor) /\ cursor' = cursor + 1
    BY <1>2, <1>7 DEF HeaderLine
  <2>2. \A k \in Keys : IsFirst(ParsedLine(cursor)[k], k, 1..cursor)
    BY <1>6, <1>7, LengthOfLines, ParsedIsFirst
  <2>3. (cursor + 1) - 1 = cursor /\ cursor + 1 <= MaxHeaderLines + 1
    BY <1>1, <1>7, LengthOfLines
  <2>4. \A k \in Keys : IsFirst(metadata[k], k, 1..(cursor - 1))'
    BY <1>4, <2>1, <2>2, <2>3
  <2>5. QED
    BY <2>1, <2>3, <2>4 DEF KeysInv, KeysAreFirst
<1>8. CASE ~(cursor <= Len(lines) /\ cursor <= MaxHeaderLines)
  <2>1. gPhase' = "footer" /\ metadata' = metadata /\ cursor' = footerFrom
    BY <1>2, <1>8 DEF HeaderLine
  <2>2. HeaderLines = 1..(cursor - 1)
    BY <1>1, <1>2, <1>8, LengthOfLines DEF HeaderLines, KeysInv
  <2>3. footerFrom..(footerFrom - 1) = {}
    BY LengthOfLines
  <2>4. \A k \in Keys : KeyLines(k, footerFrom..(footerFrom - 1)) = {}
    BY <2>3 DEF KeyLines
  <2>5. \A k \in Keys : KeyLines(k, HeaderLines) = {} => IsFirst(metadata[k], k, footerFrom..(footerFrom - 1))
    BY <1>6, <2>2, <2>4 DEF IsFirst
  <2>6. \A k \in Keys : IF (KeyLines(k, HeaderLines) # {})'
                        THEN IsFirst(metadata[k], k, HeaderLines)'
                        ELSE IsFirst(metadata[k], k, footerFrom..(cursor - 1))'
    BY <1>2, <1>3, <1>4, <1>5, <1>6, <2>1, <2>2, <2>5
  <2>7. KeysAreFirst'
    BY <2>1, <2>6 DEF KeysAreFirst
  <2>8. QED
    BY <1>2, <2>1, <2>7, LengthOfLines DEF KeysInv
<1>9. QED
  BY <1>7, <1>8

LEMMA FooterLineKeys == ASSUME GCodeTyped, KeysInv, FooterLine PROVE KeysInv'
<1>2. gPhase = "footer" /\ lines' = lines /\ footerFrom' = footerFrom
  BY DEF FooterLine
<1>3. \A k, N : KeyLines(k, N)' = KeyLines(k, N)
  BY <1>2 DEF KeyLines
<1>4. \A n, k, N : IsFirst(n, k, N)' = IsFirst(n, k, N)
  BY <1>3 DEF IsFirst
<1>5. HeaderLines' = HeaderLines
  BY <1>2 DEF HeaderLines
<1>6. \A k \in Keys : IF KeyLines(k, HeaderLines) # {}
                      THEN IsFirst(metadata[k], k, HeaderLines)
                      ELSE IsFirst(metadata[k], k, footerFrom..(cursor - 1))
  BY <1>2 DEF KeysInv, KeysAreFirst
<1>7. CASE cursor <= Len(lines)
  <2>1. gPhase' = "footer" /\ metadata' = ParsedLine(cursor) /\ cursor' = cursor + 1
    BY <1>2, <1>7 DEF FooterLine
  <2>2. footerFrom <= cursor /\ (cursor + 1) - 1 = cursor
    BY <1>2, LengthOfLines DEF KeysInv
  <2>3. \A k \in Keys : IsFirst(metadata[k], k, footerFrom..(cursor - 1))
                           => IsFirst(ParsedLine(cursor)[k], k, footerFrom..cursor)
    BY <1>7, <2>2, LengthOfLines, ParsedIsFirst
  <2>4. \A k \in Keys : KeyLines(k, HeaderLines) # {} => ParsedLine(cursor)[k] = metadata[k]
    <3> TAKE k \in Keys
    <3> SUFFICES ASSUME KeyLines(k, HeaderLines) # {} PROVE ParsedLine(cursor)[k] = metadata[k]
      OBVIOUS
    <3>1. metadata[k] \in HeaderLines
      BY <1>6 DEF IsFirst, KeyLines
    <3>2. metadata[k] # 0
      BY <3>1, LengthOfLines DEF HeaderLines
    <3>3. QED
      BY <3>2 DEF ParsedLine
  <2>5. \A k \in Keys : IF KeyLines(k, HeaderLines) # {}
                        THEN IsFirst(ParsedLine(cursor)[k], k, HeaderLines)
                        ELSE IsFirst(ParsedLine(cursor)[k], k, footerFrom..cursor)
    BY <1>6, <2>3, <2>4
  <2>6. \A k \in Keys : IF (KeyLines(k, HeaderLines) # {})'
                        THEN IsFirst(metadata[k], k, HeaderLines)'
                        ELSE IsFirst(metadata[k], k, footerFrom..(cursor - 1))'
    BY <1>2, <1>3, <1>4, <1>5, <2>1, <2>2, <2>5
  <2>7. KeysAreFirst'
    BY <2>1, <2>6 DEF KeysAreFirst
  <2>8. footerFrom' <= cursor'
    BY <1>2, <2>1, <2>2, LengthOfLines
  <2>9. QED
    BY <2>1, <2>7, <2>8 DEF KeysInv
<1>8. CASE ~(cursor <= Len(lines))
  <2>1. gPhase' = "thumbnails" /\ metadata' = metadata
    BY <1>2, <1>8 DEF FooterLine
  <2>2. cursor - 1 = Len(lines)
    BY <1>8, LengthOfLines
  <2>3. \A k \in Keys : IF (KeyLines(k, HeaderLines) # {})'
                        THEN IsFirst(metadata[k], k, HeaderLines)'
                        ELSE IsFirst(metadata[k], k, footerFrom..Len(lines))'
    BY <1>2, <1>3, <1>4, <1>5, <1>6, <2>1, <2>2
  <2>4. KeysAreFirst'
    BY <2>1, <2>3 DEF KeysAreFirst
  <2>5. QED
    BY <2>1, <2>4 DEF KeysInv
<1>9. QED
  BY <1>7, <1>8

LEMMA ThumbnailsKeys == ASSUME GCodeTyped, KeysInv, ThumbnailLine \/ ThumbnailsEnd PROVE KeysInv'
<1>2. /\ gPhase = "thumbnails" /\ gPhase' \in {"thumbnails", "done"}
      /\ lines' = lines /\ footerFrom' = footerFrom /\ metadata' = metadata
  BY DEF ThumbnailLine, ThumbnailsEnd
<1>3. \A k, N : KeyLines(k, N)' = KeyLines(k, N)
  BY <1>2 DEF KeyLines
<1>4. \A n, k, N : IsFirst(n, k, N)' = IsFirst(n, k, N)
  BY <1>3 DEF IsFirst
<1>5. HeaderLines' = HeaderLines
  BY <1>2 DEF HeaderLines
<1>6. \A k \in Keys : IF KeyLines(k, HeaderLines) # {}
                      THEN IsFirst(metadata[k], k, HeaderLines)
                      ELSE IsFirst(metadata[k], k, footerFrom..Len(lines))
  BY <1>2 DEF KeysInv, KeysAreFirst
<1>7. \A k \in Keys : IF (KeyLines(k, HeaderLines) # {})'
                      THEN IsFirst(metadata[k], k, HeaderLines)'
                      ELSE IsFirst(metadata[k], k, footerFrom..Len(lines))'
  BY <1>2, <1>3, <1>4, <1>5, <1>6
<1>8. KeysAreFirst'
  BY <1>2, <1>7 DEF KeysAreFirst
<1>9. QED
  BY <1>2, <1>8 DEF KeysInv


-----------------------------------------------------------------------------
(* GCodeFile: the thumbnails.                                              *)

Format == {"PNG", "JPG", "QOI", ""}

LEMMA GCodeTypedInit == GCodeInit(Seq(Line)) => GCodeTyped
<1> SUFFICES ASSUME GCodeInit(Seq(Line)) PROVE GCodeTyped
  OBVIOUS
<1>1. lines \in Seq(Line) /\ Len(lines) \in Nat
  BY LenProperties DEF GCodeInit
<1>2. footerFrom \in 1..(Len(lines) + 1) /\ 1 \in 1..(Len(lines) + 1)
  BY <1>1 DEF GCodeInit
<1>3. metadata \in [Keys -> Nat] /\ cursor = 1 /\ gPhase = "header"
  BY DEF GCodeInit
<1>4. current \in [inside : BOOLEAN, format : {"PNG", "JPG", "QOI", ""}, data : Seq(Nat)]
  BY DEF GCodeInit, NoThumbnail
<1>5. thumbnails \in Seq([format : {"PNG", "JPG", "QOI", ""}, data : Seq(Nat)])
  BY DEF GCodeInit
<1>6. QED
  BY <1>1, <1>2, <1>3, <1>4, <1>5 DEF GCodeTyped

LEMMA GCodeTypedNext == ASSUME GCodeTyped, GCodeNext PROVE GCodeTyped'
<1>0. Len(lines) \in Nat /\ cursor \in Nat /\ cursor >= 1 /\ footerFrom \in 1..(Len(lines) + 1)
  BY LengthOfLines DEF GCodeTyped
<1>1. /\ Len(lines) \in Nat /\ cursor \in Nat /\ footerFrom \in 1..(Len(lines) + 1)
      /\ 1 \in 1..(Len(lines) + 1)
      /\ cursor <= Len(lines) => cursor + 1 \in 1..(Len(lines) + 1)
  BY <1>0
<1>2. ParsedLine(cursor) \in [Keys -> Nat]
  BY <1>1 DEF GCodeTyped, ParsedLine
<1>3. CASE HeaderLine
  BY <1>1, <1>2, <1>3 DEF GCodeTyped, HeaderLine
<1>4. CASE FooterLine
  BY <1>1, <1>2, <1>4 DEF GCodeTyped, FooterLine
<1>5. CASE ThumbnailsEnd
  BY <1>5 DEF GCodeTyped, ThumbnailsEnd
<1>6. CASE ThumbnailLine
  <2>1. /\ cursor <= Len(lines) /\ cursor' = cursor + 1
        /\ UNCHANGED <<lines, footerFrom, gPhase, metadata>>
    BY <1>6 DEF ThumbnailLine, MoreForThumbnails
  <2>0. lines \in Seq(Line)
    BY DEF GCodeTyped
  <2>6. cursor \in 1..Len(lines)
    BY <1>0, <2>1
  <2>2. lines[cursor] \in Line
    BY <2>0, <2>6, ElementOfSeq
  <2> DEFINE C == [inside : BOOLEAN, format : {"PNG", "JPG", "QOI", ""}, data : Seq(Nat)]
  <2>5. /\ current \in C /\ current.format \in {"PNG", "JPG", "QOI", ""} /\ current.data \in Seq(Nat)
        /\ thumbnails \in Seq([format : {"PNG", "JPG", "QOI", ""}, data : Seq(Nat)])
    BY DEF GCodeTyped
  <2>3. /\ current' \in [inside : BOOLEAN, format : {"PNG", "JPG", "QOI", ""}, data : Seq(Nat)]
        /\ thumbnails' \in Seq([format : {"PNG", "JPG", "QOI", ""}, data : Seq(Nat)])
    <3>1. CASE ThumbnailBegins
      <4>1. current' = [inside |-> TRUE, format |-> lines[cursor].format, data |-> << >>]
        BY <3>1 DEF ThumbnailBegins
      <4>2. lines[cursor].format \in {"PNG", "JPG", "QOI", ""}
        BY <2>2 DEF Line
      <4>5. << >> \in Seq(Nat)
        OBVIOUS
      <4>3. current' \in C
        BY <4>1, <4>2, <4>5
      <4>4. QED
        BY <2>5, <3>1, <4>3 DEF ThumbnailBegins
    <3>2. CASE ThumbnailEnds
      <4>1. PICK format \in Formats(current.format) :
               thumbnails' = Append(thumbnails, [format |-> format, data |-> current.data])
        BY <3>2 DEF ThumbnailEnds
      <4>2. [format |-> format, data |-> current.data] \in [format : {"PNG", "JPG", "QOI", ""}, data : Seq(Nat)]
        BY <4>1 DEF GCodeTyped, Formats
      <4>3. thumbnails' \in Seq([format : {"PNG", "JPG", "QOI", ""}, data : Seq(Nat)])
        BY <4>1, <4>2, AppendProperties DEF GCodeTyped
      <4>4. current' = [current EXCEPT !.inside = FALSE, !.data = << >>] /\ << >> \in Seq(Nat)
        BY <3>2 DEF ThumbnailEnds
      <4>5. current' \in C
        BY <2>5, <4>4
      <4>6. QED
        BY <4>3, <4>5
    <3>3. CASE ThumbnailData
      <4>1. Append(current.data, cursor) \in Seq(Nat)
        BY <1>1, AppendProperties DEF GCodeTyped
      <4>2. QED
        BY <3>3, <4>1 DEF GCodeTyped, ThumbnailData
    <3>4. CASE OtherLine
      BY <3>4 DEF GCodeTyped, OtherLine
    <3>5. QED
      BY <1>6, <3>1, <3>2, <3>3, <3>4 DEF ThumbnailLine
  <2>4. QED
    BY <1>1, <2>1, <2>3 DEF GCodeTyped
<1>7. QED
  BY <1>3, <1>4, <1>5, <1>6 DEF GCodeNext

\* Line a begins a thumbnail that none has begun after or ended before line n.
Begun(a, n) ==
    /\ lines[a].kind = "begin" /\ a < n
    /\ Between("begin", a, n) = {} /\ Between("end", a, n) = {}

\* Line a is one that the parser reads: near the start, or in a thumbnail
\* that is unfinished since.
Reached(a) ==
    \/ a <= MaxHeaderLines
    \/ \E c \in 1..MaxHeaderLines : lines[c].kind = "begin" /\ Between("end", c, a) = {}

\* The images ts are those of the lines before line n.
AreThumbnailsTo(ts, n) ==
    /\ \A t \in DOMAIN ts :
          \E a, b \in DOMAIN lines : Whole(a, b) /\ AreCommentsBetween(ts[t].data, a, b)
    /\ \A a, b \in DOMAIN lines :
          b < n /\ Whole(a, b) => \E t \in DOMAIN ts : AreCommentsBetween(ts[t].data, a, b)

\* The parser is in a thumbnail c at line n if one has begun and not ended.
IsInside(c, n) ==
    /\ c.inside =>
          \E a \in DOMAIN lines : Begun(a, n) /\ Reached(a) /\ AreCommentsBetween(c.data, a, n)
    /\ \A a \in DOMAIN lines :
          a < n /\ lines[a].kind = "begin" /\ Between("end", a, n) = {} => c.inside

ThumbnailsInv ==
    /\ gPhase \in {"header", "footer"} => thumbnails = << >> /\ ~current.inside
    /\ gPhase = "thumbnails" => AreThumbnailsTo(thumbnails, cursor) /\ IsInside(current, cursor)
    /\ gPhase = "done" => AreThumbnailsTo(thumbnails, Len(lines) + 1)

\* The lines between two, up to one more
LEMMA BetweenNext ==
    ASSUME NEW kind, NEW a \in Nat, NEW n \in Nat, a < n
    PROVE  Between(kind, a, n + 1)
              = IF lines[n].kind = kind THEN Between(kind, a, n) \cup {n} ELSE Between(kind, a, n)
<1>1. (a + 1)..((n + 1) - 1) = ((a + 1)..(n - 1)) \cup {n}
  OBVIOUS
<1>2. QED
  BY <1>1 DEF Between

LEMMA CommentsNext ==
    ASSUME NEW s \in Seq(Nat), NEW a \in Nat, NEW n \in Nat, a < n, AreCommentsBetween(s, a, n)
    PROVE  /\ lines[n].kind = "code" => AreCommentsBetween(s, a, n + 1)
           /\ lines[n].kind # "code" => AreCommentsBetween(Append(s, n), a, n + 1)
<1>1. (a + 1)..((n + 1) - 1) = ((a + 1)..(n - 1)) \cup {n}
  OBVIOUS
<1>2. ASSUME lines[n].kind = "code" PROVE AreCommentsBetween(s, a, n + 1)
  BY <1>1, <1>2 DEF AreCommentsBetween
<1>3. ASSUME lines[n].kind # "code" PROVE AreCommentsBetween(Append(s, n), a, n + 1)
  <2> DEFINE r == Append(s, n)
             m == Len(s)
  <2>1. /\ m \in Nat /\ DOMAIN s = 1..m /\ DOMAIN r = 1..(m + 1)
        /\ \A i \in 1..m : r[i] = s[i]
        /\ r[m + 1] = n
    BY LenProperties, AppendProperties
  <2> HIDE DEF r, m
  <2>2. \A i \in 1..(m + 1) : i \in 1..m \/ i = m + 1
    BY <2>1
  <2>3. \A i \in DOMAIN r : r[i] \in (a + 1)..((n + 1) - 1) /\ lines[r[i]].kind # "code"
    BY <1>1, <1>3, <2>1, <2>2 DEF AreCommentsBetween
  <2>4. ASSUME NEW i \in DOMAIN r, NEW k \in DOMAIN r, i < k PROVE r[i] < r[k]
    <3>1. i \in 1..m
      BY <2>1, <2>2, <2>4
    <3>2. CASE k \in 1..m
      BY <2>1, <2>4, <3>1, <3>2 DEF AreCommentsBetween
    <3>3. CASE k = m + 1
      BY <2>1, <3>1, <3>3 DEF AreCommentsBetween
    <3>4. QED
      BY <2>1, <2>2, <3>2, <3>3
  <2>5. ASSUME NEW l \in (a + 1)..((n + 1) - 1), lines[l].kind # "code"
        PROVE  \E i \in DOMAIN r : r[i] = l
    <3>1. CASE l = n
      <4>1. m + 1 \in DOMAIN r /\ r[m + 1] = l
        BY <2>1, <3>1
      <4>2. QED
        BY <4>1
    <3>2. CASE l \in (a + 1)..(n - 1)
      <4>1. PICK i \in DOMAIN s : s[i] = l
        BY <2>5, <3>2 DEF AreCommentsBetween
      <4>2. i \in DOMAIN r /\ r[i] = l
        BY <2>1, <4>1
      <4>3. QED
        BY <4>2
    <3>3. QED
      BY <1>1, <2>5, <3>1, <3>2
  <2>6. QED
    BY <2>3, <2>4, <2>5 DEF AreCommentsBetween, r
<1>4. QED
  BY <1>2, <1>3

\* A line that ends no thumbnail leaves the images what they are.
LEMMA NoWholeAt ==
    ASSUME GCodeTyped, AreThumbnailsTo(thumbnails, cursor), lines[cursor].kind # "end"
    PROVE  AreThumbnailsTo(thumbnails, cursor + 1)
<1>1. \A b \in DOMAIN lines : b < cursor + 1 => b < cursor \/ b = cursor
  BY LengthOfLines
<1>2. \A a, b \in DOMAIN lines : b < cursor + 1 /\ Whole(a, b) => b < cursor
  BY <1>1 DEF Whole
<1>3. QED
  BY <1>2 DEF AreThumbnailsTo

LEMMA BeginsInside ==
    ASSUME GCodeTyped, cursor <= Len(lines), MoreForThumbnails, IsInside(current, cursor),
           lines[cursor].kind = "begin", NEW format
    PROVE  IsInside([inside |-> TRUE, format |-> format, data |-> << >>], cursor + 1)
<1>0. MaxHeaderLines \in Nat /\ cursor \in Nat /\ cursor \in DOMAIN lines
  BY ParserAssumption, LengthOfLines
<1>1. (cursor + 1)..((cursor + 1) - 1) = {}
  BY <1>0
<1>2. Begun(cursor, cursor + 1)
  BY <1>0, <1>1 DEF Begun, Between
<1>3. AreCommentsBetween(<< >>, cursor, cursor + 1)
  BY <1>1 DEF AreCommentsBetween
<1>4. Reached(cursor)
  <2>1. CASE cursor <= MaxHeaderLines
    BY <2>1 DEF Reached
  <2>2. CASE ~(cursor <= MaxHeaderLines)
    <3>1. PICK a \in DOMAIN lines : Begun(a, cursor) /\ Reached(a)
      BY <2>2 DEF MoreForThumbnails, IsInside
    <3>2. /\ a \in Nat /\ a >= 1 /\ a < cursor /\ lines[a].kind = "begin"
          /\ Between("end", a, cursor) = {}
      BY <3>1, LengthOfLines DEF Begun
    <3>3. CASE a <= MaxHeaderLines
      <4>1. a \in 1..MaxHeaderLines
        BY <1>0, <3>2, <3>3
      <4>2. QED
        BY <3>2, <4>1 DEF Reached
    <3>4. CASE ~(a <= MaxHeaderLines)
      <4>1. PICK c \in 1..MaxHeaderLines : lines[c].kind = "begin" /\ Between("end", c, a) = {}
        BY <3>1, <3>4 DEF Reached
      <4>2. (c + 1)..(cursor - 1) = ((c + 1)..(a - 1)) \cup {a} \cup ((a + 1)..(cursor - 1))
        BY <1>0, <3>2, <3>4
      <4>3. Between("end", c, cursor) = {}
        BY <3>2, <4>1, <4>2 DEF Between
      <4>4. QED
        BY <4>1, <4>3 DEF Reached
    <3>5. QED
      BY <3>3, <3>4
  <2>3. QED
    BY <2>1, <2>2
<1>5. QED
  BY <1>0, <1>2, <1>3, <1>4 DEF IsInside

\* A line within a thumbnail
LEMMA StaysInside ==
    ASSUME GCodeTyped, cursor <= Len(lines), IsInside(current, cursor), current.inside,
           lines[cursor].kind \notin {"begin", "end"}, NEW s \in Seq(Nat),
           s = IF lines[cursor].kind = "code" THEN current.data ELSE Append(current.data, cursor)
    PROVE  IsInside([current EXCEPT !.data = s], cursor + 1)
<1> DEFINE c == [current EXCEPT !.data = s]
<1>0. cursor \in Nat /\ DOMAIN lines \subseteq Nat
  BY LengthOfLines
<1>1. c.inside /\ c.data = s /\ current.data \in Seq(Nat)
  BY DEF GCodeTyped
<1>2. PICK a \in DOMAIN lines :
         Begun(a, cursor) /\ Reached(a) /\ AreCommentsBetween(current.data, a, cursor)
  BY DEF IsInside
<1>3. a \in Nat /\ a < cursor
  BY <1>0, <1>2 DEF Begun
<1>4. AreCommentsBetween(s, a, cursor + 1)
  BY <1>0, <1>1, <1>2, <1>3, CommentsNext
<1>5. Between("begin", a, cursor + 1) = {} /\ Between("end", a, cursor + 1) = {}
  BY <1>0, <1>2, <1>3, BetweenNext DEF Begun
<1>6. Begun(a, cursor + 1)
  BY <1>0, <1>2, <1>3, <1>5 DEF Begun
<1> HIDE DEF c
<1>7. IsInside(c, cursor + 1)
  BY <1>1, <1>2, <1>4, <1>6 DEF IsInside
<1>8. QED
  BY <1>7 DEF c

\* A line outside of thumbnails that begins none
LEMMA StaysOutside ==
    ASSUME GCodeTyped, cursor <= Len(lines), AreThumbnailsTo(thumbnails, cursor),
           IsInside(current, cursor), ~current.inside, lines[cursor].kind # "begin"
    PROVE  AreThumbnailsTo(thumbnails, cursor + 1) /\ IsInside(current, cursor + 1)
<1>0. cursor \in Nat /\ DOMAIN lines \subseteq Nat
  BY LengthOfLines
<1>1. \A b \in DOMAIN lines : b < cursor + 1 => b < cursor \/ b = cursor
  BY <1>0
<1>2. \A a \in DOMAIN lines : a < cursor /\ lines[a].kind = "begin" => Between("end", a, cursor) # {}
  BY DEF IsInside
<1>3. \A a \in DOMAIN lines : ~Whole(a, cursor)
  BY <1>2 DEF Whole
<1>4. AreThumbnailsTo(thumbnails, cursor + 1)
  <2>1. \A a, b \in DOMAIN lines : b < cursor + 1 /\ Whole(a, b) => b < cursor
    BY <1>1, <1>3
  <2>2. QED
    BY <2>1 DEF AreThumbnailsTo
<1>5. \A a \in DOMAIN lines : a < cursor => Between("end", a, cursor) \subseteq Between("end", a, cursor + 1)
  BY <1>0, BetweenNext
<1>6. \A a \in DOMAIN lines :
         a < cursor + 1 /\ lines[a].kind = "begin" => Between("end", a, cursor + 1) # {}
  BY <1>1, <1>2, <1>5
<1>7. QED
  BY <1>4, <1>6 DEF IsInside

LEMMA EndsThumbnail ==
    ASSUME GCodeTyped, cursor <= Len(lines), AreThumbnailsTo(thumbnails, cursor),
           IsInside(current, cursor), current.inside, lines[cursor].kind = "end", NEW format \in Format,
           NEW c, ~c.inside
    PROVE  /\ AreThumbnailsTo(Append(thumbnails, [format |-> format, data |-> current.data]), cursor + 1)
           /\ IsInside(c, cursor + 1)
<1> DEFINE t == [format |-> format, data |-> current.data]
           ts == Append(thumbnails, t)
           m == Len(thumbnails)
<1>0. /\ cursor \in Nat /\ DOMAIN lines \subseteq Nat /\ cursor \in DOMAIN lines
      /\ t.data = current.data
  BY LengthOfLines
<1>1. thumbnails \in Seq([format : Format, data : Seq(Nat)]) /\ t \in [format : Format, data : Seq(Nat)]
  BY DEF GCodeTyped, Format
<1>2. /\ m \in Nat /\ DOMAIN thumbnails = 1..m /\ DOMAIN ts = 1..(m + 1)
      /\ \A i \in 1..m : ts[i] = thumbnails[i]
      /\ ts[m + 1] = t
  BY <1>1, LenProperties, AppendProperties
<1> HIDE DEF t, ts, m
<1>3. \A i \in 1..(m + 1) : i \in 1..m \/ i = m + 1
  BY <1>2
<1>4. PICK a \in DOMAIN lines :
         Begun(a, cursor) /\ Reached(a) /\ AreCommentsBetween(current.data, a, cursor)
  BY DEF IsInside
<1>5. Whole(a, cursor)
  BY <1>4 DEF Begun, Reached, Whole
<1>6. \A d \in DOMAIN lines : Whole(d, cursor) => d = a
  <2> TAKE d \in DOMAIN lines
  <2> SUFFICES ASSUME Whole(d, cursor) PROVE d = a
    OBVIOUS
  <2>1. /\ a \in Nat /\ d \in Nat /\ a < cursor /\ d < cursor
        /\ lines[a].kind = "begin" /\ lines[d].kind = "begin"
        /\ Between("begin", a, cursor) = {} /\ Between("begin", d, cursor) = {}
    BY <1>0, <1>4 DEF Begun, Whole
  <2>2. a \notin (d + 1)..(cursor - 1) /\ d \notin (a + 1)..(cursor - 1)
    BY <2>1 DEF Between
  <2>3. QED
    BY <1>0, <2>1, <2>2
<1>7. \A i \in DOMAIN ts :
         \E d, b \in DOMAIN lines : Whole(d, b) /\ AreCommentsBetween(ts[i].data, d, b)
  <2> TAKE i \in DOMAIN ts
  <2>1. CASE i \in 1..m
    BY <1>2, <2>1 DEF AreThumbnailsTo
  <2>2. CASE i = m + 1
    BY <1>0, <1>2, <1>4, <1>5, <2>2
  <2>3. QED
    BY <1>2, <1>3, <2>1, <2>2
<1>8. \A d, b \in DOMAIN lines :
         b < cursor + 1 /\ Whole(d, b) => \E i \in DOMAIN ts : AreCommentsBetween(ts[i].data, d, b)
  <2> TAKE d, b \in DOMAIN lines
  <2> SUFFICES ASSUME b < cursor + 1, Whole(d, b)
               PROVE  \E i \in DOMAIN ts : AreCommentsBetween(ts[i].data, d, b)
    OBVIOUS
  <2>1. CASE b < cursor
    <3>1. PICK i \in DOMAIN thumbnails : AreCommentsBetween(thumbnails[i].data, d, b)
      BY <2>1 DEF AreThumbnailsTo
    <3>2. i \in DOMAIN ts /\ ts[i] = thumbnails[i]
      BY <1>2, <3>1
    <3>3. QED
      BY <3>1, <3>2
  <2>2. CASE b = cursor
    <3>1. d = a /\ m + 1 \in DOMAIN ts /\ ts[m + 1].data = current.data
      BY <1>0, <1>2, <1>6, <2>2
    <3>2. QED
      BY <1>4, <2>2, <3>1
  <2>3. QED
    BY <1>0, <2>1, <2>2
<1>9. \A d \in DOMAIN lines :
         d < cursor + 1 /\ lines[d].kind = "begin" => Between("end", d, cursor + 1) # {}
  <2>1. \A d \in DOMAIN lines : d < cursor + 1 /\ lines[d].kind = "begin" => d < cursor
    BY <1>0
  <2>2. \A d \in DOMAIN lines : d < cursor => cursor \in Between("end", d, cursor + 1)
    BY <1>0, BetweenNext
  <2>3. QED
    BY <2>1, <2>2
<1>10. AreThumbnailsTo(ts, cursor + 1)
  BY <1>7, <1>8 DEF AreThumbnailsTo
<1>11. IsInside(c, cursor + 1)
  BY <1>9 DEF IsInside
<1>12. QED
  BY <1>10, <1>11 DEF ts, t

\* Nothing is missed behind the lines that are read.
LEMMA NoneIsMissed ==
    ASSUME GCodeTyped, ~MoreForThumbnails, AreThumbnailsTo(thumbnails, cursor), IsInside(current, cursor)
    PROVE  AreThumbnailsTo(thumbnails, Len(lines) + 1)
<1>0. /\ MaxHeaderLines \in Nat /\ cursor \in Nat /\ Len(lines) \in Nat /\ cursor <= Len(lines) + 1
      /\ DOMAIN lines = 1..Len(lines) /\ DOMAIN lines \subseteq Nat
  BY ParserAssumption, LengthOfLines
<1>1. CASE ~(cursor <= Len(lines))
  <2>1. cursor = Len(lines) + 1
    BY <1>0, <1>1
  <2>2. QED
    BY <2>1
<1>2. CASE cursor <= Len(lines)
  <2>1. ~(cursor <= MaxHeaderLines) /\ ~current.inside
    BY <1>2 DEF MoreForThumbnails
  <2>2. \A d \in DOMAIN lines : d < cursor /\ lines[d].kind = "begin" => Between("end", d, cursor) # {}
    BY <2>1 DEF IsInside
  <2>3. \A d \in Nat, n \in Nat : cursor <= n => Between("end", d, cursor) \subseteq Between("end", d, n)
    <3> TAKE d \in Nat, n \in Nat
    <3>1. cursor <= n => (d + 1)..(cursor - 1) \subseteq (d + 1)..(n - 1)
      BY <1>0
    <3>2. QED
      BY <3>1 DEF Between
  <2>4. \A a, b \in DOMAIN lines : Whole(a, b) => b < cursor
    <3> TAKE a, b \in DOMAIN lines
    <3> SUFFICES ASSUME Whole(a, b), cursor <= b PROVE FALSE
      BY <1>0
    <3>0. a \in Nat /\ b \in Nat /\ lines[a].kind = "begin" /\ Between("end", a, b) = {}
      BY <1>0 DEF Whole
    <3>1. CASE a < cursor
      BY <2>2, <2>3, <3>0, <3>1
    <3>2. CASE ~(a < cursor)
      <4>1. cursor <= a /\ ~(a <= MaxHeaderLines)
        BY <1>0, <2>1, <3>0, <3>2
      <4>2. PICK c \in 1..MaxHeaderLines : lines[c].kind = "begin" /\ Between("end", c, a) = {}
        BY <4>1 DEF Whole
      <4>3. c \in Nat /\ c < cursor /\ c \in DOMAIN lines
        BY <1>0, <1>2, <2>1, <4>2
      <4>4. QED
        BY <2>2, <2>3, <3>0, <4>1, <4>2, <4>3
    <3>3. QED
      BY <3>1, <3>2
  <2>5. QED
    BY <2>4 DEF AreThumbnailsTo
<1>3. QED
  BY <1>1, <1>2

LEMMA ThumbnailsInvNext == ASSUME GCodeTyped, ThumbnailsInv, GCodeNext PROVE ThumbnailsInv'
<1>1. lines' = lines
  BY DEF GCodeNext, HeaderLine, FooterLine, ThumbnailLine, ThumbnailsEnd
<1>2. \A kind, a, b : Between(kind, a, b)' = Between(kind, a, b)
  BY <1>1 DEF Between
<1>3. \A a, b : Whole(a, b)' = Whole(a, b) /\ Begun(a, b)' = Begun(a, b)
  BY <1>1, <1>2 DEF Whole, Begun
<1>4. \A a : Reached(a)' = Reached(a)
  BY <1>1, <1>2 DEF Reached
<1>5. \A x, a, b : AreCommentsBetween(x, a, b)' = AreCommentsBetween(x, a, b)
  BY <1>1 DEF AreCommentsBetween
<1>6. \A ts, n : AreThumbnailsTo(ts, n)' = AreThumbnailsTo(ts, n)
  BY <1>1, <1>3, <1>5 DEF AreThumbnailsTo
<1>7. \A c, n : IsInside(c, n)' = IsInside(c, n)
  BY <1>1, <1>2, <1>3, <1>4, <1>5 DEF IsInside
<1>8. CASE HeaderLine
  <2>1. /\ gPhase = "header" /\ gPhase' \in {"header", "footer"}
        /\ thumbnails' = thumbnails /\ current' = current
    BY <1>8 DEF HeaderLine
  <2>2. QED
    BY <2>1 DEF ThumbnailsInv
<1>9. CASE FooterLine
  <2>1. /\ gPhase = "footer" /\ gPhase' \in {"footer", "thumbnails"}
        /\ thumbnails' = thumbnails /\ current' = current
        /\ gPhase' = "thumbnails" => cursor' = 1
    BY <1>9 DEF FooterLine
  <2>2. thumbnails = << >> /\ ~current.inside
    BY <2>1 DEF ThumbnailsInv
  <2>3. \A b \in DOMAIN lines : ~(b < 1)
    BY LengthOfLines
  <2>4. AreThumbnailsTo(thumbnails, 1) /\ IsInside(current, 1)
    BY <2>2, <2>3 DEF AreThumbnailsTo, IsInside
  <2>5. QED
    BY <1>6, <1>7, <2>1, <2>2, <2>4 DEF ThumbnailsInv
<1>10. CASE ThumbnailsEnd
  <2>1. /\ gPhase = "thumbnails" /\ gPhase' = "done" /\ ~MoreForThumbnails /\ thumbnails' = thumbnails
    BY <1>10 DEF ThumbnailsEnd
  <2>2. AreThumbnailsTo(thumbnails, Len(lines) + 1)
    BY <2>1, NoneIsMissed DEF ThumbnailsInv
  <2>3. QED
    BY <1>1, <1>6, <2>1, <2>2 DEF ThumbnailsInv
<1>11. CASE ThumbnailLine
  <2>1. /\ gPhase = "thumbnails" /\ gPhase' = "thumbnails" /\ cursor' = cursor + 1
        /\ MoreForThumbnails /\ cursor <= Len(lines)
    BY <1>11 DEF ThumbnailLine, MoreForThumbnails
  <2>2. AreThumbnailsTo(thumbnails, cursor) /\ IsInside(current, cursor)
    BY <2>1 DEF ThumbnailsInv
  <2>3. /\ current \in [inside : BOOLEAN, format : Format, data : Seq(Nat)]
        /\ current.data \in Seq(Nat) /\ current.format \in Format /\ cursor \in Nat
    BY LengthOfLines DEF GCodeTyped, Format
  <2>4. AreThumbnailsTo(thumbnails', cursor + 1) /\ IsInside(current', cursor + 1)
    <3>1. CASE ThumbnailBegins
      <4>1. /\ lines[cursor].kind = "begin" /\ thumbnails' = thumbnails
            /\ current' = [inside |-> TRUE, format |-> lines[cursor].format, data |-> << >>]
        BY <3>1 DEF ThumbnailBegins
      <4>2. AreThumbnailsTo(thumbnails, cursor + 1)
        BY <2>2, <4>1, NoWholeAt
      <4>3. IsInside(current', cursor + 1)
        BY <2>1, <2>2, <4>1, BeginsInside
      <4>4. QED
        BY <4>1, <4>2, <4>3
    <3>2. CASE ThumbnailEnds
      <4>1. PICK format \in Formats(current.format) :
               thumbnails' = Append(thumbnails, [format |-> format, data |-> current.data])
        BY <3>2 DEF ThumbnailEnds
      <4>2. format \in Format
        BY <2>3, <4>1 DEF Formats, Format
      <4>3. ~current'.inside /\ current.inside /\ lines[cursor].kind = "end"
        BY <2>3, <3>2 DEF ThumbnailEnds
      <4>4. QED
        BY <2>1, <2>2, <4>1, <4>2, <4>3, EndsThumbnail
    <3>3. CASE ThumbnailData
      <4>1. /\ current.inside /\ lines[cursor].kind \in {"data", "key"} /\ thumbnails' = thumbnails
            /\ current' = [current EXCEPT !.data = Append(current.data, cursor)]
        BY <3>3 DEF ThumbnailData
      <4>2. Append(current.data, cursor) \in Seq(Nat)
        BY <2>3, AppendProperties
      <4>3. IsInside(current', cursor + 1)
        BY <2>1, <2>2, <4>1, <4>2, StaysInside
      <4>4. QED
        BY <2>2, <4>1, <4>3, NoWholeAt
    <3>4. CASE OtherLine
      <4>1. current' = current /\ thumbnails' = thumbnails
        BY <3>4 DEF OtherLine
      <4>2. CASE current.inside
        <5>1. lines[cursor].kind = "code"
          BY <3>4, <4>2 DEF OtherLine
        <5>2. current = [current EXCEPT !.data = current.data]
          BY <2>3
        <5>3. IsInside(current, cursor + 1)
          BY <2>1, <2>2, <2>3, <4>2, <5>1, <5>2, StaysInside
        <5>4. QED
          BY <2>2, <4>1, <5>1, <5>3, NoWholeAt
      <4>3. CASE ~current.inside
        BY <2>1, <2>2, <3>4, <4>1, <4>3, StaysOutside DEF OtherLine
      <4>4. QED
        BY <4>2, <4>3
    <3>5. QED
      BY <1>11, <3>1, <3>2, <3>3, <3>4 DEF ThumbnailLine
  <2>5. QED
    BY <1>6, <1>7, <2>1, <2>4 DEF ThumbnailsInv
<1>12. QED
  BY <1>8, <1>9, <1>10, <1>11 DEF GCodeNext

GCodeInv == GCodeTyped /\ KeysInv /\ ThumbnailsInv

LEMMA GCodeInvInit == ASSUME GCodeInit(Seq(Line)) PROVE GCodeInv
<1>1. GCodeTyped
  BY GCodeTypedInit
<1>2. gPhase = "header" /\ cursor = 1 /\ thumbnails = << >> /\ ~current.inside
  BY DEF GCodeInit, NoThumbnail
<1>3. \A k \in Keys : metadata[k] = 0 /\ KeyLines(k, 1..(cursor - 1)) = {}
  BY <1>2 DEF GCodeInit, KeyLines
<1>4. 1 <= MaxHeaderLines + 1
  BY ParserAssumption
<1>5. KeysInv
  BY <1>2, <1>3, <1>4 DEF KeysInv, KeysAreFirst, IsFirst
<1>6. ThumbnailsInv
  BY <1>2 DEF ThumbnailsInv
<1>7. QED
  BY <1>1, <1>5, <1>6 DEF GCodeInv

LEMMA GCodeInvNext == ASSUME GCodeInv, GCodeNext PROVE GCodeInv'
BY GCodeTypedNext, HeaderLineKeys, FooterLineKeys, ThumbnailsKeys, ThumbnailsInvNext
   DEF GCodeInv, GCodeNext

LEMMA GCodeUnderstood == ASSUME GCodeInv PROVE FileIsUnderstood
<1> SUFFICES ASSUME gPhase = "done" PROVE FileIsUnderstood
  BY DEF FileIsUnderstood
<1>1. \A k \in Keys : IsFirst(metadata[k], k,
          IF KeyLines(k, HeaderLines) # {} THEN HeaderLines ELSE footerFrom..Len(lines))
  BY DEF GCodeInv, KeysInv, KeysAreFirst
<1>2. AreThumbnailsTo(thumbnails, Len(lines) + 1)
  BY DEF GCodeInv, ThumbnailsInv
<1>3. \A b \in DOMAIN lines : b < Len(lines) + 1
  BY LengthOfLines DEF GCodeInv
<1>4. QED
  BY <1>1, <1>2, <1>3 DEF AreThumbnailsTo, FileIsUnderstood

-----------------------------------------------------------------------------
(* HeatshrinkDecoder: recursion over the numbers up to one.                *)

\* What holds of 0, and of k if it does of k - 1, holds up to n.
LEMMA Upwards ==
    ASSUME NEW n \in Nat, NEW S, 0 \in S, \A k \in 1..n : k - 1 \in S => k \in S
    PROVE  0..n \subseteq S
<1>. DEFINE Bad == (1..n) \ S
<1>1. SUFFICES ASSUME Bad # {} PROVE FALSE
  OBVIOUS
<1>2. Bad \in SUBSET (1..n)
  OBVIOUS
<1>. HIDE DEF Bad
<1>3. PICK k \in Bad : \A j \in Bad : k <= j
  BY <1>1, <1>2, FirstNumber
<1>. USE DEF Bad
<1>4. k \in 1..n /\ k \notin S
  OBVIOUS
<1>5. k - 1 \in 0..n /\ ~(k <= k - 1)
  BY <1>4
<1>6. k - 1 \in S
  BY <1>3, <1>5
<1>7. QED
  BY <1>4, <1>6

\* The sequences of values each of which a step makes of the one before: there
\* is one.
Ladders(n, X, base, step) ==
    {g \in [0..n -> X] : g[0] = base /\ \A i \in 1..n : g[i] = step[<<i, g[i - 1]>>]}

LEMMA Recursion ==
    ASSUME NEW n \in Nat, NEW X, NEW base \in X, NEW step \in [(1..n) \X X -> X]
    PROVE  Ladders(n, X, base, step) # {}
<1>. DEFINE S == {k \in 0..n : \E g \in [0..k -> X] :
                      g[0] = base /\ \A i \in 1..k : g[i] = step[<<i, g[i - 1]>>]}
<1>1. 0 \in S
  <2>. DEFINE g == [i \in 0..0 |-> base]
  <2>1. g \in [0..0 -> X] /\ g[0] = base /\ \A i \in 1..0 : g[i] = step[<<i, g[i - 1]>>]
    OBVIOUS
  <2>2. 0 \in 0..n
    OBVIOUS
  <2>. HIDE DEF g
  <2>3. \E f \in [0..0 -> X] : f[0] = base /\ \A i \in 1..0 : f[i] = step[<<i, f[i - 1]>>]
    BY <2>1
  <2>4. QED
    BY <2>2, <2>3
<1>2. ASSUME NEW k \in 1..n, k - 1 \in S PROVE k \in S
  <2>0. k \in Nat /\ k >= 1 /\ k \in 0..n /\ k - 1 \in Nat
    OBVIOUS
  <2>1. PICK g \in [0..(k - 1) -> X] : g[0] = base /\ \A i \in 1..(k - 1) : g[i] = step[<<i, g[i - 1]>>]
    BY <1>2
  <2>. DEFINE h == [i \in 0..k |-> IF i = k THEN step[<<k, g[k - 1]>>] ELSE g[i]]
  <2>2. h \in [0..k -> X]
    <3>1. g[k - 1] \in X
      BY <2>0
    <3>2. step[<<k, g[k - 1]>>] \in X
      BY <3>1
    <3>3. ASSUME NEW i \in 0..k, i # k PROVE g[i] \in X
      <4>1. i \in 0..(k - 1)
        BY <2>0, <3>3
      <4>2. QED
        BY <4>1
    <3>4. QED
      BY <3>2, <3>3
  <2>3. ASSUME NEW i \in 1..k PROVE h[i] = step[<<i, h[i - 1]>>]
    <3>0. i \in 0..k /\ i - 1 \in 0..k /\ i - 1 # k
      BY <2>0
    <3>1. h[i - 1] = g[i - 1]
      BY <3>0
    <3>2. CASE i = k
      BY <3>0, <3>1, <3>2
    <3>3. CASE i # k
      <4>1. i \in 1..(k - 1)
        BY <2>0, <3>3
      <4>2. h[i] = g[i]
        BY <3>0, <3>3
      <4>3. QED
        BY <2>1, <3>1, <4>1, <4>2
    <3>4. QED
      BY <3>2, <3>3
  <2>4. h[0] = base
    BY <2>0, <2>1
  <2>. HIDE DEF h
  <2>5. \E f \in [0..k -> X] : f[0] = base /\ \A i \in 1..k : f[i] = step[<<i, f[i - 1]>>]
    BY <2>2, <2>3, <2>4
  <2>6. QED
    BY <2>0, <2>5
<1>. HIDE DEF S
<1>3. n \in S
  BY <1>1, <1>2, Upwards
<1>4. QED
  BY <1>3 DEF S, Ladders

LEMMA PowerIs ==
    /\ Power[0] = 1
    /\ \A k \in 1..30 : Power[k] = 2 * Power[k - 1]
    /\ \A k \in 0..30 : Power[k] \in Nat /\ Power[k] > 0
<1>. DEFINE E(g) == [k \in 0..30 |-> IF k = 0 THEN 1 ELSE 2 * g[k - 1]]
            step == [a \in (1..30) \X Nat |-> 2 * a[2]]
<1>1. PICK g \in [0..30 -> Nat] : g[0] = 1 /\ \A i \in 1..30 : g[i] = step[<<i, g[i - 1]>>]
  <2>1. step \in [(1..30) \X Nat -> Nat]
    OBVIOUS
  <2>. DEFINE N == 30
              base == 1
              X == Nat
  <2>2. N \in Nat /\ base \in X /\ step \in [(1..N) \X X -> X]
    BY <2>1
  <2>. HIDE DEF step, N, base, X
  <2>3. Ladders(N, X, base, step) # {}
    BY <2>2, Recursion
  <2>4. QED
    BY <2>3 DEF N, base, X, Ladders
<1>2. \A i \in 1..30 : g[i] = 2 * g[i - 1]
  <2>. TAKE i \in 1..30
  <2>1. <<i, g[i - 1]>> \in (1..30) \X Nat
    OBVIOUS
  <2>2. QED
    BY <1>1, <2>1
<1>3. g = E(g)
  BY <1>1, <1>2
<1>4. Power = CHOOSE h : h = E(h)
  BY DEF Power
<1>5. Power = E(Power)
  BY <1>3, <1>4
<1>6. \A k \in 0..30 : Power[k] = IF k = 0 THEN 1 ELSE 2 * Power[k - 1]
  BY <1>5
<1>. DEFINE S == {k \in 0..30 : Power[k] \in Nat /\ Power[k] > 0}
<1>7. 0 \in S
  BY <1>6
<1>8. ASSUME NEW k \in 1..30, k - 1 \in S PROVE k \in S
  BY <1>6, <1>8
<1>. HIDE DEF S
<1>9. 0..30 \subseteq S
  BY <1>7, <1>8, Upwards
<1>10. QED
  BY <1>6, <1>9 DEF S

LEMMA PowerAt == ASSUME NEW k \in 0..30 PROVE Power[k] \in Nat /\ Power[k] > 0
BY PowerIs

LEMMA PowerTwice == ASSUME NEW k \in 1..30 PROVE Power[k] = 2 * Power[k - 1]
BY PowerIs

LEMMA PowersOf8 == Power[8] = 256
<1>1. Power[1] = 2 /\ Power[2] = 4 /\ Power[3] = 8 /\ Power[4] = 16
  BY PowerIs
<1>2. Power[5] = 32 /\ Power[6] = 64 /\ Power[7] = 128
  BY PowerIs, <1>1
<1>3. QED
  BY PowerIs, <1>2

\* Number's value: the base case and one bit more
LEMMA NumberOf ==
    ASSUME NEW bits \in Seq(Nat)
    PROVE  \E value \in [0..Len(bits) -> Nat] :
              /\ value[0] = 0
              /\ \A i \in 1..Len(bits) : value[i] = 2 * value[i - 1] + bits[i]
              /\ Number(bits) = value[Len(bits)]
<1>. DEFINE N == Len(bits)
            E(g) == [k \in 0..Len(bits) |-> IF k = 0 THEN 0 ELSE 2 * g[k - 1] + bits[k]]
            step == [a \in (1..N) \X Nat |-> 2 * a[2] + bits[a[1]]]
            value == CHOOSE h : h = E(h)
<1>1. PICK g \in [0..N -> Nat] : g[0] = 0 /\ \A i \in 1..N : g[i] = step[<<i, g[i - 1]>>]
  <2>. DEFINE base == 0
              X == Nat
  <2>1. N \in Nat /\ base \in X
    OBVIOUS
  <2>2. step \in [(1..N) \X X -> X]
    OBVIOUS
  <2>. HIDE DEF step, N, base, X
  <2>3. Ladders(N, X, base, step) # {}
    BY <2>1, <2>2, Recursion
  <2>4. QED
    BY <2>3 DEF base, X, Ladders
<1>2. \A i \in 1..N : g[i] = 2 * g[i - 1] + bits[i]
  <2>. TAKE i \in 1..N
  <2>1. g[i - 1] \in Nat
    OBVIOUS
  <2>2. step[<<i, g[i - 1]>>] = 2 * g[i - 1] + bits[i]
    BY <2>1
  <2>3. QED
    BY <1>1, <2>2
<1>3. g = E(g)
  BY <1>1, <1>2
<1>4. value = E(value)
  BY <1>3
<1>5. value = CHOOSE h : h = E(h)
  OBVIOUS
<1>6. Number(bits) = value[N]
  BY DEF Number
<1>. HIDE DEF value
<1>7. value[0] = 0 /\ \A i \in 1..N : value[i] = 2 * value[i - 1] + bits[i]
  BY <1>4
<1>. DEFINE S == {k \in 0..N : value[k] \in Nat}
<1>8. 0 \in S
  BY <1>7
<1>9. ASSUME NEW k \in 1..N, k - 1 \in S PROVE k \in S
  <2>1. value[k] = 2 * value[k - 1] + bits[k] /\ value[k - 1] \in Nat
    BY <1>7, <1>9
  <2>2. bits[k] \in Nat /\ k \in 0..N
    OBVIOUS
  <2>3. value[k] \in Nat
    BY <2>1, <2>2
  <2>4. QED
    BY <2>2, <2>3
<1>10. 0..N \subseteq S
  <2>. HIDE DEF S
  <2>1. N \in Nat
    OBVIOUS
  <2>. HIDE DEF N
  <2>2. QED
    BY <1>8, <1>9, <2>1, Upwards
<1>11. value \in [0..N -> Nat]
  BY <1>4, <1>10
<1>12. QED
  BY <1>6, <1>7, <1>11

LEMMA NumberIsNat == ASSUME NEW bits \in Seq(Nat) PROVE Number(bits) \in Nat
BY NumberOf

LEMMA DivIsNat == ASSUME NEW n \in Nat, NEW m \in Nat, m > 0 PROVE n \div m \in Nat
OBVIOUS

LEMMA DivTwice ==
    ASSUME NEW n \in Nat, NEW m \in Nat, m > 0 PROVE n \div (2 * m) = (n \div m) \div 2
OBVIOUS

\* One bit more
BitAdded(n, m, p, q) ==
    2 * ((n \div (2 * m)) - p * q) + ((n \div m) % 2) = (n \div m) - (2 * p) * q

LEMMA BitMore ==
    ASSUME NEW n \in Nat, NEW m \in Nat, m > 0, NEW p \in Nat, NEW q \in Nat
    PROVE  BitAdded(n, m, p, q)
<1>. DEFINE h == n \div m
            r == p * q
<1>1. n \div (2 * m) = h \div 2 /\ h \in Nat
  BY DivIsNat, DivTwice
<1>2. (2 * p) * q = 2 * r /\ r \in Nat
  OBVIOUS
<1>. HIDE DEF h, r
<1>3. h = 2 * (h \div 2) + (h % 2) /\ h \div 2 \in Nat /\ h % 2 \in Nat
  BY <1>1
<1>. DEFINE h2 == h \div 2
            h1 == h % 2
<1>. HIDE DEF h2, h1
<1>4. h = 2 * h2 + h1 /\ h2 \in Nat /\ h1 \in Nat
  BY <1>3 DEF h2, h1
<1>5. 2 * (h2 - r) + h1 = h - 2 * r
  BY <1>1, <1>2, <1>4
<1>6. 2 * ((h \div 2) - r) + (h % 2) = h - 2 * r
  BY <1>5 DEF h2, h1
<1>7. 2 * ((n \div (2 * m)) - r) + (h % 2) = h - (2 * p) * q
  BY <1>1, <1>2, <1>6
<1>8. QED
  BY <1>7 DEF h, r, BitAdded

LEMMA BitPlaces ==
    ASSUME NEW b \in 1..30, NEW k \in 0..b, NEW i \in 1..k
    PROVE  i \in 1..30 /\ i - 1 \in 0..30 /\ b - i \in 0..30 /\ b - (i - 1) \in 1..30 /\ b - (i - 1) - 1 = b - i
OBVIOUS

\* The first k of the b bits of a number are what its last ones leave of it.
LEMMA NumberIs ==
    ASSUME NEW n \in Nat, NEW b \in 1..30, NEW k \in 0..b, NEW bits \in Seq(Nat), Len(bits) = k,
           \A i \in 1..k : bits[i] = (n \div Power[b - i]) % 2
    PROVE  Number(bits) = (n \div Power[b - k]) - Power[k] * (n \div Power[b])
<1>. DEFINE q == n \div Power[b]
            Holds(v, i) == v = (n \div Power[b - i]) - Power[i] * q
<1>1. PICK value \in [0..k -> Nat] :
         /\ value[0] = 0
         /\ \A i \in 1..k : value[i] = 2 * value[i - 1] + bits[i]
         /\ Number(bits) = value[k]
  BY NumberOf
<1>2. q \in Nat /\ k \in Nat
  <2>1. b \in 0..30
    OBVIOUS
  <2>2. Power[b] \in Nat /\ Power[b] > 0
    BY <2>1, PowerAt
  <2>3. n \div Power[b] \in Nat
    BY <2>2, DivIsNat, Zenon
  <2>4. QED
    BY <2>3
<1>3. Holds(value[0], 0)
  <2>1. b - 0 = b /\ 0 = q - 1 * q
    <3>. HIDE DEF q
    <3>1. QED
      BY <1>2
  <2>2. Power[0] = 1
    BY PowerIs
  <2>3. (n \div Power[b - 0]) - Power[0] * q = q - 1 * q
    BY <2>1, <2>2, Zenon
  <2>4. QED
    BY <1>1, <2>1, <2>3, Zenon
<1>4. ASSUME NEW i \in 1..k, Holds(value[i - 1], i - 1) PROVE Holds(value[i], i)
  <2>. DEFINE m == Power[b - i]
              p == Power[i - 1]
  <2>1. i \in 1..30 /\ i - 1 \in 0..30 /\ b - i \in 0..30 /\ b - (i - 1) \in 1..30 /\ b - (i - 1) - 1 = b - i
    BY BitPlaces, Zenon
  <2>2. m \in Nat /\ m > 0 /\ p \in Nat
    BY <2>1, PowerAt, Zenon
  <2>3. Power[b - (i - 1)] = 2 * m
    BY <2>1, PowerTwice, Zenon
  <2>4. Power[i] = 2 * p
    BY <2>1, PowerTwice, Zenon
  <2>5. value[i - 1] = (n \div (2 * m)) - p * q
    BY <1>4, <2>3, Zenon
  <2>6. bits[i] = (n \div m) % 2
    BY Zenon
  <2>7. value[i] = 2 * value[i - 1] + bits[i]
    BY <1>1, Zenon
  <2>8. 2 * ((n \div (2 * m)) - p * q) + ((n \div m) % 2) = (n \div m) - (2 * p) * q
    <3>1. q \in Nat
      BY <1>2
    <3>2. BitAdded(n, m, p, q)
      BY <2>2, <3>1, BitMore, Zenon
    <3>3. QED
      BY <3>2, Zenon DEF BitAdded
  <2>9. value[i] = (n \div m) - (2 * p) * q
    BY <2>5, <2>6, <2>7, <2>8, Zenon
  <2>10. QED
    BY <2>4, <2>9, Zenon
<1>. DEFINE S == {i \in 0..k : Holds(value[i], i)}
<1>. HIDE DEF Holds
<1>5. 0 \in S
  BY <1>2, <1>3
<1>6. ASSUME NEW i \in 1..k, i - 1 \in S PROVE i \in S
  <2>1. i \in 0..k
    BY <1>2
  <2>2. QED
    BY <1>4, <1>6, <2>1
<1>7. 0..k \subseteq S
  <2>. HIDE DEF S
  <2>1. QED
    BY <1>2, <1>5, <1>6, Upwards
<1>8. Holds(value[k], k)
  BY <1>2, <1>7
<1>9. QED
  BY <1>1, <1>8, Zenon DEF Holds

\* Less than a power is nothing over.
LEMMA NothingOver ==
    ASSUME NEW n \in Nat, NEW p \in Nat, n < p PROVE n \div p = 0
BY SMTT(30)

\* A number's bits, all of them, its first and its last eight
LEMMA AllBits ==
    ASSUME NEW n \in Nat, NEW b \in 1..30, n < Power[b], NEW bits \in Seq(Nat), Len(bits) = b,
           \A i \in 1..b : bits[i] = (n \div Power[b - i]) % 2
    PROVE  Number(bits) = n
<1>1. b \in 0..b /\ b - b = 0 /\ b \in 0..30
  OBVIOUS
<1>2. Number(bits) = (n \div Power[b - b]) - Power[b] * (n \div Power[b])
  BY <1>1, NumberIs, Zenon
<1>3. Power[0] = 1 /\ Power[b] \in Nat
  BY <1>1, PowerIs, PowerAt
<1>4. n \div Power[b] = 0
  BY <1>3, NothingOver, Zenon
<1>5. Number(bits) = (n \div 1) - Power[b] * 0
  BY <1>1, <1>2, <1>3, <1>4, Zenon
<1>6. n \div 1 = n
  OBVIOUS
<1>7. QED
  BY <1>3, <1>5, <1>6

LEMMA FirstBits ==
    ASSUME NEW n \in Nat, NEW b \in 9..30, n < Power[b], NEW bits \in Seq(Nat), Len(bits) = b - 8,
           \A i \in 1..(b - 8) : bits[i] = (n \div Power[b - i]) % 2
    PROVE  Number(bits) = n \div 256
<1>1. b - 8 \in 0..b /\ b - (b - 8) = 8 /\ b \in 0..30 /\ b - 8 \in 0..30 /\ b \in 1..30
  OBVIOUS
<1>2. Number(bits) = (n \div Power[b - (b - 8)]) - Power[b - 8] * (n \div Power[b])
  BY <1>1, NumberIs, Zenon
<1>3. Power[b] \in Nat /\ Power[b - 8] \in Nat
  BY <1>1, PowerAt, Zenon
<1>4. n \div Power[b] = 0
  BY <1>3, NothingOver, Zenon
<1>5. Number(bits) = (n \div 256) - Power[b - 8] * 0
  BY <1>1, <1>2, <1>4, PowersOf8, Zenon
<1>6. n \div 256 \in Nat
  OBVIOUS
<1>7. QED
  BY <1>3, <1>5, <1>6

LEMMA LastBits ==
    ASSUME NEW n \in Nat, NEW bits \in Seq(Nat), Len(bits) = 8,
           \A i \in 1..8 : bits[i] = (n \div Power[8 - i]) % 2
    PROVE  Number(bits) = n - 256 * (n \div 256)
<1>1. 8 \in 0..8 /\ 8 \in 1..30 /\ 8 - 8 = 0
  OBVIOUS
<1>2. Number(bits) = (n \div Power[8 - 8]) - Power[8] * (n \div Power[8])
  BY <1>1, NumberIs, Zenon
<1>3. Power[0] = 1
  BY PowerIs
<1>4. Number(bits) = (n \div 1) - 256 * (n \div 256)
  BY <1>1, <1>2, <1>3, PowersOf8, Zenon
<1>5. n \div 1 = n
  OBVIOUS
<1>6. QED
  BY <1>4, <1>5, Zenon

-----------------------------------------------------------------------------
(* HeatshrinkDecoder: the data and what it stands for.                     *)

LEMMA BitsAre ==
    ASSUME NEW n \in Nat, NEW width \in 1..30
    PROVE  /\ Bits(n, width) \in Seq({0, 1})
           /\ Len(Bits(n, width)) = width
           /\ \A i \in 1..width : Bits(n, width)[i] = (n \div Power[width - i]) % 2
<1>1. ASSUME NEW i \in 1..width PROVE (n \div Power[width - i]) % 2 \in {0, 1}
  <2>1. width - i \in 0..30
    OBVIOUS
  <2>2. Power[width - i] \in Nat /\ Power[width - i] > 0
    BY <2>1, PowerAt, Zenon
  <2>3. n \div Power[width - i] \in Nat
    BY <2>2, DivIsNat, Zenon
  <2>. DEFINE h == n \div Power[width - i]
  <2>. HIDE DEF h
  <2>4. h \in Nat => h % 2 \in {0, 1}
    OBVIOUS
  <2>5. QED
    BY <2>3, <2>4 DEF h
<1>. DEFINE bit(i) == (n \div Power[width - i]) % 2
<1>2. \A i \in 1..width : bit(i) \in {0, 1}
  BY <1>1
<1>3. Bits(n, width) = [i \in 1..width |-> bit(i)]
  BY Zenon DEF Bits
<1>. HIDE DEF bit
<1>4. width \in Nat
  OBVIOUS
<1>5. Bits(n, width) \in Seq({0, 1}) /\ Len(Bits(n, width)) = width
  BY <1>2, <1>3, <1>4
<1>6. \A i \in 1..width : Bits(n, width)[i] = bit(i)
  BY <1>3
<1>7. QED
  BY <1>5, <1>6 DEF bit

\* r is s, of m elements, and then u, of n.
IsJoined(S, r, s, m, u, n) ==
    /\ r \in Seq(S)
    /\ Len(r) = m + n
    /\ \A j \in 1..m : r[j] = s[j]
    /\ \A j \in 1..n : r[m + j] = u[j]

LEMMA Joined ==
    ASSUME NEW S, NEW s \in Seq(S), NEW u \in Seq(S), NEW m, NEW n, Len(s) = m, Len(u) = n
    PROVE  IsJoined(S, s \o u, s, m, u, n)
BY DEF IsJoined

LEMMA JoinedOne ==
    ASSUME NEW S, NEW a \in S, NEW s \in Seq(S), NEW m, Len(s) = m
    PROVE  IsJoined(S, <<a>> \o s, <<a>>, 1, s, m)
<1>1. <<a>> \in Seq(S) /\ Len(<<a>>) = 1
  OBVIOUS
<1>2. QED
  BY <1>1, Joined, Zenon

\* An encoding's tokens, one by one
LEMMA TokenIs ==
    ASSUME NEW e, IsEncoding(e), NEW i \in 1..Len(e.tokens)
    PROVE  /\ e.window \in 1..30 /\ e.lookahead \in 1..30
           /\ e.tokens \in Seq(Token)
           /\ e.tokens[i].back \in BOOLEAN
           /\ e.tokens[i].byte \in 0..255 /\ e.tokens[i].index \in Nat /\ e.tokens[i].count \in Nat
           /\ e.tokens[i].back =>
                 /\ e.tokens[i].index >= 1 /\ e.tokens[i].index <= Power[e.window]
                 /\ e.tokens[i].count >= 1 /\ e.tokens[i].count <= Power[e.lookahead]
                 /\ e.tokens[i].index - 1 \in Nat /\ e.tokens[i].count - 1 \in Nat
                 /\ e.tokens[i].index - 1 < Power[e.window] /\ e.tokens[i].count - 1 < Power[e.lookahead]
<1>1. e.window \in 1..30 /\ e.lookahead \in 1..30 /\ e.tokens \in Seq(Token) /\ i \in DOMAIN e.tokens
  BY DEF IsEncoding
<1>2. e.tokens[i] \in Token
  BY <1>1
<1>3. e.window \in 0..30 /\ e.lookahead \in 0..30
  BY <1>1
<1>4. Power[e.window] \in Nat /\ Power[e.lookahead] \in Nat
  BY <1>3, PowerAt, Zenon
<1>5. e.tokens[i].back => /\ e.tokens[i].index \in 1..Power[e.window]
                          /\ e.tokens[i].count \in 1..Power[e.lookahead]
  BY <1>1 DEF IsEncoding
<1>6. /\ e.tokens[i].back \in BOOLEAN
      /\ e.tokens[i].byte \in 0..255 /\ e.tokens[i].index \in Nat /\ e.tokens[i].count \in Nat
  BY <1>2 DEF Token
<1>7. ASSUME NEW m \in Nat, NEW n \in 1..m
      PROVE  n >= 1 /\ n <= m /\ n - 1 \in Nat /\ n - 1 < m
  OBVIOUS
<1>8. QED
  BY <1>1, <1>4, <1>5, <1>6, <1>7, Zenon

LEMMA LiteralCode ==
    ASSUME NEW e, NEW t, t.back = FALSE, t.byte \in 0..255
    PROVE  /\ Encoded(e, t) \in Seq({0, 1})
           /\ Len(Encoded(e, t)) = 9
           /\ Encoded(e, t)[1] = 1
           /\ \A j \in 1..8 : Encoded(e, t)[1 + j] = (t.byte \div Power[8 - j]) % 2
<1>. DEFINE bits == Bits(t.byte, 8)
<1>1. t.byte \in Nat /\ 8 \in 1..30
  OBVIOUS
<1>2. bits \in Seq({0, 1}) /\ Len(bits) = 8 /\ \A j \in 1..8 : bits[j] = (t.byte \div Power[8 - j]) % 2
  BY <1>1, BitsAre, Zenon
<1>3. Encoded(e, t) = <<1>> \o bits
  BY Zenon DEF Encoded
<1>. HIDE DEF bits
<1>. DEFINE code == <<1>> \o bits
<1>4. code \in Seq({0, 1}) /\ Len(code) = 9 /\ code[1] = 1 /\ \A j \in 1..8 : code[1 + j] = bits[j]
  <2>1. 1 \in {0, 1} /\ 1 + 8 = 9 /\ 1 \in 1..1 /\ <<1>>[1] = 1
    OBVIOUS
  <2>2. IsJoined({0, 1}, code, <<1>>, 1, bits, 8)
    BY <1>2, <2>1, JoinedOne, Zenon
  <2>3. QED
    BY <2>1, <2>2, Zenon DEF IsJoined
<1>. HIDE DEF code
<1>5. \A j \in 1..8 : code[1 + j] = (t.byte \div Power[8 - j]) % 2
  BY <1>2, <1>4, Zenon
<1>6. Encoded(e, t) = code
  BY <1>3 DEF code
<1>7. QED
  BY <1>4, <1>5, <1>6, Zenon

LEMMA LiteralTag ==
    ASSUME NEW e, NEW t, t.back = FALSE, t.byte \in 0..255 PROVE Encoded(e, t)[1] = 1
BY LiteralCode

\* A code that is a reference's
IsReference(code, t, w, l) ==
    /\ code \in Seq({0, 1})
    /\ Len(code) = 1 + w + l
    /\ code[1] = 0
    /\ \A j \in 1..w : code[1 + j] = ((t.index - 1) \div Power[w - j]) % 2
    /\ \A j \in 1..l : code[1 + w + j] = ((t.count - 1) \div Power[l - j]) % 2

LEMMA BackRefCode ==
    ASSUME NEW e, e.window \in 1..30, e.lookahead \in 1..30,
           NEW t, t.back = TRUE, t.index - 1 \in Nat, t.count - 1 \in Nat
    PROVE  IsReference(Encoded(e, t), t, e.window, e.lookahead)
<1>. DEFINE at == Bits(t.index - 1, e.window)
            of == Bits(t.count - 1, e.lookahead)
            w == e.window
            l == e.lookahead
<1>1. at \in Seq({0, 1}) /\ Len(at) = w
      /\ \A j \in 1..w : at[j] = ((t.index - 1) \div Power[w - j]) % 2
  BY BitsAre, Zenon
<1>2. of \in Seq({0, 1}) /\ Len(of) = l
      /\ \A j \in 1..l : of[j] = ((t.count - 1) \div Power[l - j]) % 2
  BY BitsAre, Zenon
<1>. DEFINE code == <<0>> \o at \o of
<1>3. Encoded(e, t) = code
  BY Zenon DEF Encoded
<1>4. w \in 1..30 /\ l \in 1..30
  OBVIOUS
<1>. HIDE DEF at, of, w, l
<1>5. /\ code \in Seq({0, 1}) /\ Len(code) = 1 + w + l /\ code[1] = 0
      /\ \A j \in 1..w : code[1 + j] = at[j]
      /\ \A j \in 1..l : code[1 + w + j] = of[j]
  <2>. DEFINE tail == at \o of
  <2>1. tail \in Seq({0, 1}) /\ Len(tail) = w + l
        /\ (\A j \in 1..w : tail[j] = at[j]) /\ (\A j \in 1..l : tail[w + j] = of[j])
    <3>1. IsJoined({0, 1}, tail, at, w, of, l)
      BY <1>1, <1>2, Joined, Zenon
    <3>2. QED
      BY <3>1, Zenon DEF IsJoined
  <2>2. code = <<0>> \o tail
    BY <1>1, <1>2
  <2>. HIDE DEF tail, code
  <2>3. 0 \in {0, 1} /\ w \in Nat /\ l \in Nat
    BY <1>4
  <2>4. code \in Seq({0, 1}) /\ Len(code) = 1 + (w + l) /\ code[1] = 0
        /\ \A j \in 1..(w + l) : code[1 + j] = tail[j]
    <3>1. 0 \in {0, 1} /\ 1 \in 1..1 /\ <<0>>[1] = 0
      OBVIOUS
    <3>2. IsJoined({0, 1}, code, <<0>>, 1, tail, w + l)
      BY <2>1, <2>2, <3>1, JoinedOne, Zenon
    <3>3. QED
      BY <3>1, <3>2, Zenon DEF IsJoined
  <2>5. \A j \in 1..w : j \in 1..(w + l)
    BY <2>3
  <2>6. \A j \in 1..l : w + j \in 1..(w + l) /\ 1 + (w + j) = 1 + w + j
    BY <2>3
  <2>7. 1 + (w + l) = 1 + w + l
    BY <2>3
  <2>8. \A j \in 1..w : code[1 + j] = at[j]
    BY <2>1, <2>4, <2>5, Zenon
  <2>9. \A j \in 1..l : code[1 + w + j] = of[j]
    <3>. TAKE j \in 1..l
    <3>1. code[1 + (w + j)] = tail[w + j] /\ tail[w + j] = of[j]
      BY <2>1, <2>4, <2>6, Zenon
    <3>2. 1 + (w + j) = 1 + w + j
      BY <2>6, Zenon
    <3>3. QED
      BY <3>1, <3>2, Zenon
  <2>10. QED
    BY <2>4, <2>7, <2>8, <2>9, Zenon
<1>. HIDE DEF code
<1>6. /\ \A j \in 1..w : code[1 + j] = ((t.index - 1) \div Power[w - j]) % 2
      /\ \A j \in 1..l : code[1 + w + j] = ((t.count - 1) \div Power[l - j]) % 2
  BY <1>1, <1>2, <1>5, Zenon
<1>7. IsReference(code, t, w, l)
  BY <1>5, <1>6, Zenon DEF IsReference
<1>8. QED
  BY <1>3, <1>7, Zenon DEF w, l

LEMMA BackRefTag ==
    ASSUME NEW e, e.window \in 1..30, e.lookahead \in 1..30,
           NEW t, t.back = TRUE, t.index - 1 \in Nat, t.count - 1 \in Nat
    PROVE  Encoded(e, t)[1] = 0
<1>1. IsReference(Encoded(e, t), t, e.window, e.lookahead)
  BY BackRefCode, Zenon
<1>2. QED
  BY <1>1, Zenon DEF IsReference

LEMMA CodeTyped ==
    ASSUME NEW e, IsEncoding(e), NEW i \in 1..Len(e.tokens)
    PROVE  /\ Encoded(e, e.tokens[i]) \in Seq({0, 1})
           /\ Len(Encoded(e, e.tokens[i])) \in Nat
           /\ Len(Encoded(e, e.tokens[i])) >= 1
<1>. DEFINE t == e.tokens[i]
            code == Encoded(e, t)
<1>1. CASE t.back = FALSE
  <2>1. t.byte \in 0..255
    BY TokenIs
  <2>2. code \in Seq({0, 1}) /\ Len(code) = 9
    BY <1>1, <2>1, LiteralCode, Zenon
  <2>3. QED
    BY <2>2
<1>2. CASE t.back = TRUE
  <2>1. e.window \in 1..30 /\ e.lookahead \in 1..30 /\ t.index - 1 \in Nat /\ t.count - 1 \in Nat
    <3>1. e.window \in 1..30 /\ e.lookahead \in 1..30
      BY DEF IsEncoding
    <3>2. t.back => t.index - 1 \in Nat /\ t.count - 1 \in Nat
      BY TokenIs, Zenon
    <3>3. QED
      BY <1>2, <3>1, <3>2
  <2>. DEFINE IsRef == IsReference(code, t, e.window, e.lookahead)
  <2>0. IsRef
    BY <1>2, <2>1, BackRefCode, Zenon
  <2>2. code \in Seq({0, 1}) /\ Len(code) = 1 + e.window + e.lookahead
    BY <2>0, Zenon DEF IsReference
  <2>. DEFINE w == e.window
              l == e.lookahead
  <2>3. w \in 1..30 /\ l \in 1..30
    BY <2>1
  <2>. HIDE DEF code, w, l
  <2>4. 1 + w + l \in Nat /\ 1 + w + l >= 1
    BY <2>3
  <2>5. QED
    BY <2>2, <2>4, Zenon DEF code, w, l
<1>3. t.back \in BOOLEAN
  BY TokenIs
<1>4. QED
  BY <1>1, <1>2, <1>3

LEMMA CodesAre ==
    ASSUME NEW e, IsEncoding(e)
    PROVE  /\ Codes(e, 0) = << >>
           /\ \A i \in 1..Len(e.tokens) : Codes(e, i) = Codes(e, i - 1) \o Encoded(e, e.tokens[i])
           /\ \A i \in 0..Len(e.tokens) : Codes(e, i) \in Seq({0, 1})
<1>. DEFINE N == Len(e.tokens)
            X == Seq({0, 1})
            code(i) == Encoded(e, e.tokens[i])
            E(g) == [i \in 0..Len(e.tokens) |->
                        IF i = 0 THEN << >> ELSE g[i - 1] \o Encoded(e, e.tokens[i])]
            step == [a \in (1..N) \X X |-> a[2] \o code(a[1])]
            codes == CHOOSE h : h = E(h)
<1>1. N \in Nat
  BY DEF IsEncoding
<1>2. \A i \in 1..N : code(i) \in X
  BY CodeTyped
<1>3. PICK g \in [0..N -> X] : g[0] = << >> /\ \A i \in 1..N : g[i] = step[<<i, g[i - 1]>>]
  <2>. DEFINE base == << >>
  <2>1. base \in X
    OBVIOUS
  <2>2. step \in [(1..N) \X X -> X]
    <3>. HIDE DEF code, N
    <3>1. ASSUME NEW i \in 1..N, NEW s \in X PROVE s \o code(i) \in X
      BY <1>2
    <3>. HIDE DEF X
    <3>2. QED
      BY <3>1
  <2>. HIDE DEF step, N, base, X
  <2>3. Ladders(N, X, base, step) # {}
    BY <1>1, <2>1, <2>2, Recursion
  <2>4. QED
    BY <2>3 DEF base, Ladders
<1>4. \A i \in 1..N : g[i - 1] \in X /\ g[i] = g[i - 1] \o code(i)
  <2>. TAKE i \in 1..N
  <2>. HIDE DEF code, X
  <2>1. g[i - 1] \in X
    <3>. HIDE DEF N
    <3>1. QED
      BY <1>1
  <2>2. step[<<i, g[i - 1]>>] = g[i - 1] \o code(i)
    BY <2>1
  <2>3. QED
    BY <1>3, <2>1, <2>2, Zenon
<1>5. g = E(g)
  <2>. HIDE DEF X
  <2>1. g \in [0..N -> X] /\ g[0] = << >> /\ \A i \in 1..N : g[i] = g[i - 1] \o code(i)
    BY <1>3, <1>4, Zenon
  <2>. DEFINE r(i) == g[i - 1] \o code(i)
  <2>2. E(g) = [i \in 0..N |-> IF i = 0 THEN << >> ELSE r(i)]
    BY Zenon
  <2>. HIDE DEF N, E
  <2>3. \A i \in 0..N : g[i] = IF i = 0 THEN << >> ELSE r(i)
    <3>. TAKE i \in 0..N
    <3>1. CASE i = 0
      BY <2>1, <3>1
    <3>2. CASE i # 0
      <4>1. i \in 1..N
        BY <1>1, <3>2
      <4>2. QED
        BY <2>1, <3>2, <4>1, Zenon
    <3>3. QED
      BY <3>1, <3>2
  <2>. HIDE DEF r
  <2>4. g = [i \in 0..N |-> IF i = 0 THEN << >> ELSE r(i)]
    BY <2>1, <2>3
  <2>5. QED
    BY <2>2, <2>4, Zenon
<1>6. codes = E(codes)
  <2>. HIDE DEF E
  <2>1. QED
    BY <1>5, Zenon
<1>7. \A i : Codes(e, i) = codes[i]
  BY Zenon DEF Codes
<1>. HIDE DEF codes
<1>8. codes[0] = << >> /\ \A i \in 1..N : codes[i] = codes[i - 1] \o code(i)
  <2>. DEFINE r(i) == codes[i - 1] \o code(i)
  <2>1. codes = [i \in 0..N |-> IF i = 0 THEN << >> ELSE r(i)]
    BY <1>6, Zenon
  <2>. HIDE DEF N, r
  <2>2. codes[0] = << >> /\ \A i \in 1..N : codes[i] = r(i)
    BY <1>1, <2>1
  <2>3. QED
    BY <2>2, Zenon DEF r
<1>. DEFINE S == {i \in 0..N : codes[i] \in X}
<1>9. 0..N \subseteq S
  <2>. HIDE DEF N, code
  <2>1. 0 \in S
    <3>1. 0 \in 0..N
      BY <1>1
    <3>2. << >> \in X
      OBVIOUS
    <3>. HIDE DEF X
    <3>3. QED
      BY <1>8, <3>1, <3>2
  <2>2. ASSUME NEW i \in 1..N, i - 1 \in S PROVE i \in S
    <3>1. i \in 0..N
      BY <1>1
    <3>2. codes[i - 1] \in X /\ code(i) \in X
      BY <1>2, <2>2
    <3>3. codes[i - 1] \o code(i) \in X
      BY <3>2
    <3>4. QED
      BY <1>8, <3>1, <3>3
  <2>. HIDE DEF S
  <2>3. QED
    BY <1>1, <2>1, <2>2, Upwards
<1>10. QED
  BY <1>7, <1>8, <1>9

LEMMA BackIsNat ==
    ASSUME NEW out \in Seq(Nat), NEW d \in Nat, d >= 1 PROVE Back(out, d) \in Nat
BY DEF Back

LEMMA CopiesAre ==
    ASSUME NEW out \in Seq(Nat), NEW t, t.count \in Nat, t.index \in Nat, t.index >= 1
    PROVE  /\ Copied(out, t, 0) = out
           /\ \A k \in 1..t.count :
                 Copied(out, t, k) = Append(Copied(out, t, k - 1), Back(Copied(out, t, k - 1), t.index))
           /\ \A k \in 0..t.count : Copied(out, t, k) \in Seq(Nat)
<1>. DEFINE N == t.count
            d == t.index
            X == Seq(Nat)
            More1(s) == Append(s, Back(s, d))
            E(g) == [k \in 0..t.count |->
                        IF k = 0 THEN out ELSE Append(g[k - 1], Back(g[k - 1], t.index))]
            step == [a \in (1..N) \X X |-> More1(a[2])]
            copied == CHOOSE h : h = E(h)
<1>1. N \in Nat /\ out \in X
  OBVIOUS
<1>2. \A s \in X : More1(s) \in X
  <2>. TAKE s \in X
  <2>1. Back(s, d) \in Nat
    BY BackIsNat
  <2>2. QED
    BY <2>1
<1>. HIDE DEF More1
<1>3. PICK g \in [0..N -> X] : g[0] = out /\ \A k \in 1..N : g[k] = step[<<k, g[k - 1]>>]
  <2>1. step \in [(1..N) \X X -> X]
    <3>. HIDE DEF X, N
    <3>1. QED
      BY <1>2
  <2>. HIDE DEF step, N, X
  <2>2. Ladders(N, X, out, step) # {}
    BY <1>1, <2>1, Recursion
  <2>3. QED
    BY <2>2 DEF Ladders
<1>4. \A k \in 1..N : g[k - 1] \in X /\ g[k] = More1(g[k - 1])
  <2>. TAKE k \in 1..N
  <2>. HIDE DEF X
  <2>1. g[k - 1] \in X
    <3>. HIDE DEF N
    <3>1. QED
      BY <1>1
  <2>2. step[<<k, g[k - 1]>>] = More1(g[k - 1])
    BY <2>1
  <2>3. QED
    BY <1>3, <2>1, <2>2, Zenon
<1>5. g = E(g)
  <2>. HIDE DEF X
  <2>1. g \in [0..N -> X] /\ g[0] = out /\ \A k \in 1..N : g[k] = More1(g[k - 1])
    BY <1>3, <1>4, Zenon
  <2>. DEFINE r(k) == More1(g[k - 1])
  <2>2. E(g) = [k \in 0..N |-> IF k = 0 THEN out ELSE r(k)]
    BY Zenon DEF More1
  <2>. HIDE DEF N, E
  <2>3. \A k \in 0..N : g[k] = IF k = 0 THEN out ELSE r(k)
    <3>. TAKE k \in 0..N
    <3>1. CASE k = 0
      BY <2>1, <3>1
    <3>2. CASE k # 0
      <4>1. k \in 1..N
        BY <1>1, <3>2
      <4>2. QED
        BY <2>1, <3>2, <4>1, Zenon
    <3>3. QED
      BY <3>1, <3>2
  <2>. HIDE DEF r
  <2>4. g = [k \in 0..N |-> IF k = 0 THEN out ELSE r(k)]
    BY <2>1, <2>3
  <2>5. QED
    BY <2>2, <2>4, Zenon
<1>6. copied = E(copied)
  <2>. HIDE DEF E
  <2>1. QED
    BY <1>5, Zenon
<1>7. \A k : Copied(out, t, k) = copied[k]
  BY Zenon DEF Copied, Again
<1>. HIDE DEF copied
<1>8. copied[0] = out /\ \A k \in 1..N : copied[k] = More1(copied[k - 1])
  <2>. DEFINE r(k) == More1(copied[k - 1])
  <2>1. copied = [k \in 0..N |-> IF k = 0 THEN out ELSE r(k)]
    BY <1>6, Zenon DEF More1
  <2>. HIDE DEF N, r
  <2>2. copied[0] = out /\ \A k \in 1..N : copied[k] = r(k)
    BY <1>1, <2>1
  <2>3. QED
    BY <2>2, Zenon DEF r
<1>. DEFINE S == {k \in 0..N : copied[k] \in X}
<1>9. 0..N \subseteq S
  <2>. HIDE DEF N, X
  <2>1. 0 \in S
    BY <1>1, <1>8
  <2>2. ASSUME NEW k \in 1..N, k - 1 \in S PROVE k \in S
    <3>1. k \in 0..N
      BY <1>1
    <3>2. QED
      BY <1>2, <1>8, <2>2, <3>1
  <2>. HIDE DEF S
  <2>3. QED
    BY <1>1, <2>1, <2>2, Upwards
<1>10. QED
  BY <1>7, <1>8, <1>9, Zenon DEF More1

LEMMA WithTyped ==
    ASSUME NEW out \in Seq(Nat), NEW t, t.back \in BOOLEAN, t.byte \in 0..255, t.count \in Nat,
           t.back => t.index \in Nat /\ t.index >= 1
    PROVE  With(out, t) \in Seq(Nat)
<1>1. CASE t.back
  <2>1. t.count \in 0..t.count
    OBVIOUS
  <2>2. Copied(out, t, t.count) \in Seq(Nat)
    BY <1>1, <2>1, CopiesAre, Zenon
  <2>3. QED
    BY <1>1, <2>2, Zenon DEF With
<1>2. CASE ~t.back
  <2>0. \A x \in 0..255 : x \in Nat
    OBVIOUS
  <2>1. t.byte \in Nat
    BY <2>0, Zenon
  <2>2. Append(out, t.byte) \in Seq(Nat)
    BY <2>1
  <2>3. QED
    BY <1>2, <2>2, Zenon DEF With
<1>3. QED
  BY <1>1, <1>2

LEMMA ExpansionIs ==
    ASSUME NEW e, IsEncoding(e)
    PROVE  /\ Expansion(e.tokens, 0) = << >>
           /\ \A i \in 1..Len(e.tokens) :
                 Expansion(e.tokens, i) = With(Expansion(e.tokens, i - 1), e.tokens[i])
           /\ \A i \in 0..Len(e.tokens) : Expansion(e.tokens, i) \in Seq(Nat)
<1>. DEFINE N == Len(e.tokens)
            X == Seq(Nat)
            Step(s, i) == With(s, e.tokens[i])
            E(g) == [i \in 0..Len(e.tokens) |->
                        IF i = 0 THEN << >> ELSE With(g[i - 1], e.tokens[i])]
            step == [a \in (1..N) \X X |-> Step(a[2], a[1])]
            expansion == CHOOSE h : h = E(h)
<1>1. N \in Nat /\ << >> \in X
  BY DEF IsEncoding
<1>2. \A i \in 1..N : \A s \in X : Step(s, i) \in X
  <2>. TAKE i \in 1..N
  <2>. TAKE s \in X
  <2>1. /\ e.tokens[i].back \in BOOLEAN /\ e.tokens[i].byte \in 0..255 /\ e.tokens[i].count \in Nat
        /\ e.tokens[i].back => e.tokens[i].index \in Nat /\ e.tokens[i].index >= 1
    BY TokenIs, Zenon
  <2>. DEFINE t == e.tokens[i]
  <2>2. /\ t.back \in BOOLEAN /\ t.byte \in 0..255 /\ t.count \in Nat
        /\ t.back => t.index \in Nat /\ t.index >= 1
    BY <2>1, Zenon
  <2>. HIDE DEF t
  <2>3. With(s, t) \in Seq(Nat)
    BY <2>2, WithTyped
  <2>4. QED
    BY <2>3, Zenon DEF t
<1>. HIDE DEF Step
<1>3. PICK g \in [0..N -> X] : g[0] = << >> /\ \A i \in 1..N : g[i] = step[<<i, g[i - 1]>>]
  <2>1. step \in [(1..N) \X X -> X]
    <3>. HIDE DEF X, N
    <3>1. QED
      BY <1>2
  <2>. DEFINE base == << >>
  <2>2. base \in X
    BY <1>1
  <2>. HIDE DEF step, N, X, base
  <2>3. Ladders(N, X, base, step) # {}
    BY <1>1, <2>1, <2>2, Recursion
  <2>4. QED
    BY <2>3 DEF Ladders, base
<1>4. \A i \in 1..N : g[i - 1] \in X /\ g[i] = Step(g[i - 1], i)
  <2>. TAKE i \in 1..N
  <2>. HIDE DEF X
  <2>1. g[i - 1] \in X
    <3>. HIDE DEF N
    <3>1. QED
      BY <1>1
  <2>2. step[<<i, g[i - 1]>>] = Step(g[i - 1], i)
    BY <2>1
  <2>3. QED
    BY <1>3, <2>1, <2>2, Zenon
<1>5. g = E(g)
  <2>. HIDE DEF X
  <2>1. g \in [0..N -> X] /\ g[0] = << >> /\ \A i \in 1..N : g[i] = Step(g[i - 1], i)
    BY <1>3, <1>4, Zenon
  <2>. DEFINE r(i) == Step(g[i - 1], i)
  <2>2. E(g) = [i \in 0..N |-> IF i = 0 THEN << >> ELSE r(i)]
    BY Zenon DEF Step
  <2>. HIDE DEF N, E
  <2>3. \A i \in 0..N : g[i] = IF i = 0 THEN << >> ELSE r(i)
    <3>. TAKE i \in 0..N
    <3>1. CASE i = 0
      BY <2>1, <3>1
    <3>2. CASE i # 0
      <4>1. i \in 1..N
        BY <1>1, <3>2
      <4>2. QED
        BY <2>1, <3>2, <4>1, Zenon
    <3>3. QED
      BY <3>1, <3>2
  <2>. HIDE DEF r
  <2>4. g = [i \in 0..N |-> IF i = 0 THEN << >> ELSE r(i)]
    BY <2>1, <2>3
  <2>5. QED
    BY <2>2, <2>4, Zenon
<1>6. expansion = E(expansion)
  <2>. HIDE DEF E
  <2>1. QED
    BY <1>5, Zenon
<1>7. \A i : Expansion(e.tokens, i) = expansion[i]
  BY Zenon DEF Expansion
<1>. HIDE DEF expansion
<1>8. expansion[0] = << >> /\ \A i \in 1..N : expansion[i] = Step(expansion[i - 1], i)
  <2>. DEFINE r(i) == Step(expansion[i - 1], i)
  <2>1. expansion = [i \in 0..N |-> IF i = 0 THEN << >> ELSE r(i)]
    BY <1>6, Zenon DEF Step
  <2>. HIDE DEF N, r
  <2>2. expansion[0] = << >> /\ \A i \in 1..N : expansion[i] = r(i)
    BY <1>1, <2>1
  <2>3. QED
    BY <2>2, Zenon DEF r
<1>. DEFINE S == {i \in 0..N : expansion[i] \in X}
<1>9. 0..N \subseteq S
  <2>. HIDE DEF N, X
  <2>1. 0 \in S
    BY <1>1, <1>8
  <2>2. ASSUME NEW i \in 1..N, i - 1 \in S PROVE i \in S
    <3>1. i \in 0..N
      BY <1>1
    <3>2. QED
      BY <1>2, <1>8, <2>2, <3>1
  <2>. HIDE DEF S
  <2>3. QED
    BY <1>1, <2>1, <2>2, Upwards
<1>10. QED
  BY <1>7, <1>8, <1>9, Zenon DEF Step

\* The sequence s begins with p.
BeginsWith(s, p) == Len(p) <= Len(s) /\ \A j \in 1..Len(p) : s[j] = p[j]

LEMMA BeginsSelf == ASSUME NEW X, NEW s \in Seq(X) PROVE BeginsWith(s, s)
BY DEF BeginsWith

LEMMA BeginsBegins ==
    ASSUME NEW X, NEW s \in Seq(X), NEW p \in Seq(X), NEW q \in Seq(X),
           BeginsWith(s, p), BeginsWith(p, q)
    PROVE  BeginsWith(s, q)
<1>1. Len(s) \in Nat /\ Len(p) \in Nat /\ Len(q) \in Nat
  OBVIOUS
<1>2. Len(q) <= Len(s)
  BY <1>1 DEF BeginsWith
<1>3. ASSUME NEW j \in 1..Len(q) PROVE s[j] = q[j]
  <2>1. j \in 1..Len(p)
    BY <1>1 DEF BeginsWith
  <2>2. p[j] = q[j]
    BY Zenon DEF BeginsWith
  <2>3. s[j] = p[j]
    BY <2>1, Zenon DEF BeginsWith
  <2>4. QED
    BY <2>2, <2>3
<1>4. QED
  BY <1>2, <1>3 DEF BeginsWith

LEMMA BeginsAppended ==
    ASSUME NEW X, NEW s \in Seq(X), NEW x \in X PROVE BeginsWith(Append(s, x), s)
BY DEF BeginsWith

LEMMA BeginsJoined ==
    ASSUME NEW X, NEW s \in Seq(X), NEW u \in Seq(X) PROVE BeginsWith(s \o u, s)
BY DEF BeginsWith

\* Where each begins with the one before, each begins with all before.
LEMMA BeginsAll ==
    ASSUME NEW n \in Nat, NEW X, NEW f \in [0..n -> Seq(X)],
           \A k \in 1..n : BeginsWith(f[k], f[k - 1])
    PROVE  \A k \in 0..n : \A j \in 0..k : BeginsWith(f[k], f[j])
<1>. DEFINE S == {k \in 0..n : \A j \in 0..k : BeginsWith(f[k], f[j])}
<1>1. 0 \in S
  <2>1. f[0] \in Seq(X) /\ 0 \in 0..n
    OBVIOUS
  <2>2. BeginsWith(f[0], f[0])
    BY <2>1, BeginsSelf, Zenon
  <2>3. \A j \in 0..0 : j = 0
    OBVIOUS
  <2>4. QED
    BY <2>1, <2>2, <2>3, Zenon
<1>2. ASSUME NEW k \in 1..n, k - 1 \in S PROVE k \in S
  <2>1. k \in 0..n /\ k - 1 \in 0..n
    OBVIOUS
  <2>2. ASSUME NEW j \in 0..k PROVE BeginsWith(f[k], f[j])
    <3>1. j \in 0..n
      BY <2>1
    <3>2. f[k] \in Seq(X) /\ f[k - 1] \in Seq(X) /\ f[j] \in Seq(X)
      BY <2>1, <3>1
    <3>3. CASE j = k
      BY <3>2, <3>3, BeginsSelf, Zenon
    <3>4. CASE j # k
      <4>1. j \in 0..(k - 1)
        BY <2>1, <3>4
      <4>2. BeginsWith(f[k - 1], f[j])
        BY <1>2, <4>1
      <4>3. BeginsWith(f[k], f[k - 1])
        OBVIOUS
      <4>4. QED
        BY <3>2, <4>2, <4>3, BeginsBegins, Zenon
    <3>5. QED
      BY <3>3, <3>4
  <2>3. QED
    BY <2>1, <2>2
<1>. HIDE DEF S
<1>3. 0..n \subseteq S
  BY <1>1, <1>2, Upwards
<1>4. QED
  BY <1>3 DEF S

LEMMA CopiesGrow ==
    ASSUME NEW out \in Seq(Nat), NEW t, t.count \in Nat, t.index \in Nat, t.index >= 1
    PROVE  \A k \in 0..t.count : \A j \in 0..k : BeginsWith(Copied(out, t, k), Copied(out, t, j))
<1>. DEFINE n == t.count
            f == [k \in 0..n |-> Copied(out, t, k)]
            X == Nat
<1>1. \A k \in 0..n : Copied(out, t, k) \in Seq(X)
  BY CopiesAre, Zenon
<1>2. f \in [0..n -> Seq(X)]
  BY <1>1, Zenon
<1>3. ASSUME NEW k \in 1..n PROVE BeginsWith(Copied(out, t, k), Copied(out, t, k - 1))
  <2>1. k - 1 \in 0..n
    OBVIOUS
  <2>. DEFINE s == Copied(out, t, k - 1)
              x == Back(s, t.index)
  <2>2. s \in Seq(X)
    BY <1>1, <2>1, Zenon
  <2>3. x \in X
    BY <2>2, BackIsNat, Zenon
  <2>4. Copied(out, t, k) = Append(s, x)
    BY CopiesAre, Zenon
  <2>5. QED
    BY <2>2, <2>3, <2>4, BeginsAppended, Zenon
<1>4. ASSUME NEW k \in 1..n PROVE BeginsWith(f[k], f[k - 1])
  <2>1. k \in 0..n /\ k - 1 \in 0..n
    OBVIOUS
  <2>2. f[k] = Copied(out, t, k) /\ f[k - 1] = Copied(out, t, k - 1)
    BY <2>1, Zenon
  <2>3. QED
    BY <1>3, <2>2, Zenon
<1>. HIDE DEF f
<1>5. n \in Nat
  OBVIOUS
<1>6. \A k \in 0..n : \A j \in 0..k : BeginsWith(f[k], f[j])
  <2>. HIDE DEF n, X
  <2>1. QED
    BY <1>2, <1>4, <1>5, BeginsAll, Zenon
<1>7. ASSUME NEW k \in 0..n, NEW j \in 0..k PROVE BeginsWith(Copied(out, t, k), Copied(out, t, j))
  <2>1. j \in 0..n
    OBVIOUS
  <2>2. QED
    BY <1>6, <2>1, Zenon DEF f
<1>8. QED
  BY <1>7

LEMMA WithGrows ==
    ASSUME NEW out \in Seq(Nat), NEW t, t.back \in BOOLEAN, t.byte \in 0..255, t.count \in Nat,
           t.back => t.index \in Nat /\ t.index >= 1
    PROVE  BeginsWith(With(out, t), out)
<1>1. CASE t.back
  <2>1. t.count \in 0..t.count /\ 0 \in 0..t.count
    OBVIOUS
  <2>2. BeginsWith(Copied(out, t, t.count), Copied(out, t, 0)) /\ Copied(out, t, 0) = out
    BY <1>1, <2>1, CopiesGrow, CopiesAre, Zenon
  <2>3. QED
    BY <1>1, <2>2, Zenon DEF With
<1>2. CASE ~t.back
  <2>0. \A x \in 0..255 : x \in Nat
    OBVIOUS
  <2>1. BeginsWith(Append(out, t.byte), out)
    BY <2>0, BeginsAppended, Zenon
  <2>2. QED
    BY <1>2, <2>1, Zenon DEF With
<1>3. QED
  BY <1>1, <1>2

LEMMA ExpansionGrows ==
    ASSUME NEW e, IsEncoding(e)
    PROVE  \A k \in 0..Len(e.tokens) : \A j \in 0..k :
              BeginsWith(Expansion(e.tokens, k), Expansion(e.tokens, j))
<1>. DEFINE n == Len(e.tokens)
            F(k) == Expansion(e.tokens, k)
            f == [k \in 0..n |-> F(k)]
            X == Nat
<1>1. n \in Nat
  BY DEF IsEncoding
<1>2. \A k \in 0..n : F(k) \in Seq(X)
  BY ExpansionIs, Zenon
<1>3. ASSUME NEW k \in 1..n PROVE BeginsWith(F(k), F(k - 1))
  <2>1. k - 1 \in 0..n
    BY <1>1
  <2>. DEFINE s == F(k - 1)
              t == e.tokens[k]
  <2>2. s \in Seq(Nat)
    BY <1>2, <2>1, Zenon
  <2>3. /\ t.back \in BOOLEAN /\ t.byte \in 0..255 /\ t.count \in Nat
        /\ t.back => t.index \in Nat /\ t.index >= 1
    BY TokenIs, Zenon
  <2>4. F(k) = With(s, t)
    BY ExpansionIs, Zenon
  <2>. HIDE DEF s, t, F
  <2>5. BeginsWith(With(s, t), s)
    BY <2>2, <2>3, WithGrows
  <2>6. QED
    BY <2>4, <2>5, Zenon DEF s
<1>. HIDE DEF F
<1>4. f \in [0..n -> Seq(X)]
  BY <1>2, Zenon
<1>5. ASSUME NEW k \in 1..n PROVE BeginsWith(f[k], f[k - 1])
  <2>1. k \in 0..n /\ k - 1 \in 0..n
    BY <1>1
  <2>2. f[k] = F(k) /\ f[k - 1] = F(k - 1)
    BY <2>1, Zenon
  <2>3. QED
    BY <1>3, <2>2, Zenon
<1>. HIDE DEF f
<1>6. \A k \in 0..n : \A j \in 0..k : BeginsWith(f[k], f[j])
  <2>. HIDE DEF n, X
  <2>1. QED
    BY <1>1, <1>4, <1>5, BeginsAll, Zenon
<1>7. ASSUME NEW k \in 0..n, NEW j \in 0..k PROVE BeginsWith(F(k), F(j))
  <2>1. j \in 0..n
    BY <1>1
  <2>2. QED
    BY <1>6, <2>1, Zenon DEF f
<1>8. QED
  BY <1>7, Zenon DEF F

\* Where the code of a token begins, less one
Start(e, i) == Len(Codes(e, i - 1))

\* The data has the code of each token behind that of the one before.
LEMMA DataIs ==
    ASSUME NEW e, IsEncoding(e)
    PROVE  /\ Data(e) \in Seq({0, 1})
           /\ Len(EncodedTokens(e)) \in Nat /\ Len(EncodedTokens(e)) <= Len(Data(e))
           /\ Len(EncodedTokens(e)) = Len(Data(e)) => Padding(e) = << >> /\ e.after = << >>
           /\ \A j \in 1..Len(EncodedTokens(e)) : Data(e)[j] = EncodedTokens(e)[j]
<1>. DEFINE N == Len(e.tokens)
            X == {0, 1}
            c == EncodedTokens(e)
            p == Padding(e)
            a == e.after
<1>1. N \in Nat /\ N \in 0..N /\ a \in Seq(X)
  BY DEF IsEncoding
<1>2. c \in Seq(X)
  BY <1>1, CodesAre, Zenon DEF EncodedTokens
<1>3. p \in Seq(X)
  <2>. DEFINE m == (-Len(c)) % 8
  <2>1. m \in Nat
    <3>. DEFINE l == Len(c)
    <3>1. l \in Nat
      BY <1>2
    <3>. HIDE DEF l
    <3>2. (-l) % 8 \in Nat
      BY <3>1
    <3>3. QED
      BY <3>2 DEF l
  <2>2. p = [i \in 1..m |-> 0]
    BY Zenon DEF Padding
  <2>. HIDE DEF m
  <2>3. [i \in 1..m |-> 0] \in Seq(X)
    BY <2>1
  <2>4. QED
    BY <2>2, <2>3, Zenon
<1>4. Data(e) = (c \o p) \o a
  BY DEF Data
<1>. HIDE DEF c, p, a, X
<1>5. c \o p \in Seq(X) /\ BeginsWith(c \o p, c)
  BY <1>2, <1>3, BeginsJoined
<1>6. (c \o p) \o a \in Seq(X) /\ BeginsWith((c \o p) \o a, c \o p)
  <2>. DEFINE s == c \o p
  <2>1. s \in Seq(X)
    BY <1>5
  <2>. HIDE DEF s
  <2>2. s \o a \in Seq(X)
    BY <1>1, <2>1
  <2>3. BeginsWith(s \o a, s)
    BY <1>1, <2>1, BeginsJoined
  <2>4. QED
    BY <2>2, <2>3, Zenon DEF s
<1>7. BeginsWith((c \o p) \o a, c)
  BY <1>2, <1>5, <1>6, BeginsBegins, Zenon
<1>8. Len((c \o p) \o a) = Len(c) + Len(p) + Len(a) /\ Len(c) \in Nat /\ Len(p) \in Nat /\ Len(a) \in Nat
  BY <1>1, <1>2, <1>3, <1>5
<1>9. Len((c \o p) \o a) = Len(c) => p = << >> /\ a = << >>
  BY <1>1, <1>3, <1>8
<1>10. Data(e) \in Seq(X) /\ BeginsWith(Data(e), c) /\ Len(c) \in Nat
  BY <1>4, <1>6, <1>7, <1>8, Zenon
<1>11. Len(c) = Len(Data(e)) => p = << >> /\ a = << >>
  BY <1>4, <1>9, Zenon
<1>12. QED
  BY <1>10, <1>11, Zenon DEF BeginsWith, X, c, p, a

LEMMA CodeAt ==
    ASSUME NEW e, IsEncoding(e), NEW i \in 1..Len(e.tokens)
    PROVE  /\ Start(e, i) \in Nat
           /\ Start(e, i) + Len(Encoded(e, e.tokens[i])) = Len(Codes(e, i))
           /\ Len(Codes(e, i)) <= Len(EncodedTokens(e))
           /\ \A j \in 1..Len(Encoded(e, e.tokens[i])) :
                 Data(e)[Start(e, i) + j] = Encoded(e, e.tokens[i])[j]
<1>. DEFINE N == Len(e.tokens)
            X == {0, 1}
            f == [k \in 0..N |-> Codes(e, k)]
            code == Encoded(e, e.tokens[i])
<1>1. N \in Nat /\ N \in 0..N /\ i \in 0..N /\ i - 1 \in 0..N /\ i \in 0..N
  BY DEF IsEncoding
<1>2. \A k \in 0..N : Codes(e, k) \in Seq(X)
  BY CodesAre, Zenon
<1>3. \A k \in 1..N : Codes(e, k) = Codes(e, k - 1) \o Encoded(e, e.tokens[k])
  BY CodesAre, Zenon
<1>4. \A k \in 1..N : Encoded(e, e.tokens[k]) \in Seq(X)
  BY CodeTyped, Zenon
<1>. HIDE DEF X
<1>5. f \in [0..N -> Seq(X)]
  BY <1>2, Zenon
<1>6. ASSUME NEW k \in 1..N PROVE BeginsWith(f[k], f[k - 1])
  <2>1. k \in 0..N /\ k - 1 \in 0..N
    BY <1>1
  <2>2. f[k] = Codes(e, k) /\ f[k - 1] = Codes(e, k - 1)
    BY <2>1, Zenon
  <2>3. BeginsWith(Codes(e, k - 1) \o Encoded(e, e.tokens[k]), Codes(e, k - 1))
    BY <1>2, <1>4, <2>1, BeginsJoined, Zenon
  <2>4. QED
    BY <1>3, <2>2, <2>3, Zenon
<1>. HIDE DEF f
<1>7. \A k \in 0..N : \A j \in 0..k : BeginsWith(f[k], f[j])
  <2>. HIDE DEF N
  <2>1. QED
    BY <1>1, <1>5, <1>6, BeginsAll, Zenon
<1>8. BeginsWith(EncodedTokens(e), Codes(e, i))
  BY <1>1, <1>7, Zenon DEF f, EncodedTokens
<1>. DEFINE s == Codes(e, i - 1)
            l == Len(code)
            c == Codes(e, i)
<1>9. s \in Seq(X) /\ code \in Seq(X) /\ c = s \o code
  BY <1>1, <1>2, <1>3, <1>4, Zenon
<1>. HIDE DEF s, code, N, c
<1>10. Len(s) \in Nat /\ l \in Nat /\ Len(c) = Len(s) + l /\ \A j \in 1..l : c[Len(s) + j] = code[j]
  BY <1>9
<1>11. \A j \in 1..l : Len(s) + j \in 1..Len(c)
  <2>. HIDE DEF l
  <2>1. QED
    BY <1>10
<1>12. Len(c) <= Len(EncodedTokens(e)) /\ \A j \in 1..Len(c) : EncodedTokens(e)[j] = c[j]
  BY <1>8, Zenon DEF BeginsWith, c
<1>13. Len(EncodedTokens(e)) \in Nat
  BY DataIs, Zenon
<1>14. \A j \in 1..Len(c) : j \in 1..Len(EncodedTokens(e))
  BY <1>10, <1>12, <1>13
<1>15. \A j \in 1..Len(c) : Data(e)[j] = c[j]
  BY <1>12, <1>14, DataIs, Zenon
<1>16. \A j \in 1..l : Data(e)[Len(s) + j] = code[j]
  BY <1>10, <1>11, <1>15, Zenon
<1>17. QED
  BY <1>10, <1>12, <1>16, Zenon DEF Start, s, c, code

-----------------------------------------------------------------------------
(* HeatshrinkDecoder: what the decoder knows at each of its states.        *)

\* The high part of a number that is read in two, and the bits it has
High(width, n) == IF width > 8 THEN 256 * (n \div 256) ELSE 0

HighBits(width) == IF width > 8 THEN width - 8 ELSE 0

\* The window holds the last bytes put out, zeros before the first.
Ring ==
    \A d \in 1..Power[encoding.window] :
        WindowAt((head - d + Power[encoding.window]) % Power[encoding.window]) = Back(output, d)

HsTyped ==
    /\ IsEncoding(encoding)
    /\ position \in 0..Len(Data(encoding))
    /\ \A p \in DOMAIN window : window[p] \in Nat
    /\ head \in 0..(Power[encoding.window] - 1)
    /\ output \in Seq(Nat)
    /\ Ring

\* What was put out before token i
OutBefore(i) == Expansion(encoding.tokens, i - 1)

\* Inside the code of token i, at its tag or its byte
HsAtByte(i) ==
    /\ output = OutBefore(i)
    /\ \/ hsState = "tag" /\ position = Start(encoding, i)
       \/ /\ hsState = "literal" /\ position = Start(encoding, i) + 1
          /\ ~encoding.tokens[i].back

\* Inside a reference
HsInReference(i) ==
    LET t == encoding.tokens[i]
        w == encoding.window
        l == encoding.lookahead
        o == Start(encoding, i) + 1
    IN  /\ t.back
        /\ output = OutBefore(i)
        /\ \/ hsState = "indexMSB" /\ position = o /\ w > 8
           \/ hsState = "indexLSB" /\ position = o + HighBits(w) /\ index = High(w, t.index - 1)
           \/ hsState = "countMSB" /\ position = o + w /\ l > 8 /\ index = t.index - 1
           \/ /\ hsState = "countLSB" /\ position = o + w + HighBits(l)
              /\ index = t.index - 1 /\ count = High(l, t.count - 1)

\* Behind the reference, with count bytes of it still to copy
HsCopying(i) ==
    LET t == encoding.tokens[i]
    IN  /\ t.back
        /\ hsState = "yield"
        /\ position = Len(Codes(encoding, i))
        /\ index = t.index
        /\ count \in 1..t.count
        /\ output = Copied(OutBefore(i), t, t.count - count)

HsInside == \E i \in 1..Len(encoding.tokens) : HsAtByte(i) \/ HsInReference(i) \/ HsCopying(i)

\* All that was encoded has been put out.
HsDone == BeginsWith(output, Expanded(encoding))

\* The data has ended with a reference that was not copied to its end.
HsDropped ==
    /\ hsState = "stopped"
    /\ EndsInReference(encoding)
    /\ BeginsWith(Expanded(encoding), output)
    /\ BeginsWith(output, OutBefore(Len(encoding.tokens)))

\* There is a high part only of a number of more than eight bits.
HighParts ==
    /\ hsState = "indexMSB" => encoding.window > 8
    /\ hsState = "countMSB" => encoding.lookahead > 8

HsInv == HsTyped /\ HighParts /\ (HsInside \/ HsDone \/ HsDropped)

LEMMA WindowIs ==
    ASSUME NEW e, IsEncoding(e)
    PROVE  /\ e.window \in 1..30 /\ e.lookahead \in 1..30 /\ Len(e.tokens) \in Nat
           /\ Power[e.window] \in Nat /\ Power[e.window] > 0
           /\ Len(Data(e)) \in Nat
<1>1. e.window \in 1..30 /\ e.lookahead \in 1..30 /\ Len(e.tokens) \in Nat
  BY DEF IsEncoding
<1>2. e.window \in 0..30
  BY <1>1
<1>3. Data(e) \in Seq({0, 1})
  BY DataIs, Zenon
<1>4. Power[e.window] \in Nat /\ Power[e.window] > 0
  BY <1>2, PowerAt, Zenon
<1>5. Len(Data(e)) \in Nat
  <2>. DEFINE d == Data(e)
  <2>. HIDE DEF d
  <2>1. d \in Seq({0, 1}) => Len(d) \in Nat
    OBVIOUS
  <2>2. QED
    BY <1>3, <2>1 DEF d
<1>6. QED
  BY <1>1, <1>4, <1>5

-----------------------------------------------------------------------------
(* HeatshrinkDecoder: the window.                                          *)

\* Where a distance back from the head is in the window
LEMMA Behind ==
    ASSUME NEW W \in Nat, NEW h \in 0..(W - 1), NEW d \in 1..W
    PROVE  (h - d + W) % W = IF d <= h THEN h - d ELSE h - d + W
<1>1. CASE d <= h
  <2>. DEFINE x == h - d
  <2>1. x \in 0..(W - 1) /\ h - d + W = x + W
    BY <1>1
  <2>. HIDE DEF x
  <2>2. (x + W) % W = x
    BY <2>1, SMTT(30)
  <2>3. QED
    BY <1>1, <2>1, <2>2 DEF x
<1>2. CASE ~(d <= h)
  <2>. DEFINE x == h - d + W
  <2>1. x \in 0..(W - 1)
    BY <1>2
  <2>. HIDE DEF x
  <2>2. x % W = x
    BY <2>1
  <2>3. QED
    BY <1>2, <2>1, <2>2 DEF x
<1>3. QED
  BY <1>1, <1>2

LEMMA HeadNext ==
    ASSUME NEW W \in Nat, NEW h \in 0..(W - 1)
    PROVE  (h + 1) % W = IF h + 1 = W THEN 0 ELSE h + 1
<1>1. CASE h + 1 = W
  <2>1. W % W = 0
    BY SMTT(30)
  <2>2. QED
    BY <1>1, <2>1
<1>2. CASE h + 1 # W
  <2>. DEFINE x == h + 1
  <2>1. x \in 0..(W - 1)
    BY <1>2
  <2>. HIDE DEF x
  <2>2. x % W = x
    BY <2>1
  <2>3. QED
    BY <1>2, <2>2 DEF x
<1>3. QED
  BY <1>1, <1>2

\* The distances grow by one when the head goes on.
LEMMA BehindNext ==
    ASSUME NEW W \in Nat, NEW h \in 0..(W - 1), NEW d \in 1..W
    PROVE  /\ (h + 1) % W \in 0..(W - 1)
           /\ (((h + 1) % W) - 1 + W) % W = h
           /\ d > 1 => /\ d - 1 \in 1..W
                       /\ (((h + 1) % W) - d + W) % W = (h - (d - 1) + W) % W
                       /\ (h - (d - 1) + W) % W # h
<1>. DEFINE n == (h + 1) % W
<1>1. n = IF h + 1 = W THEN 0 ELSE h + 1
  BY HeadNext
<1>. HIDE DEF n
<1>2. n \in 0..(W - 1) /\ 1 \in 1..W
  BY <1>1
<1>3. (n - 1 + W) % W = IF 1 <= n THEN n - 1 ELSE n - 1 + W
  BY <1>2, Behind, Zenon
<1>4. (n - 1 + W) % W = h
  <2>. DEFINE r == (n - 1 + W) % W
  <2>. HIDE DEF r
  <2>1. r = IF 1 <= n THEN n - 1 ELSE n - 1 + W
    BY <1>3 DEF r
  <2>2. r = h
    BY <1>1, <2>1
  <2>3. QED
    BY <2>2 DEF r
<1>5. ASSUME d > 1
      PROVE  /\ d - 1 \in 1..W
             /\ (n - d + W) % W = (h - (d - 1) + W) % W
             /\ (h - (d - 1) + W) % W # h
  <2>. DEFINE c == d - 1
              r == (n - d + W) % W
              s == (h - c + W) % W
  <2>1. c \in 1..W /\ c < W /\ d = c + 1
    BY <1>5
  <2>. HIDE DEF c
  <2>2. s = IF c <= h THEN h - c ELSE h - c + W
    BY <2>1, Behind, Zenon
  <2>3. r = IF d <= n THEN n - d ELSE n - d + W
    BY <1>2, Behind, Zenon
  <2>. HIDE DEF r, s
  <2>4. r = s /\ s # h
    BY <1>1, <2>1, <2>2, <2>3
  <2>5. QED
    BY <2>1, <2>4 DEF r, s, c
<1>6. QED
  BY <1>2, <1>4, <1>5 DEF n

LEMMA RingBegins ==
    ASSUME NEW encodings, \A e \in encodings : IsEncoding(e), HeatshrinkInit(encodings)
    PROVE  Ring
<1>1. window = << >> /\ output = << >>
  BY DEF HeatshrinkInit
<1>2. ASSUME NEW p PROVE WindowAt(p) = 0
  <2>1. DOMAIN window = {}
    BY <1>1
  <2>2. QED
    BY <2>1 DEF WindowAt
<1>3. ASSUME NEW d \in 1..Power[encoding.window] PROVE Back(output, d) = 0
  <2>1. IsEncoding(encoding)
    BY DEF HeatshrinkInit
  <2>2. Power[encoding.window] \in Nat
    BY <2>1, WindowIs
  <2>3. d > 0
    BY <2>2
  <2>4. Len(output) = 0
    BY <1>1
  <2>5. QED
    BY <2>3, <2>4 DEF Back
<1>4. QED
  BY <1>2, <1>3, Zenon DEF Ring

\* A window is read by At.
At(win, p) == IF p \in DOMAIN win THEN win[p] ELSE 0

RingOf(W, win, h, out) == \A d \in 1..W : At(win, (h - d + W) % W) = Back(out, d)

LEMMA RingIs ==
    /\ Ring <=> RingOf(Power[encoding.window], window, head, output)
    /\ Ring' <=> RingOf(Power[encoding'.window], window', head', output')
BY Zenon DEF Ring, RingOf, WindowAt, At

LEMMA RingTurns ==
    ASSUME NEW W \in Nat, NEW h \in 0..(W - 1), NEW out \in Seq(Nat), NEW byte \in Nat,
           NEW win, RingOf(W, win, h, out)
    PROVE  RingOf(W, [p \in DOMAIN win \cup {h} |-> IF p = h THEN byte ELSE win[p]],
                  (h + 1) % W, Append(out, byte))
<1>. DEFINE new == [p \in DOMAIN win \cup {h} |-> IF p = h THEN byte ELSE win[p]]
            n == (h + 1) % W
            more == Append(out, byte)
<1>1. At(new, h) = byte
  BY DEF At
<1>2. ASSUME NEW p, p # h PROVE At(new, p) = At(win, p)
  BY <1>2 DEF At
<1>3. Len(out) \in Nat /\ Len(more) = Len(out) + 1 /\ more[Len(out) + 1] = byte
      /\ \A j \in 1..Len(out) : more[j] = out[j]
  OBVIOUS
<1>. HIDE DEF new, more
<1>4. ASSUME NEW d \in 1..W PROVE At(new, (n - d + W) % W) = Back(more, d)
  <2>1. CASE d = 1
    <3>1. (n - 1 + W) % W = h
      BY BehindNext, Zenon
    <3>2. Back(more, 1) = byte
      BY <1>3 DEF Back
    <3>3. QED
      BY <1>1, <2>1, <3>1, <3>2
  <2>2. CASE d # 1
    <3>. DEFINE q == (h - (d - 1) + W) % W
    <3>1. d > 1
      BY <2>2
    <3>2. d - 1 \in 1..W /\ (n - d + W) % W = q /\ q # h
      BY <3>1, BehindNext, Zenon
    <3>3. At(win, q) = Back(out, d - 1)
      BY <3>2, Zenon DEF RingOf
    <3>4. Back(more, d) = Back(out, d - 1)
      <4>1. CASE d > Len(more)
        <5>1. d - 1 > Len(out)
          BY <1>3, <4>1
        <5>2. QED
          BY <4>1, <5>1 DEF Back
      <4>2. CASE ~(d > Len(more))
        <5>1. ~(d - 1 > Len(out))
          BY <1>3, <4>2
        <5>. DEFINE j == Len(out) + 1 - (d - 1)
        <5>2. Len(more) + 1 - d = j /\ j \in 1..Len(out)
          BY <1>3, <3>1, <5>1
        <5>3. Back(more, d) = more[j]
          BY <4>2, <5>2, Zenon DEF Back
        <5>4. Back(out, d - 1) = out[j]
          BY <5>1, Zenon DEF Back
        <5>5. QED
          BY <1>3, <5>2, <5>3, <5>4, Zenon
      <4>3. QED
        BY <4>1, <4>2
    <3>5. QED
      BY <1>2, <3>2, <3>3, <3>4, Zenon
  <2>3. QED
    BY <2>1, <2>2
<1>5. QED
  BY <1>4, Zenon DEF RingOf, new, more

\* A byte that is put out enters the window at the head.
LEMMA PushKeeps ==
    ASSUME HsTyped, NEW byte \in Nat, Pushes(byte), UNCHANGED encoding
    PROVE  /\ \A p \in DOMAIN window' : window'[p] \in Nat
           /\ head' \in 0..(Power[encoding.window] - 1)
           /\ output' = Append(output, byte)
           /\ output' \in Seq(Nat)
           /\ Ring'
<1>. DEFINE W == Power[encoding.window]
<1>1. W \in Nat /\ head \in 0..(W - 1) /\ output \in Seq(Nat)
  <2>1. IsEncoding(encoding)
    BY DEF HsTyped
  <2>2. QED
    BY <2>1, WindowIs, Zenon DEF HsTyped
<1>2. encoding' = encoding
  OBVIOUS
<1>3. /\ window' = [p \in DOMAIN window \cup {head} |-> IF p = head THEN byte ELSE window[p]]
      /\ head' = (head + 1) % W
      /\ output' = Append(output, byte)
  BY DEF Pushes
<1>4. \A p \in DOMAIN window : window[p] \in Nat
  BY DEF HsTyped
<1>5. \A p \in DOMAIN window' : window'[p] \in Nat
  BY <1>3, <1>4
<1>. HIDE DEF W
<1>6. head' \in 0..(W - 1)
  <2>1. head \in 1..W \/ head = 0
    BY <1>1
  <2>2. W \in 1..W
    BY <1>1
  <2>3. QED
    BY <1>1, <1>3, <2>2, BehindNext, Zenon
<1>7. output' \in Seq(Nat)
  BY <1>1, <1>3
<1>8. RingOf(W, window', head', output')
  <2>1. RingOf(W, window, head, output)
    BY RingIs, Zenon DEF HsTyped, W
  <2>2. QED
    BY <1>1, <1>3, <2>1, RingTurns, Zenon
<1>9. Ring'
  BY <1>2, <1>8, RingIs, Zenon DEF W
<1>10. QED
  BY <1>3, <1>5, <1>6, <1>7, <1>9, Zenon DEF W

-----------------------------------------------------------------------------
(* HeatshrinkDecoder: reading.                                             *)

LEMMA BitsAreNat == Seq({0, 1}) \subseteq Seq(Nat)
<1>1. {0, 1} \subseteq Nat
  OBVIOUS
<1>2. QED
  BY <1>1

LEMMA ReadingIs ==
    ASSUME HsTyped, NEW n \in Nat, position + n <= Len(Data(encoding))
    PROVE  /\ Reading(n) \in Seq(Nat)
           /\ Len(Reading(n)) = n
           /\ \A j \in 1..n : Reading(n)[j] = Data(encoding)[position + j]
<1>. DEFINE s == Data(encoding)
            r == SubSeq(s, position + 1, position + n)
<1>1. s \in Seq({0, 1})
  BY DataIs, Zenon DEF HsTyped
<1>2. Reading(n) = r
  BY Zenon DEF Reading
<1>3. position \in 0..Len(s)
  BY Zenon DEF HsTyped
<1>. HIDE DEF s
<1>4. s \in Seq(Nat)
  BY <1>1, BitsAreNat
<1>5. r \in Seq(Nat) /\ Len(r) = n /\ \A j \in 1..n : r[j] = s[position + j]
  <2>1. position + n <= Len(s) /\ Len(s) \in Nat /\ position \in Nat
    <3>1. position + n <= Len(s)
      BY Zenon DEF s
    <3>2. Len(s) \in Nat
      BY <1>4
    <3>. DEFINE l == Len(s)
    <3>. HIDE DEF l
    <3>3. position \in 0..l => position \in Nat
      BY <3>2 DEF l
    <3>4. QED
      BY <1>3, <3>1, <3>2, <3>3 DEF l
  <2>2. Len(r) = n
    BY <1>4, <2>1
  <2>3. \A j \in 1..n : r[j] = s[position + j]
    BY <1>4, <2>1
  <2>4. \A j \in 1..n : position + j \in 1..Len(s)
    BY <2>1
  <2>5. r \in Seq(Nat)
    BY <1>4, <2>1
  <2>6. QED
    BY <2>2, <2>3, <2>5
<1>6. QED
  BY <1>2, <1>5, Zenon DEF s

\* Inside the code of a token, its bits are what is read.
LEMMA ReadingInCode ==
    ASSUME HsTyped, NEW i \in 1..Len(encoding.tokens), NEW k \in Nat, NEW n \in Nat,
           position = Start(encoding, i) + k,
           k + n <= Len(Encoded(encoding, encoding.tokens[i]))
    PROVE  /\ position + n <= Len(Data(encoding))
           /\ Reading(n) \in Seq(Nat)
           /\ Len(Reading(n)) = n
           /\ \A j \in 1..n : Reading(n)[j] = Encoded(encoding, encoding.tokens[i])[k + j]
<1>. DEFINE e == encoding
            o == Start(e, i)
            code == Encoded(e, e.tokens[i])
            d == Data(e)
<1>1. IsEncoding(e)
  BY DEF HsTyped
<1>2. o \in Nat /\ o + Len(code) = Len(Codes(e, i)) /\ Len(Codes(e, i)) <= Len(EncodedTokens(e))
      /\ \A j \in 1..Len(code) : d[o + j] = code[j]
  BY <1>1, CodeAt, Zenon
<1>3. Len(EncodedTokens(e)) \in Nat /\ Len(EncodedTokens(e)) <= Len(d) /\ Len(d) \in Nat
  BY <1>1, DataIs, WindowIs, Zenon
<1>4. Len(code) \in Nat
  BY <1>1, CodeTyped, Zenon
<1>. DEFINE lc == Len(code)
            le == Len(EncodedTokens(e))
            ld == Len(d)
            li == Len(Codes(e, i))
<1>5. position = o + k /\ k + n <= lc
  BY Zenon
<1>. HIDE DEF lc, le, ld, li, o, e, d, code
<1>6. position + n <= ld
  BY <1>2, <1>3, <1>4, <1>5 DEF lc, le, ld, li
<1>7. Reading(n) \in Seq(Nat) /\ Len(Reading(n)) = n /\ \A j \in 1..n : Reading(n)[j] = d[position + j]
  BY <1>6, ReadingIs, Zenon DEF d, ld, e
<1>8. \A j \in 1..n : k + j \in 1..lc /\ position + j = o + (k + j)
  <2>1. lc \in Nat /\ o \in Nat
    BY <1>2, <1>4 DEF lc
  <2>2. QED
    BY <1>5, <2>1
<1>9. \A j \in 1..n : d[position + j] = code[k + j]
  BY <1>2, <1>8, Zenon DEF lc
<1>10. QED
  BY <1>6, <1>7, <1>9, Zenon DEF ld, d, code, e

\* The high part of n is there to be read.
ReadsHigh(width, n) ==
    /\ position + (width - 8) <= Len(Data(encoding))
    /\ Number(Reading(width - 8)) * 256 = High(width, n)

LEMMA HighRead ==
    ASSUME HsTyped, NEW i \in 1..Len(encoding.tokens), NEW k \in Nat,
           NEW width \in 1..30, width > 8, NEW n \in Nat, n < Power[width],
           position = Start(encoding, i) + k,
           k + width <= Len(Encoded(encoding, encoding.tokens[i])),
           \A j \in 1..width :
              Encoded(encoding, encoding.tokens[i])[k + j] = (n \div Power[width - j]) % 2
    PROVE  ReadsHigh(width, n)
<1>. DEFINE code == Encoded(encoding, encoding.tokens[i])
            m == width - 8
            r == Reading(m)
            lc == Len(code)
<1>1. m \in Nat /\ width \in 9..30 /\ \A j \in 1..m : j \in 1..width
  OBVIOUS
<1>2. k + m <= lc
  <2>1. lc \in Nat
    BY CodeTyped, Zenon DEF HsTyped
  <2>2. k + width <= lc
    BY Zenon
  <2>. HIDE DEF lc
  <2>3. QED
    BY <2>1, <2>2
<1>3. /\ position + m <= Len(Data(encoding)) /\ r \in Seq(Nat) /\ Len(r) = m
      /\ \A j \in 1..m : r[j] = code[k + j]
  <2>. HIDE DEF m
  <2>1. QED
    BY <1>1, <1>2, ReadingInCode, Zenon
<1>4. \A j \in 1..m : r[j] = (n \div Power[width - j]) % 2
  BY <1>1, <1>3, Zenon
<1>5. Number(r) = n \div 256
  BY <1>1, <1>3, <1>4, FirstBits, Zenon
<1>6. (n \div 256) * 256 = 256 * (n \div 256)
  OBVIOUS
<1>7. High(width, n) = 256 * (n \div 256)
  BY Zenon DEF High
<1>8. QED
  BY <1>3, <1>5, <1>6, <1>7, Zenon DEF ReadsHigh

\* The low part of n is there to be read and completes it.
ReadsLow(width, n) ==
    /\ position + LowBits(width) <= Len(Data(encoding))
    /\ LowBits(width) \in Nat /\ HighBits(width) + LowBits(width) = width
    /\ High(width, n) + Number(Reading(LowBits(width))) = n

LEMMA LowRead ==
    ASSUME HsTyped, NEW i \in 1..Len(encoding.tokens), NEW k \in Nat,
           NEW width \in 1..30, NEW n \in Nat, n < Power[width],
           position = Start(encoding, i) + k + HighBits(width),
           k + width <= Len(Encoded(encoding, encoding.tokens[i])),
           \A j \in 1..width :
              Encoded(encoding, encoding.tokens[i])[k + j] = (n \div Power[width - j]) % 2
    PROVE  ReadsLow(width, n)
<1>. DEFINE code == Encoded(encoding, encoding.tokens[i])
            h == HighBits(width)
            m == LowBits(width)
            r == Reading(m)
            lc == Len(code)
            o == Start(encoding, i)
<1>1. h \in Nat /\ m \in Nat /\ h + m = width
  BY DEF HighBits, LowBits
<1>2. lc \in Nat /\ o \in Nat
  BY CodeTyped, CodeAt, Zenon DEF HsTyped
<1>3. k + width <= lc /\ position = o + k + h
  BY Zenon
<1>. HIDE DEF h, m, lc, o
<1>4. k + h \in Nat /\ position = o + (k + h) /\ (k + h) + m <= lc
  BY <1>1, <1>2, <1>3
<1>5. /\ position + m <= Len(Data(encoding)) /\ r \in Seq(Nat) /\ Len(r) = m
      /\ \A j \in 1..m : r[j] = code[(k + h) + j]
  BY <1>1, <1>4, ReadingInCode, Zenon DEF o, lc
<1>6. \A j \in 1..m : h + j \in 1..width /\ (k + h) + j = k + (h + j) /\ width - (h + j) = m - j
  BY <1>1
<1>7. \A j \in 1..m : r[j] = (n \div Power[m - j]) % 2
  <2>. TAKE j \in 1..m
  <2>1. h + j \in 1..width /\ (k + h) + j = k + (h + j) /\ width - (h + j) = m - j
    BY <1>6, Zenon
  <2>2. code[k + (h + j)] = (n \div Power[width - (h + j)]) % 2
    BY <2>1, Zenon
  <2>3. r[j] = code[k + (h + j)]
    BY <1>5, <2>1, Zenon
  <2>4. QED
    BY <2>1, <2>2, <2>3, Zenon
<1>8. High(width, n) + Number(r) = n
  <2>1. CASE width > 8
    <3>1. m = 8
      BY <2>1 DEF m, LowBits
    <3>2. Number(r) = n - 256 * (n \div 256)
      BY <1>5, <1>7, <3>1, LastBits, Zenon
    <3>3. High(width, n) = 256 * (n \div 256)
      BY <2>1, Zenon DEF High
    <3>4. 256 * (n \div 256) + (n - 256 * (n \div 256)) = n
      <4>. DEFINE q == n \div 256
      <4>1. q \in Nat
        OBVIOUS
      <4>. HIDE DEF q
      <4>2. 256 * q + (n - 256 * q) = n
        BY <4>1
      <4>3. QED
        BY <4>2 DEF q
    <3>5. QED
      BY <3>2, <3>3, <3>4, Zenon
  <2>2. CASE ~(width > 8)
    <3>1. m = width
      BY <2>2 DEF m, LowBits
    <3>2. Number(r) = n
      BY <1>5, <1>7, <3>1, AllBits, Zenon
    <3>3. High(width, n) = 0
      BY <2>2, Zenon DEF High
    <3>4. 0 + n = n
      OBVIOUS
    <3>5. QED
      BY <3>2, <3>3, <3>4, Zenon
  <2>3. QED
    BY <2>1, <2>2
<1>9. QED
  BY <1>1, <1>5, <1>8, Zenon DEF m, h, ReadsLow

-----------------------------------------------------------------------------
(* HeatshrinkDecoder: its steps.                                           *)

LEMMA LeavesEncoding ==
    ASSUME HeatshrinkNext PROVE encoding' = encoding
BY DEF HeatshrinkNext, HandleTagBit, HandleYieldLiteral, HandleBackrefIndexMSB,
       HandleBackrefIndexLSB, HandleBackrefCountMSB, HandleBackrefCountLSB,
       HandleYieldBackref, InputEnds

LEMMA ReadsForward ==
    ASSUME HsTyped, NEW n \in Nat, NEW s, NEW next, Reads(s, n, next)
    PROVE  position' \in 0..Len(Data(encoding))
<1>. DEFINE l == Len(Data(encoding))
<1>1. l \in Nat /\ position \in 0..l
  BY WindowIs, Zenon DEF HsTyped
<1>2. \/ position + n <= l /\ position' = position + n
      \/ position' = position
  BY Zenon DEF Reads
<1>. HIDE DEF l
<1>3. position' \in 0..l
  BY <1>1, <1>2
<1>4. QED
  BY <1>3 DEF l

\* A step that puts nothing out
LEMMA QuietKeeps ==
    ASSUME HsTyped, UNCHANGED <<encoding, window, head, output>>,
           position' \in 0..Len(Data(encoding))
    PROVE  HsTyped' /\ BeginsWith(output', output)
<1>1. Ring'
  <2>1. RingOf(Power[encoding.window], window, head, output)
    BY RingIs, Zenon DEF HsTyped
  <2>2. RingOf(Power[encoding'.window], window', head', output')
    BY <2>1, Zenon
  <2>3. QED
    BY <2>2, RingIs, Zenon
<1>2. BeginsWith(output, output)
  BY BeginsSelf, Zenon DEF HsTyped
<1>3. QED
  BY <1>1, <1>2, Zenon DEF HsTyped

\* A step that puts a byte out
LEMMA PushingKeeps ==
    ASSUME HsTyped, NEW byte \in Nat, Pushes(byte), UNCHANGED encoding,
           position' \in 0..Len(Data(encoding))
    PROVE  HsTyped' /\ BeginsWith(output', output) /\ output' = Append(output, byte)
<1>1. /\ \A p \in DOMAIN window' : window'[p] \in Nat
      /\ head' \in 0..(Power[encoding.window] - 1)
      /\ output' = Append(output, byte)
      /\ output' \in Seq(Nat)
      /\ Ring'
  BY PushKeeps, Zenon
<1>2. BeginsWith(Append(output, byte), output)
  BY BeginsAppended, Zenon DEF HsTyped
<1>3. encoding' = encoding /\ IsEncoding(encoding)
  BY Zenon DEF HsTyped
<1>4. HsTyped'
  BY <1>1, <1>3, Zenon DEF HsTyped
<1>5. QED
  BY <1>1, <1>2, <1>4, Zenon

LEMMA WidthsAre ==
    ASSUME HsTyped
    PROVE  /\ encoding.window \in 1..30 /\ encoding.lookahead \in 1..30
           /\ LowBits(encoding.window) \in Nat /\ LowBits(encoding.lookahead) \in Nat
           /\ encoding.window > 8 => encoding.window - 8 \in Nat
           /\ encoding.lookahead > 8 => encoding.lookahead - 8 \in Nat
<1>. DEFINE w == encoding.window
            l == encoding.lookahead
<1>1. w \in 1..30 /\ l \in 1..30
  BY WindowIs, Zenon DEF HsTyped
<1>. HIDE DEF w, l
<1>2. LowBits(w) \in Nat /\ LowBits(l) \in Nat /\ (w > 8 => w - 8 \in Nat) /\ (l > 8 => l - 8 \in Nat)
  BY <1>1 DEF LowBits
<1>3. QED
  BY <1>1, <1>2, Zenon DEF w, l

LEMMA CopyTyped == ASSUME HsTyped, NEW p PROVE WindowAt(p) \in Nat
BY DEF HsTyped, WindowAt

LEMMA HsNextKeepsTyped ==
    ASSUME HsTyped, HighParts, HeatshrinkNext
    PROVE  HsTyped' /\ BeginsWith(output', output)
<1>1. CASE HandleTagBit
  <2>1. \E next : Reads("tag", 1, next)
    BY <1>1, Zenon DEF HandleTagBit
  <2>2. 1 \in Nat
    OBVIOUS
  <2>3. position' \in 0..Len(Data(encoding))
    BY <2>1, <2>2, ReadsForward, Zenon
  <2>4. UNCHANGED <<encoding, window, head, output>>
    BY <1>1, Zenon DEF HandleTagBit
  <2>5. QED
    BY <2>3, <2>4, QuietKeeps, Zenon
<1>2. CASE HandleYieldLiteral
  <2>1. Reads("literal", 8, "tag") /\ UNCHANGED encoding
    BY <1>2, Zenon DEF HandleYieldLiteral
  <2>2. 8 \in Nat
    OBVIOUS
  <2>3. position' \in 0..Len(Data(encoding))
    BY <2>1, <2>2, ReadsForward, Zenon
  <2>4. CASE hsState' = "tag"
    <3>1. Pushes(Number(Reading(8)))
      BY <1>2, <2>4, Zenon DEF HandleYieldLiteral
    <3>2. position + 8 <= Len(Data(encoding))
      BY <2>1, <2>4 DEF Reads
    <3>3. Reading(8) \in Seq(Nat)
      BY <2>2, <3>2, ReadingIs, Zenon
    <3>4. Number(Reading(8)) \in Nat
      BY <3>3, NumberIsNat, Zenon
    <3>5. QED
      BY <2>1, <2>3, <3>1, <3>4, PushingKeeps, Zenon
  <2>5. CASE hsState' # "tag"
    <3>1. UNCHANGED <<encoding, window, head, output>>
      BY <1>2, <2>5, Zenon DEF HandleYieldLiteral
    <3>2. QED
      BY <2>3, <3>1, QuietKeeps, Zenon
  <2>6. QED
    BY <2>4, <2>5
<1>3. CASE HandleBackrefIndexMSB
  <2>1. Reads("indexMSB", encoding.window - 8, "indexLSB") /\ UNCHANGED <<encoding, window, head, output>>
    BY <1>3, Zenon DEF HandleBackrefIndexMSB
  <2>2. encoding.window - 8 \in Nat
    BY <2>1, WidthsAre, Zenon DEF Reads, HighParts
  <2>3. position' \in 0..Len(Data(encoding))
    BY <2>1, <2>2, ReadsForward, Zenon
  <2>4. QED
    BY <2>1, <2>3, QuietKeeps, Zenon
<1>4. CASE HandleBackrefIndexLSB
  <2>1. (\E next : Reads("indexLSB", LowBits(encoding.window), next))
        /\ UNCHANGED <<encoding, window, head, output>>
    BY <1>4, Zenon DEF HandleBackrefIndexLSB
  <2>2. position' \in 0..Len(Data(encoding))
    BY <2>1, WidthsAre, ReadsForward, Zenon
  <2>3. QED
    BY <2>1, <2>2, QuietKeeps, Zenon
<1>5. CASE HandleBackrefCountMSB
  <2>1. Reads("countMSB", encoding.lookahead - 8, "countLSB") /\ UNCHANGED <<encoding, window, head, output>>
    BY <1>5, Zenon DEF HandleBackrefCountMSB
  <2>2. encoding.lookahead - 8 \in Nat
    BY <2>1, WidthsAre, Zenon DEF Reads, HighParts
  <2>3. position' \in 0..Len(Data(encoding))
    BY <2>1, <2>2, ReadsForward, Zenon
  <2>4. QED
    BY <2>1, <2>3, QuietKeeps, Zenon
<1>6. CASE HandleBackrefCountLSB
  <2>1. (\E next : Reads("countLSB", LowBits(encoding.lookahead), next))
        /\ UNCHANGED <<encoding, window, head, output>>
    BY <1>6, Zenon DEF HandleBackrefCountLSB
  <2>2. position' \in 0..Len(Data(encoding))
    BY <2>1, WidthsAre, ReadsForward, Zenon
  <2>3. QED
    BY <2>1, <2>2, QuietKeeps, Zenon
<1>7. CASE HandleYieldBackref
  <2>1. (\E p : Pushes(WindowAt(p))) /\ UNCHANGED <<encoding, position>>
    BY <1>7, Zenon DEF HandleYieldBackref
  <2>2. position' \in 0..Len(Data(encoding))
    BY <2>1, Zenon DEF HsTyped
  <2>3. QED
    BY <2>1, <2>2, CopyTyped, PushingKeeps, Zenon
<1>8. CASE InputEnds
  <2>1. UNCHANGED <<encoding, position, window, head, output>>
    BY <1>8, Zenon DEF InputEnds
  <2>2. position' \in 0..Len(Data(encoding))
    BY <2>1, Zenon DEF HsTyped
  <2>3. QED
    BY <2>1, <2>2, QuietKeeps, Zenon
<1>9. QED
  BY <1>1, <1>2, <1>3, <1>4, <1>5, <1>6, <1>7, <1>8, Zenon DEF HeatshrinkNext

LEMMA HighPartsNext == ASSUME HighParts, HeatshrinkNext PROVE HighParts'
<1>1. CASE HandleTagBit
  BY <1>1 DEF HandleTagBit, Reads, HighParts
<1>2. CASE HandleYieldLiteral
  BY <1>2 DEF HandleYieldLiteral, Reads, HighParts
<1>3. CASE HandleBackrefIndexMSB
  BY <1>3 DEF HandleBackrefIndexMSB, Reads, HighParts
<1>4. CASE HandleBackrefIndexLSB
  BY <1>4 DEF HandleBackrefIndexLSB, Reads, HighParts
<1>5. CASE HandleBackrefCountMSB
  BY <1>5 DEF HandleBackrefCountMSB, Reads, HighParts
<1>6. CASE HandleBackrefCountLSB
  BY <1>6 DEF HandleBackrefCountLSB, Reads, HighParts
<1>7. CASE HandleYieldBackref
  BY <1>7 DEF HandleYieldBackref, HighParts
<1>8. CASE InputEnds
  BY <1>8 DEF InputEnds, HighParts
<1>9. QED
  BY <1>1, <1>2, <1>3, <1>4, <1>5, <1>6, <1>7, <1>8, Zenon DEF HeatshrinkNext

\* The code of token i and what stood before it
LEMMA CodeInside ==
    ASSUME HsTyped, NEW i \in 1..Len(encoding.tokens)
    PROVE  /\ IsEncoding(encoding)
           /\ Start(encoding, i) \in Nat
           /\ Len(Encoded(encoding, encoding.tokens[i])) \in Nat
           /\ Len(Encoded(encoding, encoding.tokens[i])) >= 1
           /\ Start(encoding, i) + Len(Encoded(encoding, encoding.tokens[i])) = Len(Codes(encoding, i))
           /\ Len(Codes(encoding, i)) <= Len(EncodedTokens(encoding))
           /\ Len(EncodedTokens(encoding)) <= Len(Data(encoding))
           /\ Len(EncodedTokens(encoding)) \in Nat /\ Len(Data(encoding)) \in Nat
           /\ Start(encoding, i) < Len(Data(encoding))
           /\ OutBefore(i) \in Seq(Nat)
           /\ Expansion(encoding.tokens, i) = With(OutBefore(i), encoding.tokens[i])
<1>. DEFINE e == encoding
            n == Len(e.tokens)
            o == Start(e, i)
            l == Len(Encoded(e, e.tokens[i]))
            c == Len(Codes(e, i))
            x == Len(EncodedTokens(e))
            d == Len(Data(e))
<1>1. IsEncoding(e)
  BY DEF HsTyped
<1>2. o \in Nat /\ l \in Nat /\ l >= 1 /\ o + l = c /\ c <= x /\ x <= d /\ x \in Nat /\ d \in Nat
  BY <1>1, CodeAt, CodeTyped, DataIs, WindowIs, Zenon
<1>3. n \in Nat
  BY <1>1, WindowIs, Zenon
<1>4. OutBefore(i) \in Seq(Nat) /\ Expansion(e.tokens, i) = With(OutBefore(i), e.tokens[i])
  <2>1. i - 1 \in 0..n
    <3>. HIDE DEF n
    <3>1. QED
      BY <1>3 DEF n
  <2>2. QED
    BY <1>1, <2>1, ExpansionIs, Zenon DEF OutBefore
<1>. HIDE DEF o, l, c, x, d
<1>5. o < d
  BY <1>2
<1>6. QED
  BY <1>1, <1>2, <1>4, <1>5, Zenon DEF o, l, c, x, d

\* A token has been put out and the decoder is at the next.
LEMMA TokenEnds ==
    ASSUME HsTyped, NEW i \in 1..Len(encoding.tokens), UNCHANGED encoding,
           hsState' = "tag", position' = Len(Codes(encoding, i)),
           output' = Expansion(encoding.tokens, i)
    PROVE  HsInside' \/ HsDone'
<1>. DEFINE n == Len(encoding.tokens)
<1>1. encoding' = encoding /\ n \in Nat
  BY WindowIs, Zenon DEF HsTyped
<1>2. CASE i = n
  <2>1. Expansion(encoding.tokens, n) \in Seq(Nat)
    <3>1. n \in 0..n
      BY <1>1
    <3>2. QED
      BY <3>1, ExpansionIs, Zenon DEF HsTyped
  <2>2. BeginsWith(output', Expansion(encoding.tokens, n))
    BY <1>2, <2>1, BeginsSelf, Zenon
  <2>3. QED
    BY <1>1, <2>2, Zenon DEF HsDone, Expanded
<1>3. CASE i # n
  <2>1. i + 1 \in 1..n /\ (i + 1) - 1 = i
    <3>. HIDE DEF n
    <3>1. i \in 1..n
      BY DEF n
    <3>2. QED
      BY <1>1, <1>3, <3>1
  <2>. DEFINE k == i + 1
  <2>2. k \in 1..n /\ k - 1 = i
    BY <2>1
  <2>. HIDE DEF k
  <2>3. output' = Expansion(encoding'.tokens, k - 1) /\ position' = Len(Codes(encoding', k - 1))
    BY <1>1, <2>2, Zenon
  <2>4. HsAtByte(k)'
    BY <2>3, Zenon DEF HsAtByte, OutBefore, Start
  <2>5. k \in 1..Len(encoding'.tokens)
    BY <1>1, <2>2, Zenon
  <2>6. QED
    BY <2>4, <2>5, Zenon DEF HsInside
<1>4. QED
  BY <1>2, <1>3

LEMMA TagInside ==
    ASSUME HsTyped, HsInside, HandleTagBit PROVE HsInside'
<1>1. hsState = "tag"
  BY Zenon DEF HandleTagBit, Reads
<1>2. PICK i \in 1..Len(encoding.tokens) : HsAtByte(i) \/ HsInReference(i) \/ HsCopying(i)
  BY Zenon DEF HsInside
<1>. DEFINE t == encoding.tokens[i]
            code == Encoded(encoding, t)
            o == Start(encoding, i)
<1>3. output = OutBefore(i) /\ position = o
  BY <1>1, <1>2 DEF HsAtByte, HsInReference, HsCopying
<1>4. IsEncoding(encoding) /\ o \in Nat /\ Len(code) \in Nat /\ Len(code) >= 1
  BY CodeInside, Zenon
<1>5. /\ position + 1 <= Len(Data(encoding)) /\ Reading(1) \in Seq(Nat)
      /\ Len(Reading(1)) = 1 /\ Reading(1)[1] = code[1]
  <2>. DEFINE l == Len(code)
  <2>1. o + 0 = o /\ 0 + 1 <= l /\ 0 \in Nat /\ 1 \in Nat /\ 1 \in 1..1 /\ 0 + 1 = 1
    <3>. HIDE DEF o, l
    <3>1. QED
      BY <1>4 DEF l
  <2>2. position = Start(encoding, i) + 0
    BY <1>3, <2>1, Zenon
  <2>3. /\ position + 1 <= Len(Data(encoding)) /\ Reading(1) \in Seq(Nat)
        /\ Len(Reading(1)) = 1 /\ \A j \in 1..1 : Reading(1)[j] = code[0 + j]
    BY <2>1, <2>2, ReadingInCode, Zenon
  <2>4. Reading(1)[1] = code[0 + 1]
    BY <2>1, <2>3, Zenon
  <2>5. QED
    BY <2>1, <2>3, <2>4, Zenon
<1>6. position' = o + 1
      /\ hsState' = IF Reading(1) = <<1>> THEN "literal"
                    ELSE IF encoding.window > 8 THEN "indexMSB" ELSE "indexLSB"
  BY <1>3, <1>5, Zenon DEF HandleTagBit, Reads
<1>7. encoding' = encoding /\ output' = output /\ index' = IF hsState' = "indexLSB" THEN 0 ELSE index
  BY Zenon DEF HandleTagBit
<1>8. Reading(1) = <<1>> <=> code[1] = 1
  <2>. DEFINE r == Reading(1)
  <2>1. r \in Seq(Nat) /\ Len(r) = 1 /\ r[1] = code[1]
    BY <1>5
  <2>. HIDE DEF r, code
  <2>2. r = <<1>> <=> r[1] = 1
    BY <2>1
  <2>3. QED
    BY <2>1, <2>2 DEF r
<1>9. /\ t.back \in BOOLEAN /\ t.byte \in 0..255
      /\ encoding.window \in 1..30 /\ encoding.lookahead \in 1..30
      /\ t.back => t.index - 1 \in Nat /\ t.count - 1 \in Nat
  <2>1. t.byte \in 0..255
    BY <1>4, TokenIs, Zenon
  <2>0. encoding.window \in 1..30 /\ encoding.lookahead \in 1..30
    BY WidthsAre, Zenon
  <2>2. t.back => t.index - 1 \in Nat /\ t.count - 1 \in Nat
    BY <1>4, TokenIs, Zenon
  <2>3. t.back \in BOOLEAN
    BY <1>4, TokenIs
  <2>4. QED
    BY <2>0, <2>1, <2>2, <2>3
<1>10. CASE ~t.back
  <2>1. t.back = FALSE
    BY <1>10
  <2>2. code[1] = 1
    <3>. HIDE DEF t
    <3>1. QED
      BY <1>9, <2>1, LiteralTag
  <2>3. hsState' = "literal"
    BY <1>6, <1>8, <2>2, Zenon
  <2>4. HsAtByte(i)'
    BY <1>3, <1>6, <1>7, <1>10, <2>3, Zenon DEF HsAtByte, OutBefore
  <2>5. QED
    BY <1>7, <2>4, Zenon DEF HsInside
<1>11. CASE t.back
  <2>1. t.back = TRUE
    BY <1>9, <1>11
  <2>2. code[1] = 0
    <3>. HIDE DEF t
    <3>1. t.index - 1 \in Nat /\ t.count - 1 \in Nat
      BY <1>9, <1>11, Zenon
    <3>2. QED
      BY <1>9, <2>1, <3>1, BackRefTag
  <2>3. Reading(1) # <<1>>
    BY <1>8, <2>2
  <2>4. HsInReference(i)'
    <3>1. CASE encoding.window > 8
      <4>1. hsState' = "indexMSB"
        BY <1>6, <2>3, <3>1, Zenon
      <4>2. QED
        BY <1>3, <1>6, <1>7, <1>11, <3>1, <4>1, Zenon DEF HsInReference, OutBefore
    <3>2. CASE ~(encoding.window > 8)
      <4>1. hsState' = "indexLSB"
        BY <1>6, <2>3, <3>2, Zenon
      <4>2. index' = 0
        BY <1>7, <4>1
      <4>3. High(encoding.window, t.index - 1) = 0 /\ HighBits(encoding.window) = 0
        BY <3>2, Zenon DEF High, HighBits
      <4>4. (o + 1) + 0 = o + 1
        <5>. HIDE DEF o
        <5>1. QED
          BY <1>4
      <4>5. position' = (o + 1) + HighBits(encoding.window) /\ index' = High(encoding.window, t.index - 1)
        BY <1>6, <4>2, <4>3, <4>4, Zenon
      <4>6. QED
        BY <1>3, <1>7, <1>11, <4>1, <4>5, Zenon DEF HsInReference, OutBefore
    <3>3. QED
      BY <3>1, <3>2
  <2>5. QED
    BY <1>7, <2>4, Zenon DEF HsInside
<1>12. QED
  BY <1>9, <1>10, <1>11

LEMMA LiteralInside ==
    ASSUME HsTyped, HsInside, HandleYieldLiteral PROVE HsInside' \/ HsDone'
<1>1. hsState = "literal" /\ encoding' = encoding
  BY Zenon DEF HandleYieldLiteral, Reads
<1>2. PICK i \in 1..Len(encoding.tokens) : HsAtByte(i) \/ HsInReference(i) \/ HsCopying(i)
  BY Zenon DEF HsInside
<1>. DEFINE t == encoding.tokens[i]
            code == Encoded(encoding, t)
            o == Start(encoding, i)
<1>3. output = OutBefore(i) /\ position = o + 1 /\ t.back = FALSE
  BY <1>1, <1>2 DEF HsAtByte, HsInReference, HsCopying
<1>4. IsEncoding(encoding) /\ o \in Nat /\ o + Len(code) = Len(Codes(encoding, i))
      /\ Expansion(encoding.tokens, i) = With(OutBefore(i), t)
  BY CodeInside, Zenon
<1>5. t.byte \in 0..255
  BY <1>4, TokenIs, Zenon
<1>6. Len(code) = 9 /\ \A j \in 1..8 : code[1 + j] = (t.byte \div Power[8 - j]) % 2
  BY <1>3, <1>5, LiteralCode, Zenon
<1>7. position + 8 <= Len(Data(encoding)) /\ Number(Reading(8)) = t.byte
  <2>1. 8 \in 1..30 /\ HighBits(8) = 0 /\ LowBits(8) = 8 /\ 1 + 8 <= 9 /\ 1 \in Nat
    BY DEF HighBits, LowBits
  <2>2. t.byte \in Nat /\ t.byte < Power[8]
    <3>. DEFINE b == t.byte
    <3>. HIDE DEF b
    <3>1. b \in 0..255 => b \in Nat /\ b < 256
      OBVIOUS
    <3>2. QED
      BY <1>5, <3>1, PowersOf8 DEF b
  <2>3. position = o + 1 + HighBits(8)
    <3>1. o + 1 + 0 = o + 1
      <4>. HIDE DEF o
      <4>1. QED
        BY <1>4
    <3>2. QED
      BY <1>3, <2>1, <3>1, Zenon
  <2>4. 1 + 8 <= Len(code)
    BY <1>6, <2>1, Zenon
  <2>5. ReadsLow(8, t.byte)
    BY <1>6, <2>1, <2>2, <2>3, <2>4, LowRead, Zenon
  <2>6. High(8, t.byte) = 0
    BY DEF High
  <2>7. position + 8 <= Len(Data(encoding)) /\ 8 \in Nat /\ 0 + Number(Reading(8)) = t.byte
    BY <2>1, <2>5, <2>6, Zenon DEF ReadsLow
  <2>8. Reading(8) \in Seq(Nat)
    BY <2>7, ReadingIs, Zenon
  <2>9. Number(Reading(8)) \in Nat
    BY <2>8, NumberIsNat, Zenon
  <2>10. 0 + Number(Reading(8)) = Number(Reading(8))
    BY <2>9
  <2>11. QED
    BY <2>7, <2>10, Zenon
<1>8. hsState' = "tag" /\ position' = (o + 1) + 8
  BY <1>3, <1>7, Zenon DEF HandleYieldLiteral, Reads
<1>9. output' = Append(output, t.byte)
  BY <1>7, <1>8, Zenon DEF HandleYieldLiteral, Pushes
<1>10. output' = Expansion(encoding.tokens, i)
  BY <1>3, <1>4, <1>9, Zenon DEF With
<1>11. position' = Len(Codes(encoding, i))
  <2>1. (o + 1) + 8 = o + 9
    <3>. HIDE DEF o
    <3>1. QED
      BY <1>4
  <2>2. QED
    BY <1>4, <1>6, <1>8, <2>1, Zenon
<1>12. QED
  BY <1>1, <1>8, <1>10, <1>11, TokenEnds, Zenon

\* The places of a reference's parts in its code
PlacesIn(o, w, l, lc) ==
    /\ 1 + w \in Nat /\ 1 + w <= lc /\ (1 + w) + l <= lc
    /\ o + 1 + w + l = o + lc
    /\ o + (1 + w) = o + 1 + w
    /\ o + (1 + w) + HighBits(l) = o + 1 + w + HighBits(l)

LEMMA ReferencePlaces ==
    ASSUME NEW o \in Nat, NEW w \in 1..30, NEW l \in 1..30, NEW lc, lc = 1 + w + l
    PROVE  PlacesIn(o, w, l, lc)
<1>1. HighBits(l) \in Nat
  BY DEF HighBits
<1>. DEFINE h == HighBits(l)
<1>. HIDE DEF h
<1>2. h \in Nat => o + (1 + w) + h = o + 1 + w + h
  OBVIOUS
<1>3. QED
  BY <1>1, <1>2 DEF h, PlacesIn

\* A reference, inside which the decoder is: what its code reads.
ReferenceReads(i) ==
    LET t == encoding.tokens[i]
        w == encoding.window
        l == encoding.lookahead
        o == Start(encoding, i) + 1
    IN  /\ Start(encoding, i) \in Nat /\ w \in 1..30 /\ l \in 1..30
        /\ t.index - 1 \in Nat /\ t.count - 1 \in Nat /\ t.index \in Nat /\ t.count \in Nat
        /\ Len(Codes(encoding, i)) = o + w + l
        /\ w > 8 /\ position = o => ReadsHigh(w, t.index - 1)
        /\ position = o + HighBits(w) => ReadsLow(w, t.index - 1)
        /\ l > 8 /\ position = o + w => ReadsHigh(l, t.count - 1)
        /\ position = o + w + HighBits(l) => ReadsLow(l, t.count - 1)

LEMMA ReferenceIsRead ==
    ASSUME HsTyped, NEW i \in 1..Len(encoding.tokens), encoding.tokens[i].back
    PROVE  ReferenceReads(i)
<1>. DEFINE t == encoding.tokens[i]
            w == encoding.window
            l == encoding.lookahead
            o == Start(encoding, i)
            code == Encoded(encoding, t)
            lc == Len(code)
<1>1. IsEncoding(encoding) /\ o \in Nat /\ o + Len(code) = Len(Codes(encoding, i))
  BY CodeInside, Zenon
<1>2. w \in 1..30 /\ l \in 1..30
  BY WidthsAre, Zenon
<1>3. t.index - 1 \in Nat /\ t.count - 1 \in Nat /\ t.index - 1 < Power[w] /\ t.count - 1 < Power[l]
  BY <1>1, TokenIs, Zenon
<1>4. t.index \in Nat /\ t.count \in Nat
  BY <1>1, TokenIs, Zenon
<1>5. t.back = TRUE
  BY <1>1, TokenIs
<1>6. IsReference(code, t, w, l)
  BY <1>2, <1>3, <1>5, BackRefCode, Zenon
<1>7. /\ lc = 1 + w + l
      /\ \A j \in 1..w : code[1 + j] = ((t.index - 1) \div Power[w - j]) % 2
      /\ \A j \in 1..l : code[1 + w + j] = ((t.count - 1) \div Power[l - j]) % 2
  BY <1>6, Zenon DEF IsReference
<1>8. /\ 1 + w \in Nat /\ 1 + w <= lc /\ (1 + w) + l <= lc
      /\ o + 1 + w + l = o + lc
      /\ o + (1 + w) = o + 1 + w
      /\ o + (1 + w) + HighBits(l) = o + 1 + w + HighBits(l)
  <2>1. PlacesIn(o, w, l, lc)
    BY <1>1, <1>2, <1>7, ReferencePlaces, Zenon
  <2>2. QED
    BY <2>1, Zenon DEF PlacesIn
<1>9. Len(Codes(encoding, i)) = o + 1 + w + l
  BY <1>1, <1>8, Zenon
<1>10. 1 \in Nat
  OBVIOUS
<1>11. ASSUME w > 8, position = o + 1 PROVE ReadsHigh(w, t.index - 1)
  BY <1>2, <1>3, <1>7, <1>8, <1>10, <1>11, HighRead, Zenon
<1>12. ASSUME position = o + 1 + HighBits(w) PROVE ReadsLow(w, t.index - 1)
  BY <1>2, <1>3, <1>7, <1>8, <1>10, <1>12, LowRead, Zenon
<1>13. ASSUME l > 8, position = o + 1 + w PROVE ReadsHigh(l, t.count - 1)
  <2>1. position = o + (1 + w)
    BY <1>8, <1>13, Zenon
  <2>. DEFINE k == 1 + w
  <2>2. k \in Nat /\ position = o + k /\ k + l <= Len(code)
        /\ \A j \in 1..l : code[k + j] = ((t.count - 1) \div Power[l - j]) % 2
    BY <1>7, <1>8, <2>1, Zenon
  <2>. HIDE DEF k
  <2>3. QED
    BY <1>2, <1>3, <1>13, <2>2, HighRead, Zenon
<1>14. ASSUME position = o + 1 + w + HighBits(l) PROVE ReadsLow(l, t.count - 1)
  <2>1. position = o + (1 + w) + HighBits(l)
    BY <1>8, <1>14, Zenon
  <2>. DEFINE k == 1 + w
  <2>2. k \in Nat /\ position = o + k + HighBits(l) /\ k + l <= Len(code)
        /\ \A j \in 1..l : code[k + j] = ((t.count - 1) \div Power[l - j]) % 2
    BY <1>7, <1>8, <2>1, Zenon
  <2>. HIDE DEF k
  <2>3. QED
    BY <1>2, <1>3, <2>2, LowRead, Zenon
<1>15. QED
  BY <1>1, <1>2, <1>3, <1>4, <1>9, <1>11, <1>12, <1>13, <1>14, Zenon DEF ReferenceReads

LEMMA LowBitsFollow ==
    ASSUME NEW o \in Nat, NEW width \in 1..30
    PROVE  /\ width > 8 => o + (width - 8) = o + HighBits(width)
           /\ o + HighBits(width) + LowBits(width) = o + width
           /\ ~(width > 8) => o + HighBits(width) = o
<1>1. /\ width > 8 => HighBits(width) = width - 8 /\ LowBits(width) = 8
      /\ ~(width > 8) => HighBits(width) = 0 /\ LowBits(width) = width
  BY DEF HighBits, LowBits
<1>. DEFINE h == HighBits(width)
            m == LowBits(width)
<1>2. /\ width > 8 => h = width - 8 /\ m = 8
      /\ ~(width > 8) => h = 0 /\ m = width
  BY <1>1
<1>. HIDE DEF h, m
<1>3. /\ width > 8 => o + (width - 8) = o + h
      /\ o + h + m = o + width
      /\ ~(width > 8) => o + h = o
  BY <1>2
<1>4. QED
  BY <1>3 DEF h, m

LEMMA IndexMSBInside ==
    ASSUME HsTyped, HsInside, HandleBackrefIndexMSB PROVE HsInside'
<1>1. hsState = "indexMSB" /\ encoding' = encoding
  BY Zenon DEF HandleBackrefIndexMSB, Reads
<1>2. PICK i \in 1..Len(encoding.tokens) : HsAtByte(i) \/ HsInReference(i) \/ HsCopying(i)
  BY Zenon DEF HsInside
<1>. DEFINE t == encoding.tokens[i]
            w == encoding.window
            l == encoding.lookahead
            s == Start(encoding, i)
            o == s + 1
<1>3. t.back /\ output = OutBefore(i) /\ position = o /\ w > 8
  BY <1>1, <1>2, Zenon DEF HsAtByte, HsInReference, HsCopying
<1>4. ReferenceReads(i)
  BY <1>3, ReferenceIsRead, Zenon
<1>5. s \in Nat /\ w \in 1..30
  BY <1>4, Zenon DEF ReferenceReads
<1>6. position + (w - 8) <= Len(Data(encoding)) /\ Number(Reading(w - 8)) * 256 = High(w, t.index - 1)
  BY <1>3, <1>4, Zenon DEF ReferenceReads, ReadsHigh
<1>7. position' = o + (w - 8) /\ hsState' = "indexLSB"
  BY <1>3, <1>6, Zenon DEF HandleBackrefIndexMSB, Reads
<1>8. index' = High(w, t.index - 1) /\ output' = output
  <2>1. index' = Number(Reading(w - 8)) * 256 /\ output' = output
    BY <1>7 DEF HandleBackrefIndexMSB, Read
  <2>2. QED
    BY <1>6, <2>1, Zenon
<1>9. o \in Nat
  <2>. HIDE DEF s
  <2>1. QED
    BY <1>5
<1>10. position' = o + HighBits(w)
  <2>1. o + (w - 8) = o + HighBits(w)
    BY <1>3, <1>5, <1>9, LowBitsFollow, Zenon
  <2>2. QED
    BY <1>7, <2>1, Zenon
<1>11. HsInReference(i)'
  BY <1>1, <1>3, <1>7, <1>8, <1>10, Zenon DEF HsInReference, OutBefore
<1>12. QED
  BY <1>1, <1>11, Zenon DEF HsInside

LEMMA IndexLSBInside ==
    ASSUME HsTyped, HsInside, HandleBackrefIndexLSB PROVE HsInside'
<1>1. hsState = "indexLSB" /\ encoding' = encoding
  BY Zenon DEF HandleBackrefIndexLSB, Reads
<1>2. PICK i \in 1..Len(encoding.tokens) : HsAtByte(i) \/ HsInReference(i) \/ HsCopying(i)
  BY Zenon DEF HsInside
<1>. DEFINE t == encoding.tokens[i]
            w == encoding.window
            l == encoding.lookahead
            s == Start(encoding, i)
            o == s + 1
<1>3. t.back /\ output = OutBefore(i) /\ position = o + HighBits(w) /\ index = High(w, t.index - 1)
  BY <1>1, <1>2, Zenon DEF HsAtByte, HsInReference, HsCopying
<1>4. ReferenceReads(i)
  BY <1>3, ReferenceIsRead, Zenon
<1>5. s \in Nat /\ w \in 1..30 /\ l \in 1..30
  BY <1>4, Zenon DEF ReferenceReads
<1>6. /\ position + LowBits(w) <= Len(Data(encoding))
      /\ High(w, t.index - 1) + Number(Reading(LowBits(w))) = t.index - 1
  BY <1>3, <1>4, Zenon DEF ReferenceReads, ReadsLow
<1>7. position' = o + HighBits(w) + LowBits(w) /\ hsState' = IF l > 8 THEN "countMSB" ELSE "countLSB"
  BY <1>3, <1>6, Zenon DEF HandleBackrefIndexLSB, Reads
<1>8. index' = t.index - 1 /\ count' = 0 /\ output' = output
  <2>1. hsState' # "stopped"
    BY <1>7
  <2>2. index' = index + Number(Reading(LowBits(w))) /\ count' = 0 /\ output' = output
    BY <2>1, Zenon DEF HandleBackrefIndexLSB, Read
  <2>3. QED
    BY <1>3, <1>6, <2>2, Zenon
<1>9. o \in Nat /\ o + w \in Nat
  <2>. HIDE DEF s, w
  <2>1. QED
    BY <1>5
<1>10. position' = o + w
  <2>1. o + HighBits(w) + LowBits(w) = o + w
    BY <1>5, <1>9, LowBitsFollow, Zenon
  <2>2. QED
    BY <1>7, <2>1, Zenon
<1>11. HsInReference(i)'
  <2>1. CASE l > 8
    <3>1. hsState' = "countMSB"
      BY <1>7, <2>1, Zenon
    <3>2. QED
      BY <1>1, <1>3, <1>8, <1>10, <2>1, <3>1, Zenon DEF HsInReference, OutBefore
  <2>2. CASE ~(l > 8)
    <3>1. hsState' = "countLSB"
      BY <1>7, <2>2, Zenon
    <3>2. o + w + HighBits(l) = o + w
      <4>. DEFINE q == o + w
      <4>1. q \in Nat
        BY <1>9
      <4>. HIDE DEF q
      <4>2. q + HighBits(l) = q
        BY <1>5, <2>2, <4>1, LowBitsFollow, Zenon
      <4>3. QED
        BY <4>2, Zenon DEF q
    <3>3. High(l, t.count - 1) = 0
      BY <2>2, Zenon DEF High
    <3>4. position' = o + w + HighBits(l) /\ count' = High(l, t.count - 1)
      BY <1>8, <1>10, <3>2, <3>3, Zenon
    <3>5. QED
      BY <1>1, <1>3, <1>8, <3>1, <3>4, Zenon DEF HsInReference, OutBefore
  <2>3. QED
    BY <2>1, <2>2
<1>12. QED
  BY <1>1, <1>11, Zenon DEF HsInside

LEMMA CountMSBInside ==
    ASSUME HsTyped, HsInside, HandleBackrefCountMSB PROVE HsInside'
<1>1. hsState = "countMSB" /\ encoding' = encoding
  BY Zenon DEF HandleBackrefCountMSB, Reads
<1>2. PICK i \in 1..Len(encoding.tokens) : HsAtByte(i) \/ HsInReference(i) \/ HsCopying(i)
  BY Zenon DEF HsInside
<1>. DEFINE t == encoding.tokens[i]
            w == encoding.window
            l == encoding.lookahead
            s == Start(encoding, i)
            o == s + 1
<1>3. t.back /\ output = OutBefore(i) /\ position = o + w /\ l > 8 /\ index = t.index - 1
  BY <1>1, <1>2, Zenon DEF HsAtByte, HsInReference, HsCopying
<1>4. ReferenceReads(i)
  BY <1>3, ReferenceIsRead, Zenon
<1>5. s \in Nat /\ w \in 1..30 /\ l \in 1..30
  BY <1>4, Zenon DEF ReferenceReads
<1>6. position + (l - 8) <= Len(Data(encoding)) /\ Number(Reading(l - 8)) * 256 = High(l, t.count - 1)
  BY <1>3, <1>4, Zenon DEF ReferenceReads, ReadsHigh
<1>7. position' = o + w + (l - 8) /\ hsState' = "countLSB"
  BY <1>3, <1>6, Zenon DEF HandleBackrefCountMSB, Reads
<1>8. count' = High(l, t.count - 1) /\ index' = index /\ output' = output
  <2>1. count' = Number(Reading(l - 8)) * 256 /\ index' = index /\ output' = output
    BY <1>7 DEF HandleBackrefCountMSB, Read
  <2>2. QED
    BY <1>6, <2>1, Zenon
<1>9. o + w \in Nat
  <2>. HIDE DEF s, w
  <2>1. QED
    BY <1>5
<1>10. position' = o + w + HighBits(l)
  <2>. DEFINE q == o + w
  <2>1. q \in Nat
    BY <1>9
  <2>. HIDE DEF q
  <2>2. q + (l - 8) = q + HighBits(l)
    BY <1>3, <1>5, <2>1, LowBitsFollow, Zenon
  <2>3. QED
    BY <1>7, <2>2, Zenon DEF q
<1>11. HsInReference(i)'
  BY <1>1, <1>3, <1>7, <1>8, <1>10, Zenon DEF HsInReference, OutBefore
<1>12. QED
  BY <1>1, <1>11, Zenon DEF HsInside

LEMMA CountLSBInside ==
    ASSUME HsTyped, HsInside, HandleBackrefCountLSB PROVE HsInside'
<1>1. hsState = "countLSB" /\ encoding' = encoding
  BY Zenon DEF HandleBackrefCountLSB, Reads
<1>2. PICK i \in 1..Len(encoding.tokens) : HsAtByte(i) \/ HsInReference(i) \/ HsCopying(i)
  BY Zenon DEF HsInside
<1>. DEFINE t == encoding.tokens[i]
            w == encoding.window
            l == encoding.lookahead
            s == Start(encoding, i)
            o == s + 1
<1>3. t.back /\ output = OutBefore(i) /\ position = o + w + HighBits(l) /\ index = t.index - 1
      /\ count = High(l, t.count - 1)
  BY <1>1, <1>2, Zenon DEF HsAtByte, HsInReference, HsCopying
<1>4. ReferenceReads(i)
  BY <1>3, ReferenceIsRead, Zenon
<1>5. s \in Nat /\ w \in 1..30 /\ l \in 1..30 /\ t.index \in Nat /\ t.count \in Nat /\ t.count - 1 \in Nat
  BY <1>4, Zenon DEF ReferenceReads
<1>6. /\ position + LowBits(l) <= Len(Data(encoding))
      /\ High(l, t.count - 1) + Number(Reading(LowBits(l))) = t.count - 1
      /\ Len(Codes(encoding, i)) = o + w + l
  BY <1>3, <1>4, Zenon DEF ReferenceReads, ReadsLow
<1>7. position' = o + w + HighBits(l) + LowBits(l) /\ hsState' = "yield"
  BY <1>3, <1>6, Zenon DEF HandleBackrefCountLSB, Reads
<1>8. index' = (t.index - 1) + 1 /\ count' = (t.count - 1) + 1 /\ output' = output
  <2>1. hsState' # "stopped"
    BY <1>7
  <2>2. index' = index + 1 /\ count' = count + Number(Reading(LowBits(l))) + 1 /\ output' = output
    BY <2>1, Zenon DEF HandleBackrefCountLSB, Read
  <2>3. QED
    BY <1>3, <1>6, <2>2, Zenon
<1>9. o + w \in Nat
  <2>. HIDE DEF s, w
  <2>1. QED
    BY <1>5
<1>10. position' = Len(Codes(encoding, i))
  <2>. DEFINE q == o + w
  <2>1. q \in Nat
    BY <1>9
  <2>. HIDE DEF q
  <2>2. q + HighBits(l) + LowBits(l) = q + l
    BY <1>5, <2>1, LowBitsFollow, Zenon
  <2>3. QED
    BY <1>6, <1>7, <2>2, Zenon DEF q
<1>11. index' = t.index /\ count' = t.count /\ count' \in 1..t.count /\ t.count - count' = 0
  <2>. DEFINE c == t.count
              d == t.index
  <2>1. c \in Nat /\ d \in Nat /\ c - 1 \in Nat
    BY <1>5
  <2>. HIDE DEF c, d
  <2>2. (d - 1) + 1 = d /\ (c - 1) + 1 = c /\ c \in 1..c /\ c - c = 0
    BY <2>1
  <2>3. QED
    BY <1>8, <2>2, Zenon DEF c, d
<1>12. Copied(OutBefore(i), t, 0) = OutBefore(i)
  <2>1. OutBefore(i) \in Seq(Nat)
    BY CodeInside, Zenon
  <2>2. t.index >= 1
    BY <1>3, TokenIs, Zenon DEF HsTyped
  <2>3. QED
    BY <1>5, <2>1, <2>2, CopiesAre, Zenon
<1>13. HsCopying(i)'
  BY <1>1, <1>3, <1>7, <1>8, <1>10, <1>11, <1>12, Zenon DEF HsCopying, OutBefore
<1>14. QED
  BY <1>1, <1>13, Zenon DEF HsInside

LEMMA CopyInside ==
    ASSUME HsTyped, HsInside, HandleYieldBackref PROVE HsInside' \/ HsDone'
<1>1. hsState = "yield" /\ encoding' = encoding /\ position' = position /\ index' = index
  BY Zenon DEF HandleYieldBackref
<1>2. PICK i \in 1..Len(encoding.tokens) : HsAtByte(i) \/ HsInReference(i) \/ HsCopying(i)
  BY Zenon DEF HsInside
<1>. DEFINE t == encoding.tokens[i]
            W == Power[encoding.window]
            n == t.count - count
            byte == Back(output, t.index)
<1>3. /\ t.back /\ position = Len(Codes(encoding, i)) /\ index = t.index
      /\ count \in 1..t.count /\ output = Copied(OutBefore(i), t, n)
  BY <1>1, <1>2, Zenon DEF HsAtByte, HsInReference, HsCopying
<1>4. IsEncoding(encoding) /\ OutBefore(i) \in Seq(Nat)
      /\ Expansion(encoding.tokens, i) = With(OutBefore(i), t)
  BY CodeInside, Zenon
<1>5. t.index \in Nat /\ t.count \in Nat
  BY <1>4, TokenIs, Zenon
<1>6. t.index >= 1 /\ t.index <= W
  BY <1>3, <1>4, TokenIs, Zenon
<1>7. W \in Nat
  BY <1>4, WindowIs, Zenon
<1>8. WindowAt((head - index + W) % W) = byte
  <2>1. t.index \in 1..W
    <3>. DEFINE d == t.index
    <3>. HIDE DEF d, W
    <3>1. d \in 1..W
      BY <1>5, <1>6, <1>7 DEF d
    <3>2. QED
      BY <3>1 DEF d
  <2>2. WindowAt((head - t.index + W) % W) = Back(output, t.index)
    BY <2>1, Zenon DEF HsTyped, Ring
  <2>3. QED
    BY <1>3, <2>2, Zenon
<1>9. output' = Append(output, byte) /\ count' = count - 1 /\ hsState' = IF count = 1 THEN "tag" ELSE "yield"
  BY <1>8, Zenon DEF HandleYieldBackref, Pushes
<1>10. /\ n + 1 \in 1..t.count /\ (n + 1) - 1 = n /\ t.count - count' = n + 1
       /\ count = 1 => n + 1 = t.count
       /\ count # 1 => count' \in 1..t.count
  <2>. DEFINE c == t.count
  <2>1. c \in Nat /\ count \in 1..c /\ count' = count - 1
    BY <1>3, <1>5, <1>9
  <2>. HIDE DEF c
  <2>2. /\ (c - count) + 1 \in 1..c /\ ((c - count) + 1) - 1 = c - count /\ c - count' = (c - count) + 1
        /\ count = 1 => (c - count) + 1 = c
        /\ count # 1 => count' \in 1..c
    BY <2>1
  <2>3. QED
    BY <2>2, Zenon DEF c
<1>. DEFINE k == n + 1
<1>11. Copied(OutBefore(i), t, k) = Append(output, byte)
  <2>1. k \in 1..t.count /\ k - 1 = n
    BY <1>10
  <2>. HIDE DEF k
  <2>2. Copied(OutBefore(i), t, k)
          = Append(Copied(OutBefore(i), t, k - 1), Back(Copied(OutBefore(i), t, k - 1), t.index))
    BY <1>4, <1>5, <1>6, <2>1, CopiesAre, Zenon
  <2>3. QED
    BY <1>3, <2>1, <2>2, Zenon
<1>12. CASE count = 1
  <2>1. output' = Copied(OutBefore(i), t, t.count)
    BY <1>9, <1>10, <1>11, <1>12, Zenon
  <2>2. output' = Expansion(encoding.tokens, i)
    BY <1>3, <1>4, <2>1, Zenon DEF With
  <2>3. hsState' = "tag" /\ position' = Len(Codes(encoding, i))
    BY <1>1, <1>3, <1>9, <1>12, Zenon
  <2>4. QED
    BY <1>1, <2>2, <2>3, TokenEnds, Zenon
<1>13. CASE count # 1
  <2>1. hsState' = "yield" /\ count' \in 1..t.count
    BY <1>9, <1>10, <1>13, Zenon
  <2>2. output' = Copied(OutBefore(i), t, t.count - count')
    BY <1>9, <1>10, <1>11, Zenon
  <2>3. HsCopying(i)'
    BY <1>1, <1>3, <2>1, <2>2, Zenon DEF HsCopying, OutBefore
  <2>4. QED
    BY <1>1, <2>3, Zenon DEF HsInside
<1>14. QED
  BY <1>12, <1>13

\* Only inside the last reference can the data have ended.
LEMMA EndInside ==
    ASSUME HsTyped, HsInside, InputEnds PROVE HsDropped'
<1>. DEFINE e == encoding
            n == Len(e.tokens)
            d == Len(Data(e))
            x == Len(EncodedTokens(e))
<1>1. hsState' = "stopped" /\ encoding' = encoding /\ output' = output /\ ~More
  BY Zenon DEF InputEnds
<1>2. IsEncoding(e) /\ d \in Nat /\ n \in Nat /\ x \in Nat /\ x <= d /\ position \in 0..d
  BY WindowIs, DataIs, Zenon DEF HsTyped
<1>3. position = d
  <2>1. ~(position < d)
    BY <1>1, Zenon DEF More
  <2>. HIDE DEF d
  <2>2. QED
    BY <1>2, <2>1
<1>4. PICK i \in 1..n : HsAtByte(i) \/ HsInReference(i) \/ HsCopying(i)
  BY Zenon DEF HsInside
<1>. DEFINE t == e.tokens[i]
            s == Start(e, i)
            l == Len(Encoded(e, t))
            c == Len(Codes(e, i))
<1>5. s \in Nat /\ l \in Nat /\ l >= 1 /\ s + l = c /\ c <= x /\ s < d
  BY CodeInside, Zenon
<1>6. ~HsAtByte(i)
  <2>1. SUFFICES ASSUME HsAtByte(i) PROVE FALSE
    OBVIOUS
  <2>2. (position = s) \/ (position = s + 1 /\ ~t.back)
    BY <2>1, Zenon DEF HsAtByte
  <2>3. CASE ~t.back
    <3>1. t.back = FALSE /\ t.byte \in 0..255
      BY <1>2, <2>3, TokenIs
    <3>2. l = 9
      BY <3>1, LiteralCode, Zenon
    <3>. HIDE DEF s, l, d, c, x
    <3>3. QED
      BY <1>2, <1>3, <1>5, <2>2, <3>2
  <2>4. CASE t.back
    <3>. HIDE DEF s, l, d, c, x
    <3>1. QED
      BY <1>2, <1>3, <1>5, <2>2, <2>4
  <2>5. QED
    BY <2>3, <2>4
<1>7. ~HsInReference(i)
  <2>1. SUFFICES ASSUME HsInReference(i) PROVE FALSE
    OBVIOUS
  <2>. DEFINE w == e.window
              a == e.lookahead
              o == s + 1
  <2>2. /\ t.back
        /\ \/ position = o
           \/ position = o + HighBits(w)
           \/ position = o + w
           \/ position = o + w + HighBits(a)
    BY <2>1, Zenon DEF HsInReference
  <2>3. ReferenceReads(i)
    BY <2>2, ReferenceIsRead, Zenon
  <2>4. w \in 1..30 /\ a \in 1..30 /\ c = o + w + a
    BY <2>3, Zenon DEF ReferenceReads
  <2>5. HighBits(w) < w /\ HighBits(w) \in Nat /\ HighBits(a) < a /\ HighBits(a) \in Nat
    <3>1. ASSUME NEW width \in 1..30 PROVE HighBits(width) < width /\ HighBits(width) \in Nat
      BY DEF HighBits
    <3>2. QED
      BY <2>4, <3>1, Zenon
  <2>. DEFINE hw == HighBits(w)
              ha == HighBits(a)
  <2>6. hw < w /\ hw \in Nat /\ ha < a /\ ha \in Nat
        /\ (position = o \/ position = o + hw \/ position = o + w \/ position = o + w + ha)
    BY <2>2, <2>5, Zenon
  <2>. HIDE DEF hw, ha, w, a, s, c, x, d
  <2>7. QED
    BY <1>2, <1>3, <1>5, <2>4, <2>6
<1>8. HsCopying(i)
  BY <1>4, <1>6, <1>7
<1>9. t.back /\ position = c /\ count \in 1..t.count /\ output = Copied(OutBefore(i), t, t.count - count)
  BY <1>8, Zenon DEF HsCopying
<1>10. i = n
  <2>1. SUFFICES ASSUME i # n PROVE FALSE
    OBVIOUS
  <2>. DEFINE k == i + 1
  <2>2. k \in 1..n /\ k - 1 = i
    <3>. HIDE DEF n
    <3>1. QED
      BY <1>2, <2>1
  <2>. HIDE DEF k
  <2>3. Start(e, k) = c
    BY <2>2, Zenon DEF Start
  <2>4. Start(e, k) < d
    BY <2>2, CodeInside, Zenon
  <2>5. c < d /\ c = d
    BY <1>3, <1>9, <2>3, <2>4, Zenon
  <2>. HIDE DEF c, d
  <2>6. QED
    BY <1>2, <2>5
<1>11. x = d
  <2>1. c <= x /\ c = d
    BY <1>3, <1>5, <1>9, Zenon
  <2>. HIDE DEF c, d, x
  <2>2. QED
    BY <1>2, <2>1
<1>12. Padding(e) = << >> /\ e.after = << >>
  BY <1>2, <1>11, DataIs, Zenon
<1>13. EndsInReference(e)
  <2>1. e.tokens # << >>
    <3>1. n # 0
      <4>. HIDE DEF n
      <4>1. QED
        BY <1>2
    <3>2. Len(<< >>) = 0
      OBVIOUS
    <3>3. QED
      BY <3>1, <3>2
  <2>2. e.tokens[Len(e.tokens)].back
    BY <1>9, <1>10, Zenon
  <2>3. QED
    BY <1>12, <2>1, <2>2, Zenon DEF EndsInReference
<1>14. OutBefore(i) \in Seq(Nat) /\ Expansion(e.tokens, i) = With(OutBefore(i), t)
  BY CodeInside, Zenon
<1>15. t.index \in Nat /\ t.count \in Nat
  BY <1>2, TokenIs, Zenon
<1>16. t.index >= 1
  BY <1>2, <1>9, TokenIs, Zenon
<1>. DEFINE out == OutBefore(i)
            m == t.count - count
<1>17. m \in 0..t.count /\ t.count \in 0..t.count /\ m \in 0..t.count /\ 0 \in 0..m
  <2>. DEFINE tc == t.count
  <2>1. tc \in Nat /\ count \in 1..tc
    BY <1>9, <1>15
  <2>. HIDE DEF tc
  <2>2. tc - count \in 0..tc /\ tc \in 0..tc /\ 0 \in 0..(tc - count)
    BY <2>1
  <2>3. QED
    BY <2>2, Zenon DEF tc
<1>18. /\ BeginsWith(Copied(out, t, t.count), Copied(out, t, m))
       /\ BeginsWith(Copied(out, t, m), Copied(out, t, 0))
       /\ Copied(out, t, 0) = out
  <2>. HIDE DEF m, out
  <2>1. out \in Seq(Nat)
    BY <1>14 DEF out
  <2>2. \A k \in 0..t.count : \A j \in 0..k : BeginsWith(Copied(out, t, k), Copied(out, t, j))
    BY <1>15, <1>16, <2>1, CopiesGrow, Zenon
  <2>3. Copied(out, t, 0) = out
    BY <1>15, <1>16, <2>1, CopiesAre, Zenon
  <2>4. QED
    BY <1>17, <2>2, <2>3, Zenon
<1>19. Expanded(e) = Copied(out, t, t.count)
  BY <1>9, <1>10, <1>14, Zenon DEF Expanded, With
<1>20. BeginsWith(Expanded(e), output) /\ BeginsWith(output, OutBefore(n))
  BY <1>9, <1>10, <1>18, <1>19, Zenon
<1>21. QED
  BY <1>1, <1>13, <1>20, Zenon DEF HsDropped, OutBefore

LEMMA HsInvInit ==
    ASSUME NEW encodings, \A e \in encodings : IsEncoding(e), HeatshrinkInit(encodings)
    PROVE  HsInv
<1>. DEFINE W == Power[encoding.window]
            d == Len(Data(encoding))
            n == Len(encoding.tokens)
<1>1. IsEncoding(encoding) /\ position = 0 /\ hsState = "tag" /\ window = << >> /\ head = 0 /\ output = << >>
  BY Zenon DEF HeatshrinkInit
<1>2. W \in Nat /\ W > 0 /\ d \in Nat /\ n \in Nat
  BY <1>1, WindowIs, Zenon
<1>3. 0 \in 0..(W - 1) /\ 0 \in 0..d
  <2>. HIDE DEF W, d
  <2>1. QED
    BY <1>2
<1>4. (\A p \in DOMAIN window : window[p] \in Nat) /\ output \in Seq(Nat)
  <2>1. DOMAIN window = {} /\ output \in Seq(Nat)
    BY <1>1
  <2>2. QED
    BY <2>1
<1>5. Ring
  BY RingBegins, Zenon
<1>6. HsTyped
  BY <1>1, <1>3, <1>4, <1>5, Zenon DEF HsTyped
<1>7. HighParts
  BY <1>1 DEF HighParts
<1>8. Expansion(encoding.tokens, 0) = << >> /\ Codes(encoding, 0) = << >>
  BY <1>1, ExpansionIs, CodesAre, Zenon
<1>9. CASE n = 0
  <2>1. Expanded(encoding) = << >>
    BY <1>8, <1>9, Zenon DEF Expanded
  <2>2. << >> \in Seq(Nat)
    OBVIOUS
  <2>3. BeginsWith(output, Expanded(encoding))
    BY <1>1, <2>1, <2>2, BeginsSelf, Zenon
  <2>4. QED
    BY <1>6, <1>7, <2>3, Zenon DEF HsInv, HsDone
<1>10. CASE n # 0
  <2>1. 1 \in 1..n /\ 1 - 1 = 0
    <3>. HIDE DEF n
    <3>1. QED
      BY <1>2, <1>10
  <2>2. Len(<< >>) = 0
    OBVIOUS
  <2>3. OutBefore(1) = << >> /\ Start(encoding, 1) = 0
    BY <1>8, <2>1, <2>2, Zenon DEF OutBefore, Start
  <2>4. HsAtByte(1)
    BY <1>1, <2>3, Zenon DEF HsAtByte
  <2>5. HsInside
    BY <2>1, <2>4, Zenon DEF HsInside
  <2>6. QED
    BY <1>6, <1>7, <2>5, Zenon DEF HsInv
<1>11. QED
  BY <1>9, <1>10

LEMMA InsideNext ==
    ASSUME HsTyped, HsInside, HeatshrinkNext PROVE HsInside' \/ HsDone' \/ HsDropped'
BY TagInside, LiteralInside, IndexMSBInside, IndexLSBInside, CountMSBInside, CountLSBInside,
   CopyInside, EndInside, Zenon DEF HeatshrinkNext

LEMMA StoppedStays == ASSUME hsState = "stopped", HeatshrinkNext PROVE FALSE
BY DEF HeatshrinkNext, HandleTagBit, HandleYieldLiteral, HandleBackrefIndexMSB,
       HandleBackrefIndexLSB, HandleBackrefCountMSB, HandleBackrefCountLSB,
       HandleYieldBackref, InputEnds, Reads

LEMMA ExpandedIs ==
    ASSUME NEW e, IsEncoding(e)
    PROVE  /\ Expanded(e) \in Seq(Nat)
           /\ e.tokens # << >> => /\ Expansion(e.tokens, Len(e.tokens) - 1) \in Seq(Nat)
                                  /\ BeginsWith(Expanded(e), Expansion(e.tokens, Len(e.tokens) - 1))
<1>. DEFINE n == Len(e.tokens)
<1>1. n \in Nat /\ (e.tokens # << >> => n # 0)
  <2>1. e.tokens \in Seq(Token)
    BY DEF IsEncoding
  <2>2. QED
    BY <2>1
<1>2. n \in 0..n /\ (n # 0 => n - 1 \in 0..n)
  <2>. HIDE DEF n
  <2>1. QED
    BY <1>1
<1>3. Expanded(e) \in Seq(Nat)
  BY <1>2, ExpansionIs, Zenon DEF Expanded
<1>4. ASSUME e.tokens # << >>
      PROVE  Expansion(e.tokens, n - 1) \in Seq(Nat) /\ BeginsWith(Expanded(e), Expansion(e.tokens, n - 1))
  BY <1>1, <1>2, <1>4, ExpansionIs, ExpansionGrows, Zenon DEF Expanded
<1>5. QED
  BY <1>3, <1>4

LEMMA HsInvNext == ASSUME HsInv, HeatshrinkNext PROVE HsInv'
<1>1. HsTyped /\ HighParts
  BY Zenon DEF HsInv
<1>2. HsTyped' /\ BeginsWith(output', output) /\ HighParts'
  BY <1>1, HsNextKeepsTyped, HighPartsNext, Zenon
<1>3. CASE HsInside
  BY <1>1, <1>2, <1>3, InsideNext, Zenon DEF HsInv
<1>4. CASE HsDone
  <2>1. encoding' = encoding
    BY LeavesEncoding, Zenon
  <2>2. output \in Seq(Nat) /\ output' \in Seq(Nat) /\ Expanded(encoding) \in Seq(Nat)
    BY <1>1, <1>2, ExpandedIs, Zenon DEF HsTyped
  <2>3. BeginsWith(output', Expanded(encoding))
    BY <1>2, <1>4, <2>2, BeginsBegins, Zenon DEF HsDone
  <2>4. HsDone'
    BY <2>1, <2>3, Zenon DEF HsDone
  <2>5. QED
    BY <1>2, <2>4, Zenon DEF HsInv
<1>5. CASE HsDropped
  BY <1>5, StoppedStays, Zenon DEF HsDropped
<1>6. QED
  BY <1>3, <1>4, <1>5, Zenon DEF HsInv

LEMMA HsUnchanged == ASSUME HsInv, UNCHANGED hsVars PROVE HsInv'
<1>1. UNCHANGED <<encoding, position, hsState, index, count, window, head, output>>
  BY DEF hsVars
<1>2. HsTyped'
  <2>1. HsTyped /\ position \in 0..Len(Data(encoding))
    BY Zenon DEF HsInv, HsTyped
  <2>2. position' \in 0..Len(Data(encoding))
    BY <1>1, <2>1, Zenon
  <2>3. QED
    BY <1>1, <2>1, <2>2, QuietKeeps, Zenon
<1>3. HighParts'
  BY <1>1, Zenon DEF HsInv, HighParts
<1>4. HsInside => HsInside'
  BY <1>1, Zenon DEF HsInside, HsAtByte, HsInReference, HsCopying, OutBefore
<1>5. (HsDone => HsDone') /\ (HsDropped => HsDropped')
  BY <1>1, Zenon DEF HsDone, HsDropped, OutBefore
<1>6. QED
  BY <1>2, <1>3, <1>4, <1>5, Zenon DEF HsInv

\* Of two sequences of which one begins with the other, the elements agree.
LEMMA BeginsAgree ==
    ASSUME NEW s \in Seq(Nat), NEW p \in Seq(Nat), BeginsWith(s, p)
    PROVE  /\ \A i \in DOMAIN s \cap DOMAIN p : s[i] = p[i]
           /\ Len(s) >= Len(p)
<1>1. DOMAIN p = 1..Len(p)
  OBVIOUS
<1>2. QED
  BY <1>1 DEF BeginsWith

LEMMA HsExpands == ASSUME HsInv PROVE OutputIsExpansion
<1>. DEFINE whole == Expanded(encoding)
            n == Len(encoding.tokens)
            last == IF EndsInReference(encoding) THEN n - 1 ELSE n
            Agree == \A i \in DOMAIN output \cap DOMAIN whole : output[i] = whole[i]
            Enough == hsState = "stopped" => Len(output) >= Len(Expansion(encoding.tokens, last))
<1>1. HsTyped /\ IsEncoding(encoding) /\ output \in Seq(Nat)
  BY Zenon DEF HsInv, HsTyped
<1>2. whole \in Seq(Nat) /\ n \in Nat
  BY <1>1, ExpandedIs, WindowIs, Zenon
<1>3. SUFFICES Agree /\ Enough
  BY Zenon DEF OutputIsExpansion
<1>4. EndsInReference(encoding) => encoding.tokens # << >>
  BY Zenon DEF EndsInReference
<1>5. CASE HsInside
  <2>1. hsState # "stopped"
    BY <1>5 DEF HsInside, HsAtByte, HsInReference, HsCopying
  <2>2. BeginsWith(whole, output)
    <3>1. PICK i \in 1..n : HsAtByte(i) \/ HsInReference(i) \/ HsCopying(i)
      BY <1>5, Zenon DEF HsInside
    <3>2. i - 1 \in 0..n /\ i \in 0..n /\ n \in 0..n /\ i \in 0..n
      <4>. HIDE DEF n
      <4>1. QED
        BY <1>2
    <3>3. BeginsWith(whole, OutBefore(i)) /\ BeginsWith(whole, Expansion(encoding.tokens, i))
      BY <1>1, <3>2, ExpansionGrows, Zenon DEF OutBefore, Expanded
    <3>4. CASE HsAtByte(i) \/ HsInReference(i)
      <4>1. output = OutBefore(i)
        BY <3>4, Zenon DEF HsAtByte, HsInReference
      <4>2. QED
        BY <3>3, <4>1, Zenon
    <3>5. CASE HsCopying(i)
      <4>. DEFINE t == encoding.tokens[i]
                  out == OutBefore(i)
                  m == t.count - count
      <4>1. t.back /\ count \in 1..t.count /\ output = Copied(out, t, m)
        BY <3>5, Zenon DEF HsCopying
      <4>2. out \in Seq(Nat) /\ Expansion(encoding.tokens, i) = With(out, t)
        BY <1>1, CodeInside, Zenon
      <4>3. t.index \in Nat /\ t.count \in Nat
        BY <1>1, TokenIs, Zenon
      <4>4. t.index >= 1
        BY <1>1, <4>1, TokenIs, Zenon
      <4>5. m \in 0..t.count /\ t.count \in 0..t.count
        <5>. DEFINE tc == t.count
        <5>1. tc \in Nat /\ count \in 1..tc
          BY <4>1, <4>3
        <5>. HIDE DEF tc
        <5>2. tc - count \in 0..tc /\ tc \in 0..tc
          BY <5>1
        <5>3. QED
          BY <5>2, Zenon DEF tc
      <4>. HIDE DEF m, out
      <4>6. BeginsWith(Copied(out, t, t.count), Copied(out, t, m))
        BY <4>2, <4>3, <4>4, <4>5, CopiesGrow, Zenon
      <4>7. Expansion(encoding.tokens, i) = Copied(out, t, t.count)
        BY <4>1, <4>2, Zenon DEF With
      <4>8. Copied(out, t, t.count) \in Seq(Nat)
        BY <4>2, <4>3, <4>4, <4>5, CopiesAre, Zenon
      <4>9. BeginsWith(whole, Copied(out, t, t.count)) /\ BeginsWith(Copied(out, t, t.count), output)
        BY <3>3, <4>1, <4>6, <4>7, Zenon
      <4>. DEFINE mid == Copied(out, t, t.count)
      <4>10. mid \in Seq(Nat) /\ BeginsWith(whole, mid) /\ BeginsWith(mid, output)
        BY <4>8, <4>9, Zenon
      <4>. HIDE DEF mid, whole
      <4>11. QED
        BY <1>1, <1>2, <4>10, BeginsBegins, Zenon
    <3>6. QED
      BY <3>1, <3>4, <3>5
  <2>3. Agree
    <3>. HIDE DEF whole
    <3>1. QED
      BY <1>1, <1>2, <2>2, BeginsAgree
  <2>4. QED
    BY <2>1, <2>3
<1>6. CASE HsDone
  <2>1. BeginsWith(output, whole)
    BY <1>6, Zenon DEF HsDone
  <2>2. Agree /\ Len(output) >= Len(whole)
    <3>. HIDE DEF whole
    <3>1. QED
      BY <1>1, <1>2, <2>1, BeginsAgree
  <2>3. Len(output) >= Len(Expansion(encoding.tokens, last))
    <3>1. CASE EndsInReference(encoding)
      <4>. DEFINE x == Expansion(encoding.tokens, n - 1)
      <4>1. x \in Seq(Nat) /\ BeginsWith(whole, x)
        BY <1>1, <1>4, <3>1, ExpandedIs, Zenon
      <4>2. last = n - 1
        BY <3>1
      <4>. HIDE DEF x, whole, n
      <4>3. Len(whole) >= Len(x)
        BY <1>2, <4>1, BeginsAgree
      <4>4. Len(output) >= Len(x)
        BY <1>1, <1>2, <2>2, <4>1, <4>3
      <4>5. QED
        BY <4>2, <4>4 DEF x
    <3>2. CASE ~EndsInReference(encoding)
      <4>1. last = n
        BY <3>2
      <4>2. QED
        BY <2>2, <4>1 DEF Expanded
    <3>3. QED
      BY <3>1, <3>2
  <2>4. QED
    BY <2>2, <2>3
<1>7. CASE HsDropped
  <2>1. EndsInReference(encoding) /\ BeginsWith(whole, output) /\ BeginsWith(output, OutBefore(n))
    BY <1>7, Zenon DEF HsDropped
  <2>2. Agree
    <3>. HIDE DEF whole
    <3>1. QED
      BY <1>1, <1>2, <2>1, BeginsAgree
  <2>. DEFINE x == Expansion(encoding.tokens, n - 1)
  <2>3. x \in Seq(Nat) /\ BeginsWith(output, x)
    BY <1>1, <1>4, <2>1, ExpandedIs, Zenon DEF OutBefore
  <2>4. last = n - 1
    BY <2>1
  <2>. HIDE DEF x, n
  <2>5. Len(output) >= Len(x)
    BY <1>1, <2>3, BeginsAgree
  <2>6. QED
    BY <2>2, <2>4, <2>5 DEF x
<1>8. QED
  BY <1>5, <1>6, <1>7, Zenon DEF HsInv

-----------------------------------------------------------------------------
(* ThreeMFFile: the plates are those of the zip's entries, in some order;  *)
(* what is added up does not depend on it.                                 *)

\* Total is the sum its definition says.
LEMMA TotalsAre ==
    ASSUME NEW n \in Nat, NEW seq, Len(seq) = n, \A i \in 1..n : seq[i] \in Nat
    PROVE  /\ Total(seq, 0) = 0
           /\ \A k \in 1..n : Total(seq, k) = Total(seq, k - 1) + seq[k]
           /\ \A k \in 0..n : Total(seq, k) \in Nat
<1>. DEFINE X == Nat
            E(g) == [i \in 0..Len(seq) |-> IF i = 0 THEN 0 ELSE g[i - 1] + seq[i]]
            step == [a \in (1..n) \X X |-> a[2] + seq[a[1]]]
            total == CHOOSE h : h = E(h)
<1>1. n \in Nat /\ 0 \in X
  OBVIOUS
<1>2. \A k \in 1..n, s \in X : s + seq[k] \in X
  OBVIOUS
<1>3. PICK g \in [0..n -> X] : g[0] = 0 /\ \A k \in 1..n : g[k] = step[<<k, g[k - 1]>>]
  <2>1. step \in [(1..n) \X X -> X]
    BY <1>2
  <2>. HIDE DEF step, X
  <2>2. Ladders(n, X, 0, step) # {}
    BY <1>1, <2>1, Recursion
  <2>3. QED
    BY <2>2 DEF Ladders
<1>4. \A k \in 1..n : g[k - 1] \in X /\ g[k] = g[k - 1] + seq[k]
  <2>. TAKE k \in 1..n
  <2>1. g[k - 1] \in X
    BY <1>1
  <2>2. step[<<k, g[k - 1]>>] = g[k - 1] + seq[k]
    BY <2>1
  <2>3. QED
    BY <1>3, <2>1, <2>2, Zenon
<1>5. g = E(g)
  <2>1. \A k \in 0..n : g[k] = IF k = 0 THEN 0 ELSE g[k - 1] + seq[k]
    <3>. TAKE k \in 0..n
    <3>1. CASE k = 0
      BY <1>3, <3>1
    <3>2. CASE k # 0
      <4>1. k \in 1..n
        BY <3>2
      <4>2. QED
        BY <1>4, <3>2, <4>1, Zenon
    <3>3. QED
      BY <3>1, <3>2
  <2>2. QED
    BY <1>3, <2>1
<1>6. total = E(total)
  <2>. HIDE DEF E
  <2>1. QED
    BY <1>5, Zenon
<1>7. \A k : Total(seq, k) = total[k]
  BY Zenon DEF Total
<1>. HIDE DEF total
<1>8. total[0] = 0 /\ \A k \in 1..n : total[k] = total[k - 1] + seq[k]
  <2>. DEFINE r(k) == total[k - 1] + seq[k]
  <2>1. total = [k \in 0..n |-> IF k = 0 THEN 0 ELSE r(k)]
    BY <1>6, Zenon
  <2>. HIDE DEF r
  <2>2. total[0] = 0 /\ \A k \in 1..n : total[k] = r(k)
    BY <1>1, <2>1
  <2>3. QED
    BY <2>2, Zenon DEF r
<1>. DEFINE S == {k \in 0..n : total[k] \in X}
<1>9. 0..n \subseteq S
  <2>1. 0 \in S
    BY <1>1, <1>8
  <2>2. ASSUME NEW k \in 1..n, k - 1 \in S PROVE k \in S
    <3>1. k \in 0..n
      BY <1>1
    <3>2. QED
      BY <1>2, <1>8, <2>2, <3>1
  <2>. HIDE DEF S
  <2>3. QED
    BY <1>1, <2>1, <2>2, Upwards
<1>10. QED
  BY <1>7, <1>8, <1>9, Zenon

Numbers(seq, n) == Len(seq) = n /\ \A i \in 1..n : seq[i] \in Nat

\* Sequences that differ in one place have sums that differ by as much.
LEMMA TotalOfOneMore ==
    ASSUME NEW n \in Nat, NEW f, NEW g, Numbers(f, n), Numbers(g, n),
           NEW j \in 1..n, NEW v \in Nat, g[j] = f[j] + v, \A i \in 1..n : i # j => g[i] = f[i]
    PROVE  Total(g, n) = Total(f, n) + v
<1>. DEFINE S == {k \in 0..n : Total(g, k) = Total(f, k) + (IF j <= k THEN v ELSE 0)}
<1>1. /\ Total(f, 0) = 0 /\ \A k \in 1..n : Total(f, k) = Total(f, k - 1) + f[k]
      /\ \A k \in 0..n : Total(f, k) \in Nat
  BY TotalsAre, Zenon DEF Numbers
<1>2. /\ Total(g, 0) = 0 /\ \A k \in 1..n : Total(g, k) = Total(g, k - 1) + g[k]
      /\ \A k \in 0..n : Total(g, k) \in Nat
  BY TotalsAre, Zenon DEF Numbers
<1>3. 0 \in S
  BY <1>1, <1>2
<1>4. ASSUME NEW k \in 1..n, k - 1 \in S PROVE k \in S
  <2>. DEFINE a == Total(f, k - 1)
              b == Total(g, k - 1)
              p == f[k]
              q == g[k]
  <2>1. k \in 0..n /\ k - 1 \in 0..n
    OBVIOUS
  <2>2. a \in Nat /\ b \in Nat /\ p \in Nat /\ q \in Nat
    BY <1>1, <1>2, <2>1 DEF Numbers
  <2>3. b = a + (IF j <= k - 1 THEN v ELSE 0)
    BY <1>4
  <2>4. Total(f, k) = a + p /\ Total(g, k) = b + q
    BY <1>1, <1>2, Zenon
  <2>5. q = IF j = k THEN p + v ELSE p
    OBVIOUS
  <2>. HIDE DEF a, b, p, q
  <2>6. b + q = (a + p) + (IF j <= k THEN v ELSE 0)
    BY <2>2, <2>3, <2>5
  <2>7. Total(g, k) = Total(f, k) + (IF j <= k THEN v ELSE 0)
    BY <2>4, <2>6, Zenon
  <2>8. QED
    BY <2>1, <2>7
<1>. HIDE DEF S
<1>5. n \in S
  BY <1>3, <1>4, Upwards
<1>6. QED
  BY <1>5 DEF S

LEMMA TotalOfZeros ==
    ASSUME NEW n \in Nat, NEW f, Len(f) = n, \A i \in 1..n : f[i] = 0
    PROVE  Total(f, n) = 0
<1>. DEFINE S == {k \in 0..n : Total(f, k) = 0}
<1>1. /\ Total(f, 0) = 0 /\ \A k \in 1..n : Total(f, k) = Total(f, k - 1) + f[k]
  <2>1. \A i \in 1..n : f[i] \in Nat
    OBVIOUS
  <2>2. QED
    BY <2>1, TotalsAre, Zenon
<1>2. 0 \in S
  BY <1>1
<1>3. ASSUME NEW k \in 1..n, k - 1 \in S PROVE k \in S
  BY <1>1, <1>3
<1>. HIDE DEF S
<1>4. n \in S
  BY <1>2, <1>3, Upwards
<1>5. QED
  BY <1>4 DEF S

\* s is picked from the values v, each at most once.
IsPicked(s, v, o, n, m) ==
    /\ n \in Nat /\ m \in Nat /\ o \in [1..n -> 1..m] /\ v \in [1..m -> Nat]
    /\ \A i, k \in 1..n : o[i] = o[k] => i = k
    /\ Len(s) = n /\ \A i \in 1..n : s[i] = v[o[i]]

\* The values where they were picked
Picked(v, o, n, m) == [e \in 1..m |-> IF \E i \in 1..n : o[i] = e THEN v[e] ELSE 0]

AddsUp(s, v, o, n, m) == Total(s, n) = Total(Picked(v, o, n, m), m)

\* What is picked from values, each at most once, comes to the same as those
\* that were picked do where they stand.
LEMMA TotalOfPicked ==
    ASSUME NEW n, NEW m, NEW o, NEW v, NEW s, IsPicked(s, v, o, n, m)
    PROVE  AddsUp(s, v, o, n, m)
<1>0. /\ n \in Nat /\ m \in Nat /\ o \in [1..n -> 1..m] /\ v \in [1..m -> Nat]
      /\ \A i, k \in 1..n : o[i] = o[k] => i = k
      /\ Len(s) = n /\ \A i \in 1..n : s[i] = v[o[i]]
  BY DEF IsPicked
<1>. USE <1>0
<1>. DEFINE Masked(k) == [e \in 1..m |-> IF \E i \in 1..k : o[i] = e THEN v[e] ELSE 0]
            S == {k \in 0..n : Total(s, k) = Total(Masked(k), m)}
<1>1. \A k : Numbers(Masked(k), m)
  <2>. TAKE k
  <2>1. Masked(k) \in Seq(Nat) /\ DOMAIN Masked(k) = 1..m
    OBVIOUS
  <2>2. Len(Masked(k)) = m
    BY <2>1
  <2>3. QED
    BY <2>1, <2>2 DEF Numbers
<1>2. /\ Total(s, 0) = 0 /\ \A k \in 1..n : Total(s, k) = Total(s, k - 1) + s[k]
  <2>1. \A i \in 1..n : s[i] \in Nat
    OBVIOUS
  <2>2. QED
    BY <1>0, <2>1, TotalsAre, Zenon
<1>3. 0 \in S
  <2>1. \A e \in 1..m : Masked(0)[e] = 0
    OBVIOUS
  <2>. HIDE DEF Masked
  <2>2. Len(Masked(0)) = m
    BY <1>1 DEF Numbers
  <2>3. Total(Masked(0), m) = 0
    BY <2>1, <2>2, TotalOfZeros
  <2>4. QED
    BY <1>2, <2>3
<1>4. ASSUME NEW k \in 1..n, k - 1 \in S PROVE k \in S
  <2>1. k \in 0..n /\ k - 1 \in 0..n /\ o[k] \in 1..m
    OBVIOUS
  <2>2. ~ \E i \in 1..(k - 1) : o[i] = o[k]
    OBVIOUS
  <2>3. Masked(k - 1)[o[k]] = 0
    BY <2>1, <2>2
  <2>4. Masked(k)[o[k]] = v[o[k]]
    BY <2>1
  <2>5. ASSUME NEW e \in 1..m, e # o[k] PROVE Masked(k)[e] = Masked(k - 1)[e]
    <3>1. (\E i \in 1..k : o[i] = e) <=> (\E i \in 1..(k - 1) : o[i] = e)
      <4>1. ASSUME NEW i \in 1..k, o[i] = e PROVE i \in 1..(k - 1)
        <5>1. i # k
          BY <2>5, <4>1
        <5>2. QED
          BY <5>1
      <4>2. ASSUME NEW i \in 1..(k - 1) PROVE i \in 1..k
        OBVIOUS
      <4>3. QED
        BY <4>1, <4>2, Zenon
    <3>2. QED
      BY <3>1
  <2>6. v[o[k]] \in Nat
    BY <2>1
  <2>. HIDE DEF Masked
  <2>7. Masked(k)[o[k]] = Masked(k - 1)[o[k]] + v[o[k]]
    BY <2>3, <2>4, <2>6
  <2>8. Total(Masked(k), m) = Total(Masked(k - 1), m) + v[o[k]]
    <3>1. Numbers(Masked(k - 1), m) /\ Numbers(Masked(k), m)
      BY <1>1, Zenon
    <3>. DEFINE f == Masked(k - 1)
                g == Masked(k)
                j == o[k]
                w == v[o[k]]
    <3>2. /\ Numbers(f, m) /\ Numbers(g, m) /\ j \in 1..m /\ w \in Nat /\ g[j] = f[j] + w
          /\ \A i \in 1..m : i # j => g[i] = f[i]
      BY <2>1, <2>5, <2>6, <2>7, <3>1
    <3>3. Total(g, m) = Total(f, m) + w
      <4>. HIDE DEF f, g, j, w
      <4>1. QED
        BY <3>2, TotalOfOneMore
    <3>4. QED
      BY <3>3
  <2>9. Total(s, k) = Total(s, k - 1) + v[o[k]]
    BY <1>2
  <2>10. Total(s, k - 1) = Total(Masked(k - 1), m)
    BY <1>4
  <2>11. QED
    BY <2>1, <2>8, <2>9, <2>10
<1>5. Picked(v, o, n, m) = Masked(n)
  BY Zenon DEF Picked
<1>. HIDE DEF S, Masked
<1>6. n \in S
  <2>1. 0..n \subseteq S
    BY <1>3, <1>4, Upwards, Zenon
  <2>2. QED
    BY <2>1
<1>7. Total(s, n) = Total(Masked(n), m)
  BY <1>6 DEF S
<1>8. QED
  BY <1>5, <1>7, Zenon DEF AddsUp

LEMMA BijectionLonger ==
    ASSUME NEW n \in Nat, NEW S, NEW o \in Bijection(1..n, S), NEW e, e \notin S
    PROVE  [i \in 1..(n + 1) |-> IF i = n + 1 THEN e ELSE o[i]] \in Bijection(1..(n + 1), S \cup {e})
<1>. DEFINE f == [i \in 1..(n + 1) |-> IF i = n + 1 THEN e ELSE o[i]]
<1>1. /\ o \in [1..n -> S]
      /\ \A i, k \in 1..n : o[i] = o[k] => i = k
      /\ \A x \in S : \E i \in 1..n : o[i] = x
  BY DEF Bijection, Injection, Surjection, IsInjective
<1>2. \A i \in 1..(n + 1) : i # n + 1 => i \in 1..n
  OBVIOUS
<1>3. f \in [1..(n + 1) -> S \cup {e}]
  BY <1>1, <1>2
<1>4. ASSUME NEW i \in 1..(n + 1), NEW k \in 1..(n + 1), f[i] = f[k] PROVE i = k
  BY <1>1, <1>2, <1>4
<1>5. ASSUME NEW x \in S \cup {e} PROVE \E i \in 1..(n + 1) : f[i] = x
  <2>1. CASE x = e
    BY <2>1
  <2>2. CASE x \in S
    <3>1. PICK i \in 1..n : o[i] = x
      BY <1>1, <2>2
    <3>2. i \in 1..(n + 1) /\ i # n + 1
      OBVIOUS
    <3>3. QED
      BY <3>1, <3>2
  <2>3. QED
    BY <2>1, <2>2
<1>. HIDE DEF f
<1>6. DOMAIN f = 1..(n + 1)
  BY <1>3
<1>7. f \in Bijection(1..(n + 1), S \cup {e})
  BY <1>3, <1>4, <1>5, <1>6, Zenon DEF Bijection, Injection, Surjection, IsInjective
<1>8. QED
  BY <1>7 DEF f

LEMMA BijectionOrdered ==
    ASSUME NEW A, NEW S, NEW order \in Bijection(A, A), NEW o \in Bijection(A, S)
    PROVE  [i \in A |-> o[order[i]]] \in Bijection(A, S)
<1>. DEFINE f == [i \in A |-> o[order[i]]]
<1>1. /\ o \in [A -> S]
      /\ \A i, k \in A : o[i] = o[k] => i = k
      /\ \A x \in S : \E i \in A : o[i] = x
  BY DEF Bijection, Injection, Surjection, IsInjective
<1>2. /\ order \in [A -> A]
      /\ \A i, k \in A : order[i] = order[k] => i = k
      /\ \A x \in A : \E i \in A : order[i] = x
  BY DEF Bijection, Injection, Surjection, IsInjective
<1>3. f \in [A -> S]
  BY <1>1, <1>2
<1>4. \A i, k \in A : f[i] = f[k] => i = k
  BY <1>1, <1>2
<1>5. \A x \in S : \E i \in A : f[i] = x
  BY <1>1, <1>2
<1>. HIDE DEF f
<1>6. DOMAIN f = A
  BY <1>3
<1>7. f \in Bijection(A, S)
  BY <1>3, <1>4, <1>5, <1>6, Zenon DEF Bijection, Injection, Surjection, IsInjective
<1>8. QED
  BY <1>7 DEF f

\* The largest of some values is one of them, and none is larger.
LEMMA LargestIs ==
    ASSUME NEW n \in Nat, n >= 1, NEW seq, DOMAIN seq = 1..n, \A i \in 1..n : seq[i] \in Nat
    PROVE  /\ \E i \in 1..n : Largest(seq) = seq[i]
           /\ \A i \in 1..n : seq[i] <= Largest(seq)
<1>. DEFINE S == {k \in 0..n : k = 0 \/ \E i \in 1..k : \A j \in 1..k : seq[j] <= seq[i]}
<1>1. 0 \in S
  OBVIOUS
<1>2. ASSUME NEW k \in 1..n, k - 1 \in S PROVE k \in S
  <2>1. k \in 0..n /\ k \in 1..k
    OBVIOUS
  <2>2. CASE k = 1
    <3>1. \A j \in 1..k : j = k
      BY <2>2
    <3>2. seq[k] <= seq[k]
      OBVIOUS
    <3>3. QED
      BY <2>1, <3>1, <3>2
  <2>3. CASE k # 1
    <3>1. PICK i \in 1..(k - 1) : \A j \in 1..(k - 1) : seq[j] <= seq[i]
      BY <1>2, <2>3
    <3>2. i \in 1..k /\ i \in 1..n
      OBVIOUS
    <3>3. \A j \in 1..k : j = k \/ j \in 1..(k - 1)
      OBVIOUS
    <3>4. \A j \in 1..k : j \in 1..n
      OBVIOUS
    <3>5. CASE seq[k] <= seq[i]
      <4>1. \A j \in 1..k : seq[j] <= seq[i]
        BY <3>1, <3>3, <3>5
      <4>2. QED
        BY <2>1, <3>2, <4>1
    <3>6. CASE ~(seq[k] <= seq[i])
      <4>1. ASSUME NEW j \in 1..k PROVE seq[j] <= seq[k]
        <5>1. seq[j] \in Nat /\ seq[i] \in Nat /\ seq[k] \in Nat
          BY <3>2, <3>4
        <5>2. CASE j = k
          BY <5>1, <5>2
        <5>3. CASE j \in 1..(k - 1)
          BY <3>1, <3>6, <5>1, <5>3
        <5>4. QED
          BY <3>3, <5>2, <5>3
      <4>2. QED
        BY <2>1, <4>1
    <3>7. QED
      BY <3>5, <3>6
  <2>4. QED
    BY <2>2, <2>3
<1>. HIDE DEF S
<1>3. 0..n \subseteq S
  BY <1>1, <1>2, Upwards, Zenon
<1>4. PICK i \in 1..n : \A j \in 1..n : seq[j] <= seq[i]
  <2>1. n \in S /\ n # 0
    BY <1>3
  <2>2. QED
    BY <2>1, Zenon DEF S
<1>. DEFINE V == {seq[k] : k \in DOMAIN seq}
<1>5. seq[i] \in V /\ \A y \in V : seq[i] >= y
  BY <1>4
<1>6. Largest(seq) = CHOOSE x \in V : \A y \in V : x >= y
  BY Zenon DEF Largest, Max
<1>. HIDE DEF V
<1>7. Largest(seq) \in V /\ \A y \in V : Largest(seq) >= y
  BY <1>5, <1>6
<1>8. QED
  BY <1>7 DEF V

PlateOfFile == [number : Nat, values : [time : MetadataValue, layers : MetadataValue, shared : MetadataValue],
                images : SUBSET Nat]

ThreeMFTyped ==
    /\ entries \in Archive
    /\ mfPhase \in {"metadata", "plates", "thumbnails", "normalize", "done"}
    /\ entry \in 1..(Len(entries) + 1)
    /\ plates \in Seq(PlateOfFile)

\* The plates are those of the entries S, one each, in some order.
ComeFrom(S) == \E o \in Bijection(DOMAIN plates, S) : \A i \in DOMAIN plates : plates[i] = Plate(o[i])

ReadSoFar == {e \in EntriesOf("plate") : e < entry}

PlatesInOrder == \A i, k \in DOMAIN plates : i < k => plates[i].number < plates[k].number

ThreeMFInv ==
    /\ ThreeMFTyped
    /\ mfPhase \in {"metadata", "plates"} => ComeFrom(ReadSoFar)
    /\ mfPhase \in {"thumbnails", "normalize", "done"} => PlatesInOrder /\ ComeFrom(EntriesOf("plate"))
    /\ mfPhase = "done" /\ Len(plates) > 1 =>
          /\ top.time = Total(PlateValues("time"), Len(plates))
          /\ top.layers = Largest(PlateValues("layers"))

LEMMA ThreeMFInvInit == ASSUME NEW A, ThreeMFInit(A), A \subseteq Archive PROVE ThreeMFInv
<1>1. entries \in Archive /\ mfPhase = "metadata" /\ entry = 1 /\ plates = << >>
  BY DEF ThreeMFInit
<1>2. Len(entries) \in Nat
  BY <1>1 DEF Archive
<1>3. ThreeMFTyped
  BY <1>1, <1>2 DEF ThreeMFTyped
<1>4. ReadSoFar = {}
  <2>1. DOMAIN entries = 1..Len(entries)
    BY <1>1 DEF Archive
  <2>2. QED
    BY <1>1, <1>2, <2>1 DEF ReadSoFar, EntriesOf
<1>5. DOMAIN plates = {}
  BY <1>1
<1>6. << >> \in Bijection({}, {})
  BY DEF Bijection, Injection, Surjection, IsInjective
<1>7. ComeFrom(ReadSoFar)
  BY <1>4, <1>5, <1>6 DEF ComeFrom
<1>8. QED
  BY <1>1, <1>3, <1>7 DEF ThreeMFInv

\* A plate is a plate.
LEMMA PlateIs ==
    ASSUME ThreeMFTyped
    PROVE  /\ DOMAIN entries = 1..Len(entries) /\ Len(entries) \in Nat
           /\ DOMAIN plates = 1..Len(plates) /\ Len(plates) \in Nat
           /\ \A e \in DOMAIN entries : entries[e] \in ZipEntry /\ Plate(e) \in PlateOfFile
           /\ \A e \in DOMAIN entries : /\ Plate(e).number = entries[e].plate
                                         /\ Plate(e).values = entries[e].values
                                         /\ Plate(e).images = ImagesOf(entries[e].plate)
<1>1. entries \in Seq(ZipEntry) /\ plates \in Seq(PlateOfFile)
  BY DEF ThreeMFTyped, Archive
<1>2. DOMAIN entries = 1..Len(entries) /\ Len(entries) \in Nat /\ DOMAIN plates = 1..Len(plates) /\ Len(plates) \in Nat
  BY <1>1
<1>3. ASSUME NEW e \in DOMAIN entries PROVE entries[e] \in ZipEntry /\ Plate(e) \in PlateOfFile
  <2>1. entries[e] \in ZipEntry
    BY <1>1
  <2>2. \A n : ImagesOf(n) \in SUBSET Nat
    BY <1>2 DEF ImagesOf, EntriesOf
  <2>3. QED
    BY <2>1, <2>2 DEF Plate, PlateOfFile, ZipEntry
<1>4. QED
  BY <1>2, <1>3 DEF Plate

LEMMA EntriesStay ==
    ASSUME entries' = entries
    PROVE  /\ EntriesOf("plate")' = EntriesOf("plate")
           /\ \A i : Plate(i)' = Plate(i)
BY DEF EntriesOf, Plate, ImagesOf

LEMMA ReadPlateInv == ASSUME ThreeMFInv, ReadPlate PROVE ThreeMFInv'
<1>1. /\ ThreeMFTyped /\ ComeFrom(ReadSoFar) /\ mfPhase = "plates" /\ entry <= Len(entries)
      /\ entry' = entry + 1 /\ entries' = entries /\ mfPhase' = "plates"
  BY DEF ThreeMFInv, ReadPlate
<1>2. entry \in DOMAIN entries /\ entry' \in 1..(Len(entries) + 1)
  BY <1>1, PlateIs DEF ThreeMFTyped
<1>3. PICK o \in Bijection(DOMAIN plates, ReadSoFar) : \A i \in DOMAIN plates : plates[i] = Plate(o[i])
  BY <1>1 DEF ComeFrom
<1>4. ReadSoFar' = {e \in EntriesOf("plate") : e < entry + 1}
  BY <1>1, EntriesStay DEF ReadSoFar
<1>5. \A e \in DOMAIN entries : e < entry + 1 <=> e < entry \/ e = entry
  BY <1>2, PlateIs, <1>1
<1>6. EntriesOf("plate") \subseteq DOMAIN entries
  BY DEF EntriesOf
<1>7. CASE entries[entry].kind # "plate"
  <2>1. plates' = plates
    BY <1>7 DEF ReadPlate
  <2>2. entry \notin EntriesOf("plate")
    BY <1>7 DEF EntriesOf
  <2>3. ReadSoFar' = ReadSoFar
    BY <1>4, <1>5, <1>6, <2>2 DEF ReadSoFar
  <2>4. ComeFrom(ReadSoFar)'
    BY <1>1, <1>3, <2>1, <2>3, EntriesStay DEF ComeFrom
  <2>5. QED
    BY <1>1, <1>2, <2>1, <2>4 DEF ThreeMFInv, ThreeMFTyped
<1>8. CASE entries[entry].kind = "plate"
  <2>. DEFINE n == Len(plates)
              f == [i \in 1..(n + 1) |-> IF i = n + 1 THEN entry ELSE o[i]]
  <2>1. plates' = Append(plates, Plate(entry))
    BY <1>8 DEF ReadPlate
  <2>2. entry \in EntriesOf("plate") /\ entry \notin ReadSoFar
    BY <1>1, <1>2, <1>8, PlateIs DEF EntriesOf, ReadSoFar
  <2>3. ReadSoFar' = ReadSoFar \cup {entry}
    BY <1>4, <1>5, <1>6, <2>2 DEF ReadSoFar
  <2>4. Plate(entry) \in PlateOfFile /\ plates \in Seq(PlateOfFile) /\ n \in Nat /\ DOMAIN plates = 1..n
    BY <1>1, <1>2, PlateIs DEF ThreeMFTyped
  <2>5. plates' \in Seq(PlateOfFile) /\ DOMAIN plates' = 1..(n + 1)
    BY <2>1, <2>4
  <2>6. f \in Bijection(1..(n + 1), ReadSoFar \cup {entry})
    BY <1>3, <2>2, <2>4, BijectionLonger
  <2>7. ASSUME NEW i \in 1..(n + 1) PROVE plates'[i] = Plate(f[i])
    <3>1. CASE i = n + 1
      BY <2>1, <2>4, <3>1
    <3>2. CASE i # n + 1
      <4>1. i \in 1..n
        BY <2>4, <3>2
      <4>2. f[i] = o[i] /\ plates'[i] = plates[i]
        BY <2>1, <2>4, <3>2, <4>1
      <4>3. QED
        BY <1>3, <2>4, <4>1, <4>2
    <3>3. QED
      BY <3>1, <3>2
  <2>. HIDE DEF f
  <2>8. ComeFrom(ReadSoFar)'
    <3>1. PICK g \in Bijection(1..(n + 1), ReadSoFar') : \A i \in 1..(n + 1) : plates'[i] = Plate(g[i])
      BY <2>3, <2>6, <2>7, Zenon
    <3>2. QED
      BY <1>1, <2>5, <3>1, EntriesStay DEF ComeFrom
  <2>9. QED
    BY <1>1, <1>2, <2>5, <2>8 DEF ThreeMFInv, ThreeMFTyped
<1>9. QED
  BY <1>7, <1>8

\* Plates that come from different entries have different numbers.
LEMMA SortPlatesInv == ASSUME ThreeMFInv, SortPlates PROVE ThreeMFInv'
<1>1. /\ ThreeMFTyped /\ ComeFrom(ReadSoFar) /\ entry > Len(entries)
      /\ entry' = entry /\ entries' = entries /\ mfPhase' = "thumbnails"
  BY DEF ThreeMFInv, SortPlates
<1>2. PICK order \in Bijection(DOMAIN plates, DOMAIN plates) :
         IsSorted(order) /\ plates' = [i \in DOMAIN plates |-> plates[order[i]]]
  BY DEF SortPlates
<1>3. PICK o \in Bijection(DOMAIN plates, ReadSoFar) : \A i \in DOMAIN plates : plates[i] = Plate(o[i])
  BY <1>1 DEF ComeFrom
<1>. DEFINE D == DOMAIN plates
            f == [i \in D |-> o[order[i]]]
<1>4. ReadSoFar = EntriesOf("plate")
  <2>1. ASSUME NEW e \in EntriesOf("plate") PROVE e < entry
    BY <1>1, PlateIs DEF EntriesOf, ThreeMFTyped
  <2>2. QED
    BY <2>1 DEF ReadSoFar
<1>5. DOMAIN plates' = D /\ \A i \in D : order[i] \in D /\ plates'[i] = plates[order[i]]
  BY <1>2 DEF Bijection, Injection
<1>6. plates' \in Seq(PlateOfFile)
  <2>1. D = 1..Len(plates) /\ Len(plates) \in Nat
    BY <1>1, PlateIs
  <2>2. \A i \in D : plates[i] \in PlateOfFile
    BY <1>1 DEF ThreeMFTyped
  <2>3. plates' \in [1..Len(plates) -> PlateOfFile]
    BY <1>2, <1>5, <2>1, <2>2
  <2>4. QED
    BY <2>1, <2>3
<1>7. ComeFrom(EntriesOf("plate"))'
  <2>1. f \in Bijection(D, EntriesOf("plate"))
    BY <1>2, <1>3, <1>4, BijectionOrdered
  <2>2. \A i \in D : plates'[i] = Plate(f[i])
    BY <1>3, <1>5
  <2>. HIDE DEF f
  <2>3. PICK g \in Bijection(D, EntriesOf("plate")) : \A i \in D : plates'[i] = Plate(g[i])
    BY <2>1, <2>2, Zenon
  <2>4. QED
    BY <1>1, <1>5, <2>3, EntriesStay DEF ComeFrom
<1>8. PlatesInOrder'
  <2>1. ASSUME NEW i \in D, NEW k \in D, i < k PROVE plates'[i].number < plates'[k].number
    <3>. DEFINE a == order[i]
                b == order[k]
    <3>1. a \in D /\ b \in D /\ plates'[i] = plates[a] /\ plates'[k] = plates[b]
      BY <1>5
    <3>2. o \in [D -> ReadSoFar] /\ \A x, y \in D : o[x] = o[y] => x = y
      BY <1>3 DEF Bijection, Injection, IsInjective
    <3>3. CASE plates[a].number < plates[b].number
      BY <3>1, <3>3
    <3>4. CASE plates[a].number = plates[b].number /\ a < b
      <4>1. /\ o[a] \in DOMAIN entries /\ o[b] \in DOMAIN entries
            /\ entries[o[a]].kind = "plate" /\ entries[o[b]].kind = "plate"
        BY <1>4, <3>1, <3>2 DEF EntriesOf
      <4>2. entries[o[a]].plate = entries[o[b]].plate
        BY <1>1, <1>3, <3>1, <3>4, <4>1, PlateIs
      <4>3. o[a] = o[b]
        BY <1>1, <4>1, <4>2 DEF ThreeMFTyped, Archive
      <4>4. a = b
        BY <3>1, <3>2, <4>3
      <4>5. QED
        BY <1>1, <3>1, <3>4, <4>4, PlateIs
    <3>5. QED
      BY <1>2, <2>1, <3>3, <3>4 DEF IsSorted
  <2>2. QED
    BY <1>5, <2>1 DEF PlatesInOrder
<1>9. QED
  BY <1>1, <1>6, <1>7, <1>8 DEF ThreeMFInv, ThreeMFTyped

LEMMA ThreeMFInvNext == ASSUME ThreeMFInv, ThreeMFNext PROVE ThreeMFInv'
<1>1. CASE ReadMetadata
  <2>1. UNCHANGED <<entries, entry, plates>> /\ mfPhase = "metadata" /\ mfPhase' = "plates"
    BY <1>1 DEF ReadMetadata
  <2>2. ComeFrom(ReadSoFar)'
    BY <2>1, EntriesStay DEF ThreeMFInv, ComeFrom, ReadSoFar
  <2>3. QED
    BY <2>1, <2>2 DEF ThreeMFInv, ThreeMFTyped
<1>2. CASE ExtractThumbnails
  <2>1. UNCHANGED <<entries, entry, plates>> /\ mfPhase = "thumbnails" /\ mfPhase' = "normalize"
    BY <1>2 DEF ExtractThumbnails
  <2>2. PlatesInOrder' /\ ComeFrom(EntriesOf("plate"))'
    BY <2>1, EntriesStay DEF ThreeMFInv, ComeFrom, PlatesInOrder
  <2>3. QED
    BY <2>1, <2>2 DEF ThreeMFInv, ThreeMFTyped
<1>3. CASE Normalize
  <2>1. UNCHANGED <<entries, entry, plates>> /\ mfPhase = "normalize" /\ mfPhase' = "done"
    BY <1>3 DEF Normalize
  <2>2. PlatesInOrder' /\ ComeFrom(EntriesOf("plate"))'
    BY <2>1, EntriesStay DEF ThreeMFInv, ComeFrom, PlatesInOrder
  <2>3. ASSUME Len(plates) > 1
        PROVE  /\ top'.time = Total(PlateValues("time"), Len(plates))
               /\ top'.layers = Largest(PlateValues("layers"))
    <3>1. plates # << >> /\ Len(plates) # 1
      BY <2>3
    <3>2. QED
      BY <1>3, <3>1 DEF Normalize
  <2>4. \A field : PlateValues(field)' = PlateValues(field)
    BY <2>1 DEF PlateValues
  <2>5. QED
    BY <2>1, <2>2, <2>3, <2>4 DEF ThreeMFInv, ThreeMFTyped
<1>4. QED
  BY <1>1, <1>2, <1>3, ReadPlateInv, SortPlatesInv DEF ThreeMFNext

LEMMA ThreeMFUnchanged == ASSUME ThreeMFInv, UNCHANGED threemfVars PROVE ThreeMFInv'
<1>1. UNCHANGED <<entries, mfPhase, entry, plates, top>>
  BY DEF threemfVars
<1>2. \A S : ComeFrom(S)' <=> ComeFrom(S)
  BY <1>1, EntriesStay DEF ComeFrom
<1>3. ReadSoFar' = ReadSoFar /\ EntriesOf("plate")' = EntriesOf("plate") /\ PlatesInOrder' = PlatesInOrder
  BY <1>1, EntriesStay DEF ReadSoFar, PlatesInOrder
<1>4. \A field : PlateValues(field)' = PlateValues(field)
  BY <1>1 DEF PlateValues
<1>5. QED
  BY <1>1, <1>2, <1>3, <1>4 DEF ThreeMFInv, ThreeMFTyped

LEMMA PlatesAreAll == ASSUME ThreeMFInv PROVE PlatesAddUp
<1>. SUFFICES ASSUME mfPhase = "done" PROVE PlatesAddUp
  BY DEF PlatesAddUp
<1>. DEFINE n == Len(plates)
            m == Len(entries)
            D == DOMAIN plates
            P == EntriesOf("plate")
<1>1. ThreeMFTyped /\ PlatesInOrder /\ ComeFrom(P)
  BY DEF ThreeMFInv
<1>2. D = 1..n /\ n \in Nat /\ DOMAIN entries = 1..m /\ m \in Nat
  BY <1>1, PlateIs
<1>3. PICK o \in Bijection(D, P) : \A i \in D : plates[i] = Plate(o[i])
  BY <1>1 DEF ComeFrom
<1>4. /\ o \in [D -> P]
      /\ \A i, k \in D : o[i] = o[k] => i = k
      /\ \A e \in P : \E i \in D : o[i] = e
  BY <1>3 DEF Bijection, Injection, Surjection, IsInjective
<1>5. P \subseteq 1..m /\ \A e \in 1..m : e \in P <=> entries[e].kind = "plate"
  BY <1>2 DEF EntriesOf
<1>6. \A i \in D : /\ plates[i].number = entries[o[i]].plate
                   /\ plates[i].values = entries[o[i]].values
                   /\ plates[i].images = ImagesOf(entries[o[i]].plate)
                   /\ o[i] \in P
  BY <1>1, <1>2, <1>3, <1>4, <1>5, PlateIs
<1>7. n = Cardinality(P)
  BY <1>2, <1>3, FS_CountingElements DEF ExistsBijection
<1>8. \A i, k \in D : i < k => plates[i].number < plates[k].number
  BY <1>1 DEF PlatesInOrder
<1>9. ASSUME NEW i \in D
      PROVE  /\ {e \in EntriesOf("image") : entries[e].plate = plates[i].number} \subseteq plates[i].images
             /\ \E e \in P : entries[e].plate = plates[i].number /\ entries[e].values = plates[i].values
  BY <1>6 DEF ImagesOf
<1>10. \A e \in 1..m : /\ entries[e].values \in [time : MetadataValue, layers : MetadataValue, shared : MetadataValue]
                       /\ OrZero(entries[e].values.time) \in Nat
                       /\ OrZero(entries[e].values.layers) \in Nat
  BY <1>1, <1>2, PlateIs DEF ZipEntry, MetadataValue, OrZero, OrElse, None
<1>11. \A i \in D : /\ PlateValues("time")[i] = OrZero(entries[o[i]].values.time)
                    /\ PlateValues("layers")[i] = OrZero(entries[o[i]].values.layers)
  BY <1>6 DEF PlateValues
<1>12. ASSUME n > 1
       PROVE  /\ top.time = Total(PrintTimes, m)
              /\ \A e \in P : top.layers >= OrZero(entries[e].values.layers)
              /\ \E i \in DOMAIN PerPlate : top.layers = OrZero(PerPlate[i].layers)
  <2>1. top.time = Total(PlateValues("time"), n) /\ top.layers = Largest(PlateValues("layers"))
    BY <1>12 DEF ThreeMFInv
  <2>2. Total(PlateValues("time"), n) = Total(PrintTimes, m)
    <3>. DEFINE v == [e \in 1..m |-> OrZero(entries[e].values.time)]
                s == PlateValues("time")
                T == Picked(v, o, n, m)
    <3>1. v \in [1..m -> Nat] /\ o \in [1..n -> 1..m] /\ \A i, k \in 1..n : o[i] = o[k] => i = k
      BY <1>2, <1>4, <1>5, <1>10
    <3>2. Len(s) = n
      BY <1>2 DEF PlateValues
    <3>3. \A i \in 1..n : s[i] = v[o[i]]
      BY <1>2, <1>5, <1>6, <1>11
    <3>4. PrintTimes = T
      <4>1. ASSUME NEW e \in 1..m PROVE (\E i \in 1..n : o[i] = e) <=> entries[e].kind = "plate"
        BY <1>2, <1>4, <1>5, <1>6
      <4>2. T = [e \in 1..m |-> IF \E i \in 1..n : o[i] = e THEN v[e] ELSE 0]
        BY Zenon DEF Picked
      <4>. HIDE DEF T
      <4>3. \A e \in 1..m : T[e] = IF entries[e].kind = "plate" THEN OrZero(entries[e].values.time) ELSE 0
        BY <4>1, <4>2
      <4>4. QED
        BY <1>2, <4>2, <4>3 DEF PrintTimes
    <3>. HIDE DEF v, s
    <3>5. Total(s, n) = Total(T, m)
      <4>. HIDE DEF n, m
      <4>1. IsPicked(s, v, o, n, m)
        BY <1>2, <3>1, <3>2, <3>3 DEF IsPicked
      <4>2. AddsUp(s, v, o, n, m)
        BY <4>1, TotalOfPicked, Zenon
      <4>3. QED
        BY <4>2, Zenon DEF AddsUp
    <3>6. QED
      BY <3>4, <3>5 DEF s
  <2>3. /\ \E i \in 1..n : top.layers = PlateValues("layers")[i]
        /\ \A i \in 1..n : PlateValues("layers")[i] <= top.layers
    <3>. DEFINE s == PlateValues("layers")
    <3>1. DOMAIN s = 1..n
      BY <1>2 DEF PlateValues
    <3>2. \A i \in 1..n : s[i] \in Nat
      BY <1>2, <1>5, <1>6, <1>10, <1>11
    <3>. HIDE DEF s
    <3>3. /\ \E i \in 1..n : Largest(s) = s[i]
          /\ \A i \in 1..n : s[i] <= Largest(s)
      BY <1>2, <1>12, <3>1, <3>2, LargestIs
    <3>4. QED
      BY <2>1, <3>3 DEF s
  <2>4. \A e \in P : top.layers >= OrZero(entries[e].values.layers)
    <3>1. ASSUME NEW e \in P PROVE top.layers >= OrZero(entries[e].values.layers)
      <4>1. PICK i \in D : o[i] = e
        BY <1>4
      <4>2. PlateValues("layers")[i] <= top.layers /\ PlateValues("layers")[i] = OrZero(entries[e].values.layers)
        BY <1>2, <1>11, <2>3, <4>1
      <4>3. QED
        BY <4>2
    <3>2. QED
      BY <3>1
  <2>5. \E i \in DOMAIN PerPlate : top.layers = OrZero(PerPlate[i].layers)
    <3>1. PICK i \in 1..n : top.layers = PlateValues("layers")[i]
      BY <2>3
    <3>2. PerPlate = [k \in D |-> [plates[k].values EXCEPT !.shared = top.shared]]
      BY <1>2, <1>12 DEF PerPlate
    <3>3. plates[i].values \in [time : MetadataValue, layers : MetadataValue, shared : MetadataValue]
      BY <1>2, <1>5, <1>6, <1>10
    <3>4. PerPlate[i].layers = plates[i].values.layers
      BY <1>2, <3>2, <3>3
    <3>5. PlateValues("layers")[i] = OrZero(plates[i].values.layers)
      BY <1>2 DEF PlateValues
    <3>6. QED
      BY <1>2, <3>1, <3>2, <3>4, <3>5
  <2>6. QED
    BY <2>1, <2>2, <2>4, <2>5
<1>13. QED
  BY <1>7, <1>8, <1>9, <1>12 DEF PlatesAddUp

-----------------------------------------------------------------------------
(* FileParsers.                                                            *)

ParserInv == BGCodeInv /\ QoiInv /\ GCodeInv /\ HsInv /\ ThreeMFInv

LEMMA ParserInvInit == ParserInit => ParserInv
<1> SUFFICES ASSUME ParserInit PROVE ParserInv
  OBVIOUS
<1>1. /\ Only("bgcode", BGCodeFiles) \subseteq BGCode
      /\ Only("image", Images) \subseteq Seq(Pixel)
      /\ Only("gcode", GCodeFiles) \subseteq Seq(Line)
  <2>1. /\ (CHOOSE f \in BGCodeFiles : TRUE) \in BGCodeFiles
        /\ (CHOOSE f \in Images : TRUE) \in Images
        /\ (CHOOSE f \in GCodeFiles : TRUE) \in GCodeFiles
    BY ParserAssumption
  <2>2. QED
    BY <2>1, ParserAssumption DEF Only
<1>2. BGCodeInit(BGCode) /\ QoiInit(Seq(Pixel)) /\ GCodeInit(Seq(Line))
  BY <1>1 DEF ParserInit, BGCodeInit, QoiInit, GCodeInit
<1>3. HeatshrinkInit(Only("block", Encodings)) /\ \A e \in Only("block", Encodings) : IsEncoding(e)
  <2>1. (CHOOSE f \in Encodings : TRUE) \in Encodings
    BY ParserAssumption
  <2>2. QED
    BY <2>1, ParserAssumption, Zenon DEF ParserInit, Only
<1>4. HsInv
  BY <1>3, HsInvInit, Zenon
<1>5. ThreeMFInv
  <2>1. (CHOOSE f \in Archives : TRUE) \in Archives
    BY ParserAssumption
  <2>2. Only("3mf", Archives) \subseteq Archive
    BY <2>1, ParserAssumption DEF Only
  <2>3. QED
    BY <2>2, ThreeMFInvInit DEF ParserInit
<1>6. QED
  BY <1>2, <1>4, <1>5, BGCodeInvInit, QoiInvInit, GCodeInvInit DEF ParserInv

LEMMA QoiUnchanged == ASSUME QoiInv, UNCHANGED qoiVars PROVE QoiInv'
<1>1. \A n, h : Seen(n, h)' = Seen(n, h)
  BY DEF qoiVars, Seen
<1>2. \A h : ColorAt(h)' = ColorAt(h)
  BY DEF qoiVars, ColorAt
<1>3. QED
  BY <1>1, <1>2 DEF QoiInv, QoiTyped, DecodedIsImage, Before, qoiVars

LEMMA GCodeUnchanged == ASSUME GCodeInv, UNCHANGED gcodeVars PROVE GCodeInv'
<1>0. /\ lines' = lines /\ footerFrom' = footerFrom /\ gPhase' = gPhase /\ cursor' = cursor
      /\ metadata' = metadata /\ thumbnails' = thumbnails /\ current' = current
  BY DEF gcodeVars
<1>1. GCodeTyped'
  BY <1>0 DEF GCodeInv, GCodeTyped
<1>2. \A k, N : KeyLines(k, N)' = KeyLines(k, N)
  BY <1>0 DEF KeyLines
<1>3. HeaderLines' = HeaderLines /\ \A n, k, N : IsFirst(n, k, N)' = IsFirst(n, k, N)
  BY <1>0, <1>2 DEF HeaderLines, IsFirst
<1>4. KeysAreFirst' = KeysAreFirst
  BY <1>0, <1>2, <1>3 DEF KeysAreFirst
<1>5. KeysInv'
  BY <1>0, <1>4 DEF GCodeInv, KeysInv
<1>6. \A kind, a, b : Between(kind, a, b)' = Between(kind, a, b)
  BY <1>0 DEF Between
<1>7. /\ \A a, b : Whole(a, b)' = Whole(a, b) /\ Begun(a, b)' = Begun(a, b)
      /\ \A a : Reached(a)' = Reached(a)
      /\ \A x, a, b : AreCommentsBetween(x, a, b)' = AreCommentsBetween(x, a, b)
  BY <1>0, <1>6 DEF Whole, Begun, Reached, AreCommentsBetween
<1>8. \A ts, n : AreThumbnailsTo(ts, n)' = AreThumbnailsTo(ts, n)
  BY <1>0, <1>7 DEF AreThumbnailsTo
<1>9. \A c, n : IsInside(c, n)' = IsInside(c, n)
  BY <1>0, <1>6, <1>7 DEF IsInside
<1>10. ThumbnailsInv'
  BY <1>0, <1>8, <1>9 DEF GCodeInv, ThumbnailsInv
<1>11. QED
  BY <1>1, <1>5, <1>10 DEF GCodeInv

LEMMA ParserInvNext == ParserInv /\ [ParserNext]_parserVars => ParserInv'
<1> SUFFICES ASSUME ParserInv, [ParserNext]_parserVars PROVE ParserInv'
  OBVIOUS
<1>1. \/ BGCodeNext /\ UNCHANGED <<hsVars, qoiVars, gcodeVars, threemfVars>>
      \/ HeatshrinkNext /\ UNCHANGED <<bgcodeVars, qoiVars, gcodeVars, threemfVars>>
      \/ DecodeChunk /\ UNCHANGED <<bgcodeVars, hsVars, gcodeVars, threemfVars>>
      \/ GCodeNext /\ UNCHANGED <<bgcodeVars, hsVars, qoiVars, threemfVars>>
      \/ ThreeMFNext /\ UNCHANGED <<bgcodeVars, hsVars, qoiVars, gcodeVars>>
      \/ UNCHANGED <<bgcodeVars, hsVars, qoiVars, gcodeVars, threemfVars>>
  BY DEF ParserNext, Parses, Ends, parserVars
<1>2. QoiInv'
  BY <1>1, DecodeInv, QoiUnchanged DEF ParserInv
<1>3. GCodeInv'
  BY <1>1, GCodeInvNext, GCodeUnchanged DEF ParserInv
<1>4. BGCodeInv'
  BY <1>1, BGCodeInvNext, BGCodeUnchanged DEF ParserInv
<1>5. HsInv'
  BY <1>1, HsInvNext, HsUnchanged DEF ParserInv
<1>6. ThreeMFInv'
  BY <1>1, ThreeMFInvNext, ThreeMFUnchanged DEF ParserInv
<1>7. QED
  BY <1>2, <1>3, <1>4, <1>5, <1>6 DEF ParserInv

\* Whichever file is parsed, the invariant of its parser holds.
THEOREM ParsersKeepInv == ParserSpec => []ParserInv
BY ParserInvInit, ParserInvNext, PTL DEF ParserSpec

\* Whatever chunks the writer of an image chose, what decodeQOI has decoded
\* is the beginning of that image.
THEOREM QoiDecodes == ParserSpec => []DecodedIsImage
<1>1. ParserInv => DecodedIsImage
  BY DEF ParserInv, QoiInv
<1>2. QED
  BY <1>1, ParsersKeepInv, PTL

\* Of every block that was compressed, over any window and with whatever
\* literals and references, HeatshrinkDecoder puts out the bytes that were
\* compressed, in their order, and drops none but of a reference with which
\* the data ends.
THEOREM HeatshrinkExpands == ParserSpec => []OutputIsExpansion
<1>1. ParserInv => OutputIsExpansion
  BY HsExpands DEF ParserInv
<1>2. QED
  BY <1>1, ParsersKeepInv, PTL

\* Of every text file GCodeParser finds each whole thumbnail that begins near
\* the start, with its lines and no others, and of each key the value that
\* takes precedence.
THEOREM GCodeIsUnderstood == ParserSpec => []FileIsUnderstood
<1>1. ParserInv => FileIsUnderstood
  BY GCodeUnderstood DEF ParserInv
<1>2. QED
  BY <1>1, ParsersKeepInv, PTL

\* Of every binary file BGCodeParser finds the blocks where its writer put
\* them, and reads the data of each before the G-code, whole and once.
THEOREM BGCodeIsRead == ParserSpec => []BlocksAreRead
<1>1. ParserInv => BlocksAreRead
  BY BGCodeReads DEF ParserInv
<1>2. QED
  BY <1>1, ParsersKeepInv, PTL

\* It accepts none whose blocks are out of the documented order, and refuses
\* none that has all types of blocks in it and nothing wrong.
THEOREM BGCodeIsAccepted == ParserSpec => []OrderDecides
<1>1. ParserInv => OrderDecides
  BY BGCodeOrder DEF ParserInv
<1>2. QED
  BY <1>1, ParsersKeepInv, PTL

\* Of every 3MF file ThreeMFParser finds each plate, with its images, in the
\* order of the numbers; the time of the file is that of its plates, and its
\* layers are those of the one that has most.
THEOREM PlatesAreFound == ParserSpec => []PlatesAddUp
<1>1. ParserInv => PlatesAddUp
  BY PlatesAreAll DEF ParserInv
<1>2. QED
  BY <1>1, ParsersKeepInv, PTL

=============================================================================
