---------------------------- MODULE FileStorage -----------------------------
(***************************************************************************)
(* FileStorageService and the handlers that put files in it, find them     *)
(* again, analyse and delete them: printer-files.controller's upload, the  *)
(* uploads of file-storage.controller and slicer-compat.controller, the    *)
(* requests that analyse a file, the deletions, and a restart between any  *)
(* two of their steps.  Downloads, which find duplicates as uploads do, are *)
(* in FileAnalysis.                                                        *)
(*                                                                         *)
(* A stored file is three things on the disk: the file, its metadata       *)
(* (<file>.json) and its directory of thumbnails.  Every operation on them *)
(* is awaited, so that handlers interleave at each; the rows of print_job  *)
(* are read and written between two awaits.  What an operation does with   *)
(* the metadata or the thumbnails left over from a file that is gone (its  *)
(* name then is that of the leftover) is not modelled.                     *)
(***************************************************************************)
EXTENDS Integers, FiniteSets
LOCAL INSTANCE TLC

CONSTANTS
    Contents,     \* what files contain; equal contents have equal hashes
    Names,        \* the names they are uploaded under
    Handlers,     \* bound: requests in flight
    MaxRows       \* bound: jobs ever created

ASSUME StorageAssumption == MaxRows \in Nat

VARIABLES
    files,        \* files in storage, by id
    json,         \* metadata: the _originalFileName in it, by id
    rows,         \* print_job: the columns about files, by job id
    lastRow,      \* last job id given
    taken,        \* ids whose file was taken away although it was in use
    handling      \* the requests in flight

diskVars == <<files, json>>

vars == <<files, json, rows, lastRow, taken, handling>>

\* getDeterministicId: made of the hash and the name, so that one content
\* under one name has one id
StorageIds == Contents \X Names

Unnamed == "unnamed"      \* a storage id used as the name of its file

NoJson == "none"

RowIds == 1..MaxRows

FileRow == [storage : StorageIds, hash : Contents, name : Names \cup {Unnamed}, analysed : BOOLEAN]

Uploads == {"printer", "storage", "slicer"}

Kinds == Uploads \cup {"analysis", "deletion"}

\* "id" is the file a request is about, "own" the content and name of what it
\* brings itself, "row" the job it is for (0 for none); "seen" is the last
\* job there was when a deletion was decided.
Request == [kind : Kinds, at : {"printer", "validate", "hash", "cached", "analyse",
                                "analyseStored", "save", "thumbs", "metadata",
                                "find", "unlink", "unlinkJson"},
            id : StorageIds, own : StorageIds, row : 0..MaxRows, seen : 0..MaxRows,
            known : BOOLEAN]

Idle == [at |-> "idle"]

StorageTypeOK ==
    /\ files \subseteq StorageIds
    /\ json \in [StorageIds -> Names \cup {NoJson, Unnamed}]
    /\ lastRow \in 0..MaxRows
    /\ DOMAIN rows \subseteq 1..lastRow
    /\ rows \in [DOMAIN rows -> FileRow]
    /\ taken \subseteq StorageIds
    /\ handling \in [Handlers -> Request \cup {Idle}]

StorageInit ==
    /\ files = {}
    /\ json = [i \in StorageIds |-> NoJson]
    /\ rows = [j \in {} |-> {}]
    /\ lastRow = 0
    /\ taken = {}
    /\ handling = [h \in Handlers |-> Idle]

-----------------------------------------------------------------------------
(* Rows and requests.                                                      *)

Put(j, row) == [k \in DOMAIN rows \cup {j} |-> IF k = j THEN row ELSE rows[k]]

\* Fault: looks the file up by its name.
DuplicatesByName(c, n) ==
    LET same == {j \in DOMAIN rows : rows[j].name = n}
    IN  {j \in same : \A k \in same : k <= j}

\* findDuplicateByHash: the last created row with the hash, as a set
Duplicates(c, n) ==
    LET same == {j \in DOMAIN rows : rows[j].hash = c}
    IN  {j \in same : \A k \in same : k <= j}

Begin(h, kind, at, id, row) ==
    /\ handling[h] = Idle
    /\ handling' = [handling EXCEPT ![h] =
           [kind |-> kind, at |-> at, id |-> id, own |-> id, row |-> row, seen |-> 0,
            known |-> FALSE]]

Goto(h, at) == handling' = [handling EXCEPT ![h].at = at]

Done(h) == handling' = [handling EXCEPT ![h] = Idle]

-----------------------------------------------------------------------------
(* The beginnings.  The body of an upload is in a temporary file once      *)
(* multer has read it.                                                     *)

\* uploadPrinterFile, up to the call that sends the file to the printer
UploadToPrinter(h, c, n) ==
    /\ Begin(h, "printer", "printer", <<c, n>>, 0)
    /\ UNCHANGED <<diskVars, rows, lastRow, taken>>

\* file-storage.controller and slicer-compat.controller uploadFile
UploadToStorage(h, kind, c, n) ==
    /\ Begin(h, kind, "validate", <<c, n>>, 0)
    /\ UNCHANGED <<diskVars, rows, lastRow, taken>>

\* file-storage.controller's analyzeFile keeps the name, print-job.controller's
\* reAnalyzeJob gives the file the name of the job.
AnalyseFile(h, i) ==
    /\ i \in files
    /\ Begin(h, "analysis", "analyseStored", i, 0)
    /\ UNCHANGED <<diskVars, rows, lastRow, taken>>

ReAnalyse(h, j) ==
    /\ j \in DOMAIN rows
    /\ rows[j].storage \in files
    /\ Begin(h, "analysis", "analyseStored", rows[j].storage, j)
    /\ rows' = Put(j, [rows[j] EXCEPT !.analysed = FALSE])
    /\ UNCHANGED <<diskVars, lastRow, taken>>

\* DELETE /file-storage/:id asks no job.
DeleteFile(h, i) ==
    /\ Begin(h, "deletion", "find", i, 0)
    /\ UNCHANGED <<diskVars, rows, lastRow, taken>>

\* Fault: the job itself is expected to be still among those counted.
OneOtherAtMost(j) ==
    Cardinality({k \in DOMAIN rows \ {j} : rows[k].storage = rows[j].storage}) <= 1

\* countJobsReferencingFile, once row j is gone, finds none.
FileGoesToo(j) == \A k \in DOMAIN rows \ {j} : rows[k].storage # rows[j].storage

\* print-job.controller's deleteJob with deleteFile=true
DeleteJobAndFile(h, j) ==
    /\ j \in DOMAIN rows
    /\ rows' = [k \in DOMAIN rows \ {j} |-> rows[k]]
    /\ IF FileGoesToo(j)
       THEN /\ handling[h] = Idle
            /\ handling' = [handling EXCEPT ![h] =
                   [kind |-> "deletion", at |-> "find", id |-> rows[j].storage,
                    own |-> rows[j].storage, row |-> j, seen |-> lastRow, known |-> FALSE]]
       ELSE UNCHANGED handling
    /\ UNCHANGED <<diskVars, lastRow, taken>>

\* createJobFromFile, when it has read the metadata
JobFromFile(i) ==
    /\ lastRow < MaxRows
    /\ i \in files
    /\ json[i] # NoJson
    /\ lastRow' = lastRow + 1
    /\ rows' = Put(lastRow', [storage |-> i, hash |-> i[1], name |-> json[i], analysed |-> TRUE])
    /\ UNCHANGED <<diskVars, taken, handling>>

-----------------------------------------------------------------------------
(* The ends.                                                               *)

\* createPendingJob and updateJob of an upload to a printer
SaveJob(r, i) ==
    /\ lastRow < MaxRows
    /\ lastRow' = lastRow + 1
    /\ \E a \in BOOLEAN :
          rows' = Put(lastRow', [storage |-> i, hash |-> r.own[1], name |-> r.own[2], analysed |-> a])

\* The operation a request waits for throws.  A slicer's upload goes on
\* without metadata when the analysis, the thumbnails or the metadata fail.
Fails(h) ==
    LET r == handling[h]
    IN  /\ r.at \in {"printer", "validate", "hash", "analyse", "analyseStored", "save",
                     "thumbs", "metadata"}
        /\ Done(h)
        /\ UNCHANGED <<diskVars, rows, lastRow, taken>>

-----------------------------------------------------------------------------
(* The steps.                                                              *)

\* The printer has taken the file.
Transferred(h) ==
    /\ handling[h].at = "printer"
    /\ Goto(h, "hash")
    /\ UNCHANGED <<diskVars, rows, lastRow, taken>>

\* validateUniqueFilename: refused when a stored file has the name
Validated(h) ==
    LET r      == handling[h]
        exists == \E i \in files : json[i] = r.own[2]
    IN  /\ r.at = "validate"
        /\ IF exists THEN Done(h) ELSE Goto(h, "hash")
        /\ UNCHANGED <<diskVars, rows, lastRow, taken>>

\* calculateFileHash, and findDuplicateByHash of an upload to a printer: the
\* storage of the last job with the hash is used again.
Hashed(h) ==
    LET r    == handling[h]
        dups == IF r.kind = "printer" THEN Duplicates(r.own[1], r.own[2]) ELSE {}
    IN  /\ r.at = "hash"
        /\ IF dups # {}
           THEN \E j \in dups : handling' = [handling EXCEPT ![h] =
                    [r EXCEPT !.at = "cached", !.id = rows[j].storage, !.known = rows[j].analysed]]
           ELSE Goto(h, IF r.kind = "slicer" THEN "save" ELSE "analyse")
        /\ UNCHANGED <<diskVars, rows, lastRow, taken>>

\* loadMetadata of the duplicate's file: what is there is used; else, what the
\* duplicate's row knows; else the file is analysed again.
Cached(h) ==
    LET r == handling[h]
    IN  /\ r.at = "cached"
        /\ IF r.id \in files /\ json[r.id] # NoJson
           THEN SaveJob(r, r.id) /\ Done(h)
           ELSE /\ Goto(h, IF r.known THEN "metadata" ELSE "analyseStored")
                /\ UNCHANGED <<rows, lastRow>>
        /\ UNCHANGED <<diskVars, taken>>

Analysed(h) ==
    /\ handling[h].at = "analyse"
    /\ Goto(h, "save")
    /\ UNCHANGED <<diskVars, rows, lastRow, taken>>

\* saveFile: rename, over a file of the same id if there is one
Saved(h) ==
    LET r == handling[h]
    IN  /\ r.at = "save"
        /\ files' = files \cup {r.own}
        /\ \E next \in IF r.kind = "slicer" THEN {"analyseStored"} ELSE {"thumbs", "metadata"} :
              Goto(h, next)
        /\ UNCHANGED <<json, rows, lastRow, taken>>

\* analyzeFile of a file in storage.  What it finds for a duplicate is saved
\* without its thumbnails.
AnalysedStored(h) ==
    LET r == handling[h]
    IN  /\ r.at = "analyseStored"
        /\ r.id \in files
        /\ \E next \in IF r.kind = "printer" THEN {"metadata"}
                       ELSE {"thumbs", "metadata"} : Goto(h, next)
        /\ UNCHANGED <<diskVars, rows, lastRow, taken>>

\* saveThumbnails finds the file, or saves nothing.  Of a re-analysis,
\* handleFileAnalyzed follows, which throws when the job is gone.
ThumbsSaved(h) ==
    LET r == handling[h]
    IN  /\ r.at = "thumbs"
        /\ IF r.kind = "analysis" /\ r.row # 0 /\ r.row \notin DOMAIN rows
           THEN Done(h) ELSE Goto(h, "metadata")
        /\ UNCHANGED <<diskVars, rows, lastRow, taken>>

\* The _originalFileName saveMetadata is given
NameGiven(r) ==
    IF r.kind # "analysis" THEN r.own[2]
    ELSE IF r.row \in DOMAIN rows THEN rows[r.row].name
    ELSE IF json[r.id] = NoJson THEN Unnamed ELSE json[r.id]

\* saveMetadata finds the file, or saves nothing; then the request ends.
MetadataSaved(h) ==
    LET r == handling[h]
    IN  /\ r.at = "metadata"
        /\ json' = IF r.id \in files THEN [json EXCEPT ![r.id] = NameGiven(r)] ELSE json
        /\ IF r.kind = "printer" THEN SaveJob(r, r.id)
           ELSE IF r.kind = "analysis" /\ r.row \in DOMAIN rows
           THEN rows' = Put(r.row, [rows[r.row] EXCEPT !.analysed = TRUE]) /\ UNCHANGED lastRow
           ELSE UNCHANGED <<rows, lastRow>>
        /\ Done(h)
        /\ UNCHANGED <<files, taken>>

-----------------------------------------------------------------------------
(* deleteFile                                                              *)

Found(h) ==
    LET r == handling[h]
    IN  /\ r.at = "find"
        /\ IF r.id \in files THEN Goto(h, "unlink") ELSE Done(h)
        /\ UNCHANGED <<diskVars, rows, lastRow, taken>>

\* Whether, besides deletions, a request is at work on the file of deletion r,
\* or a job names it that was not there when r was decided; a client's own
\* request asks nobody.
InUse(h, r) ==
    \/ r.row = 0
    \/ \E j \in DOMAIN rows : j > r.seen /\ rows[j].storage = r.id
    \/ \E g \in Handlers \ {h} :
          /\ handling[g] # Idle
          /\ handling[g].kind # "deletion"
          /\ handling[g].id = r.id

\* unlink throws when another deletion was faster.
Unlinked(h) ==
    LET r == handling[h]
    IN  /\ r.at = "unlink"
        /\ IF r.id \in files THEN Goto(h, "unlinkJson") ELSE Done(h)
        /\ files' = files \ {r.id}
        /\ taken' = IF InUse(h, r) THEN taken \cup {r.id} ELSE taken
        /\ UNCHANGED <<json, rows, lastRow>>

\* The directory of thumbnails is removed last.
JsonUnlinked(h) ==
    LET r == handling[h]
    IN  /\ r.at = "unlinkJson"
        /\ json' = [json EXCEPT ![r.id] = NoJson]
        /\ Done(h)
        /\ UNCHANGED <<files, rows, lastRow, taken>>

-----------------------------------------------------------------------------

\* The server stops and starts; boot clears the folder of uploads.
Restart ==
    /\ handling' = [h \in Handlers |-> Idle]
    /\ UNCHANGED <<diskVars, rows, lastRow, taken>>

Begins(h) ==
    \/ \E c \in Contents, n \in Names :
          \/ UploadToPrinter(h, c, n)
          \/ UploadToStorage(h, "storage", c, n)
          \/ UploadToStorage(h, "slicer", c, n)
    \/ \E j \in DOMAIN rows :
          \/ ReAnalyse(h, j)
          \/ DeleteJobAndFile(h, j)
    \/ \E i \in StorageIds : AnalyseFile(h, i) \/ DeleteFile(h, i)

Continues(h) ==
    \/ Fails(h) \/ Transferred(h) \/ Validated(h) \/ Hashed(h) \/ Cached(h) \/ Analysed(h)
    \/ Saved(h) \/ AnalysedStored(h) \/ ThumbsSaved(h) \/ MetadataSaved(h)
    \/ Found(h) \/ Unlinked(h) \/ JsonUnlinked(h)

StorageNext ==
    \/ \E h \in Handlers : Begins(h) \/ Continues(h)
    \/ \E i \in StorageIds : JobFromFile(i)
    \/ Restart

StorageSpec == StorageInit /\ [][StorageNext]_vars

-----------------------------------------------------------------------------
(* Properties.                                                             *)

\* A job's file is in storage, unless a client deleted it by its own request
\* or, between the decision to delete it with the last job that named it and
\* the unlink, an upload came to use it.  No failure or restart between the
\* steps of an upload, no two uploads of one content, and no count of the
\* jobs that refer to a file leaves a job without its file otherwise.
JobsKeepTheirFiles ==
    \A j \in DOMAIN rows : rows[j].storage \in files \cup taken

\* The file a job was given, whichever upload brought it and under whatever
\* name, has the contents the job was created for.
DuplicatesAreEqual == \A j \in DOMAIN rows : rows[j].storage[1] = rows[j].hash

\* For TLC: these are only compared.
Symmetry == Permutations(Names) \cup Permutations(Handlers) \cup Permutations(Contents)

=============================================================================
