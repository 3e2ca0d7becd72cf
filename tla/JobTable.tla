------------------------------ MODULE JobTable ------------------------------
(***************************************************************************)
(* The print_job table of FDM Monster (src/src/entities/print-job.entity)  *)
(* and the queries and bulk updates its services run on it.                *)
(*                                                                         *)
(* The database driver is better-sqlite3, which answers synchronously: a   *)
(* handler whose awaits are only repository calls runs to its end in one   *)
(* microtask chain, before any other request, timer or message.  A         *)
(* handler is therefore one action, cut where it awaits real I/O.          *)
(*                                                                         *)
(* "jobs" maps the id of every row to its columns.  Ids come from an       *)
(* AUTOINCREMENT column: "lastId" is the last one given, none is reused,   *)
(* and the order of ids is the order of createdAt.  "clock" orders the     *)
(* startedAt timestamps; 0 stands for NULL.                                *)
(***************************************************************************)
EXTENDS Integers, FiniteSets

CONSTANTS
    Printers,     \* every printer ever registered
    NoPrinter,    \* printerId NULL
    Files,        \* file names on the printers
    MaxJobs,      \* bound: rows ever created
    MaxClock,     \* bound: times a job is started
    MaxPosition   \* bound: queue positions in use

ASSUME TableAssumption ==
    /\ NoPrinter \notin Printers
    /\ MaxJobs \in Nat
    /\ MaxClock \in Nat
    /\ MaxPosition \in Nat

VARIABLES
    jobs,         \* rows of print_job, by id
    lastId,       \* last id given by AUTOINCREMENT
    clock,        \* startedAt of the last job started
    printers      \* rows of the printer table

tableVars == <<jobs, lastId, clock, printers>>

JobIds == 1..MaxJobs

Statuses == {"PENDING", "QUEUED", "STARTING", "PRINTING", "PAUSED",
             "COMPLETED", "FAILED", "CANCELLED", "UNKNOWN"}

Finished == {"COMPLETED", "FAILED", "CANCELLED"}

AnalysisStates == {"NOT_ANALYZED", "ANALYZING", "ANALYZED", "FAILED"}

\* queuePosition NULL.  Requests give positions from 0 up, so the
\* comparisons of the bulk updates below never match it, as in SQL.
Unqueued == -1

\* "stored" says fileStorageId is set, "started" is startedAt, "ended" says
\* endedAt is set.  Progress, statistics and metadata are left out.
Row == [printer  : Printers \cup {NoPrinter},
        file     : Files,
        stored   : BOOLEAN,
        status   : Statuses,
        position : Nat \cup {Unqueued},
        started  : Nat,
        ended    : BOOLEAN,
        analysis : AnalysisStates]

\* The rows of a database with printers ps whose clock shows c: printerId is
\* a foreign key, and no timestamp lies ahead.
RowOf(ps, c) ==
    {r \in Row : r.printer \in ps \cup {NoPrinter} /\ r.started <= c}

\* A table of such rows with ids up to n
IsTable(t, n, ps, c) ==
    /\ DOMAIN t \subseteq 1..n
    /\ t \in [DOMAIN t -> RowOf(ps, c)]

TableTypeOK ==
    /\ lastId \in 0..MaxJobs
    /\ clock \in 0..MaxClock
    /\ printers \subseteq Printers
    /\ IsTable(jobs, lastId, printers, clock)

TableInit ==
    /\ jobs = [j \in {} |-> {}]
    /\ lastId = 0
    /\ clock = 0
    /\ printers = Printers

-----------------------------------------------------------------------------
(* Rows.                                                                   *)

\* repository.save: an upsert of the whole row.  A snapshot whose row was
\* deleted meanwhile is inserted again, under its old id.
Save(t, j, row) == [k \in DOMAIN t \cup {j} |-> IF k = j THEN row ELSE t[k]]

\* repository.remove
Remove(t, j) == [k \in DOMAIN t \ {j} |-> t[k]]

\* The columns of a row whose creator gives printer, file and status.
NewRow(p, f, status, stored, started, analysis) ==
    [printer |-> p, file |-> f, stored |-> stored, status |-> status,
     position |-> Unqueued, started |-> started, ended |-> FALSE,
     analysis |-> analysis]

\* Every save of a new row takes the next id.
Insert(t, row) == Save(t, lastId + 1, row)

-----------------------------------------------------------------------------
(* The queue columns.                                                      *)

\* Rows of the table t with a place on printer p, whatever their status.
Placed(t, p) == {j \in DOMAIN t : t[j].printer = p /\ t[j].position # Unqueued}

\* getMaxQueuePosition(p) + 1, or 0 on an empty printer: the n this holds of.
IsAppendPosition(t, p, n) ==
    /\ \A j \in Placed(t, p) : t[j].position < n
    /\ n = 0 \/ \E j \in Placed(t, p) : t[j].position = n - 1

\* Fault: moves only the rows behind the place that is taken.
ShiftBehind(t, p, from) ==
    [j \in DOMAIN t |->
        IF t[j].printer = p /\ t[j].position > from
        THEN [t[j] EXCEPT !.position = @ + 1] ELSE t[j]]

\* Fault: moves only the row at the place that is taken.
ShiftOne(t, p, from) ==
    [j \in DOMAIN t |->
        IF t[j].printer = p /\ t[j].position = from
        THEN [t[j] EXCEPT !.position = @ + 1] ELSE t[j]]

\* shiftQueuePositions: UPDATE .. SET position + 1 WHERE position >= from
Shift(t, p, from) ==
    [j \in DOMAIN t |->
        IF t[j].printer = p /\ t[j].position >= from
        THEN [t[j] EXCEPT !.position = @ + 1] ELSE t[j]]

\* compactQueuePositions: UPDATE .. SET position - 1 WHERE position > removed
Compact(t, p, removed) ==
    [j \in DOMAIN t |->
        IF t[j].printer = p /\ t[j].position > removed
        THEN [t[j] EXCEPT !.position = @ - 1] ELSE t[j]]

\* getQueue: what the API shows as the queue of p.
Queue(t, p) == {j \in Placed(t, p) : t[j].status = "QUEUED"}

-----------------------------------------------------------------------------
(* The status columns.                                                     *)

Printing(t, p) == {j \in DOMAIN t : t[j].printer = p /\ t[j].status = "PRINTING"}

\* findOne({printerId, status: "PRINTING"}, order startedAt DESC): a set of
\* at most one id when timestamps differ.
LatestPrinting(t, p) ==
    {j \in Printing(t, p) : \A k \in Printing(t, p) : t[k].started <= t[j].started}

\* The last created of a set of ids (order createdAt DESC), as a set.
LatestCreated(S) == {j \in S : \A k \in S : k <= j}

\* A row of status s and endedAt set
End(row, s) == [row EXCEPT !.status = s, !.ended = TRUE]

-----------------------------------------------------------------------------
(* printer.controller delete and server-private deleteMany: the foreign    *)
(* key is ON DELETE SET NULL, nothing else in the row changes.             *)

\* Fault: the foreign key does nothing when its printer is deleted.
DeletePrinterOnly(p) ==
    /\ p \in printers
    /\ printers' = printers \ {p}
    /\ UNCHANGED <<jobs, lastId, clock>>

DeletePrinter(p) ==
    /\ p \in printers
    /\ printers' = printers \ {p}
    /\ jobs' = [j \in DOMAIN jobs |->
                   IF jobs[j].printer = p
                   THEN [jobs[j] EXCEPT !.printer = NoPrinter] ELSE jobs[j]]
    /\ UNCHANGED <<lastId, clock>>

=============================================================================
