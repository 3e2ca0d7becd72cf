----------------------------- MODULE PrintQueue -----------------------------
(***************************************************************************)
(* PrintQueueService and PrintQueueController: the queue of each printer   *)
(* and the submission of its jobs.                                         *)
(*                                                                         *)
(* submitToPrinter emits "printQueue.jobSubmitted"; handleJobSubmission    *)
(* then uploads the file, the one await here that waits for a printer.     *)
(* "uploads" holds the handlers suspended there, each with the arguments   *)
(* it was called with; "at", the startedAt the submission wrote, tells two *)
(* submissions of one job apart.                                           *)
(***************************************************************************)
EXTENDS JobTable, Sequences

CONSTANT ReorderRequests   \* the jobIds arrays clients send to /reorder

ASSUME ReorderAssumption == ReorderRequests \subseteq Seq(JobIds)

VARIABLE uploads

queueVars == <<jobs, lastId, clock, printers, uploads>>

Upload == [job : JobIds, printer : Printers, at : 1..MaxClock,
           position : Nat \cup {Unqueued}]

QueueTypeOK ==
    /\ TableTypeOK
    /\ uploads \subseteq Upload
    /\ \A u \in uploads : u.job <= lastId /\ u.at <= clock

QueueInit == TableInit /\ uploads = {}

-----------------------------------------------------------------------------

\* Fault: the job is given to p, whatever printer it belongs to.
TakenOver(j, p) == p \in printers

\* ensurePrinterAssignment, with the foreign key on printerId: an unassigned
\* job is taken by p, a job of another printer is refused.
MayBelongTo(j, p) == p \in printers /\ jobs[j].printer \in {NoPrinter, p}

Queued(row, p, n) == [row EXCEPT !.printer = p, !.position = n, !.status = "QUEUED"]

\* addToQueue without a position, of row (already in t or about to be) as j
AppendTo(t, j, row, p) ==
    \E n \in 0..MaxPosition :
        /\ IsAppendPosition(t, p, n)
        /\ jobs' = Save(t, j, Queued(row, p, n))

\* addToQueue at a position: the rows from there on move up, j's own row too
\* if it is one of them, and then j's snapshot is saved.
InsertAt(t, j, row, p, n) ==
    /\ \A k \in Placed(t, p) : t[k].position < MaxPosition
    /\ jobs' = Save(Shift(t, p, n), j, Queued(row, p, n))

\* POST /:printerId/add/:jobId.  No status is refused.
AddToQueue(p, j) ==
    /\ j \in DOMAIN jobs
    /\ MayBelongTo(j, p)
    /\ \/ AppendTo(jobs, j, jobs[j], p)
       \/ \E n \in 0..MaxPosition : InsertAt(jobs, j, jobs[j], p, n)
    /\ UNCHANGED <<lastId, clock, printers, uploads>>

Withdrawn(row) ==
    [row EXCEPT !.position = Unqueued,
                !.status = IF row.status = "QUEUED" THEN "PENDING" ELSE row.status]

\* DELETE /:printerId/:jobId.  The request's printer is not looked at; the
\* positions behind the job close up only if it has a printer and a place.
RemoveFromQueue(j) ==
    /\ j \in DOMAIN jobs
    /\ LET row == jobs[j]
           t   == Save(jobs, j, Withdrawn(row))
       IN  jobs' = IF row.position # Unqueued /\ row.printer # NoPrinter
                   THEN Compact(t, row.printer, row.position) ELSE t
    /\ UNCHANGED <<lastId, clock, printers, uploads>>

\* PUT /:printerId/reorder: each listed job of p gets its index, the last
\* one if it is listed twice.  Status is not looked at, nor are jobs of p
\* that the list leaves out.
Listed(order) == {order[i] : i \in 1..Len(order)}

Reordered(t, p, order) ==
    [j \in DOMAIN t |->
        IF t[j].printer = p /\ j \in Listed(order)
        THEN [t[j] EXCEPT !.position =
                 (CHOOSE i \in 1..Len(order) :
                     order[i] = j /\ \A k \in 1..Len(order) : order[k] = j => k <= i) - 1]
        ELSE t[j]]

ReorderQueue(p, order) ==
    /\ jobs' = Reordered(jobs, p, order)
    /\ UNCHANGED <<lastId, clock, printers, uploads>>

\* DELETE /:printerId/clear: only rows with status QUEUED, placed or not
ClearQueue(p) ==
    /\ jobs' = [j \in DOMAIN jobs |->
                   IF jobs[j].printer = p /\ jobs[j].status = "QUEUED"
                   THEN [jobs[j] EXCEPT !.status = "PENDING", !.position = Unqueued]
                   ELSE jobs[j]]
    /\ UNCHANGED <<lastId, clock, printers, uploads>>

\* POST /:printerId/from-file, of a file kept in storage: a PENDING row whose
\* analysis is done, appended or inserted unless the client says not to.
CreateJobFromFile(p, f) ==
    /\ lastId < MaxJobs
    /\ p \in printers
    /\ LET row == NewRow(p, f, "PENDING", TRUE, 0, "ANALYZED")
           t   == Insert(jobs, row)
       IN  \/ jobs' = t
           \/ AppendTo(t, lastId + 1, row, p)
           \/ \E n \in 0..MaxPosition : InsertAt(t, lastId + 1, row, p, n)
    /\ lastId' = lastId + 1
    /\ UNCHANGED <<clock, printers, uploads>>

-----------------------------------------------------------------------------

Launched(row, p, stamp) ==
    [row EXCEPT !.printer = p, !.position = Unqueued, !.status = "PRINTING",
                !.started = stamp]

\* submitToPrinter up to the save: the job leaves the queue of p, whose later
\* positions close up even when the job's place was on no printer.
Submitted(t, p, j, stamp) ==
    Save(IF t[j].position # Unqueued THEN Compact(t, p, t[j].position) ELSE t,
         j, Launched(t[j], p, stamp))

\* POST /:printerId/submit/:jobId.  Neither the job's status nor whether the
\* printer is connected or busy is looked at.  A job without a stored file
\* fails before the handler's first await.
SubmitToPrinter(p, j) ==
    /\ clock < MaxClock
    /\ j \in DOMAIN jobs
    /\ MayBelongTo(j, p)
    /\ clock' = clock + 1
    /\ LET t == Submitted(jobs, p, j, clock')
       IN  IF jobs[j].stored
           THEN /\ jobs' = t
                /\ uploads' = uploads \cup
                     {[job |-> j, printer |-> p, at |-> clock',
                       position |-> jobs[j].position]}
           ELSE /\ jobs' = Save(t, j, End(t[j], "FAILED"))
                /\ UNCHANGED uploads
    /\ UNCHANGED <<lastId, printers>>

\* Fault: the place is given up and the gap stays.
UploadSucceedsInPlace(u) ==
    /\ u \in uploads
    /\ uploads' = uploads \ {u}
    /\ IF u.position # Unqueued /\ u.job \in DOMAIN jobs /\ jobs[u.job].position = u.position
       THEN jobs' = Save(jobs, u.job, [jobs[u.job] EXCEPT !.position = Unqueued])
       ELSE UNCHANGED jobs
    /\ UNCHANGED <<lastId, clock, printers>>

\* handleJobSubmission after uploadFile resolved.  A job that stands at the
\* captured position again is taken out of the queue; its status stays.
UploadSucceeds(u) ==
    /\ u \in uploads
    /\ uploads' = uploads \ {u}
    /\ IF /\ u.position # Unqueued
          /\ u.job \in DOMAIN jobs
          /\ jobs[u.job].position = u.position
       THEN jobs' = Compact(Save(jobs, u.job, [jobs[u.job] EXCEPT !.position = Unqueued]),
                            u.printer, u.position)
       ELSE UNCHANGED jobs
    /\ UNCHANGED <<lastId, clock, printers>>

\* handleJobSubmission's catch: uploadFile rejected, or the file or the
\* printer's API could not be had.  The row, as it is now, becomes FAILED.
UploadFails(u) ==
    /\ u \in uploads
    /\ uploads' = uploads \ {u}
    /\ jobs' = IF u.job \in DOMAIN jobs
               THEN Save(jobs, u.job, End(jobs[u.job], "FAILED")) ELSE jobs
    /\ UNCHANGED <<lastId, clock, printers>>

QueueNext ==
    \/ \E p \in printers, j \in DOMAIN jobs : AddToQueue(p, j)
    \/ \E j \in DOMAIN jobs : RemoveFromQueue(j)
    \/ \E p \in printers, order \in ReorderRequests : ReorderQueue(p, order)
    \/ \E p \in printers : ClearQueue(p)
    \/ \E p \in printers, f \in Files : CreateJobFromFile(p, f)
    \/ \E p \in printers, j \in DOMAIN jobs : SubmitToPrinter(p, j)
    \/ \E u \in uploads : UploadSucceeds(u)
    \/ \E u \in uploads : UploadFails(u)

\* The queue by itself, with the printers its jobs may lose
QueueSpec ==
    QueueInit /\ [][\/ QueueNext
                    \/ \E p \in printers : DeletePrinter(p) /\ UNCHANGED uploads]_queueVars

-----------------------------------------------------------------------------
(* What the places of a printer's jobs look like.                          *)

Distinct(t, p) ==
    \A j, k \in Placed(t, p) : t[j].position = t[k].position => j = k

\* Every place but the first has a job on the place before it.
Gapless(t, p) ==
    \A j \in Placed(t, p) :
        t[j].position > 0 => \E k \in Placed(t, p) : t[k].position = t[j].position - 1

\* The jobs not in M that have a place on p before and after keep their order.
SameOrderBut(M, p) ==
    \A j, k \in (Placed(jobs, p) \cap Placed(jobs', p)) \ M :
        jobs[j].position < jobs[k].position => jobs'[j].position < jobs'[k].position

Reordering == \E p \in printers, order \in ReorderRequests : ReorderQueue(p, order)

\* A client's list that leaves out a job with a place: that job keeps its
\* position, which a listed one may get as well.
PartialReordering ==
    \E p \in printers, order \in ReorderRequests :
        ~(Placed(jobs, p) \subseteq Listed(order)) /\ ReorderQueue(p, order)

\* submitToPrinter of a job whose place is left over from a deleted printer:
\* it compacts the queue of a printer the place never belonged to.
SubmitsOrphan ==
    \E j \in DOMAIN jobs, p \in printers :
        /\ jobs[j].printer = NoPrinter
        /\ jobs[j].position # Unqueued
        /\ SubmitToPrinter(p, j)

-----------------------------------------------------------------------------
(* Properties.                                                             *)

\* Two jobs never come to share a place of a printer, except when a client
\* reorders only some of them, or a job of a deleted printer is submitted
\* elsewhere: the shift of addToQueue, the compaction of removal, submission
\* and of a late upload, each a bulk update beside a save, do not collide.
PlacesStayDistinct ==
    [][\A p \in Printers :
          Distinct(jobs, p) => \/ Distinct(jobs', p)
                               \/ PartialReordering
                               \/ SubmitsOrphan]_queueVars

\* Unless a client reorders them, or an orphan is submitted, only the job a
\* client adds moves relative to the others: no operation on a queue swaps two
\* jobs it was not asked about.
QueueOrderKept ==
    [][\A p \in Printers :
          Distinct(jobs, p) =>
             \/ SameOrderBut({}, p)
             \/ \E m \in DOMAIN jobs : SameOrderBut({m}, p) /\ AddToQueue(p, m)
             \/ Reordering
             \/ SubmitsOrphan]_queueVars

\* Taking a job out, by removal, by submission or by an upload that ends
\* after the job was queued again, closes the gap it leaves.
RemovalClosesGap ==
    [][\A p \in Printers : \A j \in Placed(jobs, p) :
          /\ Distinct(jobs, p) /\ Gapless(jobs, p)
          /\ \/ RemoveFromQueue(j)
             \/ SubmitToPrinter(p, j)
             \/ \E u \in uploads : u.job = j /\ u.printer = p /\ UploadSucceeds(u)
          => Distinct(jobs', p) /\ Gapless(jobs', p)]_queueVars

\* A row that was never started is PENDING or QUEUED, a finished row has an
\* endedAt, and a job whose submission is in flight has been started by it or
\* later.  Status and timestamps are set by different handlers, after awaits
\* during which the job may have been queued again, started or finished.
HistoryConsistent ==
    /\ \A j \in DOMAIN jobs :
          /\ jobs[j].started = 0 => jobs[j].status \in {"PENDING", "QUEUED"}
          /\ jobs[j].status \in Finished => jobs[j].ended
    /\ \A u \in uploads : u.job \in DOMAIN jobs => jobs[u.job].started >= u.at

\* A job whose file is on its way to a printer belongs to that printer until
\* the upload ends, even if meanwhile it was queued, removed or submitted
\* again, so that the upload's end closes a gap in the queue the job was in.
UploadKeepsPrinter ==
    \A u \in uploads :
        u.job \in DOMAIN jobs /\ u.printer \in printers => jobs[u.job].printer = u.printer

-----------------------------------------------------------------------------
(* What the repository says, and the code does not do.                     *)

\* print-queue.service.ts:374: a job whose submission failed is "still in
\* queue for retry".
FailedStaysQueued ==
    [][\A u \in uploads :
          UploadFails(u) /\ u.position # Unqueued /\ u.job \in DOMAIN jobs
             => u.job \in Placed(jobs', u.printer)]_queueVars

\* print-job.entity.ts:16: status QUEUED means "In printer queue".
QueuedIsInQueue ==
    \A j \in DOMAIN jobs :
        jobs[j].status = "QUEUED" => j \in Queue(jobs, jobs[j].printer)

=============================================================================
