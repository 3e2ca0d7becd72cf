--------------------------- MODULE PrintLifecycle ---------------------------
(***************************************************************************)
(* PrintJobService and PrintJobController: what printers report and what   *)
(* operators decide about the status of a job.                             *)
(*                                                                         *)
(* PrinterEventsCache turns a message of any printer brand into calls of   *)
(* markStarted, markFinished, markFailed and handlePrintCancelled; between *)
(* them it awaits thumbnail files, so each call is an action.              *)
(***************************************************************************)
EXTENDS JobTable

\* createPendingJob and updateJob of printer-files.controller's upload: the
\* row of a file just sent to printer p and kept in storage.
CreateUploadedJob(p, f) ==
    /\ lastId < MaxJobs
    /\ p \in printers
    /\ \E a \in {"ANALYZED", "NOT_ANALYZED"} :
          jobs' = Insert(jobs, NewRow(p, f, "PENDING", TRUE, 0, a))
    /\ lastId' = lastId + 1
    /\ UNCHANGED <<clock, printers>>

-----------------------------------------------------------------------------
(* handlePrintStarted                                                      *)

\* Fault: the old row is left as it is.
NoneSuperseded(t, p, f) == t

\* A PRINTING row for another file is given up: its state is UNKNOWN.
Superseded(t, p, f) ==
    [j \in DOMAIN t |->
        IF j \in LatestPrinting(t, p) /\ t[j].file # f
        THEN End(t[j], "UNKNOWN") ELSE t[j]]

\* The row the print is attributed to, as a set of at most one id: the last
\* PENDING one for the file, else the last one for the file.
Attributed(t, p, f) ==
    LET ofFile  == {j \in DOMAIN t : t[j].printer = p /\ t[j].file = f}
        pending == {j \in ofFile : t[j].status = "PENDING"}
    IN  LatestCreated(IF pending # {} THEN pending ELSE ofFile)

Start(row, stamp) == [row EXCEPT !.status = "PRINTING", !.started = stamp]

\* markStarted: no effect while the row PRINTING last started is for this
\* file.  A finished row is not reused: a re-print is a new row, without a
\* stored file, that takes over the state of the old row's analysis.
ReportPrinting(p, f) ==
    /\ p \in printers
    /\ clock < MaxClock
    /\ \A j \in LatestPrinting(jobs, p) : jobs[j].file # f
    /\ clock' = clock + 1
    /\ LET t == Superseded(jobs, p, f)
           a == Attributed(t, p, f)
       IN  \/ \E j \in a :
                 /\ t[j].status \notin Finished
                 /\ jobs' = Save(t, j, Start(t[j], clock'))
                 /\ UNCHANGED lastId
           \/ /\ \A j \in a : t[j].status \in Finished
              /\ lastId < MaxJobs
              /\ \E state \in IF a = {} THEN {"NOT_ANALYZED"} ELSE {t[j].analysis : j \in a} :
                    jobs' = Insert(t, NewRow(p, f, "PRINTING", FALSE, clock', state))
              /\ lastId' = lastId + 1
    /\ UNCHANGED printers

-----------------------------------------------------------------------------

\* The row PRINTING last started on p ends with status s, whatever file the
\* printer's report names.
EndPrinting(p, s) ==
    /\ \E j \in LatestPrinting(jobs, p) : jobs' = Save(jobs, j, End(jobs[j], s))
    /\ UNCHANGED <<lastId, clock, printers>>

\* markFinished -> handlePrintCompleted: a file name that differs is logged.
ReportFinished(p, f) == EndPrinting(p, "COMPLETED")

\* markFailed -> handlePrintFailed: the file name is not used.  A cancelled
\* print of OctoPrint, Moonraker and PrusaLink comes here too.
ReportFailed(p, f) == EndPrinting(p, "FAILED")

\* handlePrintCancelled, of a Bambu printer that went IDLE
ReportIdle(p) == EndPrinting(p, "CANCELLED")

-----------------------------------------------------------------------------
(* print-job.controller: the operator's corrections.                       *)

Correct(j, from, row) ==
    /\ j \in DOMAIN jobs
    /\ jobs[j].status \in from
    /\ jobs' = Save(jobs, j, row)
    /\ UNCHANGED <<lastId, clock, printers>>

SetCompleted(j) == Correct(j, Statuses \ {"PENDING", "QUEUED"}, End(jobs[j], "COMPLETED"))

\* Fault: no status is refused.
SetFailedAlways(j) == Correct(j, Statuses, End(jobs[j], "FAILED"))

SetFailed(j) == Correct(j, {"UNKNOWN", "PRINTING", "CANCELLED", "COMPLETED"},
                        End(jobs[j], "FAILED"))

SetCancelled(j) == Correct(j, {"UNKNOWN", "PRINTING", "PAUSED"}, End(jobs[j], "CANCELLED"))

SetUnknown(j) == Correct(j, {"PRINTING", "PAUSED"}, [jobs[j] EXCEPT !.status = "UNKNOWN"])

\* DELETE /:id refuses a job that prints.  The queue is not compacted.
DeleteJob(j) ==
    /\ j \in DOMAIN jobs
    /\ jobs[j].status \notin {"PRINTING", "PAUSED"}
    /\ jobs' = Remove(jobs, j)
    /\ UNCHANGED <<lastId, clock, printers>>

-----------------------------------------------------------------------------

\* A message of printer p about file f
Report ==
    \E p \in printers, f \in Files :
        ReportPrinting(p, f) \/ ReportFinished(p, f) \/ ReportFailed(p, f)

Operator ==
    \E j \in DOMAIN jobs :
        SetCompleted(j) \/ SetFailed(j) \/ SetCancelled(j) \/ SetUnknown(j) \/ DeleteJob(j)

LifecycleNext ==
    \/ \E p \in printers, f \in Files : CreateUploadedJob(p, f)
    \/ Report
    \/ \E p \in printers : ReportIdle(p)
    \/ Operator
    \/ \E p \in printers : DeletePrinter(p)

LifecycleSpec == TableInit /\ [][LifecycleNext]_tableVars

-----------------------------------------------------------------------------
(* Properties.                                                             *)

\* As long as only reports start prints, a printer has at most one job
\* PRINTING, so that the reports that end a print end the right one.
OnePrintingPerPrinter ==
    \A p \in Printers : \A j, k \in Printing(jobs, p) : j = k

=============================================================================
