-------------------------- MODULE PrinterMessages ---------------------------
(***************************************************************************)
(* PrinterEventsCache: how one message of a printer becomes several calls  *)
(* of PrintJobService and PrinterThumbnailCache.                           *)
(*                                                                         *)
(* The repository calls of a handler answer without leaving the process,   *)
(* reading a thumbnail does not: a handler is cut where it waits for the   *)
(* files of a job, and meanwhile the next messages of the same printer are *)
(* handled, operators correct jobs and printers are deleted.  Each piece   *)
(* of a handler between two waits is one action, so a message that says    *)
(* both "printing" and "finishing" may start and end a job in one step.    *)
(***************************************************************************)
EXTENDS PrintLifecycle
LOCAL INSTANCE TLC

CONSTANTS Handlers   \* bound: messages that wait for files at the same time

VARIABLES
    handling,     \* the messages being handled, by handler
    thumbs,       \* PrinterThumbnailCache: the job shown for each printer
    events,       \* PrinterEventsCache: the printers it has an entry for
    found,        \* what each job's metadata column was filled from
    asked         \* jobs whose download and analysis were asked for

messageVars == <<handling, thumbs, events, found, asked>>

vars == <<tableVars, messageVars>>

NoJob == 0

\* metadata NULL, the printer's own estimate, or the result of an analysis.
\* Whether gcodePrintTimeSeconds is among the columns of the latter two is
\* left open.
Metadata == {"none", "estimate", "analysis"}

Ends == {"no", "finished", "failed", "idle"}

\* "estimates" is decided by the row as markStarted returned it.
Handling ==
    [at : {"started"}, printer : Printers, file : Files, job : JobIds,
     ends : Ends, estimates : BOOLEAN]
    \cup [at : {"completed"}, printer : Printers, job : JobIds]

Idle == [at |-> "idle"]

MessageTypeOK ==
    /\ TableTypeOK
    /\ handling \in [Handlers -> Handling \cup {Idle}]
    /\ thumbs \in [Printers -> JobIds \cup {NoJob}]
    /\ events \subseteq Printers
    /\ found \in [JobIds -> Metadata]
    /\ asked \subseteq JobIds

MessageInit ==
    /\ TableInit
    /\ handling = [h \in Handlers |-> Idle]
    /\ thumbs = [p \in Printers |-> NoJob]
    /\ events = {}
    /\ found = [j \in JobIds |-> "none"]
    /\ asked = {}

-----------------------------------------------------------------------------
(* What the brands' messages say.  Moonraker, PrusaLink and Bambu report a *)
(* single state; OctoPrint reports flags, several of which may be up.      *)

\* "estimates": some figure about the print is in the message
Message == [printing : BOOLEAN, ends : Ends, estimates : BOOLEAN]

OctoPrintMessages ==
    [printing : BOOLEAN, ends : {"no", "finished", "failed"}, estimates : BOOLEAN]

MoonrakerMessages ==
    {m \in Message : /\ ~m.estimates
                     /\ m.printing => m.ends = "no"
                     /\ m.ends # "idle"}

PrusaLinkMessages == MoonrakerMessages

BambuMessages == {m \in Message : m.printing => m.ends = "no"}

Messages == OctoPrintMessages \cup MoonrakerMessages \cup PrusaLinkMessages \cup BambuMessages

-----------------------------------------------------------------------------
(* The calls of PrintJobService, as functions of a table t.                *)

The(S) == CHOOSE x \in S : TRUE

\* markStarted(p, f): the table it leaves, the job it returns, and what that
\* job's metadata was found from.
Started(p, f) ==
    LET current == {j \in LatestPrinting(jobs, p) : jobs[j].file = f}
        t       == Superseded(jobs, p, f)
        a       == Attributed(t, p, f)
        reused  == {j \in a : t[j].status \notin Finished}
        id      == IF current # {} THEN The(current)
                   ELSE IF reused # {} THEN The(reused) ELSE lastId + 1
    IN  [job   |-> id,
         table |-> IF current # {} THEN jobs
                   ELSE IF reused # {} THEN Save(t, id, Start(t[id], clock + 1))
                   ELSE Insert(t, NewRow(p, f, "PRINTING", FALSE, clock + 1,
                                         IF a = {} THEN "NOT_ANALYZED" ELSE t[The(a)].analysis)),
         found |-> IF id <= lastId THEN found[id]
                  ELSE IF a # {} THEN found[The(a)] ELSE "none"]

StatusOf(e) == CASE e = "finished" -> "COMPLETED" [] e = "failed" -> "FAILED"
                 [] e = "idle" -> "CANCELLED"

\* Fault: the last started row, whether it still prints or not.
EndedIfStarted(t, p, e) ==
    LET started == {j \in DOMAIN t : t[j].printer = p /\ t[j].started > 0}
        latest == {j \in started : \A k \in started : t[k].started <= t[j].started}
    IN  [j \in DOMAIN t |-> IF e # "no" /\ j \in latest THEN End(t[j], StatusOf(e)) ELSE t[j]]

\* markFinished, markFailed, or the cancellation of an idle Bambu printer
Ended(t, p, e) ==
    [j \in DOMAIN t |-> IF e # "no" /\ j \in LatestPrinting(t, p)
                        THEN End(t[j], StatusOf(e)) ELSE t[j]]

\* Fault: the printer's figures replace what is there.
EstimateReplaces(t, m, p, f) ==
    [j \in JobIds |-> IF j \in Printing(t, p) /\ t[j].file = f THEN "estimate" ELSE m[j]]

\* updateJobMetadata(p, f) with some figures: nothing when the file no longer
\* prints.  What an analysis found is kept, and completed, while the row says
\* ANALYZED; else the columns given are written over it.
WithEstimate(t, m, p, f) ==
    LET ofFile == {j \in Printing(t, p) : t[j].file = f}
    IN  [j \in JobIds |->
            IF /\ j \in ofFile
               /\ \A k \in ofFile : t[k].started <= t[j].started
               /\ ~(t[j].analysis = "ANALYZED" /\ m[j] = "analysis")
            THEN "estimate" ELSE m[j]]

\* loadPrinterThumbnail(p): the ANALYZED row with the last endedAt, one that
\* has ended before one that has not, then by startedAt.
\* Which of several ended rows ended last is not kept in the table.
ThumbnailJobs(t, p, completed) ==
    LET analysed == {j \in DOMAIN t : t[j].printer = p /\ t[j].analysis = "ANALYZED"}
        ended    == {j \in analysed : t[j].ended}
    IN  IF completed \in analysed THEN {completed}
        ELSE IF ended # {} THEN ended
        ELSE {j \in analysed : \A k \in analysed : t[k].started <= t[j].started}

-----------------------------------------------------------------------------
(* A message.                                                              *)

\* Fault: asks again when an analysis failed, and never the first time.
UnreadFailed(row) == ~row.stored /\ row.analysis = "FAILED"

\* Whether markStarted's row has no file to look at, so that the download
\* and the analysis are asked for.
Unread(row) == ~row.stored /\ row.analysis = "NOT_ANALYZED"

\* The rest of handler h, from table t and metadata m on: the progress,
\* which this model leaves out, the end of the print if the message says so,
\* and the wait for the thumbnail of a completed one.
Rest(h, t, m, p, e) ==
    LET after == Ended(t, p, e)
        done  == IF e = "finished" THEN LatestPrinting(t, p) ELSE {}
        shown == IF done = {} THEN {} ELSE ThumbnailJobs(after, p, The(done))
    IN  /\ jobs' = after
        /\ found' = m
        /\ \/ \E j \in {k \in shown : after[k].stored} :
                 handling' = [handling EXCEPT ![h] =
                                 [at |-> "completed", printer |-> p, job |-> j]]
           \/ /\ shown = {} \/ \E k \in shown : ~after[k].stored
              /\ handling' = [handling EXCEPT ![h] = Idle]

\* A message that does not say "printing", or has no file's name, and ends e:
\* the file it names plays no part.
ReceiveOther(h, p, e) ==
    /\ handling[h] = Idle
    /\ events' = events \cup {p}
    /\ Rest(h, jobs, found, p, e)
    /\ UNCHANGED <<lastId, clock, printers, thumbs, asked>>

\* A message that says f is printing: handleJobStarted waits for the files of
\* a stored job; without one the handler goes on at once.
ReceivePrinting(h, p, f, msg) ==
    LET s   == Started(p, f)
        row == s.table[s.job]
        m   == [found EXCEPT ![s.job] = s.found]
    IN  \E estimates \in IF msg.estimates /\ s.found # "none" THEN BOOLEAN ELSE {msg.estimates} :
        /\ handling[h] = Idle
        /\ s.job <= MaxJobs
        /\ s.table # jobs => clock < MaxClock
        /\ events' = events \cup {p}
        /\ lastId' = IF s.job > lastId THEN s.job ELSE lastId
        /\ clock' = IF s.table # jobs THEN clock + 1 ELSE clock
        /\ IF row.stored
           THEN /\ handling' = [handling EXCEPT ![h] =
                       [at |-> "started", printer |-> p, file |-> f, job |-> s.job,
                        ends |-> msg.ends, estimates |-> estimates]]
                /\ jobs' = s.table
                /\ found' = m
                /\ UNCHANGED asked
           ELSE /\ asked' = IF Unread(row) THEN asked \cup {s.job} ELSE asked
                /\ Rest(h, s.table, IF estimates THEN WithEstimate(s.table, m, p, f) ELSE m, p, msg.ends)
        /\ UNCHANGED <<printers, thumbs>>

\* The job's files were read, and had a thumbnail or not; the handler goes on.
ThumbnailOfStarted(h) ==
    LET r == handling[h]
    IN  /\ r.at = "started"
        /\ thumbs' \in {thumbs, [thumbs EXCEPT ![r.printer] = r.job]}
        /\ Rest(h, jobs, IF r.estimates THEN WithEstimate(jobs, found, r.printer, r.file)
                         ELSE found, r.printer, r.ends)
        /\ UNCHANGED <<lastId, clock, printers, events, asked>>

ThumbnailOfCompleted(h) ==
    LET r == handling[h]
    IN  /\ r.at = "completed"
        /\ thumbs' \in {thumbs, [thumbs EXCEPT ![r.printer] = r.job]}
        /\ handling' = [handling EXCEPT ![h] = Idle]
        /\ UNCHANGED <<tableVars, events, found, asked>>

-----------------------------------------------------------------------------
(* Beside the messages.                                                    *)

\* handleFileAnalyzed
Analysed(j) ==
    /\ j \in DOMAIN jobs
    /\ jobs' = Save(jobs, j, [jobs[j] EXCEPT !.analysis = "ANALYZED"])
    /\ found' = [found EXCEPT ![j] = "analysis"]
    /\ UNCHANGED <<lastId, clock, printers, handling, thumbs, events, asked>>

\* handlePrintersDeleted.  Nothing removes the printer's thumbnail.
ForgetEvents(p) == events' = events \ {p}

DeletedPrinter(p) ==
    /\ DeletePrinter(p)
    /\ ForgetEvents(p)
    /\ UNCHANGED <<handling, thumbs, found, asked>>

\* The row of a file sent to the printer, with the metadata of its analysis
Uploaded(p, f) ==
    /\ CreateUploadedJob(p, f)
    /\ found' = IF jobs'[lastId'].analysis = "ANALYZED"
                THEN [found EXCEPT ![lastId'] = "analysis"] ELSE found
    /\ UNCHANGED <<handling, thumbs, events, asked>>

\* The server stops and starts: what was being handled is lost, and boot
\* fills the thumbnails from the rows.
Restart ==
    /\ handling' = [h \in Handlers |-> Idle]
    /\ events' = {}
    /\ thumbs' \in {g \in [Printers -> JobIds \cup {NoJob}] :
                       \A p \in Printers : 
                          g[p] \in {j \in ThumbnailJobs(jobs, p, NoJob) : jobs[j].stored} \cup {NoJob}}
    /\ UNCHANGED <<tableVars, found, asked>>

Receive ==
    \E h \in Handlers, p \in printers :
        \/ \E e \in {msg.ends : msg \in {n \in Messages : ~n.printing}} : ReceiveOther(h, p, e)
        \/ \E f \in Files : \E msg \in {n \in Messages : n.printing} : ReceivePrinting(h, p, f, msg)

Resume == \E h \in Handlers : ThumbnailOfStarted(h) \/ ThumbnailOfCompleted(h)

MessageNext ==
    \/ Receive
    \/ Resume
    \/ \E j \in DOMAIN jobs : Analysed(j)
    \/ Operator /\ UNCHANGED messageVars
    \/ \E p \in printers, f \in Files : Uploaded(p, f)
    \/ \E p \in printers : DeletedPrinter(p)
    \/ Restart

MessageSpec == MessageInit /\ [][MessageNext]_vars

-----------------------------------------------------------------------------
(* Properties.                                                             *)

\* Whatever was waiting for files meanwhile, the rest of a handler never
\* changes a job that has finished: every call reads the table again.
MessagesLeaveFinishedAlone ==
    [][\A j \in DOMAIN jobs :
          jobs[j].status \in Finished =>
             \/ j \in DOMAIN jobs' /\ jobs'[j] = jobs[j]
             \/ Operator
             \/ Analysed(j)
             \/ \E p \in printers : DeletePrinter(p)]_vars

\* A job that prints from a file the server does not have, and that nobody
\* analysed, has had its download asked for: no path through the waits, the
\* re-prints and the operators' corrections leaves one out.
UnreadPrintIsAskedFor ==
    \A j \in DOMAIN jobs :
        jobs[j].status = "PRINTING" /\ ~jobs[j].stored /\ jobs[j].analysis = "NOT_ANALYZED"
            => j \in asked

\* print-job.service.ts:540, "If job already has ANALYZED metadata, don't
\* overwrite with incomplete data": an estimate decided on before a wait does
\* not replace the result of an analysis that ended during it.
AnalysisKept ==
    [][\A j \in DOMAIN jobs :
          /\ jobs[j].analysis = "ANALYZED" /\ found[j] = "analysis"
          => found'[j] = "analysis"]_vars

\* For TLC: these are only compared.
Symmetry == Permutations(Printers) \cup Permutations(Files) \cup Permutations(Handlers)

=============================================================================
