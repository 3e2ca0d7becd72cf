---------------------------- MODULE FileAnalysis ----------------------------
(***************************************************************************)
(* The workers that fetch and analyse the file of a job, beside PrintFarm: *)
(*   - PrintJobAnalysisTask, a periodic task that loads a batch of jobs    *)
(*     and analyses them one after the other;                              *)
(*   - PrintFileDownloaderService, one handler per needsFileDownload event,*)
(*     that downloads the file of a job from its printer;                  *)
(*   - the re-analyze request of PrintJobController.                       *)
(* Unlike the handlers of PrintFarm they keep the row they read while they *)
(* wait for printers and files, and then save that snapshot whole.         *)
(***************************************************************************)
EXTENDS PrintFarm

CONSTANTS
    Workers,      \* bound: downloads and re-analyses in flight
    MaxRestarts   \* bound: times the server is restarted

ASSUME WorkerAssumption == MaxRestarts \in Nat

VARIABLES
    task,         \* the analysis task: where it is, and the snapshots to do
    worker,       \* what each download or re-analysis in flight holds
    restarts

fileVars == <<jobs, lastId, clock, printers, uploads, task, worker, restarts>>

Snapshot == [job : JobIds, row : Row]

\* "running": between two awaits of I/O, so that nothing else runs;
\* "reading": its first snapshot is being analysed.
TaskState == [at : {"idle", "running", "reading"}, todo : Seq(Snapshot)]

\* "download" waits for the printer and the analysis, "check" for the file
\* to be found, "analyze" for its analysis.
WorkerState == {[at |-> "free"]} \cup
    [at : {"download", "check", "analyze"}, job : JobIds, row : Row]

Free  == [at |-> "free"]
Idle  == [at |-> "idle", todo |-> << >>]

FileTypeOK ==
    /\ QueueTypeOK
    /\ task \in TaskState
    /\ worker \in [Workers -> WorkerState]
    /\ restarts \in 0..MaxRestarts
    /\ task.at = "idle" <=> task.todo = << >>

FileInit ==
    /\ QueueInit
    /\ task = Idle
    /\ worker = [w \in Workers |-> Free]
    /\ restarts = 0

\* A snapshot that names a printer deleted meanwhile violates the foreign
\* key: save throws.
CanSave(row) == row.printer \in printers \cup {NoPrinter}

Analysed(row, state) == [row EXCEPT !.analysis = state]

\* findOne, analysisState, save: the row as it is now, if there still is one
Refresh(t, j, state) == IF j \in DOMAIN t THEN Save(t, j, Analysed(t[j], state)) ELSE t

OthersUnchanged == UNCHANGED <<lastId, clock, printers, uploads, restarts>>

-----------------------------------------------------------------------------
(* PrintJobAnalysisTask.run                                                *)

\* Fault: a job whose analysis was cut short is not loaded again.
NeedsFirstAnalysis(row) == row.analysis = "NOT_ANALYZED" /\ row.status = "PENDING"

NeedsAnalysis(row) ==
    \/ row.analysis = "NOT_ANALYZED" /\ row.status = "PENDING"
    \/ row.analysis = "ANALYZING"

\* The query, in the order of ids.  Its limit of 10 is above MaxJobs.
Batch ==
    LET found == {j \in DOMAIN jobs : NeedsAnalysis(jobs[j])}
        nth(i) == CHOOSE j \in found : Cardinality({k \in found : k <= j}) = i
    IN  [i \in 1..Cardinality(found) |-> [job |-> nth(i), row |-> jobs[nth(i)]]]

TaskWakes ==
    /\ task.at = "idle"
    /\ Batch # << >>
    /\ task' = [at |-> "running", todo |-> Batch]
    /\ UNCHANGED <<jobs, worker>>
    /\ OthersUnchanged

\* What is left of the batch once its first job is done.
Rest == IF Len(task.todo) = 1 THEN Idle ELSE [at |-> "running", todo |-> Tail(task.todo)]

\* analyzeJob up to its first read of a file.  Each of its saves writes the
\* snapshot of the batch.  A save that throws throws again in the handler of
\* the error, which ends the run.
TaskBegins ==
    /\ task.at = "running"
    /\ LET s == Head(task.todo)
       IN  IF ~CanSave(s.row)
           THEN task' = Idle /\ UNCHANGED jobs
           ELSE IF s.row.stored
           THEN /\ jobs' = Save(jobs, s.job, Analysed(s.row, "ANALYZING"))
                /\ task' = [task EXCEPT !.at = "reading"]
           ELSE /\ jobs' = Save(jobs, s.job, Analysed(s.row, "FAILED"))
                /\ task' = Rest
    /\ UNCHANGED worker
    /\ OthersUnchanged

\* The rest of run's loop body for a job whose analysis failed
TaskFailure ==
    LET s == Head(task.todo)
    IN  IF CanSave(s.row)
        THEN jobs' = Save(jobs, s.job, Analysed(s.row, "FAILED")) /\ task' = Rest
        ELSE task' = Idle /\ UNCHANGED jobs

\* handleFileAnalyzed re-reads the job; it throws if there is none.
TaskEnds ==
    /\ task.at = "reading"
    /\ \/ /\ Head(task.todo).job \in DOMAIN jobs
          /\ jobs' = Refresh(jobs, Head(task.todo).job, "ANALYZED")
          /\ task' = Rest
       \/ TaskFailure
    /\ UNCHANGED worker
    /\ OthersUnchanged

-----------------------------------------------------------------------------
(* PrintFileDownloaderService.handleFileDownloadRequest                    *)

\* A message of a printer that prints a job without a stored file, or a
\* re-analyze request for one, and the handler up to the download: the check
\* "already has storage ID" and the snapshot.
DownloadBegins(w, j) ==
    /\ worker[w] = Free
    /\ j \in DOMAIN jobs
    /\ ~jobs[j].stored
    /\ jobs[j].printer # NoPrinter
    /\ worker' = [worker EXCEPT ![w] = [at |-> "download", job |-> j, row |-> jobs[j]]]
    /\ UNCHANGED <<jobs, task>>
    /\ OthersUnchanged

\* The snapshot is saved with the outcome of the download and the analysis,
\* or with FAILED if the printer did not deliver.  What fails otherwise, that
\* save included, marks the row as it is now.
DownloadEnds(w) ==
    /\ worker[w].at = "download"
    /\ LET j == worker[w].job
           row == worker[w].row
       IN  \/ /\ CanSave(row)
              /\ \/ jobs' = Save(jobs, j, [Analysed(row, "ANALYZED") EXCEPT !.stored = TRUE])
                 \/ jobs' = Save(jobs, j, Analysed(row, "FAILED"))
           \/ jobs' = Refresh(jobs, j, "FAILED")
    /\ worker' = [worker EXCEPT ![w] = Free]
    /\ UNCHANGED task
    /\ OthersUnchanged

-----------------------------------------------------------------------------
(* PrintJobController.reAnalyzeJob, of a job with a stored file            *)

ReanalyzeBegins(w, j) ==
    /\ worker[w] = Free
    /\ j \in DOMAIN jobs
    /\ jobs[j].stored
    /\ worker' = [worker EXCEPT ![w] = [at |-> "check", job |-> j, row |-> jobs[j]]]
    /\ UNCHANGED <<jobs, task>>
    /\ OthersUnchanged

\* The file is there: the snapshot is saved as ANALYZING.  Otherwise, and if
\* the save throws, the request ends.
ReanalyzeChecked(w) ==
    /\ worker[w].at = "check"
    /\ \/ /\ CanSave(worker[w].row)
          /\ jobs' = Save(jobs, worker[w].job, Analysed(worker[w].row, "ANALYZING"))
          /\ worker' = [worker EXCEPT ![w].at = "analyze"]
       \/ /\ worker' = [worker EXCEPT ![w] = Free]
          /\ UNCHANGED jobs
    /\ UNCHANGED task
    /\ OthersUnchanged

\* handleFileAnalyzed; a failed analysis leaves the row ANALYZING.
ReanalyzeEnds(w) ==
    /\ worker[w].at = "analyze"
    /\ \/ jobs' = Refresh(jobs, worker[w].job, "ANALYZED")
       \/ UNCHANGED jobs
    /\ worker' = [worker EXCEPT ![w] = Free]
    /\ UNCHANGED task
    /\ OthersUnchanged

-----------------------------------------------------------------------------

WorkerNext ==
    \E w \in Workers :
        \/ \E j \in DOMAIN jobs : DownloadBegins(w, j) \/ ReanalyzeBegins(w, j)
        \/ DownloadEnds(w) \/ ReanalyzeChecked(w) \/ ReanalyzeEnds(w)

RestartAll ==
    /\ restarts < MaxRestarts
    /\ restarts' = restarts + 1
    /\ Restart
    /\ task' = Idle
    /\ worker' = [w \in Workers |-> Free]

FileNext ==
    \/ TaskBegins
    \/ /\ task.at # "running"
       /\ \/ Handlers /\ UNCHANGED <<task, worker, restarts>>
          \/ TaskWakes \/ TaskEnds
          \/ WorkerNext
    \/ RestartAll

FileSpec == FileInit /\ [][FileNext]_fileVars

\* The task's timer keeps firing, and reading a local file comes to an end.
TaskFairness == WF_fileVars(TaskWakes) /\ WF_fileVars(TaskBegins) /\ WF_fileVars(TaskEnds)

FairFileSpec == FileSpec /\ TaskFairness

-----------------------------------------------------------------------------
(* Properties.                                                             *)

\* A job does not stay ANALYZING: if its analysis was cut short, by a
\* restart, a failed re-analysis, a batch that was given up, or a snapshot
\* saved late, a later run of the task brings it to an end.
StuckAnalysisEnds ==
    \A j \in JobIds :
        (j \in DOMAIN jobs /\ jobs[j].analysis = "ANALYZING")
           ~> ~(j \in DOMAIN jobs /\ jobs[j].analysis = "ANALYZING")

\* print-job.service.ts:157, "Status remains unchanged - analysis state is
\* separate from job status": no worker changes the status of a job.
AnalysisLeavesStatus ==
    [][\A j \in DOMAIN jobs \cap DOMAIN jobs' :
          TaskBegins \/ TaskEnds \/ WorkerNext => jobs'[j].status = jobs[j].status]_fileVars

\* print-file-downloader.service.ts:49, "race condition protection": a job
\* that has its file in storage keeps it, whatever else is downloading it.
DownloadedFileStays ==
    [][\A j \in DOMAIN jobs \cap DOMAIN jobs' :
          WorkerNext /\ jobs[j].stored => jobs'[j].stored]_fileVars

=============================================================================
