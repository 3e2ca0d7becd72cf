----------------------------- MODULE PrintFarm ------------------------------
(***************************************************************************)
(* The print_job table under all its writers that re-read a row before     *)
(* they change it: the queue and its uploads, the printers' reports, the   *)
(* operators, and the server that stops and starts again.                  *)
(***************************************************************************)
EXTENDS PrintQueue, PrintLifecycle

\* The process ends and starts again.  Handlers that were waiting for a
\* printer are gone; nothing that startup runs (boot.task) touches a job.
Restart ==
    /\ uploads' = {}
    /\ UNCHANGED tableVars

\* A request, a printer's message or the end of an upload
Handlers == QueueNext \/ (LifecycleNext /\ UNCHANGED uploads)

FarmNext == Handlers \/ Restart

FarmSpec == QueueInit /\ [][FarmNext]_queueVars

=============================================================================
