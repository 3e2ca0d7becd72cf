------------------------- MODULE PrinterMaintenance -------------------------
(***************************************************************************)
(* PrinterMaintenanceLogService, which rests a printer while a log of it is *)
(* open, and BatchCallService, which enables and calls many printers at    *)
(* once, over the printer table, its cache and the tags.                   *)
(***************************************************************************)
EXTENDS PrinterTags

CONSTANTS MaxLogs    \* bound: maintenance logs ever made

ASSUME LogAssumption == MaxLogs \in Nat

VARIABLES
    logs,            \* printer_maintenance_log, by id
    lastLog,
    batch,           \* the calls a batch request waits for
    report           \* the answer to the last batch request

logVars == <<logs, lastLog>>

batchVars == <<batch, report>>

maintenanceVars == <<printerVars, tagVars, logVars, batchVars>>

\* printer is 0 once the printer is deleted (ON DELETE SET NULL).
LogRow == [printer : 0..MaxPrinters, completed : BOOLEAN]

Outcomes == {"success", "failure"}

NoBatch == [asked |-> {}, results |-> [p \in {} |-> ""]]

MaintenanceTypeOK ==
    /\ PrinterTypeOK
    /\ TagTypeOK
    /\ lastLog \in 0..MaxLogs
    /\ DOMAIN logs \subseteq 1..lastLog
    /\ logs \in [DOMAIN logs -> LogRow]
    /\ \A l \in DOMAIN logs : logs[l].printer \in DOMAIN printers \cup {0}
    /\ DOMAIN batch.results \subseteq batch.asked
    /\ batch.results \in [DOMAIN batch.results -> Outcomes]

MaintenanceInit ==
    /\ NoPrinters
    /\ TagInit
    /\ logs = [l \in {} |-> {}]
    /\ lastLog = 0
    /\ batch = NoBatch
    /\ report = NoBatch

-----------------------------------------------------------------------------
(* Maintenance logs.                                                       *)

\* updateDisabledReason
Rested(s, p, rested) ==
    Updated(s, [q \in {p} \cap DOMAIN s.table |-> [s.table[q] EXCEPT !.rested = rested]])

Active(p) == {l \in DOMAIN logs : logs[l].printer = p /\ ~logs[l].completed}

\* Fault: a log that is completed counts as well as an open one.
HasAnyLog(p) == \E l \in DOMAIN logs : logs[l].printer = p /\ logs[l].completed

\* create refuses a second open log, as the index of the table does.
HasOpenLog(p) == Active(p) # {}

CreateLog(p) ==
    /\ p \in DOMAIN printers
    /\ ~HasOpenLog(p)
    /\ lastLog < MaxLogs
    /\ lastLog' = lastLog + 1
    /\ logs' = WithValues(logs, [l \in {lastLog'} |-> [printer |-> p, completed |-> FALSE]])
    /\ BecomesState(Rested(State, p, TRUE))
    /\ UNCHANGED <<tagVars, batchVars>>

CompleteLog(l) ==
    /\ l \in DOMAIN logs
    /\ ~logs[l].completed
    /\ logs' = [logs EXCEPT ![l].completed = TRUE]
    /\ BecomesState(Rested(State, logs[l].printer, FALSE))
    /\ UNCHANGED <<lastLog, tagVars, batchVars>>

\* Fault: the printer of any log that is deleted is taken out of maintenance.
ReleasedAlways(l) == logs[l].printer

\* The printer that the deletion of a log takes out of maintenance, 0 for none
Released(l) == IF logs[l].completed THEN 0 ELSE logs[l].printer

DeleteLog(l) ==
    /\ l \in DOMAIN logs
    /\ BecomesState(Rested(State, Released(l), FALSE))
    /\ logs' = WithoutValues(logs, {l})
    /\ UNCHANGED <<lastLog, tagVars, batchVars>>

-----------------------------------------------------------------------------
(* Batches.                                                                *)

\* batchTogglePrintersEnabled: a printer is enabled unless it is enabled
\* already or the cache shows a reason, and disabled if it is enabled.  The
\* updates all start before the first is awaited, and each ends by itself.
Toggled(ps, enabled) ==
    {p \in ps \cap Cached :
        LET dto == printerCache.values[p]
        IN  IF enabled THEN ~dto.enabled /\ ~dto.rested ELSE dto.enabled}

BatchToggle(ps, enabled) ==
    /\ BecomesState(AllEnabled(State, Toggled(ps, enabled), enabled))
    /\ UNCHANGED <<tagVars, logVars, batchVars>>

\* getBatchPrinterReprintFile reports a printer it does not find as
\* unavailable.  batchConnectUsb and batchReprintCalls find all they begin
\* with here; an unknown printer ends their request with the calls before it
\* under way and unreported.
BatchCall(ps) ==
    /\ batch = NoBatch
    /\ ps \cap Cached # {}
    /\ batch' = [asked |-> ps, results |-> [p \in ps \ Cached |-> "failure"]]
    /\ report' = NoBatch
    /\ UNCHANGED <<printerVars, tagVars, logVars>>

\* Promise.all of calls that catch their own failures
Settled(b) == DOMAIN b.results = b.asked

\* A printer answers its call, or fails it.
CallEnds(p, outcome) ==
    /\ p \in batch.asked \ DOMAIN batch.results
    /\ LET ended == [asked   |-> batch.asked,
                     results |-> WithValues(batch.results, [q \in {p} |-> outcome])]
       IN  /\ batch' = IF Settled(ended) THEN NoBatch ELSE ended
           /\ report' = IF Settled(ended) THEN ended ELSE NoBatch
    /\ UNCHANGED <<printerVars, tagVars, logVars>>

-----------------------------------------------------------------------------

\* Deleting printers sets the printer of their logs to null.
LogsOf(table) == [l \in DOMAIN logs |->
    IF logs[l].printer \in DOMAIN table THEN logs[l] ELSE [logs[l] EXCEPT !.printer = 0]]

DeletePrinters(ps) ==
    /\ ps \subseteq Cached
    /\ BecomesState(Deleted(State, ps))
    /\ logs' = LogsOf(printers')
    /\ links' = LinksOf(tags, printers')
    /\ UNCHANGED <<lastLog, tags, lastTag, batchVars>>

RestartServer ==
    /\ printerCache' = ReloadedCache
    /\ batch' = NoBatch
    /\ report' = NoBatch
    /\ UNCHANGED <<printers, lastPrinter, tagVars, logVars>>

PrinterRequest ==
    /\ \/ \E row \in PrinterRow : CreatePrinter(row)
       \/ \E a, b \in PrinterRow : ImportPrinters(<<a, b>>)
       \/ \E p \in Cached, row \in PrinterRow : UpdatePrinter(p, row)
       \/ \E t \in PrinterTypes : DisableType(t)
    /\ UNCHANGED <<tagVars, logVars, batchVars>>

MaintenanceNext ==
    \/ PrinterRequest
    \/ TagNext /\ UNCHANGED <<printerVars, logVars, batchVars>>
    \/ \E p \in PrinterIds : CreateLog(p) \/ DeletePrinters({p})
    \/ DeletePrinters(Cached)
    \/ \E l \in 1..lastLog : CompleteLog(l) \/ DeleteLog(l)
    \/ \E ps \in SUBSET PrinterIds : BatchToggle(ps, TRUE) \/ BatchToggle(ps, FALSE) \/ BatchCall(ps)
    \/ \E p \in PrinterIds, o \in Outcomes : CallEnds(p, o)
    \/ RestartServer

MaintenanceSpec == MaintenanceInit /\ [][MaintenanceNext]_maintenanceVars

-----------------------------------------------------------------------------
(* Properties.                                                             *)

\* No printer has two open maintenance logs, so that the one that is
\* completed is the one that rests it (the partial unique index of the table
\* agrees with the check of create).
OneOpenLog == \A p \in DOMAIN printers : \A k, l \in Active(p) : k = l

\* Only a request about the printer itself (or its type) takes it out of
\* maintenance: the end of a log of another printer, an old log that is
\* deleted, and the batches leave a rested printer rested.
RestEndsForItself ==
    [][\A p \in Cached \cap DOMAIN printerCache'.values :
          /\ printerCache.values[p].rested
          /\ ~printerCache'.values[p].rested
          /\ UNCHANGED printers
          /\ logs' # logs
          => \E l \in Active(p) : l \notin DOMAIN logs' \/ logs'[l].completed]_maintenanceVars

\* A batch that enables printers leaves those in maintenance alone
\* (batch-call.service.ts:59 "If disabled, but not in maintenance, enable the
\* printer").  The open log is what says that a printer is in maintenance.
BatchSparesMaintenance ==
    [][\A ps \in SUBSET PrinterIds : BatchToggle(ps, TRUE) =>
          \A p \in DOMAIN printers : HasOpenLog(p) => printers'[p].enabled = printers[p].enabled
      ]_maintenanceVars

=============================================================================
