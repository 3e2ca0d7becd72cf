---------------------------- MODULE PrinterTable ----------------------------
(***************************************************************************)
(* PrinterService and PrinterCache: the rows of the printer table and the  *)
(* copy of them that every request, task and adapter reads.                *)
(*                                                                         *)
(* The service writes a row and then emits an event, which the cache and   *)
(* the socket store handle before the writer goes on; there is no other    *)
(* I/O in between, so that each operation is one step.                     *)
(***************************************************************************)
EXTENDS Integers, Sequences, KeyDiffCache

CONSTANTS
    Names,           \* names of printers
    PrinterTypes,    \* OctoPrint, Moonraker, ...
    MaxPrinters      \* bound: printers ever created

ASSUME PrinterAssumption == MaxPrinters \in Nat

VARIABLES
    printers,        \* rows of the table, by id
    lastPrinter,     \* last id given (AUTOINCREMENT)
    printerCache

printerVars == <<printers, lastPrinter, printerCache>>

PrinterIds == 1..MaxPrinters

\* "rested" says that disabledReason is not empty; it stands for the columns
\* feedRate, flowRate and assignee too, which nothing else reads.
PrinterRow == [name : Names, type : PrinterTypes, enabled : BOOLEAN, rested : BOOLEAN]

PrinterTypeOK ==
    /\ lastPrinter \in 0..MaxPrinters
    /\ DOMAIN printers \subseteq 1..lastPrinter
    /\ printers \in [DOMAIN printers -> PrinterRow]
    /\ DOMAIN printerCache.values \subseteq 1..lastPrinter
    /\ printerCache.values \in [DOMAIN printerCache.values -> PrinterRow]
    /\ printerCache.updated \cup printerCache.deleted \subseteq 1..lastPrinter

NoPrinters ==
    /\ printers = [p \in {} |-> {}]
    /\ lastPrinter = 0
    /\ printerCache = EmptyCache

Cached == DOMAIN printerCache.values

\* listCachedPrinters(false)
CachedEnabled == {p \in Cached : printerCache.values[p].enabled}

-----------------------------------------------------------------------------
(* Operators on a state [table, cache, last], so that a handler can call    *)
(* the service several times.                                              *)

State == [table |-> printers, cache |-> printerCache, last |-> lastPrinter]

BecomesState(s) ==
    /\ s.last <= MaxPrinters
    /\ printers' = s.table
    /\ printerCache' = s.cache
    /\ lastPrinter' = s.last

\* printerCreated, batchPrinterCreated and printerUpdated give the cache the
\* rows of the event.
ToCache(cache, rows) == SetKeys(cache, rows)

\* validateAndDefault: the schema has no disabledReason, so that a new row
\* never has one, whatever the request or the imported file says.
Defaulted(row) == [row EXCEPT !.rested = FALSE]

\* create of each of a sequence of rows, and one event for all (batchImport);
\* create of one row
CreatedAll(s, rows) ==
    LET new == [p \in (s.last + 1)..(s.last + Len(rows)) |-> Defaulted(rows[p - s.last])]
    IN  [table |-> WithValues(s.table, new),
         cache |-> ToCache(s.cache, new),
         last  |-> s.last + Len(rows)]

Created(s, row) == CreatedAll(s, <<row>>)

\* The columns update writes: printerURL, name, apiKey, enabled, printerType,
\* password and username
Saved(old, merged) == [merged EXCEPT !.rested = old.rested]

\* The table once update wrote some of its rows
Written(table, merged) ==
    WithValues(table, [q \in DOMAIN merged |-> Saved(table[q], merged[q])])

\* Fault: the events have the rows as they were.
UpdatedStale(s, merged) ==
    [table |-> Written(s.table, merged),
     cache |-> ToCache(s.cache, [q \in DOMAIN merged |-> s.table[q]]),
     last  |-> s.last]

\* update of some rows of the table, which the events show as they were read
\* and merged, with what is not written
Updated(s, merged) ==
    [table |-> Written(s.table, merged), cache |-> ToCache(s.cache, merged), last |-> s.last]

\* delete and deleteMany
Deleted(s, ps) ==
    [table |-> WithoutValues(s.table, ps), cache |-> DeleteKeys(s.cache, ps), last |-> s.last]

\* updateEnabled of each of a set of printers
AllEnabled(s, ps, enabled) ==
    Updated(s, [p \in ps \cap DOMAIN s.table |-> [s.table[p] EXCEPT !.enabled = enabled]])

-----------------------------------------------------------------------------
(* Requests.                                                               *)

CreatePrinter(row) == BecomesState(Created(State, row))

ImportPrinters(rows) == BecomesState(CreatedAll(State, rows))

\* A request that names a printer finds it in the cache, and update finds its
\* row; feedRate and flowRate change nothing that is written.
UpdatePrinter(p, row) ==
    /\ p \in Cached \cap DOMAIN printers
    /\ \/ row \in PrinterRow /\ row.rested = printers[p].rested
       \/ \E rested \in BOOLEAN : row = [printers[p] EXCEPT !.rested = rested]
    /\ BecomesState(Updated(State, [q \in {p} |-> row]))

\* settings.controller: the support of a type is switched off.
DisableType(t) ==
    BecomesState(AllEnabled(State, {p \in CachedEnabled : printerCache.values[p].type = t}, FALSE))

\* loadCache of a new process
ReloadedCache == SetKeys(EmptyCache, printers)

-----------------------------------------------------------------------------

\* What the cache shows of a printer is what the table has, but for the
\* columns that are not written; it shows no deleted printer and every other
\* one, after any sequence of requests, imports and restarts.
CacheFollowsTable ==
    /\ Cached = DOMAIN printers
    /\ \A p \in Cached : Saved(printers[p], printerCache.values[p]) = printers[p]

\* The differences of the printer cache never name a printer as written that
\* is deleted, nor as deleted one that is there.
PrinterDiffsTell == DiffsOf(printerCache) /\ printerCache.updated = Cached

=============================================================================
