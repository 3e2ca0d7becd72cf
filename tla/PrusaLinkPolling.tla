--------------------------- MODULE PrusaLinkPolling ---------------------------
(***************************************************************************)
(* PrusaLinkHttpPollingAdapter: an interval that asks a PrusaLink printer  *)
(* for its state and its job, under the task that sets adapters up and the *)
(* operators who reset and delete printers.  A poll does not wait for the  *)
(* one before it, and goes on when the interval is cleared.                *)
(***************************************************************************)
EXTENDS Integers, FiniteSets

CONSTANTS
    MaxPolls,          \* bound: polls under way at a time
    MaxPrusaResets     \* bound: requests of operators

ASSUME PrusaAssumption == MaxPolls \in Nat \ {0} /\ MaxPrusaResets \in Nat

VARIABLES
    prusa,         \* the adapter
    polls,         \* what each poll under way waits for
    prusaEvents,   \* whether PrinterEventsCache has events of the printer
    prusaResets

prusaVars == <<prusa, polls, prusaEvents, prusaResets>>

Polls == 1..MaxPolls

\* "listed" says whether the store still has the adapter, "ticking" whether
\* refreshPrinterCurrentInterval is set.
PrusaAdapter ==
    [socket : {"undefined", "authenticating", "authenticated", "error", "closed"},
     ticking : BOOLEAN, silent : BOOLEAN, listed : BOOLEAN]

PrusaTypeOK ==
    /\ prusa \in PrusaAdapter
    /\ polls \in [Polls -> {"none", "state", "job"}]
    /\ prusaEvents \in BOOLEAN
    /\ ~prusa.listed => ~prusa.ticking

PrusaInit ==
    /\ prusa = [socket |-> "undefined", ticking |-> FALSE, silent |-> FALSE, listed |-> TRUE]
    /\ polls = [k \in Polls |-> "none"]
    /\ prusaEvents = FALSE
    /\ prusaResets = 0

-----------------------------------------------------------------------------

\* needsSetup and needsReopen
PrusaNeedsSetup(a) == ~a.ticking

\* reconnectPrinterSockets: the setup does nothing, open starts the interval.
PrusaRunStarts ==
    /\ prusa.listed
    /\ PrusaNeedsSetup(prusa)
    /\ prusa' = [prusa EXCEPT !.ticking = TRUE]
    /\ UNCHANGED <<polls, prusaEvents, prusaResets>>

PollBegins ==
    /\ prusa.ticking
    /\ \E k \in Polls :
          /\ polls[k] = "none"
          /\ \A i \in 1..(k - 1) : polls[i] # "none"
          /\ polls' = [polls EXCEPT ![k] = "state"]
    /\ prusa' = [prusa EXCEPT !.socket = "authenticating"]
    /\ UNCHANGED <<prusaEvents, prusaResets>>

StateAnswered(k) ==
    /\ polls[k] = "state"
    /\ polls' = [polls EXCEPT ![k] = "job"]
    /\ UNCHANGED <<prusa, prusaEvents, prusaResets>>

\* The event "current", which PrinterEventsCache keeps
JobAnswered(k) ==
    /\ polls[k] = "job"
    /\ polls' = [polls EXCEPT ![k] = "none"]
    /\ prusa' = [prusa EXCEPT !.socket = "authenticated"]
    /\ prusaEvents' = (prusaEvents \/ ~prusa.silent)
    /\ UNCHANGED prusaResets

PollFails(k) ==
    /\ polls[k] # "none"
    /\ polls' = [polls EXCEPT ![k] = "none"]
    /\ prusa' = [prusa EXCEPT !.socket = "error"]
    /\ UNCHANGED <<prusaEvents, prusaResets>>

\* stopPolling
Stopped(a) == IF a.ticking THEN [a EXCEPT !.ticking = FALSE, !.socket = "closed"] ELSE a

\* reconnectPrinterAdapter, or createOrUpdateSocket of an updated printer
PrusaReset ==
    /\ prusaResets < MaxPrusaResets
    /\ prusaResets' = prusaResets + 1
    /\ prusa.listed
    /\ prusa' = Stopped(prusa)
    /\ UNCHANGED <<polls, prusaEvents>>

Purged(a) == [Stopped([a EXCEPT !.silent = TRUE]) EXCEPT !.listed = FALSE]

\* printersDeleted: deleteSocket, and PrinterEventsCache forgets the printer.
PrusaDelete ==
    /\ prusa.listed
    /\ prusa' = Purged(prusa)
    /\ prusaEvents' = FALSE
    /\ UNCHANGED <<polls, prusaResets>>

PrusaNext ==
    \/ PrusaRunStarts \/ PollBegins \/ PrusaReset \/ PrusaDelete
    \/ \E k \in Polls : StateAnswered(k) \/ JobAnswered(k) \/ PollFails(k)

-----------------------------------------------------------------------------
(* Properties.                                                             *)

\* A deleted printer's events do not come back with a poll that was under
\* way when it was deleted.
PolledStaysOut == ~prusa.listed => ~prusaEvents

=============================================================================
