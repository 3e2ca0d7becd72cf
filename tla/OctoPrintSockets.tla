-------------------------- MODULE OctoPrintSockets --------------------------
(***************************************************************************)
(* PrinterSocketStore with the websocket adapters of OctoPrint printers,   *)
(* and the two periodic tasks that bring lost connections back:            *)
(* PrinterWebsocketTask sets up what is unopened, closed or failed, and    *)
(* PrinterWebsocketRestoreTask resets what is closed or aborted.           *)
(*                                                                         *)
(* A session setup is three HTTP exchanges with the printer's host; while  *)
(* one waits, tasks, operators and other connections act on its adapter.   *)
(* A WebSocket that was closed or replaced keeps its listeners: it goes on *)
(* delivering messages, and an event when it has closed.                   *)
(***************************************************************************)
EXTENDS Integers, Sequences, FiniteSets

CONSTANTS
    Printers,
    Faulty,        \* printers whose host may fail any number of times
    MaxFaults,     \* bound: failures of the other hosts
    MaxRequests,   \* bound: requests of operators
    MaxAdapters,   \* bound: adapters ever created
    MaxSessions,   \* bound: setups of one adapter at a time
    MaxConns       \* bound: WebSockets of one adapter not yet closed

ASSUME SocketAssumption ==
    /\ Faulty \subseteq Printers
    /\ IsFiniteSet(Printers) /\ Cardinality(Printers) <= MaxAdapters
    /\ {MaxFaults, MaxRequests, MaxAdapters} \subseteq Nat
    /\ {MaxSessions, MaxConns} \subseteq Nat \ {0}

VARIABLES
    rows,          \* the printers as the database has them
    listed,        \* printerSocketAdaptersById, in the order of the Map
    adapters,      \* every adapter created, in or out of the Map
    ws,            \* the WebSockets of each adapter that have not closed
    session,       \* the setups and re-authentications of each adapter
    reauthing,     \* reconnectPrinterSockets waits for re-authentications
    restore,       \* the adapters PrinterWebsocketRestoreTask has yet to do
    cached,        \* printers PrinterEventsCache has events of
    faults,        \* failures so far
    requests       \* requests so far

taskVars   == <<reauthing, restore>>
boundVars  == <<faults, requests>>
socketVars == <<rows, listed, adapters, ws, session, taskVars, cached, boundVars>>

SocketStates == {"unopened", "opening", "authenticating", "authenticated",
                 "aborted", "error", "closed"}

\* "failed" stands for noResponse, globalKey and authFail, which no decision
\* tells apart.
ApiStates == {"unset", "responding", "failed"}

\* conn is the "socket" field of the adapter, 0 if it has none; "polling" says
\* its interval is set, "tick" that a poll waits for the host; "heard" is how
\* long ago the last message came; "replaced" that the Map got an adapter of
\* another type in its place.
Adapter == [printer : Printers, socket : SocketStates, api : ApiStates,
            conn : 0..MaxConns, reauth : BOOLEAN, silent : BOOLEAN,
            polling : BOOLEAN, tick : BOOLEAN, heard : {"never", "recent", "old"},
            replaced : BOOLEAN]

\* A WebSocket is "dead" when its peer is gone and nothing says so; one that
\* is "ending" delivers no more messages, one that is "closing" may.
ConnStates == {"none", "connecting", "open", "dead", "closing", "ending"}

\* Which host a setup waits for, and whether the run of the task waits for it
Session == [why : {"reauth", "open"}, awaited : BOOLEAN,
            at : {"none", "login", "user", "current", "auth"}]

NoSession == [why |-> "open", awaited |-> FALSE, at |-> "none"]

SocketTypeOK ==
    /\ rows \in [Printers -> {"enabled", "disabled", "other", "deleted"}]
    /\ adapters \in Seq(Adapter)
    /\ Len(adapters) <= MaxAdapters
    /\ ws \in [DOMAIN adapters -> [1..MaxConns -> ConnStates]]
    /\ session \in [DOMAIN adapters -> [1..MaxSessions -> Session]]
    /\ listed \in Seq(DOMAIN adapters)
    /\ \A i, k \in 1..Len(listed) :
          adapters[listed[i]].printer = adapters[listed[k]].printer => i = k
    /\ restore \in Seq(DOMAIN adapters)
    /\ reauthing \in BOOLEAN
    /\ cached \subseteq Printers
    /\ \A a \in DOMAIN adapters :
          adapters[a].conn # 0 => ws[a][adapters[a].conn] # "none"

NewAdapter(p) ==
    [printer |-> p, socket |-> "unopened", api |-> "unset", conn |-> 0,
     reauth |-> FALSE, silent |-> FALSE, polling |-> FALSE, tick |-> FALSE,
     heard |-> "never", replaced |-> FALSE]

NoConns    == [c \in 1..MaxConns |-> "none"]
NoSessions == [s \in 1..MaxSessions |-> NoSession]

\* loadPrinterSockets at boot, with every printer enabled: one adapter each
SocketInit ==
    /\ rows = [p \in Printers |-> "enabled"]
    /\ adapters \in {as \in [1..Cardinality(Printers) -> {NewAdapter(p) : p \in Printers}] :
                        \A a, b \in DOMAIN as : as[a] = as[b] => a = b}
    /\ listed = [i \in DOMAIN adapters |-> i]
    /\ ws = [a \in DOMAIN adapters |-> NoConns]
    /\ session = [a \in DOMAIN adapters |-> NoSessions]
    /\ reauthing = FALSE
    /\ restore = << >>
    /\ cached = {}
    /\ faults = 0
    /\ requests = 0

-----------------------------------------------------------------------------
(* The adapter's small methods.                                            *)

Listed == {listed[i] : i \in 1..Len(listed)}

Reset(r) == [r EXCEPT !.socket = "unopened", !.api = "unset"]

NeedsSetup(r) == r.socket = "unopened"

NeedsReopen(r) == r.api = "responding" /\ r.socket \in {"closed", "error"}

\* Fault: an aborted socket is not taken for closed.
IsClosed(r) == r.socket = "closed"

IsClosedOrAborted(r) == r.socket \in {"closed", "aborted"}

\* close: the interval is cleared and the adapter forgets its WebSocket.
Closed(r) == [r EXCEPT !.conn = 0, !.polling = FALSE]

\* r is adapter a after a handler that called close.  A WebSocket still
\* connecting fails at once, after the handler; another begins to close.
Dropped(a, r) ==
    IF adapters[a].conn # 0 /\ ws[a][adapters[a].conn] = "connecting"
    THEN [r EXCEPT !.socket = "closed"] ELSE r

CloseConn(a) ==
    LET After(st) == CASE st = "connecting" -> "none"
                       [] st = "open"       -> "closing"
                       [] st = "dead"       -> "ending"
                       [] OTHER             -> st
    IN  IF adapters[a].conn = 0 THEN ws[a]
        ELSE [ws[a] EXCEPT ![adapters[a].conn] = After(@)]

\* emitEvent("current"), and PrinterEventsCache's setEventPartial
Emitted(a) == IF adapters[a].silent THEN cached ELSE cached \cup {adapters[a].printer}

\* A failure of the host of a counts, unless that host is Faulty.
Fails(a) ==
    /\ adapters[a].printer \in Faulty \/ faults < MaxFaults
    /\ faults' = IF adapters[a].printer \in Faulty THEN faults ELSE faults + 1

-----------------------------------------------------------------------------
(* reconnectPrinterSockets                                                 *)

FreeSlots(ss, a) == {t \in 1..MaxSessions : ss[a][t].at = "none"}

Awaited(ss) == {a \in DOMAIN ss : \E t \in 1..MaxSessions : ss[a][t].awaited}

\* Its second loop chooses these.
ToSetUp(as) == {a \in Listed : NeedsSetup(as[a]) \/ NeedsReopen(as[a])}

\* From adapters as and sessions ss, setupSocketSession begins for every
\* adapter in A, up to its first await.
Begin(as, ss, A, why) ==
    /\ \A a \in A : FreeSlots(ss, a) # {}
    /\ adapters' = [a \in DOMAIN as |-> IF a \in A THEN Reset(as[a]) ELSE as[a]]
    /\ session' = [a \in DOMAIN ss |->
                      IF a \in A
                      THEN [ss[a] EXCEPT ![CHOOSE t \in FreeSlots(ss, a) : TRUE] =
                               [why |-> why, awaited |-> TRUE, at |-> "login"]]
                      ELSE ss[a]]

\* The task's timer; a run that waits keeps the next from starting.
RunStarts ==
    /\ Awaited(session) = {}
    /\ LET A == {a \in Listed : adapters[a].reauth}
       IN  /\ reauthing' = (A # {})
           /\ IF A # {} THEN Begin(adapters, session, A, "reauth")
              ELSE Begin(adapters, session, ToSetUp(adapters), "open")
    /\ UNCHANGED <<rows, listed, ws, restore, cached, boundVars>>

-----------------------------------------------------------------------------
(* setupSocketSession and what follows it, in slot s of adapter a          *)

Goes(a, s, at) == session' = [session EXCEPT ![a][s].at = at]

\* The session has succeeded and leaves its adapter as r.  If the run waited
\* for this re-authentication last, its second loop follows.
Done(a, s, r) ==
    LET as     == [adapters EXCEPT ![a] = r]
        ss     == [session EXCEPT ![a][s] = NoSession]
        goesOn == reauthing /\ session[a][s].awaited /\ Awaited(ss) = {}
    IN  /\ Begin(as, ss, IF goesOn THEN ToSetUp(as) ELSE {}, "open")
        /\ reauthing' = (reauthing /\ ~goesOn)

\* A rejection that the run waits for ends the run (Promise.all; its .catch()
\* has no handler), and the other sessions go on by themselves.
Rejected(a, s) ==
    LET ends == session[a][s].awaited
    IN  /\ session' = [b \in DOMAIN session |-> [t \in 1..MaxSessions |->
                          IF <<b, t>> = <<a, s>> THEN NoSession
                          ELSE [session[b][t] EXCEPT !.awaited = @ /\ ~ends]]]
        /\ reauthing' = (reauthing /\ ~ends)

Becomes(a, r) == adapters' = [adapters EXCEPT ![a] = r]

LoginAnswered(a, s) ==
    /\ session[a][s].at = "login"
    /\ Becomes(a, [adapters[a] EXCEPT !.socket = "opening", !.api = "responding"])
    /\ Goes(a, s, "user")
    /\ UNCHANGED <<rows, listed, ws, taskVars, cached, boundVars>>

UserAnswered(a, s) ==
    /\ session[a][s].at = "user"
    /\ Goes(a, s, "current")
    /\ UNCHANGED <<rows, listed, adapters, ws, taskVars, cached, boundVars>>

\* login or getAdminUserOrDefault was refused or not answered.
SetupFails(a, s) ==
    /\ session[a][s].at \in {"login", "user"}
    /\ Fails(a)
    /\ Becomes(a, [adapters[a] EXCEPT !.socket = "aborted", !.api = "failed"])
    /\ Rejected(a, s)
    /\ UNCHANGED <<rows, listed, ws, restore, cached, requests>>

\* updateCurrentStateSafely: the state is emitted, or (409) a substitute for
\* it, or the API is marked as failed.  It does not throw.
CurrentState(a, api) ==
    \/ api = "responding" /\ cached' = Emitted(a) /\ UNCHANGED faults
    \/ api = adapters[a].api /\ cached' = Emitted(a) /\ Fails(a)
    \/ api = "failed" /\ cached' = cached /\ Fails(a)

\* The rest of setupSocketSession, then open: it throws if there is a socket.
SocketOpens(a, s) ==
    /\ session[a][s].at = "current"
    /\ session[a][s].why = "open"
    /\ \E api \in ApiStates :
          /\ CurrentState(a, api)
          /\ LET r == [adapters[a] EXCEPT !.api = api, !.polling = TRUE]
             IN  IF r.conn = 0
                 THEN \E c \in 1..MaxConns :
                         /\ ws[a][c] = "none"
                         /\ \A d \in 1..(c - 1) : ws[a][d] # "none"
                         /\ ws' = [ws EXCEPT ![a][c] = "connecting"]
                         /\ Done(a, s, [r EXCEPT !.conn = c])
                 ELSE Becomes(a, r) /\ Rejected(a, s) /\ UNCHANGED ws
    /\ UNCHANGED <<rows, listed, restore, requests>>

\* The rest of setupSocketSession, then sendAuth: without an open socket the
\* message is dropped and nothing fails.
AuthBegins(a, s) ==
    /\ session[a][s].at = "current"
    /\ session[a][s].why = "reauth"
    /\ \E api \in ApiStates :
          /\ CurrentState(a, api)
          /\ LET r == [adapters[a] EXCEPT !.api = api, !.polling = TRUE,
                                          !.socket = "authenticating"]
             IN  IF r.conn # 0 /\ ws[a][r.conn] \in {"open", "dead"}
                 THEN Becomes(a, r) /\ Goes(a, s, "auth") /\ UNCHANGED reauthing
                 ELSE Done(a, s, [r EXCEPT !.reauth = FALSE])
    /\ UNCHANGED <<rows, listed, ws, restore, requests>>

AuthSent(a, s) ==
    /\ session[a][s].at = "auth"
    /\ Done(a, s, [adapters[a] EXCEPT !.reauth = FALSE])
    /\ UNCHANGED <<rows, listed, ws, restore, cached, boundVars>>

AuthNotSent(a, s) ==
    /\ session[a][s].at = "auth"
    /\ Fails(a)
    /\ Rejected(a, s)
    /\ UNCHANGED <<rows, listed, adapters, ws, restore, cached, requests>>

SessionStep(a, s) ==
    \/ LoginAnswered(a, s) \/ UserAnswered(a, s) \/ SetupFails(a, s)
    \/ SocketOpens(a, s) \/ AuthBegins(a, s)
    \/ AuthSent(a, s) \/ AuthNotSent(a, s)

-----------------------------------------------------------------------------
(* The events of WebSocket c of adapter a, and the adapter's interval      *)

\* onopen: sendAuth, of the session that led to the open
ConnOpens(a, c) ==
    /\ ws[a][c] = "connecting"
    /\ ws' = [ws EXCEPT ![a][c] = "open"]
    /\ Becomes(a, [adapters[a] EXCEPT !.socket = "authenticating"])
    /\ UNCHANGED <<rows, listed, session, taskVars, cached, boundVars>>

\* onmessage: "reauthRequired", "current" or another
ConnMessage(a, c) ==
    /\ ws[a][c] \in {"open", "closing"}
    /\ LET r == [adapters[a] EXCEPT !.socket = "authenticated", !.heard = "recent"]
       IN  \/ Becomes(a, r) /\ cached' \in {cached, Emitted(a)} /\ UNCHANGED faults
           \/ Becomes(a, [r EXCEPT !.reauth = TRUE]) /\ UNCHANGED cached /\ Fails(a)
    /\ UNCHANGED <<rows, listed, ws, session, taskVars, requests>>

\* onerror of an open connection, which then closes
ConnErrs(a, c) ==
    /\ ws[a][c] \in {"open", "closing"}
    /\ Fails(a)
    /\ ws' = [ws EXCEPT ![a][c] = "ending"]
    /\ Becomes(a, [adapters[a] EXCEPT !.socket = "error"])
    /\ UNCHANGED <<rows, listed, session, taskVars, cached, requests>>

ConnDies(a, c) ==
    /\ ws[a][c] = "open"
    /\ Fails(a)
    /\ ws' = [ws EXCEPT ![a][c] = "dead"]
    /\ UNCHANGED <<rows, listed, adapters, session, taskVars, cached, requests>>

\* onclose, of a connection refused, lost, or closed by the adapter earlier:
\* whichever it is, the adapter's present socket is forgotten.
ConnCloses(a, c) ==
    /\ ws[a][c] \in {"connecting", "open", "dead", "closing", "ending"}
    /\ IF ws[a][c] \in {"closing", "ending"} THEN UNCHANGED faults ELSE Fails(a)
    /\ ws' = [ws EXCEPT ![a][c] = "none"]
    /\ Becomes(a, [adapters[a] EXCEPT !.socket = "closed", !.conn = 0])
    /\ UNCHANGED <<rows, listed, session, taskVars, cached, requests>>

\* Ten seconds without a message
Silence(a) ==
    /\ adapters[a].heard = "recent"
    /\ Becomes(a, [adapters[a] EXCEPT !.heard = "old"])
    /\ UNCHANGED <<rows, listed, ws, session, taskVars, cached, boundVars>>

TickBegins(a) ==
    /\ adapters[a].polling
    /\ ~adapters[a].tick
    /\ Becomes(a, [adapters[a] EXCEPT !.tick = TRUE])
    /\ UNCHANGED <<rows, listed, ws, session, taskVars, cached, boundVars>>

TickEnds(a) ==
    /\ adapters[a].tick
    /\ \E api \in ApiStates :
          CurrentState(a, api) /\ Becomes(a, [adapters[a] EXCEPT !.api = api, !.tick = FALSE])
    /\ UNCHANGED <<rows, listed, ws, session, taskVars, requests>>

-----------------------------------------------------------------------------
(* PrinterWebsocketRestoreTask                                             *)

\* The host of an adapter that has been silent is asked for its connection.
Asked(r) ==
    /\ ~IsClosedOrAborted(r)
    /\ r.heard = "old" \/ (r.heard = "never" /\ r.api # "unset")

\* The loop over L as far as it goes without waiting
RestoreFrom(L) ==
    LET asked == {i \in 1..Len(L) : Asked(adapters[L[i]])}
        n     == CHOOSE i \in 1..(Len(L) + 1) :
                    /\ \A k \in asked : i <= k
                    /\ i \in asked \/ (asked = {} /\ i = Len(L) + 1)
        down  == {a \in {L[i] : i \in 1..(n - 1)} : IsClosedOrAborted(adapters[a])}
    IN  /\ adapters' = [a \in DOMAIN adapters |->
                           IF a \in down THEN Dropped(a, Reset(Closed(adapters[a])))
                           ELSE adapters[a]]
        /\ ws' = [a \in DOMAIN ws |-> IF a \in down THEN CloseConn(a) ELSE ws[a]]
        /\ restore' = SubSeq(L, n, Len(L))
        /\ UNCHANGED <<rows, listed, session, reauthing, cached, requests>>

RestoreStarts ==
    /\ restore = << >>
    /\ RestoreFrom(listed)
    /\ UNCHANGED faults

\* Whatever the host answers is logged.
RestoreAnswered ==
    /\ restore # << >>
    /\ RestoreFrom(Tail(restore))
    /\ UNCHANGED faults

\* getConnection throws out of the loop.
RestoreFails ==
    /\ restore # << >>
    /\ Fails(Head(restore))
    /\ restore' = << >>
    /\ UNCHANGED <<rows, listed, adapters, ws, session, reauthing, cached, requests>>

-----------------------------------------------------------------------------
(* Requests of operators, and the events they emit                         *)

Request == requests < MaxRequests /\ requests' = requests + 1

AdaptersOf(p) == {a \in Listed : adapters[a].printer = p}

\* reconnectPrinterAdapter
Reconnect(p) ==
    /\ Request
    /\ \E a \in AdaptersOf(p) :
          /\ Becomes(a, Dropped(a, Reset(Closed(adapters[a]))))
          /\ ws' = [ws EXCEPT ![a] = CloseConn(a)]
    /\ UNCHANGED <<rows, listed, session, taskVars, cached, faults>>

\* delete of the Map, whose other entries keep their order.  A is of one
\* printer: the Map has one adapter of it, or none.
Unlisted(A) ==
    LET at == CHOOSE i \in 1..Len(listed) : listed[i] \in A
    IN  IF A = {} THEN listed
        ELSE [i \in 1..(Len(listed) - 1) |-> IF i < at THEN listed[i] ELSE listed[i + 1]]

\* Fault: the adapter may still emit events.
ClosedOnly(r) == Closed(r)

Purged(r) == [Closed(r) EXCEPT !.silent = TRUE]

\* deleteSocket
DeleteSocket(p) ==
    /\ adapters' = [a \in DOMAIN adapters |->
                       IF a \in AdaptersOf(p) THEN Dropped(a, Purged(adapters[a])) ELSE adapters[a]]
    /\ ws' = [a \in DOMAIN ws |-> IF a \in AdaptersOf(p) THEN CloseConn(a) ELSE ws[a]]
    /\ listed' = Unlisted(AdaptersOf(p))

\* printerUpdated of a printer that is now disabled
Disable(p) ==
    /\ Request
    /\ rows[p] = "enabled"
    /\ rows' = [rows EXCEPT ![p] = "disabled"]
    /\ DeleteSocket(p)
    /\ UNCHANGED <<session, taskVars, cached, faults>>

\* printersDeleted, which PrinterEventsCache hears too
Delete(p) ==
    /\ Request
    /\ rows[p] # "deleted"
    /\ rows' = [rows EXCEPT ![p] = "deleted"]
    /\ DeleteSocket(p)
    /\ cached' = cached \ {p}
    /\ UNCHANGED <<session, taskVars, faults>>

\* createOrUpdateSocket of an enabled OctoPrint printer.  One that is enabled
\* again or had another type gets a new adapter.
Update(p) ==
    /\ Request
    /\ rows[p] # "deleted"
    /\ rows' = [rows EXCEPT ![p] = "enabled"]
    /\ IF AdaptersOf(p) # {}
       THEN \E a \in AdaptersOf(p) :
               /\ Becomes(a, Dropped(a, Reset(Closed(adapters[a]))))
               /\ ws' = [ws EXCEPT ![a] = CloseConn(a)]
               /\ UNCHANGED <<listed, session>>
       ELSE /\ Len(adapters) < MaxAdapters
            /\ adapters' = Append(adapters, NewAdapter(p))
            /\ ws' = Append(ws, NoConns)
            /\ session' = Append(session, NoSessions)
            /\ listed' = Append(listed, Len(adapters) + 1)
    /\ UNCHANGED <<taskVars, cached, faults>>

\* createOrUpdateSocket of a printer whose type is no longer OctoPrint: its
\* adapter is closed and replaced, but not silenced.
ChangeType(p) ==
    /\ Request
    /\ rows[p] = "enabled"
    /\ rows' = [rows EXCEPT ![p] = "other"]
    /\ \E a \in AdaptersOf(p) :
          /\ Becomes(a, Dropped(a, [Closed(adapters[a]) EXCEPT !.replaced = TRUE]))
          /\ ws' = [ws EXCEPT ![a] = CloseConn(a)]
          /\ listed' = Unlisted({a})
    /\ UNCHANGED <<session, taskVars, cached, faults>>

-----------------------------------------------------------------------------

TaskStep == RunStarts \/ RestoreStarts \/ RestoreAnswered \/ RestoreFails

AdapterStep(a) ==
    \/ \E s \in 1..MaxSessions : SessionStep(a, s)
    \/ \E c \in 1..MaxConns :
          \/ ConnOpens(a, c) \/ ConnMessage(a, c) \/ ConnErrs(a, c)
          \/ ConnDies(a, c) \/ ConnCloses(a, c)
    \/ Silence(a) \/ TickBegins(a) \/ TickEnds(a)

OperatorStep ==
    \E p \in Printers : Reconnect(p) \/ Disable(p) \/ Delete(p) \/ Update(p) \/ ChangeType(p)

SocketNext == TaskStep \/ (\E a \in DOMAIN adapters : AdapterStep(a)) \/ OperatorStep

SocketSpec == SocketInit /\ [][SocketNext]_socketVars

-----------------------------------------------------------------------------
(* Properties.                                                             *)

\* A printer that is deleted does not enter the events cache again, whatever
\* setup, poll or closing connection of its adapter is still under way; only
\* an adapter that a change of type has left behind can do that.
DeletedStaysOut ==
    \A p \in Printers :
        rows[p] = "deleted" /\ p \in cached =>
            \E a \in DOMAIN adapters : adapters[a].printer = p /\ adapters[a].replaced

Down(p) ==
    \E a \in AdaptersOf(p) : adapters[a].socket \in {"unopened", "closed", "aborted", "error"}

-----------------------------------------------------------------------------
(* What the repository says, and the code does not do.                     *)

\* printer-socket.store.ts:88, "The reconnect task will pick up this state
\* and reconnect": an adapter that is unopened gets a setup, or is removed.
UnopenedIsPickedUp ==
    \A p \in Printers \ Faulty :
        (\E a \in AdaptersOf(p) : adapters[a].socket = "unopened") ~>
        (\A a \in AdaptersOf(p) : \/ adapters[a].socket # "unopened"
                                 \/ FreeSlots(session, a) # 1..MaxSessions)

\* octoprint-websocket.adapter.ts:116, "Socket already exists by printerId,
\* ignoring open request": an adapter has one connection.
OneConnection ==
    \A a \in DOMAIN adapters :
        Cardinality({c \in 1..MaxConns : ws[a][c] \in {"connecting", "open"}}) <= 1

=============================================================================
