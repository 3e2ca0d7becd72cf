--------------------------- MODULE MoonrakerSockets ---------------------------
(***************************************************************************)
(* The websocket adapter of a Moonraker printer, with the JSON-RPC         *)
(* requests it makes over its connection (WebsocketRpcExtendedAdapter),    *)
(* under the task that sets adapters up and the operators who reset them.  *)
(* PrinterWebsocketRestoreTask skips Moonraker adapters.  apiState and the *)
(* interval that polls decide nothing here (needsReopen is false) and are  *)
(* left out, with what printerObjects holds.                               *)
(*                                                                         *)
(* Every request has the id 1 ("request.id = request.id++" assigns the old *)
(* value), so requestMap has at most one entry: that of the last request.  *)
(***************************************************************************)
EXTENDS Integers

CONSTANTS
    MaxSetups,     \* bound: setups at a time
    MaxConns,      \* bound: WebSockets not yet closed
    MaxFaults,     \* bound: failures of the host and restarts of Klipper
    MaxResets      \* bound: requests of operators

VARIABLES
    adapter,       \* its socketState and its socket
    ws,            \* WebSockets that have not closed
    setup,         \* setupSocketSession under way
    opened,        \* afterOpened under way, for each WebSocket
    entry,         \* whose afterOpened the entry 1 of requestMap belongs to, or 0
    faults,
    resets

boundVars == <<faults, resets>>
moonVars  == <<adapter, ws, setup, opened, entry, boundVars>>

Conns  == 1..MaxConns
Setups == 1..MaxSetups

MoonrakerAdapter ==
    [socket : {"unopened", "opened", "authenticated", "aborted", "error", "closed"},
     conn : 0..MaxConns]

\* Who asked for the setup (the task waits for its own) and which answer of
\* the host it waits for
MoonrakerSetup == [why : {"task", "event"}, at : {"none", "version", "objects"}]

NoSetup == [why |-> "task", at |-> "none"]

\* afterOpened of a WebSocket: the answer it waits for, whether the timer of
\* its request runs, and over which WebSocket an answer may still come
Opening == [at : {"none", "identify", "subscribe"}, timer : BOOLEAN, owed : 0..MaxConns]

NotOpening == [at |-> "none", timer |-> FALSE, owed |-> 0]

MoonrakerTypeOK ==
    /\ adapter \in MoonrakerAdapter
    /\ ws \in [Conns -> {"none", "connecting", "open", "closing"}]
    /\ setup \in [Setups -> MoonrakerSetup]
    /\ opened \in [Conns -> Opening]
    /\ entry \in 0..MaxConns
    /\ adapter.conn # 0 => ws[adapter.conn] # "none"
    /\ \A s, t \in Setups :
          s # t => ~(\A u \in {s, t} : setup[u].at # "none" /\ setup[u].why = "task")

MoonrakerInit ==
    /\ adapter = [socket |-> "unopened", conn |-> 0]
    /\ ws = [c \in Conns |-> "none"]
    /\ setup = [s \in Setups |-> NoSetup]
    /\ opened = [c \in Conns |-> NotOpening]
    /\ entry = 0
    /\ faults = 0
    /\ resets = 0

Fails == faults < MaxFaults /\ faults' = faults + 1

-----------------------------------------------------------------------------
(* The requests waiting for an answer.  f is "opened", e is "entry".       *)

\* The Promise of e's request settles and its timer is cleared.
Settled(f, e, r) == [c \in Conns |-> IF c = e THEN r ELSE f[c]]

\* sendRequest from afterOpened of c: the entry of an earlier request is lost,
\* its timer runs on.  The socket it sends over is the adapter's: if that is
\* still connecting, send throws, and the entry and its timer remain.
Registered(c) ==
    [opened EXCEPT ![c] = [at    |-> IF ws'[adapter.conn] = "connecting" THEN "none"
                                     ELSE "identify",
                           timer |-> TRUE,
                           owed  |-> IF ws'[adapter.conn] = "open" THEN adapter.conn ELSE 0]]

\* Fault: a request whose time is up stays in the map.
TimedOutInMap(c) ==
    /\ opened' = [opened EXCEPT ![c] = [NotOpening EXCEPT !.owed = opened[c].owed]]
    /\ entry' = entry

\* clearRequest removes the entry 1 with its timer, whoever's they are, and
\* the request whose timer fired is rejected.
TimedOut(c) ==
    /\ opened' = [d \in Conns |->
                     IF d = c THEN [NotOpening EXCEPT !.owed = opened[c].owed]
                     ELSE IF d = entry THEN [opened[d] EXCEPT !.timer = FALSE]
                     ELSE opened[d]]
    /\ entry' = 0

\* clearAllRequests
RequestsCleared ==
    /\ opened' = Settled(opened, entry, [NotOpening EXCEPT !.owed = IF entry = 0 THEN 0
                                                                    ELSE opened[entry].owed])
    /\ entry' = 0

RequestTimesOut(c) ==
    /\ opened[c].timer
    /\ TimedOut(c)
    /\ UNCHANGED <<adapter, ws, setup, boundVars>>

\* An answer to the request of c: it has the id 1, and settles the request
\* that has the entry.  Without one it is dropped.
RequestAnswered(c) ==
    /\ opened[c].owed # 0
    /\ ws[opened[c].owed] \in {"open", "closing"}
    /\ LET f == [opened EXCEPT ![c].owed = 0]
           r == IF entry = 0 \/ f[entry].at = "none"
                THEN [NotOpening EXCEPT !.owed = IF entry = 0 THEN 0 ELSE f[entry].owed]
                ELSE [at |-> "subscribe", timer |-> FALSE, owed |-> f[entry].owed]
       IN  opened' = Settled(f, entry, r)
    /\ entry' = 0
    /\ UNCHANGED <<adapter, ws, setup, boundVars>>

\* postSubscribePrinterObjects has ended, one way or the other.
Subscribed(c) ==
    /\ opened[c].at = "subscribe"
    /\ opened' = [opened EXCEPT ![c].at = "none"]
    /\ UNCHANGED <<adapter, ws, setup, entry, boundVars>>

-----------------------------------------------------------------------------
(* setupSocketSession                                                      *)

Reset(a) == [a EXCEPT !.socket = "unopened"]

NeedsSetup(a) == a.socket = "unopened"

FreeSetups == {s \in Setups : setup[s].at = "none"}

SetupBegins(a, why) ==
    /\ FreeSetups # {}
    /\ adapter' = Reset(a)
    /\ setup' = [setup EXCEPT ![CHOOSE s \in FreeSetups : TRUE] =
                    [why |-> why, at |-> "version"]]

\* reconnectPrinterSockets, unless its last run still waits
RunStarts ==
    /\ \A s \in Setups : setup[s].at = "none" \/ setup[s].why # "task"
    /\ NeedsSetup(adapter)
    /\ SetupBegins(adapter, "task")
    /\ UNCHANGED <<ws, opened, entry, boundVars>>

VersionAnswered(s) ==
    /\ setup[s].at = "version"
    /\ setup' = [setup EXCEPT ![s].at = "objects"]
    /\ UNCHANGED <<adapter, ws, opened, entry, boundVars>>

VersionFails(s) ==
    /\ setup[s].at = "version"
    /\ Fails
    /\ setup' = [setup EXCEPT ![s] = NoSetup]
    /\ adapter' = [adapter EXCEPT !.socket = "aborted"]
    /\ UNCHANGED <<ws, opened, entry, resets>>

\* afterOpened of c is over, or waits for a request nothing will ever settle.
Over(c) == ~opened[c].timer /\ c # entry /\ opened[c].at # "subscribe"

\* updateCurrentStateSafely has ended (it does not throw), then open for the
\* task's setup: it throws if there is a socket, and the run ends either way.
SetupEnds(s) ==
    /\ setup[s].at = "objects"
    /\ setup' = [setup EXCEPT ![s] = NoSetup]
    /\ IF setup[s].why = "task" /\ adapter.conn = 0
       THEN \E c \in Conns :
               /\ ws[c] = "none" /\ Over(c)
               /\ \A d \in 1..(c - 1) : ws[d] # "none" \/ ~Over(d)
               /\ ws' = [ws EXCEPT ![c] = "connecting"]
               /\ opened' = [opened EXCEPT ![c] = NotOpening]
               /\ adapter' = [adapter EXCEPT !.conn = c]
       ELSE UNCHANGED <<adapter, ws, opened>>
    /\ UNCHANGED <<entry, boundVars>>

-----------------------------------------------------------------------------
(* The events of WebSocket c                                               *)

\* onopen.  Without a socket of the adapter sendRequest throws.
ConnOpens(c) ==
    /\ ws[c] = "connecting"
    /\ ws' = [ws EXCEPT ![c] = "open"]
    /\ adapter' = [adapter EXCEPT !.socket = "opened"]
    /\ IF adapter.conn = 0 THEN UNCHANGED <<opened, entry>>
       ELSE opened' = Registered(c) /\ entry' = c
    /\ UNCHANGED <<setup, boundVars>>

\* A message other than an answer.  Those of Klipper and of services call
\* setupSocketSession, which forgets that the socket is open.
ConnMessage(c) ==
    /\ ws[c] \in {"open", "closing"}
    /\ LET a == [adapter EXCEPT !.socket = "authenticated"]
       IN  \/ adapter' = a /\ UNCHANGED <<setup, faults>>
           \/ SetupBegins(a, "event") /\ Fails
    /\ UNCHANGED <<ws, opened, entry, resets>>

\* onerror of an open WebSocket, before it closes
ConnErrs(c) ==
    /\ ws[c] = "open"
    /\ Fails
    /\ ws' = [ws EXCEPT ![c] = "closing"]
    /\ adapter' = [adapter EXCEPT !.socket = "error"]
    /\ UNCHANGED <<setup, opened, entry, resets>>

\* onclose, of this or an earlier WebSocket of the adapter.  Requests that
\* wait go on waiting.
ConnCloses(c) ==
    /\ ws[c] # "none"
    /\ IF ws[c] = "closing" THEN UNCHANGED faults ELSE Fails
    /\ ws' = [ws EXCEPT ![c] = "none"]
    /\ adapter' = [adapter EXCEPT !.socket = "closed", !.conn = 0]
    /\ opened' = [d \in Conns |-> IF opened[d].owed = c THEN [opened[d] EXCEPT !.owed = 0]
                                  ELSE opened[d]]
    /\ UNCHANGED <<setup, entry, resets>>

\* reconnectPrinterAdapter, and createOrUpdateSocket of an enabled printer
\* that was updated: close and resetSocketState.  A WebSocket that was
\* connecting fails at once, after that.
Reconnect ==
    /\ resets < MaxResets
    /\ resets' = resets + 1
    /\ RequestsCleared
    /\ LET c == adapter.conn
           a == [Reset(adapter) EXCEPT !.conn = 0]
       IN  IF c = 0 THEN adapter' = a /\ UNCHANGED ws
           ELSE IF ws[c] = "connecting"
           THEN adapter' = [a EXCEPT !.socket = "closed"] /\ ws' = [ws EXCEPT ![c] = "none"]
           ELSE adapter' = a /\ ws' = [ws EXCEPT ![c] = "closing"]
    /\ UNCHANGED <<setup, faults>>

-----------------------------------------------------------------------------

SetupStep(s) == VersionAnswered(s) \/ VersionFails(s) \/ SetupEnds(s)

ConnStep(c) ==
    \/ ConnOpens(c) \/ ConnMessage(c) \/ ConnErrs(c) \/ ConnCloses(c)
    \/ RequestAnswered(c) \/ RequestTimesOut(c) \/ Subscribed(c)

MoonrakerNext ==
    \/ RunStarts \/ Reconnect
    \/ \E s \in Setups : SetupStep(s)
    \/ \E c \in Conns : ConnStep(c)

-----------------------------------------------------------------------------
(* Properties.                                                             *)

\* The entry of the map has a timer that will remove it: whatever order
\* answers, timeouts, new connections and resets come in, no request is kept
\* for ever ("to prevent memory/timeout leaks", clearAllRequests).
EntryIsTimed == entry # 0 => opened[entry].timer

=============================================================================
