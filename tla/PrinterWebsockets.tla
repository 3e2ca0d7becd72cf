-------------------------- MODULE PrinterWebsockets --------------------------
(***************************************************************************)
(* PrinterSocketStore over the websocket adapters of either type: the      *)
(* factory gives an OctoPrint printer the adapter of OctoPrintSockets, and *)
(* a Moonraker printer that of MoonrakerSockets.  The store is of printers *)
(* of one type.                                                            *)
(***************************************************************************)
EXTENDS OctoPrintSockets

CONSTANTS
    MaxSetups, MaxMoonConns, MaxMoonFaults, MaxResets   \* of MoonrakerSockets

ASSUME WebsocketAssumption ==
    /\ {MaxSetups, MaxMoonConns} \subseteq Nat \ {0}
    /\ {MaxMoonFaults, MaxResets} \subseteq Nat

VARIABLES
    printerType,                                 \* of the printers of the store
    adapter, conns, setup, opened, entry, restarts, resets

Moonraker == INSTANCE MoonrakerSockets
             WITH ws <- conns, faults <- restarts,
                  MaxConns <- MaxMoonConns, MaxFaults <- MaxMoonFaults

moonrakerVars == <<adapter, conns, setup, opened, entry, restarts, resets>>
websocketVars == <<socketVars, moonrakerVars, printerType>>

WebsocketTypeOK ==
    /\ printerType \in {"octoprint", "moonraker"}
    /\ SocketTypeOK
    /\ Moonraker!MoonrakerTypeOK

WebsocketInit ==
    /\ printerType \in {"octoprint", "moonraker"}
    /\ SocketInit
    /\ Moonraker!MoonrakerInit

OfOctoPrint(A) == printerType = "octoprint" /\ A /\ UNCHANGED <<moonrakerVars, printerType>>

OfMoonraker(A) == printerType = "moonraker" /\ A /\ UNCHANGED <<socketVars, printerType>>

WebsocketNext == OfOctoPrint(SocketNext) \/ OfMoonraker(Moonraker!MoonrakerNext)

Of(a, A) == OfOctoPrint(a \in DOMAIN adapters /\ A)

\* The fairness of the two modules: timers fire, exchanges with a host end
\* one way or the other, a WebSocket's handshake and its closing end, and an
\* open connection of OctoPrint delivers messages.
WebsocketFairness ==
    /\ WF_websocketVars(OfOctoPrint(RunStarts))
    /\ WF_websocketVars(OfOctoPrint(RestoreStarts))
    /\ WF_websocketVars(OfOctoPrint(RestoreAnswered \/ RestoreFails))
    /\ \A a \in 1..MaxAdapters :
          /\ WF_websocketVars(Of(a, TickEnds(a)))
          /\ \A s \in 1..MaxSessions : WF_websocketVars(Of(a, SessionStep(a, s)))
          /\ \A c \in 1..MaxConns :
                /\ WF_websocketVars(Of(a, ConnMessage(a, c)))
                /\ WF_websocketVars(Of(a, \/ ConnOpens(a, c)
                                          \/ ws[a][c] \notin {"open", "dead"} /\ ConnCloses(a, c)))
    /\ WF_websocketVars(OfMoonraker(Moonraker!RunStarts))
    /\ \A s \in Moonraker!Setups : WF_websocketVars(OfMoonraker(Moonraker!SetupStep(s)))
    /\ \A c \in Moonraker!Conns :
          /\ WF_websocketVars(OfMoonraker(Moonraker!RequestTimesOut(c)))
          /\ WF_websocketVars(OfMoonraker(Moonraker!Subscribed(c)))
          /\ WF_websocketVars(OfMoonraker(\/ Moonraker!ConnOpens(c)
                                          \/ conns[c] = "closing" /\ Moonraker!ConnCloses(c)))

FairWebsocketSpec == WebsocketInit /\ [][WebsocketNext]_websocketVars /\ WebsocketFairness

-----------------------------------------------------------------------------
(* Properties.                                                             *)

\* A request over a Moonraker printer's websocket that is kept in requestMap
\* has a timer that will remove it: whatever order answers, timeouts, new
\* connections and resets come in, none is kept for ever ("to prevent
\* memory/timeout leaks", clearAllRequests).
RequestsAreTimed == Moonraker!EntryIsTimed

\* Once hosts no longer fail, Klipper no longer restarts and operators rest,
\* no printer's socket is left unopened: whatever overlapping setups and late
\* events of former connections did to it, the tasks of an OctoPrint printer
\* bring it to a connection that is not closed, aborted or failed either,
\* and the only task of a Moonraker printer at least gives it a WebSocket.
NoneLeftBehind ==
    <>[]CASE printerType = "octoprint" -> \A p \in Printers : rows[p] = "enabled" => ~Down(p)
          [] printerType = "moonraker" -> adapter.socket = "unopened" => adapter.conn # 0

=============================================================================
