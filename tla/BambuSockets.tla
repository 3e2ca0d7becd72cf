----------------------------- MODULE BambuSockets -----------------------------
(***************************************************************************)
(* BambuMqttAdapter: the connection of a Bambu printer over MQTT, under    *)
(* the task that sets adapters up and the operators who reset them.        *)
(*                                                                         *)
(* An mqtt.js client connects again by itself, and reports what happens to *)
(* it as events.  The adapter makes a new client when it takes the present *)
(* one for lost; the former goes on, and both report to the adapter.       *)
(***************************************************************************)
EXTENDS Integers, FiniteSets

CONSTANTS
    MaxClients,        \* bound: MQTT clients at a time
    MaxBambuFaults,    \* bound: failures of the printer
    MaxBambuResets     \* bound: requests of operators

ASSUME BambuAssumption ==
    /\ MaxClients \in Nat \ {0}
    /\ {MaxBambuFaults, MaxBambuResets} \subseteq Nat

VARIABLES
    bambu,         \* the adapter
    clients,       \* the MQTT clients that report to it
    bambuFaults,
    bambuResets

bambuVars == <<bambu, clients, bambuFaults, bambuResets>>

Clients == 1..MaxClients

BambuSocketStates == {"unopened", "opening", "opened", "authenticated", "aborted", "error", "closed"}

BambuApiStates == {"unset", "responding", "noResponse"}

\* "client" is mqttClient, 0 if null; "registered" says whether the printer
\* has a host, an access code and a serial number; "last" is lastState.
BambuAdapter ==
    [socket : BambuSocketStates, api : BambuApiStates, client : 0..MaxClients,
     isConnecting : BOOLEAN, registered : BOOLEAN, last : BOOLEAN]

\* "heard" says whether the client has the adapter's listeners, "timer" that
\* the connectionTimeout of its connect runs.  An "ending" client is
\* disconnecting and still connected, an "ended" one has its callback to come.
Client == [st : {"none", "connecting", "connected", "waiting", "ending", "ended"},
           heard : BOOLEAN, timer : BOOLEAN]

NoClient == [st |-> "none", heard |-> FALSE, timer |-> FALSE]

BambuTypeOK ==
    /\ bambu \in BambuAdapter
    /\ clients \in [Clients -> Client]
    /\ bambu.client # 0 => clients[bambu.client].heard

BambuInit ==
    /\ \E r \in BOOLEAN :
          bambu = [socket |-> "unopened", api |-> "unset", client |-> 0,
                   isConnecting |-> FALSE, registered |-> r, last |-> FALSE]
    /\ clients = [c \in Clients |-> NoClient]
    /\ bambuFaults = 0
    /\ bambuResets = 0

BambuFails == bambuFaults < MaxBambuFaults /\ bambuFaults' = bambuFaults + 1

-----------------------------------------------------------------------------
(* The adapter's methods.                                                  *)

IsConnected(c) == c # 0 /\ clients[c].st \in {"connected", "ending"}

\* Fault: whatever closed it, a closed adapter is left closed.
BambuNeverReopens(a) == FALSE

BambuNeedsReopen(a) == a.api = "responding" /\ a.socket \in {"closed", "error"}

BambuNeedsSetup(a) == a.socket = "unopened"

Opening(a) == [a EXCEPT !.socket = "opening", !.api = "responding"]

\* cleanup: the listeners are taken off the client, which is not ended by it.
CleanedUp(a) == [a EXCEPT !.client = 0, !.isConnecting = FALSE, !.last = FALSE]

\* A client that nobody listens to is followed only while it has a callback
\* to call or its timer runs.
Unheard(cl) ==
    [cl EXCEPT !.heard = FALSE, !.st = IF @ \in {"ending", "ended"} THEN @ ELSE "none"]

CleanupOf(cs, a) == IF a.client = 0 THEN cs ELSE [cs EXCEPT ![a.client] = Unheard(@)]

Vacant == {c \in Clients : clients[c] = NoClient}

\* open: connect of the adapter a, which finds its client connected, or a
\* connection under way, or makes a client; or mqtt.connect throws.
Connect(a) ==
    \/ /\ IsConnected(a.client)
       /\ bambu' = [a EXCEPT !.socket = "opened"]
       /\ UNCHANGED <<clients, bambuFaults>>
    \/ /\ ~IsConnected(a.client) /\ a.isConnecting
       /\ bambu' = a
       /\ UNCHANGED <<clients, bambuFaults>>
    \/ /\ ~IsConnected(a.client) /\ ~a.isConnecting
       /\ Vacant # {}
       /\ LET c == CHOOSE v \in Vacant : \A w \in Vacant : v <= w
          IN  /\ bambu' = [a EXCEPT !.client = c, !.isConnecting = TRUE]
              /\ clients' = [clients EXCEPT ![c] =
                                [st |-> "connecting", heard |-> TRUE, timer |-> TRUE]]
       /\ UNCHANGED bambuFaults
    \/ /\ ~IsConnected(a.client) /\ ~a.isConnecting
       /\ BambuFails
       /\ bambu' = [CleanedUp(a) EXCEPT !.socket = "error"]
       /\ clients' = CleanupOf(clients, a)

\* reconnectPrinterSockets: setupSocketSession, which throws when credentials
\* are missing, and open
BambuRunStarts ==
    /\ BambuNeedsSetup(bambu) \/ BambuNeedsReopen(bambu)
    /\ IF bambu.registered THEN Connect(Opening(bambu))
       ELSE /\ bambu' = [bambu EXCEPT !.socket = "aborted", !.api = "noResponse"]
            /\ UNCHANGED <<clients, bambuFaults>>
    /\ UNCHANGED bambuResets

-----------------------------------------------------------------------------
(* The events of client c.  A client nobody listens to changes nothing.    *)

Reports(c, a) == bambu' = IF clients[c].heard THEN a ELSE bambu

Turns(c, st) == clients' = [clients EXCEPT ![c].st = st]

\* connect: the timer of this client is cleared.
ClientConnects(c) ==
    /\ clients[c].st = "connecting"
    /\ clients' = [clients EXCEPT ![c].st = "connected", ![c].timer = FALSE]
    /\ bambu' = [bambu EXCEPT !.socket = "authenticated", !.api = "responding",
                              !.isConnecting = FALSE]
    /\ UNCHANGED <<bambuFaults, bambuResets>>

\* error, of a connection refused; and the error of the subscription
ClientErrs(c) ==
    /\ clients[c].st \in {"connecting", "connected"}
    /\ BambuFails
    /\ bambu' = [bambu EXCEPT !.socket = "error",
                              !.isConnecting = @ /\ clients[c].st = "connected"]
    /\ UNCHANGED <<clients, bambuResets>>

Down(a) == [a EXCEPT !.socket = "closed", !.api = "noResponse"]

\* close and offline: the client will connect again, unless it was ended.
ClientCloses(c) ==
    /\ clients[c].st \in {"connecting", "connected", "ending"}
    /\ IF clients[c].st = "ending" THEN UNCHANGED bambuFaults ELSE BambuFails
    /\ Turns(c, IF clients[c].st = "ending" THEN "ended" ELSE "waiting")
    /\ Reports(c, Down(bambu))
    /\ UNCHANGED bambuResets

\* reconnect
ClientRetries(c) ==
    /\ clients[c].st = "waiting"
    /\ Turns(c, "connecting")
    /\ bambu' = [bambu EXCEPT !.socket = "opening"]
    /\ UNCHANGED <<bambuFaults, bambuResets>>

\* message, of the report topic
ClientMessage(c) ==
    /\ clients[c].st \in {"connected", "ending"}
    /\ Reports(c, [bambu EXCEPT !.last = TRUE])
    /\ UNCHANGED <<clients, bambuFaults, bambuResets>>

\* The callback of end: cleanup, of whichever client the adapter has by now
EndCallback(c) ==
    /\ clients[c].st = "ended"
    /\ clients' = CleanupOf([clients EXCEPT ![c] = [NoClient EXCEPT !.timer = clients[c].timer]],
                            IF bambu.client = c THEN [bambu EXCEPT !.client = 0] ELSE bambu)
    /\ bambu' = CleanedUp(bambu)
    /\ UNCHANGED <<bambuFaults, bambuResets>>

GivenUp(a) == [a EXCEPT !.socket = "error", !.isConnecting = FALSE]

\* connectionTimeout, which nothing but the connect of its client clears
TimeoutFires(c) ==
    /\ clients[c].timer
    /\ clients' = [clients EXCEPT ![c].timer = FALSE]
    /\ bambu' = GivenUp(bambu)
    /\ UNCHANGED <<bambuFaults, bambuResets>>

-----------------------------------------------------------------------------
(* Operators.                                                              *)

\* close, then resetSocketState, which leaves the socketState as it is.  An
\* ending client that is ended again calls back at once.
Disconnect(a) ==
    LET c == a.client
        b == [a EXCEPT !.socket = "closed"]
    IN  IF c = 0 THEN bambu' = [b EXCEPT !.last = FALSE] /\ UNCHANGED clients
        ELSE IF clients[c].st = "connected"
        THEN bambu' = [b EXCEPT !.last = FALSE] /\ Turns(c, "ending")
        ELSE bambu' = CleanedUp(b) /\ clients' = CleanupOf(clients, a)

\* reconnectPrinterAdapter; and createOrUpdateSocket of a printer updated,
\* perhaps with other credentials
BambuReset ==
    /\ bambuResets < MaxBambuResets
    /\ bambuResets' = bambuResets + 1
    /\ \E r \in BOOLEAN : Disconnect([bambu EXCEPT !.registered = r])
    /\ UNCHANGED bambuFaults

-----------------------------------------------------------------------------

ClientStep(c) ==
    \/ ClientConnects(c) \/ ClientErrs(c) \/ ClientCloses(c) \/ ClientRetries(c)
    \/ ClientMessage(c) \/ EndCallback(c) \/ TimeoutFires(c)

BambuNext == BambuRunStarts \/ BambuReset \/ \E c \in Clients : ClientStep(c)

-----------------------------------------------------------------------------
(* Properties.                                                             *)

\* The adapter does not believe for ever that it is connecting, which would
\* keep it from connecting: a timer runs that will end it.
ConnectingIsTimed == bambu.isConnecting => \E c \in Clients : clients[c].timer

\* Once the printer no longer fails and operators rest, an adapter that has a
\* client is connected, whatever former clients and late timers did to it.
ClientGetsThrough == <>[](bambu.client # 0 => bambu.socket \in {"opened", "authenticated"})

=============================================================================
