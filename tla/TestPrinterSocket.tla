-------------------------- MODULE TestPrinterSocket --------------------------
(***************************************************************************)
(* TestPrinterSocketStore: an operator tests a printer's login before      *)
(* saving it.  Each test makes an adapter of its own, but the store has    *)
(* one field for it, testSocket, which every test that is under way reads  *)
(* anew at each of its steps: a test that begins closes the socket of the  *)
(* test before, and a test that ends closes the one it then finds.         *)
(*                                                                         *)
(* Test t has the id TEST_PRINTER_ID_BASE + t, its socket is number t, and *)
(* its correlation token is t.                                             *)
(***************************************************************************)
EXTENDS Integers, Sequences

CONSTANT MaxTests      \* bound: tests

ASSUME TestAssumption == MaxTests \in Nat \ {0}

VARIABLES
    tests,         \* setupTestPrinter, by test: the await it is at
    testSocket,    \* the number of the socket, 0 for undefined
    testSockets,   \* the adapter each test made
    listening,     \* the tests whose listener is registered
    remembered     \* the ids of tests that PrinterEventsCache has events of

testVars == <<tests, testSocket, testSockets, listening, remembered>>

\* "session" awaits setupSocketSession; "polling" looks every 100 ms at what
\* testSocket is; "unsettled" is left with the timeout of the race alone.
TestStep == {"session", "polling", "unsettled", "ended"}

\* Opening an adapter that is open throws with a websocket, and does not with
\* the others.
TestAdapter ==
    [websocket : BOOLEAN, state : {"made", "open", "authenticated", "closed"}, silent : BOOLEAN]

Tests == DOMAIN tests

IsOpen(s) == testSockets[s].state \in {"open", "authenticated"}

TestTypeOK ==
    /\ tests \in [1..Len(tests) -> TestStep]
    /\ Len(tests) <= MaxTests
    /\ testSocket \in Tests \cup {0}
    /\ testSockets \in [Tests -> TestAdapter]
    /\ listening \subseteq Tests
    /\ remembered \subseteq Tests

TestInit ==
    /\ tests = << >>
    /\ testSocket = 0
    /\ testSockets = << >>
    /\ listening = {}
    /\ remembered = {}

-----------------------------------------------------------------------------

\* Fault: the socket of the test before is forgotten, not closed.
FormerForgotten == testSockets

\* testSocket.close() of the test before.  It may still say that it closed.
FormerClosed ==
    [s \in Tests |-> IF s = testSocket THEN [testSockets[s] EXCEPT !.state = "closed"]
                                       ELSE testSockets[s]]

\* testConnection and setupTestPrinter, to the await of setupSocketSession.
\* validateInput waits for nothing outside, so that no other test comes in
\* between; input that is refused ends the test, with the socket before gone.
TestBegins ==
    /\ Len(tests) < MaxTests
    /\ UNCHANGED remembered
    /\ LET t == Len(tests) + 1 IN
       \E websocket \in BOOLEAN :
          \/ /\ tests' = Append(tests, "session")
             /\ testSockets' = Append(FormerClosed,
                   [websocket |-> websocket, state |-> "made", silent |-> FALSE])
             /\ testSocket' = t
             /\ listening' = listening \cup {t}
          \/ /\ tests' = Append(tests, "ended")
             /\ testSockets' = Append(FormerClosed,
                   [websocket |-> websocket, state |-> "closed", silent |-> TRUE])
             /\ testSocket' = 0
             /\ UNCHANGED listening

\* The part after try.  With no socket its first statement throws, and the
\* rest is left out: the listener stays, and nobody hears of the deletion.
Finalised(t) ==
    /\ tests' = [tests EXCEPT ![t] = "ended"]
    /\ IF testSocket = 0
       THEN UNCHANGED <<testSocket, testSockets, listening, remembered>>
       ELSE /\ testSockets' = [testSockets EXCEPT ![testSocket].state = "closed",
                                                  ![testSocket].silent = TRUE]
            /\ testSocket' = 0
            /\ listening' = listening \ {t}
            /\ remembered' = remembered \ {t}

SessionFails(t) == tests[t] = "session" /\ Finalised(t)

\* The promise opens whatever testSocket is by then.  Without a socket, or
\* when opening throws, it settles no more.
SessionIsUp(t) ==
    /\ tests[t] = "session"
    /\ IF testSocket = 0 \/ (IsOpen(testSocket) /\ testSockets[testSocket].websocket)
       THEN /\ tests' = [tests EXCEPT ![t] = "unsettled"]
            /\ UNCHANGED testSockets
       ELSE /\ tests' = [tests EXCEPT ![t] = "polling"]
            /\ testSockets' = [testSockets EXCEPT ![testSocket].state = "open"]
    /\ UNCHANGED <<testSocket, listening, remembered>>

\* The interval of 100 ms: the test is rejected, or resolved
PollSettles(t) ==
    /\ tests[t] = "polling"
    /\ testSocket # 0 => testSockets[testSocket].state = "authenticated"
    /\ Finalised(t)

\* defaultWebsocketHandshakeTimeout
TestTimesOut(t) ==
    /\ tests[t] \in {"polling", "unsettled"}
    /\ Finalised(t)

-----------------------------------------------------------------------------
(* The adapters.                                                           *)

SocketAuthenticates(s) ==
    /\ testSockets[s].state = "open"
    /\ testSockets' = [testSockets EXCEPT ![s].state = "authenticated"]
    /\ UNCHANGED <<tests, testSocket, listening, remembered>>

\* The other side, or an answer, ends a session; the adapter keeps its
\* websocket.
SessionLost(s) ==
    /\ testSockets[s].state = "authenticated"
    /\ testSockets' = [testSockets EXCEPT ![s].state = "open"]
    /\ UNCHANGED <<tests, testSocket, listening, remembered>>

\* An event of the adapter, that of the end of its connection after close, is
\* passed on by the listener of its own test, and kept by the cache.
SocketSpeaks(s) ==
    /\ ~testSockets[s].silent
    /\ remembered' = remembered \cup {s}
    /\ UNCHANGED <<tests, testSocket, testSockets, listening>>

TestNext ==
    \/ TestBegins
    \/ \E t \in Tests : \/ SessionFails(t) \/ SessionIsUp(t)
                        \/ PollSettles(t) \/ TestTimesOut(t)
                        \/ SocketAuthenticates(t) \/ SessionLost(t) \/ SocketSpeaks(t)

-----------------------------------------------------------------------------
(* Properties.                                                             *)

\* However tests overlap, close each other's sockets and end in each other's
\* place, the only test printer that is still connected is the one that
\* testSocket gives, and when no test is under way none is.
OnlyTestedIsOpen ==
    /\ \A s \in Tests : IsOpen(s) => testSocket = s
    /\ (\A t \in Tests : tests[t] = "ended") => testSocket = 0

\* "Ensure that the printer does not re-register itself after being purged"
\* (test-printer-socket.store.ts:134).  It does not hold: a test that another
\* one has taken the socket of ends by silencing that one's socket, or none.
PurgedStaysPurged ==
    \A t \in Tests : tests[t] = "ended" => t \notin listening \cup remembered

=============================================================================
