------------------------------ MODULE LinkProofs ------------------------------
(***************************************************************************)
(* The invariants of PrinterLinks hold of any number of uploads, downloads, *)
(* requests and tests.                                                     *)
(*                                                                         *)
(* Each scene moves the variables of its own part alone (ScenesApart), so  *)
(* that a part's invariant is proved of its own next-state relation.       *)
(***************************************************************************)
EXTENDS PrinterLinks, SequenceTheorems, WellFoundedInduction, TLAPS

\* A step of the composition is a step of each part, or leaves it alone.
LEMMA ScenesApart ==
    ASSUME [LinkNext]_linkVars
    PROVE  /\ [UploadNext]_uploadVars
           /\ [FtpNext]_ftpVars
           /\ [RequestNext]_requestVars
           /\ [TestNext]_testVars
<1>1. CASE UNCHANGED linkVars
  BY <1>1 DEF linkVars, besideVars
<1>2. CASE OfBambu(BambuNext)
  BY <1>2 DEF OfBambu, besideVars
<1>3. CASE OfPrusaLink(PrusaNext)
  BY <1>3 DEF OfPrusaLink, besideVars
<1>4. CASE UploadNext /\ UNCHANGED <<bambuVars, prusaVars, brand, supported, besideVars, scene>>
  BY <1>4 DEF besideVars
<1>5. CASE /\ UNCHANGED uploadVars
           /\ \/ FtpNext /\ UNCHANGED <<requestVars, testVars>>
              \/ RequestNext /\ UNCHANGED <<ftpVars, testVars>>
              \/ TestNext /\ UNCHANGED <<ftpVars, requestVars>>
  BY <1>5
<1>6. QED
  BY <1>1, <1>2, <1>3, <1>4, <1>5 DEF LinkNext

\* The empty sequence, of whatever elements.
LEMMA NoElements == \A S : << >> \in Seq(S) /\ Len(<< >>) = 0
  BY EmptySeq

-----------------------------------------------------------------------------
(* Tests of printers.                                                      *)

TestInv ==
    /\ tests \in Seq(TestStep)
    /\ testSockets \in Seq(TestAdapter)
    /\ Len(testSockets) = Len(tests)
    /\ testSocket \in 0..Len(tests)
    /\ OnlyTestedIsOpen

LEMMA TestInvInit == TestInit => TestInv
  BY NoElements DEF TestInit, TestInv, OnlyTestedIsOpen, Tests

\* Closing the socket of the test before leaves the sockets a sequence, in
\* which none is open.
LEMMA FormerIsClosed ==
    ASSUME TestInv
    PROVE  /\ FormerClosed \in Seq(TestAdapter)
           /\ Len(FormerClosed) = Len(tests)
           /\ \A s \in 1..Len(tests) : FormerClosed[s].state \notin {"open", "authenticated"}
<1>1. Len(tests) \in Nat /\ Tests = 1..Len(tests)
  BY LenProperties DEF TestInv, Tests
<1>2. \A s \in Tests : testSockets[s] \in TestAdapter
  BY <1>1, ElementOfSeq DEF TestInv
<1>3. FormerClosed \in [1..Len(tests) -> TestAdapter]
  BY <1>1, <1>2 DEF FormerClosed, TestAdapter
<1>4. \A s \in Tests : IsOpen(s) => testSocket = s
  BY DEF TestInv, OnlyTestedIsOpen
<1>5. \A s \in Tests : FormerClosed[s].state \notin {"open", "authenticated"}
  BY <1>2, <1>4 DEF FormerClosed, TestAdapter, IsOpen
<1>6. QED
  BY <1>1, <1>3, <1>5, SeqDef, LenProperties

\* The end of a test leaves no socket.
LEMMA FinalisedKeeps ==
    ASSUME TestInv, NEW t \in Tests, Finalised(t)
    PROVE  TestInv'
<1>1. Len(tests) \in Nat /\ Tests = 1..Len(tests)
  BY LenProperties DEF TestInv, Tests
<1>2. /\ tests' \in Seq(TestStep)
      /\ Len(tests') = Len(tests)
      /\ Tests' = Tests
  BY <1>1, ExceptSeq, LenProperties DEF TestInv, Finalised, TestStep, Tests
<1>3. CASE testSocket = 0
  <2>1. UNCHANGED <<testSocket, testSockets>>
    BY <1>3 DEF Finalised
  <2>2. QED
    BY <1>2, <1>3, <2>1 DEF TestInv, OnlyTestedIsOpen, IsOpen
<1>4. CASE testSocket # 0
  <2>1. testSocket \in 1..Len(testSockets)
    BY <1>1, <1>4 DEF TestInv
  <2>2. DEFINE closed == [testSockets[testSocket] EXCEPT !.state = "closed", !.silent = TRUE]
  <2>3. closed \in TestAdapter /\ closed.state = "closed"
    <3>1. testSockets[testSocket] \in TestAdapter
      BY <2>1, ElementOfSeq DEF TestInv
    <3>2. QED
      BY <3>1 DEF TestAdapter
  <2>4. testSockets' = [testSockets EXCEPT ![testSocket] = closed] /\ testSocket' = 0
    BY <1>4 DEF Finalised
  <2>5. /\ testSockets' \in Seq(TestAdapter)
        /\ Len(testSockets') = Len(testSockets)
        /\ \A s \in 1..Len(testSockets) :
              testSockets'[s] = IF s = testSocket THEN closed ELSE testSockets[s]
    BY <2>1, <2>3, <2>4, ExceptSeq DEF TestInv
  <2>6. \A s \in Tests : ~IsOpen(s)'
    BY <1>1, <2>3, <2>5 DEF TestInv, OnlyTestedIsOpen, IsOpen
  <2>7. QED
    BY <1>1, <1>2, <2>4, <2>5, <2>6 DEF TestInv, OnlyTestedIsOpen
<1>5. QED
  BY <1>3, <1>4

\* A socket that changes its state is open afterwards only if it was before.
LEMMA SocketChanges ==
    ASSUME TestInv, NEW s \in Tests,
           NEW st \in {"made", "open", "authenticated", "closed"},
           testSockets' = [testSockets EXCEPT ![s].state = st],
           st \in {"open", "authenticated"} => testSocket = s,
           UNCHANGED testSocket, tests' \in Seq(TestStep), Len(tests') = Len(tests),
           \/ UNCHANGED tests
           \/ \E t \in Tests : tests'[t] # "ended"
    PROVE  TestInv'
<1>1. Len(tests) \in Nat /\ Tests = 1..Len(tests) /\ Tests' = Tests
  BY LenProperties DEF TestInv, Tests
<1>2. DEFINE new == [testSockets[s] EXCEPT !.state = st]
<1>3. s \in 1..Len(testSockets) /\ testSockets[s] \in TestAdapter
  BY <1>1, ElementOfSeq DEF TestInv
<1>4. new \in TestAdapter /\ new.state = st
  BY <1>3 DEF TestAdapter
<1>5. /\ testSockets' \in Seq(TestAdapter)
      /\ Len(testSockets') = Len(testSockets)
      /\ \A i \in 1..Len(testSockets) : testSockets'[i] = IF i = s THEN new ELSE testSockets[i]
  BY <1>3, <1>4, ExceptSeq DEF TestInv
<1>6. \A i \in Tests : IsOpen(i)' => testSocket = i
  BY <1>1, <1>4, <1>5 DEF TestInv, OnlyTestedIsOpen, IsOpen
<1>7. QED
  BY <1>1, <1>5, <1>6 DEF TestInv, OnlyTestedIsOpen

LEMMA TestInvNext == TestInv /\ [TestNext]_testVars => TestInv'
<1> SUFFICES ASSUME TestInv, [TestNext]_testVars
             PROVE  TestInv'
  OBVIOUS
<1>1. Len(tests) \in Nat /\ Tests = 1..Len(tests)
  BY LenProperties DEF TestInv, Tests
<1>2. CASE UNCHANGED testVars
  BY <1>2 DEF testVars, TestInv, OnlyTestedIsOpen, Tests, IsOpen
<1>3. CASE TestBegins
  <2>1. PICK websocket \in BOOLEAN :
          \E st \in TestStep, a \in TestAdapter :
             /\ tests' = Append(tests, st)
             /\ testSockets' = Append(FormerClosed, a)
             /\ a.state \in {"made", "closed"}
             /\ testSocket' \in {0, Len(tests) + 1}
             /\ st = "ended" => testSocket' = 0
    BY <1>3 DEF TestBegins, TestStep, TestAdapter
  <2>2. PICK st \in TestStep, a \in TestAdapter :
             /\ tests' = Append(tests, st)
             /\ testSockets' = Append(FormerClosed, a)
             /\ a.state \in {"made", "closed"}
             /\ testSocket' \in {0, Len(tests) + 1}
             /\ st = "ended" => testSocket' = 0
    BY <2>1
  <2>3. /\ tests' \in Seq(TestStep) /\ Len(tests') = Len(tests) + 1
        /\ tests'[Len(tests) + 1] = st
    BY <2>2, AppendProperties DEF TestInv
  <2>4. Tests' = 1..(Len(tests) + 1)
    BY <2>3, LenProperties DEF Tests
  <2>5. /\ testSockets' \in Seq(TestAdapter) /\ Len(testSockets') = Len(tests) + 1
        /\ testSockets'[Len(tests) + 1] = a
        /\ \A s \in 1..Len(tests) : testSockets'[s] = FormerClosed[s]
    BY <2>2, AppendProperties, FormerIsClosed
  <2>6. \A s \in Tests' : ~IsOpen(s)'
    BY <1>1, <2>2, <2>4, <2>5, FormerIsClosed DEF IsOpen
  <2>7. QED
    BY <1>1, <2>2, <2>3, <2>4, <2>5, <2>6 DEF TestInv, OnlyTestedIsOpen
<1>4. ASSUME NEW t \in Tests, SessionFails(t) \/ PollSettles(t) \/ TestTimesOut(t)
      PROVE  TestInv'
  BY <1>4, FinalisedKeeps DEF SessionFails, PollSettles, TestTimesOut
<1>5. ASSUME NEW t \in Tests, SessionIsUp(t)
      PROVE  TestInv'
  <2>1. PICK st \in {"unsettled", "polling"} : tests' = [tests EXCEPT ![t] = st]
    BY <1>5 DEF SessionIsUp
  <2>2. /\ tests' \in Seq(TestStep) /\ Len(tests') = Len(tests)
        /\ tests'[t] # "ended" /\ UNCHANGED testSocket /\ Tests' = Tests
    BY <1>1, <1>5, <2>1, ExceptSeq, LenProperties DEF TestInv, TestStep, SessionIsUp, Tests
  <2>3. CASE UNCHANGED testSockets
    BY <1>1, <2>2, <2>3 DEF TestInv, OnlyTestedIsOpen, IsOpen
  <2>4. CASE testSocket # 0 /\ testSockets' = [testSockets EXCEPT ![testSocket].state = "open"]
    <3>1. testSocket \in Tests
      BY <1>1, <2>4 DEF TestInv
    <3>2. QED
      BY <2>2, <2>4, <3>1, SocketChanges
  <2>5. QED
    BY <1>5, <2>3, <2>4 DEF SessionIsUp
<1>6. ASSUME NEW s \in Tests, SocketAuthenticates(s) \/ SessionLost(s)
      PROVE  TestInv'
  <2>1. IsOpen(s) /\ UNCHANGED <<tests, testSocket>>
    BY <1>6 DEF SocketAuthenticates, SessionLost, IsOpen
  <2>2. testSocket = s
    BY <2>1 DEF TestInv, OnlyTestedIsOpen
  <2>3. PICK st \in {"open", "authenticated"} : testSockets' = [testSockets EXCEPT ![s].state = st]
    BY <1>6 DEF SocketAuthenticates, SessionLost
  <2>4. tests' \in Seq(TestStep) /\ Len(tests') = Len(tests)
    BY <2>1 DEF TestInv
  <2>5. QED
    BY <2>1, <2>2, <2>3, <2>4, SocketChanges
<1>7. ASSUME NEW s \in Tests, SocketSpeaks(s)
      PROVE  TestInv'
  BY <1>7 DEF SocketSpeaks, TestInv, OnlyTestedIsOpen, Tests, IsOpen
<1>8. QED
  BY <1>2, <1>3, <1>4, <1>5, <1>6, <1>7 DEF TestNext

\* However tests overlap, the only test printer that is connected is the one
\* that testSocket gives, and when no test is under way none is.
THEOREM LinkTests == FairLinkSpec => []OnlyTestedIsOpen
<1>1. LinkInit => TestInv
  BY TestInvInit DEF LinkInit
<1>2. TestInv /\ [LinkNext]_linkVars => TestInv'
  BY TestInvNext, ScenesApart
<1>3. TestInv => OnlyTestedIsOpen
  BY DEF TestInv
<1>4. QED
  BY <1>1, <1>2, <1>3, PTL DEF FairLinkSpec

-----------------------------------------------------------------------------
(* Requests to PrusaLink printers.                                         *)

AnyRequest ==
    [operation : Operations, step : {1, 2}, jobId : Nat, context : Int, retried : BOOLEAN,
     since : Nat, whole : BOOLEAN, at : {"sent", "refused", "done", "failed", "unauthorized"},
     reply : Nat]

\* No request knows a nonce that the printer has yet to give out; one that is
\* sent again presents a nonce no older than the exchange, so that a second
\* refusal means that the printer has a newer one.
InTime(q, n, right) ==
    /\ q.since <= n /\ q.context <= n /\ q.reply <= n
    /\ q.at = "sent" /\ q.retried => q.context >= q.since
    /\ q.at = "refused" => q.reply >= q.since
    /\ q.at = "refused" /\ q.retried /\ right => q.reply > q.since
    /\ q.at = "unauthorized" /\ right => q.reply > q.since

PrinterJob == [id : Nat, state : {"none", "printing", "paused"}]

RequestInv ==
    /\ nonce \in Nat
    /\ print \in PrinterJob
    /\ requests \in Seq(AnyRequest)
    /\ authHeader \in Seq(Int)
    /\ Len(authHeader) = Len(requests)
    /\ \A r \in 1..Len(requests) : authHeader[r] <= nonce /\ InTime(requests[r], nonce, login.right)

LEMMA RequestInvInit == RequestInit => RequestInv
  BY NoElements DEF RequestInit, RequestInv, PrinterJob

\* A set of numbers between 1 and n that is not empty has a least one.
LEMMA BoundedMinimum ==
    ASSUME NEW n \in Nat, NEW S \in SUBSET (1..n), S # {}
    PROVE  \E i \in S : \A k \in S : i <= k
<1> DEFINE LT == {ss \in Nat \X Nat : ss[1] < ss[2]}
<1>1. S \subseteq Nat
  OBVIOUS
<1>2. IsWellFoundedOn(LT, Nat)
  BY NatLessThanWellFounded DEF OpToRel
<1> HIDE DEF LT
<1>3. PICK i \in S : \A k \in S : ~(<<k, i>> \in LT)
  BY <1>1, <1>2, WFMin, Zenon
<1>4. ASSUME NEW k \in S
      PROVE  i <= k
  <2>1. i \in Nat /\ k \in Nat
    BY <1>1
  <2>2. k < i => <<k, i>> \in LT
    BY <2>1 DEF LT
  <2>3. QED
    BY <1>3, <2>1, <2>2
<1>5. QED
  BY <1>4

\* The API object of a request is that of a request.
LEMMA ApiIsARequests ==
    ASSUME RequestInv, NEW r \in Requests
    PROVE  Api(r) \in Requests
<1>1. Len(requests) \in Nat /\ Requests = 1..Len(requests)
  BY LenProperties DEF RequestInv, Requests
<1>2. CASE requests[r].operation # "poll"
  BY <1>2 DEF Api
<1>3. CASE requests[r].operation = "poll"
  <2> DEFINE P == {q \in Requests : requests[q].operation = "poll"}
  <2>1. P \in SUBSET (1..Len(requests)) /\ P # {}
    BY <1>1, <1>3
  <2>2. PICK q \in P : \A k \in P : q <= k
    BY <1>1, <2>1, BoundedMinimum
  <2>3. \A i \in 1..(q - 1) : requests[i].operation # "poll"
    BY <1>1, <2>2
  <2>4. \E m \in Requests : /\ requests[m].operation = "poll"
                            /\ \A i \in 1..(m - 1) : requests[i].operation # "poll"
    BY <2>2, <2>3
  <2>5. QED
    BY <1>3, <2>4 DEF Api
<1>4. QED
  BY <1>2, <1>3

\* What a client begins with is a nonce given out, or none.
LEMMA HeadersAreKnown ==
    ASSUME RequestInv
    PROVE  /\ \A r \in Requests : authHeader[Api(r)] \in Int /\ authHeader[Api(r)] <= nonce
           /\ \A operation : KeptHeader(operation) \in Int /\ KeptHeader(operation) <= nonce
<1>1. Len(requests) \in Nat /\ Requests = 1..Len(requests)
  BY LenProperties DEF RequestInv, Requests
<1>2. \A r \in Requests : authHeader[Api(r)] \in Int /\ authHeader[Api(r)] <= nonce
  BY <1>1, ApiIsARequests, ElementOfSeq DEF RequestInv
<1>3. ASSUME NEW operation
      PROVE  KeptHeader(operation) \in Int /\ KeptHeader(operation) <= nonce
  <2> DEFINE P == {q \in Requests : requests[q].operation = "poll"}
  <2>1. CASE operation = "poll" /\ P # {}
    <3>1. (CHOOSE q \in P : TRUE) \in Requests
      BY <2>1
    <3>2. KeptHeader(operation) = authHeader[Api(CHOOSE q \in P : TRUE)]
      BY <2>1 DEF KeptHeader
    <3>3. QED
      BY <1>2, <3>1, <3>2
  <2>2. CASE ~(operation = "poll" /\ P # {})
    BY <2>2 DEF KeptHeader, NoHeader, RequestInv
  <2>3. QED
    BY <2>1, <2>2
<1>4. QED
  BY <1>2, <1>3

\* What sending makes of a request.
LEMMA SentIsInTime ==
    ASSUME nonce \in Nat, NEW q \in AnyRequest, NEW step \in {1, 2},
           NEW header \in Int, header <= nonce, q.reply <= nonce
    PROVE  /\ Sent(q, step, header) \in AnyRequest
           /\ \A right : InTime(Sent(q, step, header), nonce, right)
<1>1. Sent(q, step, header) \in AnyRequest
  BY DEF Sent, AnyRequest
<1>2. /\ Sent(q, step, header).since = nonce /\ Sent(q, step, header).context = header
      /\ Sent(q, step, header).reply = q.reply /\ Sent(q, step, header).at = "sent"
      /\ Sent(q, step, header).retried = FALSE
  BY DEF Sent, AnyRequest
<1>3. q.reply \in Int
  BY DEF AnyRequest
<1>4. QED
  BY <1>1, <1>2, <1>3 DEF InTime

\* What answering a challenge makes of a request.
LEMMA RetryPresentsReply ==
    ASSUME NEW q \in AnyRequest
    PROVE  LET new == [q EXCEPT !.at = "sent", !.retried = TRUE, !.context = q.reply]
           IN  /\ new \in AnyRequest /\ new.since = q.since /\ new.context = q.reply
               /\ new.reply = q.reply /\ new.at = "sent"
<1> DEFINE answered == [q EXCEPT !.context = q.reply]
<1>1. /\ answered \in AnyRequest /\ answered.since = q.since
      /\ answered.context = q.reply /\ answered.reply = q.reply
  BY DEF AnyRequest
<1>2. [q EXCEPT !.at = "sent", !.retried = TRUE, !.context = q.reply]
         = [answered EXCEPT !.at = "sent", !.retried = TRUE]
  BY DEF AnyRequest
<1> HIDE DEF answered
<1>3. QED
  BY <1>1, <1>2 DEF AnyRequest

\* The printer may renew its nonce: what is in time remains so.
LEMMA TimeGoes ==
    ASSUME NEW n \in Nat, NEW q \in AnyRequest, NEW right, InTime(q, n, right)
    PROVE  InTime(q, n + 1, right)
<1>1. q.since \in Int /\ q.context \in Int /\ q.reply \in Int
  BY DEF AnyRequest
<1>2. QED
  BY <1>1 DEF InTime

\* One request that moves on, in time, leaves the others as they are.
LEMMA RequestMoves ==
    ASSUME RequestInv, NEW r \in Requests, NEW q \in AnyRequest,
           requests' = [requests EXCEPT ![r] = q], InTime(q, nonce, login.right),
           UNCHANGED <<login, nonce>>, print' \in PrinterJob,
           authHeader' \in Seq(Int), Len(authHeader') = Len(authHeader),
           \A i \in Requests : authHeader'[i] <= nonce
    PROVE  RequestInv'
<1>1. Len(requests) \in Nat /\ Requests = 1..Len(requests)
  BY LenProperties DEF RequestInv, Requests
<1>2. /\ requests' \in Seq(AnyRequest)
      /\ Len(requests') = Len(requests)
      /\ \A i \in 1..Len(requests) : requests'[i] = IF i = r THEN q ELSE requests[i]
  BY <1>1, ExceptSeq DEF RequestInv
<1>3. \A i \in 1..Len(requests) : InTime(requests'[i], nonce, login.right)
  BY <1>2 DEF RequestInv
<1>4. QED
  BY <1>1, <1>2, <1>3 DEF RequestInv, InTime

LEMMA RequestInvNext == RequestInv /\ [RequestNext]_requestVars => RequestInv'
<1> SUFFICES ASSUME RequestInv, [RequestNext]_requestVars
             PROVE  RequestInv'
  OBVIOUS
<1>1. /\ Len(requests) \in Nat /\ Requests = 1..Len(requests)
      /\ \A r \in Requests : requests[r] \in AnyRequest /\ InTime(requests[r], nonce, login.right)
  BY LenProperties, ElementOfSeq DEF RequestInv, Requests
<1>2. CASE UNCHANGED requestVars
  BY <1>2 DEF requestVars, RequestInv, InTime
<1>3. CASE RenewNonce
  <2>1. nonce' = nonce + 1 /\ UNCHANGED <<login, print, requests, authHeader>>
    BY <1>3 DEF RenewNonce
  <2>2. \A r \in 1..Len(requests) : authHeader[r] \in Int
    BY ElementOfSeq DEF RequestInv
  <2>3. \A r \in 1..Len(requests) : InTime(requests[r], nonce + 1, login.right)
    BY <1>1, TimeGoes DEF RequestInv
  <2>4. \A r \in 1..Len(requests) : InTime(requests[r], nonce, login.right)'
    BY <2>1, <2>3 DEF InTime
  <2>5. \A r \in 1..Len(requests) : authHeader[r] <= nonce + 1
    BY <2>2 DEF RequestInv
  <2>6. QED
    BY <2>1, <2>4, <2>5 DEF RequestInv
<1>4. CASE PrintChanges
  <2>1. print' \in PrinterJob /\ UNCHANGED <<login, nonce, requests, authHeader>>
    BY <1>4 DEF PrintChanges, RequestInv, PrinterJob
  <2>2. QED
    BY <2>1 DEF RequestInv
<1>5. CASE RequestBegins
  <2>1. PICK operation \in Operations :
          LET q == [operation |-> operation, step |-> 1, jobId |-> 0, context |-> NoHeader,
                    retried |-> FALSE, since |-> nonce, whole |-> TRUE, at |-> "sent", reply |-> 0]
          IN /\ requests' = Append(requests, Sent(q, 1, KeptHeader(operation)))
             /\ authHeader' = Append(authHeader, NoHeader)
    BY <1>5 DEF RequestBegins
  <2>2. PICK q \in AnyRequest : /\ requests' = Append(requests, q)
                                /\ InTime(q, nonce, login.right)
    <3> DEFINE first == [operation |-> operation, step |-> 1, jobId |-> 0, context |-> NoHeader,
                         retried |-> FALSE, since |-> nonce, whole |-> TRUE, at |-> "sent",
                         reply |-> 0]
    <3>1. nonce \in Nat /\ NoHeader \in Int /\ operation \in Operations
      BY DEF RequestInv, NoHeader
    <3>2. first \in AnyRequest /\ first.reply = 0
      BY <3>1 DEF AnyRequest
    <3>3. requests' = Append(requests, Sent(first, 1, KeptHeader(operation)))
      BY <2>1
    <3> HIDE DEF first
    <3>4. QED
      BY <3>1, <3>2, <3>3, HeadersAreKnown, SentIsInTime
  <2>4. /\ requests' \in Seq(AnyRequest) /\ Len(requests') = Len(requests) + 1
        /\ requests'[Len(requests) + 1] = q
        /\ \A r \in 1..Len(requests) : requests'[r] = requests[r]
    BY <2>2, AppendProperties DEF RequestInv
  <2>5. NoHeader \in Int /\ NoHeader <= nonce
    BY DEF NoHeader, RequestInv
  <2>6. /\ authHeader' \in Seq(Int) /\ Len(authHeader') = Len(authHeader) + 1
        /\ authHeader'[Len(authHeader) + 1] = NoHeader
        /\ \A r \in 1..Len(authHeader) : authHeader'[r] = authHeader[r]
    BY <2>1, <2>5, AppendProperties DEF RequestInv
  <2>7. UNCHANGED <<login, nonce, print>>
    BY <1>5 DEF RequestBegins
  <2>8. \A r \in 1..(Len(requests) + 1) : InTime(requests'[r], nonce, login.right)
    BY <1>1, <2>2, <2>4 DEF RequestInv
  <2>9. \A r \in 1..Len(requests)' : InTime(requests[r], nonce, login.right)'
    BY <2>4, <2>7, <2>8 DEF InTime
  <2>10. \A r \in 1..(Len(requests) + 1) : authHeader'[r] <= nonce
    <3>1. \A r \in 1..Len(requests) : authHeader'[r] <= nonce
      BY <2>6 DEF RequestInv
    <3>2. authHeader'[Len(requests) + 1] <= nonce
      BY <2>5, <2>6 DEF RequestInv
    <3>3. QED
      BY <1>1, <3>1, <3>2
  <2>11. QED
    BY <2>4, <2>6, <2>7, <2>9, <2>10 DEF RequestInv
<1>6. ASSUME NEW r \in Requests, Answered(r)
      PROVE  RequestInv'
  <2> DEFINE q == [requests[r] EXCEPT !.whole = Exchange(r) # "put",
                                      !.jobId = IF Exchange(r) = "status" /\ print.state # "none"
                                                THEN print.id ELSE @]
             last == q.step = Len(Exchanges(q.operation))
             new == IF last \/ (q.operation \in Commands /\ q.jobId = 0) THEN [q EXCEPT !.at = "done"]
                    ELSE Sent(q, 2, authHeader[Api(r)])
  <2>1. requests' = [requests EXCEPT ![r] = new] /\ UNCHANGED <<login, nonce, authHeader>>
    BY <1>6 DEF Answered
  <2>2. print' \in PrinterJob
    BY <1>6 DEF Answered, Done, RequestInv, PrinterJob
  <2>3. q \in AnyRequest /\ q.since = requests[r].since /\ q.context = requests[r].context
        /\ q.reply = requests[r].reply
    BY <1>1 DEF AnyRequest, RequestInv, PrinterJob
  <2> HIDE DEF q
  <2>4. new \in AnyRequest /\ InTime(new, nonce, login.right)
    <3>1. CASE new = [q EXCEPT !.at = "done"]
      <4>1. new \in AnyRequest /\ new.since = q.since /\ new.context = q.context
            /\ new.reply = q.reply /\ new.at = "done"
        BY <2>3, <3>1 DEF AnyRequest
      <4> HIDE DEF new
      <4>2. QED
        BY <1>1, <2>3, <4>1 DEF InTime
    <3>2. CASE new = Sent(q, 2, authHeader[Api(r)])
      <4>1. nonce \in Nat /\ q.reply <= nonce
        BY <1>1, <2>3 DEF RequestInv, InTime
      <4> HIDE DEF new
      <4>2. QED
        BY <2>3, <3>2, <4>1, HeadersAreKnown, SentIsInTime
    <3>3. QED
      BY <3>1, <3>2
  <2> HIDE DEF new
  <2>5. QED
    BY <1>1, <2>1, <2>2, <2>4, RequestMoves DEF RequestInv
<1>7. ASSUME NEW r \in Requests, Refused(r)
      PROVE  RequestInv'
  <2> DEFINE new == [requests[r] EXCEPT !.at = "refused", !.reply = nonce,
                                        !.whole = Exchange(r) # "put"]
  <2>1. requests' = [requests EXCEPT ![r] = new] /\ UNCHANGED <<login, nonce, print, authHeader>>
    BY <1>7 DEF Refused
  <2>2. new \in AnyRequest
    BY <1>1 DEF AnyRequest, RequestInv
  <2>3. requests[r].at = "sent" /\ (login.right => requests[r].context # nonce)
    BY <1>7 DEF Refused, Accepts, Presented
  <2>4. /\ new.since = requests[r].since /\ new.context = requests[r].context
        /\ new.reply = nonce /\ new.at = "refused" /\ new.retried = requests[r].retried
    BY <1>1 DEF AnyRequest
  <2> HIDE DEF new
  <2>5. InTime(new, nonce, login.right)
    BY <1>1, <2>3, <2>4 DEF InTime, AnyRequest, RequestInv
  <2>6. QED
    BY <1>1, <2>1, <2>2, <2>5, RequestMoves DEF RequestInv
<1>8. ASSUME NEW r \in Requests, ExchangeFails(r)
      PROVE  RequestInv'
  <2> DEFINE new == [requests[r] EXCEPT !.at = "failed"]
  <2>1. requests' = [requests EXCEPT ![r] = new] /\ UNCHANGED <<login, nonce, print, authHeader>>
    BY <1>8 DEF ExchangeFails
  <2>2. new \in AnyRequest /\ InTime(new, nonce, login.right)
    BY <1>1 DEF AnyRequest, InTime
  <2> HIDE DEF new
  <2>3. QED
    BY <1>1, <2>1, <2>2, RequestMoves DEF RequestInv
<1>9. ASSUME NEW r \in Requests, ChallengeHandled(r)
      PROVE  RequestInv'
  <2>1. requests[r].at = "refused" /\ UNCHANGED <<login, nonce, print>>
    BY <1>9 DEF ChallengeHandled
  <2>2. CASE requests[r].retried
    <3> DEFINE new == [requests[r] EXCEPT !.at = "unauthorized"]
    <3>1. requests' = [requests EXCEPT ![r] = new] /\ UNCHANGED authHeader
      BY <1>9, <2>2 DEF ChallengeHandled
    <3>2. new \in AnyRequest /\ InTime(new, nonce, login.right)
      BY <1>1, <2>1, <2>2 DEF AnyRequest, InTime
    <3> HIDE DEF new
    <3>3. QED
      BY <1>1, <2>1, <3>1, <3>2, RequestMoves DEF RequestInv
  <2>3. CASE ~requests[r].retried
    <3> DEFINE new == [requests[r] EXCEPT !.at = "sent", !.retried = TRUE,
                                          !.context = requests[r].reply]
    <3>1. /\ requests' = [requests EXCEPT ![r] = new]
          /\ authHeader' = [authHeader EXCEPT ![Api(r)] = requests[r].reply]
      BY <1>9, <2>3 DEF ChallengeHandled, ContextOf
    <3>2. new \in AnyRequest /\ InTime(new, nonce, login.right)
      <4>1. /\ new \in AnyRequest /\ new.since = requests[r].since
            /\ new.context = requests[r].reply /\ new.reply = requests[r].reply
            /\ new.at = "sent"
        BY <1>1, RetryPresentsReply
      <4> HIDE DEF new
      <4>2. QED
        BY <1>1, <2>1, <4>1 DEF InTime
    <3> HIDE DEF new
    <3>3. requests[r].reply \in Int /\ requests[r].reply <= nonce
      BY <1>1 DEF AnyRequest, InTime
    <3>4. /\ authHeader' \in Seq(Int) /\ Len(authHeader') = Len(authHeader)
          /\ \A i \in Requests : authHeader'[i] <= nonce
      <4> DEFINE a == Api(r)
      <4>1. a \in 1..Len(authHeader) /\ authHeader \in Seq(Int)
        BY <1>1, ApiIsARequests DEF RequestInv
      <4> HIDE DEF a
      <4>2. /\ [authHeader EXCEPT ![a] = requests[r].reply] \in Seq(Int)
            /\ Len([authHeader EXCEPT ![a] = requests[r].reply]) = Len(authHeader)
            /\ \A i \in 1..Len(authHeader) : [authHeader EXCEPT ![a] = requests[r].reply][i]
                     = IF i = a THEN requests[r].reply ELSE authHeader[i]
        BY <3>3, <4>1, ExceptSeq
      <4>3. authHeader' = [authHeader EXCEPT ![a] = requests[r].reply]
        BY <3>1 DEF a
      <4>4. QED
        BY <1>1, <3>3, <4>2, <4>3 DEF RequestInv
    <3>5. QED
      BY <1>1, <2>1, <3>1, <3>2, <3>4, RequestMoves DEF RequestInv
  <2>4. QED
    BY <2>2, <2>3
<1>10. QED
  BY <1>2, <1>3, <1>4, <1>5, <1>6, <1>7, <1>8, <1>9 DEF RequestNext

\* With the right login a request ends unauthorized only if the printer has
\* renewed its nonce during the exchange that was refused.
THEOREM LinkRequests == FairLinkSpec => []RefusedOnlyWhenRenewed
<1>1. LinkInit => RequestInv
  BY RequestInvInit DEF LinkInit
<1>2. RequestInv /\ [LinkNext]_linkVars => RequestInv'
  BY RequestInvNext, ScenesApart
<1>3. RequestInv => RefusedOnlyWhenRenewed
  BY LenProperties DEF RequestInv, RefusedOnlyWhenRenewed, InTime, Requests
<1>4. QED
  BY <1>1, <1>2, <1>3, PTL DEF FairLinkSpec

-----------------------------------------------------------------------------
(* Downloads from Bambu printers.                                          *)

AnyFtpRequest ==
    [operation : {"list", "download", "delete"}, at : FtpStep, copy : Nat, written : BOOLEAN]

InHand(q) == q.written /\ q.at \in {"command", "stream", "abandoned"}

\* Only a download writes a copy, once it has a connection.
CopyInv ==
    /\ millis \in Nat
    /\ ftpRequests \in Seq(AnyFtpRequest)
    /\ \A r \in 1..Len(ftpRequests) :
          ftpRequests[r].written => ftpRequests[r].operation = "download" /\ ftpRequests[r].at # "access"
    /\ \A c \in copies : \E r \in 1..Len(ftpRequests) :
          ftpRequests[r].copy = c /\ InHand(ftpRequests[r])

LEMMA CopyInvInit == FtpInit => CopyInv
  BY NoElements DEF FtpInit, CopyInv

\* One request that moves on keeps the copies in hand if it keeps its own so,
\* or takes it out of the folder.
LEMMA FtpRequestMoves ==
    ASSUME CopyInv, NEW r \in FtpRequests, NEW q \in AnyFtpRequest,
           ftpRequests' = [ftpRequests EXCEPT ![r] = q], UNCHANGED millis,
           q.written => q.operation = "download" /\ q.at # "access",
           NEW c \in Nat, copies' \subseteq copies \cup {c}, c \in copies' => q.copy = c /\ InHand(q),
           InHand(ftpRequests[r]) => ftpRequests[r].copy = c
    PROVE  CopyInv'
<1>1. Len(ftpRequests) \in Nat /\ FtpRequests = 1..Len(ftpRequests)
  BY LenProperties DEF CopyInv, FtpRequests
<1>2. /\ ftpRequests' \in Seq(AnyFtpRequest)
      /\ Len(ftpRequests') = Len(ftpRequests)
      /\ \A i \in 1..Len(ftpRequests) : ftpRequests'[i] = IF i = r THEN q ELSE ftpRequests[i]
  BY <1>1, ExceptSeq DEF CopyInv
<1>3. ASSUME NEW d \in copies'
      PROVE  \E i \in 1..Len(ftpRequests) : ftpRequests'[i].copy = d /\ InHand(ftpRequests'[i])
  <2>1. CASE d = c
    BY <1>1, <1>2, <1>3, <2>1
  <2>2. CASE d # c
    <3>1. PICK i \in 1..Len(ftpRequests) : ftpRequests[i].copy = d /\ InHand(ftpRequests[i])
      BY <1>3, <2>2 DEF CopyInv
    <3>2. i # r
      BY <2>2, <3>1
    <3>3. QED
      BY <1>2, <3>1, <3>2
  <2>3. QED
    BY <2>1, <2>2
<1>4. \A i \in 1..Len(ftpRequests) :
         ftpRequests'[i].written => ftpRequests'[i].operation = "download" /\ ftpRequests'[i].at # "access"
  BY <1>2 DEF CopyInv
<1>5. QED
  BY <1>2, <1>3, <1>4 DEF CopyInv, InHand

LEMMA CopyInvNext == CopyInv /\ [FtpNext]_ftpVars => CopyInv'
<1> SUFFICES ASSUME CopyInv, [FtpNext]_ftpVars
             PROVE  CopyInv'
  OBVIOUS
<1>1. /\ Len(ftpRequests) \in Nat /\ FtpRequests = 1..Len(ftpRequests)
      /\ \A r \in FtpRequests :
            /\ ftpRequests[r] \in AnyFtpRequest
            /\ ftpRequests[r].written =>
                  ftpRequests[r].operation = "download" /\ ftpRequests[r].at # "access"
  BY LenProperties, ElementOfSeq DEF CopyInv, FtpRequests
<1>2. CASE UNCHANGED ftpVars
  BY <1>2 DEF ftpVars, CopyInv, InHand
<1>3. CASE Millisecond
  BY <1>3 DEF Millisecond, CopyInv, InHand
<1>4. CASE FtpRequestBegins
  <2>1. PICK q \in AnyFtpRequest : ftpRequests' = Append(ftpRequests, q) /\ ~q.written
    <3>1. PICK operation \in {"list", "download", "delete"}, at \in FtpStep :
             ftpRequests' = Append(ftpRequests,
                [operation |-> operation, at |-> at, copy |-> 0, written |-> FALSE])
      BY <1>4 DEF FtpRequestBegins, FtpStep
    <3> DEFINE q == [operation |-> operation, at |-> at, copy |-> 0, written |-> FALSE]
    <3>2. q \in AnyFtpRequest /\ ~q.written
      BY DEF AnyFtpRequest
    <3>3. QED
      BY <3>1, <3>2
  <2>2. /\ ftpRequests' \in Seq(AnyFtpRequest) /\ Len(ftpRequests') = Len(ftpRequests) + 1
        /\ ftpRequests'[Len(ftpRequests) + 1] = q
        /\ \A r \in 1..Len(ftpRequests) : ftpRequests'[r] = ftpRequests[r]
    BY <2>1, AppendProperties DEF CopyInv
  <2>3. UNCHANGED <<millis, copies>>
    BY <1>4 DEF FtpRequestBegins
  <2>4. \A r \in 1..(Len(ftpRequests) + 1) :
           ftpRequests'[r].written => ftpRequests'[r].operation = "download" /\ ftpRequests'[r].at # "access"
    BY <1>1, <2>1, <2>2
  <2>5. \A c \in copies : \E r \in 1..(Len(ftpRequests) + 1) :
           ftpRequests'[r].copy = c /\ InHand(ftpRequests'[r])
    <3>1. TAKE c \in copies
    <3>2. PICK r \in 1..Len(ftpRequests) : ftpRequests[r].copy = c /\ InHand(ftpRequests[r])
      BY DEF CopyInv
    <3>3. QED
      BY <1>1, <2>2, <3>2
  <2>6. QED
    BY <2>2, <2>3, <2>4, <2>5 DEF CopyInv, InHand
\* The requests that write no copy, or have not yet.
<1>5. ASSUME NEW r \in FtpRequests, Accessed(r) \/ AccessFails(r) \/ Listed(r) \/ Deleted(r)
      PROVE  CopyInv'
  <2>1. PICK q \in AnyFtpRequest :
           ftpRequests' = [ftpRequests EXCEPT ![r] = q] /\ ~q.written
    <3>1. CASE Accessed(r)
      <4>1. [ftpRequests[r] EXCEPT !.at = "command", !.copy = millis] \in AnyFtpRequest
        BY <1>1 DEF AnyFtpRequest, FtpStep, CopyInv
      <4>2. ~[ftpRequests[r] EXCEPT !.at = "command", !.copy = millis].written
        BY <1>1, <3>1 DEF Accessed, AnyFtpRequest
      <4>3. QED
        BY <3>1, <4>1, <4>2 DEF Accessed
    <3>2. CASE AccessFails(r) \/ Listed(r) \/ Deleted(r)
      <4>1. PICK at \in {"failed", "done"} : At(r, at)
        BY <3>2 DEF AccessFails, Listed, Deleted
      <4>2. ~ftpRequests[r].written
        BY <1>1, <3>2 DEF AccessFails, Listed, Deleted
      <4>3. [ftpRequests[r] EXCEPT !.at = at] \in AnyFtpRequest
            /\ ~[ftpRequests[r] EXCEPT !.at = at].written
        BY <1>1, <4>2 DEF AnyFtpRequest, FtpStep
      <4>4. QED
        BY <4>1, <4>3 DEF At
    <3>3. QED
      BY <1>5, <3>1, <3>2
  <2>2. UNCHANGED <<millis, copies>> /\ ~ftpRequests[r].written
    BY <1>1, <1>5 DEF Accessed, AccessFails, Listed, Deleted
  <2>3. /\ ftpRequests' \in Seq(AnyFtpRequest) /\ Len(ftpRequests') = Len(ftpRequests)
        /\ \A i \in 1..Len(ftpRequests) : ftpRequests'[i] = IF i = r THEN q ELSE ftpRequests[i]
    BY <1>1, <2>1, ExceptSeq DEF CopyInv
  <2>4. \A c \in copies : \E i \in 1..Len(ftpRequests) :
           ftpRequests'[i].copy = c /\ InHand(ftpRequests'[i])
    <3>1. TAKE c \in copies
    <3>2. PICK i \in 1..Len(ftpRequests) : ftpRequests[i].copy = c /\ InHand(ftpRequests[i])
      BY DEF CopyInv
    <3>3. i # r
      BY <2>2, <3>2 DEF InHand
    <3>4. QED
      BY <2>3, <3>2, <3>3
  <2>5. QED
    BY <1>1, <2>1, <2>2, <2>3, <2>4 DEF CopyInv, InHand
<1>6. ASSUME NEW r \in FtpRequests, CommandFails(r)
      PROVE  CopyInv'
  <2> DEFINE q == [ftpRequests[r] EXCEPT !.at = "failed"]
  <2>1. ftpRequests' = [ftpRequests EXCEPT ![r] = q] /\ UNCHANGED millis
    BY <1>6 DEF CommandFails, At
  <2>2. /\ q \in AnyFtpRequest /\ q.at = "failed" /\ q.written = ftpRequests[r].written
        /\ q.operation = ftpRequests[r].operation
    BY <1>1 DEF AnyFtpRequest, FtpStep
  <2> HIDE DEF q
  <2>3. ftpRequests[r].copy \in Nat
    BY <1>1 DEF AnyFtpRequest
  <2>4. CASE ftpRequests[r].operation = "download"
    <3>1. copies' \subseteq copies /\ ftpRequests[r].copy \notin copies'
      BY <1>6, <2>4 DEF CommandFails, PartRemoved
    <3>2. QED
      BY <1>1, <2>1, <2>2, <2>3, <3>1, FtpRequestMoves
  <2>5. CASE ftpRequests[r].operation # "download"
    <3>1. UNCHANGED copies /\ ~ftpRequests[r].written
      BY <1>1, <1>6, <2>5 DEF CommandFails
    <3>2. /\ ftpRequests' \in Seq(AnyFtpRequest) /\ Len(ftpRequests') = Len(ftpRequests)
          /\ \A i \in 1..Len(ftpRequests) : ftpRequests'[i] = IF i = r THEN q ELSE ftpRequests[i]
      BY <1>1, <2>1, <2>2, ExceptSeq DEF CopyInv
    <3>3. \A c \in copies : \E i \in 1..Len(ftpRequests) :
             ftpRequests'[i].copy = c /\ InHand(ftpRequests'[i])
      BY <3>1, <3>2 DEF CopyInv, InHand
    <3>4. QED
      BY <1>1, <2>1, <2>2, <3>1, <3>2, <3>3 DEF CopyInv, InHand
  <2>6. QED
    BY <2>4, <2>5
<1>7. ASSUME NEW r \in FtpRequests, CopyBegins(r)
      PROVE  CopyInv'
  <2> DEFINE q == [ftpRequests[r] EXCEPT !.written = TRUE]
  <2>1. ftpRequests' = [ftpRequests EXCEPT ![r] = q] /\ UNCHANGED millis
    BY <1>7 DEF CopyBegins
  <2>2. /\ q \in AnyFtpRequest /\ q.at = "command" /\ q.written
        /\ q.operation = "download" /\ q.copy = ftpRequests[r].copy /\ q.copy \in Nat
    BY <1>1, <1>7 DEF AnyFtpRequest, FtpStep, CopyBegins
  <2> HIDE DEF q
  <2>3. copies' = copies \cup {ftpRequests[r].copy}
    BY <1>7 DEF CopyBegins
  <2>4. QED
    BY <1>1, <2>1, <2>2, <2>3, FtpRequestMoves DEF InHand
<1>8. ASSUME NEW r \in FtpRequests, Copied(r)
      PROVE  CopyInv'
  <2> DEFINE at == IF ftpRequests[r].copy \in copies THEN "stream" ELSE "failed"
             q  == [ftpRequests[r] EXCEPT !.at = at]
  <2>1. ftpRequests' = [ftpRequests EXCEPT ![r] = q] /\ UNCHANGED <<millis, copies>>
    BY <1>8 DEF Copied, At
  <2>2. /\ q \in AnyFtpRequest /\ q.at = at /\ q.written /\ q.operation = "download"
        /\ q.copy = ftpRequests[r].copy /\ q.copy \in Nat
    BY <1>1, <1>8 DEF AnyFtpRequest, FtpStep, Copied
  <2> HIDE DEF q
  <2>3. QED
    BY <1>1, <2>1, <2>2, FtpRequestMoves DEF InHand
<1>9. ASSUME NEW r \in FtpRequests, StreamCloses(r)
      PROVE  CopyInv'
  <2> DEFINE q == [ftpRequests[r] EXCEPT !.at = "done"]
  <2>1. ftpRequests' = [ftpRequests EXCEPT ![r] = q] /\ UNCHANGED millis
    BY <1>9 DEF StreamCloses, At
  <2>2. /\ q \in AnyFtpRequest /\ q.at = "done" /\ q.written = ftpRequests[r].written
        /\ q.operation = ftpRequests[r].operation /\ ftpRequests[r].copy \in Nat
    BY <1>1 DEF AnyFtpRequest, FtpStep
  <2> HIDE DEF q
  <2>3. copies' \subseteq copies /\ ftpRequests[r].copy \notin copies'
    BY <1>9 DEF StreamCloses
  <2>4. QED
    BY <1>1, <2>1, <2>2, <2>3, FtpRequestMoves
<1>10. ASSUME NEW r \in FtpRequests, ReaderLeaves(r)
       PROVE  CopyInv'
  <2> DEFINE q == [ftpRequests[r] EXCEPT !.at = "abandoned"]
  <2>1. ftpRequests' = [ftpRequests EXCEPT ![r] = q] /\ UNCHANGED <<millis, copies>>
    BY <1>10 DEF ReaderLeaves, At
  <2>2. /\ q \in AnyFtpRequest /\ q.at = "abandoned" /\ q.written = ftpRequests[r].written
        /\ q.operation = ftpRequests[r].operation /\ q.copy = ftpRequests[r].copy
    BY <1>1 DEF AnyFtpRequest, FtpStep
  <2> HIDE DEF q
  <2>3. /\ ftpRequests' \in Seq(AnyFtpRequest) /\ Len(ftpRequests') = Len(ftpRequests)
        /\ \A i \in 1..Len(ftpRequests) : ftpRequests'[i] = IF i = r THEN q ELSE ftpRequests[i]
    BY <1>1, <2>1, <2>2, ExceptSeq DEF CopyInv
  <2>4. \A c \in copies : \E i \in 1..Len(ftpRequests) :
           ftpRequests'[i].copy = c /\ InHand(ftpRequests'[i])
    <3>1. TAKE c \in copies
    <3>2. PICK i \in 1..Len(ftpRequests) : ftpRequests[i].copy = c /\ InHand(ftpRequests[i])
      BY DEF CopyInv
    <3>3. ftpRequests'[i].copy = c /\ InHand(ftpRequests'[i])
      BY <2>2, <2>3, <3>2 DEF InHand
    <3>4. QED
      BY <3>3
  <2>5. QED
    BY <1>1, <2>1, <2>2, <2>3, <2>4 DEF CopyInv, InHand
<1>11. QED
  BY <1>2, <1>3, <1>4, <1>5, <1>6, <1>7, <1>8, <1>9, <1>10 DEF FtpNext

\* Whichever of its steps fails, and with others of the same name, a download
\* that has ended leaves no copy in the folder.
THEOREM LinkCopies == FairLinkSpec => []CopiesAreInHand
<1>1. LinkInit => CopyInv
  BY CopyInvInit DEF LinkInit
<1>2. CopyInv /\ [LinkNext]_linkVars => CopyInv'
  BY CopyInvNext, ScenesApart
<1>3. CopyInv => CopiesAreInHand
  BY LenProperties DEF CopyInv, CopiesAreInHand, InHand, FtpRequests
<1>4. QED
  BY <1>1, <1>2, <1>3, PTL DEF FairLinkSpec

-----------------------------------------------------------------------------
(* Uploads and their tracker.                                              *)

AnyUpload == [at : UploadStep, start : BOOLEAN]

AnyTransfer == {"none", "done", "failed"}

Tells(entry, outcome) ==
    /\ entry.success = "true"  <=> outcome = "done"
    /\ entry.success = "false" <=> outcome = "failed"

UploadInv ==
    /\ uploads \in Seq(AnyUpload)
    /\ tracker \in Seq(TrackedUpload)
    /\ transfer \in Seq(AnyTransfer)
    /\ Len(tracker) = Len(uploads)
    /\ Len(transfer) = Len(uploads)
    /\ \A t \in 1..Len(uploads) : Tells(tracker[t], transfer[t])

LEMMA UploadInvInit == LinkInit => UploadInv
  BY NoElements DEF LinkInit, UploadInv

\* One upload whose entry and transfer change together leaves the others'.
LEMMA UploadMoves ==
    ASSUME UploadInv, NEW t \in DOMAIN uploads, NEW at \in UploadStep, Goes(t, at),
           NEW entry \in TrackedUpload, tracker' = [tracker EXCEPT ![t] = entry],
           NEW outcome \in AnyTransfer, transfer' = [transfer EXCEPT ![t] = outcome],
           Tells(entry, outcome)
    PROVE  UploadInv'
<1>1. Len(uploads) \in Nat /\ DOMAIN uploads = 1..Len(uploads)
  BY LenProperties DEF UploadInv
<1>2. [uploads[t] EXCEPT !.at = at] \in AnyUpload
  <2>1. uploads[t] \in AnyUpload
    BY <1>1, ElementOfSeq DEF UploadInv
  <2>2. QED
    BY <2>1 DEF AnyUpload
<1>3. uploads' \in Seq(AnyUpload) /\ Len(uploads') = Len(uploads)
  <2>1. uploads' = [uploads EXCEPT ![t] = [uploads[t] EXCEPT !.at = at]]
    BY DEF Goes
  <2>2. QED
    BY <1>1, <1>2, <2>1, ExceptSeq DEF UploadInv
<1>4. /\ tracker' \in Seq(TrackedUpload) /\ Len(tracker') = Len(tracker)
      /\ \A u \in 1..Len(tracker) : tracker'[u] = IF u = t THEN entry ELSE tracker[u]
  BY <1>1, ExceptSeq DEF UploadInv
<1>5. /\ transfer' \in Seq(AnyTransfer) /\ Len(transfer') = Len(transfer)
      /\ \A u \in 1..Len(transfer) : transfer'[u] = IF u = t THEN outcome ELSE transfer[u]
  BY <1>1, ExceptSeq DEF UploadInv
<1>6. \A u \in 1..Len(uploads) : Tells(tracker'[u], transfer'[u])
  BY <1>4, <1>5 DEF UploadInv
<1>7. QED
  BY <1>3, <1>4, <1>5, <1>6 DEF UploadInv, Tells

LEMMA UploadInvNext == UploadInv /\ [UploadNext]_uploadVars => UploadInv'
<1> SUFFICES ASSUME UploadInv, [UploadNext]_uploadVars
             PROVE  UploadInv'
  OBVIOUS
<1>1. /\ Len(uploads) \in Nat /\ DOMAIN uploads = 1..Len(uploads)
      /\ \A t \in DOMAIN uploads : /\ tracker[t] \in TrackedUpload
                                   /\ transfer[t] \in AnyTransfer
                                   /\ Tells(tracker[t], transfer[t])
  BY LenProperties, ElementOfSeq DEF UploadInv
<1>2. \A t \in DOMAIN uploads : /\ tracker = [tracker EXCEPT ![t] = tracker[t]]
                                /\ transfer = [transfer EXCEPT ![t] = transfer[t]]
  <2>1. \A t : tracker = [tracker EXCEPT ![t] = tracker[t]]
    BY LenProperties, SeqDef DEF UploadInv
  <2>2. \A t : transfer = [transfer EXCEPT ![t] = transfer[t]]
    BY LenProperties, SeqDef DEF UploadInv
  <2>3. QED
    BY <2>1, <2>2
<1>3. CASE UNCHANGED uploadVars
  BY <1>3 DEF uploadVars, UploadInv, Tells
<1>4. CASE UploadBegins
  <2>1. PICK start \in BOOLEAN :
           uploads' = Append(uploads, [at    |-> IF ~supported THEN "failed"
                                                 ELSE IF brand = "prusalink" THEN "transfer"
                                                 ELSE "prepare",
                                       start |-> start])
    BY <1>4 DEF UploadBegins
  <2>2. uploads' \in Seq(AnyUpload) /\ Len(uploads') = Len(uploads) + 1
    <3> DEFINE at == IF ~supported THEN "failed"
                     ELSE IF brand = "prusalink" THEN "transfer" ELSE "prepare"
    <3>1. [at |-> at, start |-> start] \in AnyUpload
      BY DEF AnyUpload, UploadStep
    <3>2. uploads' = Append(uploads, [at |-> at, start |-> start])
      BY <2>1
    <3>3. QED
      BY <3>1, <3>2, AppendProperties DEF UploadInv
  <2>3. NewTracker \in TrackedUpload /\ "none" \in AnyTransfer /\ Tells(NewTracker, "none")
    BY DEF NewTracker, TrackedUpload, AnyTransfer, Tells
  <2>4. /\ tracker' \in Seq(TrackedUpload) /\ Len(tracker') = Len(tracker) + 1
        /\ tracker'[Len(tracker) + 1] = NewTracker
        /\ \A t \in 1..Len(tracker) : tracker'[t] = tracker[t]
    BY <1>4, <2>3, AppendProperties DEF UploadBegins, UploadInv
  <2>5. /\ transfer' \in Seq(AnyTransfer) /\ Len(transfer') = Len(transfer) + 1
        /\ transfer'[Len(transfer) + 1] = "none"
        /\ \A t \in 1..Len(transfer) : transfer'[t] = transfer[t]
    BY <1>4, <2>3, AppendProperties DEF UploadBegins, UploadInv
  <2>6. \A t \in 1..(Len(uploads) + 1) : Tells(tracker'[t], transfer'[t])
    BY <1>1, <2>3, <2>4, <2>5 DEF UploadInv
  <2>7. QED
    BY <2>2, <2>4, <2>5, <2>6 DEF UploadInv, Tells
\* The steps that leave the tracker and the transfers as they are.
<1>5. ASSUME NEW t \in DOMAIN uploads, Prepared(t) \/ PrintStarted(t)
      PROVE  UploadInv'
  <2>1. PICK at \in UploadStep : Goes(t, at)
    BY <1>5 DEF Prepared, PrintStarted, UploadStep
  <2>2. UNCHANGED <<tracker, transfer>>
    BY <1>5 DEF Prepared, PrintStarted
  <2>3. QED
    BY <1>1, <1>2, <2>1, <2>2, UploadMoves
<1>6. ASSUME NEW t \in DOMAIN uploads, Progressed(t)
      PROVE  UploadInv'
  <2> DEFINE entry == [tracker[t] EXCEPT !.progress = TRUE]
  <2>1. entry \in TrackedUpload /\ entry.success = tracker[t].success
    BY <1>1 DEF TrackedUpload
  <2>2. tracker' = [tracker EXCEPT ![t] = entry] /\ UNCHANGED <<uploads, transfer>>
    BY <1>6 DEF Progressed
  <2> HIDE DEF entry
  <2>3. /\ tracker' \in Seq(TrackedUpload) /\ Len(tracker') = Len(tracker)
        /\ \A u \in 1..Len(tracker) : tracker'[u] = IF u = t THEN entry ELSE tracker[u]
    BY <1>1, <2>1, <2>2, ExceptSeq DEF UploadInv
  <2>4. \A u \in 1..Len(uploads) : Tells(tracker'[u], transfer[u])
    BY <1>1, <2>1, <2>3 DEF UploadInv, Tells
  <2>5. QED
    BY <2>2, <2>3, <2>4 DEF UploadInv, Tells
<1>7. ASSUME NEW t \in DOMAIN uploads, Transferred(t)
      PROVE  UploadInv'
  <2> DEFINE entry == [tracker[t] EXCEPT !.completed = TRUE, !.success = "true"]
  <2>1. entry \in TrackedUpload /\ Tells(entry, "done")
    BY <1>1 DEF TrackedUpload, Tells
  <2>2. tracker' = [tracker EXCEPT ![t] = entry]
    BY <1>7 DEF Transferred, MarkUploadDone
  <2>3. PICK at \in UploadStep : Goes(t, at)
    BY <1>7 DEF Transferred, UploadStep
  <2>4. transfer' = [transfer EXCEPT ![t] = "done"] /\ "done" \in AnyTransfer
    BY <1>7 DEF Transferred, AnyTransfer
  <2> HIDE DEF entry
  <2>5. QED
    BY <2>1, <2>2, <2>3, <2>4, UploadMoves
<1>8. ASSUME NEW t \in DOMAIN uploads, TransferFails(t)
      PROVE  UploadInv'
  <2> DEFINE entry == [tracker[t] EXCEPT !.completed = TRUE, !.success = "false"]
  <2>1. entry \in TrackedUpload /\ Tells(entry, "failed")
    BY <1>1 DEF TrackedUpload, Tells
  <2>2. tracker' = [tracker EXCEPT ![t] = entry]
    BY <1>8 DEF TransferFails, MarkUploadDone
  <2>3. Goes(t, "failed") /\ "failed" \in UploadStep
    BY <1>8 DEF TransferFails, UploadStep
  <2>4. transfer' = [transfer EXCEPT ![t] = "failed"] /\ "failed" \in AnyTransfer
    BY <1>8 DEF TransferFails, AnyTransfer
  <2> HIDE DEF entry
  <2>5. QED
    BY <2>1, <2>2, <2>3, <2>4, UploadMoves
<1>9. QED
  BY <1>3, <1>4, <1>5, <1>6, <1>7, <1>8 DEF UploadNext

\* An upload's tracker tells what has become of its file's transfer, whatever
\* became of the other uploads and of the request.
THEOREM LinkUploads == FairLinkSpec => []TrackerTellsTransfers
<1>1. LinkInit => UploadInv
  BY UploadInvInit
<1>2. UploadInv /\ [LinkNext]_linkVars => UploadInv'
  BY UploadInvNext, ScenesApart
<1>3. UploadInv => TrackerTellsTransfers
  BY LenProperties DEF UploadInv, TrackerTellsTransfers, Tells
<1>4. QED
  BY <1>1, <1>2, <1>3, PTL DEF FairLinkSpec

-----------------------------------------------------------------------------
(* The adapters of PrusaLink and Bambu printers.                           *)

\* A deleted printer's adapter is silent.
PollInv ==
    /\ prusa \in PrusaAdapter
    /\ ~prusa.listed => prusa.silent /\ ~prusaEvents

LEMMA PollInvNext == PollInv /\ [PrusaNext]_prusaVars => PollInv'
<1> SUFFICES ASSUME PollInv, [PrusaNext]_prusaVars
             PROVE  PollInv'
  OBVIOUS
<1>1. CASE UNCHANGED prusaVars
  BY <1>1 DEF prusaVars, PollInv
<1>2. CASE PrusaRunStarts
  BY <1>2 DEF PrusaRunStarts, PollInv, PrusaAdapter
<1>3. CASE PollBegins
  BY <1>3 DEF PollBegins, PollInv, PrusaAdapter
<1>4. CASE PrusaReset
  BY <1>4 DEF PrusaReset, Stopped, PollInv, PrusaAdapter
<1>5. CASE PrusaDelete
  <2> DEFINE a == [prusa EXCEPT !.silent = TRUE]
  <2>1. a \in PrusaAdapter /\ a.silent
    BY DEF PollInv, PrusaAdapter
  <2> HIDE DEF a
  <2>2. Stopped(a) \in PrusaAdapter /\ Stopped(a).silent
    BY <2>1 DEF Stopped, PrusaAdapter
  <2>3. prusa' = [Stopped(a) EXCEPT !.listed = FALSE] /\ prusaEvents' = FALSE
    BY <1>5 DEF PrusaDelete, Purged, a
  <2>4. QED
    BY <2>2, <2>3 DEF PollInv, PrusaAdapter
<1>6. ASSUME NEW k \in Polls, StateAnswered(k)
      PROVE  PollInv'
  BY <1>6 DEF StateAnswered, PollInv
<1>7. ASSUME NEW k \in Polls, JobAnswered(k)
      PROVE  PollInv'
  BY <1>7 DEF JobAnswered, PollInv, PrusaAdapter
<1>8. ASSUME NEW k \in Polls, PollFails(k)
      PROVE  PollInv'
  BY <1>8 DEF PollFails, PollInv, PrusaAdapter
<1>9. QED
  BY <1>1, <1>2, <1>3, <1>4, <1>5, <1>6, <1>7, <1>8 DEF PrusaNext

\* A step of the composition is a step of each adapter, or leaves it alone.
LEMMA AdaptersApart ==
    ASSUME [LinkNext]_linkVars
    PROVE  [PrusaNext]_prusaVars /\ [BambuNext]_bambuVars
<1>1. CASE UNCHANGED linkVars
  BY <1>1 DEF linkVars
<1>2. QED
  BY <1>1 DEF LinkNext, OfBambu, OfPrusaLink

\* A deleted printer's events do not come back with a poll that was under way
\* when it was deleted, however many polls overlap.
THEOREM LinkPolls == FairLinkSpec => []PolledStaysOut
<1>1. LinkInit => PollInv
  BY DEF LinkInit, PrusaInit, PollInv, PrusaAdapter
<1>2. PollInv /\ [LinkNext]_linkVars => PollInv'
  BY PollInvNext, AdaptersApart
<1>3. PollInv => PolledStaysOut
  BY DEF PollInv, PolledStaysOut
<1>4. QED
  BY <1>1, <1>2, <1>3, PTL DEF FairLinkSpec

\* The timer that keeps an adapter from connecting for ever is set with the
\* flag it ends.
TimedInv ==
    /\ bambu \in BambuAdapter
    /\ clients \in [Clients -> Client]
    /\ ConnectingIsTimed

\* Taking the listeners off a client leaves its timer.
LEMMA CleanupKeepsTimers ==
    ASSUME NEW cs \in [Clients -> Client], NEW a, a.client \in 0..MaxClients
    PROVE  /\ CleanupOf(cs, a) \in [Clients -> Client]
           /\ \A c \in Clients : CleanupOf(cs, a)[c].timer = cs[c].timer
<1>1. ASSUME NEW cl \in Client
      PROVE  Unheard(cl) \in Client /\ Unheard(cl).timer = cl.timer
  BY DEF Unheard, Client
<1>2. CASE a.client = 0
  BY <1>2 DEF CleanupOf
<1>3. CASE a.client # 0
  <2>1. a.client \in Clients
    BY <1>3, BambuAssumption DEF Clients
  <2>2. CleanupOf(cs, a) = [cs EXCEPT ![a.client] = Unheard(cs[a.client])]
    BY <1>3 DEF CleanupOf
  <2>3. QED
    BY <1>1, <2>1, <2>2
<1>4. QED
  BY <1>2, <1>3

\* An adapter that has been cleaned up does not believe that it is connecting.
LEMMA CleanedUpRests ==
    ASSUME NEW a \in BambuAdapter
    PROVE  CleanedUp(a) \in BambuAdapter /\ CleanedUp(a).isConnecting = FALSE
<1> DEFINE idle == [a EXCEPT !.client = 0]
<1>1. 0 \in 0..MaxClients
  BY BambuAssumption
<1>2. idle \in BambuAdapter
  BY <1>1 DEF BambuAdapter
<1>3. CleanedUp(a) = [idle EXCEPT !.isConnecting = FALSE, !.last = FALSE]
  BY DEF CleanedUp, BambuAdapter
<1> HIDE DEF idle
<1>4. QED
  BY <1>2, <1>3 DEF BambuAdapter

\* An adapter that connects keeps the timers there are and sets its own.
LEMMA ConnectIsTimed ==
    ASSUME TimedInv, NEW a \in BambuAdapter,
           a.client = bambu.client, a.isConnecting = bambu.isConnecting, Connect(a)
    PROVE  TimedInv'
<1>1. a.isConnecting => \E c \in Clients : clients[c].timer
  BY DEF TimedInv, ConnectingIsTimed
<1>2. CASE bambu' = [a EXCEPT !.socket = "opened"] /\ UNCHANGED clients
  BY <1>1, <1>2 DEF TimedInv, ConnectingIsTimed, BambuAdapter, BambuSocketStates
<1>3. CASE bambu' = a /\ UNCHANGED clients
  BY <1>1, <1>3 DEF TimedInv, ConnectingIsTimed
<1>4. ASSUME NEW c \in Clients,
             bambu' = [a EXCEPT !.client = c, !.isConnecting = TRUE],
             clients' = [clients EXCEPT ![c] = [st |-> "connecting", heard |-> TRUE, timer |-> TRUE]]
      PROVE  TimedInv'
  <2>1. bambu' \in BambuAdapter
    <3>1. c \in 0..MaxClients
      BY BambuAssumption DEF Clients
    <3>2. QED
      BY <1>4, <3>1 DEF BambuAdapter
  <2>2. clients' \in [Clients -> Client] /\ clients'[c].timer
    BY <1>4 DEF TimedInv, Client
  <2>3. QED
    BY <2>1, <2>2 DEF TimedInv, ConnectingIsTimed
<1>5. CASE bambu' = [CleanedUp(a) EXCEPT !.socket = "error"] /\ clients' = CleanupOf(clients, a)
  <2>1. clients' \in [Clients -> Client]
    BY <1>5, CleanupKeepsTimers DEF TimedInv, BambuAdapter
  <2>2. CleanedUp(a) \in BambuAdapter /\ ~CleanedUp(a).isConnecting
    BY CleanedUpRests
  <2>3. bambu' \in BambuAdapter /\ ~bambu'.isConnecting
    BY <1>5, <2>2 DEF BambuAdapter, BambuSocketStates
  <2>4. QED
    BY <2>1, <2>3 DEF TimedInv, ConnectingIsTimed
<1>6. ASSUME Vacant # {}
      PROVE  (CHOOSE v \in Vacant : \A w \in Vacant : v <= w) \in Clients
  <2>1. Vacant \in SUBSET (1..MaxClients) /\ MaxClients \in Nat
    BY BambuAssumption DEF Vacant, Clients
  <2>2. \E v \in Vacant : \A w \in Vacant : v <= w
    BY <1>6, <2>1, BoundedMinimum
  <2>3. QED
    BY <2>2 DEF Vacant
<1>7. QED
  BY <1>2, <1>3, <1>4, <1>5, <1>6 DEF Connect

\* A client's state may change as long as its timer does not.
LEMMA TimersStay ==
    ASSUME TimedInv, bambu' \in BambuAdapter, clients' \in [Clients -> Client],
           \A c \in Clients : clients'[c].timer = clients[c].timer,
           bambu'.isConnecting => bambu.isConnecting
    PROVE  TimedInv'
BY DEF TimedInv, ConnectingIsTimed

LEMMA TurnsKeepsTimers ==
    ASSUME TimedInv, NEW c \in Clients,
           NEW st \in {"none", "connecting", "connected", "waiting", "ending", "ended"},
           Turns(c, st)
    PROVE  /\ clients' \in [Clients -> Client]
           /\ \A d \in Clients : clients'[d].timer = clients[d].timer
BY DEF Turns, TimedInv, Client

LEMMA TimedInvNext == TimedInv /\ [BambuNext]_bambuVars => TimedInv'
<1> SUFFICES ASSUME TimedInv, [BambuNext]_bambuVars
             PROVE  TimedInv'
  OBVIOUS
<1>1. CASE UNCHANGED bambuVars
  BY <1>1 DEF bambuVars, TimedInv, ConnectingIsTimed
<1>2. CASE BambuRunStarts
  <2>1. CASE bambu.registered
    <3>1. /\ Opening(bambu) \in BambuAdapter /\ Opening(bambu).client = bambu.client
          /\ Opening(bambu).isConnecting = bambu.isConnecting
      BY DEF Opening, TimedInv, BambuAdapter, BambuSocketStates, BambuApiStates
    <3>2. QED
      BY <1>2, <2>1, <3>1, ConnectIsTimed DEF BambuRunStarts
  <2>2. CASE ~bambu.registered
    <3>1. bambu' = [bambu EXCEPT !.socket = "aborted", !.api = "noResponse"] /\ UNCHANGED clients
      BY <1>2, <2>2 DEF BambuRunStarts
    <3>2. bambu' \in BambuAdapter /\ bambu'.isConnecting = bambu.isConnecting
      BY <3>1 DEF TimedInv, BambuAdapter, BambuSocketStates, BambuApiStates
    <3>3. QED
      BY <3>1, <3>2, TimersStay DEF TimedInv
  <2>3. QED
    BY <2>1, <2>2
<1>3. CASE BambuReset
  <2>1. PICK r \in BOOLEAN : Disconnect([bambu EXCEPT !.registered = r])
    BY <1>3 DEF BambuReset
  <2> DEFINE a == [bambu EXCEPT !.registered = r]
             b == [a EXCEPT !.socket = "closed"]
  <2>2. /\ a \in BambuAdapter /\ a.client = bambu.client
        /\ a.isConnecting = bambu.isConnecting
    BY DEF TimedInv, BambuAdapter
  <2> HIDE DEF a
  <2>3. b \in BambuAdapter /\ b.isConnecting = bambu.isConnecting
    BY <2>2 DEF BambuAdapter, BambuSocketStates
  <2> HIDE DEF b
  <2>4. /\ [b EXCEPT !.last = FALSE] \in BambuAdapter
        /\ [b EXCEPT !.last = FALSE].isConnecting = bambu.isConnecting
    BY <2>3 DEF BambuAdapter
  <2>5. CleanedUp(b) \in BambuAdapter /\ ~CleanedUp(b).isConnecting
    BY <2>3, CleanedUpRests
  <2>6. \/ bambu' = [b EXCEPT !.last = FALSE] /\ UNCHANGED clients
        \/ /\ a.client # 0 /\ bambu' = [b EXCEPT !.last = FALSE]
           /\ Turns(a.client, "ending")
        \/ bambu' = CleanedUp(b) /\ clients' = CleanupOf(clients, a)
    BY <2>1 DEF Disconnect, a, b
  <2>7. CASE bambu' = [b EXCEPT !.last = FALSE] /\ UNCHANGED clients
    BY <2>4, <2>7, TimersStay DEF TimedInv
  <2>8. CASE /\ a.client # 0 /\ bambu' = [b EXCEPT !.last = FALSE]
             /\ Turns(a.client, "ending")
    <3>1. a.client \in Clients
      BY <2>2, <2>8, BambuAssumption DEF Clients, BambuAdapter
    <3>2. QED
      BY <2>4, <2>8, <3>1, TurnsKeepsTimers, TimersStay
  <2>9. CASE bambu' = CleanedUp(b) /\ clients' = CleanupOf(clients, a)
    <3>1. clients' \in [Clients -> Client]
      BY <2>2, <2>9, CleanupKeepsTimers DEF TimedInv, BambuAdapter
    <3>2. QED
      BY <2>5, <2>9, <3>1 DEF TimedInv, ConnectingIsTimed
  <2>10. QED
    BY <2>6, <2>7, <2>8, <2>9
<1>4. ASSUME NEW c \in Clients, ClientConnects(c)
      PROVE  TimedInv'
  <2>1. clients' \in [Clients -> Client]
    BY <1>4 DEF ClientConnects, TimedInv, Client
  <2>2. bambu' \in BambuAdapter /\ ~bambu'.isConnecting
    BY <1>4 DEF ClientConnects, TimedInv, BambuAdapter, BambuSocketStates, BambuApiStates
  <2>3. QED
    BY <2>1, <2>2 DEF TimedInv, ConnectingIsTimed
<1>5. ASSUME NEW c \in Clients, ClientErrs(c)
      PROVE  TimedInv'
  <2>1. /\ bambu' = [bambu EXCEPT !.socket = "error",
                                  !.isConnecting = @ /\ clients[c].st = "connected"]
        /\ UNCHANGED clients
    BY <1>5 DEF ClientErrs
  <2>2. bambu' \in BambuAdapter
    BY <2>1 DEF TimedInv, BambuAdapter, BambuSocketStates
  <2>3. bambu'.isConnecting => bambu.isConnecting
    BY <2>1 DEF TimedInv, BambuAdapter
  <2>4. QED
    BY <2>1, <2>2, <2>3, TimersStay DEF TimedInv
<1>6. ASSUME NEW c \in Clients, ClientCloses(c)
      PROVE  TimedInv'
  <2>1. PICK st \in {"waiting", "ended"} : Turns(c, st)
    BY <1>6 DEF ClientCloses
  <2>2. bambu' \in BambuAdapter /\ bambu'.isConnecting = bambu.isConnecting
    BY <1>6 DEF ClientCloses, Reports, Down, TimedInv, BambuAdapter, BambuSocketStates, BambuApiStates
  <2>3. QED
    BY <2>1, <2>2, TurnsKeepsTimers, TimersStay
<1>7. ASSUME NEW c \in Clients, ClientRetries(c)
      PROVE  TimedInv'
  <2>1. bambu' \in BambuAdapter /\ bambu'.isConnecting = bambu.isConnecting
    BY <1>7 DEF ClientRetries, TimedInv, BambuAdapter, BambuSocketStates
  <2>2. Turns(c, "connecting")
    BY <1>7 DEF ClientRetries
  <2>3. QED
    BY <2>1, <2>2, TurnsKeepsTimers, TimersStay
<1>8. ASSUME NEW c \in Clients, ClientMessage(c)
      PROVE  TimedInv'
  <2>1. bambu' \in BambuAdapter /\ bambu'.isConnecting = bambu.isConnecting
    BY <1>8 DEF ClientMessage, Reports, TimedInv, BambuAdapter
  <2>2. UNCHANGED clients
    BY <1>8 DEF ClientMessage
  <2>3. QED
    BY <2>1, <2>2, TimersStay DEF TimedInv
<1>9. ASSUME NEW c \in Clients, EndCallback(c)
      PROVE  TimedInv'
  <2> DEFINE cs == [clients EXCEPT ![c] = [NoClient EXCEPT !.timer = clients[c].timer]]
             a  == IF bambu.client = c THEN [bambu EXCEPT !.client = 0] ELSE bambu
  <2>1. [NoClient EXCEPT !.timer = clients[c].timer] \in Client
    BY DEF NoClient, Client, TimedInv
  <2>2. cs \in [Clients -> Client]
    BY <2>1 DEF TimedInv
  <2>3. a.client \in 0..MaxClients
    BY BambuAssumption DEF TimedInv, BambuAdapter
  <2>4. clients' = CleanupOf(cs, a) /\ bambu' = CleanedUp(bambu)
    BY <1>9 DEF EndCallback
  <2> HIDE DEF cs, a
  <2>5. clients' \in [Clients -> Client]
    BY <2>2, <2>3, <2>4, CleanupKeepsTimers
  <2>6. bambu' \in BambuAdapter /\ ~bambu'.isConnecting
    BY <2>4, CleanedUpRests DEF TimedInv
  <2>7. QED
    BY <2>5, <2>6 DEF TimedInv, ConnectingIsTimed
<1>10. ASSUME NEW c \in Clients, TimeoutFires(c)
       PROVE  TimedInv'
  <2>1. clients' \in [Clients -> Client]
    BY <1>10 DEF TimeoutFires, TimedInv, Client
  <2>2. bambu' \in BambuAdapter /\ ~bambu'.isConnecting
    BY <1>10 DEF TimeoutFires, GivenUp, TimedInv, BambuAdapter, BambuSocketStates
  <2>3. QED
    BY <2>1, <2>2 DEF TimedInv, ConnectingIsTimed
<1>11. QED
  BY <1>1, <1>2, <1>3, <1>4, <1>5, <1>6, <1>7, <1>8, <1>9, <1>10 DEF BambuNext, ClientStep

\* A Bambu adapter does not believe for ever that it is connecting, however
\* many clients it has made: a timer runs that will end it.
THEOREM LinkTimers == FairLinkSpec => []ConnectingIsTimed
<1>1. LinkInit => TimedInv
  BY BambuAssumption DEF LinkInit, BambuInit, TimedInv, BambuAdapter, BambuSocketStates,
     BambuApiStates, Client, NoClient, ConnectingIsTimed
<1>2. TimedInv /\ [LinkNext]_linkVars => TimedInv'
  BY TimedInvNext, AdaptersApart
<1>3. TimedInv => ConnectingIsTimed
  BY DEF TimedInv
<1>4. QED
  BY <1>1, <1>2, <1>3, PTL DEF FairLinkSpec

=============================================================================
