-------------------------- MODULE PrusaLinkRequests --------------------------
(***************************************************************************)
(* PrusaLinkApi over the clients of PrusaLinkHttpClientBuilder: every      *)
(* exchange with a PrusaLink printer is made by a client of its own, which *)
(* answers the printer's digest challenge once.  The last challenge is     *)
(* kept in the API object for the clients after it.  The adapter's polls,  *)
(* which overlap, share one API object; every other request has its own.   *)
(*                                                                         *)
(* The printer is external.  It gives out a nonce, which it renews when it *)
(* likes, and prints one job after another.                                *)
(***************************************************************************)
EXTENDS Integers, Sequences

CONSTANTS
    MaxRequests,       \* bound: requests
    MaxNonce,          \* bound: nonces of the printer
    MaxPrints          \* bound: jobs the printer has had

ASSUME RequestAssumption ==
    /\ MaxRequests \in Nat \ {0}
    /\ MaxNonce \in Nat
    /\ MaxPrints \in Nat

VARIABLES
    login,         \* whether the printer asks for one, and whether it is right
    nonce,         \* that the printer takes now
    print,         \* the printer's job: its id (0 for none), its state
    requests,      \* the requests, each at one of its exchanges
    authHeader     \* of the API object of each request

requestVars == <<login, nonce, print, requests, authHeader>>

\* The exchanges of a poll, and of the operations that ask one question: the
\* version, the files, a file, the status
Queries ==
    [poll |-> <<"printer", "job">>,
     ask  |-> <<"question">>]

\* Those of the other operations.  A command names the job by the id that
\* the exchange before it found, a download the file by its reference.
Orders ==
    [pause    |-> <<"status", "pause">>,
     resume   |-> <<"status", "resume">>,
     cancel   |-> <<"status", "cancel">>,
     download |-> <<"file", "content">>,
     upload   |-> <<"put">>,
     start    |-> <<"print">>,
     delete   |-> <<"delete">>]

Operations == DOMAIN Queries \cup DOMAIN Orders

Exchanges(operation) ==
    IF operation \in DOMAIN Queries THEN Queries[operation] ELSE Orders[operation]

Commands == {"pause", "resume", "cancel"}

NoHeader == -1

\* context is the authHeaderContext of the exchange's client, retried its
\* _retryCount, reply the challenge on its way back.  since is the printer's
\* nonce when the exchange began, and whole says whether the body that is to
\* be uploaded has not been read yet.
Request ==
    [operation : Operations, step : {1, 2}, jobId : 0..MaxPrints,
     context : (0..MaxNonce) \cup {NoHeader}, retried : BOOLEAN, since : 0..MaxNonce, whole : BOOLEAN,
     at : {"sent", "refused", "done", "failed", "unauthorized"}, reply : 0..MaxNonce]

Requests == DOMAIN requests

\* The adapter's API object is that of its first poll.
Api(r) ==
    IF requests[r].operation = "poll"
    THEN CHOOSE q \in Requests : /\ requests[q].operation = "poll"
                                 /\ \A i \in 1..(q - 1) : requests[i].operation # "poll"
    ELSE r

RequestTypeOK ==
    /\ login \in [needed : BOOLEAN, right : BOOLEAN]
    /\ nonce \in 0..MaxNonce
    /\ print \in [id : 0..MaxPrints, state : {"none", "printing", "paused"}]
    /\ Len(requests) <= MaxRequests
    /\ requests \in [1..Len(requests) -> Request]
    /\ authHeader \in [Requests -> (0..MaxNonce) \cup {NoHeader}]

RequestInit ==
    /\ login \in [needed : BOOLEAN, right : BOOLEAN]
    /\ nonce = 0
    /\ print = [id |-> 0, state |-> "none"]
    /\ requests = << >>
    /\ authHeader = << >>

-----------------------------------------------------------------------------
(* The printer (external).                                                 *)

RenewNonce ==
    /\ nonce < MaxNonce
    /\ nonce' = nonce + 1
    /\ UNCHANGED <<login, print, requests, authHeader>>

\* A print that somebody starts at the printer, or that ends there
PrintChanges ==
    /\ \/ /\ print.state = "none" /\ print.id < MaxPrints
          /\ print' = [id |-> print.id + 1, state |-> "printing"]
       \/ /\ print.state # "none"
          /\ print' = [print EXCEPT !.state = "none"]
    /\ UNCHANGED <<login, nonce, requests, authHeader>>

\* The nonce that generateDigestHeader answers, if there is a header
Presented(r) == requests[r].context

Accepts(r) == ~login.needed \/ (login.right /\ Presented(r) = nonce)

Exchange(r) == Exchanges(requests[r].operation)[requests[r].step]

\* The job a command is for has to be the printer's.
CanDo(r) ==
    LET q == requests[r] IN
    CASE Exchange(r) = "pause"  -> print = [id |-> q.jobId, state |-> "printing"]
      [] Exchange(r) = "resume" -> print = [id |-> q.jobId, state |-> "paused"]
      [] Exchange(r) = "cancel" -> print.id = q.jobId /\ print.state # "none"
      [] Exchange(r) = "print"  -> print.state = "none" /\ print.id < MaxPrints
      [] OTHER                  -> TRUE

Done(r) ==
    CASE Exchange(r) = "pause"  -> [print EXCEPT !.state = "paused"]
      [] Exchange(r) = "resume" -> [print EXCEPT !.state = "printing"]
      [] Exchange(r) = "cancel" -> [print EXCEPT !.state = "none"]
      [] Exchange(r) = "print"  -> [id |-> print.id + 1, state |-> "printing"]
      [] OTHER                  -> print

-----------------------------------------------------------------------------
(* PrusaLinkApi.                                                           *)

\* createClient, of the exchange at a step, and its first sending: the
\* request interceptor sends what the header kept by the API says.
Sent(q, step, header) ==
    [q EXCEPT !.step = step, !.context = header, !.retried = FALSE, !.since = nonce, !.at = "sent"]

\* withAuthHeader: the challenge kept by the API object of a new request
KeptHeader(operation) ==
    LET polls == {q \in Requests : requests[q].operation = "poll"} IN
    IF operation = "poll" /\ polls # {} THEN authHeader[Api(CHOOSE q \in polls : TRUE)]
    ELSE NoHeader

RequestBegins ==
    /\ Len(requests) < MaxRequests
    /\ \E operation \in Operations :
          LET q == [operation |-> operation, step |-> 1, jobId |-> 0, context |-> NoHeader,
                    retried |-> FALSE, since |-> nonce, whole |-> TRUE, at |-> "sent", reply |-> 0]
          IN /\ requests' = Append(requests, Sent(q, 1, KeptHeader(operation)))
             /\ authHeader' = Append(authHeader, NoHeader)
    /\ UNCHANGED <<login, nonce, print>>

\* Every attempt reads the body to be uploaded, a stream, which another
\* attempt does not get again: the printer waits for the rest in vain.
Answered(r) ==
    /\ requests[r].at = "sent"
    /\ Accepts(r)
    /\ requests[r].whole
    /\ CanDo(r)
    /\ print' = Done(r)
    /\ LET q == [requests[r] EXCEPT !.whole = Exchange(r) # "put",
                                    !.jobId = IF Exchange(r) = "status" /\ print.state # "none"
                                              THEN print.id ELSE @]
           last == q.step = Len(Exchanges(q.operation))
       IN requests' = [requests EXCEPT ![r] =
             IF last \/ (q.operation \in Commands /\ q.jobId = 0) THEN [q EXCEPT !.at = "done"]
             ELSE Sent(q, 2, authHeader[Api(r)])]
    /\ UNCHANGED <<login, nonce, authHeader>>

\* 401 with www-authenticate
Refused(r) ==
    /\ requests[r].at = "sent"
    /\ ~Accepts(r)
    /\ requests' = [requests EXCEPT ![r].at = "refused", ![r].reply = nonce,
                                    ![r].whole = Exchange(r) # "put"]
    /\ UNCHANGED <<login, nonce, print, authHeader>>

\* Any other failure: the network, a timeout, an answer that is an error
ExchangeFails(r) ==
    /\ requests[r].at = "sent"
    /\ requests' = [requests EXCEPT ![r].at = "failed"]
    /\ UNCHANGED <<login, nonce, print, authHeader>>

\* Fault: the retry is sent with the header the client was made with.
ContextKept(r) == requests[r].context

\* saveParsedAuthHeaderContext
ContextOf(r) == requests[r].reply

\* The response interceptor: a first refusal is kept for the clients to come,
\* taken over and answered; a second one is the request's end.
ChallengeHandled(r) ==
    /\ requests[r].at = "refused"
    /\ IF requests[r].retried
       THEN /\ requests' = [requests EXCEPT ![r].at = "unauthorized"]
            /\ UNCHANGED authHeader
       ELSE /\ requests' = [requests EXCEPT ![r].at = "sent", ![r].retried = TRUE,
                                            ![r].context = ContextOf(r)]
            /\ authHeader' = [authHeader EXCEPT ![Api(r)] = requests[r].reply]
    /\ UNCHANGED <<login, nonce, print>>

RequestNext ==
    \/ RenewNonce \/ PrintChanges \/ RequestBegins
    \/ \E r \in Requests : Answered(r) \/ Refused(r) \/ ExchangeFails(r) \/ ChallengeHandled(r)

-----------------------------------------------------------------------------
(* Properties.                                                             *)

\* With the right login a request ends unauthorized only if the printer has
\* renewed its nonce during the exchange that was refused: a header left from
\* an earlier exchange, or brought back by a slower request of the same API
\* object, never costs more than one further attempt.
RefusedOnlyWhenRenewed ==
    \A r \in Requests :
        login.right /\ requests[r].at = "unauthorized" => requests[r].reply > requests[r].since

=============================================================================
