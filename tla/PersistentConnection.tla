------------------------ MODULE PersistentConnection ------------------------
(***************************************************************************)
(* The client side of the Firebase Realtime Database connection that the   *)
(* download of the schedule goes through: FPersistentConnection (requests, *)
(* reconnection, restoring of state), the FConnection below it (handshake  *)
(* and control messages) and FIRRetryHelper (back-off).  Every step is one *)
(* block of the serial queue "FirebaseWorker"; what comes from the socket  *)
(* waits in workQueue in the order of its arrival.  The server and the     *)
(* network are the environment.                                            *)
(*                                                                         *)
(* The numbers of gets, writes, listens and onDisconnect operations are    *)
(* the indices the code's counters hand out.                               *)
(***************************************************************************)
EXTENDS Integers, Sequences, FiniteSets

CONSTANTS
    NumGets,        \* calls of getDataAtPath, a bound
    NumPuts,        \* calls of putData and mergeData, a bound
    Transactions,   \* the writes that carry a hash
    NumListens,     \* calls of listen, a bound
    QueryOf,        \* the query of a listen, a pair <<path, parameters>>
    NumOnDisconnects, \* onDisconnect operations, a bound
    HasAuth,        \* whether FirebaseAuth or AppCheck is linked in
    MaxRefreshes,   \* changes of a token pushed by them, a bound
    MaxVersion,     \* versions of the data behind the gets, a bound
    MaxDelay,       \* steps of the back-off from 1 s to 30 s
    Failure         \* the result of a get that ends with an error

Gets == 1..NumGets
Puts == 1..NumPuts
Listens == 1..NumListens
OnDisconnects == 1..NumOnDisconnects
Versions == 1..MaxVersion

ASSUME BoundsAssumption ==
    /\ NumGets \in Nat /\ NumPuts \in Nat /\ NumListens \in Nat
    /\ NumOnDisconnects \in Nat /\ MaxRefreshes \in Nat
    /\ MaxVersion \in Nat \ {0} /\ MaxDelay \in Nat \ {0}
    /\ HasAuth \in BOOLEAN
    /\ Transactions \subseteq Puts
    /\ DOMAIN QueryOf = Listens
    /\ Failure \notin Versions

VARIABLES
    \* FPersistentConnection
    connectionState, \* its state machine
    interruptReasons,\* why it must not reconnect
    realtime,        \* state of its FConnection, "none" when it is nil
    fetches,         \* context fetches without an answer: the latest, older ones
    fetchForced,     \* whether the latest fetch forced a refresh
    authToken,       \* whether there is a credential
    forceTokenRefreshes,
    \* FIRRetryHelper
    scheduledRetry,  \* NoRetry, or its delay and the forceRefresh it captured
    lastWasSuccess,
    currentRetryDelay,
    \* requests
    requestNumber,   \* requests sent on this connection
    requestCBHash,   \* the requests whose callback is held
    getCounter, outstandingGets, sentGets,
    getTimers,       \* gets whose 3 s timer has not fired
    putCounter, outstandingPuts, sentPuts, putsToAck,
    listenCounter, listens, unackedListensCount,
    onDisconnectCounter, onDisconnectQueue,
    \* FRepo
    infoConnected,   \* the value of .info/connected
    \* the queue and the environment
    workQueue,       \* blocks of the worker queue, the oldest first
    toServer,        \* requests on their way to the server
    published,       \* version of the data on the server
    applied,         \* the write the server applied last, 0 for none
    serverListens,   \* queries the server serves on this connection
    refreshes,       \* tokens pushed so far
    \* history
    askedAt,         \* the version on the server when a get was called
    completed,       \* completions of gets, in order
    putResults,      \* putResults[p]: statuses its completion was called with
    onDisconnectResults,
    tokenRevoked     \* the server refused the last token that was sent

retryVars == <<scheduledRetry, lastWasSuccess, currentRetryDelay, forceTokenRefreshes>>
authVars == <<fetches, fetchForced, authToken, refreshes, tokenRevoked>>
stateVars == <<connectionState, interruptReasons, realtime>>
getVars == <<getCounter, outstandingGets, sentGets, getTimers, askedAt, completed>>
putVars == <<putCounter, outstandingPuts, sentPuts, putsToAck, putResults>>
listenVars == <<listenCounter, listens, unackedListensCount>>
onDisconnectVars == <<onDisconnectCounter, onDisconnectQueue, onDisconnectResults>>
wireVars == <<requestNumber, requestCBHash, toServer>>
serverVars == <<published, applied, serverListens>>
vars == <<retryVars, authVars, stateVars, getVars, putVars, listenVars,
          onDisconnectVars, wireVars, serverVars, workQueue, infoConnected>>

CallTypes == {"auth", "reauth", "unauth", "appcheck", "listen", "unlisten", "put", "get", "onDisconnect"}
Call(type, id) == [type |-> type, id |-> id]
HasCallback(call) == call.type \notin {"unauth", "unlisten"}
Requests == [rn : Nat \ {0}, call : [type : CallTypes, id : Nat]]

Block(type) == [type |-> type]
Answer(rn, ok, value) == [type |-> "answer", rn |-> rn, ok |-> ok, value |-> value]
Cancelled(path) == [type |-> "cancelled", path |-> path]
Paths == {QueryOf[l][1] : l \in Listens}
Blocks ==
    [type : {"hello", "revoked", "shutdown", "reset", "closed", "onConnect"}]
    \cup [type : {"answer"}, rn : Nat \ {0}, ok : BOOLEAN, value : Versions \cup {Failure, 0}]
    \cup [type : {"cancelled"}, path : Paths]

NoRetry == [delay |-> -1, force |-> FALSE]
Reasons == {"waiting_for_open", "server_kill", "repo_interrupt"}
Statuses == {"ok", "error", "disconnect", "canceled"}

TypeOK ==
    /\ connectionState \in
           {"Disconnected", "GettingToken", "Connecting", "Authenticating", "Connected"}
    /\ interruptReasons \subseteq Reasons
    /\ realtime \in {"none", "connecting", "connected"}
    /\ fetches \subseteq {"latest", "stale"}
    /\ fetchForced \in BOOLEAN /\ authToken \in BOOLEAN /\ forceTokenRefreshes \in BOOLEAN
    /\ scheduledRetry \in {NoRetry} \cup [delay : 0..MaxDelay, force : BOOLEAN]
    /\ lastWasSuccess \in BOOLEAN /\ currentRetryDelay \in 0..MaxDelay
    /\ requestNumber \in Nat /\ requestCBHash \subseteq Requests
    /\ getCounter \in 0..NumGets /\ outstandingGets \subseteq Gets
    /\ sentGets \subseteq Gets /\ getTimers \subseteq Gets
    /\ putCounter \in 0..NumPuts /\ outstandingPuts \subseteq Puts
    /\ sentPuts \subseteq Puts /\ putsToAck \in Seq([put : Puts, status : Statuses])
    /\ listenCounter \in 0..NumListens /\ listens \subseteq Listens
    /\ unackedListensCount \in Int
    /\ onDisconnectCounter \in 0..NumOnDisconnects
    /\ onDisconnectQueue \in Seq(OnDisconnects)
    /\ infoConnected \in BOOLEAN
    /\ workQueue \in Seq(Blocks) /\ toServer \in Seq(Requests)
    /\ published \in Versions /\ applied \in 0..NumPuts
    /\ serverListens \subseteq {QueryOf[l] : l \in Listens}
    /\ refreshes \in 0..MaxRefreshes
    /\ askedAt \in [Gets -> 0..MaxVersion]
    /\ completed \in Seq([get : Gets, result : Versions \cup {Failure}])
    /\ putResults \in [Puts -> Seq(Statuses)]
    /\ onDisconnectResults \in [OnDisconnects -> Seq(Statuses)]
    /\ tokenRevoked \in BOOLEAN

-----------------------------------------------------------------------------
(* Queries on the state.                                                   *)

connected == connectionState \in {"Authenticating", "Connected"}

\* Mutation of canSend: requests go out while the credential is being checked.
canSendEarly == connected

canSend == connectionState = "Connected"
shouldReconnect == interruptReasons = {}

Queued(type) == \E i \in DOMAIN workQueue : workQueue[i].type = type
LinkBroken == Queued("closed")

\* Orders in which the entries of a dictionary are enumerated, and the one in
\* which its sorted keys are.
Orders(S) == {s \in [1..Cardinality(S) -> S] : \A i, j \in DOMAIN s : s[i] = s[j] => i = j}
Ascending(S) == {s \in [1..Cardinality(S) -> S] : \A i, j \in DOMAIN s : i < j => s[i] < s[j]}
Calls(type, ids) == [i \in DOMAIN ids |-> Call(type, ids[i])]

Init ==
    /\ connectionState = "Disconnected"
    /\ interruptReasons = {"waiting_for_open"}
    /\ realtime = "none"
    /\ fetches = {} /\ fetchForced = FALSE
    /\ authToken = FALSE /\ forceTokenRefreshes = FALSE
    /\ scheduledRetry = NoRetry /\ lastWasSuccess = TRUE /\ currentRetryDelay = 0
    /\ requestNumber = 0 /\ requestCBHash = {}
    /\ getCounter = 0 /\ outstandingGets = {} /\ sentGets = {} /\ getTimers = {}
    /\ putCounter = 0 /\ outstandingPuts = {} /\ sentPuts = {} /\ putsToAck = <<>>
    /\ listenCounter = 0 /\ listens = {} /\ unackedListensCount = 0
    /\ onDisconnectCounter = 0 /\ onDisconnectQueue = <<>>
    /\ infoConnected = FALSE
    /\ workQueue = <<>> /\ toServer = <<>>
    /\ published = 1 /\ applied = 0 /\ serverListens = {} /\ refreshes = 0
    /\ askedAt = [g \in Gets |-> 0] /\ completed = <<>>
    /\ putResults = [p \in Puts |-> <<>>]
    /\ onDisconnectResults = [d \in OnDisconnects |-> <<>>]
    /\ tokenRevoked = FALSE

-----------------------------------------------------------------------------
(* FIRRetryHelper.retry, with what tryScheduleReconnect captures.  "success" *)
(* says that signalSuccess was called before it in the same block.          *)
NextDelay(delay) == IF delay < MaxDelay THEN delay + 1 ELSE MaxDelay

TryScheduleReconnect(success, force) ==
    LET now == success \/ lastWasSuccess
        delay == IF success THEN 0
                 ELSE IF lastWasSuccess THEN currentRetryDelay
                 ELSE NextDelay(currentRetryDelay)
    IN  /\ scheduledRetry' = [delay |-> IF now THEN 0 ELSE delay, force |-> force]
        /\ currentRetryDelay' = delay
        /\ lastWasSuccess' = FALSE
        /\ forceTokenRefreshes' = FALSE

\* sendAction for each of the calls, beside the callbacks already held.  What is
\* written into a broken socket is lost.
Send(held, calls) ==
    LET requests == [i \in DOMAIN calls |-> [rn |-> requestNumber + i, call |-> calls[i]]]
    IN  /\ requestNumber' = requestNumber + Len(calls)
        /\ requestCBHash' = held
               \cup {requests[i] : i \in {j \in DOMAIN calls : HasCallback(calls[j])}}
        /\ toServer' = IF LinkBroken THEN toServer ELSE toServer \o requests

(* The socket is gone: what the server sent is no longer delivered, and of   *)
(* what was under way to it any prefix may still have been carried out.     *)
WritesUnderWay == {toServer[i].call.id : i \in {j \in DOMAIN toServer : toServer[j].call.type = "put"}}

\* Of the blocks only those that announce a connection to FRepo are left.
Announcements(pending) ==
    [n \in 1..Cardinality({i \in DOMAIN pending : pending[i].type = "onConnect"})
        |-> Block("onConnect")]

CloseSocket(pending) ==
    /\ workQueue' = Announcements(pending)
    /\ toServer' = <<>>
    /\ applied' \in {applied} \cup WritesUnderWay
    /\ serverListens' = {}
    /\ requestNumber' = 0
    /\ UNCHANGED published

(* FConnection.closeWithReason and FPersistentConnection.onDisconnect, up to *)
(* the decision to reconnect: sent transactions are cancelled, and every    *)
(* callback still held is dropped.                                          *)
\* Mutation of CancelSentTransactions: they are kept for the next connection.
CancelSentTransactionsNot == UNCHANGED <<outstandingPuts, putResults>>

CancelSentTransactions ==
    LET cancelled == outstandingPuts \cap sentPuts \cap Transactions
    IN  /\ outstandingPuts' = outstandingPuts \ cancelled
        /\ putResults' = [p \in Puts |-> IF p \in cancelled
                                         THEN Append(putResults[p], "disconnect")
                                         ELSE putResults[p]]

\* Mutation of OnDisconnect: the count of unanswered listens is kept.
OnDisconnectCounting(pending) ==
    /\ connectionState' = "Disconnected"
    /\ realtime' = "none"
    /\ CloseSocket(pending)
    /\ CancelSentTransactions
    /\ requestCBHash' = {}
    /\ infoConnected' = FALSE
    /\ UNCHANGED <<getVars, putCounter, sentPuts, putsToAck, listenVars, onDisconnectVars>>

OnDisconnect(pending) ==
    /\ connectionState' = "Disconnected"
    /\ realtime' = "none"
    /\ CloseSocket(pending)
    /\ CancelSentTransactions
    /\ requestCBHash' = {}
    /\ unackedListensCount' = 0
    /\ infoConnected' = FALSE
    /\ UNCHANGED <<getVars, putCounter, sentPuts, putsToAck, listenCounter, listens,
                   onDisconnectVars>>

\* Mutation of Disconnected: only a connection that had succeeded is tried again.
DisconnectedGivingUp(pending, reset, force) ==
    /\ OnDisconnect(pending)
    /\ UNCHANGED interruptReasons
    /\ IF shouldReconnect /\ (reset \/ realtime = "connected")
       THEN TryScheduleReconnect(TRUE, force)
       ELSE /\ forceTokenRefreshes' = force
            /\ UNCHANGED <<scheduledRetry, lastWasSuccess, currentRetryDelay>>

(* The connection ends by itself.  It counts as a success after a reset of   *)
(* the server, or when it had been established for more than 30 s.          *)
Disconnected(pending, reset, force) ==
    /\ OnDisconnect(pending)
    /\ UNCHANGED interruptReasons
    /\ IF shouldReconnect
       THEN \E longLived \in {FALSE, realtime = "connected"} :
                TryScheduleReconnect(reset \/ longLived, force)
       ELSE /\ forceTokenRefreshes' = force
            /\ UNCHANGED <<scheduledRetry, lastWasSuccess, currentRetryDelay>>

(* interruptForReason: closes the connection, or cancels the attempt at one, *)
(* and resets the back-off.                                                 *)
InterruptForReason(reason, pending) ==
    /\ interruptReasons' = interruptReasons \cup {reason}
    /\ lastWasSuccess' = TRUE
    /\ currentRetryDelay' = 0
    /\ UNCHANGED <<authVars, forceTokenRefreshes>>
    /\ \/ /\ realtime # "none"
          /\ OnDisconnect(pending)
          /\ UNCHANGED scheduledRetry
       \/ /\ realtime = "none"
          /\ scheduledRetry' = NoRetry
          /\ connectionState' = "Disconnected"
          /\ workQueue' = pending
          /\ UNCHANGED <<realtime, getVars, putVars, listenVars, onDisconnectVars,
                         wireVars, serverVars, infoConnected>>

-----------------------------------------------------------------------------
(* The connection: attempts, interruptions, wake-ups.                       *)

Resume(reason) ==
    /\ interruptReasons' = interruptReasons \ {reason}
    /\ IF interruptReasons \subseteq {reason} /\ connectionState = "Disconnected"
       THEN TryScheduleReconnect(FALSE, forceTokenRefreshes)
       ELSE UNCHANGED retryVars
    /\ UNCHANGED <<authVars, connectionState, realtime, getVars, putVars, listenVars,
                   onDisconnectVars, wireVars, serverVars, workQueue, infoConnected>>

Open == "waiting_for_open" \in interruptReasons /\ Resume("waiting_for_open")
GoOnline == Resume("repo_interrupt")
GoOffline == InterruptForReason("repo_interrupt", workQueue)

\* The network became reachable, or the app enters the foreground.
WakeUp ==
    /\ IF connectionState = "Disconnected" /\ shouldReconnect
       THEN TryScheduleReconnect(TRUE, forceTokenRefreshes)
       ELSE /\ lastWasSuccess' = TRUE
            /\ currentRetryDelay' = 0
            /\ UNCHANGED <<scheduledRetry, forceTokenRefreshes>>
    /\ UNCHANGED <<authVars, stateVars, getVars, putVars, listenVars,
                   onDisconnectVars, wireVars, serverVars, workQueue, infoConnected>>

OpenNetworkConnection(token) ==
    /\ connectionState' = "Connecting"
    /\ realtime' = "connecting"
    /\ authToken' = token

(* The block of the retry helper: a context is fetched.  Without FirebaseAuth *)
(* and AppCheck it is empty and there at once.                              *)
RunRetry ==
    /\ scheduledRetry # NoRetry
    /\ scheduledRetry' = NoRetry
    /\ \/ /\ HasAuth
          /\ connectionState' = "GettingToken"
          /\ fetches' = {"latest"} \cup (IF fetches = {} THEN {} ELSE {"stale"})
          /\ fetchForced' = scheduledRetry.force
          /\ UNCHANGED <<realtime, authToken, refreshes, tokenRevoked>>
       \/ /\ ~HasAuth
          /\ OpenNetworkConnection(FALSE)
          /\ UNCHANGED <<fetches, fetchForced, refreshes, tokenRevoked>>
    /\ UNCHANGED <<lastWasSuccess, currentRetryDelay, forceTokenRefreshes, interruptReasons,
                   getVars, putVars, listenVars, onDisconnectVars, wireVars, serverVars,
                   workQueue, infoConnected>>

\* The context arrives: ignored when the attempt was interrupted meanwhile.
FetchDone(token) ==
    /\ "latest" \in fetches
    /\ fetches' = fetches \ {"latest"}
    /\ tokenRevoked' = (tokenRevoked /\ ~fetchForced)
    /\ IF connectionState = "GettingToken"
       THEN OpenNetworkConnection(token)
       ELSE UNCHANGED <<connectionState, realtime, authToken>>
    /\ UNCHANGED <<fetchForced, refreshes, interruptReasons, retryVars, getVars, putVars,
                   listenVars, onDisconnectVars, wireVars, serverVars, workQueue, infoConnected>>

FetchFails ==
    /\ "latest" \in fetches
    /\ fetches' = fetches \ {"latest"}
    /\ connectionState' = "Disconnected"
    /\ IF shouldReconnect
       THEN TryScheduleReconnect(FALSE, forceTokenRefreshes)
       ELSE UNCHANGED retryVars
    /\ UNCHANGED <<fetchForced, authToken, refreshes, tokenRevoked, interruptReasons, realtime,
                   getVars, putVars, listenVars, onDisconnectVars, wireVars, serverVars,
                   workQueue, infoConnected>>

\* An answer to an attempt that is not the latest is ignored.
FetchStale ==
    /\ "stale" \in fetches
    /\ fetches' = fetches \ {"stale"}
    /\ UNCHANGED <<fetchForced, authToken, refreshes, tokenRevoked, stateVars, retryVars,
                   getVars, putVars, listenVars, onDisconnectVars, wireVars, serverVars,
                   workQueue, infoConnected>>

\* restoreState, with the orders in which listens, writes and gets may be sent.
Restore(held, listenOrders, putOrders, getOrders) ==
    /\ \E ls \in listenOrders, ps \in putOrders, gs \in getOrders :
           /\ Send(held, Calls("listen", ls) \o Calls("put", ps) \o Calls("get", gs)
                         \o Calls("onDisconnect", onDisconnectQueue))
           /\ unackedListensCount' = unackedListensCount + Len(ls)
    /\ sentPuts' = sentPuts \cup outstandingPuts
    /\ sentGets' = sentGets \cup outstandingGets
    /\ onDisconnectQueue' = <<>>
    /\ UNCHANGED <<getCounter, outstandingGets, getTimers, askedAt, completed, putCounter,
                   outstandingPuts, putsToAck, putResults, listenCounter, listens,
                   onDisconnectCounter, onDisconnectResults>>

UnsentGets == Ascending(outstandingGets \ sentGets)

\* Mutations of RestoreState: writes that were sent before are not sent again, the
\* dictionary of writes is not sorted, listens are not restored, or gets that were
\* sent before are sent again.
RestoreStateUnsent(held) ==
    Restore(held, Orders(listens), Ascending(outstandingPuts \ sentPuts), UnsentGets)
RestoreStateUnsorted(held) ==
    Restore(held, Orders(listens), Orders(outstandingPuts), UnsentGets)
RestoreStateNoListens(held) ==
    Restore(held, {<<>>}, Ascending(outstandingPuts), UnsentGets)
RestoreStateAllGets(held) ==
    Restore(held, Orders(listens), Ascending(outstandingPuts), Ascending(outstandingGets))

\* Listens in the order of the dictionary, then writes and unsent gets by their
\* index, then the queued onDisconnect operations.
RestoreState(held) ==
    Restore(held, Orders(listens), Ascending(outstandingPuts), UnsentGets)

\* With a credential the state is restored after the server accepted it.
RestoreAuth ==
    \/ /\ ~authToken
       /\ connectionState' = "Connected"
       /\ RestoreState(requestCBHash)
    \/ /\ authToken
       /\ connectionState' = "Authenticating"
       /\ Send(requestCBHash, <<Call("auth", 0)>>)
       /\ UNCHANGED <<getVars, putVars, listenVars, onDisconnectVars>>

(* Blocks from the socket.  After the handshake FRepo is told of the         *)
(* connection in a block of its own.                                         *)
HeadIs(type) == workQueue # <<>> /\ Head(workQueue).type = type

OnReady ==
    /\ HeadIs("hello")
    /\ realtime = "connecting"
    /\ realtime' = "connected"
    /\ workQueue' = Append(Tail(workQueue), Block("onConnect"))
    /\ RestoreAuth
    /\ UNCHANGED <<interruptReasons, retryVars, authVars, serverVars, infoConnected>>

OnConnect ==
    /\ HeadIs("onConnect")
    /\ workQueue' = Tail(workQueue)
    /\ infoConnected' = TRUE
    /\ UNCHANGED <<retryVars, authVars, stateVars, getVars, putVars, listenVars,
                   onDisconnectVars, wireVars, serverVars>>

\* The socket closed, or the server asked the client to connect again.
OnClosed(type) ==
    /\ HeadIs(type)
    /\ Disconnected(Tail(workQueue), type = "reset", forceTokenRefreshes)
    /\ UNCHANGED authVars

\* The server kills the connection: the client never reconnects.
OnKill ==
    /\ HeadIs("shutdown")
    /\ InterruptForReason("server_kill", Tail(workQueue))

\* Mutation of OnAuthRevoked: the connection is tried again and the old one not closed.
OnAuthRevokedOpen ==
    /\ HeadIs("revoked")
    /\ workQueue' = Tail(workQueue)
    /\ authToken' = FALSE
    /\ tokenRevoked' = TRUE
    /\ connectionState' = "Disconnected"
    /\ TryScheduleReconnect(FALSE, TRUE)
    /\ UNCHANGED <<fetches, fetchForced, refreshes, interruptReasons, realtime, getVars, putVars,
                   listenVars, onDisconnectVars, wireVars, serverVars, infoConnected>>

OnAuthRevoked ==
    /\ HeadIs("revoked")
    /\ authToken' = FALSE
    /\ tokenRevoked' = TRUE
    /\ Disconnected(Tail(workQueue), FALSE, TRUE)
    /\ UNCHANGED <<fetches, fetchForced, refreshes>>

-----------------------------------------------------------------------------
(* onDataMessage with the answer to a request: the callback held under its   *)
(* number is removed and called.                                            *)
Answered(request, type) ==
    /\ HeadIs("answer")
    /\ request.rn = Head(workQueue).rn
    /\ request.call.type = type

Consume(request) ==
    /\ workQueue' = Tail(workQueue)
    /\ requestCBHash' = requestCBHash \ {request}
    /\ UNCHANGED <<requestNumber, toServer>>

Complete(get, result) == completed' = Append(completed, [get |-> get, result |-> result])

OnGetAnswer ==
    \E request \in requestCBHash :
        LET get == request.call.id
            answer == Head(workQueue)
        IN  /\ Answered(request, "get")
            /\ Consume(request)
            /\ IF get \in outstandingGets
               THEN /\ outstandingGets' = outstandingGets \ {get}
                    /\ Complete(get, IF answer.ok THEN answer.value ELSE Failure)
               ELSE UNCHANGED <<outstandingGets, completed>>
            /\ UNCHANGED <<getCounter, sentGets, getTimers, askedAt, retryVars, authVars,
                           stateVars, putVars, listenVars, onDisconnectVars, serverVars,
                           infoConnected>>

\* Mutation of OnPutAnswer: a put that is not outstanding any more is completed again.
OnPutAnswerUnchecked ==
    \E request \in requestCBHash :
        LET put == request.call.id
            status == IF Head(workQueue).ok THEN "ok" ELSE "error"
        IN  /\ Answered(request, "put")
            /\ Consume(request)
            /\ outstandingPuts' = outstandingPuts \ {put}
            /\ IF unackedListensCount = 0
               THEN /\ putResults' = [putResults EXCEPT ![put] = Append(@, status)]
                    /\ UNCHANGED putsToAck
               ELSE /\ putsToAck' = Append(putsToAck, [put |-> put, status |-> status])
                    /\ UNCHANGED putResults
            /\ UNCHANGED <<putCounter, sentPuts, retryVars, authVars, stateVars, getVars,
                           listenVars, onDisconnectVars, serverVars, infoConnected>>

\* A write is completed at once, or after the listens under way are answered.
OnPutAnswer ==
    \E request \in requestCBHash :
        LET put == request.call.id
            status == IF Head(workQueue).ok THEN "ok" ELSE "error"
        IN  /\ Answered(request, "put")
            /\ Consume(request)
            /\ outstandingPuts' = outstandingPuts \ {put}
            /\ IF put \in outstandingPuts
               THEN IF unackedListensCount = 0
                    THEN /\ putResults' = [putResults EXCEPT ![put] = Append(@, status)]
                         /\ UNCHANGED putsToAck
                    ELSE /\ putsToAck' = Append(putsToAck, [put |-> put, status |-> status])
                         /\ UNCHANGED putResults
               ELSE UNCHANGED <<putsToAck, putResults>>
            /\ UNCHANGED <<putCounter, sentPuts, retryVars, authVars, stateVars, getVars,
                           listenVars, onDisconnectVars, serverVars, infoConnected>>

\* ackPuts: the statuses each write is completed with, in the order of putsToAck.
AcksOf(p) == {i \in DOMAIN putsToAck : putsToAck[i].put = p}
NthAck(p, n) == CHOOSE i \in AcksOf(p) : Cardinality({j \in AcksOf(p) : j < i}) = n - 1

AckedResults ==
    [p \in Puts |->
        putResults[p] \o [n \in 1..Cardinality(AcksOf(p)) |-> putsToAck[NthAck(p, n)].status]]

\* An error removes the listen, unless it was removed (and maybe added again).
OnListenAnswer ==
    \E request \in requestCBHash :
        /\ Answered(request, "listen")
        /\ Consume(request)
        /\ listens' = IF Head(workQueue).ok THEN listens ELSE listens \ {request.call.id}
        /\ unackedListensCount' = unackedListensCount - 1
        /\ IF unackedListensCount' = 0
           THEN putResults' = AckedResults /\ putsToAck' = <<>>
           ELSE UNCHANGED <<putResults, putsToAck>>
        /\ UNCHANGED <<putCounter, outstandingPuts, sentPuts, listenCounter, retryVars, authVars,
                       stateVars, getVars, onDisconnectVars, serverVars, infoConnected>>

OnOnDisconnectAnswer ==
    \E request \in requestCBHash :
        LET status == IF Head(workQueue).ok THEN "ok" ELSE "error"
        IN  /\ Answered(request, "onDisconnect")
            /\ Consume(request)
            /\ onDisconnectResults' =
                   [onDisconnectResults EXCEPT ![request.call.id] = Append(@, status)]
            /\ UNCHANGED <<onDisconnectCounter, onDisconnectQueue, retryVars, authVars, stateVars,
                           getVars, putVars, listenVars, serverVars, infoConnected>>

(* The callback of sendAuthAndRestoreStateAfterComplete: the state is         *)
(* restored after the first credential of a connection.                      *)
OnAuthAccepted(type) ==
    \E request \in requestCBHash :
        /\ Answered(request, type)
        /\ Head(workQueue).ok
        /\ connectionState' = "Connected"
        /\ \/ /\ type = "auth"
              /\ RestoreState(requestCBHash \ {request})
              /\ workQueue' = Tail(workQueue)
           \/ /\ type = "reauth"
              /\ Consume(request)
              /\ UNCHANGED <<getVars, putVars, listenVars, onDisconnectVars>>
        /\ UNCHANGED <<interruptReasons, realtime, retryVars, authVars, serverVars, infoConnected>>

OnAppCheckAccepted ==
    \E request \in requestCBHash :
        /\ Answered(request, "appcheck")
        /\ Head(workQueue).ok
        /\ Consume(request)
        /\ UNCHANGED <<retryVars, authVars, stateVars, getVars, putVars, listenVars,
                       onDisconnectVars, serverVars, infoConnected>>

\* The server refuses a credential: the client reconnects with a fresh one.
OnTokenRefused ==
    \E request \in requestCBHash, type \in {"auth", "reauth", "appcheck"} :
        /\ Answered(request, type)
        /\ ~Head(workQueue).ok
        /\ authToken' = FALSE
        /\ tokenRevoked' = TRUE
        /\ Disconnected(Tail(workQueue), FALSE, TRUE)
        /\ UNCHANGED <<fetches, fetchForced, refreshes>>

\* The server stops serving a path: every listen there ends.
OnListenRevoked ==
    /\ HeadIs("cancelled")
    /\ workQueue' = Tail(workQueue)
    /\ listens' = {l \in listens : QueryOf[l][1] # Head(workQueue).path}
    /\ UNCHANGED <<listenCounter, unackedListensCount, retryVars, authVars, stateVars, getVars,
                   putVars, onDisconnectVars, wireVars, serverVars, infoConnected>>

-----------------------------------------------------------------------------
(* The API, called by FRepo on the worker queue.                            *)

\* Mutation of GetData: the timer starts only when no attempt is under way.
GetDataIdleTimer ==
    LET get == getCounter + 1
    IN  /\ getCounter < NumGets
        /\ getCounter' = get
        /\ outstandingGets' = outstandingGets \cup {get}
        /\ askedAt' = [askedAt EXCEPT ![get] = published]
        /\ getTimers' = IF connectionState = "Disconnected" THEN getTimers \cup {get}
                                                            ELSE getTimers
        /\ IF canSend
           THEN /\ sentGets' = sentGets \cup {get}
                /\ Send(requestCBHash, <<Call("get", get)>>)
           ELSE UNCHANGED <<sentGets, wireVars>>
        /\ UNCHANGED <<completed, retryVars, authVars, stateVars, putVars, listenVars,
                       onDisconnectVars, serverVars, workQueue, infoConnected>>

(* getDataAtPath: without a connection a timer of 3 s starts; while the      *)
(* credential is being checked the get waits without one.                   *)
GetData ==
    LET get == getCounter + 1
    IN  /\ getCounter < NumGets
        /\ getCounter' = get
        /\ outstandingGets' = outstandingGets \cup {get}
        /\ askedAt' = [askedAt EXCEPT ![get] = published]
        /\ getTimers' = IF connected THEN getTimers ELSE getTimers \cup {get}
        /\ IF canSend
           THEN /\ sentGets' = sentGets \cup {get}
                /\ Send(requestCBHash, <<Call("get", get)>>)
           ELSE UNCHANGED <<sentGets, wireVars>>
        /\ UNCHANGED <<completed, retryVars, authVars, stateVars, putVars, listenVars,
                       onDisconnectVars, serverVars, workQueue, infoConnected>>

\* The timer: a get that is still unsent ends with "Client is offline."
GetTimeout(get) ==
    /\ get \in getTimers
    /\ getTimers' = getTimers \ {get}
    /\ IF get \in outstandingGets \ sentGets
       THEN /\ sentGets' = sentGets \cup {get}
            /\ outstandingGets' = outstandingGets \ {get}
            /\ Complete(get, Failure)
       ELSE UNCHANGED <<sentGets, outstandingGets, completed>>
    /\ UNCHANGED <<getCounter, askedAt, retryVars, authVars, stateVars, putVars, listenVars,
                   onDisconnectVars, wireVars, serverVars, workQueue, infoConnected>>

PutData ==
    LET put == putCounter + 1
    IN  /\ putCounter < NumPuts
        /\ putCounter' = put
        /\ outstandingPuts' = outstandingPuts \cup {put}
        /\ IF canSend
           THEN /\ sentPuts' = sentPuts \cup {put}
                /\ Send(requestCBHash, <<Call("put", put)>>)
           ELSE UNCHANGED <<sentPuts, wireVars>>
        /\ UNCHANGED <<putsToAck, putResults, retryVars, authVars, stateVars, getVars, listenVars,
                       onDisconnectVars, serverVars, workQueue, infoConnected>>

PurgeOutstandingWrites ==
    /\ putResults' = [p \in Puts |-> IF p \in outstandingPuts
                                     THEN Append(AckedResults[p], "canceled")
                                     ELSE AckedResults[p]]
    /\ putsToAck' = <<>>
    /\ outstandingPuts' = {}
    /\ onDisconnectResults' =
           [d \in OnDisconnects |-> IF \E i \in DOMAIN onDisconnectQueue : onDisconnectQueue[i] = d
                                    THEN Append(onDisconnectResults[d], "canceled")
                                    ELSE onDisconnectResults[d]]
    /\ onDisconnectQueue' = <<>>
    /\ UNCHANGED <<putCounter, sentPuts, onDisconnectCounter, retryVars, authVars, stateVars,
                   getVars, listenVars, wireVars, serverVars, workQueue, infoConnected>>

\* listen: FSyncTree listens to a query at most once at a time.
Listen ==
    LET listen == listenCounter + 1
    IN  /\ listenCounter < NumListens
        /\ \A l \in listens : QueryOf[l] # QueryOf[listen]
        /\ listenCounter' = listen
        /\ listens' = listens \cup {listen}
        /\ IF connected
           THEN /\ Send(requestCBHash, <<Call("listen", listen)>>)
                /\ unackedListensCount' = unackedListensCount + 1
           ELSE UNCHANGED <<unackedListensCount, wireVars>>
        /\ UNCHANGED <<retryVars, authVars, stateVars, getVars, putVars, onDisconnectVars,
                       serverVars, workQueue, infoConnected>>

Unlisten(listen) ==
    /\ listen \in listens
    /\ listens' = listens \ {listen}
    /\ IF connected
       THEN Send(requestCBHash, <<Call("unlisten", listen)>>)
       ELSE UNCHANGED wireVars
    /\ UNCHANGED <<listenCounter, unackedListensCount, retryVars, authVars, stateVars, getVars,
                   putVars, onDisconnectVars, serverVars, workQueue, infoConnected>>

\* onDisconnectPutData, onDisconnectMergeData and onDisconnectCancelPath.
OnDisconnectOperation ==
    LET operation == onDisconnectCounter + 1
    IN  /\ onDisconnectCounter < NumOnDisconnects
        /\ onDisconnectCounter' = operation
        /\ IF canSend
           THEN /\ Send(requestCBHash, <<Call("onDisconnect", operation)>>)
                /\ UNCHANGED onDisconnectQueue
           ELSE /\ onDisconnectQueue' = Append(onDisconnectQueue, operation)
                /\ UNCHANGED wireVars
        /\ UNCHANGED <<onDisconnectResults, retryVars, authVars, stateVars, getVars, putVars,
                       listenVars, serverVars, workQueue, infoConnected>>

\* FirebaseAuth pushes a new token, or its absence.
RefreshAuthToken(token) ==
    /\ HasAuth /\ refreshes < MaxRefreshes
    /\ refreshes' = refreshes + 1
    /\ authToken' = token
    /\ tokenRevoked' = FALSE
    /\ IF connected
       THEN Send(requestCBHash, <<Call(IF token THEN "reauth" ELSE "unauth", 0)>>)
       ELSE UNCHANGED wireVars
    /\ UNCHANGED <<fetches, fetchForced, retryVars, stateVars, getVars, putVars, listenVars,
                   onDisconnectVars, serverVars, workQueue, infoConnected>>

RefreshAppCheckToken ==
    /\ HasAuth /\ refreshes < MaxRefreshes
    /\ refreshes' = refreshes + 1
    /\ connected
    /\ Send(requestCBHash, <<Call("appcheck", 0)>>)
    /\ UNCHANGED <<fetches, fetchForced, authToken, tokenRevoked, retryVars, stateVars, getVars,
                   putVars, listenVars, onDisconnectVars, serverVars, workQueue, infoConnected>>

-----------------------------------------------------------------------------
(* The server and the network.  Requests of one connection are carried out   *)
(* in the order they were sent.  Nothing is sent after a message that ends   *)
(* the connection: the client would drop it with the socket.                 *)

Ending == {"revoked", "shutdown", "reset"}
Reachable == realtime # "none" /\ ~LinkBroken /\ \A type \in Ending : ~Queued(type)
Receive(block) == workQueue' = Append(workQueue, block)

SendHello ==
    /\ Reachable /\ realtime = "connecting" /\ ~Queued("hello")
    /\ Receive(Block("hello"))
    /\ UNCHANGED <<retryVars, authVars, stateVars, getVars, putVars, listenVars,
                   onDisconnectVars, wireVars, serverVars, infoConnected>>

ServerAnswers(ok) ==
    LET request == Head(toServer)
        call == request.call
    IN  /\ Reachable /\ toServer # <<>>
        /\ toServer' = Tail(toServer)
        /\ IF HasCallback(call)
           THEN Receive(Answer(request.rn, ok, IF call.type = "get" /\ ok THEN published ELSE 0))
           ELSE ok /\ UNCHANGED workQueue
        /\ applied' = IF call.type = "put" /\ ok THEN call.id ELSE applied
        /\ serverListens' = CASE call.type = "listen" /\ ok -> serverListens \cup {QueryOf[call.id]}
                              [] call.type = "unlisten" -> serverListens \ {QueryOf[call.id]}
                              [] OTHER -> serverListens
        /\ UNCHANGED <<published, requestNumber, requestCBHash, retryVars, authVars, stateVars,
                       getVars, putVars, listenVars, onDisconnectVars, infoConnected>>

ServerSends(type) ==
    /\ Reachable
    /\ type = "revoked" => HasAuth /\ realtime = "connected"
    /\ Receive(Block(type))
    /\ UNCHANGED <<retryVars, authVars, stateVars, getVars, putVars, listenVars,
                   onDisconnectVars, wireVars, serverVars, infoConnected>>

ServerCancels(path) ==
    /\ Reachable
    /\ \E query \in serverListens : query[1] = path
    /\ serverListens' = {query \in serverListens : query[1] # path}
    /\ Receive(Cancelled(path))
    /\ UNCHANGED <<published, applied, retryVars, authVars, stateVars, getVars, putVars,
                   listenVars, onDisconnectVars, wireVars, infoConnected>>

\* The socket breaks, or the server is not reached within 30 s.
LinkBreaks ==
    /\ Reachable
    /\ Receive(Block("closed"))
    /\ toServer' = <<>>
    /\ applied' \in {applied} \cup WritesUnderWay
    /\ serverListens' = {}
    /\ UNCHANGED <<published, requestNumber, requestCBHash, retryVars, authVars, stateVars,
                   getVars, putVars, listenVars, onDisconnectVars, infoConnected>>

Publish ==
    /\ published < MaxVersion
    /\ published' = published + 1
    /\ UNCHANGED <<applied, serverListens, retryVars, authVars, stateVars, getVars, putVars,
                   listenVars, onDisconnectVars, wireVars, workQueue, infoConnected>>

-----------------------------------------------------------------------------
Worker ==
    \/ OnReady \/ OnConnect \/ OnKill \/ OnAuthRevoked
    \/ \E type \in {"closed", "reset"} : OnClosed(type)
    \/ OnGetAnswer \/ OnPutAnswer \/ OnListenAnswer \/ OnOnDisconnectAnswer
    \/ \E type \in {"auth", "reauth"} : OnAuthAccepted(type)
    \/ OnAppCheckAccepted \/ OnTokenRefused \/ OnListenRevoked

Api ==
    \/ GetData \/ PutData \/ PurgeOutstandingWrites \/ Listen \/ OnDisconnectOperation
    \/ \E listen \in Listens : Unlisten(listen)
    \/ GoOffline \/ GoOnline
    \/ \E token \in BOOLEAN : RefreshAuthToken(token)
    \/ RefreshAppCheckToken

Timers == RunRetry \/ \E get \in Gets : GetTimeout(get)
Fetching == FetchFails \/ FetchStale \/ \E token \in BOOLEAN : FetchDone(token)

Server ==
    \/ SendHello \/ Publish
    \/ \E ok \in BOOLEAN : ServerAnswers(ok)
    \/ \E path \in Paths : ServerCancels(path)
    \/ \E type \in Ending : ServerSends(type)

Next == Open \/ WakeUp \/ Worker \/ Api \/ Timers \/ Fetching \/ Server \/ LinkBreaks

Spec == Init /\ [][Next]_vars
-----------------------------------------------------------------------------
(* Properties.                                                             *)

Holds(type, id) == \E request \in requestCBHash : request.call = Call(type, id)

\* The client never stops trying: while nothing interrupts it, it has a scheduled
\* attempt, waits for a context that will arrive, or has a socket; and an attempt
\* is scheduled only then and only in the state its block asserts.
KeepsTrying ==
    /\ shouldReconnect =>
          \/ scheduledRetry # NoRetry
          \/ connectionState = "GettingToken" /\ "latest" \in fetches
          \/ realtime # "none"
    /\ scheduledRetry # NoRetry => shouldReconnect /\ connectionState = "Disconnected"

\* FPersistentConnection and FConnection agree on the connection, so no request is
\* sent on an FConnection that throws InvalidConnectionState, and no socket is
\* left open behind a connection that is given up.
LayersAgree ==
    /\ connected <=> realtime = "connected"
    /\ connectionState = "Connecting" <=> realtime = "connecting"
    /\ realtime = "none" => requestCBHash = {} /\ toServer = <<>>

\* Without a credential to check, a get that is not sent has its 3 s timer running.
UnsentGetHasTimer == ~HasAuth => outstandingGets \ sentGets \subseteq getTimers

\* Once the connection is usable nothing the caller waits for is forgotten: writes
\* are on the wire again, no get and no onDisconnect operation waits unsent.
NothingForgotten ==
    canSend =>
        /\ \A p \in outstandingPuts : Holds("put", p)
        /\ outstandingGets \subseteq sentGets
        /\ onDisconnectQueue = <<>>

\* When everything sent has been answered and processed, the server serves every
\* listen the client believes in (reconnects, revocations and re-added listens).
ListensServed ==
    canSend /\ toServer = <<>> /\ workQueue = <<>> =>
        \A l \in listens : QueryOf[l] \in serverListens

\* The count that delays the completion of writes is the number of listens without
\* an answer: it is unsigned, so an extra decrement would wrap it to a huge number.
UnackedListensCounted ==
    unackedListensCount = Cardinality({r \in requestCBHash : r.call.type = "listen"})

\* No completion of a write or of an onDisconnect operation is called twice, through
\* answers, cancelled transactions, purges and delayed acknowledgements.
CompletedAtMostOnce ==
    /\ \A p \in Puts : Len(putResults[p]) <= 1
    /\ \A d \in OnDisconnects : Len(onDisconnectResults[d]) <= 1

\* A sent transaction is never sent again on another connection, where the data it
\* was computed from may have changed.
TransactionSentOnce ==
    \A p \in Transactions \cap sentPuts \cap outstandingPuts : Holds("put", p)

\* A write that was acknowledged is never overwritten by an older one that is sent
\* again after a reconnect.
AcknowledgedWriteStays ==
    \A p \in Puts : (\E i \in DOMAIN putResults[p] : putResults[p][i] = "ok") => applied >= p

\* No read and no write is sent before the server accepted the credential of the
\* connection, whatever tokens are pushed meanwhile.
CredentialFirst ==
    (\E request \in requestCBHash : request.call.type = "auth") =>
        \A request \in requestCBHash : request.call.type \notin {"put", "get", "onDisconnect"}

\* .info/connected is true once the blocks of an established connection have run.
ConnectedIsAnnounced == connected /\ workQueue = <<>> => infoConnected

\* The client implements the service the download relies on.
Lost(g) == g \in outstandingGets \cap sentGets /\ ~Holds("get", g)
Done(g) == \E i \in DOMAIN completed : completed[i].get = g
StatusOf(g) ==
    CASE g > getCounter -> "idle" [] Done(g) -> "done" [] Lost(g) -> "lost" [] OTHER -> "pending"
Service == INSTANCE GetService WITH status <- [g \in Gets |-> StatusOf(g)]
ServiceSpec == Service!Spec

-----------------------------------------------------------------------------
(* Fairness: the worker queue is served, timers fire, contexts are fetched;  *)
(* a socket that is being opened is greeted or closed (30 s time-out), and a *)
(* request that was sent is answered unless the connection breaks.          *)
Greeted == realtime = "connecting" /\ (SendHello \/ LinkBreaks)
Served == toServer # <<>> /\ (LinkBreaks \/ \E ok \in BOOLEAN : ServerAnswers(ok))

Fairness ==
    /\ WF_vars(Worker)
    /\ WF_vars(RunRetry) /\ \A get \in Gets : WF_vars(GetTimeout(get))
    /\ WF_vars(FetchFails \/ \E token \in BOOLEAN : FetchDone(token))
    /\ WF_vars(Greeted) /\ WF_vars(Served)

FairSpec == Spec /\ Fairness

\* Every get ends: it completes, or is lost with the connection it was sent on.
EveryGetEnds == \A g \in Gets : (getCounter >= g) ~> (Done(g) \/ Lost(g))

\* While the network lets it through again and again, the client is connected again
\* and again unless it is interrupted.
Reconnects == SF_vars(SendHello) => []<>(canSend \/ ~shouldReconnect)

\* If the connection stays usable from some time on, every write is answered: it is
\* completed, or waits for the answers to the listens under way.
Acking(p) == \E i \in DOMAIN putsToAck : putsToAck[i].put = p
EveryWriteIsAnswered ==
    <>[]canSend =>
        \A p \in Puts : (putCounter >= p) ~> (putResults[p] # <<>> \/ Acking(p))

-----------------------------------------------------------------------------
(* What the documentation and the comments say, and the code does not do.   *)

\* getDataWithCompletionBlock: the block is called with the value "or an error if
\* no such value could be retrieved", at least when the connection stays usable.
EveryGetCompletes ==
    <>[]canSend => \A g \in Gets : (getCounter >= g) ~> Done(g)

\* setValue:withCompletionBlock: the block is called "after the write has been
\* committed": once the server accepted it, on a connection that stays usable.
EveryWriteCompletes ==
    <>[]canSend =>
        \A p \in Puts :
            (\E i \in DOMAIN putsToAck : putsToAck[i] = [put |-> p, status |-> "ok"])
                ~> putResults[p] # <<>>

\* onAuthRevoked: "we will refresh the token later on reconnect".
RevokedTokenIsRefreshed ==
    connectionState = "GettingToken" /\ tokenRevoked => fetchForced
=============================================================================
