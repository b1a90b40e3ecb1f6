--------------------- MODULE PersistentConnectionProofs ---------------------
(***************************************************************************)
(* Proofs about PersistentConnection, for any number of gets, writes,      *)
(* listens, onDisconnect operations and tokens: the state machine; the     *)
(* wire, where every callback waits for an answer that comes in the order  *)
(* of the requests; and the credential.  Then the requests: nothing a      *)
(* caller waits for is forgotten, a write is completed and overwritten     *)
(* only as its caller was told, the count of unanswered listens that       *)
(* delays the completion of writes is exact, the server serves what the    *)
(* client listens to, and gets behave as GetService says.                  *)
(***************************************************************************)
EXTENDS PersistentConnection, FiniteSetTheorems, SequenceTheorems, TLAPS

\* A context is being fetched exactly for an attempt that is under way or given up.
FetchUnderWay ==
    /\ connectionState = "GettingToken" => "latest" \in fetches
    /\ "latest" \in fetches => connectionState \in {"GettingToken", "Disconnected"}
    /\ ~HasAuth => fetches = {}

\* What belongs to a connection goes with it: the blocks of its socket, its answers,
\* its callbacks, its requests.
NothingOutlivesConnection ==
    /\ realtime = "none" => \A i \in DOMAIN workQueue : workQueue[i].type = "onConnect"
    /\ realtime # "connected" =>
          /\ requestCBHash = {} /\ toServer = <<>> /\ requestNumber = 0
          /\ ~Queued("answer")

\* The states of the two layers match.
StatesMatch ==
    /\ connected <=> realtime = "connected"
    /\ connectionState = "Connecting" <=> realtime = "connecting"

Control == KeepsTrying /\ StatesMatch /\ FetchUnderWay /\ NothingOutlivesConnection

-----------------------------------------------------------------------------
(* What a step may change.                                                 *)

\* The ways a connection ends: the socket is dropped, or there was none yet.
Drop ==
    \/ OnDisconnect(workQueue)
    \/ workQueue # <<>> /\ OnDisconnect(Tail(workQueue))

GiveUp ==
    /\ realtime = "none" /\ connectionState' = "Disconnected"
    /\ \/ workQueue' = workQueue
       \/ HeadIs("shutdown") /\ workQueue' = Tail(workQueue)
    /\ UNCHANGED <<realtime, getVars, putVars, listenVars, onDisconnectVars, wireVars,
                   serverVars, infoConnected>>

Ends ==
    \/ OnKill \/ GoOffline \/ OnAuthRevoked \/ OnTokenRefused
    \/ \E type \in {"closed", "reset"} : OnClosed(type)

\* The connection becomes usable, after the handshake or the answer to the credential.
Restores ==
    \/ OnReady /\ connectionState' = "Connected" /\ RestoreState(requestCBHash)
    \/ \E request \in requestCBHash :
          /\ HeadIs("answer") /\ request.rn = Head(workQueue).rn /\ request.call.type = "auth"
          /\ connectionState' = "Connected" /\ workQueue' = Tail(workQueue)
          /\ RestoreState(requestCBHash \ {request})

LEMMA EndsByDropOrGiveUp == Ends => Drop \/ GiveUp
<1>1. CASE OnKill
  BY <1>1 DEF OnKill, HeadIs, InterruptForReason, Drop, GiveUp
<1>2. CASE GoOffline
  BY <1>2 DEF GoOffline, InterruptForReason, Drop, GiveUp
<1>3. CASE OnAuthRevoked
  BY <1>3 DEF OnAuthRevoked, HeadIs, Disconnected, Drop
<1>4. CASE OnTokenRefused
  BY <1>4 DEF OnTokenRefused, Answered, HeadIs, Disconnected, Drop
<1>5. CASE \E type \in {"closed", "reset"} : OnClosed(type)
  BY <1>5 DEF OnClosed, HeadIs, Disconnected, Drop
<1>. QED
  BY <1>1, <1>2, <1>3, <1>4, <1>5 DEF Ends

LEMMA GetFrame ==
    [Next]_vars => \/ UNCHANGED getVars
                   \/ Restores \/ OnGetAnswer \/ GetData
                   \/ \E get \in Gets : GetTimeout(get)
<1>1. CASE Ends
  BY <1>1, EndsByDropOrGiveUp DEF Drop, GiveUp, OnDisconnect
<1>2. CASE OnReady \/ \E type \in {"auth", "reauth"} : OnAuthAccepted(type)
  BY <1>2 DEF OnReady, OnAuthAccepted, Answered, RestoreAuth, Restores
<1>3. CASE Worker
  BY <1>1, <1>2, <1>3 DEF Worker, Ends, OnConnect, OnPutAnswer, OnListenAnswer, OnOnDisconnectAnswer,
     OnAppCheckAccepted, OnListenRevoked
<1>4. CASE Api
  BY <1>1, <1>4 DEF Api, Ends, PutData, PurgeOutstandingWrites, Listen, Unlisten,
     OnDisconnectOperation, GoOnline, Resume, RefreshAuthToken, RefreshAppCheckToken
<1>5. CASE Open \/ WakeUp \/ Timers \/ Fetching
  BY <1>5 DEF Open, Resume, WakeUp, Timers, RunRetry, Fetching, FetchFails, FetchStale, FetchDone
<1>6. CASE Server \/ LinkBreaks
  BY <1>6 DEF Server, SendHello, Publish, ServerAnswers, ServerCancels, ServerSends, LinkBreaks
<1>7. CASE UNCHANGED vars
  BY <1>7 DEF vars
<1>. QED
  BY <1>3, <1>4, <1>5, <1>6, <1>7 DEF Next

LEMMA PutFrame ==
    [Next]_vars => \/ UNCHANGED putVars
                   \/ Drop \/ Restores \/ OnPutAnswer \/ OnListenAnswer
                   \/ PutData \/ PurgeOutstandingWrites
<1>1. CASE Ends
  BY <1>1, EndsByDropOrGiveUp DEF GiveUp
<1>2. CASE OnReady \/ \E type \in {"auth", "reauth"} : OnAuthAccepted(type)
  BY <1>2 DEF OnReady, OnAuthAccepted, Answered, RestoreAuth, Restores
<1>3. CASE Worker
  BY <1>1, <1>2, <1>3 DEF Worker, Ends, OnConnect, OnGetAnswer, OnOnDisconnectAnswer, OnAppCheckAccepted, OnListenRevoked
<1>4. CASE Api
  BY <1>1, <1>4 DEF Api, Ends, GetData, Listen, Unlisten, OnDisconnectOperation, GoOnline, Resume, RefreshAuthToken, RefreshAppCheckToken
<1>5. CASE Open \/ WakeUp \/ Timers \/ Fetching
  BY <1>5 DEF Open, Resume, WakeUp, Timers, RunRetry, GetTimeout, Fetching, FetchFails,
     FetchStale, FetchDone
<1>6. CASE Server \/ LinkBreaks
  BY <1>6 DEF Server, SendHello, Publish, ServerAnswers, ServerCancels, ServerSends, LinkBreaks
<1>7. CASE UNCHANGED vars
  BY <1>7 DEF vars
<1>. QED
  BY <1>3, <1>4, <1>5, <1>6, <1>7 DEF Next

LEMMA ListenFrame ==
    [Next]_vars => \/ UNCHANGED listenVars
                   \/ Drop \/ Restores \/ OnListenAnswer \/ OnListenRevoked
                   \/ Listen \/ \E listen \in Listens : Unlisten(listen)
<1>1. CASE Ends
  BY <1>1, EndsByDropOrGiveUp DEF GiveUp
<1>2. CASE OnReady \/ \E type \in {"auth", "reauth"} : OnAuthAccepted(type)
  BY <1>2 DEF OnReady, OnAuthAccepted, Answered, RestoreAuth, Restores
<1>3. CASE Worker
  BY <1>1, <1>2, <1>3 DEF Worker, Ends, OnConnect, OnGetAnswer, OnPutAnswer, OnOnDisconnectAnswer, OnAppCheckAccepted
<1>4. CASE Api
  BY <1>1, <1>4 DEF Api, Ends, GetData, PutData, PurgeOutstandingWrites, OnDisconnectOperation, GoOnline, Resume, RefreshAuthToken, RefreshAppCheckToken
<1>5. CASE Open \/ WakeUp \/ Timers \/ Fetching
  BY <1>5 DEF Open, Resume, WakeUp, Timers, RunRetry, GetTimeout, Fetching, FetchFails,
     FetchStale, FetchDone
<1>6. CASE Server \/ LinkBreaks
  BY <1>6 DEF Server, SendHello, Publish, ServerAnswers, ServerCancels, ServerSends, LinkBreaks
<1>7. CASE UNCHANGED vars
  BY <1>7 DEF vars
<1>. QED
  BY <1>3, <1>4, <1>5, <1>6, <1>7 DEF Next

LEMMA OnDisconnectFrame ==
    [Next]_vars => \/ UNCHANGED onDisconnectVars
                   \/ Restores \/ OnOnDisconnectAnswer
                   \/ OnDisconnectOperation \/ PurgeOutstandingWrites
<1>1. CASE Ends
  BY <1>1, EndsByDropOrGiveUp DEF Drop, GiveUp, OnDisconnect
<1>2. CASE OnReady \/ \E type \in {"auth", "reauth"} : OnAuthAccepted(type)
  BY <1>2 DEF OnReady, OnAuthAccepted, Answered, RestoreAuth, Restores
<1>3. CASE Worker
  BY <1>1, <1>2, <1>3 DEF Worker, Ends, OnConnect, OnGetAnswer, OnPutAnswer, OnListenAnswer, OnAppCheckAccepted, OnListenRevoked
<1>4. CASE Api
  BY <1>1, <1>4 DEF Api, Ends, GetData, PutData, Listen, Unlisten, GoOnline, Resume, RefreshAuthToken, RefreshAppCheckToken
<1>5. CASE Open \/ WakeUp \/ Timers \/ Fetching
  BY <1>5 DEF Open, Resume, WakeUp, Timers, RunRetry, GetTimeout, Fetching, FetchFails,
     FetchStale, FetchDone
<1>6. CASE Server \/ LinkBreaks
  BY <1>6 DEF Server, SendHello, Publish, ServerAnswers, ServerCancels, ServerSends, LinkBreaks
<1>7. CASE UNCHANGED vars
  BY <1>7 DEF vars
<1>. QED
  BY <1>3, <1>4, <1>5, <1>6, <1>7 DEF Next

LEMMA ServerFrame ==
    [Next]_vars => \/ UNCHANGED serverVars
                   \/ Drop \/ Publish \/ LinkBreaks
                   \/ \E ok \in BOOLEAN : ServerAnswers(ok)
                   \/ \E path \in Paths : ServerCancels(path)
<1>1. CASE Ends
  BY <1>1, EndsByDropOrGiveUp DEF GiveUp
<1>2. CASE OnReady \/ \E type \in {"auth", "reauth"} : OnAuthAccepted(type)
  BY <1>2 DEF OnReady, OnAuthAccepted, Answered, RestoreAuth, Restores
<1>3. CASE Worker
  BY <1>1, <1>2, <1>3 DEF Worker, Ends, OnConnect, OnGetAnswer, OnPutAnswer, OnListenAnswer, OnOnDisconnectAnswer, OnAppCheckAccepted, OnListenRevoked
<1>4. CASE Api
  BY <1>1, <1>4 DEF Api, Ends, GetData, PutData, PurgeOutstandingWrites, Listen, Unlisten, OnDisconnectOperation, GoOnline, Resume, RefreshAuthToken, RefreshAppCheckToken
<1>5. CASE Open \/ WakeUp \/ Timers \/ Fetching
  BY <1>5 DEF Open, Resume, WakeUp, Timers, RunRetry, GetTimeout, Fetching, FetchFails,
     FetchStale, FetchDone
<1>6. CASE Server \/ LinkBreaks
  BY <1>6 DEF Server, SendHello, ServerSends
<1>7. CASE UNCHANGED vars
  BY <1>7 DEF vars
<1>. QED
  BY <1>3, <1>4, <1>5, <1>6, <1>7 DEF Next

-----------------------------------------------------------------------------
(* Sequences of requests.                                                  *)

\* A request names something its caller handed out.
IdFits(call) ==
    /\ call.type \in {"listen", "unlisten"} => call.id \in Listens
    /\ call.type = "put" => call.id \in Puts
    /\ call.type = "get" => call.id \in Gets
    /\ call.type = "onDisconnect" => call.id \in OnDisconnects
    /\ call.type = "auth" => call.id = 0

SoundCalls == {call \in [type : CallTypes, id : Nat] : IdFits(call)}
SoundRequests == {request \in Requests : IdFits(request.call)}
Request(number, call) == [rn |-> number, call |-> call]

WireTypes ==
    /\ requestNumber \in Nat
    /\ requestCBHash \subseteq SoundRequests
    /\ toServer \in Seq(SoundRequests)

LEMMA OrdersEnumerate ==
    ASSUME NEW S, IsFiniteSet(S), NEW s \in Orders(S)
    PROVE  /\ s \in Seq(S)
           /\ \A i, j \in DOMAIN s : s[i] = s[j] => i = j
           /\ Len(s) = Cardinality(S)
           /\ \A x \in S : \E i \in DOMAIN s : s[i] = x
<1>1. Cardinality(S) \in Nat
  BY FS_CardinalityType
<1>2. s \in [1..Cardinality(S) -> S] /\ \A i, j \in DOMAIN s : s[i] = s[j] => i = j
  BY DEF Orders
<1>3. s \in Injection(1..Cardinality(S), S)
  BY <1>2 DEF Injection, IsInjective
<1>4. Cardinality(1..Cardinality(S)) = Cardinality(S)
  BY <1>1, FS_Interval
<1>5. s \in Surjection(1..Cardinality(S), S)
  BY <1>3, <1>4, FS_Injection
<1>. QED
  BY <1>1, <1>2, <1>5 DEF Surjection

LEMMA AscendingEnumerates ==
    ASSUME NEW S \in SUBSET Nat, IsFiniteSet(S), NEW s \in Ascending(S)
    PROVE  s \in Orders(S) /\ \A i, j \in DOMAIN s : i < j => s[i] < s[j]
<1>1. Cardinality(S) \in Nat
  BY FS_CardinalityType
<1>2. s \in [1..Cardinality(S) -> S] /\ \A i, j \in DOMAIN s : i < j => s[i] < s[j]
  BY DEF Ascending
<1>4. DOMAIN s = 1..Cardinality(S) /\ \A i \in DOMAIN s : s[i] \in Nat
  BY <1>2
<1>3. ASSUME NEW i \in DOMAIN s, NEW j \in DOMAIN s, s[i] = s[j] PROVE i = j
  <2>1. i \in Nat /\ j \in Nat /\ s[i] \in Nat /\ s[j] \in Nat
    BY <1>1, <1>4
  <2>2. ~(s[i] < s[j]) /\ ~(s[j] < s[i])
    BY <1>3, <2>1
  <2>. QED
    BY <1>2, <2>1, <2>2
<1>. QED
  BY <1>2, <1>3 DEF Orders

LEMMA CallsOfSequence ==
    ASSUME NEW type \in CallTypes, NEW S \in SUBSET Nat, NEW ids \in Seq(S),
           \A x \in S : IdFits(Call(type, x))
    PROVE  /\ Calls(type, ids) \in Seq(SoundCalls)
           /\ Len(Calls(type, ids)) = Len(ids)
           /\ \A i \in 1..Len(ids) : Calls(type, ids)[i] = Call(type, ids[i])
<1>1. DOMAIN ids = 1..Len(ids) /\ Len(ids) \in Nat
  BY LenProperties
<1>2. \A i \in 1..Len(ids) : Call(type, ids[i]) \in SoundCalls
  BY <1>1, ElementOfSeq DEF Call, SoundCalls
<1>3. Calls(type, ids) \in [1..Len(ids) -> SoundCalls]
  BY <1>1, <1>2 DEF Calls
<1>. QED
  BY <1>1, <1>3 DEF Calls

LEMMA SendEffect ==
    ASSUME WireTypes, NEW held \in SUBSET requestCBHash, NEW calls \in Seq(SoundCalls),
           Send(held, calls)
    PROVE  /\ WireTypes'
           /\ requestNumber' = requestNumber + Len(calls)
           /\ held \subseteq requestCBHash'
           /\ \A i \in 1..Len(calls) :
                 HasCallback(calls[i]) => Request(requestNumber + i, calls[i]) \in requestCBHash'
           /\ \A r \in requestCBHash' :
                 \/ r \in held
                 \/ \E i \in 1..Len(calls) : HasCallback(calls[i]) /\ r = Request(requestNumber + i, calls[i])
           /\ LinkBroken => toServer' = toServer
           /\ ~LinkBroken =>
                 /\ Len(toServer') = Len(toServer) + Len(calls)
                 /\ \A i \in 1..Len(toServer) : toServer'[i] = toServer[i]
                 /\ \A i \in 1..Len(calls) :
                       toServer'[Len(toServer) + i] = Request(requestNumber + i, calls[i])
<1>. DEFINE requests == [i \in DOMAIN calls |-> [rn |-> requestNumber + i, call |-> calls[i]]]
<1>1. DOMAIN calls = 1..Len(calls) /\ Len(calls) \in Nat /\ \A i \in 1..Len(calls) : calls[i] \in SoundCalls
  BY LenProperties, ElementOfSeq
<1>2. \A i \in 1..Len(calls) : requests[i] = Request(requestNumber + i, calls[i])
  BY <1>1 DEF Request
<1>3. \A i \in 1..Len(calls) : requests[i] \in SoundRequests
  BY <1>1, <1>2 DEF SoundRequests, SoundCalls, Requests, Request, WireTypes
<1>4. requests \in [1..Len(calls) -> SoundRequests]
  BY <1>1, <1>3
<1>5. requests \in Seq(SoundRequests) /\ Len(requests) = Len(calls)
  BY <1>1, <1>4
<1>6. /\ requestNumber' = requestNumber + Len(calls)
      /\ requestCBHash' = held \cup {requests[i] : i \in {j \in DOMAIN calls : HasCallback(calls[j])}}
      /\ toServer' = IF LinkBroken THEN toServer ELSE toServer \o requests
  BY DEF Send
<1>7. toServer \in Seq(SoundRequests) /\ requestNumber \in Nat /\ requestCBHash \subseteq SoundRequests
  BY DEF WireTypes
<1>. HIDE DEF requests
<1>8. /\ toServer \o requests \in Seq(SoundRequests)
      /\ Len(toServer \o requests) = Len(toServer) + Len(calls)
      /\ \A i \in 1..Len(toServer) : (toServer \o requests)[i] = toServer[i]
      /\ \A i \in 1..Len(calls) : (toServer \o requests)[Len(toServer) + i] = requests[i]
  BY <1>5, <1>7, ConcatProperties, LenProperties
<1>9. WireTypes'
  BY <1>1, <1>3, <1>6, <1>7, <1>8 DEF WireTypes
<1>. QED
  BY <1>1, <1>2, <1>6, <1>8, <1>9

LEMMA TwoParts ==
    ASSUME NEW S, NEW a \in Seq(S), NEW b \in Seq(S), NEW t, t = a \o b
    PROVE  /\ t \in Seq(S)
           /\ Len(t) = Len(a) + Len(b) /\ Len(a) \in Nat /\ Len(b) \in Nat
           /\ \A i \in 1..Len(a) : t[i] = a[i]
           /\ \A i \in 1..Len(b) : t[Len(a) + i] = b[i]
BY ConcatProperties, LenProperties

LEMMA FourParts ==
    ASSUME NEW S, NEW a \in Seq(S), NEW b \in Seq(S), NEW c \in Seq(S), NEW d \in Seq(S),
           NEW t, t = a \o b \o c \o d
    PROVE  /\ t \in Seq(S)
           /\ Len(t) = Len(a) + Len(b) + Len(c) + Len(d)
           /\ \A i \in 1..Len(a) : t[i] = a[i]
           /\ \A i \in 1..Len(b) : t[Len(a) + i] = b[i]
           /\ \A i \in 1..Len(c) : t[Len(a) + Len(b) + i] = c[i]
           /\ \A i \in 1..Len(d) : t[Len(a) + Len(b) + Len(c) + i] = d[i]
<1>1. PICK ab : ab = a \o b
  OBVIOUS
<1>2. PICK abc : abc = ab \o c
  OBVIOUS
<1>3. ab \in Seq(S) /\ abc \in Seq(S) /\ t = abc \o d
  BY <1>1, <1>2
<1>4. /\ Len(ab) = Len(a) + Len(b) /\ Len(a) \in Nat /\ Len(b) \in Nat
      /\ \A i \in 1..Len(a) : ab[i] = a[i]
      /\ \A i \in 1..Len(b) : ab[Len(a) + i] = b[i]
  BY <1>1, TwoParts
<1>5. /\ Len(abc) = Len(ab) + Len(c) /\ Len(c) \in Nat
      /\ \A i \in 1..Len(ab) : abc[i] = ab[i]
      /\ \A i \in 1..Len(c) : abc[Len(ab) + i] = c[i]
  BY <1>2, <1>3, TwoParts
<1>6. /\ t \in Seq(S)
      /\ Len(t) = Len(abc) + Len(d) /\ Len(d) \in Nat
      /\ \A i \in 1..Len(abc) : t[i] = abc[i]
      /\ \A i \in 1..Len(d) : t[Len(abc) + i] = d[i]
  BY <1>3, TwoParts
<1>7. \A i \in 1..Len(a) : t[i] = a[i]
  BY <1>4, <1>5, <1>6
<1>8. \A i \in 1..Len(b) : t[Len(a) + i] = b[i]
  BY <1>4, <1>5, <1>6
<1>9. \A i \in 1..Len(c) : t[Len(a) + Len(b) + i] = c[i]
  BY <1>4, <1>5, <1>6
<1>10. Len(t) = Len(a) + Len(b) + Len(c) + Len(d) /\ Len(abc) = Len(a) + Len(b) + Len(c)
  BY <1>4, <1>5, <1>6
<1>. QED
  BY <1>6, <1>7, <1>8, <1>9, <1>10

\* What callers have handed to the connection.
IdTypes ==
    /\ getCounter \in 0..NumGets /\ outstandingGets \subseteq Gets
    /\ sentGets \subseteq Gets /\ getTimers \subseteq Gets
    /\ putCounter \in 0..NumPuts /\ outstandingPuts \subseteq Puts /\ sentPuts \subseteq Puts
    /\ listenCounter \in 0..NumListens /\ listens \subseteq Listens
    /\ unackedListensCount \in Int
    /\ onDisconnectCounter \in 0..NumOnDisconnects
    /\ onDisconnectQueue \in Seq(OnDisconnects)

LEMMA IdsAreFinite ==
    ASSUME IdTypes
    PROVE  /\ IsFiniteSet(outstandingGets \ sentGets) /\ outstandingGets \ sentGets \subseteq Nat
           /\ IsFiniteSet(outstandingPuts) /\ outstandingPuts \subseteq Nat
           /\ IsFiniteSet(listens) /\ listens \subseteq Nat
<1>1. /\ NumGets \in Int /\ NumPuts \in Int /\ NumListens \in Int
      /\ Gets \subseteq Nat /\ Puts \subseteq Nat /\ Listens \subseteq Nat
  BY BoundsAssumption DEF Gets, Puts, Listens
<1>2. IsFiniteSet(Gets) /\ IsFiniteSet(Puts) /\ IsFiniteSet(Listens)
  BY <1>1, FS_Interval DEF Gets, Puts, Listens
<1>. QED
  BY <1>1, <1>2, FS_Subset DEF IdTypes

\* restoreState sends each listen, each outstanding write in the order of the writes,
\* each unsent get and each queued onDisconnect operation, and nothing else.
Restoring(calls) ==
    /\ \A i \in 1..Len(calls) : calls[i].type \in {"listen", "put", "get", "onDisconnect"}
    /\ \A p \in outstandingPuts : \E i \in 1..Len(calls) : calls[i] = Call("put", p)
    /\ \A l \in listens : \E i \in 1..Len(calls) : calls[i] = Call("listen", l)
    /\ \A g \in outstandingGets \ sentGets : \E i \in 1..Len(calls) : calls[i] = Call("get", g)
    /\ \A i \in 1..Len(calls) :
          /\ calls[i].type = "put" => calls[i].id \in outstandingPuts
          /\ calls[i].type = "get" => calls[i].id \in outstandingGets \ sentGets
          /\ calls[i].type = "listen" => calls[i].id \in listens
          /\ calls[i].type = "onDisconnect" =>
                \E k \in DOMAIN onDisconnectQueue : onDisconnectQueue[k] = calls[i].id
    /\ \A i, j \in 1..Len(calls) :
          calls[i] = calls[j] /\ calls[i].type # "onDisconnect" => i = j
    /\ (\A i, j \in DOMAIN onDisconnectQueue : onDisconnectQueue[i] = onDisconnectQueue[j] => i = j)
       => \A i, j \in 1..Len(calls) : calls[i] = calls[j] => i = j
    /\ \A i, j \in 1..Len(calls) :
          i < j /\ calls[i].type = "put" /\ calls[j].type = "put" => calls[i].id < calls[j].id

LEMMA RestoreSends ==
    ASSUME IdTypes, NEW held, RestoreState(held)
    PROVE  \E calls \in Seq(SoundCalls), n \in Nat :
              /\ Send(held, calls) /\ Restoring(calls)
              /\ unackedListensCount' = unackedListensCount + n
              /\ n <= Len(calls)
              /\ \A i \in 1..Len(calls) : calls[i].type = "listen" <=> i <= n
<1>1. PICK ls \in Orders(listens), ps \in Ascending(outstandingPuts), gs \in UnsentGets :
        /\ Send(held, Calls("listen", ls) \o Calls("put", ps) \o Calls("get", gs)
                      \o Calls("onDisconnect", onDisconnectQueue))
        /\ unackedListensCount' = unackedListensCount + Len(ls)
  BY DEF RestoreState, Restore
<1>2. ps \in Orders(outstandingPuts) /\ \A i, j \in DOMAIN ps : i < j => ps[i] < ps[j]
  BY IdsAreFinite, AscendingEnumerates
<1>3. gs \in Orders(outstandingGets \ sentGets)
  BY IdsAreFinite, AscendingEnumerates DEF UnsentGets
<1>4. ls \in Seq(listens) /\ (\A i, j \in DOMAIN ls : ls[i] = ls[j] => i = j) /\ \A x \in listens : \E i \in DOMAIN ls : ls[i] = x
  BY IdsAreFinite, OrdersEnumerate
<1>5. ps \in Seq(outstandingPuts) /\ (\A i, j \in DOMAIN ps : ps[i] = ps[j] => i = j) /\ \A x \in outstandingPuts : \E i \in DOMAIN ps : ps[i] = x
  BY <1>2, IdsAreFinite, OrdersEnumerate
<1>6. gs \in Seq(outstandingGets \ sentGets) /\ (\A i, j \in DOMAIN gs : gs[i] = gs[j] => i = j)
      /\ \A x \in outstandingGets \ sentGets : \E i \in DOMAIN gs : gs[i] = x
  BY <1>3, IdsAreFinite, OrdersEnumerate
<1>7. onDisconnectQueue \in Seq(OnDisconnects) /\ OnDisconnects \subseteq Nat
  BY BoundsAssumption DEF IdTypes, OnDisconnects
<1>. DEFINE a == Calls("listen", ls)
            b == Calls("put", ps)
            c == Calls("get", gs)
            d == Calls("onDisconnect", onDisconnectQueue)
<1>8. /\ a \in Seq(SoundCalls) /\ Len(a) = Len(ls)
      /\ \A i \in 1..Len(ls) : a[i] = Call("listen", ls[i])
  <2>1. \A x \in listens : IdFits(Call("listen", x))
    BY DEF IdTypes, IdFits, Call
  <2>2. "listen" \in CallTypes /\ listens \in SUBSET Nat
    BY IdsAreFinite DEF CallTypes
  <2>. QED
    BY <1>4, <2>1, <2>2, CallsOfSequence
<1>9. /\ b \in Seq(SoundCalls) /\ Len(b) = Len(ps)
      /\ \A i \in 1..Len(ps) : b[i] = Call("put", ps[i])
  <2>1. \A x \in outstandingPuts : IdFits(Call("put", x))
    BY DEF IdTypes, IdFits, Call
  <2>2. "put" \in CallTypes /\ outstandingPuts \in SUBSET Nat
    BY IdsAreFinite DEF CallTypes
  <2>. QED
    BY <1>5, <2>1, <2>2, CallsOfSequence
<1>10. /\ c \in Seq(SoundCalls) /\ Len(c) = Len(gs)
       /\ \A i \in 1..Len(gs) : c[i] = Call("get", gs[i])
  <2>1. \A x \in outstandingGets \ sentGets : IdFits(Call("get", x))
    BY DEF IdTypes, IdFits, Call
  <2>2. "get" \in CallTypes /\ outstandingGets \ sentGets \in SUBSET Nat
    BY IdsAreFinite DEF CallTypes
  <2>. QED
    BY <1>6, <2>1, <2>2, CallsOfSequence
<1>11. /\ d \in Seq(SoundCalls) /\ Len(d) = Len(onDisconnectQueue)
       /\ \A i \in 1..Len(onDisconnectQueue) : d[i] = Call("onDisconnect", onDisconnectQueue[i])
  <2>1. \A x \in OnDisconnects : IdFits(Call("onDisconnect", x))
    BY DEF IdFits, Call
  <2>2. "onDisconnect" \in CallTypes
    BY DEF CallTypes
  <2>. QED
    BY <1>7, <2>1, <2>2, CallsOfSequence
<1>12. PICK t : t = a \o b \o c \o d
  OBVIOUS
<1>13. Send(held, t)
  BY <1>1, <1>12
<1>. HIDE DEF a, b, c, d
<1>14. a \in Seq(SoundCalls) /\ b \in Seq(SoundCalls) /\ c \in Seq(SoundCalls) /\ d \in Seq(SoundCalls)
  BY <1>8, <1>9, <1>10, <1>11
<1>15. /\ t \in Seq(SoundCalls)
       /\ Len(t) = Len(a) + Len(b) + Len(c) + Len(d)
       /\ \A i \in 1..Len(a) : t[i] = a[i]
       /\ \A i \in 1..Len(b) : t[Len(a) + i] = b[i]
       /\ \A i \in 1..Len(c) : t[Len(a) + Len(b) + i] = c[i]
       /\ \A i \in 1..Len(d) : t[Len(a) + Len(b) + Len(c) + i] = d[i]
  BY <1>12, <1>14, FourParts
<1>16. /\ Len(a) \in Nat /\ Len(b) \in Nat /\ Len(c) \in Nat /\ Len(d) \in Nat
       /\ Len(t) = Len(a) + Len(b) + Len(c) + Len(d)
       /\ DOMAIN ls = 1..Len(a) /\ DOMAIN ps = 1..Len(b) /\ DOMAIN gs = 1..Len(c)
       /\ DOMAIN onDisconnectQueue = 1..Len(d)
  BY <1>4, <1>5, <1>6, <1>7, <1>8, <1>9, <1>10, <1>11, <1>14, <1>15, LenProperties
\* The four parts of t.
<1>17. /\ \A i \in 1..Len(a) : t[i] = Call("listen", ls[i]) /\ ls[i] \in listens
       /\ \A i \in 1..Len(b) : t[Len(a) + i] = Call("put", ps[i]) /\ ps[i] \in outstandingPuts
       /\ \A i \in 1..Len(c) : /\ t[Len(a) + Len(b) + i] = Call("get", gs[i])
                               /\ gs[i] \in outstandingGets \ sentGets
       /\ \A i \in 1..Len(d) :
             t[Len(a) + Len(b) + Len(c) + i] = Call("onDisconnect", onDisconnectQueue[i])
  BY <1>4, <1>5, <1>6, <1>8, <1>9, <1>10, <1>11, <1>15, ElementOfSeq
<1>18. ASSUME NEW i \in 1..Len(t)
       PROVE  \/ i \in 1..Len(a)
              \/ \E k \in 1..Len(b) : i = Len(a) + k
              \/ \E k \in 1..Len(c) : i = Len(a) + Len(b) + k
              \/ \E k \in 1..Len(d) : i = Len(a) + Len(b) + Len(c) + k
  <2>1. CASE i <= Len(a)
    BY <1>16, <2>1
  <2>2. CASE i > Len(a) /\ i <= Len(a) + Len(b)
    <3>1. i - Len(a) \in 1..Len(b) /\ i = Len(a) + (i - Len(a))
      BY <1>16, <2>2
    <3>. QED
      BY <3>1
  <2>3. CASE i > Len(a) + Len(b) /\ i <= Len(a) + Len(b) + Len(c)
    <3>1. i - (Len(a) + Len(b)) \in 1..Len(c) /\ i = Len(a) + Len(b) + (i - (Len(a) + Len(b)))
      BY <1>16, <2>3
    <3>. QED
      BY <3>1
  <2>4. CASE i > Len(a) + Len(b) + Len(c)
    <3>1. /\ i - (Len(a) + Len(b) + Len(c)) \in 1..Len(d)
          /\ i = Len(a) + Len(b) + Len(c) + (i - (Len(a) + Len(b) + Len(c)))
      BY <1>16, <2>4
    <3>. QED
      BY <3>1
  <2>. QED
    BY <1>16, <2>1, <2>2, <2>3, <2>4
<1>19. ASSUME NEW i \in 1..Len(t)
       PROVE  \/ i <= Len(a) /\ \E l \in listens : t[i] = Call("listen", l)
              \/ \E k \in 1..Len(b) : /\ i = Len(a) + k /\ ps[k] \in outstandingPuts
                                      /\ t[i] = Call("put", ps[k])
              \/ i > Len(a) /\ \E g \in outstandingGets \ sentGets : t[i] = Call("get", g)
              \/ /\ i > Len(a)
                 /\ \E k \in DOMAIN onDisconnectQueue : t[i] = Call("onDisconnect", onDisconnectQueue[k])
  <2>1. CASE i \in 1..Len(a)
    BY <1>16, <1>17, <2>1
  <2>2. CASE \E k \in 1..Len(b) : i = Len(a) + k
    BY <1>17, <2>2
  <2>3. CASE \E k \in 1..Len(c) : i = Len(a) + Len(b) + k
    BY <1>16, <1>17, <2>3
  <2>4. CASE \E k \in 1..Len(d) : i = Len(a) + Len(b) + Len(c) + k
    BY <1>16, <1>17, <2>4
  <2>. QED
    BY <1>18, <2>1, <2>2, <2>3, <2>4
<1>20. /\ \A p \in outstandingPuts : \E i \in 1..Len(t) : t[i] = Call("put", p)
       /\ \A l \in listens : \E i \in 1..Len(t) : t[i] = Call("listen", l)
       /\ \A g \in outstandingGets \ sentGets : \E i \in 1..Len(t) : t[i] = Call("get", g)
  <2>1. ASSUME NEW p \in outstandingPuts PROVE \E i \in 1..Len(t) : t[i] = Call("put", p)
    <3>1. PICK k \in 1..Len(b) : ps[k] = p
      BY <1>5, <1>16
    <3>2. Len(a) + k \in 1..Len(t) /\ t[Len(a) + k] = Call("put", p)
      BY <3>1, <1>16, <1>17
    <3>. QED
      BY <3>2
  <2>2. ASSUME NEW l \in listens PROVE \E i \in 1..Len(t) : t[i] = Call("listen", l)
    <3>1. PICK k \in 1..Len(a) : ls[k] = l
      BY <1>4, <1>16
    <3>2. k \in 1..Len(t) /\ t[k] = Call("listen", l)
      BY <3>1, <1>16, <1>17
    <3>. QED
      BY <3>2
  <2>3. ASSUME NEW g \in outstandingGets \ sentGets PROVE \E i \in 1..Len(t) : t[i] = Call("get", g)
    <3>1. PICK k \in 1..Len(c) : gs[k] = g
      BY <1>6, <1>16
    <3>2. Len(a) + Len(b) + k \in 1..Len(t) /\ t[Len(a) + Len(b) + k] = Call("get", g)
      BY <3>1, <1>16, <1>17
    <3>. QED
      BY <3>2
  <2>. QED
    BY <2>1, <2>2, <2>3
<1>21. \A i \in 1..Len(t) :
         /\ t[i].type \in {"listen", "put", "get", "onDisconnect"}
         /\ t[i].type = "put" => t[i].id \in outstandingPuts
         /\ t[i].type = "get" => t[i].id \in outstandingGets \ sentGets
         /\ t[i].type = "listen" => t[i].id \in listens
         /\ t[i].type = "onDisconnect" =>
               \E k \in DOMAIN onDisconnectQueue : onDisconnectQueue[k] = t[i].id
         /\ t[i].type = "listen" <=> i <= Len(a)
  <2>. SUFFICES ASSUME NEW i \in 1..Len(t)
       PROVE  /\ t[i].type \in {"listen", "put", "get", "onDisconnect"}
              /\ t[i].type = "put" => t[i].id \in outstandingPuts
              /\ t[i].type = "get" => t[i].id \in outstandingGets \ sentGets
              /\ t[i].type = "listen" => t[i].id \in listens
              /\ t[i].type = "onDisconnect" =>
                    \E k \in DOMAIN onDisconnectQueue : onDisconnectQueue[k] = t[i].id
              /\ t[i].type = "listen" <=> i <= Len(a)
    OBVIOUS
  <2>. QED
    BY <1>16, <1>19 DEF Call
<1>22. ASSUME NEW i \in 1..Len(t), NEW j \in 1..Len(t), i < j, t[i].type = "put", t[j].type = "put"
       PROVE  t[i].id < t[j].id
  <2>4. ASSUME NEW x \in 1..Len(t), t[x].type = "put"
        PROVE  \E k \in 1..Len(b) : x = Len(a) + k /\ t[x] = Call("put", ps[k])
    <3>1. /\ \A l \in listens : t[x] # Call("listen", l)
          /\ \A g : t[x] # Call("get", g)
          /\ \A y : t[x] # Call("onDisconnect", y)
      BY <2>4 DEF Call
    <3>. QED
      BY <1>19, <3>1
  <2>1. PICK k \in 1..Len(b) : i = Len(a) + k /\ t[i] = Call("put", ps[k])
    BY <2>4, <1>22
  <2>2. PICK m \in 1..Len(b) : j = Len(a) + m /\ t[j] = Call("put", ps[m])
    BY <2>4, <1>22
  <2>3. k < m
    BY <1>16, <1>22, <2>1, <2>2
  <2>5. DOMAIN ps = 1..Len(b)
    BY <1>16
  <2>6. ps[k] < ps[m]
    BY <1>2, <2>3, <2>5
  <2>. QED
    BY <2>1, <2>2, <2>6 DEF Call
<1>27. /\ DOMAIN ls = 1..Len(a) /\ DOMAIN ps = 1..Len(b) /\ DOMAIN gs = 1..Len(c)
       /\ DOMAIN onDisconnectQueue = 1..Len(d)
  BY <1>16
<1>28. ASSUME NEW i \in 1..Len(t)
       PROVE  \/ t[i].type = "listen" /\ \E k \in DOMAIN ls : i = k /\ t[i].id = ls[k]
              \/ t[i].type = "put" /\ \E k \in DOMAIN ps : i = Len(a) + k /\ t[i].id = ps[k]
              \/ t[i].type = "get" /\ \E k \in DOMAIN gs : i = Len(a) + Len(b) + k /\ t[i].id = gs[k]
              \/ /\ t[i].type = "onDisconnect"
                 /\ \E k \in DOMAIN onDisconnectQueue :
                       i = Len(a) + Len(b) + Len(c) + k /\ t[i].id = onDisconnectQueue[k]
  <2>1. CASE i \in 1..Len(a)
    <3>1. t[i] = Call("listen", ls[i]) /\ i \in DOMAIN ls
      BY <1>17, <1>27, <2>1
    <3>. QED
      BY <3>1 DEF Call
  <2>2. ASSUME NEW k \in 1..Len(b), i = Len(a) + k
        PROVE  t[i].type = "put" /\ \E m \in DOMAIN ps : i = Len(a) + m /\ t[i].id = ps[m]
    <3>1. t[i] = Call("put", ps[k]) /\ k \in DOMAIN ps
      BY <1>17, <1>27, <2>2
    <3>2. t[i].type = "put" /\ t[i].id = ps[k]
      BY <3>1 DEF Call
    <3>. QED
      BY <2>2, <3>1, <3>2
  <2>3. ASSUME NEW k \in 1..Len(c), i = Len(a) + Len(b) + k
        PROVE  t[i].type = "get" /\ \E m \in DOMAIN gs : i = Len(a) + Len(b) + m /\ t[i].id = gs[m]
    <3>1. t[i] = Call("get", gs[k]) /\ k \in DOMAIN gs
      BY <1>17, <1>27, <2>3
    <3>2. t[i].type = "get" /\ t[i].id = gs[k]
      BY <3>1 DEF Call
    <3>. QED
      BY <2>3, <3>1, <3>2
  <2>4. ASSUME NEW k \in 1..Len(d), i = Len(a) + Len(b) + Len(c) + k
        PROVE  t[i].type = "onDisconnect" /\ \E m \in DOMAIN onDisconnectQueue : i = Len(a) + Len(b) + Len(c) + m /\ t[i].id = onDisconnectQueue[m]
    <3>1. t[i] = Call("onDisconnect", onDisconnectQueue[k]) /\ k \in DOMAIN onDisconnectQueue
      BY <1>17, <1>27, <2>4
    <3>2. t[i].type = "onDisconnect" /\ t[i].id = onDisconnectQueue[k]
      BY <3>1 DEF Call
    <3>. QED
      BY <2>4, <3>1, <3>2
  <2>. QED
    BY <1>18, <2>1, <2>2, <2>3, <2>4
<1>25. ASSUME NEW i \in 1..Len(t), NEW j \in 1..Len(t), t[i] = t[j],
              \/ t[i].type # "onDisconnect"
              \/ \A k, m \in DOMAIN onDisconnectQueue : onDisconnectQueue[k] = onDisconnectQueue[m] => k = m
       PROVE  i = j
  <2>1. CASE t[i].type = "listen"
    <3>1. PICK k \in DOMAIN ls : i = k /\ t[i].id = ls[k]
      BY <1>28, <2>1
    <3>2. PICK m \in DOMAIN ls : j = m /\ t[j].id = ls[m]
      BY <1>25, <1>28, <2>1
    <3>. QED
      BY <1>4, <1>25, <3>1, <3>2
  <2>2. CASE t[i].type = "put"
    <3>1. PICK k \in DOMAIN ps : i = Len(a) + k /\ t[i].id = ps[k]
      BY <1>28, <2>2
    <3>2. PICK m \in DOMAIN ps : j = Len(a) + m /\ t[j].id = ps[m]
      BY <1>25, <1>28, <2>2
    <3>. QED
      BY <1>5, <1>25, <3>1, <3>2
  <2>3. CASE t[i].type = "get"
    <3>1. PICK k \in DOMAIN gs : i = Len(a) + Len(b) + k /\ t[i].id = gs[k]
      BY <1>28, <2>3
    <3>2. PICK m \in DOMAIN gs : j = Len(a) + Len(b) + m /\ t[j].id = gs[m]
      BY <1>25, <1>28, <2>3
    <3>. QED
      BY <1>6, <1>25, <3>1, <3>2
  <2>4. CASE t[i].type = "onDisconnect"
    <3>1. PICK k \in DOMAIN onDisconnectQueue :
            i = Len(a) + Len(b) + Len(c) + k /\ t[i].id = onDisconnectQueue[k]
      BY <1>28, <2>4
    <3>2. PICK m \in DOMAIN onDisconnectQueue :
            j = Len(a) + Len(b) + Len(c) + m /\ t[j].id = onDisconnectQueue[m]
      BY <1>25, <1>28, <2>4
    <3>. QED
      BY <1>25, <2>4, <3>1, <3>2
  <2>. QED
    BY <1>28, <2>1, <2>2, <2>3, <2>4
<1>23. Restoring(t)
  <2>1. \A i, j \in 1..Len(t) : t[i] = t[j] /\ t[i].type # "onDisconnect" => i = j
    BY <1>25
  <2>2. (\A k, m \in DOMAIN onDisconnectQueue : onDisconnectQueue[k] = onDisconnectQueue[m] => k = m)
        => \A i, j \in 1..Len(t) : t[i] = t[j] => i = j
    BY <1>25
  <2>. QED
    BY <1>20, <1>21, <1>22, <2>1, <2>2 DEF Restoring
<1>24. Len(ls) = Len(a) /\ Len(a) <= Len(t)
  BY <1>8, <1>16
<1>. QED
  BY <1>1, <1>13, <1>15, <1>16, <1>21, <1>23, <1>24

-----------------------------------------------------------------------------
(* The queue.                                                              *)

LEMMA TailOfQueue ==
    ASSUME NEW S, NEW q \in Seq(S), q # <<>>
    PROVE  /\ Tail(q) \in Seq(S) /\ Head(q) \in S
           /\ 1 \in DOMAIN q /\ Head(q) = q[1]
           /\ \A i \in DOMAIN Tail(q) : i \in Nat /\ i >= 1 /\ i + 1 \in DOMAIN q /\ Tail(q)[i] = q[i + 1]
           /\ \A i \in DOMAIN q : i # 1 => i - 1 \in DOMAIN Tail(q) /\ Tail(q)[i - 1] = q[i]
<1>1. Len(q) \in Nat /\ Len(q) # 0 /\ DOMAIN q = 1..Len(q)
  BY LenProperties, EmptySeq
<1>2. /\ Tail(q) \in Seq(S) /\ Head(q) \in S /\ Head(q) = q[1]
      /\ Len(Tail(q)) = Len(q) - 1 /\ \A i \in 1..Len(Tail(q)) : Tail(q)[i] = q[i + 1]
  BY HeadTailProperties
<1>3. DOMAIN Tail(q) = 1..(Len(q) - 1)
  BY <1>2, LenProperties
<1>4. \A i \in DOMAIN q : i # 1 => i - 1 \in DOMAIN Tail(q) /\ Tail(q)[i - 1] = q[i]
  BY <1>1, <1>2, <1>3
<1>. QED
  BY <1>1, <1>2, <1>3, <1>4

LEMMA AppendToQueue ==
    ASSUME NEW S, NEW q \in Seq(S), NEW block \in S
    PROVE  /\ Append(q, block) \in Seq(S)
           /\ Len(q) \in Nat /\ DOMAIN q = 1..Len(q)
           /\ DOMAIN Append(q, block) = 1..(Len(q) + 1)
           /\ \A i \in DOMAIN q : Append(q, block)[i] = q[i]
           /\ Append(q, block)[Len(q) + 1] = block
BY LenProperties, AppendProperties

LEMMA AnnouncementsOnly ==
    ASSUME NEW pending \in Seq(Blocks)
    PROVE  /\ Announcements(pending) \in Seq(Blocks)
           /\ \A i \in DOMAIN Announcements(pending) : Announcements(pending)[i].type = "onConnect"
<1>. DEFINE own == {i \in DOMAIN pending : pending[i].type = "onConnect"}
<1>1. DOMAIN pending = 1..Len(pending) /\ Len(pending) \in Nat
  BY LenProperties
<1>2. IsFiniteSet(DOMAIN pending)
  BY <1>1, FS_Interval
<1>3. Cardinality(own) \in Nat
  BY <1>2, FS_Subset, FS_CardinalityType
<1>4. Block("onConnect") \in Blocks /\ Block("onConnect").type = "onConnect"
  BY DEF Block, Blocks
<1>5. Announcements(pending) = [n \in 1..Cardinality(own) |-> Block("onConnect")]
  BY DEF Announcements
<1>. HIDE DEF own
<1>. QED
  BY <1>3, <1>4, <1>5

-----------------------------------------------------------------------------
(* Types.                                                                  *)

LEMMA IdStep == IdTypes /\ [Next]_vars => IdTypes'
<1>. SUFFICES ASSUME IdTypes, [Next]_vars PROVE IdTypes'
  OBVIOUS
<1>. USE BoundsAssumption DEF Gets, Puts, Listens, OnDisconnects
<1>1. /\ getCounter' \in 0..NumGets /\ outstandingGets' \subseteq Gets
      /\ sentGets' \subseteq Gets /\ getTimers' \subseteq Gets
  <2>1. CASE UNCHANGED getVars
    BY <2>1 DEF getVars, IdTypes
  <2>2. CASE Restores
    BY <2>2 DEF Restores, RestoreState, Restore, IdTypes
  <2>3. CASE OnGetAnswer
    BY <2>3 DEF OnGetAnswer, IdTypes
  <2>4. CASE GetData
    <3>1. getCounter + 1 \in Gets /\ getCounter' = getCounter + 1
      BY <2>4 DEF GetData, IdTypes
    <3>2. /\ outstandingGets' = outstandingGets \cup {getCounter + 1}
          /\ getTimers' \subseteq getTimers \cup {getCounter + 1}
          /\ sentGets' \subseteq sentGets \cup {getCounter + 1}
      BY <2>4 DEF GetData
    <3>. QED
      BY <3>1, <3>2 DEF IdTypes
  <2>5. CASE \E get \in Gets : GetTimeout(get)
    BY <2>5 DEF GetTimeout, IdTypes
  <2>. QED
    BY <2>1, <2>2, <2>3, <2>4, <2>5, GetFrame
<1>2. putCounter' \in 0..NumPuts /\ outstandingPuts' \subseteq Puts /\ sentPuts' \subseteq Puts
  <2>1. CASE UNCHANGED putVars
    BY <2>1 DEF putVars, IdTypes
  <2>2. CASE Restores
    BY <2>2 DEF Restores, RestoreState, Restore, IdTypes
  <2>3. CASE Drop
    BY <2>3 DEF Drop, OnDisconnect, CancelSentTransactions, IdTypes
  <2>4. CASE OnPutAnswer
    BY <2>4 DEF OnPutAnswer, IdTypes
  <2>5. CASE OnListenAnswer
    BY <2>5 DEF OnListenAnswer, IdTypes
  <2>6. CASE PutData
    <3>1. putCounter + 1 \in Puts /\ putCounter' = putCounter + 1
      BY <2>6 DEF PutData, IdTypes
    <3>2. /\ outstandingPuts' = outstandingPuts \cup {putCounter + 1}
          /\ sentPuts' \subseteq sentPuts \cup {putCounter + 1}
      BY <2>6 DEF PutData
    <3>. QED
      BY <3>1, <3>2 DEF IdTypes
  <2>7. CASE PurgeOutstandingWrites
    BY <2>7 DEF PurgeOutstandingWrites, IdTypes
  <2>. QED
    BY <2>1, <2>2, <2>3, <2>4, <2>5, <2>6, <2>7, PutFrame
<1>3. /\ listenCounter' \in 0..NumListens /\ listens' \subseteq Listens
      /\ unackedListensCount' \in Int
  <2>1. CASE UNCHANGED listenVars
    BY <2>1 DEF listenVars, IdTypes
  <2>2. CASE Restores
    <3>1. listenCounter' = listenCounter /\ listens' = listens
      BY <2>2 DEF Restores, RestoreState, Restore
    <3>2. \E n \in Nat : unackedListensCount' = unackedListensCount + n
      BY <2>2, RestoreSends DEF Restores
    <3>. QED
      BY <3>1, <3>2 DEF IdTypes
  <2>3. CASE Drop
    <3>1. unackedListensCount' = 0 /\ UNCHANGED <<listenCounter, listens>>
      BY <2>3 DEF Drop, OnDisconnect
    <3>. QED
      BY <3>1 DEF IdTypes
  <2>4. CASE OnListenAnswer
    <3>1. /\ listenCounter' = listenCounter /\ listens' \subseteq listens
          /\ unackedListensCount' = unackedListensCount - 1
      BY <2>4 DEF OnListenAnswer
    <3>. QED
      BY <3>1 DEF IdTypes
  <2>5. CASE OnListenRevoked
    BY <2>5 DEF OnListenRevoked, IdTypes
  <2>6. CASE Listen
    BY <2>6 DEF Listen, IdTypes
  <2>7. CASE \E listen \in Listens : Unlisten(listen)
    BY <2>7 DEF Unlisten, IdTypes
  <2>. QED
    BY <2>1, <2>2, <2>3, <2>4, <2>5, <2>6, <2>7, ListenFrame
<1>4. onDisconnectCounter' \in 0..NumOnDisconnects /\ onDisconnectQueue' \in Seq(OnDisconnects)
  <2>1. CASE UNCHANGED onDisconnectVars
    BY <2>1 DEF onDisconnectVars, IdTypes
  <2>2. CASE Restores
    <3>1. onDisconnectCounter' = onDisconnectCounter /\ onDisconnectQueue' = <<>>
      BY <2>2 DEF Restores, RestoreState, Restore
    <3>. QED
      BY <3>1 DEF IdTypes
  <2>3. CASE OnOnDisconnectAnswer
    BY <2>3 DEF OnOnDisconnectAnswer, IdTypes
  <2>4. CASE OnDisconnectOperation
    <3>1. onDisconnectCounter + 1 \in OnDisconnects /\ onDisconnectCounter' = onDisconnectCounter + 1
      BY <2>4 DEF OnDisconnectOperation, IdTypes
    <3>2. onDisconnectQueue' \in {onDisconnectQueue, Append(onDisconnectQueue, onDisconnectCounter + 1)}
      BY <2>4 DEF OnDisconnectOperation
    <3>3. Append(onDisconnectQueue, onDisconnectCounter + 1) \in Seq(OnDisconnects)
      BY <3>1, AppendProperties DEF IdTypes
    <3>. QED
      BY <3>1, <3>2, <3>3 DEF IdTypes
  <2>5. CASE PurgeOutstandingWrites
    BY <2>5 DEF PurgeOutstandingWrites, IdTypes
  <2>. QED
    BY <2>1, <2>2, <2>3, <2>4, <2>5, OnDisconnectFrame
<1>. QED
  BY <1>1, <1>2, <1>3, <1>4 DEF IdTypes

StateTypes ==
    /\ connectionState \in
           {"Disconnected", "GettingToken", "Connecting", "Authenticating", "Connected"}
    /\ interruptReasons \subseteq Reasons
    /\ realtime \in {"none", "connecting", "connected"}
    /\ fetches \subseteq {"latest", "stale"}
    /\ fetchForced \in BOOLEAN /\ authToken \in BOOLEAN /\ forceTokenRefreshes \in BOOLEAN
    /\ scheduledRetry \in {NoRetry} \cup [delay : 0..MaxDelay, force : BOOLEAN]
    /\ lastWasSuccess \in BOOLEAN /\ currentRetryDelay \in 0..MaxDelay
    /\ infoConnected \in BOOLEAN
    /\ refreshes \in 0..MaxRefreshes
    /\ tokenRevoked \in BOOLEAN

\* The variables of the retry helper.
RetryTyped ==
    /\ scheduledRetry \in {NoRetry} \cup [delay : 0..MaxDelay, force : BOOLEAN]
    /\ lastWasSuccess \in BOOLEAN /\ currentRetryDelay \in 0..MaxDelay
    /\ forceTokenRefreshes \in BOOLEAN

LEMMA StateFrame ==
    [Next]_vars => \/ UNCHANGED <<retryVars, authVars, stateVars, infoConnected>>
                   \/ Ends \/ OnReady \/ OnConnect
                   \/ \E type \in {"auth", "reauth"} : OnAuthAccepted(type)
                   \/ Open \/ GoOnline \/ WakeUp \/ RunRetry \/ Fetching
                   \/ \E token \in BOOLEAN : RefreshAuthToken(token)
                   \/ RefreshAppCheckToken
<1>1. CASE Worker
  BY <1>1 DEF Worker, Ends, OnGetAnswer, OnPutAnswer, OnListenAnswer, OnOnDisconnectAnswer,
     OnAppCheckAccepted, OnListenRevoked
<1>2. CASE Api
  BY <1>2 DEF Api, Ends, GetData, PutData, PurgeOutstandingWrites, Listen, Unlisten, OnDisconnectOperation
<1>3. CASE Timers
  BY <1>3 DEF Timers, GetTimeout
<1>4. CASE Server \/ LinkBreaks
  BY <1>4 DEF Server, SendHello, Publish, ServerAnswers, ServerCancels, ServerSends, LinkBreaks
<1>5. CASE UNCHANGED vars
  BY <1>5 DEF vars
<1>. QED
  BY <1>1, <1>2, <1>3, <1>4, <1>5 DEF Next

LEMMA RetryScheduled ==
    ASSUME NEW success \in BOOLEAN, NEW force \in BOOLEAN, RetryTyped,
           TryScheduleReconnect(success, force)
    PROVE  RetryTyped' /\ scheduledRetry' # NoRetry
<1>1. currentRetryDelay \in 0..MaxDelay /\ MaxDelay \in Nat
  BY BoundsAssumption DEF RetryTyped
<1>2. NextDelay(currentRetryDelay) \in 0..MaxDelay
  BY <1>1 DEF NextDelay
<1>3. PICK delay \in 0..MaxDelay, wait \in 0..MaxDelay :
        currentRetryDelay' = delay /\ scheduledRetry' = [delay |-> wait, force |-> force]
  <2>1. CASE success
    BY <2>1, <1>1 DEF TryScheduleReconnect
  <2>2. CASE ~success /\ lastWasSuccess
    BY <2>2, <1>1 DEF TryScheduleReconnect
  <2>3. CASE ~success /\ ~lastWasSuccess
    BY <2>3, <1>2 DEF TryScheduleReconnect
  <2>. QED
    BY <2>1, <2>2, <2>3
<1>4. lastWasSuccess' = FALSE /\ forceTokenRefreshes' = FALSE
  BY DEF TryScheduleReconnect
<1>5. scheduledRetry' # NoRetry
  BY <1>1, <1>3 DEF NoRetry
<1>. QED
  BY <1>3, <1>4, <1>5 DEF RetryTyped

\* The end of a connection: a retry is scheduled unless something interrupts.
LEMMA DisconnectedState ==
    ASSUME StateTypes, NEW pending, NEW reset \in BOOLEAN, NEW force \in BOOLEAN,
           Disconnected(pending, reset, force)
    PROVE  /\ RetryTyped'
           /\ connectionState' = "Disconnected" /\ realtime' = "none" /\ infoConnected' = FALSE
           /\ UNCHANGED interruptReasons
           /\ shouldReconnect => scheduledRetry' # NoRetry
           /\ ~shouldReconnect => UNCHANGED scheduledRetry
<1>1. RetryTyped
  BY DEF StateTypes, RetryTyped
<1>2. /\ connectionState' = "Disconnected" /\ realtime' = "none" /\ infoConnected' = FALSE
      /\ UNCHANGED interruptReasons
  BY DEF Disconnected, OnDisconnect
<1>3. CASE shouldReconnect
  <2>1. PICK longLived \in {FALSE, realtime = "connected"} : TryScheduleReconnect(reset \/ longLived, force)
    BY <1>3 DEF Disconnected
  <2>2. (reset \/ longLived) \in BOOLEAN
    OBVIOUS
  <2>. QED
    BY <1>1, <1>2, <1>3, <2>1, <2>2, RetryScheduled
<1>4. CASE ~shouldReconnect
  <2>1. forceTokenRefreshes' = force /\ UNCHANGED <<scheduledRetry, lastWasSuccess, currentRetryDelay>>
    BY <1>4 DEF Disconnected
  <2>. QED
    BY <1>1, <1>2, <1>4, <2>1 DEF RetryTyped
<1>. QED
  BY <1>3, <1>4

\* An interruption: no retry is left.
LEMMA InterruptedState ==
    ASSUME StateTypes, NEW reason \in Reasons, NEW pending, InterruptForReason(reason, pending)
    PROVE  /\ RetryTyped'
           /\ connectionState' = "Disconnected" /\ realtime' = "none" /\ infoConnected' \in BOOLEAN
           /\ interruptReasons' = interruptReasons \cup {reason}
           /\ scheduledRetry' = IF realtime = "none" THEN NoRetry ELSE scheduledRetry
           /\ UNCHANGED authVars
<1>1. /\ interruptReasons' = interruptReasons \cup {reason}
      /\ lastWasSuccess' = TRUE /\ currentRetryDelay' = 0
      /\ UNCHANGED authVars /\ UNCHANGED forceTokenRefreshes
  BY DEF InterruptForReason
<1>2. CASE realtime # "none"
  <2>1. OnDisconnect(pending) /\ UNCHANGED scheduledRetry
    BY <1>2 DEF InterruptForReason
  <2>. QED
    <3>1. connectionState' = "Disconnected" /\ realtime' = "none" /\ infoConnected' = FALSE
      BY <2>1 DEF OnDisconnect
    <3>2. RetryTyped'
      BY <1>1, <2>1, BoundsAssumption DEF StateTypes, RetryTyped
    <3>. QED
      BY <1>1, <1>2, <2>1, <3>1, <3>2
<1>3. CASE realtime = "none"
  <2>1. /\ scheduledRetry' = NoRetry /\ connectionState' = "Disconnected"
        /\ realtime' = realtime /\ infoConnected' = infoConnected
    BY <1>3 DEF InterruptForReason
  <2>. QED
    BY <1>1, <1>3, <2>1, BoundsAssumption DEF StateTypes, RetryTyped
<1>. QED
  BY <1>2, <1>3

LEMMA StateStep == StateTypes /\ [Next]_vars => StateTypes'
<1>. SUFFICES ASSUME StateTypes, [Next]_vars PROVE StateTypes'
  OBVIOUS
<1>1. RetryTyped
  BY DEF StateTypes, RetryTyped
<1>2. CASE UNCHANGED <<retryVars, authVars, stateVars, infoConnected>>
  BY <1>2 DEF retryVars, authVars, stateVars, StateTypes
<1>3. ASSUME NEW reason \in Reasons, NEW pending, InterruptForReason(reason, pending)
      PROVE  StateTypes'
  BY <1>3, InterruptedState DEF authVars, StateTypes, RetryTyped
<1>4. ASSUME NEW pending, NEW reset \in BOOLEAN, NEW force \in BOOLEAN,
             Disconnected(pending, reset, force),
             UNCHANGED <<fetches, fetchForced, refreshes>>,
             authToken' \in BOOLEAN, tokenRevoked' \in BOOLEAN
      PROVE  StateTypes'
  BY <1>4, DisconnectedState DEF StateTypes, RetryTyped
<1>5. CASE Ends
  <2>1. CASE OnKill
    BY <1>3, <2>1 DEF OnKill, Reasons
  <2>2. CASE GoOffline
    BY <1>3, <2>2 DEF GoOffline, Reasons
  <2>3. CASE OnAuthRevoked
    BY <1>4, <2>3 DEF OnAuthRevoked
  <2>4. CASE OnTokenRefused
    BY <1>4, <2>4 DEF OnTokenRefused
  <2>5. ASSUME NEW type \in {"closed", "reset"}, OnClosed(type) PROVE StateTypes'
    <3>1. forceTokenRefreshes \in BOOLEAN /\ authToken \in BOOLEAN /\ tokenRevoked \in BOOLEAN
      BY DEF StateTypes
    <3>2. Disconnected(Tail(workQueue), type = "reset", forceTokenRefreshes) /\ UNCHANGED authVars
      BY <2>5 DEF OnClosed
    <3>. QED
      BY <1>4, <3>1, <3>2 DEF authVars
  <2>. QED
    BY <1>5, <2>1, <2>2, <2>3, <2>4, <2>5 DEF Ends
<1>6. CASE OnReady
  <2>1. connectionState' \in {"Connected", "Authenticating"}
    BY <1>6 DEF OnReady, RestoreAuth
  <2>2. realtime' = "connected" /\ UNCHANGED <<interruptReasons, retryVars, authVars, infoConnected>>
    BY <1>6 DEF OnReady
  <2>. QED
    BY <2>1, <2>2 DEF StateTypes, retryVars, authVars
<1>7. CASE OnConnect
  BY <1>7 DEF OnConnect, StateTypes, retryVars, authVars, stateVars
<1>8. CASE \E type \in {"auth", "reauth"} : OnAuthAccepted(type)
  <2>1. /\ connectionState' = "Connected"
        /\ UNCHANGED <<interruptReasons, realtime, retryVars, authVars, infoConnected>>
    BY <1>8 DEF OnAuthAccepted
  <2>. QED
    BY <2>1 DEF StateTypes, retryVars, authVars
<1>9. CASE Open \/ GoOnline
  <2>1. PICK reason \in Reasons : Resume(reason)
    BY <1>9 DEF Open, GoOnline, Reasons
  <2>2. UNCHANGED <<connectionState, realtime, authVars, infoConnected>>
    BY <2>1 DEF Resume
  <2>3. interruptReasons' \subseteq Reasons
    BY <2>1 DEF Resume, StateTypes
  <2>4. TryScheduleReconnect(FALSE, forceTokenRefreshes) \/ UNCHANGED retryVars
    BY <2>1 DEF Resume
  <2>5. RetryTyped'
    <3>1. CASE TryScheduleReconnect(FALSE, forceTokenRefreshes)
      BY <1>1, <3>1, RetryScheduled DEF RetryTyped
    <3>2. CASE UNCHANGED retryVars
      BY <1>1, <3>2 DEF RetryTyped, retryVars
    <3>. QED
      BY <2>4, <3>1, <3>2
  <2>. QED
    BY <2>2, <2>3, <2>5 DEF StateTypes, RetryTyped, authVars
<1>10. CASE WakeUp
  <2>1. UNCHANGED <<stateVars, authVars, infoConnected>>
    BY <1>10 DEF WakeUp
  <2>2. \/ TryScheduleReconnect(TRUE, forceTokenRefreshes)
        \/ /\ lastWasSuccess' = TRUE /\ currentRetryDelay' = 0
           /\ UNCHANGED <<scheduledRetry, forceTokenRefreshes>>
    BY <1>10 DEF WakeUp
  <2>3. RetryTyped'
    <3>1. CASE TryScheduleReconnect(TRUE, forceTokenRefreshes)
      BY <1>1, <3>1, RetryScheduled DEF RetryTyped
    <3>2. CASE /\ lastWasSuccess' = TRUE /\ currentRetryDelay' = 0
               /\ UNCHANGED <<scheduledRetry, forceTokenRefreshes>>
      BY <1>1, <3>2, BoundsAssumption DEF RetryTyped
    <3>. QED
      BY <2>2, <3>1, <3>2
  <2>. QED
    BY <2>1, <2>3 DEF StateTypes, RetryTyped, authVars, stateVars
<1>11. CASE RunRetry
  BY <1>11 DEF StateTypes, RunRetry, OpenNetworkConnection, NoRetry
<1>12. CASE Fetching
  <2>1. CASE FetchFails
    <3>1. UNCHANGED <<fetchForced, authToken, refreshes, tokenRevoked, interruptReasons, realtime, infoConnected>>
      BY <2>1 DEF FetchFails
    <3>2. connectionState' = "Disconnected" /\ fetches' \subseteq fetches
      BY <2>1 DEF FetchFails
    <3>3. TryScheduleReconnect(FALSE, forceTokenRefreshes) \/ UNCHANGED retryVars
      BY <2>1 DEF FetchFails
    <3>4. RetryTyped'
      <4>1. CASE TryScheduleReconnect(FALSE, forceTokenRefreshes)
        BY <1>1, <4>1, RetryScheduled DEF RetryTyped
      <4>2. CASE UNCHANGED retryVars
        BY <1>1, <4>2 DEF RetryTyped, retryVars
      <4>. QED
        BY <3>3, <4>1, <4>2
    <3>. QED
      BY <3>1, <3>2, <3>4 DEF StateTypes, RetryTyped
  <2>2. CASE FetchStale
    BY <2>2 DEF FetchStale, StateTypes, retryVars, stateVars
  <2>3. ASSUME NEW token \in BOOLEAN, FetchDone(token) PROVE StateTypes'
    <3>1. /\ fetches' \subseteq fetches /\ tokenRevoked' \in BOOLEAN
          /\ UNCHANGED <<fetchForced, refreshes, interruptReasons, retryVars, infoConnected>>
      BY <2>3 DEF FetchDone
    <3>2. \/ connectionState' = "Connecting" /\ realtime' = "connecting" /\ authToken' = token
          \/ UNCHANGED <<connectionState, realtime, authToken>>
      BY <2>3 DEF FetchDone, OpenNetworkConnection
    <3>. QED
      BY <3>1, <3>2 DEF StateTypes, retryVars
  <2>. QED
    BY <1>12, <2>1, <2>2, <2>3 DEF Fetching
<1>13. CASE \E token \in BOOLEAN : RefreshAuthToken(token)
  <2>1. /\ refreshes < MaxRefreshes /\ refreshes' = refreshes + 1
        /\ authToken' \in BOOLEAN /\ tokenRevoked' = FALSE
        /\ UNCHANGED <<fetches, fetchForced, retryVars, stateVars, infoConnected>>
    BY <1>13 DEF RefreshAuthToken
  <2>2. refreshes' \in 0..MaxRefreshes
    BY <2>1, BoundsAssumption DEF StateTypes
  <2>. QED
    BY <2>1, <2>2 DEF StateTypes, retryVars, stateVars
<1>14. CASE RefreshAppCheckToken
  <2>1. /\ refreshes < MaxRefreshes /\ refreshes' = refreshes + 1
        /\ UNCHANGED <<fetches, fetchForced, authToken, tokenRevoked, retryVars, stateVars, infoConnected>>
    BY <1>14 DEF RefreshAppCheckToken
  <2>. QED
    BY <2>1, BoundsAssumption DEF StateTypes, retryVars, stateVars
<1>. QED
  BY <1>2, <1>5, <1>6, <1>7, <1>8, <1>9, <1>10, <1>11, <1>12, <1>13, <1>14, StateFrame

-----------------------------------------------------------------------------
(* The steps that touch the wire or the queue.                             *)

\* A call of the API is sent: at any time once there is a connection, or only when
\* the credential is accepted.
ApiSends ==
    \E call \in SoundCalls :
        /\ connected /\ call.type # "auth"
        /\ call.type \in {"put", "get", "onDisconnect"} => canSend
        /\ Send(requestCBHash, <<call>>)
        /\ UNCHANGED <<workQueue, stateVars>>

\* A block that is no answer and leaves the connection as it is is processed.
Pop ==
    /\ workQueue # <<>> /\ Head(workQueue).type \notin {"answer", "closed"}
    /\ workQueue' = Tail(workQueue)
    /\ UNCHANGED wireVars

\* An answer other than to the first credential is processed.
Answers ==
    \E request \in requestCBHash :
        /\ HeadIs("answer") /\ request.rn = Head(workQueue).rn /\ request.call.type # "auth"
        /\ Consume(request)

\* A message of the server that is no answer.
ServerSpeaks ==
    \E block \in Blocks :
        /\ Reachable
        /\ block.type \notin {"answer", "closed", "onConnect"}
        /\ workQueue' = Append(workQueue, block)
        /\ UNCHANGED <<wireVars, stateVars>>

LEMMA ApiCallsSent ==
    ASSUME IdTypes,
           \/ GetData \/ PutData \/ Listen \/ OnDisconnectOperation \/ RefreshAppCheckToken
           \/ \E listen \in Listens : Unlisten(listen)
           \/ \E token \in BOOLEAN : RefreshAuthToken(token)
    PROVE  ApiSends \/ UNCHANGED <<wireVars, workQueue>>
<1>1. CASE GetData
  <2>1. Call("get", getCounter + 1) \in SoundCalls
    BY <1>1, BoundsAssumption DEF GetData, IdTypes, SoundCalls, Call, IdFits, CallTypes, Gets
  <2>. QED
    BY <1>1, <2>1 DEF GetData, ApiSends, Call, canSend, connected
<1>2. CASE PutData
  <2>1. Call("put", putCounter + 1) \in SoundCalls
    BY <1>2, BoundsAssumption DEF PutData, IdTypes, SoundCalls, Call, IdFits, CallTypes, Puts
  <2>. QED
    BY <1>2, <2>1 DEF PutData, ApiSends, Call, canSend, connected
<1>3. CASE Listen
  <2>1. Call("listen", listenCounter + 1) \in SoundCalls
    BY <1>3, BoundsAssumption DEF Listen, IdTypes, SoundCalls, Call, IdFits, CallTypes, Listens
  <2>. QED
    BY <1>3, <2>1 DEF Listen, ApiSends, Call
<1>4. CASE OnDisconnectOperation
  <2>1. Call("onDisconnect", onDisconnectCounter + 1) \in SoundCalls
    BY <1>4, BoundsAssumption DEF OnDisconnectOperation, IdTypes, SoundCalls, Call, IdFits, CallTypes, OnDisconnects
  <2>. QED
    BY <1>4, <2>1 DEF OnDisconnectOperation, ApiSends, Call, canSend, connected
<1>5. CASE RefreshAppCheckToken
  <2>1. Call("appcheck", 0) \in SoundCalls
    BY DEF SoundCalls, Call, IdFits, CallTypes
  <2>. QED
    BY <1>5, <2>1 DEF RefreshAppCheckToken, ApiSends, Call
<1>6. ASSUME NEW listen \in Listens, Unlisten(listen) PROVE ApiSends \/ UNCHANGED <<wireVars, workQueue>>
  <2>1. Call("unlisten", listen) \in SoundCalls
    BY BoundsAssumption DEF SoundCalls, Call, IdFits, CallTypes, Listens
  <2>. QED
    BY <1>6, <2>1 DEF Unlisten, ApiSends, Call
<1>7. ASSUME NEW token \in BOOLEAN, RefreshAuthToken(token) PROVE ApiSends \/ UNCHANGED <<wireVars, workQueue>>
  <2>1. Call("reauth", 0) \in SoundCalls /\ Call("unauth", 0) \in SoundCalls
    BY DEF SoundCalls, Call, IdFits, CallTypes
  <2>. QED
    BY <1>7, <2>1 DEF RefreshAuthToken, ApiSends, Call
<1>. QED
  BY <1>1, <1>2, <1>3, <1>4, <1>5, <1>6, <1>7

LEMMA WireFrame ==
    IdTypes /\ [Next]_vars =>
        \/ UNCHANGED <<wireVars, workQueue>>
        \/ Drop \/ Pop \/ Answers \/ ApiSends
        \/ OnReady \/ OnAuthAccepted("auth")
        \/ ServerSpeaks \/ LinkBreaks
        \/ \E ok \in BOOLEAN : ServerAnswers(ok)
<1>. SUFFICES ASSUME IdTypes, [Next]_vars
     PROVE  \/ UNCHANGED <<wireVars, workQueue>>
            \/ Drop \/ Pop \/ Answers \/ ApiSends
            \/ OnReady \/ OnAuthAccepted("auth")
            \/ ServerSpeaks \/ LinkBreaks
            \/ \E ok \in BOOLEAN : ServerAnswers(ok)
  OBVIOUS
<1>1. Ends => Drop \/ Pop \/ UNCHANGED <<wireVars, workQueue>>
  BY EndsByDropOrGiveUp DEF GiveUp, Pop, HeadIs
<1>2. CASE OnConnect \/ OnListenRevoked
  BY <1>2 DEF OnConnect, OnListenRevoked, Pop, HeadIs
<1>3. CASE \/ OnGetAnswer \/ OnPutAnswer \/ OnListenAnswer \/ OnOnDisconnectAnswer
           \/ OnAppCheckAccepted \/ OnAuthAccepted("reauth")
  BY <1>3 DEF OnGetAnswer, OnPutAnswer, OnListenAnswer, OnOnDisconnectAnswer, OnAppCheckAccepted,
     OnAuthAccepted, Answered, Answers
<1>4. CASE Worker
  BY <1>1, <1>2, <1>3, <1>4 DEF Worker, Ends
<1>5. CASE Api
  BY <1>1, <1>5, ApiCallsSent DEF Api, Ends, PurgeOutstandingWrites, GoOnline, Resume
<1>6. CASE Open \/ WakeUp \/ Timers \/ Fetching
  BY <1>6 DEF Open, Resume, WakeUp, Timers, RunRetry, GetTimeout, Fetching, FetchFails,
     FetchStale, FetchDone
<1>7. CASE Server \/ LinkBreaks
  <2>1. CASE SendHello
    <3>1. Block("hello") \in Blocks /\ Block("hello").type = "hello"
      BY DEF Block, Blocks
    <3>. QED
      BY <2>1, <3>1 DEF SendHello, Receive, ServerSpeaks
  <2>2. ASSUME NEW path \in Paths, ServerCancels(path) PROVE ServerSpeaks
    <3>1. Cancelled(path) \in Blocks /\ Cancelled(path).type = "cancelled"
      BY DEF Cancelled, Blocks
    <3>. QED
      BY <2>2, <3>1 DEF ServerCancels, Receive, ServerSpeaks
  <2>3. ASSUME NEW type \in Ending, ServerSends(type) PROVE ServerSpeaks
    <3>1. Block(type) \in Blocks /\ Block(type).type = type /\ type \notin {"answer", "closed", "onConnect"}
      BY DEF Block, Blocks, Ending
    <3>. QED
      BY <2>3, <3>1 DEF ServerSends, Receive, ServerSpeaks
  <2>4. CASE Publish
    BY <2>4 DEF Publish
  <2>. QED
    BY <1>7, <2>1, <2>2, <2>3, <2>4 DEF Server
<1>8. CASE UNCHANGED vars
  BY <1>8 DEF vars
<1>. QED
  BY <1>4, <1>5, <1>6, <1>7, <1>8 DEF Next

\* After the handshake either the state is restored or the credential is sent.
LEMMA ReadySends ==
    ASSUME IdTypes, OnReady
    PROVE  \E calls \in Seq(SoundCalls) :
              /\ Send(requestCBHash, calls)
              /\ \/ Restoring(calls) /\ connectionState' = "Connected"
                 \/ calls = <<Call("auth", 0)>> /\ connectionState' = "Authenticating"
<1>1. CASE connectionState' = "Connected" /\ RestoreState(requestCBHash)
  BY <1>1, RestoreSends
<1>2. CASE connectionState' = "Authenticating" /\ Send(requestCBHash, <<Call("auth", 0)>>)
  <2>1. Call("auth", 0) \in SoundCalls
    BY DEF SoundCalls, Call, IdFits, CallTypes
  <2>2. <<Call("auth", 0)>> \in Seq(SoundCalls)
    BY <2>1
  <2>. QED
    BY <1>2, <2>2
<1>. QED
  BY <1>1, <1>2 DEF OnReady, RestoreAuth

LEMMA AcceptedSends ==
    ASSUME IdTypes, OnAuthAccepted("auth")
    PROVE  \E calls \in Seq(SoundCalls), request \in requestCBHash :
              /\ HeadIs("answer") /\ request.rn = Head(workQueue).rn /\ request.call.type = "auth"
              /\ Send(requestCBHash \ {request}, calls) /\ Restoring(calls)
              /\ connectionState' = "Connected" /\ workQueue' = Tail(workQueue)
<1>1. PICK request \in requestCBHash :
        /\ Answered(request, "auth") /\ connectionState' = "Connected"
        /\ RestoreState(requestCBHash \ {request}) /\ workQueue' = Tail(workQueue)
  BY DEF OnAuthAccepted
<1>2. PICK calls \in Seq(SoundCalls) : Send(requestCBHash \ {request}, calls) /\ Restoring(calls)
  BY <1>1, RestoreSends
<1>. QED
  BY <1>1, <1>2 DEF Answered

LEMMA OneCall ==
    ASSUME NEW call \in SoundCalls
    PROVE  <<call>> \in Seq(SoundCalls) /\ Len(<<call>>) = 1 /\ <<call>>[1] = call
OBVIOUS

ServerTypes ==
    /\ published \in Versions /\ applied \in 0..NumPuts
    /\ serverListens \subseteq {QueryOf[l] : l \in Listens}

QueueTypes == workQueue \in Seq(Blocks)

Types == StateTypes /\ IdTypes /\ WireTypes /\ QueueTypes /\ ServerTypes

LEMMA WireTypeStep == Types /\ [Next]_vars => WireTypes' /\ QueueTypes'
<1>. SUFFICES ASSUME Types, [Next]_vars PROVE WireTypes' /\ QueueTypes'
  OBVIOUS
<1>. USE DEF Types
<1>1. CASE UNCHANGED <<wireVars, workQueue>>
  BY <1>1 DEF WireTypes, QueueTypes, wireVars
<1>2. CASE Drop
  <2>1. PICK pending \in Seq(Blocks) : OnDisconnect(pending)
    BY <1>2, TailOfQueue DEF Drop, QueueTypes
  <2>2. /\ workQueue' = Announcements(pending)
        /\ requestNumber' = 0 /\ requestCBHash' = {} /\ toServer' = <<>>
    BY <2>1 DEF OnDisconnect, CloseSocket
  <2>. QED
    BY <2>2, AnnouncementsOnly DEF WireTypes, QueueTypes
<1>3. CASE Pop
  BY <1>3, TailOfQueue DEF Pop, WireTypes, QueueTypes, wireVars
<1>4. CASE Answers
  BY <1>4, TailOfQueue DEF Answers, HeadIs, Consume, WireTypes, QueueTypes
<1>5. CASE ApiSends
  BY <1>5, OneCall, SendEffect DEF ApiSends, QueueTypes
<1>6. CASE OnReady
  <2>1. WireTypes'
    BY <1>6, ReadySends, SendEffect
  <2>2. workQueue # <<>> /\ workQueue' = Append(Tail(workQueue), Block("onConnect"))
    BY <1>6 DEF OnReady, HeadIs
  <2>3. Block("onConnect") \in Blocks
    BY DEF Block, Blocks
  <2>. QED
    BY <2>1, <2>2, <2>3, TailOfQueue, AppendToQueue DEF QueueTypes
<1>7. CASE OnAuthAccepted("auth")
  <2>1. PICK calls \in Seq(SoundCalls), request \in requestCBHash :
          /\ HeadIs("answer") /\ Send(requestCBHash \ {request}, calls)
          /\ workQueue' = Tail(workQueue)
    BY <1>7, AcceptedSends
  <2>2. WireTypes'
    BY <2>1, SendEffect
  <2>. QED
    BY <2>1, <2>2, TailOfQueue DEF HeadIs, QueueTypes
<1>8. CASE ServerSpeaks
  BY <1>8, AppendToQueue DEF ServerSpeaks, WireTypes, QueueTypes, wireVars
<1>9. CASE LinkBreaks
  <2>1. Block("closed") \in Blocks
    BY DEF Block, Blocks
  <2>2. workQueue' = Append(workQueue, Block("closed"))
        /\ UNCHANGED <<requestNumber, requestCBHash>> /\ toServer' = <<>>
    BY <1>9 DEF LinkBreaks, Receive
  <2>. QED
    BY <2>1, <2>2, AppendToQueue DEF WireTypes, QueueTypes
<1>10. ASSUME NEW ok \in BOOLEAN, ServerAnswers(ok) PROVE WireTypes' /\ QueueTypes'
  <2>1. toServer # <<>> /\ toServer' = Tail(toServer) /\ UNCHANGED <<requestNumber, requestCBHash>>
    BY <1>10 DEF ServerAnswers
  <2>2. Head(toServer) \in SoundRequests /\ toServer' \in Seq(SoundRequests)
    BY <2>1, TailOfQueue DEF WireTypes
  <2>3. ASSUME NEW value \in {published, 0} PROVE Answer(Head(toServer).rn, ok, value) \in Blocks
    BY <2>2, <2>3 DEF Answer, Blocks, SoundRequests, Requests, ServerTypes
  <2>4. \/ UNCHANGED workQueue
        \/ \E value \in {published, 0} : workQueue' = Append(workQueue, Answer(Head(toServer).rn, ok, value))
    BY <1>10 DEF ServerAnswers, Receive
  <2>5. QueueTypes'
    BY <2>3, <2>4, AppendToQueue DEF QueueTypes
  <2>. QED
    BY <2>1, <2>2, <2>5 DEF WireTypes
<1>. QED
  BY <1>1, <1>2, <1>3, <1>4, <1>5, <1>6, <1>7, <1>8, <1>9, <1>10, WireFrame

LEMMA WritesUnderWayType == WireTypes => WritesUnderWay \subseteq Puts
<1>. SUFFICES ASSUME WireTypes, NEW i \in DOMAIN toServer, toServer[i].call.type = "put"
     PROVE  toServer[i].call.id \in Puts
  BY DEF WritesUnderWay
<1>1. toServer[i] \in SoundRequests
  BY LenProperties, ElementOfSeq DEF WireTypes
<1>. QED
  BY <1>1 DEF SoundRequests, IdFits

LEMMA ServerTypeStep == Types /\ [Next]_vars => ServerTypes'
<1>. SUFFICES ASSUME Types, [Next]_vars PROVE ServerTypes'
  OBVIOUS
<1>. USE DEF Types
<1>1. CASE UNCHANGED serverVars
  BY <1>1 DEF serverVars, ServerTypes
<1>2. CASE Drop \/ LinkBreaks
  <2>1. published' = published /\ applied' \in {applied} \cup WritesUnderWay /\ serverListens' = {}
    BY <1>2 DEF Drop, OnDisconnect, CloseSocket, LinkBreaks
  <2>2. Puts \subseteq 0..NumPuts
    BY BoundsAssumption DEF Puts
  <2>. QED
    BY <2>1, <2>2, WritesUnderWayType DEF ServerTypes
<1>3. CASE Publish
  BY <1>3, BoundsAssumption DEF Publish, ServerTypes, Versions
<1>4. ASSUME NEW ok \in BOOLEAN, ServerAnswers(ok) PROVE ServerTypes'
  <2>1. Head(toServer) \in SoundRequests
    BY <1>4, TailOfQueue DEF ServerAnswers, WireTypes
  <2>2. published' = published
    BY <1>4 DEF ServerAnswers
  <2>3. applied' \in 0..NumPuts
    <3>1. applied' = IF Head(toServer).call.type = "put" /\ ok THEN Head(toServer).call.id ELSE applied
      BY <1>4 DEF ServerAnswers
    <3>. QED
      BY <2>1, <3>1, BoundsAssumption DEF SoundRequests, IdFits, ServerTypes, Puts
  <2>4. serverListens' \subseteq {QueryOf[l] : l \in Listens}
    <3>1. \/ serverListens' \subseteq serverListens
          \/ /\ Head(toServer).call.type = "listen"
             /\ serverListens' = serverListens \cup {QueryOf[Head(toServer).call.id]}
      BY <1>4 DEF ServerAnswers
    <3>. QED
      BY <2>1, <3>1 DEF SoundRequests, IdFits, ServerTypes
  <2>. QED
    BY <2>2, <2>3, <2>4 DEF ServerTypes
<1>5. CASE \E path \in Paths : ServerCancels(path)
  BY <1>5 DEF ServerCancels, ServerTypes
<1>. QED
  BY <1>1, <1>2, <1>3, <1>4, <1>5, ServerFrame

LEMMA TypesInit == Init => Types
<1>. SUFFICES ASSUME Init PROVE Types
  OBVIOUS
<1>1. StateTypes
  <2>1. MaxDelay \in Nat /\ MaxRefreshes \in Nat
    BY BoundsAssumption
  <2>2. /\ fetchForced \in BOOLEAN /\ authToken \in BOOLEAN /\ forceTokenRefreshes \in BOOLEAN
        /\ lastWasSuccess \in BOOLEAN /\ infoConnected \in BOOLEAN /\ tokenRevoked \in BOOLEAN
    BY DEF Init
  <2>3. /\ connectionState = "Disconnected" /\ interruptReasons = {"waiting_for_open"}
        /\ realtime = "none" /\ fetches = {} /\ scheduledRetry = NoRetry
        /\ currentRetryDelay = 0 /\ refreshes = 0
    BY DEF Init
  <2>. QED
    BY <2>1, <2>2, <2>3 DEF StateTypes, Reasons
<1>2. IdTypes
  BY BoundsAssumption DEF Init, IdTypes
<1>3. WireTypes /\ QueueTypes
  BY DEF Init, WireTypes, QueueTypes
<1>4. ServerTypes
  BY BoundsAssumption DEF Init, ServerTypes, Versions
<1>. QED
  BY <1>1, <1>2, <1>3, <1>4 DEF Types

LEMMA TypesStep == Types /\ [Next]_vars => Types'
BY StateStep, IdStep, WireTypeStep, ServerTypeStep DEF Types

-----------------------------------------------------------------------------
(* The state machine.                                                      *)

LEMMA ControlInit == Init => Control
BY DEF Init, Control, KeepsTrying, StatesMatch, FetchUnderWay, NothingOutlivesConnection,
   shouldReconnect, connected, Queued

\* Without a socket there is no request, no answer, no block to process but the
\* announcements; with a retry scheduled there is no socket.
LEMMA ControlFacts ==
    ASSUME Types, Control
    PROVE  /\ requestCBHash # {} => realtime = "connected" /\ connected
           /\ scheduledRetry # NoRetry => realtime = "none" /\ connectionState = "Disconnected"
           /\ connectionState \in {"Disconnected", "GettingToken"} => realtime = "none"
           /\ realtime = "none" => connectionState \in {"Disconnected", "GettingToken"}
           /\ shouldReconnect /\ connectionState = "Disconnected" => scheduledRetry # NoRetry
BY DEF Types, StateTypes, Control, KeepsTrying, StatesMatch, NothingOutlivesConnection, connected

LEMMA StateMachineStep ==
    Types /\ Control /\ [Next]_vars => (KeepsTrying /\ StatesMatch /\ FetchUnderWay)'
<1>. SUFFICES ASSUME Types, Control, [Next]_vars PROVE (KeepsTrying /\ StatesMatch /\ FetchUnderWay)'
  OBVIOUS
<1>. USE DEF Types, Control
<1>. DEFINE Goal == KeepsTrying /\ StatesMatch /\ FetchUnderWay
<1>1. CASE UNCHANGED <<retryVars, authVars, stateVars, infoConnected>>
  BY <1>1 DEF retryVars, authVars, stateVars, KeepsTrying, StatesMatch, FetchUnderWay,
     shouldReconnect, connected
<1>2. ASSUME NEW reason \in Reasons, NEW pending, InterruptForReason(reason, pending)
      PROVE  Goal'
  <2>1. /\ connectionState' = "Disconnected" /\ realtime' = "none"
        /\ interruptReasons' = interruptReasons \cup {reason} /\ UNCHANGED fetches
        /\ scheduledRetry' = IF realtime = "none" THEN NoRetry ELSE scheduledRetry
    BY <1>2, InterruptedState DEF authVars
  <2>2. scheduledRetry' = NoRetry
    BY <2>1, ControlFacts
  <2>. QED
    BY <2>1, <2>2 DEF KeepsTrying, StatesMatch, FetchUnderWay, shouldReconnect, connected
<1>3. ASSUME NEW pending, NEW reset \in BOOLEAN, NEW force \in BOOLEAN,
             Disconnected(pending, reset, force), UNCHANGED fetches
      PROVE  Goal'
  <2>1. /\ connectionState' = "Disconnected" /\ realtime' = "none"
        /\ UNCHANGED <<interruptReasons, fetches>>
        /\ shouldReconnect => scheduledRetry' # NoRetry
        /\ ~shouldReconnect => UNCHANGED scheduledRetry
    BY <1>3, DisconnectedState
  <2>. QED
    BY <2>1 DEF KeepsTrying, StatesMatch, FetchUnderWay, shouldReconnect, connected
<1>4. CASE Ends
  <2>1. CASE OnKill
    BY <1>2, <2>1 DEF OnKill, Reasons
  <2>2. CASE GoOffline
    BY <1>2, <2>2 DEF GoOffline, Reasons
  <2>3. CASE OnAuthRevoked
    BY <1>3, <2>3 DEF OnAuthRevoked
  <2>4. CASE OnTokenRefused
    BY <1>3, <2>4 DEF OnTokenRefused
  <2>5. ASSUME NEW type \in {"closed", "reset"}, OnClosed(type) PROVE Goal'
    <3>1. forceTokenRefreshes \in BOOLEAN
      BY DEF StateTypes
    <3>2. Disconnected(Tail(workQueue), type = "reset", forceTokenRefreshes) /\ UNCHANGED fetches
      BY <2>5 DEF OnClosed, authVars
    <3>. QED
      BY <1>3, <3>1, <3>2
  <2>. QED
    BY <1>4, <2>1, <2>2, <2>3, <2>4, <2>5 DEF Ends
<1>5. CASE OnReady
  <2>1. /\ realtime = "connecting" /\ realtime' = "connected"
        /\ connectionState' \in {"Connected", "Authenticating"}
        /\ UNCHANGED <<interruptReasons, scheduledRetry, fetches>>
    BY <1>5 DEF OnReady, RestoreAuth, retryVars, authVars
  <2>2. connectionState = "Connecting"
    BY <2>1 DEF StatesMatch
  <2>. QED
    BY <2>1, <2>2 DEF KeepsTrying, StatesMatch, FetchUnderWay, shouldReconnect, connected
<1>6. CASE OnConnect
  BY <1>6 DEF OnConnect, retryVars, authVars, stateVars, KeepsTrying, StatesMatch, FetchUnderWay,
     shouldReconnect, connected
<1>7. CASE \E type \in {"auth", "reauth"} : OnAuthAccepted(type)
  <2>1. /\ connectionState' = "Connected" /\ requestCBHash # {}
        /\ UNCHANGED <<interruptReasons, realtime, scheduledRetry, fetches>>
    BY <1>7 DEF OnAuthAccepted, retryVars, authVars
  <2>2. realtime = "connected" /\ connected
    BY <2>1, ControlFacts
  <2>. QED
    BY <2>1, <2>2 DEF KeepsTrying, StatesMatch, FetchUnderWay, shouldReconnect, connected
<1>8. RetryTyped
  BY DEF StateTypes, RetryTyped
<1>9. ASSUME NEW success \in BOOLEAN, TryScheduleReconnect(success, forceTokenRefreshes)
      PROVE  scheduledRetry' # NoRetry
  BY <1>8, <1>9, RetryScheduled DEF RetryTyped
<1>10. CASE Open \/ GoOnline
  <2>1. PICK reason \in Reasons : Resume(reason)
    BY <1>10 DEF Open, GoOnline, Reasons
  <2>2. /\ UNCHANGED <<connectionState, realtime, fetches>>
        /\ interruptReasons' = interruptReasons \ {reason}
    BY <2>1 DEF Resume, authVars
  <2>3. CASE interruptReasons \subseteq {reason} /\ connectionState = "Disconnected"
    <3>1. TryScheduleReconnect(FALSE, forceTokenRefreshes)
      BY <2>1, <2>3 DEF Resume
    <3>2. scheduledRetry' # NoRetry /\ interruptReasons' = {}
      BY <1>9, <2>2, <2>3, <3>1
    <3>. QED
      BY <2>2, <2>3, <3>2 DEF KeepsTrying, StatesMatch, FetchUnderWay, shouldReconnect, connected
  <2>4. CASE ~(interruptReasons \subseteq {reason} /\ connectionState = "Disconnected")
    <3>1. UNCHANGED scheduledRetry
      BY <2>1, <2>4 DEF Resume, retryVars
    <3>2. interruptReasons' = {} => connectionState # "Disconnected"
      BY <2>2, <2>4
    <3>3. scheduledRetry # NoRetry => interruptReasons' = {}
      BY <2>2 DEF KeepsTrying, shouldReconnect
    <3>. QED
      BY <2>2, <3>1, <3>2, <3>3, ControlFacts
         DEF KeepsTrying, StatesMatch, FetchUnderWay, shouldReconnect, connected
  <2>. QED
    BY <2>3, <2>4
<1>11. CASE WakeUp
  <2>1. UNCHANGED <<connectionState, interruptReasons, realtime, fetches>>
    BY <1>11 DEF WakeUp, stateVars, authVars
  <2>2. scheduledRetry' # NoRetry => \/ connectionState = "Disconnected" /\ shouldReconnect
                                    \/ scheduledRetry # NoRetry
    BY <1>11 DEF WakeUp
  <2>3. scheduledRetry # NoRetry => scheduledRetry' # NoRetry
    BY <1>9, <1>11 DEF WakeUp
  <2>. QED
    BY <2>1, <2>2, <2>3 DEF KeepsTrying, StatesMatch, FetchUnderWay, shouldReconnect, connected
<1>12. CASE RunRetry
  <2>1. /\ scheduledRetry # NoRetry /\ scheduledRetry' = NoRetry /\ UNCHANGED interruptReasons
        /\ \/ /\ HasAuth /\ connectionState' = "GettingToken" /\ "latest" \in fetches'
              /\ UNCHANGED realtime
           \/ /\ ~HasAuth /\ connectionState' = "Connecting" /\ realtime' = "connecting"
              /\ UNCHANGED fetches
    BY <1>12 DEF RunRetry, OpenNetworkConnection
  <2>2. realtime = "none" /\ HasAuth \in BOOLEAN
    BY <2>1, ControlFacts, BoundsAssumption
  <2>. QED
    BY <2>1, <2>2 DEF KeepsTrying, StatesMatch, FetchUnderWay, shouldReconnect, connected
<1>13. CASE FetchFails
  <2>1. /\ "latest" \in fetches /\ "latest" \notin fetches' /\ fetches' \subseteq fetches
        /\ connectionState' = "Disconnected" /\ UNCHANGED <<interruptReasons, realtime>>
    BY <1>13 DEF FetchFails
  <2>2. realtime = "none"
    BY <2>1, ControlFacts DEF FetchUnderWay
  <2>3. shouldReconnect => scheduledRetry' # NoRetry
    BY <1>9, <1>13 DEF FetchFails
  <2>4. ~shouldReconnect => scheduledRetry' = scheduledRetry
    BY <1>13 DEF FetchFails, retryVars
  <2>. QED
    BY <2>1, <2>2, <2>3, <2>4 DEF KeepsTrying, StatesMatch, FetchUnderWay, shouldReconnect, connected
<1>14. CASE FetchStale
  BY <1>14 DEF FetchStale, retryVars, stateVars, KeepsTrying, StatesMatch, FetchUnderWay,
     shouldReconnect, connected
<1>15. ASSUME NEW token \in BOOLEAN, FetchDone(token) PROVE Goal'
  <2>1. /\ "latest" \in fetches /\ fetches' = fetches \ {"latest"}
        /\ UNCHANGED <<interruptReasons, scheduledRetry>>
    BY <1>15 DEF FetchDone, retryVars
  <2>2. CASE connectionState = "GettingToken"
    <3>1. connectionState' = "Connecting" /\ realtime' = "connecting"
      BY <1>15, <2>2 DEF FetchDone, OpenNetworkConnection
    <3>. QED
      BY <2>1, <2>2, <3>1 DEF KeepsTrying, StatesMatch, FetchUnderWay, shouldReconnect, connected
  <2>3. CASE connectionState # "GettingToken"
    <3>1. UNCHANGED <<connectionState, realtime>>
      BY <1>15, <2>3 DEF FetchDone
    <3>. QED
      BY <2>1, <2>3, <3>1 DEF KeepsTrying, StatesMatch, FetchUnderWay, shouldReconnect, connected
  <2>. QED
    BY <2>2, <2>3
<1>16. CASE RefreshAppCheckToken \/ \E token \in BOOLEAN : RefreshAuthToken(token)
  <2>1. UNCHANGED <<connectionState, interruptReasons, realtime, fetches, scheduledRetry>>
    BY <1>16 DEF RefreshAppCheckToken, RefreshAuthToken, stateVars, retryVars
  <2>. QED
    BY <2>1 DEF KeepsTrying, StatesMatch, FetchUnderWay, shouldReconnect, connected
<1>. QED
  BY <1>1, <1>4, <1>5, <1>6, <1>7, <1>10, <1>11, <1>12, <1>13, <1>14, <1>15, <1>16, StateFrame
     DEF Fetching

\* The only steps that open or close a socket.
LEMMA RealtimeFrame ==
    ASSUME Types, Control, [Next]_vars
    PROVE  \/ realtime' = realtime \/ Drop \/ OnReady
           \/ realtime = "none" /\ realtime' = "connecting" /\ UNCHANGED <<wireVars, workQueue>>
<1>1. CASE RunRetry
  BY <1>1, ControlFacts DEF RunRetry, OpenNetworkConnection
<1>2. ASSUME NEW token \in BOOLEAN, FetchDone(token)
      PROVE  \/ realtime' = realtime
             \/ realtime = "none" /\ realtime' = "connecting" /\ UNCHANGED <<wireVars, workQueue>>
  BY <1>2, ControlFacts DEF FetchDone, OpenNetworkConnection
<1>3. CASE Ends
  BY <1>3, EndsByDropOrGiveUp DEF GiveUp
<1>4. CASE UNCHANGED <<retryVars, authVars, stateVars, infoConnected>>
  BY <1>4 DEF stateVars
<1>. QED
  BY <1>1, <1>2, <1>3, <1>4, StateFrame DEF OnConnect, OnAuthAccepted, Open, GoOnline, Resume, WakeUp,
     Fetching, FetchFails, FetchStale, RefreshAuthToken, RefreshAppCheckToken, stateVars

LEMMA OutlivesStep ==
    Types /\ Control /\ [Next]_vars => NothingOutlivesConnection'
<1>. SUFFICES ASSUME Types, Control, [Next]_vars PROVE NothingOutlivesConnection'
  OBVIOUS
<1>. USE DEF Types, Control
<1>1. CASE Drop
  <2>1. PICK pending \in Seq(Blocks) : OnDisconnect(pending)
    BY <1>1, TailOfQueue DEF Drop, QueueTypes
  <2>2. /\ workQueue' = Announcements(pending) /\ requestNumber' = 0 /\ requestCBHash' = {}
        /\ toServer' = <<>>
    BY <2>1 DEF OnDisconnect, CloseSocket
  <2>. QED
    BY <2>2, AnnouncementsOnly DEF NothingOutlivesConnection, Queued
<1>2. CASE OnReady
  BY <1>2 DEF OnReady, NothingOutlivesConnection
<1>3. CASE realtime = "none" /\ realtime' = "connecting" /\ UNCHANGED <<wireVars, workQueue>>
  BY <1>3 DEF wireVars, NothingOutlivesConnection, Queued
<1>4. CASE realtime' = realtime
  <2>1. CASE UNCHANGED <<wireVars, workQueue>>
    BY <1>4, <2>1 DEF wireVars, NothingOutlivesConnection, Queued
  <2>2. CASE Pop
    <3>1. /\ \A i \in DOMAIN Tail(workQueue) : i + 1 \in DOMAIN workQueue /\ Tail(workQueue)[i] = workQueue[i + 1]
          /\ workQueue' = Tail(workQueue) /\ UNCHANGED <<requestNumber, requestCBHash, toServer>>
      BY <2>2, TailOfQueue DEF Pop, QueueTypes, wireVars
    <3>. QED
      BY <1>4, <3>1 DEF NothingOutlivesConnection, Queued
  <2>3. CASE Answers \/ OnAuthAccepted("auth")
    <3>1. realtime = "connected"
      BY <2>3, ControlFacts DEF Answers, OnAuthAccepted
    <3>. QED
      BY <1>4, <3>1 DEF NothingOutlivesConnection
  <2>4. CASE ApiSends
    BY <1>4, <2>4 DEF ApiSends, StatesMatch, NothingOutlivesConnection
  <2>5. CASE ServerSpeaks
    <3>1. PICK block \in Blocks :
            /\ realtime # "none" /\ block.type # "answer" /\ workQueue' = Append(workQueue, block)
            /\ UNCHANGED <<requestNumber, requestCBHash, toServer>>
      BY <2>5 DEF ServerSpeaks, Reachable, wireVars
    <3>2. /\ DOMAIN workQueue = 1..Len(workQueue) /\ Len(workQueue) \in Nat
          /\ DOMAIN workQueue' = 1..(Len(workQueue) + 1)
          /\ \A i \in DOMAIN workQueue : workQueue'[i] = workQueue[i]
          /\ workQueue'[Len(workQueue) + 1] = block
      BY <3>1, AppendToQueue DEF QueueTypes
    <3>3. ASSUME ~Queued("answer"), NEW i \in DOMAIN workQueue' PROVE workQueue'[i].type # "answer"
      <4>1. i \in DOMAIN workQueue \/ i = Len(workQueue) + 1
        BY <3>2
      <4>. QED
        BY <3>1, <3>2, <3>3, <4>1 DEF Queued
    <3>. QED
      BY <1>4, <3>1, <3>3 DEF NothingOutlivesConnection, Queued
  <2>6. CASE LinkBreaks
    <3>1. /\ realtime # "none" /\ workQueue' = Append(workQueue, Block("closed"))
          /\ UNCHANGED <<requestNumber, requestCBHash>> /\ toServer' = <<>>
      BY <2>6 DEF LinkBreaks, Reachable, Receive
    <3>2. Block("closed") \in Blocks /\ Block("closed").type = "closed"
      BY DEF Block, Blocks
    <3>3. /\ DOMAIN workQueue = 1..Len(workQueue) /\ Len(workQueue) \in Nat
          /\ DOMAIN workQueue' = 1..(Len(workQueue) + 1)
          /\ \A i \in DOMAIN workQueue : workQueue'[i] = workQueue[i]
          /\ workQueue'[Len(workQueue) + 1] = Block("closed")
      BY <3>1, <3>2, AppendToQueue DEF QueueTypes
    <3>4. ASSUME ~Queued("answer"), NEW i \in DOMAIN workQueue' PROVE workQueue'[i].type # "answer"
      <4>1. i \in DOMAIN workQueue \/ i = Len(workQueue) + 1
        BY <3>3
      <4>. QED
        BY <3>2, <3>3, <3>4, <4>1 DEF Queued
    <3>. QED
      BY <1>4, <3>1, <3>4 DEF NothingOutlivesConnection, Queued
  <2>7. CASE \E ok \in BOOLEAN : ServerAnswers(ok)
    <3>1. toServer # <<>>
      BY <2>7 DEF ServerAnswers
    <3>2. realtime = "connected"
      BY <3>1 DEF NothingOutlivesConnection
    <3>. QED
      BY <1>4, <3>2 DEF NothingOutlivesConnection
  <2>. QED
    BY <1>1, <1>2, <2>1, <2>2, <2>3, <2>4, <2>5, <2>6, <2>7, WireFrame
<1>. QED
  BY <1>1, <1>2, <1>3, <1>4, RealtimeFrame

LEMMA ControlStep == Types /\ Control /\ [Next]_vars => Control'
BY StateMachineStep, OutlivesStep DEF Control

LEMMA ControlAlways == Spec => [](Types /\ Control)
<1>1. Init => Types /\ Control
  BY TypesInit, ControlInit
<1>2. Types /\ Control /\ [Next]_vars => (Types /\ Control)'
  BY TypesStep, ControlStep
<1>. QED
  BY <1>1, <1>2, PTL DEF Spec

\* The client never stops trying to connect while nothing interrupts it, and a retry
\* is scheduled only in the state its block asserts (tryScheduleReconnect).
THEOREM NeverStopsTrying == Spec => []KeepsTrying
<1>1. Types /\ Control => KeepsTrying
  BY DEF Control
<1>. QED
  BY <1>1, ControlAlways, PTL

\* The state machine and the connection object below it agree at all times, so no
\* request is sent on a connection object that throws (sendAction, closeWithReason).
THEOREM LayersInStep == Spec => []LayersAgree
<1>1. Types /\ Control => LayersAgree
  BY DEF Control, StatesMatch, NothingOutlivesConnection, LayersAgree
<1>. QED
  BY <1>1, ControlAlways, PTL

-----------------------------------------------------------------------------
(* The wire.                                                               *)

\* The requests of a connection, with the callbacks cb, the requests ts on their way
\* and the queue q.  The requests up to k were served; the others are on their way in
\* the order of their numbers; each callback waits for one of them or for an answer.
Broken(q) == \E i \in DOMAIN q : q[i].type = "closed"
AnswerIn(q, rn) == \E i \in DOMAIN q : q[i].type = "answer" /\ q[i].rn = rn

OnTheWay(k, cb, ts) ==
    /\ \A i \in DOMAIN ts : ts[i].rn = k + i
    /\ \A i \in DOMAIN ts : HasCallback(ts[i].call) => ts[i] \in cb

CallbacksNumbered(k, cb, ts) ==
    /\ \A r \in cb : r.rn <= k + Len(ts)
    /\ \A r, s \in cb : r.rn = s.rn => r = s
    /\ \A r \in cb : HasCallback(r.call)

\* Answers come in the order of the requests, and none is skipped.
AnswersInOrder(k, cb, q) ==
    /\ \A i \in DOMAIN q : q[i].type = "answer" => q[i].rn <= k
    /\ \A i, j \in DOMAIN q :
          i < j /\ q[i].type = "answer" /\ q[j].type = "answer" => q[i].rn < q[j].rn
    /\ \A r \in cb, i \in DOMAIN q :
          q[i].type = "answer" /\ r.rn <= q[i].rn => AnswerIn(q, r.rn)

\* Unless the socket broke, each callback is still to be served or answered.
CallbacksAwaited(k, cb, ts, q) ==
    /\ Broken(q) => ts = <<>>
    /\ \A r \in cb : ~Broken(q) /\ r.rn > k => \E i \in DOMAIN ts : ts[i] = r
    /\ \A r \in cb : ~Broken(q) /\ r.rn <= k => AnswerIn(q, r.rn)

WireOf(k, cb, ts, q) ==
    /\ OnTheWay(k, cb, ts) /\ CallbacksNumbered(k, cb, ts)
    /\ AnswersInOrder(k, cb, q) /\ CallbacksAwaited(k, cb, ts, q)

ServedUpTo(k) ==
    requestNumber = k + Len(toServer) /\ WireOf(k, requestCBHash, toServer, workQueue)
Wire == \E k \in 0..requestNumber : ServedUpTo(k)

-----------------------------------------------------------------------------
(* The wire under each kind of step.                                       *)

WireParts(k, cb, ts, q) ==
    /\ k \in Nat /\ cb \subseteq SoundRequests
    /\ ts \in Seq(SoundRequests) /\ q \in Seq(Blocks)

LEMMA AnswersAreNumbered ==
    ASSUME NEW q \in Seq(Blocks), NEW i \in DOMAIN q, q[i].type = "answer"
    PROVE  q[i].rn \in Nat /\ q[i].rn # 0
<1>1. q[i] \in Blocks
  BY LenProperties, ElementOfSeq
<1>. QED
  BY <1>1 DEF Blocks

\* A block that is no answer leaves the queue.
LEMMA WirePop ==
    ASSUME NEW k, NEW cb, NEW ts, NEW q, WireParts(k, cb, ts, q), WireOf(k, cb, ts, q),
           q # <<>>, Head(q).type \notin {"answer", "closed"}
    PROVE  WireOf(k, cb, ts, Tail(q))
<1>1. q \in Seq(Blocks)
  BY DEF WireParts
<1>2. /\ Head(q) = q[1]
      /\ \A i \in DOMAIN Tail(q) : i \in Nat /\ i + 1 \in DOMAIN q /\ Tail(q)[i] = q[i + 1]
      /\ \A i \in DOMAIN q : i # 1 => i - 1 \in DOMAIN Tail(q) /\ Tail(q)[i - 1] = q[i]
  BY <1>1, TailOfQueue
<1>3. Broken(q) <=> Broken(Tail(q))
  BY <1>2 DEF Broken
<1>4. \A rn : AnswerIn(q, rn) => AnswerIn(Tail(q), rn)
  BY <1>2 DEF AnswerIn
<1>5. AnswersInOrder(k, cb, Tail(q))
  BY <1>2, <1>4 DEF WireOf, AnswersInOrder
<1>6. CallbacksAwaited(k, cb, ts, Tail(q))
  BY <1>3, <1>4 DEF WireOf, CallbacksAwaited
<1>. QED
  BY <1>5, <1>6 DEF WireOf

\* An answer is processed, and its callback is given up.
LEMMA WireAnswer ==
    ASSUME NEW k, NEW cb, NEW ts, NEW q, WireParts(k, cb, ts, q), WireOf(k, cb, ts, q),
           q # <<>>, Head(q).type = "answer", NEW request \in cb, request.rn = Head(q).rn
    PROVE  WireOf(k, cb \ {request}, ts, Tail(q))
<1>1. q \in Seq(Blocks)
  BY DEF WireParts
<1>2. /\ Head(q) = q[1] /\ 1 \in DOMAIN q
      /\ \A i \in DOMAIN Tail(q) : i \in Nat /\ i + 1 \in DOMAIN q /\ Tail(q)[i] = q[i + 1]
      /\ \A i \in DOMAIN q : i # 1 => i - 1 \in DOMAIN Tail(q) /\ Tail(q)[i - 1] = q[i]
  BY <1>1, TailOfQueue
<1>3. Broken(q) <=> Broken(Tail(q))
  BY <1>2 DEF Broken
<1>4. ASSUME NEW r \in cb \ {request}, AnswerIn(q, r.rn) PROVE AnswerIn(Tail(q), r.rn)
  <2>1. PICK i \in DOMAIN q : q[i].type = "answer" /\ q[i].rn = r.rn
    BY <1>4 DEF AnswerIn
  <2>2. i # 1
    BY <1>2, <2>1 DEF WireOf, CallbacksNumbered
  <2>. QED
    BY <1>2, <2>1, <2>2 DEF AnswerIn
<1>5. AnswersInOrder(k, cb \ {request}, Tail(q))
  BY <1>2, <1>4 DEF WireOf, AnswersInOrder
<1>6. CallbacksAwaited(k, cb \ {request}, ts, Tail(q))
  <2>1. request.rn <= k
    BY <1>2 DEF WireOf, AnswersInOrder
  <2>. QED
    BY <1>3, <1>4, <2>1 DEF WireOf, CallbacksAwaited
<1>7. OnTheWay(k, cb \ {request}, ts)
  <2>1. request.rn <= k /\ request.rn \in Nat /\ k \in Nat
    BY <1>2 DEF WireOf, AnswersInOrder, WireParts, SoundRequests, Requests
  <2>2. \A i \in DOMAIN ts : i \in Nat /\ i >= 1
    BY LenProperties DEF WireParts
  <2>3. \A i \in DOMAIN ts : ts[i] # request
    BY <2>1, <2>2 DEF WireOf, OnTheWay
  <2>. QED
    BY <2>3 DEF WireOf, OnTheWay
<1>. QED
  BY <1>5, <1>6, <1>7 DEF WireOf, CallbacksNumbered

\* A block that is no answer and does not break the socket joins the queue.
LEMMA WireAppend ==
    ASSUME NEW k, NEW cb, NEW ts, NEW q, WireParts(k, cb, ts, q), WireOf(k, cb, ts, q),
           NEW block \in Blocks, block.type \notin {"answer", "closed"}
    PROVE  WireOf(k, cb, ts, Append(q, block))
<1>1. q \in Seq(Blocks)
  BY DEF WireParts
<1>. DEFINE long == Append(q, block)
<1>2. /\ Len(q) \in Nat /\ DOMAIN q = 1..Len(q) /\ DOMAIN long = 1..(Len(q) + 1)
      /\ \A i \in DOMAIN q : long[i] = q[i]
      /\ long[Len(q) + 1] = block
  BY <1>1, AppendToQueue
<1>. HIDE DEF long
<1>3. \A i \in DOMAIN long : long[i].type \in {"answer", "closed"} => i \in DOMAIN q /\ long[i] = q[i]
  BY <1>2
<1>4. \A i \in DOMAIN q : i \in DOMAIN long /\ long[i] = q[i]
  BY <1>2
<1>5. Broken(q) <=> Broken(long)
  BY <1>3, <1>4 DEF Broken
<1>6. \A rn : AnswerIn(q, rn) => AnswerIn(long, rn)
  BY <1>4 DEF AnswerIn
<1>7. AnswersInOrder(k, cb, long)
  BY <1>3, <1>6 DEF WireOf, AnswersInOrder
<1>8. CallbacksAwaited(k, cb, ts, long)
  BY <1>5, <1>6 DEF WireOf, CallbacksAwaited
<1>. QED
  BY <1>7, <1>8 DEF WireOf, long

\* The socket breaks.
LEMMA WireBreak ==
    ASSUME NEW k, NEW cb, NEW ts, NEW q, WireParts(k, cb, ts, q), WireOf(k, cb, ts, q),
           NEW m \in Nat, m = k + Len(ts)
    PROVE  WireOf(m, cb, <<>>, Append(q, Block("closed")))
<1>1. q \in Seq(Blocks) /\ Block("closed") \in Blocks /\ Block("closed").type = "closed"
  BY DEF WireParts, Block, Blocks
<1>. DEFINE long == Append(q, Block("closed"))
<1>2. /\ Len(q) \in Nat /\ DOMAIN q = 1..Len(q) /\ DOMAIN long = 1..(Len(q) + 1)
      /\ \A i \in DOMAIN q : long[i] = q[i]
      /\ long[Len(q) + 1] = Block("closed")
  BY <1>1, AppendToQueue
<1>. HIDE DEF long
<1>3. \A i \in DOMAIN long : long[i].type = "answer" => i \in DOMAIN q /\ long[i] = q[i]
  BY <1>1, <1>2
<1>4. \A i \in DOMAIN q : i \in DOMAIN long /\ long[i] = q[i]
  BY <1>2
<1>5. Broken(long)
  BY <1>1, <1>2 DEF Broken
<1>6. \A rn : AnswerIn(q, rn) => AnswerIn(long, rn)
  BY <1>4 DEF AnswerIn
<1>7. k \in Nat /\ k <= m /\ m + 0 = m
  BY LenProperties DEF WireParts
<1>8. \A i \in DOMAIN q : q[i].type = "answer" => q[i].rn \in Nat
  BY <1>1, AnswersAreNumbered
<1>9. AnswersInOrder(m, cb, long)
  BY <1>3, <1>6, <1>7, <1>8 DEF WireOf, AnswersInOrder
<1>10. CallbacksAwaited(m, cb, <<>>, long)
  BY <1>5 DEF CallbacksAwaited
<1>11. OnTheWay(m, cb, <<>>)
  BY DEF OnTheWay
<1>12. CallbacksNumbered(m, cb, <<>>)
  BY <1>7 DEF WireOf, CallbacksNumbered
<1>. QED
  BY <1>9, <1>10, <1>11, <1>12 DEF WireOf, long

\* The server carries out a request that has no callback.
LEMMA WireServe ==
    ASSUME NEW k, NEW cb, NEW ts, NEW q, WireParts(k, cb, ts, q), WireOf(k, cb, ts, q),
           ts # <<>>, ~HasCallback(Head(ts).call), ~Broken(q)
    PROVE  WireOf(k + 1, cb, Tail(ts), q) /\ k + 1 + Len(Tail(ts)) = k + Len(ts)
<1>1. ts \in Seq(SoundRequests) /\ k \in Nat /\ cb \subseteq SoundRequests
  BY DEF WireParts
<1>2. /\ Head(ts) = ts[1] /\ 1 \in DOMAIN ts
      /\ \A i \in DOMAIN Tail(ts) : i \in Nat /\ i + 1 \in DOMAIN ts /\ Tail(ts)[i] = ts[i + 1]
      /\ \A i \in DOMAIN ts : i # 1 => i - 1 \in DOMAIN Tail(ts) /\ Tail(ts)[i - 1] = ts[i]
  BY <1>1, TailOfQueue
<1>3. Len(ts) \in Nat /\ Len(Tail(ts)) = Len(ts) - 1
  BY <1>1, LenProperties, HeadTailProperties
<1>4. k + 1 + Len(Tail(ts)) = k + Len(ts)
  BY <1>1, <1>3
<1>5. OnTheWay(k + 1, cb, Tail(ts))
  <2>. SUFFICES ASSUME NEW i \in DOMAIN Tail(ts)
       PROVE  /\ Tail(ts)[i].rn = k + 1 + i
              /\ HasCallback(Tail(ts)[i].call) => Tail(ts)[i] \in cb
    BY DEF OnTheWay
  <2>1. i \in Nat /\ i + 1 \in DOMAIN ts /\ Tail(ts)[i] = ts[i + 1]
    BY <1>2
  <2>2. k + (i + 1) = k + 1 + i
    BY <1>1, <2>1
  <2>. QED
    BY <2>1, <2>2 DEF WireOf, OnTheWay
<1>6. CallbacksNumbered(k + 1, cb, Tail(ts))
  BY <1>4 DEF WireOf, CallbacksNumbered
<1>7. \A r \in cb : r.rn \in Nat
  BY <1>1 DEF SoundRequests, Requests
<1>8. \A i \in DOMAIN q : q[i].type = "answer" => q[i].rn \in Nat
  BY AnswersAreNumbered DEF WireParts
<1>9. AnswersInOrder(k + 1, cb, q)
  BY <1>1, <1>8 DEF WireOf, AnswersInOrder
<1>10. \A r \in cb : r.rn # k + 1
  <2>1. ASSUME NEW r \in cb, r.rn = k + 1 PROVE FALSE
    <3>1. r.rn > k
      BY <1>1, <2>1
    <3>2. PICK i \in DOMAIN ts : ts[i] = r
      BY <3>1 DEF WireOf, CallbacksAwaited
    <3>3. i \in Nat /\ k + i = k + 1
      BY <2>1, <3>2, <1>1, LenProperties DEF WireOf, OnTheWay
    <3>4. i = 1
      BY <1>1, <3>3
    <3>. QED
      BY <1>2, <3>2, <3>4 DEF WireOf, CallbacksNumbered
  <2>. QED
    BY <2>1
<1>11. ASSUME NEW r \in cb, r.rn > k + 1 PROVE \E i \in DOMAIN Tail(ts) : Tail(ts)[i] = r
  <2>1. r.rn > k
    BY <1>1, <1>7, <1>11
  <2>2. PICK i \in DOMAIN ts : ts[i] = r
    BY <2>1 DEF WireOf, CallbacksAwaited
  <2>3. i # 1
    BY <1>1, <1>11, <2>2 DEF WireOf, OnTheWay
  <2>. QED
    BY <1>2, <2>2, <2>3
<1>12. CallbacksAwaited(k + 1, cb, Tail(ts), q)
  <2>1. \A r \in cb : r.rn <= k + 1 => r.rn <= k
    BY <1>1, <1>7, <1>10
  <2>. QED
    BY <1>11, <2>1 DEF WireOf, CallbacksAwaited
<1>. QED
  BY <1>4, <1>5, <1>6, <1>9, <1>12 DEF WireOf

\* The server answers a request.
LEMMA WireServeAnswer ==
    ASSUME NEW k, NEW cb, NEW ts, NEW q, WireParts(k, cb, ts, q), WireOf(k, cb, ts, q),
           ts # <<>>, ~Broken(q),
           NEW block \in Blocks, block.type = "answer", block.rn = Head(ts).rn
    PROVE  WireOf(k + 1, cb, Tail(ts), Append(q, block)) /\ k + 1 + Len(Tail(ts)) = k + Len(ts)
<1>1. ts \in Seq(SoundRequests) /\ k \in Nat /\ cb \subseteq SoundRequests /\ q \in Seq(Blocks)
  BY DEF WireParts
<1>2. /\ Head(ts) = ts[1] /\ 1 \in DOMAIN ts
      /\ \A i \in DOMAIN Tail(ts) : i \in Nat /\ i + 1 \in DOMAIN ts /\ Tail(ts)[i] = ts[i + 1]
      /\ \A i \in DOMAIN ts : i # 1 => i - 1 \in DOMAIN Tail(ts) /\ Tail(ts)[i - 1] = ts[i]
  BY <1>1, TailOfQueue
<1>3. Len(ts) \in Nat /\ Len(Tail(ts)) = Len(ts) - 1
  BY <1>1, LenProperties, HeadTailProperties
<1>4. k + 1 + Len(Tail(ts)) = k + Len(ts)
  BY <1>1, <1>3
<1>5. OnTheWay(k + 1, cb, Tail(ts))
  <2>. SUFFICES ASSUME NEW i \in DOMAIN Tail(ts)
       PROVE  /\ Tail(ts)[i].rn = k + 1 + i
              /\ HasCallback(Tail(ts)[i].call) => Tail(ts)[i] \in cb
    BY DEF OnTheWay
  <2>1. i \in Nat /\ i + 1 \in DOMAIN ts /\ Tail(ts)[i] = ts[i + 1]
    BY <1>2
  <2>2. k + (i + 1) = k + 1 + i
    BY <1>1, <2>1
  <2>. QED
    BY <2>1, <2>2 DEF WireOf, OnTheWay
<1>6. CallbacksNumbered(k + 1, cb, Tail(ts))
  BY <1>4 DEF WireOf, CallbacksNumbered
<1>7. \A r \in cb : r.rn \in Nat
  BY <1>1 DEF SoundRequests, Requests
<1>8. \A i \in DOMAIN q : q[i].type = "answer" => q[i].rn \in Nat
  BY <1>1, AnswersAreNumbered
<1>. DEFINE long == Append(q, block)
<1>9. /\ Len(q) \in Nat /\ DOMAIN q = 1..Len(q) /\ DOMAIN long = 1..(Len(q) + 1)
      /\ \A i \in DOMAIN q : long[i] = q[i]
      /\ long[Len(q) + 1] = block
  BY <1>1, AppendToQueue
<1>. HIDE DEF long
<1>10. \A i \in DOMAIN long :
         (i \in DOMAIN q /\ long[i] = q[i]) \/ (i = Len(q) + 1 /\ long[i] = block)
  BY <1>9
<1>11. \A i \in DOMAIN q : i \in DOMAIN long /\ long[i] = q[i]
  BY <1>9
<1>12. block.rn = k + 1
  BY <1>2 DEF WireOf, OnTheWay
<1>13. \A rn : AnswerIn(q, rn) => AnswerIn(long, rn)
  BY <1>11 DEF AnswerIn
<1>14. AnswerIn(long, k + 1) /\ ~Broken(long)
  BY <1>9, <1>10, <1>12 DEF AnswerIn, Broken
<1>15. \A r \in cb : r.rn <= k + 1 => AnswerIn(long, r.rn)
  <2>1. \A r \in cb : r.rn <= k + 1 => r.rn <= k \/ r.rn = k + 1
    BY <1>1, <1>7
  <2>. QED
    BY <1>13, <1>14, <2>1 DEF WireOf, CallbacksAwaited
<1>16. \A i \in DOMAIN long : long[i].type = "answer" => long[i].rn <= k + 1
  BY <1>1, <1>8, <1>10, <1>12 DEF WireOf, AnswersInOrder
<1>17. ASSUME NEW i \in DOMAIN long, NEW j \in DOMAIN long, i < j,
              long[i].type = "answer", long[j].type = "answer"
       PROVE  long[i].rn < long[j].rn
  <2>1. i \in DOMAIN q /\ long[i] = q[i]
    BY <1>9, <1>10, <1>17
  <2>2. CASE j \in DOMAIN q /\ long[j] = q[j]
    BY <1>17, <2>1, <2>2 DEF WireOf, AnswersInOrder
  <2>3. CASE long[j] = block
    BY <1>1, <1>8, <1>12, <1>17, <2>1, <2>3 DEF WireOf, AnswersInOrder
  <2>. QED
    BY <1>10, <2>2, <2>3
<1>18. AnswersInOrder(k + 1, cb, long)
  <2>1. ASSUME NEW r \in cb, NEW i \in DOMAIN long, long[i].type = "answer", r.rn <= long[i].rn
        PROVE  AnswerIn(long, r.rn)
    <3>1. r.rn \in Nat /\ long[i].rn \in Nat
      BY <1>1, <1>7, <1>8, <1>10, <1>12, <2>1
    <3>2. r.rn <= k + 1
      BY <1>1, <1>16, <2>1, <3>1
    <3>. QED
      BY <1>15, <3>2
  <2>. QED
    BY <1>16, <1>17, <2>1 DEF AnswersInOrder
<1>19. ASSUME NEW r \in cb, r.rn > k + 1 PROVE \E i \in DOMAIN Tail(ts) : Tail(ts)[i] = r
  <2>1. r.rn > k
    BY <1>1, <1>7, <1>19
  <2>2. PICK i \in DOMAIN ts : ts[i] = r
    BY <2>1 DEF WireOf, CallbacksAwaited
  <2>3. i # 1
    BY <1>1, <1>19, <2>2 DEF WireOf, OnTheWay
  <2>. QED
    BY <1>2, <2>2, <2>3
<1>20. CallbacksAwaited(k + 1, cb, Tail(ts), long)
  BY <1>14, <1>15, <1>19 DEF CallbacksAwaited
<1>. QED
  BY <1>4, <1>5, <1>6, <1>18, <1>20 DEF WireOf, long

\* Requests are sent: their callbacks are held, and they follow those on their way.
HeldWith(n, calls, cb, cb2) ==
    /\ cb \subseteq cb2
    /\ \A i \in 1..Len(calls) : HasCallback(calls[i]) => Request(n + i, calls[i]) \in cb2
    /\ \A r \in cb2 :
          \/ r \in cb
          \/ \E i \in 1..Len(calls) : HasCallback(calls[i]) /\ r = Request(n + i, calls[i])

SentWith(n, calls, ts, ts2) ==
    /\ Len(ts2) = Len(ts) + Len(calls)
    /\ \A i \in 1..Len(ts) : ts2[i] = ts[i]
    /\ \A i \in 1..Len(calls) : ts2[Len(ts) + i] = Request(n + i, calls[i])

LEMMA WireSend ==
    ASSUME NEW k, NEW cb, NEW ts, NEW q, WireParts(k, cb, ts, q), WireOf(k, cb, ts, q),
           NEW n \in Nat, n = k + Len(ts), NEW calls \in Seq(SoundCalls),
           NEW cb2 \in SUBSET SoundRequests, NEW ts2 \in Seq(SoundRequests),
           HeldWith(n, calls, cb, cb2), Broken(q) => ts2 = ts, ~Broken(q) => SentWith(n, calls, ts, ts2)
    PROVE  \E m \in Nat : n + Len(calls) = m + Len(ts2) /\ WireOf(m, cb2, ts2, q)
<1>1. ts \in Seq(SoundRequests) /\ k \in Nat /\ cb \subseteq SoundRequests /\ q \in Seq(Blocks)
  BY DEF WireParts
<1>2. /\ Len(ts) \in Nat /\ DOMAIN ts = 1..Len(ts) /\ Len(calls) \in Nat
      /\ Len(ts2) \in Nat /\ DOMAIN ts2 = 1..Len(ts2)
  BY <1>1, LenProperties
<1>3. \A r \in cb2 : r.rn \in Nat
  BY DEF SoundRequests, Requests
<1>4. \A i \in DOMAIN q : q[i].type = "answer" => q[i].rn \in Nat
  BY <1>1, AnswersAreNumbered
<1>5. ASSUME NEW r \in cb2
      PROVE  \/ r \in cb
             \/ \E i \in 1..Len(calls) :
                   HasCallback(r.call) /\ r = Request(n + i, calls[i]) /\ r.rn = n + i
  BY DEF HeldWith, Request
<1>6. \A r \in cb : r.rn <= n
  BY DEF WireOf, CallbacksNumbered
<1>7. \A r \in cb2 : HasCallback(r.call) /\ r.rn <= n + Len(calls)
  <2>. SUFFICES ASSUME NEW r \in cb2 PROVE HasCallback(r.call) /\ r.rn <= n + Len(calls)
    OBVIOUS
  <2>1. CASE r \in cb
    <3>1. r.rn \in Nat /\ r.rn <= n /\ HasCallback(r.call)
      BY <1>3, <1>6, <2>1 DEF WireOf, CallbacksNumbered
    <3>. QED
      BY <1>2, <3>1
  <2>2. CASE \E i \in 1..Len(calls) : HasCallback(r.call) /\ r.rn = n + i
    BY <1>2, <2>2
  <2>. QED
    BY <1>5, <2>1, <2>2
<1>8. ASSUME NEW r \in cb2, NEW s \in cb2, r.rn = s.rn PROVE r = s
  <2>1. CASE r \in cb /\ s \in cb
    BY <1>8, <2>1 DEF WireOf, CallbacksNumbered
  <2>2. ASSUME NEW x \in cb, NEW i \in 1..Len(calls) PROVE x.rn # n + i
    <3>1. x.rn <= n /\ x.rn \in Nat
      BY <1>3, <1>6 DEF HeldWith
    <3>. QED
      BY <1>2, <3>1
  <2>3. ASSUME NEW i \in 1..Len(calls), NEW j \in 1..Len(calls),
               r = Request(n + i, calls[i]), r.rn = n + i, s = Request(n + j, calls[j]), s.rn = n + j
        PROVE  r = s
    <3>1. i \in Nat /\ j \in Nat /\ n + i = n + j
      BY <1>2, <1>8, <2>3
    <3>2. i = j
      BY <3>1
    <3>. QED
      BY <2>3, <3>2
  <2>. QED
    BY <1>5, <1>8, <2>1, <2>2, <2>3
<1>9. CASE Broken(q)
  <2>1. ts = <<>> /\ ts2 = <<>> /\ k = n
    BY <1>1, <1>9 DEF WireOf, CallbacksAwaited
  <2>2. n + Len(calls) \in Nat /\ n + Len(calls) = n + Len(calls) + Len(ts2)
    BY <1>2, <2>1
  <2>3. OnTheWay(n + Len(calls), cb2, ts2)
    BY <2>1 DEF OnTheWay
  <2>4. CallbacksNumbered(n + Len(calls), cb2, ts2)
    BY <1>7, <1>8, <2>2 DEF CallbacksNumbered
  <2>5. \A i \in DOMAIN q : q[i].type = "answer" => q[i].rn <= n
    BY <2>1 DEF WireOf, AnswersInOrder
  <2>6. AnswersInOrder(n + Len(calls), cb2, q)
    <3>1. \A i \in DOMAIN q : q[i].type = "answer" => q[i].rn <= n + Len(calls)
      <4>1. \A x \in Nat : x <= n => x <= n + Len(calls)
        BY <1>2
      <4>. QED
        BY <1>4, <2>5, <4>1
    <3>2. ASSUME NEW r \in cb2, NEW i \in DOMAIN q, q[i].type = "answer", r.rn <= q[i].rn PROVE r \in cb
      <4>1. q[i].rn \in Nat /\ q[i].rn <= n /\ r.rn \in Nat
        BY <1>3, <1>4, <2>5, <3>2
      <4>2. \A j \in 1..Len(calls) : r.rn # n + j
        BY <1>2, <3>2, <4>1
      <4>. QED
        BY <1>5, <4>2
    <3>. QED
      BY <3>1, <3>2 DEF WireOf, AnswersInOrder
  <2>7. CallbacksAwaited(n + Len(calls), cb2, ts2, q)
    BY <1>9, <2>1 DEF CallbacksAwaited
  <2>. QED
    BY <2>2, <2>3, <2>4, <2>6, <2>7 DEF WireOf
<1>10. CASE ~Broken(q)
  <2>1. /\ Len(ts2) = Len(ts) + Len(calls)
        /\ \A i \in 1..Len(ts) : ts2[i] = ts[i]
        /\ \A i \in 1..Len(calls) : ts2[Len(ts) + i] = Request(n + i, calls[i])
    BY <1>10 DEF SentWith
  <2>2. n + Len(calls) = k + Len(ts2)
    BY <1>1, <1>2, <2>1
  <2>3. ASSUME NEW i \in DOMAIN ts2
        PROVE  \/ i \in 1..Len(ts) /\ ts2[i] = ts[i]
               \/ \E j \in 1..Len(calls) : i = Len(ts) + j /\ ts2[i] = Request(n + j, calls[j])
    <3>1. CASE i \in 1..Len(ts)
      BY <2>1, <3>1
    <3>2. CASE i \notin 1..Len(ts)
      <4>1. i - Len(ts) \in 1..Len(calls) /\ i = Len(ts) + (i - Len(ts))
        BY <1>2, <2>1, <3>2
      <4>. QED
        BY <2>1, <4>1
    <3>. QED
      BY <3>1, <3>2
  <2>4. OnTheWay(k, cb2, ts2)
    <3>. SUFFICES ASSUME NEW i \in DOMAIN ts2
         PROVE  ts2[i].rn = k + i /\ (HasCallback(ts2[i].call) => ts2[i] \in cb2)
      BY DEF OnTheWay
    <3>1. CASE i \in 1..Len(ts) /\ ts2[i] = ts[i]
      BY <1>2, <3>1 DEF WireOf, OnTheWay, HeldWith
    <3>2. ASSUME NEW j \in 1..Len(calls), i = Len(ts) + j, ts2[i] = Request(n + j, calls[j])
          PROVE  ts2[i].rn = k + i /\ (HasCallback(ts2[i].call) => ts2[i] \in cb2)
      <4>1. n + j = k + i
        BY <1>1, <1>2, <3>2
      <4>2. ts2[i].rn = n + j /\ ts2[i].call = calls[j]
        BY <3>2 DEF Request
      <4>. QED
        BY <3>2, <4>1, <4>2 DEF HeldWith
    <3>. QED
      BY <2>3, <3>1, <3>2
  <2>5. CallbacksNumbered(k, cb2, ts2)
    BY <1>7, <1>8, <2>2 DEF CallbacksNumbered
  <2>6. ASSUME NEW r \in cb2, r.rn <= k PROVE r \in cb
    <3>1. r.rn \in Nat
      BY <1>3
    <3>2. \A j \in 1..Len(calls) : r.rn # n + j
      BY <1>1, <1>2, <2>6, <3>1
    <3>. QED
      BY <1>5, <3>2
  <2>7. AnswersInOrder(k, cb2, q)
    <3>1. ASSUME NEW r \in cb2, NEW i \in DOMAIN q, q[i].type = "answer", r.rn <= q[i].rn PROVE r \in cb
      <4>1. q[i].rn <= k /\ q[i].rn \in Nat /\ r.rn \in Nat
        BY <1>3, <1>4, <3>1 DEF WireOf, AnswersInOrder
      <4>2. r.rn <= k
        BY <1>1, <3>1, <4>1
      <4>. QED
        BY <2>6, <4>2
    <3>. QED
      BY <3>1 DEF WireOf, AnswersInOrder
  <2>8. ASSUME NEW r \in cb2, r.rn > k PROVE \E i \in DOMAIN ts2 : ts2[i] = r
    <3>1. CASE r \in cb
      <4>1. PICK i \in DOMAIN ts : ts[i] = r
        BY <1>10, <2>8, <3>1 DEF WireOf, CallbacksAwaited
      <4>2. i \in DOMAIN ts2 /\ ts2[i] = r
        BY <1>2, <2>1, <4>1
      <4>. QED
        BY <4>2
    <3>2. ASSUME NEW j \in 1..Len(calls), r = Request(n + j, calls[j])
          PROVE  \E i \in DOMAIN ts2 : ts2[i] = r
      <4>1. Len(ts) + j \in DOMAIN ts2
        BY <1>2, <2>1
      <4>. QED
        BY <2>1, <3>2, <4>1
    <3>. QED
      BY <1>5, <3>1, <3>2
  <2>9. CallbacksAwaited(k, cb2, ts2, q)
    BY <1>10, <2>6, <2>8 DEF WireOf, CallbacksAwaited
  <2>. QED
    BY <1>1, <2>2, <2>4, <2>5, <2>7, <2>9 DEF WireOf
<1>. QED
  BY <1>9, <1>10

-----------------------------------------------------------------------------
(* The wire at all times.                                                  *)

LEMMA WireFacts ==
    ASSUME Types, NEW k \in Nat
    PROVE  /\ WireParts(k, requestCBHash, toServer, workQueue)
           /\ requestNumber \in Nat /\ Len(toServer) \in Nat
           /\ LinkBroken <=> Broken(workQueue)
BY LenProperties DEF Types, WireTypes, QueueTypes, WireParts, LinkBroken, Queued, Broken

LEMMA WireWitness ==
    ASSUME NEW k \in Nat, ServedUpTo(k)', WireTypes'
    PROVE  Wire'
<1>1. requestNumber' = k + Len(toServer') /\ Len(toServer') \in Nat
  BY LenProperties DEF ServedUpTo, WireTypes
<1>2. k \in 0..requestNumber'
  BY <1>1
<1>. QED
  BY <1>2 DEF Wire

LEMMA SendHolds ==
    ASSUME WireTypes, NEW held \in SUBSET requestCBHash, NEW calls \in Seq(SoundCalls),
           Send(held, calls)
    PROVE  HeldWith(requestNumber, calls, held, requestCBHash')
BY SendEffect DEF HeldWith

LEMMA SendKeepsWire ==
    ASSUME Types, NEW k \in Nat, requestNumber = k + Len(toServer),
           NEW held \in SUBSET requestCBHash, NEW calls \in Seq(SoundCalls), Send(held, calls),
           WireOf(k, held, toServer, workQueue'), workQueue' \in Seq(Blocks),
           LinkBroken <=> Broken(workQueue')
    PROVE  Wire'
<1>1. /\ WireTypes'
      /\ requestNumber' = requestNumber + Len(calls)
      /\ HeldWith(requestNumber, calls, held, requestCBHash')
      /\ Broken(workQueue') => toServer' = toServer
      /\ ~Broken(workQueue') => SentWith(requestNumber, calls, toServer, toServer')
  BY SendEffect DEF Types, HeldWith, SentWith
<1>2. WireParts(k, held, toServer, workQueue') /\ requestNumber \in Nat
  BY DEF Types, WireTypes, WireParts
<1>3. requestCBHash' \in SUBSET SoundRequests /\ toServer' \in Seq(SoundRequests)
  BY <1>1 DEF WireTypes
<1>4. PICK m \in Nat : /\ requestNumber + Len(calls) = m + Len(toServer')
                      /\ WireOf(m, requestCBHash', toServer', workQueue')
  BY <1>1, <1>2, <1>3, WireSend
<1>5. ServedUpTo(m)'
  BY <1>1, <1>4 DEF ServedUpTo
<1>. QED
  BY <1>1, <1>5, WireWitness

LEMMA WireInit == Init => Wire
<1>. SUFFICES ASSUME Init PROVE Wire
  OBVIOUS
<1>1. requestNumber = 0 /\ requestCBHash = {} /\ toServer = <<>> /\ workQueue = <<>>
  BY DEF Init
<1>2. WireOf(0, requestCBHash, toServer, workQueue)
  BY <1>1 DEF WireOf, OnTheWay, CallbacksNumbered, AnswersInOrder, CallbacksAwaited
<1>3. ServedUpTo(0) /\ 0 \in 0..requestNumber
  BY <1>1, <1>2 DEF ServedUpTo
<1>. QED
  BY <1>3 DEF Wire

LEMMA WireStep == Types /\ Control /\ Wire /\ [Next]_vars => Wire'
<1>. SUFFICES ASSUME Types, Control, Wire, [Next]_vars PROVE Wire'
  OBVIOUS
<1>1. PICK k \in Nat : ServedUpTo(k)
  BY DEF Wire, Types, WireTypes
<1>2. requestNumber = k + Len(toServer) /\ WireOf(k, requestCBHash, toServer, workQueue)
  BY <1>1 DEF ServedUpTo
<1>3. /\ WireParts(k, requestCBHash, toServer, workQueue)
      /\ requestNumber \in Nat /\ Len(toServer) \in Nat
      /\ LinkBroken <=> Broken(workQueue)
  BY WireFacts
<1>4. WireTypes' /\ workQueue' \in Seq(Blocks)
  BY WireTypeStep DEF Types, QueueTypes
<1>5. workQueue \in Seq(Blocks)
  BY DEF Types, QueueTypes
<1>6. CASE UNCHANGED <<wireVars, workQueue>>
  <2>1. ServedUpTo(k)'
    BY <1>2, <1>6 DEF ServedUpTo, wireVars
  <2>. QED
    BY <1>4, <2>1, WireWitness
<1>7. CASE Drop
  <2>1. PICK pending \in Seq(Blocks) : OnDisconnect(pending)
    BY <1>5, <1>7, TailOfQueue DEF Drop
  <2>2. /\ workQueue' = Announcements(pending) /\ requestNumber' = 0 /\ requestCBHash' = {}
        /\ toServer' = <<>>
    BY <2>1 DEF OnDisconnect, CloseSocket
  <2>3. \A i \in DOMAIN workQueue' : workQueue'[i].type = "onConnect"
    BY <2>2, AnnouncementsOnly
  <2>4. WireOf(0, requestCBHash', toServer', workQueue')
    BY <2>2, <2>3 DEF WireOf, OnTheWay, CallbacksNumbered, AnswersInOrder, CallbacksAwaited
  <2>5. ServedUpTo(0)'
    BY <2>2, <2>4 DEF ServedUpTo
  <2>. QED
    BY <1>4, <2>5, WireWitness
<1>8. CASE Pop
  <2>1. WireOf(k, requestCBHash, toServer, Tail(workQueue))
    BY <1>2, <1>3, <1>8, WirePop DEF Pop
  <2>2. ServedUpTo(k)'
    BY <1>2, <1>8, <2>1 DEF Pop, wireVars, ServedUpTo
  <2>. QED
    BY <1>4, <2>2, WireWitness
<1>9. CASE Answers
  <2>1. PICK request \in requestCBHash :
          /\ workQueue # <<>> /\ Head(workQueue).type = "answer" /\ request.rn = Head(workQueue).rn
          /\ workQueue' = Tail(workQueue) /\ requestCBHash' = requestCBHash \ {request}
          /\ requestNumber' = requestNumber /\ toServer' = toServer
    BY <1>9 DEF Answers, HeadIs, Consume
  <2>2. WireOf(k, requestCBHash \ {request}, toServer, Tail(workQueue))
    BY <1>2, <1>3, <2>1, WireAnswer
  <2>3. ServedUpTo(k)'
    BY <1>2, <2>1, <2>2 DEF ServedUpTo
  <2>. QED
    BY <1>4, <2>3, WireWitness
<1>10. CASE ApiSends
  <2>1. PICK call \in SoundCalls : Send(requestCBHash, <<call>>) /\ workQueue' = workQueue
    BY <1>10 DEF ApiSends
  <2>2. <<call>> \in Seq(SoundCalls)
    BY OneCall
  <2>. QED
    BY <1>2, <1>3, <1>5, <2>1, <2>2, SendKeepsWire
<1>11. CASE OnReady
  <2>1. /\ workQueue # <<>> /\ Head(workQueue).type = "hello" /\ realtime = "connecting"
        /\ workQueue' = Append(Tail(workQueue), Block("onConnect"))
    BY <1>11 DEF OnReady, HeadIs
  <2>2. PICK calls \in Seq(SoundCalls) : Send(requestCBHash, calls)
    BY <1>11, ReadySends DEF Types
  <2>3. Block("onConnect") \in Blocks /\ Block("onConnect").type = "onConnect"
    BY DEF Block, Blocks
  <2>4. WireOf(k, requestCBHash, toServer, Tail(workQueue))
    BY <1>2, <1>3, <2>1, WirePop
  <2>5. Tail(workQueue) \in Seq(Blocks)
    BY <1>5, <2>1, TailOfQueue
  <2>6. WireParts(k, requestCBHash, toServer, Tail(workQueue))
    BY <1>3, <2>5 DEF WireParts
  <2>7. WireOf(k, requestCBHash, toServer, workQueue')
    BY <2>1, <2>3, <2>4, <2>6, WireAppend
  <2>8. Broken(workQueue') <=> Broken(workQueue)
    <3>1. /\ Head(workQueue) = workQueue[1]
          /\ \A i \in DOMAIN Tail(workQueue) : i + 1 \in DOMAIN workQueue /\ Tail(workQueue)[i] = workQueue[i + 1]
          /\ \A i \in DOMAIN workQueue : i # 1 =>
                i - 1 \in DOMAIN Tail(workQueue) /\ Tail(workQueue)[i - 1] = workQueue[i]
      BY <1>5, <2>1, TailOfQueue
    <3>2. Broken(Tail(workQueue)) <=> Broken(workQueue)
      BY <2>1, <3>1 DEF Broken
    <3>3. PICK q \in Seq(Blocks) : q = Tail(workQueue)
      BY <2>5
    <3>4. /\ Len(q) \in Nat /\ DOMAIN q = 1..Len(q) /\ DOMAIN workQueue' = 1..(Len(q) + 1)
          /\ \A i \in DOMAIN q : workQueue'[i] = q[i]
          /\ workQueue'[Len(q) + 1] = Block("onConnect")
      BY <2>1, <2>3, <3>3, AppendToQueue
    <3>5. Broken(workQueue') <=> Broken(q)
      BY <2>3, <3>4 DEF Broken
    <3>. QED
      BY <3>2, <3>3, <3>5
  <2>. QED
    BY <1>2, <1>3, <1>4, <2>2, <2>7, <2>8, SendKeepsWire
<1>12. CASE OnAuthAccepted("auth")
  <2>1. PICK calls \in Seq(SoundCalls), request \in requestCBHash :
          /\ HeadIs("answer") /\ request.rn = Head(workQueue).rn
          /\ Send(requestCBHash \ {request}, calls) /\ workQueue' = Tail(workQueue)
    BY <1>12, AcceptedSends DEF Types
  <2>2. workQueue # <<>> /\ Head(workQueue).type = "answer"
    BY <2>1 DEF HeadIs
  <2>3. WireOf(k, requestCBHash \ {request}, toServer, workQueue')
    BY <1>2, <1>3, <2>1, <2>2, WireAnswer
  <2>4. Broken(workQueue') <=> Broken(workQueue)
    <3>1. /\ Head(workQueue) = workQueue[1]
          /\ \A i \in DOMAIN Tail(workQueue) : i + 1 \in DOMAIN workQueue /\ Tail(workQueue)[i] = workQueue[i + 1]
          /\ \A i \in DOMAIN workQueue : i # 1 =>
                i - 1 \in DOMAIN Tail(workQueue) /\ Tail(workQueue)[i - 1] = workQueue[i]
      BY <1>5, <2>2, TailOfQueue
    <3>. QED
      BY <2>1, <2>2, <3>1 DEF Broken
  <2>5. requestCBHash \ {request} \in SUBSET requestCBHash
    OBVIOUS
  <2>. QED
    BY <1>2, <1>3, <1>4, <2>1, <2>3, <2>4, <2>5, SendKeepsWire
<1>13. CASE ServerSpeaks
  <2>1. PICK block \in Blocks :
          /\ block.type \notin {"answer", "closed"} /\ workQueue' = Append(workQueue, block)
          /\ UNCHANGED wireVars
    BY <1>13 DEF ServerSpeaks
  <2>2. WireOf(k, requestCBHash, toServer, workQueue')
    BY <1>2, <1>3, <2>1, WireAppend
  <2>3. ServedUpTo(k)'
    BY <1>2, <2>1, <2>2 DEF wireVars, ServedUpTo
  <2>. QED
    BY <1>4, <2>3, WireWitness
<1>14. CASE LinkBreaks
  <2>1. /\ workQueue' = Append(workQueue, Block("closed")) /\ toServer' = <<>>
        /\ requestNumber' = requestNumber /\ requestCBHash' = requestCBHash
    BY <1>14 DEF LinkBreaks, Receive
  <2>2. WireOf(requestNumber, requestCBHash', toServer', workQueue')
    BY <1>2, <1>3, <2>1, WireBreak
  <2>3. requestNumber' = requestNumber + Len(toServer')
    BY <1>3, <2>1
  <2>4. ServedUpTo(requestNumber)'
    BY <2>1, <2>2, <2>3 DEF ServedUpTo
  <2>5. Wire'
    BY <1>3, <2>1, <2>2, <2>3 DEF Wire, ServedUpTo
  <2>. QED
    BY <2>5
<1>15. ASSUME NEW ok \in BOOLEAN, ServerAnswers(ok) PROVE Wire'
  <2>1. /\ ~Broken(workQueue) /\ toServer # <<>> /\ toServer' = Tail(toServer)
        /\ requestNumber' = requestNumber /\ requestCBHash' = requestCBHash
    BY <1>3, <1>15 DEF ServerAnswers, Reachable
  <2>2. CASE HasCallback(Head(toServer).call)
    <3>1. PICK value : workQueue' = Append(workQueue, Answer(Head(toServer).rn, ok, value))
                       /\ value \in {published, 0}
      BY <1>15, <2>2 DEF ServerAnswers, Receive
    <3>2. Head(toServer) \in SoundRequests
      BY <2>1, TailOfQueue DEF Types, WireTypes
    <3>3. /\ Answer(Head(toServer).rn, ok, value) \in Blocks
          /\ Answer(Head(toServer).rn, ok, value).type = "answer"
          /\ Answer(Head(toServer).rn, ok, value).rn = Head(toServer).rn
      BY <3>1, <3>2 DEF Answer, Blocks, SoundRequests, Requests, Types, ServerTypes
    <3>4. WireOf(k + 1, requestCBHash, toServer', workQueue') /\ requestNumber = k + 1 + Len(toServer')
      BY <1>2, <1>3, <2>1, <3>1, <3>3, WireServeAnswer
    <3>5. ServedUpTo(k + 1)'
      BY <2>1, <3>4 DEF ServedUpTo
    <3>. QED
      BY <1>4, <3>5, WireWitness
  <2>3. CASE ~HasCallback(Head(toServer).call)
    <3>1. workQueue' = workQueue
      BY <1>15, <2>3 DEF ServerAnswers
    <3>2. WireOf(k + 1, requestCBHash, toServer', workQueue') /\ requestNumber = k + 1 + Len(toServer')
      BY <1>2, <1>3, <2>1, <2>3, <3>1, WireServe
    <3>3. ServedUpTo(k + 1)'
      BY <2>1, <3>2 DEF ServedUpTo
    <3>. QED
      BY <1>4, <3>3, WireWitness
  <2>. QED
    BY <2>2, <2>3
<1>. QED
  BY <1>6, <1>7, <1>8, <1>9, <1>10, <1>11, <1>12, <1>13, <1>14, <1>15, WireFrame DEF Types

-----------------------------------------------------------------------------
(* The credential.                                                         *)

\* While the credential of a connection is checked, it is its first request, and
\* nothing that needs it was sent.
CredentialChecked ==
    /\ connectionState = "Authenticating" <=> \E r \in requestCBHash : r.call.type = "auth"
    /\ \A r \in requestCBHash : r.call.type = "auth" => r.rn = 1
    /\ connectionState = "Authenticating" =>
          \A r \in requestCBHash : r.call.type \notin {"put", "get", "onDisconnect"}

\* The answer that is processed is the one to the oldest request with a callback.
LEMMA OldestIsAnswered ==
    ASSUME Types, Wire, HeadIs("answer"), NEW request \in requestCBHash,
           request.rn = Head(workQueue).rn, NEW r \in requestCBHash, r # request
    PROVE  request.rn < r.rn
<1>1. PICK k \in Nat : WireOf(k, requestCBHash, toServer, workQueue)
  BY DEF Wire, ServedUpTo, Types, WireTypes
<1>2. workQueue \in Seq(Blocks) /\ workQueue # <<>> /\ Head(workQueue).type = "answer"
  BY DEF HeadIs, Types, QueueTypes
<1>3. /\ 1 \in DOMAIN workQueue /\ workQueue[1].type = "answer" /\ workQueue[1].rn = request.rn
      /\ \A j \in DOMAIN workQueue : j = 1 \/ 1 < j
  <2>1. 1 \in DOMAIN workQueue /\ Head(workQueue) = workQueue[1]
    BY <1>2, TailOfQueue
  <2>2. \A j \in DOMAIN workQueue : j = 1 \/ 1 < j
    BY <1>2, LenProperties
  <2>. QED
    BY <1>2, <2>1, <2>2
<1>4. request.rn \in Nat /\ r.rn \in Nat
  BY DEF Types, WireTypes, SoundRequests, Requests
<1>5. r.rn # request.rn
  BY <1>1 DEF WireOf, CallbacksNumbered
<1>6. ASSUME r.rn < request.rn PROVE FALSE
  <2>1. r.rn <= workQueue[1].rn
    BY <1>3, <1>4, <1>6
  <2>2. PICK j \in DOMAIN workQueue : workQueue[j].type = "answer" /\ workQueue[j].rn = r.rn
    BY <1>1, <1>3, <2>1 DEF WireOf, AnswersInOrder, AnswerIn
  <2>3. j # 1
    BY <1>3, <1>5, <2>2
  <2>4. workQueue[1].rn < workQueue[j].rn
    BY <1>1, <1>3, <2>2, <2>3 DEF WireOf, AnswersInOrder
  <2>. QED
    BY <1>3, <1>4, <1>6, <2>2, <2>4
<1>. QED
  BY <1>4, <1>5, <1>6

\* The steps that may change the state of a connection.
LEMMA StateChange ==
    ASSUME Types, Control, [Next]_vars
    PROVE  \/ connectionState' = connectionState
           \/ Drop \/ OnReady \/ \E type \in {"auth", "reauth"} : OnAuthAccepted(type)
           \/ /\ requestCBHash = {} /\ requestCBHash' = {} /\ toServer' = toServer
              /\ connectionState' \notin {"Authenticating", "Connected"}
              /\ connectionState \notin {"Authenticating", "Connected"}
<1>1. CASE GiveUp
  BY <1>1, ControlFacts DEF GiveUp, wireVars
<1>2. CASE Ends
  BY <1>1, <1>2, EndsByDropOrGiveUp
<1>3. CASE RunRetry
  <2>1. scheduledRetry # NoRetry /\ connectionState' \in {"GettingToken", "Connecting"} /\ UNCHANGED wireVars
    BY <1>3 DEF RunRetry, OpenNetworkConnection
  <2>. QED
    BY <2>1, ControlFacts DEF wireVars
<1>4. CASE Fetching
  <2>1. CASE FetchStale
    BY <2>1 DEF FetchStale, stateVars
  <2>2. CASE FetchFails \/ \E token \in BOOLEAN : FetchDone(token)
    <3>1. /\ "latest" \in fetches /\ UNCHANGED wireVars
          /\ \/ connectionState' = connectionState
             \/ connectionState' \in {"Disconnected", "Connecting"}
      BY <2>2 DEF FetchFails, FetchDone, OpenNetworkConnection
    <3>2. connectionState \in {"GettingToken", "Disconnected"}
      BY <3>1 DEF Control, FetchUnderWay
    <3>. QED
      BY <3>1, <3>2, ControlFacts DEF wireVars
  <2>. QED
    BY <1>4, <2>1, <2>2 DEF Fetching
<1>5. CASE UNCHANGED <<retryVars, authVars, stateVars, infoConnected>>
  BY <1>5 DEF stateVars
<1>. QED
  BY <1>2, <1>3, <1>4, <1>5, StateFrame DEF OnConnect, Open, GoOnline, Resume, WakeUp,
     RefreshAuthToken, RefreshAppCheckToken, stateVars

\* A token is accepted again only after the first one: its answer came before.
LEMMA AcceptedAgain ==
    ASSUME Types, Wire, CredentialChecked, OnAuthAccepted("reauth")
    PROVE  \A r \in requestCBHash : r.call.type # "auth"
<1>1. PICK request \in requestCBHash :
        HeadIs("answer") /\ request.rn = Head(workQueue).rn /\ request.call.type = "reauth"
  BY DEF OnAuthAccepted, Answered
<1>2. ASSUME NEW r \in requestCBHash, r.call.type = "auth" PROVE FALSE
  <2>1. r.rn = 1 /\ r # request
    BY <1>1, <1>2 DEF CredentialChecked
  <2>2. request.rn < 1
    BY <1>1, <2>1, OldestIsAnswered
  <2>3. request.rn \in Nat \ {0}
    BY DEF Types, WireTypes, SoundRequests, Requests
  <2>. QED
    BY <2>2, <2>3
<1>. QED
  BY <1>2

LEMMA CredentialStep ==
    Types /\ Control /\ Wire /\ CredentialChecked /\ [Next]_vars => CredentialChecked'
<1>. SUFFICES ASSUME Types, Control, Wire, CredentialChecked, [Next]_vars PROVE CredentialChecked'
  OBVIOUS
<1>1. CASE Drop
  <2>1. requestCBHash' = {} /\ connectionState' = "Disconnected"
    BY <1>1 DEF Drop, OnDisconnect
  <2>. QED
    BY <2>1 DEF CredentialChecked
<1>2. CASE OnReady
  <2>1. requestCBHash = {} /\ requestNumber = 0
    BY <1>2 DEF OnReady, Control, NothingOutlivesConnection
  <2>2. PICK calls \in Seq(SoundCalls) :
          /\ Send(requestCBHash, calls)
          /\ \/ Restoring(calls) /\ connectionState' = "Connected"
             \/ calls = <<Call("auth", 0)>> /\ connectionState' = "Authenticating"
    BY <1>2, ReadySends DEF Types
  <2>6. HeldWith(requestNumber, calls, requestCBHash, requestCBHash')
    BY <2>2, SendHolds DEF Types
  <2>3. HeldWith(0, calls, {}, requestCBHash')
    BY <2>1, <2>6
  <2>4. CASE Restoring(calls) /\ connectionState' = "Connected"
    <3>1. \A r \in requestCBHash' : r.call.type # "auth"
      BY <2>3, <2>4 DEF HeldWith, Restoring, Request
    <3>. QED
      BY <2>4, <3>1 DEF CredentialChecked
  <2>5. CASE calls = <<Call("auth", 0)>> /\ connectionState' = "Authenticating"
    <3>1. Len(calls) = 1 /\ calls[1] = Call("auth", 0) /\ HasCallback(Call("auth", 0))
      BY <2>5 DEF Call, HasCallback
    <3>2. requestCBHash' = {Request(1, Call("auth", 0))}
      <4>1. \A i \in 1..Len(calls) : i = 1 /\ 0 + i = 1
        BY <3>1
      <4>2. 1 \in 1..Len(calls) /\ 0 + 1 = 1
        BY <3>1
      <4>3. Request(1, Call("auth", 0)) \in requestCBHash'
        BY <2>3, <3>1, <4>2 DEF HeldWith
      <4>4. \A r \in requestCBHash' : r = Request(1, Call("auth", 0))
        BY <2>3, <3>1, <4>1 DEF HeldWith
      <4>. QED
        BY <4>3, <4>4
    <3>3. Request(1, Call("auth", 0)).rn = 1 /\ Request(1, Call("auth", 0)).call.type = "auth"
      BY DEF Request, Call
    <3>. QED
      BY <2>5, <3>2, <3>3 DEF CredentialChecked
  <2>. QED
    BY <2>2, <2>4, <2>5
<1>3. CASE OnAuthAccepted("auth")
  <2>1. PICK calls \in Seq(SoundCalls), request \in requestCBHash :
          /\ request.call.type = "auth"
          /\ Send(requestCBHash \ {request}, calls) /\ Restoring(calls)
          /\ connectionState' = "Connected"
    BY <1>3, AcceptedSends DEF Types
  <2>2. HeldWith(requestNumber, calls, requestCBHash \ {request}, requestCBHash')
    BY <2>1, SendHolds DEF Types
  <2>3. \A r \in requestCBHash \ {request} : r.call.type # "auth"
    BY <2>1 DEF CredentialChecked, Wire, ServedUpTo, WireOf, CallbacksNumbered
  <2>4. \A i \in 1..Len(calls) : Request(requestNumber + i, calls[i]).call.type # "auth"
    BY <2>1 DEF Restoring, Request
  <2>5. \A r \in requestCBHash' : r.call.type # "auth"
    BY <2>2, <2>3, <2>4 DEF HeldWith
  <2>. QED
    BY <2>1, <2>5 DEF CredentialChecked
<1>4. CASE OnAuthAccepted("reauth")
  <2>1. PICK request \in requestCBHash :
          /\ HeadIs("answer") /\ request.rn = Head(workQueue).rn /\ request.call.type = "reauth"
          /\ connectionState' = "Connected" /\ requestCBHash' = requestCBHash \ {request}
    BY <1>4 DEF OnAuthAccepted, Answered, Consume
  <2>2. \A r \in requestCBHash : r.call.type # "auth"
    BY <1>4, AcceptedAgain
  <2>. QED
    BY <2>1, <2>2 DEF CredentialChecked
<1>5. CASE /\ requestCBHash' = {} /\ connectionState' \notin {"Authenticating", "Connected"}
  BY <1>5 DEF CredentialChecked
<1>6. CASE connectionState' = connectionState
  <2>1. CASE requestCBHash' = requestCBHash
    BY <1>6, <2>1 DEF CredentialChecked
  <2>2. CASE Answers
    <3>1. PICK request \in requestCBHash :
            request.call.type # "auth" /\ requestCBHash' = requestCBHash \ {request}
      BY <2>2 DEF Answers, Consume
    <3>. QED
      BY <1>6, <3>1 DEF CredentialChecked
  <2>3. CASE ApiSends
    <3>1. PICK call \in SoundCalls :
            /\ call.type # "auth" /\ Send(requestCBHash, <<call>>)
            /\ call.type \in {"put", "get", "onDisconnect"} => canSend
      BY <2>3 DEF ApiSends
    <3>2. <<call>> \in Seq(SoundCalls) /\ Len(<<call>>) = 1 /\ <<call>>[1] = call
      BY OneCall
    <3>3. HeldWith(requestNumber, <<call>>, requestCBHash, requestCBHash')
      BY <3>1, <3>2, SendHolds DEF Types
    <3>4. requestCBHash \subseteq requestCBHash' /\ \A r \in requestCBHash' : r \in requestCBHash \/ r.call = call
      BY <3>2, <3>3 DEF HeldWith, Request
    <3>. QED
      BY <1>6, <3>1, <3>4 DEF CredentialChecked, canSend
  <2>. QED
    BY <1>1, <1>2, <1>3, <2>1, <2>2, <2>3, WireFrame DEF Types, Pop, ServerSpeaks, LinkBreaks, ServerAnswers, wireVars
<1>. QED
  BY <1>1, <1>2, <1>3, <1>4, <1>5, <1>6, StateChange

Core == Types /\ Control /\ Wire /\ CredentialChecked

LEMMA CoreInit == Init => Core
<1>1. Init => CredentialChecked
  BY DEF Init, CredentialChecked
<1>. QED
  BY <1>1, TypesInit, ControlInit, WireInit DEF Core

LEMMA CoreStep == Core /\ [Next]_vars => Core'
BY TypesStep, ControlStep, WireStep, CredentialStep DEF Core

\* No read and no write is sent before the server accepted the credential of the
\* connection, whatever tokens are pushed meanwhile (restoreAuth, canSendWrites).
THEOREM CredentialComesFirst == Spec => []CredentialFirst
<1>1. Core => CredentialFirst
  BY DEF Core, CredentialChecked, CredentialFirst
<1>. QED
  BY <1>1, CoreInit, CoreStep, PTL DEF Spec

-----------------------------------------------------------------------------
(* Which callbacks a step may touch.                                       *)

CallersTypes == {"put", "get", "listen", "onDisconnect"}

Keeps(type) ==
    \A r \in SoundRequests : r.call.type = type => (r \in requestCBHash' <=> r \in requestCBHash)

\* One call is sent.
LEMMA OneSent ==
    ASSUME WireTypes, NEW call \in SoundCalls, Send(requestCBHash, <<call>>)
    PROVE  /\ requestCBHash \subseteq requestCBHash'
           /\ \A r \in requestCBHash' : r \in requestCBHash \/ r = Request(requestNumber + 1, call)
           /\ HasCallback(call) => Request(requestNumber + 1, call) \in requestCBHash'
<1>1. <<call>> \in Seq(SoundCalls) /\ Len(<<call>>) = 1 /\ <<call>>[1] = call
  BY OneCall
<1>2. HeldWith(requestNumber, <<call>>, requestCBHash, requestCBHash')
  BY <1>1, SendHolds
<1>. QED
  BY <1>1, <1>2 DEF HeldWith

LEMMA OthersKeptBySend ==
    ASSUME WireTypes, NEW call \in SoundCalls, Send(requestCBHash, <<call>>), NEW type, call.type # type
    PROVE  Keeps(type)
<1>1. Request(requestNumber + 1, call).call = call
  BY DEF Request
<1>. QED
  BY <1>1, OneSent DEF Keeps

LEMMA OthersKeptByAnswer ==
    ASSUME NEW request \in requestCBHash, Consume(request), NEW type, request.call.type # type
    PROVE  Keeps(type)
BY DEF Consume, Keeps

LEMMA OthersKept ==
    ASSUME IdTypes, WireTypes
    PROVE  /\ OnGetAnswer \/ GetData => \A type \in CallersTypes \ {"get"} : Keeps(type)
           /\ OnPutAnswer \/ PutData => \A type \in CallersTypes \ {"put"} : Keeps(type)
           /\ OnListenAnswer \/ Listen => \A type \in CallersTypes \ {"listen"} : Keeps(type)
           /\ OnOnDisconnectAnswer \/ OnDisconnectOperation =>
                 \A type \in CallersTypes \ {"onDisconnect"} : Keeps(type)
<1>1. ASSUME NEW t, NEW request \in requestCBHash, Answered(request, t), Consume(request)
      PROVE  \A type \in CallersTypes \ {t} : Keeps(type)
  BY <1>1, OthersKeptByAnswer DEF Answered
<1>2. ASSUME NEW call \in SoundCalls, Send(requestCBHash, <<call>>)
      PROVE  \A type \in CallersTypes \ {call.type} : Keeps(type)
  BY <1>2, OthersKeptBySend
<1>3. UNCHANGED wireVars => \A type : Keeps(type)
  BY DEF wireVars, Keeps
<1>4. ASSUME OnGetAnswer \/ GetData PROVE \A type \in CallersTypes \ {"get"} : Keeps(type)
  <2>1. CASE OnGetAnswer
    BY <1>1, <2>1 DEF OnGetAnswer
  <2>2. CASE GetData
    <3>1. Call("get", getCounter + 1) \in SoundCalls /\ Call("get", getCounter + 1).type = "get"
      BY <2>2, BoundsAssumption DEF GetData, IdTypes, SoundCalls, Call, IdFits, CallTypes, Gets
    <3>2. Send(requestCBHash, <<Call("get", getCounter + 1)>>) \/ UNCHANGED wireVars
      BY <2>2 DEF GetData
    <3>. QED
      BY <1>2, <1>3, <3>1, <3>2
  <2>. QED
    BY <1>4, <2>1, <2>2
<1>5. ASSUME OnPutAnswer \/ PutData PROVE \A type \in CallersTypes \ {"put"} : Keeps(type)
  <2>1. CASE OnPutAnswer
    BY <1>1, <2>1 DEF OnPutAnswer
  <2>2. CASE PutData
    <3>1. Call("put", putCounter + 1) \in SoundCalls /\ Call("put", putCounter + 1).type = "put"
      BY <2>2, BoundsAssumption DEF PutData, IdTypes, SoundCalls, Call, IdFits, CallTypes, Puts
    <3>2. Send(requestCBHash, <<Call("put", putCounter + 1)>>) \/ UNCHANGED wireVars
      BY <2>2 DEF PutData
    <3>. QED
      BY <1>2, <1>3, <3>1, <3>2
  <2>. QED
    BY <1>5, <2>1, <2>2
<1>6. ASSUME OnListenAnswer \/ Listen PROVE \A type \in CallersTypes \ {"listen"} : Keeps(type)
  <2>1. CASE OnListenAnswer
    BY <1>1, <2>1 DEF OnListenAnswer
  <2>2. CASE Listen
    <3>1. Call("listen", listenCounter + 1) \in SoundCalls /\ Call("listen", listenCounter + 1).type = "listen"
      BY <2>2, BoundsAssumption DEF Listen, IdTypes, SoundCalls, Call, IdFits, CallTypes, Listens
    <3>2. Send(requestCBHash, <<Call("listen", listenCounter + 1)>>) \/ UNCHANGED wireVars
      BY <2>2 DEF Listen
    <3>. QED
      BY <1>2, <1>3, <3>1, <3>2
  <2>. QED
    BY <1>6, <2>1, <2>2
<1>7. ASSUME OnOnDisconnectAnswer \/ OnDisconnectOperation
      PROVE  \A type \in CallersTypes \ {"onDisconnect"} : Keeps(type)
  <2>1. CASE OnOnDisconnectAnswer
    BY <1>1, <2>1 DEF OnOnDisconnectAnswer
  <2>2. CASE OnDisconnectOperation
    <3>1. /\ Call("onDisconnect", onDisconnectCounter + 1) \in SoundCalls
          /\ Call("onDisconnect", onDisconnectCounter + 1).type = "onDisconnect"
      BY <2>2, BoundsAssumption DEF OnDisconnectOperation, IdTypes, SoundCalls, Call, IdFits,
         CallTypes, OnDisconnects
    <3>2. Send(requestCBHash, <<Call("onDisconnect", onDisconnectCounter + 1)>>) \/ UNCHANGED wireVars
      BY <2>2 DEF OnDisconnectOperation
    <3>. QED
      BY <1>2, <1>3, <3>1, <3>2
  <2>. QED
    BY <1>7, <2>1, <2>2
<1>. QED
  BY <1>4, <1>5, <1>6, <1>7

LEMMA CallbackFrame ==
    ASSUME Types, [Next]_vars
    PROVE  \/ \A type \in CallersTypes : Keeps(type)
           \/ Drop \/ Restores
           \/ OnGetAnswer \/ GetData \/ OnPutAnswer \/ PutData \/ OnListenAnswer \/ Listen
           \/ OnOnDisconnectAnswer \/ OnDisconnectOperation
<1>. USE DEF Types
<1>1. requestCBHash' = requestCBHash => \A type : Keeps(type)
  BY DEF Keeps
<1>2. CASE Ends
  BY <1>1, <1>2, EndsByDropOrGiveUp DEF GiveUp, wireVars
<1>3. ASSUME NEW call \in SoundCalls, Send(requestCBHash, <<call>>), call.type \notin CallersTypes
      PROVE  \A type \in CallersTypes : Keeps(type)
  BY <1>3, OthersKeptBySend
<1>4. CASE OnReady
  <2>1. CASE connectionState' = "Connected" /\ RestoreState(requestCBHash)
    BY <1>4, <2>1 DEF Restores
  <2>2. CASE Send(requestCBHash, <<Call("auth", 0)>>)
    <3>1. Call("auth", 0) \in SoundCalls /\ Call("auth", 0).type \notin CallersTypes
      BY DEF SoundCalls, Call, IdFits, CallTypes, CallersTypes
    <3>. QED
      BY <1>3, <2>2, <3>1
  <2>. QED
    BY <1>4, <2>1, <2>2 DEF OnReady, RestoreAuth
<1>5. CASE OnAuthAccepted("auth")
  BY <1>5 DEF OnAuthAccepted, Answered, Restores
<1>6. CASE OnAuthAccepted("reauth") \/ OnAppCheckAccepted
  <2>1. PICK request \in requestCBHash : request.call.type \notin CallersTypes /\ Consume(request)
    BY <1>6 DEF OnAuthAccepted, OnAppCheckAccepted, Answered, CallersTypes
  <2>. QED
    BY <2>1, OthersKeptByAnswer
<1>7. CASE OnConnect \/ OnListenRevoked
  BY <1>1, <1>7 DEF OnConnect, OnListenRevoked, wireVars
<1>8. CASE Worker
  BY <1>2, <1>4, <1>5, <1>6, <1>7, <1>8 DEF Worker, Ends
<1>9. ASSUME NEW listen \in Listens, Unlisten(listen) PROVE \A type \in CallersTypes : Keeps(type)
  <2>1. Call("unlisten", listen) \in SoundCalls /\ Call("unlisten", listen).type \notin CallersTypes
    BY BoundsAssumption DEF SoundCalls, Call, IdFits, CallTypes, Listens, CallersTypes
  <2>2. Send(requestCBHash, <<Call("unlisten", listen)>>) \/ requestCBHash' = requestCBHash
    BY <1>9 DEF Unlisten, wireVars
  <2>. QED
    BY <1>1, <1>3, <2>1, <2>2
<1>10. CASE RefreshAppCheckToken \/ \E token \in BOOLEAN : RefreshAuthToken(token)
  <2>1. \A t \in {"reauth", "unauth", "appcheck"} : Call(t, 0) \in SoundCalls /\ Call(t, 0).type \notin CallersTypes
    BY DEF SoundCalls, Call, IdFits, CallTypes, CallersTypes
  <2>2. \/ requestCBHash' = requestCBHash
        \/ \E t \in {"reauth", "unauth", "appcheck"} : Send(requestCBHash, <<Call(t, 0)>>)
    BY <1>10 DEF RefreshAppCheckToken, RefreshAuthToken, wireVars
  <2>. QED
    BY <1>1, <1>3, <2>1, <2>2
<1>11. CASE Api
  BY <1>1, <1>2, <1>9, <1>10, <1>11 DEF Api, Ends, PurgeOutstandingWrites, GoOnline, Resume, wireVars
<1>12. CASE Open \/ WakeUp \/ Timers \/ Fetching
  BY <1>1, <1>12 DEF Open, Resume, WakeUp, Timers, RunRetry, GetTimeout, Fetching, FetchFails,
     FetchStale, FetchDone, wireVars
<1>13. CASE Server \/ LinkBreaks
  BY <1>1, <1>13 DEF Server, SendHello, Publish, ServerAnswers, ServerCancels, ServerSends, LinkBreaks,
     wireVars
<1>14. CASE UNCHANGED vars
  BY <1>1, <1>14 DEF vars, wireVars
<1>. QED
  BY <1>8, <1>11, <1>12, <1>13, <1>14 DEF Next

-----------------------------------------------------------------------------
(* What the restoring of state sends.                                      *)

LEMMA RestorationEffect ==
    ASSUME Core, Restores
    PROVE  \E held \in SUBSET requestCBHash, calls \in Seq(SoundCalls), n \in Nat :
              /\ Restoring(calls) /\ Send(held, calls)
              /\ HeldWith(requestNumber, calls, held, requestCBHash')
              /\ \A r \in held : r.call.type \notin {"auth", "put", "get", "onDisconnect"}
              /\ \A r \in requestCBHash : r.call.type # "auth" => r \in held
              /\ unackedListensCount' = unackedListensCount + n /\ n <= Len(calls)
              /\ \A i \in 1..Len(calls) : calls[i].type = "listen" <=> i <= n
              /\ ~connected \/ connectionState = "Authenticating"
<1>. USE DEF Core
<1>1. PICK held \in SUBSET requestCBHash :
        /\ RestoreState(held)
        /\ \A r \in held : r.call.type \notin {"auth", "put", "get", "onDisconnect"}
        /\ \A r \in requestCBHash : r.call.type # "auth" => r \in held
        /\ ~connected \/ connectionState = "Authenticating"
  <2>1. CASE OnReady /\ RestoreState(requestCBHash)
    <3>1. requestCBHash = {} /\ ~connected
      BY <2>1 DEF OnReady, Control, NothingOutlivesConnection, StatesMatch
    <3>. QED
      BY <2>1, <3>1
  <2>2. ASSUME NEW request \in requestCBHash, request.call.type = "auth", RestoreState(requestCBHash \ {request})
        PROVE  \E held \in SUBSET requestCBHash :
                  /\ RestoreState(held)
                  /\ \A r \in held : r.call.type \notin {"auth", "put", "get", "onDisconnect"}
                  /\ \A r \in requestCBHash : r.call.type # "auth" => r \in held
                  /\ ~connected \/ connectionState = "Authenticating"
    <3>1. connectionState = "Authenticating"
      BY <2>2 DEF CredentialChecked
    <3>2. \A r \in requestCBHash : r.call.type \notin {"put", "get", "onDisconnect"}
      BY <3>1 DEF CredentialChecked
    <3>3. \A r \in requestCBHash \ {request} : r.call.type # "auth"
      BY <2>2 DEF CredentialChecked, Wire, ServedUpTo, WireOf, CallbacksNumbered
    <3>4. requestCBHash \ {request} \in SUBSET requestCBHash
      OBVIOUS
    <3>5. \A r \in requestCBHash : r.call.type # "auth" => r \in requestCBHash \ {request}
      BY <2>2
    <3>. QED
      BY <2>2, <3>1, <3>2, <3>3, <3>4, <3>5
  <2>. QED
    BY <2>1, <2>2 DEF Restores
<1>2. PICK calls \in Seq(SoundCalls), n \in Nat :
        /\ Send(held, calls) /\ Restoring(calls)
        /\ unackedListensCount' = unackedListensCount + n
        /\ n <= Len(calls)
        /\ \A i \in 1..Len(calls) : calls[i].type = "listen" <=> i <= n
  BY <1>1, RestoreSends DEF Types
<1>3. HeldWith(requestNumber, calls, held, requestCBHash')
  BY <1>2, SendHolds DEF Types
<1>. QED
  BY <1>1, <1>2, <1>3

\* The connection becomes usable only by restoring the state.
LEMMA UsableAfterRestoring ==
    ASSUME Core, [Next]_vars, canSend'
    PROVE  canSend \/ Restores
<1>. USE DEF Core
<1>1. CASE Drop
  BY <1>1 DEF Drop, OnDisconnect, canSend
<1>2. CASE OnReady
  BY <1>2 DEF OnReady, RestoreAuth, Restores, canSend
<1>3. CASE OnAuthAccepted("auth")
  BY <1>3 DEF OnAuthAccepted, Answered, Restores
<1>4. CASE OnAuthAccepted("reauth")
  <2>1. requestCBHash # {}
    BY <1>4 DEF OnAuthAccepted
  <2>2. connected
    BY <2>1, ControlFacts
  <2>3. connectionState # "Authenticating"
    BY <1>4, AcceptedAgain DEF CredentialChecked
  <2>. QED
    BY <2>2, <2>3 DEF connected, canSend
<1>. QED
  BY <1>1, <1>2, <1>3, <1>4, StateChange DEF canSend

LEMMA KeptHolds ==
    ASSUME WireTypes, NEW type, Keeps(type), NEW id, Holds(type, id)
    PROVE  Holds(type, id)'
<1>1. PICK r \in requestCBHash : r.call = Call(type, id)
  BY DEF Holds
<1>2. r.call.type = type /\ r \in SoundRequests
  BY <1>1 DEF Call, WireTypes
<1>. QED
  BY <1>1, <1>2 DEF Keeps, Holds

LEMMA SentHolds ==
    ASSUME NEW held, NEW n, NEW calls, HeldWith(n, calls, held, requestCBHash'), NEW type, NEW id,
           HasCallback(Call(type, id)), \E i \in 1..Len(calls) : calls[i] = Call(type, id)
    PROVE  Holds(type, id)'
<1>1. PICK i \in 1..Len(calls) : calls[i] = Call(type, id)
  OBVIOUS
<1>2. Request(n + i, calls[i]) \in requestCBHash' /\ Request(n + i, calls[i]).call = Call(type, id)
  BY <1>1 DEF HeldWith, Request
<1>. QED
  BY <1>2 DEF Holds

-----------------------------------------------------------------------------
(* Writes.                                                                 *)

LEMMA WriteFrame ==
    ASSUME Types, [Next]_vars
    PROVE  \/ UNCHANGED putVars /\ Keeps("put")
           \/ Drop \/ Restores \/ OnPutAnswer \/ PutData
           \/ (OnListenAnswer \/ PurgeOutstandingWrites) /\ Keeps("put")
<1>1. "put" \in CallersTypes /\ \A t \in {"get", "listen", "onDisconnect"} : "put" \in CallersTypes \ {t}
  BY DEF CallersTypes
<1>2. PurgeOutstandingWrites => Keeps("put")
  BY DEF PurgeOutstandingWrites, wireVars, Keeps
<1>3. OnListenAnswer => Keeps("put")
  BY <1>1, OthersKept DEF Types
<1>4. OnGetAnswer \/ GetData \/ Listen \/ OnOnDisconnectAnswer \/ OnDisconnectOperation => Keeps("put")
  BY <1>1, OthersKept DEF Types
<1>. QED
  BY <1>1, <1>2, <1>3, <1>4, PutFrame, CallbackFrame

\* The writes on the wire ascend, and none is newer than the counter.
WritesInOrder ==
    /\ outstandingPuts \subseteq 1..putCounter /\ sentPuts \subseteq 1..putCounter
    /\ \A r \in requestCBHash : r.call.type = "put" => r.call.id <= putCounter
    /\ \A r, s \in requestCBHash :
          r.call.type = "put" /\ s.call.type = "put" /\ r.rn < s.rn => r.call.id < s.call.id

WritesHeld ==
    /\ canSend => \A p \in outstandingPuts : Holds("put", p)
    /\ TransactionSentOnce

LEMMA WritesHeldStep ==
    Core /\ WritesInOrder /\ WritesHeld /\ [Next]_vars => WritesHeld'
<1>. SUFFICES ASSUME Core, WritesInOrder, WritesHeld, [Next]_vars PROVE WritesHeld'
  OBVIOUS
<1>. USE DEF Core
<1>0. WireTypes /\ IdTypes
  BY DEF Types
<1>1. CASE Restores
  <2>1. PICK held \in SUBSET requestCBHash, calls \in Seq(SoundCalls) :
          Restoring(calls) /\ HeldWith(requestNumber, calls, held, requestCBHash')
    BY <1>1, RestorationEffect
  <2>2. outstandingPuts' = outstandingPuts
    BY <1>1 DEF Restores, RestoreState, Restore
  <2>3. \A p \in outstandingPuts : Holds("put", p)'
    <3>. SUFFICES ASSUME NEW p \in outstandingPuts PROVE Holds("put", p)'
      OBVIOUS
    <3>1. HasCallback(Call("put", p))
      BY DEF HasCallback, Call
    <3>2. \E i \in 1..Len(calls) : calls[i] = Call("put", p)
      BY <2>1 DEF Restoring
    <3>. QED
      BY <2>1, <3>1, <3>2, SentHolds
  <2>. QED
    BY <2>2, <2>3 DEF WritesHeld, TransactionSentOnce
<1>2. CASE UNCHANGED putVars /\ Keeps("put") /\ ~Restores
  <2>1. canSend' => canSend
    BY <1>2, UsableAfterRestoring
  <2>2. \A p : Holds("put", p) => Holds("put", p)'
    BY <1>0, <1>2, KeptHolds
  <2>3. outstandingPuts' = outstandingPuts /\ sentPuts' = sentPuts
    BY <1>2 DEF putVars
  <2>. QED
    BY <2>1, <2>2, <2>3 DEF WritesHeld, TransactionSentOnce
<1>3. CASE Drop
  <2>1. connectionState' = "Disconnected" /\ CancelSentTransactions /\ sentPuts' = sentPuts
    BY <1>3 DEF Drop, OnDisconnect
  <2>. QED
    BY <2>1 DEF WritesHeld, TransactionSentOnce, canSend, CancelSentTransactions
<1>4. CASE OnPutAnswer
  <2>1. PICK request \in requestCBHash :
          /\ requestCBHash' = requestCBHash \ {request}
          /\ outstandingPuts' = outstandingPuts \ {request.call.id}
          /\ sentPuts' = sentPuts /\ connectionState' = connectionState
    BY <1>4 DEF OnPutAnswer, Consume, stateVars
  <2>2. ASSUME NEW p, p # request.call.id, Holds("put", p) PROVE Holds("put", p)'
    BY <2>1, <2>2 DEF Holds, Call
  <2>. QED
    BY <2>1, <2>2 DEF WritesHeld, TransactionSentOnce, canSend
<1>5. CASE PutData
  <2>1. /\ outstandingPuts' = outstandingPuts \cup {putCounter + 1}
        /\ connectionState' = connectionState
    BY <1>5 DEF PutData, stateVars
  <2>2. putCounter + 1 \notin sentPuts
    BY <1>0 DEF WritesInOrder, IdTypes
  <2>3. CASE canSend
    <3>1. Send(requestCBHash, <<Call("put", putCounter + 1)>>)
      BY <1>5, <2>3 DEF PutData
    <3>2. Call("put", putCounter + 1) \in SoundCalls /\ HasCallback(Call("put", putCounter + 1))
      BY <1>0, <1>5, BoundsAssumption DEF PutData, IdTypes, SoundCalls, Call, IdFits, CallTypes, Puts, HasCallback
    <3>3. PICK put : put = putCounter + 1
      OBVIOUS
    <3>4. requestCBHash \subseteq requestCBHash' /\ Request(requestNumber + 1, Call("put", put)) \in requestCBHash'
      BY <1>0, <3>1, <3>2, <3>3, OneSent
    <3>5. Holds("put", put)'
      BY <3>4 DEF Holds, Request
    <3>6. \A p : Holds("put", p) => Holds("put", p)'
      BY <3>4 DEF Holds
    <3>7. \A p \in outstandingPuts' : Holds("put", p)'
      BY <2>1, <2>3, <3>3, <3>5, <3>6 DEF WritesHeld
    <3>. QED
      BY <3>7 DEF WritesHeld, TransactionSentOnce
  <2>4. CASE ~canSend
    <3>1. sentPuts' = sentPuts /\ requestCBHash' = requestCBHash
      BY <1>5, <2>4 DEF PutData, wireVars
    <3>. QED
      BY <2>1, <2>2, <2>4, <3>1 DEF WritesHeld, TransactionSentOnce, canSend, Holds
  <2>. QED
    BY <2>3, <2>4
<1>6. CASE (OnListenAnswer \/ PurgeOutstandingWrites) /\ Keeps("put")
  <2>1. outstandingPuts' \subseteq outstandingPuts /\ sentPuts' = sentPuts /\ connectionState' = connectionState
    BY <1>6 DEF OnListenAnswer, PurgeOutstandingWrites, stateVars
  <2>2. \A p : Holds("put", p) => Holds("put", p)'
    BY <1>0, <1>6, KeptHolds
  <2>. QED
    BY <2>1, <2>2 DEF WritesHeld, TransactionSentOnce, canSend
<1>. QED
  BY <1>1, <1>2, <1>3, <1>4, <1>5, <1>6, WriteFrame

LEMMA WritesInOrderStep ==
    Core /\ WritesInOrder /\ [Next]_vars => WritesInOrder'
<1>. SUFFICES ASSUME Core, WritesInOrder, [Next]_vars PROVE WritesInOrder'
  OBVIOUS
<1>. USE DEF Core
<1>0. WireTypes /\ IdTypes /\ putCounter \in Nat
  BY BoundsAssumption DEF Types, IdTypes
<1>9. requestCBHash' \subseteq SoundRequests /\ requestCBHash \subseteq SoundRequests
  BY WireTypeStep DEF Types, WireTypes
<1>1. CASE Restores
  <2>1. PICK held \in SUBSET requestCBHash, calls \in Seq(SoundCalls) :
          /\ Restoring(calls) /\ HeldWith(requestNumber, calls, held, requestCBHash')
          /\ \A r \in held : r.call.type \notin {"auth", "put", "get", "onDisconnect"}
    BY <1>1, RestorationEffect
  <2>2. outstandingPuts' = outstandingPuts /\ sentPuts' = sentPuts \cup outstandingPuts /\ putCounter' = putCounter
    BY <1>1 DEF Restores, RestoreState, Restore
  <2>3. ASSUME NEW r \in requestCBHash', r.call.type = "put"
        PROVE  \E i \in 1..Len(calls) : r.rn = requestNumber + i /\ r.call = calls[i]
    BY <2>1, <2>3 DEF HeldWith, Request
  <2>4. ASSUME NEW r \in requestCBHash', r.call.type = "put" PROVE r.call.id <= putCounter
    <3>1. r.call.id \in outstandingPuts
      BY <2>1, <2>3, <2>4 DEF Restoring
    <3>2. r.call.id \in 1..putCounter
      BY <3>1 DEF WritesInOrder
    <3>. QED
      BY <1>0, <3>2
  <2>5. ASSUME NEW r \in requestCBHash', NEW s \in requestCBHash',
               r.call.type = "put", s.call.type = "put", r.rn < s.rn
        PROVE  r.call.id < s.call.id
    <3>1. PICK i \in 1..Len(calls) : r.rn = requestNumber + i /\ r.call = calls[i]
      BY <2>3, <2>5
    <3>2. PICK j \in 1..Len(calls) : s.rn = requestNumber + j /\ s.call = calls[j]
      BY <2>3, <2>5
    <3>3. i < j
      BY <1>0, <2>5, <3>1, <3>2, LenProperties DEF WireTypes
    <3>. QED
      BY <2>1, <2>5, <3>1, <3>2, <3>3 DEF Restoring
  <2>. QED
    BY <2>2, <2>4, <2>5 DEF WritesInOrder
<1>2. ASSUME outstandingPuts' \subseteq outstandingPuts, sentPuts' = sentPuts, putCounter' = putCounter,
             \A r \in requestCBHash' : r.call.type = "put" => r \in requestCBHash
      PROVE  WritesInOrder'
  BY <1>2 DEF WritesInOrder
<1>3. CASE (UNCHANGED putVars \/ OnListenAnswer \/ PurgeOutstandingWrites) /\ Keeps("put")
  <2>1. outstandingPuts' \subseteq outstandingPuts /\ sentPuts' = sentPuts /\ putCounter' = putCounter
    BY <1>3 DEF putVars, OnListenAnswer, PurgeOutstandingWrites
  <2>2. \A r \in requestCBHash' : r.call.type = "put" => r \in requestCBHash
    BY <1>3, <1>9 DEF Keeps
  <2>. QED
    BY <1>2, <2>1, <2>2
<1>4. CASE Drop
  <2>1. /\ outstandingPuts' \subseteq outstandingPuts /\ sentPuts' = sentPuts /\ putCounter' = putCounter
        /\ requestCBHash' = {}
    BY <1>4 DEF Drop, OnDisconnect, CancelSentTransactions
  <2>. QED
    BY <1>2, <2>1
<1>5. CASE OnPutAnswer
  <2>1. /\ outstandingPuts' \subseteq outstandingPuts /\ sentPuts' = sentPuts /\ putCounter' = putCounter
        /\ requestCBHash' \subseteq requestCBHash
    BY <1>5 DEF OnPutAnswer, Consume
  <2>. QED
    BY <1>2, <2>1
<1>6. CASE PutData
  <2>1. /\ outstandingPuts' = outstandingPuts \cup {putCounter + 1}
        /\ sentPuts' \subseteq sentPuts \cup {putCounter + 1} /\ putCounter' = putCounter + 1
    BY <1>6 DEF PutData
  <2>2. \A r \in requestCBHash' :
           r \in requestCBHash \/ (r.rn = requestNumber + 1 /\ r.call.id = putCounter + 1)
    <3>1. CASE canSend
      <4>1. Send(requestCBHash, <<Call("put", putCounter + 1)>>)
        BY <1>6, <3>1 DEF PutData
      <4>2. Call("put", putCounter + 1) \in SoundCalls
        BY <1>0, <1>6, BoundsAssumption DEF PutData, IdTypes, SoundCalls, Call, IdFits, CallTypes, Puts
      <4>3. \A r \in requestCBHash' :
               r \in requestCBHash \/ r = Request(requestNumber + 1, Call("put", putCounter + 1))
        BY <1>0, <4>1, <4>2, OneSent
      <4>4. /\ Request(requestNumber + 1, Call("put", putCounter + 1)).rn = requestNumber + 1
            /\ Request(requestNumber + 1, Call("put", putCounter + 1)).call.id = putCounter + 1
        BY DEF Request, Call
      <4>. QED
        BY <4>3, <4>4
    <3>2. CASE ~canSend
      BY <1>6, <3>2 DEF PutData, wireVars
    <3>. QED
      BY <3>1, <3>2
  <2>3. \A r \in requestCBHash : r.rn <= requestNumber /\ r.rn \in Nat
    BY <1>9 DEF Wire, ServedUpTo, WireOf, CallbacksNumbered, SoundRequests, Requests
  <2>4. \A r \in requestCBHash : r.call.type = "put" => r.call.id \in Nat /\ r.call.id <= putCounter
    BY <1>9 DEF SoundRequests, Requests, WritesInOrder
  <2>5. requestNumber \in Nat
    BY <1>0 DEF WireTypes
  <2>6. ASSUME NEW r \in requestCBHash', r.call.type = "put" PROVE r.call.id <= putCounter + 1
    <3>1. CASE r \in requestCBHash
      BY <1>0, <2>4, <2>6, <3>1
    <3>. QED
      BY <1>0, <2>2, <3>1
  <2>7. ASSUME NEW r \in requestCBHash', NEW s \in requestCBHash',
               r.call.type = "put", s.call.type = "put", r.rn < s.rn
        PROVE  r.call.id < s.call.id
    <3>1. CASE r \in requestCBHash /\ s \in requestCBHash
      BY <2>7, <3>1 DEF WritesInOrder
    <3>2. CASE r \in requestCBHash /\ s.call.id = putCounter + 1
      BY <1>0, <2>4, <2>7, <3>2
    <3>3. CASE s \in requestCBHash /\ r.rn = requestNumber + 1
      BY <2>3, <2>5, <2>7, <3>3
    <3>4. CASE r.rn = requestNumber + 1 /\ s.rn = requestNumber + 1
      BY <2>5, <2>7, <3>4
    <3>. QED
      BY <2>2, <3>1, <3>2, <3>3, <3>4
  <2>8. outstandingPuts' \subseteq 1..putCounter' /\ sentPuts' \subseteq 1..putCounter'
    <3>1. 1..putCounter \subseteq 1..(putCounter + 1) /\ putCounter + 1 \in 1..(putCounter + 1)
      BY <1>0
    <3>. QED
      BY <2>1, <3>1 DEF WritesInOrder
  <2>. QED
    BY <2>1, <2>6, <2>7, <2>8 DEF WritesInOrder
<1>. QED
  BY <1>1, <1>3, <1>4, <1>5, <1>6, WriteFrame

\* No get and no onDisconnect operation waits for a connection that is usable.
OthersSent == canSend => outstandingGets \subseteq sentGets /\ onDisconnectQueue = <<>>

LEMMA OthersSentStep == Core /\ OthersSent /\ [Next]_vars => OthersSent'
<1>. SUFFICES ASSUME Core, OthersSent, [Next]_vars, canSend'
     PROVE  outstandingGets' \subseteq sentGets' /\ onDisconnectQueue' = <<>>
  BY DEF OthersSent
<1>1. CASE Restores
  BY <1>1 DEF Restores, RestoreState, Restore
<1>2. CASE ~Restores
  <2>1. outstandingGets \subseteq sentGets /\ onDisconnectQueue = <<>> /\ canSend
    BY <1>2, UsableAfterRestoring DEF OthersSent
  <2>2. outstandingGets' \subseteq sentGets'
    <3>1. CASE UNCHANGED getVars
      BY <2>1, <3>1 DEF getVars
    <3>2. CASE OnGetAnswer
      BY <2>1, <3>2 DEF OnGetAnswer
    <3>3. CASE GetData
      BY <2>1, <3>3 DEF GetData
    <3>4. CASE \E get \in Gets : GetTimeout(get)
      BY <2>1, <3>4 DEF GetTimeout
    <3>. QED
      BY <1>2, <3>1, <3>2, <3>3, <3>4, GetFrame
  <2>3. onDisconnectQueue' = <<>>
    <3>1. CASE UNCHANGED onDisconnectVars
      BY <2>1, <3>1 DEF onDisconnectVars
    <3>2. CASE OnOnDisconnectAnswer
      BY <2>1, <3>2 DEF OnOnDisconnectAnswer
    <3>3. CASE OnDisconnectOperation
      BY <2>1, <3>3 DEF OnDisconnectOperation
    <3>4. CASE PurgeOutstandingWrites
      BY <3>4 DEF PurgeOutstandingWrites
    <3>. QED
      BY <1>2, <3>1, <3>2, <3>3, <3>4, OnDisconnectFrame
  <2>. QED
    BY <2>2, <2>3
<1>. QED
  BY <1>1, <1>2

Remembered == WritesInOrder /\ WritesHeld /\ OthersSent

LEMMA RememberedAlways == Spec => [](Core /\ Remembered)
<1>1. Init => Core /\ Remembered
  <2>. SUFFICES ASSUME Init PROVE Remembered
    BY CoreInit
  <2>. QED
    BY DEF Init, Remembered, WritesInOrder, WritesHeld, OthersSent, TransactionSentOnce, canSend
<1>2. Core /\ Remembered /\ [Next]_vars => (Core /\ Remembered)'
  BY CoreStep, WritesInOrderStep, WritesHeldStep, OthersSentStep DEF Remembered
<1>. QED
  BY <1>1, <1>2, PTL DEF Spec

\* Once the connection is usable nothing the caller waits for is forgotten: writes are
\* on the wire again, no get and no onDisconnect operation waits unsent (restoreState).
THEOREM NothingIsForgotten == Spec => []NothingForgotten
<1>1. Core /\ Remembered => NothingForgotten
  BY DEF Remembered, WritesHeld, OthersSent, NothingForgotten
<1>. QED
  BY <1>1, RememberedAlways, PTL

\* A transaction that was sent is never sent again on another connection
\* (cancelSentTransactions), where the data it was computed from may have changed.
THEOREM TransactionsAreSentOnce == Spec => []TransactionSentOnce
<1>1. Core /\ Remembered => TransactionSentOnce
  BY DEF Remembered, WritesHeld
<1>. QED
  BY <1>1, RememberedAlways, PTL


-----------------------------------------------------------------------------
(* Completions.                                                            *)

Acks == [put : Puts, status : Statuses]

\* Writes that were answered and wait for listens are neither outstanding nor completed,
\* and a completed write is not outstanding.
AcksPending ==
    /\ putsToAck \in Seq(Acks) /\ putResults \in [Puts -> Seq(Statuses)]
    /\ \A i, j \in DOMAIN putsToAck : putsToAck[i].put = putsToAck[j].put => i = j
    /\ \A i \in DOMAIN putsToAck :
          /\ putsToAck[i].put \notin outstandingPuts /\ putsToAck[i].put <= putCounter
          /\ putResults[putsToAck[i].put] = <<>>
    /\ \A p \in Puts :
          putResults[p] # <<>> => p \notin outstandingPuts /\ p <= putCounter /\ Len(putResults[p]) = 1

LEMMA AckTyped ==
    ASSUME AcksPending, NEW i \in DOMAIN putsToAck
    PROVE  putsToAck[i] \in Acks /\ putsToAck[i].put \in Puts /\ putsToAck[i].status \in Statuses
<1>1. putsToAck \in Seq(Acks)
  BY DEF AcksPending
<1>2. putsToAck[i] \in Acks
  BY <1>1, LenProperties, ElementOfSeq
<1>. QED
  BY <1>2 DEF Acks

\* What ackPuts completes a write with.
LEMMA AckedResult ==
    ASSUME AcksPending, NEW p \in Puts
    PROVE  \/ /\ \A i \in DOMAIN putsToAck : putsToAck[i].put # p
              /\ AckedResults[p] = putResults[p]
           \/ \E i \in DOMAIN putsToAck : /\ putsToAck[i].put = p /\ putResults[p] = <<>>
                                         /\ AckedResults[p] = <<putsToAck[i].status>>
<1>1. AckedResults[p] = putResults[p] \o [n \in 1..Cardinality(AcksOf(p)) |-> putsToAck[NthAck(p, n)].status]
  BY DEF AckedResults
<1>2. putResults[p] \in Seq(Statuses)
  BY DEF AcksPending
<1>3. CASE \A i \in DOMAIN putsToAck : putsToAck[i].put # p
  <2>1. AcksOf(p) = {}
    BY <1>3 DEF AcksOf
  <2>2. Cardinality(AcksOf(p)) = 0
    BY <2>1, FS_EmptySet
  <2>3. [n \in 1..Cardinality(AcksOf(p)) |-> putsToAck[NthAck(p, n)].status] = <<>>
    BY <2>2
  <2>. QED
    BY <1>1, <1>2, <1>3, <2>3, ConcatEmptySeq
<1>4. ASSUME NEW i \in DOMAIN putsToAck, putsToAck[i].put = p
      PROVE  putResults[p] = <<>> /\ AckedResults[p] = <<putsToAck[i].status>>
  <2>1. AcksOf(p) = {i}
    BY <1>4 DEF AcksOf, AcksPending
  <2>2. Cardinality(AcksOf(p)) = 1
    BY <2>1, FS_Singleton
  <2>3. DOMAIN putsToAck \subseteq Nat
    BY LenProperties DEF AcksPending
  <2>4. {j \in AcksOf(p) : j < i} = {}
    BY <2>1, <2>3
  <2>5. Cardinality({j \in AcksOf(p) : j < i}) = 1 - 1
    BY <2>4, FS_EmptySet
  <2>6. NthAck(p, 1) = i
    BY <2>1, <2>5 DEF NthAck
  <2>7. putsToAck[i].status \in Statuses
    BY AckTyped
  <2>8. [n \in 1..Cardinality(AcksOf(p)) |-> putsToAck[NthAck(p, n)].status] = <<putsToAck[i].status>>
    BY <2>2, <2>6
  <2>9. putResults[p] = <<>>
    BY <1>4 DEF AcksPending
  <2>10. <<putsToAck[i].status>> \in Seq(Statuses)
    BY <2>7
  <2>. QED
    BY <1>1, <2>8, <2>9, <2>10, ConcatEmptySeq
<1>. QED
  BY <1>3, <1>4

\* The completions after ackPuts.
LEMMA AckedFacts ==
    ASSUME AcksPending
    PROVE  /\ AckedResults \in [Puts -> Seq(Statuses)]
           /\ \A p \in Puts : AckedResults[p] # <<>> =>
                 p \notin outstandingPuts /\ p <= putCounter /\ Len(AckedResults[p]) = 1
<1>1. ASSUME NEW p \in Puts
      PROVE  /\ AckedResults[p] \in Seq(Statuses)
             /\ AckedResults[p] # <<>> =>
                   p \notin outstandingPuts /\ p <= putCounter /\ Len(AckedResults[p]) = 1
  <2>1. CASE AckedResults[p] = putResults[p]
    BY <2>1 DEF AcksPending
  <2>2. ASSUME NEW i \in DOMAIN putsToAck, putsToAck[i].put = p, AckedResults[p] = <<putsToAck[i].status>>
        PROVE  /\ AckedResults[p] \in Seq(Statuses)
               /\ p \notin outstandingPuts /\ p <= putCounter /\ Len(AckedResults[p]) = 1
    <3>1. putsToAck[i].status \in Statuses
      BY AckTyped
    <3>2. AckedResults[p] \in Seq(Statuses) /\ Len(AckedResults[p]) = 1
      BY <2>2, <3>1
    <3>. QED
      BY <2>2, <3>2 DEF AcksPending
  <2>. QED
    BY <2>1, <2>2, AckedResult
<1>2. DOMAIN AckedResults = Puts /\ AckedResults = [p \in Puts |-> AckedResults[p]]
  BY DEF AckedResults
<1>. QED
  BY <1>1, <1>2

LEMMA AcksStep == Core /\ Remembered /\ AcksPending /\ [Next]_vars => AcksPending'
<1>. SUFFICES ASSUME Core, Remembered, AcksPending, [Next]_vars PROVE AcksPending'
  OBVIOUS
<1>. USE DEF Core
<1>1. /\ putsToAck \in Seq(Acks) /\ putResults \in [Puts -> Seq(Statuses)]
      /\ putCounter \in Nat /\ outstandingPuts \subseteq Puts /\ Puts \subseteq Nat
  BY BoundsAssumption DEF AcksPending, Types, IdTypes, Puts
<1>2. \A p \in outstandingPuts : p <= putCounter
  <2>1. outstandingPuts \subseteq 1..putCounter
    BY DEF Remembered, WritesInOrder
  <2>. QED
    BY <1>1, <2>1
<1>3. \A p \in Puts : p \in outstandingPuts => putResults[p] = <<>>
  BY DEF AcksPending
<1>4. ASSUME NEW status \in Statuses PROVE <<status>> \in Seq(Statuses) /\ Append(<<>>, status) = <<status>> /\ Len(<<status>>) = 1
  OBVIOUS
<1>5. CASE UNCHANGED <<putCounter, outstandingPuts, putsToAck, putResults>>
  BY <1>5 DEF AcksPending
\* Writes are completed, those in done with the given status.
<1>6. ASSUME NEW done \in SUBSET outstandingPuts, NEW status \in Statuses,
             UNCHANGED <<putCounter, putsToAck>>, outstandingPuts' \subseteq outstandingPuts \ done,
             putResults' = [p \in Puts |-> IF p \in done THEN Append(putResults[p], status) ELSE putResults[p]]
      PROVE  AcksPending'
  <2>1. \A p \in Puts : p \in done => putResults'[p] = <<status>> /\ p <= putCounter
    BY <1>1, <1>2, <1>3, <1>4, <1>6
  <2>2. \A p \in Puts : p \notin done => putResults'[p] = putResults[p]
    BY <1>6
  <2>3. putResults' \in [Puts -> Seq(Statuses)]
    <3>1. \A p \in Puts : putResults'[p] \in Seq(Statuses)
      BY <1>1, <1>4, <2>1, <2>2
    <3>. QED
      BY <1>6, <3>1
  <2>4. \A p \in Puts : putResults'[p] # <<>> =>
           p \notin outstandingPuts' /\ p <= putCounter /\ Len(putResults'[p]) = 1
    <3>. SUFFICES ASSUME NEW p \in Puts, putResults'[p] # <<>>
         PROVE  p \notin outstandingPuts' /\ p <= putCounter /\ Len(putResults'[p]) = 1
      OBVIOUS
    <3>1. CASE p \in done
      BY <1>4, <1>6, <2>1, <3>1
    <3>2. CASE p \notin done
      BY <1>6, <2>2, <3>2 DEF AcksPending
    <3>. QED
      BY <3>1, <3>2
  <2>5. ASSUME NEW i \in DOMAIN putsToAck
        PROVE  /\ putsToAck[i].put \notin outstandingPuts' /\ putsToAck[i].put <= putCounter
               /\ putResults'[putsToAck[i].put] = <<>>
    <3>1. putsToAck[i].put \in Puts /\ putsToAck[i].put \notin done
      BY <1>6, AckTyped DEF AcksPending
    <3>. QED
      BY <1>6, <2>2, <3>1 DEF AcksPending
  <2>. QED
    BY <1>1, <1>6, <2>3, <2>4, <2>5 DEF AcksPending
\* The acknowledgements that waited are delivered.
<1>7. ASSUME putsToAck' = <<>>, putCounter' = putCounter, NEW done \in SUBSET outstandingPuts,
             outstandingPuts' \subseteq outstandingPuts \ done, NEW status \in Statuses,
             putResults' = [p \in Puts |-> IF p \in done THEN Append(AckedResults[p], status) ELSE AckedResults[p]]
      PROVE  AcksPending'
  <2>1. /\ AckedResults \in [Puts -> Seq(Statuses)]
        /\ \A p \in Puts : AckedResults[p] # <<>> =>
              p \notin outstandingPuts /\ p <= putCounter /\ Len(AckedResults[p]) = 1
    BY AckedFacts
  <2>2. \A p \in Puts : p \in done => putResults'[p] = <<status>> /\ p <= putCounter
    BY <1>1, <1>2, <1>4, <1>7, <2>1
  <2>3. \A p \in Puts : p \notin done => putResults'[p] = AckedResults[p]
    BY <1>7
  <2>4. putResults' \in [Puts -> Seq(Statuses)]
    <3>1. \A p \in Puts : putResults'[p] \in Seq(Statuses)
      BY <1>4, <2>1, <2>2, <2>3
    <3>. QED
      BY <1>7, <3>1
  <2>5. \A p \in Puts : putResults'[p] # <<>> =>
           p \notin outstandingPuts' /\ p <= putCounter /\ Len(putResults'[p]) = 1
    <3>. SUFFICES ASSUME NEW p \in Puts, putResults'[p] # <<>>
         PROVE  p \notin outstandingPuts' /\ p <= putCounter /\ Len(putResults'[p]) = 1
      OBVIOUS
    <3>1. CASE p \in done
      BY <1>4, <1>7, <2>2, <3>1
    <3>2. CASE p \notin done
      BY <1>7, <2>1, <2>3, <3>2
    <3>. QED
      BY <3>1, <3>2
  <2>. QED
    BY <1>7, <2>4, <2>5 DEF AcksPending
<1>8. CASE Drop
  <2>1. UNCHANGED <<putCounter, putsToAck>> /\ CancelSentTransactions
    BY <1>8 DEF Drop, OnDisconnect
  <2>2. PICK done \in SUBSET outstandingPuts :
          /\ outstandingPuts' \subseteq outstandingPuts \ done
          /\ putResults' = [p \in Puts |-> IF p \in done THEN Append(putResults[p], "disconnect") ELSE putResults[p]]
    BY <2>1 DEF CancelSentTransactions
  <2>3. "disconnect" \in Statuses
    BY DEF Statuses
  <2>. QED
    BY <1>6, <2>1, <2>2, <2>3
<1>9. CASE Restores
  BY <1>5, <1>9 DEF Restores, RestoreState, Restore
<1>10. CASE OnPutAnswer
  <2>1. PICK request \in requestCBHash, status \in {"ok", "error"} :
          /\ outstandingPuts' = outstandingPuts \ {request.call.id}
          /\ putCounter' = putCounter
          /\ IF request.call.id \in outstandingPuts
             THEN IF unackedListensCount = 0
                  THEN /\ putResults' = [putResults EXCEPT ![request.call.id] = Append(@, status)]
                       /\ UNCHANGED putsToAck
                  ELSE /\ putsToAck' = Append(putsToAck, [put |-> request.call.id, status |-> status])
                       /\ UNCHANGED putResults
             ELSE UNCHANGED <<putsToAck, putResults>>
    BY <1>10 DEF OnPutAnswer
  <2>2. status \in Statuses
    BY DEF Statuses
  <2>3. PICK put : put = request.call.id
    OBVIOUS
  <2>4. CASE put \notin outstandingPuts
    <3>1. UNCHANGED <<putCounter, outstandingPuts, putsToAck, putResults>>
      BY <2>1, <2>3, <2>4
    <3>. QED
      BY <1>5, <3>1
  <2>5. CASE put \in outstandingPuts /\ unackedListensCount = 0
    <3>1. putResults' = [putResults EXCEPT ![put] = Append(@, status)] /\ putsToAck' = putsToAck
      BY <2>1, <2>3, <2>5
    <3>2. putResults' = [p \in Puts |-> IF p \in {put} THEN Append(putResults[p], status) ELSE putResults[p]]
      BY <1>1, <3>1
    <3>3. {put} \in SUBSET outstandingPuts
      BY <2>5
    <3>. QED
      BY <1>6, <2>1, <2>2, <2>3, <3>1, <3>2, <3>3
  <2>6. CASE put \in outstandingPuts /\ unackedListensCount # 0
    <3>1. putsToAck' = Append(putsToAck, [put |-> put, status |-> status]) /\ putResults' = putResults
      BY <2>1, <2>3, <2>6
    <3>2. PICK ack \in Acks : ack = [put |-> put, status |-> status] /\ ack.put = put
      <4>1. put \in Puts /\ status \in Statuses
        BY <1>1, <2>2, <2>6
      <4>2. [put |-> put, status |-> status] \in Acks
        BY <4>1 DEF Acks
      <4>. QED
        BY <4>2
    <3>3. /\ putsToAck' \in Seq(Acks) /\ Len(putsToAck) \in Nat
          /\ DOMAIN putsToAck = 1..Len(putsToAck) /\ DOMAIN putsToAck' = 1..(Len(putsToAck) + 1)
          /\ \A i \in DOMAIN putsToAck : putsToAck'[i] = putsToAck[i]
          /\ putsToAck'[Len(putsToAck) + 1] = ack
      BY <1>1, <3>1, <3>2, AppendToQueue
    <3>4. ASSUME NEW i \in DOMAIN putsToAck'
          PROVE  \/ i \in DOMAIN putsToAck /\ putsToAck'[i] = putsToAck[i] /\ putsToAck[i].put # put
                 \/ i = Len(putsToAck) + 1 /\ putsToAck'[i].put = put
      BY <2>6, <3>2, <3>3 DEF AcksPending
    <3>5. ASSUME NEW i \in DOMAIN putsToAck', NEW j \in DOMAIN putsToAck', putsToAck'[i].put = putsToAck'[j].put
          PROVE  i = j
      BY <3>4, <3>5 DEF AcksPending
    <3>6. put <= putCounter /\ putResults[put] = <<>> /\ put \in Puts
      BY <1>1, <1>2, <1>3, <2>6
    <3>7. ASSUME NEW i \in DOMAIN putsToAck'
          PROVE  /\ putsToAck'[i].put \notin outstandingPuts' /\ putsToAck'[i].put <= putCounter
                 /\ putResults[putsToAck'[i].put] = <<>>
      BY <2>1, <2>3, <3>4, <3>6 DEF AcksPending
    <3>8. \A p \in Puts : putResults[p] # <<>> =>
             p \notin outstandingPuts' /\ p <= putCounter /\ Len(putResults[p]) = 1
      BY <2>1 DEF AcksPending
    <3>. QED
      BY <1>1, <2>1, <3>1, <3>3, <3>5, <3>7, <3>8 DEF AcksPending
  <2>. QED
    BY <2>4, <2>5, <2>6
<1>11. CASE PutData
  <2>1. /\ putCounter' = putCounter + 1 /\ outstandingPuts' = outstandingPuts \cup {putCounter + 1}
        /\ UNCHANGED <<putsToAck, putResults>>
    BY <1>11 DEF PutData
  <2>2. \A i \in DOMAIN putsToAck : putsToAck[i].put \in Nat
    BY <1>1, AckTyped
  <2>3. \A p \in Nat : p <= putCounter => p <= putCounter + 1 /\ p # putCounter + 1
    BY <1>1
  <2>. QED
    BY <1>1, <2>1, <2>2, <2>3 DEF AcksPending
<1>12. CASE OnListenAnswer
  <2>1. /\ putCounter' = putCounter /\ outstandingPuts' = outstandingPuts
        /\ \/ putResults' = AckedResults /\ putsToAck' = <<>>
           \/ UNCHANGED <<putResults, putsToAck>>
    BY <1>12 DEF OnListenAnswer
  <2>2. CASE putResults' = AckedResults /\ putsToAck' = <<>>
    <3>1. AckedResults \in [Puts -> Seq(Statuses)]
      BY AckedFacts
    <3>2. putResults' = [p \in Puts |-> IF p \in {} THEN Append(AckedResults[p], "ok") ELSE AckedResults[p]]
      BY <2>2, <3>1
    <3>3. "ok" \in Statuses /\ {} \in SUBSET outstandingPuts /\ outstandingPuts' \subseteq outstandingPuts \ {}
      BY <2>1 DEF Statuses
    <3>. QED
      BY <1>7, <2>1, <2>2, <3>2, <3>3
  <2>. QED
    BY <1>5, <2>1, <2>2
<1>13. CASE PurgeOutstandingWrites
  <2>1. /\ putsToAck' = <<>> /\ putCounter' = putCounter /\ outstandingPuts' = {}
        /\ putResults' = [p \in Puts |-> IF p \in outstandingPuts THEN Append(AckedResults[p], "canceled") ELSE AckedResults[p]]
    BY <1>13 DEF PurgeOutstandingWrites
  <2>2. "canceled" \in Statuses /\ outstandingPuts \in SUBSET outstandingPuts
    BY DEF Statuses
  <2>. QED
    BY <1>7, <2>1, <2>2
<1>. QED
  BY <1>5, <1>8, <1>9, <1>10, <1>11, <1>12, <1>13, WriteFrame DEF putVars

\* An onDisconnect operation waits in the queue, is on the wire, or is completed.
OperationsHeld ==
    /\ \A r \in requestCBHash : r.call.type = "onDisconnect" =>
          r.call.id <= onDisconnectCounter /\ onDisconnectResults[r.call.id] = <<>>
    /\ \A r, s \in requestCBHash :
          r.call.type = "onDisconnect" /\ s.call = r.call => r = s

OperationsQueued ==
    /\ \A i, j \in DOMAIN onDisconnectQueue : onDisconnectQueue[i] = onDisconnectQueue[j] => i = j
    /\ \A i \in DOMAIN onDisconnectQueue :
          /\ onDisconnectQueue[i] <= onDisconnectCounter
          /\ onDisconnectResults[onDisconnectQueue[i]] = <<>>
          /\ \A r \in requestCBHash : r.call # Call("onDisconnect", onDisconnectQueue[i])

OperationsDone ==
    /\ onDisconnectResults \in [OnDisconnects -> Seq(Statuses)]
    /\ \A d \in OnDisconnects : onDisconnectResults[d] # <<>> =>
          d <= onDisconnectCounter /\ Len(onDisconnectResults[d]) = 1

Operations == OperationsHeld /\ OperationsQueued /\ OperationsDone

LEMMA OperationFrame ==
    ASSUME Types, [Next]_vars
    PROVE  \/ UNCHANGED onDisconnectVars /\ Keeps("onDisconnect")
           \/ UNCHANGED onDisconnectVars /\ requestCBHash' = {}
           \/ Restores \/ OnOnDisconnectAnswer \/ OnDisconnectOperation
           \/ PurgeOutstandingWrites /\ Keeps("onDisconnect")
<1>1. "onDisconnect" \in CallersTypes /\ \A t \in {"get", "put", "listen"} : "onDisconnect" \in CallersTypes \ {t}
  BY DEF CallersTypes
<1>2. PurgeOutstandingWrites => Keeps("onDisconnect")
  BY DEF PurgeOutstandingWrites, wireVars, Keeps
<1>3. Drop => UNCHANGED onDisconnectVars /\ requestCBHash' = {}
  BY DEF Drop, OnDisconnect
<1>4. OnGetAnswer \/ GetData \/ OnPutAnswer \/ PutData \/ OnListenAnswer \/ Listen => Keeps("onDisconnect")
  BY <1>1, OthersKept DEF Types
<1>. QED
  BY <1>1, <1>2, <1>3, <1>4, OnDisconnectFrame, CallbackFrame

LEMMA OperationsStep == Core /\ Operations /\ [Next]_vars => Operations'
<1>. SUFFICES ASSUME Core, Operations, [Next]_vars PROVE Operations'
  OBVIOUS
<1>. USE DEF Core
<1>1. /\ requestCBHash \subseteq SoundRequests /\ requestCBHash' \subseteq SoundRequests
      /\ onDisconnectCounter \in Nat /\ OnDisconnects \subseteq Nat
      /\ onDisconnectQueue \in Seq(OnDisconnects) /\ Types
  BY WireTypeStep, BoundsAssumption DEF Types, WireTypes, IdTypes, OnDisconnects
<1>2. \A i \in DOMAIN onDisconnectQueue : onDisconnectQueue[i] \in OnDisconnects
  BY <1>1, LenProperties, ElementOfSeq
<1>3. \A r \in SoundRequests : r.call.type = "onDisconnect" =>
         /\ r.call.id \in OnDisconnects
         /\ r.call = Call("onDisconnect", r.call.id)
  BY DEF SoundRequests, Requests, Call, IdFits
<1>4. ASSUME NEW status \in Statuses PROVE <<status>> \in Seq(Statuses) /\ Append(<<>>, status) = <<status>> /\ Len(<<status>>) = 1
  OBVIOUS
<1>5. ASSUME UNCHANGED onDisconnectVars,
             \A r \in requestCBHash' : r.call.type = "onDisconnect" => r \in requestCBHash
      PROVE  Operations'
  <2>1. OperationsHeld'
    BY <1>5 DEF Operations, OperationsHeld, onDisconnectVars
  <2>2. OperationsQueued'
    BY <1>5 DEF Operations, OperationsQueued, onDisconnectVars, Call
  <2>3. OperationsDone'
    BY <1>5 DEF Operations, OperationsDone, onDisconnectVars
  <2>. QED
    BY <2>1, <2>2, <2>3 DEF Operations
<1>6. CASE UNCHANGED onDisconnectVars /\ Keeps("onDisconnect")
  BY <1>1, <1>5, <1>6 DEF Keeps
<1>7. CASE UNCHANGED onDisconnectVars /\ requestCBHash' = {}
  BY <1>5, <1>7
<1>8. CASE Restores
  <2>1. PICK held \in SUBSET requestCBHash, calls \in Seq(SoundCalls) :
          /\ Restoring(calls) /\ HeldWith(requestNumber, calls, held, requestCBHash')
          /\ \A r \in held : r.call.type \notin {"auth", "put", "get", "onDisconnect"}
    BY <1>8, RestorationEffect
  <2>2. onDisconnectQueue' = <<>> /\ UNCHANGED <<onDisconnectCounter, onDisconnectResults>>
    BY <1>8 DEF Restores, RestoreState, Restore
  <2>3. ASSUME NEW r \in requestCBHash', r.call.type = "onDisconnect"
        PROVE  \E i \in 1..Len(calls) : r = Request(requestNumber + i, calls[i]) /\ r.call = calls[i]
    BY <2>1, <2>3 DEF HeldWith, Request
  <2>4. ASSUME NEW r \in requestCBHash', r.call.type = "onDisconnect"
        PROVE  r.call.id <= onDisconnectCounter /\ onDisconnectResults[r.call.id] = <<>>
    <3>1. PICK i \in 1..Len(calls) : r.call = calls[i]
      BY <2>3, <2>4
    <3>2. PICK k \in DOMAIN onDisconnectQueue : onDisconnectQueue[k] = r.call.id
      BY <2>1, <2>4, <3>1 DEF Restoring
    <3>. QED
      BY <3>2 DEF Operations, OperationsQueued
  <2>5. ASSUME NEW r \in requestCBHash', NEW s \in requestCBHash', r.call.type = "onDisconnect", s.call = r.call
        PROVE  r = s
    <3>1. PICK i \in 1..Len(calls) : r = Request(requestNumber + i, calls[i]) /\ r.call = calls[i]
      BY <2>3, <2>5
    <3>2. PICK j \in 1..Len(calls) : s = Request(requestNumber + j, calls[j]) /\ s.call = calls[j]
      BY <2>3, <2>5
    <3>3. i = j
      BY <2>1, <2>5, <3>1, <3>2 DEF Restoring, Operations, OperationsQueued
    <3>. QED
      BY <3>1, <3>2, <3>3
  <2>6. OperationsHeld'
    BY <2>2, <2>4, <2>5 DEF OperationsHeld
  <2>7. OperationsQueued'
    BY <2>2 DEF OperationsQueued
  <2>8. OperationsDone'
    BY <2>2 DEF Operations, OperationsDone
  <2>. QED
    BY <2>6, <2>7, <2>8 DEF Operations
<1>9. CASE OnOnDisconnectAnswer
  <2>1. PICK request \in requestCBHash, status \in Statuses :
          /\ request.call.type = "onDisconnect" /\ requestCBHash' = requestCBHash \ {request}
          /\ onDisconnectResults' = [onDisconnectResults EXCEPT ![request.call.id] = Append(@, status)]
          /\ UNCHANGED <<onDisconnectCounter, onDisconnectQueue>>
    BY <1>9 DEF OnOnDisconnectAnswer, Answered, Consume, Statuses
  <2>2. PICK op \in OnDisconnects : op = request.call.id /\ request.call = Call("onDisconnect", op)
    BY <1>1, <1>3, <2>1
  <2>3. op <= onDisconnectCounter /\ onDisconnectResults[op] = <<>>
    BY <2>1, <2>2 DEF Operations, OperationsHeld
  <2>4. /\ onDisconnectResults'[op] = <<status>>
        /\ \A d \in OnDisconnects : d # op => onDisconnectResults'[d] = onDisconnectResults[d]
        /\ onDisconnectResults' \in [OnDisconnects -> Seq(Statuses)]
    <3>1. onDisconnectResults \in [OnDisconnects -> Seq(Statuses)]
      BY DEF Operations, OperationsDone
    <3>. QED
      BY <1>4, <2>1, <2>2, <2>3, <3>1
  <2>5. OperationsHeld'
    <3>1. \A r \in requestCBHash' : r.call.type = "onDisconnect" => r.call.id \in OnDisconnects /\ r.call.id # op
      BY <1>1, <1>3, <2>1, <2>2 DEF Operations, OperationsHeld
    <3>. QED
      BY <2>1, <2>4, <3>1 DEF Operations, OperationsHeld
  <2>6. OperationsQueued'
    <3>1. \A i \in DOMAIN onDisconnectQueue : onDisconnectQueue[i] # op
      BY <2>1, <2>2 DEF Operations, OperationsQueued
    <3>. QED
      BY <1>2, <2>1, <2>4, <3>1 DEF Operations, OperationsQueued
  <2>7. OperationsDone'
    BY <1>4, <2>1, <2>3, <2>4 DEF Operations, OperationsDone
  <2>. QED
    BY <2>5, <2>6, <2>7 DEF Operations
<1>10. CASE OnDisconnectOperation
  <2>1. PICK op \in OnDisconnects : op = onDisconnectCounter + 1
    BY <1>1, <1>10, BoundsAssumption DEF OnDisconnectOperation, OnDisconnects
  <2>2. onDisconnectCounter' = op /\ UNCHANGED onDisconnectResults
    BY <1>10, <2>1 DEF OnDisconnectOperation
  <2>3. \A d \in Nat : d <= onDisconnectCounter => d <= op /\ d # op
    BY <1>1, <2>1
  <2>4. onDisconnectResults[op] = <<>>
    BY <1>1, <2>3 DEF Operations, OperationsDone
  <2>5. OperationsDone'
    BY <1>1, <2>2, <2>3 DEF Operations, OperationsDone
  <2>6. \A r \in requestCBHash : r.call.type = "onDisconnect" =>
           r.call.id <= op /\ r.call.id # op /\ onDisconnectResults[r.call.id] = <<>>
    BY <1>1, <1>3, <2>3 DEF Operations, OperationsHeld
  <2>7. \A i \in DOMAIN onDisconnectQueue : onDisconnectQueue[i] <= op /\ onDisconnectQueue[i] # op
    BY <1>1, <1>2, <2>3 DEF Operations, OperationsQueued
  <2>8. CASE canSend
    <3>1. Send(requestCBHash, <<Call("onDisconnect", op)>>) /\ onDisconnectQueue' = onDisconnectQueue
      BY <1>10, <2>1, <2>8 DEF OnDisconnectOperation
    <3>2. Call("onDisconnect", op) \in SoundCalls
      BY <1>1 DEF SoundCalls, Call, IdFits, CallTypes
    <3>3. \A r \in requestCBHash' :
             r \in requestCBHash \/ r = Request(requestNumber + 1, Call("onDisconnect", op))
      BY <1>1, <3>1, <3>2, OneSent DEF Types
    <3>4. /\ Request(requestNumber + 1, Call("onDisconnect", op)).call = Call("onDisconnect", op)
          /\ Call("onDisconnect", op).id = op /\ Call("onDisconnect", op).type = "onDisconnect"
      BY DEF Request, Call
    <3>5. op <= op
      BY <1>1
    <3>6. OperationsHeld'
      BY <2>2, <2>4, <2>6, <3>3, <3>4, <3>5 DEF Operations, OperationsHeld
    <3>7. ASSUME NEW i \in DOMAIN onDisconnectQueue, NEW r \in requestCBHash'
          PROVE  r.call # Call("onDisconnect", onDisconnectQueue[i])
      BY <2>7, <3>3, <3>4 DEF Operations, OperationsQueued, Call
    <3>8. OperationsQueued'
      BY <2>2, <2>7, <3>1, <3>7 DEF Operations, OperationsQueued
    <3>. QED
      BY <2>5, <3>6, <3>8 DEF Operations
  <2>9. CASE ~canSend
    <3>1. onDisconnectQueue' = Append(onDisconnectQueue, op) /\ requestCBHash' = requestCBHash
      BY <1>10, <2>1, <2>9 DEF OnDisconnectOperation, wireVars
    <3>2. /\ Len(onDisconnectQueue) \in Nat /\ DOMAIN onDisconnectQueue = 1..Len(onDisconnectQueue)
          /\ DOMAIN onDisconnectQueue' = 1..(Len(onDisconnectQueue) + 1)
          /\ \A i \in DOMAIN onDisconnectQueue : onDisconnectQueue'[i] = onDisconnectQueue[i]
          /\ onDisconnectQueue'[Len(onDisconnectQueue) + 1] = op
      BY <1>1, <3>1, AppendToQueue
    <3>3. ASSUME NEW i \in DOMAIN onDisconnectQueue'
          PROVE  \/ i \in DOMAIN onDisconnectQueue /\ onDisconnectQueue'[i] = onDisconnectQueue[i] /\ onDisconnectQueue'[i] # op
                 \/ i = Len(onDisconnectQueue) + 1 /\ onDisconnectQueue'[i] = op
      BY <2>7, <3>2
    <3>4. \A i, j \in DOMAIN onDisconnectQueue' : onDisconnectQueue'[i] = onDisconnectQueue'[j] => i = j
      BY <3>3 DEF Operations, OperationsQueued
    <3>5. op <= op /\ Call("onDisconnect", op).id = op /\ Call("onDisconnect", op).type = "onDisconnect"
      BY <1>1 DEF Call
    <3>6. \A r \in requestCBHash : r.call # Call("onDisconnect", op)
      BY <2>6, <3>5
    <3>7. ASSUME NEW i \in DOMAIN onDisconnectQueue'
          PROVE  /\ onDisconnectQueue'[i] <= op /\ onDisconnectResults[onDisconnectQueue'[i]] = <<>>
                 /\ \A r \in requestCBHash : r.call # Call("onDisconnect", onDisconnectQueue'[i])
      BY <2>4, <2>7, <3>3, <3>5, <3>6 DEF Operations, OperationsQueued
    <3>8. OperationsQueued'
      BY <2>2, <3>1, <3>4, <3>7 DEF OperationsQueued
    <3>9. OperationsHeld'
      BY <2>2, <2>6, <3>1 DEF Operations, OperationsHeld
    <3>. QED
      BY <2>5, <3>8, <3>9 DEF Operations
  <2>. QED
    BY <2>8, <2>9
<1>11. CASE PurgeOutstandingWrites /\ Keeps("onDisconnect")
  <2>1. /\ onDisconnectQueue' = <<>> /\ onDisconnectCounter' = onDisconnectCounter
        /\ onDisconnectResults' = [d \in OnDisconnects |->
              IF \E i \in DOMAIN onDisconnectQueue : onDisconnectQueue[i] = d
              THEN Append(onDisconnectResults[d], "canceled") ELSE onDisconnectResults[d]]
        /\ requestCBHash' = requestCBHash
    BY <1>11 DEF PurgeOutstandingWrites, wireVars
  <2>2. "canceled" \in Statuses
    BY DEF Statuses
  <2>3. ASSUME NEW d \in OnDisconnects
        PROVE  \/ /\ onDisconnectResults'[d] = <<"canceled">> /\ d <= onDisconnectCounter
                  /\ \A r \in requestCBHash : r.call # Call("onDisconnect", d)
               \/ onDisconnectResults'[d] = onDisconnectResults[d]
    <3>1. CASE \E i \in DOMAIN onDisconnectQueue : onDisconnectQueue[i] = d
      <4>1. /\ d <= onDisconnectCounter /\ onDisconnectResults[d] = <<>>
            /\ \A r \in requestCBHash : r.call # Call("onDisconnect", d)
        BY <3>1 DEF Operations, OperationsQueued
      <4>2. onDisconnectResults'[d] = Append(onDisconnectResults[d], "canceled")
        BY <2>1, <3>1
      <4>3. onDisconnectResults'[d] = <<"canceled">>
        BY <1>4, <2>2, <4>1, <4>2
      <4>. QED
        BY <4>1, <4>3
    <3>2. CASE ~ \E i \in DOMAIN onDisconnectQueue : onDisconnectQueue[i] = d
      BY <2>1, <3>2
    <3>. QED
      BY <3>1, <3>2
  <2>4. OperationsDone'
    <3>1. \A d \in OnDisconnects : onDisconnectResults'[d] \in Seq(Statuses)
      BY <1>4, <2>2, <2>3 DEF Operations, OperationsDone
    <3>2. onDisconnectResults' \in [OnDisconnects -> Seq(Statuses)]
      BY <2>1, <3>1
    <3>3. \A d \in OnDisconnects : onDisconnectResults'[d] # <<>> =>
             d <= onDisconnectCounter /\ Len(onDisconnectResults'[d]) = 1
      BY <1>4, <2>2, <2>3 DEF Operations, OperationsDone
    <3>. QED
      BY <2>1, <3>2, <3>3 DEF OperationsDone
  <2>5. OperationsHeld'
    <3>1. ASSUME NEW r \in requestCBHash, r.call.type = "onDisconnect"
          PROVE  onDisconnectResults'[r.call.id] = onDisconnectResults[r.call.id]
      BY <1>1, <1>3, <2>3, <3>1
    <3>. QED
      BY <2>1, <3>1 DEF Operations, OperationsHeld
  <2>6. OperationsQueued'
    BY <2>1 DEF OperationsQueued
  <2>. QED
    BY <2>4, <2>5, <2>6 DEF Operations
<1>. QED
  BY <1>6, <1>7, <1>8, <1>9, <1>10, <1>11, OperationFrame

LEMMA OneOrNone == \A s : s = <<>> \/ Len(s) = 1 => Len(s) <= 1
<1>. SUFFICES ASSUME NEW s, s = <<>> \/ Len(s) = 1 PROVE Len(s) <= 1
  OBVIOUS
<1>1. CASE s = <<>>
  <2>1. Len(s) = 0
    BY <1>1
  <2>. QED
    BY <2>1
<1>2. CASE Len(s) = 1
  BY <1>2
<1>. QED
  BY <1>1, <1>2

LEMMA CompletionsAlways == Spec => [](Core /\ Remembered /\ AcksPending /\ Operations)
<1>1. Init => AcksPending /\ Operations
  <2>. SUFFICES ASSUME Init PROVE AcksPending /\ Operations
    OBVIOUS
  <2>1. AcksPending
    BY DEF Init, AcksPending
  <2>2. Operations
    BY DEF Init, Operations, OperationsHeld, OperationsQueued, OperationsDone
  <2>. QED
    BY <2>1, <2>2
<1>2. Core /\ Remembered /\ AcksPending /\ Operations /\ [Next]_vars => AcksPending' /\ Operations'
  BY AcksStep, OperationsStep
<1>. QED
  BY <1>1, <1>2, RememberedAlways, PTL DEF Spec

\* No completion of a write or of an onDisconnect operation is called twice, through
\* answers, cancelled transactions, purges and delayed acknowledgements (ackPuts).
THEOREM CompletionsAreCalledOnce == Spec => []CompletedAtMostOnce
<1>1. AcksPending /\ Operations => CompletedAtMostOnce
  <2>. SUFFICES ASSUME AcksPending, Operations
       PROVE  /\ \A p \in Puts : Len(putResults[p]) <= 1
              /\ \A d \in OnDisconnects : Len(onDisconnectResults[d]) <= 1
    BY DEF CompletedAtMostOnce
  <2>2. ASSUME NEW p \in Puts PROVE Len(putResults[p]) <= 1
    <3>1. putResults[p] = <<>> \/ Len(putResults[p]) = 1
      BY DEF AcksPending
    <3>. QED
      BY <3>1, OneOrNone
  <2>3. ASSUME NEW d \in OnDisconnects PROVE Len(onDisconnectResults[d]) <= 1
    <3>1. onDisconnectResults[d] = <<>> \/ Len(onDisconnectResults[d]) = 1
      BY DEF Operations, OperationsDone
    <3>. QED
      BY <3>1, OneOrNone
  <2>. QED
    BY <2>2, <2>3
<1>. QED
  BY <1>1, CompletionsAlways, PTL

-----------------------------------------------------------------------------
(* Acknowledged writes.                                                    *)

\* A write the server accepted, as far as the client knows.
Acked(p) ==
    \/ \E i \in DOMAIN putsToAck : putsToAck[i].put = p /\ putsToAck[i].status = "ok"
    \/ \E i \in DOMAIN putResults[p] : putResults[p][i] = "ok"

\* What the server applied is not older than an acknowledged write, and what may still
\* be sent or applied is newer than it.
AckedIsOldest ==
    \A p \in Puts : Acked(p) =>
        /\ p <= applied
        /\ \A q \in outstandingPuts : p < q
        /\ \A r \in requestCBHash : r.call.type = "put" => p < r.call.id

\* A write whose acceptance is on its way to the client was applied.
AcceptedIsApplied ==
    \A r \in requestCBHash, i \in DOMAIN workQueue :
        /\ r.call.type = "put"
        /\ workQueue[i].type = "answer" /\ workQueue[i].rn = r.rn /\ workQueue[i].ok
        => r.call.id <= applied

Acknowledged == AckedIsOldest /\ AcceptedIsApplied

\* A write is acknowledged only by an answer to it while it is outstanding.
PutAccepted(p) ==
    \E request \in requestCBHash :
        /\ HeadIs("answer") /\ request.rn = Head(workQueue).rn /\ request.call.type = "put"
        /\ request.call.id = p /\ p \in outstandingPuts /\ Head(workQueue).ok
        /\ requestCBHash' = requestCBHash \ {request}
        /\ outstandingPuts' = outstandingPuts \ {p}
        /\ applied' = applied

LEMMA AckedBefore ==
    ASSUME Core, Remembered, AcksPending, [Next]_vars, NEW p \in Puts, Acked(p)'
    PROVE  Acked(p) \/ PutAccepted(p)
<1>. USE DEF Core
<1>1. ASSUME putsToAck' = putsToAck, putResults'[p] = putResults[p] PROVE Acked(p)
  BY <1>1 DEF Acked
<1>2. ASSUME NEW status \in Statuses PROVE Append(<<>>, status) = <<status>> /\ DOMAIN <<status>> = {1} /\ <<status>>[1] = status
  OBVIOUS
<1>3. ASSUME NEW status \in Statuses \ {"ok"}, putResults'[p] = <<status>> PROVE \A i \in DOMAIN putResults'[p] : putResults'[p][i] # "ok"
  BY <1>2, <1>3
<1>4. p \in outstandingPuts => putResults[p] = <<>>
  BY DEF AcksPending
<1>6. CASE Drop
  <2>1. putsToAck' = putsToAck /\ (putResults'[p] = putResults[p] \/ (p \in outstandingPuts /\ putResults'[p] = Append(putResults[p], "disconnect")))
    BY <1>6 DEF Drop, OnDisconnect, CancelSentTransactions
  <2>2. "disconnect" \in Statuses \ {"ok"}
    BY DEF Statuses
  <2>3. CASE p \in outstandingPuts /\ putResults'[p] = Append(putResults[p], "disconnect")
    <3>1. putResults'[p] = <<"disconnect">>
      BY <1>2, <1>4, <2>2, <2>3
    <3>. QED
      BY <1>3, <2>1, <2>2, <3>1 DEF Acked
  <2>. QED
    BY <1>1, <2>1, <2>3
\* The acknowledgements that waited are delivered.
<1>7. ASSUME putsToAck' = <<>>, putResults'[p] = AckedResults[p] PROVE Acked(p)
  <2>1. PICK i \in DOMAIN putResults'[p] : putResults'[p][i] = "ok"
    BY <1>7 DEF Acked
  <2>2. CASE AckedResults[p] = putResults[p]
    BY <1>7, <2>1, <2>2 DEF Acked
  <2>3. ASSUME NEW j \in DOMAIN putsToAck, putsToAck[j].put = p, AckedResults[p] = <<putsToAck[j].status>>
        PROVE  Acked(p)
    <3>1. putsToAck[j].status \in Statuses
      BY AckTyped
    <3>2. putsToAck[j].status = "ok"
      BY <1>2, <1>7, <2>1, <2>3, <3>1
    <3>. QED
      BY <2>3, <3>2 DEF Acked
  <2>. QED
    BY <2>2, <2>3, AckedResult
<1>8. CASE PurgeOutstandingWrites
  <2>1. /\ putsToAck' = <<>>
        /\ \/ putResults'[p] = AckedResults[p]
           \/ p \in outstandingPuts /\ putResults'[p] = Append(AckedResults[p], "canceled")
    BY <1>8 DEF PurgeOutstandingWrites
  <2>2. "canceled" \in Statuses \ {"ok"}
    BY DEF Statuses
  <2>3. CASE p \in outstandingPuts /\ putResults'[p] = Append(AckedResults[p], "canceled")
    <3>1. AckedResults[p] = <<>>
      BY <2>3, AckedFacts
    <3>2. putResults'[p] = <<"canceled">>
      BY <1>2, <2>2, <2>3, <3>1
    <3>. QED
      BY <1>3, <2>1, <2>2, <3>2 DEF Acked
  <2>. QED
    BY <1>7, <2>1, <2>3
<1>9. CASE OnListenAnswer
  BY <1>1, <1>7, <1>9 DEF OnListenAnswer
<1>10. CASE OnPutAnswer
  <2>1. PICK request \in requestCBHash, status \in {"ok", "error"} :
          /\ HeadIs("answer") /\ request.rn = Head(workQueue).rn /\ request.call.type = "put"
          /\ status = IF Head(workQueue).ok THEN "ok" ELSE "error"
          /\ requestCBHash' = requestCBHash \ {request}
          /\ outstandingPuts' = outstandingPuts \ {request.call.id} /\ applied' = applied
          /\ IF request.call.id \in outstandingPuts
             THEN IF unackedListensCount = 0
                  THEN /\ putResults' = [putResults EXCEPT ![request.call.id] = Append(@, status)]
                       /\ UNCHANGED putsToAck
                  ELSE /\ putsToAck' = Append(putsToAck, [put |-> request.call.id, status |-> status])
                       /\ UNCHANGED putResults
             ELSE UNCHANGED <<putsToAck, putResults>>
    BY <1>10 DEF OnPutAnswer, Answered, Consume, serverVars
  <2>2. status \in Statuses
    BY DEF Statuses
  <2>3. PICK put : put = request.call.id
    OBVIOUS
  <2>4. put \in outstandingPuts => put \in Puts
    BY DEF Types, IdTypes
  <2>5. CASE put \notin outstandingPuts
    <3>1. putsToAck' = putsToAck /\ putResults' = putResults
      BY <2>1, <2>3, <2>5
    <3>. QED
      BY <1>1, <3>1
  <2>6. CASE put \in outstandingPuts /\ put = p /\ status = "ok"
    <3>1. Head(workQueue).ok
      BY <2>1, <2>6
    <3>. QED
      BY <2>1, <2>3, <2>6, <3>1 DEF PutAccepted
  <2>7. CASE put \in outstandingPuts /\ unackedListensCount = 0 /\ (put # p \/ status = "error")
    <3>1. putResults' = [putResults EXCEPT ![put] = Append(@, status)] /\ putsToAck' = putsToAck
      BY <2>1, <2>3, <2>7
    <3>2. putResults \in [Puts -> Seq(Statuses)]
      BY DEF AcksPending
    <3>3. CASE put # p
      BY <1>1, <3>1, <3>2, <3>3
    <3>4. CASE put = p /\ status = "error"
      <4>1. putResults'[p] = Append(putResults[p], status)
        BY <3>1, <3>2, <3>4
      <4>2. putResults'[p] = <<status>>
        BY <1>2, <1>4, <2>2, <2>7, <3>4, <4>1
      <4>. QED
        BY <1>3, <2>2, <3>1, <3>4, <4>2 DEF Acked
    <3>. QED
      BY <2>7, <3>3, <3>4
  <2>8. CASE put \in outstandingPuts /\ unackedListensCount # 0 /\ (put # p \/ status = "error")
    <3>1. putsToAck' = Append(putsToAck, [put |-> put, status |-> status]) /\ putResults' = putResults
      BY <2>1, <2>3, <2>8
    <3>2. [put |-> put, status |-> status] \in Acks
      BY <2>2, <2>4, <2>8 DEF Acks
    <3>3. PICK ack \in Acks : ack = [put |-> put, status |-> status] /\ ~(ack.put = p /\ ack.status = "ok")
      BY <2>8, <3>2
    <3>4. /\ DOMAIN putsToAck = 1..Len(putsToAck) /\ DOMAIN putsToAck' = 1..(Len(putsToAck) + 1)
          /\ \A i \in DOMAIN putsToAck : putsToAck'[i] = putsToAck[i]
          /\ putsToAck'[Len(putsToAck) + 1] = ack /\ Len(putsToAck) \in Nat
      BY <3>1, <3>3, AppendToQueue DEF AcksPending
    <3>5. \A i \in DOMAIN putsToAck' :
             (i \in DOMAIN putsToAck /\ putsToAck'[i] = putsToAck[i]) \/ putsToAck'[i] = ack
      BY <3>4
    <3>. QED
      BY <3>1, <3>3, <3>5 DEF Acked
  <2>. QED
    BY <2>1, <2>5, <2>6, <2>7, <2>8
<1>11. CASE UNCHANGED putVars \/ Restores \/ PutData
  <2>1. putsToAck' = putsToAck /\ putResults' = putResults
    BY <1>11 DEF putVars, Restores, RestoreState, Restore, PutData
  <2>. QED
    BY <1>1, <2>1
<1>. QED
  BY <1>6, <1>8, <1>9, <1>10, <1>11, WriteFrame

\* Only new writes and outstanding ones join what is outstanding or on the wire.
LEMMA WritesJoining ==
    ASSUME Core, Remembered, [Next]_vars
    PROVE  /\ \A q \in outstandingPuts' : q \in outstandingPuts \/ q = putCounter + 1
           /\ \A r \in requestCBHash' : r.call.type = "put" =>
                 r \in requestCBHash \/ r.call.id \in outstandingPuts \/ r.call.id = putCounter + 1
<1>. USE DEF Core
<1>1. requestCBHash' \subseteq SoundRequests
  BY WireTypeStep DEF Types, WireTypes
<1>2. CASE (UNCHANGED putVars \/ OnListenAnswer \/ PurgeOutstandingWrites) /\ Keeps("put")
  <2>1. outstandingPuts' \subseteq outstandingPuts
    BY <1>2 DEF putVars, OnListenAnswer, PurgeOutstandingWrites
  <2>. QED
    BY <1>1, <1>2, <2>1 DEF Keeps
<1>3. CASE Drop
  BY <1>3 DEF Drop, OnDisconnect, CancelSentTransactions
<1>4. CASE Restores
  <2>1. PICK held \in SUBSET requestCBHash, calls \in Seq(SoundCalls) :
          Restoring(calls) /\ HeldWith(requestNumber, calls, held, requestCBHash')
    BY <1>4, RestorationEffect
  <2>2. outstandingPuts' = outstandingPuts
    BY <1>4 DEF Restores, RestoreState, Restore
  <2>3. ASSUME NEW r \in requestCBHash', r.call.type = "put"
        PROVE  r \in requestCBHash \/ r.call.id \in outstandingPuts
    <3>1. r \in held \/ \E i \in 1..Len(calls) : r.call = calls[i]
      BY <2>1 DEF HeldWith, Request
    <3>. QED
      BY <2>1, <2>3, <3>1 DEF Restoring
  <2>. QED
    BY <2>2, <2>3
<1>5. CASE OnPutAnswer
  BY <1>5 DEF OnPutAnswer, Consume
<1>6. CASE PutData
  <2>1. outstandingPuts' = outstandingPuts \cup {putCounter + 1}
    BY <1>6 DEF PutData
  <2>2. CASE canSend
    <3>1. Send(requestCBHash, <<Call("put", putCounter + 1)>>)
      BY <1>6, <2>2 DEF PutData
    <3>2. Call("put", putCounter + 1) \in SoundCalls
      BY <1>6, BoundsAssumption DEF Types, PutData, IdTypes, SoundCalls, Call, IdFits, CallTypes, Puts
    <3>3. \A r \in requestCBHash' :
             r \in requestCBHash \/ r = Request(requestNumber + 1, Call("put", putCounter + 1))
      BY <3>1, <3>2, OneSent DEF Types
    <3>4. Request(requestNumber + 1, Call("put", putCounter + 1)).call.id = putCounter + 1
      BY DEF Request, Call
    <3>. QED
      BY <2>1, <3>3, <3>4
  <2>3. CASE ~canSend
    BY <1>6, <2>1, <2>3 DEF PutData, wireVars
  <2>. QED
    BY <2>2, <2>3
<1>. QED
  BY <1>2, <1>3, <1>4, <1>5, <1>6, WriteFrame

\* The server applies only writes that are on their way to it.
LEMMA AppliedNext ==
    ASSUME Types, [Next]_vars
    PROVE  \/ applied' = applied
           \/ \E t \in DOMAIN toServer :
                 toServer[t].call.type = "put" /\ applied' = toServer[t].call.id
<1>1. CASE Drop \/ LinkBreaks
  <2>1. applied' \in {applied} \cup WritesUnderWay
    BY <1>1 DEF Drop, OnDisconnect, CloseSocket, LinkBreaks
  <2>. QED
    BY <2>1 DEF WritesUnderWay
<1>2. ASSUME NEW ok \in BOOLEAN, ServerAnswers(ok)
      PROVE  \/ applied' = applied
             \/ \E t \in DOMAIN toServer :
                   toServer[t].call.type = "put" /\ applied' = toServer[t].call.id
  <2>1. toServer # <<>>
    BY <1>2 DEF ServerAnswers
  <2>2. 1 \in DOMAIN toServer /\ Head(toServer) = toServer[1]
    BY <2>1, TailOfQueue DEF Types, WireTypes
  <2>3. applied' = applied \/ (Head(toServer).call.type = "put" /\ applied' = Head(toServer).call.id)
    BY <1>2 DEF ServerAnswers
  <2>. QED
    BY <2>2, <2>3
<1>. QED
  BY <1>1, <1>2, ServerFrame DEF serverVars, Publish, ServerCancels

LEMMA AckedStep ==
    Core /\ Remembered /\ AcksPending /\ Acknowledged /\ [Next]_vars => AckedIsOldest'
<1>. SUFFICES ASSUME Core, Remembered, AcksPending, Acknowledged, [Next]_vars, NEW p \in Puts, Acked(p)'
     PROVE  /\ p <= applied'
            /\ \A q \in outstandingPuts' : p < q
            /\ \A r \in requestCBHash' : r.call.type = "put" => p < r.call.id
  BY DEF AckedIsOldest
<1>. USE DEF Core
<1>1. /\ p \in Nat /\ putCounter \in Nat /\ outstandingPuts \subseteq Nat
      /\ \A r \in requestCBHash : r.call.id \in Nat
  BY BoundsAssumption DEF Types, IdTypes, Puts, WireTypes, SoundRequests, Requests
<1>2. CASE Acked(p)
  <2>1. /\ p <= applied /\ \A q \in outstandingPuts : p < q
        /\ \A r \in requestCBHash : r.call.type = "put" => p < r.call.id
    BY <1>2 DEF Acknowledged, AckedIsOldest
  <2>2. p < putCounter + 1
    <3>1. p <= putCounter
      BY <1>2 DEF Acked, AcksPending
    <3>. QED
      BY <1>1, <3>1
  <2>3. p <= applied'
    <3>1. PICK k \in Nat : WireOf(k, requestCBHash, toServer, workQueue)
      BY DEF Wire, ServedUpTo, Types, WireTypes
    <3>2. ASSUME NEW t \in DOMAIN toServer, toServer[t].call.type = "put" PROVE p <= toServer[t].call.id
      <4>1. toServer[t] \in requestCBHash
        BY <3>1, <3>2 DEF WireOf, OnTheWay, HasCallback
      <4>. QED
        BY <1>1, <2>1, <3>2, <4>1
    <3>. QED
      BY <2>1, <3>2, AppliedNext
  <2>. QED
    BY <2>1, <2>2, <2>3, WritesJoining
<1>3. CASE PutAccepted(p)
  <2>1. PICK request \in requestCBHash :
          /\ HeadIs("answer") /\ request.rn = Head(workQueue).rn /\ request.call.type = "put"
          /\ request.call.id = p /\ p \in outstandingPuts /\ Head(workQueue).ok
          /\ requestCBHash' = requestCBHash \ {request}
          /\ outstandingPuts' = outstandingPuts \ {p} /\ applied' = applied
    BY <1>3 DEF PutAccepted
  <2>2. ASSUME NEW r \in requestCBHash, r # request, r.call.type = "put" PROVE p < r.call.id
    <3>1. request.rn < r.rn
      BY <2>1, <2>2, OldestIsAnswered
    <3>. QED
      BY <2>1, <2>2, <3>1 DEF Remembered, WritesInOrder
  <2>3. canSend
    <3>1. connected /\ connectionState # "Authenticating"
      BY <2>1, ControlFacts DEF CredentialChecked
    <3>. QED
      BY <3>1 DEF connected, canSend
  <2>4. ASSUME NEW q \in outstandingPuts, q # p PROVE p < q
    <3>1. Holds("put", q)
      BY <2>3 DEF Remembered, WritesHeld
    <3>2. PICK r \in requestCBHash : r.call = Call("put", q)
      BY <3>1 DEF Holds
    <3>3. r.call.type = "put" /\ r.call.id = q
      BY <3>2 DEF Call
    <3>. QED
      BY <2>1, <2>2, <2>4, <3>3
  <2>5. p <= applied
    <3>1. 1 \in DOMAIN workQueue /\ Head(workQueue) = workQueue[1] /\ workQueue[1].type = "answer"
      BY <2>1, TailOfQueue DEF HeadIs, Types, QueueTypes
    <3>. QED
      BY <2>1, <3>1 DEF Acknowledged, AcceptedIsApplied
  <2>. QED
    BY <2>1, <2>2, <2>4, <2>5
<1>. QED
  BY <1>2, <1>3, AckedBefore

\* Where an answer in the queue comes from, and the number of a new callback.
LEMMA AnswerArrives ==
    ASSUME Types, [Next]_vars, requestCBHash' # {}, NEW i \in DOMAIN workQueue', workQueue'[i].type = "answer"
    PROVE  \/ \E j \in DOMAIN workQueue : workQueue[j] = workQueue'[i]
           \/ \E ok \in BOOLEAN :
                 /\ ServerAnswers(ok) /\ HasCallback(Head(toServer).call)
                 /\ workQueue'[i].rn = Head(toServer).rn /\ workQueue'[i].ok = ok
                 /\ Head(toServer).call.type = "get" /\ ok => workQueue'[i].value = published
<1>1. workQueue \in Seq(Blocks)
  BY DEF Types, QueueTypes
<1>2. CASE workQueue' = workQueue
  BY <1>2
<1>3. CASE workQueue # <<>> /\ workQueue' = Tail(workQueue)
  BY <1>1, <1>3, TailOfQueue
<1>4. ASSUME NEW q \in Seq(Blocks), NEW block \in Blocks, workQueue' = Append(q, block), block.type # "answer"
      PROVE  \E j \in DOMAIN q : q[j] = workQueue'[i]
  <2>1. /\ Len(q) \in Nat /\ DOMAIN q = 1..Len(q) /\ DOMAIN workQueue' = 1..(Len(q) + 1)
        /\ \A j \in DOMAIN q : workQueue'[j] = q[j]
        /\ workQueue'[Len(q) + 1] = block
    BY <1>4, AppendToQueue
  <2>. QED
    BY <1>4, <2>1
<1>5. CASE OnReady
  <2>1. workQueue # <<>> /\ workQueue' = Append(Tail(workQueue), Block("onConnect"))
    BY <1>5 DEF OnReady, HeadIs
  <2>2. Block("onConnect") \in Blocks /\ Block("onConnect").type # "answer"
    BY DEF Block, Blocks
  <2>3. Tail(workQueue) \in Seq(Blocks) /\ \A j \in DOMAIN Tail(workQueue) : j + 1 \in DOMAIN workQueue /\ Tail(workQueue)[j] = workQueue[j + 1]
    BY <1>1, <2>1, TailOfQueue
  <2>. QED
    BY <1>4, <2>1, <2>2, <2>3
<1>6. CASE ServerSpeaks
  BY <1>1, <1>4, <1>6 DEF ServerSpeaks
<1>7. CASE LinkBreaks
  <2>1. workQueue' = Append(workQueue, Block("closed"))
    BY <1>7 DEF LinkBreaks, Receive
  <2>2. Block("closed") \in Blocks /\ Block("closed").type # "answer"
    BY DEF Block, Blocks
  <2>. QED
    BY <1>1, <1>4, <2>1, <2>2
<1>8. ASSUME NEW ok \in BOOLEAN, ServerAnswers(ok), HasCallback(Head(toServer).call)
      PROVE  \/ \E j \in DOMAIN workQueue : workQueue[j] = workQueue'[i]
             \/ /\ workQueue'[i].rn = Head(toServer).rn /\ workQueue'[i].ok = ok
                /\ Head(toServer).call.type = "get" /\ ok => workQueue'[i].value = published
  <2>1. PICK value \in {published, 0} :
          /\ workQueue' = Append(workQueue, Answer(Head(toServer).rn, ok, value))
          /\ Head(toServer).call.type = "get" /\ ok => value = published
    BY <1>8 DEF ServerAnswers, Receive
  <2>2. toServer # <<>>
    BY <1>8 DEF ServerAnswers
  <2>3. Head(toServer) \in SoundRequests
    BY <2>2, TailOfQueue DEF Types, WireTypes
  <2>4. /\ Answer(Head(toServer).rn, ok, value) \in Blocks
        /\ Answer(Head(toServer).rn, ok, value).rn = Head(toServer).rn
        /\ Answer(Head(toServer).rn, ok, value).ok = ok
        /\ Answer(Head(toServer).rn, ok, value).value = value
    BY <2>1, <2>3 DEF Answer, Blocks, SoundRequests, Requests, Types, ServerTypes
  <2>5. /\ Len(workQueue) \in Nat /\ DOMAIN workQueue = 1..Len(workQueue) /\ DOMAIN workQueue' = 1..(Len(workQueue) + 1)
        /\ \A j \in DOMAIN workQueue : workQueue'[j] = workQueue[j]
        /\ workQueue'[Len(workQueue) + 1] = Answer(Head(toServer).rn, ok, value)
    BY <1>1, <2>1, <2>4, AppendToQueue
  <2>. QED
    BY <2>1, <2>4, <2>5
<1>9. ASSUME NEW ok \in BOOLEAN, ServerAnswers(ok), ~HasCallback(Head(toServer).call) PROVE workQueue' = workQueue
  BY <1>9 DEF ServerAnswers
<1>10. ~Drop
  BY DEF Drop, OnDisconnect
<1>11. UNCHANGED <<wireVars, workQueue>> \/ ApiSends => workQueue' = workQueue
  BY DEF ApiSends
<1>12. Pop \/ Answers \/ OnAuthAccepted("auth") => workQueue # <<>> /\ workQueue' = Tail(workQueue)
  BY DEF Pop, Answers, Consume, HeadIs, OnAuthAccepted, Answered
<1>. QED
  BY <1>2, <1>3, <1>5, <1>6, <1>7, <1>8, <1>9, <1>10, <1>11, <1>12, WireFrame DEF Types

LEMMA NewCallback ==
    ASSUME Types, [Next]_vars, NEW r \in requestCBHash', r \notin requestCBHash
    PROVE  r.rn \in Nat /\ r.rn > requestNumber
<1>1. WireTypes /\ requestNumber \in Nat
  BY DEF Types, WireTypes
<1>2. ASSUME NEW held \in SUBSET requestCBHash, NEW calls \in Seq(SoundCalls), Send(held, calls)
      PROVE  r.rn \in Nat /\ r.rn > requestNumber
  <2>1. HeldWith(requestNumber, calls, held, requestCBHash')
    BY <1>1, <1>2, SendHolds
  <2>2. PICK i \in 1..Len(calls) : r = Request(requestNumber + i, calls[i])
    BY <2>1 DEF HeldWith
  <2>3. r.rn = requestNumber + i /\ Len(calls) \in Nat
    BY <2>2, LenProperties DEF Request
  <2>. QED
    BY <1>1, <2>3
<1>3. CASE ApiSends
  <2>1. PICK call \in SoundCalls : Send(requestCBHash, <<call>>)
    BY <1>3 DEF ApiSends
  <2>2. <<call>> \in Seq(SoundCalls)
    BY OneCall
  <2>. QED
    BY <1>2, <2>1, <2>2
<1>4. CASE OnReady
  BY <1>2, <1>4, ReadySends DEF Types
<1>5. CASE OnAuthAccepted("auth")
  <2>1. PICK calls \in Seq(SoundCalls), request \in requestCBHash : Send(requestCBHash \ {request}, calls)
    BY <1>5, AcceptedSends DEF Types
  <2>2. requestCBHash \ {request} \in SUBSET requestCBHash
    OBVIOUS
  <2>. QED
    BY <1>2, <2>1, <2>2
<1>6. ~Drop /\ ~Pop /\ ~Answers /\ ~ServerSpeaks /\ ~LinkBreaks /\ ~UNCHANGED <<wireVars, workQueue>>
  BY DEF Drop, OnDisconnect, Pop, Answers, Consume, ServerSpeaks, LinkBreaks, wireVars
<1>7. \A ok \in BOOLEAN : ~ServerAnswers(ok)
  BY DEF ServerAnswers
<1>. QED
  BY <1>3, <1>4, <1>5, <1>6, <1>7, WireFrame DEF Types

LEMMA AcceptedStep ==
    Core /\ Remembered /\ Acknowledged /\ [Next]_vars => AcceptedIsApplied'
<1>. SUFFICES ASSUME Core, Remembered, Acknowledged, [Next]_vars,
            NEW r \in requestCBHash', NEW i \in DOMAIN workQueue', r.call.type = "put",
            workQueue'[i].type = "answer", workQueue'[i].rn = r.rn, workQueue'[i].ok
     PROVE  r.call.id <= applied'
  BY DEF AcceptedIsApplied
<1>. USE DEF Core
<1>1. PICK k \in Nat : requestNumber = k + Len(toServer) /\ WireOf(k, requestCBHash, toServer, workQueue)
  BY DEF Wire, ServedUpTo, Types, WireTypes
<1>2. /\ Len(toServer) \in Nat /\ DOMAIN toServer = 1..Len(toServer) /\ toServer \in Seq(SoundRequests)
      /\ \A s \in requestCBHash : s.rn \in Nat /\ s.call.id \in Nat
  BY LenProperties DEF Types, WireTypes, SoundRequests, Requests
<1>3. ASSUME NEW j \in DOMAIN workQueue, workQueue[j] = workQueue'[i] PROVE r.call.id <= applied'
  <2>1. workQueue[j].rn <= k /\ workQueue[j].rn \in Nat /\ workQueue[j].rn = r.rn
    BY <1>1, <1>3, AnswersAreNumbered DEF WireOf, AnswersInOrder, Types, QueueTypes
  <2>2. r \in requestCBHash
    <3>1. ~(r.rn \in Nat /\ r.rn > requestNumber)
      BY <1>1, <1>2, <2>1
    <3>. QED
      BY <3>1, NewCallback
  <2>3. r.call.id <= applied
    BY <1>3, <2>2 DEF Acknowledged, AcceptedIsApplied
  <2>4. ASSUME NEW t \in DOMAIN toServer, toServer[t].call.type = "put" PROVE r.call.id <= toServer[t].call.id
    <3>1. toServer[t] \in requestCBHash /\ toServer[t].rn = k + t
      BY <1>1, <2>4 DEF WireOf, OnTheWay, HasCallback
    <3>2. r.rn < toServer[t].rn
      BY <1>1, <1>2, <2>1, <3>1
    <3>3. r.call.id < toServer[t].call.id
      BY <2>2, <2>4, <3>1, <3>2 DEF Remembered, WritesInOrder
    <3>. QED
      BY <1>2, <2>2, <3>1, <3>3
  <2>. QED
    BY <2>3, <2>4, AppliedNext
<1>4. ASSUME NEW ok \in BOOLEAN, ServerAnswers(ok), HasCallback(Head(toServer).call),
             workQueue'[i].rn = Head(toServer).rn, workQueue'[i].ok = ok
      PROVE  r.call.id <= applied'
  <2>1. toServer # <<>> /\ requestCBHash' = requestCBHash
    BY <1>4 DEF ServerAnswers
  <2>2. 1 \in DOMAIN toServer /\ Head(toServer) = toServer[1]
    BY <1>2, <2>1, TailOfQueue
  <2>3. Head(toServer) \in requestCBHash
    BY <1>1, <1>4, <2>2 DEF WireOf, OnTheWay
  <2>4. r = Head(toServer)
    BY <1>1, <1>4, <2>1, <2>3 DEF WireOf, CallbacksNumbered
  <2>5. applied' = r.call.id
    BY <1>4, <2>4 DEF ServerAnswers
  <2>. QED
    BY <1>2, <2>1, <2>5
<1>. QED
  BY <1>3, <1>4, AnswerArrives

\* A write that was acknowledged is never overwritten by an older one that is sent again
\* after a reconnect (restoreState sends the writes by their index).
THEOREM AcknowledgedWritesStay == Spec => []AcknowledgedWriteStays
<1>1. Init => Acknowledged
  BY DEF Init, Acknowledged, AckedIsOldest, AcceptedIsApplied, Acked
<1>2. Core /\ Remembered /\ AcksPending /\ Acknowledged /\ [Next]_vars => Acknowledged'
  BY AckedStep, AcceptedStep DEF Acknowledged
<1>3. Types /\ Acknowledged => AcknowledgedWriteStays
  <2>. SUFFICES ASSUME Types, Acknowledged, NEW p \in Puts, Acked(p) PROVE applied >= p
    BY DEF AcknowledgedWriteStays, Acked
  <2>1. p <= applied /\ p \in Nat /\ applied \in Nat
    BY BoundsAssumption DEF Acknowledged, AckedIsOldest, Types, ServerTypes, Puts
  <2>. QED
    BY <2>1
<1>. QED
  BY <1>1, <1>2, <1>3, CompletionsAlways, PTL DEF Spec, Core

-----------------------------------------------------------------------------
(* The count of unanswered listens.                                        *)

ListenRequests(cb) == {r \in cb : r.call.type = "listen"}

ListensCounted ==
    /\ IsFiniteSet(ListenRequests(requestCBHash))
    /\ unackedListensCount = Cardinality(ListenRequests(requestCBHash))

\* The first n calls, sent after request m.
FirstRequests(m, calls, n) == {Request(m + i, calls[i]) : i \in 1..n}

LEMMA RequestsCounted ==
    ASSUME NEW n \in Nat, NEW m \in Nat, NEW calls
    PROVE  IsFiniteSet(FirstRequests(m, calls, n)) /\ Cardinality(FirstRequests(m, calls, n)) = n
<1>. USE DEF FirstRequests
<1>. DEFINE sent == FirstRequests(m, calls, n)
            f == [i \in 1..n |-> Request(m + i, calls[i])]
<1>1. f \in [1..n -> sent] /\ \A r \in sent : \E i \in 1..n : f[i] = r
  OBVIOUS
<1>2. \A i \in 1..n : f[i].rn = m + i
  BY DEF Request
<1>3. \A i, j \in 1..n : m + i = m + j => i = j
  OBVIOUS
<1>4. \A i, j \in 1..n : f[i] = f[j] => i = j
  BY <1>2, <1>3
<1>. HIDE DEF f, sent
<1>5. f \in Bijection(1..n, sent)
  BY <1>1, <1>4 DEF Bijection, Injection, Surjection, IsInjective
<1>6. ExistsBijection(1..n, sent)
  BY <1>5 DEF ExistsBijection
<1>7. IsFiniteSet(1..n) /\ Cardinality(1..n) = n
  BY FS_Interval
<1>8. IsFiniteSet(sent) /\ Cardinality(sent) = n
  BY <1>6, <1>7, FS_Bijection
<1>. QED
  BY <1>8 DEF sent

LEMMA ListenCallbacks ==
    ASSUME Types, [Next]_vars
    PROVE  \/ UNCHANGED unackedListensCount /\ Keeps("listen")
           \/ Drop \/ Restores \/ OnListenAnswer \/ Listen
<1>1. "listen" \in CallersTypes /\ \A t \in {"get", "put", "onDisconnect"} : "listen" \in CallersTypes \ {t}
  BY DEF CallersTypes
<1>2. OnGetAnswer \/ GetData \/ OnPutAnswer \/ PutData \/ OnOnDisconnectAnswer \/ OnDisconnectOperation
      => Keeps("listen")
  BY <1>1, OthersKept DEF Types
<1>3. \/ UNCHANGED unackedListensCount
      \/ Drop \/ Restores \/ OnListenAnswer \/ Listen
  BY ListenFrame DEF listenVars, OnListenRevoked, Unlisten
<1>. QED
  BY <1>1, <1>2, <1>3, CallbackFrame

LEMMA ListensCountedStep == Core /\ ListensCounted /\ [Next]_vars => ListensCounted'
<1>. SUFFICES ASSUME Core, ListensCounted, [Next]_vars PROVE ListensCounted'
  OBVIOUS
<1>. USE DEF Core
<1>1. PICK old : old = ListenRequests(requestCBHash)
  OBVIOUS
<1>2. IsFiniteSet(old) /\ unackedListensCount = Cardinality(old) /\ Cardinality(old) \in Nat
  BY <1>1, FS_CardinalityType DEF ListensCounted
<1>3. /\ requestCBHash' \subseteq SoundRequests /\ requestCBHash \subseteq SoundRequests
      /\ requestNumber \in Nat /\ WireTypes
  BY WireTypeStep DEF Types, WireTypes
<1>4. \A r \in requestCBHash : r.rn <= requestNumber /\ r.rn \in Nat
  BY <1>3 DEF Wire, ServedUpTo, WireOf, CallbacksNumbered, SoundRequests, Requests
<1>5. CASE UNCHANGED unackedListensCount /\ Keeps("listen")
  <2>1. ListenRequests(requestCBHash)' = old
    BY <1>1, <1>3, <1>5 DEF Keeps, ListenRequests
  <2>. QED
    BY <1>2, <1>5, <2>1 DEF ListensCounted
<1>6. CASE Drop
  <2>1. requestCBHash' = {} /\ unackedListensCount' = 0
    BY <1>6 DEF Drop, OnDisconnect
  <2>2. ListenRequests(requestCBHash)' = {}
    BY <2>1 DEF ListenRequests
  <2>. QED
    BY <2>1, <2>2, FS_EmptySet DEF ListensCounted
<1>7. CASE Restores
  <2>1. PICK held \in SUBSET requestCBHash, calls \in Seq(SoundCalls), n \in Nat :
          /\ HeldWith(requestNumber, calls, held, requestCBHash')
          /\ \A r \in requestCBHash : r.call.type # "auth" => r \in held
          /\ unackedListensCount' = unackedListensCount + n /\ n <= Len(calls)
          /\ \A i \in 1..Len(calls) : calls[i].type = "listen" <=> i <= n
    BY <1>7, RestorationEffect
  <2>2. PICK sent : sent = FirstRequests(requestNumber, calls, n)
    OBVIOUS
  <2>3. IsFiniteSet(sent) /\ Cardinality(sent) = n
    BY <1>3, <2>2, RequestsCounted
  <2>4. Len(calls) \in Nat
    BY LenProperties
  <2>5. \A i \in 1..Len(calls) : calls[i].type = "listen" <=> i \in 1..n
    BY <2>1, <2>4
  <2>6. \A i \in 1..n : i \in 1..Len(calls) /\ calls[i].type = "listen" /\ HasCallback(calls[i])
    <3>1. \A i \in 1..n : i \in 1..Len(calls)
      BY <2>1, <2>4
    <3>. QED
      BY <2>5, <3>1 DEF HasCallback
  <2>7. ASSUME NEW r PROVE r \in ListenRequests(requestCBHash)' <=> r \in old \cup sent
    <3>1. ASSUME r \in requestCBHash', r.call.type = "listen" PROVE r \in old \cup sent
      <4>1. CASE r \in held
        BY <1>1, <3>1, <4>1 DEF ListenRequests
      <4>2. ASSUME NEW i \in 1..Len(calls), r = Request(requestNumber + i, calls[i]) PROVE r \in sent
        <5>1. r.call = calls[i]
          BY <4>2 DEF Request
        <5>2. i \in 1..n
          BY <2>5, <3>1, <5>1
        <5>. QED
          BY <2>2, <4>2, <5>2 DEF FirstRequests
      <4>. QED
        BY <2>1, <3>1, <4>1, <4>2 DEF HeldWith
    <3>2. ASSUME r \in old PROVE r \in requestCBHash' /\ r.call.type = "listen"
      BY <1>1, <2>1, <3>2 DEF ListenRequests, HeldWith
    <3>3. ASSUME r \in sent PROVE r \in requestCBHash' /\ r.call.type = "listen"
      <4>1. PICK i \in 1..n : r = Request(requestNumber + i, calls[i])
        BY <2>2, <3>3 DEF FirstRequests
      <4>. QED
        BY <2>1, <2>6, <4>1 DEF HeldWith, Request
    <3>. QED
      BY <3>1, <3>2, <3>3 DEF ListenRequests
  <2>8. ListenRequests(requestCBHash)' = old \cup sent
    BY <2>7
  <2>9. old \cap sent = {}
    <3>1. ASSUME NEW r \in old, r \in sent PROVE FALSE
      <4>1. PICK i \in 1..n : r = Request(requestNumber + i, calls[i])
        BY <2>2, <3>1 DEF FirstRequests
      <4>2. r.rn = requestNumber + i /\ r \in requestCBHash
        BY <1>1, <3>1, <4>1 DEF Request, ListenRequests
      <4>. QED
        BY <1>3, <1>4, <4>2
    <3>. QED
      BY <3>1
  <2>10. IsFiniteSet(old \cup sent) /\ Cardinality(old \cup sent) = Cardinality(old) + n - Cardinality(old \cap sent)
    BY <1>2, <2>3, FS_Union
  <2>11. Cardinality(old \cap sent) = 0
    BY <2>9, FS_EmptySet
  <2>12. Cardinality(old \cup sent) = unackedListensCount'
    BY <1>2, <2>1, <2>10, <2>11
  <2>. QED
    BY <2>8, <2>10, <2>12 DEF ListensCounted
<1>8. CASE OnListenAnswer
  <2>1. PICK request \in requestCBHash :
          /\ request.call.type = "listen" /\ requestCBHash' = requestCBHash \ {request}
          /\ unackedListensCount' = unackedListensCount - 1
    BY <1>8 DEF OnListenAnswer, Answered, Consume
  <2>2. ListenRequests(requestCBHash)' = old \ {request} /\ request \in old
    BY <1>1, <2>1 DEF ListenRequests
  <2>3. IsFiniteSet(old \ {request}) /\ Cardinality(old \ {request}) = Cardinality(old) - 1
    BY <1>2, <2>2, FS_RemoveElement
  <2>. QED
    BY <1>2, <2>1, <2>2, <2>3 DEF ListensCounted
<1>9. CASE Listen
  <2>1. CASE connected
    <3>1. PICK call \in SoundCalls :
            /\ call = Call("listen", listenCounter + 1)
            /\ Send(requestCBHash, <<call>>) /\ unackedListensCount' = unackedListensCount + 1
      <4>1. Call("listen", listenCounter + 1) \in SoundCalls
        BY <1>9, BoundsAssumption DEF Types, IdTypes, Listen, SoundCalls, Call, IdFits, CallTypes, Listens
      <4>. QED
        BY <1>9, <2>1, <4>1 DEF Listen
    <3>2. call.type = "listen" /\ HasCallback(call)
      BY <3>1 DEF Call, HasCallback
    <3>3. PICK new : new = Request(requestNumber + 1, call)
      OBVIOUS
    <3>4. requestCBHash' = requestCBHash \cup {new}
      BY <1>3, <3>1, <3>2, <3>3, OneSent
    <3>5. new.rn = requestNumber + 1 /\ new.call.type = "listen"
      BY <3>2, <3>3 DEF Request
    <3>6. new \notin old
      <4>1. requestNumber + 1 > requestNumber
        BY <1>3
      <4>. QED
        BY <1>1, <1>3, <1>4, <3>5, <4>1 DEF ListenRequests
    <3>7. ListenRequests(requestCBHash)' = old \cup {new}
      BY <1>1, <3>4, <3>5 DEF ListenRequests
    <3>8. IsFiniteSet(old \cup {new}) /\ Cardinality(old \cup {new}) = Cardinality(old) + 1
      BY <1>2, <3>6, FS_AddElement
    <3>. QED
      BY <1>2, <3>1, <3>7, <3>8 DEF ListensCounted
  <2>2. CASE ~connected
    <3>1. requestCBHash' = requestCBHash /\ unackedListensCount' = unackedListensCount
      BY <1>9, <2>2 DEF Listen, wireVars
    <3>. QED
      BY <3>1 DEF ListensCounted, ListenRequests
  <2>. QED
    BY <2>1, <2>2
<1>. QED
  BY <1>5, <1>6, <1>7, <1>8, <1>9, ListenCallbacks

\* The count that delays the completion of writes is the number of listens without an
\* answer (unackedListensCount); it is unsigned in the code, so one decrement too many
\* would hold back completions for ever.
THEOREM UnackedListensAreCounted == Spec => []UnackedListensCounted
<1>1. Init => Core /\ ListensCounted
  <2>. SUFFICES ASSUME Init PROVE ListensCounted
    BY CoreInit
  <2>1. ListenRequests(requestCBHash) = {} /\ unackedListensCount = 0
    BY DEF Init, ListenRequests
  <2>. QED
    BY <2>1, FS_EmptySet DEF ListensCounted
<1>2. Core /\ ListensCounted /\ [Next]_vars => (Core /\ ListensCounted)'
  BY CoreStep, ListensCountedStep
<1>3. ListensCounted => UnackedListensCounted
  BY DEF ListensCounted, UnackedListensCounted, ListenRequests
<1>. QED
  BY <1>1, <1>2, <1>3, PTL DEF Spec

-----------------------------------------------------------------------------
(* Gets.                                                                   *)

LEMMA GetStep ==
    ASSUME Types, [Next]_vars
    PROVE  \/ UNCHANGED getVars /\ Keeps("get") /\ Publish
           \/ UNCHANGED <<getVars, published>> /\ Keeps("get")
           \/ UNCHANGED <<getVars, published>> /\ requestCBHash' = {}
           \/ Restores /\ UNCHANGED published
           \/ OnGetAnswer \/ GetData \/ \E get \in Gets : GetTimeout(get)
<1>1. "get" \in CallersTypes /\ \A t \in {"put", "listen", "onDisconnect"} : "get" \in CallersTypes \ {t}
  BY DEF CallersTypes
<1>2. OnPutAnswer \/ PutData \/ OnListenAnswer \/ Listen \/ OnOnDisconnectAnswer \/ OnDisconnectOperation
      => Keeps("get")
  BY <1>1, OthersKept DEF Types
<1>3. CASE Publish
  BY <1>3 DEF Publish, wireVars, Keeps
<1>4. CASE ~Publish
  <2>1. published' = published
    BY <1>4, ServerFrame DEF serverVars, Drop, OnDisconnect, CloseSocket, LinkBreaks, ServerAnswers, ServerCancels
  <2>2. Drop => UNCHANGED getVars /\ requestCBHash' = {}
    BY DEF Drop, OnDisconnect
  <2>. QED
    BY <1>1, <1>2, <2>1, <2>2, GetFrame, CallbackFrame
<1>. QED
  BY <1>3, <1>4

Completions == [get : Gets, result : Versions \cup {Failure}]

GetsTyped ==
    /\ askedAt \in [Gets -> 0..MaxVersion] /\ completed \in Seq(Completions)

\* A get is completed, or outstanding; those on the wire are among the sent ones.
GetsKnown ==
    /\ \A g \in outstandingGets \cup sentGets : g <= getCounter
    /\ \A i \in DOMAIN completed : completed[i].get <= getCounter /\ completed[i].get \notin outstandingGets
    /\ \A r \in requestCBHash : r.call.type = "get" => r.call.id <= getCounter /\ r.call.id \in sentGets

GetAnswer(r, block) == r.call.type = "get" /\ block.type = "answer" /\ block.rn = r.rn /\ block.ok
NotNewer(result, version) == result \in Versions => result <= version

\* The versions on their way to the client are not older than the calls of the gets and
\* than what was delivered, and come in the order of the requests.
AskedInTime == \A g \in Gets : askedAt[g] <= published
DeliveredOld == \A i \in DOMAIN completed : NotNewer(completed[i].result, published)

AnswersFresh ==
    \A r \in requestCBHash, i \in DOMAIN workQueue : GetAnswer(r, workQueue[i]) =>
        /\ workQueue[i].value \in Versions
        /\ askedAt[r.call.id] <= workQueue[i].value /\ workQueue[i].value <= published
        /\ \A c \in DOMAIN completed : NotNewer(completed[c].result, workQueue[i].value)

AnswersAscend ==
    \A r, s \in requestCBHash, i, j \in DOMAIN workQueue :
        GetAnswer(r, workQueue[i]) /\ GetAnswer(s, workQueue[j]) /\ r.rn < s.rn
        => workQueue[i].value <= workQueue[j].value

GetsInOrder == GetsTyped /\ GetsKnown /\ AskedInTime /\ DeliveredOld /\ AnswersFresh /\ AnswersAscend

\* A completion is added.
LEMMA CompletedNext ==
    ASSUME GetsTyped, NEW get \in Gets, NEW result \in Versions \cup {Failure}, Complete(get, result)
    PROVE  /\ completed' \in Seq(Completions)
           /\ \A i \in DOMAIN completed : i \in DOMAIN completed' /\ completed'[i] = completed[i]
           /\ \A i \in DOMAIN completed' :
                 \/ i \in DOMAIN completed /\ completed'[i] = completed[i]
                 \/ completed'[i].get = get /\ completed'[i].result = result
           /\ \E i \in DOMAIN completed' : completed'[i].get = get
<1>1. PICK done \in Completions : done = [get |-> get, result |-> result] /\ done.get = get /\ done.result = result
  <2>1. [get |-> get, result |-> result] \in Completions
    BY DEF Completions
  <2>. QED
    BY <2>1
<1>2. completed' = Append(completed, done) /\ completed \in Seq(Completions)
  BY <1>1 DEF Complete, GetsTyped
<1>3. /\ completed' \in Seq(Completions) /\ Len(completed) \in Nat
      /\ DOMAIN completed = 1..Len(completed) /\ DOMAIN completed' = 1..(Len(completed) + 1)
      /\ \A i \in DOMAIN completed : completed'[i] = completed[i]
      /\ completed'[Len(completed) + 1] = done
  BY <1>2, AppendToQueue
<1>. QED
  BY <1>1, <1>3

LEMMA GetsTypedFacts ==
    ASSUME Types, GetsTyped
    PROVE  /\ \A i \in DOMAIN completed : completed[i].get \in Gets /\ completed[i].result \in Versions \cup {Failure}
           /\ Gets \subseteq Nat /\ getCounter \in Nat /\ published \in Nat /\ Versions \subseteq Nat
           /\ outstandingGets \subseteq Gets /\ sentGets \subseteq Gets
           /\ \A r \in requestCBHash : r.call.type = "get" => r.call.id \in Gets
           /\ \A r \in requestCBHash : r.rn \in Nat
<1>1. \A i \in DOMAIN completed : completed[i] \in Completions
  BY LenProperties, ElementOfSeq DEF GetsTyped
<1>2. /\ Gets \subseteq Nat /\ getCounter \in Nat /\ published \in Nat /\ Versions \subseteq Nat
      /\ outstandingGets \subseteq Gets /\ sentGets \subseteq Gets
  BY BoundsAssumption DEF Types, IdTypes, ServerTypes, Gets, Versions
<1>3. /\ \A r \in requestCBHash : r.call.type = "get" => r.call.id \in Gets
      /\ \A r \in requestCBHash : r.rn \in Nat
  BY DEF Types, WireTypes, SoundRequests, Requests, IdFits
<1>. QED
  BY <1>1, <1>2, <1>3 DEF Completions

\* What GetData, OnGetAnswer and GetTimeout do.
LEMMA GetDataEffect ==
    ASSUME Types, GetData
    PROVE  \E get \in Gets :
              /\ get = getCounter + 1 /\ getCounter' = get
              /\ outstandingGets' = outstandingGets \cup {get}
              /\ askedAt' = [askedAt EXCEPT ![get] = published]
              /\ UNCHANGED <<completed, published, workQueue>>
              /\ \/ sentGets' = sentGets /\ requestCBHash' = requestCBHash
                 \/ /\ sentGets' = sentGets \cup {get}
                    /\ requestCBHash' = requestCBHash \cup {Request(requestNumber + 1, Call("get", get))}
<1>1. PICK get \in Gets : get = getCounter + 1
  BY BoundsAssumption DEF Types, IdTypes, GetData, Gets
<1>2. /\ getCounter' = get /\ outstandingGets' = outstandingGets \cup {get}
      /\ askedAt' = [askedAt EXCEPT ![get] = published] /\ UNCHANGED <<completed, published, workQueue>>
  BY <1>1 DEF GetData, serverVars
<1>3. CASE canSend
  <2>1. sentGets' = sentGets \cup {get} /\ Send(requestCBHash, <<Call("get", get)>>)
    BY <1>1, <1>3 DEF GetData
  <2>2. Call("get", get) \in SoundCalls /\ HasCallback(Call("get", get))
    BY BoundsAssumption DEF SoundCalls, Call, IdFits, CallTypes, HasCallback, Gets
  <2>3. requestCBHash' = requestCBHash \cup {Request(requestNumber + 1, Call("get", get))}
    BY <2>1, <2>2, OneSent DEF Types
  <2>. QED
    BY <1>1, <1>2, <2>1, <2>3
<1>4. CASE ~canSend
  BY <1>1, <1>2, <1>4 DEF GetData, wireVars
<1>. QED
  BY <1>3, <1>4

LEMMA GetAnswerEffect ==
    ASSUME OnGetAnswer
    PROVE  \E request \in requestCBHash :
              /\ HeadIs("answer") /\ request.rn = Head(workQueue).rn /\ request.call.type = "get"
              /\ requestCBHash' = requestCBHash \ {request} /\ workQueue' = Tail(workQueue)
              /\ UNCHANGED <<getCounter, sentGets, askedAt, published>>
              /\ \/ /\ request.call.id \in outstandingGets
                    /\ outstandingGets' = outstandingGets \ {request.call.id}
                    /\ Complete(request.call.id, IF Head(workQueue).ok THEN Head(workQueue).value ELSE Failure)
                 \/ request.call.id \notin outstandingGets /\ UNCHANGED <<outstandingGets, completed>>
BY DEF OnGetAnswer, Answered, Consume, serverVars

LEMMA GetsKnownStep == Core /\ GetsInOrder /\ [Next]_vars => GetsKnown'
<1>. SUFFICES ASSUME Core, GetsInOrder, [Next]_vars PROVE GetsKnown'
  OBVIOUS
<1>. USE DEF Core
<1>1. /\ \A i \in DOMAIN completed : completed[i].get \in Gets
      /\ Gets \subseteq Nat /\ getCounter \in Nat /\ outstandingGets \subseteq Gets /\ sentGets \subseteq Gets
      /\ \A r \in requestCBHash : r.call.type = "get" => r.call.id \in Gets
      /\ Types /\ GetsTyped /\ GetsKnown
  BY GetsTypedFacts DEF GetsInOrder
<1>2. requestCBHash' \subseteq SoundRequests
  BY WireTypeStep DEF Types, WireTypes
<1>3. CASE UNCHANGED getVars /\ (Keeps("get") \/ requestCBHash' = {})
  <2>1. \A r \in requestCBHash' : r.call.type = "get" => r \in requestCBHash
    BY <1>2, <1>3 DEF Keeps
  <2>. QED
    BY <1>1, <1>3, <2>1 DEF GetsKnown, getVars
<1>4. CASE Restores
  <2>1. PICK held \in SUBSET requestCBHash, calls \in Seq(SoundCalls) :
          Restoring(calls) /\ HeldWith(requestNumber, calls, held, requestCBHash')
    BY <1>4, RestorationEffect
  <2>2. /\ sentGets' = sentGets \cup outstandingGets
        /\ UNCHANGED <<getCounter, outstandingGets, completed>>
    BY <1>4 DEF Restores, RestoreState, Restore
  <2>3. ASSUME NEW r \in requestCBHash', r.call.type = "get"
        PROVE  r.call.id <= getCounter /\ r.call.id \in sentGets \cup outstandingGets
    <3>1. CASE r \in held
      BY <1>1, <2>3, <3>1 DEF GetsKnown
    <3>2. ASSUME NEW i \in 1..Len(calls), r = Request(requestNumber + i, calls[i])
          PROVE  r.call.id <= getCounter /\ r.call.id \in sentGets \cup outstandingGets
      <4>1. r.call = calls[i]
        BY <3>2 DEF Request
      <4>2. r.call.id \in outstandingGets
        BY <2>1, <2>3, <4>1 DEF Restoring
      <4>. QED
        BY <1>1, <4>2 DEF GetsKnown
    <3>. QED
      BY <2>1, <3>1, <3>2 DEF HeldWith
  <2>. QED
    BY <1>1, <2>2, <2>3 DEF GetsKnown
<1>5. CASE OnGetAnswer
  <2>1. PICK request \in requestCBHash :
          /\ requestCBHash' = requestCBHash \ {request} /\ request.call.type = "get" /\ HeadIs("answer")
          /\ UNCHANGED <<getCounter, sentGets>>
          /\ \/ /\ request.call.id \in outstandingGets
                /\ outstandingGets' = outstandingGets \ {request.call.id}
                /\ Complete(request.call.id, IF Head(workQueue).ok THEN Head(workQueue).value ELSE Failure)
             \/ request.call.id \notin outstandingGets /\ UNCHANGED <<outstandingGets, completed>>
    BY <1>5, GetAnswerEffect
  <2>2. CASE UNCHANGED <<outstandingGets, completed>>
    BY <1>1, <2>1, <2>2 DEF GetsKnown
  <2>3. CASE /\ request.call.id \in outstandingGets
             /\ outstandingGets' = outstandingGets \ {request.call.id}
             /\ Complete(request.call.id, IF Head(workQueue).ok THEN Head(workQueue).value ELSE Failure)
    <3>1. PICK get : get = request.call.id
      OBVIOUS
    <3>2. PICK result : Complete(get, result)
      BY <2>3, <3>1
    <3>3. \A i \in DOMAIN completed' : completed'[i].get = get \/ (i \in DOMAIN completed /\ completed'[i] = completed[i])
      <4>1. completed' = Append(completed, [get |-> get, result |-> result])
        BY <3>2 DEF Complete
      <4>2. completed \in Seq(Completions)
        BY <1>1 DEF GetsTyped
      <4>. QED
        BY <4>1, <4>2
    <3>4. get <= getCounter
      BY <1>1, <2>3, <3>1 DEF GetsKnown
    <3>5. \A i \in DOMAIN completed' : completed'[i].get <= getCounter /\ completed'[i].get \notin outstandingGets'
      BY <1>1, <2>3, <3>1, <3>3, <3>4 DEF GetsKnown
    <3>. QED
      BY <1>1, <2>1, <2>3, <3>5 DEF GetsKnown
  <2>. QED
    BY <2>1, <2>2, <2>3
<1>6. CASE GetData
  <2>1. PICK get \in Gets :
          /\ get = getCounter + 1 /\ getCounter' = get
          /\ outstandingGets' = outstandingGets \cup {get} /\ completed' = completed
          /\ \/ sentGets' = sentGets /\ requestCBHash' = requestCBHash
             \/ /\ sentGets' = sentGets \cup {get}
                /\ requestCBHash' = requestCBHash \cup {Request(requestNumber + 1, Call("get", get))}
    BY <1>6, GetDataEffect
  <2>2. \A g \in Nat : g <= getCounter => g <= get /\ g # get
    BY <1>1, <2>1
  <2>3. get <= get
    BY <1>1
  <2>4. \A g \in outstandingGets' \cup sentGets' : g <= get
    BY <1>1, <2>1, <2>2, <2>3 DEF GetsKnown
  <2>5. \A i \in DOMAIN completed : completed[i].get <= get /\ completed[i].get \notin outstandingGets'
    BY <1>1, <2>1, <2>2 DEF GetsKnown
  <2>6. Request(requestNumber + 1, Call("get", get)).call.id = get
    BY DEF Request, Call
  <2>7. \A r \in requestCBHash' : r.call.type = "get" => r.call.id <= get /\ r.call.id \in sentGets'
    BY <1>1, <2>1, <2>2, <2>3, <2>6 DEF GetsKnown
  <2>. QED
    BY <2>1, <2>4, <2>5, <2>7 DEF GetsKnown
<1>7. ASSUME NEW get \in Gets, GetTimeout(get) PROVE GetsKnown'
  <2>1. /\ UNCHANGED <<getCounter, requestCBHash>>
        /\ \/ UNCHANGED <<sentGets, outstandingGets, completed>>
           \/ /\ get \in outstandingGets \ sentGets /\ sentGets' = sentGets \cup {get}
              /\ outstandingGets' = outstandingGets \ {get} /\ Complete(get, Failure)
    BY <1>7 DEF GetTimeout, wireVars
  <2>2. CASE UNCHANGED <<sentGets, outstandingGets, completed>>
    BY <1>1, <2>1, <2>2 DEF GetsKnown
  <2>3. CASE /\ get \in outstandingGets \ sentGets /\ sentGets' = sentGets \cup {get}
             /\ outstandingGets' = outstandingGets \ {get} /\ Complete(get, Failure)
    <3>1. \A i \in DOMAIN completed' : completed'[i].get = get \/ (i \in DOMAIN completed /\ completed'[i] = completed[i])
      BY <1>1, <2>3, CompletedNext
    <3>2. get <= getCounter
      BY <1>1, <2>3 DEF GetsKnown
    <3>3. \A i \in DOMAIN completed' : completed'[i].get <= getCounter /\ completed'[i].get \notin outstandingGets'
      BY <1>1, <2>3, <3>1, <3>2 DEF GetsKnown
    <3>. QED
      BY <1>1, <2>1, <2>3, <3>2, <3>3 DEF GetsKnown
  <2>. QED
    BY <2>1, <2>2, <2>3
<1>. QED
  BY <1>3, <1>4, <1>5, <1>6, <1>7, GetStep

\* Where the answer to a get comes from: it was there, or the server just gave it.
LEMMA GetAnswerArrives ==
    ASSUME Core, [Next]_vars, NEW k \in Nat, ServedUpTo(k),
           NEW r \in requestCBHash', NEW i \in DOMAIN workQueue', GetAnswer(r, workQueue'[i])
    PROVE  \/ /\ r \in requestCBHash /\ r.rn <= k
              /\ \E j \in DOMAIN workQueue : workQueue[j] = workQueue'[i]
           \/ /\ r \in requestCBHash /\ r.rn = k + 1 /\ UNCHANGED <<getVars, published, requestCBHash>>
              /\ workQueue'[i].value = published
<1>. USE DEF Core, GetAnswer
<1>1. requestNumber = k + Len(toServer) /\ WireOf(k, requestCBHash, toServer, workQueue)
  BY DEF ServedUpTo
<1>2. Len(toServer) \in Nat /\ toServer \in Seq(SoundRequests)
  BY LenProperties DEF Types, WireTypes
<1>3. ASSUME NEW j \in DOMAIN workQueue, workQueue[j] = workQueue'[i] PROVE r \in requestCBHash /\ r.rn <= k
  <2>1. workQueue[j].rn <= k /\ workQueue[j].rn \in Nat /\ workQueue[j].rn = r.rn
    BY <1>1, <1>3, AnswersAreNumbered DEF WireOf, AnswersInOrder, Types, QueueTypes
  <2>2. ~(r.rn \in Nat /\ r.rn > requestNumber)
    BY <1>1, <1>2, <2>1
  <2>. QED
    BY <2>1, <2>2, NewCallback
<1>4. ASSUME NEW ok \in BOOLEAN, ServerAnswers(ok), HasCallback(Head(toServer).call),
             workQueue'[i].rn = Head(toServer).rn, workQueue'[i].ok = ok,
             Head(toServer).call.type = "get" /\ ok => workQueue'[i].value = published
      PROVE  /\ r \in requestCBHash /\ r.rn = k + 1 /\ UNCHANGED <<getVars, published, requestCBHash>>
             /\ workQueue'[i].value = published
  <2>1. toServer # <<>> /\ UNCHANGED <<getVars, published, requestCBHash>>
    BY <1>4 DEF ServerAnswers
  <2>2. 1 \in DOMAIN toServer /\ Head(toServer) = toServer[1]
    BY <1>2, <2>1, TailOfQueue
  <2>3. Head(toServer) \in requestCBHash /\ Head(toServer).rn = k + 1
    BY <1>1, <1>4, <2>2 DEF WireOf, OnTheWay
  <2>4. r = Head(toServer)
    BY <1>1, <1>4, <2>1, <2>3 DEF WireOf, CallbacksNumbered
  <2>. QED
    BY <1>4, <2>1, <2>3, <2>4
<1>. QED
  BY <1>3, <1>4, AnswerArrives

\* The result a step may add to the completions.
Delivered(request, result) ==
    /\ HeadIs("answer") /\ GetAnswer(request, Head(workQueue)) /\ result = Head(workQueue).value
    /\ requestCBHash' = requestCBHash \ {request} /\ UNCHANGED published

\* The versions only grow, a call keeps its version, completions are old or delivered now.
HistoryGrows ==
    /\ published' \in Nat /\ published <= published'
    /\ askedAt' \in [Gets -> 0..MaxVersion]
    /\ \A g \in Gets : g <= getCounter => askedAt'[g] = askedAt[g]
    /\ \A g \in Gets : askedAt'[g] = askedAt[g] \/ askedAt'[g] = published
    /\ completed' \in Seq(Completions)
    /\ \A c \in DOMAIN completed' :
          \/ \E d \in DOMAIN completed : completed'[c] = completed[d]
          \/ completed'[c].result = Failure
          \/ \E request \in requestCBHash : Delivered(request, completed'[c].result)

LEMMA GetHistory ==
    ASSUME Core, GetsInOrder, [Next]_vars
    PROVE  HistoryGrows
<1>. USE DEF Core
<1>1. /\ Gets \subseteq Nat /\ getCounter \in Nat /\ published \in Nat /\ Versions \subseteq Nat
      /\ \A r \in requestCBHash : r.call.type = "get" => r.call.id \in Gets
      /\ Types /\ GetsTyped
  BY GetsTypedFacts DEF GetsInOrder
<1>2. askedAt \in [Gets -> 0..MaxVersion] /\ completed \in Seq(Completions)
  BY <1>1 DEF GetsTyped
<1>3. published \in 0..MaxVersion
  BY BoundsAssumption DEF Types, ServerTypes, Versions
<1>4. ASSUME askedAt' = askedAt, completed' = completed, published' = published \/ published' = published + 1
      PROVE  HistoryGrows
  <2>1. published' \in Nat /\ published <= published'
    BY <1>1, <1>4
  <2>. QED
    BY <1>2, <1>4, <2>1 DEF HistoryGrows
<1>5. CASE UNCHANGED getVars /\ (Publish \/ UNCHANGED published)
  <2>1. askedAt' = askedAt /\ completed' = completed /\ (published' = published \/ published' = published + 1)
    BY <1>5 DEF getVars, Publish
  <2>. QED
    BY <1>4, <2>1
<1>6. CASE Restores /\ UNCHANGED published
  <2>1. askedAt' = askedAt /\ completed' = completed
    BY <1>6 DEF Restores, RestoreState, Restore
  <2>. QED
    BY <1>4, <1>6, <2>1
<1>7. CASE GetData
  <2>1. PICK get \in Gets :
          /\ get = getCounter + 1 /\ askedAt' = [askedAt EXCEPT ![get] = published]
          /\ completed' = completed /\ published' = published
    BY <1>7, GetDataEffect
  <2>2. askedAt' \in [Gets -> 0..MaxVersion]
    BY <1>2, <1>3, <2>1
  <2>3. \A g \in Gets : g # get => askedAt'[g] = askedAt[g]
    BY <1>2, <2>1
  <2>4. askedAt'[get] = published
    BY <1>2, <2>1
  <2>5. \A g \in Gets : g <= getCounter => g # get
    BY <1>1, <2>1
  <2>6. published' \in Nat /\ published <= published'
    BY <1>1, <2>1
  <2>. QED
    BY <1>2, <2>1, <2>2, <2>3, <2>4, <2>5, <2>6 DEF HistoryGrows
\* A result is delivered.
<1>8. ASSUME NEW get \in Gets, NEW result \in Versions \cup {Failure}, Complete(get, result),
             askedAt' = askedAt, published' = published,
             result = Failure \/ \E request \in requestCBHash : Delivered(request, result)
      PROVE  HistoryGrows
  <2>1. /\ completed' \in Seq(Completions)
        /\ \A i \in DOMAIN completed' :
              \/ i \in DOMAIN completed /\ completed'[i] = completed[i]
              \/ completed'[i].result = result
    BY <1>1, <1>8, CompletedNext
  <2>2. published' \in Nat /\ published <= published'
    BY <1>1, <1>8
  <2>. QED
    BY <1>2, <1>8, <2>1, <2>2 DEF HistoryGrows
<1>9. CASE OnGetAnswer
  <2>1. PICK request \in requestCBHash :
          /\ HeadIs("answer") /\ request.rn = Head(workQueue).rn /\ request.call.type = "get"
          /\ requestCBHash' = requestCBHash \ {request}
          /\ askedAt' = askedAt /\ published' = published
          /\ \/ Complete(request.call.id, IF Head(workQueue).ok THEN Head(workQueue).value ELSE Failure)
             \/ completed' = completed
    BY <1>9, GetAnswerEffect
  <2>2. CASE completed' = completed
    BY <1>4, <2>1, <2>2
  <2>3. CASE Complete(request.call.id, IF Head(workQueue).ok THEN Head(workQueue).value ELSE Failure)
    <3>1. PICK get \in Gets : get = request.call.id
      BY <1>1, <2>1
    <3>2. PICK result : result = IF Head(workQueue).ok THEN Head(workQueue).value ELSE Failure
      OBVIOUS
    <3>3. Complete(get, result)
      BY <2>3, <3>1, <3>2
    <3>4. result = Failure \/ (Delivered(request, result) /\ result \in Versions)
      <4>1. 1 \in DOMAIN workQueue /\ Head(workQueue) = workQueue[1]
        BY <2>1, TailOfQueue DEF HeadIs, Types, QueueTypes
      <4>2. CASE Head(workQueue).ok
        <5>1. GetAnswer(request, Head(workQueue))
          BY <2>1, <4>2 DEF GetAnswer, HeadIs
        <5>2. Head(workQueue).value \in Versions
          BY <4>1, <5>1 DEF GetsInOrder, AnswersFresh
        <5>. QED
          BY <2>1, <3>2, <4>2, <5>1, <5>2 DEF Delivered
      <4>3. CASE ~Head(workQueue).ok
        BY <3>2, <4>3
      <4>. QED
        BY <4>2, <4>3
    <3>5. result \in Versions \cup {Failure}
      BY <3>4
    <3>. QED
      BY <1>8, <2>1, <3>3, <3>4, <3>5
  <2>. QED
    BY <2>1, <2>2, <2>3
<1>10. ASSUME NEW get \in Gets, GetTimeout(get)
       PROVE  /\ askedAt' = askedAt /\ published' = published
              /\ completed' = completed \/ Complete(get, Failure)
  BY <1>10 DEF GetTimeout, serverVars
<1>11. CASE \E get \in Gets : GetTimeout(get)
  <2>1. PICK get \in Gets :
          /\ askedAt' = askedAt /\ published' = published
          /\ completed' = completed \/ Complete(get, Failure)
    BY <1>10, <1>11
  <2>2. CASE completed' = completed
    BY <1>4, <2>1, <2>2
  <2>3. CASE Complete(get, Failure)
    BY <1>8, <2>1, <2>3
  <2>. QED
    BY <2>1, <2>2, <2>3
<1>. QED
  BY <1>5, <1>6, <1>7, <1>9, <1>11, GetStep

LEMMA VersionsStep ==
    Core /\ GetsInOrder /\ [Next]_vars => (GetsTyped /\ AskedInTime /\ DeliveredOld /\ AnswersFresh /\ AnswersAscend)'
<1>. SUFFICES ASSUME Core, GetsInOrder, [Next]_vars
     PROVE  (GetsTyped /\ AskedInTime /\ DeliveredOld /\ AnswersFresh /\ AnswersAscend)'
  OBVIOUS
<1>. USE DEF Core
<1>1. /\ \A i \in DOMAIN completed : completed[i].result \in Versions \cup {Failure}
      /\ Gets \subseteq Nat /\ getCounter \in Nat /\ published \in Nat /\ Versions \subseteq Nat
      /\ \A r \in requestCBHash : r.call.type = "get" => r.call.id \in Gets
      /\ \A r \in requestCBHash : r.rn \in Nat
      /\ Types
  BY GetsTypedFacts DEF GetsInOrder
<1>2. /\ published' \in Nat /\ published <= published'
      /\ askedAt' \in [Gets -> 0..MaxVersion]
      /\ \A g \in Gets : g <= getCounter => askedAt'[g] = askedAt[g]
      /\ \A g \in Gets : askedAt'[g] = askedAt[g] \/ askedAt'[g] = published
      /\ completed' \in Seq(Completions)
      /\ \A c \in DOMAIN completed' :
            \/ \E d \in DOMAIN completed : completed'[c] = completed[d]
            \/ completed'[c].result = Failure
            \/ \E request \in requestCBHash : Delivered(request, completed'[c].result)
  BY GetHistory DEF HistoryGrows
<1>3. askedAt \in [Gets -> 0..MaxVersion] /\ \A g \in Gets : askedAt[g] \in Nat
  BY BoundsAssumption DEF GetsInOrder, GetsTyped
<1>4. AskedInTime'
  <2>. SUFFICES ASSUME NEW g \in Gets PROVE askedAt'[g] <= published'
    BY DEF AskedInTime
  <2>1. askedAt[g] <= published /\ askedAt[g] \in Nat
    BY <1>3 DEF GetsInOrder, AskedInTime
  <2>2. askedAt'[g] = askedAt[g] \/ askedAt'[g] = published
    BY <1>2
  <2>. QED
    BY <1>1, <1>2, <2>1, <2>2
\* The request that is answered, and what is delivered to it.
<1>5. ASSUME NEW request \in requestCBHash, NEW result, Delivered(request, result)
      PROVE  /\ result \in Versions /\ result <= published
             /\ \A s \in requestCBHash', j \in DOMAIN workQueue :
                   s \in requestCBHash /\ GetAnswer(s, workQueue[j]) => result <= workQueue[j].value
  <2>1. 1 \in DOMAIN workQueue /\ GetAnswer(request, workQueue[1]) /\ result = workQueue[1].value
    BY <1>5, TailOfQueue DEF Delivered, HeadIs, Types, QueueTypes
  <2>2. result \in Versions /\ result <= published
    BY <2>1 DEF GetsInOrder, AnswersFresh
  <2>3. ASSUME NEW s \in requestCBHash', NEW j \in DOMAIN workQueue, s \in requestCBHash, GetAnswer(s, workQueue[j])
        PROVE  result <= workQueue[j].value
    <3>1. request.rn = Head(workQueue).rn /\ s # request /\ HeadIs("answer")
      BY <1>5, <2>3 DEF Delivered, GetAnswer
    <3>2. request.rn < s.rn
      BY <2>3, <3>1, OldestIsAnswered
    <3>. QED
      BY <2>1, <2>3, <3>2 DEF GetsInOrder, AnswersAscend
  <2>. QED
    BY <2>2, <2>3
<1>6. DeliveredOld'
  <2>. SUFFICES ASSUME NEW c \in DOMAIN completed', completed'[c].result \in Versions
       PROVE  completed'[c].result <= published'
    BY DEF DeliveredOld, NotNewer
  <2>1. PICK result \in Versions : result = completed'[c].result
    OBVIOUS
  <2>2. result \in Nat
    BY <1>1
  <2>3. result # Failure
    BY BoundsAssumption
  <2>4. result <= published
    <3>1. ASSUME NEW d \in DOMAIN completed, completed'[c] = completed[d] PROVE result <= published
      BY <2>1, <3>1 DEF GetsInOrder, DeliveredOld, NotNewer
    <3>. QED
      BY <1>2, <1>5, <2>1, <2>3, <3>1
  <2>. QED
    BY <1>1, <1>2, <2>1, <2>2, <2>4
<1>7. PICK k \in Nat : ServedUpTo(k)
  BY DEF Wire, Types, WireTypes
<1>8. AnswersFresh'
  <2>. SUFFICES ASSUME NEW r \in requestCBHash', NEW i \in DOMAIN workQueue', GetAnswer(r, workQueue'[i])
       PROVE  /\ workQueue'[i].value \in Versions
              /\ askedAt'[r.call.id] <= workQueue'[i].value /\ workQueue'[i].value <= published'
              /\ \A c \in DOMAIN completed' : NotNewer(completed'[c].result, workQueue'[i].value)
    BY DEF AnswersFresh
  <2>1. CASE r \in requestCBHash /\ \E j \in DOMAIN workQueue : workQueue[j] = workQueue'[i]
    <3>1. PICK j \in DOMAIN workQueue : workQueue[j] = workQueue'[i]
      BY <2>1
    <3>2. /\ workQueue[j].value \in Versions
          /\ askedAt[r.call.id] <= workQueue[j].value /\ workQueue[j].value <= published
          /\ \A c \in DOMAIN completed : NotNewer(completed[c].result, workQueue[j].value)
      BY <2>1, <3>1 DEF GetsInOrder, AnswersFresh
    <3>3. askedAt'[r.call.id] = askedAt[r.call.id]
      BY <1>1, <1>2, <2>1 DEF GetsInOrder, GetsKnown, GetAnswer
    <3>4. workQueue[j].value <= published'
      <4>1. workQueue[j].value \in Nat
        BY <1>1, <3>2
      <4>. QED
        BY <1>1, <1>2, <3>2, <4>1
    <3>5. ASSUME NEW c \in DOMAIN completed', completed'[c].result \in Versions
          PROVE  completed'[c].result <= workQueue[j].value
      <4>1. completed'[c].result # Failure
        BY <3>5, BoundsAssumption
      <4>2. ASSUME NEW d \in DOMAIN completed, completed'[c] = completed[d]
            PROVE  completed'[c].result <= workQueue[j].value
        BY <3>2, <3>5, <4>2 DEF NotNewer
      <4>3. GetAnswer(r, workQueue[j])
        BY <3>1
      <4>. QED
        BY <1>2, <1>5, <2>1, <4>1, <4>2, <4>3
    <3>. QED
      BY <3>1, <3>2, <3>3, <3>4, <3>5 DEF NotNewer
  <2>2. CASE r \in requestCBHash /\ UNCHANGED <<getVars, published, requestCBHash>> /\ workQueue'[i].value = published
    <3>1. askedAt' = askedAt /\ completed' = completed /\ published' = published
      BY <2>2 DEF getVars
    <3>2. published \in Versions /\ published <= published
      BY <1>1 DEF Types, ServerTypes
    <3>3. askedAt[r.call.id] <= published
      BY <1>1, <2>2 DEF GetsInOrder, AskedInTime, GetAnswer
    <3>. QED
      BY <2>2, <3>1, <3>2, <3>3 DEF GetsInOrder, DeliveredOld
  <2>. QED
    BY <1>7, <2>1, <2>2, GetAnswerArrives
<1>9. AnswersAscend'
  <2>. SUFFICES ASSUME NEW r \in requestCBHash', NEW s \in requestCBHash', NEW i \in DOMAIN workQueue',
              NEW j \in DOMAIN workQueue', GetAnswer(r, workQueue'[i]), GetAnswer(s, workQueue'[j]), r.rn < s.rn
       PROVE  workQueue'[i].value <= workQueue'[j].value
    BY DEF AnswersAscend
  <2>1. \/ /\ r \in requestCBHash /\ r.rn <= k
           /\ \E m \in DOMAIN workQueue : workQueue[m] = workQueue'[i]
        \/ /\ r \in requestCBHash /\ r.rn = k + 1 /\ UNCHANGED <<getVars, published, requestCBHash>>
           /\ workQueue'[i].value = published
    BY <1>7, GetAnswerArrives
  <2>2. \/ /\ s \in requestCBHash /\ s.rn <= k
           /\ \E m \in DOMAIN workQueue : workQueue[m] = workQueue'[j]
        \/ /\ s \in requestCBHash /\ s.rn = k + 1 /\ UNCHANGED <<getVars, published, requestCBHash>>
           /\ workQueue'[j].value = published
    BY <1>7, GetAnswerArrives
  <2>3. r.rn \in Nat /\ s.rn \in Nat
    BY <1>1, <2>1, <2>2
  <2>4. ~(r.rn = k + 1 /\ (s.rn <= k \/ s.rn = k + 1))
    BY <2>3
  <2>5. PICK m \in DOMAIN workQueue : workQueue[m] = workQueue'[i] /\ r \in requestCBHash
    BY <2>1, <2>2, <2>4
  <2>6. CASE s \in requestCBHash /\ \E n \in DOMAIN workQueue : workQueue[n] = workQueue'[j]
    BY <2>5, <2>6 DEF GetsInOrder, AnswersAscend
  <2>7. CASE workQueue'[j].value = published
    <3>1. workQueue[m].value <= published
      BY <2>5 DEF GetsInOrder, AnswersFresh
    <3>. QED
      BY <2>5, <2>7, <3>1
  <2>. QED
    BY <2>2, <2>6, <2>7
<1>10. GetsTyped'
  BY <1>2 DEF GetsTyped
<1>. QED
  BY <1>4, <1>6, <1>8, <1>9, <1>10

-----------------------------------------------------------------------------
(* The gets as the service GetService promises them.                       *)

LEMMA GetsAlways == Spec => [](Core /\ GetsInOrder)
<1>1. Init => Core /\ GetsInOrder
  <2>. SUFFICES ASSUME Init PROVE GetsInOrder
    BY CoreInit
  <2>1. /\ completed = <<>> /\ workQueue = <<>> /\ requestCBHash = {}
        /\ outstandingGets = {} /\ sentGets = {} /\ published = 1 /\ askedAt = [g \in Gets |-> 0]
    BY DEF Init
  <2>2. DOMAIN completed = {} /\ completed \in Seq(Completions)
    BY <2>1, EmptySeq
  <2>3. \A g \in Gets : askedAt[g] \in 0..MaxVersion /\ askedAt[g] <= published
    BY <2>1, BoundsAssumption
  <2>. QED
    BY <2>1, <2>2, <2>3
    DEF GetsInOrder, GetsTyped, GetsKnown, AskedInTime, DeliveredOld, AnswersFresh, AnswersAscend
<1>2. Core /\ GetsInOrder /\ [Next]_vars => (Core /\ GetsInOrder)'
  BY CoreStep, GetsKnownStep, VersionsStep DEF GetsInOrder
<1>. QED
  BY <1>1, <1>2, PTL DEF Spec

StatusKept(g) == StatusOf(g)' = StatusOf(g)

\* A get whose fate a step does not touch.
LEMMA KeepsStatus ==
    ASSUME NEW g, getCounter' = getCounter, Done(g)' = Done(g), Lost(g)' = Lost(g)
    PROVE  StatusKept(g)
BY DEF StatusKept, StatusOf

\* A step that completes no get and keeps the fate of all of them changes nothing.
LEMMA ServiceStutters ==
    ASSUME UNCHANGED <<published, askedAt, completed>>, \A g \in Gets : StatusKept(g)
    PROVE  UNCHANGED Service!vars
BY DEF Service!vars, StatusKept

\* A get that is called, that ends, and gets that are lost.
LEMMA ServiceCalls ==
    ASSUME NEW get \in Gets, StatusOf(get) = "idle", StatusOf(get)' = "pending",
           \A g \in Gets : g # get => StatusKept(g),
           askedAt' = [askedAt EXCEPT ![get] = published], UNCHANGED <<published, completed>>
    PROVE  Service!Next
<1>1. [g \in Gets |-> StatusOf(g)]' = [[g \in Gets |-> StatusOf(g)] EXCEPT ![get] = "pending"]
  BY DEF StatusKept
<1>2. Service!CallGet(get)
  BY <1>1 DEF Service!CallGet
<1>. QED
  BY <1>2 DEF Service!Next, Service!Gets, Gets

LEMMA ServiceReturns ==
    ASSUME NEW get \in Gets, NEW result, StatusOf(get) = "pending", StatusOf(get)' = "done",
           \A g \in Gets : g # get => StatusKept(g),
           result \in Service!Fresh(get) \cup {Failure}, Complete(get, result),
           UNCHANGED <<published, askedAt>>
    PROVE  Service!Next
<1>1. [g \in Gets |-> StatusOf(g)]' = [[g \in Gets |-> StatusOf(g)] EXCEPT ![get] = "done"]
  BY DEF StatusKept
<1>2. Service!Return(get, result)
  BY <1>1 DEF Service!Return, Complete
<1>3. result \in Service!Versions \cup {Failure}
  BY DEF Service!Fresh
<1>. QED
  BY <1>2, <1>3 DEF Service!Next, Service!Gets, Gets

LEMMA ServiceLoses ==
    ASSUME NEW calls \in SUBSET Gets,
           \A g \in calls : StatusOf(g) = "pending" /\ StatusOf(g)' = "lost",
           \A g \in Gets \ calls : StatusKept(g),
           UNCHANGED <<published, askedAt, completed>>
    PROVE  Service!Next
<1>1. [g \in Gets |-> StatusOf(g)]' =
        [g \in Gets |-> IF g \in calls THEN "lost" ELSE [h \in Gets |-> StatusOf(h)][g]]
  BY DEF StatusKept
<1>2. Service!Lose(calls)
  BY <1>1 DEF Service!Lose, Service!Gets, Gets
<1>. QED
  BY <1>2 DEF Service!Next, Service!Gets, Gets

\* What the requests say of a get, before and after a step.
HeldIn(requests, g) == \E r \in requests : r.call.type = "get" /\ r.call.id = g

LEMMA HoldsGet ==
    ASSUME Types, [Next]_vars, NEW g
    PROVE  /\ Holds("get", g) <=> HeldIn(requestCBHash, g)
           /\ Holds("get", g)' <=> HeldIn(requestCBHash', g)
<1>1. \A r \in SoundRequests : r.call.type = "get" /\ r.call.id = g => r.call = Call("get", g)
  BY DEF SoundRequests, Requests, Call
<1>2. requestCBHash \subseteq SoundRequests /\ requestCBHash' \subseteq SoundRequests
  BY WireTypeStep DEF Types, WireTypes
<1>. QED
  BY <1>1, <1>2 DEF Holds, HeldIn, Call

\* The fate of the gets under a step that keeps their record.
LEMMA ServiceKeeps ==
    ASSUME Core, [Next]_vars, UNCHANGED <<getVars, published>>, Keeps("get")
    PROVE  UNCHANGED Service!vars
<1>1. /\ requestCBHash \subseteq SoundRequests /\ requestCBHash' \subseteq SoundRequests
      /\ UNCHANGED <<getCounter, outstandingGets, sentGets, completed, published, askedAt>>
  BY WireTypeStep DEF Core, Types, WireTypes, getVars
<1>2. ASSUME NEW g \in Gets PROVE StatusKept(g)
  <2>1. HeldIn(requestCBHash', g) <=> HeldIn(requestCBHash, g)
    BY <1>1 DEF HeldIn, Keeps
  <2>2. Lost(g)' = Lost(g) /\ Done(g)' = Done(g)
    BY <1>1, <2>1, HoldsGet DEF Core, Lost, Done
  <2>. QED
    BY <1>1, <2>2, KeepsStatus
<1>. QED
  BY <1>1, <1>2, ServiceStutters

LEMMA ServicePublishes ==
    ASSUME Core, [Next]_vars, UNCHANGED getVars, Keeps("get"), Publish
    PROVE  Service!Next
<1>1. /\ requestCBHash \subseteq SoundRequests /\ requestCBHash' \subseteq SoundRequests
      /\ UNCHANGED <<getCounter, outstandingGets, sentGets, completed, askedAt>>
  BY WireTypeStep DEF Core, Types, WireTypes, getVars
<1>2. ASSUME NEW g \in Gets PROVE StatusKept(g)
  <2>1. HeldIn(requestCBHash', g) <=> HeldIn(requestCBHash, g)
    BY <1>1 DEF HeldIn, Keeps
  <2>2. Lost(g)' = Lost(g) /\ Done(g)' = Done(g)
    BY <1>1, <2>1, HoldsGet DEF Core, Lost, Done
  <2>. QED
    BY <1>1, <2>2, KeepsStatus
<1>3. [g \in Gets |-> StatusOf(g)]' = [g \in Gets |-> StatusOf(g)]
  BY <1>2 DEF StatusKept
<1>. QED
  BY <1>1, <1>3 DEF Service!Next, Service!Publish, Publish

\* A broken connection loses the gets that were sent and not answered.
LEMMA ServiceDrops ==
    ASSUME Core, GetsInOrder, [Next]_vars, UNCHANGED <<getVars, published>>, requestCBHash' = {}
    PROVE  Service!Next
<1>1. UNCHANGED <<getCounter, outstandingGets, sentGets, completed, published, askedAt>>
  BY DEF getVars
<1>2. PICK calls \in SUBSET Gets :
        calls = {g \in Gets : g \in outstandingGets \cap sentGets /\ HeldIn(requestCBHash, g)}
  OBVIOUS
<1>3. ASSUME NEW g \in Gets PROVE ~HeldIn(requestCBHash', g) /\ Done(g)' = Done(g)
  BY <1>1 DEF HeldIn, Done
<1>4. ASSUME NEW g \in calls PROVE StatusOf(g) = "pending" /\ StatusOf(g)' = "lost"
  <2>1. g \in outstandingGets \cap sentGets /\ HeldIn(requestCBHash, g) /\ g \in Gets
    BY <1>2
  <2>2. ~Lost(g) /\ Lost(g)'
    BY <1>1, <1>3, <2>1, HoldsGet DEF Core, Lost
  <2>3. ~Done(g) /\ ~Done(g)'
    BY <1>3, <2>1 DEF GetsInOrder, GetsKnown, Done
  <2>4. ~(g > getCounter) /\ ~(g > getCounter')
    <3>1. g \in Nat /\ getCounter \in Nat /\ g <= getCounter
      BY <2>1, GetsTypedFacts DEF Core, GetsInOrder, GetsKnown
    <3>. QED
      BY <1>1, <3>1
  <2>. QED
    BY <2>2, <2>3, <2>4 DEF StatusOf
<1>5. ASSUME NEW g \in Gets \ calls PROVE StatusKept(g)
  <2>1. Lost(g)' = Lost(g)
    BY <1>1, <1>2, <1>3, HoldsGet DEF Core, Lost
  <2>. QED
    BY <1>1, <1>3, <2>1, KeepsStatus
<1>. QED
  BY <1>1, <1>4, <1>5, ServiceLoses

\* A restored connection sends the gets that never went out, and only those.
LEMMA ServiceRestores ==
    ASSUME Core, GetsInOrder, [Next]_vars, Restores, UNCHANGED published
    PROVE  UNCHANGED Service!vars
<1>1. /\ sentGets' = sentGets \cup outstandingGets
      /\ UNCHANGED <<getCounter, outstandingGets, completed, askedAt>>
  BY DEF Restores, RestoreState, Restore
<1>2. PICK held \in SUBSET requestCBHash, calls \in Seq(SoundCalls) :
        /\ Restoring(calls) /\ HeldWith(requestNumber, calls, held, requestCBHash')
        /\ \A r \in requestCBHash : r.call.type # "auth" => r \in held
  BY RestorationEffect
<1>3. ASSUME NEW g \in Gets PROVE StatusKept(g)
  <2>1. HeldIn(requestCBHash, g) => HeldIn(requestCBHash', g)
    BY <1>2 DEF HeldIn, HeldWith
  <2>2. g \in sentGets /\ HeldIn(requestCBHash', g) => HeldIn(requestCBHash, g)
    <3>. SUFFICES ASSUME g \in sentGets, NEW r \in requestCBHash', r.call.type = "get", r.call.id = g
         PROVE  r \in requestCBHash
      BY DEF HeldIn
    <3>1. ASSUME NEW i \in 1..Len(calls), r = Request(requestNumber + i, calls[i]) PROVE FALSE
      <4>1. calls[i].type = "get" /\ calls[i].id = g
        BY <3>1 DEF Request
      <4>. QED
        BY <1>2, <4>1 DEF Restoring
    <3>. QED
      BY <1>2, <3>1 DEF HeldWith
  <2>3. g \in outstandingGets \ sentGets => HeldIn(requestCBHash', g)
    <3>. SUFFICES ASSUME g \in outstandingGets \ sentGets PROVE HeldIn(requestCBHash', g)
      OBVIOUS
    <3>1. PICK i \in 1..Len(calls) : calls[i] = Call("get", g)
      BY <1>2 DEF Restoring
    <3>2. HasCallback(calls[i])
      BY <3>1 DEF HasCallback, Call
    <3>3. Request(requestNumber + i, calls[i]) \in requestCBHash'
      BY <1>2, <3>2 DEF HeldWith
    <3>4. /\ Request(requestNumber + i, calls[i]).call.type = "get"
          /\ Request(requestNumber + i, calls[i]).call.id = g
      BY <3>1 DEF Request, Call
    <3>. QED
      BY <3>3, <3>4 DEF HeldIn
  <2>4. Lost(g)' = Lost(g)
    BY <1>1, <2>1, <2>2, <2>3, HoldsGet DEF Core, Lost
  <2>5. Done(g)' = Done(g)
    BY <1>1 DEF Done
  <2>. QED
    BY <1>1, <2>4, <2>5, KeepsStatus
<1>. QED
  BY <1>1, <1>3, ServiceStutters

LEMMA ServiceCalled ==
    ASSUME Core, GetsInOrder, [Next]_vars, GetData
    PROVE  Service!Next
<1>1. PICK get \in Gets :
        /\ get = getCounter + 1 /\ getCounter' = get
        /\ outstandingGets' = outstandingGets \cup {get}
        /\ askedAt' = [askedAt EXCEPT ![get] = published]
        /\ UNCHANGED <<completed, published>>
        /\ \/ sentGets' = sentGets /\ requestCBHash' = requestCBHash
           \/ /\ sentGets' = sentGets \cup {get}
              /\ requestCBHash' = requestCBHash \cup {Request(requestNumber + 1, Call("get", get))}
  BY GetDataEffect DEF Core
<1>2. /\ Gets \subseteq Nat /\ getCounter \in Nat
      /\ \A g \in outstandingGets \cup sentGets : g <= getCounter
      /\ \A i \in DOMAIN completed : completed[i].get \in Nat /\ completed[i].get <= getCounter
  BY GetsTypedFacts DEF Core, GetsInOrder, GetsKnown
<1>3. ~(get <= getCounter) /\ get > getCounter /\ ~(get > getCounter')
  BY <1>1, <1>2
<1>4. PICK request : request = Request(requestNumber + 1, Call("get", get))
  OBVIOUS
<1>5. request.call.type = "get" /\ request.call.id = get
  BY <1>4 DEF Request, Call
<1>6. StatusOf(get) = "idle" /\ StatusOf(get)' = "pending"
  <2>1. ~Done(get)'
    BY <1>1, <1>2, <1>3 DEF Done
  <2>2. ~Lost(get)'
    BY <1>1, <1>2, <1>3, <1>4, <1>5, HoldsGet DEF Core, Lost, HeldIn
  <2>3. ~Done(get) /\ ~Lost(get)
    BY <1>2, <1>3 DEF Done, Lost
  <2>. QED
    BY <1>3, <2>1, <2>2, <2>3 DEF StatusOf
<1>7. ASSUME NEW g \in Gets, g # get PROVE StatusKept(g)
  <2>1. HeldIn(requestCBHash', g) <=> HeldIn(requestCBHash, g)
    BY <1>1, <1>4, <1>5, <1>7 DEF HeldIn
  <2>2. Lost(g)' = Lost(g) /\ Done(g)' = Done(g)
    BY <1>1, <1>7, <2>1, HoldsGet DEF Core, Lost, Done
  <2>3. g > getCounter <=> g > getCounter'
    BY <1>1, <1>2, <1>7
  <2>. QED
    BY <2>2, <2>3 DEF StatusKept, StatusOf
<1>. QED
  BY <1>1, <1>6, <1>7, ServiceCalls

\* A get that ends: it was outstanding and not lost.
LEMMA ServiceEnds ==
    ASSUME Core, GetsInOrder, [Next]_vars,
           NEW get \in outstandingGets, NEW result \in Service!Fresh(get) \cup {Failure}, ~Lost(get),
           outstandingGets' = outstandingGets \ {get}, Complete(get, result), result \in Versions \cup {Failure},
           UNCHANGED <<getCounter, askedAt, published>>,
           \A g \in Gets : g # get => Lost(g)' = Lost(g)
    PROVE  Service!Next
<1>1. get \in Gets /\ GetsTyped /\ get \in Nat /\ getCounter \in Nat
  BY GetsTypedFacts DEF Core, GetsInOrder
<1>2. /\ \A i \in DOMAIN completed : i \in DOMAIN completed' /\ completed'[i] = completed[i]
      /\ \A i \in DOMAIN completed' :
            (i \in DOMAIN completed /\ completed'[i] = completed[i]) \/ completed'[i].get = get
      /\ \E i \in DOMAIN completed' : completed'[i].get = get
  BY <1>1, CompletedNext
<1>3. get <= getCounter /\ ~Done(get)
  BY <1>1 DEF GetsInOrder, GetsKnown, Done
<1>4. ~(get > getCounter)
  BY <1>1, <1>3
<1>5. StatusOf(get) = "pending" /\ StatusOf(get)' = "done"
  <2>1. ~Lost(get)' /\ Done(get)'
    BY <1>2 DEF Lost, Done
  <2>. QED
    BY <1>3, <1>4, <2>1 DEF StatusOf
<1>6. ASSUME NEW g \in Gets, g # get PROVE StatusKept(g)
  <2>1. Done(g)' = Done(g)
    BY <1>2, <1>6 DEF Done
  <2>. QED
    BY <1>6, <2>1, KeepsStatus
<1>. QED
  BY <1>1, <1>5, <1>6, ServiceReturns

LEMMA ServiceAnswers ==
    ASSUME Core, GetsInOrder, [Next]_vars, OnGetAnswer
    PROVE  Service!Next \/ UNCHANGED Service!vars
<1>1. PICK request \in requestCBHash :
        /\ HeadIs("answer") /\ request.rn = Head(workQueue).rn /\ request.call.type = "get"
        /\ requestCBHash' = requestCBHash \ {request}
        /\ UNCHANGED <<getCounter, sentGets, askedAt, published>>
        /\ \/ /\ request.call.id \in outstandingGets
              /\ outstandingGets' = outstandingGets \ {request.call.id}
              /\ Complete(request.call.id, IF Head(workQueue).ok THEN Head(workQueue).value ELSE Failure)
           \/ request.call.id \notin outstandingGets /\ UNCHANGED <<outstandingGets, completed>>
  BY GetAnswerEffect
<1>2. PICK get \in Gets : get = request.call.id
  BY <1>1, GetsTypedFacts DEF Core, GetsInOrder
<1>3. ASSUME NEW g \in Gets, g # get PROVE HeldIn(requestCBHash', g) <=> HeldIn(requestCBHash, g)
  BY <1>1, <1>2, <1>3 DEF HeldIn
<1>4. CASE get \notin outstandingGets
  <2>1. UNCHANGED <<outstandingGets, completed, getCounter, sentGets, askedAt, published>>
    BY <1>1, <1>2, <1>4
  <2>2. ASSUME NEW g \in Gets PROVE StatusKept(g)
    <3>1. Lost(g)' = Lost(g) /\ Done(g)' = Done(g)
      BY <1>3, <1>4, <2>1, HoldsGet DEF Core, Lost, Done
    <3>. QED
      BY <2>1, <3>1, KeepsStatus
  <2>. QED
    BY <2>1, <2>2, ServiceStutters
<1>5. CASE get \in outstandingGets
  <2>1. PICK result : result = IF Head(workQueue).ok THEN Head(workQueue).value ELSE Failure
    OBVIOUS
  <2>2. outstandingGets' = outstandingGets \ {get} /\ Complete(get, result)
    BY <1>1, <1>2, <1>5, <2>1
  <2>3. result \in Service!Fresh(get) \cup {Failure}
    <3>1. CASE Head(workQueue).ok
      <4>1. 1 \in DOMAIN workQueue /\ GetAnswer(request, workQueue[1]) /\ result = workQueue[1].value
        BY <1>1, <2>1, <3>1, TailOfQueue DEF HeadIs, Core, Types, QueueTypes, GetAnswer
      <4>2. /\ result \in Versions /\ askedAt[get] <= result /\ result <= published
            /\ \A i \in DOMAIN completed : NotNewer(completed[i].result, result)
        BY <1>2, <4>1 DEF GetsInOrder, AnswersFresh
      <4>. QED
        BY <4>2 DEF Service!Fresh, Service!Versions, Versions, NotNewer
    <3>2. CASE ~Head(workQueue).ok
      BY <2>1, <3>2
    <3>. QED
      BY <3>1, <3>2
  <2>4. result \in Versions \cup {Failure}
    BY <2>3 DEF Service!Fresh, Service!Versions, Versions
  <2>5. ~Lost(get)
    BY <1>1, <1>2, HoldsGet DEF Core, Lost, HeldIn
  <2>6. ASSUME NEW g \in Gets, g # get PROVE Lost(g)' = Lost(g)
    BY <1>1, <1>3, <2>2, <2>6, HoldsGet DEF Core, Lost
  <2>. QED
    BY <1>1, <1>5, <2>2, <2>3, <2>4, <2>5, <2>6, ServiceEnds
<1>. QED
  BY <1>4, <1>5

LEMMA ServiceTimesOut ==
    ASSUME Core, GetsInOrder, [Next]_vars, NEW get \in Gets, GetTimeout(get)
    PROVE  Service!Next \/ UNCHANGED Service!vars
<1>1. UNCHANGED <<getCounter, askedAt, requestCBHash, published>>
  BY DEF GetTimeout, wireVars, serverVars
<1>2. CASE get \in outstandingGets \ sentGets
  <2>1. /\ sentGets' = sentGets \cup {get} /\ outstandingGets' = outstandingGets \ {get}
        /\ Complete(get, Failure)
    BY <1>2 DEF GetTimeout
  <2>2. ~Lost(get)
    BY <1>2 DEF Lost
  <2>3. ASSUME NEW g \in Gets, g # get PROVE Lost(g)' = Lost(g)
    BY <1>1, <2>1, <2>3 DEF Lost, Holds
  <2>. QED
    BY <1>1, <1>2, <2>1, <2>2, <2>3, ServiceEnds
<1>3. CASE get \notin outstandingGets \ sentGets
  <2>1. UNCHANGED <<sentGets, outstandingGets, completed>>
    BY <1>3 DEF GetTimeout
  <2>2. ASSUME NEW g \in Gets PROVE StatusKept(g)
    <3>1. Lost(g)' = Lost(g) /\ Done(g)' = Done(g)
      BY <1>1, <2>1 DEF Lost, Done, Holds
    <3>. QED
      BY <1>1, <3>1, KeepsStatus
  <2>. QED
    BY <1>1, <2>1, <2>2, ServiceStutters
<1>. QED
  BY <1>2, <1>3

LEMMA ServiceStep ==
    ASSUME Core, GetsInOrder, [Next]_vars
    PROVE  [Service!Next]_(Service!vars)
BY GetStep, ServicePublishes, ServiceKeeps, ServiceDrops, ServiceRestores, ServiceAnswers,
   ServiceCalled, ServiceTimesOut DEF Core

\* The client implements GetService: a call of getData ends at most once, with an error or
\* with data the server held after the call and that no earlier completion is newer than,
\* across reconnects, time-outs and late answers; what it cannot keep is lost with a broken
\* connection, and never answered twice.
THEOREM GetsImplementService == Spec => ServiceSpec
<1>1. Init => Service!Init
  <2>. SUFFICES ASSUME Init PROVE Service!Init
    OBVIOUS
  <2>1. /\ published = 1 /\ getCounter = 0 /\ completed = <<>> /\ askedAt = [g \in Gets |-> 0]
        /\ outstandingGets = {} /\ DOMAIN completed = {}
    BY EmptySeq DEF Init
  <2>2. ASSUME NEW g \in Gets PROVE StatusOf(g) = "idle"
    <3>1. g > getCounter
      BY <2>1, BoundsAssumption DEF Gets
    <3>2. ~Done(g) /\ ~Lost(g)
      BY <2>1 DEF Done, Lost
    <3>. QED
      BY <3>1, <3>2 DEF StatusOf
  <2>. QED
    BY <2>1, <2>2 DEF Service!Init, Service!Gets, Gets
<1>2. Core /\ GetsInOrder /\ [Next]_vars => [Service!Next]_(Service!vars)
  BY ServiceStep
<1>. QED
  BY <1>1, <1>2, GetsAlways, PTL DEF Spec, ServiceSpec, Service!Spec

\* Every variable of the client, of the wire and of the server keeps its type.
THEOREM TypeCorrect == Spec => []TypeOK
<1>1. Core /\ GetsInOrder /\ AcksPending /\ Operations => TypeOK
  <2>. SUFFICES ASSUME Core, GetsInOrder, AcksPending, Operations PROVE TypeOK
    OBVIOUS
  <2>1. SoundRequests \subseteq Requests /\ Types
    BY DEF SoundRequests, Core
  <2>2. requestCBHash \subseteq Requests /\ toServer \in Seq(Requests) /\ requestNumber \in Nat
    <3>1. requestCBHash \subseteq SoundRequests /\ toServer \in Seq(SoundRequests) /\ requestNumber \in Nat
      BY <2>1 DEF Types, WireTypes
    <3>2. Seq(SoundRequests) \subseteq Seq(Requests)
      BY <2>1
    <3>. QED
      BY <2>1, <3>1, <3>2
  <2>3. StateTypes /\ IdTypes /\ QueueTypes /\ ServerTypes
    BY <2>1 DEF Types
  <2>4. askedAt \in [Gets -> 0..MaxVersion] /\ completed \in Seq([get : Gets, result : Versions \cup {Failure}])
    BY DEF GetsInOrder, GetsTyped, Completions
  <2>5. putsToAck \in Seq([put : Puts, status : Statuses]) /\ putResults \in [Puts -> Seq(Statuses)]
    BY DEF AcksPending, Acks
  <2>6. onDisconnectResults \in [OnDisconnects -> Seq(Statuses)]
    BY DEF Operations, OperationsDone
  <2>. QED
    BY <2>2, <2>3, <2>4, <2>5, <2>6 DEF TypeOK, StateTypes, IdTypes, QueueTypes, ServerTypes
<1>. QED
  BY <1>1, GetsAlways, CompletionsAlways, PTL

-----------------------------------------------------------------------------
(* The listens the server serves.                                          *)

\* Why the server will serve the query of a listen, or the client will drop it: the query
\* is served, or the listen is on its way, and no request to end it follows; or a block of
\* the queue ends the connection or the listen.
Unlistens(r, l) == r.call.type = "unlisten" /\ QueryOf[r.call.id] = QueryOf[l]
NotEndedAfter(i, ts, l) == \A j \in DOMAIN ts : i < j => ~Unlistens(ts[j], l)

Stops(block, cb, l) ==
    \/ block.type = "closed"
    \/ block.type = "cancelled" /\ block.path = QueryOf[l][1]
    \/ block.type = "answer" /\ ~block.ok /\ \E r \in cb : r.rn = block.rn /\ r.call = Call("listen", l)

Secured(l, server, cb, ts, q) ==
    \/ QueryOf[l] \in server /\ NotEndedAfter(0, ts, l)
    \/ \E i \in DOMAIN ts : ts[i].call = Call("listen", l) /\ NotEndedAfter(i, ts, l)
    \/ \E i \in DOMAIN q : Stops(q[i], cb, l)

OneListenPerQuery == \A l, m \in listens : QueryOf[l] = QueryOf[m] => l = m
ListensSecured ==
    connectionState = "Connected" =>
        \A l \in listens : Secured(l, serverListens, requestCBHash, toServer, workQueue)

-----------------------------------------------------------------------------
(* The steps of a usable connection.                                       *)

\* A block that ends no listen is processed, or one is received.
OtherPopped ==
    /\ workQueue # <<>> /\ Head(workQueue).type \notin {"answer", "closed", "cancelled"}
    /\ workQueue' = Tail(workQueue) /\ UNCHANGED <<listens, requestCBHash, toServer>>
BlockReceived ==
    \E block \in Blocks : workQueue' = Append(workQueue, block) /\ UNCHANGED <<listens, requestCBHash, toServer>>

\* An answer to another request than a listen is processed, or one is sent.
OtherAnswered ==
    \E request \in requestCBHash :
        /\ HeadIs("answer") /\ request.rn = Head(workQueue).rn /\ request.call.type # "listen"
        /\ Consume(request) /\ UNCHANGED listens
OtherSent ==
    \E call \in SoundCalls :
        call.type # "unlisten" /\ Send(requestCBHash, <<call>>) /\ UNCHANGED <<listens, workQueue>>

UsableStep ==
    \/ UNCHANGED <<listens, requestCBHash, toServer, workQueue>>
    \/ OtherPopped \/ BlockReceived \/ OtherAnswered \/ OtherSent
    \/ OnListenAnswer \/ OnListenRevoked \/ Listen \/ \E listen \in Listens : Unlisten(listen)

\* The calls of the API that leave the listens alone.
LEMMA OtherCalls ==
    ASSUME Types,
           \/ GetData \/ PutData \/ OnDisconnectOperation \/ RefreshAppCheckToken
           \/ \E token \in BOOLEAN : RefreshAuthToken(token)
    PROVE  OtherSent \/ UNCHANGED <<listens, requestCBHash, toServer, workQueue>>
<1>1. CASE GetData
  <2>1. Call("get", getCounter + 1) \in SoundCalls
    BY <1>1, BoundsAssumption DEF GetData, Types, IdTypes, SoundCalls, Call, IdFits, CallTypes, Gets
  <2>. QED
    BY <1>1, <2>1 DEF GetData, OtherSent, Call, listenVars, wireVars
<1>2. CASE PutData
  <2>1. Call("put", putCounter + 1) \in SoundCalls
    BY <1>2, BoundsAssumption DEF PutData, Types, IdTypes, SoundCalls, Call, IdFits, CallTypes, Puts
  <2>. QED
    BY <1>2, <2>1 DEF PutData, OtherSent, Call, listenVars, wireVars
<1>3. CASE OnDisconnectOperation
  <2>1. Call("onDisconnect", onDisconnectCounter + 1) \in SoundCalls
    BY <1>3, BoundsAssumption DEF OnDisconnectOperation, Types, IdTypes, SoundCalls, Call, IdFits, CallTypes, OnDisconnects
  <2>. QED
    BY <1>3, <2>1 DEF OnDisconnectOperation, OtherSent, Call, listenVars, wireVars
<1>4. CASE RefreshAppCheckToken
  <2>1. Call("appcheck", 0) \in SoundCalls
    BY DEF SoundCalls, Call, IdFits, CallTypes
  <2>. QED
    BY <1>4, <2>1 DEF RefreshAppCheckToken, OtherSent, Call, listenVars, wireVars
<1>5. ASSUME NEW token \in BOOLEAN, RefreshAuthToken(token)
      PROVE  OtherSent \/ UNCHANGED <<listens, requestCBHash, toServer, workQueue>>
  <2>1. Call("reauth", 0) \in SoundCalls /\ Call("unauth", 0) \in SoundCalls
    BY DEF SoundCalls, Call, IdFits, CallTypes
  <2>. QED
    BY <1>5, <2>1 DEF RefreshAuthToken, OtherSent, Call, listenVars, wireVars
<1>. QED
  BY <1>1, <1>2, <1>3, <1>4, <1>5

LEMMA UsableFrame ==
    ASSUME Core, [Next]_vars, connectionState' = "Connected"
    PROVE  \/ Restores
           \/ LinkBreaks \/ (\E ok \in BOOLEAN : ServerAnswers(ok)) \/ \E path \in Paths : ServerCancels(path)
           \/ UNCHANGED serverListens /\ UsableStep
<1>. USE DEF Core
<1>1. ~Drop /\ ~GiveUp
  BY DEF Drop, GiveUp, OnDisconnect
<1>2. ~Ends
  BY <1>1, EndsByDropOrGiveUp
<1>3. OnReady => Restores
  BY DEF OnReady, RestoreAuth, Restores
<1>4. OnAuthAccepted("auth") => Restores
  BY DEF OnAuthAccepted, Answered, Restores
<1>5. CASE OnGetAnswer \/ OnPutAnswer \/ OnOnDisconnectAnswer \/ OnAppCheckAccepted \/ OnAuthAccepted("reauth")
  <2>1. OtherAnswered /\ UNCHANGED serverListens
    BY <1>5 DEF OnGetAnswer, OnPutAnswer, OnOnDisconnectAnswer, OnAppCheckAccepted, OnAuthAccepted,
       Answered, OtherAnswered, listenVars, serverVars
  <2>. QED
    BY <2>1 DEF UsableStep
<1>6. CASE OnConnect
  BY <1>6 DEF OnConnect, HeadIs, OtherPopped, UsableStep, wireVars, listenVars, serverVars
<1>7. CASE OnListenAnswer \/ OnListenRevoked
  BY <1>7 DEF OnListenAnswer, OnListenRevoked, UsableStep, serverVars
<1>8. CASE Worker
  BY <1>2, <1>3, <1>4, <1>5, <1>6, <1>7, <1>8 DEF Worker, Ends
<1>9. CASE Listen \/ \E listen \in Listens : Unlisten(listen)
  BY <1>9 DEF Listen, Unlisten, UsableStep, serverVars
<1>10. CASE \/ GetData \/ PutData \/ OnDisconnectOperation \/ RefreshAppCheckToken
            \/ \E token \in BOOLEAN : RefreshAuthToken(token)
  <2>1. UNCHANGED serverListens
    BY <1>10 DEF GetData, PutData, OnDisconnectOperation, RefreshAppCheckToken, RefreshAuthToken, serverVars
  <2>. QED
    BY <1>10, <2>1, OtherCalls DEF UsableStep
<1>11. CASE Api
  <2>1. PurgeOutstandingWrites \/ GoOnline => UNCHANGED <<listens, requestCBHash, toServer, workQueue, serverListens>>
    BY DEF PurgeOutstandingWrites, GoOnline, Resume, listenVars, wireVars, serverVars
  <2>. QED
    BY <1>2, <1>9, <1>10, <1>11, <2>1 DEF Api, Ends, UsableStep
<1>12. CASE Open \/ WakeUp \/ Timers \/ Fetching
  <2>1. UNCHANGED <<listenVars, wireVars, serverVars, workQueue>>
    BY <1>12 DEF Open, Resume, WakeUp, Timers, RunRetry, GetTimeout, Fetching, FetchFails, FetchStale, FetchDone
  <2>. QED
    BY <2>1 DEF UsableStep, listenVars, wireVars, serverVars
<1>13. CASE SendHello \/ \E type \in Ending : ServerSends(type)
  <2>1. \E block \in Blocks : Receive(block) /\ UNCHANGED <<listenVars, wireVars, serverVars>>
    <3>1. \A type \in Ending \cup {"hello"} : Block(type) \in Blocks
      BY DEF Block, Blocks, Ending
    <3>. QED
      BY <1>13, <3>1 DEF SendHello, ServerSends
  <2>. QED
    BY <2>1 DEF Receive, BlockReceived, UsableStep, listenVars, wireVars, serverVars
<1>14. CASE Server \/ LinkBreaks
  <2>1. Publish => UNCHANGED <<listens, requestCBHash, toServer, workQueue, serverListens>>
    BY DEF Publish, listenVars, wireVars
  <2>. QED
    BY <1>13, <1>14, <2>1 DEF Server, UsableStep
<1>15. CASE UNCHANGED vars
  BY <1>15 DEF vars, UsableStep, listenVars, wireVars, serverVars
<1>. QED
  BY <1>8, <1>11, <1>12, <1>14, <1>15 DEF Next

LEMMA UsableBefore ==
    ASSUME Core, [Next]_vars, connectionState' = "Connected", ~Restores
    PROVE  connectionState = "Connected"
<1>. USE DEF Core
<1>1. ~Drop /\ ~OnReady /\ ~OnAuthAccepted("auth")
  BY DEF Drop, OnDisconnect, OnReady, RestoreAuth, OnAuthAccepted, Answered, Restores
<1>2. CASE OnAuthAccepted("reauth")
  <2>1. requestCBHash # {} /\ connectionState # "Authenticating"
    BY <1>2, AcceptedAgain DEF OnAuthAccepted, CredentialChecked
  <2>2. connected
    BY <2>1, ControlFacts DEF Control, StatesMatch
  <2>. QED
    BY <2>1, <2>2 DEF connected
<1>. QED
  BY <1>1, <1>2, StateChange

\* What keeps a listen secured: requests after it, blocks after it, blocks that do not stop it.
Continues(ts, ts2, m, calls, n, l) ==
    /\ m \in Nat /\ n \in Nat /\ DOMAIN ts = 1..m /\ DOMAIN ts2 = 1..(m + n)
    /\ \A i \in 1..m : ts2[i] = ts[i]
    /\ \A i \in 1..n :
          /\ ts2[m + i].call = calls[i]
          /\ ~(calls[i].type = "unlisten" /\ QueryOf[calls[i].id] = QueryOf[l])

LEMMA SecuredWithRequests ==
    ASSUME NEW l, NEW server, NEW cb, NEW cb2, NEW q, NEW ts, NEW ts2, NEW m, NEW n, NEW calls,
           Secured(l, server, cb, ts, q), cb \subseteq cb2, Continues(ts, ts2, m, calls, n, l)
    PROVE  Secured(l, server, cb2, ts2, q)
<1>. USE DEF Continues
<1>1. \A j \in DOMAIN ts2 : j \in DOMAIN ts \/ ~Unlistens(ts2[j], l)
  <2>. SUFFICES ASSUME NEW j \in DOMAIN ts2, j \notin DOMAIN ts PROVE ~Unlistens(ts2[j], l)
    OBVIOUS
  <2>1. PICK i \in 1..n : j = m + i
    <3>1. j - m \in 1..n /\ j = m + (j - m)
      OBVIOUS
    <3>. QED
      BY <3>1
  <2>. QED
    BY <2>1 DEF Unlistens
<1>2. \A i : NotEndedAfter(i, ts, l) => NotEndedAfter(i, ts2, l)
  BY <1>1 DEF NotEndedAfter
<1>3. \A i \in DOMAIN ts : i \in DOMAIN ts2 /\ ts2[i] = ts[i]
  OBVIOUS
<1>4. \A b : Stops(b, cb, l) => Stops(b, cb2, l)
  BY DEF Stops
<1>. QED
  BY <1>2, <1>3, <1>4 DEF Secured

LEMMA SecuredWithBlock ==
    ASSUME NEW l, NEW server, NEW cb, NEW ts, NEW q \in Seq(Blocks), NEW block \in Blocks,
           Secured(l, server, cb, ts, q) \/ Stops(block, cb, l)
    PROVE  Secured(l, server, cb, ts, Append(q, block))
<1>1. /\ \A i \in DOMAIN q : i \in DOMAIN Append(q, block) /\ Append(q, block)[i] = q[i]
      /\ \E i \in DOMAIN Append(q, block) : Append(q, block)[i] = block
  <2>1. /\ Len(q) \in Nat /\ DOMAIN q = 1..Len(q) /\ DOMAIN Append(q, block) = 1..(Len(q) + 1)
        /\ \A i \in DOMAIN q : Append(q, block)[i] = q[i]
        /\ Append(q, block)[Len(q) + 1] = block
    BY AppendToQueue
  <2>. QED
    BY <2>1
<1>. QED
  BY <1>1 DEF Secured

LEMMA SecuredWithoutHead ==
    ASSUME NEW l, NEW server, NEW cb, NEW cb2, NEW ts, NEW q \in Seq(Blocks), q # <<>>,
           Secured(l, server, cb, ts, q), ~Stops(Head(q), cb, l),
           \A i \in DOMAIN q, r \in cb : i # 1 /\ q[i].type = "answer" /\ r.rn = q[i].rn => r \in cb2
    PROVE  Secured(l, server, cb2, ts, Tail(q))
<1>1. /\ Head(q) = q[1]
      /\ \A i \in DOMAIN q : i # 1 => i - 1 \in DOMAIN Tail(q) /\ Tail(q)[i - 1] = q[i]
  BY TailOfQueue
<1>2. ASSUME NEW i \in DOMAIN q, Stops(q[i], cb, l) PROVE \E j \in DOMAIN Tail(q) : Stops(Tail(q)[j], cb2, l)
  <2>1. i # 1
    BY <1>1, <1>2
  <2>2. Stops(q[i], cb2, l)
    BY <1>2, <2>1 DEF Stops
  <2>. QED
    BY <1>1, <2>1, <2>2
<1>. QED
  BY <1>2 DEF Secured

\* The server takes a request from the wire.
LEMMA SecuredServing ==
    ASSUME NEW l, NEW server, NEW server2, NEW cb, NEW ts \in Seq(SoundRequests), NEW q, ts # <<>>,
           Secured(l, server, cb, ts, q), Head(ts).call = Call("listen", l) => QueryOf[l] \in server2,
           QueryOf[l] \in server /\ ~Unlistens(Head(ts), l) => QueryOf[l] \in server2
    PROVE  Secured(l, server2, cb, Tail(ts), q)
<1>1. /\ Head(ts) = ts[1] /\ 1 \in DOMAIN ts
      /\ \A i \in DOMAIN Tail(ts) : i \in Nat /\ i >= 1 /\ i + 1 \in DOMAIN ts /\ Tail(ts)[i] = ts[i + 1]
      /\ \A i \in DOMAIN ts : i # 1 => i - 1 \in DOMAIN Tail(ts) /\ Tail(ts)[i - 1] = ts[i]
      /\ DOMAIN ts \subseteq Nat
  BY TailOfQueue, LenProperties
<1>2. CASE QueryOf[l] \in server /\ NotEndedAfter(0, ts, l)
  <2>1. ~Unlistens(Head(ts), l)
    BY <1>1, <1>2 DEF NotEndedAfter
  <2>2. NotEndedAfter(0, Tail(ts), l)
    <3>. SUFFICES ASSUME NEW j \in DOMAIN Tail(ts) PROVE ~Unlistens(Tail(ts)[j], l)
      BY DEF NotEndedAfter
    <3>1. j + 1 \in DOMAIN ts /\ 0 < j + 1 /\ Tail(ts)[j] = ts[j + 1]
      BY <1>1
    <3>. QED
      BY <1>2, <3>1 DEF NotEndedAfter
  <2>. QED
    BY <1>2, <2>1, <2>2 DEF Secured
<1>3. ASSUME NEW i \in DOMAIN ts, ts[i].call = Call("listen", l), NotEndedAfter(i, ts, l)
      PROVE  Secured(l, server2, cb, Tail(ts), q)
  <2>1. i \in Nat /\ (i # 1 => i - 1 \in DOMAIN Tail(ts) /\ Tail(ts)[i - 1] = ts[i])
    BY <1>1, <1>3
  <2>2. NotEndedAfter(i - 1, Tail(ts), l)
    <3>. SUFFICES ASSUME NEW j \in DOMAIN Tail(ts), i - 1 < j PROVE ~Unlistens(Tail(ts)[j], l)
      BY DEF NotEndedAfter
    <3>1. j + 1 \in DOMAIN ts /\ i < j + 1 /\ Tail(ts)[j] = ts[j + 1]
      BY <1>1, <2>1
    <3>. QED
      BY <1>3, <3>1 DEF NotEndedAfter
  <2>3. CASE i = 1
    <3>1. QueryOf[l] \in server2 /\ i - 1 = 0
      BY <1>1, <1>3, <2>3
    <3>. QED
      BY <2>2, <3>1 DEF Secured
  <2>4. CASE i # 1
    BY <1>3, <2>1, <2>2, <2>4 DEF Secured
  <2>. QED
    BY <2>3, <2>4
<1>. QED
  BY <1>2, <1>3 DEF Secured

\* A call that is sent, or several.
LEMMA SendSecures ==
    ASSUME Core, NEW held \in SUBSET requestCBHash, NEW calls \in Seq(SoundCalls), Send(held, calls), ~LinkBroken,
           NEW l, \A i \in 1..Len(calls) : ~(calls[i].type = "unlisten" /\ QueryOf[calls[i].id] = QueryOf[l]),
           NEW server, NEW q, Secured(l, server, held, toServer, q)
    PROVE  Secured(l, server, requestCBHash', toServer', q)
<1>1. /\ Len(toServer') = Len(toServer) + Len(calls) /\ held \subseteq requestCBHash'
      /\ \A i \in 1..Len(toServer) : toServer'[i] = toServer[i]
      /\ \A i \in 1..Len(calls) : toServer'[Len(toServer) + i] = Request(requestNumber + i, calls[i])
      /\ WireTypes'
  BY SendEffect DEF Core, Types
<1>2. /\ Len(toServer) \in Nat /\ DOMAIN toServer = 1..Len(toServer) /\ Len(calls) \in Nat
      /\ DOMAIN toServer' = 1..Len(toServer')
  BY <1>1, LenProperties DEF Core, Types, WireTypes
<1>3. \A number, call : Request(number, call).call = call
  BY DEF Request
<1>4. \A i \in 1..Len(calls) : toServer'[Len(toServer) + i].call = calls[i]
  BY <1>1, <1>3
<1>5. Continues(toServer, toServer', Len(toServer), calls, Len(calls), l)
  BY <1>1, <1>2, <1>4 DEF Continues
<1>. QED
  BY <1>1, <1>5, SecuredWithRequests

LEMMA SendListens ==
    ASSUME Core, NEW held \in SUBSET requestCBHash, NEW calls \in Seq(SoundCalls), Send(held, calls), ~LinkBroken,
           NEW l, NEW n \in 1..Len(calls), calls[n] = Call("listen", l),
           \A i \in 1..Len(calls) : calls[i].type # "unlisten",
           NEW server, NEW q
    PROVE  Secured(l, server, requestCBHash', toServer', q)
<1>1. /\ Len(toServer') = Len(toServer) + Len(calls)
      /\ \A i \in 1..Len(calls) : toServer'[Len(toServer) + i] = Request(requestNumber + i, calls[i])
      /\ WireTypes'
  BY SendEffect DEF Core, Types
<1>2. /\ Len(toServer) \in Nat /\ Len(calls) \in Nat /\ DOMAIN toServer' = 1..Len(toServer')
  BY <1>1, LenProperties DEF Core, Types, WireTypes
<1>. \A number, call : Request(number, call).call = call
  BY DEF Request
<1>3. Len(toServer) + n \in DOMAIN toServer' /\ toServer'[Len(toServer) + n].call = Call("listen", l)
  <2>1. Len(toServer) + n \in DOMAIN toServer'
    BY <1>1, <1>2
  <2>. QED
    BY <1>1, <2>1
<1>4. NotEndedAfter(Len(toServer) + n, toServer', l)
  <2>. SUFFICES ASSUME NEW j \in DOMAIN toServer', Len(toServer) + n < j PROVE ~Unlistens(toServer'[j], l)
    BY DEF NotEndedAfter
  <2>1. PICK i \in 1..Len(calls) : j = Len(toServer) + i
    <3>1. j - Len(toServer) \in 1..Len(calls) /\ j = Len(toServer) + (j - Len(toServer))
      BY <1>1, <1>2
    <3>. QED
      BY <3>1
  <2>2. toServer'[j].call = calls[i]
    BY <1>1, <2>1
  <2>. QED
    BY <2>2 DEF Unlistens
<1>. QED
  BY <1>3, <1>4 DEF Secured

\* A call while the socket is broken, or not.
LEMMA CallSecures ==
    ASSUME Core, NEW call \in SoundCalls, Send(requestCBHash, <<call>>), UNCHANGED workQueue,
           NEW l, ~(call.type = "unlisten" /\ QueryOf[call.id] = QueryOf[l]),
           NEW server, Secured(l, server, requestCBHash, toServer, workQueue)
    PROVE  Secured(l, server, requestCBHash', toServer', workQueue')
<1>1. <<call>> \in Seq(SoundCalls) /\ Len(<<call>>) = 1 /\ <<call>>[1] = call
  BY OneCall
<1>2. CASE LinkBroken
  BY <1>2 DEF LinkBroken, Queued, Secured, Stops
<1>3. CASE ~LinkBroken
  <2>1. \A i \in 1..Len(<<call>>) :
           ~(<<call>>[i].type = "unlisten" /\ QueryOf[<<call>>[i].id] = QueryOf[l])
    BY <1>1
  <2>. QED
    BY <1>1, <1>3, <2>1, SendSecures
<1>. QED
  BY <1>2, <1>3

\* An answer to the request of another listen, or to none.
LEMMA AnswerSecures ==
    ASSUME Core, NEW request \in requestCBHash, HeadIs("answer"), request.rn = Head(workQueue).rn, Consume(request),
           NEW l, NEW server, Secured(l, server, requestCBHash, toServer, workQueue),
           Head(workQueue).ok \/ request.call # Call("listen", l)
    PROVE  Secured(l, server, requestCBHash', toServer', workQueue')
<1>1. /\ workQueue \in Seq(Blocks) /\ workQueue # <<>> /\ Head(workQueue).type = "answer"
      /\ workQueue' = Tail(workQueue) /\ requestCBHash' = requestCBHash \ {request} /\ toServer' = toServer
  BY DEF HeadIs, Consume, Core, Types, QueueTypes
<1>2. PICK k \in Nat : WireOf(k, requestCBHash, toServer, workQueue)
  BY DEF Core, Wire, ServedUpTo, Types, WireTypes
<1>3. 1 \in DOMAIN workQueue /\ Head(workQueue) = workQueue[1] /\ \A i \in DOMAIN workQueue : i # 1 => 1 < i
  <2>1. 1 \in DOMAIN workQueue /\ Head(workQueue) = workQueue[1]
    BY <1>1, TailOfQueue
  <2>2. \A i \in DOMAIN workQueue : i # 1 => 1 < i
    BY <1>1, LenProperties
  <2>. QED
    BY <2>1, <2>2
<1>4. \A r \in requestCBHash : r.rn = request.rn => r = request
  BY <1>2 DEF WireOf, CallbacksNumbered
<1>5. ~Stops(Head(workQueue), requestCBHash, l)
  BY <1>1, <1>4 DEF Stops
<1>6. ASSUME NEW i \in DOMAIN workQueue, NEW r \in requestCBHash, i # 1, workQueue[i].type = "answer", r.rn = workQueue[i].rn
      PROVE  r \in requestCBHash'
  <2>1. request.rn < r.rn
    BY <1>1, <1>2, <1>3, <1>6 DEF WireOf, AnswersInOrder
  <2>2. request.rn \in Nat
    BY DEF Core, Types, WireTypes, SoundRequests, Requests
  <2>. QED
    BY <1>1, <2>1, <2>2
<1>. QED
  BY <1>1, <1>5, <1>6, SecuredWithoutHead

LEMMA SecuredByRestoring ==
    ASSUME Core, Restores, NEW l \in listens, NEW server
    PROVE  Secured(l, server, requestCBHash', toServer', workQueue')
<1>1. PICK held \in SUBSET requestCBHash, calls \in Seq(SoundCalls) : Restoring(calls) /\ Send(held, calls)
  BY RestorationEffect
<1>2. CASE ~LinkBroken
  <2>1. PICK n \in 1..Len(calls) : calls[n] = Call("listen", l)
    BY <1>1 DEF Restoring
  <2>2. \A i \in 1..Len(calls) : calls[i].type # "unlisten"
    BY <1>1 DEF Restoring
  <2>. QED
    BY <1>1, <1>2, <2>1, <2>2, SendListens
<1>3. CASE LinkBroken
  <2>1. Secured(l, server, {}, toServer', workQueue)
    BY <1>3 DEF LinkBroken, Queued, Secured, Stops
  <2>2. /\ workQueue \in Seq(Blocks) /\ workQueue # <<>> /\ Head(workQueue).type \in {"hello", "answer"}
        /\ workQueue' = Tail(workQueue) \/ workQueue' = Append(Tail(workQueue), Block("onConnect"))
    BY DEF Restores, OnReady, HeadIs, Core, Types, QueueTypes
  <2>3. ~Stops(Head(workQueue), {}, l)
    BY <2>2 DEF Stops
  <2>4. Secured(l, server, requestCBHash', toServer', Tail(workQueue))
    BY <2>1, <2>2, <2>3, SecuredWithoutHead
  <2>5. Tail(workQueue) \in Seq(Blocks) /\ Block("onConnect") \in Blocks
    BY <2>2, TailOfQueue DEF Block, Blocks
  <2>. QED
    BY <2>2, <2>4, <2>5, SecuredWithBlock
<1>. QED
  BY <1>2, <1>3

LEMMA SecuredByServer ==
    ASSUME Core, NEW ok \in BOOLEAN, ServerAnswers(ok), NEW l \in Listens,
           Secured(l, serverListens, requestCBHash, toServer, workQueue)
    PROVE  Secured(l, serverListens', requestCBHash', toServer', workQueue')
<1>1. /\ toServer # <<>> /\ toServer' = Tail(toServer) /\ UNCHANGED requestCBHash
      /\ toServer \in Seq(SoundRequests) /\ workQueue \in Seq(Blocks)
  BY DEF ServerAnswers, Core, Types, WireTypes, QueueTypes
<1>2. PICK request \in SoundRequests : request = Head(toServer)
  BY <1>1, TailOfQueue
<1>3. HasCallback(request.call) => request \in requestCBHash
  <2>1. PICK k \in Nat : WireOf(k, requestCBHash, toServer, workQueue)
    BY DEF Core, Wire, ServedUpTo, Types, WireTypes
  <2>2. 1 \in DOMAIN toServer /\ request = toServer[1]
    BY <1>1, <1>2, TailOfQueue
  <2>. QED
    BY <2>1, <2>2 DEF WireOf, OnTheWay
<1>4. PICK value \in {published, 0} :
        workQueue' = IF HasCallback(request.call) THEN Append(workQueue, Answer(request.rn, ok, value)) ELSE workQueue
  BY <1>2 DEF ServerAnswers, Receive
<1>5. /\ Answer(request.rn, ok, value) \in Blocks
      /\ Answer(request.rn, ok, value).type = "answer" /\ Answer(request.rn, ok, value).rn = request.rn
      /\ Answer(request.rn, ok, value).ok = ok
  BY <1>2, <1>4 DEF Answer, Blocks, SoundRequests, Requests, Core, Types, ServerTypes
<1>6. CASE request.call = Call("listen", l) /\ ~ok
  <2>1. HasCallback(request.call)
    BY <1>6 DEF HasCallback, Call
  <2>2. Stops(Answer(request.rn, ok, value), requestCBHash, l)
    BY <1>3, <1>5, <1>6, <2>1 DEF Stops
  <2>. QED
    BY <1>1, <1>4, <1>5, <2>1, <2>2, SecuredWithBlock
<1>7. CASE ~(request.call = Call("listen", l) /\ ~ok)
  <2>1. serverListens' = CASE request.call.type = "listen" /\ ok -> serverListens \cup {QueryOf[request.call.id]}
                           [] request.call.type = "unlisten" -> serverListens \ {QueryOf[request.call.id]}
                           [] OTHER -> serverListens
    BY <1>2 DEF ServerAnswers
  <2>2. request.call = Call("listen", l) => QueryOf[l] \in serverListens'
    BY <1>7, <2>1 DEF Call
  <2>3. QueryOf[l] \in serverListens /\ ~Unlistens(request, l) => QueryOf[l] \in serverListens'
    BY <2>1 DEF Unlistens
  <2>4. Secured(l, serverListens', requestCBHash, Tail(toServer), workQueue)
    BY <1>1, <1>2, <2>2, <2>3, SecuredServing
  <2>. QED
    BY <1>1, <1>4, <1>5, <2>4, SecuredWithBlock
<1>. QED
  BY <1>6, <1>7

LEMMA OneListenStep == Core /\ OneListenPerQuery /\ [Next]_vars => OneListenPerQuery'
<1>. SUFFICES ASSUME Core, OneListenPerQuery, [Next]_vars PROVE OneListenPerQuery'
  OBVIOUS
<1>1. CASE listens' \subseteq listens
  BY <1>1 DEF OneListenPerQuery
<1>2. CASE Listen
  BY <1>2 DEF Listen, OneListenPerQuery
<1>. QED
  BY <1>1, <1>2, ListenFrame DEF listenVars, Drop, OnDisconnect, Restores, RestoreState, Restore,
     OnListenAnswer, OnListenRevoked, Unlisten

LEMMA SecuredStep ==
    Core /\ OneListenPerQuery /\ ListensSecured /\ [Next]_vars => ListensSecured'
<1>. SUFFICES ASSUME Core, OneListenPerQuery, ListensSecured, [Next]_vars,
                     connectionState' = "Connected", NEW l \in listens'
     PROVE  Secured(l, serverListens', requestCBHash', toServer', workQueue')
  BY DEF ListensSecured
<1>1. CASE Restores
  <2>1. l \in listens
    BY <1>1 DEF Restores, RestoreState, Restore
  <2>. QED
    BY <1>1, <2>1, SecuredByRestoring
<1>2. CASE ~Restores
  <2>1. /\ connectionState = "Connected" /\ workQueue \in Seq(Blocks) /\ listens \subseteq Listens
        /\ \A m \in listens : Secured(m, serverListens, requestCBHash, toServer, workQueue)
    BY <1>2, UsableBefore DEF ListensSecured, Core, Types, QueueTypes, IdTypes
  <2>2. connected
    BY <2>1 DEF connected
  <2>3. CASE LinkBreaks
    <3>1. Block("closed") \in Blocks /\ Stops(Block("closed"), requestCBHash', l)
      BY DEF Block, Blocks, Stops
    <3>2. workQueue' = Append(workQueue, Block("closed"))
      BY <2>3 DEF LinkBreaks, Receive
    <3>. QED
      BY <2>1, <3>1, <3>2, SecuredWithBlock
  <2>4. ASSUME NEW ok \in BOOLEAN, ServerAnswers(ok)
        PROVE  Secured(l, serverListens', requestCBHash', toServer', workQueue')
    <3>1. l \in listens
      BY <2>4 DEF ServerAnswers, listenVars
    <3>. QED
      BY <2>1, <2>4, <3>1, SecuredByServer
  <2>5. ASSUME NEW path \in Paths, ServerCancels(path)
        PROVE  Secured(l, serverListens', requestCBHash', toServer', workQueue')
    <3>1. /\ l \in listens /\ requestCBHash' = requestCBHash /\ toServer' = toServer
          /\ serverListens' = {query \in serverListens : query[1] # path}
          /\ workQueue' = Append(workQueue, Cancelled(path))
      BY <2>5 DEF ServerCancels, Receive, listenVars, wireVars
    <3>2. Cancelled(path) \in Blocks /\ Cancelled(path).type = "cancelled" /\ Cancelled(path).path = path
      BY DEF Cancelled, Blocks
    <3>3. CASE QueryOf[l][1] = path
      <4>1. Stops(Cancelled(path), requestCBHash, l)
        BY <3>2, <3>3 DEF Stops
      <4>. QED
        BY <2>1, <3>1, <3>2, <4>1, SecuredWithBlock
    <3>4. CASE QueryOf[l][1] # path
      <4>1. Secured(l, serverListens', requestCBHash, toServer, workQueue)
        BY <2>1, <3>1, <3>4 DEF Secured
      <4>. QED
        BY <2>1, <3>1, <3>2, <4>1, SecuredWithBlock
    <3>. QED
      BY <3>3, <3>4
  <2>6. CASE UNCHANGED serverListens /\ UsableStep
    <3>1. CASE UNCHANGED <<listens, requestCBHash, toServer, workQueue>>
      BY <2>1, <2>6, <3>1
    <3>2. CASE OtherPopped
      <4>1. /\ workQueue # <<>> /\ workQueue' = Tail(workQueue) /\ l \in listens
            /\ requestCBHash' = requestCBHash /\ toServer' = toServer
        BY <3>2 DEF OtherPopped
      <4>2. ~Stops(Head(workQueue), requestCBHash, l)
        BY <3>2 DEF OtherPopped, Stops
      <4>. QED
        BY <2>1, <2>6, <4>1, <4>2, SecuredWithoutHead
    <3>3. CASE BlockReceived
      BY <2>1, <2>6, <3>3, SecuredWithBlock DEF BlockReceived
    <3>4. CASE OtherAnswered
      <4>1. PICK request \in requestCBHash :
              /\ HeadIs("answer") /\ request.rn = Head(workQueue).rn /\ request.call.type # "listen"
              /\ Consume(request) /\ l \in listens
        BY <3>4 DEF OtherAnswered
      <4>2. request.call # Call("listen", l)
        BY <4>1 DEF Call
      <4>. QED
        BY <2>1, <2>6, <4>1, <4>2, AnswerSecures
    <3>5. CASE OtherSent
      BY <2>1, <2>6, <3>5, CallSecures DEF OtherSent
    <3>6. CASE OnListenAnswer
      <4>1. PICK request \in requestCBHash :
              /\ HeadIs("answer") /\ request.rn = Head(workQueue).rn
              /\ Consume(request) /\ l \in listens
              /\ Head(workQueue).ok \/ l # request.call.id
        BY <3>6 DEF OnListenAnswer, Answered
      <4>2. Head(workQueue).ok \/ request.call # Call("listen", l)
        BY <4>1 DEF Call
      <4>. QED
        BY <2>1, <2>6, <4>1, <4>2, AnswerSecures
    <3>7. CASE OnListenRevoked
      <4>1. /\ workQueue # <<>> /\ workQueue' = Tail(workQueue) /\ Head(workQueue).type = "cancelled"
            /\ requestCBHash' = requestCBHash /\ toServer' = toServer
            /\ l \in listens /\ QueryOf[l][1] # Head(workQueue).path
        BY <3>7 DEF OnListenRevoked, HeadIs, wireVars
      <4>2. ~Stops(Head(workQueue), requestCBHash, l)
        BY <4>1 DEF Stops
      <4>. QED
        BY <2>1, <2>6, <4>1, <4>2, SecuredWithoutHead
    <3>8. CASE Listen
      <4>1. PICK listen \in Listens :
              /\ Send(requestCBHash, <<Call("listen", listen)>>) /\ workQueue' = workQueue
              /\ listens' = listens \cup {listen}
        <5>1. listenCounter + 1 \in Listens
          BY <3>8, BoundsAssumption DEF Listen, Core, Types, IdTypes, Listens
        <5>. QED
          BY <2>2, <3>8, <5>1 DEF Listen
      <4>2. Call("listen", listen) \in SoundCalls
        BY BoundsAssumption DEF SoundCalls, Call, IdFits, CallTypes, Listens
      <4>3. CASE l \in listens
        <5>1. Call("listen", listen).type # "unlisten"
          BY DEF Call
        <5>. QED
          BY <2>1, <2>6, <4>1, <4>2, <4>3, <5>1, CallSecures
      <4>4. CASE l = listen
        <5>1. <<Call("listen", listen)>> \in Seq(SoundCalls) /\ Len(<<Call("listen", listen)>>) = 1
              /\ <<Call("listen", listen)>>[1] = Call("listen", listen)
          BY <4>2, OneCall
        <5>2. Call("listen", listen).type # "unlisten"
          BY DEF Call
        <5>3. PICK calls \in Seq(SoundCalls) :
                Send(requestCBHash, calls) /\ Len(calls) = 1 /\ calls[1] = Call("listen", l)
          BY <4>1, <4>4, <5>1
        <5>4. 1 \in 1..Len(calls) /\ \A i \in 1..Len(calls) : calls[i].type # "unlisten"
          BY <4>4, <5>2, <5>3
        <5>5. CASE LinkBroken
          BY <4>1, <5>5 DEF LinkBroken, Queued, Secured, Stops
        <5>6. CASE ~LinkBroken
          BY <5>3, <5>6, <5>4, SendListens
        <5>. QED
          BY <5>5, <5>6
      <4>. QED
        BY <4>1, <4>3, <4>4
    <3>9. ASSUME NEW listen \in Listens, Unlisten(listen)
          PROVE  Secured(l, serverListens', requestCBHash', toServer', workQueue')
      <4>1. /\ Send(requestCBHash, <<Call("unlisten", listen)>>) /\ workQueue' = workQueue
            /\ listen \in listens /\ l \in listens /\ l # listen
        BY <2>2, <3>9 DEF Unlisten
      <4>2. Call("unlisten", listen) \in SoundCalls /\ Call("unlisten", listen).id = listen
        BY BoundsAssumption DEF SoundCalls, Call, IdFits, CallTypes, Listens
      <4>3. QueryOf[listen] # QueryOf[l]
        BY <4>1 DEF OneListenPerQuery
      <4>. QED
        BY <2>1, <2>6, <4>1, <4>2, <4>3, CallSecures
    <3>. QED
      BY <2>6, <3>1, <3>2, <3>3, <3>4, <3>5, <3>6, <3>7, <3>8, <3>9 DEF UsableStep
  <2>. QED
    BY <1>2, <2>3, <2>4, <2>5, <2>6, UsableFrame
<1>. QED
  BY <1>1, <1>2

\* When everything that was sent has been answered and processed, the server serves every
\* listen the client believes in, after reconnects, refusals, revocations (onListenRevoked)
\* and listens that are ended and added again.
THEOREM ServerServesListens == Spec => []ListensServed
<1>1. Init => Core /\ OneListenPerQuery /\ ListensSecured
  <2>1. Init => OneListenPerQuery /\ ListensSecured
    BY DEF Init, OneListenPerQuery, ListensSecured
  <2>. QED
    BY <2>1, CoreInit
<1>2. Core /\ OneListenPerQuery /\ ListensSecured /\ [Next]_vars => (Core /\ OneListenPerQuery /\ ListensSecured)'
  BY CoreStep, OneListenStep, SecuredStep
<1>3. ListensSecured => ListensServed
  <2>. SUFFICES ASSUME ListensSecured, connectionState = "Connected", toServer = <<>>, workQueue = <<>>, NEW l \in listens
       PROVE  QueryOf[l] \in serverListens
    BY DEF ListensServed, canSend
  <2>1. DOMAIN toServer = {} /\ DOMAIN workQueue = {}
    BY EmptySeq
  <2>. QED
    BY <2>1 DEF ListensSecured, Secured
<1>. QED
  BY <1>1, <1>2, <1>3, PTL DEF Spec
=============================================================================
