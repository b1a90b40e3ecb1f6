----------------------------- MODULE WebSocket -----------------------------
(***************************************************************************)
(* One socket of the Firebase client: FWebSocketConnection, whose blocks   *)
(* run on the serial queue "FirebaseWorker" (delegateQueue), and the       *)
(* FSRWebSocket below it, whose blocks run on a serial queue of its own    *)
(* (workQueue).  Events of the streams come from the network thread, the   *)
(* keep-alive timer fires on the main thread.                              *)
(*                                                                         *)
(* Data is a sequence of web socket frames; one frame is read or written   *)
(* as a whole.  A message longer than a frame is a frame with its number   *)
(* of segments, then the segments.                                         *)
(***************************************************************************)
EXTENDS Integers, Sequences, FiniteSets

CONSTANTS
    InSegments,   \* segments of each message the server may send
    OutSegments,  \* segments of each message FConnection may send
    MaxNops,      \* keep-alive frames, a bound
    MaxPings,     \* pings of the server, a bound
    Faults        \* how the server and the network may end a connection

ASSUME MessagesAssumption ==
    /\ InSegments \in Seq(Nat \ {0}) /\ OutSegments \in Seq(Nat \ {0})
    /\ MaxNops \in Nat /\ MaxPings \in Nat
    /\ Faults \subseteq {"error", "end", "refused", "close", "malformed"}

VARIABLES
    \* FSRWebSocket
    readyState, failed, sentClose, closeWhenFinishedWriting, cleanupScheduled,
    outputBuffer,   \* frames not yet written
    readBuffer,     \* frames read and not yet parsed
    consumer,       \* what the scanner waits for
    stream,         \* status of the pair of streams
    workQueue,
    \* FWebSocketConnection
    everConnected, isClosed,
    webSocket,      \* whether it still has its FSRWebSocket
    connectTimer,   \* the block that checks after 30 s is still to come
    keepAlive,      \* the repeating timer on the main thread
    nopping,        \* nop: has passed its test and not yet sent
    buffering, frame, totalFrames,
    sending,        \* what the loop of send: has still to pass on
    delegateQueue,
    \* the server
    server,         \* its side of the connection
    inSent, outSent, nops, pings,
    wireIn, wireOut,
    \* history
    delivered,      \* messages FConnection got
    end             \* how the connection ended for FConnection

outputVars == <<failed, sentClose, closeWhenFinishedWriting, outputBuffer, wireOut>>
inputVars == <<readyState, readBuffer, consumer>>
connectionVars == <<everConnected, isClosed, webSocket, connectTimer>>
timerVars == <<keepAlive, nopping, nops>>
assemblyVars == <<buffering, frame, totalFrames, delivered>>
serverVars == <<server, inSent, pings, wireIn>>
sendVars == <<sending, outSent>>
vars == <<outputVars, inputVars, connectionVars, timerVars, assemblyVars, serverVars, sendVars,
          cleanupScheduled, stream, workQueue, delegateQueue, end>>

SR_CONNECTING == 0
SR_OPEN == 1
SR_CLOSING == 2
SR_CLOSED == 3

Frame(kind, msg, n) == [kind |-> kind, msg |-> msg, n |-> n]
NoFrame == Frame("none", 0, 0)
Segment(msg, i) == Frame("segment", msg, i)
Count(n) == Frame("count", 0, n)
Control(kind) == Frame(kind, 0, 0)
Frames == [kind : {"none", "segment", "count", "nop", "ping", "pong", "close", "malformed",
                   "upgrade", "accepted", "refused"},
           msg : Nat, n : Nat]

Block(type) == <<type, NoFrame>>
Write(f) == <<"write", f>>
Received(f) == <<"message", f>>
WorkBlocks ==
    {"opened", "bytes", "space", "error", "end", "streamEnd", "close", "disconnect", "fail",
     "readFrame", "write"} \X Frames
DelegateBlocks ==
    {"didOpen", "message", "didClose", "didFail", "ping", "protocolError", "timeout"} \X Frames

\* The frames of a message: splitString and the header of send:.
FramesOf(msg, n) ==
    (IF n > 1 THEN <<Count(n)>> ELSE <<>>) \o [i \in 1..n |-> Segment(msg, i)]

TypeOK ==
    /\ readyState \in SR_CONNECTING..SR_CLOSED
    /\ failed \in BOOLEAN /\ sentClose \in BOOLEAN /\ closeWhenFinishedWriting \in BOOLEAN
    /\ cleanupScheduled \in BOOLEAN
    /\ outputBuffer \in Seq(Frames) /\ readBuffer \in Seq(Frames)
    /\ consumer \in {"none", "header", "frame"}
    /\ stream \in {"notOpen", "opening", "open", "atEnd", "error", "closed"}
    /\ workQueue \in Seq(WorkBlocks) /\ delegateQueue \in Seq(DelegateBlocks)
    /\ everConnected \in BOOLEAN /\ isClosed \in BOOLEAN /\ webSocket \in BOOLEAN
    /\ connectTimer \in BOOLEAN
    /\ keepAlive \in {"none", "starting", "running", "invalid"}
    /\ nopping \in BOOLEAN /\ nops \in 0..MaxNops /\ pings \in 0..MaxPings
    /\ buffering \in BOOLEAN /\ frame \in Seq(Frames) /\ totalFrames \in Nat
    /\ sending \in Seq(Frames) /\ outSent \in 0..Len(OutSegments)
    /\ server \in {"waiting", "accepted", "finished"}
    /\ inSent \in 0..Len(InSegments)
    /\ wireIn \in Seq(Frames) /\ wireOut \in Seq(Frames)
    /\ delivered \in Seq(Nat)
    /\ end \in {"none", "closed", "reported"}

Init ==
    /\ readyState = SR_CONNECTING
    /\ failed = FALSE /\ sentClose = FALSE /\ closeWhenFinishedWriting = FALSE
    /\ cleanupScheduled = FALSE
    /\ outputBuffer = <<>> /\ readBuffer = <<>> /\ consumer = "none"
    /\ stream = "notOpen" /\ workQueue = <<>> /\ delegateQueue = <<>>
    /\ everConnected = FALSE /\ isClosed = FALSE /\ webSocket = TRUE
    /\ connectTimer = FALSE /\ keepAlive = "none" /\ nopping = FALSE
    /\ buffering = FALSE /\ frame = <<>> /\ totalFrames = 0
    /\ sending = <<>> /\ outSent = 0 /\ nops = 0 /\ pings = 0
    /\ server = "waiting" /\ inSent = 0 /\ wireIn = <<>> /\ wireOut = <<>>
    /\ delivered = <<>> /\ end = "none"

-----------------------------------------------------------------------------
(* FSRWebSocket: writing.                                                  *)

\* Mutation of PumpWriting: the last frame written stays in the buffer.
PumpWritingRepeats(buffer, closing, hasFailed, blocks, calls) ==
    /\ closeWhenFinishedWriting' = closing
    /\ failed' = hasFailed
    /\ \E n \in 0..Len(buffer) :
           /\ n > 0 => stream \in {"open", "atEnd"}
           /\ wireOut' = wireOut \o SubSeq(buffer, 1, n)
           /\ outputBuffer' = SubSeq(buffer, IF n = 0 THEN 1 ELSE n, Len(buffer))
           /\ workQueue' = blocks
           /\ delegateQueue' = calls
           /\ UNCHANGED <<sentClose, stream, cleanupScheduled>>

(* _pumpWriting: any number of frames fits into the stream, or writing       *)
(* fails.  When all is written and the socket is to close, it closes once.   *)
(* After a failure a cleanup is scheduled in any case.                       *)
PumpWriting(buffer, closing, hasFailed, blocks, calls) ==
    /\ closeWhenFinishedWriting' = closing
    /\ failed' = hasFailed
    /\ \/ /\ buffer # <<>> /\ stream = "error"
          /\ outputBuffer' = buffer
          /\ workQueue' = Append(blocks, Block("fail"))
          /\ delegateQueue' = calls
          /\ cleanupScheduled' = (cleanupScheduled \/ hasFailed)
          /\ UNCHANGED <<wireOut, sentClose, stream>>
       \/ \E n \in 0..Len(buffer) :
             /\ n > 0 => stream \in {"open", "atEnd"}
             /\ wireOut' = wireOut \o SubSeq(buffer, 1, n)
             /\ outputBuffer' = SubSeq(buffer, n + 1, Len(buffer))
             /\ workQueue' = blocks
             /\ IF /\ closing /\ n = Len(buffer) /\ ~sentClose
                   /\ stream \notin {"notOpen", "closed"}
                THEN /\ sentClose' = TRUE
                     /\ stream' = "closed"
                     /\ cleanupScheduled' = TRUE
                     /\ delegateQueue' = IF hasFailed THEN calls
                                                      ELSE Append(calls, Block("didClose"))
                ELSE /\ delegateQueue' = calls
                     /\ cleanupScheduled' = (cleanupScheduled \/ hasFailed)
                     /\ UNCHANGED <<sentClose, stream>>

WriteData(f, blocks) ==
    IF closeWhenFinishedWriting
    THEN /\ workQueue' = blocks
         /\ UNCHANGED <<outputVars, stream, cleanupScheduled, delegateQueue>>
    ELSE PumpWriting(Append(outputBuffer, f), FALSE, failed, blocks, delegateQueue)

Disconnect(hasFailed, blocks, calls) ==
    PumpWriting(outputBuffer, TRUE, hasFailed, blocks, calls)

(* FSRWebSocket: reading.  The handler of a frame installs the consumer of   *)
(* the next one in a block of its own.                                      *)
HandleClose == <<Block("readFrame"), Block("close"), Block("disconnect")>>

\* _pumpScanner on what was read; "after" are blocks added behind its own.  A malformed
\* frame stands for those after which nothing more is read.
PumpScanner(input, waiting, blocks, after) ==
    LET idle == readyState >= SR_CLOSING \/ waiting = "none" \/ input = <<>>
        kind == IF idle THEN "none" ELSE Head(input).kind
        adds == CASE kind = "refused" -> <<Block("fail")>>
                  [] kind \in {"accepted", "count", "segment", "ping"} -> <<Block("readFrame")>>
                  [] kind = "close" -> HandleClose
                  [] OTHER -> <<>>
        calls == CASE kind = "accepted" -> <<Block("didOpen")>>
                   [] kind \in {"count", "segment"} -> <<Received(Head(input))>>
                   [] kind = "ping" -> <<Block("ping")>>
                   [] kind = "malformed" -> <<Block("protocolError")>>
                   [] OTHER -> <<>>
    IN  /\ readBuffer' = IF idle THEN input ELSE Tail(input)
        /\ consumer' = IF idle THEN waiting ELSE "none"
        /\ readyState' = IF kind = "accepted" THEN SR_OPEN ELSE readyState
        /\ workQueue' = blocks \o adds \o after
        /\ delegateQueue' = delegateQueue \o calls

\* _failWithError, _disconnect and the others on the work queue, each its first block.
Running(type) == workQueue # <<>> /\ Head(workQueue)[1] = type
Rest == Tail(workQueue)

-----------------------------------------------------------------------------
(* Blocks of the work queue.                                               *)

otherVars == <<connectionVars, timerVars, assemblyVars, sendVars, end>>

\* The input stream is open: the upgrade is requested.
OnOpened ==
    /\ Running("opened")
    /\ IF readyState >= SR_CLOSING
       THEN /\ workQueue' = Rest
            /\ UNCHANGED <<outputVars, stream, cleanupScheduled, delegateQueue, consumer>>
       ELSE /\ consumer' = "header"
            /\ WriteData(Control("upgrade"), Rest)
    /\ UNCHANGED <<readyState, readBuffer, serverVars, otherVars>>

\* Everything that can be read is read; reading may fail after an error.
OnBytes ==
    /\ Running("bytes")
    /\ \E errors \in {<<>>} \cup (IF stream = "error" THEN {<<Block("fail")>>} ELSE {}) :
           IF stream = "open"
           THEN PumpScanner(readBuffer \o wireIn, consumer, Rest, <<>>) /\ wireIn' = <<>>
           ELSE PumpScanner(readBuffer, consumer, Rest \o errors, <<>>) /\ UNCHANGED wireIn
    /\ UNCHANGED <<outputVars, stream, cleanupScheduled, server, inSent, pings, otherVars>>

OnSpace ==
    /\ Running("space")
    /\ PumpWriting(outputBuffer, closeWhenFinishedWriting, failed, Rest, delegateQueue)
    /\ UNCHANGED <<inputVars, serverVars, otherVars>>

OnError ==
    /\ Running("error")
    /\ workQueue' = Append(Rest, Block("fail"))
    /\ readBuffer' = <<>>
    /\ UNCHANGED <<readyState, consumer, outputVars, stream, cleanupScheduled, delegateQueue,
                   serverVars, otherVars>>

OnEnd ==
    /\ Running("end")
    /\ PumpScanner(readBuffer, consumer, Rest, <<Block("streamEnd")>>)
    /\ UNCHANGED <<outputVars, stream, cleanupScheduled, serverVars, otherVars>>

\* Mutation of OnStreamEnd: the state is the only trace of the end.
OnStreamEndSilent ==
    /\ Running("streamEnd")
    /\ workQueue' = Rest
    /\ readyState' = SR_CLOSED
    /\ cleanupScheduled' = TRUE
    /\ sentClose' = TRUE
    /\ UNCHANGED <<readBuffer, consumer, failed, closeWhenFinishedWriting, outputBuffer, wireOut,
                   stream, delegateQueue, serverVars, otherVars>>

\* The block behind the end of the stream.
OnStreamEnd ==
    /\ Running("streamEnd")
    /\ workQueue' = Rest
    /\ readyState' = SR_CLOSED
    /\ cleanupScheduled' = (cleanupScheduled \/ readyState # SR_CLOSED)
    /\ IF sentClose \/ failed
       THEN UNCHANGED <<sentClose, delegateQueue>>
       ELSE /\ sentClose' = TRUE
            /\ delegateQueue' = Append(delegateQueue, Block("didClose"))
    /\ UNCHANGED <<readBuffer, consumer, failed, closeWhenFinishedWriting, outputBuffer, wireOut,
                   stream, serverVars, otherVars>>

\* _failWithError: an error is told before the socket closes.
OnFail ==
    /\ Running("fail")
    /\ IF readyState # SR_CLOSED
       THEN /\ readyState' = SR_CLOSED
            /\ Disconnect(TRUE, Rest, Append(delegateQueue, Block("didFail")))
       ELSE /\ workQueue' = Rest
            /\ UNCHANGED <<readyState, outputVars, stream, cleanupScheduled, delegateQueue>>
    /\ UNCHANGED <<readBuffer, consumer, serverVars, otherVars>>

\* closeWithCode: an open socket only sends a close frame.
OnClose ==
    /\ Running("close")
    /\ IF readyState >= SR_CLOSING
       THEN /\ workQueue' = Rest
            /\ UNCHANGED <<readyState, outputVars, stream, cleanupScheduled, delegateQueue>>
       ELSE /\ readyState' = SR_CLOSING
            /\ IF readyState = SR_CONNECTING
               THEN Disconnect(failed, Rest, delegateQueue)
               ELSE WriteData(Control("close"), Rest)
    /\ UNCHANGED <<readBuffer, consumer, serverVars, otherVars>>

OnDisconnect ==
    /\ Running("disconnect")
    /\ Disconnect(failed, Rest, delegateQueue)
    /\ UNCHANGED <<inputVars, serverVars, otherVars>>

\* send: and the answer to a ping.
OnWrite ==
    /\ Running("write")
    /\ WriteData(Head(workQueue)[2], Rest)
    /\ UNCHANGED <<inputVars, serverVars, otherVars>>

\* _readFrameNew and _readFrameContinue.
OnReadFrame ==
    /\ Running("readFrame")
    /\ PumpScanner(readBuffer, "frame", Rest, <<>>)
    /\ UNCHANGED <<outputVars, stream, cleanupScheduled, serverVars, otherVars>>

-----------------------------------------------------------------------------
(* FWebSocketConnection, on the delegate queue.  It is freed when FConnection*)
(* has let it go and no timer keeps it; FSRWebSocket then calls nobody.     *)

Alive == end = "none" \/ connectTimer \/ keepAlive \in {"starting", "running"}
Idle == sending = <<>>
Called(type) == Idle /\ delegateQueue # <<>> /\ Head(delegateQueue)[1] = type
Enqueue(blocks) == workQueue' = IF webSocket THEN workQueue \o blocks ELSE workQueue
socketVars == <<outputVars, inputVars, stream, cleanupScheduled>>

Open ==
    /\ stream = "notOpen" /\ end = "none"
    /\ stream' = "opening"
    /\ connectTimer' = TRUE
    /\ UNCHANGED <<outputVars, inputVars, cleanupScheduled, everConnected, isClosed, webSocket,
                   timerVars, assemblyVars, serverVars, sendVars, workQueue, delegateQueue, end>>

\* FConnection closes the connection; its FWebSocketConnection must not call it.
Close ==
    /\ Idle /\ end = "none" /\ stream # "notOpen"
    /\ end' = "closed"
    /\ isClosed' = TRUE
    /\ Enqueue(<<Block("close")>>)
    /\ UNCHANGED <<socketVars, everConnected, webSocket, connectTimer, timerVars, assemblyVars,
                   serverVars, sendVars, delegateQueue>>

\* send: after the handshake; its loop passes the frames on one by one.
Send ==
    /\ Idle /\ end = "none" /\ delivered # <<>> /\ outSent < Len(OutSegments)
    /\ outSent' = outSent + 1
    /\ sending' = FramesOf(outSent + 1, OutSegments[outSent + 1])
    /\ UNCHANGED <<socketVars, connectionVars, timerVars, assemblyVars, serverVars, workQueue,
                   delegateQueue, end>>

SendString ==
    /\ sending # <<>>
    /\ sending' = Tail(sending)
    /\ Enqueue(<<Write(Head(sending))>>)
    /\ UNCHANGED <<socketVars, connectionVars, timerVars, assemblyVars, serverVars, outSent,
                   delegateQueue, end>>

WebSocketDidOpen ==
    /\ Called("didOpen")
    /\ delegateQueue' = Tail(delegateQueue)
    /\ IF Alive
       THEN everConnected' = TRUE /\ keepAlive' = "starting"
       ELSE UNCHANGED <<everConnected, keepAlive>>
    /\ UNCHANGED <<socketVars, isClosed, webSocket, connectTimer, nopping, nops, assemblyVars,
                   serverVars, sendVars, workQueue, end>>

\* A message is whole when its segments are all there, in order.
Whole(segments) ==
    {m \in DOMAIN InSegments : segments = [i \in 1..InSegments[m] |-> Segment(m, i)]}
OnMessage(segments) ==
    delivered' = IF end # "none" THEN delivered
                 ELSE Append(delivered, IF Whole(segments) = {} THEN 0
                                        ELSE CHOOSE m \in Whole(segments) : TRUE)

AppendFrame(f, total, segments) ==
    /\ totalFrames' = total - 1
    /\ IF total = 1
       THEN /\ buffering' = FALSE /\ frame' = <<>>
            /\ OnMessage(Append(segments, f))
       ELSE /\ buffering' = TRUE /\ frame' = Append(segments, f)
            /\ UNCHANGED delivered

\* didReceiveMessage and handleIncomingFrame.
DidReceiveMessage ==
    /\ Called("message")
    /\ delegateQueue' = Tail(delegateQueue)
    /\ LET f == Head(delegateQueue)[2]
       IN  CASE ~Alive -> UNCHANGED assemblyVars
             [] Alive /\ buffering -> AppendFrame(f, totalFrames, frame)
             [] Alive /\ ~buffering /\ f.kind = "count" ->
                    /\ totalFrames' = f.n /\ buffering' = TRUE /\ frame' = <<>>
                    /\ UNCHANGED delivered
             [] OTHER -> AppendFrame(f, 1, <<>>)
    /\ UNCHANGED <<socketVars, connectionVars, timerVars, serverVars, sendVars, workQueue, end>>

\* Mutation of OnClosed: the disconnect is reported whoever closed the connection.
OnClosedAlways ==
    /\ isClosed' = TRUE
    /\ end' = "reported"
    /\ webSocket' = FALSE
    /\ keepAlive' = IF keepAlive = "running" THEN "invalid" ELSE keepAlive

\* onClosed and shutdown.
OnClosed ==
    /\ isClosed' = TRUE
    /\ end' = IF isClosed THEN end ELSE "reported"
    /\ webSocket' = FALSE
    /\ keepAlive' = IF keepAlive = "running" THEN "invalid" ELSE keepAlive

\* didCloseWithCode and didFailWithError.
DidEnd(type) ==
    /\ Called(type)
    /\ delegateQueue' = Tail(delegateQueue)
    /\ IF Alive THEN OnClosed ELSE UNCHANGED <<isClosed, end, webSocket, keepAlive>>
    /\ UNCHANGED <<socketVars, everConnected, connectTimer, nopping, nops, assemblyVars,
                   serverVars, sendVars, workQueue>>

\* handlePing and _closeWithProtocolError, sent through this queue to keep the order.
Bounce(type, blocks) ==
    /\ Called(type)
    /\ delegateQueue' = Tail(delegateQueue)
    /\ workQueue' = workQueue \o blocks
    /\ UNCHANGED <<socketVars, connectionVars, timerVars, assemblyVars, serverVars, sendVars, end>>
HandlePing == Bounce("ping", <<Write(Control("pong"))>>)
CloseWithProtocolError == Bounce("protocolError", <<Block("close"), Block("disconnect")>>)

\* Mutation of CloseIfNeverConnected: nothing happens after 30 s.
CloseIfNeverConnectedNot ==
    /\ Called("timeout")
    /\ delegateQueue' = Tail(delegateQueue)
    /\ connectTimer' = FALSE
    /\ UNCHANGED <<socketVars, everConnected, isClosed, webSocket, timerVars, assemblyVars,
                   serverVars, sendVars, workQueue, end>>

CloseIfNeverConnected ==
    /\ Called("timeout")
    /\ delegateQueue' = Tail(delegateQueue)
    /\ connectTimer' = FALSE
    /\ IF everConnected THEN UNCHANGED workQueue ELSE Enqueue(<<Block("close")>>)
    /\ UNCHANGED <<socketVars, everConnected, isClosed, webSocket, timerVars, assemblyVars,
                   serverVars, sendVars, end>>

-----------------------------------------------------------------------------
(* The main thread: the keep-alive timer.  send: moves its date, so it does  *)
(* not fire during the loop of send:; but it may have fired just before.     *)

StartKeepAlive ==
    /\ keepAlive = "starting"
    /\ keepAlive' = "running"
    /\ UNCHANGED <<socketVars, connectionVars, nopping, nops, assemblyVars, serverVars, sendVars,
                   workQueue, delegateQueue, end>>

NopFires ==
    /\ keepAlive = "running" /\ Idle /\ ~nopping
    /\ IF isClosed
       THEN keepAlive' = "invalid" /\ UNCHANGED <<nopping, nops>>
       ELSE /\ nops < MaxNops
            /\ nopping' = TRUE /\ nops' = nops + 1
            /\ UNCHANGED keepAlive
    /\ UNCHANGED <<socketVars, connectionVars, assemblyVars, serverVars, sendVars, workQueue,
                   delegateQueue, end>>

NopSends ==
    /\ nopping
    /\ nopping' = FALSE
    /\ Enqueue(<<Write(Control("nop"))>>)
    /\ UNCHANGED <<socketVars, connectionVars, keepAlive, nops, assemblyVars, serverVars, sendVars,
                   delegateQueue, end>>

-----------------------------------------------------------------------------
(* The streams, on the network thread, and the timer of 30 s.  An error ends  *)
(* both streams; the end of the stream comes after the data before it.       *)

Scheduled(type) == \E i \in DOMAIN workQueue : workQueue[i][1] = type
Event(type) == workQueue' = Append(workQueue, Block(type))
aboveVars == <<connectionVars, timerVars, assemblyVars, sendVars, delegateQueue, end>>

OpenCompleted ==
    /\ stream = "opening"
    /\ stream' = "open"
    /\ Event("opened")
    /\ UNCHANGED <<outputVars, inputVars, cleanupScheduled, serverVars, aboveVars>>

HasSpaceAvailable ==
    /\ stream = "open" /\ outputBuffer # <<>> /\ ~Scheduled("space")
    /\ Event("space")
    /\ UNCHANGED <<socketVars, serverVars, aboveVars>>

ErrorOccurred ==
    /\ "error" \in Faults
    /\ stream \in {"opening", "open", "atEnd"}
    /\ stream' = "error"
    /\ wireIn' = <<>>
    /\ Event("error")
    /\ UNCHANGED <<outputVars, inputVars, cleanupScheduled, server, inSent, pings, aboveVars>>

EndEncountered ==
    /\ "end" \in Faults
    /\ stream = "open" /\ wireIn = <<>>
    /\ stream' = "atEnd"
    /\ server' = "finished"
    /\ Event("end")
    /\ UNCHANGED <<outputVars, inputVars, cleanupScheduled, inSent, pings, wireIn, aboveVars>>

\* _cleanupSelfReference
Cleanup ==
    /\ cleanupScheduled /\ stream # "closed"
    /\ stream' = "closed"
    /\ UNCHANGED <<outputVars, inputVars, cleanupScheduled, serverVars, workQueue, aboveVars>>

ConnectTimeout ==
    /\ connectTimer
    /\ \A i \in DOMAIN delegateQueue : delegateQueue[i][1] # "timeout"
    /\ delegateQueue' = Append(delegateQueue, Block("timeout"))
    /\ UNCHANGED <<socketVars, serverVars, connectionVars, timerVars, assemblyVars, sendVars,
                   workQueue, end>>

-----------------------------------------------------------------------------
(* The server.                                                             *)

Written(kind) == \E i \in DOMAIN wireOut : wireOut[i].kind = kind

\* Frames arrive: NSStreamEventHasBytesAvailable, unless it is already on its way.
Arrives(frames) ==
    /\ stream = "open"
    /\ wireIn' = wireIn \o frames
    /\ IF Scheduled("bytes") THEN UNCHANGED workQueue ELSE Event("bytes")
    /\ UNCHANGED <<socketVars, aboveVars>>

ServerAnswersUpgrade(kind) ==
    /\ server = "waiting" /\ Written("upgrade")
    /\ server' = IF kind = "accepted" THEN "accepted" ELSE "finished"
    /\ Arrives(<<Control(kind)>>)
    /\ UNCHANGED <<inSent, pings>>

ServerSends ==
    /\ server = "accepted" /\ inSent < Len(InSegments)
    /\ inSent' = inSent + 1
    /\ Arrives(FramesOf(inSent + 1, InSegments[inSent + 1]))
    /\ UNCHANGED <<server, pings>>

ServerPings ==
    /\ server = "accepted" /\ pings < MaxPings
    /\ pings' = pings + 1
    /\ Arrives(<<Control("ping")>>)
    /\ UNCHANGED <<server, inSent>>

\* The server sends a close frame, or one that breaks the protocol.
ServerFinishes(kind) ==
    /\ server = "accepted"
    /\ server' = "finished"
    /\ Arrives(<<Control(kind)>>)
    /\ UNCHANGED <<inSent, pings>>

-----------------------------------------------------------------------------
WorkBlock ==
    \/ OnOpened \/ OnBytes \/ OnSpace \/ OnError \/ OnEnd \/ OnStreamEnd \/ OnFail
    \/ OnClose \/ OnDisconnect \/ OnWrite \/ OnReadFrame
DelegateBlock ==
    \/ WebSocketDidOpen \/ DidReceiveMessage \/ HandlePing \/ CloseWithProtocolError
    \/ CloseIfNeverConnected \/ SendString
    \/ \E type \in {"didClose", "didFail"} : DidEnd(type)
Caller == Open \/ Close \/ Send
MainThread == StartKeepAlive \/ NopFires \/ NopSends
Streams ==
    \/ OpenCompleted \/ HasSpaceAvailable \/ ErrorOccurred
    \/ EndEncountered \/ Cleanup
Server ==
    \/ ServerSends \/ ServerPings
    \/ \E kind \in {"accepted"} \cup (Faults \cap {"refused"}) : ServerAnswersUpgrade(kind)
    \/ \E kind \in Faults \cap {"close", "malformed"} : ServerFinishes(kind)

Next == WorkBlock \/ DelegateBlock \/ Caller \/ MainThread \/ Streams \/ ConnectTimeout \/ Server

Spec == Init /\ [][Next]_vars
-----------------------------------------------------------------------------
(* Properties.                                                             *)

\* The socket implements what the connection relies on: whole messages in order,
\* its end told once and never to who closed it, nothing after the end.
Service == INSTANCE SocketService WITH MaxMessages <- Len(InSegments)
SocketSpec == Service!Spec

\* The assertion of setReadyState: the state only advances, whatever order close,
\* failure, end of the stream and handshake come in on the work queue.
ReadyStateAdvances == [][readyState' >= readyState]_vars

\* FSRWebSocket reads no message after it has queued the news of its end.
Messages(calls) == Cardinality({i \in DOMAIN calls : calls[i][1] = "message"})
EndIsLast ==
    [][(sentClose \/ failed) => Messages(delegateQueue') <= Messages(delegateQueue)]_vars

\* All frames of the first m messages, one message behind the other.
AllFrames(segments) ==
    LET All[m \in 0..Len(segments)] ==
            IF m = 0 THEN <<>> ELSE All[m - 1] \o FramesOf(m, segments[m])
    IN  All
OutFrames == AllFrames(OutSegments)

\* Whatever is written in pieces, dropped at the end, or mixed with keep-alives and
\* pongs, the server gets the frames of the messages in order and without a gap: the
\* k-th frame of data it got is the k-th frame of the messages sent (_pumpWriting).
IsData(f) == f.kind \in {"count", "segment"}
DataUpTo(i) == Cardinality({j \in 1..i : IsData(wireOut[j])})
WrittenInOrder ==
    \A i \in DOMAIN wireOut : IsData(wireOut[i]) =>
        /\ DataUpTo(i) \in DOMAIN OutFrames[outSent]
        /\ wireOut[i] = OutFrames[outSent][DataUpTo(i)]

-----------------------------------------------------------------------------
(* Fairness: the queues are served and timers fire.  Of the network: a stream*)
(* opens or fails, delivers what arrived, and again and again takes data or  *)
(* fails; a server that was sent a close frame, or sent one, ends the        *)
(* stream, or it fails.                                                      *)
Drains == OnSpace /\ Len(outputBuffer') < Len(outputBuffer)
Fairness ==
    /\ WF_vars(WorkBlock) /\ WF_vars(DelegateBlock)
    /\ WF_vars(ConnectTimeout) /\ WF_vars(Cleanup)
    /\ WF_vars(StartKeepAlive) /\ WF_vars(NopFires) /\ WF_vars(NopSends)
    /\ WF_vars(HasSpaceAvailable)
    /\ SF_vars(Drains)
    /\ WF_vars(Written("close") /\ (EndEncountered \/ ErrorOccurred))

FairSpec == Spec /\ Fairness

\* A connection attempt ends: the socket is usable or FConnection hears of its end.
AttemptEnds ==
    (stream # "notOpen") ~> ((everConnected /\ readyState = SR_OPEN) \/ end # "none")

\* FConnection always hears of the end of the stream, an error or a close frame.
EndIsReported ==
    (stream \in {"atEnd", "error"} \/ readyState >= SR_CLOSING) ~> (end # "none")

\* A connection that ended keeps no socket and no timer.
Released ==
    (end # "none") ~> [](stream = "closed" /\ keepAlive \notin {"starting", "running"})

-----------------------------------------------------------------------------
(* What a comment says, and the code does not do.                          *)

\* send: "First send the header so the server knows how many segments are
\* forthcoming": the text frames that follow a header are its segments.
TextWritten == SelectSeq(wireOut, LAMBDA f : f.kind \in {"count", "segment", "nop"})
HeaderCountsSegments ==
    \A i \in DOMAIN TextWritten :
        TextWritten[i].kind = "count" =>
            \A j \in 1..TextWritten[i].n :
                i + j \in DOMAIN TextWritten => TextWritten[i + j].kind = "segment"
=============================================================================
