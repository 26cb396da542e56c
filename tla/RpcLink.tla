------------------------------ MODULE RpcLink ------------------------------
(***************************************************************************)
(* A connection to another server of the cluster: an RpcClient (Zookeeper  *)
(* or CrossAgent) with its ClientLink, the iocp client, and the RpcQueue   *)
(* through which what is received gets to the main thread. Completions run *)
(* on the threads of the system's pool; _OnConnect does, too, and calls    *)
(* what the main thread calls. The send buffer alone is behind a lock, and *)
(* CloseLink clears it without.                                            *)
(***************************************************************************)
EXTENDS Integers, Sequences, FiniteSets

CONSTANTS
  IOThreads,  \* threads that run completions
  Handles,    \* what the system names sockets by
  NoSocket,   \* INVALID_SOCKET
  MaxTimers,  \* bound: timers that wait to connect again; more count as that many
  MaxDrops,   \* bound: how often the server closes the connection
  MaxBuf,     \* bound: messages in the send buffer when the game adds one
  Hurried,    \* whether the game may call between two assignments of OnConnect
  Overtaking, \* whether a reply may be handled before its callback is registered
  MaxQueue    \* bound: packets in the queue when the server sends its accept

ASSUME RpcLinkAssumption ==
  /\ NoSocket \notin Handles
  /\ MaxTimers \in Nat \ {0} /\ MaxDrops \in Nat /\ MaxBuf \in Nat /\ MaxQueue \in Nat
  /\ Hurried \in BOOLEAN /\ Overtaking \in BOOLEAN

VARIABLES
  role,      \* which RpcClient this is: "zookeeper" or "cross"
  eState, sock, canWrite, sendBuf,  \* _eState, _sClient, _bCanWrite, _sendBuf
  timers,    \* timers that call Connect
  reqIdx,    \* _auto_req_idx
  response,  \* keys of m_response
  queue,     \* m_queue
  connId,    \* _connId: 0 or what the server gave
  crossKnown,  \* whether m_cross holds an agent
  th,        \* where each thread is, and what it works on
  ops,       \* overlapped operations the system has not completed
  open,      \* handles of open sockets
  up,        \* whether the server is at the other end
  drops,     \* how often it has closed the connection
  asked,     \* keys of the calls that have reached the server
  wire,      \* how many of the messages in _sendBuf have been transmitted
  failed     \* whether Connect has failed at once

linkVars == <<eState, sock, canWrite, sendBuf>>
rpcVars  == <<reqIdx, response, queue, connId, crossKnown>>
netVars  == <<ops, open, up, drops, asked, wire>>
rpcLinkVars == <<role, linkVars, timers, rpcVars, th, netVars, failed>>

Msg(kind, key) == [kind |-> kind, key |-> key]
None == Msg("none", 0)
Idle == [pc |-> "idle", n |-> 0, msg |-> None]
At(t, pc) == th[t].pc = pc
Goto(t, pc) == th' = [th EXCEPT ![t] = IF pc = "idle" THEN Idle ELSE [@ EXCEPT !.pc = pc]]

\* RunClient: the link is closed and connects as a timer would have it do.
RpcInit ==
  /\ role \in {"zookeeper", "cross"}
  /\ eState = "close" /\ sock = NoSocket /\ canWrite = FALSE /\ sendBuf = <<>>
  /\ timers = 1
  /\ reqIdx = 0 /\ response = {} /\ queue = <<>> /\ connId = 0
  /\ crossKnown = (role = "cross")
  /\ th = [t \in IOThreads |-> Idle]
  /\ ops = {} /\ open = {} /\ up = FALSE /\ drops = 0
  /\ asked = {} /\ wire = 0 /\ failed = FALSE

-----------------------------------------------------------------------------
(* Connecting                                                              *)

\* Handlers and the completions of a closed socket take less than the ten seconds
\* of the timer.
Prompt == (\A t \in IOThreads : At(t, "idle")) /\ (\A o \in ops : o.sock # NoSocket)

\* Fault: connects although it has a socket.
ConnectAlways ==
  /\ timers > 0 /\ Prompt
  /\ timers' = timers - 1
  /\ \E h \in Handles \ open :
       /\ sock' = h /\ open' = open \cup {h}
       /\ ops' = ops \cup {[io |-> "connect", sock |-> h, msgs |-> <<>>]}
  /\ eState' = "connecting"
  /\ UNCHANGED <<role, failed, canWrite, sendBuf, rpcVars, th, up, drops, asked, wire>>

\* A timer is due: Connect, which refuses while _sClient is a socket, and ConnectEx.
Connect ==
  /\ timers > 0 /\ Prompt
  /\ timers' = timers - 1
  /\ \/ sock # NoSocket /\ UNCHANGED <<eState, sock, ops, open>>
     \/ /\ sock = NoSocket
        /\ \E h \in Handles \ open :
             /\ sock' = h /\ open' = open \cup {h}
             /\ ops' = ops \cup {[io |-> "connect", sock |-> h, msgs |-> <<>>]}
        /\ eState' = "connecting"
  /\ UNCHANGED <<role, failed, canWrite, sendBuf, rpcVars, th, up, drops, asked, wire>>

\* There is no socket; or an option is refused or the socket cannot be bound, and it
\* stays; or ConnectEx fails, which closes it, and _sClient keeps the handle. No timer
\* is added.
ConnectFails ==
  /\ timers > 0 /\ Prompt /\ sock = NoSocket
  /\ timers' = timers - 1 /\ failed' = TRUE
  /\ \/ UNCHANGED <<sock, open>>
     \/ \E h \in Handles \ open : sock' = h /\ open' \in {open, open \cup {h}}
  /\ UNCHANGED <<role, eState, canWrite, sendBuf, rpcVars, th, ops, up, drops, asked, wire>>

\* CloseLink, on the thread of a completion: the state, the socket, the buffers, the timer.
CloseState(t) ==
  /\ At(t, "close")
  /\ eState' = "close" /\ Goto(t, "closesocket")
  /\ UNCHANGED <<role, failed, sock, canWrite, sendBuf, timers, rpcVars, netVars>>

\* Operations of a closed socket are aborted: they get NoSocket here.
CloseSocket(t) ==
  /\ At(t, "closesocket")
  /\ open' = open \ {sock}
  /\ ops' = {IF o.sock = sock THEN [o EXCEPT !.sock = NoSocket] ELSE o : o \in ops}
  /\ up' = FALSE /\ asked' = {}
  /\ Goto(t, "nosocket")
  /\ UNCHANGED <<role, failed, linkVars, timers, rpcVars, drops, wire>>

\* Fault: _sClient keeps the handle.
ForgetSocketNot(t) ==
  /\ At(t, "nosocket") /\ Goto(t, "clear")
  /\ UNCHANGED <<role, failed, linkVars, timers, rpcVars, netVars>>

ForgetSocket(t) ==
  /\ At(t, "nosocket")
  /\ sock' = NoSocket /\ Goto(t, "clear")
  /\ UNCHANGED <<role, failed, eState, canWrite, sendBuf, timers, rpcVars, netVars>>

\* Fault: the callbacks go with the link.
ClearBuffersAndCalls(t) ==
  /\ At(t, "clear")
  /\ sendBuf' = <<>> /\ wire' = 0 /\ response' = {} /\ Goto(t, "timer")
  /\ UNCHANGED <<role, failed, eState, sock, canWrite, timers, reqIdx, queue, connId,
                 crossKnown, ops, open, up, drops, asked>>

ClearBuffers(t) ==
  /\ At(t, "clear")
  /\ sendBuf' = <<>> /\ wire' = 0 /\ Goto(t, "timer")
  /\ UNCHANGED <<role, failed, eState, sock, canWrite, timers, rpcVars,
                 ops, open, up, drops, asked>>

AddTimer(t) ==
  /\ At(t, "timer")
  /\ timers' = IF timers < MaxTimers THEN timers + 1 ELSE timers
  /\ Goto(t, "idle")
  /\ UNCHANGED <<role, failed, linkVars, rpcVars, netVars>>

CloseLink(t) ==
  CloseState(t) \/ CloseSocket(t) \/ ForgetSocket(t) \/ ClearBuffers(t) \/ AddTimer(t)

-----------------------------------------------------------------------------
(* Completions                                                             *)

\* What DoneIO does next, by the state it finds.
AfterIO(io, res) ==
  CASE res = "error" -> "close"
    [] res = "data" /\ io = "connect" /\ eState = "connecting" -> "onconnect"
    [] res = "data" /\ io = "write" /\ eState = "connected" -> "write"
    [] res = "data" /\ io = "read" /\ eState = "connected" -> "packet"
    [] res = "zero" /\ eState = "connected" -> "close"
    [] OTHER -> "idle"

\* A read gives the reply of the server to a call, the id it has for this client, or
\* no whole packet.
Received ==
  {None} \cup {Msg("reply", k) : k \in asked}
         \cup (IF Len(queue) < MaxQueue THEN {Msg("accept", 1)} ELSE {})

\* The system completes an operation and a thread of its pool runs DoneIO. The
\* server's end may be gone; operations of a closed socket end with an error.
DoneIO(t, io) ==
  \E o \in {p \in ops : p.io = io}, res \in {"error", "zero", "data"} :
    /\ At(t, "idle")
    /\ o.sock = NoSocket => res = "error"
    /\ res = "data" => up \/ o.io = "connect"
    /\ res = "error" => ~up
    /\ res = "zero" => ~up /\ o.io = "read"
    /\ ops' = ops \ {o}
    /\ up' = (up \/ (res = "data" /\ o.io = "connect"))
    /\ \E n \in IF o.io = "write" /\ res = "data" THEN 1 .. Len(o.msgs) ELSE {0},
          m \in IF o.io = "read" /\ res = "data" THEN Received ELSE {None} :
         LET pc   == AfterIO(o.io, res)
             sent == SubSeq(o.msgs, 1, n)
         IN  /\ th' = [th EXCEPT ![t] = IF pc = "idle" THEN Idle
                                        ELSE [pc |-> pc, n |-> n, msg |-> m]]
             /\ wire' = wire + n
             /\ asked' = (IF m.kind = "reply" THEN asked \ {m.key} ELSE asked)
                           \cup {sent[i].key : i \in {j \in 1 .. n : sent[j].kind = "call"}}
    /\ UNCHANGED <<role, failed, linkVars, timers, rpcVars, open, drops>>

\* PostSend, under the lock, of all messages in buf.
PostSend(buf) ==
  /\ sendBuf' = buf
  /\ IF eState # "connected" THEN UNCHANGED <<canWrite, ops>>
     ELSE /\ canWrite' = FALSE
          /\ ops' = IF sock \in open
                    THEN ops \cup {[io |-> "write", sock |-> sock, msgs |-> buf]} ELSE ops

\* Fault: does not wait for the last send.
SendMsgNow(m) == PostSend(Append(sendBuf, m))

\* ClientLink::SendMsg of m.
SendMsg(m) ==
  IF canWrite THEN PostSend(Append(sendBuf, m))
  ELSE sendBuf' = Append(sendBuf, m) /\ UNCHANGED <<canWrite, ops>>

\* Fault: sends the whole buffer again.
OnSend_DoneIOAll(t) ==
  /\ At(t, "write")
  /\ IF sendBuf # <<>> /\ eState = "connected" THEN PostSend(sendBuf)
     ELSE canWrite' = TRUE /\ UNCHANGED <<sendBuf, ops>>
  /\ Goto(t, "idle")
  /\ UNCHANGED <<role, failed, eState, sock, timers, rpcVars, open, up, drops, asked, wire>>

\* Fault: leaves what was added in the meantime for the next message.
OnSend_DoneIOLazy(t) ==
  /\ At(t, "write")
  /\ wire' = IF wire < th[t].n THEN 0 ELSE wire - th[t].n
  /\ canWrite' = TRUE /\ sendBuf' = SubSeq(sendBuf, th[t].n + 1, Len(sendBuf))
  /\ Goto(t, "idle")
  /\ UNCHANGED <<role, failed, eState, sock, timers, rpcVars, ops, open, up, drops, asked>>

\* readerMove empties the buffer when it has less than was transmitted.
OnSend_DoneIO(t) ==
  LET rest == SubSeq(sendBuf, th[t].n + 1, Len(sendBuf))
  IN  /\ At(t, "write")
      /\ wire' = IF wire < th[t].n THEN 0 ELSE wire - th[t].n
      /\ IF rest # <<>> /\ eState = "connected" THEN PostSend(rest)
         ELSE canWrite' = TRUE /\ sendBuf' = rest /\ UNCHANGED ops
      /\ Goto(t, "idle")
      /\ UNCHANGED <<role, failed, eState, sock, timers, rpcVars, open, up, drops, asked>>

\* RecvMsg hands a packet to RpcQueue::Insert.
RecvMsg(t) ==
  /\ At(t, "packet")
  /\ queue' = IF th[t].msg = None THEN queue ELSE Append(queue, th[t].msg)
  /\ Goto(t, "post")
  /\ UNCHANGED <<role, failed, linkVars, timers, reqIdx, response, connId, crossKnown,
                 netVars>>

\* WSARecv after a packet and, as a part of OnConnect, for the first time.
PostRecv(t, pc) ==
  /\ ops' = IF eState = "connected" /\ sock \in open
            THEN ops \cup {[io |-> "read", sock |-> sock, msgs |-> <<>>]} ELSE ops
  /\ Goto(t, pc)
  /\ UNCHANGED <<role, failed, eState, sock, timers, sendBuf, rpcVars,
                 open, up, drops, asked, wire>>

OnRead_DoneIO(t) == At(t, "post") /\ PostRecv(t, "idle") /\ UNCHANGED canWrite

-----------------------------------------------------------------------------
(* OnConnect and _OnConnect, on the thread of the completion               *)

OnConnect(t) ==
  /\ At(t, "onconnect")
  /\ eState' = "connected" /\ Goto(t, "canwrite")
  /\ UNCHANGED <<role, failed, sock, canWrite, sendBuf, timers, rpcVars, netVars>>

OnConnectWrite(t) == At(t, "canwrite") /\ canWrite' = TRUE /\ PostRecv(t, "connid")

\* RpcClient::_OnConnect: the id of the connection, then Rpc_regist; then the
\* Zookeeper makes a call of its own.
SendConnId(t) ==
  /\ At(t, "connid")
  /\ SendMsg(Msg("connid", connId)) /\ Goto(t, "regist")
  /\ UNCHANGED <<role, failed, eState, sock, timers, rpcVars, open, up, drops, asked, wire>>

SendRegist(t) ==
  /\ At(t, "regist")
  /\ SendMsg(Msg("regist", 0))
  /\ Goto(t, IF role = "zookeeper" THEN "call" ELSE "idle")
  /\ UNCHANGED <<role, failed, eState, sock, timers, rpcVars, open, up, drops, asked, wire>>

-----------------------------------------------------------------------------
(* CallRpc and the main thread                                             *)

\* _CallRpc of the Zookeeper takes the next key; the callback is registered after.
CallRpc(t) ==
  /\ At(t, "call")
  /\ reqIdx' = reqIdx + 1
  /\ SendMsg(Msg("call", reqIdx + 1))
  /\ th' = [th EXCEPT ![t].pc = "register", ![t].msg = Msg("call", reqIdx + 1)]
  /\ UNCHANGED <<role, failed, eState, sock, timers, response, queue, connId, crossKnown,
                 open, up, drops, asked, wire>>

RegistResponse(t) ==
  /\ At(t, "register")
  /\ response' = response \cup {th[t].msg.key} /\ Goto(t, "idle")
  /\ UNCHANGED <<role, failed, linkVars, timers, reqIdx, queue, connId, crossKnown, netVars>>

\* The game has something for the cross server, which expects no reply.
GameCalls ==
  /\ role = "cross" /\ Len(sendBuf) < MaxBuf
  /\ Hurried \/ (\A t \in IOThreads : ~At(t, "canwrite"))
  /\ SendMsg(Msg("msg", 0))
  /\ UNCHANGED <<role, failed, eState, sock, timers, rpcVars, th, open, up, drops, asked,
                 wire>>

\* m is the reply to a call that has been sent by a thread that has not registered its
\* callback yet.
BeforeCallback(m) ==
  m.kind = "reply" /\ \E t \in IOThreads : At(t, "register") /\ th[t].msg.key = m.key

\* RpcQueue::Update, _Handle: the server's accept gives the id; a reply goes to its
\* callback, that of the Zookeeper makes the agents of the cross servers. Without a
\* callback an assertion fails (see ReplyExpected) or the reply is lost.
Update ==
  LET m == Head(queue)
  IN  /\ queue # <<>>
      /\ Overtaking \/ ~BeforeCallback(m)
      /\ queue' = Tail(queue)
      /\ connId' = IF m.kind = "accept" THEN m.key ELSE connId
      /\ response' = IF m.kind = "reply" THEN response \ {m.key} ELSE response
      /\ crossKnown' = (crossKnown \/ (m.kind = "reply" /\ m.key \in response))
      /\ UNCHANGED <<role, failed, linkVars, timers, reqIdx, th, netVars>>

-----------------------------------------------------------------------------
\* The server closes the connection, or the network is gone.
Drop ==
  /\ up /\ drops < MaxDrops
  /\ up' = FALSE /\ drops' = drops + 1
  /\ UNCHANGED <<role, failed, linkVars, timers, rpcVars, th, ops, open, asked, wire>>

ThreadStep(t) ==
  \/ CloseLink(t) \/ OnSend_DoneIO(t) \/ RecvMsg(t) \/ OnRead_DoneIO(t)
  \/ OnConnect(t) \/ OnConnectWrite(t) \/ SendConnId(t) \/ SendRegist(t)
  \/ CallRpc(t) \/ RegistResponse(t)

RpcNext ==
  \/ \E t \in IOThreads, io \in {"connect", "read", "write"} : DoneIO(t, io)
  \/ \E t \in IOThreads : ThreadStep(t)
  \/ Connect \/ ConnectFails \/ GameCalls \/ Update \/ Drop

\* The server accepts, at last, a client that keeps trying.
ConnectSucceeds == \E t \in IOThreads : DoneIO(t, "connect") /\ At(t, "onconnect")'

\* Threads run and timers fire; completions are queued for the threads of the pool.
RpcFairness ==
  /\ \A t \in IOThreads : WF_rpcLinkVars(ThreadStep(t))
  /\ \A io \in {"connect", "read", "write"} :
       SF_rpcLinkVars(\E t \in IOThreads : DoneIO(t, io))
  /\ WF_rpcLinkVars(Connect) /\ SF_rpcLinkVars(ConnectSucceeds)

RpcSpec == RpcInit /\ [][RpcNext]_rpcLinkVars /\ RpcFairness

-----------------------------------------------------------------------------
(* Properties                                                              *)

RpcTypeOK ==
  /\ eState \in {"close", "connecting", "connected"}
  /\ sock \in Handles \cup {NoSocket} /\ open \subseteq Handles
  /\ canWrite \in BOOLEAN /\ up \in BOOLEAN
  /\ timers \in 0 .. MaxTimers /\ drops \in 0 .. MaxDrops
  /\ response \subseteq 1 .. MaxDrops + 1 /\ asked \subseteq 1 .. MaxDrops + 1
  /\ connId \in {0, 1}

\* However many completions close the link and however many timers connect it again,
\* no socket is left open but the one in _sClient, and it is the one in use.
OneSocket ==
  /\ RpcTypeOK
  /\ open \subseteq {sock}
  /\ \A o \in ops : o.sock \in {sock, NoSocket}

\* _ovSend, with which the link connects and writes, and _ovRecv serve one operation at
\* a time.
OneOperation ==
  \A o, p \in ops : (o.io = "read") = (p.io = "read") => o = p

\* The messages of a connection are transmitted in order, each once: a buffer that
\* is being sent from its start has nothing in it that has been transmitted.
SendOnce == \A o \in ops : o.io = "write" /\ o.sock # NoSocket => wire = 0

\* RpcQueue::_Handle finds the callback of every reply it takes out of the queue, on
\* whatever thread the call was made and however often the link was lost in between
\* (RpcQueue.h:61).
ReplyExpected ==
  [][queue # <<>> /\ queue' = Tail(queue) /\ Head(queue).kind = "reply"
       => Head(queue).key \in response]_rpcLinkVars

\* A link that was closed is connected again, or a call of the system has failed at
\* once, after which nothing tries again.
Reconnected == (eState = "close") ~> (eState = "connected" \/ failed)

\* What is in the buffer of a connected link leaves it, or is dropped with the link:
\* no completion is missed that would send it.
Flushed == (eState = "connected" /\ sendBuf # <<>>) ~> (sendBuf = <<>>)
=============================================================================
