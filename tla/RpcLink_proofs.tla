--------------------------- MODULE RpcLink_proofs ---------------------------
(***************************************************************************)
(* What RpcLink keeps, for any number of threads, handles, timers and      *)
(* connections. LinkInv needs nothing of when the game calls: it gives the *)
(* one socket. CallInv is for a game that does not call between the two    *)
(* assignments of OnConnect: one operation at a time, every message once.  *)
(* Every reply that is handled has its callback, if besides no reply is    *)
(* handled before the thread that made the call has registered it.         *)
(***************************************************************************)
EXTENDS RpcLink, SequenceTheorems, TLAPS

Steps == {"idle", "close", "closesocket", "nosocket", "clear", "timer", "onconnect",
          "canwrite", "connid", "regist", "call", "register", "write", "packet", "post"}
Messages == [kind : {"none", "reply", "accept", "connid", "regist", "call", "msg"}, key : Nat]
Threads == [pc : Steps, n : Nat, msg : Messages]
Operations == [io : {"connect", "read", "write"}, sock : Handles \cup {NoSocket},
               msgs : Seq(Messages)]

\* Calls in s have keys that were taken.
KeysTaken(s, req) == \A i \in 1 .. Len(s) : s[i].kind = "call" => s[i].key \in 1 .. req

LinkType ==
  /\ role \in {"zookeeper", "cross"}
  /\ eState \in {"close", "connecting", "connected"}
  /\ sock \in Handles \cup {NoSocket} /\ open \subseteq Handles
  /\ canWrite \in BOOLEAN /\ up \in BOOLEAN /\ crossKnown \in BOOLEAN
  /\ timers \in 0 .. MaxTimers /\ drops \in 0 .. MaxDrops
  /\ sendBuf \in Seq(Messages) /\ queue \in Seq(Messages)
  /\ th \in [IOThreads -> Threads]
  /\ ops \subseteq Operations
  /\ wire \in Nat /\ reqIdx \in Nat /\ connId \in {0, 1}

\* Every key comes from _auto_req_idx; the only id the server gives is 1.
Keys ==
  /\ KeysTaken(sendBuf, reqIdx) /\ (\A o \in ops : KeysTaken(o.msgs, reqIdx))
  /\ asked \subseteq 1 .. reqIdx /\ response \subseteq 1 .. reqIdx
  /\ \A t \in IOThreads : At(t, "register") => th[t].msg.key \in 1 .. reqIdx
  /\ \A t \in IOThreads : th[t].msg.kind = "accept" => th[t].msg.key = 1
  /\ \A i \in 1 .. Len(queue) : queue[i].kind = "accept" => queue[i].key = 1

\* Operations are on the socket in _sClient; once it is closed none is.
Closed(t) == th[t].pc \in {"nosocket", "clear"}
Sockets ==
  /\ open \subseteq {sock}
  /\ \A o \in ops : o.sock \in {sock, NoSocket}
  /\ up => sock # NoSocket
  /\ \A t \in IOThreads :
       Closed(t) => open = {} /\ \A o \in ops : o.sock = NoSocket

\* While the system connects nothing else runs; who closes does so because the server
\* is gone.
Connects ==
  /\ \A o \in ops : o.io = "connect" =>
       ops = {o} /\ ~up /\ eState = "connecting" /\ \A t \in IOThreads : At(t, "idle")
  /\ \A t \in IOThreads : th[t].pc \in {"close", "closesocket", "nosocket"} => ~up

\* One thread at most is in OnConnect, and every connection makes one call at most.
ToCall == {"onconnect", "canwrite", "connid", "regist", "call"}
OneCall ==
  /\ \A t, u \in IOThreads : th[t].pc \in ToCall /\ th[u].pc \in ToCall => t = u
  /\ reqIdx <= drops + (IF up THEN 1 ELSE 0)
  /\ \A t \in IOThreads : th[t].pc \in ToCall => reqIdx < drops + (IF up THEN 1 ELSE 0)

LinkInv == LinkType /\ Keys /\ Sockets /\ Connects /\ OneCall

-----------------------------------------------------------------------------
\* Until the first WSARecv nothing but OnConnect runs.
Fresh ==
  /\ \A t \in IOThreads : At(t, "onconnect") => eState = "connecting"
  /\ \A t \in IOThreads : th[t].pc \in {"onconnect", "canwrite"} =>
       ops = {} /\ \A u \in IOThreads \ {t} : At(u, "idle")
  /\ up /\ eState # "connected" => \E t \in IOThreads : At(t, "onconnect")

\* One read or the thread that will post the next; one write or the thread that has
\* its result, and then _bCanWrite is not set.
Reading(t) == th[t].pc \in {"packet", "post"}
OneRead ==
  /\ \A o, p \in ops : o.io = "read" /\ p.io = "read" => o = p
  /\ \A t, u \in IOThreads : Reading(t) /\ Reading(u) => t = u
  /\ \A o \in ops, t \in IOThreads : o.io = "read" => ~Reading(t)
OneWrite ==
  /\ \A o, p \in ops : o.io = "write" /\ p.io = "write" => o = p
  /\ \A t, u \in IOThreads : At(t, "write") /\ At(u, "write") => t = u
  /\ \A o \in ops, t \in IOThreads : o.io = "write" => ~At(t, "write")
  /\ canWrite => (\A o \in ops : o.io # "write") /\ (\A t \in IOThreads : ~At(t, "write"))

\* What has been transmitted of the buffer is what the thread will take out of it, and
\* a send that may still be transmitted is of the beginning of the buffer.
Transmitted ==
  /\ \A t \in IOThreads : At(t, "write") => wire \in {0, th[t].n}
  /\ (\A t \in IOThreads : ~At(t, "write")) => wire = 0
  /\ \A o \in ops : o.io = "write" /\ o.sock # NoSocket =>
       /\ Len(o.msgs) <= Len(sendBuf)
       /\ \A i \in 1 .. Len(o.msgs) : o.msgs[i] = sendBuf[i]

\* The keys of what is in s from first on, of a kind; no two of them have the same.
KeysOf(s, first, kind) == {s[i].key : i \in {j \in first .. Len(s) : s[j].kind = kind}}
NoTwo(s, first, kind) ==
  \A i, j \in first .. Len(s) :
    s[i].kind = kind /\ s[j].kind = kind /\ s[i].key = s[j].key => i = j

\* A call is in one of: the part of the buffer that has not been transmitted, the server,
\* the thread that received the reply, the queue. All that time its callback is there,
\* or the thread that made the call is about to register it.
Got(t)    == At(t, "packet") /\ th[t].msg.kind = "reply"
ToSend    == KeysOf(sendBuf, wire + 1, "call")
AtHand    == {th[t].msg.key : t \in {u \in IOThreads : Got(u)}}
Queued    == KeysOf(queue, 1, "reply")
Expected  == response \cup {th[t].msg.key : t \in {u \in IOThreads : At(u, "register")}}
EachOnce ==
  /\ ToSend \cup asked \cup AtHand \cup Queued \subseteq Expected
  /\ ToSend \cap (asked \cup AtHand \cup Queued) = {}
  /\ asked \cap (AtHand \cup Queued) = {} /\ AtHand \cap Queued = {}
  /\ NoTwo(sendBuf, wire + 1, "call") /\ NoTwo(queue, 1, "reply")

CallInv == Fresh /\ OneRead /\ OneWrite /\ Transmitted /\ EachOnce

-----------------------------------------------------------------------------
(* What the parts of the actions do                                        *)

LEMMA MessageShapes ==
  /\ \A k \in Nat : Msg("reply", k) \in Messages /\ Msg("call", k) \in Messages
  /\ Msg("accept", 1) \in Messages /\ Msg("regist", 0) \in Messages
  /\ Msg("msg", 0) \in Messages /\ None \in Messages /\ Idle \in Threads
  /\ \A k \in Nat : Msg("connid", k) \in Messages
  /\ None.kind = "none" /\ None.key = 0 /\ Idle.pc = "idle" /\ Idle.msg = None
  BY DEF Msg, None, Idle, Messages, Threads, Steps

\* A thread goes to its next step, with what it works on; the others stay.
LEMMA ThreadGoes ==
  ASSUME th \in [IOThreads -> Threads], NEW t \in IOThreads, NEW pc \in Steps, Goto(t, pc)
  PROVE  /\ th' \in [IOThreads -> Threads]
         /\ th'[t].pc = pc
         /\ th'[t].msg = IF pc = "idle" THEN None ELSE th[t].msg
         /\ pc # "idle" => th'[t].n = th[t].n
         /\ \A u \in IOThreads \ {t} : th'[u] = th[u]
<1>1. th[t] \in Threads
  OBVIOUS
<1>2. CASE pc = "idle"
  <2>1. th' = [th EXCEPT ![t] = Idle]
    BY <1>2 DEF Goto
  <2> QED BY <1>2, <2>1, MessageShapes
<1>3. CASE pc # "idle"
  <2> DEFINE e == [th[t] EXCEPT !.pc = pc]
  <2>1. e \in Threads /\ e.pc = pc /\ e.msg = th[t].msg /\ e.n = th[t].n
    BY <1>1 DEF Threads
  <2>2. th' = [th EXCEPT ![t] = e]
    BY <1>3 DEF Goto
  <2> HIDE DEF e
  <2> QED BY <1>3, <2>1, <2>2
<1> QED BY <1>2, <1>3

\* SendMsg adds m to the buffer; if it sends, it sends all of the buffer and takes
\* _bCanWrite.
Posts(buf) ==
  /\ eState = "connected" /\ sock \in open /\ canWrite' = FALSE
  /\ ops' = ops \cup {[io |-> "write", sock |-> sock, msgs |-> buf]}
LEMMA Sends ==
  ASSUME LinkType, NEW m \in Messages, SendMsg(m)
  PROVE  /\ sendBuf' = Append(sendBuf, m) /\ sendBuf' \in Seq(Messages)
         /\ canWrite' \in BOOLEAN /\ (canWrite' => canWrite)
         /\ ops' = ops \/ (canWrite /\ Posts(sendBuf'))
<1>1. Append(sendBuf, m) \in Seq(Messages)
  BY DEF LinkType
<1> DEFINE b == Append(sendBuf, m)
<1>2. sendBuf' = b /\ canWrite \in BOOLEAN
  BY DEF SendMsg, PostSend, LinkType
<1>3. CASE ~canWrite
  BY <1>1, <1>2, <1>3 DEF SendMsg
<1>4. CASE canWrite
  <2>1. PostSend(b)
    BY <1>4 DEF SendMsg
  <2> HIDE DEF b
  <2>2. /\ canWrite' \in BOOLEAN
        /\ ops' = ops \/ Posts(b)
    BY <1>2, <1>4, <2>1 DEF PostSend, Posts, LinkType
  <2> QED BY <1>1, <1>2, <1>4, <2>2 DEF b
<1> QED BY <1>2, <1>3, <1>4

\* CallRpc goes on to register the callback of the key it took.
LEMMA CallGoes ==
  ASSUME LinkType, NEW t \in IOThreads, CallRpc(t)
  PROVE  LET m == Msg("call", reqIdx + 1)
         IN  /\ m \in Messages /\ m.kind = "call" /\ m.key = reqIdx + 1 /\ SendMsg(m)
             /\ th'[t].pc = "register" /\ th'[t].msg = m
             /\ \A u \in IOThreads \ {t} : th'[u] = th[u]
<1> DEFINE m == Msg("call", reqIdx + 1)
<1>1. m \in Messages
  <2>1. reqIdx + 1 \in Nat
    BY DEF LinkType
  <2> QED BY <2>1, MessageShapes
<1>2. m.kind = "call" /\ m.key = reqIdx + 1
  BY DEF Msg
<1>3. SendMsg(m) /\ th' = [th EXCEPT ![t].pc = "register", ![t].msg = m]
  BY DEF CallRpc
<1> HIDE DEF m
<1>4. /\ th'[t].pc = "register" /\ th'[t].msg = m
      /\ \A u \in IOThreads \ {t} : th'[u] = th[u]
  BY <1>3 DEF LinkType, Threads
<1> QED BY <1>1, <1>2, <1>3, <1>4 DEF m

LEMMA OperationShapes ==
  ASSUME NEW b \in Seq(Messages), NEW h \in Handles
  PROVE  /\ [io |-> "write", sock |-> h, msgs |-> b] \in Operations
         /\ [io |-> "read", sock |-> h, msgs |-> <<>>] \in Operations
         /\ [io |-> "connect", sock |-> h, msgs |-> <<>>] \in Operations
  BY DEF Operations

LEMMA PostsOne ==
  ASSUME NEW buf, Posts(buf)
  PROVE  \A o \in ops' : o \in ops \/ (o.io = "write" /\ o.sock = sock /\ o.msgs = buf)
  BY DEF Posts

LEMMA PostsType ==
  ASSUME LinkType, NEW buf \in Seq(Messages), ops' = ops \/ Posts(buf)
  PROVE  ops' \subseteq Operations
<1>1. CASE ops' = ops
  BY <1>1 DEF LinkType
<1>2. CASE Posts(buf)
  <2>1. sock \in Handles
    BY <1>2 DEF Posts, LinkType
  <2>2. [io |-> "write", sock |-> sock, msgs |-> buf] \in Operations
    BY <2>1, OperationShapes
  <2> QED BY <1>2, <2>2 DEF Posts, LinkType
<1> QED BY <1>1, <1>2

\* Where a completion of o with res goes, n of its messages transmitted and m received.
Completes(t, o, res, n, m) ==
  /\ At(t, "idle") /\ o \in ops /\ res \in {"error", "zero", "data"}
  /\ o.sock = NoSocket => res = "error"
  /\ res = "data" => up \/ o.io = "connect"
  /\ res # "data" => ~up
  /\ res = "zero" => o.io = "read"
  /\ n \in 0 .. Len(o.msgs) /\ (n # 0 => o.io = "write" /\ res = "data")
  /\ m \in Messages /\ m \in Received \cup {None} /\ (m # None => o.io = "read" /\ res = "data")
  /\ ops' = ops \ {o} /\ wire' = wire + n
  /\ up' = (up \/ (res = "data" /\ o.io = "connect"))
  /\ asked' = (IF m.kind = "reply" THEN asked \ {m.key} ELSE asked) \cup
                {o.msgs[i].key : i \in {j \in 1 .. n : o.msgs[j].kind = "call"}}
  /\ LET pc == AfterIO(o.io, res)
     IN  /\ pc \in Steps /\ th'[t].pc = pc
         /\ pc # "idle" => th'[t].n = n
         /\ th'[t].msg = IF pc = "idle" THEN None ELSE m
  /\ th' \in [IOThreads -> Threads]
  /\ \A u \in IOThreads \ {t} : th'[u] = th[u]
  /\ UNCHANGED <<role, failed, linkVars, timers, rpcVars, open, drops>>

LEMMA Completion ==
  ASSUME LinkType, Keys, NEW t \in IOThreads, NEW io \in {"connect", "read", "write"},
         DoneIO(t, io)
  PROVE  \E o \in ops, res \in {"error", "zero", "data"}, n \in Nat, m \in Messages :
           Completes(t, o, res, n, m)
<1>1. PICK o \in {p \in ops : p.io = io}, res \in {"error", "zero", "data"} :
        /\ At(t, "idle")
        /\ o.sock = NoSocket => res = "error"
        /\ res = "data" => up \/ o.io = "connect"
        /\ res = "error" => ~up
        /\ res = "zero" => ~up /\ o.io = "read"
        /\ ops' = ops \ {o}
        /\ up' = (up \/ (res = "data" /\ o.io = "connect"))
        /\ \E n \in IF o.io = "write" /\ res = "data" THEN 1 .. Len(o.msgs) ELSE {0},
              m \in IF o.io = "read" /\ res = "data" THEN Received ELSE {None} :
             LET pc   == AfterIO(o.io, res)
                 sent == SubSeq(o.msgs, 1, n)
             IN  /\ th' = [th EXCEPT ![t] = IF pc = "idle" THEN Idle
                                            ELSE [pc |-> pc, n |-> n, msg |-> m]]
                 /\ wire' = wire + n
                 /\ asked' = (IF m.kind = "reply" THEN asked \ {m.key} ELSE asked)
                               \cup {sent[i].key : i \in {j \in 1 .. n : sent[j].kind = "call"}}
        /\ UNCHANGED <<role, failed, linkVars, timers, rpcVars, open, drops>>
  BY DEF DoneIO
<1> DEFINE pc == AfterIO(o.io, res)
<1>2. PICK n \in IF o.io = "write" /\ res = "data" THEN 1 .. Len(o.msgs) ELSE {0},
           m \in IF o.io = "read" /\ res = "data" THEN Received ELSE {None} :
        /\ th' = [th EXCEPT ![t] = IF pc = "idle" THEN Idle
                                   ELSE [pc |-> pc, n |-> n, msg |-> m]]
        /\ wire' = wire + n
        /\ asked' = (IF m.kind = "reply" THEN asked \ {m.key} ELSE asked) \cup
             {SubSeq(o.msgs, 1, n)[i].key :
                i \in {j \in 1 .. n : SubSeq(o.msgs, 1, n)[j].kind = "call"}}
  BY <1>1
<1>3. o \in Operations /\ o.msgs \in Seq(Messages) /\ o.io \in {"connect", "read", "write"}
  BY DEF LinkType, Operations
<1>4. n \in 0 .. Len(o.msgs) /\ (n # 0 => o.io = "write" /\ res = "data")
  BY <1>3
<1>5. Received \subseteq Messages
  BY MessageShapes DEF Received, Keys, LinkType
<1>6. m \in Messages /\ m \in Received \cup {None} /\ (m # None => o.io = "read" /\ res = "data")
  BY <1>5, MessageShapes
<1>7. \A i \in 1 .. n : SubSeq(o.msgs, 1, n)[i] = o.msgs[i]
  BY <1>3, <1>4
<1>8. {SubSeq(o.msgs, 1, n)[i].key : i \in {j \in 1 .. n : SubSeq(o.msgs, 1, n)[j].kind = "call"}}
        = {o.msgs[i].key : i \in {j \in 1 .. n : o.msgs[j].kind = "call"}}
  BY <1>7
<1>9. pc \in Steps
  BY DEF AfterIO, Steps
<1> HIDE DEF pc
<1>10. [pc |-> pc, n |-> n, msg |-> m] \in Threads
  BY <1>4, <1>6, <1>9 DEF Threads
<1>11. /\ th'[t].pc = pc /\ (pc # "idle" => th'[t].n = n)
       /\ th'[t].msg = IF pc = "idle" THEN None ELSE m
       /\ th' \in [IOThreads -> Threads]
       /\ \A u \in IOThreads \ {t} : th'[u] = th[u]
  BY <1>2, <1>10, MessageShapes DEF LinkType
<1>12. Completes(t, o, res, n, m)
  <2>1. asked' = (IF m.kind = "reply" THEN asked \ {m.key} ELSE asked) \cup
                {o.msgs[i].key : i \in {j \in 1 .. n : o.msgs[j].kind = "call"}}
    BY <1>2, <1>8
  <2>2. res # "data" => ~up
    BY <1>1
  <2> QED BY <1>1, <1>2, <1>4, <1>6, <1>9, <1>11, <2>1, <2>2 DEF Completes, pc
<1> QED BY <1>3, <1>4, <1>6, <1>12

-----------------------------------------------------------------------------
(* The parts of LinkInv, one by one                                        *)

\* The steps of RpcNext, for the case distinctions of the lemmas.
LEMMA StepCases ==
  ASSUME [RpcNext]_rpcLinkVars
  PROVE  \/ \E t \in IOThreads, io \in {"connect", "read", "write"} : DoneIO(t, io)
         \/ \E t \in IOThreads :
              \/ CloseState(t) \/ CloseSocket(t) \/ ForgetSocket(t) \/ ClearBuffers(t)
              \/ AddTimer(t) \/ OnSend_DoneIO(t) \/ RecvMsg(t) \/ OnRead_DoneIO(t)
              \/ OnConnect(t) \/ OnConnectWrite(t) \/ SendConnId(t) \/ SendRegist(t)
              \/ CallRpc(t) \/ RegistResponse(t)
         \/ Connect \/ ConnectFails \/ GameCalls \/ Update \/ Drop
         \/ UNCHANGED rpcLinkVars
  BY DEF RpcNext, ThreadStep, CloseLink

\* The thread of a step that only goes on.
LEMMA TypeStep ==
  ASSUME LinkType, Keys, RpcLinkAssumption, [RpcNext]_rpcLinkVars
  PROVE  LinkType'
<1> USE DEF LinkType, linkVars, rpcVars, netVars
<1>1. CASE \E t \in IOThreads, io \in {"connect", "read", "write"} : DoneIO(t, io)
  <2>1. PICK t \in IOThreads, o \in ops, res \in {"error", "zero", "data"}, n \in Nat,
             m \in Messages : Completes(t, o, res, n, m)
    BY <1>1, Completion
  <2> QED BY <2>1 DEF Completes
<1>2. ASSUME NEW t \in IOThreads, CloseState(t) PROVE LinkType'
  BY <1>2, ThreadGoes DEF CloseState, Steps
<1>3. ASSUME NEW t \in IOThreads, CloseSocket(t) PROVE LinkType'
  <2>1. \A o \in ops : [o EXCEPT !.sock = NoSocket] \in Operations
    BY DEF Operations
  <2>2. ops' \subseteq Operations
    BY <1>3, <2>1 DEF CloseSocket
  <2>3. th' \in [IOThreads -> Threads]
    BY <1>3, ThreadGoes DEF CloseSocket, Steps
  <2> QED BY <1>3, <2>2, <2>3 DEF CloseSocket
<1>4. ASSUME NEW t \in IOThreads, ForgetSocket(t) PROVE LinkType'
  BY <1>4, ThreadGoes DEF ForgetSocket, Steps
<1>5. ASSUME NEW t \in IOThreads, ClearBuffers(t) PROVE LinkType'
  BY <1>5, ThreadGoes DEF ClearBuffers, Steps
<1>6. ASSUME NEW t \in IOThreads, AddTimer(t) PROVE LinkType'
  <2>1. th' \in [IOThreads -> Threads]
    BY <1>6, ThreadGoes DEF AddTimer, Steps
  <2> QED BY <1>6, <2>1 DEF AddTimer, RpcLinkAssumption
<1>7. ASSUME NEW t \in IOThreads, OnSend_DoneIO(t) PROVE LinkType'
  <2> DEFINE rest == SubSeq(sendBuf, th[t].n + 1, Len(sendBuf))
  <2>1. th[t].n \in Nat /\ th' \in [IOThreads -> Threads]
    BY <1>7, ThreadGoes DEF OnSend_DoneIO, Steps, Threads
  <2>2. rest \in Seq(Messages)
    BY <2>1
  <2>3. wire' = IF wire < th[t].n THEN 0 ELSE wire - th[t].n
    BY <1>7 DEF OnSend_DoneIO
  <2>4. wire' \in Nat
    BY <2>1, <2>3
  <2>5. /\ IF rest # <<>> /\ eState = "connected" THEN PostSend(rest)
           ELSE canWrite' = TRUE /\ sendBuf' = rest /\ UNCHANGED ops
        /\ UNCHANGED <<role, failed, eState, sock, timers, rpcVars, open, up, drops, asked>>
    BY <1>7 DEF OnSend_DoneIO
  <2> HIDE DEF rest
  <2>6. /\ sendBuf' = rest /\ canWrite' \in BOOLEAN
        /\ ops' = ops \/ Posts(rest)
    BY <2>5 DEF PostSend, Posts
  <2>7. ops' \subseteq Operations
    BY <2>2, <2>6, PostsType
  <2> QED BY <2>1, <2>2, <2>4, <2>5, <2>6, <2>7
<1>8. ASSUME NEW t \in IOThreads, RecvMsg(t) PROVE LinkType'
  <2>1. th[t].msg \in Messages /\ th' \in [IOThreads -> Threads]
    BY <1>8, ThreadGoes DEF RecvMsg, Steps, Threads
  <2>2. queue' \in Seq(Messages)
    BY <1>8, <2>1 DEF RecvMsg
  <2> QED BY <1>8, <2>1, <2>2 DEF RecvMsg
<1>9. ASSUME NEW t \in IOThreads, OnRead_DoneIO(t) PROVE LinkType'
  <2>1. th' \in [IOThreads -> Threads]
    BY <1>9, ThreadGoes DEF OnRead_DoneIO, PostRecv, Steps
  <2>2. ops' \subseteq Operations
    BY <1>9, OperationShapes DEF OnRead_DoneIO, PostRecv
  <2> QED BY <1>9, <2>1, <2>2 DEF OnRead_DoneIO, PostRecv
<1>10. ASSUME NEW t \in IOThreads, OnConnect(t) PROVE LinkType'
  BY <1>10, ThreadGoes DEF OnConnect, Steps
<1>11. ASSUME NEW t \in IOThreads, OnConnectWrite(t) PROVE LinkType'
  <2>1. th' \in [IOThreads -> Threads]
    BY <1>11, ThreadGoes DEF OnConnectWrite, PostRecv, Steps
  <2>2. ops' \subseteq Operations
    BY <1>11, OperationShapes DEF OnConnectWrite, PostRecv
  <2> QED BY <1>11, <2>1, <2>2 DEF OnConnectWrite, PostRecv
<1>12. ASSUME NEW m \in Messages, SendMsg(m)
       PROVE  /\ sendBuf' \in Seq(Messages) /\ canWrite' \in BOOLEAN
              /\ ops' \subseteq Operations
  <2>1. /\ sendBuf' \in Seq(Messages) /\ canWrite' \in BOOLEAN
        /\ ops' = ops \/ Posts(sendBuf')
    BY <1>12, Sends
  <2> QED BY <2>1, PostsType
<1>13. ASSUME NEW t \in IOThreads, SendConnId(t) PROVE LinkType'
  <2>1. th' \in [IOThreads -> Threads]
    BY <1>13, ThreadGoes DEF SendConnId, Steps
  <2>2. Msg("connid", connId) \in Messages
    BY MessageShapes
  <2> QED BY <1>12, <1>13, <2>1, <2>2 DEF SendConnId
<1>14. ASSUME NEW t \in IOThreads, SendRegist(t) PROVE LinkType'
  <2>1. th' \in [IOThreads -> Threads]
    BY <1>14, ThreadGoes DEF SendRegist, Steps
  <2> QED BY <1>12, <1>14, <2>1, MessageShapes DEF SendRegist
<1>15. ASSUME NEW t \in IOThreads, CallRpc(t) PROVE LinkType'
  <2>1. Msg("call", reqIdx + 1) \in Messages
    BY MessageShapes
  <2> DEFINE e == [th[t] EXCEPT !.pc = "register", !.msg = Msg("call", reqIdx + 1)]
  <2>2. e \in Threads
    BY <2>1 DEF Threads, Steps
  <2>3. th' = [th EXCEPT ![t] = e]
    BY <1>15 DEF CallRpc
  <2> HIDE DEF e
  <2>4. th' \in [IOThreads -> Threads]
    BY <2>2, <2>3
  <2> QED BY <1>12, <1>15, <2>1, <2>4 DEF CallRpc
<1>16. ASSUME NEW t \in IOThreads, RegistResponse(t) PROVE LinkType'
  BY <1>16, ThreadGoes DEF RegistResponse, Steps
<1>17. CASE Connect
  <2>1. timers' \in 0 .. MaxTimers
    BY <1>17 DEF Connect, RpcLinkAssumption
  <2>2. CASE UNCHANGED <<eState, sock, ops, open>>
    BY <1>17, <2>1, <2>2 DEF Connect
  <2>3. CASE ~UNCHANGED <<eState, sock, ops, open>>
    <3>1. PICK h \in Handles \ open :
            /\ sock' = h /\ open' = open \cup {h} /\ eState' = "connecting"
            /\ ops' = ops \cup {[io |-> "connect", sock |-> h, msgs |-> <<>>]}
      BY <1>17, <2>3 DEF Connect
    <3>2. [io |-> "connect", sock |-> h, msgs |-> <<>>] \in Operations
      BY OperationShapes
    <3> QED BY <1>17, <2>1, <3>1, <3>2 DEF Connect
  <2> QED BY <2>2, <2>3
<1>18. CASE ConnectFails
  BY <1>18 DEF ConnectFails, RpcLinkAssumption
<1>19. CASE GameCalls
  BY <1>12, <1>19, MessageShapes DEF GameCalls
<1>20. CASE Update
  <2>1. queue' \in Seq(Messages) /\ Head(queue) \in Messages
    BY <1>20 DEF Update
  <2>2. connId' \in {0, 1}
    BY <1>20, ElementOfSeq DEF Update, Keys
  <2> QED BY <1>20, <2>1, <2>2 DEF Update
<1>21. CASE Drop
  <2>1. drops' \in 0 .. MaxDrops
    BY <1>21 DEF Drop, RpcLinkAssumption
  <2> QED BY <1>21, <2>1 DEF Drop
<1>22. CASE UNCHANGED rpcLinkVars
  BY <1>22 DEF rpcLinkVars
<1> QED BY <1>1, <1>2, <1>3, <1>4, <1>5, <1>6, <1>7, <1>8, <1>9, <1>10, <1>11, <1>13, <1>14,
           <1>15, <1>16, <1>17, <1>18, <1>19, <1>20, <1>21, <1>22, StepCases

LEMMA KeysAppended ==
  ASSUME NEW s \in Seq(Messages), NEW m \in Messages, NEW req \in Nat, NEW more \in Nat,
         KeysTaken(s, req), req <= more, m.kind = "call" => m.key \in 1 .. more
  PROVE  KeysTaken(s, more) /\ KeysTaken(Append(s, m), more)
<1>1. KeysTaken(s, more)
  BY DEF KeysTaken
<1>2. ASSUME NEW i \in 1 .. Len(Append(s, m)), Append(s, m)[i].kind = "call"
      PROVE  Append(s, m)[i].key \in 1 .. more
  BY <1>1, <1>2 DEF KeysTaken
<1> QED BY <1>1, <1>2 DEF KeysTaken

\* The parts of Keys that are about the threads, when one goes on.
ThreadKeys ==
  /\ \A t \in IOThreads : At(t, "register") => th[t].msg.key \in 1 .. reqIdx
  /\ \A t \in IOThreads : th[t].msg.kind = "accept" => th[t].msg.key = 1
LEMMA GoesWithKeys ==
  ASSUME LinkType, Keys, NEW t \in IOThreads, NEW pc \in Steps \ {"register"}, Goto(t, pc),
         reqIdx' = reqIdx
  PROVE  ThreadKeys'
  BY ThreadGoes, MessageShapes DEF LinkType, Keys, ThreadKeys, At

\* What is left of a sequence after its first n entries.
LEMMA RestEntries ==
  ASSUME NEW S, NEW s \in Seq(S), NEW n \in Nat
  PROVE  LET rest == SubSeq(s, n + 1, Len(s))
         IN  \A i \in 1 .. Len(rest) : \E j \in 1 .. Len(s) : rest[i] = s[j]
<1> DEFINE rest == SubSeq(s, n + 1, Len(s))
<1>1. Len(s) \in Nat /\ \A i \in n + 1 .. Len(s) : s[i] \in S
  OBVIOUS
<1>2. /\ Len(rest) = IF n + 1 <= Len(s) THEN Len(s) - (n + 1) + 1 ELSE 0
      /\ \A i \in 1 .. Len(s) - (n + 1) + 1 : rest[i] = s[n + 1 + i - 1]
  BY <1>1, n + 1 \in Int, Len(s) \in Int, SubSeqProperties
<1> HIDE DEF rest
<1>3. ASSUME NEW i \in 1 .. Len(rest) PROVE \E j \in 1 .. Len(s) : rest[i] = s[j]
  <2>1. i \in 1 .. Len(s) - (n + 1) + 1 /\ n + 1 + i - 1 \in 1 .. Len(s)
    BY <1>1, <1>2
  <2> QED BY <1>2, <2>1
<1> QED BY <1>3 DEF rest

LEMMA KeysStep ==
  ASSUME LinkType, Keys, RpcLinkAssumption, [RpcNext]_rpcLinkVars
  PROVE  Keys'
<1> USE DEF linkVars, rpcVars, netVars
<1>0. sendBuf \in Seq(Messages) /\ reqIdx \in Nat /\ ThreadKeys /\ th \in [IOThreads -> Threads]
  BY DEF LinkType, Keys, ThreadKeys
<1>1. CASE \E t \in IOThreads, io \in {"connect", "read", "write"} : DoneIO(t, io)
  <2>1. PICK t \in IOThreads, o \in ops, res \in {"error", "zero", "data"}, n \in Nat,
             m \in Messages : Completes(t, o, res, n, m)
    BY <1>1, Completion
  <2>2. /\ th'[t].pc # "register" /\ (\A u \in IOThreads \ {t} : th'[u] = th[u])
        /\ th'[t].msg \in {None, m}
    BY <2>1 DEF Completes, AfterIO
  <2>3. m.kind = "accept" => m.key = 1
    BY <2>1 DEF Completes, Received, Msg, None
  <2>4. ThreadKeys'
    BY <1>0, <2>1, <2>2, <2>3, MessageShapes DEF ThreadKeys, At, Completes
  <2>5. o.msgs \in Seq(Messages)
    BY DEF LinkType, Operations
  <2>6. asked' \subseteq 1 .. reqIdx
    <3>1. \A i \in 1 .. n : o.msgs[i].kind = "call" => o.msgs[i].key \in 1 .. reqIdx
      <4>1. KeysTaken(o.msgs, reqIdx) /\ n \in 0 .. Len(o.msgs)
        BY <2>1 DEF Completes, Keys
      <4> QED BY <2>5, <4>1 DEF KeysTaken
    <3>2. asked' = (IF m.kind = "reply" THEN asked \ {m.key} ELSE asked) \cup
                {o.msgs[i].key : i \in {j \in 1 .. n : o.msgs[j].kind = "call"}}
      BY <2>1 DEF Completes
    <3> QED BY <3>1, <3>2 DEF Keys
  <2> QED BY <2>1, <2>4, <2>6 DEF Keys, ThreadKeys, Completes
<1>2. ASSUME NEW t \in IOThreads, CloseState(t) PROVE Keys'
  BY <1>2, GoesWithKeys DEF CloseState, Steps, Keys, ThreadKeys
<1>3. ASSUME NEW t \in IOThreads, CloseSocket(t) PROVE Keys'
  <2>1. ThreadKeys'
    BY <1>3, GoesWithKeys DEF CloseSocket, Steps
  <2>2. \A o \in ops : [o EXCEPT !.sock = NoSocket].msgs = o.msgs
    BY DEF LinkType, Operations
  <2>3. \A o \in ops' : \E p \in ops : o.msgs = p.msgs
    BY <1>3, <2>2 DEF CloseSocket
  <2>4. \A o \in ops' : KeysTaken(o.msgs, reqIdx)
    BY <2>3 DEF Keys
  <2> QED BY <1>3, <2>1, <2>4 DEF CloseSocket, Keys, ThreadKeys
<1>4. ASSUME NEW t \in IOThreads, ForgetSocket(t) PROVE Keys'
  BY <1>4, GoesWithKeys DEF ForgetSocket, Steps, Keys, ThreadKeys
<1>5. ASSUME NEW t \in IOThreads, ClearBuffers(t) PROVE Keys'
  BY <1>5, GoesWithKeys DEF ClearBuffers, Steps, Keys, ThreadKeys, KeysTaken
<1>6. ASSUME NEW t \in IOThreads, AddTimer(t) PROVE Keys'
  BY <1>6, GoesWithKeys DEF AddTimer, Steps, Keys, ThreadKeys
<1>7. ASSUME NEW t \in IOThreads, OnSend_DoneIO(t) PROVE Keys'
  <2> DEFINE rest == SubSeq(sendBuf, th[t].n + 1, Len(sendBuf))
  <2>1. th[t].n \in Nat
    BY DEF LinkType, Threads
  <2>2. \A i \in 1 .. Len(rest) : \E j \in 1 .. Len(sendBuf) : rest[i] = sendBuf[j]
    BY <1>0, <2>1, RestEntries
  <2>3. KeysTaken(rest, reqIdx)
    BY <2>2 DEF KeysTaken, Keys
  <2>4. sendBuf' = rest /\ (ops' = ops \/ Posts(rest))
    <3>1. \/ PostSend(rest)
          \/ sendBuf' = rest /\ UNCHANGED ops
      BY <1>7 DEF OnSend_DoneIO
    <3> HIDE DEF rest
    <3> QED BY <3>1 DEF PostSend, Posts
  <2>5. ThreadKeys'
    BY <1>7, GoesWithKeys DEF OnSend_DoneIO, Steps
  <2> HIDE DEF rest
  <2>6. \A o \in ops' : KeysTaken(o.msgs, reqIdx)
    BY <2>3, <2>4 DEF Posts, Keys
  <2> QED BY <1>7, <2>3, <2>4, <2>5, <2>6 DEF OnSend_DoneIO, Keys, ThreadKeys
<1>8. ASSUME NEW t \in IOThreads, RecvMsg(t) PROVE Keys'
  <2>1. ThreadKeys' /\ th[t].msg \in Messages
    BY <1>8, GoesWithKeys DEF RecvMsg, Steps, LinkType, Threads
  <2>2. \A i \in 1 .. Len(queue') : queue'[i].kind = "accept" => queue'[i].key = 1
    BY <1>8, <2>1 DEF RecvMsg, Keys, LinkType
  <2> QED BY <1>8, <2>1, <2>2 DEF RecvMsg, Keys, ThreadKeys
<1>9. ASSUME NEW t \in IOThreads, OnRead_DoneIO(t) PROVE Keys'
  BY <1>9, GoesWithKeys DEF OnRead_DoneIO, PostRecv, Steps, Keys, ThreadKeys, KeysTaken
<1>10. ASSUME NEW t \in IOThreads, OnConnect(t) PROVE Keys'
  BY <1>10, GoesWithKeys DEF OnConnect, Steps, Keys, ThreadKeys
<1>11. ASSUME NEW t \in IOThreads, OnConnectWrite(t) PROVE Keys'
  BY <1>11, GoesWithKeys DEF OnConnectWrite, PostRecv, Steps, Keys, ThreadKeys, KeysTaken
<1>12. ASSUME NEW m \in Messages, SendMsg(m), NEW more \in Nat, reqIdx <= more,
              m.kind = "call" => m.key \in 1 .. more
       PROVE  KeysTaken(sendBuf', more) /\ \A o \in ops' : KeysTaken(o.msgs, more)
  <2>1. sendBuf' = Append(sendBuf, m) /\ (ops' = ops \/ Posts(sendBuf'))
    BY <1>12, Sends
  <2>2. KeysTaken(sendBuf', more)
    BY <1>0, <1>12, <2>1, KeysAppended DEF Keys
  <2>3. \A o \in ops : KeysTaken(o.msgs, more)
    BY <1>0, <1>12 DEF Keys, KeysTaken
  <2>4. \A o \in ops' : o \in ops \/ o.msgs = sendBuf'
    BY <2>1 DEF Posts
  <2> QED BY <2>2, <2>3, <2>4
<1>13. ASSUME NEW t \in IOThreads, SendConnId(t) PROVE Keys'
  <2>1. Msg("connid", connId) \in Messages /\ Msg("connid", connId).kind = "connid"
    BY MessageShapes DEF LinkType, Msg
  <2>2. KeysTaken(sendBuf', reqIdx) /\ \A o \in ops' : KeysTaken(o.msgs, reqIdx)
    BY <1>0, <1>12, <1>13, <2>1 DEF SendConnId
  <2>3. ThreadKeys'
    BY <1>13, GoesWithKeys DEF SendConnId, Steps
  <2> QED BY <1>13, <2>2, <2>3 DEF SendConnId, Keys, ThreadKeys
<1>14. ASSUME NEW t \in IOThreads, SendRegist(t) PROVE Keys'
  <2>1. Msg("regist", 0) \in Messages /\ Msg("regist", 0).kind = "regist"
    BY MessageShapes DEF Msg
  <2>2. KeysTaken(sendBuf', reqIdx) /\ \A o \in ops' : KeysTaken(o.msgs, reqIdx)
    BY <1>0, <1>12, <1>14, <2>1 DEF SendRegist
  <2>3. ThreadKeys'
    BY <1>14, GoesWithKeys DEF SendRegist, Steps
  <2> QED BY <1>14, <2>2, <2>3 DEF SendRegist, Keys, ThreadKeys
<1>15. ASSUME NEW t \in IOThreads, CallRpc(t) PROVE Keys'
  <2> DEFINE m == Msg("call", reqIdx + 1)
  <2>1. /\ m \in Messages /\ m.kind = "call" /\ m.key = reqIdx + 1 /\ SendMsg(m)
        /\ th'[t].msg = m /\ \A u \in IOThreads \ {t} : th'[u] = th[u]
    BY <1>15, CallGoes
  <2>2. reqIdx' = reqIdx + 1
    BY <1>15 DEF CallRpc
  <2> HIDE DEF m
  <2>4. KeysTaken(sendBuf', reqIdx') /\ \A o \in ops' : KeysTaken(o.msgs, reqIdx')
    BY <1>0, <1>12, <2>1, <2>2
  <2>6. ThreadKeys'
    BY <1>0, <2>1, <2>2 DEF ThreadKeys, At
  <2> QED BY <1>0, <1>15, <2>2, <2>4, <2>6 DEF CallRpc, Keys, ThreadKeys
<1>16. ASSUME NEW t \in IOThreads, RegistResponse(t) PROVE Keys'
  BY <1>16, GoesWithKeys DEF RegistResponse, Steps, Keys, ThreadKeys
<1>17. CASE Connect
  <2>1. \A o \in ops' : o \in ops \/ o.msgs = <<>>
    BY <1>17 DEF Connect
  <2> QED BY <1>17, <2>1 DEF Connect, Keys, KeysTaken, At
<1>18. CASE ConnectFails
  BY <1>18 DEF ConnectFails, Keys, At
<1>19. CASE GameCalls
  <2>1. Msg("msg", 0) \in Messages /\ Msg("msg", 0).kind = "msg"
    BY MessageShapes DEF Msg
  <2>2. KeysTaken(sendBuf', reqIdx) /\ \A o \in ops' : KeysTaken(o.msgs, reqIdx)
    BY <1>0, <1>12, <1>19, <2>1 DEF GameCalls
  <2> QED BY <1>19, <2>2 DEF GameCalls, Keys, At
<1>20. CASE Update
  <2>1. queue \in Seq(Messages) /\ queue # <<>> /\ queue' = Tail(queue)
    BY <1>20 DEF Update, LinkType
  <2>2. \A i \in 1 .. Len(queue') : i + 1 \in 1 .. Len(queue) /\ queue'[i] = queue[i + 1]
    BY <2>1
  <2>3. \A i \in 1 .. Len(queue') : queue'[i].kind = "accept" => queue'[i].key = 1
    BY <2>2 DEF Keys
  <2> QED BY <1>20, <2>3 DEF Update, Keys, At
<1>21. CASE Drop
  BY <1>21 DEF Drop, Keys, At
<1>22. CASE UNCHANGED rpcLinkVars
  BY <1>22 DEF rpcLinkVars, Keys, At
<1> QED BY <1>1, <1>2, <1>3, <1>4, <1>5, <1>6, <1>7, <1>8, <1>9, <1>10, <1>11, <1>13, <1>14,
           <1>15, <1>16, <1>17, <1>18, <1>19, <1>20, <1>21, <1>22, StepCases

\* What a step adds to the operations is on an open socket.
LEMMA SocketsStep ==
  ASSUME LinkInv, RpcLinkAssumption, [RpcNext]_rpcLinkVars
  PROVE  Sockets'
<1> USE DEF linkVars, rpcVars, netVars, Sockets
<1>0. LinkType /\ Keys /\ Sockets /\ Connects /\ th \in [IOThreads -> Threads]
  BY DEF LinkInv, LinkType
<1>1. CASE \E t \in IOThreads, io \in {"connect", "read", "write"} : DoneIO(t, io)
  <2>1. PICK t \in IOThreads, o \in ops, res \in {"error", "zero", "data"}, n \in Nat,
             m \in Messages : Completes(t, o, res, n, m)
    BY <1>0, <1>1, Completion
  <2>2. th'[t].pc \notin {"nosocket", "clear"} /\ \A u \in IOThreads \ {t} : th'[u] = th[u]
    BY <2>1 DEF Completes, AfterIO
  <2>3. ops' \subseteq ops /\ (up' => up \/ o.sock # NoSocket) /\ UNCHANGED <<sock, open>>
    BY <2>1 DEF Completes
  <2> QED BY <1>0, <2>2, <2>3 DEF At, Closed
<1>2. ASSUME NEW t \in IOThreads, CloseState(t) PROVE Sockets'
  BY <1>0, <1>2, ThreadGoes DEF CloseState, Steps, At, Closed
<1>3. ASSUME NEW t \in IOThreads, CloseSocket(t) PROVE Sockets'
  <2>1. \A o \in ops : [o EXCEPT !.sock = NoSocket].sock = NoSocket
    BY <1>0 DEF LinkType, Operations
  <2>2. \A o \in ops' : o.sock = NoSocket
    BY <1>0, <1>3, <2>1 DEF CloseSocket
  <2> QED BY <1>0, <1>3, <2>2, ThreadGoes DEF CloseSocket, Steps, At, Closed
<1>4. ASSUME NEW t \in IOThreads, ForgetSocket(t) PROVE Sockets'
  <2>1. ~up /\ open = {} /\ \A o \in ops : o.sock = NoSocket
    BY <1>0, <1>4 DEF ForgetSocket, At, Closed, Connects
  <2> QED BY <1>0, <1>4, <2>1, ThreadGoes DEF ForgetSocket, Steps, At, Closed
<1>5. ASSUME NEW t \in IOThreads, ClearBuffers(t) PROVE Sockets'
  BY <1>0, <1>5, ThreadGoes DEF ClearBuffers, Steps, At, Closed
<1>6. ASSUME NEW t \in IOThreads, AddTimer(t) PROVE Sockets'
  BY <1>0, <1>6, ThreadGoes DEF AddTimer, Steps, At, Closed
<1>7. ASSUME NEW t \in IOThreads, NEW pc \in Steps \ {"nosocket", "clear"},
              Goto(t, pc) \/ UNCHANGED th, NEW buf, ops' = ops \/ Posts(buf),
              UNCHANGED <<sock, open, up>>
      PROVE  Sockets'
  <2>1. \A u \in IOThreads : Closed(u)' => Closed(u)
    BY <1>0, <1>7, ThreadGoes DEF At, Closed
  <2>2. \A o \in ops' : o \in ops \/ (o.sock = sock /\ sock \in open)
    BY <1>7 DEF Posts
  <2>3. open # {} => ops' = ops \/ \A u \in IOThreads : ~Closed(u)
    BY <1>0
  <2> QED BY <1>0, <1>7, <2>1, <2>2
<1>8. ASSUME NEW t \in IOThreads, OnSend_DoneIO(t) PROVE Sockets'
  <2> DEFINE rest == SubSeq(sendBuf, th[t].n + 1, Len(sendBuf))
  <2>1. PostSend(rest) \/ UNCHANGED ops
    BY <1>8 DEF OnSend_DoneIO
  <2> HIDE DEF rest
  <2>2. ops' = ops \/ Posts(rest)
    BY <2>1 DEF PostSend, Posts
  <2> QED BY <1>7, <1>8, <2>2 DEF OnSend_DoneIO, Steps
<1>9. ASSUME NEW t \in IOThreads, RecvMsg(t) PROVE Sockets'
  BY <1>7, <1>9 DEF RecvMsg, Steps
<1>10. ASSUME NEW t \in IOThreads, NEW pc \in {"idle", "connid"}, PostRecv(t, pc) PROVE Sockets'
  <2>1. \A u \in IOThreads : Closed(u)' => Closed(u)
    BY <1>0, <1>10, ThreadGoes DEF At, Closed, PostRecv, Steps
  <2>2. \A o \in ops' : o \in ops \/ (o.sock = sock /\ sock \in open)
    BY <1>10 DEF PostRecv
  <2> QED BY <1>0, <1>10, <2>1, <2>2 DEF PostRecv
<1>11. ASSUME NEW t \in IOThreads, OnConnect(t) PROVE Sockets'
  BY <1>7, <1>11 DEF OnConnect, Steps
<1>12. ASSUME NEW m \in Messages, SendMsg(m) PROVE ops' = ops \/ Posts(sendBuf')
  BY <1>0, <1>12, Sends
<1>13. ASSUME NEW t \in IOThreads, SendConnId(t) PROVE Sockets'
  <2>1. Msg("connid", connId) \in Messages
    BY <1>0, MessageShapes DEF LinkType
  <2>2. ops' = ops \/ Posts(sendBuf')
    BY <1>12, <1>13, <2>1 DEF SendConnId
  <2> QED BY <1>7, <1>13, <2>2 DEF SendConnId, Steps
<1>14. ASSUME NEW t \in IOThreads, SendRegist(t) PROVE Sockets'
  <2>1. ops' = ops \/ Posts(sendBuf')
    BY <1>12, <1>14, MessageShapes DEF SendRegist
  <2> QED BY <1>7, <1>14, <2>1 DEF SendRegist, Steps
<1>15. ASSUME NEW t \in IOThreads, CallRpc(t) PROVE Sockets'
  <2>1. /\ Msg("call", reqIdx + 1) \in Messages /\ SendMsg(Msg("call", reqIdx + 1))
        /\ th'[t].pc = "register" /\ \A u \in IOThreads \ {t} : th'[u] = th[u]
    BY <1>0, <1>15, CallGoes
  <2>3. ops' = ops \/ Posts(sendBuf')
    BY <1>12, <2>1
  <2>6. \A o \in ops' : o \in ops \/ (o.sock = sock /\ sock \in open)
    BY <2>3 DEF Posts
  <2> QED BY <1>0, <1>15, <2>1, <2>6 DEF CallRpc, At, Closed
<1>16. ASSUME NEW t \in IOThreads, RegistResponse(t) PROVE Sockets'
  BY <1>7, <1>16 DEF RegistResponse, Steps
<1>17. CASE Connect \/ ConnectFails
  <2>1. CASE sock # NoSocket
    BY <1>0, <1>17, <2>1 DEF Connect, ConnectFails, At, Closed
  <2>2. CASE sock = NoSocket
    <3>1. open = {} /\ ops = {} /\ ~up /\ \A u \in IOThreads : At(u, "idle")
      BY <1>0, <1>17, <2>2 DEF Connect, ConnectFails, Prompt, LinkType, RpcLinkAssumption
    <3>2. PICK h \in Handles \cup {NoSocket} :
            /\ sock' = h /\ open' \subseteq {h} /\ UNCHANGED <<up, th>>
            /\ ops' \subseteq {[io |-> "connect", sock |-> h, msgs |-> <<>>]}
      BY <1>17, <2>2, <3>1 DEF Connect, ConnectFails
    <3> QED BY <3>1, <3>2 DEF At, Closed
  <2> QED BY <2>1, <2>2
<1>18. CASE GameCalls
  <2>1. ops' = ops \/ Posts(sendBuf')
    BY <1>12, <1>18, MessageShapes DEF GameCalls
  <2>2. \A o \in ops' : o \in ops \/ (o.sock = sock /\ sock \in open)
    BY <2>1 DEF Posts
  <2> QED BY <1>0, <1>18, <2>2 DEF GameCalls, At, Closed
<1>19. CASE Update \/ Drop
  BY <1>0, <1>19 DEF Update, Drop, At, Closed
<1>20. CASE UNCHANGED rpcLinkVars
  BY <1>0, <1>20 DEF rpcLinkVars, At, Closed
<1> QED BY <1>1, <1>2, <1>3, <1>4, <1>5, <1>6, <1>8, <1>9, <1>10, <1>11, <1>13, <1>14, <1>15,
           <1>16, <1>17, <1>18, <1>19, <1>20, StepCases DEF OnRead_DoneIO, OnConnectWrite

\* Nothing but the step of a timer starts an operation that connects.
LEMMA NoConnectAdded ==
  ASSUME LinkInv, NEW t \in IOThreads, ~At(t, "idle"),
         \A o \in ops' : o.io = "connect" => \E p \in ops : p.io = "connect"
  PROVE  \A o \in ops' : o.io # "connect"
  BY DEF LinkInv, Connects

LEMMA ConnectsStep ==
  ASSUME LinkInv, RpcLinkAssumption, [RpcNext]_rpcLinkVars
  PROVE  Connects'
<1> USE DEF linkVars, rpcVars, netVars
<1> DEFINE Closes(u) == th[u].pc \in {"close", "closesocket", "nosocket"}
<1>0. /\ LinkType /\ Keys /\ Sockets /\ Connects /\ th \in [IOThreads -> Threads]
      /\ \A u \in IOThreads : Closes(u) => ~up
  BY DEF LinkInv, LinkType, Connects
<1> HIDE DEF Closes
<1>1. CASE \E t \in IOThreads, io \in {"connect", "read", "write"} : DoneIO(t, io)
  <2>1. PICK t \in IOThreads, o \in ops, res \in {"error", "zero", "data"}, n \in Nat,
             m \in Messages : Completes(t, o, res, n, m)
    BY <1>0, <1>1, Completion
  <2>2. \A p \in ops' : p.io # "connect"
    BY <1>0, <2>1 DEF Completes, Connects
  <2>3. /\ th'[t].pc \in {"close", "closesocket", "nosocket"} => res # "data"
        /\ \A u \in IOThreads \ {t} : th'[u] = th[u]
    BY <2>1 DEF Completes, AfterIO
  <2>4. res # "data" => ~up'
    BY <2>1 DEF Completes
  <2>5. up' => up \/ o.io = "connect"
    BY <2>1 DEF Completes
  <2>6. o.io = "connect" => \A u \in IOThreads : ~Closes(u)
    BY <1>0 DEF Connects, At, Closes
  <2>7. ASSUME NEW u \in IOThreads \ {t}, Closes(u) PROVE ~up'
    BY <1>0, <2>5, <2>6, <2>7
  <2> QED BY <2>2, <2>3, <2>4, <2>7 DEF Connects, Closes
<1>2. ASSUME NEW t \in IOThreads, ~At(t, "idle"), NEW pc \in Steps, Goto(t, pc),
             pc \in {"close", "closesocket", "nosocket"} => Closes(t),
             up' => up,
             \A o \in ops' : o.io = "connect" => \E p \in ops : p.io = "connect"
      PROVE  Connects'
  <2>1. \A u \in IOThreads : Closes(u)' => Closes(u)
    BY <1>0, <1>2, ThreadGoes DEF Closes
  <2>2. \A o \in ops' : o.io # "connect"
    BY <1>2, NoConnectAdded
  <2> QED BY <1>0, <1>2, <2>1, <2>2 DEF Connects, Closes
<1>3. ASSUME NEW t \in IOThreads,
             CloseState(t) \/ CloseSocket(t) \/ ForgetSocket(t) \/ ClearBuffers(t) \/ AddTimer(t)
      PROVE  Connects'
  <2>1. \A o \in ops : [o EXCEPT !.sock = NoSocket].io = o.io
    BY <1>0 DEF LinkType, Operations
  <2>2. \A o \in ops' : o.io = "connect" => \E p \in ops : p.io = "connect"
    <3>1. CASE CloseSocket(t)
      BY <2>1, <3>1 DEF CloseSocket
    <3>2. CASE ~CloseSocket(t)
      BY <1>3, <3>2 DEF CloseState, ForgetSocket, ClearBuffers, AddTimer
    <3> QED BY <3>1, <3>2
  <2>3. CASE CloseState(t)
    BY <1>2, <2>2, <2>3 DEF CloseState, Steps, At, Closes
  <2>4. CASE CloseSocket(t)
    BY <1>2, <2>2, <2>4 DEF CloseSocket, Steps, At, Closes
  <2>5. CASE ForgetSocket(t)
    BY <1>2, <2>2, <2>5 DEF ForgetSocket, Steps, At
  <2>6. CASE ClearBuffers(t)
    BY <1>2, <2>2, <2>6 DEF ClearBuffers, Steps, At
  <2>7. CASE AddTimer(t)
    BY <1>2, <2>2, <2>7 DEF AddTimer, Steps, At
  <2> QED BY <1>3, <2>3, <2>4, <2>5, <2>6, <2>7
<1>4. ASSUME NEW t \in IOThreads,
             \/ OnSend_DoneIO(t) \/ RecvMsg(t) \/ OnRead_DoneIO(t) \/ OnConnect(t)
             \/ OnConnectWrite(t) \/ RegistResponse(t)
      PROVE  Connects'
  <2>1. \A o \in ops' : o.io = "connect" => o \in ops
    <3>1. CASE OnSend_DoneIO(t)
      BY <3>1 DEF OnSend_DoneIO, PostSend
    <3>2. CASE OnRead_DoneIO(t) \/ OnConnectWrite(t)
      BY <3>2 DEF OnRead_DoneIO, OnConnectWrite, PostRecv
    <3>3. CASE RecvMsg(t) \/ OnConnect(t) \/ RegistResponse(t)
      BY <3>3 DEF RecvMsg, OnConnect, RegistResponse
    <3> QED BY <1>4, <3>1, <3>2, <3>3
  <2>2. PICK pc \in {"idle", "post", "canwrite", "connid"} :
          Goto(t, pc) /\ ~At(t, "idle") /\ up' = up
    BY <1>4 DEF OnSend_DoneIO, RecvMsg, OnRead_DoneIO, OnConnect, OnConnectWrite,
                RegistResponse, PostRecv, At
  <2> QED BY <1>2, <2>1, <2>2 DEF Steps
<1>5. ASSUME NEW m \in Messages, SendMsg(m)
      PROVE  /\ \A o \in ops' : o.io = "connect" => o \in ops
             /\ eState # "connected" => ops' = ops
  <2>1. ops' = ops \/ Posts(sendBuf')
    BY <1>0, <1>5, Sends
  <2> QED BY <2>1 DEF Posts
<1>6. ASSUME NEW t \in IOThreads, SendConnId(t) \/ SendRegist(t) PROVE Connects'
  <2>1. Msg("connid", connId) \in Messages /\ Msg("regist", 0) \in Messages
    BY <1>0, MessageShapes DEF LinkType
  <2>2. \A o \in ops' : o.io = "connect" => o \in ops
    BY <1>5, <1>6, <2>1 DEF SendConnId, SendRegist
  <2>3. PICK pc \in {"idle", "regist", "call"} : Goto(t, pc) /\ ~At(t, "idle") /\ up' = up
    BY <1>6 DEF SendConnId, SendRegist, At
  <2> QED BY <1>2, <2>2, <2>3 DEF Steps
<1>7. ASSUME NEW t \in IOThreads, CallRpc(t) PROVE Connects'
  <2>1. /\ Msg("call", reqIdx + 1) \in Messages /\ SendMsg(Msg("call", reqIdx + 1))
        /\ th'[t].pc = "register" /\ \A u \in IOThreads \ {t} : th'[u] = th[u]
    BY <1>0, <1>7, CallGoes
  <2>2. ~At(t, "idle") /\ up' = up
    BY <1>7 DEF CallRpc, At
  <2>3. \A o \in ops' : o.io # "connect"
    BY <1>5, <2>1, <2>2, NoConnectAdded
  <2>4. \A u \in IOThreads : Closes(u)' => Closes(u)
    BY <2>1 DEF Closes
  <2> QED BY <1>0, <2>2, <2>3, <2>4 DEF Connects, Closes
<1>8. CASE Connect \/ ConnectFails
  <2>1. CASE sock # NoSocket
    BY <1>0, <1>8, <2>1 DEF Connect, ConnectFails, At, Connects
  <2>2. CASE sock = NoSocket
    <3>1. open = {} /\ ops = {} /\ ~up /\ \A u \in IOThreads : At(u, "idle")
      BY <1>0, <1>8, <2>2
         DEF Connect, ConnectFails, Prompt, LinkType, RpcLinkAssumption, Sockets
    <3>2. PICK h \in Handles \cup {NoSocket} :
            /\ UNCHANGED <<up, th>>
            /\ \/ ops' = {}
               \/ /\ ops' = {[io |-> "connect", sock |-> h, msgs |-> <<>>]}
                  /\ eState' = "connecting"
      BY <1>8, <2>2, <3>1 DEF Connect, ConnectFails
    <3> QED BY <3>1, <3>2 DEF At, Connects
  <2> QED BY <2>1, <2>2
<1>9. CASE GameCalls
  <2>1. /\ \A o \in ops' : o.io = "connect" => o \in ops
        /\ eState # "connected" => ops' = ops
    BY <1>5, <1>9, MessageShapes DEF GameCalls
  <2> QED BY <1>0, <1>9, <2>1 DEF GameCalls, Connects, At
<1>10. CASE Update \/ Drop
  BY <1>0, <1>10 DEF Update, Drop, At, Connects
<1>11. CASE UNCHANGED rpcLinkVars
  BY <1>0, <1>11 DEF rpcLinkVars, At, Connects
<1> QED BY <1>1, <1>3, <1>4, <1>6, <1>7, <1>8, <1>9, <1>10, <1>11, StepCases

\* Keys are taken by the thread in OnConnect, of which there is one for a connection;
\* a connection ends when the server closes it.
LEMMA OneCallStep ==
  ASSUME LinkInv, RpcLinkAssumption, [RpcNext]_rpcLinkVars
  PROVE  OneCall'
<1> USE DEF linkVars, rpcVars, netVars
<1> DEFINE Calls(u) == th[u].pc \in ToCall
           Connections == drops + (IF up THEN 1 ELSE 0)
<1>0. /\ LinkType /\ Keys /\ Sockets /\ Connects /\ th \in [IOThreads -> Threads]
      /\ reqIdx \in Nat /\ drops \in Nat /\ up \in BOOLEAN
      /\ \A t, u \in IOThreads : Calls(t) /\ Calls(u) => t = u
      /\ reqIdx <= Connections
      /\ \A t \in IOThreads : Calls(t) => reqIdx < Connections
  BY DEF LinkInv, LinkType, OneCall
<1> HIDE DEF Calls
<1>a. ASSUME reqIdx' = reqIdx, Connections' = Connections,
             \A u \in IOThreads : Calls(u)' => Calls(u)
      PROVE  OneCall'
  BY <1>0, <1>a DEF OneCall, Calls
<1>1. CASE \E t \in IOThreads, io \in {"connect", "read", "write"} : DoneIO(t, io)
  <2>1. PICK t \in IOThreads, o \in ops, res \in {"error", "zero", "data"}, n \in Nat,
             m \in Messages : Completes(t, o, res, n, m)
    BY <1>0, <1>1, Completion
  <2>2. /\ Calls(t)' => res = "data" /\ o.io = "connect"
        /\ \A u \in IOThreads \ {t} : Calls(u)' => Calls(u)
    BY <2>1 DEF Completes, AfterIO, ToCall, Calls
  <2>3. /\ reqIdx' = reqIdx /\ drops' = drops
        /\ up' = (up \/ (res = "data" /\ o.io = "connect"))
    BY <2>1 DEF Completes
  <2>4. o.io = "connect" => ~up /\ \A u \in IOThreads : ~Calls(u)
    BY <1>0 DEF Connects, At, Calls, ToCall
  <2>5. /\ \A u, v \in IOThreads : Calls(u)' /\ Calls(v)' => u = v
        /\ reqIdx' <= Connections'
        /\ \A u \in IOThreads : Calls(u)' => reqIdx' < Connections'
    <3>1. CASE res = "data" /\ o.io = "connect"
      <4>a. ~up /\ up' /\ drops' = drops
        BY <2>3, <2>4, <3>1
      <4>b. Connections = drops + 0 /\ Connections' = drops + 1
        BY <4>a
      <4>1. reqIdx' = reqIdx /\ reqIdx <= drops /\ Connections' = drops + 1
        BY <1>0, <2>3, <4>b
      <4>2. reqIdx' < Connections'
        BY <1>0, <4>1
      <4>3. \A u \in IOThreads : Calls(u)' => u = t
        BY <2>2, <2>4, <3>1
      <4> QED BY <1>0, <4>1, <4>2, <4>3
    <3>2. CASE ~(res = "data" /\ o.io = "connect")
      BY <1>0, <2>2, <2>3, <3>2
    <3> QED BY <3>1, <3>2
  <2> QED BY <2>5 DEF OneCall, Calls
<1>2. ASSUME NEW t \in IOThreads, NEW pc \in Steps, Goto(t, pc), pc \in ToCall => Calls(t),
             reqIdx' = reqIdx, Connections' = Connections
      PROVE  OneCall'
  BY <1>0, <1>2, <1>a, ThreadGoes DEF Calls
<1>3. ASSUME NEW t \in IOThreads,
             \/ CloseState(t) \/ ForgetSocket(t) \/ ClearBuffers(t) \/ AddTimer(t)
             \/ OnSend_DoneIO(t) \/ RecvMsg(t) \/ RegistResponse(t)
      PROVE  OneCall'
  <2>1. PICK pc \in {"closesocket", "clear", "timer", "idle", "post"} :
          Goto(t, pc) /\ reqIdx' = reqIdx /\ Connections' = Connections
    BY <1>3 DEF CloseState, ForgetSocket, ClearBuffers, AddTimer, OnSend_DoneIO, RecvMsg,
                RegistResponse
  <2> QED BY <1>2, <2>1 DEF Steps, ToCall
<1>4. ASSUME NEW t \in IOThreads, CloseSocket(t) PROVE OneCall'
  <2>1. ~up /\ ~up' /\ drops' = drops /\ reqIdx' = reqIdx
    BY <1>0, <1>4 DEF CloseSocket, Connects, At
  <2>2. Connections' = Connections
    BY <2>1
  <2> QED BY <1>2, <1>4, <2>1, <2>2 DEF CloseSocket, Steps, ToCall
<1>5. ASSUME NEW t \in IOThreads,
             OnConnect(t) \/ OnConnectWrite(t) \/ SendConnId(t) \/ SendRegist(t)
             \/ OnRead_DoneIO(t)
      PROVE  OneCall'
  <2>1. PICK pc \in {"canwrite", "connid", "regist", "call", "idle"} :
          /\ Goto(t, pc) /\ reqIdx' = reqIdx /\ Connections' = Connections
          /\ pc # "idle" => Calls(t)
    BY <1>5 DEF OnConnect, OnConnectWrite, SendConnId, SendRegist, OnRead_DoneIO, PostRecv,
                Calls, At, ToCall
  <2> QED BY <1>2, <2>1 DEF Steps, ToCall
<1>6. ASSUME NEW t \in IOThreads, CallRpc(t) PROVE OneCall'
  <2>1. th'[t].pc = "register" /\ \A u \in IOThreads \ {t} : th'[u] = th[u]
    BY <1>0, <1>6, CallGoes
  <2>2. Calls(t) /\ ~Calls(t)' /\ \A u \in IOThreads \ {t} : Calls(u)' => Calls(u)
    BY <1>6, <2>1 DEF Calls, ToCall, CallRpc, At
  <2>3. \A u \in IOThreads : ~Calls(u)'
    BY <1>0, <2>2
  <2>4. reqIdx' = reqIdx + 1 /\ Connections' = Connections
    BY <1>6 DEF CallRpc
  <2>5. reqIdx' <= Connections'
    BY <1>0, <2>2, <2>4
  <2> QED BY <2>3, <2>5 DEF OneCall, Calls
<1>7. CASE Connect \/ ConnectFails \/ GameCalls \/ Update \/ UNCHANGED rpcLinkVars
  <2>1. UNCHANGED <<th, reqIdx, up, drops>>
    BY <1>7 DEF Connect, ConnectFails, GameCalls, Update, rpcLinkVars
  <2> QED BY <1>a, <2>1 DEF Calls
<1>8. CASE Drop
  <2>1. UNCHANGED <<th, reqIdx>> /\ up /\ ~up' /\ drops' = drops + 1
    BY <1>8 DEF Drop
  <2>2. Connections' = Connections
    BY <1>0, <2>1
  <2> QED BY <1>a, <2>1, <2>2 DEF Calls
<1> QED BY <1>1, <1>3, <1>4, <1>5, <1>6, <1>7, <1>8, StepCases

-----------------------------------------------------------------------------
(* One socket                                                              *)

\* The types, the sockets and what belongs to a connection, in every state.
THEOREM RpcLinkInvariant == RpcSpec => []LinkInv
<1>1. RpcInit => LinkInv
  <2>1. RpcInit => LinkType
    <3> SUFFICES ASSUME RpcInit PROVE LinkType
      OBVIOUS
    <3>1. timers \in 0 .. MaxTimers /\ drops \in 0 .. MaxDrops
      BY RpcLinkAssumption DEF RpcInit, RpcLinkAssumption
    <3>2. crossKnown \in BOOLEAN
      BY DEF RpcInit
    <3>3. th \in [IOThreads -> Threads]
      BY MessageShapes DEF RpcInit
    <3>4. sendBuf \in Seq(Messages) /\ queue \in Seq(Messages)
      BY DEF RpcInit
    <3>5. /\ role \in {"zookeeper", "cross"}
          /\ eState \in {"close", "connecting", "connected"}
          /\ sock \in Handles \cup {NoSocket} /\ open \subseteq Handles
          /\ canWrite \in BOOLEAN /\ up \in BOOLEAN
          /\ ops \subseteq Operations /\ wire \in Nat /\ reqIdx \in Nat
          /\ connId \in {0, 1}
      BY DEF RpcInit
    <3> QED BY <3>1, <3>2, <3>3, <3>4, <3>5 DEF LinkType
  <2>2. RpcInit => \A t \in IOThreads : At(t, "idle") /\ th[t].msg = None
    BY MessageShapes DEF RpcInit, At
  <2>3. RpcInit => Keys
    BY <2>2, MessageShapes DEF RpcInit, Keys, KeysTaken, At
  <2>4. RpcInit => Sockets /\ Connects
    BY <2>2 DEF RpcInit, Sockets, Connects, Closed, At
  <2>5. RpcInit => OneCall
    BY <2>2 DEF RpcInit, OneCall, ToCall, At
  <2> QED BY <2>1, <2>3, <2>4, <2>5 DEF LinkInv
<1>2. LinkInv /\ [RpcNext]_rpcLinkVars => LinkInv'
  <2> SUFFICES ASSUME LinkInv, [RpcNext]_rpcLinkVars PROVE LinkInv'
    OBVIOUS
  <2>1. LinkType' /\ Keys'
    BY RpcLinkAssumption, TypeStep, KeysStep DEF LinkInv
  <2>2. Sockets' /\ Connects' /\ OneCall'
    BY RpcLinkAssumption, SocketsStep, ConnectsStep, OneCallStep
  <2> QED BY <2>1, <2>2 DEF LinkInv
<1> QED BY <1>1, <1>2, PTL DEF RpcSpec

\* However many completions close the link and however many timers connect it again, no
\* socket is left open but the one in _sClient, and it is the one in use.
THEOREM RpcOneSocket == RpcSpec => []OneSocket
<1>1. LinkInv => OneSocket
  <2> SUFFICES ASSUME LinkInv PROVE OneSocket
    OBVIOUS
  <2>1. 1 .. reqIdx \subseteq 1 .. MaxDrops + 1
    BY RpcLinkAssumption DEF LinkInv, LinkType, OneCall, RpcLinkAssumption
  <2>2. RpcTypeOK
    BY <2>1 DEF LinkInv, LinkType, Keys, RpcTypeOK
  <2> QED BY <2>2 DEF OneSocket, LinkInv, Sockets
<1> QED BY <1>1, RpcLinkInvariant, PTL

-----------------------------------------------------------------------------
(* The parts of CallInv, for a game that does not hurry                    *)

\* From which steps a thread goes to which.
Moves ==
  {<<"close", "closesocket">>, <<"closesocket", "nosocket">>, <<"nosocket", "clear">>,
   <<"clear", "timer">>, <<"timer", "idle">>, <<"write", "idle">>, <<"packet", "post">>,
   <<"post", "idle">>, <<"onconnect", "canwrite">>, <<"canwrite", "connid">>,
   <<"connid", "regist">>, <<"regist", "call">>, <<"regist", "idle">>,
   <<"call", "register">>, <<"register", "idle">>}

LEMMA ThreadMoves ==
  ASSUME LinkInv, NEW t \in IOThreads, ThreadStep(t)
  PROVE  /\ <<th[t].pc, th'[t].pc>> \in Moves
         /\ ~At(t, "idle") /\ (\A u \in IOThreads \ {t} : th'[u] = th[u])
         /\ th'[t].pc \notin {"idle", "register"} => th'[t].msg = th[t].msg
<1>0. th \in [IOThreads -> Threads] /\ LinkType
  BY DEF LinkInv, LinkType
<1>1. ASSUME NEW pc \in Steps, Goto(t, pc), <<th[t].pc, pc>> \in Moves
      PROVE  /\ <<th[t].pc, th'[t].pc>> \in Moves
             /\ ~At(t, "idle") /\ (\A u \in IOThreads \ {t} : th'[u] = th[u])
             /\ th'[t].pc \notin {"idle", "register"} => th'[t].msg = th[t].msg
  <2>1. th[t].pc # "idle"
    BY <1>1 DEF Moves
  <2> QED BY <1>0, <1>1, <2>1, ThreadGoes DEF At
<1>2. CASE \/ CloseState(t) \/ CloseSocket(t) \/ ForgetSocket(t) \/ ClearBuffers(t)
           \/ AddTimer(t)
  <2>1. PICK pc \in Steps : Goto(t, pc) /\ <<th[t].pc, pc>> \in Moves
    BY <1>2 DEF CloseState, CloseSocket, ForgetSocket, ClearBuffers, AddTimer, Steps, At, Moves
  <2> QED BY <1>1, <2>1
<1>3. CASE \/ OnSend_DoneIO(t) \/ RecvMsg(t) \/ OnRead_DoneIO(t) \/ RegistResponse(t)
  <2>1. PICK pc \in Steps : Goto(t, pc) /\ <<th[t].pc, pc>> \in Moves
    BY <1>3 DEF OnSend_DoneIO, RecvMsg, OnRead_DoneIO, PostRecv, RegistResponse, Steps, At, Moves
  <2> QED BY <1>1, <2>1
<1>4. CASE OnConnect(t) \/ OnConnectWrite(t) \/ SendConnId(t) \/ SendRegist(t)
  <2>1. PICK pc \in Steps : Goto(t, pc) /\ <<th[t].pc, pc>> \in Moves
    BY <1>4 DEF OnConnect, OnConnectWrite, PostRecv, SendConnId, SendRegist, Steps, At, Moves
  <2> QED BY <1>1, <2>1
<1>5. CASE CallRpc(t)
  <2>1. th'[t].pc = "register" /\ \A u \in IOThreads \ {t} : th'[u] = th[u]
    BY <1>0, <1>5, CallGoes
  <2> QED BY <1>5, <2>1 DEF CallRpc, At, Moves
<1> QED BY <1>2, <1>3, <1>4, <1>5 DEF ThreadStep, CloseLink

\* Every SendMsg of the model is of a message, and there is no other way to add an
\* operation than to send, to receive, or to connect.
LEMMA SendSteps ==
  ASSUME LinkInv
  PROVE  /\ \A t \in IOThreads : SendConnId(t) => SendMsg(Msg("connid", connId))
         /\ \A t \in IOThreads : SendRegist(t) => SendMsg(Msg("regist", 0))
         /\ \A t \in IOThreads : CallRpc(t) => SendMsg(Msg("call", reqIdx + 1))
         /\ GameCalls => SendMsg(Msg("msg", 0))
         /\ Msg("connid", connId) \in Messages /\ Msg("regist", 0) \in Messages
         /\ Msg("call", reqIdx + 1) \in Messages /\ Msg("msg", 0) \in Messages
<1>1. connId \in Nat /\ reqIdx + 1 \in Nat
  BY DEF LinkInv, LinkType
<1>2. /\ Msg("connid", connId) \in Messages /\ Msg("regist", 0) \in Messages
      /\ Msg("call", reqIdx + 1) \in Messages /\ Msg("msg", 0) \in Messages
  BY <1>1, MessageShapes
<1> QED BY <1>2 DEF SendConnId, SendRegist, CallRpc, GameCalls

Sending(t) == SendConnId(t) \/ SendRegist(t) \/ CallRpc(t)
LEMMA ThreadAdds ==
  ASSUME LinkInv, NEW t \in IOThreads, ThreadStep(t), ~CloseSocket(t)
  PROVE  \/ ops' = ops
         \/ /\ th[t].pc \in {"canwrite", "post"}
            /\ ops' = ops \cup {[io |-> "read", sock |-> sock, msgs |-> <<>>]}
         \/ At(t, "write") /\ Posts(sendBuf')
         \/ Sending(t) /\ canWrite /\ Posts(sendBuf')
<1>1. CASE OnSend_DoneIO(t)
  <2> DEFINE rest == SubSeq(sendBuf, th[t].n + 1, Len(sendBuf))
  <2>1. At(t, "write") /\ (PostSend(rest) \/ UNCHANGED ops)
    BY <1>1 DEF OnSend_DoneIO
  <2> HIDE DEF rest
  <2> QED BY <2>1 DEF PostSend, Posts
<1>2. CASE OnRead_DoneIO(t) \/ OnConnectWrite(t)
  BY <1>2 DEF OnRead_DoneIO, OnConnectWrite, PostRecv, At
<1>3. CASE Sending(t)
  <2>1. PICK m \in Messages : SendMsg(m)
    BY <1>3, SendSteps DEF Sending
  <2> QED BY <1>3, <2>1, Sends DEF LinkInv
<1>4. CASE \/ CloseState(t) \/ ForgetSocket(t) \/ ClearBuffers(t) \/ AddTimer(t)
           \/ RecvMsg(t) \/ OnConnect(t) \/ RegistResponse(t)
  BY <1>4 DEF CloseState, ForgetSocket, ClearBuffers, AddTimer, RecvMsg, OnConnect,
              RegistResponse, netVars
<1> QED BY <1>1, <1>2, <1>3, <1>4 DEF ThreadStep, CloseLink, Sending

\* The other steps leave the threads alone.
LEMMA OtherSteps ==
  ASSUME LinkInv, RpcLinkAssumption,
         Connect \/ ConnectFails \/ GameCalls \/ Update \/ Drop \/ UNCHANGED rpcLinkVars
  PROVE  /\ th' = th /\ (up' => up)
         /\ \/ ops' = ops
            \/ GameCalls /\ canWrite /\ Posts(sendBuf')
            \/ \A o \in ops' : o.io = "connect"
         /\ eState' # eState => ~up
<1>1. CASE Connect \/ ConnectFails
  <2>1. sock = NoSocket => ops = {} /\ ~up
    BY <1>1 DEF Connect, ConnectFails, Prompt, LinkInv, LinkType, RpcLinkAssumption, Sockets
  <2>2. CASE sock # NoSocket
    BY <1>1, <2>2 DEF Connect, ConnectFails
  <2>3. CASE sock = NoSocket
    <3>1. \A o \in ops' : o.io = "connect"
      BY <1>1, <2>1, <2>3 DEF Connect, ConnectFails
    <3> QED BY <1>1, <2>1, <2>3, <3>1 DEF Connect, ConnectFails
  <2> QED BY <2>2, <2>3
<1>2. CASE GameCalls
  <2>1. PICK m \in Messages : SendMsg(m)
    BY <1>2, SendSteps
  <2>2. ops' = ops \/ (canWrite /\ Posts(sendBuf'))
    BY <2>1, Sends DEF LinkInv
  <2> QED BY <1>2, <2>2 DEF GameCalls
<1>3. CASE Update \/ Drop \/ UNCHANGED rpcLinkVars
  BY <1>3 DEF Update, Drop, rpcLinkVars, netVars, linkVars
<1> QED BY <1>1, <1>2, <1>3

\* RpcNext by the three kinds of its steps.
LEMMA StepKinds ==
  ASSUME [RpcNext]_rpcLinkVars
  PROVE  \/ \E t \in IOThreads, io \in {"connect", "read", "write"} : DoneIO(t, io)
         \/ \E t \in IOThreads : ThreadStep(t)
         \/ Connect \/ ConnectFails \/ GameCalls \/ Update \/ Drop \/ UNCHANGED rpcLinkVars
  BY DEF RpcNext

LEMMA FreshStep ==
  ASSUME LinkInv, Fresh, RpcLinkAssumption, ~Hurried, [RpcNext]_rpcLinkVars
  PROVE  Fresh'
<1> DEFINE Begins(u) == th[u].pc \in {"onconnect", "canwrite"}
<1>0. LinkType /\ Keys /\ Connects /\ Sockets
  BY DEF LinkInv
<1>1. CASE \E t \in IOThreads, io \in {"connect", "read", "write"} : DoneIO(t, io)
  <2>1. PICK t \in IOThreads, o \in ops, res \in {"error", "zero", "data"}, n \in Nat,
             m \in Messages : Completes(t, o, res, n, m)
    BY <1>0, <1>1, Completion
  <2>2. /\ th'[t].pc # "canwrite" /\ (th'[t].pc = "onconnect" => o.io = "connect")
        /\ o.io = "connect" /\ res = "data" /\ eState = "connecting" => th'[t].pc = "onconnect"
        /\ \A u \in IOThreads \ {t} : th'[u] = th[u]
    BY <2>1 DEF Completes, AfterIO
  <2>3. \A u \in IOThreads : ~Begins(u)
    BY <2>1 DEF Fresh
  <2>4. o.io = "connect" => /\ eState = "connecting" /\ ops' = {}
                            /\ \A u \in IOThreads \ {t} : At(u, "idle")'
    BY <1>0, <2>1, <2>2 DEF Connects, At, Completes
  <2>5. eState' = eState /\ (up' => up \/ (o.io = "connect" /\ res = "data"))
    BY <2>1 DEF Completes, linkVars
  <2>6. ~(up /\ eState # "connected")
    BY <2>3 DEF Fresh, At
  <2> QED BY <2>2, <2>3, <2>4, <2>5, <2>6 DEF Fresh, At
<1>2. ASSUME NEW t \in IOThreads, ThreadStep(t) PROVE Fresh'
  <2>1. /\ <<th[t].pc, th'[t].pc>> \in Moves
        /\ ~At(t, "idle") /\ (\A u \in IOThreads \ {t} : th'[u] = th[u])
    BY <1>2, ThreadMoves
  <2>2. \A u \in IOThreads \ {t} : ~Begins(u)
    BY <2>1 DEF Fresh
  <2>3. th'[t].pc # "onconnect" /\ (th'[t].pc = "canwrite" => At(t, "onconnect"))
    BY <2>1 DEF Moves, At
  <2>4. At(t, "onconnect") => OnConnect(t)
    BY <1>2 DEF At, ThreadStep, CloseLink, CloseState, CloseSocket, ForgetSocket, ClearBuffers,
                AddTimer, OnSend_DoneIO, RecvMsg, OnRead_DoneIO, OnConnectWrite, SendConnId,
                SendRegist, CallRpc, RegistResponse
  <2>5. OnConnect(t) => ops' = ops /\ eState' = "connected"
    BY DEF OnConnect, netVars
  <2>6. CloseState(t) => ~up
    BY <1>0 DEF CloseState, Connects, At
  <2>7. OnConnect(t) \/ CloseState(t) \/ eState' = eState
    BY <1>2 DEF ThreadStep, CloseLink, CloseSocket, ForgetSocket, ClearBuffers, linkVars,
                AddTimer, OnSend_DoneIO, RecvMsg, OnRead_DoneIO, OnConnectWrite, SendConnId,
                SendRegist, CallRpc, RegistResponse, PostRecv
  <2>8. up' => up
    BY <1>2 DEF ThreadStep, CloseLink, CloseSocket, ForgetSocket, ClearBuffers, netVars,
                AddTimer, OnSend_DoneIO, RecvMsg, OnRead_DoneIO, OnConnectWrite, SendConnId,
                SendRegist, CallRpc, RegistResponse, PostRecv, OnConnect, CloseState
  <2>9. up /\ eState # "connected" => At(t, "onconnect")
    BY <2>2 DEF Fresh, At
  <2> QED BY <2>1, <2>2, <2>3, <2>4, <2>5, <2>6, <2>7, <2>8, <2>9 DEF Fresh, At
<1>3. CASE Connect \/ ConnectFails \/ GameCalls \/ Update \/ Drop \/ UNCHANGED rpcLinkVars
  <2>1. th' = th /\ (up' => up) /\ (eState' # eState => ~up)
    BY <1>3, OtherSteps
  <2>2. ASSUME NEW t \in IOThreads, Begins(t) PROVE ops' = ops /\ eState' = eState
    <3>1. CASE Connect \/ ConnectFails
      BY <2>2, <3>1 DEF Connect, ConnectFails, Prompt, At
    <3>2. CASE GameCalls
      <4>1. At(t, "onconnect") /\ eState # "connected"
        BY <2>2, <3>2 DEF GameCalls, Fresh, At
      <4> QED BY <3>2, <4>1 DEF GameCalls, SendMsg, PostSend
    <3>3. CASE Update \/ Drop \/ UNCHANGED rpcLinkVars
      BY <3>3 DEF Update, Drop, rpcLinkVars, netVars, linkVars
    <3> QED BY <1>3, <3>1, <3>2, <3>3
  <2> QED BY <2>1, <2>2 DEF Fresh, At
<1> QED BY <1>1, <1>2, <1>3, StepKinds

\* The operations of a socket that is closed stay, aborted, what they were.
LEMMA Aborts ==
  ASSUME LinkInv, NEW t \in IOThreads, CloseSocket(t)
  PROVE  \E f \in [ops -> Operations] :
           /\ ops' = {f[o] : o \in ops}
           /\ \A o \in ops : f[o].io = o.io /\ f[o].sock = NoSocket
<1> DEFINE f == [o \in ops |-> IF o.sock = sock THEN [o EXCEPT !.sock = NoSocket] ELSE o]
<1>1. \A o \in ops : /\ [o EXCEPT !.sock = NoSocket] \in Operations
                     /\ [o EXCEPT !.sock = NoSocket].io = o.io
                     /\ [o EXCEPT !.sock = NoSocket].sock = NoSocket
  BY DEF LinkInv, LinkType, Operations
<1>2. \A o \in ops : o \in Operations /\ o.sock \in {sock, NoSocket}
  BY DEF LinkInv, LinkType, Sockets
<1>3. f \in [ops -> Operations] /\ \A o \in ops : f[o].io = o.io /\ f[o].sock = NoSocket
  BY <1>1, <1>2
<1>4. ops' = {f[o] : o \in ops}
  BY DEF CloseSocket
<1> HIDE DEF f
<1> QED BY <1>3, <1>4

LEMMA OneReadStep ==
  ASSUME LinkInv, Fresh, OneRead, RpcLinkAssumption, ~Hurried, [RpcNext]_rpcLinkVars
  PROVE  OneRead'
<1>0. LinkType /\ Keys /\ Connects /\ Sockets
  BY DEF LinkInv
<1>1. CASE \E t \in IOThreads, io \in {"connect", "read", "write"} : DoneIO(t, io)
  <2>1. PICK t \in IOThreads, o \in ops, res \in {"error", "zero", "data"}, n \in Nat,
             m \in Messages : Completes(t, o, res, n, m)
    BY <1>0, <1>1, Completion
  <2>2. /\ Reading(t)' => o.io = "read"
        /\ \A u \in IOThreads \ {t} : th'[u] = th[u]
    BY <2>1 DEF Completes, AfterIO, Reading
  <2>3. ops' = ops \ {o}
    BY <2>1 DEF Completes
  <2> QED BY <2>2, <2>3 DEF OneRead, Reading
<1>2. ASSUME NEW t \in IOThreads, ThreadStep(t) PROVE OneRead'
  <2>1. /\ <<th[t].pc, th'[t].pc>> \in Moves
        /\ ~At(t, "idle") /\ (\A u \in IOThreads \ {t} : th'[u] = th[u])
    BY <1>2, ThreadMoves
  <2>2. Reading(t)' => Reading(t) /\ At(t, "packet")
    BY <2>1 DEF Moves, Reading, At
  <2>3. \A u \in IOThreads : Reading(u)' => Reading(u)
    BY <2>1, <2>2 DEF Reading
  <2>4. CASE CloseSocket(t)
    <3>1. PICK f \in [ops -> Operations] :
            /\ ops' = {f[o] : o \in ops}
            /\ \A o \in ops : f[o].io = o.io /\ f[o].sock = NoSocket
      BY <2>4, Aborts
    <3> QED BY <2>3, <3>1 DEF OneRead
  <2>5. CASE ~CloseSocket(t) /\ th[t].pc \notin {"canwrite", "post"}
    <3>1. \A o \in ops' : o.io = "read" => o \in ops
      <4>1. ops' = ops \/ Posts(sendBuf')
        BY <1>2, <2>5, ThreadAdds
      <4> QED BY <4>1, PostsOne
    <3> QED BY <2>3, <3>1 DEF OneRead
  <2>6. CASE th[t].pc \in {"canwrite", "post"}
    <3>1. \A o \in ops : o.io # "read"
      BY <2>6 DEF Fresh, OneRead, Reading
    <3>2. \A u \in IOThreads \ {t} : ~Reading(u)
      BY <2>6 DEF Fresh, OneRead, Reading, At
    <3>3. ~Reading(t)'
      BY <2>2, <2>6 DEF At
    <3>4. ~CloseSocket(t) /\ ~At(t, "write")
      BY <2>6 DEF CloseSocket, At
    <3>5. \A o \in ops' : o.io = "read" => o = [io |-> "read", sock |-> sock, msgs |-> <<>>]
      <4>1. \/ ops' = ops \/ Posts(sendBuf')
            \/ ops' = ops \cup {[io |-> "read", sock |-> sock, msgs |-> <<>>]}
        BY <1>2, <3>4, ThreadAdds
      <4>2. CASE Posts(sendBuf')
        BY <3>1, <4>2, PostsOne
      <4> QED BY <3>1, <4>1, <4>2
    <3> QED BY <2>3, <3>2, <3>3, <3>5 DEF OneRead
  <2> QED BY <2>4, <2>5, <2>6
<1>3. CASE Connect \/ ConnectFails \/ GameCalls \/ Update \/ Drop \/ UNCHANGED rpcLinkVars
  <2>1. th' = th /\ \A o \in ops' : o.io = "read" => o \in ops
    <3>1. /\ th' = th
          /\ ops' = ops \/ Posts(sendBuf') \/ \A o \in ops' : o.io = "connect"
      BY <1>3, OtherSteps
    <3>2. CASE Posts(sendBuf')
      BY <3>1, <3>2, PostsOne
    <3> QED BY <3>1, <3>2
  <2> QED BY <2>1 DEF OneRead, Reading
<1> QED BY <1>1, <1>2, <1>3, StepKinds

LEMMA OneWriteStep ==
  ASSUME LinkInv, Fresh, OneWrite, RpcLinkAssumption, ~Hurried, [RpcNext]_rpcLinkVars
  PROVE  OneWrite'
<1>0. LinkType /\ Keys /\ Connects /\ Sockets
  BY DEF LinkInv
<1> DEFINE NoWrite == (\A o \in ops : o.io # "write") /\ (\A u \in IOThreads : ~At(u, "write"))
<1>a. ASSUME NEW buf, Posts(buf), \A o \in ops : o.io # "write",
             \A u \in IOThreads : ~At(u, "write")'
      PROVE  OneWrite'
  <2>1. \A o \in ops' : o.io = "write" => o = [io |-> "write", sock |-> sock, msgs |-> buf]
    BY <1>a DEF Posts
  <2> QED BY <1>a, <2>1 DEF OneWrite, Posts
<1>1. CASE \E t \in IOThreads, io \in {"connect", "read", "write"} : DoneIO(t, io)
  <2>1. PICK t \in IOThreads, o \in ops, res \in {"error", "zero", "data"}, n \in Nat,
             m \in Messages : Completes(t, o, res, n, m)
    BY <1>0, <1>1, Completion
  <2>2. /\ th'[t].pc = "write" => o.io = "write"
        /\ \A u \in IOThreads \ {t} : th'[u] = th[u]
    BY <2>1 DEF Completes, AfterIO
  <2>3. ops' = ops \ {o} /\ canWrite' = canWrite
    BY <2>1 DEF Completes, linkVars
  <2> QED BY <2>2, <2>3 DEF OneWrite, At
<1>2. ASSUME NEW t \in IOThreads, ThreadStep(t) PROVE OneWrite'
  <2>1. /\ <<th[t].pc, th'[t].pc>> \in Moves
        /\ ~At(t, "idle") /\ (\A u \in IOThreads \ {t} : th'[u] = th[u])
    BY <1>2, ThreadMoves
  <2>2. th'[t].pc # "write"
    BY <2>1 DEF Moves
  <2>3. \A u \in IOThreads : At(u, "write")' => At(u, "write") /\ u # t
    BY <2>1, <2>2 DEF At
  <2>4. CASE CloseSocket(t)
    <3>1. PICK f \in [ops -> Operations] :
            /\ ops' = {f[o] : o \in ops}
            /\ \A o \in ops : f[o].io = o.io /\ f[o].sock = NoSocket
      BY <2>4, Aborts
    <3>2. canWrite' = canWrite
      BY <2>4 DEF CloseSocket, linkVars
    <3> QED BY <2>3, <3>1, <3>2 DEF OneWrite
  <2>5. CASE OnSend_DoneIO(t)
    <3>1. At(t, "write") /\ ~CloseSocket(t) /\ ~Sending(t)
      BY <2>5 DEF OnSend_DoneIO, CloseSocket, Sending, SendConnId, SendRegist, CallRpc, At
    <3>2. (\A o \in ops : o.io # "write") /\ (\A u \in IOThreads : ~At(u, "write")')
      BY <2>3, <3>1 DEF OneWrite
    <3>3. ops' = ops \/ Posts(sendBuf')
      BY <1>2, <3>1, ThreadAdds DEF At
    <3>4. CASE ops' = ops
      BY <3>2, <3>4 DEF OneWrite
    <3> QED BY <1>a, <3>2, <3>3, <3>4
  <2>6. CASE OnConnectWrite(t)
    <3>1. At(t, "canwrite") /\ ~CloseSocket(t) /\ ~Sending(t)
      BY <2>6 DEF OnConnectWrite, CloseSocket, Sending, SendConnId, SendRegist, CallRpc, At
    <3>2. ops = {} /\ \A u \in IOThreads : ~At(u, "write")'
      BY <2>3, <3>1 DEF Fresh, At
    <3>3. \A o \in ops' : o.io # "write"
      BY <1>2, <3>1, <3>2, ThreadAdds DEF At
    <3> QED BY <3>2, <3>3 DEF OneWrite
  <2>7. CASE Sending(t)
    <3>1. ~CloseSocket(t) /\ th[t].pc \notin {"canwrite", "post", "write"}
      BY <2>7 DEF CloseSocket, Sending, SendConnId, SendRegist, CallRpc, At
    <3>2. ops' = ops \/ (canWrite /\ Posts(sendBuf'))
      BY <1>2, <3>1, ThreadAdds DEF At
    <3>3. canWrite' => canWrite
      BY <1>0, <2>7, SendSteps, Sends DEF Sending
    <3>4. CASE ops' = ops
      BY <2>3, <3>3, <3>4 DEF OneWrite
    <3>5. CASE canWrite /\ Posts(sendBuf')
      BY <1>a, <2>3, <3>5 DEF OneWrite
    <3> QED BY <3>2, <3>4, <3>5
  <2>8. CASE \/ CloseState(t) \/ ForgetSocket(t) \/ ClearBuffers(t) \/ AddTimer(t)
             \/ RecvMsg(t) \/ OnRead_DoneIO(t) \/ OnConnect(t) \/ RegistResponse(t)
    <3>1. canWrite' = canWrite
      BY <2>8 DEF CloseState, ForgetSocket, ClearBuffers, AddTimer, RecvMsg, OnRead_DoneIO,
                  OnConnect, RegistResponse, linkVars
    <3>2. ~CloseSocket(t) /\ ~Sending(t) /\ ~At(t, "write")
      BY <2>8 DEF CloseState, ForgetSocket, ClearBuffers, AddTimer, RecvMsg, OnRead_DoneIO,
                  OnConnect, RegistResponse, At, Sending, SendConnId, SendRegist, CallRpc,
                  CloseSocket
    <3>3. \A o \in ops' : o.io = "write" => o \in ops
      BY <1>2, <3>2, ThreadAdds
    <3> QED BY <2>3, <3>1, <3>3 DEF OneWrite
  <2> QED BY <1>2, <2>4, <2>5, <2>6, <2>7, <2>8 DEF ThreadStep, CloseLink, Sending
<1>3. CASE Connect \/ ConnectFails \/ GameCalls \/ Update \/ Drop \/ UNCHANGED rpcLinkVars
  <2>1. /\ th' = th
        /\ \/ ops' = ops
           \/ GameCalls /\ canWrite /\ Posts(sendBuf')
           \/ \A o \in ops' : o.io = "connect"
    BY <1>3, OtherSteps
  <2>2. canWrite' => canWrite
    <3>1. CASE GameCalls
      BY <1>0, <3>1, SendSteps, Sends
    <3>2. CASE Connect \/ ConnectFails \/ Update \/ Drop \/ UNCHANGED rpcLinkVars
      BY <3>2 DEF Connect, ConnectFails, Update, Drop, rpcLinkVars, linkVars
    <3> QED BY <1>3, <3>1, <3>2
  <2>3. CASE ops' = ops
    BY <2>1, <2>2, <2>3 DEF OneWrite, At
  <2>4. CASE canWrite /\ Posts(sendBuf')
    BY <1>a, <2>1, <2>4 DEF OneWrite, At
  <2>5. CASE \A o \in ops' : o.io = "connect"
    BY <2>1, <2>2, <2>5 DEF OneWrite, At
  <2> QED BY <2>1, <2>3, <2>4, <2>5
<1> QED BY <1>1, <1>2, <1>3, StepKinds

\* What was sent of a buffer to which messages are only added is still its beginning.
Begins(s, buf) == Len(s) <= Len(buf) /\ \A i \in 1 .. Len(s) : s[i] = buf[i]
LEMMA BeginsAppended ==
  ASSUME NEW s \in Seq(Messages), NEW buf \in Seq(Messages), NEW m \in Messages, Begins(s, buf)
  PROVE  Begins(s, Append(buf, m))
  BY DEF Begins
LEMMA BeginsItself ==
  ASSUME NEW s \in Seq(Messages)
  PROVE  Begins(s, s)
  BY DEF Begins

\* A message that is added keeps what was transmitted and what is being sent.
LEMMA TransmittedSends ==
  ASSUME LinkInv, Transmitted, NEW m \in Messages, SendMsg(m)
  PROVE  \A o \in ops' : o.io = "write" /\ o.sock # NoSocket => Begins(o.msgs, sendBuf')
<1>1. /\ sendBuf' = Append(sendBuf, m) /\ sendBuf' \in Seq(Messages)
      /\ sendBuf \in Seq(Messages) /\ (ops' = ops \/ Posts(sendBuf'))
  BY Sends DEF LinkInv, LinkType
<1>2. \A o \in ops : o.io = "write" /\ o.sock # NoSocket => Begins(o.msgs, sendBuf')
  <2>1. SUFFICES ASSUME NEW o \in ops, o.io = "write", o.sock # NoSocket
                 PROVE  Begins(o.msgs, sendBuf')
    OBVIOUS
  <2>2. o.msgs \in Seq(Messages) /\ Begins(o.msgs, sendBuf)
    BY <2>1 DEF LinkInv, LinkType, Operations, Transmitted, Begins
  <2> QED BY <1>1, <2>2, BeginsAppended
<1>3. CASE Posts(sendBuf')
  BY <1>1, <1>2, <1>3, PostsOne, BeginsItself
<1> QED BY <1>1, <1>2, <1>3

LEMMA TransmittedStep ==
  ASSUME LinkInv, Fresh, OneWrite, Transmitted, RpcLinkAssumption, ~Hurried,
         [RpcNext]_rpcLinkVars
  PROVE  Transmitted'
<1>0. /\ LinkType /\ Keys /\ Connects /\ Sockets /\ wire \in Nat
      /\ sendBuf \in Seq(Messages) /\ \A o \in ops : o.msgs \in Seq(Messages)
  BY DEF LinkInv, LinkType, Operations
<1> DEFINE Sent == \A o \in ops : o.io = "write" /\ o.sock # NoSocket => Begins(o.msgs, sendBuf)
           Out  == /\ \A t \in IOThreads : At(t, "write") => wire \in {0, th[t].n}
                   /\ (\A t \in IOThreads : ~At(t, "write")) => wire = 0
<1>a. Transmitted = (Out /\ Sent) /\ Transmitted' = (Out' /\ Sent')
  BY DEF Transmitted, Begins
<1>b. Out /\ Sent
  BY <1>a
<1>c. ASSUME wire' = wire,
             \A u \in IOThreads : /\ At(u, "write") <=> At(u, "write")'
                                  /\ At(u, "write") => th'[u].n = th[u].n
      PROVE  Out'
  BY <1>b, <1>c
<1>d. ASSUME wire' = 0 PROVE Out'
  BY <1>d
<1> HIDE DEF Sent, Out
<1>1. CASE \E t \in IOThreads, io \in {"connect", "read", "write"} : DoneIO(t, io)
  <2>1. PICK t \in IOThreads, o \in ops, res \in {"error", "zero", "data"}, n \in Nat,
             m \in Messages : Completes(t, o, res, n, m)
    BY <1>0, <1>1, Completion
  <2>2. /\ th'[t].pc = "write" => o.io = "write" /\ res = "data" /\ th'[t].n = n
        /\ o.io = "write" /\ res = "data" /\ eState = "connected" => th'[t].pc = "write"
        /\ ~At(t, "write") /\ \A u \in IOThreads \ {t} : th'[u] = th[u]
    BY <2>1 DEF Completes, AfterIO, At
  <2>3. ops' = ops \ {o} /\ sendBuf' = sendBuf /\ wire' = wire + n
    BY <2>1 DEF Completes, linkVars
  <2>4. Sent'
    BY <1>b, <2>3 DEF Sent
  <2>5. CASE o.io = "write" /\ res = "data"
    <3>1. eState = "connected"
      BY <2>1, <2>5 DEF Completes, Fresh, At
    <3>2. \A u \in IOThreads : ~At(u, "write")
      BY <2>5 DEF OneWrite
    <3>3. wire' = n
      BY <1>b, <2>3, <3>2 DEF Out
    <3> QED BY <1>a, <2>2, <2>4, <2>5, <3>1, <3>2, <3>3 DEF Out, At
  <2>6. CASE ~(o.io = "write" /\ res = "data")
    <3>1. n = 0
      BY <2>1, <2>6 DEF Completes
    <3>2. wire' = wire
      BY <1>0, <2>3, <3>1
    <3> QED BY <1>a, <1>c, <2>2, <2>4, <2>6, <3>2 DEF At
  <2> QED BY <2>5, <2>6
<1>2. ASSUME NEW t \in IOThreads, ThreadStep(t), ~OnSend_DoneIO(t), ~ClearBuffers(t)
      PROVE  Out'
  <2>1. /\ <<th[t].pc, th'[t].pc>> \in Moves
        /\ ~At(t, "idle") /\ (\A u \in IOThreads \ {t} : th'[u] = th[u])
    BY <1>2, ThreadMoves
  <2>2. ~At(t, "write") /\ ~At(t, "write")'
    <3>1. ~At(t, "write")
      BY <1>2 DEF At, ThreadStep, CloseLink, CloseState, CloseSocket, ForgetSocket,
                  AddTimer, RecvMsg, OnRead_DoneIO, OnConnectWrite, SendConnId, OnConnect,
                  SendRegist, CallRpc, RegistResponse
    <3> QED BY <2>1, <3>1 DEF Moves, At
  <2>3. wire' = wire
    BY <1>2 DEF ThreadStep, CloseLink, CloseSocket, ForgetSocket, netVars,
                AddTimer, RecvMsg, OnRead_DoneIO, OnConnectWrite, SendConnId,
                SendRegist, CallRpc, RegistResponse, PostRecv, OnConnect, CloseState
  <2> QED BY <1>c, <2>1, <2>2, <2>3 DEF At
<1>3. ASSUME NEW t \in IOThreads, ThreadStep(t) PROVE Transmitted'
  <2>1. CASE OnSend_DoneIO(t)
    <3>1. At(t, "write") /\ ~CloseSocket(t) /\ th[t].pc \notin {"canwrite", "post"}
      BY <2>1 DEF OnSend_DoneIO, CloseSocket, At
    <3>2. wire' = 0
      <4>1. wire \in {0, th[t].n} /\ th[t].n \in Nat
        BY <1>0, <1>b, <3>1 DEF Out, LinkType, Threads
      <4> QED BY <1>0, <2>1, <4>1 DEF OnSend_DoneIO
    <3>3. \A o \in ops : o.io # "write"
      BY <3>1 DEF OneWrite
    <3>4. ops' = ops \/ Posts(sendBuf')
      BY <1>3, <3>1, ThreadAdds
    <3>5. sendBuf' \in Seq(Messages)
      BY <1>0, TypeStep DEF LinkType
    <3>6. Sent'
      BY <3>3, <3>4, <3>5, PostsOne, BeginsItself DEF Sent
    <3> QED BY <1>a, <1>d, <3>2, <3>6
  <2>2. CASE ClearBuffers(t)
    <3>1. \A o \in ops : o.sock = NoSocket
      BY <1>0, <2>2 DEF ClearBuffers, Sockets, Closed, At
    <3>2. ops' = ops /\ wire' = 0
      BY <2>2 DEF ClearBuffers
    <3> QED BY <1>a, <1>d, <3>1, <3>2 DEF Sent
  <2>3. CASE CloseSocket(t)
    <3>1. PICK f \in [ops -> Operations] :
            /\ ops' = {f[o] : o \in ops}
            /\ \A o \in ops : f[o].io = o.io /\ f[o].sock = NoSocket
      BY <2>3, Aborts
    <3>2. Sent'
      BY <3>1 DEF Sent
    <3>3. ~OnSend_DoneIO(t) /\ ~ClearBuffers(t)
      BY <2>3 DEF CloseSocket, OnSend_DoneIO, ClearBuffers, At
    <3> QED BY <1>2, <1>3, <1>a, <3>2, <3>3
  <2>4. CASE Sending(t)
    <3>1. PICK m \in Messages : SendMsg(m)
      BY <2>4, SendSteps DEF Sending
    <3>2. Sent'
      BY <3>1, TransmittedSends DEF Sent
    <3>3. ~OnSend_DoneIO(t) /\ ~ClearBuffers(t)
      BY <2>4 DEF Sending, SendConnId, SendRegist, CallRpc, OnSend_DoneIO, ClearBuffers, At
    <3> QED BY <1>2, <1>3, <1>a, <3>2, <3>3
  <2>5. CASE /\ ~OnSend_DoneIO(t) /\ ~ClearBuffers(t) /\ ~CloseSocket(t) /\ ~Sending(t)
    <3>1. sendBuf' = sendBuf
      BY <1>3, <2>5 DEF ThreadStep, CloseLink, ForgetSocket, linkVars, Sending,
                AddTimer, RecvMsg, OnRead_DoneIO, OnConnectWrite,
                RegistResponse, PostRecv, OnConnect, CloseState
    <3>2. ~At(t, "write")
      BY <1>3, <2>5 DEF At, ThreadStep, CloseLink, CloseState, ForgetSocket, Sending,
                  AddTimer, RecvMsg, OnRead_DoneIO, OnConnectWrite, OnConnect, RegistResponse
    <3>3. \A o \in ops' : o.io = "write" => o \in ops
      BY <1>3, <2>5, <3>2, ThreadAdds
    <3>4. Sent'
      BY <1>b, <3>1, <3>3 DEF Sent
    <3> QED BY <1>2, <1>3, <1>a, <2>5, <3>4
  <2> QED BY <2>1, <2>2, <2>3, <2>4, <2>5
<1>4. CASE Connect \/ ConnectFails \/ GameCalls \/ Update \/ Drop \/ UNCHANGED rpcLinkVars
  <2>1. th' = th
    BY <1>4, OtherSteps
  <2>2. wire' = wire
    BY <1>4 DEF Connect, ConnectFails, GameCalls, Update, Drop, rpcLinkVars, netVars
  <2>3. Out'
    BY <1>c, <2>1, <2>2 DEF At
  <2>4. CASE GameCalls
    <3>1. Sent'
      BY <2>4, SendSteps, TransmittedSends DEF Sent
    <3> QED BY <1>a, <2>3, <3>1
  <2>5. CASE Connect \/ ConnectFails \/ Update \/ Drop \/ UNCHANGED rpcLinkVars
    <3>1. \A o \in ops' : o \in ops \/ o.io = "connect"
      <4>1. ~GameCalls => ops' = ops \/ \A o \in ops' : o.io = "connect"
        BY <1>4, OtherSteps
      <4>2. CASE GameCalls
        <5>1. UNCHANGED sendBuf
          BY <2>5 DEF Connect, ConnectFails, Update, Drop, rpcLinkVars, linkVars
        <5>2. sendBuf' = Append(sendBuf, Msg("msg", 0))
          BY <1>0, <4>2, SendSteps, Sends
        <5> QED BY <1>0, <5>1, <5>2, SendSteps
      <4> QED BY <4>1, <4>2
    <3>2. sendBuf' = sendBuf
      BY <2>5 DEF Connect, ConnectFails, Update, Drop, rpcLinkVars, linkVars
    <3>3. Sent'
      BY <1>b, <3>1, <3>2 DEF Sent
    <3> QED BY <1>a, <2>3, <3>3
  <2> QED BY <1>4, <2>4, <2>5
<1> QED BY <1>1, <1>3, <1>4, StepKinds

-----------------------------------------------------------------------------
(* Keys in the buffer and in the queue                                     *)

LEMMA KeysAfterAppend ==
  ASSUME NEW s \in Seq(Messages), NEW m \in Messages, NEW first \in Nat \ {0}, NEW kind,
         NoTwo(s, first, kind)
  PROVE  /\ KeysOf(Append(s, m), first, kind) \subseteq
              KeysOf(s, first, kind) \cup (IF m.kind = kind THEN {m.key} ELSE {})
         /\ (m.kind = kind => m.key \notin KeysOf(s, first, kind))
              => NoTwo(Append(s, m), first, kind)
<1> DEFINE a == Append(s, m)
<1>1. /\ Len(a) = Len(s) + 1 /\ Len(s) \in Nat /\ a[Len(s) + 1] = m
      /\ \A i \in 1 .. Len(s) : a[i] = s[i]
  OBVIOUS
<1> HIDE DEF a
<1>2. KeysOf(a, first, kind) \subseteq
        KeysOf(s, first, kind) \cup (IF m.kind = kind THEN {m.key} ELSE {})
  <2> SUFFICES ASSUME NEW i \in first .. Len(a), a[i].kind = kind
               PROVE  a[i].key \in
                        KeysOf(s, first, kind) \cup (IF m.kind = kind THEN {m.key} ELSE {})
    BY DEF KeysOf
  <2>1. CASE i = Len(s) + 1
    BY <1>1, <2>1
  <2>2. CASE i # Len(s) + 1
    BY <1>1, <2>2 DEF KeysOf
  <2> QED BY <2>1, <2>2
<1>3. ASSUME m.kind = kind => m.key \notin KeysOf(s, first, kind)
      PROVE  NoTwo(a, first, kind)
  <2> SUFFICES ASSUME NEW i \in first .. Len(a), NEW j \in first .. Len(a),
                      a[i].kind = kind, a[j].kind = kind, a[i].key = a[j].key
               PROVE  i = j
    BY DEF NoTwo
  <2>0. ASSUME NEW k \in first .. Len(s), s[k].kind = kind, m.kind = kind, s[k].key = m.key
        PROVE  FALSE
    BY <1>3, <2>0 DEF KeysOf
  <2>1. CASE i = Len(s) + 1 \/ j = Len(s) + 1
    BY <1>1, <2>0, <2>1
  <2>2. CASE i # Len(s) + 1 /\ j # Len(s) + 1
    BY <1>1, <2>2 DEF NoTwo
  <2> QED BY <2>1, <2>2
<1> QED BY <1>2, <1>3 DEF a

\* What is left when the first n are taken away, of which those before first are not counted.
LEMMA KeysOfRest ==
  ASSUME NEW s \in Seq(Messages), NEW n \in Nat, NEW first \in 1 .. n + 1, NEW kind,
         NoTwo(s, first, kind)
  PROVE  LET rest == SubSeq(s, n + 1, Len(s))
         IN  KeysOf(rest, 1, kind) \subseteq KeysOf(s, first, kind) /\ NoTwo(rest, 1, kind)
<1> DEFINE rest == SubSeq(s, n + 1, Len(s))
<1>1. \A i \in 1 .. Len(rest) : /\ i + n \in first .. Len(s)
                                /\ rest[i] = s[i + n]
  OBVIOUS
<1>2. Len(rest) \in Nat
  OBVIOUS
<1> HIDE DEF rest
<1>3. KeysOf(rest, 1, kind) \subseteq KeysOf(s, first, kind)
  BY <1>1 DEF KeysOf
<1>4. NoTwo(rest, 1, kind)
  <2> SUFFICES ASSUME NEW i \in 1 .. Len(rest), NEW j \in 1 .. Len(rest),
                      rest[i].kind = kind, rest[j].kind = kind, rest[i].key = rest[j].key
               PROVE  i = j
    BY DEF NoTwo
  <2>1. i + n = j + n
    BY <1>1 DEF NoTwo
  <2> QED BY <2>1
<1> QED BY <1>3, <1>4 DEF rest

LEMMA KeysOfTail ==
  ASSUME NEW q \in Seq(Messages), q # <<>>, NEW kind, NoTwo(q, 1, kind)
  PROVE  /\ KeysOf(Tail(q), 1, kind) \subseteq KeysOf(q, 1, kind)
         /\ NoTwo(Tail(q), 1, kind)
         /\ Head(q).kind = kind => /\ Head(q).key \in KeysOf(q, 1, kind)
                                   /\ Head(q).key \notin KeysOf(Tail(q), 1, kind)
<1> DEFINE rest == Tail(q)
<1>1. /\ Len(rest) = Len(q) - 1 /\ Len(q) \in Nat \ {0} /\ Head(q) = q[1]
      /\ \A i \in 1 .. Len(rest) : i + 1 \in 2 .. Len(q) /\ rest[i] = q[i + 1]
  OBVIOUS
<1> HIDE DEF rest
<1>2. KeysOf(rest, 1, kind) \subseteq KeysOf(q, 1, kind)
  <2> SUFFICES ASSUME NEW i \in 1 .. Len(rest), rest[i].kind = kind
               PROVE  rest[i].key \in KeysOf(q, 1, kind)
    BY DEF KeysOf
  <2>1. i + 1 \in 1 .. Len(q) /\ rest[i] = q[i + 1]
    BY <1>1
  <2> QED BY <2>1 DEF KeysOf
<1>3. NoTwo(rest, 1, kind)
  <2> SUFFICES ASSUME NEW i \in 1 .. Len(rest), NEW j \in 1 .. Len(rest),
                      rest[i].kind = kind, rest[j].kind = kind, rest[i].key = rest[j].key
               PROVE  i = j
    BY DEF NoTwo
  <2>0. i + 1 \in 1 .. Len(q) /\ rest[i] = q[i + 1] /\ j + 1 \in 1 .. Len(q) /\ rest[j] = q[j + 1]
    BY <1>1
  <2>1. i + 1 = j + 1
    BY <2>0 DEF NoTwo
  <2> QED BY <2>1
<1>4. ASSUME q[1].kind = kind
      PROVE  q[1].key \in KeysOf(q, 1, kind) /\ q[1].key \notin KeysOf(rest, 1, kind)
  <2>1. 1 \in 1 .. Len(q)
    BY <1>1
  <2>2. q[1].key \in KeysOf(q, 1, kind)
    BY <1>4, <2>1 DEF KeysOf
  <2>3. ASSUME NEW i \in 1 .. Len(rest), rest[i].kind = kind, rest[i].key = q[1].key
        PROVE  FALSE
    <3>1. i + 1 \in 1 .. Len(q) /\ q[i + 1] = rest[i]
      BY <1>1
    <3>2. i + 1 = 1
      BY <1>4, <2>1, <2>3, <3>1 DEF NoTwo
    <3> QED BY <3>2
  <2> QED BY <2>2, <2>3 DEF KeysOf
<1> QED BY <1>1, <1>2, <1>3, <1>4 DEF rest

\* The first n of a buffer of which nothing was transmitted, and what comes after them.
LEMMA KeysOfFirst ==
  ASSUME NEW s \in Seq(Messages), NEW n \in 0 .. Len(s), NEW kind, NoTwo(s, 1, kind)
  PROVE  LET sent == {s[i].key : i \in {j \in 1 .. n : s[j].kind = kind}}
         IN  /\ sent \subseteq KeysOf(s, 1, kind)
             /\ KeysOf(s, n + 1, kind) \subseteq KeysOf(s, 1, kind) \ sent
             /\ NoTwo(s, n + 1, kind)
<1> DEFINE sent == {s[i].key : i \in {j \in 1 .. n : s[j].kind = kind}}
<1>1. \A i \in 1 .. n : i \in 1 .. Len(s)
  OBVIOUS
<1>2. \A i \in n + 1 .. Len(s) : i \in 1 .. Len(s) /\ i \notin 1 .. n
  OBVIOUS
<1>3. sent \subseteq KeysOf(s, 1, kind)
  BY <1>1 DEF KeysOf
<1>4. ASSUME NEW i \in n + 1 .. Len(s), s[i].kind = kind
      PROVE  s[i].key \in KeysOf(s, 1, kind) \ sent
  <2>1. s[i].key \in KeysOf(s, 1, kind)
    BY <1>2, <1>4 DEF KeysOf
  <2>2. ASSUME NEW j \in 1 .. n, s[j].kind = kind, s[j].key = s[i].key PROVE FALSE
    BY <1>1, <1>2, <1>4, <2>2 DEF NoTwo
  <2> QED BY <2>1, <2>2
<1>5. KeysOf(s, n + 1, kind) \subseteq KeysOf(s, 1, kind) \ sent
  <2> HIDE DEF sent
  <2> QED BY <1>4 DEF KeysOf
<1>6. NoTwo(s, n + 1, kind)
  BY <1>2 DEF NoTwo
<1> QED BY <1>3, <1>5, <1>6

-----------------------------------------------------------------------------
(* Every call is answered once, and its callback is there                  *)

Registering == {th[t].msg.key : t \in {u \in IOThreads : At(u, "register")}}

\* A step that only takes keys away, or gives some a callback.
LEMMA EachOnceKept ==
  ASSUME EachOnce, ToSend' \subseteq ToSend, asked' \subseteq asked, AtHand' \subseteq AtHand,
         Queued' \subseteq Queued, Expected \subseteq Expected',
         NoTwo(sendBuf', wire' + 1, "call"), NoTwo(queue', 1, "reply")
  PROVE  EachOnce'
  BY DEF EachOnce

\* Threads that are not in one of the steps in question.
LEMMA ThreadsKeep ==
  ASSUME NEW t \in IOThreads, \A u \in IOThreads \ {t} : th'[u] = th[u]
  PROVE  /\ ~At(t, "packet")' => AtHand' \subseteq AtHand
         /\ ~At(t, "register") => Registering \subseteq Registering'
         /\ ~At(t, "register")' => Registering' \subseteq Registering
         /\ Expected = response \cup Registering /\ Expected' = response' \cup Registering'
  BY DEF AtHand, Got, Registering, Expected, At

\* What is added to the buffer, a call of a new key or no call, is sent once.
LEMMA EachOnceSends ==
  ASSUME LinkInv, EachOnce, NEW m \in Messages, SendMsg(m), wire' = wire,
         m.kind = "call" => m.key \notin Expected
  PROVE  /\ ToSend' \subseteq ToSend \cup (IF m.kind = "call" THEN {m.key} ELSE {})
         /\ NoTwo(sendBuf', wire' + 1, "call")
<1>1. sendBuf' = Append(sendBuf, m) /\ sendBuf \in Seq(Messages) /\ wire + 1 \in Nat \ {0}
  BY Sends DEF LinkInv, LinkType
<1>2. NoTwo(sendBuf, wire + 1, "call") /\ (m.kind = "call" => m.key \notin ToSend)
  BY DEF EachOnce
<1>3. ToSend = KeysOf(sendBuf, wire + 1, "call")
  BY DEF ToSend
<1>4. ToSend' = KeysOf(sendBuf', wire' + 1, "call")
  BY DEF ToSend
<1> DEFINE first == wire + 1
<1> HIDE DEF first
<1>5. /\ first \in Nat \ {0} /\ NoTwo(sendBuf, first, "call")
      /\ m.kind = "call" => m.key \notin KeysOf(sendBuf, first, "call")
  BY <1>1, <1>2, <1>3 DEF first
<1>6. /\ KeysOf(sendBuf', first, "call") \subseteq
           KeysOf(sendBuf, first, "call") \cup (IF m.kind = "call" THEN {m.key} ELSE {})
      /\ NoTwo(sendBuf', first, "call")
  BY <1>1, <1>5, KeysAfterAppend
<1> QED BY <1>3, <1>4, <1>6 DEF first

LEMMA EachOnceDoneIO ==
  ASSUME LinkInv, Fresh, OneWrite, Transmitted, EachOnce,
         NEW t \in IOThreads, NEW o \in ops, NEW res, NEW n \in Nat, NEW m \in Messages,
         Completes(t, o, res, n, m)
  PROVE  EachOnce'
<1>0. /\ LinkType /\ wire \in Nat /\ sendBuf \in Seq(Messages) /\ o.msgs \in Seq(Messages)
      /\ sendBuf' = sendBuf /\ queue' = queue /\ response' = response /\ wire' = wire + n
      /\ ~At(t, "register") /\ ~At(t, "register")' /\ \A u \in IOThreads \ {t} : th'[u] = th[u]
      /\ asked' = (IF m.kind = "reply" THEN asked \ {m.key} ELSE asked) \cup
                    {o.msgs[i].key : i \in {j \in 1 .. n : o.msgs[j].kind = "call"}}
  BY DEF Completes, LinkInv, LinkType, Operations, linkVars, rpcVars, At, AfterIO
<1>1. Expected' = Expected /\ Queued' = Queued /\ NoTwo(queue', 1, "reply")
  BY <1>0, ThreadsKeep DEF Queued, EachOnce
<1>2. CASE o.io = "write" /\ res = "data"
  <2>1. m.kind # "reply" /\ n \in 0 .. Len(o.msgs) /\ o.sock # NoSocket
    BY <1>2 DEF Completes, None, Msg
  <2>2. ~At(t, "packet")'
    BY <1>2 DEF Completes, AfterIO, At
  <2>3. wire = 0
    BY <1>2 DEF OneWrite, Transmitted
  <2>4. Len(o.msgs) <= Len(sendBuf) /\ \A i \in 1 .. Len(o.msgs) : o.msgs[i] = sendBuf[i]
    BY <1>2, <2>1 DEF Transmitted
  <2> DEFINE sent == {sendBuf[i].key : i \in {j \in 1 .. n : sendBuf[j].kind = "call"}}
  <2>5. asked' = asked \cup sent
    BY <1>0, <2>1, <2>4
  <2>6. n \in 0 .. Len(sendBuf) /\ NoTwo(sendBuf, 1, "call") /\ wire' = n
    BY <1>0, <2>1, <2>3, <2>4 DEF EachOnce
  <2> HIDE DEF sent
  <2>7. /\ sent \subseteq KeysOf(sendBuf, 1, "call")
        /\ KeysOf(sendBuf, n + 1, "call") \subseteq KeysOf(sendBuf, 1, "call") \ sent
        /\ NoTwo(sendBuf, n + 1, "call")
    BY <1>0, <2>6, KeysOfFirst DEF sent
  <2>8. ToSend = KeysOf(sendBuf, 1, "call")
    BY <2>3 DEF ToSend
  <2>9. ToSend' = KeysOf(sendBuf, n + 1, "call")
    BY <1>0, <2>6 DEF ToSend
  <2>10. AtHand' \subseteq AtHand
    BY <1>0, <2>2, ThreadsKeep
  <2>11. NoTwo(sendBuf', wire' + 1, "call")
    BY <1>0, <2>6, <2>7
  <2> QED BY <1>1, <2>5, <2>7, <2>8, <2>9, <2>10, <2>11 DEF EachOnce
<1>3. CASE ~(o.io = "write" /\ res = "data")
  <2>1. n = 0 /\ wire' = wire
    BY <1>0, <1>3 DEF Completes
  <2>2. ToSend' = ToSend /\ NoTwo(sendBuf', wire' + 1, "call")
    BY <1>0, <2>1 DEF ToSend, EachOnce
  <2>3. asked' = IF m.kind = "reply" THEN asked \ {m.key} ELSE asked
    BY <1>0, <2>1
  <2>4. AtHand' \subseteq AtHand \cup (IF m.kind = "reply" THEN {m.key} ELSE {})
    <3>1. th'[t].pc = "packet" => th'[t].msg = m
      BY DEF Completes
    <3> QED BY <1>0, <3>1 DEF AtHand, Got, At
  <2>5. m.kind = "reply" => m.key \in asked
    BY DEF Completes, Received, None, Msg
  <2> QED BY <1>1, <2>2, <2>3, <2>4, <2>5 DEF EachOnce
<1> QED BY <1>2, <1>3

LEMMA EachOnceStep ==
  ASSUME LinkInv, CallInv, RpcLinkAssumption, ~Hurried, [RpcNext]_rpcLinkVars
  PROVE  EachOnce'
<1> USE DEF linkVars, rpcVars, netVars
<1>0. /\ LinkType /\ Keys /\ wire \in Nat /\ sendBuf \in Seq(Messages) /\ queue \in Seq(Messages)
      /\ Fresh /\ OneRead /\ OneWrite /\ Transmitted /\ EachOnce
      /\ NoTwo(sendBuf, wire + 1, "call") /\ NoTwo(queue, 1, "reply")
  BY DEF LinkInv, LinkType, CallInv, EachOnce
<1>1. CASE \E t \in IOThreads, io \in {"connect", "read", "write"} : DoneIO(t, io)
  <2>1. PICK t \in IOThreads, o \in ops, res \in {"error", "zero", "data"}, n \in Nat,
             m \in Messages : Completes(t, o, res, n, m)
    BY <1>0, <1>1, Completion
  <2> QED BY <1>0, <2>1, EachOnceDoneIO
<1>2. ASSUME NEW t \in IOThreads, ThreadStep(t) PROVE EachOnce'
  <2>1. /\ <<th[t].pc, th'[t].pc>> \in Moves
        /\ ~At(t, "idle") /\ (\A u \in IOThreads \ {t} : th'[u] = th[u])
        /\ th'[t].pc \notin {"idle", "register"} => th'[t].msg = th[t].msg
    BY <1>2, ThreadMoves
  <2>2. ~At(t, "packet")' /\ AtHand' \subseteq AtHand
    BY <2>1, ThreadsKeep DEF Moves, At
  <2>3. ASSUME ~At(t, "register"), response' = response PROVE Expected \subseteq Expected'
    BY <2>1, <2>3, ThreadsKeep
  <2>4. CASE CloseSocket(t)
    <3>1. /\ ~At(t, "register") /\ response' = response /\ queue' = queue /\ asked' = {}
          /\ sendBuf' = sendBuf /\ wire' = wire
      BY <2>4 DEF CloseSocket, At
    <3>2. ToSend' = ToSend /\ Queued' = Queued
      BY <3>1 DEF ToSend, Queued
    <3> QED BY <1>0, <2>2, <2>3, <3>1, <3>2, EachOnceKept
  <2>5. CASE ClearBuffers(t)
    <3>1. /\ ~At(t, "register") /\ response' = response /\ queue' = queue /\ asked' = asked
          /\ sendBuf' = <<>> /\ wire' = 0
      BY <2>5 DEF ClearBuffers, At
    <3>2. ToSend' = {} /\ Queued' = Queued /\ NoTwo(sendBuf', wire' + 1, "call")
      BY <3>1 DEF ToSend, Queued, KeysOf, NoTwo
    <3> QED BY <1>0, <2>2, <2>3, <3>1, <3>2, EachOnceKept
  <2>6. CASE OnSend_DoneIO(t)
    <3> DEFINE n == th[t].n
               rest == SubSeq(sendBuf, n + 1, Len(sendBuf))
    <3>1. /\ At(t, "write") /\ response' = response /\ queue' = queue /\ asked' = asked
          /\ wire' = IF wire < n THEN 0 ELSE wire - n
          /\ PostSend(rest) \/ sendBuf' = rest
      BY <2>6 DEF OnSend_DoneIO
    <3>2. n \in Nat /\ wire \in {0, n}
      BY <1>0, <3>1 DEF Transmitted, LinkType, Threads
    <3>3. wire' = 0 /\ wire + 1 \in 1 .. n + 1
      BY <1>0, <3>1, <3>2
    <3> HIDE DEF n
    <3>4. KeysOf(rest, 1, "call") \subseteq ToSend /\ NoTwo(rest, 1, "call")
      BY <1>0, <3>2, <3>3, KeysOfRest DEF ToSend
    <3> HIDE DEF rest
    <3>5. sendBuf' = rest
      BY <3>1 DEF PostSend
    <3>6. ToSend' = KeysOf(sendBuf', wire' + 1, "call")
      BY DEF ToSend
    <3>7. ToSend' \subseteq ToSend /\ NoTwo(sendBuf', wire' + 1, "call")
      BY <3>3, <3>4, <3>5, <3>6
    <3>8. Queued' = Queued /\ ~At(t, "register")
      BY <3>1 DEF Queued, At
    <3> QED BY <1>0, <2>2, <2>3, <3>1, <3>7, <3>8, EachOnceKept
  <2>7. CASE RecvMsg(t)
    <3>1. /\ At(t, "packet") /\ response' = response /\ asked' = asked
          /\ sendBuf' = sendBuf /\ wire' = wire
          /\ queue' = IF th[t].msg = None THEN queue ELSE Append(queue, th[t].msg)
      BY <2>7 DEF RecvMsg
    <3>2. th[t].msg \in Messages
      BY <1>0 DEF LinkType, Threads
    <3>3. AtHand' = {}
      BY <1>0, <2>1, <2>2, <3>1 DEF AtHand, Got, OneRead, Reading, At
    <3>4. th[t].msg.kind = "reply" => th[t].msg.key \in AtHand
      BY <3>1 DEF AtHand, Got
    <3>5. /\ Queued' \subseteq Queued \cup
               (IF th[t].msg.kind = "reply" THEN {th[t].msg.key} ELSE {})
          /\ NoTwo(queue', 1, "reply")
      <4>1. CASE queue' = queue
        BY <1>0, <4>1 DEF Queued
      <4>2. CASE queue' = Append(queue, th[t].msg)
        <5>1. th[t].msg.kind = "reply" => th[t].msg.key \notin KeysOf(queue, 1, "reply")
          BY <1>0, <3>4 DEF EachOnce, Queued
        <5>2. /\ KeysOf(queue', 1, "reply") \subseteq KeysOf(queue, 1, "reply") \cup
                   (IF th[t].msg.kind = "reply" THEN {th[t].msg.key} ELSE {})
              /\ NoTwo(queue', 1, "reply")
          <6> DEFINE m == th[t].msg
          <6>1. /\ m \in Messages /\ queue' = Append(queue, m) /\ 1 \in Nat \ {0}
                /\ m.kind = "reply" => m.key \notin KeysOf(queue, 1, "reply")
            BY <3>2, <4>2, <5>1
          <6> HIDE DEF m
          <6>2. /\ KeysOf(queue', 1, "reply") \subseteq KeysOf(queue, 1, "reply") \cup
                     (IF m.kind = "reply" THEN {m.key} ELSE {})
                /\ NoTwo(queue', 1, "reply")
            BY <1>0, <6>1, KeysAfterAppend
          <6> QED BY <6>2 DEF m
        <5> QED BY <5>2 DEF Queued
      <4> QED BY <3>1, <4>1, <4>2
    <3>6. ToSend' = ToSend /\ ~At(t, "register")
      BY <3>1 DEF ToSend, At
    <3> QED BY <1>0, <2>3, <3>1, <3>3, <3>4, <3>5, <3>6 DEF EachOnce
  <2>8. CASE CallRpc(t)
    <3> DEFINE m == Msg("call", reqIdx + 1)
    <3>1. /\ m \in Messages /\ m.kind = "call" /\ m.key = reqIdx + 1 /\ SendMsg(m)
          /\ th'[t].pc = "register" /\ th'[t].msg = m
      BY <1>0, <2>8, CallGoes
    <3> HIDE DEF m
    <3>2. /\ At(t, "call") /\ response' = response /\ asked' = asked /\ queue' = queue
          /\ wire' = wire
      BY <2>8 DEF CallRpc
    <3>3. m.key \notin Expected /\ reqIdx \in Nat
      BY <1>0, <3>1 DEF Keys, Expected, LinkType
    <3>4. ToSend' \subseteq ToSend \cup {m.key} /\ NoTwo(sendBuf', wire' + 1, "call")
      BY <1>0, <3>1, <3>2, <3>3, EachOnceSends
    <3>5. Expected \subseteq Expected' /\ m.key \in Expected'
      BY <2>3, <3>1, <3>2 DEF Expected, At
    <3>6. Queued' = Queued
      BY <3>2 DEF Queued
    <3> QED BY <1>0, <2>2, <3>2, <3>3, <3>4, <3>5, <3>6 DEF EachOnce
  <2>9. CASE RegistResponse(t)
    <3>1. /\ At(t, "register") /\ response' = response \cup {th[t].msg.key}
          /\ asked' = asked /\ queue' = queue /\ wire' = wire /\ sendBuf' = sendBuf
      BY <2>9 DEF RegistResponse
    <3>2. Expected \subseteq Expected'
      BY <2>1, <3>1 DEF Expected, At
    <3>3. ToSend' = ToSend /\ Queued' = Queued
      BY <3>1 DEF ToSend, Queued
    <3> QED BY <1>0, <2>2, <3>1, <3>2, <3>3, EachOnceKept
  <2>10. CASE SendConnId(t) \/ SendRegist(t)
    <3>1. PICK m \in Messages : SendMsg(m) /\ m.kind # "call"
      BY <1>2, <2>10, SendSteps DEF Msg
    <3>2. /\ ~At(t, "register") /\ response' = response /\ asked' = asked /\ queue' = queue
          /\ wire' = wire
      BY <2>10 DEF SendConnId, SendRegist, At
    <3>3. ToSend' \subseteq ToSend /\ NoTwo(sendBuf', wire' + 1, "call")
      BY <1>0, <3>1, <3>2, EachOnceSends
    <3>4. Queued' = Queued
      BY <3>2 DEF Queued
    <3> QED BY <1>0, <2>2, <2>3, <3>2, <3>3, <3>4, EachOnceKept
  <2>11. CASE \/ CloseState(t) \/ ForgetSocket(t) \/ AddTimer(t) \/ OnRead_DoneIO(t)
              \/ OnConnect(t) \/ OnConnectWrite(t)
    <3>1. /\ ~At(t, "register") /\ response' = response /\ asked' = asked /\ queue' = queue
          /\ wire' = wire /\ sendBuf' = sendBuf
      BY <2>11 DEF CloseState, ForgetSocket, AddTimer, OnRead_DoneIO, OnConnect,
                   OnConnectWrite, PostRecv, At
    <3>2. ToSend' = ToSend /\ Queued' = Queued
      BY <3>1 DEF ToSend, Queued
    <3> QED BY <1>0, <2>2, <2>3, <3>1, <3>2, EachOnceKept
  <2> QED BY <1>2, <2>4, <2>5, <2>6, <2>7, <2>8, <2>9, <2>10, <2>11 DEF ThreadStep, CloseLink
<1>3. CASE Connect \/ ConnectFails \/ GameCalls \/ Update \/ Drop \/ UNCHANGED rpcLinkVars
  <2>1. th' = th
    BY <1>3, OtherSteps
  <2>2. AtHand' = AtHand /\ Registering' = Registering
    BY <2>1 DEF AtHand, Got, Registering, At
  <2>3. Expected = response \cup Registering /\ Expected' = response' \cup Registering'
    BY DEF Expected, Registering
  <2>4. CASE Connect \/ ConnectFails \/ Drop \/ UNCHANGED rpcLinkVars
    <3>1. UNCHANGED <<response, asked, queue, wire, sendBuf>>
      BY <2>4 DEF Connect, ConnectFails, Drop, rpcLinkVars
    <3>2. ToSend' = ToSend /\ Queued' = Queued
      BY <3>1 DEF ToSend, Queued
    <3> QED BY <1>0, <2>2, <2>3, <3>1, <3>2, EachOnceKept
  <2>5. CASE GameCalls
    <3>1. PICK m \in Messages : SendMsg(m) /\ m.kind # "call"
      BY <2>5, SendSteps DEF Msg
    <3>2. UNCHANGED <<response, asked, queue, wire>>
      BY <2>5 DEF GameCalls
    <3>3. ToSend' \subseteq ToSend /\ NoTwo(sendBuf', wire' + 1, "call")
      BY <1>0, <3>1, <3>2, EachOnceSends
    <3>4. Queued' = Queued
      BY <3>2 DEF Queued
    <3> QED BY <1>0, <2>2, <2>3, <3>2, <3>3, <3>4, EachOnceKept
  <2>6. CASE Update
    <3> DEFINE m == Head(queue)
    <3>1. /\ queue # <<>> /\ queue' = Tail(queue) /\ UNCHANGED <<asked, wire, sendBuf>>
          /\ response' = IF m.kind = "reply" THEN response \ {m.key} ELSE response
      BY <2>6 DEF Update
    <3>2. /\ KeysOf(queue', 1, "reply") \subseteq KeysOf(queue, 1, "reply")
          /\ NoTwo(queue', 1, "reply")
          /\ m.kind = "reply" => /\ m.key \in KeysOf(queue, 1, "reply")
                                 /\ m.key \notin KeysOf(queue', 1, "reply")
      BY <1>0, <3>1, KeysOfTail
    <3> HIDE DEF m
    <3>3. /\ Queued' \subseteq Queued
          /\ m.kind = "reply" => m.key \in Queued /\ m.key \notin Queued'
      BY <3>2 DEF Queued
    <3>4. ToSend' = ToSend
      BY <3>1 DEF ToSend
    <3>5. CASE m.kind = "reply"
      BY <1>0, <2>2, <2>3, <3>1, <3>2, <3>3, <3>4, <3>5 DEF EachOnce
    <3>6. CASE m.kind # "reply"
      BY <1>0, <2>2, <2>3, <3>1, <3>2, <3>3, <3>4, <3>6, EachOnceKept
    <3> QED BY <3>5, <3>6
  <2> QED BY <1>3, <2>4, <2>5, <2>6
<1> QED BY <1>1, <1>2, <1>3, StepKinds

\* What the game's calls keep, too, as long as none of them comes between the two
\* assignments of OnConnect.
THEOREM RpcCallInvariant ==
  ASSUME ~Hurried
  PROVE  RpcSpec => [](LinkInv /\ CallInv)
<1> USE RpcLinkAssumption
<1>1. RpcInit => CallInv
  <2> SUFFICES ASSUME RpcInit PROVE CallInv
    OBVIOUS
  <2>1. \A t \in IOThreads : At(t, "idle") /\ th[t].msg = None
    BY MessageShapes DEF RpcInit, At
  <2>2. Fresh /\ OneRead /\ OneWrite /\ Transmitted
    BY <2>1 DEF RpcInit, Fresh, OneRead, Reading, OneWrite, Transmitted, At
  <2>3. /\ ToSend = {} /\ Queued = {} /\ asked = {}
        /\ NoTwo(sendBuf, wire + 1, "call") /\ NoTwo(queue, 1, "reply")
    BY DEF RpcInit, ToSend, Queued, KeysOf, NoTwo
  <2>4. AtHand = {}
    BY <2>1 DEF AtHand, Got, At
  <2>5. EachOnce
    BY <2>3, <2>4 DEF EachOnce
  <2> QED BY <2>2, <2>5 DEF CallInv
<1>2. LinkInv /\ CallInv /\ [RpcNext]_rpcLinkVars => CallInv'
  <2> SUFFICES ASSUME LinkInv, CallInv, [RpcNext]_rpcLinkVars PROVE CallInv'
    OBVIOUS
  <2>1. Fresh' /\ OneRead' /\ OneWrite' /\ Transmitted'
    BY FreshStep, OneReadStep, OneWriteStep, TransmittedStep DEF CallInv
  <2>2. EachOnce'
    BY EachOnceStep
  <2> QED BY <2>1, <2>2 DEF CallInv
<1> QED BY <1>1, <1>2, RpcLinkInvariant, PTL DEF RpcSpec

\* _ovSend and _ovRecv serve one operation at a time.
THEOREM RpcOneOperation ==
  ASSUME ~Hurried
  PROVE  RpcSpec => []OneOperation
<1>1. LinkInv /\ CallInv => OneOperation
  <2> SUFFICES ASSUME LinkInv, CallInv, NEW o \in ops, NEW p \in ops,
                      (o.io = "read") = (p.io = "read")
               PROVE  o = p
    BY DEF OneOperation
  <2>1. o.io \in {"connect", "read", "write"} /\ p.io \in {"connect", "read", "write"}
    BY DEF LinkInv, LinkType, Operations
  <2>2. CASE o.io = "connect" \/ p.io = "connect"
    BY <2>2 DEF LinkInv, Connects
  <2>3. CASE o.io # "connect" /\ p.io # "connect"
    BY <2>1, <2>3 DEF CallInv, OneRead, OneWrite
  <2> QED BY <2>2, <2>3
<1> QED BY <1>1, RpcCallInvariant, PTL

\* The messages of a connection are transmitted in order, each once.
THEOREM RpcSendOnce ==
  ASSUME ~Hurried
  PROVE  RpcSpec => []SendOnce
<1>1. CallInv => SendOnce
  BY DEF CallInv, OneWrite, Transmitted, SendOnce
<1> QED BY <1>1, RpcCallInvariant, PTL

\* Nothing but RpcQueue::Update takes a packet out of the queue.
LEMMA OnlyUpdateTakes ==
  ASSUME LinkInv, [RpcNext]_rpcLinkVars, queue # <<>>, queue' = Tail(queue)
  PROVE  Update
<1>1. queue \in Seq(Messages) /\ \A t \in IOThreads : th[t].msg \in Messages
  BY DEF LinkInv, LinkType, Threads
<1>2. Len(queue') = Len(queue) - 1 /\ Len(queue) \in Nat
  BY <1>1, HeadTailProperties, LenProperties
<1>3. ASSUME queue' = queue PROVE FALSE
  BY <1>2, <1>3
<1>4. ASSUME NEW t \in IOThreads, queue' = Append(queue, th[t].msg) PROVE FALSE
  <2>1. Len(queue') = Len(queue) + 1
    BY <1>1, <1>4, AppendProperties
  <2> QED BY <1>2, <2>1
<1>5. ASSUME NEW t \in IOThreads, ThreadStep(t) PROVE FALSE
  <2>1. CASE RecvMsg(t)
    BY <1>3, <1>4, <2>1 DEF RecvMsg
  <2>2. CASE ~RecvMsg(t)
    BY <1>3, <1>5, <2>2 DEF ThreadStep, CloseLink, CloseState, CloseSocket, ForgetSocket,
       ClearBuffers, AddTimer, OnSend_DoneIO, OnRead_DoneIO, PostRecv, OnConnect,
       OnConnectWrite, SendConnId, SendRegist, CallRpc, RegistResponse, rpcVars
  <2> QED BY <2>1, <2>2
<1>6. ASSUME NEW t \in IOThreads, NEW io, DoneIO(t, io) PROVE FALSE
  BY <1>3, <1>6 DEF DoneIO, rpcVars
<1>7. CASE Connect \/ ConnectFails \/ GameCalls \/ Drop \/ UNCHANGED rpcLinkVars
  BY <1>3, <1>7 DEF Connect, ConnectFails, GameCalls, Drop, rpcLinkVars, rpcVars
<1> QED BY <1>5, <1>6, <1>7, StepKinds

\* Every reply that is handled has its callback, if the main thread handles none whose
\* call has not come back from SendMsg, however often the link was lost and made again.
THEOREM RpcReplyExpected ==
  ASSUME ~Hurried, ~Overtaking
  PROVE  RpcSpec => ReplyExpected
<1> DEFINE Takes == queue # <<>> /\ queue' = Tail(queue) /\ Head(queue).kind = "reply"
<1>1. ASSUME LinkInv, CallInv, [RpcNext]_rpcLinkVars, Takes
      PROVE  Head(queue).key \in response
  <2>1. queue \in Seq(Messages) /\ 1 \in 1 .. Len(queue) /\ queue[1] = Head(queue)
    <3>1. queue \in Seq(Messages) /\ queue # <<>>
      BY <1>1 DEF LinkInv, LinkType
    <3> QED BY <3>1, HeadTailProperties, EmptySeq, LenProperties
  <2>2. Head(queue).key \in Queued
    BY <1>1, <2>1 DEF Queued, KeysOf
  <2>3. Head(queue).key \in Expected
    BY <1>1, <2>2 DEF CallInv, EachOnce
  <2>4. ~BeforeCallback(Head(queue))
    BY <1>1, OnlyUpdateTakes DEF Update
  <2> QED BY <1>1, <2>3, <2>4 DEF Expected, BeforeCallback
<1>2. LinkInv /\ CallInv /\ [RpcNext]_rpcLinkVars
        => [Takes => Head(queue).key \in response]_rpcLinkVars
  BY <1>1
<1> QED BY <1>2, RpcCallInvariant, PTL DEF ReplyExpected, RpcSpec
=============================================================================
