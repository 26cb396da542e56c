------------------------------ MODULE ServLink ------------------------------
(***************************************************************************)
(* The iocp server: ServLinkMgr keeps a vector of links, each of which is  *)
(* used for one socket after another. Completions run on the threads of    *)
(* the system's pool (DoneIO), the assist thread sends what is left and    *)
(* maintains the links, and the game's thread sends messages. Only the     *)
(* send buffer is behind a lock; everything else is read and written       *)
(* unguarded, so that each such access is a step of its own here.          *)
(***************************************************************************)
EXTENDS Integers, FiniteSets

CONSTANTS
  MaxLink,    \* dwMaxLink; links are numbered in the order of _vecLink
  PreLink,    \* nPreLink
  PreAccept,  \* nPreAccept
  Workers,    \* threads that run completions
  Assist,     \* the thread of _AssistLoop
  Logic,      \* the thread that sends messages
  Clients,    \* processes that connect; each stands for its player, too
  NoClient,   \* NULL
  Handles,    \* what the system names sockets by
  NoSocket,   \* INVALID_SOCKET
  AcceptExFails,  \* whether AcceptEx may fail
  MaxPeers,   \* bound: clients that are connected at a time
  MaxUnits    \* bound: messages in the send buffer of a link

ASSUME ServLinkAssumption ==
  /\ MaxLink \in Nat \ {0} /\ PreLink \in 1 .. MaxLink /\ PreAccept \in 1 .. PreLink
  /\ IsFiniteSet(Workers) /\ Assist # Logic /\ Workers \cap {Assist, Logic} = {}
  /\ NoClient \notin Clients /\ NoSocket \notin Handles
  /\ AcceptExFails \in BOOLEAN /\ MaxUnits \in Nat

Links   == 1 .. MaxLink
Threads == Workers \cup {Assist, Logic}

VARIABLES
  nLink,     \* _vecLink.size()
  eState, sock, bInvalid, canWrite, player,  \* _eState, _sClient, ...
  sendBuf,   \* how many messages are in _sendBuf
  age,       \* time since _timeInvalid: 0 up to 1 s, 1 up to 5 s, 2 more
  nInvalid, nAccept, nConnect,               \* the counters of ServLinkMgr
  th,        \* where each thread is, in which link, and what it works on
  ops,       \* overlapped operations the system has not completed
  open,      \* handles of open sockets
  peer,      \* the client at the other end of a socket
  wire       \* how many of the messages in its buffer a link has transmitted

linkVars  == <<nLink, eState, sock, bInvalid, canWrite, player, sendBuf, age>>
countVars == <<nInvalid, nAccept, nConnect>>
netVars   == <<ops, open, peer, wire>>
slVars    == <<linkVars, countVars, netVars, th>>

Busy(pc, l) == [pc |-> pc, link |-> l, ret |-> "idle", n |-> 0, who |-> NoClient]
Idle == Busy("idle", 1)
\* The system keeps as many operations of a link apart as it was given (nth).
Op(l, io, h, n) == [link |-> l, io |-> io, sock |-> h, n |-> n,
                    nth |-> Cardinality({o \in ops : o.link = l /\ o.io = io})]

\* ServLinkMgr::Start: the first links are made, the first of them accept.
ServInit ==
  /\ nLink = PreLink
  /\ eState = [l \in Links |-> IF l <= PreAccept THEN "accepting" ELSE "dead"]
  /\ \E h \in [1 .. PreAccept -> Handles] :
       /\ \A i, j \in 1 .. PreAccept : h[i] = h[j] => i = j
       /\ sock = [l \in Links |-> IF l <= PreAccept THEN h[l] ELSE NoSocket]
       /\ ops = {[link |-> l, io |-> "read", sock |-> h[l], n |-> 0, nth |-> 0]
                   : l \in 1 .. PreAccept}
       /\ open = {h[l] : l \in 1 .. PreAccept}
  /\ bInvalid = [l \in Links |-> FALSE]
  /\ canWrite = [l \in Links |-> FALSE]
  /\ player = [l \in Links |-> NoClient]
  /\ sendBuf = [l \in Links |-> 0]
  /\ age = [l \in Links |-> 0]
  /\ nInvalid = MaxLink - PreAccept /\ nAccept = PreAccept /\ nConnect = 0
  /\ th = [t \in Threads |-> Idle]
  /\ peer = [h \in Handles |-> NoClient]
  /\ wire = [l \in Links |-> 0]

At(t, pc) == th[t].pc = pc
Goto(t, pc) == th' = [th EXCEPT ![t] =
                 CASE pc = "idle" -> Idle
                   [] pc = "next" -> Busy("look", @.link + 1)
                   [] OTHER -> [@ EXCEPT !.pc = pc, !.ret = "idle"]]
\* A call of OnInvalidMessage that continues at ret.
Call(t, ret) == th' = [th EXCEPT ![t].pc = "invalid", ![t].ret = ret]

-----------------------------------------------------------------------------
(* OnInvalidMessage, on any thread                                         *)

CheckInvalid(t) ==
  /\ At(t, "invalid")
  /\ \/ bInvalid[th[t].link] /\ Goto(t, th[t].ret)
     \/ ~bInvalid[th[t].link] /\ th' = [th EXCEPT ![t].pc = "shut"]
  /\ UNCHANGED <<linkVars, countVars, netVars>>

Invalid(t) ==
  /\ At(t, "shut")
  /\ bInvalid' = [bInvalid EXCEPT ![th[t].link] = TRUE]
  /\ age' = [age EXCEPT ![th[t].link] = 0]
  /\ th' = [th EXCEPT ![t].pc = "report"]
  /\ UNCHANGED <<nLink, eState, sock, canWrite, player, sendBuf, countVars, netVars>>

\* Fault: the link keeps its player.
ReportErrorMsgKeeps(t) ==
  /\ At(t, "report") /\ Goto(t, th[t].ret)
  /\ UNCHANGED <<linkVars, countVars, netVars>>

\* _ReportErrorMsg(_player) has been called; _player = NULL.
ReportErrorMsg(t) ==
  /\ At(t, "report")
  /\ player' = [player EXCEPT ![th[t].link] = NoClient]
  /\ Goto(t, th[t].ret)
  /\ UNCHANGED <<nLink, eState, sock, bInvalid, canWrite, sendBuf, age, countVars, netVars>>

-----------------------------------------------------------------------------
(* Completions                                                             *)

\* What DoneIO does next in l: an error invalidates the link at once; no byte may
\* mean that the connection is closed; received bytes are not looked at when the
\* link is invalid or dead.
AfterIO(l, io, res) ==
  CASE res = "error" -> {"idle"}
    [] res = "zero"  -> {"idle", "invalid"}
    [] res = "data" /\ io = "write" -> {"write"}
    [] OTHER -> IF bInvalid[l] \/ eState[l] = "dead" THEN {"idle"}
                ELSE IF eState[l] = "accepting" THEN {"accept"} ELSE {"packet"}

\* The system completes an operation and a thread of its pool runs DoneIO.
\* Operations of a closed socket end with an error.
DoneIO(t) ==
  \E o \in ops, res \in {"error", "zero", "data"} :
  \E k \in IF o.io = "write" /\ res = "data" THEN 1 .. o.n ELSE {0},
     pc \in AfterIO(o.link, o.io, res) :
    /\ At(t, "idle")
    /\ res # "error" => o.sock # NoSocket /\ peer[o.sock] # NoClient
    /\ o.io = "write" => res # "zero"
    /\ ops' = ops \ {o}
    /\ wire' = [wire EXCEPT ![o.link] = @ + k]
    /\ th' = [th EXCEPT ![t] =
         IF pc = "idle" THEN Idle
         ELSE [pc |-> pc, link |-> o.link, ret |-> "idle", n |-> k,
               who |-> IF pc \in {"accept", "packet"} THEN peer[o.sock] ELSE NoClient]]
    /\ bInvalid' = [bInvalid EXCEPT ![o.link] = @ \/ res = "error"]
    /\ age' = [age EXCEPT ![o.link] = IF res = "error" THEN 0 ELSE @]
    /\ UNCHANGED <<nLink, eState, sock, canWrite, player, sendBuf, countVars, open, peer>>

\* PostSend, under the lock: all n messages of the buffer.
PostSend(t, l, n) ==
  /\ canWrite' = [canWrite EXCEPT ![l] = FALSE]
  /\ sendBuf' = [sendBuf EXCEPT ![l] = n]
  /\ \/ /\ sock[l] \in open
        /\ ops' = ops \cup {Op(l, "write", sock[l], n)}
        /\ Goto(t, "idle")
     \/ th' = [th EXCEPT ![t] = Busy("invalid", l)] /\ UNCHANGED ops

\* DoneIOCallback looks at the state before OnSend_DoneIO has the lock.
StillConnected(t) ==
  /\ At(t, "write")
  /\ IF eState[th[t].link] = "connected" THEN th' = [th EXCEPT ![t].pc = "sent"]
     ELSE Goto(t, "idle")
  /\ UNCHANGED <<linkVars, countVars, netVars>>

\* readerMove empties the buffer when it has less than was transmitted.
OnSend_DoneIO(t) ==
  LET l == th[t].link
      rest == IF th[t].n < sendBuf[l] THEN sendBuf[l] - th[t].n ELSE 0
  IN  /\ At(t, "sent")
      /\ wire' = [wire EXCEPT ![l] = @ - th[t].n]
      /\ IF rest > 0 THEN PostSend(t, l, rest)
         ELSE /\ canWrite' = [canWrite EXCEPT ![l] = TRUE]
              /\ sendBuf' = [sendBuf EXCEPT ![l] = 0]
              /\ Goto(t, "idle") /\ UNCHANGED ops
      /\ UNCHANGED <<nLink, eState, sock, bInvalid, player, age, countVars, open, peer>>

\* AcceptEx is done; binding the socket to the pool may fail.
OnAccept(t) ==
  LET l == th[t].link
  IN  /\ At(t, "accept")
      /\ canWrite' = [canWrite EXCEPT ![l] = TRUE]
      /\ \/ eState' = [eState EXCEPT ![l] = "connected"] /\ Goto(t, "connect")
         \/ Call(t, "idle") /\ UNCHANGED eState
      /\ UNCHANGED <<nLink, sock, bInvalid, player, sendBuf, age, countVars, netVars>>

LinkOnConnect(t) ==
  /\ At(t, "connect")
  /\ nConnect' = nConnect + 1 /\ nAccept' = nAccept - 1
  /\ Goto(t, "packet")
  /\ UNCHANGED <<linkVars, nInvalid, netVars>>

\* Of what was received, what is left is no whole packet, or one that is too big,
\* or one to handle; a link that has become invalid passes over it.
RecvMsg(t) ==
  LET l == th[t].link
  IN  /\ At(t, "packet")
      /\ \/ Goto(t, "post")
         \/ Call(t, "post")
         \/ ~bInvalid[l] /\ Goto(t, IF player[l] = NoClient THEN "bind" ELSE "handle")
      /\ UNCHANGED <<linkVars, countVars, netVars>>

\* The game refuses a client whose first message is no login.
BindLinkAndPlayer(t) ==
  /\ At(t, "bind")
  /\ \/ player' = [player EXCEPT ![th[t].link] = th[t].who] /\ Goto(t, "handle")
     \/ Call(t, "handle") /\ UNCHANGED player
  /\ UNCHANGED <<nLink, eState, sock, bInvalid, canWrite, sendBuf, age, countVars, netVars>>

\* The message goes to _player; a client may have sent too many.
HandleClientMsg(t) ==
  /\ At(t, "handle")
  /\ Goto(t, "packet") \/ Call(t, "packet")
  /\ UNCHANGED <<linkVars, countVars, netVars>>

PostRecv(t) ==
  LET l == th[t].link
  IN  /\ At(t, "post")
      /\ \/ /\ eState[l] = "connected" /\ sock[l] \in open
            /\ ops' = ops \cup {Op(l, "read", sock[l], 0)}
            /\ Goto(t, "idle")
         \/ eState[l] = "connected" /\ Call(t, "idle") /\ UNCHANGED ops
         \/ eState[l] # "connected" /\ Goto(t, "idle") /\ UNCHANGED ops
      /\ UNCHANGED <<linkVars, countVars, open, peer, wire>>

Complete(t) ==
  \/ DoneIO(t) \/ StillConnected(t) \/ OnSend_DoneIO(t) \/ OnAccept(t)
  \/ LinkOnConnect(t) \/ RecvMsg(t) \/ BindLinkAndPlayer(t) \/ HandleClientMsg(t) \/ PostRecv(t)

-----------------------------------------------------------------------------
(* The game's thread: SendMsg, BroadcastMsg                                *)

\* A message that is too long invalidates the link.
CheckLink(l) ==
  /\ At(Logic, "idle")
  /\ l <= nLink /\ eState[l] = "connected" /\ ~bInvalid[l] /\ sendBuf[l] < MaxUnits
  /\ \E pc \in {"append", "invalid"} : th' = [th EXCEPT ![Logic] = Busy(pc, l)]
  /\ UNCHANGED <<linkVars, countVars, netVars>>

\* Fault: sends while the last send is pending.
SendMsgNow ==
  LET l == th[Logic].link
  IN  /\ At(Logic, "append") /\ PostSend(Logic, l, sendBuf[l] + 1)
      /\ UNCHANGED <<nLink, eState, sock, bInvalid, player, age, countVars, open, peer, wire>>

\* Few bytes wait for more, or for the assist thread.
SendMsg ==
  LET l == th[Logic].link
  IN  /\ At(Logic, "append")
      /\ \/ canWrite[l] /\ PostSend(Logic, l, sendBuf[l] + 1)
         \/ /\ sendBuf' = [sendBuf EXCEPT ![l] = @ + 1]
            /\ Goto(Logic, "idle") /\ UNCHANGED <<canWrite, ops>>
      /\ UNCHANGED <<nLink, eState, sock, bInvalid, player, age, countVars, open, peer, wire>>

-----------------------------------------------------------------------------
(* The assist thread                                                       *)

\* Fault: does not ask whether a send is pending.
ServerRun_SendIOTwice(l) ==
  /\ At(Assist, "idle")
  /\ l <= nLink /\ eState[l] = "connected" /\ sendBuf[l] > 0
  /\ PostSend(Assist, l, sendBuf[l])
  /\ UNCHANGED <<nLink, eState, sock, bInvalid, player, age, countVars, open, peer, wire>>

ServerRun_SendIO(l) ==
  /\ At(Assist, "idle")
  /\ l <= nLink /\ eState[l] = "connected"
  /\ canWrite[l] /\ sendBuf[l] > 0
  /\ PostSend(Assist, l, sendBuf[l])
  /\ UNCHANGED <<nLink, eState, sock, bInvalid, player, age, countVars, open, peer, wire>>

\* ServLinkMgr::Maintain and Maintain of the link: an invalid one is closed, one
\* without traffic becomes invalid, a free one accepts if it is needed.
Maintain ==
  LET l == th[Assist].link
  IN  /\ At(Assist, "look") /\ l <= nLink
      /\ IF sock[l] = NoSocket
         THEN Goto(Assist, IF nAccept < PreAccept THEN "create" ELSE "next")
         ELSE IF bInvalid[l] /\ age[l] > 0
         THEN Goto(Assist, IF eState[l] # "connected" \/ age[l] = 2 THEN "close" ELSE "next")
         ELSE \/ Goto(Assist, "next")
              \/ eState[l] = "accepting" /\ peer[sock[l]] # NoClient /\ Call(Assist, "next")
              \/ eState[l] = "connected" /\ Call(Assist, "next")
      /\ UNCHANGED <<linkVars, countVars, netVars>>

\* All links are looked at; new ones are made while too few accept.
NewLink ==
  /\ At(Assist, "look") /\ th[Assist].link > nLink
  /\ IF nAccept < PreAccept /\ nLink < MaxLink
     THEN nLink' = nLink + 1 /\ Goto(Assist, "create")
     ELSE Goto(Assist, "idle") /\ UNCHANGED nLink
  /\ UNCHANGED <<eState, sock, bInvalid, canWrite, player, sendBuf, age, countVars, netVars>>

\* CreateLinkAndAccept; _timeInvalid = 0 is long ago.
CreateLink ==
  LET l == th[Assist].link
  IN  /\ At(Assist, "create")
      /\ sendBuf' = [sendBuf EXCEPT ![l] = 0]
      /\ canWrite' = [canWrite EXCEPT ![l] = FALSE]
      /\ bInvalid' = [bInvalid EXCEPT ![l] = FALSE]
      /\ age' = [age EXCEPT ![l] = 2]
      /\ eState' = [eState EXCEPT ![l] = "accepting"]
      /\ wire' = [wire EXCEPT ![l] = 0]
      /\ Goto(Assist, "socket")
      /\ UNCHANGED <<nLink, sock, player, countVars, ops, open, peer>>

PostAccept ==
  LET l == th[Assist].link
  IN  /\ At(Assist, "socket")
      /\ \E h \in Handles \ open :
           /\ sock' = [sock EXCEPT ![l] = h]
           /\ open' = open \cup {h}
           /\ ops' = ops \cup {Op(l, "read", h, 0)}
      /\ Goto(Assist, "count")
      /\ UNCHANGED <<nLink, eState, bInvalid, canWrite, player, sendBuf, age, countVars,
                     peer, wire>>

\* No socket, an option that is refused, or AcceptEx fails: that one closes the
\* socket and keeps its handle.
AcceptFails ==
  LET l == th[Assist].link
  IN  /\ At(Assist, "socket")
      /\ \/ UNCHANGED <<sock, open>>
         \/ \E h \in Handles \ open : /\ sock' = [sock EXCEPT ![l] = h]
                                     /\ \/ open' = open \cup {h}
                                        \/ AcceptExFails /\ UNCHANGED open
      /\ bInvalid' = [bInvalid EXCEPT ![l] = TRUE]
      /\ eState' = [eState EXCEPT ![l] = "dead"]
      /\ Goto(Assist, "next")
      /\ UNCHANGED <<nLink, canWrite, player, sendBuf, age, countVars, ops, peer, wire>>

LinkOnCreate ==
  /\ At(Assist, "count")
  /\ nAccept' = nAccept + 1 /\ nInvalid' = nInvalid - 1
  /\ Goto(Assist, "next")
  /\ UNCHANGED <<linkVars, nConnect, netVars>>

\* Fault: a link that waits for a client counts as a connected one.
CloseCountConnected ==
  /\ At(Assist, "close")
  /\ nConnect' = nConnect - (IF eState[th[Assist].link] = "dead" THEN 0 ELSE 1)
  /\ nInvalid' = nInvalid + (IF eState[th[Assist].link] = "dead" THEN 0 ELSE 1)
  /\ Goto(Assist, "closesocket")
  /\ UNCHANGED <<linkVars, nAccept, netVars>>

\* CloseLink: the counters, the socket, the buffer, the state, the player. The buffer
\* is emptied without the lock.
CloseCount ==
  LET s == eState[th[Assist].link]
  IN  /\ At(Assist, "close")
      /\ nAccept' = nAccept - (IF s = "accepting" THEN 1 ELSE 0)
      /\ nConnect' = nConnect - (IF s = "connected" THEN 1 ELSE 0)
      /\ nInvalid' = nInvalid + (IF s = "dead" THEN 0 ELSE 1)
      /\ Goto(Assist, "closesocket")
      /\ UNCHANGED <<linkVars, netVars>>

\* Operations of a closed socket are aborted: they get NoSocket here.
CloseSocket ==
  LET l == th[Assist].link
      h == sock[l]
  IN  /\ At(Assist, "closesocket")
      /\ sock' = [sock EXCEPT ![l] = NoSocket]
      /\ open' = open \ {h}
      /\ peer' = [peer EXCEPT ![h] = NoClient]
      /\ ops' = {IF o.sock = h THEN [o EXCEPT !.sock = NoSocket] ELSE o : o \in ops}
      /\ Goto(Assist, "clear")
      /\ UNCHANGED <<nLink, eState, bInvalid, canWrite, player, sendBuf, age, countVars, wire>>

CloseClear ==
  /\ At(Assist, "clear")
  /\ sendBuf' = [sendBuf EXCEPT ![th[Assist].link] = 0]
  /\ Goto(Assist, "dead")
  /\ UNCHANGED <<nLink, eState, sock, bInvalid, canWrite, player, age, countVars, netVars>>

CloseDead ==
  /\ At(Assist, "dead")
  /\ eState' = [eState EXCEPT ![th[Assist].link] = "dead"]
  /\ th' = [th EXCEPT ![Assist].pc = "report", ![Assist].ret = "next"]
  /\ UNCHANGED <<nLink, sock, bInvalid, canWrite, player, sendBuf, age, countVars, netVars>>

AssistStep ==
  \/ Maintain \/ NewLink \/ CreateLink \/ PostAccept
  \/ AcceptFails \/ LinkOnCreate \/ CloseCount \/ CloseSocket \/ CloseClear \/ CloseDead

-----------------------------------------------------------------------------
(* Clients and time                                                        *)

Connect(c) ==
  /\ \A h \in Handles : peer[h] # c
  /\ Cardinality({h \in Handles : peer[h] # NoClient}) < MaxPeers
  /\ \E o \in ops :
       /\ o.sock # NoSocket /\ eState[o.link] = "accepting" /\ peer[o.sock] = NoClient
       /\ peer' = [peer EXCEPT ![o.sock] = c]
  /\ UNCHANGED <<linkVars, countVars, th, ops, open, wire>>

\* CHECK_INTERVAL has passed and the assist thread maintains the links.
\* Bound: a handler, a message and the completions of a closed socket take less
\* than a second, for which an invalid link is kept.
Second ==
  /\ \A t \in Threads : At(t, "idle")
  /\ \A o \in ops : o.sock # NoSocket
  /\ th' = [th EXCEPT ![Assist] = Busy("look", 1)]
  /\ age' = [l \in Links |-> IF bInvalid[l] /\ age[l] < 2 THEN age[l] + 1 ELSE age[l]]
  /\ UNCHANGED <<nLink, eState, sock, bInvalid, canWrite, player, sendBuf, countVars, netVars>>

OnInvalidMessage(t) == CheckInvalid(t) \/ Invalid(t) \/ ReportErrorMsg(t)

ServNext ==
  \/ \E t \in Threads : OnInvalidMessage(t)
  \/ \E t \in Workers : Complete(t)
  \/ \E l \in Links : CheckLink(l) \/ ServerRun_SendIO(l)
  \/ SendMsg \/ AssistStep \/ Second
  \/ \E c \in Clients : Connect(c)

ServSpec == ServInit /\ [][ServNext]_slVars

-----------------------------------------------------------------------------
(* Properties                                                              *)

ServTypeOK ==
  /\ nLink \in Links
  /\ eState \in [Links -> {"dead", "accepting", "connected"}]
  /\ sock \in [Links -> Handles \cup {NoSocket}]
  /\ bInvalid \in [Links -> BOOLEAN] /\ canWrite \in [Links -> BOOLEAN]
  /\ player \in [Links -> Clients \cup {NoClient}]
  /\ sendBuf \in [Links -> 0 .. MaxUnits] /\ wire \in [Links -> 0 .. MaxUnits]
  /\ age \in [Links -> 0 .. 2]
  /\ open \subseteq Handles

Closing == {l \in Links : th[Assist].link = l /\ th[Assist].pc \in {"closesocket", "clear", "dead"}}
Making == {l \in Links : th[Assist].link = l /\ th[Assist].pc \in {"socket", "count"}}
Connecting == {t \in Workers : At(t, "connect")}

\* The counters by which the manager decides how many links must accept agree
\* with the states of the links, but for the thread that is between the two.
CountersAgree ==
  LET In(s) == Cardinality({l \in Links \ Closing : eState[l] = s})
  IN  /\ ServTypeOK
      /\ nConnect = In("connected") - Cardinality(Connecting)
      /\ nAccept = In("accepting") + Cardinality(Connecting) - Cardinality(Making)
      /\ nInvalid = MaxLink - nConnect - nAccept

\* What a client sends is handled for its own player or for none, and a link
\* that still has its socket has the player of the client at the other end.
OwnPlayer ==
  /\ \A t \in Workers : At(t, "handle") => player[th[t].link] \in {th[t].who, NoClient}
  /\ \A l \in Links : sock[l] \in open /\ eState[l] = "connected" /\ player[l] # NoClient
                        => peer[sock[l]] = player[l]

\* One operation at a time uses an overlapped structure, and a link starts again
\* with none pending.
OverlappedFree ==
  /\ \A o, p \in ops : o.link = p.link /\ o.io = p.io => o = p
  /\ At(Assist, "create") => \A o \in ops : o.link # th[Assist].link

\* The assertion of OnSend_DoneIO: the buffer has what has been transmitted of it.
AssertSent ==
  \A t \in Workers : At(t, "sent") => sendBuf[th[t].link] >= th[t].n

\* The messages of a connection are transmitted in the order they were appended
\* in, none is lost and none is sent twice: when the buffer is being sent from its
\* start, nothing in it has been transmitted.
SentInOrder ==
  \A o \in ops : o.io = "write" /\ o.sock # NoSocket => wire[o.link] = 0
=============================================================================
