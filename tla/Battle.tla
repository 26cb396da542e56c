------------------------------- MODULE Battle -------------------------------
(***************************************************************************)
(* svr_battle as a whole: the main loop, the raknet links of the clients   *)
(* (UdpServer, UdpClientAgent), the queue of received messages (RpcQueue)  *)
(* and the rooms and players of module Room, which its handlers drive.     *)
(*                                                                         *)
(* A turn of the loop runs the due timers, reads packets, handles every    *)
(* queued message and then the requests of the cross server. Agents are    *)
(* cells of a pool that is reused first in, first out: m_guid and m_player *)
(* of a freed cell keep their values until the cell is used again, and a   *)
(* Player may still point to it.                                           *)
(*                                                                         *)
(* A first message that names no player ends the process. Assertions are   *)
(* off: where one would fail, the model goes on as that build does.        *)
(***************************************************************************)
EXTENDS Room, Sequences, SequencesExt

CONSTANTS
  Guids,    \* client processes (RakNetGUID)
  Owner,    \* Owner[g]: the pid process g logs in with
  Cells,    \* cells of the UdpClientAgent pool; bound: it never grows
  NoCell,   \* a null UdpClientAgent*
  NoSlot,   \* a null Player*
  QueueMax  \* bound: messages queued in one turn

ASSUME OwnerAssumption == Owner \in [Guids -> Pids]
ASSUME NullAssumption  == NoCell \notin Cells /\ NoSlot \notin Slots
ASSUME PoolAssumption  == IsFiniteSet(Cells) /\ Guids # {}

\* What a client sends; "neterror" is what the server tells itself.
Ops == {"login", "reconnect", "logout", "exitroom", "joinroom"}

VARIABLES
  phase,   \* what the main loop does: "timer", "net", "rpc", "cross"; "down":
           \* the process is gone
  net,     \* the links and the queue, see NetType
  netLink  \* netLink[s]: Player::_netLink, an agent or NoCell

battleVars == <<phase, net, netLink, vars>>

\* net.link[g]: the agent m_clientList has for g; net.guid[c], net.player[c]:
\* the fields of agent c; net.free: the pool's queue; net.queue: m_queue.
NetType ==
  [link   : [Guids -> Cells \cup {NoCell}],
   guid   : [Cells -> Guids],
   player : [Cells -> Slots \cup {NoSlot}],
   free   : Seq(Cells),
   queue  : Seq([to : Slots, op : Ops \cup {"neterror"}])]

BattleInit ==
  /\ Init
  /\ phase   = "timer"
  /\ net = [link   |-> [g \in Guids |-> NoCell],
            guid   |-> [c \in Cells |-> CHOOSE g \in Guids : TRUE],
            player |-> [c \in Cells |-> NoSlot],
            free   |-> SetToSeq(Cells),
            queue  |-> <<>>]
  /\ netLink = [s \in Slots |-> NoCell]

-----------------------------------------------------------------------------
(* The links, as functions of the state n of the network                   *)

\* RpcQueue::Insert.
Insert(n, s, op) == [n EXCEPT !.queue = Append(@, [to |-> s, op |-> op])]

\* ReportErrorMsg: a link that has a player puts an error in the queue.
ReportErrorMsg(n, s) == IF s = NoSlot THEN n ELSE Insert(n, s, "neterror")

\* Fault: the agent is freed but stays in m_clientList.
OnLinkClosedKeeps(n, g) ==
  LET c == n.link[g]
  IN  IF c = NoCell THEN n
      ELSE [ReportErrorMsg(n, n.player[c]) EXCEPT !.player[c] = NoSlot, !.free = Append(@, c)]

\* OnLinkClosed and RemoveClientAgent: nothing when g has no agent.
OnLinkClosed(n, g) ==
  LET c == n.link[g]
  IN  IF c = NoCell
      THEN n
      ELSE [ReportErrorMsg(n, n.player[c]) EXCEPT
              !.player[c] = NoSlot, !.link[g] = NoCell, !.free = Append(@, c)]

DropNothing(n, c) == n  \* fault: the former link is left as it is

\* UdpClientAgent::CloseLink: agent c closes whatever its m_guid finds, and then
\* clears its own m_player, also when it has been freed by that.
CloseLink(n, c) == [OnLinkClosed(n, n.guid[c]) EXCEPT !.player[c] = NoSlot]

\* ResetNetLink's farewell to the agent c a Player points to: a Player is not
\* told when that agent is gone.
DropLink(n, c) ==
  IF c = NoCell THEN n ELSE CloseLink([n EXCEPT !.player[c] = NoSlot], c)

\* HandleClientMsg: as m_roomId and m_gameObject of IRole are never set, every
\* player counts as being in no room, and only these messages pass.
HandleClientMsg(n, s, op) == IF op = "exitroom" THEN n ELSE Insert(n, s, op)

-----------------------------------------------------------------------------
(* Reading packets                                                         *)

\* AddClientAgent for a new connection.
Connect(g) ==
  /\ phase = "net"
  /\ net.link[g] = NoCell
  /\ net.free # <<>>
  /\ LET c == Head(net.free)
     IN  net' = [net EXCEPT !.link[g] = c, !.guid[c] = g, !.player[c] = NoSlot,
                            !.free = Tail(@)]
  /\ UNCHANGED <<phase, netLink, vars>>

\* ID_DISCONNECTION_NOTIFICATION and ID_CONNECTION_LOST.
Disconnect(g) ==
  /\ phase = "net"
  /\ net.link[g] # NoCell
  /\ Len(net.queue) < QueueMax
  /\ net' = OnLinkClosed(net, g)
  /\ UNCHANGED <<phase, netLink, vars>>

\* RecvMsg on a link without a player: BindPlayerLink, then HandleClientMsg. A
\* new Player object has no link; one that exists gives its link up first.
RecvFirst(g, op) ==
  /\ phase = "net"
  /\ op \in {"login", "reconnect"}
  /\ net.link[g] # NoCell
  /\ net.player[net.link[g]] = NoSlot
  /\ Len(net.queue) + 1 < QueueMax
  /\ BindPlayerLink(Owner[g])
  /\ \E s \in Slots :
       /\ pid'[s] = Owner[g]
       /\ LET c   == net.link[g]
              old == IF pid[s] = NoPid THEN NoCell ELSE netLink[s]
          IN  net' = HandleClientMsg([DropLink(net, old) EXCEPT !.player[c] = s], s, op)
       /\ netLink' = [netLink EXCEPT ![s] = net.link[g]]
  /\ UNCHANGED phase

\* RecvMsg when the first message names no player: BindPlayerLink fails, the
\* agent closes its link and is freed by that, and HandleClientMsg then reads the
\* room of a null player.
RecvUnbound(g, op) ==
  /\ phase = "net"
  /\ op \notin {"login", "reconnect"}
  /\ net.link[g] # NoCell
  /\ net.player[net.link[g]] = NoSlot
  /\ net' = CloseLink(net, net.link[g])
  /\ phase' = "down"
  /\ UNCHANGED <<netLink, vars>>

\* RecvMsg on a bound link.
RecvNext(g, op) ==
  /\ phase = "net"
  /\ net.link[g] # NoCell
  /\ net.player[net.link[g]] # NoSlot
  /\ Len(net.queue) < QueueMax
  /\ net' = HandleClientMsg(net, net.player[net.link[g]], op)
  /\ UNCHANGED <<phase, netLink, vars>>

RecvMsg(g, op) == RecvFirst(g, op) \/ RecvUnbound(g, op) \/ RecvNext(g, op)

-----------------------------------------------------------------------------
(* Handling messages                                                       *)

\* The handler of a message, run on whatever object is at the address now: on
\* a freed one it finds m_canJoinRoom without a room and does nothing.
Handle(s, op) ==
  \/ op = "login" /\ RpcBattleLogin(s)
  \/ op = "logout" /\ RpcBattleLogout(s)
  \/ /\ op = "login" => ~MayEnter(s)
     /\ op = "logout" => s \notin Live
     /\ UNCHANGED vars

\* RpcQueue::Update takes the messages in the order of their arrival. One that
\* has no handler and answers no call fails the assertion of _Handle (see
\* Answerable); the build without assertions drops it.
RpcUpdate ==
  /\ phase = "rpc"
  /\ net.queue # <<>>
  /\ Handle(Head(net.queue).to, Head(net.queue).op)
  /\ net' = [net EXCEPT !.queue = Tail(@)]
  /\ UNCHANGED <<phase, netLink>>

\* The timers that are due and the requests of the cross server.
RunTimer(s) == phase = "timer" /\ LoginTimeout(s) /\ UNCHANGED <<phase, net, netLink>>

CrossRequest(req) ==
  /\ phase = "cross"
  /\ HandlePlayerData(req)
  /\ netLink' = [s \in Slots |-> IF pid[s] = NoPid /\ pid'[s] # NoPid
                                THEN NoCell ELSE netLink[s]]
  /\ UNCHANGED <<phase, net>>

NextPhase == [timer |-> "net", net |-> "rpc", rpc |-> "cross", cross |-> "timer"]

\* Fault: RpcQueue::Update handles what it can and leaves the rest for later.
AdvanceUndrained ==
  /\ phase # "down"
  /\ phase' = NextPhase[phase]
  /\ UNCHANGED <<net, netLink, vars>>

\* The main loop goes on; the message queue is drained first.
Advance ==
  /\ phase # "down"
  /\ phase = "rpc" => net.queue = <<>>
  /\ phase' = NextPhase[phase]
  /\ UNCHANGED <<net, netLink, vars>>

BattleNext ==
  \/ Advance
  \/ RpcUpdate
  \/ \E s \in Slots : RunTimer(s)
  \/ \E g \in Guids : Connect(g) \/ Disconnect(g)
  \/ \E g \in Guids, op \in Ops : RecvMsg(g, op)
  \/ \E req \in Requests : CrossRequest(req)

BattleSpec == BattleInit /\ [][BattleNext]_battleVars

\* The loop goes on for ever unless the process dies: a turn reads finitely many
\* packets and empties the queue before it goes on.
BattleFairness ==
  /\ WF_battleVars(Advance)
  /\ WF_battleVars(RpcUpdate)

-----------------------------------------------------------------------------
(* Properties                                                              *)

\* Types of the variables (UdpServer.h, UdpClientAgent.h:9-12, RpcQueue.h:30).
BattleTypeOK ==
  /\ phase \in {"timer", "net", "rpc", "cross", "down"}
  /\ net \in NetType
  /\ netLink \in [Slots -> Cells \cup {NoCell}]

\* Every agent is in use by exactly one client or in the pool once: also a
\* close through a pointer that is out of date frees nothing twice, nor does the
\* agent that closes itself within RecvMsg (UdpServer.cpp:54-61, Mempool.h:89).
AgentsAccounted ==
  /\ BattleTypeOK
  /\ \A c \in Cells :
       Cardinality({g \in Guids : net.link[g] = c})
         + Cardinality({i \in DOMAIN net.free : net.free[i] = c}) = 1

\* A login from a second process ends the first: while no object is deleted no
\* two open links serve one player, also when Player::_netLink points to an
\* agent that is gone or has become another client's (Player.cpp:62-69).
OneLinkPerPlayer ==
  \A g, h \in Guids :
    /\ g # h
    /\ net.link[g] # NoCell
    /\ net.link[h] # NoCell
    /\ net.player[net.link[g]] # NoSlot
    => net.player[net.link[g]] # net.player[net.link[h]]

\* A login is not lost on its way through the queue: a client whose player has
\* been let into a room and that logs in enters it, whatever else is queued before
\* it and whichever timers and requests come in between (Player.cpp:127-130).
LoginEnters ==
  \A s \in Slots :
    (MayEnter(s) /\ \E i \in DOMAIN net.queue : net.queue[i] = [to |-> s, op |-> "login"])
      ~> (phase = "down" \/ \E r \in RoomIds : s \in members[r])

\* The message by which a client logs in again does not end the connection it
\* came by: Player.cpp:147 has reconnected by then, and sends the battle again.
ReconnectKeepsLink ==
  \A g \in Guids : \A s \in FindByPid(Owner[g]) :
    net.link[g] # NoCell /\ net.player[net.link[g]] = NoSlot
      => DropLink(net, netLink[s]).link[g] # NoCell

\* Every message that RpcQueue::_Handle is given has a handler or answers a call
\* (RpcQueue.h:61); no call of a Player registers a callback.
Answerable ==
  phase = "rpc" /\ net.queue # <<>> => Head(net.queue).op \in {"login", "logout", "reconnect"}

\* No queued message points to a Player that has been deleted (RpcQueue.h:9).
QueuedAlive == \A i \in DOMAIN net.queue : net.queue[i].to \in Live
=============================================================================
