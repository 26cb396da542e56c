-------------------------------- MODULE Room --------------------------------
(***************************************************************************)
(* The battle rooms of svr_battle: CRoom (match-making and membership),    *)
(* the room data of a Player, and the player's life from the first login   *)
(* or match request to the 30 second timer that may delete it.             *)
(*                                                                         *)
(* All of it runs on the thread of main(), so a handler is one action.     *)
(* The order in which handlers run is left open here: a client logs in,    *)
(* logs out or leaves, and the cross server asks for matches, at any time. *)
(***************************************************************************)
EXTENDS Integers, FiniteSets

CONSTANTS
  Pids,          \* player ids handed out by the account server
  NoPid,         \* m_pid of a Player object that has been destroyed (0)
  Slots,         \* objects of the Player pool (m_index)
  MaxRooms,      \* bound: rooms created in a behaviour
  MaxTimers,     \* bound: pending 30 s timers that captured one object
  Requests,      \* the sets of players one match request may carry
  TeamCnt,       \* m_kTeamCntMax
  TeamMod,       \* a team id is a uint8: 256
  RoomPlayerMin, \* Room_Player_Min
  RoomPlayerMax  \* Room_Player_Max

ASSUME PidAssumption  == NoPid \notin Pids
ASSUME RoomAssumption == MaxRooms \in Nat /\ MaxTimers \in Nat
\* Every room is made with the constructor's default of two teams: the id of a
\* new team is then never that of an entry.
ASSUME TeamAssumption == TeamMod \in Nat /\ TeamMod > 1 /\ TeamCnt \in 1 .. 2
ASSUME ReqAssumption  == Requests \subseteq SUBSET Pids
ASSUME SizeAssumption == IsFiniteSet(Slots) /\ RoomPlayerMax \in Nat

RoomIds == 1 .. MaxRooms
NoRoom  == 0
Teams   == 0 .. TeamMod - 1

VARIABLES
  pid,       \* pid[s]: m_pid of the object in pool slot s; NoPid once freed
  isLogin,   \* isLogin[s]: Player::m_isLogin
  roomId,    \* roomId[s]: PlayerRoomData::m_roomId
  teamId,    \* teamId[s]: PlayerRoomData::m_teamId
  canJoin,   \* canJoin[s]: PlayerRoomData::m_canJoinRoom
  timers,    \* timers[s]: pending AddTimer(30 s) callbacks that captured s
  roomList,  \* CRoom::RoomList: ids of the rooms that exist
  lastRoom,  \* id of the last room created; ids grow, see README
  members,   \* members[r]: CRoom::m_players, the players in the battle
  waitKeys,  \* waitKeys[r]: the teams that have an entry in m_waitLst
  waitLst,   \* waitLst[r][t]: the players waiting for team t
  view       \* view[s]: the room mates the client of s was told about

playerVars == <<pid, isLogin, roomId, teamId, canJoin, timers>>
roomVars   == <<roomList, lastRoom, members, waitKeys, waitLst, view>>
vars       == <<playerVars, roomVars>>

Live         == {s \in Slots : pid[s] # NoPid}
Free         == Slots \ Live
FindByPid(p) == {s \in Slots : pid[s] = p}
AllOf(lists) == UNION {lists[t] : t \in Teams}
Waiting(r)   == AllOf(waitLst[r])
Occupants(r) == members[r] \cup Waiting(r)

Init ==
  /\ pid      = [s \in Slots |-> NoPid]
  /\ isLogin  = [s \in Slots |-> FALSE]
  /\ roomId   = [s \in Slots |-> NoRoom]
  /\ teamId   = [s \in Slots |-> 0]
  /\ canJoin  = [s \in Slots |-> FALSE]
  /\ timers   = [s \in Slots |-> 0]
  /\ roomList = {}
  /\ lastRoom = 0
  /\ members  = [r \in RoomIds |-> {}]
  /\ waitKeys = [r \in RoomIds |-> {}]
  /\ waitLst  = [r \in RoomIds |-> [t \in Teams |-> {}]]
  /\ view     = [s \in Slots |-> {}]

-----------------------------------------------------------------------------
(* CRoom: choosing a team for a group of players                           *)

\* teamInfos: the teams seen among the members and in the waiting lists, and
\* how many players each has.
TeamKeys(r)    == {teamId[s] : s \in members[r]} \cup waitKeys[r]
TeamSize(r, t) == Cardinality({s \in members[r] : teamId[s] = t})
                    + Cardinality(waitLst[r][t])

OneTeamPlayerMax == RoomPlayerMax \div TeamCnt

\* The id of a new team: 1, or the successor (as a uint8) of the last key.
NewTeam(r) ==
  IF TeamKeys(r) = {}
  THEN {1}
  ELSE {(t + 1) % TeamMod : t \in {k \in TeamKeys(r) : \A u \in TeamKeys(r) : u <= k}}

\* The first of the smallest teams.
SmallestTeam(r) ==
  {t \in TeamKeys(r) : \A u \in TeamKeys(r) :
      \/ TeamSize(r, t) < TeamSize(r, u)
      \/ TeamSize(r, t) = TeamSize(r, u) /\ t <= u}

\* Fault: the smallest team takes any group.
TargetTeamUnlimited(r, n) ==
  IF Cardinality(TeamKeys(r)) < TeamCnt THEN NewTeam(r) ELSE SmallestTeam(r)

\* The team TryToJoinWaitLst puts n players in; no team when it returns false.
TargetTeam(r, n) ==
  IF \/ Cardinality(members[r]) + n > RoomPlayerMax
     \/ n > OneTeamPlayerMax
  THEN {}
  ELSE IF Cardinality(TeamKeys(r)) < TeamCnt
  THEN NewTeam(r)
  ELSE {t \in SmallestTeam(r) : TeamSize(r, t) + n <= OneTeamPlayerMax}

\* _FlushWaitLst starts the battle: enough players, teams of about one size.
FlushReady(r, t, n) ==
  LET size(u) == TeamSize(r, u) + (IF u = t THEN n ELSE 0)
      keys    == TeamKeys(r) \cup {t}
  IN  /\ Cardinality(members[r]) + Cardinality(Waiting(r)) + n >= RoomPlayerMin
      /\ \A u, v \in keys : size(u) - size(v) <= 1

-----------------------------------------------------------------------------
(* CRoom: joining and leaving                                              *)

\* Fault: a client is told the members before the server has added it.
JoinToldFirst(r, S) ==
  /\ members' = [members EXCEPT ![r] = @ \cup S]
  /\ view' = [s \in Slots |->
                IF s \in S THEN members[r]
                ELSE IF s \in members[r] THEN view[s] \cup S
                ELSE view[s]]

\* JoinRoom and NotifyClientJoinRoom for every player of S, one after the
\* other: the members are told of each, each is told of all that are in.
Join(r, S) ==
  /\ members' = [members EXCEPT ![r] = @ \cup S]
  /\ view' = [s \in Slots |->
                IF s \in S THEN members[r] \cup S
                ELSE IF s \in members[r] THEN view[s] \cup S
                ELSE view[s]]

\* Fault: a player that leaves stays in the waiting list.
CancelWaitForgotten(r, s) == UNCHANGED waitLst

\* CancelWait: taken out of the first waiting list that has it; the entry of
\* the team stays, even when it is empty now.
CancelWait(r, s) ==
  LET in == {t \in Teams : s \in waitLst[r][t]}
  IN  waitLst' = [waitLst EXCEPT ![r] =
                    [t \in Teams |-> IF t \in in /\ \A u \in in : t <= u
                                     THEN @[t] \ {s} ELSE @[t]]]

\* Fault: the room is destroyed as soon as nobody waits.
ExitRoomDestroys(r, s) ==
  /\ CancelWait(r, s)
  /\ members' = [members EXCEPT ![r] = @ \ {s}]
  /\ view' = [x \in Slots |-> IF x = s THEN {} ELSE view[x] \ {s}]
  /\ roomList' = IF waitKeys[r] = {} THEN roomList \ {r} ELSE roomList
  /\ UNCHANGED <<lastRoom, waitKeys>>

\* ExitRoom, with DestroyRoom when nobody and no waiting entry is left.
ExitRoom(r, s) ==
  /\ CancelWait(r, s)
  /\ members' = [members EXCEPT ![r] = @ \ {s}]
  /\ view' = [x \in Slots |->
                IF x = s THEN {}
                ELSE IF x \in members[r] THEN view[x] \ {s}
                ELSE view[x]]
  /\ roomList' = IF members[r] \ {s} = {} /\ waitKeys[r] = {}
                 THEN roomList \ {r} ELSE roomList
  /\ UNCHANGED <<lastRoom, waitKeys>>

-----------------------------------------------------------------------------
(* The match request of the cross server                                   *)

\* The room that takes the group: the first in RoomList that accepts it.
FirstFit(n) ==
  {r \in roomList : /\ TargetTeam(r, n) # {}
                    /\ \A q \in roomList : TargetTeam(q, n) # {} => r <= q}

\* Fault: only the players that are logged in are let in.
FlushWaitLstOnline(r, lists) ==
  /\ teamId'   = [s \in Slots |-> IF s \in AllOf(lists)
                                 THEN CHOOSE u \in Teams : s \in lists[u]
                                 ELSE teamId[s]]
  /\ canJoin'  = [s \in Slots |-> (s \in AllOf(lists) /\ isLogin[s]) \/ canJoin[s]]
  /\ waitLst'  = [waitLst EXCEPT ![r] = [u \in Teams |-> {}]]
  /\ waitKeys' = [waitKeys EXCEPT ![r] = {}]
  /\ Join(r, {s \in AllOf(lists) : isLogin[s]})

\* _FlushWaitLst: all that wait, per team in lists, are let into the room; the
\* logged-in ones join at once.
FlushWaitLst(r, lists) ==
  /\ teamId'   = [s \in Slots |-> IF s \in AllOf(lists)
                                 THEN CHOOSE u \in Teams : s \in lists[u]
                                 ELSE teamId[s]]
  /\ canJoin'  = [s \in Slots |-> s \in AllOf(lists) \/ canJoin[s]]
  /\ waitLst'  = [waitLst EXCEPT ![r] = [u \in Teams |-> {}]]
  /\ waitKeys' = [waitKeys EXCEPT ![r] = {}]
  /\ Join(r, {s \in AllOf(lists) : isLogin[s]})

\* TryToJoinWaitLst for the group vec and the team t picked for it. A group of
\* nobody gets an entry only as a new team.
TryToJoinWaitLst(r, t, vec) ==
  LET lists == [waitLst[r] EXCEPT ![t] = @ \cup vec]
  IN  IF FlushReady(r, t, Cardinality(vec))
      THEN FlushWaitLst(r, lists)
      ELSE /\ waitLst'  = [waitLst EXCEPT ![r] = lists]
           /\ waitKeys' = [waitKeys EXCEPT ![r] =
                             IF vec = {} /\ t \in TeamKeys(r) THEN @ ELSE @ \cup {t}]
           /\ UNCHANGED <<teamId, canJoin, members, view>>

\* The objects of the players of a request: the one a player has, or a free one
\* of the pool; and the group to place, those that are in no room.
ObjectsFor(req) ==
  {f \in [req -> Slots] :
     /\ \A p \in req : f[p] \in IF FindByPid(p) = {} THEN Free ELSE FindByPid(p)
     /\ \A p, q \in req : f[p] = f[q] => p = q}
GroupOfAll(req, f) == {f[p] : p \in req}  \* fault: also those in a room
Group(req, f) == {s \in {f[p] : p \in req} : roomId[s] = NoRoom}

Place(r, vec) ==
  \E t \in TargetTeam(r, Cardinality(vec)) :
    /\ TryToJoinWaitLst(r, t, vec)
    /\ roomId' = [s \in Slots |-> IF s \in vec THEN r ELSE roomId[s]]

\* The group goes to the first room that accepts it, else to a new one. A group
\* too large for any team fails the assertion at the end; the build without
\* assertions leaves the new room empty.
PlaceInOldRoom(vec) ==
  /\ \E r \in FirstFit(Cardinality(vec)) : Place(r, vec)
  /\ UNCHANGED <<roomList, lastRoom>>

PlaceInNewRoom(vec) ==
  /\ FirstFit(Cardinality(vec)) = {}
  /\ lastRoom < MaxRooms
  /\ lastRoom' = lastRoom + 1
  /\ roomList' = roomList \cup {lastRoom'}
  /\ IF TargetTeam(lastRoom', Cardinality(vec)) # {}
     THEN Place(lastRoom', vec)
     ELSE UNCHANGED <<roomId, teamId, canJoin, members, waitKeys, waitLst, view>>

\* rpc_battle_handle_player_data: objects for the players of the request, a
\* timer for each player of the group, and a room for the group.
HandlePlayerData(req) ==
  \E f \in ObjectsFor(req) :
    LET vec == Group(req, f)
    IN  /\ \A s \in vec : timers[s] < MaxTimers
        /\ pid'    = [s \in Slots |-> IF \E p \in req : f[p] = s
                                      THEN CHOOSE p \in req : f[p] = s ELSE pid[s]]
        /\ timers' = [s \in Slots |-> timers[s] + (IF s \in vec THEN 1 ELSE 0)]
        /\ UNCHANGED isLogin
        /\ PlaceInOldRoom(vec) \/ PlaceInNewRoom(vec)

-----------------------------------------------------------------------------
(* The player                                                              *)

\* BindPlayerLink: the first message of a connection names the player, who is
\* logged in from then on; an unknown pid gets a new object.
BindPlayerLink(p) ==
  \E s \in Slots :
    /\ s \in IF FindByPid(p) = {} THEN Free ELSE FindByPid(p)
    /\ pid'     = [pid EXCEPT ![s] = p]
    /\ isLogin' = [isLogin EXCEPT ![s] = TRUE]
    /\ UNCHANGED <<roomId, teamId, canJoin, timers, roomVars>>

\* rpc_battle_login: a player let into a room that still exists joins it. It
\* does not look at isLogin: on the connection that logged out before, the
\* message no longer passes BindPlayerLink.
MayEnter(s) == s \in Live /\ canJoin[s] /\ roomId[s] \in roomList

RpcBattleLogin(s) ==
  /\ MayEnter(s)
  /\ Join(roomId[s], {s})
  /\ UNCHANGED <<playerVars, roomList, lastRoom, waitKeys, waitLst>>

\* rpc_battle_logout: only the flag; the player keeps its object and its room.
RpcBattleLogout(s) ==
  /\ s \in Live
  /\ isLogin' = [isLogin EXCEPT ![s] = FALSE]
  /\ UNCHANGED <<pid, roomId, teamId, canJoin, timers, roomVars>>

\* rpc_battle_exit_room.
RpcBattleExitRoom(s) ==
  /\ s \in Live
  /\ roomId[s] \in roomList
  /\ ExitRoom(roomId[s], s)
  /\ roomId' = [roomId EXCEPT ![s] = NoRoom]
  /\ UNCHANGED <<pid, isLogin, teamId, canJoin, timers>>

\* The destructors ~Player and ~PlayerRoomData, then Dealloc. The fields of a
\* freed object are those of the next object made there: the only reader of
\* freed memory is a timer, and it looks at m_pid.
DeletePlayer(s) ==
  /\ IF roomId[s] \in roomList THEN ExitRoom(roomId[s], s) ELSE UNCHANGED roomVars
  /\ pid'     = [pid EXCEPT ![s] = NoPid]
  /\ isLogin' = [isLogin EXCEPT ![s] = FALSE]
  /\ roomId'  = [roomId EXCEPT ![s] = NoRoom]
  /\ teamId'  = [teamId EXCEPT ![s] = 0]
  /\ canJoin' = [canJoin EXCEPT ![s] = FALSE]

\* Fault: the timer spares players that are waiting for a room.
LoginTimeoutIdleOnly(s) ==
  /\ timers[s] > 0
  /\ timers' = [timers EXCEPT ![s] = @ - 1]
  /\ IF ~isLogin[s] /\ pid[s] # NoPid /\ roomId[s] = NoRoom
     THEN DeletePlayer(s)
     ELSE UNCHANGED <<pid, isLogin, roomId, teamId, canJoin, roomVars>>

\* Fault: a timer that is not ended runs again and is counted down again.
LoginTimeoutAgain(s) ==
  /\ timers' = [timers EXCEPT ![s] = @ - 1]
  /\ IF ~isLogin[s] /\ pid[s] # NoPid
     THEN DeletePlayer(s)
     ELSE UNCHANGED <<pid, isLogin, roomId, teamId, canJoin, roomVars>>

\* The 30 s timer: deletes the object it captured unless that is logged in or
\* gone already.
LoginTimeout(s) ==
  /\ timers[s] > 0
  /\ timers' = [timers EXCEPT ![s] = @ - 1]
  /\ IF ~isLogin[s] /\ pid[s] # NoPid
     THEN DeletePlayer(s)
     ELSE UNCHANGED <<pid, isLogin, roomId, teamId, canJoin, roomVars>>

Next ==
  \/ \E req \in Requests : HandlePlayerData(req)
  \/ \E p \in Pids : BindPlayerLink(p)
  \/ \E s \in Slots : \/ RpcBattleLogin(s)
                      \/ RpcBattleLogout(s)
                      \/ RpcBattleExitRoom(s)
                      \/ LoginTimeout(s)

Spec == Init /\ [][Next]_vars

\* The main loop turns the timer wheel for ever, so a pending timer fires.
FairSpec == Spec /\ \A s \in Slots : WF_vars(LoginTimeout(s))

-----------------------------------------------------------------------------
(* Properties                                                              *)

\* Types of the variables (Room.h:10-12, PlayerRoomData.h:9-12, Player.h:35-37).
TypeOK ==
  /\ pid      \in [Slots -> Pids \cup {NoPid}]
  /\ isLogin  \in [Slots -> BOOLEAN]
  /\ roomId   \in [Slots -> RoomIds \cup {NoRoom}]
  /\ teamId   \in [Slots -> Teams]
  /\ canJoin  \in [Slots -> BOOLEAN]
  /\ timers   \in [Slots -> Nat]
  /\ roomList \in SUBSET RoomIds
  /\ lastRoom \in 0 .. MaxRooms
  /\ members  \in [RoomIds -> SUBSET Slots]
  /\ waitKeys \in [RoomIds -> SUBSET Teams]
  /\ waitLst  \in [RoomIds -> [Teams -> SUBSET Slots]]
  /\ view     \in [Slots -> SUBSET Slots]

\* No room keeps a pointer to a player that was deleted or that believes to be
\* elsewhere: every Player* in m_players or m_waitLst is a live object whose
\* m_roomId names that room, and the room exists (JoinRoom and ExitRoom
\* broadcast through these pointers).
MembersAgree ==
  \A r \in RoomIds : \A s \in Occupants(r) :
    s \in Live /\ roomId[s] = r /\ r \in roomList

\* No player waits in two teams of a room: CancelWait stops at the first entry
\* it finds, so a second one would stay behind as a dangling pointer.
WaitsOnce ==
  \A r \in RoomIds : \A t, u \in Teams :
    t # u => waitLst[r][t] \cap waitLst[r][u] = {}

\* The clients of a room know exactly each other, whatever the order in which
\* players join, wait, leave and time out (PlayerRoomData.cpp:18: the server
\* adds the player first, lest two that enter together do not see each other).
ViewsAgree ==
  \A r \in RoomIds : \A s \in members[r] : view[s] = members[r]

\* A player assigned to a room that exists is in it, waits for it, or may
\* enter it by logging in: nobody is assigned and left without a way in.
NobodyLost ==
  \A s \in Slots : roomId[s] \in roomList =>
    s \in Occupants(roomId[s]) \/ canJoin[s]

\* Every team somebody waits for has its entry in m_waitLst, so a room that is
\* destroyed for having no entry has nobody waiting.
WaitKeysCover ==
  \A r \in RoomIds : \A t \in Teams : waitLst[r][t] # {} => t \in waitKeys[r]

\* Room ids are handed out in order: no player carries the id of a room to come.
IdsIssued ==
  /\ roomList \subseteq 1 .. lastRoom
  /\ \A s \in Slots : roomId[s] <= lastRoom

\* The inductive invariant behind MembersAgree: see README.
IInv == /\ TypeOK /\ MembersAgree /\ WaitsOnce /\ WaitKeysCover
        /\ ViewsAgree /\ NobodyLost /\ IdsIssued

\* No team's waiting list outgrows a team, also when players leave, time out
\* and new groups fill the gaps (Room.cpp:111, the limit of a single team).
WaitTeamFits ==
  \A r \in RoomIds : \A t \in Teams : Cardinality(waitLst[r][t]) <= OneTeamPlayerMax

\* A match request does not leave an object behind for ever: a player it put
\* in a room logs in or is deleted (CrossAgent.cpp:53-55).
TimeoutReaps ==
  \A s \in Slots :
    (timers[s] > 0 /\ ~isLogin[s]) ~> (isLogin[s] \/ s \notin Live)

-----------------------------------------------------------------------------
(* The rooms as a directory of who is in which battle                      *)

InRoom == [s \in Slots |-> IF \E r \in RoomIds : s \in members[r]
                           THEN CHOOSE r \in RoomIds : s \in members[r]
                           ELSE NoRoom]

Directory == INSTANCE RoomDirectory WITH
               Players <- Slots, inRoom <- InRoom, open <- roomList, last <- lastRoom

\* The rooms implement the directory: a player moves between battles only by
\* leaving one first, and a battle ends only when nobody is in it.
ImplementsDirectory == Directory!Spec
=============================================================================
