# Verification of CXServer

CXServer is a battle server for a multiplayer game: one process, `svr_battle`, holds the
players and the battle rooms, talks to the clients over raknet and to a cross server that
does the matching between game servers. This directory holds TLA+ models of it, the TLC
configurations that check them, and proofs for TLAPS.

    tlc -workers 2 -config MCRoom.cfg MCRoom      # one run
    tlapm Battle_proofs.tla                        # the proofs of one module

All paths below are relative to `src/src/` of the repository.

## 1. The system

### Components

| component | state | operations | talks to |
|---|---|---|---|
| `CRoom` (`svr_battle/Room/Room.cpp`) | `RoomList`, `m_players`, `m_waitLst` | JoinRoom, ExitRoom, CancelWait, TryToJoinWaitLst, _FlushWaitLst, DestroyRoom | holds `Player*`; broadcasts to their clients |
| `PlayerRoomData`, `Player` (`svr_battle/Room`, `svr_battle/Player`) | `G_PlayerList`, `m_isLogin`, `m_roomId`, `m_teamId`, `m_canJoinRoom`, `_netLink` | login, logout, reconnect, exit_room, destructor | finds its room by unique id, its link by pointer |
| `CrossAgent` (`svr_battle/Cross`) | none | rpc_battle_handle_player_data: creates players, starts 30 s timers, places a group in a room | Player, CRoom, TimeWheel |
| main loop (`svr_battle/svr_battle.cpp`) | none | services, timers, packets, queued messages, cross requests, in this order | everything |
| `UdpServer`, `UdpClientAgent` (`NetLib/raknet/server`) | `m_clientList`, `m_guid`, `m_player` | new connection, lost connection, packet, CloseLink | callbacks BindPlayerLink, HandleClientMsg, ReportErrorMsg |
| `RpcQueue` (`rpc/RpcQueue.h`) | `m_queue`, `m_response`, a send and an answer buffer | Insert, Update, CallRpc, SendBackBuffer, responses | handlers of Player and RpcClient |
| `TimeWheel` (`common/Timer`) | wheels of slots, ready list | AddTimer, DelTimer, Refresh | callbacks |
| `AsyncLog`, `LogFile` (`common/Log`) | four or more buffers, `_running` | Append, _WriteLoop, Stop | a writer thread |
| `ServLink`, `ServLinkMgr` (`NetLib/iocp/server`) | link states, socket, send buffer, counters | accept, receive, send, close, maintain | completion threads, assist thread |
| `ClientLink` (`NetLib/iocp/client`), `RpcClient`, `Zookeeper` | connection state, send buffer, `_connId`, `m_cross` | connect, reconnect, register, call | cross server, Zookeeper |
| `ServicePatch`, `ServiceList`, `ServiceVec`, `ServiceMap` (`common/Service`) | registered objects, cursors | Register, UnRegister, RunSevice | functions that register and unregister |
| pools (`common/tool/Mempool.h`) | free cells, unique id counter | Alloc, Dealloc, FindByUniqueId | every pooled class |
| `net::Buffer`, `ByteBuffer`, `NetPack` (`common/Buffer`) | bytes and two positions | append, prepend, read; heads and bodies | every link and RpcQueue |
| libevent and libuv back ends (`NetLib/libevent`, `NetLib/libuv`) | `m_recvBuf`, `m_player`, `_write_list` | accept, read, SendMsg, after_write, close | the same callbacks as raknet |
| `shared_ptr`, `weak_ptr` (`include`) | counts of a block | copy, move, lock, destroy | every owner of an object |
| `LuaCall` (`common/Lua`) | registry references, the Lua stack | register, call, reload, read tables | scripts |
| rank list, DataSend, Floyd, Reward, Trigger, Csv, GameApi, test client | | | |

`PROJECT.json` lists all of them with the files and what is modelled.

### What is hard here

* **Order of handlers.** Everything of the game runs on one thread, but the order in which
  match requests, logins, logouts, exits, timers and lost connections reach a player is up to
  clients, the cross server and the clock. Each handler is short; the bugs are in sequences.
* **Raw pointers across components.** A room holds `Player*`, the queue holds `Player*`, an
  agent holds `m_player`, a player holds `_netLink`. Players and agents are deleted by timers
  and lost connections, and their cells come from pools and are used again.
* **Real threads** in the log (`AsyncLog`), in the iocp back ends (`ServLink`, `ClientLink`),
  where only the send buffer is behind a lock, and in the pools that both sides of a queue use.
* **Code that is changed by what it calls.** A service's function unregisters the object it is
  called for; a destructor drops the last pointer to another object; a handler answers early
  and goes on writing into the one answer buffer there is.
* **Time.** Frames may take long; timers must be neither lost nor early nor late.

### What makes each component correct

* Rooms: no dangling player; nobody waits twice or is lost; clients in a room know each
  other; a room closes only when empty; places and team sizes are respected.
* Links of the game: every agent is in use once or free once; a player has one link; a reconnect
  keeps the new one; nothing dangling is queued; every message has a handler; a login of a player who
  may enter is not lost.
* Log: a prefix of what was appended is in the file, all of it after Stop; it is not delayed
  for ever; Stop returns.
* iocp server: an overlapped structure serves one operation at a time; a link that starts again
  has none pending; a message is handled for the player who sent it; the stream is in order; the
  counters, which decide how many links accept, agree with the states.
* iocp client: one socket; one operation per structure; nothing sent twice; replies find
  their callbacks; a lost connection comes back; the buffer is emptied.
* Timers: each armed timer is in one slot, is not late, not early, and catches up.
* Services: called for registered objects only, in turn, and each in the end.
* Pools: no cell or block twice, none lost; an id finds its own object or none.
* Buffers, packs, streams: what comes out is what went in, in order; an answer belongs to its
  call. Smart pointers: an object dies once, after its last owner, before its block. Lua: the
  stack is left as found.

## 2. Modules

| module | models |
|---|---|
| `Room` | CRoom, PlayerRoomData, Player, CrossAgent |
| `RoomDirectory` | abstract: who is in which battle |
| `Battle` | main loop, UdpServer, UdpClientAgent, RpcQueue, composed with Room |
| `AsyncLog`, `FifoLog` | the two threads of the log; abstract: a file that is a prefix of the log |
| `ServLink` | ServLink, ServLinkMgr |
| `RpcLink` | ClientLink, RpcClient, Zookeeper, RpcQueue's responses |
| `TimerWheel` | TimeWheel |
| `Services` | the four service lists |
| `IndexPool`, `LevelPool`, `PagePool` | CPoolIndex with UniqueID32, CPoolLevel, CPoolPage over SafeQueue |
| `BufferOps`, `NetBuffer` | net::Buffer as functions; its use |
| `EventLink` | a link of the libevent and libuv back ends, over BufferOps |
| `PackOps`, `RpcPack` | ByteBuffer and NetPack as functions; calls and answers of RpcQueue through its buffers |
| `SharedPtr` | shared_ptr.h and shared_ptr_move_only.h |
| `LuaBridge` | LuaCall |
| `MCRoom`, `MCBattle`, `MCServLink`, `MCTimerWheel` | constants for TLC; `MCBattle` has two instances of Battle in one run |
| `MCLogServices`, `MCParts` | components that share no state, each for itself, in one run |
| `AsyncLog_proofs`, `ServLink_proofs`, `RpcLink_proofs` | theorems about the module of that name |
| `Battle_proofs` | theorems about `Room` and `Battle` |
| `Frame_proofs` | theorems about `TimerWheel` and `Services`, what is called in every frame |
| `Pools_proofs` | theorems about `IndexPool`, `PagePool` and `LevelPool` |
| `Data_proofs` | theorems about `SharedPtr`, `NetBuffer`, `LuaBridge`, `RpcPack` and `EventLink` |
| `Iteration` | lemmas about loops as functions of their passes, for these three |

`MCLogServices` and `MCParts` put components side by side that share no state: a variable `part`,
chosen at the start, says which of them moves. A behaviour is one of that component's
specification, and a property is about its component in the behaviours of that part; in the
others its variables stay as they began. In `MCBattle` the parts are two instances of one component: in the
first three processes and no rooms, in the second one process with rooms, timers and match requests.

### Room

One action per handler: `HandlePlayerData` (rpc_battle_handle_player_data with all it calls:
TryToJoinWaitLst, _FlushWaitLst, JoinRoom), `BindPlayerLink`, `RpcBattleLogin`,
`RpcBattleLogout`, `RpcBattleExitRoom`, `LoginTimeout` (the 30 s timer, with the destructors it
runs). All run to completion on the main thread, hence one step each. The correspondence of the variables:

* `pid[s]`, `isLogin[s]`, `roomId[s]`, `teamId[s]`, `canJoin[s]`: fields of the object in slot
  `s` of the Player pool; `pid[s] = NoPid` when it was deleted. `timers[s]` counts the pending
  timers that captured the object: they are not cancelled when the object is deleted, so they
  may find the next object in the slot.
* `members`, `waitKeys`, `waitLst`: `m_players`, the keys and the lists of `m_waitLst`. An entry
  may be empty: CancelWait leaves it behind, and ExitRoom asks whether there is an entry. A list
  is a set, as its order is seen by nobody.
* `view[s]` is not in the code: the room mates the client was told of, from
  rpc_client_stop_wait_and_load_battle_scene, rpc_client_sync_player_join_info and
  rpc_client_notify_player_exit_room. Messages are assumed to arrive.

Abstractions: a room is its unique id. Ids grow and are not used again; the code has a 16-bit
counter above the index (`common/tool/Mempool.h:278`) which wraps after 65536 rooms: how far ids
may be kept is what `IndexPool` is about. Any free slot may be
taken for a new player. The data of a match request other than the players is left out.

### Battle

Extends Room and adds the clients' side. `phase` is what the main loop does; timers, packets,
the queue and the cross requests each have their turn. `net` has `m_clientList` (`link`), the
fields of the agents (`guid`, `player`), their pool (`free`, first in first out as in
`CPoolPage`) and `m_queue` (`queue`). A client process (`Guids`) has an owner and may connect,
send any message, also as its first one, or vanish. Freed cells keep their values. `Connect` needs a
free cell where the code's pool would double; the number of cells is that bound. The client's exit_room
message is filtered by HandleClientMsg as the code does; Room keeps the handler's action, since Room
leaves open who calls it.

A link's first message that is neither a login nor a reconnect (`RecvUnbound`) fails to bind: the agent
closes its link and is freed by that within its own RecvMsg (`NetLib/raknet/server/UdpClientAgent.cpp:22-27`), and
HandleClientMsg then reads the room id of a null player. The process is gone; `phase` is "down" and no
action is enabled, which is why the runs of Battle do not check deadlock. The model has the build without
assertions: where an assertion fails (`svr_battle.cpp:38`, `rpc/RpcQueue.h:61`) it goes on as that build does.

Every action of Battle that touches Room's variables is an action of Room with more guards, and the others
leave them alone, so what is proved about Room holds in the server with links and queue by
construction; no run and no theorem is spent on it.

### AsyncLog

The front thread (`AppendEntry`, `Stop`, `Joined`) and the writer (`Check`, `Wake`, `WriteBuf`,
`Recycle`, and after the loop `Final`, `WriteRest`). The critical sections are one step; reading `_running`, writing each buffer,
and recycling are steps of their own because they are outside of the mutex. `Wake` needs no
notification: the wait has no predicate and a timeout, so it may return at any time.
Buffers are objects with an identity, as the hazard is one object in two roles.

### ServLink

Threads: `Workers` run completions (`DoneIO`, then `OnAccept`, `RecvMsg`, `OnSend_DoneIO`, ...),
`Assist` is _AssistLoop (`ServerRun_SendIO`, `Maintain` and what it calls), `Logic` sends
(`SendMsg`). `th[t]` is where a thread is and in which link. Sections under `_csLock` are one
step; all other accesses to `_eState`, `_bInvalid`, `_sClient`, `_player` and the counters are
steps of their own: OnInvalidMessage is three, CloseLink five (its clear of the send buffer is
outside of the lock), a write completion two: it looks at the state before it has the lock (`StillConnected`).

`ops` are the overlapped operations the system has: a thread that is idle may take any of them,
with bytes, without, or with an error. Closing a socket leaves its operations in `ops` with
`NoSocket`: they end with an error on some thread, later. `peer` is the client at the other end,
`wire` how much of the front of the send buffer has been transmitted. `age` abstracts
`_timeInvalid` to what Maintain asks of it.

Named bounds: a handler, a message and the completions of a closed socket take less than a second
(`Second`), the time an invalid link is kept: that an operation of the last socket is still
pending when a link starts again is assumed away by that; one client at a time (`MaxPeers`), messages
in a buffer (`MaxUnits`); AcceptEx does not fail (`AcceptExFails`, see section 6: when it may, the
model reaches states without `OwnPlayer`).

### RpcLink

One RpcClient, a Zookeeper or a CrossAgent (`role`), with its ClientLink. `th[t]` is a thread of
the pool: CloseLink is five steps, OnConnect and _OnConnect up to six, since the main thread
(`GameCalls`, `Update`, timers) runs between any two. `timers` are those of CloseLink that call
Connect. `asked` are the calls that have reached the server and may be replied to; `response` the
keys of `m_response`. In RunClient's place the first Connect comes as a timer's would.

Named bounds: timers (`MaxTimers`), drops by the server (`MaxDrops`), messages (`MaxBuf`,
`MaxQueue`); the ten seconds of the timer are longer than handlers and the completions of a closed
socket take (`Prompt`). `Hurried` says whether the game may call in the middle of OnConnect,
`Overtaking` whether the main thread may handle a reply while the thread that made the call is between
sending it and registering its callback: both FALSE in `rpc_link`, where everything else may interleave, the first
TRUE in `rpc_link_once`, the second in `rpc_link_reply`. `ConnectFails` has the three ways of Connect to fail: no
socket, a socket that stays, and one that is closed while `_sClient` keeps the handle.

### TimerWheel

The wheels are a record of slots, each slot the sequence of its nodes. `Put` is _AddTimerNode,
`OneTick` the body of Refresh's loop, `Cascade`, `CallBack` and `Refresh` are the functions of
these names; a loop is a function of its passes (`SpreadNode`, `CascadeWheel`, `OneTick`, `CallNode` are one pass).
Geometry and tick are constants, and `Word`, the values of the uint32 that a delay is. `early` records for the properties how early
the last Refresh called a timer. AddTimer takes the time itself whereas Refresh has the time
the frame began with; `Skews` is that difference.

### Services and pools

`Services` has the four kinds in one module, as their rounds have one shape: `Begin` a round with
the time that has passed, `CallNext` or `CallFirst` while something is `Due`, `Return`, `End`.
Between `CallNext` and `Return` the function runs: `Register` and `UnRegister` of any object, its
own included, are enabled there as well as between rounds. Times are kept relative to the frame,
so that the state space is finite. `Heedless` says whether objects come and go also where a service loses
track of them: where a patch is left without an object while it has calls left (the code indexes an empty
vector, `common/Service/Service.h:101`; `AtCursor` has any object that is gone there); where a map is given an object that it was
told to drop and has not dropped yet (`m_setDel` drops the new entry too, 229-232 and 241); and where it is told to
drop what it has in `m_mapAdd` alone (UnRegister does not look there, 222). It is FALSE in the run log_services and
a hypothesis of the theorems; with TRUE RightCalls, "once a frame" and Served fail (section 6). `MaxEntries` bounds the entries.

`IndexPool` keeps the last AutoMod ids ever given and asks each for its object. `LevelPool` has
blocks as a chunk and an offset. `PagePool` has two threads; a queue operation is atomic (SafeQueue
locks), Alloc is not.

### Buffers, packs, streams

`BufferOps` and `PackOps` are the operations as functions on a record of bytes and positions, with
the code's own arithmetic; `NetBuffer` and `RpcPack` call them in any order and keep beside them what
a user expects. Bytes are numbered round (`ByteMod`), so that a byte out of place is seen; in a pack a
byte is its value and its place in the value. `RpcPack` is a caller and a callee, each with its
one buffer; a handler may answer early, write more behind, or answer nothing. `Bodies[op]` are the
bodies a call may have, sequences of `Items`: numbers of a size, and strings with their length. NetPack::Write
and Read and the loop of a read callback are recursive functions of their passes (`WriteItem`, `ReadNext`,
`OnePack`).

`EventLink` has one link after another (`MaxLinks`). For libevent's server the stream is cut anywhere
(`ReadLibevent(n)` for every n); byte i of the body of message k is 256 k + i, which no length is, so that no two bytes of a
stream are alike and `WholeFrames` can tell where a message ends. libuv's requests go from `writeList` to `flight` and back, and `base` is what their buffers
hold when libuv writes them. libuv's server parses from where the piece begins
(`NetLib/libuv/server/TcpServer.cpp:104`) and libevent's client moves on by the size of the whole
read (`NetLib/libevent/client/TcpClient.cpp:99`). `AnyCut` says whether these two get any pieces too: TRUE in
event_link_up, where the server does not get the stream right, nor does the client (section 6); FALSE in the run parts and a
hypothesis of the theorems, where the first gets pieces of whole messages and the second one message a piece. What a lost link has
left in the client's buffer is there on the next one. Bounds: a loop that is out of step does not read behind the buffer's
memory (`Within`); one agent at a time, so that the request list of all agents, which each locks with a lock of its own
(`NetLib/libuv/server/TcpClientAgent.cpp:62`), is used by one. A body has at most 255 bytes, the upper byte of its
length being 0, and a message fits into `m_recvBuf` (the code has 4096 bytes and packages below 1024,
`NetLib/config_net.h:43`).

### SharedPtr, LuaBridge

`SharedPtr`: every object has a pointer and a weak pointer as members and perhaps is an
enable_shared_from_this; destructors are a stack (`dying`) of objects whose body, members and block
go one after the other, and in a body any of the code's operations may be called. `copies` is which header is
included. `Lock` is of an object that lives: lock() in its own destructor would revive it (section 6). `LuaBridge`
keeps the height and the meaning of the stack's slots; a load of a script
defines some of the globals, and may fail; `lost` remembers that a ReloadFile did, after which nothing is registered. The
tables read are any (`Contents`), with keys that repeat a name, as 1 and "1" do, and keys without one ("flag"); bounds: two
pairs a table, one table within another, with numbers.

### Fault operators

An operator whose comment begins with "Fault:" is a plausible bug in the definition after it.
`PROJECT.json` says under `mutants` which property notices it. They are used by no specification.

## 3. Runs

| run | bounds | shows |
|---|---|---|
| room | 3 players, 3 objects, 1 room, 1 timer each, teams of 2, symmetric | TypeOK, MembersAgree, WaitsOnce, ViewsAgree, NobodyLost, WaitTeamFits |
| room_pair | 2 players, 2 objects, 2 rooms, 2 timers each, battles of at least 2 | ImplementsDirectory, TimeoutReaps |
| battle | links: 3 processes of 2 players, 2 agents, no rooms; rooms: 1 process, 2 players, 1 room, 1 timer each; 2 queued messages | AgentsAccounted (with the types), OneLinkPerPlayer, LoginEnters |
| log_services | log: 9 buffers, 5 entries; services: 3 objects called every 2 ms, frames of 1 and 3 ms, all four kinds | BuffersApart, BuffersThere, ImplementsFifoLog, FlushedInTime, StopReturns; RightCalls, TakeTurns, Served |
| serv_link | 2 links, 2 workers, 2 clients one at a time, 2 handles, up to 2 messages in the buffer of the first link and 1 in the other's | CountersAgree (with the types), OwnPlayer, OverlappedFree, SentInOrder |
| rpc_link | 2 threads, 2 handles, 2 timers, 1 drop | OneSocket (with the types), OneOperation, SendOnce, ReplyExpected, Reconnected, Flushed |
| parts | buffer: memory of up to 6; link: 2 links, 4 messages both ways together; packs: 3 calls of 2 kinds; pointers: 2 objects, 2 holders, 1 watcher; Lua: 3 loads, tables of 2 pairs read when the last script has defined all names (`FewReads`); timers: 3 wheels of 2 slots, tick 2, time up to 16; ids: 4 cells, counter of 3; levels 0 to 2, 2 chunks; pages: 2 threads, 3 pages of 2 | BufferHolds; LinkInOrder; AnswersMatch; OwnersAgree; LuaAsFound; TimersPlaced, NotOverdue; FindsOwn; OneBlock; CellsOnce |
| battle_reconnect | 2 players, 1 process, 2 agents, 3 queued messages | expected violation: section 6 |
| rpc_link_once, rpc_link_reply | as rpc_link, with `Hurried` or `Overtaking` | expected violations |
| event_link_up | 1 link, 4 messages, `AnyCut` | expected violation |
| timer_wheel_early | as in parts, time up to 22 | expected violation |

Why these bounds are enough:

* With three players a team of two is full while a third is in another, two can
  wait in a team and one be in the room; a new team's id reaches the modulus (TeamMod is 3 for 256).
  Two rooms are needed for a player to move and for a room to be passed over; the pair run has
  them with RoomPlayerMin 2, so that players really wait (in the code it is 1, and there a wait
  comes only from unequal teams; both are covered). Two timers on an object are a stale and a
  current one.
* Three processes with two owners give a second process of one player and a
  stranger who can get the cell of a closed agent; of two agents one is open and the other deleted, or in use by the
  second client.
* Nine buffers let the front run five entries ahead, each filling a buffer, while the writer holds
  two.
* Two workers are a late completion and a current one of the same link; with the assist and the
  game's thread four threads meet in it. Of two links one is closed and made anew while the
  other has the client; a handle is used again. Two messages are one transmitted
  and one behind it, which is sent again from the start of the buffer or joined by a new one; the
  second link has one, as the links share counters and handles but not what they are sent by.
* Two threads of the client are a completion that closes the link and another that comes late;
  two timers the one that connects and the one too many; one drop leads to a second connection
  with everything the first one left behind.
* Sixteen ms turn the lowest wheel four times and the uppermost once. Three objects are
  the one being called, one before and one behind the cursor. Two threads that double the pool,
  while either takes and returns cells. A level above the one that splits must split
  itself, hence three levels.
* A buffer of six bytes with two in front grows once, moves its content, and starts anew. Four
  messages are up to four one way, or two each way: three are one in pieces between two. A second link comes after what the first left. Two
  objects can own one another and be each other's last owner.

Deadlock is checked except where everything may end: the runs of Battle when the process is down, log_services after
Stop, rpc_link after a call of the system has failed, parts when a component has reached its bounds.

## 4. Fairness

* `Room!FairSpec`: weak fairness of each `LoginTimeout(s)`. The main loop calls
  `sTimerMgr.Refresh` in every turn and a turn never blocks.
* `BattleFairness`: weak fairness of `Advance` and `RpcUpdate`: the loop is `while (true)`, and goes on
  as long as the process lives. Clients owe nothing.
* `FairSpec` of AsyncLog, which `MCLogServices` has for the behaviours of the log: the writer thread is scheduled and its wait ends after at most 180 s;
  `join` returns when the thread has ended. Append and Stop owe nothing.
* `RpcFairness`: threads of the pool run on, timers fire; completions are queued for the pool, so an
  operation of each kind is served again and again (strong, as threads are busy in between); and the
  server, asked again and again, accepts at last (strong; without it `Reconnected` would be a
  promise about somebody else's process). The game, the drops and the choice of messages owe nothing.
* `ServiceFairness`: the main loop runs rounds and finishes them, functions return. Handlers
  may register and unregister for ever, or never.

## 5. Proofs

Eight modules have theorems. They hold for every value of the constants that the named assumptions
of the module allow (`PidAssumption` to `SizeAssumption` in Room, `PoolAssumption` and two more in Battle,
`BoundAssumption` in AsyncLog, `...Assumption` in the others): sets that are pools or threads
are finite where something is counted, null values are none of the others, bounds are numbers.
They say nothing else of the program but for `TeamAssumption`, at most two teams as in the
constructor's default, `ReachAssumption`, that the wheels reach as far as any delay does: theirs
have 2^31 ticks of 25 ms, and a delay has 32 bits (`TimerWheel.h:17-19`), and `EventLinkAssumption`, that
a message fits into the buffer it is received in. Four theorems of RpcLink, those of ServLink, EventLink and Services, and one of Battle have a
hypothesis besides, below.

| theorem | property |
|---|---|
| RoomInv, then RoomTypes, RoomMembersAgree, RoomWaitsOnce, RoomViewsAgree, RoomNobodyLost, RoomWaitTeamFits | IInv, then TypeOK, MembersAgree, WaitsOnce, ViewsAgree, NobodyLost, WaitTeamFits |
| RoomImplementsDirectory | ImplementsDirectory, a refinement |
| BattleInvariant, then BattleAgentsAccounted, BattleOneLinkPerPlayer | BattleInv, then AgentsAccounted, OneLinkPerPlayer |
| LogInvariant, then LogBuffersApart, LogBuffersThere | LogInv, then BuffersApart, BuffersThere |
| LogImplementsFifoLog | ImplementsFifoLog, a refinement |
| ServLinkInvariant, then ServOverlappedFree, ServSentInOrder, ServOwnPlayer, ServCountersAgree | ServInv, then OverlappedFree, SentInOrder, OwnPlayer, CountersAgree |
| RpcLinkInvariant, then RpcOneSocket | LinkInv (of RpcLink), then OneSocket |
| RpcCallInvariant, then RpcOneOperation, RpcSendOnce, RpcReplyExpected | CallInv, then OneOperation, SendOnce, ReplyExpected |
| IndexInvariant, then IndexFindsOwn | IndexInv, then FindsOwn |
| PageInvariant, then PageCellsOnce | PageInv, then CellsOnce |
| LevelInvariant, then LevelOneBlock | LevelInv, then OneBlock |
| TimersInvariant, then WheelTimersPlaced | TimersInv, then TimersPlaced |
| TimersTimely, then WheelNotOverdue | Timely, then NotOverdue |
| PtrInvariant, then PtrOwnersAgree | PtrInv, then OwnersAgree |
| BufferInvariant, then BufferHoldsContent | BufInv, then BufferHolds |
| LuaInvariant, then LuaLeavesAsFound | LuaInv, then LuaAsFound |
| PackInvariant, then PackAnswersMatch | PackInv, then AnswersMatch |
| LinkInvariant, then LinkMessagesInOrder | LinkInv (of EventLink), then LinkInOrder |
| ServiceInvariant, then ServiceRightCalls, ServiceTakeTurns | SvInv, then the action properties RightCalls, TakeTurns |

Each file has first the inductive invariant in named parts, then lemmas about the operations the
actions share, then one lemma or step per action and under it one step per part it can disturb, and
at the end the theorems. Hardly any of the properties is inductive; what was missing says
the most about the code:

* **Room.** MembersAgree needs that a room which is destroyed has no waiting players, although ExitRoom
  only looks at the keys: `WaitKeysCover`, every non-empty waiting list has a key. It also needs that
  a new room's id is on no player: `IdsIssued`; stale ids of closed rooms do occur, and are harmless
  only because ids are not used again. CancelWait removes a player from one list only, so that it is
  gone needs WaitsOnce. ViewsAgree needs MembersAgree, for a player who joins is in no other room.
  In TypeOK the delicate case is the id of a new team. WaitTeamFits compares cardinalities: a group
  is added only where TargetTeam has found place for all of it, a list is otherwise only emptied. With IInv
  every handler is a step of RoomDirectory or none.
* **Battle.** Only the links and the pool decide about the agents (`AgentsOnce`), so that
  it does not matter which agent a closing through `_netLink` hits: OnLinkClosed always frees the agent it takes out of
  `m_clientList`. That includes the agent which closes itself within RecvMsg: its m_player is written when it is in the
  pool already, which no part of the invariant minds.
  BattleOneLinkPerPlayer is about behaviours in which no step deletes a Player
  (`NobodyDeleted`), as the property's comment says: then the agent of an open link is the
  `_netLink` of its player, who exists (`Known`). With a timer that deletes a player TLC finds two
  links of the object that comes in its place.
* **AsyncLog.** `Buffers` says which buffer is where at each step of the writer. `Entries` says
  that the buffers to write, those behind them and the current one have consecutive intervals of the
  log (`Run`), with the end of the file before the first; a buffer that is given back
  is empty. That is the refinement too: what WriteBuf writes is the next interval.
* **ServLink.** A socket belongs to one link and its operations to that link (`OwnSockets`); a link the
  assist thread makes anew has neither operations nor threads (`Quiet`, `Resting`), because its age
  outlasts both. There is one token for reading, an operation or the thread that handles it (`OneReader`),
  and one for writing, an operation or a thread at its completion, and then `_bCanWrite` is FALSE
  (`OneWriter`). A link's player is whose client is at the other end (`Owners`). The counters follow by
  sets of links to which a step adds one element or takes one away. Hypothesis: `~AcceptExFails`.
* **RpcLink.** LinkInv holds whenever the game calls: an operation in ops is on the one socket or on
  none, and while a connection is made everything else is idle (`Connects`); a connection has
  one chain of OnConnect steps, so that it makes at most one call (`OneCall`). CallInv has the tokens of reading and
  writing as in ServLink, and of the calls' keys: each is in exactly one of the send buffer, the server, a
  thread and the queue, and is expected until it is handled (`EachOnce`). Hypothesis: `~Hurried`, and for
  RpcReplyExpected also `~Overtaking`; the runs rpc_link_once and rpc_link_reply show violations without them.
* **IndexPool.** The ids given last are the counter's last values (`GivenIds`), all different as there are at most
  AutoMod of them; an id whose cell is used by another has another counter.
* **PagePool.** A cell is given out, in the queue, or not yet pushed by the thread that doubles its page
  (`NoneLost`); and of what a thread pushed, what is no longer in the queue was taken by others since
  (`MadeOrTaken`), which is why an Alloc can return nothing only then.
* **LevelPool.** The blocks of all queues and the used ones tile the memory (`Tiled`): every unit is in one
  of them. To split a block, to move one between the queues and the used blocks, and to cut new memory up are maps between the blocks after
  and before (`Retiled`, `Moved`, `LevelDoubleOK`). That there is a block to split is part of each pass: after k passes the level has k
  blocks less and the one below 2k more (`SplitOK`), and after k splits on the way down the level reached
  has some (`DescendOK`). A halving is exact as a block is as large as two of the level below (`SizeOK`).
* **TimerWheel.** TimersInv: the slots and the ready list, as one family of lists, have each armed timer once
  (`Holds`), which every pass of spreading, cascading and calling keeps. Timely is about time: a slot of wheel i is
  passed in `Eta` ticks, the turns of all lower wheels taken in, and a timer's slot is passed before it is
  a tick late. Within a cascade this holds of no state as it stands: a wheel that has wrapped has
  lost a whole turn which the wheel above has not gained yet. `InTime` has that amount as what wheel j has `Late`, and a pass
  of the cascade carries it up (`EtaTurned`, `TurnMoved`, `CascadeWheelInTime`). That the slot is one turn of the lower wheel nearer, the `- 1`
  of _AddTimerNode, is what `PutKeepsTime` needs: with the slot after it Timely fails.
* **SharedPtr.** A block's count is that of its pointers, and one more for the destructor that
  runs (`Owned`, stated also for the moment in which a value has left its slot and is not yet dropped);
  the stack of destructors has an object once (`Stacked`), whatever the depth. The weak counts never let a
  block go while an object is being destroyed (`Blocks`).
* **NetBuffer.** The memory is never smaller than the space kept in front (`Buf`): an emptied buffer begins
  there. `MakeSpaceKeeps` is the lemma of the two ways makeSpace has, to grow or to move the content; a prepend
  longer than what is in front moves the content to where the new bytes end (`PutsBefore`, `PrependMoves`).
  Prepending assumes what the action's guard says, that the memory has the room.
* **LuaBridge.** References and names that have one are one to one, and all of the last script (`Referred`): every name that is
  defined, unless the last load was a ReloadFile that failed; a
  load that begins by releasing them leaves the registry empty, so that there are as many free references
  as names. While a table is read the stack has exactly the tables and the keys on it (`InOuter`, `InInner`), and
  `ret` holds what the pairs passed so far enter: an inner table's is added when it has been read.
* **RpcPack.** The n-th item lies in the store from the end of the one before (`EndsOf`), so that writing
  one more and reading one keep what was passed (`HoldsMore`, `ReadItemsIs`). What is written behind the head
  leaves it as it is (`HeadStays`), and a pack that was sent or cleared has a head of no call (`NoCall`): what a
  handler writes after it answered early goes into such a pack, and is dropped with it (`Handling`). A key is on its way once (`Apart`), hence a reply finds its own items.
* **EventLink.** On each way the content of the buffer and the stream behind it are the frames from the first
  message that is not handled to the last that was sent (`Carried`, by where the frames end). A pass of the loop takes
  the first frame off, or stops in front of one that is not whole (`Passed`, `PassKeeps`); the delicate case
  is the last byte of the buffer, where readerMove puts both indices back and `pPack` goes on. As many passes
  as messages are enough, hence the bound on them in the invariant. libuv parses from where the piece begins, which is
  where the content begins because nothing is ever left of one (`Readable(recvBuf) = 0`). Requests under way
  have the messages sent last, in their order, and are in one list, once (`Requests`, `Spread`). Hypothesis: `~AnyCut`.
* **Services.** The list is a ring that begins at the cursor (`Sooner`). Who was called since an object was
  has its next turn after it (`InTurn`), whichever entry UnRegister erases and wherever it leaves the cursor, so
  that the object at the cursor has not been called since any other was. RightCalls needs that an
  entry of a map's object is in one of `m_map` and `m_mapAdd`, of an object that is registered or in
  `m_setDel`, and that in a round nothing of `m_map` but its first has been called (`Mapped`). A
  multimap's order is a rank of the entries: that it keeps each of them is a lemma by counting (`RankOnce`). Hypothesis: `~Heedless`.

The loops of LevelPool, TimerWheel, PackOps and EventLink are recursive functions, and the theorems that prove by induction take
an operator, which no prover here can instantiate. `Iteration` does it with sets: a set of numbers has
a least one, by NatLessThanWellFounded, so that there is no least pass that breaks what all passes keep
(`Kept`, `KeptAt`), nor a least number of passes for which no function of them exists (`Passes`).

What is only model-checked, and why:

* liveness (TimeoutReaps, LoginEnters, FlushedInTime, StopReturns, Reconnected, Flushed, Served):
  the prover does not deal with ENABLED;
* Answerable, QueuedAlive, ReconnectKeepsLink, NotEarly, AssertSent, OnceAFrame, UpInOrder, DownInOrder and, in what
  their theorems exclude, OneOperation, ReplyExpected, RightCalls and Served do not hold (section 6).

## 6. Where the code and its comments disagree

Five runs expect a violation; `findings` in `PROJECT.json` has the details.

* **battle_reconnect**: `svr_battle/Player/Player.cpp:147` takes the reconnect for done; ResetNetLink has
  closed the new connection by way of the deleted agent.
* **timer_wheel_early**: `common/Timer/TimerWheel.cpp:80` holds that slots passed are timed out; a timer that
  cascades in a long frame is early.
* **rpc_link_once**: `NetLib/iocp/client/ClientLink.cpp:237` holds that the lock keeps the main thread and
  completions from conflicting in PostSend; OnConnect sets `_bCanWrite` without it, and after a
  reconnection two sends use one overlapped structure.
* **rpc_link_reply**: `svr_battle/Zookeeper/Zookeeper.cpp:23` sees no race in CallRpc; the reply may be handled before
  the callback is registered (`rpc/RpcClient.cpp:49-51`), and then fails the assertion `rpc/RpcQueue.h:61` or is dropped.
* **event_link_up**: `NetLib/libuv/server/TcpServer.cpp:117` leaves a partial message for the next read, which is parsed from its own
  first byte (104).

For these TLC finds a violation too when the property named is put into the configuration, and no run is spent on them:

* `rpc/RpcQueue.h:61` asserts that a message without a handler is an answer; the error of a closed link (`svr_battle.cpp:64`)
  has no handler and answers nothing: `Answerable` in MCBattle.cfg.
* `rpc/RpcQueue.h:9` wants players deleted only after their messages were handled; an agent outlives
  its player and queues the pointer: `QueuedAlive` in MCBattle.cfg.
* `NetLib/iocp/server/ServLink.cpp:371` asserts that what was sent is in the buffer; CloseLink clears it (272) without the lock, before the
  state changes (278): `AssertSent` in MCServLink.cfg.
* `common/Service/Service.h:53` lets the function register and unregister; a patch that is emptied
  by it is indexed (101), and a map drops what was registered again (241): `RightCalls` and `Served` in MCLogServices.cfg with
  `Heedless = TRUE`.
* `common/Service/Service.h:6` has an object called at most once a frame; a map may keep two entries of one: `OnceAFrame`
  in the same.
* `NetLib/libevent/client/TcpClient.cpp:98` moves on to the next packet; it moves by all that was read (99): `DownInOrder` in
  EventLinkUp.cfg.

Others are in the code as modelled, and no run asks for them:

* `Room.cpp:108` wants to refuse a group for which there are not enough places; players that were let
  in and have not logged in are not counted.
* `svr_battle.cpp:44` drops messages of players outside of rooms; the room id it reads is never set,
  so those inside are dropped too.
* `TimerWheel.h:4-7` wants periodic timers to catch up after a stall; they stay late.
* `Service.h:6` says that an object is called at most once a frame; a list and a vec call one as often as it
  is overdue. `RightCalls` asks it of the map, for which it holds without `Heedless`.
* A ServiceList whose cursor was on its last object when that was unregistered stands at the end and
  calls nobody until an object is registered (`Service.h:131`): the exception in `Served`.

And what the named bounds leave out, since the code does not get it right:

* ServLink: a failing AcceptEx closes the socket and keeps the handle (165), for Maintain to close
  again, when it may be another link's (`AcceptExFails`). _AssistLoop ends at a spurious wake of its
  wait, and EndThread does not join (`common/tool/thread.h:20-30`). ServLinkMgr::Close has no caller.
* ClientLink: a Connect that fails at once is never tried again (the disjunct `failed` of Reconnected);
  a WSASend that fails leaves `_bCanWrite` FALSE, a WSARecv that fails leaves the link deaf.
  `m_SendBuffer` is used by the thread of _OnConnect and the main thread, as RpcClient.cpp:21-23 knows;
  a message added while there is no connection goes before the connection's id. Response callbacks of a lost
  link stay.
* libevent: the server never makes room in `m_recvBuf`, so a partial message at its end stops
  the link (server/TcpServer.cpp:127); the client does not
  clear its buffer for a new connection; a too large message deletes the agent that the loop goes on using
  (server/TcpServer.cpp:138). libuv: `_write_list` is of all agents, its
  locks of one each.
* net::Buffer: prepend of more than is in front, with the content further back than where it began,
  may copy past the memory (59-67); nothing calls prepend. read<string> looks for the end beyond the
  content (158). ByteBuffer's operators for containers read one element too few (344-414), swap leaves
  the positions (149).
* smart pointers: counts are not atomic; lock() in the destructor of the object itself revives it
  (shared_ptr_move_only.h); an exception in make_shared leaks.
* LuaCall: `lua_pop(L, -1)` clears the whole frame (301, 305, 344, 348), so what a script returns is
  lost; a script that fails in ReloadFile leaves nothing registered (284); a key that is neither a number nor a string
  has its value entered under the key before it (223-236); PrintStack leaves a value (46).

## 7. Plan

Done: all modules of section 2, and the theorems of section 5: every safety property that holds, and the
two refinements. What is left is a model of DataSend once the repository has a caller for it
(section 8), and AcceptExFails in ServLink once the code clears the handle (section 6).

None of the modules declares RECURSIVE operators, so that theorems can be stated about each of them.

## 8. Not modelled

Socket start-up and RakNet itself (reliable and ordered by its own promise); compression and
formatting of packets; CSV parsing, which keeps no state of the game; Reward and Trigger, which
nothing calls yet; the handy back end, which the build does not select (`Player.h:11`); Floyd, random
numbers, weights, delegates.

The rank list and DataSend with DataDiff have no caller in the repository. Reading them: `Rank.OnValueChange`
moves an entry whose value drops one place too far (`common/Rank/rank.h:30-33,53-57`), and an insertion drops the
last entry even where there is room (82-84). DataSend's ReadDif writes eight bytes an entry where
WriteDif reads five (`common/Buffer/DataSend.cpp:15-34`), a difference in bit 31 alone is not seen as dirty, and
the bit of a value that became zero stays, so that a relayed full message is read out of step
(75-97). A model of either would state no property that holds.
