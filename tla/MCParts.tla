------------------------------ MODULE MCParts ------------------------------
(* Buffers, packs, the libevent and libuv links, smart pointers, the Lua   *)
(* bridge, timers and pools, each for itself: a behaviour is one of one    *)
(* part, while the others stay as they began.                              *)
EXTENDS NetBuffer, EventLink, RpcPack, SharedPtr, LuaBridge,
        MCTimerWheel, IndexPool, LevelPool, PagePool

VARIABLE part

dataVars == <<bufferVars, linkVars, packVars, ptrVars, luaVars>>
toolVars == <<wheelVars, indexVars, levelVars, pageVars>>

\* The bodies of calls: nothing, or a number; a name and a number.
Num(n, v) == [str |-> FALSE, n |-> n, v |-> v]
Str(n, v) == [str |-> TRUE, n |-> n, v |-> v]
MCBodies ==
  [op \in OpCodes |->
     IF op = 1 THEN {<<>>} \cup {<<Num(2, v)>> : v \in 0 .. 2}
     ELSE {<<Str(n, n), Num(4, v)>> : n \in {0, 2}, v \in {1, 2}}]

PartsInit ==
  /\ part \in {"buffer", "link", "pack", "pointers", "lua", "timers", "ids", "levels", "pages"}
  /\ BufferInit /\ LinkInit /\ PackInit /\ PtrInit /\ LuaInit
  /\ WheelInit /\ IndexInit /\ LevelInit /\ PageInit
  /\ part # "link" => lib = "libevent"
  /\ part # "pointers" => ~copies

\* Which part a step is of; it leaves the variables of the others alone.
Only(p) == part = p /\ UNCHANGED part
DataStays == UNCHANGED dataVars
ToolsStay == UNCHANGED toolVars

PartsNext ==
  \/ /\ Only("buffer") /\ BufferNext /\ ToolsStay
     /\ UNCHANGED <<linkVars, packVars, ptrVars, luaVars>>
  \/ /\ Only("link") /\ LinkNext /\ ToolsStay
     /\ UNCHANGED <<bufferVars, packVars, ptrVars, luaVars>>
  \/ /\ Only("pack") /\ PackNext /\ ToolsStay
     /\ UNCHANGED <<bufferVars, linkVars, ptrVars, luaVars>>
  \/ /\ Only("pointers") /\ PtrNext /\ ToolsStay
     /\ UNCHANGED <<bufferVars, linkVars, packVars, luaVars>>
  \/ /\ Only("lua") /\ LuaNext /\ ToolsStay
     /\ UNCHANGED <<bufferVars, linkVars, packVars, ptrVars>>
  \/ /\ Only("timers") /\ WheelNext /\ DataStays
     /\ UNCHANGED <<indexVars, levelVars, pageVars>>
  \/ /\ Only("ids") /\ IndexNext /\ DataStays
     /\ UNCHANGED <<wheelVars, levelVars, pageVars>>
  \/ /\ Only("levels") /\ LevelNext /\ DataStays
     /\ UNCHANGED <<wheelVars, indexVars, pageVars>>
  \/ /\ Only("pages") /\ PageNext /\ DataStays
     /\ UNCHANGED <<wheelVars, indexVars, levelVars>>

PartsSpec == PartsInit /\ [][PartsNext]_<<part, dataVars, toolVars>>

\* Tables are read when the last script has defined all names: reading leaves
\* them and the registry alone.
FewReads == reading # <<>> => \A n \in Names : globals[n] = loads
=============================================================================
