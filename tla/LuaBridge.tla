----------------------------- MODULE LuaBridge -----------------------------
(***************************************************************************)
(* LuaCall: the functions and tables of the scripts that it keeps in the   *)
(* registry, and what it leaves on the Lua stack. A global is the number   *)
(* of the load that defined it, 0 when it is nothing to register. The C++  *)
(* functions that scripts can call do not call LuaCall, so its calls do    *)
(* not nest.                                                               *)
(***************************************************************************)
EXTENDS Naturals, Sequences, FiniteSets, SequencesExt

CONSTANTS
  Funcs,    \* the functions of ELuaCall; one is "reload"
  Tables,   \* the tables of ELuaTable
  MaxLoads, \* bound: scripts loaded
  Keys,     \* keys of script tables: their names, or "flag" for true
  MaxPairs  \* bound: pairs of a script table

ASSUME LuaBridgeAssumption ==
  /\ "reload" \in Funcs /\ IsFiniteSet(Funcs) /\ IsFiniteSet(Tables)
  /\ MaxLoads \in Nat \ {0} /\ MaxPairs \in Nat

Names == Funcs \cup Tables
Refs  == 1 .. Cardinality(Names)

VARIABLES
  stack,    \* the Lua stack of m_pL
  globals,  \* the script's globals
  registry, \* what the references of the registry stand for; 0: free
  idx,      \* m_FuncIdx and m_TableIdx
  loads,    \* loads done
  lost,     \* history: the last load was of a script that failed, by ReloadFile
  luaTables,  \* script tables: sequences of pairs; an outer and an inner one
  reading   \* calls of ReadLuaTable under way: [index, at, key, ret]; the last one's is on top

luaVars  == <<stack, globals, registry, idx, loads, lost, luaTables, reading>>
scripts  == <<globals, registry, idx, loads, lost>>

\* lua_settop, and lua_pop, which is lua_settop from the top: lua_pop(L, -1) pops all.
SetTop(s, n) == SubSeq(s \o <<"nil", "nil">>, 1, n)
Pop(s, n)    == SubSeq(s, 1, Len(s) - n)

Pairs == [key : Keys, value : {"number", "string", "inner", "other"}]

LuaInit ==
  /\ stack = <<>> /\ loads = 0 /\ lost = FALSE /\ reading = <<>>
  /\ globals = [n \in Names |-> 0] /\ idx = [n \in Names |-> 0]
  /\ registry = [r \in Refs |-> 0]
  /\ luaTables = [outer |-> <<>>, inner |-> <<>>]

-----------------------------------------------------------------------------
(* Loading scripts                                                         *)

\* DoFile: the stack behind it, of a script that returns n values or fails with a message.
DoFile(s, fails, n) ==
  IF fails THEN Pop(Append(s, "message"), 1) ELSE s \o [i \in 1 .. n |-> "result"]

\* What the globals are when a load has defined those of `def` and unset those of `undef`.
Defined(def, undef) ==
  [n \in Names |-> IF n \in def THEN loads + 1 ELSE IF n \in undef THEN 0 ELSE globals[n]]

\* luaL_ref for each of the names K: the first free references, one each.
FreeRefs(reg, K) ==
  CHOOSE f \in Injection(K, {r \in Refs : reg[r] = 0}) :
    \A n \in K : \A r \in 1 .. f[n] : reg[r] = 0 => \E m \in K : f[m] = r

\* RegLuaCall and RegLuaTable of all names: those the script defines get a reference.
Registered(x, g) ==
  LET K == {n \in Names : g[n] # 0}
      f == FreeRefs(x.registry, K)
  IN  [stack |-> <<>>, count |-> x.count + Cardinality(K),
       idx |-> [n \in Names |-> IF n \in K THEN f[n] ELSE x.idx[n]],
       registry |-> [r \in Refs |-> IF \E n \in K : f[n] = r
                                   THEN g[CHOOSE n \in K : f[n] = r] ELSE x.registry[r]]]

\* Fault: UnRegLuaTable is left out.
UnRegisteredFuncs(s) ==
  [stack |-> s, count |-> 0,
   registry |-> [r \in Refs |-> IF \E n \in Funcs : idx[n] = r THEN 0 ELSE registry[r]],
   idx |-> [n \in Names |-> IF n \in Funcs THEN 0 ELSE idx[n]]]

\* UnRegLuaCall, with the stack as it is.
UnRegistered(s) ==
  [stack |-> s, count |-> 0,
   registry |-> [r \in Refs |-> IF \E n \in Names : idx[n] = r THEN 0 ELSE registry[r]],
   idx |-> [n \in Names |-> 0]]

\* A call of a registered function with n arguments: pushed, called, and gone; or the
\* message of its error is popped.
CallRef(s, n, fails) ==
  LET pushed == s \o <<"function">> \o [i \in 1 .. n |-> "argument"]
      called == Pop(pushed, n + 1)
  IN  IF fails THEN Pop(Append(called, "message"), 1) ELSE called

\* The constructor registers even when the main script fails.
LuaCall(def, fails, n) ==
  /\ loads = 0 /\ loads' = 1 /\ lost' = FALSE
  /\ globals' = Defined(def, {})
  /\ LET x == Registered(UnRegistered(DoFile(stack, fails, n)), globals')
     IN  stack' = x.stack /\ idx' = x.idx /\ registry' = x.registry
  /\ UNCHANGED <<luaTables, reading>>

\* ReloadFile: ReloadBegin (whether it fails or not), nothing registered while the script
\* loads, and then what it defines, with ReloadEnd. A script that fails leaves nothing.
ReloadFile(def, undef, fails, n) ==
  /\ loads \in 1 .. MaxLoads - 1 /\ reading = <<>> /\ loads' = loads + 1 /\ lost' = fails
  /\ globals' = Defined(def, undef)
  /\ LET s == IF idx["reload"] # 0 THEN CallRef(stack, 1, fails) ELSE stack
         x == UnRegistered(DoFile(s, fails, n))
         y == IF fails THEN x ELSE Registered(x, globals')
     IN  /\ idx' = y.idx /\ registry' = y.registry
         /\ stack' = IF y.count > 0 /\ y.idx["reload"] # 0
                    THEN CallRef(y.stack, 1, FALSE) ELSE y.stack
  /\ UNCHANGED <<luaTables, reading>>

-----------------------------------------------------------------------------
(* Calls                                                                   *)

\* CallMain, CallRecv, CallExit and their like.
CallFunc(f, n, fails) ==
  /\ reading = <<>> /\ idx[f] # 0
  /\ stack' = CallRef(stack, n, fails)
  /\ UNCHANGED <<scripts, luaTables, reading>>

\* PushLuaVal of a path of n keys: only its value stays.
PushLuaVal(s, n, v) == Append(SetTop(s, Len(s)), v)

\* _Call: the function and its arguments are pushed, a wrong option calls nothing, an error
\* leaves its message and a success its results; lua_settop takes away what there is.
Call(keys, narg, nres, wrong, fails) ==
  /\ reading = <<>> /\ loads > 0
  /\ LET pushed == PushLuaVal(stack, keys, "function") \o [i \in 1 .. narg |-> "argument"]
         called == IF wrong THEN pushed
                   ELSE Pop(pushed, narg + 1)
                        \o (IF fails THEN <<"message">> ELSE [i \in 1 .. nres |-> "result"])
     IN  stack' = SetTop(called, Len(stack))
  /\ UNCHANGED <<scripts, luaTables, reading>>

-----------------------------------------------------------------------------
(* ReadLuaTable                                                            *)

\* Any tables; those within another are of numbers. Keys of one name, as 1 and "1", are the same.
Contents(values) == BoundedSeq([key : Keys, value : values], MaxPairs)
OuterTables == Contents({"string", "inner", "other"})
InnerTables == Contents({"number"})

Frame(index) == [index |-> index, at |-> 1, key |-> "", ret |-> {}]

\* ReadLuaTable(path) of a table with any content. Bound: after the last load.
ReadLuaTable ==
  /\ reading = <<>> /\ loads = MaxLoads
  /\ \E outer \in OuterTables, inner \in InnerTables :
       luaTables' = [outer |-> outer, inner |-> inner]
  /\ stack' = PushLuaVal(stack, 2, "outer") \o <<"nil">>
  /\ reading' = <<Frame(Len(stack) + 1)>>
  /\ UNCHANGED scripts

Top   == Last(reading)
Table == luaTables[stack[Top.index]]

\* The name that a key is entered under: a key that is no number and no string has that of
\* the key before it.
KeyName(k) == IF k = "flag" THEN Top.key ELSE k

\* ret[key] = ..., in place of what was there.
Entering(ret, key, entries) == {e \in ret : e[1][1] # key} \cup entries

\* lua_next takes the key and pushes the next pair; a table is read where it lies; the
\* value is popped, the key stays.
TakesPair ==
  /\ reading # <<>> /\ Top.at <= Len(Table)
  /\ LET p == Table[Top.at]
         key == KeyName(p.key)
         frame == [Top EXCEPT !.at = @ + 1, !.key = key,
                              !.ret = IF p.value \in {"number", "string"}
                                      THEN Entering(@, key, {<<(<<key>>), p.value>>}) ELSE @]
         pushed == Pop(stack, 1) \o <<p.key, p.value>>
     IN  IF p.value = "inner"
         THEN /\ stack' = Append(pushed, "nil")
              /\ reading' = Front(reading) \o <<frame, Frame(Len(pushed))>>
         ELSE /\ stack' = Pop(pushed, 1)
              /\ reading' = Append(Front(reading), frame)
  /\ UNCHANGED <<scripts, luaTables>>

\* lua_next has popped the last key. What was read of an inner table goes under its key,
\* and its value is popped; the outer one is popped by ReadLuaTable(path).
Returns ==
  /\ reading # <<>> /\ Top.at > Len(Table)
  /\ stack' = Pop(Pop(stack, 1), 1)
  /\ IF Len(reading) = 1 THEN reading' = <<>> /\ luaTables' = [outer |-> <<>>, inner |-> <<>>]
     ELSE LET outer == reading[1]
          IN  /\ UNCHANGED luaTables
              /\ reading' = <<[outer EXCEPT !.ret = Entering(@, outer.key,
                   {<<(<<outer.key>>), "inner">>}
                     \cup {<<(<<outer.key>> \o e[1]), e[2]>> : e \in Top.ret})]>>
  /\ UNCHANGED scripts

LuaNext ==
  \/ \E def \in SUBSET Names, fails \in BOOLEAN, n \in 0 .. 1 :
       \/ LuaCall(def, fails, n)
       \/ \E undef \in SUBSET (Names \ def) : ReloadFile(def, undef, fails, n)
  \/ \E f \in Funcs, n \in 0 .. 1, fails \in BOOLEAN : CallFunc(f, n, fails)
  \/ \E keys \in 1 .. 2, narg, nres \in 0 .. 1, wrong, fails \in BOOLEAN :
       Call(keys, narg, nres, wrong, fails)
  \/ ReadLuaTable \/ TakesPair \/ Returns

LuaSpec == LuaInit /\ [][LuaNext]_luaVars

-----------------------------------------------------------------------------
(* Properties                                                              *)

Entered(s) == {p \in ToSet(s) : p.value # "other"}
Copied(t) ==
  UNION {{<<(<<p.key>>), p.value>>}
           \cup (IF p.value # "inner" THEN {}
                 ELSE {<<<<p.key, q.key>>, q.value>> : q \in Entered(luaTables.inner)}) :
         p \in Entered(t)}

\* The tables that are read as they are: names of their own, and nothing to enter where a key
\* is no number and no string.
Named(t) ==
  /\ \A i, j \in DOMAIN t : t[i].key = t[j].key => i = j
  /\ \A i \in DOMAIN t : t[i].key = "flag" => t[i].value = "other"

\* Between calls nothing is on the stack, whatever scripts return and however they fail. The
\* names that have a reference are those that the scripts have defined, each the one of its
\* last definition, and none after a ReloadFile that failed, which leaves LuaCall with no
\* function to call (LuaCall.h:12); no reference is kept beside them. What is read of a table
\* whose keys have names of their own is what it holds.
LuaAsFound ==
  /\ reading = <<>> => stack = <<>>
  /\ \A n \in Names : idx[n] # 0 <=> globals[n] # 0 /\ ~lost
  /\ \A n \in Names : idx[n] # 0 => registry[idx[n]] = globals[n]
  /\ Cardinality({r \in Refs : registry[r] # 0}) = Cardinality({n \in Names : idx[n] # 0})
  /\ Len(reading) = 1 /\ Top.at > Len(Table) /\ Named(luaTables.outer) /\ Named(luaTables.inner)
       => Top.ret = Copied(luaTables.outer)
=============================================================================
