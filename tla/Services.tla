------------------------------ MODULE Services ------------------------------
(***************************************************************************)
(* A service calls one function for each of its objects every m_timeCD ms. *)
(* The main loop runs its rounds; the function, and handlers between the   *)
(* rounds, register and unregister objects, which moves the cursor or the  *)
(* iterator of a round. ServicePatch, ServiceList and ServiceVec go round a*)
(* sequence, ServiceMap takes its objects in the order of their times.     *)
(* Times are relative to the present frame.                                *)
(***************************************************************************)
EXTENDS Integers, Sequences, FiniteSets, SequencesExt

CONSTANTS
  Objects,   \* what is registered
  NoObject,  \* no object
  TimeCD,    \* m_timeCD
  TimeAll,   \* kTimeAll of ServicePatch
  Elapses,   \* how long a frame may take
  Heedless,  \* whether objects come and go also where a service loses track of them
  MaxEntries, \* bound: so many entries
  MaxLate    \* bound: what is later than that counts as that late

ASSUME ServicesAssumption ==
  /\ NoObject \notin Objects
  /\ TimeCD \in Nat \ {0} /\ TimeAll \in Nat \ {0} /\ MaxLate \in Nat
  /\ Elapses \subseteq Nat /\ Heedless \in BOOLEAN /\ MaxEntries \in Nat

VARIABLES
  kind,     \* "patch", "list", "vec" or "map"
  objs,     \* m_aObj, m_list, m_vec or m_map: a sequence of times and objects
  runPos,   \* m_runPos, or the place of m_runIt: Len(objs) is the end
  timeWait, \* m_timeWait
  runNum,   \* how many calls a round of ServicePatch has left
  mapAdd, setDel,  \* m_mapAdd, m_setDel
  bRun,     \* m_bRun: a round is running
  calling,  \* the object the function is called for
  registered,  \* history: the objects that are registered
  since,    \* history: what was called since an object was registered or called
  called    \* history: what was called in this frame

serviceVars == <<kind, objs, runPos, timeWait, runNum, mapAdd, setDel, bRun, calling,
                 registered, since, called>>

Entry(time, o) == [time |-> time, obj |-> o]
Later(s, e) == [i \in 1 .. Len(s) |->
                  [s[i] EXCEPT !.time = IF @ - e < -MaxLate THEN -MaxLate ELSE @ - e]]
\* multimap: the entries of s at places K by their times, those of one time as they came.
NotAfter(s, i, j) == s[i].time < s[j].time \/ (s[i].time = s[j].time /\ i <= j)
Rank(s, K, j) == Cardinality({i \in K : NotAfter(s, i, j)})
ByTime(s, K) == [k \in 1 .. Cardinality(K) |-> s[CHOOSE j \in K : Rank(s, K, j) = k]]
Merged(s, t) == ByTime(s \o t, 1 .. Len(s) + Len(t))
Insert(s, e) == Merged(s, <<e>>)
Without(s, i) == RemoveAt(s, i)
Entries(o) == {i \in 1 .. Len(objs) : objs[i].obj = o}
FirstPlace(o) == CHOOSE i \in Entries(o) : \A j \in Entries(o) : i <= j

ServiceInit ==
  /\ kind \in {"patch", "list", "vec", "map"}
  /\ objs = <<>> /\ runPos = 0 /\ timeWait = 0 /\ runNum = 0
  /\ mapAdd = <<>> /\ setDel = {} /\ bRun = FALSE /\ calling = NoObject
  /\ registered = {} /\ since = [o \in Objects |-> {}] /\ called = {}

-----------------------------------------------------------------------------
(* Register, UnRegister: between the rounds, and by the function in one    *)

Outside == ~bRun \/ calling # NoObject

\* A list that had come to its end begins anew. Only the heedless register again with a
\* map, before the next round, what they have unregistered: m_setDel still has it.
Register(o) ==
  /\ Outside /\ o \notin registered /\ Len(objs) + Len(mapAdd) < MaxEntries
  /\ kind = "map" /\ ~Heedless => o \notin setDel
  /\ LET e == Entry(TimeCD, o)
     IN  IF kind = "map" /\ bRun THEN mapAdd' = Insert(mapAdd, e) /\ UNCHANGED objs
         ELSE /\ objs' = IF kind = "map" THEN Insert(objs, e) ELSE Append(objs, e)
              /\ UNCHANGED mapAdd
  /\ runPos' = IF kind = "list" /\ runPos = Len(objs) THEN 0 ELSE runPos
  /\ registered' = registered \cup {o}
  /\ since' = [since EXCEPT ![o] = {}]
  /\ UNCHANGED <<kind, timeWait, runNum, setDel, bRun, calling, called>>

\* Fault: the cursor stays when an entry before it goes.
MovedNot(i) == IF kind # "list" /\ runPos >= Len(objs) - 1 THEN 0 ELSE runPos

\* Where the cursor is when entry i has been erased: before, on or behind it.
Moved(i) ==
  IF i - 1 < runPos THEN runPos - 1
  ELSE IF kind # "list" /\ runPos >= Len(objs) - 1 THEN 0 ELSE runPos

\* Only the heedless leave a patch that has calls left without an object, and
\* unregister from a map what it has in m_mapAdd alone: it looks only at m_map.
UnRegister(o) ==
  /\ Outside /\ o \in registered
  /\ kind = "patch" /\ ~Heedless => Len(objs) > 1 \/ runNum = 0
  /\ kind = "map" /\ ~Heedless => Entries(o) # {}
  /\ IF kind = "map"
     THEN /\ setDel' = IF Entries(o) = {} THEN setDel ELSE setDel \cup {o}
          /\ UNCHANGED <<objs, runPos>>
     ELSE /\ objs' = Without(objs, FirstPlace(o))
          /\ runPos' = Moved(FirstPlace(o))
          /\ UNCHANGED setDel
  /\ registered' = registered \ {o}
  /\ since' = [b \in Objects |-> since[b] \ {o}]
  /\ UNCHANGED <<kind, timeWait, runNum, mapAdd, bRun, calling, called>>

-----------------------------------------------------------------------------
(* RunSevice                                                               *)

\* A map first drops, once each, what has been unregistered.
Dropped(s, D) ==
  ByTime(s, {i \in 1 .. Len(s) :
               s[i].obj \in D => \E j \in 1 .. i - 1 : s[j].obj = s[i].obj})

\* Fault: a round in which nothing is called forgets the time.
BeginForgets(e) ==
  LET n == Len(objs)
      m == ((timeWait + e) * n) \div TimeAll
  IN  /\ ~bRun
      /\ bRun' = TRUE /\ called' = {}
      /\ objs' = IF kind = "map" THEN Dropped(Later(objs, e), setDel)
                 ELSE IF kind = "patch" THEN objs ELSE Later(objs, e)
      /\ setDel' = {} /\ timeWait' = 0
      /\ runNum' = IF kind = "patch" THEN m ELSE 0
      /\ UNCHANGED <<kind, runPos, mapAdd, calling, registered, since>>

\* A frame of e ms has passed and a round begins. A patch computes how many calls
\* it makes; without objects it does not count the time.
Begin(e) ==
  LET n == Len(objs)
      t == timeWait + e
  IN  /\ ~bRun
      /\ bRun' = TRUE /\ called' = {}
      /\ objs' = IF kind = "map" THEN Dropped(Later(objs, e), setDel)
                 ELSE IF kind = "patch" THEN objs ELSE Later(objs, e)
      /\ setDel' = {}
      /\ IF kind = "patch" /\ n > 0
         THEN LET m == (t * n) \div TimeAll
                  one == TimeAll \div n
              IN  /\ runNum' = m
                  /\ timeWait' = IF m = 0 THEN t ELSE IF one = 0 THEN 0 ELSE t % one
         ELSE UNCHANGED <<runNum, timeWait>>
      /\ UNCHANGED <<kind, runPos, mapAdd, calling, registered, since>>

Due ==
  CASE kind = "patch" -> runNum > 0
    [] kind = "map" -> objs # <<>> /\ objs[1].time <= 0
    [] OTHER -> runPos < Len(objs) /\ objs[runPos + 1].time <= 0

Called(o) ==
  /\ calling' = o /\ called' = called \cup {o}
  /\ since' = [b \in Objects |-> IF b = o THEN {} ELSE since[b] \cup {o}]

\* A patch does not look whether it still has an object. The place in the emptied
\* vector holds one that is gone.
AtCursor == IF objs = <<>> THEN Objects \ registered ELSE {objs[runPos + 1].obj}

\* The cursor goes on, round the end, before the function is called.
CallNext ==
  /\ bRun /\ calling = NoObject /\ Due /\ kind # "map"
  /\ runPos' = IF objs = <<>> THEN 0 ELSE (runPos + 1) % Len(objs)
  /\ objs' = IF kind = "patch" THEN objs
             ELSE [objs EXCEPT ![runPos + 1].time = @ + TimeCD]
  /\ runNum' = IF kind = "patch" THEN runNum - 1 ELSE runNum
  /\ \E o \in AtCursor : Called(o)
  /\ UNCHANGED <<kind, timeWait, mapAdd, setDel, bRun, registered>>

\* Fault: does not look at what was unregistered in this round.
CallFirstAny ==
  /\ bRun /\ calling = NoObject /\ Due /\ kind = "map"
  /\ Called(objs[1].obj)
  /\ UNCHANGED <<kind, objs, runPos, timeWait, runNum, mapAdd, setDel, bRun, registered>>

CallFirst ==
  /\ bRun /\ calling = NoObject /\ Due /\ kind = "map"
  /\ IF objs[1].obj \in setDel
     THEN objs' = Tail(objs) /\ UNCHANGED <<calling, called, since>>
     ELSE Called(objs[1].obj) /\ UNCHANGED objs
  /\ UNCHANGED <<kind, runPos, timeWait, runNum, mapAdd, setDel, bRun, registered>>

\* The function returns: the entry of a map is put aside with its next time.
Return ==
  /\ calling # NoObject /\ calling' = NoObject
  /\ IF kind = "map"
     THEN /\ objs' = Tail(objs)
          /\ mapAdd' = Insert(mapAdd, Entry(objs[1].time + TimeCD, objs[1].obj))
     ELSE UNCHANGED <<objs, mapAdd>>
  /\ UNCHANGED <<kind, runPos, timeWait, runNum, setDel, bRun, registered, since, called>>

End ==
  /\ bRun /\ calling = NoObject /\ ~Due
  /\ bRun' = FALSE
  /\ objs' = IF kind = "map" THEN Merged(objs, mapAdd) ELSE objs
  /\ mapAdd' = <<>>
  /\ UNCHANGED <<kind, runPos, timeWait, runNum, setDel, calling, registered, since, called>>

ServiceNext ==
  \/ \E o \in Objects : Register(o) \/ UnRegister(o)
  \/ \E e \in Elapses : Begin(e)
  \/ CallNext \/ CallFirst \/ Return \/ End

\* The main loop runs every round to its end; the function returns.
ServiceFairness ==
  /\ WF_serviceVars(\E e \in Elapses : Begin(e)) /\ WF_serviceVars(End)
  /\ WF_serviceVars(CallNext) /\ WF_serviceVars(CallFirst) /\ WF_serviceVars(Return)

ServiceSpec == ServiceInit /\ [][ServiceNext]_serviceVars /\ ServiceFairness

-----------------------------------------------------------------------------
(* Properties                                                              *)

Calls == calling' # calling /\ calling' # NoObject

\* The function is called for objects that are registered, whatever was unregistered in
\* this round, and by a map for each once a frame, even if it is late (Service.h:6).
RightCalls ==
  [][Calls => calling' \in registered /\ (kind = "map" => calling' \notin called)]_serviceVars

\* A map calls the function at most once a frame for an object (Service.h:6).
OnceAFrame == [][Calls /\ kind = "map" => calling' \notin called]_serviceVars

\* Objects take turns: while one waits for its turn no other has two, whatever is
\* registered and unregistered meanwhile.
TakeTurns ==
  [][Calls /\ kind # "map" =>
       \A o \in registered \ {calling'} : calling' \notin since[o]]_serviceVars

\* Unless objects are registered for ever, which may keep the cursor among the new
\* ones, each is called until it is unregistered. But a list whose cursor was on its
\* last object when that was unregistered is at its end: it calls nobody until an
\* object is registered.
Served ==
  (<>[][\A o \in Objects : ~Register(o)]_serviceVars) =>
    \A o \in Objects :
      (o \in registered)
        ~> (calling = o \/ o \notin registered \/ (kind = "list" /\ runPos = Len(objs)))
=============================================================================
