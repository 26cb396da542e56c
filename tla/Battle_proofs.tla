--------------------------- MODULE Battle_proofs ----------------------------
(***************************************************************************)
(* Room and Battle, for any number of players, pool slots, rooms, teams    *)
(* and any room sizes. Room: what the rooms and the players in them keep   *)
(* true of each other. Battle: every agent of the pool is in use once or   *)
(* free once, however links open, close, close themselves and are closed   *)
(* through pointers that are out of date. While no player is deleted, none *)
(* has two open links.                                                     *)
(***************************************************************************)
EXTENDS Battle, FiniteSetTheorems, SequenceTheorems, TLAPS


-----------------------------------------------------------------------------
(* Room                                                                    *)

LEMMA RoomIdType == NoRoom \notin RoomIds /\ RoomIds \subseteq Nat
BY RoomAssumption DEF NoRoom, RoomIds

LEMMA TeamType == 0 \in Teams /\ 1 \in Teams /\ Teams \subseteq Int
BY TeamAssumption DEF Teams

\* The team TryToJoinWaitLst picks is a uint8.
LEMMA TargetTeamType ==
  ASSUME TypeOK, NEW r \in RoomIds, NEW n
  PROVE  TargetTeam(r, n) \subseteq Teams
<1>1. TeamKeys(r) \subseteq Teams
  BY DEF TypeOK, TeamKeys
<1>2. NewTeam(r) \subseteq Teams
  <2>1. ASSUME NEW t \in TeamKeys(r) PROVE (t + 1) % TeamMod \in Teams
    BY <1>1, <2>1, TeamAssumption DEF Teams
  <2> QED BY <2>1, TeamType DEF NewTeam
<1>3. SmallestTeam(r) \subseteq Teams
  BY <1>1 DEF SmallestTeam
<1> QED BY <1>2, <1>3 DEF TargetTeam

\* What the steps do to the rooms alone.
LEMMA JoinType ==
  ASSUME TypeOK, NEW r \in RoomIds, NEW S \in SUBSET Slots, Join(r, S)
  PROVE  members' \in [RoomIds -> SUBSET Slots] /\ view' \in [Slots -> SUBSET Slots]
BY DEF TypeOK, Join

LEMMA ExitRoomType ==
  ASSUME TypeOK, NEW r \in RoomIds, NEW s \in Slots, ExitRoom(r, s)
  PROVE  /\ members' \in [RoomIds -> SUBSET Slots] /\ view' \in [Slots -> SUBSET Slots]
         /\ waitLst' \in [RoomIds -> [Teams -> SUBSET Slots]]
         /\ roomList' \in SUBSET RoomIds
<1>1. waitLst' \in [RoomIds -> [Teams -> SUBSET Slots]]
  BY DEF TypeOK, ExitRoom, CancelWait
<1>2. QED BY <1>1 DEF TypeOK, ExitRoom

LEMMA FlushType ==
  ASSUME TypeOK, NEW r \in RoomIds, NEW lists \in [Teams -> SUBSET Slots],
         FlushWaitLst(r, lists)
  PROVE  /\ teamId' \in [Slots -> Teams] /\ canJoin' \in [Slots -> BOOLEAN]
         /\ members' \in [RoomIds -> SUBSET Slots] /\ view' \in [Slots -> SUBSET Slots]
         /\ waitLst' \in [RoomIds -> [Teams -> SUBSET Slots]]
         /\ waitKeys' \in [RoomIds -> SUBSET Teams]
<1>1. AllOf(lists) \subseteq Slots
  BY DEF AllOf
<1>2. \A s \in AllOf(lists) : (CHOOSE u \in Teams : s \in lists[u]) \in Teams
  BY DEF AllOf
<1>3. teamId' \in [Slots -> Teams]
  BY <1>2 DEF FlushWaitLst, TypeOK
<1>4. members' \in [RoomIds -> SUBSET Slots] /\ view' \in [Slots -> SUBSET Slots]
  BY <1>1, JoinType DEF FlushWaitLst
<1>5. canJoin' \in [Slots -> BOOLEAN]
  BY DEF FlushWaitLst, TypeOK
<1> QED BY <1>3, <1>4, <1>5 DEF FlushWaitLst, TypeOK

LEMMA TryToJoinType ==
  ASSUME TypeOK, NEW r \in RoomIds, NEW t \in Teams, NEW vec \in SUBSET Slots,
         TryToJoinWaitLst(r, t, vec)
  PROVE  /\ teamId' \in [Slots -> Teams] /\ canJoin' \in [Slots -> BOOLEAN]
         /\ members' \in [RoomIds -> SUBSET Slots] /\ view' \in [Slots -> SUBSET Slots]
         /\ waitLst' \in [RoomIds -> [Teams -> SUBSET Slots]]
         /\ waitKeys' \in [RoomIds -> SUBSET Teams]
<1> DEFINE lists == [waitLst[r] EXCEPT ![t] = @ \cup vec]
<1>1. lists \in [Teams -> SUBSET Slots]
  BY DEF TypeOK
<1>2. CASE FlushReady(r, t, Cardinality(vec))
  BY <1>1, <1>2, FlushType DEF TryToJoinWaitLst
<1>3. CASE ~FlushReady(r, t, Cardinality(vec))
  <2>1. /\ waitLst'  = [waitLst EXCEPT ![r] = lists]
        /\ waitKeys' = [waitKeys EXCEPT ![r] =
                          IF vec = {} /\ t \in TeamKeys(r) THEN @ ELSE @ \cup {t}]
        /\ UNCHANGED <<teamId, canJoin, members, view>>
    BY <1>3 DEF TryToJoinWaitLst
  <2>2. waitLst' \in [RoomIds -> [Teams -> SUBSET Slots]]
    <3> HIDE DEF lists
    <3> QED BY <1>1, <2>1 DEF TypeOK
  <2>3. waitKeys' \in [RoomIds -> SUBSET Teams]
    BY <2>1 DEF TypeOK
  <2> QED BY <2>1, <2>2, <2>3 DEF TypeOK
<1> QED BY <1>2, <1>3

-----------------------------------------------------------------------------
(* Leaving: ExitRoom takes the player out of everything it is in.          *)

LEMMA ExitRoomEffect ==
  ASSUME IInv, NEW s \in Slots, roomId[s] \in roomList, ExitRoom(roomId[s], s)
  PROVE  /\ \A q \in RoomIds : members'[q] = members[q] \ {s}
         /\ \A q \in RoomIds : \A t \in Teams : waitLst'[q][t] = waitLst[q][t] \ {s}
         /\ \A x \in Slots : roomId[x] = roomId[s] /\ roomId[s] \notin roomList'
              => x = s \/ x \notin Occupants(roomId[s])
         /\ \A q \in roomList : q # roomId[s] => q \in roomList'
         /\ roomList' \subseteq roomList
<1> DEFINE r == roomId[s]
<1>0. r \in RoomIds
  BY DEF IInv, TypeOK
<1>1. \A q \in RoomIds : s \in Occupants(q) => q = r
  BY DEF IInv, MembersAgree
<1>2. \A q \in RoomIds : \A t \in Teams : s \in waitLst[q][t] => q = r
  BY <1>1 DEF Occupants, Waiting, AllOf
<1>3. \A q \in RoomIds : members'[q] = members[q] \ {s}
  BY <1>0, <1>1 DEF ExitRoom, Occupants, IInv, TypeOK
<1>4. ASSUME NEW t \in Teams PROVE waitLst'[r][t] = waitLst[r][t] \ {s}
  <2> DEFINE in == {u \in Teams : s \in waitLst[r][u]}
  <2>1. waitLst'[r][t] = IF t \in in /\ \A u \in in : t <= u
                        THEN waitLst[r][t] \ {s} ELSE waitLst[r][t]
    BY <1>0 DEF ExitRoom, CancelWait, IInv, TypeOK
  <2>2. t \in in => \A u \in in : u = t
    BY <1>0 DEF IInv, WaitsOnce
  <2>3. t \in in => \A u \in in : t <= u
    BY <2>2, TeamType
  <2> QED BY <2>1, <2>3
<1>5. ASSUME NEW q \in RoomIds, NEW t \in Teams
      PROVE  waitLst'[q][t] = waitLst[q][t] \ {s}
  <2>1. CASE q = r
    BY <1>4, <2>1
  <2>2. CASE q # r
    <3>1. waitLst'[q] = waitLst[q]
      BY <1>0, <2>2 DEF ExitRoom, CancelWait, IInv, TypeOK
    <3> QED BY <1>2, <2>2, <3>1
  <2> QED BY <2>1, <2>2
<1>6. ASSUME r \notin roomList' PROVE \A x \in Slots : x = s \/ x \notin Occupants(r)
  <2>1. members[r] \ {s} = {} /\ waitKeys[r] = {}
    BY <1>6 DEF ExitRoom
  <2>2. \A t \in Teams : waitLst[r][t] = {}
    BY <1>0, <2>1 DEF IInv, WaitKeysCover
  <2> QED BY <2>1, <2>2 DEF Occupants, Waiting, AllOf
<1>7. roomList' \subseteq roomList /\ \A q \in roomList : q # r => q \in roomList'
  BY DEF ExitRoom
<1> QED BY <1>3, <1>5, <1>6, <1>7

\* The same for a room the player is not told to leave: nothing changes.
LEMMA OccupantsAfterExit ==
  ASSUME NEW s \in Slots,
         \A q \in RoomIds : members'[q] = members[q] \ {s},
         \A q \in RoomIds : \A t \in Teams : waitLst'[q][t] = waitLst[q][t] \ {s}
  PROVE  \A q \in RoomIds : Occupants(q)' = Occupants(q) \ {s}
BY DEF Occupants, Waiting, AllOf

LEMMA ViewsAfterExit ==
  ASSUME IInv, NEW s \in Slots, roomId[s] \in roomList, ExitRoom(roomId[s], s)
  PROVE  ViewsAgree'
<1>1. \A q \in RoomIds : members'[q] = members[q] \ {s}
  BY ExitRoomEffect
<1>2. SUFFICES ASSUME NEW q \in RoomIds, NEW x \in members'[q]
               PROVE  view'[x] = members'[q]
  BY DEF ViewsAgree
<1>3. x \in Slots /\ x # s /\ x \in members[q] /\ view[x] = members[q] /\ roomId[x] = q
  BY <1>1 DEF IInv, TypeOK, MembersAgree, Occupants, ViewsAgree
<1>4. CASE x \in members[roomId[s]]
  BY <1>1, <1>3, <1>4 DEF ExitRoom
<1>5. CASE x \notin members[roomId[s]]
  <2>1. q # roomId[s] /\ view'[x] = view[x]
    BY <1>3, <1>5 DEF ExitRoom
  <2>2. s \notin members[q]
    BY <2>1 DEF IInv, MembersAgree, Occupants
  <2> QED BY <1>1, <1>3, <2>1, <2>2
<1> QED BY <1>4, <1>5

\* Leaving, with whatever the caller does to the player itself.
LEMMA LeaveInv ==
  ASSUME IInv, NEW s \in Slots, roomId[s] \in roomList, ExitRoom(roomId[s], s),
         TypeOK',
         roomId' = [roomId EXCEPT ![s] = NoRoom],
         \A x \in Slots : x # s => pid'[x] = pid[x] /\ canJoin'[x] = canJoin[x]
  PROVE  IInv'
<1>1. /\ \A q \in RoomIds : members'[q] = members[q] \ {s}
      /\ \A q \in RoomIds : \A t \in Teams : waitLst'[q][t] = waitLst[q][t] \ {s}
      /\ \A x \in Slots : roomId[x] = roomId[s] /\ roomId[s] \notin roomList'
              => x = s \/ x \notin Occupants(roomId[s])
      /\ \A q \in roomList : q # roomId[s] => q \in roomList'
      /\ roomList' \subseteq roomList
  BY ExitRoomEffect
<1>2. \A q \in RoomIds : Occupants(q)' = Occupants(q) \ {s}
  BY <1>1, OccupantsAfterExit
<1>3. MembersAgree'
  <2> SUFFICES ASSUME NEW q \in RoomIds, NEW x \in Occupants(q)'
               PROVE  x \in Live' /\ roomId'[x] = q /\ q \in roomList'
    BY DEF MembersAgree
  <2>1. x # s /\ x \in Occupants(q) /\ x \in Live /\ roomId[x] = q /\ q \in roomList
    BY <1>2 DEF IInv, MembersAgree
  <2>2. x \in Slots /\ pid[x] # NoPid
    BY <2>1 DEF Live
  <2>3. q \in roomList'
    BY <1>1, <2>1, <2>2
  <2> QED BY <2>1, <2>2, <2>3 DEF Live, IInv, TypeOK
<1>4. WaitsOnce'
  BY <1>1 DEF IInv, WaitsOnce
<1>5. WaitKeysCover'
  BY <1>1 DEF IInv, WaitKeysCover, ExitRoom
<1>6. ViewsAgree'
  BY ViewsAfterExit
<1>7. NobodyLost'
  <2> SUFFICES ASSUME NEW x \in Slots, roomId'[x] \in roomList'
               PROVE  x \in Occupants(roomId[x])' \/ canJoin'[x]
    BY <1>2 DEF NobodyLost, IInv, TypeOK
  <2>1. x # s /\ roomId'[x] = roomId[x] /\ roomId[x] \in roomList /\ roomId[x] \in RoomIds
    BY <1>1, RoomIdType DEF IInv, TypeOK
  <2> QED BY <1>2, <2>1 DEF IInv, NobodyLost
<1>8. IdsIssued'
  <2>1. lastRoom' = lastRoom /\ lastRoom \in Nat
    BY RoomAssumption DEF ExitRoom, IInv, TypeOK
  <2>2. roomList' \subseteq 1 .. lastRoom'
    BY <1>1, <2>1 DEF IInv, IdsIssued
  <2>3. \A x \in Slots : roomId'[x] <= lastRoom'
    BY <2>1 DEF IInv, IdsIssued, TypeOK, NoRoom
  <2> QED BY <2>2, <2>3 DEF IdsIssued
<1> QED BY <1>3, <1>4, <1>5, <1>6, <1>7, <1>8 DEF IInv

-----------------------------------------------------------------------------
(* Joining                                                                 *)

\* Whoever is in a room after a group was put in room r was there before, or
\* belongs to the group.
LEMMA PlacedOccupants ==
  ASSUME TypeOK, NEW r \in RoomIds, NEW t \in Teams, NEW vec \in SUBSET Slots,
         TryToJoinWaitLst(r, t, vec)
  PROVE  /\ \A q \in RoomIds \ {r} : Occupants(q)' = Occupants(q)
         /\ Occupants(r)' \subseteq Occupants(r) \cup vec
         /\ \A x \in Occupants(r) \cup vec : x \in Occupants(r)' \/ canJoin'[x]
         /\ \A x \in Slots : canJoin[x] => canJoin'[x]
<1> DEFINE lists == [waitLst[r] EXCEPT ![t] = @ \cup vec]
<1>0. lists \in [Teams -> SUBSET Slots]
  BY DEF TypeOK
<1>1. AllOf(lists) = Waiting(r) \cup vec
  BY DEF AllOf, Waiting, TypeOK
<1>2. CASE FlushReady(r, t, Cardinality(vec))
  <2> HIDE DEF lists
  <2>1. FlushWaitLst(r, lists)
    BY <1>2 DEF TryToJoinWaitLst, lists
  <2>2. \A q \in RoomIds \ {r} : members'[q] = members[q] /\ waitLst'[q] = waitLst[q]
    BY <2>1 DEF FlushWaitLst, Join, TypeOK
  <2>3. /\ members'[r] = members[r] \cup {s \in AllOf(lists) : isLogin[s]}
        /\ \A u \in Teams : waitLst'[r][u] = {}
    BY <2>1 DEF FlushWaitLst, Join, TypeOK
  <2>4. \A x \in Slots : canJoin'[x] = (x \in AllOf(lists) \/ canJoin[x])
    BY <2>1 DEF FlushWaitLst
  <2>5. AllOf(lists) \subseteq Slots
    BY <1>0 DEF AllOf
  <2>6. \A q \in RoomIds \ {r} : Occupants(q)' = Occupants(q)
    BY <2>2 DEF Occupants, Waiting, AllOf
  <2>7. Waiting(r)' = {}
    BY <2>3 DEF Waiting, AllOf
  <2>8. Occupants(r)' \subseteq Occupants(r) \cup vec
    BY <1>1, <2>3, <2>7 DEF Occupants
  <2>9. \A x \in Occupants(r) \cup vec : x \in Occupants(r)' \/ canJoin'[x]
    BY <1>1, <2>3, <2>4, <2>5 DEF Occupants
  <2> QED BY <2>4, <2>6, <2>8, <2>9 DEF TypeOK
<1>3. CASE ~FlushReady(r, t, Cardinality(vec))
  <2>1. waitLst' = [waitLst EXCEPT ![r] = lists] /\ UNCHANGED <<members, canJoin>>
    BY <1>3 DEF TryToJoinWaitLst
  <2> HIDE DEF lists
  <2>2. \A q \in RoomIds \ {r} : Waiting(q)' = Waiting(q)
    BY <2>1 DEF TypeOK, Waiting, AllOf
  <2>3. Waiting(r)' = AllOf(lists)
    BY <2>1 DEF TypeOK, Waiting, AllOf
  <2> QED BY <1>1, <2>1, <2>2, <2>3 DEF Occupants
<1> QED BY <1>2, <1>3

LEMMA PlacedWaiting ==
  ASSUME IInv, NEW r \in RoomIds, NEW t \in Teams, NEW vec \in SUBSET Slots,
         vec \cap Waiting(r) = {}, TryToJoinWaitLst(r, t, vec)
  PROVE  WaitsOnce' /\ WaitKeysCover'
<1> DEFINE lists == [waitLst[r] EXCEPT ![t] = @ \cup vec]
<1>1. CASE FlushReady(r, t, Cardinality(vec))
  <2>1. /\ waitLst'  = [waitLst EXCEPT ![r] = [u \in Teams |-> {}]]
        /\ waitKeys' = [waitKeys EXCEPT ![r] = {}]
    BY <1>1 DEF TryToJoinWaitLst, FlushWaitLst
  <2>2. \A q \in RoomIds \ {r} : waitLst'[q] = waitLst[q] /\ waitKeys'[q] = waitKeys[q]
    BY <2>1 DEF IInv, TypeOK
  <2>3. \A u \in Teams : waitLst'[r][u] = {}
    BY <2>1 DEF IInv, TypeOK
  <2>4. WaitsOnce'
    BY <2>2, <2>3 DEF IInv, WaitsOnce
  <2>5. WaitKeysCover'
    BY <2>2, <2>3 DEF IInv, WaitKeysCover
  <2> QED BY <2>4, <2>5
<1>2. CASE ~FlushReady(r, t, Cardinality(vec))
  <2>1. /\ waitLst'  = [waitLst EXCEPT ![r] = lists]
        /\ waitKeys' = [waitKeys EXCEPT ![r] =
                          IF vec = {} /\ t \in TeamKeys(r) THEN @ ELSE @ \cup {t}]
    BY <1>2 DEF TryToJoinWaitLst
  <2>2. \A q \in RoomIds \ {r} : waitLst'[q] = waitLst[q] /\ waitKeys'[q] = waitKeys[q]
    BY <2>1 DEF IInv, TypeOK
  <2>3. \A u \in Teams : waitLst'[r][u] = waitLst[r][u] \cup (IF u = t THEN vec ELSE {})
    BY <2>1 DEF IInv, TypeOK
  <2>4. waitKeys[r] \subseteq waitKeys'[r] /\ (vec # {} => t \in waitKeys'[r])
    BY <2>1 DEF IInv, TypeOK
  <2>5. \A u \in Teams : vec \cap waitLst[r][u] = {}
    BY DEF Waiting, AllOf
  <2>6. WaitsOnce'
    BY <2>2, <2>3, <2>5 DEF IInv, WaitsOnce
  <2>7. WaitKeysCover'
    BY <2>2, <2>3, <2>4 DEF IInv, WaitKeysCover
  <2> QED BY <2>6, <2>7
<1> QED BY <1>1, <1>2

\* JoinRoom keeps the clients' views equal when those that join are in no other
\* room.
LEMMA JoinViews ==
  ASSUME IInv, NEW r \in RoomIds, NEW S \in SUBSET Slots, Join(r, S),
         \A q \in RoomIds \ {r} : S \cap members[q] = {}
  PROVE  ViewsAgree'
<1> SUFFICES ASSUME NEW q \in RoomIds, NEW x \in members'[q]
             PROVE  view'[x] = members'[q]
  BY DEF ViewsAgree
<1>1. members'[r] = members[r] \cup S /\ \A p \in RoomIds \ {r} : members'[p] = members[p]
  BY DEF Join, IInv, TypeOK
<1>2. x \in Slots
  BY <1>1 DEF IInv, TypeOK
<1>3. CASE q = r
  BY <1>1, <1>2, <1>3 DEF Join, IInv, ViewsAgree
<1>4. CASE q # r
  <2>1. x \in members[q] /\ x \notin S /\ view[x] = members[q]
    BY <1>1, <1>4 DEF IInv, ViewsAgree
  <2>2. x \notin members[r]
    BY <1>4, <2>1 DEF IInv, MembersAgree, Occupants
  <2> QED BY <1>1, <1>2, <1>4, <2>1, <2>2 DEF Join
<1> QED BY <1>3, <1>4

\* A group of players that are in no room is put in room r.
LEMMA PlaceInv ==
  ASSUME IInv, NEW r \in RoomIds, NEW vec \in SUBSET Slots, Place(r, vec),
         TypeOK',
         \A x \in vec : roomId[x] = NoRoom /\ pid'[x] # NoPid,
         \A x \in Live : pid'[x] # NoPid,
         r \in roomList', roomList \subseteq roomList',
         \A q \in roomList' : q \in roomList \/ (q = r /\ q > lastRoom),
         roomList' \subseteq 1 .. lastRoom', lastRoom \in Nat, lastRoom' \in Nat,
         lastRoom <= lastRoom'
  PROVE  IInv'
<1>1. PICK t \in Teams : TryToJoinWaitLst(r, t, vec)
  BY TargetTeamType DEF Place, IInv
<1>2. roomId' = [x \in Slots |-> IF x \in vec THEN r ELSE roomId[x]]
  BY DEF Place
<1>3. \A q \in RoomIds : vec \cap Occupants(q) = {}
  BY RoomIdType DEF IInv, MembersAgree
<1>4. /\ \A q \in RoomIds \ {r} : Occupants(q)' = Occupants(q)
      /\ Occupants(r)' \subseteq Occupants(r) \cup vec
      /\ \A x \in Occupants(r) \cup vec : x \in Occupants(r)' \/ canJoin'[x]
      /\ \A x \in Slots : canJoin[x] => canJoin'[x]
  BY <1>1, PlacedOccupants DEF IInv
<1>5. MembersAgree'
  <2> SUFFICES ASSUME NEW q \in RoomIds, NEW x \in Occupants(q)'
               PROVE  x \in Live' /\ roomId'[x] = q /\ q \in roomList'
    BY DEF MembersAgree
  <2>1. CASE x \in vec
    <3>1. q = r
      BY <1>3, <1>4, <2>1
    <3> QED BY <1>2, <2>1, <3>1 DEF Live
  <2>2. CASE x \notin vec
    <3>1. x \in Occupants(q)
      BY <1>4, <2>2
    <3>2. x \in Live /\ roomId[x] = q /\ q \in roomList
      BY <3>1 DEF IInv, MembersAgree
    <3> QED BY <1>2, <2>2, <3>2 DEF Live
  <2> QED BY <2>1, <2>2
<1>6. WaitsOnce' /\ WaitKeysCover'
  BY <1>1, <1>3, PlacedWaiting DEF Occupants
<1>7. ViewsAgree'
  <2> DEFINE lists == [waitLst[r] EXCEPT ![t] = @ \cup vec]
             S     == {s \in AllOf(lists) : isLogin[s]}
  <2>0. AllOf(lists) = Waiting(r) \cup vec
    BY DEF AllOf, Waiting, IInv, TypeOK
  <2>1. CASE FlushReady(r, t, Cardinality(vec))
    <3>1. Join(r, S)
      BY <1>1, <2>1 DEF TryToJoinWaitLst, FlushWaitLst
    <3>2. S \subseteq Slots /\ S \subseteq Occupants(r) \cup vec
      BY <2>0 DEF Occupants, Waiting, AllOf, IInv, TypeOK
    <3> HIDE DEF S
    <3>3. ASSUME NEW q \in RoomIds \ {r}, NEW x \in S PROVE x \notin members[q]
      <4>1. CASE x \in vec
        BY <1>3, <4>1 DEF Occupants
      <4>2. CASE x \in Occupants(r)
        BY <4>2 DEF Occupants, IInv, MembersAgree
      <4> QED BY <3>2, <4>1, <4>2
    <3> QED BY <3>1, <3>2, <3>3, JoinViews
  <2>2. CASE ~FlushReady(r, t, Cardinality(vec))
    <3>1. UNCHANGED <<members, view>>
      BY <1>1, <2>2 DEF TryToJoinWaitLst
    <3> QED BY <3>1 DEF IInv, ViewsAgree
  <2> QED BY <2>1, <2>2
<1>8. NobodyLost'
  <2> SUFFICES ASSUME NEW x \in Slots, roomId'[x] \in roomList'
               PROVE  x \in Occupants(roomId[x])' \/ canJoin'[x]
    BY DEF NobodyLost
  <2>1. CASE x \in vec
    <3>1. roomId'[x] = r /\ (x \in Occupants(r)' \/ canJoin'[x])
      BY <1>2, <1>4, <2>1
    <3> QED BY <3>1
  <2>2. CASE x \notin vec
    <3>1. roomId'[x] = roomId[x] /\ roomId[x] \in roomList
      <4>1. roomId'[x] = roomId[x] /\ roomId[x] <= lastRoom /\ roomId[x] \in Int
        BY <1>2, <2>2 DEF IInv, IdsIssued, TypeOK, RoomIds, NoRoom
      <4>2. ~(roomId[x] > lastRoom)
        BY <4>1
      <4> QED BY <4>1, <4>2
    <3>2. PICK q \in RoomIds : roomId[x] = q /\ (x \in Occupants(q) \/ canJoin[x])
      BY <3>1 DEF IInv, NobodyLost, TypeOK
    <3>3. x \in Occupants(q)' \/ canJoin'[x]
      BY <1>4, <3>2
    <3> QED BY <3>1, <3>2, <3>3
  <2> QED BY <2>1, <2>2
<1>9. IdsIssued'
  <2>1. r <= lastRoom'
    OBVIOUS
  <2>2. \A x \in Slots : roomId[x] <= lastRoom /\ roomId[x] \in Int
    BY DEF IInv, IdsIssued, TypeOK, RoomIds, NoRoom
  <2>3. \A x \in Slots : roomId[x] <= lastRoom'
    BY <2>2
  <2>4. \A x \in Slots : roomId'[x] <= lastRoom'
    BY <1>2, <2>1, <2>3
  <2> QED BY <2>4 DEF IdsIssued
<1> QED BY <1>5, <1>6, <1>7, <1>8, <1>9 DEF IInv

-----------------------------------------------------------------------------
(* The steps                                                               *)

LEMMA InitInv == Init => IInv
<1> SUFFICES ASSUME Init PROVE IInv
  OBVIOUS
<1>1. TypeOK
  BY TeamType, RoomAssumption DEF Init, TypeOK
<1>2. \A r \in RoomIds : Occupants(r) = {}
  BY DEF Init, Occupants, Waiting, AllOf
<1>3. MembersAgree /\ WaitsOnce /\ WaitKeysCover /\ ViewsAgree /\ NobodyLost
  BY <1>2 DEF Init, MembersAgree, WaitsOnce, WaitKeysCover, ViewsAgree, NobodyLost
<1>4. IdsIssued
  BY DEF Init, IdsIssued, NoRoom
<1> QED BY <1>1, <1>3, <1>4 DEF IInv

\* Steps that touch no room and take no player away.
LEMMA PlayerStepInv ==
  ASSUME IInv, TypeOK', UNCHANGED <<roomVars, roomId, canJoin>>,
         \A x \in Live : pid'[x] # NoPid
  PROVE  IInv'
<1>1. \A r \in RoomIds : Occupants(r)' = Occupants(r)
  BY DEF roomVars, Occupants, Waiting, AllOf
<1>2. MembersAgree'
  <2> SUFFICES ASSUME NEW q \in RoomIds, NEW x \in Occupants(q)'
               PROVE  x \in Live' /\ roomId'[x] = q /\ q \in roomList'
    BY DEF MembersAgree
  <2>1. x \in Live /\ roomId[x] = q /\ q \in roomList
    BY <1>1 DEF IInv, MembersAgree
  <2> QED BY <2>1 DEF Live, roomVars
<1>3. WaitsOnce' /\ WaitKeysCover' /\ ViewsAgree' /\ IdsIssued'
  BY DEF IInv, WaitsOnce, WaitKeysCover, ViewsAgree, IdsIssued, roomVars
<1>4. NobodyLost'
  BY DEF IInv, NobodyLost, roomVars, Occupants, Waiting, AllOf
<1> QED BY <1>2, <1>3, <1>4 DEF IInv

\* The objects a request uses are the players' own or free ones.
LEMMA ObjectsType ==
  ASSUME TypeOK, NEW req \in Requests, NEW f \in ObjectsFor(req),
         pid' = [s \in Slots |-> IF \E p \in req : f[p] = s
                                THEN CHOOSE p \in req : f[p] = s ELSE pid[s]]
  PROVE  /\ Group(req, f) \subseteq Slots
         /\ pid' \in [Slots -> Pids \cup {NoPid}]
         /\ \A x \in Group(req, f) : roomId[x] = NoRoom /\ pid'[x] # NoPid
         /\ \A x \in Live : pid'[x] # NoPid
<1>1. req \subseteq Pids /\ NoPid \notin req
  BY ReqAssumption, PidAssumption
<1>2. f \in [req -> Slots]
  BY DEF ObjectsFor
<1>3. \A s \in Slots : (\E p \in req : f[p] = s) => pid'[s] \in req
  OBVIOUS
<1>4. \A s \in Slots : ~(\E p \in req : f[p] = s) => pid'[s] = pid[s]
  OBVIOUS
<1>5. pid' \in [Slots -> Pids \cup {NoPid}]
  BY <1>1, <1>3, <1>4 DEF TypeOK
<1>6. \A x \in Group(req, f) : x \in Slots /\ roomId[x] = NoRoom /\ pid'[x] # NoPid
  BY <1>1, <1>2, <1>3 DEF Group
<1>7. \A x \in Live : pid'[x] # NoPid
  BY <1>1, <1>3, <1>4 DEF Live
<1> QED BY <1>5, <1>6, <1>7

LEMMA HandlePlayerDataInv ==
  ASSUME IInv, NEW req \in Requests, HandlePlayerData(req)
  PROVE  IInv'
<1>1. PICK f \in ObjectsFor(req) :
        /\ pid'    = [s \in Slots |-> IF \E p \in req : f[p] = s
                                      THEN CHOOSE p \in req : f[p] = s ELSE pid[s]]
        /\ timers' = [s \in Slots |-> timers[s] + (IF s \in Group(req, f) THEN 1 ELSE 0)]
        /\ UNCHANGED isLogin
        /\ PlaceInOldRoom(Group(req, f)) \/ PlaceInNewRoom(Group(req, f))
  BY DEF HandlePlayerData
<1> DEFINE vec == Group(req, f)
<1>2. /\ vec \subseteq Slots
      /\ pid' \in [Slots -> Pids \cup {NoPid}]
      /\ \A x \in vec : roomId[x] = NoRoom /\ pid'[x] # NoPid
      /\ \A x \in Live : pid'[x] # NoPid
  BY <1>1, ObjectsType DEF IInv
<1>3. timers' \in [Slots -> Nat] /\ isLogin' \in [Slots -> BOOLEAN]
  BY <1>1 DEF IInv, TypeOK
<1>4. lastRoom \in Nat /\ lastRoom \in 0 .. MaxRooms
  BY RoomAssumption DEF IInv, TypeOK
<1> HIDE DEF vec
<1>5. ASSUME NEW r \in RoomIds, Place(r, vec), roomList' \in SUBSET RoomIds,
             lastRoom' \in 0 .. MaxRooms
      PROVE  TypeOK'
  <2>1. PICK t \in Teams : TryToJoinWaitLst(r, t, vec)
    BY <1>5, TargetTeamType DEF Place, IInv
  <2>2. roomId' \in [Slots -> RoomIds \cup {NoRoom}]
    BY <1>5 DEF Place, IInv, TypeOK
  <2>3. /\ teamId' \in [Slots -> Teams] /\ canJoin' \in [Slots -> BOOLEAN]
        /\ members' \in [RoomIds -> SUBSET Slots] /\ view' \in [Slots -> SUBSET Slots]
        /\ waitLst' \in [RoomIds -> [Teams -> SUBSET Slots]]
        /\ waitKeys' \in [RoomIds -> SUBSET Teams]
    <3>1. TypeOK /\ vec \in SUBSET Slots
      BY <1>2 DEF IInv
    <3> QED BY <2>1, <3>1, TryToJoinType
  <2> QED BY <1>2, <1>3, <1>5, <2>2, <2>3 DEF TypeOK
<1>6. CASE PlaceInOldRoom(vec)
  <2>1. PICK r \in roomList : Place(r, vec)
    BY <1>6 DEF PlaceInOldRoom, FirstFit
  <2>2. UNCHANGED <<roomList, lastRoom>> /\ r \in RoomIds
    BY <1>6 DEF PlaceInOldRoom, IInv, TypeOK
  <2>3. TypeOK'
    BY <1>4, <1>5, <2>1, <2>2 DEF IInv, TypeOK
  <2>4. roomList' \subseteq 1 .. lastRoom'
    BY <2>2 DEF IInv, IdsIssued
  <2>5. /\ r \in roomList' /\ roomList \subseteq roomList'
        /\ \A q \in roomList' : q \in roomList \/ (q = r /\ q > lastRoom)
        /\ lastRoom' \in Nat /\ lastRoom <= lastRoom'
    BY <1>4, <2>2
  <2> QED BY <1>2, <1>4, <2>1, <2>2, <2>3, <2>4, <2>5, PlaceInv
<1>7. CASE PlaceInNewRoom(vec)
  <2>1. /\ lastRoom < MaxRooms
        /\ lastRoom' = lastRoom + 1
        /\ roomList' = roomList \cup {lastRoom'}
    BY <1>7 DEF PlaceInNewRoom
  <2>2. lastRoom' \in 0 .. MaxRooms /\ lastRoom' \in RoomIds /\ lastRoom' \in Nat
    BY <1>4, <2>1, RoomAssumption DEF RoomIds
  <2>3. roomList' \in SUBSET RoomIds
    <3>1. roomList \subseteq RoomIds
      BY DEF IInv, TypeOK
    <3> QED BY <2>1, <2>2, <3>1
  <2>4. roomList' \subseteq 1 .. lastRoom'
    BY <1>4, <2>1 DEF IInv, IdsIssued
  <2>5. CASE Place(lastRoom', vec)
    <3> DEFINE new == lastRoom + 1
    <3>1. new \in RoomIds /\ Place(new, vec) /\ new = lastRoom'
      BY <2>1, <2>2, <2>5
    <3>2. TypeOK'
      BY <1>5, <2>2, <2>3, <3>1
    <3>3. \A q \in roomList' : q \in roomList \/ (q = new /\ q > lastRoom)
      BY <1>4, <2>1
    <3>4. new \in roomList' /\ roomList \subseteq roomList'
      BY <2>1
    <3>5. lastRoom <= lastRoom'
      BY <1>4, <2>1
    <3> HIDE DEF new
    <3> QED BY <1>2, <1>4, <2>2, <2>4, <3>1, <3>2, <3>3, <3>4, <3>5, PlaceInv
  <2>6. CASE UNCHANGED <<roomId, teamId, canJoin, members, waitKeys, waitLst, view>>
    <3>1. TypeOK'
      BY <1>2, <1>3, <2>2, <2>3, <2>6 DEF IInv, TypeOK
    <3>2. \A q \in RoomIds : Occupants(q)' = Occupants(q)
      BY <2>6 DEF Occupants, Waiting, AllOf
    <3>3. MembersAgree'
      <4> SUFFICES ASSUME NEW q \in RoomIds, NEW x \in Occupants(q)'
                   PROVE  x \in Live' /\ roomId'[x] = q /\ q \in roomList'
        BY DEF MembersAgree
      <4>1. x \in Live /\ roomId[x] = q /\ q \in roomList
        BY <3>2 DEF IInv, MembersAgree
      <4> QED BY <1>2, <2>1, <2>6, <4>1 DEF Live
    <3>4. WaitsOnce' /\ WaitKeysCover' /\ ViewsAgree'
      BY <2>6 DEF IInv, WaitsOnce, WaitKeysCover, ViewsAgree
    <3>5. \A x \in Slots : roomId[x] <= lastRoom /\ roomId[x] \in Int
      BY DEF IInv, IdsIssued, TypeOK, RoomIds, NoRoom
    <3>6. IdsIssued'
      BY <1>4, <2>1, <2>4, <2>6, <3>5 DEF IdsIssued
    <3>7. NobodyLost'
      <4> SUFFICES ASSUME NEW x \in Slots, roomId'[x] \in roomList'
                   PROVE  x \in Occupants(roomId[x])' \/ canJoin'[x]
        BY DEF NobodyLost
      <4>1. roomId[x] \in roomList
        BY <1>4, <2>1, <2>6, <3>5
      <4>2. x \in Occupants(roomId[x]) \/ canJoin[x]
        BY <4>1 DEF IInv, NobodyLost
      <4> QED BY <2>6, <4>2 DEF Occupants, Waiting, AllOf
    <3> QED BY <3>1, <3>3, <3>4, <3>6, <3>7 DEF IInv
  <2> QED BY <1>7, <2>5, <2>6 DEF PlaceInNewRoom
<1> QED BY <1>1, <1>6, <1>7 DEF vec

LEMMA RpcBattleLoginInv ==
  ASSUME IInv, NEW s \in Slots, RpcBattleLogin(s)
  PROVE  IInv'
<1> DEFINE r == roomId[s]
<1>1. r \in RoomIds /\ r \in roomList /\ s \in Live /\ Join(r, {s})
  BY DEF RpcBattleLogin, MayEnter, IInv, TypeOK
<1>2. UNCHANGED <<pid, isLogin, roomId, teamId, canJoin, timers,
                  roomList, lastRoom, waitKeys, waitLst>>
  BY DEF RpcBattleLogin, playerVars
<1> HIDE DEF r
<1>3. TypeOK'
  <2>1. members' \in [RoomIds -> SUBSET Slots] /\ view' \in [Slots -> SUBSET Slots]
    BY <1>1, JoinType DEF IInv
  <2> QED BY <1>2, <2>1 DEF IInv, TypeOK
<1>4. \A q \in RoomIds : members'[q] = members[q] \cup (IF q = r THEN {s} ELSE {})
  BY <1>1 DEF Join, IInv, TypeOK
<1>5. \A q \in RoomIds :
        Occupants(q)' = Occupants(q) \cup (IF q = r THEN {s} ELSE {})
  BY <1>2, <1>4 DEF Occupants, Waiting, AllOf
<1>6. MembersAgree'
  <2> SUFFICES ASSUME NEW q \in RoomIds, NEW x \in Occupants(q)'
               PROVE  x \in Live' /\ roomId'[x] = q /\ q \in roomList'
    BY DEF MembersAgree
  <2>1. x \in Live /\ roomId[x] = q /\ q \in roomList
    BY <1>1, <1>5 DEF IInv, MembersAgree, r
  <2> QED BY <1>2, <2>1 DEF Live
<1>7. WaitsOnce' /\ WaitKeysCover' /\ IdsIssued'
  BY <1>2 DEF IInv, WaitsOnce, WaitKeysCover, IdsIssued
<1>8. ViewsAgree'
  <2>1. \A q \in RoomIds \ {r} : {s} \cap members[q] = {}
    BY DEF IInv, MembersAgree, Occupants, r
  <2> QED BY <1>1, <2>1, JoinViews
<1>9. NobodyLost'
  <2> SUFFICES ASSUME NEW x \in Slots, roomId'[x] \in roomList'
               PROVE  x \in Occupants(roomId[x])' \/ canJoin'[x]
    BY <1>2 DEF NobodyLost
  <2>1. roomId[x] \in RoomIds /\ (x \in Occupants(roomId[x]) \/ canJoin[x])
    BY <1>2 DEF IInv, NobodyLost, TypeOK
  <2>2. PICK q \in RoomIds : q = roomId[x]
    BY <2>1
  <2>3. Occupants(q) \subseteq Occupants(q)'
    BY <1>5
  <2>4. x \in Occupants(q)' \/ canJoin'[x]
    BY <1>2, <2>1, <2>2, <2>3
  <2> QED BY <1>2, <2>2, <2>4
<1> QED BY <1>3, <1>6, <1>7, <1>8, <1>9 DEF IInv

LEMMA ExitStepInv ==
  ASSUME IInv, NEW s \in Slots, RpcBattleExitRoom(s)
  PROVE  IInv'
<1>1. /\ roomId[s] \in roomList /\ ExitRoom(roomId[s], s)
      /\ roomId' = [roomId EXCEPT ![s] = NoRoom]
      /\ UNCHANGED <<pid, isLogin, teamId, canJoin, timers>>
  BY DEF RpcBattleExitRoom
<1>2. roomId[s] \in RoomIds
  BY <1>1 DEF IInv, TypeOK
<1>3. /\ members' \in [RoomIds -> SUBSET Slots] /\ view' \in [Slots -> SUBSET Slots]
      /\ waitLst' \in [RoomIds -> [Teams -> SUBSET Slots]]
      /\ roomList' \in SUBSET RoomIds
  BY <1>1, <1>2, ExitRoomType DEF IInv
<1>4. UNCHANGED <<lastRoom, waitKeys>>
  BY <1>1 DEF ExitRoom
<1>5. TypeOK'
  BY <1>1, <1>3, <1>4 DEF IInv, TypeOK
<1> QED BY <1>1, <1>5, LeaveInv

\* The timer deletes an object that is in no room, or takes it out of its room.
LEMMA DeletePlayerInv ==
  ASSUME IInv, NEW s \in Slots, DeletePlayer(s), timers' \in [Slots -> Nat]
  PROVE  IInv'
<1>1. /\ pid'     = [pid EXCEPT ![s] = NoPid]
      /\ isLogin' = [isLogin EXCEPT ![s] = FALSE]
      /\ roomId'  = [roomId EXCEPT ![s] = NoRoom]
      /\ teamId'  = [teamId EXCEPT ![s] = 0]
      /\ canJoin' = [canJoin EXCEPT ![s] = FALSE]
  BY DEF DeletePlayer
<1>2. /\ pid' \in [Slots -> Pids \cup {NoPid}] /\ isLogin' \in [Slots -> BOOLEAN]
      /\ roomId' \in [Slots -> RoomIds \cup {NoRoom}]
      /\ teamId' \in [Slots -> Teams] /\ canJoin' \in [Slots -> BOOLEAN]
  BY <1>1, TeamType DEF IInv, TypeOK
<1>3. CASE roomId[s] \in roomList
  <2>1. roomId[s] \in RoomIds /\ ExitRoom(roomId[s], s)
    BY <1>3 DEF DeletePlayer, IInv, TypeOK
  <2>2. /\ members' \in [RoomIds -> SUBSET Slots] /\ view' \in [Slots -> SUBSET Slots]
        /\ waitLst' \in [RoomIds -> [Teams -> SUBSET Slots]]
        /\ roomList' \in SUBSET RoomIds
    BY <2>1, ExitRoomType DEF IInv
  <2>3. UNCHANGED <<lastRoom, waitKeys>>
    BY <2>1 DEF ExitRoom
  <2>4. TypeOK'
    BY <1>2, <2>2, <2>3 DEF IInv, TypeOK
  <2>5. \A x \in Slots : x # s => pid'[x] = pid[x] /\ canJoin'[x] = canJoin[x]
    BY <1>1 DEF IInv, TypeOK
  <2> QED BY <1>1, <1>3, <2>1, <2>4, <2>5, LeaveInv
<1>4. CASE roomId[s] \notin roomList
  <2>1. UNCHANGED <<roomList, lastRoom, members, waitKeys, waitLst, view>>
    BY <1>4 DEF DeletePlayer, roomVars
  <2>2. TypeOK'
    BY <1>2, <2>1 DEF IInv, TypeOK
  <2>3. \A q \in RoomIds : Occupants(q)' = Occupants(q)
    BY <2>1 DEF Occupants, Waiting, AllOf
  <2>4. MembersAgree'
    <3> SUFFICES ASSUME NEW q \in RoomIds, NEW x \in Occupants(q)'
                 PROVE  x \in Live' /\ roomId'[x] = q /\ q \in roomList'
      BY DEF MembersAgree
    <3>1. x \in Live /\ roomId[x] = q /\ q \in roomList
      BY <2>3 DEF IInv, MembersAgree
    <3>2. x # s
      BY <1>4, <3>1
    <3> QED BY <1>1, <2>1, <3>1, <3>2 DEF Live, IInv, TypeOK
  <2>5. WaitsOnce' /\ WaitKeysCover' /\ ViewsAgree'
    BY <2>1 DEF IInv, WaitsOnce, WaitKeysCover, ViewsAgree
  <2>6. IdsIssued'
    <3>1. 0 <= lastRoom
      BY RoomAssumption DEF IInv, TypeOK
    <3> QED BY <1>1, <2>1, <3>1 DEF IInv, IdsIssued, TypeOK, NoRoom
  <2>7. NobodyLost'
    <3> SUFFICES ASSUME NEW x \in Slots, roomId'[x] \in roomList'
                 PROVE  x \in Occupants(roomId[x])' \/ canJoin'[x]
      BY DEF NobodyLost
    <3>1. roomList \subseteq RoomIds
      BY DEF IInv, TypeOK
    <3>2. x # s
      BY <1>1, <2>1, <3>1, RoomIdType DEF IInv, TypeOK
    <3>3. roomId'[x] = roomId[x] /\ canJoin'[x] = canJoin[x]
      BY <1>1, <3>2 DEF IInv, TypeOK
    <3>4. PICK q \in RoomIds : q = roomId[x]
      BY <2>1, <3>1, <3>3
    <3>5. x \in Occupants(q) \/ canJoin[x]
      BY <2>1, <3>3, <3>4 DEF IInv, NobodyLost
    <3>6. x \in Occupants(q)' \/ canJoin'[x]
      BY <2>3, <3>3, <3>5
    <3> QED BY <3>3, <3>4, <3>6
  <2> QED BY <2>2, <2>4, <2>5, <2>6, <2>7 DEF IInv
<1> QED BY <1>3, <1>4

LEMMA NextInv == IInv /\ [Next]_vars => IInv'
<1> SUFFICES ASSUME IInv, [Next]_vars PROVE IInv'
  OBVIOUS
<1>1. ASSUME NEW req \in Requests, HandlePlayerData(req) PROVE IInv'
  BY <1>1, HandlePlayerDataInv
<1>2. ASSUME NEW p \in Pids, BindPlayerLink(p) PROVE IInv'
  <2>1. PICK s \in Slots : /\ pid'     = [pid EXCEPT ![s] = p]
                           /\ isLogin' = [isLogin EXCEPT ![s] = TRUE]
    BY <1>2 DEF BindPlayerLink
  <2>2. UNCHANGED <<roomId, teamId, canJoin, timers, roomVars>>
    BY <1>2 DEF BindPlayerLink
  <2>3. TypeOK'
    BY <2>1, <2>2 DEF IInv, TypeOK, roomVars
  <2>4. \A x \in Live : pid'[x] # NoPid
    BY <2>1, PidAssumption DEF Live, IInv, TypeOK
  <2> QED BY <2>2, <2>3, <2>4, PlayerStepInv
<1>3. ASSUME NEW s \in Slots, RpcBattleLogin(s) PROVE IInv'
  BY <1>3, RpcBattleLoginInv
<1>4. ASSUME NEW s \in Slots, RpcBattleLogout(s) PROVE IInv'
  <2>1. /\ isLogin' = [isLogin EXCEPT ![s] = FALSE]
        /\ UNCHANGED <<pid, roomId, teamId, canJoin, timers, roomVars>>
    BY <1>4 DEF RpcBattleLogout
  <2>2. TypeOK'
    BY <2>1 DEF IInv, TypeOK, roomVars
  <2> QED BY <2>1, <2>2, PlayerStepInv DEF Live
<1>5. ASSUME NEW s \in Slots, RpcBattleExitRoom(s) PROVE IInv'
  BY <1>5, ExitStepInv
<1>6. ASSUME NEW s \in Slots, LoginTimeout(s) PROVE IInv'
  <2>1. timers[s] > 0 /\ timers' = [timers EXCEPT ![s] = @ - 1]
    BY <1>6 DEF LoginTimeout
  <2>2. timers' \in [Slots -> Nat]
    BY <2>1 DEF IInv, TypeOK
  <2>3. CASE DeletePlayer(s)
    BY <2>2, <2>3, DeletePlayerInv
  <2>4. CASE UNCHANGED <<pid, isLogin, roomId, teamId, canJoin, roomVars>>
    <3>1. TypeOK'
      BY <2>2, <2>4 DEF IInv, TypeOK, roomVars
    <3> QED BY <2>4, <3>1, PlayerStepInv DEF Live
  <2> QED BY <1>6, <2>3, <2>4 DEF LoginTimeout
<1>7. CASE UNCHANGED vars
  <2>1. UNCHANGED <<pid, isLogin, roomId, teamId, canJoin, timers, roomVars>>
    BY <1>7 DEF vars, playerVars
  <2>2. TypeOK'
    BY <2>1 DEF IInv, TypeOK, roomVars
  <2> QED BY <2>1, <2>2, PlayerStepInv DEF Live
<1> QED BY <1>1, <1>2, <1>3, <1>4, <1>5, <1>6, <1>7 DEF Next

-----------------------------------------------------------------------------
(* The sizes of the waiting lists                                          *)

LEMMA TeamCards ==
  ASSUME TypeOK, NEW r \in RoomIds
  PROVE  /\ IsFiniteSet(TeamKeys(r)) /\ TeamKeys(r) \subseteq Teams
         /\ OneTeamPlayerMax \in Nat
         /\ \A t \in Teams : /\ IsFiniteSet(waitLst[r][t])
                             /\ Cardinality(waitLst[r][t]) \in Nat
                             /\ TeamSize(r, t) \in Nat
                             /\ Cardinality(waitLst[r][t]) <= TeamSize(r, t)
<1>1. TeamKeys(r) \subseteq Teams
  BY DEF TypeOK, TeamKeys
<1>2. IsFiniteSet(Teams)
  BY TeamAssumption, FS_Interval DEF Teams
<1>3. IsFiniteSet(TeamKeys(r))
  BY <1>1, <1>2, FS_Subset
<1>4. OneTeamPlayerMax \in Nat
  BY SizeAssumption, TeamAssumption DEF OneTeamPlayerMax
<1>5. ASSUME NEW t \in Teams
      PROVE  /\ IsFiniteSet(waitLst[r][t])
             /\ Cardinality(waitLst[r][t]) \in Nat
             /\ TeamSize(r, t) \in Nat
             /\ Cardinality(waitLst[r][t]) <= TeamSize(r, t)
  <2> DEFINE M == {s \in members[r] : teamId[s] = t}
  <2>1. M \in SUBSET Slots /\ waitLst[r][t] \in SUBSET Slots
    BY DEF TypeOK
  <2>2. IsFiniteSet(M) /\ IsFiniteSet(waitLst[r][t])
    BY <2>1, SizeAssumption, FS_Subset
  <2>3. Cardinality(M) \in Nat /\ Cardinality(waitLst[r][t]) \in Nat
    BY <2>2, FS_CardinalityType
  <2>4. TeamSize(r, t) = Cardinality(M) + Cardinality(waitLst[r][t])
    BY DEF TeamSize
  <2> HIDE DEF M
  <2> QED BY <2>2, <2>3, <2>4
<1> QED BY <1>1, <1>3, <1>4, <1>5

\* While a room has less than TeamCnt teams the id of a new one is none of theirs,
\* although it is reckoned modulo TeamMod.
LEMMA NewTeamIsNew ==
  ASSUME TypeOK, NEW r \in RoomIds, Cardinality(TeamKeys(r)) < TeamCnt,
         NEW t \in NewTeam(r)
  PROVE  t \notin TeamKeys(r)
<1>1. IsFiniteSet(TeamKeys(r)) /\ TeamKeys(r) \subseteq Teams
  BY TeamCards
<1>2. Cardinality(TeamKeys(r)) \in Nat /\ Cardinality(TeamKeys(r)) <= 1
  BY <1>1, FS_CardinalityType, TeamAssumption
<1>3. CASE TeamKeys(r) = {}
  BY <1>3
<1>4. CASE TeamKeys(r) # {}
  <2>1. Cardinality(TeamKeys(r)) = 1
    BY <1>1, <1>2, <1>4, FS_EmptySet
  <2>2. PICK k : TeamKeys(r) = {k}
    BY <1>1, <2>1, FS_Singleton
  <2>3. t = (k + 1) % TeamMod /\ k \in 0 .. TeamMod - 1
    BY <1>1, <2>2 DEF NewTeam, Teams
  <2>4. k + 1 = TeamMod => t = 0 /\ k # 0
    BY <2>3, TeamAssumption
  <2>5. k + 1 # TeamMod => t = k + 1
    BY <2>3, TeamAssumption
  <2> QED BY <2>2, <2>3, <2>4, <2>5
<1> QED BY <1>3, <1>4

\* The team that takes a group has room for it.
LEMMA TargetTeamHasRoom ==
  ASSUME IInv, NEW r \in RoomIds, NEW n \in Nat, NEW t \in TargetTeam(r, n)
  PROVE  Cardinality(waitLst[r][t]) + n <= OneTeamPlayerMax
<1>1. TypeOK /\ WaitKeysCover
  BY DEF IInv
<1>2. n <= OneTeamPlayerMax
  BY <1>1, TeamCards DEF TargetTeam
<1>3. t \in Teams
  BY <1>1, TargetTeamType
<1>4. CASE Cardinality(TeamKeys(r)) < TeamCnt
  <2>1. t \notin TeamKeys(r)
    BY <1>1, <1>4, NewTeamIsNew DEF TargetTeam
  <2>2. waitLst[r][t] = {}
    BY <1>1, <1>3, <2>1 DEF WaitKeysCover, TeamKeys
  <2> QED BY <1>2, <2>2, FS_EmptySet
<1>5. CASE ~(Cardinality(TeamKeys(r)) < TeamCnt)
  <2>1. TeamSize(r, t) + n <= OneTeamPlayerMax
    BY <1>5 DEF TargetTeam
  <2> QED BY <1>1, <1>3, <2>1, TeamCards
<1> QED BY <1>4, <1>5

\* A list that only loses players keeps to the limit.
LEMMA ShrinkFits ==
  ASSUME TypeOK, WaitTeamFits,
         \A q \in RoomIds : \A t \in Teams : waitLst'[q][t] \subseteq waitLst[q][t]
  PROVE  WaitTeamFits'
<1> SUFFICES ASSUME NEW q \in RoomIds, NEW t \in Teams
             PROVE  Cardinality(waitLst'[q][t]) <= OneTeamPlayerMax
  BY DEF WaitTeamFits, OneTeamPlayerMax
<1>1. Cardinality(waitLst'[q][t]) <= Cardinality(waitLst[q][t])
  BY TeamCards, FS_Subset
<1>2. IsFiniteSet(waitLst'[q][t])
  BY TeamCards, FS_Subset
<1> QED BY <1>1, <1>2, TeamCards, FS_CardinalityType DEF WaitTeamFits

LEMMA PlaceFits ==
  ASSUME IInv, WaitTeamFits, NEW r \in RoomIds, NEW vec \in SUBSET Slots, Place(r, vec)
  PROVE  WaitTeamFits'
<1>1. TypeOK
  BY DEF IInv
<1>2. IsFiniteSet(vec) /\ Cardinality(vec) \in Nat
  BY SizeAssumption, FS_Subset, FS_CardinalityType
<1>3. PICK t \in TargetTeam(r, Cardinality(vec)) : TryToJoinWaitLst(r, t, vec)
  BY DEF Place
<1>4. t \in Teams
  BY <1>1, TargetTeamType
<1>5. Cardinality(waitLst[r][t]) + Cardinality(vec) <= OneTeamPlayerMax
  BY <1>2, TargetTeamHasRoom
<1> DEFINE lists == [waitLst[r] EXCEPT ![t] = @ \cup vec]
<1>6. CASE FlushReady(r, t, Cardinality(vec))
  <2>1. FlushWaitLst(r, lists)
    BY <1>3, <1>6 DEF TryToJoinWaitLst
  <2>2. waitLst' = [waitLst EXCEPT ![r] = [u \in Teams |-> {}]]
    BY <2>1 DEF FlushWaitLst
  <2>3. \A q \in RoomIds : \A u \in Teams : waitLst'[q][u] \subseteq waitLst[q][u]
    BY <1>1, <2>2 DEF TypeOK
  <2> QED BY <1>1, <2>3, ShrinkFits
<1>7. CASE ~FlushReady(r, t, Cardinality(vec))
  <2>1. waitLst' = [waitLst EXCEPT ![r] = lists]
    BY <1>3, <1>7 DEF TryToJoinWaitLst
  <2> SUFFICES ASSUME NEW q \in RoomIds, NEW u \in Teams
               PROVE  Cardinality(waitLst'[q][u]) <= OneTeamPlayerMax
    BY DEF WaitTeamFits, OneTeamPlayerMax
  <2>2. CASE q = r /\ u = t
    <3>1. waitLst'[q][u] = waitLst[r][t] \cup vec
      BY <1>1, <1>4, <2>1, <2>2 DEF TypeOK
    <3>2. IsFiniteSet(waitLst[r][t]) /\ Cardinality(waitLst[r][t]) \in Nat
      BY <1>1, <1>4, TeamCards
    <3>3. Cardinality(waitLst[r][t] \cup vec)
            = Cardinality(waitLst[r][t]) + Cardinality(vec)
              - Cardinality(waitLst[r][t] \cap vec)
      BY <1>2, <3>2, FS_Union
    <3>4. Cardinality(waitLst[r][t] \cap vec) \in Nat
      BY <3>2, FS_Intersection, FS_CardinalityType
    <3>5. OneTeamPlayerMax \in Nat
      BY <1>1, TeamCards
    <3> QED BY <1>2, <1>5, <3>1, <3>2, <3>3, <3>4, <3>5
  <2>3. CASE ~(q = r /\ u = t)
    <3>1. waitLst'[q][u] = waitLst[q][u]
      BY <1>1, <1>4, <2>1, <2>3 DEF TypeOK
    <3> QED BY <3>1 DEF WaitTeamFits
  <2> QED BY <2>2, <2>3
<1> QED BY <1>6, <1>7

LEMMA ExitFits ==
  ASSUME IInv, WaitTeamFits, NEW s \in Slots, roomId[s] \in roomList,
         ExitRoom(roomId[s], s)
  PROVE  WaitTeamFits'
<1>1. \A q \in RoomIds : \A t \in Teams : waitLst'[q][t] \subseteq waitLst[q][t]
  BY ExitRoomEffect
<1> QED BY <1>1, ShrinkFits DEF IInv

LEMMA NextFits == IInv /\ WaitTeamFits /\ [Next]_vars => WaitTeamFits'
<1> SUFFICES ASSUME IInv, WaitTeamFits, [Next]_vars PROVE WaitTeamFits'
  OBVIOUS
<1>0. ASSUME UNCHANGED waitLst PROVE WaitTeamFits'
  BY <1>0 DEF WaitTeamFits, OneTeamPlayerMax
<1>1. ASSUME NEW req \in Requests, HandlePlayerData(req) PROVE WaitTeamFits'
  <2>1. PICK f \in ObjectsFor(req) :
          PlaceInOldRoom(Group(req, f)) \/ PlaceInNewRoom(Group(req, f))
    BY <1>1 DEF HandlePlayerData
  <2> DEFINE vec == Group(req, f)
  <2>2. vec \in SUBSET Slots
    BY DEF Group, ObjectsFor
  <2> HIDE DEF vec
  <2>3. CASE PlaceInOldRoom(vec)
    <3>1. PICK r \in roomList : Place(r, vec)
      BY <2>3 DEF PlaceInOldRoom, FirstFit
    <3>2. r \in RoomIds
      BY DEF IInv, TypeOK
    <3> QED BY <2>2, <3>1, <3>2, PlaceFits
  <2>4. CASE PlaceInNewRoom(vec)
    <3> DEFINE new == lastRoom + 1
    <3>1. new = lastRoom' /\ new \in RoomIds
      BY <2>4, RoomAssumption DEF PlaceInNewRoom, IInv, TypeOK, RoomIds
    <3>2. Place(new, vec) \/ UNCHANGED waitLst
      BY <2>4, <3>1 DEF PlaceInNewRoom
    <3> HIDE DEF new
    <3> QED BY <1>0, <2>2, <3>1, <3>2, PlaceFits
  <2> QED BY <2>1, <2>3, <2>4 DEF vec
<1>2. ASSUME NEW p \in Pids, BindPlayerLink(p) PROVE WaitTeamFits'
  BY <1>0, <1>2 DEF BindPlayerLink, roomVars
<1>3. ASSUME NEW s \in Slots, RpcBattleLogin(s) PROVE WaitTeamFits'
  BY <1>0, <1>3 DEF RpcBattleLogin
<1>4. ASSUME NEW s \in Slots, RpcBattleLogout(s) PROVE WaitTeamFits'
  BY <1>0, <1>4 DEF RpcBattleLogout, roomVars
<1>5. ASSUME NEW s \in Slots, RpcBattleExitRoom(s) PROVE WaitTeamFits'
  BY <1>5, ExitFits DEF RpcBattleExitRoom
<1>6. ASSUME NEW s \in Slots, LoginTimeout(s) PROVE WaitTeamFits'
  BY <1>0, <1>6, ExitFits DEF LoginTimeout, DeletePlayer, roomVars
<1>7. CASE UNCHANGED vars
  BY <1>0, <1>7 DEF vars, roomVars
<1> QED BY <1>1, <1>2, <1>3, <1>4, <1>5, <1>6, <1>7 DEF Next

-----------------------------------------------------------------------------
(* The theorems                                                            *)

\* In every reachable state the rooms, the waiting lists and the players agree
\* with each other; the theorems below name what a reader asks of them.
THEOREM RoomInv == Spec => []IInv
BY InitInv, NextInv, PTL DEF Spec

\* Every variable keeps its type: a team id stays a uint8, a room id is one that
\* was issued.
THEOREM RoomTypes == Spec => []TypeOK
<1>1. IInv => TypeOK
  BY DEF IInv
<1> QED BY <1>1, RoomInv, PTL

\* JoinRoom and ExitRoom never follow a pointer to a deleted player or to one
\* that is in another room.
THEOREM RoomMembersAgree == Spec => []MembersAgree
<1>1. IInv => MembersAgree
  BY DEF IInv
<1> QED BY <1>1, RoomInv, PTL

\* A player waits for at most one team, so CancelWait leaves nothing behind.
THEOREM RoomWaitsOnce == Spec => []WaitsOnce
<1>1. IInv => WaitsOnce
  BY DEF IInv
<1> QED BY <1>1, RoomInv, PTL

\* The clients in one battle know exactly each other.
THEOREM RoomViewsAgree == Spec => []ViewsAgree
<1>1. IInv => ViewsAgree
  BY DEF IInv
<1> QED BY <1>1, RoomInv, PTL

\* A player assigned to an existing room is in it, waits for it or may enter it.
THEOREM RoomNobodyLost == Spec => []NobodyLost
<1>1. IInv => NobodyLost
  BY DEF IInv
<1> QED BY <1>1, RoomInv, PTL

\* No team's waiting list outgrows a team, whatever leaves and fills gaps.
THEOREM RoomWaitTeamFits == Spec => []WaitTeamFits
<1>1. Init => WaitTeamFits
  <2> SUFFICES ASSUME Init, NEW r \in RoomIds, NEW t \in Teams
               PROVE  Cardinality(waitLst[r][t]) <= OneTeamPlayerMax
    BY DEF WaitTeamFits
  <2>1. TypeOK
    BY InitInv DEF IInv
  <2>2. waitLst[r][t] = {}
    BY DEF Init
  <2> QED BY <2>1, <2>2, TeamCards, FS_EmptySet
<1> QED BY <1>1, NextFits, RoomInv, PTL DEF Spec

-----------------------------------------------------------------------------
(* The rooms implement the directory                                       *)

InRoomAgrees ==
  /\ InRoom \in [Slots -> RoomIds \cup {NoRoom}]
  /\ \A s \in Slots : \A r \in RoomIds : InRoom[s] = r <=> s \in members[r]

LEMMA InRoomIs == IInv => InRoomAgrees
<1> SUFFICES ASSUME IInv, NEW s \in Slots
             PROVE  /\ InRoom[s] \in RoomIds \cup {NoRoom}
                    /\ \A r \in RoomIds : InRoom[s] = r <=> s \in members[r]
  BY DEF InRoom, InRoomAgrees
<1>1. \A r \in RoomIds : s \in members[r] => roomId[s] = r
  BY DEF IInv, MembersAgree, Occupants
<1>2. CASE \E r \in RoomIds : s \in members[r]
  <2>1. InRoom[s] = CHOOSE r \in RoomIds : s \in members[r]
    BY <1>2 DEF InRoom
  <2>2. InRoom[s] \in RoomIds /\ s \in members[InRoom[s]]
    BY <1>2, <2>1
  <2> QED BY <1>1, <2>2
<1>3. CASE ~\E r \in RoomIds : s \in members[r]
  BY <1>3, RoomIdType DEF InRoom
<1> QED BY <1>2, <1>3

LEMMA InRoomNext == IInv' => InRoomAgrees'
BY InRoomIs, PTL

LEMMA SameRoom ==
  ASSUME IInv, IInv', NEW s \in Slots,
         \A q \in RoomIds : s \in members'[q] <=> s \in members[q]
  PROVE  InRoom'[s] = InRoom[s]
<1>1. InRoomAgrees /\ InRoomAgrees'
  BY InRoomIs, InRoomNext
<1>2. CASE InRoom[s] \in RoomIds
  BY <1>1, <1>2 DEF InRoomAgrees
<1>3. CASE InRoom[s] = NoRoom
  <2>1. \A q \in RoomIds : s \notin members[q]
    BY <1>1, <1>3, RoomIdType DEF InRoomAgrees
  <2> QED BY <1>1, <1>3, <2>1 DEF InRoomAgrees
<1> QED BY <1>1, <1>2, <1>3 DEF InRoomAgrees

\* A step after which some players that were in no battle are in r, enters r.
LEMMA EnterStep ==
  ASSUME IInv, IInv', NEW r \in RoomIds, r \in roomList', NEW S \in SUBSET Slots,
         \A q \in RoomIds : members'[q] = members[q] \cup (IF q = r THEN S ELSE {}),
         \A q \in RoomIds \ {r} : S \cap members[q] = {},
         \/ UNCHANGED <<roomList, lastRoom>>
         \/ /\ lastRoom < MaxRooms
            /\ lastRoom' = lastRoom + 1
            /\ roomList' = roomList \cup {lastRoom + 1}
  PROVE  Directory!Enter(S \ members[r], r)
<1> DEFINE T == S \ members[r]
<1>1. \A s \in T : InRoom[s] = NoRoom
  BY InRoomIs DEF InRoomAgrees
<1>2. ASSUME NEW s \in Slots PROVE InRoom'[s] = IF s \in T THEN r ELSE InRoom[s]
  <2>1. CASE s \in T
    BY <2>1, InRoomNext DEF InRoomAgrees
  <2>2. CASE s \notin T
    <3>1. \A q \in RoomIds : s \in members'[q] <=> s \in members[q]
      BY <2>2
    <3> QED BY <2>2, <3>1, SameRoom
  <2> QED BY <2>1, <2>2
<1>3. InRoom' = [s \in Slots |-> IF s \in T THEN r ELSE InRoom[s]]
  BY <1>2, InRoomNext DEF InRoomAgrees
<1>4. Directory!OpenRoom \/ UNCHANGED <<roomList, lastRoom>>
  BY DEF Directory!OpenRoom
<1> QED BY <1>1, <1>3, <1>4 DEF Directory!Enter, Directory!NoRoom, NoRoom

LEMMA SameMembers ==
  ASSUME IInv, IInv', UNCHANGED <<members, roomList, lastRoom>>
  PROVE  UNCHANGED Directory!vars
<1>1. InRoom' = InRoom
  BY DEF InRoom
<1> QED BY <1>1 DEF Directory!vars

\* The players let in by a request wait for the room, or are in none.
LEMMA PlaceEnters ==
  ASSUME IInv, IInv', NEW r \in RoomIds, r \in roomList', NEW vec \in SUBSET Slots,
         Place(r, vec), \A x \in vec : roomId[x] = NoRoom,
         \/ UNCHANGED <<roomList, lastRoom>>
         \/ /\ lastRoom < MaxRooms
            /\ lastRoom' = lastRoom + 1
            /\ roomList' = roomList \cup {lastRoom + 1}
  PROVE  \E S \in SUBSET Slots : Directory!Enter(S, r)
<1>1. PICK t \in Teams : TryToJoinWaitLst(r, t, vec)
  BY TargetTeamType DEF Place, IInv
<1> DEFINE lists == [waitLst[r] EXCEPT ![t] = @ \cup vec]
<1>2. lists \in [Teams -> SUBSET Slots] /\ AllOf(lists) = Waiting(r) \cup vec
  BY DEF IInv, TypeOK, AllOf, Waiting
<1>3. \A q \in RoomIds \ {r} : AllOf(lists) \cap members[q] = {}
  <2>1. ASSUME NEW q \in RoomIds \ {r}, NEW x \in members[q] PROVE x \notin AllOf(lists)
    <3>1. roomId[x] = q /\ q # NoRoom
      BY RoomIdType DEF IInv, MembersAgree, Occupants
    <3>2. x \notin Waiting(r)
      BY <3>1 DEF IInv, MembersAgree, Occupants
    <3> QED BY <1>2, <3>1, <3>2
  <2> QED BY <2>1
<1>4. PICK S \in SUBSET Slots :
        /\ S \subseteq AllOf(lists)
        /\ \A q \in RoomIds : members'[q] = members[q] \cup (IF q = r THEN S ELSE {})
  <2>1. CASE FlushReady(r, t, Cardinality(vec))
    <3> DEFINE S == {s \in AllOf(lists) : isLogin[s]}
    <3>1. Join(r, S)
      BY <1>1, <2>1 DEF TryToJoinWaitLst, FlushWaitLst
    <3>2. members' = [members EXCEPT ![r] = @ \cup S]
      BY <3>1 DEF Join
    <3>3. S \in SUBSET Slots /\ S \subseteq AllOf(lists)
      BY <1>2 DEF AllOf
    <3> HIDE DEF S
    <3>4. \A q \in RoomIds : members'[q] = members[q] \cup (IF q = r THEN S ELSE {})
      BY <3>2 DEF IInv, TypeOK
    <3> QED BY <3>3, <3>4
  <2>2. CASE ~FlushReady(r, t, Cardinality(vec))
    <3>1. members' = members
      BY <1>1, <2>2 DEF TryToJoinWaitLst
    <3> DEFINE S == {}
    <3>2. S \in SUBSET Slots /\ S \subseteq AllOf(lists)
      OBVIOUS
    <3>3. \A q \in RoomIds : members'[q] = members[q] \cup (IF q = r THEN S ELSE {})
      BY <3>1
    <3> QED BY <3>2, <3>3
  <2> QED BY <2>1, <2>2
<1>5. \A q \in RoomIds \ {r} : S \cap members[q] = {}
  BY <1>3, <1>4
<1>6. Directory!Enter(S \ members[r], r)
  BY <1>4, <1>5, EnterStep
<1> QED BY <1>6

LEMMA ExitLeaves ==
  ASSUME IInv, IInv', NEW s \in Slots, roomId[s] \in roomList, ExitRoom(roomId[s], s)
  PROVE  Directory!Leave(s)
<1> DEFINE r == roomId[s]
           gone == roomList \ roomList'
<1>1. \A q \in RoomIds : members'[q] = members[q] \ {s}
  BY ExitRoomEffect
<1>2. ASSUME NEW x \in Slots PROVE InRoom'[x] = IF x = s THEN NoRoom ELSE InRoom[x]
  <2>1. CASE x = s
    BY <1>1, <2>1, InRoomNext DEF InRoomAgrees
  <2>2. CASE x # s
    <3>1. \A q \in RoomIds : x \in members'[q] <=> x \in members[q]
      BY <1>1, <2>2
    <3> QED BY <2>2, <3>1, SameRoom
  <2> QED BY <2>1, <2>2
<1>3. InRoom' = [InRoom EXCEPT ![s] = NoRoom]
  BY <1>2, InRoomIs, InRoomNext DEF InRoomAgrees
<1>4. r \in RoomIds
  BY DEF IInv, TypeOK
<1>5. gone \subseteq {r} /\ gone \subseteq roomList /\ roomList' = roomList \ gone
  BY ExitRoomEffect
<1>6. r \in gone => members[r] \ {s} = {}
  BY <1>4 DEF ExitRoom
<1>7. \A x \in Slots : InRoom'[x] \notin gone
  BY <1>1, <1>4, <1>5, <1>6, InRoomNext DEF InRoomAgrees
<1>8. UNCHANGED lastRoom
  BY DEF ExitRoom
<1>9. \A a, b \in gone : a = b
  BY <1>5
<1> HIDE DEF gone
<1> QED BY <1>3, <1>5, <1>7, <1>8, <1>9 DEF Directory!Leave, Directory!NoRoom, NoRoom

LEMMA DirectoryStep ==
  IInv /\ IInv' /\ [Next]_vars => [Directory!Next]_(Directory!vars)
<1> SUFFICES ASSUME IInv, IInv', [Next]_vars
             PROVE  Directory!Next \/ UNCHANGED Directory!vars
  OBVIOUS
<1>0. ASSUME UNCHANGED <<members, roomList, lastRoom>> PROVE UNCHANGED Directory!vars
  BY <1>0, SameMembers
<1>r. Directory!RoomIds = RoomIds
  BY DEF Directory!RoomIds, RoomIds
<1>1. ASSUME NEW req \in Requests, HandlePlayerData(req)
      PROVE  Directory!Next \/ UNCHANGED Directory!vars
  <2>1. PICK f \in ObjectsFor(req) :
          PlaceInOldRoom(Group(req, f)) \/ PlaceInNewRoom(Group(req, f))
    BY <1>1 DEF HandlePlayerData
  <2> DEFINE vec == Group(req, f)
  <2>2. vec \in SUBSET Slots /\ \A x \in vec : roomId[x] = NoRoom
    BY DEF Group, ObjectsFor
  <2> HIDE DEF vec
  <2>3. CASE PlaceInOldRoom(vec)
    <3>1. PICK r \in roomList : Place(r, vec)
      BY <2>3 DEF PlaceInOldRoom, FirstFit
    <3>2. r \in RoomIds /\ UNCHANGED <<roomList, lastRoom>>
      BY <2>3 DEF PlaceInOldRoom, IInv, TypeOK
    <3> QED BY <1>r, <2>2, <3>1, <3>2, PlaceEnters DEF Directory!Next
  <2>4. CASE PlaceInNewRoom(vec)
    <3> DEFINE new == lastRoom + 1
    <3>1. /\ lastRoom < MaxRooms /\ new = lastRoom'
          /\ roomList' = roomList \cup {new}
      BY <2>4 DEF PlaceInNewRoom
    <3>2. new \in RoomIds
      BY <3>1, RoomAssumption DEF IInv, TypeOK, RoomIds
    <3>3. Place(new, vec) \/ UNCHANGED members
      BY <2>4, <3>1 DEF PlaceInNewRoom
    <3>4. CASE Place(new, vec)
      <4>1. new \in roomList'
        BY <3>1
      <4>2. \E S \in SUBSET Slots : Directory!Enter(S, new)
        BY <2>2, <3>1, <3>2, <3>4, <4>1, PlaceEnters
      <4> QED BY <1>r, <3>2, <4>2 DEF Directory!Next
    <3>5. CASE UNCHANGED members
      <4>1. Directory!Enter({} \ members[new], new)
        <5>1. \A q \in RoomIds : members'[q] = members[q] \cup (IF q = new THEN {} ELSE {})
          BY <3>5
        <5>2. new \in roomList' /\ \A q \in RoomIds \ {new} : {} \cap members[q] = {}
          BY <3>1
        <5> HIDE DEF new
        <5> QED BY <3>1, <3>2, <5>1, <5>2, EnterStep DEF new
      <4> QED BY <1>r, <3>2, <4>1 DEF Directory!Next
    <3> QED BY <3>3, <3>4, <3>5
  <2> QED BY <2>1, <2>3, <2>4 DEF vec
<1>2. ASSUME NEW p \in Pids, BindPlayerLink(p) PROVE UNCHANGED Directory!vars
  BY <1>0, <1>2 DEF BindPlayerLink, roomVars
<1>3. ASSUME NEW s \in Slots, RpcBattleLogin(s) PROVE Directory!Next
  <2> DEFINE r == roomId[s]
  <2>1. /\ r \in RoomIds /\ r \in roomList /\ Join(r, {s})
        /\ UNCHANGED <<roomList, lastRoom>>
    BY <1>3 DEF RpcBattleLogin, MayEnter, IInv, TypeOK
  <2>2. \A q \in RoomIds : members'[q] = members[q] \cup (IF q = r THEN {s} ELSE {})
    BY <2>1 DEF Join, IInv, TypeOK
  <2>3. \A q \in RoomIds \ {r} : {s} \cap members[q] = {}
    BY DEF IInv, MembersAgree, Occupants
  <2> HIDE DEF r
  <2>4. Directory!Enter({s} \ members[r], r)
    BY <2>1, <2>2, <2>3, EnterStep
  <2> QED BY <1>r, <2>1, <2>4 DEF Directory!Next
<1>4. ASSUME NEW s \in Slots, RpcBattleLogout(s) PROVE UNCHANGED Directory!vars
  BY <1>0, <1>4 DEF RpcBattleLogout, roomVars
<1>5. ASSUME NEW s \in Slots, RpcBattleExitRoom(s) PROVE Directory!Next
  BY <1>5, ExitLeaves DEF RpcBattleExitRoom, Directory!Next
<1>6. ASSUME NEW s \in Slots, LoginTimeout(s)
      PROVE  Directory!Next \/ UNCHANGED Directory!vars
  <2>1. CASE DeletePlayer(s) /\ roomId[s] \in roomList
    BY <2>1, ExitLeaves DEF DeletePlayer, Directory!Next
  <2>2. CASE UNCHANGED roomVars
    BY <1>0, <2>2 DEF roomVars
  <2> QED BY <1>6, <2>1, <2>2 DEF LoginTimeout, DeletePlayer
<1>7. CASE UNCHANGED vars
  BY <1>0, <1>7 DEF vars, roomVars
<1> QED BY <1>1, <1>2, <1>3, <1>4, <1>5, <1>6, <1>7 DEF Next

\* The rooms, with their match-making, waiting lists and timers, implement the directory:
\* players enter a battle only when in none, and a battle closes only when it is empty.
THEOREM RoomImplementsDirectory == Spec => ImplementsDirectory
<1>1. Init => Directory!Init
  <2> SUFFICES ASSUME Init PROVE InRoom = [s \in Slots |-> NoRoom]
    BY DEF Init, Directory!Init, Directory!NoRoom, NoRoom
  <2>1. \A s \in Slots : ~\E r \in RoomIds : s \in members[r]
    BY DEF Init
  <2> QED BY <2>1 DEF InRoom
<1> QED BY <1>1, DirectoryStep, RoomInv, PTL DEF Spec, ImplementsDirectory, Directory!Spec

-----------------------------------------------------------------------------
(* The server takes the steps of Room                                      *)

LEMMA HandleSteps ==
  ASSUME NEW s \in Slots, NEW op, Handle(s, op)
  PROVE  [Next]_vars
BY DEF Handle, Next

LEMMA BattleSteps ==
  ASSUME BattleTypeOK, [BattleNext]_battleVars
  PROVE  [Next]_vars
<1>1. CASE Advance
  BY <1>1 DEF Advance
<1>2. CASE RpcUpdate
  <2>1. Head(net.queue) \in [to : Slots, op : Ops \cup {"neterror"}]
    <3>1. net.queue \in Seq([to : Slots, op : Ops \cup {"neterror"}])
      BY DEF BattleTypeOK, NetType
    <3> QED BY <1>2, <3>1, HeadTailProperties DEF RpcUpdate
  <2>2. Head(net.queue).to \in Slots
    BY <2>1
  <2> QED BY <1>2, <2>2, HandleSteps DEF RpcUpdate
<1>3. ASSUME NEW s \in Slots, RunTimer(s) PROVE [Next]_vars
  BY <1>3 DEF RunTimer, Next
<1>4. ASSUME NEW g \in Guids, Connect(g) \/ Disconnect(g) PROVE [Next]_vars
  BY <1>4 DEF Connect, Disconnect
<1>5. ASSUME NEW g \in Guids, NEW op \in Ops, RecvMsg(g, op) PROVE [Next]_vars
  <2>1. CASE RecvFirst(g, op)
    BY <2>1, OwnerAssumption DEF RecvFirst, Next
  <2>2. CASE RecvNext(g, op) \/ RecvUnbound(g, op)
    BY <2>2 DEF RecvNext, RecvUnbound
  <2> QED BY <1>5, <2>1, <2>2 DEF RecvMsg
<1>6. ASSUME NEW req \in Requests, CrossRequest(req) PROVE [Next]_vars
  BY <1>6 DEF CrossRequest, Next
<1>7. CASE UNCHANGED battleVars
  BY <1>7 DEF battleVars
<1> QED BY <1>1, <1>2, <1>3, <1>4, <1>5, <1>6, <1>7 DEF BattleNext

-----------------------------------------------------------------------------
(* The agents, without counting: each is in one place                      *)

AgentsOnce(n) ==
  /\ \A g, h \in Guids : n.link[g] # NoCell /\ n.link[g] = n.link[h] => g = h
  /\ \A i, j \in 1 .. Len(n.free) : n.free[i] = n.free[j] => i = j
  /\ \A g \in Guids : \A i \in 1 .. Len(n.free) : n.link[g] # n.free[i]
  /\ \A c \in Cells : \/ \E g \in Guids : n.link[g] = c
                      \/ \E i \in 1 .. Len(n.free) : n.free[i] = c

NetOK(n) == n \in NetType /\ AgentsOnce(n)

\* The inductive invariant behind AgentsAccounted.
BattleInv == BattleTypeOK /\ IInv /\ AgentsOnce(net)

\* Only the links and the pool decide about the agents.
LEMMA SameAgents ==
  ASSUME NEW n \in NetType, AgentsOnce(n), NEW m \in NetType,
         m.link = n.link, m.free = n.free
  PROVE  NetOK(m)
BY DEF NetOK, AgentsOnce

LEMMA InsertOK ==
  ASSUME NEW n, NetOK(n), NEW s \in Slots, NEW op \in Ops \cup {"neterror"}
  PROVE  /\ NetOK(Insert(n, s, op))
         /\ Insert(n, s, op).link = n.link /\ Insert(n, s, op).guid = n.guid
         /\ Insert(n, s, op).player = n.player /\ Insert(n, s, op).free = n.free
<1>1. n \in NetType /\ AgentsOnce(n)
  BY DEF NetOK
<1> DEFINE m == Insert(n, s, op)
<1>2. m = [n EXCEPT !.queue = Append(n.queue, [to |-> s, op |-> op])]
  BY DEF Insert
<1>3. Append(n.queue, [to |-> s, op |-> op]) \in Seq([to : Slots, op : Ops \cup {"neterror"}])
  <2>1. n.queue \in Seq([to : Slots, op : Ops \cup {"neterror"}])
    BY <1>1 DEF NetType
  <2> QED BY <2>1, AppendProperties
<1>4. /\ m \in NetType /\ m.link = n.link /\ m.guid = n.guid
      /\ m.player = n.player /\ m.free = n.free
  BY <1>1, <1>2, <1>3 DEF NetType
<1> HIDE DEF m
<1> QED BY <1>1, <1>4, SameAgents DEF m

LEMMA HandleClientMsgOK ==
  ASSUME NEW n, NetOK(n), NEW s \in Slots, NEW op \in Ops
  PROVE  NetOK(HandleClientMsg(n, s, op))
BY InsertOK DEF HandleClientMsg

LEMMA ReportErrorMsgOK ==
  ASSUME NEW n, NetOK(n), NEW s \in Slots \cup {NoSlot}
  PROVE  /\ NetOK(ReportErrorMsg(n, s))
         /\ ReportErrorMsg(n, s).link = n.link /\ ReportErrorMsg(n, s).guid = n.guid
         /\ ReportErrorMsg(n, s).player = n.player /\ ReportErrorMsg(n, s).free = n.free
BY InsertOK DEF ReportErrorMsg

LEMMA PlayerOK ==
  ASSUME NEW n, NetOK(n), NEW c \in Cells, NEW s \in Slots \cup {NoSlot}
  PROVE  /\ NetOK([n EXCEPT !.player[c] = s])
         /\ [n EXCEPT !.player[c] = s].guid = n.guid
<1> DEFINE m == [n EXCEPT !.player[c] = s]
<1>1. n \in NetType /\ AgentsOnce(n)
  BY DEF NetOK
<1>2. m \in NetType /\ m.link = n.link /\ m.free = n.free /\ m.guid = n.guid
  BY <1>1 DEF NetType
<1> HIDE DEF m
<1> QED BY <1>1, <1>2, SameAgents DEF m

\* The agent of a link that closes goes back to the pool.
LEMMA OnLinkClosedOK ==
  ASSUME NEW n, NetOK(n), NEW g \in Guids
  PROVE  NetOK(OnLinkClosed(n, g)) /\ OnLinkClosed(n, g).guid = n.guid
<1> DEFINE c == n.link[g]
           e == ReportErrorMsg(n, n.player[c])
           m == [e EXCEPT !.player[c] = NoSlot, !.link[g] = NoCell,
                          !.free = Append(e.free, c)]
<1>1. n \in NetType /\ AgentsOnce(n)
  BY DEF NetOK
<1>2. CASE c = NoCell
  BY <1>2 DEF OnLinkClosed
<1>3. CASE c # NoCell
  <2>1. c \in Cells /\ n.player[c] \in Slots \cup {NoSlot}
    BY <1>1, <1>3 DEF NetType
  <2>2. e \in NetType /\ e.link = n.link /\ e.free = n.free /\ e.guid = n.guid
    BY <2>1, ReportErrorMsgOK DEF NetOK
  <2>3. /\ Append(n.free, c) \in Seq(Cells)
        /\ Len(Append(n.free, c)) = Len(n.free) + 1 /\ Len(n.free) \in Nat
        /\ \A i \in 1 .. Len(n.free) : Append(n.free, c)[i] = n.free[i]
        /\ Append(n.free, c)[Len(n.free) + 1] = c
    <3>1. n.free \in Seq(Cells)
      BY <1>1 DEF NetType
    <3> QED BY <2>1, <3>1, AppendProperties, LenProperties
  <2>4. OnLinkClosed(n, g) = m
    BY <1>3 DEF OnLinkClosed
  <2> HIDE DEF c, e
  <2>5. /\ m \in NetType /\ m.link = [n.link EXCEPT ![g] = NoCell]
        /\ m.free = Append(n.free, c) /\ m.guid = n.guid
    BY <2>1, <2>2, <2>3 DEF NetType
  <2>6. n.link \in [Guids -> Cells \cup {NoCell}] /\ n.link[g] = c
    BY <1>1 DEF NetType, c
  <2> HIDE DEF m
  <2>7. /\ \A h \in Guids : m.link[h] = IF h = g THEN NoCell ELSE n.link[h]
        /\ Len(m.free) = Len(n.free) + 1 /\ Len(n.free) \in Nat
        /\ \A i \in 1 .. Len(m.free) :
             m.free[i] = IF i = Len(n.free) + 1 THEN c ELSE n.free[i]
    BY <2>3, <2>5, <2>6
  <2>8. AgentsOnce(m)
    <3>1. \A h, k \in Guids : m.link[h] # NoCell /\ m.link[h] = m.link[k] => h = k
      BY <1>1, <2>7 DEF AgentsOnce
    <3>2. \A i \in 1 .. Len(n.free) : n.free[i] # c
      BY <1>1, <2>6 DEF AgentsOnce
    <3>3. \A i, j \in 1 .. Len(m.free) : m.free[i] = m.free[j] => i = j
      BY <1>1, <2>7, <3>2 DEF AgentsOnce
    <3>4. \A h \in Guids : \A i \in 1 .. Len(m.free) : m.link[h] # m.free[i]
      <4> SUFFICES ASSUME NEW h \in Guids, NEW i \in 1 .. Len(m.free)
                   PROVE  m.link[h] # m.free[i]
        OBVIOUS
      <4>1. m.free[i] # NoCell
        <5>1. m.free \in Seq(Cells)
          BY <2>5 DEF NetType
        <5>2. m.free[i] \in Cells
          BY <5>1, ElementOfSeq
        <5> QED BY <5>2, NullAssumption
      <4>2. h # g => n.link[h] # c
        BY <1>1, <1>3, <2>6 DEF AgentsOnce, c
      <4> QED BY <1>1, <2>7, <4>1, <4>2 DEF AgentsOnce
    <3>5. ASSUME NEW d \in Cells
          PROVE  (\E h \in Guids : m.link[h] = d) \/ (\E i \in 1 .. Len(m.free) : m.free[i] = d)
      <4>1. CASE d = c
        BY <2>7, <4>1
      <4>2. CASE d # c /\ \E h \in Guids : n.link[h] = d
        BY <2>6, <2>7, <4>2
      <4>3. CASE \E i \in 1 .. Len(n.free) : n.free[i] = d
        BY <2>7, <4>3
      <4> QED BY <1>1, <4>1, <4>2, <4>3 DEF AgentsOnce
    <3> QED BY <3>1, <3>3, <3>4, <3>5 DEF AgentsOnce
  <2> QED BY <2>4, <2>5, <2>8 DEF NetOK
<1> QED BY <1>2, <1>3

\* An agent that closes its link, though it is freed by that or long since.
LEMMA CloseLinkOK ==
  ASSUME NEW n, NetOK(n), NEW c \in Cells
  PROVE  NetOK(CloseLink(n, c))
<1> DEFINE k == OnLinkClosed(n, n.guid[c])
<1>1. n.guid[c] \in Guids
  BY DEF NetOK, NetType
<1>2. NetOK(k)
  BY <1>1, OnLinkClosedOK
<1> HIDE DEF k
<1>3. NetOK([k EXCEPT !.player[c] = NoSlot])
  BY <1>2, PlayerOK
<1> QED BY <1>3 DEF CloseLink, k

LEMMA DropLinkOK ==
  ASSUME NEW n, NetOK(n), NEW c \in Cells \cup {NoCell}
  PROVE  NetOK(DropLink(n, c))
<1>1. CASE c = NoCell
  BY <1>1 DEF DropLink
<1>2. CASE c # NoCell
  <2> DEFINE m == [n EXCEPT !.player[c] = NoSlot]
  <2>1. c \in Cells
    BY <1>2
  <2>2. NetOK(m)
    BY <2>1, PlayerOK
  <2> HIDE DEF m
  <2>3. NetOK(CloseLink(m, c))
    BY <2>1, <2>2, CloseLinkOK
  <2> QED BY <1>2, <2>3 DEF DropLink, m
<1> QED BY <1>1, <1>2

-----------------------------------------------------------------------------
(* The steps                                                               *)

\* A new connection gets the first free agent.
LEMMA ConnectOK ==
  ASSUME NetOK(net), NEW g \in Guids, Connect(g)
  PROVE  NetOK(net')
<1> DEFINE c == Head(net.free)
<1>1. net \in NetType /\ AgentsOnce(net)
  BY DEF NetOK
<1>2. /\ net.free \in Seq(Cells) /\ net.free # <<>> /\ net.link[g] = NoCell
      /\ net' = [net EXCEPT !.link[g] = c, !.guid[c] = g, !.player[c] = NoSlot,
                            !.free = Tail(net.free)]
  BY <1>1 DEF Connect, NetType
<1>3. /\ c \in Cells /\ Tail(net.free) \in Seq(Cells)
      /\ Len(net.free) \in Nat \ {0} /\ Len(Tail(net.free)) = Len(net.free) - 1
      /\ \A i \in 1 .. Len(net.free) - 1 : Tail(net.free)[i] = net.free[i + 1]
      /\ net.free[1] = c
  BY <1>2, HeadTailProperties, EmptySeq
<1> HIDE DEF c
<1>4. /\ net' \in NetType /\ net'.free = Tail(net.free)
      /\ net'.link = [net.link EXCEPT ![g] = c]
  BY <1>1, <1>2, <1>3 DEF NetType
<1>5. /\ \A h \in Guids : net'.link[h] = IF h = g THEN c ELSE net.link[h]
      /\ Len(net'.free) = Len(net.free) - 1
      /\ \A i \in 1 .. Len(net'.free) : net'.free[i] = net.free[i + 1]
  BY <1>1, <1>3, <1>4 DEF NetType
<1>6. \A h \in Guids : net.link[h] # c
  BY <1>1, <1>3 DEF AgentsOnce
<1>7. \A h, k \in Guids : net'.link[h] # NoCell /\ net'.link[h] = net'.link[k] => h = k
  BY <1>1, <1>5, <1>6 DEF AgentsOnce
<1>8. \A i \in 1 .. Len(net'.free) : i + 1 \in 1 .. Len(net.free) /\ i + 1 # 1
  BY <1>3, <1>5
<1>9. \A i, j \in 1 .. Len(net'.free) : net'.free[i] = net'.free[j] => i = j
  <2> SUFFICES ASSUME NEW i \in 1 .. Len(net'.free), NEW j \in 1 .. Len(net'.free),
                      net'.free[i] = net'.free[j]
               PROVE  i = j
    OBVIOUS
  <2>1. i + 1 = j + 1
    BY <1>1, <1>5, <1>8 DEF AgentsOnce
  <2> QED BY <2>1
<1>10. \A h \in Guids : \A i \in 1 .. Len(net'.free) : net'.link[h] # net'.free[i]
  <2> SUFFICES ASSUME NEW h \in Guids, NEW i \in 1 .. Len(net'.free)
               PROVE  net'.link[h] # net'.free[i]
    OBVIOUS
  <2>1. net.free[i + 1] # net.free[1] /\ net.free[i + 1] # net.link[h]
    BY <1>1, <1>3, <1>8 DEF AgentsOnce
  <2> QED BY <1>3, <1>5, <2>1
<1>11. ASSUME NEW d \in Cells
        PROVE  \/ \E h \in Guids : net'.link[h] = d
               \/ \E i \in 1 .. Len(net'.free) : net'.free[i] = d
  <2>1. CASE d = c
    BY <1>5, <2>1
  <2>2. CASE \E h \in Guids : net.link[h] = d
    BY <1>2, <1>5, <2>2, NullAssumption
  <2>3. CASE d # c /\ \E i \in 1 .. Len(net.free) : net.free[i] = d
    <3>1. PICK i \in 1 .. Len(net.free) : net.free[i] = d
      BY <2>3
    <3>2. i - 1 \in 1 .. Len(net'.free) /\ (i - 1) + 1 = i
      BY <1>3, <1>5, <2>3, <3>1
    <3> QED BY <1>5, <3>1, <3>2
  <2> QED BY <1>1, <2>1, <2>2, <2>3 DEF AgentsOnce
<1> QED BY <1>4, <1>7, <1>9, <1>10, <1>11 DEF NetOK, AgentsOnce

\* The first message of a connection binds its agent to the player, whose former link
\* is given up.
LEMMA RecvFirstOK ==
  ASSUME BattleInv, NEW g \in Guids, NEW op \in Ops, RecvFirst(g, op)
  PROVE  NetOK(net') /\ netLink' \in [Slots -> Cells \cup {NoCell}]
<1>1. /\ net \in NetType /\ NetOK(net) /\ netLink \in [Slots -> Cells \cup {NoCell}]
  BY DEF BattleInv, BattleTypeOK, NetOK
<1> DEFINE c == net.link[g]
           old(s) == IF pid[s] = NoPid THEN NoCell ELSE netLink[s]
<1>2. c \in Cells
  BY <1>1 DEF RecvFirst, NetType
<1>3. PICK s \in Slots :
        /\ net' = HandleClientMsg([DropLink(net, old(s)) EXCEPT !.player[c] = s], s, op)
        /\ netLink' = [netLink EXCEPT ![s] = c]
  BY DEF RecvFirst
<1>4. old(s) \in Cells \cup {NoCell}
  BY <1>1
<1> HIDE DEF c, old
<1>5. NetOK([DropLink(net, old(s)) EXCEPT !.player[c] = s])
  BY <1>1, <1>2, <1>4, DropLinkOK, PlayerOK
<1>6. NetOK(net')
  BY <1>3, <1>5, HandleClientMsgOK
<1> QED BY <1>1, <1>2, <1>3, <1>6

LEMMA BattleStepOK ==
  ASSUME BattleInv, [BattleNext]_battleVars
  PROVE  NetOK(net') /\ BattleTypeOK'
<1>0. /\ net \in NetType /\ NetOK(net) /\ netLink \in [Slots -> Cells \cup {NoCell}]
      /\ phase \in {"timer", "net", "rpc", "cross", "down"}
  BY DEF BattleInv, BattleTypeOK, NetOK
<1> SUFFICES /\ NetOK(net') /\ netLink' \in [Slots -> Cells \cup {NoCell}]
             /\ phase' \in {"timer", "net", "rpc", "cross", "down"}
  BY DEF BattleTypeOK, NetOK
<1>1. CASE Advance
  BY <1>0, <1>1 DEF Advance, NextPhase
<1>2. CASE RpcUpdate
  <2> DEFINE m == [net EXCEPT !.queue = Tail(net.queue)]
  <2>1. net.queue \in Seq([to : Slots, op : Ops \cup {"neterror"}]) /\ net.queue # <<>>
    BY <1>0, <1>2 DEF RpcUpdate, NetType
  <2>2. Tail(net.queue) \in Seq([to : Slots, op : Ops \cup {"neterror"}])
    BY <2>1, HeadTailProperties
  <2>3. m \in NetType /\ m.link = net.link /\ m.free = net.free
    BY <1>0, <2>2 DEF NetType
  <2>4. net' = m /\ UNCHANGED <<phase, netLink>>
    BY <1>2 DEF RpcUpdate
  <2> HIDE DEF m
  <2>5. NetOK(m)
    BY <1>0, <2>3, SameAgents DEF NetOK
  <2> QED BY <1>0, <2>4, <2>5
<1>3. ASSUME NEW s \in Slots, RunTimer(s)
      PROVE  UNCHANGED <<phase, net, netLink>>
  BY <1>3 DEF RunTimer
<1>4. ASSUME NEW g \in Guids, Connect(g) PROVE NetOK(net') /\ UNCHANGED <<phase, netLink>>
  BY <1>0, <1>4, ConnectOK DEF Connect
<1>5. ASSUME NEW g \in Guids, Disconnect(g) PROVE NetOK(net') /\ UNCHANGED <<phase, netLink>>
  BY <1>0, <1>5, OnLinkClosedOK DEF Disconnect
<1>6. ASSUME NEW g \in Guids, NEW op \in Ops, RecvFirst(g, op)
      PROVE  NetOK(net') /\ netLink' \in [Slots -> Cells \cup {NoCell}] /\ UNCHANGED phase
  BY <1>6, RecvFirstOK DEF RecvFirst
<1>7. ASSUME NEW g \in Guids, NEW op \in Ops, RecvNext(g, op)
      PROVE  NetOK(net') /\ UNCHANGED <<phase, netLink>>
  <2>1. net.link[g] \in Cells
    BY <1>0, <1>7 DEF RecvNext, NetType
  <2>2. net.player[net.link[g]] \in Slots
    BY <1>0, <1>7, <2>1 DEF RecvNext, NetType
  <2> QED BY <1>0, <1>7, <2>2, HandleClientMsgOK DEF RecvNext
<1>8. ASSUME NEW g \in Guids, NEW op \in Ops, RecvUnbound(g, op)
      PROVE  NetOK(net') /\ phase' = "down" /\ UNCHANGED netLink
  <2>1. net.link[g] \in Cells
    BY <1>0, <1>8 DEF RecvUnbound, NetType
  <2> QED BY <1>0, <1>8, <2>1, CloseLinkOK DEF RecvUnbound
<1>9. ASSUME NEW req \in Requests, CrossRequest(req)
      PROVE  UNCHANGED <<phase, net>> /\ netLink' \in [Slots -> Cells \cup {NoCell}]
  BY <1>0, <1>9 DEF CrossRequest
<1>10. CASE UNCHANGED battleVars
  BY <1>0, <1>10 DEF battleVars
<1> QED BY <1>0, <1>1, <1>2, <1>3, <1>4, <1>5, <1>6, <1>7, <1>8, <1>9, <1>10
           DEF BattleNext, RecvMsg

\* At the start all agents are in the pool, in some order.
LEMMA BattleInitInv == BattleInit => BattleInv
<1> SUFFICES ASSUME BattleInit PROVE BattleInv
  OBVIOUS
<1> DEFINE n == Cardinality(Cells)
           f == SetToSeq(Cells)
<1>1. n \in Nat /\ ExistsBijection(1 .. n, Cells)
  BY PoolAssumption, FS_CardinalityType
<1>2. PICK b \in Bijection(1 .. n, Cells) : TRUE
  BY <1>1 DEF ExistsBijection
<1>3. f \in [1 .. n -> Cells] /\ IsInjective(f)
  <2>1. b \in [1 .. n -> Cells] /\ IsInjective(b)
    BY <1>2 DEF Bijection, Injection
  <2> QED BY <2>1 DEF SetToSeq
<1> HIDE DEF f, n
<1>10. \A i, j \in 1 .. n : f[i] = f[j] => i = j
  <2>1. DOMAIN f = 1 .. n
    BY <1>3
  <2> QED BY <1>3, <2>1 DEF IsInjective
<1>4. \A c \in Cells : \E i \in 1 .. n : f[i] = c
  <2>1. f \in Injection(1 .. n, Cells)
    BY <1>3 DEF Injection
  <2>2. Cardinality(1 .. n) = n
    BY <1>1, FS_Interval
  <2>3. f \in Surjection(1 .. n, Cells)
    BY <2>1, <2>2, PoolAssumption, FS_Injection DEF n
  <2> QED BY <2>3 DEF Surjection
<1>5. f \in Seq(Cells) /\ Len(f) = n
  BY <1>1, <1>3
<1>6. \A c \in Cells : (CHOOSE g \in Guids : TRUE) \in Guids
  BY PoolAssumption
<1>7. /\ net \in NetType /\ net.free = f /\ \A g \in Guids : net.link[g] = NoCell
  BY <1>5, <1>6 DEF BattleInit, NetType, f
<1>8. AgentsOnce(net)
  <2>1. \A i \in 1 .. Len(f) : f[i] # NoCell
    BY <1>3, <1>5, NullAssumption
  <2> QED BY <1>3, <1>10, <1>4, <1>5, <1>7, <2>1 DEF AgentsOnce
<1>9. BattleTypeOK /\ IInv
  BY <1>7, InitInv DEF BattleInit, BattleTypeOK
<1> QED BY <1>8, <1>9 DEF BattleInv

-----------------------------------------------------------------------------
(* The theorems                                                            *)

\* In every reachable state of the server the rooms are consistent and each agent is
\* in one place.
THEOREM BattleInvariant == BattleSpec => []BattleInv
<1>1. BattleInv /\ [BattleNext]_battleVars => BattleInv'
  BY BattleStepOK, BattleSteps, NextInv DEF BattleInv, NetOK
<1> QED BY <1>1, BattleInitInv, PTL DEF BattleSpec

\* Every agent is in use by exactly one client or in the pool once: no close frees an
\* agent twice, and none is lost to the pool.
THEOREM BattleAgentsAccounted == BattleSpec => []AgentsAccounted
<1>1. BattleInv => AgentsAccounted
  <2> SUFFICES ASSUME BattleInv, NEW c \in Cells
               PROVE  Cardinality({g \in Guids : net.link[g] = c})
                        + Cardinality({i \in DOMAIN net.free : net.free[i] = c}) = 1
    BY DEF AgentsAccounted, BattleInv
  <2>1. AgentsOnce(net) /\ net.free \in Seq(Cells) /\ c # NoCell
    BY NullAssumption DEF BattleInv, BattleTypeOK, NetType
  <2>2. DOMAIN net.free = 1 .. Len(net.free)
    BY <2>1, LenProperties
  <2> DEFINE Users == {g \in Guids : net.link[g] = c}
             Places == {i \in DOMAIN net.free : net.free[i] = c}
  <2>3. CASE \E g \in Guids : net.link[g] = c
    <3>1. PICK g \in Guids : net.link[g] = c
      BY <2>3
    <3>2. Users = {g} /\ Places = {}
      BY <2>1, <2>2, <3>1 DEF AgentsOnce
    <3> HIDE DEF Users, Places
    <3>3. Cardinality(Users) = 1
      BY <3>2, FS_Singleton
    <3>4. Cardinality(Places) = 0
      BY <3>2, FS_EmptySet
    <3>5. Cardinality(Users) + Cardinality(Places) = 1
      BY <3>3, <3>4
    <3> QED BY <3>5 DEF Users, Places
  <2>4. CASE \E i \in 1 .. Len(net.free) : net.free[i] = c
    <3>1. PICK i \in 1 .. Len(net.free) : net.free[i] = c
      BY <2>4
    <3>2. Users = {}
      BY <2>1, <3>1 DEF AgentsOnce
    <3>6. Places = {i}
      BY <2>1, <2>2, <3>1 DEF AgentsOnce
    <3> HIDE DEF Users, Places
    <3>3. Cardinality(Users) = 0
      BY <3>2, FS_EmptySet
    <3>4. Cardinality(Places) = 1
      BY <3>6, FS_Singleton
    <3>5. Cardinality(Users) + Cardinality(Places) = 1
      BY <3>3, <3>4
    <3> QED BY <3>5 DEF Users, Places
  <2> QED BY <2>1, <2>3, <2>4 DEF AgentsOnce
<1> QED BY <1>1, BattleInvariant, PTL

-----------------------------------------------------------------------------
(* One link per player                                                     *)

\* A step that deletes no Player: the timers of LoginTimeout are the only ones that do.
NobodyDeleted == \A s \in Slots : pid[s] # NoPid => pid'[s] # NoPid

\* The player of an open link exists, and its _netLink is this agent.
Known(n, ids, links) ==
  \A g \in Guids :
    n.link[g] # NoCell /\ n.player[n.link[g]] # NoSlot =>
      /\ ids[n.player[n.link[g]]] # NoPid
      /\ links[n.player[n.link[g]]] = n.link[g]

\* Of m, links may be closed and players unbound.
Fewer(m, n) ==
  /\ \A g \in Guids : m.link[g] \in {n.link[g], NoCell}
  /\ \A c \in Cells : m.player[c] \in {n.player[c], NoSlot}

LEMMA FewerKnown ==
  ASSUME NEW n \in NetType, NEW m \in NetType, Fewer(m, n), NEW ids, NEW links,
         Known(n, ids, links)
  PROVE  Known(m, ids, links)
<1> SUFFICES ASSUME NEW g \in Guids, m.link[g] # NoCell, m.player[m.link[g]] # NoSlot
             PROVE  /\ ids[m.player[m.link[g]]] # NoPid
                    /\ links[m.player[m.link[g]]] = m.link[g]
  BY DEF Known
<1>1. m.link[g] = n.link[g] /\ n.link[g] \in Cells
  BY DEF Fewer, NetType
<1>2. m.player[m.link[g]] = n.player[n.link[g]]
  BY <1>1 DEF Fewer
<1> QED BY <1>1, <1>2 DEF Known

LEMMA OnLinkClosedFewer ==
  ASSUME NEW n, NetOK(n), NEW g \in Guids
  PROVE  Fewer(OnLinkClosed(n, g), n)
<1> DEFINE c == n.link[g]
           e == ReportErrorMsg(n, n.player[c])
           m == [e EXCEPT !.player[c] = NoSlot, !.link[g] = NoCell,
                          !.free = Append(e.free, c)]
<1>1. n \in NetType
  BY DEF NetOK
<1>2. CASE c = NoCell
  BY <1>1, <1>2 DEF OnLinkClosed, Fewer
<1>3. CASE c # NoCell
  <2>1. c \in Cells /\ n.player[c] \in Slots \cup {NoSlot}
    BY <1>1, <1>3 DEF NetType
  <2>2. e \in NetType /\ e.link = n.link /\ e.player = n.player
    BY <2>1, ReportErrorMsgOK DEF NetOK
  <2>3. OnLinkClosed(n, g) = m
    BY <1>3 DEF OnLinkClosed
  <2> HIDE DEF c, e
  <2>4. m.link = [n.link EXCEPT ![g] = NoCell] /\ m.player = [n.player EXCEPT ![c] = NoSlot]
    BY <2>1, <2>2 DEF NetType
  <2> HIDE DEF m
  <2> QED BY <1>1, <2>1, <2>3, <2>4 DEF Fewer, NetType
<1> QED BY <1>2, <1>3

LEMMA CloseLinkFewer ==
  ASSUME NEW n, NetOK(n), NEW c \in Cells
  PROVE  Fewer(CloseLink(n, c), n) /\ CloseLink(n, c).player[c] = NoSlot
<1> DEFINE k == OnLinkClosed(n, n.guid[c])
           l == [k EXCEPT !.player[c] = NoSlot]
<1>1. n.guid[c] \in Guids /\ n \in NetType
  BY DEF NetOK, NetType
<1>2. NetOK(k) /\ k \in NetType /\ Fewer(k, n)
  BY <1>1, OnLinkClosedOK, OnLinkClosedFewer DEF NetOK
<1>3. CloseLink(n, c) = l
  BY DEF CloseLink
<1> HIDE DEF k
<1>4. l.link = k.link /\ l.player = [k.player EXCEPT ![c] = NoSlot]
  BY <1>2 DEF NetType
<1> HIDE DEF l
<1>5. l.player[c] = NoSlot /\ \A d \in Cells : l.player[d] \in {k.player[d], NoSlot}
  BY <1>2, <1>4 DEF NetType
<1> QED BY <1>2, <1>3, <1>4, <1>5 DEF Fewer

LEMMA DropLinkFewer ==
  ASSUME NEW n, NetOK(n), NEW c \in Cells \cup {NoCell}
  PROVE  /\ Fewer(DropLink(n, c), n)
         /\ c # NoCell => DropLink(n, c).player[c] = NoSlot
<1>1. CASE c = NoCell
  BY <1>1 DEF DropLink, NetOK, NetType, Fewer
<1>2. CASE c # NoCell
  <2> DEFINE m == [n EXCEPT !.player[c] = NoSlot]
             l == CloseLink(m, c)
  <2>1. c \in Cells /\ n \in NetType
    BY <1>2 DEF NetOK, NetType
  <2>2. NetOK(m)
    BY <2>1, PlayerOK
  <2>3. m.link = n.link /\ \A d \in Cells : m.player[d] \in {n.player[d], NoSlot}
    BY <2>1 DEF NetType
  <2>4. DropLink(n, c) = l
    BY <1>2 DEF DropLink
  <2> HIDE DEF m
  <2>5. Fewer(l, m) /\ l.player[c] = NoSlot
    BY <2>1, <2>2, CloseLinkFewer
  <2> HIDE DEF l
  <2>6. Fewer(l, n)
    BY <2>3, <2>5 DEF Fewer
  <2> QED BY <2>4, <2>5, <2>6
<1> QED BY <1>1, <1>2

\* The agent of a login is the player's, and its former one has lost it.
LEMMA RecvFirstKnown ==
  ASSUME BattleInv, Known(net, pid, netLink), NobodyDeleted,
         NEW g \in Guids, NEW op \in Ops, RecvFirst(g, op)
  PROVE  Known(net', pid', netLink')
<1>1. /\ net \in NetType /\ NetOK(net) /\ netLink \in [Slots -> Cells \cup {NoCell}]
  BY DEF BattleInv, BattleTypeOK, NetOK
<1> DEFINE c == net.link[g]
           old(s) == IF pid[s] = NoPid THEN NoCell ELSE netLink[s]
<1>2. c \in Cells
  BY <1>1 DEF RecvFirst, NetType
<1>3. PICK s \in Slots :
        /\ pid'[s] = Owner[g]
        /\ net' = HandleClientMsg([DropLink(net, old(s)) EXCEPT !.player[c] = s], s, op)
        /\ netLink' = [netLink EXCEPT ![s] = c]
  BY DEF RecvFirst
<1>4. old(s) \in Cells \cup {NoCell}
  BY <1>1
<1> DEFINE d == DropLink(net, old(s))
           k == [d EXCEPT !.player[c] = s]
<1>5. /\ d \in NetType /\ NetOK(d) /\ Fewer(d, net)
      /\ old(s) # NoCell => d.player[old(s)] = NoSlot
  BY <1>1, <1>4, DropLinkOK, DropLinkFewer DEF NetOK
<1>6. net' = HandleClientMsg(k, s, op)
  BY <1>3
<1>7. pid'[s] # NoPid
  BY <1>3, OwnerAssumption, PidAssumption
<1> HIDE DEF d
<1>8. NetOK(k) /\ k.link = d.link /\ k.player = [d.player EXCEPT ![c] = s]
  BY <1>2, <1>5, PlayerOK DEF NetType
<1> HIDE DEF k
<1>9. net'.link = d.link /\ net'.player = [d.player EXCEPT ![c] = s]
  BY <1>6, <1>8, InsertOK DEF HandleClientMsg
<1> SUFFICES ASSUME NEW h \in Guids, net'.link[h] # NoCell,
                    net'.player[net'.link[h]] # NoSlot
             PROVE  /\ pid'[net'.player[net'.link[h]]] # NoPid
                    /\ netLink'[net'.player[net'.link[h]]] = net'.link[h]
  BY DEF Known
<1> DEFINE e == net.link[h]
<1>10. net'.link[h] = e /\ e \in Cells
  BY <1>1, <1>5, <1>9 DEF Fewer, NetType
<1>11. CASE e = c
  <2>1. net'.player[e] = s
    BY <1>2, <1>5, <1>9, <1>11 DEF NetType
  <2> QED BY <1>1, <1>3, <1>7, <1>10, <1>11, <2>1
<1>12. CASE e # c
  <2> DEFINE x == net.player[e]
  <2>1. net'.player[e] = d.player[e] /\ d.player[e] \in {x, NoSlot}
    BY <1>2, <1>5, <1>9, <1>10, <1>12 DEF NetType, Fewer
  <2>2. net'.player[e] = x /\ x \in Slots /\ x # NoSlot
    BY <1>1, <1>10, <2>1 DEF NetType
  <2>3. pid[x] # NoPid /\ netLink[x] = e
    BY <1>10, <2>2, NullAssumption DEF Known
  <2>4. x # s
    BY <1>5, <1>10, <2>1, <2>2, <2>3, NullAssumption
  <2>5. pid'[x] # NoPid /\ netLink'[x] = e
    BY <1>1, <1>3, <2>2, <2>3, <2>4 DEF NobodyDeleted
  <2> QED BY <1>10, <2>2, <2>5
<1> QED BY <1>11, <1>12

LEMMA KnownStep ==
  ASSUME BattleInv, Known(net, pid, netLink), NobodyDeleted, [BattleNext]_battleVars
  PROVE  Known(net', pid', netLink')
<1>0. /\ net \in NetType /\ NetOK(net) /\ netLink \in [Slots -> Cells \cup {NoCell}]
      /\ NetOK(net') /\ net' \in NetType
  BY BattleStepOK DEF BattleInv, BattleTypeOK, NetOK
\* Objects may be made and links closed: what is known stays.
<1>1. ASSUME NEW n \in NetType, Known(n, pid, netLink), net' = n, netLink' = netLink
      PROVE  Known(net', pid', netLink')
  <2> SUFFICES ASSUME NEW g \in Guids, n.link[g] # NoCell, n.player[n.link[g]] # NoSlot
               PROVE  /\ pid'[n.player[n.link[g]]] # NoPid
                      /\ netLink[n.player[n.link[g]]] = n.link[g]
    BY <1>1 DEF Known
  <2>1. n.link[g] \in Cells /\ n.player[n.link[g]] \in Slots
    BY DEF NetType
  <2> QED BY <1>1, <2>1 DEF Known, NobodyDeleted
<1>2. CASE Advance \/ UNCHANGED battleVars \/ \E s \in Slots : RunTimer(s)
  <2>1. net' = net /\ netLink' = netLink
    BY <1>2 DEF Advance, RunTimer, battleVars
  <2> QED BY <1>0, <1>1, <2>1
<1>3. CASE RpcUpdate
  <2>1. net' = [net EXCEPT !.queue = Tail(net.queue)] /\ netLink' = netLink
    BY <1>3 DEF RpcUpdate
  <2>2. net'.link = net.link /\ net'.player = net.player
    BY <1>0, <2>1 DEF NetType
  <2>3. Known(net', pid, netLink)
    BY <2>2 DEF Known
  <2> QED BY <1>0, <1>1, <2>1, <2>3
<1>4. ASSUME NEW g \in Guids, Connect(g) PROVE Known(net', pid', netLink')
  <2> DEFINE c == Head(net.free)
  <2>1. /\ netLink' = netLink
        /\ net' = [net EXCEPT !.link[g] = c, !.guid[c] = g, !.player[c] = NoSlot,
                              !.free = Tail(net.free)]
    BY <1>4 DEF Connect
  <2>2. c \in Cells
    <3>1. net.free \in Seq(Cells) /\ net.free # <<>>
      BY <1>0, <1>4 DEF Connect, NetType
    <3> QED BY <3>1, HeadTailProperties
  <2> HIDE DEF c
  <2>3. /\ net'.link = [net.link EXCEPT ![g] = c]
        /\ net'.player = [net.player EXCEPT ![c] = NoSlot]
    BY <1>0, <2>1, <2>2 DEF NetType
  <2>4. Known(net', pid, netLink)
    <3> SUFFICES ASSUME NEW h \in Guids, net'.link[h] # NoCell,
                        net'.player[net'.link[h]] # NoSlot
                 PROVE  /\ pid[net'.player[net'.link[h]]] # NoPid
                        /\ netLink[net'.player[net'.link[h]]] = net'.link[h]
      BY DEF Known
    <3>1. net'.link[h] \in Cells
      BY <1>0 DEF NetType
    <3>2. net'.link[h] # c
      BY <1>0, <2>2, <2>3 DEF NetType
    <3>3. net'.link[h] = net.link[h]
      BY <1>0, <2>3, <3>2 DEF NetType
    <3>4. net'.player[net'.link[h]] = net.player[net.link[h]]
      BY <1>0, <2>3, <3>1, <3>2, <3>3 DEF NetType
    <3> QED BY <3>3, <3>4 DEF Known
  <2> QED BY <1>0, <1>1, <2>1, <2>4
<1>5. ASSUME NEW g \in Guids, Disconnect(g) PROVE Known(net', pid', netLink')
  <2>1. net' = OnLinkClosed(net, g) /\ netLink' = netLink
    BY <1>5 DEF Disconnect
  <2>2. Known(net', pid, netLink)
    BY <1>0, <2>1, OnLinkClosedFewer, FewerKnown
  <2> QED BY <1>0, <1>1, <2>1, <2>2
<1>6. ASSUME NEW g \in Guids, NEW op \in Ops, RecvFirst(g, op) PROVE Known(net', pid', netLink')
  BY <1>6, RecvFirstKnown
<1>7. ASSUME NEW g \in Guids, NEW op \in Ops, RecvNext(g, op) PROVE Known(net', pid', netLink')
  <2>1. net.link[g] \in Cells /\ net.player[net.link[g]] \in Slots
    BY <1>0, <1>7 DEF RecvNext, NetType
  <2>2. /\ net' = HandleClientMsg(net, net.player[net.link[g]], op) /\ netLink' = netLink
    BY <1>7 DEF RecvNext
  <2>3. net'.link = net.link /\ net'.player = net.player
    BY <1>0, <2>1, <2>2, InsertOK DEF HandleClientMsg
  <2>4. Known(net', pid, netLink)
    BY <2>3 DEF Known
  <2> QED BY <1>0, <1>1, <2>2, <2>4
<1>9. ASSUME NEW g \in Guids, NEW op \in Ops, RecvUnbound(g, op)
      PROVE  Known(net', pid', netLink')
  <2>1. net.link[g] \in Cells
    BY <1>0, <1>9 DEF RecvUnbound, NetType
  <2>2. net' = CloseLink(net, net.link[g]) /\ netLink' = netLink
    BY <1>9 DEF RecvUnbound
  <2>3. Known(net', pid, netLink)
    BY <1>0, <2>1, <2>2, CloseLinkFewer, FewerKnown
  <2> QED BY <1>0, <1>1, <2>2, <2>3
<1>8. ASSUME NEW req \in Requests, CrossRequest(req) PROVE Known(net', pid', netLink')
  <2>1. /\ net' = net
        /\ netLink' = [s \in Slots |-> IF pid[s] = NoPid /\ pid'[s] # NoPid
                                      THEN NoCell ELSE netLink[s]]
    BY <1>8 DEF CrossRequest
  <2>2. \A s \in Slots : pid[s] # NoPid => netLink'[s] = netLink[s] /\ pid'[s] # NoPid
    BY <2>1 DEF NobodyDeleted
  <2> SUFFICES ASSUME NEW g \in Guids, net.link[g] # NoCell, net.player[net.link[g]] # NoSlot
               PROVE  /\ pid'[net.player[net.link[g]]] # NoPid
                      /\ netLink'[net.player[net.link[g]]] = net.link[g]
    BY <2>1 DEF Known
  <2>3. net.player[net.link[g]] \in Slots
    BY <1>0 DEF NetType
  <2> QED BY <2>2, <2>3 DEF Known
<1> QED BY <1>2, <1>3, <1>4, <1>5, <1>6, <1>7, <1>8, <1>9 DEF BattleNext, RecvMsg

\* Player::ResetNetLink: as long as no Player is deleted, no two open links serve one
\* player, whichever processes log in with it and whatever became of its former agent. A
\* timer that deletes a player leaves it in m_player of an agent; the next object in
\* its place then has two links.
THEOREM BattleOneLinkPerPlayer ==
  BattleSpec /\ [][NobodyDeleted]_battleVars => []OneLinkPerPlayer
<1>1. BattleInit => Known(net, pid, netLink)
  BY DEF BattleInit, Known
<1>2. BattleInv /\ Known(net, pid, netLink) /\ [BattleNext]_battleVars
        /\ [NobodyDeleted]_battleVars
      => Known(net, pid, netLink)'
  <2> SUFFICES ASSUME BattleInv, Known(net, pid, netLink), [BattleNext]_battleVars,
                      [NobodyDeleted]_battleVars
               PROVE  Known(net', pid', netLink')
    OBVIOUS
  <2>1. CASE NobodyDeleted
    BY <2>1, KnownStep
  <2>2. CASE UNCHANGED battleVars
    BY <2>2 DEF battleVars, vars, playerVars, Known
  <2> QED BY <2>1, <2>2
<1>3. BattleInv /\ Known(net, pid, netLink) => OneLinkPerPlayer
  <2> SUFFICES ASSUME BattleInv, Known(net, pid, netLink), NEW g \in Guids, NEW h \in Guids,
                      g # h, net.link[g] # NoCell, net.link[h] # NoCell,
                      net.player[net.link[g]] # NoSlot,
                      net.player[net.link[g]] = net.player[net.link[h]]
               PROVE  FALSE
    BY DEF OneLinkPerPlayer
  <2>1. net.link[g] = net.link[h]
    BY DEF Known
  <2> QED BY <2>1 DEF BattleInv, AgentsOnce
<1> QED BY <1>1, <1>2, <1>3, BattleInvariant, PTL DEF BattleSpec
=============================================================================
