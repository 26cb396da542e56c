--------------------------- MODULE RoomDirectory ---------------------------
(***************************************************************************)
(* What the battle rooms promise, without match-making: who is in which    *)
(* battle. Players enter and leave battles, a battle closes when nobody is *)
(* in it, and the id of a closed battle does not come back.                *)
(***************************************************************************)
EXTENDS Integers

CONSTANTS Players, MaxRooms

RoomIds == 1 .. MaxRooms
NoRoom  == 0

VARIABLES
  inRoom,  \* inRoom[p]: the battle of player p, NoRoom when in none
  open,    \* the battles that exist
  last     \* the id given to the last battle

vars == <<inRoom, open, last>>

Init ==
  /\ inRoom = [p \in Players |-> NoRoom]
  /\ open   = {}
  /\ last   = 0

\* A battle may be opened, and a group of idle players enter it or one that is
\* open.
OpenRoom == 
  /\ last < MaxRooms
  /\ last' = last + 1
  /\ open' = open \cup {last + 1}

Enter(S, r) ==
  /\ r \in open'
  /\ \A p \in S : inRoom[p] = NoRoom
  /\ inRoom' = [p \in Players |-> IF p \in S THEN r ELSE inRoom[p]]
  /\ OpenRoom \/ UNCHANGED <<open, last>>

\* At most one player leaves at a time; nobody is left in a battle that closes.
Leave(p) ==
  /\ inRoom' = [inRoom EXCEPT ![p] = NoRoom]
  /\ \E gone \in SUBSET open :
       /\ \A q \in Players : inRoom'[q] \notin gone
       /\ \A r, q \in gone : r = q
       /\ open' = open \ gone
  /\ UNCHANGED last

Next ==
  \/ \E S \in SUBSET Players, r \in RoomIds : Enter(S, r)
  \/ \E p \in Players : Leave(p)

Spec == Init /\ [][Next]_vars
=============================================================================
