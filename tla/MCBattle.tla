------------------------------ MODULE MCBattle ------------------------------
(* Small instances of Battle for TLC. A behaviour is one of the links, of   *)
(* three processes and no rooms, or one of the rooms, in which one process  *)
(* logs in.                                                                 *)
EXTENDS Battle

CONSTANTS p1, p2, p3, s1, s2, s3, g1, g2, g3, c1, c2, c3

VARIABLE part

\* Player p1 has two processes, or is the only one with any.
TwoProcesses == (g1 :> p1) @@ (g2 :> p2) @@ (g3 :> p1)
OnlyFirst    == (g1 :> p1)

MCRequests == {{p1}, {p2}, {p1, p2}}

PartsInit == part \in {"links", "rooms"} /\ BattleInit

PartsNext ==
  /\ UNCHANGED part
  /\ BattleNext
  /\ \/ part = "links" /\ roomList' = {}
     \/ part = "rooms" /\ \A g \in Guids \ {g1} : net'.link[g] = NoCell

PartsSpec ==
  PartsInit /\ [][PartsNext]_<<part, battleVars>> /\ BattleFairness
=============================================================================
