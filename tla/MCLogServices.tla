--------------------------- MODULE MCLogServices ---------------------------
(* The log and the service lists, which share no state: a behaviour is one  *)
(* of one part, while the other stays as it began.                          *)
EXTENDS AsyncLog, Services

VARIABLE part

PartsInit ==
  /\ part \in {"log", "services"}
  /\ Init /\ ServiceInit
  /\ part = "log" => kind = "list"

PartsNext ==
  /\ UNCHANGED part
  /\ \/ part = "log" /\ Next /\ UNCHANGED serviceVars
     \/ part = "services" /\ ServiceNext /\ UNCHANGED vars

\* Of the fairness of FairSpec and ServiceFairness, what is about the part that
\* moves: nothing else can begin in the other.
PartsSpec ==
  /\ PartsInit /\ [][PartsNext]_<<part, vars, serviceVars>>
  /\ WF_vars(part = "log" /\ Writer) /\ WF_vars(part = "log" /\ Joined)
  /\ WF_serviceVars(part = "services" /\ \E e \in Elapses : Begin(e))
  /\ WF_serviceVars(End)
  /\ WF_serviceVars(CallNext) /\ WF_serviceVars(CallFirst) /\ WF_serviceVars(Return)
=============================================================================
