--------------------------- MODULE ServLink_proofs ---------------------------
(***************************************************************************)
(* Theorems about the links of the iocp server, for any number of links,   *)
(* threads, clients and messages. They assume, like the runs, that         *)
(* AcceptEx does not fail: a link that keeps the handle of a socket it has *)
(* closed closes that of another link in its next maintenance, and then    *)
(* OwnPlayer does not hold.                                                *)
(***************************************************************************)
EXTENDS ServLink, FiniteSetTheorems, TLAPS

-----------------------------------------------------------------------------
(* The inductive invariant                                                 *)

Calls       == {"invalid", "shut", "report"}
ReadSteps   == {"accept", "connect", "packet", "bind", "handle", "post"}
WorkerSteps == {"idle", "write", "sent"} \cup ReadSteps \cup Calls
LogicSteps  == {"idle", "append"} \cup Calls
MakeSteps   == {"look", "create", "socket"}
RoundSteps  == MakeSteps \cup {"count", "close", "closesocket", "clear", "dead"}
WorkerRets  == {"idle", "packet", "handle", "post"}

Thread == [pc : WorkerSteps \cup LogicSteps \cup RoundSteps, link : Nat \ {0},
           ret : WorkerRets \cup {"next"}, n : 0 .. MaxUnits,
           who : Clients \cup {NoClient}]
Operations == [link : Links, io : {"read", "write"}, sock : Handles \cup {NoSocket},
               n : 0 .. MaxUnits, nth : {0}]

\* A thread on its way from received bytes to the next receive, calls included.
Reads(r) == r.pc \in ReadSteps \/ (r.pc \in Calls /\ r.ret \in WorkerRets \ {"idle"})
\* The assist thread maintains the links; those ahead it has not come to yet.
Rounds(a) == a.pc # "idle" /\ ~(a.pc \in Calls /\ a.ret = "idle")
Ahead(a, l) == Rounds(a) /\ (l > a.link \/ (l = a.link /\ a.pc \in MakeSteps))

Types ==
  /\ ServTypeOK
  /\ nAccept \in Int /\ nConnect \in Int
  /\ peer \in [Handles -> Clients \cup {NoClient}]
  /\ ops \subseteq Operations
  /\ th \in [Threads -> Thread]
  /\ \A t \in Workers :
       th[t].pc \in WorkerSteps /\ th[t].ret \in WorkerRets /\ th[t].link \in Links
  /\ th[Logic].pc \in LogicSteps /\ th[Logic].ret = "idle" /\ th[Logic].link \in Links
  /\ th[Assist].pc \in {"idle"} \cup RoundSteps \cup Calls
  /\ th[Assist].ret \in {"idle", "next"}
  /\ th[Assist].pc # "look" => th[Assist].link \in Links

\* A socket belongs to one link and is open, and so are those of operations.
OwnSockets ==
  /\ \A l \in Links : sock[l] # NoSocket => sock[l] \in open
  /\ \A l, m \in Links : sock[l] = sock[m] /\ sock[l] # NoSocket => l = m
  /\ \A h \in Handles : peer[h] # NoClient => h \in open
  /\ \A o \in ops : o.sock # NoSocket => o.sock = sock[o.link] /\ eState[o.link] # "dead"

\* Where the assist thread is in its round, and what it relies on there.
Assisting ==
  LET a == th[Assist]
      l == th[Assist].link
  IN  /\ Rounds(a) => l <= nLink + 1
      /\ Rounds(a) /\ a.pc # "look" => l <= nLink
      /\ a.pc \in {"create", "socket", "clear", "dead"} => sock[l] = NoSocket
      /\ a.pc = "socket" => eState[l] = "accepting"
      /\ a.pc \in {"close", "closesocket"} => sock[l] # NoSocket /\ bInvalid[l]
      /\ \A m \in Links : m > nLink => sock[m] = NoSocket

\* A link without a socket is dead and has no player, but while it is made or closed.
Resting ==
  \A l \in Links : sock[l] = NoSocket =>
    /\ eState[l] = "dead" \/ (th[Assist].link = l /\ th[Assist].pc \in {"clear", "dead", "socket"})
    /\ player[l] = NoClient \/ (th[Assist].link = l /\ th[Assist].pc \in {"clear", "dead", "report"})

\* A link that may be made in this round has no operation and no thread works on
\* it; nor has one that has failed to accept.
Unused(l) == \/ sock[l] = NoSocket /\ (l > nLink \/ Ahead(th[Assist], l))
             \/ sock[l] # NoSocket /\ eState[l] = "dead"
Quiet ==
  \A l \in Links : Unused(l) =>
    /\ \A o \in ops : o.link # l
    /\ \A t \in Workers \cup {Logic} : th[t].pc # "idle" => th[t].link # l

\* While a thread handles what was received its link has the client's socket, and
\* is neither closed nor about to be.
Handling ==
  \A t \in Workers : Reads(th[t]) =>
    LET l == th[t].link
    IN  /\ sock[l] # NoSocket
        /\ ~(bInvalid[l] /\ age[l] > 0)
        /\ ~(th[Assist].link = l /\ th[Assist].pc \in {"close", "closesocket"})
        /\ eState[l] = IF th[t].pc = "accept" THEN "accepting" ELSE "connected"
        /\ peer[sock[l]] = th[t].who /\ th[t].who # NoClient

\* A link is read by one operation or one thread.
OneReader ==
  /\ \A o, p \in ops : o.io = "read" /\ p.io = "read" /\ o.link = p.link => o = p
  /\ \A o \in ops, t \in Workers : o.io = "read" /\ Reads(th[t]) => o.link # th[t].link
  /\ \A t, u \in Workers : Reads(th[t]) /\ Reads(th[u]) /\ th[t].link = th[u].link => t = u

\* A thread whose send has been completed, until it has dropped what was sent.
Writing == {"write", "sent"}
Writes(t) == th[t].pc \in Writing

\* A link that may write is written by nobody, another by one operation or thread
\* at most.
OneWriter ==
  /\ \A o, p \in ops : o.io = "write" /\ p.io = "write" /\ o.link = p.link => o = p
  /\ \A o \in ops, t \in Workers : o.io = "write" /\ Writes(t) => o.link # th[t].link
  /\ \A t, u \in Workers : Writes(t) /\ Writes(u) /\ th[t].link = th[u].link => t = u
  /\ \A o \in ops : o.io = "write" => eState[o.link] # "accepting" /\ ~canWrite[o.link]
  /\ \A t \in Workers : Writes(t) =>
       eState[th[t].link] # "accepting" /\ ~canWrite[th[t].link]
  /\ At(Logic, "append") =>
       eState[th[Logic].link] # "accepting" /\ sendBuf[th[Logic].link] < MaxUnits

\* What is transmitted of the buffer's front is what a thread is about to drop.
Transmitted ==
  /\ \A t \in Workers : Writes(t) => wire[th[t].link] = th[t].n
  /\ \A l \in Links : eState[l] # "dead" /\ (\A t \in Workers : Writes(t) => th[t].link # l)
                        => wire[l] = 0

\* A link with a socket has the player at the other end, if any.
Owners ==
  \A l \in Links : sock[l] # NoSocket /\ player[l] # NoClient => peer[sock[l]] = player[l]

Core == Types /\ OwnSockets /\ Assisting /\ Resting /\ Quiet /\ Handling
ServInv == /\ Core /\ OneReader /\ OneWriter /\ Transmitted /\ Owners /\ CountersAgree

Assumed == ServLinkAssumption /\ ~AcceptExFails

-----------------------------------------------------------------------------
(* Steps of threads                                                        *)

LEMMA Kinds ==
  ASSUME ServLinkAssumption
  PROVE  /\ Workers \subseteq Threads /\ Assist \in Threads /\ Logic \in Threads
         /\ Assist \notin Workers /\ Logic \notin Workers /\ Assist # Logic
         /\ Links \subseteq Nat \ {0} /\ 1 \in Links
         /\ NoClient \notin Clients /\ NoSocket \notin Handles
         /\ MaxLink \in Nat /\ MaxUnits \in Nat /\ 0 \in 0 .. MaxUnits
BY DEF ServLinkAssumption, Threads, Links

LEMMA Goes ==
  ASSUME ServLinkAssumption, th \in [Threads -> Thread], NEW t \in Threads, NEW pc, Goto(t, pc)
  PROVE  /\ \A u \in Threads : u # t => th'[u] = th[u]
         /\ DOMAIN th' = Threads /\ th' = [u \in Threads |-> th'[u]]
         /\ pc = "idle" => th'[t] = Idle
         /\ pc = "next" => th'[t] = Busy("look", th[t].link + 1)
         /\ pc # "idle" /\ pc # "next" =>
              th'[t] = [pc |-> pc, link |-> th[t].link, ret |-> "idle", n |-> th[t].n,
                        who |-> th[t].who]
<1>1. th[t] = [pc |-> th[t].pc, link |-> th[t].link, ret |-> th[t].ret, n |-> th[t].n,
               who |-> th[t].who]
  BY DEF Thread
<1>2. CASE pc = "idle"
  BY <1>2 DEF Goto
<1>3. CASE pc = "next"
  BY <1>3 DEF Goto
<1>4. CASE pc # "idle" /\ pc # "next"
  BY <1>1, <1>4 DEF Goto
<1> QED BY <1>2, <1>3, <1>4

\* A call of OnInvalidMessage goes on, or returns to where it was made.
LEMMA CallGoes ==
  ASSUME ServLinkAssumption, Types, NEW t \in Threads, OnInvalidMessage(t)
  PROVE  /\ \A u \in Threads : u # t => th'[u] = th[u]
         /\ th' = [u \in Threads |-> th'[u]] /\ th[t].pc \in Calls
         /\ \/ \E pc \in Calls :
                 th'[t] = [pc |-> pc, link |-> th[t].link, ret |-> th[t].ret, n |-> th[t].n,
                           who |-> th[t].who]
            \/ th[t].ret = "idle" /\ th'[t] = Idle
            \/ th[t].ret = "next" /\ th'[t] = Busy("look", th[t].link + 1)
            \/ /\ th[t].ret \in WorkerRets \ {"idle"}
               /\ th'[t] = [pc |-> th[t].ret, link |-> th[t].link, ret |-> "idle",
                            n |-> th[t].n, who |-> th[t].who]
<1>1. th \in [Threads -> Thread] /\ th[t] \in Thread
  BY DEF Types
<1>2. th[t] = [pc |-> th[t].pc, link |-> th[t].link, ret |-> th[t].ret, n |-> th[t].n,
               who |-> th[t].who] /\ th[t].ret \in WorkerRets \cup {"next"}
  BY <1>1 DEF Thread
<1>3. th[t].ret = "idle" \/ th[t].ret = "next" \/ th[t].ret \in WorkerRets \ {"idle"}
  BY <1>2 DEF WorkerRets
<1>4. CASE Goto(t, th[t].ret) /\ th[t].pc \in Calls
  BY <1>1, <1>3, <1>4, Goes DEF WorkerRets
<1>5. CASE \E pc \in Calls : th' = [th EXCEPT ![t].pc = pc] /\ th[t].pc \in Calls
  BY <1>1, <1>2, <1>5
<1> QED BY <1>4, <1>5 DEF OnInvalidMessage, CheckInvalid, Invalid, ReportErrorMsg, At, Calls

\* What the steps of a worker keep that do not begin with a completion: r is its
\* record before such a step, s after it.
Keeps(r, s) == /\ s.pc \notin {"write", "accept"}
               /\ s.pc = "sent" => r.pc = "write" /\ s.n = r.n
               /\ s.pc # "idle" => r.pc # "idle" /\ s.link = r.link
               /\ Reads(s) => Reads(r) /\ s.who = r.who

WorkerGoes(t) == OnInvalidMessage(t) \/ StillConnected(t) \/ OnSend_DoneIO(t) \/ OnAccept(t)
                   \/ LinkOnConnect(t) \/ RecvMsg(t) \/ BindLinkAndPlayer(t) \/ HandleClientMsg(t) \/ PostRecv(t)

\* A thread that posts a send is idle then, or calls OnInvalidMessage.
LEMMA PostGoes ==
  ASSUME ServLinkAssumption, Types, NEW t \in Threads, NEW l \in Links, NEW n, PostSend(t, l, n)
  PROVE  /\ \A u \in Threads : u # t => th'[u] = th[u]
         /\ th' = [u \in Threads |-> th'[u]]
         /\ \/ th'[t] = Idle /\ sock[l] \in open /\ ops' = ops \cup {Op(l, "write", sock[l], n)}
            \/ th'[t] = Busy("invalid", l) /\ ops' = ops
<1>1. th \in [Threads -> Thread]
  BY DEF Types
<1> QED BY <1>1, Goes DEF PostSend

LEMMA WorkerKeeps ==
  ASSUME ServLinkAssumption, Types, NEW t \in Workers, WorkerGoes(t)
  PROVE  /\ \A u \in Threads : u # t => th'[u] = th[u]
         /\ th' = [u \in Threads |-> th'[u]]
         /\ th'[t] \in Thread /\ th'[t].pc \in WorkerSteps /\ th'[t].ret \in WorkerRets
         /\ th'[t].link \in Links /\ Keeps(th[t], th'[t])
         /\ At(t, "accept") => \/ ~Reads(th'[t])
                               \/ eState' = [eState EXCEPT ![th[t].link] = "connected"]
<1>0. /\ t \in Threads /\ th \in [Threads -> Thread] /\ th[t] \in Thread
      /\ th[t].pc \in WorkerSteps /\ th[t].ret \in WorkerRets /\ th[t].link \in Links
      /\ th[t] = [pc |-> th[t].pc, link |-> th[t].link, ret |-> th[t].ret, n |-> th[t].n,
                  who |-> th[t].who]
      /\ 1 \in Links /\ Links \subseteq Nat \ {0}
  BY Kinds DEF Types, Thread
<1> DEFINE Rec(pc, ret) == [pc |-> pc, link |-> th[t].link, ret |-> ret, n |-> th[t].n,
                            who |-> th[t].who]
<1>1. \A pc \in WorkerSteps, ret \in WorkerRets :
        /\ Rec(pc, ret) \in Thread /\ Rec(pc, ret).pc = pc /\ Rec(pc, ret).ret = ret
        /\ Rec(pc, ret).link = th[t].link /\ Rec(pc, ret).who = th[t].who
  BY <1>0 DEF Thread
<1>2. /\ Idle \in Thread /\ Idle.pc = "idle" /\ Idle.ret = "idle" /\ Idle.link = 1
      /\ ~Reads(Idle)
  BY Kinds DEF Idle, Busy, Thread, WorkerSteps, WorkerRets, Reads, ReadSteps, Calls
<1>3. /\ Busy("invalid", th[t].link) \in Thread
      /\ Busy("invalid", th[t].link).pc = "invalid" /\ Busy("invalid", th[t].link).ret = "idle"
      /\ Busy("invalid", th[t].link).link = th[t].link
      /\ ~Reads(Busy("invalid", th[t].link))
  BY <1>0, Kinds DEF Busy, Idle, Thread, WorkerSteps, WorkerRets, Reads, ReadSteps, Calls
<1> HIDE DEF Rec
<1>4. th'[t] = Idle => /\ Keeps(th[t], th'[t]) /\ ~Reads(th'[t])
                       /\ th'[t].pc \in WorkerSteps /\ th'[t].ret \in WorkerRets
  BY <1>2 DEF Keeps, WorkerSteps, WorkerRets
<1>5. th'[t] = Busy("invalid", th[t].link) =>
         /\ th[t].pc # "idle" => Keeps(th[t], th'[t])
         /\ ~Reads(th'[t]) /\ th'[t].pc \in WorkerSteps /\ th'[t].ret \in WorkerRets
  BY <1>3 DEF Keeps, WorkerSteps, WorkerRets, Calls
<1>6. \A pc \in WorkerSteps, ret \in WorkerRets :
        /\ th'[t] = Rec(pc, ret)
        /\ pc \notin {"write", "sent", "accept", "idle"} /\ th[t].pc # "idle"
        /\ (pc \in Calls /\ ret = "idle") \/ Reads(th[t])
        => Keeps(th[t], th'[t])
  BY <1>1 DEF Keeps, Reads, ReadSteps, Calls
<1>7. CASE OnInvalidMessage(t)
  <2>0. /\ \A u \in Threads : u # t => th'[u] = th[u]
        /\ th' = [u \in Threads |-> th'[u]]
        /\ th[t].pc \in Calls /\ th[t].pc # "idle" /\ ~At(t, "accept")
    BY <1>0, <1>7, CallGoes DEF Calls, At
  <2>1. CASE \E pc \in Calls : th'[t] = Rec(pc, th[t].ret)
    <3>1. PICK pc \in Calls : th'[t] = Rec(pc, th[t].ret)
      BY <2>1
    <3>2. pc \in WorkerSteps /\ pc \notin {"write", "sent", "accept", "idle"}
      BY DEF WorkerSteps, Calls
    <3>3. th[t].ret # "idle" => Reads(th[t])
      BY <1>0, <2>0 DEF Reads
    <3>4. Keeps(th[t], th'[t])
      BY <1>0, <1>6, <2>0, <3>1, <3>2, <3>3
    <3> QED BY <1>0, <1>1, <2>0, <3>1, <3>2, <3>4
  <2>2. CASE th[t].ret \in WorkerRets \ {"idle"} /\ th'[t] = Rec(th[t].ret, "idle")
    <3>1. /\ th[t].ret \in WorkerSteps /\ th[t].ret \notin {"write", "sent", "accept", "idle"}
          /\ "idle" \in WorkerRets /\ Reads(th[t])
      BY <2>0, <2>2 DEF WorkerSteps, WorkerRets, ReadSteps, Reads
    <3>2. Keeps(th[t], th'[t])
      BY <1>6, <2>0, <2>2, <3>1
    <3> QED BY <1>0, <1>1, <2>0, <2>2, <3>1, <3>2
  <2>3. CASE th'[t] = Idle
    BY <1>0, <1>2, <1>4, <1>7, <2>3, CallGoes DEF Calls, At
  <2> QED BY <1>0, <1>7, <2>1, <2>2, <2>3, CallGoes DEF WorkerRets, Rec
<1>8. CASE OnSend_DoneIO(t)
  <2>1. th[t].pc = "sent"
    BY <1>8 DEF OnSend_DoneIO, At
  <2>2. (\E n : PostSend(t, th[t].link, n)) \/ Goto(t, "idle")
    BY <1>8 DEF OnSend_DoneIO
  <2>3. /\ \A u \in Threads : u # t => th'[u] = th[u]
        /\ th' = [u \in Threads |-> th'[u]]
        /\ th'[t] = Idle \/ th'[t] = Busy("invalid", th[t].link)
    BY <1>0, <2>2, PostGoes, Goes
  <2> QED BY <1>0, <1>2, <1>3, <1>4, <1>5, <2>1, <2>3 DEF At
<1>9. CASE \E pc \in ReadSteps \ {"accept"} : Goto(t, pc) /\ Reads(th[t])
           /\ (At(t, "accept") => OnAccept(t) /\ pc = "connect")
  <2>1. PICK pc \in ReadSteps \ {"accept"} : Goto(t, pc) /\ Reads(th[t])
           /\ (At(t, "accept") => OnAccept(t) /\ pc = "connect")
    BY <1>9
  <2>2. /\ \A u \in Threads : u # t => th'[u] = th[u]
        /\ th' = [u \in Threads |-> th'[u]]
        /\ th'[t] = Rec(pc, "idle")
    BY <1>0, <2>1, Goes DEF Rec, ReadSteps
  <2>3. pc \in WorkerSteps /\ "idle" \in WorkerRets /\ pc \notin {"write", "sent", "accept", "idle"}
        /\ th[t].pc # "idle"
    BY <2>1 DEF WorkerSteps, WorkerRets, ReadSteps, Reads, Calls
  <2>4. At(t, "accept") => eState' = [eState EXCEPT ![th[t].link] = "connected"]
    <3> SUFFICES ASSUME At(t, "accept") PROVE eState' = [eState EXCEPT ![th[t].link] = "connected"]
      OBVIOUS
    <3>1. th'[t].pc = "connect" /\ th'[t] = Rec(pc, "idle")
      BY <1>1, <2>1, <2>2, <2>3
    <3>2. ~(th' = [th EXCEPT ![t].pc = "invalid", ![t].ret = "idle"])
      BY <1>0, <3>1
    <3> QED BY <2>1, <3>2 DEF OnAccept, Call
  <2> QED BY <1>0, <1>1, <1>6, <2>1, <2>2, <2>3, <2>4
<1>10. CASE \E ret \in WorkerRets : Call(t, ret) /\ Reads(th[t])
            /\ (At(t, "accept") => ret = "idle")
  <2>1. PICK ret \in WorkerRets : Call(t, ret) /\ Reads(th[t]) /\ (At(t, "accept") => ret = "idle")
    BY <1>10
  <2>2. /\ \A u \in Threads : u # t => th'[u] = th[u]
        /\ th' = [u \in Threads |-> th'[u]]
        /\ th'[t] = Rec("invalid", ret)
    BY <1>0, <2>1 DEF Rec, Call
  <2>3. "invalid" \in WorkerSteps /\ th[t].pc # "idle"
    BY <2>1 DEF WorkerSteps, ReadSteps, Reads, Calls
  <2>4. ret = "idle" => ~Reads(th'[t])
    BY <1>1, <2>2, <2>3 DEF Reads, ReadSteps, Calls
  <2> QED BY <1>0, <1>1, <1>6, <2>1, <2>2, <2>3, <2>4
<1>11. CASE OnAccept(t) \/ LinkOnConnect(t)
  BY <1>9, <1>10, <1>11 DEF OnAccept, LinkOnConnect, At, Reads, ReadSteps, WorkerRets
<1>12. CASE RecvMsg(t) \/ BindLinkAndPlayer(t) \/ HandleClientMsg(t)
  BY <1>9, <1>10, <1>12
     DEF RecvMsg, BindLinkAndPlayer, HandleClientMsg, At, Reads, ReadSteps, WorkerRets
<1>13. CASE PostRecv(t)
  <2>1. CASE Goto(t, "idle")
    <3>1. /\ \A u \in Threads : u # t => th'[u] = th[u]
          /\ th' = [u \in Threads |-> th'[u]]
          /\ th'[t] = Idle
      BY <1>0, <2>1, Goes
    <3> QED BY <1>0, <1>2, <1>4, <3>1
  <2>2. CASE Call(t, "idle")
    BY <1>10, <1>13, <2>2 DEF PostRecv, At, Reads, ReadSteps, WorkerRets
  <2> QED BY <1>13, <2>1, <2>2 DEF PostRecv
<1>14. CASE StillConnected(t)
  <2>1. th[t].pc = "write" /\ ~At(t, "accept")
    BY <1>14 DEF StillConnected, At
  <2>2. CASE th' = [th EXCEPT ![t].pc = "sent"]
    <3>1. /\ \A u \in Threads : u # t => th'[u] = th[u]
          /\ th' = [u \in Threads |-> th'[u]]
          /\ th'[t] = Rec("sent", th[t].ret)
      BY <1>0, <2>2 DEF Rec
    <3>2. "sent" \in WorkerSteps
      BY DEF WorkerSteps
    <3>3. th'[t].pc = "sent" /\ th'[t].link = th[t].link /\ th'[t].n = th[t].n
      BY <1>0, <1>1, <3>1, <3>2 DEF Rec
    <3>4. Keeps(th[t], th'[t])
      BY <2>1, <3>3 DEF Keeps, Reads, ReadSteps, Calls
    <3> QED BY <1>0, <1>1, <2>1, <3>1, <3>2, <3>4
  <2>3. CASE Goto(t, "idle")
    <3>1. /\ \A u \in Threads : u # t => th'[u] = th[u]
          /\ th' = [u \in Threads |-> th'[u]]
          /\ th'[t] = Idle
      BY <1>0, <2>3, Goes
    <3> QED BY <1>0, <1>2, <1>4, <2>1, <3>1
  <2> QED BY <1>14, <2>2, <2>3 DEF StillConnected
<1> QED BY <1>7, <1>8, <1>11, <1>12, <1>13, <1>14 DEF WorkerGoes

\* A completion begins at an idle worker with one of the operations. It goes on with
\* bytes that were sent, or that were received over a link that is in order, or it
\* makes the link invalid.
DoneBy(t, o, res, k, pc) ==
  /\ At(t, "idle")
  /\ res # "error" => o.sock # NoSocket /\ peer[o.sock] # NoClient
  /\ o.io = "write" => res # "zero"
  /\ ops' = ops \ {o}
  /\ wire' = [wire EXCEPT ![o.link] = @ + k]
  /\ th' = [th EXCEPT ![t] =
       IF pc = "idle" THEN Idle
       ELSE [pc |-> pc, link |-> o.link, ret |-> "idle", n |-> k,
             who |-> IF pc \in {"accept", "packet"} THEN peer[o.sock] ELSE NoClient]]
  /\ bInvalid' = [bInvalid EXCEPT ![o.link] = @ \/ res = "error"]
  /\ age' = [age EXCEPT ![o.link] = IF res = "error" THEN 0 ELSE @]
  /\ UNCHANGED <<nLink, eState, sock, canWrite, player, sendBuf, countVars, open, peer>>

LEMMA DoneGoes ==
  ASSUME ServLinkAssumption, Types, NEW t \in Workers, DoneIO(t)
  PROVE  /\ \A u \in Threads : u # t => th'[u] = th[u]
         /\ th' = [u \in Threads |-> th'[u]] /\ At(t, "idle")
         /\ \E o \in ops, k \in 0 .. MaxUnits :
              LET l == o.link
                  r == th'[t]
              IN  /\ ops' = ops \ {o} /\ wire' = [wire EXCEPT ![l] = @ + k]
                  /\ r \in Thread /\ r.ret = "idle" /\ r.link \in Links
                  /\ r.pc \in {"idle", "invalid", "write", "accept", "packet"}
                  /\ r.pc # "idle" => r.link = l
                  /\ k # 0 <=> r.pc = "write"
                  /\ r.pc = "write" => o.io = "write" /\ o.sock # NoSocket /\ r.n = k
                  /\ Reads(r) => /\ o.io = "read" /\ o.sock # NoSocket
                                 /\ ~bInvalid[l] /\ bInvalid' = bInvalid /\ age' = age
                                 /\ eState[l] # "dead"
                                 /\ r.pc = "accept" <=> eState[l] = "accepting"
                                 /\ r.who = peer[o.sock] /\ r.who # NoClient
                  /\ bInvalid' \in [Links -> BOOLEAN]
                  /\ bInvalid[l] => bInvalid'[l]
                  /\ \A m \in Links : m # l => bInvalid'[m] = bInvalid[m]
                  /\ \/ bInvalid' = bInvalid /\ age' = age
                     \/ age' = [age EXCEPT ![l] = 0]
<1>0. PICK o \in ops, res \in {"error", "zero", "data"} :
        \E k \in IF o.io = "write" /\ res = "data" THEN 1 .. o.n ELSE {0},
           pc \in AfterIO(o.link, o.io, res) : DoneBy(t, o, res, k, pc)
  BY Zenon DEF DoneIO, DoneBy
<1>1. PICK k \in IF o.io = "write" /\ res = "data" THEN 1 .. o.n ELSE {0},
           pc \in AfterIO(o.link, o.io, res) : DoneBy(t, o, res, k, pc)
  BY <1>0
<1>2. /\ At(t, "idle")
      /\ res # "error" => o.sock # NoSocket /\ peer[o.sock] # NoClient
      /\ o.io = "write" => res # "zero"
      /\ ops' = ops \ {o} /\ wire' = [wire EXCEPT ![o.link] = @ + k]
  BY <1>1 DEF DoneBy
<1>3. /\ t \in Threads /\ th \in [Threads -> Thread] /\ o \in Operations
      /\ o.link \in Links /\ o.link \in Nat \ {0} /\ o.n \in 0 .. MaxUnits
      /\ o.io \in {"read", "write"}
      /\ o.sock \in Handles \cup {NoSocket} /\ 1 \in Links /\ Links \subseteq Nat \ {0}
      /\ bInvalid \in [Links -> BOOLEAN] /\ age \in [Links -> 0 .. 2]
      /\ peer \in [Handles -> Clients \cup {NoClient}] /\ MaxUnits \in Nat
  BY Kinds DEF Types, ServTypeOK, Operations
<1>4. k \in 0 .. MaxUnits /\ (k # 0 => o.io = "write" /\ res = "data")
  BY <1>3
<1>5. /\ pc \in {"idle", "invalid", "write", "accept", "packet"}
      /\ pc = "write" <=> o.io = "write" /\ res = "data"
      /\ pc \in {"accept", "packet"} =>
           /\ res = "data" /\ o.io = "read" /\ ~bInvalid[o.link] /\ eState[o.link] # "dead"
           /\ pc = "accept" <=> eState[o.link] = "accepting"
  <2>1. CASE res = "error"
    BY <2>1 DEF AfterIO
  <2>2. CASE res = "zero"
    BY <2>2, <1>2 DEF AfterIO
  <2>3. CASE res = "data" /\ o.io = "write"
    BY <2>3 DEF AfterIO
  <2>4. CASE res = "data" /\ o.io = "read"
    BY <2>4 DEF AfterIO
  <2> QED BY <1>3, <2>1, <2>2, <2>3, <2>4
<1>6. k # 0 <=> pc = "write"
  BY <1>3, <1>4, <1>5
<1> DEFINE w == IF pc \in {"accept", "packet"} THEN peer[o.sock] ELSE NoClient
           r == IF pc = "idle" THEN Idle
                ELSE [pc |-> pc, link |-> o.link, ret |-> "idle", n |-> k, who |-> w]
<1>7. th' = [th EXCEPT ![t] = r]
  BY <1>1 DEF DoneBy
<1>8. w \in Clients \cup {NoClient}
  <2>1. pc \in {"accept", "packet"} => o.sock \in Handles
    BY <1>2, <1>3, <1>5
  <2> QED BY <1>3, <2>1
<1>9. /\ r \in Thread /\ r.pc = pc /\ r.ret = "idle" /\ r.link \in Links
      /\ pc # "idle" => r.link = o.link /\ r.n = k /\ r.who = w
  <2>1. CASE pc = "idle"
    BY <1>3, <2>1, Kinds DEF Idle, Busy, Thread, WorkerRets, WorkerSteps
  <2>2. CASE pc # "idle"
    BY <1>3, <1>4, <1>5, <1>8, <2>2
       DEF Thread, WorkerRets, WorkerSteps, ReadSteps, Calls
  <2> QED BY <2>1, <2>2
<1>10. Reads(r) => pc \in {"accept", "packet"}
  BY <1>5, <1>9 DEF Reads, ReadSteps, WorkerRets
<1> HIDE DEF r, w
<1>11. th'[t] = r /\ \A u \in Threads : u # t => th'[u] = th[u]
  BY <1>3, <1>7
<1>12. th' = [u \in Threads |-> th'[u]]
  BY <1>3, <1>7
<1>13. /\ bInvalid' \in [Links -> BOOLEAN]
       /\ bInvalid[o.link] => bInvalid'[o.link]
       /\ \A l \in Links : l # o.link => bInvalid'[l] = bInvalid[l]
       /\ res # "error" => bInvalid' = bInvalid
  BY <1>1, <1>3 DEF DoneBy
<1>14. /\ res = "error" => age' = [age EXCEPT ![o.link] = 0]
       /\ res # "error" => age' = age
  BY <1>1, <1>3 DEF DoneBy
<1>15. Reads(r) => /\ o.io = "read" /\ o.sock # NoSocket /\ ~bInvalid[o.link]
                   /\ bInvalid' = bInvalid /\ age' = age /\ eState[o.link] # "dead"
                   /\ r.pc = "accept" <=> eState[o.link] = "accepting"
                   /\ r.who = peer[o.sock] /\ r.who # NoClient
  <2> SUFFICES ASSUME Reads(r)
               PROVE  /\ o.io = "read" /\ o.sock # NoSocket /\ ~bInvalid[o.link]
                      /\ bInvalid' = bInvalid /\ age' = age /\ eState[o.link] # "dead"
                      /\ r.pc = "accept" <=> eState[o.link] = "accepting"
                      /\ r.who = peer[o.sock] /\ r.who # NoClient
    OBVIOUS
  <2>1. res = "data" /\ pc \in {"accept", "packet"}
    BY <1>5, <1>10
  <2>2. bInvalid' = bInvalid /\ age' = age
    BY <1>13, <1>14, <2>1
  <2>3. r.who = w /\ w = peer[o.sock] /\ peer[o.sock] # NoClient
    BY <1>2, <1>9, <2>1 DEF w
  <2> QED BY <1>2, <1>5, <1>9, <2>1, <2>2, <2>3
<1>16. r.pc = "write" => o.io = "write" /\ o.sock # NoSocket /\ r.n = k
  BY <1>2, <1>5, <1>9
<1> QED
  BY <1>2, <1>4, <1>5, <1>6, <1>9, <1>11, <1>12, <1>13, <1>14, <1>15, <1>16

\* The game's thread begins with a link that is connected; after that it works on
\* the same link until it is idle.
LEMMA LogicGoes ==
  ASSUME ServLinkAssumption, Types,
         (\E l \in Links : CheckLink(l)) \/ SendMsg \/ OnInvalidMessage(Logic)
  PROVE  /\ \A u \in Threads : u # Logic => th'[u] = th[u]
         /\ th' = [u \in Threads |-> th'[u]]
         /\ th'[Logic] \in Thread /\ th'[Logic].pc \in LogicSteps /\ th'[Logic].ret = "idle"
         /\ th'[Logic].link \in Links
         /\ \/ /\ \E l \in Links : CheckLink(l) /\ th'[Logic].link = l
               /\ th'[Logic].pc \in {"append", "invalid"} /\ th[Logic].pc = "idle"
            \/ /\ th'[Logic].pc \in {"idle"} \cup Calls
               /\ th'[Logic].pc # "idle" =>
                    th[Logic].pc # "idle" /\ th'[Logic].link = th[Logic].link
<1>0. /\ Logic \in Threads /\ th \in [Threads -> Thread] /\ th[Logic] \in Thread
      /\ th[Logic].pc \in LogicSteps /\ th[Logic].ret = "idle" /\ th[Logic].link \in Links
      /\ th[Logic].n \in 0 .. MaxUnits /\ th[Logic].who \in Clients \cup {NoClient}
      /\ 1 \in Links /\ Links \subseteq Nat \ {0}
  BY Kinds DEF Types, Thread
<1>1. Idle \in Thread /\ Idle.pc = "idle" /\ Idle.ret = "idle" /\ Idle.link = 1
  BY Kinds DEF Idle, Busy, Thread, WorkerSteps, WorkerRets
<1>2. \A pc \in {"append", "invalid"}, l \in Links :
        /\ Busy(pc, l) \in Thread /\ Busy(pc, l).pc = pc /\ Busy(pc, l).ret = "idle"
        /\ Busy(pc, l).link = l
  BY <1>0, Kinds DEF Busy, Idle, Thread, WorkerSteps, LogicSteps, WorkerRets, Calls
<1>3. \A pc \in Calls :
        LET r == [pc |-> pc, link |-> th[Logic].link, ret |-> th[Logic].ret, n |-> th[Logic].n,
                  who |-> th[Logic].who]
        IN r \in Thread /\ r.pc = pc /\ r.ret = "idle" /\ r.link = th[Logic].link
  BY <1>0 DEF Thread, WorkerSteps, WorkerRets
<1>4. CASE \E l \in Links : CheckLink(l)
  <2>1. PICK l \in Links : CheckLink(l)
    BY <1>4
  <2>2. PICK pc \in {"append", "invalid"} : th' = [th EXCEPT ![Logic] = Busy(pc, l)]
    BY <2>1 DEF CheckLink
  <2>3. /\ \A u \in Threads : u # Logic => th'[u] = th[u]
        /\ th' = [u \in Threads |-> th'[u]]
        /\ th[Logic].pc = "idle" /\ th'[Logic] = Busy(pc, l)
    BY <1>0, <2>1, <2>2 DEF CheckLink, At
  <2>4. pc \in LogicSteps
    BY DEF LogicSteps, Calls
  <2> QED BY <1>2, <2>1, <2>3, <2>4
<1>5. CASE SendMsg
  <2>1. th[Logic].pc = "append"
    BY <1>5 DEF SendMsg, At
  <2>2. (\E n : PostSend(Logic, th[Logic].link, n)) \/ Goto(Logic, "idle")
    BY <1>5 DEF SendMsg
  <2>3. /\ \A u \in Threads : u # Logic => th'[u] = th[u]
        /\ th' = [u \in Threads |-> th'[u]]
        /\ th'[Logic] = Idle \/ th'[Logic] = Busy("invalid", th[Logic].link)
    BY <1>0, <2>2, PostGoes, Goes
  <2> QED BY <1>0, <1>1, <1>2, <2>1, <2>3 DEF LogicSteps, Calls
<1>6. CASE OnInvalidMessage(Logic)
  <2>1. /\ \A u \in Threads : u # Logic => th'[u] = th[u]
        /\ th' = [u \in Threads |-> th'[u]] /\ th[Logic].pc \in Calls
        /\ \/ \E pc \in Calls :
                 th'[Logic] = [pc |-> pc, link |-> th[Logic].link, ret |-> th[Logic].ret,
                               n |-> th[Logic].n, who |-> th[Logic].who]
           \/ th'[Logic] = Idle
    BY <1>0, <1>6, CallGoes
  <2> QED BY <1>0, <1>1, <1>3, <2>1 DEF LogicSteps, Calls
<1> QED BY <1>4, <1>5, <1>6

\* The assist thread never goes back in its round; where it gets to a new point of
\* it, one action took it there.
AssistSteps == AssistStep \/ OnInvalidMessage(Assist) \/ \E l \in Links : ServerRun_SendIO(l)

LEMMA AssistGoes ==
  ASSUME ServLinkAssumption, Types, Assisting, AssistSteps
  PROVE  /\ \A u \in Threads : u # Assist => th'[u] = th[u]
         /\ th' = [u \in Threads |-> th'[u]]
         /\ th'[Assist] \in Thread /\ th'[Assist].pc \in {"idle"} \cup RoundSteps \cup Calls
         /\ th'[Assist].ret \in {"idle", "next"}
         /\ th'[Assist].pc # "look" => th'[Assist].link \in Links
         /\ Rounds(th'[Assist]) =>
              /\ Rounds(th[Assist])
              /\ \/ /\ th'[Assist].pc = "look" /\ th'[Assist].link = th[Assist].link + 1
                    /\ th[Assist].link <= nLink
                 \/ /\ th'[Assist].pc # "look" /\ th'[Assist].link = th[Assist].link
                    /\ th[Assist].link <= nLink'
         /\ \A l \in Links : Ahead(th'[Assist], l) => Ahead(th[Assist], l)
         /\ th'[Assist].pc = "create" =>
              (Maintain /\ sock[th[Assist].link] = NoSocket) \/ NewLink
         /\ th'[Assist].pc = "socket" => CreateLink
         /\ th'[Assist].pc = "close" =>
              /\ Maintain /\ sock[th[Assist].link] # NoSocket
              /\ bInvalid[th[Assist].link] /\ age[th[Assist].link] > 0
         /\ th'[Assist].pc = "closesocket" => CloseCount
         /\ th'[Assist].pc = "clear" => CloseSocket
         /\ th'[Assist].pc = "dead" => CloseClear
         /\ th'[Assist].pc = "count" => PostAccept
<1> DEFINE a == th[Assist]
           s == th'[Assist]
           Rec(pc, ret) == [pc |-> pc, link |-> a.link, ret |-> ret, n |-> a.n, who |-> a.who]
           Look == Busy("look", a.link + 1)
<1>0. /\ Assist \in Threads /\ th \in [Threads -> Thread] /\ a \in Thread
      /\ a.pc \in {"idle"} \cup RoundSteps \cup Calls /\ a.ret \in {"idle", "next"}
      /\ a.pc # "look" => a.link \in Links
      /\ a.link \in Nat \ {0} /\ nLink \in Links /\ Links \subseteq Nat \ {0} /\ 1 \in Links
      /\ a = Rec(a.pc, a.ret)
  BY Kinds DEF Types, ServTypeOK, Thread
<1>1. /\ Idle \in Thread /\ Idle.pc = "idle" /\ Idle.ret = "idle" /\ Idle.link = 1
      /\ ~Rounds(Idle)
  BY Kinds DEF Idle, Busy, Thread, WorkerSteps, WorkerRets, Rounds
<1>2. Look \in Thread /\ Look.pc = "look" /\ Look.ret = "idle" /\ Look.link = a.link + 1
  BY <1>0, Kinds DEF Busy, Thread, RoundSteps, MakeSteps, WorkerRets
<1>3. \A l \in Links :
        LET r == Busy("invalid", l)
        IN  r \in Thread /\ r.pc = "invalid" /\ r.ret = "idle" /\ r.link = l /\ ~Rounds(r)
  BY <1>0, Kinds DEF Busy, Thread, WorkerSteps, Calls, WorkerRets, Rounds
<1>4. \A pc \in RoundSteps \cup Calls, ret \in {"idle", "next"} :
        LET r == Rec(pc, ret)
        IN  r \in Thread /\ r.pc = pc /\ r.ret = ret /\ r.link = a.link
  BY <1>0 DEF Thread, WorkerSteps, WorkerRets
<1>5. (\A l \in Links : l \in Nat) /\ (a.link <= nLink => a.link \in Links)
  BY <1>0 DEF Links
<1> DEFINE Moved == /\ \A u \in Threads : u # Assist => th'[u] = th[u]
                    /\ th' = [u \in Threads |-> th'[u]]
           Typed == /\ s \in Thread /\ s.pc \in {"idle"} \cup RoundSteps \cup Calls
                    /\ s.ret \in {"idle", "next"}
                    /\ s.pc # "look" => s.link \in Links
           On == /\ Rounds(s) =>
                      /\ Rounds(a)
                      /\ \/ s.pc = "look" /\ s.link = a.link + 1 /\ a.link <= nLink
                         \/ s.pc # "look" /\ s.link = a.link /\ a.link <= nLink'
                 /\ \A l \in Links : Ahead(s, l) => Ahead(a, l)
           By == /\ s.pc = "create" => (Maintain /\ sock[a.link] = NoSocket) \/ NewLink
                 /\ s.pc = "socket" => CreateLink
                 /\ s.pc = "close" => /\ Maintain /\ sock[a.link] # NoSocket
                                      /\ bInvalid[a.link] /\ age[a.link] > 0
                 /\ s.pc = "closesocket" => CloseCount
                 /\ s.pc = "clear" => CloseSocket
                 /\ s.pc = "dead" => CloseClear
                 /\ s.pc = "count" => PostAccept
<1>6. \A pc : Goto(Assist, pc) =>
        /\ Moved
        /\ pc = "idle" => s = Idle
        /\ pc = "next" => s = Look
        /\ pc \in RoundSteps => s = Rec(pc, "idle")
  BY <1>0, Goes DEF RoundSteps, MakeSteps
<1>7. \A pc, ret : th' = [th EXCEPT ![Assist].pc = pc, ![Assist].ret = ret] =>
        Moved /\ s = Rec(pc, ret)
  BY <1>0
<1> SUFFICES Moved /\ Typed /\ On /\ By
  <2>1. Typed =>
           /\ th'[Assist] \in Thread /\ th'[Assist].pc \in {"idle"} \cup RoundSteps \cup Calls
           /\ th'[Assist].ret \in {"idle", "next"}
           /\ th'[Assist].pc # "look" => th'[Assist].link \in Links
    OBVIOUS
  <2>2. On =>
          /\ Rounds(th'[Assist]) =>
               /\ Rounds(th[Assist])
               /\ \/ /\ th'[Assist].pc = "look" /\ th'[Assist].link = th[Assist].link + 1
                     /\ th[Assist].link <= nLink
                  \/ /\ th'[Assist].pc # "look" /\ th'[Assist].link = th[Assist].link
                     /\ th[Assist].link <= nLink'
          /\ \A l \in Links : Ahead(th'[Assist], l) => Ahead(th[Assist], l)
    OBVIOUS
  <2>3. By =>
         /\ th'[Assist].pc = "create" =>
              (Maintain /\ sock[th[Assist].link] = NoSocket) \/ NewLink
         /\ th'[Assist].pc = "socket" => CreateLink
         /\ th'[Assist].pc = "close" =>
              /\ Maintain /\ sock[th[Assist].link] # NoSocket
              /\ bInvalid[th[Assist].link] /\ age[th[Assist].link] > 0
         /\ th'[Assist].pc = "closesocket" => CloseCount
         /\ th'[Assist].pc = "clear" => CloseSocket
         /\ th'[Assist].pc = "dead" => CloseClear
         /\ th'[Assist].pc = "count" => PostAccept
    OBVIOUS
  <2> HIDE DEF Typed, On, By
  <2> QED BY <2>1, <2>2, <2>3
<1> HIDE DEF a, s, Rec, Look
<1>8. s = Idle => Typed /\ On /\ By
  BY <1>0, <1>1 DEF Rounds, Ahead
<1>9. ASSUME NEW l \in Links, s = Busy("invalid", l) PROVE Typed /\ On /\ By
  BY <1>3, <1>9 DEF Rounds, Ahead, Calls
<1>10. ASSUME s = Look, Rounds(a), a.link <= nLink PROVE Typed /\ On /\ By
  <2>1. Typed /\ By
    BY <1>2, <1>10 DEF RoundSteps, MakeSteps
  <2>2. \A l \in Links : Ahead(s, l) => l > a.link
    BY <1>0, <1>2, <1>5, <1>10 DEF Ahead
  <2>3. On
    BY <1>2, <1>10, <2>2 DEF Ahead
  <2> QED BY <2>1, <2>3
<1>11. ASSUME NEW pc \in RoundSteps \cup Calls, NEW ret \in {"idle", "next"}, s = Rec(pc, ret),
              pc # "look", a.link \in Links, pc \in Calls => ret = "next", Rounds(a),
              a.link <= nLink', pc \in MakeSteps => a.pc \in MakeSteps
       PROVE  Typed /\ On
  <2>1. Typed
    BY <1>4, <1>11
  <2>2. \A l \in Links : Ahead(s, l) => Ahead(a, l)
    BY <1>0, <1>4, <1>5, <1>11 DEF Ahead
  <2>3. On
    BY <1>4, <1>11, <2>2
  <2> QED BY <2>1, <2>3
<1>12. Rounds(a) /\ a.pc # "look" => a.link \in Links /\ a.link <= nLink
  BY <1>0 DEF Assisting, a
<1>13. a.pc \in RoundSteps => Rounds(a)
  BY DEF Rounds, RoundSteps, MakeSteps, Calls
<1>14. \A pc : At(Assist, pc) <=> a.pc = pc
  BY DEF At, a
<1>15. ASSUME Goto(Assist, "next"), Rounds(a), a.link <= nLink PROVE Moved /\ Typed /\ On /\ By
  BY <1>6, <1>10, <1>15
<1>16. ASSUME NEW pc \in {"create", "socket", "count", "close", "closesocket", "clear", "dead"},
              Goto(Assist, pc), a.pc \in RoundSteps, a.link \in Links, a.link <= nLink',
              pc \in MakeSteps => a.pc \in MakeSteps, By
       PROVE  Moved /\ Typed /\ On
  BY <1>6, <1>11, <1>13, <1>16 DEF RoundSteps, MakeSteps, Calls
<1>17. ASSUME NEW pc \in Calls, Moved, s = Rec(pc, "next"), Rounds(a), a.link \in Links,
              a.link <= nLink'
       PROVE  Typed /\ On /\ By
  <2>1. pc \notin MakeSteps /\ pc # "look" /\ s.pc = pc
    BY <1>4, <1>17 DEF MakeSteps, Calls
  <2>2. By
    BY <2>1 DEF Calls
  <2> QED BY <1>11, <1>17, <2>1, <2>2
<1>20. CASE OnInvalidMessage(Assist)
  <2>1. /\ Moved /\ a.pc \in Calls
        /\ \/ \E pc \in Calls : s = Rec(pc, a.ret)
           \/ a.ret = "idle" /\ s = Idle
           \/ a.ret = "next" /\ s = Look
    BY <1>0, <1>20, CallGoes DEF a, s, Rec, Look, WorkerRets
  <2>2. a.ret = "next" => Rounds(a) /\ a.link \in Links /\ a.link <= nLink /\ nLink' = nLink
    BY <1>12, <1>20, <2>1
       DEF Rounds, Calls, OnInvalidMessage, CheckInvalid, Invalid, ReportErrorMsg, linkVars
  <2>3. CASE a.ret = "next"
    BY <1>10, <1>17, <2>1, <2>2, <2>3
  <2>4. CASE a.ret = "idle" /\ \E pc \in Calls : s = Rec(pc, "idle")
    <3>1. s.pc \in Calls /\ s.ret = "idle" /\ s \in Thread /\ s.link = a.link /\ a.link \in Links
      BY <1>0, <1>4, <2>1, <2>4 DEF Calls
    <3> QED BY <2>1, <3>1 DEF Rounds, Ahead, Calls
  <2> QED BY <1>0, <1>8, <2>1, <2>3, <2>4
<1>21. CASE \E l \in Links : ServerRun_SendIO(l)
  <2>1. PICK l \in Links : PostSend(Assist, l, sendBuf[l])
    BY <1>21 DEF ServerRun_SendIO
  <2>2. Moved /\ (s = Idle \/ s = Busy("invalid", l))
    BY <1>0, <2>1, PostGoes DEF s
  <2> QED BY <1>8, <1>9, <2>2
<1>22. CASE Maintain
  <2>1. a.pc = "look" /\ a.link <= nLink /\ a.link \in Links /\ Rounds(a) /\ nLink' = nLink
    <3>1. At(Assist, "look") /\ a.link <= nLink /\ UNCHANGED linkVars
      BY <1>22 DEF Maintain, a
    <3> QED BY <1>5, <1>13, <1>14, <3>1 DEF RoundSteps, MakeSteps, linkVars
  <2>2. CASE Goto(Assist, "next")
    BY <1>15, <2>1, <2>2
  <2>3. CASE Goto(Assist, "create") /\ sock[a.link] = NoSocket
    <3>1. s.pc = "create"
      BY <1>4, <1>6, <2>3 DEF RoundSteps, MakeSteps
    <3> QED BY <1>16, <1>22, <2>1, <2>3, <3>1 DEF RoundSteps, MakeSteps
  <2>4. CASE Goto(Assist, "close") /\ sock[a.link] # NoSocket /\ bInvalid[a.link] /\ age[a.link] > 0
    <3>1. s.pc = "close"
      BY <1>4, <1>6, <2>4 DEF RoundSteps
    <3> QED BY <1>16, <1>22, <2>1, <2>4, <3>1 DEF RoundSteps, MakeSteps
  <2>5. CASE Call(Assist, "next")
    <3>1. Moved /\ s = Rec("invalid", "next")
      BY <1>7, <2>5 DEF Call
    <3> QED BY <1>17, <2>1, <3>1 DEF Calls
  <2> QED BY <1>22, <2>2, <2>3, <2>4, <2>5 DEF Maintain, a
<1>23. CASE NewLink
  <2>1. a.pc = "look" /\ a.link > nLink /\ Rounds(a) /\ a.link <= nLink + 1
    BY <1>0, <1>13, <1>14, <1>23 DEF NewLink, Assisting, a, RoundSteps, MakeSteps
  <2>2. CASE Goto(Assist, "idle")
    BY <1>6, <1>8, <2>2
  <2>3. CASE nLink < MaxLink /\ nLink' = nLink + 1 /\ Goto(Assist, "create")
    <3>1. a.link \in Links /\ a.link <= nLink'
      BY <1>0, <2>1, <2>3, Kinds DEF Links
    <3>2. s.pc = "create"
      BY <1>4, <1>6, <2>3 DEF RoundSteps, MakeSteps
    <3> QED BY <1>16, <1>23, <2>1, <2>3, <3>1, <3>2 DEF RoundSteps, MakeSteps
  <2> QED BY <1>23, <2>2, <2>3 DEF NewLink
<1>24. CASE CreateLink
  <2>1. a.pc = "create" /\ Goto(Assist, "socket") /\ nLink' = nLink
    BY <1>14, <1>24 DEF CreateLink
  <2>2. s.pc = "socket"
    BY <1>4, <1>6, <2>1 DEF RoundSteps, MakeSteps
  <2> QED BY <1>12, <1>13, <1>16, <1>24, <2>1, <2>2 DEF RoundSteps, MakeSteps
<1>25. CASE PostAccept
  <2>1. a.pc = "socket" /\ Goto(Assist, "count") /\ nLink' = nLink
    BY <1>14, <1>25 DEF PostAccept
  <2>2. s.pc = "count"
    BY <1>4, <1>6, <2>1 DEF RoundSteps
  <2> QED BY <1>12, <1>13, <1>16, <1>25, <2>1, <2>2 DEF RoundSteps, MakeSteps
<1>26. CASE AcceptFails \/ LinkOnCreate
  <2>1. a.pc \in {"socket", "count"} /\ Goto(Assist, "next")
    BY <1>14, <1>26 DEF AcceptFails, LinkOnCreate
  <2> QED BY <1>12, <1>13, <1>15, <2>1 DEF RoundSteps, MakeSteps
<1>27. CASE CloseCount
  <2>1. a.pc = "close" /\ Goto(Assist, "closesocket") /\ nLink' = nLink
    BY <1>14, <1>27 DEF CloseCount, linkVars
  <2>2. s.pc = "closesocket"
    BY <1>4, <1>6, <2>1 DEF RoundSteps
  <2> QED BY <1>12, <1>13, <1>16, <1>27, <2>1, <2>2 DEF RoundSteps, MakeSteps
<1>28. CASE CloseSocket
  <2>1. a.pc = "closesocket" /\ Goto(Assist, "clear") /\ nLink' = nLink
    BY <1>14, <1>28 DEF CloseSocket
  <2>2. s.pc = "clear"
    BY <1>4, <1>6, <2>1 DEF RoundSteps
  <2> QED BY <1>12, <1>13, <1>16, <1>28, <2>1, <2>2 DEF RoundSteps, MakeSteps
<1>29. CASE CloseDead
  <2>1. a.pc = "dead" /\ nLink' = nLink /\ Moved /\ s = Rec("report", "next")
    BY <1>7, <1>14, <1>29 DEF CloseDead
  <2> QED BY <1>12, <1>13, <1>17, <2>1 DEF RoundSteps, Calls
<1>30. CASE CloseClear
  <2>1. a.pc = "clear" /\ Goto(Assist, "dead") /\ nLink' = nLink
    BY <1>14, <1>30 DEF CloseClear
  <2>2. s.pc = "dead"
    BY <1>4, <1>6, <2>1 DEF RoundSteps
  <2> QED BY <1>12, <1>13, <1>16, <1>30, <2>1, <2>2 DEF RoundSteps, MakeSteps
<1> QED
  BY <1>20, <1>21, <1>22, <1>23, <1>24, <1>25, <1>26, <1>27, <1>28, <1>29, <1>30
     DEF AssistSteps, AssistStep

-----------------------------------------------------------------------------
(* Steps that give the system an operation                                 *)

LEMMA NewOp ==
  ASSUME NEW l, NEW io, NEW h, NEW n, \A o \in ops : ~(o.link = l /\ o.io = io)
  PROVE  Op(l, io, h, n) = [link |-> l, io |-> io, sock |-> h, n |-> n, nth |-> 0]
<1>1. {o \in ops : o.link = l /\ o.io = io} = {}
  OBVIOUS
<1> QED BY <1>1, FS_EmptySet DEF Op

Sending == (\E t \in Workers : OnSend_DoneIO(t)) \/ SendMsg \/ \E l \in Links : ServerRun_SendIO(l)

\* What t's step of sending for l does. Only who drops what was sent, or finds that the
\* link may write, gives the system an operation, and only for a connected link.
Sends(t, l) ==
  /\ UNCHANGED <<nLink, eState, sock, bInvalid, player, age, countVars, open, peer>>
  /\ t \in Workers => Writes(t)
  /\ t \in Workers \cup {Logic} => th[t].pc # "idle" /\ th[t].link = l
  /\ t = Assist => eState[l] = "connected" /\ l <= nLink
  /\ eState[l] # "accepting"
  /\ canWrite' \in [Links -> BOOLEAN] /\ sendBuf' \in [Links -> 0 .. MaxUnits]
  /\ wire' \in [Links -> 0 .. MaxUnits]
  /\ \A m \in Links : m # l =>
       canWrite'[m] = canWrite[m] /\ sendBuf'[m] = sendBuf[m] /\ wire'[m] = wire[m]
  /\ t # Logic => sendBuf'[l] <= sendBuf[l]
  /\ wire'[l] = IF t \in Workers THEN 0 ELSE wire[l]
  /\ canWrite'[l] => canWrite[l] \/ t \in Workers
  /\ \/ ops' = ops
     \/ /\ sock[l] \in open /\ eState[l] = "connected" /\ ~canWrite'[l]
        /\ t \in Workers \/ canWrite[l]
        /\ \E n \in 0 .. MaxUnits :
             ops' = ops \cup {[link |-> l, io |-> "write", sock |-> sock[l], n |-> n,
                               nth |-> 0]}

LEMMA SendSteps ==
  ASSUME ServLinkAssumption, Core, OneWriter, Transmitted, Sending
  PROVE  \E t \in Threads, l \in Links :
           /\ Sends(t, l)
           /\ t = Assist => \E m \in Links : ServerRun_SendIO(m)
           /\ t = Logic => SendMsg
           /\ t \in Workers => OnSend_DoneIO(t)
<1>0. /\ Types /\ OwnSockets /\ Quiet /\ nLink \in Links
      /\ canWrite \in [Links -> BOOLEAN] /\ sendBuf \in [Links -> 0 .. MaxUnits]
      /\ wire \in [Links -> 0 .. MaxUnits]
      /\ eState \in [Links -> {"dead", "accepting", "connected"}]
      /\ open \subseteq Handles /\ th \in [Threads -> Thread] /\ MaxUnits \in Nat
      /\ Workers \subseteq Threads /\ Assist \in Threads /\ Logic \in Threads
      /\ Assist \notin Workers /\ Logic \notin Workers /\ Assist # Logic /\ NoSocket \notin Handles
  BY Kinds DEF Core, Types, ServTypeOK
\* The common part: t posts n messages of l.
<1>1. ASSUME NEW t \in Threads, NEW l \in Links, NEW n \in 0 .. MaxUnits, PostSend(t, l, n),
             UNCHANGED <<nLink, eState, sock, bInvalid, player, age, countVars, open, peer>>,
             IF t \in Workers THEN Writes(t) ELSE canWrite[l],
             t \in Workers \cup {Logic} => th[t].pc # "idle" /\ th[t].link = l,
             t = Assist => eState[l] = "connected" /\ l <= nLink,
             eState[l] # "accepting", t # Logic => n <= sendBuf[l],
             wire' \in [Links -> 0 .. MaxUnits], \A m \in Links : m # l => wire'[m] = wire[m],
             wire'[l] = IF t \in Workers THEN 0 ELSE wire[l]
      PROVE  Sends(t, l)
  <2>1. /\ canWrite' \in [Links -> BOOLEAN] /\ sendBuf' \in [Links -> 0 .. MaxUnits]
        /\ ~canWrite'[l] /\ sendBuf'[l] = n
        /\ \A m \in Links : m # l => canWrite'[m] = canWrite[m] /\ sendBuf'[m] = sendBuf[m]
    BY <1>0, <1>1 DEF PostSend
  <2>2. \A o \in ops : ~(o.link = l /\ o.io = "write")
    BY <1>1 DEF OneWriter
  <2>3. sock[l] \in open => eState[l] = "connected"
    <3>1. sock[l] \in open => sock[l] # NoSocket
      BY <1>0
    <3>2. t = Assist \/ t \in Workers \cup {Logic}
      BY DEF Threads
    <3>3. eState[l] = "dead" /\ sock[l] # NoSocket => t = Assist
      BY <1>0, <1>1, <3>2 DEF Quiet, Unused
    <3> QED BY <1>0, <1>1, <3>1, <3>3
  <2>4. \/ ops' = ops
        \/ sock[l] \in open /\ ops' = ops \cup {Op(l, "write", sock[l], n)}
    BY <1>0, <1>1, PostGoes
  <2>5. Op(l, "write", sock[l], n)
          = [link |-> l, io |-> "write", sock |-> sock[l], n |-> n, nth |-> 0]
    BY <2>2, NewOp
  <2> QED BY <1>1, <2>1, <2>3, <2>4, <2>5 DEF Sends
<1>2. ASSUME NEW t \in Workers, OnSend_DoneIO(t) PROVE \E l \in Links : Sends(t, l)
  <2> DEFINE l == th[t].link
             rest == IF th[t].n < sendBuf[l] THEN sendBuf[l] - th[t].n ELSE 0
  <2>1. /\ Writes(t) /\ l \in Links /\ th[t].n \in 0 .. MaxUnits
        /\ UNCHANGED <<nLink, eState, sock, bInvalid, player, age, countVars, open, peer>>
        /\ sendBuf[l] \in 0 .. MaxUnits /\ th[t].pc # "idle" /\ t \in Threads
        /\ eState[l] # "accepting" /\ wire[l] = th[t].n
    <3>1. Writes(t) /\ th[t].pc # "idle"
      BY <1>2 DEF OnSend_DoneIO, At, Writes, Writing
    <3> QED BY <1>0, <1>2, <3>1 DEF OnSend_DoneIO, Types, Thread, OneWriter, Transmitted
  <2>2. rest \in 0 .. MaxUnits /\ rest <= sendBuf[l]
    BY <1>0, <2>1
  <2>3. wire' = [wire EXCEPT ![l] = @ - th[t].n]
    BY <1>2 DEF OnSend_DoneIO
  <2>4. /\ wire'[l] = 0 /\ \A m \in Links : m # l => wire'[m] = wire[m]
        /\ wire' \in [Links -> 0 .. MaxUnits]
    BY <1>0, <2>1, <2>3
  <2>5. CASE rest > 0 /\ PostSend(t, l, rest)
    BY <1>0, <1>1, <2>1, <2>2, <2>4, <2>5
  <2>6. CASE /\ canWrite' = [canWrite EXCEPT ![l] = TRUE] /\ ops' = ops
             /\ sendBuf' = [sendBuf EXCEPT ![l] = 0]
    <3>1. /\ canWrite' \in [Links -> BOOLEAN] /\ sendBuf' \in [Links -> 0 .. MaxUnits]
          /\ sendBuf'[l] = 0
          /\ \A m \in Links : m # l => canWrite'[m] = canWrite[m] /\ sendBuf'[m] = sendBuf[m]
      BY <1>0, <2>1, <2>6
    <3>2. t # Logic /\ t # Assist /\ sendBuf'[l] <= sendBuf[l]
      BY <1>0, <2>1, <3>1
    <3> QED BY <2>1, <2>4, <2>6, <3>1, <3>2 DEF Sends
  <2> QED BY <1>2, <2>1, <2>5, <2>6 DEF OnSend_DoneIO
<1>3. ASSUME SendMsg PROVE \E l \in Links : Sends(Logic, l)
  <2> DEFINE l == th[Logic].link
             n == sendBuf[l] + 1
  <2>1. /\ At(Logic, "append") /\ l \in Links
        /\ UNCHANGED <<nLink, eState, sock, bInvalid, player, age, countVars, open, peer, wire>>
        /\ sendBuf[l] \in 0 .. MaxUnits /\ th[Logic].pc # "idle"
        /\ eState[l] # "accepting" /\ sendBuf[l] < MaxUnits
    BY <1>0, <1>3 DEF SendMsg, Types, At, OneWriter
  <2>2. n \in 0 .. MaxUnits
    BY <1>0, <2>1
  <2>3. CASE canWrite[l] /\ PostSend(Logic, l, n)
    BY <1>0, <1>1, <2>1, <2>2, <2>3
  <2>4. CASE sendBuf' = [sendBuf EXCEPT ![l] = n] /\ UNCHANGED <<canWrite, ops>>
    <3>1. /\ sendBuf' \in [Links -> 0 .. MaxUnits]
          /\ \A m \in Links : m # l => sendBuf'[m] = sendBuf[m]
      BY <1>0, <2>1, <2>2, <2>4
    <3> QED BY <1>0, <2>1, <2>4, <3>1 DEF Sends
  <2> QED BY <1>3, <2>1, <2>3, <2>4 DEF SendMsg
<1>4. ASSUME NEW l \in Links, ServerRun_SendIO(l) PROVE Sends(Assist, l)
  <2>1. /\ l <= nLink /\ eState[l] = "connected" /\ canWrite[l]
        /\ UNCHANGED <<nLink, eState, sock, bInvalid, player, age, countVars, open, peer, wire>>
        /\ PostSend(Assist, l, sendBuf[l]) /\ sendBuf[l] \in 0 .. MaxUnits
    BY <1>0, <1>4 DEF ServerRun_SendIO
  <2>2. sendBuf[l] <= sendBuf[l]
    BY <1>0, <2>1
  <2> QED BY <1>0, <1>1, <2>1, <2>2
<1> QED BY <1>0, <1>2, <1>3, <1>4 DEF Sending

\* A receive is posted by the one thread that reads the link.
LEMMA ReceiveSteps ==
  ASSUME ServLinkAssumption, Core, OneReader, NEW t \in Workers, PostRecv(t)
  PROVE  LET l == th[t].link
         IN  /\ l \in Links /\ Reads(th[t]) /\ ~Reads(th'[t])
             /\ UNCHANGED <<linkVars, countVars, open, peer, wire>>
             /\ eState[l] = "connected"
             /\ \/ ops' = ops
                \/ /\ sock[l] \in open
                   /\ ops' = ops \cup {[link |-> l, io |-> "read", sock |-> sock[l], n |-> 0,
                                        nth |-> 0]}
<1> DEFINE l == th[t].link
<1>1. /\ At(t, "post") /\ Reads(th[t]) /\ l \in Links /\ Types /\ t \in Threads
      /\ UNCHANGED <<linkVars, countVars, open, peer, wire>>
      /\ th \in [Threads -> Thread]
  BY Kinds DEF PostRecv, Core, Types, At, Reads, ReadSteps
<1>2. eState[l] = "connected"
  BY <1>1 DEF Core, Handling, At
<1>3. \A o \in ops : ~(o.link = l /\ o.io = "read")
  BY <1>1 DEF OneReader
<1>4. Op(l, "read", sock[l], 0) = [link |-> l, io |-> "read", sock |-> sock[l], n |-> 0, nth |-> 0]
  BY <1>3, NewOp
<1>5. ~Reads(th'[t])
  <2>1. CASE Goto(t, "idle")
    <3>1. th'[t] = Idle
      BY <1>1, <2>1, Goes
    <3> QED BY <3>1 DEF Idle, Busy, Reads, ReadSteps, Calls
  <2>2. CASE Call(t, "idle")
    <3>1. th'[t].pc = "invalid" /\ th'[t].ret = "idle"
      BY <1>1, <2>2 DEF Call, Thread
    <3> QED BY <3>1 DEF Reads, ReadSteps
  <2> QED BY <2>1, <2>2 DEF PostRecv
<1> QED BY <1>1, <1>2, <1>4, <1>5 DEF PostRecv

-----------------------------------------------------------------------------
(* Types                                                                   *)

LogicActs == (\E l \in Links : CheckLink(l)) \/ SendMsg \/ OnInvalidMessage(Logic)
Steps     == ServNext \/ UNCHANGED slVars

LEMMA StepKinds ==
  ASSUME ServLinkAssumption, Steps
  PROVE  \/ \E t \in Workers : WorkerGoes(t)
         \/ \E t \in Workers : DoneIO(t)
         \/ LogicActs
         \/ AssistSteps
         \/ Second
         \/ \E c \in Clients : Connect(c)
         \/ UNCHANGED slVars
BY DEF Steps, ServNext, Complete, WorkerGoes, LogicActs, AssistSteps, Threads

ThreadTypes ==
  /\ th \in [Threads -> Thread]
  /\ \A t \in Workers :
       th[t].pc \in WorkerSteps /\ th[t].ret \in WorkerRets /\ th[t].link \in Links
  /\ th[Logic].pc \in LogicSteps /\ th[Logic].ret = "idle" /\ th[Logic].link \in Links
  /\ th[Assist].pc \in {"idle"} \cup RoundSteps \cup Calls
  /\ th[Assist].ret \in {"idle", "next"}
  /\ th[Assist].pc # "look" => th[Assist].link \in Links

LEMMA ThreadTypesStep ==
  ASSUME ServLinkAssumption, Types, Assisting, Steps
  PROVE  ThreadTypes'
<1>0. ThreadTypes /\ Types
  BY DEF Types, ThreadTypes
<1>1. /\ Workers \subseteq Threads /\ Assist \in Threads /\ Logic \in Threads
      /\ Assist \notin Workers /\ Logic \notin Workers /\ Assist # Logic
      /\ th \in [Threads -> Thread]
  BY <1>0, Kinds DEF ThreadTypes
<1>2. ASSUME NEW t \in Workers, WorkerGoes(t) PROVE ThreadTypes'
  <2>1. /\ \A u \in Threads : u # t => th'[u] = th[u]
        /\ th' = [u \in Threads |-> th'[u]]
        /\ th'[t] \in Thread /\ th'[t].pc \in WorkerSteps /\ th'[t].ret \in WorkerRets
        /\ th'[t].link \in Links
    BY <1>0, <1>2, WorkerKeeps
  <2> QED BY <1>0, <1>1, <2>1 DEF ThreadTypes
<1>3. ASSUME NEW t \in Workers, DoneIO(t) PROVE ThreadTypes'
  <2>1. /\ \A u \in Threads : u # t => th'[u] = th[u]
        /\ th' = [u \in Threads |-> th'[u]]
        /\ th'[t] \in Thread /\ th'[t].ret = "idle" /\ th'[t].link \in Links
        /\ th'[t].pc \in {"idle", "invalid", "write", "accept", "packet"}
    BY <1>0, <1>3, DoneGoes
  <2>2. th'[t].pc \in WorkerSteps /\ th'[t].ret \in WorkerRets
    BY <2>1 DEF WorkerSteps, WorkerRets, ReadSteps, Calls
  <2> QED BY <1>0, <1>1, <2>1, <2>2 DEF ThreadTypes
<1>4. ASSUME LogicActs PROVE ThreadTypes'
  <2>1. /\ \A u \in Threads : u # Logic => th'[u] = th[u]
        /\ th' = [u \in Threads |-> th'[u]]
        /\ th'[Logic] \in Thread /\ th'[Logic].pc \in LogicSteps /\ th'[Logic].ret = "idle"
        /\ th'[Logic].link \in Links
    BY <1>0, <1>4, LogicGoes DEF LogicActs
  <2> QED BY <1>0, <1>1, <2>1 DEF ThreadTypes
<1>5. ASSUME AssistSteps PROVE ThreadTypes'
  <2>1. /\ \A u \in Threads : u # Assist => th'[u] = th[u]
        /\ th' = [u \in Threads |-> th'[u]]
        /\ th'[Assist] \in Thread /\ th'[Assist].pc \in {"idle"} \cup RoundSteps \cup Calls
        /\ th'[Assist].ret \in {"idle", "next"}
        /\ th'[Assist].pc # "look" => th'[Assist].link \in Links
    BY <1>0, <1>5, AssistGoes
  <2> QED BY <1>0, <1>1, <2>1 DEF ThreadTypes
<1>6. ASSUME Second PROVE ThreadTypes'
  <2>1. th' = [th EXCEPT ![Assist] = Busy("look", 1)]
    BY <1>6 DEF Second
  <2>2. /\ Busy("look", 1) \in Thread /\ Busy("look", 1).pc = "look"
        /\ Busy("look", 1).ret = "idle"
    BY Kinds DEF Busy, Thread, RoundSteps, MakeSteps, WorkerRets
  <2> QED BY <1>0, <1>1, <2>1, <2>2 DEF ThreadTypes, RoundSteps, MakeSteps
<1>7. CASE th' = th
  BY <1>0, <1>7 DEF ThreadTypes
<1> QED BY <1>2, <1>3, <1>4, <1>5, <1>6, <1>7, StepKinds DEF Connect, slVars

LEMMA OpsTypesStep ==
  ASSUME ServLinkAssumption, Core, OneReader, OneWriter, Transmitted, Steps
  PROVE  ops' \subseteq Operations
<1>0. /\ ops \subseteq Operations /\ sock \in [Links -> Handles \cup {NoSocket}]
      /\ MaxUnits \in Nat /\ 0 \in 0 .. MaxUnits /\ Types
  BY Kinds DEF Core, Types, ServTypeOK
<1>1. \A l \in Links, io \in {"read", "write"}, h \in Handles \cup {NoSocket}, n \in 0 .. MaxUnits :
        [link |-> l, io |-> io, sock |-> h, n |-> n, nth |-> 0] \in Operations
  BY DEF Operations
<1>2. CASE Sending
  <2>1. PICK t \in Threads, l \in Links : Sends(t, l)
    BY <1>2, SendSteps
  <2> QED BY <1>0, <1>1, <2>1 DEF Sends
<1>3. ASSUME NEW t \in Workers, PostRecv(t) PROVE ops' \subseteq Operations
  BY <1>0, <1>1, <1>3, ReceiveSteps
<1>4. CASE PostAccept
  <2> DEFINE l == th[Assist].link
  <2>1. /\ At(Assist, "socket") /\ l \in Links
    BY <1>0, <1>4 DEF PostAccept, Types, At
  <2>2. \A o \in ops : ~(o.link = l /\ o.io = "read")
    BY <2>1 DEF Core, Quiet, Unused, Assisting, Ahead, Rounds, At, MakeSteps, Calls
  <2>3. PICK h \in Handles : ops' = ops \cup {Op(l, "read", h, 0)}
    BY <1>4 DEF PostAccept
  <2>4. Op(l, "read", h, 0) = [link |-> l, io |-> "read", sock |-> h, n |-> 0, nth |-> 0]
    BY <2>2, NewOp
  <2> QED BY <1>0, <1>1, <2>1, <2>3, <2>4
<1>5. CASE CloseSocket
  <2>1. PICK h : ops' = {IF o.sock = h THEN [o EXCEPT !.sock = NoSocket] ELSE o : o \in ops}
    BY <1>5 DEF CloseSocket
  <2>2. \A o \in Operations : [o EXCEPT !.sock = NoSocket] \in Operations
    BY DEF Operations
  <2> QED BY <1>0, <2>1, <2>2
<1>6. ASSUME NEW t \in Workers, DoneIO(t) PROVE ops' \subseteq Operations
  BY <1>0, <1>6, DoneGoes
<1>7. CASE ops' = ops
  BY <1>0, <1>7
<1>8. ASSUME NEW t \in Threads, OnInvalidMessage(t) PROVE ops' = ops
  BY <1>8 DEF OnInvalidMessage, CheckInvalid, Invalid, ReportErrorMsg, netVars
<1>9. ASSUME NEW t \in Workers,
             StillConnected(t) \/ OnAccept(t) \/ LinkOnConnect(t) \/ RecvMsg(t)
               \/ BindLinkAndPlayer(t) \/ HandleClientMsg(t)
      PROVE  ops' = ops
  BY <1>9 DEF StillConnected, OnAccept, LinkOnConnect, RecvMsg, BindLinkAndPlayer, HandleClientMsg, netVars
<1>10. ASSUME NEW l \in Links, CheckLink(l) PROVE ops' = ops
  BY <1>10 DEF CheckLink, netVars
<1>11. ASSUME Maintain \/ NewLink \/ CreateLink \/ AcceptFails \/ LinkOnCreate \/ CloseCount
                \/ CloseClear \/ CloseDead \/ Second \/ (\E c \in Clients : Connect(c)) \/ UNCHANGED slVars
       PROVE  ops' = ops
  BY <1>11 DEF Maintain, NewLink, CreateLink, AcceptFails, LinkOnCreate, CloseCount, CloseClear,
               CloseDead, Second, Connect, slVars, netVars
<1> QED
  BY <1>2, <1>3, <1>4, <1>5, <1>6, <1>7, <1>8, <1>9, <1>10, <1>11
     DEF Steps, ServNext, Complete, AssistStep, Sending

VarTypes == ServTypeOK /\ nAccept \in Int /\ nConnect \in Int
              /\ peer \in [Handles -> Clients \cup {NoClient}]

LEMMA VarTypesStep ==
  ASSUME ServLinkAssumption, Core, OneWriter, Transmitted, Steps
  PROVE  VarTypes'
<1>0. /\ VarTypes /\ Types /\ MaxLink \in Nat /\ MaxUnits \in Nat /\ 0 \in 0 .. MaxUnits
      /\ \A t \in Workers \cup {Logic} : th[t].link \in Links
      /\ \A t \in Workers : th[t] \in Thread
      /\ th[Assist].pc # "look" => th[Assist].link \in Links
  BY Kinds DEF Core, Types, VarTypes
<1>1. CASE Sending
  <2>1. PICK t \in Threads, l \in Links : Sends(t, l)
    BY <1>1, SendSteps
  <2> QED BY <1>0, <2>1 DEF Sends, VarTypes, ServTypeOK, countVars
<1>2. ASSUME NEW t \in Workers, DoneIO(t) PROVE VarTypes'
  <2>1. PICK o \in ops, res \in {"error", "zero", "data"} :
          \E k \in IF o.io = "write" /\ res = "data" THEN 1 .. o.n ELSE {0},
             pc \in AfterIO(o.link, o.io, res) : DoneBy(t, o, res, k, pc)
    BY <1>2, Zenon DEF DoneIO, DoneBy
  <2>2. PICK k \in IF o.io = "write" /\ res = "data" THEN 1 .. o.n ELSE {0},
             pc \in AfterIO(o.link, o.io, res) : DoneBy(t, o, res, k, pc)
    BY <2>1
  <2>3. o \in Operations /\ o.link \in Links /\ k \in 0 .. MaxUnits
    BY <1>0 DEF Types, Operations
  <2>4. bInvalid' \in [Links -> BOOLEAN] /\ age' \in [Links -> 0 .. 2]
    BY <1>0, <2>2, <2>3 DEF DoneBy, VarTypes, ServTypeOK
  <2>5. wire' \in [Links -> 0 .. MaxUnits]
    <3>1. wire' = [wire EXCEPT ![o.link] = @ + k] /\ wire \in [Links -> 0 .. MaxUnits]
      BY <1>0, <2>2 DEF DoneBy, VarTypes, ServTypeOK
    <3>2. CASE k = 0
      BY <1>0, <2>3, <3>1, <3>2
    <3>3. CASE k # 0
      <4>1. o.io = "write" /\ res = "data" /\ o.sock # NoSocket
        BY <2>2, <3>3 DEF DoneBy
      <4>2. eState[o.link] # "dead" /\ eState[o.link] # "accepting"
        BY <4>1 DEF Core, OwnSockets, OneWriter
      <4>3. wire[o.link] = 0
        BY <2>3, <4>1, <4>2 DEF Transmitted, OneWriter
      <4> QED BY <1>0, <2>3, <3>1, <4>3
    <3> QED BY <3>2, <3>3
  <2> QED BY <1>0, <2>2, <2>4, <2>5 DEF DoneBy, VarTypes, ServTypeOK, countVars
<1>3. ASSUME NEW t \in Threads, OnInvalidMessage(t) PROVE VarTypes'
  <2>1. th[t].link \in Links
    BY <1>0, <1>3 DEF OnInvalidMessage, CheckInvalid, Invalid, ReportErrorMsg, At, Threads
  <2>2. CASE CheckInvalid(t)
    BY <1>0, <2>2 DEF CheckInvalid, VarTypes, ServTypeOK, linkVars, countVars, netVars
  <2>3. CASE Invalid(t)
    <3>1. bInvalid' \in [Links -> BOOLEAN] /\ age' \in [Links -> 0 .. 2]
      BY <1>0, <2>1, <2>3 DEF Invalid, VarTypes, ServTypeOK
    <3> QED BY <1>0, <2>3, <3>1 DEF Invalid, VarTypes, ServTypeOK, countVars, netVars
  <2>4. CASE ReportErrorMsg(t)
    <3>1. player' \in [Links -> Clients \cup {NoClient}]
      BY <1>0, <2>1, <2>4 DEF ReportErrorMsg, VarTypes, ServTypeOK
    <3> QED BY <1>0, <2>4, <3>1 DEF ReportErrorMsg, VarTypes, ServTypeOK, countVars, netVars
  <2> QED BY <1>3, <2>2, <2>3, <2>4 DEF OnInvalidMessage
<1>4. ASSUME NEW t \in Workers, OnAccept(t) \/ LinkOnConnect(t) \/ BindLinkAndPlayer(t)
      PROVE  VarTypes'
  <2>1. th[t].who \in Clients \cup {NoClient}
    BY <1>0 DEF Thread
  <2>2. CASE OnAccept(t)
    <3>1. canWrite' \in [Links -> BOOLEAN]
          /\ eState' \in [Links -> {"dead", "accepting", "connected"}]
      BY <1>0, <2>2 DEF OnAccept, VarTypes, ServTypeOK
    <3> QED BY <1>0, <2>2, <3>1 DEF OnAccept, VarTypes, ServTypeOK, countVars, netVars
  <2>3. CASE LinkOnConnect(t)
    BY <1>0, <2>3 DEF LinkOnConnect, VarTypes, ServTypeOK, linkVars, netVars
  <2>4. CASE BindLinkAndPlayer(t)
    <3>1. player' \in [Links -> Clients \cup {NoClient}]
      BY <1>0, <2>1, <2>4 DEF BindLinkAndPlayer, VarTypes, ServTypeOK
    <3> QED BY <1>0, <2>4, <3>1
         DEF BindLinkAndPlayer, VarTypes, ServTypeOK, countVars, netVars
  <2> QED BY <1>4, <2>2, <2>3, <2>4
<1>5. ASSUME NEW t \in Workers,
             StillConnected(t) \/ RecvMsg(t) \/ HandleClientMsg(t) \/ PostRecv(t)
      PROVE  VarTypes'
  BY <1>0, <1>5
     DEF StillConnected, RecvMsg, HandleClientMsg, PostRecv, VarTypes, ServTypeOK, linkVars, countVars, netVars
<1>6. ASSUME NEW l \in Links, CheckLink(l) PROVE VarTypes'
  BY <1>0, <1>6 DEF CheckLink, VarTypes, ServTypeOK, linkVars, countVars, netVars
<1>7. CASE Maintain
  BY <1>0, <1>7 DEF Maintain, VarTypes, ServTypeOK, linkVars, countVars, netVars
<1>8. CASE NewLink
  <2>1. nLink' \in Links
    BY <1>0, <1>8 DEF NewLink, Links, VarTypes, ServTypeOK
  <2> QED BY <1>0, <1>8, <2>1 DEF NewLink, VarTypes, ServTypeOK, countVars, netVars
<1>9. CASE CreateLink
  BY <1>0, <1>9 DEF CreateLink, At, VarTypes, ServTypeOK, countVars
<1>10. CASE PostAccept \/ AcceptFails
  <2>1. sock' \in [Links -> Handles \cup {NoSocket}] /\ open' \subseteq Handles
    BY <1>0, <1>10 DEF PostAccept, AcceptFails, At, VarTypes, ServTypeOK
  <2>2. CASE PostAccept
    BY <1>0, <2>1, <2>2 DEF PostAccept, VarTypes, ServTypeOK, countVars
  <2>3. CASE AcceptFails
    <3>1. bInvalid' \in [Links -> BOOLEAN]
          /\ eState' \in [Links -> {"dead", "accepting", "connected"}]
      BY <1>0, <2>3 DEF AcceptFails, VarTypes, ServTypeOK
    <3> QED BY <1>0, <2>1, <2>3, <3>1 DEF AcceptFails, VarTypes, ServTypeOK, countVars
  <2> QED BY <1>10, <2>2, <2>3
<1>11. CASE LinkOnCreate \/ CloseCount
  BY <1>0, <1>11
     DEF LinkOnCreate, CloseCount, At, VarTypes, ServTypeOK, linkVars, netVars
<1>12. CASE CloseSocket \/ CloseClear \/ CloseDead
  BY <1>0, <1>12 DEF CloseSocket, CloseClear, CloseDead, At, VarTypes, ServTypeOK, countVars, netVars
<1>13. CASE Second
  <2>1. age' \in [Links -> 0 .. 2]
    <3>1. \A l \in Links : (IF bInvalid[l] /\ age[l] < 2 THEN age[l] + 1 ELSE age[l]) \in 0 .. 2
      BY <1>0 DEF VarTypes, ServTypeOK
    <3> QED BY <1>13, <3>1 DEF Second
  <2> QED BY <1>0, <1>13, <2>1 DEF Second, VarTypes, ServTypeOK, countVars, netVars
<1>14. ASSUME NEW c \in Clients, Connect(c) PROVE VarTypes'
  <2>1. PICK o \in ops : peer' = [peer EXCEPT ![o.sock] = c]
    BY <1>14 DEF Connect
  <2>2. peer' \in [Handles -> Clients \cup {NoClient}]
    BY <1>0, <2>1 DEF VarTypes
  <2> QED BY <1>0, <1>14, <2>2 DEF Connect, VarTypes, ServTypeOK, linkVars, countVars
<1>15. CASE UNCHANGED slVars
  BY <1>0, <1>15 DEF VarTypes, ServTypeOK, slVars, linkVars, countVars, netVars
<1> QED
  BY <1>1, <1>2, <1>3, <1>4, <1>5, <1>6, <1>7, <1>8, <1>9, <1>10, <1>11, <1>12, <1>13,
     <1>14, <1>15 DEF Steps, ServNext, Complete, AssistStep, Sending

LEMMA TypesStep ==
  ASSUME ServLinkAssumption, Core, OneReader, OneWriter, Transmitted, Steps
  PROVE  Types'
<1>1. ThreadTypes' /\ ops' \subseteq Operations /\ VarTypes'
  BY ThreadTypesStep, OpsTypesStep, VarTypesStep DEF Core
<1> QED BY <1>1 DEF ThreadTypes, VarTypes, Types

-----------------------------------------------------------------------------
(* The links, their sockets and their threads                              *)

\* Steps that change neither links nor operations as far as those parts read them.
QuietSteps ==
  \/ \E t \in Threads : OnInvalidMessage(t)
  \/ \E t \in Workers : \/ StillConnected(t) \/ LinkOnConnect(t) \/ RecvMsg(t)
                        \/ BindLinkAndPlayer(t) \/ HandleClientMsg(t)
  \/ \E l \in Links : CheckLink(l)
  \/ Maintain \/ NewLink \/ LinkOnCreate \/ CloseCount \/ Second \/ UNCHANGED slVars

LEMMA QuietKeeps ==
  ASSUME QuietSteps
  PROVE  UNCHANGED <<eState, sock, canWrite, sendBuf, ops, open, peer, wire>>
<1>1. ASSUME NEW t \in Threads, OnInvalidMessage(t)
      PROVE  UNCHANGED <<eState, sock, canWrite, sendBuf, ops, open, peer, wire>>
  BY <1>1 DEF OnInvalidMessage, CheckInvalid, Invalid, ReportErrorMsg, linkVars, netVars
<1>2. ASSUME NEW t \in Workers,
             StillConnected(t) \/ LinkOnConnect(t) \/ RecvMsg(t) \/ BindLinkAndPlayer(t)
               \/ HandleClientMsg(t)
      PROVE  UNCHANGED <<eState, sock, canWrite, sendBuf, ops, open, peer, wire>>
  BY <1>2 DEF StillConnected, LinkOnConnect, RecvMsg, BindLinkAndPlayer, HandleClientMsg, linkVars, netVars
<1>3. ASSUME NEW l \in Links, CheckLink(l)
      PROVE  UNCHANGED <<eState, sock, canWrite, sendBuf, ops, open, peer, wire>>
  BY <1>3 DEF CheckLink, linkVars, netVars
<1>4. ASSUME Maintain \/ NewLink \/ LinkOnCreate \/ CloseCount \/ Second \/ UNCHANGED slVars
      PROVE  UNCHANGED <<eState, sock, canWrite, sendBuf, ops, open, peer, wire>>
  BY <1>4 DEF Maintain, NewLink, LinkOnCreate, CloseCount, Second, slVars, linkVars, netVars
<1> QED BY <1>1, <1>2, <1>3, <1>4 DEF QuietSteps

\* All steps by what they change.
LEMMA StepGroups ==
  ASSUME ServLinkAssumption, Steps
  PROVE  \/ QuietSteps
         \/ \E t \in Workers : DoneIO(t)
         \/ Sending
         \/ \E t \in Workers : OnAccept(t)
         \/ \E t \in Workers : PostRecv(t)
         \/ CreateLink \/ PostAccept \/ AcceptFails \/ CloseSocket \/ CloseClear \/ CloseDead
         \/ \E c \in Clients : Connect(c)
BY Kinds DEF Steps, ServNext, Complete, AssistStep, QuietSteps, Sending

\* The assist thread makes a link that nobody uses.
LEMMA MakesUnused ==
  ASSUME ServLinkAssumption, Core, th[Assist].pc \in {"create", "socket"}
  PROVE  LET l == th[Assist].link
         IN  /\ l \in Links /\ l <= nLink /\ sock[l] = NoSocket /\ player[l] = NoClient
             /\ th[Assist].pc = "create" => eState[l] = "dead"
             /\ th[Assist].pc = "socket" => eState[l] = "accepting"
             /\ \A o \in ops : o.link # l
             /\ \A t \in Workers \cup {Logic} : th[t].pc # "idle" => th[t].link # l
<1> DEFINE l == th[Assist].link
<1>1. /\ l \in Links /\ sock[l] = NoSocket /\ Rounds(th[Assist])
      /\ l <= nLink /\ Ahead(th[Assist], l)
  BY DEF Core, Types, Assisting, Rounds, Ahead, MakeSteps, Calls
<1>2. /\ \A o \in ops : o.link # l
      /\ \A t \in Workers \cup {Logic} : th[t].pc # "idle" => th[t].link # l
  BY <1>1 DEF Core, Quiet, Unused
<1>3. player[l] = NoClient /\ (th[Assist].pc = "create" => eState[l] = "dead")
  BY <1>1 DEF Core, Resting
<1> QED BY <1>1, <1>2, <1>3 DEF Core, Assisting

LEMMA OwnSocketsStep ==
  ASSUME Assumed, Core, OneReader, OneWriter, Transmitted, Steps
  PROVE  OwnSockets'
<1>0. /\ OwnSockets /\ Types /\ ServLinkAssumption
      /\ NoSocket \notin Handles /\ NoClient \notin Clients
      /\ sock \in [Links -> Handles \cup {NoSocket}] /\ open \subseteq Handles
      /\ peer \in [Handles -> Clients \cup {NoClient}]
      /\ eState \in [Links -> {"dead", "accepting", "connected"}]
      /\ \A o \in ops : o.link \in Links /\ o.sock \in Handles \cup {NoSocket}
  BY Kinds DEF Assumed, Core, Types, ServTypeOK, Operations
<1>1. CASE QuietSteps
  <2>1. UNCHANGED <<eState, sock, ops, open, peer>>
    BY <1>1, QuietKeeps
  <2> QED BY <1>0, <2>1 DEF OwnSockets
<1>2. ASSUME NEW t \in Workers, DoneIO(t) PROVE OwnSockets'
  <2>1. ops' \subseteq ops
    BY <1>0, <1>2, DoneGoes
  <2>2. UNCHANGED <<eState, sock, open, peer>>
    BY <1>2 DEF DoneIO
  <2> QED BY <1>0, <2>1, <2>2 DEF OwnSockets
<1>3. CASE Sending
  <2>1. PICK t \in Threads, l \in Links : Sends(t, l)
    BY <1>0, <1>3, SendSteps
  <2>2. UNCHANGED <<eState, sock, open, peer>>
    BY <2>1 DEF Sends
  <2>3. \A o \in ops' : o \in ops \/ (o.link = l /\ o.sock = sock[l] /\ eState[l] = "connected")
    BY <2>1 DEF Sends
  <2> QED BY <1>0, <2>2, <2>3 DEF OwnSockets
<1>4. ASSUME NEW t \in Workers, OnAccept(t) PROVE OwnSockets'
  <2>1. /\ UNCHANGED <<sock, open, peer, ops>>
        /\ eState' = eState \/ eState' = [eState EXCEPT ![th[t].link] = "connected"]
    BY <1>4 DEF OnAccept, netVars
  <2> QED BY <1>0, <2>1 DEF OwnSockets
<1>5. ASSUME NEW t \in Workers, PostRecv(t) PROVE OwnSockets'
  <2> DEFINE l == th[t].link
  <2>1. /\ l \in Links /\ eState[l] = "connected"
        /\ UNCHANGED <<linkVars, countVars, open, peer, wire>>
        /\ \/ ops' = ops
           \/ /\ sock[l] \in open
              /\ ops' = ops \cup {[link |-> l, io |-> "read", sock |-> sock[l], n |-> 0,
                                   nth |-> 0]}
    BY <1>0, <1>5, ReceiveSteps
  <2>2. \A o \in ops' : o \in ops \/ (o.link = l /\ o.sock = sock[l] /\ eState[l] = "connected")
    BY <2>1
  <2> QED BY <1>0, <2>1, <2>2 DEF OwnSockets, linkVars
<1>6. CASE CreateLink
  <2>1. /\ UNCHANGED <<sock, open, peer, ops>>
        /\ eState' = [eState EXCEPT ![th[Assist].link] = "accepting"]
    BY <1>6 DEF CreateLink
  <2> QED BY <1>0, <2>1 DEF OwnSockets
<1>7. CASE PostAccept
  <2> DEFINE l == th[Assist].link
  <2>1. /\ l \in Links /\ eState[l] = "accepting" /\ \A o \in ops : o.link # l
        /\ UNCHANGED <<eState, peer>>
    BY <1>0, <1>7, MakesUnused DEF PostAccept, At
  <2>2. PICK h \in Handles \ open :
          /\ sock' = [sock EXCEPT ![l] = h] /\ open' = open \cup {h}
          /\ ops' = ops \cup {Op(l, "read", h, 0)}
    BY <1>7 DEF PostAccept
  <2>3. sock'[l] = h /\ \A m \in Links : m # l => sock'[m] = sock[m]
    BY <1>0, <2>1, <2>2
  <2>4. Op(l, "read", h, 0).link = l /\ Op(l, "read", h, 0).sock = h
    BY DEF Op
  <2>5. \A o \in ops' : o \in ops \/ (o.link = l /\ o.sock = h)
    BY <2>2, <2>4
  <2> QED BY <1>0, <2>1, <2>2, <2>3, <2>5 DEF OwnSockets
<1>8. CASE AcceptFails
  <2> DEFINE l == th[Assist].link
  <2>1. /\ l \in Links /\ sock[l] = NoSocket /\ \A o \in ops : o.link # l
        /\ UNCHANGED <<peer, ops>> /\ eState' = [eState EXCEPT ![l] = "dead"]
    BY <1>0, <1>8, MakesUnused DEF AcceptFails, At
  <2>2. CASE UNCHANGED <<sock, open>>
    BY <1>0, <2>1, <2>2 DEF OwnSockets
  <2>3. CASE \E h \in Handles \ open : sock' = [sock EXCEPT ![l] = h] /\ open' = open \cup {h}
    <3>1. PICK h \in Handles \ open : sock' = [sock EXCEPT ![l] = h] /\ open' = open \cup {h}
      BY <2>3
    <3>2. sock'[l] = h /\ \A m \in Links : m # l => sock'[m] = sock[m] /\ eState'[m] = eState[m]
      BY <1>0, <2>1, <3>1
    <3> QED BY <1>0, <2>1, <3>1, <3>2 DEF OwnSockets
  <2> QED BY <1>8, <2>2, <2>3 DEF AcceptFails, Assumed
<1>9. CASE CloseSocket
  <2> DEFINE l == th[Assist].link
             h == sock[l]
  <2>1. l \in Links /\ h # NoSocket /\ h \in open /\ UNCHANGED eState
    BY <1>0, <1>9 DEF CloseSocket, Core, Types, Assisting, OwnSockets, At
  <2>2. /\ sock' = [sock EXCEPT ![l] = NoSocket] /\ open' = open \ {h}
        /\ peer' = [peer EXCEPT ![h] = NoClient]
        /\ ops' = {IF o.sock = h THEN [o EXCEPT !.sock = NoSocket] ELSE o : o \in ops}
    BY <1>9 DEF CloseSocket
  <2>3. sock'[l] = NoSocket /\ \A m \in Links : m # l => sock'[m] = sock[m]
    BY <1>0, <2>1, <2>2
  <2>4. \A o \in ops' : o.sock # NoSocket => o \in ops /\ o.sock # h
    <3> SUFFICES ASSUME NEW o \in ops', o.sock # NoSocket PROVE o \in ops /\ o.sock # h
      OBVIOUS
    <3>1. PICK p \in ops : o = IF p.sock = h THEN [p EXCEPT !.sock = NoSocket] ELSE p
      BY <2>2
    <3>2. p \in Operations
      BY <1>0 DEF Types
    <3>3. p.sock # h
      BY <3>1, <3>2 DEF Operations
    <3> QED BY <3>1, <3>3
  <2>5. \A g \in Handles : peer'[g] # NoClient => peer[g] # NoClient /\ g # h
    BY <1>0, <2>1, <2>2
  <2> HIDE DEF l, h
  <2> QED BY <1>0, <2>1, <2>2, <2>3, <2>4, <2>5 DEF OwnSockets, h
<1>10. CASE CloseDead
  <2> DEFINE l == th[Assist].link
  <2>1. /\ l \in Links /\ sock[l] = NoSocket /\ UNCHANGED <<sock, open, peer, ops>>
        /\ eState' = [eState EXCEPT ![l] = "dead"]
    BY <1>0, <1>10 DEF CloseDead, Core, Types, Assisting, At, netVars
  <2> QED BY <1>0, <2>1 DEF OwnSockets
<1>12. CASE CloseClear
  <2>1. UNCHANGED <<eState, sock, ops, open, peer>>
    BY <1>12 DEF CloseClear, netVars
  <2> QED BY <1>0, <2>1 DEF OwnSockets
<1>11. ASSUME NEW c \in Clients, Connect(c) PROVE OwnSockets'
  <2>1. PICK o \in ops : o.sock # NoSocket /\ peer' = [peer EXCEPT ![o.sock] = c]
    BY <1>11 DEF Connect
  <2>2. o.sock \in open /\ UNCHANGED <<eState, sock, ops, open>>
    BY <1>0, <1>11, <2>1 DEF Connect, OwnSockets, linkVars
  <2> QED BY <1>0, <2>1, <2>2 DEF OwnSockets
<1> QED
  BY <1>0, <1>1, <1>2, <1>3, <1>4, <1>5, <1>6, <1>7, <1>8, <1>9, <1>10, <1>11, <1>12,
     StepGroups

\* What steps of other threads than the assist thread leave alone, or may do.
OthersDo ==
  /\ UNCHANGED <<nLink, sock, open>>
  /\ \A l \in Links : bInvalid[l] => bInvalid'[l]
  /\ \A l \in Links : bInvalid'[l] /\ age'[l] > 0 => bInvalid[l] /\ age[l] > 0
  /\ \A l \in Links : eState'[l] # eState[l] =>
       /\ \E t \in Workers : OnAccept(t) /\ th[t].link = l
       /\ eState'[l] = "connected"
  /\ \A l \in Links : player'[l] # player[l] =>
       \/ player'[l] = NoClient
       \/ \E t \in Workers : BindLinkAndPlayer(t) /\ th[t].link = l /\ player'[l] = th[t].who

LEMMA Others ==
  ASSUME ServLinkAssumption, Core, OneReader, OneWriter, Transmitted, Steps, ~AssistSteps
  PROVE  /\ Second \/ (th'[Assist] = th[Assist] /\ OthersDo)
<1>0. /\ Types /\ Workers \subseteq Threads /\ Assist \in Threads /\ Logic \in Threads
      /\ Assist \notin Workers /\ Logic \notin Workers /\ Assist # Logic
      /\ th \in [Threads -> Thread] /\ bInvalid \in [Links -> BOOLEAN] /\ age \in [Links -> 0 .. 2]
      /\ eState \in [Links -> {"dead", "accepting", "connected"}]
      /\ player \in [Links -> Clients \cup {NoClient}]
      /\ \A t \in Workers \cup {Logic} : th[t].link \in Links
  BY Kinds DEF Core, Types, ServTypeOK
<1>1. ASSUME NEW t \in Workers \cup {Logic}, OnInvalidMessage(t) PROVE OthersDo
  <2>0. th[t].link \in Links
    BY <1>0
  <2>1. CASE CheckInvalid(t)
    BY <2>1 DEF CheckInvalid, OthersDo, linkVars, netVars
  <2>2. CASE Invalid(t)
    <3>1. /\ bInvalid'[th[t].link] /\ age'[th[t].link] = 0
          /\ \A l \in Links : l # th[t].link => bInvalid'[l] = bInvalid[l] /\ age'[l] = age[l]
          /\ UNCHANGED <<nLink, eState, sock, player, open>>
      BY <1>0, <2>0, <2>2 DEF Invalid, netVars
    <3> QED BY <3>1 DEF OthersDo
  <2>3. CASE ReportErrorMsg(t)
    <3>1. /\ player'[th[t].link] = NoClient
          /\ \A l \in Links : l # th[t].link => player'[l] = player[l]
          /\ UNCHANGED <<nLink, eState, sock, bInvalid, age, open>>
      BY <1>0, <2>0, <2>3 DEF ReportErrorMsg, netVars
    <3> QED BY <3>1 DEF OthersDo
  <2> QED BY <1>1, <2>1, <2>2, <2>3 DEF OnInvalidMessage
<1>2. ASSUME Sending PROVE OthersDo
  <2>1. PICK t \in Threads, l \in Links : Sends(t, l)
    BY <1>2, SendSteps
  <2> QED BY <2>1 DEF Sends, OthersDo
<1>3. ASSUME NEW t \in Workers, OnAccept(t) PROVE OthersDo
  <2>1. /\ UNCHANGED <<nLink, sock, bInvalid, player, age, open>>
        /\ eState' = eState \/ eState' = [eState EXCEPT ![th[t].link] = "connected"]
    BY <1>3 DEF OnAccept, netVars
  <2>2. \A l \in Links : eState'[l] # eState[l] => th[t].link = l /\ eState'[l] = "connected"
    BY <1>0, <2>1
  <2> QED BY <1>3, <2>1, <2>2 DEF OthersDo
<1>4. ASSUME NEW t \in Workers, BindLinkAndPlayer(t) PROVE OthersDo
  <2>1. /\ UNCHANGED <<nLink, eState, sock, bInvalid, age, open>>
        /\ player' = player \/ player' = [player EXCEPT ![th[t].link] = th[t].who]
    BY <1>4 DEF BindLinkAndPlayer, netVars
  <2>2. \A l \in Links : player'[l] # player[l] => th[t].link = l /\ player'[l] = th[t].who
    BY <1>0, <2>1
  <2> QED BY <1>4, <2>1, <2>2 DEF OthersDo
<1>5. ASSUME NEW t \in Workers,
             \/ StillConnected(t) \/ LinkOnConnect(t) \/ RecvMsg(t) \/ HandleClientMsg(t)
             \/ PostRecv(t)
      PROVE  OthersDo
  BY <1>5 DEF StillConnected, LinkOnConnect, RecvMsg, HandleClientMsg, PostRecv, OthersDo, linkVars, netVars
<1>6. ASSUME NEW t \in Workers, DoneIO(t) PROVE OthersDo
  <2>1. PICK o \in ops :
          /\ bInvalid' \in [Links -> BOOLEAN]
          /\ bInvalid[o.link] => bInvalid'[o.link]
          /\ \A m \in Links : m # o.link => bInvalid'[m] = bInvalid[m]
          /\ \/ bInvalid' = bInvalid /\ age' = age
             \/ age' = [age EXCEPT ![o.link] = 0]
    BY <1>0, <1>6, DoneGoes
  <2>2. o.link \in Links
    BY <1>0 DEF Types, Operations
  <2>3. UNCHANGED <<nLink, sock, open, eState, player>>
    BY <1>6 DEF DoneIO
  <2>4. \A l \in Links : bInvalid[l] => bInvalid'[l]
    BY <2>1
  <2>5. \A l \in Links : bInvalid'[l] /\ age'[l] > 0 => bInvalid[l] /\ age[l] > 0
    <3>1. CASE age' = [age EXCEPT ![o.link] = 0]
      <4>1. age'[o.link] = 0 /\ \A l \in Links : l # o.link => age'[l] = age[l]
        BY <1>0, <2>2, <3>1
      <4> QED BY <2>1, <4>1
    <3> QED BY <2>1, <3>1
  <2> QED BY <2>3, <2>4, <2>5 DEF OthersDo
<1>7. ASSUME (\E l \in Links : CheckLink(l)) \/ (\E c \in Clients : Connect(c)) \/ UNCHANGED slVars
      PROVE  OthersDo
  BY <1>7 DEF CheckLink, Connect, OthersDo, slVars, linkVars, netVars
<1>8. Second \/ OthersDo
  BY <1>1, <1>2, <1>3, <1>4, <1>5, <1>6, <1>7
     DEF Steps, ServNext, Complete, AssistSteps, Sending, Threads
<1>9. Second \/ th'[Assist] = th[Assist]
  <2>1. ASSUME NEW t \in Workers, WorkerGoes(t) PROVE th'[Assist] = th[Assist]
    BY <1>0, <2>1, WorkerKeeps
  <2>2. ASSUME NEW t \in Workers, DoneIO(t) PROVE th'[Assist] = th[Assist]
    BY <1>0, <2>2, DoneGoes
  <2>3. ASSUME LogicActs PROVE th'[Assist] = th[Assist]
    BY <1>0, <2>3, LogicGoes DEF LogicActs
  <2> QED BY <2>1, <2>2, <2>3, StepKinds DEF Connect, slVars
<1> QED BY <1>8, <1>9

LEMMA AssistingStep ==
  ASSUME Assumed, Core, OneReader, OneWriter, Transmitted, Steps
  PROVE  Assisting'
<1> DEFINE a == th[Assist]
<1>0. /\ Types /\ Assisting /\ ServLinkAssumption /\ Assist \in Threads
      /\ sock \in [Links -> Handles \cup {NoSocket}] /\ Links \subseteq Nat \ {0} /\ nLink \in Links
      /\ eState \in [Links -> {"dead", "accepting", "connected"}] /\ a.link \in Nat \ {0}
      /\ a.pc # "look" => a.link \in Links
      /\ bInvalid \in [Links -> BOOLEAN] /\ th \in [Threads -> Thread]
  BY Kinds DEF Assumed, Core, Types, ServTypeOK, Thread
<1>1. CASE AssistSteps
  <2> DEFINE s == th'[Assist]
  <2>1. /\ s \in Thread /\ s.pc \in {"idle"} \cup RoundSteps \cup Calls
        /\ Rounds(s) =>
              \/ /\ s.pc = "look" /\ s.link = a.link + 1 /\ a.link <= nLink
              \/ /\ s.pc # "look" /\ s.link = a.link /\ a.link <= nLink'
        /\ s.pc = "create" => (Maintain /\ sock[a.link] = NoSocket) \/ NewLink
        /\ s.pc = "socket" => CreateLink
        /\ s.pc = "close" => Maintain /\ sock[a.link] # NoSocket /\ bInvalid[a.link]
        /\ s.pc = "closesocket" => CloseCount
        /\ s.pc = "clear" => CloseSocket
        /\ s.pc = "dead" => CloseClear
    BY <1>0, <1>1, AssistGoes
  <2>2. nLink' \in Links /\ nLink' >= nLink
    <3>1. nLink' = nLink \/ (NewLink /\ nLink' = nLink + 1 /\ nLink < MaxLink)
      BY <1>1 DEF AssistSteps, AssistStep, OnInvalidMessage, CheckInvalid, Invalid, ReportErrorMsg,
                  ServerRun_SendIO, Maintain, NewLink, CreateLink, PostAccept, AcceptFails,
                  LinkOnCreate, CloseCount, CloseSocket, CloseClear, CloseDead, linkVars
    <3> QED BY <1>0, <3>1, Kinds DEF Links
  <2>3. \A m \in Links : m > nLink' => sock'[m] = NoSocket
    <3>1. CASE UNCHANGED sock
      BY <1>0, <2>2, <3>1 DEF Assisting
    <3>2. CASE PostAccept \/ AcceptFails
      <4>1. a.link \in Links /\ a.link <= nLink /\ nLink' = nLink
        BY <1>0, <3>2, MakesUnused DEF PostAccept, AcceptFails, At
      <4>2. \A m \in Links : m # a.link => sock'[m] = sock[m]
        BY <1>0, <3>2 DEF PostAccept, AcceptFails
      <4> QED BY <1>0, <4>1, <4>2 DEF Assisting
    <3>3. CASE CloseSocket
      <4>1. \A m \in Links : sock'[m] = sock[m] \/ sock'[m] = NoSocket
        BY <1>0, <3>3, Zenon DEF CloseSocket
      <4>2. nLink' = nLink
        BY <3>3 DEF CloseSocket
      <4> QED BY <1>0, <4>1, <4>2 DEF Assisting
    <3> QED BY <1>1, <3>1, <3>2, <3>3
         DEF AssistSteps, AssistStep, OnInvalidMessage, CheckInvalid, Invalid, ReportErrorMsg,
             ServerRun_SendIO, Maintain, NewLink, CreateLink, LinkOnCreate, CloseCount, CloseClear,
             CloseDead, linkVars
  <2>4. s.pc \in RoundSteps => Rounds(s)
    BY DEF Rounds, RoundSteps, MakeSteps, Calls
  <2>5. s.pc = "create" => sock'[s.link] = NoSocket
    <3> SUFFICES ASSUME s.pc = "create" PROVE sock'[s.link] = NoSocket
      OBVIOUS
    <3>1. s.link = a.link /\ a.link <= nLink' /\ s.link \in Links
      BY <1>0, <2>1, <2>2, <2>4, Kinds DEF RoundSteps, MakeSteps, Links
    <3>2. CASE NewLink
      BY <1>0, <3>1, <3>2 DEF NewLink, Assisting
    <3>3. CASE Maintain /\ sock[a.link] = NoSocket
      BY <3>1, <3>3 DEF Maintain, linkVars
    <3> QED BY <2>1, <3>2, <3>3
  <2>6. s.pc = "socket" => sock'[s.link] = NoSocket /\ eState'[s.link] = "accepting"
    <3> SUFFICES ASSUME s.pc = "socket"
                 PROVE  sock'[s.link] = NoSocket /\ eState'[s.link] = "accepting"
      OBVIOUS
    <3>1. CreateLink /\ s.link = a.link
      BY <2>1, <2>4 DEF RoundSteps, MakeSteps
    <3> QED BY <1>0, <3>1 DEF CreateLink, Assisting, At
  <2>7. s.pc \in {"clear", "dead"} => sock'[s.link] = NoSocket
    <3> SUFFICES ASSUME s.pc \in {"clear", "dead"} PROVE sock'[s.link] = NoSocket
      OBVIOUS
    <3>1. (CloseSocket \/ CloseClear) /\ s.link = a.link
      BY <2>1, <2>4 DEF RoundSteps
    <3>2. CASE CloseSocket
      BY <1>0, <3>1, <3>2 DEF CloseSocket, At
    <3>3. CASE CloseClear
      BY <1>0, <3>1, <3>3 DEF CloseClear, Assisting, At
    <3> QED BY <3>1, <3>2, <3>3
  <2>8. s.pc \in {"close", "closesocket"} => sock'[s.link] # NoSocket /\ bInvalid'[s.link]
    <3> SUFFICES ASSUME s.pc \in {"close", "closesocket"}
                 PROVE  sock'[s.link] # NoSocket /\ bInvalid'[s.link]
      OBVIOUS
    <3>1. s.link = a.link
      BY <2>1, <2>4 DEF RoundSteps
    <3>2. CASE CloseCount
      BY <1>0, <3>1, <3>2 DEF CloseCount, Assisting, At, linkVars
    <3>3. CASE Maintain /\ sock[a.link] # NoSocket /\ bInvalid[a.link]
      BY <3>1, <3>3 DEF Maintain, linkVars
    <3> QED BY <2>1, <3>2, <3>3
  <2>9. /\ Rounds(s) => s.link <= nLink' + 1
        /\ Rounds(s) /\ s.pc # "look" => s.link <= nLink'
    <3>1. nLink \in Nat /\ nLink' \in Nat /\ a.link \in Nat
      BY <1>0, <2>2
    <3> QED BY <2>1, <2>2, <3>1
  <2> QED BY <2>3, <2>5, <2>6, <2>7, <2>8, <2>9 DEF Assisting
<1>2. CASE Second
  <2>1. th'[Assist] = Busy("look", 1) /\ UNCHANGED <<nLink, sock>>
    BY <1>0, <1>2 DEF Second
  <2>2. th'[Assist].pc = "look" /\ th'[Assist].link = 1
    BY <2>1 DEF Busy
  <2>3. nLink \in Nat /\ \A m \in Links : m > nLink => sock[m] = NoSocket
    BY <1>0 DEF Assisting
  <2>4. Rounds(th'[Assist]) => 1 <= nLink' + 1
    BY ONLY <2>1, <2>3
  <2>5. \A m \in Links : m > nLink' => sock'[m] = NoSocket
    BY ONLY <2>1, <2>3
  <2> QED BY ONLY <2>2, <2>4, <2>5 DEF Assisting
<1>3. CASE th'[Assist] = th[Assist] /\ OthersDo
  <2>1. /\ UNCHANGED <<nLink, sock>>
        /\ \A l \in Links : bInvalid[l] => bInvalid'[l]
    BY <1>3 DEF OthersDo
  <2>2. a.pc = "socket" => eState'[a.link] = eState[a.link]
    <3> SUFFICES ASSUME a.pc = "socket", eState'[a.link] # eState[a.link] PROVE FALSE
      OBVIOUS
    <3>1. PICK t \in Workers : OnAccept(t) /\ th[t].link = a.link
      BY <1>0, <1>3 DEF OthersDo
    <3>2. th[t].pc # "idle"
      BY <3>1 DEF OnAccept, At
    <3> QED BY <1>0, <3>1, <3>2, MakesUnused
  <2> QED BY <1>0, <1>3, <2>1, <2>2 DEF Assisting
<1> QED BY <1>0, <1>1, <1>2, <1>3, Others

\* What a step of the assist thread leaves alone in a link that it neither makes nor
\* closes.
MakesOrCloses(l) ==
  /\ th[Assist].link = l
  /\ th[Assist].pc \in {"create", "socket", "closesocket", "clear", "dead"}

LEMMA AssistLeaves ==
  ASSUME ServLinkAssumption, Core, AssistSteps, NEW l \in Links, ~MakesOrCloses(l)
  PROVE  /\ sock'[l] = sock[l] /\ eState'[l] = eState[l]
         /\ sock[l] # NoSocket => peer'[sock[l]] = peer[sock[l]]
         /\ bInvalid[l] => bInvalid'[l]
         /\ bInvalid'[l] /\ age'[l] > 0 => bInvalid[l] /\ age[l] > 0
         /\ player'[l] = player[l] \/ player'[l] = NoClient
         /\ wire'[l] = wire[l]
         /\ (\E m \in Links : ServerRun_SendIO(m)) \/ canWrite'[l] = canWrite[l]
<1> DEFINE a == th[Assist]
<1>0. /\ Types /\ OwnSockets /\ Assisting /\ sock \in [Links -> Handles \cup {NoSocket}]
      /\ eState \in [Links -> {"dead", "accepting", "connected"}]
      /\ bInvalid \in [Links -> BOOLEAN] /\ age \in [Links -> 0 .. 2]
      /\ player \in [Links -> Clients \cup {NoClient}] /\ canWrite \in [Links -> BOOLEAN]
      /\ wire \in [Links -> 0 .. MaxUnits]
      /\ peer \in [Handles -> Clients \cup {NoClient}]
      /\ a.pc # "look" => a.link \in Links
      /\ a.pc \in {"create", "socket", "closesocket", "clear", "dead"} => a.link # l
  BY DEF Core, Types, ServTypeOK, MakesOrCloses
<1>1. CASE CheckInvalid(Assist) \/ Maintain \/ NewLink \/ LinkOnCreate \/ CloseCount
  BY <1>1 DEF CheckInvalid, Maintain, NewLink, LinkOnCreate, CloseCount, linkVars, netVars
<1>2. CASE Invalid(Assist) \/ ReportErrorMsg(Assist)
  BY <1>0, <1>2 DEF Invalid, ReportErrorMsg, netVars, At
<1>3. CASE \E m \in Links : ServerRun_SendIO(m)
  BY <1>3 DEF ServerRun_SendIO
<1>4. CASE CreateLink
  <2>1. a.link \in Links /\ a.link # l
    BY <1>0, <1>4 DEF CreateLink, At
  <2> QED BY <1>0, <1>4, <2>1 DEF CreateLink
<1>5. CASE PostAccept
  <2>1. a.link \in Links /\ a.link # l
    BY <1>0, <1>5 DEF PostAccept, At
  <2> QED BY <1>0, <1>5, <2>1 DEF PostAccept
<1>6. CASE AcceptFails
  <2>1. a.link \in Links /\ a.link # l
    BY <1>0, <1>6 DEF AcceptFails, At
  <2> QED BY <1>0, <1>6, <2>1 DEF AcceptFails
<1>7. CASE CloseSocket
  <2>1. a.link \in Links /\ a.link # l /\ sock[a.link] # NoSocket
    BY <1>0, <1>7 DEF CloseSocket, At, Assisting
  <2>2. sock[l] # sock[a.link]
    BY <1>0, <2>1 DEF OwnSockets
  <2> QED BY <1>0, <1>7, <2>1, <2>2 DEF CloseSocket
<1>8. CASE CloseDead
  <2>1. a.link \in Links /\ a.link # l
    BY <1>0, <1>8 DEF CloseDead, At
  <2> QED BY <1>0, <1>8, <2>1 DEF CloseDead, netVars
<1>9. CASE CloseClear
  BY <1>9 DEF CloseClear, netVars
<1> QED
  BY <1>1, <1>2, <1>3, <1>4, <1>5, <1>6, <1>7, <1>8, <1>9
     DEF AssistSteps, AssistStep, OnInvalidMessage

\* The steps that make or close a link.
LEMMA MakingSteps ==
  ASSUME ServLinkAssumption, Core, NEW l \in Links, AssistSteps, MakesOrCloses(l)
  PROVE  \/ /\ CreateLink /\ th[Assist].pc = "create" /\ th'[Assist].pc = "socket"
            /\ th'[Assist].link = l
         \/ PostAccept /\ th[Assist].pc = "socket" /\ th'[Assist].pc = "count"
         \/ AcceptFails /\ th[Assist].pc = "socket" /\ th'[Assist].pc = "look"
         \/ /\ CloseSocket /\ th[Assist].pc = "closesocket" /\ th'[Assist].pc = "clear"
            /\ th'[Assist].link = l
         \/ /\ CloseClear /\ th[Assist].pc = "clear" /\ th'[Assist].pc = "dead"
            /\ th'[Assist].link = l
         \/ /\ CloseDead /\ th[Assist].pc = "dead" /\ th'[Assist].pc = "report"
            /\ th'[Assist].link = l
<1>0. th \in [Threads -> Thread] /\ Assist \in Threads /\ th[Assist].link = l
  BY Kinds DEF Core, Types, MakesOrCloses
<1>1. ASSUME NEW pc \in {"socket", "count", "clear", "dead"}, Goto(Assist, pc)
      PROVE  th'[Assist].pc = pc /\ th'[Assist].link = l
  <2>1. th'[Assist] = [pc |-> pc, link |-> th[Assist].link, ret |-> "idle",
                       n |-> th[Assist].n, who |-> th[Assist].who]
    BY <1>0, <1>1, Goes
  <2> QED BY <1>0, <2>1
<1>2. ASSUME Goto(Assist, "next") PROVE th'[Assist].pc = "look"
  <2>1. th'[Assist] = Busy("look", th[Assist].link + 1)
    BY <1>0, <1>2, Goes
  <2> QED BY <2>1 DEF Busy
<1>3. CASE CreateLink
  BY <1>1, <1>3 DEF CreateLink, At
<1>4. CASE PostAccept
  BY <1>1, <1>4 DEF PostAccept, At
<1>5. CASE AcceptFails
  BY <1>2, <1>5 DEF AcceptFails, At
<1>6. CASE CloseSocket
  BY <1>1, <1>6 DEF CloseSocket, At
<1>7. CASE CloseDead
  <2>1. th' = [th EXCEPT ![Assist].pc = "report", ![Assist].ret = "next"]
    BY <1>7 DEF CloseDead
  <2>2. th'[Assist].pc = "report" /\ th'[Assist].link = l
    BY <1>0, <2>1 DEF Thread
  <2> QED BY <1>7, <2>2 DEF CloseDead, At
<1>8. CASE CloseClear
  BY <1>1, <1>8 DEF CloseClear, At
<1> QED
  BY <1>3, <1>4, <1>5, <1>6, <1>7, <1>8
     DEF MakesOrCloses, AssistSteps, AssistStep, OnInvalidMessage, CheckInvalid, Invalid,
         ReportErrorMsg, ServerRun_SendIO, Maintain, NewLink, LinkOnCreate, CloseCount, At

LEMMA RestingStep ==
  ASSUME Assumed, Core, OneReader, OneWriter, Transmitted, Steps
  PROVE  Resting'
<1> DEFINE a == th[Assist]
           s == th'[Assist]
<1>0. /\ Types /\ Resting /\ Handling /\ ServLinkAssumption /\ Assist \in Threads
      /\ sock \in [Links -> Handles \cup {NoSocket}] /\ NoSocket \notin Handles
      /\ eState \in [Links -> {"dead", "accepting", "connected"}]
      /\ player \in [Links -> Clients \cup {NoClient}]
  BY Kinds DEF Assumed, Core, Types, ServTypeOK
<1> SUFFICES ASSUME NEW l \in Links, sock'[l] = NoSocket
             PROVE  /\ eState'[l] = "dead" \/ (s.link = l /\ s.pc \in {"clear", "dead", "socket"})
                    /\ player'[l] = NoClient \/ (s.link = l /\ s.pc \in {"clear", "dead", "report"})
  BY DEF Resting
<1>1. CASE Second
  <2>1. a.pc = "idle" /\ UNCHANGED <<eState, sock, player>>
    BY <1>0, <1>1 DEF Second, At
  <2> QED BY <1>0, <2>1 DEF Resting
<1>2. CASE s = a /\ OthersDo
  <2>1. sock[l] = NoSocket
    BY <1>2 DEF OthersDo
  <2>2. \A t \in Workers : Reads(th[t]) => th[t].link # l
    BY <1>0, <2>1 DEF Handling
  <2>3. eState'[l] = eState[l]
    BY <1>2, <2>2 DEF OthersDo, OnAccept, At, Reads, ReadSteps
  <2>4. player'[l] = player[l] \/ player'[l] = NoClient
    BY <1>2, <2>2 DEF OthersDo, BindLinkAndPlayer, At, Reads, ReadSteps
  <2> QED BY <1>0, <1>2, <2>1, <2>3, <2>4 DEF Resting
<1>3. CASE AssistSteps /\ ~MakesOrCloses(l)
  <2>1. /\ sock[l] = NoSocket /\ eState'[l] = eState[l]
        /\ player'[l] = player[l] \/ player'[l] = NoClient
    BY <1>0, <1>3, AssistLeaves
  <2>2. eState'[l] = "dead"
    BY <1>0, <1>3, <2>1 DEF Resting, MakesOrCloses
  <2>3. CASE ReportErrorMsg(Assist)
    <3>1. a.link = l => player'[l] = NoClient
      BY <1>0, <2>3 DEF ReportErrorMsg
    <3>2. a.link # l => player[l] = NoClient
      BY <1>0, <2>1 DEF Resting
    <3> QED BY <2>1, <2>2, <3>1, <3>2
  <2>4. CASE ~ReportErrorMsg(Assist)
    <3>1. a.pc # "report"
      BY <1>3, <2>4
         DEF AssistSteps, AssistStep, OnInvalidMessage, CheckInvalid, Invalid, ServerRun_SendIO,
             Maintain, NewLink, CreateLink, PostAccept, AcceptFails, LinkOnCreate, CloseCount,
             CloseSocket, CloseClear, CloseDead, At
    <3>2. player[l] = NoClient
      BY <1>0, <1>3, <2>1, <3>1 DEF Resting, MakesOrCloses
    <3> QED BY <2>1, <2>2, <3>2
  <2> QED BY <2>3, <2>4
<1>4. CASE AssistSteps /\ MakesOrCloses(l)
  <2>0. a.link = l
    BY <1>4 DEF MakesOrCloses
  <2>1. CASE CreateLink /\ a.pc = "create" /\ s.pc = "socket" /\ s.link = l
    <3>1. player'[l] = NoClient
      BY <1>0, <2>0, <2>1, MakesUnused DEF CreateLink
    <3> QED BY <2>1, <3>1
  <2>2. CASE PostAccept
    BY <1>0, <2>0, <2>2 DEF PostAccept
  <2>3. CASE AcceptFails /\ a.pc = "socket"
    <3>1. player'[l] = NoClient
      BY <1>0, <2>0, <2>3, MakesUnused DEF AcceptFails
    <3> QED BY <1>0, <2>0, <2>3, <3>1 DEF AcceptFails
  <2>4. CASE s.pc \in {"clear", "dead"} /\ s.link = l
    BY <2>4
  <2>5. CASE CloseDead /\ s.pc = "report" /\ s.link = l
    BY <1>0, <2>0, <2>5 DEF CloseDead
  <2> QED BY <1>0, <1>4, <2>1, <2>2, <2>3, <2>4, <2>5, MakingSteps
<1> QED BY <1>0, <1>1, <1>2, <1>3, <1>4, Others

\* The operations there are after a step: those there were, or had with their sockets,
\* and one more for a link with a socket that is not dead.
LEMMA OpsOf ==
  ASSUME Assumed, Core, OneReader, OneWriter, Transmitted, Steps, NEW o \in ops'
  PROVE  \/ \E p \in ops : o.link = p.link /\ o.io = p.io /\ (o = p \/ CloseSocket)
         \/ /\ sock'[o.link] # NoSocket /\ eState'[o.link] # "dead" /\ o.link \in Links
            /\ \/ /\ o.io = "read" /\ PostAccept /\ o.link = th[Assist].link
               \/ /\ o.io = "read" /\ \E t \in Workers : PostRecv(t) /\ o.link = th[t].link
               \/ /\ o.io = "write" /\ eState'[o.link] = "connected" /\ ~canWrite'[o.link]
                  /\ sock'[o.link] \in open'
                  /\ \/ \E t \in Workers : Writes(t) /\ OnSend_DoneIO(t) /\ o.link = th[t].link
                     \/ canWrite[o.link] /\ \A t \in Workers : ~OnSend_DoneIO(t)
<1>0. /\ Types /\ OwnSockets /\ Assisting /\ ServLinkAssumption /\ NoSocket \notin Handles
      /\ Core /\ OneReader /\ OneWriter /\ Transmitted
      /\ sock \in [Links -> Handles \cup {NoSocket}] /\ open \subseteq Handles
      /\ eState \in [Links -> {"dead", "accepting", "connected"}]
      /\ th \in [Threads -> Thread] /\ Workers \subseteq Threads
      /\ Logic \notin Workers /\ Assist \notin Workers /\ Logic \in Threads /\ Assist \in Threads
  BY Kinds DEF Assumed, Core, Types, ServTypeOK
<1>1. CASE QuietSteps
  BY <1>1, QuietKeeps
<1>2. CASE \E t \in Workers : DoneIO(t)
  BY <1>0, <1>2, DoneGoes
<1>3. CASE Sending
  <2>1. PICK t \in Threads, l \in Links :
           /\ Sends(t, l)
           /\ t = Assist => \E m \in Links : ServerRun_SendIO(m)
           /\ t = Logic => SendMsg
           /\ t \in Workers => OnSend_DoneIO(t)
    BY <1>0, <1>3, SendSteps
  <2>2. \/ o \in ops
        \/ /\ o.link = l /\ o.io = "write" /\ sock[l] \in open /\ eState[l] = "connected"
           /\ ~canWrite'[l]
           /\ t \in Workers \/ canWrite[l]
    BY <2>1 DEF Sends
  <2>3. UNCHANGED <<sock, eState, open>>
    BY <2>1 DEF Sends
  <2>4. t \in Workers => Writes(t) /\ OnSend_DoneIO(t) /\ th[t].link = l
    BY <2>1 DEF Sends
  <2>5. t \notin Workers => \A u \in Workers : ~OnSend_DoneIO(u)
    <3> SUFFICES ASSUME t \notin Workers, NEW u \in Workers, OnSend_DoneIO(u) PROVE FALSE
      OBVIOUS
    <3>1. th[u].pc = "sent" /\ th'[u] # th[u]
      <4>1. th'[u] = Idle \/ \E m \in Links : th'[u] = Busy("invalid", m)
        <5>1. (\E n : PostSend(u, th[u].link, n)) \/ Goto(u, "idle")
          BY <1>0 DEF OnSend_DoneIO
        <5>2. th[u].link \in Links /\ u \in Threads
          BY <1>0 DEF Types
        <5> QED BY <1>0, <5>1, <5>2, PostGoes, Goes
      <4>2. th[u].pc = "sent"
        BY DEF OnSend_DoneIO, At
      <4>3. Idle.pc = "idle" /\ \A m : Busy("invalid", m).pc = "invalid"
        BY DEF Idle, Busy
      <4> QED BY <4>1, <4>2, <4>3
    <3>2. CASE t = Logic
      BY <1>0, <2>1, <3>1, <3>2, LogicGoes
    <3>3. CASE t = Assist
      <4>1. PICK m \in Links : ServerRun_SendIO(m)
        BY <2>1, <3>3
      <4>2. PostSend(Assist, m, sendBuf[m])
        BY <4>1 DEF ServerRun_SendIO
      <4>3. th'[u] = th[u]
        BY <1>0, <4>2, PostGoes
      <4> QED BY <3>1, <4>3
    <3> QED BY <3>2, <3>3 DEF Threads
  <2> QED BY <1>0, <2>1, <2>2, <2>3, <2>4, <2>5
<1>4. ASSUME NEW t \in Workers, OnAccept(t) PROVE ops' = ops
  BY <1>4 DEF OnAccept, netVars
<1>5. ASSUME NEW t \in Workers, PostRecv(t)
      PROVE  \/ o \in ops
             \/ /\ sock'[o.link] # NoSocket /\ eState'[o.link] # "dead" /\ o.link \in Links
                /\ o.io = "read" /\ o.link = th[t].link
  <2> DEFINE l == th[t].link
  <2>1. /\ l \in Links /\ eState[l] = "connected"
        /\ UNCHANGED <<linkVars, countVars, open, peer, wire>>
        /\ \/ ops' = ops
           \/ /\ sock[l] \in open
              /\ ops' = ops \cup {[link |-> l, io |-> "read", sock |-> sock[l], n |-> 0,
                                   nth |-> 0]}
    BY <1>0, <1>5, ReceiveSteps
  <2>2. o \in ops \/ (o.link = l /\ o.io = "read" /\ sock[l] \in open)
    BY <2>1
  <2> QED BY <1>0, <2>1, <2>2 DEF linkVars
<1>6. CASE CreateLink \/ AcceptFails \/ CloseClear \/ CloseDead \/ \E c \in Clients : Connect(c)
  BY <1>6 DEF CreateLink, AcceptFails, CloseClear, CloseDead, Connect, netVars
<1>7. CASE PostAccept
  <2> DEFINE l == th[Assist].link
  <2>1. l \in Links /\ eState[l] = "accepting" /\ UNCHANGED eState
    BY <1>0, <1>7, MakesUnused DEF PostAccept, At
  <2>2. PICK h \in Handles \ open :
          sock' = [sock EXCEPT ![l] = h] /\ ops' = ops \cup {Op(l, "read", h, 0)}
    BY <1>7 DEF PostAccept
  <2>3. Op(l, "read", h, 0).link = l /\ Op(l, "read", h, 0).io = "read"
    BY DEF Op
  <2>4. o \in ops \/ (o.link = l /\ o.io = "read")
    BY <2>2, <2>3
  <2> QED BY <1>0, <1>7, <2>1, <2>2, <2>4
<1>8. CASE CloseSocket
  <2>1. PICK h : ops' = {IF p.sock = h THEN [p EXCEPT !.sock = NoSocket] ELSE p : p \in ops}
    BY <1>8 DEF CloseSocket
  <2>2. PICK p \in ops : o = IF p.sock = h THEN [p EXCEPT !.sock = NoSocket] ELSE p
    BY <2>1
  <2>3. p \in Operations
    BY <1>0 DEF Types
  <2>4. o.link = p.link /\ o.io = p.io
    BY <2>2, <2>3 DEF Operations
  <2> QED BY <1>8, <2>4
<1> QED BY <1>0, <1>1, <1>2, <1>3, <1>4, <1>5, <1>6, <1>7, <1>8, StepGroups

\* A thread other than the assist thread that works on a link after a step did so
\* before, or completes one of its operations, or found it connected.
LEMMA ThreadOf ==
  ASSUME ServLinkAssumption, Core, OneReader, OneWriter, Transmitted, Steps,
         NEW t \in Workers \cup {Logic}, th'[t].pc # "idle"
  PROVE  \/ th[t].pc # "idle" /\ th'[t].link = th[t].link
         \/ DoneIO(t) /\ \E o \in ops : th'[t].link = o.link
         \/ \E l \in Links : CheckLink(l) /\ th'[t].link = l
<1>0. /\ Types /\ Assisting /\ Workers \subseteq Threads /\ Logic \in Threads
      /\ Logic \notin Workers /\ Assist \notin Workers /\ Logic # Assist
      /\ th \in [Threads -> Thread] /\ Assist \in Threads
  BY Kinds DEF Core, Types
<1>1. ASSUME NEW u \in Workers, WorkerGoes(u)
      PROVE  th[t].pc # "idle" /\ th'[t].link = th[t].link
  BY <1>0, <1>1, WorkerKeeps DEF Keeps
<1>2. ASSUME NEW u \in Workers, DoneIO(u)
      PROVE  \/ th[t].pc # "idle" /\ th'[t].link = th[t].link
             \/ DoneIO(t) /\ \E o \in ops : th'[t].link = o.link
  BY <1>0, <1>2, DoneGoes
<1>3. ASSUME LogicActs
      PROVE  \/ th[t].pc # "idle" /\ th'[t].link = th[t].link
             \/ \E l \in Links : CheckLink(l) /\ th'[t].link = l
  BY <1>0, <1>3, LogicGoes DEF LogicActs
<1>4. ASSUME AssistSteps PROVE th[t].pc # "idle" /\ th'[t].link = th[t].link
  BY <1>0, <1>4, AssistGoes
<1>5. ASSUME Second PROVE th[t].pc # "idle" /\ th'[t].link = th[t].link
  BY <1>0, <1>5 DEF Second
<1>6. ASSUME (\E c \in Clients : Connect(c)) \/ UNCHANGED slVars
      PROVE  th[t].pc # "idle" /\ th'[t].link = th[t].link
  BY <1>6 DEF Connect, slVars
<1> QED BY <1>1, <1>2, <1>3, <1>4, <1>5, <1>6, StepKinds

\* A link that is unused after a step was unused before, or failed to accept in it.
LEMMA StaysUnused ==
  ASSUME Assumed, Core, OneReader, OneWriter, Transmitted, Steps, NEW l \in Links, Unused(l)'
  PROVE  \/ Second
         \/ Unused(l)
         \/ AcceptFails /\ th[Assist].pc = "socket" /\ th[Assist].link = l
<1> DEFINE a == th[Assist]
           s == th'[Assist]
<1>0. /\ Types /\ Resting /\ Assisting /\ Handling /\ ServLinkAssumption /\ NoSocket \notin Handles
      /\ sock \in [Links -> Handles \cup {NoSocket}]
      /\ eState \in [Links -> {"dead", "accepting", "connected"}]
      /\ a.pc # "look" => a.link \in Links
  BY Kinds DEF Assumed, Core, Types, ServTypeOK
<1>1. CASE s = a /\ OthersDo
  <2>1. eState'[l] = "dead" => eState[l] = "dead"
    BY <1>1 DEF OthersDo
  <2> QED BY <1>1, <2>1 DEF OthersDo, Unused
<1>2. CASE AssistSteps
  <2>1. /\ Ahead(s, l) => Ahead(a, l)
        /\ l > nLink' => l > nLink
    <3>1. Ahead(s, l) => Ahead(a, l)
      BY <1>0, <1>2, AssistGoes
    <3>2. nLink' = nLink \/ (nLink' = nLink + 1)
      BY <1>2 DEF AssistSteps, AssistStep, OnInvalidMessage, CheckInvalid, Invalid, ReportErrorMsg,
                  ServerRun_SendIO, Maintain, NewLink, CreateLink, PostAccept, AcceptFails,
                  LinkOnCreate, CloseCount, CloseSocket, CloseClear, CloseDead, linkVars
    <3>3. nLink \in Nat /\ l \in Nat
      BY <1>0 DEF Types, ServTypeOK, Links
    <3> QED BY <3>1, <3>2, <3>3
  <2>2. CASE ~MakesOrCloses(l)
    <3>1. sock'[l] = sock[l] /\ eState'[l] = eState[l]
      BY <1>0, <1>2, <2>2, AssistLeaves DEF Assumed
    <3> QED BY <2>1, <3>1 DEF Unused
  <2>3. CASE MakesOrCloses(l)
    <3>0. a.link = l /\ l <= nLink /\ l \in Nat /\ nLink \in Nat
      BY <1>0, <2>3
         DEF MakesOrCloses, Assisting, Rounds, Calls, Links, Types, ServTypeOK
    <3>1. CASE CreateLink
      <4>1. Unused(l)
        BY <1>0, <3>0, <3>1 DEF CreateLink, At, Assisting, Unused, Ahead, Rounds, MakeSteps, Calls
      <4> QED BY <4>1
    <3>2. CASE PostAccept
      <4>1. sock'[l] # NoSocket /\ eState'[l] # "dead"
        BY <1>0, <3>0, <3>2, MakesUnused DEF PostAccept, At
      <4> QED BY <4>1 DEF Unused
    <3>3. CASE AcceptFails
      BY <3>0, <3>3 DEF AcceptFails, At
    <3>4. CASE a.pc \in {"closesocket", "clear", "dead"}
      <4>1. ~Ahead(a, l) /\ ~(l > nLink)
        BY <3>0, <3>4 DEF Ahead, MakeSteps
      <4>2. sock'[l] = NoSocket
        <5>1. CASE CloseSocket
          BY <1>0, <3>0, <5>1 DEF CloseSocket
        <5>2. CASE CloseDead
          BY <1>0, <3>0, <5>2 DEF CloseDead, Assisting, At
        <5>3. CASE CloseClear
          BY <1>0, <3>0, <5>3 DEF CloseClear, Assisting, At
        <5> QED BY <1>0, <1>2, <2>3, <3>4, <5>1, <5>2, <5>3, MakingSteps
      <4> QED BY <2>1, <4>1, <4>2 DEF Unused
    <3> QED BY <1>0, <1>2, <2>3, <3>1, <3>2, <3>3, <3>4, MakingSteps
  <2> QED BY <2>2, <2>3
<1> QED BY <1>0, <1>1, <1>2, Others

LEMMA QuietStep ==
  ASSUME Assumed, Core, OneReader, OneWriter, Transmitted, Steps
  PROVE  Quiet'
<1>0. /\ Types /\ OwnSockets /\ Resting /\ Assisting /\ Quiet /\ ServLinkAssumption
      /\ Workers \subseteq Threads /\ Logic \in Threads /\ Assist \in Threads
      /\ Logic # Assist /\ Assist \notin Workers /\ th \in [Threads -> Thread]
  BY Kinds DEF Assumed, Core, Types
<1> SUFFICES ASSUME NEW l \in Links, Unused(l)'
             PROVE  /\ \A o \in ops' : o.link # l
                    /\ \A t \in Workers \cup {Logic} : th'[t].pc # "idle" => th'[t].link # l
  BY DEF Quiet
<1>1. CASE Second
  <2>1. /\ \A t \in Threads : th[t].pc = "idle"
        /\ \A o \in ops : o.sock # NoSocket
        /\ UNCHANGED <<eState, sock, ops>>
        /\ \A t \in Threads : t # Assist => th'[t] = th[t]
    BY <1>0, <1>1 DEF Second, At, netVars
  <2>2. \A t \in Workers \cup {Logic} : th'[t].pc = "idle"
    BY <1>0, <2>1
  <2>3. ASSUME NEW o \in ops, o.link = l PROVE FALSE
    <3>1. sock[l] # NoSocket /\ eState[l] # "dead"
      BY <1>0, <2>1, <2>3 DEF OwnSockets
    <3> QED BY <2>1, <3>1 DEF Unused
  <2> QED BY <2>1, <2>2, <2>3
<1>2. CASE ~Second
  <2>1. /\ \A o \in ops : o.link # l
        /\ \A t \in Workers \cup {Logic} : th[t].pc # "idle" => th[t].link # l
    <3>1. CASE Unused(l)
      BY <1>0, <3>1 DEF Quiet
    <3>2. CASE AcceptFails /\ th[Assist].pc = "socket" /\ th[Assist].link = l
      BY <1>0, <3>2, MakesUnused
    <3> QED BY <1>2, <3>1, <3>2, StaysUnused
  <2>2. ASSUME NEW o \in ops', o.link = l PROVE FALSE
    <3>1. (sock'[l] # NoSocket /\ eState'[l] # "dead") \/ \E p \in ops : p.link = l
      BY <2>2, OpsOf
    <3>2. CASE sock'[l] # NoSocket /\ eState'[l] # "dead"
      BY <3>2 DEF Unused
    <3> QED BY <2>1, <3>1, <3>2
  <2>3. ASSUME NEW t \in Workers \cup {Logic}, th'[t].pc # "idle", th'[t].link = l PROVE FALSE
    <3>1. \/ th[t].pc # "idle" /\ th[t].link = l
          \/ \E o \in ops : o.link = l
          \/ CheckLink(l)
      BY <1>0, <2>3, ThreadOf
    <3>2. CASE CheckLink(l)
      <4>1. eState[l] = "connected" /\ UNCHANGED <<eState, sock, nLink>> /\ th'[Assist] = th[Assist]
        BY <1>0, <3>2 DEF CheckLink, linkVars, netVars
      <4>2. sock[l] = NoSocket /\ (l > nLink \/ Ahead(th[Assist], l))
        BY <4>1 DEF Unused
      <4>3. th[Assist].link = l /\ th[Assist].pc \in {"clear", "dead", "socket"}
        BY <1>0, <4>1, <4>2 DEF Resting
      <4>4. l <= nLink /\ l \in Nat /\ nLink \in Nat
        BY <1>0, <4>3 DEF Assisting, Rounds, Calls, Types, ServTypeOK, Links
      <4>5. th[Assist].pc = "socket"
        BY <4>2, <4>3, <4>4 DEF Ahead, MakeSteps
      <4> QED BY <1>0, <4>1, <4>3, <4>5 DEF Assisting
    <3> QED BY <2>1, <3>1, <3>2
  <2> QED BY <2>2, <2>3
<1> QED BY <1>1, <1>2

\* A thread that reads after a step read the same link before, or has just completed
\* an operation of it.
LEMMA ReadOf ==
  ASSUME ServLinkAssumption, Core, OneReader, OneWriter, Transmitted, Steps,
         NEW t \in Workers, Reads(th'[t])
  PROVE  \/ /\ Reads(th[t]) /\ th'[t].link = th[t].link /\ th'[t].who = th[t].who
            /\ \/ th'[t] = th[t]
               \/ /\ th'[t].pc # "accept" /\ WorkerGoes(t)
                  /\ At(t, "accept") => eState' = [eState EXCEPT ![th[t].link] = "connected"]
         \/ /\ ~Reads(th[t])
            /\ \E o \in ops :
                 LET l == th'[t].link
                 IN  /\ ops' = ops \ {o} /\ o.link = l /\ o.io = "read"
                     /\ o.sock # NoSocket /\ ~bInvalid[l] /\ bInvalid' = bInvalid
                     /\ eState[l] # "dead"
                     /\ th'[t].pc = "accept" <=> eState[l] = "accepting"
                     /\ th'[t].who = peer[o.sock] /\ th'[t].who # NoClient
            /\ DoneIO(t) /\ \A u \in Workers : u # t => th'[u] = th[u]
<1>0. /\ Types /\ Assisting /\ Workers \subseteq Threads /\ Logic \in Threads
      /\ Logic \notin Workers /\ Assist \notin Workers /\ Logic # Assist
      /\ th \in [Threads -> Thread] /\ Assist \in Threads
      /\ th'[t].pc # "idle"
  BY Kinds DEF Core, Types, Reads, ReadSteps, Calls
<1> DEFINE Before == /\ Reads(th[t]) /\ th'[t].link = th[t].link /\ th'[t].who = th[t].who
                     /\ \/ th'[t] = th[t]
                        \/ /\ th'[t].pc # "accept" /\ WorkerGoes(t)
                           /\ At(t, "accept") =>
                                eState' = [eState EXCEPT ![th[t].link] = "connected"]
<1>1. ASSUME NEW u \in Workers, WorkerGoes(u) PROVE Before
  <2>1. CASE u = t
    <3>1. /\ Keeps(th[t], th'[t])
          /\ At(t, "accept") => eState' = [eState EXCEPT ![th[t].link] = "connected"]
      BY <1>0, <1>1, <2>1, WorkerKeeps
    <3> QED BY <1>0, <1>1, <2>1, <3>1 DEF Keeps
  <2>2. CASE u # t
    <3>1. th'[t] = th[t]
      BY <1>0, <1>1, <2>2, WorkerKeeps
    <3> QED BY <3>1
  <2> QED BY <2>1, <2>2
<1>2. ASSUME NEW u \in Workers, u # t, DoneIO(u) PROVE Before
  <2>1. th'[t] = th[t]
    BY <1>0, <1>2, DoneGoes
  <2> QED BY <2>1
<1>3. CASE DoneIO(t)
  <2>1. th[t].pc = "idle" /\ \A u \in Threads : u # t => th'[u] = th[u]
    BY <1>0, <1>3, DoneGoes DEF At
  <2>2. ~Reads(th[t])
    BY <2>1 DEF Reads, ReadSteps, Calls
  <2>3. PICK o \in ops :
          /\ ops' = ops \ {o}
          /\ th'[t].pc # "idle" => th'[t].link = o.link
          /\ Reads(th'[t]) => /\ o.io = "read" /\ o.sock # NoSocket
                              /\ ~bInvalid[o.link] /\ bInvalid' = bInvalid
                              /\ eState[o.link] # "dead"
                              /\ th'[t].pc = "accept" <=> eState[o.link] = "accepting"
                              /\ th'[t].who = peer[o.sock] /\ th'[t].who # NoClient
    BY <1>0, <1>3, DoneGoes
  <2> QED BY <1>0, <1>3, <2>1, <2>2, <2>3
<1>4. ASSUME LogicActs \/ AssistSteps \/ Second \/ (\E c \in Clients : Connect(c))
                \/ UNCHANGED slVars
      PROVE  Before
  <2>1. CASE LogicActs
    <3>1. th'[t] = th[t]
      BY <1>0, <2>1, LogicGoes DEF LogicActs
    <3> QED BY <3>1
  <2>2. CASE AssistSteps
    <3>1. th'[t] = th[t]
      BY <1>0, <2>2, AssistGoes
    <3> QED BY <3>1
  <2>3. CASE Second \/ (\E c \in Clients : Connect(c)) \/ UNCHANGED slVars
    <3>1. th'[t] = th[t]
      BY <1>0, <2>3 DEF Second, Connect, slVars
    <3> QED BY <3>1
  <2> QED BY <1>4, <2>1, <2>2, <2>3
<1> HIDE DEF Before
<1>5. Before \/ DoneIO(t)
  BY <1>1, <1>2, <1>4, StepKinds
<1> QED BY <1>3, <1>5 DEF Before

\* A client connects to a socket that waits for one.
LEMMA PeerOf ==
  ASSUME Assumed, Core, OneReader, OneWriter, Transmitted, Steps, ~AssistSteps,
         NEW h \in Handles, peer[h] # NoClient
  PROVE  peer'[h] = peer[h]
<1>0. /\ Types /\ ServLinkAssumption /\ peer \in [Handles -> Clients \cup {NoClient}]
      /\ ServLinkAssumption /\ Core
  BY DEF Assumed, Core, Types
<1>1. CASE QuietSteps
  BY <1>1, QuietKeeps
<1>2. CASE Sending
  BY <1>0, <1>2, SendSteps DEF Sends
<1>3. CASE \E t \in Workers : DoneIO(t) \/ OnAccept(t) \/ PostRecv(t)
  BY <1>3 DEF DoneIO, OnAccept, PostRecv, netVars
<1>4. ASSUME NEW c \in Clients, Connect(c) PROVE peer'[h] = peer[h]
  <2>1. PICK o \in ops : peer[o.sock] = NoClient /\ peer' = [peer EXCEPT ![o.sock] = c]
    BY <1>4 DEF Connect
  <2> QED BY <1>0, <2>1
<1> QED BY <1>0, <1>1, <1>2, <1>3, <1>4, StepGroups DEF AssistSteps, AssistStep

LEMMA HandlingStep ==
  ASSUME Assumed, Core, OneReader, OneWriter, Transmitted, Steps
  PROVE  Handling'
<1>0. /\ Types /\ OwnSockets /\ Resting /\ Assisting /\ Quiet /\ Handling /\ ServLinkAssumption
      /\ Workers \subseteq Threads /\ Logic \in Threads /\ Assist \in Threads
      /\ Logic # Assist /\ Assist \notin Workers /\ th \in [Threads -> Thread]
      /\ sock \in [Links -> Handles \cup {NoSocket}]
      /\ eState \in [Links -> {"dead", "accepting", "connected"}]
  BY Kinds DEF Assumed, Core, Types, ServTypeOK
<1> SUFFICES ASSUME NEW t \in Workers, Reads(th'[t])
             PROVE  /\ sock'[th'[t].link] # NoSocket
                    /\ ~(bInvalid'[th'[t].link] /\ age'[th'[t].link] > 0)
                    /\ ~(th'[Assist].link = th'[t].link
                           /\ th'[Assist].pc \in {"close", "closesocket"})
                    /\ eState'[th'[t].link]
                         = IF th'[t].pc = "accept" THEN "accepting" ELSE "connected"
                    /\ peer'[sock'[th'[t].link]] = th'[t].who /\ th'[t].who # NoClient
  BY Zenon DEF Handling
<1> DEFINE l == th'[t].link
           a == th[Assist]
           s == th'[Assist]
<1>1. l \in Links
  BY TypesStep DEF Types, Assumed
<1>2. CASE Reads(th[t]) /\ l = th[t].link /\ th'[t].who = th[t].who
  <2>1. /\ sock[l] # NoSocket /\ ~(bInvalid[l] /\ age[l] > 0)
        /\ ~(a.link = l /\ a.pc \in {"close", "closesocket"})
        /\ eState[l] = IF th[t].pc = "accept" THEN "accepting" ELSE "connected"
        /\ peer[sock[l]] = th'[t].who /\ th'[t].who # NoClient
        /\ sock[l] \in Handles
    BY <1>0, <1>1, <1>2 DEF Handling
  <2>2. CASE AssistSteps
    <3>1. ~MakesOrCloses(l)
      <4>1. a.pc \in {"create", "socket"} => a.link # l
        BY <1>0, <1>2, MakesUnused DEF Assumed, Reads, ReadSteps, Calls
      <4>2. a.pc \in {"clear", "dead"} => a.link # l
        BY <1>0, <2>1 DEF Assisting
      <4> QED BY <2>1, <4>1, <4>2 DEF MakesOrCloses
    <3>2. /\ sock'[l] = sock[l] /\ eState'[l] = eState[l]
          /\ peer'[sock[l]] = peer[sock[l]]
          /\ bInvalid'[l] /\ age'[l] > 0 => bInvalid[l] /\ age[l] > 0
      BY <1>0, <1>1, <2>1, <2>2, <3>1, AssistLeaves DEF Assumed
    <3>3. th'[t] = th[t]
      BY <1>0, <2>2, AssistGoes
    <3>4. ~(s.link = l /\ s.pc \in {"close", "closesocket"})
      <4> SUFFICES ASSUME s.link = l, s.pc \in {"close", "closesocket"} PROVE FALSE
        OBVIOUS
      <4>1. a.link = l
        <5>1. Rounds(s)
          BY DEF Rounds, Calls
        <5> QED BY <1>0, <2>2, <5>1, AssistGoes
      <4>2. s.pc = "close" => bInvalid[a.link] /\ age[a.link] > 0
        BY <1>0, <2>2, AssistGoes
      <4>3. s.pc = "closesocket" => a.pc = "close"
        <5>1. s.pc = "closesocket" => CloseCount
          BY <1>0, <2>2, AssistGoes
        <5> QED BY <5>1 DEF CloseCount, At
      <4> QED BY <2>1, <4>1, <4>2, <4>3
    <3> QED BY <2>1, <3>2, <3>3, <3>4
  <2>3. CASE Second
    BY <1>0, <1>2, <2>3 DEF Second, At, Reads, ReadSteps, Calls
  <2>4. CASE ~AssistSteps /\ s = a /\ OthersDo
    <3>1. /\ sock'[l] = sock[l]
          /\ bInvalid'[l] /\ age'[l] > 0 => bInvalid[l] /\ age[l] > 0
      BY <1>1, <2>4 DEF OthersDo
    <3>2. peer'[sock[l]] = peer[sock[l]]
      BY <2>1, <2>4, PeerOf
    <3>3. eState'[l] = eState[l] \/ (OnAccept(t) /\ eState'[l] = "connected")
      <4> SUFFICES ASSUME eState'[l] # eState[l]
                   PROVE  OnAccept(t) /\ eState'[l] = "connected"
        OBVIOUS
      <4>1. PICK u \in Workers : OnAccept(u) /\ th[u].link = l
        BY <1>1, <2>4 DEF OthersDo
      <4>2. Reads(th[u])
        BY <4>1 DEF OnAccept, At, Reads, ReadSteps
      <4>3. u = t
        BY <1>2, <4>1, <4>2 DEF OneReader
      <4> QED BY <1>1, <2>4, <4>1, <4>3 DEF OthersDo
    <3>4. \/ th'[t] = th[t]
          \/ /\ th'[t].pc # "accept" /\ WorkerGoes(t)
             /\ At(t, "accept") => eState' = [eState EXCEPT ![th[t].link] = "connected"]
      BY <1>0, <1>2, ReadOf
    <3>5. eState'[l] = IF th'[t].pc = "accept" THEN "accepting" ELSE "connected"
      <4>1. CASE th'[t] = th[t]
        <5>1. ~OnAccept(t)
          <6> SUFFICES ASSUME OnAccept(t) PROVE FALSE
            OBVIOUS
          <6>1. th'[t].pc # "accept" /\ th[t].pc = "accept"
            BY <1>0, WorkerKeeps DEF WorkerGoes, Keeps, OnAccept, At
          <6> QED BY <4>1, <6>1
        <5> QED BY <2>1, <3>3, <4>1, <5>1
      <4>2. CASE th'[t].pc # "accept" /\ th[t].pc = "accept"
                   /\ eState' = [eState EXCEPT ![th[t].link] = "connected"]
        BY <1>0, <1>1, <1>2, <4>2
      <4>3. CASE th'[t].pc # "accept" /\ th[t].pc # "accept"
        BY <2>1, <3>3, <4>3
      <4> QED BY <3>4, <4>1, <4>2, <4>3 DEF At
    <3> QED BY <2>1, <2>4, <3>1, <3>2, <3>5
  <2> QED BY <1>0, <2>2, <2>3, <2>4, Others
<1>3. CASE DoneIO(t) /\ ~Reads(th[t])
  <2>1. PICK o \in ops :
          /\ o.link = l /\ o.sock # NoSocket /\ ~bInvalid[l] /\ bInvalid' = bInvalid
          /\ eState[l] # "dead"
          /\ th'[t].pc = "accept" <=> eState[l] = "accepting"
          /\ th'[t].who = peer[o.sock] /\ th'[t].who # NoClient
    BY <1>0, <1>3, ReadOf
  <2>2. sock[l] = o.sock
    BY <1>0, <2>1 DEF OwnSockets
  <2>3. s = a /\ UNCHANGED <<sock, eState, peer>>
    <3>1. s = a
      BY <1>0, <1>3, DoneGoes
    <3> QED BY <1>3, <3>1 DEF DoneIO
  <2>4. ~(a.link = l /\ a.pc \in {"close", "closesocket"})
    BY <1>0, <2>1 DEF Assisting
  <2> QED BY <1>0, <1>1, <2>1, <2>2, <2>3, <2>4
<1> QED BY <1>0, <1>2, <1>3, ReadOf

-----------------------------------------------------------------------------
(* One reader and one writer                                               *)

LEMMA OpsDistinct ==
  ASSUME Assumed, Core, OneReader, OneWriter, Transmitted, Steps
  PROVE  \A o, q \in ops' : o.link = q.link /\ o.io = q.io => o = q
<1>0. /\ ServLinkAssumption /\ Types /\ Core
      /\ \A o \in ops : o.link \in Links /\ o.io \in {"read", "write"} /\ o \in Operations
      /\ Logic \notin Workers /\ Assist \notin Workers
  BY Kinds DEF Assumed, Core, Types, Operations
<1>1. \A o, q \in ops : o.link = q.link /\ o.io = q.io => o = q
  BY <1>0 DEF OneReader, OneWriter
<1>2. ASSUME ops' \subseteq ops
      PROVE  \A o, q \in ops' : o.link = q.link /\ o.io = q.io => o = q
  BY <1>1, <1>2
<1>3. ASSUME NEW x, ops' = ops \cup {x}, \A o \in ops : ~(o.link = x.link /\ o.io = x.io)
      PROVE  \A o, q \in ops' : o.link = q.link /\ o.io = q.io => o = q
  BY <1>1, <1>3
<1>4. CASE QuietSteps
  BY <1>2, <1>4, QuietKeeps
<1>5. CASE \E t \in Workers : DoneIO(t)
  BY <1>0, <1>2, <1>5, DoneGoes
<1>6. CASE Sending
  <2>1. PICK t \in Threads, l \in Links : Sends(t, l)
    BY <1>0, <1>6, SendSteps
  <2>2. CASE ops' = ops
    BY <1>2, <2>2
  <2>3. CASE ops' # ops
    <3>1. PICK n \in 0 .. MaxUnits :
             ops' = ops \cup {[link |-> l, io |-> "write", sock |-> sock[l], n |-> n, nth |-> 0]}
      BY <2>1, <2>3 DEF Sends
    <3>2. \A o \in ops : ~(o.link = l /\ o.io = "write")
      BY <2>1, <2>3 DEF Sends, OneWriter
    <3> QED BY <1>3, <3>1, <3>2
  <2> QED BY <2>2, <2>3
<1>7. CASE \E t \in Workers : OnAccept(t)
  BY <1>2, <1>7 DEF OnAccept, netVars
<1>8. ASSUME NEW t \in Workers, PostRecv(t)
      PROVE  \A o, q \in ops' : o.link = q.link /\ o.io = q.io => o = q
  <2>1. /\ Reads(th[t])
        /\ \/ ops' = ops
           \/ ops' = ops \cup {[link |-> th[t].link, io |-> "read", sock |-> sock[th[t].link],
                                n |-> 0, nth |-> 0]}
    BY <1>0, <1>8, ReceiveSteps
  <2>2. \A o \in ops : ~(o.link = th[t].link /\ o.io = "read")
    BY <2>1 DEF OneReader
  <2> QED BY <1>2, <1>3, <2>1, <2>2
<1>9. CASE CreateLink \/ AcceptFails \/ CloseClear \/ CloseDead \/ \E c \in Clients : Connect(c)
  BY <1>2, <1>9 DEF CreateLink, AcceptFails, CloseClear, CloseDead, Connect, netVars
<1>10. CASE PostAccept
  <2>1. \A o \in ops : o.link # th[Assist].link
    BY <1>0, <1>10, MakesUnused DEF PostAccept, At
  <2>2. PICK h : ops' = ops \cup {Op(th[Assist].link, "read", h, 0)}
    BY <1>10 DEF PostAccept
  <2>3. Op(th[Assist].link, "read", h, 0).link = th[Assist].link
    BY DEF Op
  <2> QED BY <1>3, <2>1, <2>2, <2>3
<1>11. CASE CloseSocket
  <2>1. PICK h : ops' = {IF p.sock = h THEN [p EXCEPT !.sock = NoSocket] ELSE p : p \in ops}
    BY <1>11 DEF CloseSocket
  <2> DEFINE f(p) == IF p.sock = h THEN [p EXCEPT !.sock = NoSocket] ELSE p
  <2>2. ops' = {f(p) : p \in ops}
    BY <2>1
  <2>3. \A p \in ops : f(p).link = p.link /\ f(p).io = p.io
    BY <1>0 DEF Operations
  <2> HIDE DEF f
  <2> QED BY <1>1, <2>2, <2>3
<1> QED BY <1>0, <1>4, <1>5, <1>6, <1>7, <1>8, <1>9, <1>10, <1>11, StepGroups

LEMMA OneReaderStep ==
  ASSUME Assumed, Core, OneReader, OneWriter, Transmitted, Steps
  PROVE  OneReader'
<1>0. /\ ServLinkAssumption /\ Types /\ Core /\ Workers \subseteq Threads
      /\ th \in [Threads -> Thread]
  BY Kinds DEF Assumed, Core, Types
<1>1. \A o, p \in ops' : o.io = "read" /\ p.io = "read" /\ o.link = p.link => o = p
  BY OpsDistinct
<1>2. ASSUME NEW o \in ops', NEW t \in Workers, o.io = "read", Reads(th'[t]), o.link = th'[t].link
      PROVE  FALSE
  <2>1. CASE Reads(th[t]) /\ th'[t].link = th[t].link
    <3>1. \A p \in ops : p.io = "read" => p.link # th[t].link
      BY <2>1 DEF OneReader
    <3>2. CASE PostAccept /\ o.link = th[Assist].link
      <4>1. th[t].pc # "idle" => th[t].link # th[Assist].link
        BY <1>0, <3>2, MakesUnused DEF PostAccept, At
      <4> QED BY <1>2, <2>1, <3>2, <4>1 DEF Reads, ReadSteps, Calls
    <3>3. ASSUME NEW u \in Workers, PostRecv(u), o.link = th[u].link PROVE FALSE
      <4>1. Reads(th[u]) /\ ~Reads(th'[u])
        BY <1>0, <3>3, ReceiveSteps
      <4>2. u = t
        BY <1>2, <2>1, <3>3, <4>1 DEF OneReader
      <4> QED BY <1>2, <4>1, <4>2
    <3> QED BY <1>2, <2>1, <3>1, <3>2, <3>3, OpsOf
  <2>2. CASE \E p \in ops : ops' = ops \ {p} /\ p.link = th'[t].link /\ p.io = "read"
    BY <1>2, <2>2 DEF OneReader
  <2> QED BY <1>0, <1>2, <2>1, <2>2, ReadOf
<1>3. ASSUME NEW t \in Workers, NEW u \in Workers, Reads(th'[t]), Reads(th'[u]),
             th'[t].link = th'[u].link, t # u
      PROVE  FALSE
  <2>1. \/ Reads(th[t]) /\ th'[t].link = th[t].link
        \/ /\ ~Reads(th[t]) /\ th'[u] = th[u]
           /\ \E p \in ops : p.link = th'[t].link /\ p.io = "read"
    BY <1>0, <1>3, ReadOf
  <2>2. \/ Reads(th[u]) /\ th'[u].link = th[u].link
        \/ /\ ~Reads(th[u]) /\ th'[t] = th[t]
           /\ \E p \in ops : p.link = th'[u].link /\ p.io = "read"
    BY <1>0, <1>3, ReadOf
  <2> QED BY <1>3, <2>1, <2>2 DEF OneReader
<1> QED BY <1>1, <1>2, <1>3 DEF OneReader

\* Who is dropping what was sent goes on to do so, and began with its completion.
LEMMA WriteOf ==
  ASSUME ServLinkAssumption, Core, OneReader, OneWriter, Transmitted, Steps, NEW t \in Workers
  PROVE  /\ Writes(t) =>
              \/ th'[t] = th[t]
              \/ OnSend_DoneIO(t) /\ th'[t].pc \notin Writing
              \/ StillConnected(t) /\ th'[t].pc = "sent" /\ th'[t].link = th[t].link
              \/ StillConnected(t) /\ eState[th[t].link] # "connected"
         /\ th'[t].pc \in Writing =>
              \/ /\ Writes(t) /\ th'[t].link = th[t].link /\ th'[t].n = th[t].n
                 /\ ~OnSend_DoneIO(t)
              \/ /\ ~Writes(t) /\ DoneIO(t)
                 /\ \A u \in Threads : u # t => th'[u] = th[u]
                 /\ \E o \in ops :
                      /\ o.io = "write" /\ o.sock # NoSocket /\ o.link = th'[t].link
                      /\ o.link \in Links /\ ops' = ops \ {o}
                      /\ wire' = [wire EXCEPT ![o.link] = @ + th'[t].n]
<1>0. /\ Types /\ Assisting /\ Workers \subseteq Threads /\ Logic \in Threads
      /\ Logic \notin Workers /\ Assist \notin Workers /\ Logic # Assist
      /\ th \in [Threads -> Thread] /\ Assist \in Threads
  BY Kinds DEF Core, Types
<1>7. Writing = {"write", "sent"}
  BY DEF Writing
<1>2. OnSend_DoneIO(t) => th'[t].pc \notin Writing /\ th[t].pc = "sent"
  <2> SUFFICES ASSUME OnSend_DoneIO(t) PROVE th'[t].pc \notin Writing /\ th[t].pc = "sent"
    OBVIOUS
  <2>1. (\E n : PostSend(t, th[t].link, n)) \/ Goto(t, "idle")
    BY DEF OnSend_DoneIO
  <2>2. th[t].link \in Links /\ t \in Threads /\ th[t].pc = "sent"
    BY <1>0 DEF Types, OnSend_DoneIO, At
  <2>3. th'[t] = Idle \/ th'[t] = Busy("invalid", th[t].link)
    BY <1>0, <2>1, <2>2, PostGoes, Goes
  <2> QED BY <1>7, <2>2, <2>3 DEF Idle, Busy
<1>1. ASSUME NEW u \in Workers, WorkerGoes(u)
      PROVE  \/ th'[t] = th[t]
             \/ th'[t].pc \notin Writing /\ (Writes(t) => OnSend_DoneIO(t))
             \/ /\ StillConnected(t) /\ th'[t].pc = "sent" /\ th[t].pc = "write"
                /\ th'[t].link = th[t].link /\ th'[t].n = th[t].n
             \/ /\ StillConnected(t) /\ eState[th[t].link] # "connected"
                /\ th'[t].pc \notin Writing
  <2>1. CASE u # t
    BY <1>0, <1>1, <2>1, WorkerKeeps
  <2>2. CASE u = t
    <3>1. /\ th'[t].pc # "write"
          /\ th'[t].pc = "sent" => th[t].pc = "write" /\ th'[t].n = th[t].n
          /\ th'[t].pc = "sent" => th'[t].link = th[t].link
      BY <1>0, <1>1, <2>2, WorkerKeeps DEF Keeps
    <3>2. Writes(t) => OnSend_DoneIO(t) \/ StillConnected(t)
      BY <1>1, <1>7, <2>2
         DEF WorkerGoes, OnInvalidMessage, CheckInvalid, Invalid, ReportErrorMsg, OnAccept,
             LinkOnConnect, RecvMsg, BindLinkAndPlayer, HandleClientMsg, PostRecv, At, Writes
    <3>3. StillConnected(t) /\ th'[t].pc # "sent" => eState[th[t].link] # "connected"
      <4> SUFFICES ASSUME th' = [th EXCEPT ![t].pc = "sent"] PROVE th'[t].pc = "sent"
        BY DEF StillConnected
      <4> QED BY <1>0 DEF Thread
    <3>4. th[t].pc = "write" => Writes(t) /\ ~OnSend_DoneIO(t)
      BY <1>2, <1>7 DEF Writes
    <3> QED BY <1>7, <3>1, <3>2, <3>3, <3>4
  <2> QED BY <2>1, <2>2
<1>3. ASSUME NEW u \in Workers, DoneIO(u), u # t PROVE th'[t] = th[t]
  BY <1>0, <1>3, DoneGoes
<1>4. CASE DoneIO(t)
  <2>1. th[t].pc = "idle" /\ \A u \in Threads : u # t => th'[u] = th[u]
    BY <1>0, <1>4, DoneGoes DEF At
  <2>2. PICK o \in ops, k \in 0 .. MaxUnits :
          /\ ops' = ops \ {o} /\ wire' = [wire EXCEPT ![o.link] = @ + k]
          /\ th'[t].pc # "idle" => th'[t].link = o.link
          /\ th'[t].pc = "write" => o.io = "write" /\ o.sock # NoSocket /\ th'[t].n = k
          /\ th'[t].pc # "sent"
    BY <1>0, <1>4, DoneGoes
  <2>3. o.link \in Links
    BY <1>0 DEF Types, Operations
  <2>4. ~Writes(t)
    BY <1>7, <2>1 DEF Writes
  <2> QED BY <1>4, <1>7, <2>1, <2>2, <2>3, <2>4
<1>5. ASSUME LogicActs \/ AssistSteps \/ Second \/ (\E c \in Clients : Connect(c))
                \/ UNCHANGED slVars
      PROVE  th'[t] = th[t]
  <2>1. CASE LogicActs
    BY <1>0, <2>1, LogicGoes DEF LogicActs
  <2>2. CASE AssistSteps
    BY <1>0, <2>2, AssistGoes
  <2>3. CASE Second \/ (\E c \in Clients : Connect(c)) \/ UNCHANGED slVars
    BY <1>0, <2>3 DEF Second, Connect, slVars
  <2> QED BY <1>5, <2>1, <2>2, <2>3
<1>6. CASE th'[t] = th[t]
  BY <1>2, <1>6 DEF Writes
<1>8. CASE DoneIO(t) \/ th'[t] = th[t]
  BY <1>4, <1>6, <1>8
<1>9. CASE \E u \in Workers : WorkerGoes(u)
  <2>1. \/ th'[t] = th[t]
        \/ th'[t].pc \notin Writing /\ (Writes(t) => OnSend_DoneIO(t))
        \/ /\ StillConnected(t) /\ th'[t].pc = "sent" /\ th[t].pc = "write"
           /\ th'[t].link = th[t].link /\ th'[t].n = th[t].n
        \/ /\ StillConnected(t) /\ eState[th[t].link] # "connected"
           /\ th'[t].pc \notin Writing
    BY <1>1, <1>9
  <2>2. th[t].pc = "write" => Writes(t) /\ ~OnSend_DoneIO(t)
    BY <1>2, <1>7 DEF Writes
  <2> QED BY <1>6, <2>1, <2>2
<1> QED BY <1>3, <1>5, <1>8, <1>9, StepKinds

\* How a link comes to accept, to be allowed to write and to have more to send.
LEMMA LinkOf ==
  ASSUME Assumed, Core, OneReader, OneWriter, Transmitted, Steps, NEW l \in Links
  PROVE  /\ eState'[l] = "accepting" =>
              \/ eState[l] = "accepting"
              \/ CreateLink /\ th[Assist].pc = "create" /\ th[Assist].link = l
         /\ eState'[l] = "connected" =>
              \/ eState[l] = "connected"
              \/ eState[l] = "accepting" /\ \E t \in Workers : OnAccept(t)
         /\ canWrite'[l] =>
              \/ canWrite[l]
              \/ eState[l] = "accepting"
              \/ \E t \in Workers : Writes(t) /\ OnSend_DoneIO(t) /\ th[t].link = l
         /\ sendBuf'[l] <= sendBuf[l] \/ SendMsg
<1>0. /\ Types /\ OwnSockets /\ Assisting /\ ServLinkAssumption /\ Core
      /\ eState \in [Links -> {"dead", "accepting", "connected"}]
      /\ canWrite \in [Links -> BOOLEAN] /\ sendBuf \in [Links -> 0 .. MaxUnits]
      /\ MaxUnits \in Nat /\ \A n \in 0 .. MaxUnits : 0 <= n /\ n <= n
      /\ \A t \in Workers : th[t].link \in Links
      /\ th[Assist].pc # "look" => th[Assist].link \in Links
      /\ Logic \notin Workers /\ Assist \notin Workers /\ Assist # Logic
  BY Kinds DEF Assumed, Core, Types, ServTypeOK
<1>1. CASE UNCHANGED <<eState, canWrite, sendBuf>>
  BY <1>0, <1>1
<1>2. CASE QuietSteps
  BY <1>1, <1>2, QuietKeeps
<1>3. CASE \E t \in Workers : DoneIO(t) \/ PostRecv(t)
  BY <1>1, <1>3 DEF DoneIO, PostRecv, linkVars
<1>4. CASE Sending
  <2>1. PICK t \in Threads, m \in Links :
           Sends(t, m) /\ (t = Logic => SendMsg) /\ (t \in Workers => OnSend_DoneIO(t))
    BY <1>0, <1>4, SendSteps
  <2>2. CASE m # l
    <3>1. sendBuf'[l] = sendBuf[l] /\ canWrite'[l] = canWrite[l] /\ eState' = eState
      BY <2>1, <2>2 DEF Sends
    <3> QED BY <1>0, <3>1
  <2>3. CASE m = l
    <3>1. /\ eState' = eState
          /\ canWrite'[l] => canWrite[l] \/ t \in Workers
          /\ t \in Workers => Writes(t) /\ OnSend_DoneIO(t) /\ th[t].link = l
          /\ t # Logic => sendBuf'[l] <= sendBuf[l]
      BY <2>1, <2>3 DEF Sends
    <3> QED BY <1>0, <2>1, <3>1
  <2> QED BY <2>2, <2>3
<1>5. ASSUME NEW t \in Workers, OnAccept(t)
      PROVE  /\ eState'[l] = "accepting" => eState[l] = "accepting"
             /\ eState'[l] = "connected" => eState[l] \in {"connected", "accepting"}
             /\ canWrite'[l] => canWrite[l] \/ eState[l] = "accepting"
             /\ sendBuf' = sendBuf
  <2>1. th[t].pc = "accept" /\ Reads(th[t])
    BY <1>5 DEF OnAccept, At, Reads, ReadSteps
  <2>2. eState[th[t].link] = "accepting"
    BY <2>1 DEF Core, Handling
  <2>3. \A m \in Links : m # th[t].link => eState'[m] = eState[m] /\ canWrite'[m] = canWrite[m]
    BY <1>0, <1>5 DEF OnAccept
  <2>4. /\ sendBuf' = sendBuf
        /\ eState'[th[t].link] = "accepting" => eState[th[t].link] = "accepting"
    BY <2>2, <1>5 DEF OnAccept
  <2>5. CASE l = th[t].link
    BY <2>2, <2>4, <2>5
  <2>6. CASE l # th[t].link
    BY <2>3, <2>4, <2>6
  <2> QED BY <2>5, <2>6
<1>6. CASE CreateLink
  <2>1. th[Assist].pc = "create" /\ th[Assist].link \in Links
    BY <1>0, <1>6 DEF CreateLink, At
  <2>2. CASE th[Assist].link = l
    <3>1. eState'[l] = "accepting" /\ ~canWrite'[l] /\ sendBuf'[l] = 0
      BY <1>0, <1>6, <2>2 DEF CreateLink
    <3> QED BY <1>0, <1>6, <2>1, <2>2, <3>1
  <2>3. CASE th[Assist].link # l
    <3>1. eState'[l] = eState[l] /\ canWrite'[l] = canWrite[l] /\ sendBuf'[l] = sendBuf[l]
      BY <1>0, <1>6, <2>3 DEF CreateLink
    <3> QED BY <1>0, <3>1
  <2> QED BY <2>2, <2>3
<1>7. CASE PostAccept \/ CloseSocket \/ \E c \in Clients : Connect(c)
  BY <1>1, <1>7 DEF PostAccept, CloseSocket, Connect, linkVars
<1>8. CASE AcceptFails
  <2>1. (eState'[l] = eState[l] \/ eState'[l] = "dead") /\ UNCHANGED <<canWrite, sendBuf>>
    BY <1>0, <1>8 DEF AcceptFails
  <2> QED BY <1>0, <2>1
<1>9. CASE CloseClear \/ CloseDead
  <2>1. /\ eState'[l] = eState[l] \/ eState'[l] = "dead"
        /\ canWrite' = canWrite
        /\ sendBuf'[l] = sendBuf[l] \/ sendBuf'[l] = 0
    BY <1>0, <1>9 DEF CloseClear, CloseDead
  <2> QED BY <1>0, <2>1
<1> QED BY <1>0, <1>2, <1>3, <1>4, <1>5, <1>6, <1>7, <1>8, <1>9, StepGroups

LEMMA OneWriterStep ==
  ASSUME Assumed, Core, OneReader, OneWriter, Transmitted, Steps
  PROVE  OneWriter'
<1>0. /\ ServLinkAssumption /\ Types /\ Core /\ Assisting /\ Workers \subseteq Threads
      /\ th \in [Threads -> Thread] /\ Logic \in Threads /\ Assist \in Threads
      /\ Logic \notin Workers /\ Assist \notin Workers /\ Assist # Logic
      /\ \A t \in Workers : th[t].link \in Links /\ th'[t].link \in Links
      /\ \A o \in ops : o.link \in Links
      /\ eState \in [Links -> {"dead", "accepting", "connected"}]
      /\ sendBuf \in [Links -> 0 .. MaxUnits] /\ MaxUnits \in Nat
      /\ sendBuf' \in [Links -> 0 .. MaxUnits]
      /\ th[Logic].link \in Links /\ th'[Logic].link \in Links
  BY Kinds, TypesStep DEF Assumed, Core, Types, ServTypeOK, Operations
<1>1. \A o, p \in ops' : o.io = "write" /\ p.io = "write" /\ o.link = p.link => o = p
  BY OpsDistinct
<1>2. ASSUME NEW o \in ops', NEW t \in Workers, o.io = "write", th'[t].pc \in Writing,
             o.link = th'[t].link
      PROVE  FALSE
  <2>1. CASE Writes(t) /\ th'[t].link = th[t].link /\ ~OnSend_DoneIO(t)
    <3>1. /\ \A p \in ops : p.io = "write" => p.link # th[t].link
          /\ ~canWrite[th[t].link]
          /\ \A u \in Workers : Writes(u) /\ th[u].link = th[t].link => u = t
      BY <2>1 DEF OneWriter
    <3> QED BY <1>2, <2>1, <3>1, OpsOf
  <2>2. CASE \E p \in ops : p.io = "write" /\ p.link = th'[t].link /\ ops' = ops \ {p}
    BY <1>2, <2>2 DEF OneWriter
  <2> QED BY <1>0, <1>2, <2>1, <2>2, WriteOf
<1>3. ASSUME NEW t \in Workers, NEW u \in Workers, th'[t].pc \in Writing, th'[u].pc \in Writing,
             th'[t].link = th'[u].link, t # u
      PROVE  FALSE
  <2>1. \/ Writes(t) /\ th'[t].link = th[t].link
        \/ /\ ~Writes(t) /\ th'[u] = th[u]
           /\ \E p \in ops : p.link = th'[t].link /\ p.io = "write"
    BY <1>0, <1>3, WriteOf
  <2>2. \/ Writes(u) /\ th'[u].link = th[u].link
        \/ /\ ~Writes(u) /\ th'[t] = th[t]
           /\ \E p \in ops : p.link = th'[u].link /\ p.io = "write"
    BY <1>0, <1>3, WriteOf
  <2> QED BY <1>3, <2>1, <2>2 DEF OneWriter, Writes
\* A link somebody writes stays closed to others.
<1>4. ASSUME NEW l \in Links, eState[l] # "accepting", ~canWrite[l],
             ~(th[Assist].pc = "create" /\ th[Assist].link = l),
             \A t \in Workers : Writes(t) /\ OnSend_DoneIO(t) => th[t].link # l
      PROVE  eState'[l] # "accepting" /\ ~canWrite'[l]
  BY <1>4, LinkOf
<1>5. ASSUME NEW o \in ops', o.io = "write"
      PROVE  eState'[o.link] # "accepting" /\ ~canWrite'[o.link]
  <2>1. CASE \E p \in ops : o.link = p.link /\ p.io = "write"
    <3>1. PICK p \in ops : o.link = p.link /\ p.io = "write"
      BY <2>1
    <3>2. /\ p.link \in Links /\ eState[p.link] # "accepting" /\ ~canWrite[p.link]
          /\ \A t \in Workers : Writes(t) => th[t].link # p.link
      BY <1>0, <3>1 DEF OneWriter
    <3>3. ~(th[Assist].pc = "create" /\ th[Assist].link = p.link)
      BY <1>0, MakesUnused
    <3> QED BY <1>4, <3>1, <3>2, <3>3
  <2> QED BY <1>5, <2>1, OpsOf
<1>6. ASSUME NEW t \in Workers, th'[t].pc \in Writing
      PROVE  eState'[th'[t].link] # "accepting" /\ ~canWrite'[th'[t].link]
  <2>1. CASE Writes(t) /\ th'[t].link = th[t].link /\ ~OnSend_DoneIO(t)
    <3>1. /\ eState[th[t].link] # "accepting" /\ ~canWrite[th[t].link]
          /\ \A u \in Workers : Writes(u) /\ th[u].link = th[t].link => u = t
      BY <2>1 DEF OneWriter
    <3>2. ~(th[Assist].pc = "create" /\ th[Assist].link = th[t].link)
      BY <1>0, <2>1, MakesUnused DEF Writes, Writing
    <3>3. th[t].link \in Links /\ th'[t].link = th[t].link
      BY <1>0, <2>1
    <3> QED BY <1>4, <2>1, <3>1, <3>2, <3>3
  <2>2. CASE DoneIO(t) /\ \E o \in ops : o.io = "write" /\ o.link = th'[t].link
    <3>1. UNCHANGED <<eState, canWrite>>
      BY <2>2 DEF DoneIO
    <3> QED BY <2>2, <3>1 DEF OneWriter
  <2> QED BY <1>0, <1>6, <2>1, <2>2, WriteOf
<1>7. ASSUME th'[Logic].pc = "append"
      PROVE  eState'[th'[Logic].link] # "accepting" /\ sendBuf'[th'[Logic].link] < MaxUnits
  <2>1. CASE \E l \in Links : CheckLink(l) /\ th'[Logic].link = l
    <3>1. PICK l \in Links : CheckLink(l) /\ th'[Logic].link = l
      BY <2>1
    <3> QED BY <3>1 DEF CheckLink, linkVars
  <2>2. CASE th'[Logic] = th[Logic] /\ ~SendMsg
    <3>1. th[Logic].pc = "append" /\ th[Logic].pc # "idle"
      BY <1>7, <2>2
    <3>2. eState[th[Logic].link] # "accepting" /\ sendBuf[th[Logic].link] < MaxUnits
      BY <3>1 DEF OneWriter, At
    <3>3. ~(th[Assist].pc = "create" /\ th[Assist].link = th[Logic].link)
      BY <1>0, <3>1, MakesUnused
    <3>4. /\ eState'[th[Logic].link] # "accepting"
          /\ sendBuf'[th[Logic].link] <= sendBuf[th[Logic].link]
      BY <1>0, <2>2, <3>2, <3>3, LinkOf
    <3> QED BY <1>0, <2>2, <3>2, <3>4
  <2>3. CASE LogicActs
    BY <1>0, <1>7, <2>1, <2>3, LogicGoes DEF LogicActs, Calls
  <2>4. CASE ~LogicActs
    <3>1. ASSUME NEW u \in Workers, WorkerGoes(u) PROVE th'[Logic] = th[Logic]
      BY <1>0, <3>1, WorkerKeeps
    <3>2. ASSUME NEW u \in Workers, DoneIO(u) PROVE th'[Logic] = th[Logic]
      BY <1>0, <3>2, DoneGoes
    <3>3. ASSUME AssistSteps PROVE th'[Logic] = th[Logic]
      BY <1>0, <3>3, AssistGoes
    <3>4. ASSUME Second \/ (\E c \in Clients : Connect(c)) \/ UNCHANGED slVars
          PROVE  th'[Logic] = th[Logic]
      BY <1>0, <3>4 DEF Second, Connect, slVars
    <3> QED BY <1>0, <2>2, <2>4, <3>1, <3>2, <3>3, <3>4, StepKinds DEF LogicActs
  <2> QED BY <2>3, <2>4
<1> QED BY <1>1, <1>2, <1>3, <1>5, <1>6, <1>7 DEF OneWriter, At, Writes

-----------------------------------------------------------------------------
(* What is transmitted, and for whom                                       *)

\* What a step does to the count of what was transmitted of a link's buffer.
LEMMA WireOf ==
  ASSUME Assumed, Core, OneReader, OneWriter, Transmitted, Steps, NEW l \in Links
  PROVE  \/ wire'[l] = wire[l]
         \/ wire'[l] = 0 /\ CreateLink /\ th[Assist].pc = "create" /\ th[Assist].link = l
         \/ /\ wire'[l] = 0
            /\ \E t \in Workers : Writes(t) /\ OnSend_DoneIO(t) /\ th[t].link = l
         \/ \E t \in Workers, o \in ops :
              /\ DoneIO(t) /\ th'[t].pc = "write" /\ th'[t].link = l
              /\ o.io = "write" /\ o.link = l /\ o.sock # NoSocket
              /\ wire'[l] = wire[l] + th'[t].n
<1>0. /\ Types /\ ServLinkAssumption /\ Core /\ MaxUnits \in Nat
      /\ wire \in [Links -> 0 .. MaxUnits]
      /\ eState \in [Links -> {"dead", "accepting", "connected"}]
      /\ \A t \in Workers : th[t].link \in Links
      /\ \A o \in ops : o.link \in Links
      /\ th[Assist].pc # "look" => th[Assist].link \in Links
      /\ Logic \notin Workers /\ Assist \notin Workers
  BY Kinds DEF Assumed, Core, Types, ServTypeOK, Operations
<1>1. CASE QuietSteps
  BY <1>1, QuietKeeps
<1>2. ASSUME NEW t \in Workers, DoneIO(t)
      PROVE  \/ wire'[l] = wire[l]
             \/ \E o \in ops :
                  /\ th'[t].pc = "write" /\ th'[t].link = l
                  /\ o.io = "write" /\ o.link = l /\ o.sock # NoSocket
                  /\ wire'[l] = wire[l] + th'[t].n
  <2>1. PICK o \in ops, k \in 0 .. MaxUnits :
          /\ wire' = [wire EXCEPT ![o.link] = @ + k]
          /\ th'[t].pc # "idle" => th'[t].link = o.link
          /\ k # 0 <=> th'[t].pc = "write"
          /\ th'[t].pc = "write" => o.io = "write" /\ o.sock # NoSocket /\ th'[t].n = k
    BY <1>0, <1>2, DoneGoes
  <2>2. CASE k = 0
    <3>1. \A m \in Links : wire[m] + 0 = wire[m]
      BY <1>0
    <3> QED BY <1>0, <2>1, <2>2, <3>1
  <2>3. CASE k # 0
    <3>1. wire'[o.link] = wire[o.link] + k /\ \A m \in Links : m # o.link => wire'[m] = wire[m]
      BY <1>0, <2>1
    <3> QED BY <2>1, <2>3, <3>1
  <2> QED BY <2>2, <2>3
<1>3. CASE Sending
  <2>1. PICK t \in Threads, m \in Links :
           /\ Sends(t, m)
           /\ t = Assist => \E i \in Links : ServerRun_SendIO(i)
           /\ t = Logic => SendMsg
           /\ t \in Workers => OnSend_DoneIO(t)
    BY <1>0, <1>3, SendSteps
  <2>2. CASE m # l
    BY <2>1, <2>2 DEF Sends
  <2>3. CASE m = l
    <3>1. /\ t \in Workers => Writes(t) /\ OnSend_DoneIO(t) /\ th[t].link = l
          /\ wire'[l] = IF t \in Workers THEN 0 ELSE wire[l]
      BY <2>1, <2>3 DEF Sends
    <3> QED BY <3>1
  <2> QED BY <2>2, <2>3
<1>4. CASE \E t \in Workers : OnAccept(t) \/ PostRecv(t)
  BY <1>4 DEF OnAccept, PostRecv, netVars
<1>5. CASE PostAccept \/ AcceptFails \/ CloseSocket \/ CloseClear \/ CloseDead
             \/ \E c \in Clients : Connect(c)
  BY <1>5 DEF PostAccept, AcceptFails, CloseSocket, CloseClear, CloseDead, Connect, netVars
<1>6. CASE CreateLink
  <2>1. th[Assist].pc = "create" /\ wire' = [wire EXCEPT ![th[Assist].link] = 0]
    BY <1>6 DEF CreateLink, At
  <2> QED BY <1>0, <1>6, <2>1
<1> QED BY <1>0, <1>1, <1>2, <1>3, <1>4, <1>5, <1>6, StepGroups

LEMMA TransmittedStep ==
  ASSUME Assumed, Core, OneReader, OneWriter, Transmitted, Steps
  PROVE  Transmitted'
<1>0. /\ Types /\ OwnSockets /\ Assisting /\ Resting /\ ServLinkAssumption /\ Core
      /\ MaxUnits \in Nat /\ wire \in [Links -> 0 .. MaxUnits]
      /\ eState \in [Links -> {"dead", "accepting", "connected"}]
      /\ eState' \in [Links -> {"dead", "accepting", "connected"}]
      /\ \A t \in Workers : th[t].link \in Links /\ th'[t].link \in Links
      /\ \A t \in Workers : th'[t].n \in 0 .. MaxUnits
      /\ \A o \in ops : o.link \in Links
  BY Kinds, TypesStep DEF Assumed, Core, Types, ServTypeOK, Operations, Thread
<1>1. ASSUME NEW t \in Workers, th'[t].pc \in Writing
      PROVE  wire'[th'[t].link] = th'[t].n
  <2> DEFINE l == th'[t].link
  <2>1. CASE /\ Writes(t) /\ th'[t].link = th[t].link /\ th'[t].n = th[t].n
             /\ ~OnSend_DoneIO(t)
    <3>1. /\ l \in Links /\ l = th[t].link /\ eState[l] # "accepting"
          /\ \A u \in Workers : Writes(u) /\ th[u].link = l => u = t
          /\ \A o \in ops : o.io = "write" => o.link # l
      BY <1>0, <2>1 DEF OneWriter
    <3>2. wire[l] = th'[t].n
      BY <2>1, <3>1 DEF Transmitted
    <3>3. ~(th[Assist].pc = "create" /\ th[Assist].link = l)
      BY <1>0, <2>1, <3>1, MakesUnused DEF Writes, Writing
    <3> QED BY <2>1, <3>1, <3>2, <3>3, WireOf
  <2>2. CASE /\ DoneIO(t)
             /\ \E o \in ops :
                  /\ o.io = "write" /\ o.sock # NoSocket /\ o.link = l /\ o.link \in Links
                  /\ wire' = [wire EXCEPT ![o.link] = @ + th'[t].n]
    <3>1. wire'[l] = wire[l] + th'[t].n /\ l \in Links
      BY <1>0, <2>2
    <3>2. eState[l] # "dead" /\ \A u \in Workers : Writes(u) => th[u].link # l
      BY <2>2, <1>0 DEF OwnSockets, OneWriter
    <3>3. wire[l] = 0
      BY <3>1, <3>2 DEF Transmitted
    <3> QED BY <1>0, <3>1, <3>3
  <2> QED BY <1>0, <1>1, <2>1, <2>2, WriteOf
<1>2. ASSUME NEW l \in Links, eState'[l] # "dead",
             \A t \in Workers : th'[t].pc \in Writing => th'[t].link # l
      PROVE  wire'[l] = 0
  <2>1. CASE wire'[l] = wire[l]
    <3>1. CASE eState[l] # "dead" /\ \A t \in Workers : Writes(t) => th[t].link # l
      BY <2>1, <3>1 DEF Transmitted
    <3>2. CASE eState[l] = "dead"
      <4>1. CreateLink /\ th[Assist].pc = "create" /\ th[Assist].link = l
        <5>1. eState'[l] \in {"accepting", "connected"}
          BY <1>0, <1>2
        <5> QED BY <3>2, <5>1, LinkOf
      <4> QED BY <1>0, <4>1 DEF CreateLink
    <3>3. ASSUME eState[l] # "dead", NEW t \in Workers, Writes(t), th[t].link = l
          PROVE  wire'[l] = 0
      <4>1. eState[l] = "connected"
        BY <1>0, <3>3 DEF OneWriter
      <4>2. "sent" \in Writing /\ th[t].pc \in Writing
        BY <3>3 DEF Writing, Writes
      <4>3. OnSend_DoneIO(t)
        BY <1>0, <1>2, <3>3, <4>1, <4>2, WriteOf
      <4>4. wire' = [wire EXCEPT ![l] = @ - th[t].n] /\ wire[l] = th[t].n
        BY <3>3, <4>3 DEF OnSend_DoneIO, Transmitted
      <4> QED BY <1>0, <4>4
    <3> QED BY <3>1, <3>2, <3>3
  <2>2. ASSUME NEW t \in Workers, th'[t].pc = "write", th'[t].link = l PROVE FALSE
    BY <1>2, <2>2 DEF Writing
  <2> QED BY <1>2, <2>1, <2>2, WireOf
<1> QED BY <1>1, <1>2 DEF Transmitted, Writes

LEMMA OwnersStep ==
  ASSUME Assumed, Core, OneReader, OneWriter, Transmitted, Owners, Steps
  PROVE  Owners'
<1>0. /\ Types /\ OwnSockets /\ Assisting /\ Handling /\ ServLinkAssumption
      /\ sock \in [Links -> Handles \cup {NoSocket}]
  BY DEF Assumed, Core, Types, ServTypeOK
<1> SUFFICES ASSUME NEW l \in Links, sock'[l] # NoSocket, player'[l] # NoClient
             PROVE  peer'[sock'[l]] = player'[l]
  BY DEF Owners
<1>1. CASE UNCHANGED <<sock, player, peer>>
  BY <1>1 DEF Owners
<1>2. CASE AssistSteps /\ ~MakesOrCloses(l)
  BY <1>0, <1>2, AssistLeaves DEF Owners
<1>3. CASE AssistSteps /\ MakesOrCloses(l)
  <2>1. ~CreateLink /\ ~CloseClear /\ ~CloseDead
    BY <1>0, <1>3 DEF MakesOrCloses, CreateLink, CloseClear, CloseDead, Assisting, At
  <2>2. ~CloseSocket
    BY <1>0, <1>3 DEF MakesOrCloses, CloseSocket
  <2>3. ~PostAccept /\ ~AcceptFails
    BY <1>0, <1>3, MakesUnused DEF MakesOrCloses, PostAccept, AcceptFails, At
  <2> QED BY <1>0, <1>3, <2>1, <2>2, <2>3, MakingSteps
<1>4. CASE ~AssistSteps /\ OthersDo
  <2>1. sock'[l] = sock[l] /\ sock[l] \in Handles
    BY <1>0, <1>4 DEF OthersDo
  <2>2. CASE player'[l] = player[l]
    <3>1. peer[sock[l]] = player[l] /\ peer[sock[l]] # NoClient
      BY <2>1, <2>2 DEF Owners
    <3> QED BY <1>4, <2>1, <2>2, <3>1, PeerOf
  <2>3. ASSUME NEW t \in Workers, BindLinkAndPlayer(t), th[t].link = l, player'[l] = th[t].who
        PROVE  peer'[sock[l]] = player'[l]
    <3>1. Reads(th[t])
      BY <2>3 DEF BindLinkAndPlayer, At, Reads, ReadSteps
    <3>2. peer[sock[l]] = th[t].who /\ th[t].who # NoClient
      BY <1>0, <2>3, <3>1 DEF Handling
    <3> QED BY <1>4, <2>1, <2>3, <3>2, PeerOf
  <2> QED BY <1>4, <2>1, <2>2, <2>3 DEF OthersDo
<1>5. CASE Second
  BY <1>1, <1>5 DEF Second, netVars
<1> QED BY <1>0, <1>2, <1>3, <1>4, <1>5, Others

-----------------------------------------------------------------------------
(* The counters                                                            *)

Linked(s) == {l \in Links \ Closing : eState[l] = s}

LEMMA CountersSets ==
  ASSUME ServLinkAssumption
  PROVE  /\ \A s : IsFiniteSet(Linked(s))
         /\ IsFiniteSet(Connecting) /\ IsFiniteSet(Making)
<1>1. IsFiniteSet(Links) /\ IsFiniteSet(Workers)
  BY FS_Interval DEF Links, ServLinkAssumption
<1>2. \A s : Linked(s) \subseteq Links
  BY DEF Linked
<1>3. Connecting \subseteq Workers /\ Making \subseteq Links
  BY DEF Connecting, Making
<1> QED BY <1>1, <1>2, <1>3, FS_Subset

LEMMA OneMore ==
  ASSUME NEW S, NEW T, NEW x, IsFiniteSet(S), x \notin S, T = S \cup {x}
  PROVE  Cardinality(T) = Cardinality(S) + 1 /\ Cardinality(S) \in Int
BY FS_AddElement, FS_CardinalityType

LEMMA OneLess ==
  ASSUME NEW S, NEW T, NEW x, IsFiniteSet(S), x \in S, T = S \ {x}
  PROVE  Cardinality(T) = Cardinality(S) - 1 /\ Cardinality(S) \in Int
BY FS_RemoveElement, FS_CardinalityType

\* A worker counts a connection after it accepted it.
LEMMA ConnectOf ==
  ASSUME ServLinkAssumption, Core, OneReader, OneWriter, Transmitted, Steps,
         NEW t \in Workers, ~OnAccept(t), ~LinkOnConnect(t)
  PROVE  th'[t].pc = "connect" <=> th[t].pc = "connect"
<1>0. /\ Types /\ Assisting /\ Workers \subseteq Threads /\ Logic \in Threads
      /\ Logic \notin Workers /\ Assist \notin Workers /\ Logic # Assist
      /\ th \in [Threads -> Thread] /\ Assist \in Threads /\ t \in Threads
      /\ th[t].ret \in WorkerRets
  BY Kinds DEF Core, Types
<1>1. ASSUME NEW u \in Workers, u # t, WorkerGoes(u) \/ DoneIO(u) PROVE th'[t] = th[t]
  BY <1>0, <1>1, WorkerKeeps, DoneGoes
<1>2. ASSUME DoneIO(t) PROVE th[t].pc # "connect" /\ th'[t].pc # "connect"
  BY <1>0, <1>2, DoneGoes DEF At
<1>3. \A pc \in {"idle", "packet", "handle", "post", "bind"} : Goto(t, pc) => th'[t].pc # "connect"
  <2> SUFFICES ASSUME NEW pc \in {"idle", "packet", "handle", "post", "bind"}, Goto(t, pc)
               PROVE  th'[t].pc # "connect"
    OBVIOUS
  <2>1. /\ pc = "idle" => th'[t] = Idle
        /\ pc # "idle" => th'[t] = [pc |-> pc, link |-> th[t].link, ret |-> "idle", n |-> th[t].n,
                                    who |-> th[t].who]
    BY <1>0, Goes
  <2> QED BY <2>1 DEF Idle, Busy
<1>4. ASSUME NEW ret, Call(t, ret) PROVE th'[t].pc # "connect"
  BY <1>0, <1>4 DEF Call, Thread
<1>5. ASSUME OnInvalidMessage(t) PROVE th[t].pc # "connect" /\ th'[t].pc # "connect"
  <2> DEFINE Rec(pc, ret) == [pc |-> pc, link |-> th[t].link, ret |-> ret, n |-> th[t].n,
                              who |-> th[t].who]
  <2>1. /\ th[t].pc \in Calls
        /\ \/ \E pc \in Calls : th'[t] = Rec(pc, th[t].ret)
           \/ th'[t] = Idle
           \/ th[t].ret = "next"
           \/ th[t].ret \in WorkerRets \ {"idle"} /\ th'[t] = Rec(th[t].ret, "idle")
    BY <1>0, <1>5, CallGoes
  <2>2. Idle.pc = "idle" /\ \A pc, ret : Rec(pc, ret).pc = pc
    BY DEF Idle, Busy
  <2>3. th[t].ret # "next"
    BY <1>0 DEF WorkerRets
  <2> HIDE DEF Rec
  <2> QED BY <2>1, <2>2, <2>3 DEF Calls, WorkerRets
<1>6. ASSUME OnSend_DoneIO(t) PROVE th[t].pc # "connect" /\ th'[t].pc # "connect"
  <2>1. (\E n : PostSend(t, th[t].link, n)) \/ Goto(t, "idle")
    BY <1>6 DEF OnSend_DoneIO
  <2>2. th[t].link \in Links
    BY <1>0 DEF Types
  <2>3. th'[t] = Idle \/ th'[t] = Busy("invalid", th[t].link)
    BY <1>0, <2>1, <2>2, PostGoes, Goes
  <2>4. Idle.pc = "idle" /\ Busy("invalid", th[t].link).pc = "invalid"
    BY DEF Idle, Busy
  <2> QED BY <1>6, <2>3, <2>4 DEF OnSend_DoneIO, At
<1>7. ASSUME RecvMsg(t) \/ BindLinkAndPlayer(t) \/ HandleClientMsg(t) \/ PostRecv(t)
      PROVE  th[t].pc # "connect" /\ th'[t].pc # "connect"
  BY <1>3, <1>4, <1>7 DEF RecvMsg, BindLinkAndPlayer, HandleClientMsg, PostRecv, At
<1>8. ASSUME LogicActs \/ AssistSteps \/ Second \/ (\E c \in Clients : Connect(c))
                \/ UNCHANGED slVars
      PROVE  th'[t] = th[t]
  <2>1. CASE LogicActs
    BY <1>0, <2>1, LogicGoes DEF LogicActs
  <2>2. CASE AssistSteps
    BY <1>0, <2>2, AssistGoes
  <2>3. CASE Second \/ (\E c \in Clients : Connect(c)) \/ UNCHANGED slVars
    BY <1>0, <2>3 DEF Second, Connect, slVars
  <2> QED BY <1>8, <2>1, <2>2, <2>3
<1>11. ASSUME StillConnected(t) PROVE th[t].pc # "connect" /\ th'[t].pc # "connect"
  <2>1. th[t].pc = "write"
    BY <1>11 DEF StillConnected, At
  <2>2. CASE th' = [th EXCEPT ![t].pc = "sent"]
    BY <1>0, <2>1, <2>2 DEF Thread
  <2>3. CASE Goto(t, "idle")
    BY <1>3, <2>1, <2>3
  <2> QED BY <1>11, <2>2, <2>3 DEF StillConnected
<1>9. ASSUME WorkerGoes(t) PROVE th[t].pc # "connect" /\ th'[t].pc # "connect"
  BY <1>5, <1>6, <1>7, <1>9, <1>11 DEF WorkerGoes
<1>10. ASSUME NEW u \in Workers, WorkerGoes(u) \/ DoneIO(u)
       PROVE  th'[t].pc = "connect" <=> th[t].pc = "connect"
  BY <1>1, <1>2, <1>9, <1>10
<1> QED BY <1>8, <1>10, StepKinds

\* Each link is counted once, and one that is closed or made in the meantime as before.
LEMMA InvalidCounted ==
  ASSUME ServLinkAssumption, Core, CountersAgree, Steps
  PROVE  nInvalid' = MaxLink - nConnect' - nAccept'
<1>0. /\ nInvalid = MaxLink - nConnect - nAccept
      /\ nConnect \in Int /\ nAccept \in Int /\ MaxLink \in Int
      /\ eState \in [Links -> {"dead", "accepting", "connected"}]
      /\ th[Assist].pc = "close" => th[Assist].link \in Links
  BY DEF CountersAgree, Core, Types, ServTypeOK, ServLinkAssumption
<1>1. CASE UNCHANGED countVars
  BY <1>0, <1>1 DEF countVars
<1>2. ASSUME NEW t \in Workers, LinkOnConnect(t) PROVE nInvalid' = MaxLink - nConnect' - nAccept'
  BY <1>0, <1>2 DEF LinkOnConnect
<1>3. CASE LinkOnCreate
  BY <1>0, <1>3 DEF LinkOnCreate
<1>4. CASE CloseCount
  <2>1. eState[th[Assist].link] \in {"dead", "accepting", "connected"}
    BY <1>0, <1>4 DEF CloseCount, At
  <2> QED BY <1>0, <1>4, <2>1 DEF CloseCount
<1>5. ASSUME NEW t \in Threads, OnInvalidMessage(t) PROVE UNCHANGED countVars
  BY <1>5 DEF OnInvalidMessage, CheckInvalid, Invalid, ReportErrorMsg
<1>6. ASSUME NEW t \in Workers, Complete(t), ~LinkOnConnect(t) PROVE UNCHANGED countVars
  BY <1>6 DEF Complete, DoneIO, StillConnected, OnSend_DoneIO, OnAccept, RecvMsg,
              BindLinkAndPlayer, HandleClientMsg, PostRecv
<1>7. ASSUME AssistStep, ~LinkOnCreate, ~CloseCount PROVE UNCHANGED countVars
  BY <1>7 DEF AssistStep, Maintain, NewLink, CreateLink, PostAccept, AcceptFails, CloseSocket,
              CloseClear, CloseDead
<1>8. ASSUME NEW l \in Links, CheckLink(l) \/ ServerRun_SendIO(l) PROVE UNCHANGED countVars
  BY <1>8 DEF CheckLink, ServerRun_SendIO, countVars
<1>9. ASSUME SendMsg \/ Second \/ (\E c \in Clients : Connect(c)) \/ UNCHANGED slVars
      PROVE  UNCHANGED countVars
  BY <1>9 DEF SendMsg, Second, Connect, slVars, countVars
<1> QED
  BY <1>1, <1>2, <1>3, <1>4, <1>5, <1>6, <1>7, <1>8, <1>9, Zenon DEF Steps, ServNext

LEMMA CountersStep ==
  ASSUME Assumed, Core, OneReader, OneWriter, Transmitted, CountersAgree, Steps
  PROVE  CountersAgree'
<1> DEFINE a == th[Assist]
           s == th'[Assist]
           C == Linked("connected")
           A == Linked("accepting")
           K == Connecting
           M == Making
<1>0. /\ Types /\ OwnSockets /\ Assisting /\ Handling /\ ServLinkAssumption
      /\ Workers \subseteq Threads /\ Assist \in Threads /\ Assist \notin Workers
      /\ th \in [Threads -> Thread] /\ ServTypeOK' /\ nAccept \in Int /\ nConnect \in Int
      /\ eState \in [Links -> {"dead", "accepting", "connected"}]
      /\ \A t \in Workers : th[t].link \in Links
      /\ a.pc # "look" => a.link \in Links
  BY Kinds, TypesStep DEF Assumed, Core, Types, ServTypeOK
<1>1. IsFiniteSet(C) /\ IsFiniteSet(A) /\ IsFiniteSet(K) /\ IsFiniteSet(M)
  BY <1>0, CountersSets
<1>2. /\ nConnect = Cardinality(C) - Cardinality(K)
      /\ nAccept = Cardinality(A) + Cardinality(K) - Cardinality(M)
  BY DEF CountersAgree, Linked
<1>3. /\ Cardinality(C) \in Int /\ Cardinality(A) \in Int
      /\ Cardinality(K) \in Int /\ Cardinality(M) \in Int
  BY <1>1, FS_CardinalityType
<1> SUFFICES /\ nConnect' = Cardinality(C') - Cardinality(K')
             /\ nAccept' = Cardinality(A') + Cardinality(K') - Cardinality(M')
  BY <1>0, InvalidCounted DEF CountersAgree, Linked
\* Where the assist thread has to be for a link to be made or closed.
<1>4. /\ Closing = {l \in Links : a.link = l /\ a.pc \in {"closesocket", "clear", "dead"}}
      /\ Making = {l \in Links : a.link = l /\ a.pc \in {"socket", "count"}}
      /\ Closing' = {l \in Links : s.link = l /\ s.pc \in {"closesocket", "clear", "dead"}}
      /\ Making' = {l \in Links : s.link = l /\ s.pc \in {"socket", "count"}}
  BY DEF Closing, Making
<1>5. /\ C = {l \in Links \ Closing : eState[l] = "connected"}
      /\ A = {l \in Links \ Closing : eState[l] = "accepting"}
      /\ C' = {l \in Links \ Closing' : eState'[l] = "connected"}
      /\ A' = {l \in Links \ Closing' : eState'[l] = "accepting"}
  BY DEF Linked
<1>6. K = {t \in Workers : th[t].pc = "connect"} /\ K' = {t \in Workers : th'[t].pc = "connect"}
  BY DEF Connecting, At
<1> HIDE DEF a, s, C, A, K, M
<1>7. ASSUME \A t \in Workers : ~OnAccept(t) /\ ~LinkOnConnect(t) PROVE K' = K
  <2>1. \A t \in Workers : th'[t].pc = "connect" <=> th[t].pc = "connect"
    BY <1>0, <1>7, ConnectOf
  <2> QED BY <1>6, <2>1
\* A step of a worker that accepts or counts a connection is no other's.
<1>8. ASSUME NEW t \in Workers, OnAccept(t) \/ LinkOnConnect(t)
      PROVE  /\ s = a /\ \A u \in Workers : u # t => th'[u] = th[u]
             /\ th[t].link \in Links
  <2>1. \A u \in Threads : u # t => th'[u] = th[u]
    BY <1>0, <1>8, WorkerKeeps DEF WorkerGoes
  <2> QED BY <1>0, <2>1 DEF a, s
<1>9. ASSUME Closing' = Closing, eState' = eState PROVE C' = C /\ A' = A
  BY <1>5, <1>9
<1>10. ASSUME s = a PROVE Closing' = Closing /\ M' = M
  BY <1>4, <1>10 DEF M
<1>11. ASSUME NEW t \in Workers, OnAccept(t)
       PROVE  /\ nConnect' = Cardinality(C') - Cardinality(K')
              /\ nAccept' = Cardinality(A') + Cardinality(K') - Cardinality(M')
  <2> DEFINE l == th[t].link
  <2>1. /\ th[t].pc = "accept" /\ Reads(th[t]) /\ UNCHANGED <<nAccept, nConnect>>
        /\ Closing' = Closing /\ M' = M /\ l \in Links
    BY <1>8, <1>10, <1>11 DEF OnAccept, At, Reads, ReadSteps, countVars
  <2>2. eState[l] = "accepting" /\ sock[l] # NoSocket /\ ~(a.link = l /\ a.pc = "closesocket")
    BY <1>0, <2>1 DEF Handling, a
  <2>3. l \notin Closing
    BY <1>0, <1>4, <2>2 DEF Assisting, a
  <2>4. CASE eState' = [eState EXCEPT ![l] = "connected"] /\ Goto(t, "connect")
    <3>1. th'[t].pc = "connect" /\ th[t].pc # "connect"
      <4>1. th'[t] = [pc |-> "connect", link |-> th[t].link, ret |-> "idle", n |-> th[t].n,
                      who |-> th[t].who]
        BY <1>0, <2>4, Goes
      <4> QED BY <2>1, <4>1
    <3>2. K' = K \cup {t} /\ t \notin K
      BY <1>6, <1>8, <1>11, <3>1
    <3>3. /\ eState'[l] = "connected" /\ \A m \in Links : m # l => eState'[m] = eState[m]
      BY <1>0, <2>1, <2>4
    <3>4. C' = C \cup {l} /\ l \notin C
      BY <1>5, <2>1, <2>2, <2>3, <3>3
    <3>5. A' = A \ {l} /\ l \in A
      BY <1>5, <2>1, <2>2, <2>3, <3>3
    <3>6. /\ Cardinality(K') = Cardinality(K) + 1 /\ Cardinality(C') = Cardinality(C) + 1
          /\ Cardinality(A') = Cardinality(A) - 1
      BY <1>1, <3>2, <3>4, <3>5, OneMore, OneLess
    <3> QED BY <1>2, <1>3, <2>1, <3>6
  <2>5. CASE Call(t, "idle") /\ UNCHANGED eState
    <3>1. th'[t].pc # "connect" /\ th[t].pc # "connect"
      BY <1>0, <2>1, <2>5 DEF Call, Thread
    <3>2. K' = K
      BY <1>6, <1>8, <1>11, <3>1
    <3> QED BY <1>2, <1>9, <2>1, <2>5, <3>2
  <2> QED BY <1>11, <2>4, <2>5 DEF OnAccept
<1>12. ASSUME NEW t \in Workers, LinkOnConnect(t)
       PROVE  /\ nConnect' = Cardinality(C') - Cardinality(K')
              /\ nAccept' = Cardinality(A') + Cardinality(K') - Cardinality(M')
  <2>1. /\ nConnect' = nConnect + 1 /\ nAccept' = nAccept - 1
        /\ C' = C /\ A' = A /\ M' = M /\ th[t].pc = "connect" /\ Goto(t, "packet")
    BY <1>8, <1>9, <1>10, <1>12 DEF LinkOnConnect, At, linkVars
  <2>2. th'[t].pc # "connect"
    <3>1. th'[t] = [pc |-> "packet", link |-> th[t].link, ret |-> "idle", n |-> th[t].n,
                    who |-> th[t].who]
      BY <1>0, <2>1, Goes
    <3> QED BY <3>1
  <2>3. K' = K \ {t} /\ t \in K
    BY <1>6, <1>8, <1>12, <2>1, <2>2
  <2>4. Cardinality(K') = Cardinality(K) - 1
    BY <1>1, <2>3, OneLess
  <2> QED BY <1>2, <1>3, <2>1, <2>4
<1>13. ASSUME ~AssistSteps, \A t \in Workers : ~OnAccept(t) /\ ~LinkOnConnect(t)
       PROVE  /\ nConnect' = Cardinality(C') - Cardinality(K')
              /\ nAccept' = Cardinality(A') + Cardinality(K') - Cardinality(M')
  <2>1. UNCHANGED <<nAccept, nConnect>>
    <3>1. ASSUME NEW t \in Workers \cup {Logic}, OnInvalidMessage(t)
          PROVE  UNCHANGED <<nAccept, nConnect>>
      BY <3>1 DEF OnInvalidMessage, CheckInvalid, Invalid, ReportErrorMsg, countVars
    <3>2. ASSUME NEW t \in Workers, WorkerGoes(t) \/ DoneIO(t)
          PROVE  UNCHANGED <<nAccept, nConnect>>
      BY <1>13, <3>1, <3>2
         DEF WorkerGoes, DoneIO, StillConnected, OnSend_DoneIO, RecvMsg, BindLinkAndPlayer, HandleClientMsg,
             PostRecv, countVars
    <3>3. ASSUME LogicActs PROVE UNCHANGED <<nAccept, nConnect>>
      BY <3>1, <3>3 DEF LogicActs, CheckLink, SendMsg, countVars
    <3>4. ASSUME Second \/ (\E c \in Clients : Connect(c)) \/ UNCHANGED slVars
          PROVE  UNCHANGED <<nAccept, nConnect>>
      BY <3>4 DEF Second, Connect, slVars, countVars
    <3> QED BY <1>0, <1>13, <3>2, <3>3, <3>4, StepKinds
  <2>2. CASE Second
    <3>1. a.pc = "idle" /\ s.pc = "look" /\ eState' = eState
      BY <1>0, <2>2 DEF Second, At, Busy, a, s
    <3>2. Closing' = Closing /\ M' = M
      BY <1>4, <3>1 DEF M
    <3> QED BY <1>2, <1>7, <1>9, <1>13, <2>1, <3>1, <3>2
  <2>3. CASE s = a /\ OthersDo
    <3>1. \A l \in Links : eState'[l] = eState[l]
      BY <1>13, <2>3 DEF OthersDo
    <3>2. C' = C /\ A' = A /\ M' = M
      BY <1>5, <1>10, <2>3, <3>1
    <3> QED BY <1>2, <1>7, <1>13, <2>1, <3>2
  <2> QED BY <1>0, <1>13, <2>2, <2>3, Others DEF a, s
<1>14. ASSUME AssistSteps
       PROVE  /\ nConnect' = Cardinality(C') - Cardinality(K')
              /\ nAccept' = Cardinality(A') + Cardinality(K') - Cardinality(M')
  <2> DEFINE l == a.link
  <2>1. K' = K
    <3>1. \A t \in Workers : th'[t] = th[t]
      BY <1>0, <1>14, AssistGoes
    <3> QED BY <1>6, <3>1
  <2>2. /\ Rounds(s) /\ s.pc # "look" => s.link = l
        /\ s.pc = "socket" => CreateLink
        /\ s.pc = "closesocket" => CloseCount
        /\ s.pc = "clear" => CloseSocket
        /\ s.pc = "dead" => CloseClear
        /\ s.pc = "count" => PostAccept
    BY <1>0, <1>14, AssistGoes DEF a, s
  <2>3. /\ s.pc \in {"socket", "count", "closesocket", "clear", "dead"} => s.link = l
        /\ a.pc \in {"create", "socket", "count", "close", "closesocket", "clear", "dead"} => l \in Links
    BY <1>0, <2>2 DEF Rounds, Calls, a
  <2>4. \A pc : At(Assist, pc) <=> a.pc = pc
    BY DEF At, a
  <2>5. \A pc \in {"socket", "count", "closesocket", "clear", "dead"} : Goto(Assist, pc) => s.pc = pc
    <3> SUFFICES ASSUME NEW pc \in {"socket", "count", "closesocket", "clear", "dead"}, Goto(Assist, pc)
                 PROVE  s.pc = pc
      OBVIOUS
    <3>1. s = [pc |-> pc, link |-> a.link, ret |-> "idle", n |-> a.n, who |-> a.who]
      BY <1>0, Goes DEF a, s
    <3> QED BY <3>1
  <2>6. CASE CreateLink
    <3>1. /\ a.pc = "create" /\ s.pc = "socket" /\ s.link = l /\ l \in Links
          /\ eState' = [eState EXCEPT ![l] = "accepting"] /\ UNCHANGED <<nAccept, nConnect>>
      BY <2>3, <2>4, <2>5, <2>6 DEF CreateLink, countVars, a
    <3>2. eState[l] = "dead"
      BY <1>0, <3>1, MakesUnused DEF a
    <3>3. Closing = {} /\ Closing' = {} /\ M = {} /\ M' = M \cup {l}
      BY <1>4, <3>1 DEF M
    <3>4. /\ eState'[l] = "accepting" /\ \A m \in Links : m # l => eState'[m] = eState[m]
      BY <1>0, <3>1
    <3>5. C' = C /\ A' = A \cup {l} /\ l \notin A
      BY <1>5, <3>1, <3>2, <3>3, <3>4
    <3>6. Cardinality(A') = Cardinality(A) + 1 /\ Cardinality(M') = Cardinality(M) + 1
      BY <1>1, <3>3, <3>5, OneMore
    <3> QED BY <1>2, <1>3, <2>1, <3>1, <3>5, <3>6
  <2>7. CASE PostAccept
    <3>1. /\ a.pc = "socket" /\ s.pc = "count" /\ s.link = l
          /\ UNCHANGED <<eState, nAccept, nConnect>>
      BY <2>3, <2>4, <2>5, <2>7 DEF PostAccept, countVars
    <3>2. Closing' = Closing /\ M' = M
      BY <1>4, <3>1 DEF M
    <3> QED BY <1>2, <1>9, <2>1, <3>1, <3>2
  <2>8. CASE AcceptFails
    <3>1. /\ a.pc = "socket" /\ l \in Links /\ Goto(Assist, "next")
          /\ eState' = [eState EXCEPT ![l] = "dead"] /\ UNCHANGED <<nAccept, nConnect>>
      BY <2>3, <2>4, <2>8 DEF AcceptFails, countVars, a
    <3>2. s.pc = "look"
      <4>1. s = Busy("look", a.link + 1)
        BY <1>0, <3>1, Goes DEF a, s
      <4> QED BY <4>1 DEF Busy
    <3>3. eState[l] = "accepting"
      BY <1>0, <3>1, MakesUnused DEF a
    <3>4. Closing = {} /\ Closing' = {} /\ M' = M \ {l} /\ l \in M
      BY <1>4, <3>1, <3>2 DEF M
    <3>5. /\ eState'[l] = "dead" /\ \A m \in Links : m # l => eState'[m] = eState[m]
      BY <1>0, <3>1
    <3>6. C' = C /\ A' = A \ {l} /\ l \in A
      BY <1>5, <3>1, <3>3, <3>4, <3>5
    <3>7. Cardinality(A') = Cardinality(A) - 1 /\ Cardinality(M') = Cardinality(M) - 1
      BY <1>1, <3>4, <3>6, OneLess
    <3> QED BY <1>2, <1>3, <2>1, <3>1, <3>6, <3>7
  <2>9. CASE LinkOnCreate
    <3>1. /\ a.pc = "count" /\ l \in Links /\ Goto(Assist, "next") /\ eState' = eState
          /\ nAccept' = nAccept + 1 /\ nConnect' = nConnect
      BY <2>3, <2>4, <2>9 DEF LinkOnCreate, linkVars
    <3>2. s.pc = "look"
      <4>1. s = Busy("look", a.link + 1)
        BY <1>0, <3>1, Goes DEF a, s
      <4> QED BY <4>1 DEF Busy
    <3>3. Closing' = Closing /\ M' = M \ {l} /\ l \in M
      BY <1>4, <3>1, <3>2 DEF M
    <3>4. Cardinality(M') = Cardinality(M) - 1
      BY <1>1, <3>3, OneLess
    <3> QED BY <1>2, <1>3, <1>9, <2>1, <3>1, <3>3, <3>4
  <2>10. CASE CloseCount
    <3>1. /\ a.pc = "close" /\ s.pc = "closesocket" /\ s.link = l /\ l \in Links
          /\ nAccept' = nAccept - (IF eState[l] = "accepting" THEN 1 ELSE 0)
          /\ nConnect' = nConnect - (IF eState[l] = "connected" THEN 1 ELSE 0)
          /\ eState' = eState
      BY <2>3, <2>4, <2>5, <2>10 DEF CloseCount, linkVars, a
    <3>2. Closing = {} /\ Closing' = {l} /\ M' = M
      BY <1>4, <3>1 DEF M
    <3>3. C' = C \ {l} /\ A' = A \ {l}
      BY <1>5, <3>1, <3>2
    <3>4. (l \in C <=> eState[l] = "connected") /\ (l \in A <=> eState[l] = "accepting")
      BY <1>5, <3>1, <3>2
    <3>5. Cardinality(C') = Cardinality(C) - (IF eState[l] = "connected" THEN 1 ELSE 0)
      <4>1. CASE l \in C
        <5>1. Cardinality(C') = Cardinality(C) - 1
          BY <1>1, <3>3, <4>1, OneLess
        <5> QED BY <3>4, <4>1, <5>1
      <4>2. CASE l \notin C
        <5>1. C' = C
          BY <3>3, <4>2
        <5> QED BY <1>3, <3>4, <4>2, <5>1
      <4> QED BY <4>1, <4>2
    <3>6. Cardinality(A') = Cardinality(A) - (IF eState[l] = "accepting" THEN 1 ELSE 0)
      <4>1. CASE l \in A
        <5>1. Cardinality(A') = Cardinality(A) - 1
          BY <1>1, <3>3, <4>1, OneLess
        <5> QED BY <3>4, <4>1, <5>1
      <4>2. CASE l \notin A
        <5>1. A' = A
          BY <3>3, <4>2
        <5> QED BY <1>3, <3>4, <4>2, <5>1
      <4> QED BY <4>1, <4>2
    <3> QED BY <1>0, <1>2, <1>3, <2>1, <3>1, <3>2, <3>5, <3>6
  <2>11. CASE CloseSocket
    <3>1. /\ a.pc = "closesocket" /\ s.pc = "clear" /\ s.link = l
          /\ UNCHANGED <<eState, nAccept, nConnect>>
      BY <2>3, <2>4, <2>5, <2>11 DEF CloseSocket, countVars
    <3>2. Closing' = Closing /\ M' = M
      BY <1>4, <3>1 DEF M
    <3> QED BY <1>2, <1>9, <2>1, <3>1, <3>2
  <2>14. CASE CloseClear
    <3>1. /\ a.pc = "clear" /\ s.pc = "dead" /\ s.link = l
          /\ UNCHANGED <<eState, nAccept, nConnect>>
      BY <2>3, <2>4, <2>5, <2>14 DEF CloseClear, countVars
    <3>2. Closing' = Closing /\ M' = M
      BY <1>4, <3>1 DEF M
    <3> QED BY <1>2, <1>9, <2>1, <3>1, <3>2
  <2>12. CASE CloseDead
    <3>1. /\ a.pc = "dead" /\ l \in Links /\ UNCHANGED <<nAccept, nConnect>>
          /\ eState' = [eState EXCEPT ![l] = "dead"]
          /\ th' = [th EXCEPT ![Assist].pc = "report", ![Assist].ret = "next"]
      BY <2>3, <2>4, <2>12 DEF CloseDead, countVars, a
    <3>2. s.pc = "report"
      BY <1>0, <3>1 DEF s, Thread
    <3>3. Closing = {l} /\ Closing' = {} /\ M' = M
      BY <1>4, <3>1, <3>2 DEF M
    <3>4. /\ eState'[l] = "dead" /\ \A m \in Links : m # l => eState'[m] = eState[m]
      BY <1>0, <3>1
    <3>5. C' = C /\ A' = A
      BY <1>5, <3>3, <3>4
    <3> QED BY <1>2, <2>1, <3>1, <3>3, <3>5
  <2>13. CASE \/ OnInvalidMessage(Assist) \/ Maintain \/ NewLink
              \/ \E m \in Links : ServerRun_SendIO(m)
    <3>1. /\ UNCHANGED <<eState, nAccept, nConnect>>
          /\ a.pc \notin {"create", "socket", "count", "close", "closesocket", "clear", "dead"}
      BY <2>4, <2>13
         DEF OnInvalidMessage, CheckInvalid, Invalid, ReportErrorMsg, Maintain, NewLink,
             ServerRun_SendIO, countVars, linkVars
    <3>2. s.pc \notin {"socket", "count", "closesocket", "clear", "dead"}
      BY <2>2, <2>4, <3>1 DEF CreateLink, CloseCount, CloseSocket, CloseClear, PostAccept
    <3>3. Closing' = Closing /\ M' = M
      BY <1>4, <3>1, <3>2 DEF M
    <3> QED BY <1>2, <1>9, <2>1, <3>1, <3>3
  <2> QED
    BY <1>14, <2>6, <2>7, <2>8, <2>9, <2>10, <2>11, <2>12, <2>13, <2>14
       DEF AssistSteps, AssistStep
<1> QED BY <1>11, <1>12, <1>13, <1>14

-----------------------------------------------------------------------------
(* The theorems                                                            *)

LEMMA InvInit ==
  ASSUME Assumed, ServInit
  PROVE  ServInv
<1>0. /\ MaxLink \in Nat \ {0} /\ PreLink \in 1 .. MaxLink /\ PreAccept \in 1 .. PreLink
      /\ MaxUnits \in Nat /\ 0 \in 0 .. MaxUnits /\ ServLinkAssumption
      /\ Workers \subseteq Threads /\ Assist \in Threads /\ Logic \in Threads
      /\ NoSocket \notin Handles /\ 1 \in Links /\ Links = 1 .. MaxLink /\ Links \subseteq Nat \ {0}
      /\ 1 .. PreAccept \subseteq Links /\ PreLink \in Links /\ PreAccept \in Nat
  BY Kinds DEF Assumed, ServLinkAssumption, Links
<1>1. /\ nLink = PreLink
      /\ eState = [l \in Links |-> IF l <= PreAccept THEN "accepting" ELSE "dead"]
      /\ bInvalid = [l \in Links |-> FALSE] /\ canWrite = [l \in Links |-> FALSE]
      /\ player = [l \in Links |-> NoClient] /\ sendBuf = [l \in Links |-> 0]
      /\ age = [l \in Links |-> 0] /\ nAccept = PreAccept /\ nConnect = 0
      /\ th = [t \in Threads |-> Idle] /\ peer = [h \in Handles |-> NoClient]
      /\ wire = [l \in Links |-> 0]
  BY DEF ServInit
<1>2. PICK h \in [1 .. PreAccept -> Handles] :
        /\ \A i, j \in 1 .. PreAccept : h[i] = h[j] => i = j
        /\ sock = [l \in Links |-> IF l <= PreAccept THEN h[l] ELSE NoSocket]
        /\ ops = {[link |-> l, io |-> "read", sock |-> h[l], n |-> 0, nth |-> 0]
                    : l \in 1 .. PreAccept}
        /\ open = {h[l] : l \in 1 .. PreAccept}
  BY DEF ServInit
<1>3. /\ Idle \in Thread /\ Idle.pc = "idle" /\ Idle.ret = "idle" /\ Idle.link = 1
      /\ ~Reads(Idle) /\ ~Rounds(Idle)
  BY <1>0, Kinds DEF Idle, Busy, Thread, WorkerSteps, WorkerRets, Reads, ReadSteps, Calls, Rounds
<1>4. \A t \in Threads : th[t] = Idle
  BY <1>1
<1>5. \A l \in Links : l <= PreAccept <=> l \in 1 .. PreAccept
  BY <1>0
<1>6. /\ \A l \in 1 .. PreAccept : sock[l] = h[l] /\ h[l] \in Handles /\ eState[l] = "accepting"
      /\ \A l \in Links : l \notin 1 .. PreAccept => sock[l] = NoSocket /\ eState[l] = "dead"
  BY <1>0, <1>1, <1>2, <1>5
<1>7. \A o \in ops : /\ o.link \in 1 .. PreAccept /\ o.sock = h[o.link] /\ o.io = "read"
                     /\ o = [link |-> o.link, io |-> "read", sock |-> h[o.link], n |-> 0,
                             nth |-> 0]
  BY <1>2
<1>8. Types
  <2>1. ServTypeOK
    BY <1>0, <1>1, <1>2 DEF ServTypeOK
  <2>2. ops \subseteq Operations
    BY <1>0, <1>6, <1>7 DEF Operations
  <2>3. th \in [Threads -> Thread]
    BY <1>1, <1>3
  <2>4. /\ nAccept \in Int /\ nConnect \in Int
        /\ peer \in [Handles -> Clients \cup {NoClient}]
    BY <1>0, <1>1
  <2> QED BY <1>0, <1>3, <1>4, <2>1, <2>2, <2>3, <2>4
       DEF Types, WorkerSteps, WorkerRets, LogicSteps
<1>9. OwnSockets
  BY <1>0, <1>1, <1>2, <1>6, <1>7 DEF OwnSockets
<1>10. Assisting
  <2>1. \A m \in Links : m > nLink => m \notin 1 .. PreAccept
    BY <1>0, <1>1
  <2> QED BY <1>0, <1>3, <1>4, <1>6, <2>1 DEF Assisting
<1>11. Resting
  BY <1>0, <1>1, <1>6 DEF Resting
<1>12. Quiet
  <2>1. \A t \in Workers \cup {Logic} : th[t].pc = "idle"
    BY <1>0, <1>3, <1>4
  <2>2. \A l \in Links : Unused(l) => l \notin 1 .. PreAccept
    <3>1. \A l \in Links : ~Ahead(th[Assist], l)
      BY <1>0, <1>3, <1>4 DEF Ahead
    <3>2. \A l \in 1 .. PreAccept : ~(l > nLink)
      BY <1>0, <1>1
    <3> QED BY <1>0, <1>6, <3>1, <3>2 DEF Unused
  <2> QED BY <1>7, <2>1, <2>2 DEF Quiet
<1>13. Handling
  BY <1>0, <1>3, <1>4 DEF Handling
<1>14. OneReader
  BY <1>0, <1>3, <1>4, <1>7 DEF OneReader
<1>15. OneWriter
  BY <1>0, <1>3, <1>4, <1>7 DEF OneWriter, At, Writes, Writing
<1>16. Transmitted
  BY <1>0, <1>1, <1>3, <1>4 DEF Transmitted, Writes, Writing
<1>17. Owners
  BY <1>1 DEF Owners
<1>18. CountersAgree
  <2>1. Closing = {} /\ Making = {} /\ Connecting = {}
    BY <1>0, <1>3, <1>4 DEF Closing, Making, Connecting, At
  <2>2. Linked("connected") = {} /\ Linked("accepting") = 1 .. PreAccept
    BY <1>0, <1>6, <2>1 DEF Linked
  <2>3. Cardinality(1 .. PreAccept) = PreAccept
    BY <1>0, FS_Interval
  <2>4. Cardinality({}) = 0
    BY FS_EmptySet
  <2>5. /\ nConnect = Cardinality(Linked("connected")) - Cardinality(Connecting)
        /\ nAccept = Cardinality(Linked("accepting")) + Cardinality(Connecting)
                       - Cardinality(Making)
    <3>1. /\ Cardinality(Linked("connected")) = 0 /\ Cardinality(Connecting) = 0
          /\ Cardinality(Linked("accepting")) = PreAccept /\ Cardinality(Making) = 0
      BY <2>1, <2>2, <2>3, <2>4, Zenon
    <3>2. nConnect = 0 /\ nAccept = PreAccept /\ PreAccept \in Nat
      BY <1>0, <1>1
    <3> QED BY <3>1, <3>2
  <2>6. ServTypeOK
    BY <1>8 DEF Types
  <2>7. nInvalid = MaxLink - nConnect - nAccept
    BY <1>0, <1>1 DEF ServInit
  <2> QED BY <2>5, <2>6, <2>7 DEF CountersAgree, Linked
<1> QED
  BY <1>8, <1>9, <1>10, <1>11, <1>12, <1>13, <1>14, <1>15, <1>16, <1>17, <1>18
     DEF ServInv, Core

LEMMA InvStep ==
  ASSUME Assumed, ServInv, Steps
  PROVE  ServInv'
<1>1. Core /\ OneReader /\ OneWriter /\ Transmitted /\ Owners /\ CountersAgree
      /\ ServLinkAssumption
  BY DEF ServInv, Assumed
<1>2. Types' /\ OwnSockets' /\ Assisting' /\ Resting' /\ Quiet' /\ Handling'
  BY <1>1, TypesStep, OwnSocketsStep, AssistingStep, RestingStep, QuietStep, HandlingStep
<1>3. Core'
  BY <1>2 DEF Core
<1>4. OneReader' /\ OneWriter' /\ Transmitted' /\ Owners' /\ CountersAgree'
  BY <1>1, OneReaderStep, OneWriterStep, TransmittedStep, OwnersStep, CountersStep
<1> QED BY <1>3, <1>4 DEF ServInv

\* The inductive invariant: while AcceptEx does not fail, a link's socket, operations and
\* threads belong to each other, whatever the order completions, messages and the round
\* of the assist thread come in.
THEOREM ServLinkInvariant ==
  ASSUME ~AcceptExFails
  PROVE  ServSpec => []ServInv
<1>0. Assumed
  BY ServLinkAssumption DEF Assumed
<1>1. ServInit => ServInv
  BY <1>0, InvInit
<1>2. ServInv /\ [ServNext]_slVars => ServInv'
  BY <1>0, InvStep DEF Steps
<1> QED BY <1>1, <1>2, PTL DEF ServSpec

\* OVERLAPPED structures: each is given to the system again only after its operation has
\* completed, and a link is used for the next client when none of its operations is left.
THEOREM ServOverlappedFree ==
  ASSUME ~AcceptExFails
  PROVE  ServSpec => []OverlappedFree
<1>1. ServInv => OverlappedFree
  <2> SUFFICES ASSUME ServInv PROVE OverlappedFree
    OBVIOUS
  <2>1. Core /\ OneReader /\ OneWriter /\ ServLinkAssumption
    BY ServLinkAssumption DEF ServInv
  <2>2. \A o, p \in ops : o.link = p.link /\ o.io = p.io => o = p
    BY <2>1 DEF Core, Types, Operations, OneReader, OneWriter
  <2>3. At(Assist, "create") => \A o \in ops : o.link # th[Assist].link
    BY <2>1, MakesUnused DEF At
  <2> QED BY <2>2, <2>3 DEF OverlappedFree
<1> QED BY <1>1, ServLinkInvariant, PTL

\* ServLink::PostSend and OnSend_DoneIO: the messages of a link go out in their order, each
\* once, though three threads send.
THEOREM ServSentInOrder ==
  ASSUME ~AcceptExFails
  PROVE  ServSpec => []SentInOrder
<1>1. ServInv => SentInOrder
  <2> SUFFICES ASSUME ServInv, NEW o \in ops, o.io = "write", o.sock # NoSocket
               PROVE  wire[o.link] = 0
    BY DEF SentInOrder
  <2>1. o.link \in Links /\ eState[o.link] # "dead"
    BY DEF ServInv, Core, Types, Operations, OwnSockets
  <2>2. \A t \in Workers : Writes(t) => th[t].link # o.link
    BY DEF ServInv, OneWriter
  <2> QED BY <2>1, <2>2 DEF ServInv, Transmitted
<1> QED BY <1>1, ServLinkInvariant, PTL

\* ServLink::RecvMsg: what a client sends reaches its own player or none, though links are
\* closed and used again while threads handle what came in over them.
THEOREM ServOwnPlayer ==
  ASSUME ~AcceptExFails
  PROVE  ServSpec => []OwnPlayer
<1>1. ServInv => OwnPlayer
  <2> SUFFICES ASSUME ServInv PROVE OwnPlayer
    OBVIOUS
  <2>0. /\ NoSocket \notin Handles /\ open \subseteq Handles /\ Handling /\ Owners
        /\ \A t \in Workers : th[t].link \in Links
    BY ServLinkAssumption DEF ServLinkAssumption, ServInv, Core, Types, ServTypeOK
  <2>1. ASSUME NEW t \in Workers, At(t, "handle")
        PROVE  player[th[t].link] \in {th[t].who, NoClient}
    <3>1. sock[th[t].link] # NoSocket /\ peer[sock[th[t].link]] = th[t].who
      BY <2>0, <2>1 DEF Handling, At, Reads, ReadSteps
    <3> QED BY <2>0, <3>1 DEF Owners
  <2>2. ASSUME NEW l \in Links, sock[l] \in open, player[l] # NoClient
        PROVE  peer[sock[l]] = player[l]
    BY <2>0, <2>2 DEF Owners
  <2> QED BY <2>1, <2>2 DEF OwnPlayer
<1> QED BY <1>1, ServLinkInvariant, PTL

\* ServLinkMgr::Maintain: the counters it decides by agree with the links.
THEOREM ServCountersAgree ==
  ASSUME ~AcceptExFails
  PROVE  ServSpec => []CountersAgree
<1>1. ServInv => CountersAgree
  BY DEF ServInv
<1> QED BY <1>1, ServLinkInvariant, PTL
=============================================================================
