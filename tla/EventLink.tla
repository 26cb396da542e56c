----------------------------- MODULE EventLink -----------------------------
(***************************************************************************)
(* One link of the libevent server and client, or of the libuv server:     *)
(* messages are framed by their length, the stream delivers them in        *)
(* pieces, net::Buffer puts them together, and write requests of libuv go  *)
(* round. Byte i of the body of message k is 256 * k + i, so that a length *)
(* which takes in a byte of a body is more than any piece has. Bounds: one *)
(* agent at a time; a login is accepted, no message is too large, an end   *)
(* that closes the link is not sending; no byte behind a buffer's memory   *)
(* is read. libevent's server gets the stream in any pieces. libuv's       *)
(* server and libevent's client do so if AnyCut; else the one gets whole   *)
(* messages, and the other one message at a time.                          *)
(***************************************************************************)
EXTENDS BufferOps

CONSTANTS
  RecvSize,  \* the size of m_recvBuf
  BodySizes, \* the lengths of the messages
  MaxMsgs,   \* bound: messages on a link, both ways together
  MaxLinks,  \* bound: links
  AnyCut     \* whether libuv's server and libevent's client get any pieces

ASSUME EventLinkAssumption ==
  /\ CheapPrepend \in Nat /\ RecvSize \in Nat /\ MaxMsgs \in Nat /\ MaxLinks \in Nat
  /\ BodySizes \subseteq 1 .. 255 /\ \A size \in BodySizes : size + 2 <= RecvSize
  /\ AnyCut \in BOOLEAN

VARIABLES
  lib,        \* the server: "libevent" or "libuv"
  linked,     \* m_bev, m_handle: there is an agent
  bound,      \* m_player
  links,      \* history: links made
  recvBuf,    \* m_recvBuf of the agent
  up,         \* bytes on their way to the server
  sentUp,     \* history: bodies sent, and handled
  handledUp,
  down,       \* bytes on their way to the client
  sentDown, handledDown,
  clientBuf,  \* _recvBuf of the client
  writeList,  \* _write_list: libuv's free requests
  flight,     \* libuv's requests under way, the oldest first
  base        \* what the buffers of the requests hold

upVars    == <<up, sentUp, handledUp, recvBuf, bound>>
downVars  == <<down, sentDown, handledDown, clientBuf>>
writeVars == <<writeList, flight, base>>
linkVars  == <<lib, linked, links, upVars, downVars, writeVars>>

LinkInit ==
  /\ lib \in {"libevent", "libuv"} /\ linked = FALSE /\ bound = FALSE
  /\ links = 0
  /\ recvBuf = NewBuffer(RecvSize) /\ clientBuf = NewBuffer(RecvSize)
  /\ up = <<>> /\ sentUp = <<>> /\ handledUp = <<>>
  /\ down = <<>> /\ sentDown = <<>> /\ handledDown = <<>>
  /\ writeList = <<>> /\ flight = <<>> /\ base = <<>>

Body(k, size)  == [i \in 1 .. size |-> 256 * k + i]
Framed(body)   == <<Len(body), 0>> \o body
\* Where a message of the stream s ends.
WholeFrames(s) == {n \in 1 .. Len(s) : s[n] > 255 /\ (n < Len(s) => s[n + 1] <= 255)}
MoreMsgs == Len(sentUp) + Len(sentDown) < MaxMsgs

\* cb_listener, on_connection: a new agent. What the old link had under way is lost.
Accept ==
  /\ ~linked /\ links < MaxLinks
  /\ linked' = TRUE /\ links' = links + 1 /\ bound' = FALSE
  /\ recvBuf' = NewBuffer(RecvSize)
  /\ up' = <<>> /\ sentUp' = <<>> /\ handledUp' = <<>>
  /\ down' = <<>> /\ sentDown' = <<>> /\ handledDown' = <<>>
  /\ UNCHANGED <<lib, clientBuf, writeVars>>

\* CloseLink after an end or an error (and the player is reported). uv_close calls after_write
\* for the requests under way, which are free again.
CloseLink ==
  /\ linked /\ linked' = FALSE /\ bound' = FALSE
  /\ recvBuf' = Cleared(recvBuf)
  /\ writeList' = writeList \o flight /\ flight' = <<>>
  /\ UNCHANGED <<lib, links, up, sentUp, handledUp, downVars, base>>

-----------------------------------------------------------------------------
(* From the client to the server                                           *)

ClientSendMsg(size) ==
  /\ linked /\ MoreMsgs
  /\ LET body == Body(Len(sentUp) + 1, size)
     IN  sentUp' = Append(sentUp, body) /\ up' = up \o Framed(body)
  /\ UNCHANGED <<lib, linked, links, handledUp, recvBuf, bound, downVars, writeVars>>

\* A pass of the loop of a read callback, at pPack; it moves on by a packet, or by `move`.
PackSize(s) == s.b.mem[s.pPack + 1] + 256 * s.b.mem[s.pPack + 2]
Within(s, n) == s.pPack + n <= MemSize(s.b)
OnePack(s, move) ==
  LET size == PackSize(s)
  IN  IF \/ Readable(s.b) < 2 \/ ~Within(s, 2)
         \/ size + 2 > Readable(s.b) \/ ~Within(s, size + 2) THEN s
      ELSE [b |-> ReaderMove(s.b, IF move = 0 THEN size + 2 ELSE move),
            pPack |-> s.pPack + size + 2,
            msgs |-> Append(s.msgs, SubSeq(s.b.mem, s.pPack + 3, s.pPack + 2 + size))]

\* The loop; bound: MaxMsgs packets.
Packs(b, pPack, move) ==
  LET s[k \in 0 .. MaxMsgs] == IF k = 0 THEN [b |-> b, pPack |-> pPack, msgs |-> <<>>]
                               ELSE OnePack(s[k - 1], move)
  IN  s[MaxMsgs]

\* The n bytes that a callback gets, behind the content.
Received(b, s) == WriterMove([b EXCEPT !.mem = Write(@, b.w, s)], Len(s))

Handled(x) ==
  /\ recvBuf' = x.b /\ handledUp' = handledUp \o x.msgs
  /\ bound' = (bound \/ x.msgs # <<>>)
  /\ UNCHANGED <<lib, linked, links, sentUp, downVars, writeVars>>

\* Fault: the next packet is looked for where the last piece began.
ReadLibeventAtPiece(n) ==
  /\ lib = "libevent" /\ linked /\ n <= Len(up) /\ n <= Writable(recvBuf)
  /\ Handled(Packs(Received(recvBuf, SubSeq(up, 1, n)), recvBuf.w, 0))
  /\ up' = SubSeq(up, n + 1, Len(up))

\* cb_conn_read: no more than there is room for, and never more room.
ReadLibevent(n) ==
  /\ lib = "libevent" /\ linked /\ n <= Len(up) /\ n <= Writable(recvBuf)
  /\ Handled(Packs(Received(recvBuf, SubSeq(up, 1, n)), recvBuf.r, 0))
  /\ up' = SubSeq(up, n + 1, Len(up))

\* alloc_buffer and after_read, which begins where the piece begins, whatever there was before.
ReadLibuv(n) ==
  /\ lib = "libuv" /\ linked /\ n <= Len(up) /\ (~AnyCut => n \in WholeFrames(up))
  /\ LET b == MakeSpace(recvBuf, 1)
     IN  /\ n <= Writable(b)
         /\ Handled(Packs(Received(b, SubSeq(up, 1, n)), b.w, 0))
  /\ up' = SubSeq(up, n + 1, Len(up))

-----------------------------------------------------------------------------
(* From the server to the client                                           *)

NextDown(size) == Body(Len(sentDown) + 1, size)
Sending == linked /\ bound /\ MoreMsgs

\* SendMsg, to a bufferevent, which copies it.
SendLibevent(size) ==
  /\ lib = "libevent" /\ Sending
  /\ sentDown' = Append(sentDown, NextDown(size))
  /\ down' = down \o Framed(NextDown(size))
  /\ UNCHANGED <<lib, linked, links, upVars, handledDown, clientBuf, writeVars>>

\* SendMsg: the first free request, or a new one, goes under way with the message.
SendLibuv(size) ==
  /\ lib = "libuv" /\ Sending
  /\ sentDown' = Append(sentDown, NextDown(size))
  /\ IF writeList = <<>>
     THEN /\ base' = Append(base, Framed(NextDown(size)))
          /\ flight' = Append(flight, Len(base'))
          /\ UNCHANGED writeList
     ELSE /\ base' = [base EXCEPT ![Head(writeList)] = Framed(NextDown(size))]
          /\ flight' = Append(flight, Head(writeList)) /\ writeList' = Tail(writeList)
  /\ UNCHANGED <<lib, linked, links, upVars, down, handledDown, clientBuf>>

\* libuv writes what the oldest request's buffer holds, and calls after_write.
AfterWrite ==
  /\ flight # <<>> /\ flight' = Tail(flight)
  /\ writeList' = Append(writeList, Head(flight))
  /\ down' = down \o base[Head(flight)]
  /\ UNCHANGED <<lib, linked, links, upVars, sentDown, handledDown, clientBuf, base>>

\* cb_conn_read of the client, which moves on by all it has got, once a message. What a lost
\* link has left in clientBuf is still there on the next.
ClientRead(n) ==
  /\ linked /\ n <= Len(down) /\ (~AnyCut => n = Head(down) + 2)
  /\ LET b == MakeSpace(clientBuf, 1)
         x == Packs(Received(b, SubSeq(down, 1, n)), b.r, n)
     IN  /\ n <= Writable(b)
         /\ clientBuf' = x.b /\ handledDown' = handledDown \o x.msgs
         /\ down' = SubSeq(down, n + 1, Len(down))
  /\ UNCHANGED <<lib, linked, links, upVars, sentDown, writeVars>>

LinkNext ==
  \/ Accept \/ CloseLink
  \/ \E size \in BodySizes : ClientSendMsg(size) \/ SendLibevent(size) \/ SendLibuv(size)
  \/ \E n \in 1 .. Len(up) : ReadLibevent(n) \/ ReadLibuv(n)
  \/ AfterWrite \/ \E n \in 1 .. Len(down) : ClientRead(n)

LinkSpec == LinkInit /\ [][LinkNext]_linkVars

-----------------------------------------------------------------------------
(* Properties                                                              *)

\* What the server handles is what the client has sent on this link: whole, in order, with
\* nothing left out (cb_conn_read, after_read).
UpInOrder == IsPrefix(handledUp, sentUp)

\* What the client handles is what the server has sent on this link (cb_conn_read of the
\* client).
DownInOrder == IsPrefix(handledDown, sentDown)

\* Both, whichever request carried a message. The server of libevent puts a stream together
\* wherever it is cut; without AnyCut that is said of libuv's server for pieces of whole
\* messages and of libevent's client for one message a piece. A request is free or under way,
\* in one place, so that no message is written over another.
LinkInOrder == UpInOrder /\ DownInOrder /\ IsInjective(writeList \o flight)
=============================================================================
