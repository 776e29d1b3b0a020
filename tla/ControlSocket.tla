--------------------------- MODULE ControlSocket ---------------------------
(***************************************************************************)
(* The xApp control channel: the server helpers of                         *)
(* src/setup/sample-xapp/xapp_control.py (open_control_socket,             *)
(* send_socket, receive_from_socket) and a peer that connects, sends and   *)
(* closes the way src/setup/xapp-sm-connector/external_socket_tester.py    *)
(* does.                                                                   *)
(*                                                                         *)
(* A TCP direction is a byte stream.  Bytes are abstracted to a small     *)
(* alphabet: "NL" is the newline (the only whitespace), "K" stands for    *)
(* the body of 'Indication ACK', and "u1","u2" are the two bytes of one    *)
(* non-ASCII UTF-8 character, which decodes to the character "u".  The     *)
(* upstream stream is kept as the sequence of messages still in flight,   *)
(* the first possibly partly read, so that a recv chunk is known as whole *)
(* messages plus a piece of the next.                                      *)
(***************************************************************************)
EXTENDS Integers, Sequences, SequencesExt

CONSTANTS
  PeerMsgs,     \* byte sequences the peer writes, one send() each
  ServerMsgs,   \* byte sequences the caller passes to send_socket
  MaxSends,     \* bound on sends in each direction
  MaxRecvs,     \* bound on receive_from_socket calls
  CutAnywhere,  \* FALSE: recv chunks end at message boundaries
  SendBuf       \* bytes the kernel buffers toward the peer, unread

\* ack = 'Indication ACK\n' (line 32), with its body abstracted to one byte.
ACK == <<"K", "NL">>

Whitespace == {"NL"}

\* bytes.decode('utf-8') (line 37): TRUE when every lead byte is followed by
\* its continuation byte and every continuation byte follows a lead byte.
ValidUtf8(b) ==
  \A i \in 1..Len(b) :
    /\ b[i] = "u1" => i < Len(b) /\ b[i + 1] = "u2"
    /\ b[i] = "u2" => i > 1 /\ b[i - 1] = "u1"

\* The decoded text: each two-byte sequence becomes one character.
RECURSIVE Decode(_)
Decode(b) ==
  IF b = <<>> THEN <<>>
  ELSE IF Head(b) = "u1" THEN <<"u">> \o Decode(SubSeq(b, 3, Len(b)))
  ELSE <<Head(b)>> \o Decode(Tail(b))

NotWhitespace(c) == c \notin Whitespace

\* str.strip(): leading and trailing whitespace removed.
Strip(s) ==
  LET first == SelectInSeq(s, NotWhitespace)
      last  == SelectLastInSeq(s, NotWhitespace)
  IN IF first = 0 THEN <<>> ELSE SubSeq(s, first, last)

\* Mutant: a chunk that does not decode is passed on undecoded.
ReceiveRaw(b) ==
  IF ~ValidUtf8(b) THEN b
  ELSE LET t == Decode(b)
           d == IF ACK \in SubSeqs(t) THEN SubSeq(t, Len(ACK) + 1, Len(t))
                ELSE t
       IN IF Len(d) > 0 THEN Strip(d) ELSE <<>>

\* receive_from_socket after recv (lines 36-49) on the chunk b: '' when b
\* does not decode; when the ACK occurs anywhere in the text, the first
\* len(ack) characters are dropped; the rest is returned stripped.
Receive(b) ==
  IF ~ValidUtf8(b) THEN <<>>
  ELSE LET t == Decode(b)
           d == IF ACK \in SubSeqs(t) THEN SubSeq(t, Len(ACK) + 1, Len(t))
                ELSE t
       IN IF Len(d) > 0 THEN Strip(d) ELSE <<>>

VARIABLES
  srv,        \* "init", "listening" or "connected" (control_sck returned)
  peer,       \* "idle", "connected" or "closed"
  up,         \* messages in flight peer -> server, the first maybe partly read
  sentUp,     \* every byte the peer has written, in order
  nUp,        \* number of peer sends
  returned,   \* the values receive_from_socket has returned, in order
  lastMsgs,   \* the whole messages the last recv chunk consisted of
  down,       \* every byte send_socket has put on the stream to the peer
  peerRead,   \* how many of them the peer has read
  sentDown    \* the messages passed to send_socket

downVars == <<down, peerRead, sentDown>>
vars == <<srv, peer, up, sentUp, nUp, returned, lastMsgs, downVars>>

Bytes == {"K", "NL", "u1", "u2"} \cup UNION {ToSet(m) : m \in PeerMsgs \cup ServerMsgs}

\* Decoded text: the two-byte character is one character.
Chars == (Bytes \ {"u1", "u2"}) \cup {"u"}

TypeOK ==
  /\ srv \in {"init", "listening", "connected"}
  /\ peer \in {"idle", "connected", "closed"}
  /\ up \in Seq(Seq(Bytes))
  /\ sentUp \in Seq(Bytes)
  /\ nUp \in 0..MaxSends
  /\ returned \in Seq(Seq(Chars))
  /\ Len(returned) <= MaxRecvs
  /\ lastMsgs \in Seq(Seq(Bytes))
  /\ down \in Seq(Bytes)
  /\ peerRead \in 0..Len(down)
  /\ sentDown \in Seq(ServerMsgs)

Init ==
  /\ srv = "init"
  /\ peer = "idle"
  /\ up = <<>>
  /\ sentUp = <<>>
  /\ nUp = 0
  /\ returned = <<>>
  /\ lastMsgs = <<>>
  /\ down = <<>>
  /\ peerRead = 0
  /\ sentDown = <<>>

-----------------------------------------------------------------------------
\* open_control_socket, lines 9-15: socket, SO_REUSEADDR, bind, listen.
Listen ==
  /\ srv = "init"
  /\ srv' = "listening"
  /\ UNCHANGED <<peer, up, sentUp, nUp, returned, lastMsgs, downVars>>

\* Tester lines 6-7: connect completes against the listen backlog.
PeerConnect ==
  /\ peer = "idle"
  /\ srv # "init"
  /\ peer' = "connected"
  /\ UNCHANGED <<srv, up, sentUp, nUp, returned, lastMsgs, downVars>>

\* open_control_socket, lines 17-20: accept returns the one connection,
\* even one whose peer has already closed.
Accept ==
  /\ srv = "listening"
  /\ peer # "idle"
  /\ srv' = "connected"
  /\ UNCHANGED <<peer, up, sentUp, nUp, returned, lastMsgs, downVars>>

\* Tester lines 9-11: the peer writes a message.
PeerSend(m) ==
  /\ peer = "connected"
  /\ nUp < MaxSends
  /\ up' = Append(up, m)
  /\ sentUp' = sentUp \o m
  /\ nUp' = nUp + 1
  /\ UNCHANGED <<srv, peer, returned, lastMsgs, downVars>>

\* Tester line 13.
PeerClose ==
  /\ peer = "connected"
  /\ peer' = "closed"
  /\ UNCHANGED <<srv, up, sentUp, nUp, returned, lastMsgs, downVars>>

\* send_socket, lines 24-26: socket.send copies the encoded message into
\* the send buffer.  When the buffer toward the peer fills first, the call
\* blocks; a signal that interrupts it after some bytes were copied makes
\* send return their count, which is printed, and the rest is never sent.
\* (A blocked call that the peer's reads let complete is the interleaving
\* where PeerRecv comes first.)
SendSocket(m) ==
  /\ srv = "connected"
  /\ peer = "connected"
  /\ Len(sentDown) < MaxSends
  /\ LET room == SendBuf - (Len(down) - peerRead)
     IN /\ room > 0
        /\ down' = down \o SubSeq(m, 1, IF Len(m) <= room THEN Len(m)
                                                         ELSE room)
  /\ sentDown' = Append(sentDown, m)
  /\ UNCHANGED <<srv, peer, up, sentUp, nUp, returned, lastMsgs, peerRead>>

\* Mutant: recv that leaves the chunk in the stream (a peek).
ReceiveFromSocketPeek ==
  /\ srv = "connected"
  /\ Len(returned) < MaxRecvs
  /\ up # <<>>
  /\ \E j \in 1..Len(up) :
       /\ returned' = Append(returned, Receive(FlattenSeq(SubSeq(up, 1, j))))
       /\ lastMsgs' = SubSeq(up, 1, j)
  /\ UNCHANGED <<srv, peer, up, sentUp, nUp, downVars>>

\* receive_from_socket, lines 30-49.  recv(4096) returns the first j whole
\* messages in flight and, when chunks may end anywhere, the first k bytes
\* of the next one; with nothing in flight and the peer closed it returns
\* b'' and the function returns ''.  With nothing in flight and the peer
\* connected it blocks.
ReceiveFromSocket ==
  /\ srv = "connected"
  /\ Len(returned) < MaxRecvs
  /\ \/ /\ up # <<>>
        /\ \E j \in 0..Len(up) :
           LET whole == SubSeq(up, 1, j)
               rest  == SubSeq(up, j + 1, Len(up))
               cuts  == IF CutAnywhere /\ rest # <<>>
                        THEN 0..(Len(Head(rest)) - 1) ELSE {0}
           IN \E k \in cuts :
             LET part  == IF rest = <<>> THEN <<>>
                          ELSE SubSeq(Head(rest), 1, k)
                 chunk == FlattenSeq(whole) \o part
             IN /\ chunk # <<>>
                /\ up' = IF part = <<>> THEN rest
                         ELSE <<SubSeq(Head(rest), k + 1, Len(Head(rest)))>>
                              \o Tail(rest)
                /\ returned' = Append(returned, Receive(chunk))
                /\ lastMsgs' = IF part = <<>> THEN whole ELSE <<>>
     \/ /\ up = <<>>
        /\ peer = "closed"
        /\ returned' = Append(returned, <<>>)
        /\ lastMsgs' = <<>>
        /\ UNCHANGED up
  /\ UNCHANGED <<srv, peer, sentUp, nUp, downVars>>

\* The xApp at the other end reads what was sent (the tester never does).
PeerRecv ==
  /\ peer = "connected"
  /\ peerRead < Len(down)
  /\ \E k \in (peerRead + 1)..Len(down) : peerRead' = k
  /\ UNCHANGED <<srv, peer, up, sentUp, nUp, returned, lastMsgs, down,
                 sentDown>>

Next ==
  \/ Listen \/ PeerConnect \/ Accept \/ PeerClose \/ PeerRecv
  \/ \E m \in PeerMsgs : PeerSend(m)
  \/ \E m \in ServerMsgs : SendSocket(m)
  \/ ReceiveFromSocket

Spec == Init /\ [][Next]_vars

-----------------------------------------------------------------------------
(* Properties *)

\* How many elements of s, from the front, a greedy left-to-right scan of t
\* finds in order; s is a subsequence of t when all of them are found.
RECURSIVE GreedyMatch(_, _)
GreedyMatch(s, t) ==
  IF s = <<>> \/ t = <<>> THEN 0
  ELSE IF Head(s) = Head(t) THEN 1 + GreedyMatch(Tail(s), Tail(t))
  ELSE GreedyMatch(s, Tail(t))

\* What receive_from_socket hands its caller is drawn from the peer's stream
\* in order: no byte is invented, repeated or reordered, whatever the cuts
\* of recv, the ACK removal and the strip do (non-ASCII text compared by
\* its decoded form).
ReturnedBytesWereSent ==
  LET got == FlattenSeq(returned)
  IN GreedyMatch(got, Decode(sentUp)) = Len(got)

IsNotAck(m) == m # ACK

\* The ACK handling of lines 41-42 removes the ACK: when a chunk consists of
\* whole messages, receive_from_socket returns them without the ACK
\* messages, stripped.
AckRemovedExactly ==
  (returned # <<>> /\ lastMsgs # <<>>)
    => Last(returned)
       = Strip(Decode(FlattenSeq(SelectSeq(lastMsgs, IsNotAck))))

\* The bytes recv has taken from the peer's stream so far.
Consumed == SubSeq(sentUp, 1, Len(sentUp) - Len(FlattenSeq(up)))

\* Consumed bytes up to the last complete character.
CompleteChars(b) == IF b # <<>> /\ Last(b) = "u1" THEN Front(b) ELSE b

IsText(c) == c \notin Whitespace \cup {"K"}

\* Nothing the peer sent is lost (spec section 3 of the channel's use: text
\* frames are exchanged): every non-whitespace character of the non-ACK
\* messages recv has consumed, up to a character still cut in half, is
\* among the values receive_from_socket returned.  It is about the chunk
\* cut inside a UTF-8 character (lines 36-39), where the whole chunk is
\* dropped, and the slice of line 42.
NoTextLost ==
  Len(SelectSeq(FlattenSeq(returned), IsText))
    = Len(SelectSeq(Decode(CompleteChars(Consumed)), IsText))

\* The stream to the peer carries the messages given to send_socket, each
\* whole and in order: what has been written is a prefix of their
\* concatenation, so that a peer reading it can split it back into them
\* (text frames, spec section 1).  It is about line 25, whose returned
\* count is printed and never compared with the message length.
MessagesSentWhole == IsPrefix(down, FlattenSeq(sentDown))
=============================================================================
