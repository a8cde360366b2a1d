------------------------------ MODULE Framing -------------------------------
(* One direction of a connection between lightMQ-master's programs: how      *)
(* Protocol.cpp makes bytes of a command and Connection.cpp moves them, a    *)
(* size first, with writes and reads that may be short. The receiver is the  *)
(* broker's or a client's handleReadEvents. A byte is a number below Base,   *)
(* and a size_t has two of them, the low one first.                          *)
EXTENDS Integers, SequencesExt
CONSTANTS Commands,      \* the commands sent: records of cmd, topic and msg
          Base,          \* bound: the values of a byte
          RIO_BUFSIZE    \* bound: the size of the internal buffer
VARIABLES sender,        \* the command and the part in writing, bytes written
          wire,          \* the bytes on their way
          over,          \* how the sender's end of the connection is
          receiver,      \* which read it uses, and the recv under way
          rio,           \* the unread bytes of the internal buffer
          received       \* the commands deserialized

frameVars == <<sender, wire, over, receiver, rio, received>>

Word(n) == <<n % Base, n \div Base>>

\* The number in the first bytes of a word that was zero.
Number(bytes) == (IF Len(bytes) > 0 THEN bytes[1] ELSE 0) +
                 (IF Len(bytes) > 1 THEN Base * bytes[2] ELSE 0)

serialization(p) ==
  Word(Len(p.cmd)) \o Word(Len(p.topic)) \o Word(Len(p.msg)) \o
  p.cmd \o <<0>> \o p.topic \o <<0>> \o p.msg \o <<0>>

\* std::string(s) ends at the first zero.
CString(bytes) == SubSeq(bytes, 1, SelectInSeq(bytes, LAMBDA b : b = 0) - 1)

deserialization(data) ==
  LET cmd_size == Number(SubSeq(data, 1, 2))
      topic_size == Number(SubSeq(data, 3, 4))
      msg_size == Number(SubSeq(data, 5, 6))
      topicAt == 7 + cmd_size + 1
      msgAt == topicAt + topic_size + 1
  IN  [cmd |-> CString(SubSeq(data, 7, topicAt - 1)),
       topic |-> CString(SubSeq(data, topicAt, msgAt - 1)),
       msg |-> CString(SubSeq(data, msgAt, msgAt + msg_size))]

Garbled == [cmd |-> <<>>, topic |-> <<>>, msg |-> <<-1>>]

Start(buffered) == [buffered |-> buffered, part |-> "size", left |-> 2, data |-> <<>>]

Init == /\ sender = [msg |-> 1, part |-> "size", written |-> 0]
        /\ wire = <<>> /\ over = "open" /\ rio = <<>> /\ received = <<>>
        /\ \E buffered \in BOOLEAN : receiver = Start(buffered)
-----------------------------------------------------------------------------
Bytes == LET body == serialization(Commands[sender.msg])
         IN  IF sender.part = "size" THEN Word(Len(body)) ELSE body

\* One write in send, of some of the bytes that are left.
send ==
  /\ over = "open" /\ sender.msg <= Len(Commands)
  /\ \E n \in sender.written + 1..Len(Bytes) :
       /\ wire' = wire \o SubSeq(Bytes, sender.written + 1, n)
       /\ sender' = IF n < Len(Bytes) THEN [sender EXCEPT !.written = n]
                    ELSE IF sender.part = "size"
                    THEN [sender EXCEPT !.part = "bytes", !.written = 0]
                    ELSE [msg |-> sender.msg + 1, part |-> "size", written |-> 0]
  /\ UNCHANGED <<over, receiver, rio, received>>

\* The sender's program ends, or its connection is reset with what is on its
\* way.
SenderEnds == /\ over = "open" /\ over' \in {"closed", "reset"}
              /\ wire' = IF over' = "reset" THEN <<>> ELSE wire
              /\ UNCHANGED <<sender, receiver, rio, received>>
-----------------------------------------------------------------------------
\* recv and recvFromBuffer have returned with the bytes given: a size, even
\* if it is not whole, is followed by a message of this size, even if not all
\* of it has come. Size 0 closes the connection.
Returned(data, whole) ==
  LET n == Number(data)
  IN  IF receiver.part = "size"
      THEN /\ receiver' = IF n = 0 THEN [receiver EXCEPT !.part = "closed"]
                          ELSE [receiver EXCEPT !.part = "bytes", !.left = n, !.data = <<>>]
           /\ UNCHANGED received
      ELSE /\ receiver' = Start(receiver.buffered)
           /\ received' = Append(received, IF whole THEN deserialization(data) ELSE Garbled)

\* n more bytes: the loop goes on until all have come.
Got(bytes) ==
  LET data == receiver.data \o bytes
      left == receiver.left - Len(bytes)
  IN  IF left = 0 THEN Returned(data, TRUE)
      ELSE receiver' = [receiver EXCEPT !.left = left, !.data = data] /\ UNCHANGED received

Receiving == receiver.part # "closed"

\* One read in recv.
recv ==
  /\ Receiving /\ ~receiver.buffered /\ wire # <<>>
  /\ \E n \in 1..Min({receiver.left, Len(wire)}) :
       /\ Got(SubSeq(wire, 1, n))
       /\ wire' = SubSeq(wire, n + 1, Len(wire))
  /\ UNCHANGED <<sender, over, rio>>

\* One rio_read in recvFromBuffer: an empty buffer is filled first.
rio_read ==
  /\ Receiving /\ receiver.buffered /\ (rio # <<>> \/ wire # <<>>)
  /\ \E filled \in IF rio # <<>> THEN {0} ELSE 1..Min({RIO_BUFSIZE, Len(wire)}) :
       LET buf == rio \o SubSeq(wire, 1, filled)
           cnt == Min({receiver.left, Len(buf)})
       IN  /\ Got(SubSeq(buf, 1, cnt))
           /\ rio' = SubSeq(buf, cnt + 1, Len(buf))
           /\ wire' = SubSeq(wire, filled + 1, Len(wire))
  /\ UNCHANGED <<sender, over>>

\* The end of the stream breaks the loop; an error returns -1 from it, after
\* which recvmsg goes on only if it has the size.
recvEnd ==
  /\ Receiving /\ over # "open" /\ wire = <<>> /\ rio = <<>>
  /\ IF over = "reset" /\ receiver.part = "size"
     THEN receiver' = [receiver EXCEPT !.part = "closed"] /\ UNCHANGED received
     ELSE Returned(receiver.data, FALSE)
  /\ UNCHANGED <<sender, wire, over, rio>>

\* recvmsg and recvmsgFromBuffer.
recvmsg == ~receiver.buffered /\ (recv \/ recvEnd)

recvmsgFromBuffer == receiver.buffered /\ (rio_read \/ recvEnd)

Next == send \/ SenderEnds \/ recvmsg \/ recvmsgFromBuffer

Spec == Init /\ [][Next]_frameVars
-----------------------------------------------------------------------------
\* The commands received are those sent, in order, however writes and reads
\* are split; only a connection that is reset or ends within a message can be
\* followed by one message more, which nobody sent.
CommandsWhole ==
  LET whole == sender.msg - 1
      cut == over = "reset" \/ (over = "closed" /\ <<sender.part, sender.written>> # <<"size", 0>>)
  IN  /\ Len(received) <= whole + IF cut THEN 1 ELSE 0
      /\ \A i \in 1..Len(received) :
           received[i] = Commands[i] \/ (cut /\ i = Len(received) /\ received[i] = Garbled)
=============================================================================
