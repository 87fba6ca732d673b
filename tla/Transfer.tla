------------------------------- MODULE Transfer -------------------------------
(***************************************************************************)
(* python/filetransfer: sendfile.py sends its input over a connection, in  *)
(* front of it the length as big-endian bytes and a zero byte, behind it a *)
(* zero byte; ClientThread of server.py reads it again.  The stream comes  *)
(* in pieces of any size.                                                  *)
(***************************************************************************)
EXTENDS Naturals, Sequences, SequencesExt

CONSTANTS
  Base,      \* values of a byte, 256 in the code
  MaxLength  \* bound: bytes of the content

VARIABLES
  content,  \* what is sent
  wire,     \* what was sent and not yet received
  tosend,   \* what is still to be sent
  eof,      \* the sender's end is closed
  transferPc, \* pc: what the thread receives: "header", "data"; or "closed", "raised"
  acc,      \* data: the bytes it has of it
  length,   \* the length it read
  received, \* how many bytes it counts
  printed   \* history: what it has printed

transferVars == <<content, wire, tosend, eof, transferPc, acc, length, received, printed>>

Byte == 0 .. Base - 1

\* int.from_bytes(.., "big")
FromBytes(bytes) == FoldLeft(LAMBDA n, b : n * Base + b, 0, bytes)

\* The number of bytes of n: floor(log(n, 256)) + 1
HeaderLength(n) == CHOOSE k \in 1 .. n : Base^(k - 1) <= n /\ n < Base^k

\* n.to_bytes(header_length, "big")
ToBytes(n) == [k \in 1 .. HeaderLength(n) |-> (n \div Base^(HeaderLength(n) - k)) % Base]

\* to_bytes and from_bytes are inverse to each other, as the functions of
\* Python's integers are.
ASSUME ConversionAssumption ==
  /\ Base \in Nat /\ MaxLength \in Nat
  /\ FromBytes(<<>>) = 0
  /\ \A n \in 1 .. MaxLength : ToBytes(n) \in Seq(Byte) /\ FromBytes(ToBytes(n)) = n

-----------------------------------------------------------------------------
(* sendfile.py; it raises on an empty input, before it connects *)

Message(c) == ToBytes(Len(c)) \o <<0>> \o c \o <<0>>

\* sendall; what was sent arrives in pieces.
SendSome ==
  /\ tosend # <<>>
  /\ \E n \in 1 .. Len(tosend) :
       wire' = wire \o SubSeq(tosend, 1, n) /\ tosend' = SubSeq(tosend, n + 1, Len(tosend))
  /\ UNCHANGED <<content, eof, transferPc, acc, length, received, printed>>

\* At the end, or when the sender is stopped.
CloseSender ==
  /\ ~eof
  /\ eof' = TRUE /\ tosend' = <<>>
  /\ UNCHANGED <<content, wire, transferPc, acc, length, received, printed>>

-----------------------------------------------------------------------------
(* ClientThread.run *)

Ready == transferPc' = "header" /\ acc' = <<>>

\* recv(1) until there is a zero byte
RecvHeader ==
  /\ transferPc = "header" /\ wire # <<>>
  /\ wire' = Tail(wire)
  /\ IF Head(wire) # 0
     THEN acc' = Append(acc, Head(wire)) /\ UNCHANGED <<transferPc, length, received>>
     ELSE /\ length' = FromBytes(acc) /\ received' = 0 /\ acc' = <<>>
          /\ transferPc' = IF FromBytes(acc) < 1 THEN "closed" ELSE "data"
  /\ UNCHANGED <<content, tosend, eof, printed>>

Asked_All == Base^Base        \* mutant: recv(BUFFER_SIZE)
Asked == length - received

\* recv(length - received) returns at least one byte.
RecvData ==
  /\ transferPc = "data" /\ received < length /\ wire # <<>>
  /\ \E n \in 1 .. Len(wire) :
       /\ n <= Asked
       /\ acc' = acc \o SubSeq(wire, 1, n)
       /\ wire' = SubSeq(wire, n + 1, Len(wire))
       /\ received' = received + n
  /\ UNCHANGED <<content, tosend, eof, transferPc, length, printed>>

PrintContent ==
  /\ transferPc = "data" /\ received >= length
  /\ printed' = Append(printed, acc)
  /\ Ready
  /\ UNCHANGED <<content, wire, tosend, eof, length, received>>

\* recv returns nothing: "Incomplete header", "Incomplete data".
Incomplete ==
  /\ wire = <<>> /\ eof
  /\ \/ transferPc = "header"
     \/ transferPc = "data" /\ received < length
  /\ transferPc' = "raised"
  /\ UNCHANGED <<content, wire, tosend, eof, acc, length, received, printed>>

TransferInit ==
  /\ content \in UNION {[1 .. n -> Byte] : n \in 1 .. MaxLength}
  /\ tosend = Message(content) /\ wire = <<>> /\ eof = FALSE
  /\ transferPc = "header" /\ acc = <<>> /\ length = 0 /\ received = 0
  /\ printed = <<>>

TransferNext == SendSome \/ CloseSender \/ RecvHeader \/ RecvData \/ PrintContent \/ Incomplete
TransferSpec == TransferInit /\ [][TransferNext]_transferVars

-----------------------------------------------------------------------------
(* Properties *)

Framed == \A k \in DOMAIN ToBytes(Len(content)) : ToBytes(Len(content))[k] # 0

\* The server prints the content once and whole, and nothing else, in whatever
\* pieces it comes and wherever the connection is cut; the thread closes the
\* connection itself only after that.  This is so for contents without a zero
\* byte in their length: the zero byte would be taken for the end of the header.
TransferWhole ==
  Framed => /\ printed \in {<<>>, <<content>>}
            /\ transferPc = "closed" => printed = <<content>>
=============================================================================
