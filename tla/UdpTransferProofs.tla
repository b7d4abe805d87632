------------------------- MODULE UdpTransferProofs -------------------------
(***************************************************************************)
(* Proofs about UdpTransfer for every file, packet size, window and        *)
(* threshold: whatever the network loses, duplicates or reorders, the      *)
(* client's file is a prefix of the server's, and it is the whole file     *)
(* when the server says that the transfer is complete.                     *)
(***************************************************************************)
EXTENDS UdpTransfer, FiniteSetTheorems, TLAPS

-----------------------------------------------------------------------------
(* Chunks of the file *)

\* A chunk read before the end is not empty, and the offset after it is
\* again one at which a packet starts, or the end of the file.
LEMMA ChunkLength ==
  ASSUME NEW s \in Offsets, s < Len(File)
  PROVE  /\ Chunk(s) \in Seq(STRING)
         /\ Len(Chunk(s)) \in Nat \ {0}
         /\ s + Len(Chunk(s)) \in Offsets
  <1>1. /\ Len(File) \in Nat
        /\ MSS \in Nat \ {0}
        /\ s \in Nat
    BY TransferAssumption DEF Offsets
  <1> DEFINE last == IF s + MSS <= Len(File) THEN s + MSS ELSE Len(File)
  <1>2. /\ last \in Nat
        /\ s < last
        /\ last <= Len(File)
    BY <1>1
  <1>3. Chunk(s) = SubSeq(File, s + 1, last)
    BY DEF Chunk
  <1> HIDE DEF last
  <1>4. Chunk(s) \in Seq(STRING) /\ Len(Chunk(s)) = last - s
    BY <1>1, <1>2, <1>3, TransferAssumption
  <1>5. last \in Offsets
    <2>1. PICK k \in 0 .. s : s = k * MSS
      BY <1>1 DEF Offsets, Aligned
    <2>2. CASE last = s + MSS
      <3>1. s + MSS = (k + 1) * MSS
        BY <2>1, <1>1
      <3>2. k + 1 \in 0 .. s + MSS
        BY <2>1, <1>1
      <3> QED
        BY <2>2, <3>1, <3>2, <1>2 DEF Offsets, Aligned
    <2>3. CASE last = Len(File)
      BY <2>3, <1>2 DEF Offsets, Aligned
    <2> QED
      BY <2>2, <2>3 DEF last
  <1> QED
    BY <1>1, <1>2, <1>4, <1>5

\* Reading at the end of the file gives nothing.
LEMMA ChunkAtEnd ==
  ASSUME NEW s \in Offsets, Chunk(s) = <<>>
  PROVE  s = Len(File)
  <1>1. CASE s < Len(File)
    BY <1>1, ChunkLength
  <1>2. CASE s = Len(File)
    BY <1>2
  <1> QED
    BY <1>1, <1>2, TransferAssumption DEF Offsets

\* Appending the chunk at offset s to the first s bytes of the file gives a
\* longer prefix of it.
LEMMA ChunkExtendsPrefix ==
  ASSUME NEW s \in Offsets, s < Len(File)
  PROVE  SubSeq(File, 1, s) \o Chunk(s) = SubSeq(File, 1, s + Len(Chunk(s)))
  <1>1. /\ Len(File) \in Nat
        /\ MSS \in Nat \ {0}
        /\ s \in Nat
        /\ File \in Seq(STRING)
    BY TransferAssumption DEF Offsets
  <1> DEFINE last == IF s + MSS <= Len(File) THEN s + MSS ELSE Len(File)
  <1>2. /\ last \in Nat
        /\ s < last
        /\ last <= Len(File)
    BY <1>1
  <1>3. Chunk(s) = SubSeq(File, s + 1, last)
    BY DEF Chunk
  <1> HIDE DEF last
  <1>4. SubSeq(File, 1, s) \in Seq(STRING) /\ Len(SubSeq(File, 1, s)) = s
    BY <1>1
  <1>5. Len(SubSeq(File, s + 1, last)) = last - s
    BY <1>1, <1>2
  <1>6. SubSeq(File, 1, s) \o SubSeq(File, s + 1, last) = SubSeq(File, 1, last)
    BY <1>1, <1>2, <1>4
  <1> QED
    BY <1>1, <1>2, <1>3, <1>5, <1>6

-----------------------------------------------------------------------------
(* Types, and the client's file *)

\* The server has read to the end when it says so.
EofIsEnd == eof => nextSeq = Len(File)

\* What the client has buffered is what the server sent.
WindowHoldsChunks == \A s \in DOMAIN rwindow : rwindow[s] = Chunk(s)

PrefixInv == TypeOK /\ EofIsEnd /\ WindowHoldsChunks /\ OutputIsPrefix

\* A data packet in flight to the client carries the chunk at its offset.
LEMMA DataInFlight ==
  ASSUME TypeOK, NEW m \in toClient, m.type = "DATA", m.data # EofMark
  PROVE  /\ m.seq \in Offsets
         /\ m.seq < Len(File)
         /\ m.data = Chunk(m.seq)
         /\ m = Packet(m.seq)
  BY DEF TypeOK, DataPackets, Data, Packet, ACK_START

\* An ACK in flight to the server names an offset of the file.
LEMMA AckInFlight ==
  ASSUME TypeOK, NEW m \in toServer, m.type = "ACK"
  PROVE  m.next \in Offsets /\ m = Ack(m.next)
  BY DEF TypeOK, Ack, START

\* Offsets are natural numbers up to the length of the file, 0 among them.
LEMMA OffsetsAreNat ==
  /\ Len(File) \in Nat
  /\ \A n \in Offsets : n \in Nat /\ n <= Len(File)
  /\ 0 \in Offsets
  /\ Len(File) \in Offsets
  BY TransferAssumption DEF Offsets, Aligned

\* The initial states satisfy the first invariant.
LEMMA PrefixInit == Init => PrefixInv
  <1> SUFFICES ASSUME Init PROVE PrefixInv
    OBVIOUS
  <1> USE OffsetsAreNat, TransferAssumption
  <1>1. DOMAIN rwindow = {}
    BY DEF Init
  <1>2. TypeOK
    <2>1. 0 \in 0 .. DUP_ACK_THRESHOLD
      OBVIOUS
    <2>2. DOMAIN rwindow \in SUBSET {n \in Offsets : n < Len(File)}
      BY <1>1
    <2> QED
      BY <2>1, <2>2 DEF Init, TypeOK, NoTimer
  <1>3. OutputIsPrefix
    <2>1. SubSeq(File, 1, 0) = <<>>
      OBVIOUS
    <2> QED
      BY <2>1 DEF Init, OutputIsPrefix
  <1> QED
    BY <1>1, <1>2, <1>3 DEF Init, PrefixInv, EofIsEnd, WindowHoldsChunks

\* AfterReceive() sends the given packets, and the EOF packet when it is done.
LEMMA AfterReceiveSends ==
  ASSUME NEW u, NEW sent, AfterReceive(u, sent)
  PROVE  \/ /\ eof
            /\ u = {}
            /\ spc' = "done"
            /\ toClient' = toClient \cup sent \cup {EofPacket}
         \/ /\ ~(eof /\ u = {})
            /\ spc' = "filling"
            /\ toClient' = toClient \cup sent
  BY DEF AfterReceive

\* What AfterReceive() sends keeps the type of the packets in flight.
LEMMA AfterReceiveType ==
  ASSUME PrefixInv, NEW u, NEW sent, AfterReceive(u, sent),
         sent \in SUBSET DataPackets
  PROVE  /\ spc' \in {"filling", "done"}
         /\ toClient' \in
              SUBSET (DataPackets \cup {ACK_START, Data(Len(File), EofMark)})
  BY AfterReceiveSends DEF PrefixInv, TypeOK, EofIsEnd, EofPacket

\* Retransmitted packets are data packets.
LEMMA RetransmitType ==
  ASSUME TypeOK, NEW u \in SUBSET unacked
  PROVE  {Packet(s) : s \in u} \in SUBSET DataPackets
  BY DEF TypeOK, Packet, DataPackets

\* A step of the server keeps the first invariant: it touches no client state.
LEMMA ServerKeepsPrefix ==
  ASSUME PrefixInv, ServerNext
  PROVE  PrefixInv'
  <1> USE OffsetsAreNat DEF PrefixInv
  <1>1. CASE ServerAccept
    BY <1>1 DEF ServerAccept, TypeOK, EofIsEnd, WindowHoldsChunks,
       OutputIsPrefix, clientVars, TakeFrom
  <1>2. CASE ServerSend
    <2>1. nextSeq < Len(File)
      <3>1. nextSeq # Len(File)
        <4>1. SUFFICES ASSUME nextSeq = Len(File) PROVE Chunk(nextSeq) = <<>>
          BY <1>2 DEF ServerSend
        <4>2. Len(Chunk(nextSeq)) = 0 /\ Chunk(nextSeq) \in Seq(STRING)
          BY <4>1, TransferAssumption DEF Chunk
        <4> QED
          BY <4>2
      <3> QED
        BY <3>1 DEF TypeOK
    <2>2. nextSeq + Len(Chunk(nextSeq)) \in Offsets
      BY <2>1, ChunkLength DEF TypeOK
    <2>3. Packet(nextSeq) \in DataPackets
      BY <2>1 DEF Packet, DataPackets, TypeOK
    <2> QED
      BY <1>2, <2>1, <2>2, <2>3 DEF ServerSend, MaySend, TypeOK, EofIsEnd,
         WindowHoldsChunks, OutputIsPrefix, clientVars
  <1>3. CASE ServerReadsEof
    BY <1>3, ChunkAtEnd DEF ServerReadsEof, TypeOK, EofIsEnd,
       WindowHoldsChunks, OutputIsPrefix, clientVars
  <1>4. CASE ServerBlocks
    BY <1>4 DEF ServerBlocks, TypeOK, EofIsEnd, WindowHoldsChunks,
       OutputIsPrefix, clientVars
  <1>5. CASE ServerTimeout
    <2>1. /\ spc' \in {"filling", "done"}
          /\ toClient' \in
               SUBSET (DataPackets \cup {ACK_START, Data(Len(File), EofMark)})
      BY <1>5, RetransmitType, AfterReceiveType DEF ServerTimeout
    <2> QED
      BY <1>5, <2>1 DEF ServerTimeout, TypeOK, EofIsEnd, WindowHoldsChunks,
         OutputIsPrefix, clientVars
  <1>6. CASE ServerIgnores
    BY <1>6 DEF ServerIgnores, TypeOK, EofIsEnd, WindowHoldsChunks,
       OutputIsPrefix, clientVars, TakeFrom
  <1>7. ASSUME NEW m \in toServer, ServerReceiveAck(m)
        PROVE  PrefixInv'
    <2> DEFINE n == m.next
    <2>1. n \in Offsets
      BY <1>7, AckInFlight DEF ServerReceiveAck
    <2>2. /\ spc' \in {"filling", "done"}
          /\ toClient' \in
               SUBSET (DataPackets \cup {ACK_START, Data(Len(File), EofMark)})
      <3>1. \A u : AfterReceive(u, {}) => <2>2!1 /\ <2>2!2
        BY AfterReceiveType
      <3>2. AfterReceive(unacked, {Packet(s) : s \in unacked \cap {n}})
              => <2>2!1 /\ <2>2!2
        BY AfterReceiveType, RetransmitType
      <3> QED
        BY <1>7, <3>1, <3>2 DEF ServerReceiveAck, NewAck, DuplicateAck, OldAck
    <2>3. /\ base' \in Offsets
          /\ lastAck' \in Offsets \cup {-1}
          /\ unacked' \in SUBSET {s \in Offsets : s < Len(File)}
          /\ dupAcks' \in 0 .. DUP_ACK_THRESHOLD
      BY <1>7, <2>1, TransferAssumption
      DEF ServerReceiveAck, NewAck, DuplicateAck, OldAck, CountDup, TypeOK
    <2> QED
      BY <1>7, <2>2, <2>3 DEF ServerReceiveAck, TypeOK, EofIsEnd,
         WindowHoldsChunks, OutputIsPrefix, clientVars, TakeFrom
  <1> QED
    BY <1>1, <1>2, <1>3, <1>4, <1>5, <1>6, <1>7 DEF ServerNext

\* A step of the client keeps it: what is written is the next chunk.
LEMMA ClientKeepsPrefix ==
  ASSUME PrefixInv, ClientNext
  PROVE  PrefixInv'
  <1> USE OffsetsAreNat DEF PrefixInv
  <1>1. CASE ClientConnect \/ ClientConnected \/ ClientConnectTimeout
               \/ \E m \in toClient : ClientRetries(m)
    BY <1>1 DEF ClientConnect, ClientConnected, ClientConnectTimeout,
       ClientRetries, TakeFrom, serverVars, TypeOK, EofIsEnd,
       WindowHoldsChunks, OutputIsPrefix
  <1>2. ASSUME NEW m \in toClient, ClientBuffers(m)
        PROVE  PrefixInv'
    <2>1. /\ m.seq \in {n \in Offsets : n < Len(File)}
          /\ m.data = Chunk(m.seq)
      BY <1>2, DataInFlight DEF ClientBuffers
    <2>2. DOMAIN rwindow' = DOMAIN rwindow \cup {m.seq}
      BY <1>2 DEF ClientBuffers
    <2>3. WindowHoldsChunks'
      BY <1>2, <2>1, <2>2 DEF ClientBuffers, WindowHoldsChunks, Chunk
    <2>4. TypeOK'
      BY <1>2, <2>1, <2>2 DEF ClientBuffers, TakeFrom, serverVars, TypeOK
    <2> QED
      BY <1>2, <2>3, <2>4 DEF ClientBuffers, serverVars, EofIsEnd,
         OutputIsPrefix
  <1>3. CASE ClientWrites
    <2>1. /\ expected \in Offsets
          /\ expected < Len(File)
          /\ rwindow[expected] = Chunk(expected)
      BY <1>3 DEF ClientWrites, TypeOK, WindowHoldsChunks
    <2>2. OutputIsPrefix' /\ expected' \in Offsets
      BY <1>3, <2>1, ChunkLength, ChunkExtendsPrefix
      DEF ClientWrites, OutputIsPrefix
    <2>3. DOMAIN rwindow' = DOMAIN rwindow \ {expected}
      BY <1>3 DEF ClientWrites
    <2>4. WindowHoldsChunks'
      BY <1>3, <2>3 DEF ClientWrites, WindowHoldsChunks, Chunk
    <2>5. TypeOK'
      BY <1>3, <2>2, <2>3 DEF ClientWrites, serverVars, TypeOK
    <2> QED
      BY <1>3, <2>2, <2>4, <2>5 DEF ClientWrites, serverVars, EofIsEnd
  <1>4. CASE ClientWritten \/ ClientFinishes \/ ClientTimeout
               \/ \E m \in toClient : ClientRejects(m)
    BY <1>4 DEF ClientWritten, ClientFinishes, ClientTimeout, ClientRejects,
       TakeFrom, serverVars, TypeOK, EofIsEnd, WindowHoldsChunks,
       OutputIsPrefix
  <1>5. ASSUME NEW m \in toClient, ClientReceivesEof(m)
        PROVE  PrefixInv'
    BY <1>5 DEF ClientReceivesEof, TakeFrom, serverVars, TypeOK, EofIsEnd,
       WindowHoldsChunks, OutputIsPrefix
  <1>6. CASE DelayedAck
    BY <1>6 DEF DelayedAck, serverVars, TypeOK, EofIsEnd, WindowHoldsChunks,
       OutputIsPrefix
  <1> QED
    BY <1>1, <1>2, <1>3, <1>4, <1>5, <1>6 DEF ClientNext

\* A lost datagram keeps it.
LEMMA NetworkKeepsPrefix ==
  ASSUME PrefixInv, NetworkNext \/ UNCHANGED vars
  PROVE  PrefixInv'
  BY DEF NetworkNext, LoseToClient, LoseToServer, vars, serverVars,
     clientVars, PrefixInv, TypeOK, EofIsEnd, WindowHoldsChunks,
     OutputIsPrefix

\* The first invariant: types, chunks in the receive window, prefix written.
LEMMA PrefixInvariant == Spec => []PrefixInv
  <1>1. PrefixInv /\ [Next]_vars => PrefixInv'
    BY ServerKeepsPrefix, ClientKeepsPrefix, NetworkKeepsPrefix DEF Next
  <1> QED
    BY PrefixInit, <1>1, PTL DEF Spec

\* Every variable keeps its type: sequence numbers, acknowledgements and
\* buffered offsets stay on packet boundaries of the file.
THEOREM TypeCorrect == Spec => []TypeOK
  BY PrefixInvariant, PTL DEF PrefixInv

\* Whatever the network does, write_receive_window() has written the first
\* expected_sequence_number bytes of the server's file, in order, once each.
THEOREM OutputCorrect == Spec => []OutputIsPrefix
  BY PrefixInvariant, PTL DEF PrefixInv

-----------------------------------------------------------------------------
(* Acknowledgements, retransmission and completion *)

\* Every packet sent from window_base on is still held.
UnackedCoversWindow ==
  \A s \in Offsets : base <= s /\ s < nextSeq => s \in unacked

\* The server ends with everything read and acknowledged.
DoneMeansAcked == spc = "done" => eof /\ unacked = {}

\* No packet was sent beyond the window of the base it was sent under.
SentInWindow ==
  /\ \A s \in unacked : s < base + WINDOW_SIZE * MSS
  /\ \A m \in toClient :
       m.type = "DATA" /\ m.data # EofMark => m.seq < base + WINDOW_SIZE * MSS

AckInv ==
  /\ PrefixInv
  /\ AcksNameWrittenBytes
  /\ UnackedCoversWindow
  /\ DoneMeansAcked
  /\ SentInWindow

\* No packet starts inside another one.
LEMMA NextChunkStart ==
  ASSUME NEW s \in Offsets, NEW t \in Offsets, s < t
  PROVE  s + Len(Chunk(s)) <= t
  <1>1. /\ MSS \in Nat \ {0}
        /\ Len(File) \in Nat
        /\ s \in Nat /\ t \in Nat
        /\ s < Len(File) /\ t <= Len(File)
    BY TransferAssumption, OffsetsAreNat
  <1>2. Len(Chunk(s)) = IF s + MSS <= Len(File) THEN MSS ELSE Len(File) - s
    <2> DEFINE last == IF s + MSS <= Len(File) THEN s + MSS ELSE Len(File)
    <2>1. last \in Nat /\ s < last /\ last <= Len(File)
      BY <1>1
    <2>2. Chunk(s) = SubSeq(File, s + 1, last)
      BY DEF Chunk
    <2> HIDE DEF last
    <2>3. Len(Chunk(s)) = last - s
      BY <1>1, <2>1, <2>2, TransferAssumption
    <2> QED
      BY <1>1, <2>3 DEF last
  <1>3. CASE t = Len(File)
    BY <1>1, <1>2, <1>3
  <1>4. CASE t # Len(File)
    <2>1. PICK j \in 0 .. s : s = j * MSS
      BY <1>1 DEF Offsets, Aligned
    <2>2. PICK k \in 0 .. t : t = k * MSS
      BY <1>4 DEF Offsets, Aligned
    <2>3. j + 1 <= k
      <3>1. SUFFICES ASSUME k <= j PROVE FALSE
        BY <2>1, <2>2, <1>1
      <3>2. k * MSS <= j * MSS
        BY <3>1, <2>1, <2>2, <1>1
      <3> QED
        BY <3>2, <2>1, <2>2, <1>1
    <2>4. (j + 1) * MSS <= k * MSS
      BY <2>1, <2>2, <2>3, <1>1
    <2>5. (j + 1) * MSS = s + MSS
      BY <2>1, <1>1
    <2>6. s + MSS <= t
      BY <2>2, <2>4, <2>5
    <2> QED
      BY <1>1, <1>2, <2>6
  <1> QED
    BY <1>3, <1>4

\* The initial states satisfy the second invariant.
LEMMA AckInit == Init => AckInv
  <1> SUFFICES ASSUME Init PROVE AckInv
    OBVIOUS
  <1>1. PrefixInv
    BY PrefixInit
  <1>2. UnackedCoversWindow
    BY OffsetsAreNat DEF Init, UnackedCoversWindow
  <1> QED
    BY <1>1, <1>2 DEF Init, AckInv, AcksNameWrittenBytes, DoneMeansAcked,
       SentInWindow, NoTimer

\* The server's steps.
LEMMA ServerKeepsAcks ==
  ASSUME AckInv, ServerNext
  PROVE  AckInv'
  <1>0. PrefixInv /\ PrefixInv'
    BY ServerKeepsPrefix DEF AckInv
  <1>n. /\ WINDOW_SIZE * MSS \in Nat
        /\ base \in Nat /\ nextSeq \in Nat /\ expected \in Nat
        /\ base' \in Nat /\ nextSeq' \in Nat
        /\ unacked \in SUBSET Nat
    BY <1>0, OffsetsAreNat, TransferAssumption DEF PrefixInv, TypeOK
  <1> USE DEF AckInv
  <1>1. CASE ServerAccept
    BY <1>0, <1>1 DEF ServerAccept, ACK_START, TakeFrom, clientVars,
       AcksNameWrittenBytes, UnackedCoversWindow, DoneMeansAcked, SentInWindow
  <1>2. CASE ServerSend
    <2>1. UnackedCoversWindow'
      <3>1. SUFFICES ASSUME NEW s \in Offsets, base' <= s, s < nextSeq'
                     PROVE  s \in unacked'
        BY DEF UnackedCoversWindow, Offsets, Aligned
      <3>2. s \in Nat /\ nextSeq \in Offsets
        BY <1>0, OffsetsAreNat DEF PrefixInv, TypeOK
      <3>3. ~ (nextSeq < s)
        BY <1>2, <3>1, <3>2, <1>n, NextChunkStart DEF ServerSend
      <3> QED
        BY <1>2, <3>1, <3>2, <3>3, <1>n DEF ServerSend, UnackedCoversWindow
    <2>2. SentInWindow'
      BY <1>2, <1>n DEF ServerSend, MaySend, SentInWindow, Packet, Data
    <2> QED
      BY <1>0, <1>2, <2>1, <2>2 DEF ServerSend, clientVars,
         AcksNameWrittenBytes, DoneMeansAcked
  <1>3. CASE ServerReadsEof \/ ServerBlocks \/ ServerIgnores
    BY <1>0, <1>3 DEF ServerReadsEof, ServerBlocks, ServerIgnores, TakeFrom,
       clientVars, AcksNameWrittenBytes, UnackedCoversWindow, DoneMeansAcked,
       SentInWindow
  <1>4. ASSUME NEW u \in SUBSET unacked, NEW v, AfterReceive(v, {Packet(s) : s \in u}),
               base <= base', UNCHANGED eof, unacked' = v, v \in SUBSET unacked
        PROVE  DoneMeansAcked' /\ SentInWindow'
    <2>1. DoneMeansAcked'
      BY <1>4, AfterReceiveSends DEF DoneMeansAcked
    <2>2. \A m \in toClient' : m.type = "DATA" /\ m.data # EofMark =>
            m \in toClient \/ \E s \in u : m = Packet(s)
      BY <1>4, AfterReceiveSends DEF EofPacket, Data
    <2>3. \A s \in unacked : s < base + WINDOW_SIZE * MSS
      BY DEF SentInWindow
    <2>4. \A m \in toClient : m.type = "DATA" /\ m.data # EofMark =>
            m.seq \in Nat /\ m.seq < base + WINDOW_SIZE * MSS
      BY <1>0, DataInFlight, OffsetsAreNat DEF SentInWindow, PrefixInv
    <2>5. \A s \in Nat : s < base + WINDOW_SIZE * MSS => s < base' + WINDOW_SIZE * MSS
      BY <1>4, <1>n
    <2>6. \A s \in u : Packet(s).seq = s /\ s \in Nat /\ s < base + WINDOW_SIZE * MSS
      BY <2>3, <1>n DEF Packet, Data
    <2>7. \A s \in unacked' : s < base' + WINDOW_SIZE * MSS
      BY <1>4, <2>3, <2>5, <1>n
    <2>8. \A m \in toClient' : m.type = "DATA" /\ m.data # EofMark =>
            m.seq < base' + WINDOW_SIZE * MSS
      BY <2>2, <2>4, <2>5, <2>6
    <2> QED
      BY <2>1, <2>7, <2>8 DEF SentInWindow
  <1>5. CASE ServerTimeout
    <2>1. DoneMeansAcked' /\ SentInWindow'
      BY <1>4, <1>5, <1>n DEF ServerTimeout
    <2> QED
      BY <1>0, <1>5, <2>1 DEF ServerTimeout, clientVars,
         AcksNameWrittenBytes, UnackedCoversWindow
  <1>6. ASSUME NEW m \in toServer, ServerReceiveAck(m)
        PROVE  AckInv'
    <2> DEFINE n == m.next
    <2>1. n \in Nat /\ n <= expected
      BY <1>0, <1>6, AckInFlight, OffsetsAreNat
      DEF ServerReceiveAck, AcksNameWrittenBytes, PrefixInv
    <2>2. /\ base <= base' /\ base' <= expected
          /\ unacked' = {s \in unacked : base' <= s} \/ unacked' = unacked
      BY <1>6, <2>1, <1>n DEF ServerReceiveAck, NewAck, DuplicateAck, OldAck,
         AcksNameWrittenBytes
    <2>3. \E u \in SUBSET unacked : AfterReceive(unacked', {Packet(s) : s \in u})
      <3>1. {Packet(s) : s \in {}} = {}
        OBVIOUS
      <3>2. CASE NewAck(n) \/ OldAck(n)
        BY <3>1, <3>2 DEF NewAck, OldAck
      <3>3. CASE DuplicateAck(n)
        BY <3>1, <3>3 DEF DuplicateAck
      <3> QED
        BY <1>6, <3>2, <3>3 DEF ServerReceiveAck
    <2>4. DoneMeansAcked' /\ SentInWindow'
      BY <1>4, <1>6, <2>2, <2>3 DEF ServerReceiveAck
    <2>5. AcksNameWrittenBytes'
      BY <1>6, <2>2 DEF ServerReceiveAck, TakeFrom, clientVars,
         AcksNameWrittenBytes
    <2>6. UnackedCoversWindow'
      BY <1>6, <2>2, <1>n, OffsetsAreNat
      DEF ServerReceiveAck, UnackedCoversWindow, Offsets, Aligned
    <2> QED
      BY <1>0, <2>4, <2>5, <2>6
  <1> QED
    BY <1>1, <1>2, <1>3, <1>5, <1>6 DEF ServerNext

\* A step that leaves the server alone, only removes packets to the client and
\* sends at most ACKs of written bytes keeps the invariant.
LEMMA OthersKeepAcks ==
  ASSUME AckInv, PrefixInv', UNCHANGED serverVars,
         toClient' \in SUBSET toClient,
         expected <= expected', ackTimer' <= expected',
         \A m \in toServer' :
           m.type = "ACK" => m \in toServer \/ m.next <= expected'
  PROVE  AckInv'
  <1>1. /\ base \in Nat /\ expected \in Nat /\ expected' \in Nat
        /\ base <= expected
    BY OffsetsAreNat DEF AckInv, PrefixInv, TypeOK, AcksNameWrittenBytes
  <1>2. \A m \in toServer : m.type = "ACK" => m.next \in Nat /\ m.next <= expected
    BY AckInFlight, OffsetsAreNat DEF AckInv, PrefixInv, AcksNameWrittenBytes
  <1>3. AcksNameWrittenBytes'
    BY <1>1, <1>2 DEF AcksNameWrittenBytes, serverVars
  <1> QED
    BY <1>3 DEF AckInv, serverVars, UnackedCoversWindow, DoneMeansAcked,
       SentInWindow

\* The client's steps: an ACK it sends names what it has written.
LEMMA ClientKeepsAcks ==
  ASSUME AckInv, ClientNext
  PROVE  AckInv'
  <1>0. PrefixInv /\ PrefixInv'
    BY ClientKeepsPrefix DEF AckInv
  <1>1. /\ expected \in Nat /\ expected' \in Nat /\ ackTimer \in Int
        /\ ackTimer <= expected
        /\ NoTimer \in Int /\ NoTimer <= expected
    BY <1>0, OffsetsAreNat
    DEF AckInv, PrefixInv, TypeOK, AcksNameWrittenBytes, NoTimer
  <1>2. UNCHANGED serverVars /\ toClient' \in SUBSET toClient
    BY DEF ClientNext, ClientConnect, ClientConnected, ClientRetries,
       ClientConnectTimeout, ClientBuffers, ClientWrites, ClientWritten,
       ClientRejects, ClientReceivesEof, ClientFinishes, ClientTimeout,
       DelayedAck, TakeFrom
  <1>3. expected <= expected'
    <2>1. CASE ClientWrites
      <3>1. expected \in Offsets /\ expected < Len(File)
            /\ rwindow[expected] = Chunk(expected)
        BY <1>0, <2>1 DEF ClientWrites, PrefixInv, TypeOK, WindowHoldsChunks
      <3> QED
        BY <2>1, <3>1, <1>1, ChunkLength DEF ClientWrites
    <2>2. CASE ~ClientWrites
      <3>1. expected' = expected
        BY <2>2 DEF ClientNext, ClientConnect, ClientConnected,
           ClientRetries, ClientConnectTimeout, ClientBuffers, ClientWritten,
           ClientRejects, ClientReceivesEof, ClientFinishes, ClientTimeout,
           DelayedAck
      <3> QED
        BY <3>1, <1>1
    <2> QED
      BY <2>1, <2>2
  <1>4. ackTimer' \in {ackTimer, expected, NoTimer}
    BY DEF ClientNext, ClientConnect, ClientConnected, ClientRetries,
       ClientConnectTimeout, ClientBuffers, ClientWrites, ClientWritten,
       ClientRejects, ClientReceivesEof, ClientFinishes, ClientTimeout,
       DelayedAck
  <1>5. \A m \in toServer' :
          m \in toServer \/ m \in {START, Ack(expected), Ack(ackTimer)}
    BY DEF ClientNext, ClientConnect, ClientConnected, ClientRetries,
       ClientConnectTimeout, ClientBuffers, ClientWrites, ClientWritten,
       ClientRejects, ClientReceivesEof, ClientFinishes, ClientTimeout,
       DelayedAck
  <1>6. \A m \in toServer' :
           m.type = "ACK" => m \in toServer \/ m.next <= expected'
    BY <1>1, <1>3, <1>5 DEF START, Ack
  <1>7. ackTimer' <= expected'
    BY <1>1, <1>3, <1>4
  <1> QED
    BY <1>0, <1>2, <1>3, <1>6, <1>7, OthersKeepAcks

\* A lost datagram.
LEMMA NetworkKeepsAcks ==
  ASSUME AckInv, NetworkNext \/ UNCHANGED vars
  PROVE  AckInv'
  <1>1. PrefixInv'
    BY NetworkKeepsPrefix DEF AckInv
  <1>2. /\ UNCHANGED <<serverVars, clientVars>>
        /\ toClient' \in SUBSET toClient
        /\ toServer' \in SUBSET toServer
    BY DEF NetworkNext, LoseToClient, LoseToServer, vars, serverVars, clientVars
  <1>3. expected <= expected' /\ ackTimer' <= expected'
    BY <1>2, OffsetsAreNat
    DEF clientVars, AckInv, PrefixInv, TypeOK, AcksNameWrittenBytes
  <1> QED
    BY <1>1, <1>2, <1>3, OthersKeepAcks

\* The second invariant: ACKs, the window and what is retained.
LEMMA AckInvariant == Spec => []AckInv
  <1>1. AckInv /\ [Next]_vars => AckInv'
    BY ServerKeepsAcks, ClientKeepsAcks, NetworkKeepsAcks DEF Next
  <1> QED
    BY AckInit, <1>1, PTL DEF Spec

\* However stale, delayed or reordered, an acknowledgement, the value a
\* delayed_ack timer captured and window_base never exceed what the client has
\* written.
THEOREM AcksCorrect == Spec => []AcksNameWrittenBytes
  BY AckInvariant, PTL DEF AckInv

\* The server can still retransmit everything the client lacks.
THEOREM LackingRetained == Spec => []LackingIsRetained
  <1>1. AckInv => LackingIsRetained
    <2> SUFFICES ASSUME AckInv, NEW s \in Offsets, expected <= s, s < nextSeq
                 PROVE  s \in unacked
      BY DEF LackingIsRetained
    <2>1. base <= expected /\ base \in Nat /\ expected \in Nat /\ s \in Nat
      BY OffsetsAreNat DEF AckInv, PrefixInv, TypeOK, AcksNameWrittenBytes
    <2> QED
      BY <2>1 DEF AckInv, UnackedCoversWindow
  <1> QED
    BY AckInvariant, <1>1, PTL

\* With a receive window no smaller than the sender's, the client never drops
\* a packet for being too far ahead.
THEOREM WindowsFit ==
  WINDOW_SIZE <= RECEIVE_WINDOW => (Spec => []NothingBeyondTheWindow)
  <1> SUFFICES ASSUME WINDOW_SIZE <= RECEIVE_WINDOW
               PROVE  Spec => []NothingBeyondTheWindow
    OBVIOUS
  <1>1. AckInv => NothingBeyondTheWindow
    <2> SUFFICES ASSUME AckInv, NEW m \in toClient,
                        m.type = "DATA", m.data # EofMark
                 PROVE  m.seq < expected + RECEIVE_WINDOW * MSS
      BY DEF NothingBeyondTheWindow
    <2>1. WINDOW_SIZE * MSS <= RECEIVE_WINDOW * MSS
      BY TransferAssumption
    <2>2. base <= expected /\ base \in Nat /\ expected \in Nat
      BY OffsetsAreNat DEF AckInv, PrefixInv, TypeOK, AcksNameWrittenBytes
    <2>3. m.seq \in Nat /\ m.seq < base + WINDOW_SIZE * MSS
      BY DataInFlight, OffsetsAreNat DEF AckInv, PrefixInv, SentInWindow
    <2>4. WINDOW_SIZE * MSS \in Nat /\ RECEIVE_WINDOW * MSS \in Nat
      BY TransferAssumption
    <2> QED
      BY <2>1, <2>2, <2>3, <2>4
  <1> QED
    BY AckInvariant, <1>1, PTL

-----------------------------------------------------------------------------
(* The receive window *)

\* What is buffered lies between the window's edges.
RoomInv ==
  /\ PrefixInv
  /\ \A s \in DOMAIN rwindow : expected <= s /\ s < expected + RECEIVE_WINDOW * MSS

\* The edges move past a packet when it is written.
LEMMA RoomKept ==
  ASSUME RoomInv, PrefixInv', [Next]_vars
  PROVE  RoomInv'
  <1>1. /\ expected \in Nat /\ MSS \in Nat \ {0} /\ RECEIVE_WINDOW * MSS \in Nat
        /\ PrefixInv /\ \A s \in DOMAIN rwindow : s \in Offsets
        /\ \A s \in Offsets : s \in Nat
    BY TransferAssumption, OffsetsAreNat DEF RoomInv, PrefixInv, TypeOK
  <1>2. ASSUME UNCHANGED <<rwindow, expected>> PROVE RoomInv'
    BY <1>2 DEF RoomInv
  <1>3. ASSUME NEW m \in toClient, ClientBuffers(m) PROVE RoomInv'
    <2>1. /\ DOMAIN rwindow' = DOMAIN rwindow \cup {m.seq} /\ expected' = expected
          /\ InWindow(m.seq)
      BY <1>3 DEF ClientBuffers
    <2> QED
      BY <2>1 DEF RoomInv, InWindow
  <1>4. CASE ClientWrites
    <2>1. /\ DOMAIN rwindow' = DOMAIN rwindow \ {expected}
          /\ expected \in DOMAIN rwindow
          /\ expected' = expected + Len(rwindow[expected])
      BY <1>4 DEF ClientWrites
    <2>2. expected' = expected + Len(Chunk(expected)) /\ expected < Len(File)
          /\ expected \in Offsets
      BY <1>1, <2>1 DEF PrefixInv, WindowHoldsChunks, TypeOK
    <2>3. Len(Chunk(expected)) \in Nat
      BY <2>2, ChunkLength
    <2>4. ASSUME NEW s \in DOMAIN rwindow'
          PROVE  expected' <= s /\ s < expected' + RECEIVE_WINDOW * MSS
      <3>1. /\ s \in Offsets /\ s \in Nat /\ expected < s
            /\ s < expected + RECEIVE_WINDOW * MSS
        BY <1>1, <2>1 DEF RoomInv
      <3>2. expected + Len(Chunk(expected)) <= s
        BY <2>2, <3>1, NextChunkStart
      <3> QED
        BY <1>1, <2>2, <2>3, <3>1, <3>2
    <2> QED
      BY <2>4 DEF RoomInv
  <1>5. CASE ServerNext
    <2>1. UNCHANGED clientVars
      BY <1>5 DEF ServerNext, ServerAccept, ServerSend, ServerReadsEof, ServerBlocks,
         ServerTimeout, ServerIgnores, ServerReceiveAck
    <2> QED
      BY <1>2, <2>1 DEF clientVars
  <1>6. CASE NetworkNext \/ UNCHANGED vars
    BY <1>2, <1>6 DEF NetworkNext, LoseToClient, LoseToServer, clientVars, vars
  <1>7. CASE ClientNext
    <2>1. \/ \E m \in toClient : ClientBuffers(m)
          \/ ClientWrites
          \/ UNCHANGED <<rwindow, expected>>
      BY <1>7 DEF ClientNext, ClientConnect, ClientConnected, ClientRetries,
         ClientConnectTimeout, ClientWritten, ClientRejects, ClientReceivesEof,
         ClientFinishes, ClientTimeout, DelayedAck
    <2> QED
      BY <1>2, <1>3, <1>4, <2>1
  <1> QED
    BY <1>5, <1>6, <1>7 DEF Next

\* Of the packets between the edges one is missing: the window has room, and
\* the branch for a full one (Q1_client.py:103) is never taken.
THEOREM WindowHasRoom == Spec => []WindowNeverFull
  <1>1. Init => RoomInv
    BY PrefixInit DEF Init, RoomInv
  <1>2. RoomInv /\ PrefixInv' /\ [Next]_vars => RoomInv'
    BY RoomKept
  <1>3. ASSUME RoomInv PROVE WindowNeverFull
    <2> SUFFICES ASSUME expected \notin DOMAIN rwindow
                 PROVE  Cardinality(DOMAIN rwindow) * MSS < RECEIVE_WINDOW * MSS
      <3>1. DOMAIN rwindow \subseteq Nat /\ MSS \in Nat /\ RECEIVE_WINDOW \in Nat
        BY <1>3, OffsetsAreNat, TransferAssumption DEF RoomInv, PrefixInv, TypeOK
      <3>2. IsFiniteSet(DOMAIN rwindow)
        <4>1. \A s \in DOMAIN rwindow : s <= Len(File)
          BY <1>3, OffsetsAreNat DEF RoomInv, PrefixInv, TypeOK
        <4> QED
          BY <3>1, <4>1, OffsetsAreNat, FS_BoundedSetOfNaturals
      <3>3. Cardinality(DOMAIN rwindow) \in Nat
        BY <3>2, FS_CardinalityType
      <3>4. Cardinality(DOMAIN rwindow) * MSS \in Int /\ RECEIVE_WINDOW * MSS \in Int
        BY <3>1, <3>3
      <3> QED
        BY <3>4 DEF WindowNeverFull, WindowFull
    <2>0. PICK n \in Nat : n = RECEIVE_WINDOW - 1
      BY TransferAssumption
    <2> DEFINE slot == [k \in 1 .. n |-> expected + k * MSS]
               T == {slot[k] : k \in 1 .. n}
    <2>1. /\ MSS \in Nat \ {0} /\ RECEIVE_WINDOW \in Nat \ {0}
          /\ expected \in Nat /\ expected \in Offsets
          /\ \A s \in DOMAIN rwindow : s \in Offsets /\ s \in Nat /\ s < Len(File)
          /\ Len(File) \in Nat
      BY <1>3, OffsetsAreNat, TransferAssumption DEF RoomInv, PrefixInv, TypeOK
    <2>2. DOMAIN rwindow \subseteq T
      <3> SUFFICES ASSUME NEW s \in DOMAIN rwindow
                   PROVE  \E d \in 1 .. n : s = expected + d * MSS
        OBVIOUS
      <3>1. /\ s \in Nat /\ s \in Offsets /\ s < Len(File)
            /\ expected < s /\ s < expected + RECEIVE_WINDOW * MSS
        BY <1>3, <2>1 DEF RoomInv
      <3>2. PICK j \in Nat : s = j * MSS
        BY <3>1 DEF Offsets, Aligned
      <3>3. PICK i \in Nat : expected = i * MSS
        BY <2>1, <3>1 DEF Offsets, Aligned
      <3>0. PICK d \in Int : d = j - i
        OBVIOUS
      <3>4. s = expected + d * MSS /\ d \in Int
        BY <2>1, <3>0, <3>2, <3>3
      <3>5. d >= 1
        <4>1. SUFFICES ASSUME d <= 0 PROVE FALSE
          BY <3>4
        <4>2. d * MSS <= 0
          BY <2>1, <3>4, <4>1
        <4> QED
          BY <2>1, <3>1, <3>4, <4>2
      <3>6. d <= n
        <4>1. SUFFICES ASSUME d >= RECEIVE_WINDOW PROVE FALSE
          BY <2>0, <2>1, <3>4
        <4>2. d * MSS >= RECEIVE_WINDOW * MSS
          BY <2>1, <3>4, <4>1
        <4>3. d * MSS \in Int /\ RECEIVE_WINDOW * MSS \in Int
          BY <2>1, <3>4
        <4> QED
          BY <2>1, <3>1, <3>4, <4>2, <4>3
      <3> QED
        BY <2>1, <3>4, <3>5, <3>6
    <2>3. IsFiniteSet(1 .. n) /\ Cardinality(1 .. n) = n
      BY FS_Interval
    <2>4. slot \in Surjection(1 .. n, T)
      BY DEF Surjection
    <2> HIDE DEF slot, T
    <2>5. IsFiniteSet(T) /\ Cardinality(T) <= n /\ Cardinality(T) \in Nat
      BY <2>3, <2>4, FS_Surjection, FS_CardinalityType
    <2>6. /\ Cardinality(DOMAIN rwindow) <= Cardinality(T)
          /\ Cardinality(DOMAIN rwindow) \in Nat
      BY <2>2, <2>5, FS_Subset, FS_CardinalityType
    <2> DEFINE c == Cardinality(DOMAIN rwindow)
    <2>7. c <= n /\ c \in Nat
      BY <2>1, <2>5, <2>6
    <2> HIDE DEF c
    <2>8. c * MSS <= n * MSS /\ n * MSS < RECEIVE_WINDOW * MSS
      BY <2>0, <2>1, <2>7
    <2>9. c * MSS \in Int /\ n * MSS \in Int /\ RECEIVE_WINDOW * MSS \in Int
      BY <2>1, <2>7
    <2>10. c * MSS < RECEIVE_WINDOW * MSS
      BY <2>8, <2>9
    <2> QED
      BY <2>10 DEF c
  <1> QED
    BY <1>1, <1>2, <1>3, PrefixInvariant, PTL DEF Spec

-----------------------------------------------------------------------------
(* The end of the transfer *)

\* "File transfer complete" on the server: the client has written every byte.
LEMMA DoneMeansWhole ==
  ASSUME AckInv, spc = "done"
  PROVE  base = Len(File) /\ expected = Len(File) /\ output = File
  <1>1. eof /\ unacked = {} /\ nextSeq = Len(File)
    BY DEF AckInv, PrefixInv, DoneMeansAcked, EofIsEnd
  <1>2. base \in Offsets /\ expected \in Offsets /\ base <= expected
    BY DEF AckInv, PrefixInv, TypeOK, AcksNameWrittenBytes
  <1>3. ~ (base < Len(File))
    BY <1>1, <1>2, OffsetsAreNat DEF AckInv, UnackedCoversWindow
  <1>4. base = Len(File) /\ expected = Len(File)
    BY <1>2, <1>3, OffsetsAreNat
  <1>5. SubSeq(File, 1, Len(File)) = File
    BY TransferAssumption
  <1> QED
    BY <1>4, <1>5 DEF AckInv, PrefixInv, OutputIsPrefix

\* The server's "File transfer complete" (Q1_server.py:239) is never premature.
THEOREM ServerDoneCorrect == Spec => []ServerDoneMeansWritten
  BY AckInvariant, DoneMeansWhole, PTL DEF ServerDoneMeansWritten

-----------------------------------------------------------------------------
(* The client's end, and the abstract specification *)

\* No chunk of the file reads like the end-of-file mark.
NoEofChunk == \A s \in Offsets : s < Len(File) => Chunk(s) # EofMark

\* The EOF packet is only sent, and the client only ends, after the server did.
CloseInv ==
  /\ AckInv
  /\ \A m \in toClient : m.type = "DATA" /\ m.data = EofMark => spc = "done"
  /\ cpc \in {"finishing", "done"} => spc = "done"

\* Every step keeps the third invariant: only the EOF packet ends the client.
LEMMA CloseStep ==
  ASSUME NoEofChunk, CloseInv, [Next]_vars
  PROVE  CloseInv'
  <1>0. AckInv /\ AckInv' /\ PrefixInv
    BY ServerKeepsAcks, ClientKeepsAcks, NetworkKeepsAcks
    DEF CloseInv, Next, AckInv
  <1>1. CASE ServerNext
    <2>1. UNCHANGED cpc /\ spc # "done"
      BY <1>1 DEF ServerNext, ServerAccept, ServerSend, ServerReadsEof,
         ServerBlocks, ServerTimeout, ServerIgnores, ServerReceiveAck,
         clientVars
    <2>2. \A m \in toClient' : m.type = "DATA" /\ m.data = EofMark => spc' = "done"
      <3>1. ASSUME NEW u, NEW v \in SUBSET unacked,
                   AfterReceive(u, {Packet(s) : s \in v})
            PROVE  \A m \in toClient' :
                     m.type = "DATA" /\ m.data = EofMark => spc' = "done"
        <4>1. \A s \in v : Packet(s).data # EofMark
          BY <1>0 DEF PrefixInv, TypeOK, NoEofChunk, Packet, Data
        <4> QED
          BY <2>1, <3>1, <4>1, AfterReceiveSends DEF CloseInv
      <3>2. ASSUME NEW u, AfterReceive(u, {})
            PROVE  \A m \in toClient' :
                     m.type = "DATA" /\ m.data = EofMark => spc' = "done"
        BY <2>1, <3>2, AfterReceiveSends DEF CloseInv
      <3>3. CASE ServerSend
        <4>1. Packet(nextSeq).data # EofMark
          <5>1. nextSeq \in Offsets /\ nextSeq \in unacked' /\ AckInv'
            BY <1>0, <3>3 DEF ServerSend, PrefixInv, TypeOK
          <5>2. nextSeq < Len(File)
            BY <5>1 DEF AckInv, PrefixInv, TypeOK
          <5> QED
            BY <5>1, <5>2 DEF NoEofChunk, Packet, Data
        <4> QED
          BY <2>1, <3>3, <4>1 DEF ServerSend, CloseInv
      <3>4. CASE ServerTimeout
        BY <3>1, <3>4 DEF ServerTimeout
      <3>5. ASSUME NEW k \in toServer, ServerReceiveAck(k)
            PROVE  <2>2
        BY <3>1, <3>2, <3>5
        DEF ServerReceiveAck, NewAck, DuplicateAck, OldAck
      <3>6. CASE ServerAccept \/ ServerReadsEof \/ ServerBlocks \/ ServerIgnores
        BY <2>1, <3>6 DEF ServerAccept, ServerReadsEof, ServerBlocks,
           ServerIgnores, CloseInv, ACK_START
      <3> QED
        BY <1>1, <3>3, <3>4, <3>5, <3>6 DEF ServerNext
    <2> QED
      BY <1>0, <2>1, <2>2 DEF CloseInv
  <1>2. CASE ClientNext
    <2>1. UNCHANGED spc /\ toClient' \in SUBSET toClient
      BY <1>2 DEF ClientNext, ClientConnect, ClientConnected, ClientRetries,
         ClientConnectTimeout, ClientBuffers, ClientWrites, ClientWritten,
         ClientRejects, ClientReceivesEof, ClientFinishes, ClientTimeout,
         DelayedAck, TakeFrom, serverVars
    <2>2. cpc' \in {"finishing", "done"} => spc = "done"
      BY <1>2 DEF CloseInv, ClientNext, ClientConnect, ClientConnected,
         ClientRetries, ClientConnectTimeout, ClientBuffers, ClientWrites,
         ClientWritten, ClientRejects, ClientReceivesEof, ClientFinishes,
         ClientTimeout, DelayedAck
    <2> QED
      BY <1>0, <2>1, <2>2 DEF CloseInv
  <1>3. CASE NetworkNext \/ UNCHANGED vars
    BY <1>0, <1>3 DEF NetworkNext, LoseToClient, LoseToServer, vars,
       serverVars, clientVars, CloseInv
  <1> QED
    BY <1>1, <1>2, <1>3 DEF Next

\* The third invariant, for a file in which no packet is b"EOF".
LEMMA CloseInvariant == NoEofChunk => (Spec => []CloseInv)
  <1> SUFFICES ASSUME NoEofChunk PROVE Spec => []CloseInv
    OBVIOUS
  <1>1. Init => CloseInv
    BY AckInit DEF CloseInv, Init
  <1>2. CloseInv /\ [Next]_vars => CloseInv'
    BY CloseStep
  <1> QED
    BY <1>1, <1>2, PTL DEF Spec

\* "file transfer complete" on the client, in any file none of whose packets
\* holds exactly the three bytes "EOF".
THEOREM ClientDoneCorrect == NoEofChunk => (Spec => []ClientDoneMeansWritten)
  <1> SUFFICES ASSUME NoEofChunk PROVE Spec => []ClientDoneMeansWritten
    OBVIOUS
  <1>1. CloseInv => ClientDoneMeansWritten
    BY DoneMeansWhole DEF CloseInv, ClientDoneMeansWritten
  <1> QED
    BY CloseInvariant, <1>1, PTL

\* The transfer implements FileDelivery: every step of the two programs and of
\* the network delivers, confirms, closes the receiver, or changes nothing the
\* abstract specification sees.
THEOREM ImplementsDelivery == NoEofChunk => (Spec => DeliversFile)
  <1> SUFFICES ASSUME NoEofChunk PROVE Spec => Delivery!Spec
    BY DEF DeliversFile
  <1>1. Init => Delivery!Init
    BY DEF Init, Delivery!Init
  <1>a. (CloseInv /\ spc = "done" => base = Len(File))'
    <2>1. CloseInv /\ spc = "done" => base = Len(File)
      BY DoneMeansWhole DEF CloseInv
    <2> QED
      BY <2>1, PTL
  <1>2. ASSUME CloseInv, CloseInv', [Next]_vars
        PROVE  [Delivery!Next]_(Delivery!vars)
    <2>0. /\ PrefixInv /\ PrefixInv'
          /\ AcksNameWrittenBytes'
          /\ base \in Nat /\ base' \in Nat
          /\ expected \in Nat /\ expected <= Len(File)
          /\ Len(output) = expected
      <3>1. /\ PrefixInv /\ PrefixInv' /\ AcksNameWrittenBytes'
        BY <1>2 DEF CloseInv, AckInv
      <3>2. /\ base \in Nat /\ base' \in Nat
            /\ expected \in Nat /\ expected <= Len(File)
        BY <3>1, OffsetsAreNat DEF PrefixInv, TypeOK
      <3>3. Len(SubSeq(File, 1, expected)) = expected
        BY <3>2, TransferAssumption
      <3> QED
        BY <3>1, <3>2, <3>3 DEF PrefixInv, OutputIsPrefix
    <2>1. CASE ServerNext
      <3>1. /\ spc # "done" /\ UNCHANGED <<output, cpc, expected>>
            /\ base <= base'
        <4>1. CASE \E m \in toServer : ServerReceiveAck(m)
          <5>1. PICK m \in toServer : ServerReceiveAck(m)
            BY <4>1
          <5>2. m.next \in Nat
            BY <2>0, <5>1, AckInFlight, OffsetsAreNat
            DEF ServerReceiveAck, PrefixInv
          <5> QED
            BY <2>0, <5>1, <5>2 DEF ServerReceiveAck, NewAck, DuplicateAck,
               OldAck, clientVars
        <4>2. CASE ~ \E m \in toServer : ServerReceiveAck(m)
          <5>1. /\ spc # "done" /\ UNCHANGED <<output, cpc, expected>>
                /\ base' = base
            BY <2>1, <4>2 DEF ServerNext, ServerAccept, ServerSend,
               ServerReadsEof, ServerBlocks, ServerTimeout, ServerIgnores,
               clientVars
          <5> QED
            BY <2>0, <5>1
        <4> QED
          BY <4>1, <4>2
      <3>2. base' <= expected
        BY <2>0, <3>1 DEF AcksNameWrittenBytes
      <3>3. spc' = "done" => base' = Len(File)
        BY <1>a, <1>2
      <3>4. base' \in base .. Len(output)
        BY <2>0, <3>1, <3>2
      <3>5. (spc' = "done") \in BOOLEAN
        OBVIOUS
      <3> QED
        BY <3>1, <3>3, <3>4, <3>5 DEF Delivery!Next, Delivery!Confirm
    <2>2. CASE ClientWrites
      <3>1. expected \in Offsets /\ expected < Len(File)
            /\ rwindow[expected] = Chunk(expected)
        BY <2>0, <2>2 DEF ClientWrites, PrefixInv, TypeOK, WindowHoldsChunks
      <3>2. /\ expected' \in expected + 1 .. Len(File)
            /\ output' = SubSeq(File, 1, expected')
        BY <2>0, <2>2, <3>1, ChunkLength, OffsetsAreNat
        DEF ClientWrites, PrefixInv, OutputIsPrefix
      <3>3. UNCHANGED <<base, spc, cpc>>
        BY <2>2 DEF ClientWrites, serverVars
      <3> QED
        BY <2>0, <3>2, <3>3 DEF Delivery!Next, Delivery!Deliver
    <2>3. CASE ClientFinishes
      <3>1. spc = "done" /\ output = File
        BY <1>2, <2>3, DoneMeansWhole DEF ClientFinishes, CloseInv
      <3> QED
        BY <2>3, <3>1 DEF ClientFinishes, serverVars, Delivery!Next,
           Delivery!CloseReceiver
    <2>4. CASE \/ ClientNext /\ ~ClientWrites /\ ~ClientFinishes
               \/ NetworkNext
               \/ UNCHANGED vars
      <3>1. UNCHANGED <<output, base, spc>> /\ (cpc' = "done") = (cpc = "done")
        BY <2>4 DEF ClientNext, ClientConnect, ClientConnected, ClientRetries,
           ClientConnectTimeout, ClientBuffers, ClientWritten, ClientRejects,
           ClientReceivesEof, ClientTimeout, DelayedAck, serverVars,
           NetworkNext, LoseToClient, LoseToServer, clientVars, vars
      <3> QED
        BY <3>1 DEF Delivery!vars
    <2> QED
      BY <1>2, <2>1, <2>2, <2>3, <2>4 DEF Next
  <1> QED
    BY CloseInvariant, <1>1, <1>2, PTL DEF Spec, Delivery!Spec

=============================================================================
