------------------------ MODULE UdpCongestionProofs ------------------------
(***************************************************************************)
(* Proofs about UdpCongestion for every file, packet size, window limit    *)
(* and threshold: the congestion window stays in its range, and the safety *)
(* of the transfer of Part 1 survives what Part 3 changes.  A client that  *)
(* writes a whole run of buffered packets in one step writes the next      *)
(* bytes of the file, and the transfer still implements FileDelivery.  One *)
(* theorem says how far a defect goes: fast recovery sends nothing before  *)
(* the end of the file is read.                                            *)
(***************************************************************************)
EXTENDS UdpCongestion, UdpTransferProofs, NumberFacts, SequenceTheorems

-----------------------------------------------------------------------------
(* Pieces of the file *)

\* Two adjacent pieces of the file make one.
LEMMA JoinPieces ==
  ASSUME NEW a \in Nat, NEW b \in Nat, NEW c \in Nat,
         a <= b, b <= c, c <= Len(File)
  PROVE  /\ SubSeq(File, a + 1, b) \in Seq(STRING)
         /\ Len(SubSeq(File, a + 1, b)) = b - a
         /\ SubSeq(File, a + 1, b) \o SubSeq(File, b + 1, c)
              = SubSeq(File, a + 1, c)
  <1> DEFINE u == SubSeq(File, a + 1, b)
             v == SubSeq(File, b + 1, c)
             w == SubSeq(File, a + 1, c)
  <1>0. File \in Seq(STRING) /\ Len(File) \in Nat
    BY TransferAssumption
  <1>1. /\ u \in Seq(STRING) /\ Len(u) = b - a
        /\ \A i \in 1 .. b - a : u[i] = File[a + i]
    BY <1>0
  <1>2. /\ v \in Seq(STRING) /\ Len(v) = c - b
        /\ \A i \in 1 .. c - b : v[i] = File[b + i]
    BY <1>0
  <1>3. /\ w \in Seq(STRING) /\ Len(w) = c - a
        /\ \A i \in 1 .. c - a : w[i] = File[a + i]
    BY <1>0
  <1> HIDE DEF u, v, w
  <1>4. /\ u \o v \in Seq(STRING) /\ Len(u \o v) = c - a
        /\ \A i \in 1 .. c - a :
             (u \o v)[i] = IF i <= b - a THEN u[i] ELSE v[i - (b - a)]
    <2>1. Len(u) + Len(v) = c - a
      BY <1>1, <1>2
    <2>2. /\ u \o v \in Seq(STRING) /\ Len(u \o v) = Len(u) + Len(v)
          /\ \A i \in 1 .. Len(u) + Len(v) :
               (u \o v)[i] = IF i <= Len(u) THEN u[i] ELSE v[i - Len(u)]
      BY <1>1, <1>2, ConcatProperties
    <2>3. Len(u) = b - a
      BY <1>1
    <2> QED
      BY <2>1, <2>2, <2>3
  <1>5. \A i \in 1 .. c - a : (u \o v)[i] = w[i]
    <2> SUFFICES ASSUME NEW i \in 1 .. c - a PROVE (u \o v)[i] = w[i]
      OBVIOUS
    <2>1. i <= b - a => i \in 1 .. b - a
      OBVIOUS
    <2>2. ~ (i <= b - a) => i - (b - a) \in 1 .. c - b /\ b + (i - (b - a)) = a + i
      OBVIOUS
    <2> QED
      BY <2>1, <2>2, <1>1, <1>2, <1>3, <1>4
  <1>6. u \o v = w
    BY <1>3, <1>4, <1>5, SeqEqual
  <1> QED
    BY <1>1, <1>6 DEF u, v, w

\* A chunk is the piece of the file up to where the next one starts.
LEMMA ChunkIsPiece ==
  ASSUME NEW n \in Offsets, n < Len(File)
  PROVE  /\ Chunk(n) = SubSeq(File, n + 1, n + Len(Chunk(n)))
         /\ Len(Chunk(n)) <= MSS
  <1>1. n \in Nat /\ Len(File) \in Nat /\ MSS \in Nat \ {0}
    BY TransferAssumption, OffsetsAreNat
  <1> DEFINE last == IF n + MSS <= Len(File) THEN n + MSS ELSE Len(File)
  <1>2. last \in Nat /\ n < last /\ last <= Len(File) /\ last <= n + MSS
    BY <1>1
  <1>3. Chunk(n) = SubSeq(File, n + 1, last)
    BY DEF Chunk
  <1> HIDE DEF last
  <1>4. Len(Chunk(n)) = last - n
    BY <1>1, <1>2, <1>3, TransferAssumption
  <1>5. n + Len(Chunk(n)) = last
    BY <1>1, <1>2, <1>4
  <1> QED
    BY <1>1, <1>2, <1>3, <1>4, <1>5

-----------------------------------------------------------------------------
(* What write_receive_window() pops *)

\* The client has buffered packets of the file.
Buffered ==
  /\ DOMAIN rwindow \in SUBSET {n \in Offsets : n < Len(File)}
  /\ WindowHoldsChunks

\* The first gap in the receive window from offset n on.
IsGap(n, e) ==
  /\ e \in Offsets \ DOMAIN rwindow
  /\ n <= e
  /\ \A x \in Offsets \ DOMAIN rwindow : n <= x => e <= x

\* There is one, at the end of the file if nowhere else.
LEMMA GapExists ==
  ASSUME Buffered, NEW n \in DOMAIN rwindow
  PROVE  \E e \in Offsets : IsGap(n, e)
  <1> DEFINE T == {x \in Offsets \ DOMAIN rwindow : n <= x}
  <1>1. n \in Nat /\ n < Len(File)
    BY OffsetsAreNat DEF Buffered
  <1>2. Len(File) \in T
    BY <1>1, OffsetsAreNat DEF Buffered
  <1>3. T \in SUBSET Nat /\ T # {}
    BY <1>2, OffsetsAreNat
  <1>4. PICK e \in T : \A y \in T : e <= y
    BY <1>3, LeastElement
  <1> QED
    BY <1>4 DEF IsGap

\* The gap after a buffered packet is the gap after its successor.
LEMMA GapAfterChunk ==
  ASSUME Buffered, NEW n \in DOMAIN rwindow, NEW e \in Offsets, IsGap(n, e)
  PROVE  /\ n + Len(Chunk(n)) \in Offsets
         /\ n < n + Len(Chunk(n)) /\ n + Len(Chunk(n)) <= e
         /\ IsGap(n + Len(Chunk(n)), e)
  <1>1. n \in Offsets /\ n \in Nat /\ n < Len(File)
    BY OffsetsAreNat DEF Buffered
  <1>2. n + Len(Chunk(n)) \in Offsets /\ Len(Chunk(n)) \in Nat \ {0}
    BY <1>1, ChunkLength
  <1>3. e \in Nat /\ n < e
    BY <1>1, OffsetsAreNat DEF IsGap
  <1>4. n + Len(Chunk(n)) <= e
    BY <1>1, <1>3, NextChunkStart
  <1>5. \A x \in Offsets : n + Len(Chunk(n)) <= x => n <= x
    BY <1>1, <1>2, OffsetsAreNat
  <1> QED
    BY <1>1, <1>2, <1>4, <1>5 DEF IsGap

\* What lies between an offset and the gap after it.
Gap(n) == CHOOSE e \in Offsets : IsGap(n, e)

RunToGap ==
  [n \in Nat |->
     IF n \in DOMAIN rwindow THEN SubSeq(File, n + 1, Gap(n)) ELSE <<>>]

\* These runs satisfy the equation Following() is defined by.
LEMMA RunsFollow ==
  ASSUME Buffered, NEW n \in DOMAIN rwindow
  PROVE  /\ n \in Nat /\ n + Len(rwindow[n]) \in Nat
         /\ RunToGap[n] = rwindow[n] \o RunToGap[n + Len(rwindow[n])]
  <1>1. n \in Offsets /\ n \in Nat /\ n < Len(File)
    BY OffsetsAreNat DEF Buffered
  <1>2. PICK e \in Offsets : Gap(n) = e /\ IsGap(n, e)
    BY GapExists DEF Gap
  <1> DEFINE m == n + Len(Chunk(n))
  <1>3. m \in Offsets /\ n < m /\ m <= e /\ IsGap(m, e)
    BY <1>2, GapAfterChunk
  <1>4. rwindow[n] = Chunk(n)
    BY DEF Buffered, WindowHoldsChunks
  <1>5. m \in Nat /\ e \in Nat /\ e <= Len(File) /\ Len(File) \in Nat
    BY <1>3, OffsetsAreNat
  <1>6. Chunk(n) = SubSeq(File, n + 1, m)
    BY <1>1, ChunkIsPiece
  <1>7. RunToGap[n] = SubSeq(File, n + 1, e)
    BY <1>1, <1>2 DEF RunToGap
  <1>8. RunToGap[m] = SubSeq(File, m + 1, e)
    <2>1. CASE m \in DOMAIN rwindow
      <3>1. PICK d \in Offsets : Gap(m) = d /\ IsGap(m, d)
        BY <2>1, GapExists DEF Gap
      <3>2. d = e
        BY <3>1, <1>3, OffsetsAreNat DEF IsGap
      <3> QED
        BY <2>1, <3>1, <3>2, <1>5 DEF RunToGap
    <2>2. CASE m \notin DOMAIN rwindow
      <3>1. e = m
        BY <2>2, <1>3, <1>5 DEF IsGap
      <3>2. SubSeq(File, m + 1, m) = <<>>
        BY <1>5, TransferAssumption
      <3> QED
        BY <2>2, <3>1, <3>2, <1>5 DEF RunToGap
    <2> QED
      BY <2>1, <2>2
  <1>a. n <= m /\ m <= e
    BY <1>3, <1>1, <1>5
  <1> HIDE DEF m
  <1>9. SubSeq(File, n + 1, e) = SubSeq(File, n + 1, m) \o SubSeq(File, m + 1, e)
    BY <1>a, <1>1, <1>5, JoinPieces
  <1> QED
    BY <1>1, <1>4, <1>5, <1>6, <1>7, <1>8, <1>9 DEF m

\* A function that satisfies the equation of Following() is the one that
\* Following() names, since the runs above satisfy it.
Satisfies(run) ==
  run = [n \in Nat |->
    IF n \in DOMAIN rwindow THEN rwindow[n] \o run[n + Len(rwindow[n])]
    ELSE <<>>]

\* The runs up to the first gap are such a function.
LEMMA RunsSatisfy ==
  ASSUME Buffered
  PROVE  Satisfies(RunToGap)
  <1> DEFINE rhs == [n \in Nat |->
        IF n \in DOMAIN rwindow
        THEN rwindow[n] \o RunToGap[n + Len(rwindow[n])] ELSE <<>>]
  <1>1. \A n \in Nat : RunToGap[n] = rhs[n]
    BY RunsFollow DEF RunToGap
  <1>2. RunToGap = [n \in Nat |-> RunToGap[n]]
    BY DEF RunToGap
  <1> QED
    BY <1>1, <1>2 DEF Satisfies

\* There is no other: where two of them differed nearest to the end of the
\* file, they would differ nearer.
LEMMA RunIsUnique ==
  ASSUME Buffered, NEW run, Satisfies(run), NEW n \in Nat
  PROVE  run[n] = RunToGap[n]
  <1> DEFINE Differ == {d \in 0 .. Len(File) :
                          run[Len(File) - d] # RunToGap[Len(File) - d]}
  <1>0. Len(File) \in Nat /\ \A m \in DOMAIN rwindow : m \in Nat /\ m < Len(File)
    BY OffsetsAreNat DEF Buffered
  <1>1. \A m \in Nat :
          run[m] = IF m \in DOMAIN rwindow
                   THEN rwindow[m] \o run[m + Len(rwindow[m])] ELSE <<>>
    BY DEF Satisfies
  <1>2. Differ = {}
    <2> SUFFICES ASSUME Differ # {} PROVE FALSE
      OBVIOUS
    <2>1. Differ \in SUBSET Nat
      OBVIOUS
    <2>2. PICK d \in Differ : \A x \in Differ : d <= x
      BY <2>1, LeastElement
    <2> DEFINE m == Len(File) - d
    <2>3. m \in Nat /\ run[m] # RunToGap[m]
      BY <1>0
    <2>4. m \in DOMAIN rwindow
      BY <2>3, <1>1 DEF RunToGap
    <2> DEFINE k == m + Len(rwindow[m])
    <2>5. k \in Nat /\ m < k /\ k <= Len(File)
      <3>1. rwindow[m] = Chunk(m) /\ m \in Offsets /\ m < Len(File)
        BY <2>4 DEF Buffered, WindowHoldsChunks
      <3> QED
        BY <3>1, <2>3, ChunkLength, OffsetsAreNat
    <2>6. run[k] # RunToGap[k]
      BY <2>3, <2>4, <1>1, RunsFollow
    <2> HIDE DEF k
    <2>7. Len(File) - k \in Differ
      BY <2>5, <2>6, <1>0
    <2>8. d <= Len(File) - k
      BY <2>2, <2>7
    <2> QED
      BY <2>5, <2>8, <1>0
  <1>3. CASE n <= Len(File)
    <2>1. Len(File) - n \in 0 .. Len(File) /\ Len(File) - (Len(File) - n) = n
      BY <1>0, <1>3
    <2> QED
      BY <1>2, <2>1
  <1>4. CASE n > Len(File)
    <2>1. n \notin DOMAIN rwindow
      BY <1>0, <1>4
    <2> QED
      BY <2>1, <1>1 DEF RunToGap
  <1> QED
    BY <1>0, <1>3, <1>4

\* What write_receive_window() writes from a buffered offset on is the file up
\* to the first gap.
LEMMA FollowingIsFile ==
  ASSUME Buffered, NEW n \in DOMAIN rwindow
  PROVE  \E e \in Offsets :
           /\ n < e /\ IsGap(n, e)
           /\ Following(n) = SubSeq(File, n + 1, e)
  <1>1. \E run : Satisfies(run)
    BY RunsSatisfy
  <1>2. Satisfies(CHOOSE run : Satisfies(run))
    BY <1>1
  <1>3. n \in Nat
    BY OffsetsAreNat DEF Buffered
  <1>4. Following(n) = RunToGap[n]
    <2>1. Following(n) = (CHOOSE run : Satisfies(run))[n]
      BY DEF Following, Satisfies
    <2> QED
      BY <1>2, <1>3, <2>1, RunIsUnique
  <1>5. PICK e \in Offsets : Gap(n) = e /\ IsGap(n, e)
    BY GapExists DEF Gap
  <1>6. n < e
    BY <1>3, <1>5, GapAfterChunk, OffsetsAreNat
  <1> QED
    BY <1>3, <1>4, <1>5, <1>6 DEF RunToGap

-----------------------------------------------------------------------------
(* Types, and the client's file *)

\* The types of Part 1, except that last_ack_received, a chunk below an ACK,
\* need not be an offset at which a packet starts.
CubicTransferTypes ==
  /\ nextSeq \in Offsets
  /\ base \in Offsets
  /\ unacked \in SUBSET {n \in Offsets : n < Len(File)}
  /\ dupAcks \in 0 .. DUP_ACK_THRESHOLD
  /\ lastAck \in Int
  /\ eof \in BOOLEAN
  /\ expected \in Offsets
  /\ DOMAIN rwindow \in SUBSET {n \in Offsets : n < Len(File)}
  /\ ackTimer \in Offsets \cup {NoTimer}
  /\ chunkLen \in 0 .. MSS
  /\ toClient \in SUBSET (DataPackets \cup {ACK_START, Data(Len(File), EofMark)})
  /\ toServer \in SUBSET ({Ack(n) : n \in Offsets} \cup {START})

CubicPrefixInv ==
  CubicTransferTypes /\ EofIsEnd /\ WindowHoldsChunks /\ OutputIsPrefix

\* A retained packet lies above window_base.
RetainedAboveBase == \A s \in unacked : base <= s

\* What was written, buffered, retained or sent lies below the next sequence
\* number.
SentBelowNext ==
  /\ expected <= nextSeq
  /\ \A s \in DOMAIN rwindow : s < nextSeq
  /\ \A s \in unacked : s < nextSeq
  /\ \A m \in toClient : m.type = "DATA" /\ m.data # EofMark => m.seq < nextSeq

CubicAckInv ==
  /\ CubicPrefixInv
  /\ AcksNameWrittenBytes
  /\ UnackedCoversWindow
  /\ RetainedAboveBase
  /\ SentBelowNext
  /\ DoneMeansAcked

\* As long as no chunk has been read, nothing is on its way or written.
FirstChunk ==
  ~eof /\ chunkLen = 0 =>
    /\ expected = 0
    /\ unacked = {}
    /\ DOMAIN rwindow = {}
    /\ \A m \in toClient : m.type # "DATA"

\* Until the end of the file is read, an ACK that is counted as a duplicate
\* names bytes below the window, which are not retained any more.
LastAckBelowBase == ~eof => lastAck < base

RecoveryInv == CubicAckInv /\ FirstChunk /\ LastAckBelowBase

\* In slow start the next window is twice the window.
WindowInv ==
  /\ CubicPrefixInv
  /\ CubicTypeOK
  /\ iteration \in Nat
  /\ spc # "done" => iteration = 0 \/ 2 ^ iteration = 2 * window

CubicCloseInv ==
  /\ CubicAckInv
  /\ \A m \in toClient : m.type = "DATA" /\ m.data = EofMark => spc = "done"
  /\ cpc \in {"finishing", "done"} => spc = "done"

-----------------------------------------------------------------------------
(* The steps, summarised *)

\* A data packet in flight to the client carries the chunk at its offset.
LEMMA CubicDataInFlight ==
  ASSUME CubicTransferTypes, NEW m \in toClient, m.type = "DATA",
         m.data # EofMark
  PROVE  m.seq \in Offsets /\ m.seq < Len(File) /\ m.data = Chunk(m.seq)
  BY DEF CubicTransferTypes, DataPackets, Data, ACK_START

\* An ACK in flight names an offset of the file.
LEMMA CubicAckInFlight ==
  ASSUME CubicTransferTypes, NEW m \in toServer, m.type = "ACK"
  PROVE  m.next \in Offsets
  BY DEF CubicTransferTypes, Ack, START

\* The end of a turn of the server's loop sends the given packets, and the EOF
\* packet when the transfer is over.
LEMMA TurnSends ==
  ASSUME NEW w, NEW max, NEW u, NEW sent, Turn(w, max, u, sent)
  PROVE  /\ \/ /\ eof /\ u = {} /\ spc' = "done"
               /\ toClient' = toClient \cup sent \cup {EofPacket}
            \/ /\ ~(eof /\ u = {}) /\ spc' = "filling"
               /\ toClient' = toClient \cup sent
         /\ UNCHANGED <<preBase, chunkLen>>
  BY AfterReceiveSends DEF Turn

\* What an acknowledgement does: a new one slides the window, any other leaves
\* it; fast recovery may retransmit and halve the window.
LEMMA AckStep ==
  ASSUME CubicTransferTypes, NEW m \in toServer, CubicReceiveAck(m)
  PROVE  /\ spc = "receiving" /\ toServer' \in SUBSET toServer
         /\ m.type = "ACK" /\ m.next \in Offsets
         /\ UNCHANGED <<nextSeq, eof, clientVars>>
         /\ dupAcks' \in 0 .. DUP_ACK_THRESHOLD
         /\ \/ /\ base < m.next /\ base' = m.next
               /\ lastAck' = m.next - chunkLen
               /\ unacked' = {s \in unacked : s >= m.next}
            \/ UNCHANGED <<base, lastAck, unacked>>
         /\ \E v \in SUBSET unacked :
              \/ Turn(window, maxWindow, unacked', {Packet(s) : s \in v})
              \/ Turn(Half(window), window, unacked', {Packet(s) : s \in v})
  <1> DEFINE n == m.next
  <1>1. n \in Offsets /\ n \in Nat /\ base \in Nat
    BY CubicAckInFlight, OffsetsAreNat DEF CubicReceiveAck, CubicTransferTypes
  <1>2. {Packet(s) : s \in {}} = {}
    OBVIOUS
  <1>3. CountDup \in 0 .. DUP_ACK_THRESHOLD /\ 0 \in 0 .. DUP_ACK_THRESHOLD
    BY TransferAssumption DEF CountDup, CubicTransferTypes
  <1>4. /\ spc = "receiving" /\ toServer' \in SUBSET toServer
        /\ m.type = "ACK" /\ UNCHANGED <<nextSeq, eof, clientVars>>
    BY DEF CubicReceiveAck, TakeFrom
  <1>5. CASE CubicNewAck(n)
    <2>1. Turn(window, maxWindow, unacked', {Packet(s) : s \in {}})
      BY <1>2, <1>5 DEF CubicNewAck
    <2>2. /\ base < n /\ base' = n /\ lastAck' = n - chunkLen /\ dupAcks' = 0
          /\ unacked' = {s \in unacked : s >= n}
      BY <1>5, <1>1 DEF CubicNewAck
    <2> HIDE DEF n
    <2> QED
      BY <1>1, <1>3, <1>4, <2>1, <2>2 DEF n
  <1>6. CASE CubicDuplicateAck(n)
    <2>1. UNCHANGED <<base, lastAck, unacked>>
      BY <1>6 DEF CubicDuplicateAck
    <2>2. /\ dupAcks' \in 0 .. DUP_ACK_THRESHOLD
          /\ \/ Turn(window, maxWindow, unacked', {Packet(s) : s \in {}})
             \/ Turn(Half(window), window, unacked',
                     {Packet(s) : s \in unacked \cap {n}})
      BY <1>2, <1>3, <1>6 DEF CubicDuplicateAck
    <2> QED
      BY <1>1, <1>4, <2>1, <2>2
  <1>7. CASE CubicOldAck(n)
    <2>1. /\ UNCHANGED <<base, lastAck, unacked, dupAcks>>
          /\ Turn(window, maxWindow, unacked', {Packet(s) : s \in {}})
      BY <1>2, <1>7 DEF CubicOldAck
    <2> QED
      BY <1>1, <1>4, <2>1 DEF CubicTransferTypes
  <1> QED
    BY <1>5, <1>6, <1>7 DEF CubicReceiveAck

\* What a client's step does: of what it has written and buffered nothing
\* changes, or a packet is buffered, or everything up to the first gap is
\* written; what it sends is START or an ACK of what it has written.
ClientEffect ==
  /\ UNCHANGED <<serverVars, congestionVars>>
  /\ toClient' \in SUBSET toClient
  /\ toServer' \in SUBSET (toServer \cup {START, Ack(expected)})
  /\ ackTimer' \in {ackTimer, expected, NoTimer}
  /\ \/ UNCHANGED <<expected, output, rwindow>>
     \/ /\ UNCHANGED <<expected, output>>
        /\ \E m \in toClient :
             /\ m.type = "DATA" /\ m.data # EofMark
             /\ rwindow' = [s \in DOMAIN rwindow \cup {m.seq} |->
                              IF s = m.seq THEN m.data ELSE rwindow[s]]
     \/ CubicWrites /\ UNCHANGED ackTimer

\* Every step of the client has this effect.
LEMMA CubicClientStep ==
  ASSUME CubicClient
  PROVE  ClientEffect
  <1> USE DEF ClientEffect
  <1>1. CASE CubicWrites
    BY <1>1 DEF CubicWrites
  <1>2. CASE CubicIgnores \/ CubicDelayedAck
    BY <1>2 DEF CubicIgnores, CubicDelayedAck, TakeFrom, clientVars
  <1>3. CASE ClientAsInPart1
    <2>1. UNCHANGED congestionVars
      BY <1>3 DEF ClientAsInPart1
    <2>2. CASE \/ ClientConnect \/ ClientConnected \/ ClientConnectTimeout
               \/ ClientWritten \/ ClientFinishes \/ ClientTimeout
      BY <2>1, <2>2 DEF ClientConnect, ClientConnected, ClientConnectTimeout,
         ClientWritten, ClientFinishes, ClientTimeout, TakeFrom
    <2>3. ASSUME NEW m \in toClient,
                 \/ ClientRetries(m) \/ ClientRejects(m) \/ ClientReceivesEof(m)
          PROVE  ClientEffect
      BY <2>1, <2>3 DEF ClientRetries, ClientRejects, ClientReceivesEof, TakeFrom
    <2>4. ASSUME NEW m \in toClient, ClientBuffers(m)
          PROVE  ClientEffect
      BY <2>1, <2>4 DEF ClientBuffers, TakeFrom
    <2> QED
      BY <1>3, <2>2, <2>3, <2>4 DEF ClientAsInPart1
  <1> QED
    BY <1>1, <1>2, <1>3 DEF CubicClient

\* A step of the client that is not a write keeps its two files as they are,
\* and writing appends the next bytes.
LEMMA WritingExtends ==
  ASSUME CubicPrefixInv, CubicWrites
  PROVE  /\ expected' \in Offsets /\ expected < expected'
         /\ IsGap(expected, expected')
         /\ output' = SubSeq(File, 1, expected')
         /\ DOMAIN rwindow' \in SUBSET DOMAIN rwindow
         /\ WindowHoldsChunks'
  <1>1. Buffered /\ expected \in DOMAIN rwindow
    BY DEF CubicWrites, CubicPrefixInv, CubicTransferTypes, Buffered
  <1>2. PICK e \in Offsets :
          /\ expected < e /\ IsGap(expected, e)
          /\ Following(expected) = SubSeq(File, expected + 1, e)
    BY <1>1, FollowingIsFile
  <1>3. /\ 0 \in Nat /\ expected \in Nat /\ e \in Nat /\ e <= Len(File)
        /\ 0 <= expected /\ expected <= e
    BY <1>1, <1>2, OffsetsAreNat DEF CubicPrefixInv, CubicTransferTypes
  <1>4. Len(SubSeq(File, expected + 1, e)) = e - expected
    BY <1>3, JoinPieces
  <1>5. expected' = e
    BY <1>2, <1>3, <1>4 DEF CubicWrites
  <1>6. SubSeq(File, 1, expected) \o SubSeq(File, expected + 1, e)
          = SubSeq(File, 1, e)
    BY <1>3, JoinPieces
  <1>7. output' = SubSeq(File, 1, e)
    BY <1>2, <1>6 DEF CubicWrites, CubicPrefixInv, OutputIsPrefix
  <1>8. /\ DOMAIN rwindow' = {n \in DOMAIN rwindow : n >= expected'}
        /\ \A s \in DOMAIN rwindow' : rwindow'[s] = rwindow[s]
    BY DEF CubicWrites
  <1>9. WindowHoldsChunks'
    BY <1>8 DEF WindowHoldsChunks, CubicPrefixInv, Chunk
  <1> QED
    BY <1>2, <1>5, <1>7, <1>8, <1>9

\* A step of the client keeps the types and the prefix.
LEMMA CubicClientKeepsPrefix ==
  ASSUME CubicPrefixInv, CubicClient
  PROVE  CubicPrefixInv'
  <1>0. ClientEffect
    BY CubicClientStep
  <1>1. UNCHANGED <<nextSeq, base, unacked, dupAcks, lastAck, eof, chunkLen>>
    BY <1>0 DEF ClientEffect, serverVars, congestionVars
  <1>2. /\ toClient' \in SUBSET toClient
        /\ toServer' \in SUBSET (toServer \cup {START, Ack(expected)})
        /\ ackTimer' \in {ackTimer, expected, NoTimer}
    BY <1>0 DEF ClientEffect
  <1>3. /\ expected' \in Offsets
        /\ DOMAIN rwindow' \in SUBSET {n \in Offsets : n < Len(File)}
        /\ WindowHoldsChunks' /\ OutputIsPrefix'
    <2>1. CASE UNCHANGED <<expected, output, rwindow>>
      BY <2>1 DEF CubicPrefixInv, CubicTransferTypes, WindowHoldsChunks,
         OutputIsPrefix, Chunk
    <2>2. CASE CubicWrites
      BY <2>2, WritingExtends, OffsetsAreNat
      DEF CubicPrefixInv, CubicTransferTypes, OutputIsPrefix
    <2>3. ASSUME UNCHANGED <<expected, output>>,
                 NEW m \in toClient, m.type = "DATA", m.data # EofMark,
                 rwindow' = [s \in DOMAIN rwindow \cup {m.seq} |->
                               IF s = m.seq THEN m.data ELSE rwindow[s]]
          PROVE  <1>3
      <3>1. m.seq \in Offsets /\ m.seq < Len(File) /\ m.data = Chunk(m.seq)
        BY <2>3, CubicDataInFlight DEF CubicPrefixInv
      <3>2. DOMAIN rwindow' = DOMAIN rwindow \cup {m.seq}
        BY <2>3
      <3>3. WindowHoldsChunks'
        BY <2>3, <3>1, <3>2 DEF CubicPrefixInv, WindowHoldsChunks, Chunk
      <3> QED
        BY <2>3, <3>1, <3>2, <3>3
        DEF CubicPrefixInv, CubicTransferTypes, OutputIsPrefix
    <2> QED
      BY <1>0, <2>1, <2>2, <2>3 DEF ClientEffect
  <1>4. Ack(expected) \in {Ack(n) : n \in Offsets}
    BY DEF CubicPrefixInv, CubicTransferTypes
  <1> QED
    BY <1>1, <1>2, <1>3, <1>4
    DEF CubicPrefixInv, CubicTransferTypes, EofIsEnd

\* What a turn of the server's loop sends keeps the type of the packets.
LEMMA TurnType ==
  ASSUME CubicPrefixInv, NEW w, NEW max, NEW u, NEW v \in SUBSET unacked,
         Turn(w, max, u, {Packet(s) : s \in v})
  PROVE  /\ toClient' \in
              SUBSET (DataPackets \cup {ACK_START, Data(Len(File), EofMark)})
         /\ chunkLen' = chunkLen
  <1>1. {Packet(s) : s \in v} \in SUBSET DataPackets
    BY DEF CubicPrefixInv, CubicTransferTypes, Packet, DataPackets
  <1> QED
    BY <1>1, TurnSends
    DEF CubicPrefixInv, CubicTransferTypes, EofIsEnd, EofPacket

\* A chunk that is not empty was read before the end of the file.
LEMMA SendBeforeEnd ==
  ASSUME CubicPrefixInv, CubicSend
  PROVE  /\ nextSeq \in Offsets /\ nextSeq < Len(File)
         /\ nextSeq + Len(Chunk(nextSeq)) \in Offsets
         /\ Len(Chunk(nextSeq)) \in 1 .. MSS
         /\ Packet(nextSeq) \in DataPackets
  <1>1. nextSeq \in Offsets /\ Chunk(nextSeq) # <<>>
    BY DEF CubicSend, ServerSend, CubicPrefixInv, CubicTransferTypes
  <1>2. nextSeq # Len(File)
    <2> SUFFICES ASSUME nextSeq = Len(File) PROVE Chunk(nextSeq) = <<>>
      BY <1>1
    <2>1. Len(Chunk(nextSeq)) = 0 /\ Chunk(nextSeq) \in Seq(STRING)
      BY TransferAssumption DEF Chunk
    <2> QED
      BY <2>1
  <1>3. nextSeq < Len(File)
    BY <1>1, <1>2, OffsetsAreNat
  <1> QED
    BY <1>1, <1>3, ChunkLength, ChunkIsPiece, TransferAssumption
    DEF Packet, DataPackets

\* A step of the server keeps the types: it touches no client state.
LEMMA CubicServerKeepsPrefix ==
  ASSUME CubicPrefixInv, CubicServer
  PROVE  CubicPrefixInv'
  <1> USE DEF CubicPrefixInv
  <1>0. UNCHANGED clientVars => WindowHoldsChunks' /\ OutputIsPrefix'
    BY DEF clientVars, WindowHoldsChunks, OutputIsPrefix, Chunk
  <1>1. CASE CubicAccept
    BY <1>0, <1>1 DEF CubicAccept, ServerAccept, CubicTransferTypes, EofIsEnd,
       clientVars, TakeFrom
  <1>2. CASE CubicSend
    <2>1. /\ nextSeq' \in Offsets
          /\ unacked' \in SUBSET {n \in Offsets : n < Len(File)}
          /\ toClient' \in
               SUBSET (DataPackets \cup {ACK_START, Data(Len(File), EofMark)})
          /\ chunkLen' \in 0 .. MSS
      BY <1>2, SendBeforeEnd, TransferAssumption
      DEF CubicSend, ServerSend, CubicTransferTypes
    <2> QED
      BY <1>0, <1>2, <2>1 DEF CubicSend, MayFill, ServerSend,
         CubicTransferTypes, EofIsEnd, clientVars
  <1>3. CASE CubicReadsEof
    <2>1. nextSeq = Len(File)
      BY <1>3, ChunkAtEnd DEF CubicReadsEof, ServerReadsEof, CubicTransferTypes
    <2>2. 0 \in 0 .. MSS
      BY TransferAssumption
    <2> QED
      BY <1>0, <1>3, <2>1, <2>2 DEF CubicReadsEof, ServerReadsEof,
         CubicTransferTypes, EofIsEnd, clientVars
  <1>4. CASE CubicBlocks \/ CubicCrashes
    BY <1>0, <1>4 DEF CubicBlocks, CubicCrashes, CubicTransferTypes, EofIsEnd,
       clientVars, congestionVars, TakeFrom
  <1>5. CASE CubicTimeout
    <2>1. /\ toClient' \in
              SUBSET (DataPackets \cup {ACK_START, Data(Len(File), EofMark)})
          /\ chunkLen' = chunkLen
      BY <1>5, TurnType DEF CubicTimeout
    <2> QED
      BY <1>0, <1>5, <2>1 DEF CubicTimeout, CubicTransferTypes, EofIsEnd,
         clientVars
  <1>6. ASSUME NEW m \in toServer, CubicReceiveAck(m)
        PROVE  CubicPrefixInv'
    <2>1. /\ toClient' \in
              SUBSET (DataPackets \cup {ACK_START, Data(Len(File), EofMark)})
          /\ chunkLen' = chunkLen
      BY <1>6, AckStep, TurnType
    <2>2. /\ base' \in Offsets /\ lastAck' \in Int
          /\ unacked' \in SUBSET {n \in Offsets : n < Len(File)}
      BY <1>6, AckStep, OffsetsAreNat, TransferAssumption
      DEF CubicTransferTypes
    <2>3. /\ dupAcks' \in 0 .. DUP_ACK_THRESHOLD
          /\ toServer' \in SUBSET toServer
          /\ UNCHANGED <<nextSeq, eof, clientVars>>
      BY <1>6, AckStep
    <2> QED
      BY <1>0, <2>1, <2>2, <2>3 DEF CubicTransferTypes, EofIsEnd, clientVars
  <1> QED
    BY <1>1, <1>2, <1>3, <1>4, <1>5, <1>6 DEF CubicServer

\* A lost datagram keeps the types and the prefix.
LEMMA CubicNetworkKeepsPrefix ==
  ASSUME CubicPrefixInv,
         \/ NetworkNext /\ UNCHANGED congestionVars
         \/ UNCHANGED cubicVars
  PROVE  CubicPrefixInv'
  BY DEF NetworkNext, LoseToClient, LoseToServer, cubicVars, serverVars,
     clientVars, congestionVars, CubicPrefixInv, CubicTransferTypes, EofIsEnd,
     WindowHoldsChunks, OutputIsPrefix, Chunk

\* The types and the prefix hold at the start and after every step.
LEMMA CubicPrefixInit == CubicInit => CubicPrefixInv
  <1> SUFFICES ASSUME CubicInit PROVE CubicPrefixInv
    OBVIOUS
  <1>1. PrefixInv
    BY PrefixInit DEF CubicInit
  <1>2. 0 \in 0 .. MSS /\ -1 \in Int
    BY TransferAssumption
  <1> QED
    BY <1>1, <1>2 DEF CubicInit, Init, PrefixInv, TypeOK, CubicPrefixInv,
       CubicTransferTypes

\* Server, client and network keep it.
LEMMA CubicPrefixStep ==
  ASSUME CubicPrefixInv, [CubicNext]_cubicVars
  PROVE  CubicPrefixInv'
  BY CubicServerKeepsPrefix, CubicClientKeepsPrefix, CubicNetworkKeepsPrefix
  DEF CubicNext

\* A client that writes a whole run of buffered packets in one step still
\* writes the bytes of the file, in order, once each.
THEOREM CubicOutputCorrect == CubicSpec => []OutputIsPrefix
  <1>1. CubicPrefixInv => OutputIsPrefix
    BY DEF CubicPrefixInv
  <1> QED
    BY CubicPrefixInit, CubicPrefixStep, <1>1, PTL DEF CubicSpec

-----------------------------------------------------------------------------
(* Acknowledgements and retransmission *)

\* A step of the server keeps the second invariant.
LEMMA CubicServerKeepsAcks ==
  ASSUME CubicAckInv, CubicServer
  PROVE  CubicAckInv'
  <1>0. CubicPrefixInv /\ CubicPrefixInv' /\ CubicTransferTypes
    BY CubicServerKeepsPrefix DEF CubicAckInv, CubicPrefixInv
  <1>n. /\ base \in Nat /\ nextSeq \in Nat /\ expected \in Nat
        /\ nextSeq \in Offsets
        /\ base' \in Nat /\ nextSeq' \in Nat
        /\ \A s \in unacked : s \in Nat
        /\ \A s \in Offsets : s \in Nat
    BY <1>0, OffsetsAreNat DEF CubicPrefixInv, CubicTransferTypes
  <1>o. Offsets' = Offsets
    BY DEF Offsets, Aligned
  <1> USE DEF CubicAckInv
  <1>1. CASE CubicAccept
    <2>1. /\ spc' = "filling" /\ toServer' \in SUBSET toServer
          /\ toClient' = toClient \cup {ACK_START}
          /\ UNCHANGED <<nextSeq, base, unacked, eof, clientVars>>
      BY <1>1 DEF CubicAccept, ServerAccept, TakeFrom
    <2>2. SentBelowNext'
      BY <2>1 DEF SentBelowNext, clientVars, ACK_START
    <2> QED
      BY <1>0, <1>o, <2>1, <2>2 DEF clientVars, AcksNameWrittenBytes,
         UnackedCoversWindow, RetainedAboveBase, DoneMeansAcked
  <1>2. CASE CubicSend
    <2>1. /\ unacked' = unacked \cup {nextSeq}
          /\ nextSeq' = nextSeq + Len(Chunk(nextSeq))
          /\ toClient' = toClient \cup {Packet(nextSeq)}
          /\ spc # "done"
          /\ UNCHANGED <<spc, base, eof, clientVars, toServer>>
      BY <1>2 DEF CubicSend, ServerSend
    <2>2. nextSeq < nextSeq'
      BY <1>2, <1>n, <2>1, SendBeforeEnd, TransferAssumption
    <2>3. UnackedCoversWindow'
      <3> SUFFICES ASSUME NEW s \in Offsets, base <= s, s < nextSeq'
                   PROVE  s \in unacked'
        BY <1>o, <2>1 DEF UnackedCoversWindow
      <3>1. ~ (nextSeq < s)
        BY <2>1, <1>n, NextChunkStart
      <3>2. s < nextSeq \/ s = nextSeq
        BY <3>1, <1>n
      <3> QED
        BY <3>2, <2>1 DEF UnackedCoversWindow
    <2>4. RetainedAboveBase'
      <3>1. base <= nextSeq
        BY <1>n DEF AcksNameWrittenBytes, SentBelowNext
      <3> QED
        BY <3>1, <2>1 DEF RetainedAboveBase
    <2>5. SentBelowNext'
      <3>1. \A s \in DOMAIN rwindow : s \in Nat
        BY <1>0, <1>n DEF CubicTransferTypes
      <3>2. \A m \in toClient : m.type = "DATA" /\ m.data # EofMark => m.seq \in Nat
        BY <1>0, <1>n, CubicDataInFlight
      <3>3. \A s \in Nat : s < nextSeq => s < nextSeq'
        BY <2>2, <1>n
      <3>4. Packet(nextSeq).seq = nextSeq
        BY DEF Packet, Data
      <3>5. expected <= nextSeq'
        BY <2>2, <1>n DEF SentBelowNext
      <3> QED
        BY <2>1, <2>2, <3>1, <3>2, <3>3, <3>4, <3>5, <1>n
        DEF SentBelowNext, clientVars
    <2> QED
      BY <1>0, <2>1, <2>3, <2>4, <2>5 DEF clientVars, AcksNameWrittenBytes,
         DoneMeansAcked
  <1>3. CASE CubicReadsEof \/ CubicBlocks \/ CubicCrashes
    <2>1. /\ spc' # "done" /\ toServer' \in SUBSET toServer
          /\ UNCHANGED <<nextSeq, base, unacked, clientVars, toClient>>
      BY <1>3 DEF CubicReadsEof, ServerReadsEof, CubicBlocks, CubicCrashes,
         TakeFrom
    <2>2. SentBelowNext'
      BY <2>1 DEF SentBelowNext, clientVars
    <2> QED
      BY <1>0, <1>o, <2>1, <2>2 DEF clientVars, AcksNameWrittenBytes,
         UnackedCoversWindow, RetainedAboveBase, DoneMeansAcked
  <1>r. ASSUME NEW w, NEW max, NEW v \in SUBSET unacked,
               Turn(w, max, unacked', {Packet(s) : s \in v}),
               UNCHANGED <<nextSeq, eof, clientVars>>, unacked' \in SUBSET unacked
        PROVE  SentBelowNext' /\ DoneMeansAcked'
    <2>1. \A m \in toClient' : m.type = "DATA" /\ m.data # EofMark =>
            m \in toClient \/ \E s \in v : m = Packet(s)
      BY <1>r, TurnSends DEF EofPacket, Data
    <2>2. \A s \in v : Packet(s).seq = s /\ s < nextSeq
      BY DEF Packet, Data, SentBelowNext
    <2> QED
      BY <1>r, <2>1, <2>2, TurnSends
      DEF SentBelowNext, DoneMeansAcked, clientVars
  <1>4. CASE CubicTimeout
    <2>1. /\ UNCHANGED <<nextSeq, base, unacked, eof, clientVars, toServer>>
          /\ SentBelowNext' /\ DoneMeansAcked'
      BY <1>4, <1>r DEF CubicTimeout
    <2> QED
      BY <1>0, <1>o, <2>1 DEF clientVars, AcksNameWrittenBytes,
         UnackedCoversWindow, RetainedAboveBase
  <1>5. ASSUME NEW m \in toServer, CubicReceiveAck(m)
        PROVE  CubicAckInv'
    <2>1. /\ toServer' \in SUBSET toServer /\ m.type = "ACK"
          /\ m.next \in Nat
          /\ UNCHANGED <<nextSeq, eof, clientVars>>
          /\ \/ /\ base < m.next /\ base' = m.next
                /\ unacked' = {s \in unacked : s >= m.next}
             \/ UNCHANGED <<base, unacked>>
      BY <1>0, <1>5, AckStep, OffsetsAreNat
    <2>2. m.next <= expected
      BY <2>1 DEF AcksNameWrittenBytes
    <2>3. /\ base <= base' /\ base' <= expected
          /\ unacked' = {s \in unacked : base' <= s}
      BY <2>1, <2>2, <1>n DEF AcksNameWrittenBytes, RetainedAboveBase
    <2>4. SentBelowNext' /\ DoneMeansAcked'
      <3>1. unacked' \in SUBSET unacked
        BY <2>1
      <3> QED
        BY <1>0, <1>5, <1>r, <2>1, <3>1, AckStep
    <2>5. AcksNameWrittenBytes'
      BY <2>1, <2>3 DEF clientVars, AcksNameWrittenBytes
    <2>6. UnackedCoversWindow' /\ RetainedAboveBase'
      BY <2>1, <2>3, <1>n, <1>o DEF UnackedCoversWindow, RetainedAboveBase
    <2> QED
      BY <1>0, <2>4, <2>5, <2>6
  <1> QED
    BY <1>1, <1>2, <1>3, <1>4, <1>5 DEF CubicServer

\* A step of the client keeps it: an ACK names what has been written.
LEMMA CubicClientKeepsAcks ==
  ASSUME CubicAckInv, CubicClient
  PROVE  CubicAckInv'
  <1>0. CubicPrefixInv /\ CubicPrefixInv' /\ CubicTransferTypes /\ ClientEffect
    BY CubicClientKeepsPrefix, CubicClientStep DEF CubicAckInv, CubicPrefixInv
  <1>n. /\ base \in Nat /\ nextSeq \in Nat /\ nextSeq \in Offsets
        /\ expected \in Nat /\ expected' \in Nat
        /\ ackTimer \in Int /\ NoTimer \in Int /\ NoTimer <= expected
    BY <1>0, OffsetsAreNat DEF CubicTransferTypes, CubicPrefixInv, NoTimer
  <1>o. Offsets' = Offsets
    BY DEF Offsets, Aligned
  <1> USE DEF CubicAckInv
  <1>1. /\ UNCHANGED <<spc, nextSeq, base, unacked, eof>>
        /\ toClient' \in SUBSET toClient
        /\ toServer' \in SUBSET (toServer \cup {START, Ack(expected)})
        /\ ackTimer' \in {ackTimer, expected, NoTimer}
    BY <1>0 DEF ClientEffect, serverVars
  <1>2. UnackedCoversWindow' /\ RetainedAboveBase' /\ DoneMeansAcked'
    BY <1>1, <1>o DEF UnackedCoversWindow, RetainedAboveBase, DoneMeansAcked
  <1>3. expected <= expected' /\ expected' <= nextSeq
    <2>1. CASE CubicWrites
      <3>1. expected < expected' /\ IsGap(expected, expected')
        BY <1>0, <2>1, WritingExtends
      <3>2. nextSeq \notin DOMAIN rwindow /\ expected <= nextSeq
        BY <1>n DEF SentBelowNext
      <3> QED
        BY <3>1, <3>2, <1>n DEF IsGap
    <2>2. CASE UNCHANGED expected
      BY <2>2, <1>n DEF SentBelowNext
    <2> QED
      BY <1>0, <2>1, <2>2 DEF ClientEffect
  <1>4. \A s \in DOMAIN rwindow' : s < nextSeq
    <2>1. CASE CubicWrites
      BY <1>0, <2>1, WritingExtends DEF SentBelowNext
    <2>2. CASE UNCHANGED rwindow
      BY <2>2 DEF SentBelowNext
    <2>3. ASSUME NEW m \in toClient, m.type = "DATA", m.data # EofMark,
                 rwindow' = [s \in DOMAIN rwindow \cup {m.seq} |->
                               IF s = m.seq THEN m.data ELSE rwindow[s]]
          PROVE  <1>4
      <3>1. DOMAIN rwindow' = DOMAIN rwindow \cup {m.seq} /\ m.seq < nextSeq
        BY <2>3 DEF SentBelowNext
      <3> QED
        BY <3>1 DEF SentBelowNext
    <2> QED
      BY <1>0, <2>1, <2>2, <2>3 DEF ClientEffect
  <1>5. SentBelowNext'
    BY <1>1, <1>3, <1>4 DEF SentBelowNext
  <1>6. AcksNameWrittenBytes'
    <2>1. base <= expected'
      BY <1>3, <1>n DEF AcksNameWrittenBytes
    <2>2. ackTimer' <= expected'
      BY <1>1, <1>3, <1>n DEF AcksNameWrittenBytes
    <2>3. ASSUME NEW m \in toServer', m.type = "ACK" PROVE m.next <= expected'
      <3>1. CASE m \in toServer
        <4>1. m.next \in Nat /\ m.next <= expected
          BY <1>0, <2>3, <3>1, CubicAckInFlight, OffsetsAreNat
          DEF AcksNameWrittenBytes
        <4> QED
          BY <4>1, <1>3, <1>n
      <3>2. CASE m = Ack(expected)
        BY <3>2, <1>3 DEF Ack
      <3> QED
        BY <1>1, <2>3, <3>1, <3>2 DEF START
    <2> QED
      BY <1>1, <2>1, <2>2, <2>3 DEF AcksNameWrittenBytes
  <1> QED
    BY <1>0, <1>2, <1>5, <1>6

\* The second invariant holds at the start and after every step.
LEMMA CubicAckInit == CubicInit => CubicAckInv
  <1> SUFFICES ASSUME CubicInit PROVE CubicAckInv
    OBVIOUS
  <1>1. AckInv /\ DOMAIN rwindow = {}
    BY AckInit DEF CubicInit, Init
  <1> QED
    BY <1>1, CubicPrefixInit DEF CubicInit, Init, AckInv, CubicAckInv,
       RetainedAboveBase, SentBelowNext

\* Server, client and network keep what the acknowledgements rest on.
LEMMA CubicAckStep ==
  ASSUME CubicAckInv, [CubicNext]_cubicVars
  PROVE  CubicAckInv'
  <1>1. CASE CubicServer
    BY <1>1, CubicServerKeepsAcks
  <1>2. CASE CubicClient
    BY <1>2, CubicClientKeepsAcks
  <1>3. CASE \/ NetworkNext /\ UNCHANGED congestionVars
             \/ UNCHANGED cubicVars
    <2>1. CubicPrefixInv'
      BY <1>3, CubicNetworkKeepsPrefix DEF CubicAckInv
    <2>2. /\ UNCHANGED <<serverVars, clientVars>>
          /\ toClient' \in SUBSET toClient /\ toServer' \in SUBSET toServer
      BY <1>3 DEF NetworkNext, LoseToClient, LoseToServer, cubicVars
    <2> QED
      BY <2>1, <2>2 DEF serverVars, clientVars, CubicAckInv,
         AcksNameWrittenBytes, UnackedCoversWindow, RetainedAboveBase,
         SentBelowNext, DoneMeansAcked, Offsets, Aligned
  <1> QED
    BY <1>1, <1>2, <1>3 DEF CubicNext

\* Although the timer thread of Part 3 acknowledges what is written when it
\* fires, not what was when it was set, no ACK runs ahead of the client.
THEOREM CubicAcksCorrect == CubicSpec => []AcksNameWrittenBytes
  <1>1. CubicAckInv => AcksNameWrittenBytes
    BY DEF CubicAckInv
  <1> QED
    BY CubicAckInit, CubicAckStep, <1>1, PTL DEF CubicSpec

\* The server of Part 3 can still retransmit everything the client lacks.
THEOREM CubicLackingRetained == CubicSpec => []LackingIsRetained
  <1>1. CubicAckInv => LackingIsRetained
    <2> SUFFICES ASSUME CubicAckInv, NEW s \in Offsets, expected <= s, s < nextSeq
                 PROVE  s \in unacked
      BY DEF LackingIsRetained
    <2>1. base <= expected /\ base \in Nat /\ expected \in Nat /\ s \in Nat
      BY OffsetsAreNat DEF CubicAckInv, CubicPrefixInv, CubicTransferTypes,
         AcksNameWrittenBytes
    <2> QED
      BY <2>1 DEF CubicAckInv, UnackedCoversWindow
  <1> QED
    BY CubicAckInit, CubicAckStep, <1>1, PTL DEF CubicSpec

-----------------------------------------------------------------------------
(* Fast recovery *)

\* A step of the server: last_ack_received moves with window_base, and the
\* last chunk is empty only before the first read and after the last.
LEMMA ServerKeepsRecovery ==
  ASSUME RecoveryInv, CubicServer
  PROVE  RecoveryInv'
  <1>0. CubicAckInv /\ CubicAckInv' /\ CubicTransferTypes
    BY CubicServerKeepsAcks DEF RecoveryInv, CubicAckInv, CubicPrefixInv
  <1>n. /\ base \in Nat /\ expected \in Nat /\ lastAck \in Int
        /\ chunkLen \in Nat
    BY <1>0, OffsetsAreNat, TransferAssumption DEF CubicTransferTypes
  <1> USE DEF RecoveryInv
  <1>1. CASE CubicAccept
    <2>1. /\ toClient' = toClient \cup {ACK_START}
          /\ UNCHANGED <<base, lastAck, unacked, eof, chunkLen, clientVars>>
      BY <1>1 DEF CubicAccept, ServerAccept
    <2> QED
      BY <1>0, <2>1 DEF FirstChunk, LastAckBelowBase, clientVars, ACK_START
  <1>2. CASE CubicSend
    <2>1. chunkLen' # 0 /\ UNCHANGED <<base, lastAck, eof>>
      BY <1>0, <1>2, SendBeforeEnd DEF CubicSend, ServerSend, CubicAckInv
    <2> QED
      BY <1>0, <2>1 DEF FirstChunk, LastAckBelowBase
  <1>3. CASE CubicReadsEof
    BY <1>0, <1>3 DEF CubicReadsEof, ServerReadsEof, FirstChunk,
       LastAckBelowBase
  <1>4. CASE CubicBlocks \/ CubicCrashes
    <2>1. UNCHANGED <<base, lastAck, unacked, eof, chunkLen, clientVars,
                      toClient>>
      BY <1>4 DEF CubicBlocks, CubicCrashes, congestionVars
    <2> QED
      BY <1>0, <2>1 DEF FirstChunk, LastAckBelowBase, clientVars
  <1>5. ASSUME NEW w, NEW max, NEW v \in SUBSET unacked,
               Turn(w, max, unacked', {Packet(s) : s \in v}),
               UNCHANGED <<eof, clientVars>>, unacked' \in SUBSET unacked
        PROVE  FirstChunk' /\ UNCHANGED chunkLen
    <2>1. UNCHANGED chunkLen
      BY <1>5, TurnSends
    <2>2. ASSUME ~eof, chunkLen = 0
          PROVE  \A m \in toClient' : m.type # "DATA"
      <3>1. \A s \in unacked : FALSE
        BY <2>2, <1>0 DEF FirstChunk
      <3>2. toClient' = toClient
        BY <1>5, <2>2, <3>1, TurnSends
      <3> QED
        BY <2>2, <3>2 DEF FirstChunk
    <2> QED
      BY <1>5, <2>1, <2>2 DEF FirstChunk, clientVars
  <1>6. CASE CubicTimeout
    <2>1. FirstChunk' /\ UNCHANGED <<base, lastAck, eof>>
      BY <1>5, <1>6 DEF CubicTimeout
    <2> QED
      BY <1>0, <2>1 DEF LastAckBelowBase
  <1>7. ASSUME NEW m \in toServer, CubicReceiveAck(m)
        PROVE  RecoveryInv'
    <2>1. FirstChunk' /\ UNCHANGED <<eof, chunkLen>>
      <3>1. unacked' \in SUBSET unacked
        BY <1>0, <1>7, AckStep
      <3> QED
        BY <1>0, <1>5, <1>7, <3>1, AckStep
    <2>2. LastAckBelowBase'
      <3>1. CASE UNCHANGED <<base, lastAck>>
        BY <2>1, <3>1 DEF LastAckBelowBase
      <3>2. CASE base < m.next /\ base' = m.next /\ lastAck' = m.next - chunkLen
        <4>1. m.next \in Nat /\ m.type = "ACK"
          BY <1>0, <1>7, AckStep, OffsetsAreNat
        <4>2. m.next <= expected
          BY <1>0, <4>1 DEF CubicAckInv, AcksNameWrittenBytes
        <4>3. ~eof => chunkLen # 0
          BY <3>2, <4>1, <4>2, <1>n DEF FirstChunk
        <4> QED
          BY <2>1, <3>2, <4>1, <4>3, <1>n DEF LastAckBelowBase
      <3> QED
        BY <1>0, <1>7, <3>1, <3>2, AckStep
    <2> QED
      BY <1>0, <2>1, <2>2
  <1> QED
    BY <1>1, <1>2, <1>3, <1>4, <1>6, <1>7 DEF CubicServer

\* A step of the client or of the network: before the first chunk nothing is
\* there to be buffered or written.
LEMMA OthersKeepRecovery ==
  ASSUME RecoveryInv,
         \/ CubicClient
         \/ NetworkNext /\ UNCHANGED congestionVars
         \/ UNCHANGED cubicVars
  PROVE  RecoveryInv'
  <1>0. CubicAckInv'
    BY CubicAckStep DEF RecoveryInv, CubicNext
  <1>1. CASE CubicClient
    <2>1. ClientEffect
      BY <1>1, CubicClientStep
    <2>2. /\ UNCHANGED <<base, lastAck, unacked, eof, chunkLen>>
          /\ toClient' \in SUBSET toClient
      BY <2>1 DEF ClientEffect, serverVars, congestionVars
    <2>3. ASSUME ~eof, chunkLen = 0 PROVE UNCHANGED <<expected, rwindow>>
      BY <2>1, <2>3 DEF ClientEffect, CubicWrites, RecoveryInv, FirstChunk
    <2> QED
      BY <1>0, <2>2, <2>3 DEF RecoveryInv, FirstChunk, LastAckBelowBase
  <1>2. CASE \/ NetworkNext /\ UNCHANGED congestionVars
             \/ UNCHANGED cubicVars
    <2>1. /\ UNCHANGED <<serverVars, clientVars, congestionVars>>
          /\ toClient' \in SUBSET toClient
      BY <1>2 DEF NetworkNext, LoseToClient, LoseToServer, cubicVars
    <2> QED
      BY <1>0, <2>1 DEF serverVars, clientVars, congestionVars, RecoveryInv,
         FirstChunk, LastAckBelowBase
  <1> QED
    BY <1>1, <1>2

\* Before the end of the file is read, no ACK makes the server send anything.
AcksResendNothing ==
  [][~eof /\ (\E m \in toServer : CubicReceiveAck(m)) => UNCHANGED toClient]_cubicVars

\* How far the violation of DuplicatesAskForAPacket goes: until the end of the
\* file has been read, fast recovery never sends a packet again.  It halves the
\* window, and the packet that is missing waits for the time-out.
THEOREM FastRecoveryResendsNothing == CubicSpec => AcksResendNothing
  <1>1. CubicInit => RecoveryInv
    BY CubicAckInit DEF CubicInit, Init, RecoveryInv, FirstChunk,
       LastAckBelowBase
  <1>2. RecoveryInv /\ [CubicNext]_cubicVars => RecoveryInv'
    BY ServerKeepsRecovery, OthersKeepRecovery DEF CubicNext
  <1>3. ASSUME RecoveryInv, ~eof, NEW m \in toServer, CubicReceiveAck(m)
        PROVE  UNCHANGED toClient
    <2>1. lastAck \notin unacked
      <3>1. lastAck < base /\ base \in Int /\ lastAck \in Int
        BY <1>3, OffsetsAreNat
        DEF RecoveryInv, CubicAckInv, CubicPrefixInv, CubicTransferTypes,
            LastAckBelowBase
      <3>2. lastAck \in unacked => base <= lastAck
        BY <1>3 DEF RecoveryInv, CubicAckInv, RetainedAboveBase
      <3> QED
        BY <3>1, <3>2
    <2>2. ASSUME NEW stillUnacked, NEW sent, AfterReceive(stillUnacked, sent),
                 sent = {}
          PROVE  UNCHANGED toClient
      BY <1>3, <2>2 DEF AfterReceive
    <2>3. CASE CubicNewAck(m.next) \/ CubicOldAck(m.next)
      BY <2>2, <2>3 DEF CubicNewAck, CubicOldAck, Turn
    <2>4. CASE CubicDuplicateAck(m.next)
      <3>1. m.next = lastAck /\ {Packet(s) : s \in unacked \cap {m.next}} = {}
        BY <2>1, <2>4 DEF CubicDuplicateAck
      <3> QED
        BY <2>2, <2>4, <3>1 DEF CubicDuplicateAck, Turn
    <2> QED
      BY <1>3, <2>3, <2>4 DEF CubicReceiveAck
  <1>4. RecoveryInv /\ [CubicNext]_cubicVars =>
          [~eof /\ (\E m \in toServer : CubicReceiveAck(m)) => UNCHANGED toClient]_cubicVars
    BY <1>3
  <1> QED
    BY <1>1, <1>2, <1>4, PTL DEF CubicSpec, AcksResendNothing

-----------------------------------------------------------------------------
(* The congestion window *)

\* Half a window, rounded up.
LEMMA HalfBounds ==
  ASSUME NEW w \in Nat \ {0}
  PROVE  Half(w) \in Nat \ {0} /\ Half(w) <= w /\ w <= 2 * Half(w)
  BY DEF Half

\* The window for the next turn, from the last one or from half of it.
LEMMA SizeInRange ==
  ASSUME WindowInv, spc # "done",
         NEW w \in {window, Half(window)}, NEW max \in 1 .. WINDOW_SIZE,
         SizeWindow(w, max)
  PROVE  /\ window' \in 1 .. WINDOW_SIZE
         /\ maxWindow' \in 1 .. WINDOW_SIZE
         /\ iteration' \in Nat
         /\ 2 ^ iteration' <= 8 * SLOW_START_LIMIT
         /\ iteration' = 0 \/ 2 ^ iteration' = 2 * window'
  <1>0. /\ WINDOW_SIZE \in Nat \ {0} /\ SLOW_START_LIMIT \in Nat \ {0}
        /\ WINDOW_SIZE >= 4 * SLOW_START_LIMIT
        /\ window \in Nat \ {0} /\ iteration \in Nat
    BY TransferAssumption, CongestionAssumption DEF WindowInv, CubicTypeOK
  <1>1. w \in Nat \ {0} /\ window <= 2 * w
    BY <1>0, HalfBounds
  <1>2. maxWindow' = max
    BY DEF SizeWindow
  <1>3. CASE w > SLOW_START_LIMIT
    <2>1. window' \in Half(max) .. WINDOW_SIZE /\ iteration' = 0
      BY <1>3 DEF SizeWindow
    <2>2. Half(max) \in Nat \ {0}
      BY <1>0, HalfBounds
    <2>3. 2 ^ 0 = 1
      BY PowerOfTwo
    <2> QED
      BY <1>0, <1>2, <2>1, <2>2, <2>3
  <1>4. CASE ~ (w > SLOW_START_LIMIT)
    <2>1. window' = 2 ^ iteration /\ iteration' = iteration + 1
      BY <1>4 DEF SizeWindow
    <2>2. /\ 2 ^ iteration \in Nat \ {0}
          /\ 2 ^ (iteration + 1) = 2 * 2 ^ iteration
          /\ 2 ^ 0 = 1
      BY <1>0, PowerOfTwo
    <2>3. 2 ^ iteration <= 4 * SLOW_START_LIMIT
      <3>1. CASE iteration = 0
        BY <3>1, <2>2, <1>0
      <3>2. CASE 2 ^ iteration = 2 * window
        <4> DEFINE x == 2 ^ iteration
        <4>1. x = 2 * window /\ w <= SLOW_START_LIMIT
          BY <3>2, <1>0, <1>1, <1>4
        <4> HIDE DEF x
        <4>2. x <= 4 * SLOW_START_LIMIT
          BY <4>1, <1>0, <1>1
        <4> QED
          BY <4>2 DEF x
      <3> QED
        BY <3>1, <3>2 DEF WindowInv
    <2> DEFINE x == 2 ^ iteration
               y == 2 ^ iteration'
    <2>4. x \in Nat \ {0} /\ y = 2 * x /\ x <= 4 * SLOW_START_LIMIT /\ window' = x
      BY <2>1, <2>2, <2>3
    <2> HIDE DEF x, y
    <2>5. /\ window' \in 1 .. WINDOW_SIZE
          /\ y <= 8 * SLOW_START_LIMIT /\ y = 2 * window'
      BY <2>4, <1>0
    <2> QED
      BY <1>0, <1>2, <2>1, <2>5 DEF y
  <1> QED
    BY <1>0, <1>1, <1>3, <1>4

\* What a turn of the server's loop does to the congestion variables.
LEMMA TurnKeepsWindow ==
  ASSUME WindowInv, spc # "done", NEW u, NEW sent,
         \/ Turn(window, maxWindow, u, sent)
         \/ Turn(Half(window), window, u, sent)
  PROVE  /\ spc' \in {"filling", "done"}
         /\ window' \in 1 .. WINDOW_SIZE
         /\ maxWindow' \in 1 .. WINDOW_SIZE
         /\ iteration' \in Nat
         /\ 2 ^ iteration' <= 8 * SLOW_START_LIMIT
         /\ spc' # "done" => iteration' = 0 \/ 2 ^ iteration' = 2 * window'
         /\ UNCHANGED preBase
  <1>0. /\ window \in 1 .. WINDOW_SIZE /\ maxWindow \in 1 .. WINDOW_SIZE
        /\ iteration \in Nat /\ 2 ^ iteration <= 8 * SLOW_START_LIMIT
        /\ Half(window) \in 1 .. WINDOW_SIZE
    <2>1. /\ window \in 1 .. WINDOW_SIZE /\ maxWindow \in 1 .. WINDOW_SIZE
          /\ iteration \in Nat /\ 2 ^ iteration <= 8 * SLOW_START_LIMIT
      BY DEF WindowInv, CubicTypeOK
    <2>2. WINDOW_SIZE \in Nat /\ window \in Nat \ {0}
      BY <2>1, TransferAssumption
    <2>3. Half(window) \in Nat \ {0} /\ Half(window) <= window
      BY <2>2, HalfBounds
    <2> QED
      BY <2>1, <2>2, <2>3
  <1>1. spc' \in {"filling", "done"} /\ UNCHANGED preBase
    BY TurnSends
  <1>2. CASE spc' = "done"
    <2>1. /\ iteration' = iteration /\ window' \in {window, Half(window)}
          /\ maxWindow' \in {maxWindow, window}
      BY <1>2 DEF Turn
    <2> QED
      BY <1>0, <1>1, <1>2, <2>1
  <1>3. CASE spc' # "done"
    <2>1. SizeWindow(window, maxWindow) \/ SizeWindow(Half(window), window)
      BY <1>3 DEF Turn
    <2> QED
      BY <1>0, <1>1, <2>1, SizeInRange
  <1> QED
    BY <1>2, <1>3

\* Every step keeps the window in its range.
LEMMA WindowStep ==
  ASSUME WindowInv, [CubicNext]_cubicVars
  PROVE  WindowInv'
  <1>0. CubicPrefixInv /\ CubicPrefixInv' /\ CubicTransferTypes
    BY CubicPrefixStep DEF WindowInv, CubicPrefixInv
  <1>c. chunkLen' \in 0 .. MSS /\ base \in Offsets
    BY <1>0 DEF CubicPrefixInv, CubicTransferTypes
  <1>o. Offsets' = Offsets
    BY DEF Offsets, Aligned
  <1>t. /\ spc \in {"waiting", "filling", "receiving", "done", "crashed"}
        /\ window \in 1 .. WINDOW_SIZE /\ maxWindow \in 1 .. WINDOW_SIZE
        /\ iteration \in Nat /\ 2 ^ iteration <= 8 * SLOW_START_LIMIT
        /\ preBase \in Offsets \cup {-1}
    BY DEF WindowInv, CubicTypeOK
  <1>1. CASE CubicAccept
    <2>1. spc = "waiting" /\ spc' = "filling" /\ UNCHANGED preBase
      BY <1>1 DEF CubicAccept, ServerAccept
    <2>2. SizeWindow(window, maxWindow)
      BY <1>1 DEF CubicAccept
    <2> QED
      BY <1>0, <1>c, <1>o, <1>t, <2>1, <2>2, SizeInRange
      DEF WindowInv, CubicTypeOK
  <1>2. ASSUME NEW u, NEW sent, spc = "receiving",
               \/ Turn(window, maxWindow, u, sent)
               \/ Turn(Half(window), window, u, sent)
        PROVE  WindowInv'
    BY <1>0, <1>c, <1>o, <1>t, <1>2, TurnKeepsWindow DEF WindowInv, CubicTypeOK
  <1>3. CASE CubicTimeout
    BY <1>2, <1>3 DEF CubicTimeout
  <1>4. ASSUME NEW m \in toServer, CubicReceiveAck(m)
        PROVE  WindowInv'
    <2>1. spc = "receiving"
      BY <1>4 DEF CubicReceiveAck
    <2>2. PICK v \in SUBSET unacked :
            \/ Turn(window, maxWindow, unacked', {Packet(s) : s \in v})
            \/ Turn(Half(window), window, unacked', {Packet(s) : s \in v})
      BY <1>0, <1>4, AckStep
    <2> QED
      BY <1>2, <2>1, <2>2
  <1>5. ASSUME UNCHANGED <<window, maxWindow, iteration>>,
               preBase' \in {preBase, base},
               \/ spc' = spc
               \/ spc # "done" /\ spc' \in {"receiving", "crashed"}
        PROVE  WindowInv'
    BY <1>0, <1>c, <1>o, <1>t, <1>5 DEF WindowInv, CubicTypeOK
  <1>6. CASE CubicSend \/ CubicReadsEof \/ CubicBlocks \/ CubicCrashes
    <2>1. /\ UNCHANGED <<window, maxWindow, iteration>>
          /\ preBase' \in {preBase, base}
          /\ \/ spc' = spc
             \/ spc # "done" /\ spc' \in {"receiving", "crashed"}
      BY <1>6 DEF CubicSend, ServerSend, CubicReadsEof, ServerReadsEof,
         CubicBlocks, CubicCrashes, congestionVars
    <2> QED
      BY <1>5, <2>1
  <1>7. CASE CubicClient
    BY <1>5, <1>7, CubicClientStep DEF ClientEffect, serverVars, congestionVars
  <1>8. CASE \/ NetworkNext /\ UNCHANGED congestionVars
             \/ UNCHANGED cubicVars
    BY <1>5, <1>8 DEF NetworkNext, LoseToClient, LoseToServer, cubicVars,
       serverVars, congestionVars
  <1> QED
    BY <1>1, <1>3, <1>4, <1>6, <1>7, <1>8 DEF CubicNext, CubicServer

\* However losses and slow start alternate, a window never vanishes and never
\* outgrows the largest one, and 2 ** ITERATION stays within eight times the
\* slow-start limit.
THEOREM CubicTypeCorrect == CubicSpec => []CubicTypeOK
  <1>1. CubicInit => WindowInv
    <2> SUFFICES ASSUME CubicInit PROVE WindowInv
      OBVIOUS
    <2>1. 2 ^ 0 = 1
      BY PowerOfTwo
    <2>2. /\ 1 \in 1 .. WINDOW_SIZE /\ FIRST_MAX_WINDOW \in 1 .. WINDOW_SIZE
          /\ 1 <= 8 * SLOW_START_LIMIT /\ 0 \in 0 .. MSS
      BY TransferAssumption, CongestionAssumption
    <2> QED
      BY <2>1, <2>2, CubicPrefixInit DEF CubicInit, Init, WindowInv, CubicTypeOK
  <1>2. WindowInv => CubicTypeOK
    BY DEF WindowInv
  <1> QED
    BY <1>1, <1>2, WindowStep, PTL DEF CubicSpec

-----------------------------------------------------------------------------
(* The end of the transfer, and the abstract specification *)

\* "File transfer complete" on the server: the client has written every byte.
LEMMA CubicDoneMeansWhole ==
  ASSUME CubicAckInv, spc = "done"
  PROVE  base = Len(File) /\ expected = Len(File) /\ output = File
  <1>1. eof /\ unacked = {} /\ nextSeq = Len(File)
    BY DEF CubicAckInv, CubicPrefixInv, DoneMeansAcked, EofIsEnd
  <1>2. base \in Offsets /\ expected \in Offsets /\ base <= expected
    BY DEF CubicAckInv, CubicPrefixInv, CubicTransferTypes, AcksNameWrittenBytes
  <1>3. ~ (base < Len(File))
    BY <1>1, <1>2, OffsetsAreNat DEF CubicAckInv, UnackedCoversWindow
  <1>4. base = Len(File) /\ expected = Len(File)
    BY <1>2, <1>3, OffsetsAreNat
  <1>5. SubSeq(File, 1, Len(File)) = File
    BY TransferAssumption
  <1> QED
    BY <1>4, <1>5 DEF CubicAckInv, CubicPrefixInv, OutputIsPrefix

\* So it is after a step that ends the server.
LEMMA CubicDoneAfterwards == (CubicAckInv /\ spc = "done" => base = Len(File))'
  <1>1. CubicAckInv /\ spc = "done" => base = Len(File)
    BY CubicDoneMeansWhole
  <1> QED
    BY <1>1, PTL

\* What a step of the server does to what FileDelivery sees.
LEMMA CubicServerEffect ==
  ASSUME CubicAckInv, CubicServer
  PROVE  /\ spc # "done" /\ UNCHANGED clientVars
         /\ base <= base'
         /\ \A m \in toClient' : m.type = "DATA" =>
              \/ m \in toClient
              \/ \E s \in Offsets : s < Len(File) /\ m = Packet(s)
              \/ spc' = "done"
  <1>0. /\ CubicTransferTypes /\ CubicPrefixInv
        /\ base \in Nat /\ base \in Offsets
        /\ unacked \in SUBSET {s \in Offsets : s < Len(File)}
    BY OffsetsAreNat DEF CubicAckInv, CubicPrefixInv, CubicTransferTypes
  <1>1. CASE CubicAccept
    <2>1. /\ spc # "done" /\ UNCHANGED <<base, clientVars>>
          /\ toClient' = toClient \cup {ACK_START}
      BY <1>1 DEF CubicAccept, ServerAccept
    <2> QED
      BY <1>0, <2>1 DEF ACK_START
  <1>2. CASE CubicSend
    <2>1. /\ spc # "done" /\ UNCHANGED <<base, clientVars>>
          /\ toClient' = toClient \cup {Packet(nextSeq)}
      BY <1>2 DEF CubicSend, ServerSend
    <2>2. nextSeq \in Offsets /\ nextSeq < Len(File)
      BY <1>0, <1>2, SendBeforeEnd
    <2> QED
      BY <1>0, <2>1, <2>2
  <1>3. CASE CubicReadsEof \/ CubicBlocks \/ CubicCrashes
    <2>1. spc # "done" /\ UNCHANGED <<base, toClient, clientVars>>
      BY <1>3 DEF CubicReadsEof, ServerReadsEof, CubicBlocks, CubicCrashes
    <2> QED
      BY <1>0, <2>1
  <1>4. ASSUME NEW w, NEW max, NEW u, NEW v \in SUBSET unacked,
               Turn(w, max, u, {Packet(s) : s \in v})
        PROVE  \A m \in toClient' : m.type = "DATA" =>
                 \/ m \in toClient
                 \/ \E s \in Offsets : s < Len(File) /\ m = Packet(s)
                 \/ spc' = "done"
    BY <1>0, <1>4, TurnSends
  <1>5. CASE CubicTimeout
    <2>1. /\ spc # "done" /\ UNCHANGED <<base, clientVars>>
          /\ Turn(Half(window), window, unacked, {Packet(s) : s \in unacked})
      BY <1>5 DEF CubicTimeout
    <2>2. \A m \in toClient' : m.type = "DATA" =>
            \/ m \in toClient
            \/ \E s \in Offsets : s < Len(File) /\ m = Packet(s)
            \/ spc' = "done"
      BY <1>0, <1>4, <2>1
    <2>3. base <= base'
      BY <1>0, <2>1
    <2> QED
      BY <2>1, <2>2, <2>3
  <1>6. ASSUME NEW m \in toServer, CubicReceiveAck(m)
        PROVE  /\ spc # "done" /\ UNCHANGED clientVars
               /\ base <= base'
               /\ \A k \in toClient' : k.type = "DATA" =>
                    \/ k \in toClient
                    \/ \E s \in Offsets : s < Len(File) /\ k = Packet(s)
                    \/ spc' = "done"
    <2>1. m.next \in Nat
      BY <1>0, <1>6, AckStep, OffsetsAreNat
    <2>2. /\ spc # "done" /\ UNCHANGED clientVars
          /\ base <= base'
      BY <1>0, <1>6, <2>1, AckStep
    <2> QED
      BY <1>0, <1>4, <1>6, <2>2, AckStep
  <1> QED
    BY <1>1, <1>2, <1>3, <1>5, <1>6 DEF CubicServer

\* The EOF packet is only sent, and the client only ends, after the server did.
LEMMA CubicCloseStep ==
  ASSUME NoEofChunk, CubicCloseInv, [CubicNext]_cubicVars
  PROVE  CubicCloseInv'
  <1>0. CubicAckInv /\ CubicAckInv'
    BY CubicAckStep DEF CubicCloseInv
  <1>1. CASE CubicServer
    <2>1. \A s \in Offsets : s < Len(File) => Packet(s).data # EofMark
      BY DEF NoEofChunk, Packet, Data
    <2> QED
      BY <1>0, <1>1, <2>1, CubicServerEffect DEF CubicCloseInv, clientVars
  <1>2. CASE CubicClient
    <2>1. UNCHANGED spc /\ toClient' \in SUBSET toClient
      BY <1>2, CubicClientStep DEF ClientEffect, serverVars
    <2>2. cpc' \in {"finishing", "done"} => spc = "done"
      <3>1. CASE ~ ClientAsInPart1
        <4>1. cpc' = cpc
          BY <1>2, <3>1 DEF CubicClient, CubicWrites, CubicIgnores,
             CubicDelayedAck, clientVars
        <4> QED
          BY <4>1 DEF CubicCloseInv
      <3>2. CASE ClientAsInPart1
        BY <3>2 DEF CubicCloseInv, ClientAsInPart1, ClientConnect,
           ClientConnected, ClientRetries, ClientConnectTimeout,
           ClientBuffers, ClientWritten, ClientRejects, ClientReceivesEof,
           ClientFinishes, ClientTimeout
      <3> QED
        BY <3>1, <3>2
    <2> QED
      BY <1>0, <2>1, <2>2 DEF CubicCloseInv
  <1>3. CASE \/ NetworkNext /\ UNCHANGED congestionVars
             \/ UNCHANGED cubicVars
    BY <1>0, <1>3 DEF NetworkNext, LoseToClient, LoseToServer, cubicVars,
       serverVars, clientVars, CubicCloseInv
  <1> QED
    BY <1>1, <1>2, <1>3 DEF CubicNext

\* Every step delivers, confirms, closes, or changes nothing FileDelivery sees.
LEMMA CubicStepDelivers ==
  ASSUME CubicCloseInv, CubicCloseInv', [CubicNext]_cubicVars
  PROVE  [Delivery!Next]_(Delivery!vars)
  <1>0. /\ CubicAckInv /\ CubicAckInv' /\ CubicPrefixInv
        /\ base \in Nat /\ base' \in Nat /\ expected \in Nat
        /\ expected <= Len(File) /\ expected' \in Offsets
        /\ base' <= expected'
    BY OffsetsAreNat DEF CubicCloseInv, CubicAckInv, CubicPrefixInv,
       CubicTransferTypes, AcksNameWrittenBytes
  <1>1. Len(output) = expected
    <2>1. Len(SubSeq(File, 1, expected)) = expected
      BY <1>0, TransferAssumption
    <2> QED
      BY <1>0, <2>1 DEF CubicPrefixInv, OutputIsPrefix
  <1>2. CASE CubicServer
    <2>1. /\ spc # "done" /\ UNCHANGED <<output, cpc, expected>>
          /\ base <= base'
      BY <1>0, <1>2, CubicServerEffect DEF clientVars
    <2>2. spc' = "done" => base' = Len(File)
      BY <1>0, CubicDoneAfterwards
    <2>3. base' \in base .. Len(output)
      BY <1>0, <1>1, <2>1
    <2>4. (spc' = "done") \in BOOLEAN
      OBVIOUS
    <2> QED
      BY <2>1, <2>2, <2>3, <2>4 DEF Delivery!Next, Delivery!Confirm
  <1>3. CASE CubicWrites
    <2>1. /\ expected' \in Offsets /\ expected < expected'
          /\ output' = SubSeq(File, 1, expected')
      BY <1>0, <1>3, WritingExtends
    <2>2. expected' \in expected + 1 .. Len(File)
      BY <1>0, <2>1, OffsetsAreNat
    <2>3. UNCHANGED <<base, spc, cpc>>
      BY <1>3 DEF CubicWrites, serverVars
    <2> QED
      BY <1>1, <2>1, <2>2, <2>3 DEF Delivery!Next, Delivery!Deliver
  <1>4. CASE ClientFinishes
    <2>1. spc = "done" /\ output = File
      BY <1>0, <1>4, CubicDoneMeansWhole DEF ClientFinishes, CubicCloseInv
    <2> QED
      BY <1>4, <2>1 DEF ClientFinishes, serverVars, Delivery!Next,
         Delivery!CloseReceiver
  <1>5. CASE \/ CubicClient /\ ~CubicWrites /\ ~ClientFinishes
             \/ NetworkNext
             \/ UNCHANGED cubicVars
    <2>1. /\ UNCHANGED <<output, base, spc>>
          /\ (cpc' = "done") = (cpc = "done")
      BY <1>5 DEF CubicClient, ClientAsInPart1, CubicIgnores, CubicDelayedAck,
         ClientConnect, ClientConnected, ClientRetries, ClientConnectTimeout,
         ClientBuffers, ClientWritten, ClientRejects, ClientReceivesEof,
         ClientTimeout, serverVars, clientVars, NetworkNext, LoseToClient,
         LoseToServer, cubicVars
    <2> QED
      BY <2>1 DEF Delivery!vars
  <1> QED
    BY <1>2, <1>3, <1>4, <1>5 DEF CubicNext

\* The transfer of Part 3, too, implements FileDelivery, in any file none of
\* whose packets holds exactly the three bytes "EOF"; a server that crashes at
\* a late START is one that never closes.
THEOREM CubicImplementsDelivery == NoEofChunk => (CubicSpec => DeliversFile)
  <1> SUFFICES ASSUME NoEofChunk PROVE CubicSpec => Delivery!Spec
    BY DEF DeliversFile
  <1>1. CubicInit => CubicCloseInv /\ Delivery!Init
    BY CubicAckInit DEF CubicInit, Init, CubicCloseInv, Delivery!Init
  <1>2. CubicCloseInv /\ [CubicNext]_cubicVars => CubicCloseInv'
    BY CubicCloseStep
  <1>3. CubicCloseInv /\ CubicCloseInv' /\ [CubicNext]_cubicVars
          => [Delivery!Next]_(Delivery!vars)
    BY CubicStepDelivers
  <1> QED
    BY <1>1, <1>2, <1>3, PTL DEF CubicSpec, Delivery!Spec

=============================================================================
