---------------------------- MODULE UdpTransfer ----------------------------
(***************************************************************************)
(* Part 1 of the "TCP-like UDP" project: a file server (Q1_server.py) that *)
(* sends a file with a sliding window, cumulative acknowledgements,        *)
(* time-outs and fast recovery, and a client (Q1_client.py) that buffers   *)
(* out-of-order datagrams and delays its acknowledgements with a timer     *)
(* thread.  Between them a UDP network may lose, duplicate and reorder     *)
(* datagrams.                                                              *)
(*                                                                         *)
(* Sequence numbers are byte offsets in the file, as in the code.  The     *)
(* round-trip estimate, the time-out interval and send_time are abstracted *)
(* away: a receive call may time out whenever its process is blocked in it.*)
(***************************************************************************)
EXTENDS Integers, Sequences, FiniteSets

CONSTANTS
  File,               \* the bytes of input.txt
  MSS,                \* bytes per data packet
  EofMark,            \* the payload b"EOF" that ends a transfer
  WINDOW_SIZE,        \* the server's window, in packets
  RECEIVE_WINDOW,     \* the client's window, in packets: RECEIVE_WINDOW_SIZE / MSS
  DUP_ACK_THRESHOLD,  \* duplicate ACKs that trigger fast recovery
  FastRecovery        \* the server's third command-line argument

ASSUME TransferAssumption ==
  /\ File \in Seq(STRING)
  /\ EofMark \in Seq(STRING)
  /\ MSS \in Nat \ {0}
  /\ WINDOW_SIZE \in Nat \ {0}
  /\ RECEIVE_WINDOW \in Nat \ {0}
  /\ DUP_ACK_THRESHOLD \in Nat \ {0}
  /\ FastRecovery \in BOOLEAN

VARIABLES
  \* the server, send_file()
  spc,        \* where its main loop is
  nextSeq,    \* next_sequence_number
  base,       \* window_base
  unacked,    \* the keys of unacked_packets
  dupAcks,    \* duplicate_ack_count
  lastAck,    \* last_ack_received
  eof,        \* the end of the file was read
  \* the client, receive_file()
  cpc,        \* where its main thread is
  expected,   \* expected_sequence_number
  rwindow,    \* receive_window: offset -> payload
  ackTimer,   \* the ACK value a running delayed_ack timer captured, or NoTimer
  output,     \* the bytes written to received_file.txt
  \* the network
  toClient,   \* datagrams in flight to the client
  toServer    \* datagrams in flight to the server

serverVars == <<spc, nextSeq, base, unacked, dupAcks, lastAck, eof>>
clientVars == <<cpc, expected, rwindow, ackTimer, output>>
vars == <<spc, nextSeq, base, unacked, dupAcks, lastAck, eof,
          cpc, expected, rwindow, ackTimer, output, toClient, toServer>>

NoTimer == -1

-----------------------------------------------------------------------------
(* Datagrams *)

START     == [type |-> "START"]
ACK_START == [type |-> "ACK_START"]
Data(s, d) == [type |-> "DATA", seq |-> s, data |-> d]
\* Mutant: an ACK that names the last byte received, not the next one expected.
AckLastByte(n) == [type |-> "ACK", next |-> n - 1]
Ack(n)     == [type |-> "ACK", next |-> n]

\* file.seek(s); file.read(MSS)
Chunk(s) ==
  SubSeq(File, s + 1, IF s + MSS <= Len(File) THEN s + MSS ELSE Len(File))

\* The packet create_packet() built for offset s when it was first sent.
Packet(s) == Data(s, Chunk(s))

\* The packet that tells the client the transfer is over.
EofPacket == Data(nextSeq, EofMark)

-----------------------------------------------------------------------------
(* The network.  A datagram that is received may stay in flight (it was    *)
(* duplicated) or leave; identical datagrams in flight are one element, so *)
(* a duplicate is one that is received again.                              *)

TakeFrom(net, m) == {net, net \ {m}}

LoseToClient(m) ==
  /\ m \in toClient
  /\ toClient' = toClient \ {m}
  /\ UNCHANGED <<serverVars, clientVars, toServer>>

LoseToServer(m) ==
  /\ m \in toServer
  /\ toServer' = toServer \ {m}
  /\ UNCHANGED <<serverVars, clientVars, toClient>>

-----------------------------------------------------------------------------
(* The server *)

\* No client yet: START fixes client_address and is answered once.
ServerAccept ==
  /\ spc = "waiting"
  /\ START \in toServer
  /\ toServer' \in TakeFrom(toServer, START)
  /\ toClient' = toClient \cup {ACK_START}
  /\ spc' = "filling"
  /\ UNCHANGED <<nextSeq, base, unacked, dupAcks, lastAck, eof, clientVars>>

\* Mutant: the window is compared with <=.
MaySendBeyond == nextSeq <= base + WINDOW_SIZE * MSS /\ ~eof

\* One turn of the loop that fills the window.
MaySend == nextSeq < base + WINDOW_SIZE * MSS /\ ~eof

ServerSend ==
  /\ spc = "filling"
  /\ MaySend
  /\ Chunk(nextSeq) # <<>>
  /\ toClient' = toClient \cup {Packet(nextSeq)}
  /\ unacked' = unacked \cup {nextSeq}
  /\ nextSeq' = nextSeq + Len(Chunk(nextSeq))
  /\ UNCHANGED <<spc, base, dupAcks, lastAck, eof, clientVars, toServer>>

\* The loop reads an empty chunk: nothing is left to send.
ServerReadsEof ==
  /\ spc = "filling"
  /\ MaySend
  /\ Chunk(nextSeq) = <<>>
  /\ eof' = TRUE
  /\ UNCHANGED <<spc, nextSeq, base, unacked, dupAcks, lastAck, clientVars,
                 toClient, toServer>>

\* The window is full or the file is exhausted: block in recvfrom().
ServerBlocks ==
  /\ spc = "filling"
  /\ ~MaySend
  /\ spc' = "receiving"
  /\ UNCHANGED <<nextSeq, base, unacked, dupAcks, lastAck, eof, clientVars,
                 toClient, toServer>>

\* Mutants: the end is not made to wait for the last ACKs, or for the whole file.
AfterReceiveUnacked(stillUnacked, sent) ==
  IF eof
  THEN toClient' = toClient \cup sent \cup {EofPacket} /\ spc' = "done"
  ELSE toClient' = toClient \cup sent /\ spc' = "filling"

AfterReceiveUnread(stillUnacked, sent) ==
  IF stillUnacked = {}
  THEN toClient' = toClient \cup sent \cup {EofPacket} /\ spc' = "done"
  ELSE toClient' = toClient \cup sent /\ spc' = "filling"

\* The end of the main loop, after an ACK or a time-out was handled: send the
\* EOF packet once and stop when everything was read and acknowledged.
AfterReceive(stillUnacked, sent) ==
  IF eof /\ stillUnacked = {}
  THEN /\ toClient' = toClient \cup sent \cup {EofPacket}
       /\ spc' = "done"
  ELSE /\ toClient' = toClient \cup sent
       /\ spc' = "filling"

\* retransmit_unacked_packets()
ServerTimeout ==
  /\ spc = "receiving"
  /\ AfterReceive(unacked, {Packet(s) : s \in unacked})
  /\ UNCHANGED <<nextSeq, base, unacked, dupAcks, lastAck, eof, clientVars,
                 toServer>>

\* A datagram that is not an ACK (a late START) is no JSON, for which
\* get_sequence_number_from_ack() returns -1 (lines 36-44); the loop skips it
\* with "continue", which also skips the test at its end.
ServerIgnores ==
  /\ spc = "receiving"
  /\ START \in toServer
  /\ toServer' \in TakeFrom(toServer, START)
  /\ spc' = "filling"
  /\ UNCHANGED <<nextSeq, base, unacked, dupAcks, lastAck, eof, clientVars,
                 toClient>>

\* Mutants: the packet the ACK asks for is dropped too; last_ack_received is
\* not set.
NewAckDropsNext(n) ==
  /\ n > base
  /\ base' = n
  /\ lastAck' = n
  /\ unacked' = {s \in unacked : s > n}
  /\ dupAcks' = 0
  /\ AfterReceive(unacked', {})

NewAckForgotten(n) ==
  /\ n > base
  /\ base' = n
  /\ UNCHANGED lastAck
  /\ unacked' = {s \in unacked : s >= n}
  /\ dupAcks' = 0
  /\ AfterReceive(unacked', {})

\* An ACK beyond window_base slides the window.
NewAck(n) ==
  /\ n > base
  /\ base' = n
  /\ lastAck' = n
  /\ unacked' = {s \in unacked : s >= n}
  /\ dupAcks' = 0
  /\ AfterReceive(unacked', {})

\* duplicate_ack_count is only ever compared with the threshold, so it is kept
\* at the threshold once it reaches it (it goes on growing in the code when
\* fast recovery is off).
CountDup == IF dupAcks < DUP_ACK_THRESHOLD THEN dupAcks + 1 ELSE dupAcks

\* The last new ACK again: count it, and retransmit the packet it asks for
\* when fast_recovery() finds it among the unacknowledged ones.
DuplicateAck(n) ==
  /\ n <= base
  /\ n = lastAck
  /\ UNCHANGED <<base, lastAck, unacked>>
  /\ IF FastRecovery /\ CountDup >= DUP_ACK_THRESHOLD
     THEN /\ dupAcks' = 0
          /\ AfterReceive(unacked, {Packet(s) : s \in unacked \cap {n}})
     ELSE /\ dupAcks' = CountDup
          /\ AfterReceive(unacked, {})

\* Any other ACK is old.
OldAck(n) ==
  /\ n <= base
  /\ n # lastAck
  /\ UNCHANGED <<base, lastAck, unacked, dupAcks>>
  /\ AfterReceive(unacked, {})

ServerReceiveAck(m) ==
  /\ spc = "receiving"
  /\ m \in toServer
  /\ m.type = "ACK"
  /\ toServer' \in TakeFrom(toServer, m)
  /\ NewAck(m.next) \/ DuplicateAck(m.next) \/ OldAck(m.next)
  /\ UNCHANGED <<nextSeq, eof, clientVars>>

-----------------------------------------------------------------------------
(* The client *)

\* Sends START and blocks for the answer; repeated until ACK_START arrives.
ClientConnect ==
  /\ cpc = "connect"
  /\ toServer' = toServer \cup {START}
  /\ cpc' = "awaiting"
  /\ UNCHANGED <<expected, rwindow, ackTimer, output, serverVars, toClient>>

ClientConnected ==
  /\ cpc = "awaiting"
  /\ ACK_START \in toClient
  /\ toClient' \in TakeFrom(toClient, ACK_START)
  /\ cpc' = "receiving"
  /\ UNCHANGED <<expected, rwindow, ackTimer, output, serverVars, toServer>>

\* Any other datagram is dropped and START is sent again.
ClientRetries(m) ==
  /\ cpc = "awaiting"
  /\ m \in toClient \ {ACK_START}
  /\ toClient' \in TakeFrom(toClient, m)
  /\ cpc' = "connect"
  /\ UNCHANGED <<expected, rwindow, ackTimer, output, serverVars, toServer>>

ClientConnectTimeout ==
  /\ cpc = "awaiting"
  /\ cpc' = "connect"
  /\ UNCHANGED <<expected, rwindow, ackTimer, output, serverVars, toClient,
                 toServer>>

InWindow(s) == expected <= s /\ s < expected + RECEIVE_WINDOW * MSS

\* Mutant: the timer acknowledges the packet that started it.
ClientBuffersAcksIt(m) ==
  /\ cpc = "receiving"
  /\ m \in toClient
  /\ m.type = "DATA"
  /\ m.data # EofMark
  /\ InWindow(m.seq)
  /\ toClient' \in TakeFrom(toClient, m)
  /\ rwindow' = [s \in DOMAIN rwindow \cup {m.seq} |->
                   IF s = m.seq THEN m.data ELSE rwindow[s]]
  /\ ackTimer' = m.seq + Len(m.data)
  /\ cpc' = "writing"
  /\ UNCHANGED <<expected, output, serverVars, toServer>>

\* A packet inside the receive window: buffer it and restart the delayed-ACK
\* timer.  The timer captures expected_sequence_number before the buffered
\* packets are written.
ClientBuffers(m) ==
  /\ cpc = "receiving"
  /\ m \in toClient
  /\ m.type = "DATA"
  /\ m.data # EofMark
  /\ InWindow(m.seq)
  /\ toClient' \in TakeFrom(toClient, m)
  /\ rwindow' = [s \in DOMAIN rwindow \cup {m.seq} |->
                   IF s = m.seq THEN m.data ELSE rwindow[s]]
  /\ ackTimer' = expected
  /\ cpc' = "writing"
  /\ UNCHANGED <<expected, output, serverVars, toServer>>

\* Mutant: expected_sequence_number advances by MSS, whatever was written.
ClientWritesWhole ==
  /\ cpc \in {"writing", "finishing"}
  /\ expected \in DOMAIN rwindow
  /\ output' = output \o rwindow[expected]
  /\ rwindow' = [s \in DOMAIN rwindow \ {expected} |-> rwindow[s]]
  /\ expected' = expected + MSS
  /\ UNCHANGED <<cpc, ackTimer, serverVars, toClient, toServer>>

\* One turn of the loop in write_receive_window().
ClientWrites ==
  /\ cpc \in {"writing", "finishing"}
  /\ expected \in DOMAIN rwindow
  /\ output' = output \o rwindow[expected]
  /\ rwindow' = [s \in DOMAIN rwindow \ {expected} |-> rwindow[s]]
  /\ expected' = expected + Len(rwindow[expected])
  /\ UNCHANGED <<cpc, ackTimer, serverVars, toClient, toServer>>

\* Mutant: the window counts as full one packet early.
WindowFullEarly == (Cardinality(DOMAIN rwindow) + 1) * MSS >= RECEIVE_WINDOW * MSS

\* The client's test for a receive window that has no room left.
WindowFull == Cardinality(DOMAIN rwindow) * MSS >= RECEIVE_WINDOW * MSS

\* Nothing more can be written: acknowledge at once when the window is full.
ClientWritten ==
  /\ cpc = "writing"
  /\ expected \notin DOMAIN rwindow
  /\ cpc' = "receiving"
  /\ IF WindowFull
     THEN /\ ackTimer' = NoTimer
          /\ toServer' = toServer \cup {Ack(expected)}
     ELSE UNCHANGED <<ackTimer, toServer>>
  /\ UNCHANGED <<expected, rwindow, output, serverVars, toClient>>

\* A packet outside the window, or one that parse_packet() cannot read (a late
\* ACK_START, for which it returns sequence number -1): acknowledge at once.
OutsideWindow(m) ==
  \/ m.type = "ACK_START"
  \/ /\ m.type = "DATA"
     /\ m.data # EofMark
     /\ ~InWindow(m.seq)

ClientRejects(m) ==
  /\ cpc = "receiving"
  /\ m \in toClient
  /\ OutsideWindow(m)
  /\ toClient' \in TakeFrom(toClient, m)
  /\ ackTimer' = NoTimer
  /\ toServer' = toServer \cup {Ack(expected)}
  /\ UNCHANGED <<cpc, expected, rwindow, output, serverVars>>

\* The EOF payload: write what is buffered, then acknowledge and leave.
ClientReceivesEof(m) ==
  /\ cpc = "receiving"
  /\ m \in toClient
  /\ m.type = "DATA"
  /\ m.data = EofMark
  /\ toClient' \in TakeFrom(toClient, m)
  /\ cpc' = "finishing"
  /\ UNCHANGED <<expected, rwindow, ackTimer, output, serverVars, toServer>>

ClientFinishes ==
  /\ cpc = "finishing"
  /\ expected \notin DOMAIN rwindow
  /\ ackTimer' = NoTimer
  /\ toServer' = toServer \cup {Ack(expected)}
  /\ cpc' = "done"
  /\ UNCHANGED <<expected, rwindow, output, serverVars, toClient>>

\* Two seconds without a datagram.
ClientTimeout ==
  /\ cpc = "receiving"
  /\ ackTimer' = NoTimer
  /\ toServer' = toServer \cup {Ack(expected)}
  /\ UNCHANGED <<cpc, expected, rwindow, output, serverVars, toClient>>

\* The timer thread, concurrent with the main thread: send the captured value.
\* A cancel() that comes after the timer fired changes nothing, which is the
\* same as an ACK that was sent first and is still in flight.
DelayedAck ==
  /\ ackTimer # NoTimer
  /\ ackTimer' = NoTimer
  /\ toServer' = toServer \cup {Ack(ackTimer)}
  /\ UNCHANGED <<cpc, expected, rwindow, output, serverVars, toClient>>

-----------------------------------------------------------------------------

Init ==
  /\ spc = "waiting"
  /\ nextSeq = 0
  /\ base = 0
  /\ unacked = {}
  /\ dupAcks = 0
  /\ lastAck = -1
  /\ eof = FALSE
  /\ cpc = "connect"
  /\ expected = 0
  /\ rwindow = <<>>
  /\ ackTimer = NoTimer
  /\ output = <<>>
  /\ toClient = {}
  /\ toServer = {}

ServerNext ==
  \/ ServerAccept
  \/ ServerSend
  \/ ServerReadsEof
  \/ ServerBlocks
  \/ ServerTimeout
  \/ ServerIgnores
  \/ \E m \in toServer : ServerReceiveAck(m)

ClientNext ==
  \/ ClientConnect
  \/ ClientConnected
  \/ \E m \in toClient : ClientRetries(m)
  \/ ClientConnectTimeout
  \/ \E m \in toClient : ClientBuffers(m)
  \/ ClientWrites
  \/ ClientWritten
  \/ \E m \in toClient : ClientRejects(m)
  \/ \E m \in toClient : ClientReceivesEof(m)
  \/ ClientFinishes
  \/ ClientTimeout
  \/ DelayedAck

NetworkNext ==
  \/ \E m \in toClient : LoseToClient(m)
  \/ \E m \in toServer : LoseToServer(m)

Next == ServerNext \/ ClientNext \/ NetworkNext

Spec == Init /\ [][Next]_vars

-----------------------------------------------------------------------------
(* Fairness.  Both loops keep turning, the timer thread fires, and a       *)
(* datagram that is sent again and again gets through now and then.        *)
(* ServerTimeout alone has no fairness: every datagram restarts the wait,  *)
(* so ACKs that keep coming can postpone the time-out for ever.            *)

\* recvfrom() returns in the server: an ACK, a stray START or the time-out.
ServerStep ==
  \/ ServerAccept \/ ServerSend \/ ServerReadsEof \/ ServerBlocks
  \/ ServerTimeout \/ ServerIgnores
  \/ \E m \in toServer : ServerReceiveAck(m)

\* The client's main thread takes its next step.
ClientStep ==
  \/ ClientConnect \/ ClientConnected \/ ClientConnectTimeout
  \/ \E m \in toClient :
       ClientRetries(m) \/ ClientBuffers(m) \/ ClientRejects(m)
         \/ ClientReceivesEof(m)
  \/ ClientWrites \/ ClientWritten \/ ClientFinishes \/ ClientTimeout

CurrentAckArrives == ServerReceiveAck(Ack(expected))

ExpectedDataArrives == ClientBuffers(Packet(expected))

\* The datagrams the two loops repeat are not lost every time: one that is in
\* flight again and again, to a process that still listens, is received again
\* and again.
FairChannel ==
  /\ []<>(Ack(expected) \in toServer /\ spc \in {"filling", "receiving"})
       => []<><<CurrentAckArrives>>_vars
  /\ []<>(Packet(expected) \in toClient /\ cpc \in {"receiving", "writing"})
       => []<><<ExpectedDataArrives>>_vars

FairSpec ==
  /\ Spec
  /\ WF_vars(ServerStep)
  /\ WF_vars(ClientStep)
  /\ WF_vars(DelayedAck)
  /\ FairChannel

-----------------------------------------------------------------------------
(* Properties *)

\* A file offset at which the server starts a packet, or the end of the file.
Aligned(n) == n = Len(File) \/ \E k \in 0 .. n : n = k * MSS

Offsets == {n \in 0 .. Len(File) : Aligned(n)}

DataPackets == {Data(s, Chunk(s)) : s \in {n \in Offsets : n < Len(File)}}

\* Every variable keeps its type; sequence numbers stay within the file and
\* on packet boundaries.
TypeOK ==
  /\ spc \in {"waiting", "filling", "receiving", "done"}
  /\ nextSeq \in Offsets
  /\ base \in Offsets
  /\ unacked \in SUBSET {n \in Offsets : n < Len(File)}
  /\ dupAcks \in 0 .. DUP_ACK_THRESHOLD
  /\ lastAck \in Offsets \cup {-1}
  /\ eof \in BOOLEAN
  /\ cpc \in {"connect", "awaiting", "receiving", "writing", "finishing", "done"}
  /\ expected \in Offsets
  /\ DOMAIN rwindow \in SUBSET {n \in Offsets : n < Len(File)}
  /\ ackTimer \in Offsets \cup {NoTimer}
  /\ toClient \in SUBSET (DataPackets \cup {ACK_START, Data(Len(File), EofMark)})
  /\ toServer \in SUBSET ({Ack(n) : n \in Offsets} \cup {START})

\* Losses, duplicates, reordering, retransmissions and a client that starts
\* late never corrupt the file: what write_receive_window() has written is
\* always a prefix of the server's file, of length expected_sequence_number.
OutputIsPrefix ==
  /\ expected <= Len(File)
  /\ output = SubSeq(File, 1, expected)

\* No acknowledgement runs ahead of the client: every ACK in flight, the one
\* a delayed_ack timer holds, and window_base name bytes already written.
AcksNameWrittenBytes ==
  /\ base <= expected
  /\ ackTimer <= expected
  /\ \A m \in toServer : m.type = "ACK" => m.next <= expected

\* Whatever the client lacks of the bytes sent so far, the server still holds
\* for retransmission, whichever stale or reordered ACKs it has processed.
LackingIsRetained ==
  \A s \in Offsets : expected <= s /\ s < nextSeq => s \in unacked

\* The server sends no byte the receive window has no room for: with windows
\* of equal size, every packet in flight lies below the window's upper edge,
\* so the client only rejects what it already has.
NothingBeyondTheWindow ==
  \A m \in toClient :
    m.type = "DATA" /\ m.data # EofMark =>
      m.seq < expected + RECEIVE_WINDOW * MSS

\* Once nothing more can be written the receive window has room: the packet
\* at its lower edge is the one that is missing.  The branch that acknowledges
\* at once because the window is full (Q1_client.py:103) is never taken.
WindowNeverFull ==
  cpc = "writing" /\ expected \notin DOMAIN rwindow => ~WindowFull

\* "File transfer complete" on the server means the client has written it all.
ServerDoneMeansWritten == spc = "done" => output = File

\* "file transfer complete" on the client means that the file is complete.
ClientDoneMeansWritten == cpc \in {"finishing", "done"} => output = File

\* The transfer is a FileDelivery.
Delivery == INSTANCE FileDelivery WITH
  delivered <- output, confirmed <- base,
  senderClosed <- spc = "done", receiverClosed <- cpc = "done"

DeliversFile == Delivery!Spec

\* Progress without the time-out: once the client is connected and its first
\* ACK has moved the window, repeated ACKs and fast recovery alone bring the
\* transfer to its end at the server, however many datagrams are lost.  Before
\* that ACK they could not: last_ack_received is still -1, so an ACK of offset 0
\* is neither new nor a duplicate.
TransferCompletes == (cpc = "receiving" /\ base > 0) ~> (spc = "done")
=============================================================================
