--------------------------- MODULE UdpCongestion ---------------------------
(***************************************************************************)
(* Part 3 of the "TCP-like UDP" project: the transfer of Part 1 under a    *)
(* congestion window that grows exponentially up to a limit and then with  *)
(* the CUBIC function (Q3_server.py, Q3_client.py).  The datagrams, the    *)
(* network and the steps the two programs share with Part 1 are those of   *)
(* UdpTransfer; its constant WINDOW_SIZE is here the largest window, a     *)
(* bound on how far the CUBIC function, which grows with time, is followed.*)
(*                                                                         *)
(* A window is a number of packets: of the fraction a halved or CUBIC      *)
(* window can have, only the rounded-up value shows in what may be sent,   *)
(* in what is left after halving and in the comparison with the limit.     *)
(***************************************************************************)
EXTENDS UdpTransfer

CONSTANTS
  SLOW_START_LIMIT,   \* 15: up to here a window is 2**ITERATION
  FIRST_MAX_WINDOW    \* 32: MAX_WINDOW at the start

ASSUME CongestionAssumption ==
  /\ SLOW_START_LIMIT \in Nat \ {0}
  /\ FIRST_MAX_WINDOW \in 1 .. WINDOW_SIZE
  /\ WINDOW_SIZE >= 4 * SLOW_START_LIMIT

VARIABLES
  window,     \* WINDOW_SIZE
  maxWindow,  \* MAX_WINDOW, the window at the last loss
  iteration,  \* ITERATION
  preBase,    \* pre_window_base
  chunkLen    \* len(data_chunk) of the last chunk that was read

congestionVars == <<window, maxWindow, iteration, preBase, chunkLen>>
cubicVars == <<serverVars, clientVars, toClient, toServer, congestionVars>>

-----------------------------------------------------------------------------
(* The server *)

\* Mutant: the half of a window of one packet is none.
HalfRoundedDown(w) == w \div 2

Half(w) == (w + 1) \div 2

\* The top of the loop.  The CUBIC function of the time since the last loss
\* starts at half of maxWindow and only grows; ITERATION is what slow start
\* goes on from, also after a loss.
SizeWindow(w, max) ==
  /\ maxWindow' = max
  /\ IF w > SLOW_START_LIMIT
     THEN window' \in Half(max) .. WINDOW_SIZE /\ iteration' = 0
     ELSE window' = 2 ^ iteration /\ iteration' = iteration + 1

CubicAccept ==
  /\ ServerAccept
  /\ SizeWindow(window, maxWindow)
  /\ UNCHANGED <<preBase, chunkLen>>

\* New packets leave only after an ACK has moved window_base.
MayFill == preBase # base /\ nextSeq < base + window * MSS /\ ~eof

CubicSend ==
  /\ MayFill
  /\ ServerSend
  /\ chunkLen' = Len(Chunk(nextSeq))
  /\ UNCHANGED <<window, maxWindow, iteration, preBase>>

CubicReadsEof ==
  /\ MayFill
  /\ ServerReadsEof
  /\ chunkLen' = 0
  /\ UNCHANGED <<window, maxWindow, iteration, preBase>>

CubicBlocks ==
  /\ spc = "filling"
  /\ ~MayFill
  /\ spc' = "receiving"
  /\ preBase' = base
  /\ UNCHANGED <<nextSeq, base, unacked, dupAcks, lastAck, eof, clientVars,
                 toClient, toServer, window, maxWindow, iteration, chunkLen>>

\* The end of the loop with window w and MAX_WINDOW max, and the top of the
\* next one unless the transfer is over.
Turn(w, max, stillUnacked, sent) ==
  /\ AfterReceive(stillUnacked, sent)
  /\ IF spc' = "done"
     THEN window' = w /\ maxWindow' = max /\ UNCHANGED iteration
     ELSE SizeWindow(w, max)
  /\ UNCHANGED <<preBase, chunkLen>>

CubicTimeout ==
  /\ spc = "receiving"
  /\ Turn(Half(window), window, unacked, {Packet(s) : s \in unacked})
  /\ UNCHANGED <<nextSeq, base, unacked, dupAcks, lastAck, eof, clientVars,
                 toServer>>

\* Mutant: the packet the ACK asks for is dropped.
CubicNewAckDropsNext(n) ==
  /\ n > base
  /\ base' = n
  /\ lastAck' = n - chunkLen
  /\ unacked' = {s \in unacked : s > n}
  /\ dupAcks' = 0
  /\ Turn(window, maxWindow, unacked', {})

\* last_ack_received lies one chunk, the one read last, below the ACK.
CubicNewAck(n) ==
  /\ n > base
  /\ base' = n
  /\ lastAck' = n - chunkLen
  /\ unacked' = {s \in unacked : s >= n}
  /\ dupAcks' = 0
  /\ Turn(window, maxWindow, unacked', {})

CubicDuplicateAck(n) ==
  /\ n <= base
  /\ n = lastAck
  /\ UNCHANGED <<base, lastAck, unacked>>
  /\ IF FastRecovery /\ CountDup >= DUP_ACK_THRESHOLD
     THEN /\ dupAcks' = 0
          /\ Turn(Half(window), window, unacked,
                  {Packet(s) : s \in unacked \cap {n}})
     ELSE /\ dupAcks' = CountDup
          /\ Turn(window, maxWindow, unacked, {})

CubicOldAck(n) ==
  /\ n <= base
  /\ n # lastAck
  /\ UNCHANGED <<base, lastAck, unacked, dupAcks>>
  /\ Turn(window, maxWindow, unacked, {})

CubicReceiveAck(m) ==
  /\ spc = "receiving"
  /\ m \in toServer
  /\ m.type = "ACK"
  /\ toServer' \in TakeFrom(toServer, m)
  /\ CubicNewAck(m.next) \/ CubicDuplicateAck(m.next) \/ CubicOldAck(m.next)
  /\ UNCHANGED <<nextSeq, eof, clientVars>>

\* A late START is not JSON: the exception ends the server.
CubicCrashes ==
  /\ spc = "receiving"
  /\ START \in toServer
  /\ toServer' \in TakeFrom(toServer, START)
  /\ spc' = "crashed"
  /\ UNCHANGED <<nextSeq, base, unacked, dupAcks, lastAck, eof, clientVars,
                 toClient, congestionVars>>

-----------------------------------------------------------------------------
(* The client *)

\* What write_receive_window() pops: the payloads that follow each other from
\* offset s on.
Following(s) ==
  LET run[n \in Nat] ==
        IF n \in DOMAIN rwindow THEN rwindow[n] \o run[n + Len(rwindow[n])]
        ELSE <<>>
  IN run[s]

\* Mutant: expected_sequence_number advances by MSS, whatever was written.
CubicWritesWhole ==
  /\ cpc = "writing"
  /\ expected \in DOMAIN rwindow
  /\ output' = output \o Following(expected)
  /\ expected' = expected + MSS
  /\ rwindow' = [s \in {n \in DOMAIN rwindow : n >= expected'} |-> rwindow[s]]
  /\ UNCHANGED <<cpc, ackTimer, serverVars, toClient, toServer, congestionVars>>

\* expected_sequence_number, which the timer thread reads, is only set when
\* everything has been written.
CubicWrites ==
  /\ cpc = "writing"
  /\ expected \in DOMAIN rwindow
  /\ output' = output \o Following(expected)
  /\ expected' = expected + Len(Following(expected))
  /\ rwindow' = [s \in {n \in DOMAIN rwindow : n >= expected'} |-> rwindow[s]]
  /\ UNCHANGED <<cpc, ackTimer, serverVars, toClient, toServer, congestionVars>>

\* A late ACK_START is not JSON either; the client ignores it.
CubicIgnores ==
  /\ cpc = "receiving"
  /\ ACK_START \in toClient
  /\ toClient' \in TakeFrom(toClient, ACK_START)
  /\ UNCHANGED <<serverVars, clientVars, toServer, congestionVars>>

\* Mutant: send_ack() acknowledges the packet the timer was started for too.
CubicDelayedAckAhead ==
  /\ ackTimer # NoTimer
  /\ ackTimer' = NoTimer
  /\ toServer' = toServer \cup {Ack(expected + MSS)}
  /\ UNCHANGED <<cpc, expected, rwindow, output, serverVars, toClient,
                 congestionVars>>

\* send_ack() ignores the value the timer captured: it sends the current one.
CubicDelayedAck ==
  /\ ackTimer # NoTimer
  /\ ackTimer' = NoTimer
  /\ toServer' = toServer \cup {Ack(expected)}
  /\ UNCHANGED <<cpc, expected, rwindow, output, serverVars, toClient,
                 congestionVars>>

\* The steps of the client that are those of Part 1.
ClientAsInPart1 ==
  /\ \/ ClientConnect \/ ClientConnected \/ ClientConnectTimeout
     \/ \E m \in toClient :
          \/ ClientRetries(m)
          \/ ClientBuffers(m)
          \/ m.type = "DATA" /\ ClientRejects(m)
          \/ ClientReceivesEof(m)
     \/ ClientWritten \/ ClientFinishes \/ ClientTimeout
  /\ UNCHANGED congestionVars

-----------------------------------------------------------------------------

CubicInit ==
  /\ Init
  /\ window = 1
  /\ maxWindow = FIRST_MAX_WINDOW
  /\ iteration = 0
  /\ preBase = -1
  /\ chunkLen = 0

CubicServer ==
  \/ CubicAccept \/ CubicSend \/ CubicReadsEof \/ CubicBlocks \/ CubicTimeout
  \/ \E m \in toServer : CubicReceiveAck(m)
  \/ CubicCrashes

CubicClient ==
  \/ ClientAsInPart1 \/ CubicWrites \/ CubicIgnores \/ CubicDelayedAck

CubicNext ==
  \/ CubicServer
  \/ CubicClient
  \/ NetworkNext /\ UNCHANGED congestionVars

CubicSpec == CubicInit /\ [][CubicNext]_cubicVars

-----------------------------------------------------------------------------
(* Properties.  The safety properties of UdpTransfer and its refinement of *)
(* FileDelivery are also those of Part 3; these are its own.               *)

\* The variables Part 3 adds keep their types: a window never vanishes, and no
\* loss in slow start takes ITERATION past the largest window.
CubicTypeOK ==
  /\ spc \in {"waiting", "filling", "receiving", "done", "crashed"}
  /\ window \in 1 .. WINDOW_SIZE
  /\ maxWindow \in 1 .. WINDOW_SIZE
  /\ 2 ^ iteration <= 8 * SLOW_START_LIMIT
  /\ preBase \in Offsets \cup {-1}
  /\ chunkLen \in 0 .. MSS

\* An ACK that is counted as a duplicate asks for a packet that the server still
\* has, if it has any, so that fast recovery can send it again.
DuplicatesAskForAPacket ==
  dupAcks > 0 /\ unacked # {} => lastAck \in unacked
=============================================================================
