--------------------------- MODULE FileDelivery ----------------------------
(***************************************************************************)
(* What the file transfer of the "TCP-like UDP" project promises, without  *)
(* packets, windows or losses: the receiver's file grows along the         *)
(* sender's, the sender counts as confirmed only bytes the receiver has    *)
(* written, it stops when the whole file is confirmed, and the receiver    *)
(* stops only after the sender, holding all of it.                         *)
(***************************************************************************)
EXTENDS Integers, Sequences

CONSTANT File

VARIABLES
  delivered,       \* what the receiver has written
  confirmed,       \* the bytes the sender knows to be written
  senderClosed,    \* the sender believes the transfer complete
  receiverClosed   \* the receiver believes the transfer complete

vars == <<delivered, confirmed, senderClosed, receiverClosed>>

Init ==
  /\ delivered = <<>>
  /\ confirmed = 0
  /\ senderClosed = FALSE
  /\ receiverClosed = FALSE

Deliver ==
  /\ \E n \in Len(delivered) + 1 .. Len(File) : delivered' = SubSeq(File, 1, n)
  /\ UNCHANGED <<confirmed, senderClosed, receiverClosed>>

\* The sender learns of written bytes, and may stop when that was the last one.
Confirm ==
  /\ ~senderClosed
  /\ confirmed' \in confirmed .. Len(delivered)
  /\ senderClosed' \in BOOLEAN
  /\ senderClosed' => confirmed' = Len(File)
  /\ UNCHANGED <<delivered, receiverClosed>>

CloseReceiver ==
  /\ senderClosed
  /\ delivered = File
  /\ receiverClosed' = TRUE
  /\ UNCHANGED <<delivered, confirmed, senderClosed>>

Next == Deliver \/ Confirm \/ CloseReceiver

Spec == Init /\ [][Next]_vars
=============================================================================
