--------------------------- MODULE MCUdpTransfer ---------------------------
EXTENDS UdpTransfer

\* Four packets of at most two bytes, the last one short.
MCFile == <<"a", "b", "c", "d", "e", "f", "g">>

MCEofMark == <<"E", "O", "F">>
=============================================================================
