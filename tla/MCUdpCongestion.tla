-------------------------- MODULE MCUdpCongestion --------------------------
EXTENDS UdpCongestion

MCFile == <<"a", "b", "c", "d", "e">>
MCEofMark == <<"E", "O", "F">>
=============================================================================
