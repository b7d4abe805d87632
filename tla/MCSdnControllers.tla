------------------------- MODULE MCSdnControllers -------------------------
(***************************************************************************)
(* Instances of SdnControllers: every wiring of four switches with known   *)
(* links, and a line and a ring of three whose links are being discovered  *)
(* and lost.                                                               *)
(***************************************************************************)
EXTENDS SdnControllers, TLC

CONSTANTS h1, h2

MCAttached == h1 :> 1 @@ h2 :> 3

Line == {<<1, 2>>, <<2, 3>>}
Star == {<<1, 4>>, <<2, 4>>, <<3, 4>>}
Ring == {<<1, 2>>, <<1, 4>>, <<2, 3>>, <<3, 4>>}
Mesh == Ring \cup {<<1, 3>>, <<2, 4>>}
Wirings == {Line, Star, Ring, Ring \cup {<<2, 4>>}, Mesh}
Lines == {Line}
=============================================================================
