----------------------------- MODULE MCUdpUpload -----------------------------
(***************************************************************************)
(* Small instances of UdpUpload.                                           *)
(***************************************************************************)
EXTENDS UdpUpload, TLC

CONSTANTS c1, c2, addr1, addr2

\* Two clients with an address each, and a port each or the same one.
TwoProcs == {c1, c2}
TwoAddrs == (c1 :> addr1) @@ (c2 :> addr2)
TwoPorts == (c1 :> 9001) @@ (c2 :> 9002)
OnePort == (c1 :> 9001) @@ (c2 :> 9001)
TwoThenOne == (c1 :> 2) @@ (c2 :> 1)
ThreeThenOne == (c1 :> 3) @@ (c2 :> 1)

\* One client alone.
OneProc == {c1}
OneAddr == c1 :> addr1
OnlyPort == c1 :> 9001
Three == c1 :> 3
Two == c1 :> 2

NoStop == {}
LastStops == {<<c1, 1>>}
OwnStop == {<<c1, 2>>}
=============================================================================
