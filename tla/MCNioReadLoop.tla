---------------------------- MODULE MCNioReadLoop ----------------------------
(* Model values for NioReadLoop: two flags, and bodies covering nil, the   *)
(* empty slice, and one- and two-byte payloads.                            *)
EXTENDS NioReadLoop

MCBodies == {Nil, <<>>, <<7>>, <<1, 2>>}
MCFlags == {0, 7}
=============================================================================
