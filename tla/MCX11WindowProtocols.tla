------------------------ MODULE MCX11WindowProtocols ------------------------
(* X11WindowProtocols on small instances. *)
EXTENDS X11WindowProtocols, TLC

CONSTANTS c1, c2, g1, g2
=============================================================================
