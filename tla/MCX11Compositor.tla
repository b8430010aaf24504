--------------------------- MODULE MCX11Compositor ---------------------------
(* Model values for checking X11Compositor with TLC. *)
EXTENDS X11Compositor

CONSTANTS w1, w2, w3

Windows2 == {w1, w2}
Windows3 == {w1, w2, w3}

=============================================================================
