-------------------------- MODULE MCFramesInFlight --------------------------
(* Model values for checking FramesInFlight with TLC. *)
EXTENDS FramesInFlight

CONSTANTS b1, b2, b3, t1, t2, t3

Buffers3 == {b1, b2, b3}
Textures3 == {t1, t2, t3}

=============================================================================
