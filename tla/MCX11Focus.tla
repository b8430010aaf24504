---------------------------- MODULE MCX11Focus ----------------------------
(* Model checking of X11Focus with three windows. *)
EXTENDS X11Focus, TLC

CONSTANTS a, b, c, d1, d2

\* A window of each of two desktops, and one of both.
Places == a :> d1 @@ b :> d2 @@ c :> All

\* No window is ever on another desktop.
Everywhere == [w \in {a, b, c} |-> All]
=============================================================================
