----------------------------- MODULE MCX11Damage -----------------------------
(* X11Damage on small instances. *)
EXTENDS X11Damage

\* A mutant's queues may run away: nothing past the bounds is of interest.
QueueBound == Len(sent) <= 2 * MaxFences + Cardinality(Windows)
=============================================================================
