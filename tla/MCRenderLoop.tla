---------------------------- MODULE MCRenderLoop ----------------------------
(* RenderLoop on small instances. *)
EXTENDS RenderLoop

\* A mutant's count may run away: nothing past the bounds is of interest.
CountBound == loop.pendingFrameCount \in -2 .. Cardinality(FrameIds) + 1
=============================================================================
