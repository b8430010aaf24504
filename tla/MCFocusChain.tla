---------------------------- MODULE MCFocusChain ----------------------------
(* FocusChain on small instances. *)
EXTENDS FocusChain, TLC

CONSTANTS w1, w2, w3, d1, d2, d3

\* Two windows of one application and one of another.
TwoApps == (w1 :> "a") @@ (w2 :> "a") @@ (w3 :> "b")

MCSymmetry == Permutations(DesktopIds)

\* Three windows on two desktops, or two windows on three.
MCSmall == Cardinality(managed \union closing) + Len(desktops) <= 5
=============================================================================
