-------------------------- MODULE MCDamageTracking --------------------------
(* Model values for checking DamageTracking with TLC. *)
EXTENDS DamageTracking, TLC

CONSTANTS i1, i2, i3, t1, t2, t3

Images3 == {i1, i2, i3}
Images2 == {i1, i2}
Tiles3 == {t1, t2, t3}
ImageSymmetry == Permutations(Images) \union Permutations(Tiles)

=============================================================================
