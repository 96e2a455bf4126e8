----------------------------- MODULE MCSoftTimer -----------------------------
EXTENDS SoftTimer, TLC

\* The callbacks differ in nothing.
CallbackSymmetry == Permutations(Callback)
=============================================================================
