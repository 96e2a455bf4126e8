------------------------------ MODULE MCKeyScan ------------------------------
EXTENDS KeyScan, TLC

\* Three keys, two of them on one line.
CONSTANTS k1, k2, k3
TwoLines == (k1 :> "a") @@ (k2 :> "a") @@ (k3 :> "b")
=============================================================================
