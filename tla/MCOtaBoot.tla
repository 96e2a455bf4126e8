------------------------------ MODULE MCOtaBoot ------------------------------
EXTENDS OtaBoot, TLC

\* Two images that fit, one ending inside a sector, and one that is too big.
CONSTANTS v1, v2, big
MCFirmware == {v1, v2, big}
MCSize == (v1 :> 3) @@ (v2 :> 6) @@ (big :> 7)
=============================================================================
