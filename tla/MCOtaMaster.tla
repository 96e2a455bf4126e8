----------------------------- MODULE MCOtaMaster -----------------------------
EXTENDS OtaMaster, TLC

\* A firmware of two packets, and one that is too big.
MCSize == <<2, 4>>
=============================================================================
