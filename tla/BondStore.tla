------------------------------ MODULE BondStore ------------------------------
(***************************************************************************)
(* What the pairing sector of the KMA dongle promises, whatever the order  *)
(* of flash writes and power losses: a bounded first-in first-out store of *)
(* bond records.  A record is kept at a place; a new one goes behind every *)
(* stored one, only the oldest is ever removed, and the whole store is     *)
(* emptied only by the compaction of a sector that filled up.              *)
(***************************************************************************)
EXTENDS Integers, FiniteSets

CONSTANTS
    Device,      \* identities a record can carry
    MaxSlaves,   \* USER_PAIR_SLAVE_MAX_NUM
    Places       \* number of places of the sector

VARIABLE stored  \* place -> device, on the places that hold a bond

Init == stored = [p \in {} |-> p]

\* A bond is written behind every stored one, while there is room.
Remember(p, d) ==
    /\ Cardinality(DOMAIN stored) < MaxSlaves
    /\ \A q \in DOMAIN stored : q < p
    /\ stored' = [q \in DOMAIN stored \cup {p} |-> IF q = p THEN d ELSE stored[q]]

\* The oldest bond is given up.
ForgetOldest ==
    \E p \in DOMAIN stored :
        /\ \A q \in DOMAIN stored : p <= q
        /\ stored' = [q \in DOMAIN stored \ {p} |-> stored[q]]

\* The sector is erased before the bonds are written again from its start.
Wipe ==
    stored' = [p \in {} |-> p]

Next ==
    \/ \E p \in 0..Places - 1, d \in Device : Remember(p, d)
    \/ ForgetOldest
    \/ Wipe

Spec == Init /\ [][Next]_stored
=============================================================================
