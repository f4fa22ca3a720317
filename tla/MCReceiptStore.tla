--------------------------- MODULE MCReceiptStore ---------------------------
EXTENDS ReceiptStore, TLC

CONSTANTS d1, d2, id1, id2, old, slotA, slotB

MCDeliveries == {d1, d2}
MCIds == {id1, id2}
MCLegacyIds == {old}
MCContents == {slotA, slotB}

Symmetry == Permutations(MCDeliveries) \cup Permutations(MCIds)
            \cup Permutations(MCContents)
=============================================================================
