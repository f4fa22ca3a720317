---------------------------- MODULE MCAnchorLog ----------------------------
EXTENDS AnchorLog, TLC

CONSTANTS A, B, want, other

MCPrograms == {A, B}
MCPayloads == {"wanted", "alien"}
MCDiscriminators == {want, other}
MCDiscOf == [x \in MCPayloads |-> IF x = "wanted" THEN want ELSE other]
MCFiller == {"short"}
Symmetry == Permutations(MCPrograms)

=============================================================================
