---------------------------- MODULE MCLogReading ----------------------------
EXTENDS LogReading, TLC

CONSTANTS A, B, C, want, other

MCPrograms == {A, B, C}
MCPayloads == {"wanted", "alien"}
MCDiscriminators == {want, other}
MCDiscOf == [x \in MCPayloads |-> IF x = "wanted" THEN want ELSE other]
MCFiller == {"short", "undecodable"}
Symmetry == Permutations(MCPrograms)
=============================================================================
