------------------------ MODULE MCInspectTransaction ------------------------
EXTENDS InspectTransaction

CONSTANTS A, B, want, other

MCPrograms == {A, B}
MCPayloads == {"wanted", "alien"}
MCDiscriminators == {want, other}
MCDiscOf == [x \in MCPayloads |-> IF x = "wanted" THEN want ELSE other]
MCSlots == 1..2

At(n, p, x) == [position |-> n, emitter |-> p, data |-> x]

\* Whole or cut short, the second leads to each verdict and mismatch.
MCHistories == {<<>>, <<At(0, A, "alien"), At(1, B, "wanted"), At(2, A, "wanted")>>}

MCRequests == {[program |-> A, discriminator |-> want, format |-> "anchor-log"],
               [program |-> A, discriminator |-> want, format |-> "anchor-cpi"],
               [program |-> A, discriminator |-> want, format |-> "unknown"]}
=============================================================================
