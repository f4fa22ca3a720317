------------------------- MODULE MCVerifyWorkspace -------------------------
EXTENDS VerifyWorkspace

CONSTANTS blank, s1, s2, s1padded, p1, p2, d1, d2, d1upper, devnet, mainnet

MCSignatureTexts == {blank, s1, s2, s1padded}
MCProgramTexts == {blank, p1, p2}
MCDiscriminatorTexts == {blank, d1, d2, d1upper}
MCSignatures == {s1, s2}
MCPrograms == {p1, p2}
MCDiscriminators == {d1, d2}
MCClusters == {devnet, mainnet}

MCClean == [x \in MCSignatureTexts \cup MCProgramTexts \cup MCDiscriminatorTexts |->
              IF x = s1padded THEN s1 ELSE IF x = d1upper THEN d1 ELSE x]

Entered(s, p, d) ==
    [signature |-> s, cluster |-> devnet, program |-> p, discriminator |-> d]

MCEmpty == Entered(blank, blank, blank)
MCExample == [kind \in {"success", "failure"} |->
                IF kind = "success" THEN Entered(s1, p1, d1) ELSE Entered(s2, p1, d1)]
=============================================================================
