-------------------------- MODULE MCSavedReceipts --------------------------
EXTENDS SavedReceipts

CONSTANTS t1, t2, u1, u2, a, b, legacy, verified, rejected

\* `legacy` is a row that isPublicReceipt refuses.
MCKind == (a :> verified) @@ (b :> rejected) @@ (legacy :> verified)
MCRank == (a :> 1) @@ (b :> 3) @@ (legacy :> 2)
MCSymmetry == Permutations(Users)

MCTabKind == (a :> verified) @@ (b :> rejected)
MCTabRank == (a :> 2) @@ (b :> 1)
=============================================================================
