--------------------------- MODULE MCDevnetProof ---------------------------
EXTENDS BackendProof

\* A transaction can land, be dropped with its fork, and land once more.
MCSlots == 1..2
=============================================================================
