-------------------------- MODULE MCHeliusWebhook --------------------------
EXTENDS HeliusWebhook

CONSTANTS s1, s2, s3, s4, s5, s6, s7

MCSignatures == {s1, s2, s3, s4, s5, s6, s7}
MCPayloads == {<<>>, <<s1>>, <<s1, s1, s2>>, <<s2, s1, s2, s3, s4, s5, s6>>,
               <<s1, s2, s3, s4, s5, s6, s1, s7>>, <<s1, Malformed>>}
=============================================================================
