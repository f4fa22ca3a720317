---------------------------- MODULE MCOAuthSignIn ----------------------------
EXTENDS OAuthSignIn

MCDeployments ==
    {[baseUrl |-> "https", anonKey |-> "key", appUrl |-> "https", production |-> TRUE],
     [baseUrl |-> "https", anonKey |-> "key", appUrl |-> "unset", production |-> TRUE]}
=============================================================================
