----------------------------- MODULE HostedConfig -----------------------------
(***************************************************************************)
(* How the hosted functions read their environment: the secret that the    *)
(* web server and they share, and the RPC endpoint of a cluster.  An       *)
(* endpoint's address is its usability and the cluster that answers there. *)
(***************************************************************************)

CONSTANT Clusters

SecretValues == {"unset", "blank", "first", "second", "padded"}

\* "unusable" stands for what is no https address, blanks included.
RpcValues == {"unset", "unusable"} \cup Clusters

HostedEnvironments ==
    [secret: SecretValues, rpc: [Clusters -> RpcValues], legacy: RpcValues,
     binding: {"unset", "unknown"} \cup Clusters, database: BOOLEAN]

HoldsSecret(value) == value \notin {"unset", "blank"}

\* A header loses the blanks around its value on the way.
HeaderValue(secret) == IF secret = "padded" THEN "stripped" ELSE secret

Authenticates(supplied, host) == supplied = host.secret

\* The cluster's own address comes first, then the one bound to the cluster.
Addressed(cluster, host) ==
    IF host.rpc[cluster] # "unset" THEN host.rpc[cluster]
    ELSE IF host.binding = cluster THEN host.legacy
    ELSE "unset"

\* What applyServerRpcUrl accepts.
AppliesServerRpcUrl(cluster, host) ==
    /\ Addressed(cluster, host) # "unusable"
    /\ host.rpc[cluster] # "unset" \/ host.legacy = "unset" \/ host.binding \in Clusters

\* The cluster that answers at the endpoint; without an address it is the
\* public endpoint of the cluster itself.
Answering(cluster, host) ==
    IF Addressed(cluster, host) = "unset" THEN cluster ELSE Addressed(cluster, host)
=============================================================================
