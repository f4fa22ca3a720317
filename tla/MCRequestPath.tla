---------------------------- MODULE MCRequestPath ----------------------------
EXTENDS RequestPath, FiniteSets

MCDiscOf == [x \in Payloads |-> IF x = "wanted" THEN "hex" ELSE "other hex"]

MCLocations == {[position |-> 0, emitter |-> p, data |-> x] : p \in Programs, x \in Payloads}

\* A log of one program with these data lines: 61 bytes to enter and to leave,
\* and 14 before each data.
LogOf(data) ==
    [whole |-> TRUE, programs |-> 1, lines |-> 2 + Len(data), data |-> data,
     bytes |-> 122 + FoldSeq(LAMBDA line, n : n + 14 + TextLength(line), 0, data)]

\* One slice of each padding, too short, just long enough and longer, and
\* several slices that decode together, that do not, and that are too short.
Lines == {<<>>, <<7>>, <<8>>, <<9>>, <<10>>, <<9, 3>>, <<6, 2>>, <<8, 0>>, <<8, 3>>, <<3, 3>>}

\* n events of 8 bytes, 12 characters each.
Events(n) ==
    [LogOf(<<>>) EXCEPT !.data = [k \in 1..n |-> <<8>>], !.lines = 2 + n, !.bytes = 122 + 26 * n]

\* Each limit, and one beyond: lines, bytes, candidates, and programs.
AtLimits ==
    {[LogOf(<<<<8>>>>) EXCEPT !.lines = n] : n \in {2048, 2049}} \cup
    {[LogOf(<<<<8>>>>) EXCEPT !.bytes = n] : n \in {262144, 262145}} \cup
    {Events(n) : n \in {127, 128, 129}} \cup
    {LogOf(<<<<196506>>>>), LogOf(<<<<196509>>>>)} \cup
    {[LogOf(<<<<8>>>>) EXCEPT !.whole = FALSE],
     [LogOf(<<<<8>>>>) EXCEPT !.programs = 128],
     [LogOf(<<<<8>>>>) EXCEPT !.programs = 129]}

MCLogs == {LogOf(data) : data \in SeqOf(Lines, 2)} \cup AtLimits

Exact(text) == [core |-> text, padded |-> FALSE]

VerifyBody == [signature |-> Exact("signature"), cluster |-> "devnet",
               program |-> Exact("A"), format |-> "anchor-log", discriminator |-> "hex",
               commitment |-> None, rpcUrl |-> FALSE]
InspectBody == [signature |-> Exact("signature"), cluster |-> "devnet", more |-> FALSE]

Request(operation, to, flaw, trusted, body) ==
    [operation |-> operation, to |-> to, flaw |-> flaw, trusted |-> trusted, body |-> body]

\* Bodies with any texts and at most one other thing out of order.
MCVerifyBodies ==
    [signature: Texts(Signatures), program: Texts(ProgramIds), cluster: {"devnet"},
     format: {"anchor-log", "anchor-cpi"}, discriminator: {"hex"},
     commitment: {None, "finalized"}, rpcUrl: {FALSE}] \cup
    {[VerifyBody EXCEPT !.signature.padded = p, ![f[1]] = f[2]] : p \in BOOLEAN,
        f \in {<<"cluster", "unknown">>, <<"cluster", "mainnet-beta">>, <<"format", "unknown">>,
               <<"discriminator", "upper case">>, <<"commitment", "confirmed">>,
               <<"rpcUrl", TRUE>>}}

PlainWeb == [baseUrl |-> "https", anonKey |-> "key", appUrl |-> "https",
             production |-> TRUE, secret |-> "first"]
PlainHosted == [secret |-> "first", rpc |-> [c \in Clusters |-> "unset"],
                legacy |-> "unset", binding |-> "unset", database |-> TRUE]

Plain(r) == [web |-> PlainWeb, hosted |-> PlainHosted, request |-> r]

PlainRequests ==
    {Request("verify", to, "none", TRUE, VerifyBody) : to \in {"web", "hosted"}} \cup
    {Request("inspect", to, "none", TRUE, InspectBody) : to \in {"web", "hosted"}}

\* Every flaw and body over plain settings, and plain requests over settings of
\* which a few are out of order.
MCScenarios ==
    {Plain([r EXCEPT !.flaw = flaw, !.trusted = trusted]) :
        r \in PlainRequests, flaw \in Flaws, trusted \in BOOLEAN} \cup
    {Plain(Request("verify", to, "none", TRUE, body)) :
        to \in {"web", "hosted"}, body \in MCVerifyBodies} \cup
    {Plain(Request("inspect", to, "none", TRUE, body)) :
        to \in {"web", "hosted"}, body \in InspectBodies} \cup
    {[web |-> [PlainWeb EXCEPT ![f[1]] = f[2]], hosted |-> PlainHosted, request |-> r] :
        r \in PlainRequests,
        f \in {<<"baseUrl", v>> : v \in OriginValues} \cup {<<"anonKey", v>> : v \in KeyValues}} \cup
    {[web |-> [PlainWeb EXCEPT !.secret = s], hosted |-> [PlainHosted EXCEPT !.secret = t],
      request |-> r] : r \in PlainRequests, s \in SecretValues, t \in SecretValues} \cup
    {[web |-> PlainWeb,
      hosted |-> [PlainHosted EXCEPT !.rpc["devnet"] = own, !.legacy = legacy,
                                     !.binding = binding, !.database = database],
      request |-> r] :
        r \in PlainRequests, own \in RpcValues, legacy \in RpcValues,
        binding \in {"unset", "unknown"} \cup Clusters, database \in BOOLEAN}

\* The secret rotates, and the endpoint without a cluster of its own moves.
MCUpdates ==
    {[place |-> p, key |-> "secret", value |-> "second"] : p \in {"web", "hosted"}} \cup
    {[place |-> "hosted", key |-> "secret", value |-> v] : v \in {"blank", "empty"}} \cup
    {[place |-> "hosted", key |-> k, value |-> "mainnet-beta"] : k \in {"legacy", "binding"}}
=============================================================================
