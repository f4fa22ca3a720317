--------------------------- MODULE HeliusWebhook ---------------------------
(***************************************************************************)
(* One delivery to the Helius webhook (functions/_shared/handlers.ts):     *)
(* the payload is validated and its signatures deduplicated, then          *)
(* mapWithConcurrency verifies them with a few workers that share one      *)
(* cursor.  JavaScript runs a worker without interruption from the end of  *)
(* one await to the next, so that is one step here.                        *)
(***************************************************************************)
EXTENDS Naturals, Sequences, FiniteSets, SequencesExt

CONSTANTS
    Signatures,
    Malformed,      \* a transaction without a usable signature
    Payloads,       \* the payloads that may be delivered
    MaxSignatures,  \* HELIUS_WEBHOOK_MAX_SIGNATURES
    Concurrency     \* HELIUS_WEBHOOK_VERIFY_CONCURRENCY

ASSUME WebhookAssumption ==
    /\ Payloads \subseteq Seq(Signatures \cup {Malformed})
    /\ Malformed \notin Signatures
    /\ MaxSignatures \in Nat /\ Concurrency \in Nat \ {0}

VARIABLES
    phase,      \* "listening", "mapping" or "responded"
    items,      \* the unique signatures, in order of arrival
    nextIndex,  \* the cursor the workers share
    current,    \* the index each live worker is verifying
    results,    \* what is stored under each index that ended
    response,   \* status code, and for 200 the counts and results
    delivered,  \* history: the payload that is worked on
    verdicts    \* history: what the verifications that settled came to

webhookVars == <<phase, items, nextIndex, current, results, response, delivered, verdicts>>

Statuses == {"verified", "failed"}
NoResponse == [code |-> 0]

WebhookInit ==
    /\ phase = "listening"
    /\ items = <<>> /\ nextIndex = 1
    /\ current = <<>>
    /\ results = <<>>
    /\ response = NoResponse
    /\ delivered = <<>> /\ verdicts = {}

Respond(reply) ==
    /\ phase' = "responded"
    /\ response' = reply

\* Mutant: a signature that arrives again moves to the end.
MutUnique(payload) ==
    LET last == {i \in DOMAIN payload : \A j \in DOMAIN payload : i < j => payload[j] # payload[i]}
    IN [n \in 1..Cardinality(last) |->
           payload[CHOOSE i \in last : Cardinality({j \in last : j < i}) = n - 1]]

\* The places where a signature arrives for the first time.
FirstPlaces(payload) == {i \in DOMAIN payload : \A j \in 1..(i - 1) : payload[j] # payload[i]}

\* validateHeliusPayload: a set that keeps the order of insertion.
Unique(payload) ==
    LET first == FirstPlaces(payload)
    IN [n \in 1..Cardinality(first) |->
           payload[CHOOSE i \in first : Cardinality({j \in first : j < i}) = n - 1]]

\* The request is turned away before its payload is looked at: the method, the
\* secret (unset on the server, or wrong), or a body that is not JSON.
TurnAway ==
    /\ phase = "listening"
    /\ \E code \in {405, 500, 401, 400} : Respond([code |-> code])
    /\ UNCHANGED <<items, nextIndex, current, results, delivered, verdicts>>

\* The payload is refused: a malformed transaction, or too many signatures.
Refuse(payload) ==
    /\ phase = "listening"
    /\ Malformed \in ToSet(payload) \/ Len(Unique(payload)) > MaxSignatures
    /\ Respond([code |-> 400])
    /\ UNCHANGED <<items, nextIndex, current, results, delivered, verdicts>>

\* readHeliusConfiguration throws.
Misconfigured(payload) ==
    /\ phase = "listening"
    /\ Malformed \notin ToSet(payload) /\ Len(Unique(payload)) <= MaxSignatures
    /\ Respond([code |-> 500])
    /\ UNCHANGED <<items, nextIndex, current, results, delivered, verdicts>>

\* The workers are created one after the other, and each takes its first
\* signature before any of them waits.
StartWorkers(payload) ==
    /\ phase = "listening"
    /\ Malformed \notin ToSet(payload) /\ Len(Unique(payload)) <= MaxSignatures
    /\ phase' = "mapping"
    /\ delivered' = payload /\ items' = Unique(payload)
    /\ LET workers == IF Len(items') < Concurrency THEN Len(items') ELSE Concurrency
       IN /\ current' = [w \in 1..workers |-> w]
          /\ nextIndex' = workers + 1
    /\ UNCHANGED <<results, response, verdicts>>

Store(index, verdict) ==
    /\ results' = [i \in DOMAIN results \cup {index} |->
                      IF i = index THEN verdict ELSE results[i]]
    /\ verdicts' = verdicts \cup {verdict}

\* Mutant: a worker that returns rewinds the shared cursor.
MutVerificationSettles(w, status) ==
    /\ phase = "mapping"
    /\ Store(current[w], [signature |-> items[current[w]], status |-> status])
    /\ nextIndex' = IF nextIndex <= Len(items) THEN nextIndex + 1 ELSE 1
    /\ current' = IF nextIndex <= Len(items)
                    THEN [current EXCEPT ![w] = nextIndex]
                    ELSE [v \in DOMAIN current \ {w} |-> current[v]]
    /\ UNCHANGED <<phase, items, response, delivered>>

\* The verification a worker waits for resolves or throws: what it came to is
\* stored under the index it was taken for, and the worker takes the next index
\* or returns.
VerificationSettles(w, status) ==
    /\ phase = "mapping"
    /\ Store(current[w], [signature |-> items[current[w]], status |-> status])
    /\ nextIndex' = nextIndex + 1
    /\ current' = IF nextIndex <= Len(items)
                    THEN [current EXCEPT ![w] = nextIndex]
                    ELSE [v \in DOMAIN current \ {w} |-> current[v]]
    /\ UNCHANGED <<phase, items, response, delivered>>

Failed == {i \in DOMAIN results : results[i].status = "failed"}

\* Mutant: a failed verification is not caught, and nobody answers.
MutRespondResults ==
    /\ phase = "mapping" /\ DOMAIN current = {} /\ Failed = {}
    /\ Respond([code |-> 200, failed |-> 0, processed |-> Len(items),
                results |-> [i \in DOMAIN items |-> results[i]]])
    /\ UNCHANGED <<items, nextIndex, current, results, delivered, verdicts>>

\* Every worker has returned: Promise.all resolves.
RespondResults ==
    /\ phase = "mapping" /\ DOMAIN current = {}
    /\ Respond([code |-> 200, failed |-> Cardinality(Failed), processed |-> Len(items),
                results |-> [i \in DOMAIN items |-> results[i]]])
    /\ UNCHANGED <<items, nextIndex, current, results, delivered, verdicts>>

Receive(payload) == Refuse(payload) \/ Misconfigured(payload) \/ StartWorkers(payload)

WebhookNext ==
    \/ TurnAway
    \/ \E payload \in Payloads : Receive(payload)
    \/ \E w \in DOMAIN current, status \in Statuses : VerificationSettles(w, status)
    \/ RespondResults

\* Every verification a worker waits for settles: its RPC requests time out
\* and the database client answers or throws.
WebhookFairness ==
    /\ \A w \in 1..Concurrency :
          WF_webhookVars(w \in DOMAIN current /\ \E status \in Statuses : VerificationSettles(w, status))
    /\ WF_webhookVars(RespondResults)

WebhookSpec == WebhookInit /\ [][WebhookNext]_webhookVars /\ WebhookFairness

-----------------------------------------------------------------------------
Verdicts == [signature: Signatures, status: Statuses]

WebhookTypeOK ==
    /\ phase \in {"listening", "mapping", "responded"}
    /\ items \in Seq(Signatures)
    /\ nextIndex \in 1..Len(items) + Concurrency + 1
    /\ DOMAIN current \subseteq 1..Concurrency
    /\ \A w \in DOMAIN current : current[w] \in 1..Len(items)
    /\ DOMAIN results \subseteq 1..Len(items)
    /\ \A i \in DOMAIN results : results[i] \in Verdicts
    /\ delivered \in Seq(Signatures) /\ verdicts \subseteq Verdicts
    /\ response.code \in {0, 200, 400, 401, 405, 500}

\* Tasks are the indices of the unique signatures.
Bag == INSTANCE TaskBag
    WITH Tasks <- 1..MaxSignatures, Limit <- Concurrency, Outcomes <- Verdicts,
         accepted <- DOMAIN items,
         running <- {current[w] : w \in DOMAIN current},
         outcome <- results,
         over <- phase = "responded"

\* Workers that share a cursor never verify a signature twice, never skip one,
\* never exceed the concurrency limit, and the response waits for all of them.
ImplementsTaskBag == Bag!TaskBagSpec

\* One signature of the payload was there before another one was.
ArrivesBefore(s, t) ==
    \E p \in DOMAIN delivered : delivered[p] = s /\ \A q \in 1..p : delivered[q] # t

\* Whatever order the verifications settle in, the response lists the signatures
\* that were delivered, each once, in the order in which they arrived first, and
\* with each of them what the verification of that very signature came to: a
\* failed verification neither hides nor shifts another one's result.  `failed'
\* counts the failures, and every variable keeps its type.
ResponseIsFaithful ==
    /\ WebhookTypeOK
    /\ response.code = 200 =>
          LET told == response.results
          IN /\ {told[i].signature : i \in DOMAIN told} = ToSet(delivered)
             /\ \A i, j \in DOMAIN told :
                   i < j => ArrivesBefore(told[i].signature, told[j].signature)
             /\ ToSet(told) = verdicts
             /\ response.processed = Len(told)
             /\ response.failed = Cardinality({i \in DOMAIN told : told[i].status = "failed"})

\* A delivery that starts verifying is answered.
DeliveryAnswered == phase = "mapping" ~> phase = "responded"
=============================================================================
