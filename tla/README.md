# EventSeal in TLA+

EventSeal decides whether a Solana transaction emitted an expected Anchor event, and keeps
receipts of what it decided. This directory models the parts of it that carry that promise,
model-checks them on small instances with TLC and proves the most important results for
every instance with TLAPS.

## The system

| Component | Source | State it keeps | Operations | Modelled in |
|---|---|---|---|---|
| Log attribution | `packages/sdk/src/events/anchor-log.ts` | frames, located events, position (one pass) | one per kind of log line, then a conclusion | `AnchorLog`, `Attribution` |
| Log inspection | `packages/sdk/src/events/inspect-logs.ts` | frames, candidates, byte count (one pass) | the same lines under limits | `InspectLogs`, `LogReading` |
| Event verification | `packages/sdk/src/verify-event.ts`, `transaction/fetch.ts` | one call's pending replies | genesis check, two concurrent reads, conclusion | `VerifyEvent` |
| Receipt store | `functions/_shared/verify-and-persist.ts`, `receipt-persistence.ts`, `stored-receipt.ts`, get-receipt in `handlers.ts`, `migrations/` | table `verification_receipts` | upsert, read back, compare, look up, migrate | `ReceiptStore`, `ReceiptLedger` |
| Helius webhook | `functions/_shared/handlers.ts`, `validation.ts` | shared cursor and results of one delivery | validate, run workers, respond | `HeliusWebhook`, `TaskBag` |
| Solana runtime, log collector | outside the repository | invocation stack, log | write a line, truncate, lose a line | `TransactionLog` (external) |
| Solana cluster, RPC provider | outside the repository | forks, lagging nodes | land, advance, drop a fork, reply | `SolanaCluster` (external) |
| Transaction inspection | `inspect-transaction.ts` | one call's pending replies | fetch, inspect, reason code | `InspectTransaction` |
| verify-event, inspect, get-receipt endpoints | `functions/`, `functions/_shared/` | none; settings of the platform | check method, secret and body, choose an RPC endpoint, work, answer | `RequestPath`, `HostedConfig`; the lookup in `ReceiptStore` |
| Verify page | `apps/web/components/verify-workspace.tsx`, `lib/verification-workspace.ts` | request, inspection, selection, verification, in-flight flag | edit, inspect, choose, verify | `VerifyWorkspace` |
| Web routes and API clients | `apps/web/lib/verify-route.ts`, `inspection-route.ts` and neighbours, `app/api` | none; settings of the server | check message and body, forward with the secret, check the answer | `RequestPath`, `WebConfig` |
| Saved receipts, dashboard | `apps/web/app/receipt-actions.ts`, `lib/user-receipts.ts`, `app/dashboard/page.tsx` | table `user_receipts` | save, remove, list a page | `SavedReceipts` |
| GitHub sign-in | `apps/web/app/auth`, `app/api/auth`, `lib/oauth-boundary.ts`, `proxy.ts` | PKCE cookie, session cookies | start, callback, renew, sign out | `OAuthSignIn`, `WebConfig` |
| Public receipt page | `apps/web/app/receipts`, `lib/public-receipt.ts` | none | validate and show | `RequestPath`: the validator; `SavedReceipts`: the save button, which the verify page has too |
| Demo program, fixture generator | `programs/event-seal-demo`, `scripts/generate-devnet-fixtures.mjs` | transactions under way, temporary file, fixture file | submit, wait, capture, replace | `DevnetFixture` |
| Backend smoke | `scripts/smoke-devnet-backend-proof.mjs` | fixture read, answers, proof file | verify twice, look the receipt up, write | `BackendProof` |
| Secret configuration | `scripts/configure-insforge-secret.mjs` | none | replace one setting | `RequestPath` |
| Presentation, headers, other scripts | `apps/web`, `scripts` | none | | no |

How they interact: the verify page sends a request to a web route, which forwards it to a
hosted function together with a secret both servers hold. The function verifies (three RPC requests, two of them together), and stores
a receipt when the conclusion names an event. A webhook delivery does the same for up to 25
signatures with four workers. Deliveries share nothing but the table. get-receipt and the
saved-receipt list read that table; row-level security and a trigger guard it. The page also
inspects a transaction first and offers candidates from the log, which the verification
then reads again on its own. Signing in takes a cookie from one tab past GitHub to the
callback route, which all tabs of the browser share. The operator replaces settings one by
one while requests are under way. Beside the running system, a script makes the fixture that
the tests use by sending two transactions, and another proves a deployed backend with it.

What is hard: a log is an untyped text that may be cut or thinned on its way; programs call
themselves; two reads of one transaction can come from different nodes around a fork;
webhook senders repeat deliveries, concurrently and after failures half-way; a receipt id
does not bind everything the receipt says; old and new function instances write during a
migration; workers share a cursor; tabs share one PKCE cookie, and their requests and responses
overlap; a secret differs between two servers for a while; a transaction that was seen
may still disappear. `PROJECT.json` lists each such hazard at its line.

What makes each component correct: the attribution names true emitters and the inspection
never offers a candidate from a broken log; a conclusion only speaks of the finalized landing
and a repeated call reaches the same one; the table is a write-once ledger and nobody is told
of a receipt it does not hold; the worker pool runs each signature exactly once; what the
verify page shows belongs to what is entered in it; no part turns down what
another part has made of a valid request, and nobody is told to mend a request that
is sound; a browser is signed in only by an attempt of its own, and whoever signs in alone
succeeds; a fixture and a proof name only transactions that are final; a saved reference changes only at the request
of its owner and stays until its removal is asked for, and the pages of the list miss and repeat
nothing.

## Modules

- `Attribution` — pure: from located events to reason code, attributed event and verdict.
  A payload is a model value with a discriminator; its hash is identified with it.
- `TransactionLog` — the environment that writes a log. It keeps `truth`, what was really
  emitted, and `snapshots`, the stack and the truth after each line, as history variables.
  A line reaches the log, or the collector fills up and writes its marker, or the provider
  loses the line silently.
- `AnchorLog` — `attributeAnchorLogEvent`: `frames` and `located` are the arrays of the
  source, `cursor` the loop, `Spliced` and `CutAt` its two `splice` calls. `ReadInvoke`,
  `ReadExit`, `ReadData` and `SkipLine` are the branches of the loop body.
- `InspectLogs` — `inspectLogs`: one action per branch, `Incomplete` for `incomplete()`. The
  byte count is abstracted to one unit a line and `DataBytes` units a data line.
- `LogReading` — extends `AnchorLog` and instantiates `InspectLogs` over the same log, as the
  page uses them: inspect, then verify. The readers share only the log.
- `SolanaCluster` — the views a provider may answer from for one signature, current or stale.
- `VerifyEvent` — one call after the other while the cluster moves: `Call`, `GenesisMatches`,
  `StatusArrives` and `TransactionArrives` in either order, `RequestFails` (wrong genesis,
  HTTP error, bad body, timeout) or `Conclude`. `FetchedReason` is the chain of early returns,
  in order. `answers` is a history variable; an indeterminate result promises nothing and is not
  kept.
- `InspectTransaction` — extends `VerifyEvent` with calls that inspect: `Inspect` refuses what is no
  request and leaves as `Call` does, the fetch is shared, `InspectedReason` is the chain of returns and `InspectionFails` the
  catch block. The page calls both, each with a fetch of its own.
- `ReceiptLedger` — abstract: a write-once map and confirmations of what it holds.
- `ReceiptStore` — concurrent executions of `verifyAndPersist`, one action per database call
  (`Verified`, `Upsert`, `ReadBack`, `Answer`), `Fail` between any two of them, the previous
  release's inserts, the migration with its trigger, and get-receipt. A receipt's *content* is
  what its id does not bind. `ImplementsLedger` maps the version 2 rows to the ledger.
- `TaskBag` — abstract: a bounded bag of tasks, each run once.
- `HeliusWebhook` — `StartWorkers` and `VerificationSettles` are the stretches of `mapWithConcurrency`
  between two awaits, which JavaScript runs without interruption; the tasks of `TaskBag` are the
  indices of the distinct signatures. `delivered` (the payload as it came) and `verdicts` (what the
  verification of each signature came to) are history variables that the response is compared with.
- `VerifyWorkspace` — the page: one action per handler, up to its `await`, and one per way the
  request ends (`InspectionArrives`, `VerificationArrives`, `Fails`), each with the `finally`
  block (`Settle`). A field holds one of a few texts; `Clean` trims and lower-cases it.
- `SavedReceipts` — the table `user_receipts` and the tabs of one browser that share a session.
  A request carries the session it was sent with, so signing out or in as someone else meets
  requests under way. `OpenReceipt` is the page of a
  receipt that `isPublicReceipt` accepts, `ShowResult` the save button of the verify page, which takes
  whatever receipt was issued, and `Submit` a call of a server action from no page at all, with any
  id. The handlers (`OpenDashboard`, `ClickSave`, `ConfirmRemoval`) only send;
  `List`, `Upsert` and `Delete` are the database calls with the row-level security policies
  in them, `AnswerSave` and `AnswerRemoval` bring the answers, and `ListFails` and `ActionFails`
  are every other end, a lost answer after the table has changed included.
- `VerificationPath` — the ten validators between a request to verify and the public receipt
  page, and the steps between them: `VerifyEvent` (the conclusion), `Persist` (record, the table's
  constraints, read-back). `refused` names the part that turned the request down. A text is its
  core and whether blanks surround it.
- `InspectionPath` — what an inspection makes of a log within its limits, and what the web route's
  validator makes of that within others; `atob` and the route's pattern understand base64 differently.
  A log is its numbers of lines, bytes and programs and its data lines, each the sequence of its slices'
  sizes. Where a reading ends early is left open (`Met`).
- `WebConfig`, `HostedConfig` — pure: how the web server and the hosted functions read their
  environments; which secret authenticates, which cluster answers at the endpoint chosen.
- `RequestPath` — extends the four: one request from its HTTP message to the page. `WebChecks`,
  `VerifyChecks` and `InspectChecks` are the early returns of the handlers in their order, and
  `FirstFailure` decides the status. `WebForwards`, `HostedAccepts`, `Verify`, `InspectsLog`,
  `StoreReceipt`, `HostedAnswers`, `WebAnswers` and `PageShows` are the way through; `NetworkFails` and
  `StoreFails` end it; `Update` replaces a setting at any moment. `trouble` is a history variable.
- `OAuthSignIn` — attempts, browsers and the requests for the callback route. Requests read the
  cookies when they leave (`OpenCallback`, `AskRenewal`), responses change them when they arrive
  (`LeaveForGitHub`, `CallbackArrives`, `RenewalArrives`); the server's step lies in between
  (`NotConfigured`, `RefuseCallback`, `ExchangeOAuthCode`). A cookie holds the attempt whose
  verifier it carries.
- `DevnetFixture` — runs of the generator over the cluster's view of their transactions. `Poll` is
  one round of `waitForFinalizedTransaction` and, when it returns, of `captureEvidence`;
  `WriteTemporary` and `Rename` replace the file; `Interrupt` stops a run anywhere.
- `BackendProof` — extends it with the smoke: one action per call, each with the checks of its
  answer. `honest` chooses between a backend that answers as the code does and any other.
- `AnchorLogProofs`, `EvidenceProofs`, `RequestPathProofs`, `HostedProofs`, `VerifyWorkspaceProofs`,
  `SavedReceiptsProofs`, `OAuthSignInProofs`, `DevnetProofs` — the theorems.
- `MC*` — instances for TLC.

## Runs

The safety of every run is proved without bounds as well (see Theorems); the bounds below are those
under which TLC explores all behaviours, liveness included.

| Run | Question | Bounds, and why they are enough |
|---|---|---|
| `truncated_evidence` | Does truncated evidence give `indeterminate`? | 2 programs, depth 3, 4 lines and a collector that may fill up. TLC finds that it does not: see Findings. |
| `log_reading` | Is a whole log attributed exactly, does the conclusion follow from what was emitted, and is inspection trustworthy on damaged logs, exact at its limits, and consistent with attribution? | 3 programs, depth 3, 4 lines beside the exits, up to two lost lines and truncation: recursion A-B-A, siblings after a return, two events, mismatches of program and of discriminator all occur. The limits (7 lines, 7 bytes, 2 frames, 2 programs, 2 candidates) lie inside what the runtime can reach, so each is met and passed. |
| `evidence` | Do verifications and inspections survive forks, stale nodes and failing requests, agree with each other, and always come? | 2 slots (land, drop, land again with another outcome), 2 calls, an empty log and one of three events that leads, cut or whole, to verified, both kinds of rejected and open conclusions; three request formats. A third call adds a pair of answers of the same kinds. |
| `request_path` | Is a sound request served, is only a request at fault refused as one, does every part accept what the part before it made, and is a conclusion read from the cluster it speaks of? | Requests to verify with each of signature, program and body empty, too long, with blanks, or fine, and one other field out of order; requests to inspect likewise; each flaw of a message on both ways in; each value of each setting, and combinations of RPC addresses over two of the three clusters (the one asked for and another); 2 replacements of settings at any moment, so that a secret or an address and its binding are both met half-way. Logs of up to 2 located events, and up to 2 data lines of slices of each padding, shorter and longer than a discriminator; logs at each limit of the reader and one beyond it (2048 lines, 256 KiB, 128 programs, 128 candidates), and the longest data line that fits. |
| `sliced_data` | Is every candidate base64? | The inspections of `request_path`. TLC finds that it is not: see Findings. |
| `receipt_store` | Is the table a write-once ledger under concurrency, failure, legacy writers and migration? | 2 deliveries, 2 ids, 2 contents, 1 legacy id, 4 executions: concurrent first inserts, repeats after a failure at each step, and disagreeing contents under one id occur. |
| `helius_webhook` | Does the worker pool do every signature once, and does the response give every distinct signature of the payload its own verdict, in order of arrival? | 3 workers, 6 signatures allowed; payloads that are empty, shorter and longer than the pool, with duplicates, one over the limit, and malformed. |
| `verify_workspace` | Does everything the page shows belong to what is entered, whatever the user does around a request? | 2 signatures, one of them also with blanks around it, 2 clusters, 2 programs, 2 discriminators, one also in upper case, incomplete texts, 0 to 2 candidates. Two of each are enough to confuse one with another. |
| `saved_receipts` | Do the dashboard and the save button tell the truth while another tab saves and removes, does a reference stay in its place until its removal is asked for, and do the redirects to the last page end? | 2 tabs, 1 user, 2 ids on pages of 1 row, so that the last page vanishes and comes back; 2 times, for equal and for different `saved_at`; requests from pages and from none. |
| `saved_receipts_users` | Do references change only by their owners' requests, and fall into pages exactly? | 2 users who follow each other in one tab, 3 ids, one of a row that `isPublicReceipt` refuses, 2 verdicts, pages of 2 rows: full, partly filled and empty last pages occur. |
| `sign_in` | Is a session always the browser's own, does a sign-in alone succeed, and is every callback answered? | 2 attempts in up to 2 browsers, 2 requests for the callback, 1 renewal, a working and a broken environment: two tabs of one browser and an address carried to the other, a reload before and after an answer, an expired cookie, a late renewal. |
| `devnet_proof` | Do the fixture and the proof name only final transactions, does a generated fixture pass, and does a run end? | 2 runs over 2 slots with 1 round of waiting each: a transaction is lost, lands, is dropped and lands again; a second run replaces the file while the smoke goes on. |

`CHECK_DEADLOCK FALSE` is set in all runs but `verify_workspace`: a transaction that is scanned, a
call budget that is used up, a request that is answered, a sign-in that is over, runs that are done and
a webhook delivery that is answered are proper ends, and so is
the clock at its bound in the runs of `SavedReceipts`.

Every property of a passing run has a mutant in `PROJECT.json`: a plausible bug in a modelled
definition that breaks it (an `indexOf` for `lastIndexOf`, a limit off by one, an ignored
confirmation status, an upsert that overwrites, a missing trigger, a lost deduplication).

Types are an invariant of their own in `log_reading`, `receipt_store` and `sign_in` (`TypeOK`); elsewhere
one invariant of the module carries its `TypeOK` along.

### Fairness

`InspectTransaction`: weak fairness of `RequestFails`, `Conclude` and their two counterparts for
inspections only. Every request carries
`AbortSignal.timeout(15_000)` (`fetch.ts:71`), which also covers the body, so a reply that never
comes ends in a rejection; a settled `Promise.all` is resumed by the event loop. Nothing is
assumed of replies arriving or of the cluster.

`HeliusWebhook`: each worker's verification settles, and the response is sent. The first rests on
the timeouts above and on the database client answering or throwing; the repository shows no
timeout of that client, so this is an assumption (listed as a hazard).

`VerifyWorkspace` has none: neither the page nor the web routes put a limit on a request, so the
page is not promised to become usable again (listed as a hazard).

`SavedReceipts`: the listing of a tab settles, and a redirect is followed. The code puts no limit on
the listing either, so the first is an assumption on the database and the browser; it is there so
that `DashboardLoads` is about what the code decides, whether redirects can go on for ever.

`OAuthSignIn`: weak fairness of the server's steps only. The handler of the callback has no wait but the
exchange, and the platform runs it to its end; that the SDK's call settles is an assumption. Users,
GitHub, networks and browsers owe nothing.

`DevnetFixture`: weak fairness of the steps of each run, so that `RunsEnd` is about the deadline: the
RPC client's calls settle (an assumption, listed as a hazard) and a timer fires. The cluster and
the operator owe nothing.

### Findings

`docs/verification-invariants.md` item 7 says that truncated evidence produces `indeterminate`.
`attributeAnchorLogEvent` skips the "Log truncated" line (`anchor-log.ts:67`) and `verifyEvent`
does not look for it. The run `truncated_evidence` shows a truncated log that is concluded upon:
with one matching event before the marker the verdict is `verified`, although a second
match may have been cut off. `inspectLogs` does withhold its candidates from such a log.

`docs/transaction-inspection.md` says that a candidate has base64 bytes. `sol_log_data` writes
several slices as base64 fields with blanks between them; `inspectLogs` decodes such a line, because
`atob` leaves blanks out, and passes its text on as it is (`inspect-logs.ts:51`). The pattern of the
web route knows no blanks, so the route answers 502 to the whole inspection, its proper candidates
included. The run `sliced_data` shows it. Anchor's `emit!` writes one slice, and for logs of such
lines `InspectionLimitsAgree` holds.

Its exception is no finding of a run, but worth knowing: `inspectLogs` lists a program before it
compares their number with 128 (`inspect-logs.ts:35-37`), so that a reading that ends there lists 129,
which the route's validator refuses (`inspection-result.ts:62`). The page is answered 502, where
`docs/transaction-inspection.md` gives `LOGS_INCOMPLETE` for its safety limits. No log that a runtime
writes today is known to name so many programs.

## Theorems

`tlapm` checks every step; nothing is assumed beyond the named assumptions on constants
(`BoundsAssumption`, `StoreAssumption`, ...), which TLC evaluates on each run.

Every safety invariant and action property of the runs and both refinements are proved, for every
value of the constants. Each argument rests on an invariant that is stronger than what the runs
state; TLC checked it on the run's instance first (all but `Retraced`, which quantifies over an
infinite set of histories).

`AnchorLogProofs`. The inductive invariant is `IInv`: types, and, for a log that lost nothing,
`LinesFit` (each line describes the step between the snapshots around it), `NowFits` (the last
snapshot is the runtime's state) and `ScanFits` (frames and located events equal the snapshot
at the cursor). `LocatesTruth` alone says nothing before the scan has ended, hence the
strengthening. The runtime keeps it because a complete log took every line in (`WriteFits`); the
scanner keeps it because an invoke line one deeper than the frames appends (`SplicedDeeper`) and
an exit line of the innermost program removes exactly that frame (`CutAtInnermost`; this is where
`lastIndexOf` matters). From it follows what is concluded: `FirstIsIn`, `Counting` and
`ReasonCases` relate the operators of `Attribution` to how many emitted events match, and
`ConclusionFits` compares them with the truth case by case. Results: `TypeCorrect`,
`ScannerLocatesTruth`, `ConclusionsAreTrue`.

Its second part is about both readers. `ReadingInv` adds `RuntimeFits` (what was written, arrived or lost,
balances the stack), `Ordered` (the inspection starts on a finished log, the attribution after it),
`Concluded` (what the lines accepted so far say of bytes, frames, programs and the truth; and a whole log
that is refused lies outside the limits) and `Retraced` (one history of frames and events fits the lines
accepted, whatever was lost before; the inspection is at its end and the attribution on its way along it).
`CandidatesVerify` needs the last: when it is
asked, one reader is done and the other has just ended, and only that history ties
them. `ReadingImplementsLog` carries the theorems of the first part over. Results:
`CandidatesTrusted`, `OfferedCandidatesVerify`, `LimitsHold`.

`EvidenceProofs`. Two replies may come from different nodes, and the cluster may have moved before
the call concludes, so that nothing about the present says what they were. `ViewsFit` says it of the past:
two views in one slot are of one landing, and a finalized view is the latest and stays so. With
`RepliesFit` (a reply tells of some view there has been) `FinalReplies` joins the two replies: a
finalized status and a transaction of its slot are about the landing that is final. `AnswersFit` and
`InspectionsFit` keep what was concluded from it. Results: `VerdictsAreFinal`, `AnswersAgree`,
`InspectionsTellOfTheFinalLanding`, `OffersAreKept`.

`RequestPathProofs`. A request is at its end when the properties speak of it, so `PathInv` follows it
there: what reached the hosted function is what was sent, and with the right secret unless a setting
was written (`InputFits`); what is worked on was accepted (`AcceptedFits`); the result is one of
those `verifyEvent` or `inspectTransaction` has for it, and its cluster the one that answered (`ResultFits`);
each refusal and each status names a cause (`RefusalsFit`, `StatusFits`). Then each validator
is shown to take what the part before it makes: `WebAnswers` cannot refuse a hosted function's
result (`VerdictParts`, `InspectionParts`), nor the table or the public page a receipt
(`ReceiptPasses`). `SoundIsForwarded` and `SoundIsAccepted` show that trimming never turns a
sound request into a refused one. Results: `SoundRequestsServed`, `NothingIsTurnedDown`,
`ConclusionsAreReadThere`, `LimitsAgree` (whose `ReadingIsTaken` compares the reader's limits with the
route's: no line within the bytes of a log is longer than the route takes), `TypeCorrect`.

`HostedProofs`. For the receipt store, the invariant says that every version 2 row is well formed, that a delivery
past its upsert finds a row under its id and one past its read holds that row, and that whatever
was shown or confirmed is still in the table. It needs the trigger: rows under version 2 ids exist
only after the migration, and from then on no row changes. Results: `TypeCorrect`,
`ReadersAlwaysAgree`, `RowsStay`, `Refinement` (every step of the store is a ledger step or
a stutter under the mapping `LedgerView`).

For the webhook, `PoolFits` says that the indices before the shared cursor are those under way and
those that ended, none both, and none under way twice; that while any is left, every worker has one;
and, once none is left, how far returning workers have pushed the cursor past the end. A worker that
settles therefore takes an index nobody had, and when no worker is left every index has ended. The results
hold at each such index what the verification of the signature there came to, the signatures are those
delivered, each at its first arrival, and so the response is true to the payload. Results:
`ResponsesAreFaithful`, `PoolRefinesBag` (every step is a step of the bounded bag or a stutter) and, for
the deduplication, `UniqueIsExact`.

`VerifyWorkspaceProofs`. What is shown belongs to the fields because no handler runs beside a request,
which the page only says through a flag. `FlightFits` ties the flag to the request under way: it is the
one that the fields as they are make, and nothing it will decide is on the page. Results:
`OutcomesStay`, `ErrorsStandAlone`.

`SavedReceiptsProofs`. That a reference changes only by a request of its owner, and stays with its time
until one asks for its removal, follows from the owner and the time being the database's: the invariant
types the requests, and each step that touches the table is compared with the request behind it. Results:
`OwnersOnly`, `ReferencesStay`. `TabInv` adds what tabs claim: a request to save belongs to the page
that is shown or to none, and one that was done is known to the table
(`ClaimsHold`); a dashboard fits the total it was listed with (`ShownPagesFit`). That the pages
partition the list is no matter of steps: `ListingOrders` shows the list to be a bijection that keeps
the query's order, and `PagesWalkTheList` that page and place count through it. Result:
`PagesPartitionTheList`.

`OAuthSignInProofs`. That a session is a browser's own is not inductive: it comes from an answer that
was given before, to a request that carried a cookie before that. The invariant follows the verifier
on its way: a cookie holds only an attempt made in its browser, a callback under way carries only such
a verifier, an answer that signs in names an attempt of the browser it returns to whose code is
spent, and a renewal carries such a session. It needs that an exchange asks for the
verifier of the code's own attempt, which is the identity service's part. Results: `TypeCorrect`,
`SessionsOwn`. `CauseInv` asks the reverse, why an attempt that should succeed cannot have failed: a cookie
lost its verifier, or a code its use, only to something that is still remembered (`Disturbed`: another attempt,
another callback, an expiry). Results: `LoneAttempts`, `VerifiersGo`.

`DevnetProofs`. A fixture names slots that its run saw final long before. `CapturesFit` says that what a
run has found is final, which stays true because the cluster keeps what is final and the run never
sends a transaction twice (`StagesFit`: it looks for one only after sending it); `FilesFit` and
`SmokeFits` carry the slots from the run to the fixture, to the smoke and to the proof. Results:
`FixtureStaysFinal`, `ProofsAreWitnessed`, `HonestBackendsPass`.

What the proofs changed in the models:

- `CandidatesAreTrustworthy` once said that no invoke or exit line was lost from a log whose candidates are
  offered. The proof failed on a whole invocation of which both lines are lost; the run had allowed one
  loss. It now asks for as many lost invoke as exit lines, and the run allows two.
- `TypeOK` of `VerifyWorkspace` admitted a page at rest with two requests under way; it is now exact.
- The list of saved receipts, the signatures of a payload and the candidates of `InspectionPath` were
  written with sorts, folds and filters, which compute by recursion. They are now defined by what
  they contain and in which order (`Before`, `FirstPlaces`, a set of line numbers); the runs check the
  same as before.
- Constants got the assumptions that a model value such as `None` is none of the values it is kept apart from,
  that receipts are finitely many, that requests and logs have their types, and that clusters are
  the three the code knows.

Only model-checked: all liveness (`CallsReturn`, `DeliveryAnswered`, `DashboardLoads`,
`EveryCallbackAnswered`, `RunsEnd`), since fairness and `ENABLED` are out of the prover's reach; and
that the two runs that expect a violation find one. In `InspectionPath` the bytes of a line with several
slices are a fold, of which only the case of one slice is proved (`TotalOfOne`): it is the one
`InspectionLimitsAgree` is about.

## Abstractions worth knowing

- SHA-256 is injective; a receipt id is its identity. Version 1 and 2 ids never coincide (the
  hashed strings start differently).
- Log lines are parsed already. The patterns that recognise them are those of the two readers,
  which agree on real program ids.
- `Mutate` stands for anyone with rights on the table before the trigger exists; no code of the
  repository updates or deletes a receipt.
- In `SavedReceipts` the receipts are those that exist already and stay; accounts are not deleted. A saved
  receipt whose row `isPublicReceipt` refuses makes every dashboard page it falls on unavailable, and nothing
  in the code prevents the save: neither the verify page's button nor the server action looks at the row.
  PostgREST's error for a range beyond the rows is one of the ways `ListFails`.
- In `VerificationPath` evidence texts and times are left out, and a program id with blanks around
  it matches no program. `verifyEvent` may reach any reason there, also from the same body twice.
- In `RequestPath` a message is well formed or has one flaw; the secret is compared as a value, and a
  header loses the blanks around it on its way, so a padded secret never authenticates although every
  presence check accepts it: such a secret is not
  among the settings `SoundRequestsAreServed` calls sound. Responses of the platform itself (its own
  limits) are not modelled.
- In `OAuthSignIn` the SDK, GitHub and the identity service are external: PKCE binds a code to a verifier
  and a code is exchanged once. Three things the properties leave room for, because the code does:
  two tabs that sign in together may both fail; a callback that is reloaded after it succeeded says that
  it failed while the browser is signed in; a renewal that is answered late can bring back a session
  after a sign-out, if the service still renews it.
- In `DevnetFixture` every run has its own two transactions: two runs that sign the same message with the same
  blockhash would share a signature. The provider is taken to honour `finalized`.
- In `BackendProof` the fixture is the file that the generator writes; a file from elsewhere, named with
  `--fixture`, is left out.

## Not modelled

- Markup, styles, animation, the developer pages and constant security headers: no state.
- `smoke-mainnet-inspection.mjs` (one read-only call after the other) and `build-functions.mjs` (a bundler).
- The lookup of the public receipt page when it fails or finds nothing, and the display.
- Hashing, JSON shapes, byte limits inside a reply of an RPC node: they are outcomes of a step.

## Plan

1. `HostedPipeline`: webhook deliveries with redelivery over `VerifyEvent`'s conclusions and
   `ReceiptStore`; a redelivered signature ends with the same confirmed receipt. Its safety follows from
   `AnswersAgree` and `Refinement` together.
2. An abstract specification of a verification (one answer per request, fixed by the finalized
   landing) that `VerifyEvent` implements, with the mapping read off `AnswersFit`.
3. The facts on `Attribution` that `AnchorLogProofs` and `EvidenceProofs` both prove (`FirstIsIn`,
   `ReasonCases`) belong in one module.
