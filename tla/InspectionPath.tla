--------------------------- MODULE InspectionPath ---------------------------
(***************************************************************************)
(* The way of an inspection from the log of a transaction to the web       *)
(* route's look at the answer.  inspectLogs reads within limits of its own *)
(* and offers the text of each "Program data:" line that atob decodes; the *)
(* route validates the answer with another pattern and other limits.  A    *)
(* data line is the sequence of the sizes, in bytes, of the slices that    *)
(* sol_log_data writes as base64 with blanks between them; an Anchor event *)
(* is a line of one slice.  Frames are in InspectLogs: here a log is whole *)
(* when its frames match, no deeper than allowed, and no line says it was  *)
(* cut.                                                                    *)
(***************************************************************************)
EXTENDS Integers, SequencesExt

CONSTANT Logs

-----------------------------------------------------------------------------
(* Data lines.                                                             *)

Chars(bytes) == 4 * ((bytes + 2) \div 3)
Padded(bytes) == bytes % 3 # 0

Total(sizes) == FoldSeq(+, 0, sizes)
Size(line) == Total(line)
Blanks(line) == IF line = <<>> THEN 0 ELSE Len(line) - 1
TextLength(line) == Total([i \in DOMAIN line |-> Chars(line[i])]) + Blanks(line)

\* Padding has nothing but blanks behind it.
PaddedAtEnd(line) ==
    \A i, j \in DOMAIN line : i < j /\ Padded(line[i]) => line[j] = 0

\* atob leaves blanks out, and the fields of a line decode as one text.
Decodes(line) == PaddedAtEnd(line)

\* The pattern BASE64 of the route has no blanks.
IsBase64(line) == PaddedAtEnd(line) /\ Blanks(line) = 0

\* Eight bytes are the discriminator.
IsCandidate(line) == Size(line) >= 8

-----------------------------------------------------------------------------
(* inspectLogs.                                                            *)

MaxLines == 2048
MaxBytes == 256 * 1024
MaxPrograms == 128
MaxCandidates == 128

\* A log: the programs its invoke lines name, all its lines and their bytes,
\* and the data lines.
LogRecords ==
    [whole: BOOLEAN, programs: Nat, lines: Nat, bytes: Nat, data: Seq(Seq(Nat))]

ASSUME LogsAssumption ==
    /\ Logs \subseteq LogRecords
    /\ \A log \in Logs : \A k \in DOMAIN log.data :
          TextLength(log.data[k]) \in 0..log.bytes

\* A candidate is named by its line; the lines give their order.
Candidates(log) == {k \in DOMAIN log.data : IsCandidate(log.data[k])}

ReadsToTheEnd(log) ==
    /\ log.whole /\ log.lines <= MaxLines /\ log.bytes <= MaxBytes
    /\ log.programs <= MaxPrograms
    /\ \A k \in DOMAIN log.data : Decodes(log.data[k])
    /\ Cardinality(Candidates(log)) <= MaxCandidates

\* The programs met where the reading may have ended: a program too many is
\* listed before it is counted.
Met(log) ==
    IF log.lines > MaxLines THEN {0}
    ELSE {n \in 0..(MaxPrograms + 1) : n <= log.programs}

\* What the reading may give, which is one thing if it comes to the end.
InspectLogs(log) ==
    IF ReadsToTheEnd(log)
      THEN {[logsStatus |-> "available", invoked |-> log.programs,
             candidates |-> Candidates(log)]}
      ELSE [logsStatus: {"incomplete"}, invoked: Met(log), candidates: {{}}]

\* A transaction that failed shows its log too.
InspectTransaction(r, failed, log, read) ==
    [signature |-> r.signature, cluster |-> r.cluster, log |-> log,
     reason |-> IF failed THEN "TX_FAILED"
                ELSE IF read.logsStatus = "incomplete" THEN "LOGS_INCOMPLETE"
                ELSE IF read.candidates = {} THEN "NO_SUPPORTED_LOG_EVENT"
                ELSE "CANDIDATES_FOUND",
     logsStatus |-> read.logsStatus, invoked |-> read.invoked,
     candidates |-> read.candidates]

NoLog == [whole |-> FALSE, programs |-> 0, lines |-> 0, bytes |-> 0, data |-> <<>>]

\* An inspection that read no log: the provider failed, the transaction is not
\* there, is not final, or came without its metadata or logs.
InspectNothing(r, reason) ==
    [signature |-> r.signature, cluster |-> r.cluster, log |-> NoLog, reason |-> reason,
     logsStatus |-> "unavailable", invoked |-> 0, candidates |-> {}]

-----------------------------------------------------------------------------
(* The route's validator.                                                  *)

MaxListed == 128        \* programs, and candidates
MaxDataChars == 350000

IsLogEventCandidate(line) == TextLength(line) <= MaxDataChars /\ IsBase64(line)

\* Mutant: the validator takes one candidate less than the reader offers.
MutIsTransactionInspection(found) ==
    /\ found.invoked <= MaxListed /\ Cardinality(found.candidates) < MaxListed
    /\ \A k \in found.candidates : IsLogEventCandidate(found.log.data[k])

\* Addresses are taken by the pattern the reader finds them with.
IsTransactionInspection(found) ==
    /\ found.invoked <= MaxListed /\ Cardinality(found.candidates) <= MaxListed
    /\ \A k \in found.candidates : IsLogEventCandidate(found.log.data[k])
=============================================================================
