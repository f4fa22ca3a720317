--------------------------- MODULE EvidenceProofs ---------------------------
(***************************************************************************)
(* What verifications and inspections conclude from two replies is true of *)
(* the finalized transaction, for any slots, logs, requests and number of  *)
(* calls.  Argument: landings in different slots are different landings,   *)
(* so two replies of one slot tell of one landing; a view that is final is *)
(* the last the cluster has; a conclusion needs a final status and a       *)
(* transaction of the same slot, hence of that landing.                    *)
(***************************************************************************)
EXTENDS InspectTransaction, SequenceTheorems, WellFoundedInduction, TLAPS

Views == seen \ {Absent}

\* A slot holds one execution of the transaction; what is final is the latest.
ViewsFit ==
    /\ \A v, w \in Views : v.slot = w.slot => v.err = w.err /\ v.events = w.events
    /\ \A v \in Views :
          /\ latest # Absent => v.slot <= latest.slot
          /\ v.state = "finalized" => latest = v

\* A reply tells of a view the cluster has had.
RepliesFit ==
    /\ status \in {None, Waiting} \/ \E v \in Views : status \in StatusReplies(v)
    /\ transaction \in {None, Waiting} \/ \E v \in Views : transaction \in TransactionReplies(v)

\* A conclusive answer is what follows from the final landing and a log of it.
AnswerFits(r, res) ==
    /\ latest.state = "finalized" /\ res.slot = latest.slot /\ Conclusive(res)
    /\ \/ latest.err /\ res.reason = "TX_FAILED" /\ res.verdict = "rejected"
          /\ res.event = NoEvent
       \/ /\ ~latest.err
          /\ \E read \in LogReplies(latest.events) :
                /\ res.reason = Reason(read.events, r.program, r.discriminator)
                /\ res.verdict = Verdict(res.reason)
                /\ res.event = AttributedEvent(read.events, r.program, r.discriminator)
                /\ res.whole = ~read.truncated

AnswersFit == \A a \in answers : AnswerFits(a.request, a.result)

\* An inspection that read a log, or calls the transaction final, tells of the
\* final landing; one that offers candidates, or none, tells of its success.
InspectionFits(i) ==
    /\ \/ i.finality = "finalized" \/ i.logsStatus # "unavailable"
       \/ i.reason \in {"TX_FAILED", "METADATA_MISSING", "LOGS_UNAVAILABLE"}
       => /\ latest.state = "finalized"
          /\ i.slot = latest.slot /\ i.execution = Outcome(latest.err)
          /\ i.logsStatus = "available" => i.candidates = latest.events
          /\ i.logsStatus # "available" => i.candidates = <<>>
    /\ i.reason \in {"CANDIDATES_FOUND", "NO_SUPPORTED_LOG_EVENT"}
       => latest.state = "finalized" /\ ~latest.err /\ i.candidates = latest.events

InspectionsFit == \A i \in inspections : InspectionFits(i)

IInv ==
    /\ InspectTypeOK
    /\ ViewsFit /\ RepliesFit /\ AnswersFit /\ InspectionsFit

-----------------------------------------------------------------------------
(* What is concluded from a log, whole or cut.                             *)

LEMMA FirstIsIn ==
    ASSUME NEW M \in SUBSET Nat, M # {}
    PROVE  First(M) \in M
<1> DEFINE R == OpToRel(<, Nat)
<1>1. PICK i \in M : \A j \in M : ~ (<<j, i>> \in R)
  BY NatLessThanWellFounded, WFMin
<1>2. ASSUME NEW j \in M PROVE i <= j
  <2>1. <<j, i>> \notin {ss \in Nat \X Nat : ss[1] < ss[2]}
    BY <1>1 DEF OpToRel
  <2> QED BY <2>1
<1> QED BY <1>2 DEF First

\* The reason, and with it the event that is named, by how many events match.
LEMMA ReasonCases ==
    ASSUME NEW s \in Seq(Event), NEW p, NEW d
    PROVE  LET M == MatchingProgram(s, p, d)
               D == MatchingDiscriminator(s, d)
               reason == Reason(s, p, d)
               event  == AttributedEvent(s, p, d)
           IN \/ /\ reason = "VERIFIED" /\ M # {}
                 /\ \E k \in M : event = s[k]
              \/ /\ reason = "PROGRAM_MISMATCH" /\ M = {}
                 /\ \E k \in D : event = s[k]
              \/ reason \in {"DISCRIMINATOR_MISMATCH", "EVENT_NOT_FOUND"} /\ M = {} /\ event = NoEvent
              \/ reason = "AMBIGUOUS_EVENT" /\ event = NoEvent
<1> DEFINE M == MatchingProgram(s, p, d)
           D == MatchingDiscriminator(s, d)
           reason == Reason(s, p, d)
           event  == AttributedEvent(s, p, d)
<1>1. M \subseteq D /\ D \subseteq Nat
  BY DEF MatchingProgram, MatchingDiscriminator
<1>2. CASE \E i, j \in M : i # j
  <2>1. reason = "AMBIGUOUS_EVENT"
    <3>1. M # {} /\ ~ \E i \in M : M = {i}
      BY <1>2
    <3> QED BY <1>2, <3>1 DEF Reason
  <2> QED BY <2>1 DEF AttributedEvent
<1>3. CASE \E i \in M : M = {i}
  <2>1. reason = "VERIFIED" /\ M # {}
    <3>1. M # {} /\ ~ \E i, j \in M : i # j
      BY <1>3
    <3> QED BY <1>3, <3>1 DEF Reason
  <2>2. First(M) \in M
    <3> HIDE DEF M
    <3> QED BY <1>1, <2>1, FirstIsIn
  <2> QED BY <2>1, <2>2 DEF AttributedEvent
<1>4. CASE M = {} /\ D # {}
  <2>1. reason = "PROGRAM_MISMATCH"
    BY <1>4 DEF Reason
  <2>2. First(D) \in D
    <3> HIDE DEF D
    <3> QED BY <1>1, <1>4, FirstIsIn
  <2> QED BY <1>4, <2>1, <2>2 DEF AttributedEvent
<1>5. CASE M = {} /\ D = {}
  <2>1. reason \in {"DISCRIMINATOR_MISMATCH", "EVENT_NOT_FOUND"}
    BY <1>5 DEF Reason
  <2> QED BY <1>5, <2>1 DEF AttributedEvent
<1>6. M = {} \/ (\E i \in M : M = {i}) \/ (\E i, j \in M : i # j)
  OBVIOUS
<1> QED BY <1>2, <1>3, <1>4, <1>5, <1>6

LEMMA AttributionTypes ==
    ASSUME NEW s \in Seq(Event), NEW p, NEW d
    PROVE  /\ Reason(s, p, d) \in Reasons
           /\ AttributedEvent(s, p, d) \in Event \cup {NoEvent}
           /\ AttributedEvent(s, p, d) # NoEvent =>
                 \E k \in DOMAIN s : s[k] = AttributedEvent(s, p, d)
<1> DEFINE M == MatchingProgram(s, p, d)
           D == MatchingDiscriminator(s, d)
<1>1. M \subseteq D /\ D \subseteq DOMAIN s /\ \A k \in DOMAIN s : s[k] \in Event
  BY DEF MatchingProgram, MatchingDiscriminator
<1> HIDE DEF M, D
<1> QED BY <1>1, ReasonCases DEF Reasons, M, D

\* An event that is named gives the reason away by who emitted it.
LEMMA EmitterTells ==
    ASSUME NEW s \in Seq(Event), NEW p, NEW d, AttributedEvent(s, p, d) # NoEvent
    PROVE  Reason(s, p, d) = IF AttributedEvent(s, p, d).emitter = p
                             THEN "VERIFIED" ELSE "PROGRAM_MISMATCH"
<1> DEFINE M == MatchingProgram(s, p, d)
           D == MatchingDiscriminator(s, d)
<1>1. M = {k \in D : s[k].emitter = p}
  BY DEF MatchingProgram
<1> HIDE DEF M, D
<1> QED BY <1>1, ReasonCases DEF M, D

\* A log that arrives whole is the log; one that was cut is a prefix of it.
LEMMA LogReplyTypes ==
    ASSUME NEW events \in Histories, NEW read \in LogReplies(events)
    PROVE  /\ read.events \in Seq(Event) /\ read.truncated \in BOOLEAN
           /\ ~read.truncated => read.events = events
           /\ \A k \in DOMAIN read.events :
                 k \in DOMAIN events /\ read.events[k] = events[k]
<1>1. events \in Seq(Event)
  BY RequestsAssumption
<1>2. CASE read = [events |-> events, truncated |-> FALSE]
  BY <1>1, <1>2
<1>3. ASSUME NEW n \in 0..Len(events),
             read = [events |-> SubSeq(events, 1, n), truncated |-> TRUE]
      PROVE  /\ read.events \in Seq(Event) /\ read.truncated = TRUE
             /\ \A k \in DOMAIN read.events :
                   k \in DOMAIN events /\ read.events[k] = events[k]
  BY <1>1, <1>3
<1> QED BY <1>2, <1>3 DEF LogReplies

-----------------------------------------------------------------------------
(* The cluster, and what the replies of a call tell of it.                 *)

LEMMA LandingIsView ==
    /\ \A v \in View \ {Absent} : v \in Landing
    /\ \A v \in Landing : v # Absent
    /\ ~ (Absent.state \in {"processed", "confirmed", "finalized"})
BY DEF View, Landing, Absent

LEMMA ClusterInv ==
    ASSUME ClusterTypeOK, ViewsFit, ClusterNext
    PROVE  /\ ClusterTypeOK' /\ ViewsFit'
           /\ latest.state # "finalized" /\ Views \subseteq Views'
<1> USE LandingIsView
<1>1. /\ latest \in View /\ seen \subseteq View /\ latest \in seen
      /\ \A v \in Views : v \in Landing /\ v.slot \in Nat
      /\ Views \subseteq seen
  <2>1. latest \in View /\ seen \subseteq View /\ latest \in seen
    BY DEF ClusterTypeOK
  <2>2. \A v \in Views : v \in Landing /\ v \in seen
    BY <2>1 DEF Views
  <2>3. \A v \in Landing : v.slot \in Nat
    BY SlotsAssumption DEF Landing
  <2> QED BY <2>1, <2>2, <2>3
<1>2. ASSUME NEW s \in Slots, NEW err \in BOOLEAN, NEW events \in Histories,
             Land(s, err, events)
      PROVE  /\ ClusterTypeOK' /\ ViewsFit'
             /\ latest.state # "finalized" /\ Views \subseteq Views'
  <2> DEFINE new == [state |-> "processed", slot |-> s, err |-> err, events |-> events]
  <2>1. new \in Landing /\ new # Absent /\ s \in Nat
    <3>1. new \in Landing
      BY DEF Landing
    <3> QED BY <3>1, SlotsAssumption
  <2>2. new.slot = s /\ new.state # "finalized"
    OBVIOUS
  <2>3. latest = Absent /\ (\A v \in Views : v.slot < s)
        /\ latest' = new /\ seen' = seen \cup {new}
    BY <1>2 DEF Land, Become, Views
  <2> HIDE DEF new
  <2>4. Views' = Views \cup {new}
    BY <2>1, <2>3 DEF Views
  <2>5. \A v \in Views : v.slot # s /\ v.slot <= s /\ v.state # "finalized"
    <3>1. \A v \in Views : v.state # "finalized"
      BY <2>3 DEF ViewsFit, Views
    <3> QED BY <1>1, <2>1, <2>3, <3>1
  <2>6. ClusterTypeOK'
    BY <1>1, <2>1, <2>3 DEF ClusterTypeOK, View
  <2>7. ViewsFit'
    BY <2>1, <2>2, <2>3, <2>4, <2>5 DEF ViewsFit
  <2> QED BY <2>3, <2>4, <2>6, <2>7
<1>3. ASSUME Advance
      PROVE  /\ ClusterTypeOK' /\ ViewsFit'
             /\ latest.state # "finalized" /\ Views \subseteq Views'
  <2> DEFINE new == [latest EXCEPT
                        !.state = IF @ = "processed" THEN "confirmed" ELSE "finalized"]
  <2>1. latest.state \in {"processed", "confirmed"} /\ latest' = new /\ seen' = seen \cup {new}
    BY <1>3 DEF Advance, Become
  <2>2. latest \in Landing /\ latest \in Views
    BY <1>1, <2>1 DEF Views
  <2>3. /\ new \in Landing /\ new # Absent
        /\ new.slot = latest.slot /\ new.err = latest.err /\ new.events = latest.events
    <3>1. new \in Landing
      BY <2>2 DEF Landing
    <3>2. new.slot = latest.slot /\ new.err = latest.err /\ new.events = latest.events
      BY <2>2 DEF Landing
    <3> QED BY <3>1, <3>2
  <2> HIDE DEF new
  <2>4. Views' = Views \cup {new}
    BY <2>1, <2>3 DEF Views
  <2>5. \A v \in Views : v.state # "finalized" /\ v.slot <= latest.slot
    BY <2>1, <2>2 DEF ViewsFit, Views
  <2>6. ClusterTypeOK'
    BY <1>1, <2>1, <2>3 DEF ClusterTypeOK, View
  <2>7. ViewsFit'
    <3>1. ASSUME NEW v \in Views', NEW w \in Views', v.slot = w.slot
          PROVE  v.err = w.err /\ v.events = w.events
      BY <2>2, <2>3, <2>4, <3>1 DEF ViewsFit
    <3>2. ASSUME NEW v \in Views'
          PROVE  v.slot <= latest'.slot /\ (v.state = "finalized" => latest' = v)
      BY <1>1, <2>1, <2>2, <2>3, <2>4, <2>5
    <3> QED BY <3>1, <3>2 DEF ViewsFit
  <2> QED BY <2>1, <2>4, <2>6, <2>7
<1>4. ASSUME DropFork
      PROVE  /\ ClusterTypeOK' /\ ViewsFit'
             /\ latest.state # "finalized" /\ Views \subseteq Views'
  <2>1. latest.state \in {"processed", "confirmed"} /\ latest' = Absent /\ seen' = seen \cup {Absent}
    BY <1>4 DEF DropFork, Become
  <2>2. Views' = Views
    BY <2>1 DEF Views
  <2>3. \A v \in Views : v.state # "finalized"
    BY <2>1 DEF ViewsFit
  <2>4. ClusterTypeOK'
    BY <1>1, <2>1 DEF ClusterTypeOK, View
  <2>5. ViewsFit'
    BY <2>1, <2>2, <2>3 DEF ViewsFit
  <2> QED BY <2>1, <2>2, <2>4, <2>5
<1> QED BY <1>2, <1>3, <1>4 DEF ClusterNext

LEMMA ReplyTypes ==
    ASSUME ClusterTypeOK, RepliesFit
    PROVE  /\ status \notin {None, Waiting} =>
                 /\ status.slot \in Slots /\ status.err \in BOOLEAN
                 /\ status.confirmationStatus \in {"processed", "confirmed", "finalized", None}
           /\ transaction \notin {None, Waiting} =>
                 /\ transaction.slot \in Slots
                 /\ transaction.meta # None =>
                       /\ transaction.meta.err \in BOOLEAN
                       /\ transaction.meta.logMessages # None =>
                             \E events \in Histories :
                                transaction.meta.logMessages \in LogReplies(events)
<1>1. \A v \in Views : v \in Landing /\ v # Absent
  BY LandingIsView DEF ClusterTypeOK, Views
<1>2. ASSUME NEW v \in Views, status \in StatusReplies(v)
      PROVE  /\ status.slot \in Slots /\ status.err \in BOOLEAN
             /\ status.confirmationStatus \in {"processed", "confirmed", "finalized", None}
  BY <1>1, <1>2 DEF StatusReplies, Landing
<1>3. ASSUME NEW v \in Views, transaction \in TransactionReplies(v), transaction # None
      PROVE  /\ transaction.slot \in Slots
             /\ transaction.meta # None =>
                   /\ transaction.meta.err \in BOOLEAN
                   /\ transaction.meta.logMessages # None =>
                         \E events \in Histories :
                            transaction.meta.logMessages \in LogReplies(events)
  BY <1>1, <1>3 DEF TransactionReplies, Landing
<1> QED BY <1>2, <1>3 DEF RepliesFit

\* Why one slot is enough: a final status and a transaction of the same slot
\* tell of the same landing, and that landing is the last.
LEMMA FinalReplies ==
    ASSUME ClusterTypeOK, ViewsFit, RepliesFit,
           status \notin {None, Waiting}, transaction # Waiting,
           status.confirmationStatus = "finalized", ~Inconsistent(status, transaction)
    PROVE  /\ latest \in Landing /\ latest.state = "finalized"
           /\ status.slot = latest.slot /\ status.err = latest.err
           /\ transaction # None =>
                 /\ transaction.slot = latest.slot
                 /\ transaction.meta # None =>
                       /\ transaction.meta.err = latest.err
                       /\ transaction.meta.logMessages # None =>
                             transaction.meta.logMessages \in LogReplies(latest.events)
<1>1. \A v \in Views : v \in Landing /\ v # Absent
  BY LandingIsView DEF ClusterTypeOK, Views
<1>2. PICK v \in Views : status \in StatusReplies(v)
  BY DEF RepliesFit
<1>3. status.slot = v.slot /\ status.err = v.err /\ status.confirmationStatus \in {v.state, None}
  BY <1>1, <1>2 DEF StatusReplies
<1>4. v.state = "finalized" /\ latest = v
  BY <1>3, NoneAssumption DEF ViewsFit
<1>5. ASSUME transaction # None
      PROVE  /\ transaction.slot = latest.slot
             /\ transaction.meta # None =>
                   /\ transaction.meta.err = latest.err
                   /\ transaction.meta.logMessages # None =>
                         transaction.meta.logMessages \in LogReplies(latest.events)
  <2>1. PICK w \in Views : transaction \in TransactionReplies(w)
    BY <1>5 DEF RepliesFit
  <2>2. transaction \in [slot: {w.slot},
                         meta: {None} \cup [err: {w.err},
                                            logMessages: {None} \cup LogReplies(w.events)]]
    BY <1>1, <1>5, <2>1 DEF TransactionReplies
  <2>3. w.slot = v.slot
    BY <1>3, <1>5, <2>2 DEF Inconsistent
  <2>4. w.err = v.err /\ w.events = v.events
    BY <2>3 DEF ViewsFit
  <2> QED BY <1>4, <2>2, <2>3, <2>4
<1> QED BY <1>1, <1>3, <1>4, <1>5
-----------------------------------------------------------------------------
(* What a call concludes from its two replies.                             *)

\* A verification: conclusive only of the final landing.
LEMMA ConclusionFits ==
    ASSUME ClusterTypeOK, ViewsFit, RepliesFit,
           status # Waiting, transaction # Waiting, NEW r \in Requests
    PROVE  LET res == Conclusion(r, status, transaction)
           IN res \in Result /\ (Conclusive(res) => AnswerFits(r, res))
<1> DEFINE st == status
           tx == transaction
           res == Conclusion(r, status, transaction)
           reason == FetchedReason(r, status, transaction)
           log == tx.meta.logMessages
<1>1. CASE reason \in {"RPC_UNAVAILABLE", "TX_NOT_FOUND"}
  <2>1. res = NoResult(reason)
    BY <1>1 DEF Conclusion
  <2> QED BY <1>1, <2>1 DEF NoResult, Result, Conclusive
<1>2. CASE reason \notin {"RPC_UNAVAILABLE", "TX_NOT_FOUND"}
  <2>1. /\ tx # None /\ ~Inconsistent(st, tx)
        /\ \/ reason = "TX_NOT_FINALIZED"
           \/ /\ st # None /\ st.confirmationStatus = "finalized"
              /\ \/ reason = "METADATA_MISSING"
                 \/ reason = "TX_FAILED" /\ tx.meta # None /\ tx.meta.err
                 \/ /\ tx.meta # None /\ ~tx.meta.err
                    /\ \/ reason \in {"LOGS_UNAVAILABLE", "CPI_EVENT_UNSUPPORTED"}
                       \/ /\ log # None
                          /\ reason = Reason(log.events, r.program, r.discriminator)
    BY <1>2 DEF FetchedReason
  <2>2. res = [verdict |-> IF reason = "TX_FAILED" THEN "rejected" ELSE Verdict(reason),
               reason  |-> reason,
               slot    |-> tx.slot,
               event   |-> IF reason \in Reasons
                           THEN AttributedEvent(log.events, r.program, r.discriminator)
                           ELSE NoEvent,
               whole   |-> reason \notin Reasons \/ ~log.truncated]
    BY <1>2 DEF Conclusion
  <2>3. tx.slot \in Slots
    BY <2>1, ReplyTypes
  <2>4. CASE reason \in {"TX_NOT_FINALIZED", "METADATA_MISSING",
                         "LOGS_UNAVAILABLE", "CPI_EVENT_UNSUPPORTED"}
    <3>1. reason \notin Reasons /\ reason # "TX_FAILED" /\ Verdict(reason) = "indeterminate"
      BY <2>4 DEF Reasons, Verdict
    <3>2. res = [verdict |-> "indeterminate", reason |-> reason, slot |-> tx.slot,
                 event |-> NoEvent, whole |-> TRUE]
      BY <2>2, <3>1
    <3> HIDE DEF reason
    <3> QED BY <2>3, <2>4, <3>2 DEF Result, Conclusive
  <2>5. CASE reason = "TX_FAILED"
    <3>1. res = [verdict |-> "rejected", reason |-> "TX_FAILED", slot |-> tx.slot,
                 event |-> NoEvent, whole |-> TRUE]
      BY <2>2, <2>5 DEF Reasons
    <3>2. res \in Result
      BY <2>3, <3>1 DEF Result
    <3>3. st # None /\ st.confirmationStatus = "finalized" /\ tx.meta # None /\ tx.meta.err
      <4>1. \A e, p, d : e \in Seq(Event) => Reason(e, p, d) # "TX_FAILED"
        BY AttributionTypes DEF Reasons
      <4>2. ASSUME tx.meta # None, log # None PROVE log.events \in Seq(Event)
        BY <2>1, <4>2, ReplyTypes, LogReplyTypes
      <4> QED BY <2>1, <2>5, <4>1, <4>2
    <3>4. latest.state = "finalized" /\ tx.slot = latest.slot /\ tx.meta.err = latest.err
      BY <2>1, <3>3, FinalReplies
    <3>5. latest.err
      BY <3>3, <3>4
    <3> QED BY <3>1, <3>2, <3>4, <3>5 DEF AnswerFits, Conclusive
  <2>6. CASE /\ st # None /\ st.confirmationStatus = "finalized"
             /\ tx.meta # None /\ ~tx.meta.err /\ log # None
             /\ reason = Reason(log.events, r.program, r.discriminator)
    <3>1. PICK events \in Histories : log \in LogReplies(events)
      BY <2>1, <2>6, ReplyTypes
    <3>2. log.events \in Seq(Event) /\ log.truncated \in BOOLEAN
      BY <3>1, LogReplyTypes
    <3>3. /\ reason \in Reasons
          /\ AttributedEvent(log.events, r.program, r.discriminator) \in Event \cup {NoEvent}
      BY <2>6, <3>2, AttributionTypes
    <3>4. Verdict(reason) \in {"verified", "rejected", "indeterminate"} /\ reason # "TX_FAILED"
      BY <3>3 DEF Verdict, Reasons
    <3>5. res = [verdict |-> Verdict(reason), reason |-> reason, slot |-> tx.slot,
                 event |-> AttributedEvent(log.events, r.program, r.discriminator),
                 whole |-> ~log.truncated]
      BY <2>2, <3>3, <3>4
    <3>6. res \in Result
      <4> HIDE DEF res, reason
      <4> QED BY <2>3, <3>2, <3>3, <3>4, <3>5 DEF Result
    <3>7. /\ latest.state = "finalized" /\ tx.slot = latest.slot
          /\ ~latest.err /\ log \in LogReplies(latest.events)
      BY <2>1, <2>6, FinalReplies
    <3>8. Conclusive(res) => AnswerFits(r, res)
      <4> HIDE DEF res, reason, log
      <4> QED BY <2>6, <3>5, <3>7 DEF AnswerFits
    <3> QED BY <3>6, <3>8
  <2> QED BY <2>1, <2>4, <2>5, <2>6
<1> QED BY <1>1, <1>2

InspectionRecord ==
    [finality: {"processed", "confirmed", "finalized", "unknown"},
     execution: {"succeeded", "failed", "unknown"},
     slot: Slots \cup {None},
     reason: {"CANDIDATES_FOUND", "NO_SUPPORTED_LOG_EVENT", "LOGS_INCOMPLETE",
              "LOGS_UNAVAILABLE", "METADATA_MISSING", "TX_FAILED",
              "TX_NOT_FOUND", "TX_NOT_FINALIZED", "RPC_UNAVAILABLE",
              "INVALID_REQUEST"},
     logsStatus: {"available", "unavailable", "incomplete"},
     candidates: Histories \cup {<<>>}]

\* An inspection: tells of a log only when it is that of the final landing.
LEMMA InspectedFits ==
    ASSUME ClusterTypeOK, ViewsFit, RepliesFit,
           status # Waiting, transaction # Waiting, ~Inconsistent(status, transaction)
    PROVE  LET i == Inspected(status, transaction)
           IN i \in InspectionRecord /\ InspectionFits(i)
<1> DEFINE st == status
           tx == transaction
           i == Inspected(status, transaction)
           finality == Finality(st)
           log == tx.meta.logMessages
           read == tx # None /\ finality = "finalized" /\ tx.meta # None
           logs == IF read /\ log # None THEN ReadLog(log)
                   ELSE [logsStatus |-> "unavailable", candidates |-> <<>>]
<1>1. i = [finality   |-> finality,
           execution  |-> IF read THEN Outcome(tx.meta.err)
                          ELSE IF st # None THEN Outcome(st.err) ELSE "unknown",
           slot       |-> IF tx # None THEN tx.slot
                          ELSE IF st # None THEN st.slot ELSE None,
           reason     |-> InspectedReason(st, tx, finality, logs.logsStatus),
           logsStatus |-> logs.logsStatus,
           candidates |-> logs.candidates]
  BY DEF Inspected
<1>2. /\ finality \in {"processed", "confirmed", "finalized", "unknown"}
      /\ finality = "finalized" => st # None /\ st.confirmationStatus = "finalized"
  BY ReplyTypes DEF Finality
<1>3. ASSUME read, log # None
      PROVE  \E events \in Histories : log \in LogReplies(events)
  BY <1>3, ReplyTypes
<1>4. ASSUME read, log # None
      PROVE  /\ log.truncated \in BOOLEAN /\ log.events \in Seq(Event)
             /\ ~log.truncated => log.events \in Histories
  BY <1>3, <1>4, LogReplyTypes
<1>5. /\ logs.logsStatus \in {"available", "unavailable", "incomplete"}
      /\ logs.candidates \in Histories \cup {<<>>}
      /\ logs.logsStatus # "available" => logs.candidates = <<>>
      /\ logs.logsStatus = "available" => logs.candidates = log.events /\ ~log.truncated
      /\ logs.logsStatus # "unavailable" => read /\ log # None
      /\ read /\ log # None => logs.logsStatus # "unavailable"
  <2>1. CASE read /\ log # None
    BY <1>4, <2>1 DEF ReadLog
  <2>2. CASE ~ (read /\ log # None)
    BY <2>2
  <2> QED BY <2>1, <2>2
<1>6. /\ tx # None => tx.slot \in Slots
      /\ st # None => st.slot \in Slots
  BY ReplyTypes
<1>7. ASSUME finality = "finalized"
      PROVE  /\ latest.state = "finalized" /\ st # None
             /\ st.slot = latest.slot /\ st.err = latest.err
             /\ tx # None =>
                   /\ tx.slot = latest.slot
                   /\ tx.meta # None =>
                         /\ tx.meta.err = latest.err
                         /\ log # None => log \in LogReplies(latest.events)
             /\ latest.events \in Histories
  BY <1>2, <1>7, FinalReplies DEF Landing
<1> HIDE DEF logs
<1>8. /\ i.finality = finality /\ i.logsStatus = logs.logsStatus
      /\ i.candidates = logs.candidates
      /\ i.reason = InspectedReason(st, tx, finality, logs.logsStatus)
      /\ i.slot = IF tx # None THEN tx.slot ELSE IF st # None THEN st.slot ELSE None
      /\ i.execution = IF read THEN Outcome(tx.meta.err)
                       ELSE IF st # None THEN Outcome(st.err) ELSE "unknown"
  BY <1>1
<1>9. i \in InspectionRecord
  <2>1. i.reason \in {"CANDIDATES_FOUND", "NO_SUPPORTED_LOG_EVENT", "LOGS_INCOMPLETE",
                      "LOGS_UNAVAILABLE", "METADATA_MISSING", "TX_FAILED",
                      "TX_NOT_FOUND", "TX_NOT_FINALIZED", "RPC_UNAVAILABLE"}
    BY <1>8 DEF InspectedReason
  <2>2. i.execution \in {"succeeded", "failed", "unknown"}
    BY <1>8 DEF Outcome
  <2>3. i.slot \in Slots \cup {None}
    BY <1>6, <1>8
  <2>4. i = [finality |-> i.finality, execution |-> i.execution, slot |-> i.slot,
             reason |-> i.reason, logsStatus |-> i.logsStatus, candidates |-> i.candidates]
    BY <1>1
  <2>5. /\ i.finality \in {"processed", "confirmed", "finalized", "unknown"}
        /\ i.logsStatus \in {"available", "unavailable", "incomplete"}
        /\ i.candidates \in Histories \cup {<<>>}
    BY <1>2, <1>5, <1>8
  <2> HIDE DEF i
  <2> QED BY <2>1, <2>2, <2>3, <2>4, <2>5, Zenon DEF InspectionRecord
<1>10. ASSUME \/ i.finality = "finalized" \/ i.logsStatus # "unavailable"
              \/ i.reason \in {"TX_FAILED", "METADATA_MISSING", "LOGS_UNAVAILABLE",
                               "CANDIDATES_FOUND", "NO_SUPPORTED_LOG_EVENT"}
       PROVE  finality = "finalized"
  BY <1>5, <1>8, <1>10 DEF InspectedReason
<1>11. ASSUME finality = "finalized"
       PROVE  /\ latest.state = "finalized"
              /\ i.slot = latest.slot /\ i.execution = Outcome(latest.err)
              /\ i.logsStatus = "available" => i.candidates = latest.events
              /\ i.logsStatus # "available" => i.candidates = <<>>
  <2>1. i.slot = latest.slot
    BY <1>7, <1>8, <1>11
  <2>2. i.execution = Outcome(latest.err)
    BY <1>7, <1>8, <1>11
  <2>3. ASSUME logs.logsStatus = "available" PROVE logs.candidates = latest.events
    <3>1. log \in LogReplies(latest.events) /\ ~log.truncated /\ logs.candidates = log.events
      BY <1>5, <1>7, <1>11, <2>3
    <3> QED BY <1>7, <1>11, <3>1, LogReplyTypes
  <2> HIDE DEF i
  <2> QED BY <1>5, <1>7, <1>8, <1>11, <2>1, <2>2, <2>3
<1>12. ASSUME i.reason \in {"CANDIDATES_FOUND", "NO_SUPPORTED_LOG_EVENT"}
       PROVE  latest.state = "finalized" /\ ~latest.err /\ i.candidates = latest.events
  <2>1. finality = "finalized"
    BY <1>10, <1>12
  <2>2. /\ read /\ log # None /\ ~tx.meta.err /\ logs.logsStatus # "incomplete"
    BY <1>8, <1>12, <2>1 DEF InspectedReason
  <2>3. logs.logsStatus = "available"
    BY <1>5, <2>2
  <2> HIDE DEF i
  <2> QED BY <1>7, <1>8, <1>11, <2>1, <2>2, <2>3
<1> QED BY <1>9, <1>10, <1>11, <1>12 DEF InspectionFits
-----------------------------------------------------------------------------
(* The inductive invariant.                                                *)

LEMMA InitInv == InspectInit => IInv
<1> SUFFICES ASSUME InspectInit PROVE IInv
  OBVIOUS
<1> USE DEF InspectInit, Init, ClusterInit, CallInit
<1>1. InspectTypeOK
  BY DEF InspectTypeOK, ClusterTypeOK, CallTypeOK, View
<1>2. Views = {}
  BY DEF Views
<1>3. ViewsFit /\ RepliesFit /\ AnswersFit /\ InspectionsFit
  BY <1>2 DEF ViewsFit, RepliesFit, AnswersFit, InspectionsFit
<1> QED BY <1>1, <1>3 DEF IInv

\* Until a landing is final nothing has been concluded, and from then on the
\* cluster is still: no conclusion is ever overtaken.
LEMMA ClusterStepInv ==
    IInv /\ ClusterNext /\ UNCHANGED <<callVars, inspections>> => IInv'
<1> SUFFICES ASSUME IInv, ClusterNext, UNCHANGED <<callVars, inspections>> PROVE IInv'
  OBVIOUS
<1>1. /\ InspectTypeOK /\ ClusterTypeOK
      /\ ViewsFit /\ RepliesFit /\ AnswersFit /\ InspectionsFit
  BY DEF IInv, InspectTypeOK
<1>2. UNCHANGED <<phase, request, status, transaction, answers, calls, inspections>>
  BY DEF callVars
<1>3. /\ ClusterTypeOK' /\ ViewsFit'
      /\ latest.state # "finalized" /\ Views \subseteq Views'
  BY <1>1, ClusterInv
<1>4. InspectTypeOK'
  BY <1>1, <1>2, <1>3 DEF InspectTypeOK, CallTypeOK
<1>5. RepliesFit'
  BY <1>1, <1>2, <1>3 DEF RepliesFit
<1>6. AnswersFit'
  BY <1>1, <1>2, <1>3 DEF AnswersFit, AnswerFits
<1>7. InspectionsFit'
  <2>1. ASSUME NEW i \in inspections PROVE InspectionFits(i)'
    <3>1. InspectionFits(i)
      BY <1>1, <2>1 DEF InspectionsFit
    <3> QED BY <1>3, <3>1 DEF InspectionFits
  <2> QED BY <1>2, <2>1 DEF InspectionsFit
<1> QED BY <1>3, <1>4, <1>5, <1>6, <1>7 DEF IInv

\* Whatever a call does to its own variables, the cluster stands still, and the
\* invariant needs only what it records.
LEMMA CallKeepsInv ==
    ASSUME IInv, UNCHANGED clusterVars,
           CallTypeOK', request' \in Requests \cup {None, Inspection}, RepliesFit',
           \A a \in answers' \ answers : AnswerFits(a.request, a.result),
           \A i \in inspections' \ inspections : i \in InspectionRecord /\ InspectionFits(i)
    PROVE  IInv'
<1>1. latest' = latest /\ seen' = seen
  BY DEF clusterVars
<1>2. InspectTypeOK'
  BY <1>1 DEF IInv, InspectTypeOK, ClusterTypeOK, InspectionRecord
<1>3. ViewsFit'
  BY <1>1 DEF IInv, ViewsFit, Views
<1>4. AnswersFit'
  BY <1>1 DEF IInv, AnswersFit, AnswerFits
<1>5. InspectionsFit'
  <2>1. ASSUME NEW i \in inspections' PROVE InspectionFits(i)
    BY <2>1 DEF IInv, InspectionsFit
  <2>2. ASSUME NEW i \in inspections', InspectionFits(i) PROVE InspectionFits(i)'
    BY <1>1, <2>2 DEF InspectionFits
  <2> QED BY <2>1, <2>2 DEF InspectionsFit
<1> QED BY <1>2, <1>3, <1>4, <1>5 DEF IInv

LEMMA ReturnInv ==
    ASSUME IInv, UNCHANGED <<clusterVars, inspections>>, calls' \in Nat,
           NEW r \in Requests, NEW res \in Result, Return(r, res),
           Conclusive(res) => AnswerFits(r, res)
    PROVE  IInv'
<1>1. answers \subseteq [request: Requests, result: Result]
  BY DEF IInv, InspectTypeOK, CallTypeOK
<1>2. /\ phase' = "idle" /\ request' = None /\ status' = None /\ transaction' = None
      /\ answers' = answers \/ (Conclusive(res) /\ answers' = answers \cup {[request |-> r, result |-> res]})
  BY DEF Return
<1>3. CallTypeOK'
  BY <1>1, <1>2 DEF CallTypeOK
<1>4. RepliesFit'
  BY <1>2 DEF RepliesFit
<1>5. \A a \in answers' \ answers : AnswerFits(a.request, a.result)
  BY <1>2
<1> QED BY <1>2, <1>3, <1>4, <1>5, CallKeepsInv

LEMMA VerificationInv ==
    IInv /\ CallNext /\ UNCHANGED inspections => IInv'
<1> SUFFICES ASSUME IInv, CallNext, UNCHANGED inspections PROVE IInv'
  OBVIOUS
<1>1. /\ InspectTypeOK /\ ClusterTypeOK /\ CallTypeOK
      /\ ViewsFit /\ RepliesFit
  BY DEF IInv, InspectTypeOK
<1>2. /\ request \in Requests \cup {None, Inspection} /\ calls \in Nat
      /\ request = None <=> phase = "idle"
      /\ answers \subseteq [request: Requests, result: Result]
  BY <1>1 DEF InspectTypeOK, CallTypeOK
<1>3. \A reason \in {"INVALID_REQUEST", "RPC_UNAVAILABLE"} :
         NoResult(reason) \in Result /\ ~Conclusive(NoResult(reason))
  BY DEF NoResult, Result, Conclusive
<1>4. ASSUME NEW r \in Requests, Call(r) PROVE IInv'
  <2>1. calls' \in Nat /\ UNCHANGED clusterVars
    BY <1>2, <1>4 DEF Call
  <2>2. CASE ValidRequest(r)
    <3>1. phase' = "genesis" /\ request' = r /\ UNCHANGED <<status, transaction, answers>>
      BY <1>4, <2>2 DEF Call
    <3>2. CallTypeOK' /\ RepliesFit'
      <4>1. r # None
        BY RequestsAssumption
      <4>2. CallTypeOK'
        BY <1>2, <2>1, <3>1, <4>1 DEF CallTypeOK
      <4>3. RepliesFit'
        BY <1>1, <2>1, <3>1 DEF RepliesFit, clusterVars, Views
      <4> QED BY <4>2, <4>3
    <3> QED BY <2>1, <3>1, <3>2, CallKeepsInv
  <2>3. CASE ~ValidRequest(r)
    <3>1. Return(r, NoResult("INVALID_REQUEST"))
      BY <1>4, <2>3 DEF Call
    <3> QED BY <1>3, <2>1, <3>1, ReturnInv
  <2> QED BY <2>2, <2>3
<1>5. ASSUME GenesisMatches PROVE IInv'
  <2>1. /\ phase = "genesis" /\ phase' = "reading" /\ status' = Waiting /\ transaction' = Waiting
        /\ UNCHANGED <<latest, seen, request, answers, calls>>
    BY <1>5 DEF GenesisMatches, clusterVars
  <2>2. CallTypeOK' /\ RepliesFit'
    BY <1>2, <2>1 DEF CallTypeOK, RepliesFit
  <2> QED BY <1>2, <2>1, <2>2, CallKeepsInv DEF clusterVars
<1>6. ASSUME StatusArrives PROVE IInv'
  <2>1. PICK v \in seen : status' \in StatusReplies(v)
    BY <1>6 DEF StatusArrives
  <2>2. UNCHANGED <<latest, seen, phase, request, transaction, answers, calls>>
    BY <1>6 DEF StatusArrives, clusterVars
  <2>3. CallTypeOK'
    BY <1>1, <2>2 DEF CallTypeOK
  <2>4. RepliesFit'
    <3>1. CASE v = Absent
      BY <1>1, <2>1, <2>2, <3>1 DEF RepliesFit, StatusReplies, Views
    <3>2. CASE v # Absent
      BY <1>1, <2>1, <2>2, <3>2 DEF RepliesFit, Views
    <3> QED BY <3>1, <3>2
  <2> QED BY <1>2, <2>2, <2>3, <2>4, CallKeepsInv DEF clusterVars
<1>7. ASSUME TransactionArrives PROVE IInv'
  <2>1. PICK v \in seen : transaction' \in TransactionReplies(v)
    BY <1>7 DEF TransactionArrives
  <2>2. UNCHANGED <<latest, seen, phase, request, status, answers, calls>>
    BY <1>7 DEF TransactionArrives, clusterVars
  <2>3. CallTypeOK'
    BY <1>1, <2>2 DEF CallTypeOK
  <2>4. RepliesFit'
    <3>1. CASE v = Absent
      BY <1>1, <2>1, <2>2, <3>1 DEF RepliesFit, TransactionReplies, Views
    <3>2. CASE v # Absent
      BY <1>1, <2>1, <2>2, <3>2 DEF RepliesFit, Views
    <3> QED BY <3>1, <3>2
  <2> QED BY <1>2, <2>2, <2>3, <2>4, CallKeepsInv DEF clusterVars
<1>8. ASSUME RequestFails PROVE IInv'
  <2>1. request \in Requests /\ Return(request, NoResult("RPC_UNAVAILABLE"))
        /\ UNCHANGED <<clusterVars, calls>>
    BY <1>8 DEF RequestFails
  <2> QED BY <1>2, <1>3, <2>1, ReturnInv
<1>9. ASSUME Conclude PROVE IInv'
  <2>1. /\ request \in Requests /\ status # Waiting /\ transaction # Waiting
        /\ Return(request, Conclusion(request, status, transaction))
        /\ UNCHANGED <<clusterVars, calls>>
    BY <1>9 DEF Conclude
  <2>2. PICK res : res = Conclusion(request, status, transaction)
    OBVIOUS
  <2>3. res \in Result /\ (Conclusive(res) => AnswerFits(request, res))
    BY <1>1, <2>1, <2>2, ConclusionFits
  <2> QED BY <1>2, <2>1, <2>2, <2>3, ReturnInv
<1> QED BY <1>4, <1>5, <1>6, <1>7, <1>8, <1>9 DEF CallNext

LEMMA InspectionInv ==
    IInv /\ (Inspect \/ InspectionFails \/ ConcludeInspection) => IInv'
<1> SUFFICES ASSUME IInv, Inspect \/ InspectionFails \/ ConcludeInspection PROVE IInv'
  OBVIOUS
<1>1. /\ ClusterTypeOK /\ CallTypeOK /\ ViewsFit /\ RepliesFit
      /\ calls \in Nat /\ answers \subseteq [request: Requests, result: Result]
  BY DEF IInv, InspectTypeOK, CallTypeOK
<1>2. ASSUME NEW i \in InspectionRecord, InspectionFits(i), ReturnInspection(i) PROVE IInv'
  <2>1. /\ inspections' = inspections \cup {i}
        /\ phase' = "idle" /\ request' = None /\ status' = None /\ transaction' = None
        /\ UNCHANGED <<clusterVars, answers, calls>>
    BY <1>2 DEF ReturnInspection
  <2>2. CallTypeOK' /\ RepliesFit'
    BY <1>1, <2>1 DEF CallTypeOK, RepliesFit
  <2>3. \A j \in inspections' \ inspections : j \in InspectionRecord /\ InspectionFits(j)
    BY <1>2, <2>1
  <2> QED BY <2>1, <2>2, <2>3, CallKeepsInv
<1>3. Unavailable \in InspectionRecord /\ InspectionFits(Unavailable)
  BY DEF Unavailable, InspectionRecord, InspectionFits
<1>4. CASE Inspect
  <2>1. calls' = calls + 1 /\ UNCHANGED <<clusterVars, status, transaction, answers>>
    BY <1>4 DEF Inspect
  <2>2. CASE phase' = "genesis" /\ request' = Inspection /\ UNCHANGED inspections
    <3>1. CallTypeOK'
      BY <1>1, <2>1, <2>2, InspectionAssumption DEF CallTypeOK
    <3>2. RepliesFit'
      BY <1>1, <2>1, <2>2 DEF RepliesFit, clusterVars, Views
    <3> QED BY <2>1, <2>2, <3>1, <3>2, CallKeepsInv
  <2>3. CASE inspections' = inspections \cup {Invalid} /\ UNCHANGED <<phase, request>>
    <3>1. Invalid \in InspectionRecord /\ InspectionFits(Invalid)
      BY DEF Invalid, Unavailable, InspectionRecord, InspectionFits
    <3>2. CallTypeOK' /\ request' \in Requests \cup {None, Inspection}
      BY <1>1, <2>1, <2>3 DEF CallTypeOK, IInv, InspectTypeOK
    <3>3. RepliesFit'
      BY <1>1, <2>1, <2>3 DEF RepliesFit, clusterVars, Views
    <3>4. \A j \in inspections' \ inspections : j \in InspectionRecord /\ InspectionFits(j)
      BY <2>3, <3>1
    <3> QED BY <2>1, <2>3, <3>2, <3>3, <3>4, CallKeepsInv
  <2> QED BY <1>4, <2>2, <2>3 DEF Inspect
<1>5. CASE InspectionFails
  BY <1>2, <1>3, <1>5 DEF InspectionFails
<1>6. CASE ConcludeInspection
  <2>1. /\ status # Waiting /\ transaction # Waiting
        /\ ReturnInspection(IF Inconsistent(status, transaction) THEN Unavailable
                            ELSE Inspected(status, transaction))
    BY <1>6 DEF ConcludeInspection
  <2>2. CASE Inconsistent(status, transaction)
    BY <1>2, <1>3, <2>1, <2>2
  <2>3. CASE ~Inconsistent(status, transaction)
    <3>1. PICK i : i = Inspected(status, transaction)
      OBVIOUS
    <3>2. i \in InspectionRecord /\ InspectionFits(i)
      BY <1>1, <2>1, <2>3, <3>1, InspectedFits
    <3> QED BY <1>2, <2>1, <2>3, <3>1, <3>2
  <2> QED BY <2>2, <2>3
<1> QED BY <1>4, <1>5, <1>6

LEMMA StepInv == IInv /\ [InspectNext]_inspectVars => IInv'
<1> SUFFICES ASSUME IInv, [InspectNext]_inspectVars PROVE IInv'
  OBVIOUS
<1>1. CASE Next /\ UNCHANGED inspections
  <2>1. CASE ClusterNext /\ UNCHANGED callVars
    BY <1>1, <2>1, ClusterStepInv
  <2>2. CASE CallNext
    BY <1>1, <2>2, VerificationInv
  <2> QED BY <1>1, <2>1, <2>2 DEF Next
<1>2. CASE Inspect \/ InspectionFails \/ ConcludeInspection
  BY <1>2, InspectionInv
<1>3. CASE UNCHANGED inspectVars
  <2>1. UNCHANGED <<latest, seen, phase, request, status, transaction, answers, calls, inspections>>
    BY <1>3 DEF inspectVars, vars, clusterVars, callVars
  <2>2. CallTypeOK' /\ request' \in Requests \cup {None, Inspection} /\ RepliesFit'
    BY <2>1 DEF IInv, InspectTypeOK, CallTypeOK, RepliesFit, Views
  <2> QED BY <2>1, <2>2, CallKeepsInv DEF clusterVars
<1> QED BY <1>1, <1>2, <1>3 DEF InspectNext

-----------------------------------------------------------------------------
(* The theorems.                                                           *)

\* Every reply tells of a landing the cluster had, every conclusive answer and
\* every inspected log of the one that is final: the invariant of verifyEvent
\* and inspectTransaction, called in any order against any provider.
THEOREM Invariant == InspectSpec => []IInv
<1> QED BY InitInv, StepInv, PTL DEF InspectSpec

\* A verdict, its slot and the event it names are those of the finalized
\* landing, whichever forks and lagging nodes answered the two reads of
\* verifyEvent.
THEOREM VerdictsAreFinal == InspectSpec => []ConclusionsAreFinal
<1>1. IInv => ConclusionsAreFinal
  <2> SUFFICES ASSUME IInv, NEW a \in answers
      PROVE  LET res == a.result
             IN /\ latest.state = "finalized"
                /\ res.slot = latest.slot
                /\ latest.err <=> res.reason = "TX_FAILED"
                /\ res.event # NoEvent =>
                      \E k \in DOMAIN latest.events : latest.events[k] = res.event
    BY DEF ConclusionsAreFinal
  <2>1. AnswerFits(a.request, a.result) /\ latest \in View
    BY DEF IInv, AnswersFit, InspectTypeOK, ClusterTypeOK
  <2>2. latest.events \in Histories
    BY <2>1, LandingIsView DEF AnswerFits, View, Landing, Absent
  <2>3. CASE latest.err
    BY <2>1, <2>3 DEF AnswerFits
  <2>4. CASE ~latest.err
    <3>1. PICK read \in LogReplies(latest.events) :
             /\ a.result.reason = Reason(read.events, a.request.program, a.request.discriminator)
             /\ a.result.event =
                   AttributedEvent(read.events, a.request.program, a.request.discriminator)
      BY <2>1, <2>4 DEF AnswerFits
    <3>2. /\ read.events \in Seq(Event)
          /\ \A k \in DOMAIN read.events :
                k \in DOMAIN latest.events /\ read.events[k] = latest.events[k]
      BY <2>2, LogReplyTypes
    <3>3. /\ a.result.reason \in Reasons
          /\ a.result.event # NoEvent =>
                \E k \in DOMAIN read.events : read.events[k] = a.result.event
      BY <3>1, <3>2, AttributionTypes
    <3>4. a.result.reason # "TX_FAILED"
      BY <3>3 DEF Reasons
    <3> QED BY <2>1, <2>4, <3>2, <3>3, <3>4 DEF AnswerFits
  <2> QED BY <2>3, <2>4
<1> QED BY <1>1, Invariant, PTL

\* The conclusive answers to one request, however far apart, agree wherever the
\* logs behind them were whole or they name the same event: a redelivery finds
\* the receipt its first delivery stored.
THEOREM AnswersAgree == InspectSpec => []ConclusionsAgree
<1>1. IInv => ConclusionsAgree
  <2> SUFFICES ASSUME IInv, NEW answer \in answers, NEW repeat \in answers,
                      answer.request = repeat.request,
                      \/ answer.result.whole /\ repeat.result.whole
                      \/ /\ answer.result.event = repeat.result.event
                         /\ answer.result.event # NoEvent
               PROVE  /\ answer.result.verdict = repeat.result.verdict
                      /\ answer.result.reason = repeat.result.reason
                      /\ answer.result.slot = repeat.result.slot
                      /\ answer.result.event = repeat.result.event
    BY DEF ConclusionsAgree
  <2> DEFINE a == answer.result
             b == repeat.result
             r == answer.request
  <2>1. AnswerFits(r, a) /\ AnswerFits(r, b)
    BY DEF IInv, AnswersFit
  <2>2. latest.events \in Histories /\ a.slot = b.slot
    <3>1. latest \in View /\ latest.state = "finalized"
      BY <2>1 DEF AnswerFits, IInv, InspectTypeOK, ClusterTypeOK
    <3>2. latest.events \in Histories
      BY <3>1, LandingIsView DEF View, Landing, Absent
    <3> QED BY <2>1, <3>2 DEF AnswerFits
  <2>3. CASE latest.err
    BY <2>1, <2>2, <2>3 DEF AnswerFits
  <2>4. CASE ~latest.err
    <3> DEFINE Follows(res, read) ==
                 /\ res.reason = Reason(read.events, r.program, r.discriminator)
                 /\ res.verdict = Verdict(res.reason)
                 /\ res.event = AttributedEvent(read.events, r.program, r.discriminator)
                 /\ res.whole = ~read.truncated
    <3>1. PICK reada \in LogReplies(latest.events), readb \in LogReplies(latest.events) :
             Follows(a, reada) /\ Follows(b, readb)
      BY <2>1, <2>4 DEF AnswerFits
    <3>2. /\ reada.events \in Seq(Event) /\ reada.truncated \in BOOLEAN
          /\ readb.events \in Seq(Event) /\ readb.truncated \in BOOLEAN
          /\ ~reada.truncated => reada.events = latest.events
          /\ ~readb.truncated => readb.events = latest.events
      BY <2>2, LogReplyTypes
    <3>3. CASE a.whole /\ b.whole
      <4>1. reada.events = readb.events
        BY <3>1, <3>2, <3>3
      <4> QED BY <2>2, <3>1, <4>1
    <3>4. CASE a.event = b.event /\ a.event # NoEvent
      <4>1. a.reason = IF a.event.emitter = r.program THEN "VERIFIED" ELSE "PROGRAM_MISMATCH"
        <5>1. a.reason = Reason(reada.events, r.program, r.discriminator)
              /\ a.event = AttributedEvent(reada.events, r.program, r.discriminator)
          BY <3>1
        <5> QED BY <3>2, <3>4, <5>1, EmitterTells
      <4>2. b.reason = IF b.event.emitter = r.program THEN "VERIFIED" ELSE "PROGRAM_MISMATCH"
        <5>1. b.reason = Reason(readb.events, r.program, r.discriminator)
              /\ b.event = AttributedEvent(readb.events, r.program, r.discriminator)
          BY <3>1
        <5> QED BY <3>2, <3>4, <5>1, EmitterTells
      <4> QED BY <2>2, <3>1, <3>4, <4>1, <4>2
    <3> QED BY <3>3, <3>4
  <2> QED BY <2>3, <2>4
<1> QED BY <1>1, Invariant, PTL

\* An inspection that calls the transaction finalized, or read its log, gives
\* the slot, the outcome and every event of the final landing: what the verify
\* page shows after inspectTransaction.
THEOREM InspectionsTellOfTheFinalLanding == InspectSpec => []InspectionsAreFinal
<1>1. IInv => InspectionsAreFinal
  BY DEF IInv, InspectionsFit, InspectionFits, InspectionsAreFinal
<1> QED BY <1>1, Invariant, PTL

\* Of a log that reaches the verification whole, exactly the candidates the
\* inspection offered are verified, and none of them is rejected.
THEOREM OffersAreKept == InspectSpec => []OfferedCandidateVerifies
<1>1. IInv => OfferedCandidateVerifies
  <2> SUFFICES ASSUME IInv, NEW i \in inspections, NEW answer \in answers,
                      i.reason \in {"CANDIDATES_FOUND", "NO_SUPPORTED_LOG_EVENT"},
                      answer.result.whole
               PROVE  answer.result.verdict = "verified"
                      <=> \E k \in DOMAIN i.candidates :
                             /\ i.candidates[k].emitter = answer.request.program
                             /\ DiscOf[i.candidates[k].data] = answer.request.discriminator
    BY DEF OfferedCandidateVerifies
  <2> DEFINE res == answer.result
             r == answer.request
             M == MatchingProgram(latest.events, r.program, r.discriminator)
  <2>1. AnswerFits(r, res)
    BY DEF IInv, AnswersFit
  <2>2. ~latest.err /\ i.candidates = latest.events
    BY DEF IInv, InspectionsFit, InspectionFits
  <2>3. latest.events \in Histories
    <3>1. latest \in View /\ latest.state = "finalized"
      BY <2>1 DEF AnswerFits, IInv, InspectTypeOK, ClusterTypeOK
    <3> QED BY <3>1, LandingIsView DEF View, Landing, Absent
  <2>4. PICK read \in LogReplies(latest.events) :
           /\ res.reason = Reason(read.events, r.program, r.discriminator)
           /\ res.verdict = Verdict(res.reason)
           /\ res.whole = ~read.truncated
    BY <2>1, <2>2 DEF AnswerFits
  <2>5. latest.events \in Seq(Event) /\ read.events = latest.events
    BY <2>3, <2>4, LogReplyTypes, RequestsAssumption
  <2>6. M # {} <=> \E k \in DOMAIN i.candidates :
                      /\ i.candidates[k].emitter = r.program
                      /\ DiscOf[i.candidates[k].data] = r.discriminator
    BY <2>2 DEF MatchingProgram, MatchingDiscriminator
  <2>7. res.verdict = "verified" <=> M # {}
    <3>1. \/ res.reason = "VERIFIED" /\ M # {}
          \/ res.reason \in {"PROGRAM_MISMATCH", "DISCRIMINATOR_MISMATCH", "EVENT_NOT_FOUND"}
             /\ M = {}
          \/ res.reason = "AMBIGUOUS_EVENT"
      BY <2>4, <2>5, ReasonCases
    <3>2. Conclusive(res)
      BY <2>1 DEF AnswerFits
    <3> HIDE DEF M, res
    <3> QED BY <2>4, <3>1, <3>2 DEF Verdict, Conclusive
  <2> QED BY <2>6, <2>7
<1> QED BY <1>1, Invariant, PTL
=============================================================================
