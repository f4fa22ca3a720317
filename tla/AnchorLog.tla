----------------------------- MODULE AnchorLog -----------------------------
(***************************************************************************)
(* attributeAnchorLogEvent (packages/sdk/src/events/anchor-log.ts): one    *)
(* pass over the lines of a transaction log that rebuilds the invocation   *)
(* frames and locates every event with the program that emitted it.  One   *)
(* action per kind of line; the conclusion is Attribution's.               *)
(***************************************************************************)
EXTENDS TransactionLog

VARIABLES
    frames,     \* the reconstructed invocation stack
    located,    \* the located events; eventPosition is its length
    cursor      \* lines read

scanVars == <<frames, located, cursor>>
vars == <<runtimeVars, scanVars>>

\* Mutants: a position that starts below zero; the line's index as position.
MutEventPosition == Len(located) - 1
MutLinePosition == cursor
eventPosition == Len(located)

ScanInit == frames = <<>> /\ located = <<>> /\ cursor = 0

Reading(kinds) ==
    /\ ended
    /\ cursor < Len(log)
    /\ log[cursor + 1].kind \in kinds
    /\ cursor' = cursor + 1

Smaller(a, b) == IF a <= b THEN a ELSE b

\* frames.splice(depth - 1, frames.length, program)
Spliced(fs, depth, p) == Append(SubSeq(fs, 1, Smaller(depth - 1, Len(fs))), p)

\* Mutant: indexOf instead of lastIndexOf.
MutCutAt(fs, p) ==
    LET at == {i \in 1..Len(fs) : fs[i] = p}
    IN IF at = {} THEN fs
       ELSE SubSeq(fs, 1, (CHOOSE i \in at : \A j \in at : i <= j) - 1)

\* frames.splice(lastIndexOf(program)), when the program is there at all.
CutAt(fs, p) ==
    LET at == {i \in 1..Len(fs) : fs[i] = p}
    IN IF at = {} THEN fs
       ELSE SubSeq(fs, 1, (CHOOSE i \in at : \A j \in at : j <= i) - 1)

ReadInvoke ==
    /\ Reading({"invoke"})
    /\ frames' = Spliced(frames, log[cursor + 1].depth, log[cursor + 1].program)
    /\ UNCHANGED located

ReadExit ==
    /\ Reading({"exit"})
    /\ frames' = CutAt(frames, log[cursor + 1].program)
    /\ UNCHANGED located

\* Event data outside every frame is skipped.
ReadData ==
    /\ Reading({"data"})
    /\ located' = IF frames = <<>> THEN located
                  ELSE Append(located, [position |-> eventPosition,
                                        emitter  |-> frames[Len(frames)],
                                        data     |-> log[cursor + 1].data])
    /\ UNCHANGED frames

\* Short and undecodable data, every other line, and "Log truncated".
SkipLine ==
    /\ Reading({"short", "undecodable", "other", "truncated"})
    /\ UNCHANGED <<frames, located>>

ScanNext == ReadInvoke \/ ReadExit \/ ReadData \/ SkipLine

Scanned == ended /\ cursor = Len(log)

Init == RuntimeInit /\ ScanInit
Next == \/ RuntimeNext /\ UNCHANGED scanVars
        \/ ScanNext /\ UNCHANGED runtimeVars
Spec == Init /\ [][Next]_vars

-----------------------------------------------------------------------------
TypeOK ==
    /\ RuntimeTypeOK
    /\ frames \in Seq(Programs)
    /\ located \in Seq(Event)
    /\ cursor \in 0..Len(log)

\* From a log that lost nothing the scanner locates exactly the events that
\* were emitted, in order, with the positions and emitters they really had.
LocatesTruth == Complete /\ Scanned => located = truth

\* Count of the events in a history that program p emitted under d.
TrueMatches(p, d) ==
    {i \in DOMAIN truth : truth[i].emitter = p /\ DiscOf[truth[i].data] = d}

\* What was emitted decides the conclusion: an expectation is verified exactly
\* when one such event happened, ambiguous when several did, and a rejection
\* is only given when the expected program did not emit the expected event.
ConclusionIsTrue ==
    Complete /\ Scanned =>
        \A p \in Programs, d \in Discriminators :
            LET reason == Reason(located, p, d)
                event  == AttributedEvent(located, p, d)
            IN /\ Verdict(reason) = "verified" <=> Cardinality(TrueMatches(p, d)) = 1
               /\ reason = "AMBIGUOUS_EVENT" <=> Cardinality(TrueMatches(p, d)) > 1
               /\ Verdict(reason) = "rejected" => TrueMatches(p, d) = {}
               /\ event # NoEvent => \E i \in DOMAIN truth : truth[i] = event
               /\ reason = "VERIFIED" => event.emitter = p
               /\ reason = "PROGRAM_MISMATCH" => event.emitter # p

\* docs/verification-invariants.md item 7: truncated evidence produces
\* `indeterminate'.
TruncatedIsIndeterminate ==
    truncated /\ Scanned =>
        \A p \in Programs, d \in Discriminators :
            Verdict(Reason(located, p, d)) = "indeterminate"
=============================================================================
