---------------------------- MODULE InspectLogs ----------------------------
(***************************************************************************)
(* inspectLogs (packages/sdk/src/events/inspect-logs.ts): the stricter     *)
(* reader that offers event candidates for a transaction.  It withholds    *)
(* every candidate as soon as a line does not fit the invocation frames,   *)
(* data does not decode, the log says it was truncated, or a limit is      *)
(* passed; it never concludes anything about an expected event.            *)
(***************************************************************************)
EXTENDS TransactionLog

CONSTANTS
    MaxLines,       \* 2048 lines
    MaxBytes,       \* 256 KiB of log text
    MaxFrames,      \* 64 open frames
    MaxPrograms,    \* 128 distinct programs
    MaxCandidates,  \* 128 candidates
    DataBytes       \* the size of a data line; every other line counts 1

VARIABLES
    frames,           \* the open frames
    invokedPrograms,  \* every program seen in an invoke line
    candidates,       \* the located events
    bytes,            \* log text read
    cursor,           \* lines read
    logsStatus        \* "reading", then "available" or "incomplete"

inspectVars == <<frames, invokedPrograms, candidates, bytes, cursor, logsStatus>>
vars == <<runtimeVars, inspectVars>>

InspectInit ==
    /\ frames = <<>> /\ invokedPrograms = {} /\ candidates = <<>>
    /\ bytes = 0 /\ cursor = 0 /\ logsStatus = "reading"

line == log[cursor + 1]

SizeOf(l) == IF l.kind = "data" THEN DataBytes ELSE 1

\* return incomplete(): the candidates found so far are withheld.
Incomplete ==
    /\ logsStatus' = "incomplete"
    /\ candidates' = <<>>

\* Mutant: the limit is one line lower than documented.
MutTooManyLines == Len(log) >= MaxLines
TooManyLines == Len(log) > MaxLines

InspectTooLong ==
    /\ ended /\ logsStatus = "reading" /\ cursor = 0
    /\ TooManyLines
    /\ Incomplete
    /\ UNCHANGED <<frames, invokedPrograms, bytes, cursor>>

\* One turn of the loop: the line counts towards the byte limit first.
Reading(kinds) ==
    /\ ended /\ logsStatus = "reading" /\ ~TooManyLines
    /\ cursor < Len(log)
    /\ line.kind \in kinds
    /\ cursor' = cursor + 1
    /\ bytes' = bytes + SizeOf(line)

Fits == bytes + SizeOf(line) <= MaxBytes

\* A line that ends the inspection whatever the frames are.
InspectRefused ==
    /\ Reading({"invoke", "exit", "data", "short", "undecodable", "other", "truncated"})
    /\ \/ ~Fits
       \/ line.kind = "truncated"
       \/ line.kind \in {"data", "short", "undecodable"} /\ frames = <<>>
       \/ line.kind = "undecodable"
    /\ Incomplete
    /\ UNCHANGED <<frames, invokedPrograms>>

DepthFollows == line.depth = Len(frames) + 1 /\ Len(frames) < MaxFrames

InspectInvoke ==
    /\ Reading({"invoke"}) /\ Fits
    /\ IF DepthFollows
         THEN /\ frames' = Append(frames, line.program)
              /\ invokedPrograms' = invokedPrograms \cup {line.program}
              /\ IF Cardinality(invokedPrograms') > MaxPrograms
                   THEN Incomplete
                   ELSE UNCHANGED <<candidates, logsStatus>>
         ELSE Incomplete /\ UNCHANGED <<frames, invokedPrograms>>

\* frames.pop() must be the program that exits.
InspectExit ==
    /\ Reading({"exit"}) /\ Fits
    /\ frames' = IF frames = <<>> THEN frames
                 ELSE SubSeq(frames, 1, Len(frames) - 1)
    /\ IF frames # <<>> /\ frames[Len(frames)] = line.program
         THEN UNCHANGED <<candidates, logsStatus>>
         ELSE Incomplete
    /\ UNCHANGED invokedPrograms

InspectData ==
    /\ Reading({"data"}) /\ Fits /\ frames # <<>>
    /\ IF Len(candidates) >= MaxCandidates
         THEN Incomplete
         ELSE /\ candidates' = Append(candidates,
                                      [position |-> Len(candidates),
                                       emitter  |-> frames[Len(frames)],
                                       data     |-> line.data])
              /\ UNCHANGED logsStatus
    /\ UNCHANGED <<frames, invokedPrograms>>

\* Short data inside a frame, and lines of no interest.
InspectSkip ==
    /\ Reading({"short", "other"}) /\ Fits
    /\ line.kind = "short" => frames # <<>>
    /\ UNCHANGED <<frames, invokedPrograms, candidates, logsStatus>>

\* Mutant: frames still open at the end of the log are accepted.
MutInspectEnd ==
    /\ ended /\ logsStatus = "reading" /\ ~TooManyLines
    /\ cursor = Len(log)
    /\ logsStatus' = "available"
    /\ UNCHANGED <<frames, invokedPrograms, candidates, bytes, cursor>>

\* The end of the log: every frame must have been closed.
InspectEnd ==
    /\ ended /\ logsStatus = "reading" /\ ~TooManyLines
    /\ cursor = Len(log)
    /\ IF frames = <<>>
         THEN logsStatus' = "available" /\ UNCHANGED candidates
         ELSE Incomplete
    /\ UNCHANGED <<frames, invokedPrograms, bytes, cursor>>

InspectNext ==
    \/ InspectTooLong \/ InspectRefused \/ InspectInvoke \/ InspectExit
    \/ InspectData \/ InspectSkip \/ InspectEnd

Inspected == logsStatus # "reading"

Init == RuntimeInit /\ InspectInit
Next == \/ RuntimeNext /\ UNCHANGED inspectVars
        \/ InspectNext /\ UNCHANGED runtimeVars
Spec == Init /\ [][Next]_vars

-----------------------------------------------------------------------------
TypeOK ==
    /\ RuntimeTypeOK
    /\ frames \in Seq(Programs) /\ Len(frames) <= MaxFrames
    /\ invokedPrograms \subseteq Programs
    /\ candidates \in Seq(Event) /\ Len(candidates) <= MaxCandidates
    /\ bytes \in Nat
    /\ cursor \in 0..Len(log)
    /\ logsStatus \in {"reading", "available", "incomplete"}
=============================================================================
