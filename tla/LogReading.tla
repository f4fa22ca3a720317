----------------------------- MODULE LogReading -----------------------------
(***************************************************************************)
(* Both readers over one transaction log, as the verify page runs them:    *)
(* the transaction is inspected, a candidate is chosen, and the candidate  *)
(* is verified by the attribution pass over the same log.                  *)
(***************************************************************************)
EXTENDS AnchorLog

CONSTANTS MaxLines, MaxBytes, MaxFrames, MaxPrograms, MaxCandidates, DataBytes

ASSUME LimitsAssumption ==
    {MaxLines, MaxBytes, MaxFrames, MaxPrograms, MaxCandidates, DataBytes}
        \subseteq Nat \ {0}

VARIABLES openFrames, invokedPrograms, candidates, bytes, inspectCursor, logsStatus

inspectionVars ==
    <<openFrames, invokedPrograms, candidates, bytes, inspectCursor, logsStatus>>

Inspection == INSTANCE InspectLogs
    WITH frames <- openFrames, cursor <- inspectCursor

ReadingInit == Init /\ Inspection!InspectInit

\* The inspection runs first; the attribution reads the log again from the
\* start.  Neither leaves state for the other.
ReadingNext ==
    \/ RuntimeNext /\ UNCHANGED <<scanVars, inspectionVars>>
    \/ Inspection!InspectNext /\ UNCHANGED <<runtimeVars, scanVars>>
    \/ Inspection!Inspected /\ ScanNext
       /\ UNCHANGED <<runtimeVars, inspectionVars>>

ReadingSpec == ReadingInit /\ [][ReadingNext]_<<vars, inspectionVars>>

-----------------------------------------------------------------------------
Losses(kind) == Cardinality({i \in DOMAIN lost : lost[i] = kind})

\* inspectLogs offers candidates only from a log whose frames are whole: a
\* truncation marker never goes unnoticed, nor does a lost invoke or exit line,
\* save that of a whole invocation both lines are missing; and when nothing was
\* lost the candidates are exactly the events emitted.
CandidatesAreTrustworthy ==
    logsStatus = "available" =>
        /\ ~truncated
        /\ Losses("invoke") = Losses("exit")
        /\ Complete => candidates = truth

\* A candidate offered to the user keeps its identity when it is verified:
\* both readers give the same events the same positions and emitters, so that
\* verifying a candidate's program and discriminator attributes that candidate
\* unless another one is equally entitled to it.
CandidatesVerify ==
    logsStatus = "available" /\ Scanned =>
        \A i \in DOMAIN candidates :
            LET c    == candidates[i]
                disc == DiscOf[c.data]
                same == {j \in DOMAIN candidates :
                            /\ candidates[j].emitter = c.emitter
                            /\ DiscOf[candidates[j].data] = disc}
            IN IF same = {i}
                 THEN AttributedEvent(located, c.emitter, disc) = c
                 ELSE Reason(located, c.emitter, disc) = "AMBIGUOUS_EVENT"

Invoked(p) ==
    \E i \in DOMAIN log : log[i].kind = "invoke" /\ log[i].program = p

\* The limits of the inspection are exact, however they are spread over the
\* loop: a log that lost nothing is available if and only if every line decodes
\* and it stays within every limit, and on the way none is ever exceeded.
LimitsAreExact ==
    /\ Inspection!TypeOK
    /\ Complete /\ Inspection!Inspected =>
          (logsStatus = "available" <=>
              /\ \A i \in DOMAIN log : log[i].kind # "undecodable"
              /\ Len(log) <= MaxLines
              /\ Len(log) + (DataBytes - 1) * Len(truth) <= MaxBytes
              /\ \A i \in DOMAIN snapshots : Len(snapshots[i].stack) <= MaxFrames
              /\ Cardinality({p \in Programs : Invoked(p)}) <= MaxPrograms
              /\ Len(truth) <= MaxCandidates)
=============================================================================
