---------------------------- MODULE Attribution ----------------------------
(***************************************************************************)
(* What the verifier concludes from the events it located in a transaction *)
(* log: the tail of attributeAnchorLogEvent (packages/sdk/src/events/      *)
(* anchor-log.ts) and the verdict that verifyEvent derives from it.        *)
(* A payload stands for the bytes of one "Program data:" line; its         *)
(* discriminator is its first eight bytes, and its SHA-256 hash is         *)
(* identified with the payload (hashing is taken to be injective).         *)
(***************************************************************************)
EXTENDS Naturals, Sequences

CONSTANTS
    Programs,        \* program ids
    Payloads,        \* decoded event data of at least eight bytes
    Discriminators,  \* first eight bytes
    DiscOf,          \* the discriminator of each payload
    NoEvent          \* an attribution that names no event

ASSUME DiscOfAssumption == DiscOf \in [Payloads -> Discriminators]

ASSUME NoEventAssumption ==
    NoEvent \notin [position: Nat, emitter: Programs, data: Payloads]

Event == [position: Nat, emitter: Programs, data: Payloads]

Reasons == {"VERIFIED", "AMBIGUOUS_EVENT", "PROGRAM_MISMATCH",
            "DISCRIMINATOR_MISMATCH", "EVENT_NOT_FOUND"}

\* The candidates with the expected discriminator, by index, and those of
\* them the expected program emitted.
MatchingDiscriminator(located, disc) ==
    {i \in DOMAIN located : DiscOf[located[i].data] = disc}

MatchingProgram(located, program, disc) ==
    {i \in MatchingDiscriminator(located, disc) : located[i].emitter = program}

\* Mutant: the first match wins, however many there are.
MutReason(located, program, disc) ==
    LET matching == MatchingProgram(located, program, disc)
    IN CASE matching # {} -> "VERIFIED"
         [] matching = {} /\ MatchingDiscriminator(located, disc) # {} ->
              "PROGRAM_MISMATCH"
         [] OTHER -> IF \E i \in DOMAIN located : located[i].emitter = program
                       THEN "DISCRIMINATOR_MISMATCH"
                       ELSE "EVENT_NOT_FOUND"

Reason(located, program, disc) ==
    LET matching == MatchingProgram(located, program, disc)
    IN CASE \E i, j \in matching : i # j -> "AMBIGUOUS_EVENT"
         [] \E i \in matching : matching = {i} -> "VERIFIED"
         [] matching = {} /\ MatchingDiscriminator(located, disc) # {} ->
              "PROGRAM_MISMATCH"
         [] OTHER -> IF \E i \in DOMAIN located : located[i].emitter = program
                       THEN "DISCRIMINATOR_MISMATCH"
                       ELSE "EVENT_NOT_FOUND"

\* The first of a set of indices.
First(indices) == CHOOSE i \in indices : \A j \in indices : i <= j

AttributedEvent(located, program, disc) ==
    CASE Reason(located, program, disc) = "VERIFIED" ->
           located[First(MatchingProgram(located, program, disc))]
      [] Reason(located, program, disc) = "PROGRAM_MISMATCH" ->
           located[First(MatchingDiscriminator(located, disc))]
      [] OTHER -> NoEvent

\* The verdict verifyEvent attaches to an attribution.
Verdict(reason) ==
    CASE reason = "VERIFIED" -> "verified"
      [] reason \in {"PROGRAM_MISMATCH", "DISCRIMINATOR_MISMATCH"} -> "rejected"
      [] OTHER -> "indeterminate"
=============================================================================
