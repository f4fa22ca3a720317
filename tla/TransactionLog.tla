--------------------------- MODULE TransactionLog ---------------------------
(***************************************************************************)
(* The environment of the two log readers: the Solana runtime executes     *)
(* nested program invocations and writes log lines, and the lines reach    *)
(* the reader through a collector and an RPC provider that may lose some.  *)
(* External to the repository: modelled from the line shapes that          *)
(* anchor-log.ts and inspect-logs.ts recognise.  `truth' records what      *)
(* really happened, which no reader sees.                                  *)
(***************************************************************************)
EXTENDS Attribution, FiniteSets

CONSTANTS
    MaxDepth,     \* bound: height of the invocation stack
    MaxSteps,     \* bound: log lines the runtime writes, exit lines aside
    FillerLines,  \* which of "short", "undecodable", "other" are written
    Truncates,    \* whether the collector may fill up
    MaxLost       \* bound: lines lost without a truncation marker

ASSUME BoundsAssumption ==
    /\ MaxDepth \in Nat /\ MaxSteps \in Nat /\ MaxLost \in Nat
    /\ Truncates \in BOOLEAN
    /\ FillerLines \subseteq {"short", "undecodable", "other"}

VARIABLES
    stack,      \* the runtime's invocation stack, outermost first
    truth,      \* every event emitted, with its true emitter
    log,        \* the lines the reader receives
    snapshots,  \* history: the stack and the truth after each line of the log
    steps,      \* lines the runtime wrote, exit lines aside
    truncated,  \* the collector filled up and wrote "Log truncated"
    lost,       \* kinds of the lines lost without a marker, in order
    ended       \* the transaction finished

runtimeVars == <<stack, truth, log, snapshots, steps, truncated, lost, ended>>

Invoke(p, d) == [kind |-> "invoke", program |-> p, depth |-> d]
Exit(p)      == [kind |-> "exit", program |-> p]
Data(x)      == [kind |-> "data", data |-> x]
Filler(k)    == [kind |-> k]
Marker       == [kind |-> "truncated"]

Line == [kind: {"invoke"}, program: Programs, depth: Nat \ {0}]
        \cup [kind: {"exit"}, program: Programs]
        \cup [kind: {"data"}, data: Payloads]
        \cup [kind: {"short", "undecodable", "other", "truncated"}]

RuntimeTypeOK ==
    /\ stack \in Seq(Programs)
    /\ truth \in Seq(Event)
    /\ log \in Seq(Line)
    /\ snapshots \in Seq([stack: Seq(Programs), truth: Seq(Event)])
    /\ Len(snapshots) = Len(log)
    /\ steps \in Nat
    /\ truncated \in BOOLEAN
    /\ lost \in Seq({"invoke", "exit", "data", "short", "undecodable", "other"})
    /\ ended \in BOOLEAN

RuntimeInit ==
    /\ stack = <<>> /\ truth = <<>> /\ log = <<>> /\ snapshots = <<>>
    /\ steps = 0 /\ truncated = FALSE /\ lost = <<>> /\ ended = FALSE

\* A log that lost nothing.
Complete == ~truncated /\ lost = <<>>

\* The line reaches the log; or the collector is full and writes its marker
\* instead; or it is full already and the line does not fit; or the provider
\* loses the line and nothing says so.
Write(line) ==
    \/ /\ log' = Append(log, line)
       /\ snapshots' = Append(snapshots, [stack |-> stack', truth |-> truth'])
       /\ UNCHANGED <<truncated, lost>>
    \/ /\ Truncates /\ ~truncated
       /\ truncated' = TRUE
       /\ log' = Append(log, Marker)
       /\ snapshots' = Append(snapshots, [stack |-> stack', truth |-> truth'])
       /\ UNCHANGED lost
    \/ /\ truncated
       /\ UNCHANGED <<log, snapshots, truncated, lost>>
    \/ /\ ~truncated
       /\ Len(lost) < MaxLost
       /\ lost' = Append(lost, line.kind)
       /\ UNCHANGED <<log, snapshots, truncated>>

\* The transaction is still running and the bound leaves room for a line.
Step ==
    /\ ~ended
    /\ steps < MaxSteps
    /\ steps' = steps + 1

\* An instruction or a cross-program invocation starts.
Enter(p) ==
    /\ Step
    /\ Len(stack) < MaxDepth
    /\ stack' = Append(stack, p)
    /\ UNCHANGED truth
    /\ Write(Invoke(p, Len(stack) + 1))
    /\ UNCHANGED ended

\* The innermost invocation succeeds or fails.
Leave ==
    /\ ~ended
    /\ stack # <<>>
    /\ stack' = SubSeq(stack, 1, Len(stack) - 1)
    /\ UNCHANGED truth
    /\ Write(Exit(stack[Len(stack)]))
    /\ UNCHANGED <<steps, ended>>

\* The innermost program logs event data.
EmitEvent(x) ==
    /\ Step
    /\ stack # <<>>
    /\ truth' = Append(truth, [position |-> Len(truth),
                               emitter  |-> stack[Len(stack)],
                               data     |-> x])
    /\ UNCHANGED stack
    /\ Write(Data(x))
    /\ UNCHANGED ended

\* It logs data of fewer than eight bytes, data of several slices (whose
\* padded base64 does not decode as one string), or any other line.
WriteFiller(k) ==
    /\ Step
    /\ stack # <<>>
    /\ UNCHANGED <<stack, truth>>
    /\ Write(Filler(k))
    /\ UNCHANGED ended

\* Every invocation has returned.
EndTransaction ==
    /\ ~ended /\ stack = <<>> /\ steps > 0
    /\ ended' = TRUE
    /\ UNCHANGED <<stack, truth, log, snapshots, steps, truncated, lost>>

RuntimeNext ==
    \/ \E p \in Programs : Enter(p)
    \/ Leave
    \/ \E x \in Payloads : EmitEvent(x)
    \/ \E k \in FillerLines : WriteFiller(k)
    \/ EndTransaction
=============================================================================
