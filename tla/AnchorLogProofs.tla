-------------------------- MODULE AnchorLogProofs --------------------------
(***************************************************************************)
(* The attribution scanner is right about every log that lost nothing, for *)
(* every set of programs and payloads and every nesting of invocations.    *)
(* Argument: each line of such a log describes one step of the runtime, so *)
(* that the snapshots before and after a line are related by the line; the *)
(* scanner's frames and located events equal the snapshot at its cursor,   *)
(* and reading a line moves it to the next snapshot.                       *)
(* The second part is about both readers over one log.  As long as the     *)
(* inspection has refused nothing, its frames and candidates follow the    *)
(* lines alone, whatever was lost before them; the attribution pass reads  *)
(* the same lines, so that what the one offers the other finds.            *)
(***************************************************************************)
EXTENDS LogReading, SequenceTheorems, FiniteSetTheorems, WellFoundedInduction, TLAPS

\* The stack and the truth after the first i lines.
At(i) == IF i = 0 THEN [stack |-> <<>>, truth |-> <<>>] ELSE snapshots[i]

\* What a line says about the snapshots around it.
LineFits(l, before, after) ==
    /\ l.kind = "invoke" =>
          /\ l.depth = Len(before.stack) + 1
          /\ after = [stack |-> Append(before.stack, l.program),
                      truth |-> before.truth]
    /\ l.kind = "exit" =>
          /\ before.stack # <<>> /\ l.program = before.stack[Len(before.stack)]
          /\ after = [stack |-> SubSeq(before.stack, 1, Len(before.stack) - 1),
                      truth |-> before.truth]
    /\ l.kind = "data" =>
          /\ before.stack # <<>>
          /\ after = [stack |-> before.stack,
                      truth |-> Append(before.truth,
                                  [position |-> Len(before.truth),
                                   emitter  |-> before.stack[Len(before.stack)],
                                   data     |-> l.data])]
    /\ l.kind \notin {"invoke", "exit", "data"} => after = before
    /\ l.kind = "short" => before.stack # <<>>

LinesFit == \A i \in 1..Len(log) : LineFits(log[i], At(i - 1), At(i))

NowFits == At(Len(log)) = [stack |-> stack, truth |-> truth]

ScanFits == frames = At(cursor).stack /\ located = At(cursor).truth

IInv == TypeOK /\ (Complete => LinesFit /\ NowFits /\ ScanFits)

-----------------------------------------------------------------------------
(* Lemmas about the operators of the scanner.                              *)

LEMMA LastExists ==
    ASSUME NEW n \in Nat, NEW S \in SUBSET (1..n), S # {}
    PROVE  \E i \in S : \A j \in S : j <= i
<1> DEFINE T == {n - i : i \in S}
           R == OpToRel(<, Nat)
<1>1. T \subseteq Nat
  <2>1. \A i \in S : n - i \in Nat
    OBVIOUS
  <2> QED BY <2>1
<1>2. T # {}
  OBVIOUS
<1>3. PICK x \in T : \A y \in T : ~ (<<y, x>> \in R)
  <2> HIDE DEF T
  <2> QED BY <1>1, <1>2, NatLessThanWellFounded, WFMin
<1>4. ASSUME NEW y \in T PROVE ~ (y < x)
  <2>1. x \in Nat /\ y \in Nat
    BY <1>1
  <2>2. <<y, x>> \notin {ss \in Nat \X Nat : ss[1] < ss[2]}
    BY <1>3 DEF OpToRel
  <2> HIDE DEF T
  <2> QED BY <2>1, <2>2
<1>5. PICK i \in S : x = n - i
  OBVIOUS
<1>6. ASSUME NEW j \in S PROVE j <= i
  <2>1. ~ (n - j < x)
    BY <1>4
  <2> QED BY <1>5, <2>1
<1> QED BY <1>6

\* An exit line cuts the frames to a prefix of them; when the program that
\* exits is the innermost frame, it cuts exactly that frame.
LEMMA CutAtType ==
    ASSUME NEW fs \in Seq(Programs), NEW p \in Programs
    PROVE  CutAt(fs, p) \in Seq(Programs)
<1> DEFINE at == {i \in 1..Len(fs) : fs[i] = p}
           last == CHOOSE i \in at : \A j \in at : j <= i
<1>1. CASE at = {}
  BY <1>1 DEF CutAt
<1>2. CASE at # {}
  <2>1. Len(fs) \in Nat /\ at \in SUBSET (1..Len(fs))
    OBVIOUS
  <2>2. \E i \in at : \A j \in at : j <= i
    <3> HIDE DEF at
    <3> QED BY <1>2, <2>1, LastExists
  <2>3. last \in 1..Len(fs)
    <3>1. last \in at
      <4> HIDE DEF at
      <4> QED BY <2>2
    <3> QED BY <3>1
  <2>4. SubSeq(fs, 1, last - 1) \in Seq(Programs)
    <3> HIDE DEF last
    <3> QED BY <2>3
  <2> QED BY <1>2, <2>4 DEF CutAt
<1> QED BY <1>1, <1>2

LEMMA CutAtInnermost ==
    ASSUME NEW fs \in Seq(Programs), fs # <<>>
    PROVE  CutAt(fs, fs[Len(fs)]) = SubSeq(fs, 1, Len(fs) - 1)
<1> DEFINE at == {i \in 1..Len(fs) : fs[i] = fs[Len(fs)]}
           last == CHOOSE i \in at : \A j \in at : j <= i
<1>1. Len(fs) \in at /\ \A j \in at : j \in Int /\ j <= Len(fs)
  OBVIOUS
<1>2. last = Len(fs)
  <2>1. last \in at /\ \A j \in at : j <= last
    <3> HIDE DEF at
    <3> QED BY <1>1
  <2> HIDE DEF last
  <2> QED BY <1>1, <2>1
<1> QED BY <1>1, <1>2 DEF CutAt

LEMMA SplicedType ==
    ASSUME NEW fs \in Seq(Programs), NEW p \in Programs, NEW d \in Nat \ {0}
    PROVE  Spliced(fs, d, p) \in Seq(Programs)
<1>1. Smaller(d - 1, Len(fs)) \in 0..Len(fs)
  BY DEF Smaller
<1>2. SubSeq(fs, 1, Smaller(d - 1, Len(fs))) \in Seq(Programs)
  BY <1>1
<1> QED BY <1>2 DEF Spliced

\* An invoke line one deeper than the frames only adds a frame.
LEMMA SplicedDeeper ==
    ASSUME NEW fs \in Seq(Programs), NEW p \in Programs
    PROVE  Spliced(fs, Len(fs) + 1, p) = Append(fs, p)
<1>1. Smaller(Len(fs) + 1 - 1, Len(fs)) = Len(fs)
  BY DEF Smaller
<1>2. SubSeq(fs, 1, Len(fs)) = fs
  BY SubSeqFull
<1> QED BY <1>1, <1>2 DEF Spliced

-----------------------------------------------------------------------------
(* The inductive invariant.                                                *)

Now == [stack |-> stack, truth |-> truth]

LineKinds == {"invoke", "exit", "data", "short", "undecodable", "other"}

\* Every way a line can reach the log keeps the types; a log that is still
\* complete took the line in, and the line describes the step that wrote it.
LEMMA WriteTypes ==
    ASSUME TypeOK, NEW line \in Line, line.kind \in LineKinds, Write(line),
           stack' \in Seq(Programs), truth' \in Seq(Event),
           steps' \in Nat, ended' \in BOOLEAN, UNCHANGED scanVars
    PROVE  TypeOK'
<1> DEFINE Snapshot == [stack: Seq(Programs), truth: Seq(Event)]
           s == [stack |-> stack', truth |-> truth']
<1>1. s \in Snapshot
  OBVIOUS
<1>2. Marker \in Line
  BY DEF Marker, Line
<1> HIDE DEF s, Snapshot
<1>3. /\ log \in Seq(Line) /\ snapshots \in Seq(Snapshot) /\ Len(snapshots) = Len(log)
      /\ frames \in Seq(Programs) /\ located \in Seq(Event) /\ cursor \in 0..Len(log)
      /\ truncated \in BOOLEAN
      /\ lost \in Seq(LineKinds)
  BY DEF TypeOK, RuntimeTypeOK, Snapshot, LineKinds
<1>4. /\ log' \in Seq(Line) /\ snapshots' \in Seq(Snapshot)
      /\ Len(snapshots') = Len(log') /\ Len(log) <= Len(log')
      /\ truncated' \in BOOLEAN /\ lost' \in Seq(LineKinds)
  <2>1. CASE log' = Append(log, line) /\ snapshots' = Append(snapshots, s)
             /\ UNCHANGED <<truncated, lost>>
    BY <1>1, <1>3, <2>1
  <2>2. CASE log' = Append(log, Marker) /\ snapshots' = Append(snapshots, s)
             /\ truncated' = TRUE /\ UNCHANGED lost
    BY <1>1, <1>2, <1>3, <2>2
  <2>3. CASE UNCHANGED <<log, snapshots, truncated, lost>>
    BY <1>3, <2>3
  <2>4. CASE lost' = Append(lost, line.kind) /\ UNCHANGED <<log, snapshots, truncated>>
    BY <1>3, <2>4
  <2> QED BY <2>1, <2>2, <2>3, <2>4 DEF Write, s
<1>5. cursor' \in 0..Len(log')
  <2>1. cursor' = cursor
    BY DEF scanVars
  <2>2. Len(log) \in Nat /\ Len(log') \in Nat
    BY <1>3, <1>4
  <2> QED BY <2>1, <2>2, <1>3, <1>4
<1>6. frames' \in Seq(Programs) /\ located' \in Seq(Event)
  BY <1>3 DEF scanVars
<1> QED BY <1>4, <1>5, <1>6 DEF TypeOK, RuntimeTypeOK, Snapshot, LineKinds

LEMMA WriteFits ==
    ASSUME TypeOK, NEW line \in Line, Write(line), UNCHANGED scanVars,
           Complete => LinesFit /\ NowFits /\ ScanFits,
           LineFits(line, Now, Now')
    PROVE  Complete' => LinesFit' /\ NowFits' /\ ScanFits'
<1> SUFFICES ASSUME Complete' PROVE LinesFit' /\ NowFits' /\ ScanFits'
  OBVIOUS
<1>0. PICK n : n = Len(log)
  OBVIOUS
<1>1. /\ log \in Seq(Line) /\ n \in Nat /\ cursor \in 0..n
      /\ Len(snapshots) = n
  BY <1>0 DEF TypeOK, RuntimeTypeOK
<1>2. \E S : snapshots \in Seq(S) /\ Now' \in S
  <2> DEFINE S == [stack: Seq(Programs), truth: Seq(Event)] \cup {Now'}
  <2>1. snapshots \in Seq([stack: Seq(Programs), truth: Seq(Event)])
    BY DEF TypeOK, RuntimeTypeOK
  <2>2. snapshots \in Seq(S)
    <3> DEFINE T == [stack: Seq(Programs), truth: Seq(Event)]
    <3>1. T \subseteq S
      OBVIOUS
    <3> HIDE DEF S, T
    <3>2. snapshots \in Seq(T)
      BY <2>1 DEF T
    <3> QED BY <3>1, <3>2
  <2> QED BY <2>2
<1>3. PICK S : snapshots \in Seq(S) /\ Now' \in S
  BY <1>2
<1>4. lost \in Seq(LineKinds)
  BY DEF TypeOK, RuntimeTypeOK, LineKinds
<1>5. /\ log' = Append(log, line)
      /\ snapshots' = Append(snapshots, Now')
      /\ UNCHANGED <<truncated, lost>>
  <2>1. ~truncated' /\ lost' = <<>>
    BY DEF Complete
  <2>2. ASSUME NEW k PROVE Append(lost, k) # <<>>
    <3>1. Len(lost) \in Nat
      BY <1>4
    <3> QED BY <1>4, <3>1
  <2> QED BY <2>1, <2>2 DEF Write, Now
<1>6. LinesFit /\ NowFits /\ ScanFits
  BY <1>5 DEF Complete
<1>7. Len(log') = n + 1 /\ log'[n + 1] = line /\ \A i \in 1..n : log'[i] = log[i]
  BY <1>0, <1>1, <1>5
<1>8. snapshots'[n + 1] = Now' /\ \A i \in 1..n : snapshots'[i] = snapshots[i]
  BY <1>1, <1>3, <1>5
<1>9. At(n + 1)' = Now' /\ \A i \in 0..n : At(i)' = At(i)
  BY <1>1, <1>8 DEF At
<1>10. NowFits'
  BY <1>7, <1>9 DEF NowFits, Now
<1>11. ScanFits'
  BY <1>1, <1>6, <1>9 DEF ScanFits, scanVars
<1>12. LinesFit'
  <2> SUFFICES ASSUME NEW i \in 1..(n + 1)
               PROVE  LineFits(log'[i], At(i - 1)', At(i)')
    BY <1>7 DEF LinesFit
  <2>1. CASE i \in 1..n
    <3>1. LineFits(log[i], At(i - 1), At(i))
      BY <1>0, <1>6, <2>1 DEF LinesFit
    <3>2. i \in 0..n /\ i - 1 \in 0..n
      BY <1>1, <2>1
    <3>3. log'[i] = log[i] /\ At(i - 1)' = At(i - 1) /\ At(i)' = At(i)
      BY <1>7, <1>9, <2>1, <3>2
    <3> QED BY <3>1, <3>3
  <2>2. CASE i = n + 1
    <3>1. At(n)' = Now
      <4>1. At(n) = Now
        BY <1>0, <1>6 DEF NowFits, Now
      <4>2. n \in 0..n
        BY <1>1
      <4> QED BY <1>9, <4>1, <4>2
    <3>2. i - 1 = n
      BY <1>1, <2>2
    <3>3. At(i - 1)' = Now /\ At(i)' = Now' /\ log'[i] = line
      BY <1>7, <1>9, <2>2, <3>1, <3>2
    <3> QED BY <3>3
  <2> QED BY <1>1, <2>1, <2>2
<1> QED BY <1>10, <1>11, <1>12

LEMMA InitInv == Init => IInv
<1> SUFFICES ASSUME Init PROVE IInv
  OBVIOUS
<1> USE DEF Init, RuntimeInit, ScanInit
<1>1. TypeOK
  <2>1. \A S : <<>> \in Seq(S)
    OBVIOUS
  <2>2. Len(snapshots) = Len(log) /\ cursor \in 0..Len(log) /\ steps \in Nat
    OBVIOUS
  <2>3. truncated \in BOOLEAN /\ ended \in BOOLEAN
    OBVIOUS
  <2> QED BY <2>1, <2>2, <2>3, Zenon DEF TypeOK, RuntimeTypeOK
<1>2. Len(log) = 0
  OBVIOUS
<1>3. LinesFit
  BY <1>2 DEF LinesFit
<1>4. NowFits
  BY <1>2 DEF NowFits, At
<1>5. ScanFits
  BY DEF ScanFits, At
<1> QED BY <1>1, <1>3, <1>4, <1>5 DEF IInv

\* The runtime keeps the invariant, whatever happens to the line it writes.
LEMMA RuntimeInv ==
    IInv /\ RuntimeNext /\ UNCHANGED scanVars => IInv'
<1> SUFFICES ASSUME IInv, RuntimeNext, UNCHANGED scanVars PROVE IInv'
  OBVIOUS
<1>1. TypeOK /\ (Complete => LinesFit /\ NowFits /\ ScanFits)
  BY DEF IInv
<1>2. /\ stack \in Seq(Programs) /\ truth \in Seq(Event)
      /\ steps \in Nat /\ ended \in BOOLEAN
  BY <1>1 DEF TypeOK, RuntimeTypeOK
<1>3. ASSUME NEW line \in Line, line.kind \in LineKinds, Write(line),
             stack' \in Seq(Programs), truth' \in Seq(Event),
             steps' \in Nat, ended' \in BOOLEAN, LineFits(line, Now, Now')
      PROVE  IInv'
  BY <1>1, <1>3, WriteTypes, WriteFits DEF IInv
<1>4. ASSUME NEW p \in Programs, Enter(p) PROVE IInv'
  <2> DEFINE line == Invoke(p, Len(stack) + 1)
  <2>1. line \in Line /\ line.kind \in LineKinds
    <3>1. Len(stack) + 1 \in Nat \ {0}
      BY <1>2
    <3> QED BY <3>1 DEF Line, Invoke, LineKinds
  <2>2. stack' = Append(stack, p) /\ truth' = truth /\ steps' = steps + 1 /\ ended' = ended
    BY <1>4 DEF Enter, Step
  <2>3. LineFits(line, Now, Now')
    BY <2>2 DEF LineFits, Now, Invoke
  <2>4. Write(line)
    BY <1>4 DEF Enter
  <2>5. stack' \in Seq(Programs) /\ truth' \in Seq(Event) /\ steps' \in Nat /\ ended' \in BOOLEAN
    BY <1>2, <2>2
  <2> HIDE DEF line
  <2> QED BY <1>3, <2>1, <2>3, <2>4, <2>5
<1>5. ASSUME Leave PROVE IInv'
  <2> DEFINE line == Exit(stack[Len(stack)])
  <2>1. line \in Line /\ line.kind \in LineKinds
    <3>1. stack[Len(stack)] \in Programs
      BY <1>2, <1>5 DEF Leave
    <3> QED BY <3>1 DEF Line, Exit, LineKinds
  <2>2. /\ stack # <<>> /\ stack' = SubSeq(stack, 1, Len(stack) - 1)
        /\ truth' = truth /\ steps' = steps /\ ended' = ended
    BY <1>5 DEF Leave
  <2>3. LineFits(line, Now, Now')
    BY <2>2 DEF LineFits, Now, Exit
  <2>4. Write(line)
    BY <1>5 DEF Leave
  <2>5. stack' \in Seq(Programs) /\ truth' \in Seq(Event) /\ steps' \in Nat /\ ended' \in BOOLEAN
    BY <1>2, <2>2
  <2> HIDE DEF line
  <2> QED BY <1>3, <2>1, <2>3, <2>4, <2>5
<1>6. ASSUME NEW x \in Payloads, EmitEvent(x) PROVE IInv'
  <2> DEFINE line  == Data(x)
             event == [position |-> Len(truth), emitter |-> stack[Len(stack)], data |-> x]
  <2>1. line \in Line /\ line.kind \in LineKinds
    BY DEF Line, Data, LineKinds
  <2>2. /\ stack # <<>> /\ stack' = stack /\ truth' = Append(truth, event)
        /\ steps' = steps + 1 /\ ended' = ended
    BY <1>6 DEF EmitEvent, Step
  <2>3. LineFits(line, Now, Now')
    BY <2>2 DEF LineFits, Now, Data
  <2>4. Write(line)
    BY <1>6 DEF EmitEvent
  <2>5. event \in Event
    <3>1. stack[Len(stack)] \in Programs /\ Len(truth) \in Nat
      BY <1>2, <2>2
    <3> QED BY <3>1 DEF Event
  <2>6. stack' \in Seq(Programs) /\ truth' \in Seq(Event) /\ steps' \in Nat /\ ended' \in BOOLEAN
    <3> HIDE DEF event
    <3> QED BY <1>2, <2>2, <2>5
  <2> HIDE DEF line
  <2> QED BY <1>3, <2>1, <2>3, <2>4, <2>6
<1>7. ASSUME NEW k \in FillerLines, WriteFiller(k) PROVE IInv'
  <2> DEFINE line == Filler(k)
  <2>1. line \in Line /\ line.kind \in LineKinds
    BY BoundsAssumption DEF Line, Filler, LineKinds
  <2>2. stack # <<>> /\ stack' = stack /\ truth' = truth /\ steps' = steps + 1 /\ ended' = ended
    BY <1>7 DEF WriteFiller, Step
  <2>3. LineFits(line, Now, Now')
    BY <2>2, BoundsAssumption DEF LineFits, Now, Filler
  <2>4. Write(line)
    BY <1>7 DEF WriteFiller
  <2>5. stack' \in Seq(Programs) /\ truth' \in Seq(Event) /\ steps' \in Nat /\ ended' \in BOOLEAN
    BY <1>2, <2>2
  <2> HIDE DEF line
  <2> QED BY <1>3, <2>1, <2>3, <2>4, <2>5
<1>8. ASSUME EndTransaction PROVE IInv'
  <2>1. UNCHANGED <<stack, truth, log, snapshots, steps, truncated, lost>> /\ ended' = TRUE
    BY <1>8 DEF EndTransaction
  <2>2. UNCHANGED <<frames, located, cursor>>
    BY DEF scanVars
  <2>3. TypeOK'
    BY <1>1, <2>1, <2>2 DEF TypeOK, RuntimeTypeOK
  <2>4. \A i : At(i)' = At(i)
    BY <2>1 DEF At
  <2>5. Complete' => LinesFit' /\ NowFits' /\ ScanFits'
    BY <1>1, <2>1, <2>2 DEF Complete, LinesFit, NowFits, ScanFits, At
  <2> QED BY <2>3, <2>5 DEF IInv
<1> QED BY <1>4, <1>5, <1>6, <1>7, <1>8 DEF RuntimeNext

\* Reading a line keeps the types, and follows what the line says.
LEMMA ScanTypes ==
    ASSUME TypeOK, ScanNext, UNCHANGED runtimeVars
    PROVE  TypeOK' /\ cursor' = cursor + 1 /\ cursor' \in 1..Len(log)
<1> DEFINE l == log[cursor + 1]
<1>1. UNCHANGED <<stack, truth, log, snapshots, steps, truncated, lost, ended>>
  BY DEF runtimeVars
<1>2. /\ log \in Seq(Line) /\ frames \in Seq(Programs) /\ located \in Seq(Event)
      /\ cursor \in 0..Len(log)
  BY DEF TypeOK, RuntimeTypeOK
<1>3. cursor' = cursor + 1 /\ cursor < Len(log)
  BY DEF ScanNext, ReadInvoke, ReadExit, ReadData, SkipLine, Reading
<1>4. l \in Line /\ cursor' \in 1..Len(log)
  <2>1. Len(log) \in Nat
    BY <1>2
  <2> QED BY <1>2, <1>3, <2>1
<1> HIDE DEF l
<1>5. frames' \in Seq(Programs) /\ located' \in Seq(Event)
  <2>1. CASE ReadInvoke
    <3>1. l.kind = "invoke" /\ located' = located /\ frames' = Spliced(frames, l.depth, l.program)
      BY <2>1 DEF ReadInvoke, Reading, l
    <3>2. l.program \in Programs /\ l.depth \in Nat \ {0}
      BY <1>4, <3>1 DEF Line
    <3> QED BY <1>2, <3>1, <3>2, SplicedType
  <2>2. CASE ReadExit
    <3>1. l.kind = "exit" /\ located' = located /\ frames' = CutAt(frames, l.program)
      BY <2>2 DEF ReadExit, Reading, l
    <3>2. l.program \in Programs
      BY <1>4, <3>1 DEF Line
    <3> QED BY <1>2, <3>1, <3>2, CutAtType
  <2>3. CASE ReadData
    <3> DEFINE event == [position |-> Len(located), emitter |-> frames[Len(frames)],
                         data |-> l.data]
    <3>1. /\ l.kind = "data" /\ frames' = frames
          /\ located' = IF frames = <<>> THEN located ELSE Append(located, event)
      BY <2>3 DEF ReadData, Reading, eventPosition, l
    <3>2. ASSUME frames # <<>> PROVE event \in Event
      <4>1. frames[Len(frames)] \in Programs /\ Len(located) \in Nat
        BY <1>2, <3>2
      <4>2. l.data \in Payloads
        BY <1>4, <3>1 DEF Line
      <4> QED BY <4>1, <4>2 DEF Event
    <3> HIDE DEF event
    <3> QED BY <1>2, <3>1, <3>2
  <2>4. CASE SkipLine
    BY <1>2, <2>4 DEF SkipLine
  <2> QED BY <2>1, <2>2, <2>3, <2>4 DEF ScanNext
<1> QED BY <1>1, <1>2, <1>3, <1>4, <1>5 DEF TypeOK, RuntimeTypeOK

LEMMA ScanFollows ==
    ASSUME TypeOK, ScanNext, NEW before, NEW after,
           LineFits(log[cursor + 1], before, after),
           frames = before.stack, located = before.truth
    PROVE  frames' = after.stack /\ located' = after.truth
<1> DEFINE l == log[cursor + 1]
<1>1. frames \in Seq(Programs) /\ log \in Seq(Line) /\ cursor \in 0..Len(log)
  BY DEF TypeOK, RuntimeTypeOK
<1>2. l \in Line
  <2>1. cursor < Len(log)
    BY DEF ScanNext, ReadInvoke, ReadExit, ReadData, SkipLine, Reading
  <2> QED BY <1>1, <2>1
<1>3. LineFits(l, before, after)
  OBVIOUS
<1> HIDE DEF l
<1>4. CASE ReadInvoke
  <2>1. /\ l.kind = "invoke" /\ located' = located
        /\ frames' = Spliced(frames, l.depth, l.program)
    BY <1>4 DEF ReadInvoke, Reading, l
  <2>2. /\ l.depth = Len(frames) + 1
        /\ after = [stack |-> Append(frames, l.program), truth |-> located]
    BY <1>3, <2>1 DEF LineFits
  <2>3. l.program \in Programs
    BY <1>2, <2>1 DEF Line
  <2> QED BY <1>1, <2>1, <2>2, <2>3, SplicedDeeper
<1>5. CASE ReadExit
  <2>1. l.kind = "exit" /\ located' = located /\ frames' = CutAt(frames, l.program)
    BY <1>5 DEF ReadExit, Reading, l
  <2>2. /\ frames # <<>> /\ l.program = frames[Len(frames)]
        /\ after = [stack |-> SubSeq(frames, 1, Len(frames) - 1), truth |-> located]
    BY <1>3, <2>1 DEF LineFits
  <2> QED BY <1>1, <2>1, <2>2, CutAtInnermost
<1>6. CASE ReadData
  <2>1. /\ l.kind = "data" /\ frames' = frames
        /\ located' = IF frames = <<>> THEN located
                      ELSE Append(located, [position |-> Len(located),
                                            emitter  |-> frames[Len(frames)],
                                            data     |-> l.data])
    BY <1>6 DEF ReadData, Reading, eventPosition, l
  <2> QED BY <1>3, <2>1 DEF LineFits
<1>7. CASE SkipLine
  <2>1. /\ l.kind \in {"short", "undecodable", "other", "truncated"}
        /\ frames' = frames /\ located' = located
    BY <1>7 DEF SkipLine, Reading, l
  <2> QED BY <1>3, <2>1 DEF LineFits
<1> QED BY <1>4, <1>5, <1>6, <1>7 DEF ScanNext

\* Of a log that lost nothing, it moves the scanner to the snapshot after it.
LEMMA ScanInv ==
    IInv /\ ScanNext /\ UNCHANGED runtimeVars => IInv'
<1> SUFFICES ASSUME IInv, ScanNext, UNCHANGED runtimeVars PROVE IInv'
  OBVIOUS
<1>1. TypeOK /\ (Complete => LinesFit /\ NowFits /\ ScanFits)
  BY DEF IInv
<1>2. UNCHANGED <<stack, truth, log, snapshots, steps, truncated, lost, ended>>
  BY DEF runtimeVars
<1>3. TypeOK' /\ cursor' = cursor + 1 /\ cursor' \in 1..Len(log)
  BY <1>1, ScanTypes
<1>4. /\ LinesFit' <=> LinesFit
      /\ NowFits' <=> NowFits
      /\ Complete' <=> Complete
      /\ ScanFits' <=> frames' = At(cursor').stack /\ located' = At(cursor').truth
  BY <1>2 DEF LinesFit, NowFits, Complete, ScanFits, At
<1>5. ASSUME Complete PROVE frames' = At(cursor').stack /\ located' = At(cursor').truth
  <2>1. LineFits(log[cursor'], At(cursor' - 1), At(cursor'))
    BY <1>1, <1>3, <1>5 DEF LinesFit
  <2>2. cursor' - 1 = cursor
    BY <1>1, <1>3 DEF TypeOK
  <2>3. LineFits(log[cursor + 1], At(cursor), At(cursor'))
    BY <1>3, <2>1, <2>2
  <2>4. frames = At(cursor).stack /\ located = At(cursor).truth
    BY <1>1, <1>5 DEF ScanFits
  <2> HIDE DEF At
  <2> QED BY <1>1, <2>3, <2>4, ScanFollows
<1> QED BY <1>1, <1>3, <1>4, <1>5 DEF IInv

LEMMA StepInv == IInv /\ [Next]_vars => IInv'
<1> SUFFICES ASSUME IInv, [Next]_vars PROVE IInv'
  OBVIOUS
<1>1. CASE RuntimeNext /\ UNCHANGED scanVars
  BY <1>1, RuntimeInv
<1>2. CASE ScanNext /\ UNCHANGED runtimeVars
  BY <1>2, ScanInv
<1>3. CASE UNCHANGED vars
  <2>1. /\ UNCHANGED <<stack, truth, log, snapshots, steps, truncated, lost, ended>>
        /\ UNCHANGED <<frames, located, cursor>>
    BY <1>3 DEF vars, runtimeVars, scanVars
  <2>2. TypeOK' <=> TypeOK
    BY <2>1 DEF TypeOK, RuntimeTypeOK
  <2> QED BY <2>1, <2>2 DEF IInv, Complete, LinesFit, NowFits, ScanFits, At
<1> QED BY <1>1, <1>2, <1>3 DEF Next

-----------------------------------------------------------------------------
(* The theorems.                                                           *)

\* The frames and the located events always follow the runtime's stack and
\* emissions along a log that lost nothing: the invariant of the pass over
\* the lines in attributeAnchorLogEvent.
THEOREM Invariant == Spec => []IInv
<1> QED BY InitInv, StepInv, PTL DEF Spec

\* The scanner's frames are programs and its located events well formed,
\* whatever lines a truncated or lossy log hands it.
THEOREM TypeCorrect == Spec => []TypeOK
<1>1. IInv => TypeOK
  BY DEF IInv
<1> QED BY <1>1, Invariant, PTL

\* After the last line of a log that lost nothing, the located events are the
\* emitted ones: same order, same positions, same emitters, same data.
THEOREM ScannerLocatesTruth == Spec => []LocatesTruth
<1>1. IInv => LocatesTruth
  <2> SUFFICES ASSUME IInv, Complete, Scanned PROVE located = truth
    BY DEF LocatesTruth
  <2>1. NowFits /\ ScanFits /\ cursor = Len(log)
    BY DEF IInv, Scanned
  <2>2. located = At(Len(log)).truth /\ At(Len(log)).truth = truth
    BY <2>1 DEF NowFits, ScanFits
  <2> QED BY <2>2
<1> QED BY <1>1, Invariant, PTL
-----------------------------------------------------------------------------
(* What is concluded from the located events.                              *)

\* The reason is settled by how many candidates match.
LEMMA ReasonCases ==
    ASSUME NEW s, NEW p, NEW d
    PROVE  LET M == MatchingProgram(s, p, d)
               D == MatchingDiscriminator(s, d)
           IN /\ Reason(s, p, d) = "AMBIGUOUS_EVENT" <=> \E i, j \in M : i # j
              /\ Reason(s, p, d) = "VERIFIED" <=> \E i \in M : M = {i}
              /\ Reason(s, p, d) = "PROGRAM_MISMATCH" <=> M = {} /\ D # {}
              /\ Reason(s, p, d) \in Reasons
<1> DEFINE M == MatchingProgram(s, p, d)
           D == MatchingDiscriminator(s, d)
           R == Reason(s, p, d)
<1>1. \/ \E i, j \in M : i # j
      \/ \E i \in M : M = {i}
      \/ M = {}
  OBVIOUS
<1>2. CASE \E i, j \in M : i # j
  <2>1. R = "AMBIGUOUS_EVENT" /\ M # {} /\ ~ \E i \in M : M = {i}
    BY <1>2 DEF Reason
  <2> QED BY <1>2, <2>1 DEF Reasons
<1>3. CASE \E i \in M : M = {i}
  <2>1. M # {} /\ ~ \E i, j \in M : i # j
    BY <1>3
  <2>2. R = "VERIFIED"
    BY <1>3, <2>1 DEF Reason
  <2> QED BY <1>3, <2>1, <2>2 DEF Reasons
<1>4. CASE M = {}
  <2>1. /\ D # {} => R = "PROGRAM_MISMATCH"
        /\ D = {} => R \in {"DISCRIMINATOR_MISMATCH", "EVENT_NOT_FOUND"}
    BY <1>4 DEF Reason
  <2> QED BY <1>4, <2>1 DEF Reasons
<1> QED BY <1>1, <1>2, <1>3, <1>4

\* How many candidates match, as a number.
LEMMA Counting ==
    ASSUME NEW n \in Nat, NEW M \in SUBSET (1..n)
    PROVE  /\ Cardinality(M) = 1 <=> \E i \in M : M = {i}
           /\ Cardinality(M) > 1 <=> \E i, j \in M : i # j
<1>1. IsFiniteSet(M)
  <2>1. IsFiniteSet(1..n)
    BY FS_Interval
  <2> QED BY <2>1, FS_Subset
<1>2. Cardinality(M) \in Nat
  BY <1>1, FS_CardinalityType
<1>3. Cardinality(M) = 0 <=> M = {}
  BY <1>1, FS_EmptySet
<1>4. Cardinality(M) = 1 <=> \E i \in M : M = {i}
  <2>1. Cardinality(M) = 1 <=> \E i : M = {i}
    BY <1>1, FS_Singleton
  <2> QED BY <2>1
<1>5. M = {} \/ (\E i \in M : M = {i}) \/ (\E i, j \in M : i # j)
  OBVIOUS
<1>6. ~ (M = {} /\ \E i, j \in M : i # j) /\ ~ ((\E i \in M : M = {i}) /\ \E i, j \in M : i # j)
  OBVIOUS
<1>7. Cardinality(M) > 1 <=> Cardinality(M) # 0 /\ Cardinality(M) # 1
  BY <1>2
<1> QED BY <1>3, <1>4, <1>5, <1>6, <1>7, Zenon

LEMMA FirstIsIn ==
    ASSUME NEW n \in Nat, NEW M \in SUBSET (1..n), M # {}
    PROVE  First(M) \in M
<1> DEFINE T == {n + 1 - i : i \in M}
<1>1. T \in SUBSET (1..n) /\ T # {}
  <2>1. \A i \in M : n + 1 - i \in 1..n
    OBVIOUS
  <2>2. PICK i \in M : TRUE
    OBVIOUS
  <2>3. n + 1 - i \in T
    BY <2>2
  <2> QED BY <2>1, <2>3
<1>2. PICK t \in T : \A u \in T : u <= t
  <2> HIDE DEF T
  <2> QED BY <1>1, LastExists
<1>3. PICK i \in M : t = n + 1 - i
  OBVIOUS
<1>4. ASSUME NEW j \in M PROVE i <= j
  <2>1. n + 1 - j <= t
    BY <1>2
  <2> QED BY <1>3, <2>1
<1> QED BY <1>4 DEF First

\* Where the located events are the emitted ones, the conclusion says of each
\* expectation what was emitted.
LEMMA ConclusionFits ==
    ASSUME TypeOK, located = truth,
           NEW p \in Programs, NEW d \in Discriminators
    PROVE  LET reason == Reason(located, p, d)
               event  == AttributedEvent(located, p, d)
           IN /\ Verdict(reason) = "verified" <=> Cardinality(TrueMatches(p, d)) = 1
              /\ reason = "AMBIGUOUS_EVENT" <=> Cardinality(TrueMatches(p, d)) > 1
              /\ Verdict(reason) = "rejected" => TrueMatches(p, d) = {}
              /\ event # NoEvent => \E i \in DOMAIN truth : truth[i] = event
              /\ reason = "VERIFIED" => event.emitter = p
              /\ reason = "PROGRAM_MISMATCH" => event.emitter # p
<1> DEFINE M == MatchingProgram(located, p, d)
           D == MatchingDiscriminator(located, d)
           reason == Reason(located, p, d)
           event  == AttributedEvent(located, p, d)
<1>1. truth \in Seq(Event)
  BY DEF TypeOK, RuntimeTypeOK
<1>2. PICK n \in Nat : n = Len(truth) /\ DOMAIN truth = 1..n
  BY <1>1
<1>3. M = TrueMatches(p, d) /\ M \subseteq D /\ D \subseteq 1..n
  BY <1>2 DEF TrueMatches, MatchingProgram, MatchingDiscriminator
<1>4. /\ reason = "AMBIGUOUS_EVENT" <=> \E i, j \in M : i # j
      /\ reason = "VERIFIED" <=> \E i \in M : M = {i}
      /\ reason = "PROGRAM_MISMATCH" <=> M = {} /\ D # {}
      /\ reason \in Reasons
  BY ReasonCases
<1>5. /\ Cardinality(M) = 1 <=> \E i \in M : M = {i}
      /\ Cardinality(M) > 1 <=> \E i, j \in M : i # j
  <2>1. M \in SUBSET (1..n)
    BY <1>3
  <2> HIDE DEF M, D
  <2> QED BY <1>2, <2>1, Counting
<1>6. /\ Verdict(reason) = "verified" <=> reason = "VERIFIED"
      /\ Verdict(reason) = "rejected" <=>
            reason \in {"PROGRAM_MISMATCH", "DISCRIMINATOR_MISMATCH"}
  BY <1>4 DEF Verdict, Reasons
<1>7. Verdict(reason) = "rejected" => M = {}
  <2>1. ASSUME M # {} PROVE reason \in {"AMBIGUOUS_EVENT", "VERIFIED"}
    <3>1. (\E i, j \in M : i # j) \/ \E i \in M : M = {i}
      BY <2>1
    <3> QED BY <1>4, <3>1
  <2> QED BY <1>6, <2>1
<1>8. CASE reason = "VERIFIED"
  <2>1. event = located[First(M)]
    BY <1>8 DEF AttributedEvent
  <2>2. First(M) \in M
    <3>1. M # {} /\ M \subseteq 1..n
      BY <1>3, <1>4, <1>8
    <3> HIDE DEF M
    <3> QED BY <1>2, <3>1, FirstIsIn
  <2>3. event.emitter = p /\ First(M) \in DOMAIN truth /\ truth[First(M)] = event
    BY <1>2, <1>3, <2>1, <2>2 DEF MatchingProgram
  <2> QED BY <1>3, <1>4, <1>5, <1>6, <1>7, <1>8, <2>3
<1>9. CASE reason = "PROGRAM_MISMATCH"
  <2>1. event = located[First(D)]
    BY <1>9 DEF AttributedEvent
  <2>2. First(D) \in D /\ First(D) \notin M
    <3>1. D # {} /\ M = {}
      BY <1>4, <1>9
    <3> HIDE DEF M, D
    <3> QED BY <1>2, <1>3, <3>1, FirstIsIn
  <2>3. event.emitter # p /\ First(D) \in DOMAIN truth /\ truth[First(D)] = event
    BY <1>2, <1>3, <2>1, <2>2 DEF MatchingProgram
  <2> QED BY <1>3, <1>4, <1>5, <1>6, <1>7, <1>9, <2>3
<1>10. CASE reason \notin {"VERIFIED", "PROGRAM_MISMATCH"}
  <2>1. event = NoEvent
    BY <1>10 DEF AttributedEvent
  <2> QED BY <1>3, <1>4, <1>5, <1>6, <1>7, <1>10, <2>1
<1> QED BY <1>8, <1>9, <1>10

\* What was emitted decides the conclusion, for every log that lost nothing:
\* verified means exactly one such event, ambiguous several, and a rejection
\* that the expected program emitted none (the tail of attributeAnchorLogEvent
\* and what verifyEvent makes of it).
THEOREM ConclusionsAreTrue == Spec => []ConclusionIsTrue
<1>1. TypeOK /\ LocatesTruth => ConclusionIsTrue
  BY ConclusionFits, Zenon DEF LocatesTruth, ConclusionIsTrue
<1> QED BY <1>1, TypeCorrect, ScannerLocatesTruth, PTL
-----------------------------------------------------------------------------
(* Both readers over one log (LogReading).  What the inspection accepts it *)
(* accepts line by line, each as LineFits has it; the attribution pass     *)
(* follows the same lines and so ends where the inspection ended, even     *)
(* when lines were lost on the way.                                        *)

LinesOf(n, kind) == Cardinality({i \in 1..n : log[i].kind = kind})

\* What the runtime wrote while the log was not full: it arrived or was lost.
Written(kind) == LinesOf(Len(log), kind) + Losses(kind)

RuntimeFits ==
    /\ ended => stack = <<>>
    /\ truncated <=> \E i \in 1..Len(log) : log[i].kind = "truncated"
    /\ \A i \in 0..Len(log) : Len(At(i).truth) <= Len(truth)
    /\ ~truncated => Len(stack) + Written("exit") = Written("invoke")

LEMMA CountIsNat ==
    ASSUME NEW n \in Nat, NEW S \in SUBSET (1..n)
    PROVE  IsFiniteSet(S) /\ Cardinality(S) \in Nat
<1>1. IsFiniteSet(S)
  <2>1. IsFiniteSet(1..n)
    BY FS_Interval
  <2> QED BY <2>1, FS_Subset
<1> QED BY <1>1, FS_CardinalityType

\* One more element at the end adds one to a count, or none.
LEMMA CountNext ==
    ASSUME NEW n \in Nat, NEW P, NEW S \in SUBSET (1..n), NEW T \in SUBSET (1..(n + 1)),
           P \in BOOLEAN, T = S \cup (IF P THEN {n + 1} ELSE {})
    PROVE  Cardinality(T) = Cardinality(S) + (IF P THEN 1 ELSE 0)
<1>1. IsFiniteSet(S) /\ Cardinality(S) \in Nat
  BY CountIsNat
<1>2. CASE P
  <2>1. T = S \cup {n + 1} /\ n + 1 \notin S
    BY <1>2
  <2>2. Cardinality(S \cup {n + 1}) = Cardinality(S) + 1
    BY <1>1, <2>1, FS_AddElement
  <2> QED BY <1>2, <2>1, <2>2
<1>3. CASE ~P
  <2>1. T = S
    BY <1>3
  <2> QED BY <1>1, <1>3, <2>1
<1> QED BY <1>2, <1>3

LEMMA CountTypes ==
    ASSUME TypeOK, NEW n \in Nat, NEW kind
    PROVE  LinesOf(n, kind) \in Nat /\ Losses(kind) \in Nat
<1>1. LinesOf(n, kind) \in Nat
  BY CountIsNat DEF LinesOf
<1>2. Losses(kind) \in Nat
  <2>1. lost \in Seq(LineKinds)
    BY DEF TypeOK, RuntimeTypeOK, LineKinds
  <2>2. Len(lost) \in Nat /\ {i \in DOMAIN lost : lost[i] = kind} \in SUBSET (1..Len(lost))
    BY <2>1
  <2> QED BY <2>2, CountIsNat DEF Losses
<1> QED BY <1>1, <1>2

LEMMA LinesOfNext ==
    ASSUME NEW n \in Nat, NEW kind
    PROVE  LinesOf(n + 1, kind) = LinesOf(n, kind) + (IF log[n + 1].kind = kind THEN 1 ELSE 0)
<1> DEFINE S == {i \in 1..n : log[i].kind = kind}
           T == {i \in 1..(n + 1) : log[i].kind = kind}
           P == log[n + 1].kind = kind
<1>1. S \in SUBSET (1..n) /\ T \in SUBSET (1..(n + 1)) /\ P \in BOOLEAN
  OBVIOUS
<1>2. T = S \cup (IF P THEN {n + 1} ELSE {})
  OBVIOUS
<1>3. Cardinality(T) = Cardinality(S) + (IF P THEN 1 ELSE 0)
  <2> HIDE DEF S, T, P
  <2> QED BY <1>1, <1>2, CountNext
<1> QED BY <1>3 DEF LinesOf

\* Every line counts once, whether it arrives or is lost.
LEMMA WriteCounts ==
    ASSUME TypeOK, NEW line \in Line, Write(line), ~truncated', NEW kind
    PROVE  Written(kind)' = Written(kind) + (IF line.kind = kind THEN 1 ELSE 0)
<1> DEFINE n == Len(log)
           one == IF line.kind = kind THEN 1 ELSE 0
<1>1. log \in Seq(Line) /\ lost \in Seq(LineKinds) /\ n \in Nat
  BY DEF TypeOK, RuntimeTypeOK, LineKinds
<1>2. LinesOf(n, kind) \in Nat /\ Losses(kind) \in Nat
  BY <1>1, CountTypes
<1>3. CASE log' = Append(log, line) /\ UNCHANGED lost
  <2>1. Len(log') = n + 1 /\ log'[n + 1] = line /\ \A i \in 1..n : log'[i] = log[i]
    BY <1>1, <1>3
  <2> DEFINE S == {i \in 1..n : log[i].kind = kind}
             T == {i \in 1..(n + 1) : log'[i].kind = kind}
             P == line.kind = kind
  <2>2. S \in SUBSET (1..n) /\ T \in SUBSET (1..(n + 1)) /\ P \in BOOLEAN
    OBVIOUS
  <2>3. T = S \cup (IF P THEN {n + 1} ELSE {})
    BY <1>1, <2>1
  <2>4. Cardinality(T) = Cardinality(S) + (IF P THEN 1 ELSE 0)
    <3> HIDE DEF n, S, T, P
    <3> QED BY <1>1, <2>2, <2>3, CountNext
  <2>5. LinesOf(Len(log), kind)' = LinesOf(n, kind) + one
    BY <2>1, <2>4 DEF LinesOf
  <2>6. Losses(kind)' = Losses(kind)
    BY <1>3 DEF Losses
  <2> HIDE DEF S, T, P
  <2> QED BY <1>2, <2>5, <2>6 DEF Written
<1>4. CASE lost' = Append(lost, line.kind) /\ UNCHANGED log
  <2> DEFINE m == Len(lost)
             S == {i \in 1..m : lost[i] = kind}
             T == {i \in 1..(m + 1) : lost'[i] = kind}
             P == line.kind = kind
  <2>1. m \in Nat /\ DOMAIN lost = 1..m /\ DOMAIN lost' = 1..(m + 1)
        /\ lost'[m + 1] = line.kind /\ \A i \in 1..m : lost'[i] = lost[i]
    BY <1>1, <1>4
  <2>2. S \in SUBSET (1..m) /\ T \in SUBSET (1..(m + 1)) /\ P \in BOOLEAN
    OBVIOUS
  <2> HIDE DEF m
  <2>3. T = S \cup (IF P THEN {m + 1} ELSE {})
    BY <2>1
  <2>4. Cardinality(T) = Cardinality(S) + (IF P THEN 1 ELSE 0)
    <3> HIDE DEF S, T, P
    <3> QED BY <2>1, <2>2, <2>3, CountNext
  <2>5. Losses(kind)' = Losses(kind) + one
    BY <2>1, <2>4 DEF Losses
  <2>6. LinesOf(Len(log), kind)' = LinesOf(n, kind)
    BY <1>4 DEF LinesOf
  <2> HIDE DEF S, T, P
  <2> QED BY <1>2, <2>5, <2>6 DEF Written
<1>5. \/ log' = Append(log, line) /\ UNCHANGED lost
      \/ lost' = Append(lost, line.kind) /\ UNCHANGED log
  BY DEF Write
<1> QED BY <1>3, <1>4, <1>5

LEMMA AtTypes ==
    ASSUME TypeOK, NEW i \in 0..Len(log)
    PROVE  /\ At(i) \in [stack: Seq(Programs), truth: Seq(Event)]
           /\ Len(At(i).truth) \in Nat
<1> DEFINE U == [stack: Seq(Programs), truth: Seq(Event)]
<1>1. snapshots \in Seq(U) /\ Len(snapshots) = Len(log)
  BY DEF TypeOK, RuntimeTypeOK
<1>2. At(i) \in U
  <2>1. CASE i = 0
    BY <2>1 DEF At
  <2>2. CASE i \in 1..Len(snapshots)
    <3> HIDE DEF U
    <3>1. snapshots[i] \in U
      BY <1>1, <2>2
    <3>2. i # 0
      BY <2>2
    <3> QED BY <3>1, <3>2 DEF At
  <2>3. i = 0 \/ i \in 1..Len(snapshots)
    BY <1>1
  <2> QED BY <2>1, <2>2, <2>3
<1>3. Len(At(i).truth) \in Nat
  <2> HIDE DEF At
  <2> QED BY <1>2
<1> QED BY <1>2, <1>3

LEMMA WriteKeeps ==
    ASSUME TypeOK, RuntimeFits, NEW line \in Line, line.kind \in LineKinds, Write(line),
           ~ended', stack' \in Seq(Programs), truth' \in Seq(Event),
           Len(truth) <= Len(truth'),
           Len(stack') + (IF line.kind = "exit" THEN 1 ELSE 0) =
               Len(stack) + (IF line.kind = "invoke" THEN 1 ELSE 0)
    PROVE  RuntimeFits'
<1>0. PICK n : n = Len(log)
  OBVIOUS
<1>1. /\ log \in Seq(Line) /\ n \in Nat /\ Len(snapshots) = n
      /\ stack \in Seq(Programs) /\ truth \in Seq(Event)
      /\ truncated \in BOOLEAN
  BY <1>0 DEF TypeOK, RuntimeTypeOK
<1>2. Len(stack) \in Nat /\ Len(stack') \in Nat /\ Len(truth) \in Nat /\ Len(truth') \in Nat
  BY <1>1
<1>3. PICK new \in {line, Marker} :
         \/ /\ log' = Append(log, new)
            /\ snapshots' = Append(snapshots, Now')
            /\ truncated' = (truncated \/ new = Marker)
         \/ UNCHANGED <<log, snapshots, truncated>>
  <2>1. line # Marker
    BY DEF Marker, LineKinds
  <2> QED BY <1>1, <2>1 DEF Write, Now
<1>4. new \in Line /\ (new.kind = "truncated" <=> new = Marker)
  BY DEF Marker, Line, LineKinds
<1>5. truncated' <=> \E i \in 1..Len(log') : log'[i].kind = "truncated"
  <2>1. CASE log' = Append(log, new) /\ truncated' = (truncated \/ new = Marker)
    <3>1. Len(log') = n + 1 /\ log'[n + 1] = new /\ \A i \in 1..n : log'[i] = log[i]
      BY <1>0, <1>1, <1>4, <2>1
    <3>2. (\E i \in 1..(n + 1) : log'[i].kind = "truncated")
          <=> (\E i \in 1..n : log[i].kind = "truncated") \/ new = Marker
      <4>1. ASSUME NEW i \in 1..(n + 1), log'[i].kind = "truncated", new # Marker
            PROVE  i \in 1..n /\ log[i].kind = "truncated"
        <5>1. i # n + 1
          BY <1>4, <3>1, <4>1
        <5>2. i \in 1..n
          BY <1>1, <5>1
        <5> QED BY <3>1, <4>1, <5>2
      <4>2. ASSUME NEW i \in 1..n, log[i].kind = "truncated"
            PROVE  i \in 1..(n + 1) /\ log'[i].kind = "truncated"
        BY <1>1, <3>1, <4>2
      <4>3. new = Marker => n + 1 \in 1..(n + 1) /\ log'[n + 1].kind = "truncated"
        BY <1>1, <1>4, <3>1
      <4> QED BY <4>1, <4>2, <4>3
    <3> QED BY <1>0, <1>1, <2>1, <3>1, <3>2 DEF RuntimeFits
  <2>2. CASE UNCHANGED <<log, truncated>>
    BY <2>2 DEF RuntimeFits
  <2> QED BY <1>3, <2>1, <2>2
<1>6. \A i \in 0..Len(log') : Len(At(i)'.truth) <= Len(truth')
  <2>1. CASE log' = Append(log, new) /\ snapshots' = Append(snapshots, Now')
    <3>1. Len(log') = n + 1 /\ At(n + 1)' = Now' /\ \A i \in 0..n : At(i)' = At(i)
      <4>1. \E T : snapshots \in Seq(T) /\ Now' \in T
        <5> DEFINE U == [stack: Seq(Programs), truth: Seq(Event)]
                   T == U \cup {Now'}
        <5>1. snapshots \in Seq(U) /\ U \subseteq T /\ Now' \in T
          BY DEF TypeOK, RuntimeTypeOK
        <5> HIDE DEF U, T
        <5> QED BY <5>1
      <4>2. PICK T : snapshots \in Seq(T) /\ Now' \in T
        BY <4>1
      <4>3. snapshots'[n + 1] = Now' /\ \A i \in 1..n : snapshots'[i] = snapshots[i]
        BY <1>1, <2>1, <4>2
      <4>4. Len(log') = n + 1
        BY <1>0, <1>1, <1>4, <2>1
      <4>5. At(n + 1)' = snapshots'[n + 1]
        <5>1. n + 1 # 0
          BY <1>1
        <5> QED BY <5>1 DEF At
      <4>6. ASSUME NEW i \in 0..n PROVE At(i)' = At(i)
        <5>1. i = 0 \/ i \in 1..n
          BY <1>1
        <5> QED BY <4>3, <5>1 DEF At
      <4> QED BY <4>3, <4>4, <4>5, <4>6
    <3>2. \A i \in 0..n : Len(At(i).truth) <= Len(truth) /\ Len(At(i).truth) \in Nat
      <4> HIDE DEF At
      <4> QED BY <1>0, AtTypes DEF RuntimeFits
    <3>3. Len(Now'.truth) <= Len(truth')
      BY <1>2 DEF Now
    <3> HIDE DEF At
    <3> QED BY <1>1, <1>2, <3>1, <3>2, <3>3
  <2>2. CASE UNCHANGED <<log, snapshots>>
    <3>1. \A i \in 0..n : At(i)' = At(i)
      BY <2>2 DEF At
    <3>2. \A i \in 0..n : Len(At(i).truth) \in Nat /\ Len(At(i).truth) <= Len(truth)
      <4> HIDE DEF At
      <4> QED BY <1>0, AtTypes DEF RuntimeFits
    <3> HIDE DEF At
    <3> QED BY <1>0, <1>2, <2>2, <3>1, <3>2
  <2> QED BY <1>3, <2>1, <2>2
<1>7. ASSUME ~truncated' PROVE Len(stack') + Written("exit")' = Written("invoke")'
  <2>1. ~truncated
    BY <1>7 DEF Write
  <2>2. /\ Written("exit") \in Nat /\ Written("invoke") \in Nat
        /\ Len(stack) + Written("exit") = Written("invoke")
    <3>1. /\ LinesOf(n, "exit") \in Nat /\ Losses("exit") \in Nat
          /\ LinesOf(n, "invoke") \in Nat /\ Losses("invoke") \in Nat
      <4> QED BY <1>1, CountTypes
    <3> QED BY <1>0, <2>1, <3>1 DEF RuntimeFits, Written
  <2>3. /\ Written("exit")' = Written("exit") + (IF line.kind = "exit" THEN 1 ELSE 0)
        /\ Written("invoke")' = Written("invoke") + (IF line.kind = "invoke" THEN 1 ELSE 0)
    BY <1>7, WriteCounts
  <2> QED BY <1>2, <2>2, <2>3
<1> QED BY <1>5, <1>6, <1>7 DEF RuntimeFits

LEMMA FrontType ==
    ASSUME NEW S, NEW fs \in Seq(S), fs # <<>>
    PROVE  /\ SubSeq(fs, 1, Len(fs) - 1) \in Seq(S)
           /\ Len(SubSeq(fs, 1, Len(fs) - 1)) = Len(fs) - 1
<1>1. PICK n \in Nat : n = Len(fs) - 1
  OBVIOUS
<1>2. \A i \in 1..n : fs[i] \in S
  BY <1>1
<1>3. SubSeq(fs, 1, n) \in Seq(S) /\ Len(SubSeq(fs, 1, n)) = IF 1 <= n THEN n - 1 + 1 ELSE 0
  BY <1>2, SubSeqProperties
<1> QED BY <1>1, <1>3

\* Each step of the runtime keeps the bookkeeping of its log.
LEMMA RuntimeKeeps ==
    ASSUME TypeOK, RuntimeFits, RuntimeNext
    PROVE  RuntimeFits'
<1>1. /\ stack \in Seq(Programs) /\ truth \in Seq(Event) /\ log \in Seq(Line)
  BY DEF TypeOK, RuntimeTypeOK
<1>2. ASSUME NEW p \in Programs, Enter(p) PROVE RuntimeFits'
  <2> DEFINE line == Invoke(p, Len(stack) + 1)
  <2>1. line \in Line /\ line.kind = "invoke"
    <3>1. Len(stack) + 1 \in Nat \ {0}
      BY <1>1
    <3> QED BY <3>1 DEF Line, Invoke
  <2>2. stack' = Append(stack, p) /\ truth' = truth /\ ~ended' /\ Write(line)
    BY <1>2 DEF Enter, Step
  <2>3. /\ stack' \in Seq(Programs) /\ truth' \in Seq(Event) /\ Len(truth) <= Len(truth')
        /\ Len(stack') + 0 = Len(stack) + 1
    BY <1>1, <2>2
  <2> HIDE DEF line
  <2> QED BY <2>1, <2>2, <2>3, WriteKeeps DEF LineKinds
<1>3. ASSUME Leave PROVE RuntimeFits'
  <2> DEFINE line == Exit(stack[Len(stack)])
  <2>1. line \in Line /\ line.kind = "exit"
    <3>1. stack[Len(stack)] \in Programs
      BY <1>1, <1>3 DEF Leave
    <3> QED BY <3>1 DEF Line, Exit
  <2>2. /\ stack # <<>> /\ stack' = SubSeq(stack, 1, Len(stack) - 1)
        /\ truth' = truth /\ ~ended' /\ Write(line)
    BY <1>3 DEF Leave
  <2>3. /\ stack' \in Seq(Programs) /\ truth' \in Seq(Event) /\ Len(truth) <= Len(truth')
        /\ Len(stack') + 1 = Len(stack)
    <3>1. Len(stack) \in Nat \ {0}
      BY <1>1, <2>2
    <3>2. stack' \in Seq(Programs) /\ Len(stack') = Len(stack) - 1
      BY <1>1, <2>2, <3>1, FrontType
    <3>3. Len(truth) \in Nat
      BY <1>1
    <3> QED BY <1>1, <2>2, <3>1, <3>2, <3>3
  <2> HIDE DEF line
  <2>4. Len(stack') + (IF line.kind = "exit" THEN 1 ELSE 0) =
            Len(stack) + (IF line.kind = "invoke" THEN 1 ELSE 0)
    <3>1. Len(stack) \in Nat /\ Len(stack') \in Nat
      BY <1>1, <2>3
    <3> QED BY <2>1, <2>3, <3>1
  <2>5. line.kind \in LineKinds
    BY <2>1 DEF LineKinds
  <2> QED BY <2>1, <2>2, <2>3, <2>4, <2>5, WriteKeeps
<1>4. ASSUME NEW x \in Payloads, EmitEvent(x) PROVE RuntimeFits'
  <2> DEFINE event == [position |-> Len(truth), emitter |-> stack[Len(stack)], data |-> x]
  <2>1. Data(x) \in Line /\ Data(x).kind = "data"
    BY DEF Line, Data
  <2>2. stack' = stack /\ truth' = Append(truth, event) /\ ~ended' /\ Write(Data(x))
    BY <1>4 DEF EmitEvent, Step
  <2>3. event \in Event
    <3>1. stack[Len(stack)] \in Programs /\ Len(truth) \in Nat
      BY <1>1, <1>4 DEF EmitEvent
    <3> QED BY <3>1 DEF Event
  <2>4. /\ stack' \in Seq(Programs) /\ truth' \in Seq(Event) /\ Len(truth) <= Len(truth')
        /\ Len(stack') + 0 = Len(stack) + 0
    <3> HIDE DEF event
    <3> QED BY <1>1, <2>2, <2>3
  <2> QED BY <2>1, <2>2, <2>4, WriteKeeps DEF LineKinds
<1>5. ASSUME NEW k \in FillerLines, WriteFiller(k) PROVE RuntimeFits'
  <2>1. /\ Filler(k) \in Line /\ Filler(k).kind \in LineKinds
        /\ Filler(k).kind \notin {"invoke", "exit"}
    BY BoundsAssumption DEF Line, Filler, LineKinds
  <2>2. stack' = stack /\ truth' = truth /\ ~ended' /\ Write(Filler(k))
    BY <1>5 DEF WriteFiller, Step
  <2>3. /\ stack' \in Seq(Programs) /\ truth' \in Seq(Event) /\ Len(truth) <= Len(truth')
        /\ Len(stack') + 0 = Len(stack) + 0
    BY <1>1, <2>2
  <2> QED BY <2>1, <2>2, <2>3, WriteKeeps
<1>6. ASSUME EndTransaction PROVE RuntimeFits'
  BY <1>6 DEF EndTransaction, RuntimeFits, Written, LinesOf, Losses, At
<1> QED BY <1>2, <1>3, <1>4, <1>5, <1>6 DEF RuntimeNext

-----------------------------------------------------------------------------
(* The inductive invariant of both readers.                                *)

Snapshot == [stack: Seq(Programs), truth: Seq(Event)]

\* What the inspection has read so far, as a snapshot, and the attribution.
Offer == [stack |-> openFrames, truth |-> candidates]
Scan  == [stack |-> frames, truth |-> located]

Bare == [stack |-> <<>>, truth |-> <<>>]

\* The inspection begins when the log is whole, the attribution after it.
Ordered ==
    /\ ~ended => logsStatus = "reading" /\ inspectCursor = 0
    /\ logsStatus = "reading" => cursor = 0 /\ Scan = Bare

InvokedBy(n) ==
    {p \in Programs : \E i \in 1..n : log[i].kind = "invoke" /\ log[i].program = p}

\* What is true of the lines the inspection accepted.
Accepted ==
    /\ bytes = inspectCursor + (DataBytes - 1) * Len(candidates)
    /\ bytes <= MaxBytes
    /\ Len(openFrames) + LinesOf(inspectCursor, "exit") = LinesOf(inspectCursor, "invoke")
    /\ invokedPrograms = InvokedBy(inspectCursor)
    /\ Cardinality(invokedPrograms) <= MaxPrograms
    /\ \A i \in 1..inspectCursor : log[i].kind \notin {"undecodable", "truncated"}
    /\ inspectCursor > 0 => Len(log) <= MaxLines
    /\ Complete => /\ Offer = At(inspectCursor)
                   /\ \A i \in 1..inspectCursor : Len(At(i).stack) <= MaxFrames

\* The limits as the log itself has them.
WithinLimits ==
    /\ \A i \in DOMAIN log : log[i].kind # "undecodable"
    /\ Len(log) <= MaxLines
    /\ Len(log) + (DataBytes - 1) * Len(truth) <= MaxBytes
    /\ \A i \in DOMAIN snapshots : Len(snapshots[i].stack) <= MaxFrames
    /\ Cardinality({p \in Programs : Invoked(p)}) <= MaxPrograms
    /\ Len(truth) <= MaxCandidates

\* The inspection reads, has offered its candidates, or has withheld them.
Concluded ==
    /\ logsStatus # "incomplete" => Accepted
    /\ logsStatus = "available" =>
          /\ ended /\ inspectCursor = Len(log) /\ openFrames = <<>>
          /\ Len(log) <= MaxLines
    /\ logsStatus = "incomplete" =>
          ended /\ candidates = <<>> /\ (Complete => ~WithinLimits)

\* The lines accepted tell of one history of frames and events, whatever was
\* lost: the inspection is at its end and the attribution on its way along it.
Retraced ==
    logsStatus # "incomplete" =>
        \E h \in [0..inspectCursor -> Snapshot] :
            /\ h[0] = Bare
            /\ \A i \in 1..inspectCursor : LineFits(log[i], h[i - 1], h[i])
            /\ h[inspectCursor] = Offer
            /\ cursor \in 0..inspectCursor
            /\ h[cursor] = Scan

ReadingInv ==
    IInv /\ RuntimeFits /\ Inspection!TypeOK /\ Ordered /\ Concluded /\ Retraced

\* A line fits the frames, or is a reason to withhold every candidate.
Unfit(l) ==
    \/ bytes + (IF l.kind = "data" THEN DataBytes ELSE 1) > MaxBytes
    \/ l.kind \in {"truncated", "undecodable"}
    \/ l.kind \in {"data", "short"} /\ openFrames = <<>>
    \/ /\ l.kind = "invoke"
       /\ \/ l.depth # Len(openFrames) + 1
          \/ Len(openFrames) >= MaxFrames
          \/ Cardinality(invokedPrograms \cup {l.program}) > MaxPrograms
    \/ /\ l.kind = "exit"
       /\ openFrames # <<>> => openFrames[Len(openFrames)] # l.program
    \/ l.kind = "data" /\ Len(candidates) >= MaxCandidates

Refuses ==
    /\ logsStatus' = "incomplete" /\ candidates' = <<>>
    /\ \/ Len(log) > MaxLines
       \/ inspectCursor = Len(log) /\ openFrames # <<>>
       \/ inspectCursor < Len(log) /\ Unfit(log[inspectCursor + 1])

Ends ==
    /\ logsStatus' = "available" /\ inspectCursor = Len(log) /\ openFrames = <<>>
    /\ ~(Len(log) > MaxLines)
    /\ UNCHANGED <<openFrames, invokedPrograms, candidates, bytes, inspectCursor>>

Accepts(l) ==
    /\ logsStatus' = "reading" /\ inspectCursor < Len(log)
    /\ inspectCursor' = inspectCursor + 1
    /\ ~(Len(log) > MaxLines)
    /\ l.kind \notin {"undecodable", "truncated"}
    /\ bytes' = bytes + (IF l.kind = "data" THEN DataBytes ELSE 1) /\ bytes' <= MaxBytes
    /\ invokedPrograms' = invokedPrograms \cup (IF l.kind = "invoke" THEN {l.program} ELSE {})
    /\ l.kind = "invoke" => ~(Cardinality(invokedPrograms') > MaxPrograms)
    /\ LineFits(l, Offer, Offer')

LEMMA SameCount == \A S : Inspection!Cardinality(S) = Cardinality(S)
BY DEF Inspection!Cardinality, Cardinality

LEMMA InspectTypes ==
    ASSUME TypeOK, Inspection!TypeOK
    PROVE  /\ log \in Seq(Line) /\ Len(log) \in Nat
           /\ openFrames \in Seq(Programs) /\ Len(openFrames) <= MaxFrames
           /\ invokedPrograms \subseteq Programs
           /\ candidates \in Seq(Event) /\ Len(candidates) <= MaxCandidates
           /\ bytes \in Nat /\ inspectCursor \in 0..Len(log)
           /\ logsStatus \in {"reading", "available", "incomplete"}
           /\ MaxLines \in Nat /\ MaxBytes \in Nat /\ MaxFrames \in Nat
           /\ MaxPrograms \in Nat /\ MaxCandidates \in Nat /\ DataBytes \in Nat \ {0}
<1>1. log \in Seq(Line)
  BY DEF TypeOK, RuntimeTypeOK
<1>2. candidates \in Seq(Event)
  BY DEF Inspection!TypeOK, Inspection!Event, Event
<1> QED BY <1>1, <1>2, LimitsAssumption DEF Inspection!TypeOK

\* Every turn of the loop in inspectLogs refuses for one of the reasons, ends
\* with every frame closed, or takes a line in as the frames have it.
LEMMA InspectCases ==
    ASSUME TypeOK, Inspection!TypeOK, Inspection!InspectNext
    PROVE  /\ ended /\ logsStatus = "reading"
           /\ Refuses \/ Ends \/ Accepts(log[inspectCursor + 1])
<1>1. /\ log \in Seq(Line) /\ Len(log) \in Nat
      /\ openFrames \in Seq(Programs) /\ candidates \in Seq(Event)
      /\ bytes \in Nat /\ inspectCursor \in 0..Len(log)
      /\ MaxLines \in Nat /\ MaxBytes \in Nat /\ MaxFrames \in Nat
      /\ MaxCandidates \in Nat /\ DataBytes \in Nat
  BY InspectTypes
<1>2. PICK l : l = log[inspectCursor + 1]
  OBVIOUS
<1> USE <1>2 DEF Inspection!line, Inspection!SizeOf, Inspection!TooManyLines,
                 Inspection!Incomplete, Inspection!Reading, Inspection!Fits
<1>3. CASE Inspection!InspectTooLong
  BY <1>3 DEF Inspection!InspectTooLong, Refuses
<1>4. CASE Inspection!InspectRefused
  BY <1>1, <1>4 DEF Inspection!InspectRefused, Refuses, Unfit
<1>5. CASE Inspection!InspectInvoke
  <2>1. /\ ended /\ logsStatus = "reading" /\ inspectCursor < Len(log)
        /\ l.kind = "invoke" /\ ~(Len(log) > MaxLines)
        /\ bytes' = bytes + 1 /\ bytes + 1 <= MaxBytes
        /\ inspectCursor' = inspectCursor + 1
    BY <1>5 DEF Inspection!InspectInvoke
  <2>2. CASE l.depth = Len(openFrames) + 1 /\ Len(openFrames) < MaxFrames
    <3>1. /\ openFrames' = Append(openFrames, l.program)
          /\ invokedPrograms' = invokedPrograms \cup {l.program}
          /\ IF Cardinality(invokedPrograms') > MaxPrograms
               THEN logsStatus' = "incomplete" /\ candidates' = <<>>
               ELSE candidates' = candidates /\ logsStatus' = logsStatus
      <4>1. Inspection!DepthFollows
        BY <2>2 DEF Inspection!DepthFollows
      <4> QED BY <1>5, <4>1, SameCount DEF Inspection!InspectInvoke
    <3>2. CASE Cardinality(invokedPrograms') > MaxPrograms
      BY <2>1, <3>1, <3>2 DEF Refuses, Unfit
    <3>3. CASE ~(Cardinality(invokedPrograms') > MaxPrograms)
      <4>1. LineFits(l, Offer, Offer')
        BY <2>1, <2>2, <3>1, <3>3 DEF LineFits, Offer
      <4> QED BY <2>1, <3>1, <3>3, <4>1 DEF Accepts
    <3> QED BY <3>2, <3>3
  <2>3. CASE ~(l.depth = Len(openFrames) + 1 /\ Len(openFrames) < MaxFrames)
    <3>1. logsStatus' = "incomplete" /\ candidates' = <<>>
      BY <1>5, <2>3 DEF Inspection!InspectInvoke, Inspection!DepthFollows
    <3>2. l.depth # Len(openFrames) + 1 \/ Len(openFrames) >= MaxFrames
      BY <1>1, <2>3
    <3> QED BY <2>1, <3>1, <3>2 DEF Refuses, Unfit
  <2> QED BY <2>2, <2>3
<1>6. CASE Inspection!InspectExit
  <2>1. /\ ended /\ logsStatus = "reading" /\ inspectCursor < Len(log)
        /\ l.kind = "exit" /\ ~(Len(log) > MaxLines)
        /\ bytes' = bytes + 1 /\ bytes + 1 <= MaxBytes
        /\ inspectCursor' = inspectCursor + 1 /\ invokedPrograms' = invokedPrograms
    BY <1>6 DEF Inspection!InspectExit
  <2>2. CASE openFrames # <<>> /\ openFrames[Len(openFrames)] = l.program
    <3>1. /\ openFrames' = SubSeq(openFrames, 1, Len(openFrames) - 1)
          /\ candidates' = candidates /\ logsStatus' = logsStatus
      BY <1>6, <2>2 DEF Inspection!InspectExit
    <3>2. LineFits(l, Offer, Offer')
      BY <2>1, <2>2, <3>1 DEF LineFits, Offer
    <3> QED BY <2>1, <3>1, <3>2 DEF Accepts
  <2>3. CASE ~(openFrames # <<>> /\ openFrames[Len(openFrames)] = l.program)
    <3>1. logsStatus' = "incomplete" /\ candidates' = <<>>
      BY <1>6, <2>3 DEF Inspection!InspectExit
    <3> QED BY <2>1, <2>3, <3>1 DEF Refuses, Unfit
  <2> QED BY <2>2, <2>3
<1>7. CASE Inspection!InspectData
  <2>1. /\ ended /\ logsStatus = "reading" /\ inspectCursor < Len(log)
        /\ l.kind = "data" /\ ~(Len(log) > MaxLines) /\ openFrames # <<>>
        /\ bytes' = bytes + DataBytes /\ bytes + DataBytes <= MaxBytes
        /\ inspectCursor' = inspectCursor + 1
        /\ invokedPrograms' = invokedPrograms /\ openFrames' = openFrames
    BY <1>7 DEF Inspection!InspectData
  <2>2. CASE Len(candidates) >= MaxCandidates
    BY <1>7, <2>1, <2>2 DEF Inspection!InspectData, Refuses, Unfit
  <2>3. CASE ~(Len(candidates) >= MaxCandidates)
    <3>1. /\ candidates' = Append(candidates, [position |-> Len(candidates),
                                               emitter  |-> openFrames[Len(openFrames)],
                                               data     |-> l.data])
          /\ logsStatus' = logsStatus
      BY <1>7, <2>3 DEF Inspection!InspectData
    <3>2. LineFits(l, Offer, Offer')
      BY <2>1, <3>1 DEF LineFits, Offer
    <3> QED BY <2>1, <3>1, <3>2 DEF Accepts
  <2> QED BY <2>2, <2>3
<1>8. CASE Inspection!InspectSkip
  <2>1. /\ ended /\ logsStatus = "reading" /\ inspectCursor < Len(log)
        /\ l.kind \in {"short", "other"} /\ ~(Len(log) > MaxLines)
        /\ l.kind = "short" => openFrames # <<>>
        /\ bytes' = bytes + 1 /\ bytes + 1 <= MaxBytes
        /\ inspectCursor' = inspectCursor + 1 /\ logsStatus' = logsStatus
        /\ invokedPrograms' = invokedPrograms /\ openFrames' = openFrames
        /\ candidates' = candidates
    BY <1>8 DEF Inspection!InspectSkip
  <2>2. LineFits(l, Offer, Offer')
    BY <2>1 DEF LineFits, Offer
  <2> QED BY <2>1, <2>2 DEF Accepts
<1>9. CASE Inspection!InspectEnd
  BY <1>9 DEF Inspection!InspectEnd, Refuses, Ends
<1> QED BY <1>3, <1>4, <1>5, <1>6, <1>7, <1>8, <1>9 DEF Inspection!InspectNext

LEMMA InspectTypesKept ==
    ASSUME TypeOK, Inspection!TypeOK, Inspection!InspectNext, UNCHANGED runtimeVars
    PROVE  Inspection!TypeOK'
<1>1. /\ log \in Seq(Line) /\ Len(log) \in Nat
      /\ openFrames \in Seq(Programs) /\ Len(openFrames) <= MaxFrames
      /\ invokedPrograms \subseteq Programs
      /\ candidates \in Seq(Event) /\ Len(candidates) <= MaxCandidates
      /\ bytes \in Nat /\ inspectCursor \in 0..Len(log)
      /\ MaxFrames \in Nat /\ MaxCandidates \in Nat /\ DataBytes \in Nat
  BY InspectTypes
<1>2. PICK l : l = log[inspectCursor + 1]
  OBVIOUS
<1>3. ASSUME inspectCursor < Len(log) PROVE l \in Line
  BY <1>1, <1>2, <1>3
<1>4. ASSUME candidates' = candidates \/ candidates' = <<>>
      PROVE  candidates' \in Seq(Event) /\ Len(candidates') <= MaxCandidates
  <2>1. CASE candidates' = <<>>
    <3>1. <<>> \in Seq(Event) /\ Len(<<>>) = 0
      OBVIOUS
    <3> QED BY <1>1, <2>1, <3>1
  <2> QED BY <1>1, <1>4, <2>1
<1> DEFINE Kept == /\ openFrames' \in Seq(Programs) /\ Len(openFrames') <= MaxFrames
                   /\ invokedPrograms' \subseteq Programs
                   /\ candidates' \in Seq(Event) /\ Len(candidates') <= MaxCandidates
                   /\ bytes' \in Nat /\ inspectCursor' \in 0..Len(log)
                   /\ logsStatus' \in {"reading", "available", "incomplete"}
<1>5. SUFFICES Kept
  <2>1. UNCHANGED <<stack, truth, log, snapshots, steps, truncated, lost, ended>>
    BY DEF runtimeVars
  <2>2. Inspection!RuntimeTypeOK'
    BY <2>1 DEF Inspection!TypeOK, Inspection!RuntimeTypeOK
  <2>3. candidates' \in Seq(Inspection!Event)
    BY DEF Inspection!Event, Event
  <2> QED BY <2>1, <2>2, <2>3 DEF Inspection!TypeOK
<1>6. CASE Inspection!InspectTooLong
  BY <1>1, <1>4, <1>6 DEF Inspection!InspectTooLong, Inspection!Incomplete
<1>7. ASSUME NEW kinds, Inspection!Reading(kinds)
      PROVE  /\ inspectCursor < Len(log) /\ l.kind \in kinds
             /\ bytes' \in Nat /\ inspectCursor' \in 0..Len(log)
  BY <1>1, <1>2, <1>7 DEF Inspection!Reading, Inspection!SizeOf, Inspection!line
<1>8. CASE Inspection!InspectRefused
  BY <1>1, <1>4, <1>7, <1>8 DEF Inspection!InspectRefused, Inspection!Incomplete
<1>9. CASE Inspection!InspectInvoke
  <2>1. /\ inspectCursor < Len(log) /\ l.kind = "invoke"
        /\ bytes' \in Nat /\ inspectCursor' \in 0..Len(log)
    BY <1>7, <1>9 DEF Inspection!InspectInvoke
  <2>2. l.program \in Programs
    BY <1>3, <2>1 DEF Line
  <2>3. \/ /\ Len(openFrames) < MaxFrames
           /\ openFrames' = Append(openFrames, l.program)
           /\ invokedPrograms' = invokedPrograms \cup {l.program}
        \/ UNCHANGED <<openFrames, invokedPrograms>>
    BY <1>2, <1>9 DEF Inspection!InspectInvoke, Inspection!DepthFollows, Inspection!line
  <2>4. /\ candidates' = candidates \/ candidates' = <<>>
        /\ logsStatus' = logsStatus \/ logsStatus' = "incomplete"
    BY <1>9 DEF Inspection!InspectInvoke, Inspection!Incomplete
  <2>5. logsStatus = "reading"
    BY <1>9 DEF Inspection!InspectInvoke, Inspection!Reading
  <2>6. openFrames' \in Seq(Programs) /\ Len(openFrames') <= MaxFrames
    <3>1. CASE openFrames' = Append(openFrames, l.program) /\ Len(openFrames) < MaxFrames
      <4>1. openFrames' \in Seq(Programs) /\ Len(openFrames') = Len(openFrames) + 1
        BY <1>1, <2>2, <3>1
      <4>2. Len(openFrames) \in Nat
        BY <1>1
      <4> QED BY <1>1, <3>1, <4>1, <4>2
    <3> QED BY <1>1, <2>3, <3>1
  <2>7. invokedPrograms' \subseteq Programs
    BY <1>1, <2>2, <2>3
  <2> QED BY <1>4, <2>1, <2>4, <2>5, <2>6, <2>7
<1>10. CASE Inspection!InspectExit
  <2>1. /\ bytes' \in Nat /\ inspectCursor' \in 0..Len(log)
    BY <1>7, <1>10 DEF Inspection!InspectExit
  <2>2. /\ openFrames' \in Seq(Programs) /\ Len(openFrames') <= MaxFrames
    <3>1. CASE openFrames = <<>>
      BY <1>1, <1>10, <3>1 DEF Inspection!InspectExit
    <3>2. CASE openFrames # <<>>
      <4>1. openFrames' = SubSeq(openFrames, 1, Len(openFrames) - 1)
        BY <1>10, <3>2 DEF Inspection!InspectExit
      <4>2. openFrames' \in Seq(Programs) /\ Len(openFrames') = Len(openFrames) - 1
        BY <1>1, <3>2, <4>1, FrontType
      <4> QED BY <1>1, <4>2
    <3> QED BY <3>1, <3>2
  <2>3. /\ candidates' = candidates \/ candidates' = <<>>
        /\ logsStatus' = logsStatus \/ logsStatus' = "incomplete"
        /\ invokedPrograms' = invokedPrograms
    BY <1>10 DEF Inspection!InspectExit, Inspection!Incomplete
  <2>4. logsStatus = "reading"
    BY <1>10 DEF Inspection!InspectExit, Inspection!Reading
  <2>5. invokedPrograms' \subseteq Programs
    BY <1>1, <2>3
  <2> QED BY <1>4, <2>1, <2>2, <2>3, <2>4, <2>5
<1>11. CASE Inspection!InspectData
  <2>1. /\ inspectCursor < Len(log) /\ l.kind = "data"
        /\ bytes' \in Nat /\ inspectCursor' \in 0..Len(log)
    BY <1>7, <1>11 DEF Inspection!InspectData
  <2> DEFINE event == [position |-> Len(candidates),
                       emitter  |-> openFrames[Len(openFrames)], data |-> l.data]
  <2>2. event \in Event
    <3>1. l.data \in Payloads
      BY <1>3, <2>1 DEF Line
    <3>2. openFrames[Len(openFrames)] \in Programs /\ Len(candidates) \in Nat
      BY <1>1, <1>11 DEF Inspection!InspectData
    <3> QED BY <3>1, <3>2 DEF Event
  <2>3. /\ openFrames' = openFrames /\ invokedPrograms' = invokedPrograms
        /\ logsStatus' = logsStatus \/ logsStatus' = "incomplete"
        /\ logsStatus = "reading"
        /\ \/ candidates' = <<>>
           \/ ~(Len(candidates) >= MaxCandidates) /\ candidates' = Append(candidates, event)
    BY <1>2, <1>11 DEF Inspection!InspectData, Inspection!Incomplete, Inspection!Reading,
                       Inspection!line
  <2> HIDE DEF event
  <2>4. candidates' \in Seq(Event) /\ Len(candidates') <= MaxCandidates
    <3>1. CASE candidates' = Append(candidates, event) /\ ~(Len(candidates) >= MaxCandidates)
      BY <1>1, <2>2, <3>1
    <3> QED BY <1>4, <2>3, <3>1
  <2> QED BY <1>1, <2>1, <2>3, <2>4
<1>12. CASE Inspection!InspectSkip
  <2>1. /\ bytes' \in Nat /\ inspectCursor' \in 0..Len(log)
    BY <1>7, <1>12 DEF Inspection!InspectSkip
  <2>2. logsStatus' = "reading" /\ UNCHANGED <<openFrames, invokedPrograms, candidates>>
    BY <1>12 DEF Inspection!InspectSkip, Inspection!Reading
  <2> QED BY <1>1, <2>1, <2>2
<1>13. CASE Inspection!InspectEnd
  BY <1>1, <1>4, <1>13 DEF Inspection!InspectEnd, Inspection!Incomplete
<1> QED BY <1>6, <1>8, <1>9, <1>10, <1>11, <1>12, <1>13 DEF Inspection!InspectNext

LEMMA Times ==
    ASSUME NEW a \in Nat, NEW k \in Nat
    PROVE  /\ a * k \in Nat
           /\ a * (k + 1) = a * k + a
           /\ \A m \in Nat : k <= m => a * k <= a * m
<1>1. \A m \in Nat : k <= m => a * k <= a * m
  <2> SUFFICES ASSUME NEW m \in Nat, k <= m PROVE a * k <= a * m
    OBVIOUS
  <2>1. PICK d \in Nat : m = k + d
    <3>1. m - k \in Nat /\ m = k + (m - k)
      OBVIOUS
    <3> QED BY <3>1
  <2>2. a * m = a * k + a * d /\ a * d \in Nat /\ a * k \in Nat
    BY <2>1
  <2> QED BY <2>2
<1> QED BY <1>1

\* The programs of the first lines are finitely many, and grow line by line.
LEMMA InvokedByGrows ==
    ASSUME TypeOK, NEW n \in 0..Len(log)
    PROVE  /\ IsFiniteSet(InvokedBy(n)) /\ Cardinality(InvokedBy(n)) \in Nat
           /\ \A m \in 0..n : Cardinality(InvokedBy(m)) <= Cardinality(InvokedBy(n))
<1>1. log \in Seq(Line) /\ n \in Nat
  BY DEF TypeOK, RuntimeTypeOK
<1>2. IsFiniteSet(InvokedBy(n))
  <2> DEFINE f == [i \in 1..n |-> IF log[i].kind = "invoke" THEN log[i].program ELSE NoEvent]
             T == {f[i] : i \in 1..n}
  <2>1. f \in Surjection(1..n, T)
    BY DEF Surjection
  <2>2. IsFiniteSet(1..n)
    BY <1>1, FS_Interval
  <2>3. IsFiniteSet(T)
    <3> HIDE DEF f, T
    <3> QED BY <2>1, <2>2, FS_Surjection
  <2>4. InvokedBy(n) \in SUBSET T
    BY DEF InvokedBy
  <2> HIDE DEF T
  <2> QED BY <2>3, <2>4, FS_Subset
<1>3. ASSUME NEW m \in 0..n PROVE Cardinality(InvokedBy(m)) <= Cardinality(InvokedBy(n))
  <2>1. \A i \in 1..m : i \in 1..n
    BY <1>1
  <2>2. InvokedBy(m) \in SUBSET InvokedBy(n)
    BY <2>1 DEF InvokedBy
  <2> QED BY <1>2, <2>2, FS_Subset
<1> QED BY <1>2, <1>3, FS_CardinalityType

LEMMA InvokedByNext ==
    ASSUME TypeOK, NEW n \in Nat, n < Len(log)
    PROVE  InvokedBy(n + 1) = InvokedBy(n) \cup
               (IF log[n + 1].kind = "invoke" THEN {log[n + 1].program} ELSE {})
<1>1. PICK l : l = log[n + 1]
  OBVIOUS
<1>2. l \in Line
  BY <1>1 DEF TypeOK, RuntimeTypeOK
<1>3. l.kind = "invoke" => l.program \in Programs
  BY <1>2 DEF Line
<1>4. \A i \in 1..(n + 1) : i = n + 1 \/ i \in 1..n
  OBVIOUS
<1>5. n + 1 \in 1..(n + 1) /\ \A i \in 1..n : i \in 1..(n + 1)
  OBVIOUS
<1> QED BY <1>1, <1>3, <1>4, <1>5 DEF InvokedBy

\* A line leaves one way on.
LEMMA FitsUnique ==
    ASSUME NEW l, NEW before, NEW x, NEW y, LineFits(l, before, x), LineFits(l, before, y)
    PROVE  x = y
BY DEF LineFits

\* What taking a line in does to the frames and the candidates.
LEMMA AcceptsMoves ==
    ASSUME NEW l, Accepts(l)
    PROVE  /\ l.kind = "invoke" => /\ openFrames' = Append(openFrames, l.program)
                                   /\ candidates' = candidates
           /\ l.kind = "exit" => /\ openFrames # <<>>
                                 /\ openFrames' = SubSeq(openFrames, 1, Len(openFrames) - 1)
                                 /\ candidates' = candidates
           /\ l.kind = "data" =>
                 /\ openFrames' = openFrames
                 /\ \E event : candidates' = Append(candidates, event)
           /\ l.kind \notin {"invoke", "exit", "data"} =>
                 openFrames' = openFrames /\ candidates' = candidates
<1>1. LineFits(l, Offer, Offer')
  BY DEF Accepts
<1> QED BY <1>1 DEF LineFits, Offer

LEMMA AcceptsKeeps ==
    ASSUME ReadingInv, ended, logsStatus = "reading", Accepts(log[inspectCursor + 1]),
           UNCHANGED runtimeVars, Inspection!TypeOK'
    PROVE  Accepted'
<1>1. /\ TypeOK /\ Inspection!TypeOK /\ Accepted
      /\ Complete => LinesFit
  BY DEF ReadingInv, IInv, Concluded
<1>2. UNCHANGED <<stack, truth, log, snapshots, steps, truncated, lost, ended>>
  BY DEF runtimeVars
<1>3. /\ log \in Seq(Line) /\ Len(log) \in Nat
      /\ openFrames \in Seq(Programs) /\ candidates \in Seq(Event)
      /\ bytes \in Nat /\ inspectCursor \in 0..Len(log)
      /\ MaxLines \in Nat /\ MaxPrograms \in Nat /\ DataBytes \in Nat \ {0}
  BY <1>1, InspectTypes
<1>4. PICK c : c = inspectCursor
  OBVIOUS
<1>5. PICK l : l = log[c + 1]
  OBVIOUS
<1>6. /\ Accepts(l) /\ c \in Nat /\ c < Len(log)
      /\ inspectCursor' = c + 1 /\ c + 1 \in 1..Len(log)
  BY <1>3, <1>4, <1>5 DEF Accepts
<1>7. l \in Line
  BY <1>3, <1>5, <1>6
<1>8. /\ bytes' = (c + 1) + (DataBytes - 1) * Len(candidates') /\ bytes' <= MaxBytes
  <2> DEFINE w == DataBytes - 1
             k == Len(candidates)
  <2>1. w \in Nat /\ k \in Nat
    BY <1>3
  <2>2. bytes = c + w * k
    BY <1>1, <1>4 DEF Accepted
  <2>3. w * (k + 1) = w * k + w /\ w * k \in Nat
    <3> HIDE DEF w, k
    <3> QED BY <2>1, Times
  <2>4. CASE l.kind = "data"
    <3>1. bytes' = bytes + DataBytes
      BY <1>6, <2>4 DEF Accepts
    <3>2. Len(candidates') = k + 1
      <4>1. PICK event : candidates' = Append(candidates, event)
        BY <1>6, <2>4, AcceptsMoves
      <4>2. Len(Append(candidates, event)) = Len(candidates) + 1
        BY <1>3
      <4> QED BY <4>1, <4>2
    <3>3. DataBytes = w + 1
      BY <1>3
    <3> HIDE DEF w, k
    <3>4. bytes' = (c + 1) + w * (k + 1)
      BY <1>6, <2>1, <2>2, <2>3, <3>1, <3>3
    <3> QED BY <1>6, <3>2, <3>4 DEF w, Accepts
  <2>5. CASE l.kind # "data"
    <3>1. bytes' = bytes + 1 /\ candidates' = candidates
      <4>1. l.kind \in {"invoke", "exit"} \/ l.kind \notin {"invoke", "exit", "data"}
        BY <2>5
      <4> QED BY <1>6, <2>5, <4>1, AcceptsMoves DEF Accepts
    <3>2. bytes' = (c + 1) + w * k
      <4> HIDE DEF w, k
      <4> QED BY <1>6, <2>2, <2>3, <3>1
    <3> QED BY <1>6, <3>1, <3>2 DEF Accepts
  <2> QED BY <2>4, <2>5
<1>9. Len(openFrames') + LinesOf(c + 1, "exit") = LinesOf(c + 1, "invoke")
  <2>1. /\ LinesOf(c, "exit") \in Nat /\ LinesOf(c, "invoke") \in Nat
        /\ Len(openFrames) \in Nat
        /\ Len(openFrames) + LinesOf(c, "exit") = LinesOf(c, "invoke")
    BY <1>1, <1>3, <1>4, <1>6, CountTypes DEF Accepted
  <2>2. \A kind : LinesOf(c + 1, kind) = LinesOf(c, kind) + (IF l.kind = kind THEN 1 ELSE 0)
    BY <1>5, <1>6, LinesOfNext
  <2>3. Len(openFrames') = IF l.kind = "invoke" THEN Len(openFrames) + 1
                           ELSE IF l.kind = "exit" THEN Len(openFrames) - 1
                           ELSE Len(openFrames)
    <3>1. CASE l.kind = "invoke"
      BY <1>3, <1>6, <3>1, AcceptsMoves
    <3>2. CASE l.kind = "exit"
      BY <1>3, <1>6, <3>2, AcceptsMoves, FrontType
    <3>3. CASE l.kind \notin {"invoke", "exit"}
      BY <1>6, <3>3, AcceptsMoves
    <3> QED BY <3>1, <3>2, <3>3
  <2>4. /\ LinesOf(c + 1, "exit") = LinesOf(c, "exit") + (IF l.kind = "exit" THEN 1 ELSE 0)
        /\ LinesOf(c + 1, "invoke") = LinesOf(c, "invoke") + (IF l.kind = "invoke" THEN 1 ELSE 0)
    BY <2>2
  <2> QED BY <2>1, <2>3, <2>4
<1>10. /\ invokedPrograms' = InvokedBy(c + 1)
       /\ Cardinality(invokedPrograms') <= MaxPrograms
  <2>1. invokedPrograms = InvokedBy(c) /\ Cardinality(invokedPrograms) <= MaxPrograms
    BY <1>1, <1>4 DEF Accepted
  <2>2. invokedPrograms' = InvokedBy(c + 1)
    BY <1>1, <1>5, <1>6, <2>1, InvokedByNext DEF Accepts
  <2>3. Cardinality(invokedPrograms') \in Nat
    BY <1>1, <1>6, <2>2, InvokedByGrows
  <2>4. CASE l.kind = "invoke"
    BY <1>3, <1>6, <2>2, <2>3, <2>4 DEF Accepts
  <2>5. CASE l.kind # "invoke"
    BY <1>6, <2>1, <2>2, <2>5 DEF Accepts
  <2> QED BY <2>2, <2>4, <2>5
<1>11. \A i \in 1..(c + 1) : log[i].kind \notin {"undecodable", "truncated"}
  <2>1. \A i \in 1..c : log[i].kind \notin {"undecodable", "truncated"}
    BY <1>1, <1>4 DEF Accepted
  <2>2. \A i \in 1..(c + 1) : i \in 1..c \/ i = c + 1
    BY <1>6
  <2> QED BY <1>5, <1>6, <2>1, <2>2 DEF Accepts
<1>12. Len(log) <= MaxLines
  BY <1>3, <1>6 DEF Accepts
<1>13. ASSUME Complete
       PROVE  /\ Offer' = At(c + 1)
              /\ \A i \in 1..(c + 1) : Len(At(i).stack) <= MaxFrames
  <2>1. /\ Offer = At(c)
        /\ \A i \in 1..c : Len(At(i).stack) <= MaxFrames
    BY <1>1, <1>4, <1>13 DEF Accepted
  <2>2. LineFits(l, At(c), At(c + 1))
    <3>1. LineFits(log[c + 1], At(c + 1 - 1), At(c + 1))
      BY <1>1, <1>6, <1>13 DEF LinesFit
    <3>2. c + 1 - 1 = c
      BY <1>6
    <3> QED BY <1>5, <3>1, <3>2
  <2>3. LineFits(l, Offer, Offer')
    BY <1>6 DEF Accepts
  <2>4. Offer' = At(c + 1)
    <3> HIDE DEF At
    <3> QED BY <2>1, <2>2, <2>3, FitsUnique
  <2>5. Len(At(c + 1).stack) <= MaxFrames
    <3>1. At(c + 1).stack = openFrames'
      BY <2>4 DEF Offer
    <3> QED BY <3>1 DEF Inspection!TypeOK
  <2>6. \A i \in 1..(c + 1) : i \in 1..c \/ i = c + 1
    BY <1>6
  <2> HIDE DEF At
  <2> QED BY <2>1, <2>4, <2>5, <2>6
<1>14. /\ \A n, kind : LinesOf(n, kind)' = LinesOf(n, kind)
       /\ \A n : At(n)' = At(n)
       /\ \A n : InvokedBy(n)' = InvokedBy(n)
       /\ Complete' = Complete
  BY <1>2 DEF LinesOf, At, InvokedBy, Complete
<1> QED
  <2>1. bytes' = inspectCursor' + (DataBytes - 1) * Len(candidates')
    BY <1>6, <1>8
  <2>2. Len(openFrames') + LinesOf(inspectCursor, "exit")' = LinesOf(inspectCursor, "invoke")'
    BY <1>2, <1>6, <1>9 DEF LinesOf
  <2>3. invokedPrograms' = InvokedBy(inspectCursor)'
    BY <1>2, <1>6, <1>10 DEF InvokedBy
  <2>4. Complete' => Offer' = At(inspectCursor)'
    BY <1>2, <1>6, <1>13, <1>14 DEF At
  <2>5. Complete' => \A i \in 1..inspectCursor' : Len(At(i)'.stack) <= MaxFrames
    BY <1>6, <1>13, <1>14
  <2>6. \A i \in 1..inspectCursor' : log'[i].kind \notin {"undecodable", "truncated"}
    BY <1>2, <1>6, <1>11
  <2>7. inspectCursor' > 0 => Len(log') <= MaxLines
    BY <1>2, <1>12
  <2> HIDE DEF At
  <2> QED BY <1>8, <1>10, <2>1, <2>2, <2>3, <2>4, <2>5, <2>6, <2>7 DEF Accepted

\* The history grows by the line taken in.
LEMMA AcceptsRetraced ==
    ASSUME ReadingInv, ended, logsStatus = "reading", Accepts(log[inspectCursor + 1]),
           UNCHANGED runtimeVars, UNCHANGED scanVars, Inspection!TypeOK'
    PROVE  Retraced'
<1>1. TypeOK /\ Inspection!TypeOK
  BY DEF ReadingInv, IInv
<1>2. log' = log /\ cursor' = cursor /\ Scan' = Scan
  BY DEF runtimeVars, scanVars, Scan
<1>3. PICK c : c = inspectCursor
  OBVIOUS
<1>4. PICK l : l = log[c + 1]
  OBVIOUS
<1>5. Accepts(l) /\ c \in Nat /\ inspectCursor' = c + 1
  BY <1>1, <1>3, <1>4, InspectTypes DEF Accepts
<1>6. PICK h \in [0..c -> Snapshot] :
          /\ h[0] = Bare
          /\ \A i \in 1..c : LineFits(log[i], h[i - 1], h[i])
          /\ h[c] = Offer
          /\ cursor \in 0..c
          /\ h[cursor] = Scan
  BY <1>3 DEF ReadingInv, Retraced
<1>7. PICK offer : offer = Offer'
  OBVIOUS
<1>8. offer \in Snapshot
  <2>1. candidates' \in Seq(Event)
    BY DEF Inspection!TypeOK, Inspection!Event, Event
  <2>2. openFrames' \in Seq(Programs)
    BY DEF Inspection!TypeOK
  <2> QED BY <1>7, <2>1, <2>2 DEF Offer, Snapshot
<1> DEFINE g == [i \in 0..(c + 1) |-> IF i = c + 1 THEN offer ELSE h[i]]
<1>9. g \in [0..(c + 1) -> Snapshot]
  <2>1. \A i \in 0..(c + 1) : i # c + 1 => i \in 0..c
    BY <1>5
  <2> QED BY <1>8, <2>1
<1>10. g[c + 1] = offer /\ \A i \in 0..c : g[i] = h[i]
  BY <1>5
<1>11. LineFits(l, Offer, offer)
  BY <1>5, <1>7 DEF Accepts
<1> HIDE DEF g
<1>12. ASSUME NEW i \in 1..(c + 1) PROVE LineFits(log[i], g[i - 1], g[i])
  <2>1. CASE i \in 1..c
    <3>1. g[i - 1] = h[i - 1] /\ g[i] = h[i]
      BY <1>5, <1>10, <2>1
    <3> QED BY <1>6, <2>1, <3>1
  <2>2. CASE i = c + 1
    <3>1. i - 1 = c /\ g[c] = h[c] /\ g[i] = offer
      BY <1>5, <1>10, <2>2
    <3> QED BY <1>4, <1>6, <1>11, <2>2, <3>1
  <2> QED BY <1>5, <2>1, <2>2
<1>13. g[0] = Bare /\ cursor \in 0..(c + 1) /\ g[cursor] = Scan
  BY <1>5, <1>6, <1>10
<1> QED BY <1>2, <1>5, <1>7, <1>9, <1>10, <1>12, <1>13 DEF Retraced

\* From a log that lost nothing candidates are withheld for a good reason only.
LEMMA RefusesForGood ==
    ASSUME ReadingInv, ended, logsStatus = "reading", Refuses, Complete
    PROVE  ~WithinLimits
<1>1. /\ TypeOK /\ Inspection!TypeOK /\ Accepted /\ RuntimeFits /\ LinesFit /\ NowFits
      /\ stack = <<>>
  BY DEF ReadingInv, IInv, Concluded, RuntimeFits
<1>2. /\ log \in Seq(Line) /\ Len(log) \in Nat
      /\ openFrames \in Seq(Programs) /\ candidates \in Seq(Event)
      /\ bytes \in Nat /\ inspectCursor \in 0..Len(log)
      /\ MaxLines \in Nat /\ MaxBytes \in Nat /\ MaxFrames \in Nat
      /\ MaxPrograms \in Nat /\ MaxCandidates \in Nat /\ DataBytes \in Nat \ {0}
  BY <1>1, InspectTypes
<1>3. PICK c : c = inspectCursor
  OBVIOUS
<1>4. c \in 0..Len(log) /\ Offer = At(c)
  BY <1>1, <1>2, <1>3 DEF Accepted
<1>5. truth \in Seq(Event) /\ Len(truth) \in Nat /\ Len(snapshots) = Len(log)
  BY <1>1 DEF TypeOK, RuntimeTypeOK
<1>6. CASE Len(log) > MaxLines
  BY <1>2, <1>6 DEF WithinLimits
<1>7. CASE c = Len(log) /\ openFrames # <<>>
  <2>1. At(c).stack = openFrames /\ At(c).stack = stack
    BY <1>1, <1>4, <1>7 DEF Offer, NowFits
  <2> QED BY <1>1, <1>7, <2>1
<1>8. CASE c < Len(log) /\ Unfit(log[c + 1])
  <2>1. PICK l : l = log[c + 1]
    OBVIOUS
  <2>2. c + 1 \in 1..Len(log) /\ c \in Nat /\ c + 1 - 1 = c
    BY <1>2, <1>4, <1>8
  <2>3. l \in Line /\ c + 1 \in DOMAIN log /\ c + 1 \in DOMAIN snapshots
    <3>1. snapshots \in Seq([stack: Seq(Programs), truth: Seq(Event)])
      BY <1>1 DEF TypeOK, RuntimeTypeOK
    <3> QED BY <1>2, <1>5, <2>1, <2>2, <3>1
  <2>4. PICK next : next = At(c + 1)
    OBVIOUS
  <2>5. LineFits(l, Offer, next)
    <3>1. LineFits(log[c + 1], At(c + 1 - 1), At(c + 1))
      BY <1>1, <2>2 DEF LinesFit
    <3> HIDE DEF At
    <3> QED BY <1>4, <2>1, <2>2, <2>4, <3>1
  <2>6. Len(next.truth) \in Nat /\ Len(next.truth) <= Len(truth)
    <3>1. c + 1 \in 0..Len(log)
      BY <2>2
    <3> HIDE DEF At
    <3> QED BY <1>1, <2>4, <3>1, AtTypes DEF RuntimeFits
  <2>7. next = snapshots[c + 1]
    <3>1. c + 1 # 0
      BY <2>2
    <3> QED BY <2>4, <3>1 DEF At
  <2>8. CASE bytes + (IF l.kind = "data" THEN DataBytes ELSE 1) > MaxBytes
    <3> DEFINE w == DataBytes - 1
               k == Len(candidates)
               n == Len(next.truth)
               m == Len(truth)
    <3>1. w \in Nat /\ k \in Nat /\ n \in Nat /\ m \in Nat /\ n <= m /\ DataBytes = w + 1
      BY <1>2, <1>5, <2>6
    <3>2. bytes = c + w * k
      BY <1>1, <1>3 DEF Accepted
    <3>3. n = IF l.kind = "data" THEN k + 1 ELSE k
      <4>1. CASE l.kind = "data"
        <5>1. PICK event : next.truth = Append(candidates, event)
          BY <2>5, <4>1 DEF LineFits, Offer
        <5>2. Len(Append(candidates, event)) = Len(candidates) + 1
          BY <1>2
        <5> QED BY <4>1, <5>1, <5>2
      <4>2. CASE l.kind # "data"
        <5>1. next.truth = candidates
          BY <2>5, <4>2 DEF LineFits, Offer
        <5> QED BY <4>2, <5>1
      <4> QED BY <4>1, <4>2
    <3>4. /\ w * k \in Nat /\ w * (k + 1) = w * k + w
          /\ w * n \in Nat /\ w * m \in Nat /\ w * n <= w * m
      <4> HIDE DEF w, k, n, m
      <4> QED BY <3>1, Times
    <3> HIDE DEF w, k, n, m
    <3>5. bytes + (IF l.kind = "data" THEN DataBytes ELSE 1) = (c + 1) + w * n
      <4>1. CASE l.kind = "data"
        BY <2>2, <3>1, <3>2, <3>3, <3>4, <4>1
      <4>2. CASE l.kind # "data"
        BY <2>2, <3>1, <3>2, <3>3, <3>4, <4>2
      <4> QED BY <4>1, <4>2
    <3>6. (c + 1) + w * n <= Len(log) + w * m
      BY <1>2, <2>2, <3>4
    <3>7. Len(log) + w * m > MaxBytes
      BY <1>2, <2>2, <2>8, <3>4, <3>5, <3>6
    <3>8. ~(Len(log) + (DataBytes - 1) * Len(truth) <= MaxBytes)
      <4>1. ~(Len(log) + w * m <= MaxBytes)
        BY <1>2, <3>4, <3>7
      <4> QED BY <4>1 DEF w, m
    <3> QED BY <3>8 DEF WithinLimits
  <2>9. CASE l.kind \in {"truncated", "undecodable"}
    <3>1. l.kind # "truncated"
      BY <1>1, <2>1, <2>2 DEF RuntimeFits, Complete
    <3> QED BY <2>1, <2>3, <2>9, <3>1 DEF WithinLimits
  <2>10. CASE l.kind \in {"data", "short"} /\ openFrames = <<>>
    BY <2>5, <2>10 DEF LineFits, Offer
  <2>11. CASE l.kind = "invoke"
    <3>1. l.depth = Len(openFrames) + 1 /\ next.stack = Append(openFrames, l.program)
      BY <2>5, <2>11 DEF LineFits, Offer
    <3>2. CASE Len(openFrames) >= MaxFrames
      <4>1. Len(next.stack) = Len(openFrames) + 1 /\ Len(openFrames) \in Nat
        BY <1>2, <3>1
      <4>2. ~(Len(snapshots[c + 1].stack) <= MaxFrames)
        BY <1>2, <2>7, <3>2, <4>1
      <4> QED BY <2>3, <4>2 DEF WithinLimits
    <3>3. CASE Cardinality(invokedPrograms \cup {l.program}) > MaxPrograms
      <4>1. invokedPrograms = InvokedBy(c)
        BY <1>1, <1>3 DEF Accepted
      <4>2. InvokedBy(c + 1) = invokedPrograms \cup {l.program}
        BY <1>1, <1>8, <2>1, <2>2, <2>11, <4>1, InvokedByNext
      <4>3. c + 1 \in 0..Len(log) /\ Len(log) \in 0..Len(log)
        BY <1>2, <2>2
      <4>4. /\ Cardinality(InvokedBy(c + 1)) \in Nat /\ Cardinality(InvokedBy(Len(log))) \in Nat
            /\ Cardinality(InvokedBy(c + 1)) <= Cardinality(InvokedBy(Len(log)))
        BY <1>1, <4>3, InvokedByGrows
      <4>5. InvokedBy(Len(log)) = {p \in Programs : Invoked(p)}
        BY <1>2 DEF InvokedBy, Invoked
      <4>6. ~(Cardinality(InvokedBy(Len(log))) <= MaxPrograms)
        <5>1. Cardinality(InvokedBy(c + 1)) > MaxPrograms
          BY <3>3, <4>2, Zenon
        <5> QED BY <1>2, <4>4, <5>1
      <4> QED BY <4>5, <4>6 DEF WithinLimits
    <3>4. l.depth # Len(openFrames) + 1 \/ Len(openFrames) >= MaxFrames
          \/ Cardinality(invokedPrograms \cup {l.program}) > MaxPrograms
          \/ bytes + (IF l.kind = "data" THEN DataBytes ELSE 1) > MaxBytes
      BY <1>8, <2>1, <2>11 DEF Unfit
    <3> QED BY <2>8, <3>1, <3>2, <3>3, <3>4
  <2>12. CASE l.kind = "exit"
    <3>1. openFrames # <<>> /\ openFrames[Len(openFrames)] = l.program
      BY <2>5, <2>12 DEF LineFits, Offer
    <3>2. bytes + (IF l.kind = "data" THEN DataBytes ELSE 1) > MaxBytes
      BY <1>8, <2>1, <2>12, <3>1 DEF Unfit
    <3> QED BY <2>8, <3>2
  <2>13. CASE l.kind = "data" /\ Len(candidates) >= MaxCandidates
    <3>1. PICK event : next.truth = Append(candidates, event)
      BY <2>5, <2>13 DEF LineFits, Offer
    <3>2. Len(next.truth) = Len(candidates) + 1 /\ Len(candidates) \in Nat
      BY <1>2, <3>1
    <3>3. ~(Len(truth) <= MaxCandidates)
      BY <1>2, <1>5, <2>6, <2>13, <3>2
    <3> QED BY <3>3 DEF WithinLimits
  <2>14. Unfit(l)
    BY <1>8, <2>1
  <2> QED BY <2>8, <2>9, <2>10, <2>11, <2>12, <2>13, <2>14 DEF Unfit
<1> QED BY <1>3, <1>6, <1>7, <1>8 DEF Refuses

LEMMA ReadingStarts == ReadingInit => ReadingInv
<1> SUFFICES ASSUME ReadingInit PROVE ReadingInv
  OBVIOUS
<1>1. /\ Init /\ IInv
      /\ openFrames = <<>> /\ invokedPrograms = {} /\ candidates = <<>>
      /\ bytes = 0 /\ inspectCursor = 0 /\ logsStatus = "reading"
  BY InitInv DEF ReadingInit, Inspection!InspectInit
<1>2. /\ stack = <<>> /\ truth = <<>> /\ log = <<>> /\ lost = <<>>
      /\ ~truncated /\ ~ended /\ frames = <<>> /\ located = <<>> /\ cursor = 0
  BY <1>1 DEF Init, RuntimeInit, ScanInit
<1>3. Len(log) = 0 /\ Len(stack) = 0 /\ Len(truth) = 0 /\ Len(openFrames) = 0
      /\ Len(candidates) = 0 /\ DOMAIN lost = {}
  BY <1>1, <1>2
<1>4. \A kind : LinesOf(0, kind) = 0 /\ Losses(kind) = 0
  <2>1. \A kind : {i \in 1..0 : log[i].kind = kind} = {} /\ {i \in DOMAIN lost : lost[i] = kind} = {}
    BY <1>3
  <2> QED BY <2>1, FS_EmptySet DEF LinesOf, Losses
<1>5. RuntimeFits
  <2>1. \A i \in 0..Len(log) : Len(At(i).truth) <= Len(truth)
    BY <1>2, <1>3 DEF At
  <2>2. Len(stack) + Written("exit") = Written("invoke")
    BY <1>3, <1>4 DEF Written
  <2>3. truncated <=> \E i \in 1..Len(log) : log[i].kind = "truncated"
    BY <1>2, <1>3
  <2> QED BY <1>2, <2>1, <2>2, <2>3 DEF RuntimeFits
<1>6. Inspection!TypeOK
  <2>1. Inspection!RuntimeTypeOK
    BY <1>1 DEF IInv, TypeOK, RuntimeTypeOK, Inspection!RuntimeTypeOK, Event, Line,
                Inspection!Event, Inspection!Line
  <2>2. MaxFrames \in Nat /\ MaxCandidates \in Nat
    BY LimitsAssumption
  <2>3. \A S : <<>> \in Seq(S)
    OBVIOUS
  <2> QED BY <1>1, <1>3, <2>1, <2>2, <2>3 DEF Inspection!TypeOK
<1>7. Ordered
  BY <1>1, <1>2 DEF Ordered, Scan, Bare
<1>8. Offer = Bare /\ Scan = Bare /\ Bare \in Snapshot /\ At(0) = Bare
  <2>1. \A S : <<>> \in Seq(S)
    OBVIOUS
  <2> QED BY <1>1, <1>2, <2>1 DEF Offer, Scan, Bare, Snapshot, At
<1>9. Concluded
  <2>1. MaxBytes \in Nat /\ MaxPrograms \in Nat /\ DataBytes \in Nat
    BY LimitsAssumption
  <2>2. bytes = inspectCursor + (DataBytes - 1) * Len(candidates)
    <3>1. (DataBytes - 1) * 0 = 0
      BY <2>1
    <3> QED BY <1>1, <1>3, <3>1
  <2>3. invokedPrograms = InvokedBy(inspectCursor)
    BY <1>1 DEF InvokedBy
  <2>4. Cardinality(invokedPrograms) = 0
    BY <1>1, FS_EmptySet
  <2>5. Accepted
    BY <1>1, <1>3, <1>4, <1>8, <2>1, <2>2, <2>3, <2>4 DEF Accepted
  <2> QED BY <1>1, <2>5 DEF Concluded
<1>10. Retraced
  <2> DEFINE h == [i \in 0..0 |-> Bare]
  <2>1. h \in [0..inspectCursor -> Snapshot] /\ h[0] = Bare /\ cursor = 0 /\ 0 \in 0..0
    BY <1>1, <1>2, <1>8
  <2>2. \A i \in 1..0 : LineFits(log[i], h[i - 1], h[i])
    OBVIOUS
  <2> HIDE DEF h
  <2>3. /\ h[0] = Bare
        /\ \A i \in 1..inspectCursor : LineFits(log[i], h[i - 1], h[i])
        /\ h[inspectCursor] = Offer
        /\ cursor \in 0..inspectCursor
        /\ h[cursor] = Scan
    BY <1>1, <1>8, <2>1, <2>2
  <2> QED BY <2>1, <2>3 DEF Retraced
<1> QED BY <1>1, <1>5, <1>6, <1>7, <1>9, <1>10 DEF ReadingInv

\* While the transaction runs neither reader has begun.
LEMMA ReadingRuns ==
    ASSUME ReadingInv, RuntimeNext, UNCHANGED <<scanVars, inspectionVars>>
    PROVE  ReadingInv'
<1>1. /\ IInv /\ TypeOK /\ RuntimeFits /\ Inspection!TypeOK /\ Ordered /\ Concluded /\ Retraced
  BY DEF ReadingInv, IInv
<1>2. ~ended
  BY DEF RuntimeNext, Enter, Leave, EmitEvent, WriteFiller, EndTransaction, Step
<1>3. /\ logsStatus = "reading" /\ inspectCursor = 0 /\ Accepted
  BY <1>1, <1>2 DEF Ordered, Concluded
<1>4. /\ UNCHANGED <<openFrames, invokedPrograms, candidates, bytes, inspectCursor, logsStatus>>
      /\ UNCHANGED <<frames, located, cursor>>
  BY DEF inspectionVars, scanVars
<1>5. IInv' /\ TypeOK'
  BY <1>1, RuntimeInv DEF IInv
<1>6. RuntimeFits'
  BY <1>1, RuntimeKeeps
<1>7. Inspection!TypeOK'
  <2>1. Inspection!RuntimeTypeOK'
    BY <1>5 DEF TypeOK, RuntimeTypeOK, Inspection!RuntimeTypeOK, Event, Line,
                Inspection!Event, Inspection!Line
  <2>2. inspectCursor' \in 0..Len(log')
    <3>1. Len(log') \in Nat
      BY <1>5 DEF TypeOK, RuntimeTypeOK
    <3> QED BY <1>3, <1>4, <3>1
  <2> QED BY <1>1, <1>4, <2>1, <2>2 DEF Inspection!TypeOK
<1>8. Ordered'
  BY <1>1, <1>3, <1>4 DEF Ordered, Scan, Bare
<1>9. Offer' = Offer /\ Scan' = Scan
  BY <1>4 DEF Offer, Scan
<1>10. Retraced'
  <2>1. PICK h \in [0..0 -> Snapshot] :
            /\ h[0] = Bare
            /\ h[0] = Offer
            /\ cursor \in 0..0
            /\ h[cursor] = Scan
    BY <1>1, <1>3 DEF Retraced
  <2>2. /\ h \in [0..inspectCursor' -> Snapshot]
        /\ h[0] = Bare
        /\ \A i \in 1..inspectCursor' : LineFits(log'[i], h[i - 1], h[i])
        /\ h[inspectCursor'] = Offer'
        /\ cursor' \in 0..inspectCursor'
        /\ h[cursor'] = Scan'
    BY <1>3, <1>4, <1>9, <2>1
  <2> QED BY <2>2 DEF Retraced
<1>11. Offer = Bare
  BY <1>1, <1>3 DEF Retraced
<1>12. Concluded'
  <2>1. Len(openFrames') + LinesOf(inspectCursor, "exit")' = LinesOf(inspectCursor, "invoke")'
    <3>1. {i \in 1..0 : log'[i].kind = "exit"} = {i \in 1..0 : log[i].kind = "exit"}
          /\ {i \in 1..0 : log'[i].kind = "invoke"} = {i \in 1..0 : log[i].kind = "invoke"}
      OBVIOUS
    <3>2. /\ LinesOf(inspectCursor, "exit")' = LinesOf(inspectCursor, "exit")
          /\ LinesOf(inspectCursor, "invoke")' = LinesOf(inspectCursor, "invoke")
      BY <1>3, <1>4, <3>1 DEF LinesOf
    <3> QED BY <1>3, <1>4, <3>2 DEF Accepted
  <2>2. invokedPrograms' = InvokedBy(inspectCursor)'
    BY <1>3, <1>4 DEF Accepted, InvokedBy
  <2>3. Offer' = At(inspectCursor)'
    BY <1>3, <1>4, <1>9, <1>11 DEF At, Bare
  <2>4. /\ bytes' = inspectCursor' + (DataBytes - 1) * Len(candidates')
        /\ bytes' <= MaxBytes
        /\ Cardinality(invokedPrograms') <= MaxPrograms
    BY <1>3, <1>4 DEF Accepted
  <2>5. /\ \A i \in 1..inspectCursor' : log'[i].kind \notin {"undecodable", "truncated"}
        /\ inspectCursor' > 0 => Len(log') <= MaxLines
        /\ \A i \in 1..inspectCursor' : Len(At(i)'.stack) <= MaxFrames
    BY <1>3, <1>4
  <2>6. Accepted'
    BY <2>1, <2>2, <2>3, <2>4, <2>5 DEF Accepted
  <2> QED BY <1>3, <1>4, <2>6 DEF Concluded
<1> QED BY <1>5, <1>6, <1>7, <1>8, <1>10, <1>12 DEF ReadingInv

LEMMA ReadingInspects ==
    ASSUME ReadingInv, Inspection!InspectNext, UNCHANGED <<runtimeVars, scanVars>>
    PROVE  ReadingInv'
<1>1. /\ IInv /\ TypeOK /\ RuntimeFits /\ Inspection!TypeOK /\ Ordered /\ Concluded /\ Retraced
  BY DEF ReadingInv, IInv
<1>2. /\ ended /\ logsStatus = "reading"
      /\ Refuses \/ Ends \/ Accepts(log[inspectCursor + 1])
  BY <1>1, InspectCases
<1>3. /\ UNCHANGED <<stack, truth, log, snapshots, steps, truncated, lost, ended>>
      /\ UNCHANGED <<frames, located, cursor>>
  BY DEF runtimeVars, scanVars
<1>4. IInv'
  BY <1>1, StepInv DEF vars
<1>5. RuntimeFits'
  BY <1>1, <1>3 DEF RuntimeFits, Written, LinesOf, Losses, At
<1>6. Inspection!TypeOK'
  BY <1>1, InspectTypesKept
<1>7. Ordered'
  BY <1>1, <1>2, <1>3 DEF Ordered, Scan, Bare
<1>8. (WithinLimits' <=> WithinLimits) /\ (Complete' <=> Complete)
  BY <1>3 DEF WithinLimits, Invoked, Complete
<1>9. CASE Refuses
  <2>1. Complete => ~WithinLimits
    BY <1>2, <1>9, RefusesForGood
  <2>2. Concluded'
    BY <1>2, <1>3, <1>8, <1>9, <2>1 DEF Concluded, Refuses
  <2>3. Retraced'
    BY <1>9 DEF Retraced, Refuses
  <2> QED BY <1>4, <1>5, <1>6, <1>7, <2>2, <2>3 DEF ReadingInv
<1>10. CASE Ends
  <2>1. /\ UNCHANGED <<openFrames, invokedPrograms, candidates, bytes, inspectCursor>>
        /\ logsStatus' = "available" /\ inspectCursor = Len(log) /\ openFrames = <<>>
        /\ ~(Len(log) > MaxLines)
    BY <1>10 DEF Ends
  <2>2. Accepted'
    <3>1. Accepted
      BY <1>1, <1>2 DEF Concluded
    <3> QED BY <1>3, <2>1, <3>1 DEF Accepted, LinesOf, InvokedBy, Complete, Offer, At
  <2>3. Len(log) <= MaxLines
    BY <1>1, <2>1, InspectTypes
  <2>4. Concluded'
    BY <1>2, <1>3, <2>1, <2>2, <2>3 DEF Concluded
  <2>5. Retraced'
    BY <1>1, <1>2, <1>3, <2>1 DEF Retraced, Offer, Scan
  <2> QED BY <1>4, <1>5, <1>6, <1>7, <2>4, <2>5 DEF ReadingInv
<1>11. CASE Accepts(log[inspectCursor + 1])
  <2>1. Accepted'
    BY <1>2, <1>6, <1>11, AcceptsKeeps
  <2>2. Concluded'
    BY <1>11, <2>1 DEF Concluded, Accepts
  <2>3. Retraced'
    BY <1>2, <1>6, <1>11, AcceptsRetraced
  <2> QED BY <1>4, <1>5, <1>6, <1>7, <2>2, <2>3 DEF ReadingInv
<1> QED BY <1>2, <1>9, <1>10, <1>11

\* The attribution moves along the history the inspection left.
LEMMA ReadingScans ==
    ASSUME ReadingInv, Inspection!Inspected, ScanNext,
           UNCHANGED <<runtimeVars, inspectionVars>>
    PROVE  ReadingInv'
<1>1. /\ IInv /\ TypeOK /\ RuntimeFits /\ Inspection!TypeOK /\ Ordered /\ Concluded /\ Retraced
  BY DEF ReadingInv, IInv
<1>2. /\ UNCHANGED <<stack, truth, log, snapshots, steps, truncated, lost, ended>>
      /\ UNCHANGED <<openFrames, invokedPrograms, candidates, bytes, inspectCursor, logsStatus>>
      /\ logsStatus # "reading"
  BY DEF runtimeVars, inspectionVars, Inspection!Inspected
<1>3. IInv'
  BY <1>1, ScanInv
<1>4. RuntimeFits'
  BY <1>1, <1>2 DEF RuntimeFits, Written, LinesOf, Losses, At
<1>5. Inspection!TypeOK'
  BY <1>1, <1>2 DEF Inspection!TypeOK, Inspection!RuntimeTypeOK
<1>6. Ordered'
  BY <1>1, <1>2 DEF Ordered
<1>7. Concluded'
  BY <1>1, <1>2 DEF Concluded, Accepted, WithinLimits, LinesOf, InvokedBy, Invoked,
                    Complete, Offer, At
<1>8. Retraced'
  <2> SUFFICES ASSUME logsStatus # "incomplete" PROVE Retraced'
    BY <1>2 DEF Retraced
  <2>1. inspectCursor = Len(log)
    BY <1>1, <1>2 DEF Concluded, Inspection!TypeOK
  <2>2. PICK c : c = inspectCursor
    OBVIOUS
  <2>3. PICK h \in [0..c -> Snapshot] :
            /\ h[0] = Bare
            /\ \A i \in 1..c : LineFits(log[i], h[i - 1], h[i])
            /\ h[c] = Offer
            /\ cursor \in 0..c
            /\ h[cursor] = Scan
    BY <1>1, <2>2 DEF Retraced
  <2>4. cursor' = cursor + 1 /\ cursor' \in 1..c
    BY <1>1, <2>1, <2>2, ScanTypes
  <2>5. LineFits(log[cursor'], h[cursor' - 1], h[cursor'])
    BY <2>3, <2>4
  <2>6. cursor' - 1 = cursor
    BY <1>1, <2>4 DEF TypeOK
  <2>7. LineFits(log[cursor + 1], h[cursor], h[cursor'])
    BY <2>4, <2>5, <2>6
  <2>8. frames = h[cursor].stack /\ located = h[cursor].truth
    BY <2>3 DEF Scan
  <2>9. frames' = h[cursor'].stack /\ located' = h[cursor'].truth
    BY <1>1, <2>7, <2>8, ScanFollows
  <2>10. h[cursor'] \in Snapshot /\ cursor' \in 0..c
    BY <2>3, <2>4
  <2>11. h[cursor'] = Scan'
    BY <2>9, <2>10 DEF Snapshot, Scan
  <2>12. Offer' = Offer /\ log' = log /\ inspectCursor' = c
    BY <1>2, <2>2 DEF Offer
  <2> QED BY <2>3, <2>10, <2>11, <2>12 DEF Retraced
<1> QED BY <1>3, <1>4, <1>5, <1>6, <1>7, <1>8 DEF ReadingInv

\* What the inspection accepts it accepts line by line, as the runtime's own
\* frames would have it, and the attribution pass follows the same lines: the
\* invariant of inspectLogs and attributeAnchorLogEvent over one log.
THEOREM ReadingInvariant == ReadingSpec => []ReadingInv
<1>1. ReadingInv /\ [ReadingNext]_<<vars, inspectionVars>> => ReadingInv'
  <2> SUFFICES ASSUME ReadingInv, [ReadingNext]_<<vars, inspectionVars>> PROVE ReadingInv'
    OBVIOUS
  <2>1. CASE UNCHANGED <<vars, inspectionVars>>
    <3>1. /\ UNCHANGED <<stack, truth, log, snapshots, steps, truncated, lost, ended>>
          /\ UNCHANGED <<frames, located, cursor>>
          /\ UNCHANGED <<openFrames, invokedPrograms, candidates, bytes, inspectCursor,
                         logsStatus>>
      BY <2>1 DEF vars, runtimeVars, scanVars, inspectionVars
    <3>2. IInv'
      BY <2>1, StepInv DEF ReadingInv
    <3>3. RuntimeFits'
      BY <3>1 DEF ReadingInv, RuntimeFits, Written, LinesOf, Losses, At
    <3>4. Inspection!TypeOK' /\ Ordered'
      BY <3>1 DEF ReadingInv, Inspection!TypeOK, Inspection!RuntimeTypeOK, Ordered, Scan
    <3>5. Concluded'
      BY <3>1 DEF ReadingInv, Concluded, Accepted, WithinLimits, LinesOf, InvokedBy,
                  Invoked, Complete, Offer, At
    <3>6. Retraced'
      BY <3>1 DEF ReadingInv, Retraced, Offer, Scan
    <3> QED BY <3>2, <3>3, <3>4, <3>5, <3>6 DEF ReadingInv
  <2> QED BY <2>1, ReadingRuns, ReadingInspects, ReadingScans DEF ReadingNext
<1> QED BY <1>1, ReadingStarts, PTL DEF ReadingSpec

\* An inspection changes nothing that the attribution reads: with it, every
\* run is a run of the attribution pass alone, so that what AnchorLog promises
\* holds of the verify page's two readings too.
THEOREM ReadingImplementsLog == ReadingSpec => Spec
<1>1. ReadingInit => Init
  BY DEF ReadingInit
<1>2. [ReadingNext]_<<vars, inspectionVars>> => [Next]_vars
  BY DEF ReadingNext, Next, vars
<1> QED BY <1>1, <1>2, PTL DEF ReadingSpec, Spec

\* What inspectLogs offers comes from a log whose frames are whole: not
\* truncated, without a lone invoke or exit line missing, and, when nothing is
\* missing, exactly the events that were emitted.
THEOREM CandidatesTrusted == ReadingSpec => []CandidatesAreTrustworthy
<1>1. ReadingInv => CandidatesAreTrustworthy
  <2> SUFFICES ASSUME ReadingInv, logsStatus = "available"
               PROVE  /\ ~truncated
                      /\ Losses("invoke") = Losses("exit")
                      /\ Complete => candidates = truth
    BY DEF CandidatesAreTrustworthy
  <2>1. /\ TypeOK /\ RuntimeFits /\ Accepted /\ (Complete => NowFits)
        /\ ended /\ inspectCursor = Len(log) /\ openFrames = <<>>
    BY DEF ReadingInv, IInv, Concluded
  <2>2. ~truncated
    BY <2>1 DEF RuntimeFits, Accepted
  <2>3. Len(stack) = 0 /\ Len(openFrames) = 0
    BY <2>1 DEF RuntimeFits
  <2>4. Written("exit") = Written("invoke")
    <3>1. /\ LinesOf(Len(log), "exit") \in Nat /\ Losses("exit") \in Nat
          /\ Len(stack) + Written("exit") = Written("invoke")
      <4>1. Len(log) \in Nat
        BY <2>1 DEF TypeOK, RuntimeTypeOK
      <4> QED BY <2>1, <2>2, <4>1, CountTypes DEF RuntimeFits
    <3> QED BY <2>3, <3>1 DEF Written
  <2>5. Losses("invoke") = Losses("exit")
    <3>1. /\ LinesOf(Len(log), "exit") \in Nat /\ Losses("exit") \in Nat
          /\ LinesOf(Len(log), "invoke") \in Nat /\ Losses("invoke") \in Nat
      <4>1. Len(log) \in Nat
        BY <2>1 DEF TypeOK, RuntimeTypeOK
      <4> QED BY <2>1, <4>1, CountTypes
    <3>2. LinesOf(Len(log), "exit") = LinesOf(Len(log), "invoke")
      BY <2>1, <2>3, <3>1 DEF Accepted
    <3> QED BY <2>4, <3>1, <3>2 DEF Written
  <2>6. Complete => candidates = truth
    BY <2>1 DEF Accepted, NowFits, Offer
  <2> QED BY <2>2, <2>5, <2>6
<1> QED BY <1>1, ReadingInvariant, PTL

\* An event among the located ones is attributed under its own emitter and
\* discriminator, unless another one has both.
LEMMA VerifiesItself ==
    ASSUME NEW s \in Seq(Event), NEW i \in DOMAIN s
    PROVE  LET c    == s[i]
               disc == DiscOf[c.data]
               same == {j \in DOMAIN s : s[j].emitter = c.emitter /\ DiscOf[s[j].data] = disc}
           IN IF same = {i} THEN AttributedEvent(s, c.emitter, disc) = c
                            ELSE Reason(s, c.emitter, disc) = "AMBIGUOUS_EVENT"
<1> DEFINE c    == s[i]
           disc == DiscOf[c.data]
           same == {j \in DOMAIN s : s[j].emitter = c.emitter /\ DiscOf[s[j].data] = disc}
           M    == MatchingProgram(s, c.emitter, disc)
<1>1. same = M /\ i \in M
  BY DEF MatchingProgram, MatchingDiscriminator
<1>2. /\ Reason(s, c.emitter, disc) = "AMBIGUOUS_EVENT" <=> \E j, k \in M : j # k
      /\ Reason(s, c.emitter, disc) = "VERIFIED" <=> \E j \in M : M = {j}
  BY ReasonCases
<1>3. CASE same = {i}
  <2>1. Reason(s, c.emitter, disc) = "VERIFIED"
    BY <1>1, <1>2, <1>3
  <2>2. AttributedEvent(s, c.emitter, disc) = s[First(M)]
    BY <2>1 DEF AttributedEvent
  <2>3. First(M) \in M
    <3>1. PICK n \in Nat : DOMAIN s = 1..n
      OBVIOUS
    <3>2. M \in SUBSET (1..n) /\ M # {}
      BY <1>1, <3>1 DEF MatchingProgram, MatchingDiscriminator
    <3> HIDE DEF M
    <3> QED BY <3>2, FirstIsIn
  <2>4. First(M) = i
    BY <1>1, <1>3, <2>3
  <2> QED BY <1>3, <2>2, <2>4
<1>4. CASE same # {i}
  <2>1. \E j, k \in M : j # k
    BY <1>1, <1>4
  <2> QED BY <1>2, <1>4, <2>1
<1> QED BY <1>3, <1>4

\* A candidate offered keeps its identity when it is verified: the attribution
\* pass locates the very events the inspection offered, whatever lines were
\* lost before both.
THEOREM OfferedCandidatesVerify == ReadingSpec => []CandidatesVerify
<1>1. ReadingInv => CandidatesVerify
  <2> SUFFICES ASSUME ReadingInv, logsStatus = "available", Scanned PROVE CandidatesVerify
    BY DEF CandidatesVerify
  <2>1. inspectCursor = Len(log) /\ cursor = Len(log) /\ Inspection!TypeOK /\ TypeOK
    BY DEF ReadingInv, IInv, Concluded, Scanned
  <2>2. PICK h : h[Len(log)] = Offer /\ h[Len(log)] = Scan
    BY <2>1 DEF ReadingInv, Retraced
  <2>3. located = candidates
    BY <2>2 DEF Offer, Scan
  <2>4. candidates \in Seq(Event)
    BY <2>1, InspectTypes
  <2> QED BY <2>3, <2>4, VerifiesItself DEF CandidatesVerify
<1> QED BY <1>1, ReadingInvariant, PTL

\* The limits spread over the loop of inspectLogs add up to exactly the limits
\* of the log: one that lost nothing is available if and only if it decodes
\* and stays within each, and none is exceeded on the way.
THEOREM LimitsHold == ReadingSpec => []LimitsAreExact
<1>1. ReadingInv => LimitsAreExact
  <2> SUFFICES ASSUME ReadingInv
               PROVE  /\ Inspection!TypeOK
                      /\ Complete /\ Inspection!Inspected =>
                            (logsStatus = "available" <=> WithinLimits)
    BY DEF LimitsAreExact, WithinLimits
  <2>1. Inspection!TypeOK /\ TypeOK
    BY DEF ReadingInv, IInv
  <2>2. ASSUME Complete, logsStatus = "incomplete" PROVE ~WithinLimits
    BY <2>2 DEF ReadingInv, Concluded
  <2>3. ASSUME Complete, logsStatus = "available" PROVE WithinLimits
    <3>1. /\ Accepted /\ inspectCursor = Len(log) /\ Len(log) <= MaxLines /\ NowFits
      BY <2>3 DEF ReadingInv, IInv, Concluded
    <3>2. candidates = truth
      BY <2>3, <3>1 DEF Accepted, NowFits, Offer
    <3>3. /\ DOMAIN log = 1..Len(log) /\ DOMAIN snapshots = 1..Len(log)
      <4>1. \E S, T : log \in Seq(S) /\ snapshots \in Seq(T) /\ Len(snapshots) = Len(log)
        BY <2>1 DEF TypeOK, RuntimeTypeOK
      <4> QED BY <4>1
    <3>4. \A i \in DOMAIN log : log[i].kind # "undecodable"
      BY <3>1, <3>3 DEF Accepted
    <3>5. Len(log) + (DataBytes - 1) * Len(truth) <= MaxBytes
      BY <3>1, <3>2 DEF Accepted
    <3>6. ASSUME NEW i \in DOMAIN snapshots PROVE Len(snapshots[i].stack) <= MaxFrames
      <4>1. i # 0 /\ Len(At(i).stack) <= MaxFrames
        BY <2>3, <3>1, <3>3, <3>6 DEF Accepted
      <4> QED BY <4>1 DEF At
    <3>7. Cardinality({p \in Programs : Invoked(p)}) <= MaxPrograms
      <4>1. InvokedBy(Len(log)) = {p \in Programs : Invoked(p)}
        BY <3>3 DEF InvokedBy, Invoked
      <4> QED BY <3>1, <4>1, Zenon DEF Accepted
    <3>8. Len(truth) <= MaxCandidates
      BY <3>2, <2>1 DEF Inspection!TypeOK
    <3> QED BY <3>1, <3>4, <3>5, <3>6, <3>7, <3>8 DEF WithinLimits
  <2>4. Inspection!Inspected => logsStatus \in {"available", "incomplete"}
    BY <2>1 DEF Inspection!TypeOK, Inspection!Inspected
  <2> QED BY <2>1, <2>2, <2>3, <2>4
<1> QED BY <1>1, ReadingInvariant, PTL
=============================================================================
