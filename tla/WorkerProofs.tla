---------------------------- MODULE WorkerProofs ----------------------------
(***************************************************************************)
(* Theorems about Worker: for each of the four workers, any number of runs *)
(* and ticks, pipes of any capacity and any replies of the child.          *)
(***************************************************************************)
EXTENDS Worker, TLAPS, SequenceTheorems, WellFoundedInduction

(* Nothing is left of a child that is gone, except what it has printed, and *)
(* nothing at all of one that was reaped.                                   *)
Reaped ==
  /\ pc \in {"open", "panic"} \/ (pc = "stop" /\ program = "asc-ipmi") => child = "none"
  /\ child # "up" => stdin = <<>> /\ reply = <<>>
  /\ child = "none" => stdout = <<>>

(* "set csv 1" is the first command of every run.                           *)
CsvFirst ==
  /\ pc = "csv" => stdin = <<>>
  /\ Asks /\ child = "up" /\ pc # "csv" => csv \/ (stdin # <<>> /\ Head(stdin) = "csv")
  /\ reply \in Seq(CsvLine)

(* The workers of nvidia-smi have neither a ticker nor a goroutine.         *)
Silent ==
  ~Asks => /\ pc \notin {"csv", "spawn", "stop"} /\ stdin = <<>>
           /\ \A r \in Runs : ticker[r] = "none" /\ writer[r] = "none"

(* Tickers and goroutines belong to runs that have got to spawn them.       *)
Spawned ==
  \A r \in Runs : r > run \/ (r = run /\ pc \in {"csv", "spawn"})
                    => ticker[r] = "none" /\ writer[r] = "none"

(* A ticker is stopped before the worker is open for another run.           *)
Stopped ==
  \A r \in Runs : ticker[r] = "running" =>
    /\ r = run /\ pc \notin {"open", "csv", "spawn", "panic"}
    /\ program = "ipmi-sdr" => pc # "wait"

IInv == TypeOK /\ Reaped /\ CsvFirst /\ Silent /\ Spawned /\ Stopped

(* The bounds, one by one.                                                  *)
LEMMA Bounds ==
  /\ StdinCap \in Nat /\ StdinCap >= 1 /\ StdoutCap \in Nat /\ StdoutCap >= 1
  /\ MaxRuns \in Nat /\ MaxBeats \in Nat
  BY BoundsAssumption

(* What a child prints consists of lines.                                   *)
LEMMA Replied == TextReply \in Seq(Line) /\ Replies \subseteq Seq(Line)
<1>1. [head |-> "Sensor ID", fields |-> 1, val |-> Bad] \in Line
  BY DEF Line
<1>2. TextReply \in Seq(Line)
  <2>1. \A l \in Line : <<l>> \in Seq(Line)
    OBVIOUS
  <2> QED BY <1>1, <2>1, Zenon DEF TextReply
<1>3. \A q \in Seq(CsvLine) : q \in Seq(Line)
  <2>1. CsvLine \subseteq Line
    BY DEF CsvLine
  <2> QED BY <2>1, SeqMonotonic
<1> QED BY <1>2, <1>3, RepliesAssumption

(* Where a worker goes after a statement.                                   *)
LEMMA Paths ==
  ASSUME TypeOK
  PROVE  /\ AfterStart = IF Asks THEN "csv" ELSE "scan"
         /\ AfterScan \in {"stop", "wait"} /\ (AfterScan = "stop" => program = "ipmi-sdr")
         /\ AfterWait \in {"stop", "open"} /\ (AfterWait = "stop" <=> program = "asc-ipmi")
         /\ AfterStop \in {"open", "wait"} /\ (AfterStop = "open" <=> program = "asc-ipmi")
         /\ program \in AllPrograms
  BY ProgramsAssumption DEF TypeOK, AllPrograms, Asks, AfterStart, AfterScan, AfterWait, AfterStop

(* TypeOK in parts: control, pipes, clocks and points.                      *)
ControlOK ==
  /\ program \in Programs /\ run \in 0 .. MaxRuns /\ beats \in 0 .. MaxBeats
  /\ pc \in {"open", "csv", "spawn", "scan", "send", "wait", "stop", "panic"}
  /\ child \in {"none", "up", "dead"} /\ csv \in BOOLEAN
PipesOK ==
  /\ reply \in Seq(Line) /\ stdout \in Seq(Line) /\ Len(stdout) <= StdoutCap
  /\ stdin \in Seq({"csv", "get"}) /\ Len(stdin) <= StdinCap
ClocksOK ==
  /\ ticker \in [Runs -> {"none", "running", "stopped"}]
  /\ tick \in [Runs -> 0 .. 1] /\ writer \in [Runs -> {"none", "wait", "write"}]
PointsOK ==
  /\ point \in Seq(Val) /\ Len(point) = (IF pc = "send" THEN 1 ELSE 0) /\ sent \in Seq(Val)

(* TypeOK, in the parts the steps disturb separately.                       *)
LEMMA Parts == TypeOK <=> ControlOK /\ PipesOK /\ ClocksOK /\ PointsOK
  BY DEF TypeOK, ControlOK, PipesOK, ClocksOK, PointsOK

(* The initial state satisfies the inductive invariant.                     *)
LEMMA InitIInv == Init => IInv
<1> SUFFICES ASSUME Init PROVE IInv
  OBVIOUS
<1> USE DEF Init
<1>1. ControlOK
  <2>1. csv \in BOOLEAN
    BY Zenon
  <2> QED BY <2>1, Bounds DEF ControlOK
<1>4. ClocksOK
  BY DEF ClocksOK
<1>2. PipesOK /\ PointsOK
  BY Bounds, EmptySeq DEF PipesOK, PointsOK
<1>3. Reaped /\ CsvFirst /\ Silent /\ Spawned /\ Stopped
  BY DEF Reaped, CsvFirst, Silent, Spawned, Stopped
<1> QED BY <1>1, <1>2, <1>3, <1>4, Parts DEF IInv

(* The parts, under every step.                                             *)
LEMMA ControlStep == ASSUME IInv, [Next]_vars PROVE ControlOK'
<1>0. ControlOK
  BY Parts DEF IInv
<1> USE <1>0, Bounds DEF ControlOK, childVars, clockVars
<1>1. CASE Start \/ StartFails \/ StartIgnored
  <2>1. AfterStart \in {"csv", "scan"}
    BY Paths DEF IInv
  <2>2. run' \in 0 .. MaxRuns /\ beats' = 0 /\ program' = program
    BY <1>1 DEF Start, StartFails, StartIgnored, NextRun
  <2>3. csv' \in BOOLEAN
    BY <1>1, Zenon DEF Start, StartFails, StartIgnored
  <2> QED BY <1>1, <2>1, <2>2, <2>3 DEF Start, StartFails, StartIgnored
<1>2. CASE Panic \/ WriteCsv \/ Spawn \/ ScanLine \/ WritePoint
  BY <1>2 DEF Panic, WriteCsv, Spawn, ScanLine, WritePoint
<1>3. CASE ScanEnds \/ Wait \/ StopTicker
  BY <1>3, Paths DEF ScanEnds, Wait, StopTicker, IInv
<1>4. CASE Child \/ Tick \/ ChildBeats \/ ChildDies
  <2>1. CASE ChildTakes \/ ChildPrints
    BY <2>1 DEF ChildTakes, ChildPrints
  <2>2. CASE Tick \/ ChildBeats \/ ChildDies
    BY <2>2 DEF Tick, ChildBeats, ChildDies
  <2> QED BY <1>4, <2>1, <2>2 DEF Child
<1>5. ASSUME NEW r \in Runs, Writer(r) PROVE ControlOK'
  BY <1>5 DEF Writer, TakeTick, WriteGet
<1>6. CASE UNCHANGED vars
  BY <1>6 DEF vars
<1> QED BY <1>1, <1>2, <1>3, <1>4, <1>5, <1>6 DEF Next, Main

(* The pipes and the goroutines that read them keep their types.            *)
LEMMA PipesStep == ASSUME IInv, [Next]_vars PROVE PipesOK'
<1>0. PipesOK /\ (pc = "csv" => stdin = <<>>)
  BY Parts DEF IInv, CsvFirst
<1> USE <1>0, Bounds DEF PipesOK, childVars
<1>1. CASE Start \/ StartFails \/ StartIgnored \/ Panic \/ Spawn
  BY <1>1 DEF Start, StartFails, StartIgnored, NextRun, Panic, Spawn
<1>2. CASE WriteCsv
  <2>1. Append(<<>>, "csv") \in Seq({"csv", "get"}) /\ Len(Append(<<>>, "csv")) = 1
    OBVIOUS
  <2> QED BY <1>2, <2>1 DEF WriteCsv
<1>3. CASE ScanLine
  BY <1>3, HeadTailProperties DEF ScanLine
<1>4. CASE WritePoint \/ ScanEnds \/ StopTicker
  BY <1>4 DEF WritePoint, ScanEnds, StopTicker
<1>5. CASE Wait
  BY <1>5, EmptySeq DEF Wait
<1>6. CASE ChildTakes
  <2>1. Tail(stdin) \in Seq({"csv", "get"}) /\ Len(Tail(stdin)) <= StdinCap
    BY <1>6, HeadTailProperties, LenProperties DEF ChildTakes
  <2> QED BY <1>6, <2>1, Replied DEF ChildTakes
<1>7. CASE ChildPrints
  <2>1. Head(reply) \in Line /\ Tail(reply) \in Seq(Line)
    BY <1>7, HeadTailProperties DEF ChildPrints
  <2> QED BY <1>7, <2>1 DEF ChildPrints
<1>8. CASE Tick
  BY <1>8 DEF Tick
<1>9. CASE ChildBeats
  BY <1>9, Replied DEF ChildBeats
<1>10. CASE ChildDies
  <2>1. stdin' = <<>> /\ reply' = <<>>
    BY <1>10 DEF ChildDies
  <2>2. <<>> \in Seq(Line) /\ <<>> \in Seq({"csv", "get"}) /\ Len(<<>>) = 0
    BY EmptySeq
  <2>3. stdout' \in Seq(Line) /\ Len(stdout') <= StdoutCap
    <3>1. CASE UNCHANGED stdout
      BY <3>1
    <3>2. ASSUME NEW l \in Cuts, Len(stdout) < StdoutCap, stdout' = Append(stdout, l)
          PROVE stdout' \in Seq(Line) /\ Len(stdout') <= StdoutCap
      <4>1. l \in Line
        BY RepliesAssumption
      <4>2. Append(stdout, l) \in Seq(Line) /\ Len(Append(stdout, l)) = Len(stdout) + 1
        BY <4>1
      <4> QED BY <3>2, <4>2
    <3> QED BY <1>10, <3>1, <3>2 DEF ChildDies
  <2> QED BY <2>1, <2>2, <2>3
<1>11. ASSUME NEW r \in Runs, Writer(r) PROVE PipesOK'
  <2>1. CASE UNCHANGED stdin
    BY <1>11, <2>1 DEF Writer, TakeTick, WriteGet
  <2>2. CASE Len(stdin) < StdinCap /\ stdin' = Append(stdin, "get")
    BY <1>11, <2>2 DEF Writer, TakeTick, WriteGet
  <2> QED BY <1>11, <2>1, <2>2 DEF Writer, TakeTick, WriteGet
<1>12. CASE UNCHANGED vars
  BY <1>12 DEF vars
<1> QED BY <1>1, <1>2, <1>3, <1>4, <1>5, <1>6, <1>7, <1>8, <1>9, <1>10, <1>11, <1>12
        DEF Next, Main, Child

(* The tickers and the writers keep their types.                            *)
LEMMA ClocksStep == ASSUME IInv, [Next]_vars PROVE ClocksOK'
<1>0. ClocksOK
  BY Parts DEF IInv
<1> USE <1>0 DEF ClocksOK, clockVars
<1>1. CASE Start \/ StartFails \/ StartIgnored \/ Panic \/ WriteCsv \/ Spawn
  BY <1>1 DEF Start, StartFails, StartIgnored, NextRun, Panic, WriteCsv, Spawn
<1>2. CASE ScanLine \/ WritePoint \/ ScanEnds \/ Wait \/ StopTicker
  BY <1>2 DEF ScanLine, WritePoint, ScanEnds, Wait, StopTicker
<1>3. CASE Child \/ Tick \/ ChildBeats \/ ChildDies
  BY <1>3 DEF Child, ChildTakes, ChildPrints, Tick, ChildBeats, ChildDies
<1>4. ASSUME NEW r \in Runs, Writer(r) PROVE ClocksOK'
  BY <1>4 DEF Writer, TakeTick, WriteGet
<1>5. CASE UNCHANGED vars
  BY <1>5 DEF vars
<1> QED BY <1>1, <1>2, <1>3, <1>4, <1>5 DEF Next, Main

(* The point under way and the points sent keep their types.                *)
LEMMA PointsStep == ASSUME IInv, [Next]_vars PROVE PointsOK'
<1>0. PointsOK /\ stdout \in Seq(Line)
  BY Parts DEF IInv, PipesOK
<1> USE <1>0 DEF PointsOK
<1>1. CASE Start \/ StartFails \/ StartIgnored
  <2>1. pc' # "send"
    BY <1>1, Paths DEF Start, StartFails, StartIgnored, IInv
  <2> QED BY <1>1, <2>1, EmptySeq DEF Start, StartFails, StartIgnored, NextRun
<1>2. CASE Panic \/ WriteCsv \/ Spawn
  BY <1>2 DEF Panic, WriteCsv, Spawn
<1>3. CASE ScanLine
  <2>1. CASE IsReading(Head(stdout))
    <3>1. Head(stdout) \in Line
      BY <1>3, HeadTailProperties DEF ScanLine
    <3>2. Head(stdout).val \in Val
      BY <2>1, <3>1 DEF IsReading, Line
    <3>3. <<Head(stdout).val>> \in Seq(Val) /\ Len(<<Head(stdout).val>>) = 1
      BY <3>2
    <3> QED BY <1>3, <2>1, <3>3 DEF ScanLine
  <2>2. CASE ~IsReading(Head(stdout))
    BY <1>3, <2>2 DEF ScanLine
  <2> QED BY <2>1, <2>2
<1>4. CASE WritePoint
  BY <1>4, ConcatProperties, EmptySeq DEF WritePoint
<1>5. CASE ScanEnds \/ Wait \/ StopTicker
  <2>1. pc # "send" /\ pc' # "send" /\ UNCHANGED <<point, sent>>
    BY <1>5, Paths DEF ScanEnds, Wait, StopTicker, IInv
  <2> QED BY <2>1
<1>6. CASE Child \/ Tick \/ ChildBeats \/ ChildDies
  BY <1>6 DEF Child, ChildTakes, ChildPrints, Tick, ChildBeats, ChildDies
<1>7. ASSUME NEW r \in Runs, Writer(r) PROVE PointsOK'
  BY <1>7 DEF Writer, TakeTick, WriteGet
<1>8. CASE UNCHANGED vars
  BY <1>8 DEF vars
<1> QED BY <1>1, <1>2, <1>3, <1>4, <1>5, <1>6, <1>7, <1>8 DEF Next, Main

(* Every step keeps the types, and the pipes within their capacity.         *)
LEMMA TypeStep == ASSUME IInv, [Next]_vars PROVE TypeOK'
<1>1. TypeOK' <=> ControlOK' /\ PipesOK' /\ ClocksOK' /\ PointsOK'
  BY DEF TypeOK, ControlOK, PipesOK, ClocksOK, PointsOK
<1> QED BY <1>1, ControlStep, PipesStep, ClocksStep, PointsStep

(* Every step leaves nothing in the pipes of a child that is gone.          *)
LEMMA ReapedStep == ASSUME IInv, [Next]_vars PROVE Reaped'
<1> USE DEF IInv, TypeOK, Reaped, childVars
<1>1. CASE Start \/ StartFails \/ StartIgnored
  BY <1>1, Paths DEF Start, StartFails, StartIgnored, NextRun
<1>2. CASE Panic \/ WriteCsv \/ Spawn
  BY <1>2 DEF Panic, WriteCsv, Spawn
<1>3. CASE ScanLine \/ WritePoint \/ ScanEnds
  BY <1>3, Paths DEF ScanLine, WritePoint, ScanEnds
<1>4. CASE Wait
  BY <1>4, Paths DEF Wait
<1>5. CASE StopTicker
  BY <1>5, Paths DEF StopTicker
<1>6. CASE Child \/ Tick \/ ChildBeats \/ ChildDies
  BY <1>6 DEF Child, ChildTakes, ChildPrints, Tick, ChildBeats, ChildDies
<1>7. ASSUME NEW r \in Runs, Writer(r) PROVE Reaped'
  BY <1>7 DEF Writer, TakeTick, WriteGet
<1>8. CASE UNCHANGED vars
  BY <1>8 DEF vars
<1> QED BY <1>1, <1>2, <1>3, <1>4, <1>5, <1>6, <1>7, <1>8 DEF Next, Main

(* A child that asks no csv prints none: "set csv 1" stays ahead of every   *)
(* `sdr get`, and no reply has the heading of another format.               *)
LEMMA CsvStep == ASSUME IInv, [Next]_vars PROVE CsvFirst'
<1>0. stdin \in Seq({"csv", "get"}) /\ UNCHANGED program
  BY DEF IInv, TypeOK, Next, Main, Child, Writer, vars, Start, StartFails, StartIgnored, NextRun,
         Panic, WriteCsv, Spawn, ScanLine, WritePoint, ScanEnds, Wait, StopTicker, ChildTakes,
         ChildPrints, Tick, ChildBeats, ChildDies, TakeTick, WriteGet
<1> USE <1>0 DEF IInv, Reaped, CsvFirst, Asks, childVars
<1>1. CASE Start \/ StartFails \/ StartIgnored
  BY <1>1, Paths DEF Start, StartFails, StartIgnored, NextRun, Asks
<1>2. CASE Panic \/ Spawn \/ ScanLine \/ WritePoint
  BY <1>2 DEF Panic, Spawn, ScanLine, WritePoint
<1>3. CASE WriteCsv
  <2>1. Append(<<>>, "csv") # <<>> /\ Head(Append(<<>>, "csv")) = "csv"
    OBVIOUS
  <2> QED BY <1>3, <2>1 DEF WriteCsv
<1>4. CASE ScanEnds \/ Wait \/ StopTicker
  BY <1>4, Paths DEF ScanEnds, Wait, StopTicker
<1>5. CASE ChildTakes
  <2>1. pc # "csv" /\ pc' = pc /\ child' = child
    BY <1>5 DEF ChildTakes
  <2>2. CASE Head(stdin) = "csv"
    BY <1>5, <2>1, <2>2 DEF ChildTakes
  <2>3. CASE Head(stdin) # "csv"
    <3>1. stdin # <<>> /\ child = "up" /\ csv' = csv
      BY <1>5, <2>3 DEF ChildTakes
    <3>2. Asks
      BY <3>1 DEF Silent
    <3>3. csv
      BY <2>1, <2>3, <3>1, <3>2
    <3>4. reply' \in Replies
      BY <1>5, <2>3, <3>3 DEF ChildTakes
    <3> QED BY <2>1, <3>1, <3>3, <3>4, RepliesAssumption
  <2> QED BY <2>2, <2>3
<1>6. CASE ChildPrints
  <2>1. Tail(reply) \in Seq(CsvLine)
    BY <1>6, HeadTailProperties DEF ChildPrints
  <2> QED BY <1>6, <2>1 DEF ChildPrints
<1>7. CASE Tick
  BY <1>7 DEF Tick
<1>8. CASE ChildBeats
  BY <1>8, RepliesAssumption DEF ChildBeats
<1>9. CASE ChildDies
  BY <1>9, EmptySeq DEF ChildDies
<1>10. ASSUME NEW r \in Runs, Writer(r) PROVE CsvFirst'
  <2>1. CASE TakeTick(r)
    BY <2>1 DEF TakeTick
  <2>2. CASE WriteGet(r) /\ UNCHANGED stdin
    BY <2>2 DEF WriteGet
  <2>3. CASE WriteGet(r) /\ r = run /\ child = "up" /\ stdin' = Append(stdin, "get")
    <3>1. pc \notin {"csv", "spawn"}
      BY <2>3 DEF WriteGet, Spawned
    <3>2. Asks => csv \/ (stdin # <<>> /\ Head(stdin) = "csv")
      BY <2>3, <3>1
    <3>3. stdin # <<>> => Append(stdin, "get") # <<>> /\ Head(Append(stdin, "get")) = Head(stdin)
      OBVIOUS
    <3> QED BY <2>3, <3>1, <3>2, <3>3 DEF WriteGet
  <2> QED BY <1>10, <2>1, <2>2, <2>3 DEF Writer, WriteGet
<1>11. CASE UNCHANGED vars
  BY <1>11 DEF vars
<1> QED BY <1>1, <1>2, <1>3, <1>4, <1>5, <1>6, <1>7, <1>8, <1>9, <1>10, <1>11
        DEF Next, Main, Child

(* No step gives a worker of nvidia-smi a ticker, a goroutine or a command. *)
LEMMA SilentStep == ASSUME IInv, [Next]_vars PROVE Silent'
<1>1. SUFFICES ASSUME ~Asks'
               PROVE  /\ pc' \notin {"csv", "spawn", "stop"} /\ stdin' = <<>>
                      /\ \A r \in Runs : ticker'[r] = "none" /\ writer'[r] = "none"
  BY DEF Silent
<1>2. UNCHANGED program
  BY DEF Next, Main, Child, Writer, vars, Start, StartFails, StartIgnored, NextRun,
         Panic, WriteCsv, Spawn, ScanLine, WritePoint, ScanEnds, Wait, StopTicker, ChildTakes,
         ChildPrints, Tick, ChildBeats, ChildDies, TakeTick, WriteGet
<1>3. /\ ~Asks /\ pc \notin {"csv", "spawn", "stop"} /\ stdin = <<>>
      /\ program \notin {"asc-ipmi", "ipmi-sdr"}
      /\ \A r \in Runs : ticker[r] = "none" /\ writer[r] = "none"
  BY <1>1, <1>2 DEF Asks, IInv, Silent
<1>4. AfterStart = "scan" /\ AfterScan = "wait" /\ AfterWait = "open"
  BY <1>3 DEF AfterStart, AfterScan, AfterWait
<1> USE <1>3, <1>4 DEF childVars, clockVars
<1>5. CASE Start \/ StartFails \/ StartIgnored
  BY <1>5 DEF Start, StartFails, StartIgnored, NextRun
<1>6. CASE Panic
  BY <1>6 DEF Panic
<1>7. CASE WriteCsv \/ Spawn \/ StopTicker
  BY <1>7 DEF WriteCsv, Spawn, StopTicker
<1>8. CASE ScanLine \/ WritePoint \/ ScanEnds \/ Wait
  BY <1>8 DEF ScanLine, WritePoint, ScanEnds, Wait
<1>9. CASE Child \/ Tick \/ ChildBeats \/ ChildDies
  BY <1>9 DEF Child, ChildTakes, ChildPrints, Tick, ChildBeats, ChildDies
<1>10. ASSUME NEW r \in Runs, Writer(r) PROVE FALSE
  BY <1>10 DEF Writer, TakeTick, WriteGet
<1>11. CASE UNCHANGED vars
  BY <1>11 DEF vars
<1> QED BY <1>5, <1>6, <1>7, <1>8, <1>9, <1>10, <1>11 DEF Next, Main

(* Only Spawn brings a goroutine and a ticker, for the run under way.       *)
LEMMA SpawnedStep == ASSUME IInv, [Next]_vars PROVE Spawned'
<1> USE Bounds DEF IInv, TypeOK, Spawned, clockVars, Runs
<1>1. CASE Start \/ StartFails \/ StartIgnored
  BY <1>1 DEF Start, StartFails, StartIgnored, NextRun
<1>2. CASE Panic
  BY <1>2 DEF Panic
<1>3. CASE WriteCsv \/ Spawn
  <2>1. CASE WriteCsv
    BY <2>1 DEF WriteCsv
  <2>2. CASE Spawn
    <3>1. ASSUME NEW r \in Runs, r > run PROVE r # run
      BY <3>1
    <3> QED BY <2>2, <3>1 DEF Spawn
  <2> QED BY <1>3, <2>1, <2>2
<1>4. CASE ScanLine \/ WritePoint \/ ScanEnds \/ Wait
  BY <1>4, Paths DEF ScanLine, WritePoint, ScanEnds, Wait
<1>5. CASE StopTicker
  BY <1>5, Paths DEF StopTicker
<1>6. CASE Child \/ Tick \/ ChildBeats \/ ChildDies
  BY <1>6 DEF Child, ChildTakes, ChildPrints, Tick, ChildBeats, ChildDies
<1>7. ASSUME NEW r \in Runs, Writer(r) PROVE Spawned'
  BY <1>7 DEF Writer, TakeTick, WriteGet
<1>8. CASE UNCHANGED vars
  BY <1>8 DEF vars
<1> QED BY <1>1, <1>2, <1>3, <1>4, <1>5, <1>6, <1>7, <1>8 DEF Next, Main

(* The worker is open again only after the ticker has been stopped.         *)
LEMMA StoppedStep == ASSUME IInv, [Next]_vars PROVE Stopped'
<1> USE DEF IInv, TypeOK, Stopped, clockVars
<1>1. CASE Start \/ StartFails \/ StartIgnored
  BY <1>1 DEF Start, StartFails, StartIgnored, NextRun
<1>2. CASE Panic
  BY <1>2 DEF Panic
<1>3. CASE WriteCsv \/ Spawn
  BY <1>3 DEF WriteCsv, Spawn
<1>4. CASE ScanLine \/ WritePoint
  BY <1>4 DEF ScanLine, WritePoint
<1>5. CASE ScanEnds
  BY <1>5, Paths DEF ScanEnds, AfterScan
<1>6. CASE Wait
  <2>1. AfterWait = "stop" \/ ~Asks \/ program = "ipmi-sdr"
    BY DEF AfterWait, Asks
  <2> QED BY <1>6, <2>1, Paths DEF Wait, Silent
<1>7. CASE StopTicker
  BY <1>7, Paths DEF StopTicker
<1>8. CASE Child \/ Tick \/ ChildBeats \/ ChildDies
  BY <1>8 DEF Child, ChildTakes, ChildPrints, Tick, ChildBeats, ChildDies
<1>9. ASSUME NEW r \in Runs, Writer(r) PROVE Stopped'
  BY <1>9 DEF Writer, TakeTick, WriteGet
<1>10. CASE UNCHANGED vars
  BY <1>10 DEF vars
<1> QED BY <1>1, <1>2, <1>3, <1>4, <1>5, <1>6, <1>7, <1>8, <1>9, <1>10 DEF Next, Main

(* Every reachable state satisfies the invariant.                           *)
LEMMA Invariance == Spec => []IInv
<1>1. IInv /\ [Next]_vars => IInv'
  BY TypeStep, ReapedStep, CsvStep, SilentStep, SpawnedStep, StoppedStep DEF IInv
<1> QED BY <1>1, InitIInv, PTL DEF Spec

(* The pipes hold no more than they can, a tick that finds one waiting is   *)
(* dropped, and there is a point at hand exactly while it is written.       *)
THEOREM WorkerTypes == Spec => []TypeOK
<1>1. IInv => TypeOK
  BY DEF IInv
<1> QED BY <1>1, Invariance, PTL

(* Every `sdr get` is answered in csv, in every run, however slow or short- *)
(* lived ipmitool is.                                                       *)
THEOREM WorkerAlwaysCsv == Spec => []AlwaysCsv
<1>1. TextReply[1] \notin CsvLine /\ Len(TextReply) = 1
  BY DEF TextReply, CsvLine
<1>2. ASSUME IInv PROVE AlwaysCsv
  <2>1. \A i \in 1 .. Len(reply) : reply[i] \in CsvLine
    BY <1>2, ElementOfSeq DEF IInv, CsvFirst
  <2> QED BY <1>1, <2>1 DEF AlwaysCsv
<1> QED BY <1>2, Invariance, PTL

(* No ticker is left running when its run is over: a worker that is started *)
(* again and again has one ticker at most.                                  *)
THEOREM WorkerOneTickerRuns == Spec => []OneTickerRuns
<1>1. IInv => OneTickerRuns
  BY DEF IInv, Stopped, OneTickerRuns
<1> QED BY <1>1, Invariance, PTL

(* A non-empty set of numbers has a least one.                              *)
LEMMA Least ==
  ASSUME NEW T \in SUBSET Nat, T # {}
  PROVE  \E x \in T : \A y \in T : ~(y < x)
<1> DEFINE less == {p \in Nat \X Nat : p[1] < p[2]}
<1>1. IsWellFoundedOn(less, Nat)
  <2>1. OpToRel(<, Nat) = less
    BY Zenon DEF OpToRel
  <2> QED BY NatLessThanWellFounded, <2>1, Zenon
<1>2. PICK x \in T : \A y \in T : ~(<<y, x>> \in less)
  BY <1>1, WFMin, Zenon
<1> QED BY <1>2

(* The recursion of Readings, with K for the lines that are readings.       *)
Reads(g, s, K) ==
  g = [n \in 0 .. Len(s) |->
         IF n = 0 THEN <<>>
         ELSE IF s[n] \in K THEN Append(g[n - 1], s[n].val) ELSE g[n - 1]]

ReadFrom(s, K) == (CHOOSE g : Reads(g, s, K))[Len(s)]

(* One step of the recursion.                                               *)
LEMMA ReadsAt ==
  ASSUME NEW K, NEW s, NEW g, Reads(g, s, K), NEW i \in 0 .. Len(s)
  PROVE  g[i] = IF i = 0 THEN <<>>
                ELSE IF s[i] \in K THEN Append(g[i - 1], s[i].val) ELSE g[i - 1]
<1>1. PICK f : f = [n \in 0 .. Len(s) |->
                      IF n = 0 THEN <<>>
                      ELSE IF s[n] \in K THEN Append(g[n - 1], s[n].val) ELSE g[n - 1]]
  OBVIOUS
<1>2. f[i] = IF i = 0 THEN <<>>
             ELSE IF s[i] \in K THEN Append(g[i - 1], s[i].val) ELSE g[i - 1]
  BY <1>1, Zenon
<1>3. g = f
  BY <1>1, Zenon DEF Reads
<1> QED BY <1>2, <1>3, Zenon

(* The recursion defines something on every sequence of lines: the shortest *)
(* on which it did not would be one line longer than one on which it does.  *)
LEMMA ReadsExist ==
  ASSUME NEW K, NEW s \in Seq(Line)
  PROVE  \E g : Reads(g, s, K)
<1> DEFINE without == {n \in Nat : \E q \in Seq(Line) : Len(q) = n /\ \A g : ~Reads(g, q, K)}
<1>1. SUFFICES ASSUME without # {} PROVE FALSE
  <2>1. Len(s) \in Nat
    OBVIOUS
  <2> QED BY <2>1
<1>2. PICK n \in without : \A m \in without : ~(m < n)
  BY <1>1, Least, Zenon
<1>3. PICK q \in Seq(Line) : Len(q) = n /\ \A g : ~Reads(g, q, K)
  BY <1>2
<1>4. CASE n = 0
  <2>1. Reads([i \in 0 .. 0 |-> <<>>], q, K)
    BY <1>3, <1>4 DEF Reads
  <2> QED BY <1>3, <2>1
<1>5. CASE n # 0
  <2>1. n \in Nat /\ n - 1 \in Nat
    BY <1>2, <1>5
  <2>2. PICK front : front = [i \in 1 .. n - 1 |-> q[i]]
    OBVIOUS
  <2>3. front \in Seq(Line) /\ Len(front) = n - 1 /\ \A i \in 1 .. n - 1 : front[i] = q[i]
    BY <1>3, <2>1, <2>2
  <2>4. n - 1 \notin without
    BY <1>2, <2>1
  <2>5. PICK h : Reads(h, front, K)
    BY <2>1, <2>3, <2>4
  <2>6. \A i \in 0 .. n - 1 :
          h[i] = IF i = 0 THEN <<>>
                 ELSE IF q[i] \in K THEN Append(h[i - 1], q[i].val) ELSE h[i - 1]
    <3>1. ASSUME NEW i \in 0 .. n - 1
          PROVE  h[i] = IF i = 0 THEN <<>>
                        ELSE IF front[i] \in K THEN Append(h[i - 1], front[i].val) ELSE h[i - 1]
      BY <2>3, <2>5, ReadsAt
    <3> QED BY <2>1, <2>3, <3>1
  <2>7. PICK last : last = IF q[n] \in K THEN Append(h[n - 1], q[n].val) ELSE h[n - 1]
    OBVIOUS
  <2>8. PICK g : g = [i \in 0 .. n |-> IF i = n THEN last ELSE h[i]]
    OBVIOUS
  <2>9. ASSUME NEW i \in 0 .. n
        PROVE  g[i] = IF i = 0 THEN <<>>
                      ELSE IF q[i] \in K THEN Append(g[i - 1], q[i].val) ELSE g[i - 1]
    <3>1. CASE i = n
      BY <1>5, <2>1, <2>7, <2>8, <3>1
    <3>2. CASE i # n
      BY <2>1, <2>6, <2>8, <3>2
    <3> QED BY <3>1, <3>2
  <2>10. Reads(g, q, K)
    BY <1>3, <2>1, <2>8, <2>9 DEF Reads
  <2> QED BY <1>3, <2>10
<1> QED BY <1>4, <1>5

(* One sequence of lines begins another.                                    *)
Begins(s, q) == Len(s) <= Len(q) /\ \A i \in 1 .. Len(s) : s[i] = q[i]

(* Where one sequence begins another, the recursion says the same of both.  *)
LEMMA ReadsAgree ==
  ASSUME NEW K, NEW s \in Seq(Line), NEW q \in Seq(Line), Begins(s, q),
         NEW g, Reads(g, s, K), NEW h, Reads(h, q, K)
  PROVE  \A i \in 0 .. Len(s) : g[i] = h[i]
<1> DEFINE apart == {i \in 0 .. Len(s) : g[i] # h[i]}
<1>1. SUFFICES ASSUME apart # {} PROVE FALSE
  OBVIOUS
<1>2. Len(s) \in Nat /\ Len(q) \in Nat /\ apart \in SUBSET Nat
  OBVIOUS
<1>3. PICK i \in apart : \A j \in apart : ~(j < i)
  BY <1>1, <1>2, Least, Zenon
<1>4. /\ i \in 0 .. Len(s) /\ g[i] # h[i]
      /\ g[i] = IF i = 0 THEN <<>>
                ELSE IF s[i] \in K THEN Append(g[i - 1], s[i].val) ELSE g[i - 1]
      /\ h[i] = IF i = 0 THEN <<>>
                ELSE IF q[i] \in K THEN Append(h[i - 1], q[i].val) ELSE h[i - 1]
  <2>1. i \in 0 .. Len(s) /\ i \in 0 .. Len(q) /\ g[i] # h[i]
    BY <1>2, <1>3 DEF Begins
  <2>2. g[i] = IF i = 0 THEN <<>>
               ELSE IF s[i] \in K THEN Append(g[i - 1], s[i].val) ELSE g[i - 1]
    BY <2>1, ReadsAt
  <2>3. h[i] = IF i = 0 THEN <<>>
               ELSE IF q[i] \in K THEN Append(h[i - 1], q[i].val) ELSE h[i - 1]
    BY <2>1, ReadsAt
  <2> QED BY <2>1, <2>2, <2>3
<1>5. i # 0
  BY <1>4
<1>6. i - 1 \in 0 .. Len(s) /\ s[i] = q[i]
  BY <1>2, <1>4, <1>5 DEF Begins
<1>7. g[i - 1] = h[i - 1]
  BY <1>3, <1>6, <1>2
<1> QED BY <1>4, <1>5, <1>6, <1>7

(* Whatever satisfies the recursion gives what is read.                     *)
LEMMA ReadFromIs ==
  ASSUME NEW K, NEW s \in Seq(Line), NEW g, Reads(g, s, K)
  PROVE  ReadFrom(s, K) = g[Len(s)]
<1>1. PICK h : h = CHOOSE f : Reads(f, s, K)
  OBVIOUS
<1>2. Reads(h, s, K)
  BY <1>1, Zenon
<1>3. h[Len(s)] = g[Len(s)]
  <2>1. Len(s) \in Nat /\ Begins(s, s)
    BY LenProperties DEF Begins
  <2> QED BY <1>2, <2>1, ReadsAgree
<1> QED BY <1>1, <1>3, Zenon DEF ReadFrom

(* Readings is that recursion, for the lines the worker takes.              *)
LEMMA ReadingsAre ==
  ASSUME NEW s \in Seq(Line)
  PROVE  Readings(s) = ReadFrom(s, {l \in Line : IsReading(l)})
<1>1. PICK K : K = {l \in Line : IsReading(l)}
  OBVIOUS
<1> DEFINE rec(g) == g = [n \in 0 .. Len(s) |->
                         IF n = 0 THEN <<>>
                         ELSE IF IsReading(s[n]) THEN Append(g[n - 1], s[n].val) ELSE g[n - 1]]
<1>2. \A n \in 1 .. Len(s) : IsReading(s[n]) <=> s[n] \in K
  BY <1>1
<1>3. \A g : rec(g) <=> Reads(g, s, K)
  BY <1>2 DEF Reads
<1>4. PICK g : Reads(g, s, K)
  BY ReadsExist
<1>5. PICK h : h = CHOOSE f : rec(f)
  OBVIOUS
<1>6. rec(h)
  <2>1. rec(g)
    BY <1>3, <1>4
  <2> HIDE DEF rec
  <2> QED BY <1>5, <2>1, Zenon
<1>7. Readings(s) = h[Len(s)]
  BY <1>5, Zenon DEF Readings
<1>8. ReadFrom(s, K) = h[Len(s)]
  BY <1>3, <1>6, ReadFromIs
<1> QED BY <1>1, <1>7, <1>8

(* Nothing is read from nothing.                                            *)
LEMMA ReadFromEmpty ==
  ASSUME NEW K
  PROVE  ReadFrom(<<>>, K) = <<>>
<1>1. <<>> \in Seq(Line) /\ Len(<<>>) = 0
  OBVIOUS
<1>2. PICK g : Reads(g, <<>>, K)
  BY <1>1, ReadsExist
<1>3. g[0] = <<>>
  BY <1>1, <1>2, ReadsAt
<1> QED BY <1>1, <1>2, <1>3, ReadFromIs

(* A line more at the end is a reading more at the end, or none.            *)
LEMMA ReadFromAppend ==
  ASSUME NEW K, NEW s \in Seq(Line), NEW l \in Line
  PROVE  ReadFrom(Append(s, l), K)
           = IF l \in K THEN Append(ReadFrom(s, K), l.val) ELSE ReadFrom(s, K)
<1>1. PICK q \in Seq(Line) : q = Append(s, l)
  BY AppendProperties
<1>2. Len(s) \in Nat /\ Len(q) = Len(s) + 1 /\ q[Len(s) + 1] = l
      /\ \A i \in 1 .. Len(s) : q[i] = s[i]
  BY <1>1, AppendProperties, LenProperties
<1>3. PICK g : Reads(g, s, K)
  BY ReadsExist
<1>4. PICK h : Reads(h, q, K)
  BY ReadsExist
<1>5. g[Len(s)] = h[Len(s)]
  <2>1. Len(s) \in 0 .. Len(s) /\ Begins(s, q)
    BY <1>2 DEF Begins
  <2>2. q \in Seq(Line)
    BY <1>1
  <2>3. \A i \in 0 .. Len(s) : g[i] = h[i]
    BY <1>3, <1>4, <2>1, <2>2, ReadsAgree
  <2> QED BY <2>1, <2>3
<1>6. h[Len(s) + 1] = IF l \in K THEN Append(h[Len(s)], l.val) ELSE h[Len(s)]
  <2>1. PICK n : n = Len(s) + 1
    OBVIOUS
  <2>2. n \in 0 .. Len(q) /\ n # 0 /\ n - 1 = Len(s) /\ q[n] = l
    BY <1>2, <2>1
  <2>3. h[n] = IF n = 0 THEN <<>>
               ELSE IF q[n] \in K THEN Append(h[n - 1], q[n].val) ELSE h[n - 1]
    BY <1>4, <2>2, ReadsAt
  <2> QED BY <2>1, <2>2, <2>3
<1>7. ReadFrom(s, K) = g[Len(s)] /\ ReadFrom(q, K) = h[Len(q)]
  BY <1>3, <1>4, ReadFromIs
<1> QED BY <1>1, <1>2, <1>5, <1>6, <1>7

(* What is read are readings.                                               *)
LEMMA ReadFromTyped ==
  ASSUME NEW K, NEW s \in Seq(Line), \A l \in Line : l \in K => l.val \in Val
  PROVE  ReadFrom(s, K) \in Seq(Val)
<1>1. PICK g : Reads(g, s, K)
  BY ReadsExist
<1> DEFINE odd == {i \in 0 .. Len(s) : g[i] \notin Seq(Val)}
<1>2. odd = {}
  <2>1. SUFFICES ASSUME odd # {} PROVE FALSE
    OBVIOUS
  <2>2. Len(s) \in Nat /\ odd \in SUBSET Nat
    OBVIOUS
  <2>3. PICK i \in odd : \A j \in odd : ~(j < i)
    BY <2>1, <2>2, Least, Zenon
  <2>4. g[i] = IF i = 0 THEN <<>>
               ELSE IF s[i] \in K THEN Append(g[i - 1], s[i].val) ELSE g[i - 1]
    BY <1>1, <2>3, ReadsAt
  <2>5. i # 0
    <3>1. <<>> \in Seq(Val)
      BY EmptySeq
    <3>2. ~(g[i] \in Seq(Val))
      BY <2>3
    <3> QED BY <2>4, <3>1, <3>2, Zenon
  <2>6. i - 1 \in 0 .. Len(s) /\ i - 1 \notin odd /\ s[i] \in Line
    BY <2>2, <2>3, <2>5
  <2>7. g[i - 1] \in Seq(Val) /\ (s[i] \in K => s[i].val \in Val)
    BY <2>6
  <2>8. s[i] \in K => Append(g[i - 1], s[i].val) \in Seq(Val)
    BY <2>7, AppendProperties
  <2>9. g[i] \in Seq(Val)
    BY <2>4, <2>5, <2>7, <2>8, Zenon
  <2> QED BY <2>3, <2>9
<1>3. g[Len(s)] \in Seq(Val)
  BY <1>2
<1> QED BY <1>1, <1>3, ReadFromIs

(* A line less at the front is a reading less at the front, or none.        *)
LEMMA ReadFromTail ==
  ASSUME NEW K, NEW s \in Seq(Line), s # <<>>, \A l \in Line : l \in K => l.val \in Val
  PROVE  /\ Head(s) \in K => ReadFrom(s, K) = <<Head(s).val>> \o ReadFrom(Tail(s), K)
         /\ Head(s) \notin K => ReadFrom(s, K) = ReadFrom(Tail(s), K)
<1>1. PICK q \in Seq(Line) : q = Tail(s)
  BY HeadTailProperties
<1>2. /\ Len(s) \in Nat /\ Len(s) >= 1 /\ Head(s) = s[1] /\ s[1] \in Line /\ Len(q) = Len(s) - 1
      /\ \A i \in 1 .. Len(q) : q[i] = s[i + 1]
  BY <1>1, HeadTailProperties, EmptySeq, ElementOfSeq
<1>3. PICK g : Reads(g, s, K)
  BY ReadsExist
<1>4. PICK h : Reads(h, q, K)
  BY ReadsExist
<1>5. PICK first : first = IF s[1] \in K THEN <<s[1].val>> ELSE <<>>
  OBVIOUS
<1>6. first \in Seq(Val) /\ g[1] = first
  <2>1. g[0] = <<>>
    BY <1>2, <1>3, ReadsAt
  <2>2. g[1] = IF s[1] \in K THEN Append(g[0], s[1].val) ELSE g[0]
    <3>1. 1 \in 0 .. Len(s)
      BY <1>2
    <3>2. g[1] = IF 1 = 0 THEN <<>> ELSE IF s[1] \in K THEN Append(g[1 - 1], s[1].val) ELSE g[1 - 1]
      BY <1>3, <3>1, ReadsAt
    <3> QED BY <3>2
  <2>3. \A v \in Val : <<v>> \in Seq(Val) /\ Append(<<>>, v) = <<v>>
    OBVIOUS
  <2>4. s[1] \in K => s[1].val \in Val
    BY <1>2
  <2>5. CASE s[1] \in K
    BY <1>5, <2>1, <2>2, <2>3, <2>4, <2>5
  <2>6. CASE s[1] \notin K
    BY <1>5, <2>1, <2>2, <2>6
  <2> QED BY <2>5, <2>6
<1>7. \A i \in 0 .. Len(q) : h[i] \in Seq(Val) /\ g[i + 1] = first \o h[i]
  <2> DEFINE odd == {i \in 0 .. Len(q) : ~(h[i] \in Seq(Val) /\ g[i + 1] = first \o h[i])}
  <2>1. SUFFICES ASSUME odd # {} PROVE FALSE
    OBVIOUS
  <2>2. Len(q) \in Nat /\ odd \in SUBSET Nat
    OBVIOUS
  <2>3. PICK i \in odd : \A j \in odd : ~(j < i)
    BY <2>1, <2>2, Least, Zenon
  <2>4. h[i] = IF i = 0 THEN <<>>
               ELSE IF q[i] \in K THEN Append(h[i - 1], q[i].val) ELSE h[i - 1]
    BY <1>4, <2>3, ReadsAt
  <2>5. i # 0
    <3>1. first \o <<>> = first /\ <<>> \in Seq(Val)
      BY <1>6, ConcatEmptySeq, EmptySeq
    <3>2. SUFFICES ASSUME i = 0 PROVE FALSE
      OBVIOUS
    <3>3. h[i] = <<>> /\ i + 1 = 1
      BY <2>4, <3>2
    <3>4. h[i] \in Seq(Val) /\ g[i + 1] = first \o h[i]
      BY <1>6, <3>1, <3>3, Zenon
    <3> QED BY <2>3, <3>4
  <2>6. /\ i - 1 \in 0 .. Len(q) /\ i - 1 \notin odd /\ q[i] = s[i + 1] /\ s[i + 1] \in Line
        /\ i + 1 \in 0 .. Len(s) /\ i + 1 # 0
    <3>1. i \in 1 .. Len(q) /\ i - 1 \in 0 .. Len(q) /\ i + 1 \in 1 .. Len(s) /\ i + 1 # 0
      BY <1>2, <2>2, <2>3, <2>5
    <3>2. i - 1 \notin odd
      BY <2>2, <2>3
    <3>3. s[i + 1] \in Line
      BY <3>1, ElementOfSeq
    <3> QED BY <1>2, <3>1, <3>2, <3>3
  <2>7. g[i + 1] = IF q[i] \in K THEN Append(g[i], q[i].val) ELSE g[i]
    <3>1. PICK n : n = i + 1
      OBVIOUS
    <3>2. n \in 0 .. Len(s) /\ n # 0 /\ n - 1 = i /\ s[n] = q[i]
      BY <2>2, <2>3, <2>6, <3>1
    <3>3. g[n] = IF n = 0 THEN <<>>
                 ELSE IF s[n] \in K THEN Append(g[n - 1], s[n].val) ELSE g[n - 1]
      BY <1>3, <3>2, ReadsAt
    <3> QED BY <3>1, <3>2, <3>3
  <2>8. h[i - 1] \in Seq(Val) /\ g[i] = first \o h[i - 1]
    <3>1. (i - 1) + 1 = i
      BY <2>2, <2>3
    <3> QED BY <2>6, <3>1
  <2>9. CASE q[i] \in K
    <3>1. q[i].val \in Val
      BY <2>6, <2>9
    <3>2. h[i] = Append(h[i - 1], q[i].val) /\ g[i + 1] = Append(first \o h[i - 1], q[i].val)
      BY <2>4, <2>5, <2>7, <2>8, <2>9
    <3>3. \A a, b \in Seq(Val), v \in Val :
            Append(b, v) \in Seq(Val) /\ Append(a \o b, v) = a \o Append(b, v)
      <4>1. ASSUME NEW a \in Seq(Val), NEW b \in Seq(Val), NEW v \in Val
            PROVE  Append(b, v) \in Seq(Val) /\ Append(a \o b, v) = a \o Append(b, v)
        <5>1. a \o b \in Seq(Val) /\ <<v>> \in Seq(Val)
          BY ConcatProperties
        <5>2. Append(a \o b, v) = (a \o b) \o <<v>> /\ Append(b, v) = b \o <<v>>
          BY <5>1, AppendIsConcat
        <5>3. (a \o b) \o <<v>> = a \o (b \o <<v>>)
          BY <5>1, ConcatAssociative
        <5> QED BY <5>2, <5>3, AppendProperties, Zenon
      <4> QED BY <4>1, Zenon
    <3>4. h[i] \in Seq(Val) /\ g[i + 1] = first \o h[i]
      <4>1. Append(first \o h[i - 1], q[i].val) = first \o Append(h[i - 1], q[i].val)
            /\ Append(h[i - 1], q[i].val) \in Seq(Val)
        BY <1>6, <2>8, <3>1, <3>3
      <4> QED BY <3>2, <4>1, Zenon
    <3> QED BY <2>3, <3>4
  <2>10. CASE q[i] \notin K
    BY <2>3, <2>4, <2>5, <2>7, <2>8, <2>10
  <2> QED BY <2>9, <2>10
<1>8. ReadFrom(s, K) = g[Len(s)] /\ ReadFrom(q, K) = h[Len(q)]
  BY <1>3, <1>4, ReadFromIs
<1>9. g[Len(s)] = first \o h[Len(q)] /\ h[Len(q)] \in Seq(Val)
  BY <1>2, <1>7
<1>10. \A a \in Seq(Val) : <<>> \o a = a
  OBVIOUS
<1> QED BY <1>1, <1>2, <1>5, <1>8, <1>9, <1>10

(* After the scan there is nothing left to read, and nobody who would print. *)
Drained == pc \in {"wait", "stop"} => stdout = <<>> /\ child # "up"

(* Every step keeps it: the scan ends with an empty pipe and no child.      *)
LEMMA DrainedStep == ASSUME IInv, Drained, [Next]_vars PROVE Drained'
<1> USE Paths DEF IInv, Drained, childVars
<1>1. CASE Start \/ StartFails \/ StartIgnored
  BY <1>1 DEF Start, StartFails, StartIgnored, NextRun
<1>2. CASE Panic \/ WriteCsv \/ Spawn \/ ScanLine \/ WritePoint
  BY <1>2 DEF Panic, WriteCsv, Spawn, ScanLine, WritePoint
<1>3. CASE ScanEnds
  BY <1>3 DEF ScanEnds
<1>4. CASE Wait
  BY <1>4 DEF Wait
<1>5. CASE StopTicker
  BY <1>5 DEF StopTicker
<1>6. CASE Child \/ Tick \/ ChildBeats \/ ChildDies
  BY <1>6 DEF Child, ChildTakes, ChildPrints, Tick, ChildBeats, ChildDies
<1>7. ASSUME NEW r \in Runs, Writer(r) PROVE Drained'
  BY <1>7 DEF Writer, TakeTick, WriteGet
<1>8. CASE UNCHANGED vars
  BY <1>8 DEF vars
<1> QED BY <1>1, <1>2, <1>3, <1>4, <1>5, <1>6, <1>7, <1>8 DEF Next, Main

(* It holds in every reachable state.                                       *)
LEMMA DrainedAlways == Spec => [](IInv /\ Drained)
<1>1. Init => Drained
  BY DEF Init, Drained
<1>2. IInv /\ Drained /\ [Next]_vars => Drained'
  BY DrainedStep
<1> QED BY <1>1, <1>2, Invariance, PTL DEF Spec

(* What is under way to a point, as a recursion over the lines in the pipe. *)
Kept == {l \in Line : IsReading(l)}

UnderWay == InFlight = point \o ReadFrom(stdout, Kept)

(* That is what InFlight says, since Readings is the recursion.             *)
LEMMA InFlightIs == IInv => UnderWay
<1>1. IInv => stdout \in Seq(Line)
  BY DEF IInv, TypeOK
<1> QED BY <1>1, ReadingsAre DEF UnderWay, InFlight, Kept

(* What is kept are lines with a reading on them.                           *)
LEMMA KeptIs ==
  /\ Kept \subseteq Line
  /\ \A l \in Line : l \in Kept <=> IsReading(l)
  /\ \A l \in Line : l \in Kept => l.val \in Val
  BY DEF Kept, IsReading, Line

(* Each step of the worker and its child is a step of the relay, or none.   *)
LEMMA RelayStep ==
  ASSUME IInv, Drained, UnderWay, UnderWay', [Next]_vars
  PROVE  [R!RelayNext]_(R!relayVars)
<1>1. IInv' /\ program' = program
  <2>1. IInv'
    BY TypeStep, ReapedStep, CsvStep, SilentStep, SpawnedStep, StoppedStep DEF IInv
  <2>2. program' = program
    BY DEF Next, Main, Child, Writer, vars, Start, StartFails, StartIgnored, NextRun,
           Panic, WriteCsv, Spawn, ScanLine, WritePoint, ScanEnds, Wait, StopTicker, ChildTakes,
           ChildPrints, Tick, ChildBeats, ChildDies, TakeTick, WriteGet
  <2> QED BY <2>1, <2>2
<1>2. PICK K : K = Kept
  OBVIOUS
<1>3. Kept' = K
  BY <1>1, <1>2 DEF Kept, IsReading, Asks
<1>4. InFlight = point \o ReadFrom(stdout, K)
  BY <1>2 DEF UnderWay
<1>5. InFlight' = point' \o ReadFrom(stdout', K)
  BY <1>3 DEF UnderWay
<1>6. /\ point \in Seq(Val) /\ stdout \in Seq(Line) /\ ReadFrom(stdout, K) \in Seq(Val)
      /\ \A l \in Line : (l \in K <=> IsReading(l)) /\ (l \in K => l.val \in Val)
      /\ pc # "send" => point = <<>>
      /\ \A a \in Seq(Val) : <<>> \o a = a /\ a \o <<>> = a
  <2>1. point \in Seq(Val) /\ stdout \in Seq(Line) /\ (pc # "send" => Len(point) = 0)
    BY DEF IInv, TypeOK
  <2>2. \A l \in Line : (l \in K <=> IsReading(l)) /\ (l \in K => l.val \in Val)
    BY <1>2, KeptIs
  <2>3. ReadFrom(stdout, K) \in Seq(Val)
    BY <2>1, <2>2, ReadFromTyped
  <2>4. \A a \in Seq(Val) : <<>> \o a = a /\ a \o <<>> = a
    BY ConcatEmptySeq
  <2>5. pc # "send" => point = <<>>
    BY <2>1, EmptySeq
  <2> QED BY <2>1, <2>2, <2>3, <2>4, <2>5
<1>7. ASSUME UNCHANGED <<run, point, stdout, sent>>
      PROVE  UNCHANGED R!relayVars
  BY <1>4, <1>5, <1>7 DEF R!relayVars
<1>8. CASE Start \/ StartFails \/ StartIgnored
  <2>1. NextRun
    BY <1>8 DEF Start, StartFails, StartIgnored
  <2>2. /\ pc = "open" /\ run' = run + 1 /\ sent' = <<>>
        /\ point' = point /\ stdout' = stdout
    BY <2>1 DEF NextRun
  <2>3. stdout = <<>> /\ point = <<>>
    BY <1>6, <2>2 DEF IInv, Reaped
  <2>4. InFlight = <<>> /\ InFlight' = <<>>
    BY <1>4, <1>5, <1>6, <2>2, <2>3, ReadFromEmpty
  <2> QED BY <2>2, <2>4 DEF R!RelayNext, R!NewRun
<1>9. CASE ScanLine
  <2>1. /\ pc = "scan" /\ stdout # <<>> /\ stdout' = Tail(stdout) /\ UNCHANGED <<run, sent>>
        /\ IsReading(Head(stdout)) => point' = <<Head(stdout).val>>
        /\ ~IsReading(Head(stdout)) => point' = point
    BY <1>9 DEF ScanLine
  <2>2. /\ point = <<>> /\ Head(stdout) \in Line /\ Tail(stdout) \in Seq(Line)
        /\ Head(stdout) \in K <=> IsReading(Head(stdout))
    BY <1>6, <2>1, HeadTailProperties
  <2>3. /\ Head(stdout) \in K
             => ReadFrom(stdout, K) = <<Head(stdout).val>> \o ReadFrom(Tail(stdout), K)
        /\ Head(stdout) \notin K => ReadFrom(stdout, K) = ReadFrom(Tail(stdout), K)
    BY <1>6, <2>1, ReadFromTail
  <2>4. InFlight = ReadFrom(stdout, K) /\ InFlight' = point' \o ReadFrom(Tail(stdout), K)
    BY <1>4, <1>5, <1>6, <2>1, <2>2
  <2>5. ReadFrom(Tail(stdout), K) \in Seq(Val)
    BY <1>6, <2>2, ReadFromTyped
  <2>6. InFlight' = InFlight
    BY <1>6, <2>1, <2>2, <2>3, <2>4, <2>5
  <2> QED BY <2>1, <2>6 DEF R!relayVars
<1>10. CASE WritePoint
  <2>1. /\ pc = "send" /\ sent' = sent \o point /\ point' = <<>> /\ UNCHANGED <<run, stdout>>
    BY <1>10 DEF WritePoint, childVars
  <2>2. sent \in Seq(Val) /\ Len(point) = 1
    BY <2>1 DEF IInv, TypeOK
  <2>3. PICK v \in Val : point = <<v>>
    <3>1. point[1] \in Val
      <4>1. point \in Seq(Val) /\ 1 \in 1 .. Len(point)
        BY <1>6, <2>2
      <4> QED BY <4>1, ElementOfSeq, Zenon
    <3>2. <<point[1]>> \in Seq(Val) /\ Len(<<point[1]>>) = 1 /\ <<point[1]>>[1] = point[1]
      BY <3>1
    <3>3. point = <<point[1]>>
      BY <1>6, <2>2, <3>2, SeqEqual
    <3> QED BY <3>1, <3>3
  <2>4. PICK rest \in Seq(Val) : rest = ReadFrom(stdout, K)
    BY <1>6
  <2>5. InFlight = <<v>> \o rest /\ InFlight' = rest
    BY <1>4, <1>5, <1>6, <2>1, <2>3, <2>4
  <2>6. /\ <<v>> \o rest # <<>> /\ Head(<<v>> \o rest) = v /\ Tail(<<v>> \o rest) = rest
    <3>1. <<v>> \in Seq(Val) /\ Len(<<v>>) = 1 /\ <<v>>[1] = v
      OBVIOUS
    <3>2. /\ <<v>> \o rest \in Seq(Val) /\ Len(<<v>> \o rest) = 1 + Len(rest)
          /\ \A i \in 1 .. 1 + Len(rest) :
               (<<v>> \o rest)[i] = IF i <= 1 THEN <<v>>[i] ELSE rest[i - 1]
      BY <3>1, ConcatProperties
    <3>3. Len(rest) \in Nat
      BY LenProperties
    <3>4. <<v>> \o rest # <<>>
      BY <3>2, <3>3, EmptySeq
    <3>5. PICK t : t = <<v>> \o rest
      OBVIOUS
    <3>6. /\ Head(t) = t[1] /\ Tail(t) \in Seq(Val) /\ Len(Tail(t)) = Len(t) - 1
          /\ \A i \in 1 .. Len(Tail(t)) : Tail(t)[i] = t[i + 1]
      BY <3>2, <3>4, <3>5, HeadTailProperties
    <3>7. Head(t) = v
      BY <3>1, <3>2, <3>3, <3>5, <3>6
    <3>8. Len(Tail(t)) = Len(rest) /\ \A i \in 1 .. Len(Tail(t)) : Tail(t)[i] = rest[i]
      BY <3>2, <3>3, <3>5, <3>6
    <3>9. Tail(t) = rest
      BY <3>6, <3>8, SeqEqual
    <3> QED BY <3>4, <3>5, <3>7, <3>9
  <2>7. sent' = Append(sent, v)
    BY <2>1, <2>2, <2>3, AppendIsConcat
  <2>8. R!Deliver
    BY <2>1, <2>5, <2>6, <2>7 DEF R!Deliver
  <2> QED BY <2>8 DEF R!RelayNext
<1>11. CASE Wait
  <2>1. stdout = <<>> /\ stdout' = <<>> /\ UNCHANGED <<run, point, sent>>
    BY <1>11 DEF Wait, Drained
  <2> QED BY <1>7, <2>1
<1>12. ASSUME NEW l \in Line, stdout' = Append(stdout, l), UNCHANGED <<run, point, sent>>
       PROVE  [R!RelayNext]_(R!relayVars)
  <2>1. ReadFrom(stdout', K)
          = IF l \in K THEN Append(ReadFrom(stdout, K), l.val) ELSE ReadFrom(stdout, K)
    BY <1>6, <1>12, ReadFromAppend
  <2>2. CASE l \in K
    <3>1. l.val \in Val
      BY <1>6, <2>2
    <3>2. point \o Append(ReadFrom(stdout, K), l.val) = Append(point \o ReadFrom(stdout, K), l.val)
      <4>1. PICK a \in Seq(Val), b \in Seq(Val), v \in Val :
              a = point /\ b = ReadFrom(stdout, K) /\ v = l.val
        BY <1>6, <3>1
      <4>2. a \o b \in Seq(Val) /\ <<v>> \in Seq(Val)
        BY ConcatProperties
      <4>3. Append(a \o b, v) = (a \o b) \o <<v>> /\ Append(b, v) = b \o <<v>>
        BY <4>2, AppendIsConcat
      <4>4. (a \o b) \o <<v>> = a \o (b \o <<v>>)
        BY <4>2, ConcatAssociative
      <4> QED BY <4>1, <4>3, <4>4
    <3>3. R!Emit(l.val)
      BY <1>4, <1>5, <1>12, <2>1, <2>2, <3>2 DEF R!Emit
    <3> QED BY <3>1, <3>3 DEF R!RelayNext
  <2>3. CASE l \notin K
    BY <1>4, <1>5, <1>12, <2>1, <2>3 DEF R!relayVars
  <2> QED BY <2>2, <2>3
<1>13. CASE ChildPrints
  <2>1. reply \in Seq(Line) /\ reply # <<>>
    BY <1>13 DEF IInv, TypeOK, ChildPrints
  <2>2. Head(reply) \in Line
    BY <2>1, HeadTailProperties
  <2>3. stdout' = Append(stdout, Head(reply)) /\ UNCHANGED <<run, point, sent>>
    BY <1>13 DEF ChildPrints
  <2> QED BY <1>12, <2>2, <2>3
<1>14. CASE ChildDies
  <2>1. UNCHANGED <<run, point, sent>>
    BY <1>14 DEF ChildDies
  <2>2. CASE UNCHANGED stdout
    BY <1>7, <2>1, <2>2
  <2>3. CASE \E l \in Cuts : stdout' = Append(stdout, l)
    BY <1>12, <2>1, <2>3, RepliesAssumption
  <2> QED BY <1>14, <2>2, <2>3 DEF ChildDies
<1>15. CASE Panic \/ WriteCsv \/ Spawn \/ ScanEnds \/ StopTicker
  BY <1>7, <1>15 DEF Panic, WriteCsv, Spawn, ScanEnds, StopTicker, childVars
<1>16. CASE ChildTakes \/ Tick \/ ChildBeats
  BY <1>7, <1>16 DEF ChildTakes, Tick, ChildBeats, childVars
<1>17. ASSUME NEW r \in Runs, Writer(r)
       PROVE  UNCHANGED R!relayVars
  BY <1>7, <1>17 DEF Writer, TakeTick, WriteGet, childVars
<1>18. CASE UNCHANGED vars
  BY <1>7, <1>18 DEF vars, childVars
<1> QED
  BY <1>8, <1>9, <1>10, <1>11, <1>13, <1>14, <1>15, <1>16, <1>17, <1>18 DEF Next, Main, Child

(* Each of the four workers relays its child: whatever the child prints, in *)
(* whatever portions, and whenever it dies, each of its readings becomes    *)
(* one point, in order, before the next run begins.                         *)
THEOREM WorkerImplementsRelay == Spec => ImplementsRelay
<1>1. Init => R!RelayInit
  <2> SUFFICES ASSUME Init PROVE R!RelayInit
    OBVIOUS
  <2>1. run = 0 /\ sent = <<>> /\ point = <<>> /\ stdout = <<>>
    BY DEF Init
  <2>2. InFlight = <<>> \o <<>>
    BY <2>1, InitIInv, InFlightIs, ReadFromEmpty DEF UnderWay
  <2>3. <<>> \o <<>> = <<>>
    BY ConcatEmptySeq, EmptySeq
  <2> QED BY <2>1, <2>2, <2>3 DEF R!RelayInit
<1>2. IInv /\ Drained /\ UnderWay /\ UnderWay' /\ [Next]_vars => [R!RelayNext]_(R!relayVars)
  BY RelayStep
<1> QED BY <1>1, <1>2, DrainedAlways, InFlightIs, PTL DEF Spec, ImplementsRelay, R!RelaySpec
=============================================================================
