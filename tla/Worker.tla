-------------------------------- MODULE Worker ------------------------------
(***************************************************************************)
(* A worker that runs a child process again and again and turns what it    *)
(* prints into points: IPMIMonitor and NVIDIAMonitor of asc-monitor,       *)
(* hostWorker of ipmi-sdr and run of nvidia-dmon.  The IPMI workers also   *)
(* have a goroutine that sends the child a command at every tick.          *)
(***************************************************************************)
EXTENDS Naturals, Sequences

CONSTANTS Programs,     \* which of the four workers are considered
          Val, Bad,     \* what ParseFloat or Atoi makes of a field: a reading or an error
          Replies,      \* what a child prints for one request, or at one beat of its own
          Cuts,         \* what is left of a line when the child dies in the middle
          StdinCap, StdoutCap,      \* capacity of the pipes, in commands and lines
          MaxRuns, MaxBeats         \* bounds: runs, and ticks or beats per run

AllPrograms == {"asc-ipmi", "ipmi-sdr", "asc-nvidia", "nvidia-dmon"}
ASSUME ProgramsAssumption == Programs \subseteq AllPrograms /\ Bad \notin Val
ASSUME BoundsAssumption == {StdinCap, StdoutCap, MaxRuns, MaxBeats} \subseteq Nat \ {0}

\* What is on a line: its first word, the number of its fields, the value.  "Sensor
\* ID" is the heading ipmitool gives a sensor when it does not print csv.
Line == [head : {"ipmitool>", "#", "Sensor ID", "data"}, fields : 0 .. 6, val : Val \cup {Bad}]
CsvLine == {l \in Line : l.head # "Sensor ID"}
ASSUME RepliesAssumption == Replies \subseteq Seq(CsvLine) /\ Cuts \subseteq Line

VARIABLES program,      \* the worker at hand; it never changes
          run,          \* the run under way, from 1
          pc,           \* where the worker is
          point,        \* the reading it is about to write
          child,        \* the child of this run: "none", "up" or "dead"
          csv,          \* whether ipmitool's csv mode is on
          reply,        \* what the child has still to print
          stdin, stdout,            \* the pipes of this run
          beats,        \* ticks or beats of this run
          ticker,       \* per run: "none", "running" or "stopped"
          tick,         \* per run: ticks in the channel ticker.C
          writer,       \* per run: the goroutine, "none", "wait" or "write"
          sent          \* history: the points of this run

childVars == <<child, csv, reply, stdout>>
clockVars == <<beats, ticker, tick, writer>>
vars == <<program, run, pc, point, childVars, stdin, clockVars, sent>>

Runs == 1 .. MaxRuns
Asks == program \in {"asc-ipmi", "ipmi-sdr"}

\* The statements after the scan, deferred calls included: ipmi.go returns
\* cmd.Wait() and then stops the ticker, ipmi-sdr defers both.
AfterScan == IF program = "ipmi-sdr" THEN "stop" ELSE "wait"
AfterWait == IF program = "asc-ipmi" THEN "stop" ELSE "open"
AfterStop == IF program = "asc-ipmi" THEN "open" ELSE "wait"

\* What ipmitool prints for `sdr get` before `set csv 1`: no commas, no points.
TextReply == <<[head |-> "Sensor ID", fields |-> 1, val |-> Bad]>>

\* A line is [head, fields, val].  The loop's `continue`s: prompts and comments,
\* lines with too few (IPMI) or the wrong number (NVIDIA) of fields, bad numbers.
IsReading(line) ==
  /\ line.head # (IF Asks THEN "ipmitool>" ELSE "#")
  /\ IF Asks THEN line.fields >= 2 ELSE line.fields = 6
  /\ line.val # Bad

\* The readings on lines, in their order.
Readings(lines) ==
  LET upto[n \in 0 .. Len(lines)] ==       \* on the first n lines
        IF n = 0 THEN <<>>
        ELSE IF IsReading(lines[n]) THEN Append(upto[n - 1], lines[n].val) ELSE upto[n - 1]
  IN upto[Len(lines)]

InFlight == point \o Readings(stdout)
R == INSTANCE Relay WITH inflight <- InFlight

Init ==
  /\ program \in Programs
  /\ run = 0 /\ pc = "open" /\ point = <<>>
  /\ child = "none" /\ csv = FALSE /\ reply = <<>> /\ stdin = <<>> /\ stdout = <<>>
  /\ beats = 0 /\ sent = <<>>
  /\ ticker = [r \in Runs |-> "none"] /\ tick = [r \in Runs |-> 0]
  /\ writer = [r \in Runs |-> "none"]

\* Faulty variant: `set csv 1` is forgotten.
AfterStart_NoCsv == IF Asks THEN "spawn" ELSE "scan"

\* The first statement after cmd.Start().
AfterStart == IF Asks THEN "csv" ELSE "scan"

\* The pipes and the child of a new run.
NextRun ==
  /\ pc = "open" /\ run < MaxRuns /\ run' = run + 1
  /\ beats' = 0 /\ sent' = <<>>
  /\ UNCHANGED <<program, point, reply, stdin, stdout, ticker, tick, writer>>

Start == NextRun /\ child' = "up" /\ csv' = FALSE /\ pc' = AfterStart

\* asc-monitor returns an error of StdinPipe, StdoutPipe or Start to workerLoop.
StartFails ==
  /\ program \in {"asc-ipmi", "asc-nvidia"}
  /\ NextRun /\ pc' = "open" /\ UNCHANGED <<child, csv>>

\* ipmi-sdr ignores an error of Start and goes on without a child.
StartIgnored ==
  /\ program = "ipmi-sdr"
  /\ NextRun /\ pc' = AfterStart /\ UNCHANGED <<child, csv>>

\* ipmi-sdr and nvidia-dmon use a nil pipe when they cannot have one, nvidia-dmon
\* panics when Start fails: the process dies with all its goroutines.
Panic ==
  /\ pc = "open" /\ run < MaxRuns /\ program \in {"ipmi-sdr", "nvidia-dmon"}
  /\ pc' = "panic"
  /\ ticker' = [r \in Runs |-> "none"] /\ tick' = [r \in Runs |-> 0]
  /\ writer' = [r \in Runs |-> "none"]
  /\ UNCHANGED <<program, run, point, childVars, stdin, beats, sent>>

\* A write to a child that is not there fails, and its error is ignored.
WriteCsv ==
  /\ pc = "csv" /\ pc' = "spawn"
  /\ stdin' = IF child = "up" THEN Append(stdin, "csv") ELSE stdin
  /\ UNCHANGED <<program, run, point, childVars, clockVars, sent>>

Spawn ==
  /\ pc = "spawn" /\ pc' = "scan"
  /\ ticker' = [ticker EXCEPT ![run] = "running"]
  /\ writer' = [writer EXCEPT ![run] = "wait"]
  /\ UNCHANGED <<program, run, point, childVars, stdin, beats, tick, sent>>

\* Faulty variant: ticks pile up in the channel.
Tick_Queues ==
  /\ run > 0 /\ ticker[run] = "running" /\ beats < MaxBeats
  /\ beats' = beats + 1 /\ tick' = [tick EXCEPT ![run] = @ + 1]
  /\ UNCHANGED <<program, run, pc, point, childVars, stdin, ticker, writer, sent>>

\* The runtime drops a tick that finds the channel full.
Tick ==
  /\ run > 0 /\ ticker[run] = "running" /\ beats < MaxBeats
  /\ beats' = beats + 1 /\ tick' = [tick EXCEPT ![run] = 1]
  /\ UNCHANGED <<program, run, pc, point, childVars, stdin, ticker, writer, sent>>

\* for range ticker.C: the channel of a stopped ticker is never closed.
TakeTick(r) ==
  /\ writer[r] = "wait" /\ tick[r] > 0
  /\ tick' = [tick EXCEPT ![r] = @ - 1] /\ writer' = [writer EXCEPT ![r] = "write"]
  /\ UNCHANGED <<program, run, pc, point, childVars, stdin, beats, ticker, sent>>

\* Faulty variant: a write that fails is tried again.
WriteGet_Retries(r) ==
  /\ writer[r] = "write"
  /\ IF r = run /\ child = "up"
     THEN /\ Len(stdin) < StdinCap /\ stdin' = Append(stdin, "get")
          /\ writer' = [writer EXCEPT ![r] = "wait"]
     ELSE UNCHANGED <<stdin, writer>>
  /\ UNCHANGED <<program, run, pc, point, childVars, beats, ticker, tick, sent>>

\* stdinW.Write(b) blocks while the pipe is full; it fails, and the error is
\* ignored, when the child has gone or the pipe of this run has been closed.
WriteGet(r) ==
  /\ writer[r] = "write"
  /\ IF r = run /\ child = "up"
     THEN Len(stdin) < StdinCap /\ stdin' = Append(stdin, "get")
     ELSE UNCHANGED stdin
  /\ writer' = [writer EXCEPT ![r] = "wait"]
  /\ UNCHANGED <<program, run, pc, point, childVars, beats, ticker, tick, sent>>

\* Faulty variant: one goroutine for both pipes reads only when it can also write.
ScanLine_WhenWritable ==
  /\ pc = "scan" /\ stdout # <<>> /\ stdout' = Tail(stdout)
  /\ Len(stdin) < StdinCap
  /\ IF IsReading(Head(stdout))
     THEN pc' = "send" /\ point' = <<Head(stdout).val>>
     ELSE UNCHANGED <<pc, point>>
  /\ UNCHANGED <<program, run, child, csv, reply, stdin, clockVars, sent>>

\* One turn of the scanner's loop.
ScanLine ==
  /\ pc = "scan" /\ stdout # <<>> /\ stdout' = Tail(stdout)
  /\ IF IsReading(Head(stdout))
     THEN pc' = "send" /\ point' = <<Head(stdout).val>>
     ELSE UNCHANGED <<pc, point>>
  /\ UNCHANGED <<program, run, child, csv, reply, stdin, clockVars, sent>>

\* writeAPI.WritePoint(p), which may take its time.
WritePoint ==
  /\ pc = "send" /\ pc' = "scan"
  /\ sent' = sent \o point /\ point' = <<>>
  /\ UNCHANGED <<program, run, childVars, stdin, clockVars>>

\* Faulty variant: the worker waits for the child before it has read everything.
ScanEnds_Early ==
  /\ pc = "scan" /\ child # "up" /\ pc' = AfterScan
  /\ UNCHANGED <<program, run, point, childVars, stdin, clockVars, sent>>

\* Scan returns false at the end of the output, when the child is gone.
ScanEnds ==
  /\ pc = "scan" /\ stdout = <<>> /\ child # "up" /\ pc' = AfterScan
  /\ UNCHANGED <<program, run, point, childVars, stdin, clockVars, sent>>

\* Faulty variant: the worker also waits for its goroutine.
Wait_Joins ==
  /\ pc = "wait" /\ child # "up" /\ writer[run] = "none" /\ pc' = AfterWait
  /\ child' = "none" /\ stdin' = <<>> /\ stdout' = <<>>
  /\ UNCHANGED <<program, run, point, csv, reply, clockVars, sent>>

\* cmd.Wait() reaps the child and closes the worker's ends of the pipes.
Wait ==
  /\ pc = "wait" /\ child # "up" /\ pc' = AfterWait
  /\ child' = "none" /\ stdin' = <<>> /\ stdout' = <<>>
  /\ UNCHANGED <<program, run, point, csv, reply, clockVars, sent>>

\* Faulty variant: the ticker is left running.
StopTicker_Not ==
  /\ pc = "stop" /\ pc' = AfterStop
  /\ UNCHANGED <<program, run, point, childVars, stdin, clockVars, sent>>

\* ticker.Stop()
StopTicker ==
  /\ pc = "stop" /\ pc' = AfterStop
  /\ ticker' = [ticker EXCEPT ![run] = "stopped"]
  /\ UNCHANGED <<program, run, point, childVars, stdin, beats, tick, writer, sent>>

\* ipmitool's shell takes its commands in order; nvidia-smi prints on its own.
ChildTakes ==
  /\ child = "up" /\ reply = <<>> /\ stdin # <<>> /\ stdin' = Tail(stdin)
  /\ IF Head(stdin) = "csv" THEN csv' = TRUE /\ UNCHANGED reply
     ELSE /\ reply' \in IF csv THEN Replies ELSE {TextReply}
          /\ UNCHANGED csv
  /\ UNCHANGED <<program, run, pc, point, child, stdout, clockVars, sent>>

ChildBeats ==
  /\ child = "up" /\ reply = <<>> /\ ~Asks /\ beats < MaxBeats
  /\ beats' = beats + 1 /\ reply' \in Replies
  /\ UNCHANGED <<program, run, pc, point, child, csv, stdout, stdin, ticker, tick, writer, sent>>

ChildPrints ==
  /\ child = "up" /\ reply # <<>> /\ Len(stdout) < StdoutCap
  /\ stdout' = Append(stdout, Head(reply)) /\ reply' = Tail(reply)
  /\ UNCHANGED <<program, run, pc, point, child, csv, stdin, clockVars, sent>>

\* The child exits or is killed, in the middle of a line or not.
ChildDies ==
  /\ child = "up" /\ child' = "dead" /\ stdin' = <<>> /\ reply' = <<>>
  /\ \/ UNCHANGED stdout
     \/ /\ reply # <<>> /\ Len(stdout) < StdoutCap
        /\ \E l \in Cuts : stdout' = Append(stdout, l)
  /\ UNCHANGED <<program, run, pc, point, csv, clockVars, sent>>

Main == \/ Start \/ StartFails \/ StartIgnored \/ Panic \/ WriteCsv \/ Spawn
        \/ ScanLine \/ WritePoint \/ ScanEnds \/ Wait \/ StopTicker
Writer(r) == TakeTick(r) \/ WriteGet(r)
Child == ChildTakes \/ ChildPrints

Next == Main \/ Child \/ Tick \/ ChildBeats \/ ChildDies \/ \E r \in Runs : Writer(r)

Spec == Init /\ [][Next]_vars

\* The goroutines run when they can: exec and WritePoint return (the client's
\* requests time out).  A child that is up takes what it is sent and prints its
\* reply; it need not stay up, and no tick has to come.
Fairness == WF_vars(Main) /\ WF_vars(Child) /\ \A r \in Runs : WF_vars(Writer(r))
FairSpec == Spec /\ Fairness
-----------------------------------------------------------------------------
TypeOK ==
  /\ program \in Programs /\ run \in 0 .. MaxRuns /\ beats \in 0 .. MaxBeats
  /\ pc \in {"open", "csv", "spawn", "scan", "send", "wait", "stop", "panic"}
  /\ point \in Seq(Val) /\ Len(point) = (IF pc = "send" THEN 1 ELSE 0)
  /\ child \in {"none", "up", "dead"} /\ csv \in BOOLEAN
  /\ reply \in Seq(Line) /\ stdout \in Seq(Line) /\ Len(stdout) <= StdoutCap
  /\ stdin \in Seq({"csv", "get"}) /\ Len(stdin) <= StdinCap
  /\ ticker \in [Runs -> {"none", "running", "stopped"}]
  /\ tick \in [Runs -> 0 .. 1] /\ writer \in [Runs -> {"none", "wait", "write"}]
  /\ sent \in Seq(Val)

\* No reading of a run is dropped, repeated or overtaken on its way to a point:
\* what the child left in the pipe is read before cmd.Wait closes it.
ImplementsRelay == R!RelaySpec

\* `sdr get` is answered in csv, from the first one on: "set csv 1" is in the pipe
\* before the goroutine that asks exists.
AlwaysCsv == reply # TextReply

\* A run's ticker is stopped before the next run begins: tickers do not pile up.
OneTickerRuns ==
  \A r \in Runs : ticker[r] = "running" => r = run /\ pc \notin {"open", "csv", "spawn"}

\* The goroutine of a run that is over is never freed, but it comes to rest: it
\* takes the tick left in its channel, fails to write, and is not heard of again.
AbandonedWritersRest ==
  \A r \in Runs : run > r ~> [](writer[r] # "write" /\ tick[r] = 0)

\* The worker and its child never wait for each other with both pipes full: as long
\* as there are commands in the pipe, the child goes on taking them.
PipesNeverJam == <>[](stdin # <<>>) => []<><<ChildTakes>>_vars

\* A dead child is reaped, and the next run begins unless the process gives up.
DeadChildIsReplaced ==
  \A r \in 1 .. MaxRuns - 1 : run = r /\ child = "dead" ~> run > r \/ pc = "panic"
=============================================================================
