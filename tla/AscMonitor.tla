----------------------------- MODULE AscMonitor -----------------------------
(***************************************************************************)
(* The monitors of one asc-monitor process and the write API they share,   *)
(* and apc-monitor, which is the APC monitor with a write API that waits   *)
(* for the database.  A host's worker is seen from outside here (Worker    *)
(* has its inside): it builds a command line, runs it and hands over       *)
(* points.  The write API is the InfluxDB client's and external: a         *)
(* goroutine that collects points in batches, and one that sends them.     *)
(***************************************************************************)
EXTENDS Naturals, Sequences, FiniteSets

CONSTANTS Programs,     \* which of the two programs are considered
          SSHHosts, LocalHosts,     \* hosts with a child: by ssh, or without
          Apc,          \* the APC monitor's name among the monitors
          Nil,          \* no word
          BatchSize, MaxQueue,      \* points per batch, batches waiting to be sent again
          MaxReads, MaxTicks    \* bounds: readings of all monitors, ticks

Hosts == SSHHosts \cup LocalHosts
Monitors == Hosts \cup {Apc}

ASSUME ProgramAssumption == Programs \subseteq {"asc-monitor", "apc-monitor"}
ASSUME HostsAssumption ==
  /\ IsFiniteSet(Hosts) /\ SSHHosts \cap LocalHosts = {}
  /\ Apc \notin Hosts /\ Nil \notin Hosts
ASSUME SizesAssumption ==
  /\ {BatchSize, MaxQueue} \subseteq Nat \ {0}
  /\ {MaxReads, MaxTicks} \subseteq Nat

VARIABLES program,      \* the program at hand; it never changes
          up,           \* the process is alive
          pc,           \* per monitor: where its goroutine is
          tick, ticks,  \* the APC ticker's channel, and how often it has fired
          reads,        \* per monitor: how many readings it has taken
          heap,         \* the arrays behind the slices of words
          cmdline,      \* per ssh host: the slice it is building
          buffer,       \* the points bufferProc has collected
          flushing,     \* bufferProc waits to hand its buffer over
          queue,        \* the batches writeProc has, oldest first
          sending,      \* writeProc is sending the first of them
          stored, lost  \* history: the points in the database, and those given up

ticker == <<tick, ticks>>
words == <<heap, cmdline>>
bufferProc == <<buffer, flushing>>
writeProc == <<queue, sending>>
books == <<stored, lost>>
vars == <<program, up, pc, ticker, reads, words, bufferProc, writeProc, books>>

Point == [by : Monitors, n : 1 .. MaxReads]
Latest(m) == [by |-> m, n |-> reads[m]]
Batches(q) == UNION {q[i] : i \in 1 .. Len(q)}
Held == {Latest(m) : m \in {k \in Monitors : pc[k] = "send"}}
Pending == (Held \cup buffer \cup Batches(queue)) \ stored
T == INSTANCE Telemetry WITH pending <- IF up THEN Pending ELSE {}

sshCommand == <<"ssh", "-o", "StrictHostKeyChecking=no", "-T">>
dmon == <<"nvidia-smi", "dmon", "-s", "pm">>

\* Faulty variant: the variable was built by append and has room for more.
SSHArray_Spare == sshCommand \o <<Nil, Nil, Nil, Nil>>

\* The array of a composite literal is as long as the literal.
SSHArray == sshCommand

\* The variable's array is nobody's; a host's two appends can make one each.
Arrays == {<<Nil, 0>>} \cup (SSHHosts \X {1, 2})
Shared == [array |-> <<Nil, 0>>, len |-> Len(sshCommand)]
Words(s) == SubSeq(heap[s.array], 1, s.len)

\* append(s, ws...): in place while the array has room, in a new one of at least
\* twice the size otherwise.
AppendWords(s, ws, fresh) ==
  LET need == s.len + Len(ws)
      fits == need <= Len(heap[s.array])
      array == IF fits THEN s.array ELSE fresh
      room == IF fits THEN Len(heap[s.array])
              ELSE IF need > 2 * Len(heap[s.array]) THEN need ELSE 2 * Len(heap[s.array])
      cell(i) == IF i > s.len /\ i <= need THEN ws[i - s.len]
                 ELSE IF i <= Len(heap[s.array]) THEN heap[s.array][i] ELSE Nil
  IN /\ heap' = [heap EXCEPT ![array] = [i \in 1 .. room |-> cell(i)]]
     /\ cmdline' = [cmdline EXCEPT ![fresh[1]] = [array |-> array, len |-> need]]

Init ==
  /\ program \in Programs /\ up = TRUE
  /\ pc = [m \in Monitors |-> IF m = Apc THEN "connect"
                         ELSE IF program = "asc-monitor" THEN "start" ELSE "off"]
  /\ tick = 0 /\ ticks = 0 /\ reads = [m \in Monitors |-> 0]
  /\ heap = [a \in Arrays |-> IF a = Shared.array THEN SSHArray ELSE <<>>]
  /\ cmdline = [h \in SSHHosts |-> Shared]
  /\ buffer = {} /\ flushing = FALSE /\ queue = <<>> /\ sending = FALSE
  /\ stored = {} /\ lost = {}

Goto(m, from, to) == up /\ pc[m] = from /\ pc' = [pc EXCEPT ![m] = to]

\* The process ends, and what it has not delivered is gone.
Dies ==
  /\ up' = FALSE /\ lost' = lost \cup Pending
  /\ UNCHANGED <<program, pc, ticker, reads, words, bufferProc, writeProc, stored>>

Killed == up /\ Dies

\* append(sshCommand, host.SSHName)
AppendName(h) ==
  /\ h \in SSHHosts /\ Goto(h, "start", "named") /\ AppendWords(Shared, <<h>>, <<h, 1>>)
  /\ UNCHANGED <<program, up, ticker, reads, bufferProc, writeProc, books>>

\* append(sshCmdline, cmdline...)
AppendDmon(h) ==
  /\ h \in SSHHosts /\ Goto(h, "named", "built") /\ AppendWords(cmdline[h], dmon, <<h, 2>>)
  /\ UNCHANGED <<program, up, ticker, reads, bufferProc, writeProc, books>>

\* exec.Command and cmd.Start, and an error of it or of StdoutPipe.
StartChild(h) ==
  /\ \E to \in {"run", "start"} : Goto(h, IF h \in SSHHosts THEN "built" ELSE "start", to)
  /\ heap' = [a \in Arrays |-> IF a \in {<<h, 1>>, <<h, 2>>} THEN <<>> ELSE heap[a]]
  /\ cmdline' = [k \in SSHHosts |-> IF k = h THEN Shared ELSE cmdline[k]]
  /\ UNCHANGED <<program, up, ticker, reads, bufferProc, writeProc, books>>

ChildEnds(h) ==
  /\ Goto(h, "run", "start")
  /\ UNCHANGED <<program, up, ticker, reads, words, bufferProc, writeProc, books>>

\* A new reading; its time is taken here, before WritePoint.
TakeReading(m) ==
  /\ Cardinality({p \in Point : p.n <= reads[p.by]}) < MaxReads
  /\ reads' = [reads EXCEPT ![m] = @ + 1]

ScanLine(h) ==
  /\ h \in Hosts /\ Goto(h, "run", "send") /\ TakeReading(h)
  /\ UNCHANGED <<program, up, ticker, words, bufferProc, writeProc, books>>

\* snmp.Connect, and time.NewTicker after it.
Connect ==
  /\ Goto(Apc, "connect", "poll")
  /\ UNCHANGED <<program, up, ticker, reads, words, bufferProc, writeProc, books>>

\* workerLoop of asc-monitor tries again; apc-monitor panics.
ConnectFails ==
  up /\ pc[Apc] = "connect" /\ program = "apc-monitor" /\ Dies

\* Faulty variant: ticks pile up in the channel.
Tick_Queues ==
  /\ up /\ pc[Apc] # "connect" /\ ticks < MaxTicks
  /\ ticks' = ticks + 1 /\ tick' = tick + 1
  /\ UNCHANGED <<program, up, pc, reads, words, bufferProc, writeProc, books>>

\* The runtime drops a tick that finds the channel full.
Tick ==
  /\ up /\ pc[Apc] # "connect" /\ ticks < MaxTicks
  /\ ticks' = ticks + 1 /\ tick' = 1
  /\ UNCHANGED <<program, up, pc, reads, words, bufferProc, writeProc, books>>

TakeTick ==
  /\ tick = 1 /\ Goto(Apc, "poll", "get") /\ tick' = 0
  /\ UNCHANGED <<program, up, ticks, reads, words, bufferProc, writeProc, books>>

Get ==
  /\ Goto(Apc, "get", "send") /\ TakeReading(Apc)
  /\ UNCHANGED <<program, up, ticker, words, bufferProc, writeProc, books>>

\* Faulty variant: an error makes it ask again at once.
GetFails_AsksAgain ==
  /\ Goto(Apc, "get", "get")
  /\ UNCHANGED <<program, up, ticker, reads, words, bufferProc, writeProc, books>>

\* An error, or a time-out, of snmp.Get is logged.
GetFails ==
  /\ Goto(Apc, "get", "poll")
  /\ UNCHANGED <<program, up, ticker, reads, words, bufferProc, writeProc, books>>

\* The type assertion on the answer's value panics, and takes all monitors along.
GetPanics == up /\ pc[Apc] = "get" /\ Dies

Rest(m) == IF m = Apc THEN "poll" ELSE "run"

\* Faulty variant: a point that finds bufferProc busy is dropped.
WritePoint_Drops(m) ==
  /\ program = "asc-monitor" /\ Goto(m, "send", Rest(m))
  /\ IF flushing THEN UNCHANGED bufferProc
     ELSE /\ buffer' = buffer \cup {Latest(m)}
          /\ flushing' = (Cardinality(buffer') = BatchSize)
  /\ UNCHANGED <<program, up, ticker, reads, words, writeProc, books>>

\* WritePoint waits for bufferProc to take the point from the unbuffered channel.
WritePoint(m) ==
  /\ program = "asc-monitor" /\ ~flushing /\ Goto(m, "send", Rest(m))
  /\ buffer' = buffer \cup {Latest(m)} /\ flushing' = (Cardinality(buffer') = BatchSize)
  /\ UNCHANGED <<program, up, ticker, reads, words, writeProc, books>>

\* apc-monitor waits for the answer; an error is logged and the point given up,
\* unless the database has it all the same.
WriteBlocking ==
  /\ program = "apc-monitor" /\ Goto(Apc, "send", "poll")
  /\ \/ stored' = stored \cup {Latest(Apc)} /\ UNCHANGED lost
     \/ lost' = lost \cup {Latest(Apc)} /\ UNCHANGED stored
  /\ UNCHANGED <<program, up, ticker, reads, words, bufferProc, writeProc>>

\* The client's flush ticker.
Flush ==
  /\ up /\ ~flushing /\ buffer # {} /\ flushing' = TRUE
  /\ UNCHANGED <<program, up, pc, ticker, reads, words, buffer, writeProc, books>>

\* writeProc takes a batch when it is not sending, behind those it still has; when
\* there are too many the oldest goes.  It sends at once, or waits after a failure.
TakeBatch ==
  /\ up /\ flushing /\ ~sending
  /\ IF Len(queue) < MaxQueue
     THEN queue' = Append(queue, buffer) /\ UNCHANGED lost
     ELSE queue' = Append(Tail(queue), buffer) /\ lost' = lost \cup (Head(queue) \ stored)
  /\ sending' \in IF queue = <<>> THEN {TRUE} ELSE BOOLEAN
  /\ buffer' = {} /\ flushing' = FALSE
  /\ UNCHANGED <<program, up, pc, ticker, reads, words, stored>>

\* The request ends: the batch is stored, refused, or to be sent again later, and
\* in the last case the database can have it all the same.
SendEnds(outcome) ==
  /\ up /\ sending
  /\ CASE outcome = "ok" -> stored' = stored \cup Head(queue) /\ UNCHANGED lost
       [] outcome = "refused" -> lost' = lost \cup (Head(queue) \ stored) /\ UNCHANGED stored
       [] outcome = "retry" -> stored' \in {stored, stored \cup Head(queue)} /\ UNCHANGED lost
  /\ queue' = IF outcome = "retry" THEN queue ELSE Tail(queue)
  /\ sending' = (outcome # "retry" /\ Tail(queue) # <<>>)
  /\ UNCHANGED <<program, up, pc, ticker, reads, words, bufferProc>>

HostStep(h) == AppendName(h) \/ AppendDmon(h) \/ StartChild(h)
Poll == TakeTick \/ Get \/ GetFails
Client == Flush \/ TakeBatch \/ \E o \in {"ok", "refused", "retry"} : SendEnds(o)

Next ==
  \/ Connect \/ Poll \/ ConnectFails \/ GetPanics \/ Tick \/ WriteBlocking \/ Client \/ Killed
  \/ \E h \in Hosts : HostStep(h) \/ ScanLine(h) \/ ChildEnds(h)
  \/ \E m \in Monitors : WritePoint(m)

Spec == Init /\ [][Next]_vars

\* Goroutines run, and requests end (they time out).  The senders that wait for
\* bufferProc are served in turn, as Go's channels do.
FairSpec ==
  /\ Spec /\ WF_vars(Poll) /\ WF_vars(WriteBlocking) /\ WF_vars(Client)
  /\ \A m \in Monitors : SF_vars(WritePoint(m))
-----------------------------------------------------------------------------
TypeOK ==
  /\ program \in Programs /\ up \in BOOLEAN /\ tick \in 0 .. 1 /\ ticks \in 0 .. MaxTicks
  /\ pc \in [Monitors -> {"off", "connect", "poll", "get", "start", "named", "built", "run", "send"}]
  /\ reads \in [Monitors -> 0 .. MaxReads]
  /\ DOMAIN heap = Arrays /\ \A h \in SSHHosts : cmdline[h].len <= Len(heap[cmdline[h].array])
  /\ buffer \subseteq Point /\ flushing \in BOOLEAN
  /\ Cardinality(buffer) <= BatchSize /\ (flushing => buffer # {})
  /\ queue \in Seq(SUBSET Point) /\ Len(queue) <= MaxQueue /\ sending \in BOOLEAN
  /\ (sending => queue # <<>>) /\ stored \subseteq Point /\ lost \subseteq Point

\* Every host's child is started with its own host's name, although all of them
\* append to one shared slice without a lock.
OwnCommandLine ==
  \A h \in SSHHosts : pc[h] = "built" => Words(cmdline[h]) = sshCommand \o <<h>> \o dmon

\* A reading that was taken does not vanish and is not made twice: it is stored
\* unless the database refuses it, the queue overflows or the process dies.
ImplementsTelemetry == T!TelemetrySpec

\* No monitor can stop another one, short of a panic: a slow database holds them up,
\* and then every WritePoint returns and every tick is served.  Worker counts on it.
NobodyStalls ==
  /\ \A m \in Monitors : pc[m] \in {"get", "send"} ~> pc[m] \notin {"get", "send"} \/ ~up
  /\ tick = 1 ~> tick = 0 \/ ~up
=============================================================================
