-------------------------------- MODULE Ctmon -------------------------------
(***************************************************************************)
(* The main loop of ctmon/main.go with its conntrack child, the wall clock *)
(* and the log file.  There is one goroutine, so the Recorder's methods    *)
(* are single steps here (Recorder takes them apart).  The log file is the *)
(* total it reports per prefix; the order of a block is DumpSort's matter. *)
(***************************************************************************)
EXTENDS CTLine

CONSTANTS Lines,            \* what conntrack prints
          Tails,            \* what it leaves of a line when it dies in the middle
          MinutesPerHour,   \* 60
          MaxMinute,        \* bound on the clock
          MaxRestarts       \* bound on the times ctmon is started again

VARIABLES minute,       \* the wall clock, in minutes
          child,        \* conntrack: "up", "cut" (dead in mid-line) or "gone"
          pc,           \* where main is
          now, last,    \* main's locals: the minutes of time.Now()
          line,         \* the CTLine under way
          data,         \* recorder.data
          block,        \* the items dumpItems has not written yet
          span,         \* history: when the traffic in data or block was read
          restarts,
          accepted, logged, lost   \* the books of Ledger; logged is the file

books == <<accepted, logged, lost>>
vars == <<minute, child, pc, now, last, line, data, block, span, restarts, books>>

MinuteOf(t) == t % MinutesPerHour

\* A constant, so that TLC parses each line once.
Parsed == [l \in Lines \cup Tails |-> ParseCTLine(l)]

Accepted(st) == st.status = "ok" /\ ctFilter(st.line)

ASSUME ClockAssumption == MinutesPerHour \in Nat \ {0} /\ MaxMinute \in Nat

ASSUME LinesAssumption == Lines \cup Tails \subseteq Seq(Tokens)

Pending == [k \in Prefix |-> Plus(At(data, k), At(block, k))]
L == INSTANCE Ledger WITH pending <- Pending

Init ==
  /\ minute \in 0 .. MaxMinute
  /\ child = "up" /\ pc = "scan"
  /\ now = minute /\ last = minute /\ line = NoLine
  /\ data = EmptyMap /\ block = EmptyMap /\ span = {} /\ restarts = 0
  /\ accepted = L!NoTraffic /\ logged = L!NoTraffic /\ lost = L!NoTraffic

\* Time passes, or somebody sets the clock.
Tick ==
  /\ minute' \in 0 .. MaxMinute \ {minute}
  /\ UNCHANGED <<child, pc, now, last, line, data, block, span, restarts, books>>

\* Faulty variant: `last` follows every line, those not accounted too.
Read_AlwaysLast(tokens) ==
  LET st == Parsed[tokens]
  IN /\ pc = "scan" /\ now' = minute /\ last' = minute
     /\ line' = IF Accepted(st) THEN st.line ELSE NoLine
     /\ pc' = IF Accepted(st) THEN "record" ELSE IF st.status = "panic" THEN "panic" ELSE "scan"
     /\ UNCHANGED <<minute, data, block, span, restarts, books>>

\* The body of the loop up to ctFilter: a line that does not parse or that the
\* filter drops is forgotten, and leaves `last` alone.
Read(tokens) ==
  LET st == Parsed[tokens]
  IN /\ pc = "scan" /\ now' = minute
     /\ line' = IF Accepted(st) THEN st.line ELSE NoLine
     /\ pc' = IF Accepted(st) THEN "record" ELSE IF st.status = "panic" THEN "panic" ELSE "scan"
     /\ UNCHANGED <<minute, last, data, block, span, restarts, books>>

Scan == child = "up" /\ UNCHANGED child /\ \E l \in Lines : Read(l)

\* bufio.Scanner returns an unterminated last line too.
ScanTail == child = "cut" /\ child' = "gone" /\ \E l \in Tails : Read(l)

\* Faulty variant: the map keeps a source's last line, not the sum.
Record_Overwrites ==
  LET k == KeyOf(line.Orig.src)
  IN /\ pc = "record" /\ pc' = "rotate"
     /\ data' = Put(data, k, Traffic(line))
     /\ accepted' = [accepted EXCEPT ![k] = Plus(@, Traffic(line))]
     /\ span' = span \cup {now} /\ line' = NoLine
     /\ UNCHANGED <<minute, child, now, last, block, restarts, logged, lost>>

\* recorder.Record(line)
Record ==
  LET k == KeyOf(line.Orig.src)
  IN /\ pc = "record" /\ pc' = "rotate"
     /\ data' = Put(data, k, Plus(At(data, k), Traffic(line)))
     /\ accepted' = [accepted EXCEPT ![k] = Plus(@, Traffic(line))]
     /\ span' = span \cup {now} /\ line' = NoLine
     /\ UNCHANGED <<minute, child, now, last, block, restarts, logged, lost>>

SameMinute ==
  /\ pc = "rotate" /\ MinuteOf(now) = MinuteOf(last)
  /\ pc' = "scan" /\ last' = now
  /\ UNCHANGED <<minute, child, now, line, data, block, span, restarts, books>>

\* Faulty variant: the map is dumped and not reset.
DumpAndReset_Keeps ==
  /\ pc = "rotate" /\ MinuteOf(now) # MinuteOf(last)
  /\ pc' = "write" /\ block' = data
  /\ UNCHANGED <<minute, child, now, last, line, data, span, restarts, books>>

\* recorder.DumpAndReset(outFile), up to the writing.
DumpAndReset ==
  /\ pc = "rotate" /\ MinuteOf(now) # MinuteOf(last)
  /\ pc' = "write" /\ block' = data /\ data' = EmptyMap
  /\ UNCHANGED <<minute, child, now, last, line, span, restarts, books>>

\* The buffered writer reaches the file piece by piece.
WriteItems(S) ==
  /\ pc = "write" /\ S # {} /\ S \subseteq DOMAIN block
  /\ logged' = [k \in Prefix |-> IF k \in S THEN Plus(logged[k], block[k]) ELSE logged[k]]
  /\ block' = [k \in DOMAIN block \ S |-> block[k]]
  /\ UNCHANGED <<minute, child, pc, now, last, line, data, span, restarts, accepted, lost>>

\* A write error stays in the bufio.Writer, and nobody looks at it: the rest of
\* the block is dropped, and the loop goes on.
WriteFails ==
  /\ pc = "write" /\ block # EmptyMap /\ block' = EmptyMap
  /\ lost' = [k \in Prefix |-> Plus(lost[k], At(block, k))]
  /\ UNCHANGED <<minute, child, pc, now, last, line, data, span, restarts, accepted, logged>>

WriteEnd ==
  /\ pc = "write" /\ block = EmptyMap
  /\ pc' = "scan" /\ last' = now /\ span' = {}
  /\ UNCHANGED <<minute, child, now, line, data, block, restarts, books>>

\* The process is gone and its memory with it.
Exit ==
  /\ pc' = "ended" /\ line' = NoLine
  /\ data' = EmptyMap /\ block' = EmptyMap /\ span' = {}
  /\ lost' = [k \in Prefix |-> Plus(lost[k], Pending[k])]
  /\ UNCHANGED <<minute, child, now, last, restarts, accepted, logged>>

\* Faulty variant: main returns only when everything has been logged.
Return_WhenLogged == pc = "scan" /\ child = "gone" /\ data = EmptyMap /\ Exit

\* Scan returns false at the end of conntrack's output; main waits for the child
\* and returns.  It does not dump what it has.
Return == pc = "scan" /\ child = "gone" /\ Exit

\* The runtime ends a process whose goroutine has panicked.
Panics == pc = "panic" /\ Exit

\* A signal.
Crash == pc # "ended" /\ Exit

ChildExits ==
  /\ child = "up" /\ child' \in {"cut", "gone"}
  /\ UNCHANGED <<minute, pc, now, last, line, data, block, span, restarts, books>>

\* main from the start: the log is opened with O_APPEND.
Restart ==
  /\ pc = "ended" /\ restarts < MaxRestarts /\ restarts' = restarts + 1
  /\ pc' = "scan" /\ child' = "up" /\ now' = minute /\ last' = minute
  /\ UNCHANGED <<minute, line, data, block, span, books>>

\* What main does without waiting for a line.
Main == \/ ScanTail \/ Record \/ SameMinute \/ DumpAndReset \/ WriteFails \/ WriteEnd
        \/ Return \/ Panics \/ \E S \in SUBSET Prefix : WriteItems(S)

Next == Main \/ Scan \/ Tick \/ ChildExits \/ Crash \/ Restart

Spec == Init /\ [][Next]_vars

\* The goroutine runs whenever it can.  The clock, conntrack (its lines, too),
\* crashes and restarts owe nothing.
FairSpec == Spec /\ WF_vars(Main)
-----------------------------------------------------------------------------
TypeOK ==
  /\ minute \in Nat /\ now \in Nat /\ last \in Nat /\ span \in SUBSET Nat
  /\ restarts \in Nat /\ child \in {"up", "cut", "gone"}
  /\ pc \in {"scan", "record", "rotate", "write", "ended", "panic"}
  /\ pc = "record" => Traffic(line) \in AcctData /\ KeyOf(line.Orig.src) \in Prefix
  /\ data \in DataMap /\ block \in DataMap
  /\ accepted \in L!Totals /\ logged \in L!Totals /\ lost \in L!Totals

\* Every accepted byte is in the map, in the block being written, in the log or
\* in what a failed write or an exit dropped, and in one of these only.
BooksBalance == L!Conserved

\* The loop, its crashes and restarts included, implements the ledger: it loses
\* traffic only by dropping what was pending.
ImplementsLedger == L!LedgerSpec

\* The traffic not in the log yet was all read in the minute (of some hour) of
\* the last accepted line, but for the line just accepted: a block mixes two
\* minutes only in the line that closes it, and an exit loses no older traffic.
OneMinutePerBlock ==
  \A m \in span :
    \/ MinuteOf(m) = MinuteOf(last)
    \/ pc \in {"rotate", "write"} /\ m = now

\* When conntrack exits, or a line makes main panic, ctmon ends: it does not read on
\* for ever.
EndsWithInput == child = "gone" \/ pc = "panic" ~> pc = "ended"
=============================================================================
