------------------------------- MODULE ArcStats -----------------------------
(***************************************************************************)
(* zfs-arcstats: at every tick it reads the cache's counters and shows the *)
(* differences to the previous reading.  The counters move while they are  *)
(* read, line by line, and the module that keeps them can be reloaded.     *)
(***************************************************************************)
EXTENDS Uint64, Sequences

CONSTANTS Lines,        \* the file's lines that count, in their order
          BootCounts,   \* what a counter can be at when the program starts
          MaxEvents, MaxTicks, MaxGlitches  \* bounds

Pairs == {<<"Hits", "Misses">>, <<"L2Hits", "L2Misses">>}
Fields == {Lines[i] : i \in DOMAIN Lines}

ASSUME CountsAssumption == BootCounts \subseteq Word
ASSUME LinesAssumption == Lines \in Seq(UNION {{p[1], p[2]} : p \in Pairs})
ASSUME BoundsAssumption == {MaxEvents, MaxTicks, MaxGlitches} \subseteq Nat

VARIABLES kernel,       \* the kernel's counters
          events,       \* history: what they should have counted
          boot,         \* history: how often they have begun, from 1
          stage,        \* where main is
          line,         \* the line GetStats is at
          s, last,      \* the two Stats
          tick, ticks,  \* the ticker's channel, and how often it has fired
          glitches,     \* lines skipped and counters reset
          shown,        \* the differences shown last
          sAt, lastAt, truth    \* history: when s and last were read; what shown should be

kernelVars == <<kernel, events, boot>>
tickVars == <<tick, ticks>>
history == <<sAt, lastAt, truth>>
arcVars == <<kernelVars, stage, line, s, last, tickVars, glitches, shown, history>>

Unread == [boot |-> 0, events |-> 0]
Unknown == -1
ZeroStat == [f \in Fields |-> 0]

ArcInit ==
  /\ kernel \in [Fields -> BootCounts] /\ events = ZeroStat /\ boot = 1
  /\ stage = "first" /\ line = 1 /\ s = ZeroStat /\ last = ZeroStat
  /\ tick = 0 /\ ticks = 0 /\ glitches = 0 /\ shown = ZeroStat
  /\ sAt = [f \in Fields |-> Unread] /\ lastAt = sAt /\ truth = [f \in Fields |-> Unknown]

\* The cache is hit or missed.
Event(f) ==
  /\ events[f] < MaxEvents
  /\ kernel' = [kernel EXCEPT ![f] = AddU(@, 1)] /\ events' = [events EXCEPT ![f] = @ + 1]
  /\ UNCHANGED <<boot, stage, line, s, last, tickVars, glitches, shown, history>>

\* The module is unloaded and loaded again.
Reset ==
  /\ glitches < MaxGlitches /\ glitches' = glitches + 1
  /\ kernel' = ZeroStat /\ boot' = boot + 1
  /\ UNCHANGED <<events, stage, line, s, last, tickVars, shown, history>>

\* Faulty variant: ticks queue up while the program reads.
Tick_Queues ==
  /\ stage \in {"wait", "next"} /\ ticks < MaxTicks /\ ticks' = ticks + 1 /\ tick' = tick + 1
  /\ UNCHANGED <<kernelVars, stage, line, s, last, glitches, shown, history>>

\* The runtime drops a tick that finds the channel full.
Tick ==
  /\ stage \in {"wait", "next"} /\ ticks < MaxTicks /\ ticks' = ticks + 1 /\ tick' = 1
  /\ UNCHANGED <<kernelVars, stage, line, s, last, glitches, shown, history>>

Reading == stage \in {"first", "next"}

\* s.Hits, err = strconv.ParseUint(fields[2], 10, 64), and so on.
ReadLine ==
  /\ Reading /\ line <= Len(Lines) /\ line' = line + 1
  /\ LET f == Lines[line]
     IN /\ s' = [s EXCEPT ![f] = kernel[f]]
        /\ sAt' = [sAt EXCEPT ![f] = [boot |-> boot, events |-> events[f]]]
  /\ UNCHANGED <<kernelVars, stage, last, tickVars, glitches, shown, lastAt, truth>>

\* A line that has not three fields is skipped; so is the rest of the file when the
\* scanner stops at an error, which nobody looks at.
SkipLine ==
  /\ Reading /\ line <= Len(Lines) /\ line' = line + 1
  /\ glitches < MaxGlitches /\ glitches' = glitches + 1
  /\ UNCHANGED <<kernelVars, stage, s, last, tickVars, shown, history>>

\* os.Open or ParseUint fails, and main panics.
Panic ==
  /\ Reading /\ stage' = "panic"
  /\ UNCHANGED <<kernelVars, line, s, last, tickVars, glitches, shown, history>>

\* The first reading is done.
First ==
  /\ stage = "first" /\ line > Len(Lines) /\ stage' = "wait"
  /\ last' = s /\ lastAt' = sAt
  /\ UNCHANGED <<kernelVars, line, s, tickVars, glitches, shown, sAt, truth>>

TakeTick ==
  /\ stage = "wait" /\ tick = 1 /\ tick' = 0 /\ stage' = "next" /\ line' = 1
  /\ s' = ZeroStat /\ sAt' = [f \in Fields |-> Unread]
  /\ UNCHANGED <<kernelVars, last, ticks, glitches, shown, lastAt, truth>>

Truth(f) ==
  IF sAt[f].boot = lastAt[f].boot /\ sAt[f].boot # 0
  THEN sAt[f].events - lastAt[f].events ELSE Unknown

\* Faulty variant: `last = s` is forgotten.
Show_KeepsLast ==
  /\ stage = "next" /\ line > Len(Lines) /\ stage' = "wait"
  /\ shown' = [f \in Fields |-> SubU(s[f], last[f])]
  /\ truth' = [f \in Fields |-> Truth(f)] /\ lastAt' = sAt
  /\ UNCHANGED <<kernelVars, line, s, last, tickVars, glitches, sAt>>

\* The differences are printed, and s becomes last.
Show ==
  /\ stage = "next" /\ line > Len(Lines) /\ stage' = "wait"
  /\ shown' = [f \in Fields |-> SubU(s[f], last[f])] /\ last' = s
  /\ truth' = [f \in Fields |-> Truth(f)] /\ lastAt' = sAt
  /\ UNCHANGED <<kernelVars, line, s, tickVars, glitches, sAt>>

ArcNext == \/ Reset \/ Tick \/ ReadLine \/ SkipLine \/ Panic \/ First \/ TakeTick \/ Show
        \/ \E f \in Fields : Event(f)

ArcSpec == ArcInit /\ [][ArcNext]_arcVars
-----------------------------------------------------------------------------
\* hits+misses, and the ratio hits/(hits+misses) as a pair; it is 0 if they are 0.
Requests(p) == AddU(shown[p[1]], shown[p[2]])
\* Faulty variant: the quotient is taken without looking at hits+misses.
Ratio_Unguarded(p) == <<shown[p[1]], Requests(p)>>
Ratio(p) == IF Requests(p) > 0 THEN <<shown[p[1]], Requests(p)>> ELSE <<0, 1>>
-----------------------------------------------------------------------------
\* Types; the ticker's channel holds one tick.
ArcTypeOK ==
  /\ kernel \in [Fields -> Word] /\ s \in [Fields -> Word] /\ last \in [Fields -> Word]
  /\ shown \in [Fields -> Word] /\ events \in [Fields -> 0 .. MaxEvents]
  /\ stage \in {"first", "wait", "next", "panic"} /\ line \in 1 .. Len(Lines) + 1
  /\ tick \in 0 .. 1 /\ ticks \in 0 .. MaxTicks /\ glitches \in 0 .. MaxGlitches
  /\ boot \in 1 .. glitches + 1

\* What is shown is what happened between the two readings of a line, also when the
\* counter has wrapped, ticks were dropped or the reading before was bad; it need not
\* be when the counter began anew or a line was not read.
RatesAreTrue == \A f \in Fields : truth[f] # Unknown => shown[f] = truth[f] % Modulus

\* Nothing is ever divided by 0, also when hits+misses wraps.  The ratios of true
\* rates lie between 0 and 1, unless more requests came than a counter holds.
RatiosAreRatios ==
  \A p \in {x \in Pairs : {x[1], x[2]} \subseteq Fields} :
    /\ Ratio(p)[2] > 0
    /\ /\ truth[p[1]] # Unknown /\ truth[p[2]] # Unknown
       /\ truth[p[1]] + truth[p[2]] < Modulus
       => 0 <= Ratio(p)[1] /\ Ratio(p)[1] <= Ratio(p)[2]
=============================================================================
