------------------------------- MODULE CTLine -------------------------------
(***************************************************************************)
(* One line of conntrack's output in ctmon/main.go: how ParseCTLine reads  *)
(* it, which lines ctFilter accepts and what Record books for them.        *)
(*                                                                         *)
(* A line is the sequence of its "key=value" words.  Words without '=' and *)
(* words with another key are alike for the parser (it skips them): they   *)
(* are tokens whose key is not in Fields.  The value of a token is what    *)
(* netip.ParseAddr or strconv.ParseUint return for it, Bad on an error.    *)
(***************************************************************************)
EXTENDS Acct, Sequences

CONSTANTS Addr,         \* netip.Addr values: records [fam, net, host]
          NoAddr,       \* the zero netip.Addr
          Bad,          \* a value the conversions reject
          Tokens,       \* the tokens lines are made of
          WebPorts,     \* {80, 443} in ctFilter
          MinPackets,   \* 10 in ctFilter
          MinBytes      \* 1024 in ctFilter

AddrFields == {"src", "dst"}
PortFields == {"sport", "dport"}
CountFields == {"packets", "bytes"}
Fields == AddrFields \cup PortFields \cup CountFields

\* What the conversions can return for a field.
Values(f) == IF f \in AddrFields THEN Addr ELSE IF f \in PortFields THEN Nat ELSE Word

ASSUME TokensAssumption ==
  /\ NoAddr \notin Addr /\ Bad \notin Addr \cup {NoAddr} \cup Nat
  /\ 0 \notin WebPorts
  /\ \A t \in Tokens : t.key \in Fields => t.val \in Values(t.key) \cup {Bad}

Dirs == {"Orig", "Reply"}

\* CTDirection before any assignment: Go's zero values.
ZeroOf(f) == IF f \in AddrFields THEN NoAddr ELSE 0
NoDirection == [f \in Fields |-> ZeroOf(f)]
NoLine == [d \in Dirs |-> NoDirection]

\* Faulty variant, to test the properties: cur starts at line.Orig.
ParseStart_NoNil == [cur |-> "Orig", line |-> NoLine, status |-> "ok"]

\* ParseCTLine's locals: cur points to no direction, to line.Orig or to
\* line.Reply; status is "ok" while the loop goes on, "err" once it has returned
\* an error, "panic" once it has written through the nil pointer.
ParseStart == [cur |-> "nil", line |-> NoLine, status |-> "ok"]

\* Faulty variants: go on after an error, or go on with another source.
Fail_Continue(st) == st
Fail_Resync(st) == [st EXCEPT !.cur = "nil"]

\* return line, err
Fail(st) == [st EXCEPT !.status = "err"]

\* cur.F = value
Assign(st, t) ==
  [st EXCEPT !.line = [st.line EXCEPT ![st.cur] = [st.line[st.cur] EXCEPT ![t.key] = t.val]]]

\* Faulty variant: errors are not looked at.
Store_Unchecked(st, t) == Assign(st, t)

Store(st, t) == IF t.val = Bad THEN Fail(st) ELSE Assign(st, t)

\* Faulty variant: the reply's words go to Orig.
NextDir_Same(cur) == "Orig"

\* Where a src= moves cur to: first to the original direction, then to the reply.
NextDir(cur) == IF cur = "nil" THEN "Orig" ELSE "Reply"

\* One turn of the loop over strings.Fields(s).  A port is converted into a local
\* before cur is used, an address or a count is converted and assigned through
\* cur in one statement: with cur = nil the first fails, the second panics.
ParseToken(st, t) ==
  CASE t.key \notin Fields -> st
    [] t.key = "src" /\ st.cur # "Reply" -> Store([st EXCEPT !.cur = NextDir(@)], t)
    [] t.key = "src" /\ st.cur = "Reply" -> Fail(st)
    [] t.key \in PortFields /\ st.cur = "nil" /\ t.val = Bad -> Fail(st)
    [] t.key \in Fields \ {"src"} /\ st.cur = "nil"
         /\ ~(t.key \in PortFields /\ t.val = Bad) -> [st EXCEPT !.status = "panic"]
    [] t.key \in Fields \ {"src"} /\ st.cur # "nil" -> Store(st, t)

ParseCTLine(tokens) ==
  LET after[n \in 0 .. Len(tokens)] ==      \* the locals after n words
        IF n = 0 THEN ParseStart
        ELSE LET st == after[n - 1]
             IN  IF st.status = "ok" THEN ParseToken(st, tokens[n]) ELSE st
  IN after[Len(tokens)]

\* What Record adds for a line, and what ctFilter looks at: both directions.
Traffic(line) == [Packets |-> AddU(line.Orig.packets, line.Reply.packets),
                  Bytes   |-> AddU(line.Orig.bytes, line.Reply.bytes)]

ctFilter(line) == /\ Traffic(line).Packets >= MinPackets
                  /\ Traffic(line).Bytes >= MinBytes
                  /\ line.Orig.dport \in WebPorts

\* The key of a source in Record: IPv4, bare or mapped into IPv6, by its /24;
\* IPv6 by its /48; the zero address has no prefix and yields the zero Prefix.
\* net holds the leading 24 or 48 bits of an address, host the others.
NoPrefix == [fam |-> "none", net |-> 0]
KeyOf(src) ==
  IF src = NoAddr THEN NoPrefix
  ELSE [fam |-> IF src.fam = "v6" THEN "v6" ELSE "v4", net |-> src.net]

ASSUME PrefixAssumption == \A a \in Addr : KeyOf(a) \in Prefix
=============================================================================
