------------------------------- MODULE CTParse ------------------------------
(***************************************************************************)
(* ParseCTLine run token by token on every line that can be put together   *)
(* from Tokens, against a declarative reading of the line.                 *)
(***************************************************************************)
EXTENDS CTLine

CONSTANT MaxTokens      \* bound on the length of a line

ASSUME MaxTokensAssumption == MaxTokens \in Nat

VARIABLES consumed,     \* the words already read
          st            \* the locals of ParseCTLine

parseVars == <<consumed, st>>

ParseInit == consumed = <<>> /\ st = ParseStart

\* The loop takes the next word, unless the function has returned or panicked.
Feed(t) ==
  /\ st.status = "ok"
  /\ Len(consumed) < MaxTokens
  /\ consumed' = Append(consumed, t)
  /\ st' = ParseToken(st, t)

ParseNext == \E t \in Tokens : Feed(t)

ParseSpec == ParseInit /\ [][ParseNext]_parseVars
-----------------------------------------------------------------------------
(* The declarative reading. *)

\* The first source of the line is at or before position i; the second is.
SourceBy(i) == \E j \in 1 .. i : consumed[j].key = "src"
ReplyBy(i)  == \E j, k \in 1 .. i : j < k /\ consumed[j].key = "src" /\ consumed[k].key = "src"

\* The positions that say something about field f of direction d.
Mentions(d, f) ==
  {i \in 1 .. Len(consumed) :
     consumed[i].key = f /\ SourceBy(i) /\ (d = "Reply" <=> ReplyBy(i))}

IsLast(i, S) == i \in S /\ \A j \in S : j <= i

\* Position i holds a word the parser must not accept: a value that does not
\* convert, a third source, or a field of no direction.
Offends(i) ==
  /\ consumed[i].key \in Fields
  /\ \/ consumed[i].val = Bad
     \/ ~SourceBy(i)
     \/ consumed[i].key = "src" /\ ReplyBy(i - 1)

ParseTypeOK ==
  /\ consumed \in Seq(Tokens)
  /\ st.cur \in {"nil", "Orig", "Reply"}
  /\ st.status \in {"ok", "err", "panic"}
  /\ \A d \in Dirs, f \in Fields : st.line[d][f] \in Values(f) \cup {ZeroOf(f)}

\* What ParseCTLine returns without an error is what the line says: each field
\* of the original and of the reply direction holds the last value given for it
\* between that direction's src and the next, or zero if there is none.
ParsedIsLastMentioned ==
  st.status = "ok" =>
    \A d \in Dirs, f \in Fields :
      \/ Mentions(d, f) = {} /\ st.line[d][f] = ZeroOf(f)
      \/ \E i \in Mentions(d, f) : IsLast(i, Mentions(d, f)) /\ st.line[d][f] = consumed[i].val

\* ParseCTLine goes on exactly as long as no word offends, so no bad line is
\* accounted and no good line is refused.
StopsAtFirstOffence ==
  st.status = "ok" <=> \A i \in 1 .. Len(consumed) : ~Offends(i)

\* The nil pointer is written through only when a field precedes every src=: no
\* line that starts with its source, cut short or not, makes ctmon panic.
PanicsOnlyWithoutSource ==
  st.status = "panic" => ~SourceBy(Len(consumed))

\* A line that parses and passes ctFilter names a source address, so Record
\* never books traffic under the zero Prefix although it ignores Prefix's error.
AcceptedHasSource ==
  st.status = "ok" /\ ctFilter(st.line) => st.line.Orig.src \in Addr
=============================================================================
