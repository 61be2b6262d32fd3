----------------------------- MODULE CtmonProofs ----------------------------
(***************************************************************************)
(* ctmon/main.go, for any lines, prefixes and width of the counters: what  *)
(* ParseCTLine and ctFilter let through; the main loop with its crashes    *)
(* and restarts, its types, one minute per block and the refinement of     *)
(* Ledger; the parser word by word; and the order of a block, for any      *)
(* width of int.                                                           *)
(***************************************************************************)
EXTENDS Ctmon, CTParse, DumpSort, AcctTheorems, SequenceTheorems, WellFoundedInduction

(* ParseCTLine as a function of a line. *)

(* ParseCTLine's locals, with what any field can hold.                      *)
Cell == Addr \cup {NoAddr} \cup Nat
Locals == [cur : {"nil"} \cup Dirs, line : [Dirs -> [Fields -> Cell]],
           status : {"ok", "err", "panic"}]

(* The words after which ParseCTLine does not go on.                        *)
Refused(s, t) ==
  \/ t.val = Bad
  \/ s.cur = "nil" /\ t.key # "src"
  \/ s.cur = "Reply" /\ t.key = "src"

(* The direction a field is assigned in.                                    *)
Direction(s, t) == IF t.key = "src" THEN NextDir(s.cur) ELSE s.cur

(* The switch over a word's key, one case at a time.                        *)
LEMMA TokenCases ==
  ASSUME NEW s, NEW t
  PROVE  /\ t.key \notin Fields => ParseToken(s, t) = s
         /\ t.key = "src" /\ s.cur # "Reply"
              => ParseToken(s, t) = Store([s EXCEPT !.cur = NextDir(s.cur)], t)
         /\ t.key = "src" /\ s.cur = "Reply" => ParseToken(s, t) = Fail(s)
         /\ t.key \in Fields \ {"src"} /\ s.cur = "nil"
              => ParseToken(s, t) \in {Fail(s), [s EXCEPT !.status = "panic"]}
         /\ t.key \in Fields \ {"src"} /\ s.cur # "nil" => ParseToken(s, t) = Store(s, t)
  BY DEF ParseToken, Fields, PortFields, AddrFields, CountFields

(* One word, seen from outside.                                             *)
LEMMA TokenOutcome ==
  ASSUME NEW s \in Locals, NEW t \in Tokens, s.status = "ok", t.key \in Fields
  PROVE  /\ ParseToken(s, t) \in Locals
         /\ Refused(s, t) => /\ ParseToken(s, t).line = s.line
                             /\ ParseToken(s, t).status \in {"err", "panic"}
                             /\ ParseToken(s, t).status = "panic" => s.cur = "nil" /\ t.key # "src"
         /\ ~Refused(s, t) =>
              /\ Direction(s, t) \in Dirs /\ ParseToken(s, t).status = "ok"
              /\ ParseToken(s, t).cur = Direction(s, t)
              /\ \A d \in Dirs, f \in Fields :
                   ParseToken(s, t).line[d][f] =
                     IF d = Direction(s, t) /\ f = t.key THEN t.val ELSE s.line[d][f]
<1>1. s.cur \in {"nil"} \cup Dirs /\ s.line \in [Dirs -> [Fields -> Cell]] /\ "src" \in Fields
  BY DEF Locals, Fields, AddrFields
<1>2. t.val \in Cell \cup {Bad}
  BY TokensAssumption DEF Cell, Values, Word
<1>3. ASSUME NEW q \in Locals
      PROVE  /\ Fail(q) \in Locals /\ Fail(q).line = q.line /\ Fail(q).status = "err"
             /\ [q EXCEPT !.status = "panic"] \in Locals /\ [q EXCEPT !.status = "panic"].line = q.line
             /\ [q EXCEPT !.status = "panic"].status = "panic"
  BY DEF Locals, Fail
<1>4. ASSUME NEW q \in Locals, q.cur \in Dirs, t.val # Bad
      PROVE  /\ Store(q, t) \in Locals /\ Store(q, t).status = q.status /\ Store(q, t).cur = q.cur
             /\ \A d \in Dirs, f \in Fields :
                  Store(q, t).line[d][f] = IF d = q.cur /\ f = t.key THEN t.val ELSE q.line[d][f]
  <2>1. q.line \in [Dirs -> [Fields -> Cell]] /\ q.line[q.cur] \in [Fields -> Cell] /\ t.val \in Cell
    BY <1>2, <1>4 DEF Locals
  <2>2. PICK new \in [Fields -> Cell] : new = [q.line[q.cur] EXCEPT ![t.key] = t.val]
    BY <2>1
  <2>3. PICK both \in [Dirs -> [Fields -> Cell]] : both = [q.line EXCEPT ![q.cur] = new]
    BY <1>4, <2>1
  <2>4. Store(q, t) = [q EXCEPT !.line = both]
    BY <1>4, <2>2, <2>3, Zenon DEF Store, Assign
  <2>5. [q EXCEPT !.line = both] \in Locals /\ [q EXCEPT !.line = both].line = both
        /\ [q EXCEPT !.line = both].status = q.status /\ [q EXCEPT !.line = both].cur = q.cur
    BY DEF Locals
  <2>6. \A d \in Dirs, f \in Fields :
          both[d][f] = IF d = q.cur /\ f = t.key THEN t.val ELSE q.line[d][f]
    BY <1>4, <2>1, <2>2, <2>3
  <2>7. PICK r \in Locals : /\ r = [q EXCEPT !.line = both] /\ r.line = both
                           /\ r.status = q.status /\ r.cur = q.cur
    BY <2>5, Zenon
  <2>8. Store(q, t) = r
    BY <2>4, <2>7, Zenon
  <2> QED BY <2>6, <2>7, <2>8
<1>5. ASSUME t.key = "src", s.cur # "Reply"
      PROVE  /\ [s EXCEPT !.cur = NextDir(s.cur)] \in Locals
             /\ [s EXCEPT !.cur = NextDir(s.cur)].line = s.line
             /\ [s EXCEPT !.cur = NextDir(s.cur)].status = "ok"
             /\ [s EXCEPT !.cur = NextDir(s.cur)].cur = Direction(s, t) /\ Direction(s, t) \in Dirs
  BY <1>1, <1>5 DEF Locals, Direction, NextDir, Dirs
<1>6. CASE t.key = "src" /\ s.cur # "Reply"
  <2>1. PICK q \in Locals : q = [s EXCEPT !.cur = NextDir(s.cur)]
    BY <1>5, <1>6
  <2>2. ParseToken(s, t) = Store(q, t)
    BY <1>6, <2>1, TokenCases
  <2>3. q.line = s.line /\ q.status = "ok" /\ q.cur = Direction(s, t) /\ Direction(s, t) \in Dirs
    BY <1>5, <1>6, <2>1
  <2>4. CASE t.val = Bad
    <3>1. Store(q, t) = Fail(q)
      BY <2>4 DEF Store
    <3>2. Refused(s, t) /\ Fail(q) \in Locals /\ Fail(q).line = s.line /\ Fail(q).status = "err"
      BY <1>3, <2>3, <2>4, Zenon DEF Refused
    <3> QED BY <2>2, <3>1, <3>2
  <2>5. CASE t.val # Bad
    <3>1. ~Refused(s, t)
      BY <1>6, <2>5 DEF Refused
    <3> QED BY <1>4, <2>2, <2>3, <2>5, <3>1
  <2> QED BY <2>4, <2>5
<1>7. CASE t.key = "src" /\ s.cur = "Reply"
  <2>1. Refused(s, t) /\ Fail(s) \in Locals /\ Fail(s).line = s.line /\ Fail(s).status = "err"
    BY <1>3, <1>7, Zenon DEF Refused
  <2> QED BY <1>7, <2>1, TokenCases
<1>8. CASE t.key # "src" /\ s.cur = "nil"
  <2>1. Refused(s, t) /\ Fail(s) \in Locals /\ Fail(s).line = s.line /\ Fail(s).status = "err"
    BY <1>3, <1>8, Zenon DEF Refused
  <2>2. PICK panic \in Locals : /\ panic = [s EXCEPT !.status = "panic"]
                               /\ panic.line = s.line /\ panic.status = "panic"
    BY <1>3, Zenon
  <2>3. ParseToken(s, t) = Fail(s) \/ ParseToken(s, t) = panic
    <3>1. ParseToken(s, t) \in {Fail(s), panic}
      BY <1>8, <2>2, TokenCases, Zenon
    <3> QED BY <3>1
  <2> QED BY <1>8, <2>1, <2>2, <2>3
<1>9. CASE t.key # "src" /\ s.cur # "nil"
  <2>1. ParseToken(s, t) = Store(s, t) /\ s.cur \in Dirs /\ Direction(s, t) = s.cur
    BY <1>1, <1>9, TokenCases DEF Direction
  <2>2. CASE t.val = Bad
    <3>1. Store(s, t) = Fail(s)
      BY <2>2 DEF Store
    <3>2. Refused(s, t) /\ Fail(s) \in Locals /\ Fail(s).line = s.line /\ Fail(s).status = "err"
      BY <1>3, <2>2, Zenon DEF Refused
    <3> QED BY <2>1, <3>1, <3>2
  <2>3. CASE t.val # Bad
    <3>1. ~Refused(s, t)
      BY <1>9, <2>3 DEF Refused
    <3> QED BY <1>4, <2>1, <2>3, <3>1
  <2> QED BY <2>2, <2>3
<1> QED BY <1>6, <1>7, <1>8, <1>9

(* A non-empty set of numbers has a least one.                              *)
LEMMA Least ==
  ASSUME NEW T \in SUBSET Nat, T # {}
  PROVE  \E x \in T : \A y \in T : ~(y < x)
<1> DEFINE less == {p \in Nat \X Nat : p[1] < p[2]}
<1>1. IsWellFoundedOn(less, Nat)
  <2>1. OpToRel(<, Nat) = less
    BY Zenon DEF OpToRel
  <2> QED BY NatLessThanWellFounded, <2>1, Zenon
<1>2. PICK x \in T : \A y \in T : ~(<<y, x>> \in less)
  BY <1>1, WFMin, Zenon
<1> QED BY <1>2

(* The recursion of ParseCTLine: the locals after each of the words.        *)
After(x, t) == IF x.status = "ok" THEN ParseToken(x, t) ELSE x
Reads(g, words) ==
  g = [n \in 0 .. Len(words) |-> IF n = 0 THEN ParseStart ELSE After(g[n - 1], words[n])]

(* One step of the recursion.                                               *)
LEMMA ReadsAt ==
  ASSUME NEW words, NEW g, Reads(g, words), NEW i \in 0 .. Len(words)
  PROVE  g[i] = IF i = 0 THEN ParseStart ELSE After(g[i - 1], words[i])
<1>1. PICK f : f = [n \in 0 .. Len(words) |->
                      IF n = 0 THEN ParseStart ELSE After(g[n - 1], words[n])]
  OBVIOUS
<1>2. f[i] = IF i = 0 THEN ParseStart ELSE After(g[i - 1], words[i])
  BY <1>1, Zenon
<1>3. g = f
  BY <1>1, Zenon DEF Reads
<1> QED BY <1>2, <1>3, Zenon

(* A word more, and the recursion goes on where it was.                     *)
LEMMA ReadsGrow ==
  ASSUME NEW words \in Seq(Tokens), NEW t \in Tokens, NEW h, Reads(h, words)
  PROVE  \E g : /\ Reads(g, Append(words, t))
                /\ g[Len(Append(words, t))] = After(h[Len(words)], t)
<1>1. PICK q \in Seq(Tokens) : q = Append(words, t)
  BY AppendProperties
<1>2. PICK n \in Nat : n = Len(words)
  BY LenProperties
<1>3. Len(q) = n + 1 /\ q[n + 1] = t /\ \A i \in 1 .. n : q[i] = words[i]
  BY <1>1, <1>2, AppendProperties
<1>4. PICK g : g = [i \in 0 .. n + 1 |-> IF i = n + 1 THEN After(h[n], t) ELSE h[i]]
  OBVIOUS
<1>5. ASSUME NEW i \in 0 .. n + 1
      PROVE  g[i] = IF i = 0 THEN ParseStart ELSE After(g[i - 1], q[i])
  <2>1. CASE i = n + 1
    BY <1>2, <1>3, <1>4, <2>1
  <2>2. CASE i # n + 1
    <3>1. i \in 0 .. Len(words)
      BY <1>2, <2>2
    <3>2. h[i] = IF i = 0 THEN ParseStart ELSE After(h[i - 1], words[i])
      BY <3>1, ReadsAt
    <3> QED BY <1>2, <1>3, <1>4, <2>2, <3>2
  <2> QED BY <2>1, <2>2
<1>6. Reads(g, q)
  BY <1>3, <1>4, <1>5 DEF Reads
<1>7. g[Len(q)] = After(h[n], t)
  BY <1>3, <1>4
<1> QED BY <1>1, <1>2, <1>6, <1>7

(* The recursion defines something on every line: the shortest on which it  *)
(* did not would be a word longer than one on which it does.                *)
LEMMA ReadsExist ==
  ASSUME NEW words \in Seq(Tokens)
  PROVE  \E g : Reads(g, words)
<1> DEFINE without == {n \in Nat : \E q \in Seq(Tokens) : Len(q) = n /\ \A g : ~Reads(g, q)}
<1>1. SUFFICES ASSUME without # {} PROVE FALSE
  <2>1. Len(words) \in Nat
    OBVIOUS
  <2> QED BY <2>1
<1>2. PICK n \in without : \A m \in without : ~(m < n)
  BY <1>1, Least, Zenon
<1>3. PICK q \in Seq(Tokens) : Len(q) = n /\ \A g : ~Reads(g, q)
  BY <1>2
<1>4. CASE n = 0
  <2>1. Reads([i \in 0 .. 0 |-> ParseStart], q)
    BY <1>3, <1>4 DEF Reads
  <2> QED BY <1>3, <2>1
<1>5. CASE n # 0
  <2>1. n \in Nat /\ n - 1 \in Nat
    BY <1>2, <1>5
  <2>2. PICK front : front = [i \in 1 .. n - 1 |-> q[i]]
    OBVIOUS
  <2>3. front \in Seq(Tokens) /\ Len(front) = n - 1 /\ q[n] \in Tokens
    BY <1>3, <1>5, <2>1, <2>2
  <2>4. q = Append(front, q[n])
    BY <1>3, <2>1, <2>2, <2>3
  <2>5. n - 1 \notin without
    BY <1>2, <2>1
  <2>6. PICK h : Reads(h, front)
    BY <2>1, <2>3, <2>5
  <2>7. \E g : Reads(g, q)
    BY <2>3, <2>4, <2>6, ReadsGrow
  <2> QED BY <1>3, <2>7
<1> QED BY <1>4, <1>5

(* The recursion defines one function.                                      *)
LEMMA ReadsAgree ==
  ASSUME NEW words \in Seq(Tokens), NEW g, Reads(g, words), NEW h, Reads(h, words)
  PROVE  g[Len(words)] = h[Len(words)]
<1> DEFINE apart == {i \in 0 .. Len(words) : g[i] # h[i]}
<1>1. SUFFICES ASSUME apart # {} PROVE FALSE
  OBVIOUS
<1>2. Len(words) \in Nat /\ apart \in SUBSET Nat
  OBVIOUS
<1>3. PICK i \in apart : \A j \in apart : ~(j < i)
  BY <1>1, <1>2, Least, Zenon
<1>4. /\ g[i] = IF i = 0 THEN ParseStart ELSE After(g[i - 1], words[i])
      /\ h[i] = IF i = 0 THEN ParseStart ELSE After(h[i - 1], words[i])
  BY <1>3, ReadsAt
<1>5. i # 0 /\ i - 1 \notin apart
  BY <1>2, <1>3, <1>4
<1> QED BY <1>2, <1>3, <1>4, <1>5

(* ParseCTLine is that recursion.                                           *)
LEMMA ParseCTLineIs ==
  ASSUME NEW words \in Seq(Tokens), NEW g, Reads(g, words)
  PROVE  ParseCTLine(words) = g[Len(words)]
<1> DEFINE rec(f) == f = [n \in 0 .. Len(words) |->
                            IF n = 0 THEN ParseStart
                            ELSE IF f[n - 1].status = "ok" THEN ParseToken(f[n - 1], words[n])
                                                           ELSE f[n - 1]]
<1>1. PICK h : h = CHOOSE f : rec(f)
  OBVIOUS
<1>2. \A f : rec(f) <=> Reads(f, words)
  BY DEF Reads, After
<1>3. rec(h)
  <2>1. rec(g)
    BY <1>2
  <2> HIDE DEF rec
  <2> QED BY <1>1, <2>1, Zenon
<1>4. ParseCTLine(words) = h[Len(words)]
  BY <1>1, Zenon DEF ParseCTLine
<1> QED BY <1>2, <1>3, <1>4, ReadsAgree

(* What the locals are like after any words: typed, empty before the first  *)
(* source, with a source address after it.                                  *)
Sound(x) ==
  /\ x \in Locals
  /\ \A d \in Dirs, f \in Fields : x.line[d][f] \in Values(f) \cup {ZeroOf(f)}
  /\ x.status = "ok" /\ x.cur = "nil" => x.line.Orig.dport = 0
  /\ x.status = "ok" /\ x.cur # "nil" => x.line.Orig.src \in Addr

(* They are so at the start.                                                *)
LEMMA SoundStart == Sound(ParseStart)
<1>1. \A f \in Fields : ZeroOf(f) \in Cell
  BY DEF ZeroOf, Cell
<1>2. \A d \in Dirs, f \in Fields : NoLine[d][f] = ZeroOf(f)
  BY DEF NoLine, NoDirection
<1>3. NoLine \in [Dirs -> [Fields -> Cell]]
  BY <1>1 DEF NoLine, NoDirection
<1>4. "Orig" \in Dirs /\ "dport" \in Fields /\ ZeroOf("dport") = 0
  BY DEF Dirs, Fields, PortFields, AddrFields, ZeroOf
<1>5. ParseStart \in Locals /\ ParseStart.line = NoLine /\ ParseStart.cur = "nil"
  BY <1>3 DEF ParseStart, Locals
<1>6. ParseStart.line.Orig.dport = 0
  BY <1>2, <1>4, <1>5
<1> QED BY <1>2, <1>5, <1>6 DEF Sound

(* A word more keeps them so.                                               *)
LEMMA SoundAfter ==
  ASSUME NEW x, Sound(x), NEW t \in Tokens
  PROVE  Sound(After(x, t))
<1>1. CASE x.status # "ok"
  BY <1>1 DEF After
<1>2. CASE x.status = "ok" /\ t.key \notin Fields
  <2>1. After(x, t) = x
    BY <1>2, TokenCases DEF After
  <2> QED BY <2>1
<1>3. CASE x.status = "ok" /\ t.key \in Fields
  <2>1. PICK y : y = ParseToken(x, t) /\ After(x, t) = y
    BY <1>3 DEF After
  <2>2. x \in Locals
    BY DEF Sound
  <2>3. CASE Refused(x, t)
    <3>1. y \in Locals /\ y.line = x.line /\ y.status \in {"err", "panic"}
      BY <1>3, <2>1, <2>2, <2>3, TokenOutcome
    <3> QED BY <2>1, <3>1 DEF Sound
  <2>4. CASE ~Refused(x, t)
    <3>1. /\ y \in Locals /\ Direction(x, t) \in Dirs /\ y.status = "ok" /\ y.cur = Direction(x, t)
          /\ \A d \in Dirs, f \in Fields :
               y.line[d][f] = IF d = Direction(x, t) /\ f = t.key THEN t.val ELSE x.line[d][f]
      BY <1>3, <2>1, <2>2, <2>4, TokenOutcome
    <3>2. t.val \in Values(t.key)
      BY <1>3, <2>4, TokensAssumption DEF Refused
    <3>3. \A d \in Dirs, f \in Fields : y.line[d][f] \in Values(f) \cup {ZeroOf(f)}
      BY <3>1, <3>2 DEF Sound
    <3>4. "Orig" \in Dirs /\ "Reply" \in Dirs /\ "src" \in Fields /\ Values("src") = Addr /\ y.cur # "nil"
      BY <3>1 DEF Dirs, Fields, AddrFields, Values
    <3>5. y.line.Orig.src \in Addr
      <4>1. y.line["Orig"]["src"]
              = IF "Orig" = Direction(x, t) /\ "src" = t.key THEN t.val ELSE x.line["Orig"]["src"]
        BY <3>1, <3>4
      <4>2. CASE x.cur = "nil"
        <5>1. t.key = "src" /\ Direction(x, t) = "Orig"
          BY <2>4, <4>2 DEF Refused, Direction, NextDir
        <5> QED BY <3>2, <3>4, <4>1, <5>1
      <4>3. CASE x.cur # "nil"
        <5>1. x.line["Orig"]["src"] \in Addr
          BY <1>3, <4>3 DEF Sound
        <5>2. t.key = "src" => t.val \in Addr
          BY <3>2, <3>4
        <5> QED BY <4>1, <5>1, <5>2
      <4> QED BY <4>2, <4>3
    <3> QED BY <2>1, <3>1, <3>3, <3>4, <3>5 DEF Sound
  <2> QED BY <2>3, <2>4
<1> QED BY <1>1, <1>2, <1>3

(* Whatever words conntrack prints, in whatever order: a line that parses   *)
(* and passes ctFilter has a source address and counters that are words.    *)
(* This is what Record relies on when it ignores the error of Prefix.       *)
THEOREM AcceptedLinesAreSound ==
  ASSUME NEW words \in Seq(Tokens), Accepted(ParseCTLine(words))
  PROVE  /\ ParseCTLine(words).line.Orig.src \in Addr
         /\ Traffic(ParseCTLine(words).line) \in AcctData
<1>1. PICK g : Reads(g, words)
  BY ReadsExist
<1>2. \A i \in 0 .. Len(words) : Sound(g[i])
  <2> DEFINE odd == {i \in 0 .. Len(words) : ~Sound(g[i])}
  <2>1. SUFFICES ASSUME odd # {} PROVE FALSE
    OBVIOUS
  <2>2. Len(words) \in Nat /\ odd \in SUBSET Nat
    OBVIOUS
  <2>3. PICK i \in odd : \A j \in odd : ~(j < i)
    BY <2>1, <2>2, Least, Zenon
  <2>4. i \in 0 .. Len(words) /\ ~Sound(g[i])
    BY <2>3
  <2>5. g[i] = IF i = 0 THEN ParseStart ELSE After(g[i - 1], words[i])
    BY <1>1, <2>4, ReadsAt
  <2>6. i # 0
    BY <2>4, <2>5, SoundStart
  <2>7. i - 1 \in 0 .. Len(words) /\ i - 1 \notin odd /\ words[i] \in Tokens
    BY <2>2, <2>3, <2>6
  <2> QED BY <2>4, <2>5, <2>6, <2>7, SoundAfter
<1>3. PICK x : x = ParseCTLine(words) /\ Sound(x) /\ x.status = "ok" /\ ctFilter(x.line)
  <2>1. ParseCTLine(words) = g[Len(words)] /\ Len(words) \in 0 .. Len(words)
    BY <1>1, ParseCTLineIs, LenProperties
  <2> QED BY <1>2, <2>1 DEF Accepted
<1>4. x.line.Orig.src \in Addr
  <2>1. x.cur # "nil"
    BY <1>3, TokensAssumption DEF Sound, ctFilter
  <2> QED BY <1>3, <2>1 DEF Sound
<1>5. Traffic(x.line) \in AcctData
  <2>1. Modulus \in Nat /\ Modulus > 0
    BY ModulusAssumption
  <2>2. \A d \in Dirs, f \in CountFields : x.line[d][f] \in Word
    <3>1. \A f \in CountFields : f \in Fields /\ Values(f) = Word /\ ZeroOf(f) = 0
      BY DEF CountFields, Fields, AddrFields, PortFields, Values, ZeroOf
    <3> QED BY <1>3, <2>1, <3>1 DEF Sound, Word
  <2>3. \A a, b \in Word : AddU(a, b) \in Word
    BY AddULaws, <2>1 DEF Word
  <2>4. /\ x.line.Orig.packets \in Word /\ x.line.Reply.packets \in Word
        /\ x.line.Orig.bytes \in Word /\ x.line.Reply.bytes \in Word
    BY <2>2 DEF Dirs, CountFields
  <2> QED BY <2>3, <2>4 DEF Traffic, AcctData
<1> QED BY <1>3, <1>4, <1>5
-----------------------------------------------------------------------------
(* The main loop. *)

(* A block exists only while it is written, when the map has just been      *)
(* emptied; an exited process holds no traffic.                             *)
BlockWhileWriting == /\ pc # "write" => block = EmptyMap
                     /\ pc = "write" => data = EmptyMap
EndedIsEmpty == pc = "ended" => span = {}

IInv == TypeOK /\ OneMinutePerBlock /\ BlockWhileWriting /\ EndedIsEmpty

(* The ledger's copies of the counters' operators are the same operators.   *)
LEMMA SameCounters ==
  /\ L!AcctData = AcctData /\ L!Zero = Zero /\ L!Totals = [Prefix -> AcctData]
  /\ L!NoTraffic = [k \in Prefix |-> Zero]
  /\ \A x, y : L!Plus(x, y) = Plus(x, y)
<1>1. L!AcctData = AcctData
  BY DEF AcctData, Word, L!AcctData, L!Word
<1>2. L!Zero = Zero
  BY DEF Zero, L!Zero
<1>3. \A x, y : L!Plus(x, y) = Plus(x, y)
  BY DEF Plus, AddU, L!Plus, L!AddU
<1> QED BY <1>1, <1>2, <1>3 DEF L!Totals, L!NoTraffic

(* What is neither in the map nor in a block is not pending.                *)
LEMMA PendingTyped ==
  ASSUME TypeOK
  PROVE  /\ Pending \in [Prefix -> AcctData]
         /\ \A k \in Prefix : /\ At(data, k) \in AcctData /\ At(block, k) \in AcctData
                              /\ Pending[k] = Plus(At(data, k), At(block, k))
<1>1. \A k \in Prefix : At(data, k) \in AcctData /\ At(block, k) \in AcctData
  BY MapLaws DEF TypeOK
<1>2. \A k \in Prefix : Plus(At(data, k), At(block, k)) \in AcctData
  BY <1>1, PlusLaws
<1> QED BY <1>1, <1>2 DEF Pending

(* The initial state satisfies the inductive invariant.                     *)
LEMMA InitIInv == Init => IInv
<1> SUFFICES ASSUME Init PROVE IInv
  OBVIOUS
<1>1. minute \in Nat
  BY ClockAssumption DEF Init
<1>2. TypeOK
  BY <1>1, EmptyLaws, SameCounters DEF Init, TypeOK
<1> QED BY <1>2 DEF Init, IInv, OneMinutePerBlock, BlockWhileWriting, EndedIsEmpty

(* A line the loop keeps has counters, and a source with a key.             *)
LEMMA ReadStep ==
  ASSUME IInv, NEW l \in Lines \cup Tails, Read(l)
  PROVE  /\ pc' \in {"scan", "record", "panic"} /\ now' \in Nat
         /\ pc' = "record" => Traffic(line') \in AcctData /\ KeyOf(line'.Orig.src) \in Prefix
         /\ UNCHANGED <<minute, last, data, block, span, restarts, books>>
<1>1. l \in Seq(Tokens) /\ Parsed[l] = ParseCTLine(l)
  BY LinesAssumption DEF Parsed
<1>2. Accepted(Parsed[l]) => /\ Traffic(Parsed[l].line) \in AcctData
                            /\ KeyOf(Parsed[l].line.Orig.src) \in Prefix
  BY <1>1, AcceptedLinesAreSound, PrefixAssumption
<1> QED BY <1>2 DEF IInv, TypeOK, Read

(* Every step keeps the variables in their types.                           *)
LEMMA TypeStep ==
  ASSUME IInv, [Next]_vars
  PROVE  TypeOK'
<1> USE SameCounters
<1>1. TypeOK /\ BlockWhileWriting
  BY DEF IInv
<1>2. Zero \in AcctData /\ EmptyMap \in DataMap
  BY EmptyLaws
<1>3. \A x, y \in AcctData : Plus(x, y) \in AcctData
  BY PlusLaws
<1>4. ASSUME Scan \/ ScanTail
      PROVE  TypeOK'
  <2>1. PICK l \in Lines \cup Tails : Read(l)
    BY <1>4 DEF Scan, ScanTail
  <2>2. child' \in {"up", "cut", "gone"}
    BY <1>1, <1>4 DEF TypeOK, Scan, ScanTail
  <2> QED BY <1>1, <2>1, <2>2, ReadStep DEF TypeOK, books
<1>5. ASSUME Record
      PROVE  TypeOK'
  <2> DEFINE k == KeyOf(line.Orig.src)
  <2>1. k \in Prefix /\ Traffic(line) \in AcctData
    BY <1>1, <1>5 DEF TypeOK, Record
  <2>2. Plus(At(data, k), Traffic(line)) \in AcctData
    BY <1>1, <1>3, <2>1, MapLaws DEF TypeOK
  <2>3. data' \in DataMap
    BY <1>1, <1>5, <2>1, <2>2, MapLaws DEF TypeOK, Record
  <2>4. accepted' \in L!Totals
    BY <1>1, <1>3, <1>5, <2>1 DEF TypeOK, Record
  <2>5. span' \in SUBSET Nat
    BY <1>1, <1>5 DEF TypeOK, Record
  <2> QED BY <1>1, <1>5, <2>3, <2>4, <2>5 DEF TypeOK, Record
<1>6. ASSUME SameMinute \/ DumpAndReset \/ WriteEnd \/ Tick \/ ChildExits \/ Restart
      PROVE  TypeOK'
  <2>1. CASE SameMinute
    BY <1>1, <1>2, <2>1 DEF TypeOK, SameMinute, books
  <2>2. CASE DumpAndReset
    BY <1>1, <1>2, <2>2 DEF TypeOK, DumpAndReset, books
  <2>3. CASE WriteEnd
    BY <1>1, <1>2, <2>3 DEF TypeOK, WriteEnd, books
  <2>4. CASE Tick
    BY <1>1, <1>2, <2>4, ClockAssumption DEF TypeOK, Tick, books
  <2>5. CASE ChildExits
    BY <1>1, <1>2, <2>5 DEF TypeOK, ChildExits, books
  <2>6. CASE Restart
    BY <1>1, <1>2, <2>6 DEF TypeOK, Restart, books
  <2> QED BY <1>6, <2>1, <2>2, <2>3, <2>4, <2>5, <2>6
<1>7. ASSUME NEW S \in SUBSET Prefix, WriteItems(S)
      PROVE  TypeOK'
  <2>1. PICK T \in SUBSET Prefix : block \in [T -> AcctData]
    BY <1>1 DEF TypeOK, DataMap
  <2>2. block' \in [T \ S -> AcctData] /\ T \ S \in SUBSET Prefix
    BY <1>7, <2>1 DEF WriteItems
  <2>3. block' \in DataMap
    BY <2>2 DEF DataMap
  <2>4. logged' \in L!Totals
    BY <1>1, <1>3, <1>7, <2>1 DEF TypeOK, WriteItems
  <2> QED BY <1>1, <1>7, <2>3, <2>4 DEF TypeOK, WriteItems
<1>8. ASSUME WriteFails
      PROVE  TypeOK'
  <2>1. lost' \in L!Totals
    BY <1>1, <1>3, <1>8, MapLaws DEF TypeOK, WriteFails
  <2> QED BY <1>1, <1>2, <1>8, <2>1 DEF TypeOK, WriteFails
<1>9. ASSUME Exit
      PROVE  TypeOK'
  <2>1. lost' \in L!Totals
    BY <1>1, <1>3, <1>9, PendingTyped DEF TypeOK, Exit
  <2> QED BY <1>1, <1>2, <1>9, <2>1 DEF TypeOK, Exit
<1>10. CASE UNCHANGED vars
  BY <1>1, <1>10 DEF TypeOK, vars, books
<1> QED
  BY <1>4, <1>5, <1>6, <1>7, <1>8, <1>9, <1>10 DEF Next, Main, Return, Panics, Crash

(* A block stays within the minute of the last accepted line, a block       *)
(* exists only while it is written, and an exit leaves nothing.             *)
LEMMA SpanStep ==
  ASSUME IInv, [Next]_vars
  PROVE  (OneMinutePerBlock /\ BlockWhileWriting /\ EndedIsEmpty)'
<1> USE DEF OneMinutePerBlock, BlockWhileWriting, EndedIsEmpty
<1>1. OneMinutePerBlock /\ BlockWhileWriting /\ EndedIsEmpty
  BY DEF IInv
<1>2. CASE Scan \/ ScanTail
  <2>1. PICK l \in Lines \cup Tails : Read(l)
    BY <1>2 DEF Scan, ScanTail
  <2>2. pc = "scan" /\ pc' \in {"scan", "record", "panic"} /\ UNCHANGED <<last, data, block, span>>
    BY <2>1, ReadStep DEF Read
  <2> QED BY <1>1, <2>2
<1>3. CASE Record
  BY <1>1, <1>3 DEF Record
<1>4. CASE SameMinute
  BY <1>1, <1>4 DEF SameMinute
<1>5. CASE DumpAndReset
  BY <1>1, <1>5 DEF DumpAndReset
<1>6. ASSUME NEW S \in SUBSET Prefix, WriteItems(S)
      PROVE  (OneMinutePerBlock /\ BlockWhileWriting /\ EndedIsEmpty)'
  BY <1>1, <1>6 DEF WriteItems
<1>7. CASE WriteFails
  BY <1>1, <1>7 DEF WriteFails
<1>8. CASE WriteEnd
  BY <1>1, <1>8 DEF WriteEnd
<1>9. CASE Exit
  BY <1>1, <1>9 DEF Exit
<1>10. CASE Tick \/ ChildExits \/ UNCHANGED vars
  BY <1>1, <1>10 DEF Tick, ChildExits, vars
<1>11. CASE Restart
  BY <1>1, <1>11 DEF Restart
<1> QED
  BY <1>2, <1>3, <1>4, <1>5, <1>6, <1>7, <1>8, <1>9, <1>10, <1>11
  DEF Next, Main, Return, Panics, Crash

(* Every reachable state satisfies the invariant.                           *)
LEMMA Invariance == Spec => []IInv
<1>1. Init => IInv
  BY InitIInv
<1>2. IInv /\ [Next]_vars => IInv'
  BY TypeStep, SpanStep DEF IInv
<1> QED BY <1>1, <1>2, PTL DEF Spec

(* Whatever the lines, the crashes and the restarts, a block of the log     *)
(* mixes two minutes of the hour only in the line that closes it.           *)
THEOREM CtmonOneMinutePerBlock == Spec => [](TypeOK /\ OneMinutePerBlock)
<1>1. IInv => TypeOK /\ OneMinutePerBlock
  BY DEF IInv
<1> QED BY <1>1, Invariance, PTL

(* The state of the main loop keeps its types, and a dump under way its      *)
(* position, through crashes and restarts.                                  *)
THEOREM CtmonTypes == Spec => []TypeOK
  BY CtmonOneMinutePerBlock, PTL

(* ctmon starts with empty books.                                           *)
LEMMA RefinesInit == Init => L!LedgerInit
<1>1. \A k \in Prefix : Plus(At(EmptyMap, k), At(EmptyMap, k)) = Zero
  BY EmptyLaws, PlusLaws
<1>2. Init => Pending = L!NoTraffic
  BY <1>1, SameCounters DEF Init, Pending
<1> QED BY <1>2 DEF Init, L!LedgerInit

(* What is pending stays pending, or leaves for the log or for nowhere.     *)
LEMMA RefinesStep ==
  ASSUME IInv, [Next]_vars
  PROVE  [L!LedgerNext]_(L!ledgerVars)
<1>1. TypeOK /\ BlockWhileWriting
  BY DEF IInv
<1>2. /\ Pending \in [Prefix -> AcctData]
      /\ \A k \in Prefix : /\ At(data, k) \in AcctData /\ At(block, k) \in AcctData
                           /\ Pending[k] = Plus(At(data, k), At(block, k))
  BY <1>1, PendingTyped
<1>3. ASSUME UNCHANGED <<data, block, books>>
      PROVE  UNCHANGED L!ledgerVars
  BY <1>3 DEF L!ledgerVars, Pending, books
<1>4. \A x \in AcctData : Plus(x, Zero) = x /\ Plus(Zero, x) = x
  BY PlusLaws
<1>5. \A k \in Prefix : At(EmptyMap, k) = Zero
  BY EmptyLaws
<1>6. ASSUME Record
      PROVE  L!LedgerNext
  <2> DEFINE k == KeyOf(line.Orig.src)  t == Traffic(line)
  <2>1. k \in Prefix /\ t \in AcctData
    BY <1>1, <1>6 DEF TypeOK, Record
  <2>2. Plus(At(data, k), t) \in AcctData /\ data \in DataMap
    BY <1>1, <1>2, <2>1, PlusLaws DEF TypeOK
  <2>3. ASSUME NEW j \in Prefix
        PROVE  At(data', j) = IF j = k THEN Plus(At(data, k), t) ELSE At(data, j)
    BY <1>6, <2>1, <2>2, AtPut DEF Record
  <2>4. Plus(Plus(At(data, k), t), At(block, k)) = Plus(Pending[k], t)
    BY <1>2, <2>1, PlusSwaps
  <2>5. Pending' = [Pending EXCEPT ![k] = Plus(@, t)]
    <3>1. \A j \in Prefix : Plus(At(data', j), At(block, j))
                               = IF j = k THEN Plus(Pending[k], t) ELSE Pending[j]
      BY <1>2, <2>3, <2>4
    <3>2. block' = block
      BY <1>6 DEF Record
    <3> QED BY <2>1, <3>1, <3>2 DEF Pending
  <2>6. accepted' = [accepted EXCEPT ![k] = Plus(@, t)] /\ UNCHANGED <<logged, lost>>
    BY <1>6 DEF Record
  <2>7. L!Accept(k, t)
    BY <2>5, <2>6, SameCounters DEF L!Accept
  <2> QED BY <2>1, <2>7, SameCounters DEF L!LedgerNext
<1>7. ASSUME DumpAndReset
      PROVE  UNCHANGED L!ledgerVars
  <2>1. block = EmptyMap /\ block' = data /\ data' = EmptyMap /\ UNCHANGED books
    BY <1>1, <1>7 DEF DumpAndReset, BlockWhileWriting
  <2>2. \A k \in Prefix : Plus(At(data', k), At(block', k)) = Plus(At(data, k), At(block, k))
    BY <1>2, <1>4, <1>5, <2>1
  <2>3. Pending' = Pending
    BY <2>2 DEF Pending
  <2> QED BY <2>1, <2>3 DEF L!ledgerVars, books
<1>8. ASSUME NEW S \in SUBSET Prefix, WriteItems(S)
      PROVE  L!LedgerNext
  <2>1. /\ data = EmptyMap /\ data' = EmptyMap /\ S \subseteq DOMAIN block
        /\ block' = [k \in DOMAIN block \ S |-> block[k]]
    BY <1>1, <1>8 DEF WriteItems, BlockWhileWriting
  <2>2. ASSUME NEW k \in Prefix
        PROVE  /\ Pending[k] = At(block, k)
               /\ Plus(At(data', k), At(block', k)) = IF k \in S THEN Zero ELSE Pending[k]
    <3>1. Pending[k] = At(block, k)
      BY <1>2, <1>4, <1>5, <2>1
    <3>2. Plus(At(data', k), At(block', k)) = At(block', k)
      <4>1. At(block', k) \in AcctData
        BY <1>2, <2>1, EmptyLaws DEF At
      <4>2. At(data', k) = Zero
        BY <1>5, <2>1
      <4> QED BY <1>4, <4>1, <4>2
    <3>3. At(block', k) = IF k \in S THEN Zero ELSE At(block, k)
      BY <2>1 DEF At
    <3> QED BY <3>1, <3>2, <3>3
  <2>3. Pending' = L!Without(Pending, S)
    <3>1. Pending' = [k \in Prefix |-> IF k \in S THEN Zero ELSE Pending[k]]
      BY <2>2 DEF Pending
    <3> QED BY <3>1, SameCounters DEF L!Without
  <2>4. logged' = L!Into(logged, Pending, S)
    BY <1>8, <2>1, <2>2, SameCounters DEF WriteItems, L!Into, At
  <2>5. L!Log(S)
    BY <1>8, <2>3, <2>4 DEF L!Log, WriteItems
  <2> QED BY <2>5 DEF L!LedgerNext
<1>9. ASSUME WriteFails
      PROVE  L!LedgerNext
  <2>1. data = EmptyMap /\ data' = EmptyMap /\ block' = EmptyMap
    BY <1>1, <1>9 DEF WriteFails, BlockWhileWriting
  <2>2. \A k \in Prefix : /\ Pending[k] = At(block, k)
                           /\ Plus(At(data', k), At(block', k)) = Zero
    BY <1>2, <1>4, <1>5, <2>1, EmptyLaws
  <2>3. Pending' = L!Without(Pending, Prefix)
    BY <2>2, SameCounters DEF Pending, L!Without
  <2>4. lost' = L!Into(lost, Pending, Prefix)
    BY <1>9, <2>2, SameCounters DEF WriteFails, L!Into
  <2>5. L!Lose(Prefix)
    BY <1>9, <2>3, <2>4 DEF L!Lose, WriteFails
  <2> QED BY <2>5 DEF L!LedgerNext
<1>10. ASSUME Exit
       PROVE  L!LedgerNext
  <2>1. \A k \in Prefix : Plus(At(data', k), At(block', k)) = Zero
    BY <1>4, <1>5, <1>10, EmptyLaws DEF Exit
  <2>2. Pending' = L!Without(Pending, Prefix)
    BY <2>1, SameCounters DEF Pending, L!Without
  <2>3. lost' = L!Into(lost, Pending, Prefix)
    BY <1>10, SameCounters DEF Exit, L!Into
  <2>4. L!Lose(Prefix)
    BY <1>10, <2>2, <2>3 DEF L!Lose, Exit
  <2> QED BY <2>4 DEF L!LedgerNext
<1>11. ASSUME Scan \/ ScanTail
       PROVE  UNCHANGED L!ledgerVars
  <2>1. PICK l \in Lines \cup Tails : Read(l)
    BY <1>11 DEF Scan, ScanTail
  <2> QED BY <1>3, <2>1, ReadStep
<1>12. ASSUME SameMinute \/ WriteEnd \/ Tick \/ ChildExits \/ Restart
       PROVE  UNCHANGED L!ledgerVars
  BY <1>3, <1>12 DEF SameMinute, WriteEnd, Tick, ChildExits, Restart
<1>13. CASE UNCHANGED vars
  BY <1>3, <1>13 DEF vars
<1> QED
  BY <1>6, <1>7, <1>8, <1>9, <1>10, <1>11, <1>12, <1>13 DEF Next, Main, Return, Panics, Crash

(* ctmon with its crashes, failed writes and restarts implements the        *)
(* ledger: traffic it has accepted is logged once or dropped, never both.   *)
THEOREM CtmonImplementsLedger == Spec => ImplementsLedger
<1>1. Init => L!LedgerInit
  BY RefinesInit
<1>2. IInv /\ [Next]_vars => [L!LedgerNext]_(L!ledgerVars)
  BY RefinesStep
<1>3. Spec => []IInv
  BY Invariance
<1> QED BY <1>1, <1>2, <1>3, PTL DEF Spec, ImplementsLedger, L!LedgerSpec

LT == INSTANCE LedgerTheorems WITH pending <- Pending

(* The two instances of the ledger are the same specification.              *)
LEMMA SameLedger ==
  /\ L!LedgerInit => LT!LedgerInit
  /\ [L!LedgerNext]_(L!ledgerVars) => [LT!LedgerNext]_(LT!ledgerVars)
  /\ LT!Conserved => BooksBalance
BY DEF BooksBalance, L!LedgerInit, LT!LedgerInit, L!LedgerNext, LT!LedgerNext,
       L!ledgerVars, LT!ledgerVars, L!Conserved, LT!Conserved, L!NoTraffic, LT!NoTraffic,
       L!Zero, LT!Zero, L!Plus, LT!Plus, L!AddU, LT!AddU, L!Accept, LT!Accept,
       L!Log, LT!Log, L!Lose, LT!Lose, L!Into, LT!Into, L!Without, LT!Without,
       L!AcctData, LT!AcctData, L!Word, LT!Word

(* In every reachable state each accepted byte is pending, logged or lost.  *)
THEOREM CtmonBooksBalance == Spec => []BooksBalance
<1>1. Spec => L!LedgerSpec
  BY CtmonImplementsLedger DEF ImplementsLedger
<1>2. L!LedgerSpec => LT!LedgerSpec
  BY SameLedger, PTL DEF L!LedgerSpec, LT!LedgerSpec
<1>3. LT!LedgerSpec => [](LT!LedgerTypeOK /\ LT!Conserved)
  BY LT!LedgerConserves, ModulusAssumption
<1> QED BY <1>1, <1>2, <1>3, SameLedger, PTL
-----------------------------------------------------------------------------
(* ParseCTLine word by word. *)

(* cur names the direction the line has come to.                            *)
CurFollows ==
  st.status = "ok" =>
    /\ st.cur = "nil" <=> ~SourceBy(Len(consumed))
    /\ st.cur = "Reply" <=> ReplyBy(Len(consumed))

(* The first source is stored as soon as there is a direction.              *)
SourceStored == st.status = "ok" /\ st.cur # "nil" => st.line.Orig.src \in Addr

(* The locals have their types, the line its words.                         *)
Shapes == /\ consumed \in Seq(Tokens) /\ st \in Locals
          /\ \A d \in Dirs, f \in Fields : st.line[d][f] \in Values(f) \cup {ZeroOf(f)}

(* What holds whenever the loop takes the next word.                        *)
ParseInv ==
  /\ Shapes
  /\ CurFollows
  /\ SourceStored
  /\ ParsedIsLastMentioned
  /\ StopsAtFirstOffence
  /\ PanicsOnlyWithoutSource

(* One more word leaves the reading of the words before it as it was.       *)
LEMMA WordsGrow ==
  ASSUME consumed \in Seq(Tokens), NEW t \in Tokens, consumed' = Append(consumed, t),
         NEW n, n = Len(consumed)
  PROVE  /\ n \in Nat /\ consumed' \in Seq(Tokens) /\ Len(consumed') = n + 1
         /\ \A i \in 1 .. n : consumed'[i] = consumed[i]
         /\ consumed'[n + 1] = t
         /\ \A i \in 0 .. n : SourceBy(i)' <=> SourceBy(i)
         /\ \A i \in 0 .. n : ReplyBy(i)' <=> ReplyBy(i)
         /\ SourceBy(n + 1)' <=> SourceBy(n) \/ t.key = "src"
         /\ ReplyBy(n + 1)' <=> ReplyBy(n) \/ (t.key = "src" /\ SourceBy(n))
<1>1. /\ n \in Nat /\ consumed' \in Seq(Tokens) /\ Len(consumed') = n + 1
      /\ \A i \in 1 .. n : consumed'[i] = consumed[i]
      /\ consumed'[n + 1] = t
  OBVIOUS
<1>2. ASSUME NEW i \in 0 .. n
      PROVE  (SourceBy(i)' <=> SourceBy(i)) /\ (ReplyBy(i)' <=> ReplyBy(i))
  BY <1>1 DEF SourceBy, ReplyBy
<1>3. SourceBy(n + 1)' <=> SourceBy(n) \/ t.key = "src"
  BY <1>1 DEF SourceBy
<1>4. ReplyBy(n + 1)' <=> ReplyBy(n) \/ (t.key = "src" /\ SourceBy(n))
  BY <1>1 DEF SourceBy, ReplyBy
<1> QED BY <1>1, <1>2, <1>3, <1>4

(* The word that is read goes where the declarative reading puts it, and is *)
(* refused exactly when it offends.                                         *)
LEMMA WordRead ==
  ASSUME Shapes, CurFollows, SourceStored, NEW t \in Tokens, Feed(t),
         NEW n, n = Len(consumed)
  PROVE  /\ Shapes' /\ CurFollows' /\ SourceStored'
         /\ st'.status = "ok" <=> ~(t.key \in Fields /\ Refused(st, t))
         /\ st'.status = "panic" => ~SourceBy(n + 1)'
         /\ t.key \in Fields /\ Refused(st, t) <=> Offends(n + 1)'
         /\ st'.status = "ok" =>
              \A d \in Dirs, f \in Fields :
                st'.line[d][f] =
                  IF t.key = f /\ SourceBy(n + 1)' /\ (d = "Reply" <=> ReplyBy(n + 1)')
                  THEN t.val ELSE st.line[d][f]
<1>1. /\ st.status = "ok" /\ st \in Locals /\ consumed \in Seq(Tokens)
      /\ consumed' = Append(consumed, t) /\ st' = ParseToken(st, t)
      /\ st.cur \in {"nil"} \cup Dirs
      /\ \A d \in Dirs, f \in Fields : st.line[d][f] \in Values(f) \cup {ZeroOf(f)}
  BY DEF Feed, Shapes, Locals
<1>2. /\ n \in Nat /\ consumed' \in Seq(Tokens) /\ Len(consumed') = n + 1
      /\ consumed'[n + 1] = t
      /\ SourceBy(n)' <=> SourceBy(n)
      /\ ReplyBy(n)' <=> ReplyBy(n)
      /\ SourceBy(n + 1)' <=> SourceBy(n) \/ t.key = "src"
      /\ ReplyBy(n + 1)' <=> ReplyBy(n) \/ (t.key = "src" /\ SourceBy(n))
  BY <1>1, WordsGrow
<1>3. /\ st.cur = "nil" <=> ~SourceBy(n)
      /\ st.cur = "Reply" <=> ReplyBy(n)
  BY <1>1 DEF CurFollows
<1>4. Offends(n + 1)' <=> t.key \in Fields /\ Refused(st, t)
  <2>1. Offends(n + 1)' <=> /\ t.key \in Fields
                            /\ \/ t.val = Bad
                               \/ ~SourceBy(n + 1)'
                               \/ t.key = "src" /\ ReplyBy(n)'
    BY <1>2 DEF Offends
  <2> QED BY <1>2, <1>3, <2>1 DEF Refused
<1>5. CASE t.key \notin Fields
  <2>1. st' = st /\ t.key # "src"
    BY <1>1, <1>5, TokenCases DEF Fields, AddrFields
  <2>2. (SourceBy(n + 1)' <=> SourceBy(n)) /\ (ReplyBy(n + 1)' <=> ReplyBy(n))
    BY <1>2, <2>1
  <2>3. Shapes'
    BY <1>1, <1>2, <2>1 DEF Shapes
  <2>4. CurFollows' /\ SourceStored'
    BY <1>2, <1>3, <2>1, <2>2 DEF CurFollows, SourceStored
  <2>5. \A f \in Fields : t.key # f
    BY <1>5
  <2> QED BY <1>1, <1>4, <1>5, <2>1, <2>3, <2>4, <2>5
<1>6. CASE t.key \in Fields /\ Refused(st, t)
  <2>1. /\ st' \in Locals /\ st'.line = st.line /\ st'.status \in {"err", "panic"}
        /\ st'.status = "panic" => st.cur = "nil" /\ t.key # "src"
    BY <1>1, <1>6, TokenOutcome
  <2>2. Shapes' /\ CurFollows' /\ SourceStored'
    BY <1>1, <1>2, <2>1 DEF Shapes, CurFollows, SourceStored
  <2> QED BY <1>1, <1>2, <1>3, <1>4, <1>6, <2>1, <2>2
<1>7. CASE t.key \in Fields /\ ~Refused(st, t)
  <2>1. /\ st' \in Locals /\ Direction(st, t) \in Dirs /\ st'.status = "ok"
        /\ st'.cur = Direction(st, t)
        /\ \A d \in Dirs, f \in Fields :
             st'.line[d][f] = IF d = Direction(st, t) /\ f = t.key THEN t.val ELSE st.line[d][f]
    BY <1>1, <1>7, TokenOutcome
  <2>2. SourceBy(n + 1)' /\ st'.cur # "nil" /\ (st'.cur = "Reply" <=> ReplyBy(n + 1)')
    BY <1>1, <1>2, <1>3, <1>7, <2>1 DEF Direction, NextDir, Refused, Dirs
  <2>3. \A d \in Dirs : (d = "Reply" <=> ReplyBy(n + 1)') <=> d = Direction(st, t)
    BY <2>1, <2>2 DEF Dirs
  <2>4. t.val \in Values(t.key)
    BY <1>7, TokensAssumption DEF Refused
  <2>5. Shapes'
    BY <1>1, <1>2, <2>1, <2>4 DEF Shapes
  <2>6. CurFollows'
    BY <1>2, <2>2 DEF CurFollows
  <2>7. SourceStored'
    <3>1. "src" \in Fields /\ "Orig" \in Dirs /\ Values("src") = Addr
      BY DEF Fields, AddrFields, Dirs, Values
    <3>2. CASE st.cur = "nil"
      <4>1. t.key = "src" /\ Direction(st, t) = "Orig"
        BY <1>7, <3>2 DEF Refused, Direction, NextDir
      <4> QED BY <2>1, <2>4, <3>1, <4>1 DEF SourceStored
    <3>3. CASE st.cur # "nil"
      <4>1. st.line.Orig.src \in Addr
        BY <1>1, <3>3 DEF SourceStored
      <4>2. st'.line.Orig.src \in {t.val, st.line.Orig.src}
            /\ (st'.line.Orig.src # st.line.Orig.src => t.key = "src")
        <5>1. st'.line["Orig"]["src"] = IF "Orig" = Direction(st, t) /\ "src" = t.key
                                        THEN t.val ELSE st.line["Orig"]["src"]
          BY <2>1, <3>1
        <5> QED BY <5>1
      <4> QED BY <2>4, <3>1, <4>1, <4>2 DEF SourceStored
    <3> QED BY <3>2, <3>3
  <2>8. \A d \in Dirs, f \in Fields :
          st'.line[d][f] =
            IF t.key = f /\ SourceBy(n + 1)' /\ (d = "Reply" <=> ReplyBy(n + 1)')
            THEN t.val ELSE st.line[d][f]
    BY <2>1, <2>2, <2>3
  <2> QED BY <1>1, <1>2, <1>4, <1>7, <2>1, <2>2, <2>5, <2>6, <2>7, <2>8
<1> QED BY <1>5, <1>6, <1>7

(* A field changes when, and only when, the word read mentions it.          *)
LEMMA LastMentionedStep ==
  ASSUME ParseInv, NEW t \in Tokens, Feed(t)
  PROVE  ParsedIsLastMentioned'
<1>0. PICK n : n = Len(consumed)
  OBVIOUS
<1>1. /\ consumed \in Seq(Tokens) /\ consumed' = Append(consumed, t) /\ st.status = "ok"
      /\ st \in Locals
  BY DEF ParseInv, Shapes, Feed
<1>2. /\ n \in Nat /\ Len(consumed') = n + 1 /\ consumed'[n + 1] = t
      /\ \A i \in 1 .. n : consumed'[i] = consumed[i]
      /\ \A i \in 0 .. n : SourceBy(i)' <=> SourceBy(i)
      /\ \A i \in 0 .. n : ReplyBy(i)' <=> ReplyBy(i)
  BY <1>0, <1>1, WordsGrow
<1>3. st'.status = "ok" =>
        \A d \in Dirs, f \in Fields :
          st'.line[d][f] =
            IF t.key = f /\ SourceBy(n + 1)' /\ (d = "Reply" <=> ReplyBy(n + 1)')
            THEN t.val ELSE st.line[d][f]
  BY <1>0, WordRead DEF ParseInv
<1>4. SUFFICES ASSUME st'.status = "ok", NEW d \in Dirs, NEW f \in Fields
               PROVE  \/ Mentions(d, f)' = {} /\ st'.line[d][f] = ZeroOf(f)
                      \/ \E i \in Mentions(d, f)' :
                           IsLast(i, Mentions(d, f)') /\ st'.line[d][f] = consumed'[i].val
  BY DEF ParsedIsLastMentioned
<1>5. \A i \in 1 .. n : i \in Mentions(d, f)' <=> i \in Mentions(d, f)
  BY <1>0, <1>2 DEF Mentions
<1>6. n + 1 \in Mentions(d, f)' <=> t.key = f /\ SourceBy(n + 1)' /\ (d = "Reply" <=> ReplyBy(n + 1)')
  BY <1>2 DEF Mentions
<1>7. Mentions(d, f)' \subseteq 1 .. n + 1 /\ Mentions(d, f) \subseteq 1 .. n
  BY <1>0, <1>2 DEF Mentions
<1>8. CASE n + 1 \in Mentions(d, f)'
  <2>1. st'.line[d][f] = t.val /\ n + 1 \in Mentions(d, f)' /\ IsLast(n + 1, Mentions(d, f)')
    BY <1>2, <1>3, <1>4, <1>6, <1>7, <1>8 DEF IsLast
  <2> QED BY <1>2, <2>1
<1>9. CASE n + 1 \notin Mentions(d, f)'
  <2>1. st'.line[d][f] = st.line[d][f]
    BY <1>3, <1>4, <1>6, <1>9
  <2>2. Mentions(d, f)' = Mentions(d, f)
    <3>1. \A i : i \in Mentions(d, f)' <=> i \in Mentions(d, f)
      BY <1>2, <1>5, <1>7, <1>9
    <3> QED BY <3>1
  <2>3. \/ Mentions(d, f) = {} /\ st.line[d][f] = ZeroOf(f)
        \/ \E i \in Mentions(d, f) : IsLast(i, Mentions(d, f)) /\ st.line[d][f] = consumed[i].val
    BY <1>1 DEF ParseInv, ParsedIsLastMentioned
  <2> QED BY <1>2, <1>7, <2>1, <2>2, <2>3
<1> QED BY <1>8, <1>9

(* The loop goes on exactly while no word offends.                          *)
LEMMA OffenceStep ==
  ASSUME ParseInv, NEW t \in Tokens, Feed(t)
  PROVE  StopsAtFirstOffence' /\ PanicsOnlyWithoutSource'
<1>0. PICK n : n = Len(consumed)
  OBVIOUS
<1>1. consumed \in Seq(Tokens) /\ consumed' = Append(consumed, t) /\ st.status = "ok"
  BY DEF ParseInv, Shapes, Feed
<1>2. /\ n \in Nat /\ Len(consumed') = n + 1
      /\ \A i \in 1 .. n : consumed'[i] = consumed[i]
      /\ \A i \in 0 .. n : SourceBy(i)' <=> SourceBy(i)
      /\ \A i \in 0 .. n : ReplyBy(i)' <=> ReplyBy(i)
  BY <1>0, <1>1, WordsGrow
<1>3. (st'.status = "ok" <=> ~Offends(n + 1)') /\ (st'.status = "panic" => ~SourceBy(n + 1)')
  BY <1>0, WordRead DEF ParseInv
<1>4. \A i \in 1 .. n : ~Offends(i)
  BY <1>0, <1>1 DEF ParseInv, StopsAtFirstOffence
<1>5. \A i \in 1 .. n : Offends(i)' <=> Offends(i)
  <2>1. ASSUME NEW i \in 1 .. n
        PROVE  Offends(i)' <=> Offends(i)
    <3>1. i - 1 \in 0 .. n /\ i \in 0 .. n
      BY <1>2
    <3>2. (SourceBy(i)' <=> SourceBy(i)) /\ (ReplyBy(i - 1)' <=> ReplyBy(i - 1))
          /\ consumed'[i] = consumed[i]
      BY <1>2, <2>1, <3>1
    <3> QED BY <3>2 DEF Offends
  <2> QED BY <2>1
<1>6. StopsAtFirstOffence'
  BY <1>2, <1>3, <1>4, <1>5 DEF StopsAtFirstOffence
<1>7. PanicsOnlyWithoutSource'
  BY <1>2, <1>3 DEF PanicsOnlyWithoutSource
<1> QED BY <1>6, <1>7

(* Every reachable state of the parser satisfies the invariant.             *)
LEMMA ParseInvariant == ParseSpec => []ParseInv
<1>1. ParseInit => ParseInv
  <2> SUFFICES ASSUME ParseInit PROVE ParseInv
    OBVIOUS
  <2>1. consumed = <<>> /\ st = ParseStart /\ Len(consumed) = 0 /\ consumed \in Seq(Tokens)
    BY DEF ParseInit
  <2>2. \A f \in Fields : ZeroOf(f) \in Cell
    BY DEF ZeroOf, Cell
  <2>3. NoDirection \in [Fields -> Cell] /\ \A f \in Fields : NoDirection[f] = ZeroOf(f)
    BY <2>2 DEF NoDirection
  <2>4. NoLine \in [Dirs -> [Fields -> Cell]] /\ \A d \in Dirs : NoLine[d] = NoDirection
    BY <2>3 DEF NoLine
  <2>5. /\ st \in Locals /\ st.status = "ok" /\ st.cur = "nil" /\ st.line = NoLine
    BY <2>1, <2>4 DEF ParseStart, Locals
  <2>6. Shapes
    BY <2>1, <2>3, <2>4, <2>5 DEF Shapes
  <2>7. CurFollows /\ SourceStored
    BY <2>1, <2>5 DEF CurFollows, SourceStored, SourceBy, ReplyBy
  <2>8. \A d \in Dirs, f \in Fields : Mentions(d, f) = {}
    BY <2>1 DEF Mentions
  <2>9. ParsedIsLastMentioned
    BY <2>3, <2>4, <2>5, <2>8 DEF ParsedIsLastMentioned
  <2>10. StopsAtFirstOffence /\ PanicsOnlyWithoutSource
    BY <2>1, <2>5 DEF StopsAtFirstOffence, PanicsOnlyWithoutSource
  <2> QED BY <2>6, <2>7, <2>9, <2>10 DEF ParseInv
<1>2. ParseInv /\ [ParseNext]_parseVars => ParseInv'
  <2> SUFFICES ASSUME ParseInv, [ParseNext]_parseVars PROVE ParseInv'
    OBVIOUS
  <2>1. ASSUME NEW t \in Tokens, Feed(t)
        PROVE  ParseInv'
    <3>1. Shapes' /\ CurFollows' /\ SourceStored'
      BY <2>1, WordRead DEF ParseInv
    <3>2. ParsedIsLastMentioned'
      BY <2>1, LastMentionedStep
    <3>3. StopsAtFirstOffence' /\ PanicsOnlyWithoutSource'
      BY <2>1, OffenceStep
    <3> QED BY <3>1, <3>2, <3>3 DEF ParseInv
  <2>2. ASSUME UNCHANGED parseVars
        PROVE  ParseInv'
    <3>1. consumed' = consumed /\ st' = st
      BY <2>2 DEF parseVars
    <3>2. \A i : (SourceBy(i)' <=> SourceBy(i)) /\ (ReplyBy(i)' <=> ReplyBy(i))
      BY <3>1 DEF SourceBy, ReplyBy
    <3>3. \A i : Offends(i)' <=> Offends(i)
      BY <3>1, <3>2 DEF Offends
    <3>4. \A d, f : Mentions(d, f)' = Mentions(d, f)
      BY <3>1, <3>2 DEF Mentions
    <3>5. Shapes' /\ CurFollows' /\ SourceStored'
      BY <3>1, <3>2 DEF ParseInv, Shapes, CurFollows, SourceStored
    <3>6. ParsedIsLastMentioned'
      BY <3>1, <3>4 DEF ParseInv, ParsedIsLastMentioned
    <3>7. StopsAtFirstOffence' /\ PanicsOnlyWithoutSource'
      BY <3>1, <3>2, <3>3 DEF ParseInv, StopsAtFirstOffence, PanicsOnlyWithoutSource
    <3> QED BY <3>5, <3>6, <3>7 DEF ParseInv
  <2> QED BY <2>1, <2>2 DEF ParseNext
<1> QED BY <1>1, <1>2, PTL DEF ParseSpec

(* ParseCTLine keeps its locals in their types: no field ever holds what is *)
(* left of a failed conversion, or of another field.                        *)
THEOREM ParseTypes == ParseSpec => []ParseTypeOK
<1>1. ParseInv => ParseTypeOK
  BY DEF ParseInv, Shapes, Locals, ParseTypeOK, Dirs
<1> QED BY <1>1, ParseInvariant, PTL

(* For any words in any order: what ParseCTLine returns without an error is *)
(* what the line says, field by field and direction by direction.           *)
THEOREM ParseIsLastMentioned == ParseSpec => []ParsedIsLastMentioned
<1>1. ParseInv => ParsedIsLastMentioned
  BY DEF ParseInv
<1> QED BY <1>1, ParseInvariant, PTL

(* ParseCTLine refuses exactly the lines in which a word offends.           *)
THEOREM ParseStopsAtFirstOffence == ParseSpec => []StopsAtFirstOffence
<1>1. ParseInv => StopsAtFirstOffence
  BY DEF ParseInv
<1> QED BY <1>1, ParseInvariant, PTL

(* Only a line with a field before every src= makes ctmon panic.            *)
THEOREM ParsePanicsOnlyWithoutSource == ParseSpec => []PanicsOnlyWithoutSource
<1>1. ParseInv => PanicsOnlyWithoutSource
  BY DEF ParseInv
<1> QED BY <1>1, ParseInvariant, PTL

(* Every line Record is called with has a source address: port 0 is no web  *)
(* port, and the port is stored only once the source is.                    *)
THEOREM ParseAcceptedHasSource == ParseSpec => []AcceptedHasSource
<1>1. ParseInv => AcceptedHasSource
  <2> SUFFICES ASSUME ParseInv, st.status = "ok", ctFilter(st.line)
               PROVE  st.line.Orig.src \in Addr
    BY DEF AcceptedHasSource
  <2>1. st.line.Orig.dport # 0
    BY TokensAssumption DEF ctFilter
  <2>2. "Orig" \in Dirs /\ "dport" \in Fields /\ ZeroOf("dport") = 0
    BY DEF Dirs, Fields, PortFields, AddrFields, ZeroOf
  <2>3. Mentions("Orig", "dport") # {}
    <3>1. \/ Mentions("Orig", "dport") = {} /\ st.line["Orig"]["dport"] = 0
          \/ \E i \in Mentions("Orig", "dport") : TRUE
      BY <2>2 DEF ParseInv, ParsedIsLastMentioned
    <3> QED BY <2>1, <3>1
  <2>4. SourceBy(Len(consumed))
    <3>1. PICK i \in 1 .. Len(consumed) : SourceBy(i)
      BY <2>3 DEF Mentions
    <3> QED BY <3>1 DEF SourceBy, ParseInv, Shapes
  <2> QED BY <2>4 DEF ParseInv, CurFollows, SourceStored
<1> QED BY <1>1, ParseInvariant, PTL
(* The locals are those of the words read so far, and ParseCTLine, given    *)
(* these words, returns them.                                               *)
Run == consumed \in Seq(Tokens) /\ \E g : Reads(g, consumed) /\ st = g[Len(consumed)]

LEMMA RunStep == Run /\ [ParseNext]_parseVars => Run'
<1> SUFFICES ASSUME Run, [ParseNext]_parseVars PROVE Run'
  OBVIOUS
<1>1. ASSUME NEW t \in Tokens, Feed(t) PROVE Run'
  <2>1. PICK h : Reads(h, consumed) /\ st = h[Len(consumed)]
    BY DEF Run
  <2>2. consumed \in Seq(Tokens) /\ consumed' = Append(consumed, t) /\ st' = After(st, t)
    BY <1>1 DEF Run, Feed, After
  <2>3. consumed' \in Seq(Tokens)
    BY <2>2, AppendProperties
  <2>4. \E g : Reads(g, consumed') /\ g[Len(consumed')] = st'
    BY <2>1, <2>2, ReadsGrow
  <2> QED BY <2>3, <2>4 DEF Run
<1>2. CASE UNCHANGED parseVars
  BY <1>2 DEF parseVars, Run
<1> QED BY <1>1, <1>2 DEF ParseNext

(* Word for word, ParseCTLine is the machine of CTParse.                    *)
THEOREM ParseRunsTheFunction == ParseSpec => [](st = ParseCTLine(consumed))
<1>1. ParseInit => Run
  <2>1. Reads([n \in 0 .. 0 |-> ParseStart], <<>>) /\ <<>> \in Seq(Tokens) /\ Len(<<>>) = 0
    BY DEF Reads
  <2> QED BY <2>1 DEF ParseInit, Run
<1>2. Run => st = ParseCTLine(consumed)
  BY ParseCTLineIs DEF Run
<1> QED BY <1>1, <1>2, RunStep, PTL DEF ParseSpec
-----------------------------------------------------------------------------
(* The order of a block. *)

(* uint64 holds a whole number of ints, whichever width they have, and no   *)
(* count reaches the largest int.                                           *)
CountsFit == /\ \E k \in Nat : Modulus = k * (2 * HalfInt)
             /\ Counts \subseteq 0 .. HalfInt - 1

(* Within half the range of int, the conversion of a wrapped difference is  *)
(* the difference.                                                          *)
LEMMA DifferenceSurvives ==
  ASSUME CountsFit, NEW a \in Counts, NEW b \in Counts
  PROVE  a \in Nat /\ b \in Nat /\ ToInt(SubU(a, b)) = a - b
<1>1. PICK k \in Nat : Modulus = k * (2 * HalfInt)
  BY DEF CountsFit
<1>2. /\ a \in 0 .. HalfInt - 1 /\ b \in 0 .. HalfInt - 1
      /\ HalfInt \in Nat /\ HalfInt > 0 /\ Modulus \in Nat /\ Modulus > 0
  BY WidthAssumption, ModulusAssumption DEF CountsFit
<1>3. k >= 1 /\ Modulus >= 2 * HalfInt
  <2>1. k # 0
    BY <1>1, <1>2
  <2>2. k = 1 + (k - 1) /\ k - 1 \in Nat
    BY <2>1
  <2>3. k * (2 * HalfInt) = 2 * HalfInt + (k - 1) * (2 * HalfInt)
    BY <1>2, <2>2
  <2>4. (k - 1) * (2 * HalfInt) >= 0
    BY <1>2, <2>2
  <2> QED BY <1>1, <1>2, <2>2, <2>3, <2>4
<1>4. CASE a >= b
  <2>1. SubU(a, b) = a - b
    BY <1>2, <1>3, <1>4 DEF SubU
  <2>2. (a - b) % (2 * HalfInt) = a - b
    BY <1>2, <1>4
  <2> QED BY <1>2, <2>1, <2>2 DEF ToInt
<1>5. CASE a < b
  <2>1. SubU(a, b) = a - b + Modulus
    <3>1. a - b = (-1) * Modulus + (a - b + Modulus) /\ a - b + Modulus \in 0 .. Modulus - 1
      BY <1>2, <1>3, <1>5
    <3>2. ((-1) * Modulus + (a - b + Modulus)) % Modulus = a - b + Modulus
      BY <1>2, <3>1, RemainderIs
    <3> QED BY <3>1, <3>2 DEF SubU
  <2>2. (a - b + Modulus) % (2 * HalfInt) = a - b + 2 * HalfInt
    <3>1. a - b + Modulus = (k - 1) * (2 * HalfInt) + (a - b + 2 * HalfInt)
      <4>1. k * (2 * HalfInt) = (k - 1) * (2 * HalfInt) + 2 * HalfInt
        BY <1>2, <1>3
      <4> QED BY <1>1, <1>2, <4>1
    <3>2. a - b + 2 * HalfInt \in 0 .. 2 * HalfInt - 1 /\ k - 1 \in Int
      BY <1>2, <1>5
    <3>3. ((k - 1) * (2 * HalfInt) + (a - b + 2 * HalfInt)) % (2 * HalfInt) = a - b + 2 * HalfInt
      <4>1. 2 * HalfInt \in Nat /\ 2 * HalfInt > 0
        BY <1>2
      <4> QED BY <3>2, <4>1, RemainderIs, Zenon
    <3> QED BY <3>1, <3>3
  <2>3. a - b + 2 * HalfInt >= HalfInt
    BY <1>2
  <2> QED BY <1>2, <2>1, <2>2, <2>3 DEF ToInt
<1> QED BY <1>2, <1>4, <1>5

(* The comparison then says what Before says.                               *)
LEMMA CompareIsBefore ==
  ASSUME CountsFit, NEW a \in SortItem, NEW b \in SortItem
  PROVE  Compare(a, b) \in Int /\ (Compare(a, b) < 0 <=> Before(a, b))
<1>1. /\ a.Bytes \in Counts /\ b.Bytes \in Counts /\ a.Packets \in Counts /\ b.Packets \in Counts
      /\ a.Addr \in Nat /\ b.Addr \in Nat
  BY KeysAssumption DEF SortItem
<1>2. /\ a.Bytes \in Nat /\ b.Bytes \in Nat /\ a.Packets \in Nat /\ b.Packets \in Nat
      /\ ToInt(SubU(b.Bytes, a.Bytes)) = b.Bytes - a.Bytes
      /\ ToInt(SubU(b.Packets, a.Packets)) = b.Packets - a.Packets
  BY <1>1, DifferenceSurvives
<1> QED BY <1>1, <1>2 DEF Compare, Before

(* Before is a strict order, total on items with distinct addresses.        *)
LEMMA BeforeOrders ==
  ASSUME CountsFit, NEW a \in SortItem, NEW b \in SortItem, NEW c \in SortItem
  PROVE  /\ Before(a, b) /\ Before(b, c) => Before(a, c)
         /\ a.Addr # b.Addr => Before(a, b) \/ Before(b, a)
<1>1. \A x \in SortItem : x.Bytes \in Nat /\ x.Packets \in Nat /\ x.Addr \in Nat
  <2>1. \A x \in SortItem : x.Bytes \in Counts /\ x.Packets \in Counts /\ x.Addr \in Nat
    BY KeysAssumption DEF SortItem
  <2> QED BY <2>1, DifferenceSurvives
<1> QED BY <1>1 DEF Before

(* The items up to outer are in order, but for the one that is sinking: it  *)
(* is before all it has passed.                                             *)
Block == /\ \E n \in Nat : items \in [1 .. n -> SortItem]
         /\ \A x, y \in 1 .. Len(items) : items[x].Addr = items[y].Addr => x = y

Places == /\ outer \in 1 .. Len(items) + 1 /\ inner \in 1 .. outer
          /\ ~Sorting => inner = outer

Settled == \A x, y \in 1 .. Len(items) :
             x < y /\ y <= outer /\ x # inner /\ y # inner => Before(items[x], items[y])

Passed == \A y \in 1 .. Len(items) :
            inner < y /\ y <= outer => Before(items[inner], items[y])

SortInv == Block /\ Places /\ Settled /\ Passed

(* A swap moves the sinking item past one that belongs after it.            *)
LEMMA SwapKeepsOrder ==
  ASSUME CountsFit, SortInv, SwapDown
  PROVE  SortInv'
<1>1. PICK n \in Nat : items \in [1 .. n -> SortItem]
  BY DEF SortInv, Block
<1>2. Len(items) = n
  BY <1>1
<1>3. /\ outer \in 1 .. n + 1 /\ inner \in 1 .. outer /\ inner > 1 /\ outer <= n
      /\ outer' = outer /\ inner' = inner - 1
      /\ inner \in 1 .. n /\ inner - 1 \in 1 .. n
      /\ Compare(items[inner], items[inner - 1]) < 0
      /\ items' = [items EXCEPT ![inner] = items[inner - 1], ![inner - 1] = items[inner]]
  BY <1>2 DEF SortInv, Places, SwapDown, Sorting
<1>4. /\ items' \in [1 .. n -> SortItem]
      /\ items'[inner] = items[inner - 1] /\ items'[inner - 1] = items[inner]
      /\ \A x \in 1 .. n : x # inner /\ x # inner - 1 => items'[x] = items[x]
  BY <1>1, <1>3
<1>5. Len(items') = n
  BY <1>4
<1>6. Before(items[inner], items[inner - 1])
  BY <1>1, <1>3, CompareIsBefore
<1>7. Block'
  <2>1. \A x, y \in 1 .. n : items[x].Addr = items[y].Addr => x = y
    BY <1>2 DEF SortInv, Block
  <2>2. \A x, y \in 1 .. n : items'[x].Addr = items'[y].Addr => x = y
    BY <1>3, <1>4, <2>1
  <2> QED BY <1>4, <1>5, <2>2 DEF Block
<1>8. Places'
  BY <1>3, <1>5 DEF Places, Sorting
<1>9. Settled'
  <2>1. SUFFICES ASSUME NEW x \in 1 .. n, NEW y \in 1 .. n, x < y, y <= outer,
                        x # inner - 1, y # inner - 1
                 PROVE  Before(items'[x], items'[y])
    BY <1>3, <1>5 DEF Settled
  <2>2. CASE x = inner
    BY <1>2, <1>3, <1>4, <2>1, <2>2 DEF SortInv, Settled
  <2>3. CASE y = inner
    BY <1>2, <1>3, <1>4, <2>1, <2>3 DEF SortInv, Settled
  <2>4. CASE x # inner /\ y # inner
    BY <1>2, <1>4, <2>1, <2>4 DEF SortInv, Settled
  <2> QED BY <2>2, <2>3, <2>4
<1>10. Passed'
  <2>1. SUFFICES ASSUME NEW y \in 1 .. n, inner - 1 < y, y <= outer
                 PROVE  Before(items[inner], items'[y])
    BY <1>3, <1>4, <1>5 DEF Passed
  <2>2. CASE y = inner
    BY <1>4, <1>6, <2>2
  <2>3. CASE y # inner
    BY <1>2, <1>3, <1>4, <2>1, <2>3 DEF SortInv, Passed
  <2> QED BY <2>2, <2>3
<1> QED BY <1>7, <1>8, <1>9, <1>10 DEF SortInv

(* The item that sinks no further is after all that come before it.         *)
LEMMA PlacedKeepsOrder ==
  ASSUME CountsFit, SortInv, Placed
  PROVE  SortInv'
<1>1. PICK n \in Nat : items \in [1 .. n -> SortItem]
  BY DEF SortInv, Block
<1>2. Len(items) = n
  BY <1>1
<1>3. /\ outer \in 1 .. n /\ inner \in 1 .. outer /\ inner \in 1 .. n /\ items' = items
      /\ outer' = outer + 1 /\ inner' = outer + 1
      /\ inner > 1 => Compare(items[inner], items[inner - 1]) >= 0
  BY <1>2 DEF SortInv, Places, Placed, Sorting
<1>4. \A x \in 1 .. n : x < inner => Before(items[x], items[inner])
  <2>1. SUFFICES ASSUME NEW x \in 1 .. n, x < inner
                 PROVE  Before(items[x], items[inner])
    OBVIOUS
  <2>2. inner - 1 \in 1 .. n
    BY <1>3, <2>1
  <2>3. ~Before(items[inner], items[inner - 1])
    BY <1>1, <1>3, <2>1, <2>2, CompareIsBefore
  <2>4. items[inner].Addr # items[inner - 1].Addr
    BY <1>2, <1>3, <2>2 DEF SortInv, Block
  <2>5. Before(items[inner - 1], items[inner])
    BY <1>1, <1>3, <2>2, <2>3, <2>4, BeforeOrders
  <2>6. CASE x = inner - 1
    BY <2>5, <2>6
  <2>7. CASE x # inner - 1
    <3>1. Before(items[x], items[inner - 1])
      BY <1>2, <1>3, <2>1, <2>2, <2>7 DEF SortInv, Settled
    <3>2. items[x] \in SortItem /\ items[inner] \in SortItem /\ items[inner - 1] \in SortItem
      BY <1>1, <1>3, <2>1, <2>2
    <3> QED BY <2>5, <3>1, <3>2, BeforeOrders
  <2> QED BY <2>6, <2>7
<1>5. \A x, y \in 1 .. n : x < y /\ y <= outer => Before(items[x], items[y])
  <2>1. SUFFICES ASSUME NEW x \in 1 .. n, NEW y \in 1 .. n, x < y, y <= outer
                 PROVE  Before(items[x], items[y])
    OBVIOUS
  <2>2. CASE x = inner
    BY <1>2, <2>1, <2>2 DEF SortInv, Passed
  <2>3. CASE y = inner
    BY <1>4, <2>1, <2>3
  <2>4. CASE x # inner /\ y # inner
    BY <1>2, <2>1, <2>4 DEF SortInv, Settled
  <2> QED BY <2>2, <2>3, <2>4
<1>6. Block' /\ Places'
  BY <1>1, <1>2, <1>3 DEF SortInv, Block, Places, Sorting
<1>7. Settled' /\ Passed'
  BY <1>2, <1>3, <1>5 DEF Settled, Passed
<1> QED BY <1>6, <1>7 DEF SortInv

(* Every reachable state of the sort satisfies the invariant.               *)
LEMMA SortInvariant == ASSUME CountsFit PROVE SortSpec => []SortInv
<1>1. SortInit => SortInv
  <2> SUFFICES ASSUME SortInit PROVE SortInv
    OBVIOUS
  <2>1. PICK n \in 0 .. MaxItems :
          items \in {s \in [1 .. n -> SortItem] : \A x, y \in 1 .. n : s[x].Addr = s[y].Addr => x = y}
    BY DEF SortInit
  <2>2. n \in Nat /\ items \in [1 .. n -> SortItem] /\ Len(items) = n /\ outer = 1 /\ inner = 1
    BY <2>1, WidthAssumption DEF SortInit
  <2>3. Block
    BY <2>1, <2>2 DEF Block
  <2>4. Places
    BY <2>2 DEF Places
  <2>5. Settled /\ Passed
    BY <2>2 DEF Settled, Passed
  <2> QED BY <2>3, <2>4, <2>5 DEF SortInv
<1>2. SortInv /\ [SortNext]_sortVars => SortInv'
  <2> SUFFICES ASSUME SortInv, [SortNext]_sortVars PROVE SortInv'
    OBVIOUS
  <2>1. CASE UNCHANGED sortVars
    <3>1. items' = items /\ outer' = outer /\ inner' = inner
      BY <2>1 DEF sortVars
    <3>2. Block' /\ Places'
      BY <3>1 DEF SortInv, Block, Places, Sorting
    <3>3. Settled' /\ Passed'
      BY <3>1 DEF SortInv, Settled, Passed
    <3> QED BY <3>2, <3>3 DEF SortInv
  <2> QED BY <2>1, SwapKeepsOrder, PlacedKeepsOrder DEF SortNext
<1> QED BY <1>1, <1>2, PTL DEF SortSpec

(* When the last item is placed nothing is out of order.                    *)
LEMMA SortedInTheEnd == SortInv => OrderIsDetermined
<1> SUFFICES ASSUME SortInv, ~Sorting, NEW x \in 1 .. Len(items), NEW y \in 1 .. Len(items), x < y
             PROVE  Before(items[x], items[y])
  BY DEF OrderIsDetermined
<1>1. Len(items) \in Nat
  BY DEF SortInv, Block
<1>2. outer = Len(items) + 1 /\ inner = outer
  BY <1>1 DEF SortInv, Places, Sorting
<1> QED BY <1>1, <1>2 DEF SortInv, Settled

(* When the counts fit the platform's int, the order of a block is that of  *)
(* bytes, packets, address, in whatever order the map was walked.  Without  *)
(* CountsFit it is not: on 32 bits TLC finds a block out of order.          *)
THEOREM SortOrderIsDetermined == ASSUME CountsFit PROVE SortSpec => []OrderIsDetermined
  BY SortInvariant, SortedInTheEnd, PTL

(* "More bytes = sort first", as long as the counts fit the platform's int. *)
THEOREM SortMoreBytesFirst == ASSUME CountsFit PROVE SortSpec => []MoreBytesFirst
<1>1. SortInv => MoreBytesFirst
  <2> SUFFICES ASSUME SortInv, ~Sorting, NEW x \in 1 .. Len(items), NEW y \in 1 .. Len(items), x < y
               PROVE  items[x].Bytes >= items[y].Bytes
    BY DEF MoreBytesFirst
  <2>1. Before(items[x], items[y])
    BY SortedInTheEnd DEF OrderIsDetermined
  <2>2. items[x] \in SortItem /\ items[y] \in SortItem
    BY DEF SortInv, Block
  <2>3. items[x].Bytes \in Nat /\ items[y].Bytes \in Nat
    BY <2>2, DifferenceSurvives DEF SortItem
  <2> QED BY <2>1, <2>3 DEF Before
<1> QED BY <1>1, SortInvariant, PTL
=============================================================================
