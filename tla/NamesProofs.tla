----------------------------- MODULE NamesProofs ----------------------------
(* Theorems about Names: for any tables, names, containers and tries.      *)
EXTENDS Names, TLAPS, SequenceTheorems

\* What the daemon knows of a container that is there: a name of the generator is one
\* of the try it was made at.
NamedByTry ==
  \A c \in Containers :
    pc[c] = "there" /\ maker[c].by = "generator" => own[c] \in GetRandomName(maker[c].retry)

Types ==
  /\ pc \in [Containers -> {"absent", "naming", "there"}]
  /\ DOMAIN own = Containers
  /\ maker \in [Containers -> [by : {"nobody", "user", "generator", "id"}, retry : Nat]]

IInv == Types /\ NamedByTry /\ FirstTriesAreMarked

\* The pattern matches two words that stand alone.
LEMMA TwoWordsMatch ==
  ASSUME NEW s \in TwoWords
  PROVE  isAutoName(s)
<1>1. PICK p \in left \X right : s = <<p[1], "_", p[2]>>
  BY DEF TwoWords
<1>2. Len(s) = 3 /\ s[1] \in left /\ s[2] = "_" /\ s[3] \in right
  BY <1>1
<1>3. /\ 1 + 1 = 2 /\ 1 + 2 = 3 /\ 3 <= 3 /\ 1 - 1 = 0 /\ 0 + 1 = 1 /\ 3 + 1 = 4
      /\ 0 \notin 1 .. 3 /\ 1 \in 1 .. 3 /\ 3 \in 1 .. 3 /\ 4 \notin 1 .. 3
  OBVIOUS
<1>4. TwoWordsAt(s, 1)
  BY <1>2, <1>3, Zenon DEF TwoWordsAt
<1>5. s[1] \in WordTokens /\ s[3] \in WordTokens
  BY <1>2 DEF WordTokens
<1>6. Boundary(s, 1 - 1)
  BY <1>2, <1>3, <1>5, Zenon DEF Boundary
<1>7. Boundary(s, 1 + 2)
  BY <1>2, <1>3, <1>5, Zenon DEF Boundary
<1> QED
  BY <1>2, <1>3, <1>4, <1>6, <1>7, Zenon DEF isAutoName

\* A first try returns two words of the tables.
LEMMA FirstTryIsTwoWords == GetRandomName(0) \subseteq TwoWords
  BY DEF GetRandomName

\* Naming a container keeps the invariant if a name said to be the generator's is one.
LEMMA NamedKeeps ==
  ASSUME IInv, NEW c \in Containers, NEW n, NEW by \in {"user", "generator", "id"},
         by = "generator" => n \in GetRandomName(maker[c].retry), Named(c, n, by)
  PROVE  IInv'
<1> USE DEF IInv, Named
<1>1. Types'
  BY DEF Types
<1>2. NamedByTry'
  <2> SUFFICES ASSUME NEW d \in Containers, pc'[d] = "there", maker'[d].by = "generator"
               PROVE  own'[d] \in GetRandomName(maker'[d].retry)
    BY DEF NamedByTry
  <2>1. CASE d = c
    BY <2>1 DEF Types
  <2>2. CASE d # c
    BY <2>2 DEF Types, NamedByTry
  <2> QED
    BY <2>1, <2>2
<1>3. FirstTriesAreMarked'
  BY DEF FirstTriesAreMarked
<1> QED
  BY <1>1, <1>2, <1>3

\* A listing of named containers keeps it.
LEMMA ListKeeps == IInv /\ List => IInv'
<1> SUFFICES ASSUME IInv, List
             PROVE  IInv'
  OBVIOUS
<1>1. Types' /\ NamedByTry'
  BY DEF IInv, Types, NamedByTry, List
<1>2. FirstTriesAreMarked'
  <2> SUFFICES ASSUME NEW row \in table', Generated(row), row.maker.retry = 0
               PROVE  row.X
    BY DEF FirstTriesAreMarked, Generated
  <2>0. PICK first \in [There -> UNION {ListedNames(c) : c \in There}] :
          table' = {Row(c, TrimSlash(first[c])) : c \in There}
    BY DEF List
  <2>1. PICK c \in There : row = Row(c, TrimSlash(first[c]))
    BY <2>0
  <2>2. /\ TrimSlash(first[c]) = own[c] /\ maker[c].by = "generator" /\ maker[c].retry = 0
        /\ row.X = isAutoName(own[c])
    BY <2>1 DEF Generated, Row
  <2>3. own[c] \in TwoWords
    BY <2>2, FirstTryIsTwoWords DEF IInv, NamedByTry, There
  <2> QED
    BY <2>2, <2>3, TwoWordsMatch
<1> QED
  BY <1>1, <1>2 DEF IInv

\* Types, and who made a container's name, are inductive together with the property.
LEMMA NamesInductive == IInv /\ [Next]_vars => IInv'
<1> SUFFICES ASSUME IInv, [Next]_vars
             PROVE  IInv'
  OBVIOUS
<1>1. CASE List
  BY <1>1, ListKeeps
<1>2. ASSUME NEW c \in Containers, Create(c)
      PROVE  IInv'
  BY <1>2 DEF IInv, Types, NamedByTry, FirstTriesAreMarked, Create
<1>3. ASSUME NEW c \in Containers, TakeName(c)
      PROVE  IInv'
  BY <1>3, NamedKeeps DEF TakeName
<1>4. ASSUME NEW c \in Containers, NextTry(c)
      PROVE  IInv'
  <2>1. Types'
    BY <1>4 DEF IInv, Types, NextTry
  <2>2. NamedByTry'
    BY <1>4 DEF IInv, Types, NamedByTry, NextTry, Naming
  <2> QED
    BY <1>4, <2>1, <2>2 DEF IInv, FirstTriesAreMarked, NextTry
<1>5. ASSUME NEW c \in Containers, TakeId(c)
      PROVE  IInv'
  BY <1>5, NamedKeeps DEF TakeId
<1>6. ASSUME NEW c \in Containers, Remove(c)
      PROVE  IInv'
  <2>1. Types'
    BY <1>6 DEF IInv, Types, Remove, Nobody
  <2>2. NamedByTry'
    BY <1>6 DEF IInv, Types, NamedByTry, Remove
  <2> QED
    BY <1>6, <2>1, <2>2 DEF IInv, FirstTriesAreMarked, Remove
<1>7. ASSUME NEW c \in Containers, NEW n \in UserNames, CreateNamed(c, n)
      PROVE  IInv'
  BY <1>7, NamedKeeps DEF CreateNamed
<1>8. ASSUME NEW c \in Containers, NEW n \in UserNames, Rename(c, n)
      PROVE  IInv'
  BY <1>8, NamedKeeps DEF Rename
<1>9. ASSUME NEW c \in Containers, NEW p \in Containers, NEW alias \in OtherWords,
             Link(p, c, alias)
      PROVE  IInv'
  BY <1>9 DEF IInv, Types, NamedByTry, FirstTriesAreMarked, Link
<1>10. CASE UNCHANGED vars
  BY <1>10 DEF IInv, Types, NamedByTry, FirstTriesAreMarked, vars
<1> QED
  BY <1>1, <1>2, <1>3, <1>4, <1>5, <1>6, <1>7, <1>8, <1>9, <1>10 DEF Next

\* Every reachable state satisfies the invariant.
LEMMA NamesInvariant == Spec => []IInv
<1>1. Init => IInv
  BY DEF Init, IInv, Types, NamedByTry, FirstTriesAreMarked, Nobody
<1> QED
  BY <1>1, NamesInductive, PTL DEF Spec

\* A container that got its name at the daemon's first try, and is listed by it, is
\* marked: isAutoName finds what GetRandomName(0) returns.
THEOREM NamesFirstTriesAreMarked == Spec => []FirstTriesAreMarked
<1>1. IInv => FirstTriesAreMarked
  BY DEF IInv
<1> QED
  BY <1>1, NamesInvariant, PTL
-----------------------------------------------------------------------------
\* The pattern's \b and the marks between the parts of a name mean the same for two
\* words of the tables.
Token == WordTokens \cup Marks

\* TwoWords holds a word of each table, with an underscore between them.
LEMMA TwoWordsAre ==
  /\ \A a \in left, b \in right : <<a, "_", b>> \in TwoWords
  /\ \A t \in TwoWords : \E a \in left, b \in right : t = <<a, "_", b>>
  /\ \A t \in TwoWords : /\ t \in Seq(Token) /\ Len(t) = 3
                          /\ t[1] \in left /\ t[2] = "_" /\ t[3] \in right
<1>1. ASSUME NEW a \in left, NEW b \in right PROVE <<a, "_", b>> \in TwoWords
  <2>1. PICK p \in left \X right : p[1] = a /\ p[2] = b
    <3>1. <<a, b>> \in left \X right
      OBVIOUS
    <3> QED BY <3>1
  <2> QED BY <2>1, Zenon DEF TwoWords
<1>2. ASSUME NEW t \in TwoWords PROVE \E a \in left, b \in right : t = <<a, "_", b>>
  <2>1. PICK p \in left \X right : t = <<p[1], "_", p[2]>>
    BY Zenon DEF TwoWords
  <2>2. p[1] \in left /\ p[2] \in right
    OBVIOUS
  <2> QED BY <2>1, <2>2, Zenon
<1>3. ASSUME NEW a \in left, NEW b \in right, NEW t, t = <<a, "_", b>>
      PROVE  /\ t \in Seq(Token) /\ Len(t) = 3
             /\ t[1] \in left /\ t[2] = "_" /\ t[3] \in right
  <2>1. a \in Token /\ b \in Token /\ "_" \in Token
    BY DEF Token, WordTokens
  <2>2. \A x, y, z \in Token : <<x, y, z>> \in Seq(Token)
    OBVIOUS
  <2>3. t \in Seq(Token)
    BY <1>3, <2>1, <2>2, Zenon
  <2>4. Len(t) = 3 /\ t[1] = a /\ t[2] = "_" /\ t[3] = b
    BY <1>3
  <2> QED BY <2>3, <2>4
<1> QED BY <1>1, <1>2, <1>3

\* Two words are bounded as \b asks exactly when they are a whole part of the name:
\* what is next to them is a mark or the end, never another word.
LEMMA TwoWordsStandAlone ==
  ASSUME NEW s \in Seq(Token), NEW i \in 1 .. Len(s), TwoWordsAt(s, i)
  PROVE  Boundary(s, i - 1) /\ Boundary(s, i + 2) <=> WholePart(s, i, i + 2)
<1>1. /\ Len(s) \in Nat /\ i + 2 <= Len(s) /\ \A k \in 1 .. Len(s) : s[k] \in Token
      /\ {i, i + 1, i + 2} \subseteq 1 .. Len(s)
  <2>1. Len(s) \in Nat /\ \A k \in 1 .. Len(s) : s[k] \in Token
    BY LenProperties, ElementOfSeq
  <2>2. i + 2 <= Len(s)
    BY Zenon DEF TwoWordsAt
  <2> QED BY <2>1, <2>2
<1>2. s[i] \in WordTokens /\ s[i + 1] \in WordTokens /\ s[i + 2] \in WordTokens
  BY DEF TwoWordsAt, WordTokens
<1>3. \A k \in 1 .. Len(s) : s[k] \in Marks <=> s[k] \notin WordTokens
  BY <1>1, TablesAssumption DEF Token
<1>4. \A k \in i .. i + 2 : s[k] \notin Marks
  <2>1. \A k \in i .. i + 2 : k \in {i, i + 1, i + 2}
    OBVIOUS
  <2> QED BY <1>1, <1>2, <1>3, <2>1
<1>5. Boundary(s, i - 1) <=> (i = 1 \/ s[i - 1] \in Marks)
  <2>1. i - 1 + 1 = i /\ (i - 1 \in 1 .. Len(s) <=> i # 1)
    BY <1>1
  <2> QED BY <1>1, <1>2, <1>3, <2>1 DEF Boundary
<1>6. Boundary(s, i + 2) <=> (i + 2 = Len(s) \/ s[i + 2 + 1] \in Marks)
  <2>1. i + 2 + 1 \in 1 .. Len(s) <=> i + 2 # Len(s)
    BY <1>1
  <2> QED BY <1>1, <1>2, <1>3, <2>1 DEF Boundary
<1> QED BY <1>1, <1>4, <1>5, <1>6 DEF WholePart

\* A stretch of a name that is two words of the tables.
LEMMA StretchIsTwoWords ==
  ASSUME NEW s \in Seq(Token), NEW i \in 1 .. Len(s), NEW j \in 1 .. Len(s), i <= j
  PROVE  SubSeq(s, i, j) \in TwoWords <=> j = i + 2 /\ TwoWordsAt(s, i)
<1> DEFINE t == SubSeq(s, i, j)
<1>1. Len(s) \in Nat /\ i \in Nat /\ j \in Nat /\ \A k \in i .. j : s[k] \in Token
  BY ElementOfSeq
<1>2. /\ t \in Seq(Token) /\ Len(t) = j - i + 1
      /\ \A k \in 1 .. j - i + 1 : t[k] = s[i + k - 1]
  BY <1>1, SubSeqProperties
<1> HIDE DEF t
<1>3. ASSUME j = i + 2 PROVE t[1] = s[i] /\ t[2] = s[i + 1] /\ t[3] = s[i + 2]
  <2>1. j - i + 1 = 3
    BY <1>1, <1>3
  <2>2. \A k \in 1 .. 3 : t[k] = s[i + k - 1]
    BY <1>2, <2>1
  <2>3. t[1] = s[i + 1 - 1] /\ t[2] = s[i + 2 - 1] /\ t[3] = s[i + 3 - 1]
    BY <2>2
  <2>4. i + 1 - 1 = i /\ i + 2 - 1 = i + 1 /\ i + 3 - 1 = i + 2
    BY <1>1
  <2> QED BY <2>3, <2>4
<1>4. ASSUME t \in TwoWords PROVE j = i + 2 /\ TwoWordsAt(s, i)
  <2>1. Len(t) = 3 /\ t[1] \in left /\ t[2] = "_" /\ t[3] \in right
    BY <1>4, TwoWordsAre
  <2>2. j = i + 2 /\ i + 2 <= Len(s)
    <3>1. j - i + 1 = 3
      BY <1>2, <2>1, Zenon
    <3>2. j <= Len(s)
      BY <1>1
    <3> QED BY <1>1, <3>1, <3>2
  <2> QED BY <1>3, <2>1, <2>2, Zenon DEF TwoWordsAt
<1>5. ASSUME j = i + 2, TwoWordsAt(s, i) PROVE t \in TwoWords
  <2>1. s[i] \in left /\ s[i + 1] = "_" /\ s[i + 2] \in right
    BY <1>5, Zenon DEF TwoWordsAt
  <2>2. PICK u \in TwoWords : u = <<s[i], "_", s[i + 2]>>
    BY <2>1, TwoWordsAre
  <2>3. u[1] = s[i] /\ u[2] = "_" /\ u[3] = s[i + 2]
    BY <2>2
  <2>4. u \in Seq(Token) /\ Len(u) = 3
    BY TwoWordsAre
  <2>5. Len(t) = 3
    BY <1>1, <1>2, <1>5
  <2>6. \A k \in 1 .. 3 : t[k] = u[k]
    <3>1. \A k \in 1 .. 3 : k = 1 \/ k = 2 \/ k = 3
      OBVIOUS
    <3>2. t[1] = u[1] /\ t[2] = u[2] /\ t[3] = u[3]
      BY <1>3, <1>5, <2>1, <2>3
    <3> QED BY <3>1, <3>2
  <2> QED BY <1>2, <2>4, <2>5, <2>6, SeqEqual
<1> QED BY <1>4, <1>5, Zenon DEF t

\* isAutoName finds exactly the names one of whose parts is two words of the tables.
LEMMA MatchIsWholePart ==
  ASSUME NEW s \in Seq(Token)
  PROVE  isAutoName(s) <=> Parts(s) \cap TwoWords # {}
<1>1. Len(s) \in Nat /\ DOMAIN s = 1 .. Len(s)
  BY LenProperties
<1>2. ASSUME isAutoName(s) PROVE Parts(s) \cap TwoWords # {}
  <2>1. PICK i \in 1 .. Len(s) : TwoWordsAt(s, i) /\ Boundary(s, i - 1) /\ Boundary(s, i + 2)
    BY <1>2 DEF isAutoName
  <2>2. WholePart(s, i, i + 2) /\ i + 2 \in 1 .. Len(s) /\ i <= i + 2
    <3>1. i + 2 <= Len(s)
      BY <2>1, Zenon DEF TwoWordsAt
    <3>2. WholePart(s, i, i + 2)
      BY <2>1, TwoWordsStandAlone
    <3> QED BY <1>1, <3>1, <3>2
  <2>3. SubSeq(s, i, i + 2) \in TwoWords
    BY <2>1, <2>2, StretchIsTwoWords
  <2>4. <<i, i + 2>> \in (DOMAIN s) \X (DOMAIN s)
    BY <1>1, <2>2
  <2>5. SubSeq(s, i, i + 2) \in Parts(s)
    <3>1. PICK q \in (DOMAIN s) \X (DOMAIN s) : q = <<i, i + 2>>
      BY <2>4
    <3>2. q[1] = i /\ q[2] = i + 2
      BY <3>1
    <3> QED BY <2>2, <3>2 DEF Parts
  <2> QED BY <2>3, <2>5
<1>3. ASSUME NEW t \in Parts(s), t \in TwoWords PROVE isAutoName(s)
  <2>1. PICK q \in (DOMAIN s) \X (DOMAIN s) : WholePart(s, q[1], q[2]) /\ t = SubSeq(s, q[1], q[2])
    BY <1>3 DEF Parts
  <2>2. PICK i \in 1 .. Len(s) : i = q[1]
    BY <1>1, <2>1
  <2>3. PICK j \in 1 .. Len(s) : j = q[2]
    BY <1>1, <2>1
  <2>4. WholePart(s, i, j) /\ t = SubSeq(s, i, j) /\ i <= j
    BY <2>1, <2>2, <2>3 DEF WholePart
  <2>5. j = i + 2 /\ TwoWordsAt(s, i)
    BY <1>3, <2>4, StretchIsTwoWords
  <2> QED BY <2>4, <2>5, TwoWordsStandAlone DEF isAutoName
<1> QED BY <1>2, <1>3

\* Whatever the daemon lists is made of tokens.
Spelled ==
  /\ own \in [Containers -> Seq(Token)]
  /\ \A k \in links : k.parent \in Containers /\ k.alias \in OtherWords

\* The names that containers are given.
LEMMA GivenNames ==
  /\ NoName \in Seq(Token) /\ UserNames \subseteq Seq(Token)
  /\ \A c \in Containers : Id[c] \in Seq(Token)
  /\ \A retry \in Nat : GetRandomName(retry) \subseteq Seq(Token)
<1>1. NoName \in Seq(Token)
  BY EmptySeq DEF NoName
<1>2. UserNames \subseteq Seq(Token)
  <2>1. WordTokens \cup {"-", "."} \subseteq Token
    BY DEF Token, Marks
  <2> QED BY <2>1, NamesAssumption, SeqMonotonic
<1>3. \A c \in Containers : Id[c] \in Seq(Token)
  <2>1. OtherWords \cup Digits \subseteq Token
    BY DEF Token, WordTokens
  <2>2. \A c \in Containers : Id[c] \in Seq(OtherWords \cup Digits)
    BY NamesAssumption
  <2> QED BY <2>1, <2>2, SeqMonotonic
<1>4. TwoWords \subseteq Seq(Token)
  BY TwoWordsAre
<1>5. \A n \in Seq(Token), d \in Digits : Append(n, d) \in Seq(Token)
  <2>1. Digits \subseteq Token
    BY DEF Token, WordTokens
  <2> QED BY <2>1
<1>6. ASSUME NEW retry \in Nat PROVE GetRandomName(retry) \subseteq Seq(Token)
  <2>1. ASSUME NEW x \in GetRandomName(retry) PROVE x \in Seq(Token)
    <3>1. x \in TwoWords \/ \E n \in TwoWords, d \in Digits : x = Append(n, d)
      <4>1. CASE retry > 0
        <5>1. x \in {Append(p[1], p[2]) : p \in (TwoWords \ {BoringWozniak}) \X Digits}
          BY <2>1, <4>1, Zenon DEF GetRandomName
        <5> QED BY <5>1
      <4>2. CASE ~(retry > 0)
        <5>1. x \in TwoWords \ {BoringWozniak}
          BY <2>1, <4>2, Zenon DEF GetRandomName
        <5> QED BY <5>1
      <4> QED BY <4>1, <4>2
    <3> QED BY <1>4, <1>5, <3>1
  <2> QED BY <2>1
<1> QED BY <1>1, <1>2, <1>3, <1>6

\* Names stay so, however containers are named, linked and removed.
LEMMA SpelledStep == IInv /\ Spelled /\ [Next]_vars => Spelled'
<1> SUFFICES ASSUME IInv, Spelled, [Next]_vars PROVE Spelled'
  OBVIOUS
<1>1. ASSUME NEW c \in Containers, NEW n \in Seq(Token), NEW by, Named(c, n, by) PROVE Spelled'
  BY <1>1 DEF Spelled, Named
<1>2. CASE List \/ UNCHANGED vars
  BY <1>2 DEF Spelled, List, vars
<1>3. ASSUME NEW c \in Containers, Create(c) \/ NextTry(c) PROVE Spelled'
  BY <1>3 DEF Spelled, Create, NextTry
<1>4. ASSUME NEW c \in Containers, TakeName(c) PROVE Spelled'
  <2>1. maker[c].retry \in Nat
    BY DEF IInv, Types
  <2> QED BY <1>1, <1>4, <2>1, GivenNames DEF TakeName
<1>5. ASSUME NEW c \in Containers, TakeId(c) PROVE Spelled'
  BY <1>1, <1>5, GivenNames DEF TakeId
<1>6. ASSUME NEW c \in Containers, Remove(c) PROVE Spelled'
  BY <1>6, GivenNames DEF Spelled, Remove
<1>7. ASSUME NEW c \in Containers, NEW n \in UserNames, CreateNamed(c, n) \/ Rename(c, n)
      PROVE  Spelled'
  BY <1>1, <1>7, GivenNames DEF CreateNamed, Rename
<1>8. ASSUME NEW c \in Containers, NEW p \in Containers, NEW alias \in OtherWords,
             Link(p, c, alias)
      PROVE  Spelled'
  BY <1>8 DEF Spelled, Link
<1> QED BY <1>2, <1>3, <1>4, <1>5, <1>6, <1>7, <1>8 DEF Next

\* A name made of an id has no part that is two words of the tables.
LEMMA IdsAreUnmarked ==
  ASSUME NEW s \in Seq(OtherWords \cup Digits)
  PROVE  ~isAutoName(s)
<1>1. Len(s) \in Nat /\ \A k \in 1 .. Len(s) : s[k] \in OtherWords \cup Digits
  BY LenProperties, ElementOfSeq
<1>2. ASSUME NEW i \in 1 .. Len(s), TwoWordsAt(s, i) PROVE FALSE
  <2>1. s[i] \in left
    BY <1>2, Zenon DEF TwoWordsAt
  <2>2. s[i] \in OtherWords \cup Digits
    BY <1>1
  <2> QED BY <2>1, <2>2, TablesAssumption
<1> QED BY <1>2 DEF isAutoName

\* A link's alias adds no match to the name it is appended to.
LEMMA AliasAddsNothing ==
  ASSUME NEW s \in Seq(Token), NEW alias \in OtherWords, isAutoName(s \o <<"/", alias>>)
  PROVE  isAutoName(s)
<1> DEFINE t == s \o <<"/", alias>>
<1>1. "/" \in Marks /\ alias \in WordTokens /\ <<"/", alias>> \in Seq(Token)
  <2>1. "/" \in Marks /\ alias \in WordTokens
    BY DEF Marks, WordTokens
  <2>2. \A x \in Token, y \in Token : <<x, y>> \in Seq(Token)
    OBVIOUS
  <2> QED BY <2>1, <2>2 DEF Token
<1>2. /\ Len(s) \in Nat /\ Len(t) = Len(s) + 2
      /\ \A k \in 1 .. Len(s) : t[k] = s[k]
      /\ t[Len(s) + 1] = "/" /\ t[Len(s) + 2] = alias
  <2>1. Len(<<"/", alias>>) = 2 /\ <<"/", alias>>[1] = "/" /\ <<"/", alias>>[2] = alias
    OBVIOUS
  <2> QED BY <1>1, <2>1, ConcatProperties, LenProperties
<1> HIDE DEF t
<1>3. PICK i \in 1 .. Len(t) : TwoWordsAt(t, i) /\ Boundary(t, i - 1) /\ Boundary(t, i + 2)
  BY DEF isAutoName, t
<1>4. i + 2 <= Len(t) /\ t[i] \in left /\ t[i + 1] = "_" /\ t[i + 2] \in right
  BY <1>3, Zenon DEF TwoWordsAt
<1>5. i + 2 <= Len(s)
  <2>1. "/" \notin right /\ alias \notin right
    BY <1>1, TablesAssumption DEF WordTokens
  <2>2. i + 2 # Len(s) + 1 /\ i + 2 # Len(s) + 2
    BY <1>2, <1>4, <2>1
  <2>3. PICK m \in Nat, n \in Nat : m = Len(s) /\ n = Len(t)
    BY <1>2
  <2>4. n = m + 2 /\ i + 2 <= n /\ i + 2 # m + 1 /\ i + 2 # m + 2
    BY <1>2, <1>4, <2>2, <2>3, Zenon
  <2>5. i \in 1 .. n
    BY <2>3, Zenon
  <2>6. i + 2 <= m
    BY <2>4, <2>5
  <2> QED BY <2>3, <2>6, Zenon
<1>6. t[i] = s[i] /\ t[i + 1] = s[i + 1] /\ t[i + 2] = s[i + 2]
  BY <1>2, <1>5
<1>7. TwoWordsAt(s, i)
  BY <1>4, <1>5, <1>6, Zenon DEF TwoWordsAt
<1>8. Boundary(s, i - 1)
  <2>1. i - 1 \in 1 .. Len(s) <=> i - 1 \in 1 .. Len(t)
    BY <1>2, <1>5
  <2>2. i - 1 \in 1 .. Len(s) => t[i - 1] = s[i - 1]
    BY <1>2
  <2>3. i - 1 + 1 = i /\ i \in 1 .. Len(s) /\ i \in 1 .. Len(t)
    BY <1>2, <1>5
  <2> QED BY <1>3, <1>6, <2>1, <2>2, <2>3 DEF Boundary
<1>9. Boundary(s, i + 2)
  <2>1. s[i + 2] \in WordTokens /\ i + 2 \in 1 .. Len(s) /\ i + 2 \in 1 .. Len(t)
    <3>1. s[i + 2] \in WordTokens
      BY <1>4, <1>6 DEF WordTokens
    <3>2. i + 2 \in 1 .. Len(s) /\ i + 2 \in 1 .. Len(t)
      BY <1>2, <1>5
    <3> QED BY <3>1, <3>2
  <2>2. i + 2 + 1 \in 1 .. Len(t) /\ t[i + 2 + 1] \notin WordTokens
    BY <1>2, <1>3, <1>5, <1>6, <2>1 DEF Boundary
  <2>3. i + 2 + 1 \in 1 .. Len(s) => s[i + 2 + 1] \notin WordTokens
    BY <1>2, <2>2
  <2> QED BY <2>1, <2>3 DEF Boundary
<1> QED BY <1>5, <1>7, <1>8, <1>9, <1>2 DEF isAutoName

\* A name is listed without its slash.
LEMMA TrimmedName == ASSUME NEW s \in Seq(Token) PROVE TrimSlash(<<"/">> \o s) = s
<1>1. "/" \in Token
  BY DEF Token, Marks
<1>2. /\ <<"/">> \o s # <<>> /\ (<<"/">> \o s)[1] = "/" /\ Tail(<<"/">> \o s) = s
  <2>1. <<"/">> \in Seq(Token) /\ Len(<<"/">>) = 1 /\ <<"/">>[1] = "/"
    BY <1>1
  <2>2. /\ <<"/">> \o s \in Seq(Token) /\ Len(<<"/">> \o s) = 1 + Len(s) /\ Len(s) \in Nat
        /\ (<<"/">> \o s)[1] = "/"
        /\ \A k \in 1 .. Len(s) : (<<"/">> \o s)[k + 1] = s[k]
    BY <2>1, ConcatProperties, LenProperties
  <2>3. <<"/">> \o s # <<>>
    BY <2>2
  <2>4. /\ Tail(<<"/">> \o s) \in Seq(Token) /\ Len(Tail(<<"/">> \o s)) = Len(s)
        /\ \A k \in 1 .. Len(s) : Tail(<<"/">> \o s)[k] = s[k]
    BY <2>2, <2>3, HeadTailProperties
  <2> QED BY <2>2, <2>3, <2>4, SeqEqual
<1> QED BY <1>2, Zenon DEF TrimSlash

\* A container whose name was made of an id still has a name of that kind.
NamedById ==
  \A c \in Containers : maker[c].by = "id" => own[c] \in Seq(OtherWords \cup Digits)

LEMMA NamedByIdStep == IInv /\ NamedById /\ [Next]_vars => NamedById'
<1> SUFFICES ASSUME IInv, NamedById, [Next]_vars PROVE NamedById'
  OBVIOUS
<1> USE DEF IInv, Types
<1>1. ASSUME NEW c \in Containers, NEW n, NEW by, Named(c, n, by),
             by = "id" => n \in Seq(OtherWords \cup Digits)
      PROVE  NamedById'
  BY <1>1 DEF NamedById, Named
<1>2. CASE List \/ UNCHANGED vars
  BY <1>2 DEF NamedById, List, vars
<1>3. ASSUME NEW c \in Containers, Create(c) \/ NextTry(c) PROVE NamedById'
  BY <1>3 DEF NamedById, Create, NextTry
<1>4. ASSUME NEW c \in Containers, TakeName(c) PROVE NamedById'
  BY <1>1, <1>4 DEF TakeName
<1>5. ASSUME NEW c \in Containers, TakeId(c) PROVE NamedById'
  BY <1>1, <1>5, NamesAssumption DEF TakeId
<1>6. ASSUME NEW c \in Containers, Remove(c) PROVE NamedById'
  BY <1>6 DEF NamedById, Remove, Nobody
<1>7. ASSUME NEW c \in Containers, NEW n \in UserNames, CreateNamed(c, n) \/ Rename(c, n)
      PROVE  NamedById'
  BY <1>1, <1>7 DEF CreateNamed, Rename
<1>8. ASSUME NEW c \in Containers, NEW p \in Containers, NEW alias \in OtherWords,
             Link(p, c, alias)
      PROVE  NamedById'
  BY <1>8 DEF NamedById, Link
<1> QED BY <1>2, <1>3, <1>4, <1>5, <1>6, <1>7, <1>8 DEF Next

\* A mark on a listed name comes from one of the names it is put together from.
LEMMA MarkedByAName ==
  ASSUME Spelled, NamedById, NEW c \in Containers, NEW name \in ListedNames(c),
         isAutoName(TrimSlash(name))
  PROVE  \E d \in Namesakes(c) : maker[d].by # "id" /\ Parts(own[d]) \cap TwoWords # {}
<1>1. \E d \in Namesakes(c) : d \in Containers /\ isAutoName(own[d])
  <2>1. CASE name = <<"/">> \o own[c]
    <3>1. TrimSlash(name) = own[c]
      BY <2>1, TrimmedName DEF Spelled
    <3> QED BY <3>1 DEF Namesakes
  <2>2. ASSUME NEW k \in links, k.child = c,
               name = <<"/">> \o own[k.parent] \o <<"/", k.alias>>
        PROVE  \E d \in Namesakes(c) : d \in Containers /\ isAutoName(own[d])
    <3>1. k.parent \in Containers /\ k.alias \in OtherWords /\ own[k.parent] \in Seq(Token)
      BY DEF Spelled
    <3>2. own[k.parent] \o <<"/", k.alias>> \in Seq(Token)
          /\ name = <<"/">> \o (own[k.parent] \o <<"/", k.alias>>)
      <4>1. "/" \in Token /\ k.alias \in Token
        BY <3>1 DEF Token, Marks, WordTokens
      <4>2. \A x \in Token, y \in Token : <<x, y>> \in Seq(Token) /\ <<x>> \in Seq(Token)
        OBVIOUS
      <4>3. <<"/">> \in Seq(Token) /\ <<"/", k.alias>> \in Seq(Token)
        BY <4>1, <4>2
      <4>4. \A x, y, z \in Seq(Token) : (x \o y) \o z = x \o (y \o z) /\ y \o z \in Seq(Token)
        BY ConcatAssociative, ConcatProperties
      <4> QED BY <2>2, <3>1, <4>3, <4>4
    <3>3. isAutoName(own[k.parent])
      <4>1. TrimSlash(name) = own[k.parent] \o <<"/", k.alias>>
        BY <3>2, TrimmedName
      <4>2. isAutoName(own[k.parent] \o <<"/", k.alias>>)
        BY <4>1, Zenon
      <4> QED BY <3>1, <4>2, AliasAddsNothing
    <3> QED BY <2>2, <3>1, <3>3 DEF Namesakes
  <2> QED BY <2>1, <2>2 DEF ListedNames
<1>2. PICK d \in Namesakes(c) : d \in Containers /\ isAutoName(own[d])
  BY <1>1
<1>3. Parts(own[d]) \cap TwoWords # {}
  BY <1>2, MatchIsWholePart DEF Spelled
<1>4. maker[d].by # "id"
  BY <1>2, IdsAreUnmarked DEF NamedById
<1> QED BY <1>2, <1>3, <1>4

\* A mark never comes from an id, an alias, the joining of names or half a word, but
\* from a name of two words of the tables that a container has.
THEOREM NamesMarksHaveAReason == Spec => []MarksHaveAReason
<1>1. Init => Spelled /\ NamedById /\ MarksHaveAReason
  BY GivenNames DEF Init, Spelled, NamedById, MarksHaveAReason, Nobody
<1>2. ASSUME IInv, Spelled, NamedById, MarksHaveAReason, [Next]_vars PROVE MarksHaveAReason'
  <2>1. table' = {} \/ (table' = table /\ UNCHANGED <<own, maker, links>>) \/ List
    BY <1>2 DEF Next, Create, TakeName, NextTry, TakeId, Remove, CreateNamed, Rename, Link, Named, vars
  <2>2. CASE List
    <3>1. PICK first \in [There -> UNION {ListedNames(c) : c \in There}] :
            /\ \A c \in There : first[c] \in ListedNames(c)
            /\ table' = {Row(c, TrimSlash(first[c])) : c \in There}
      BY <2>2 DEF List
    <3>2. own' = own /\ maker' = maker /\ links' = links
      BY <2>2 DEF List
    <3>3. ASSUME NEW row \in table', row.X
          PROVE  \E d \in Namesakes(row.id) : maker[d].by # "id" /\ Parts(own[d]) \cap TwoWords # {}
      <4>1. PICK c \in There : row = Row(c, TrimSlash(first[c]))
        BY <3>1
      <4>2. isAutoName(TrimSlash(first[c])) /\ row.id = c
        BY <3>3, <4>1 DEF Row
      <4> QED BY <1>2, <3>1, <4>2, MarkedByAName DEF There
    <3> QED BY <3>2, <3>3 DEF MarksHaveAReason, Namesakes, Parts, WholePart
  <2>3. CASE table' = table /\ UNCHANGED <<own, maker, links>>
    <3>1. \A c : Namesakes(c)' = Namesakes(c)
      BY <2>3 DEF Namesakes
    <3>2. \A c : (maker[c].by)' = maker[c].by /\ Parts(own[c])' = Parts(own[c])
      BY <2>3 DEF Parts, WholePart
    <3> QED BY <1>2, <2>3, <3>1, <3>2 DEF MarksHaveAReason
  <2>4. CASE table' = {}
    BY <2>4 DEF MarksHaveAReason
  <2> QED BY <2>1, <2>2, <2>3, <2>4
<1>3. IInv /\ Spelled /\ NamedById /\ MarksHaveAReason /\ [Next]_vars
        => Spelled' /\ NamedById' /\ MarksHaveAReason'
  BY <1>2, SpelledStep, NamedByIdStep
<1> QED BY <1>1, <1>3, NamesInvariant, PTL DEF Spec
=============================================================================
