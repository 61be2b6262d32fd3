-------------------------------- MODULE Names -------------------------------
(***************************************************************************)
(* docker-autogenerated-names: the names generator, and the program that   *)
(* marks the containers whose names look like its names.  The Docker       *)
(* daemon, which is external, asks the generator and retries as long as    *)
(* the name is taken; users name, rename, link and remove containers.      *)
(* A name is a sequence of tokens: runs of letters, single digits, and     *)
(* single other characters.                                                *)
(***************************************************************************)
EXTENDS Naturals, Sequences

CONSTANTS LeftWords, RightWords,    \* the tables' words, other than those GetRandomName knows
          OtherWords,               \* words in no table
          Digits,                   \* digits, for 0 .. 9
          Containers, UserNames,    \* containers, and the names users give
          Id,                       \* per container, the name made of its id
          MaxTries                  \* how often the daemon asks for a name

left == LeftWords \cup {"boring"}
right == RightWords \cup {"wozniak"}
WordTokens == left \cup right \cup OtherWords \cup Digits \cup {"_"}
Marks == {"-", ".", "/"}

ASSUME TablesAssumption ==
  /\ left \cap right = {} /\ (left \cup right) \cap (OtherWords \cup Digits \cup {"_"}) = {}
  /\ WordTokens \cap Marks = {}
ASSUME NamesAssumption ==
  /\ UserNames \subseteq Seq(WordTokens \cup {"-", "."})
  /\ Id \in [Containers -> Seq(OtherWords \cup Digits)] /\ MaxTries \in Nat \ {0}

VARIABLES pc,       \* per container: absent, being named, or there
          own,      \* its own name
          maker,    \* history: who made its name, and at which try
          links,    \* the links: who calls whom what
          table     \* the rows being printed; empty when no listing has just been made

vars == <<pc, own, maker, links, table>>

TwoWords == {<<p[1], "_", p[2]>> : p \in left \X right}
BoringWozniak == <<"boring", "_", "wozniak">>

\* Faulty variant: the first try has a digit already.
GetRandomName_AlwaysDigit(retry) ==
  LET names == TwoWords \ {BoringWozniak}
  IN IF retry >= 0 THEN {Append(p[1], p[2]) : p \in names \X Digits} ELSE names

\* What GetRandomName can return.
GetRandomName(retry) ==
  LET names == TwoWords \ {BoringWozniak}
  IN IF retry > 0 THEN {Append(p[1], p[2]) : p \in names \X Digits} ELSE names

\* \b between the i-th token and the next; outside the text there are no word characters.
Boundary(s, i) ==
  LET word(k) == k \in 1 .. Len(s) /\ s[k] \in WordTokens
  IN ~(word(i) <=> word(i + 1))

TwoWordsAt(s, i) ==
  i + 2 <= Len(s) /\ s[i] \in left /\ s[i + 1] = "_" /\ s[i + 2] \in right

\* Faulty variant: the pattern does not begin with \b.
isAutoName_NoBoundary(s) == \E i \in 1 .. Len(s) : TwoWordsAt(s, i) /\ Boundary(s, i + 2)

\* re.FindString(s) finds \b(left)_(right)\b somewhere in s.
isAutoName(s) ==
  \E i \in 1 .. Len(s) : TwoWordsAt(s, i) /\ Boundary(s, i - 1) /\ Boundary(s, i + 2)

NoName == <<>>
Nobody == [by |-> "nobody", retry |-> 0]
There == {c \in Containers : pc[c] = "there"}

Init ==
  /\ pc = [c \in Containers |-> "absent"] /\ own = [c \in Containers |-> NoName]
  /\ maker = [c \in Containers |-> Nobody] /\ links = {} /\ table = {}

Taken(n) == \E c \in There : own[c] = n
Named(c, n, by) ==
  /\ pc' = [pc EXCEPT ![c] = "there"] /\ own' = [own EXCEPT ![c] = n]
  /\ maker' = [maker EXCEPT ![c] = [by |-> by, retry |-> maker[c].retry]]
  /\ table' = {} /\ UNCHANGED links

\* docker create --name
CreateNamed(c, n) == pc[c] = "absent" /\ ~Taken(n) /\ Named(c, n, "user")

\* docker create: the daemon will look for a name.
Create(c) ==
  /\ pc[c] = "absent" /\ pc' = [pc EXCEPT ![c] = "naming"]
  /\ table' = {} /\ UNCHANGED <<own, maker, links>>

Naming(c) == pc[c] = "naming" /\ maker[c].retry < MaxTries

TakeName(c) ==
  /\ Naming(c)
  /\ \E n \in GetRandomName(maker[c].retry) : ~Taken(n) /\ Named(c, n, "generator")

NextTry(c) ==
  /\ Naming(c) /\ \E n \in GetRandomName(maker[c].retry) : Taken(n)
  /\ maker' = [maker EXCEPT ![c] = [by |-> "nobody", retry |-> maker[c].retry + 1]]
  /\ table' = {} /\ UNCHANGED <<pc, own, links>>

TakeId(c) == pc[c] = "naming" /\ maker[c].retry = MaxTries /\ Named(c, Id[c], "id")

Rename(c, n) == c \in There /\ ~Taken(n) /\ Named(c, n, "user")

\* p calls c by an alias of its own: c is also named <p's name>/<alias>.
Link(p, c, alias) ==
  /\ {p, c} \subseteq There /\ p # c
  /\ links' = links \cup {[parent |-> p, child |-> c, alias |-> alias]}
  /\ table' = {} /\ UNCHANGED <<pc, own, maker>>

Remove(c) ==
  /\ c \in There /\ pc' = [pc EXCEPT ![c] = "absent"]
  /\ own' = [own EXCEPT ![c] = NoName] /\ maker' = [maker EXCEPT ![c] = Nobody]
  /\ links' = {k \in links : c \notin {k.parent, k.child}}
  /\ table' = {}

\* A container's names as the API has them; which one comes first is not defined.
ListedNames(c) ==
  {<<"/">> \o own[c]} \cup
  {<<"/">> \o own[k.parent] \o <<"/", k.alias>> : k \in {x \in links : x.child = c}}

TrimSlash(s) == IF s # <<>> /\ s[1] = "/" THEN Tail(s) ELSE s

\* A line of the table; isOwn and maker are history.
Row(c, name) ==
  [id |-> c, name |-> name, X |-> isAutoName(name), isOwn |-> name = own[c], maker |-> maker[c]]

\* main: one request, answered with the containers of one instant; Names[0] counts.
\* An error, or a container without any name, ends the program with no table.
List ==
  /\ \E first \in [There -> UNION {ListedNames(c) : c \in There}] :
       /\ \A c \in There : first[c] \in ListedNames(c)
       /\ table' = {Row(c, TrimSlash(first[c])) : c \in There}
  /\ UNCHANGED <<pc, own, maker, links>>

Next ==
  \/ List
  \/ \E c \in Containers :
       \/ Create(c) \/ TakeName(c) \/ NextTry(c) \/ TakeId(c) \/ Remove(c)
       \/ \E n \in UserNames : CreateNamed(c, n) \/ Rename(c, n)
       \/ \E p \in Containers, alias \in OtherWords : Link(p, c, alias)

Spec == Init /\ [][Next]_vars
-----------------------------------------------------------------------------
Generated(row) == row.isOwn /\ row.maker.by = "generator"

\* From i to j there is no mark, and there is one, or an end, on either side.
WholePart(s, i, j) ==
  /\ i <= j /\ \A k \in i .. j : s[k] \notin Marks
  /\ (i = 1 \/ s[i - 1] \in Marks) /\ (j = Len(s) \/ s[j + 1] \in Marks)

\* The parts of a name between marks.
Parts(s) ==
  {SubSeq(s, p[1], p[2]) : p \in {q \in (DOMAIN s) \X (DOMAIN s) : WholePart(s, q[1], q[2])}}

\* The containers whose names can be part of what c is listed by.
Namesakes(c) == {c} \cup {k.parent : k \in {x \in links : x.child = c}}

\* Every mark has its reason in a name that is there: the container's own, or that of
\* one that links to it, has a whole part which is two words of the tables.  No alias,
\* no id and no joining of names makes a mark, and neither do two such words inside
\* longer ones.  Which names ought to be marked is not said here, see below.
MarksHaveAReason ==
  \A row \in table :
    row.X => \E c \in Namesakes(row.id) : maker[c].by # "id" /\ Parts(own[c]) \cap TwoWords # {}

\* Names of the daemon's first try are marked, whatever else has been done to the
\* container since, short of renaming it.
FirstTriesAreMarked == \A row \in table : Generated(row) /\ row.maker.retry = 0 => row.X

\* The program's README: "Find Docker containers with autogenerated names".
AutogeneratedAreMarked == \A row \in table : Generated(row) => row.X
=============================================================================
