-------------------------- MODULE AscMonitorProofs --------------------------
(***************************************************************************)
(* Theorems about AscMonitor: for any hosts, batches and queues of any     *)
(* size, and any number of readings and ticks.                             *)
(***************************************************************************)
EXTENDS AscMonitor, TLAPS, SequenceTheorems, FiniteSetTheorems

(* The words of a command line, and the command line of a host.             *)
Word == {Nil, "ssh", "-o", "StrictHostKeyChecking=no", "-T", "nvidia-smi", "dmon", "-s", "pm"}
          \cup SSHHosts
OwnWords(h) == sshCommand \o <<h>> \o dmon

(* Array a begins with n words of the host's command line.                  *)
Begins(a, n, h) == \A i \in 1 .. n : heap[a][i] = OwnWords(h)[i]

(* What a host's worker has of its command line is in an array of its own.  *)
Building(h) ==
  /\ pc[h] \notin {"named", "built"} => cmdline[h] = Shared
  /\ pc[h] = "named" => /\ cmdline[h] = [array |-> <<h, 1>>, len |-> 5]
                        /\ Len(heap[<<h, 1>>]) = 8 /\ Begins(<<h, 1>>, 5, h)
  /\ pc[h] = "built" => /\ cmdline[h] = [array |-> <<h, 2>>, len |-> 9]
                        /\ Len(heap[<<h, 2>>]) = 16 /\ Begins(<<h, 2>>, 9, h)

WordsOK ==
  /\ heap \in [Arrays -> Seq(Word)] /\ cmdline \in [SSHHosts -> [array : Arrays, len : Nat]]
  /\ heap[Shared.array] = sshCommand
  /\ \A h \in SSHHosts : Building(h)

(* Where the elements of a concatenation come from.                         *)
LEMMA Joined ==
  ASSUME NEW s \in Seq(Word), NEW t \in Seq(Word)
  PROVE  /\ s \o t \in Seq(Word) /\ Len(s \o t) = Len(s) + Len(t)
         /\ \A i \in 1 .. Len(s) : (s \o t)[i] = s[i]
         /\ \A i \in 1 .. Len(t) : (s \o t)[Len(s) + i] = t[i]
<1>1. Len(s) \in Nat /\ Len(t) \in Nat
  BY LenProperties
<1> QED BY <1>1, ConcatProperties

(* The command line of a host, word by word.                                *)
LEMMA OwnWordsAre ==
  ASSUME NEW h \in SSHHosts
  PROVE  /\ sshCommand \in Seq(Word) /\ Len(sshCommand) = 4
         /\ dmon \in Seq(Word) /\ Len(dmon) = 4
         /\ <<h>> \in Seq(Word) /\ Len(<<h>>) = 1
         /\ OwnWords(h) \in Seq(Word) /\ Len(OwnWords(h)) = 9
         /\ \A i \in 1 .. 4 : OwnWords(h)[i] = sshCommand[i]
         /\ \A i \in 1 .. 1 : OwnWords(h)[4 + i] = <<h>>[i]
         /\ \A i \in 1 .. 4 : OwnWords(h)[5 + i] = dmon[i]
<1>1. sshCommand \in Seq(Word) /\ Len(sshCommand) = 4
  BY DEF sshCommand, Word
<1>2. dmon \in Seq(Word) /\ Len(dmon) = 4
  BY DEF dmon, Word
<1>3. PICK name : name = <<h>>
  OBVIOUS
<1>4. name \in Seq(Word) /\ Len(name) = 1
  BY <1>3 DEF Word
<1>5. PICK front : front = sshCommand \o name
  OBVIOUS
<1>6. /\ front \in Seq(Word) /\ Len(front) = 5
      /\ \A i \in 1 .. 4 : front[i] = sshCommand[i]
      /\ \A i \in 1 .. 1 : front[4 + i] = name[i]
  <2>1. /\ front \in Seq(Word) /\ Len(front) = Len(sshCommand) + Len(name)
        /\ \A i \in 1 .. Len(sshCommand) : front[i] = sshCommand[i]
        /\ \A i \in 1 .. Len(name) : front[Len(sshCommand) + i] = name[i]
    BY <1>1, <1>4, <1>5, Joined
  <2> QED BY <1>1, <1>4, <2>1
<1>7. PICK all : all = front \o dmon
  OBVIOUS
<1>8. /\ all \in Seq(Word) /\ Len(all) = 9
      /\ \A i \in 1 .. 5 : all[i] = front[i]
      /\ \A i \in 1 .. 4 : all[5 + i] = dmon[i]
  <2>1. /\ all \in Seq(Word) /\ Len(all) = Len(front) + Len(dmon)
        /\ \A i \in 1 .. Len(front) : all[i] = front[i]
        /\ \A i \in 1 .. Len(dmon) : all[Len(front) + i] = dmon[i]
    BY <1>2, <1>6, <1>7, Joined
  <2> QED BY <1>2, <1>6, <2>1
<1>9. OwnWords(h) = all
  BY <1>3, <1>5, <1>7, Zenon DEF OwnWords
<1>10. /\ \A i \in 1 .. 4 : all[i] = sshCommand[i]
       /\ \A i \in 1 .. 1 : all[4 + i] = name[i]
  BY <1>6, <1>8
<1> QED BY <1>1, <1>2, <1>3, <1>4, <1>8, <1>9, <1>10, Zenon

(* The new array, if the words ws do not fit behind slice s.                *)
IsAppended(s, ws, fresh, new) ==
  /\ heap' = [heap EXCEPT ![fresh] = new]
  /\ cmdline' = [cmdline EXCEPT ![fresh[1]] = [array |-> fresh, len |-> s.len + Len(ws)]]
  /\ Len(new) = IF s.len + Len(ws) > 2 * Len(heap[s.array]) THEN s.len + Len(ws)
                ELSE 2 * Len(heap[s.array])
  /\ \A i \in 1 .. s.len : new[i] = heap[s.array][i]
  /\ \A i \in 1 .. Len(ws) : new[s.len + i] = ws[i]

(* An append to an array that is full makes a new one, and begins it with   *)
(* the words of the old.                                                    *)
LEMMA Appended ==
  ASSUME heap \in [Arrays -> Seq(Word)], NEW s \in [array : Arrays, len : Nat],
         s.len <= Len(heap[s.array]), NEW ws \in Seq(Word), NEW fresh \in Arrays,
         s.len + Len(ws) > Len(heap[s.array]), AppendWords(s, ws, fresh)
  PROVE  \E new \in Seq(Word) : IsAppended(s, ws, fresh, new)
<1> DEFINE old == heap[s.array]
           need == s.len + Len(ws)
           room == IF need > 2 * Len(old) THEN need ELSE 2 * Len(old)
           cell(i) == IF i > s.len /\ i <= need THEN ws[i - s.len]
                      ELSE IF i <= Len(old) THEN old[i] ELSE Nil
           new == [i \in 1 .. room |-> cell(i)]
<1>1. old \in Seq(Word) /\ Len(old) \in Nat /\ Len(ws) \in Nat
  BY LenProperties
<1>2. room \in Nat /\ need <= room /\ s.len <= Len(old)
  BY <1>1
<1>3. /\ heap' = [heap EXCEPT ![fresh] = new]
      /\ cmdline' = [cmdline EXCEPT ![fresh[1]] = [array |-> fresh, len |-> need]]
  <2>1. ~(need <= Len(old))
    BY <1>1
  <2> QED BY <2>1, Zenon DEF AppendWords
<1>4. \A i \in 1 .. room : cell(i) \in Word
  <2>1. Nil \in Word
    BY DEF Word
  <2>2. \A i \in 1 .. Len(ws) : ws[i] \in Word
    BY ElementOfSeq
  <2>3. \A i \in 1 .. Len(old) : old[i] \in Word
    BY <1>1, ElementOfSeq
  <2> QED BY <1>1, <1>2, <2>1, <2>2, <2>3
<1>5. new \in [1 .. room -> Word]
  BY <1>4
<1>6. new \in Seq(Word) /\ Len(new) = room
  <2>1. Seq(Word) = UNION {[1 .. n -> Word] : n \in Nat}
    BY SeqDef
  <2>2. new \in Seq(Word)
    BY <1>2, <1>5, <2>1
  <2> QED BY <1>2, <2>2, LenProperties
<1>7. \A i \in 1 .. s.len : new[i] = old[i]
  BY <1>1, <1>2
<1>8. \A i \in 1 .. Len(ws) : new[s.len + i] = ws[i]
  BY <1>1, <1>2
<1> HIDE DEF new
<1> QED BY <1>3, <1>6, <1>7, <1>8, Zenon DEF IsAppended

States == {"off", "connect", "poll", "get", "start", "named", "built", "run", "send"}
PcOK == pc \in [Monitors -> States]

(* A step that builds no command line leaves them all alone.                *)
LEMMA WordsStay ==
  ASSUME WordsOK, UNCHANGED words,
         \A h \in SSHHosts : \/ pc'[h] = pc[h]
                             \/ {pc[h], pc'[h]} \cap {"named", "built"} = {}
  PROVE  WordsOK'
<1>1. ASSUME NEW h \in SSHHosts PROVE Building(h)'
  BY DEF WordsOK, Building, words, Begins, Shared
<1> QED BY <1>1 DEF WordsOK, words, Shared

(* The arrays of different hosts are different, and none is the variable's. *)
LEMMA OwnArrays ==
  /\ Shared \in [array : Arrays, len : Nat] /\ Shared.array \in Arrays /\ Shared.len = 4
  /\ \A h \in SSHHosts : /\ {<<h, 1>>, <<h, 2>>} \subseteq Arrays /\ <<h, 1>> # <<h, 2>>
                         /\ Shared.array \notin {<<h, 1>>, <<h, 2>>}
  /\ \A h \in SSHHosts, k \in SSHHosts :
       h # k => {<<h, 1>>, <<h, 2>>} \cap {<<k, 1>>, <<k, 2>>} = {}
<1>1. Len(sshCommand) = 4
  BY DEF sshCommand
<1>2. Shared = [array |-> <<Nil, 0>>, len |-> 4]
  BY <1>1, Zenon DEF Shared
<1> QED BY <1>2 DEF Arrays

(* A host's worker that builds its command line has its own name in it, and *)
(* disturbs no other's.                                                     *)
LEMMA AppendNameKeeps ==
  ASSUME WordsOK, PcOK, NEW h \in Hosts, AppendName(h)
  PROVE  WordsOK'
<1>1. h \in SSHHosts /\ pc[h] = "start" /\ pc' = [pc EXCEPT ![h] = "named"]
      /\ AppendWords(Shared, <<h>>, <<h, 1>>)
  BY DEF AppendName, Goto
<1>2. /\ heap \in [Arrays -> Seq(Word)] /\ Shared \in [array : Arrays, len : Nat]
      /\ heap[Shared.array] = sshCommand /\ Shared.len = 4
      /\ Len(sshCommand) = 4 /\ <<h>> \in Seq(Word) /\ Len(<<h>>) = 1 /\ <<h, 1>> \in Arrays
  BY <1>1, OwnArrays, OwnWordsAre DEF WordsOK
<1>3. PICK new \in Seq(Word) : IsAppended(Shared, <<h>>, <<h, 1>>, new)
  <2>1. ASSUME NEW ws \in Seq(Word), NEW fresh \in Arrays, ws = <<h>>, fresh = <<h, 1>>
        PROVE  \E new \in Seq(Word) : IsAppended(Shared, ws, fresh, new)
    <3>1. AppendWords(Shared, ws, fresh) /\ Len(ws) = 1
      BY <1>1, <1>2, <2>1
    <3>2. Shared.len <= Len(heap[Shared.array])
          /\ Shared.len + Len(ws) > Len(heap[Shared.array])
      BY <1>2, <3>1
    <3> QED BY <1>2, <3>1, <3>2, Appended
  <2> QED BY <1>2, <2>1, Zenon
<1>4. /\ heap' = [heap EXCEPT ![<<h, 1>>] = new] /\ Len(new) = 8
      /\ cmdline' = [cmdline EXCEPT ![h] = [array |-> <<h, 1>>, len |-> 5]]
      /\ \A i \in 1 .. 4 : new[i] = sshCommand[i]
      /\ \A i \in 1 .. 1 : new[4 + i] = <<h>>[i]
  <2>1. Shared.len + Len(<<h>>) = 5 /\ <<h, 1>>[1] = h /\ Len(heap[Shared.array]) = 4
    BY <1>2
  <2>2. ~(5 > 2 * 4) /\ 2 * 4 = 8
    OBVIOUS
  <2> QED BY <1>2, <1>3, <2>1, <2>2, Zenon DEF IsAppended
<1>5. \A i \in 1 .. 5 : new[i] = OwnWords(h)[i]
  <2>1. 1 \in 1 .. 1 /\ \A i \in 1 .. 5 : i \in 1 .. 4 \/ i = 4 + 1
    OBVIOUS
  <2>2. /\ \A i \in 1 .. 4 : OwnWords(h)[i] = sshCommand[i]
        /\ \A i \in 1 .. 1 : OwnWords(h)[4 + i] = <<h>>[i]
    BY <1>1, OwnWordsAre
  <2>3. new[4 + 1] = OwnWords(h)[4 + 1]
    BY <1>4, <2>1, <2>2, Zenon
  <2>4. \A i \in 1 .. 4 : new[i] = OwnWords(h)[i]
    BY <1>4, <2>2
  <2> QED BY <2>1, <2>3, <2>4
<1>6. heap' \in [Arrays -> Seq(Word)] /\ heap'[Shared.array] = sshCommand
      /\ heap'[<<h, 1>>] = new
  BY <1>1, <1>2, <1>4, OwnArrays
<1>7. cmdline' \in [SSHHosts -> [array : Arrays, len : Nat]]
      /\ cmdline'[h] = [array |-> <<h, 1>>, len |-> 5]
  BY <1>1, <1>2, <1>4 DEF WordsOK
<1>8. Building(h)'
  <2>1. pc'[h] = "named"
    BY <1>1 DEF PcOK, Monitors
  <2> QED BY <1>4, <1>5, <1>6, <1>7, <2>1, Zenon DEF Building, Begins, OwnWords, sshCommand, dmon
<1>9. ASSUME NEW k \in SSHHosts, k # h PROVE Building(k)'
  <2>1. /\ pc'[k] = pc[k] /\ cmdline'[k] = cmdline[k]
        /\ heap'[<<k, 1>>] = heap[<<k, 1>>] /\ heap'[<<k, 2>>] = heap[<<k, 2>>]
    BY <1>1, <1>2, <1>4, <1>9, OwnArrays DEF WordsOK, PcOK, Monitors, Hosts
  <2> QED BY <2>1, <1>9 DEF WordsOK, Building, Begins, Shared
<1> QED BY <1>6, <1>7, <1>8, <1>9, Zenon DEF WordsOK, Shared, sshCommand

(* The words of nvidia-smi go behind the host's own name, into an array of  *)
(* the host's own.                                                          *)
LEMMA AppendDmonKeeps ==
  ASSUME WordsOK, PcOK, NEW h \in Hosts, AppendDmon(h)
  PROVE  WordsOK'
<1>1. h \in SSHHosts /\ pc[h] = "named" /\ pc' = [pc EXCEPT ![h] = "built"]
      /\ AppendWords(cmdline[h], dmon, <<h, 2>>)
  BY DEF AppendDmon, Goto
<1>2. PICK s : s = cmdline[h]
  OBVIOUS
<1>3. /\ s = [array |-> <<h, 1>>, len |-> 5] /\ Len(heap[<<h, 1>>]) = 8
      /\ \A i \in 1 .. 5 : heap[<<h, 1>>][i] = OwnWords(h)[i]
  BY <1>1, <1>2 DEF WordsOK, Building, Begins
<1>4. /\ heap \in [Arrays -> Seq(Word)] /\ s \in [array : Arrays, len : Nat]
      /\ s.array = <<h, 1>> /\ s.len = 5 /\ <<h, 2>> \in Arrays
      /\ heap[Shared.array] = sshCommand
      /\ dmon \in Seq(Word) /\ Len(dmon) = 4
      /\ \A i \in 1 .. 4 : OwnWords(h)[5 + i] = dmon[i]
  BY <1>1, <1>2, <1>3, OwnArrays, OwnWordsAre DEF WordsOK
<1>5. PICK new \in Seq(Word) : IsAppended(s, dmon, <<h, 2>>, new)
  <2>1. ASSUME NEW fresh \in Arrays, fresh = <<h, 2>>
        PROVE  \E new \in Seq(Word) : IsAppended(s, dmon, fresh, new)
    <3>1. AppendWords(s, dmon, fresh)
      BY <1>1, <1>2, <2>1
    <3>2. s.len <= Len(heap[s.array]) /\ s.len + Len(dmon) > Len(heap[s.array])
      <4>1. s.len = 5 /\ Len(heap[s.array]) = 8 /\ Len(dmon) = 4
        BY <1>3, <1>4, Zenon
      <4> QED BY <4>1
    <3> QED BY <1>4, <3>1, <3>2, Appended
  <2> QED BY <1>4, <2>1, Zenon
<1>6. /\ heap' = [heap EXCEPT ![<<h, 2>>] = new] /\ Len(new) = 16
      /\ cmdline' = [cmdline EXCEPT ![h] = [array |-> <<h, 2>>, len |-> 9]]
      /\ \A i \in 1 .. 5 : new[i] = heap[<<h, 1>>][i]
      /\ \A i \in 1 .. 4 : new[5 + i] = dmon[i]
  <2>1. s.len + Len(dmon) = 9 /\ <<h, 2>>[1] = h /\ Len(heap[s.array]) = 8
    BY <1>3, <1>4
  <2>2. ~(9 > 2 * 8) /\ 2 * 8 = 16
    OBVIOUS
  <2> QED BY <1>4, <1>5, <2>1, <2>2, Zenon DEF IsAppended
<1>7. \A i \in 1 .. 9 : new[i] = OwnWords(h)[i]
  <2>1. \A i \in 1 .. 5 : new[i] = OwnWords(h)[i]
    BY <1>3, <1>6
  <2>2. ASSUME NEW i \in 6 .. 9 PROVE new[i] = OwnWords(h)[i]
    <3>1. i - 5 \in 1 .. 4 /\ 5 + (i - 5) = i
      BY <2>2
    <3> QED BY <1>4, <1>6, <3>1, Zenon
  <2> QED BY <2>1, <2>2
<1>8. heap' \in [Arrays -> Seq(Word)] /\ heap'[Shared.array] = sshCommand
      /\ heap'[<<h, 2>>] = new
  BY <1>1, <1>4, <1>6, OwnArrays
<1>9. cmdline' \in [SSHHosts -> [array : Arrays, len : Nat]]
      /\ cmdline'[h] = [array |-> <<h, 2>>, len |-> 9]
  BY <1>1, <1>4, <1>6 DEF WordsOK
<1>10. Building(h)'
  <2>1. pc'[h] = "built"
    BY <1>1 DEF PcOK, Monitors
  <2> QED BY <1>6, <1>7, <1>8, <1>9, <2>1, Zenon DEF Building, Begins, OwnWords, sshCommand, dmon
<1>11. ASSUME NEW k \in SSHHosts, k # h PROVE Building(k)'
  <2>1. /\ pc'[k] = pc[k] /\ cmdline'[k] = cmdline[k]
        /\ heap'[<<k, 1>>] = heap[<<k, 1>>] /\ heap'[<<k, 2>>] = heap[<<k, 2>>]
    BY <1>1, <1>4, <1>6, <1>11, OwnArrays DEF WordsOK, PcOK, Monitors, Hosts
  <2> QED BY <2>1, <1>11 DEF WordsOK, Building, Begins, Shared
<1> QED BY <1>8, <1>9, <1>10, <1>11, Zenon DEF WordsOK, Shared, sshCommand

(* Starting the child drops the host's arrays and nobody else's.            *)
LEMMA StartChildKeeps ==
  ASSUME WordsOK, PcOK, NEW h \in Hosts, StartChild(h)
  PROVE  WordsOK'
<1>1. /\ heap' = [a \in Arrays |-> IF a \in {<<h, 1>>, <<h, 2>>} THEN <<>> ELSE heap[a]]
      /\ cmdline' = [k \in SSHHosts |-> IF k = h THEN Shared ELSE cmdline[k]]
      /\ \A k \in Monitors \ {h} : pc'[k] = pc[k]
      /\ pc'[h] \in {"run", "start"}
  BY DEF StartChild, Goto, PcOK, Monitors
<1>2. heap \in [Arrays -> Seq(Word)] /\ cmdline \in [SSHHosts -> [array : Arrays, len : Nat]]
      /\ heap[Shared.array] = sshCommand
  BY DEF WordsOK
<1>3. Shared.array \notin {<<h, 1>>, <<h, 2>>} /\ Nil # h
      /\ Shared \in [array : Arrays, len : Nat] /\ Shared.array \in Arrays
  BY OwnArrays, HostsAssumption DEF Shared
<1>4. heap' \in [Arrays -> Seq(Word)] /\ heap'[Shared.array] = sshCommand
  <2>1. <<>> \in Seq(Word)
    BY EmptySeq
  <2> QED BY <1>1, <1>2, <1>3, <2>1
<1>5. cmdline' \in [SSHHosts -> [array : Arrays, len : Nat]]
  BY <1>1, <1>2, <1>3
<1>6. ASSUME NEW k \in SSHHosts PROVE Building(k)'
  <2>1. CASE k = h
    BY <1>1, <2>1 DEF Building, Shared
  <2>2. CASE k # h
    <3>1. pc'[k] = pc[k] /\ cmdline'[k] = cmdline[k]
      BY <1>1, <2>2 DEF Monitors, Hosts
    <3>2. {<<k, 1>>, <<k, 2>>} \subseteq Arrays /\ {<<k, 1>>, <<k, 2>>} \cap {<<h, 1>>, <<h, 2>>} = {}
      BY <2>2 DEF Arrays
    <3>3. heap'[<<k, 1>>] = heap[<<k, 1>>] /\ heap'[<<k, 2>>] = heap[<<k, 2>>]
      BY <1>1, <3>2
    <3> QED BY <3>1, <3>3 DEF WordsOK, Building, Begins, Shared
  <2> QED BY <2>1, <2>2
<1> QED BY <1>4, <1>5, <1>6, Zenon DEF WordsOK, Shared, sshCommand

(* The goroutines stay where goroutines can be.                             *)
LEMMA PcStep == ASSUME PcOK, [Next]_vars PROVE PcOK'
<1>1. \/ UNCHANGED pc
      \/ \E m \in Monitors, from \in States, to \in States : Goto(m, from, to)
  BY DEF Next, Connect, Poll, TakeTick, Get, GetFails, ConnectFails, GetPanics, Dies, Killed, Tick,
         WriteBlocking, Client, Flush, TakeBatch, SendEnds, HostStep, AppendName, AppendDmon,
         StartChild, ScanLine, ChildEnds, WritePoint, Rest, Monitors, Hosts, States, vars
<1> QED BY <1>1 DEF Goto, PcOK

(* Every step keeps what the hosts have of their command lines.             *)
LEMMA WordsStep == ASSUME WordsOK, PcOK, [Next]_vars PROVE WordsOK'
<1>1. ASSUME NEW h \in Hosts, HostStep(h) PROVE WordsOK'
  BY <1>1, AppendNameKeeps, AppendDmonKeeps, StartChildKeeps DEF HostStep
<1>2. ASSUME UNCHANGED words, UNCHANGED pc PROVE WordsOK'
  BY <1>2, WordsStay
<1>3. ASSUME UNCHANGED words, NEW m \in Monitors, NEW from \in States \ {"named", "built"},
             NEW to \in States \ {"named", "built"}, Goto(m, from, to)
      PROVE  WordsOK'
  BY <1>3, WordsStay DEF Goto, PcOK, Monitors, Hosts
<1>4. CASE Connect \/ Poll \/ WriteBlocking
  BY <1>3, <1>4 DEF Connect, Poll, TakeTick, Get, GetFails, WriteBlocking, Monitors, States
<1>5. CASE ConnectFails \/ GetPanics \/ Tick \/ Client \/ Killed \/ UNCHANGED vars
  BY <1>2, <1>5 DEF ConnectFails, GetPanics, Dies, Killed, Tick, Client, Flush, TakeBatch, SendEnds,
                    vars
<1>6. ASSUME NEW h \in Hosts, ScanLine(h) \/ ChildEnds(h) PROVE WordsOK'
  BY <1>3, <1>6 DEF ScanLine, ChildEnds, Monitors, States
<1>7. ASSUME NEW m \in Monitors, WritePoint(m) PROVE WordsOK'
  BY <1>3, <1>7 DEF WritePoint, Rest, States
<1> QED BY <1>1, <1>4, <1>5, <1>6, <1>7 DEF Next

(* At the start no host has begun its command line.                         *)
LEMMA WordsInit == ASSUME Init PROVE WordsOK /\ PcOK
<1>1. PcOK
  BY DEF Init, PcOK, States
<1>2. sshCommand \in Seq(Word) /\ <<>> \in Seq(Word)
  BY DEF sshCommand, Word
<1>3. heap \in [Arrays -> Seq(Word)] /\ heap[Shared.array] = sshCommand
  BY <1>2, OwnArrays DEF Init, SSHArray
<1>4. cmdline \in [SSHHosts -> [array : Arrays, len : Nat]]
  BY OwnArrays DEF Init
<1>5. ASSUME NEW h \in SSHHosts PROVE Building(h)
  BY DEF Init, Building, Monitors, Hosts
<1> QED BY <1>1, <1>3, <1>4, <1>5 DEF WordsOK

(* Every host's child is started with the host's own name in its command    *)
(* line, for any number of hosts that append to the one slice at once.      *)
THEOREM AscMonitorOwnCommandLine == Spec => []OwnCommandLine
<1>1. Init => WordsOK /\ PcOK
  BY WordsInit
<1>2. ASSUME WordsOK PROVE OwnCommandLine
  <2> SUFFICES ASSUME NEW h \in SSHHosts, pc[h] = "built"
               PROVE  Words(cmdline[h]) = OwnWords(h)
    BY DEF OwnCommandLine, OwnWords
  <2>1. PICK cells : cells = heap[<<h, 2>>]
    OBVIOUS
  <2>2. /\ cmdline[h].array = <<h, 2>> /\ cmdline[h].len = 9 /\ Len(cells) = 16
        /\ \A i \in 1 .. 9 : cells[i] = OwnWords(h)[i]
    <3>1. Building(h)
      BY <1>2 DEF WordsOK
    <3>2. cmdline[h] = [array |-> <<h, 2>>, len |-> 9]
      BY <3>1 DEF Building
    <3>3. Len(heap[<<h, 2>>]) = 16 /\ Begins(<<h, 2>>, 9, h)
      BY <3>1 DEF Building
    <3> QED BY <2>1, <3>2, <3>3 DEF Begins
  <2>3. cells \in Seq(Word)
    BY <1>2, <2>1, OwnArrays DEF WordsOK
  <2>4. \A i \in 1 .. 9 : cells[i] \in Word
    <3>1. \A i \in 1 .. Len(cells) : cells[i] \in Word
      BY <2>3, ElementOfSeq
    <3> QED BY <2>2, <3>1
  <2>5. /\ SubSeq(cells, 1, 9) \in Seq(Word) /\ Len(SubSeq(cells, 1, 9)) = 9
        /\ \A i \in 1 .. 9 : SubSeq(cells, 1, 9)[i] = cells[i]
    BY <2>4, SubSeqProperties
  <2>6. SubSeq(cells, 1, 9) = OwnWords(h)
    BY <2>2, <2>5, OwnWordsAre, SeqEqual
  <2> QED BY <2>1, <2>2, <2>6, Zenon DEF Words
<1>3. WordsOK /\ PcOK /\ [Next]_vars => WordsOK' /\ PcOK'
  BY WordsStep, PcStep
<1> QED BY <1>1, <1>2, <1>3, PTL DEF Spec
-----------------------------------------------------------------------------
(* Types of the books: readings, the buffer, the queue, and what became of  *)
(* the points.  A buffer that is not being handed over has room.            *)
ReadsOK ==
  /\ program \in Programs /\ tick \in 0 .. 1 /\ ticks \in 0 .. MaxTicks
  /\ reads \in [Monitors -> 0 .. MaxReads] /\ PcOK
BufferOK ==
  /\ buffer \subseteq Point /\ IsFiniteSet(buffer) /\ (flushing => buffer # {})
  /\ Cardinality(buffer) <= BatchSize /\ (~flushing => Cardinality(buffer) < BatchSize)
QueueOK ==
  /\ queue \in Seq(SUBSET Point) /\ Len(queue) <= MaxQueue /\ (sending => queue # <<>>)
StoredOK == stored \subseteq Point /\ lost \subseteq Point
FlagsOK == up \in BOOLEAN /\ flushing \in BOOLEAN /\ sending \in BOOLEAN

(* A reading is somewhere only after it was taken; one whose point is about *)
(* to be written is nowhere else.                                           *)
Known == \A p \in buffer \cup Batches(queue) \cup stored \cup lost : p.n <= reads[p.by]
Fresh == \A m \in Monitors : pc[m] = "send" =>
           reads[m] >= 1 /\ Latest(m) \notin buffer \cup Batches(queue) \cup stored

(* No point is in two batches.                                              *)
Apart ==
  /\ buffer \cap Batches(queue) = {}
  /\ \A i \in 1 .. Len(queue), j \in 1 .. Len(queue) : i # j => queue[i] \cap queue[j] = {}

(* apc-monitor has no batches.                                              *)
Unbatched == program = "apc-monitor" => buffer = {} /\ queue = <<>>

Books == /\ ReadsOK /\ BufferOK /\ QueueOK /\ StoredOK /\ FlagsOK
         /\ Known /\ Fresh /\ Apart /\ Unbatched

(* The sizes, one by one.                                                   *)
LEMMA Sizes ==
  /\ BatchSize \in Nat /\ BatchSize >= 1 /\ MaxQueue \in Nat /\ MaxQueue >= 1
  /\ MaxReads \in Nat /\ MaxTicks \in Nat
  BY SizesAssumption

(* The batches of a queue, when one joins it and when the first one leaves. *)
LEMMA BatchesAppend ==
  ASSUME NEW q \in Seq(SUBSET Point), NEW b \in SUBSET Point
  PROVE  /\ Append(q, b) \in Seq(SUBSET Point) /\ Len(Append(q, b)) = Len(q) + 1
         /\ Batches(Append(q, b)) = Batches(q) \cup b
         /\ \A i \in 1 .. Len(q) : Append(q, b)[i] = q[i]
         /\ Append(q, b)[Len(q) + 1] = b
<1>1. Len(q) \in Nat
  OBVIOUS
<1>2. PICK r : r = Append(q, b)
  OBVIOUS
<1>3. /\ r \in Seq(SUBSET Point) /\ Len(r) = Len(q) + 1
      /\ \A i \in 1 .. Len(q) : r[i] = q[i]
      /\ r[Len(q) + 1] = b
  BY <1>2
<1>4. \A i \in 1 .. Len(r) : i \in 1 .. Len(q) \/ i = Len(q) + 1
  BY <1>1, <1>3
<1>5. Batches(r) = Batches(q) \cup b
  <2>1. ASSUME NEW p \in Batches(r) PROVE p \in Batches(q) \cup b
    <3>1. PICK i \in 1 .. Len(r) : p \in r[i]
      BY DEF Batches
    <3> QED BY <1>3, <1>4, <3>1 DEF Batches
  <2>2. ASSUME NEW p \in Batches(q) PROVE p \in Batches(r)
    <3>1. PICK i \in 1 .. Len(q) : p \in q[i]
      BY DEF Batches
    <3>2. i \in 1 .. Len(r)
      BY <1>1, <1>3
    <3> QED BY <1>3, <3>1, <3>2 DEF Batches
  <2>3. ASSUME NEW p \in b PROVE p \in Batches(r)
    <3>1. Len(q) + 1 \in 1 .. Len(r)
      BY <1>1, <1>3
    <3> QED BY <1>3, <3>1 DEF Batches
  <2> QED BY <2>1, <2>2, <2>3
<1> QED BY <1>2, <1>3, <1>5

(* A queue holds its first batch and what its tail holds.                   *)
LEMMA BatchesTail ==
  ASSUME NEW q \in Seq(SUBSET Point), q # <<>>
  PROVE  /\ Head(q) \in SUBSET Point /\ Tail(q) \in Seq(SUBSET Point)
         /\ Len(Tail(q)) = Len(q) - 1 /\ Len(q) >= 1 /\ Head(q) = q[1]
         /\ Batches(q) = Head(q) \cup Batches(Tail(q))
         /\ \A i \in 1 .. Len(q) - 1 : Tail(q)[i] = q[i + 1]
<1>1. Len(q) \in Nat /\ Len(q) >= 1 /\ Head(q) = q[1]
  BY EmptySeq
<1>2. PICK r : r = Tail(q)
  OBVIOUS
<1>3. /\ Head(q) \in SUBSET Point /\ r \in Seq(SUBSET Point) /\ Len(r) = Len(q) - 1
      /\ \A i \in 1 .. Len(q) - 1 : r[i] = q[i + 1]
  BY <1>2, HeadTailProperties
<1>4. Batches(q) = Head(q) \cup Batches(r)
  <2>1. ASSUME NEW p \in Batches(q) PROVE p \in Head(q) \cup Batches(r)
    <3>1. PICK i \in 1 .. Len(q) : p \in q[i]
      BY DEF Batches
    <3>2. CASE i = 1
      BY <1>1, <3>1, <3>2
    <3>3. CASE i # 1
      <4>1. i - 1 \in 1 .. Len(r) /\ (i - 1) + 1 = i /\ i - 1 \in 1 .. Len(q) - 1
        BY <1>1, <1>3, <3>3
      <4>2. p \in r[i - 1]
        BY <1>3, <3>1, <4>1, Zenon
      <4> QED BY <4>1, <4>2 DEF Batches
    <3> QED BY <3>2, <3>3
  <2>2. ASSUME NEW p \in Head(q) PROVE p \in Batches(q)
    <3>1. 1 \in 1 .. Len(q)
      BY <1>1
    <3> QED BY <1>1, <3>1 DEF Batches
  <2>3. ASSUME NEW p \in Batches(r) PROVE p \in Batches(q)
    <3>1. PICK i \in 1 .. Len(r) : p \in r[i]
      BY DEF Batches
    <3>2. i + 1 \in 1 .. Len(q) /\ i \in 1 .. Len(q) - 1
      BY <1>1, <1>3
    <3> QED BY <1>3, <3>1, <3>2 DEF Batches
  <2> QED BY <2>1, <2>2, <2>3
<1> QED BY <1>1, <1>2, <1>3, <1>4

(* The refinement mapping and its step.                                     *)
Bar == IF up THEN Pending ELSE {}
TelemetryStep == [T!TelemetryNext]_(T!telemetryVars)

(* A monitor that fills its point in takes it.                              *)
LEMMA TakeIsStep ==
  ASSUME NEW p \in Point, p \notin Bar \cup stored \cup lost, Bar' = Bar \cup {p},
         UNCHANGED books
  PROVE  TelemetryStep
  BY DEF TelemetryStep, T!TelemetryNext, T!Take, Bar, books

(* What leaves for the database is stored.                                  *)
LEMMA StoreIsStep ==
  ASSUME NEW S \in SUBSET Bar, stored' = stored \cup S, Bar' = Bar \ S, UNCHANGED lost
  PROVE  TelemetryStep
  BY DEF TelemetryStep, T!TelemetryNext, T!Store, Bar

(* What leaves for nowhere is lost.                                         *)
LEMMA LoseIsStep ==
  ASSUME NEW S \in SUBSET Bar, lost' = lost \cup S, Bar' = Bar \ S, UNCHANGED stored
  PROVE  TelemetryStep
  BY DEF TelemetryStep, T!TelemetryNext, T!Lose, Bar

(* A step that moves no point stutters.                                     *)
LEMMA StutterIsStep ==
  ASSUME UNCHANGED Bar, UNCHANGED books
  PROVE  TelemetryStep
  BY DEF TelemetryStep, T!telemetryVars, Bar, books

(* What the monitors hold depends on who is about to write a point.         *)
LEMMA HeldIs ==
  /\ \A m \in Monitors : pc[m] = "send" => Latest(m) \in Held
  /\ \A p \in Held : \E m \in Monitors : pc[m] = "send" /\ p = Latest(m)
  BY DEF Held

(* A monitor that stays where it is keeps its point.                        *)
LEMMA HeldStays ==
  ASSUME UNCHANGED reads, \A m \in Monitors : pc'[m] = "send" <=> pc[m] = "send"
  PROVE  Held' = Held
  BY DEF Held, Latest

(* A step that moves no point.                                              *)
LEMMA Quiet ==
  ASSUME Books, PcOK', UNCHANGED <<program, up, reads, bufferProc, writeProc, books>>,
         tick' \in 0 .. 1, ticks' \in 0 .. MaxTicks,
         \A m \in Monitors : pc'[m] = "send" <=> pc[m] = "send"
  PROVE  Books' /\ TelemetryStep
<1>1. UNCHANGED <<buffer, flushing, queue, sending, stored, lost>>
  BY DEF bufferProc, writeProc, books
<1>2. ReadsOK' /\ BufferOK' /\ QueueOK' /\ StoredOK' /\ FlagsOK'
  BY <1>1 DEF Books, ReadsOK, BufferOK, QueueOK, StoredOK, FlagsOK
<1>3. Known' /\ Fresh' /\ Apart' /\ Unbatched'
  BY <1>1 DEF Books, Known, Fresh, Apart, Unbatched, Batches, Latest
<1>4. Held' = Held
  BY HeldStays
<1>5. Bar' = Bar
  BY <1>1, <1>4 DEF Bar, Pending, Batches
<1> QED BY <1>2, <1>3, <1>5, StutterIsStep DEF Books

(* The process ends.                                                        *)
LEMMA DiesStep ==
  ASSUME Books, up, Dies
  PROVE  Books' /\ TelemetryStep
<1>1. up' = FALSE /\ lost' = lost \cup Pending
      /\ UNCHANGED <<program, pc, tick, ticks, reads, buffer, flushing, queue, sending, stored>>
  BY DEF Dies, ticker, bufferProc, writeProc
<1>2. Pending \subseteq Point /\ \A p \in Pending : p.n <= reads[p.by]
  <2>1. ASSUME NEW m \in Monitors, pc[m] = "send"
        PROVE  Latest(m) \in Point /\ Latest(m).n <= reads[Latest(m).by]
    <3>1. reads[m] \in 0 .. MaxReads /\ reads[m] >= 1
      BY <2>1 DEF Books, Fresh, ReadsOK
    <3>2. reads[m] \in 1 .. MaxReads /\ reads[m] <= reads[m]
      BY <3>1, Sizes
    <3> QED BY <3>2 DEF Latest, Point
  <2>2. Batches(queue) \subseteq Point
    BY ElementOfSeq DEF Batches, Books, QueueOK
  <2> QED BY <2>1, <2>2, HeldIs DEF Pending, Books, BufferOK, Known
<1>3. ReadsOK' /\ BufferOK' /\ QueueOK' /\ StoredOK' /\ FlagsOK'
  BY <1>1, <1>2 DEF Books, ReadsOK, PcOK, BufferOK, QueueOK, StoredOK, FlagsOK
<1>4. Known' /\ Fresh' /\ Apart' /\ Unbatched'
  BY <1>1, <1>2 DEF Books, Known, Fresh, Apart, Unbatched, Batches, Latest
<1>5. Bar = Pending /\ Bar' = {}
  BY <1>1 DEF Bar
<1>6. TelemetryStep
  BY <1>1, <1>5, LoseIsStep
<1> QED BY <1>3, <1>4, <1>6 DEF Books

(* A reading is taken only while there are fewer than MaxReads of them, so  *)
(* that no monitor has that many.                                           *)
LEMMA MoreReads ==
  ASSUME ReadsOK, NEW m \in Monitors, TakeReading(m)
  PROVE  reads[m] < MaxReads
<1> DEFINE P == {p \in Point : p.n <= reads[p.by]}
           f == [n \in 1 .. MaxReads |-> [by |-> m, n |-> n]]
<1> SUFFICES ASSUME reads[m] = MaxReads PROVE FALSE
  BY Sizes DEF ReadsOK
<1>1. IsFiniteSet(Monitors)
  BY HostsAssumption, FS_AddElement DEF Monitors
<1>2. IsFiniteSet(1 .. MaxReads) /\ Cardinality(1 .. MaxReads) = MaxReads
  BY Sizes, FS_Interval
<1>3. IsFiniteSet(Point)
  <2>1. IsFiniteSet(Monitors \X (1 .. MaxReads))
    BY <1>1, <1>2, FS_Product
  <2> DEFINE g == [x \in Monitors \X (1 .. MaxReads) |-> [by |-> x[1], n |-> x[2]]]
  <2>2. g \in [Monitors \X (1 .. MaxReads) -> Point]
    BY DEF Point
  <2>3. \A p \in Point : \E x \in Monitors \X (1 .. MaxReads) : g[x] = p
    <3>1. ASSUME NEW p \in Point PROVE g[<<p.by, p.n>>] = p /\ <<p.by, p.n>> \in Monitors \X (1 .. MaxReads)
      BY DEF Point
    <3> QED BY <3>1
  <2>4. g \in Surjection(Monitors \X (1 .. MaxReads), Point)
    BY <2>2, <2>3 DEF Surjection
  <2> QED BY <2>1, <2>4, FS_Surjection
<1>4. IsFiniteSet(P) /\ Cardinality(P) \in Nat
  BY <1>3, FS_Subset, FS_CardinalityType
<1>5. f \in Injection(1 .. MaxReads, P)
  <2>1. f \in [1 .. MaxReads -> P]
    BY Sizes DEF Point
  <2>2. \A a \in 1 .. MaxReads, b \in 1 .. MaxReads : f[a] = f[b] => a = b
    OBVIOUS
  <2> QED BY <2>1, <2>2 DEF Injection, IsInjective
<1>6. MaxReads <= Cardinality(P)
  BY <1>2, <1>4, <1>5, FS_Injection
<1>7. Cardinality(P) < MaxReads
  BY DEF TakeReading
<1> QED BY <1>4, <1>6, <1>7, Sizes

(* A new reading is nowhere yet, and from now on its monitor holds it.      *)
LEMMA ReadingStep ==
  ASSUME Books, up, NEW m \in Monitors, pc[m] # "send", pc' = [pc EXCEPT ![m] = "send"],
         TakeReading(m),
         UNCHANGED <<program, up, ticker, bufferProc, writeProc, books>>
  PROVE  Books' /\ TelemetryStep
<1> DEFINE new == [by |-> m, n |-> reads[m] + 1]
<1>1. /\ UNCHANGED <<program, up, tick, ticks, buffer, flushing, queue, sending, stored, lost>>
      /\ reads' = [reads EXCEPT ![m] = reads[m] + 1] /\ reads[m] < MaxReads
  BY MoreReads DEF TakeReading, ticker, bufferProc, writeProc, books, Books
<1>2. reads \in [Monitors -> 0 .. MaxReads] /\ pc \in [Monitors -> States]
  BY DEF Books, ReadsOK, PcOK
<1>3. /\ pc'[m] = "send" /\ reads'[m] = reads[m] + 1
      /\ \A k \in Monitors : k # m => pc'[k] = pc[k] /\ reads'[k] = reads[k]
      /\ \A k \in Monitors : reads[k] <= reads'[k]
  BY <1>1, <1>2, Sizes
<1>4. new \in Point
  BY <1>1, <1>2, Sizes DEF Point
<1>5. new \notin buffer \cup Batches(queue) \cup stored \cup lost
  <2>1. ~(reads[m] + 1 <= reads[m])
    BY <1>2
  <2> QED BY <2>1 DEF Books, Known
<1>6. Latest(m)' = new /\ \A k \in Monitors : k # m => Latest(k)' = Latest(k)
  BY <1>3 DEF Latest
<1>7. Held' = Held \cup {new}
  <2>1. \A k \in Monitors : k # m => (pc'[k] = "send" <=> pc[k] = "send")
    BY <1>3
  <2>2. new \in Held'
    BY <1>3, <1>6 DEF Held
  <2>3. ASSUME NEW k \in Monitors, pc[k] = "send" PROVE Latest(k) \in Held'
    BY <1>6, <2>1, <2>3 DEF Held
  <2>4. ASSUME NEW k \in Monitors, pc'[k] = "send" PROVE Latest(k)' \in Held \cup {new}
    BY <1>6, <2>1, <2>4 DEF Held
  <2> QED BY <2>2, <2>3, <2>4 DEF Held
<1>8. new \notin Held
  <2>1. \A k \in Monitors : pc[k] = "send" => k # m
    OBVIOUS
  <2> QED BY <2>1, HeldIs DEF Latest
<1> HIDE DEF new
<1>9. Bar' = Bar \cup {new} /\ new \notin Bar \cup stored \cup lost
  BY <1>1, <1>5, <1>7, <1>8 DEF Bar, Pending, Batches
<1>10. TelemetryStep
  BY <1>1, <1>4, <1>9, TakeIsStep DEF books
<1>11. ReadsOK' /\ BufferOK' /\ QueueOK' /\ StoredOK' /\ FlagsOK'
  <2>1. reads' \in [Monitors -> 0 .. MaxReads]
    BY <1>1, <1>2, Sizes
  <2>2. pc' \in [Monitors -> States]
    BY <1>2 DEF States
  <2> QED BY <1>1, <2>1, <2>2 DEF Books, ReadsOK, PcOK, BufferOK, QueueOK, StoredOK, FlagsOK
<1>12. Known'
  <2>1. ASSUME NEW p \in buffer \cup Batches(queue) \cup stored \cup lost PROVE p.n <= reads'[p.by]
    <3>1. p \in Point
      BY ElementOfSeq DEF Books, BufferOK, QueueOK, StoredOK, Batches
    <3>2. p.by \in Monitors /\ p.n \in Nat
      BY <3>1 DEF Point
    <3>3. p.n <= reads[p.by] /\ reads[p.by] <= reads'[p.by]
      BY <1>3, <3>2 DEF Books, Known
    <3>4. reads[p.by] \in Int /\ reads'[p.by] \in Int
      BY <1>1, <1>2, <3>2
    <3> QED BY <3>2, <3>3, <3>4
  <2> QED BY <1>1, <2>1 DEF Known, Batches
<1>13. Fresh'
  <2> SUFFICES ASSUME NEW k \in Monitors, pc'[k] = "send"
               PROVE  reads'[k] >= 1 /\ Latest(k)' \notin (buffer \cup Batches(queue) \cup stored)'
    BY DEF Fresh
  <2>1. CASE k = m
    <3>1. reads'[m] >= 1
      BY <1>2, <1>3
    <3> QED BY <1>1, <1>5, <1>6, <2>1, <3>1 DEF Batches
  <2>2. CASE k # m
    BY <1>1, <1>3, <1>6, <2>2 DEF Batches, Books, Fresh
  <2> QED BY <2>1, <2>2
<1> QED BY <1>1, <1>10, <1>11, <1>12, <1>13 DEF Books, Apart, Unbatched, Batches

(* A point that is written moves from its monitor into the buffer.          *)
LEMMA WritePointStep ==
  ASSUME Books, NEW m \in Monitors, WritePoint(m)
  PROVE  Books' /\ TelemetryStep
<1> DEFINE p == Latest(m)
<1>1. /\ up /\ ~flushing /\ pc[m] = "send" /\ program = "asc-monitor"
      /\ pc' = [pc EXCEPT ![m] = Rest(m)]
      /\ buffer' = buffer \cup {p} /\ flushing' = (Cardinality(buffer') = BatchSize)
      /\ UNCHANGED <<program, up, tick, ticks, reads, queue, sending, stored, lost>>
  BY DEF WritePoint, Goto, ticker, writeProc, books
<1>2. reads \in [Monitors -> 0 .. MaxReads] /\ pc \in [Monitors -> States]
      /\ reads[m] >= 1 /\ p \notin buffer \cup Batches(queue) \cup stored
  BY <1>1 DEF Books, ReadsOK, PcOK, Fresh
<1>3. p \in Point /\ p.n <= reads[p.by]
  <2>1. reads[m] \in 1 .. MaxReads /\ reads[m] <= reads[m]
    BY <1>2, Sizes
  <2> QED BY <2>1 DEF Latest, Point
<1>4. /\ pc'[m] # "send" /\ pc'[m] \in States
      /\ \A k \in Monitors : k # m => pc'[k] = pc[k]
      /\ \A k \in Monitors : Latest(k)' = Latest(k) /\ (k # m => Latest(k) # p)
  BY <1>1, <1>2 DEF Rest, States, Latest
<1>5. Held = Held' \cup {p}
  <2>1. ASSUME NEW k \in Monitors, pc'[k] = "send" PROVE Latest(k)' \in Held
    BY <1>4, <2>1 DEF Held
  <2>2. ASSUME NEW k \in Monitors, pc[k] = "send" PROVE Latest(k) \in Held' \cup {p}
    BY <1>4, <2>2 DEF Held
  <2>3. p \in Held
    BY <1>1, HeldIs
  <2> QED BY <2>1, <2>2, <2>3 DEF Held
<1> HIDE DEF p
<1>6. Bar' = Bar
  BY <1>1, <1>5 DEF Bar, Pending, Batches
<1>7. TelemetryStep
  BY <1>1, <1>6, StutterIsStep DEF books
<1>8. BufferOK' /\ flushing' \in BOOLEAN
  <2>1. IsFiniteSet(buffer) /\ Cardinality(buffer) < BatchSize /\ buffer \subseteq Point
    BY <1>1 DEF Books, BufferOK
  <2>2. Cardinality(buffer) \in Nat /\ IsFiniteSet(buffer')
        /\ Cardinality(buffer') = Cardinality(buffer) + 1
    BY <1>1, <1>2, <2>1, FS_CardinalityType, FS_AddElement
  <2>3. PICK size : size = Cardinality(buffer')
    OBVIOUS
  <2>4. size <= BatchSize /\ (size # BatchSize => size < BatchSize)
    BY <2>1, <2>2, <2>3, Sizes
  <2>5. flushing' <=> size = BatchSize
    BY <1>1, <2>3, Zenon
  <2>6. buffer' \subseteq Point /\ buffer' # {}
    BY <1>1, <1>3, <2>1
  <2>7. flushing' \in BOOLEAN
    BY <1>1, Zenon
  <2> QED BY <2>2, <2>3, <2>4, <2>5, <2>6, <2>7, Zenon DEF BufferOK
<1>9. ReadsOK' /\ QueueOK' /\ StoredOK' /\ FlagsOK'
  <2>1. pc' \in [Monitors -> States]
    BY <1>1, <1>2, <1>4
  <2> QED BY <1>1, <1>8, <2>1 DEF Books, ReadsOK, PcOK, QueueOK, StoredOK, FlagsOK
<1>10. Known' /\ Fresh' /\ Apart' /\ Unbatched'
  <2>1. Known'
    BY <1>1, <1>3 DEF Books, Known, Batches
  <2>2. Fresh'
    BY <1>1, <1>4 DEF Books, Fresh, Batches
  <2>3. Apart'
    BY <1>1, <1>2 DEF Books, Apart, Batches
  <2> QED BY <1>1, <2>1, <2>2, <2>3 DEF Unbatched
<1> QED BY <1>7, <1>8, <1>9, <1>10 DEF Books

(* apc-monitor's point is stored or given up when WritePoint returns.       *)
LEMMA WriteBlockingStep ==
  ASSUME Books, WriteBlocking
  PROVE  Books' /\ TelemetryStep
<1> DEFINE p == Latest(Apc)
<1>1. /\ up /\ pc[Apc] = "send" /\ program = "apc-monitor" /\ pc' = [pc EXCEPT ![Apc] = "poll"]
      /\ UNCHANGED <<program, up, tick, ticks, reads, buffer, flushing, queue, sending>>
      /\ \/ stored' = stored \cup {p} /\ UNCHANGED lost
         \/ lost' = lost \cup {p} /\ UNCHANGED stored
  BY DEF WriteBlocking, Goto, ticker, bufferProc, writeProc
<1>2. reads \in [Monitors -> 0 .. MaxReads] /\ pc \in [Monitors -> States] /\ Apc \in Monitors
      /\ reads[Apc] >= 1 /\ p \notin stored /\ buffer = {} /\ Batches(queue) = {}
  BY <1>1 DEF Books, ReadsOK, PcOK, Fresh, Monitors, Unbatched, Batches
<1>3. p \in Point /\ p.n <= reads[p.by]
  <2>1. reads[Apc] \in 1 .. MaxReads /\ reads[Apc] <= reads[Apc]
    BY <1>2, Sizes
  <2> QED BY <1>2, <2>1 DEF Latest, Point
<1>4. /\ pc'[Apc] # "send" /\ pc' \in [Monitors -> States]
      /\ \A k \in Monitors : k # Apc => pc'[k] = pc[k]
      /\ \A k \in Monitors : Latest(k)' = Latest(k) /\ (k # Apc => Latest(k) # p)
  BY <1>1, <1>2 DEF States, Latest
<1>5. Held = Held' \cup {p} /\ p \notin Held'
  <2>1. ASSUME NEW k \in Monitors, pc'[k] = "send" PROVE Latest(k)' \in Held \ {p}
    BY <1>4, <2>1 DEF Held
  <2>2. ASSUME NEW k \in Monitors, pc[k] = "send" PROVE Latest(k) \in Held' \cup {p}
    BY <1>4, <2>2 DEF Held
  <2>3. p \in Held
    BY <1>1, <1>2, HeldIs
  <2> QED BY <2>1, <2>2, <2>3 DEF Held
<1> HIDE DEF p
<1>6. Bar = Held \ stored /\ Bar' = Held' \ stored'
  BY <1>1, <1>2 DEF Bar, Pending, Batches
<1>7. {p} \in SUBSET Bar /\ Bar' = Bar \ {p}
  BY <1>1, <1>2, <1>5, <1>6
<1>8. TelemetryStep
  BY <1>1, <1>7, StoreIsStep, LoseIsStep
<1>9. ReadsOK' /\ BufferOK' /\ QueueOK' /\ StoredOK' /\ FlagsOK'
  BY <1>1, <1>3, <1>4 DEF Books, ReadsOK, PcOK, BufferOK, QueueOK, StoredOK, FlagsOK
<1>10. Known' /\ Fresh' /\ Apart' /\ Unbatched'
  <2>1. Known'
    BY <1>1, <1>3 DEF Books, Known, Batches
  <2>2. Fresh'
    BY <1>1, <1>4 DEF Books, Fresh, Batches
  <2> QED BY <1>1, <2>1, <2>2 DEF Books, Apart, Unbatched, Batches
<1> QED BY <1>8, <1>9, <1>10 DEF Books

(* The buffer is handed over as it is.                                      *)
LEMMA FlushStep ==
  ASSUME Books, Flush
  PROVE  Books' /\ TelemetryStep
<1>1. /\ buffer # {} /\ flushing' = TRUE
      /\ UNCHANGED <<program, up, pc, tick, ticks, reads, buffer, queue, sending, stored, lost>>
  BY DEF Flush, ticker, writeProc, books
<1>2. Held' = Held
  BY <1>1, HeldStays
<1>3. Bar' = Bar
  BY <1>1, <1>2 DEF Bar, Pending, Batches
<1>4. ReadsOK' /\ BufferOK' /\ QueueOK' /\ StoredOK' /\ FlagsOK'
  BY <1>1 DEF Books, ReadsOK, PcOK, BufferOK, QueueOK, StoredOK, FlagsOK
<1>5. Known' /\ Fresh' /\ Apart' /\ Unbatched'
  BY <1>1 DEF Books, Known, Fresh, Apart, Unbatched, Batches, Latest
<1> QED BY <1>1, <1>3, <1>4, <1>5, StutterIsStep DEF Books, books

(* A batch joins the queue; a full queue loses its oldest one.              *)
LEMMA TakeBatchStep ==
  ASSUME Books, TakeBatch
  PROVE  Books' /\ TelemetryStep
<1>1. /\ up /\ flushing /\ buffer' = {} /\ flushing' = FALSE /\ sending' \in BOOLEAN
      /\ UNCHANGED <<program, up, pc, tick, ticks, reads, stored>>
  BY DEF TakeBatch, ticker
<1>2. /\ queue \in Seq(SUBSET Point) /\ Len(queue) \in Nat /\ Len(queue) <= MaxQueue
      /\ buffer \in SUBSET Point /\ stored \subseteq Point /\ lost \subseteq Point
      /\ buffer \cap Batches(queue) = {}
      /\ \A i \in 1 .. Len(queue), j \in 1 .. Len(queue) : i # j => queue[i] \cap queue[j] = {}
      /\ program # "apc-monitor"
  BY <1>1 DEF Books, QueueOK, BufferOK, StoredOK, Apart, Unbatched
<1>3. Held' = Held
  BY <1>1, HeldStays
<1>4. BufferOK'
  BY <1>1, FS_EmptySet, Sizes DEF BufferOK
<1>5. ReadsOK' /\ FlagsOK'
  BY <1>1 DEF Books, ReadsOK, PcOK, FlagsOK
<1>6. CASE Len(queue) < MaxQueue
  <2>1. queue' = Append(queue, buffer) /\ lost' = lost
    BY <1>6 DEF TakeBatch
  <2>2. /\ queue' \in Seq(SUBSET Point) /\ Len(queue') = Len(queue) + 1
        /\ Batches(queue)' = Batches(queue) \cup buffer
        /\ (\A i \in 1 .. Len(queue) : queue'[i] = queue[i]) /\ queue'[Len(queue) + 1] = buffer
    BY <1>2, <2>1, BatchesAppend DEF Batches
  <2>3. Bar' = Bar
    BY <1>1, <1>3, <2>2 DEF Bar, Pending
  <2>4. QueueOK' /\ StoredOK'
    BY <1>1, <1>2, <1>6, <2>1, <2>2, EmptySeq, Sizes DEF QueueOK, StoredOK
  <2>5. Known' /\ Fresh'
    BY <1>1, <2>1, <2>2 DEF Books, Known, Fresh, Latest
  <2>6. Apart'
    <3>1. \A i \in 1 .. Len(queue) : queue'[i] \cap buffer = {}
      BY <1>2, <2>2 DEF Batches
    <3>2. \A i \in 1 .. Len(queue') : i \in 1 .. Len(queue) \/ i = Len(queue) + 1
      BY <1>2, <2>2
    <3> QED BY <1>1, <1>2, <2>2, <3>1, <3>2 DEF Apart
  <2> QED BY <1>1, <1>2, <1>4, <1>5, <2>1, <2>3, <2>4, <2>5, <2>6, StutterIsStep
          DEF Books, Unbatched, books
<1>7. CASE ~(Len(queue) < MaxQueue)
  <2> DEFINE gone == Head(queue) \ stored
  <2>1. queue' = Append(Tail(queue), buffer) /\ lost' = lost \cup gone
    BY <1>7 DEF TakeBatch
  <2>2. queue # <<>> /\ Len(queue) = MaxQueue
    BY <1>2, <1>7, Sizes, EmptySeq
  <2>3. PICK rest : rest = Tail(queue)
    OBVIOUS
  <2>4. /\ Head(queue) \in SUBSET Point /\ rest \in Seq(SUBSET Point)
        /\ Len(rest) = Len(queue) - 1 /\ Head(queue) = queue[1]
        /\ Batches(queue) = Head(queue) \cup Batches(rest)
        /\ \A i \in 1 .. Len(queue) - 1 : rest[i] = queue[i + 1]
    BY <1>2, <2>2, <2>3, BatchesTail
  <2>5. /\ queue' \in Seq(SUBSET Point) /\ Len(queue') = Len(queue)
        /\ Batches(queue)' = Batches(rest) \cup buffer
        /\ (\A i \in 1 .. Len(queue) - 1 : queue'[i] = rest[i]) /\ queue'[Len(queue)] = buffer
    <3>1. /\ queue' \in Seq(SUBSET Point) /\ Len(queue') = Len(rest) + 1
          /\ Batches(queue)' = Batches(rest) \cup buffer
          /\ (\A i \in 1 .. Len(rest) : queue'[i] = rest[i]) /\ queue'[Len(rest) + 1] = buffer
      BY <1>2, <2>1, <2>3, <2>4, BatchesAppend DEF Batches
    <3>2. Len(rest) + 1 = Len(queue)
      BY <1>2, <2>4
    <3> QED BY <2>4, <3>1, <3>2
  <2>6. Head(queue) \cap Batches(rest) = {}
    <3>1. ASSUME NEW i \in 1 .. Len(rest) PROVE queue[1] \cap rest[i] = {}
      <4>1. 1 \in 1 .. Len(queue) /\ i + 1 \in 1 .. Len(queue) /\ i + 1 # 1
            /\ i \in 1 .. Len(queue) - 1
        BY <1>2, <2>4
      <4> QED BY <1>2, <2>4, <4>1
    <3> QED BY <2>4, <3>1 DEF Batches
  <2>7. \A p \in Held : p \notin Head(queue)
    BY <2>4, HeldIs DEF Books, Fresh
  <2>8. Bar' = Bar \ gone /\ gone \in SUBSET Bar
    BY <1>1, <1>2, <1>3, <2>4, <2>5, <2>6, <2>7 DEF Bar, Pending
  <2>9. TelemetryStep
    BY <1>1, <2>1, <2>8, LoseIsStep
  <2>10. QueueOK' /\ StoredOK'
    BY <1>1, <1>2, <2>1, <2>2, <2>4, <2>5, EmptySeq, Sizes DEF QueueOK, StoredOK
  <2>11. Known' /\ Fresh'
    BY <1>1, <2>1, <2>4, <2>5 DEF Books, Known, Fresh, Latest
  <2>12. Apart'
    <3>1. \A i \in 1 .. Len(queue) - 1 : queue'[i] = queue[i + 1] /\ i + 1 \in 1 .. Len(queue)
      BY <1>2, <2>4, <2>5
    <3>2. \A i \in 1 .. Len(queue) - 1 : queue'[i] \cap buffer = {}
      BY <1>2, <3>1 DEF Batches
    <3>3. \A i \in 1 .. Len(queue') : i \in 1 .. Len(queue) - 1 \/ i = Len(queue)
      BY <1>2, <2>5
    <3>4. ASSUME NEW i \in 1 .. Len(queue) - 1, NEW j \in 1 .. Len(queue) - 1, i # j
          PROVE  queue'[i] \cap queue'[j] = {}
      <4>1. i + 1 # j + 1
        BY <3>4
      <4> QED BY <1>2, <3>1, <4>1
    <3> QED BY <1>1, <2>5, <3>2, <3>3, <3>4 DEF Apart
  <2> QED BY <1>1, <1>2, <1>4, <1>5, <2>9, <2>10, <2>11, <2>12 DEF Books, Unbatched
<1> QED BY <1>6, <1>7

(* The first batch leaves the queue when the database has taken or refused  *)
(* it; after a failure it stays, and the database may have it already.      *)
LEMMA SendEndsStep ==
  ASSUME Books, NEW o \in {"ok", "refused", "retry"}, SendEnds(o)
  PROVE  Books' /\ TelemetryStep
<1>1. /\ up /\ sending /\ queue # <<>> /\ sending' \in BOOLEAN
      /\ UNCHANGED <<program, up, pc, tick, ticks, reads, buffer, flushing>>
  <2>1. sending' = (o # "retry" /\ Tail(queue) # <<>>)
    BY DEF SendEnds
  <2>2. sending' \in BOOLEAN
    BY <2>1, Zenon
  <2> QED BY <2>2 DEF SendEnds, ticker, bufferProc, Books, QueueOK
<1>2. /\ queue \in Seq(SUBSET Point) /\ Len(queue) \in Nat /\ Len(queue) <= MaxQueue
      /\ stored \subseteq Point /\ lost \subseteq Point
      /\ buffer \cap Batches(queue) = {}
      /\ \A i \in 1 .. Len(queue), j \in 1 .. Len(queue) : i # j => queue[i] \cap queue[j] = {}
  BY DEF Books, QueueOK, StoredOK, Apart
<1>3. PICK rest : rest = Tail(queue)
  OBVIOUS
<1>4. PICK first : first = Head(queue)
  OBVIOUS
<1>5. /\ first \in SUBSET Point /\ rest \in Seq(SUBSET Point)
      /\ Len(rest) = Len(queue) - 1 /\ first = queue[1]
      /\ Batches(queue) = first \cup Batches(rest)
      /\ \A i \in 1 .. Len(queue) - 1 : rest[i] = queue[i + 1]
  BY <1>1, <1>2, <1>3, <1>4, BatchesTail
<1>6. first \cap Batches(rest) = {}
  <2>1. ASSUME NEW i \in 1 .. Len(rest) PROVE first \cap rest[i] = {}
    <3>1. 1 \in 1 .. Len(queue) /\ i + 1 \in 1 .. Len(queue) /\ i + 1 # 1
          /\ i \in 1 .. Len(queue) - 1
      BY <1>2, <1>5
    <3> QED BY <1>2, <1>5, <3>1
  <2> QED BY <2>1 DEF Batches
<1>7. Held \cap first = {} /\ buffer \cap first = {}
  BY <1>2, <1>5, HeldIs DEF Books, Fresh
<1>8. Held' = Held
  BY <1>1, HeldStays
<1>9. ReadsOK' /\ BufferOK' /\ FlagsOK'
  BY <1>1 DEF Books, ReadsOK, PcOK, BufferOK, FlagsOK
<1>10. CASE o = "retry"
  <2>1. queue' = queue /\ lost' = lost /\ (stored' = stored \/ stored' = stored \cup first)
        /\ sending' = FALSE
    BY <1>4, <1>10 DEF SendEnds
  <2>2. TelemetryStep
    <3>1. CASE stored' = stored
      <4>1. Bar' = Bar
        BY <1>1, <1>8, <2>1, <3>1 DEF Bar, Pending, Batches
      <4> QED BY <2>1, <3>1, <4>1, StutterIsStep DEF books
    <3>2. CASE stored' = stored \cup first
      <4>1. first \ stored \in SUBSET Bar /\ Bar' = Bar \ (first \ stored)
            /\ stored' = stored \cup (first \ stored)
        BY <1>1, <1>5, <1>8, <2>1, <3>2 DEF Bar, Pending, Batches
      <4> QED BY <2>1, <4>1, StoreIsStep
    <3> QED BY <2>1, <3>1, <3>2
  <2>3. QueueOK' /\ StoredOK'
    BY <1>2, <1>5, <2>1 DEF QueueOK, StoredOK
  <2>4. Known' /\ Fresh'
    BY <1>1, <1>5, <2>1 DEF Books, Known, Fresh, Latest, Batches
  <2> QED BY <1>1, <1>9, <2>1, <2>2, <2>3, <2>4 DEF Books, Apart, Unbatched, Batches
<1>11. CASE o # "retry"
  <2>1. queue' = rest /\ (sending' => rest # <<>>)
    <3>1. sending' = (o # "retry" /\ Tail(queue) # <<>>)
      BY DEF SendEnds
    <3>2. sending' => rest # <<>>
      BY <1>3, <3>1, Zenon
    <3> QED BY <1>3, <1>11, <3>2 DEF SendEnds
  <2>2. \/ stored' = stored \cup first /\ lost' = lost
        \/ stored' = stored /\ lost' = lost \cup (first \ stored)
    BY <1>4, <1>11 DEF SendEnds
  <2>3. Batches(queue)' = Batches(rest) /\ Batches(rest) \subseteq Batches(queue)
    BY <1>5, <2>1 DEF Batches
  <2>4. first \ stored \in SUBSET Bar /\ Bar' = Bar \ (first \ stored)
        /\ stored \cup first = stored \cup (first \ stored)
    BY <1>1, <1>5, <1>6, <1>7, <1>8, <2>2, <2>3 DEF Bar, Pending
  <2>5. TelemetryStep
    BY <2>2, <2>4, StoreIsStep, LoseIsStep
  <2>6. QueueOK' /\ StoredOK'
    <3>1. Len(rest) <= MaxQueue
      BY <1>2, <1>5, Sizes
    <3> QED BY <1>2, <1>5, <2>1, <2>2, <3>1 DEF QueueOK, StoredOK
  <2>7. Known'
    BY <1>1, <1>5, <2>2, <2>3 DEF Books, Known
  <2>8. Fresh'
    BY <1>1, <1>5, <2>2, <2>3 DEF Books, Fresh, Latest
  <2>9. Apart'
    <3>1. \A i \in 1 .. Len(rest) : rest[i] = queue[i + 1] /\ i + 1 \in 1 .. Len(queue)
      BY <1>2, <1>5
    <3>2. ASSUME NEW i \in 1 .. Len(rest), NEW j \in 1 .. Len(rest), i # j
          PROVE  rest[i] \cap rest[j] = {}
      <4>1. i + 1 # j + 1
        BY <3>2
      <4> QED BY <1>2, <3>1, <4>1
    <3>3. buffer \cap Batches(rest) = {}
      BY <1>2, <2>3
    <3> QED BY <1>1, <2>1, <2>3, <3>2, <3>3 DEF Apart
  <2>10. Unbatched'
    BY <1>1 DEF Books, Unbatched
  <2> QED BY <1>9, <2>5, <2>6, <2>7, <2>8, <2>9, <2>10 DEF Books
<1> QED BY <1>10, <1>11

(* Every step keeps the books, and is a step of Telemetry.                  *)
LEMMA BooksStep ==
  ASSUME Books, [Next]_vars
  PROVE  Books' /\ TelemetryStep
<1>1. PcOK' /\ pc \in [Monitors -> States] /\ tick \in 0 .. 1 /\ ticks \in 0 .. MaxTicks
  BY PcStep DEF Books, ReadsOK, PcOK
<1>2. ASSUME NEW m \in Monitors, NEW from \in States \ {"send"}, NEW to \in States \ {"send"},
             Goto(m, from, to), tick' \in 0 .. 1, ticks' = ticks,
             UNCHANGED <<program, up, reads, bufferProc, writeProc, books>>
      PROVE  Books' /\ TelemetryStep
  <2>1. \A k \in Monitors : pc'[k] = "send" <=> pc[k] = "send"
    BY <1>1, <1>2 DEF Goto
  <2> QED BY <1>1, <1>2, <2>1, Quiet
<1>3. CASE Connect \/ TakeTick \/ GetFails
  BY <1>1, <1>2, <1>3 DEF Connect, TakeTick, GetFails, Monitors, States, ticker
<1>4. ASSUME NEW h \in Hosts, HostStep(h) \/ ChildEnds(h) PROVE Books' /\ TelemetryStep
  BY <1>1, <1>2, <1>4 DEF HostStep, AppendName, AppendDmon, StartChild, ChildEnds, Monitors, States,
                          ticker
<1>5. CASE Tick
  <2>1. /\ ticks' \in 0 .. MaxTicks /\ tick' \in 0 .. 1 /\ pc' = pc
        /\ UNCHANGED <<program, up, reads, bufferProc, writeProc, books>>
    BY <1>1, <1>5, Sizes DEF Tick
  <2> QED BY <1>1, <2>1, Quiet
<1>6. CASE UNCHANGED vars
  <2>1. UNCHANGED <<program, up, pc, tick, ticks, reads, bufferProc, writeProc, books>>
    BY <1>6 DEF vars, ticker
  <2> QED BY <1>1, <2>1, Quiet
<1>7. ASSUME NEW h \in Hosts, ScanLine(h) PROVE Books' /\ TelemetryStep
  BY <1>7, ReadingStep DEF ScanLine, Goto, Monitors
<1>8. CASE Get
  BY <1>8, ReadingStep DEF Get, Goto, Monitors
<1>9. CASE ConnectFails \/ GetPanics \/ Killed
  BY <1>9, DiesStep DEF ConnectFails, GetPanics, Killed
<1>10. CASE Client
  BY <1>10, FlushStep, TakeBatchStep, SendEndsStep DEF Client
<1> QED BY <1>3, <1>4, <1>5, <1>6, <1>7, <1>8, <1>9, <1>10, WritePointStep, WriteBlockingStep
        DEF Next, Poll

(* There are no points to begin with.                                       *)
LEMMA BooksInit ==
  ASSUME Init
  PROVE  Books /\ T!TelemetryInit
<1>1. /\ buffer = {} /\ queue = <<>> /\ stored = {} /\ lost = {}
      /\ flushing = FALSE /\ sending = FALSE /\ up = TRUE
      /\ \A m \in Monitors : pc[m] # "send"
  BY DEF Init
<1>2. Batches(queue) = {} /\ Held = {}
  BY <1>1, HeldIs DEF Batches
<1>3. ReadsOK
  BY Sizes DEF Init, ReadsOK, PcOK, States
<1>4. BufferOK
  BY <1>1, FS_EmptySet, Sizes DEF BufferOK
<1>5. QueueOK
  <2>1. queue \in Seq(SUBSET Point) /\ Len(queue) = 0
    BY <1>1
  <2> QED BY <1>1, <2>1, Sizes DEF QueueOK
<1>6. Apart
  BY <1>1, <1>2 DEF Apart
<1> QED BY <1>1, <1>2, <1>3, <1>4, <1>5, <1>6
        DEF Books, StoredOK, FlagsOK, Known, Fresh, Unbatched, T!TelemetryInit, Pending

(* The slice a host is building lies within its array.                      *)
LEMMA SlicesFit ==
  ASSUME WordsOK, NEW h \in SSHHosts
  PROVE  cmdline[h].len <= Len(heap[cmdline[h].array])
<1>1. Building(h) /\ heap[Shared.array] = sshCommand
  BY DEF WordsOK
<1>2. PICK room : room = Len(heap[cmdline[h].array])
  OBVIOUS
<1>3. PICK used : used = cmdline[h].len
  OBVIOUS
<1>4. CASE pc[h] \notin {"named", "built"}
  <2>1. Shared.len = 4 /\ Len(sshCommand) = 4
    BY OwnArrays, OwnWordsAre
  <2>2. used = 4 /\ room = 4
    BY <1>1, <1>2, <1>3, <1>4, <2>1, Zenon DEF Building
  <2> QED BY <1>2, <1>3, <2>2
<1>5. CASE pc[h] = "named"
  <2>1. cmdline[h].array = <<h, 1>> /\ cmdline[h].len = 5 /\ Len(heap[<<h, 1>>]) = 8
    BY <1>1, <1>5 DEF Building
  <2>2. used = 5 /\ room = 8
    BY <1>2, <1>3, <2>1, Zenon
  <2> QED BY <1>2, <1>3, <2>2
<1>6. CASE pc[h] = "built"
  <2>1. cmdline[h].array = <<h, 2>> /\ cmdline[h].len = 9 /\ Len(heap[<<h, 2>>]) = 16
    BY <1>1, <1>6 DEF Building
  <2>2. used = 9 /\ room = 16
    BY <1>2, <1>3, <2>1, Zenon
  <2> QED BY <1>2, <1>3, <2>2
<1> QED BY <1>4, <1>5, <1>6, Zenon

(* The invariant of all proofs about the monitors.                          *)
IInv == WordsOK /\ Books

(* Every reachable state satisfies the invariant.                           *)
LEMMA AscMonitorInvariant == Spec => []IInv
<1>1. Init => IInv
  BY BooksInit, WordsInit DEF IInv
<1>2. IInv /\ [Next]_vars => IInv'
  BY BooksStep, WordsStep DEF IInv, Books, ReadsOK
<1> QED BY <1>1, <1>2, PTL DEF Spec

(* The buffer and the queue of the write API keep to their sizes, slices    *)
(* lie within their arrays, and nothing is sent or handed over that is not  *)
(* there.                                                                   *)
THEOREM AscMonitorTypes == Spec => []TypeOK
<1>1. IInv => TypeOK
  <2> SUFFICES ASSUME IInv PROVE TypeOK
    OBVIOUS
  <2>1. DOMAIN heap = Arrays /\ \A h \in SSHHosts : cmdline[h].len <= Len(heap[cmdline[h].array])
    BY SlicesFit DEF IInv, WordsOK
  <2> QED BY <2>1 DEF TypeOK, IInv, Books, ReadsOK, BufferOK, QueueOK, StoredOK, FlagsOK, PcOK, States
<1> QED BY <1>1, AscMonitorInvariant, PTL

(* Readings do what Telemetry promises: one that was taken stays pending    *)
(* until it is stored, or lost by a refusal, a full queue or the end of the *)
(* process, whatever the monitors and the client's goroutines do meanwhile. *)
THEOREM AscMonitorImplementsTelemetry == Spec => ImplementsTelemetry
<1>1. Init => T!TelemetryInit
  BY BooksInit
<1>2. IInv /\ [Next]_vars => [T!TelemetryNext]_(T!telemetryVars)
  BY BooksStep DEF IInv, TelemetryStep
<1> QED BY <1>1, <1>2, AscMonitorInvariant, PTL DEF Spec, ImplementsTelemetry, T!TelemetrySpec

(* No reading is in two of these places: on its way, in the database, given *)
(* up.  Telemetry's promise implies it.                                     *)
THEOREM AscMonitorOnePlace == Spec => []T!Exclusive
<1>1. T!TelemetryInit => T!Exclusive
  BY DEF T!TelemetryInit, T!Exclusive
<1>2. T!Exclusive /\ [T!TelemetryNext]_(T!telemetryVars) => T!Exclusive'
  <2> SUFFICES ASSUME T!Exclusive, [T!TelemetryNext]_(T!telemetryVars) PROVE T!Exclusive'
    OBVIOUS
  <2>1. PICK now : now = IF up THEN Pending ELSE {}
    OBVIOUS
  <2>2. PICK next : next = (IF up THEN Pending ELSE {})'
    OBVIOUS
  <2>3. \/ \E p \in Point : /\ p \notin now \cup stored \cup lost /\ next = now \cup {p}
                           /\ stored' = stored /\ lost' = lost
        \/ \E S \in SUBSET now : /\ stored' = stored \cup S /\ next = now \ S /\ lost' = lost
        \/ \E S \in SUBSET now : /\ lost' = lost \cup S /\ next = now \ S /\ stored' = stored
        \/ next = now /\ stored' = stored /\ lost' = lost
    BY <2>1, <2>2, Zenon DEF T!TelemetryNext, T!telemetryVars, T!Take, T!Store, T!Lose
  <2>4. now \cap stored = {} /\ now \cap lost = {} /\ stored \cap lost = {}
    BY <2>1, Zenon DEF T!Exclusive
  <2>5. next \cap stored' = {} /\ next \cap lost' = {} /\ stored' \cap lost' = {}
    BY <2>3, <2>4
  <2> QED BY <2>2, <2>5, Zenon DEF T!Exclusive
<1> QED BY <1>1, <1>2, AscMonitorImplementsTelemetry, PTL DEF ImplementsTelemetry, T!TelemetrySpec
=============================================================================
