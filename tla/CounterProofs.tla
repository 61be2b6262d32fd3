--------------------------- MODULE CounterProofs ----------------------------
(***************************************************************************)
(* The two keepers of uint64 counters, for counters of any width.  ctmon's *)
(* Recorder, for any number of goroutines and prefixes: the type invariant,*)
(* mutual exclusion, the snapshot taken by a dump, the refinement of       *)
(* Ledger.  zfs-arcstats, for any counters, ticks and glitches: what it    *)
(* shows is what happened.                                                 *)
(***************************************************************************)
EXTENDS Recorder, ArcStats, AcctTheorems

(* What a goroutine knows between its steps.  It is inside the method it    *)
(* called; a Record that has read still has the current value; a collect    *)
(* has seen nothing that is not there; no method starts with old items.     *)
InMethod ==
  \A c \in Caller : /\ pc[c] \in {"read", "write"} => op[c] = "Record"
                    /\ pc[c] = "reset" => op[c] \in {"Reset", "DumpAndReset"}
ReadIsCurrent == \A c \in Caller : pc[c] = "write" => read[c] = At(data, key[c])
CollectedIsThere ==
  \A c \in Caller : pc[c] = "collect" =>
    /\ op[c] \in {"Dump", "DumpAndReset"}
    /\ \A k \in DOMAIN items[c] : k \in DOMAIN data /\ items[c][k] = data[k]
StartsEmpty ==
  \A c \in Caller : pc[c] \in {"idle", "lock"} \/ op[c] \in {"Record", "Reset"}
                       => items[c] = EmptyMap

IInv == /\ TypeOK /\ MutualExclusion /\ DumpIsSnapshot
        /\ InMethod /\ ReadIsCurrent /\ CollectedIsThere /\ StartsEmpty

(* The ledger's copies of the counters' operators are the same operators.   *)
LEMMA SameCounters ==
  /\ L!AcctData = AcctData /\ L!Zero = Zero /\ L!Totals = [Prefix -> AcctData]
  /\ L!NoTraffic = [k \in Prefix |-> Zero]
  /\ \A x, y : L!Plus(x, y) = Plus(x, y)
<1>1. L!AcctData = AcctData
  BY DEF AcctData, Word, L!AcctData, L!Word
<1>2. L!Zero = Zero
  BY DEF Zero, L!Zero
<1>3. \A x, y : L!Plus(x, y) = Plus(x, y)
  BY DEF Plus, AddU, L!Plus, L!AddU
<1> QED BY <1>1, <1>2, <1>3 DEF L!Totals, L!NoTraffic

(* Two maps that hold the same keys and values are the same map.            *)
LEMMA MapsEqual ==
  ASSUME NEW m \in DataMap, NEW n \in DataMap, DOMAIN m = DOMAIN n,
         \A k \in DOMAIN m : m[k] = n[k]
  PROVE  m = n
<1>1. PICK S \in SUBSET Prefix : m \in [S -> AcctData]
  BY DEF DataMap
<1>2. PICK T \in SUBSET Prefix : n \in [T -> AcctData]
  BY DEF DataMap
<1>3. n \in [S -> AcctData] /\ \A k \in S : m[k] = n[k]
  BY <1>1, <1>2
<1> QED BY <1>1, <1>3

(* The initial state satisfies the inductive invariant.                     *)
LEMMA InitIInv == Init => IInv
<1> SUFFICES ASSUME Init PROVE IInv
  OBVIOUS
<1>1. TypeOK
  BY EmptyLaws, SameCounters DEF Init, TypeOK, Labels, Ops
<1>2. MutualExclusion
  BY CallerAssumption DEF Init, MutualExclusion, Holding
<1>3. DumpIsSnapshot /\ InMethod /\ ReadIsCurrent /\ CollectedIsThere /\ StartsEmpty
  BY DEF Init, DumpIsSnapshot, InMethod, ReadIsCurrent, CollectedIsThere, StartsEmpty
<1> QED BY <1>1, <1>2, <1>3 DEF IInv

(* Every step keeps the variables in their types.                           *)
LEMMA TypeStep ==
  ASSUME IInv, [Next]_vars
  PROVE  TypeOK'
<1> USE SameCounters
<1>1. TypeOK
  BY DEF IInv
<1>2. Zero \in AcctData /\ EmptyMap \in DataMap
  BY EmptyLaws
<1>3. \A x, y \in AcctData : Plus(x, y) \in AcctData
  BY PlusLaws
<1>4. \A m \in DataMap, k \in Prefix : At(m, k) \in AcctData
  BY MapLaws
<1>5. \A m \in DataMap, k \in Prefix, v \in AcctData : Put(m, k, v) \in DataMap
  BY MapLaws
<1>6. ASSUME NEW c \in Caller, NEW o \in Ops, NEW k \in Prefix, NEW a \in Amounts,
             Call(c, o, k, a)
      PROVE  TypeOK'
  BY <1>1, <1>6 DEF TypeOK, Call, Goto, Labels, acctVars
<1>7. ASSUME NEW c \in Caller, Lock(c)
      PROVE  TypeOK'
  <2>1. Entry(op[c]) \in Labels
    BY <1>1 DEF TypeOK, Entry, Labels, Ops
  <2> QED BY <1>1, <1>7, <2>1 DEF TypeOK, Lock, Goto, locals, acctVars
<1>8. ASSUME NEW c \in Caller, RecordRead(c)
      PROVE  TypeOK'
  BY <1>1, <1>4, <1>8 DEF TypeOK, RecordRead, Goto, Labels, acctVars
<1>9. ASSUME NEW c \in Caller, RecordWrite(c)
      PROVE  TypeOK'
  <2>1. amount[c] \in AcctData /\ read[c] \in AcctData /\ key[c] \in Prefix
    BY <1>1, AmountsAssumption DEF TypeOK
  <2>2. Plus(read[c], amount[c]) \in AcctData /\ Plus(accepted[key[c]], amount[c]) \in AcctData
    BY <1>1, <1>3, <2>1 DEF TypeOK
  <2>3. data' \in DataMap
    BY <1>1, <1>5, <1>9, <2>1, <2>2 DEF TypeOK, RecordWrite
  <2>4. accepted' \in L!Totals
    BY <1>1, <1>9, <2>2 DEF TypeOK, RecordWrite
  <2> QED BY <1>1, <1>2, <1>9, <2>3, <2>4 DEF TypeOK, RecordWrite, Goto, Labels
<1>10. ASSUME NEW c \in Caller, NEW k \in Prefix, CollectItem(c, k)
       PROVE  TypeOK'
  <2>1. data[k] \in AcctData
    BY <1>1, <1>4, <1>10 DEF TypeOK, CollectItem, At
  <2>2. Put(items[c], k, data[k]) \in DataMap
    BY <1>1, <1>5, <2>1 DEF TypeOK
  <2> QED BY <1>1, <1>10, <2>2 DEF TypeOK, CollectItem, acctVars
<1>11. ASSUME NEW c \in Caller, CollectEnd(c)
       PROVE  TypeOK'
  BY <1>1, <1>11 DEF TypeOK, CollectEnd, Goto, Labels, locals, acctVars
<1>12. ASSUME NEW c \in Caller, ResetData(c)
       PROVE  TypeOK'
  <2>1. logged' \in L!Totals /\ lost' \in L!Totals
    BY <1>1, <1>3, <1>4, <1>12 DEF TypeOK, ResetData
  <2> QED BY <1>1, <1>2, <1>12, <2>1 DEF TypeOK, ResetData, Goto, Labels, locals
<1>13. ASSUME NEW c \in Caller, Unlock(c)
       PROVE  TypeOK'
  BY <1>1, <1>13 DEF TypeOK, Unlock, Goto, Labels, locals, acctVars
<1>14. ASSUME NEW c \in Caller, DumpItems(c)
       PROVE  TypeOK'
  BY <1>1, <1>2, <1>14 DEF TypeOK, DumpItems, Goto, Labels, acctVars
<1>15. CASE UNCHANGED vars
  BY <1>1, <1>15 DEF TypeOK, vars, locals, acctVars
<1> QED
  BY <1>6, <1>7, <1>8, <1>9, <1>10, <1>11, <1>12, <1>13, <1>14, <1>15 DEF Next, Body

(* Every step leaves r.mu with the goroutine, if any, that is between Lock  *)
(* and Unlock.                                                              *)
LEMMA MutexStep ==
  ASSUME IInv, [Next]_vars
  PROVE  MutualExclusion'
<1>1. TypeOK /\ MutualExclusion
  BY DEF IInv
<1> USE DEF MutualExclusion, Holding, Goto
<1>2. ASSUME NEW c \in Caller, NEW o \in Ops, NEW k \in Prefix, NEW a \in Amounts,
             Call(c, o, k, a)
      PROVE  MutualExclusion'
  BY <1>1, <1>2 DEF TypeOK, Call
<1>3. ASSUME NEW c \in Caller, Lock(c)
      PROVE  MutualExclusion'
  <2>1. Entry(op[c]) \in Holding
    BY <1>1 DEF TypeOK, Entry, Ops
  <2> QED BY <1>1, <1>3, <2>1, CallerAssumption DEF TypeOK, Lock
<1>4. ASSUME NEW c \in Caller,
             RecordRead(c) \/ RecordWrite(c) \/ CollectEnd(c) \/ ResetData(c)
      PROVE  MutualExclusion'
  BY <1>1, <1>4 DEF TypeOK, RecordRead, RecordWrite, CollectEnd, ResetData
<1>5. ASSUME NEW c \in Caller, NEW k \in Prefix, CollectItem(c, k)
      PROVE  MutualExclusion'
  BY <1>1, <1>5 DEF TypeOK, CollectItem
<1>6. ASSUME NEW c \in Caller, Unlock(c)
      PROVE  MutualExclusion'
  BY <1>1, <1>6, CallerAssumption DEF TypeOK, Unlock
<1>7. ASSUME NEW c \in Caller, DumpItems(c)
      PROVE  MutualExclusion'
  BY <1>1, <1>7 DEF TypeOK, DumpItems
<1>8. CASE UNCHANGED vars
  BY <1>1, <1>8 DEF vars
<1> QED
  BY <1>2, <1>3, <1>4, <1>5, <1>6, <1>7, <1>8 DEF Next, Body

(* Every step keeps what the goroutines know: the one that holds r.mu is    *)
(* the only one to read or change r.data, the others are at a place where   *)
(* they know nothing of it.                                                 *)
LEMMA LocalStep ==
  ASSUME IInv, [Next]_vars
  PROVE  (DumpIsSnapshot /\ InMethod /\ ReadIsCurrent /\ CollectedIsThere /\ StartsEmpty)'
<1> DEFINE Known(d) ==
      /\ \/ pc[d] = "reset" /\ op[d] = "DumpAndReset"
         \/ pc[d] = "unlock" /\ op[d] = "Dump"
         => items[d] = data
      /\ pc[d] \in {"read", "write"} => op[d] = "Record"
      /\ pc[d] = "reset" => op[d] \in {"Reset", "DumpAndReset"}
      /\ pc[d] = "write" => read[d] = At(data, key[d])
      /\ pc[d] = "collect" =>
           /\ op[d] \in {"Dump", "DumpAndReset"}
           /\ \A k \in DOMAIN items[d] : k \in DOMAIN data /\ items[d][k] = data[k]
      /\ pc[d] \in {"idle", "lock"} \/ op[d] \in {"Record", "Reset"}
           => items[d] = EmptyMap
<1>1. TypeOK /\ MutualExclusion /\ \A d \in Caller : Known(d)
  BY DEF IInv, DumpIsSnapshot, InMethod, ReadIsCurrent, CollectedIsThere, StartsEmpty
<1> SUFFICES ASSUME NEW d \in Caller PROVE Known(d)'
  BY DEF DumpIsSnapshot, InMethod, ReadIsCurrent, CollectedIsThere, StartsEmpty
<1>2. Known(d) /\ op[d] \in Ops /\ (pc[d] \in Holding <=> mu = d)
  BY <1>1 DEF TypeOK, MutualExclusion
<1> USE DEF Goto
<1>3. ASSUME NEW c \in Caller, NEW o \in Ops, NEW k \in Prefix, NEW a \in Amounts,
             Call(c, o, k, a)
      PROVE  Known(d)'
  BY <1>1, <1>2, <1>3 DEF TypeOK, Call
<1>4. ASSUME NEW c \in Caller, Lock(c)
      PROVE  Known(d)'
  <2>1. CASE d # c
    BY <1>1, <1>2, <1>4, <2>1 DEF TypeOK, Lock, locals
  <2>2. CASE d = c
    <3>1. pc'[d] = Entry(op[d]) /\ items'[d] = EmptyMap /\ op'[d] = op[d]
      BY <1>1, <1>2, <1>4, <2>2 DEF TypeOK, Lock, locals
    <3> QED BY <1>2, <3>1, EmptyLaws DEF Entry, Ops
  <2> QED BY <2>1, <2>2
<1>5. ASSUME NEW c \in Caller, RecordRead(c)
      PROVE  Known(d)'
  BY <1>1, <1>2, <1>5 DEF TypeOK, RecordRead
<1>6. ASSUME NEW c \in Caller, RecordWrite(c)
      PROVE  Known(d)'
  <2>1. pc[c] \in Holding
    BY <1>6 DEF RecordWrite, Holding
  <2>2. d # c => pc[d] \notin Holding
    BY <1>1, <1>2, <2>1 DEF MutualExclusion
  <2>3. CASE d # c
    BY <1>1, <1>2, <1>6, <2>2, <2>3 DEF TypeOK, RecordWrite, Holding
  <2>4. CASE d = c
    <3>1. op[d] # "Dump"
      BY <1>2, <1>6, <2>4 DEF RecordWrite
    <3> QED BY <1>1, <1>2, <1>6, <2>4, <3>1 DEF TypeOK, RecordWrite
  <2> QED BY <2>3, <2>4
<1>7. ASSUME NEW c \in Caller, NEW k \in Prefix, CollectItem(c, k)
      PROVE  Known(d)'
  <2>1. CASE d # c
    BY <1>1, <1>2, <1>7, <2>1 DEF TypeOK, CollectItem
  <2>2. CASE d = c
    <3>1. /\ pc'[d] = "collect" /\ op'[d] = op[d] /\ data' = data
          /\ items'[d] = Put(items[d], k, data[k]) /\ k \in DOMAIN data
      BY <1>1, <1>7, <2>2 DEF TypeOK, CollectItem
    <3> QED BY <1>1, <1>2, <1>7, <2>2, <3>1 DEF CollectItem, Put
  <2> QED BY <2>1, <2>2
<1>8. ASSUME NEW c \in Caller, CollectEnd(c)
      PROVE  Known(d)'
  <2>1. CASE d # c
    BY <1>1, <1>2, <1>8, <2>1 DEF TypeOK, CollectEnd, locals
  <2>2. CASE d = c
    <3>1. items[d] = data
      <4>1. items[d] \in DataMap /\ data \in DataMap
        BY <1>1 DEF TypeOK
      <4>2. DOMAIN items[d] = DOMAIN data /\ \A k \in DOMAIN items[d] : items[d][k] = data[k]
        BY <1>2, <1>8, <2>2 DEF CollectEnd
      <4> QED BY <4>1, <4>2, MapsEqual
    <3> QED BY <1>1, <1>2, <1>8, <2>2, <3>1 DEF TypeOK, CollectEnd, locals
  <2> QED BY <2>1, <2>2
<1>9. ASSUME NEW c \in Caller, ResetData(c)
      PROVE  Known(d)'
  <2>1. pc[c] \in Holding
    BY <1>9 DEF ResetData, Holding
  <2>2. d # c => pc[d] \notin Holding
    BY <1>1, <1>2, <2>1 DEF MutualExclusion
  <2>3. CASE d # c
    BY <1>1, <1>2, <1>9, <2>2, <2>3 DEF TypeOK, ResetData, Holding, locals
  <2>4. CASE d = c
    BY <1>1, <1>2, <1>9, <2>4 DEF TypeOK, ResetData, locals
  <2> QED BY <2>3, <2>4
<1>10. ASSUME NEW c \in Caller, Unlock(c)
       PROVE  Known(d)'
  BY <1>1, <1>2, <1>10 DEF TypeOK, Unlock, locals, Ops
<1>11. ASSUME NEW c \in Caller, DumpItems(c)
       PROVE  Known(d)'
  BY <1>1, <1>2, <1>11 DEF TypeOK, DumpItems
<1>12. CASE UNCHANGED vars
  BY <1>2, <1>12 DEF vars, locals
<1> QED
  BY <1>3, <1>4, <1>5, <1>6, <1>7, <1>8, <1>9, <1>10, <1>11, <1>12 DEF Next, Body

(* The invariant is inductive.                                              *)
LEMMA Inductive == IInv /\ [Next]_vars => IInv'
  BY TypeStep, MutexStep, LocalStep DEF IInv

(* Every reachable state satisfies the invariant.                           *)
LEMMA Invariance == Spec => []IInv
  BY InitIInv, Inductive, PTL DEF Spec

(* r.mu is held by a goroutine exactly while it is between Lock and Unlock, *)
(* so no two of the Recorder's methods touch the map at once.               *)
THEOREM RecorderMutualExclusion == Spec => [](TypeOK /\ MutualExclusion)
<1>1. IInv => TypeOK /\ MutualExclusion
  BY DEF IInv
<1> QED BY <1>1, Invariance, PTL

(* The map's keys and counters stay prefixes and uint64 counts, and the     *)
(* variables of every goroutine keep their types.                           *)
THEOREM RecorderTypes == Spec => []TypeOK
  BY RecorderMutualExclusion, PTL

(* What a dump prints and DumpAndReset forgets is the whole map at one      *)
(* instant, for any number of goroutines recording meanwhile.               *)
THEOREM RecorderSnapshot == Spec => []DumpIsSnapshot
<1>1. IInv => DumpIsSnapshot
  BY DEF IInv
<1> QED BY <1>1, Invariance, PTL

(* The Recorder starts as an empty ledger.                                  *)
LEMMA RefinesInit == Init => L!LedgerInit
<1>1. \A k \in Prefix : At(EmptyMap, k) = Zero
  BY EmptyLaws
<1>2. Init => Pending = L!NoTraffic
  BY <1>1, SameCounters DEF Init, Pending
<1> QED BY <1>2 DEF Init, L!LedgerInit

(* Every step of a goroutine is a step of the ledger or leaves it alone:    *)
(* Record accepts when it writes the map back, DumpAndReset logs and Reset  *)
(* loses, when they put the new map in place, all there was in the old.     *)
LEMMA RefinesStep ==
  ASSUME IInv, [Next]_vars
  PROVE  [L!LedgerNext]_(L!ledgerVars)
<1>1. TypeOK
  BY DEF IInv
<1>2. ASSUME data' = data, accepted' = accepted, logged' = logged, lost' = lost
      PROVE  UNCHANGED L!ledgerVars
  BY <1>2 DEF L!ledgerVars, Pending
<1>3. ASSUME NEW c \in Caller, RecordWrite(c)
      PROVE  L!LedgerNext
  <2> DEFINE k == key[c]
  <2>1. k \in Prefix /\ amount[c] \in AcctData
    BY <1>1, AmountsAssumption DEF TypeOK
  <2>2. read[c] = At(data, k) /\ read[c] \in AcctData
    BY <1>1, <1>3 DEF IInv, ReadIsCurrent, RecordWrite, TypeOK
  <2>3. Plus(read[c], amount[c]) \in AcctData
    BY <2>1, <2>2, PlusLaws
  <2>4. data' = Put(data, k, Plus(At(data, k), amount[c]))
    BY <1>3, <2>2 DEF RecordWrite
  <2>5. Pending' = [Pending EXCEPT ![k] = L!Plus(@, amount[c])]
    <3>1. \A j \in Prefix :
            At(data', j) = IF j = k THEN Plus(At(data, k), amount[c]) ELSE At(data, j)
      <4>1. data \in DataMap /\ Plus(At(data, k), amount[c]) \in AcctData
        BY <1>1, <2>2, <2>3 DEF TypeOK
      <4> QED BY <2>1, <2>4, <4>1, AtPut
    <3> QED BY <2>1, <3>1, SameCounters DEF Pending
  <2>6. accepted' = [accepted EXCEPT ![k] = L!Plus(@, amount[c])]
    BY <1>3, SameCounters DEF RecordWrite
  <2>7. L!Accept(k, amount[c])
    BY <1>3, <2>5, <2>6 DEF L!Accept, RecordWrite
  <2> QED BY <2>1, <2>7, SameCounters DEF L!LedgerNext
<1>4. ASSUME NEW c \in Caller, ResetData(c)
      PROVE  L!LedgerNext
  <2>1. Pending' = L!Without(Pending, Prefix)
    BY <1>4, EmptyLaws, SameCounters DEF ResetData, Pending, L!Without
  <2>2. CASE op[c] = "DumpAndReset"
    <3>1. items[c] = data
      BY <1>4, <2>2 DEF IInv, DumpIsSnapshot, ResetData
    <3>2. logged' = L!Into(logged, Pending, Prefix)
      BY <1>4, <2>2, <3>1, SameCounters DEF ResetData, Pending, L!Into
    <3>3. L!Log(Prefix)
      BY <1>4, <2>1, <2>2, <3>2 DEF L!Log, ResetData
    <3> QED BY <3>3 DEF L!LedgerNext
  <2>3. CASE op[c] # "DumpAndReset"
    <3>1. lost' = L!Into(lost, Pending, Prefix)
      BY <1>4, <2>3, SameCounters DEF ResetData, Pending, L!Into
    <3>2. L!Lose(Prefix)
      BY <1>4, <2>1, <2>3, <3>1 DEF L!Lose, ResetData
    <3> QED BY <3>2 DEF L!LedgerNext
  <2> QED BY <2>2, <2>3
<1>5. ASSUME NEW c \in Caller,
             \/ \E o \in Ops, k \in Prefix, a \in Amounts : Call(c, o, k, a)
             \/ Lock(c) \/ RecordRead(c) \/ CollectEnd(c) \/ Unlock(c) \/ DumpItems(c)
             \/ \E k \in Prefix : CollectItem(c, k)
      PROVE  UNCHANGED L!ledgerVars
  <2>1. UNCHANGED <<data, acctVars>>
    BY <1>5 DEF Call, Lock, RecordRead, CollectEnd, Unlock, DumpItems, CollectItem
  <2> QED BY <1>2, <2>1 DEF acctVars
<1>6. CASE UNCHANGED vars
  BY <1>2, <1>6 DEF vars, acctVars
<1> QED
  BY <1>3, <1>4, <1>5, <1>6 DEF Next, Body

(* However many goroutines share it, the Recorder implements the ledger:    *)
(* every line is counted once in the map and leaves it once, into a dump    *)
(* or a reset.                                                              *)
THEOREM RecorderImplementsLedger == Spec => ImplementsLedger
<1>1. Init => L!LedgerInit
  BY RefinesInit
<1>2. IInv /\ [Next]_vars => [L!LedgerNext]_(L!ledgerVars)
  BY RefinesStep
<1>3. Spec => []IInv
  BY Invariance
<1> QED BY <1>1, <1>2, <1>3, PTL DEF Spec, ImplementsLedger, L!LedgerSpec

LT == INSTANCE LedgerTheorems WITH pending <- Pending

(* The two instances of the ledger are the same specification.              *)
LEMMA SameLedger ==
  /\ L!LedgerInit => LT!LedgerInit
  /\ [L!LedgerNext]_(L!ledgerVars) => [LT!LedgerNext]_(LT!ledgerVars)
  /\ LT!Conserved => L!Conserved
BY DEF L!LedgerInit, LT!LedgerInit, L!LedgerNext, LT!LedgerNext,
       L!ledgerVars, LT!ledgerVars, L!Conserved, LT!Conserved, L!NoTraffic, LT!NoTraffic,
       L!Zero, LT!Zero, L!Plus, LT!Plus, L!AddU, LT!AddU, L!Accept, LT!Accept,
       L!Log, LT!Log, L!Lose, LT!Lose, L!Into, LT!Into, L!Without, LT!Without,
       L!AcctData, LT!AcctData, L!Word, LT!Word

(* In every reachable state, each line recorded is in the map, was handed   *)
(* to a dump that resets, or was discarded by Reset.                        *)
THEOREM RecorderConserves == Spec => []L!Conserved
<1>1. Spec => L!LedgerSpec
  BY RecorderImplementsLedger DEF ImplementsLedger
<1>2. L!LedgerSpec => LT!LedgerSpec
  BY SameLedger, PTL DEF L!LedgerSpec, LT!LedgerSpec
<1>3. LT!LedgerSpec => [](LT!LedgerTypeOK /\ LT!Conserved)
  BY LT!LedgerConserves, ModulusAssumption
<1> QED BY <1>1, <1>2, <1>3, SameLedger, PTL
-----------------------------------------------------------------------------
(* zfs-arcstats. *)

(* A counter that read d when m had happened reads c now that n have: it    *)
(* has counted them, and wrapped some number of times.                      *)
Counted(c, n, d, m) == \E q \in Int : c - d = q * Modulus + (n - m)

(* Then the wrapped difference of the readings is the number, wrapped.      *)
LEMMA CountedDifference ==
  ASSUME NEW c \in Word, NEW d \in Word, NEW n \in Nat, NEW m \in Nat, Counted(c, n, d, m)
  PROVE  SubU(c, d) = (n - m) % Modulus
<1>1. Modulus \in Nat /\ Modulus > 0 /\ c \in Int /\ d \in Int
  BY ModulusAssumption DEF Word
<1>2. PICK q \in Int : c - d = q * Modulus + (n - m)
  BY DEF Counted
<1>3. PICK p \in Int, r \in 0 .. Modulus - 1 :
        n - m = Modulus * p + r /\ (n - m) % Modulus = r
  BY <1>1
<1>4. n - m = p * Modulus + r
  BY <1>1, <1>3
<1>5. c - d = (q + p) * Modulus + r /\ q + p \in Int
  BY <1>1, <1>2, <1>4
<1>6. (c - d) % Modulus = r
  BY <1>1, <1>5, RemainderIs
<1> QED BY <1>3, <1>6 DEF SubU

(* One more event.                                                          *)
LEMMA CountedOneMore ==
  ASSUME NEW c \in Word, NEW d \in Word, NEW n \in Nat, NEW m \in Nat, Counted(c, n, d, m)
  PROVE  Counted(AddU(c, 1), n + 1, d, m)
<1>1. Modulus \in Nat /\ Modulus > 0 /\ c \in Int /\ d \in Int
  BY ModulusAssumption DEF Word
<1>2. PICK q \in Int : c - d = q * Modulus + (n - m)
  BY DEF Counted
<1>3. PICK p \in Int, r \in 0 .. Modulus - 1 :
        c + 1 = Modulus * p + r /\ (c + 1) % Modulus = r
  <2>1. c + 1 \in Int
    BY <1>1
  <2>2. PICK x \in Int : x = c + 1
    BY <2>1
  <2>3. \E p \in Int, r \in 0 .. Modulus - 1 : x = Modulus * p + r /\ x % Modulus = r
    BY <1>1
  <2> QED BY <2>2, <2>3
<1>4. AddU(c, 1) = r
  BY <1>3 DEF AddU
<1>5. r - d = (q - p) * Modulus + ((n + 1) - m) /\ q - p \in Int
  BY <1>1, <1>2, <1>3
<1> QED BY <1>4, <1>5 DEF Counted

(* No event.                                                                *)
LEMMA CountedNothing ==
  ASSUME NEW c \in Word, NEW n \in Nat
  PROVE  Counted(c, n, c, n)
<1>1. Modulus \in Nat /\ c \in Int /\ 0 \in Int
  BY ModulusAssumption DEF Word
<1>2. c - c = 0 * Modulus + (n - n)
  BY <1>1
<1> QED BY <1>1, <1>2 DEF Counted

(* Sums and differences of words are words.                                 *)
LEMMA UintTyped ==
  /\ 0 \in Word
  /\ \A a \in Word : AddU(a, 1) \in Word
  /\ \A a, b \in Word : SubU(a, b) \in Word
<1>1. Modulus \in Nat /\ Modulus > 0
  BY ModulusAssumption
<1>2. \A a \in Int : a % Modulus \in 0 .. Modulus - 1
  BY <1>1
<1> QED BY <1>1, <1>2 DEF Word, AddU, SubU

(* The types of the history.                                                *)
Reads == [boot : Nat, events : Nat]
HistoryOK ==
  /\ sAt \in [Fields -> Reads] /\ lastAt \in [Fields -> Reads]
  /\ truth \in [Fields -> Nat \cup {Unknown}]

(* A line was read in this life of the counter or in an earlier one, and    *)
(* later than in the reading before.                                        *)
ReadBefore ==
  \A f \in Fields :
    /\ sAt[f].boot <= boot /\ sAt[f].events <= events[f]
    /\ lastAt[f].boot <= boot /\ lastAt[f].events <= events[f]
    /\ sAt[f].boot # 0 => lastAt[f].events <= sAt[f].events

(* Within one life, the kernel's counter and the two readings differ by     *)
(* what happened between them.                                              *)
KernelCounts ==
  \A f \in Fields :
    /\ sAt[f].boot = boot => Counted(kernel[f], events[f], s[f], sAt[f].events)
    /\ lastAt[f].boot = boot => Counted(kernel[f], events[f], last[f], lastAt[f].events)
ReadingsCount ==
  \A f \in Fields :
    sAt[f].boot = lastAt[f].boot /\ sAt[f].boot # 0
      => Counted(s[f], sAt[f].events, last[f], lastAt[f].events)

ArcInv == ArcTypeOK /\ HistoryOK /\ ReadBefore /\ KernelCounts /\ ReadingsCount /\ RatesAreTrue

(* The initial states satisfy it.                                           *)
LEMMA ArcStarts == ArcInit => ArcInv
<1> SUFFICES ASSUME ArcInit PROVE ArcInv
  OBVIOUS
<1>1. MaxEvents \in Nat /\ MaxTicks \in Nat /\ MaxGlitches \in Nat /\ Len(Lines) \in Nat
  BY BoundsAssumption, LinesAssumption
<1>2. \A f \in Fields : ZeroStat[f] = 0
  BY DEF ZeroStat
<1>3. ArcTypeOK
  BY <1>1, <1>2, UintTyped, CountsAssumption DEF ArcInit, ArcTypeOK, ZeroStat
<1>4. HistoryOK
  BY DEF ArcInit, HistoryOK, Reads, Unread
<1>5. \A f \in Fields : sAt[f].boot = 0 /\ lastAt[f].boot = 0 /\ sAt[f].events = 0
                        /\ lastAt[f].events = 0 /\ events[f] = 0 /\ boot = 1 /\ truth[f] = Unknown
  BY <1>2 DEF ArcInit, Unread
<1> QED BY <1>3, <1>4, <1>5 DEF ArcInv, ReadBefore, KernelCounts, ReadingsCount, RatesAreTrue

(* Every step keeps the types.                                              *)
LEMMA ArcTypeStep == ASSUME ArcInv, [ArcNext]_arcVars PROVE ArcTypeOK'
<1>1. MaxEvents \in Nat /\ MaxTicks \in Nat /\ MaxGlitches \in Nat /\ Len(Lines) \in Nat
      /\ \A i \in 1 .. Len(Lines) : Lines[i] \in Fields
  BY BoundsAssumption, LinesAssumption DEF Fields
<1>2. ZeroStat \in [Fields -> Word]
  BY UintTyped DEF ZeroStat
<1> USE <1>1 DEF ArcInv, ArcTypeOK, kernelVars, tickVars, history
<1>3. ASSUME NEW f \in Fields, Event(f) PROVE ArcTypeOK'
  BY <1>3, UintTyped DEF Event
<1>4. CASE Reset
  BY <1>2, <1>4 DEF Reset
<1>5. CASE Tick \/ SkipLine \/ Panic \/ First
  BY <1>5 DEF Tick, SkipLine, Panic, First, Reading
<1>6. CASE ReadLine
  BY <1>6 DEF ReadLine, Reading
<1>7. CASE TakeTick
  BY <1>2, <1>7 DEF TakeTick
<1>8. CASE Show
  BY <1>8, UintTyped DEF Show
<1>9. CASE UNCHANGED arcVars
  BY <1>9 DEF arcVars
<1> QED BY <1>3, <1>4, <1>5, <1>6, <1>7, <1>8, <1>9 DEF ArcNext

(* A line that is read is one of those that count.                          *)
LEMMA LineRead ==
  ASSUME ArcInv, ReadLine
  PROVE  \E g \in Fields : /\ s' = [s EXCEPT ![g] = kernel[g]]
                           /\ sAt' = [sAt EXCEPT ![g] = [boot |-> boot, events |-> events[g]]]
<1>1. line \in 1 .. Len(Lines)
  BY LinesAssumption DEF ArcInv, ArcTypeOK, ReadLine
<1>2. Lines[line] \in Fields
  BY <1>1, LinesAssumption DEF Fields
<1> QED BY <1>2 DEF ReadLine

(* The history keeps its types and its order.                               *)
LEMMA HistoryStep ==
  ASSUME ArcInv, [ArcNext]_arcVars
  PROVE  HistoryOK' /\ ReadBefore'
<1>1. /\ boot \in Nat /\ boot # 0 /\ events \in [Fields -> Nat]
      /\ \A i \in 1 .. Len(Lines) : Lines[i] \in Fields
  BY BoundsAssumption, LinesAssumption DEF ArcInv, ArcTypeOK, Fields
<1> USE <1>1 DEF ArcInv, HistoryOK, ReadBefore, Reads, kernelVars, tickVars, history
<1>2. ASSUME NEW f \in Fields, Event(f) PROVE HistoryOK' /\ ReadBefore'
  BY <1>2 DEF Event
<1>3. CASE Reset
  BY <1>3 DEF Reset
<1>4. CASE Tick \/ SkipLine \/ Panic
  BY <1>4 DEF Tick, SkipLine, Panic
<1>5. CASE ReadLine
  <2>1. PICK f \in Fields : sAt' = [sAt EXCEPT ![f] = [boot |-> boot, events |-> events[f]]]
    BY <1>5, LineRead
  <2>2. UNCHANGED <<boot, events, lastAt, truth>>
    BY <1>5 DEF ReadLine
  <2> QED BY <2>1, <2>2
<1>6. CASE First
  BY <1>6 DEF First
<1>7. CASE TakeTick
  BY <1>7 DEF TakeTick, Unread
<1>8. CASE Show
  <2>1. UNCHANGED <<boot, events, sAt>> /\ lastAt' = sAt /\ truth' = [f \in Fields |-> Truth(f)]
    BY <1>8 DEF Show
  <2>2. \A f \in Fields : Truth(f) \in Nat \cup {Unknown}
    BY DEF Truth
  <2> QED BY <2>1, <2>2
<1>9. CASE UNCHANGED arcVars
  BY <1>9 DEF arcVars
<1> QED BY <1>2, <1>3, <1>4, <1>5, <1>6, <1>7, <1>8, <1>9 DEF ArcNext

(* The readings of this life keep up with the kernel.                       *)
LEMMA KernelStep ==
  ASSUME ArcInv, [ArcNext]_arcVars
  PROVE  KernelCounts'
<1>1. /\ boot \in Nat /\ boot # 0 /\ events \in [Fields -> Nat]
      /\ \A f \in Fields : kernel[f] \in Word /\ events[f] \in Nat
                           /\ s[f] \in Word /\ last[f] \in Word
                           /\ sAt[f].events \in Nat /\ lastAt[f].events \in Nat
                           /\ sAt[f].boot \in Nat /\ lastAt[f].boot \in Nat
      /\ \A i \in 1 .. Len(Lines) : Lines[i] \in Fields
  BY BoundsAssumption, LinesAssumption DEF ArcInv, ArcTypeOK, Fields, HistoryOK, Reads
<1> USE <1>1 DEF ArcInv, KernelCounts, kernelVars, tickVars, history
<1>2. ASSUME NEW g \in Fields, Event(g) PROVE KernelCounts'
  <2>1. /\ UNCHANGED <<boot, s, last, sAt, lastAt>>
        /\ kernel'[g] = AddU(kernel[g], 1) /\ events'[g] = events[g] + 1
        /\ \A f \in Fields : f # g => kernel'[f] = kernel[f] /\ events'[f] = events[f]
    BY <1>2 DEF Event, ArcTypeOK
  <2>2. ASSUME NEW f \in Fields
        PROVE  /\ sAt[f].boot = boot => Counted(kernel'[f], events'[f], s[f], sAt[f].events)
               /\ lastAt[f].boot = boot
                    => Counted(kernel'[f], events'[f], last[f], lastAt[f].events)
    <3>1. CASE f = g
      BY <2>1, <3>1, CountedOneMore
    <3>2. CASE f # g
      BY <2>1, <3>2
    <3> QED BY <3>1, <3>2
  <2> QED BY <2>1, <2>2
<1>3. CASE Reset
  BY <1>3 DEF Reset, ReadBefore
<1>4. CASE Tick \/ SkipLine \/ Panic
  BY <1>4 DEF Tick, SkipLine, Panic
<1>5. CASE ReadLine
  <2>1. PICK g \in Fields : /\ s' = [s EXCEPT ![g] = kernel[g]]
                            /\ sAt' = [sAt EXCEPT ![g] = [boot |-> boot, events |-> events[g]]]
    BY <1>5, LineRead
  <2>2. UNCHANGED <<kernel, events, boot, last, lastAt>>
    BY <1>5 DEF ReadLine
  <2>3. /\ s'[g] = kernel[g] /\ sAt'[g].events = events[g]
        /\ \A f \in Fields : f # g => s'[f] = s[f] /\ sAt'[f] = sAt[f]
    BY <2>1 DEF ArcTypeOK, HistoryOK
  <2>4. Counted(kernel[g], events[g], s'[g], sAt'[g].events)
    BY <2>3, CountedNothing
  <2> QED BY <2>2, <2>3, <2>4
<1>6. CASE First
  BY <1>6 DEF First
<1>7. CASE TakeTick
  BY <1>7 DEF TakeTick, Unread
<1>8. CASE Show
  BY <1>8 DEF Show
<1>9. CASE UNCHANGED arcVars
  BY <1>9 DEF arcVars
<1> QED BY <1>2, <1>3, <1>4, <1>5, <1>6, <1>7, <1>8, <1>9 DEF ArcNext

(* So do the two readings with one another.                                 *)
LEMMA ReadingsStep ==
  ASSUME ArcInv, [ArcNext]_arcVars
  PROVE  ReadingsCount'
<1>1. /\ boot \in Nat /\ boot # 0 /\ events \in [Fields -> Nat]
      /\ \A f \in Fields : kernel[f] \in Word /\ s[f] \in Word /\ last[f] \in Word
                           /\ sAt[f].events \in Nat /\ lastAt[f].events \in Nat
      /\ \A i \in 1 .. Len(Lines) : Lines[i] \in Fields
  BY BoundsAssumption, LinesAssumption DEF ArcInv, ArcTypeOK, Fields, HistoryOK, Reads
<1> USE <1>1 DEF ArcInv, ReadingsCount, kernelVars, tickVars, history
<1>2. ASSUME NEW g \in Fields, Event(g) PROVE ReadingsCount'
  BY <1>2 DEF Event
<1>3. CASE Reset \/ Tick \/ SkipLine \/ Panic
  BY <1>3 DEF Reset, Tick, SkipLine, Panic
<1>4. CASE ReadLine
  <2>1. PICK g \in Fields : /\ s' = [s EXCEPT ![g] = kernel[g]]
                            /\ sAt' = [sAt EXCEPT ![g] = [boot |-> boot, events |-> events[g]]]
    BY <1>4, LineRead
  <2>2. UNCHANGED <<last, lastAt>>
    BY <1>4 DEF ReadLine
  <2>3. /\ s'[g] = kernel[g] /\ sAt'[g].events = events[g] /\ sAt'[g].boot = boot
        /\ \A f \in Fields : f # g => s'[f] = s[f] /\ sAt'[f] = sAt[f]
    BY <2>1 DEF ArcTypeOK, HistoryOK
  <2>4. lastAt[g].boot = boot => Counted(kernel[g], events[g], last[g], lastAt[g].events)
    BY DEF KernelCounts
  <2> QED BY <2>2, <2>3, <2>4
<1>5. CASE First \/ Show
  <2>1. s' = s /\ sAt' = sAt /\ last' = s /\ lastAt' = sAt
    BY <1>5 DEF First, Show
  <2>2. \A f \in Fields : Counted(s[f], sAt[f].events, s[f], sAt[f].events)
    BY CountedNothing
  <2> QED BY <2>1, <2>2
<1>6. CASE TakeTick
  BY <1>6 DEF TakeTick, Unread
<1>7. CASE UNCHANGED arcVars
  BY <1>7 DEF arcVars
<1> QED BY <1>2, <1>3, <1>4, <1>5, <1>6, <1>7 DEF ArcNext

(* What is shown is what happened, modulo the width.                        *)
LEMMA RatesStep ==
  ASSUME ArcInv, [ArcNext]_arcVars
  PROVE  RatesAreTrue'
<1> USE DEF ArcInv, RatesAreTrue, kernelVars, tickVars, history
<1>1. ASSUME NEW g \in Fields, Event(g) PROVE RatesAreTrue'
  BY <1>1 DEF Event
<1>2. CASE Reset \/ Tick \/ ReadLine \/ SkipLine \/ Panic \/ First \/ TakeTick
  BY <1>2 DEF Reset, Tick, ReadLine, SkipLine, Panic, First, TakeTick
<1>3. CASE Show
  <2>1. ASSUME NEW f \in Fields, truth'[f] # Unknown
        PROVE  shown'[f] = truth'[f] % Modulus
    <3>1. shown'[f] = SubU(s[f], last[f]) /\ truth'[f] = Truth(f)
      BY <1>3 DEF Show
    <3>2. /\ sAt[f].boot = lastAt[f].boot /\ sAt[f].boot # 0
          /\ truth'[f] = sAt[f].events - lastAt[f].events
      BY <2>1, <3>1 DEF Truth
    <3>3. /\ s[f] \in Word /\ last[f] \in Word
          /\ sAt[f].events \in Nat /\ lastAt[f].events \in Nat
      BY DEF ArcTypeOK, HistoryOK, Reads
    <3> QED BY <3>1, <3>2, <3>3, CountedDifference DEF ReadingsCount
  <2> QED BY <2>1
<1>4. CASE UNCHANGED arcVars
  BY <1>4 DEF arcVars
<1> QED BY <1>1, <1>2, <1>3, <1>4 DEF ArcNext

(* Every reachable state satisfies the invariant.                           *)
LEMMA ArcInvariance == ArcSpec => []ArcInv
<1>1. ArcInv /\ [ArcNext]_arcVars => ArcInv'
  BY ArcTypeStep, HistoryStep, KernelStep, ReadingsStep, RatesStep DEF ArcInv
<1> QED BY <1>1, ArcStarts, PTL DEF ArcSpec

(* The counters stay words, and the ticker's channel holds one tick.        *)
THEOREM ArcTypes == ArcSpec => []ArcTypeOK
<1>1. ArcInv => ArcTypeOK
  BY DEF ArcInv
<1> QED BY <1>1, ArcInvariance, PTL

(* Whatever wraps, is dropped or is read badly, each difference shown is the*)
(* number of events between the two readings of its line, unless a line was *)
(* not read or the counter began anew.                                      *)
THEOREM ArcRatesAreTrue == ArcSpec => []RatesAreTrue
<1>1. ArcInv => RatesAreTrue
  BY DEF ArcInv
<1> QED BY <1>1, ArcInvariance, PTL

(* And the ratios made of them are ratios.                                  *)
THEOREM ArcRatiosAreRatios == ArcSpec => []RatiosAreRatios
<1>1. ASSUME ArcInv PROVE RatiosAreRatios
  <2>1. Modulus \in Nat /\ Modulus > 0
    BY ModulusAssumption
  <2>2. ASSUME NEW p \in Pairs PROVE Ratio(p)[2] > 0
    <3>1. CASE Requests(p) > 0
      BY <3>1 DEF Ratio
    <3>2. CASE ~(Requests(p) > 0)
      BY <3>2 DEF Ratio
    <3> QED BY <3>1, <3>2
  <2>3. ASSUME NEW p \in Pairs, p[1] \in Fields, p[2] \in Fields,
               truth[p[1]] # Unknown, truth[p[2]] # Unknown,
               truth[p[1]] + truth[p[2]] < Modulus
        PROVE  0 <= Ratio(p)[1] /\ Ratio(p)[1] <= Ratio(p)[2]
    <3>1. PICK h \in Nat, m \in Nat : h = truth[p[1]] /\ m = truth[p[2]]
      BY <1>1, <2>3 DEF ArcInv, HistoryOK
    <3>2. shown[p[1]] = h % Modulus /\ shown[p[2]] = m % Modulus
      BY <1>1, <2>3, <3>1 DEF ArcInv, RatesAreTrue
    <3>3. h + m < Modulus
      BY <2>3, <3>1
    <3>4. shown[p[1]] = h /\ shown[p[2]] = m
      BY <2>1, <3>1, <3>2, <3>3
    <3>5. Requests(p) = h + m
      BY <2>1, <3>3, <3>4 DEF Requests, AddU
    <3> QED BY <3>4, <3>5 DEF Ratio
  <2> QED BY <2>2, <2>3 DEF RatiosAreRatios
<1> QED BY <1>1, ArcInvariance, PTL
=============================================================================
