--------------------------- MODULE LedgerTheorems ---------------------------
(***************************************************************************)
(* The books of ctmon balance in every behaviour of Ledger.                *)
(***************************************************************************)
EXTENDS Ledger, AcctTheorems

(* The type of the four tables and their balance are preserved by every     *)
(* step of the ledger.                                                      *)
LEMMA LedgerStep ==
  ASSUME LedgerTypeOK, Conserved, [LedgerNext]_ledgerVars
  PROVE  LedgerTypeOK' /\ Conserved'
<1> USE DEF LedgerTypeOK, Totals
<1>1. Zero \in AcctData /\ \A x, y \in AcctData : Plus(x, y) \in AcctData
  BY PlusLaws, EmptyLaws
<1>2. ASSUME NEW k \in Prefix, NEW a \in AcctData, Accept(k, a)
      PROVE  LedgerTypeOK' /\ Conserved'
  <2>1. LedgerTypeOK'
    BY <1>1, <1>2 DEF Accept
  <2>2. ASSUME NEW j \in Prefix
        PROVE  accepted'[j] = Plus(Plus(pending'[j], logged'[j]), lost'[j])
    <3>1. CASE j # k
      BY <1>2, <3>1 DEF Accept, Conserved
    <3>2. CASE j = k
      <4> DEFINE p == pending[k]  g == logged[k]  o == lost[k]
      <4>1. p \in AcctData /\ g \in AcctData /\ o \in AcctData
        OBVIOUS
      <4>2. Plus(Plus(Plus(p, g), o), a) = Plus(Plus(Plus(p, a), g), o)
        <5>1. \A x, y, z \in AcctData : Plus(Plus(x, y), z) = Plus(Plus(x, z), y)
          BY PlusSwaps
        <5>2. Plus(p, g) \in AcctData
          BY <1>1, <4>1
        <5>3. Plus(Plus(Plus(p, g), o), a) = Plus(Plus(Plus(p, g), a), o)
          BY ONLY <4>1, <5>1, <5>2, a \in AcctData
        <5>4. Plus(Plus(p, g), a) = Plus(Plus(p, a), g)
          BY ONLY <4>1, <5>1, a \in AcctData
        <5> QED BY <5>3, <5>4
      <4>3. accepted'[k] = Plus(accepted[k], a) /\ pending'[k] = Plus(p, a)
            /\ logged'[k] = g /\ lost'[k] = o
        BY <1>2 DEF Accept
      <4>4. accepted[k] = Plus(Plus(p, g), o)
        BY DEF Conserved
      <4> QED BY <3>2, <4>2, <4>3, <4>4
    <3> QED BY <3>1, <3>2
  <2> QED BY <2>1, <2>2 DEF Conserved
<1>3. ASSUME NEW S \in SUBSET Prefix, Log(S)
      PROVE  LedgerTypeOK' /\ Conserved'
  <2>1. LedgerTypeOK'
    BY <1>1, <1>3 DEF Log, Into, Without
  <2>2. ASSUME NEW j \in Prefix
        PROVE  accepted'[j] = Plus(Plus(pending'[j], logged'[j]), lost'[j])
    <3>1. CASE j \notin S
      BY <1>3, <3>1 DEF Log, Into, Without, Conserved
    <3>2. CASE j \in S
      <4>1. /\ accepted'[j] = accepted[j] /\ lost'[j] = lost[j]
            /\ pending'[j] = Zero /\ logged'[j] = Plus(logged[j], pending[j])
        BY <1>3, <3>2 DEF Log, Into, Without
      <4>2. Plus(Plus(Zero, Plus(logged[j], pending[j])), lost[j])
              = Plus(Plus(pending[j], logged[j]), lost[j])
        BY PlusSwaps
      <4> QED BY <4>1, <4>2 DEF Conserved
    <3> QED BY <3>1, <3>2
  <2> QED BY <2>1, <2>2 DEF Conserved
<1>4. ASSUME NEW S \in SUBSET Prefix, Lose(S)
      PROVE  LedgerTypeOK' /\ Conserved'
  <2>1. LedgerTypeOK'
    BY <1>1, <1>4 DEF Lose, Into, Without
  <2>2. ASSUME NEW j \in Prefix
        PROVE  accepted'[j] = Plus(Plus(pending'[j], logged'[j]), lost'[j])
    <3>1. CASE j \notin S
      BY <1>4, <3>1 DEF Lose, Into, Without, Conserved
    <3>2. CASE j \in S
      <4>1. /\ accepted'[j] = accepted[j] /\ logged'[j] = logged[j]
            /\ pending'[j] = Zero /\ lost'[j] = Plus(lost[j], pending[j])
        BY <1>4, <3>2 DEF Lose, Into, Without
      <4>2. Plus(Plus(Zero, logged[j]), Plus(lost[j], pending[j]))
              = Plus(Plus(pending[j], logged[j]), lost[j])
        BY PlusSwaps
      <4> QED BY <4>1, <4>2 DEF Conserved
    <3> QED BY <3>1, <3>2
  <2> QED BY <2>1, <2>2 DEF Conserved
<1>5. CASE UNCHANGED ledgerVars
  BY <1>5 DEF ledgerVars, Conserved
<1> QED BY <1>2, <1>3, <1>4, <1>5 DEF LedgerNext

(* In the initial state nothing is accounted anywhere.                      *)
LEMMA LedgerStart == LedgerInit => LedgerTypeOK /\ Conserved
<1>1. Zero \in AcctData /\ Plus(Plus(Zero, Zero), Zero) = Zero
  BY EmptyLaws, PlusLaws
<1> QED BY <1>1 DEF LedgerInit, LedgerTypeOK, Conserved, Totals, NoTraffic

(* Each accepted byte and packet is pending, logged or lost, in one of the  *)
(* three only: what every implementation of Ledger inherits, for any set of *)
(* prefixes and any width of the counters.                                  *)
THEOREM LedgerConserves == LedgerSpec => [](LedgerTypeOK /\ Conserved)
<1>1. LedgerInit => LedgerTypeOK /\ Conserved
  BY LedgerStart
<1>2. LedgerTypeOK /\ Conserved /\ [LedgerNext]_ledgerVars => LedgerTypeOK' /\ Conserved'
  BY LedgerStep
<1> QED BY <1>1, <1>2, PTL DEF LedgerSpec
=============================================================================
