------------------------------- MODULE Ledger -------------------------------
(***************************************************************************)
(* What ctmon's accounting promises, whatever the interleaving: each       *)
(* accepted amount of traffic is pending, logged or lost, never two of     *)
(* these, and it is lost only by a step that says so.  Recorder and Ctmon  *)
(* implement this specification.                                           *)
(***************************************************************************)
EXTENDS Acct

VARIABLES accepted,     \* per prefix: the traffic taken into accounting
          pending,      \* per prefix: what is still only in memory
          logged,       \* per prefix: what has been handed to the log
          lost          \* per prefix: what was discarded

ledgerVars == <<accepted, pending, logged, lost>>

Totals == [Prefix -> AcctData]
NoTraffic == [k \in Prefix |-> Zero]

\* Amounts from one table moved into another, for the prefixes in S.
Into(to, from, S) == [k \in Prefix |-> IF k \in S THEN Plus(to[k], from[k]) ELSE to[k]]
Without(from, S)  == [k \in Prefix |-> IF k \in S THEN Zero ELSE from[k]]

LedgerInit == /\ accepted = NoTraffic /\ pending = NoTraffic
              /\ logged = NoTraffic /\ lost = NoTraffic

Accept(k, a) ==
  /\ accepted' = [accepted EXCEPT ![k] = Plus(@, a)]
  /\ pending' = [pending EXCEPT ![k] = Plus(@, a)]
  /\ UNCHANGED <<logged, lost>>

Log(S) ==
  /\ logged' = Into(logged, pending, S)
  /\ pending' = Without(pending, S)
  /\ UNCHANGED <<accepted, lost>>

Lose(S) ==
  /\ lost' = Into(lost, pending, S)
  /\ pending' = Without(pending, S)
  /\ UNCHANGED <<accepted, logged>>

LedgerNext ==
  \/ \E k \in Prefix, a \in AcctData : Accept(k, a)
  \/ \E S \in SUBSET Prefix : Log(S) \/ Lose(S)

LedgerSpec == LedgerInit /\ [][LedgerNext]_ledgerVars
-----------------------------------------------------------------------------
LedgerTypeOK == accepted \in Totals /\ pending \in Totals /\ logged \in Totals /\ lost \in Totals

\* Nothing is counted twice and nothing disappears (modulo 2^64, as uint64 adds).
Conserved ==
  \A k \in Prefix : accepted[k] = Plus(Plus(pending[k], logged[k]), lost[k])
=============================================================================
