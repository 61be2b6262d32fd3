-------------------------------- MODULE Relay -------------------------------
(***************************************************************************)
(* What a monitor's worker promises for each run of its child process:     *)
(* every reading the child prints becomes one point, in the order they     *)
(* were printed, before the next run begins.                               *)
(***************************************************************************)
EXTENDS Naturals, Sequences

CONSTANT Val            \* the readings

VARIABLES run,          \* how many runs there have been
          inflight,     \* readings of this run that are not points yet
          sent          \* the points of this run

relayVars == <<run, inflight, sent>>

RelayInit == run = 0 /\ inflight = <<>> /\ sent = <<>>

Emit(v) ==
  /\ inflight' = Append(inflight, v)
  /\ UNCHANGED <<run, sent>>

Deliver ==
  /\ inflight # <<>>
  /\ sent' = Append(sent, Head(inflight))
  /\ inflight' = Tail(inflight)
  /\ UNCHANGED run

NewRun ==
  /\ inflight = <<>> /\ sent' = <<>>
  /\ run' = run + 1
  /\ UNCHANGED inflight

RelayNext == Deliver \/ NewRun \/ \E v \in Val : Emit(v)

RelaySpec == RelayInit /\ [][RelayNext]_relayVars
=============================================================================
