----------------------------- MODULE MCRecorder -----------------------------
(* Recorder with two goroutines.  Words of Modulus 2 wrap at the second line. *)
EXTENDS Recorder

MCAmounts == {[Packets |-> 1, Bytes |-> 1]}
=============================================================================
