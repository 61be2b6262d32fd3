------------------------------- MODULE Uint64 -------------------------------
(***************************************************************************)
(* The arithmetic of the programs' counters, which are of type uint64.     *)
(***************************************************************************)
EXTENDS Integers

CONSTANT Modulus        \* 2^64 in the programs

ASSUME ModulusAssumption == Modulus \in Nat \ {0}

Word == 0 .. Modulus - 1

\* Sums and differences wrap.
AddU(a, b) == (a + b) % Modulus
SubU(a, b) == (a - b) % Modulus
=============================================================================
