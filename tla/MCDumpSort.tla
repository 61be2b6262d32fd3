----------------------------- MODULE MCDumpSort -----------------------------
(* DumpSort on blocks of up to three items, in every order.                 *)
EXTENDS DumpSort
=============================================================================
