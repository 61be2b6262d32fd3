------------------------------- MODULE MCNames ------------------------------
(* Names with three adjacent kinds of names: the generator's, names that   *)
(* contain them, and others.                                               *)
EXTENDS Names, TLC

CONSTANTS c1, c2

ZenTuring == <<"zen", "_", "turing">>
MCUserNames ==
  {ZenTuring, <<"boring", "_", "wozniak">>, ZenTuring \o <<"7">>,
   <<"my", "_">> \o ZenTuring, <<"my", "-">> \o ZenTuring, <<"turing", "_", "zen">>}
MCId == [c \in Containers |-> IF c = c1 THEN <<"7", "my">> ELSE <<"7", "my", "7">>]
=============================================================================
