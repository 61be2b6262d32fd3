------------------------------- MODULE MCParse ------------------------------
(* CTParse on every line of up to MaxTokens words over a small vocabulary.   *)
EXTENDS CTParse

MCAddr == {[fam |-> "v4", net |-> 1, host |-> 1], [fam |-> "v6", net |-> 2, host |-> 1]}

MCTokens ==
  {[key |-> "src", val |-> a] : a \in MCAddr \cup {Bad}}
    \cup {[key |-> "dst", val |-> [fam |-> "v4", net |-> 1, host |-> 1]]}
    \cup {[key |-> "sport", val |-> v] : v \in {7, Bad}}
    \cup {[key |-> "dport", val |-> v] : v \in {22, 80}}
    \cup {[key |-> "packets", val |-> v] : v \in {1, 3}}
    \cup {[key |-> "bytes", val |-> v] : v \in {2, Bad}}
    \cup {[key |-> "mark", val |-> 0]}

MCPrefix == {KeyOf(a) : a \in MCAddr}
=============================================================================
