------------------------------- MODULE MCCtmon ------------------------------
(* Ctmon with two sources, hours of two minutes and words of two bits.    *)
EXTENDS Ctmon

p == [fam |-> "v4", net |-> 1, host |-> 1]
q == [fam |-> "v6", net |-> 1, host |-> 1]
mapped == [fam |-> "4in6", net |-> 1, host |-> 2]    \* ::ffff:a.b.c.d of p's /24
MCAddr == {p, q, mapped}
MCPrefix == {KeyOf(a) : a \in MCAddr}

Word1(k, v) == [key |-> k, val |-> v]
Flow(src, dst, port, n) ==
  <<Word1("[DESTROY]", 0), Word1("src", src), Word1("dst", dst), Word1("sport", 7),
    Word1("dport", port), Word1("packets", 1), Word1("bytes", 1),
    Word1("src", dst), Word1("dst", src), Word1("sport", port), Word1("dport", 7),
    Word1("packets", n), Word1("bytes", n)>>

\* A flow of an unknown protocol is printed without its addresses.
Unknown == <<Word1("[DESTROY]", 0), Word1("packets", 1), Word1("bytes", 1)>>

MCLines == {Flow(p, q, 80, 2), Flow(mapped, q, 443, 1), Flow(p, q, 22, 2), Unknown}
MCTails == {SubSeq(Flow(p, q, 80, 1), 1, 1), SubSeq(Flow(p, q, 80, 1), 1, 7),
            <<Word1("[DESTROY]", 0), Word1("src", Bad)>>, Flow(q, p, 80, 1)}
MCTokens == UNION {{l[i] : i \in DOMAIN l} : l \in MCLines \cup MCTails}
=============================================================================
