------------------------------ MODULE MCWorker ------------------------------
(* Worker with pipes for two commands and one line, and two runs.           *)
EXTENDS Worker

CONSTANTS v, w, cut

MCVal == {v, w, cut}
L(h, n, x) == [head |-> h, fields |-> n, val |-> x]
Prompt == L("ipmitool>", 1, Bad)
Comment == L("#", 6, Bad)
MCReplies == {<<Prompt, L("data", 6, v), L("data", 2, Bad)>>,
              <<Comment, L("data", 1, Bad), L("data", 6, w)>>}
MCCuts == {L("data", 6, cut), L("data", 1, Bad)}
=============================================================================
