------------------------------ MODULE MCWebhook -----------------------------
(* Requests for Webhook: all that matter, or those that run git.          *)
EXTENDS Webhook

LOCAL INSTANCE TLC

AnyOrder == Permutations(Delivery)

Body(r, c) == [ref |-> r, chunks |-> c]
Signed(b) == [post |-> TRUE, sig |-> "hex", signed |-> b, body |-> b]

genuine == Signed(Body("deploy", <<"part", "end">>))
trailed == Signed(Body("deploy", <<"part", "end", "trail">>))

PushRequest == {genuine}
AnyRequest ==
  {genuine, trailed, Signed(Body("deploy", <<"part">>)),
   Signed(Body("deploy", <<"junk">>)), Signed(Body("other", <<"end">>)),
   [genuine EXCEPT !.signed.ref = "other"], [genuine EXCEPT !.sig = "none"],
   [genuine EXCEPT !.sig = "nothex"], [genuine EXCEPT !.post = FALSE]}
=============================================================================
