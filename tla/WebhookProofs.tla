---------------------------- MODULE WebhookProofs ---------------------------
(***************************************************************************)
(* What a webhook delivery achieves that meets no other one, for any set   *)
(* of deliveries, any requests and any number of commits and restarts.     *)
(***************************************************************************)
EXTENDS Webhook, TLAPS, SequenceTheorems

(* A handler that has not started its command has none.                     *)
NotStarted == \A d \in Delivery : pc[d] \in {"idle", "handle"} => cmd[d] = "none"

(* Nothing is newer than the origin.                                        *)
Behind ==
  /\ tree <= tip
  /\ \A i \in DOMAIN FETCH_HEAD : FETCH_HEAD[i] <= tip
  /\ \A d \in Delivery : fetched[d] <= tip /\ target[d] <= tip /\ announced[d] <= tip

(* The lock belongs to the reset that writes the tree.                      *)
LockOwned == \A d \in Delivery : cmd[d] = "locked" <=> lock = d

(* Alone means what it says.                                                *)
Lonely == \A d \in Delivery, e \in Delivery :
  alone[d] /\ cmd[d] \in Running /\ cmd[e] \in Running => d = e

(* What a command knows that has met no other one: its fetch was told of a  *)
(* commit newer than the announced one and the tree, and FETCH_HEAD is its  *)
(* own.                                                                     *)
Fetched(d) ==
  /\ cmd[d] \in {"refs", "truncated", "reset", "resolved", "locked", "ok"}
       => fetched[d] >= announced[d]
  /\ cmd[d] \in {"refs", "truncated", "reset", "resolved", "locked"} => fetched[d] >= tree
  /\ cmd[d] = "truncated" => FETCH_HEAD = <<>>
  /\ cmd[d] = "reset" => FETCH_HEAD = <<fetched[d]>>
  /\ cmd[d] \in {"resolved", "locked", "ok"} => target[d] = fetched[d]
  /\ cmd[d] = "noreset" => lock = Stale

AloneKnows == \A d \in Delivery : alone[d] => Fetched(d)

IInv == TypeOK /\ NotStarted /\ Behind /\ LockOwned /\ Lonely /\ AloneKnows

(* The initial state satisfies the inductive invariant.                     *)
LEMMA InitIInv == Init => IInv
<1> SUFFICES ASSUME Init PROVE IInv
  OBVIOUS
<1> USE DEF Init
<1>1. TypeOK
  BY BoundsAssumption DEF TypeOK, Commit, Running, Over
<1>2. Behind
  BY BoundsAssumption DEF Behind
<1>3. NotStarted /\ LockOwned
  BY LockAssumption DEF NotStarted, LockOwned
<1>4. Lonely /\ AloneKnows
  BY DEF Lonely, AloneKnows
<1> QED BY <1>1, <1>2, <1>3, <1>4 DEF IInv

(* Every step keeps the variables in their types.                           *)
LEMMA TypeStep == ASSUME IInv, [Next]_vars PROVE TypeOK'
<1> USE BoundsAssumption DEF IInv, TypeOK, Commit, conf, answers, local, gitVars, Elsewhere
<1>1. ASSUME Push PROVE TypeOK'
  BY <1>1 DEF Push
<1>2. ASSUME Restart PROVE TypeOK'
  <2>1. cmd' \in [Delivery -> {"none"} \cup Running \cup Over]
    BY <1>2 DEF Restart, Over
  <2>2. /\ waiter' \in [Delivery -> {"none", "handler", "goroutine", "done"}]
        /\ pc' \in [Delivery -> {"idle", "handle", "wait", "answered", "lost"}]
    BY <1>2 DEF Restart
  <2>3. \A d \in Delivery : waiter'[d] = "none" <=> cmd'[d] = "none"
    BY <1>2 DEF Restart, InRun, Running
  <2> QED BY <1>2, <2>1, <2>2, <2>3 DEF Restart
<1>3. ASSUME NEW d \in Delivery, Deliver(d) PROVE TypeOK'
  BY <1>3 DEF Deliver
<1>4. ASSUME NEW d \in Delivery, Refuse(d) \/ StartFails(d) PROVE TypeOK'
  <2>1. PICK code \in {200, 400, 403, 500} : Answer(d, code)
    BY <1>4 DEF Refuse, StartFails
  <2>2. UNCHANGED <<conf, restarts, req, waiter, cmd, local, gitVars, tip, announced, alone>>
    BY <1>4 DEF Refuse, StartFails
  <2> QED BY <2>1, <2>2 DEF Answer
<1>5. ASSUME NEW d \in Delivery, StartCmd(d) PROVE TypeOK'
  <2>1. /\ pc' \in [Delivery -> {"idle", "handle", "wait", "answered", "lost"}]
        /\ status' \in [Delivery -> {0, 200, 400, 403, 500}]
    <3>1. CASE pc' = [pc EXCEPT ![d] = "wait"] /\ UNCHANGED status
      BY <3>1
    <3>2. CASE Answer(d, 200)
      BY <3>2 DEF Answer
    <3> QED BY <1>5, <3>1, <3>2 DEF StartCmd
  <2>2. /\ cmd' \in [Delivery -> {"none"} \cup Running \cup Over]
        /\ waiter' \in [Delivery -> {"none", "handler", "goroutine", "done"}]
        /\ \A e \in Delivery : waiter'[e] = "none" <=> cmd'[e] = "none"
    BY <1>5 DEF StartCmd, Waiter, Running
  <2>3. alone' \in [Delivery -> BOOLEAN]
    BY <1>5 DEF StartCmd
  <2> QED BY <1>5, <2>1, <2>2, <2>3 DEF StartCmd
<1>6. ASSUME NEW d \in Delivery, Wait(d) PROVE TypeOK'
  <2>1. /\ pc' \in [Delivery -> {"idle", "handle", "wait", "answered", "lost"}]
        /\ status' \in [Delivery -> {0, 200, 400, 403, 500}]
    <3>1. CASE Answer(d, 200)
      BY <3>1 DEF Answer
    <3>2. CASE UNCHANGED answers
      BY <3>2
    <3> QED BY <1>6, <3>1, <3>2 DEF Wait
  <2> QED BY <1>6, <2>1 DEF Wait, Over
<1>7. ASSUME NEW d \in Delivery, Git(d) PROVE TypeOK'
  <2> USE DEF ToStep, Running, Over
  <2>1. CASE FetchRefs(d)       BY <2>1 DEF FetchRefs
  <2>2. CASE FetchTruncates(d)  BY <2>2 DEF FetchTruncates
  <2>3. CASE FetchEnds(d)       BY <2>3 DEF FetchEnds
  <2>4. CASE FetchFails(d)      BY <2>4 DEF FetchFails
  <2>5. CASE ResetResolves(d)   BY <2>5 DEF ResetResolves
  <2>6. CASE ResetLocks(d)      BY <2>6 DEF ResetLocks
  <2>7. CASE ResetFails(d)
    <3>1. \E from \in {"reset", "resolved"} : ToStep(d, from, "noreset")
      BY <2>7 DEF ResetFails
    <3> QED BY <2>7, <3>1 DEF ResetFails
  <2>8. CASE ResetWrites(d)     BY <2>8 DEF ResetWrites
  <2> QED BY <1>7, <2>1, <2>2, <2>3, <2>4, <2>5, <2>6, <2>7, <2>8 DEF Git
<1>8. ASSUME UNCHANGED vars PROVE TypeOK'
  BY <1>8 DEF vars
<1> QED BY <1>1, <1>2, <1>3, <1>4, <1>5, <1>6, <1>7, <1>8 DEF Next, Handler

(* A handler that leaves everything to others: no command is touched.       *)
LEMMA AnswerStep ==
  ASSUME IInv, NEW d \in Delivery, Refuse(d) \/ StartFails(d) \/ Wait(d)
  PROVE  /\ UNCHANGED <<cmd, local, gitVars, tip, announced, alone>>
         /\ \A e \in Delivery : pc'[e] = pc[e] \/ pc'[e] = "answered"
<1>1. UNCHANGED <<cmd, local, gitVars, tip, announced, alone>>
  BY DEF Refuse, StartFails, Wait
<1>2. (\E code \in {200, 400, 403, 500} : Answer(d, code)) \/ UNCHANGED answers
  BY DEF Refuse, StartFails, Wait
<1> QED BY <1>1, <1>2 DEF Answer, answers, IInv, TypeOK

(* A step of git takes its command from one place to another.               *)
LEMMA GitStep ==
  ASSUME IInv, NEW d \in Delivery, Git(d)
  PROVE  /\ UNCHANGED <<pc, tip, announced, alone>> /\ cmd[d] \in Running
         /\ cmd'[d] \in Running \cup Over /\ \A e \in Delivery \ {d} : cmd'[e] = cmd[e]
<1>1. \E from \in Running, to \in Running \cup Over : ToStep(d, from, to)
  BY DEF Git, FetchRefs, FetchTruncates, FetchEnds, FetchFails, ResetResolves, ResetLocks,
         ResetFails, ResetWrites, Running, Over, ToStep
<1>2. UNCHANGED <<pc, tip, announced, alone>>
  BY DEF Git, FetchRefs, FetchTruncates, FetchEnds, FetchFails, ResetResolves, ResetLocks,
         ResetFails, ResetWrites, Elsewhere, answers
<1> QED BY <1>1, <1>2 DEF ToStep, IInv, TypeOK

(* A command starts in a handler, and a handler that has started it goes on.*)
LEMMA NotStartedStep == ASSUME IInv, [Next]_vars PROVE NotStarted'
<1> USE DEF IInv, NotStarted
<1>1. ASSUME Push \/ UNCHANGED vars PROVE NotStarted'
  BY <1>1 DEF Push, vars, answers
<1>2. ASSUME Restart PROVE NotStarted'
  BY <1>2 DEF Restart, InRun, Running, TypeOK
<1>3. ASSUME NEW d \in Delivery, Deliver(d) PROVE NotStarted'
  BY <1>3 DEF Deliver, TypeOK
<1>4. ASSUME NEW d \in Delivery, Handler(d) PROVE NotStarted'
  <2>1. CASE StartCmd(d)
    <3>1. pc'[d] \notin {"idle", "handle"} /\ \A e \in Delivery \ {d} : pc'[e] = pc[e]
      <4>1. CASE pc' = [pc EXCEPT ![d] = "wait"]  BY <4>1 DEF TypeOK
      <4>2. CASE Answer(d, 200)                   BY <4>2 DEF Answer, TypeOK
      <4> QED BY <2>1, <4>1, <4>2 DEF StartCmd
    <3> QED BY <2>1, <3>1 DEF StartCmd, TypeOK
  <2>2. CASE Refuse(d) \/ StartFails(d) \/ Wait(d)
    BY <2>2, AnswerStep
  <2> QED BY <1>4, <2>1, <2>2 DEF Handler
<1>5. ASSUME NEW d \in Delivery, Git(d) PROVE NotStarted'
  BY <1>5, GitStep DEF Running
<1> QED BY <1>1, <1>2, <1>3, <1>4, <1>5 DEF Next

(* No step brings anything newer than the origin.                           *)
LEMMA BehindStep == ASSUME IInv, [Next]_vars PROVE Behind'
<1> USE BoundsAssumption DEF IInv, Behind, TypeOK, Commit
<1>1. ASSUME Push PROVE Behind'
  BY <1>1 DEF Push, local, gitVars
<1>2. ASSUME Restart \/ UNCHANGED vars PROVE Behind'
  BY <1>2 DEF Restart, local, vars, gitVars
<1>3. ASSUME NEW d \in Delivery, Deliver(d) PROVE Behind'
  BY <1>3 DEF Deliver, local, gitVars
<1>4. ASSUME NEW d \in Delivery, Handler(d) PROVE Behind'
  <2>1. CASE StartCmd(d)
    BY <2>1 DEF StartCmd, local, gitVars
  <2>2. CASE Refuse(d) \/ StartFails(d) \/ Wait(d)
    BY <2>2, AnswerStep DEF local, gitVars
  <2> QED BY <1>4, <2>1, <2>2 DEF Handler
<1>5. ASSUME NEW d \in Delivery, Git(d) PROVE Behind'
  <2> USE DEF Elsewhere, local, gitVars
  <2>1. CASE FetchRefs(d)       BY <2>1 DEF FetchRefs
  <2>2. CASE FetchTruncates(d)  BY <2>2 DEF FetchTruncates
  <2>3. CASE FetchEnds(d)       BY <2>3 DEF FetchEnds
  <2>4. CASE FetchFails(d)      BY <2>4 DEF FetchFails
  <2>5. CASE ResetResolves(d)   BY <2>5 DEF ResetResolves
  <2>6. CASE ResetLocks(d)      BY <2>6 DEF ResetLocks
  <2>7. CASE ResetFails(d)      BY <2>7 DEF ResetFails
  <2>8. CASE ResetWrites(d)     BY <2>8 DEF ResetWrites
  <2> QED BY <1>5, <2>1, <2>2, <2>3, <2>4, <2>5, <2>6, <2>7, <2>8 DEF Git
<1> QED BY <1>1, <1>2, <1>3, <1>4, <1>5 DEF Next

(* index.lock is held by one command at most, and given back.               *)
LEMMA LockStep == ASSUME IInv, [Next]_vars PROVE LockOwned'
<1> USE LockAssumption DEF IInv, LockOwned, TypeOK
<1>1. ASSUME Push \/ UNCHANGED vars PROVE LockOwned'
  BY <1>1 DEF Push, vars, gitVars
<1>2. ASSUME Restart PROVE LockOwned'
  BY <1>2 DEF Restart, InRun, Running
<1>3. ASSUME NEW d \in Delivery, Deliver(d) PROVE LockOwned'
  BY <1>3 DEF Deliver, gitVars
<1>4. ASSUME NEW d \in Delivery, Handler(d) PROVE LockOwned'
  <2>1. CASE StartCmd(d)
    BY <2>1 DEF StartCmd, gitVars, NotStarted
  <2>2. CASE Refuse(d) \/ StartFails(d) \/ Wait(d)
    BY <2>2, AnswerStep DEF gitVars
  <2> QED BY <1>4, <2>1, <2>2 DEF Handler
<1>5. ASSUME NEW d \in Delivery, Git(d) PROVE LockOwned'
  <2> USE DEF ToStep, gitVars
  <2>1. CASE FetchRefs(d)       BY <2>1 DEF FetchRefs
  <2>2. CASE FetchTruncates(d)  BY <2>2 DEF FetchTruncates
  <2>3. CASE FetchEnds(d)       BY <2>3 DEF FetchEnds
  <2>4. CASE FetchFails(d)      BY <2>4 DEF FetchFails
  <2>5. CASE ResetResolves(d)   BY <2>5 DEF ResetResolves
  <2>6. CASE ResetLocks(d)      BY <2>6 DEF ResetLocks
  <2>7. CASE ResetFails(d)      BY <2>7 DEF ResetFails
  <2>8. CASE ResetWrites(d)     BY <2>8 DEF ResetWrites
  <2> QED BY <1>5, <2>1, <2>2, <2>3, <2>4, <2>5, <2>6, <2>7, <2>8 DEF Git
<1> QED BY <1>1, <1>2, <1>3, <1>4, <1>5 DEF Next

(* Who was alone meets a new command, or is a new one, and then it is not.  *)
LEMMA LonelyStep == ASSUME IInv, [Next]_vars PROVE Lonely'
<1> USE DEF IInv, Lonely, TypeOK
<1>1. ASSUME Push \/ UNCHANGED vars PROVE Lonely'
  BY <1>1 DEF Push, vars
<1>2. ASSUME Restart PROVE Lonely'
  BY <1>2 DEF Restart, InRun, Running
<1>3. ASSUME NEW d \in Delivery, Deliver(d) PROVE Lonely'
  BY <1>3 DEF Deliver
<1>4. ASSUME NEW d \in Delivery, Handler(d) PROVE Lonely'
  <2>1. CASE StartCmd(d)
    <3>1. \A e \in Delivery : alone'[e] = IF e = d THEN InRun = {} ELSE alone[e] /\ e \notin InRun
      BY <2>1 DEF StartCmd
    <3>2. cmd'[d] = "fetch" /\ \A e \in Delivery \ {d} : cmd'[e] = cmd[e]
      BY <2>1 DEF StartCmd
    <3> QED BY <3>1, <3>2 DEF InRun
  <2>2. CASE Refuse(d) \/ StartFails(d) \/ Wait(d)
    BY <2>2, AnswerStep
  <2> QED BY <1>4, <2>1, <2>2 DEF Handler
<1>5. ASSUME NEW d \in Delivery, Git(d) PROVE Lonely'
  BY <1>5, GitStep
<1> QED BY <1>1, <1>2, <1>3, <1>4, <1>5 DEF Next

(* A step of git changes nothing that a command which is over knows, and a  *)
(* stale lock stays.                                                        *)
LEMMA GitLeaves ==
  ASSUME IInv, NEW d \in Delivery, Git(d)
  PROVE  /\ \A e \in Delivery \ {d} : fetched'[e] = fetched[e] /\ target'[e] = target[e]
         /\ lock = Stale => lock' = Stale
<1> USE LockAssumption DEF IInv, TypeOK, local, gitVars, Elsewhere
<1>1. CASE FetchRefs(d)       BY <1>1 DEF FetchRefs
<1>2. CASE FetchTruncates(d)  BY <1>2 DEF FetchTruncates
<1>3. CASE FetchEnds(d)       BY <1>3 DEF FetchEnds
<1>4. CASE FetchFails(d)      BY <1>4 DEF FetchFails
<1>5. CASE ResetResolves(d)   BY <1>5 DEF ResetResolves
<1>6. CASE ResetLocks(d)      BY <1>6 DEF ResetLocks
<1>7. CASE ResetFails(d)      BY <1>7 DEF ResetFails
<1>8. CASE ResetWrites(d)     BY <1>8 DEF ResetWrites, ToStep, LockOwned
<1> QED BY <1>1, <1>2, <1>3, <1>4, <1>5, <1>6, <1>7, <1>8 DEF Git

(* A command that meets no other one learns, step by step, what Fetched says.*)
LEMMA OwnStep ==
  ASSUME IInv, NEW d \in Delivery, alone[d], Git(d)
  PROVE  Fetched(d)'
<1> USE BoundsAssumption, LockAssumption
    DEF IInv, TypeOK, Commit, local, gitVars, Elsewhere, ToStep, AloneKnows, Fetched, Behind
<1>1. CASE FetchRefs(d)       BY <1>1 DEF FetchRefs
<1>2. CASE FetchTruncates(d)  BY <1>2 DEF FetchTruncates
<1>3. CASE FetchEnds(d)
  <2>1. Append(<<>>, fetched[d]) = <<fetched[d]>>
    OBVIOUS
  <2>2. cmd[d] = "truncated" /\ FETCH_HEAD = <<>>
    BY <1>3 DEF FetchEnds
  <2>3. cmd'[d] = "reset" /\ FETCH_HEAD' = <<fetched[d]>>
    BY <1>3, <2>1, <2>2 DEF FetchEnds
  <2>4. UNCHANGED <<fetched, target, announced, tree>>
    BY <1>3 DEF FetchEnds
  <2> QED BY <2>2, <2>3, <2>4
<1>4. CASE FetchFails(d)      BY <1>4 DEF FetchFails
<1>5. CASE ResetResolves(d)   BY <1>5 DEF ResetResolves
<1>6. CASE ResetLocks(d)      BY <1>6 DEF ResetLocks
<1>7. CASE ResetFails(d)
  <2>1. CASE FETCH_HEAD = <<>> /\ cmd[d] = "reset"
    BY <2>1
  <2>2. CASE lock # Free /\ cmd[d] = "resolved" /\ ToStep(d, "resolved", "noreset")
    <3>1. lock \notin Delivery
      BY <2>2 DEF LockOwned, Lonely, Running
    <3> QED BY <1>7, <2>2, <3>1 DEF ResetFails
  <2> QED BY <1>7, <2>1, <2>2 DEF ResetFails
<1>8. CASE ResetWrites(d)     BY <1>8 DEF ResetWrites
<1> QED BY <1>1, <1>2, <1>3, <1>4, <1>5, <1>6, <1>7, <1>8 DEF Git

(* What lonely commands know stays true.                                    *)
LEMMA AloneStep == ASSUME IInv, [Next]_vars PROVE AloneKnows'
<1> USE DEF IInv, AloneKnows
<1>1. ASSUME Push \/ UNCHANGED vars PROVE AloneKnows'
  BY <1>1 DEF Push, vars, local, gitVars, Fetched
<1>2. ASSUME Restart PROVE AloneKnows'
  BY <1>2, LockAssumption DEF Restart, InRun, Running, local, Fetched, TypeOK
<1>3. ASSUME NEW d \in Delivery, Deliver(d) PROVE AloneKnows'
  <2>1. cmd[d] = "none"
    BY <1>3 DEF Deliver, NotStarted
  <2> QED BY <1>3, <2>1 DEF Deliver, local, gitVars, Fetched, TypeOK
<1>4. ASSUME NEW d \in Delivery, Handler(d) PROVE AloneKnows'
  <2>1. CASE StartCmd(d)
    <3>1. \A e \in Delivery \ {d} : alone'[e] => alone[e]
      BY <2>1 DEF StartCmd
    <3>2. cmd'[d] = "fetch" /\ \A e \in Delivery \ {d} : cmd'[e] = cmd[e]
      BY <2>1 DEF StartCmd, TypeOK
    <3>3. UNCHANGED <<local, gitVars, announced>>
      BY <2>1 DEF StartCmd
    <3> QED BY <3>1, <3>2, <3>3 DEF local, gitVars, Fetched
  <2>2. CASE Refuse(d) \/ StartFails(d) \/ Wait(d)
    BY <2>2, AnswerStep DEF local, gitVars, Fetched
  <2> QED BY <1>4, <2>1, <2>2 DEF Handler
<1>5. ASSUME NEW d \in Delivery, Git(d) PROVE AloneKnows'
  <2>1. UNCHANGED <<announced, alone>> /\ cmd[d] \in Running
        /\ \A e \in Delivery \ {d} : cmd'[e] = cmd[e]
    BY <1>5, GitStep
  <2>2. ASSUME NEW e \in Delivery \ {d}, alone[e] PROVE Fetched(e)'
    <3>1. cmd[e] \notin Running
      BY <2>1, <2>2 DEF Lonely
    <3> QED BY <1>5, <2>1, <2>2, <3>1, GitLeaves DEF Fetched, Running
  <2>3. alone[d] => Fetched(d)'
    BY <1>5, OwnStep
  <2> QED BY <2>1, <2>2, <2>3
<1> QED BY <1>1, <1>2, <1>3, <1>4, <1>5 DEF Next

(* The invariant holds in every reachable state.                            *)
THEOREM WebhookInvariant == Spec => []IInv
<1>1. ASSUME IInv, [Next]_vars PROVE IInv'
  BY <1>1, TypeStep, NotStartedStep, BehindStep, LockStep, LonelyStep, AloneStep DEF IInv
<1> QED BY <1>1, InitIInv, PTL DEF Spec

(* The types, and that nobody waits for a command that was not started and  *)
(* somebody waits for, or has reaped, every command that was.               *)
THEOREM WebhookTypes == Spec => []TypeOK
<1>1. IInv => TypeOK
  BY DEF IInv
<1> QED BY <1>1, WebhookInvariant, PTL

(* A delivery whose command met no other one brings the tree to the commit  *)
(* it was sent for, or a newer one, if the command succeeds.                *)
THEOREM WebhookAloneDeploys == Spec => []AloneDeploys
<1>1. IInv => AloneDeploys
  BY DEF IInv, AloneKnows, Fetched, AloneDeploys
<1> QED BY <1>1, WebhookInvariant, PTL

(* What was fetched is deployed, unless commands overlapped or the lock of a *)
(* killed git is in the way.                                                 *)
THEOREM WebhookResetFailsForAReason == Spec => []ResetFailsForAReason
<1>1. IInv => ResetFailsForAReason
  BY DEF IInv, AloneKnows, Fetched, ResetFailsForAReason
<1> QED BY <1>1, WebhookInvariant, PTL

(* The tree goes back to an older commit only if commands overlapped: the    *)
(* one that takes it back has met another one.                               *)
THEOREM WebhookBackwardsOnlyInOverlap == Spec => BackwardsOnlyInOverlap
<1> DEFINE Overlap == \E d \in Delivery : ~alone[d] /\ cmd[d] = "locked" /\ cmd'[d] = "ok"
<1>1. ASSUME IInv, [Next]_vars, tree' < tree PROVE Overlap
  <2>1. tree' # tree
    BY <1>1 DEF IInv, TypeOK, Commit
  <2>2. PICK d \in Delivery : ResetWrites(d)
    BY <1>1, <2>1, AnswerStep
    DEF Next, Push, Restart, Deliver, Handler, StartCmd, Git, FetchRefs, FetchTruncates,
        FetchEnds, FetchFails, ResetResolves, ResetLocks, ResetFails, vars, gitVars
  <2>3. cmd[d] = "locked" /\ cmd'[d] = "ok" /\ tree' = target[d]
    BY <1>1, <2>2 DEF ResetWrites, ToStep, IInv, TypeOK
  <2>4. ~alone[d]
    BY <1>1, <2>3 DEF IInv, AloneKnows, Fetched, TypeOK, Commit
  <2> QED BY <2>3, <2>4
<1>2. IInv /\ [Next]_vars => [tree' < tree => Overlap]_vars
  BY <1>1
<1> QED BY <1>2, WebhookInvariant, PTL DEF Spec, BackwardsOnlyInOverlap

-----------------------------------------------------------------------------
(* What Decode consumes of a body whose object ends, and what is left.      *)
LEMMA SeenOf ==
  ASSUME NEW r \in Request, Decodes(r.body)
  PROVE  /\ Seen(r.body).ref = r.body.ref
         /\ Seen(r.body) = r.body \/ r.body.chunks[Len(r.body.chunks)] = "trail"
<1> DEFINE c == r.body.chunks
<1>1. /\ r.body = [ref |-> r.body.ref, chunks |-> c]
      /\ c \in Seq({"part", "end", "junk", "trail"}) /\ DOMAIN c = 1 .. Len(c) /\ Len(c) \in Nat
      /\ \A i \in 1 .. Len(c), j \in 1 .. Len(c) : i < j /\ c[i] = "end" => c[j] = "trail"
  BY RequestAssumption
<1>2. PICK stop \in Stops(r.body) : c[stop] = "end" /\ \A j \in Stops(r.body) : stop <= j
  BY DEF Decodes
<1>3. stop \in 1 .. Len(c) /\ \A i \in Stops(r.body) : i \in 1 .. Len(c)
  BY <1>1, <1>2 DEF Stops
<1>4. stop = CHOOSE i \in Stops(r.body) : \A j \in Stops(r.body) : i <= j
  <2>1. \A i \in Stops(r.body) : (\A j \in Stops(r.body) : i <= j) => i = stop
    BY <1>2, <1>3
  <2> QED BY <1>2, <2>1, Zenon
<1>5. Seen(r.body) = [r.body EXCEPT !.chunks = SubSeq(@, 1, stop)]
  BY <1>2, <1>4, Zenon DEF Seen
<1>6. Seen(r.body) = [ref |-> r.body.ref, chunks |-> SubSeq(c, 1, stop)]
  BY <1>1, <1>5
<1>7. CASE stop = Len(c)
  <2>1. SubSeq(c, 1, Len(c)) = c
    BY <1>1, SubSeqProperties, SeqEqual
  <2> QED BY <1>1, <1>6, <1>7, <2>1
<1>8. CASE stop # Len(c)
  <2>1. c[Len(c)] = "trail"
    BY <1>1, <1>2, <1>3, <1>8
  <2> QED BY <1>6, <2>1
<1> QED BY <1>7, <1>8

(* Requests do not change, commands are started for accepted ones only, and *)
(* only those are turned away that are forbidden or make no sense.          *)
Judged ==
  /\ req \in [Delivery -> Request]
  /\ \A d \in Delivery : cmd[d] # "none" => Accepted(req[d])
  /\ \A d \in Delivery : status[d] \in {400, 403} => Forbidden(req[d]) \/ BadRequest(req[d])

(* A step changes a verdict only by reading what the verdict is about.      *)
LEMMA JudgedStep ==
  ASSUME IInv, Judged, [Next]_vars
  PROVE  Judged'
<1>1. /\ req' = req /\ secret' = secret /\ req \in [Delivery -> Request]
      /\ status \in [Delivery -> {0, 200, 400, 403, 500}]
      /\ cmd \in [Delivery -> {"none"} \cup Running \cup Over]
  BY DEF IInv, TypeOK, Next, Push, Restart, Deliver, Handler, Refuse, StartCmd, StartFails, Wait, Git,
         FetchRefs, FetchTruncates, FetchEnds, FetchFails, ResetResolves, ResetLocks, ResetFails,
         ResetWrites, Elsewhere, conf, vars
<1>2. \A r : (Accepted(r)' <=> Accepted(r)) /\ (Forbidden(r)' <=> Forbidden(r))
           /\ (BadRequest(r)' <=> BadRequest(r))
  BY <1>1 DEF Accepted, Forbidden, BadRequest
<1>3. \A d \in Delivery : cmd'[d] # "none" => cmd[d] # "none" \/ Accepted(req[d])
  <2>1. ASSUME NEW d \in Delivery, StartCmd(d)
        PROVE  \A e \in Delivery : cmd'[e] # "none" => cmd[e] # "none" \/ Accepted(req[e])
    BY <1>1, <2>1 DEF StartCmd
  <2>2. ASSUME NEW d \in Delivery, Git(d)
        PROVE  \A e \in Delivery : cmd'[e] # "none" => cmd[e] # "none" \/ Accepted(req[e])
    BY <2>2, GitStep DEF Running
  <2>3. CASE Restart
    BY <2>3 DEF Restart, InRun, Running
  <2>4. CASE UNCHANGED cmd
    BY <2>4
  <2> QED BY <2>1, <2>2, <2>3, <2>4 DEF Next, Push, Deliver, Handler, Refuse, StartFails, Wait, vars
<1>4. \A d \in Delivery : status'[d] \in {400, 403} =>
        status[d] \in {400, 403} \/ Forbidden(req[d]) \/ BadRequest(req[d])
  <2>1. ASSUME NEW d \in Delivery, Refuse(d)
        PROVE  \A e \in Delivery : status'[e] \in {400, 403} =>
                 status[e] \in {400, 403} \/ Forbidden(req[e]) \/ BadRequest(req[e])
    BY <1>1, <2>1 DEF Refuse, Answer
  <2>2. ASSUME NEW d \in Delivery, NEW code \in {200, 500}, Answer(d, code)
        PROVE  \A e \in Delivery : status'[e] \in {400, 403} => status[e] \in {400, 403}
    BY <1>1, <2>2 DEF Answer
  <2>3. CASE UNCHANGED status
    BY <2>3
  <2> QED BY <2>1, <2>2, <2>3 DEF Next, Push, Restart, Deliver, Handler, StartCmd, StartFails, Wait,
             Git, FetchRefs, FetchTruncates, FetchEnds, FetchFails, ResetResolves, ResetLocks,
             ResetFails, ResetWrites, Elsewhere, answers, vars
<1> QED BY <1>1, <1>2, <1>3, <1>4 DEF Judged

(* Every reachable state satisfies both invariants.                         *)
LEMMA WebhookJudges == Spec => []Judged
<1>1. Init => Judged
  BY DEF Init, Judged
<1>2. IInv /\ Judged /\ [Next]_vars => Judged'
  BY JudgedStep
<1> QED BY <1>1, <1>2, WebhookInvariant, PTL DEF Spec

(* With a secret, a command runs only for a ref that the holder of the      *)
(* secret signed, however the body was cut into reads.                      *)
THEOREM WebhookRefIsSigned == Spec => []RefIsSigned
<1>1. Judged => RefIsSigned
  <2> SUFFICES ASSUME Judged, NEW d \in Delivery, secret, cmd[d] # "none"
               PROVE  req[d].sig = "hex" /\ req[d].signed.ref = Branch
    BY DEF RefIsSigned
  <2>1. req[d] \in Request /\ Accepted(req[d])
    BY DEF Judged
  <2> QED BY <2>1, SeenOf DEF Accepted, Forbidden
<1> QED BY <1>1, WebhookJudges, PTL

(* A delivery that is signed is turned away only for what follows its       *)
(* object in reads that Decode does not make.                               *)
THEOREM WebhookSignedIsServed == Spec => []SignedIsServed
<1>1. Judged => SignedIsServed
  <2> SUFFICES ASSUME Judged, NEW d \in Delivery, req[d].post, req[d].sig = "hex",
                      req[d].signed = req[d].body, Decodes(req[d].body), status[d] \in {400, 403}
               PROVE  req[d].body.chunks[Len(req[d].body.chunks)] = "trail"
    BY DEF SignedIsServed
  <2>1. req[d] \in Request /\ (Forbidden(req[d]) \/ BadRequest(req[d]))
    BY DEF Judged
  <2> QED BY <2>1, SeenOf DEF Forbidden, BadRequest
<1> QED BY <1>1, WebhookJudges, PTL
=============================================================================
