------------------------------- MODULE Webhook ------------------------------
(***************************************************************************)
(* The webhook server: HandleGitPull, which net/http runs in a goroutine   *)
(* per delivery, and the shell command it starts,                          *)
(*    git fetch origin BRANCH && git reset --hard FETCH_HEAD               *)
(* All commands work in one directory.  git and the origin are external;   *)
(* commits are numbered in the order in which they were pushed.            *)
(***************************************************************************)
EXTENDS Naturals, Sequences

CONSTANTS Delivery,     \* the requests the server gets
          Request,      \* what a request can look like
          Branch,       \* "refs/heads/" and the branch to deploy
          Free, Stale,  \* index.lock: there is none; its owner was killed
          MaxCommit, MaxRestarts        \* bounds

ASSUME BoundsAssumption == MaxCommit \in Nat /\ MaxRestarts \in Nat
ASSUME LockAssumption == {Free, Stale} \cap Delivery = {} /\ Free # Stale

VARIABLES secret,       \* whether WEBHOOK_SECRET is set
          waitCmd,      \* the flag -w
          restarts,
          req,          \* per delivery: the request
          pc,           \* per delivery: where its handler is
          status,       \* per delivery: the answer's status, 0 before there is one
          waiter,       \* per delivery: who calls cmd.Wait, or "done"
          cmd,          \* per delivery: where its shell command is
          fetched,      \* per delivery: the commit its fetch was told of
          target,       \* per delivery: the commit its reset goes to
          FETCH_HEAD,   \* the file, a commit per line
          lock,         \* index.lock: Free, Stale, or its owner
          tree,         \* the commit of the work tree
          tip,          \* the branch at the origin
          announced,    \* history: the origin's tip when the delivery came
          alone         \* history: no other command ran while this one did

conf == <<secret, waitCmd>>
answers == <<pc, status>>
gitVars == <<FETCH_HEAD, lock, tree>>
local == <<fetched, target>>
vars == <<conf, restarts, req, answers, waiter, cmd, local, gitVars, tip, announced, alone>>

Commit == 0 .. MaxCommit
Running == {"fetch", "refs", "truncated", "reset", "resolved", "locked"}
Over == {"nofetch", "noreset", "ok", "killed"}
InRun == {d \in Delivery : cmd[d] \in Running}

\* A body is [ref, chunks]: the ref its JSON object names, and what each Read of
\* the connection yields: "part" of the object, its "end", "junk" that is not
\* JSON, or a "trail": whatever follows the object.
ASSUME RequestAssumption ==
  \A r \in Request :
    /\ r.body = [ref |-> r.body.ref, chunks |-> r.body.chunks]
    /\ r.body.chunks \in Seq({"part", "end", "junk", "trail"})
    /\ \A i \in DOMAIN r.body.chunks, j \in DOMAIN r.body.chunks :
         i < j /\ r.body.chunks[i] = "end" => r.body.chunks[j] = "trail"

Stops(body) == {i \in DOMAIN body.chunks : body.chunks[i] # "part"}

\* What Decode consumes: it reads until the object ends, or cannot go on.
Seen_Less(body) ==
  [body EXCEPT !.chunks = SelectSeq(@, LAMBDA c : c = "part")]

Seen(body) ==
  IF Stops(body) = {} THEN body
  ELSE LET stop == CHOOSE i \in Stops(body) : \A j \in Stops(body) : i <= j
       IN [body EXCEPT !.chunks = SubSeq(@, 1, stop)]

Decodes(body) ==
  \E i \in Stops(body) : body.chunks[i] = "end" /\ \A j \in Stops(body) : i <= j

\* Faulty variant: the signature is not compared.
Forbidden_Trusting(r) == ~r.post \/ (secret /\ r.sig # "hex")

\* The answers 403.  The MAC covers what Decode has read through the TeeReader.
Forbidden(r) ==
  \/ ~r.post
  \/ secret /\ r.sig # "hex"
  \/ secret /\ Decodes(r.body) /\ r.signed # Seen(r.body)

BadRequest(r) == ~Forbidden(r) /\ ~Decodes(r.body)
Ignored(r) == ~Forbidden(r) /\ Decodes(r.body) /\ r.body.ref # Branch

Init ==
  /\ secret \in BOOLEAN /\ waitCmd \in BOOLEAN /\ restarts = 0
  /\ req \in [Delivery -> Request] /\ pc = [d \in Delivery |-> "idle"]
  /\ status = [d \in Delivery |-> 0] /\ waiter = [d \in Delivery |-> "none"]
  /\ cmd = [d \in Delivery |-> "none"]
  /\ fetched = [d \in Delivery |-> 0] /\ target = [d \in Delivery |-> 0]
  /\ FETCH_HEAD = <<>> /\ lock = Free /\ tree = 0 /\ tip = 0
  /\ announced = [d \in Delivery |-> 0] /\ alone = [d \in Delivery |-> FALSE]

Push ==
  /\ tip < MaxCommit /\ tip' = tip + 1
  /\ UNCHANGED <<conf, restarts, req, answers, waiter, cmd, local, gitVars, announced, alone>>

Deliver(d) ==
  /\ pc[d] = "idle" /\ pc' = [pc EXCEPT ![d] = "handle"]
  /\ announced' = [announced EXCEPT ![d] = tip]
  /\ UNCHANGED <<conf, restarts, req, status, waiter, cmd, local, gitVars, tip, alone>>

Answer(d, code) ==
  /\ pc' = [pc EXCEPT ![d] = "answered"] /\ status' = [status EXCEPT ![d] = code]

\* HandleGitPull up to the command.
Refuse(d) ==
  /\ pc[d] = "handle"
  /\ \/ Forbidden(req[d]) /\ Answer(d, 403)
     \/ BadRequest(req[d]) /\ Answer(d, 400)
     \/ Ignored(req[d]) /\ Answer(d, 200)
  /\ UNCHANGED <<conf, restarts, req, waiter, cmd, local, gitVars, tip, announced, alone>>

Accepted(r) == ~Forbidden(r) /\ Decodes(r.body) /\ r.body.ref = Branch

\* Faulty variant: without -w nobody waits for the command.
Waiter_Nobody == IF waitCmd THEN "handler" ELSE "none"

\* With -w the handler waits for the command, otherwise a goroutine does.
Waiter == IF waitCmd THEN "handler" ELSE "goroutine"

\* cmd.Start(): without -w the handler answers at once.
StartCmd(d) ==
  /\ pc[d] = "handle" /\ Accepted(req[d])
  /\ cmd' = [cmd EXCEPT ![d] = "fetch"] /\ waiter' = [waiter EXCEPT ![d] = Waiter]
  /\ IF waitCmd THEN pc' = [pc EXCEPT ![d] = "wait"] /\ UNCHANGED status
     ELSE Answer(d, 200)
  /\ alone' = [e \in Delivery |-> IF e = d THEN InRun = {} ELSE alone[e] /\ e \notin InRun]
  /\ UNCHANGED <<conf, restarts, req, local, gitVars, tip, announced>>

\* Faulty variant: the return after the error is missing.
StartFails_GoesOn(d) ==
  /\ pc[d] = "handle" /\ Accepted(req[d]) /\ Answer(d, 500)
  /\ waiter' = [waiter EXCEPT ![d] = Waiter]
  /\ UNCHANGED <<conf, restarts, req, cmd, local, gitVars, tip, announced, alone>>

StartFails(d) ==
  /\ pc[d] = "handle" /\ Accepted(req[d]) /\ Answer(d, 500)
  /\ UNCHANGED <<conf, restarts, req, waiter, cmd, local, gitVars, tip, announced, alone>>

\* cmd.Wait() returns when the shell has ended; its error is only logged.
Wait(d) ==
  /\ waiter[d] \in {"handler", "goroutine"} /\ cmd[d] \in Over
  /\ waiter' = [waiter EXCEPT ![d] = "done"]
  /\ IF waiter[d] = "handler" THEN Answer(d, 200) ELSE UNCHANGED answers
  /\ UNCHANGED <<conf, restarts, req, cmd, local, gitVars, tip, announced, alone>>

ToStep(d, from, to) == cmd[d] = from /\ cmd' = [cmd EXCEPT ![d] = to]
Elsewhere == <<conf, restarts, req, answers, waiter, tip, announced, alone>>

\* git fetch asks the origin for the branch,
FetchRefs(d) ==
  /\ ToStep(d, "fetch", "refs") /\ fetched' = [fetched EXCEPT ![d] = tip]
  /\ UNCHANGED <<Elsewhere, target, gitVars>>

\* Faulty variant: `git fetch --append`.
FetchTruncates_Not(d) == ToStep(d, "refs", "truncated") /\ UNCHANGED <<Elsewhere, local, gitVars>>

\* empties FETCH_HEAD,
FetchTruncates(d) ==
  /\ ToStep(d, "refs", "truncated") /\ FETCH_HEAD' = <<>>
  /\ UNCHANGED <<Elsewhere, local, lock, tree>>

\* and, having got the commits, adds its line; && starts the reset.
FetchEnds(d) ==
  /\ ToStep(d, "truncated", "reset") /\ FETCH_HEAD' = Append(FETCH_HEAD, fetched[d])
  /\ UNCHANGED <<Elsewhere, local, lock, tree>>

\* Faulty variant: `;` instead of &&.
FetchFails_GoesOn(d) ==
  /\ \E from \in {"fetch", "refs", "truncated"} : ToStep(d, from, "reset")
  /\ UNCHANGED <<Elsewhere, local, gitVars>>

\* A fetch that fails, at any point, ends the command.
FetchFails(d) ==
  /\ \E from \in {"fetch", "refs", "truncated"} : ToStep(d, from, "nofetch")
  /\ UNCHANGED <<Elsewhere, local, gitVars>>

\* git reset takes the first line of FETCH_HEAD,
ResetResolves(d) ==
  /\ FETCH_HEAD # <<>> /\ ToStep(d, "reset", "resolved")
  /\ target' = [target EXCEPT ![d] = Head(FETCH_HEAD)]
  /\ UNCHANGED <<Elsewhere, fetched, gitVars>>

ResetLocks(d) ==
  /\ lock = Free /\ ToStep(d, "resolved", "locked") /\ lock' = d
  /\ UNCHANGED <<Elsewhere, local, FETCH_HEAD, tree>>

\* and fails if there is none, or if index.lock exists.
ResetFails(d) ==
  /\ \/ FETCH_HEAD = <<>> /\ ToStep(d, "reset", "noreset")
     \/ lock # Free /\ ToStep(d, "resolved", "noreset")
  /\ UNCHANGED <<Elsewhere, local, gitVars>>

ResetWrites(d) ==
  /\ ToStep(d, "locked", "ok") /\ tree' = target[d] /\ lock' = Free
  /\ UNCHANGED <<Elsewhere, local, FETCH_HEAD>>

\* The server is stopped or dies, and systemd starts it again.  It kills what the
\* unit has left running; git removes its lock if it is given the time.
Restart ==
  /\ restarts < MaxRestarts /\ restarts' = restarts + 1
  /\ cmd' = [d \in Delivery |-> IF d \in InRun THEN "killed" ELSE cmd[d]]
  /\ waiter' = [d \in Delivery |-> IF cmd[d] = "none" THEN "none" ELSE "done"]
  /\ pc' = [d \in Delivery |-> IF pc[d] \in {"handle", "wait"} THEN "lost" ELSE pc[d]]
  /\ lock' \in IF lock \in Delivery THEN {Free, Stale} ELSE {lock}
  /\ UNCHANGED <<conf, req, status, local, FETCH_HEAD, tree, tip, announced, alone>>

Handler(d) == Refuse(d) \/ StartCmd(d) \/ StartFails(d) \/ Wait(d)
Git(d) == \/ FetchRefs(d) \/ FetchTruncates(d) \/ FetchEnds(d) \/ FetchFails(d)
          \/ ResetResolves(d) \/ ResetLocks(d) \/ ResetFails(d) \/ ResetWrites(d)

Next == Push \/ Restart \/ \E d \in Delivery : Deliver(d) \/ Handler(d) \/ Git(d)

Spec == Init /\ [][Next]_vars

\* Goroutines run, and git comes to an end; there is no timeout for it.
FairSpec == Spec /\ \A d \in Delivery : WF_vars(Handler(d)) /\ WF_vars(Git(d))
-----------------------------------------------------------------------------
TypeOK ==
  /\ secret \in BOOLEAN /\ waitCmd \in BOOLEAN /\ restarts \in 0 .. MaxRestarts
  /\ req \in [Delivery -> Request]
  /\ pc \in [Delivery -> {"idle", "handle", "wait", "answered", "lost"}]
  /\ status \in [Delivery -> {0, 200, 400, 403, 500}]
  /\ waiter \in [Delivery -> {"none", "handler", "goroutine", "done"}]
  /\ cmd \in [Delivery -> {"none"} \cup Running \cup Over]
  /\ \A d \in Delivery : waiter[d] = "none" <=> cmd[d] = "none"
  /\ fetched \in [Delivery -> Commit] /\ target \in [Delivery -> Commit]
  /\ FETCH_HEAD \in Seq(Commit) /\ lock \in {Free, Stale} \cup Delivery
  /\ tree \in Commit /\ tip \in Commit
  /\ announced \in [Delivery -> Commit] /\ alone \in [Delivery -> BOOLEAN]

\* A delivery whose command met no other one brings the tree to the commit it was
\* sent for, or to a newer one, if the command succeeds.
AloneDeploys == \A d \in Delivery : alone[d] /\ cmd[d] = "ok" => target[d] >= announced[d]

\* The tree goes back to an older commit only if commands overlapped.
BackwardsOnlyInOverlap ==
  [][tree' < tree => \E d \in Delivery : ~alone[d] /\ cmd[d] = "locked" /\ cmd'[d] = "ok"]_vars

\* What was fetched is deployed, unless commands overlapped or the lock of a killed
\* git is in the way, and that one stays for ever.
ResetFailsForAReason ==
  \A d \in Delivery : cmd[d] = "noreset" => ~alone[d] \/ lock = Stale

\* With a secret, commands run only for a ref that the holder of the secret signed.
RefIsSigned ==
  \A d \in Delivery : secret /\ cmd[d] # "none" =>
    req[d].sig = "hex" /\ req[d].signed.ref = Branch

\* A signed delivery is turned away only when something follows its JSON object that
\* Decode does not get to see, and the MAC therefore does not cover.
SignedIsServed ==
  \A d \in Delivery :
    /\ req[d].post /\ req[d].sig = "hex" /\ req[d].signed = req[d].body
    /\ Decodes(req[d].body) /\ status[d] \in {400, 403}
    => req[d].body.chunks[Len(req[d].body.chunks)] = "trail"

\* Every delivery is answered and its command reaped, or lost in a restart (init
\* reaps the command then).
AnsweredAndReaped ==
  \A d \in Delivery :
    pc[d] = "handle" ~> /\ pc[d] \in {"answered", "lost"}
                        /\ cmd[d] = "none" \/ waiter[d] = "done"
=============================================================================
