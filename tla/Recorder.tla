------------------------------ MODULE Recorder ------------------------------
(***************************************************************************)
(* The Recorder of ctmon/main.go shared by any number of goroutines: its   *)
(* mutex, the map, and Record, Reset, Dump and DumpAndReset one memory     *)
(* access at a time.                                                       *)
(***************************************************************************)
EXTENDS Acct

CONSTANTS Caller,       \* the goroutines
          NoCaller,     \* the mutex is free
          Amounts       \* what one line can add: both directions together

ASSUME CallerAssumption == NoCaller \notin Caller
ASSUME AmountsAssumption == Amounts \subseteq AcctData

VARIABLES mu,           \* who holds r.mu
          data,         \* r.data
          pc,           \* where each goroutine is
          op,           \* the method it is in
          key, amount,  \* the line it records
          read,         \* Record's local `data`
          items,        \* the slice collect builds, as a map
          accepted, logged, lost   \* history: the books of Ledger

acctVars == <<accepted, logged, lost>>
locals == <<key, amount, read, items>>
vars == <<mu, data, pc, op, locals, acctVars>>

Ops == {"Record", "Reset", "Dump", "DumpAndReset"}
Labels == {"idle", "lock", "read", "write", "collect", "reset", "unlock", "print"}
Holding == {"read", "write", "collect", "reset", "unlock"}

\* The first statement of each method after r.mu.Lock().
Entry(o) == CASE o = "Record" -> "read" [] o = "Reset" -> "reset"
              [] o \in {"Dump", "DumpAndReset"} -> "collect"

Pending == [k \in Prefix |-> At(data, k)]
L == INSTANCE Ledger WITH pending <- Pending

Init ==
  /\ mu = NoCaller /\ data = EmptyMap              \* main calls Reset first
  /\ pc = [c \in Caller |-> "idle"] /\ op = [c \in Caller |-> "Record"]
  /\ key \in [Caller -> Prefix] /\ amount \in [Caller -> Amounts]
  /\ read = [c \in Caller |-> Zero] /\ items = [c \in Caller |-> EmptyMap]
  /\ accepted = L!NoTraffic /\ logged = L!NoTraffic /\ lost = L!NoTraffic

Goto(c, label) == pc' = [pc EXCEPT ![c] = label]

Call(c, o, k, a) ==
  /\ pc[c] = "idle" /\ Goto(c, "lock")
  /\ op' = [op EXCEPT ![c] = o]
  /\ o # "Record" => k = key[c] /\ a = amount[c]    \* the others take no line
  /\ key' = [key EXCEPT ![c] = k] /\ amount' = [amount EXCEPT ![c] = a]
  /\ UNCHANGED <<mu, data, read, items, acctVars>>

\* Faulty variant: nobody waits for the mutex.
Lock_NoWait(c) ==
  /\ pc[c] = "lock" /\ mu' = c /\ Goto(c, Entry(op[c]))
  /\ UNCHANGED <<data, op, locals, acctVars>>

\* r.mu.Lock()
Lock(c) ==
  /\ pc[c] = "lock" /\ mu = NoCaller
  /\ mu' = c /\ Goto(c, Entry(op[c]))
  /\ UNCHANGED <<data, op, locals, acctVars>>

\* data := r.data[key]
RecordRead(c) ==
  /\ pc[c] = "read" /\ Goto(c, "write")
  /\ read' = [read EXCEPT ![c] = At(data, key[c])]
  /\ UNCHANGED <<mu, data, op, key, amount, items, acctVars>>

\* data.Packets += ...; data.Bytes += ...; r.data[key] = data
RecordWrite(c) ==
  /\ pc[c] = "write" /\ Goto(c, "unlock")
  /\ data' = Put(data, key[c], Plus(read[c], amount[c]))
  /\ accepted' = [accepted EXCEPT ![key[c]] = Plus(@, amount[c])]
  /\ read' = [read EXCEPT ![c] = Zero]
  /\ UNCHANGED <<mu, op, key, amount, items, logged, lost>>

\* One turn of `for k, v := range r.data`: any key not seen yet.
CollectItem(c, k) ==
  /\ pc[c] = "collect" /\ k \in DOMAIN data \ DOMAIN items[c]
  /\ items' = [items EXCEPT ![c] = Put(@, k, data[k])]
  /\ UNCHANGED <<mu, data, pc, op, key, amount, read, acctVars>>

\* Faulty variant: DumpAndReset unlocks between collect and reset.
CollectEnd_Unlocks(c) ==
  /\ pc[c] = "collect" /\ DOMAIN data \subseteq DOMAIN items[c]
  /\ Goto(c, IF op[c] = "DumpAndReset" THEN "reset" ELSE "unlock")
  /\ mu' = IF op[c] = "DumpAndReset" THEN NoCaller ELSE mu
  /\ UNCHANGED <<data, op, locals, acctVars>>

\* The loop ends when every key of the map has been seen.
CollectEnd(c) ==
  /\ pc[c] = "collect" /\ DOMAIN data \subseteq DOMAIN items[c]
  /\ Goto(c, IF op[c] = "DumpAndReset" THEN "reset" ELSE "unlock")
  /\ UNCHANGED <<mu, data, op, locals, acctVars>>

\* Faulty variant: DumpAndReset dumps and does not reset.
ResetData_Keeps(c) ==
  /\ pc[c] = "reset" /\ Goto(c, "unlock")
  /\ data' = IF op[c] = "Reset" THEN EmptyMap ELSE data
  /\ IF op[c] = "DumpAndReset"
     THEN /\ logged' = [k \in Prefix |-> Plus(logged[k], At(items[c], k))]
          /\ UNCHANGED lost
     ELSE /\ lost' = [k \in Prefix |-> Plus(lost[k], At(data, k))]
          /\ UNCHANGED logged
  /\ UNCHANGED <<mu, op, locals, accepted>>

\* r.data = make(...).  The books: DumpAndReset will log what it has collected,
\* Reset discards what is there.
ResetData(c) ==
  /\ pc[c] = "reset" /\ Goto(c, "unlock")
  /\ data' = EmptyMap
  /\ IF op[c] = "DumpAndReset"
     THEN /\ logged' = [k \in Prefix |-> Plus(logged[k], At(items[c], k))]
          /\ UNCHANGED lost
     ELSE /\ lost' = [k \in Prefix |-> Plus(lost[k], At(data, k))]
          /\ UNCHANGED logged
  /\ UNCHANGED <<mu, op, locals, accepted>>

\* Faulty variant: Dump returns with the mutex locked.
Unlock_NotInDump(c) ==
  /\ pc[c] = "unlock" /\ mu # NoCaller
  /\ mu' = IF op[c] = "Dump" THEN mu ELSE NoCaller
  /\ Goto(c, IF op[c] \in {"Dump", "DumpAndReset"} THEN "print" ELSE "idle")
  /\ UNCHANGED <<data, op, locals, acctVars>>

\* Go's Unlock fails on a free mutex and does not ask who locked it.
Unlock(c) ==
  /\ pc[c] = "unlock" /\ mu # NoCaller /\ mu' = NoCaller
  /\ Goto(c, IF op[c] \in {"Dump", "DumpAndReset"} THEN "print" ELSE "idle")
  /\ UNCHANGED <<data, op, locals, acctVars>>

\* dumpItems(w, items), outside the lock; the locals end with the call.
DumpItems(c) ==
  /\ pc[c] = "print" /\ Goto(c, "idle")
  /\ items' = [items EXCEPT ![c] = EmptyMap]
  /\ UNCHANGED <<mu, data, op, key, amount, read, acctVars>>

Body(c) == \/ RecordRead(c) \/ RecordWrite(c) \/ CollectEnd(c) \/ ResetData(c) \/ Unlock(c)
           \/ DumpItems(c) \/ \E k \in Prefix : CollectItem(c, k)

Next == \E c \in Caller :
          \/ \E o \in Ops, k \in Prefix, a \in Amounts : Call(c, o, k, a)
          \/ Lock(c) \/ Body(c)

Spec == Init /\ [][Next]_vars

\* A goroutine that can run does, and sync.Mutex hands the lock to a goroutine
\* that has waited for a millisecond (starvation mode): no waiter is passed over
\* for ever.  Nobody has to call a method.
Fairness == \A c \in Caller : WF_vars(Body(c)) /\ SF_vars(Lock(c))
FairSpec == Spec /\ Fairness
-----------------------------------------------------------------------------
TypeOK ==
  /\ mu \in Caller \cup {NoCaller} /\ data \in DataMap
  /\ pc \in [Caller -> Labels] /\ op \in [Caller -> Ops]
  /\ key \in [Caller -> Prefix] /\ amount \in [Caller -> Amounts]
  /\ read \in [Caller -> AcctData] /\ items \in [Caller -> DataMap]
  /\ accepted \in L!Totals /\ logged \in L!Totals /\ lost \in L!Totals

\* Between Lock and Unlock a goroutine is alone: r.mu guards every access.
MutualExclusion == \A c \in Caller : pc[c] \in Holding <=> mu = c

\* What Dump and DumpAndReset are about to print, and what DumpAndReset is about
\* to forget, is the whole map as it stood at one instant: no line recorded while
\* they copy it is half seen, and none is reset without having been collected.
DumpIsSnapshot ==
  \A c \in Caller :
    \/ pc[c] = "reset" /\ op[c] = "DumpAndReset"
    \/ pc[c] = "unlock" /\ op[c] = "Dump"
    => items[c] = data

\* However the goroutines interleave, the four methods together behave as the
\* ledger: each line is counted once in the map, then in one dump or one reset.
ImplementsLedger == L!LedgerSpec

\* Every call returns: no method leaves the mutex locked or waits for another.
CallsReturn == \A c \in Caller : pc[c] = "lock" ~> pc[c] = "idle"
=============================================================================
