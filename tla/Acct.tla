-------------------------------- MODULE Acct --------------------------------
(***************************************************************************)
(* The counters of ctmon/main.go: AcctData, the uint64 additions made on   *)
(* it, and the Go map that holds one AcctData per source prefix.           *)
(***************************************************************************)
EXTENDS Uint64

CONSTANT Prefix         \* the netip.Prefix values that can be map keys

AcctData == [Packets : Word, Bytes : Word]

Zero == [Packets |-> 0, Bytes |-> 0]

\* Faulty variant: the totals are kept as int64, not as uint64.
Plus_Signed(x, y) ==
  LET Signed(w) == IF 2 * w < Modulus THEN w ELSE w - Modulus
  IN [Packets |-> Signed(AddU(x.Packets, y.Packets)),
      Bytes   |-> Signed(AddU(x.Bytes, y.Bytes))]

Plus(x, y) == [Packets |-> AddU(x.Packets, y.Packets),
               Bytes   |-> AddU(x.Bytes, y.Bytes)]

\* A map[netip.Prefix]AcctData is a function on the keys it holds.
DataMap == UNION {[S -> AcctData] : S \in SUBSET Prefix}

EmptyMap == [k \in {} |-> Zero]

\* r.data[key]: a missing key reads as the zero value.
At(data, k) == IF k \in DOMAIN data THEN data[k] ELSE Zero

\* r.data[key] = v
Put(data, k, v) == [j \in DOMAIN data \cup {k} |-> IF j = k THEN v ELSE data[j]]
=============================================================================
