------------------------------ MODULE DumpSort ------------------------------
(***************************************************************************)
(* The order of a block of ctmon's log: the comparison dumpItems passes to *)
(* slices.SortFunc, with the widths of its integers, and the insertion     *)
(* sort SortFunc uses for up to twelve items.                              *)
(***************************************************************************)
EXTENDS Acct, Sequences

CONSTANTS HalfInt,      \* 2^31 or 2^63: int has the platform's 32 or 64 bits
          Keys,         \* the items' addresses, as the numbers their bits spell
          Counts,       \* the packet and byte counts of the items
          MaxItems      \* bound on a block; SortFunc sorts by insertion up to 12

ASSUME WidthAssumption ==
  /\ HalfInt \in Nat \ {0} /\ MaxItems \in 0 .. 12
  /\ Counts \subseteq Word

ASSUME KeysAssumption == Keys \subseteq Nat

SortItem == [Addr : Keys, Packets : Counts, Bytes : Counts]

\* The conversion of a uint64 to int keeps the low bits.
ToInt(u) == LET r == u % (2 * HalfInt)
            IN  IF r < HalfInt THEN r ELSE r - 2 * HalfInt

\* Faulty variants: fewer bytes first; no order among equal counts.
Compare_Ascending(a, b) ==
  IF a.Bytes # b.Bytes THEN ToInt(SubU(a.Bytes, b.Bytes))
  ELSE IF a.Packets # b.Packets THEN ToInt(SubU(b.Packets, a.Packets))
  ELSE IF a.Addr < b.Addr THEN -1 ELSE IF a.Addr = b.Addr THEN 0 ELSE 1
Compare_NoAddr(a, b) ==
  IF a.Bytes # b.Bytes THEN ToInt(SubU(b.Bytes, a.Bytes))
  ELSE ToInt(SubU(b.Packets, a.Packets))

\* The function dumpItems passes to SortFunc.
Compare(a, b) ==
  IF a.Bytes # b.Bytes THEN ToInt(SubU(b.Bytes, a.Bytes))
  ELSE IF a.Packets # b.Packets THEN ToInt(SubU(b.Packets, a.Packets))
  ELSE IF a.Addr < b.Addr THEN -1 ELSE IF a.Addr = b.Addr THEN 0 ELSE 1

VARIABLES items,        \* the slice, in place
          outer,        \* items[1 .. outer - 1] have been inserted
          inner         \* where the next item has sunk to

sortVars == <<items, outer, inner>>

\* A range over a map yields its keys in any order, each once.
SortInit ==
  /\ \E n \in 0 .. MaxItems :
       items \in {s \in [1 .. n -> SortItem] : \A x, y \in 1 .. n : s[x].Addr = s[y].Addr => x = y}
  /\ outer = 1 /\ inner = 1

Sorting == outer <= Len(items)

SwapDown ==
  /\ Sorting /\ inner > 1 /\ Compare(items[inner], items[inner - 1]) < 0
  /\ items' = [items EXCEPT ![inner] = items[inner - 1], ![inner - 1] = items[inner]]
  /\ inner' = inner - 1 /\ UNCHANGED outer

\* The item has met one that is not after it.
Placed ==
  /\ Sorting /\ (inner > 1 => Compare(items[inner], items[inner - 1]) >= 0)
  /\ outer' = outer + 1 /\ inner' = outer + 1 /\ UNCHANGED items

SortNext == SwapDown \/ Placed

SortSpec == SortInit /\ [][SortNext]_sortVars
-----------------------------------------------------------------------------
\* "More bytes = sort first": a block lists its prefixes by falling bytes.
MoreBytesFirst ==
  ~Sorting => \A x, y \in 1 .. Len(items) : x < y => items[x].Bytes >= items[y].Bytes

\* The order in which the map was walked does not show: bytes, then packets,
\* then the address decide, and no two items of a block are equal in all three.
Before(a, b) ==
  \/ a.Bytes > b.Bytes
  \/ a.Bytes = b.Bytes /\ a.Packets > b.Packets
  \/ a.Bytes = b.Bytes /\ a.Packets = b.Packets /\ a.Addr < b.Addr
OrderIsDetermined ==
  ~Sorting => \A x, y \in 1 .. Len(items) : x < y => Before(items[x], items[y])
=============================================================================
