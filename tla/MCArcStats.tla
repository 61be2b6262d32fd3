----------------------------- MODULE MCArcStats -----------------------------
(* ArcStats with the four lines in the file's order.                      *)
EXTENDS ArcStats

FileOrder == <<"Hits", "Misses", "L2Hits", "L2Misses">>
TwoLines == <<"Hits", "Misses">>
=============================================================================
