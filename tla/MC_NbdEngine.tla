--------------------------- MODULE MC_NbdEngine ---------------------------
(* Model values for NbdEngine: two slots, byte counts shrunk to units.   *)
EXTENDS NbdEngine

MC_IdInit == {65533}             \* crosses the id % 0xffff wrap, not INT_MAX
MC_IdOverflow == {2147483647}    \* the counter after 2^31 - 1 requests
=============================================================================
