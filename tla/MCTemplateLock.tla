---------------------------- MODULE MCTemplateLock ----------------------------
(* An instance of TemplateLock for TLC: two workers, each with one call at a  *)
(* time; without PM2, one process with two calls that overlap.                *)
EXTENDS TemplateLock

CONSTANTS p1, p2, alone, gone, a1, b1, c1, c2
Workers == {p1, p2}
Calls == {a1, b1, c1, c2}
CallerOf(c) == CASE c = a1 -> p1 [] c = b1 -> p2 [] OTHER -> alone
=============================================================================
