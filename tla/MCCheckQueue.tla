--------------------------- MODULE MCCheckQueue ---------------------------
(* Two workers and sessions of up to four checks, one of which fails.  Four *)
(* checks are needed for a batch of more than one.                          *)
EXTENDS CheckQueue
===========================================================================
