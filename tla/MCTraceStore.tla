---------------------------- MODULE MCTraceStore ----------------------------
(***************************************************************************)
(* TraceStore on a small instance.  Two tokens and two contents of the     *)
(* same part are what ownership, a replay and a conflict need, a third is  *)
(* refused; the chunk and the end of one trip are the two tables.          *)
(***************************************************************************)
EXTENDS TraceStore

CONSTANTS b0, b1, b2, k0, k1, w0, t0

AcceptsTwo(b) == b # b2
=============================================================================
