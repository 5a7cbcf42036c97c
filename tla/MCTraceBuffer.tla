--------------------------- MODULE MCTraceBuffer ---------------------------
(***************************************************************************)
(* TraceBuffer for TLC.  A vCPU's access is a 64-bit load (11 bytes) or a  *)
(* byte store (12 bytes); with a buffer of 3 slots, two accesses leave 1,  *)
(* 2 or 0 bytes staged at exit, so every branch of the final               *)
(* compress_data_to_file is reached.                                       *)
(***************************************************************************)
EXTENDS TraceBuffer

CONSTANTS v1, v2

MCAccessKinds ==
  { [delay |-> 0, store |-> FALSE, size |-> 3, vtype |-> 3, uncacheable |-> 0],
    [delay |-> 0, store |-> TRUE, size |-> 0, vtype |-> 0, uncacheable |-> 0] }

\* a single load per vCPU
MCLoadOnly ==
  { [delay |-> 0, store |-> FALSE, size |-> 3, vtype |-> 3, uncacheable |-> 0] }
=============================================================================
