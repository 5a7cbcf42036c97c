--------------------------- MODULE MCTraceReader ---------------------------
(***************************************************************************)
(* TraceReader replaying what TraceWriter encodes, for TLC.  A trace of    *)
(* three recorded accesses: a 64-bit load, a 32-bit uncacheable store      *)
(* (value follows) and a byte load, 37 decompressed bytes in all.          *)
(***************************************************************************)
EXTENDS TraceReader

Load(sz, unc, d) == [delay |-> d, store |-> FALSE, size |-> sz, vtype |-> sz,
                     uncacheable |-> unc]
Store(sz, unc, d) == [delay |-> d, store |-> TRUE, size |-> sz, vtype |-> sz,
                      uncacheable |-> unc]

\* load, store of 4 bytes, load
MCRecords == << Load(3, 0, 3), Store(2, 1, 0), Load(0, 0, 1) >>

\* load, store of a 128-bit value, load
MCRecordsU128 == << Load(3, 0, 3), Store(4, 0, 0), Load(0, 0, 1) >>

W == INSTANCE TraceWriter WITH Records <- MCRecords, Is64Bits <- TRUE
W32 == INSTANCE TraceWriter WITH Records <- MCRecords, Is64Bits <- FALSE
W128 == INSTANCE TraceWriter WITH Records <- MCRecordsU128, Is64Bits <- TRUE

\* the decompressed traces written out, so that TLC evaluates them once;
\* the ASSUMEs check them against what write_in_file produces
MCStream ==
  << 3, 0, 0, 0, 0, 0, 0, 0, 0, 51, 2,
     0, 0, 0, 0, 0, 0, 0, 0, 0, 34, 5, 0, 0, 0, 0,
     1, 0, 0, 0, 0, 0, 0, 0, 0, 0, 2 >>
MCRecordSpans ==
  << [i \in 1..11 |-> i], [i \in 1..15 |-> 11 + i], [i \in 1..11 |-> 26 + i] >>
MCStreamU128 ==
  << 3, 0, 0, 0, 0, 0, 0, 0, 0, 51, 2,
     0, 0, 0, 0, 0, 0, 0, 0, 0, 68, 4,
     1, 0, 0, 0, 0, 0, 0, 0, 0, 0, 2 >>
MCRecordSpansU128 ==
  << [i \in 1..11 |-> i], [i \in 1..11 |-> 11 + i], [i \in 1..11 |-> 22 + i] >>

\* the same accesses recorded on a 32-bit target (4-byte addresses)
MCStream32 ==
  << 3, 0, 0, 0, 0, 51, 2,
     0, 0, 0, 0, 0, 34, 5, 0, 0, 0, 0,
     1, 0, 0, 0, 0, 0, 2 >>
MCRecordSpans32 ==
  << [i \in 1..7 |-> i], [i \in 1..11 |-> 7 + i], [i \in 1..7 |-> 18 + i] >>

ASSUME MCStream32 = W32!Stream /\ MCRecordSpans32 = W32!RecordSpans
ASSUME MCStream = W!Stream /\ MCRecordSpans = W!RecordSpans
ASSUME MCStreamU128 = W128!Stream /\ MCRecordSpansU128 = W128!RecordSpans

\* a budget that lets run() attempt one transaction past the trace
MCMaxTransactions == Len(MCRecords) + 1

=============================================================================
