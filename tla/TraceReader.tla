---------------------------- MODULE TraceReader ----------------------------
(***************************************************************************)
(* The compact-trace reader: class trace_reader of                         *)
(* src/rtl/tb/include/hpdcache_test_trace_manager.h, driven by the loop of *)
(* hpdcache_test_from_trace_seq::run, replaying a trace written by the     *)
(* QEMU plugin.  The trace (Stream) and where each record lies in it       *)
(* (RecordSpans) are constants; MCTraceReader takes them from TraceWriter. *)
(*                                                                         *)
(* Data is abstracted to stream positions: the decompressed trace is the   *)
(* sequence Stream of byte values, and the working buffer buf holds, per   *)
(* slot, the position in Stream of the byte it contains (0 for a slot      *)
(* never written, whose memory is zero).  A byte read from a stale slot    *)
(* therefore shows up as a position that does not belong to the record    *)
(* being decoded.                                                          *)
(*                                                                         *)
(* The inflate engine (miniz, outside the repository) is abstracted to the *)
(* outcomes one call of decompress_data_from_trace can have: it appends    *)
(* the next n decompressed bytes and reports, or not, MZ_STREAM_END.       *)
(***************************************************************************)
EXTENDS Integers, Sequences, Bitwise

CONSTANTS
  Stream,           \* the decompressed trace, as byte values
  RecordSpans,      \* RecordSpans[i]: the stream positions of record i
  MAX_SIZE_BUFFER,  \* chunk size; buf has MAX_SIZE_BUFFER * 20 slots
  MaxRefill,        \* most bytes one refill appends (bounds the compression ratio)
  EndMarker,        \* "with_data": MZ_STREAM_END comes with the last data;
                    \* "split": it may come from a later chunk than the last data
  MaxTransactions,  \* max_transactions of the sequence
  ReqOpWidth        \* width of the req_op field of a request

ASSUME Stream \in Seq(0..255)
ASSUME RecordSpans \in Seq(Seq(1..Len(Stream)))
ASSUME MaxRefill \in 1..(MAX_SIZE_BUFFER * 20)
ASSUME EndMarker \in {"with_data", "split"}

VARIABLES
  buf,          \* trace_reader::buf, as stream positions
  end_buffer,   \* trace_reader::end_buffer
  read_buffer,  \* trace_reader::read_buffer
  bool_finish,  \* trace_reader::bool_finish
  stream,       \* the mz_stream pointer: "null", "live" or "freed" (dangling)
  delivered,    \* decompressed bytes the inflate engine has produced
  pc,           \* where run() / read_transaction() is
  need,         \* bytes still to read in the current straight-line read
  rec,          \* positions read so far for the transaction being decoded
  decoded,      \* transactions sent to the driver (positions of their bytes)
  n             \* run()'s loop counter

vars == <<buf, end_buffer, read_buffer, bool_finish, stream, delivered,
          pc, need, rec, decoded, n>>

-----------------------------------------------------------------------------
(* The reader's byte interpretation.                                        *)

\* hpdcache_req_op_t
HPDCACHE_REQ_STORE == 1

BufSlots == 0..(MAX_SIZE_BUFFER * 20 - 1)

\* value of the byte at a stream position; an unwritten slot reads 0
ByteAt(p) == IF p = 0 THEN 0 ELSE Stream[p]

\* read_delay (1) + read_address (8) + read_size (1) + read_boolean_and_type (1)
HeaderBytes == 1 + 8 + 1 + 1

\* `char result; *size_value = result >> 4;`: char is signed, the shift
\* is arithmetic, the result lands in a uint8_t
SignedChar(b) == IF b >= 128 THEN b - 256 ELSE b
SizeValueStore(b) == (SignedChar(b) \div 16) % 256

\* `type_operation = tmp >> 2` stored into req_op
ReqOp(b) == (b \div 4) % (2 ^ ReqOpWidth)

\* read_value: bytes read per size_value_store; unknown classes read nothing
ValueBytes(c) == IF c \in 0..4 THEN <<1, 2, 4, 8, 8>>[c + 1] ELSE 0

\* fault-seeded variant of PayloadBytes: a 4-byte value read as 5 bytes
PayloadBytesLong(ps) ==
  IF ReqOp(ByteAt(ps[11])) = HPDCACHE_REQ_STORE
  THEN LET c == SizeValueStore(ByteAt(ps[10]))
       IN  ValueBytes(c) + (IF c = 2 THEN 1 ELSE 0)
  ELSE 0

\* the payload read_transaction reads after the header ps
PayloadBytes(ps) ==
  IF ReqOp(ByteAt(ps[11])) = HPDCACHE_REQ_STORE
  THEN ValueBytes(SizeValueStore(ByteAt(ps[10])))
  ELSE 0

\* fault-seeded variant of is_finish: cursors alone
IsFinishCursors == end_buffer <= read_buffer

\* trace_reader::is_finish
IsFinish == end_buffer <= read_buffer /\ bool_finish

-----------------------------------------------------------------------------
(* The inflate engine: what one decompress_data_from_trace can append.      *)

\* each outcome appends o.n bytes and sets bool_finish to o.fin; a chunk
\* before the end always yields data; MZ_STREAM_END only once all data is
\* out, and with "with_data" together with the last data
InflateOutcomes ==
  { o \in [n : 0..MaxRefill, fin : BOOLEAN] :
      /\ delivered + o.n <= Len(Stream)
      /\ o.fin => delivered + o.n = Len(Stream)
      /\ delivered < Len(Stream) => o.n > 0
      /\ (EndMarker = "with_data" /\ delivered + o.n = Len(Stream)) => o.fin
      /\ o.n = 0 => o.fin }

Init ==
  /\ buf = [i \in BufSlots |-> 0]
  /\ end_buffer = MAX_SIZE_BUFFER       \* init_buf
  /\ read_buffer = MAX_SIZE_BUFFER
  /\ bool_finish = FALSE
  /\ stream = "null"
  /\ delivered = 0
  /\ pc = "loop"
  /\ need = 0
  /\ rec = << >>
  /\ decoded = << >>
  /\ n = 0

-----------------------------------------------------------------------------
(* run(): the loop condition, then read_transaction's straight-line reads. *)

(* `!is_finish() && n < max_transactions`: acquire a transaction, start    *)
(* read_transaction with its 11 header bytes.                              *)
BeginTransaction ==
  /\ pc = "loop"
  /\ ~IsFinish /\ n < MaxTransactions
  /\ pc' = "header"
  /\ need' = HeaderBytes
  /\ rec' = << >>
  /\ UNCHANGED <<buf, end_buffer, read_buffer, bool_finish, stream,
                 delivered, decoded, n>>

(* Loop exit: write nullptr to the driver and my_close. *)
CloseTrace ==
  /\ pc = "loop"
  /\ IsFinish \/ n >= MaxTransactions
  /\ pc' = "closed"
  /\ UNCHANGED <<buf, end_buffer, read_buffer, bool_finish, stream,
                 delivered, need, rec, decoded, n>>

(* One call of get_content_of_trace with read_buffer /= end_buffer: copy  *)
(* buf[read_buffer], advance, recurse on the rest.  A read past the end of *)
(* buf has no successor: the configurations keep it out of reach.         *)
ReadBuffered ==
  /\ pc \in {"header", "payload"} /\ need > 0
  /\ read_buffer /= end_buffer
  /\ read_buffer \in BufSlots
  /\ rec' = Append(rec, buf[read_buffer])
  /\ read_buffer' = read_buffer + 1
  /\ need' = need - 1
  /\ UNCHANGED <<buf, end_buffer, bool_finish, stream, delivered, pc,
                 decoded, n>>

\* what one decompress_data_from_trace can do: on a live (or not yet
\* created) stream, inflate the next chunk; on the dangling pointer left by
\* an earlier MZ_STREAM_END, read() is at end of file and mz_inflate runs on
\* freed memory: nothing is appended and what it returns is undefined
Outcomes == IF stream = "freed" THEN [n : {0}, fin : BOOLEAN]
                                 ELSE InflateOutcomes

\* buf after the inflate loop has memcpy'd o.n bytes at buf[0..]
Refilled(o) == [i \in BufSlots |-> IF i < o.n THEN delivered + i + 1 ELSE buf[i]]

\* fault-seeded variant of RefillThenRead: buf[0] copied before the refill
RefillReadFirst ==
  /\ pc \in {"header", "payload"} /\ need > 0
  /\ read_buffer = end_buffer
  /\ \E o \in Outcomes :
       /\ buf' = Refilled(o)
       /\ end_buffer' = o.n
       /\ bool_finish' = o.fin
       /\ stream' = IF o.fin \/ stream = "freed" THEN "freed" ELSE "live"
       /\ delivered' = delivered + o.n
       /\ rec' = Append(rec, buf[0])
  /\ read_buffer' = 1
  /\ need' = need - 1
  /\ UNCHANGED <<pc, decoded, n>>

\* fault-seeded variant of RefillThenRead: the cursors are not reset, the
\* chunk is appended at buf[end_buffer]
RefillNoReset ==
  /\ pc \in {"header", "payload"} /\ need > 0
  /\ read_buffer = end_buffer
  /\ \E o \in Outcomes :
       /\ buf' = [i \in BufSlots |->
                   IF end_buffer <= i /\ i < end_buffer + o.n
                   THEN delivered + i - end_buffer + 1 ELSE buf[i]]
       /\ end_buffer' = end_buffer + o.n
       /\ bool_finish' = o.fin
       /\ stream' = IF o.fin \/ stream = "freed" THEN "freed" ELSE "live"
       /\ delivered' = delivered + o.n
       /\ rec' = Append(rec, buf'[read_buffer])
  /\ read_buffer' = read_buffer + 1
  /\ need' = need - 1
  /\ UNCHANGED <<pc, decoded, n>>

(* get_content_of_trace with read_buffer = end_buffer: reset both cursors,*)
(* decompress_data_from_trace (init_stream when the pointer is null, read *)
(* a chunk, inflate it into buf from buf[end_buffer] = buf[0], bool_finish *)
(* = (ret == MZ_STREAM_END), then mz_inflateEnd and free(stream) without  *)
(* clearing the pointer), then copy buf[0] and recurse.                    *)
RefillThenRead ==
  /\ pc \in {"header", "payload"} /\ need > 0
  /\ read_buffer = end_buffer
  /\ \E o \in Outcomes :
       /\ buf' = Refilled(o)
       /\ end_buffer' = o.n
       /\ bool_finish' = o.fin
       /\ stream' = IF o.fin \/ stream = "freed" THEN "freed" ELSE "live"
       /\ delivered' = delivered + o.n
       /\ rec' = Append(rec, buf'[0])
  /\ read_buffer' = 1
  /\ need' = need - 1
  /\ UNCHANGED <<pc, decoded, n>>

(* read_transaction after the header: a store reads its value. *)
StartPayload ==
  /\ pc = "header" /\ need = 0
  /\ PayloadBytes(rec) > 0
  /\ pc' = "payload"
  /\ need' = PayloadBytes(rec)
  /\ UNCHANGED <<buf, end_buffer, read_buffer, bool_finish, stream,
                 delivered, rec, decoded, n>>

(* read_transaction returns; run() calls send_transaction and n++. *)
SendTransaction ==
  /\ \/ pc = "header" /\ need = 0 /\ PayloadBytes(rec) = 0
     \/ pc = "payload" /\ need = 0
  /\ decoded' = Append(decoded, rec)
  /\ n' = n + 1
  /\ pc' = "loop"
  /\ rec' = << >>
  /\ UNCHANGED <<buf, end_buffer, read_buffer, bool_finish, stream,
                 delivered, need>>

(* The sequence thread has ended. *)
Terminated ==
  /\ pc = "closed"
  /\ UNCHANGED vars

Next ==
  \/ BeginTransaction
  \/ CloseTrace
  \/ ReadBuffered
  \/ RefillThenRead
  \/ StartPayload
  \/ SendTransaction
  \/ Terminated

\* run() is the only thread touching the reader and never waits on it
Spec == Init /\ [][Next]_vars /\ WF_vars(Next)

-----------------------------------------------------------------------------
(* Properties.                                                              *)

TypeOK ==
  /\ buf \in [BufSlots -> 0..Len(Stream)]
  /\ end_buffer \in 0..(MAX_SIZE_BUFFER * 20)
  /\ read_buffer \in Nat
  /\ bool_finish \in BOOLEAN
  /\ stream \in {"null", "live", "freed"}
  /\ delivered \in 0..Len(Stream)
  /\ pc \in {"loop", "header", "payload", "closed"}
  /\ need \in Nat
  /\ rec \in Seq(0..Len(Stream))
  /\ decoded \in Seq(Seq(0..Len(Stream)))
  /\ n \in 0..MaxTransactions

(* Every transaction sent to the driver is, byte for byte, the record the  *)
(* producer wrote at that place in the trace: no record is skipped, split, *)
(* read from stale buffer bytes, or invented after the last one           *)
(* (read_transaction against write_in_file).                              *)
ReplayFaithful ==
  /\ Len(decoded) <= Len(RecordSpans)
  /\ \A i \in 1..Len(decoded) : decoded[i] = RecordSpans[i]

(* At run()'s loop test, is_finish() holds exactly when every recorded    *)
(* transaction has been replayed: never early while bytes remain, never   *)
(* late so that one more read_transaction starts past the end.            *)
FinishExact ==
  pc = "loop" => (IsFinish <=> Len(decoded) = Len(RecordSpans))

(* The inflate state is never used after decompress_data_from_trace freed *)
(* it on MZ_STREAM_END (the pointer is left dangling).                    *)
NoUseAfterFree == [][RefillThenRead => stream /= "freed"]_vars

(* The reader implements the replay promise of module Replay: it sends    *)
(* the recorded transactions in order, none invented or skipped, and       *)
(* stops the driver only after the last one (or at the budget).           *)
R == INSTANCE Replay WITH
       Trace <- RecordSpans,
       replayed <- decoded,
       closed <- (pc = "closed")

ReplayRefinement == R!SafeSpec


=============================================================================
