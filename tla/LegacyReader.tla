---------------------------- MODULE LegacyReader ----------------------------
(***************************************************************************)
(* The legacy-file reader: class File_reader, driven by the loop of        *)
(* hpdcache_test_from_file_seq::run.  The sequence includes the copy in    *)
(* src/rtl/tb/hpd_cache_file_gestion.h; the later copy in                  *)
(* src/rtl/tb/hpdcache_file_gestion.h differs only in read_size and        *)
(* read_value.  FileGestion selects which of the two is run.               *)
(*                                                                         *)
(* As in TraceReader, buf holds stream positions (0: a never-written zero *)
(* slot) and inflate is abstracted to what one decompress_data_from_file   *)
(* call can append.  Unlike run() of from_trace_seq, the loop has no       *)
(* transaction budget: it stops on is_finish() alone.                      *)
(***************************************************************************)
EXTENDS Integers, Sequences

CONSTANTS
  Stream,           \* the decompressed file, as byte values
  RecordSpans,      \* RecordSpans[i]: the stream positions of record i
  FileGestion,      \* "hpd_cache_file_gestion" or "hpdcache_file_gestion"
  MAX_SIZE_BUFFER,  \* chunk size; buf has MAX_SIZE_BUFFER * 20 slots
  MaxRefill,        \* most bytes one refill appends
  EndMarker,        \* "with_data", "split", or "missing" (no MZ_STREAM_END)
  WordWidth,        \* HPDCACHE_WORD_WIDTH
  ReqWords,         \* HPDCACHE_REQ_WORDS
  ReqOpWidth        \* width of the req_op field of a request

ASSUME Stream \in Seq(0..255)
ASSUME RecordSpans \in Seq(Seq(1..Len(Stream)))
ASSUME FileGestion \in {"hpd_cache_file_gestion", "hpdcache_file_gestion"}
ASSUME MaxRefill \in 1..(MAX_SIZE_BUFFER * 20)
ASSUME EndMarker \in {"with_data", "split", "missing"}
ASSUME ReqOpWidth \in 1..8

VARIABLES
  buf,          \* File_reader::buf, as stream positions
  end_buffer,   \* File_reader::end_buffer
  read_buffer,  \* File_reader::read_buffer
  bool_finish,  \* File_reader::bool_finish
  strm,         \* the mz_stream pointer: "null", "live" or "freed" (dangling)
  delivered,    \* decompressed bytes the inflate engine has produced
  pc,           \* where run() / read_transaction() is; "fault": buf overrun
  need,         \* bytes still to read in the current straight-line read
  rec,          \* positions read so far for the transaction being decoded
  decoded       \* transactions sent to the driver

vars == <<buf, end_buffer, read_buffer, bool_finish, strm, delivered,
          pc, need, rec, decoded>>

-----------------------------------------------------------------------------
(* The reader's byte interpretation.                                        *)

\* hpdcache_req_op_t
HPDCACHE_REQ_STORE == 1

BufSlots == 0..(MAX_SIZE_BUFFER * 20 - 1)

ByteAt(p) == IF p = 0 THEN 0 ELSE Stream[p]

\* read_address: the same switch as File_writer::write_adress
AddressBytes ==
  IF WordWidth = 32 THEN 4 ELSE IF ReqWords = 1 THEN 8 ELSE 0

\* read_delay (sizeof(int)), read_address, read_type_transaction,
\* read_size, read_boolean
HeaderBytes == 4 + AddressBytes + 1 + 1 + 1
OpAt   == 4 + AddressBytes + 1
SizeAt == 4 + AddressBytes + 2

\* `char result; return *((unsigned *) &result);` into req_op: the three
\* bytes read past the char are cut off by the width of req_op
ReqOp(b) == b % (2 ^ ReqOpWidth)

\* hpdcache_file_gestion.h read_size: `*size_value = result >> 4` on a
\* signed char, stored in a uint8_t
SignedChar(b) == IF b >= 128 THEN b - 256 ELSE b
SizeValueStore(b) == (SignedChar(b) \div 16) % 256

\* hpdcache_file_gestion.h read_value: bytes per size_value_store
ValueBytes(c) == IF c \in 0..4 THEN <<1, 2, 4, 8, 8>>[c + 1] ELSE 0

\* what read_transaction reads after the header ps: hpd_cache_file_gestion.h
\* reads an 8-byte read_value for every transaction; hpdcache_file_gestion.h
\* reads one, of the width the size byte's high nibble gives, for a store
PayloadBytes(ps) ==
  IF FileGestion = "hpd_cache_file_gestion" THEN 8
  ELSE IF ReqOp(ByteAt(ps[OpAt])) = HPDCACHE_REQ_STORE
       THEN ValueBytes(SizeValueStore(ByteAt(ps[SizeAt])))
       ELSE 0

\* fault-seeded variant of is_finish: cursors alone
IsFinishCursors == end_buffer <= read_buffer

\* File_reader::is_finish
IsFinish == end_buffer <= read_buffer /\ bool_finish

-----------------------------------------------------------------------------
(* The inflate engine: what one decompress_data_from_file can append.  A   *)
(* chunk before the end always yields data.  With "missing", the stream   *)
(* has no end (a truncated file): at end of file read() gives nothing and  *)
(* mz_inflate appends nothing without MZ_STREAM_END.                        *)
InflateOutcomes ==
  { o \in [n : 0..MaxRefill, fin : BOOLEAN] :
      /\ delivered + o.n <= Len(Stream)
      /\ o.fin => delivered + o.n = Len(Stream) /\ EndMarker /= "missing"
      /\ delivered < Len(Stream) => o.n > 0
      /\ (EndMarker = "with_data" /\ delivered + o.n = Len(Stream)) => o.fin
      /\ (o.n = 0 /\ EndMarker /= "missing") => o.fin }

\* on the pointer freed at MZ_STREAM_END, mz_inflate runs on freed memory:
\* nothing is appended and its result is undefined
Outcomes == IF strm = "freed" THEN [n : {0}, fin : BOOLEAN]
                               ELSE InflateOutcomes

\* buf after the inflate loop has memcpy'd o.n bytes from buf[0]
Refilled(o) == [i \in BufSlots |-> IF i < o.n THEN delivered + i + 1 ELSE buf[i]]

Init ==
  /\ buf = [i \in BufSlots |-> 0]
  /\ end_buffer = MAX_SIZE_BUFFER       \* init_buf
  /\ read_buffer = MAX_SIZE_BUFFER
  /\ bool_finish = FALSE
  /\ strm = "null"
  /\ delivered = 0
  /\ pc = "loop"
  /\ need = 0
  /\ rec = << >>
  /\ decoded = << >>

-----------------------------------------------------------------------------
(* `while (!my_file->is_finish())`: wait for an id, acquire a transaction *)
(* and start read_transaction.                                             *)
BeginTransaction ==
  /\ pc = "loop"
  /\ ~IsFinish
  /\ pc' = "header"
  /\ need' = HeaderBytes
  /\ rec' = << >>
  /\ UNCHANGED <<buf, end_buffer, read_buffer, bool_finish, strm,
                 delivered, decoded>>

(* Loop exit: write nullptr to the driver and my_close. *)
CloseFile ==
  /\ pc = "loop"
  /\ IsFinish
  /\ pc' = "closed"
  /\ UNCHANGED <<buf, end_buffer, read_buffer, bool_finish, strm,
                 delivered, need, rec, decoded>>

(* get_content_of_file with read_buffer /= end_buffer: copy               *)
(* buf[read_buffer], advance, recurse.  Nothing keeps read_buffer inside  *)
(* buf: a read past its end is undefined, and the model stops the thread  *)
(* there ("fault").                                                        *)
ReadBuffered ==
  /\ pc \in {"header", "payload"} /\ need > 0
  /\ read_buffer /= end_buffer
  /\ IF read_buffer \in BufSlots
       THEN /\ rec' = Append(rec, buf[read_buffer])
            /\ read_buffer' = read_buffer + 1
            /\ need' = need - 1
            /\ UNCHANGED pc
       ELSE /\ pc' = "fault"
            /\ UNCHANGED <<rec, read_buffer, need>>
  /\ UNCHANGED <<buf, end_buffer, bool_finish, strm, delivered, decoded>>

\* fault-seeded variant of RefillThenRead: the chunk is appended at
\* buf[end_buffer] without resetting the cursors
RefillNoReset ==
  /\ pc \in {"header", "payload"} /\ need > 0
  /\ read_buffer = end_buffer
  /\ \E o \in Outcomes :
       /\ buf' = [i \in BufSlots |->
                   IF end_buffer <= i /\ i < end_buffer + o.n
                   THEN delivered + i - end_buffer + 1 ELSE buf[i]]
       /\ end_buffer' = end_buffer + o.n
       /\ bool_finish' = o.fin
       /\ strm' = IF o.fin \/ strm = "freed" THEN "freed" ELSE "live"
       /\ delivered' = delivered + o.n
       /\ rec' = Append(rec, buf'[read_buffer])
  /\ read_buffer' = read_buffer + 1
  /\ need' = need - 1
  /\ UNCHANGED <<pc, decoded>>

\* fault-seeded variant of RefillThenRead: bool_finish is not updated
RefillKeepFinish ==
  /\ pc \in {"header", "payload"} /\ need > 0
  /\ read_buffer = end_buffer
  /\ \E o \in Outcomes :
       /\ buf' = Refilled(o)
       /\ end_buffer' = o.n
       /\ strm' = IF o.fin \/ strm = "freed" THEN "freed" ELSE "live"
       /\ delivered' = delivered + o.n
       /\ rec' = Append(rec, buf'[0])
  /\ read_buffer' = 1
  /\ need' = need - 1
  /\ UNCHANGED <<pc, decoded, bool_finish>>

(* get_content_of_file with read_buffer = end_buffer.  hpd_cache_file_     *)
(* gestion.h calls decompress_data_from_file (create the stream when the  *)
(* pointer is null, end_buffer = 0, read a chunk, inflate it into buf,    *)
(* bool_finish = (ret == MZ_STREAM_END), free the stream without clearing *)
(* the pointer) and then sets read_buffer = 0; hpdcache_file_gestion.h     *)
(* resets both cursors first.  Either way buf[0] is copied next.          *)
RefillThenRead ==
  /\ pc \in {"header", "payload"} /\ need > 0
  /\ read_buffer = end_buffer
  /\ \E o \in Outcomes :
       /\ buf' = Refilled(o)
       /\ end_buffer' = o.n
       /\ bool_finish' = o.fin
       /\ strm' = IF o.fin \/ strm = "freed" THEN "freed" ELSE "live"
       /\ delivered' = delivered + o.n
       /\ rec' = Append(rec, buf'[0])
  /\ read_buffer' = 1
  /\ need' = need - 1
  /\ UNCHANGED <<pc, decoded>>

(* read_transaction after the header: read_value, when there is one. *)
StartPayload ==
  /\ pc = "header" /\ need = 0
  /\ PayloadBytes(rec) > 0
  /\ pc' = "payload"
  /\ need' = PayloadBytes(rec)
  /\ UNCHANGED <<buf, end_buffer, read_buffer, bool_finish, strm,
                 delivered, rec, decoded>>

(* read_transaction returns; `t != nullptr` always holds, so run() calls  *)
(* send_transaction.                                                       *)
SendTransaction ==
  /\ \/ pc = "header" /\ need = 0 /\ PayloadBytes(rec) = 0
     \/ pc = "payload" /\ need = 0
  /\ decoded' = Append(decoded, rec)
  /\ pc' = "loop"
  /\ rec' = << >>
  /\ UNCHANGED <<buf, end_buffer, read_buffer, bool_finish, strm,
                 delivered, need>>

(* The sequence thread has ended, or has overrun buf. *)
Terminated ==
  /\ pc \in {"closed", "fault"}
  /\ UNCHANGED vars

Next ==
  \/ BeginTransaction
  \/ CloseFile
  \/ ReadBuffered
  \/ RefillThenRead
  \/ StartPayload
  \/ SendTransaction
  \/ Terminated

\* run() is the only thread touching the reader; it waits only for a free
\* transaction id, which the driver eventually returns
Spec == Init /\ [][Next]_vars /\ WF_vars(Next)

-----------------------------------------------------------------------------
(* Properties.                                                              *)

TypeOK ==
  /\ buf \in [BufSlots -> 0..Len(Stream)]
  /\ end_buffer \in 0..(MAX_SIZE_BUFFER * 20)
  /\ read_buffer \in 0..(MAX_SIZE_BUFFER * 20)
  /\ bool_finish \in BOOLEAN
  /\ strm \in {"null", "live", "freed"}
  /\ delivered \in 0..Len(Stream)
  /\ pc \in {"loop", "header", "payload", "closed", "fault"}
  /\ need \in Nat
  /\ rec \in Seq(0..Len(Stream))
  /\ decoded \in Seq(Seq(0..Len(Stream)))

(* The inflate state is never used after decompress_data_from_file freed  *)
(* it on MZ_STREAM_END (free(strm) leaves the pointer set, so a later      *)
(* refill skips the allocation and inflates through the dangling pointer). *)
NoUseAfterFree == [][RefillThenRead => strm /= "freed"]_vars

(* The reader implements the replay promise of module Replay for the file *)
(* a legacy writer produced: from_file_seq sends the written transactions  *)
(* in order, each read from exactly its own bytes, and stops the driver    *)
(* only after the last one.  There is no budget.                           *)
R == INSTANCE Replay WITH
       Trace <- RecordSpans,
       MaxTransactions <- Len(RecordSpans) + 1,
       replayed <- decoded,
       closed <- (pc = "closed")

ReplayRefinement == R!SafeSpec

(* from_file_seq's loop, which has no transaction budget, eventually      *)
(* stops the driver and closes the file.                                   *)
ReplayEnds == <>(pc = "closed")

=============================================================================
