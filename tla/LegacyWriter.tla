---------------------------- MODULE LegacyWriter ----------------------------
(***************************************************************************)
(* The debug writers of the legacy "file" layout: File_writer::write_in_file*)
(* (src/rtl/tb/hpd_cache_file_gestion.h and its copy in                    *)
(* src/rtl/tb/hpdcache_file_gestion.h) and trace_writer::write_in_trace    *)
(* (src/rtl/tb/include/hpdcache_test_trace_manager.h).  All three write,   *)
(* uncompressed, a 4-byte delay, the address, the op byte, the size byte  *)
(* and the flags byte of each transaction, and nothing else.              *)
(*                                                                         *)
(* Address bytes carry no control for the readers and are abstracted to 0.*)
(***************************************************************************)
EXTENDS Integers, Sequences, SequencesExt

CONSTANTS
  Records,          \* the transactions handed to the writer, in order
  Writer,           \* "File_writer" or "trace_writer"
  WordWidth,        \* HPDCACHE_WORD_WIDTH
  ReqWords          \* HPDCACHE_REQ_WORDS

RecordType == [delay : 0..255, op : 0..31, size : 0..7,
               need_rsp : BOOLEAN, phys_indexed : BOOLEAN,
               uncacheable : BOOLEAN, io : BOOLEAN, abort : BOOLEAN]

ASSUME Records \in Seq(RecordType)
ASSUME Writer \in {"File_writer", "trace_writer"}
ASSUME WordWidth \in {32, 64} /\ ReqWords \in {1, 2, 4}

\* write_adress: File_writer switches on the cache word width and writes
\* nothing for 128- and 256-bit requests; trace_writer always writes 8
AddressBytes ==
  IF Writer = "trace_writer" THEN 8
  ELSE IF WordWidth = 32 THEN 4
  ELSE IF ReqWords = 1 THEN 8 ELSE 0

\* write_delay: the int, little-endian
DelayBytes(d) == [i \in 1..4 |-> (d \div (2 ^ (8 * (i - 1)))) % 256]

\* write_boolean: construct_bool_in_one_byte shifts each flag in, from
\* need-response (bit 4) down to abort (bit 0)
FlagsByte(r) ==
  FoldLeft(LAMBDA acc, b : acc * 2 + (IF b THEN 1 ELSE 0), 0,
           << r.need_rsp, r.phys_indexed, r.uncacheable, r.io, r.abort >>)

\* write_in_file / write_in_trace: delay, address, op (low byte of req_op),
\* size (low byte of req_size), flags; a store's value is never written
EncodeRecord(r) ==
  DelayBytes(r.delay)
  \o [i \in 1..AddressBytes |-> 0]
  \o << r.op % 256, r.size % 256, FlagsByte(r) >>

Encoded == [i \in 1..Len(Records) |-> EncodeRecord(Records[i])]

\* the file, as written
Stream == FlattenSeq(Encoded)

\* the stream positions of record i
Span(i) ==
  LET offset == Len(FlattenSeq(SubSeq(Encoded, 1, i - 1)))
  IN  [j \in 1..Len(Encoded[i]) |-> offset + j]

RecordSpans == [i \in 1..Len(Records) |-> Span(i)]

=============================================================================
