---------------------------- MODULE TraceWriter ----------------------------
(***************************************************************************)
(* The producer of compact traces: write_in_file of the QEMU plugin        *)
(* (src/rtl/tb/qemu_plugin/qemu_plugin.c), which turns every memory access *)
(* the plugin sees into the bytes of one trace record.  What the plugin    *)
(* then does with the bytes (buffering and deflate) is not modelled here. *)
(*                                                                         *)
(* Address and value bytes carry no control for the reader and are         *)
(* abstracted to 0; the delay, size and op/flags bytes are computed as the *)
(* plugin computes them.                                                   *)
(***************************************************************************)
EXTENDS Integers, Sequences, SequencesExt, Bitwise

CONSTANTS
  Records,          \* memory accesses seen by the plugin, in order
  Is64Bits          \* is_64_bits: the emulated target is riscv64

RecordType == [delay : Nat, store : BOOLEAN, size : 0..4, vtype : 0..4,
               uncacheable : 0..1]

ASSUME Records \in Seq(RecordType)
ASSUME Is64Bits \in BOOLEAN

\* write_adress: 8 bytes on riscv64, 4 otherwise
AddressBytes == IF Is64Bits THEN 8 ELSE 4

\* write_value: bytes written per qemu_plugin_mem_value_type (U8..U128);
\* a U128 value is not written at all
StoreValueBytes(vtype) == <<1, 2, 4, 8, 0>>[vtype + 1]

\* write_size: address size in the low nibble, value class in the high one
SizeByte(r) == r.size | (r.vtype * 16)

\* the boolean_value_and_type byte: need-response bit 1, op code from bit 2,
\* the uncacheable bit 0; a store clears need-response
OpFlagsByte(r) ==
  LET b == IF r.store THEN (2 | 4) - 2 ELSE 2
  IN  b | r.uncacheable

\* the bytes of one record: delay (current_instruction truncated to a
\* uint8_t), address, size byte, op/flags byte, and a store's value
EncodeRecord(r) ==
  << r.delay % 256 >>
  \o [i \in 1..AddressBytes |-> 0]
  \o << SizeByte(r), OpFlagsByte(r) >>
  \o (IF r.store THEN [i \in 1..StoreValueBytes(r.vtype) |-> 0] ELSE << >>)

Encoded == [i \in 1..Len(Records) |-> EncodeRecord(Records[i])]

\* the trace as it is before compression
Stream == FlattenSeq(Encoded)

\* the stream positions of record i
Span(i) ==
  LET offset == Len(FlattenSeq(SubSeq(Encoded, 1, i - 1)))
  IN  [j \in 1..Len(Encoded[i]) |-> offset + j]

RecordSpans == [i \in 1..Len(Records) |-> Span(i)]

=============================================================================
