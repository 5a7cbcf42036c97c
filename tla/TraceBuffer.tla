---------------------------- MODULE TraceBuffer ----------------------------
(***************************************************************************)
(* The QEMU plugin's output path (src/rtl/tb/qemu_plugin/qemu_plugin.c):   *)
(* mem_cb calls write_in_file, which hands the bytes of one record to      *)
(* write_buffer; write_buffer stages them one by one in the global         *)
(* buffer_compress and deflates the buffer with compress_data_to_file      *)
(* whenever buffer_begin reaches SIZE_BUFFER; plugin_exit deflates the     *)
(* rest with MZ_FINISH.                                                    *)
(*                                                                         *)
(* mem_cb runs on the thread of the vCPU that made the access, so with     *)
(* several vCPUs the byte loop runs concurrently on shared globals that no *)
(* lock protects.  Each statement of the loop that touches a global is a   *)
(* step of its own; `buffer_begin++` is a load and a store.                *)
(*                                                                         *)
(* A byte is identified by <<vCPU, access number, index in the record>>;   *)
(* deflate is abstracted to the bytes it has been given (deflated) and     *)
(* whether the stream was finished with MZ_FINISH (finished).              *)
(***************************************************************************)
EXTENDS Integers, Sequences, SequencesExt

CONSTANTS
  VCpus,            \* the vCPU threads that run mem_cb
  Accesses,         \* memory accesses each vCPU makes
  AccessKinds,      \* the accesses a vCPU may make (records of TraceWriter)
  Is64Bits,         \* is_64_bits
  SIZE_BUFFER       \* size of buffer_compress

ASSUME Accesses \in Nat
ASSUME SIZE_BUFFER \in Nat \ {0, 1}

W == INSTANCE TraceWriter WITH Records <- << >>

VARIABLES
  buffer_compress,  \* the staging buffer: slot -> byte id (or NoByte)
  buffer_begin,     \* the global index into it
  deflated,         \* bytes given to mz_deflate so far, in order
  finished,         \* mz_deflate has been called with MZ_FINISH
  overflowed,       \* a byte was stored past the end of buffer_compress
  exit,             \* plugin_exit: "running", "hung" (endless loop) or "exited"
  pc,               \* per vCPU: "idle", "store", "load", "inc", "check"
  todo,             \* per vCPU: bytes of the current record not yet counted
  tmp,              \* per vCPU: the value of buffer_begin loaded by ++
  count,            \* per vCPU: accesses written so far
  sent              \* history: the records mem_cb handed over, in order

vars == <<buffer_compress, buffer_begin, deflated, finished, overflowed, exit,
          pc, todo, tmp, count, sent>>

NoByte == << >>

Slots == 0..(SIZE_BUFFER - 1)

\* the bytes write_in_file writes for access k of vCPU v of kind r
RecordBytes(v, k, r) == [j \in 1..Len(W!EncodeRecord(r)) |-> <<v, k, j>>]

\* buffer_compress[0 .. n-1]
Staged(n) == [i \in 1..n |-> buffer_compress[i - 1]]

(***************************************************************************)
(* compress_data_to_file: `while (offset < buffer_begin - 1)` compares a  *)
(* size_t with an int, so buffer_begin - 1 is taken modulo 2^64.  The      *)
(* chunk size is buffer_begin itself, so the loop deflates the whole       *)
(* buffer in one chunk when buffer_begin >= 2, deflates nothing when it is *)
(* 1, and never ends when it is 0 (chunk_size = 0, offset never moves).    *)
(***************************************************************************)
CompressLoops(n) == n >= 2
CompressSpins(n) == n = 0

\* fault-seeded variant of Deflate: the chunk stops one byte short
DeflateShort(n) == IF CompressLoops(n) THEN Staged(n - 1) ELSE << >>

\* the bytes one compress_data_to_file call gives to mz_deflate
Deflate(n) == IF CompressLoops(n) THEN Staged(n) ELSE << >>

Init ==
  /\ buffer_compress = [i \in Slots |-> NoByte]
  /\ buffer_begin = 0                \* qemu_plugin_install
  /\ deflated = << >>
  /\ finished = FALSE
  /\ overflowed = FALSE
  /\ exit = "running"
  /\ pc = [v \in VCpus |-> "idle"]
  /\ todo = [v \in VCpus |-> << >>]
  /\ tmp = [v \in VCpus |-> 0]
  /\ count = [v \in VCpus |-> 0]
  /\ sent = << >>

-----------------------------------------------------------------------------
(* mem_cb on vCPU v: write_in_file builds the record (delay, address,     *)
(* size, op/flags and, for a store, the value) and passes its bytes to    *)
(* write_buffer.                                                          *)
MemCb(v) ==
  /\ exit = "running"
  /\ pc[v] = "idle" /\ count[v] < Accesses
  /\ \E r \in AccessKinds :
       LET bytes == RecordBytes(v, count[v] + 1, r)
       IN  /\ todo' = [todo EXCEPT ![v] = bytes]
           /\ sent' = Append(sent, bytes)
  /\ pc' = [pc EXCEPT ![v] = "store"]
  /\ UNCHANGED <<buffer_compress, buffer_begin, deflated, finished,
                 overflowed, exit, tmp, count>>

(* `buffer_compress[buffer_begin] = data[i];` -- an index past the array   *)
(* writes outside it: the byte is lost to the trace.                       *)
StoreByte(v) ==
  /\ pc[v] = "store"
  /\ IF buffer_begin \in Slots
       THEN /\ buffer_compress' = [buffer_compress EXCEPT ![buffer_begin] = Head(todo[v])]
            /\ UNCHANGED overflowed
       ELSE /\ overflowed' = TRUE
            /\ UNCHANGED buffer_compress
  /\ pc' = [pc EXCEPT ![v] = "load"]
  /\ UNCHANGED <<buffer_begin, deflated, finished, exit, todo, tmp, count, sent>>

(* `buffer_begin++`, the load *)
LoadBegin(v) ==
  /\ pc[v] = "load"
  /\ tmp' = [tmp EXCEPT ![v] = buffer_begin]
  /\ pc' = [pc EXCEPT ![v] = "inc"]
  /\ UNCHANGED <<buffer_compress, buffer_begin, deflated, finished,
                 overflowed, exit, todo, count, sent>>

(* `buffer_begin++`, the store *)
IncBegin(v) ==
  /\ pc[v] = "inc"
  /\ buffer_begin' = tmp[v] + 1
  /\ pc' = [pc EXCEPT ![v] = "check"]
  /\ UNCHANGED <<buffer_compress, deflated, finished, overflowed, exit,
                 todo, tmp, count, sent>>

\* fault-seeded variant of CheckFull: buffer_begin is not reset
CheckFullNoReset(v) ==
  /\ pc[v] = "check"
  /\ buffer_begin = SIZE_BUFFER
  /\ deflated' = deflated \o Deflate(buffer_begin)
  /\ todo' = [todo EXCEPT ![v] = Tail(@)]
  /\ pc' = [pc EXCEPT ![v] = IF Tail(todo[v]) = << >> THEN "idle" ELSE "store"]
  /\ count' = [count EXCEPT ![v] = IF Tail(todo[v]) = << >> THEN @ + 1 ELSE @]
  /\ UNCHANGED <<buffer_compress, buffer_begin, finished, overflowed, exit,
                 tmp, sent>>

(* `if (buffer_begin == SIZE_BUFFER) { compress_data_to_file(MZ_NO_FLUSH); *)
(* buffer_begin = 0; }`, then the next byte of the loop, or back to mem_cb *)
(* (which resets current_instruction) after the last one.                 *)
CheckFull(v) ==
  /\ pc[v] = "check"
  /\ buffer_begin = SIZE_BUFFER
  /\ deflated' = deflated \o Deflate(buffer_begin)
  /\ buffer_begin' = 0
  /\ todo' = [todo EXCEPT ![v] = Tail(@)]
  /\ pc' = [pc EXCEPT ![v] = IF Tail(todo[v]) = << >> THEN "idle" ELSE "store"]
  /\ count' = [count EXCEPT ![v] = IF Tail(todo[v]) = << >> THEN @ + 1 ELSE @]
  /\ UNCHANGED <<buffer_compress, finished, overflowed, exit, tmp, sent>>

(* The same test when the buffer is not full. *)
CheckNotFull(v) ==
  /\ pc[v] = "check"
  /\ buffer_begin /= SIZE_BUFFER
  /\ todo' = [todo EXCEPT ![v] = Tail(@)]
  /\ pc' = [pc EXCEPT ![v] = IF Tail(todo[v]) = << >> THEN "idle" ELSE "store"]
  /\ count' = [count EXCEPT ![v] = IF Tail(todo[v]) = << >> THEN @ + 1 ELSE @]
  /\ UNCHANGED <<buffer_compress, buffer_begin, deflated, finished,
                 overflowed, exit, tmp, sent>>

(* QEMU exits once every vCPU is done: plugin_exit calls                   *)
(* compress_data_to_file(MZ_FINISH), then mz_deflateEnd and close_file.     *)
(* The loop deflates (and finishes the stream) only when buffer_begin >= 2. *)
PluginExit ==
  /\ exit = "running"
  /\ \A v \in VCpus : pc[v] = "idle" /\ count[v] = Accesses
  /\ IF CompressSpins(buffer_begin)
       THEN /\ exit' = "hung"
            /\ UNCHANGED <<deflated, finished>>
       ELSE /\ deflated' = deflated \o Deflate(buffer_begin)
            /\ finished' = CompressLoops(buffer_begin)
            /\ exit' = "exited"
  /\ UNCHANGED <<buffer_compress, buffer_begin, overflowed, pc, todo, tmp,
                 count, sent>>

(* The endless loop of compress_data_to_file, and the ended process. *)
Stopped ==
  /\ exit \in {"hung", "exited"}
  /\ UNCHANGED vars

Next ==
  \/ \E v \in VCpus :
       \/ MemCb(v) \/ StoreByte(v) \/ LoadBegin(v) \/ IncBegin(v)
       \/ CheckFull(v) \/ CheckNotFull(v)
  \/ PluginExit
  \/ Stopped

\* vCPU threads are scheduled by the host and atexit runs once they stop
Spec == Init /\ [][Next]_vars /\ WF_vars(Next)

-----------------------------------------------------------------------------
(* Properties.                                                              *)

ByteId == VCpus \X Nat \X Nat

TypeOK ==
  /\ buffer_compress \in [Slots -> ByteId \cup {NoByte}]
  /\ buffer_begin \in 0..SIZE_BUFFER
  /\ deflated \in Seq(ByteId)
  /\ finished \in BOOLEAN /\ overflowed \in BOOLEAN
  /\ exit \in {"running", "hung", "exited"}
  /\ pc \in [VCpus -> {"idle", "store", "load", "inc", "check"}]
  /\ todo \in [VCpus -> Seq(ByteId)]
  /\ tmp \in [VCpus -> 0..SIZE_BUFFER]
  /\ count \in [VCpus -> 0..Accesses]
  /\ sent \in Seq(Seq(ByteId))

\* what the trace will hold: the deflated bytes, then the staged ones
\* unless the final compress_data_to_file has already taken them
Trace == deflated \o (IF finished THEN << >> ELSE Staged(buffer_begin))

(* While QEMU runs, write_buffer and compress_data_to_file lose, duplicate *)
(* and reorder no byte: what has reached deflate followed by               *)
(* buffer_compress[0 .. buffer_begin-1] is always the start of the bytes   *)
(* mem_cb handed over, and all of them once no mem_cb is under way.  It    *)
(* takes a flush at buffer_begin = SIZE_BUFFER, its reset, and the bytes   *)
(* of the next record staged over the flushed ones to break it.  (At exit  *)
(* the staged bytes are lost when buffer_begin = 1: ExitComplete.)         *)
NoByteLostWhileRunning ==
  exit = "running" =>
    LET kept == deflated \o Staged(buffer_begin)
        all == FlattenSeq(sent)
    IN  /\ IsPrefix(kept, all)
        /\ (\A v \in VCpus : pc[v] = "idle") => kept = all

(* Every byte in the trace that is not the first of its record comes      *)
(* right after the byte before it in that record: concurrent mem_cb calls  *)
(* never interleave or overwrite the bytes of two records in               *)
(* buffer_compress.                                                        *)
RecordsContiguous ==
  \A i \in 2..Len(Trace) :
    LET b == Trace[i]
    IN  (b /= NoByte /\ b[3] > 1) => Trace[i - 1] = <<b[1], b[2], b[3] - 1>>

(* When QEMU exits, every recorded byte has reached deflate and the        *)
(* stream was finished with MZ_FINISH, so the trace has its end marker     *)
(* (plugin_exit and compress_data_to_file).                                *)
ExitComplete ==
  exit = "exited" => finished /\ Len(deflated) = Len(FlattenSeq(sent))

=============================================================================
