# TLA+ models of the cv-hpdcache testbench

This project checks, with TLC, three parts of the HPDcache testbench. The first is
the binary trace codec: a QEMU plugin records memory accesses into a compressed
trace, and a SystemC sequence later replays that trace into the cache under
test. The second is the memory response model, the SystemC slave that answers
the cache's memory interface. The third is fault injection, which writes ECC
fault masks into the cache's SRAMs.

## The system

| part | source | role |
|---|---|---|
| record encoder | `src/rtl/tb/qemu_plugin/qemu_plugin.c` (`write_in_file`, `write_*`) | turns each access into delay, address, size and op/flag bytes, plus a value for stores |
| staging buffer and deflate | same file (`write_buffer`, `compress_data_to_file`, `plugin_exit`) | collects bytes from the `mem_cb` callbacks of every vCPU and deflates them in chunks |
| compact trace reader | `src/rtl/tb/include/hpdcache_test_trace_manager.h` (`trace_reader`) | owns the byte buffer `buf` with its cursors `read_buffer` and `end_buffer`, plus the inflate stream; `get_content_of_trace` refills only when the cursors meet; `is_finish` is `end_buffer <= read_buffer && bool_finish` |
| replay sequence | `src/rtl/tb/sequence_lib/hpdcache_test_from_trace_seq.h` (`run`) | loops `!is_finish() && n < max_transactions`: `read_transaction`, then `send_transaction`; at the end it sends the stop marker and closes the trace |
| legacy codec | `src/rtl/tb/hpd_cache_file_gestion.h` (included by `from_file_seq`), its later copy `src/rtl/tb/hpdcache_file_gestion.h`, `trace_writer` in the trace manager | `File_reader` reads the legacy layout (4-byte delay, address, op, size and flags bytes, then a value) through the same buffer-and-inflate scheme as `trace_reader`; `File_writer` and `trace_writer` write that layout uncompressed, without values |
| legacy replay sequence | `src/rtl/tb/sequence_lib/hpdcache_test_from_file_seq.h` (`run`) | loops on `!is_finish()` alone, with no transaction budget |
| memory response model | `src/rtl/tb/include/hpdcache_test_mem_resp_model.h` | six `SC_THREAD`s: `read_process` takes read requests, `write_address_process` and `write_data_process` take write flits into two `sc_fifo`s, `write_process` pairs them and performs the write, `read_response_process` and `write_response_process` send what the operations queued in two payload event queues; `excl_buf_m` holds LDEX reservations |
| fault injection | `src/rtl/tb/include/hpdcache_fault_injection.h` | `injectDirFault` and `injectDatFault` cut a fault mask into the 32-bit chunks of a packed SRAM row (DPI `svLogicVecVal`s), at the offset of the entry's way, and hand it to the Verilated SRAM with the row address |
| not modelled | `hpdcache_test_unique_set_seq.h`, `hpdcache_test_exec_trace_seq.h` | random stimulus; a sequence that does not compile |

The reader and the sequence run on one SystemC thread. The writer callbacks can
run on several vCPU threads of QEMU. The memory model's threads run on the
SystemC scheduler: each runs until its next `wait()`, the read and write-request
threads on the falling clock edge, the others on the rising one (the
constructor's `sensitive` lists).

## Modules

- **`Replay`** is the abstract specification. It states what a replay promises:
  the records are handed over in file order, none skipped or invented, and the
  sequence closes only once the trace or the budget is exhausted.
- **`TraceWriter`** models the record encoder as operators. `EncodeRecord` gives
  the bytes `write_in_file` produces:
  - the delay is truncated to a `uint8_t`;
  - the address takes 8 or 4 bytes;
  - the size byte is `size | value_class << 4`;
  - the op/flags byte is `2`, or `(2|4)-2` for a store, ORed with the uncacheable bit;
  - a store's value takes 1, 2, 4 or 8 bytes, and a U128 store gets none.

  `RecordSpans` says at which stream positions each record lies.
- **`TraceReader`** models `trace_reader` together with the loop of `run()`.
  - **State:** `buf`, `end_buffer`, `read_buffer` and `bool_finish` are the
    class's fields. `stream` is the inflate pointer: null, live, or freed but
    still set.
  - **Data abstraction:** each slot of `buf` holds the *stream position* of the
    byte it contains, and 0 stands for a never-written zero byte. A byte read
    from a stale slot therefore shows up as a wrong position.
  - **Read actions:** `get_content_of_trace` is one action per byte, as the
    function recurses once per byte. `ReadBuffered` is the branch with
    `read_buffer != end_buffer`. `RefillThenRead` is the other branch: it resets
    the cursors, runs the whole of `decompress_data_from_trace`, then copies
    `buf[0]`.
  - **Inflate abstraction:** the inflate engine (miniz, outside the repository)
    is abstracted to `InflateOutcomes`: a call appends the next 0..`MaxRefill`
    bytes and reports, or not, `MZ_STREAM_END`. The constant `EndMarker` says
    whether the end can arrive in a later call than the last data.
  - **Freed stream:** on the freed pointer, a call appends nothing and returns
    an undefined result (`Outcomes`).
  - **Loop actions:** `BeginTransaction` and `CloseTrace` are the two outcomes
    of the loop test. `StartPayload` is the store branch of `read_transaction`.
    `SendTransaction` is `send_transaction` followed by `n++`.
  - **Decoder operators:** `ReqOp`, `SizeValueStore` (a signed `char` with an
    arithmetic shift) and `ValueBytes` decode what the reader reads.
  - **Refinement:** the module instantiates `Replay` with the mapping
    `replayed <- decoded` and `closed <- (pc = "closed")`, and `Trace` is given
    `RecordSpans`.
- **`MCTraceReader`** fixes the trace for TLC. It instantiates `TraceWriter` on
  three records: a 64-bit load, an uncacheable 32-bit store and a byte load,
  37 bytes in all. There is also a variant whose middle record is a 128-bit
  store. The byte streams are written out as literals so that TLC evaluates
  them once, and an ASSUME checks them against `TraceWriter`.

- **`TraceBuffer`** models the plugin's output path with several vCPU threads.
  - **State:** `buffer_compress` and `buffer_begin` are the globals of
    `qemu_plugin.c`. `deflated` is what has been given to `mz_deflate`, in
    order; `finished` says whether it was called with `MZ_FINISH`. `exit` is
    `plugin_exit`: running, hung in its loop, or returned. `overflowed`
    records a store past the end of `buffer_compress`.
  - **Threads:** each vCPU has a program counter `pc` over the statements of
    `write_buffer`'s loop, the bytes `todo` of its current record and the
    register `tmp` of `buffer_begin++`, which is a load (`LoadBegin`) and a
    store (`IncBegin`). `MemCb` is `mem_cb` with `write_in_file`: it picks one
    of `AccessKinds` and appends the record's byte ids to the history `sent`.
  - **Data abstraction:** a byte is its id `<<vCPU, access, index>>`, so a lost,
    duplicated, reordered or overwritten byte shows up in `Trace`.
  - **compress_data_to_file** is `Deflate`: `offset < buffer_begin - 1` compares a
    `size_t` with an `int`, and the chunk size is `buffer_begin`, so the whole
    buffer is deflated when `buffer_begin >= 2`, nothing when it is 1, and the
    loop never ends when it is 0 (`PluginExit` goes to "hung").
  - **Stopped** is the hung loop or the ended process; it stutters.
- **`MCTraceBuffer`** gives the access kinds: a 64-bit load (11 bytes) and a
  byte store (12 bytes), or only the load.
- **`LegacyWriter`** gives, as operators, the bytes `File_writer::write_in_file`
  and `trace_writer::write_in_trace` write: the `int` delay little-endian, the
  address (8 or 4 bytes, or none for 128- and 256-bit requests with
  `File_writer`; always 8 with `trace_writer`), the low bytes of `req_op` and
  `req_size`, and the flags byte `construct_bool_in_one_byte` shifts together
  (`FoldLeft`). No value is ever written.
- **`LegacyReader`** models `File_reader` with the loop of `from_file_seq`. Its
  state and byte actions are those of `TraceReader` (the buffer code is the
  same), translated from `hpd_cache_file_gestion.h`:
  - `FileGestion` selects the copy: `hpd_cache_file_gestion` (the one the
    sequence includes) reads an 8-byte value after every record;
    `hpdcache_file_gestion` reads one only for a store, of the width the size
    byte's high nibble gives. The older copy calls `decompress_data_from_file`
    before `read_buffer = 0` and the later one after; since decompress sets
    `end_buffer = 0` itself, both are one action, `RefillThenRead`.
  - `ReadBuffered` includes the read past the end of `buf`: nothing bounds
    `read_buffer` once a refill appended nothing, and the model stops the
    thread there (`pc = "fault"`), the read being undefined.
  - `EndMarker = "missing"` is a file whose deflate stream has no end: at end
    of file inflate appends nothing and reports no `MZ_STREAM_END`, which the
    code does not treat as an error.
  - The loop has no budget; `Replay` is instantiated with a budget above the
    file's length.
- **`MCLegacyReader`** gives the inflate output of a file in the layout the
  older reader expects: two loads as `File_writer` encodes them, each followed
  by an 8-byte value (46 bytes), checked against `LegacyWriter` by an ASSUME.
  No writer of the repository produces such a file: `File_writer` and
  `trace_writer` write raw, through an `ofstream`, and `File_reader` always
  inflates.
- **`MemRespModel`** models `hpdcache_test_mem_resp_model` with the cache as
  its environment.
  - **Scheduler:** `edge` is the clock edge and `asleep[p]` says thread `p` is
    in a `wait()`. Each action is one thread's code from one `wait()` to the
    next (`Sleep`). `Tick` moves to the next edge once every thread sleeps, and
    wakes the threads of that edge, except those in a `while (!c) wait()` loop
    whose `c` is still false (`Blocked`). Threads of one edge run in the fixed
    order `EdgeOrder` (`Turn`): they touch disjoint signals within a delta
    cycle, so the order does not change what they compute.
  - **Cache:** `IssueRead` and `IssueWrite` drive a valid request onto the
    ports at a rising edge (`CacheTurn`), with a free id. `waPend` and
    `wdPend` are the address and data flits still offered, which the cache
    may present in either order. `Sample`, part of `Tick` at a rising edge,
    is the cache's view: a valid that meets a ready is a handshake, a
    response beat is taken (the cache is always ready), and a request whose
    last beat and acknowledgement arrived frees its id.
  - **Threads:** `RPPoll`, `RPDelay`, `RPComplete` are `read_process` and
    `readOperation`; `WATop`, `WADelay`, `WAPush` and `WDTop`, `WDDelay`,
    `WDPush` are the two write-request threads (the ready delay, the raise of
    ready, the `nb_write` loop); `WPMeta`, `WPData`, `WPOp` are
    `write_process` and `writeOperation`; `RRPick`, `RRIdle`, `RRNext` and
    `WRPick`, `WRIdle`, `WRDone` are the response threads.
  - **Abstraction:** data, byte enables and the memory array are left out; a
    write carries a ghost `tag`, so a flit paired with the wrong meta shows
    up. The payload event queues are sets: a response may be taken in any
    order and at any later cycle (`RRIdle` and `WRIdle` wait with a response
    queued), which is what independent random delays allow. Addresses are
    small integers; `within_error_region` is membership of `ErrorAddrs`.
  - **History:** `writeOrder` (the order the cache issued writes),
    `performed` (the meta and data tags `writeOperation` received) and
    `exLog` (every LDEX and STEX with its outcome) feed the properties.
- **`MCMemRespModel`** gives the addresses {0, 1, 2}, address 2 in an error
  segment.
- **`FaultInjection`** models `hpdcache_fault_injection`.
  - **Builds:** `Init` chooses the build: word width, data ways per RAM word,
    access words and tag width (compile-time constants outside the
    repository). `getParBits`, `getDatRow`, `getDatCol` and `getScope` are
    operators; a scope is named by its indices.
  - **Symbolic mask:** bit i of the mask is the value i, and `NoBit` is a
    zero, so a chunk of `lv` shows which mask bit each of its bits received.
    `RangeToUint` is `mask.range(hi, lo).to_uint()` (the low 32 bits of the
    slice) and `ShiftLeft` a shift of a 32-bit unsigned.
  - **Actions:** `DatCall` is `injectDatFault` up to its head chunk,
    `DatMiddle` one iteration of `while (bits >= 32)`, `DatTail` the tail
    chunk, `cacheIdx` and the return. `DirCall`, `DirChunk` and `DirDone` are
    `injectDirFault` and its chunk loop. A slice outside the `sc_bv` or a
    chunk outside `lv` sets `pc` to "fault". `last` keeps what the last call
    wrote: the SRAM, the row, and the mask bit of every row position.

## Runs

| run | cfg | expect | what it shows |
|---|---|---|---|
| replay | `MCTraceReader.cfg` | pass | `TypeOK`; `FinishExact` (at the loop test, `is_finish()` holds exactly when every record was replayed); `NoUseAfterFree` (no refill on the freed stream); `ReplayRefinement` (the reader implements `Replay`) |
| split_end | `MCTraceReader_split.cfg` | violation | `FinishExact` fails when `MZ_STREAM_END` arrives after the last data: `is_finish()` is false after the last record, and a phantom record is replayed |
| u128_store | `MCTraceReader_u128.cfg` | violation | `ReplayFaithful` fails: a U128 store written without a value is read with 8 bytes |
| buffer | `MCTraceBuffer.cfg` | pass | one vCPU, two accesses, `SIZE_BUFFER` = 3: `TypeOK`; `NoByteLostWhileRunning` (while QEMU runs, the bytes given to deflate followed by the staged ones are always the start of the bytes `mem_cb` handed over, and all of them between accesses: no byte is lost, repeated or reordered across a flush) |
| exit_truncated | `MCTraceBuffer_truncated.cfg` | violation | `ExitComplete` fails: one staged byte at exit is never deflated and `MZ_FINISH` is never passed |
| vcpu_race | `MCTraceBuffer_race.cfg` | violation | `RecordsContiguous` fails: two vCPUs interleave their bytes in `buffer_compress` |
| legacy_valued | `MCLegacyReader_valued.cfg` | pass | the reader `from_file_seq` uses, on a file in the layout it expects: `TypeOK`, `ReplayRefinement`, `ReplayEnds` (the budget-free loop ends), `NoUseAfterFree` |
| mem_resp | `MCMemRespModel.cfg` | pass | two ids, all five request kinds, bursts of up to two beats, an error segment: `TypeOK`; `ExclusiveExact` (an STEX reports success exactly when it is outside the error segment and the last non-error LDEX/STEX of its id was an LDEX of its address); `ResponsesExpected` (every beat and acknowledgement the cache takes belongs to a request it has outstanding, and no more beats than the request asked for) |
| mem_write | `MCMemRespModel_write.cfg` | pass | two ids, ready delays of 0 or 1 cycle: `WritesPerformedAsIssued` (writes are performed in issue order, each with its own data); `EveryRequestAnswered` (every request is eventually fully answered) |
| mem_lost | `MCMemRespModel_lost.cfg` | violation | `HandshakesForwarded` fails with three ids: a data flit is handshaken while the data fifo is full, and never read |
| fault_inject | `MCFaultInjection.cfg` | pass | 36 builds, every (set, way, word): `TypeOK` (no chunk holds a bit from outside the mask); `MaskPlaced` (every mask bit lands on exactly its own bit of the target word, nothing else is set, no slice or chunk index is out of range); `FaultTargetsDistinct` (two calls for different entries never reach the same SRAM cell) |

**Bounds.**
- `MAX_SIZE_BUFFER` = 1, so `buf` has 20 slots, and one refill appends at most
  4 bytes.
- Every field boundary can therefore fall on a refill. This includes refills in
  the middle of the 8-byte address and the payload, and a refill that brings the
  last byte together with the end marker.
- The budget is one more than the trace length, so `run()` may try to read past
  the end.
- The 80,984 states of the main run cover all refill splittings of the 37-byte
  stream.
- In `TraceBuffer`, `SIZE_BUFFER` = 3 with records of 11 and 12 bytes: two
  accesses leave 0, 1 or 2 bytes staged at exit (22, 23 or 24 bytes), so every
  branch of `compress_data_to_file` is reached, and flushes fall at every
  offset inside a record. The race runs use 32-bit records (7 bytes) and one
  access per vCPU, which is enough for two threads to meet in the loop.
- In `LegacyReader`, `MAX_SIZE_BUFFER` = 1 gives `buf` 20 slots, and refills of
  up to 4 bytes split every field, the 8-byte value included. The valued file
  has two records (190,813 states); the 20 slots are few enough for the
  no-end run to reach the read past `buf`.
- In `MemRespModel`, the fifos have depth 1 (`FifoDepth`; the real depth is
  set in the base class, which is not in the repository), and `MaxReqs` = 3
  requests are issued in all. Depth 1 with two ids already blocks the
  `nb_write` loops (a write of id 1 waits in `write_process` while id 2's
  flits arrive), so every branch of every thread fires. Losing a flit needs
  the fifo full and then two more flits offered on the same channel, that is
  depth + 2 outstanding writes: the pass runs use two ids, where the code is
  safe, and `mem_lost` three. `mem_resp` fixes the ready delay at 0 and
  explores bursts and the error segment (1,882,903 states); `mem_write`
  draws ready delays of 0 or 1 cycle with one address and checks liveness.
- In `FaultInjection`, the builds combine 32- and 64-bit words (39- and
  72-bit ECC words) with 1, 2 or 4 ways per RAM word, so the head chunk
  starts at every offset the code can produce (0, 7, 8, 14, 16, 21, 24) and
  the middle loop runs 0, 1 or 2 times; the tag widths 21, 37 and 53 give
  directory words of 32, 48 and 64 bits, the exact chunk boundary, two
  chunks, and a word that fills the 64-bit mask. Four ways, four words per
  line, one or two access words and two sets give every row and column
  collision a faulty index could cause (105,780 states).

**Fairness.**
- `Spec` assumes weak fairness of `run()`'s steps. The sequence is a single
  `SC_THREAD` that never blocks inside the reader.
- The one wait is `while (!is_available_id()) wait();`. Its fairness assumes
  the driver eventually returns transaction ids.
- `LegacyReader` assumes the same weak fairness as `TraceReader`: `from_file_seq`
  is one `SC_THREAD` whose only wait is for a free transaction id.
- `TraceBuffer` assumes weak fairness of its whole next-state relation: the host
  schedules every runnable vCPU thread, and QEMU runs its atexit callbacks once
  the vCPUs stop. `Stopped` makes the final states stutter.
- `MemRespModel` assumes weak fairness of the threads (a woken SystemC thread
  runs to its next `wait()`) and of `Tick` (the clock keeps running), and
  strong fairness of `RRPick` and `WRPick`: a payload event queue delivers
  each notification after its finite delay, so a response that stays queued
  is eventually taken even though the threads poll it at every edge. The
  cache is not required to issue anything.

**Mutants.** Each property of a passing run is broken by a plausible bug:
- refilling without resetting the cursors breaks `TypeOK`;
- `is_finish` without `bool_finish` breaks `FinishExact`;
- a store payload read one byte too long breaks `NoUseAfterFree`;
- copying `buf[0]` before the refill breaks `ReplayRefinement` in the replay run;
- in `TraceBuffer`, not resetting `buffer_begin` after a flush breaks `TypeOK`,
  and a flush one byte short breaks `NoByteLostWhileRunning`;
- in `LegacyReader`, refilling without resetting the cursors breaks `TypeOK`,
  `is_finish` without `bool_finish` breaks `ReplayRefinement`, and a refill
  that does not update `bool_finish` breaks `ReplayEnds` and `NoUseAfterFree`;
- in `MemRespModel`, a beat loop `i <= len_data` breaks `TypeOK`, an STEX that
  keeps its reservation breaks `ExclusiveExact`, an error read answered with
  one beat breaks `ResponsesExpected`, a data flit read without being
  popped breaks `WritesPerformedAsIssued`, and an AMO without its read
  response breaks `EveryRequestAnswered`;
- in `FaultInjection`, a slice read as a whole 32-bit word breaks `TypeOK`,
  a head chunk without its shift breaks `MaskPlaced`, and `getDatCol`
  dividing instead of taking the modulo breaks `FaultTargetsDistinct`.

## Findings

1. **`is_finish` can miss the end of the trace** (`hpdcache_test_trace_manager.h:170`).
   - `bool_finish` is set only by the decompress call that returns `MZ_STREAM_END`.
   - This goes wrong if that call comes after the call that delivered the last
     byte. It happens when the zlib trailer falls in the next 5 MB read, or when
     the trace is empty.
   - `run()` then reads one phantom transaction from stale buffer bytes.
   - After that, `read_buffer > end_buffer`, so the cursors never meet again.
2. **128-bit stores desynchronise the trace** (`qemu_plugin.c:268` against
   `hpdcache_test_trace_manager.h:328`).
   - The writer writes no value for a 128-bit store.
   - The reader reads 8 bytes, and spec.md says 16.
   - The record after the store is read out of step, and so are all later ones.

3. **`plugin_exit` can truncate the trace** (`qemu_plugin.c:94`). With one byte
   staged, the loop `offset < buffer_begin - 1` never runs: the byte is lost and
   `MZ_FINISH` never passed, so the trace has no stream end.
4. **Concurrent vCPUs corrupt the trace** (`qemu_plugin.c:167-169`). `mem_cb`
   runs on each vCPU thread and `write_buffer` takes no lock: records
   interleave or overwrite each other, and two increments before the full test
   move `buffer_begin` past `SIZE_BUFFER`, after which bytes are stored past the
   end of `buffer_compress`. spec.md 5 says the trace has a single writer.
5. **The memory model loses write flits when a fifo is full**
   (`hpdcache_test_mem_resp_model.h:468`, and `:440` for addresses).
   `write_data_process` raises ready and then loops on
   `write_req_data_fifo.nb_write`; ready is lowered only at the top of the
   next iteration. While the fifo is full, ready stays high across rising
   edges, so the cache completes the handshake of its next data flit, which
   the thread never samples. In the trace TLC gives, three writes are issued
   with data ahead of address; the third data flit is lost, and its write
   waits forever for data (or takes a later write's). The read channel
   pulses ready for one cycle and is safe.

## Hazards shown without a run of their own

TLC also finds the next four; no run is kept for them because they share a
root cause with a run above.
- **`from_file_seq` never ends on a file without a stream end**
  (`hpdcache_test_from_file_seq.h:111`). The loop has no budget and
  `is_finish()` never holds; the reader replays phantom records from stale
  bytes and reads past `buf`. With `EndMarker = "missing"`, `ReplayEnds`
  fails in `LegacyReader`.
- **A directory tag of 54 bits or more** makes the directory word 65 bits,
  wider than the `sc_bv<64>` mask of `injectDirFault`
  (`hpdcache_fault_injection.h:145`): with that tag width `MaskPlaced` fails
  on the out-of-range slice.
- **32-bit targets cannot be replayed** (`qemu_plugin.c:187` against
  `hpdcache_test_trace_manager.h:222`): `write_adress` writes 4 address bytes
  when the target is not riscv64, and `read_address` always reads 8.
  `ReplayFaithful` fails on such a trace as it does in `u128_store`.
- **`plugin_exit` hangs with an empty buffer** (`qemu_plugin.c:94`): with none
  staged, `buffer_begin - 1` wraps to `SIZE_MAX` and `chunk_size` is 0, so the
  loop never ends and QEMU does not exit. `PluginExit` models this branch
  (`exit = "hung"`), but no run checks that `plugin_exit` returns.
- **An AMO to an error segment** gets a read response with error 0 and
  a write acknowledgement with error 1 (`hpdcache_test_mem_resp_model.h:228`);
  no document says which the cache should see.
- **An LDEX or STEX to an error segment** leaves the id's reservation as it was
  (`hpdcache_test_mem_resp_model.h:152`, `:222`); `ExclusiveExact` states
  this rule and holds.
- `trace_reader` decodes a `trace_writer` file out of step: `trace_writer`
  writes the legacy layout though its comment says it writes the reader's
  format (`hpdcache_test_trace_manager.h:428`).

## Not modelled

- **Inflate and deflate** (miniz) are outside the repository and are
  represented by their outcomes. Address and value bytes carry no control and
  are abstracted to 0.
- **`File_reader` on a `File_writer` file** (`hpd_cache_file_gestion.h:151`).
  The writer writes raw through an `ofstream`; the reader always inflates and
  tests only for `MZ_STREAM_ERROR`. What inflate does with input that is not
  a zlib stream is miniz's behaviour, so the reader is checked only on the
  inflate output of a file in its own layout (`legacy_valued`). Its records
  would also lack the 8-byte value the reader takes after each one.
- **`exec_trace_seq`** constructs `Trace_reader`, which no file defines; it does
  not compile. Its loop is `from_trace_seq`'s.
- **The writer singletons** (`instance_trace_writter`, `instance_file_writter`):
  a `lock_guard` around a null test, with nothing to interleave. File
  opening, closing, `display_binary` and the dead `get_adress` are I/O, debug
  or unused code.
- **The QEMU plugin's ASCII and no-write modes**, its uncompressed path, option
  parsing and `counter_inst` (the delay is a record field).
- **In the memory model:** the memory array, data and byte enables,
  `compute_amo`, and the debug output; multi-flit writes (`len != 0`), which
  the code only reports and the cache never issues; the base class
  `hpdcache_test_mem_resp_model_base` (fifo depths, delay generators,
  `within_error_region`, `excl_buf_m`), which is not in the repository and is
  replaced by constants and the reservation map of the model; reset, which
  the threads never test.
- **In fault injection:** the constructor, which only looks up SystemVerilog
  scopes by name, the empty `injectActiveFaults`, and the `cycles` argument,
  which no code reads. Whether `getParBits` gives the number of check bits
  the RTL's ECC uses cannot be checked: the RTL is not in the repository.
- **`hpdcache_test_unique_set_seq.h`**: a random-stimulus sequence. Its loop
  is that of `from_trace_seq`; what it adds is arithmetic on addresses,
  sizes and byte enables drawn from SCV distributions, and the LR/SC pairing.
  Its hazards are listed in `PROJECT.json` (an undefined `1UL << 64` for
  512-bit requests, segment 2 never marked as supporting AMOs, an SC that
  need not target its LR's address). It is not modelled because each of
  these would take a run of its own, and the project's runs are spent on the
  codec, the memory model and fault injection.
- **`Endianness`**: `get_address` is dead code in both readers; a pure operator
  checked against spec.md's `full_width - width(class)` remains possible.
