---------------------------- MODULE MemRespModel ----------------------------
(***************************************************************************)
(* The testbench memory: hpdcache_test_mem_resp_model                      *)
(* (src/rtl/tb/include/hpdcache_test_mem_resp_model.h), six SystemC        *)
(* threads clocked by clk_i, answering the cache's read and write channels.*)
(*                                                                         *)
(*   falling edge: read_process, write_address_process, write_data_process *)
(*   rising edge:  write_process, read_response_process,                   *)
(*                 write_response_process                                  *)
(*                                                                         *)
(* Each action is the code of one thread between two wait() calls; a       *)
(* thread that reaches wait() is asleep until the next edge it is          *)
(* sensitive to.  The cache is the environment: it presents requests with  *)
(* a free id, holds each valid until it samples ready at a rising edge,    *)
(* and is always ready for responses.                                      *)
(*                                                                         *)
(* Data is abstracted away (no property reads a value): memory contents,   *)
(* byte enables, and compute_amo are not modelled.  A request carries a    *)
(* tag, a history field naming it, so that flits can be matched.  Accesses *)
(* are of one 64-bit word, so within_region compares word addresses.  The *)
(* random delays of the payload event queues are a free choice of which   *)
(* queued response comes out next, and when.                              *)
(***************************************************************************)
EXTENDS Integers, Sequences, FiniteSets

CONSTANTS
  Id,          \* mem_req_*_id_i values the cache may use
  Addr,        \* word addresses
  ErrorAddrs,  \* the words inside an error segment (within_error_region)
  MaxLen,      \* largest len of a read request
  MaxDelay,    \* largest ra_ready_delay, wa_ready_delay, wd_ready_delay
  FifoDepth,   \* depth of write_req_fifo and write_req_data_fifo
  MaxReqs      \* requests the cache issues in one behaviour

ASSUME ErrorAddrs \subseteq Addr
ASSUME MaxLen \in Nat /\ MaxDelay \in Nat /\ FifoDepth \in Nat \ {0}

NoReq == [kind |-> "none"]
NoResp == [id |-> "none"]
ReadKinds == {"load", "ldex"}
WriteKinds == {"store", "stex", "amo"}

\* the threads, by the clock edge each is sensitive to
NegProcs == {"read_process", "write_address_process", "write_data_process"}
PosProcs == {"write_process", "read_response_process",
             "write_response_process"}
Procs == NegProcs \cup PosProcs
EdgeProcs(e) == IF e = "neg" THEN NegProcs ELSE PosProcs

ReadReq == [tag : 1..MaxReqs, id : Id, kind : ReadKinds, addr : Addr,
            len : 0..MaxLen]
WriteReq == [tag : 1..MaxReqs, id : Id, kind : WriteKinds, addr : Addr]
ReadResp == [id : Id, err : BOOLEAN, len : 0..MaxLen]
WriteResp == [id : Id, err : BOOLEAN, is_atomic : BOOLEAN]
ExclEntry == [valid : BOOLEAN, addr : Addr]

VARIABLES
  edge, asleep,
  \* the cache
  rdReq, waPend, wdPend, pending, rxBeats, rxLast, rxAck, issued, writeOrder,
  \* read_process
  rpPc, rpReq, rpDelay, rdReady,
  \* write_address_process and write_data_process
  waPc, waDelay, waHeld, waReady, waFifo,
  wdPc, wdDelay, wdHeld, wdReady, wdFifo,
  \* write_process
  wpPc, wpMeta, wpData,
  \* read_resp_peq, write_resp_peq and the two response threads
  readPeq, writePeq, rrCur, rrBeat, wrCur,
  \* excl_buf_m
  excl,
  \* history: exclusive operations and writes, in the order performed
  exLog, performed

cacheVars == << rdReq, waPend, wdPend, pending, rxBeats, rxLast, rxAck,
                issued, writeOrder >>
rpVars == << rpPc, rpReq, rpDelay, rdReady >>
waVars == << waPc, waDelay, waHeld, waReady >>
wdVars == << wdPc, wdDelay, wdHeld, wdReady >>
wpVars == << wpPc, wpMeta, wpData >>
respVars == << rrCur, rrBeat, wrCur >>
vars == << edge, asleep, cacheVars, rpVars, waVars, wdVars, waFifo, wdFifo,
           wpVars, readPeq, writePeq, respVars, excl, exLog, performed >>

\* thread p reaches wait() and sleeps until its next edge
Sleep(p) == asleep' = [asleep EXCEPT ![p] = TRUE]

\* The threads of one edge touch disjoint state, but for write_process
\* adding to read_resp_peq, which read_response_process may or may not take
\* from in the same evaluation.  They are run in one order, so that TLC does
\* not enumerate the interleavings of steps that commute.
EdgeOrder == << "read_process", "write_address_process", "write_data_process",
                "write_process", "read_response_process",
                "write_response_process" >>
Rank(p) == CHOOSE k \in 1..Len(EdgeOrder) : EdgeOrder[k] = p
Group(p) == IF p \in NegProcs THEN NegProcs ELSE PosProcs
Turn(p) == ~asleep[p] /\ \A q \in Group(p) : Rank(q) < Rank(p) => asleep[q]

\* within_error_region(addr, addr + bytes)
within_error_region(a) == a \in ErrorAddrs

TypeOK ==
  /\ edge \in {"neg", "pos"} /\ asleep \in [Procs -> BOOLEAN]
  /\ rdReq \in ReadReq \cup {NoReq}
  /\ waPend \in Seq(WriteReq) /\ wdPend \in Seq(1..MaxReqs)
  /\ pending \in [Id -> ReadReq \cup WriteReq \cup {NoReq}]
  /\ rxBeats \in [Id -> 0..MaxLen + 1]
  /\ rxLast \in [Id -> BOOLEAN] /\ rxAck \in [Id -> BOOLEAN]
  /\ issued \in 0..MaxReqs /\ writeOrder \in Seq(1..MaxReqs)
  /\ rpPc \in {"poll", "delay", "pulse"} /\ rpReq \in ReadReq \cup {NoReq}
  /\ rpDelay \in 0..MaxDelay /\ rdReady \in BOOLEAN
  /\ waPc \in {"top", "delay", "push"} /\ waDelay \in 0..MaxDelay
  /\ waHeld \in WriteReq \cup {NoReq} /\ waReady \in BOOLEAN
  /\ wdPc \in {"top", "delay", "push"} /\ wdDelay \in 0..MaxDelay
  /\ wdHeld \in 0..MaxReqs /\ wdReady \in BOOLEAN
  /\ waFifo \in Seq(WriteReq) /\ Len(waFifo) <= FifoDepth
  /\ wdFifo \in Seq(1..MaxReqs) /\ Len(wdFifo) <= FifoDepth
  /\ wpPc \in {"meta", "data", "op"}
  /\ wpMeta \in WriteReq \cup {NoReq} /\ wpData \in 0..MaxReqs
  /\ readPeq \subseteq ReadResp /\ writePeq \subseteq WriteResp
  /\ rrCur \in ReadResp \cup {NoResp} /\ rrBeat \in 0..MaxLen
  /\ wrCur \in WriteResp \cup {NoResp}
  /\ excl \in [Id -> ExclEntry]

Init ==
  /\ edge = "pos" /\ asleep = [p \in Procs |-> TRUE]
  /\ rdReq = NoReq /\ waPend = << >> /\ wdPend = << >>
  /\ pending = [i \in Id |-> NoReq] /\ rxBeats = [i \in Id |-> 0]
  /\ rxLast = [i \in Id |-> FALSE] /\ rxAck = [i \in Id |-> FALSE]
  /\ issued = 0 /\ writeOrder = << >>
  /\ rpPc = "poll" /\ rpReq = NoReq /\ rpDelay = 0 /\ rdReady = FALSE
  /\ waPc = "top" /\ waDelay = 0 /\ waHeld = NoReq /\ waReady = FALSE
  /\ wdPc = "top" /\ wdDelay = 0 /\ wdHeld = 0 /\ wdReady = FALSE
  /\ waFifo = << >> /\ wdFifo = << >>
  /\ wpPc = "meta" /\ wpMeta = NoReq /\ wpData = 0
  /\ readPeq = {} /\ writePeq = {}
  /\ rrCur = NoResp /\ rrBeat = 0 /\ wrCur = NoResp
  /\ excl = [i \in Id |-> [valid |-> FALSE, addr |-> CHOOSE a \in Addr : TRUE]]
  /\ exLog = << >> /\ performed = << >>
-----------------------------------------------------------------------------
(***************************************************************************)
(* The cache.  It changes its outputs after a rising edge, and uses an id  *)
(* again only once every response of the request with that id is in.     *)
(***************************************************************************)
FreeIds == {i \in Id : pending[i] = NoReq}

\* the cache drives its request after the rising edge, once the threads
\* of that edge are waiting
CacheTurn == edge = "pos" /\ \A p \in Procs : asleep[p]

IssueRead ==
  /\ CacheTurn /\ issued < MaxReqs /\ rdReq = NoReq
  /\ \E i \in FreeIds, k \in ReadKinds, a \in Addr, l \in 0..MaxLen :
       LET r == [tag |-> issued + 1, id |-> i, kind |-> k, addr |-> a, len |-> l]
       IN  /\ rdReq' = r
           /\ pending' = [pending EXCEPT ![i] = r]
  /\ issued' = issued + 1
  /\ UNCHANGED << waPend, wdPend, rxBeats, rxLast, rxAck, writeOrder >>
  /\ UNCHANGED << edge, asleep, rpVars, waVars, wdVars, waFifo, wdFifo,
                  wpVars, readPeq, writePeq, respVars, excl, exLog, performed >>

\* the address flit and its single data flit (len = 0) are queued for the
\* write address and write data channels, which run independently
IssueWrite ==
  /\ CacheTurn /\ issued < MaxReqs
  /\ \E i \in FreeIds, k \in WriteKinds, a \in Addr :
       LET r == [tag |-> issued + 1, id |-> i, kind |-> k, addr |-> a]
       IN  /\ waPend' = Append(waPend, r)
           /\ pending' = [pending EXCEPT ![i] = r]
  /\ wdPend' = Append(wdPend, issued + 1)
  /\ writeOrder' = Append(writeOrder, issued + 1)
  /\ issued' = issued + 1
  /\ UNCHANGED << rdReq, rxBeats, rxLast, rxAck >>
  /\ UNCHANGED << edge, asleep, rpVars, waVars, wdVars, waFifo, wdFifo,
                  wpVars, readPeq, writePeq, respVars, excl, exLog, performed >>

NeedsRead(r) == r.kind \in ReadKinds \cup {"amo"}
NeedsAck(r) == r.kind \in WriteKinds

\* what the cache samples at a rising edge: a response beat or acknowledge
GotBeat(i) == rrCur /= NoResp /\ rrCur.id = i
GotLast(i) == GotBeat(i) /\ rrBeat = rrCur.len
GotAck(i) == wrCur /= NoResp /\ wrCur.id = i
Finished(i) ==
  /\ pending[i] /= NoReq
  /\ NeedsRead(pending[i]) => rxLast[i] \/ GotLast(i)
  /\ NeedsAck(pending[i]) => rxAck[i] \/ GotAck(i)

\* the rising edge: every valid that meets a ready is a handshake
Sample ==
  /\ rdReq' = IF rdReady THEN NoReq ELSE rdReq
  /\ waPend' = IF waReady /\ waPend /= << >> THEN Tail(waPend) ELSE waPend
  /\ wdPend' = IF wdReady /\ wdPend /= << >> THEN Tail(wdPend) ELSE wdPend
  /\ pending' = [i \in Id |-> IF Finished(i) THEN NoReq ELSE pending[i]]
  /\ rxBeats' = [i \in Id |-> IF Finished(i) THEN 0
                              ELSE IF GotBeat(i) THEN rxBeats[i] + 1
                              ELSE rxBeats[i]]
  /\ rxLast' = [i \in Id |-> ~Finished(i) /\ (rxLast[i] \/ GotLast(i))]
  /\ rxAck' = [i \in Id |-> ~Finished(i) /\ (rxAck[i] \/ GotAck(i))]
  /\ UNCHANGED << issued, writeOrder >>

\* a thread in `while (!c) wait();` whose c is still false at its edge
\* would only wait again: it is left asleep
Blocked(p) ==
  CASE p = "read_process" -> rpPc = "poll" /\ rdReq = NoReq
    [] p = "write_address_process" ->
         waPc = "top" /\ waPend = << >> /\ ~waReady
    [] p = "write_data_process" -> wdPc = "top" /\ wdPend = << >> /\ ~wdReady
    [] p = "write_process" ->
         \/ wpPc = "meta" /\ waFifo = << >>
         \/ wpPc = "data" /\ wdFifo = << >>
    [] p = "read_response_process" -> rrCur = NoResp /\ readPeq = {}
    [] p = "write_response_process" -> wrCur = NoResp /\ writePeq = {}

\* clk_i: the next edge comes once every thread is in wait(); the threads
\* sensitive to it resume
Tick ==
  /\ \A p \in Procs : asleep[p]
  /\ edge' = IF edge = "pos" THEN "neg" ELSE "pos"
  /\ asleep' = [p \in Procs |-> p \notin EdgeProcs(edge') \/ Blocked(p)]
  /\ IF edge' = "pos" THEN Sample ELSE UNCHANGED cacheVars
  /\ UNCHANGED << rpVars, waVars, wdVars, waFifo, wdFifo, wpVars, readPeq,
                  writePeq, respVars, excl, exLog, performed >>

-----------------------------------------------------------------------------
(***************************************************************************)
(* read_process and readOperation                                          *)
(***************************************************************************)

\* `if (mem_req_read_valid_i.read()) readOperation(); else wait();`: the
\* request is read and ra_ready_delay drawn
RPPoll ==
  /\ Turn("read_process") /\ rpPc = "poll"
  /\ IF rdReq /= NoReq
       THEN /\ rpReq' = rdReq /\ rpPc' = "delay"
            /\ \E d \in 0..MaxDelay : rpDelay' = d
            /\ UNCHANGED asleep
       ELSE /\ Sleep("read_process") /\ UNCHANGED << rpPc, rpReq, rpDelay >>
  /\ UNCHANGED rdReady
  /\ UNCHANGED << edge, cacheVars, waVars, wdVars, waFifo, wdFifo, wpVars,
                  readPeq, writePeq, respVars, excl, exLog, performed >>

\* the delay loop, then ready for exactly one cycle
RPDelay ==
  /\ Turn("read_process") /\ rpPc = "delay"
  /\ Sleep("read_process")
  /\ IF rpDelay > 0
       THEN rpDelay' = rpDelay - 1 /\ UNCHANGED << rpPc, rdReady >>
       ELSE rdReady' = TRUE /\ rpPc' = "pulse" /\ UNCHANGED rpDelay
  /\ UNCHANGED rpReq
  /\ UNCHANGED << edge, cacheVars, waVars, wdVars, waFifo, wdFifo, wpVars,
                  readPeq, writePeq, respVars, excl, exLog, performed >>

\* fault-seeded variant of RPComplete: the error response carries one beat
\* (len_data = 0) whatever the request's len
RPCompleteErrorOneBeat ==
  /\ Turn("read_process") /\ rpPc = "pulse"
  /\ rdReady' = FALSE /\ rpPc' = "poll" /\ rpReq' = NoReq
  /\ LET r == rpReq
         err == within_error_region(r.addr)
     IN  /\ readPeq' = readPeq \cup {[id |-> r.id, err |-> err,
                                      len |-> IF err THEN 0 ELSE r.len]}
         /\ excl' = IF r.kind = "ldex" /\ ~err
                      THEN [excl EXCEPT ![r.id] = [valid |-> TRUE, addr |-> r.addr]]
                      ELSE excl
         /\ exLog' = IF r.kind = "ldex"
                       THEN Append(exLog, [kind |-> "ldex", id |-> r.id,
                                   addr |-> r.addr, err |-> err, ok |-> FALSE])
                       ELSE exLog
  /\ UNCHANGED << rpDelay, asleep >>
  /\ UNCHANGED << edge, cacheVars, waVars, wdVars, waFifo, wdFifo, wpVars,
                  writePeq, respVars, performed >>

\* ready falls; an error segment gets an error response of len + 1 beats;
\* otherwise an LDEX takes a reservation, and the data is read
RPComplete ==
  /\ Turn("read_process") /\ rpPc = "pulse"
  /\ rdReady' = FALSE /\ rpPc' = "poll" /\ rpReq' = NoReq
  /\ LET r == rpReq
         err == within_error_region(r.addr)
     IN  /\ readPeq' = readPeq \cup {[id |-> r.id, err |-> err, len |-> r.len]}
         /\ excl' = IF r.kind = "ldex" /\ ~err
                      THEN [excl EXCEPT ![r.id] = [valid |-> TRUE, addr |-> r.addr]]
                      ELSE excl
         /\ exLog' = IF r.kind = "ldex"
                       THEN Append(exLog, [kind |-> "ldex", id |-> r.id,
                                   addr |-> r.addr, err |-> err, ok |-> FALSE])
                       ELSE exLog
  /\ UNCHANGED << rpDelay, asleep >>
  /\ UNCHANGED << edge, cacheVars, waVars, wdVars, waFifo, wdFifo, wpVars,
                  writePeq, respVars, performed >>

-----------------------------------------------------------------------------
(***************************************************************************)
(* write_address_process and write_data_process: ready is raised, and the  *)
(* flit read, before nb_write has found room in the fifo.                  *)
(***************************************************************************)

\* `ready = false; while (!valid) wait();` then wa_ready_delay is drawn
WATop ==
  /\ Turn("write_address_process") /\ waPc = "top"
  /\ waReady' = FALSE
  /\ IF waPend /= << >>
       THEN /\ waPc' = "delay" /\ \E d \in 0..MaxDelay : waDelay' = d
            /\ UNCHANGED asleep
       ELSE Sleep("write_address_process") /\ UNCHANGED << waPc, waDelay >>
  /\ UNCHANGED waHeld
  /\ UNCHANGED << edge, cacheVars, rpVars, wdVars, waFifo, wdFifo, wpVars,
                  readPeq, writePeq, respVars, excl, exLog, performed >>

\* the delay loop; then `ready = true` and the flit is read into r
WADelay ==
  /\ Turn("write_address_process") /\ waPc = "delay"
  /\ IF waDelay > 0
       THEN /\ waDelay' = waDelay - 1 /\ Sleep("write_address_process")
            /\ UNCHANGED << waPc, waHeld, waReady >>
       ELSE /\ waReady' = TRUE /\ waHeld' = Head(waPend) /\ waPc' = "push"
            /\ UNCHANGED << waDelay, asleep >>
  /\ UNCHANGED << edge, cacheVars, rpVars, wdVars, waFifo, wdFifo, wpVars,
                  readPeq, writePeq, respVars, excl, exLog, performed >>

\* `while (!write_req_fifo.nb_write(r)) wait(); wait();`
WAPush ==
  /\ Turn("write_address_process") /\ waPc = "push"
  /\ Sleep("write_address_process")
  /\ IF Len(waFifo) < FifoDepth
       THEN waFifo' = Append(waFifo, waHeld) /\ waPc' = "top" /\ waHeld' = NoReq
       ELSE UNCHANGED << waFifo, waPc, waHeld >>
  /\ UNCHANGED << waDelay, waReady >>
  /\ UNCHANGED << edge, cacheVars, rpVars, wdVars, wdFifo, wpVars,
                  readPeq, writePeq, respVars, excl, exLog, performed >>

WDTop ==
  /\ Turn("write_data_process") /\ wdPc = "top"
  /\ wdReady' = FALSE
  /\ IF wdPend /= << >>
       THEN /\ wdPc' = "delay" /\ \E d \in 0..MaxDelay : wdDelay' = d
            /\ UNCHANGED asleep
       ELSE Sleep("write_data_process") /\ UNCHANGED << wdPc, wdDelay >>
  /\ UNCHANGED wdHeld
  /\ UNCHANGED << edge, cacheVars, rpVars, waVars, waFifo, wdFifo, wpVars,
                  readPeq, writePeq, respVars, excl, exLog, performed >>

WDDelay ==
  /\ Turn("write_data_process") /\ wdPc = "delay"
  /\ IF wdDelay > 0
       THEN /\ wdDelay' = wdDelay - 1 /\ Sleep("write_data_process")
            /\ UNCHANGED << wdPc, wdHeld, wdReady >>
       ELSE /\ wdReady' = TRUE /\ wdHeld' = Head(wdPend) /\ wdPc' = "push"
            /\ UNCHANGED << wdDelay, asleep >>
  /\ UNCHANGED << edge, cacheVars, rpVars, waVars, waFifo, wdFifo, wpVars,
                  readPeq, writePeq, respVars, excl, exLog, performed >>

WDPush ==
  /\ Turn("write_data_process") /\ wdPc = "push"
  /\ Sleep("write_data_process")
  /\ IF Len(wdFifo) < FifoDepth
       THEN wdFifo' = Append(wdFifo, wdHeld) /\ wdPc' = "top" /\ wdHeld' = 0
       ELSE UNCHANGED << wdFifo, wdPc, wdHeld >>
  /\ UNCHANGED << wdDelay, wdReady >>
  /\ UNCHANGED << edge, cacheVars, rpVars, waVars, waFifo, wpVars,
                  readPeq, writePeq, respVars, excl, exLog, performed >>

-----------------------------------------------------------------------------
(***************************************************************************)
(* write_process and writeOperation                                        *)
(***************************************************************************)

\* `while (!write_req_fifo.nb_read(req_meta)) wait();`
WPMeta ==
  /\ Turn("write_process") /\ wpPc = "meta"
  /\ IF waFifo /= << >>
       THEN /\ wpMeta' = Head(waFifo) /\ waFifo' = Tail(waFifo)
            /\ wpPc' = "data" /\ UNCHANGED asleep
       ELSE Sleep("write_process") /\ UNCHANGED << wpMeta, waFifo, wpPc >>
  /\ UNCHANGED wpData
  /\ UNCHANGED << edge, cacheVars, rpVars, waVars, wdVars, wdFifo,
                  readPeq, writePeq, respVars, excl, exLog, performed >>

\* fault-seeded variant of WPData: the data flit is read but left in the fifo
WPDataPeek ==
  /\ Turn("write_process") /\ wpPc = "data"
  /\ Sleep("write_process")
  /\ IF wdFifo /= << >>
       THEN wpData' = Head(wdFifo) /\ wpPc' = "op"
       ELSE UNCHANGED << wpData, wpPc >>
  /\ UNCHANGED << wpMeta, wdFifo >>
  /\ UNCHANGED << edge, cacheVars, rpVars, waVars, wdVars, waFifo,
                  readPeq, writePeq, respVars, excl, exLog, performed >>

\* `while (!write_req_data_fifo.nb_read(req_data)) wait(); wait();`
WPData ==
  /\ Turn("write_process") /\ wpPc = "data"
  /\ Sleep("write_process")
  /\ IF wdFifo /= << >>
       THEN wpData' = Head(wdFifo) /\ wdFifo' = Tail(wdFifo) /\ wpPc' = "op"
       ELSE UNCHANGED << wpData, wdFifo, wpPc >>
  /\ UNCHANGED wpMeta
  /\ UNCHANGED << edge, cacheVars, rpVars, waVars, wdVars, waFifo,
                  readPeq, writePeq, respVars, excl, exLog, performed >>

\* fault-seeded variants of WPOp: an STEX leaves its reservation valid; an
\* AMO sends no old-data response
WPOpKeepReservation ==
  /\ Turn("write_process") /\ wpPc = "op"
  /\ LET r == wpMeta
         err == within_error_region(r.addr)
         e == excl[r.id]
         excl_ok == r.kind = "stex" /\ ~err /\ e.valid /\ e.addr = r.addr
     IN  /\ readPeq' = IF r.kind = "amo"
                         THEN readPeq \cup {[id |-> r.id, err |-> FALSE, len |-> 0]}
                         ELSE readPeq
         /\ writePeq' = writePeq \cup
                          {[id |-> r.id, err |-> err, is_atomic |-> excl_ok]}
         /\ exLog' = IF r.kind = "stex"
                       THEN Append(exLog, [kind |-> "stex", id |-> r.id,
                                   addr |-> r.addr, err |-> err, ok |-> excl_ok])
                       ELSE exLog
         /\ performed' = Append(performed, [meta |-> r.tag, data |-> wpData])
  /\ wpPc' = "meta" /\ wpMeta' = NoReq /\ wpData' = 0
  /\ UNCHANGED << edge, asleep, cacheVars, rpVars, waVars, wdVars, waFifo,
                  wdFifo, respVars, excl >>

WPOpNoAmoData ==
  /\ Turn("write_process") /\ wpPc = "op"
  /\ LET r == wpMeta
         err == within_error_region(r.addr)
         e == excl[r.id]
         excl_ok == r.kind = "stex" /\ ~err /\ e.valid /\ e.addr = r.addr
     IN  /\ writePeq' = writePeq \cup
                          {[id |-> r.id, err |-> err, is_atomic |-> excl_ok]}
         /\ excl' = IF r.kind = "stex" /\ ~err
                      THEN [excl EXCEPT ![r.id].valid = FALSE]
                      ELSE excl
         /\ exLog' = IF r.kind = "stex"
                       THEN Append(exLog, [kind |-> "stex", id |-> r.id,
                                   addr |-> r.addr, err |-> err, ok |-> excl_ok])
                       ELSE exLog
         /\ performed' = Append(performed, [meta |-> r.tag, data |-> wpData])
  /\ wpPc' = "meta" /\ wpMeta' = NoReq /\ wpData' = 0
  /\ UNCHANGED << edge, asleep, cacheVars, rpVars, waVars, wdVars, waFifo,
                  wdFifo, respVars, readPeq >>

\* writeOperation: an error segment gets an error acknowledge (and an AMO an
\* old-data response besides); an STEX consumes its id's reservation and
\* succeeds if the reservation covers it; an AMO sends its old data on the
\* read channel; every write is acknowledged
WPOp ==
  /\ Turn("write_process") /\ wpPc = "op"
  /\ LET r == wpMeta
         err == within_error_region(r.addr)
         e == excl[r.id]
         excl_ok == r.kind = "stex" /\ ~err /\ e.valid /\ e.addr = r.addr
     IN  /\ readPeq' = IF r.kind = "amo"
                         THEN readPeq \cup {[id |-> r.id, err |-> FALSE, len |-> 0]}
                         ELSE readPeq
         /\ writePeq' = writePeq \cup
                          {[id |-> r.id, err |-> err, is_atomic |-> excl_ok]}
         /\ excl' = IF r.kind = "stex" /\ ~err
                      THEN [excl EXCEPT ![r.id].valid = FALSE]
                      ELSE excl
         /\ exLog' = IF r.kind = "stex"
                       THEN Append(exLog, [kind |-> "stex", id |-> r.id,
                                   addr |-> r.addr, err |-> err, ok |-> excl_ok])
                       ELSE exLog
         /\ performed' = Append(performed, [meta |-> r.tag, data |-> wpData])
  /\ wpPc' = "meta" /\ wpMeta' = NoReq /\ wpData' = 0
  /\ UNCHANGED << edge, asleep, cacheVars, rpVars, waVars, wdVars, waFifo,
                  wdFifo, respVars >>

-----------------------------------------------------------------------------
(***************************************************************************)
(* read_response_process and write_response_process                        *)
(***************************************************************************)

\* get_next_transaction() returns a response whose delay has run out
RRPick ==
  /\ Turn("read_response_process") /\ rrCur = NoResp /\ readPeq /= {}
  /\ \E r \in readPeq : rrCur' = r /\ readPeq' = readPeq \ {r}
  /\ rrBeat' = 0 /\ Sleep("read_response_process")
  /\ UNCHANGED << edge, cacheVars, rpVars, waVars, wdVars, waFifo, wdFifo,
                  wpVars, writePeq, wrCur, excl, exLog, performed >>

\* nothing due yet: wait()
RRIdle ==
  /\ Turn("read_response_process") /\ rrCur = NoResp
  /\ Sleep("read_response_process")
  /\ UNCHANGED << edge, cacheVars, rpVars, waVars, wdVars, waFifo, wdFifo,
                  wpVars, readPeq, writePeq, respVars, excl, exLog, performed >>

\* fault-seeded variant of RRNext: `i <= len_data`, one beat too many
RRNextPastLast ==
  /\ Turn("read_response_process") /\ rrCur /= NoResp
  /\ IF rrBeat <= rrCur.len
       THEN rrBeat' = rrBeat + 1 /\ Sleep("read_response_process")
            /\ UNCHANGED rrCur
       ELSE rrCur' = NoResp /\ rrBeat' = 0 /\ UNCHANGED asleep
  /\ UNCHANGED << edge, cacheVars, rpVars, waVars, wdVars, waFifo, wdFifo,
                  wpVars, readPeq, writePeq, wrCur, excl, exLog, performed >>

\* the beat was taken (the cache is always ready): the next of the len_data
\* + 1 beats, `last` on beat len_data; after the last, back to the queue
RRNext ==
  /\ Turn("read_response_process") /\ rrCur /= NoResp
  /\ IF rrBeat < rrCur.len
       THEN rrBeat' = rrBeat + 1 /\ Sleep("read_response_process")
            /\ UNCHANGED rrCur
       ELSE rrCur' = NoResp /\ rrBeat' = 0 /\ UNCHANGED asleep
  /\ UNCHANGED << edge, cacheVars, rpVars, waVars, wdVars, waFifo, wdFifo,
                  wpVars, readPeq, writePeq, wrCur, excl, exLog, performed >>

WRPick ==
  /\ Turn("write_response_process") /\ wrCur = NoResp /\ writePeq /= {}
  /\ \E r \in writePeq : wrCur' = r /\ writePeq' = writePeq \ {r}
  /\ Sleep("write_response_process")
  /\ UNCHANGED << edge, cacheVars, rpVars, waVars, wdVars, waFifo, wdFifo,
                  wpVars, readPeq, rrCur, rrBeat, excl, exLog, performed >>

WRIdle ==
  /\ Turn("write_response_process") /\ wrCur = NoResp
  /\ Sleep("write_response_process")
  /\ UNCHANGED << edge, cacheVars, rpVars, waVars, wdVars, waFifo, wdFifo,
                  wpVars, readPeq, writePeq, respVars, excl, exLog, performed >>

\* `do wait(); while (!ready)`: taken at the first edge; valid falls
WRDone ==
  /\ Turn("write_response_process") /\ wrCur /= NoResp
  /\ wrCur' = NoResp
  /\ UNCHANGED << edge, asleep, cacheVars, rpVars, waVars, wdVars, waFifo,
                  wdFifo, wpVars, readPeq, writePeq, rrCur, rrBeat, excl,
                  exLog, performed >>

-----------------------------------------------------------------------------
Threads ==
  \/ RPPoll \/ RPDelay \/ RPComplete
  \/ WATop \/ WADelay \/ WAPush \/ WDTop \/ WDDelay \/ WDPush
  \/ WPMeta \/ WPData \/ WPOp
  \/ RRPick \/ RRIdle \/ RRNext \/ WRPick \/ WRIdle \/ WRDone

Next == IssueRead \/ IssueWrite \/ Tick \/ Threads

\* a running thread runs to its next wait() and the clock keeps going; a
\* queued response comes out once its (finite) delay has run out
Spec ==
  /\ Init /\ [][Next]_vars
  /\ WF_vars(Threads) /\ WF_vars(Tick)
  /\ SF_vars(RRPick) /\ SF_vars(WRPick)

-----------------------------------------------------------------------------
(***************************************************************************)
(* Properties                                                              *)
(***************************************************************************)

\* Every write the cache issued is performed by writeOperation in the order
\* issued, with the data flit of the same write: the address and data flits
\* the cache saw accepted by write_address_process and write_data_process
\* all reach write_process, none lost and none paired with another's data.
WritesPerformedAsIssued ==
  \A k \in 1..Len(performed) :
    performed[k] = [meta |-> writeOrder[k], data |-> writeOrder[k]]

\* flits the cache saw accepted at a rising edge, and flits the model holds
\* (in write_address_process's or write_data_process's r, in the fifo, in
\* write_process, or written)
AddrAccepted == Len(writeOrder) - Len(waPend)
DataAccepted == Len(writeOrder) - Len(wdPend)
AddrHeld ==
  Len(performed) + (IF wpPc \in {"data", "op"} THEN 1 ELSE 0)
  + Len(waFifo) + (IF waPc = "push" THEN 1 ELSE 0)
DataHeld ==
  Len(performed) + (IF wpPc = "op" THEN 1 ELSE 0)
  + Len(wdFifo) + (IF wdPc = "push" THEN 1 ELSE 0)

\* Every address or data flit the cache saw accepted (valid and ready at a
\* rising edge) is held by the model: write_address_process and
\* write_data_process raise ready before nb_write has found room in the
\* fifo, and must not let a second handshake happen while they wait.
HandshakesForwarded ==
  AddrAccepted <= AddrHeld /\ DataAccepted <= DataHeld

\* the last exclusive operation of id i, before entry k of exLog, that did
\* not fall in an error segment
LastOf(S) == CHOOSE j \in S : \A m \in S : m <= j
Reserved(k) ==
  LET prior == {j \in 1..k - 1 : exLog[j].id = exLog[k].id /\ ~exLog[j].err}
  IN  /\ prior /= {}
      /\ exLog[LastOf(prior)].kind = "ldex"
      /\ exLog[LastOf(prior)].addr = exLog[k].addr

\* An STEX is acknowledged with is_atomic exactly when it is outside the
\* error segments and the last exclusive operation of its id (LDEX or STEX,
\* in the order readOperation and writeOperation ran them, on two threads)
\* was an LDEX of the same word: excl_buf_m holds one reservation per id,
\* an STEX consumes it, a later LDEX replaces it.
ExclusiveExact ==
  \A k \in 1..Len(exLog) :
    exLog[k].kind = "stex" => (exLog[k].ok <=> ~exLog[k].err /\ Reserved(k))

ExpectedBeats(r) == IF r.kind = "amo" THEN 1 ELSE r.len + 1

BeatExpected ==
  rrCur /= NoResp =>
    LET i == rrCur.id
        r == pending[i]
    IN  /\ r /= NoReq /\ NeedsRead(r) /\ ~rxLast[i]
        /\ (rrBeat = rrCur.len) <=> (rxBeats[i] + 1 = ExpectedBeats(r))
        /\ r.kind \in ReadKinds => (rrCur.err <=> within_error_region(r.addr))

AckExpected ==
  wrCur /= NoResp =>
    LET r == pending[wrCur.id]
    IN  /\ r /= NoReq /\ NeedsAck(r) /\ ~rxAck[wrCur.id]
        /\ wrCur.err <=> within_error_region(r.addr)

\* At every rising edge, a read beat or write acknowledge the cache samples
\* answers a request it has outstanding with that id and has not had
\* answered yet; a read's `last` comes on its len + 1-th beat (the one beat
\* of an AMO's old data), and read and write errors are set exactly for
\* error segments: read_response_process and write_response_process, fed by
\* two threads through payload event queues that reorder, never mix up ids
\* or beat counts.
ResponsesExpected ==
  [][edge = "neg" /\ edge' = "pos" => BeatExpected /\ AckExpected]_vars

\* Every request the cache issues is eventually fully answered, so its id
\* is freed.
EveryRequestAnswered ==
  \A i \in Id : pending[i] /= NoReq ~> pending[i] = NoReq
=============================================================================
