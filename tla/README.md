# A TLA+ model of DECTNRP

DECTNRP is a software defined radio for DECT NR+.  Four layers of threads run in one
process: the **radio layer** streams samples (a USRP or a simulator), the **PHY** searches
the samples for packets, decodes and generates packets, the **upper layers** contain the
firmware (a *termination point*, `tpoint_t`), the **application layer** exchanges
datagrams with the outside.  The program has to meet deadlines, so the layers are coupled
by preallocated buffers, lock-free queues, spinlocks, condition variables with timeouts, and
a good deal of protocol about who may touch what.  That protocol is what this project
models; the signal processing between two steps of it is abstracted to its outcome.

All paths below are relative to `src/`; `pool/` stands for `lib/src/phy/pool/`, `radio/` for
`lib/src/radio/`.

## Inventory

| component | state | operations | hard because |
|---|---|---|---|
| `job_queue_mc_t` (`pool/job_queue_mc.cpp`) | jobs, `fifo_cnt`, `permeable` | `enqueue_nto`, `wait_for_new_job_to` | several producers and consumers; a number that must match a position in a lock-free queue |
| `token_t` (`pool/token.cpp`) | mutex, `fifo_cnt` per pool, `id_holder` | `lock_fifo_to`, `unlock_fifo`, `lock`, `try_lock`, `unlock` | compares under the mutex, releases it, locks again; notifies after the release; shared by pools |
| `worker_tx_rx_t` (`pool/worker_tx_rx.cpp`) | the job in hand, the HARQ process in hand | the loop `work()` | calls firmware in FIFO order for some calls and out of order for others; waits for other workers' jobs |
| `baton_t` (`pool/baton.cpp`) | registrations, `id_holder`, `sync_time_last_64` | register, wait, pass on, unique, regular due | start-up rendezvous that calls firmware; state only its holder may touch |
| `worker_sync_t`, `sync_chunk_t` (`pool/worker_sync.cpp`, `lib/src/phy/rx/sync/sync_chunk.cpp`) | chunk, position, buffered detections | search, enqueue, pass on | search ahead of the baton in overlapping chunks; the baton may arrive at any moment |
| `irregular_queue_t` (`pool/irregular_queue.cpp`) | 8 slots, cached minimum | `push`, `pop`, `get_next_time` | pushed by firmware threads, popped by the holder of the baton, cached minimum read without lock |
| HARQ processes (`lib/src/phy/harq/`) | outer and inner lock, parameters | get, get running, finalize | locked under the token, released without it |
| `worker_pool_t`, `phy_t`, `main` | `keep_running` | start, stop | stops producers first, joins threads that wait for each other |
| TX buffers, `buffer_tx_t`, `buffer_tx_pool_t` (`radio/`) | outer and inner lock, order id, samples written | fill, announce, transmit, release | the radio transmits a packet while a worker still generates it; order across workers |
| `hw_simulator_t`, `hw_usrp_t` (`radio/`) | expected order id, time | TX loop, RX loop | consumes TX buffers in an order given by firmware |
| `buffer_rx_t` (`radio/buffer_rx.cpp`), `rx_pacer_t` (`lib/src/phy/rx/rx_pacer.cpp`) | ring of samples, time passed | advance, wait, copy | one writer, many readers, overwritten without asking; the hardware drops samples and its time jitters |
| `vspace_t` (`lib/src/simulation/vspace.cpp`) | written and read flags per device, time | register, write, read, wait | two-phase barrier among all simulated devices |
| application queues, server and client (`lib/src/application/`) | ring of datagrams | write, read, trigger | a thread on either side, jobs triggered for data |
| firmware p2p (`lib/src/upper/p2p/`) | procedure, allocations, pending release of `work_stop()` | work functions, procedures | must reach shutdown through protocol rounds |
| MAC: allocation, contact list, feedback plan, pll, ppx (`lib/src/mac/`) | tables of resources and times | next opportunity, add, estimate | arithmetic on times, wrap-around |
| AGC (`lib/src/phy/agc/`) | gain history | gain step | floating point, a round robin of antennas |
| measurement firmware (`lib/src/upper/loopback`, `txrxdelay`, `txrxagc`, `chscanner`, `rtt`, `basic`), program rtt (`apps/rtt`) | counters, the experiment under way | work functions | results arrive late, or never, and are attributed by position |
| layout of packets: `tx_t`, `rx_synced_t` (`lib/src/phy/tx`, `lib/src/phy/rx/rx_synced`), `fec_t` | symbol and cell counters, processing stage | symbol by symbol | sender and receiver walk through the same cells in different order |
| PLCFs and MAC PDUs (`lib/src/sections_part4`) | the decoder, its preallocated messages | pack, unpack, decode in pieces | octets arrive in pieces and may be garbage |
| resampler (`lib/src/phy/resample`), cyclic prefixes, lengths in samples | history, input counter | feed in pieces, flush | counters continue across calls; lengths are computed in advance from other formulas |
| search of a chunk (`lib/src/phy/rx/sync`): detection, peak, cross-correlation | moving sums, the index before which metrics are ignored | step by step through a chunk | the same packet in two chunks, another one right behind it |
| other numerics: channel estimation, offsets, MIMO, FEC, filter coefficients | buffers | sequential | floating point |
| CVG, DLC | | stubs | |
| common: callbacks, containers, JSON export, logging, threads | | | sequential |

How they interact: a worker_sync_t reads `buffer_rx_t`, and, when it holds the baton, puts
jobs into the job queue of its pool; application servers put jobs into the same queue;
worker_tx_rx_t threads take jobs out, take the token, and call the firmware; the firmware
returns HARQ processes, descriptors of packets to transmit, requests for irregular callbacks
(pushed into the irregular queue, which flows back through worker_sync_t into the job queue)
and requests for channel measurements; packets are generated into TX buffers, which the TX
thread of the hardware transmits in the order of their ids.  `main()` starts PHY and radio,
and stops upper layers, PHY and radio, in that order.

What makes each component correct:

- *token and job queue*: firmware is never executed by two threads; FIFO calls follow the order
  in which jobs were accepted, each job exactly one turn; no worker sleeps on a turn that has
  come; the worker whose turn it is always exists; threads always terminate at shutdown.
- *start-up*: `work_start()` precedes every other call of its pool.
- *synchronization*: each packet yields one job although two workers see it; jobs are in the
  order of time; nothing detected is dropped; barriers hold; callbacks are neither lost, nor
  early; the baton goes round.
- *HARQ processes*: owned by one worker, never leaked, never exhausted by as many workers.
- *TX buffers*: transmitted in the order of ids, only samples that were written are read, a
  buffer is not reused before its transmission is complete.
- *virtual space*: devices are in lockstep, the barrier always advances, shutdown terminates.
- *RX buffer*: a reader that is not too late copies samples of the time it asks for, and is woken in
  time.
- *application queue*: bounded, FIFO, nothing lost once accepted, its levels describe the datagrams at
  its head.
- *p2p*: packets never meet on the air, nobody sends without a right to, shutdown reaches both ends.
- *packets*: every resource element is used once and read as it was written; decoding terminates
  without an assertion on any octets, and yields what was sent.
- *samples*: resampling in pieces is resampling of the whole, the receiver cuts out the symbols that
  were sent; a packet is found once, at its start, whatever its position.
- *measurement firmware*: every result is that of the packet it is counted for.

## Modules

| module | models | role |
|---|---|---|
| `FirmwareCalls` | the calls `tpoint.hpp` promises a firmware | abstract specification |
| `JobPipeline` | job queue, token, workers, HARQ processes, start-up and shutdown | component |
| `JobPipelineProofs` | order and exclusion; waiting, HARQ processes, start-up, refinement | proofs |
| `WorkerSync` | baton, synchronization workers, irregular queue | component |
| `WorkerSyncProofs` | packets once and in order, barriers | proofs |
| `TxPool` | TX buffers and the workers that fill them | component, without a radio |
| `UsrpTx` | the TX thread of the USRP on top of `TxPool` | composition |
| `SimulatorTx` | the TX thread of a simulated radio on top of `TxPool` | composition |
| `TxProofs` | no lost wake-up; what both radios send was asked for | proofs |
| `VirtualSpace` | `vspace_t` and both threads of every simulated radio | component |
| `RxBuffer` | the ring of received samples, its writer and its readers | component |
| `RadioProofs` | the lockstep of `VirtualSpace`; samples and wake-ups of `RxBuffer` | proofs |
| `Application` | application queues, server, client, and the firmware that uses them | component |
| `ApplicationProofs` | order of datagrams, levels | proofs |
| `P2p` | the p2p firmware of one FT and its PTs, with the resources of `lib/src/mac/allocation` | component |
| `P2pProofs` | no collision, silence | proofs |
| `PacketReception` | a worker that receives packets: PLCF decoder, MAC PDU decoder, reports | component |
| `PacketProofs` | no octets end the decoder; code blocks, pilots and cells of a packet | proofs |
| `PhyHeader` | PLCFs, feedback info | operators |
| `MacOctets`, `MacBeacons`, `MacAssociation`, `MacResources`, `MacReports`, `MacPdu` | MAC messages and information elements, octet by octet | operators |
| `PacketGrid` | the cells of a packet, as `tx_t` writes and `rx_synced_t` reads them | component |
| `CodeBlocks` | segmentation of a transport block | operators |
| `PacketSamples` | prefixes, guard interval and resampling of a packet, from `tx_t` to `rx_synced_t` | component |
| `SyncSearch` | the search of `sync_chunk_t` for STFs | component |
| `TestRadio` | what the measurement firmware shares: callbacks and packets | component, without a firmware |
| `Loopback`, `TxRxTests`, `RttMeasurement` | loopback; txrxdelay, txrxagc and chscanner; rtt with its program | components on top of `TestRadio` |
| `TestFirmware` | one of the measurement firmwares per behaviour | composition |
| `TestFirmwareProofs` | results are of the packets they are said to be of | proofs |
| `MCMessages`, `MCPacketReception` | packets for `PacketReception` | model checking |
| `MCReceivePath` | `PacketGrid`, `PacketSamples`, `SyncSearch`, `PacketReception` and `RxBuffer`, one of them per behaviour | model checking |
| `MCSimulator` | `VirtualSpace` and `SimulatorTx`, one of them per behaviour | model checking |
| `MCJobPipeline`, `MCUsrpTx`, `MCApplication`, `MCP2p`, `MCTestFirmware` | instances | model checking |

Definitions whose name contains an underscore followed by a description (`CanLock_PerPool`,
`GapTo_OfSamplesSent`) are not part of a specification: they are plausible mistakes in the operator that
follows them, and the property listed for each in `PROJECT.json` fails when it is put in place.

### JobPipeline

One state machine for all pools that share one firmware (`upper_t::init_one_to_many`) or a
pool of its own (`init_one_to_one`, the case `Pool = {p}`).  Its variables are the members of
`job_queue_mc_t` and `token_t` under their names in the code, with the control point of every
thread: `wpc` for the worker_tx_rx_t threads, `ppc` for the threads that put jobs.

- A *step* ends where another thread can observe or interfere: at a lock, an atomic access, a
  condition variable, a call into the firmware.  The critical section of `enqueue_nto()` is one
  step (`Enqueue`), the test of `permeable` before it another one (`Produce`).
- `lock_fifo_to()` is three steps: the comparison under the mutex (`FifoCheck`), the wait
  (`Wakeup`, `TimeoutReturn`, or the notification), and `Lock`, since the mutex is free in
  between.  `unlock_fifo()` is two: `ReturnFifo` (count, release) and `NotifyAll`.
- A firmware call is the interval between `Lock` and `ReturnFifo` or `Return`; its outcome
  (interest in the PDC, packets, a report, a measurement) is a nondeterministic choice.
- A demodulated PCC is a choice between "valid" and "not valid", made when the job is taken out.
- The code of the build with condition variables is modelled
  (`PHY_POOL_TOKEN_CONDITION_VARIABLE_OR_BUSY_WAITING`), with assertions, which are on by
  default (`CMakeLists.txt:69`).  A fatal assertion ends the program (`fatal`).
- `accepted`, the only history variable, is the sequence of all jobs ever accepted.

Start-up: the `worker_sync_t` that registers last (`Registrar`) calls `work_start()` under the
token, taken with `try_lock()`; the one with id 0 (`Opener`) opens the queue.  In WorkerSync the
same registration is modelled with the times that are agreed upon.

Shutdown: `StopUpper` (`work_stop()` of the firmware, possibly before `work_start()`), then
`StopPool` for one pool after the other, then `LeaveLoop`, `Drain` and `ExitWorker`.

### FirmwareCalls and the refinement

`FirmwareCalls` says what the comments in `tpoint.hpp` promise and nothing of threads: at most one
call at a time, FIFO turns, one PDC call per PCC whose PDC was asked for, and `work_start()` exactly once, before
any other call (`Spec`).  `SpecOfPools` promises less to a firmware behind several pools: one `work_start()` per
pool, each before the other calls of its own pool.  `JobPipeline` implements them by the mapping `Calls`: `served`
counts the turn of a job from the start of its call, `owed` are the PCCs whose worker is on its way to the PDC
call, `inside` is the call of the owner of the mutex.

With one pool the code keeps the promise of `tpoint.hpp` (`ImplementsFirmwareCalls`, run `pipeline_liveness`).  With
several it keeps the lesser one only (`ImplementsCallsOfPools`, run `pipeline_shared_token`): every pool calls
`work_start()`, the second possibly after work functions of the first, which run `work_start_first` shows.

### WorkerSync

N threads, chunk i mod N each, an overlap of B steps behind every chunk of A steps.  Time is
counted in search steps.  The signal is a set of times at which packets start, chosen initially
with the least distance the air interface guarantees; a detection is such a time plus an error
from `Error`, so that two workers disagree about the time of the same packet; with `Missable` a
packet may remain undetected.  `search()` is a sequence of steps `Silence` and `Detect`, so the
baton may arrive anywhere in it; the callback for due irregular jobs that `search()` makes
after each step is part of the step, the removal from the irregular queue (`PopReport`) a step of
its own, because a firmware thread may push in between.  `jobs` is the history of everything
enqueued; `of` marks the packet behind a detection and is read by properties only.

The first loop of `work()` buffers a detection and calls `search()` again without asking whether the chunk is
complete.  If the packet was found in its last step, `search()` goes on with the next chunk of the worker, although the
baton of this one was not awaited (`Detect` to `again`, `SearchAgain`).  When the worker gets the baton and
reaches the end of that chunk, the assertion "time not continuous" (`pool/worker_sync.cpp:212`) ends the program
(`Continuous`, `Failed`).  Run `sync_continuous` shows it.  All other properties are checked and proved with this
behaviour included, up to the assertion; two name it as their exception: such a worker may enqueue an irregular job too early
(`IrregularAfterSearch`), and its chunk is not completed (`EveryChunkDone`).

An overlap is no longer than a chunk (`B <= A`): it is four STFs (`sync_param.hpp:77`, `sync_chunk.cpp:64-66`), at
most 233 µs, and chunks of the configurations have 833 µs.

### TxPool

A `buffer_tx_t` has two locks (`lockable_outer_inner_t`).  A worker takes the outer lock by trying one
buffer after the other (`TryLock`), announces the packet (`Announce`: meta data and inner lock;
`Count`: `tx_new_packet_cnt` under the mutex; `Notify`), and only then generates it, symbol by symbol
(`Fill`, `Publish`).  The radio may transmit what is published.  `content` says which packet's samples a
buffer holds and how many of them, so a sample read too early or too late shows.  The firmware
chooses ids, times and lengths under the token, hence `Packets` is a sequence; it is a constant
because the radio only depends on these four numbers.  If no buffer is free the packet is dropped
(`dropped`), as in builds without assertions.

The step of `set_transmitted_or_abort()` is split where another thread can interfere: `Release` is
everything up to `unlock_outer()`, `Uncount` the decrement of the counter under the mutex.

### UsrpTx

`work_tx()` of `hw_usrp_t`, one action per section of its loop: wait for the packet that is due
(`Begin`, `Search`, `Enter`, `WakeUp`, `Timeout`), `StartOfBurst`, `StartOfPacket`, `SendSpp`,
`LookAhead`, `SendFinal`, `ReleaseBuffer`, `Uncount`, `Exit`.  Only the first sample of a burst has a
time; `clock` counts on from it, `sent` is the history of everything sent with the time it leaves.
A wait for samples that are not published is a disabled action, as the code spins without
timeout (`wait_for_samples_busy_nto`).

### SimulatorTx

`work_tx()` of `hw_simulator_t`: in every spp it writes zeros or samples, and a packet may end and the
next one begin in the same spp.  Whether writing is allowed is left to `VirtualSpace`.
Time advances with the thread, so how far ahead the firmware plans must be said: a packet is asked
for at least `Turnaround` samples before its time (`tmin_t::turnaround`), and generated in time
(`InTime`, in the code an assertion).  `Planned` says what plans are considered: ids follow one another, as all
firmware of the repository numbers them, and packets do not overlap.

At the end of a packet the thread takes over length and time of the next one at once, also if that begins in a later
spp, but the counter of samples stays that of the packet that ended.  If the next packet is longer, it is written from
its middle.  So `WrittenOnTime`, every sample at its time, is false (run `simulator_on_time`), and what holds
is `WrittenAsAskedOrCut`: packets are written in order, completely and at their times, but for a packet that was looked up at the
end of a shorter one and begins in a later spp, of which the front is missing (`CutOff`).

### VirtualSpace

All simulated radios and their threads.  Time is counted in spp: `now_64` is the time of the virtual
space, `tx_now` and `rx_now` the times the threads believe in, `space` the time of the spp each radio
wrote last.  What the TX thread sends is reduced to what matters here: with a packet (`left` > 0) it
waits without timeout, otherwise with one.  Both sides of the barrier, `write()` and `read()`, are
one step each, as they hold the mutex.

### RxBuffer

The RX thread of the hardware calls `recv()` (`Recv`, `Overflow` when the hardware drops samples)
and adds what it received to the ring (`get_ant_streams_next()`: the time is taken over from the
hardware if it is off by more than the jitter), publishes the time and notifies.  A reader is a
worker with an `rx_pacer_t`: it waits for a time (`wait_until_nto`) and copies units, one step each, while
the RX thread goes on.  The content of the ring is the time at which a sample was really received, so
that a sample of another time shows.  All times are relative to the next sample, which makes the
state space finite; times before `Floor` are alike.

### Application

`application_server_t::work_sc()` polls its connections, writes datagrams to their queues and enqueues
jobs; `application_client_t` waits for indications and forwards; the firmware, in one call after the
other, reads the levels of a queue, pops as many datagrams as fit and writes what it receives to the queues of
the client.  `queue_t` is modelled with its two indexes, of which one slot stays free.  `ingress`,
`egress`, `read` and `forwarded` are histories.

### P2p

Each work function is one step, since the firmware is called under the token.  A device's record
holds its state (`tfw_p2p_rd.cpp`), the pending irregular report, the last beacon time known, the earliest
time of its next packet, and whether `work_stop()` waits; `air` holds its packets that are not yet
past, from the moment they are asked for until the receiver has processed them.  A packet may be
lost for every receiver.  Times are relative to the present and `Tick` moves them; it waits
for what is due, so lateness is bounded by `MaxDelay` for callbacks and `RxDelay` for received packets.

### PacketReception, PhyHeader and the MAC modules

`pack()`, `unpack()`, `is_valid()`, `get_packed_size()` and `get_packed_size_by_peeking()` of every
message are operators, translated one by one, so that nothing but the code makes them inverse to each
other.  A message is a function from the names of the fields it has; octets are numbers.
`MCMessages` enumerates every message: all fields at their lowest, at their highest, each optional one alone.
Only those are left out on which the assertions of `pack()` end the sender, or on which it reads an optional
that has no value (`PackReturns`).  That what is sent is received is not true of all others, and `ReceivedAsSent` names the exceptions:

- the beacon header loses the lowest octet of the network ID (`HeaderAsSent`, `mac_common_header.cpp:88`, `:93`);
- of the channels of a network beacon only the number is sent (`network_beacon_message.cpp:160`), the network beacon
  period of an association request is masked away (`association_request_message.cpp:234`), every association
  response is received as a rejection (`association_response_message.cpp:201`), and the feedback of a broadcast
  indication is not shifted back (`broadcast_indication_ie.cpp:199`); all of these in `Lossy`;
- a short element at the end of a transport block is not found (`CutOff`).
`PacketReception` is the receiver: one packet after the other, both PLCF types tried, the transport block
arriving in pieces of any size, and `mac_pdu_decoder_t::decode()` as the state machine of the code, which stops
where the octets end and goes on where it stopped.  The HARQ buffer keeps octets of earlier
packets.  After a wrong CRC the octets are arbitrary within the list of `MCPacketReception`.  A build that activates
broadcast indications ends on one with feedback, and `NoAssertionFails` says so.

### PacketGrid and CodeBlocks

The transmitter fills the OFDM symbols one after the other with DRS, PCC and PDC cells
(`Transmit`), the receiver collects symbols into its processing stage until a channel estimate is
available, and reads them (`Collect`, `ReadStage`, `ReadLeft`).  Complex values are replaced by
their position, samples by the symbol they stem from: what remains are the indices, which is what
sender and receiver have to agree upon.  `CodeBlocks` says which bits belong to which code block
at every moment; `Segmentation` gives their number and sizes (`BlocksFor`, `BlocksOf`).

### PacketSamples

A sample is its position.  `TransmitSymbol` writes a symbol with its prefix (two copies that may overlap, so
`memcpy` may go either way) and resamples it, `CompletePacket` flushes the history and adds the guard interval.
The receiver takes symbols out of its local buffer (`MixWhole`), or what there is of one (`MixFront`), resamples unit
by unit until the rest is there (`ResampleUnit`), and goes on from the front of the buffer (`MixRest`).  An output
sample is a subfilter and the newest input sample it sees; the tables of the manually unrolled loops are those
of the code.  The reference (`OutputsOf`) is the definition of resampling by L/M.

The receiver divides the DFT of its class by that of the packet as integers (`rx_synced.cpp:499`).  For b = 8 in a
class of 12 and b = 12 in a class of 16, without oversampling, the quotient is rounded down and prefixes are cut too
short.  Such packets are among those of the run, and `SymbolsCutRight` names them as its exception.

### SyncSearch

A signal is noise of constant power and packets of different amplitude on two antennas; an STF repeats a pattern
with the signs of the cover sequence.  Power and correlation of a window, and so the metric, are exact integers
(the metric in thousandths).  `SearchDetection` goes through a chunk in
steps of a quarter pattern, `SearchPeak` follows a detection with the smoother, `FalseAlarm` or `CoarsePeak` judge
the peak, `FinePeak` correlates with the template.  The carrier frequency offset is zero.

### TestRadio and the measurement firmware

Times are relative to the present.  An irregular callback may come up to `Late` after its time, a
packet may be processed up to `Lag` after its end, and PCC and PDC may be missed.  `Loopback` has the
variants `snr`, `ratio` and `mmie`; `TxRxTests` the firmware txrxdelay, txrxagc and chscanner;
`RttMeasurement` the FT, the PT and the program that exchanges datagrams with the FT and has a timeout.
`TestFirmware` runs one of them, as `upper_t::add_tpoint` creates the firmware that the configuration names.

Real time enters as relations between constants, which the modules assume by name:

- `LoopbackAssumption`: after an experiment loopback waits for longer than its jitter, two packets, the
  preparation of a packet and the lag of the receiver together (15 ms against packets below 1 ms).
- `TestAssumption`: txrxdelay and txrxagc have their next callback after the packets of this one can have been
  processed; chscanner retunes longer before a measurement than the window that is measured
  (50 ms before the first one, a window of 5 ms).
- `RttAssumption`: the timeout of the program is longer than a round trip, ids of datagrams are distinguishable.  So
  an answer never comes after the timeout, and `MeasurementsRight` says nothing of late ones, nor of a datagram that
  was left without a job at the start (`unserved`): in both cases the code counts results for the wrong datagram, see
  the observations.

## Runs

| run | instance | what it shows |
|---|---|---|
| `pipeline_shared_token` | 2 pools, 3 workers, 2 jobs, symmetry, 2.9 million states | exclusion, FIFO order, no lost wake-up, the turn is always held, implements `FirmwareCalls` with one `work_start()` per pool |
| `pipeline_liveness` | 1 pool, 2 workers, 2 sync producers, one registers last, the other opens the queue, an application producer, 2 jobs, fair, 269 thousand states | implements `FirmwareCalls`: `work_start()` once and first; every job is served, shutdown completes |
| `sync_radio` | 2 workers, 3 chunks, packets at 2 times, found up to one step late, missable, 1 report, one buffered detection, fair, 331 thousand states | once per packet, order, nothing dropped, barriers, reports never early; the baton goes round, shutdown completes |
| `usrp_tx_bursts` | 2 workers, 2 buffers, 4 packets: without a gap, with a small and a large one, one id skipped, fair, 118 thousand states | times and order, every packet is sent, shutdown |
| `simulator` | 2 radios, packets up to 2 spp, 3 spp of time, fair; or one TX thread, 2 workers, 2 buffers, 4 packets, two of them share an spp and one is longer than the packet before it; 84 thousand states | superposition, time passes, shutdown without packets; packets whole, in order and at their times unless they are cut |
| `application` | 1 server and 2 client connections, 3 slots, 2 levels, 3 datagrams each way, fair, 315 thousand states | order, levels, every datagram forwarded, shutdown |
| `p2p` | 1 PT, period 5, 2 resources, valid for 8 after a beacon, 3 HARQ processes, fair, 346 thousand states | no collision, silence, every stopped device is released |
| `receive_path` | cells: 4 subcarrier spacings, 3 bandwidths, up to 8 transmit streams, up to 30 symbols, 3 strides; samples: ratios 1, 10/9 and 40/27, oversampling 1 to 4, 5 classes, packets narrower than their class of 12 or 16; STFs: one packet at every position, two and three packets in a row, 2 antennas, 3 chunks; PDUs: every message, garbage, pieces of 0 to 5 and 100 octets; ring: 25 samples, up to 3 per call, units of 5, 2 drops; 1.7 million states, of which the ring has 1.3 | every cell once, read as written, code blocks, pilots; samples are right through; each packet is found once, at its start; no assertion of the decoder fails, received as sent; samples of the right time, woken in time |
| `test_firmware` | the variants of loopback, txrxdelay, txrxagc, chscanner and rtt, 153 thousand states | results are counted for the packet they belong to; loopback ends |

Three runs show what is not so.  Each states what the repository says of the program, and ends with a counterexample.

| run | claim | what the code does |
|---|---|---|
| `work_start_first` | `work_start()` is "Called before any other work-function" (`tpoint.hpp:76-77`) | with two pools on one firmware each calls it (`pool/baton.cpp:76`, `:81`), the second after work functions of the first |
| `sync_continuous` | chunks are done one after the other (the assertion `pool/worker_sync.cpp:212`) | a worker without the baton that finds a packet in the last step of its chunk searches its next chunk |
| `simulator_on_time` | "We now keep transmitting zeros until the packets starts, and then we transmit the actual samples" (`radio/hw_simulator.cpp:368`) | a packet longer than the one before it that begins in a later spp is sent from its middle, too early (`:507`) |

Their constants are those of `pipeline_shared_token`, `sync_radio` and `simulator`.

Bounds and why they are enough.

- *JobPipeline*: three workers are needed for one to hold the turn, one to wait and one to notify; the
  theorems cover the rest.  `MaxIrregular`: only whether a report is pending matters, the slots are
  modelled in WorkerSync.
- *WorkerSync*: two slots instead of eight are enough for a full queue, a pop that leaves a report
  and one that does not.  One buffered detection instead of ten reaches the full buffer.  Chunks of four
  steps with an overlap of two contain a packet inside, one in the overlap, and one in the last step, after which
  the worker goes on without the baton.  Two errors of the estimate, 0 and 1, let two workers disagree in either
  direction; larger ones, more packets and workers are covered by the theorems.
- *TxPool and radios*: two buffers allow one to be transmitted while the next is filled, and with
  two workers all are taken and a packet is dropped.  Symbols of two samples, an spp of two or
  three: a packet takes several symbols and several spp, which do not coincide.  Of the packets of the
  simulated radio the second begins in the spp in which the first ends, the third in a later one than the second ends, and
  is longer.
- *VirtualSpace*: two radios contain every case of "the last one" and "not the last one"; three spp
  exercise both phases repeatedly.
- *RxBuffer*: the ring is as short as `nof_new_samples_max * 8` allows, so it wraps several times; a
  reader starts close to the present or so far back that it is almost too late.
- *Application*: three slots hold two datagrams, so queues are empty, full, and wrap; two levels are fewer
  than the datagrams that arrive.
- *P2p*: the validity of 8 after a beacon is between one and two periods, so a PT goes on without a
  beacon once and falls silent then.  A second PT is covered by the theorems.
- *PacketReception*: for every message all fields at their lowest, all at their highest, and each
  optional one alone; the pieces contain sizes below, at and above what the decoder asks for.
- *PacketGrid*: the tables of DRS symbols repeat after at most 30 symbols.
- *PacketSamples*: the ratio 40/27 and prefixes of narrow packets in a wide class occur; units are shorter and longer
  than a symbol, so a symbol needs none, one or several of them.
- *SyncSearch*: a pattern has 8 samples, so steps of a quarter pattern do not hit every sample.  Chunks are shorter
  than two STFs: a packet lies within a chunk, across its end, or in the overlap of two.
- *Measurement firmware*: two experiments per parameter, lateness of two units: longer than a packet.

`MaxJobs`, `MaxReports`, `LastChunk`, `LastTime`, `LastWritten`, `MaxDrops`, `MaxIngress`, `MaxEgress`, `QueueLength`, `Probes` and
`Ids` stop what grows without bound in the code; they are in guards and no property speaks about
reaching them.  Symmetry is used for workers of the same pool and for HARQ processes, in the
run without liveness properties.  Two runs do not check for deadlock: `receive_path` because a behaviour
ends with its last packet, `test_firmware` because loopback comes to an end.

Fairness.  Weak fairness for the steps of every thread, as the operating system runs every thread
that can run, and spinning threads see what they wait for.  Beyond that:

- *JobPipeline*: strong fairness for `TimeoutReturn`, because a condition variable with a timeout
  returns sooner or later although its mutex is taken now and then; nothing for `Produce`,
  `Wakeup` and `StopUpper`: packets, timeouts of a running pool and ctrl+c need not happen.  So only
  shutdown depends on timeouts.
- *WorkerSync*: the same, strong fairness for the timeout of the baton.
- *UsrpTx*: the timeout is fair only after `work_stop()`; a running radio needs notifications only.
- *VirtualSpace*: strong fairness for `Writable` and `Readable`: a thread that times out and waits again
  looks at its flag every time, and the flag does not change before the thread acts.  Weak fairness
  for `Stop` once the first radio is stopped.
- *Application*: strong fairness for the firmware, which takes locks that the client takes again and again but
  releases for 100 ms each time it waits; `WorkStop` only once the user has asked for it.
- *P2p*: time goes on for ever, unless an assertion has ended the program.
- *Measurement firmware*: callbacks and packets come, time passes.
- *SimulatorTx* shares a run with *VirtualSpace*, whose threads have all terminated in those behaviours, so the
  fairness of that run asks nothing of it.
- *SimulatorTx*, *RxBuffer*, *PacketReception*, *PacketGrid*, *PacketSamples*, *SyncSearch*: only safety is checked.

## Proofs

Each theorem holds for every value of the constants that the named assumption allows.  Invariants that
the runs check are proved from an inductive one; where that one is not obvious it is described here.
Leaves that take long name their prover and a generous limit (`SMTT(60)`, `ZenonT(60)`), so that a slow machine
proves them too; all others need a fraction of the limits that are usual.

**`JobPipelineProofs`**, for every number of pools, workers, producers, HARQ processes and jobs, from
`ConstantsAssumption` (threads have pools, roles are disjoint, one registrar per pool, finitely many
workers):

- `TypeCorrect`: `Spec => []TypeOK`.
- `Invariant`: `Spec => []IndInv`, and from it `TokenAssertionsHold`, `FirmwareIsExclusive` and
  `FifoOrderHolds`.

The properties are not inductive.  That the job in hand is the one whose turn it is depends on
what lies in the queue and in other workers' hands, so `IndInv` says four things at once:
`HolderInv` (the owner of the mutex is who executes the firmware, and `id_holder` is its pool),
`QueueInv` (the queue holds the youngest accepted jobs with consecutive numbers), `HeldInv` (jobs in
the hands of workers left the queue, had no turn yet, and differ), `TurnInv` (a worker that
compared successfully still has its turn when it locks, because only the worker with that number
can advance the count).  The proof has a lemma per action; frame lemmas (`QueueFrame`,
`HeldFrame`, `HolderFrame`, `TurnFrame`) carry each part over the steps that do not touch it.

The second half of the module builds on `IndInv`:

- `NoLostWakeupHolds`: only the end of a turn changes the number that workers wait for, and it makes the
  worker a notifier; a worker that compares late sees the new number.
- `TurnIsHeldHolds`: `CoverInv` says that while a pool runs every job that left its queue and had no turn
  is in the hands of a worker, so the job of the current turn is.  It needs `LeaveInv`: workers leave
  their loop, and give up jobs, only after their pool was stopped.
- `HarqExclusiveHolds` and `HarqAvailableHolds`: `HarqInv` ties the process a worker owns to its place
  in the calls; that one is free is a pigeonhole argument (`FS_Injection`): if none were, other
  workers, one fewer than processes, would own all of them.
- `WorkStartIsFirst` and `StartGetsTokenHolds`, for a firmware with a single pool: `StartInv` says that until
  work_start() of a pool has returned its queue is closed and empty and its workers are idle.  With
  several pools both are false (run `work_start_first` for the first; an assertion for the second, see the observations).
- `CallsOfPoolsImplemented`: `Spec => ImplementsCallsOfPools`, the refinement for any number of pools.  Initial
  states map to initial states, and every action to one call, one return, or a stutter.  The turn of a call is
  that of `FirmwareCalls` because of `FifoOrder`; that a PDC call is owed needs `CallInv`: two workers on their
  way to a PDC call never have the same job, and the jobs had their turn.
- `FirmwareCallsImplemented`, for a firmware with a single pool: `Spec => ImplementsFirmwareCalls`, with `work_start()`
  exactly once and first.

**`WorkerSyncProofs`**, for every number of workers, length of chunks and overlap, set of packets and
reports, from `SyncAssumption` (packets are farther apart than the overlap and than the unique limit plus the
inaccuracy, which are limits of the air interface; an overlap is no longer than a chunk):

- `PacketsOnce`, `Barrier`, `DetectionsKept`, `IrregularJobsBehindSearch`: the four invariants of the run, from
  `SyncInvariant`: `Spec => []SyncInv`.

`ChunkInv` makes sense of who is where: the baton is at the chunk after the last one completed, the turn of a
worker (`Turn`) is as many chunks ahead of it as its id is ahead of the holder's, and a worker is at the chunk of its turn or, if
it went on without the baton, at a later one of its own.  `HandInv` says that what a worker has found lies in what it has
searched since the chunk of its turn began, and in order.  `BehindInv` is the heart: a
packet that has its job lies before the turn of every other worker or at most in the overlap, behind
what this worker has in hand.  In the overlap there is room for a single packet, so a worker that
finds it again finds it within the unique limit of `sync_time_last`, and one that finds another one does
not.  When the baton reaches a worker that went on (`Stuck`), what it has in hand may lie behind the chunks of others, but then
nobody else enqueues anything any more: it keeps the baton until its assertion ends the program.
`KeptInv` says that what was detected is in somebody's hands or has its job.

**`TxProofs`** is about both radios, for every number of buffers and workers and every sequence of packets, from
`PoolAssumption` (finitely many workers, packets have distinct ids and none is its own successor).
What keeps the buffers consistent is proved once: both radios extend `TxPool`, and this module extends both,
which is why the definitions of `SimulatorTx` have names of their own (`SimulatorSpec`).

The USRP, from `UsrpAssumption` (packets are longer than an spp):

- `NoLostWakeupTheorem`: `Spec => []NoLostWakeup`.  The argument counts.  `tx_new_packet_cnt` is the number
  of transmittable buffers, minus the packets that are announced and not yet counted, plus one
  while the TX thread is about to subtract the buffer it has released (`Counted`).  So when the thread is
  about to sleep with the reference zero although its packet is there, some worker has yet to count, and
  to notify (`Waiting`).  Facts about cardinalities come from `FiniteSetTheorems`.
- `SentAsAskedHolds`: `Spec => []SentAsAsked`.  `PoolInv` says that a buffer belongs to one worker until its
  samples are complete, that what a transmittable buffer says about its packet is true, and
  that published samples are written.  `Clock` relates the time of the next sample to the packet
  being sent, through bursts and gaps; `Progressing` relates the history to it: between packets
  the last one is complete and the id expected is that of its follower.

The simulated radio, from `SimulatorAssumption` (packets are longer than an spp, and the firmware plans at least two of
them ahead) and `Planned` (ids follow one another, packets do not overlap), all three together `SimulatorFacts`:

- `WrittenAsAskedOrCutHolds`: `SimulatorSpec => []WrittenAsAskedOrCut`, for all such plans, those in which a packet is cut
  included.  What is written goes on packet by packet; of a packet that is cut the theorem says
  where it is cut and that it comes less than an spp after the one before and not after its own time.
- `FoundInTimeHolds`, for the assertions of the thread (`hw_simulator.cpp:383`, `:414`, `:454`, `:518`, `:529`), after a cut
  packet as well.  Both follow from `SimulatorInv`.

Its length, time, offset and counter are shared by the packet that ends and the one that begins in the same spp, and the
invariant says of every control point which packet they belong to: what has been written ends `Between` two
packets or `Within` one, or the counter is still that of the packet before (`Stale`), and the buffer that is being
read contains the packet that is due (`Reading`).  In that third case the next sample lies behind the end of the packet
before by less than an spp, and not behind the time of the packet itself, which is what `CutOff` says.  The
packet that is due is never asked for when it is too late (`NotBefore`), as the firmware plans ahead.

**`RadioProofs`** has the theorems of `VirtualSpace` and of `RxBuffer`, which is why the specification of
`RxBuffer` is named `BufferSpec`.  For every number of radios, length of packets and time, from
`SpaceAssumption`:

- `LockstepHolds`: `Spec => []Lockstep`, and from it `SpaceAssertionsHold`, `SuperpositionHolds` and the
  action property `NobodyOverwritesHolds`.

`Lockstep` says that there are two phases.  In `Writing` some TX thread has not written and all RX
threads have read; in `Reading` some RX thread has not read and all TX threads have written.  The
phase and the flag of a thread determine how far it is ahead of `now`.  The last writer and the
last reader switch phases.

For every ring, number of samples per call, unit, period, number of readers and drops, from `RxBufferAssumption` (the ring is eight times the largest call and a multiple of the
unit, `buffer_rx.cpp`; the jitter spans at most one sample after a correction):

- `WorkerWokenInTime`: `Spec => []WokenInTime`.  The next notification is never farther away than a
  period, and a correction moves the time only forwards.
- `SamplesRightHolds`: `Spec => []SamplesRight`.  `Kept` says of all times from `MaxNew - Ring` to the present
  that the ring holds, at the index of the time, a sample of this time, unless it was lost.  The
  index is a residue, and the samples that the hardware may write next lie outside of the window; a
  correction loses times and moves the index by the same amount.  `Behind`: a reader is behind the
  time it loaded last, so it does not read what is yet to come.

**`ApplicationProofs`**, for every number of connections, slots, levels and datagrams, from
`ApplicationAssumption`:

- `QueuesInOrder` and `LevelsStayTrue`, from `QueuesInv`.  Everything about the ring with its two indexes is in
  lemmas on operators: writing to a queue that is not full appends to its content (`WriteAppends`), reading
  removes its head (`PopRemoves`), levels are a prefix.  The server only appends to what the firmware looks at.

**`P2pProofs`**, for every number of PTs, resources and HARQ processes, every period, validity and
load, from `P2pAssumption` (all resources lie within a beacon period, which `allocation_ft_t` asserts; callbacks
are punctual enough for the preparation; the preparation time is not longer than the validity after the
present, and dissociation waits for longer than packets are scheduled ahead, as the values in
`steady_rd.cpp:52-55` and `:210-213` have it):

- `NoCollisionHolds` and `SilenceHolds`, from `IInv`.  There is an *anchor*: all beacon times that any device
  knows, however old, differ from it by a multiple of the period.  So a packet lies, within the
  period, at the place of its device, whichever beacon it was scheduled from (`Placed`), and places of
  different devices are disjoint.  Packets of one device follow each other because of
  `earliest`.  The FT leaves its next beacon free (`FtInv`), a PT knows no later beacon than the last
  one and schedules nothing beyond its validity (`PtInv`).  Time passing moves the anchor by one.

**`TestFirmwareProofs`**, for every number of parameters, SNRs, experiments, antennas, frequencies and
datagrams, and for all times, from `RadioAssumption`, `LoopbackAssumption`, `TestAssumption` and `RttAssumption`:

- `MeasurementsInvariant`: `Spec => []Inv`, and from it `MeasurementsRightHolds`: `Spec => []MeasurementsRight`.

`MeasurementsRight` compares results with histories and says nothing of what is still to come, so each firmware has
an invariant about the packets on the air and the callbacks that are due.  All firmware: packets are in
the order of time and none is older than `Lag`.  Loopback: there is one callback ahead, all packets are decoded before
the one that leaves the parameter or the SNR, packets on the air are those of the present row and column, and rows were
saved one after the other.  The proof that this holds is the assumption about the waiting times; without it the
packets of one SNR would be counted for the next.  txrxdelay and txrxagc: a pair is decoded before the next
callback, or the callback that changes the gain between the two packets is still ahead, and of all antennas only the
one under test may be a step off.  chscanner: the frequency was tuned at least a window ago.  rtt: the datagram awaited is in one
place: not sent or lost, in the job queue, on the air to the PT, on the air back, or answered.  In each of them the
time since it was sent is at most the part of a round trip that is over, so the timeout cannot come first, and
the counts of FT and program agree or differ by the datagram under way.

**`PacketProofs`**, first part, for all packets, whatever their octets, all cuts into symbols, and whatever the
buffer held before, from `ReceptionAssumption` (octets are below 256, and a transport block has at least one,
which `packet_sizes.cpp:168` demands):

- `NoAssertionFailsHolds`: `Spec /\ Activated \subseteq Robust => [](NoAssertionFails /\ assertion = "none")`, from
  `DecoderInv`.

`Robust` are the types whose `unpack()` neither asserts that the fields are valid nor takes the value of an
optional field that may be missing.  All types that `mmie_activate.hpp` activates (`Shipped`) are among them.  Of the others a
packet with a wrong CRC, or of another sender, may end the program, so the theorem cannot hold for them.  The run
checks builds with them, too, on what this transmitter sends: there `NoAssertionFails` holds but for the exception it
names, a broadcast indication with feedback, which the theorem does not need.

`DecoderInv` says what each state of the decoder relies on.  The octet of the multiplexing header is read twice, and
the second time, after more symbols maybe, its type is known to be activated: so it must have been one that was
written, not what an earlier packet had left (`StateInv`).  Between two calls everything has been read, or
what is missing is still to come (`RestInv`); so when the last symbol has come, only the two final states
are left.  For the assertion that lengths match, `NetworkBeaconAt`, `ClusterBeaconAt` and `MeasurementReportAt` show that
`unpack()` stops where `get_packed_size()` of what it has read says, for all octets.  `Optionals` is a
recursive function; what it computes for four and five fields follows from `OptionalsSteps`, for which a solution of
the recursion is written down.

**`PacketProofs`**, second part, for all packets whose definition `get_packet_sizes()` accepts, of any size, mode, MCS
and block length, from `DefinitionsAssumption` (the ranges that function asserts) and `StridesAssumption`:

- `CodeblocksHold`: `GridInit /\ [][GridNext]_grid => []CodeblocksAsEncoded`, from `BlockInv`;
- `PilotsHold`: `GridInit /\ [][GridNext]_grid => []PilotsAsExpected`, from `PilotInv`;
- `CellsFilled`: `GridInit /\ [][GridNext]_grid => []EveryCellOnce`, from `CellInv`;
- `ReadsHold`: `GridInit /\ [][GridNext]_grid /\ McsLimit => []ReadsAsWritten`, from `ReadInv`.

`McsLimit` says that the MCS index is 9 at most, which is `limits::dectnrp_max_mcs_index`; `tx_t` (`tx.cpp:482`) and
`rx_synced_t` (`rx_synced.cpp:355`) assert it, for want of a table for 1024-QAM.  The other three theorems hold
without it.

Sender and receiver compute what belongs to a code block differently: `pdc_enc_t` looks forward from the
cells of the next symbol, `pdc_dec_t` back from the bits it has.  `Sizes` and `Shares` show that the code blocks
divide the bits of the transport block and of the PDC without a rest, `Blocks` that a block boundary is the same
number for both, `EncodeEnough` and `DecodeAll` that the one encodes no less than the symbol takes, and the other
decodes all that is complete and nothing beyond.  `BlockInv` adds that what has been encoded covers the cells
written, and that a resting receiver is neither behind nor ahead of the cells it has read.
Minima and maxima of the model are the least and greatest elements of sets; that they exist follows by
well-founded induction on the naturals (`LeastNatural`).

The estimate names the pilots it is interpolated from only by where they are in a ring of two slots per stream, and
the look up table expects certain symbols there.  `PilotInv` numbers the DRS symbols: number `k` of the first or the
second four streams is due (`DrsState`), the symbol in hand lies between the last one and that one, so none has been
left out (`Between`), and the last two pilots of each stream are in the slots that their numbers and the stream
say (`Interlaced`).  Part by part it adds where in the stage the receiver is (`PilotsPcc` to `PilotsRest`).  A stage
is read when both of the pilots that surround it are there (`CollectedAll`, `BothPilots`), for eight
streams those of the second DRS symbol, too; and the estimate it is read with was made at most
`stride - 1` symbols ago (`Counting`), also when a symbol of the PCC is read once more.

The cells of a symbol come from three tables that are made for packets of 20 symbols (PCC) and 30 symbols (PDC), and
from `drs_t`, which counts.  `Combs` cuts the occupied subcarriers into four combs; the pilots of a stream are one
of them.  `PilotCells` shows that the combs `drs_t` is about to use are those left out in the row that stands for the
symbol, although rows repeat every ten symbols and the parity of the pilots does not.  The row for a symbol is replaced if it contains one
cell, the mark of a fully occupied symbol: `NotOne` shows that no other row has a single cell, as the
interleaver of the PCC, seven rows deep, leaves none or at least two cells, whatever the bandwidth (`Untaken`,
`Sevens`).  `CellInv` adds that `pcc_t` has found the symbols before the one in hand (`Ranks`).

Sender and receiver keep their own counters: cells of the DRS, of the PCC and of the PDC, bits of the PDC, and modulation
symbols that are mapped but have no cell yet.  `ReadsAsWritten` compares what they come to.  `PilotsUpTo`,
`PccUpTo` and `PdcUpTo` say how many cells lie in the first so many symbols, from the tables; `Totals` shows that with
the last symbol they reach the numbers that `packet_sizes.cpp` computes in closed form, for every length of a packet.
`Mapping` is about the bits: `tx_t` always maps multiples of 24 bits, which is whole bytes and whole modulation
symbols for every MCS, keeps fewer than 24 modulation symbols for the next symbol of the PDC, and none after the last
one.  `WholeBlocks` says that the code blocks of the receiver give the transport block and its CRC, no more and no less.

`WrittenState` then says of the sender that every counter is the function of the number of symbols written, and
that each of these was written from the position that the functions name (`AirRight`); so `tx_t` meets none of its own
assertions.  `RxState` says the same of the receiver, part by part.  Index `j` of stage `ps_idx` holds symbol
`1 + ps_idx * step + j` (`Staged`), up to the index where the stage is being filled, whether the stage was begun with
the PCC or starts with the DRS symbol the one before ended with (`CollectPlace`); full stages end within the packet
(`FullStages`).  A packet with no full stage goes over the symbols of the PCC once more, with the pointer into the stage
left at the last of them: that is right because no symbol before the last one has cells of the PDC (`RxAgain`).
`ReadsAsWritten` also names the failures that may occur: with eight
streams, an index into the look up table that is out of range, and with a PCC in the last symbol of the packet, the
assertion on the symbol index.

Only model-checked.  Liveness and everything under fairness is beyond the prover:
`EveryJobServed`, `ShutdownCompletes`, `EveryChunkDone`, `SyncShutdown`, `EveryPacketSent`, `UsrpShutdown`,
`TimePasses`, `SilentShutdown`, `EveryDatagramForwarded`, `ApplicationStops`, `P2pStops`, `Finishes`.
`ReceivedAsSent`, `SamplesRightThrough` and `SearchRight` are about what algorithms compute from data: tables, codecs, sums over
windows, for which induction over data would be needed. 

## Observations

What the models contain and no run is about, found while they were written.  Disagreements that a run shows are in the table
of such runs above, and those a property names as its exception with the module.

Pools and firmware

- An irregular job may enter the queue before an earlier packet that the same worker has detected and
  buffered (`pool/worker_sync.cpp:293`; `tpoint.hpp:105-107` says "once no more packets can be found before the
  specified time").  What holds is `IrregularAfterSearch`: the search had passed the time.
- With several pools on one firmware (`upper_t::init_one_to_many`) `try_lock(0)` for `work_start()`
  (`pool/baton.cpp:78`) may fail, because another pool is being served, although the comment says "always valid".
- PDCs of consecutive packets may be processed out of order.  No firmware of the repository keeps HARQ
  processes running over several packets.

Radios

- `radio/hw_simulator.cpp:486`: the next expected id is read from a buffer that was released eight
  lines before; `hw_usrp_t` reads it in time (`hw_usrp.cpp:891`).
- `radio/hw_simulator.cpp:570`: a TX thread within a packet waits without timeout for an spp that its
  own RX thread, already stopped, will never read, so `work_stop()` does not return.  Without a packet,
  shutdown succeeds (`SilentShutdown`).
- RX: after a resynchronization the jitter may span two samples, then time may go back by one;
  `wait_until_nto()` waits for one more notification when the target is the present; the bound
  on the lag of a reader leaves no room beyond `Ring - MaxNew`; the condition of `assert_time_lag` in `rx_pacer.cpp` is
  inverted.

Application and p2p

- `application_client.cpp:145`: with two connections the counter of indications may fall below zero, which an
  assertion catches (`EveryDatagramForwarded` excludes it); a filtered datagram of the client is skipped
  without counting down.
- A datagram as large as a transport block or larger stays at the head of its queue for ever
  (`steady_rd.cpp:479`).  The "too late" assertion of the steady FT never fires.  Before the first
  beacon a period is added to INT64_MAX.

Packets

- `association_response_message.cpp:201` and `:273`: `~mac_pdu_offset[0] >> 7` is computed with integers
  and never zero, so every response is unpacked as a rejection of two octets.  `pack()` of an accepted
  one asserts in line 191 for that reason, unless it is of exactly one flow: then the sizes agree by chance.
- Of the messages that `MCMessages` enumerates none of these can be sent, because `pack()` asserts or reads an
  optional without a value: a measurement report with a count of transmissions, a random access resource with an
  SFN offset or a channel, load info with any of its optional fields, and neighbouring.  A configuration request and a
  group assignment (`mac_ext` is never set) cannot be sent at all, so the run has none.
- `is_valid()` of reconfiguration, resource allocation, random access and neighbouring calls `value()`
  of optionals that may be empty; `clusters_max_tx_power` is converted from dBm by a cast.
- An assertion near line 386 of `rx_synced.cpp` fails for the shortest packets whose last data symbol holds
  PCC cells.  With eight transmit streams the second DRS symbol of short packets lies outside.  `ReadsAsWritten`
  names both.
- `movsum_t::get_sum_front(2)` adds the oldest and the newest element, `get_sum_back(2)` the second and third oldest, so the
  test for a rising edge compares other steps than its names say.  The gain of the streak is 0.0, so a metric
  need not increase from step to step, although `sync_param.hpp` says that it has to.  In the model both are as in the
  code, and packets are found nevertheless (`SearchRight`).
- `tx.cpp:820`: when beamforming looks for further antennas with the same weight, the inner loop tests the bit of the
  outer antenna, which is set by then, so a product is never reused.  The samples are right.

Measurement firmware

- The ratio variant counts PCCs of both packets together, so an error rate may be negative; a PDC after the
  end of the measurement would index out of range.
- rtt: an answer after the timeout shifts all later measurements by one, as datagrams have no number
  (`apps/rtt/rtt.cpp:92-116`); a datagram between the `clear()` of `work_start()` and the opening of the job queue
  stays at the head of its queue (`unserved`), with the same effect.  `MeasurementsRight` excludes both and covers
  neither.  The FT counts PDC errors as replies.
- chscanner drifts if a measurement takes longer than its period.

## Assumptions and abstractions

- Shared state is accessed under locks or through atomics with acquire and release; the latter order
  the samples of a packet before their count, and a step of the model sees all earlier ones.
- Counters are unbounded.  `tx_new_packet_cnt` is a `uint32_t` in the code and only compared for
  equality and inequality with a recent value.
- `send()` of the USRP always takes all samples; leading zeros and AGC settings are left out.
- Ids of packets are distinct, as firmware counts them up.
- `search()` of WorkerSync is a sequence of steps; what it detects is a choice within the limits of
  the signal.  Time in all modules is the time of samples; real time appears as timeouts only.
- Radios share one time base and propagation takes no time (P2p, TestRadio).

## Not modelled

Values of samples (filter coefficients, FEC, channel estimates, MIMO, frequency offsets), wireless channels, UHD calls and
sockets: floating point, or outside the repository.  `job_queue_naive_t` and the busy-waiting
variants: not in the default build.  pll, ppx, power control, feedback of MIMO modes and the AGC.  Statistics,
logging and JSON export.

## Plan

Done: all modules above; the safety invariants of JobPipeline, WorkerSync, UsrpTx, SimulatorTx, VirtualSpace, RxBuffer,
Application, P2p and the measurement firmware and `NoAssertionFails` of the decoder are proved, the refinement of
`FirmwareCalls` included.

Next, in this order:

1. `DecodedIsPrefix` for the decoder: that it never interprets an octet before it has come, for all packets, from
   lemmas that every `unpack()` reads only octets within its size.
2. `NaiveJobQueue`: the alternative queue, as an implementation of the same FIFO specification.
3. `PacketSamples` with the frequency offset of the mixer, and antennas with beamforming.
