# zFPV: verification of the video and telemetry link

zFPV carries video, audio and telemetry from an air unit (a Raspberry Pi with a camera) to a
ground unit over Wi-Fi cards in monitor mode. Nothing is acknowledged and nothing is retransmitted:
the link lives from forward error correction (FEC), from session keys that are announced over and
over, and from management frames that tell the ground where the air unit is. The library under
`src/src` (below: *lib*) moves packets; `src/executables` (*exe*) configures cards, follows channels,
and feeds and drains the library.

This directory holds TLA+ modules translated from that code, the TLC configurations that check
them, and TLAPS proofs. `PROJECT.json` maps each definition to its lines. Paths below are relative to
`src/`; names of operators are those of the code where TLA+ allows it.

Run a model with `tlc -workers 2 -config MCWBLink.cfg MCWBLink`, a proof with
`tlapm FECProofs.tla`.

## 1. Inventory

| part | code | state it keeps | operations | modelled in |
|---|---|---|---|---|
| FEC receive queue | src/fec/FECDecoder, RxBlock, FEC.h | ring of unfinished blocks, newest index, block counters | process_valid_packet, reset_rx_queue | `RxBlock`, `FECDecoder` |
| FEC encoder, block sizes | src/fec/FECEncoder, FEC.cpp, BlockSizeHelper | wrapping block index | encode_block, fragment_and_encode | `BlockSizeHelper`, `FECLink` |
| queue between threads | src/FunkyQueue.h | queue, mutex, condition variable | try_enqueue, enqueue_or_clear_enqueue, wait_dequeue_timed | `FunkyQueue`, `BoundedQueue` |
| stream sender | src/WBStreamTx | data queue, thread, drop counters | five enqueue calls, processing loop, destructor | `WBStreamTx` |
| stream receiver | src/WBStreamRx, SimpleStream.hpp | known sequence numbers or FEC queue, packet queue | on_new_packet, on_new_session, processing loop | `SimpleStream`, `WBSession` |
| injection, reception, sessions | src/WBTxRx, encryption | session keys, nonces, passive flag, cards | tx_inject_packet, announcements, receive loop | `WBSession` |
| channel coordination | executables/wb_link, wb_link_manager | settings, tuned channel, reported channel, one work item per unit | set frequency / width, scan, analyse, follow, management frames | `WBLink` |
| worker of a unit: TX power, MCS index, width, bitrate, passive mode | executables/wb_link, wb_link_rate_helper, action_handler | flags raised by callbacks and lowered by the worker, arming state, RC channel, last rate told to the encoder | work items, wt_perform_* , apply_txpower | `LinkWorker`, `RateHelper` |
| video on the air unit | executables/gstreamstreamer, video_air, camera_holder, rtp_eof_helper, WBLink::transmit_video_data | one pipeline and thread per camera, dynamic bitrate, restart flag, fragments of the current frame | start, restart, bitrate, recording, cutting and enqueueing frames | `CameraStream`, `VideoFrames` (pipelines' text, audio and raw NAL units are not) |
| external devices, UDP forwarding | executables/external_device, udp, video_ground, video_air | device map, forwarders | connect, disconnect, remove_all | `ExternalDevices` |
| settings | executables/settings_persistent.h and users | one shared structure and one JSON file | change, persist, init | `PersistentSettings` |
| the two programs | executables/wb_link_tx_impv, wb_link_rx_impv, destructors | objects, threads, callbacks, the handler map | destruction | `Teardown` |
| TX card selection, link statistics | src/WBTxRx, SeqNr helpers | counters per card | switched off by `WBLink`, or only displayed | not modelled |
| discovery, commands, platform, headers, vendored code | see `PROJECT.json` | - | - | not modelled |

**How the parts interact.** The camera thread calls `WBLink::transmit_video_data`, which enqueues a
frame in a `WBStreamTx`; its thread splits the frame into blocks (`BlockSizeHelper`), the
`FECEncoder` turns each into packets, and `WBTxRx::tx_inject_packet` sends them under a mutex, with
a session key announcement first if one is due. On the other side one receive thread polls all
cards, authenticates, and calls the handler of the stream: either directly the `FECDecoder` (video)
or a `FunkyQueue` to a thread of the stream (telemetry, audio). A new session key resets the
decoders from the receive thread. Beside this, each unit has a worker thread
(`WBLink::loop_do_work`) that executes user requests one at a time, and the two units meet only
through management frames: `ManagementAir` sends them from a thread of its own, `ManagementGround`
notes them in two atomics in the receive thread, and the ground's worker polls these.

**What is hard here.** Two threads on one queue with the notification outside the lock; a decoder
that sees fragments lost, repeated by several cards and late; resets from another thread than the
one that decodes; an old session's backlog on a second card; a two-value report stored and read in
two steps; a worker that is in the middle of a scan when the air unit announces that it will leave;
restarts and failing commands in between; full queues. In the executables: flags that callbacks
raise and a worker clears before it reads the values they are about; a plain `bool` and a settings
structure shared without a lock; a pipeline that is being built while the values it was built from
change; a file that two threads write in place; objects that are destroyed while threads still hold
copies of callbacks into them. `PROJECT.json` lists these hazards at their lines with the properties
that watch them.

**What makes each part correct.** Data is handed up in order, once, and whenever the code rate
covers the losses; what is lost or dropped is counted exactly; queues lose neither elements nor wake-ups; a receiver ends in its sender's session; two units
that hear each other end on one channel; a request that was accepted is finished. What the user, the
flight controller and the RC channel ask for is what card, packets and encoder end up with, in a safe
order; a device that is connected is forwarded to, and nobody else; a saved setting survives; a
program ends, and nothing is called after its end.

## 2. Modules, and how they correspond to the code

* **`RxBlock`** - one FEC block as a record (`fragment_map`, `nPrimary`, `nForwarded`) and the methods
  of the class as operators. Payloads are fragment numbers.
* **`FECDecoder`** (extends `RxBlock`) - the class: `rx_queue`, `last_known_block`, `stats`. One action
  is one call of `process_valid_packet`, with everything it evicts, forwards, rebuilds and removes;
  the cases of `process_with_rx_queue` are the disjuncts (`Ignore`, `ForwardFront`, `CompleteFront`,
  `RecoverFront`, `StoreBehind`, `Flush`). The environment offers any fragment of any block at any
  time. `out`, `delivered` and `session` are history variables.
* **`FECLink`** (extends `FECDecoder`) - encoder, an air that loses packets or has them heard twice, and
  the decoder. A block has no more fragments than the receiver's map holds (`MAX_TOTAL_FRAGMENTS_PER_BLOCK` is
  made for that, `FECConstants.hpp:19`). The runs end before the block index wraps.
* **`BoundedQueue`** - the abstract specification of a queue: atomic FIFO with a capacity, an enqueue
  that may be refused and one that clears a full queue.
* **`FunkyQueue`** - the class at the level of its mutex and condition variable, any number of producers
  and one consumer. It instantiates `BoundedQueue` with its own `queue` and `taken`
  (`INSTANCE BoundedQueue WITH ...`, the abstract specification is a property of its run): an operation
  takes effect in its critical section. `Wake` is the timeout or a spurious wake-up.
* **`BlockSizeHelper`** - the pure functions on block sizes, correction fragments and fragment sizes.
* **`WBStreamTx`** (extends `BoundedQueue`, `BlockSizeHelper`) - producer calls, the thread's loop and the
  destructor. It uses the atomic queue, which the refinement above justifies.
* **`SimpleStream`** - the decoder of streams without FEC as operators on its map.
* **`WBSession`** (extends `SimpleStream`) - one direction of the link: a sender that restarts with a
  new key, per-card backlogs, the receive loop that empties one card after the other, and a stream
  with or without a thread of its own. A key is the number of the sender's start; authentication
  is equality of keys. The sets of packets are history, also `refused` (by the full queue) and `late` (of a
  session that was over when the stream's thread came to them).
* **`WBLink`** - the air and the ground unit. `air` and `gnd` hold what the two `WBLink` objects keep;
  `wt` is the place of the ground's worker, whose steps are separated wherever the receive thread
  may come between (the two stores of a report, the two reads, the two resets of a scan). The air
  unit's short sequences are one action each: nobody else reads what they write but the management
  thread, whose frames carry the value of the moment. Time is left out: a pause (2 s of
  announcements, 2 to 7 s of listening) is a step that may come before or after any frame.
* **`RateHelper`** - the tables and functions from channel, MCS index and percentages to kbit/s.
* **`LinkWorker`** (extends `RateHelper`) - one unit's `WBLink` apart from finding the other unit: the user's
  thread (`try_schedule_work_item` and the settings written directly), the flight controller's (`fc`
  holds the two stores of `update_arming_state` still to be made), the RC channel, and the worker
  (`wt.pc`), one action for each place where a callback may come between: the flag for the TX power
  is taken, then `m_is_armed` is read for the power index and again for the milliwatts; the setting
  of the passive mode is read, then written to the transmitter. `header` is what packets are sent
  with, `power` what the card was told, `rate` what the encoder was told. `unit` says whether it is
  an air unit, its card an RTL 88X2AU, its platform an X20; it never changes.
* **`CameraStream`** - the thread of each camera (`cam[c].pc`: build a pipeline, look up the recording
  setting, store the bitrate it was built with, apply a new one, restart), and the threads that make
  series of stores to its variables without waiting for it (`stores[t]`): the link's recommendation,
  the user's settings, the arming state.
* **`VideoFrames`** - from the packets of a pipeline to the queue of the primary transmitter: a camera's
  thread (`Check`, `Pull`, `Restart`) cuts packets into frames by their fragment bits, which it reads
  with the codec of the *settings*, and `transmit_video_data` enqueues them in the way the frame's IDR mark
  and intra refresh ask for. The two ways to enqueue return what the code returns (a Boolean, a number), which
  becomes `n_dropped_frames`; the call adds it to the statistics in a step of its own (`CountDrops`), and the
  worker sets them to zero at any moment (`ResetDropped`). `handed`, `sent` and `earlier` are history variables
  that no action reads. The encoder is external.
* **`ExternalDevices`** - the manager and its listener in `OHDVideoAir` or `OHDVideoGround` (`Ground`), and
  the forwarders. An operation runs under the manager's lock and is one action, listeners included; the
  calls for several devices are one operator on their set, since their order changes nothing.
  `Contained` are the addresses that occur in the text of `hostname -I`, which is more than the host's own.
* **`PersistentSettings`** - threads that change a field, serialize the structure field by field, truncate
  the file and write it, none under a lock; the program ends at any point and reads the file when it
  starts. A text is its values and its length (`TextLength`, any function), so a shorter text written over
  a longer one leaves a tail that does not parse.
* **`Teardown`** - the ends of the two programs: `Shutdown` lists what `main` does, in the order of its
  destructors, while each thread goes round its loop until joined. `dangling` collects what is used
  after its end.

The `MC*` modules only give constants their values. Definitions marked *Mutant* are the code with a
plausible mistake; for every property one of them is substituted to see that the property notices.

## 3. Runs

| run | instance | what it shows |
|---|---|---|
| `fec_decoder` | 5 blocks of 1 to 3 data and 0 to 2 correction fragments, ring of 3, 6 blocks over all sessions | types; the ring is contiguous and within its depth; a block FEC can complete never waits; only data is handed up, in order and once; the FEC assertions hold; blocks are counted once |
| `fec_link` | 4 blocks, ring of 2, any losses and repetitions | a block with no more losses than correction fragments is handed up completely by the time its last fragment has passed, and only others count as lost |
| `funky_queue` | 2 producers, capacity 2, 3 calls each | no lost wake-up, refinement of `BoundedQueue`, elements are taken without the timeout |
| `stream_tx` | capacity 2, 4 items of 3 shapes, with and without FEC | every item is accounted for, splits are even and fit the encoder (with the exceptions of section 4), key frames get through, the destructor returns |
| `session` | 1 or 2 cards, threaded or not, 2 sessions, 2 packets injected up to twice, map of 3 | accepted packets are handed up across session changes (with a thread: or wait, were refused, or met one that came late, section 4), a lossless link is complete from the first packet, no duplicates with one card, the receiver ends in the sender's session |
| `channel` | 2 channels, widths 10/20/40, 2 requests, 1 restart or failing command | idle workers are where they say they are, heard announcements are followed, units that hear each other settle, accepted requests end |
| `worker` | air unit (20 or 40 MHz, RC channel or not), X20, ground unit passive or not; 3 requests, arming changes or RC changes | `PowerInv`: no change of the power is lost between flag and bool, no high index at 40 MHz once settled; the encoder knows the rate of a new MCS index before packets use it; power, header, rate and injection end as settings and arming state ask; only a stale read breaks the passive mode |
| `camera` | a camera that can change its bitrate (3 events), one that cannot (2), both (1) | pipelines follow format, recording and enabling, threads can be joined, recommendations arrive |
| `devices` | 5 addresses, two of the host, a device's that is a substring of one of these, one manual; two discoverers; air and ground | receivers and published count are the connected devices; no absent receiver is removed and no listener called after its object (`ForwardersInv`), with the exception of section 4 |
| `teardown` | both programs, finite as they are | `EndIsSafe`: only the management object and, on the ground, `OHDVideoGround` and its audio callback are used after their end, handlers of streams leave the map unobserved, callbacks do not outlive their owner; the program ends |
| `settings` | 2 threads, 3 fields (one not in the JSON), values of two text lengths | a restart costs at most the changes being saved, except after overlapping saves and inside a write; a save that runs alone repairs the file |
| `video_frames` | 3 pictures of 2 or 5 packets, one slice, at most 4 waiting fragments (500 in the code), queue of 2, one codec change, with and without intra refresh | `FramesInv`: packets leave in order and once, IDR frames of h264 are marked; no finished slice waits, a frame drops no part of its own picture; every frame is sent, queued or reported as dropped exactly once, across the worker's resets |

**Bounds.** The ring of 3 with 5 blocks has every relation of a new index to the ring: inside, next,
a jump within the depth, a jump beyond it. Layouts include a block without correction fragments and
one with more fragments than the receiver's map. Two producers and capacity 2 suffice for a clearing to
race a notification; two sessions for every mixture of old and new; two requests and one fault on two
channels for going away and back, a scan during an announcement, and a restart in any state of either.
The sender's and the receiver's runs end when their bounds are used up (`CHECK_DEADLOCK FALSE` there, and
for the camera, the devices and the teardown, which end with the program); the others never stop.
Three events let a flight controller's stores, a user's request and an RC change fall into one round of the worker; two saves of
texts of two lengths give every mixture of old and new text; the shapes of the sender's frames (tables of 5,
fragments of 4 bytes) are the smallest frame, one that needs three uneven blocks, and one with 200 %
correction whose bytes are one more than the largest block; a picture of 5 packets is longer than
the limit of 4, one of 2 shorter, and the queue of 2 is the real one (`block_data_queue_size`). One codec change:
with two of them within the milliseconds of one restart a packet of the old pipeline is read by the
right parser again, but its start was not, which no user does.

**Fairness.** Threads that can run do (weak fairness of each thread's steps). `FunkyQueue`
assumes strong fairness of taking the mutex, because other threads may hold it in between, and none
of the timeout. `WBSession`: an announcement that is
repeated for ever is heard once in a while (strong fairness), and `SessionsAgree` holds
only unless the sender stays passive. `WBLink`: while the ground is where it can hear the air
unit, one of the frames sent twice a second gets through; nothing is assumed of the two seconds of
an announcement. `LinkWorker` and `CameraStream`: the threads run, and stores that were begun are
finished; the link repeats its recommendation. `Teardown`: each thread that was told to stop looks at
its flag again, though other work may keep coming (strong fairness of `End`). No fairness for
requests, losses, faults or restarts; `FECDecoder`, `FECLink`, `ExternalDevices`,
`PersistentSettings` and `VideoFrames` state safety only.

**Assumptions about the surroundings.** Which transmissions a card receives (`CanHear`): the same
frequency, and 10 MHz only at 10 MHz; management frames are sent at 20 MHz, so 20 and 40 MHz listeners
get them, as `wb_link.cpp:1617` says. A command to a card takes effect or does not; with several cards
they are tuned together. The frequencies of a request passed `validate_frequency_change`. No second
air unit is near. The listeners of the arming state are registered before the flight controller
reports; commands for the TX power succeed; nothing raises the thermal protection level, and
`dropping_many_frames` is a constant `false` in the code, so neither changes the rate. GStreamer sets
a pipeline up. A callback is copied atomically before it is called.
`on_new_session` clears the decoder's map between two packets: with a processing thread the code does so without
a lock while that thread may be inside the map (`WBStreamRx.cpp:84`), and what a race on a `std::map` does is not modelled. Whoever discovers a device reports
its loss only after it, and only the TCP server reports addresses of this host. A write that was
closed is on disk. The telemetry module is not in the repository: its calls are those of the user
and the flight controller. A recommendation in progress ends within the second that `main` sleeps before
it destroys the cameras. Packets of the encoder are small enough to be enqueued and none is empty
(`try_enqueue_block` and `enqueue_block_dropping` return `false` for others, which the latter turns into 0 dropped frames).
Resetting the statistics and adding to them are atomic (`std::atomic_int`).

## 4. Where the code departs from its comments

Modelling met these. Where a property is concerned it states the exception, so that a change of the
code that widens it is noticed; the others are outside what the runs can tell.

Stated as exceptions by a checked property:

* *Passive mode* (`OnlyStaleReadBreaks`): the worker reads the user's setting and writes the transmitter
  in two steps; a change in between leaves the ground injecting against `wb_link.h:184`.
* *40 MHz* (`ReducedAt40WhenSettled`): a change of width away from 40 MHz raises the power first and the
  width later, so packets leave at 40 MHz with the full index for a moment (`wb_link.cpp:413`).
* *FEC percentage* (`EncoderAssertions`): `validate_settings_helper.h:74` accepts up to 400 %, which asks
  `encode_block` for more correction fragments than it asserts (`FECEncoder.cpp:20`).
* *Long raw frames* (`EncoderAssertions`): a frame handed in as bytes becomes one block whatever its length, so
  that more than 128 fragments are beyond what `encode_block` asserts (`WBStreamTx.cpp:288`, `FECEncoder.cpp:19`).
* *Own addresses* (`ReceiversAreDevices`, `ListenersSafe`): the ground unit searches an address in the text of
  `hostname -I` (`video_ground.cpp:105`) and so takes 10.0.0.1 for its own when it is 10.0.0.10. If the TCP server
  reports such a device's loss and another discoverer its arrival, it is served on; the other way round it is
  removed without having been added, which erases the end of a list (`udp.cpp:94`).
* *Repetitions* (`OneCardNoDuplicates`): with a processing thread a packet of the old session still queued when a
  new one clears the map is handed up twice, against `SimpleStream.hpp:91`.
* *Numbers of a late packet* (`AcceptedAreForwarded`): with a processing thread, a packet of the old session that is
  processed after a new one has cleared the map leaves its number there, and the new session's packet of
  that number is taken for a repetition (or the other way round, if two cards bring the old session back), against
  "quaranteed to be forwarded" (`SimpleStream.hpp:24-25`). `Met` is exactly this case; any other loss violates.
* *Late calls* (`OnlyTheseDangle`): the management object is destroyed while the receive thread may hold its
  handler, and `OHDVideoGround` while its callbacks run (`wb_link.cpp:339`, `video_ground.cpp:69`).
* *Saves* (`SavesSurvive`): the file is written in place; a crash between truncation and write, or two
  overlapping saves, lose more than the change being saved.
* *IDR mark* (`IdrMarkedH264`): `h265_more_info` never stores the type, so no h265 frame is known to be an IDR
  frame and a full queue drops it instead of older ones (`rtp_eof_helper.cpp:136`).
* *Bitrate during a start* (`RecommendationArrives`): a recommendation stored while a camera starts is
  overwritten; only the next one corrects it (`gstreamstreamer.cpp:502`).

Excluded by an assumption or a bound:

* After the wrap of the 32 bit block index every block is ignored until a new session, not "a couple"
  (`FEC.h:139`, `FECDecoder.cpp:140`).
* With `discardMissingPackets` a block that is given up keeps data behind a gap: the scan ends at the
  number of fragments, not at the last one (`RxBlock.cpp:99`; `RxBlock.h:60`). The video receivers do not set it.
* Reports of 10 MHz are dropped (`wb_link_manager.cpp:180`) though the scan tries 10 MHz.
* Several slices per picture: the second IDR slice pushes the first out of a full queue; a picture of one
  packet waits for one of several (`gstreamstreamer.cpp:648`; `rtp_eof_helper.cpp:99`).
* A `max_block_size` of 0 is accepted (`wb_link.cpp:1672`) and reaches a division.

Stated by nothing here, since no checked property relates the values: a request for 40 MHz is not
checked against a frequency that does not allow it; the rate on 2.4 GHz is `* 100 / 80`, 125 % of that
on 5.8 GHz (`wb_link_rate_helper.hpp:214`); the shares of two cameras may exceed the recommendation
after each is raised to its minimum (`gstreamstreamer.cpp:404`); the recording flag is not recomputed
when its setting changes while armed (`gstreamstreamer.cpp:426`); when one of several devices leaves,
the air unit stops local forwarding (`video_air.cpp:254`), and the ground never stops its audio
(`video_ground.cpp:82`); `wb_qp_max` and `wb_qp_min` are persisted and not part of the JSON; after
`enqueue_block_dropping` the fragment counter grows by the frame kept (`WBStreamTx.cpp:138`).

## 5. Proofs

All hold for every value of the constants that the named assumptions allow.

* **`FECProofs`**, first part: the decoder alone (assumes `LayoutAssumption`, `DecoderAssumption`: blocks have at least one data
  fragment and at most as many as the receiver's map holds). The properties are not inductive: that a later pull
  continues after everything sent needs to know that the queue is contiguous, that each block has
  forwarded a prefix of its data, and that nothing sent belongs to a block behind the queue's front.
  `IInv` is `TypeOK`, `QueueWF` (well-formed, contiguous, undecodable blocks), `QueueFollows` (all that
  was sent comes before what the queue can still send) and `DataUpTo` (what was sent is data of blocks
  up to the newest). `Invariance` proves it, one lemma per kind of call (`ForwardFrontStep` ...
  `ResetStep`) from lemmas on pulls, rings and batches. From it: `TypeCorrect`, `QueueIsContiguous`,
  `DecodableBlocksLeave`, `OnlyDataIsDelivered`, and the action property `DeliveryIsInOrder`.
  `FecIsCalledRight` follows from `IInv` alone: a block one fragment short of decodable misses exactly as
  much data as it has correction fragments once that fragment is there. `BlocksAreAccounted` needs
  `Accounting` on top: the front of the queue has forwarded what was handed up of it, so that a block
  leaves the queue complete or counted as lost, and no block behind it was handed up in part
  unnoticed. One lemma per kind of call says what it adds to the complete blocks, the lost
  count and the queue.
* **`FECProofs`**, second part: encoder, air and decoder (assumes `LinkAssumption`; each theorem has the hypothesis `MaxBlocks <= IdxModulus`, that no
  block index is used twice: after the wrap the promise is broken, see section 4). `FecCovers` is the promise of the code rate and
  `LossesAreReal` its converse, for any layouts, depth, losses and repetitions. The decoder's invariant
  says nothing of what was sent. `LinkInv` adds `AirOK` (what is on air is the end of what was
  encoded, without a gap) and says of every encoded block what became of it (`Followed`): its data is complete,
  it is queued with every fragment that has left the air and was not lost, nothing of it or of a
  later block has arrived, or more of it was lost than FEC can replace. The decisive lemmas: a packet takes no
  fragment from a queued block unless the block is complete (`ProcessEffect`); a queued block whose
  fragments have all passed has lost more than its correction fragments (`QueuedIsStarved`); hence evicting it is no mistake.
* **`FunkyQueueProofs`** (assumes `QueueAssumption`, `ThreadAssumption`). `WakeupIsNotLost`: a push is always
  followed by the notify of the same thread, and only the consumer's own test, under the mutex, puts
  it to sleep. `ImplementsBoundedQueue`: every step is a step of the abstract queue or a stutter.
* **`WBStreamTxProofs`** (assumes `TxAssumption`, `BlockAssumption`: frames have at least one fragment and one
  byte, the limit in force fits the tables, the percentage is not 0). `NoItemIsLost`: `ItemsAccounted` with the
  types is inductive; the lemmas say what each outcome of an enqueue does to the lengths.
  `EncoderGetsValidBlocks` (`BlocksAreValid`) says that the blocks the thread works on are those of the item taken last,
  and the item a frame if FEC is on (`BlocksInv`); what the blocks are is arithmetic. Block c of k gets the
  fragments whose turn leaves the remainder c: `ShareCounts` gives their number by a bijection, `PlacesCount` shows
  that turn and place in a block determine each other, so no fragment is lost or doubled, and
  `ShareBounds` that no block exceeds the limit or another by more than one. `FragmentsLength` shows that cutting bytes
  into even shares of what is left yields as many fragments as the header says: the recursive function exists
  (`CutExists`) and each row has its length, both with a least counterexample, and each share leaves a byte for each of the
  fragments to come (`ShareLeavesRest`).
* **`WBLinkProofs`** (assumes `LinkAssumption`: some channels, numbers above every width; widths among 10, 20 and
  40). `IdleIsTuned` is not inductive: it says nothing of a unit at work. `LinkInv` is `LinkType` (types, and what the
  worker has read at each place) and `Tuned`: the air unit announces its settings also while a change
  is pending, and a command that ends a piece of the ground's work targets the channel of the
  settings. `LinkInvariance` proves it with one lemma per group of steps; `LinkTypeCorrect` and
  `IdleUnitsAreTuned` follow.
* **`WBSessionProofs`** (assumes the module's assumptions; `MapAssumption`: the decoder's map remembers at
  least three numbers, 100 in the code). `AcceptedArrive`: without a thread of its own the decoder remembers
  only what was handed up in the session the receiver is in (`KnownForwarded`), so it takes nothing new for a
  repetition. With one it may also remember numbers of packets of other sessions that came late; `AllFound` says that
  it remembers nothing else and that a late packet itself was handed up or has met another, so whatever is not handed
  up waits, was refused, or has met a packet of another session. `NoDuplicates`: a single card holds packets in the order they were sent
  (`Ordered`), of sessions between the receiver's and the sender's (`Recent`), none older than what was handed up
  (`ForwardedBefore`), and the decoder remembers the newest of these (`NewestKnown`). `LosslessArrives`:
  on a link without loss a packet that was sent is handed up or in the backlog of a card, where the receiver
  reaches it with the key of its session, because an announcement precedes it.
* **`LinkWorkerProofs`** (assumes the module's assumptions on tables and choices). `PowerIsApplied` and
  `ReducedAt40WhenSettled` are not inductive, because the power index is read at one place and applied at another,
  and the width is told to the card after the power. `IInv` adds where the worker may be with
  which work (`PlaceOK`), that an index read is the one to apply or will be read again (`IndexRead`),
  and what holds of width and power while they disagree (`WidthApplied`, `ReducedAt40`, `ReducedBefore40`).
  `PowerReachesTheCard` follows. `StaleReadsOnly` rests on `PassiveOK`: what the user's thread is about to set is what the
  settings hold. `RateIsToldFirst` is an action property of the one step that changes the header.
* **`VideoFramesProofs`** (assumes `VideoAssumption`). `PacketsAreInOrder` (types and `InOrder`) and `DropsCounted` need
  nothing more. `DropsAreCounted` is not inductive, because a call overwrites `n_dropped_frames`: `DropsInv` adds that it is 0
  whenever no call is about to add it. `OrderInv` states the order over the places a packet can be in, each step of a packet
  being one to an older place; that the encoder's picture consists of whole slices is an induction over
  `FlattenSeq`, done with a least counterexample. The other theorems name what they need, and TLC finds a
  counterexample without it. `NoSliceWaits` needs slices of several packets (`1 \notin Packets`: no parser marks the end of
  a slice that is one packet) and adds `Changed` (a codec that is not the pipeline's makes it restart) and `Ends`.
  `FramesAreRight` needs at most one change of the codec (`MaxChanges <= 1`): while the settings hold the other
  codec no start is understood, and after a change back the end of that slice gives its frame no mark. It adds `MarkFollows`, and `FirstCodec` to know
  that a restart is due. `PicturesStayWhole` needs both, one slice to a picture and a limit of at least one fragment:
  its `PictureInv` says that whatever has the mark, or will get it, is of later pictures than everything queued
  (`Begins`, `Marks`), because the encoder's newest picture is (`Newest`, `HeldSlice`) and a restart that is due
  ends the old one (`Once`).
* **`DevicesSettingsProofs`** (assumes `IpsAssumption`, `SettingsAssumption`). Devices: `ReceiversAreDevices` says
  nothing of the time before the video and after `remove_all`, and nothing of who found a device, which decides
  whether the ground unit serves it. `DevicesInv` adds that only the TCP server reports this host
  (`ReportsOK`), what is served before and after (`PlacesOK`), whom either unit serves exactly, addresses it takes for its
  own apart (`Serves`), and that the 8 bit count is right at all times (`Counted`). `ReceiversFollowDevices` and
  `ForwardersAreSafe` follow. Settings: `SettingsInv` says what a restart would bring back, which says nothing of a thread
  that has read half of the fields or emptied the file. `SavesInv` adds what a thread that saves alone holds
  (`AloneOK`: the fields it has read are still the settings', the file it writes into is empty) and that
  the file can be read and differs only in fields whose save has not ended (`FileOK`), unless a save
  was interrupted or overlapped; `SavesInvariance` proves it for any threads, fields and lengths of texts.

The attempts to prove these changed the model where it was wrong. The worker's `ReEnableInjection` ended
a user's work item also when it only had followed the air unit's channel (now `Executing`). With a map of two
numbers a repetition is handed up twice; with 100 it is not (`MapAssumption`). A block with more
fragments than the receiver's map loses the promise of the code rate, because the decoder ignores those beyond (`FECDecoder.cpp:25`);
`LinkAssumption` now says what the constants of the code guarantee. That the receivers are the devices is false for
devices whose address the ground unit takes for its own, which the addresses of the run had kept out of sight, and the
encoder's limit is false for long frames handed in as bytes: both are exceptions now (section 4). The length of a settings text is a
constant function, not a sum of digits, since nothing rests on how it comes about.

Only model-checked: all liveness (`ElementsAreTaken`, `KeyFramesAreSent`, `ThreadIsJoined`,
`SessionsAgree`, `AnnouncedIsFollowed`, `Settles`, `AcceptedIsDone`, `SettingsTakeEffect`, `PipelineFollows`,
`RecommendationArrives`, `ShutdownEnds`), which is out of the prover's reach; and `EndIsSafe`, whose program is finite and has
no constants, so that TLC visits every state there is. Every other invariant and action property of the runs, and
the refinement of the queue, is a theorem.

## 6. Not modelled

* The Reed-Solomon arithmetic, cryptography, header layouts, shell commands and logging: data or I/O
  without state of this program. Of the Reed-Solomon code only its assertions appear.
* The text of GStreamer pipelines, the audio pipeline, the demuxer, discovery of cards and cameras.
* The experimental path that packetizes raw NAL units (`rtp.cpp`, `nalu/`), which an experiment file enables.
* The choice among several transmitting cards: `WBLink` switches it off
  (`enable_auto_switch_tx_card = false`). Loss percentages and signal values, which are displayed.
* The emulated link, the paced video sender, background tasks, the mavlink and telemetry modules (the latter
  two are not in the repository).
* Second air units and replayed packets of strangers.

Most lines of the repository are vendored (json, spdlog, concurrentqueue, FEC tables): they have no behaviour of
this system to model, so the modelled share of all lines is necessarily small.

## 7. What could follow

1. Composition of `WBStreamTx`, `FECLink` and `WBSession`: a whole video stream across session changes, and
   an abstract in-order lossy channel that `FECDecoder` implements.
2. The camera threads of `CameraStream` in front of `VideoFrames`, so that restarts and queues are one model.
