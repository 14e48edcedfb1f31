# OpenDAB in TLA+

OpenDAB drives the Psion WaveFinder, a USB receiver for Digital Audio
Broadcasting, from Linux: a kernel driver moves the symbols the device sends to a
character device, and the program `wf` synchronises the device, reads the
multiplex information from the Fast Information Channel (FIC), lets the user
select a service, and decodes that service from the Main Service Channel (MSC).
These modules model the parts whose correctness depends on order, concurrency,
loss or bookkeeping, check them with TLC, and prove with TLAPS the driver's main
invariants and its refinement of a queue, that the Viterbi decoder finds a nearest
codeword, and nearly every safety property of the boot, the receiver, the ensemble, the
MSC, the protection profiles and the audio decoders.

## Inventory

| component | source | state | operations |
|---|---|---|---|
| kernel driver | `src/driver/wavefinder.[ch]` | `wavefinder_t`: opened, state, mutex, usbdev, remove_pending, recbuf with count and readptr, per URB allocated and running, prev_h, two wait queues | open, read, ioctl, release, URB completion, probe, disconnect |
| main loop | `src/src/wf.c`, `wfread.c`, `wfcmd.c`, `wfclose.c` | read buffer and length, slock, synccnt, selected, enslistvisible | read packets, route them, select, ctrl-C |
| synchronisation | `src/src/wfsync.c`, `wfafc.c`, `wfravg.c`, `wfpk.c`, `wfimp.c`, `wfref.c`, `wfprsread.c`, `wfscale.c`, `wfmaths.c`, `wftime.c` | seen_flags, sync_locked, lckcnt, running averages, times of the last messages | assemble the phase reference symbol, estimate, lock or unlock, send corrections |
| initialisation, control messages | `src/src/wfinit.c`, `wfusb.c`, `wftune.c`, `wftiming.c`, `wfleds.c`, `wfsleep.c` | the device's registers | boot the DSPs, tune, timing, LEDs |
| FIC and ensemble | `src/src/wfficproc.c`, `wffigproc.c`, `wfbyteops.c`, `figs.h` | sym_flags and cur_frame, the list of services, the table of subchannels, fibcnt | assemble symbols 2 to 4, FIG handlers, labelled, select a service |
| MSC assembly | `src/src/wfmsc.c`, `wfsymsel.c` | ring of 16 CIFs, lframe, head, full, cur_frame | select symbols, write or reset the ring, deinterleave |
| channel decoding | `src/src/wfmdepunc.c`, `wftables.c`, `prot.h`, `src/src/wfic/` | within a call: metrics and survivor paths | demap, deinterleave, depuncture, Viterbi, descramble |
| audio output | `src/src/wfmp2.c`, `wfdabplus.c`, `wffirecrc.c`, `wfcrc.c` | header_valid and header_expected; frame counter and superframe buffer | check headers, collect superframes, write |
| offline extractor | `src/src/wfx.c` | file position | two passes over a dump |
| table generator, debug | `src/src/prsgen.c`, `wfdebug.c` | none | |

How they interact: `wf` is one thread. It blocks in the driver's `read`, which
shares `wavefinder_t` with the URB completion handler (interrupt context) and
with `disconnect` (the hub task). Every packet of 524 bytes is routed by its
header: phase reference blocks to synchronisation, which answers the device with
ioctls; symbols 2 to 4 to the FIC until the ensemble is known; the symbols after
them to the MSC once a service is selected. Any packet can be lost: on the bus,
by the driver's duplicate test, when the read buffer is emptied or overflows.

Hard behaviours, and what makes each component right:

* *driver*: the handler interleaves with read and release; buffers must outlive
  transfers, wakeups must not be lost, packets must reach the reader once and in
  order, disconnect must neither pull the device from under a task nor sleep for
  ever;
* *MSC*: symbols are lost and nothing but a frame number tells; a decode must see
  a whole ring of successive CIFs and take every class of bits from one logical
  frame;
* *FIC*: FIGs come in any order and repeat; the selected service must be the one
  displayed, with its own subchannel;
* *synchronisation*: blocks of a phase reference symbol get lost; lock must need
  several good estimates in a row;
* *initialisation*: the DSPs must not be started without their code, whatever
  message or file fails;
* *channel decoding*: tables and index arithmetic that a good signal forgives and a
  bad one does not;
* *audio output*: a superframe must start at a header and consist of five
  successive logical frames.

## Modules

### WaveFinderDriver

One action per group of statements between which another activity can run.
`pc[p]` says where task `p` is: `OpenLookup`, `OpenLock`, `OpenReset` are
`wavefinder_open`; `IoctlEnter`, `IoctlLock`, `IoctlSend` are `wavefinder_ioctl`;
`ReadEnter` to `ReadResetCount` are `wavefinder_read` with `start_receive` and
`alloc_buffers`; `Close` and the `Rel...` actions are `wavefinder_release` with
`stop` and `free_buffers`. `hpc` and the `Handler...` actions are
`wavefinder_iso_complete`, one packet a step; `dpc` and the `Disc...` actions are
`wavefinder_disconnect`. `Init` is what `probe` leaves behind.

The USB core is the environment: `inflight` URBs complete at any time with any
number of the packets the device has left, `usb_submit_urb` may fail when
resources are scarce, the device is gone or the URB is being killed
(`SubmitResults`, `Killing`), and `usb_kill_urb` returns when the URB is neither
in flight nor in its handler (`RelKilled`). `Unplug` completes URBs without
packets; the core then calls `disconnect`.

`SMP` selects the machine. The driver was written for a uniprocessor: there a task
makes no step while the handler is inside (`TaskMayRun`), and the handler does not
start while a task holds `s->lock` (`IrqsOff`). With `SMP = TRUE` the first
restriction is gone.

A packet is its position in `Stream`, a sequence of headers; `count`, `readptr` and
read sizes are in packets. `written`, `got`, `dropped` and `overflowed` are history, for
the properties only; `written` leaves out what the handler copies while read is between
the two assignments that empty the queue (`Emptying`), as the reader never sees that. `pending_io` and `overruns` are left out:
nothing increments `pending_io`, so the test on it never succeeds.

### MscAssembler

`startsym`'s arithmetic (`FirstSym`, `LastSym`, `NumSyms`), the symbols selected
(`Selected`), the ring (`Write` and `ResetBuffer` are `wcbuf`) and `msc_assemble`
(`Receive`, through `Assembled`). A symbol is the frame that brought it and its
number; `Lose` drops one. Reception starts at any selected symbol, in frame 1 or
in frame 0, whose number `cur_frame` happens to have initially. `SlotOfClass` is
the index computation of `time_disinterleave`; `LogicalFrame` says which logical
frame a class of bits belongs to.

### Ensemble

The program from the first FIC symbol to the selection of a service. `FicSymbol` is
`fic_assemble` with the call of `process_fic`: when the third symbol completes a
frame, any number of its FIBs pass their CRC, and `todo` of them wait to be unpicked.
Unpicking one is an action of its own: `Fig01` (`add_subchannel`), `Fig02` (`add_service`
for each audio component), `Fig11` (the label) or `FigIgnored`. As `wf` has one
thread, nothing else happens until `todo` is zero; the split only lets TLC choose
the FIGs one by one. A FIB carries one FIG, which is enough as the order of FIGs is
arbitrary anyway. `Collecting` is the test of `wf.c:184`; when it fails, `UserSelect`
(`user_select_service`) and `Select` (`startsym`) are what a packet leads to.

`einf` is the ensemble: the list of services, the table of subchannels, of which only
`subchid < 64` (`known`) and `dabplus` are kept, and `num_srvs`. `Numbers`, `Displayed`
and `Choice` are the two ways the program counts lines, when it prints them and
when it looks for the number typed. The local struct of `fig_0_1` is not
initialised, so the `dabplus` that `add_subchannel` copies is either value.

`Lose` drops a FIC symbol: on the bus, in the driver, or because synchronisation is not
locked. `own` and `torn` are history.

### LossyFifo

What the driver promises its reader, whatever its implementation: a queue that
delivers packets once and in order, and that may lose one in four named ways (damaged
on the bus, a repetition, missed when the reader had emptied the queue, beyond
`Capacity`). `WaveFinderDriver` has the refinement mapping: `Unread`, what `recbuf`
still holds for the reader, is the queue, except that it is empty while read is
resetting `readptr` and `count` (`Emptying`); `count` is the burst since the
driver last found the queue empty. After an overflow nothing is promised of what is
delivered until the file is opened again, as the code reads `recbuf` beyond its end.

### Receiver

The loop of `main` for one packet. A frame is five packets: the four blocks of the phase
reference symbol (PRS) and one that stands for the FIC and the MSC. `Process`
is the body of the loop: `Handshake` (`synccnt`, `symstr`), `prs_assemble` with `wf_sync`
when the fourth flag is set, then, if synchronisation is locked, `Select` (the FIC, the
user, the selection). `wf_sync` chooses what its arithmetic finds, an estimate that is good
or not; `Lock` is the counter, and `device` the symbol selection of the last timing
message. `heard` is `subchid < 64` (`wf.c:196`) for the service the user chose: as the FIC is
not read any more by then, it is settled with the choice, and a service whose subchannel was
not heard of is never started. `ReadFails` and
`ProcessAgain` are a failed `read`: `wf_read` leaves the length alone and the packets
of the last read are processed again. `user_select_service` has the terminal buffer of
`wfgetnum`, into which a line is read over the one before.

`own`, `torn`, `goodrun`, `lost`, `whole` and `intact` are history.

### Corrections

The messages to `OUTREG0` (`wf_sync`) and to the oscillator's DAC (`wf_afc`), which are to
keep an interval. Both functions read the real-time clock, modulo 10^6 s, and compare it
with the reading of the call before (`taken`), whether that call sent a message or not.
`Wait` is the time to the next call and `Delay` the time between the two readings of one:
nothing bounds either, so they are constants. `SetClock` is somebody who sets the clock. The
estimate calls for each of the corrections or not (`asked`). `since`, the time since the last
message, and `ahead`, that the clock was set to a later reading since the last call, are history.

### DeviceInit

`wf_init` and `wf_boot_dsps` as the sequences of messages they send (`InitScript`,
`BootScript`) to the host ports of the two DSPs, whose rule (data goes to the address
after the one loaded; a word at 0x7f starts the DSP) is what the comment in
`wfinit.c` says. `BootUpload` is one message of the upload loop, with the index
arithmetic of its two branches. Every message may fail (`wf_usb_ctrl_msg` exits),
`fopen` may fail (the code goes on and crashes in `fread`), and ctrl-c may come at any
time. `code[d]` is the runs of bytes that reached a DSP's memory, and `InMemory` says that
bytes of the file are there, each at its place. `MCReceiver` composes it with `Receiver`, which starts when it ends.

### Puncturing, SymbolBits, Viterbi

Pure arithmetic. `Puncturing` has the vectors, the tables of profiles, and what
`uep_depuncture`, `eep_depuncture` and the FIC's `depuncture` read and produce.
`SymbolBits` composes `byte_to_bit`, `bitswap16`, `frequency_deinterleaver` (with `table49`
computed as `init_table49` does) and `qpsk_symbol_demapper` into the bit each bit of
the FIC comes from. `fic_decode` makes the codewords of a frame one after the other. `Viterbi` is `k_viterbi`: one action for each pass of its loop, with
metrics, decisions and the chaining back; the branch metric is `gen_met`'s table at the
values in use, -7 and 3 and 0 for an erasure, computed from its formula. The
transmitter is `encode`, and the channel inverts bits one pass at a time.

### AudioFrames

`msc_decode` after the deinterleaving: a logical frame arrives undamaged, slightly
damaged (Reed-Solomon can correct it), badly damaged, or not at all, and goes to `wfmp2`
or `wfdabplusdec`. What a check says of a damaged frame is a choice. `out` is what was
written since the current unit, a superframe or a frame with its header, began.
`MCDecoding` checks the four modules of the decoding chain, and `Ensemble`, in one run.

## Runs

| run | question | bounds |
|---|---|---|
| `driver_safety` | do readers get the stream as from a queue and never sleep on data; do open, read, ioctl, close and disconnect keep out of each other's way? | 2 tasks, one non-blocking with a faulting buffer; 2 URBs of 1 packet, reads of 1, 4 packets of which one is a duplicate; failures, unplugging |
| `driver_liveness` | does data reach the reader, do release and disconnect end? | 1 task, 2 URBs of 2 packets, reads of 2, 2 packets, unplugging |
| `driver_smp_wakeup` | the wakeup race with the handler on another processor | expected violation |
| `driver_duplicates` | which packets are dropped in frame 0 | expected violation |
| `msc_assembly` | what a decode sees after losses | mode I geometry, ring of 8, 5 frames, 2 losses, subchannels of 1, 2 and 3 symbols |
| `msc_interleave` | one logical frame per decode? | ring of 16, no loss; expected violation |
| `msc_last_subchannel` | the subchannel at the end of the CIF | ring of 16, no loss; expected violation |
| `ensemble_heard_out` | has everything been heard when the list is displayed? | the ensemble of `decoding`; expected violation |
| `receiver` | boot, lock, the user's number, the selection handshake; the intervals of the corrections | 5 packets a frame, reads of 2, the 19 steps of the boot and the 269 messages of each upload; three lines of the terminal; a clock modulo 600 ms, set back and forward, 0, 100 or 300 ms between calls, 0 or 100 within one |
| `boot_upload` | is the whole file in memory when a DSP runs? | the boot alone; expected violation |
| `corrections_afc` | are AFC messages sent? | clock modulo 975 ms; a call after 78 or 117 ms; expected violation |
| `decoding` | what is learnt, offered and selected, whatever is lost? does the decoder find a nearest codeword, do the profiles fill their frames, do the audio decoders find back? | 2 services, one with two components; 3 FIBs in a frame, 8 in all; frame numbers modulo 2, losses of 3 symbols in a row; 6 data bits, 2 messages, 2 vectors, 3 inverted bits; every UEP profile and 33 other services; 4 units, 3 faults |

Why the bounds suffice. The driver has two URBs (`NURBS`), and all of its races are
between one of them in the handler and a task. In `driver_safety` `recbuf` has two slots,
so the three packets that are no duplicates fill, wrap and overflow it, and reads of one
leave some behind; URBs of two packets are in `driver_liveness` and `driver_duplicates`, and
the theorems hold for any sizes. Two tasks are enough for every
pair of callers of open, and release excludes a second session while the first
has URBs. In the MSC run the ring is two frames instead of four, so five frames
hold a full ring, a reset, and a second full ring; two losses make a slot short,
leave it misaligned, and cause the reset that notices it. Of the ensemble two
services are every relation between two entries of the list, one with and one
without a second component, before and after each other. Eight FIBs are three
good frames, enough to hear each FIG, to repeat some, and to give up without a
label. `MaxGap = 3` is the longest loss that two frame numbers tell apart,
3 (`FrameNumbers` - 1): with the 256 numbers of the device it stands for 765
symbols, 24 seconds of reception. A longer loss may mix two frames. In the receiver
run a read of two packets against a frame of five makes reads begin at every place of
the frame; any number of packets may be lost. The decoder's codeword has 48 bits; three
inverted bits are more than the punctured code corrects, so that both outcomes occur,
and a message reaches every state of the trellis's first six passes. `MaximumLikelihood`
compares with every codeword. In the audio half of that run four units are one to be
damaged, one to be started wrongly in, and the two whole ones of `Resync`.

The corrections' clock comes round after a few calls instead of 11 days. In
`receiver` its 600 ms are more than twice the longer interval, so a difference may be
on either side of it with any sign; the times between calls sum to more and to less than
either interval, and the clock may be set by any multiple of 100 ms. `corrections_afc` has
the times of good reception: a read takes 32 packets of the 79 of a frame, 39 ms, so calls
are two or three reads apart. Nobody sets the clock there.

`receiver` and `decoding` check several machines at once, each from initial states of its
own, in which the others stand still: in `receiver` the boot with the main loop after it, and
the corrections; in `decoding` the ensemble, the bits of the FIC, the Viterbi decoder and
the audio decoders.

Fairness (`driver_liveness`): the handler, once entered, runs to its end (weak
fairness); a transfer in flight completes, and a runnable task is eventually
scheduled although interrupts keep disabling its step (strong fairness); and the
program reads again whenever it returns from read, as the loop of `wf.c` does.
Nothing obliges anybody to open, close, signal or unplug.

Fairness (`decoding`, for the ensemble): the device keeps sending, FIGs are unpicked and the loop goes
round (weak fairness); if frames are completed for ever, some of their FIBs
pass the CRC (strong fairness). `MenuAppears` has the remaining assumption in its
statement: as long as the program collects, frames keep being completed
(`FrameCompletes`), which losses may prevent. A program that stops collecting and does not
display the list violates it.

Fairness (`receiver`): weak fairness of the whole next-state relation, that is, the device
goes on sending and the loop goes round; nothing obliges a packet to arrive or an
estimate to be good. `ServiceReceived` states what it needs: from some time on every PRS
is received and gives a good estimate, and the subchannel of the service chosen was heard of.

Fairness (`corrections_afc`): symbols keep coming and `wf` runs (weak fairness of `Wait`,
`SyncCorrects` and `wf_afc`). That the estimates call for a correction is the assumption of
the property.

Deadlock is checked in the runs of `driver_smp_wakeup`, `driver_duplicates`,
`ensemble_heard_out` and `corrections_afc`. The other runs stop legitimately: a task
that has dereferenced a null pointer makes no step, `wf` may exit, and the MSC and
decoding runs end with the last frame.

What the violations show:

* `driver_smp_wakeup`: the comment at `wavefinder.c:364` says the state is set early
  "to avoid wakeup races"; it is set under a lock the handler does not take.
* `driver_duplicates`: "Won't copy bad/duplicate packets" (`wavefinder.c:164`), but
  `strncmp` stops at the first zero byte of the header, so in frame 0 different
  packets count as duplicates.
* `msc_interleave`: "Writes a single logical frame to obuf" (`wfmsc.c:130`); `head` is
  always `lframe`, the newest slot, so the undelayed class is sixteen logical
  frames ahead of the other fifteen (`DelayedClassesAgree` says precisely this).
* `ensemble_heard_out`: "the FIC is processed until all the audio services have been
  labelled" (`README.OpenDAB:170`), but `labelled` knows only the services heard of so
  far. After one service and its label the list is displayed; a service whose
  subchannel is unknown then can be selected but is never started.
* `boot_upload`: "Only bytes from offset 0x80 to 0x2000 are uploaded from each file"
  (`wfinit.c:52`), but the last, short message begins one byte early (`wfinit.c:132`): its
  bytes are one late in memory, and the one at 8191 is not sent.
* `corrections_afc`: "Send AFC value to control the VCXO DAC" (`wfafc.c:22`), "at least
  250ms between AFC messages" (`:41`): the time kept is the last call's and not the last
  message's (`:70`), so with a symbol in every frame no message is due after the first call.
* `msc_last_subchannel`: `startsym` divides the address after the last capacity unit,
  which names one symbol too many at a symbol boundary; at the end of the CIF that
  symbol does not exist in the fourth CIF.

## Proofs

Every theorem holds for all values of the constants that its module's assumptions
admit, and for what its statement assumes besides.

| module | theorem | states | assumes besides |
|---|---|---|---|
| `WaveFinderDriverProofs` | `TypeCorrect` | `TypeOK` | |
| | `OneOpener` | two tasks never have the file open | |
| | `BuffersOutliveTransfers` | `BufferLifetime` | uniprocessor |
| | `OpenStartsClean` | `ExclusiveOpen` | uniprocessor |
| | `NoWakeupLost` | `NoLostWakeup` | uniprocessor |
| | `DisconnectIsWoken` | `NoLostRemoveWakeup` | |
| | `WaitingPreventsFaults` | `NoFaultWhenStreaming` | |
| | `OnlyFaultsLeaveWaiters` | `StaleWaiterFaulted` | |
| `WaveFinderDriverFifo` | `DriverIsFifo` | `ImplementsFifo` | uniprocessor, `NoConfusion` |
| | `NothingLostOrRepeated` | `StreamIntegrity` | uniprocessor |
| `MscAssemblerProofs` | `AssemblerTyped` | `TypeOK` | |
| | `EveryFilledSlotDecoded` | `DecodesEveryFilledSlot` | `ApartAssumption` |
| | `RingAligned` | `DecodesAlignedRing` | `InnerAssumption` |
| | `ClassesAgree` | `DelayedClassesAgree` | `InnerAssumption` |
| `EnsembleProofs` | `EnsembleTyped` | `TypeOK` | |
| | `OneFrameDecoded` | `FicFromOneFrame` | `GapAssumption` |
| | `ListedTruly` | `EnsembleTrue` | |
| | `TypesStayRight` | `TypeNeverLost` | |
| | `StartsWhatWasChosen` | `SelectedIsKnown` | |
| | `NumbersAgree` | `SelectionMatchesDisplay` | |
| `ReceiverProofs` | `LockCorrect` | `LockedAfterFourGood` | |
| | `CollectorCorrect` | `TornNeedsTwoLosses` | |
| | `SelectionFollowsChange` | `SelectionHandshake` | |
| | `CorrectionsApart` | `MessagesApart` | `RangeAssumption`, `ClockAssumption` |
| | `NumberRead` | `NumberTyped` | `LinesFit` |
| | `DspsStartLoaded` | `StartsLoaded` | |
| `AudioFramesProofs` | `AudioNeverGoesBack` | `NothingSpliced` | |
| | `FindsBackIntoStep` | `Resync` | |
| | `FramesFilled` | `FrameFilled` | every service's subchannel is in `Subchannels` |
| `ViterbiProofs` | `NearestCodeword` | `MaximumLikelihood` | |

The assumptions: `NoConfusion` is that `strncmp` tells different headers apart, which frame 0
violates (see `driver_duplicates`). `GapAssumption` is that no loss is so long that the
frame numbers come round (24 seconds). `InnerAssumption` is that no subchannel ends
exactly with the CIF, where `msc_last_subchannel` shows what goes wrong. `LinesFit` is
that the terminal's lines fit in `wfgetnum`'s buffer. `ApartAssumption` was found by
the proof: no subchannel takes a CIF from its first symbol to its end. If one does
(address 0, 864 units), the symbol too many that `startsym` asks for is the first
of the next CIF, `msc_assemble` writes it twice (`wfmsc.c:229-248`), the second time as the
first symbol of the next slot, and not every slot that is completed is decoded: TLC
confirms it. `ServicesAssumption`, in `AudioFrames`, is that a subchannel of MPEG layer II has
a bit rate its header can state. `Subchannels` are the rows of `ueptable` and, for each
of the eight levels of equal protection, every multiple of its smallest size.

### The driver

`BufferLifetime` is not inductive: nothing in it says why `wavefinder_free_buffers`
finds no URB in flight. The inductive invariant `UniInv` adds who holds the file and
the mutex (`OneHolder`), that buffers are allocated together and only between the
first read and release (`Buffers`), that an URB in flight is known to be running
except during the submission itself (`Known`), that the loop of `wavefinder_stop`
leaves no URB in flight behind it (`Killed`), and that the loop of `start_receive`
has not submitted what lies ahead of it (`Unsubmitted`). The step proof has one
lemma per action; `Known` is where `SMP = FALSE` is needed: a task never sees
the handler between `running = 0` and `running = 1`.

`NoLostWakeup` speaks of a reader at `schedule()`, and what makes it true was decided
four steps earlier. `WakeInv` follows the reader there, on top of `UniInv`: it is on the
wait queue all the while (`Queued`); between the comparison and the assignment of the
state, under the lock, no handler is inside and nothing is there to be read
(`Locked`); and from then on either nothing has arrived, or it is runnable, or a
handler is about to wake it (`Roused`). The first read of a session clears `readptr`
after that comparison; it uncovers nothing, as nothing has been received before the
buffers are there (`NothingYet`).

The refinement needs to know when a step that touches `count`, `readptr` or the
buffer can run, so its invariant stands on `WakeInv` and `UniInv`. `FifoInv` adds that
`count` is within the buffer until the overflow, that `readptr` is not beyond it except
while read resets the two, and what a task in the middle of `copy_to_user` or of
the reset has reached. The steps that touch none
of the queue's variables stutter (`QuietTask`, `QuietOther`); the others have a
lemma each that names the step of the queue they are: `ReadCopy` is `Get`,
`HandlerPacket` is `Corrupt`, `Reject`, `Put`, `Miss` or `Overrun`, `ReadResetCount` is
`Empty`, `OpenReset` is `Reset`.

`StreamIntegrity` follows from `FifoInv` and one more conjunct, `Whole`: as long as nothing
overflowed, what the handler wrote is what the reader got, followed by the queue. Unlike
the refinement it does not need `NoConfusion`, as a packet wrongly taken for a duplicate is
not written.

`UnplugInv` is about the tasks and disconnect, and needs neither `UniInv` nor a
uniprocessor. `usbdev` is cleared by disconnect's last step alone (`Cleared`); a started
receiver has a task that is going to stop it (`Holding`); after deregistration no open is
under way (`Closed`); and a disconnect that was woken, or has got past the wait, has seen
the last task leave (`Departed`). `Move` says what a step of a task can do to this state, so
that the actions are looked at once.

### The MSC

`FillInv` relates what the code knows (`full`, `lframe`, the counts of symbols) to the
number of slots that were completed: `full` is set when the last slot is *begun*, which is
one early, and made good by `Current`, as a decode waits for the slot's last symbol.
`RingInv` says what is in the ring as long as every loss was noticed: it was
reset and nothing of the next frame has come (`Idle`), or the newest slot holds the first
symbols of some CIF and each older one the CIF its `Age` tells (`Collected`). The
properties at a decode are the case of a complete newest slot; `ClassesAgree` adds the
arithmetic of `time_disinterleave` modulo the ring.

### The ensemble

`AssemblerInv` is that what `fic_assemble` holds is of the current frame, or that enough
symbols were lost since to tell the frames apart: the gap grows with the distance of the
frames (`LaterFrame`), so equal numbers mean a loss beyond `GapAssumption`. `TrueList` is
inductive as it stands; each handler has a lemma about the list it makes.
`SelectionInv` ties the choice, the table and what was started together.
`SelectionMatchesDisplay` compares two recursive functions over a list of any length.
Induction theorems cannot be used, as they take an operator as a parameter, but a least
counterexample can: `NatMin`, in `NumberFacts`, is that a set of numbers that is not empty
has a least member, and is proved from well-foundedness without such a parameter. So the values of a recursive
function at all places of a list follow from its value at the first and from one place to
the next (`Counted`, `Before`).

### The receiver

`LockedAfterFourGood` is inductive with the ranges of the two counters. For
`TornNeedsTwoLosses` the strengthening `CollectInv` says that while fewer than two losses
are counted since block 0, nothing is processed again and all collected blocks are of the
frame now sent, and that after none they are all the blocks the frame has brought, so that a new frame
whose block 0 is lost finds nothing collected. `HandshakeInv` counts, with `Needed`, how many
packets of the PRS may still pass before one is complete, and says that `synccnt` is
at least that as long as the device does not know of the selection. Both hold, as
`SelectionHandshake` says, until a packet of the PRS is lost or processed again: `synccnt`
counts packets and not messages (`wf.c:168`), so the six may then be used up before a
message goes out, and the service's symbols are asked for without the change. `LineInv` is that the buffer begins with the line
just typed.

For `MessagesApart`, `ClockInv` relates the clock to what really passed: unless it was set to
a later reading since the last call, it has gained on that call's reading no more than
the time since then, and so no more than the time since the last message (`Gained`). Going
through 10^6 s only makes the difference smaller, as it is signed.

### The boot

`StartsLoaded` is about the 8040 bytes of each file that the full messages carry; those of the
short one are not in place, as `boot_upload` shows. It says nothing of how a file comes to be in memory. `BInv` does: the script's
place decides for each DSP whether its memory is empty, loading, or loaded
(`MemoryInv`). While it loads, `Loading` ties three counters for every number k of messages
sent: 30 k bytes are gone from `remain`, the address register is 15 k words on, and the
bytes in memory are one run up to the k-th message. The last message is the short one whose
indices are one late, so it is a run of its own (`LoadStep`). `StartInv` follows
the address register over the four entries of the script between which it must stay at
0x7e for the word after it to start the DSP.

### The Viterbi decoder

`MaximumLikelihood` holds for every number of data bits, every pair of puncturing vectors and every pattern of
inverted bits. What `k_viterbi` keeps is, for each of the 64 states, a path and a metric.
`VInv` says of each (`Survivors`) that the path leads through the trellis to that state and has the
metric kept for it, and (`Best`) that no path to the state has a greater one; and, when the
decoder has ended, that `data` is what `ChainBack` reads from the path that ends in state
0. The step is the usual exchange argument: a path to a state comes through one of its
two predecessors (`Predecessor`), and the decoder may use the branch metrics of the one for the
other's partner because every generator has its first and last bit set (`SharedBranch`). What is special to this code is the start: other states
begin with -999999 and not with minus infinity, so a path from a wrong start could win if
it fitted well enough. It cannot, whatever the length of the message: after six passes with the same input bits a path
from any start is in the same state as one from state 0 (`PathsMerge`), so a wrong start
gains on at most 24 code bits, 240 of the metric. TLC checked `VInv` in a small instance
before it was proved.

### The protection profiles

`FrameFilled` adds up what the parts of a codeword take and give. A vector keeps nine positions
and its number more of every 32 (`KeptCount`, by the distinctness of `NextKept`), so a block
of 128 takes four times that; the tail of 24 takes 12. The sums of `Consumed` and
`Produced` are folds over a set of at most four parts, whose values `TotalsSum` finds by
counting the parts down. The rest is arithmetic: the 64 rows of `ueptable` are looked at in
groups (`UepRowsAdd`); the eight rows of `eeptable` are linear in the size, so the
equation holds for every multiple of it (`EepFilled`).

### The audio decoders

`SpliceInv` orders three places in the stream: what was written last, the first frame held,
and the next frame to come; a superframe whose first slot is not a first frame gives nothing (`UnitsOfFirst`),
so frames held over from an earlier unit cannot be written after it. For 24 kHz
it counts how far the last header is behind, which two losses in a row make
ambiguous. `ResyncInv` is why `wfdabplusdec` finds back: in an undamaged unit it holds nothing
or at least as many frames as the unit has had, so it is empty when the unit ends;
from then on it is in step (`InStep`), and all audio units of what it collects are good
(`WholeUnits`, which rests on the places of the AUs being within the five slots).

### Only model-checked

* `FicBitsUsedOnce` has no constant to generalise: TLC visits all of its five states, and
  its verdict is complete.
* Liveness under fairness is out of the prover's reach: `DataReachesReader`,
  `ReleaseTerminates`, `DisconnectEnds`, `MenuAppears`, `ServiceReceived`.

## Plan

Done: the driver with its proofs and its refinement, `MscAssembler`, `Ensemble`, `Receiver`,
`Corrections` and `DeviceInit`, the decoding chain, and theorems for their safety properties. What could be added:

1. `reverse_bits` and the counters of `wf_tune`, `wfsymsel`'s words, the bits of the ADTS
   header, each against a reference definition.
2. The gating of the MSC by loss of lock: `Receiver` composed with `MscAssembler`.

## Not modelled

Of `Ensemble`: how FIG fields are laid out, and the address, size and protection of a
subchannel, which are copied as they come. The precondition of
`SelectionMatchesDisplay`, a primary component in every service, is the broadcaster's;
a service with only a secondary one would be displayed on one line and counted as
two. Floating-point signal processing (correlations, averages, phase tables) is outside
TLA+: its verdicts are choices. Of the decoding chain: the scrambler, which is its own
inverse, the generator polynomials behind the CRC tables, Reed-Solomon, the packing of
the Viterbi decoder's decisions into machine words, and the ADTS header. A superframe whose
table of AU places is damaged is taken to give no AU (`GoodAus`); `wfdabplus.c:215-263` uses
the places unchecked, and the memory beside the superframe that it then touches is not
modelled. The values of the two corrections are not; the words of
tuning messages, the options of `wf`, printing, dumps, the offline extractor (the same
code over a file) and the build-time table generator. Memory leaks are not counted.
