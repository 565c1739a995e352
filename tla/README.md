# omnitag in TLA+

A verification development for omnitag, the library under `src/src/omnitag/` that
streams tags from a fleet of RFID readers of different brands. It holds TLA+
modules translated from the source, TLC configurations that check them on small
instances, and proofs that TLAPS checks for every value of the constants: about every
component that has a model, the byte level of the serial protocol included.
`PROJECT.json` lists the runs, the theorems, the hazards, and, definition by
definition, the source lines each one models.

    tlc -workers 2 -config ThreadedDriver.cfg MCThreadedDriver     # one run
    tlapm ThreadedDriverProofs.tla                                 # the proofs of a module

## 1. The system

| component | source | state it keeps | operations |
|---|---|---|---|
| ThreadedDriver | `threaded.py` | stop event, worker thread, loop callbacks, bounded queue, capabilities | `__aenter__`, `__aexit__`, `_run`, `_put_threadsafe`, `inventory`, `windows` |
| Fleet | `fleet.py` | per call: queue, pump tasks, errors, sentinels to come | `stream`, `windows` |
| WyuanReader | `drivers/wyuan/driver.py` | serial transport, level last seen | `_read_blocking`, `_gated_loop`, `_query_gpio`, `_drain_inventory`, `_read_frame` |
| WYUAN protocol | `drivers/wyuan/protocol.py` | none (pure) | CRC16, command builders, frame and payload parsers |
| LLRPDriver | `drivers/llrp.py` | llrpkit's `Reader`, capabilities | delegates everything to llrpkit |
| driver seam | `driver.py` | none | records and a Protocol |
| ZPL codec | `printers/zpl.py` | none (pure) | `normalize_epc`, `build_rs`, `build_encode`, `build_read` |
| ZebraPrinter | `printers/zebra.py` | `_transport`: one TCP connection | `__aenter__`, `__aexit__`, `encode_epc`, `print_zpl` |

How they interact. A blocking reader (WyuanReader) is a generator that the worker
thread of ThreadedDriver iterates. Each item it yields is scheduled on the event
loop with `call_soon_threadsafe`; the callback puts it into a bounded asyncio queue
and drops the oldest item when that is full. `inventory()` takes from the queue on
the loop. `Fleet.stream` starts one pump task per driver; a pump iterates its
driver's `inventory()` into one unbounded queue that the call drains, and says with
a sentinel that it ended. Tags so pass four hands: the serial line, the loop's list
of callbacks, the driver's queue and the fleet's queue.

What is hard: three kinds of actors (threads, loop callbacks, tasks) on one queue;
a drop-oldest queue that carries the end-of-stream sentinel and the failure among
the tags; shutdown while the reader is blocked; one reader of several failing,
never connected, or cancelled before its task ran; a request/reply protocol on a
serial line with timeouts and no sequence numbers, and a pin that moves while the
host is not looking. `PROJECT.json` "hazards" has the list, line by line.

What makes each part correct:

* ThreadedDriver: order, accounting and drop-oldest across both hops; no worker ends
  without its sentinel, which always arrives, and the failure is not displaced by it;
  a waiting consumer is released by a shutdown.
* Fleet: the stream ends only when complete, raises exactly when a driver failed,
  over connected drivers waits for no sentinel that cannot come, leaves no task, always
  closes.
* WyuanReader: edges as the worker emits them alternate and bracket the tags, windows follow the pin,
  commands and replies stay paired, a present tag keeps being reported, a stop ends
  the loop whatever the line does.
* windows: one window per trip with the tags of that trip; when something is missed, the
  tags of two trips meet only where the release between them is what was missed; the
  end of the stream reaches a program that has the queue to itself.
* protocol: a frame that is accepted was sent, what is reported is what the reader
  encoded, and a quiet line brings the host back to a frame's start.
* ZPL, ZebraPrinter: a refused call leaves nothing on the wire, the EPC returned is
  the one encoded (that it is hexadecimal fails for inner tabs, section 4), leaving
  hands over to the kernel every job whose call returned.

## 2. Modules

| module | models | variables |
|---|---|---|
| `ThreadedDriver` | `threaded.py` without `windows` | `owner`, `stop`, `worker` + `hand` (thread), `ready` (loop callbacks), `queue`, `consumer` + `count` (inventory), histories `puts`, `taken`, `yielded`, `lost` |
| `DropOldestFifo` | what the bridge promises: one FIFO that forgets its oldest item, only above its limit, and is closed by its last item | `chan`, `taken`, `closed` |
| `ThreadedDriverProofs`, `FleetProofs`, `ThreadedFleetProofs`, `GatedWindowsProofs`, `WyuanReaderProofs`, `WyuanProtocolProofs`, `WyuanFramingProofs`, `ZebraPrinterProofs` | theorems about the module they are named after (section 5) | |
| `Fleet` | one call of `stream` or `windows` | `pump`, `sent`, `queue`, `errors`, `remaining`, `stream`, `delivered`; parameters of the scenario `connected`, `gated` |
| `MergedStream` | what the merged stream promises, without queue and tasks | `produced`, `delivered`, `running`, `failed`, `status` |
| `ThreadedFleet` | composition: `Fleet.stream` over one ThreadedDriver | those of both |
| `GatedWindows` | `ThreadedDriver.windows` over ThreadedDriver, and `WyuanReader.windows` around it | those of ThreadedDriver; `call`, `calls`, `pump`, `relay`, `strays`; `window` (the assembler's), `gated`, histories `given`, `strayed` |
| `WyuanProtocol` | the codec of `protocol.py`, on bytes | none: operators |
| `WyuanFraming` | `_read_frame`, the parsers and what the driver makes of a frame, over a line of bytes | `opts`, `pc`, `line`, `got`, `reports`, `level`; `faults`, histories `sent`, `aligned` |
| `Zpl` | the checks of `zpl.py`, and where the EPC stands in a job | none: operators |
| `ZebraPrinter` | `zebra.py`: owner, tasks, one connection | `scope`, `transport`, `at`, `calls`; `host`, `injected`, `broken`, `buffer`; histories `wire`, `outcome` |
| `WyuanReader` | the blocking loop, with device, line and pin as environment | `pc`, `last`, `yields` (worker); `device`, `left`, `cmds`, `line`, `pin`, `tagged` (environment); histories `window`, `odd`, `faults`, `clean` |

`MC*` modules hold the instances; all bounds are in the `.cfg` files. Definitions
named `Bug...` are deliberate mistakes in the definition that follows them; no
specification uses them. They serve to confirm that a property notices the mistake.

### ThreadedDriver

One action per step that is atomic for the other actors. `Enter`, `EnterFails`,
`ExitStops`, `Disconnect`, `Join` are the owner's `async with`; `Join` may return
before the worker ended, as a join with a timeout does. `Read`, `Finish`, `Raise`
are what the reader's generator does when the worker resumes it, `PutRead`,
`PutException`, `PutStop` the hand-over that follows: between the two the stop event
may be set, which is the race of lines 85-88. `RunPut` is one `_put` callback.
`StartInventory`, `Get`, `Resume`, `Close` are the consumer: any number of calls one
after another, each closed or cancelled anywhere. An item is its kind and the number of
its hand-over. The kinds are those the code tells apart: a tag that the policy keeps
("kept"), ignores ("ignored") or raises on ("faulty"), an edge, the worker's exception,
the sentinel; payloads and the policy's categories are not modelled. `MaxTags` is the
optional `max_tags`, empty for None. The one item that the worker's `for` may still
take from the reader after the stop, and throw away (lines 85-87), is part of `Finish`:
it is never handed over.
A driver is entered once, and the loop outlives the worker.

### Fleet

`stream` and `windows` have the same structure and share the actions; they differ
in how they start (`StartStream`, `StartWindows`, `RefuseWindows`). A put into an
unbounded asyncio queue does not suspend, so a pump's step from one item of its
driver to the next is one action. `PumpStarts` reads `driver.capabilities` outside
the `try`, as the code does: for a driver that is not connected the task dies with
no sentinel ("dead"). A cancelled pump that has not run yet dies without running
(`PumpNeverStarts`).

### ThreadedFleet

EXTENDS ThreadedDriver and INSTANCEs Fleet with that one driver; every step is a
step of one, of the other, or of both at once (the pump's). `ImplementsDriver` and
`ImplementsFleet` check that the composition adds no behaviour, liveness included,
to either part. In the code the pump goes from a tag it got to the next get without
suspending; here these are two steps, which only adds interleavings.

### WyuanReader

A frame is what the driver can tell of it: the level of a GPIO reply, an inventory
frame that continues or ends a scan, a real-time push, a heartbeat, a frame that
fails to parse. The worker is at one of its reads or writes (`pc`). The device, the
serial buffers, the noise and the pin are external and modelled from how the driver
and `docs/wyuan-protocol.md` use them: a device in answering mode takes one command
at a time and answers in order; in real-time mode it obeys SET_WORK_MODE alone and
pushes. A read times out (`TimeOut`) when nothing is on its way, at no cost; a reply
that comes after the timeout is a fault (`AnswerLate`), like noise on a reply
(`Garble`) or on a command (`LoseCommand`). What is written to a full buffer on
either side is lost.

### GatedWindows

EXTENDS ThreadedDriver without its `inventory` (the docstring asks for one or the
other). Its reader is what the `wyuan` run establishes of WyuanReader: edges
alternate, the active one first, and tags come only between an active edge and the
next. `StartWindows` creates the relay and the pump; `PumpGets` is one round of the
pump's loop, relaying, ignoring, or ending with END_OF_STREAM; `PolicyRaises` is the
round in which `policy.evaluate` raises, after which the task is gone and `windows()`
goes on waiting. When a call ends or is cancelled as it waits (`Raises`, `Ends`,
`Abandon` then `Closed`), its `finally` removes the pump, and what it had moved into
the relay is lost. A program that closes the call after a window closes the wrapper,
`WyuanReader.windows`, at its own `yield`, and the generator inside is not closed with
it (`LeaveBehind`): its pump goes on taking items for nobody (`StrayTakes`), beside the
pump of a next call, until the event loop finalises the generator (`StrayFinalised`),
with no promise when. What was dropped or taken in this way is `Missed`. Of the owner,
`Disconnect` and `Join` are left out: nothing here reads what they change.
`assemble_windows` belongs to llrpkit. The model knows of it what the repository's
docs and tests say (a window opens with an active edge, takes the tags, closes with
the release, an empty one too) and leaves the rest open: a second active edge
restarts the window or not, `max_open` or the end of the stream may close it
early, and then it counts as not closed by its release (`to = 0`).

### WyuanProtocol and WyuanFraming

Bytes are numbers and frames sequences of them. A 16-bit word of the checksum is the
set of its bits that are 1, exclusive or the symmetric difference; eight shifts of the
lower byte are tabulated, since what the upper byte holds only moves down. Parsers
return what the code returns or `ProtocolError`. In WyuanFraming the worker writes any
of its three commands in any order (WyuanReader has the order), an external reader
decodes it, FastID flag included, and may append a frame to the line or be silent;
it may also push. `ReadFrame` is `_read_frame` followed by the whole of what its
caller does with the frame; `TimeOut` is `_read_exact` giving up on a quiet line, with
what it had read dropped; `TimeOutWithin` the same while the rest is still to come,
which leaves the line shifted. `Noise` inverts bits of a byte, loses it or adds one,
among the bytes that are read next.

`ReaderAssumption` says what a reader can put into a frame at all: addresses are
bytes, it has 1 to 16 antennas (the most that `antenna_from_byte` can name), an EPC has
1 to 51 bytes (six bits of a block hold the length, of which FastID takes twelve for the
TID), a scan has as many tags as a byte counts and its blocks, `ScanBlocks`, fit in 248
bytes (a byte holds the length of the frame). A scan that does not fit is the reader's
to split, over frames that say there is more.

### Zpl and ZebraPrinter

A character is a hex digit, a blank, another white space of ASCII, white space beyond
ASCII (which `strip` takes off the ends and `bytes.fromhex` refuses inside) or anything
else, which is all that `normalize_epc` tells apart. Optional arguments are sets, empty
for None. `Submit` is the synchronous part of a call up to `write`: it refuses, asserts,
or writes the whole job; `Drained`, `DrainRaises` and `Cancelled` are the three ways out
of the `await`. `StreamWriter` is external: writes are buffered (`buffer`), a write after
the close has flushed is dropped and its drain raises, and `wait_closed` returns when
the kernel has taken what was buffered (`HandOver`, `wire`) or the connection was lost
(`Break`). Nothing that happens beyond the kernel comes back to the program, so the
network and the printer are not modelled: **a label can be lost after a clean leave with
nobody told**, and no property here says otherwise. Of an injected transport only its
two methods are known; it is modelled as a socket whose `close` may drop what it holds.
The transport stays after `__aexit__`, so `EnterWithTransport` is the entry of a printer
with an injected transport and of one entered again.

## 3. Runs

| run | states | what it shows |
|---|---|---|
| `threaded` | 1 058 000 | Two hops keep order and account for every item; only the oldest is dropped, from a full queue; sentinel and failure survive; no worker ends without its sentinel; a shutdown answers a waiting consumer; the bridge is a drop-oldest FIFO (refinement). |
| `threaded_one` | violation | `max_queue=1`: the sentinel evicts the exception (see 4). |
| `fleet` | 15 000 | The merged stream is complete when it ends, raises exactly when a driver failed, waits in vain only for drivers that were not connected, leaves no task, closes from anywhere, and implements MergedStream. |
| `fleet_unconnected` | violation | A driver whose capabilities raise makes `stream` wait for ever. |
| `threaded_fleet` | 268 000 | Thread to sink: end to end nothing that the driver gave out is lost between the queues; an exception, the reader's or the policy's, ends the stream as one; an exit or a failure of the reader reaches the sink; both components behave as specified when composed. |
| `threaded_fleet_slow` | violation | The relay of `Fleet.stream` has no bound. |
| `wyuan` | 356 000 | Windows bracket the tags, edges alternate, windows follow a pin that settles, replies stay paired on a clean line, a present tag is reported again and again, a stop ends the loop, with up to two faults at any place. |
| `wyuan_resync` | violation | One late reply desynchronises the gated loop for good. |
| `windows` | 1 132 000 | Windows are trips: each once, with its own tags in order, as long as nothing is missed; the tags of two trips meet only where the release between them was missed, however often the program starts over; a shutdown ends the call unless the policy raised or a pump left behind competes. |
| `framing` | 225 000 | Only frames that were sent are accepted; tags, TIDs, antennas and levels come out as they were encoded; a quiet line realigns. |
| `zebra` | 516 000 | Refused calls leave nothing on the connection; a returned EPC is the one in the job and has the length of its bank; leaving hands every job whose call returned over to the kernel, in order. |
| `zebra_tabs` | violation | An EPC with two tabs between its digits is accepted with the tabs. |

Bounds. `MaxReads = 4` with `MaxQueue = 2` fills the queue twice over and leaves
room for an exception and the sentinel behind a full queue; `MaxTags = {2}` ends a
call between items that are still queued. Two drivers with two items each give every
order of an end, a failure, a late start and a cancellation of one against items of
the other; a third driver adds no new pair. In `wyuan` two faults combine any two
troubles, a scan has one or two frames, and three frames of buffer are enough for a
late reply to meet a scan's frames; a scan that outgrows the buffer loses frames,
which is a behaviour of the real one too. In `windows` four items are two empty trips,
a trip with two tags, or a trip and the start of another, through a queue of two that
drops; two calls let one start in the middle of what the other left, beside its pump. In `framing` two
frames and one fault are a frame shifted, garbled or cut and the frame that it runs
into, or the one that follows a quiet line; EPCs contain bytes that can be taken for
the length of a frame; frames that are not sent do pass a 16-bit checksum once in
65536, so `AcceptedWasSent` speaks of the frames that this instance can cut. In
`zebra` three calls of two tasks combine each kind of input with a refused or a
waiting call; the bank's length is scaled from 24 to 4 (6 in `zebra_tabs`). `CHECK_DEADLOCK FALSE` is set throughout:
drivers, streams and loops end, and a program may stop using them.

Fairness. Worker: a thread that is not blocked runs, and a reader told to stop
returns (the contract of `_read_blocking`, lines 198-206; `wyuan` checks that
WyuanReader keeps it). Loop: every scheduled callback runs and a getter with
something to get is woken, since asyncio's ready queue is FIFO. Fleet: a task that
can run does, and a cancelled one ends. WyuanReader: the worker goes on (its reads
return by their timeout), and a device that owes an answer gives it. Nothing is
assumed of readers, pins, faults or programs. GatedWindows: as ThreadedDriver, and the
pump and the assembler take what there is for them. The framing and printer runs check
safety only and state no fairness; where a property needs the program to
keep iterating it says so (`SinkGoesOn`).

## 4. Where code and words differ

* `threaded.py:102-106` with `max_queue=1`: the exception is dropped for the
  sentinel, so a reader's failure looks like a normal end (comment at line 89).
* `fleet.py:64`: `capabilities` is read before the `try`; see `fleet_unconnected`.
  The class docstring asks for connected drivers, `windows` checks them up front,
  `stream` hangs.
* `fleet.py:60`: "bounded queues everywhere" (`DESIGN.md:177`) does not hold of the
  fleet's own queue, which empties the drivers' bounded ones.
* `driver.py:248,252`: re-polling does not resynchronise. After a late reply the
  loop reads each reply one command late: GPIO replies end the drain and scan replies
  are thrown away by the GPIO query. The run assumes a reader that buffers a command
  that arrives while it scans; one that discards it would fall back into step.

* `zpl.py:52`: `normalize_epc` removes blanks, and `bytes.fromhex` skips any white
  space between two pairs of digits, so a text with two tabs between its digits comes
  back with them although the docstring says "clean uppercase hex" (`zebra_tabs`).

Met while modelling, without a run of their own: the relay of `windows()`
(`threaded.py:162`) has no bound either; `scan_time` is not sent without an antenna and
is taken modulo 256, where 0 means no limit (`protocol.py:141-146`); a label text that
is not ASCII raises UnicodeEncodeError where the docstring of `encode_epc` speaks of
ZPLError, though before anything is sent; a printer entered a second time uses the
connection that it closed.

## 5. What is proved

Each theorem holds for every value of the constants under the assumption its module
names. The assumptions only give the constants their types, and say that a fleet has
finitely many drivers and at least one (`fleet.py:44` refuses an empty fleet) and that
what the serial reader sends fits into a frame (`ReaderAssumption`, section 2).

| module, for every | theorem | property |
|---|---|---|
| `ThreadedDriverProofs`: queue bound, tag limit (or none) and number of reads in Nat (`BoundsAssumption`) | `TypeCorrect` | `TypeOK` |
| | `OrderPreserved` | `InOrder` |
| | `NothingVanishes` | `Conserved` |
| | `OldestDropped` | `DropsOldest` |
| | `SentinelNotDropped` | `StopSurvives` |
| | `FailureNotDropped` | `FailureSurvives` |
| | `KeptTagsYielded` | `YieldsKeptTags` |
| | `DriverImplementsChannel` | `ImplementsChannel` (refinement) |
| | `SentinelOnItsWay` | `StopOnItsWay`, which `WaiterAnswered` rests on |
| `FleetProofs`: finite set of drivers, items per driver (`FleetAssumption`) | `FleetTypeCorrect` | `TypeOK` |
| | `SentinelsToCome` | `SentinelsCounted` |
| | `StreamComplete` | `EndsComplete` |
| | `PumpsGone` | `NoOrphanPump` |
| | `FleetImplementsMerge` | `ImplementsMerge` (refinement) |
| `ThreadedFleetProofs`: as ThreadedDriver | `DriverKept`, `CallKept` | the safety part of `ImplementsDriver`, `ImplementsFleet` |
| | `DeliveredEndToEnd` | `EndToEnd` |
| | `ChannelBeneathStream` | both abstract specifications, |
| | `StreamAboveMerges` | of the composition |
| | `PumpToBeTold` | what `ExitEndsStream` rests on |
| `GatedWindowsProofs`: as ThreadedDriver, and any number of calls (`CallsAssumption`) | `WindowsTypeCorrect` | `WindowsTypeOK` |
| | `TagsKeepTheirWindow` | `TagsInTheirWindow` |
| | `WindowsGiveTrips` | `WindowsAreTrips` |
| | `TripsGivenOnce` | `EveryTripOnce` |
| | `ChannelBeneathWindows` | the driver's abstract specification, under `windows()` |
| | `EndOnItsWay` | what `EndReachesWindows` rests on |
| `WyuanReaderProofs`: length of a scan, number of faults, size of the buffers (`WyuanAssumption`) | `ReaderTypeCorrect` | `TypeOK` |
| | `TagsBracketed` | `TagsInWindow` |
| | `EdgesInTurn` | `EdgesAlternate` |
| | `RepliesPaired` | `InStep` |
| `WyuanProtocolProofs`: sequence of bytes | `FramedHasNoResidue` | two bytes of `crc16` bring any message to zero |
| | `ParseFrameOfResponse` | `parse_frame` returns what was framed |
| | `BurstChangesCrc` | noise within two adjacent bytes is always seen |
| `WyuanFramingProofs`: options, scans, noise, number of frames and faults (`ReaderAssumption`) | `ParseInventoryTakesAll` | all the tags a frame announces, or none, of any bytes |
| | `ParseInventoryOfScan` | `parse_inventory` undoes the reader's encoding |
| | `FramingInvariant` | the inductive invariant `IInv` |
| | `QuietLineRealigns` | `QuietRealigns` (an action property) |
| | `QuietLineIsRead` | `AcceptedWasSent` and `ReportsAsEncoded` on a quiet line |
| | `ReportsOnlyAsEncoded` | `ReportsAsEncoded` wherever `AcceptedWasSent` |
| | `AcceptedIsFarFromSent` | how far a frame that only passes the checksum is from those sent |
| `ZebraPrinterProofs`: set of tasks, set of requests, length of the bank (`ZebraAssumption`, `HexLenAssumption`) | `RefusalSendsNothing` | `RefusedSentNothing` |
| | `EncodesWhatIsReturned` | `ReturnsWhatItEncodes` |
| | `LabelsHandedOver` | `LeavingHandsAllOver` |

Constants that only bound a run (`MaxReads`, `MaxFaults`, `MaxCalls`) are part of the
model, but no argument rests on their values.

**ThreadedDriver.** None of the properties is inductive. The strengthening has three
parts. `TypeInv`: the types, and how many hand-overs the worker's place still allows.
`Numbered`: what is queued or scheduled, read as one sequence, is exactly the last
items handed over, numbered without a gap up to `puts`; what was taken or dropped is
older. Order, accounting and drop-oldest follow from the numbers alone. `Endings`:
the sentinel carries the last number and exists only when the worker has ended; the
exception carries the last or the one before. The sentinel cannot be dropped because
an item is dropped only for a younger one, and the exception cannot be dropped from
a queue of two because at most one item is younger. The refinement maps both hops to
one channel: a hand-over is a Send, a `_put` on a full queue a Forget, a get a
Receive, and every other step stutters. `SentinelOnItsWay` is the safety beneath the
liveness: a step that is not a hand-over only moves what was handed over (`NextHands`),
and none moves the sentinel into what was lost, so a consumer that waits at an empty
queue, with nothing scheduled and the worker gone, is one that came after the sentinel.

**Fleet.** `EndsComplete` needs to know, when the last sentinel is taken, that nothing
is behind it. `FleetInv` has four parts beyond the types. `Places`: where the pumps can
be, given where the call is. `Outstanding`: of each driver the queue holds exactly the
numbers after `delivered` up to `sent`, once each and in order. `SentinelBehind`: an
item of a driver that has ended has a sentinel behind it. `Counted`, which is inductive
with these: `remaining` is the number of pumps that have not put theirs plus the
sentinels queued, and a pump that died without one died over a driver that was not
connected. `SentinelsCounted` follows, since a pump that has not put its sentinel can
still put it or is dead (`LateOrSilent`). With one sentinel to come and one at the head of the queue every
pump is done and no sentinel is left, so by `SentinelBehind` no item is, and by
`Outstanding` all that was sent was delivered. The refinement maps an item to what its
driver produced at the put and to what was delivered at the get; tasks, queue and
sentinels stutter, and the last sentinel is the merge's end.

**ThreadedFleet.** Each step of the composition is a step of the driver or leaves it
alone, and a step of the call with its one pump or leaves that alone (`StepOfDriver`,
`StepOfCall`). So every invariant of both modules holds in the composition, the
second through an instance of FleetProofs whose assumption a single reader satisfies.
`Carried` adds what connects the two: what the pump has put is what it got from the
driver that the policy keeps, but for a tag in its hand, and the pump ended with an
exception exactly if it took the reader's or a tag on which the policy raises.
`CountedOut`: a pump that ended without one took the sentinel or had put as many tags
as were asked for. `EndToEnd` follows with `EndsComplete`, and with
`NothingBehindStop`: the sentinel has the last number, so once it was taken nothing is
on its way. Both
refinements hold of the composition as well, `ChannelBeneathStream` and
`StreamAboveMerges`: whoever uses a stream over a driver may reason with the two
abstract specifications alone. And since one pump serves one call, it has not taken the
sentinel while it waits (`PumpToBeTold`).

**GatedWindows.** A step of `windows()` either leaves the driver alone or takes the
oldest item as `inventory()` would, so the driver's invariant holds beneath it
(`DriverInv`). `HandedInv` speaks of everything handed over, wherever it is now. What
makes the proof work is `RelayInv` and `OpenInv`: the relay holds, in order and from
some item on without a gap, what the pump took of the tags and edges; the assembler's
open window holds what was taken after its edge and is not in the relay any more.
Closing it at the release therefore gives exactly the tags in between, unless some were
missed. What was taken after the window's edge is in the relay, in the window, or was
taken by a pump left behind (`Gathers`), unless it is an active edge that was passed
over: so a release that was not missed is still in the relay or behind it as long as the
window is open, and what the window holds and where it ends lies before that release
(`GivesStops`, `StopsAtReleases`). A pump left behind only adds to what was missed
(`StrayInv`, `MissedGrows`), and a first call has none beside it. `EveryTripOnce`
needs besides that the edge after an active one is its release: the reader's edges
alternate, so an edge's direction is the parity of its place among them
(`NextEdgeReleases`), and that no active edge is passed over (`TripsInv`). `EndOnItsWay`
follows the end instead of the tags: sentinel, then END in the relay (`TellInv`). It is
about a first call, because a second one, started after the first took the sentinel,
waits for nothing, in the code as in the model.

**WyuanReader.** `WindowInv` relates the window yielded to the level last seen, for any
contents of the line: an edge is yielded only when the level differs from the last, and
tags are drained only while that is active. `Paired` says what the line holds of the
running exchange, while there was neither fault nor stop: nothing where the worker is
between two; one command, or its reply, where it waits for one; one command, or frames
of the scan of which only the last ends it, where it drains. Each read then leaves the
exchange in step or over.

**WyuanProtocol.** The loops over a frame are recursive functions, and the induction
theorems of the library take a predicate as a parameter, which no prover here can
instantiate. `Induction` is therefore stated for a set, and comes from the
well-foundedness of the numbers (`SmallestOf`); `LoopExists` uses it to show that a
loop has the values its equation says, before anything is said of them. Of the
checksum's step three facts are needed. A register into which its own lower and then
upper byte is mixed becomes zero, which is what the two bytes behind a message do
(`FramedHasNoResidue`). Two steps that end in the same register started from the same
exclusive or of register and byte (`MixInInjective`), so of two messages with one
checksum the registers agree backwards from their equal ends. And the upper half of the
new register tells the lower half of that exclusive or (`MixInLow`), so the second of
two differing bytes, which reaches only the lower half, cannot hide the first
(`BurstChangesCrc`).

**WyuanFraming.** Four facts do not depend on the line: each kind of frame the reader
sends, put together and taken apart, gives the tags and the level it stands for
(`EncodedInventory`, `EncodedRealtime`, `EncodedGpio`, `EncodedPlain`). The inventory is
the hard one: `parse_inventory` walks through blocks whose lengths it reads as it goes,
and by induction stands, after k of them, where the reader's own loop stood
(`ScanPlaces`, `ParseInventoryOfScan`). `IInv` then has five parts: the types
(`Types`); that every frame sent is read as meant (`AllEncoded`); that reports and level
are what the frame read last gives (`ReadIs`); that an aligned line is cut into whole
frames, all of them sent (`LineTiled`), which a send extends by one and a read shortens
by one; and that what an aligned read returned is a frame that was sent (`GotAligned`).
From these a quiet line realigns, whatever happened to it before.

**ZebraPrinter.** `SocketInv`: jobs, buffered and handed over, are numbered by their calls
in the order of writing, and a closed connection holds none back. `CallsInv`: a call that
waits for its drain has its job on the connection if the connection took it, with the
EPC it will return; a refused one has none. Jobs are only lost where `Kept` does not hold:
on a broken connection, or with an injected transport. What a job encodes is a lemma about
`BuildEncode` alone (`BuiltOrRefused`).

TLC checked each of these inductive invariants on the run's instance before it was
proved. "In their order" is stated as `Members(...)` with `Increasing(...)`: the numbers
of items are distinct, so this says the same as a filtered sequence and needs no
recursion.

**Only model-checked.** Liveness, which is out of the prover's reach: `WaiterAnswered`
(twice), `CloseReturns`, `ExitEndsStream`, `FailureReachesSink`, `WindowFollowsPin`,
`ReportsPresentTag`, `StopEnds`, `EndReachesWindows`, and the fairness that
`ImplementsDriver` and `ImplementsFleet` ask for besides `DriverKept` and `CallKept`.
And `AcceptedWasSent` and `ReportsAsEncoded` while the line is out of step: they are not
true for every value of the constants. Sixteen bits of checksum cannot tell all frames
apart, and enough noise, or a piece of a long frame, can pass for one that nobody sent.
What holds always is proved instead: both on a line that was quiet since the last fault,
the second wherever the first holds, and that a frame which only passes the checksum
differs from every frame sent by more than two adjacent bytes, so that it takes more than
one garbled byte. The run shows that the frames of its instance are far enough apart.

**What proving changed in the model.** `ReaderAssumption` was implicit in the instance.
The cases of `Drain` were a CASE whose guards overlapped, though the source returns
early: they are now tried in the source's order.

## 6. Plan

In order; the abstract specifications are named after what they promise.

1. `ThreadedDriver`, `DropOldestFifo`, with proofs - done.
2. `Fleet`, `MergedStream`, with proofs - done.
3. `ThreadedFleet`, with proofs of safety - done.
4. `WyuanReader`, at the level of frames, with proofs of safety - done.
5. `GatedWindows`, with proofs of safety - done.
6. `WyuanProtocol`, `WyuanFraming`, with proofs - done.
7. `Zpl`, `ZebraPrinter`, with proofs - done.
8. The abstract specifications carried through the compositions - done
   (`ChannelBeneathStream`, `StreamAboveMerges`, `ChannelBeneathWindows`). Left: a client
   proved against them alone.
9. Left: a driver that is entered twice, and a loop that closes under a live worker, as
   variants of `ThreadedDriver`.

## 7. Not modelled

`LLRPDriver` delegates to llrpkit, which is not part of the repository; its only
state is a record set on connect, which Fleet's `connected` covers. `driver.py` has
no behaviour. Left out as well: wall-clock values (poll interval, `settle`,
`max_open`), the policy's categories, logging, the opening of serial ports, and what
the kernel, the network and the printer do with a label; of the
protocol the parts that the driver does not use (`build_gpio_set`, `parse_statistics`,
the phase and statistics flags of `build_inventory`); of the printer the layout of a
label and `build_read`. A loop closed under a live worker and a driver entered twice
are not covered. Examples, documentation site and packaging hold no logic.
