# IFS_HIL: a TLA+ development

IFS_HIL is the software of a hardware-in-the-loop bench: a Raspberry Pi with
CAN controllers, DACs, ADCs and relays around the ECUs of a race car.  GitHub
runs test images on the bench, people use it by hand, and a watchdog repairs it
when nobody does.  This directory holds TLA+ models of the parts of that
software that are concurrent or can fail halfway, the TLC runs that check them
on small instances, and TLAPS proofs about all nine of them, which hold for
every number of users, boards, calls and faults.

Paths below are relative to the repository; `bench.py` is `tools/bench.py`,
`bus.py` is `broker/bus.py`, and so on.

## 1. Inventory

### Bench operations (`tools/bench.py`, `.github/workflows/hil-test.yml`, `infra/systemd/`)

*State.* The lock file `/tmp/hil-bench.lock`; outside the Python processes the
ATX rails, the MCP2515 chips and their netdevs, the broker service with the DAC
objects it may have opened, and the flash of the carrier under test.

*Operations.* `bench verify` compares the bench with its descriptor.  `bench
recover` climbs one level of a ladder: restart the broker; or cycle the PSU,
reload `mcp251x`, run `hil-can-up` again and then restart the broker.  `bench
watchdog` runs every five minutes and does verify, lock, verify again, capture
of evidence, level 1, verify, level 2, verify.  A dispatched run does a
preflight (verify, recover 1, verify, recover 2, verify) and then, under the
lock, flash and suite.

*Interaction.* Through `flock`, through the hardware, and through the broker,
which a ladder restarts under everybody else.

*What is hard.* Parties die at every point; each step of the ladder may fail
and the next is made all the same; the lock is taken by commands and not by the
hardware; an object in the broker is older than the reset of its chip.

*Correct when* no carrier loses its power during a write, a suite judges the
image its own run wrote, the ladder leaves usable DACs, the watchdog changes
nothing on a bench another party has but DACs that nobody has accessed since
the broker started, which its first verify configures, and in the end the bench
is repaired and every run is over.

### Broker RPC (`broker/server.py`, `broker/rpc.py`, `tools/hil_client.py`)

*State.* A Unix socket, a handler thread for each connection, lines in either
direction; on the client side one connection for life (`BrokerClient`) or one
per thread that is dropped on errors (`hil_client`).

*Operations.* Call, answer, timeout (5 s), reconnection at the next call, a
request without an id, death and restart of the broker.

*What is hard.* A request that timed out still acts; replies carry an id and
nobody compares it; a read file object that timed out once never reads again
while its write half goes on working.

*Correct when* a call is answered by its own reply, acts at most once, and ends.

### Hardware manager (`broker/bus.py`, drivers in `tools/`)

*State.* A lock for each kind of bus, the mode byte and the socket of each CAN
controller, DAC objects that are constructed on first use, INA226, TCA9555,
MCP3208 and nRF24 objects; `PSU_ON`.

*Operations.* CAN mode changes and a loopback test through `ip link`, reads and
writes of I2C and SPI parts, PSU on and off with a wait for `PWR_OK`.

*What is hard.* Handler threads of all clients come in at once; a relay pin is
a read and a write of a register, a DAC read is two frames; the supply is
waited for with the GPIO lock held, as long as a client waits for an answer;
a starting broker asserts `PSU_ON`; the kernel keeps state the broker does not
ask for, and links are also changed by `hil-can-up` and a reload of the driver.

*Correct when* each operation acts at one instant whatever the others do, no
thread waits for ever, a CAN test that has the lock is alone with its link, no
socket outlives its link, and the recorded mode is that of the link.

### Carrier flashing (`tools/flash_dut.py`)

*State.* The expander that drives the four carrier relays, the PSU, for each
carrier whether it is dark, booting, in its bootloader or in its app, the app
it holds and the node id its bootloader answers to.

*Operations.* `flash()` isolates the target, powers and measures it, triggers
its bootloader, asks who is there, erases, writes and cleans up.  The dashboard
switches any carrier and the PSU at any moment.

*What is hard.* Node ids drift, boards are without an app, and every step
fails or is the last; two programs write one register.

*Correct when* no other board is erased or written, and the relays are put
back when that was asked for.

### Dashboard (`dashboard/app.py`)

*State.* `_state`, the result of the last poll; `_relay_state` and `_psu_on`,
what it remembers having switched.

*Operations.* A thread polls the bench in four parts every two seconds and
replaces `_state`; requests switch relays, supply and DACs and note what they
did; a browser asks for `_state`.

*What is hard.* What it remembers is not what it reads: two requests for one
slot, a request that failed, a tool, a restart of the broker.  `_state` is
emptied and filled in two steps, from a round in which everything may have
changed.

*Correct when* its memory is true wherever nothing of that kind has happened,
and what a browser is sent catches up with the bench.

### CAN tracer (`dashboard/can_tracer.py`, `/api/can/*`, the trace tab)

*State.* A reader thread, a socket and a ring buffer for each bus, a bounded
queue for each open stream.

*Correct when* a slow page never holds up a reader, what a page gets of a bus
has no hole, and streams whose browser has left are dropped.

### LTC6811 emulator (`tools/pico_ltc_emulator/`)

*State.* On the Pico: the cells and temperatures set over USB, the prebuilt
answers to six register reads, the answer served now, the mask of silenced
modules, the selected channel of the multiplexer, the FIFOs of the SPI slave
and the framing of the transaction.

*Operations.* One core polls: `ltc6811_emu_service` in every turn, and in
every 256th, with CS high, one byte of the USB console.

*What is hard.* The AMS clocks whenever it likes, also while the loop is in the
USB stack; the slave then has the pad it loaded and eight bytes of room, and
edges of CS come and go unseen.

*Correct when* an answer whose PEC fits is that of the register asked for, with
what was set for that chip and that channel.

### Host client of the emulator (`tools/pico_ltc_emulator/host/`)

*State.* A serial port with lines under way in both directions; the cells and
temperatures a test has injected and the modules it has silenced.

*Operations.* A line out and a line back, with a timeout of a second; sessions
that reset everything at their end (the fixture of the AMS suite, and
`temporarily()`).  The line names a chip and a channel of the chain:
`set_cell`, `set_temp` and `temporarily()` take these from their caller,
`set_module_cell` and `set_module_temp` compute them from a module's cell or
sensor.

*What is hard.* Nothing says which reply belongs to which call, and a timeout
is an empty reply and a success; the Pico reads its lines between two polls.

*Correct when* the AMS sees what the calls asked for, and no session leaves
anything to the next one.

### Legacy flasher (`tools/flash.py`)

*State.* A run's step and image; frames and replies under way; on the board the
app, the bytes since the last erase and the metadata set so far.

*Operations.* Ping or remote entry and poll, info, erase, size, CRC, version,
data frame by frame, finish, verify, jump.

*What is hard.* A reply names its command and nothing else; every wait ends
with its deadline and two of the steps go on without a reply; a run that was
killed leaves a board without an app and frames under way.

*Correct when* a run that reports a flash has put this image on the board, and
a run in which nothing goes wrong works after any that did not.

### Other parts

| Part | Where | Status |
|---|---|---|
| Descriptors, suites, doctor, resolve, fallback | `bench.py` 99-535, 864-1036 | not modelled: functions of files, see the plan |
| ECU simulators, observers | `tools/firmware_test/` | not modelled, see the plan |
| Retry loop around `can-flasher` | `tools/flash_ams_via_trigger.py` | not modelled: `flash_dut` has replaced it |
| Fake hardware for tests | `broker/fake_bus.py` | not modelled: replaces what is modelled |
| HIL suites and fixtures | `tests/hil/` | not modelled: they test firmware kept elsewhere; the `pico_emu` fixture is in `PicoClient` |
| Build and inventory workflows | `.github/workflows/` | not modelled: no shared state beyond what a run has |
| Setup and report scripts, diagnostics | `scripts/`, `tools/*_116.py`, `tools/scan_*` | not modelled: sequential, run by hand |
| Device tree, udev, driver patch | `infra/` | not modelled: declarations; their effect is external here |

`PROJECT.json` has the same list with the files of each part, and every hazard
with the line where it bites and the property that covers it, or the reason
why none does.

## 2. Modules

| Module | Models | Refines |
|---|---|---|
| `BenchLock` | what the lock promises: rails and flash belong to its holder | |
| `BenchOps` | everybody who acts on a bench | `BenchLock` |
| `BenchOps_proofs` | theorems about `BenchOps` | |
| `BrokerCall` | what one call promises: at most one effect, an answer means it happened | |
| `BrokerRpc` | sockets, handler threads, both kinds of clients | `BrokerCall` |
| `BrokerRpc_proofs` | theorems about `BrokerRpc`, and its refinement | |
| `CanLink` | CAN half of `bus.py` with the kernel's links | |
| `BusContract` | what the broker promises those who share it: each hardware operation acts at one instant | |
| `Dashboard` | poll thread, requests and a tool on the buses of the broker | `BusContract` |
| `Dashboard_proofs` | theorems about `Dashboard` | |
| `CarrierFlash` | `flash_dut`, the relays and boards, the dashboard's POSTs | |
| `CarrierFlash_proofs` | theorems about `CarrierFlash` | |
| `CanTracer` | readers, queues, generators, pages | |
| `Can_proofs` | theorems about `CanLink` and `CanTracer` | |
| `LtcEmulator` | the Pico's loop, SPI slave and console, with the AMS as its master | |
| `LtcEmulator_proofs` | theorems about `LtcEmulator` | |
| `PicoClient` | host client and line protocol of the emulator | |
| `PicoClient_proofs` | theorems about `PicoClient` | |
| `LegacyFlash` | `tools/flash.py` and the bootloader it talks to | |
| `LegacyFlash_proofs` | theorems about `LegacyFlash` | |

`BenchOps` has one carrier and `flash_dut` in four steps, because its subject
is who may act when.  `CarrierFlash` has all carriers and every step of one run,
because its subject is which board is written.  The two share the call
`flash()` and no variable.  `BenchOps` restarts the broker as one step; what
that does to calls in progress is the subject of `BrokerRpc`.

The broker is cut in three.  `BrokerRpc` has lines, connections and handler
threads, and of a method only that it acts.  `Dashboard` has the methods of the
I2C, SPI and GPIO buses, and of the connections only that a call returns or
fails and may act later than that.  `CanLink` has the methods of the CAN bus.
`BrokerCall` and `BusContract` are the two promises between them: a call acts at
most once, and it acts at one instant.

The `MC` modules name the values that a configuration file cannot write.
Operators whose comment begins with "Mutant:" are faulty versions of the
definition they precede, listed in `PROJECT.json` under `mutants`; none of them
is used by a specification.

### BenchOps

`pc` is the program counter of each party.  A dispatched run goes through
`JobStart` (the concurrency group of the workflow), `JobVerify` (the preflight
script), `FlockRecover` and the ladder, `FlockRun` (`flock -w`), `Energise`,
`Discover`, `Erase`, `Write` (`flash_dut`), `SuiteEnds`.  Recoveries by hand
and the watchdog use the same ladder actions, as they use the same `recover`.
`LadderStep` is `recover`'s list of steps: each one may fail, and no failure
stops the next one.  Some effects are worth knowing when reading it:

* cutting the rails resets the DACs and CAN chips, powers down the carrier, and
  makes `dacs` stale if the broker had opened them (`RailsOff`);
* the broker opens the DACs at the first DAC call, which `verify` makes
  (`OpenDacs`), and while the rails are off what it writes is lost;
* a starting broker drives `PS_ON#` low (`BrokerStart`), and `Wants=` in its
  unit starts `hil-can-up` if that is not active;
* the watchdog's first `verify` takes no lock, so that it may be the call that
  opens the DACs of a bench that is busy; this is all that
  `WatchdogLeavesBusyBenchAlone` allows it (`hardwareButDacs`);
* `verify` looks at the presence and timing of a netdev and at device ids, not
  at the state of a link or at the configuration of a DAC
  (`MatchesDescriptor`), and may call a good bench bad (`Verdict`).

`Killed` ends any party anywhere: a cancelled run, a unit over its time, Ctrl-C.
The kernel frees the lock, and an interrupted write leaves no app.  An image
that loses its power during a write is `"bricked"` (F-077 in the comments of
`bench.py`).

### BrokerRpc

A connection has an `inbox` and an `outbox`; `Execute` and `Write` are the two
halves of `_Handler.handle` between which a broker can die.  `Call` on a
connection whose read half has timed out (`deaf`) still writes its request.
`Drop` is the `except` clause of `hil_client._call`, which only the clients in
`Cached` go through.  `Notify` is a request without an id, which fails or not;
one that fails is answered all the same.  `acted` is a history of effects: the
refinement counts in it.

### CanLink

`Enter` takes `_can_lock`; a call then goes through `TakeDown`, `BringUp` or
`BringUpFails`, `Record` and, for the loopback test, `Send` and `Receive`.  An
`ip link set down` that fails is not noticed (`check=False`), and the link it
leaves up cannot be given a bitrate, so that `ip link set up` fails.  An
`ip link` that does not mention loopback leaves the kernel's flag `echo` as it
is.  `can_get_mode` takes no lock and makes two reads.  `CanUpRestarts`,
`Reload` and `BrokerRestarts` come from outside; a call they meet is recorded
in `disturbed`.

### CarrierFlash

`Live` is the set of slots with power: rails on, port driven, bit set.  Every
write of the expander or of the PSU goes through `Switch`, which lets boards
boot and stop.  Pages of the dashboard write the same register, in two steps
that the code does not hold together; `alone` says that none has since the run
began.  `flash()` is `Start`, `Snapshot`, `Direction`, `Isolate` (one
slot at a time), `Energise`, `Measure`, `Trigger`, `Discover`, `Erase`,
`Write`, `Finally`; a step that raises goes to `Finally`, and `Killed` skips it.
`Erase` hits every board in its bootloader that answers to the id of the
profile: this is how the wrong board would be written.  `Init` takes all node
ids and all apps, also those of the other kind and none.

### Dashboard

A call of a broker method goes `queued`, `inside`, `done` (or `failed`), and
back to `idle` when its caller has the answer.  `Free` is the lock of its bus:
`Enter` takes it and makes the first access, `Leave` makes the second and gives
it back.  Between the two a pin's register is in `copy`, and the DAC knows from
`readback` which register it is to send in its next frame.  Whoever finds no
DACs goes through `opening` (`_ensure_dacs`), with the lock of the bus and
before taking it for the operation itself.  `Raises`, `NoPwrOk`, `GivesUp` and
`BrokerRestarts` are the four ways to fail; what was given up on while queued
is in `loose` and acts later, or never.

`Request`, `Remember`, `RememberPsu` and `Answers` are the endpoints.  The
threads of the WSGI server have no identity, so that a request is for the first
that is idle.  `PollAsks` and `PollReturns` go through the parts of `_poll_once`
(PSU, DACs and relays, pins); between `PollClears` and `PollUpdates` the status
is an empty dictionary under `_state_lock`, and `Refresh` records in `blank`
whether a browser has ever been sent one.

`doubt` and `alone` are histories.  `alone` has the requests whose relay or
supply nobody else has asked about since they came; `doubt` has the relays
whose memory may be wrong, and is what `MemoryIsTrue` quantifies around.

### LegacyFlash

`step` is the command whose reply is waited for; `Send` puts its frame on the
bus, where it is lost if no bootloader runs.  `Accept` is the reply that fits,
`Ignore` any other, `Refused` a status; `RemoteEnter`, `PollAgain`, `GiveUp`,
`InfoLate`, `JumpLate` and `CommandLate` are what a deadline does at each step.
A probe may be given up on although the board would have answered: whether the
application hears the request to reboot is then open (`Asked`).
The bootloader is external and obeys a frame at a time; `BlFinish` vouches for
an app only if size and CRC fit.  A file is a name and a number of frames, its
CRC is its name.  `before` and `calm` are histories: which erase and finish
commands of earlier runs were still under way when this one began, and whether
anything has gone wrong since.

### PicoClient

`pipe` and `replies` are the lines under way; `Dispatch` is the Pico that reads
one.  A request injects into a cell or sensor of a module, or sets a channel in
`Raw` by its place in the chain; the line that goes out (`Line`) has such a
place in either case.  `Channel` is the arithmetic of the client, `Wiring` the
order in which the AMS reads a module, `Wired` what it reads at a place (one
quantity, or none), and `Seen` what it finds changed; `meant` is what the calls
ask for.  The overrides of `temporarily()` are raw, so that its keys mean places
in the chain here and not modules.  `Returns` takes whatever line comes next,
as `_tx` does.  A session ends in one of two cleanups (`Fixture`,
`Temporarily`), also after `Raises`.  `PicoResets` closes the port, as every
use of it raises until it is opened again.

### CanTracer

`Hear`, `Keep` and `FanOut` are the reader loop; a full queue costs its
subscriber the subscription.  `Open` sends the two requests of the page;
`Copy` (one ring buffer after the other, while the readers go on), `Recent` and
`ShowRecent` are the answer to one, `Subscribe`, `Start`,
`Deliver` and `Finish` the generator of the other.  `CloseTab` may come at any
time.  A row of a page remembers which of the two requests brought its frame:
`Trail` is what a page has appended and will append of its stream, `Carried`
the positions in it of the frames of one bus.  Its initial predicate, next-state
relation and type invariant are called `TraceInit`, `TraceNext` and
`TraceTypeOK`, since one module of proofs extends it together with `CanLink`.

### LtcEmulator

Words of two bytes are the unit: an opcode or a PEC, and for each chip three
words of data and their PEC.  `Rise` and `Serve` are the two ways through
`ltc6811_emu_service`: with a rising edge since the last call, and without.
`Serve` feeds first and drains after, as the code does, so that what a
transaction is answered with was decoded by an earlier call.  `Decoded`,
`Snooped` and `Selected` are what draining the receiver does to
`current_response`, `is_wrcomm_xact` and `g_adg731_ch`.  `EnterUsb`, the
console commands and `LeaveUsb` are one call of `usb_cmd_service`; commands
that change nothing that is served (`PING`, `STATUS`, `DUMP`, ...) and bytes in
the middle of a line are calls without a command.

`CsFall`, `Clock` and `CsRise` are the AMS.  `Tick` is the one assumption on
time: a turn of the loop is far shorter than a word, so that the loop has done
what there is to do before the next edge, unless it is in the USB stack.  (The
100 us it takes to rebuild `RDAUXA` fall into a `WRCOMM`, whose remaining words
nobody looks at.)  A transmitter without data stalls and goes on where it gets
some: in the middle of a word, after which no PEC fits, or by chance at the
start of one, after which the answers are shifted (`skewed'`).  Sequences of
commands are arbitrary, and a transaction ends early when the carrier loses its
power.

## 3. Runs

| Run | Configuration | Question |
|---|---|---|
| `bench_safety` | two runs (one bench-only and degraded), an operator, the watchdog; two faults | does the lock protect flash, image, DACs and each other's bench? |
| `bench_live` | a run, an operator, a hand run of `flash_dut`, the watchdog; one fault | is the bench repaired and do runs end, also with somebody outside the lock? |
| `rpc` | a polling thread with a cached client and a tool that keeps its connection and sends notifications, three calls each; one timeout, one stop | own answers, order, at most one effect, every call ends |
| `can_link` | two controllers, two threads (symmetric), one `ip link` that fails, up or down, one intervention from outside | is a test alone with its link, does a socket follow it? |
| `can_normal` (violation) | one controller, one thread | mode `0x00` is "link UP, `loopback off`" |
| `dashboard` | two request threads, a tool, the poll; two relays, one DAC channel; two requests, one fault | are operations atomic, is the memory true, does the status catch up? |
| `flash` | AMS, ECU and an empty slot; two runs of `flash_dut`, failing or killed anywhere; two requests to the dashboard | is the target alone powered and alone written, are relays put back? |
| `legacy` | a short and a long image, versions 0 and 1; three runs, three mishaps | is a reported flash on the board, a skip right, a retry a repair (short of a finish that is on its way)? |
| `trace` | two buses, one stream with a queue of one, four frames | no holes, no waiting, no dead streams |
| `ltc` | two chips, one per module; two channels; three transactions, one cut short; a console command | are answers those of the command asked, and does one transaction without the console put everything right? |
| `ltc_selector` (violation) | two transactions, calls of the console no longer than two words | "`WRCOMM` is snooped" |
| `pico` | two modules, cells and sensors 9 and 18, by name and, as keys (0, 9) and (1, 9), by place in the chain; three calls, two timeouts, a reset of the Pico | does the AMS see what was asked, and nothing after a session? |

*Why these bounds.*  A fault is needed to open each window and a second one to
fall through it: a ladder that is killed and a verify that is wrong, for
example, so that `bench_safety` has two.  Nobody in `BenchOps` counts the
others, and two runs, an operator and the watchdog give each kind of party
every kind of rival.  Three calls on a connection are a late one, its
successor, and one after it.
Two controllers show that the broker's lock is shared and its bytes and sockets
are not.  A request of the dashboard needs one rival for each of its hazards,
and a fault one request to strike, so that two requests and one fault open all
windows, beside a poll that comes round without end; the proofs say that more
do not matter.  Two runs of `flash_dut` are one that leaves a board without an
app and one that repairs it or flashes the other; two requests are a carrier
and its supply, or two carriers.  Three runs of `flash.py` are a killed one,
one whose frames are still under way, and one that has to work; two frames of
data are the fewest of which one can be missing.  In `trace` four frames fill a
queue of one twice and make a ring buffer of two forget.  In `ltc` the three
transactions are one that meets the console, one that follows it and one that
has to be right again; twelve words of USB are a whole transaction and the
command of the next.  In `pico` 9 is on the far side of both splits and 18 the
last cell; as raw keys the two modules with index 9 are a channel the AMS does
not read and one it reads as another cell; two timeouts put two replies late at
once.

*Deadlock.*  `BenchOps`, `CanLink` and `Dashboard` are checked for it: a watchdog
ticks, a broker serves and a poll comes round for ever.  In the other models
everything stops once the bounds of calls, runs and frames are used up, so that
the check is off there.

*Fairness.*  In `BenchOps` a party that can take its next step takes it,
because it is a running process, and systemd restarts its units.  A party that
waits for the blocking `flock` gets it if it becomes free again and again
(strong fairness): the kernel queues waiters.  Nobody has to start anything
and no fault has to happen or to stop happening; the bound on faults is what
ends them.  In `BrokerRpc` handler threads run, blocked reads see what arrives,
and the broker is restarted; no timeout has to happen, so that `CallsEnd` does
not rest on it.  In `Dashboard` a handler gets a lock that is free again and
again (strong fairness): a `threading.Lock` has no queue, but the only thread
that comes back by itself sleeps two seconds between its rounds.  Requests get
to their answers, the poll goes round and browsers go on asking; a call that
was given up on need not be made, and nobody has to click.  In `PicoClient`
the interpreter gets through its `finally` clauses and the firmware to its
console; bodies end, since a suite has a time limit.  In `CanTracer` reader
threads that hold a frame go on and generators reach their next yield, which
the keepalive guarantees; pages may be as slow as they like.  The safety runs of
the other models assume nothing.

### What the violations show

* `can_normal`.  After one loopback test or one `set_mode(0x40)` a link that is
  set to normal comes up in loopback, for `_ip_up` never says `loopback off`
  and the kernel keeps the flag.  `can.get_mode` reports `0x00`.
* `ltc_selector`.  A call of the USB console that lasts two words, 40 us, may
  swallow a conversion command whole.  Its rising edge is then never handled:
  `cmd_parsed_this_xact` is set when its words are drained and still holds in
  the next transaction.  If that is a `WRCOMM`, its selector is not taken, and
  `RDAUXA` answers with the old channel and a PEC that fits until the next
  selector.  `ltc` says what holds: the transaction after one that did not meet
  the console is never misled.

More things were met on the way that no property states:

* `cmd_recover` announces that nothing else can be flashing once it holds the
  lock (`bench.py:613`).  `flash_dut` takes no lock, only the workflow wraps it
  in one: a recovery of level 2 beside a hand run of `flash_dut` cuts the power
  under its write.  `bench_live` has such a run, and `NeverBricked` holds without
  one only.
* Every error path of `handle_request` returns an error line, with or without an
  id, against `rpc.py:17`.  A client that sent notifications would read it as the
  answer of its next call; none in the repository does.  `OwnAnswer` is therefore
  about connections that have had no such line, and says that the others do not
  notice.
* Nothing keeps the dashboard from closing another relay between the isolation
  and the write of `flash_dut`, whose docstring has only the target powered
  (`flash_dut.py:23`).  `flash` shows that for runs without a click, and that
  with one boards with their own app are still not erased.
* A page that falls behind is unsubscribed for good while its stream stays open
  (`FanOut`), where the comment in `can_tracer.py:234` speaks of dropping the
  oldest frame.  And after a reload of the CAN driver the tracer reads its old
  socket for ever.
* A degraded or killed ladder can leave DACs whose configuration is gone for a
  suite, since `verify` reads ids only; `LadderLeavesNoStaleDacs` is what does
  hold.
* A starting broker asserts `PSU_ON` (`bus.py:142`) under a comment that says it
  does not touch it, and the dashboard goes on showing the supply as off.
* `psu.power` waits for `PWR_OK` as long as its client waits for an answer, so
  that the client gives up first, or does not: the `doubt` of `Dashboard`.  The
  register of the expander survives the supply, the memory of the relays does
  not: after off and on, carriers shown as off have power.
* `flash.py` takes an equal version for an equal image and leaves the board in
  its bootloader when it skips.  `SkippedHasVersion` is about the version, and
  needs `before = {}`: an erase of a killed run may still be on its way.
* No frame of the legacy protocol says which run it is from.  A run that is
  killed leaves a command on its way; the reply answers the same command of the
  next run, which is thus one command ahead of the bootloader, and leaves two
  if it is killed in turn.  After eight killed runs a finish is on its way when
  the ninth begins, whose reply the ninth takes for that of its own finish: it
  reports `flashed` for a board that holds the image before.  It came up in the
  search for the inductive invariant, and TLC finds it in a directed search over
  so many runs; the three of `legacy` are too few for it.  `FlashedHoldsImage`
  and `RetryRepairs` therefore except a run that begins with a finish under way
  (`"finish" \in before`).
* A read of the Pico's port that times out is an empty reply, and so a success,
  for `ping` too.
* `infra/systemd/README.md:108-109` has a run in progress "left strictly alone"
  by the watchdog.  Its first `verify` (`bench.py:672`) takes no lock, and reads
  a DAC through the broker: if nobody has since the broker started, that
  constructs the DAC objects, which writes `CONFIG`, `SYNC` and `GAIN` of the
  chips (`bus.py:239-278`, `dac80504.py:52-64`).  `WatchdogLeavesBusyBenchAlone`
  allows this and nothing else.
* The docstring of `temporarily()` (`pico_ltc_client.py:292-293`) calls its keys
  module and cell, or module and sensor.  They are sent as they are, as places
  in the chain (295-299): the key (0, 9) sets a channel the AMS does not read,
  (1, 9) cell 18 of module 0, and cells 12 to 18 are refused.  `SeenAsMeant`
  reads these keys as the code does.
* A comment of the fixture (`tests/hil/ams/conftest.py:978-983`) says that
  `RESET_STATE` drops the mask and does not clear injections.  The firmware
  clears both (`usb_cmd.c:136-142`, `cell_state.c:5-14`), as
  `docs/pico_ltc_emulator.md:117` says.  The fixture would be right either way;
  `temporarily()`, whose cleanup is `RESET_STATE` alone, would not:
  `SessionsLeaveDefaults` fails in the mutant `AppliedAsCommented`, which does
  what the comment says.

## 4. Proofs

`BenchOps_proofs` proves for all sets of runs, operators and hand flashers and
any number of faults:

| Theorem | Statement |
|---|---|
| `Typing` | `Spec => []TypeOK` |
| `Locking` | `Spec => []Locked` |
| `Imaging` | `BareFlashers = {}` implies `Spec => []Imaged` |
| `NoBrickUnderTheLock` | with everybody inside the lock, `[]NeverBricked` |
| `VerdictOnOwnImage` | with everybody inside the lock, `[]SuiteJudgesItsImage` |
| `Rebuilding` | `Spec => []Rebuilt` |
| `LadderEndsFresh` | `[]LadderLeavesNoStaleDacs` |
| `WatchdogYields` | `WatchdogLeavesBusyBenchAlone`: but for the first opening of the DACs |
| `FlockImplementsBenchLock` | with everybody inside the lock, `BenchOps` implements `BenchLock` |

*Assumptions.*  `ActorsDiffer`: the parties are different, `NoOne` is none of
them, and their names are not words for an image.  `BareFlashers = {}` is a
hypothesis of four theorems and cannot be dropped: a hand run of `flash_dut`
beside a recovery is a counterexample to each.

*Argument.*  None of the safety properties is inductive.  That the power stays on
under a write needs that a writer and a ladder are not there at once, which
needs that each of them holds the lock (`Locked`), in all regions between taking
the lock and giving it back and at every failure exit.  `Imaged` then ties the
flash to one writer: `"writing"` has a party at `write`, that party has power,
and a suite of a run with firmware judges that run's image.  It is inductive
relative to `Locked`: an `Erase` by another party or a `RailsOff` would need
the lock that the writer holds.  `Rebuilt` says that behind a completed ladder
the broker is new and the rails are on, and that a watchdog off the ladder is
on rung 0; the steps that would spoil the DACs are again excluded by `Locked`.
The refinement maps `lock` to the owner and the image to settled or writing;
each step of `BenchOps` is a step of `BenchLock` or a stutter, by `Locked` and
`Imaged`.

`Dashboard_proofs` proves for any number of request threads, relays, channels,
requests and faults:

| Theorem | Statement |
|---|---|
| `Typing` | `Spec => []TypeOK` |
| `Locking` | `Spec => []BusInv` |
| `LocksMakeAtomic` | `Spec => KeepsBusContract`: `Dashboard` implements `BusContract` |
| `MemoryHolds` | `Spec => []MemoryIsTrue` |

*Assumptions.*  `DashboardConstants`: the poll, the tool and the request threads
are different, `"psu"` is no name of a relay, values of DACs are numbers.
`NoCallIsNone`: `NoCall` is no operation and no channel.

*Argument.*  `BusInv` is the strengthening that matters: handlers inside at once
hold different locks (`Exclusive`), and what a handler read on entering is still
there (`Current`: its `copy` is the register of the expander, and the DAC's next
frame carries the channel it asked for).  Each half needs the other's lock:
a pin written, a frame sent, or a supply switched by somebody else inside would
break `Current`, and the supply does: it is on another bus, so that a read of a
DAC is put at `Leave`, where it sees what the supply has left.  With `BusInv`
each step is a step of `BusContract` or a stutter, under the mapping that calls
an operation acted when its handler has left, or, for the supply, when it has
entered; that a failed call is over, and a raise in the middle leaves nothing,
is in `Pending` and `Acted`.  `MemInv` adds to it that two requests in `alone`
never have the same subject and that outside `doubt` a relay nobody asks about
is remembered as it is, and one that a request in `alone` asks about becomes
what that request says; without `Exclusive` a pin written back could undo a
neighbour that nobody has in doubt.  `DashInv` types what only the poll and the
pages touch, and says which call the poll has made at each stage.

`Can_proofs` proves about `CanLink`, for any number of controllers, threads,
failures of `ip` and interventions from outside:

| Theorem | Statement |
|---|---|
| `Locking` | `Spec => []LinkInv` |
| `Typing` | `Spec => []TypeOK` |
| `TestsAreAlone` | `Spec => []HealthyTestsPass`: for tests no restart or reload from outside has met |
| `SocketsFollow` | `Spec => []SocketFollowsLink` |

*Assumption.*  `LinkConstants`: there is a controller, and `NoOne` is no thread.

*Argument.*  A test passes because of what four earlier steps of the same call
have left, so that `Undisturbed` says for each region what that is: no socket is
open from the close to the reopening, and the link is up with its echo once it
has been raised.  Another thread would break each of
these, and is excluded by `Holding`: who is past `Enter` is who holds the lock.
A call that has met the outside is in `disturbed`, and `Quiet` says that nobody
is while the outside has not acted.

and about `CanTracer`, for any number of buses, streams and frames and any size
of ring buffers, queues and backfills:

| Theorem | Statement |
|---|---|
| `Fanning` | `TraceSpec => []TraceInv` |
| `TraceTyping` | `TraceSpec => []TraceTypeOK` |
| `NoHoles` | `TraceSpec => []StreamsHaveNoHole` |

*Assumption.*  `TracerBounds`: the sizes are positive numbers.

*Argument.*  A hole is seen only when a later frame arrives, so that the
invariant has to say what a stream must have by then.  `Numbering`: a number is
given once, and what a reader holds is newer than all of its ring buffer, or is
the last in it.  `Handed`: no stream has carried anything newer than that.
`Complete`: whoever is still subscribed has all of the ring buffer since its
first frame of the bus, but for the one a reader stands with between `Keep` and
`FanOut`.  `FanOut` closes that gap for the queues that have room and drops the
others; those are no longer subjects of `Complete`, and get nothing after which
a hole could show.  A queue that were passed over would stay in `subs` with a
gap: this is the mutant.  `Subscribing` says that who subscribes has carried
nothing yet, so that `Complete` has nothing to ask of it.  The steps of a page
change no trail of any stream: an event takes a frame from the queue to the page
(`Delivered`), and the rows of a backfill fall between the two and are not of
the stream (`Backfilled`); `Same` says so of two trails, and `PageKept` carries
the invariant over.  That `recent()` returns every frame once needs that the
ranks of frames by number are a bijection (`MergedOnes`), also for frames that
were copied at different times (`Copying`).

`CarrierFlash_proofs` proves for any number of slots, kinds of boards, node ids
and requests of the dashboard:

| Theorem | Statement |
|---|---|
| `Isolating` | `Spec => []FlashInv` |
| `Typing` | `Spec => []TypeOK` |
| `TargetAlone` | `Spec => []OnlyTargetPowered`: while nobody clicks |
| `OthersKeepTheirApps` | `Spec => OnlyTargetRewritten`: with a click, for boards with their own app |
| `RelaysPutBack` | `Spec => RelaysAsBefore`: for runs that are to restore, end by themselves, and meet no click |

*Assumptions.*  `CarrierConstants`: some slot is seated and no two of them with
the same kind of board (one of each is what the descriptor of the bench lists),
and the node id of a kind is an id.

*Argument.*  A bootloader answers to the id in its NVM, which may be that of
another board, so that ids say nothing.  What does is power.  `LitShrinks` and
`Isolated` say that behind the isolation nothing but the target has it, unless
the dashboard came in between; `Waiting` is what holds even then: a bootloader
that answers there is on a board without an app, on one whose app is already
that of the target's kind, or on the target.  `Noted` says that the snapshot of
the relays is still what the run found, and that the expander drives its pins
by then or there was nothing on; every failure past the snapshot ends in
`Finally`, which puts that back, unless the run is killed.

`BrokerRpc_proofs` proves for any number of clients of either kind, calls,
timeouts and stops of the broker:

| Theorem | Statement |
|---|---|
| `Piping` | `Spec => []RpcInv` |
| `Typing` | `Spec => []TypeOK` |
| `EachItsOwn` | `Spec => []OwnAnswer` |
| `InOrder` | `Spec => []OrderOnOneConnection` |
| `CallsKept` | `Spec => KeepsCallContract`: `BrokerRpc` implements `BrokerCall` |

*Assumptions.*  `RpcBounds` types the constants and assumes nothing else.

*Argument.*  Nobody compares ids, so that an answer is the caller's own by
position.  `Pipe` orders what is under way on a connection: replies, then the
request that runs, then those not read yet, each side ascending; `Once` puts
each request on one connection and its effect before its reply.  `Own` then
says who still listens: on a connection whose client hears, nothing but the
request that is waited for is under way, for a client that drops its connection
on every error because the connection is new, for one that keeps it because it
is deaf after its first timeout.  `Ordered` adds that a kept connection is the
only one its client ever has.  The refinement reads the calls told and acted off
`outcome` and `acted`; each step of a client, a handler, or the death of the
broker is a step of `BrokerCall` or a stutter.

`LtcEmulator_proofs` proves for every chain, set of channels, number of
transactions and commands, and length of a call of the USB stack:

| Theorem | Statement |
|---|---|
| `PoolStaysFresh` | the prebuilt answers are those of the present cells, temperatures and channel |
| `Framing` | `Spec => []AnswerInv` |
| `Typing` | `Spec => []TypeOK` |
| `SelectorsHold` | `Spec => []SelectorIsKept` |
| `RightRegister` | `Spec => []AnswersItsCommand` |
| `AllRightAgain` | `Spec => []NextOneIsRight` |

*Assumptions.*  `LtcBounds`: there is a chip, the channel after boot is one, and
`FirstRead` is a register group.  `LtcWords`: names of groups, commands,
channels and of the filler are different words.

*Argument.*  `PoolIsFresh` is inductive by itself, with the lemma that of the
six answers only `RDAUXA` depends on the channel, which is why a selector has to
rebuild no other.  The others are about one transaction and what the one before
it has left behind, in five parts.  `Edges`: a rise of CS is missed only by a
loop that was in the USB stack when the transaction began, so that every other
transaction starts with empty FIFOs and cleared flags (`Fresh`).  `Received`:
where that is so, all words the AMS has sent are counted or still in the FIFO,
and a command that was parsed is the one sent.  `Selecting`: a selector that
counts has been taken, or lies where the loop will look for it.  `Answering`:
the transmitter holds the data in order and is behind the AMS only after a
stall, and it does not stall in a transaction without the console.  `Reading`:
what the AMS has of an answer is that stream, word by word.  With `PoolIsFresh`
an answer without a shift is then the right one, and one with a shift is right
for a chip further down the chain.

`PicoClient_proofs` proves for any sets of modules and cells and any number of
calls, timeouts and resets of the Pico:

| Theorem | Statement |
|---|---|
| `Obeying` | `Spec => []PicoInv` |
| `Typing` | `Spec => []TypeOK` |
| `AsMeant` | `Spec => []SeenAsMeant` |
| `ReturnedIsDone` | `Spec => []ReturnMeansDone` |

*Assumptions.*  `PicoConstants`: indices are those of a module, 0 to 19, and raw
channels those of the chain, ten chips of twelve cells and of 32 sensors.

*Argument.*  `SeenAsMeant` speaks of an empty pipe.  Its invariant says what the
lines on their way will do: `Latest` is true of a quantity if the last line that
concerns it sets it, or if none does and it is set now, and `Foreseen` says that
this is what the calls have asked.  It is kept when a line is written (the last
line has the last word), when the Pico obeys the first (which moves from the
future into the present), and when a reset empties the pipe.  That the split of
cells between two chips maps no two quantities to one channel is a lemma on
`Channel`.  `OneAtATime` is for sessions in which nobody was late.

`LegacyFlash_proofs` proves for all images, lengths and versions and any number
of runs, kills, late or lost replies, refusals and resets of the board:

| Theorem | Statement |
|---|---|
| `Typing` | `Spec => []TypeOK` |
| `Ordering` | `Spec => []FlasherInv` |
| `Flashing` | `Spec => []FlashedHoldsImage` |
| `Skipping` | `Spec => []SkippedHasVersion` |
| `Repairing` | `Spec => []RepairInv` |
| `Retrying` | `Spec => []RetryRepairs`: unless a finish was on its way at the start |

*Assumptions.*  `FlashConstants`: there is an image, an image has a frame, and
the word for a board without an app is neither an image nor a version nor an app.

*Argument.*  What the board will hold is decided by frames that are still under
way.  `Settled` says that from the size on the metadata is the run's own, or its
command is the last of its kind in the queue; `Finishing`, that without a finish
from before there is one finish under way at most, which is the run's own and
the last frame, and that a reply of 0 to it means the image is there; `Asking`,
that a version read while no erase or finish was under way stays the version of
the board.  These three are enough for what is reported.  `RepairInv` adds what
a run without mishaps needs: `Parting`, that its commands are all behind the
pings of the entry, and `Calmly`, which counts the commands said (`Said`) and
has the queue hold the last of them in order (`Told`) and the board hold what
those that left it do (`Done`).  Neither `FlashedHoldsImage` nor `RetryRepairs`
is true without its hypothesis on `before`; section 3 has the behaviour.

*Only model-checked.*  `Repaired`, `RunsEnd`, `CallsEnd`, `StatusCatchesUp`,
`ReadersNeverWait`, `DeadStreamsLeave` and `SessionsLeaveDefaults`, because
liveness under fairness is out of the prover's reach.  Every invariant and every
action property that a passing run checks is a theorem.

## 5. Not modelled

Time is not: a timeout is a step that may come, and the five minutes between
two ticks are none.  Bitrates, voltages and currents (but for the register of a
DAC) and the contents of frames are not, as no property here tells them apart:
that `can_init` of one controller changes the bitrate of all is listed as a
hazard without a property.  Of the suites, only that they run and end.  Of
`bus.py`, `dac.reset` and `dac.zero_all` and the select lines of the debug
multiplexer are left out; ADC, INA226 and nRF24 reads take a lock like the
others and change nothing.  Every write of a relay
by the dashboard is two calls, the first of which makes outputs of the port: it
has been that since `_init_relays`, so that this call writes what is there, and
`Dashboard` leaves it out, its failure being that of the second;
`CarrierFlash`, where the expander may be fresh from a reset, has it.  Of the
emulator, the counters and snapshots of its diagnostics.  The rest is in the table of section 1.

## 6. Plan

Done: `BenchLock`, `BrokerCall` and `BusContract`; `BenchOps`, `BrokerRpc`,
`CanLink`, `CanTracer`, `CarrierFlash`, `Dashboard`, `LtcEmulator`, `PicoClient`
and `LegacyFlash` with their proofs.  In this order from here:

1. **Simulators**: `acu_stim` and `can_observer` with their threads.
2. **Algorithms**: `resolve_suite` and descriptor routing, DEVID retry, PEC15
   and NTC as operators against reference definitions over bounded inputs, in
   modules without theorems where they need recursion.
