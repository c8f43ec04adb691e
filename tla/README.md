# Verification of the OpenRemise firmware

TLA+ models of the firmware in `src/`, the TLC runs that check them on small
instances and the TLAPS proofs about them.  The firmware runs on two cores
under FreeRTOS.  It drives a model railway track (DCC), programs decoders over
the track (DCC service mode, DECUP, MDU) or over a serial bus (ZUSI), and takes
its orders from Z21 clients (UDP, WebSocket), a USB host and a web page.

## Inventory

All paths are below `src/src/`.

| Part | State it keeps | Operations | Talks to |
| --- | --- | --- | --- |
| `config.hpp` | the atomic word `state`: who owns the output, plus the flags Suspend and ShortCircuit; task handles, buffers | load, store, compare-exchange | everybody |
| `out/track/{dcc,decup,mdu}`, `out/zusi` | FreeRTOS task state; shared `encoder`, `channel`, `gptimer` | `task_function`: switch on `state`, resume, loop, suspend | message buffers, `state` |
| `out/suspend.cpp` | the message buffers and the BiDi queue | reset them, give the word back | `state` |
| `z21/service.cpp` | `_internal_mutex`, sockets | `trackPower`, `cvRead`, `cvWrite`, `socket`, `taskFunction` | `state`, DCC service |
| `dcc/service.cpp` | `_locos`, `_priority_count`, the deques of CV and POM requests | operations and service loop, driving, programming, `/dcc/locos/` | `state`, `tx_message_buffer`, `rx_message_buffer`, NVS |
| `usb/` | `rx_stream_buffer`, one task per protocol | entry strings, DCC_EIN, DECUP_EIN and SUSIV2 loops | `state`, message buffers |
| `zusi/`, `mdu/`, `ota/` services | `_queue` of WebSocket messages; OTA handle and partition | `socket`, `loop`, `close` | `state`, message buffers, flash |
| `analog/` | `short_circuit_count`, measurement queues | ADC task, conversion | `state`, settings |
| `settings/`, `mem/nvs/` | the NVS partition | GET, POST, typed setters with ranges | every part reads settings |
| `http/`, `udp/`, `wifi/`, `sys/`, `trace.cpp`, `mem/spiffs` | handles | routing, files, set-up | services |

What is hard about it: ten tasks and an HTTP server share one word and one set
of hardware without a lock; a task suspends *itself*, so that a wake-up between
its decision and its suspension is lost; the word is changed by
compare-exchange in some places and by plain stores in others; buffers are
reset while their other end is in use; several loops wait without a timeout,
some of them with a mutex held; settings are read long after they were checked.

Correctness, part by part:

* state word: one low-level task drives the hardware at a time, and it is the
  one of the interface the word names; a short circuit is not forgotten; a
  power request returns; every assert about the word holds.
* DCC refresh: a call ends, never spins on a full buffer, and every loco gets
  its turn.
* CV programming: a request is answered once, with the value the decoder holds
  or with a refusal, and requests do not hang the service.
* USB: the receive task listens again when a protocol ends; one protocol at a time;
  an acknowledge is for what the decoder took.
* POM: an answer or a refusal is for the request it names; every request ends.
* sockets: a message is dealt with, an answer goes to its command, the output is
  given back.
* settings: a value read back lies in its documented range.
* loco store: memory and NVS agree.
* OTA: a handle is opened, ended or aborted once; the output is given back.

## Plan

Modules are written in the order of what would hurt most if it were wrong.

| Module | Models | State |
| --- | --- | --- |
| `ExclusiveOutput` | abstract: an output with one owner | done |
| `OutputState` | the state word and every task which reads or writes it; refines `ExclusiveOutput` | done, proved |
| `DccScheduler` | `operationsDcc`, the refresh of the locos | done, proved |
| `CvProgramming` | service mode: `dcc::task` against `out::track::dcc` and a decoder | done, proved |
| `Settings` | NVS settings, POST, restart, short circuit detection | done, proved |
| `UsbSession` | `rx_task` and its suspension, the three USB protocols against the low-level tasks and their buffers | done, proved |
| `Sockets` | queue, loop, timeout and close of the ZUSI, MDU and OTA services against the HTTP server and the low-level tasks; life of the OTA handle | done, proved |
| `LocoStore` | `_locos` in memory against NVS; orders, GET, PUT, DELETE, restart | done, proved |
| `PomRequests` | POM reads and writes, the deque shared between two threads, BiDi answers, clearing | done, proved |
| `DecupEin` | the DECUP byte protocol, the encoder's refills and the counting of pulses | done, proved |

Composition: `OutputState` composes all tasks over the word, and abstracts what
they do while they run.  The other modules take one running task each and open
it up; what they assume of the start and the end of a task (it starts once,
with the other side suspended or waiting; it ends after a flag) is what
`OutputState` shows.

Every safety and action property of a passing run is proved.  The proofs about
`PomRequests` and `DccScheduler`, the two modules of `dcc::Service` which are not
about programming, share `DccService_proofs`; every other component has a module
of proofs of its own.

## The modules and the code

### OutputState

One program counter per task; the names follow the code: `out[t]` for the
low-level tasks, `z21` and `dcc` for the two services, `usb[p]` for the
protocol tasks, `httpd[w]` and `ws[w]` for a WebSocket handler and its service
task.  One action per atomic access of `state`, `vTaskResume`,
`vTaskSuspend(NULL)` or wait.  A compare-exchange is one step; a load and the
store which depends on it are two (`OutStop`, `OutStore`).  A task which has
decided to suspend itself is `"parking"`: `vTaskResume` does nothing to it, and
the suspension follows.  An assert which fails sets `abort`, after which the
firmware restarts.

Left out: what is transmitted, the contents of the queues, and `rx_task` itself
(one protocol at a time is the guard of `UsbEntry`).

`ExclusiveOutput` promises that an output is claimed only while it is free,
driven only by a task of its owner, and given back only when nobody drives it.
The refinement maps the flag `Suspend` to its owner, DCC: while the DCC service
task hands the track from operations to service mode it still owns it.

### DccScheduler

`operationsDcc` visits the locos in the order of their addresses, sends four
packets for each which is due (`_priority_count % priority = 0`), and returns
when the back buffer is more than three quarters full.  A pass over the locos is
one step per loco; `BeginCall` and `PassEnd` are the code before and after the pass.
The buffer is counted in packets, which is sound because the code tests
space in fractions of the buffer and a quarter holds the packets of one loco
(`DccSchedulerAssumption`).

A power cycle leaves a count of 0, by which every loco is due in every pass.  A
call fills the quarter of the buffer it has to fill with the first locos and returns
before its pass ends; only the end of a pass advances the count, so that it may stay
0 for ever and the locos behind the first ones may never be refreshed any more.  `EveryLocoRefreshed` excepts
exactly these (`Starved`); the first two are refreshed even then, because a call begins
with half of the buffer free.

### CvProgramming

`dcc`, `probe`, `todo`, `index`, `byte` are the call stack of `serviceRead` and
`serviceWrite`: what is pushed, what is awaited, what has been collected.
`out`, `group`, `cvPacket`, `ack` are the locals of `service_loop`.  The decoder
is external: it acts on `Repeats` equal packets, as the DCC standard wants, and
acknowledges when the comparison holds or the byte was written.

Time is counted in packets.  `dcc::task` needs microseconds where a packet needs
milliseconds, so `out::track::dcc` takes a step only when `dcc::task` is waiting
(`DccBusy`).  The reset of a buffer on which `dcc::task` is blocked fails and is
retried (`OutRetry`).  A receive may time out once `Timeout` packets have passed, or when
the other task is suspended.  The packets of POM requests, which Z21 may push into the
same front buffer (`z21/service.cpp:189-196`), are left out: `PomRequests` has them, in
operations mode.  One request is served at a time; a second one in the deque is served
after the first or cleared by `suspend()` without an answer (`dcc/service.cpp:634`), which is
outside of `OnlySpinHangs`.

`Misled` and `Refused` name where a reply may be wrong or missing.  `"leftovers"`: the push of
an access which was cut off goes on behind the reset of the buffer, and its packets are
transmitted in the next access.  `"late"`: a search which gave up a value takes the
acknowledge which follows for that of the next one.  `noise`: a pulse was misread and
nothing verifies the bits.  `Eaten`: the loop over equal packets takes the first packet of
the next group with it, which is transmitted once and not counted; with as many copies as
the decoder wants, no bit but the first is read.

### Settings

`nvs` is the partition, `pending` what was set and not committed.  `PostField`
looks at the fields in the order of the source; a field out of range ends the
request with 422, and so does one which NVS fails to write (`WriteFails`); one of another
JSON type is ignored.  `PrefixStored` says at every moment of a request which fields are
stored: all those looked at, but for the one which ended it.  `Restart` loses any part
of what is pending, or everything when `nvs_flash_init` asks for an erase.
`Convert` is what a setter writes, including the eight-bit truncation of a
rounded short circuit time.  `Frame` is one turn of the ADC task.

The three strings (mDNS name, SSID, password) are represented by numbers.

### UsbSession

`rx` is `usb::rx_task`, `usb[p]` a protocol task, `out[t]` a low-level task, in
the same style as in `OutputState`; here the two buffers between them are
modelled too, and a message carries who pushed it, a number, and whether its
low-level task was there.  `in` is the stream of the host: entry strings,
packets or commands, and parts of them.  Which commands are answered, and the
byte `return_on_exit` looks at, are those of SUSIV2.

Timeouts have no length: either end may give up whenever nothing is there for it, which is
the case in the code because both ends count from different moments.  The one exception is
the answer of DECUP, whose time (a minute) exceeds what a packet takes; it is missing only
when the low-level task is not at it (`Coming`).  The front buffer may hold, when the
session begins, a message which an earlier session pushed behind its low-level task
(`Leftovers`).  `out::track::decup` counts the pulses after whatever it transmits, so any
message has an answer; `out::zusi` takes the bytes of others for a command, which may be
any.  The back message buffer is not modelled: DCC_EIN fills it between two packets, so
that the track may run dry whenever the host is slow. `PowerClear` stores Suspended over a
short circuit whoever is at work, as the code does; `cleared` remembers that somebody was.
`PowerOn` and `PowerOff` are one step each, since the orders in between belong to
`OutputState`.

Once errors were cleared under a task at work, another session may begin before that task
has gone, and every safety property of this module which speaks of tasks and messages
names this case. `resume()` of the next low-level task asserts that the encoder is free,
or fails to enable the timer (`abort = "hardware"`), so that two tasks never drive the
hardware together: the next one takes no message of the first while that one drives.  But
a task which has released the hardware is still about to reset the buffers and to store
the word, under whoever has begun in between.

`ListensAgain` and `GivenBack` name what goes wrong besides.  `Deaf`: the protocol task
resumes `rx_task` before that has suspended itself, and nobody listens to the
host until a restart.  `late` is the exception of `RightAnswer`: SUSIV2 has given up an
answer, or the session began while messages or answers of another were there, or while
its low-level task was still at one.  `NeverStarted`: the same between a protocol task and its
low-level task.  `SendStuck`: the protocol task waits without a timeout for
space in a buffer which nobody empties, and whose reset fails because it waits.

### Sockets

`httpd` is the task of the HTTP server: `HttpdReceive` claims the output, resumes
the service and its low-level task and remembers the message, `HttpdPush` queues
it.  `task[w]` is the loop of service `w` and `out[t]` its low-level task, in the
style of `OutputState`.  A ZUSI command may have no answer (`"silent"`), the
command `"exit"` ends the low-level loop, and a firmware image is two parts.  A
restart follows a successful update or a failed assert: that of OTA on the word, that of
MDU ZSU on the two bytes of an answer (an answer of `out::zusi` has one, three or six), or
that of `resume()` on the hardware.  As in `UsbSession`, `PowerClear` stores Suspended
whoever is at work and `cleared` is the exception its consequences get.  What a
low-level task makes of a message meant for the other one is open (`Foreign`).

Assumed: a claim, the resumes behind it and the store of the word by `suspend`
are one step each (`OutputState` has them apart), a call of `std::queue` is
atomic although the code has no lock around it, the timeouts of the
low-level tasks are longer than a scheduling delay, and the socket of MDU ZPP,
a stub, claims nothing.

The exceptions the properties name are what goes wrong.  A message pushed after
the service closed stays for the next session (`late`).  A command sent after the
low-level task left, or emptied from the buffer, is `lost`: its service waits for
ever, and takes the answer to the next service's command.  An unanswered ZUSI
command does the same without a fault of anybody (`Starved`), and because the
service is blocked on the buffer, `out::suspend` cannot reset it and the word is
never given back (`Blocked`).  `NeverWoken` and `NeverStarted` are lost wake-ups.
Parts of two clients' images end up in one handle; only the check of the image
when the handle is ended stands against that.

### LocoStore

One loco is a name, the speed steps, and how it runs.  `known` are the addresses in
`_locos`, `saved` those in the NVS namespace, `httpd` and `z21` the two tasks with the
step of their call.  A write is staged by `setBlob` and committed by the destructor of the
namespace; it may be refused, and what is staged when the power fails may be there
afterwards or not; a start-up which finds the partition full or of another version erases
it all, and every promise with it.  `dcc` is `operationsDcc`, the third user of the mutex:
it may be in a pass for ever (`"stuck"`, which is what `OnlyStuckHangs` of `DccScheduler`
is about), and whoever waits for the mutex then waits for ever too. History: `missing` are
the locos whose last write NVS refused, `promise` what the last PUT or DELETE promised,
`told` and `seen` what Z21 clients know.

`Agreement` names the difference the code leaves: an order without effect creates a
loco in memory and returns before it is stored.  GET takes no mutex: it may miss
a loco while another is inserted (`Kept`).  PUT, DELETE and a restart tell no Z21
client.  An order which waits for the mutex during a DELETE creates the loco
again.  The result of the NVS write is not looked at.  Bodies which PUT rejects
change nothing and are left out.

### PomRequests

`z21` is the thread of `cvPomRead` and `cvPomWrite` with the mutex it holds: the
packets it pushes, the request it appends, the delay it keeps.  `dcc::task`
matches what the decoder answered (`BiDiAck`) with the first request of the deque,
and refuses a request when its time is over (`BiDiTimeout`).  `out::track::dcc`
transmits a packet and receives the answer in its cutout.  A CV stands for the
pair of address and CV.  The decoder is external: it answers a packet, answers
late, or does not answer.

The queue of BiDi answers gets an item for every packet transmitted (`NoAnswer` when
nobody answered a POM request) and drops what does not fit.  `heard` are the requests
whose answer was put into it while they were the first.  A call waits a fixed time for its
packets, and may return before they were taken.  A call which finds the deque full returns
at once (`CvPomReadFull`).  BiDi is assumed to be on; without it no item is ever sent and
every request is refused.

What the properties name: the request of a call is appended behind its packets, and only
the first one is looked at, so that an answer to a later request is ignored.  `dcc::task`
comes round every 100 ms while the delay of a call is a few times 10 ms, so that answers
to earlier calls may still be in the queue and acknowledge a later read of the same CV
(`unseen`).  Packets pushed with the track off go out when it is switched on, with the
requests of their calls cleared.  A call which finds the front buffer full with the track
off pushes for ever, with the mutex held (`Spins`). `suspend` clears the requests without
an answer.  A full deque refuses the new request before the older ones are answered.

### DecupEin

Three parties keep a state about the same update: the host (`host`), the state
machine of `usb::decup_ein` (`state`, `id`, `packet`) and the decoder (`decoder`).
The host and the decoder are external and follow the protocol: the host repeats a
unit which was not acknowledged, and may make a mistake; the decoder takes a frame
which fits, or leaves it alone, or asks for a packet again with one pulse.
`Leading` is the fall-through of the first states.  `EncodeFull` and
`EncodeComplete` are calls of `rmt_encode_decup`, which goes on in `num_symbols`
where the memory was full.  The interrupt counts into the notification value
(`pulses`), `receive_acks` takes it out within its window.  The start and the end of a
session are in `UsbSession`.

`xTaskNotifyStateClearIndexed` ("Clear any stored counts") clears the pending state and
not the count.  Pulses behind their window are counted with the next packet (`foreign`),
and the host may then get an acknowledge for what the decoder did not take.  From the
first such pulse on the firmware may stay in another state than the decoder, so that
`foreign` is never reset: when the second pulse of a start byte is late, the host repeats
the byte, the decoder takes the repetition for the block count, and an acknowledge of a
later byte may be for a later step of the decoder.  The loop ends at exactly two pulses;
with three there is no acknowledge. A packet with a wrong checksum goes on growing until
some later byte fits; `::decup::Packet` ends at a `max_size` of an external library
(`out/track/decup/task_function.cpp:42`), which the model does not have and no property
rests on.  A wrong security byte sends the state machine back to Entry, where the letter
`U` (0x55) is ignored, while the decoder stays where it is.  `_block_count` is written and
never read.

A checksum is computed bit by bit in `Exor`: a bit of it is set when an odd number of the
bytes have it.  `DecupEinMC` compares this with the exclusive or of the community modules for all
pairs of bytes and for triples; `DecupEin` itself does without, so that it can be proved
about.

## Known behaviour

What the code does against a comment, an assert or the documentation, each the
exception of a property of a passing run, which shows that nothing else goes wrong
there.  `OutputState_v_hardware` shows one more as a counterexample; PROJECT.json
quotes its line under "findings".

| Where | What | Exception of |
| --- | --- | --- |
| `z21/service.cpp:238` | power off before the DCC tasks looked at the word leaves Suspend behind, and the next power on waits for ever at line 202 | `PowerRequestsEnd` (`Orphaned`) |
| `dcc/service.cpp:154` | power on while the task is parking: the wake-up is lost, the word says DCCOperations and the track is off | `PowerRequestsEnd` (`Missed`) |
| `z21/service.cpp:221` | somebody claims the word while trackPower waits for `out::track::dcc` to suspend itself: the compare-exchange fails and so does `assert(false)` | `PowerRequestsEnd`: the request ends by a restart (`abort = "trackPower"`, `Reboot`) |
| `dcc/service.cpp:184` | "So, we iterate over each loco": once the power was switched the count stays 0 (`dcc/service.cpp:633`), calls may return before their pass ends, and the third loco and those behind it may never be refreshed again | `EveryLocoRefreshed` (`Starved`) |
| `dcc/service.cpp:194` | after deletions nobody may be due at the maximum of the count: the call never returns | `OnlyStuckHangs` |
| `dcc/service.cpp:467` | with 12 or more copies of each bit, packets are pushed for ever after a short circuit | `OnlySpinHangs` |
| `analog/adc_task_function.cpp:78` | a short circuit time of two frames or more (`settings/doxygen.hpp:17` allows 20 to 240 ms) never finds a short circuit | `Noticed` |
| `zusi/service.cpp:105` | an unanswered command blocks the service and the output | `GivenBack`, `NobodyWaits` of `Sockets` |
| `z21/service.cpp:209` | errors are cleared while a DECUP, MDU or ZUSI task is at work: its end empties the buffers of the next session | `cleared` in `UsbSession` and `Sockets` |
| `settings/service.cpp:91` | 422 is answered for a failing NVS as well, after the fields before were stored | `PrefixStored` |
| `mem/nvs/init.cpp:18` | an erase at start-up takes the locos with it | `GetKeepsPromise` |
| `dcc/service.cpp:182` | a call which never returns keeps the mutex: PUT, DELETE and every order wait for ever | `CallReturns` of `LocoStore` |
| `dcc/service.cpp:634` | requests in the deques are cleared without an answer | `RequestsEnd` |
| `out/track/dcc/task_function.cpp:220` | an answer which does not fit into the queue of 32 is dropped, and the request the decoder answered is refused | `NackTrue` (`heard`) |
| `dcc/service.cpp:288` | an answer of an earlier call acknowledges a later request | `AckFresh` |
| `dcc/service.cpp:467` | POM packets with the track off: the call never returns | `CallReturns` of `PomRequests` |
| `out/track/decup/task_function.cpp:63` | stored counts are not cleared | `AckTrue` |
| `ota/service.cpp:143` | the assert fails after a short circuit | `Inv` of `Sockets` |

## Runs

| Run | Question | Bounds |
| --- | --- | --- |
| `OutputState_claims` | does every order of claims keep one owner? | a USB host, two WebSocket clients, Z21 power on and CV access; two queued requests |
| `OutputState_faults` | what can hang or erase an error, and what can let two tasks meet? | USB DCC and DECUP, power on and off, short circuits |
| `OutputState_v_hardware` | is the hardware free at a start? No | DECUP, power on, a short circuit |
| `DccScheduler_drive` | does every call end, and every loco get its turn? | three locos, a buffer of 16 packets, priorities to 4, two packets transmitted per call |
| `CvProgramming_access` | is an answer right, complete, given? | two bits per byte, all four ways to read, two and three copies, one misread pulse |
| `Settings_post` | are settings in range, is a POST a prefix, is a short circuit found? | three keys, bodies of two fields, values at both ends of each range |
| `UsbSession_hosts` | one reader, no foreign message or answer, and does every session end? | three inputs, a buffer of one message, one left over, one short circuit |
| `Sockets_clients` | is every message dealt with, its answer right, the output given back, even when errors are cleared at work? | ZUSI and MDU clients, a buffer of one message, one short circuit |
| `Sockets_update` | does only a whole image boot, and does an update end? | an image of two parts, four messages, one short circuit |
| `LocoStore_calls` | do memory, NVS and the clients agree, does every call return? | two locos, three calls, one refused write, one restart with or without an erase |
| `PomRequests_reads` | is an answer for the request it names, does every request end? | two CVs, two copies, three packets in the buffer, two requests in the deque, three items in the queue of answers, two calls, one switch of the power |
| `DecupEin_update` | host, firmware and decoder in step, an acknowledge true? | decoders of both sizes, one of them selected by a security byte, two data packets, two repetitions, one mistake, one late pulse |

Why these bounds are enough.  `OutputState` has no numbers; its inputs are split over two
runs because their product is large, and each run has every actor which takes part in its
question.  In `DccScheduler` the behaviour depends on which priorities divide the count: 1
to 4 contain a prime, a square and a number with a divisor inside the range, and three
locos suffice for one to lead, one to follow and one to come and go.  In `CvProgramming`
two bits give a first and a last bit and a byte search with values before, at and after
the one left out; a buffer smaller than the packets of one access makes the push wait, as
40 packets against up to 8 times 64 do in the code; `Startups` has a value within and one
beyond what the receive can wait for.  In `Settings` the keys are one which is rounded and
truncated, one with a gap in its range and one whose bits are masked; all keys share the
same code otherwise.  In `UsbSession` three inputs are an entry string and two messages,
or two sessions one after the other; a buffer of one message is full with the second.  A
message an earlier session left is an input of its own, because three inputs are too few
for a session which leaves one and another which meets it.  In `Sockets` the buffer of one
message is full with the second, and four messages make a whole image, its end and one
message of the next session.  In `LocoStore` one loco is ordered about while the other is
created or erased; three calls are a change, its opposite and a look. In `PomRequests` two
calls fill the deque of two and their four packets the buffer of three; the queue of
answers, of three, is full with one packet of a call before the first request, and the
answer to that request is dropped then.  A third call meets a full deque, which changes
nothing (`CvPomReadFull`).  In `DecupEin` the lengths 2 and 3 stand for 34 and 66 bytes, a
memory of 16 symbols and refills of 8 for 384 and 192: one byte fits at once and the long
packet needs two refills, as in the code; the short one needs one refill too many.  The
mistakes of the host are a block count which fails the assert and a security byte too
early. `MaxInputs`, `MaxCuts`, `InCapacity`, `MaxNoise`, `MaxDrains`, `MaxFields`,
`MaxFrames`, `CvCapacity`, `Timeout`, `MaxMessages`, `MaxCalls`, `MaxFailures`,
`MaxRestarts`, `MaxSwitches`, `MaxRepeats`, `MaxSlips` and `MaxLates` are the named caps.

`Eaten`, the packet the loop over equal packets loses, is an exception of
`NeverWrong` and `Complete`: with two copies, the minimum of the setting, all bits
but the first are transmitted once.

`OutputState_faults` meets the step `OrderLostByClearing` allows: its inputs are those of
`OutputState_v_hardware` and more.  `Exclusive` is not listed by itself: `Inv` implies it
(`InvExclusive`), and it is a part of `Orderly`.

`PowerRequestsEnd` and `UploadsEnd` are conjunctions of two named statements which
belong to one question.

Deadlock is checked in the runs of `OutputState`, `DccScheduler`, `CvProgramming` and
`Settings`.  In the others the system stops once the host or the clients have
nothing left to send.

## Fairness

Tasks are scheduled with priorities and time slices, so that a task which is ready runs:
weak fairness per task.  Nothing obliges a client, a host or a decoder to speak or to fall
silent: no fairness on requests, on the end of a USB or WebSocket session, on short
circuits, or on the end of a CV access in `OutputState`.  `out::track::dcc` runs out of
packets only while nobody feeds it (`Fed`).  In `DccScheduler` the service loop calls
`operationsDcc` again and again and the track keeps transmitting; in `CvProgramming` both
tasks run whenever they can.  In `UsbSession` the protocol tasks share one condition and
so do the low-level tasks, which is weaker than one for each.  In `Sockets` every task has
its own, and a timeout expires in the end; clients need not send.  In `LocoStore` and
`PomRequests` the tasks run on when they can, and requests need not come.  In `LocoStore`
fairness is strong: a thread which waits for the mutex gets it in the end, since
`dcc::task` delays `task.timeout` between its passes (`dcc/service.cpp:164-167`) and
FreeRTOS wakes the waiting thread.  In `PomRequests` the decoder owes nobody an answer,
but the time of a request runs out, and `operationsBiDi` takes items faster than packets
produce them: the queue is empty again and again while `dcc::task` is in its loop.
`DecupEin` states safety only.

## Proofs

TLAPS proves, for every value of the constants:

* `OutputState_proofs`: `Invariance`, `MutualExclusion` and `Refinement`, under
  `NoBlindStore` (no power off, no short circuit, clients which await the result
  of a CV access).  The assumption is needed: a power off or a short circuit
  breaks the hand-over, as `Orphaned` and `OutputState_v_hardware` show.
  `OnlyOwnerActive` alone is not inductive, because the
  DCC task also drives the track under `Suspend`.  `HandOver` closes the gap:
  `Suspend` is set only by the DCC service task itself, for a request which is
  still queued, and the Z21 service never takes the way around its
  compare-exchange.
  `OrderKept` needs no such assumption.  `Orderly` allows the task at work to stand under a flag
  which was set over its owner; it is lost in one step only, when `Z21Clear` stores Suspended
  while a low-level task is at work, which is how `OutputState_v_hardware` begins.  The proof
  needs no more than `AlwaysTyped`: everybody else claims a free word, and a free word
  means that nobody is at work.
* `DccService_proofs`, about `DccScheduler`: `SchedulerInvariance`, among it that a call finds
  space for all it sends, and `AlwaysSomeoneDue`: while locos are only added, the loop cannot
  turn without sending.  The inductive invariant is `Lockstep`: some loco, the
  `Leader`, which was there at the last reset keeps the priority of the count or
  the next one, and is therefore due when the count reaches its end.
* `Settings_proofs`: `Invariance`, `ReadsInRange` and `PostIsPrefix`, for all
  keys, inputs and bodies.  `PrefixStored` is about every moment of a request and inductive
  once `IInv` adds that what is stored, and what a restart may bring back, is missing or
  allowed (`KeysAllowed`, `BeforeAllowed`), and that between two requests nothing
  differs from what was committed.  `ReadsInRange` names
  three exceptions: a missing key reads zero, the BiDi bit duration may be zero (off), and a
  short circuit time of 250 to 255 is rounded to 260 and read as 4.

* `UsbSession_proofs`: `Invariance`, `NoStrangersEver`, `AckAlwaysArrives` and
  `AnswersMatch`, for all capacities and numbers of inputs.  Beside the single reader the
  invariant says that one low-level task is at work, for the interface of the word
  or a flag (`OutputServed`), that whatever was pushed under the eyes of a task
  has gone before that task gives the word back (`MessagesGuarded`), and that no other
  protocol or low-level task gets in between while a session lasts (`SessionAlone`).
  Each of them names the time after errors were cleared with a task at work as an exception.
  What holds even then is the single reader, and that one task drives the hardware, since
  `resume()` guards it.
  `AckAlwaysArrives` rests on `AnswerOwed`: while DECUP_EIN waits there is a message
  to answer, or an answer.  `AnswersMatch` rests on `AskedOnce`: unless answers may come late,
  the buffers and the low-level task hold one message with an answer between
  them, the one in hand, and nothing stands behind its answer.

* `LocoStore_proofs`: `SpecInv`, `SpecInformed` and `SpecGetKeepsPromise`, for all sets of
  addresses and numbers of calls, failures and restarts.  `Agreement` speaks of a free
  mutex; the invariant `IInv` says what holds while it is taken: whose it is (`MutexInv`;
  `dcc::task` counts too), which loco its holder has changed in memory and not yet in NVS
  (`AgreeInv`), and what the promises and the told clients rest on (`PromiseInv`,
  `ToldInv`).

* `DccService_proofs`, about `PomRequests`: `SpecInv`, `SpecAckFresh` and `SpecNackTrue`,
  for all CVs and any number of copies, calls and switches.  No task looks at more than one
  end of a queue, but what may be believed about that end depends on everything behind it:
  `InOrder` sorts the deque by call; `WritesInOrder` sorts the writes in the buffer and,
  before them, those on the track, none of which is older than what the decoder holds, so
  that a CV never becomes older than a request says (`Fresh`).  `Answered` ties the answers
  which the queue of BiDi answers had room for to the first request.  `Room` says that a
  call which found space in the deque still has it when it appends.

* `Sockets_proofs`: `SpecInv`, `SpecRightAnswer` and `SpecGoodUploadBoots`, for all clients,
  capacities and numbers of messages.  `OneInFlight` (one command or answer at a time, that
  of the service which waits) is not inductive on its own: it needs that one low-level task
  is at work and for the service of the word (`OneOutput`), which holds until errors are
  cleared with a task at work, and `AnswerComing`; a clearing makes what is under way
  `lost`.  `NothingMissing` follows an image from the client through the queue into the
  flash; it needs that what waits in a queue nobody attends came too late to belong to it
  (`LeftoversLate`) and that nobody but the OTA task is at work meanwhile (`FlashOwned`).

* `CvProgramming_proofs`: `SpecInv`, `SpecNeverWrong`, `SpecComplete`, `SpecNoIdleSpin` and
  `SpecWritesAsked`, for all bytes of one to eight bits, settings, sizes of the buffers,
  timeouts and numbers of misread pulses.  Neither task knows where the other is: one counts
  packets, the other groups and acknowledges.  The invariant compares them.  `Taken`
  is the number of packets of the probe which were transmitted, `Acked` the acknowledges there
  were; `InOrder` says which packet has which number, `Enough` that `Taken` never runs so far
  ahead of `Acked` that an acknowledge has no packets left, although each group takes
  a packet of the next one, and `Aligned` that without mishaps it is not behind either: the
  group at work is the one to be acknowledged next, and long enough for the decoder.
  `Punctual` follows the clock of the receive through the group and shows that only a flag,
  packets left over or settings which take that long (`Slow`) let it run out.  `Honest` is
  then what an acknowledge says of the CV, and `Result` what is left of it in
  the reply.  `NoForeignWrites` is needed because a write changes the CV under the reply.
  Bits are put together as `v % 2^(i+1)` from `v % 2^i`; the powers are the table `Weights`,
  since no prover knows a power, and `Bits` is at most eight.

* `OutputState_proofs` has `ErrorsStay` without `NoBlindStore`: the blind store is its named
  exception.  `Settings_proofs` has `ShortCircuitNoticed`; its invariant `Loaded` says
  that with the time of one frame the count was loaded with 1, or is 0 because it has run
  out or the firmware just started.

* `DecupEin_proofs`: `SpecInv` and `SpecAckTrue`, for all decoders, lengths of a packet,
  sizes of the RMT memory, images and numbers of repetitions, mistakes and late pulses.
  `IInv` says that at most one frame is under way (`OneUnderway`); which part of the host's
  unit is where (`Following`); and that the pulses counted, stored and due for it are those
  of its acknowledge when the decoder took it, and fewer when it did not (`Owned`,
  `Attributed`).  `AckTrue` follows from the latter: the count an acknowledge needs is
  reached only when the decoder took the frame in the state of the firmware.  `NoStray` and
  `InStart` say what holds between two frames and up to the first acknowledge.  That the
  host's packets fit their checksums is `ChecksumFits`, and that a packet the firmware takes
  for complete is the host's follows from `Aligned`.

Only model-checked: all liveness properties (`PowerRequestsEnd`, `EveryLocoRefreshed`,
`ListensAgain`, `GivenBack`, `CallReturns`, `RequestsEnd`, `NobodyWaits` and their like), since
they need fairness and ENABLED, and the counterexample of `OutputState_v_hardware`.  That
`Exor` is the exclusive or is an assumption TLC evaluates, since no prover knows
Bitwise; the proofs use only its definition.

## Not modelled

Pure input and output (LED, GPIO and RMT set-up, logging, SPIFFS, USB transmit, UDP socket
creation, WiFi events, HTTP routing, system information), the libraries outside of the
repository (the Z21, DCC, MDU, ZUSI and ULF protocol libraries, ESP-IDF), which are
modelled from their use where needed, the timing of the BiDi cutout and of the RMT
symbols, and the acknowledges of MDU.  `out::track::mdu` reads an empty `std::optional`
when no packet came (`out/track/mdu/task_function.cpp:175`), which is undefined and not in
the model.  Calls of `std::queue` and `std::deque` are steps, although two threads share
them without a lock.  The components in PROJECT.json say for each part what is left out.
