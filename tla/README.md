# ARMproxy: specification, model checking and proofs

ARMproxy connects a PLC, an RFID reader and test machines: one thread per
configured device receives what the device sends, and a router passes it to
other devices as the configuration file says. This directory models what the
program does, from the text of its configuration to the bytes on its lines,
and the script that keeps it running; checks the models with TLC and proves with
TLAPS the safety results of everything but the parser.

`PROJECT.json` lists components, runs, faults (mutants), the source lines each
definition stands for, findings, hazards and theorems.

## The system

| Part | Code | State | Operations |
|---|---|---|---|
| Send queue | `common.h` `QueueManager`, `command.c`, `profile.c` | ring of 10 slots, PushIndex, PopIndex, spin lock, one ReplyDevice | `try_send_data`, `try_send_to_data`, `process_try_send` (never called), `check_and_send_data` |
| Router | `main.c` `notify_data_recv`, `command.c` `do_command_action`, `profile.c` `get_device_info` | the route list (constant after start), each device's LastSendQueue | on received data: match a route and command its targets, or forward to the reply device |
| Device threads | `sock.c` `tcpSocketClientThread`, `uart.c` `SerialPortThread` | fd, Connected, receive buffer, read_offset | connect, receive, `process_data_recv`, `check_and_send_data`, reconnect |
| Start and exit | `main.c` `main`, `signal_handler` | ExitFlag and handler per device, quit_flag | start threads, wait, join, `free_profile_info` |
| Socket connection | `sock.c` | the descriptor and its copy `info->fd`, Connected, `revbuf[256]` | open, connect, receive and trim, notice the end, close and reconnect, stop |
| Serial port and reader | `uart.c` `uart_init`, `init_rfid`, `prepare_filter_recv_data_rfid`, `SerialPortThread` | the line settings, `revbuf[300]` and read_offset | set up, initialise the reader, put frames together, check, extract the payload |
| CRC | `crc.c` | none | `CRC16`, `crc_func` |
| Configuration | `profile.c` `parse_*`, `free_profile_info` | device and route lists | parse, free |
| cJSON | `cJSON.c` | the tree, the parse buffer | `cJSON_Parse`, `cJSON_GetObjectItem`, `cJSON_GetArrayItem`, `cJSON_Delete` |
| Supervisor | `launch.sh` | log files, status file | find and kill, rotate, start, watch and restart |
| Legacy server | `tcpserver.c` | not built by the Makefile | |
| Bell, dumps | `uart.c` `bellthread`, `profile.c` `dump*` | none | never called, or only print |

**Interactions.** There are no messages between threads except through the send
queues. Every thread runs the router on its own stack (`ProcessRecv` ->
`process_data_recv` -> `Callback` = `notify_data_recv`), and there pushes onto
*other* devices' queues; each queue is popped only by the thread of its device.
A failed write calls the router again, in the name of the device that failed,
from within `check_and_send_data`. The spin lock of a queue covers pushes and
pops; the test of the indices, the reading of the popped slot, `ReplyDevice`
and `LastSendQueue` are outside it. `signal_handler` interrupts main and writes
flags that all threads read without synchronisation. Outside the process,
`launch.sh` looks for it in `ps`, kills it and starts it; the process reads
`appconfig.json` once, at its start.

**What is hard.** The slot is read after the lock is released; nothing tests
for a full ring; the reply device belongs to the queue and not to the message,
so an answer is routed by whatever command was queued last; a failing write
produces a message of its own; connections are lost while messages wait; flags
are reset by threads and set by a signal handler in any order; main looks at
`handler` while threads clear it. `recv()` and `read()` cut what is sent where
they like, and -1 is a timeout as well as an error; `close()` gives a number
back that another thread's socket may get next; the frame being put together,
the checksum and the reader's answers share one buffer; the configuration is
looked up by functions that return NULL, in a buffer without an end. The
script asks `ps` once in five to fifteen seconds. `PROJECT.json` lists each of these
hazards at its line, with the properties that cover it.

**What makes each part correct.**

- Send queue: while calls do not outrun the device thread, a message handed
  over is written once, whole and in order; ERR:SENDFAIL# is reported exactly
  for short writes; the reply device belongs to the newest message.
- Router: only configured traffic is queued; an answer or a failure goes to the
  reply device of its command; every target of a command is served; reports do
  not circulate; NULL devices are not dereferenced.
- Start and exit: after SIGINT the process ends; the configuration outlives the
  threads; only threads are joined.
- Socket connection: what is written goes to the device's own connection; no
  descriptor is lost; what is carried out was sent; the end of a connection,
  a waiting message and ExitFlag are noticed in the end.
- Serial port and reader: the router gets as data what the reader has sent, in
  order and to the byte; nothing waits in the buffer for ever; the
  table-driven checksum is the polynomial's; no buffer is overrun by one frame.
- Configuration and cJSON: a process runs with the devices and routes that are
  written in the file, in their order; malformed text gives nothing; every block
  taken by the parser is in the tree or free.
- Supervisor: one process at a time; the logs of the last two starts are there;
  a process that is gone comes back.

## Modules

| Module | Content |
|---|---|
| `Fifo` | abstract: what a send queue promises |
| `DeviceLoop` | abstract: what the thread of a device is to the rest of the program |
| `SendQueue` | one QueueManager, callers and the device thread, one step per shared-memory access |
| `Proxy` | all devices: thread loops, router, queues as sequences, one step per call of `try_send_data` |
| `Lifecycle` | main, SIGINT, `signal_handler`, the beginning and end of device threads |
| `SockClient` | one socket thread with its descriptor, the peer and the byte stream, other threads' descriptors |
| `Crc16`, `RfidFrame` | the checksum beside its definition; what a frame is and what becomes of it (operators) |
| `SerialPort` | the serial thread with its reader and line, over `RfidFrame` |
| `JsonText`, `CJson` | strings with their escapes; the parser with its allocations (operators) |
| `Profile` | the configuration and what main makes of it, over `CJson` (operators) |
| `Launch` | the script, its processes, logs and status file; what a process makes of its configuration is the constant `Reading` |
| `Startup` | `Launch` with `Profile` for `Reading`: a process that reads its configuration, and what must come of it |
| `MCSendQueue`, `MCProxy`, `MCLifecycle`, `MCSockClient`, `MCReader`, `MCStartup` | instances for TLC |
| `SendQueueProofs`, `ProxyProofs`, `LifecycleProofs`, `SockClientProofs`, `Crc16Proofs`, `SerialPortProofs`, `ReaderDataProofs`, `LaunchProofs` | theorems |

`SendQueue` implements `Fifo` (refinement mapping: the slots from PopIndex on are
the queue, the popped slot is in flight). `Proxy` uses the queue at the level at
which `SendQueue` shows it to behave: a sequence, with the one exception that a
ring about to become full empties (equal indices look like an empty ring). That
is the first effect of an overrun; that later pushes then overwrite the slots
in place, including the one in flight, is `SendQueue`'s subject only. That both
levels fit is proved: `SendQueue` implements `Fifo` (`Refinement`), and so does
each queue of `Proxy` with its line (`LineIsFifo`), each while its ring is not
overrun. `Fifo` has `Pop` and `Write` as steps of their own and as one
(`Deliver`), as `Proxy` takes them.

`DeviceLoop` does the same for the threads: a boolean, a turn (`receive` or `send`)
and the number of messages that wait. A thread receives only while connected,
looks at its queue once after each receive, and writes one message then at most;
what waits is untouched by connections that come and go. `SockClient` and
`SerialPort` implement it in all their detail, and so does each thread of
`Proxy`, which is thereby shown to leave out nothing of them that the router or
the queues could notice: where `SockClient` has sockets that are missing, refused
or half closed, and `SerialPort` frames that are cut or spoilt, `Proxy` has
`Connect`, `Disconnect`, `Receive` and `Idle`. A thread that is in the router counts
as still to send, or, if it reports its own failed write, as done (`TurnOf`).

### SendQueue

Variables carry the names of the fields. A caller's `callerPc` walks through
the critical section in the order of its stores (`Lock`, `Store`, `SetReply`,
`Publish`, `Unlock`); a slot being written is `Torn`. A call without data zeroes
the slot and publishes nothing. The device thread goes through the unlocked
test (`Poll`), the locked pop (`Take`), the length test (`Check`), `write` and
the second look at the length (`Compare`), each a step of its own, so every
interleaving with the callers is covered. A slot read while it is rewritten
gives either outcome. `process_try_send` is the same code without the reply
argument: messages whose `ReplyTo` is `KeepReply`. `unsent` is a history
variable. The steps assume that stores become visible in program order, which
the unlocked reads of an unoptimised build on the single-core target see.

Bounds: `MaxWaiting` (a call starts only when fewer messages wait). With
`MaxWaiting <= N - 1` this says that calls do not outrun the thread; the code
does not ensure it, so it is an assumption of the results below, which the run
`SendQueueOverrun` and the theorem `OverrunLosesRings` lift. A ring of 3 and two callers show
every relative position of the two indices and every contention for a slot;
the proofs cover the ring of 10.

### Proxy

A message carries, as history, its origin, the route under which it commands a
device (`asks`) and the route whose command it answers or failed to send
(`answers`). A thread is at `recv`, `notify` (entering the router), `action`
(in the loop over targets), `forward` (between reading the reply device and
pushing) or `send`. `up` is the connection. `Receive` takes any text the device
may send, or the answer to any command it has been sent, however late and in
any order: `asked` is the external device. `SendShort` is any failure of
`write`; `buf` then holds ERR:SENDFAIL# and the router is entered again.

Bounds: `MaxInputs` caps inputs and disconnections together. Failed writes do
not count: every write may fail. With two, a second controller commands a shared
tester while the first one's command fails there or is answered, and two
devices have each other as reply device; longer histories (a second command and
then an answer to each) are the theorem's `AnswersComeBack`, which has no bound. The
ring has 10 slots, which two inputs do not fill, so that no loss ends what
should end by itself.

`Consistent` says what one ReplyDevice per queue demands of a configuration:
routes with a common target agree on the reply device, and no reply device is
a target. The shipped file and the additions of `SiteRoutes` satisfy it
(`SiteAssumption`, evaluated with `MCProxy`), so `AnswersComeBack` says that with them
every answer and failure comes back. Without it answers do go astray
(two controllers that command one tester and expect their own answers), which
is a property of the design and not reported as a finding.

### Lifecycle

`threadPc` and `mainPc` follow the statements; the signal handler runs on the
main thread, which stands still meanwhile (`sigCursor`), while other threads go
on. Before `signal()` a SIGINT kills the process, or is ignored when a shell
has started the proxy in the background. Between `Free` and `Return` the handler
may still run, over devices that `free_profile_info` does not free. A thread's
turn is one step: what it does in there is Proxy's subject. A thread that cannot initialise
returns without clearing `handler`. Bound: `MaxSignals`. Three devices, the one
in the middle a SockServer, give each position in main's list walks.

### SockClient

What `Proxy` takes as one `Receive` and one boolean `up`. `fd` is the local
variable that is connected, read and closed, `infoFd` the copy `info->fd` that
`check_and_send_data` writes to; `owner` says whose each descriptor is, and
`socket()` gives the lowest free one. `conn` is the kernel's view of the
thread's socket: it separates an orderly close (`recv` 0, `write` succeeds) from
a reset (reported once, by whichever of `recv` and `write` comes first; then
`recv` gives 0 and `write` raises SIGPIPE, which kills the process). `line` holds
the pieces that have arrived; `recv` takes any number of them up to `revbuf`.
A text is trimmed at its end only and compared as a whole, so a command joined
with another or cut in two is not recognised. Of a longer message it may be what a
cut leaves: READ of READ01, TEST01 of RETEST01 (`CommandsAsSent`, violated). What
does hold is said twice. `CommandsFromStream`: every command carried out is a
stretch of `sent`, the stream of all that the peer has said, and no byte of it
serves twice or out of order. `ToldCommandsAsSent`: a command that is part of no
other message (`Told`) is carried out as a message that was sent, whatever the
others are. What a trim leaves empty is not handed on. Messages are sequences of
whatever pieces they have.

Bounds: two descriptors, so that another thread's socket gets the number just
closed; four pieces fit `revbuf`, three make the longest message with its end;
the messages are TEST01, RETEST01, which ends in it, and READ, which is told from
both; `MaxSaid`, `MaxPushes`, `MaxBreaks` 2: the second connection to be lost is one that
was made on a reopened descriptor.

### Crc16, RfidFrame, SerialPort

Frames are sequences of bytes, since where they are cut and what their bytes say
is the point. `CRC16` is the code's table by nibbles; `Modbus` is the polynomial.
Both are one loop (`Loop`) over a message with a different step for a byte.
`Incomplete` is the length test, in eight bits, with the escape for a read that
adds nothing; `Verdict` what the checks find, a frame or one of three errors, and
`Checked` what they leave in the buffer; `Extract` the payload, with `memcpy` where
`memcmp` was meant: of "ERR:HEADER#" the router gets "ADE". A frame shorter than its
status byte takes
whatever an earlier `read` left there: `Status` is either.

`pc` follows the thread: `open`, `mode` and `store` (the two commands of
`init_rfid` and their answers, each read once), `loop`, `send`; `smashed` is
`crc_func` writing past `data[100]`. `part` is `revbuf` up to read_offset.
`init_rfid` takes any correct frame for its answer; hence `ReadyMeansAnswered`
claims no more. The reader and the line are external: answers come late or not
at all, tags by themselves in automatic mode, one frame may lose its end or have
a byte changed. `ArrivesAs` lists what may arrive of a frame.

`handed` has with each text the verdict that it was handed on under, so that no text
counts as an error for what it looks like. `DataIsGenuine` traces each text handed on
as a frame to a frame of its own, in order, and `Says` defines without the code's
trimming and cutting what text a frame has: the printable beginning of its payload,
without the blanks at the payload's end; a frame of fewer than ten bytes is
handed on as it is. `ErrorsArriveWhole` says the same of the errors, and is violated.
A checksum of two bytes cannot promise `DataIsGenuine` for every payload: some end of
one frame with the beginning of the next would pass. `OnlyFramesPass` says what
it rests on: behind a byte 255 of what has arrived of a frame, with the rest of it
and whatever may follow, no beginning short enough for `crc_func` passes but the
frame itself. `NoFalseFrame` is the same of a frame's beginnings and of noise,
which `ReadyMeansAnswered` rests on. `MCReader` has both evaluated for the frames
of its run (`Genuine`, `Detected`), over everything that may follow.

Bounds: `read` gives nothing, two bytes, or all; `BufSize` 24 and `CopySize` 8
stand for 300 and 100 and are reached by two joined frames and not by one, and
`LENGTH` 20 for the 256 of the buffer in `init_rfid`;
payloads of two bytes; four frames, one fault and one READ command.

### JsonText, CJson, Profile

cJSON is modelled function by function over tokens: whitespace, the byte order
mark, numbers beyond `int`, unfinished strings and unknown characters are tokens
of their own, and strings are bytes with their escapes. The parse buffer counts
blocks allocated and the allocation that is refused, so that every error path
gives back what it has taken. `WellFormed` and `CodePoints` are the definitions
it is checked against: an automaton over the tokens, and UTF-8. What the code
makes of odd input is the model's too: the first complete value counts and what
follows is not looked at, so that the missing end of `content` matters only for a
file that is cut off; four characters that are no hexadecimal digits are NUL, which
ends the string. So `TreeAsWritten` is looser than JSON there: "\uZZZZ" alone, in
lists and in the names of a whole configuration is among the files and must be
read, as a string that ends where it begins; escapes that the code does refuse
(half pairs, unknown letters, too short) must not.

`Profile` reads the tree as `parse_profile_file` does. A text that is no JSON
gives a process with no devices; an unknown mode makes main exit; a missing or
mistyped `mode`, `from` or `reply`, or a refused allocation of a list node, is a
NULL that is followed. Members of an object are looked up by name in any case,
so of two with one name both nodes have the first one's data; `ip`, `port`, `dev`
and `speed` are compared to the letter. `DevicesAsWritten` says what is left: a
process that runs does so with all that is written. `Proxy` takes such devices
and routes as CONSTANTS.

### Launch, Startup

`script` holds, per copy, the command it is at, the process it has found and
whether it is in its first round; `procs` what `ps` would list. `grep` matches any
process with the program's name (`other`). `kill -10` is SIGUSR1, whose default
action ends the process: the clean stop of `Lifecycle` belongs to SIGINT and
never happens under the script. A `kill` of a process that is gone fails, and by
`set -e` the script ends with nothing started. A rotation without a second log
removes the first. `logs` are ages, in starts. A second copy of the script does
not end the first: both loops go on, and both may start a process; `mixed`
records that, and `OneApp` and `LogsKept` are about the rest.

`Launch` knows nothing of configurations but `Reading`, which says whether the
process runs, exits or crashes with a text and a refused allocation; `Startup` gives
it the parser and states what a process must have read. So the script can be
proved about although the parser is recursive. A process is started, reads its configuration (`Load`), and runs, exits or
crashes. Bounds: some three hundred configurations (`MCStartup`: the shipped
devices in every spelling; members missing, doubled or of another type; cut off
before every token with five remainders; malformed ones; NULs and bad digits), each read by one
process, with each of its allocations refused in turn (the longest file takes
43); the script with an empty configuration, two copies, three process
ids. `NestingLimit` 4 stands for 1000.

## Runs

| Run | Checks | Shows |
|---|---|---|
| `SendQueuePaced` | `TypeOK`, `PollSeesWaiting`, `SlotInFlightIntact`, `ReportIsTruthful`, `ReplyOfNewest`, `ImplementsFifo`, `EventuallyWritten` | the queue's promise while calls do not outrun the thread |
| `SendQueueOverrun` | `PollSeesWaiting` (violated) | ten waiting messages look like none |
| `ProxyShared` | `OnlyRouted`, `AnswersReturn`, `CommandsReachTargets`, `AnswersReachLine` | concurrent commands to shared testers |
| `ProxyMesh` | `TypeOK`, `CrashOnlyByUnknownTarget`, `ReportsDieOut` | `appconfig.json`, three plausible additions, and two devices that command each other |
| `LifecycleStop` | `TypeOK`, `QuietWhenFreed`, `SignalEndsProcess` | stopping |
| `LifecycleEarly` | `WaitingForExitSignal` (violated) | a signal forgotten by a thread that begins |
| `LifecycleJoin` | `JoinsOnlyThreads` (violated) | a thread that ends between test and join |
| `SockClient` | `TypeOK`, `WritesOwnConnection`, `NoDescriptorLeaks`, `KilledOnlyAfterReset`, `CommandsFromStream`, `ToldCommandsAsSent`, `ImplementsLoop`, `EndIsNoticed`, `MessagesOutlastReconnection`, `StopsWhenTold` | a socket thread through closes, resets and refused connections |
| `SockClientCut` | `CommandsAsSent` (violated) | a command carried out that is the end of another |
| `Reader` | `TypeOK`, `DataIsGenuine`, `OverrunNeedsCrowding`, `ReadyMeansAnswered`, `ChecksumAgrees`, `NothingLiesAbout`, `ReadsAreWritten` | the serial thread with a reader that is late, silent or spoilt |
| `ReaderHeader` | `ErrorsArriveWhole` (violated) | an error text taken for a frame |
| `Startup` | `TreeAsWritten`, `NothingLost`, `DevicesAsWritten`, `OneApp`, `LogsKept`, `ComesBack` | configurations of all kinds, and the script around processes that come and go |

Deadlock is checked except where the system really stops: the process ends in
`Lifecycle`, and in `ProxyMesh` when it dereferences NULL; the thread returns
or is killed in `SockClient` and `SerialPort`; processes and scripts end in
`Launch`. Definitions
commented *Fault* are plausible bugs in the code; replacing the definition that
follows by them makes the run fail, which shows that the property sees the code.

**Fairness.** `SendQueue`: a caller in its critical section leaves it, and the
device thread keeps polling (its loop calls `ProcessSend` in every turn): weak
fairness. `Take` needs strong fairness, because a spin lock is no queue; callers
hold it for microseconds between turns of at least tens of milliseconds.
`Proxy`: each thread keeps turning (`recv` times out after 0.5 s, `read` after
0.3 s). A thread without a connection retries `connect` every 5 s, and it is
assumed, not guaranteed by the code, that a peer which closed accepts a
connection again; no device has to send anything, and writes may fail for ever. `Lifecycle`: main, the handler and the threads run, nobody has to
send a signal. `SockClient` and `SerialPort`: the thread goes on (`FairSpec`):
`recv` and `read` time out, sleeps end, and `write` is taken to return; peer and
reader owe nothing. `MessagesOutlastReconnection` has its own premise, that the
thread is connected again and again, since the peer may refuse for ever. `Launch`:
each copy of the script goes on with its commands.

## Findings

1. `SendQueueOverrun`: the comment on `ProcessSend` (`common.h:71`) has it send
   when there is data in the buffer; with ten messages waiting
   `check_and_send_data` (`profile.c:29`) finds nothing, because `try_send_data`
   (`command.c:48`) does not test for a full ring. While the socket thread
   sleeps 5 s after a failed `connect`, callers reach that easily.
2. `LifecycleEarly`: after "waiting for exit signal" (`main.c:203`) a SIGINT may
   be forgotten by a thread that has not begun: `ExitFlag = 0` (`sock.c:41`,
   `uart.c:486`) comes after `ExitFlag = 1`, and main joins it for ever.
3. `LifecycleJoin`: `if(info->handler != 0)` (`main.c:215`) does not protect
   `pthread_join(info->handler, NULL)` (`main.c:217`): the thread clears handler
   in between.
4. `SockClientCut`: the router is to recognise "a command message from the device
   that starts it" (`main.c:57`), and TEST01 and RETEST01 are commands of their own
   (`main.c:28`). `recv` (`sock.c:119`) may return "RE" and "TEST01" one after the other;
   the second is compared as a whole and carried out.
5. `ReaderHeader`: the error texts (`uart.c:18`, `uart.c:284`) are to be left out of the
   payload extraction, but `memcpy(revbuf, "ERR:", ...) != 0` (`uart.c:313`) is always
   true: of "ERR:HEADER#", the only one with ten bytes or more, the router gets "ADE".

Two more are in the models but contradict no text of the repository, so no run is
about them. A reset connection makes `recv` return -1, which `sock.c` takes for a
timeout; the next `write` raises SIGPIPE, for which there is no handler, and ends the
process: `KilledOnlyAfterReset` says that nothing else does. And cJSON reads escapes
with bad digits, as `TreeAsWritten` says.

## Proofs

All theorems hold for every value of the constants that satisfies the named
assumptions (`SendQueueAssumption`, `ProxyAssumption`, `LifecycleAssumption`,
`SockClientAssumption`, `SerialPortAssumption`, `PidsAssumption`), which TLC evaluates
in the runs. They fix types and what makes a configuration one. `SerialPortAssumption`
says one thing more of the program: a payload is no longer than what
`send_rfid_cmd_read_40` asks for, `data[100]` holds and a frame's length byte can say.
`XorAssumption` and `TableAssumption` are of another kind: formulas about the sixteen
words of `wCRCTalbeAbs`, the 256 of the polynomial and `^` that contain no constant of
the model, so that TLC's evaluation of them (a million cases) does not check an
instance but settles them. Some theorems have hypotheses of their
own: `Consistent` and `Paced`, which the code does not ensure and without which the
property fails, and `NoFalseFrame` and `OnlyFramesPass`, which are about the checksum.

- `SendQueueProofs`: every theorem but the last assumes `Paced`, that is `MaxWaiting < N`: at
  most nine messages wait for a device. The invariant ties the indices to `unsent` (the
  push index is `unsent` slots ahead of the pop index, modulo the ring), bounds
  `unsent` by who holds the lock, says that every waiting slot is whole, that
  the slot in flight is the one before PopIndex and hence out of the callers'
  reach, and where each caller stands relative to the lock. None of the safety
  properties is inductive alone: that the slot in flight is intact needs the
  distance between the indices, which needs the lock. `OverrunLosesRings` does
  without `Paced`: `unsent` and the distance of the indices differ by whole rings
  (`OverrunInv`), and the device thread pops only when `unsent` is positive, even
  if callers make the indices equal between its test and its pop, which keeps
  the number of rings from falling below zero.
- `ProxyProofs`: `RoutedOnly` and `CrashNeedsUnknownTarget` hold in every
  configuration, consistent or not. The invariant adds that a queue's reply
  device is one that some route with this target names (`ReplyInv`) and that a
  thread in the middle of a command or a forward is at a route that justifies
  the push it is about to make (`ThreadInv`). `AnswersComeBack` is proved for
  every `Consistent` configuration: from the time a command is queued until its
  answer is forwarded the target's queue names the right reply device
  (`QueuedInv`, `AskedInv`, `AnswerInv`), because any other push to that queue
  is a command with the same reply. `LineIsFifo` is the refinement of `Fifo` by one
  device of the composed router, for every configuration: if no call for that
  device finds one free slot only (`Overruns`), what is routed to it by any number
  of threads is written to it in that order, none lost and none twice, however
  writes fail and other rings overflow. Its invariant is that no ring is ever
  full (`RingsFit`); the step that matters is that a push by any thread, in an
  action, a forward or the report of its own failed write, is one push of that
  queue and no step of any other. `ThreadIsLoop` is the refinement of `DeviceLoop`
  by the thread of each device, with no hypothesis on the configuration: the steps
  of other threads leave the device where it is (`OthersLeave`), so do those of its
  own router (`RouterLeaves`), also while it reports a failed write, and a push, by
  whatever thread, is one more that waits or an overflow (`TrySendIsPush`).
- `LifecycleProofs`: `FreedInQuiet`. A handler reads 0 only for a thread that
  has ended or was never needed (`ClearedInv`), every thread has been created
  when main starts to join (`UnstartedInv`), so main leaves only ended threads
  behind (`JoinedInv`).
- `SockClientProofs`: `OwnInv` says that the thread owns the descriptor `fd` and
  no other, `SharedInv` that `info->fd` is the same number whenever the thread has
  one, and `ConnInv` that Connected is never set for a socket that is not. None is
  inductive alone: that a write goes to the own connection (`WritesOwn`) needs
  that Connected is cleared with every close, or the next socket would be read
  and written without `connect`. `CommandsInStream` proves `CommandsFromStream` with
  no hypothesis on the messages: what has arrived and is not received is the end of
  `sent` as long as the connection lasts, and the stretches found so far lie before
  it (`StretchInv`). `ToldCommandsFaithful` proves `ToldCommandsAsSent`: every piece that
  has arrived carries a label, which message it is of and which piece of it
  (`StreamInv`). Pieces of one message stand together and the labels grow along the
  line, `recv` takes a beginning and a lost connection all of it, so that labels
  survive; a text that is a told command has, for want of any other way to spell it,
  the label of one message and all its pieces but the end, and nothing of that
  message is left to be received. `LoopImplemented`
  is the refinement of `DeviceLoop`; it needs of the invariant that a thread which
  receives or sends is connected (`ConnInv`) and has not sent more than was queued.
- `Crc16Proofs`: the checksum, for messages of every length. The library's induction
  rules take an operator, which the provers cannot instantiate; here induction is
  stated of sets of natural numbers (`NatSets`), and follows from the library's
  theorem that the finite sets of naturals are well-founded under inclusion: of the
  intervals `0 .. k` to the members of a set one has none below it. With that the
  recursive function in `Loop` is shown to have a solution for every message
  (`LoopRuns`), whatever the step. `StepsAgree` is one byte: the two nibble steps by the
  code's table do to a word what the polynomial's table does to it, for all 2^24 pairs
  of a byte and a word, from the 2^20 cases of `TableAssumption`, since the step is linear in
  the high byte. So `SameChecksum` holds without induction of its own: equal steps
  make equal loops. `OneByteDetected` does need it: a step is injective in the
  remainder for each byte and in the byte for each remainder (`StepInjective`,
  `StepSeparates`), so two messages that differ in one place have different
  remainders from there on to the end (`RunsDiffer`).
- `SerialPortProofs`: `ChecksumAgreesAlways` and `FramesAreTold` bring the checksum to
  what is on the line and in `revbuf`. A frame fits `data[100]` and what is left in `revbuf` waits
  for the rest of one (`PartInv`); without crowding all that is in `revbuf` and on
  the line is of one frame (`RoomInv`), which is why one frame never overruns
  (`OneFrameFits`). For `ConnectedWhenReady`, all that arrives before the line has
  the reader's speed is noise (`LineInv`), and a first answer that has passed has
  been read to its end (`StageInv`), so the second is another frame. `LoopImplemented`
  is the refinement of `DeviceLoop`: a frame that takes several reads is one receive.
- `ReaderDataProofs`: `GenuineData` proves `DataIsGenuine` for any payloads and
  buffer sizes under `OnlyFramesPass`. What `Extract` makes of a frame is shown to be
  what the frame `Says` (`ExtractSays`), which is defined without the code's loops. Every byte in `revbuf` and on the line has an
  owner, the frame it has arrived of (`Labelled`): from there on there is the rest
  of that frame as it arrives, and behind it only bytes of later frames. A read
  moves bytes from the line to `revbuf` and changes nothing of this; what is
  dropped, reported as an error or handed on is a beginning, and what is left
  keeps its owners (`RestTraced`). What passes the checksum is the frame that owns
  its first byte, from its first byte to its last (`Recognised`), and everything
  behind is of later frames, so no frame is handed on twice or out of order
  (`FrameTraced`). Only the first `CopySize` + 2 bytes of what follows matter to
  `crc_func`, so finitely many continuations decide `OnlyFramesPass`, however much
  is on the line.
- `LaunchProofs`: for any number of copies of the script and whatever `Reading`
  says. While there has been one copy at a time and no other process of that
  name (`~mixed`), there is one process at most, none while the copy is about to
  start one, and the copy has found the one it is about to kill (`Alone`). The
  first of what `ps` lists, which the script takes, exists because any processes
  there are have a least id (`Ordered`).
  `LogsInv` places the logs of the last two starts, one file lower between the
  rotation and the start.

Only model-checked, and why:

- The liveness properties (`EventuallyWritten`, `CommandsReachTargets`,
  `AnswersReachLine`, `ReportsDieOut`, `SignalEndsProcess`, `EndIsNoticed`,
  `MessagesOutlastReconnection`, `StopsWhenTold`, `NothingLiesAbout`,
  `ReadsAreWritten`, `ComesBack`): TLAPS handles neither fairness nor ENABLED.
- `TreeAsWritten`, `NothingLost`, `DevicesAsWritten`: trees are of any depth, so
  `CJson`, `Profile` and `Startup` use RECURSIVE operators, which the prover's
  back ends do not have, and induction over data is out of its reach.
- `OnlyFramesPass` and `NoFalseFrame` themselves: they are false for some payloads
  and true for others, and are evaluated.

Proved and in no run: `LossIsWholeRings`, whose theorem covers every ring and any
number of calls.

## Not modelled

- `tcpserver.c`: not in the Makefile; `main.c`, `sock.c` and `uart.c` have replaced
  it. `bellthread` is never called; the dump functions only print.
- cJSON's printing, editing, comparing and minifying: the program calls none.
- Message lengths: `try_send_data` copies without comparing the length with the
  128 bytes of a slot, and names are copied into fixed buffers; the models have
  no memory layout, so neither has what lies behind. For the same reason
  `free_profile_info` taking `RealPtr` for another type is not there. The lists
  themselves and the json tree, which is never freed, are left to process exit.
- A `write()` that blocks because the peer does not read: it has no timeout, and
  the thread would wait for the peer.
- `read()` returning -1 on the serial line (an error of the driver), and a failed
  `setsockopt`.
- Calls of `try_send_data` without data occur in `SendQueue` only: the router
  never makes one, since route names are not empty. `LastRecvBuffer` is written
  and never read.
- A serial device other than the reader: what `read` returns is handed on as it
  is, which is `Proxy`'s `Receive`.

## Plan

1. `SendQueue`, `Proxy`, `Lifecycle` with their proofs (done).
2. `SockClient` with its proof (done); `Crc16`, `RfidFrame`, `SerialPort` (done).
3. `JsonText`, `CJson`, `Profile`, `Launch` (done).
4. `LossIsWholeRings` for every ring and any callers (done).
5. The invariants of `SerialPort`, the recognised commands, the script's invariants and
   `LineIsFifo` (done).
6. The checksum for every message, and the threads' common abstraction
   `DeviceLoop` implemented by `SockClient`, `SerialPort` and `Proxy` (done). With that
   every invariant of a passing run is proved but the three of the parser named above.
7. Open: that `Proxy` stops as `Lifecycle` has it, for which `Proxy` would have to
   carry `ExitFlag`, and `free_profile_info` its memory.
