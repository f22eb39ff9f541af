# Smart meter firmware: TLA+ models and proofs

The repository is the firmware of a WiFi electricity meter built on the WinnerMicro
W600 SDK. Most of it is that SDK (FreeRTOS, lwIP, crypto, drivers, WiFi binaries). The
product itself is `App/main.c` and `Drivers/`, about 3,300 lines of half a million: six tasks, one timer
callback and one network callback that share a heap record, a reply buffer, an I2C bus
and two chips without a single lock. What makes it hard is not any one function but what
happens when one task is preempted inside it, so the models keep every point at which
that can happen and abstract the data.

There are no tests and no design documents; what the code is meant to do is taken from
its comments and messages.

## 1. Inventory

| Part | Source | State | Operations | Interacts with |
|---|---|---|---|---|
| Push button | `wm_wifi.c` 44-79 | `gsKeyPreStatus`, `gsKeyCount` | one scan per 100 ms | posts to the WiFi task's queue |
| WiFi task | `wm_wifi.c` 150-236, 297-396 | queue `gsUserTaskQueue`, `oneshotflag`, `user_sock_u` | one handler per message; `SocketUdp`, `CreateUdpSock`, `CloseUdpSock` | lwIP, receive task (record), LCD icon |
| Receive task | `wm_wifi.c` 244-289 | `sock_u`, `UDPAck`, `UDPAckLen` | receive, `Data_Handle`, hand over the answer, error branch | WiFi task (record, queue), EEPROM, clock, relay |
| Network callback | `wm_wifi.c` 88-113 | none | posts NET_UP / NET_DOWN | queue |
| Command protocol | `wm_datahandle.c` | `UDPAck`, `UDPAckLen` | check a frame, write or read by device address, build the answer | bus, relay |
| I2C, EEPROM | `wm_i2c.c`, `wm_e2prom.c` | the bus, the chip | byte write and byte read, each several driver calls | used by four tasks, no lock |
| RTC task | `wm_exrtc.c` | flag and date in the clock chip | first-use initialisation, copy the date for ever | bus |
| Metering task | `wm_uart1.c`, `wm_meter.c` | UART buffer, register buffers, calibration constants | frame parser, register access, calibration | bus, UART |
| LCD task | `wm_lcd.c` | `dispram`, `gsBlinkStatus` | show date and time, blink the WiFi icon | bus, timer callback |
| Relay, LED | `wm_relay.c`, `wm_led.c` | output pins | set, read | command protocol |
| Start-up | `main.c`, `wm_console_task.c` | none | create the tasks | all |

Correctness, part by part:

- *Button*: a press is reported exactly once, and as a long press exactly when it was one.
- *WiFi and receive task*: the record is not used before it exists; `conn_status` tells
  the truth; a host gets its own answer; an accepted request is answered; an error or a
  network loss only interrupts the service; no socket leaks.
- *Protocol*: damaged frames are ignored; answers are well formed; an acknowledged write
  took place.
- *Bus and chips*: no cell changes except by a completed write meant for it; a date is
  written as a whole; a crash leaves a state from which the next start recovers.
- *Metering*: a word reported as written is in the chip; the value calibration accepts is a
  reading of the voltage; calibration ends; the receive buffer survives a stuck parser.
- *LCD*: a screen shows what it should although three tasks write `dispram` and the
  controller without a lock; the WiFi icon follows the network.

The hazards (37 places in the code) are listed in `PROJECT.json` with the properties
that cover them.

## 2. Modules

| Module | Models |
|---|---|
| `KeyScan` | the button; extended by `FrontPanel`, instantiated by `UdpLink` |
| `UdpLink` | WiFi task, receive task, timer and network callbacks, with lwIP and the network as environment |
| `UdpService` | what the UDP service promises its hosts, in three variables; implemented by `UdpLink` |
| `FrontPanel` | extends `KeyScan`; the LCD task, the two writers of the WiFi icon, the bits that reach the display controller |
| `MeterLink` | the metering task, the UART interrupt with the frame parser, the V9261F and its line |
| `MeterCommand` | the command protocol as pure operators: which frames are accepted, the device operations each command performs, the answer frames |
| `I2cStore` | extends `MeterCommand`; the four tasks on the bus, the EEPROM, the clock chip, power failures |
| `MCUdpLink`, `MCI2cStore`, `MCFrontPanel`, `MCMeterLink` | finite instances |
| `KeyScanProofs` | theorems about the button |
| `UdpLinkProofs`, `UdpServiceProofs` | theorems about the two network tasks; the refinement of `UdpService` |
| `SumProofs` | lemmas: induction for sets of naturals, recursive functions, sums of bytes |
| `I2cStoreProofs` | theorems about the bus, the EEPROM and the command protocol |
| `FrontPanelProofs` | theorems about the display, the icon and the button inside the panel |
| `MeterLinkProofs`, `MeterAnswerProofs` | theorems about the metering task: types, ring and buffer; the answers, verified writes and the accepted reading |

Definitions whose names end in `_Something` and whose comment says *Faulty variant* are
deliberately wrong versions of the definition that follows them. They are not used by any
specification; `PROJECT.json` ("mutants") says which property detects each.

### KeyScan
Variables are the two of the code plus two history variables: `held`, the scans that saw
the press, and `sent`, the messages it caused. `Scan(level)` is one call of
`KeyScanTimerProc`; its four disjuncts are the four branches.

### UdpLink
FreeRTOS runs the highest-priority ready task: the WiFi task (50) before the receive task
(51) before the timer service task. An action of the WiFi task therefore runs from one
blocking call to the next (`wpc`): `tls_os_queue_receive`, the retry delay, and each
socket call, because the caller of a socket call waits for the lwIP thread. The receive
task is preempted anywhere, so each of its accesses to the shared record is an action
(`rpc`), enabled only while the WiFi task is blocked; the timer moves only while both are.
The lines

    memcpy(sock_tx, UDPAck); tx_len = ...; remote = ...; queue_send; memset(UDPAck)

are the actions `RcvCopy`, `RcvLen`, `RcvAddr`, `RcvPost` (the final `memset` belongs to
`RcvPost`: it touches a buffer no other task uses), and the error branch is `RcvErrClose`, `RcvErrNum`,
`RcvErrConn`, `RcvErrPost`.

The queue drops messages when full, as every sender passes a zero timeout and ignores the
result. `sendto` takes address and length when called and reads the buffer later
(`netbuf_ref`). `closesocket` deletes the mailbox and wakes nobody. A second socket
cannot bind the port. `tx_len` is reduced modulo 2^32 by a result that went through
`u16_t`. The NULL access in `CloseUdpSock` either traps (`fault`) or is ignored: the
write goes to the vector table in ROM.

The hosts are external. With `Pipelined = FALSE` each host sends when it has no request of
its own outstanding (`Waits`), whatever the others do, so several hosts may be served at
once on the one record; with `TRUE` a host sends whenever it likes. Two history variables
say what became of the record: `ans` is the request whose answer was copied into `sock_tx`
last, and `overlap` whether another answer was still queued or in `sendto` at that copy.

A datagram is a sender and a kind: a *write* or *read* command, *junk* that
`Data_Handle` ignores, or an *empty* datagram, for which `recvfrom` returns 0 and the
code takes its error branch.

### UdpService and the refinement
`UdpService` knows a request in service, an answer being sent and whether the two have
been mixed with others, and nothing of tasks, queue, sockets or buffers. `UdpLink`
implements it under the mapping `InService` (the request whose answer was copied into the
record, from that copy until the WiFi task has taken the `MSG_SOCKET_SND` it caused),
`InSendto` (the arguments of `sendto` together with the buffer it reads later, while the
call lasts) and `overlap = 1` for `mixed`. A request that comes while another is in service
or being sent *overtakes* it (`Overtake`): it may replace the bytes of the answer in
`sendto`, never its address or length, and from then on nothing is promised (`Unpromised`)
until a request finds the service free again (`Take`). Two hosts that each wait for their
own answer are enough for that. Otherwise the hazards of the shared buffer are steps the
service does not have: an answer that changes during `sendto`, an answer without a
request, a second answer to one request. A command may be dropped (`Lossy`) only in instances with failures or network events. A datagram
that is no command is *answered*, with cleared bytes and the length of the answer before
it, once there has been one: that is what the code does, and `Replies` says so.

### FrontPanel
The LCD task has the highest priority of the tasks that touch the display and does not
block while it shows a screen, so a screen is one action (`LcdTime`, `LcdDate`), enabled
between any two steps of the other two. The WiFi task and the timer callback each write
the icon in steps (`Load`, `Store`, `Begin`, `End` for each half byte): `dispram` is loaded, changed and
stored, then two transfers of 13 bits go out. A transfer is modelled bit by bit where it
matters: a task that preempts one pulls CS low when it is low already, so its first 13
bits are appended to whatever prefix was clocked in (`Clocked`), and the controller takes
them for something else. `Stored` says what the HT1622 makes of any such sequence. The digit table, the pins of every digit and the order of the `dispON` /
`dispOFF` calls are those of `wm_lcd.c`; `LastOp` and `Rewritten` reduce a screen to the
net effect of its some 90 calls. Segments outside `Used` (no screen and no icon uses them)
are not tracked: a garbled first transfer may leave one of them lit for good.

### MeterLink
The task's program is the list of commands still to be sent (`todo`): `Meter_init` writes
the control words and the calibration words, each followed by a read that is compared,
`CalibVoltage` reads the voltage, corrects the word in the EEPROM and starts over unless
the reading is right, and after that `ReadVoltage` repeats for ever. Every command is
followed by a fixed delay; then the task uses `ReadRegBackBuf`, whatever is in it, byte by
byte (`UseByte`), in the order `ReadOrder` in which the compiled sum loads its operands: C
leaves it open, so it is a constant, any permutation of the bytes. The parser is an operator on the ring, `rx_len` and the buffer and runs
once per interrupt, on whatever has arrived. A read of the ring gives all the bytes asked
for or none. The `s32` error is divided as an unsigned integer, with the words' width.

Faults of the line: an answer is *lost* (the command executed or not), *late* (the delay
ends first), *split* over two interrupts at any byte, or hit by a *parity* error, whose
interrupt throws away what the FIFO holds. An answer does not name its register, so the
code cannot tell whose it is.

### MeterCommand and I2cStore
A command is the sequence of device operations its `switch` case performs. A byte written
to be compared later carries the expected byte in the read operation, so `isOK` becomes 0
at the first comparison that fails and `&&` skips the rest. The clear commands read their
bytes from `Rom`, the memory at address 0, because that is the pointer they pass.

`I2cStore` executes operations one driver call at a time (`ph`, `idx`), each call together
with its wait for the acknowledge. `DelayOver(t)` ends a delay; from then on `t` runs
before all tasks below it, wherever they are in a transfer. The chips are external: the
EEPROM latches data bytes and programs them at STOP, ignores the bus during the write
cycle that follows, and forgets latched bytes at a new START; the clock stores each byte
as it arrives and protects the flag register with its two control registers.
`PowerLoss` keeps the contents of the two chips and restarts everything else.

The energy commands, the parameters, the two dates and the relay are all in `Write_Meter`
and `Read_Meter`, including what looks unintended: `NominalVoltage` is redefined to
0x1B734F8D further down in `wm_drivers.h`, so its command byte 0xEF has no case; reading
`ClearAll` and the instant values uses other addresses than writing them.

## 3. Runs

| Run | Result | What it shows |
|---|---|---|
| `front_panel` | pass, 517 k states | button, icon and screens, preemption between any two steps, inside a transfer too: `ScreenComplete`, `IconTellsLink`, and the button's `OneMessagePerPress`, `LongPressReported`, `EveryPressReported` |
| `meter_link` | pass, 1.05 M states | any two faults on the line: `RingBounded`, `BackBufIntact`, `WholeAnswerProcessed`, `VerifiedWrite`, `AcceptedIsReading`, `MeteringStarts`, with readings of 0, 1 and the standard |
| `udp_safety` | pass, 3.55 M states | `TypeOK`, `RecordBeforeUse`, `ConnMeansBound`, `ReplyMatches`, `ServiceRefined` with two hosts that send at any time, network loss, address changes, failing allocation, socket and send |
| `udp_service` | pass, 277 k states | `RequestAnswered`, `ServiceRecovers`, `PromptServiceRefined` under fairness, with button and blinking |
| `store_safety` | pass, 476 k states | intact and damaged commands against the RTC task, unbounded preemption, one power failure |
| `store_service` | pass, 32 k states | display, metering and receive task, unbounded preemption; `CommandAnswered` |
| `meter_stale` | violation | after one parity error, intact answers are processed too late for the read that asked |
| `udp_reconnect` | violation | after a disconnect the receive task never runs again |
| `udp_portleak` | violation | a repeated NET_UP leaks the bound socket |
| `store_time` | violation | a preempted time command leaves a mixed date |
| `store_flag` | violation | power failure between flag and date |
| `store_clear` | violation | cleared registers are filled from address 0 |

### Bounds
- `WIFI_QUEUE_SIZE` is 2 in `udp_safety` (4 in the code): a smaller queue overflows
  sooner. The proofs hold for every size.
- Two sockets: one leaked and one in use.
- `U16 = 4`, `U32 = 8`, answer lengths 1 and 2: the order of the real values, and
  subtraction can wrap.
- `udp_safety` has `Pipelined = TRUE`, two hosts and a mailbox of one datagram: the next
  request arrives while one is handled, queued or sent. In this instance TLC reaches mixed
  answers, a `tx_len` that wrapped, and the return from a mixed record to a clean one. The
  kinds are *read* and *write*, whose lengths differ; the error branch runs when `recvfrom`
  finds its socket closed. With *empty* as a third kind (10.3 M states), and with a mailbox
  of two, the run passes as well.
  `udp_service` has one host that waits for its answer, because an answer that was
  overtaken is not sent; it has the kinds *junk* and *empty* too. The proofs need no
  restriction on the hosts.
- Dates have one or two bytes instead of seven, energy registers one instead of four.
  The interleavings differ only in how often the same driver calls repeat. With two bytes
  a date can be torn.
- `MaxClashes` bounds the interrupted transfers where three levels of preemption would be
  too many states; otherwise it is `Unbounded`. `MaxLoss` bounds power failures;
  `MaxHold` the length of a press.
- `front_panel` has `KEY_LONG_COUNT` 1 and presses of up to two scans, a blink period of 2 and one network
  message between two screens. The button's part is proved for every threshold; the
  period only decides how often the icon is written, and with one message a command
  of the WiFi task meets every state of the two other writers.
- `meter_link` has words of two bytes instead of four (`WORD_BYTES`, `U32 = 2^16`), two
  control and three calibration registers, a ring of 20 bytes with a limit of 8 instead
  of 4096 and 128 (32 bytes also pass, with 6.1 M states). The frame format, the order of the commands and the parser do not
  depend on these numbers; the ring overflows within the run once the parser is stuck. The
  calibration words include ones that look like the start of a frame. `MaxFaults` is
  2, `MaxRounds` 3, one more than two faults can spoil; a behaviour at the last bound
  stutters. `ReadOrder` is the highest byte first.
- Readings in `meter_link` are 0, 1 and the standard: both ends of the range the unsigned
  division accepts, and the value below it.
- Two peers are interchangeable; symmetry is used in `udp_safety` only, which has no
  liveness property.

### Fairness
`UdpLink`: weak fairness of the WiFi task and of the timer task, strong fairness of the
receive task. A ready task runs as soon as the tasks above it block, which all of them do
in every loop; the receive task is disabled for moments by messages the timer or the
network post, hence strong. The network and the hosts have no fairness.
`I2cStore`: weak fairness of the display task, which nothing on the bus outranks, strong
fairness of the three tasks below, which are repeatedly preempted but run whenever the
tasks above sleep in a delay; delays and write cycles end. `RcvCommand` and `PowerLoss`
are not fair. `MeterLink`: weak fairness of the task, which only sleeps for bounded times, and of the
interrupt. `FrontPanel` states no liveness.

### What the properties mean in detail
- `VerifiedAck` allows one disturbance per command: a preemption, or a write cycle still
  running when the command starts. Two can defeat the read-back: the first makes the write
  go nowhere, the second comes inside the read and moves the chip's address counter to
  another cell, which happens to hold the expected byte. TLC finds such an execution in
  `store_safety` when `hits <= 1` is removed (the RTC task's date bytes lie behind the
  counter). In `store_service`, with one-byte dates, no cell behind the
  counter can hold the byte that was sent, and the property holds there without the limit
  too; that run adds the other tasks, `store_safety` the coincidence.
- `NoStrayWrite` holds because of the priorities: a preempting task always finishes its
  transfer before the preempted one continues, so what the latter still sends finds no
  chip listening. With time slicing (`Above_TimeSliced`) it fails.
- `ReplyMatches` excepts an answer that was copied into the record while another one was
  queued or in `sendto` (`overlap`): there is one buffer, one length and one address, and
  then the bytes of one host go to the other, or a part of them. Two hosts that each wait
  for their own answer are enough: with `Pipelined = FALSE` TLC finds the overlap too.
  The property says that this is the only way, through every failure and network event,
  and that the first answer copied into a free record is right again, even after `tx_len`
  has wrapped. It accepts what the code does with a datagram it ignores: cleared
  bytes, as many as the answer before had, to the host that sent it.
- `MeteringStarts` is about readings above 0 and not above the standard. A reading above it
  becomes a large unsigned number and one of 0 makes `err / standardvoltage` 1: in both
  cases the task calibrates for as long as the reading stays. TLC finds this when 0 is
  admitted to the range.
- `AcceptedIsReading` has the condition that the highest byte of the word is loaded first
  (`ReadOrder[1] = WORD_BYTES`). In a build that loads the lowest first, one late answer
  suffices for an accepted word that was never measured, its low byte stale and its high
  byte new; TLC finds it when the condition is dropped.
- `IconTellsLink` is about `dispram` and excepts one interleaving: a blink that had passed its
  test and not yet stored when the WiFi task's last command began (`raced`). Without the exception TLC finds the execution: `UserLcdBlinkProc` has tested
  `gsBlinkStatus`, the WiFi task switches blinking off and the icon on, the callback goes
  on and switches it off. The icon then stays wrong until the next network message.
- `ScreenComplete` is about the moment a screen has been shown. Between screens the
  panel may be garbled, in SEG 21 or elsewhere: TLC reaches such states. The property
  says that the next screen repairs all of it.
- `VerifiedWrite` and `AcceptedIsReading` hold after at most one fault. With two, an answer
  for another register with the same word passes the comparison, and a stale word is
  accepted as the voltage; TLC finds both. `MeteringStarts` and `WholeAnswerProcessed`
  except frames cut behind their first byte (`broken`), after which the parser can be out
  of step for good (`meter_stale`).
- `BackBufIntact` allows a buffer whose third byte is 0: a truncated answer is checked
  against the zeros `rx_buf` was cleared to, and FE and the header can pass.

## 4. Proofs

`tlapm` checks the eight proof modules to the last leaf. Nothing is assumed beyond the
named `ASSUME`s on the constants, which TLC evaluates in every run:

- `KeyAssumption`, `UdpAssumption`: sizes and bounds are positive numbers, answer lengths
  fit a `u16_t`; `NoDataAssumption`, `NullAssumption`: NULL and the empty buffer are not
  values of another kind.
- `CommandAssumption`, `StoreAssumption`, `SentAssumption`: dates and registers have lengths
  that fit a frame and the EEPROM, and what a host sends is a frame the protocol accepts, or
  one with a single byte changed. `CellsAssumption`: the calibration bytes lie below the
  parameters (`VOLT_LEN` is 4), and the chip has the cells of every parameter a host sets.
- `PanelAssumption`: the blink period is a number not below its lit part, and times have bytes.
- `MeterAssumption`: words have `WORD_BYTES` bytes, registers have 12-bit addresses, a
  frame fits the cache limit and twice the limit the ring. `InitAssumption`: `Meter_init` does not
  write the register the voltage is read from, writes no register twice in a row (also when
  it is repeated), and the word it ends with (0xEC000080) begins with a higher byte than
  the standard (0x1B73...); `MeterLinkProofs` does without it. `ReadOrderAssumption`: the
  order in which the bytes of a word are loaded is a permutation.

No theorem restricts the hosts: waiting or pipelining, and any number of them.

*KeyScanProofs.* `KeyInv` relates the code's count to the length of the press
(`held = gsKeyCount + 1`) and to the messages caused (none below the threshold, one from
it on). It is inductive; `KeyOneMessage`, `KeyLongPress` and `KeyNoPressLost` follow. The
last needs the invariant because the releasing scan decides on the count alone.

*UdpLinkProofs.* `IInv` is `TypeOK`, `RecordBeforeUse`, `CallAgrees` and
`ConnMeansBound`. None of the last three is inductive alone. `ConnMeansBound` must
survive `WifiBound`, which marks the record connected after `bind` returns; that is
right only if the socket of the call is still the one in the record or the receive task
has cleared the number meanwhile, which is `CallAgrees`. `CallAgrees` and the types of
the receive task's steps need the record to exist, which is `RecordBeforeUse`; and that
needs the queue to hold no reply before the first socket. The step lemmas go action by
action: `WifiTypes`, `RcvTypes`, `TimerTypes`, `EnvTypes` for the types, `RecordStep`,
`CallStep`, `ConnStep` for the rest.

*UdpServiceProofs.* `ReplyMatches` and the refinement rest on three more conjuncts.
`OneAnswer`: as long as the last copy met no pending answer (`overlap = 0`), an answer to be
sent is in one place only, the receive task's hands, the queue or `sendto`. `AnswerAgrees`:
the fields of the record that a later step will read (buffer, length, address) belong to
that answer from the moment they were written; it comes back with every copy into a free
record, whatever was mixed before. `SetupOnce`: while the network is stable the
socket is set up at most once, so that no request is dropped without a reason. The
refinement goes action by action (`SndServed`, `SentServed`, `DatagramServed`,
`PostServed`); everything else leaves the mapped variables alone (`AsideServed`).

*SumProofs.* The check bytes are sums over sequences, and the definitions are recursive
functions. The library's induction theorems cannot be used, as they take a predicate;
`SetInduction` states induction for a set of naturals, from well-foundedness, and
`RecExists` that recursive functions exist. From these follow what a sum is and that one
changed byte changes it by the difference (`SumChange`), hence the check byte
(`CheckOfDiffers`).

*I2cStoreProofs.* `SInv` says where each task is in its driver calls (`TasksOK`, with
`PhaseFits`: the phase belongs to the kind of operation), types the chips and the rest
(`ChipsOK`, `RestOK`), and that an EEPROM being addressed has an owner (`BusOwned`): the task
whose phase matches what the chip has taken, while all tasks above it are between
transfers. `NoStrayWrites` follows from that: STOP programs the latched byte only when the
owner sends it. It uses the strict priorities (`BusMine`: the running task is the owner,
or has not begun). `RtcReading` and `RcvReading` bound what the two readers have
collected, for the lengths of dates and answers. `IntactCommands` is `DamageDetected`: a frame of up to 255
bytes with one changed byte is refused, whichever byte it is, header, length and check
byte included.

`VerifiedAnswers` (`VerifiedAck`) follows one parameter command through its writes and the
comparisons after them. `LowInv`: the other tasks program only cells below the
parameters, so a stored byte stays. `AckInv` says which operation the receive task has
reached (`Reached`) and, unless all bytes are stored already, one of two things. A command
that nothing has hit is still writing and has stored what it has written (`Clean`): nobody
above it is awake, the chip is not in a write cycle and listens to the receive task, or
its delay outlasts the cycle. A command that was hit once and lost a byte reads back what
is there (`Faithful`): the one hit came before the last write ended, so the chip's address
counter is the receive task's own during every comparison, and every comparison so far
found its byte. After the last comparison both give `AllStored`. `AckInv` is not inductive
without the clause on the delays: a cycle that outlasts the delay would make the next
write a second loss that no hit counts. The step lemmas are one per phase of a transfer
(`StartAck`, `ByteAck`, `StopAck`, `DelayAck`, `ReadAck`, ...), one for a hit (`HitStep`) and
one for what the other tasks do (`OtherStep`). TLC checked `AckInv` on the instances of
`store_safety` and `store_service` first.

*FrontPanelProofs.* `PInv` is the type invariant and `IconInv`. That the controller's
memory keeps its type whatever bits arrive is an induction over the bits (`StoredType`,
`AddrType`). `IconInv` says that once blinking is off and no writer is about to store, the
bit of the icon in `dispram` agrees with the network; the screens do not touch it
(`ScreenKeepsIcon`), and the timer can overwrite it only if it tested the flag earlier
(`raced`) and has not stored yet. `ScreensComplete` (`ScreenComplete`) has two parts. `Draws` gives the cells that a
sequence of calls writes and those it leaves lit; `DrawsConcat` says that the later calls
count, and from it the 113 calls of `Show_time` and the 121 of `Show_date` are followed digit
by digit (`DrawsTime`, `DrawsDate`), for every byte the clock can give. Every SEG is written
by more than one call, so it is sent again after the first call, the only one that a cut
transfer can lead astray (`AllRewritten`). The cells a screen does not write are covered by
`FaceInv`: nothing lights a cell that is neither a screen's nor the icon, although an icon
writer may put back a byte from before the screen, and the marks of `Show_time_flag`,
which a date does not write, stay lit. `PanelScans` shows that the panel implements the button's specification, so
the theorems of `KeyScanProofs` carry over (`PanelButton`).

*MeterLinkProofs.* `MInv` adds to the types that every chunk on the line is at most a
frame long and that `Meter_init` only names its registers. `RingNeverFull` is then the arithmetic of
`MakeRoom` (`RoomMade`). `BackBufCorrect` goes through the cases of the parser; the one
that is not obvious is a count byte that arrives alone and is compared with itself
(`NoShortAnswer`): no header of a read answer makes that sum.

*MeterAnswerProofs.* `AInv` relates the chip, the line, the parser and the buffer to the
command in progress. `Underway`: unless an answer was cut where the parser cannot resume,
the ring is empty between interrupts, the parser can follow everything that is still to
come (`Feeds`: whole answers, or a first byte and then the others), and an undamaged answer is
the last thing on the line or is in the buffer. `FaultlessInv` says what is on the line
before the first fault. `WrittenInv`: a write that did not happen was the only fault, so the
read that follows is answered with what the register holds. `CheckedOK`: the register just
compared is not written before the next comparison, which is where the order of
`Meter_init`'s table comes in (`MeterInitChain`). `CalibInv`, for builds that load the highest byte
first: what CalibVoltage combines is a reading, or begins with the highest byte of the last word of `Meter_init`, even when
a late answer replaces the other bytes. `WriteIsVerified` needs that words with equal bytes are equal
(`BytesInjective`), `AcceptedIsMeasured` that bytes have the value of their word
(`BytesValue`) and that a word beginning with that byte is not accepted
(`StaleNotPrecise`); these are inductions over `WORD_BYTES`. TLC checked `AInv` on the
instance of `meter_link` before it was proved.

Only model-checked:
- liveness (`RequestAnswered`, `ServiceRecovers`, `CommandAnswered`, `MeteringStarts`) and
  `PromptServiceRefined`, which has fairness in its specification: fairness and ENABLED are
  outside the prover's reach.

Every invariant and every other action property of the passing runs is a theorem.

## 5. Findings
Details and quotations are in `PROJECT.json`.
1. `tls_os_queue_delete` does not wake the tasks waiting on the queue, contrary to its
   comment; the UDP service is dead after the first disconnect (`udp_reconnect`).
2. A repeated `MSG_NET_UP` leaks the bound socket (`udp_portleak`).
3. The date is not written in one go (`store_time`).
4. The first-use flag precedes the date it stands for (`store_flag`).
5. Clear commands copy from address 0 (`store_clear`).
6. The delay after a register read does not guarantee that the answer has been processed
   (`meter_stale`): a frame cut by a parity error leaves the parser behind for good.

## 6. Not modelled
- The WinnerMicro SDK: FreeRTOS, lwIP, mDNS, TLS, UPnP, the web server, AT commands,
  drivers and WiFi binaries, more than 99% of the lines in the repository. It is vendored,
  most of it is not called by this product, and its core (the WiFi
  stack) comes without source. What the product's calls observe of it is modelled where
  they are made and marked external or mapped to the lines that decide it: queues, the
  socket layer, the UART driver.
- The functions of `wm_lcd.c` without a caller (`disp_All`, `disp_renew`, `show9num`) and
  display segments that no screen uses.
- The transmit side of the UART, DMA and flow control; noise that changes a byte without a
  parity error.
- The composition of `MeterLink` with `I2cStore`: the calibration words of `MeterLink` are
  read and written as a whole, `I2cStore` has the task's transfers and leaves the bytes open.
- LED: two setters of output pins.
- Races inside one I2C driver call: `tls_i2c_write_byte` with its `tls_i2c_wait_ack`, and
  `tls_i2c_read_byte`, are one step each. A preemption between the writes of the data and the command
  register, between a transfer and the read of its result, or an acknowledge flag
  the preempting task left behind, is not represented; nor is the physical timing of the bus.
- A clock chip that does not acknowledge: the early returns of `wm_exrtc.c` (lines 93, 122,
  148, 184, 204, 239) are not taken.
- `AT24CXX_Check`: runs once, before any task exists, on a cell nothing else uses.
- The clock's ticking; the alarm, countdown and frequency functions, which have no caller.
- `RTC_WriteDate` is modelled without a write lock on the time registers, because its
  unlocking call is commented out in the source and the code relies on the write.
- Datagrams of 256 bytes and more (the `u8` length): `Accepts` has the truncation, and
  refuses lengths 0 and 1, for which the code compares bytes before the buffer; the
  instances do not send such datagrams.
- Stack sizes and memory layout; the SDK.

## 7. Plan
Done: all modules of section 2 and the proofs of section 4.

Left: in `I2cStore`, a clock that ticks and bytes kept by the display task, for dates torn
by a carry between two reads.
