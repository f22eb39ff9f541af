------------------------------- MODULE I2cStore -------------------------------
(***************************************************************************)
(* The EEPROM and the clock chip of the meter and the four tasks that use    *)
(* them: the display task (wm_lcd.c, LCD_display), the RTC task (wm_exrtc.c, *)
(* exrtc_save), the metering task (wm_uart1.c, which loads and stores        *)
(* calibration bytes) and the receive task inside Data_Handle                *)
(* (wm_datahandle.c).  All of them call the polled I2C driver (wm_i2c.c),    *)
(* which has no lock.                                                      *)
(*                                                                         *)
(* Scheduling.  The priorities are 33, 34, 35 and 51 in this order, the      *)
(* first being the highest.  A task gives up the processor only in           *)
(* tls_os_time_delay, but it is preempted between any two driver calls when  *)
(* the delay of a task above it ends.  One driver call, with the wait for    *)
(* its acknowledge, is one step.                                            *)
(*                                                                         *)
(* The two chips are external: a byte for the EEPROM is programmed when the  *)
(* STOP condition arrives and the chip does not answer during the write      *)
(* cycle that follows; a START before the STOP drops the byte; the address   *)
(* counter survives STOP.  Registers of the clock change byte by byte.       *)
(***************************************************************************)
EXTENDS MeterCommand, FiniteSets

CONSTANTS
  Addrs,        \* EEPROM addresses the instance uses
  Sent,         \* well-formed datagrams the hosts send
  Noise,        \* bytes a damaged datagram may contain instead
  SaveOrder,    \* Save_time: position of the Time_Def byte stored at each address
  TimeInit,     \* time_init, the date given to a new clock
  ClockReset,   \* what a register of a new clock chip holds
  CALIB_LEN,    \* calibration bytes at 0x10 (28)
  VOLT_LEN,     \* bytes CalibVoltage stores at 0x14 (4)
  CalibBytes,   \* values it may compute for each of them
  BusTasks,     \* tasks of the instance; the others stay away from the bus
  UDPACK_SIZE,  \* size of UDPAck (54)
  MaxClashes,   \* bound on the number of interrupted transfers, or Unbounded
  MaxLoss       \* bound on the number of power failures

Tasks == {"lcd", "rtc", "uart1", "rcv"}

\* Faulty variant: the tasks share one priority.
Above_TimeSliced(t) == {}

\* The tasks that preempt t.
Above(t) ==
  CASE t = "lcd"   -> {}
    [] t = "rtc"   -> {"lcd"}
    [] t = "uart1" -> {"lcd", "rtc"}
    [] t = "rcv"   -> {"lcd", "rtc", "uart1"}

AddrSpan == 256 * 256        \* a cell of the EEPROM has a two-byte address
Addr16 == 0..(AddrSpan - 1)
CTR1 == \h0F
CTR2 == \h10
FlagReg  == \h2C
FlagByte == \h55
TimeRegs == 0..(TIME_LEN - 1)
ClockRegs == TimeRegs \cup {CTR1, CTR2, FlagReg}
Unbounded == -1
OpenBus == 255   \* what a read returns when no chip drives the bus

ASSUME StoreAssumption ==
  /\ Addrs \subseteq Addr16
  /\ TIME_LEN < CTR1
  /\ Noise \subseteq Byte
  /\ SaveOrder \in [1..TIME_LEN -> 1..TIME_LEN]
  /\ TimeInit \in [1..TIME_LEN -> Byte]
  /\ ClockReset \in Byte
  /\ CALIB_LEN \in 0..255
  /\ VOLT_LEN \in 1..255
  /\ CalibBytes \subseteq Byte
  /\ BusTasks \subseteq {"lcd", "rtc", "uart1", "rcv"}
  /\ UDPACK_SIZE \in 0..255
  /\ TIME_LEN + 6 <= UDPACK_SIZE
  /\ CLEAR_LEN + 6 <= UDPACK_SIZE
  /\ MaxClashes \in Nat \cup {Unbounded}
  /\ MaxLoss \in Nat

\* A host sends complete frames: head, flag, device address, data, check, end.
ASSUME SentAssumption ==
  \A d \in Sent : d \in Seq(Byte) /\ Len(d) \in 5..255 /\ Accepts(d)

\* The calibration bytes lie below the parameters (VOLT_LEN is 4), and the chip
\* has the cells of every parameter that is set.
ASSUME CellsAssumption ==
  /\ \h14 + VOLT_LEN <= \h71
  /\ \A d \in Sent :
       d[2] = Wflag /\ IsParameter(d[3]) =>
         \A i \in 1..Len(ParameterAt(d[3])) : ParameterAt(d[3])[i] \in Addrs

\* A datagram arrives as it was sent or with one byte damaged.
Damaged(d) == {[d EXCEPT ![i] = b] : i \in 1..Len(d), b \in Noise}
Datagrams  == Sent \cup UNION {Damaged(d) : d \in Sent}

NoPage == [a \in {} |-> 0]
NoCmd  == <<>>
MaxHits == 2    \* hits counts up to two: "more than one"

VARIABLES
  op, ph, idx, todo,   \* per task: operation, driver call, byte, what follows
  got,                 \* per task: bytes read
  stage,               \* where a task is between its operations
  cmd, ok, ack, hits,  \* Data_Handle: datagram, isOK, UDPAck; preemptions of it
  bus,                 \* phase of the transfer, address counters, bytes held
  eeprom, ebusy,       \* EEPROM cells; 1 during a write cycle
  settled,             \* tasks whose delay outlasts the current write cycle
  clock,               \* registers of the clock chip, backed by a battery
  relay,               \* output of the relay pin
  clashes,             \* interrupted transfers so far, when they are bounded
  loss                 \* power failures so far

taskVars == <<op, ph, idx, todo, got>>
cmdVars  == <<cmd, ok, ack, hits>>
chipVars == <<eeprom, ebusy, settled, clock>>
vars == <<taskVars, stage, cmdVars, bus, chipVars, relay, clashes, loss>>
-----------------------------------------------------------------------------
(***************************************************************************)
(* Tasks.  ph is the driver call a task makes next; "delay" when it sleeps,  *)
(* "end" when its operations are done and its own code decides what follows, *)
(* "off" when it has finished with the bus for good.                        *)
(***************************************************************************)
First(o) == CASE o.k = "wait" -> "pause"
              [] o.k \in {"relay", "status"} -> "gpio"
              [] OTHER -> "start"

Blocked(t) == ph[t] \in {"delay", "off"}

\* t has the processor.
Running(t) == ~Blocked(t) /\ \A u \in Above(t) : Blocked(u)

\* t goes on with the operations s.
Follow(t, s) ==
  IF s = <<>>
  THEN /\ op' = [op EXCEPT ![t] = Delay]
       /\ ph' = [ph EXCEPT ![t] = "end"]
       /\ idx' = [idx EXCEPT ![t] = 1]
       /\ todo' = [todo EXCEPT ![t] = <<>>]
  ELSE /\ op' = [op EXCEPT ![t] = Head(s)]
       /\ ph' = [ph EXCEPT ![t] = First(Head(s))]
       /\ idx' = [idx EXCEPT ![t] = 1]
       /\ todo' = [todo EXCEPT ![t] = Tail(s)]

\* t goes on with call p of the same operation.
Goto(t, p) ==
  /\ ph' = [ph EXCEPT ![t] = p]
  /\ UNCHANGED <<op, todo>>
-----------------------------------------------------------------------------
(***************************************************************************)
(* The driver calls.                                                       *)
(***************************************************************************)
EepromOp(t) == op[t].k \in {"ew", "er"}

\* tls_i2c_write_byte(device address, 1).  A chip in its write cycle does not
\* answer, and tls_i2c_wait_ack then stops the transfer.
CallStart(t) ==
  /\ Running(t)
  /\ ph[t] \in {"start", "restart"}
  /\ LET reading == ph[t] = "restart"
     IN  /\ bus' = [bus EXCEPT
                      !.page = NoPage,
                      !.ph = IF EepromOp(t)
                             THEN CASE ebusy = 1 -> "idle"
                                    [] ebusy # 1 /\ reading -> "eread"
                                    [] OTHER -> "ehi"
                             ELSE IF reading THEN "cread" ELSE "cptr"]
         /\ Goto(t, CASE reading -> "read"
                      [] ~reading /\ EepromOp(t) -> "hi"
                      [] OTHER -> "ptr")
  /\ UNCHANGED <<idx, got, stage, cmdVars, chipVars, relay, clashes, loss>>

\* The clock takes a byte: the control registers guard the flag register.
Unlocked == clock[CTR1] = \h84 /\ clock[CTR2] = \h80
ClockTakes(r, b) ==
  clock' = IF r \in ClockRegs /\ (r = FlagReg => Unlocked)
           THEN [clock EXCEPT ![r] = b] ELSE clock

\* tls_i2c_write_byte(b, 0): the chip that listens takes b for what it expects;
\* when none does, tls_i2c_wait_ack stops the transfer.
SendByte(b) ==
  CASE bus.ph = "ehi" -> bus' = [bus EXCEPT !.ph = "elo", !.hi = b] /\ UNCHANGED clock
    [] bus.ph = "elo" -> bus' = [bus EXCEPT !.ph = "edata", !.eptr = bus.hi * 256 + b]
                         /\ UNCHANGED clock
    [] bus.ph = "edata" ->
         /\ bus' = [bus EXCEPT !.eptr = (@ + 1) % AddrSpan,
                               !.page = [a \in DOMAIN bus.page \cup {bus.eptr} |->
                                           IF a = bus.eptr THEN b ELSE bus.page[a]]]
         /\ UNCHANGED clock
    [] bus.ph = "cptr" -> bus' = [bus EXCEPT !.ph = "cdata", !.cptr = b] /\ UNCHANGED clock
    [] bus.ph = "cdata" -> bus' = [bus EXCEPT !.cptr = (@ + 1) % 256]
                           /\ ClockTakes(bus.cptr, b)
    [] OTHER -> bus' = [bus EXCEPT !.ph = "idle"] /\ UNCHANGED clock

CallByte(t) ==
  /\ Running(t)
  /\ \/ ph[t] = "hi" /\ SendByte(op[t].a \div 256) /\ Goto(t, "lo") /\ UNCHANGED idx
     \/ /\ ph[t] = "lo"
        /\ SendByte(op[t].a % 256)
        /\ Goto(t, IF op[t].k = "ew" THEN "data" ELSE "restart")
        /\ UNCHANGED idx
     \/ /\ ph[t] = "ptr"
        /\ SendByte(op[t].a)
        /\ Goto(t, IF op[t].k = "cw" THEN "data" ELSE "restart")
        /\ UNCHANGED idx
     \/ /\ ph[t] = "data"
        /\ SendByte(op[t].v[idx[t]])
        /\ Goto(t, IF idx[t] < Len(op[t].v) THEN "data" ELSE "stop")
        /\ idx' = [idx EXCEPT ![t] = @ + 1]
  /\ UNCHANGED <<got, stage, cmdVars, eeprom, ebusy, settled, relay, clashes, loss>>

\* tls_i2c_stop: the EEPROM programs the bytes it holds.
CallStop(t) ==
  /\ Running(t)
  /\ ph[t] = "stop"
  /\ bus' = [bus EXCEPT !.ph = "idle", !.page = NoPage]
  /\ IF bus.ph = "edata" /\ bus.page # NoPage
     THEN /\ eeprom' = [a \in Addrs |-> IF a \in DOMAIN bus.page THEN bus.page[a]
                                                                ELSE eeprom[a]]
          /\ ebusy' = 1
          /\ settled' = {}
     ELSE UNCHANGED <<eeprom, ebusy, settled>>
  /\ IF op[t].k = "ew" THEN Goto(t, "pause") /\ UNCHANGED idx ELSE Follow(t, todo[t])
  /\ UNCHANGED <<got, stage, cmdVars, clock, relay, clashes, loss>>

\* What tls_i2c_read_byte returns.
BusByte ==
  CASE bus.ph = "eread" -> IF bus.eptr \in Addrs THEN eeprom[bus.eptr] ELSE OpenBus
    [] bus.ph = "cread" -> IF bus.cptr \in ClockRegs THEN clock[bus.cptr] ELSE OpenBus
    [] OTHER -> OpenBus

\* The tasks whose further steps depend on the bytes they read.  The display
\* shows them, and what the calibration makes of them is left open (CalibBytes).
Keepers == {"rtc", "rcv"}

\* tls_i2c_read_byte; the last one of an operation sends STOP.  A byte read back
\* for comparison decides isOK, and && skips the comparisons after a failed one.
CallRead(t) ==
  /\ Running(t)
  /\ ph[t] = "read"
  /\ LET last == idx[t] = Len(op[t].v)
         want == op[t].v[idx[t]]
     IN  /\ bus' = [bus EXCEPT !.ph = IF last THEN "idle" ELSE @,
                               !.eptr = IF bus.ph = "eread" THEN (@ + 1) % AddrSpan ELSE @,
                               !.cptr = IF bus.ph = "cread" THEN (@ + 1) % 256 ELSE @]
         /\ got' = [got EXCEPT ![t] = IF want = AnyByte /\ t \in Keepers
                                     THEN Append(@, BusByte) ELSE @]
         /\ IF want # AnyByte /\ want # BusByte
            THEN ok' = 0 /\ Follow(t, <<>>)
            ELSE /\ IF last THEN Follow(t, todo[t])
                    ELSE Goto(t, "read") /\ idx' = [idx EXCEPT ![t] = @ + 1]
                 /\ UNCHANGED ok
  /\ UNCHANGED <<stage, cmd, ack, hits, chipVars, relay, clashes, loss>>

\* tls_os_time_delay: t sleeps, for longer than a write cycle that is running.
CallDelay(t) ==
  /\ Running(t)
  /\ ph[t] = "pause"
  /\ Goto(t, "delay")
  /\ settled' = IF ebusy = 1 THEN settled \cup {t} ELSE settled
  /\ UNCHANGED <<idx, got, stage, cmdVars, bus, eeprom, ebusy, clock, relay, clashes, loss>>

\* The relay: any value but 0 switches it on, its status is 0 or 1.
CallGpio(t) ==
  /\ Running(t)
  /\ ph[t] = "gpio"
  /\ LET b == op[t].v[1]
     IN  \/ /\ op[t].k = "relay"
            /\ relay' = IF b = 0 THEN 0 ELSE 1
            /\ UNCHANGED <<got, ok>>
         \/ /\ op[t].k = "status"
            /\ got' = [got EXCEPT ![t] = IF b = AnyByte THEN Append(@, relay) ELSE @]
            /\ ok' = IF b \in {AnyByte, relay} THEN ok ELSE 0
            /\ UNCHANGED relay
  /\ Follow(t, todo[t])
  /\ UNCHANGED <<stage, cmd, ack, hits, bus, chipVars, clashes, loss>>

\* tls_os_time_delay is over: t is ready, and preempts the tasks below it, which
\* may be in the middle of a transfer.
DelayOver(t) ==
  /\ ph[t] = "delay"
  /\ ~(ebusy = 1 /\ t \in settled)
  /\ Follow(t, todo[t])
  /\ hits' = IF t # "rcv" /\ cmd # NoCmd /\ hits < MaxHits THEN hits + 1 ELSE hits
  /\ settled' = settled \ {t}
  /\ IF bus.ph = "idle" \/ MaxClashes = Unbounded
     THEN UNCHANGED clashes
     ELSE clashes < MaxClashes /\ clashes' = clashes + 1
  /\ UNCHANGED <<got, stage, cmd, ok, ack, bus, eeprom, ebusy, clock, relay, loss>>

CycleOver ==
  /\ ebusy = 1
  /\ ebusy' = 0
  /\ settled' = {}
  /\ UNCHANGED <<taskVars, stage, cmdVars, bus, eeprom, clock, relay, clashes, loss>>
-----------------------------------------------------------------------------
(***************************************************************************)
(* What each task does between its operations.                             *)
(***************************************************************************)
\* t, at the end of its operations, goes on with s in stage p.
Begin(t, p, s) ==
  /\ Running(t)
  /\ ph[t] = "end"
  /\ stage' = [stage EXCEPT ![t] = p]
  /\ got' = [got EXCEPT ![t] = <<>>]
  /\ Follow(t, s)

\* RTCFlag_WriteDate: unlock, write, lock.
RTCFlag_WriteDate(b) ==
  <<ClockWrite(CTR2, <<\h80>>), ClockWrite(CTR1, <<\h84>>),
    ClockWrite(FlagReg, <<b>>), ClockWrite(CTR1, <<0, 0>>)>>
RTCFlag_ReadDate == ClockRead(FlagReg, 1)
RTC_ReadDate == ClockRead(0, TIME_LEN)

\* Save_time(sysTime) with the date just read; the 24-hour bit is masked.
SaveTimeOps(regs) ==
  LET sysTime == [regs EXCEPT ![HOUR] = @ % 128]
  IN  AT24CXX_Write(0, [i \in 1..TIME_LEN |-> sysTime[SaveOrder[i]]])

\* LCD_display: the date in the EEPROM is shown for a while (two delays), for
\* ever.
LcdNext ==
  /\ Begin("lcd", "show", AT24CXX_Read(0, TIME_LEN) \o <<Delay>>)
  /\ UNCHANGED <<cmdVars, bus, chipVars, relay, clashes, loss>>

\* exrtc_save: a clock without the flag gets the flag and then the initial date;
\* after that the date is copied to the EEPROM for ever.
RtcNext ==
  /\ \/ /\ stage["rtc"] = "reset"
        /\ Begin("rtc", "flag", <<RTCFlag_ReadDate>>)
     \/ /\ stage["rtc"] = "flag"
        /\ Begin("rtc", "boot",
                 IF got["rtc"] # <<FlagByte>>
                 THEN RTCFlag_WriteDate(FlagByte)
                      \o <<RTCFlag_ReadDate, RTC_WriteDate(TimeInit), RTC_ReadDate>>
                 ELSE <<RTCFlag_ReadDate, RTC_ReadDate>>)
     \/ /\ stage["rtc"] \in {"boot", "save"}
        /\ Begin("rtc", "loop", <<Delay, RTC_ReadDate>>)
     \/ /\ stage["rtc"] = "loop"
        /\ Begin("rtc", "save", SaveTimeOps(got["rtc"]) \o AT24CXX_Read(0, TIME_LEN))
  /\ UNCHANGED <<cmdVars, bus, chipVars, relay, clashes, loss>>

\* Uart1TaskProc: Meter_init (register writes over UART1 around the reading of
\* the calibration bytes), then CalibVoltage, which reads a register, stores a
\* new byte string at 0x14 and may ask for another round.
UartNext ==
  /\ \/ /\ stage["uart1"] \in {"reset", "stored"}
        /\ Begin("uart1", "init",
                 <<Delay>> \o AT24CXX_Read(\h10, CALIB_LEN) \o <<Delay>>)
     \/ /\ stage["uart1"] = "init"
        /\ \E b \in CalibBytes :
             Begin("uart1", "stored", AT24CXX_Write(\h14, [i \in 1..VOLT_LEN |-> b]))
     \/ /\ stage["uart1"] = "stored"
        /\ Running("uart1")
        /\ ph["uart1"] = "end"
        /\ ph' = [ph EXCEPT !["uart1"] = "off"]
        /\ UNCHANGED <<op, idx, todo, got, stage>>
  /\ UNCHANGED <<cmdVars, bus, chipVars, relay, clashes, loss>>

\* Data_Handle gets datagram d; the receive task has sent and cleared UDPAck.
RcvCommand(d) ==
  /\ Running("rcv")
  /\ ph["rcv"] = "end"
  /\ cmd = NoCmd
  /\ Accepts(d)
  /\ CommandOps(d) # <<>>
  /\ cmd' = d
  /\ ok' = 1
  /\ hits' = ebusy
  /\ ack' = <<>>
  /\ got' = [got EXCEPT !["rcv"] = <<>>]
  /\ Follow("rcv", CommandOps(d))
  /\ UNCHANGED <<stage, bus, chipVars, relay, clashes, loss>>

\* Faulty variant: a failed comparison is not answered.
RcvAnswer_OnlySuccess ==
  /\ Running("rcv")
  /\ ph["rcv"] = "end"
  /\ cmd # NoCmd
  /\ ok = 1
  /\ ack' = IF cmd[2] = Wflag THEN Write_Ack(cmd[3], ok)
                              ELSE Read_Ack(cmd[3], 1, got["rcv"])
  /\ cmd' = NoCmd
  /\ hits' = 0
  /\ got' = [got EXCEPT !["rcv"] = <<>>]
  /\ UNCHANGED <<ok, op, ph, idx, todo, stage, bus, chipVars, relay, clashes, loss>>

\* Write_Ack or Read_Ack.
RcvAnswer ==
  /\ Running("rcv")
  /\ ph["rcv"] = "end"
  /\ cmd # NoCmd
  /\ ack' = IF cmd[2] = Wflag THEN Write_Ack(cmd[3], ok)
                              ELSE Read_Ack(cmd[3], 1, got["rcv"])
  /\ cmd' = NoCmd
  /\ ok' = 1
  /\ hits' = 0
  /\ got' = [got EXCEPT !["rcv"] = <<>>]
  /\ UNCHANGED <<op, ph, idx, todo, stage, bus, chipVars, relay, clashes, loss>>

\* UserMain has created the tasks.
NoOps  == [t \in Tasks |-> Delay]
AtBoot == [t \in Tasks |-> IF t \in BusTasks THEN "end" ELSE "off"]
Empty  == [t \in Tasks |-> <<>>]
BusIdle == [ph |-> "idle", hi |-> 0, eptr |-> 0, cptr |-> 0,
            page |-> NoPage]

Init ==
  /\ op = NoOps
  /\ ph = AtBoot
  /\ idx = [t \in Tasks |-> 1]
  /\ todo = Empty
  /\ got = Empty
  /\ stage = [t \in Tasks |-> "reset"]
  /\ cmd = NoCmd
  /\ ok = 1
  /\ ack = <<>>
  /\ hits = 0
  /\ bus = BusIdle
  /\ eeprom = [a \in Addrs |-> 255]    \* a new EEPROM is erased
  /\ ebusy = 0
  /\ settled = {}
  /\ clock = [r \in ClockRegs |-> IF r \in {CTR1, CTR2} THEN 0 ELSE ClockReset]
  /\ relay = 0
  /\ clashes = 0
  /\ loss = 0

\* The supply fails and comes back: the chips keep what was programmed, the
\* rest is as after UserMain.
PowerLoss ==
  /\ loss < MaxLoss
  /\ loss' = loss + 1
  /\ op' = NoOps
  /\ ph' = AtBoot
  /\ idx' = [t \in Tasks |-> 1]
  /\ todo' = Empty
  /\ got' = Empty
  /\ stage' = [t \in Tasks |-> "reset"]
  /\ cmd' = NoCmd
  /\ ok' = 1
  /\ ack' = <<>>
  /\ hits' = 0
  /\ bus' = BusIdle
  /\ ebusy' = 0
  /\ settled' = {}
  /\ relay' = 0
  /\ UNCHANGED <<eeprom, clock, clashes>>

Step(t) ==
  \/ CallStart(t) \/ CallByte(t) \/ CallStop(t) \/ CallRead(t)
  \/ CallDelay(t) \/ CallGpio(t)

LcdStep  == Step("lcd") \/ LcdNext
RtcStep  == Step("rtc") \/ RtcNext
UartStep == Step("uart1") \/ UartNext
RcvStep  == Step("rcv") \/ RcvAnswer

Next ==
  \/ LcdStep
  \/ RtcStep
  \/ UartStep
  \/ RcvStep
  \/ \E d \in Datagrams : RcvCommand(d)
  \/ \E t \in Tasks : DelayOver(t)
  \/ CycleOver
  \/ PowerLoss

Spec == Init /\ [][Next]_vars

\* A task that is preempted again and again still runs whenever the tasks above
\* it sleep, and delays and write cycles end.
FairSpec ==
  /\ Spec
  /\ WF_vars(LcdStep)
  /\ SF_vars(RtcStep)
  /\ SF_vars(UartStep)
  /\ SF_vars(RcvStep)
  /\ \A t \in Tasks : WF_vars(DelayOver(t))
  /\ WF_vars(CycleOver)
-----------------------------------------------------------------------------
Op == [k : {"ew", "er", "cw", "cr", "wait", "relay", "status"}, a : Addr16,
       v : Seq(Byte \cup {AnyByte})]

Phases == {"start", "hi", "lo", "ptr", "data", "restart", "read", "stop", "gpio",
           "pause", "delay", "end", "off"}

StoreTypeOK ==
  /\ op \in [Tasks -> Op]
  /\ ph \in [Tasks -> Phases]
  /\ idx \in [Tasks -> Nat \ {0}]
  /\ todo \in [Tasks -> Seq(Op)]
  /\ got \in [Tasks -> Seq(Byte)]
  /\ stage \in [Tasks -> {"reset", "show", "flag", "boot", "loop", "save", "init", "stored"}]
  /\ cmd \in Datagrams \cup {NoCmd}
  /\ ok \in {0, 1}
  /\ ack \in Seq(Byte)
  /\ hits \in 0..MaxHits
  /\ bus.ph \in {"idle", "ehi", "elo", "edata", "eread", "cptr", "cdata", "cread"}
  /\ bus.hi \in Byte
  /\ bus.eptr \in Addr16
  /\ bus.cptr \in Byte
  /\ eeprom \in [Addrs -> Byte]
  /\ ebusy \in {0, 1}
  /\ settled \subseteq Tasks
  /\ clock \in [ClockRegs -> Byte]
  /\ relay \in {0, 1}
  /\ clashes = 0 \/ clashes \in 1..MaxClashes
  /\ loss \in 0..MaxLoss

\* Four tasks share a bus without a lock and interrupt each other between any two
\* driver calls, yet a cell of the EEPROM changes only when a task finishes
\* AT24CXX_WriteOneByte for that cell, and to the byte given there.
NoStrayWrite ==
  [][eeprom' # eeprom =>
       \E t \in Tasks :
         /\ Running(t)
         /\ op[t].k = "ew"
         /\ ph[t] = "stop"
         /\ eeprom' = [eeprom EXCEPT ![op[t].a] = op[t].v[1]]]_vars

\* A parameter command that reads its bytes back reports success only when they
\* are in the EEPROM, even if one disturbance (a preemption, or a write cycle
\* that was still running) hit the command.  Two can defeat the comparison.
VerifiedAck ==
  cmd # NoCmd /\ ph["rcv"] = "end" /\ cmd[2] = Wflag /\ IsParameter(cmd[3]) =>
    LET at == ParameterAt(cmd[3])
    IN  ok = 1 /\ hits <= 1 =>
          \A i \in 1..Len(at) : eeprom[at[i]] = Temp(cmd, i + 2)

\* A damaged datagram is never executed: the check byte covers every byte.
OnlyIntactCommands == cmd # NoCmd => cmd \in Sent

\* Every answer fits UDPAck and passes the test Data_Handle itself applies.
AckWellFormed == ack # <<>> => Len(ack) <= UDPACK_SIZE /\ Accepts(ack)

\* Every command is answered unless the supply fails, however often the other
\* tasks interrupt it.
CommandAnswered == cmd # NoCmd ~> cmd = NoCmd

\* The date is given to the clock as a whole: when a time command is about to be
\* answered, the clock holds all bytes of it or none.
TimeWriteWhole ==
  cmd # NoCmd /\ ph["rcv"] = "end" /\ cmd[2] = Wflag /\ cmd[3] = TimeAdd =>
    LET new == RTC_WriteDate(ClampedTime(cmd)).v
    IN  \/ \A i \in 1..TIME_LEN : clock[i - 1] = new[i]
        \/ \A i \in 1..TIME_LEN : clock[i - 1] # new[i]

\* Once exrtc_save copies dates to the EEPROM, the clock has been given a date.
ClockHasDate == stage["rtc"] = "save" => \E r \in TimeRegs : clock[r] # ClockReset

\* An energy register reported as cleared is zero.
ClearedMeansZero ==
  cmd # NoCmd /\ ph["rcv"] = "end" /\ cmd[2] = Wflag /\ cmd[3] \in EnergyAdds /\ ok = 1
  /\ hits = 0 =>
    \A i \in 0..(ENERGY_LEN - 1) : eeprom[EnergyAt(cmd[3]) + i] = 0
=============================================================================
