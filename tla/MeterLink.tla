------------------------------ MODULE MeterLink ------------------------------
(***************************************************************************)
(* The metering side of the meter: the task Uart1TaskProc, which programs    *)
(* and polls the V9261F metering chip over UART1 (Drivers/wm_meter.c,        *)
(* wm_uart1.c), the interrupt handler of the UART driver                     *)
(* (Platform/Drivers/uart/wm_uart.c) and the frame parser Uart1RxHandle,     *)
(* which that handler calls once per receive interrupt.                      *)
(*                                                                         *)
(* The task sends a command, sleeps for 20 ticks and then uses               *)
(* ReadRegBackBuf, whatever is in it.  20 ticks are 40 ms (HZ is 500); the    *)
(* two frames alone take 37 ms at 4800 baud, and the interrupt for a frame    *)
(* shorter than the FIFO level comes with the FIFO timeout only, so an        *)
(* answer may be late.  A parity or framing error raises an interrupt of its  *)
(* own, which throws away what the FIFO holds: the rest of the frame comes     *)
(* with the next one.  Faults names what the line may do.                    *)
(*                                                                         *)
(* The chip and the wire are external.  An answer carries the upper half of   *)
(* the register address at most, so the code cannot tell whose it is.        *)
(***************************************************************************)
EXTENDS Integers, Sequences

CONSTANTS
  WORD_BYTES,      \* bytes of a register (4)
  U32,             \* 2^32
  Standard,        \* StandardVoltage * 2093372, the reading for 220 V
  Measured,        \* readings AARTU may give
  ControlWrites,   \* MeterControlRegPara_init: registers and words, in order
  ErrorRegs,       \* MeterErrorRegPara_init: registers of the calibration words
  CalibInit,       \* calibration words in the EEPROM, in this order
  MC0Word,         \* the word Meter_init ends with
  ReadOrder,       \* ReadOrder[k]: which byte of a word, 1 being the lowest, the
                   \* compiled sum at wm_meter.c:302 loads as its k-th
  TLS_UART_RX_BUF_SIZE, RX_CACHE_LIMIT,    \* 4096 and 128
  Faults,          \* subset of {"lost", "late", "split", "parity"}
  MaxFaults,       \* bound on their number
  MaxRounds        \* bound on the rounds of the calibration loop

AARTU == \h11B
WARTU == \h132
MeterControlReg0Add == \h183
FE == \hFE
RacWrite == 2
RacRead  == 1

Word == 0..(U32 - 1)
Byte == 0..255
RegAddr == 0..(16 * 256 - 1)
FrameLen == WORD_BYTES + 4   \* 8: the size of ReadRegBackBuf

\* What the bytes of a word weigh, the lowest first.
Place[i \in 0..WORD_BYTES] == IF i = 0 THEN 1 ELSE 256 * Place[i - 1]

ASSUME MeterAssumption ==
  /\ WORD_BYTES \in Nat \ {0}
  /\ U32 = Place[WORD_BYTES]
  /\ Standard \in Word \ {0}
  /\ Measured \subseteq Word
  /\ ControlWrites \in Seq(RegAddr \X Word)
  /\ ErrorRegs \in Seq(RegAddr)
  /\ \E i \in 1..Len(ErrorRegs) : ErrorRegs[i] = WARTU
  /\ CalibInit \in [1..Len(ErrorRegs) -> Word]
  /\ MC0Word \in Word
  /\ RX_CACHE_LIMIT \in Nat
  /\ FrameLen <= RX_CACHE_LIMIT
  /\ TLS_UART_RX_BUF_SIZE \in Nat
  /\ 2 * RX_CACHE_LIMIT < TLS_UART_RX_BUF_SIZE
  /\ Faults \subseteq {"lost", "late", "split", "parity"}
  /\ MaxFaults \in Nat
  /\ MaxRounds \in Nat

\* Every byte is loaded once.
ASSUME ReadOrderAssumption ==
  /\ ReadOrder \in [1..WORD_BYTES -> 1..WORD_BYTES]
  /\ \A i, j \in 1..WORD_BYTES : ReadOrder[i] = ReadOrder[j] => i = j
  /\ \A m \in 1..WORD_BYTES : \E k \in 1..WORD_BYTES : ReadOrder[k] = m

VARIABLES
  phase,       \* "init" (Meter_init), "calib" (CalibVoltage), "metering"
  todo,        \* commands still to send, the first being the current one
  pc,          \* "send", "wait" (tls_os_time_delay) or "use"
  word,        \* bytes of ReadRegBackBuf loaded so far, in ReadOrder
  calib,       \* the calibration words in the EEPROM
  calib_para,  \* calib_para: the copy read by the last Meter_init
  chip,        \* registers of the chip that were written
  line,        \* answers on their way: what each coming interrupt will find
  ring,        \* recv of the UART port, between tail and head
  rx_len,      \* user_uart.rx_len; rx_buf holds FE and zeros when it is 1
  back,        \* ReadRegBackBuf
  asked,       \* history: the word the chip gave for this read, if it got out
               \* undamaged
  checked,     \* outcome of the last CheckRegDataWrited: register, word, 1 or 0
  accepted,    \* history: the word CalibVoltage accepted
  broken,      \* history: has an answer been cut where the parser cannot resume?
  faults,      \* faults so far
  rounds       \* rounds of the calibration loop so far

taskVars == <<phase, todo, pc, word, calib, calib_para, rounds>>
rxVars   == <<ring, rx_len, back>>
vars == <<taskVars, chip, line, rxVars, checked, asked, accepted, broken, faults>>

NoWord == -1
Zeros  == [i \in 1..FrameLen |-> 0]
-----------------------------------------------------------------------------
(***************************************************************************)
(* Frames.                                                                 *)
(***************************************************************************)
\* The check byte of both directions: the complement of the sum, plus 0x33.
Check(bytes) ==
  LET sum[i \in 0..Len(bytes)] == IF i = 0 THEN 0 ELSE sum[i - 1] + bytes[i]
  IN  ((255 - (sum[Len(bytes)] % 256)) + \h33) % 256

Framed(bytes) == Append(bytes, Check(bytes))

\* A word travels with its lowest byte first.
Bytes(w) == [i \in 1..WORD_BYTES |-> (w \div Place[i - 1]) % 256]

Header(reg, rac) == (reg \div 256) * 16 + rac

WriteCmd(reg, w) == [k |-> "write", reg |-> reg, data |-> w]
ReadCmd(reg, w)  == [k |-> "read", reg |-> reg, data |-> w]

\* WriteV9261fReg: the write command, then a read command whose answer is
\* compared with the word.
WriteV9261fReg(reg, w) == <<WriteCmd(reg, w), ReadCmd(reg, w)>>
\* ReadV9261fReg(AARTU), for ReadVoltage and CalibVoltage.
ReadAARTU == <<ReadCmd(AARTU, 0)>>

Writes(regs) ==   \* regs: a sequence of registers with their words
  [i \in 1..(2 * Len(regs)) |->
     LET r == regs[(i + 1) \div 2]
     IN  WriteV9261fReg(r[1], r[2])[IF i % 2 = 1 THEN 1 ELSE 2]]

\* Faulty variant: the control register is not written again at the end.
Meter_init_NoFinal(words) ==
  Writes(ControlWrites \o [i \in 1..Len(ErrorRegs) |-> <<ErrorRegs[i], words[i]>>])

\* The registers Meter_init writes, in order, with the words read from the EEPROM.
InitWrites(words) ==
  ControlWrites \o [i \in 1..Len(ErrorRegs) |-> <<ErrorRegs[i], words[i]>>]
  \o <<<<MeterControlReg0Add, MC0Word>>>>

Meter_init(words) == Writes(InitWrites(words))

Registers == {ControlWrites[i][1] : i \in 1..Len(ControlWrites)}
             \cup {ErrorRegs[i] : i \in 1..Len(ErrorRegs)} \cup {MeterControlReg0Add}

\* Meter_init does not write the register it reads the voltage from, and no
\* register twice in a row, not even when it is repeated; the word it ends with
\* begins with a higher byte than the standard.
ASSUME InitAssumption ==
  /\ AARTU \notin Registers
  /\ LET regs == InitWrites(CalibInit)
     IN  \A i \in 1..Len(regs) : regs[i][1] # regs[IF i = Len(regs) THEN 1 ELSE i + 1][1]
  /\ Standard \div Place[WORD_BYTES - 1] < MC0Word \div Place[WORD_BYTES - 1]
-----------------------------------------------------------------------------
(***************************************************************************)
(* The receive interrupt.                                                  *)
(***************************************************************************)
Rest(s, n) == SubSeq(s, n + 1, Len(s))

\* tls_uart_read returns all the bytes asked for or none.
Readable(s, n) == n >= 1 /\ Len(s) >= n
AfterRead(s, n) == IF Readable(s, n) THEN Rest(s, n) ELSE s

\* The first bytes of rx_buf as ReadRegBackBuf; what has not arrived is zero.
Padded(bytes) == [i \in 1..FrameLen |-> IF i <= Len(bytes) THEN bytes[i] ELSE 0]

\* Faulty variant: the check byte is not compared.
Saved_NoCheck(bytes, n, last, b) == Padded(bytes)

\* ReadRegBackBuf after the check of the first n bytes against the last one that
\* arrived.
Saved(bytes, n, last, b) ==
  IF last = Check(SubSeq(bytes, 1, n)) THEN Padded(bytes) ELSE b

\* The answer to a read command after FE and hdr: a count of words, the words and
\* the check byte.  When some of it has not arrived, the check runs on the zeros
\* rx_buf was cleared to, and the parser is back at the start of a frame.
ReadAnswer(s, hdr, b) ==
  CASE s = <<>> ->
         [ring |-> s, rx_len |-> 0, back |-> Saved(<<FE, hdr>>, 2, hdr, b)]
    [] s # <<>> /\ ~Readable(Tail(s), WORD_BYTES * s[1] + 1) ->
         [ring |-> Tail(s), rx_len |-> 0,
          back |-> IF s[1] > 1 THEN b ELSE Saved(<<FE, hdr, s[1]>>, 3, s[1], b)]
    [] s # <<>> /\ Readable(Tail(s), WORD_BYTES * s[1] + 1) ->
         [ring |-> Rest(s, WORD_BYTES * s[1] + 2), rx_len |-> 0,
          back |-> IF s[1] > 1 THEN b
                   ELSE Saved(<<FE, hdr>> \o SubSeq(s, 1, WORD_BYTES * s[1] + 2),
                              WORD_BYTES * s[1] + 3, s[WORD_BYTES * s[1] + 2], b)]

\* Faulty variant: the answer to a write command is taken to be one byte shorter.
Answered_Short(s, b) ==
  CASE s = <<>> -> [ring |-> s, rx_len |-> 1, back |-> b]
    [] s # <<>> /\ s[1] % 16 = RacWrite ->
         [ring |-> AfterRead(Tail(s), 1), rx_len |-> 0, back |-> b]
    [] s # <<>> /\ s[1] % 16 = RacRead -> ReadAnswer(Tail(s), s[1], b)
    [] OTHER -> [ring |-> Tail(s), rx_len |-> 2, back |-> b]

\* The header; its lower half (WR_flag) tells what follows.  With any other value
\* rx_len stays 2, and since WR_flag is forgotten between calls, for good.
Answered(s, b) ==
  CASE s = <<>> -> [ring |-> s, rx_len |-> 1, back |-> b]
    [] s # <<>> /\ s[1] % 16 = RacWrite ->
         [ring |-> AfterRead(Tail(s), 2), rx_len |-> 0, back |-> b]
    [] s # <<>> /\ s[1] % 16 = RacRead -> ReadAnswer(Tail(s), s[1], b)
    [] OTHER -> [ring |-> Tail(s), rx_len |-> 2, back |-> b]

\* Uart1RxHandle looks for FE in one byte per call and goes on at once.
Uart1RxHandle(s, n, b) ==
  CASE n = 0 /\ s # <<>> /\ s[1] = FE -> Answered(Tail(s), b)
    [] n = 0 /\ (s = <<>> \/ s[1] # FE) ->
         [ring |-> AfterRead(s, 1), rx_len |-> 0, back |-> b]
    [] n = 1 -> Answered(s, b)
    [] OTHER -> [ring |-> s, rx_len |-> n, back |-> b]

\* Faulty variant: room is made only when the buffer is full.
MakeRoom_Late(s) ==
  IF TLS_UART_RX_BUF_SIZE - 1 - Len(s) <= 0 THEN Rest(s, RX_CACHE_LIMIT) ELSE s

\* A ring that is nearly full loses its oldest bytes.
MakeRoom(s) ==
  IF TLS_UART_RX_BUF_SIZE - 1 - Len(s) <= RX_CACHE_LIMIT
  THEN Rest(s, RX_CACHE_LIMIT) ELSE s

\* UART1_IRQHandler: the FIFO goes into the ring, or nowhere when the interrupt
\* reports an error; the callback runs once in either case.
UART1_IRQHandler ==
  /\ line # <<>>
  /\ line' = Tail(line)
  /\ \E got \in {MakeRoom(ring) \o (IF Head(line).err THEN <<>> ELSE Head(line).bytes)} :
       \E rx \in {Uart1RxHandle(got, rx_len, back)} :
         ring' = rx.ring /\ rx_len' = rx.rx_len /\ back' = rx.back
  /\ UNCHANGED <<taskVars, chip, checked, asked, accepted, broken, faults>>
-----------------------------------------------------------------------------
(***************************************************************************)
(* The chip and the wire.                                                  *)
(***************************************************************************)
\* What the chip answers to c when its register gives w.
Answer(c, w) ==
  IF c.k = "write"
  THEN Framed(<<FE, Header(c.reg, RacWrite), c.reg % 256>>)
  ELSE Framed(<<FE, Header(c.reg, RacRead), 1>> \o Bytes(w))

Whole(f) == <<[bytes |-> f, err |-> FALSE]>>

\* f in two interrupts, the first with n bytes.
Cut(f, n, bad) ==
  <<[bytes |-> SubSeq(f, 1, n), err |-> bad]>>
  \o (IF n < Len(f) THEN Whole(Rest(f, n)) ELSE <<>>)

\* What a read of reg gives.
Reading(reg) == IF reg = AARTU THEN Measured ELSE {chip[reg]}

\* The command of c is executed or not and its answer is delivered as chunks.
Exchange(c, done, chunks) ==
  /\ line' = line \o chunks
  /\ chip' = IF done /\ c.k = "write" THEN [chip EXCEPT ![c.reg] = c.data] ELSE chip

\* tls_uart_write(UART1, command).
Send ==
  /\ pc = "send"
  /\ pc' = "wait"
  /\ LET c == Head(todo)
     IN  \E w \in Reading(c.reg) :
           LET f == Answer(c, w)
           IN  \/ /\ Exchange(c, TRUE, Whole(f))
                  /\ asked' = w
                  /\ UNCHANGED <<faults, broken>>
               \/ /\ "lost" \in Faults
                  /\ faults < MaxFaults
                  /\ faults' = faults + 1
                  /\ \E done \in BOOLEAN : Exchange(c, done, <<>>)
                  /\ asked' = NoWord
                  /\ UNCHANGED broken
               \/ /\ "split" \in Faults
                  /\ faults < MaxFaults
                  /\ faults' = faults + 1
                  /\ \E n \in 1..(Len(f) - 1) :
                       /\ Exchange(c, TRUE, Cut(f, n, FALSE))
                       /\ broken' = (broken \/ n > 1)
                  /\ asked' = w
               \/ /\ "parity" \in Faults
                  /\ faults < MaxFaults
                  /\ faults' = faults + 1
                  /\ \E n \in 1..Len(f) :
                       /\ Exchange(c, TRUE, Cut(f, n, TRUE))
                       /\ broken' = (broken \/ n < Len(f))
                  /\ asked' = NoWord
  /\ UNCHANGED <<phase, todo, word, calib, calib_para, rounds, rxVars, checked, accepted>>
-----------------------------------------------------------------------------
(***************************************************************************)
(* The task.                                                               *)
(***************************************************************************)
\* Faulty variant: only the lowest byte is compared.
CheckRegDataWrited_OneByte(c) ==
  checked' = IF phase = "init" /\ c.k = "read"
             THEN [reg |-> c.reg, data |-> c.data,
                   ok |-> IF back[4] = Bytes(c.data)[1] THEN 1 ELSE 0]
             ELSE checked

\* CheckRegDataWrited: its result is printed and has no other effect.
CheckRegDataWrited(c) ==
  checked' = IF phase = "init" /\ c.k = "read"
             THEN [reg |-> c.reg, data |-> c.data,
                   ok |-> IF SubSeq(back, 4, 3 + WORD_BYTES) = Bytes(c.data)
                          THEN 1 ELSE 0]
             ELSE checked

\* tls_os_time_delay(20) is over, in time or not.
DelayOver ==
  /\ pc = "wait"
  /\ \/ line = <<>> /\ UNCHANGED <<asked, faults>>
     \/ /\ line # <<>>
        /\ "late" \in Faults
        /\ faults < MaxFaults
        /\ faults' = faults + 1
        /\ asked' = NoWord
  /\ \/ /\ Len(todo) > 1
        /\ todo' = Tail(todo)
        /\ pc' = "send"
        /\ UNCHANGED phase
     \/ /\ Len(todo) = 1
        /\ phase = "init"
        /\ phase' = "calib"
        /\ todo' = ReadAARTU
        /\ pc' = "send"
     \/ /\ Len(todo) = 1
        /\ phase # "init"
        /\ pc' = "use"
        /\ UNCHANGED <<phase, todo>>
  /\ CheckRegDataWrited(Head(todo))
  /\ UNCHANGED <<word, calib, calib_para, rounds, chip, line, rxVars, accepted, broken>>

\* MeterVoltage[6], [5], [4], [3] are operands of one sum, loaded one after the
\* other in an order C leaves to the compiler; a late answer may come in between.
UseByte ==
  /\ pc = "use"
  /\ Len(word) < WORD_BYTES
  /\ word' = Append(word, back[3 + ReadOrder[Len(word) + 1]])
  /\ UNCHANGED <<phase, todo, pc, calib, calib_para, rounds, chip, line, rxVars,
                 checked, asked, accepted, broken, faults>>

\* The word whose bytes are given, the highest first.
Value(bytes) ==
  LET val[i \in 0..Len(bytes)] == IF i = 0 THEN 0 ELSE 256 * val[i - 1] + bytes[i]
  IN  val[Len(bytes)]

\* The bytes of the sum by their weight, the highest first.
ReadAt(m) == CHOOSE k \in 1..WORD_BYTES : ReadOrder[k] = m
Assembled(bytes) == [i \in 1..WORD_BYTES |-> bytes[ReadAt(WORD_BYTES + 1 - i)]]

\* Faulty variant: the difference is taken the other way round.
Precise_Swapped(voltage) == ((voltage - Standard) % U32) \div Standard = 0

\* err / standardvoltage is a division of unsigned integers, and only its result
\* is converted to float: the test for less than 0.01 is a test for 0.
Precise(voltage) == ((Standard - voltage) % U32) \div Standard = 0

WARTUIndex == CHOOSE i \in 1..Len(ErrorRegs) : ErrorRegs[i] = WARTU

\* Faulty variant: the sum is not cut to 32 bits.
ErrRAM_NoWrap(voltage) == Standard - voltage + calib_para[WARTUIndex]

\* The word CalibVoltage stores at 0x14.
ErrRAM(voltage) == (Standard - voltage + calib_para[WARTUIndex]) % U32

\* The rest of CalibVoltage stores the corrected word before it decides; then
\* Uart1TaskProc starts over or goes on.
Calibrated ==
  /\ pc = "use"
  /\ phase = "calib"
  /\ Len(word) = WORD_BYTES
  /\ LET voltage == Value(Assembled(word))
         stored  == [calib EXCEPT ![WARTUIndex] = ErrRAM(voltage)]
     IN  /\ calib' = stored
         /\ \/ /\ Precise(voltage)
               /\ phase' = "metering"
               /\ todo' = ReadAARTU
               /\ accepted' = voltage
               /\ UNCHANGED <<calib_para, rounds>>
            \/ /\ ~Precise(voltage)
               /\ rounds < MaxRounds
               /\ rounds' = rounds + 1
               /\ phase' = "init"
               /\ calib_para' = stored
               /\ todo' = Meter_init(stored)
               /\ UNCHANGED accepted
  /\ pc' = "send"
  /\ word' = <<>>
  /\ UNCHANGED <<chip, line, rxVars, checked, asked, broken, faults>>

\* The rest of ReadVoltage prints the value; the loop of Uart1TaskProc goes on.
Metered ==
  /\ pc = "use"
  /\ phase = "metering"
  /\ Len(word) = WORD_BYTES
  /\ word' = <<>>
  /\ pc' = "send"
  /\ UNCHANGED <<phase, todo, calib, calib_para, rounds, chip, line, rxVars, checked,
                 asked, accepted, broken, faults>>

TaskStep == Send \/ DelayOver \/ UseByte \/ Calibrated \/ Metered

\* Uart1Init has run and Meter_init has read the EEPROM.
Init ==
  /\ phase = "init"
  /\ calib = CalibInit
  /\ calib_para = CalibInit
  /\ todo = Meter_init(CalibInit)
  /\ pc = "send"
  /\ word = <<>>
  /\ chip = [r \in Registers |-> 0]
  /\ line = <<>>
  /\ ring = <<>>
  /\ rx_len = 0
  /\ back = Zeros
  /\ checked = [reg |-> 0, data |-> 0, ok |-> 0]
  /\ asked = NoWord
  /\ accepted = NoWord
  /\ broken = FALSE
  /\ faults = 0
  /\ rounds = 0

\* The bound on the rounds is reached.
Bounded == rounds = MaxRounds /\ UNCHANGED vars

Next == TaskStep \/ UART1_IRQHandler \/ Bounded

Spec == Init /\ [][Next]_vars

\* The task sleeps for bounded times and is never blocked; the interrupt is
\* taken as soon as it is raised.
FairSpec == Spec /\ WF_vars(TaskStep) /\ WF_vars(UART1_IRQHandler)
-----------------------------------------------------------------------------
Commands == [k : {"write", "read"}, reg : Registers \cup {AARTU}, data : Word]
Chunks   == [bytes : Seq(Byte), err : BOOLEAN]

MeterTypeOK ==
  /\ phase \in {"init", "calib", "metering"}
  /\ todo \in Seq(Commands)
  /\ todo # <<>>
  /\ pc \in {"send", "wait", "use"}
  /\ word \in Seq(Byte)
  /\ Len(word) <= WORD_BYTES
  /\ calib \in [1..Len(ErrorRegs) -> Word]
  /\ calib_para \in [1..Len(ErrorRegs) -> Word]
  /\ chip \in [Registers -> Word]
  /\ line \in Seq(Chunks)
  /\ ring \in Seq(Byte)
  /\ rx_len \in 0..2
  /\ back \in [1..FrameLen -> Byte]
  /\ checked \in [reg : Registers \cup {0}, data : Word, ok : {0, 1}]
  /\ asked \in NoWord..(U32 - 1)
  /\ accepted \in NoWord..(U32 - 1)
  /\ broken \in BOOLEAN
  /\ faults \in 0..MaxFaults
  /\ rounds \in 0..MaxRounds

\* The head of the ring never catches up with its tail, not even when the parser
\* has stopped reading for good: recv is never taken for empty while it is full.
RingBounded == Len(ring) < TLS_UART_RX_BUF_SIZE

\* ReadRegBackBuf never holds a part of an answer: whatever pieces the frames
\* arrive in, it is as after the start, or a frame with its own check byte, or a
\* complete answer without a word.
BackBufIntact ==
  \/ back = Zeros
  \/ back[3] = 0
  \/ back[FrameLen] = Check(SubSeq(back, 1, FrameLen - 1))

\* When the delay after a read command is over and the answer got out undamaged
\* and in time, ReadRegBackBuf holds it.
AnswerProcessed ==
  pc = "use" /\ word = <<>> /\ asked # NoWord =>
    SubSeq(back, 4, 3 + WORD_BYTES) = Bytes(asked)

\* That much is true as long as every frame comes in one interrupt, or is cut
\* after its first byte: lost and late answers leave the parser at the start of
\* a frame.
WholeAnswerProcessed == ~broken => AnswerProcessed

\* CheckRegDataWrited does not compare addresses, so it may compare with the
\* answer for another register.  Still, after at most one fault on the line a
\* word reported as written is in its register.
VerifiedWrite ==
  checked.ok = 1 /\ faults <= 1 => chip[checked.reg] = checked.data

\* One lost or late answer makes CalibVoltage work on a stale word, but never
\* makes it accept one: that word is the one Meter_init ends with, which is
\* above the standard.  An answer that comes while the word is read mixes the two,
\* and the highest byte decides; so this needs a build that loads it first.
AcceptedIsReading ==
  ReadOrder[1] = WORD_BYTES =>
    (accepted # NoWord /\ ~broken /\ faults <= 1 => accepted \in Measured)

\* Calibration comes to an end, whatever answers are lost or late, when the
\* readings it gets are above 0 and not above the standard.  A reading of 0 is as
\* far off as the standard itself, err / standardvoltage is 1 and Meter_init runs
\* again, for as long as the reading stays.
MeteringStarts ==
  [](phase = "calib" /\ pc = "use" /\ asked # NoWord => asked \in 1..Standard)
    => <>(phase = "metering" \/ broken)
=============================================================================
