----------------------------- MODULE MeterCommand -----------------------------
(***************************************************************************)
(* The command protocol of Drivers/wm_datahandle.c: which datagrams          *)
(* Data_Handle accepts, what Write_Meter and Read_Meter do for each device   *)
(* address, and the frames Write_Ack and Read_Ack answer with.  A command is *)
(* given as the sequence of device operations it performs; I2cStore executes *)
(* them one driver call at a time.                                          *)
(*                                                                         *)
(* Bytes are numbers in 0..255.  temp[k] of the C code is Temp(d, k).        *)
(***************************************************************************)
EXTENDS Integers, Sequences

CONSTANTS
  TIME_LEN,     \* bytes of a date (7)
  HOUR,         \* position of the hour in a Time_Def, counted from 1 (3)
  TimeLimits,   \* largest accepted byte of each position of a Time_Def
  TimeDefaults, \* what replaces a byte beyond its limit
  ENERGY_LEN,   \* bytes of an energy register (4)
  CLEAR_LEN,    \* bytes of all of them (48)
  Rom           \* Rom[i]: byte i of the memory at address 0, the vector table

Byte == 0..255

ASSUME CommandAssumption ==
  /\ TIME_LEN \in Nat \ {0}
  /\ HOUR \in 1..TIME_LEN
  /\ TimeLimits \in [1..TIME_LEN -> Byte]
  /\ TimeDefaults \in [1..TIME_LEN -> Byte]
  /\ ENERGY_LEN \in Nat \ {0}
  /\ CLEAR_LEN \in Nat \ {0}
  /\ Rom \in [1..CLEAR_LEN -> Byte]
  /\ ENERGY_LEN <= CLEAR_LEN

Wflag == \hAA
Rflag == \h55
HeadByte == \h5A
EndByte  == \hA5

\* Device addresses.  The second #define of NominalVoltage, a calibration
\* constant, is the one in force when wm_datahandle.c is compiled.
RelayAdd == \h01
TimeAdd  == \h02
EnergyAdds == \h03..\h0E   \* ActivePositiveAdd .. InstantPowerAdd
ClearAll == \h0F
ScreenTimeAdd == \h10
BillTimeAdd == \h11
NominalVoltage == 460541837  \* 0x1B734F8D
-----------------------------------------------------------------------------
\* The check byte of both directions: the complement of the sum, plus 0x33.
Check(bytes) ==
  LET sum[i \in 0..Len(bytes)] == IF i = 0 THEN 0 ELSE sum[i - 1] + bytes[i]
  IN  ((255 - (sum[Len(bytes)] % 256)) + \h33) % 256

\* Faulty variant: the check byte is not compared.
Accepts_NoCheck(d) ==
  LET n == Len(d) % 256
  IN  n >= 2 /\ d[1] = HeadByte /\ d[n] = EndByte

\* Data_Handle's test.  Its length parameter is a u8.  The code has no n >= 2: with
\* n = 0 (a datagram of 256 bytes) or 1 it compares bytes that lie before the buffer,
\* which are not modelled; such datagrams count as refused.
Accepts(d) ==
  LET n == Len(d) % 256
  IN  /\ n >= 2
      /\ d[1] = HeadByte
      /\ d[n] = EndByte
      /\ d[n - 1] = Check(SubSeq(d, 1, n - 2))

\* The receive buffer is cleared before every datagram.
Temp(d, k) == IF k < Len(d) THEN d[k + 1] ELSE 0

\* A date in a command, every byte beyond its limit replaced.
ClampedTime(d) ==
  [i \in 1..TIME_LEN |->
     IF Temp(d, i + 2) > TimeLimits[i] THEN TimeDefaults[i] ELSE Temp(d, i + 2)]
-----------------------------------------------------------------------------
(***************************************************************************)
(* Device operations: a byte written to the EEPROM, a byte read from it (to  *)
(* be compared with v when v is a byte), registers of the clock written or   *)
(* read, a pause, the relay.                                               *)
(***************************************************************************)
AnyByte == -1
AT24CXX_WriteOneByte(a, v) == [k |-> "ew", a |-> a, v |-> <<v>>]
AT24CXX_ReadOneByte(a, v)  == [k |-> "er", a |-> a, v |-> <<v>>]
ClockWrite(a, v) == [k |-> "cw", a |-> a, v |-> v]
ClockRead(a, n)  == [k |-> "cr", a |-> a, v |-> [i \in 1..n |-> AnyByte]]
Delay == [k |-> "wait", a |-> 0, v |-> <<>>]
UserRelayCtrl(v)  == [k |-> "relay", a |-> 0, v |-> <<v>>]
GetRelayStatus(v) == [k |-> "status", a |-> 0, v |-> <<v>>]

AT24CXX_Write(a, bytes) ==
  [i \in 1..Len(bytes) |-> AT24CXX_WriteOneByte(a + i - 1, bytes[i])]
AT24CXX_Read(a, n) == [i \in 1..n |-> AT24CXX_ReadOneByte(a + i - 1, AnyByte)]

\* The hour is stored with the 24-hour bit.
RTC_WriteDate(t) ==
  ClockWrite(0, [t EXCEPT ![HOUR] = (@ % 128) + 128])

\* The EEPROM address of an energy register; all of them start at EnergyBase.
EnergyBase == \h41
EnergyAt(add) == EnergyBase + 4 * (add - \h03)

\* Parameters that are read back: device address and the EEPROM addresses of
\* their bytes.
Parameters ==
  { <<ScreenTimeAdd, <<\h71>>>>, <<NominalVoltage, <<\h90, \h91>>>>,
    <<\hF0, <<\h92>>>>, <<\hF1, <<\h93>>>>, <<\hF2, <<\h94>>>>,
    <<\hF3, <<\h95>>>>, <<\hF7, <<\hA2, \hA3>>>>, <<\hFC, <<\hB2, \hB3>>>>,
    <<\hFD, <<\hB4>>>>, <<\hFE, <<\hB5>>>>, <<\hFF, <<\hB6, \hB7>>>> }

IsParameter(add) == \E p \in Parameters : p[1] = add
ParameterAt(add) == (CHOOSE p \in Parameters : p[1] = add)[2]

\* Faulty variant: nothing is read back.
ParameterOps_Unverified(d) ==
  LET at == ParameterAt(d[3])
  IN  [i \in 1..Len(at) |-> AT24CXX_WriteOneByte(at[i], Temp(d, i + 2))]

\* All bytes are written, then read back in the same order.
ParameterOps(d) ==
  LET at == ParameterAt(d[3])
  IN  [i \in 1..Len(at) |-> AT24CXX_WriteOneByte(at[i], Temp(d, i + 2))]
      \o [i \in 1..Len(at) |-> AT24CXX_ReadOneByte(at[i], Temp(d, i + 2))]

\* Write_Meter.  The energy registers are written from the NULL pointer.  An
\* address without a case does nothing and is not answered.
Write_Meter(d) ==
  LET add == d[3]
  IN  CASE add = RelayAdd -> <<UserRelayCtrl(Temp(d, 3)), Delay, GetRelayStatus(Temp(d, 3))>>
        [] add = TimeAdd -> <<RTC_WriteDate(ClampedTime(d))>>
        [] add \in EnergyAdds -> AT24CXX_Write(EnergyAt(add), SubSeq(Rom, 1, ENERGY_LEN))
        [] add = ClearAll -> AT24CXX_Write(EnergyBase, SubSeq(Rom, 1, CLEAR_LEN))
        [] add = BillTimeAdd -> AT24CXX_Write(\h72, ClampedTime(d))
        [] IsParameter(add) -> ParameterOps(d)
        [] OTHER -> <<>>

\* Read_Meter.
Read_Meter(d) ==
  LET add == d[3]
  IN  CASE add = RelayAdd -> <<GetRelayStatus(AnyByte)>>
        [] add = TimeAdd -> AT24CXX_Read(\h00, TIME_LEN)
        [] add \in EnergyAdds -> AT24CXX_Read(EnergyAt(add), ENERGY_LEN)
        [] add = ClearAll -> AT24CXX_Read(\h11, CLEAR_LEN)
        [] add = ScreenTimeAdd -> AT24CXX_Read(\h71, 1)
        [] add = BillTimeAdd -> AT24CXX_Read(\h72, TIME_LEN)
        [] add = \hFC -> AT24CXX_Read(\h69, ENERGY_LEN)
        [] add \in {\hFD, \hFE} -> AT24CXX_Read(\h65, ENERGY_LEN)
        [] OTHER -> <<>>

\* What an accepted datagram makes the meter do.
CommandOps(d) ==
  CASE d[2] = Wflag -> Write_Meter(d)
    [] d[2] = Rflag -> Read_Meter(d)
    [] OTHER -> <<>>
-----------------------------------------------------------------------------
Framed(bytes) == bytes \o <<Check(bytes), EndByte>>

\* Faulty variant: the check byte is not cut to a byte.
Write_Ack_NoWrap(add, isOK) ==
  LET head == <<HeadByte, Wflag, add, isOK>>
      sum  == head[1] + head[2] + head[3] + head[4]
  IN  head \o <<(255 - (sum % 256)) + \h33, EndByte>>

Write_Ack(add, isOK) == Framed(<<HeadByte, Wflag, add, isOK>>)

\* Faulty variant: the check byte covers the header only.
Read_Ack_HeaderOnly(add, isOK, data) ==
  LET head == <<HeadByte, Rflag, add, isOK>>
  IN  head \o data \o <<Check(head), EndByte>>

Read_Ack(add, isOK, data) == Framed(<<HeadByte, Rflag, add, isOK>> \o data)
=============================================================================
