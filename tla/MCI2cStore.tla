------------------------------ MODULE MCI2cStore ------------------------------
(* Finite instances of I2cStore: dates of one or two bytes, energy registers *)
(* of one byte.                                                             *)
EXTENDS I2cStore

\* Memory at address 0: the low bytes of an initial stack pointer in RAM.
MCRom == <<\h80, \h12>>
MCTimeLimits   == <<\h59, \h23>>
MCTimeDefaults == <<0, 0>>
MCSaveOrder == <<2, 1>>
MCTimeInit  == <<0, \h12>>

\* Dates of the hour alone.
HourLimits   == <<\h23>>
HourDefaults == <<0>>
HourOrder    == <<1>>
HourInit     == <<\h12>>

Frame(wr, add, data) == Framed(<<HeadByte, wr, add>> \o data)

WriteScreenTime == Frame(Wflag, ScreenTimeAdd, <<\h12>>)
WritePulseConst == Frame(Wflag, \hF7, <<\h12, 0>>)
ReadBillTime    == Frame(Rflag, BillTimeAdd, <<0>>)
WriteTime       == Frame(Wflag, TimeAdd, <<\h30, \h15>>)
ClearEnergy     == Frame(Wflag, \h03, <<0>>)
SwitchRelay     == Frame(Wflag, RelayAdd, <<1>>)

SafetySent  == {WritePulseConst, ReadBillTime, SwitchRelay}
SafetyAddrs == {0, 1, \h72, \h73, \hA2, \hA3}

\* The areas of the time, of the calibration bytes and of the screen time.
ScreenSent   == {WriteScreenTime}
ServiceAddrs == {0, \h10, \h14, \h71}

TimeSent  == {WriteTime}
ClearSent == {ClearEnergy}
EnergyAddrs == {0, 1, \h41}
=============================================================================
