----------------------------- MODULE FrontPanel -----------------------------
(***************************************************************************)
(* The front panel of the meter: the LCD, the WiFi icon on it and the push   *)
(* button (Drivers/wm_lcd.c, KeyScanTimerProc and the icon commands of       *)
(* WifiTaskProc in Drivers/wm_wifi.c).                                      *)
(*                                                                         *)
(* Three tasks write dispram and the display controller HT1622 without a     *)
(* lock.  The LCD task has the highest priority and shows a screen without   *)
(* blocking, so a screen is one action, but it may come between any two      *)
(* steps of the others.  The WiFi task preempts the timer callback.  Both    *)
(* write the icon, COM 1 of SEG 21, which also carries a part of a digit.    *)
(*                                                                         *)
(* The controller is reached over three pins: a transfer is 13 bits between  *)
(* a falling and a rising edge of CS.  A task that preempts a transfer       *)
(* pulls CS low when it is low already, so the controller takes its bits for  *)
(* the rest of the interrupted transfer; and what the preempted task still    *)
(* has to send finds CS high.  The controller is external.                   *)
(***************************************************************************)
EXTENDS KeyScan, FiniteSets

CONSTANTS
  BLINK_ON, BLINK_PERIOD,   \* blink[0] of UserLcdBlinkProc: 5 and 10 scans
  Times,           \* the bytes Read_time may give, by field
  MaxMsgs          \* bound on network messages between two screens

ASSUME PanelAssumption ==
  /\ BLINK_ON \in Nat
  /\ BLINK_PERIOD \in Nat
  /\ BLINK_ON <= BLINK_PERIOD
  /\ Times \subseteq [hour : 0..255, minute : 0..255, second : 0..255,
                      year : 0..255, month : 0..255, day : 0..255]
  /\ MaxMsgs \in Nat

VARIABLES
  dispram,         \* lit COMs of every SEG, as the program knows them
  panel,           \* lit COMs of every SEG, as the controller has them
  cs,              \* pin CS
  shift,           \* bits clocked in by the timer callback before the WiFi task
                   \* began a transfer in the middle of its own
  screen, time,    \* screen on display, and the time it was made from
  gsBlinkStatus, div_blink,
  pc, on, dat,     \* the two icon writers: step, dispON or dispOFF, the byte in
                   \* hand
  oneshot,         \* is MSG_ONESHOT waiting for the WiFi task?
  link,            \* history: 1 after MSG_NET_UP, 0 after MSG_NET_DOWN
  raced,           \* history: had a blink passed its test, and not yet stored,
                   \* when the last icon command began?
  msgs             \* network messages since the last screen

lcdVars == <<dispram, panel, cs, shift>>
vars == <<keyVars, lcdVars, screen, time, gsBlinkStatus, div_blink, pc, on, dat,
          oneshot, link, raced, msgs>>

Writers == {"wifi", "timer"}
COMs == 0..7
ICON_SEG == 21
ICON_COM == 1
-----------------------------------------------------------------------------
(***************************************************************************)
(* The controller.                                                         *)
(***************************************************************************)
\* Bit i of an address of six bits.
Bit(n, i) == (n \div <<1, 2, 4, 8, 16, 32>>[i + 1]) % 2

\* The bits of W1622_q(addr, nibble): the write code, six address bits, the
\* highest first, and four data bits, the lowest first.  coms is a whole byte; an
\* even address takes its lower half.
W1622_q(addr, coms) ==
  <<1, 0, 1>> \o [i \in 1..6 |-> Bit(addr, 6 - i)]
  \o [i \in 1..4 |-> IF 4 * (addr % 2) + i - 1 \in coms THEN 1 ELSE 0]

Addr(bits) == LET v[i \in 0..6] == IF i = 0 THEN 0 ELSE 2 * v[i - 1] + bits[3 + i]
              IN  v[6]

\* Four data bits for one address.  Segments that no screen uses are left out.
Latch(p, addr, four) ==
  LET seg  == addr \div 2
      base == 4 * (addr % 2)
  IN  IF seg \in DOMAIN p
      THEN [p EXCEPT ![seg] = (@ \ (base..(base + 3)))
                              \cup {base + i - 1 : i \in {j \in 1..4 : four[j] = 1}}]
      ELSE p

\* CS goes high: a write command has stored every complete group of four bits,
\* at consecutive addresses; any other code stores nothing.
Stored(p, bits) ==
  IF Len(bits) < 9 \/ SubSeq(bits, 1, 3) # <<1, 0, 1>> THEN p
  ELSE LET n == (Len(bits) - 9) \div 4
           q[i \in 0..n] ==
             IF i = 0 THEN p
             ELSE Latch(q[i - 1], (Addr(bits) + i - 1) % 64,
                        SubSeq(bits, 9 + 4 * i - 3, 9 + 4 * i))
       IN  q[n]
-----------------------------------------------------------------------------
(***************************************************************************)
(* Screens.                                                                *)
(***************************************************************************)
dispON(com, seg)  == <<[on |-> TRUE,  com |-> com, seg |-> seg]>>
dispOFF(com, seg) == <<[on |-> FALSE, com |-> com, seg |-> seg]>>

\* The two SEGs of digits 1 to 8, and the COMs of the seven bars of a digit: the
\* first three are on the first SEG.
Pins == << <<22, 23>>, <<20, 21>>, <<18, 19>>, <<16, 17>>, <<14, 15>>,
           <<7, 6>>, <<9, 8>>, <<11, 10>> >>
Bars == <<2, 3, 4, 5, 4, 2, 3>>

\* The bars that are lit for 0 to 15, and for 16, the hyphen.
Lit(num) ==
  << {1, 2, 3, 4, 5, 6}, {2, 3}, {1, 2, 4, 5, 7}, {1, 2, 3, 4, 7}, {2, 3, 6, 7},
     {1, 3, 4, 6, 7}, {1, 3, 4, 5, 6, 7}, {1, 2, 3}, {1, 2, 3, 4, 5, 6, 7},
     {1, 2, 3, 4, 6, 7}, {1, 2, 3, 5, 6, 7}, {3, 4, 5, 6, 7}, {1, 4, 5, 6},
     {2, 3, 4, 5, 7}, {1, 4, 5, 6, 7}, {1, 5, 6, 7}, {7} >>[num + 1]

BarOps(digit, lit) ==
  [i \in 1..7 |-> [on |-> i \in lit, com |-> Bars[i],
                   seg |-> Pins[digit][IF i <= 3 THEN 1 ELSE 2]]]

\* show1num to show8num.
shownum(digit, num) == BarOps(digit, Lit(num))

\* Faulty variant: digit 2 is forgotten.
showClrtime_Partial ==
  BarOps(1, {}) \o BarOps(3, {}) \o BarOps(4, {})
  \o BarOps(5, {}) \o BarOps(6, {}) \o BarOps(7, {}) \o BarOps(8, {})
  \o dispOFF(1, 16) \o dispOFF(1, 7) \o dispOFF(5, 16) \o dispOFF(5, 7)

showClrtime ==
  BarOps(1, {}) \o BarOps(2, {}) \o BarOps(3, {}) \o BarOps(4, {})
  \o BarOps(5, {}) \o BarOps(6, {}) \o BarOps(7, {}) \o BarOps(8, {})
  \o dispOFF(5, 22) \o dispOFF(5, 20) \o dispOFF(5, 18) \o dispOFF(5, 16)
  \o dispOFF(5, 14) \o dispOFF(5, 7) \o dispOFF(5, 9)
  \o dispOFF(1, 16) \o dispOFF(1, 7)

\* HexToDec: two decimal digits packed in a byte.  Bytes that are no such pair
\* give up to 165, which shows as the hyphen and a digit.
HexToDec(byte) == (byte \div 16) * 10 + (byte % 16)

Show_time(t) ==
  LET h == HexToDec(t.hour)
      m == HexToDec(t.minute)
      s == HexToDec(t.second)
  IN  dispON(1, 9) \o dispON(1, 10)        \* Show_time_flag
      \o showClrtime
      \o shownum(3, h \div 10) \o shownum(4, h % 10) \o dispON(1, 16) \o dispON(5, 16)
      \o shownum(5, m \div 10) \o shownum(6, m % 10) \o dispON(5, 7) \o dispON(1, 7)
      \o shownum(7, s \div 10) \o shownum(8, s % 10)

Show_date(t) ==
  LET y == HexToDec(t.year)
      m == HexToDec(t.month)
      d == HexToDec(t.day)
  IN  showClrtime
      \o shownum(1, y \div 10) \o shownum(2, y % 10) \o shownum(3, 16)
      \o shownum(4, m \div 10) \o shownum(5, m % 10) \o shownum(6, 16)
      \o shownum(7, d \div 10) \o shownum(8, d % 10)

\* The SEGs of the screens.
Used == {Pins[i][j] : i \in 1..8, j \in {1, 2}}

Screens == {"time", "date"}

Ops == [s \in Screens |-> [t \in Times |->
          IF s = "time" THEN Show_time(t) ELSE Show_date(t)]]

\* The cells a screen writes, with what the last dispON or dispOFF makes of them.
LastOp == [s \in Screens |-> [t \in Times |->
             LET ops == Ops[s][t]
             IN  [c \in {<<ops[i].seg, ops[i].com>> : i \in DOMAIN ops} |->
                    \E i \in DOMAIN ops :
                      /\ <<ops[i].seg, ops[i].com>> = c
                      /\ ops[i].on
                      /\ \A j \in (i + 1)..Len(ops) : <<ops[j].seg, ops[j].com>> # c]]]

\* The SEGs it writes after its first dispON or dispOFF.
Rewritten == [s \in Screens |-> [t \in Times |->
                {Ops[s][t][i].seg : i \in 2..Len(Ops[s][t])}]]

\* dispram after a screen: cells that it does not write stay as they are.
NewRam(last) ==
  [s \in Used |-> {c \in COMs : IF <<s, c>> \in DOMAIN last THEN last[<<s, c>>]
                                ELSE c \in dispram[s]}]

Transfer(x) == W1622_q(2 * ICON_SEG + (IF pc[x] = "lowbits" THEN 0 ELSE 1), dat[x])
Prefixes(x) == {SubSeq(Transfer(x), 1, n) : n \in 0..13}

\* What a task that preempts the others now finds clocked in: nothing while CS is
\* high, else a part of the transfer it interrupts.
Clocked ==
  CASE cs = 1 -> {<<>>}
    [] cs = 0 /\ pc["wifi"] \in {"lowbits", "highbits"} ->
         {shift \o bits : bits \in Prefixes("wifi")}
    [] OTHER -> Prefixes("timer")

\* The controller after op when bits were clocked in before its first transfer.
FirstOp(op, bits) ==
  LET byte == IF op.on THEN dispram[op.seg] \cup {op.com} ELSE dispram[op.seg] \ {op.com}
  IN  Stored(Stored(panel, bits \o W1622_q(2 * op.seg, byte)),
             W1622_q(2 * op.seg + 1, byte))

\* A screen, from its first dispON or dispOFF to its last.  Every one after the
\* first sends both halves of its SEG undisturbed, so the controller ends up
\* with the last byte of each SEG written by one of them.
Show(s, t) ==
  /\ screen' = s
  /\ dispram' = NewRam(LastOp[s][t])
  /\ \E p \in {FirstOp(Ops[s][t][1], bits) : bits \in Clocked} :
       panel' = [seg \in Used |->
                   IF seg \in Rewritten[s][t] THEN dispram'[seg] ELSE p[seg]]
  /\ cs' = 1
  /\ shift' = <<>>
  /\ msgs' = 0
  /\ UNCHANGED <<keyVars, gsBlinkStatus, div_blink, pc, on, dat, oneshot, link, raced>>

\* LCD_display: each delay ends at some time.
LcdTime ==
  /\ screen # "time"
  /\ time' \in Times
  /\ Show("time", time')

LcdDate ==
  /\ screen = "time"
  /\ UNCHANGED time
  /\ Show("date", time)
-----------------------------------------------------------------------------
(***************************************************************************)
(* dispON(1, 21) and dispOFF(1, 21) in the WiFi task and in the timer        *)
(* callback, which runs only while the WiFi task is blocked.                 *)
(***************************************************************************)
At(x, p) ==
  /\ pc[x] = p
  /\ x = "timer" => pc["wifi"] = "idle"

Goto(x, p) == pc' = [pc EXCEPT ![x] = p]

WriterOnly ==
  UNCHANGED <<keyVars, screen, time, gsBlinkStatus, div_blink, oneshot, link, raced,
              msgs>>

\* dispram[SEG] is loaded, changed and stored.
Load(x) ==
  /\ At(x, "load")
  /\ dat' = [dat EXCEPT ![x] = dispram[ICON_SEG]]
  /\ Goto(x, "store")
  /\ UNCHANGED <<lcdVars, on>>
  /\ WriterOnly

Store(x) ==
  /\ At(x, "store")
  /\ LET byte == IF on[x] THEN dat[x] \cup {ICON_COM} ELSE dat[x] \ {ICON_COM}
     IN  /\ dispram' = [dispram EXCEPT ![ICON_SEG] = byte]
         /\ dat' = [dat EXCEPT ![x] = byte]
  /\ Goto(x, "low")
  /\ UNCHANGED <<panel, cs, shift, on>>
  /\ WriterOnly

\* CS goes low, if it is not low already, and the bits begin to go out.  The
\* argument of W1622_byte is dispram[SEG] as it is now, or the value still in a
\* register; both halves are taken from it.
Begin(x) ==
  /\ \/ /\ At(x, "low")
        /\ \E byte \in {dat[x], dispram[ICON_SEG]} : dat' = [dat EXCEPT ![x] = byte]
        /\ Goto(x, "lowbits")
     \/ /\ At(x, "high")
        /\ Goto(x, "highbits")
        /\ UNCHANGED dat
  /\ shift' \in Clocked
  /\ cs' = 0
  /\ UNCHANGED <<dispram, panel, on>>
  /\ WriterOnly

\* All are out and CS goes high.
End(x) ==
  /\ At(x, "lowbits") \/ At(x, "highbits")
  /\ panel' = IF cs = 0 THEN Stored(panel, shift \o Transfer(x)) ELSE panel
  /\ cs' = 1
  /\ shift' = <<>>
  /\ \/ /\ pc[x] = "lowbits"
        /\ Goto(x, "high")
        /\ UNCHANGED <<on, dat>>
     \/ /\ pc[x] = "highbits"
        /\ Goto(x, "idle")
        /\ on' = [on EXCEPT ![x] = FALSE]
        /\ dat' = [dat EXCEPT ![x] = {}]
  /\ UNCHANGED dispram
  /\ WriterOnly

WriterStep == \E x \in Writers : Load(x) \/ Store(x) \/ Begin(x) \/ End(x)
-----------------------------------------------------------------------------
(***************************************************************************)
(* The callers.                                                            *)
(***************************************************************************)
\* KeyScanTimerProc samples the button and calls UserLcdBlinkProc.
TimerScan ==
  /\ At("timer", "idle")
  /\ \E level \in {0, 1} :
       /\ Scan(level)
       /\ oneshot' = (oneshot \/ KeyMsgs(level) = <<"MSG_ONESHOT">>)
  /\ Goto("timer", "check")
  /\ UNCHANGED <<lcdVars, screen, time, gsBlinkStatus, div_blink, on, dat, link,
                 raced, msgs>>

\* Faulty variant: the blink mode is not tested.
TimerCheck_Always ==
  /\ At("timer", "check")
  /\ Goto("timer", "blink")
  /\ UNCHANGED <<keyVars, lcdVars, screen, time, gsBlinkStatus, div_blink, on, dat,
                 oneshot, link, raced, msgs>>

TimerCheck ==
  /\ At("timer", "check")
  /\ Goto("timer", IF gsBlinkStatus = 0 THEN "idle" ELSE "blink")
  /\ UNCHANGED <<keyVars, lcdVars, screen, time, gsBlinkStatus, div_blink, on, dat,
                 oneshot, link, raced, msgs>>

\* Faulty variant: the divider is not reset.
TimerBlink_NoReset ==
  /\ At("timer", "blink")
  /\ div_blink' = div_blink + 1
  /\ on' = [on EXCEPT !["timer"] = div_blink + 1 <= BLINK_ON]
  /\ Goto("timer", IF div_blink + 1 <= BLINK_PERIOD THEN "load" ELSE "idle")
  /\ UNCHANGED <<keyVars, lcdVars, screen, time, gsBlinkStatus, dat, oneshot, link,
                 raced, msgs>>

\* The rest of UserLcdBlinkProc; gsBlinkStatus is 1 or, by now, 0, and both mean
\* mode 0.
TimerBlink ==
  /\ At("timer", "blink")
  /\ div_blink' = IF div_blink + 1 <= BLINK_PERIOD THEN div_blink + 1 ELSE 0
  /\ on' = [on EXCEPT !["timer"] = div_blink + 1 <= BLINK_ON]
  /\ Goto("timer", IF div_blink + 1 <= BLINK_PERIOD THEN "load" ELSE "idle")
  /\ UNCHANGED <<keyVars, lcdVars, screen, time, gsBlinkStatus, dat, oneshot, link,
                 raced, msgs>>

\* UserLcdCtrl(status) begins, in the WiFi task.
UserLcdCtrl(status) ==
  /\ pc["wifi"] = "idle"
  /\ msgs < MaxMsgs
  /\ msgs' = msgs + 1
  /\ on' = [on EXCEPT !["wifi"] = (status = 1)]
  /\ Goto("wifi", "load")
  /\ link' = status
  /\ raced' = (pc["timer"] \in {"blink", "load", "store"})
  /\ UNCHANGED <<keyVars, lcdVars, screen, time, div_blink, dat, oneshot>>

\* The icon commands of WifiTaskProc; UdpLink has the messages they belong to.
WifiNetUp   == UserLcdCtrl(1) /\ gsBlinkStatus' = 0
WifiNetDown == UserLcdCtrl(0) /\ UNCHANGED gsBlinkStatus

WifiOneshot ==
  /\ pc["wifi"] = "idle"
  /\ oneshot
  /\ oneshot' = FALSE
  /\ gsBlinkStatus' = 1
  /\ UNCHANGED <<keyVars, lcdVars, screen, time, div_blink, pc, on, dat, link, raced,
                 msgs>>

\* LCD_init has run.
Init ==
  /\ KeyInit
  /\ dispram = [s \in Used |-> {}]
  /\ panel = [s \in Used |-> {}]
  /\ cs = 1
  /\ shift = <<>>
  /\ screen = "none"
  /\ time \in Times      \* not read before it is written
  /\ gsBlinkStatus = 0
  /\ div_blink = 0
  /\ pc = [x \in Writers |-> "idle"]
  /\ on = [x \in Writers |-> FALSE]
  /\ dat = [x \in Writers |-> {}]
  /\ oneshot = FALSE
  /\ link = 0
  /\ raced = FALSE
  /\ msgs = 0

Next ==
  \/ LcdTime \/ LcdDate
  \/ WriterStep
  \/ TimerScan \/ TimerCheck \/ TimerBlink
  \/ WifiNetUp \/ WifiNetDown \/ WifiOneshot

Spec == Init /\ [][Next]_vars
-----------------------------------------------------------------------------
Steps == {"idle", "load", "store", "low", "lowbits", "high", "highbits"}

PanelTypeOK ==
  /\ dispram \in [Used -> SUBSET COMs]
  /\ panel \in [Used -> SUBSET COMs]
  /\ cs \in {0, 1}
  /\ shift \in Seq({0, 1})
  /\ screen \in Screens \cup {"none"}
  /\ time \in Times
  /\ gsBlinkStatus \in {0, 1}
  /\ div_blink \in 0..BLINK_PERIOD
  /\ pc["wifi"] \in Steps
  /\ pc["timer"] \in Steps \cup {"check", "blink"}
  /\ on \in [Writers -> BOOLEAN]
  /\ dat \in [Writers -> SUBSET COMs]
  /\ oneshot \in BOOLEAN
  /\ link \in {0, 1}
  /\ raced \in BOOLEAN
  /\ msgs \in 0..MaxMsgs

\* The bars of a digit as lit cells.
Cells(digit, num) == {<<Pins[digit][IF i <= 3 THEN 1 ELSE 2], Bars[i]>> : i \in Lit(num)}

\* The cells a screen is made of: eight digits and, for a time, two colons; the
\* two marks of Show_time_flag stay lit for good.
Face == [s \in Screens |-> [t \in Times |->
  LET H(x) == HexToDec(x) \div 10
      L(x) == HexToDec(x) % 10
  IN  {<<9, 1>>, <<10, 1>>} \cup
      IF s = "time"
      THEN Cells(3, H(t.hour)) \cup Cells(4, L(t.hour)) \cup {<<16, 1>>, <<16, 5>>}
           \cup Cells(5, H(t.minute)) \cup Cells(6, L(t.minute)) \cup {<<7, 1>>, <<7, 5>>}
           \cup Cells(7, H(t.second)) \cup Cells(8, L(t.second))
      ELSE Cells(1, H(t.year)) \cup Cells(2, L(t.year)) \cup Cells(3, 16)
           \cup Cells(4, H(t.month)) \cup Cells(5, L(t.month)) \cup Cells(6, 16)
           \cup Cells(7, H(t.day)) \cup Cells(8, L(t.day))]]

\* Whatever the icon writers have left half done - a byte of dispram overwritten
\* with an old one, a transfer cut anywhere, so that the screen's first transfer
\* goes to another address - a screen shows exactly its cells when it is
\* complete, and the icon as dispram has it.
ScreenComplete ==
  [][screen' # screen =>
       /\ (UNION {{<<s, c>> : c \in panel'[s]} : s \in Used}) \ {<<ICON_SEG, ICON_COM>>}
            = Face[screen'][time']
       /\ (ICON_COM \in panel'[ICON_SEG] <=> ICON_COM \in dispram'[ICON_SEG])]_vars

\* The icon, as dispram has it, tells whether the network is up once blinking is
\* over, with one exception: a blink that had passed its test of gsBlinkStatus and
\* had not stored its byte when the last network message came is stored after it
\* and undoes it.  Nothing else does, and the next message that finds no such
\* blink puts it right.
IconTellsLink ==
  /\ gsBlinkStatus = 0
  /\ ~raced
  /\ pc["wifi"] = "idle"
  => (link = 1 <=> ICON_COM \in dispram[ICON_SEG])
=============================================================================
