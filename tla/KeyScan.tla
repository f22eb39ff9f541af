------------------------------- MODULE KeyScan -------------------------------
(***************************************************************************)
(* The push button of the meter (Drivers/wm_wifi.c, KeyScanTimerProc).  A   *)
(* periodic timer samples one active-low GPIO.  A press shorter than        *)
(* KEY_LONG_COUNT sampling periods is reported with MSG_KEY when the button *)
(* is released, a longer one with MSG_ONESHOT while it is still held.       *)
(*                                                                         *)
(* The module owns the debouncing state only; where a message goes (the     *)
(* four-entry queue of the WiFi task) is the business of UdpLink, which     *)
(* instantiates this module.                                               *)
(***************************************************************************)
EXTENDS Integers, Sequences

CONSTANTS
  KEY_LONG_COUNT,  \* scans a key must stay pressed after the first one (10)
  MaxHold          \* bound on gsKeyCount, a u32 that no real press wraps

ASSUME KeyAssumption ==
  /\ KEY_LONG_COUNT \in Nat \ {0}
  /\ MaxHold \in Nat
  /\ KEY_LONG_COUNT <= MaxHold

VARIABLES
  gsKeyPreStatus,  \* level seen by the previous scan: 1 released, 0 pressed
  gsKeyCount,      \* scans since the press was first seen
  held,            \* history: consecutive scans that saw the button down
  sent             \* history: messages caused by the current or last press

keyVars == <<gsKeyPreStatus, gsKeyCount, held, sent>>

KeyTypeOK ==
  /\ gsKeyPreStatus \in {0, 1}
  /\ gsKeyCount \in 0..MaxHold
  /\ held \in 0..(MaxHold + 1)
  /\ sent \in Nat

KeyInit ==
  /\ gsKeyPreStatus = 1
  /\ gsKeyCount = 0
  /\ held = 0
  /\ sent = 0

\* Faulty variants of KeyMsgs, for testing the properties: a release always
\* reports; the count is compared before it is incremented; the release test is
\* one too strict.
KeyMsgs_AlwaysOnRelease(level) ==
  IF level = 0
  THEN IF gsKeyPreStatus = 0 /\ gsKeyCount + 1 = KEY_LONG_COUNT
       THEN <<"MSG_ONESHOT">> ELSE <<>>
  ELSE IF gsKeyPreStatus = 0 THEN <<"MSG_KEY">> ELSE <<>>

KeyMsgs_Late(level) ==
  IF level = 0
  THEN IF gsKeyPreStatus = 0 /\ gsKeyCount = KEY_LONG_COUNT
       THEN <<"MSG_ONESHOT">> ELSE <<>>
  ELSE IF gsKeyPreStatus = 0 /\ gsKeyCount < KEY_LONG_COUNT
       THEN <<"MSG_KEY">> ELSE <<>>

KeyMsgs_Strict(level) ==
  IF level = 0
  THEN IF gsKeyPreStatus = 0 /\ gsKeyCount + 1 = KEY_LONG_COUNT
       THEN <<"MSG_ONESHOT">> ELSE <<>>
  ELSE IF gsKeyPreStatus = 0 /\ gsKeyCount < KEY_LONG_COUNT - 1
       THEN <<"MSG_KEY">> ELSE <<>>

(***************************************************************************)
(* The messages a scan that samples `level` posts: none or one.            *)
(***************************************************************************)
KeyMsgs(level) ==
  IF level = 0
  THEN IF gsKeyPreStatus = 0 /\ gsKeyCount + 1 = KEY_LONG_COUNT
       THEN <<"MSG_ONESHOT">> ELSE <<>>
  ELSE IF gsKeyPreStatus = 0 /\ gsKeyCount < KEY_LONG_COUNT
       THEN <<"MSG_KEY">> ELSE <<>>

\* The scan that first sees the button down: only the level is remembered.
KeyDown ==
  /\ gsKeyPreStatus = 1
  /\ gsKeyPreStatus' = 0
  /\ held' = 1
  /\ sent' = 0
  /\ UNCHANGED gsKeyCount

\* Every further scan that sees it down counts, and one of them reports.
KeyHeld ==
  /\ gsKeyPreStatus = 0
  /\ gsKeyCount < MaxHold
  /\ gsKeyCount' = gsKeyCount + 1
  /\ held' = held + 1
  /\ sent' = sent + Len(KeyMsgs(0))
  /\ UNCHANGED gsKeyPreStatus

\* Faulty variant: the count is not reset.
KeyUp_NoReset ==
  /\ gsKeyPreStatus = 0
  /\ sent' = sent + Len(KeyMsgs(1))
  /\ gsKeyPreStatus' = 1
  /\ held' = 0
  /\ UNCHANGED gsKeyCount

\* The scan that sees it up again reports a short press and starts over.
KeyUp ==
  /\ gsKeyPreStatus = 0
  /\ sent' = sent + Len(KeyMsgs(1))
  /\ gsKeyCount' = 0
  /\ gsKeyPreStatus' = 1
  /\ held' = 0

KeyIdle ==
  /\ gsKeyPreStatus = 1
  /\ UNCHANGED keyVars

Scan(level) ==
  \/ level = 0 /\ (KeyDown \/ KeyHeld)
  \/ level = 1 /\ (KeyUp \/ KeyIdle)

KeyNext == \E level \in {0, 1} : Scan(level)

KeySpec == KeyInit /\ [][KeyNext]_keyVars
-----------------------------------------------------------------------------
\* A press causes at most one message, whatever its length: the long-press
\* report and the release report of KeyScanTimerProc exclude each other.
OneMessagePerPress == sent <= 1

\* The long-press report is made exactly when the button has been down for
\* KEY_LONG_COUNT periods, and once made it is the only report of that press.
LongPressReported ==
  gsKeyPreStatus = 0 => (sent = 1 <=> held > KEY_LONG_COUNT)

\* What relates the counters: the code's count is one less than the scans that
\* saw the press, and a message has been caused iff the count got there.
KeyInv ==
  /\ KeyTypeOK
  /\ gsKeyPreStatus = 1 => gsKeyCount = 0 /\ held = 0 /\ sent <= 1
  /\ gsKeyPreStatus = 0 => /\ held = gsKeyCount + 1
                           /\ gsKeyCount < KEY_LONG_COUNT => sent = 0
                           /\ gsKeyCount >= KEY_LONG_COUNT => sent = 1

\* No press is lost: when a scan sees the button released, the press that just
\* ended has been reported, by this scan or by an earlier one.
EveryPressReported ==
  [][gsKeyPreStatus = 0 /\ gsKeyPreStatus' = 1 => sent' = 1]_keyVars
=============================================================================
