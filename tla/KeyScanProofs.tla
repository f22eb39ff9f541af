---------------------------- MODULE KeyScanProofs ----------------------------
(* Proofs about KeyScan, for every KEY_LONG_COUNT and every bound MaxHold. *)
EXTENDS KeyScan, TLAPS

\* The inductive invariant holds when the timer starts.
LEMMA KeyInitInv == KeyInit => KeyInv
BY KeyAssumption DEF KeyInit, KeyInv, KeyTypeOK

\* Every scan preserves it, one case per branch of KeyScanTimerProc.
LEMMA KeyStepInv == KeyInv /\ [KeyNext]_keyVars => KeyInv'
<1> SUFFICES ASSUME KeyInv, [KeyNext]_keyVars PROVE KeyInv'
  OBVIOUS
<1> USE KeyAssumption DEF KeyInv, KeyTypeOK
<1>1. CASE KeyDown
  BY <1>1 DEF KeyDown
<1>2. CASE KeyHeld
  <2>1. CASE gsKeyCount + 1 = KEY_LONG_COUNT
    <3>1. Len(KeyMsgs(0)) = 1
      BY <1>2, <2>1 DEF KeyHeld, KeyMsgs
    <3>2. sent = 0
      BY <1>2, <2>1 DEF KeyHeld
    <3>3. sent' = 1
      BY <1>2, <3>1, <3>2 DEF KeyHeld
    <3>4. gsKeyCount' = KEY_LONG_COUNT /\ held' = held + 1 /\ gsKeyPreStatus' = 0
      BY <1>2, <2>1 DEF KeyHeld
    <3> QED BY <1>2, <2>1, <3>3, <3>4 DEF KeyHeld
  <2>2. CASE gsKeyCount + 1 # KEY_LONG_COUNT
    <3>1. Len(KeyMsgs(0)) = 0
      BY <1>2, <2>2 DEF KeyHeld, KeyMsgs
    <3> QED BY <1>2, <2>2, <3>1 DEF KeyHeld
  <2> QED BY <2>1, <2>2
<1>3. CASE KeyUp
  <2>1. CASE gsKeyCount < KEY_LONG_COUNT
    <3>1. Len(KeyMsgs(1)) = 1
      BY <1>3, <2>1 DEF KeyUp, KeyMsgs
    <3> QED BY <1>3, <2>1, <3>1 DEF KeyUp
  <2>2. CASE ~(gsKeyCount < KEY_LONG_COUNT)
    <3>1. Len(KeyMsgs(1)) = 0
      BY <1>3, <2>2 DEF KeyUp, KeyMsgs
    <3> QED BY <1>3, <2>2, <3>1 DEF KeyUp
  <2> QED BY <2>1, <2>2
<1>4. CASE KeyIdle
  BY <1>4 DEF KeyIdle, keyVars
<1>5. CASE UNCHANGED keyVars
  BY <1>5 DEF keyVars
<1> QED BY <1>1, <1>2, <1>3, <1>4, <1>5 DEF KeyNext, Scan

\* KeyScanTimerProc keeps its counters consistent for ever.
THEOREM KeyInvariant == KeySpec => []KeyInv
BY KeyInitInv, KeyStepInv, PTL DEF KeySpec

\* A press of the button causes at most one message.
THEOREM KeyOneMessage == KeySpec => []OneMessagePerPress
<1>1. KeyInv => OneMessagePerPress
  BY KeyAssumption DEF KeyInv, KeyTypeOK, OneMessagePerPress
<1> QED BY <1>1, KeyInvariant, PTL

\* The long-press message belongs exactly to the presses of the full length.
THEOREM KeyLongPress == KeySpec => []LongPressReported
<1>1. KeyInv => LongPressReported
  BY KeyAssumption DEF KeyInv, KeyTypeOK, LongPressReported
<1> QED BY <1>1, KeyInvariant, PTL

\* Every press has been reported by the time the button is seen released.
THEOREM KeyNoPressLost == KeySpec => EveryPressReported
<1>1. KeyInv /\ [KeyNext]_keyVars
        => [gsKeyPreStatus = 0 /\ gsKeyPreStatus' = 1 => sent' = 1]_keyVars
  <2> SUFFICES ASSUME KeyInv, KeyNext, gsKeyPreStatus = 0, gsKeyPreStatus' = 1
               PROVE  sent' = 1
    OBVIOUS
  <2> USE KeyAssumption DEF KeyInv, KeyTypeOK
  <2>1. KeyUp
    BY DEF KeyNext, Scan, KeyDown, KeyHeld, KeyUp, KeyIdle
  <2>2. CASE gsKeyCount < KEY_LONG_COUNT
    <3>1. Len(KeyMsgs(1)) = 1
      BY <2>1, <2>2 DEF KeyUp, KeyMsgs
    <3> QED BY <2>1, <2>2, <3>1 DEF KeyUp
  <2>3. CASE ~(gsKeyCount < KEY_LONG_COUNT)
    <3>1. Len(KeyMsgs(1)) = 0
      BY <2>1, <2>3 DEF KeyUp, KeyMsgs
    <3> QED BY <2>1, <2>3, <3>1 DEF KeyUp
  <2> QED BY <2>2, <2>3
<1> QED BY <1>1, KeyInvariant, PTL DEF KeySpec, EveryPressReported
=============================================================================
