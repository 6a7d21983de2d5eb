--------------------------- MODULE InfraredProofs ---------------------------
(***************************************************************************)
(* Proofs about the infrared side: the television's switches (IrSwitch),   *)
(* the serial bench console (ZjiotConsole), the provisioner of the         *)
(* Raspberry Pi (PiSetup), and the three of them beside each other          *)
(* (MCInfrared), for every value of their constants.                       *)
(***************************************************************************)
EXTENDS MCInfrared, SequenceTheorems, FiniteSetTheorems, WellFoundedInduction, TLAPS

-----------------------------------------------------------------------------
(* The television's switches. *)

\* Whether a picker that was opened at the present input has followed the
\* first next[c] - 1 keys of an undisturbed program.
Followed(c) ==
    LET k == next[c]
    IN  /\ k = 1 => menu = 0 /\ input - 1 <= Ups
        /\ 1 < k /\ k <= 2 + Ups =>
              /\ input - 1 <= Ups
              /\ menu = AtLeast(1, input - (k - 2))
        /\ 2 + Ups < k => menu = k - 1 - Ups

\* What an undisturbed switch has done to the television so far.
PickerFollows ==
    pc # "idle" /\ clean =>
        /\ call \in Calls /\ stage[call] \in {"keys", "ended", "broken"}
        /\ stage[call] = "keys" => Followed(call)
        /\ stage[call] = "ended" => input = Row(Port)

\* A switch is reported only of a program that pressed its last key; the other
\* transports run no program.
PickerInv ==
    /\ conf.method = "ir_remote" =>
          /\ pc = "watching" /\ told => call \in Calls /\ stage[call] = "ended"
          /\ PickerFollows
    /\ conf.method # "ir_remote" =>
          /\ \A c \in Calls : stage[c] = "none"
          /\ pc # "idle" /\ clean => input = Row(Port)

\* Until a program outlives its call, only the running call has one.
HomeInv ==
    /\ home => pc = "idle"
    /\ ~outlived => \A c \in Calls : Running(c) => c = call /\ pc = "ssh"
    /\ home /\ inputBy # "user" /\ ~outlived => input = Row(conf.kodi)

-----------------------------------------------------------------------------
LEMMA SettingTypes ==
    ASSUME conf \in Configs
    PROVE  /\ conf.port \in Int /\ conf.ups \in Int /\ conf.offset \in Int
           /\ conf.method \in {"ir", "lirc", "ir_remote"} /\ conf.kodi \in HdmiPorts
           /\ Port \in HdmiPorts /\ Ups \in Nat /\ Offset \in Nat /\ Downs \in Nat
           /\ LastKey \in Nat /\ LastKey = 2 + Ups + Downs /\ Below \in Nat
           /\ Rows = 1 .. Offset + 4 + Below
           /\ Row(Port) \in Rows /\ Row(conf.kodi) \in Rows
<1>1. /\ conf.port \in Int /\ conf.ups \in Int /\ conf.offset \in Int
      /\ conf.method \in {"ir", "lirc", "ir_remote"} /\ conf.kodi \in HdmiPorts
      /\ Below \in Nat
  BY IrConstants
<1>2. Port \in HdmiPorts /\ Ups \in Nat /\ Offset \in Nat
  BY <1>1 DEF Port, Ups, Offset, AtLeast, HdmiPorts
<1>3. Downs \in Nat /\ LastKey \in Nat /\ LastKey = 2 + Ups + Downs
  BY <1>2 DEF Downs, LastKey, HdmiPorts
<1>4. Row(Port) \in Rows /\ Row(conf.kodi) \in Rows
  BY <1>1, <1>2 DEF Row, Rows, HdmiPorts
<1> QED BY <1>1, <1>2, <1>3, <1>4 DEF Rows

LEMMA SettingsStay ==
    ASSUME conf' = conf
    PROVE  /\ Port' = Port /\ Ups' = Ups /\ Offset' = Offset /\ Downs' = Downs
           /\ LastKey' = LastKey /\ Rows' = Rows
           /\ \A p : Row(p)' = Row(p)
BY DEF Port, Ups, Offset, Downs, LastKey, Rows, Row

\* What each key of the sequence does to the television.
LEMMA KeyEffects ==
    ASSUME conf \in Configs, NEW k \in 1 .. LastKey, Hear(Key(k))
    PROVE  /\ k = 1 => HearInput
           /\ 1 < k /\ k <= 1 + Ups => HearArrow(menu - 1)
           /\ 1 + Ups < k /\ k < LastKey => HearArrow(menu + 1)
           /\ k = LastKey => HearOk
<1>1. Ups \in Nat /\ LastKey \in Nat /\ 2 + Ups <= LastKey
  BY SettingTypes
<1>2. CASE k = 1
  <2>1. Key(k) = "INPUT"
    BY <1>1, <1>2 DEF Key
  <2>2. HearInput
    BY <2>1 DEF Hear
  <2> QED BY <1>1, <1>2, <2>2
<1>3. CASE 1 < k /\ k <= 1 + Ups
  <2>1. Key(k) = "UP"
    BY <1>1, <1>3 DEF Key
  <2>2. HearArrow(menu - 1)
    BY <2>1 DEF Hear
  <2> QED BY <1>1, <1>3, <2>2
<1>4. CASE 1 + Ups < k /\ k < LastKey
  <2>1. Key(k) = "DOWN"
    BY <1>1, <1>4 DEF Key
  <2>2. HearArrow(menu + 1)
    BY <2>1 DEF Hear
  <2> QED BY <1>1, <1>4, <2>2
<1>5. CASE k = LastKey
  <2>1. Key(k) = "OK"
    BY <1>1, <1>5 DEF Key
  <2>2. HearOk
    BY <2>1 DEF Hear
  <2> QED BY <1>1, <1>5, <2>2
<1> QED BY <1>2, <1>3, <1>4, <1>5

\* Every key leaves the television on an input it has and its picker in range.
LEMMA HearTypes ==
    ASSUME conf \in Configs, input \in Rows, menu \in Rows \union {0},
           inputBy \in {"user", "bridge"}, NEW k \in 1 .. LastKey, Hear(Key(k))
    PROVE  input' \in Rows /\ menu' \in Rows \union {0} /\ inputBy' \in {"user", "bridge"}
<1> USE SettingTypes
<1>1. CASE k = 1
  BY <1>1, KeyEffects DEF HearInput
<1>2. CASE 1 < k /\ k <= 1 + Ups
  BY <1>2, KeyEffects DEF HearArrow
<1>3. CASE 1 + Ups < k /\ k < LastKey
  BY <1>3, KeyEffects DEF HearArrow
<1>4. CASE k = LastKey
  BY <1>4, KeyEffects DEF HearOk
<1> QED BY <1>1, <1>2, <1>3, <1>4

\* A key that is heard keeps the picker where the program counts on it.
LEMMA HearFollows ==
    ASSUME conf \in Configs, conf' = conf, input \in Rows, NEW c \in Calls,
           next \in [Calls -> Nat], NEW k \in 1 .. LastKey, next[c] = k,
           next' = [next EXCEPT ![c] = @ + 1], Followed(c), Hear(Key(k))
    PROVE  /\ k # LastKey => Followed(c)'
           /\ k = LastKey => input' = Row(Port)
<1>1. /\ Ups \in Nat /\ Offset \in Nat /\ Downs = Port - 1 + Offset /\ Port \in 1 .. 4
      /\ LastKey = 2 + Ups + Downs /\ Below \in Nat /\ Rows = 1 .. Offset + 4 + Below
      /\ Row(Port) = Offset + Port
  BY SettingTypes DEF Downs, Row, HdmiPorts
<1>2. next'[c] = k + 1 /\ k \in Int /\ input \in Int /\ input >= 1 /\ Ups' = Ups
  BY <1>1, SettingsStay
<1>3. CASE k = 1
  <2>1. menu = 0 /\ input - 1 <= Ups
    BY <1>3 DEF Followed
  <2>2. menu' = input /\ input' = input
    BY <1>3, <2>1, KeyEffects DEF HearInput
  <2> QED BY <1>1, <1>2, <1>3, <2>1, <2>2 DEF Followed, AtLeast
<1>4. CASE 1 < k /\ k <= 1 + Ups
  <2>1. menu = AtLeast(1, input - (k - 2)) /\ input - 1 <= Ups
    BY <1>1, <1>2, <1>4 DEF Followed
  <2>2. input' = input /\ menu' = IF menu # 0 /\ menu - 1 \in Rows THEN menu - 1 ELSE menu
    BY <1>4, KeyEffects DEF HearArrow
  <2>3. menu' = AtLeast(1, input - (k - 1))
    BY <1>1, <1>2, <1>4, <2>1, <2>2 DEF AtLeast
  <2> QED BY <1>1, <1>2, <1>4, <2>1, <2>2, <2>3 DEF Followed
<1>5. CASE 1 + Ups < k /\ k < LastKey
  <2>1. menu = k - 1 - Ups
    BY <1>1, <1>2, <1>5 DEF Followed, AtLeast
  <2>2. menu' = IF menu # 0 /\ menu + 1 \in Rows THEN menu + 1 ELSE menu
    BY <1>5, KeyEffects DEF HearArrow
  <2>3. menu' = menu + 1
    BY <1>1, <1>2, <1>5, <2>1, <2>2
  <2> QED BY <1>1, <1>2, <1>5, <2>1, <2>3 DEF Followed
<1>6. CASE k = LastKey
  <2>1. menu = k - 1 - Ups
    BY <1>1, <1>2, <1>6 DEF Followed, AtLeast
  <2>2. menu # 0 => input' = menu
    BY <1>6, KeyEffects DEF HearOk
  <2> QED BY <1>1, <1>6, <2>1, <2>2
<1> QED BY <1>1, <1>2, <1>3, <1>4, <1>5, <1>6

-----------------------------------------------------------------------------
LEMMA InitType == Init => TypeOK
<1> SUFFICES ASSUME Init PROVE TypeOK
  OBVIOUS
<1>1. conf \in Configs /\ LastKey \in Nat /\ MaxRuns \in Nat
  BY SettingTypes, IrConstants DEF Init
<1>2. stage = [c \in Calls |-> "none"] /\ next = [c \in Calls |-> 0] /\ 0 \in 0 .. LastKey + 1
  BY <1>1 DEF Init
<1>3. next \in [Calls -> 0 .. LastKey + 1] /\ \A c \in Calls : stage[c] # "keys"
  BY <1>2
<1>4. stage \in [Calls -> {"none", "ssh", "keys", "ended", "broken"}]
  BY <1>2
<1>5. /\ pc \in {"idle", "ssh", "watching"} /\ pc # "ssh"
      /\ input \in Rows /\ inputBy \in {"user", "bridge"} /\ menu \in Rows \union {0}
  BY DEF Init
<1>6. call \in 0 .. MaxRuns
  BY <1>1 DEF Init
<1>7. told \in BOOLEAN /\ clean \in BOOLEAN /\ outlived \in BOOLEAN /\ home \in BOOLEAN
  BY Zenon DEF Init
<1> QED BY <1>1, <1>3, <1>4, <1>5, <1>6, <1>7 DEF TypeOK

LEMMA StepType == TypeOK /\ [Next]_irVars => TypeOK'
<1> SUFFICES ASSUME TypeOK, [Next]_irVars PROVE TypeOK'
  OBVIOUS
<1>1. conf \in Configs /\ MaxRuns \in Nat
  BY IrConstants DEF TypeOK
<1>2. conf' = conf
  BY DEF Next, Player, RemoteDeclines, RemoteCalls, RemoteReturns, RemoteCutOff, CodeToOppo,
     CodeToKodi, Reclaim, Killed, ProgramStarts, ProgramBreaks, Press, UserPicks, PickerCloses, irVars
<1>3. LastKey' = LastKey /\ Rows' = Rows /\ LastKey \in Nat /\ LastKey >= 2
  BY <1>1, <1>2, SettingsStay, SettingTypes
<1>4. Row(Port) \in Rows /\ Row(conf.kodi) \in Rows
  BY <1>1, SettingTypes
<1>5. CASE UNCHANGED irVars
  BY <1>3, <1>5 DEF TypeOK, irVars, programs, television
<1>6. CASE RemoteDeclines \/ RemoteReturns \/ RemoteCutOff \/ Killed
  <2>1. UNCHANGED <<programs, television, conf, call>>
    BY <1>6 DEF RemoteDeclines, RemoteReturns, RemoteCutOff, Killed
  <2> QED BY <1>3, <1>6, <2>1
       DEF TypeOK, RemoteDeclines, RemoteReturns, RemoteCutOff, Killed, Starts, programs, television
<1>7. CASE RemoteCalls
  <2>1. call' \in Calls /\ pc' = "ssh" /\ call' \in 0 .. MaxRuns
    BY <1>1, <1>7 DEF TypeOK, RemoteCalls, Calls
  <2>2. stage' = [stage EXCEPT ![call'] = "ssh"] /\ UNCHANGED <<next, television, told, outlived>>
    BY <1>7 DEF RemoteCalls
  <2>3. stage' \in [Calls -> {"none", "ssh", "keys", "ended", "broken"}]
    BY <2>2 DEF TypeOK
  <2>4. \A d \in Calls : stage'[d] = "keys" => stage[d] = "keys"
    BY <2>1, <2>2 DEF TypeOK
  <2>5. clean' \in BOOLEAN /\ home' \in BOOLEAN
    BY <1>7 DEF RemoteCalls, Starts
  <2> QED BY <1>2, <1>3, <2>1, <2>2, <2>3, <2>4, <2>5 DEF TypeOK, television
<1>8. CASE CodeToOppo
  <2>1. CASE conf.oppoCode \in Sendable
    BY <1>3, <1>4, <1>8, <2>1 DEF TypeOK, CodeToOppo, Starts, SendCode, Selected, programs, television
  <2>2. CASE conf.oppoCode \notin Sendable
    BY <1>3, <1>4, <1>8, <2>2 DEF TypeOK, CodeToOppo, Starts, SendCode, Selected, programs, television
  <2> QED BY <2>1, <2>2
<1>9. CASE CodeToKodi
  <2>1. CASE conf.kodiCode \in Sendable
    BY <1>3, <1>4, <1>9, <2>1 DEF TypeOK, CodeToKodi, SendCode, Selected, programs, television
  <2>2. CASE conf.kodiCode \notin Sendable
    BY <1>3, <1>4, <1>9, <2>2 DEF TypeOK, CodeToKodi, SendCode, Selected, programs, television
  <2> QED BY <2>1, <2>2
<1>10. CASE Reclaim
  BY <1>3, <1>4, <1>10 DEF TypeOK, Reclaim, Selected, programs, television
<1>11. ASSUME NEW c \in Calls, ProgramStarts(c) PROVE TypeOK'
  <2>1. clean' \in BOOLEAN
    BY <1>11 DEF TypeOK, ProgramStarts, Undisturbed
  <2> QED BY <1>3, <1>11, <2>1 DEF TypeOK, ProgramStarts, television
<1>12. ASSUME NEW c \in Calls, ProgramBreaks(c) PROVE TypeOK'
  BY <1>3, <1>12 DEF TypeOK, ProgramBreaks, television
<1>13. ASSUME NEW c \in Calls, Press(c) PROVE TypeOK'
  <2>1. next[c] \in 1 .. LastKey /\ next' = [next EXCEPT ![c] = @ + 1]
    BY <1>13 DEF TypeOK, Press
  <2>2. input' \in Rows /\ menu' \in Rows \union {0} /\ inputBy' \in {"user", "bridge"}
    <3>1. CASE Hear(Key(next[c]))
      BY <2>1, <3>1, HearTypes DEF TypeOK
    <3>2. CASE UNCHANGED television
      BY <3>2 DEF TypeOK, television
    <3> QED BY <1>13, <3>1, <3>2 DEF Press
  <2>3. clean' \in BOOLEAN
    BY <1>13 DEF TypeOK, Press
  <2>4. next' \in [Calls -> 0 .. LastKey + 1]
    BY <1>3, <2>1 DEF TypeOK
  <2>5. stage' \in [Calls -> {"none", "ssh", "keys", "ended", "broken"}]
    BY <1>13 DEF TypeOK, Press
  <2>6. \A d \in Calls : stage'[d] = "keys" => next'[d] \in 1 .. LastKey
    <3> SUFFICES ASSUME NEW d \in Calls, stage'[d] = "keys" PROVE next'[d] \in 1 .. LastKey
      OBVIOUS
    <3>1. CASE d # c
      <4>1. stage'[d] = stage[d] /\ next'[d] = next[d]
        BY <1>13, <2>1, <3>1 DEF TypeOK, Press
      <4> QED BY <4>1 DEF TypeOK
    <3>2. CASE d = c
      <4>1. next[c] # LastKey
        BY <1>13, <3>2 DEF TypeOK, Press, LastOf
      <4> QED BY <1>3, <2>1, <3>2, <4>1 DEF TypeOK
    <3> QED BY <3>1, <3>2
  <2> QED BY <1>3, <1>13, <2>2, <2>3, <2>4, <2>5, <2>6 DEF TypeOK, Press
<1>14. CASE UserPicks
  BY <1>3, <1>14 DEF TypeOK, UserPicks, programs
<1>15. CASE PickerCloses
  BY <1>3, <1>15 DEF TypeOK, PickerCloses, programs
<1> QED
  BY <1>5, <1>6, <1>7, <1>8, <1>9, <1>10, <1>11, <1>12, <1>13, <1>14, <1>15 DEF Next, Player

\* The type invariant holds in every behaviour.
THEOREM TypeCorrect == Spec => []TypeOK
<1> QED BY InitType, StepType, PTL DEF Spec

-----------------------------------------------------------------------------
LEMMA InitPicker == Init => PickerInv /\ HomeInv
BY DEF Init, PickerInv, PickerFollows, HomeInv, Running

LEMMA StepPicker == TypeOK /\ PickerInv /\ [Next]_irVars => PickerInv'
<1> SUFFICES ASSUME TypeOK, PickerInv, [Next]_irVars PROVE PickerInv'
  OBVIOUS
<1>1. conf \in Configs /\ conf' = conf
  BY DEF TypeOK, Next, Player, RemoteDeclines, RemoteCalls, RemoteReturns, RemoteCutOff, CodeToOppo,
     CodeToKodi, Reclaim, Killed, ProgramStarts, ProgramBreaks, Press, UserPicks, PickerCloses, irVars
<1>2. Row(Port)' = Row(Port) /\ Ups' = Ups
  BY <1>1, SettingsStay DEF Row
<1>3. CASE UNCHANGED irVars
  BY <1>2, <1>3 DEF PickerInv, PickerFollows, Followed, irVars, programs, television
<1>4. CASE RemoteDeclines \/ RemoteCalls
  BY <1>4 DEF PickerInv, PickerFollows, RemoteDeclines, RemoteCalls
<1>5. CASE RemoteReturns \/ RemoteCutOff
  <2>1. UNCHANGED <<programs, television, call, clean>> /\ pc = "ssh"
    BY <1>5 DEF RemoteReturns, RemoteCutOff
  <2>2. call \in Calls /\ (told' => stage[call] = "ended")
    BY <1>5, <2>1 DEF TypeOK, RemoteReturns, RemoteCutOff
  <2> QED
    BY <1>1, <1>2, <2>1, <2>2 DEF PickerInv, PickerFollows, Followed, programs, television
<1>6. CASE CodeToOppo
  BY <1>1, <1>2, <1>6 DEF PickerInv, CodeToOppo, SendCode, Selected, programs
<1>7. CASE CodeToKodi \/ Reclaim \/ Killed
  <2>1. pc' = "idle" /\ stage' = stage
    BY <1>7 DEF CodeToKodi, Reclaim, Killed, programs
  <2> QED BY <1>1, <2>1 DEF PickerInv, PickerFollows
<1>8. ASSUME NEW c \in Calls, ProgramStarts(c) PROVE PickerInv'
  <2>1. /\ stage[c] = "ssh" /\ stage' = [stage EXCEPT ![c] = "keys"] /\ next' = [next EXCEPT ![c] = 1]
        /\ clean' = IF c = call THEN Undisturbed(c) ELSE clean
        /\ UNCHANGED <<pc, told, call, input, menu>>
    BY <1>8 DEF ProgramStarts, television
  <2>2. conf.method = "ir_remote"
    BY <2>1 DEF PickerInv
  <2>3. CASE c = call
    <3>1. clean' => Followed(c)'
      <4> SUFFICES ASSUME clean' PROVE Followed(c)'
        OBVIOUS
      <4>1. menu' = 0 /\ input' - 1 <= Ups
        BY <2>1, <2>3 DEF Undisturbed
      <4>2. next'[c] = 1 /\ Ups \in Nat
        BY <1>1, <2>1, SettingTypes DEF TypeOK
      <4> QED BY <1>2, <4>1, <4>2 DEF Followed
    <3>2. stage'[call] = "keys" /\ ~(pc = "watching" /\ told)
      BY <2>1, <2>2, <2>3 DEF TypeOK, PickerInv
    <3> QED BY <1>1, <2>1, <2>2, <2>3, <3>1, <3>2 DEF PickerInv, PickerFollows
  <2>4. CASE c # call
    <3>1. call \in Calls => stage'[call] = stage[call] /\ next'[call] = next[call]
      BY <2>1, <2>4 DEF TypeOK
    <3> QED BY <1>1, <1>2, <2>1, <2>2, <2>4, <3>1 DEF PickerInv, PickerFollows, Followed
  <2> QED BY <2>3, <2>4
<1>9. ASSUME NEW c \in Calls, ProgramBreaks(c) PROVE PickerInv'
  <2>1. /\ stage[c] \in {"ssh", "keys"} /\ stage' = [stage EXCEPT ![c] = "broken"]
        /\ UNCHANGED <<pc, told, call, input, menu, clean, next>>
    BY <1>9 DEF ProgramBreaks, television
  <2>2. conf.method = "ir_remote"
    BY <2>1 DEF PickerInv
  <2>3. call \in Calls => stage'[call] = IF c = call THEN "broken" ELSE stage[call]
    BY <2>1 DEF TypeOK
  <2> QED BY <1>1, <1>2, <2>1, <2>2, <2>3 DEF PickerInv, PickerFollows, Followed
<1>10. ASSUME NEW c \in Calls, Press(c) PROVE PickerInv'
  <2>1. /\ stage[c] = "keys" /\ next[c] \in 1 .. LastKey /\ next' = [next EXCEPT ![c] = @ + 1]
        /\ stage' = IF next[c] = LastKey THEN [stage EXCEPT ![c] = "ended"] ELSE stage
        /\ UNCHANGED <<pc, told, call>>
    BY <1>10 DEF TypeOK, Press, LastOf
  <2>2. conf.method = "ir_remote"
    BY <2>1 DEF PickerInv
  <2>3. CASE clean' /\ c = call
    <3>1. Hear(Key(next[c])) /\ clean
      BY <1>10, <2>3 DEF Press
    <3>2. pc # "idle" => Followed(c)
      BY <2>1, <2>2, <2>3, <3>1 DEF PickerInv, PickerFollows
    <3>3. next \in [Calls -> Nat]
      BY <1>1, SettingTypes DEF TypeOK
    <3>4. pc # "idle" => /\ next[c] # LastKey => Followed(c)'
                         /\ next[c] = LastKey => input' = Row(Port)
      BY <1>1, <2>1, <3>1, <3>2, <3>3, HearFollows DEF TypeOK
    <3>5. stage'[call] = IF next[c] = LastKey THEN "ended" ELSE "keys"
      BY <2>1, <2>3 DEF TypeOK
    <3>6. Followed(c)' => Followed(call)'
      BY <2>1, <2>3 DEF Followed
    <3>7. call' \in Calls /\ ~(pc = "watching" /\ told)
      BY <2>1, <2>2, <2>3 DEF PickerInv
    <3>8. PickerFollows'
      <4>1. CASE pc # "idle" /\ next[c] # LastKey
        <5>1. stage'[call] = "keys"
          BY <3>5, <4>1
        <5>2. Followed(c)'
          BY <3>4, <4>1
        <5>3. Followed(call)'
          BY <3>6, <5>2
        <5>4. call' = call /\ call' \in Calls
          BY <2>1, <3>7
        <5> QED BY <5>1, <5>3, <5>4 DEF PickerFollows
      <4>2. CASE pc # "idle" /\ next[c] = LastKey
        BY <1>2, <2>1, <3>4, <3>5, <3>7, <4>2 DEF PickerFollows
      <4> QED BY <2>1, <4>1, <4>2 DEF PickerFollows
    <3> QED BY <1>1, <2>1, <2>2, <3>7, <3>8 DEF PickerInv
  <2>4. CASE clean' /\ c # call
    <3>1. UNCHANGED television /\ clean
      BY <1>10, <2>4 DEF Press
    <3>2. call \in Calls => stage'[call] = stage[call] /\ next'[call] = next[call]
      BY <2>1, <2>4 DEF TypeOK
    <3> QED
      BY <1>1, <1>2, <2>1, <2>2, <2>4, <3>1, <3>2 DEF PickerInv, PickerFollows, Followed, television
  <2>5. CASE ~clean'
    <3>1. call \in Calls /\ stage[call] = "ended" => stage'[call] = "ended"
      BY <2>1 DEF TypeOK
    <3> QED BY <1>1, <2>1, <2>2, <2>5, <3>1 DEF PickerInv, PickerFollows
  <2> QED BY <2>3, <2>4, <2>5
<1>11. CASE UserPicks
  BY <1>1, <1>11 DEF PickerInv, PickerFollows, UserPicks, programs
<1>12. CASE PickerCloses
  <2>1. /\ \A c \in Calls : stage[c] # "keys"
        /\ UNCHANGED <<pc, told, call, stage, next, input, clean>>
    BY <1>12 DEF PickerCloses, programs
  <2> QED BY <1>1, <1>2, <2>1 DEF PickerInv, PickerFollows
<1> QED
  BY <1>3, <1>4, <1>5, <1>6, <1>7, <1>8, <1>9, <1>10, <1>11, <1>12 DEF Next, Player

LEMMA StepHome == TypeOK /\ PickerInv /\ HomeInv /\ [Next]_irVars => HomeInv'
<1> SUFFICES ASSUME TypeOK, PickerInv, HomeInv, [Next]_irVars PROVE HomeInv'
  OBVIOUS
<1>1. conf' = conf
  BY DEF Next, Player, RemoteDeclines, RemoteCalls, RemoteReturns, RemoteCutOff, CodeToOppo,
     CodeToKodi, Reclaim, Killed, ProgramStarts, ProgramBreaks, Press, UserPicks, PickerCloses, irVars
<1>2. Row(conf.kodi)' = Row(conf.kodi)
  BY <1>1, SettingsStay DEF Row
<1>3. CASE UNCHANGED irVars
  BY <1>2, <1>3 DEF HomeInv, Running, irVars, programs, television
<1>4. CASE RemoteDeclines \/ CodeToOppo
  BY <1>4 DEF HomeInv, Running, RemoteDeclines, CodeToOppo, Starts, programs
<1>5. CASE RemoteCalls
  <2>1. /\ pc = "idle" /\ pc' = "ssh" /\ home' = FALSE /\ outlived' = outlived
        /\ stage' = [stage EXCEPT ![call'] = "ssh"]
    BY <1>5 DEF RemoteCalls, Starts
  <2>2. ~outlived => \A c \in Calls : ~Running(c)
    BY <2>1 DEF HomeInv
  <2>3. \A c \in Calls : c # call' => stage'[c] = stage[c]
    BY <2>1 DEF TypeOK
  <2> QED BY <2>1, <2>2, <2>3 DEF HomeInv, Running
<1>6. CASE RemoteReturns
  BY <1>1, <1>2, <1>6 DEF HomeInv, Running, RemoteReturns, programs, television
<1>7. CASE RemoteCutOff
  BY <1>1, <1>2, <1>7 DEF HomeInv, Running, RemoteCutOff, programs, television
<1>8. CASE CodeToKodi
  <2>1. /\ pc = "watching" /\ pc' = "idle" /\ UNCHANGED <<stage, call, outlived>>
        /\ home' = clean'
    BY <1>8 DEF CodeToKodi, programs
  <2>2. clean' => input' = Row(conf.kodi)
    BY <1>8 DEF CodeToKodi, SendCode, Selected
  <2> QED BY <1>2, <2>1, <2>2 DEF HomeInv, Running
<1>9. CASE Reclaim
  BY <1>1, <1>2, <1>9 DEF HomeInv, Running, Reclaim, Selected, programs, television
<1>10. CASE Killed
  BY <1>1, <1>2, <1>10 DEF HomeInv, Running, Killed, programs, television
<1>11. ASSUME NEW c \in Calls, ProgramStarts(c) \/ ProgramBreaks(c) PROVE HomeInv'
  <2>1. /\ stage[c] \in {"ssh", "keys"}
        /\ \A d \in Calls : d # c => stage'[d] = stage[d]
        /\ UNCHANGED <<pc, call, television, outlived, home>>
    BY <1>11 DEF TypeOK, ProgramStarts, ProgramBreaks
  <2>2. \A d \in Calls : Running(d)' => Running(d)
    BY <2>1 DEF Running
  <2> QED BY <1>1, <1>2, <2>1, <2>2 DEF HomeInv, television
<1>12. ASSUME NEW c \in Calls, Press(c) PROVE HomeInv'
  <2>1. /\ stage[c] = "keys" /\ UNCHANGED <<pc, call, outlived, home>>
        /\ \A d \in Calls : stage'[d] = stage[d] \/ stage'[d] = "ended"
    BY <1>12 DEF TypeOK, Press
  <2>2. \A d \in Calls : Running(d)' => Running(d)
    BY <2>1 DEF Running
  <2>3. home => outlived
    BY <2>1 DEF HomeInv, Running
  <2> QED BY <2>1, <2>2, <2>3 DEF HomeInv
<1>13. CASE UserPicks
  BY <1>13 DEF HomeInv, Running, UserPicks, programs
<1>14. CASE PickerCloses
  BY <1>1, <1>2, <1>14 DEF HomeInv, Running, PickerCloses, programs
<1> QED
  BY <1>3, <1>4, <1>5, <1>6, <1>7, <1>8, <1>9, <1>10, <1>11, <1>12, <1>13, <1>14 DEF Next, Player

LEMMA Inductive == Spec => [](TypeOK /\ PickerInv /\ HomeInv)
<1> QED BY InitType, StepType, InitPicker, StepPicker, StepHome, PTL DEF Spec

\* A switch that to_oppo reports has put the television on the OPPO, unless a
\* key was lost, somebody else touched the picker, or the anchor was too short
\* for the input the film was started from.
THEOREM SwitchLands == Spec => []LandsOnOppo
<1>1. TypeOK /\ PickerInv => LandsOnOppo
  BY DEF TypeOK, PickerInv, PickerFollows, LandsOnOppo
<1> QED BY Inductive, <1>1, PTL

\* What brings Kodi back is not undone by a key of the same film's switch,
\* unless its program outlived the SSH call.
THEOREM ReclaimIsNotUndone == Spec => []ReclaimHolds
<1>1. HomeInv => ReclaimHolds
  BY DEF HomeInv, ReclaimHolds
<1> QED BY Inductive, <1>1, PTL

-----------------------------------------------------------------------------
(* The serial bench console. *)

Pieces == [part : {"noise", "fake", "head", "body", "garbled"}, of : Keys \union {"none"}]
Threads == [pc : {"off", "write", "scan", "rest", "fake"}, on : 0 .. MaxConnects,
            attempt : 0 .. MaxAttempts, skipped : 0 .. MaxResync - 1]

\* The budgets, the clicks that are left after the learn that was shown last, and
\* the ports the threads were started on.
Started ==
    /\ budget \in [learns : 0 .. MaxLearns, presses : 0 .. MaxPresses, noise : 0 .. MaxNoise]
    /\ budget.learns <= source.left
    /\ \A w \in Workers : worker[w].on <= connects /\ (Active(w) => worker[w].on > 0)

\* A learn that began in order is the only one, until another is clicked.
OneAtATime ==
    fresh => \A w \in Workers : Active(w) =>
        /\ budget.learns < source.left
        /\ \A v \in Workers : Active(v) => v = w

\* Since a learn began in order, only replies to it came.
RepliesHeard ==
    fresh => \A i \in DOMAIN buffer : buffer[i].part = "body" => buffer[i].of \in pressed \union {"none"}

ConsoleInv ==
    ConsoleTypeOK /\ Started /\ OneAtATime /\ RepliesHeard /\ LearnsWhatWasPressed

-----------------------------------------------------------------------------
\* The assumptions on the constants, one by one.
LEMMA Bounds ==
    /\ MaxAttempts \in Nat \ {0} /\ MaxResync \in Nat \ {0}
    /\ MaxLearns \in Nat /\ MaxPresses \in Nat /\ MaxNoise \in Nat /\ MaxConnects \in Nat
    /\ "none" \notin Keys
BY ZjiotConstants

LEMMA OffIsThread == Off \in Threads
BY Bounds DEF Off, Threads

\* A learn thread moves, and no other.
Moves(w) ==
    \E new \in Threads :
        /\ new = Off \/ new.on = worker[w].on
        /\ worker' = [worker EXCEPT ![w] = new]

\* An attempt that is given up ends its thread or begins the next attempt, and learns nothing.
LEMMA GiveUpMoves ==
    ASSUME ConsoleTypeOK, NEW w \in Workers, GiveUpAttempt(w)
    PROVE  Moves(w) /\ UNCHANGED <<last, source>>
<1>1. worker[w] \in Threads
  BY DEF ConsoleTypeOK, Threads
<1>2. CASE worker[w].attempt = MaxAttempts
  BY <1>2, OffIsThread DEF GiveUpAttempt, Fails, Put, Moves
<1>3. CASE worker[w].attempt # MaxAttempts
  <2> DEFINE new == [worker[w] EXCEPT !.pc = "write", !.attempt = @ + 1, !.skipped = 0]
  <2>1. worker' = [worker EXCEPT ![w] = new] /\ UNCHANGED <<last, source>>
    BY <1>3 DEF GiveUpAttempt, Put
  <2>2. worker[w].attempt + 1 \in 0 .. MaxAttempts /\ 0 \in 0 .. MaxResync - 1
    BY <1>1, <1>3, Bounds DEF Threads
  <2>3. new \in Threads /\ new.on = worker[w].on
    BY <1>1, <2>2 DEF Threads
  <2> HIDE DEF new
  <2> QED BY <2>1, <2>3 DEF Moves
<1> QED
  BY <1>2, <1>3

\* What is left of the buffer when its first n pieces are read.
LEMMA RestOfBuffer ==
    ASSUME NEW S, NEW s \in Seq(S), NEW n \in 1 .. Len(s)
    PROVE  LET rest == SubSeq(s, n + 1, Len(s))
           IN  /\ rest \in Seq(S) /\ DOMAIN rest = 1 .. Len(s) - n
               /\ \A i \in DOMAIN rest : i + n \in DOMAIN s /\ rest[i] = s[i + n]
<1> DEFINE rest == SubSeq(s, n + 1, Len(s))
<1>1. Len(s) \in Nat /\ DOMAIN s = 1 .. Len(s)
  BY LenProperties
<1>2. n + 1 \in 1 .. Len(s) + 1 /\ Len(s) \in (n + 1) - 1 .. Len(s)
  BY <1>1
<1>3. rest \in Seq(S) /\ Len(rest) = IF n + 1 <= Len(s) THEN Len(s) - (n + 1) + 1 ELSE 0
  BY <1>1, <1>2, SubSeqProperties
<1>4. \A i \in 1 .. Len(s) - n : rest[i] = s[i + n]
  BY <1>1, <1>2
<1> HIDE DEF rest
<1>5. Len(rest) = Len(s) - n
  <2>1. ASSUME NEW l \in Nat, n \in 1 .. l, NEW r, r = IF n + 1 <= l THEN l - (n + 1) + 1 ELSE 0
        PROVE  r = l - n
    BY <2>1
  <2> QED BY <1>1, <1>3, <2>1
<1>6. DOMAIN rest = 1 .. Len(s) - n
  BY <1>3, <1>5, LenProperties
<1> QED
  BY <1>1, <1>3, <1>4, <1>6 DEF rest

LEMMA TailIsRest ==
    ASSUME NEW S, NEW s \in Seq(S), s # <<>>
    PROVE  1 \in 1 .. Len(s) /\ Tail(s) = SubSeq(s, 2, Len(s)) /\ Head(s) = s[1] /\ Head(s) \in S
BY EmptySeq, LenProperties, TailIsSubSeq, HeadTailProperties

-----------------------------------------------------------------------------
(* What a step of a learn thread does, as far as the invariant tells. *)

Answered(w) ==
    /\ Head(buffer).part = "body" /\ last' = Head(buffer).of
    /\ source' = [fresh |-> fresh, keys |-> pressed, left |-> budget.learns]
    /\ worker' = [worker EXCEPT ![w] = Off]

\* It reads nothing, some of what is there, or a reply.
Reads(w) ==
    \/ buffer' = buffer /\ UNCHANGED <<last, source>>
    \/ /\ \E n \in 1 .. Len(buffer) : buffer' = SubSeq(buffer, n + 1, Len(buffer))
       /\ UNCHANGED <<last, source>>
    \/ buffer # <<>> /\ buffer' = SubSeq(buffer, 2, Len(buffer)) /\ Answered(w)

Effect(w) ==
    /\ Active(w) /\ Moves(w) /\ Reads(w)
    /\ learning' \in BOOLEAN
    /\ UNCHANGED <<conn, connects, budget, heard>>

\* A thread that only goes on to its next read.
LEMMA PutPc ==
    ASSUME ConsoleTypeOK, NEW w \in Workers, NEW at \in {"write", "scan", "rest", "fake"},
           Put(w, [worker[w] EXCEPT !.pc = at])
    PROVE  Moves(w) /\ worker'[w].pc = at
<1> DEFINE new == [worker[w] EXCEPT !.pc = at]
<1>1. worker[w] \in Threads /\ worker' = [worker EXCEPT ![w] = new] /\ w \in DOMAIN worker
  BY DEF ConsoleTypeOK, Threads, Put
<1>2. new \in Threads /\ new.on = worker[w].on /\ new.pc = at
  BY <1>1 DEF Threads
<1> HIDE DEF new
<1> QED
  BY <1>1, <1>2 DEF Moves

\* The six steps of a thread, one by one (serial_win.py:106-143).
LEMMA WriteLearnEffect ==
    ASSUME ConsoleTypeOK, NEW w \in Workers, WriteLearn(w)
    PROVE  Effect(w)
<1>1. /\ worker[w].pc = "write" /\ learning' = TRUE /\ Put(w, [worker[w] EXCEPT !.pc = "scan"])
      /\ UNCHANGED <<conn, connects, buffer, last, budget, heard, source>>
  BY DEF WriteLearn, port, witnesses
<1>2. Moves(w) /\ worker'[w].pc = "scan"
  BY <1>1, PutPc
<1> QED
  BY <1>1, <1>2 DEF Effect, Active, Reads, ConsoleTypeOK

LEMMA ReadTimeoutEffect ==
    ASSUME ConsoleTypeOK, NEW w \in Workers, ReadTimeout(w)
    PROVE  Effect(w)
<1>1. /\ worker[w].pc \in {"scan", "rest", "fake"} /\ buffer = <<>> /\ GiveUpAttempt(w)
      /\ UNCHANGED <<conn, connects, buffer, learning, budget, heard>>
  BY DEF ReadTimeout, port
<1>2. Moves(w) /\ UNCHANGED <<last, source>>
  BY <1>1, GiveUpMoves
<1> QED
  BY <1>1, <1>2 DEF Effect, Active, Reads, ConsoleTypeOK

LEMMA PortGoneEffect ==
    ASSUME ConsoleTypeOK, NEW w \in Workers, PortGone(w)
    PROVE  Effect(w)
<1>1. /\ Active(w) /\ ~Holds(w) /\ worker' = [worker EXCEPT ![w] = Off] /\ UNCHANGED <<last, source>>
      /\ UNCHANGED <<conn, connects, buffer, learning, budget, heard>>
  BY DEF PortGone, Fails, Put, port
<1>2. Moves(w)
  BY <1>1, OffIsThread DEF Moves
<1> QED
  BY <1>1, <1>2 DEF Effect, Active, Reads, ConsoleTypeOK

LEMMA ReadRestEffect ==
    ASSUME ConsoleTypeOK, NEW w \in Workers, ReadRest(w)
    PROVE  Effect(w)
<1>1. /\ worker[w].pc = "rest" /\ buffer # <<>> /\ buffer' = Tail(buffer)
      /\ Head(buffer).part \in {"body", "garbled"}
      /\ UNCHANGED <<conn, connects, learning, budget, heard>>
  BY DEF ReadRest
<1>2. /\ buffer' = SubSeq(buffer, 2, Len(buffer)) /\ learning' \in BOOLEAN
      /\ 1 \in 1 .. Len(buffer) /\ 1 + 1 = 2
  BY <1>1, TailIsRest DEF ConsoleTypeOK
<1>3. CASE Accepts(Head(buffer))
  <2>1. /\ Head(buffer).part = "body" /\ last' = Head(buffer).of /\ worker' = [worker EXCEPT ![w] = Off]
        /\ source' = [fresh |-> fresh, keys |-> pressed, left |-> budget.learns]
    BY <1>3 DEF ReadRest, Accepts, Learnt, Put
  <2>2. Moves(w)
    BY <2>1, OffIsThread DEF Moves
  <2>3. Answered(w)
    BY <2>1 DEF Answered
  <2> QED
    BY <1>1, <1>2, <2>1, <2>2, <2>3 DEF Effect, Active, Reads
<1>4. CASE ~Accepts(Head(buffer))
  <2>1. GiveUpAttempt(w)
    BY <1>4 DEF ReadRest
  <2>2. Moves(w) /\ UNCHANGED <<last, source>>
    BY <2>1, GiveUpMoves
  <2> QED
    BY <1>1, <1>2, <2>1, <2>2 DEF Effect, Active, Reads
<1> QED
  BY <1>3, <1>4

LEMMA ReadMisalignedEffect ==
    ASSUME ConsoleTypeOK, NEW w \in Workers, ReadMisaligned(w)
    PROVE  Effect(w)
<1>1. /\ worker[w].pc \in {"rest", "fake"} /\ GiveUpAttempt(w)
      /\ \E n \in 1 .. Len(buffer) : buffer' = SubSeq(buffer, n + 1, Len(buffer))
      /\ UNCHANGED <<conn, connects, learning, budget, heard>>
  BY DEF ReadMisaligned
<1>2. Moves(w) /\ UNCHANGED <<last, source>>
  BY <1>1, GiveUpMoves
<1> QED
  BY <1>1, <1>2 DEF Effect, Active, Reads, ConsoleTypeOK

LEMMA ScanByteEffect ==
    ASSUME ConsoleTypeOK, NEW w \in Workers, ScanByte(w)
    PROVE  Effect(w)
<1>1. /\ worker[w].pc = "scan" /\ buffer # <<>>
      /\ UNCHANGED <<conn, connects, learning, budget, heard>>
  BY DEF ScanByte
<1>2. worker[w] \in Threads /\ learning' \in BOOLEAN /\ worker \in [Workers -> Threads]
  BY <1>1 DEF ConsoleTypeOK, Threads
<1>3. Tail(buffer) = SubSeq(buffer, 2, Len(buffer)) /\ 1 \in 1 .. Len(buffer) /\ 1 + 1 = 2
  BY <1>1, TailIsRest DEF ConsoleTypeOK
<1>4. buffer' = Tail(buffer) /\ Moves(w) /\ UNCHANGED <<last, source>>
  <2>1. ASSUME GiveUpAttempt(w) PROVE Moves(w) /\ UNCHANGED <<last, source>>
    BY <2>1, GiveUpMoves
  <2>2. ASSUME NEW part \in {"rest", "fake"}, Read(part, w)
        PROVE  buffer' = Tail(buffer) /\ Moves(w) /\ UNCHANGED <<last, source>>
    BY <2>2, PutPc DEF Read
  <2>3. ASSUME SkipByte(w)
        PROVE  buffer' = Tail(buffer) /\ Moves(w) /\ UNCHANGED <<last, source>>
    <3>1. CASE worker[w].skipped + 1 = MaxResync
      BY <2>1, <2>3, <3>1 DEF SkipByte
    <3>2. CASE worker[w].skipped + 1 # MaxResync
      <4> DEFINE new == [worker[w] EXCEPT !.skipped = @ + 1]
      <4>1. /\ worker' = [worker EXCEPT ![w] = new] /\ buffer' = Tail(buffer)
            /\ UNCHANGED <<last, source>>
        BY <1>2, <2>3, <3>2 DEF SkipByte, Put
      <4>2. worker[w].skipped + 1 \in 0 .. MaxResync - 1
        BY <1>2, <3>2, Bounds DEF Threads
      <4>3. new \in Threads /\ new.on = worker[w].on
        BY <1>1, <1>2, <4>2 DEF Threads
      <4> HIDE DEF new
      <4> QED
        BY <4>1, <4>3 DEF Moves
    <3> QED BY <3>1, <3>2
  <2>4. CASE Head(buffer).part = "noise"
    BY <2>3, <2>4 DEF ScanByte
  <2>5. CASE Head(buffer).part = "head"
    BY <2>2, <2>5 DEF ScanByte
  <2>6. CASE Head(buffer).part = "fake"
    BY <2>2, <2>6 DEF ScanByte
  <2>7. CASE Head(buffer).part \notin {"noise", "head", "fake"}
    <3>1. \/ buffer' = Tail(buffer) /\ UNCHANGED <<worker, last, source>>
          \/ buffer' = Tail(buffer) /\ GiveUpAttempt(w)
          \/ Read("fake", w)
      BY <2>7 DEF ScanByte
    <3>2. UNCHANGED worker => Moves(w)
      BY <1>2 DEF Moves
    <3> QED BY <2>1, <2>2, <3>1, <3>2
  <2> QED BY <2>4, <2>5, <2>6, <2>7
<1> QED
  BY <1>1, <1>2, <1>3, <1>4 DEF Effect, Active, Reads

LEMMA WorkerEffect ==
    ASSUME ConsoleTypeOK, NEW w \in Workers, WorkerStep(w)
    PROVE  Effect(w)
BY WriteLearnEffect, ReadTimeoutEffect, ScanByteEffect, ReadRestEffect, ReadMisalignedEffect,
   PortGoneEffect DEF WorkerStep

-----------------------------------------------------------------------------
\* The types, in the names used here.
LEMMA TypedParts ==
    ConsoleTypeOK <=>
        /\ connects \in 0 .. MaxConnects /\ conn \in {0, connects}
        /\ buffer \in Seq(Pieces) /\ learning \in BOOLEAN
        /\ worker \in [Workers -> Threads] /\ last \in Keys \union {"none"}
        /\ fresh \in BOOLEAN /\ pressed \subseteq Keys /\ strays \in Nat /\ spoilt \in BOOLEAN
        /\ source \in [fresh : BOOLEAN, keys : SUBSET Keys, left : 0 .. MaxLearns]
BY DEF ConsoleTypeOK, Pieces, Threads

LEMMA ConsoleInitInv == ConsoleInit => ConsoleInv
<1> SUFFICES ASSUME ConsoleInit PROVE ConsoleInv
  OBVIOUS
<1>1. buffer = <<>> /\ buffer \in Seq(Pieces) /\ DOMAIN buffer = {}
  BY DEF ConsoleInit
<1>2. worker \in [Workers -> Threads] /\ \A w \in Workers : worker[w] = Off /\ ~Active(w)
  BY OffIsThread DEF ConsoleInit, Off, Active
<1>3. ConsoleTypeOK
  <2>1. connects \in 0 .. MaxConnects /\ conn \in {0, connects}
    BY Bounds DEF ConsoleInit
  <2>2. source \in [fresh : BOOLEAN, keys : SUBSET Keys, left : 0 .. MaxLearns]
    BY Bounds DEF ConsoleInit
  <2>3. /\ learning \in BOOLEAN /\ last \in Keys \union {"none"} /\ fresh \in BOOLEAN
        /\ pressed \subseteq Keys /\ strays \in Nat /\ spoilt \in BOOLEAN
    BY DEF ConsoleInit
  <2> QED BY <1>1, <1>2, <2>1, <2>2, <2>3 DEF ConsoleTypeOK, Pieces, Threads
<1>4. Started
  <2>1. budget \in [learns : 0 .. MaxLearns, presses : 0 .. MaxPresses, noise : 0 .. MaxNoise]
    BY Bounds DEF ConsoleInit
  <2>2. budget.learns <= source.left
    BY Bounds DEF ConsoleInit
  <2>3. \A w \in Workers : worker[w].on <= connects
    <3>1. Off.on = 0
      BY DEF Off
    <3>2. \A w \in Workers : worker[w].on = 0
      BY <1>2, <3>1
    <3>3. connects = 0
      BY DEF ConsoleInit
    <3>4. 0 <= 0
      OBVIOUS
    <3> QED BY <3>2, <3>3, <3>4, Zenon
  <2> QED BY <1>2, <2>1, <2>2, <2>3 DEF Started
<1>5. OneAtATime /\ RepliesHeard /\ LearnsWhatWasPressed
  BY DEF ConsoleInit, OneAtATime, RepliesHeard, LearnsWhatWasPressed
<1> QED
  BY <1>3, <1>4, <1>5 DEF ConsoleInv

\* A thread's step keeps the invariant.
LEMMA WorkerKeeps ==
    ASSUME ConsoleInv, NEW w \in Workers, Effect(w)
    PROVE  ConsoleInv'
<1>1. /\ ConsoleTypeOK /\ Started /\ OneAtATime /\ RepliesHeard /\ LearnsWhatWasPressed
      /\ Active(w) /\ Moves(w) /\ Reads(w) /\ learning' \in BOOLEAN
      /\ UNCHANGED <<conn, connects, budget, fresh, pressed, strays, spoilt>>
  BY DEF ConsoleInv, Effect, heard
<1>2. /\ connects \in 0 .. MaxConnects /\ conn \in {0, connects}
      /\ buffer \in Seq(Pieces) /\ worker \in [Workers -> Threads] /\ last \in Keys \union {"none"}
      /\ fresh \in BOOLEAN /\ pressed \subseteq Keys /\ strays \in Nat /\ spoilt \in BOOLEAN
      /\ source \in [fresh : BOOLEAN, keys : SUBSET Keys, left : 0 .. MaxLearns]
  BY <1>1, TypedParts
<1>3. PICK new \in Threads : /\ new = Off \/ new.on = worker[w].on
                             /\ worker' = [worker EXCEPT ![w] = new]
  BY <1>1 DEF Moves
<1>4. /\ worker' \in [Workers -> Threads] /\ worker'[w] = new
      /\ \A v \in Workers : v # w => worker'[v] = worker[v]
  BY <1>2, <1>3
<1>5. Off.pc = "off" /\ Off.on = 0
  BY DEF Off
<1>6. \A v \in Workers : Active(v)' => Active(v) /\ worker'[v].on = worker[v].on
  BY <1>1, <1>3, <1>4, <1>5 DEF Active
<1>7. budget.learns \in 0 .. MaxLearns /\ budget.learns \in Int
  BY <1>1, Bounds DEF Started
<1>8. UNCHANGED <<last, source>> \/ (Answered(w) /\ buffer # <<>>)
  BY <1>1 DEF Reads
<1>9. Answered(w) => ~Active(w)' /\ source'.left = budget.learns
  BY <1>2, <1>5 DEF Answered, Active
<1>10. /\ buffer' \in Seq(Pieces)
       /\ \A i \in DOMAIN buffer' : \E j \in DOMAIN buffer : buffer'[i] = buffer[j]
  <2>1. CASE buffer' = buffer
    BY <1>2, <2>1
  <2>2. ASSUME NEW n \in 1 .. Len(buffer), buffer' = SubSeq(buffer, n + 1, Len(buffer))
        PROVE  /\ buffer' \in Seq(Pieces)
               /\ \A i \in DOMAIN buffer' : \E j \in DOMAIN buffer : buffer'[i] = buffer[j]
    BY <1>2, <2>2, RestOfBuffer
  <2>3. CASE buffer # <<>> /\ buffer' = SubSeq(buffer, 2, Len(buffer))
    <3>1. 1 \in 1 .. Len(buffer) /\ 1 + 1 = 2
      BY <1>2, <2>3, TailIsRest
    <3> QED BY <2>2, <2>3, <3>1
  <2> QED BY <1>1, <2>1, <2>2, <2>3 DEF Reads
<1>11. ConsoleTypeOK'
  <2>1. last' \in Keys \union {"none"}
    <3>1. buffer # <<>> => Head(buffer) \in Pieces
      BY <1>2, TailIsRest
    <3> QED BY <1>2, <1>8, <3>1 DEF Answered, Pieces
  <2>2. source' \in [fresh : BOOLEAN, keys : SUBSET Keys, left : 0 .. MaxLearns]
    BY <1>2, <1>7, <1>8 DEF Answered
  <2>3. /\ connects' \in 0 .. MaxConnects /\ conn' \in {0, connects'}
        /\ fresh' \in BOOLEAN /\ pressed' \subseteq Keys /\ strays' \in Nat /\ spoilt' \in BOOLEAN
    BY <1>1, <1>2
  <2> QED BY <1>1, <1>4, <1>10, <2>1, <2>2, <2>3 DEF ConsoleTypeOK, Pieces, Threads
<1>12. Started'
  <2>1. budget'.learns <= source'.left
    BY <1>1, <1>7, <1>8, <1>9 DEF Started
  <2>2. \A v \in Workers : worker'[v].on <= connects' /\ (Active(v)' => worker'[v].on > 0)
    <3> SUFFICES ASSUME NEW v \in Workers
                 PROVE  worker'[v].on <= connects' /\ (Active(v)' => worker'[v].on > 0)
      OBVIOUS
    <3>1. worker[v].on <= connects /\ (Active(v) => worker[v].on > 0)
      BY <1>1 DEF Started
    <3>2. Active(v)' => Active(v) /\ worker'[v].on = worker[v].on
      BY <1>6
    <3>3. worker'[v].on = worker[v].on \/ worker'[v].on = 0
      BY <1>3, <1>4, <1>5
    <3>4. connects' = connects /\ connects \in 0 .. MaxConnects
      BY <1>1, <1>2
    <3> QED BY <3>1, <3>2, <3>3, <3>4, Bounds
  <2> QED BY <1>1, <2>1, <2>2 DEF Started
<1>13. OneAtATime'
  <2> SUFFICES ASSUME fresh, NEW v \in Workers, Active(v)'
               PROVE  budget'.learns < source'.left /\ \A u \in Workers : Active(u)' => u = v
    BY <1>1 DEF OneAtATime
  <2>1. Active(v) /\ budget.learns < source.left /\ \A u \in Workers : Active(u) => u = v
    BY <1>1, <1>6 DEF OneAtATime
  <2>2. v = w /\ ~Answered(w)
    BY <1>1, <1>9, <2>1
  <2> QED BY <1>1, <1>6, <1>8, <2>1, <2>2
<1>14. RepliesHeard'
  BY <1>1, <1>10 DEF RepliesHeard
<1>15. LearnsWhatWasPressed'
  <2>1. CASE UNCHANGED <<last, source>>
    BY <1>1, <2>1 DEF LearnsWhatWasPressed
  <2>2. CASE Answered(w) /\ buffer # <<>>
    <3>1. 1 \in DOMAIN buffer /\ Head(buffer) = buffer[1]
      BY <1>2, <2>2, TailIsRest, LenProperties
    <3>2. /\ buffer[1].part = "body" /\ last' = buffer[1].of
          /\ source' = [fresh |-> fresh, keys |-> pressed, left |-> budget.learns]
      BY <2>2, <3>1 DEF Answered
    <3>3. fresh => buffer[1].of \in pressed \union {"none"}
      BY <1>1, <3>1, <3>2 DEF RepliesHeard
    <3> QED BY <3>2, <3>3 DEF LearnsWhatWasPressed
  <2> QED BY <1>8, <2>1, <2>2
<1> QED
  BY <1>11, <1>12, <1>13, <1>14, <1>15 DEF ConsoleInv

\* A click on Learn: in order only when nothing is left, and then it is alone.
LEMMA ClickKeeps ==
    ASSUME ConsoleInv, NEW w \in Workers, StartLearn(w)
    PROVE  ConsoleInv'
<1> DEFINE new == IF conn = 0 THEN Off ELSE [Off EXCEPT !.pc = "write", !.on = conn, !.attempt = 1]
<1>1. /\ ConsoleTypeOK /\ Started /\ OneAtATime /\ RepliesHeard /\ LearnsWhatWasPressed
      /\ worker \in [Workers -> Threads]
      /\ connects \in 0 .. MaxConnects /\ conn \in {0, connects}
      /\ budget \in [learns : 0 .. MaxLearns, presses : 0 .. MaxPresses, noise : 0 .. MaxNoise]
      /\ source \in [fresh : BOOLEAN, keys : SUBSET Keys, left : 0 .. MaxLearns]
  BY TypedParts DEF ConsoleInv, Started
<1>2. /\ worker' = [worker EXCEPT ![w] = new] /\ ~Active(w)
      /\ fresh' = (conn # 0 /\ InOrder) /\ pressed' = {} /\ strays' = 0 /\ spoilt' = FALSE
      /\ UNCHANGED <<conn, connects, buffer, learning, last, source>>
      /\ budget.learns > 0 /\ budget' = [budget EXCEPT !.learns = @ - 1]
  BY DEF StartLearn, HearsAnew, Spend, port
<1>3. new \in Threads /\ new.on <= connects /\ (new.pc # "off" => new.on > 0)
  <2>1. CASE conn = 0
    <3>1. new = Off /\ Off.on = 0 /\ Off.pc = "off"
      BY <2>1 DEF Off
    <3>2. 0 <= connects
      BY <1>1, Bounds
    <3> QED BY <3>1, <3>2, OffIsThread
  <2>2. CASE conn # 0
    <3>1. conn = connects /\ conn \in 0 .. MaxConnects /\ conn > 0 /\ 1 \in 0 .. MaxAttempts
      BY <1>1, <2>2, Bounds
    <3>2. new = [pc |-> "write", on |-> conn, attempt |-> 1, skipped |-> 0]
      BY <2>2 DEF Off
    <3>3. 0 \in 0 .. MaxResync - 1
      BY Bounds
    <3> HIDE DEF new
    <3>4. new \in Threads
      BY <3>1, <3>2, <3>3 DEF Threads
    <3>5. new.on = conn
      BY <3>2
    <3> QED BY <3>1, <3>4, <3>5
  <2> QED BY <2>1, <2>2
<1> HIDE DEF new
<1>4. worker' \in [Workers -> Threads] /\ worker'[w] = new /\ \A v \in Workers : v # w => worker'[v] = worker[v]
  BY <1>1, <1>2, <1>3
<1>5. /\ budget' \in [learns : 0 .. MaxLearns, presses : 0 .. MaxPresses, noise : 0 .. MaxNoise]
      /\ budget'.learns = budget.learns - 1 /\ budget'.learns < source'.left
  <2>1. /\ budget'.learns = budget.learns - 1 /\ budget'.presses = budget.presses
        /\ budget'.noise = budget.noise
    BY <1>1, <1>2
  <2>2. budget.learns - 1 \in 0 .. MaxLearns /\ budget.learns - 1 < source.left
    BY <1>1, <1>2, Bounds DEF Started
  <2> QED BY <1>1, <1>2, <2>1, <2>2
<1>6. ConsoleTypeOK'
  <2>1. fresh' \in BOOLEAN
    BY <1>2, Zenon DEF InOrder
  <2>2. pressed' \subseteq Keys /\ strays' \in Nat /\ spoilt' \in BOOLEAN
    BY <1>2
  <2>3. /\ connects' \in 0 .. MaxConnects /\ conn' \in {0, connects'} /\ learning' \in BOOLEAN
        /\ buffer' \in Seq(Pieces) /\ last' \in Keys \union {"none"}
    BY <1>1, <1>2, TypedParts
  <2> QED BY <1>1, <1>2, <1>4, <2>1, <2>2, <2>3 DEF ConsoleTypeOK, Pieces, Threads
<1>7. Started'
  <2>1. \A v \in Workers : worker'[v].on <= connects' /\ (Active(v)' => worker'[v].on > 0)
    <3> SUFFICES ASSUME NEW v \in Workers
                 PROVE  worker'[v].on <= connects' /\ (Active(v)' => worker'[v].on > 0)
      OBVIOUS
    <3>1. CASE v = w
      BY <1>2, <1>3, <1>4, <3>1 DEF Active
    <3>2. CASE v # w
      BY <1>1, <1>2, <1>4, <3>2 DEF Active, Started
    <3> QED BY <3>1, <3>2
  <2>2. budget'.learns \in Int /\ source'.left \in Int
    BY <1>1, <1>2, <1>5
  <2>3. budget'.learns <= source'.left
    BY <1>5, <2>2
  <2> QED BY <1>5, <2>1, <2>3 DEF Started
<1>8. OneAtATime'
  <2> SUFFICES ASSUME fresh', NEW v \in Workers, Active(v)'
               PROVE  budget'.learns < source'.left /\ \A u \in Workers : Active(u)' => u = v
    BY DEF OneAtATime
  <2>1. \A u \in Workers : ~Active(u)
    BY <1>2 DEF InOrder
  <2>2. \A u \in Workers : Active(u)' => u = w
    BY <1>4, <2>1 DEF Active
  <2> QED BY <1>5, <2>2
<1>9. RepliesHeard'
  <2>1. fresh' => buffer' = <<>>
    BY <1>2 DEF InOrder
  <2> QED BY <2>1 DEF RepliesHeard
<1>10. LearnsWhatWasPressed'
  BY <1>1, <1>2 DEF LearnsWhatWasPressed
<1> QED
  BY <1>6, <1>7, <1>8, <1>9, <1>10 DEF ConsoleInv

\* A port that is opened or closed is another than the threads were started on.
LEMMA PortKeeps ==
    ASSUME ConsoleInv, Connect \/ Disconnect
    PROVE  ConsoleInv'
<1>1. /\ ConsoleTypeOK /\ Started /\ OneAtATime /\ RepliesHeard /\ LearnsWhatWasPressed
      /\ worker \in [Workers -> Threads]
      /\ connects \in 0 .. MaxConnects /\ conn \in {0, connects}
  BY TypedParts DEF ConsoleInv
<1>2. /\ buffer' = <<>> /\ UNCHANGED <<learning, worker, last, budget, fresh, pressed, strays, spoilt, source>>
      /\ connects' \in 0 .. MaxConnects /\ connects <= connects'
      /\ conn' = 0 \/ (conn' = connects' /\ connects' = connects + 1)
  <2>1. CASE Connect
    BY <1>1, <2>1, Bounds DEF Connect, witnesses, heard
  <2>2. CASE Disconnect
    BY <1>1, <2>2, Bounds DEF Disconnect, witnesses, heard
  <2> QED BY <2>1, <2>2
<1>3. ConsoleTypeOK'
  <2>1. buffer' \in Seq(Pieces) /\ conn' \in {0, connects'}
    BY <1>2
  <2> QED BY <1>1, <1>2, <2>1 DEF ConsoleTypeOK, Pieces
<1>4. \A v \in Workers : worker[v].on \in Int /\ worker[v].on <= connects /\ (Active(v) => worker[v].on > 0)
  BY <1>1 DEF Started, Threads
<1>5. Started'
  <2>1. \A v \in Workers : worker'[v].on <= connects' /\ (Active(v)' => worker'[v].on > 0)
    <3> SUFFICES ASSUME NEW v \in Workers
                 PROVE  worker'[v].on <= connects' /\ (Active(v)' => worker'[v].on > 0)
      OBVIOUS
    <3>1. worker'[v] = worker[v] /\ (Active(v)' <=> Active(v))
      BY <1>2 DEF Active
    <3>2. worker[v].on <= connects'
      BY <1>1, <1>2, <1>4
    <3> QED BY <1>4, <3>1, <3>2
  <2> QED BY <1>1, <1>2, <2>1 DEF Started
<1>6. OneAtATime'
  BY <1>1, <1>2 DEF OneAtATime, Active
<1>7. RepliesHeard' /\ LearnsWhatWasPressed'
  BY <1>1, <1>2 DEF RepliesHeard, LearnsWhatWasPressed
<1> QED
  BY <1>3, <1>5, <1>6, <1>7 DEF ConsoleInv

\* What the window sends, a key held to the module and stray bytes append to the
\* buffer, if they do anything at all.
Appends(add) ==
    /\ add \in Seq(Pieces) /\ buffer' = buffer \o add
    /\ UNCHANGED <<conn, connects, worker, last, source>> /\ strays' \in Nat /\ spoilt' \in BOOLEAN
    /\ budget' \in [learns : 0 .. MaxLearns, presses : 0 .. MaxPresses, noise : 0 .. MaxNoise]
    /\ budget'.learns = budget.learns /\ learning' \in BOOLEAN /\ fresh' \in BOOLEAN
    /\ (fresh' => fresh /\ pressed \subseteq pressed') /\ pressed' \subseteq Keys
    /\ fresh' => \A i \in DOMAIN add : add[i].part = "body" => add[i].of \in pressed' \union {"none"}

LEMMA AppendsKeeps ==
    ASSUME ConsoleInv, NEW add, Appends(add)
    PROVE  ConsoleInv'
<1>1. /\ ConsoleTypeOK /\ Started /\ OneAtATime /\ RepliesHeard /\ LearnsWhatWasPressed
      /\ buffer \in Seq(Pieces)
  BY TypedParts DEF ConsoleInv
<1>2. /\ add \in Seq(Pieces) /\ buffer' = buffer \o add
      /\ UNCHANGED <<conn, connects, worker, last, source>> /\ strays' \in Nat /\ spoilt' \in BOOLEAN
      /\ budget' \in [learns : 0 .. MaxLearns, presses : 0 .. MaxPresses, noise : 0 .. MaxNoise]
      /\ budget'.learns = budget.learns /\ learning' \in BOOLEAN /\ fresh' \in BOOLEAN
      /\ (fresh' => fresh /\ pressed \subseteq pressed') /\ pressed' \subseteq Keys
      /\ fresh' => \A i \in DOMAIN add : add[i].part = "body" => add[i].of \in pressed' \union {"none"}
  BY DEF Appends
<1>3. /\ buffer' \in Seq(Pieces) /\ DOMAIN buffer \subseteq DOMAIN buffer'
      /\ \A i \in DOMAIN buffer : buffer'[i] = buffer[i]
      /\ \A i \in DOMAIN buffer' : \/ i \in DOMAIN buffer
                                   \/ \E j \in DOMAIN add : buffer'[i] = add[j]
      /\ \A j \in DOMAIN add : \E i \in DOMAIN buffer' : buffer'[i] = add[j]
  <2>1. /\ buffer' \in Seq(Pieces) /\ Len(buffer') = Len(buffer) + Len(add)
        /\ \A i \in 1 .. Len(buffer) + Len(add) :
              buffer'[i] = IF i <= Len(buffer) THEN buffer[i] ELSE add[i - Len(buffer)]
    BY <1>1, <1>2, ConcatProperties
  <2>2. /\ DOMAIN buffer' = 1 .. Len(buffer) + Len(add) /\ DOMAIN buffer = 1 .. Len(buffer)
        /\ DOMAIN add = 1 .. Len(add) /\ Len(buffer) \in Nat /\ Len(add) \in Nat
    BY <1>1, <1>2, <2>1, LenProperties
  <2>3. \A i \in DOMAIN buffer : i \in DOMAIN buffer' /\ buffer'[i] = buffer[i]
    BY <2>1, <2>2
  <2>4. \A j \in DOMAIN add : j + Len(buffer) \in DOMAIN buffer' /\ buffer'[j + Len(buffer)] = add[j]
    <3> SUFFICES ASSUME NEW j \in DOMAIN add
                 PROVE  j + Len(buffer) \in DOMAIN buffer' /\ buffer'[j + Len(buffer)] = add[j]
      OBVIOUS
    <3>1. /\ j + Len(buffer) \in 1 .. Len(buffer) + Len(add) /\ ~(j + Len(buffer) <= Len(buffer))
          /\ (j + Len(buffer)) - Len(buffer) = j
      BY <2>2
    <3> QED BY <2>1, <2>2, <3>1
  <2>5. \A i \in DOMAIN buffer' : i \in DOMAIN buffer \/ \E j \in DOMAIN add : buffer'[i] = add[j]
    <3> SUFFICES ASSUME NEW i \in DOMAIN buffer', i \notin DOMAIN buffer
                 PROVE  \E j \in DOMAIN add : buffer'[i] = add[j]
      OBVIOUS
    <3>1. i - Len(buffer) \in DOMAIN add /\ ~(i <= Len(buffer))
      BY <2>2
    <3> QED BY <2>1, <2>2, <3>1
  <2> QED BY <2>1, <2>3, <2>4, <2>5
<1>4. ConsoleTypeOK'
  BY <1>1, <1>2, <1>3 DEF ConsoleTypeOK, Pieces
<1>5. Started' /\ LearnsWhatWasPressed'
  BY <1>1, <1>2 DEF Started, LearnsWhatWasPressed, Active
<1>6. OneAtATime'
  BY <1>1, <1>2 DEF OneAtATime, Active
<1>7. RepliesHeard'
  <2> SUFFICES ASSUME fresh', NEW i \in DOMAIN buffer', buffer'[i].part = "body"
               PROVE  buffer'[i].of \in pressed' \union {"none"}
    BY DEF RepliesHeard
  <2>1. CASE i \in DOMAIN buffer
    BY <1>1, <1>2, <1>3, <2>1 DEF RepliesHeard
  <2>2. CASE i \notin DOMAIN buffer
    BY <1>2, <1>3, <2>2
  <2> QED BY <2>1, <2>2
<1> QED
  BY <1>4, <1>5, <1>6, <1>7 DEF ConsoleInv

\* A bound that is spent stays a bound.
LEMMA Spending ==
    ASSUME NEW what \in {"learns", "presses", "noise"}, Spend(what), Started
    PROVE  /\ budget' \in [learns : 0 .. MaxLearns, presses : 0 .. MaxPresses, noise : 0 .. MaxNoise]
           /\ what # "learns" => budget'.learns = budget.learns
<1>1. /\ budget \in [learns : 0 .. MaxLearns, presses : 0 .. MaxPresses, noise : 0 .. MaxNoise]
      /\ budget[what] > 0 /\ budget' = [budget EXCEPT ![what] = @ - 1]
  BY DEF Started, Spend
<1>2. CASE what = "learns"
  BY <1>1, <1>2, Bounds
<1>3. CASE what = "presses"
  BY <1>1, <1>3, Bounds
<1>4. CASE what = "noise"
  BY <1>1, <1>4, Bounds
<1> QED
  BY <1>2, <1>3, <1>4

LEMMA SendKeeps ==
    ASSUME ConsoleInv, SendOnly
    PROVE  ConsoleInv'
<1>1. ConsoleTypeOK /\ Started /\ buffer \in Seq(Pieces)
  BY TypedParts DEF ConsoleInv
<1>2. PICK add \in {<<>>, <<Frame("head", "none"), Frame("body", "none")>>} : buffer' = buffer \o add
  BY <1>1, ConcatEmptySeq DEF SendOnly
<1>3. add \in Seq(Pieces)
  <2>1. Frame("head", "none") \in Pieces /\ Frame("body", "none") \in Pieces
    BY DEF Frame, Pieces
  <2> DEFINE pair == <<Frame("head", "none"), Frame("body", "none")>>
  <2>2. pair \in Seq(Pieces)
    BY <2>1
  <2>3. <<>> \in Seq(Pieces)
    OBVIOUS
  <2> HIDE DEF pair
  <2>4. add = <<>> \/ add = pair
    BY <1>2 DEF pair
  <2> QED BY <2>2, <2>3, <2>4
<1>4. /\ budget' \in [learns : 0 .. MaxLearns, presses : 0 .. MaxPresses, noise : 0 .. MaxNoise]
      /\ budget'.learns = budget.learns
  BY <1>1, Spending DEF SendOnly
<1>5. /\ fresh' = FALSE /\ pressed' = {} /\ strays' = 0 /\ spoilt' = FALSE
      /\ UNCHANGED <<conn, connects, learning, worker, last, source>>
  BY DEF SendOnly, HearsAnew
<1>6. Appends(add)
  BY <1>1, <1>2, <1>3, <1>4, <1>5, TypedParts DEF Appends
<1> QED
  BY <1>6, AppendsKeeps

LEMMA PressKeeps ==
    ASSUME ConsoleInv, NEW k \in Keys, PressKey(k)
    PROVE  ConsoleInv'
<1>1. ConsoleTypeOK /\ Started /\ buffer \in Seq(Pieces) /\ fresh \in BOOLEAN /\ pressed \subseteq Keys
      /\ strays \in Nat /\ spoilt \in BOOLEAN
  BY TypedParts DEF ConsoleInv
<1>2. PICK garbled \in BOOLEAN :
         /\ buffer' = IF conn = 0 THEN buffer
                      ELSE buffer \o <<Frame("head", k), Frame(IF garbled THEN "garbled" ELSE "body", k)>>
         /\ pressed' = IF fresh /\ conn # 0 /\ ~garbled THEN pressed \union {k} ELSE pressed
         /\ spoilt' = (spoilt \/ (fresh /\ garbled))
  BY DEF PressKey
<1>3. /\ budget' \in [learns : 0 .. MaxLearns, presses : 0 .. MaxPresses, noise : 0 .. MaxNoise]
      /\ budget'.learns = budget.learns
  BY <1>1, Spending DEF PressKey
<1>4. /\ learning' \in BOOLEAN /\ spoilt' \in BOOLEAN
      /\ UNCHANGED <<conn, connects, worker, last, fresh, strays, source>>
  BY <1>1, <1>2, Zenon DEF PressKey
<1> DEFINE first == Frame("head", k)
           second == Frame(IF garbled THEN "garbled" ELSE "body", k)
<1>5. /\ first \in Pieces /\ second \in Pieces /\ first.part = "head"
      /\ second.of = k /\ (second.part = "body" <=> ~garbled)
  BY DEF Frame, Pieces
<1> HIDE DEF first, second
<1>6. CASE conn = 0
  <2>1. buffer' = buffer \o <<>> /\ pressed' = pressed /\ <<>> \in Seq(Pieces)
    BY <1>1, <1>2, <1>6, ConcatEmptySeq
  <2>2. Appends(<<>>)
    BY <1>1, <1>3, <1>4, <2>1 DEF Appends
  <2> QED BY <2>2, AppendsKeeps
<1>7. CASE conn # 0
  <2> DEFINE add == <<first, second>>
  <2>1. add \in Seq(Pieces) /\ DOMAIN add = {1, 2} /\ add[1] = first /\ add[2] = second
    BY <1>5
  <2>2. /\ buffer' = buffer \o add
        /\ pressed' = IF fresh /\ ~garbled THEN pressed \union {k} ELSE pressed
    BY <1>2, <1>7 DEF first, second
  <2> HIDE DEF add
  <2>3. \A i \in DOMAIN add : add[i].part = "body" => add[i].of = k /\ ~garbled
    BY <1>5, <2>1
  <2>4. /\ pressed \subseteq pressed' /\ pressed' \subseteq Keys /\ (fresh /\ ~garbled => k \in pressed')
    BY <1>1, <2>2
  <2>5. Appends(add)
    <3>1. fresh' => \A i \in DOMAIN add : add[i].part = "body" => add[i].of \in pressed' \union {"none"}
      BY <1>4, <2>3, <2>4
    <3> QED BY <1>1, <1>3, <1>4, <2>1, <2>2, <2>4, <3>1 DEF Appends
  <2> QED BY <2>5, AppendsKeeps
<1> QED
  BY <1>6, <1>7

LEMMA StrayKeeps ==
    ASSUME ConsoleInv, StrayByte
    PROVE  ConsoleInv'
<1>1. /\ ConsoleTypeOK /\ Started /\ buffer \in Seq(Pieces)
      /\ fresh \in BOOLEAN /\ pressed \subseteq Keys /\ learning \in BOOLEAN /\ strays \in Nat
      /\ spoilt \in BOOLEAN
  BY TypedParts DEF ConsoleInv
<1>2. PICK looks \in {"noise", "fake"} : buffer' = Append(buffer, Stray(looks))
  BY DEF StrayByte
<1>3. /\ budget' \in [learns : 0 .. MaxLearns, presses : 0 .. MaxPresses, noise : 0 .. MaxNoise]
      /\ budget'.learns = budget.learns
  BY <1>1, Spending DEF StrayByte
<1>4. /\ UNCHANGED <<conn, connects, learning, worker, last, fresh, pressed, source>>
      /\ strays' \in Nat /\ spoilt' \in BOOLEAN
  BY <1>1 DEF StrayByte
<1>5. Stray(looks) \in Pieces /\ Stray(looks).part # "body"
  BY DEF Stray, Pieces
<1> DEFINE piece == Stray(looks)
           add == <<piece>>
<1> HIDE DEF piece
<1>6. add \in Seq(Pieces) /\ DOMAIN add = {1} /\ add[1] = piece
  BY <1>5 DEF piece
<1>7. buffer' = buffer \o add
  BY <1>1, <1>2, <1>5, AppendIsConcat DEF piece
<1> HIDE DEF add
<1>8. Appends(add)
  BY <1>1, <1>3, <1>4, <1>5, <1>6, <1>7 DEF Appends, piece
<1> QED
  BY <1>8, AppendsKeeps

LEMMA ConsoleStepInv == ConsoleInv /\ [ConsoleNext]_consoleVars => ConsoleInv'
<1> SUFFICES ASSUME ConsoleInv, [ConsoleNext]_consoleVars PROVE ConsoleInv'
  OBVIOUS
<1>1. ASSUME NEW w \in Workers, WorkerStep(w) PROVE ConsoleInv'
  BY <1>1, WorkerEffect, WorkerKeeps DEF ConsoleInv
<1>2. ASSUME NEW w \in Workers, StartLearn(w) PROVE ConsoleInv'
  BY <1>2, ClickKeeps
<1>3. CASE Connect \/ Disconnect
  BY <1>3, PortKeeps
<1>4. CASE SendOnly
  BY <1>4, SendKeeps
<1>5. ASSUME NEW k \in Keys, PressKey(k) PROVE ConsoleInv'
  BY <1>5, PressKeeps
<1>6. CASE StrayByte
  BY <1>6, StrayKeeps
<1>7. CASE UNCHANGED consoleVars
  BY <1>7 DEF consoleVars, port, witnesses, heard, ConsoleInv, ConsoleTypeOK, Started, OneAtATime,
     RepliesHeard, LearnsWhatWasPressed, Active
<1> QED
  BY <1>1, <1>2, <1>3, <1>4, <1>5, <1>6, <1>7 DEF ConsoleNext

LEMMA ConsoleInvariant == ConsoleSpec => []ConsoleInv
BY ConsoleInitInv, ConsoleStepInv, PTL DEF ConsoleSpec

\* Port, buffer, threads and what was learnt keep their types, for any number of
\* threads, attempts and bytes (zjiot_console.py, serial_win.py).
THEOREM ConsoleTypeCorrect == ConsoleSpec => []ConsoleTypeOK
<1>1. ConsoleInv => ConsoleTypeOK
  BY DEF ConsoleInv
<1> QED BY <1>1, ConsoleInvariant, PTL

\* A learn that was clicked in order captures a key that was held to the module
\* since, whatever the wire, the other threads and the window do (serial_win.py:106-143).
THEOREM LearntWasPressed == ConsoleSpec => []LearnsWhatWasPressed
<1>1. ConsoleInv => LearnsWhatWasPressed
  BY DEF ConsoleInv
<1> QED BY <1>1, ConsoleInvariant, PTL

-----------------------------------------------------------------------------
(* Stray bytes. *)

\* A learn that began in order met nothing but stray bytes, and not too many.
FewStrays == fresh /\ ~spoilt /\ strays < MaxResync

NoiseIn(b) == {i \in DOMAIN b : b[i].part = "noise"}

\* Stray bytes and whole replies, but for a head that was taken from the front.
Framed(b, headTaken) ==
    /\ \A i \in DOMAIN b : b[i].part \in {"noise", "head", "body"}
    /\ \A i \in DOMAIN b : b[i].part = "head" => i + 1 \in DOMAIN b /\ b[i + 1].part = "body"
    /\ \A i \in DOMAIN b : b[i].part = "body" => IF i = 1 THEN headTaken ELSE b[i - 1].part = "head"
    /\ headTaken => 1 \in DOMAIN b /\ b[1].part = "body"

\* The thread is where the frames are, it has skipped no more than there was to
\* skip, and a reply that came is there to be read.
InStep(w) ==
    /\ worker[w].pc \in {"write", "scan", "rest"} /\ Framed(buffer, worker[w].pc = "rest")
    /\ IsFiniteSet(NoiseIn(buffer)) /\ worker[w].skipped + Cardinality(NoiseIn(buffer)) <= strays
    /\ pressed # {} => \E i \in DOMAIN buffer : buffer[i].part = "body"

RepliesWait == FewStrays => \A w \in Workers : Active(w) /\ Holds(w) => InStep(w)

\* The first piece read, the stray bytes that are left are the others.
LEMMA NoiseOfRest ==
    ASSUME NEW b \in Seq(Pieces), b # <<>>, IsFiniteSet(NoiseIn(b))
    PROVE  LET rest == SubSeq(b, 2, Len(b))
           IN  /\ IsFiniteSet(NoiseIn(rest))
               /\ Cardinality(NoiseIn(rest)) \in Nat /\ Cardinality(NoiseIn(b)) \in Nat
               /\ Cardinality(NoiseIn(rest)) <= Cardinality(NoiseIn(b))
               /\ b[1].part = "noise" => Cardinality(NoiseIn(rest)) + 1 <= Cardinality(NoiseIn(b))
<1> DEFINE rest == SubSeq(b, 2, Len(b))
           others == NoiseIn(b) \ {1}
           shift == [i \in NoiseIn(rest) |-> i + 1]
<1>1. 1 \in 1 .. Len(b) /\ 1 + 1 = 2 /\ DOMAIN b = 1 .. Len(b) /\ Len(b) \in Nat
  BY TailIsRest, LenProperties
<1>2. DOMAIN rest = 1 .. Len(b) - 1 /\ \A i \in DOMAIN rest : i + 1 \in DOMAIN b /\ rest[i] = b[i + 1]
  BY <1>1, RestOfBuffer
<1> HIDE DEF rest
<1>3. shift \in Injection(NoiseIn(rest), others)
  <2>1. \A i \in NoiseIn(rest) : i + 1 \in others /\ i \in Int
    BY <1>1, <1>2 DEF NoiseIn
  <2>2. shift \in [NoiseIn(rest) -> others]
    BY <2>1
  <2>3. \A i, j \in NoiseIn(rest) : shift[i] = shift[j] => i = j
    BY <2>1
  <2> HIDE DEF shift, others
  <2> QED BY <2>2, <2>3 DEF Injection, IsInjective
<1>4. /\ IsFiniteSet(others)
      /\ Cardinality(others) = IF 1 \in NoiseIn(b) THEN Cardinality(NoiseIn(b)) - 1 ELSE Cardinality(NoiseIn(b))
  BY FS_RemoveElement
<1> HIDE DEF shift, others
<1>5. IsFiniteSet(NoiseIn(rest)) /\ Cardinality(NoiseIn(rest)) <= Cardinality(others)
  BY <1>3, <1>4, FS_Injection
<1>6. Cardinality(NoiseIn(rest)) \in Nat /\ Cardinality(NoiseIn(b)) \in Nat
  BY <1>5, FS_CardinalityType
<1>7. b[1].part = "noise" => 1 \in NoiseIn(b)
  BY <1>1 DEF NoiseIn
<1> QED
  BY <1>4, <1>5, <1>6, <1>7 DEF rest

\* Where a sequence is extended.
LEMMA Extended ==
    ASSUME NEW b \in Seq(Pieces), NEW add \in Seq(Pieces)
    PROVE  /\ Len(b) \in Nat /\ Len(add) \in Nat
           /\ DOMAIN b = 1 .. Len(b) /\ DOMAIN add = 1 .. Len(add)
           /\ DOMAIN (b \o add) = 1 .. Len(b) + Len(add)
           /\ \A i \in DOMAIN b : (b \o add)[i] = b[i]
           /\ \A j \in DOMAIN add : (b \o add)[Len(b) + j] = add[j]
<1> DEFINE all == b \o add
<1>1. /\ all \in Seq(Pieces) /\ Len(all) = Len(b) + Len(add)
      /\ \A i \in 1 .. Len(b) + Len(add) : all[i] = IF i <= Len(b) THEN b[i] ELSE add[i - Len(b)]
  BY ConcatProperties
<1>2. /\ Len(b) \in Nat /\ Len(add) \in Nat /\ DOMAIN b = 1 .. Len(b) /\ DOMAIN add = 1 .. Len(add)
      /\ DOMAIN all = 1 .. Len(b) + Len(add)
  BY <1>1, LenProperties
<1> HIDE DEF all
<1>3. \A i \in DOMAIN b : all[i] = b[i]
  BY <1>1, <1>2
<1>4. ASSUME NEW j \in DOMAIN add PROVE all[Len(b) + j] = add[j]
  <2>1. Len(b) + j \in 1 .. Len(b) + Len(add) /\ ~(Len(b) + j <= Len(b)) /\ (Len(b) + j) - Len(b) = j
    BY <1>2
  <2> QED BY <1>1, <2>1
<1> QED
  BY <1>2, <1>3, <1>4 DEF all

\* The front of a framed buffer is read: a stray byte or a head.
LEMMA FramedRest ==
    ASSUME NEW b \in Seq(Pieces), b # <<>>, Framed(b, FALSE)
    PROVE  /\ b[1].part \in {"noise", "head"}
           /\ Framed(SubSeq(b, 2, Len(b)), b[1].part = "head")
           /\ (\E i \in DOMAIN b : b[i].part = "body")
                 => \E i \in DOMAIN SubSeq(b, 2, Len(b)) : SubSeq(b, 2, Len(b))[i].part = "body"
<1> DEFINE rest == SubSeq(b, 2, Len(b))
<1>1. 1 \in 1 .. Len(b) /\ 1 + 1 = 2 /\ DOMAIN b = 1 .. Len(b) /\ Len(b) \in Nat
  BY TailIsRest, LenProperties
<1>2. DOMAIN rest = 1 .. Len(b) - 1 /\ \A i \in DOMAIN rest : i + 1 \in DOMAIN b /\ rest[i] = b[i + 1]
  BY <1>1, RestOfBuffer
<1> HIDE DEF rest
<1>3. b[1].part \in {"noise", "head"}
  BY <1>1 DEF Framed
<1>4. \A i \in DOMAIN b : i # 1 => i - 1 \in DOMAIN rest /\ rest[i - 1] = b[i]
  <2> SUFFICES ASSUME NEW i \in DOMAIN b, i # 1 PROVE i - 1 \in DOMAIN rest /\ rest[i - 1] = b[i]
    OBVIOUS
  <2>1. i - 1 \in DOMAIN rest /\ (i - 1) + 1 = i
    BY <1>1, <1>2
  <2> QED BY <1>2, <2>1
<1>5. Framed(rest, b[1].part = "head")
  <2>1. \A i \in DOMAIN rest : rest[i].part \in {"noise", "head", "body"}
    BY <1>2 DEF Framed
  <2>2. ASSUME NEW i \in DOMAIN rest, rest[i].part = "head"
        PROVE  i + 1 \in DOMAIN rest /\ rest[i + 1].part = "body"
    <3>1. i + 1 \in DOMAIN b /\ b[i + 1].part = "head" /\ i \in Int
      BY <1>1, <1>2, <2>2
    <3>2. (i + 1) + 1 \in DOMAIN b /\ b[(i + 1) + 1].part = "body"
      BY <3>1 DEF Framed
    <3>3. (i + 1) + 1 # 1 /\ ((i + 1) + 1) - 1 = i + 1
      BY <1>1, <3>1
    <3> QED BY <1>4, <3>2, <3>3
  <2>3. ASSUME NEW i \in DOMAIN rest, rest[i].part = "body"
        PROVE  IF i = 1 THEN b[1].part = "head" ELSE rest[i - 1].part = "head"
    <3>1. i + 1 \in DOMAIN b /\ b[i + 1].part = "body" /\ i \in Int /\ i + 1 # 1 /\ (i + 1) - 1 = i
      BY <1>1, <1>2, <2>3
    <3>2. b[i].part = "head"
      BY <3>1 DEF Framed
    <3>3. CASE i = 1
      BY <3>2, <3>3
    <3>4. CASE i # 1
      <4>1. i \in DOMAIN b
        BY <1>1, <1>2
      <4> QED BY <1>4, <3>2, <3>4, <4>1
    <3> QED BY <3>3, <3>4
  <2>4. b[1].part = "head" => 1 \in DOMAIN rest /\ rest[1].part = "body"
    <3>1. b[1].part = "head" => 2 \in DOMAIN b /\ b[2].part = "body"
      BY <1>1 DEF Framed
    <3>2. 2 \in DOMAIN b => 1 \in DOMAIN rest /\ rest[1] = b[2]
      BY <1>4
    <3> QED BY <3>1, <3>2
  <2> HIDE DEF rest
  <2> QED BY <2>1, <2>2, <2>3, <2>4 DEF Framed
<1>6. ASSUME NEW i \in DOMAIN b, b[i].part = "body"
      PROVE  \E j \in DOMAIN rest : rest[j].part = "body"
  <2>1. i # 1
    BY <1>3, <1>6
  <2> QED BY <1>4, <1>6, <2>1
<1> QED
  BY <1>3, <1>5, <1>6 DEF rest

\* Stray bytes and whole replies are put behind a framed buffer.
LEMMA FramedMore ==
    ASSUME NEW b \in Seq(Pieces), NEW taken \in BOOLEAN, Framed(b, taken),
           NEW add \in Seq(Pieces), Framed(add, FALSE)
    PROVE  Framed(b \o add, taken)
<1> DEFINE all == b \o add
<1>1. /\ Len(b) \in Nat /\ Len(add) \in Nat
      /\ DOMAIN b = 1 .. Len(b) /\ DOMAIN add = 1 .. Len(add)
      /\ DOMAIN all = 1 .. Len(b) + Len(add)
      /\ \A i \in DOMAIN b : all[i] = b[i]
      /\ \A j \in DOMAIN add : all[Len(b) + j] = add[j]
  BY Extended
<1> HIDE DEF all
<1>2. \A i \in DOMAIN all : i \in DOMAIN b \/ \E j \in DOMAIN add : i = Len(b) + j
  <2> SUFFICES ASSUME NEW i \in DOMAIN all, i \notin DOMAIN b
               PROVE  \E j \in DOMAIN add : i = Len(b) + j
    OBVIOUS
  <2>1. i - Len(b) \in DOMAIN add /\ i = Len(b) + (i - Len(b))
    BY <1>1
  <2> QED BY <2>1
<1>3. \A i \in DOMAIN b : i \in DOMAIN all
  BY <1>1
<1>4. \A j \in DOMAIN add : Len(b) + j \in DOMAIN all
  BY <1>1
<1>5. \A i \in DOMAIN all : all[i].part \in {"noise", "head", "body"}
  BY <1>1, <1>2 DEF Framed
<1>6. ASSUME NEW i \in DOMAIN all, all[i].part = "head"
      PROVE  i + 1 \in DOMAIN all /\ all[i + 1].part = "body"
  <2>1. CASE i \in DOMAIN b
    <3>1. i + 1 \in DOMAIN b /\ b[i + 1].part = "body"
      BY <1>1, <1>6, <2>1 DEF Framed
    <3> QED BY <1>1, <1>3, <3>1
  <2>2. ASSUME NEW j \in DOMAIN add, i = Len(b) + j PROVE i + 1 \in DOMAIN all /\ all[i + 1].part = "body"
    <3>1. j + 1 \in DOMAIN add /\ add[j + 1].part = "body"
      BY <1>1, <1>6, <2>2 DEF Framed
    <3>2. i + 1 = Len(b) + (j + 1)
      BY <1>1, <2>2
    <3> QED BY <1>1, <1>4, <3>1, <3>2
  <2> QED BY <1>2, <2>1, <2>2
<1>7. ASSUME NEW i \in DOMAIN all, all[i].part = "body"
      PROVE  IF i = 1 THEN taken ELSE all[i - 1].part = "head"
  <2>1. CASE i \in DOMAIN b
    <3>1. IF i = 1 THEN taken ELSE b[i - 1].part = "head"
      BY <1>1, <1>7, <2>1 DEF Framed
    <3>2. i # 1 => i - 1 \in DOMAIN b
      BY <1>1, <2>1
    <3> QED BY <1>1, <3>1, <3>2
  <2>2. ASSUME NEW j \in DOMAIN add, i = Len(b) + j
        PROVE  IF i = 1 THEN taken ELSE all[i - 1].part = "head"
    <3>1. j # 1 /\ add[j - 1].part = "head"
      BY <1>1, <1>7, <2>2 DEF Framed
    <3>2. j - 1 \in DOMAIN add /\ i - 1 = Len(b) + (j - 1) /\ i # 1
      BY <1>1, <2>2, <3>1
    <3> QED BY <1>1, <3>1, <3>2
  <2> QED BY <1>2, <2>1, <2>2
<1>8. taken => 1 \in DOMAIN all /\ all[1].part = "body"
  BY <1>1, <1>3 DEF Framed
<1> QED
  BY <1>5, <1>6, <1>7, <1>8 DEF Framed, all

\* One stray byte more, or none.
LEMMA NoiseOfMore ==
    ASSUME NEW b \in Seq(Pieces), NEW add \in Seq(Pieces), IsFiniteSet(NoiseIn(b)), NEW n \in {0, 1},
           n = 0 => NoiseIn(add) = {}, n = 1 => DOMAIN add = {1}
    PROVE  /\ IsFiniteSet(NoiseIn(b \o add))
           /\ Cardinality(NoiseIn(b \o add)) \in Nat /\ Cardinality(NoiseIn(b)) \in Nat
           /\ Cardinality(NoiseIn(b \o add)) <= Cardinality(NoiseIn(b)) + n
<1> DEFINE all == b \o add
           more == NoiseIn(b) \cup {Len(b) + 1}
<1>1. /\ Len(b) \in Nat /\ Len(add) \in Nat
      /\ DOMAIN b = 1 .. Len(b) /\ DOMAIN add = 1 .. Len(add)
      /\ DOMAIN all = 1 .. Len(b) + Len(add)
      /\ \A i \in DOMAIN b : all[i] = b[i]
      /\ \A j \in DOMAIN add : all[Len(b) + j] = add[j]
  BY Extended
<1> HIDE DEF all
<1>2. ASSUME NEW i \in NoiseIn(all) PROVE i \in NoiseIn(b) \/ (n = 1 /\ i = Len(b) + 1)
  <2>1. CASE i \in DOMAIN b
    BY <1>1, <1>2, <2>1 DEF NoiseIn
  <2>2. CASE i \notin DOMAIN b
    <3>1. i - Len(b) \in DOMAIN add /\ Len(b) + (i - Len(b)) = i /\ i \in Int
      BY <1>1, <1>2, <2>2 DEF NoiseIn
    <3>2. i - Len(b) \in NoiseIn(add)
      BY <1>1, <1>2, <3>1 DEF NoiseIn
    <3>3. n = 1 /\ i - Len(b) = 1
      BY <3>1, <3>2
    <3> QED BY <1>1, <3>1, <3>3
  <2> QED BY <2>1, <2>2
<1>3. /\ IsFiniteSet(more) /\ Cardinality(NoiseIn(b)) \in Nat
      /\ Cardinality(more) <= Cardinality(NoiseIn(b)) + 1
  <2>1. Cardinality(NoiseIn(b)) \in Nat
    BY FS_CardinalityType
  <2>2. /\ IsFiniteSet(more)
        /\ Cardinality(more) = IF Len(b) + 1 \in NoiseIn(b) THEN Cardinality(NoiseIn(b))
                                                          ELSE Cardinality(NoiseIn(b)) + 1
    BY FS_AddElement
  <2> HIDE DEF more
  <2> QED BY <2>1, <2>2
<1>4. CASE n = 0
  <2>1. NoiseIn(all) \in SUBSET NoiseIn(b)
    BY <1>2, <1>4
  <2>2. IsFiniteSet(NoiseIn(all)) /\ Cardinality(NoiseIn(all)) <= Cardinality(NoiseIn(b))
    BY <2>1, FS_Subset
  <2> QED BY <1>3, <1>4, <2>2, FS_CardinalityType DEF all
<1>5. CASE n = 1
  <2>1. NoiseIn(all) \in SUBSET more
    BY <1>2
  <2> HIDE DEF more
  <2>2. IsFiniteSet(NoiseIn(all)) /\ Cardinality(NoiseIn(all)) <= Cardinality(more)
    BY <1>3, <2>1, FS_Subset
  <2>3. Cardinality(NoiseIn(all)) \in Nat /\ Cardinality(more) \in Nat
    BY <1>3, <2>2, FS_CardinalityType
  <2> QED BY <1>3, <1>5, <2>2, <2>3 DEF all
<1> QED
  BY <1>4, <1>5

\* What comes, a stray byte or a whole reply, comes behind what is there.
LEMMA MoreWaits ==
    ASSUME ConsoleInv, RepliesWait, NEW add \in Seq(Pieces), NEW n \in {0, 1},
           n = 0 => NoiseIn(add) = {}, n = 1 => DOMAIN add = {1},
           buffer' = buffer \o add, UNCHANGED <<conn, worker>>,
           FewStrays' => FewStrays /\ Framed(add, FALSE) /\ strays' = strays + n,
           pressed' # pressed => \E j \in DOMAIN add : add[j].part = "body"
    PROVE  RepliesWait'
<1> SUFFICES ASSUME FewStrays', NEW w \in Workers, Active(w)', Holds(w)'
             PROVE  InStep(w)'
  BY DEF RepliesWait
<1>1. /\ buffer \in Seq(Pieces) /\ worker[w] \in Threads /\ strays \in Nat
      /\ worker'[w] = worker[w] /\ worker[w].skipped \in Int
  BY TypedParts, Bounds DEF ConsoleInv, Threads
<1>2. InStep(w) /\ Framed(add, FALSE) /\ strays' = strays + n
  BY <1>1 DEF RepliesWait, Active, Holds
<1>3. Framed(buffer', worker'[w].pc = "rest")
  BY <1>1, <1>2, FramedMore DEF InStep
<1>4. /\ IsFiniteSet(NoiseIn(buffer'))
      /\ worker'[w].skipped + Cardinality(NoiseIn(buffer')) <= strays'
  <2>1. IsFiniteSet(NoiseIn(buffer)) /\ worker[w].skipped + Cardinality(NoiseIn(buffer)) <= strays
    BY <1>2 DEF InStep
  <2>2. /\ IsFiniteSet(NoiseIn(buffer')) /\ Cardinality(NoiseIn(buffer')) \in Nat
        /\ Cardinality(NoiseIn(buffer)) \in Nat
        /\ Cardinality(NoiseIn(buffer')) <= Cardinality(NoiseIn(buffer)) + n
    BY <1>1, <2>1, NoiseOfMore
  <2> QED BY <1>1, <1>2, <2>1, <2>2
<1>5. ASSUME pressed' # {} PROVE \E i \in DOMAIN buffer' : buffer'[i].part = "body"
  <2>1. /\ Len(buffer) \in Nat
        /\ DOMAIN buffer = 1 .. Len(buffer) /\ DOMAIN add = 1 .. Len(add) /\ Len(add) \in Nat
        /\ DOMAIN buffer' = 1 .. Len(buffer) + Len(add)
        /\ \A i \in DOMAIN buffer : buffer'[i] = buffer[i]
        /\ \A j \in DOMAIN add : buffer'[Len(buffer) + j] = add[j]
    BY <1>1, Extended
  <2>2. CASE pressed' = pressed
    <3>1. PICK i \in DOMAIN buffer : buffer[i].part = "body"
      BY <1>2, <1>5, <2>2 DEF InStep
    <3>2. i \in DOMAIN buffer' /\ buffer'[i] = buffer[i]
      BY <2>1
    <3> QED BY <3>1, <3>2
  <2>3. CASE pressed' # pressed
    <3>1. PICK j \in DOMAIN add : add[j].part = "body"
      BY <2>3
    <3>2. Len(buffer) + j \in DOMAIN buffer' /\ buffer'[Len(buffer) + j] = add[j]
      BY <2>1
    <3> QED BY <3>1, <3>2
  <2> QED BY <2>2, <2>3
<1>6. worker'[w].pc \in {"write", "scan", "rest"}
  BY <1>1, <1>2 DEF InStep
<1> QED
  BY <1>3, <1>4, <1>5, <1>6 DEF InStep

\* The thread skips the stray bytes, takes the head and reads the reply; it ends
\* for want of an answer or answered (serial_win.py:106-143).
LEMMA StepWaits ==
    ASSUME ConsoleInv, RepliesWait, FewStrays, NEW w \in Workers, WorkerStep(w), Holds(w)
    PROVE  /\ Active(w)' => InStep(w)'
           /\ worker'[w].pc = "off" => buffer = <<>> \/ Answered(w)
<1>1. /\ ConsoleTypeOK /\ worker \in [Workers -> Threads] /\ worker[w] \in Threads
      /\ buffer \in Seq(Pieces) /\ strays \in Nat /\ strays < MaxResync
      /\ worker[w].skipped \in Nat
  BY TypedParts, Bounds DEF ConsoleInv, Threads, FewStrays
<1>2. Effect(w)
  BY <1>1, WorkerEffect
<1>3. /\ Active(w) /\ InStep(w) /\ UNCHANGED <<pressed, strays>>
  BY <1>2 DEF Effect, heard, RepliesWait
<1>4. /\ worker[w].pc \in {"write", "scan", "rest"} /\ Framed(buffer, worker[w].pc = "rest")
      /\ IsFiniteSet(NoiseIn(buffer)) /\ worker[w].skipped + Cardinality(NoiseIn(buffer)) <= strays
      /\ pressed # {} => \E i \in DOMAIN buffer : buffer[i].part = "body"
      /\ Cardinality(NoiseIn(buffer)) \in Nat
  BY <1>3, FS_CardinalityType DEF InStep
<1>5. CASE WriteLearn(w)
  <2>1. /\ worker'[w].pc = "scan" /\ worker'[w].skipped = worker[w].skipped /\ worker[w].pc = "write"
        /\ buffer' = buffer
    BY <1>1, <1>5 DEF WriteLearn, Put, port, Threads
  <2>2. Framed(buffer', worker'[w].pc = "rest")
    BY <1>4, <2>1 DEF Framed
  <2> QED BY <1>3, <1>4, <2>1, <2>2 DEF InStep
<1>6. CASE ReadTimeout(w)
  <2>1. buffer = <<>> /\ buffer' = <<>> /\ GiveUpAttempt(w) /\ DOMAIN buffer' = {}
    BY <1>6 DEF ReadTimeout, port
  <2>2. ASSUME Active(w)' PROVE worker'[w].pc = "write" /\ worker'[w].skipped = 0
    <3> DEFINE new == [worker[w] EXCEPT !.pc = "write", !.attempt = @ + 1, !.skipped = 0]
    <3>1. worker[w].attempt # MaxAttempts
      BY <1>1, <2>1, <2>2 DEF GiveUpAttempt, Fails, Put, Off, Active
    <3>2. worker'[w] = new
      BY <1>1, <2>1, <3>1 DEF GiveUpAttempt, Put
    <3>3. new.pc = "write" /\ new.skipped = 0
      BY <1>1 DEF Threads
    <3> QED BY <3>2, <3>3
  <2>3. NoiseIn(buffer') = {} /\ Framed(buffer', FALSE)
    BY <2>1 DEF NoiseIn, Framed
  <2>4. pressed' = {}
    BY <1>3, <1>4, <2>1
  <2>5. IsFiniteSet({}) /\ Cardinality({}) = 0
    BY FS_EmptySet
  <2>6. ASSUME Active(w)' PROVE InStep(w)'
    <3>1. worker'[w].skipped + Cardinality(NoiseIn(buffer')) <= strays'
      BY <1>1, <1>3, <2>2, <2>3, <2>5, <2>6
    <3>2. Framed(buffer', worker'[w].pc = "rest")
      BY <2>2, <2>3, <2>6 DEF Framed
    <3> QED BY <2>2, <2>3, <2>4, <2>5, <2>6, <3>1, <3>2 DEF InStep
  <2> QED BY <2>1, <2>6
<1>7. CASE ScanByte(w)
  <2>1. worker[w].pc = "scan" /\ buffer # <<>> /\ Framed(buffer, FALSE)
    <3>1. worker[w].pc = "scan" /\ buffer # <<>>
      BY <1>7 DEF ScanByte
    <3> QED BY <1>4, <3>1 DEF Framed
  <2>2. Head(buffer) = buffer[1] /\ Tail(buffer) = SubSeq(buffer, 2, Len(buffer))
    BY <1>1, <2>1, TailIsRest
  <2>3. /\ Head(buffer).part \in {"noise", "head"} /\ Framed(Tail(buffer), Head(buffer).part = "head")
        /\ pressed # {} => \E i \in DOMAIN Tail(buffer) : Tail(buffer)[i].part = "body"
    BY <1>1, <1>4, <2>1, <2>2, FramedRest
  <2>4. /\ IsFiniteSet(NoiseIn(Tail(buffer))) /\ Cardinality(NoiseIn(Tail(buffer))) \in Nat
        /\ Cardinality(NoiseIn(Tail(buffer))) <= Cardinality(NoiseIn(buffer))
        /\ Head(buffer).part = "noise"
              => Cardinality(NoiseIn(Tail(buffer))) + 1 <= Cardinality(NoiseIn(buffer))
    BY <1>1, <1>4, <2>1, <2>2, NoiseOfRest
  <2>5. CASE Head(buffer).part = "noise"
    <3>1. worker[w].skipped + 1 # MaxResync
      BY <1>1, <1>4, <2>4, <2>5, Bounds
    <3>2. SkipByte(w)
      BY <1>7, <2>5 DEF ScanByte
    <3>3. /\ buffer' = Tail(buffer) /\ worker'[w].pc = "scan"
          /\ worker'[w].skipped = worker[w].skipped + 1
      BY <1>1, <2>1, <3>1, <3>2 DEF SkipByte, Put, Threads
    <3>4. worker'[w].skipped + Cardinality(NoiseIn(buffer')) <= strays'
      BY <1>1, <1>3, <1>4, <2>4, <2>5, <3>3
    <3>5. Framed(buffer', worker'[w].pc = "rest")
      BY <2>3, <2>5, <3>3 DEF Framed
    <3> QED BY <1>3, <2>3, <2>4, <3>3, <3>4, <3>5 DEF InStep
  <2>6. CASE Head(buffer).part = "head"
    <3>1. Read("rest", w)
      BY <1>7, <2>6 DEF ScanByte
    <3>2. /\ buffer' = Tail(buffer) /\ worker'[w].pc = "rest"
          /\ worker'[w].skipped = worker[w].skipped
      BY <1>1, <3>1 DEF Read, Put, Threads
    <3>3. worker'[w].skipped + Cardinality(NoiseIn(buffer')) <= strays'
      BY <1>1, <1>3, <1>4, <2>4, <3>2
    <3>4. Framed(buffer', worker'[w].pc = "rest")
      BY <2>3, <2>6, <3>2 DEF Framed
    <3> QED BY <1>3, <2>3, <2>4, <3>2, <3>3, <3>4 DEF InStep
  <2> QED BY <2>3, <2>5, <2>6
<1>8. worker[w].pc = "rest" => buffer # <<>> /\ Head(buffer).part = "body"
  <2> SUFFICES ASSUME worker[w].pc = "rest" PROVE buffer # <<>> /\ Head(buffer).part = "body"
    OBVIOUS
  <2>1. 1 \in DOMAIN buffer /\ buffer[1].part = "body"
    BY <1>4 DEF Framed
  <2>2. buffer # <<>>
    BY <2>1
  <2> QED BY <1>1, <2>1, <2>2, TailIsRest
<1>9. CASE ReadRest(w)
  <2>1. worker[w].pc = "rest" /\ buffer # <<>> /\ Accepts(Head(buffer))
    BY <1>8, <1>9 DEF ReadRest, Accepts
  <2>2. worker' = [worker EXCEPT ![w] = Off] /\ last' = Head(buffer).of /\ Head(buffer).part = "body"
        /\ source' = [fresh |-> fresh, keys |-> pressed, left |-> budget.learns]
    BY <1>9, <2>1 DEF ReadRest, Accepts, Learnt, Put
  <2>3. ~Active(w)' /\ Answered(w)
    BY <1>1, <2>2 DEF Active, Off, Answered
  <2> QED BY <2>3
<1>10. ~ReadMisaligned(w)
  BY <1>4, <1>8 DEF ReadMisaligned
<1>11. ~PortGone(w)
  BY DEF PortGone
<1> QED
  BY <1>5, <1>6, <1>7, <1>9, <1>10, <1>11 DEF WorkerStep

LEMMA PressWaits ==
    ASSUME ConsoleInv, RepliesWait, NEW k \in Keys, PressKey(k)
    PROVE  RepliesWait'
<1>1. buffer \in Seq(Pieces) /\ spoilt \in BOOLEAN /\ strays \in Nat
  BY TypedParts DEF ConsoleInv
<1>2. PICK garbled \in BOOLEAN :
         /\ buffer' = IF conn = 0 THEN buffer
                      ELSE buffer \o <<Frame("head", k), Frame(IF garbled THEN "garbled" ELSE "body", k)>>
         /\ pressed' = IF fresh /\ conn # 0 /\ ~garbled THEN pressed \union {k} ELSE pressed
         /\ spoilt' = (spoilt \/ (fresh /\ garbled))
  BY DEF PressKey
<1>3. UNCHANGED <<conn, worker, fresh, strays>>
  BY DEF PressKey
<1>4. FewStrays' => FewStrays /\ ~garbled
  BY <1>2, <1>3 DEF FewStrays
<1> DEFINE first == Frame("head", k)
           second == Frame(IF garbled THEN "garbled" ELSE "body", k)
           add == IF conn = 0 THEN <<>> ELSE <<first, second>>
<1>5. /\ first \in Pieces /\ second \in Pieces /\ first.part = "head"
      /\ second.part \in {"body", "garbled"} /\ (second.part = "body" <=> ~garbled)
  BY DEF Frame, Pieces
<1>6. buffer' = buffer \o add
  BY <1>1, <1>2, ConcatEmptySeq
<1> HIDE DEF first, second
<1>7. CASE conn = 0
  <2>1. add = <<>> /\ add \in Seq(Pieces) /\ DOMAIN add = {} /\ pressed' = pressed
    BY <1>2, <1>7
  <2> HIDE DEF add
  <2>2. NoiseIn(add) = {} /\ Framed(add, FALSE)
    BY <2>1 DEF NoiseIn, Framed
  <2>3. FewStrays' => FewStrays /\ Framed(add, FALSE) /\ strays' = strays + 0
    <3>1. strays' = strays + 0
      BY <1>1, <1>3
    <3> QED BY <1>4, <2>2, <3>1, Zenon
  <2>4. 0 \in {0, 1} /\ 0 # 1
    OBVIOUS
  <2> QED BY <1>3, <1>6, <2>1, <2>2, <2>3, <2>4, MoreWaits
<1>8. CASE conn # 0
  <2>1. add \in Seq(Pieces) /\ DOMAIN add = {1, 2} /\ add[1] = first /\ add[2] = second
    BY <1>5, <1>8
  <2> HIDE DEF add
  <2>2. NoiseIn(add) = {}
    BY <1>5, <2>1 DEF NoiseIn
  <2>3. ~garbled => Framed(add, FALSE)
    BY <1>5, <2>1 DEF Framed
  <2>4. FewStrays' => FewStrays /\ Framed(add, FALSE) /\ strays' = strays + 0
    <3>1. strays' = strays + 0
      BY <1>1, <1>3
    <3> QED BY <1>4, <2>3, <3>1, Zenon
  <2>5. pressed' # pressed => \E j \in DOMAIN add : add[j].part = "body"
    BY <1>2, <1>5, <2>1
  <2> QED BY <1>3, <1>6, <2>1, <2>2, <2>4, <2>5, MoreWaits
<1> QED
  BY <1>7, <1>8

LEMMA StrayWaits ==
    ASSUME ConsoleInv, RepliesWait, StrayByte
    PROVE  RepliesWait'
<1>1. ConsoleTypeOK /\ buffer \in Seq(Pieces) /\ strays \in Nat /\ spoilt \in BOOLEAN
  BY TypedParts DEF ConsoleInv
<1>2. PICK looks \in {"noise", "fake"} :
         /\ buffer' = Append(buffer, Stray(looks))
         /\ strays' = IF fresh /\ looks = "noise" THEN strays + 1 ELSE strays
         /\ spoilt' = (spoilt \/ (fresh /\ looks = "fake"))
  BY DEF StrayByte
<1>3. UNCHANGED <<conn, worker, fresh, pressed>>
  BY DEF StrayByte
<1>4. ASSUME FewStrays' PROVE FewStrays /\ looks = "noise" /\ strays' = strays + 1
  <2>1. fresh /\ ~spoilt /\ looks = "noise" /\ strays' = strays + 1
    BY <1>2, <1>3, <1>4 DEF FewStrays
  <2>2. strays < MaxResync
    BY <1>1, <1>4, <2>1, Bounds DEF FewStrays
  <2> QED BY <2>1, <2>2 DEF FewStrays
<1> DEFINE piece == Stray(looks)
           add == <<piece>>
<1>5. piece \in Pieces /\ piece.part = looks
  BY DEF Stray, Pieces
<1> HIDE DEF piece
<1>6. add \in Seq(Pieces) /\ DOMAIN add = {1} /\ add[1] = piece
  BY <1>5
<1>7. buffer' = buffer \o add
  BY <1>1, <1>2, <1>5, AppendIsConcat DEF piece
<1> HIDE DEF add
<1>8. looks = "noise" => Framed(add, FALSE)
  BY <1>5, <1>6 DEF Framed
<1>9. FewStrays' => FewStrays /\ Framed(add, FALSE) /\ strays' = strays + 1
  BY <1>4, <1>8
<1>10. 1 \in {0, 1} /\ 1 # 0
  OBVIOUS
<1> QED
  BY <1>3, <1>6, <1>7, <1>9, <1>10, MoreWaits

\* A click that begins in order finds nothing to skip; a port that is opened or
\* closed is another than the threads were started on.
LEMMA ClickWaits ==
    ASSUME ConsoleInv, NEW w \in Workers, StartLearn(w)
    PROVE  RepliesWait'
<1> SUFFICES ASSUME FewStrays', NEW v \in Workers, Active(v)', Holds(v)'
             PROVE  InStep(v)'
  BY DEF RepliesWait
<1>1. worker \in [Workers -> Threads]
  BY TypedParts DEF ConsoleInv
<1>2. conn # 0 /\ InOrder /\ pressed' = {} /\ strays' = 0 /\ buffer' = buffer
  BY DEF StartLearn, HearsAnew, FewStrays, port
<1>3. worker' = [worker EXCEPT ![w] = [Off EXCEPT !.pc = "write", !.on = conn, !.attempt = 1]]
  BY <1>2 DEF StartLearn
<1>4. v = w
  BY <1>1, <1>2, <1>3 DEF InOrder, Active
<1>5. worker'[v].pc = "write" /\ worker'[v].skipped = 0
  BY <1>1, <1>3, <1>4 DEF Off
<1>6. buffer' = <<>> /\ DOMAIN buffer' = {}
  BY <1>2 DEF InOrder
<1>7. NoiseIn(buffer') = {} /\ Framed(buffer', worker'[v].pc = "rest")
  BY <1>5, <1>6 DEF NoiseIn, Framed
<1>8. IsFiniteSet(NoiseIn(buffer')) /\ worker'[v].skipped + Cardinality(NoiseIn(buffer')) <= strays'
  BY <1>2, <1>5, <1>7, FS_EmptySet
<1> QED
  BY <1>2, <1>5, <1>7, <1>8 DEF InStep

LEMMA PortWaits ==
    ASSUME ConsoleInv, Connect \/ Disconnect
    PROVE  RepliesWait'
<1>1. /\ worker \in [Workers -> Threads] /\ UNCHANGED worker
      /\ connects \in 0 .. MaxConnects /\ conn \in {0, connects}
      /\ conn' = 0 \/ conn' = connects + 1
  BY TypedParts DEF ConsoleInv, Connect, Disconnect
<1>2. \A v \in Workers : ~(Active(v)' /\ Holds(v)')
  <2> SUFFICES ASSUME NEW v \in Workers, Active(v)', Holds(v)' PROVE FALSE
    OBVIOUS
  <2>1. Active(v) /\ worker[v].on = conn'
    BY <1>1 DEF Active, Holds
  <2>2. /\ worker[v].on \in Int /\ worker[v].on <= connects /\ worker[v].on > 0
        /\ connects \in Int
    BY <1>1, <2>1 DEF ConsoleInv, Started, Threads
  <2> QED BY <1>1, <2>1, <2>2
<1> QED
  BY <1>2 DEF RepliesWait

LEMMA WorkerWaits ==
    ASSUME ConsoleInv, RepliesWait, NEW w \in Workers, WorkerStep(w)
    PROVE  RepliesWait'
<1> SUFFICES ASSUME FewStrays', NEW v \in Workers, Active(v)', Holds(v)'
             PROVE  InStep(v)'
  BY DEF RepliesWait
<1>1. worker \in [Workers -> Threads] /\ OneAtATime /\ Effect(w)
  BY TypedParts, WorkerEffect DEF ConsoleInv
<1>2. /\ FewStrays /\ fresh /\ Active(w) /\ conn' = conn
  BY <1>1 DEF Effect, heard, FewStrays
<1>3. PICK new \in Threads : /\ new = Off \/ new.on = worker[w].on
                             /\ worker' = [worker EXCEPT ![w] = new]
  BY <1>1 DEF Effect, Moves
<1>4. v = w
  <2>1. v # w => Active(v)
    BY <1>1, <1>3 DEF Active
  <2> QED BY <1>1, <1>2, <2>1 DEF OneAtATime
<1>5. worker'[w] = new /\ new # Off
  BY <1>1, <1>3, <1>4 DEF Active, Off
<1>6. Holds(w)
  BY <1>2, <1>3, <1>4, <1>5 DEF Holds
<1> QED
  BY <1>2, <1>4, <1>6, StepWaits

LEMMA RepliesWaitStep == ConsoleInv /\ RepliesWait /\ [ConsoleNext]_consoleVars => RepliesWait'
<1> SUFFICES ASSUME ConsoleInv, RepliesWait, [ConsoleNext]_consoleVars PROVE RepliesWait'
  OBVIOUS
<1>1. ASSUME NEW w \in Workers, WorkerStep(w) PROVE RepliesWait'
  BY <1>1, WorkerWaits
<1>2. ASSUME NEW w \in Workers, StartLearn(w) PROVE RepliesWait'
  BY <1>2, ClickWaits
<1>3. CASE Connect \/ Disconnect
  BY <1>3, PortWaits
<1>4. CASE SendOnly
  BY <1>4 DEF SendOnly, HearsAnew, RepliesWait, FewStrays
<1>5. ASSUME NEW k \in Keys, PressKey(k) PROVE RepliesWait'
  BY <1>5, PressWaits
<1>6. CASE StrayByte
  BY <1>6, StrayWaits
<1>7. CASE UNCHANGED consoleVars
  BY <1>7 DEF consoleVars, port, witnesses, heard, RepliesWait, FewStrays, InStep, Active, Holds
<1> QED
  BY <1>1, <1>2, <1>3, <1>4, <1>5, <1>6, <1>7 DEF ConsoleNext

LEMMA RepliesWaitHolds == ConsoleSpec => []RepliesWait
<1>1. ConsoleInit => RepliesWait
  BY DEF ConsoleInit, RepliesWait, FewStrays
<1> QED
  BY <1>1, RepliesWaitStep, ConsoleInvariant, PTL DEF ConsoleSpec

\* A learn that gave up found the buffer empty, so it had not been answered.
LEMMA EndsForWantOfAReply ==
    ASSUME ConsoleInv, RepliesWait, ConsoleNext, NEW w \in Workers,
           Active(w), ~Active(w)', Holds(w), UNCHANGED source, FewStrays
    PROVE  pressed = {}
<1>1. /\ ConsoleTypeOK /\ OneAtATime /\ fresh
      /\ worker \in [Workers -> Threads]
  BY TypedParts DEF ConsoleInv, FewStrays
<1>2. worker'[w] # worker[w]
  BY DEF Active
<1>3. ~(Connect \/ Disconnect \/ SendOnly \/ StrayByte \/ \E k \in Keys : PressKey(k))
  BY <1>2 DEF Connect, Disconnect, SendOnly, StrayByte, PressKey
<1>4. \A v \in Workers : ~StartLearn(v)
  <2> SUFFICES ASSUME NEW v \in Workers, StartLearn(v) PROVE FALSE
    OBVIOUS
  <2>1. v # w
    BY DEF StartLearn
  <2>2. worker'[w] = worker[w]
    BY <1>1, <2>1 DEF StartLearn
  <2> QED BY <1>2, <2>2
<1>5. PICK v \in Workers : WorkerStep(v)
  BY <1>3, <1>4 DEF ConsoleNext
<1>6. Effect(v)
  BY <1>1, <1>5, WorkerEffect
<1>7. v = w
  BY <1>1, <1>2, <1>6 DEF Effect, Moves
<1>8. worker'[w].pc = "off"
  BY DEF Active
<1>9. ~Answered(w)
  <2>1. budget.learns < source.left
    BY <1>1 DEF OneAtATime
  <2>2. budget.learns \in Int /\ source.left \in Int
    BY <1>1 DEF ConsoleInv, Started, ConsoleTypeOK
  <2>3. Answered(w) => source.left = budget.learns
    BY DEF Answered
  <2> QED BY <2>1, <2>2, <2>3
<1>10. buffer = <<>> /\ DOMAIN buffer = {}
  BY <1>5, <1>7, <1>8, <1>9, StepWaits
<1>11. InStep(w)
  BY DEF RepliesWait
<1> QED
  BY <1>10, <1>11 DEF InStep

\* For every MAX_RESYNC_BYTES, any number of attempts and of threads: fewer stray
\* bytes than that, none of which looks like a header, cost no intact reply of a
\* learn that began in order and is alone on its port (serial_win.py:106-143).
\* A stray byte that does look like a header is not covered: it may cost the reply.
THEOREM FewStraysCostNothing == ConsoleSpec => StraysAreSkipped
<1> DEFINE Skipped ==
      \A w \in Workers :
          (/\ Active(w) /\ ~Active(w)' /\ Holds(w) /\ UNCHANGED source
           /\ fresh /\ ~spoilt /\ strays < MaxResync) => pressed = {}
<1>1. ConsoleInv /\ RepliesWait /\ [ConsoleNext]_consoleVars => [Skipped]_consoleVars
  BY EndsForWantOfAReply DEF FewStrays
<1>2. ConsoleSpec => [][Skipped]_consoleVars
  BY <1>1, RepliesWaitHolds, ConsoleInvariant, PTL DEF ConsoleSpec
<1> QED
  BY <1>2 DEF StraysAreSkipped


-----------------------------------------------------------------------------
(* Sequences and lines, for the provisioner. *)

\* A set of numbers that holds 0 and every successor of a member holds all.
LEMMA Counting ==
    ASSUME NEW P, 0 \in P, \A n \in P \intersect Nat : n + 1 \in P
    PROVE  Nat \subseteq P
<1> DEFINE less == {ss \in Nat \X Nat : ss[1] < ss[2]}
           outside == Nat \ P
<1>1. IsWellFoundedOn(less, Nat)
  BY NatLessThanWellFounded, Zenon DEF OpToRel
<1>2. \A m, n \in Nat : m < n => <<m, n>> \in less
  OBVIOUS
<1> SUFFICES ASSUME outside # {} PROVE FALSE
  OBVIOUS
<1>3. PICK n \in outside : \A m \in outside : <<m, n>> \notin less
  BY <1>1, WFMin
<1> HIDE DEF less
<1>4. n \in Nat \ {0} /\ n - 1 \in Nat /\ n - 1 < n /\ (n - 1) + 1 = n
  OBVIOUS
<1>5. n - 1 \notin outside
  BY <1>2, <1>3, <1>4
<1> QED
  BY <1>4, <1>5

\* A set of sequences that holds the empty one and every extension of a member
\* by one element holds all.
LEMMA Extending ==
    ASSUME NEW S, NEW P, <<>> \in P,
           \A s \in P \intersect Seq(S), e \in S : Append(s, e) \in P
    PROVE  Seq(S) \subseteq P
<1> DEFINE N == {n \in Nat : \A s \in Seq(S) : Len(s) = n => s \in P}
<1>1. 0 \in N
  BY EmptySeq
<1>2. ASSUME NEW n \in N \intersect Nat
      PROVE  n + 1 \in N
  <2> SUFFICES ASSUME NEW s \in Seq(S), Len(s) = n + 1 PROVE s \in P
    OBVIOUS
  <2>1. s # <<>> /\ n \in Nat
    BY EmptySeq
  <2>2. PICK t \in Seq(S), e \in S : s = Append(t, e)
    BY <2>1, SequenceEmptyOrAppend
  <2>3. Len(s) = Len(t) + 1 /\ Len(t) \in Nat
    BY <2>2, AppendProperties, LenProperties
  <2>4. t \in P
    BY <2>1, <2>3
  <2> QED BY <2>2, <2>4
<1>3. Nat \subseteq N
  BY <1>1, <1>2, Counting
<1> QED
  BY <1>3, LenProperties

-----------------------------------------------------------------------------
(* The operators of the provisioner. *)

\* The recursion of Without, step by step.
Keeps(f, lines, gone) ==
    f = [n \in 0 .. Len(lines) |->
            IF n = 0 THEN <<>>
            ELSE IF lines[n] \in gone THEN f[n - 1] ELSE Append(f[n - 1], lines[n])]

LEMMA KeepsExtends ==
    ASSUME NEW S, NEW lines \in Seq(S), NEW e \in S, NEW gone, NEW f, Keeps(f, lines, gone)
    PROVE  LET n == Len(lines)
               kept == IF e \in gone THEN f[n] ELSE Append(f[n], e)
           IN  Keeps([i \in 0 .. n + 1 |-> IF i = n + 1 THEN kept ELSE f[i]], Append(lines, e), gone)
<1> DEFINE n == Len(lines)
           kept == IF e \in gone THEN f[n] ELSE Append(f[n], e)
           g == [i \in 0 .. n + 1 |-> IF i = n + 1 THEN kept ELSE f[i]]
           more == Append(lines, e)
           rule(i) == IF i = 0 THEN <<>>
                      ELSE IF more[i] \in gone THEN g[i - 1] ELSE Append(g[i - 1], more[i])
<1>1. n \in Nat /\ Len(more) = n + 1 /\ more[n + 1] = e /\ \A i \in 1 .. n : more[i] = lines[i]
  BY AppendProperties, LenProperties
<1>2. \A i \in 0 .. n : f[i] = IF i = 0 THEN <<>>
                              ELSE IF lines[i] \in gone THEN f[i - 1] ELSE Append(f[i - 1], lines[i])
  BY Zenon DEF Keeps
<1>3. /\ \A i \in 0 .. n : g[i] = f[i] /\ i \in 0 .. n + 1 /\ i # n + 1
      /\ g[n + 1] = kept /\ n + 1 \in 0 .. n + 1 /\ n + 1 # 0 /\ (n + 1) - 1 = n /\ n \in 0 .. n
  BY <1>1
<1>4. \A i \in 0 .. n + 1 : i \in 0 .. n \/ i = n + 1
  BY <1>1
<1>5. \A i \in 0 .. n : i # 0 => i \in 1 .. n /\ i - 1 \in 0 .. n
  BY <1>1
<1> HIDE DEF g, more
<1>6. \A i \in 0 .. n : g[i] = rule(i)
  BY <1>1, <1>2, <1>3, <1>5
<1>7. g[n + 1] = rule(n + 1)
  BY <1>1, <1>3
<1>8. \A i \in 0 .. n + 1 : g[i] = rule(i)
  BY <1>4, <1>6, <1>7
<1>9. g = [i \in 0 .. n + 1 |-> g[i]]
  BY DEF g
<1>10. g = [i \in 0 .. Len(more) |-> rule(i)]
  BY <1>1, <1>8, <1>9
<1> QED
  BY <1>10, Zenon DEF Keeps, g, more

LEMMA KeepsExists ==
    ASSUME NEW S, NEW lines \in Seq(S), NEW gone
    PROVE  \E f : Keeps(f, lines, gone)
<1> DEFINE P == {s \in Seq(S) : \E f : Keeps(f, s, gone)}
<1>1. <<>> \in P
  <2>1. Keeps([n \in 0 .. 0 |-> <<>>], <<>>, gone)
    BY DEF Keeps
  <2> QED BY <2>1, EmptySeq
<1>2. ASSUME NEW s \in P \intersect Seq(S), NEW e \in S
      PROVE  Append(s, e) \in P
  BY KeepsExtends, AppendProperties
<1>3. Seq(S) \subseteq P
  BY <1>1, <1>2, Extending
<1> QED
  BY <1>3

\* One rule makes one function.
LEMMA KeepsUnique ==
    ASSUME NEW S, NEW lines \in Seq(S), NEW gone, NEW f, NEW g,
           Keeps(f, lines, gone), Keeps(g, lines, gone)
    PROVE  f = g
<1> DEFINE n == Len(lines)
           P == {i \in Nat : i <= n => f[i] = g[i]}
           rule(h, i) == IF i = 0 THEN <<>>
                         ELSE IF lines[i] \in gone THEN h[i - 1] ELSE Append(h[i - 1], lines[i])
<1>1. n \in Nat
  BY LenProperties
<1>2. (\A i \in 0 .. n : f[i] = rule(f, i)) /\ \A i \in 0 .. n : g[i] = rule(g, i)
  BY Zenon DEF Keeps
<1>3. 0 \in P
  BY <1>1, <1>2
<1>4. ASSUME NEW i \in P \intersect Nat
      PROVE  i + 1 \in P
  <2> SUFFICES ASSUME i + 1 <= n PROVE f[i + 1] = g[i + 1]
    OBVIOUS
  <2>1. i + 1 \in 0 .. n /\ i + 1 # 0 /\ (i + 1) - 1 = i /\ f[i] = g[i]
    BY <1>1
  <2> QED BY <1>2, <2>1
<1>5. Nat \subseteq P
  BY <1>3, <1>4, Counting
<1>6. \A i \in 0 .. n : f[i] = g[i]
  BY <1>1, <1>5
<1>7. f = [i \in 0 .. n |-> f[i]] /\ g = [i \in 0 .. n |-> g[i]]
  BY Zenon DEF Keeps
<1> QED
  BY <1>6, <1>7

LEMMA WithoutIs ==
    ASSUME NEW S, NEW lines \in Seq(S), NEW gone, NEW f, Keeps(f, lines, gone)
    PROVE  Without(lines, gone) = f[Len(lines)]
<1> DEFINE g == CHOOSE h : Keeps(h, lines, gone)
<1>1. Keeps(g, lines, gone)
  BY Zenon
<1>2. Without(lines, gone) = g[Len(lines)]
  BY Zenon DEF Without, Keeps
<1> HIDE DEF g
<1>3. g = f
  BY <1>1, KeepsUnique
<1> QED
  BY <1>2, <1>3

\* Without, from line to line.
LEMMA WithoutEmpty ==
    ASSUME NEW gone
    PROVE  Without(<<>>, gone) = <<>>
<1>1. PICK f : Keeps(f, <<>>, gone)
  BY KeepsExists, EmptySeq
<1>2. f[0] = <<>>
  BY <1>1 DEF Keeps
<1> QED
  BY <1>1, <1>2, WithoutIs, EmptySeq

LEMMA WithoutAppend ==
    ASSUME NEW S, NEW lines \in Seq(S), NEW e \in S, NEW gone
    PROVE  Without(Append(lines, e), gone)
              = IF e \in gone THEN Without(lines, gone) ELSE Append(Without(lines, gone), e)
<1> DEFINE n == Len(lines)
<1>1. PICK f : Keeps(f, lines, gone)
  BY KeepsExists
<1> DEFINE kept == IF e \in gone THEN f[n] ELSE Append(f[n], e)
           g == [i \in 0 .. n + 1 |-> IF i = n + 1 THEN kept ELSE f[i]]
<1>2. Keeps(g, Append(lines, e), gone)
  BY <1>1, KeepsExtends
<1>3. Append(lines, e) \in Seq(S) /\ Len(Append(lines, e)) = n + 1 /\ n \in Nat
  BY AppendProperties, LenProperties
<1>4. g[n + 1] = kept
  BY <1>3
<1> HIDE DEF g
<1>5. Without(Append(lines, e), gone) = g[n + 1]
  BY <1>2, <1>3, WithoutIs
<1>6. Without(lines, gone) = f[n]
  BY <1>1, WithoutIs
<1> QED
  BY <1>4, <1>5, <1>6

\* What is left has none of the lines that are gone, and is left as it is.
LEMMA WithoutLeaves ==
    ASSUME NEW S, NEW lines \in Seq(S), NEW gone
    PROVE  /\ Without(lines, gone) \in Seq(S)
           /\ \A i \in 1 .. Len(Without(lines, gone)) : Without(lines, gone)[i] \notin gone
           /\ Without(Without(lines, gone), gone) = Without(lines, gone)
<1> DEFINE W(s) == Without(s, gone)
           P == {s \in Seq(S) : /\ W(s) \in Seq(S)
                                /\ \A i \in 1 .. Len(W(s)) : W(s)[i] \notin gone
                                /\ W(W(s)) = W(s)}
<1>1. <<>> \in P
  <2>1. W(<<>>) = <<>>
    BY WithoutEmpty
  <2>2. <<>> \in Seq(S) /\ \A i \in 1 .. Len(<<>>) : FALSE
    BY EmptySeq
  <2> HIDE DEF W
  <2>3. \A i \in 1 .. Len(W(<<>>)) : W(<<>>)[i] \notin gone
    BY <2>1, <2>2
  <2>4. W(W(<<>>)) = W(<<>>) /\ W(<<>>) \in Seq(S)
    BY <2>1, <2>2
  <2> QED BY <2>2, <2>3, <2>4
<1>2. ASSUME NEW s \in P \intersect Seq(S), NEW e \in S
      PROVE  Append(s, e) \in P
  <2>1. Append(s, e) \in Seq(S)
    BY AppendProperties
  <2>2. CASE e \in gone
    <3>1. W(Append(s, e)) = W(s)
      BY <2>2, WithoutAppend
    <3> QED BY <2>1, <3>1
  <2>3. CASE e \notin gone
    <3> DEFINE t == W(s)
    <3>1. W(Append(s, e)) = Append(t, e)
      BY <2>3, WithoutAppend
    <3>2. t \in Seq(S) /\ W(t) = t /\ \A i \in 1 .. Len(t) : t[i] \notin gone
      OBVIOUS
    <3> HIDE DEF t
    <3>3. W(Append(t, e)) = Append(t, e)
      BY <2>3, <3>2, WithoutAppend
    <3>4. /\ Append(t, e) \in Seq(S) /\ Len(Append(t, e)) = Len(t) + 1 /\ Len(t) \in Nat
          /\ Append(t, e)[Len(t) + 1] = e /\ \A i \in 1 .. Len(t) : Append(t, e)[i] = t[i]
      BY <3>2, AppendProperties, LenProperties
    <3>5. \A i \in 1 .. Len(Append(t, e)) : Append(t, e)[i] \notin gone
      BY <2>3, <3>2, <3>4
    <3> HIDE DEF W
    <3> QED BY <2>1, <3>1, <3>3, <3>4, <3>5
  <2> QED BY <2>2, <2>3
<1>3. Seq(S) \subseteq P
  BY <1>1, <1>2, Extending
<1> QED
  BY <1>3

LEMMA LineNames == /\ TX_OVERLAY \in Lines /\ RX_OVERLAY \in Lines /\ TX_OVERLAY # RX_OVERLAY
                   /\ Overlays = {TX_OVERLAY, RX_OVERLAY}
                   /\ Overlays \subseteq Lines /\ "none" \notin Lines /\ "torn" \notin Lines
BY DEF TX_OVERLAY, RX_OVERLAY, Lines, Overlays

\* The files that are not there, or not whole, are no config.txt.
LEMMA NoText == None \notin Seq(Lines) /\ Torn \notin Seq(Lines) /\ None # Torn
<1>1. None[1] = "none" /\ Torn[1] = "torn" /\ Len(None) = 1 /\ Len(Torn) = 1
  BY DEF None, Torn
<1>2. \A s \in Seq(Lines) : Len(s) = 1 => s[1] \in Lines
  BY ElementOfSeq
<1> QED
  BY <1>1, <1>2, LineNames

\* An overlay that is appended where it was missing is not doubled.
LEMMA DoubledAppend ==
    ASSUME NEW lines \in Seq(Lines), NEW e \in Overlays, e \notin Range(lines)
    PROVE  Doubled(Append(lines, e)) \subseteq Doubled(lines)
<1> DEFINE more == Append(lines, e)
           n == Len(lines)
<1>1. /\ n \in Nat /\ DOMAIN lines = 1 .. n /\ DOMAIN more = 1 .. n + 1
      /\ more[n + 1] = e /\ \A i \in 1 .. n : more[i] = lines[i]
  BY LineNames, AppendProperties, LenProperties
<1>2. \A i \in 1 .. n : lines[i] # e
  BY <1>1 DEF Range
<1> HIDE DEF more, n
<1>3. ASSUME NEW o \in Overlays, NEW i \in 1 .. n + 1, NEW j \in 1 .. n + 1,
             i # j, more[i] = o, more[j] = o
      PROVE  i \in 1 .. n /\ j \in 1 .. n /\ lines[i] = o /\ lines[j] = o
  <2>1. i \in 1 .. n \/ i = n + 1
    BY <1>1
  <2>2. j \in 1 .. n \/ j = n + 1
    BY <1>1
  <2> QED BY <1>1, <1>2, <1>3, <2>1, <2>2
<1> QED
  BY <1>1, <1>3 DEF Doubled, more

LEMMA Pair ==
    ASSUME NEW S, NEW d \in S, NEW e \in S
    PROVE  Append(<<d>>, e) = <<d, e>>
<1> DEFINE s == Append(<<d>>, e)
           t == <<d, e>>
<1>1. <<d>> \in Seq(S) /\ Len(<<d>>) = 1
  OBVIOUS
<1>2. s \in Seq(S) /\ Len(s) = 2 /\ s[1] = d /\ s[2] = e
  BY <1>1, AppendProperties
<1>3. t \in Seq(S) /\ Len(t) = 2 /\ t[1] = d /\ t[2] = e
  OBVIOUS
<1> HIDE DEF s, t
<1>4. Len(s) = Len(t) /\ \A i \in 1 .. Len(s) : s[i] = t[i]
  BY <1>2, <1>3
<1>5. s = t
  BY <1>2, <1>3, <1>4, SeqEqual
<1> QED
  BY <1>5 DEF s, t

\* What is appended to a config.txt: the overlays that are wanted and missing.
LEMMA AppendsMissing ==
    ASSUME NEW lines \in Seq(Lines)
    PROVE  LET new == lines \o MissingOverlays(lines)
           IN  \/ new = lines
               \/ \E e \in Overlays : e \notin Range(lines) /\ new = Append(lines, e)
               \/ /\ TX_OVERLAY \notin Range(lines) /\ RX_OVERLAY \notin Range(lines)
                  /\ new = Append(Append(lines, TX_OVERLAY), RX_OVERLAY)
<1> DEFINE there == Range(lines)
           W(s) == Without(s, there)
<1>1. <<>> \in Seq(Lines) /\ <<TX_OVERLAY>> \in Seq(Lines)
  BY LineNames
<1>2. /\ Append(<<>>, TX_OVERLAY) = <<TX_OVERLAY>> /\ Append(<<>>, RX_OVERLAY) = <<RX_OVERLAY>>
      /\ Append(<<TX_OVERLAY>>, RX_OVERLAY) = <<TX_OVERLAY, RX_OVERLAY>>
  BY Pair, LineNames
<1> HIDE DEF there
<1>3. W(<<>>) = <<>>
  BY WithoutEmpty
<1>4. W(<<TX_OVERLAY>>) = IF TX_OVERLAY \in there THEN <<>> ELSE <<TX_OVERLAY>>
  <2>1. W(Append(<<>>, TX_OVERLAY)) = IF TX_OVERLAY \in there THEN W(<<>>) ELSE Append(W(<<>>), TX_OVERLAY)
    BY <1>1, LineNames, WithoutAppend
  <2> HIDE DEF W
  <2> QED BY <1>2, <1>3, <2>1
<1>5. W(<<TX_OVERLAY, RX_OVERLAY>>)
         = IF RX_OVERLAY \in there THEN W(<<TX_OVERLAY>>) ELSE Append(W(<<TX_OVERLAY>>), RX_OVERLAY)
  <2>1. W(Append(<<TX_OVERLAY>>, RX_OVERLAY))
           = IF RX_OVERLAY \in there THEN W(<<TX_OVERLAY>>) ELSE Append(W(<<TX_OVERLAY>>), RX_OVERLAY)
    BY <1>1, LineNames, WithoutAppend
  <2> HIDE DEF W
  <2> QED BY <1>2, <2>1
<1>6. MissingOverlays(lines) = W(<<TX_OVERLAY>>) \/ MissingOverlays(lines) = W(<<TX_OVERLAY, RX_OVERLAY>>)
  BY DEF MissingOverlays, WantedOverlays, there
<1>7. MissingOverlays(lines) \in {<<>>, <<TX_OVERLAY>>, <<RX_OVERLAY>>, <<TX_OVERLAY, RX_OVERLAY>>}
      /\ (MissingOverlays(lines) \in {<<TX_OVERLAY>>, <<TX_OVERLAY, RX_OVERLAY>>} => TX_OVERLAY \notin there)
      /\ (MissingOverlays(lines) \in {<<RX_OVERLAY>>, <<TX_OVERLAY, RX_OVERLAY>>} => RX_OVERLAY \notin there)
  <2> HIDE DEF W
  <2>1. /\ <<>> # <<TX_OVERLAY>> /\ <<>> # <<RX_OVERLAY>> /\ <<>> # <<TX_OVERLAY, RX_OVERLAY>>
        /\ <<TX_OVERLAY>> # <<RX_OVERLAY>> /\ <<TX_OVERLAY>> # <<TX_OVERLAY, RX_OVERLAY>>
        /\ <<RX_OVERLAY>> # <<TX_OVERLAY, RX_OVERLAY>>
    BY LineNames
  <2> QED BY <1>2, <1>3, <1>4, <1>6, <1>5, <2>1
<1>8. lines \o <<>> = lines
  BY ConcatEmptySeq
<1>9. \A e \in Overlays : lines \o <<e>> = Append(lines, e)
  BY LineNames, AppendIsConcat
<1>10. lines \o <<TX_OVERLAY, RX_OVERLAY>> = Append(Append(lines, TX_OVERLAY), RX_OVERLAY)
  BY LineNames
<1> QED
  BY <1>7, <1>8, <1>9, <1>10, LineNames DEF there

\* Patching changes no line of the owner's and doubles no overlay.
LEMMA PatchKeeps ==
    ASSUME NEW lines \in Seq(Lines)
    PROVE  LET new == lines \o MissingOverlays(lines)
           IN  /\ new \in Seq(Lines)
               /\ Doubled(new) \subseteq Doubled(lines)
               /\ Without(new, Overlays) = Without(lines, Overlays)
<1>1. ASSUME NEW e \in Overlays, NEW s \in Seq(Lines), e \notin Range(s)
      PROVE  /\ Append(s, e) \in Seq(Lines)
             /\ Doubled(Append(s, e)) \subseteq Doubled(s)
             /\ Without(Append(s, e), Overlays) = Without(s, Overlays)
  BY LineNames, AppendProperties, DoubledAppend, WithoutAppend, <1>1
<1>2. ASSUME TX_OVERLAY \notin Range(lines), RX_OVERLAY \notin Range(lines)
      PROVE  RX_OVERLAY \notin Range(Append(lines, TX_OVERLAY))
  <2> DEFINE s == Append(lines, TX_OVERLAY)
  <2>1. /\ DOMAIN s = 1 .. Len(lines) + 1 /\ DOMAIN lines = 1 .. Len(lines) /\ Len(lines) \in Nat
        /\ s[Len(lines) + 1] = TX_OVERLAY /\ \A i \in 1 .. Len(lines) : s[i] = lines[i]
    BY LineNames, AppendProperties, LenProperties
  <2> HIDE DEF s
  <2>2. ASSUME NEW i \in DOMAIN s PROVE s[i] # RX_OVERLAY
    <3>1. i \in 1 .. Len(lines) \/ i = Len(lines) + 1
      BY <2>1
    <3>2. \A k \in 1 .. Len(lines) : lines[k] # RX_OVERLAY
      BY <1>2, <2>1 DEF Range
    <3> QED BY <2>1, <3>1, <3>2, LineNames
  <2>3. RX_OVERLAY \notin Range(s)
    BY <2>2 DEF Range
  <2> QED BY <2>3 DEF s
<1>3. CASE lines \o MissingOverlays(lines) = lines
  BY <1>3
<1>4. ASSUME NEW e \in Overlays, e \notin Range(lines), lines \o MissingOverlays(lines) = Append(lines, e)
      PROVE  LET new == lines \o MissingOverlays(lines)
             IN  /\ new \in Seq(Lines)
                 /\ Doubled(new) \subseteq Doubled(lines)
                 /\ Without(new, Overlays) = Without(lines, Overlays)
  BY <1>1, <1>4
<1>5. CASE /\ TX_OVERLAY \notin Range(lines) /\ RX_OVERLAY \notin Range(lines)
           /\ lines \o MissingOverlays(lines) = Append(Append(lines, TX_OVERLAY), RX_OVERLAY)
  <2> DEFINE s == Append(lines, TX_OVERLAY)
  <2>1. /\ s \in Seq(Lines) /\ Doubled(s) \subseteq Doubled(lines)
        /\ Without(s, Overlays) = Without(lines, Overlays)
    BY <1>1, <1>5, LineNames
  <2>2. RX_OVERLAY \notin Range(s)
    BY <1>2, <1>5
  <2> HIDE DEF s
  <2>3. /\ Append(s, RX_OVERLAY) \in Seq(Lines) /\ Doubled(Append(s, RX_OVERLAY)) \subseteq Doubled(s)
        /\ Without(Append(s, RX_OVERLAY), Overlays) = Without(s, Overlays)
    BY <1>1, <2>1, <2>2, LineNames
  <2>4. lines \o MissingOverlays(lines) = Append(s, RX_OVERLAY)
    BY <1>5 DEF s
  <2> QED BY <2>1, <2>3, <2>4
<1> QED
  BY <1>3, <1>4, <1>5, AppendsMissing

\* Taking the overlays out leaves none of them.
LEMMA StripKeeps ==
    ASSUME NEW lines \in Seq(Lines)
    PROVE  LET new == Without(lines, Overlays)
           IN  /\ new \in Seq(Lines)
               /\ Doubled(new) = {}
               /\ Without(new, Overlays) = Without(lines, Overlays)
<1> DEFINE new == Without(lines, Overlays)
<1>1. /\ new \in Seq(Lines) /\ Without(new, Overlays) = new
      /\ \A i \in 1 .. Len(new) : new[i] \notin Overlays
  BY WithoutLeaves
<1>2. DOMAIN new = 1 .. Len(new)
  BY <1>1, LenProperties
<1> HIDE DEF new
<1>3. Doubled(new) = {}
  BY <1>1, <1>2 DEF Doubled
<1> QED
  BY <1>1, <1>3 DEF new

-----------------------------------------------------------------------------
(* The provisioner. *)

\* A run that still has a temporary file to make counts as one that has left none.
LitterCounted ==
    /\ litter \in Nat /\ litter <= setups
    /\ spc \in {"install", "apply", "open backup", "write backup", "patch"} => litter < setups
    /\ spc = "replace" => litter > 0

\* The backup, by where the provisioner is and what has happened to it: it is
\* written once, from the config.txt nobody has patched, and never again.
BackupKept ==
    /\ ~patched => config = pristine
    /\ spc \in {"open backup", "write backup", "patch", "replace"} => text = config
    /\ bak = None => ~patched /\ ~tornBak /\ spc \notin {"write backup", "patch", "replace"}
    /\ bak = Torn => tornBak \/ (spc = "write backup" /\ ~patched)
    /\ bak \notin {None, Torn} => bak = pristine
    /\ spc = "open backup" => bak = None
    /\ spc = "write backup" => bak = Torn /\ ~patched /\ ~tornBak
    /\ tornBak => bak = Torn

PiInv == PiTypeOK /\ LitterCounted /\ BackupKept /\ OverlaysOnce

LEMMA PiInitInv == PiInit => PiInv
<1> SUFFICES ASSUME PiInit PROVE PiInv
  OBVIOUS
<1>1. config \in Seq(Lines) /\ MaxSetups \in Nat
  BY PiConstants DEF PiInit
<1>2. PiTypeOK
  <2>1. {receiver, libreelec, irctl, patched, tornBak} \subseteq BOOLEAN
    BY DEF PiInit
  <2>2. {config, text, pristine} \subseteq Seq(Lines) /\ bak \in Seq(Lines) \union {None, Torn}
    BY <1>1, EmptySeq DEF PiInit
  <2>3. spc = "off" /\ litter \in 0 .. MaxSetups /\ setups \in 0 .. MaxSetups
    BY <1>1 DEF PiInit
  <2> QED BY <2>1, <2>2, <2>3 DEF PiTypeOK
<1>3. LitterCounted /\ BackupKept /\ OverlaysOnce
  BY <1>1, NoText DEF PiInit, LitterCounted, BackupKept, OverlaysOnce
<1> QED
  BY <1>2, <1>3 DEF PiInv

LEMMA PiStepInv == PiInv /\ [PiNext]_piVars => PiInv'
<1> SUFFICES ASSUME PiInv, [PiNext]_piVars PROVE PiInv'
  OBVIOUS
<1> USE DEF PiInv
<1>1. MaxSetups \in Nat /\ None # Torn
  BY PiConstants, NoText
<1>2. /\ config \in Seq(Lines) /\ text \in Seq(Lines) /\ pristine \in Seq(Lines)
      /\ None \notin Seq(Lines) /\ Torn \notin Seq(Lines)
  BY NoText DEF PiTypeOK
<1>3. litter \in 0 .. MaxSetups /\ setups \in 0 .. MaxSetups
  BY DEF PiTypeOK
<1>4. litter \in Nat /\ litter <= setups
  BY DEF LitterCounted
<1>5. litter \in Nat /\ setups \in Nat /\ litter <= setups /\ setups <= MaxSetups
  BY <1>1, <1>3, <1>4
<1>6. CASE UNCHANGED piVars
  BY <1>6 DEF PiTypeOK, LitterCounted, BackupKept, OverlaysOnce, piVars, runState, files, pastOf
<1>7. CASE StartSetup
  <2>1. /\ spc = "off" /\ setups < MaxSetups /\ setups' = setups + 1 /\ receiver' \in BOOLEAN
        /\ spc' \in {"install", "apply"}
        /\ UNCHANGED <<libreelec, irctl, config, bak, litter, text, pristine, patched, tornBak>>
    BY <1>7 DEF StartSetup, files, pastOf
  <2>2. setups' \in 0 .. MaxSetups /\ litter \in 0 .. MaxSetups /\ litter < setups' /\ litter <= setups'
    BY <1>1, <2>1 DEF PiTypeOK, LitterCounted
  <2>3. {receiver, libreelec, irctl, patched, tornBak}' \subseteq BOOLEAN
    BY <2>1 DEF PiTypeOK
  <2>4. PiTypeOK'
    BY <2>1, <2>2, <2>3 DEF PiTypeOK
  <2>5. PiTypeOK' /\ LitterCounted'
    BY <2>1, <2>2, <2>4 DEF LitterCounted
  <2>6. BackupKept' /\ OverlaysOnce'
    BY <2>1 DEF BackupKept, OverlaysOnce
  <2> QED BY <2>5, <2>6
<1>8. CASE Install
  <2>1. /\ spc = "install" /\ spc' \in {"apply", "off"} /\ irctl' \in {TRUE, irctl}
        /\ UNCHANGED <<receiver, setups, libreelec, config, bak, litter, text, pristine, patched, tornBak>>
    BY <1>8 DEF Install, files, pastOf
  <2>2. irctl' \in BOOLEAN
    BY <2>1 DEF PiTypeOK
  <2>3. PiTypeOK' /\ LitterCounted'
    BY <1>1, <2>1, <2>2 DEF PiTypeOK, LitterCounted
  <2>4. BackupKept' /\ OverlaysOnce'
    BY <2>1 DEF BackupKept, OverlaysOnce
  <2> QED BY <2>3, <2>4
<1>9. CASE ReadConfig
  <2>1. /\ spc = "apply" /\ text' = config
        /\ \/ spc' = "off"
           \/ spc' = "patch" /\ bak # None
           \/ spc' = "open backup" /\ bak = None
        /\ pristine' = IF patched \/ bak # None THEN pristine ELSE config
        /\ UNCHANGED <<receiver, setups, libreelec, irctl, config, bak, litter, patched, tornBak>>
    BY <1>9 DEF ReadConfig, files
  <2>2. pristine' = pristine
    BY <2>1 DEF BackupKept
  <2>3. PiTypeOK' /\ LitterCounted'
    BY <1>1, <1>2, <2>1, <2>2 DEF PiTypeOK, LitterCounted
  <2>4. BackupKept' /\ OverlaysOnce'
    BY <2>1, <2>2 DEF BackupKept, OverlaysOnce
  <2> QED BY <2>3, <2>4
<1>10. CASE OpenBackup
  <2>1. /\ spc = "open backup" /\ bak' = Torn /\ spc' = "write backup"
        /\ UNCHANGED <<receiver, text, setups, libreelec, irctl, config, litter, pristine, patched, tornBak>>
    BY <1>10 DEF OpenBackup, pastOf
  <2>2. PiTypeOK' /\ LitterCounted'
    BY <1>1, <2>1 DEF PiTypeOK, LitterCounted
  <2>3. BackupKept' /\ OverlaysOnce'
    BY <1>1, <2>1 DEF BackupKept, OverlaysOnce
  <2> QED BY <2>2, <2>3
<1>11. CASE WriteBackup
  <2>1. /\ spc = "write backup" /\ bak' = text /\ spc' = "patch"
        /\ UNCHANGED <<receiver, text, setups, libreelec, irctl, config, litter, pristine, patched, tornBak>>
    BY <1>11 DEF WriteBackup, pastOf
  <2>2. PiTypeOK' /\ LitterCounted'
    BY <1>1, <1>2, <2>1 DEF PiTypeOK, LitterCounted
  <2>3. bak' = pristine /\ bak' \notin {None, Torn} /\ ~tornBak
    BY <1>2, <2>1 DEF BackupKept
  <2>4. BackupKept' /\ OverlaysOnce'
    BY <2>1, <2>3 DEF BackupKept, OverlaysOnce
  <2> QED BY <2>2, <2>4
<1>12. CASE WriteTemp
  <2>1. /\ spc = "patch" /\ litter' = litter + 1 /\ spc' = "replace"
        /\ UNCHANGED <<receiver, text, setups, libreelec, irctl, config, bak, pristine, patched, tornBak>>
    BY <1>12 DEF WriteTemp, pastOf
  <2>2. PiTypeOK' /\ LitterCounted'
    BY <1>1, <2>1 DEF PiTypeOK, LitterCounted
  <2>3. BackupKept' /\ OverlaysOnce'
    BY <2>1 DEF BackupKept, OverlaysOnce
  <2> QED BY <2>2, <2>3
<1>13. CASE ReplaceConfig
  <2>1. /\ spc = "replace" /\ config' = text \o MissingOverlays(text) /\ litter' = litter - 1
        /\ patched' = TRUE /\ spc' = "off"
        /\ UNCHANGED <<receiver, text, setups, libreelec, irctl, bak, pristine, tornBak>>
    BY <1>13 DEF ReplaceConfig
  <2>2. text = config /\ bak # None
    BY <2>1 DEF BackupKept
  <2>3. /\ config' \in Seq(Lines) /\ Doubled(config') \subseteq Doubled(config)
        /\ Without(config', Overlays) = Without(config, Overlays)
    BY <1>2, <2>1, <2>2, PatchKeeps
  <2>4. PiTypeOK' /\ LitterCounted'
    BY <1>1, <2>1, <2>3 DEF PiTypeOK, LitterCounted
  <2>5. OverlaysOnce'
    BY <2>1, <2>3 DEF OverlaysOnce
  <2>6. BackupKept'
    BY <2>1, <2>2 DEF BackupKept
  <2> QED BY <2>4, <2>5, <2>6
<1>14. CASE OsError
  <2>1. /\ spc \in {"open backup", "write backup", "patch", "replace"} /\ spc' = "off"
        /\ litter' = IF spc = "replace" THEN litter - 1 ELSE litter
        /\ tornBak' = (tornBak \/ spc = "write backup")
        /\ UNCHANGED <<receiver, text, setups, libreelec, irctl, config, bak, pristine, patched>>
    BY <1>14 DEF OsError
  <2>2. tornBak' \in BOOLEAN
    BY <2>1 DEF PiTypeOK
  <2>3. litter' = litter \/ (litter > 0 /\ litter' = litter - 1)
    BY <2>1 DEF LitterCounted
  <2>4. setups' = setups
    BY <2>1
  <2>5. litter' \in 0 .. MaxSetups /\ litter' \in Nat /\ litter' <= setups'
    BY <1>1, <1>5, <2>3, <2>4
  <2>6. PiTypeOK' /\ LitterCounted'
    BY <1>1, <2>1, <2>2, <2>5 DEF PiTypeOK, LitterCounted
  <2>7. BackupKept' /\ OverlaysOnce'
    BY <1>1, <2>1 DEF BackupKept, OverlaysOnce
  <2> QED BY <2>6, <2>7
<1>15. CASE CutOff
  <2>1. /\ spc # "off" /\ spc' = "off" /\ tornBak' = (tornBak \/ spc = "write backup")
        /\ UNCHANGED <<receiver, text, setups, libreelec, irctl, config, bak, litter, pristine, patched>>
    BY <1>15 DEF CutOff, files
  <2>2. PiTypeOK' /\ LitterCounted'
    BY <1>1, <2>1 DEF PiTypeOK, LitterCounted
  <2>3. BackupKept' /\ OverlaysOnce'
    BY <1>1, <2>1 DEF BackupKept, OverlaysOnce
  <2> QED BY <2>2, <2>3
<1>16. CASE OwnerEdits
  <2>1. /\ spc = "off" /\ patched
        /\ config' = Without(config, Overlays) \/ (bak \notin {None, Torn} /\ config' = bak)
        /\ UNCHANGED <<spc, receiver, text, setups, libreelec, irctl, bak, litter, pristine, patched, tornBak>>
    BY <1>16 DEF OwnerEdits, runState, pastOf
  <2>2. /\ config' \in Seq(Lines) /\ Doubled(config') \subseteq Doubled(pristine)
        /\ Without(config', Overlays) = Without(pristine, Overlays)
    <3>1. CASE config' = Without(config, Overlays)
      BY <1>2, <3>1, StripKeeps DEF OverlaysOnce
    <3>2. CASE bak \notin {None, Torn} /\ config' = bak
      BY <1>2, <3>2 DEF BackupKept
    <3> QED BY <2>1, <3>1, <3>2
  <2>3. PiTypeOK' /\ LitterCounted'
    BY <1>1, <2>1, <2>2 DEF PiTypeOK, LitterCounted
  <2>4. BackupKept' /\ OverlaysOnce'
    BY <2>1, <2>2 DEF BackupKept, OverlaysOnce
  <2> QED BY <2>3, <2>4
<1> QED
  BY <1>6, <1>7, <1>8, <1>9, <1>10, <1>11, <1>12, <1>13, <1>14, <1>15, <1>16 DEF PiNext

LEMMA PiInvariant == PiSpec => []PiInv
  BY PiInitInv, PiStepInv, PTL DEF PiSpec

\* The provisioner's state keeps its type, and no run leaves more than one
\* temporary file behind.
THEOREM PiTypeCorrect == PiSpec => []PiTypeOK
<1>1. PiInv => PiTypeOK
  BY DEF PiInv
<1> QED BY PiInvariant, <1>1, PTL

\* The copy of config.txt is what the first patch found, whatever was cut off
\* since, unless the writing of the copy was.
THEOREM BackupIsPristine == PiSpec => []PristineKept
<1>1. PiInv => PristineKept
  BY DEF PiInv, BackupKept, PristineKept
<1> QED BY PiInvariant, <1>1, PTL

\* However often it runs, no overlay is doubled and no line of the owner is lost.
THEOREM OwnLinesStay == PiSpec => []OverlaysOnce
<1>1. PiInv => OverlaysOnce
  BY DEF PiInv
<1> QED BY PiInvariant, <1>1, PTL

-----------------------------------------------------------------------------
(* The three beside each other. *)

\* Each of the three runs as if it were alone: whoever looks at one of them sees
\* its own steps, and otherwise nothing.
THEOREM EachAlone == InfraredSpec => Spec /\ ConsoleSpec /\ PiSpec
<1>1. InfraredInit => Init /\ ConsoleInit /\ PiInit
  BY DEF InfraredInit
<1>2. [InfraredNext]_<<irVars, consoleVars, piVars, tool>>
         => [Next]_irVars /\ [ConsoleNext]_consoleVars /\ [PiNext]_piVars
  BY DEF InfraredNext
<1> QED
  BY <1>1, <1>2, PTL DEF InfraredSpec, Spec, ConsoleSpec, PiSpec

\* The types of the three, in whatever order their steps come.
THEOREM InfraredTypeCorrect == InfraredSpec => []InfraredTypeOK
<1>1. TypeOK /\ ConsoleTypeOK /\ PiTypeOK => InfraredTypeOK
  BY DEF InfraredTypeOK
<1> QED
  BY <1>1, EachAlone, TypeCorrect, ConsoleTypeCorrect, PiTypeCorrect, PTL
=============================================================================
