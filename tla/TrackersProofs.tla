--------------------------- MODULE TrackersProofs ---------------------------
(***************************************************************************)
(* Trackers, for any number of devices and any capacity of the channel,    *)
(* and DevicePath, which composes it with Presence.                        *)
(***************************************************************************)
EXTENDS DevicePath, FiniteSetTheorems, TLAPS

\* The tracker of s has it in its snapshot or its map.
Known(s) == IF s \in Ios THEN s \in connected ELSE previous[s] # "absent"

\* The tracker of s has still to announce that it left.
Leaving(s) == Ev(s, "disconnected") \in adbEmit \cup iosEmit

\* The events in the channel leave s out of the registry: a Disconnected event
\* of s is not followed by a Connected one, or there is no Connected event of
\* s and it is not registered.
NoneAfter(s, i) == \A j \in DOMAIN ch : i < j => ch[j] # Ev(s, "connected")
Gone(s) ==
  \/ s \notin registered /\ NoneAfter(s, 0)
  \/ \E i \in DOMAIN ch : ch[i] = Ev(s, "disconnected") /\ NoneAfter(s, i)

Accounted == \A s \in Serial : Known(s) \/ s \in lost \/ Leaving(s) \/ Gone(s)

\* What is still to be emitted agrees with the state the tracker is in since it
\* decided to emit it.
AdbAgrees ==
  \A e \in adbEmit :
    /\ e.serial \in Android
    /\ e.type \in {"connected", "offline", "unauthorized", "disconnected"}
    /\ e.type # "disconnected" => previous[e.serial] # "absent"
IosAgrees ==
  \A e \in iosEmit :
    /\ e.serial \in Ios
    /\ e.type \in {"connected", "disconnected"}
    /\ e.type = "connected" => e.serial \in connected

TrackInv == TrackTypeOK /\ AdbAgrees /\ IosAgrees /\ Accounted

-----------------------------------------------------------------------------
(***************************************************************************)
(* Facts about the data.                                                   *)
(***************************************************************************)

\* The messages for the attached devices are a sequence: SetToSeq lists a
\* finite set.
LEMMA AttachedList ==
  ASSUME NEW S \in SUBSET Ios
  PROVE  SetToSeq({<<s, TRUE>> : s \in S}) \in Seq(Ios \X BOOLEAN)
<1> DEFINE T == {<<s, TRUE>> : s \in S}
           f == [s \in S |-> <<s, TRUE>>]
<1>1. IsFiniteSet(S)
  BY FS_Subset, TrackersAssumption
<1>2. f \in Surjection(S, T)
  BY DEF Surjection
<1>3. IsFiniteSet(T)
  BY <1>1, <1>2, FS_Surjection
<1>4. Cardinality(T) \in Nat /\ ExistsBijection(1..Cardinality(T), T)
  BY <1>3, FS_CardinalityType
<1>5. \E g \in [1..Cardinality(T) -> T] : IsInjective(g)
  BY <1>4 DEF ExistsBijection, Bijection, Injection, IsInjective
<1>6. SetToSeq(T) \in [1..Cardinality(T) -> T]
  BY <1>5 DEF SetToSeq
<1>7. T \subseteq Ios \X BOOLEAN
  <2>1. \A s \in S : <<s, TRUE>> \in Ios \X BOOLEAN
    OBVIOUS
  <2> QED BY <2>1
<1> HIDE DEF T
<1>8. SetToSeq(T) \in [1..Cardinality(T) -> Ios \X BOOLEAN]
  BY <1>6, <1>7
<1>9. SetToSeq(T) \in Seq(Ios \X BOOLEAN)
  BY <1>4, <1>8
<1> QED BY <1>9 DEF T

LEMMA EvType ==
  ASSUME NEW s \in Serial,
         NEW t \in {"connected", "nodevice", "offline", "unauthorized", "disconnected"}
  PROVE  Ev(s, t) \in Event /\ Ev(s, t).serial = s /\ Ev(s, t).type = t
  BY DEF Ev, Event

LEMMA EventIsEv ==
  ASSUME NEW e \in Event
  PROVE  e = Ev(e.serial, e.type)
  BY DEF Event, Ev

-----------------------------------------------------------------------------
(***************************************************************************)
(* What the channel says of a device, when an event is sent or handled.    *)
(***************************************************************************)

\* An event of another device, or one that is no Connected event, leaves the
\* device gone.
LEMMA GoneKept ==
  ASSUME TrackTypeOK, NEW s \in Serial, Gone(s), NEW e \in Event, e # Ev(s, "connected"),
         ch' = Append(ch, e), registered' = registered
  PROVE  Gone(s)'
<1>1. /\ DOMAIN ch = 1..Len(ch) /\ Len(ch) \in Nat
      /\ DOMAIN ch' = 1..(Len(ch) + 1)
      /\ \A i \in 1..Len(ch) : ch'[i] = ch[i]
      /\ ch'[Len(ch) + 1] = e
  BY DEF TrackTypeOK
<1>2. \A i \in Nat : NoneAfter(s, i) => NoneAfter(s, i)'
  <2> SUFFICES ASSUME NEW i \in Nat, NoneAfter(s, i), NEW j \in DOMAIN ch', i < j
               PROVE  ch'[j] # Ev(s, "connected")
    BY DEF NoneAfter
  <2>1. CASE j \in 1..Len(ch)
    BY <1>1, <2>1 DEF NoneAfter
  <2>2. CASE j = Len(ch) + 1
    BY <1>1, <2>2
  <2> QED BY <1>1, <2>1, <2>2
<1>3. CASE s \notin registered /\ NoneAfter(s, 0)
  BY <1>2, <1>3 DEF Gone
<1>4. CASE \E i \in DOMAIN ch : ch[i] = Ev(s, "disconnected") /\ NoneAfter(s, i)
  <2>1. PICK i \in DOMAIN ch : ch[i] = Ev(s, "disconnected") /\ NoneAfter(s, i)
    BY <1>4
  <2>2. i \in DOMAIN ch' /\ ch'[i] = Ev(s, "disconnected") /\ NoneAfter(s, i)'
    BY <1>1, <1>2, <2>1
  <2> QED BY <2>2 DEF Gone
<1> QED BY <1>3, <1>4 DEF Gone

\* Sending the Disconnected event of a device makes it so.
LEMMA SentGone ==
  ASSUME TrackTypeOK, NEW s \in Serial, ch' = Append(ch, Ev(s, "disconnected"))
  PROVE  Gone(s)'
<1>1. Ev(s, "disconnected") \in Event
  BY EvType
<1>2. PICK n \in Nat : DOMAIN ch' = 1..n /\ n > 0 /\ ch'[n] = Ev(s, "disconnected")
  <2>1. /\ Len(ch) + 1 \in Nat /\ Len(ch) + 1 > 0 /\ DOMAIN ch' = 1..(Len(ch) + 1)
        /\ ch'[Len(ch) + 1] = Ev(s, "disconnected")
    BY <1>1 DEF TrackTypeOK
  <2> QED BY <2>1
<1>3. NoneAfter(s, n)'
  BY <1>2 DEF NoneAfter
<1> QED BY <1>2, <1>3 DEF Gone

\* Handling an event leaves gone what was.
LEMMA GoneHandled ==
  ASSUME TrackTypeOK, HandleEvent, NEW s \in Serial, Gone(s)
  PROVE  Gone(s)'
<1> DEFINE e == Head(ch)
<1>1. /\ Len(ch) \in Nat /\ DOMAIN ch = 1..Len(ch) /\ Len(ch) # 0
      /\ DOMAIN ch' = 1..(Len(ch) - 1)
      /\ \A i \in 1..(Len(ch) - 1) : ch'[i] = ch[i + 1]
      /\ e = ch[1] /\ e \in Event
  BY DEF TrackTypeOK, HandleEvent
<1>2. registered' = CASE e.type = "connected" -> registered \cup {e.serial}
                      [] e.type = "disconnected" -> registered \ {e.serial}
                      [] OTHER -> registered
  BY DEF HandleEvent
<1> HIDE DEF e
<1>3. \A i \in Nat : NoneAfter(s, i + 1) => NoneAfter(s, i)'
  <2> SUFFICES ASSUME NEW i \in Nat, NoneAfter(s, i + 1), NEW j \in DOMAIN ch', i < j
               PROVE  ch'[j] # Ev(s, "connected")
    BY DEF NoneAfter
  <2>1. j \in 1..(Len(ch) - 1) /\ j + 1 \in DOMAIN ch /\ ch'[j] = ch[j + 1] /\ i + 1 < j + 1
    BY <1>1
  <2> QED BY <2>1 DEF NoneAfter
<1>4. e = Ev(e.serial, e.type)
  BY <1>1, EventIsEv
<1>5. CASE s \notin registered /\ NoneAfter(s, 0)
  <2>1. e # Ev(s, "connected")
    BY <1>1, <1>5 DEF NoneAfter
  <2>2. s \notin registered'
    BY <1>2, <1>4, <1>5, <2>1
  <2>3. NoneAfter(s, 0 + 1)
    BY <1>1, <1>5 DEF NoneAfter
  <2> QED BY <1>3, <2>2, <2>3 DEF Gone
<1>6. CASE \E i \in DOMAIN ch : ch[i] = Ev(s, "disconnected") /\ NoneAfter(s, i)
  <2>1. PICK i \in DOMAIN ch : ch[i] = Ev(s, "disconnected") /\ NoneAfter(s, i)
    BY <1>6
  <2>2. CASE i = 1
    <3>1. e.serial = s /\ e.type = "disconnected"
      BY <1>1, <2>1, <2>2, EvType
    <3>2. s \notin registered'
      BY <1>2, <3>1
    <3>3. NoneAfter(s, 0)'
      BY <1>3, <2>1, <2>2
    <3> QED BY <3>2, <3>3 DEF Gone
  <2>3. CASE i # 1
    <3>1. i - 1 \in DOMAIN ch' /\ i - 1 \in Nat /\ ch'[i - 1] = ch[i] /\ (i - 1) + 1 = i
      BY <1>1, <2>3
    <3>2. NoneAfter(s, i - 1)'
      BY <1>3, <2>1, <3>1
    <3> QED BY <2>1, <3>1, <3>2 DEF Gone
  <2> QED BY <2>2, <2>3
<1> QED BY <1>5, <1>6 DEF Gone

-----------------------------------------------------------------------------
(***************************************************************************)
(* The invariant.                                                          *)
(***************************************************************************)
LEMMA TrackInitInv == TrackInit => TrackInv
<1> SUFFICES ASSUME TrackInit PROVE TrackInv
  OBVIOUS
<1> USE DEF TrackInit
<1>1. Len(<<>>) = 0 /\ DOMAIN ch = {}
  OBVIOUS
<1>2. TrackTypeOK
  <2>1. usb \in [Serial -> AdbState] /\ previous \in [Android -> AdbState]
    BY DEF AdbState
  <2>2. ch \in Seq(Event) /\ Len(ch) <= Capacity
    BY <1>1, TrackersAssumption
  <2>3. pushed \in Seq([Android -> AdbState]) /\ muxed \in Seq(Ios \X BOOLEAN)
    OBVIOUS
  <2>4. changes \in 0..MaxChange /\ losses \in 0..MaxLoss
    BY TrackersAssumption
  <2> QED BY <2>1, <2>2, <2>3, <2>4 DEF TrackTypeOK
<1>3. AdbAgrees /\ IosAgrees
  BY DEF AdbAgrees, IosAgrees
<1>4. Accounted
  BY <1>1 DEF Accounted, Gone, NoneAfter
<1> QED BY <1>2, <1>3, <1>4 DEF TrackInv

\* A step that leaves the channel and the registry alone.
LEMMA GoneUnchanged ==
  ASSUME UNCHANGED <<ch, registered>>, NEW s, Gone(s)
  PROVE  Gone(s)'
  BY DEF Gone, NoneAfter

LEMMA UsbStep ==
  ASSUME TrackInv, NEW s \in Serial, UsbChange(s)
  PROVE  TrackInv'
<1> USE DEF TrackInv, appVars
<1>1. PICK st \in AdbState :
        /\ usb' = [usb EXCEPT ![s] = st]
        /\ pushed' = IF s \in Android /\ adbOpen
                     THEN Append(pushed, [Snapshot EXCEPT ![s] = st]) ELSE pushed
        /\ muxed' = IF s \in Ios /\ muxOpen
                    THEN Append(muxed, <<s, st = "device">>) ELSE muxed
  BY DEF UsbChange, AdbState
<1>2. (usb \in [Serial -> AdbState])'
  BY <1>1 DEF TrackTypeOK
<1>3. (pushed \in Seq([Android -> AdbState]))'
  <2>1. [Snapshot EXCEPT ![s] = st] \in [Android -> AdbState]
    BY <1>1 DEF TrackTypeOK, Snapshot, Serial
  <2>2. Append(pushed, [Snapshot EXCEPT ![s] = st]) \in Seq([Android -> AdbState])
    BY <2>1 DEF TrackTypeOK
  <2>3. CASE s \in Android /\ adbOpen
    BY <1>1, <2>2, <2>3
  <2>4. CASE ~(s \in Android /\ adbOpen)
    BY <1>1, <2>4 DEF TrackTypeOK
  <2> QED BY <2>3, <2>4
<1>4. (muxed \in Seq(Ios \X BOOLEAN))'
  <2>1. CASE s \in Ios
    <3>1. <<s, st = "device">> \in Ios \X BOOLEAN
      BY <2>1
    <3> QED BY <1>1, <3>1 DEF TrackTypeOK
  <2>2. CASE s \notin Ios
    BY <1>1, <2>2 DEF TrackTypeOK
  <2> QED BY <2>1, <2>2
<1>5. (changes \in 0..MaxChange)'
  BY TrackersAssumption DEF UsbChange, TrackTypeOK
<1>6. TrackTypeOK'
  BY <1>2, <1>3, <1>4, <1>5 DEF UsbChange, TrackTypeOK
<1>7. UNCHANGED <<adbEmit, previous, iosEmit, connected, ch, registered, lost>>
  BY DEF UsbChange
<1>8. (AdbAgrees /\ IosAgrees /\ Accounted)'
  BY <1>7, GoneUnchanged DEF AdbAgrees, IosAgrees, Accounted, Known, Leaving
<1> QED BY <1>6, <1>8

\* The Android tracker: a device that leaves the snapshot is announced by the
\* diff; at a lost connection by evictAll, or it is one of those that evictAll
\* leaves out.
LEMMA AdbConnectStep ==
  ASSUME TrackInv, AdbConnect
  PROVE  TrackInv'
<1> USE DEF TrackInv, appVars, worldVars, iosVars
<1>1. Snapshot \in [Android -> AdbState]
  BY DEF TrackTypeOK, Snapshot, Serial
<1>2. TrackTypeOK'
  BY <1>1 DEF AdbConnect, TrackTypeOK
<1>3. UNCHANGED <<adbEmit, previous, iosEmit, connected, ch, registered, lost>>
  BY DEF AdbConnect
<1>4. (AdbAgrees /\ IosAgrees /\ Accounted)'
  BY <1>3, GoneUnchanged DEF AdbAgrees, IosAgrees, Accounted, Known, Leaving
<1> QED BY <1>2, <1>4

LEMMA DiffEvents ==
  ASSUME NEW current \in [Android -> AdbState]
  PROVE  /\ \A e \in Diff(current) :
              /\ e \in Event /\ e.serial \in Android
              /\ e.type \in {"connected", "offline", "unauthorized", "disconnected"}
              /\ e.type # "disconnected" => current[e.serial] # "absent"
         /\ \A s \in Android :
              current[s] = "absent" /\ previous[s] # "absent"
                => Ev(s, "disconnected") \in Diff(current)
<1> DEFINE type(s) == CASE current[s] = "device" -> "connected"
                        [] current[s] = "absent" -> "disconnected"
                        [] OTHER -> current[s]
<1>1. \A s \in Android :
        /\ type(s) \in {"connected", "offline", "unauthorized", "disconnected"}
        /\ type(s) = "disconnected" <=> current[s] = "absent"
  BY DEF AdbState
<1>2. Diff(current) = {Ev(s, type(s)) : s \in {t \in Android : current[t] # previous[t]}}
  BY DEF Diff
<1> HIDE DEF type
<1>3. ASSUME NEW e \in Diff(current)
      PROVE  /\ e \in Event /\ e.serial \in Android
             /\ e.type \in {"connected", "offline", "unauthorized", "disconnected"}
             /\ e.type # "disconnected" => current[e.serial] # "absent"
  <2>1. PICK s \in Android : e = Ev(s, type(s))
    BY <1>2
  <2>2. s \in Serial
    BY DEF Serial
  <2>3. e \in Event /\ e.serial = s /\ e.type = type(s)
    BY <1>1, <2>1, <2>2, EvType
  <2> QED BY <1>1, <2>3
<1>4. ASSUME NEW s \in Android, current[s] = "absent", previous[s] # "absent"
      PROVE  Ev(s, "disconnected") \in Diff(current)
  BY <1>1, <1>2, <1>4
<1> QED BY <1>3, <1>4

LEMMA AdbReadStep ==
  ASSUME TrackInv, AdbRead
  PROVE  TrackInv'
<1> USE DEF TrackInv, appVars, worldVars, iosVars
<1> DEFINE current == Head(pushed)
<1>1. current \in [Android -> AdbState] /\ Tail(pushed) \in Seq([Android -> AdbState])
  BY DEF AdbRead, TrackTypeOK
<1>2. adbEmit = {} /\ adbEmit' = Diff(current) /\ previous' = current
  BY DEF AdbRead
<1>3. UNCHANGED <<iosEmit, connected, ch, registered, lost>>
  BY DEF AdbRead
<1> HIDE DEF current
<1>4. (adbEmit \subseteq Event)' /\ AdbAgrees'
  BY <1>1, <1>2, DiffEvents DEF AdbAgrees
<1>5. TrackTypeOK'
  BY <1>1, <1>2, <1>4 DEF AdbRead, TrackTypeOK
<1>6. IosAgrees'
  BY <1>3 DEF IosAgrees
<1>7. Accounted'
  <2> SUFFICES ASSUME NEW s \in Serial
               PROVE  Known(s)' \/ s \in lost \/ Leaving(s)' \/ Gone(s)'
    BY <1>3 DEF Accounted
  <2>1. Known(s) \/ s \in lost \/ Leaving(s) \/ Gone(s)
    BY DEF Accounted
  <2>2. CASE Gone(s) \/ s \in lost
    BY <1>3, <2>2, GoneUnchanged
  <2>3. CASE Leaving(s)
    BY <1>2, <1>3, <2>3 DEF Leaving
  <2>4. CASE Known(s) /\ s \in Ios
    BY <1>3, <2>4 DEF Known
  <2>5. CASE Known(s) /\ s \notin Ios
    <3>1. s \in Android /\ previous[s] # "absent"
      BY <2>5 DEF Known, Serial
    <3>2. previous'[s] # "absent" \/ Ev(s, "disconnected") \in adbEmit'
      BY <1>1, <1>2, <3>1, DiffEvents
    <3> QED BY <2>5, <3>2 DEF Known, Leaving
  <2> QED BY <2>1, <2>2, <2>3, <2>4, <2>5
<1> QED BY <1>4, <1>5, <1>6, <1>7

LEMMA AdbLostStep ==
  ASSUME TrackInv, AdbLost
  PROVE  TrackInv'
<1> USE DEF TrackInv, appVars, worldVars, iosVars
<1>1. /\ adbEmit = {}
      /\ adbEmit' = {Ev(s, "disconnected") : s \in {t \in Android : previous[t] = "device"}}
      /\ lost' = lost \cup {s \in Android : previous[s] \in {"offline", "unauthorized"}}
  BY DEF AdbLost
<1>2. UNCHANGED <<iosEmit, connected, ch, registered>>
  BY DEF AdbLost
<1>3. (adbEmit \subseteq Event)' /\ AdbAgrees'
  <2>1. \A s \in Android : /\ Ev(s, "disconnected") \in Event
                           /\ Ev(s, "disconnected").serial = s
                           /\ Ev(s, "disconnected").type = "disconnected"
    BY EvType DEF Serial
  <2> QED BY <1>1, <2>1 DEF AdbAgrees
<1>4. (losses \in 0..MaxLoss)'
  BY TrackersAssumption DEF AdbLost, TrackTypeOK
<1>5. (previous \in [Android -> AdbState] /\ lost \subseteq Android)'
  BY DEF AdbLost, TrackTypeOK, AdbState
<1>6. (pushed \in Seq([Android -> AdbState]))'
  BY DEF AdbLost
<1>7. TrackTypeOK'
  BY <1>3, <1>4, <1>5, <1>6 DEF AdbLost, TrackTypeOK
<1>8. IosAgrees'
  BY <1>2 DEF IosAgrees
<1>9. Accounted'
  <2> SUFFICES ASSUME NEW s \in Serial
               PROVE  Known(s)' \/ s \in lost' \/ Leaving(s)' \/ Gone(s)'
    BY DEF Accounted
  <2>1. Known(s) \/ s \in lost \/ Leaving(s) \/ Gone(s)
    BY DEF Accounted
  <2>2. CASE Gone(s) \/ s \in lost
    BY <1>1, <1>2, <2>2, GoneUnchanged
  <2>3. CASE Leaving(s)
    BY <1>1, <1>2, <2>3 DEF Leaving
  <2>4. CASE Known(s) /\ s \in Ios
    BY <1>2, <2>4 DEF Known
  <2>5. CASE Known(s) /\ s \notin Ios
    <3>1. s \in Android /\ previous[s] # "absent" /\ previous[s] \in AdbState
      BY <2>5 DEF Known, Serial, TrackTypeOK
    <3>2. s \in lost' \/ Ev(s, "disconnected") \in adbEmit'
      BY <1>1, <3>1 DEF AdbState
    <3> QED BY <3>2 DEF Leaving
  <2> QED BY <2>1, <2>2, <2>3, <2>4, <2>5
<1> QED BY <1>3, <1>7, <1>8, <1>9

\* A Connected event is sent while the device is in the snapshot.
LEMMA EmitConnectedStep ==
  ASSUME TrackInv, NEW e \in adbEmit, EmitConnected(e)
  PROVE  TrackInv'
<1> USE DEF TrackInv, appVars, worldVars, iosVars
<1>1. /\ e \in Event /\ e.type = "connected" /\ e.serial \in Android /\ e.serial \in Serial
      /\ previous[e.serial] # "absent" /\ e.serial \notin Ios
  BY TrackersAssumption DEF EmitConnected, AdbAgrees, TrackTypeOK, Serial
<1>2. PICK f \in Event : f.serial = e.serial /\ Send(f)
  <2>1. Ev(e.serial, "nodevice") \in Event /\ Ev(e.serial, "nodevice").serial = e.serial
    BY <1>1, EvType
  <2> QED BY <1>1, <2>1 DEF EmitConnected
<1>3. UNCHANGED <<previous, iosEmit, connected, registered, lost>> /\ adbEmit' = adbEmit \ {e}
  BY DEF EmitConnected
<1>4. (ch \in Seq(Event) /\ Len(ch) <= Capacity)'
  BY <1>2, TrackersAssumption DEF Send, TrackTypeOK
<1>5. TrackTypeOK'
  BY <1>3, <1>4 DEF EmitConnected, TrackTypeOK
<1>6. (AdbAgrees /\ IosAgrees)'
  BY <1>3 DEF AdbAgrees, IosAgrees
<1>7. Accounted'
  <2> SUFFICES ASSUME NEW s \in Serial
               PROVE  Known(s)' \/ s \in lost \/ Leaving(s)' \/ Gone(s)'
    BY <1>3 DEF Accounted
  <2>1. Known(s) \/ s \in lost \/ Leaving(s) \/ Gone(s)
    BY DEF Accounted
  <2>2. CASE s = e.serial
    BY <1>1, <1>3, <2>2 DEF Known
  <2>3. CASE s # e.serial
    <3>1. Ev(s, "connected").serial = s /\ Ev(s, "disconnected").serial = s
      BY EvType
    <3>2. Leaving(s) => Leaving(s)'
      BY <1>3, <2>3, <3>1 DEF Leaving
    <3>3. Gone(s) => Gone(s)'
      BY <1>2, <1>3, <2>3, <3>1, GoneKept DEF Send
    <3> QED BY <1>3, <2>1, <3>2, <3>3 DEF Known
  <2> QED BY <2>2, <2>3
<1> QED BY <1>5, <1>6, <1>7

\* An event that emitSimple drops is remembered in lost when it is the one that
\* the device left.
LEMMA EmitSimpleStep ==
  ASSUME TrackInv, NEW e \in adbEmit, EmitSimple(e)
  PROVE  TrackInv'
<1> USE DEF TrackInv, appVars, worldVars, iosVars
<1>1. /\ e \in Event /\ e.type # "connected" /\ e.serial \in Android /\ e.serial \in Serial
      /\ e.type # "disconnected" => previous[e.serial] # "absent"
      /\ e.serial \notin Ios
  BY TrackersAssumption DEF EmitSimple, AdbAgrees, TrackTypeOK, Serial
<1>2. UNCHANGED <<previous, iosEmit, connected, registered>> /\ adbEmit' = adbEmit \ {e}
  BY DEF EmitSimple
<1>3. \/ /\ Len(ch) < Capacity /\ ch' = Append(ch, e) /\ lost' = lost \ {e.serial}
      \/ /\ ch' = ch
         /\ lost' = IF e.type = "disconnected" THEN lost \cup {e.serial} ELSE lost
  BY DEF EmitSimple, Send
<1>4. (ch \in Seq(Event) /\ Len(ch) <= Capacity)'
  <2>1. CASE Len(ch) < Capacity /\ ch' = Append(ch, e)
    BY <1>1, <2>1, TrackersAssumption DEF TrackTypeOK
  <2>2. CASE ch' = ch
    BY <2>2 DEF TrackTypeOK
  <2> QED BY <1>3, <2>1, <2>2
<1>5. (lost \subseteq Android)'
  BY <1>1, <1>3 DEF TrackTypeOK
<1>6. TrackTypeOK'
  BY <1>2, <1>4, <1>5 DEF EmitSimple, TrackTypeOK
<1>7. (AdbAgrees /\ IosAgrees)'
  BY <1>2 DEF AdbAgrees, IosAgrees
<1>8. Accounted'
  <2> SUFFICES ASSUME NEW s \in Serial
               PROVE  Known(s)' \/ s \in lost' \/ Leaving(s)' \/ Gone(s)'
    BY DEF Accounted
  <2>1. Known(s) \/ s \in lost \/ Leaving(s) \/ Gone(s)
    BY DEF Accounted
  <2>2. CASE s = e.serial /\ e.type # "disconnected"
    BY <1>1, <1>2, <2>2 DEF Known
  <2>3. CASE s = e.serial /\ e.type = "disconnected"
    <3>1. e = Ev(s, "disconnected")
      BY <1>1, <2>3, EventIsEv
    <3> QED BY <1>3, <2>3, <3>1, SentGone
  <2>4. CASE s # e.serial
    <3>1. Ev(s, "connected").serial = s /\ Ev(s, "disconnected").serial = s
      BY EvType
    <3>2. Leaving(s) => Leaving(s)'
      BY <1>2, <2>4, <3>1 DEF Leaving
    <3>3. Gone(s) => Gone(s)'
      BY <1>1, <1>2, <1>3, <2>4, <3>1, GoneKept, GoneUnchanged
    <3>4. s \in lost => s \in lost'
      BY <1>3, <2>4
    <3> QED BY <1>2, <2>1, <3>2, <3>3, <3>4 DEF Known
  <2> QED BY <2>2, <2>3, <2>4
<1> QED BY <1>6, <1>7, <1>8

\* The iOS tracker: the map and what is still to be sent change together.
LEMMA MuxConnectStep ==
  ASSUME TrackInv, MuxConnect
  PROVE  TrackInv'
<1> USE DEF TrackInv, appVars, worldVars, adbVars
<1>1. (muxed \in Seq(Ios \X BOOLEAN))'
  <2> DEFINE S == {t \in Ios : usb[t] = "device"}
  <2>1. S \in SUBSET Ios /\ muxed' = SetToSeq({<<s, TRUE>> : s \in S})
    BY DEF MuxConnect
  <2> HIDE DEF S
  <2> QED BY <2>1, AttachedList
<1>2. TrackTypeOK'
  BY <1>1 DEF MuxConnect, TrackTypeOK
<1>3. UNCHANGED <<adbEmit, previous, iosEmit, connected, ch, registered, lost>>
  BY DEF MuxConnect
<1>4. (AdbAgrees /\ IosAgrees /\ Accounted)'
  BY <1>3, GoneUnchanged DEF AdbAgrees, IosAgrees, Accounted, Known, Leaving
<1> QED BY <1>2, <1>4

LEMMA MuxReadStep ==
  ASSUME TrackInv, MuxRead
  PROVE  TrackInv'
<1> USE DEF TrackInv, appVars, worldVars, adbVars
<1>1. Head(muxed) \in Ios \X BOOLEAN /\ Tail(muxed) \in Seq(Ios \X BOOLEAN)
  BY DEF MuxRead, TrackTypeOK
<1>2. PICK i \in Ios, attached \in BOOLEAN :
        /\ connected' = IF attached THEN connected \cup {i} ELSE connected \ {i}
        /\ iosEmit' = IF (i \in connected) = attached THEN {}
                      ELSE {Ev(i, IF attached THEN "connected" ELSE "disconnected")}
  BY <1>1 DEF MuxRead
<1>3. UNCHANGED <<adbEmit, previous, ch, registered, lost>> /\ iosEmit = {}
  BY DEF MuxRead
<1>4. i \in Serial /\ i \notin Android
  BY TrackersAssumption DEF Serial
<1>5. \/ connected' = connected /\ iosEmit' = {}
      \/ connected' = connected \cup {i} /\ iosEmit' = {Ev(i, "connected")}
      \/ connected' = connected \ {i} /\ iosEmit' = {Ev(i, "disconnected")}
  <2>1. CASE attached
    BY <1>2, <2>1
  <2>2. CASE ~attached
    BY <1>2, <2>2
  <2> QED BY <2>1, <2>2
<1>6. /\ Ev(i, "connected") \in Event
      /\ Ev(i, "connected").serial = i /\ Ev(i, "connected").type = "connected"
      /\ Ev(i, "disconnected") \in Event
      /\ Ev(i, "disconnected").serial = i /\ Ev(i, "disconnected").type = "disconnected"
  BY <1>4, EvType
<1>7. (connected \subseteq Ios /\ iosEmit \subseteq Event /\ IosAgrees)'
  BY <1>5, <1>6 DEF TrackTypeOK, IosAgrees
<1>8. TrackTypeOK'
  BY <1>1, <1>7 DEF MuxRead, TrackTypeOK
<1>9. AdbAgrees'
  BY <1>3 DEF AdbAgrees
<1>10. Accounted'
  <2> SUFFICES ASSUME NEW s \in Serial
               PROVE  Known(s)' \/ s \in lost \/ Leaving(s)' \/ Gone(s)'
    BY <1>3 DEF Accounted
  <2>1. Known(s) \/ s \in lost \/ Leaving(s) \/ Gone(s)
    BY DEF Accounted
  <2>2. Leaving(s) => Leaving(s)'
    BY <1>3 DEF Leaving
  <2>3. Known(s) => Known(s)' \/ Leaving(s)'
    BY <1>3, <1>5 DEF Known, Leaving
  <2> QED BY <1>3, <2>1, <2>2, <2>3, GoneUnchanged
<1> QED BY <1>7, <1>8, <1>9, <1>10

LEMMA MuxLostStep ==
  ASSUME TrackInv, MuxLost
  PROVE  TrackInv'
<1> USE DEF TrackInv, appVars, worldVars, adbVars
<1>1. connected' = {} /\ iosEmit' = {Ev(s, "disconnected") : s \in connected}
  BY DEF MuxLost
<1>2. UNCHANGED <<adbEmit, previous, ch, registered, lost>> /\ iosEmit = {}
  BY DEF MuxLost
<1>3. (iosEmit \subseteq Event /\ IosAgrees)'
  <2>1. \A s \in connected : /\ s \in Ios
                             /\ Ev(s, "disconnected") \in Event
                             /\ Ev(s, "disconnected").serial = s
                             /\ Ev(s, "disconnected").type = "disconnected"
    BY EvType DEF Serial, TrackTypeOK
  <2> QED BY <1>1, <2>1 DEF IosAgrees
<1>4. (losses \in 0..MaxLoss)'
  BY TrackersAssumption DEF MuxLost, TrackTypeOK
<1>5. (muxed \in Seq(Ios \X BOOLEAN))'
  BY DEF MuxLost
<1>6. TrackTypeOK'
  BY <1>3, <1>4, <1>5 DEF MuxLost, TrackTypeOK
<1>7. AdbAgrees'
  BY <1>2 DEF AdbAgrees
<1>8. Accounted'
  <2> SUFFICES ASSUME NEW s \in Serial
               PROVE  Known(s)' \/ s \in lost \/ Leaving(s)' \/ Gone(s)'
    BY <1>2 DEF Accounted
  <2>1. Known(s) \/ s \in lost \/ Leaving(s) \/ Gone(s)
    BY DEF Accounted
  <2>2. Leaving(s) => Leaving(s)'
    BY <1>2 DEF Leaving
  <2>3. Known(s) => Known(s)' \/ Leaving(s)'
    BY <1>1, <1>2 DEF Known, Leaving
  <2> QED BY <1>2, <2>1, <2>2, <2>3, GoneUnchanged
<1> QED BY <1>3, <1>6, <1>7, <1>8

LEMMA IosSendStep ==
  ASSUME TrackInv, NEW e \in iosEmit, IosSend(e)
  PROVE  TrackInv'
<1> USE DEF TrackInv, appVars, worldVars, adbVars
<1>1. /\ e \in Event /\ e.serial \in Ios /\ e.serial \in Serial
      /\ e.type \in {"connected", "disconnected"}
      /\ e.type = "connected" => e.serial \in connected
  BY DEF IosAgrees, TrackTypeOK, Serial
<1>2. UNCHANGED <<previous, adbEmit, connected, registered, lost>> /\ iosEmit' = iosEmit \ {e}
  BY DEF IosSend
<1>3. Len(ch) < Capacity /\ ch' = Append(ch, e)
  BY DEF IosSend, Send
<1>4. (ch \in Seq(Event) /\ Len(ch) <= Capacity)'
  BY <1>1, <1>3, TrackersAssumption DEF TrackTypeOK
<1>5. TrackTypeOK'
  BY <1>2, <1>4 DEF IosSend, TrackTypeOK
<1>6. (AdbAgrees /\ IosAgrees)'
  BY <1>2 DEF AdbAgrees, IosAgrees
<1>7. Accounted'
  <2> SUFFICES ASSUME NEW s \in Serial
               PROVE  Known(s)' \/ s \in lost \/ Leaving(s)' \/ Gone(s)'
    BY <1>2 DEF Accounted
  <2>1. Known(s) \/ s \in lost \/ Leaving(s) \/ Gone(s)
    BY DEF Accounted
  <2>2. CASE s = e.serial /\ e.type = "connected"
    BY <1>1, <1>2, <2>2 DEF Known
  <2>3. CASE s = e.serial /\ e.type = "disconnected"
    <3>1. e = Ev(s, "disconnected")
      BY <1>1, <2>3, EventIsEv
    <3> QED BY <1>3, <3>1, SentGone
  <2>4. CASE s # e.serial
    <3>1. Ev(s, "connected").serial = s /\ Ev(s, "disconnected").serial = s
      BY EvType
    <3>2. Leaving(s) => Leaving(s)'
      BY <1>2, <2>4, <3>1 DEF Leaving
    <3>3. Gone(s) => Gone(s)'
      BY <1>1, <1>2, <1>3, <2>4, <3>1, GoneKept
    <3> QED BY <1>2, <2>1, <3>2, <3>3 DEF Known
  <2> QED BY <1>1, <2>2, <2>3, <2>4
<1> QED BY <1>5, <1>6, <1>7

\* The event loop.
LEMMA HandleStep ==
  ASSUME TrackInv, HandleEvent
  PROVE  TrackInv'
<1> USE DEF TrackInv, worldVars, adbVars, iosVars
<1>1. Head(ch) \in Event /\ (ch \in Seq(Event))' /\ (Len(ch) <= Capacity)'
  BY TrackersAssumption DEF HandleEvent, TrackTypeOK
<1>2. Head(ch).serial \in Serial
  BY <1>1 DEF Event
<1>3. (registered \subseteq Serial /\ skipped \subseteq Serial /\ handling \subseteq Event)'
  BY <1>1, <1>2 DEF HandleEvent, TrackTypeOK
<1>4. TrackTypeOK'
  BY <1>1, <1>3 DEF HandleEvent, TrackTypeOK
<1>5. UNCHANGED <<adbEmit, previous, iosEmit, connected, lost>>
  BY DEF HandleEvent
<1>6. (AdbAgrees /\ IosAgrees)'
  BY <1>5 DEF AdbAgrees, IosAgrees
<1>7. Accounted'
  BY <1>5, GoneHandled DEF Accounted, Known, Leaving
<1> QED BY <1>4, <1>6, <1>7

LEMMA HandledStep ==
  ASSUME TrackInv, EventHandled
  PROVE  TrackInv'
<1>1. /\ handling' = {}
      /\ UNCHANGED <<worldVars, adbVars, iosVars, ch, registered, skipped, lost>>
  BY DEF EventHandled
<1>2. TrackTypeOK'
  BY <1>1 DEF TrackInv, TrackTypeOK, worldVars, adbVars, iosVars
<1>3. (AdbAgrees /\ IosAgrees /\ Accounted)'
  BY <1>1, GoneUnchanged
     DEF TrackInv, AdbAgrees, IosAgrees, Accounted, Known, Leaving, adbVars, iosVars
<1> QED BY <1>2, <1>3 DEF TrackInv

LEMMA TrackStep == TrackInv /\ [TrackNext]_trackVars => TrackInv'
<1> SUFFICES ASSUME TrackInv, [TrackNext]_trackVars PROVE TrackInv'
  OBVIOUS
<1>1. CASE UNCHANGED trackVars
  <2>1. UNCHANGED <<worldVars, adbVars, iosVars, ch, registered, handling, skipped, lost>>
    BY <1>1 DEF trackVars, appVars
  <2>2. TrackTypeOK'
    BY <2>1 DEF TrackInv, TrackTypeOK, worldVars, adbVars, iosVars
  <2>3. (AdbAgrees /\ IosAgrees /\ Accounted)'
    BY <2>1, GoneUnchanged
       DEF TrackInv, AdbAgrees, IosAgrees, Accounted, Known, Leaving, adbVars, iosVars
  <2> QED BY <2>2, <2>3 DEF TrackInv
<1>2. CASE \E s \in Serial : UsbChange(s)
  BY <1>2, UsbStep
<1>3. CASE AdbStep
  BY <1>3, AdbConnectStep, AdbReadStep, EmitConnectedStep, EmitSimpleStep DEF AdbStep
<1>4. CASE IosStep
  BY <1>4, MuxConnectStep, MuxReadStep, IosSendStep DEF IosStep
<1> QED BY <1>1, <1>2, <1>3, <1>4, AdbLostStep, MuxLostStep, HandleStep, HandledStep DEF TrackNext

LEMMA TrackInvariant == TrackSpec => []TrackInv
  BY TrackInitInv, TrackStep, PTL DEF TrackSpec

-----------------------------------------------------------------------------
\* The trackers keep to their types; the channel never holds more events than it
\* has room for, although two trackers fill it.
THEOREM TrackTypes == TrackSpec => []TrackTypeOK
  BY TrackInvariant, PTL DEF TrackInv

\* Whatever connections to adb and usbmuxd are lost and however the events of the
\* two trackers interleave in the channel, the registry holds no device that its
\* tracker no longer knows, once its events are handled, other than an Android
\* device whose Disconnected event was dropped or was never made.
THEOREM NoGhosts == TrackSpec => []NoGhost
<1>1. TrackInv => NoGhost
  <2> SUFFICES ASSUME TrackInv, NEW s \in registered, ~InFlight(s)
               PROVE  Known(s) \/ s \in lost
    BY DEF NoGhost, Known
  <2>1. s \in Serial
    BY DEF TrackInv, TrackTypeOK
  <2>2. Ev(s, "disconnected").serial = s
    BY <2>1, EvType
  <2>3. ~Leaving(s) /\ ~Gone(s)
    BY <2>2 DEF InFlight, Leaving, Gone
  <2> QED BY <2>1, <2>3 DEF TrackInv, Accounted
<1> QED BY <1>1, TrackInvariant, PTL

-----------------------------------------------------------------------------
(***************************************************************************)
(* The whole path of a device.                                             *)
(***************************************************************************)

\* Coupled in the event loop, the trackers still behave as they do alone.
LEMMA PathImplementsTrackers == PathSpec => TrackSpec
<1>1. PathInit => TrackInit
  BY DEF PathInit
<1>2. [PathNext]_pathVars => [TrackNext]_trackVars
  <2> SUFFICES ASSUME [PathNext]_pathVars PROVE [TrackNext]_trackVars
    OBVIOUS
  <2>1. CASE UNCHANGED pathVars
    BY <2>1 DEF pathVars
  <2>2. CASE EventBegins \/ EventEnds
    BY <2>2 DEF EventBegins, EventEnds, TrackNext
  <2>3. CASE TrackerStep
    BY <2>3 DEF TrackerStep, TrackNext
  <2>4. CASE \E c \in calls \cup replies \cup expired : CallMoves(c)
    BY <2>4 DEF CallMoves
  <2>5. CASE LinkStep
    BY <2>5 DEF LinkStep
  <2> QED BY <2>1, <2>2, <2>3, <2>4, <2>5 DEF PathNext
<1> QED BY <1>1, <1>2, PTL DEF PathSpec, TrackSpec

\* The trackers, by themselves, touch neither the event loop nor the calls.
LEMMA TrackerQuiet ==
  ASSUME TrackerStep
  PROVE  UNCHANGED <<registered, handling, callVars, mishap>>
<1>1. UNCHANGED <<callVars, mishap>>
  BY DEF TrackerStep
<1>2. ASSUME NEW s \in Serial, UsbChange(s) PROVE UNCHANGED <<registered, handling>>
  BY <1>2 DEF UsbChange, appVars
<1>3. ASSUME AdbStep \/ AdbLost PROVE UNCHANGED <<registered, handling>>
  BY <1>3 DEF AdbStep, AdbConnect, AdbRead, EmitConnected, EmitSimple, AdbLost, appVars
<1>4. ASSUME IosStep \/ MuxLost PROVE UNCHANGED <<registered, handling>>
  BY <1>4 DEF IosStep, MuxConnect, MuxRead, IosSend, MuxLost, appVars
<1> QED BY <1>1, <1>2, <1>3, <1>4 DEF TrackerStep

\* The links and the calls leave the event loop alone; the links leave the calls
\* alone too.
LEMMA LinkQuiet ==
  ASSUME LinkStep
  PROVE  UNCHANGED <<registered, handling, mishap, announced, calls, replies, listed, events>>
<1>1. UNCHANGED <<registered, handling, mishap>>
  BY DEF LinkStep, trackVars, appVars
<1>2. UNCHANGED <<announced, calls, replies, listed, events>>
  BY DEF LinkStep, P!Boot, P!OpenStream, P!SendPing, P!ClientNotices, P!BreakStream,
     P!OutageBegins, P!CoordinatorCrashes, P!OutageEnds, P!HandlerStep, P!HandlePing,
     P!HandlerEnds, P!HandlerAborts, P!clientVars, P!callSets, P!netVars, P!serverVars
<1> QED BY <1>1, <1>2

LEMMA MoveQuiet ==
  ASSUME NEW c, CallMoves(c)
  PROVE  UNCHANGED <<registered, handling, announced, events>>
<1>1. UNCHANGED <<registered, handling>>
  BY DEF CallMoves, trackVars, appVars
<1>2. UNCHANGED <<announced, events>>
  BY DEF CallMoves, CallTaken, CallAnswered, CallGivenUp, P!CallRegister, P!CallRelease,
     P!Execute, P!CallReturns, P!CallExpires
<1> QED BY <1>1, <1>2

\* What was announced is what the registry has, but for the device whose event is
\* being handled: the registry is ahead of the announcement by that event.
Ahead ==
  /\ handling \subseteq Event
  /\ \A e \in handling : e.type \in {"connected", "disconnected"}
  /\ \A e, f \in handling : e = f
  /\ \A s \in Serial :
       (\A e \in handling : e.serial # s) => (s \in announced <=> s \in registered)
  /\ \A e \in handling : e.type = "connected" => e.serial \in registered \ announced
  /\ \A e \in handling : e.type = "disconnected" => e.serial \notin registered

LEMMA BeginAhead ==
  ASSUME TrackTypeOK, Ahead, EventBegins
  PROVE  Ahead'
<1> DEFINE e == Head(ch)
<1>1. e \in Event /\ e.serial \in Serial
  <2>1. ch # <<>> /\ ch \in Seq(Event)
    BY DEF EventBegins, HandleEvent, TrackTypeOK
  <2>2. e \in Event
    BY <2>1
  <2> QED BY <2>2 DEF Event
<1>2. /\ handling = {} /\ announced' = announced
      /\ registered' = CASE e.type = "connected" -> registered \cup {e.serial}
                          [] e.type = "disconnected" -> registered \ {e.serial}
                          [] OTHER -> registered
      /\ handling' = IF (e.type = "connected" /\ e.serial \notin registered)
                        \/ e.type = "disconnected" THEN {e} ELSE {}
  BY DEF EventBegins, HandleEvent, callVars
<1> HIDE DEF e
<1>3. \A s \in Serial : s \in announced <=> s \in registered
  BY <1>2 DEF Ahead
<1>4. CASE e.type = "connected" /\ e.serial \notin registered
  BY <1>1, <1>2, <1>3, <1>4 DEF Ahead
<1>5. CASE e.type = "disconnected"
  BY <1>1, <1>2, <1>3, <1>5 DEF Ahead
<1>6. CASE e.type # "disconnected" /\ ~(e.type = "connected" /\ e.serial \notin registered)
  <2>1. handling' = {} /\ registered' = registered
    BY <1>2, <1>6
  <2> QED BY <1>2, <1>3, <2>1 DEF Ahead
<1> QED BY <1>4, <1>5, <1>6

\* The end of a handler: its device is announced as the registry has it.
LEMMA EndAnnounces ==
  ASSUME Ahead, EventEnds
  PROVE  /\ \E s \in Serial :
              /\ \A e \in handling : e.serial = s
              /\ \/ P!Plug(s) /\ s \in registered
                 \/ P!Unplug(s) /\ s \notin registered
         /\ handling' = {} /\ registered' = registered /\ mishap' = mishap
<1>1. PICK e \in handling :
        IF e.type = "connected" THEN P!Plug(e.serial) ELSE P!Unplug(e.serial)
  BY DEF EventEnds
<1>2. e.serial \in Serial /\ \A f \in handling : f.serial = e.serial
  BY DEF Ahead, Event
<1>3. \/ P!Plug(e.serial) /\ e.serial \in registered
      \/ P!Unplug(e.serial) /\ e.serial \notin registered
  BY <1>1 DEF Ahead
<1>4. handling' = {} /\ registered' = registered /\ mishap' = mishap
  BY DEF EventEnds, EventHandled
<1> QED BY <1>2, <1>3, <1>4

LEMMA EndAhead ==
  ASSUME Ahead, EventEnds
  PROVE  Ahead'
<1>1. PICK s \in Serial : /\ \A e \in handling : e.serial = s
                          /\ \/ P!Plug(s) /\ s \in registered
                             \/ P!Unplug(s) /\ s \notin registered
  BY EndAnnounces
<1>2. handling' = {} /\ registered' = registered
  BY EndAnnounces
<1>3. \/ announced' = announced \cup {s} /\ s \in registered
      \/ announced' = announced \ {s} /\ s \notin registered
  BY <1>1 DEF P!Plug, P!Unplug
<1>4. \A r \in Serial : r \in announced' <=> r \in registered'
  BY <1>1, <1>2, <1>3 DEF Ahead
<1> QED BY <1>2, <1>4 DEF Ahead

LEMMA AheadStep == TrackTypeOK /\ Ahead /\ [PathNext]_pathVars => Ahead'
<1> SUFFICES ASSUME TrackTypeOK, Ahead, [PathNext]_pathVars PROVE Ahead'
  OBVIOUS
<1>1. ASSUME UNCHANGED <<handling, registered, announced>> PROVE Ahead'
  BY <1>1 DEF Ahead
<1>2. CASE UNCHANGED pathVars
  BY <1>1, <1>2 DEF pathVars, trackVars, appVars, callVars
<1>3. CASE TrackerStep
  BY <1>1, <1>3, TrackerQuiet DEF callVars
<1>4. CASE \E c \in calls \cup replies \cup expired : CallMoves(c)
  BY <1>1, <1>4, MoveQuiet
<1>5. CASE LinkStep
  BY <1>1, <1>5, LinkQuiet
<1> QED BY <1>2, <1>3, <1>4, <1>5, BeginAhead, EndAhead DEF PathNext

LEMMA PathAhead == PathSpec => [](TrackTypeOK /\ Ahead)
<1>1. PathInit => Ahead
  BY DEF PathInit, TrackInit, P!PresenceInit, Ahead
<1> QED BY <1>1, AheadStep, PathImplementsTrackers, TrackTypes, PTL DEF PathSpec

\* Read with the announced devices as those that are plugged in, the path is a
\* behaviour of Presence: no device is announced twice without leaving in between,
\* however its events and those of other devices interleave.
THEOREM PathImplementsPresence == PathSpec => P!PresenceSpec
<1>1. PathInit => P!PresenceInit
  BY DEF PathInit
<1>2. Ahead /\ [PathNext]_pathVars => [P!PresenceNext]_(P!presenceVars)
  <2> SUFFICES ASSUME Ahead, [PathNext]_pathVars
               PROVE  [P!PresenceNext]_(P!presenceVars)
    OBVIOUS
  <2>0. UNCHANGED callVars => UNCHANGED P!presenceVars
    BY DEF P!presenceVars, P!clientVars, P!callSets, P!netVars, P!serverVars, callVars
  <2>1. CASE UNCHANGED pathVars
    BY <2>0, <2>1 DEF pathVars
  <2>2. CASE EventBegins
    BY <2>0, <2>2 DEF EventBegins
  <2>3. CASE EventEnds
    BY <2>3, EndAnnounces DEF P!PresenceNext
  <2>4. CASE TrackerStep
    BY <2>0, <2>4 DEF TrackerStep
  <2>5. CASE \E c \in calls \cup replies \cup expired : CallMoves(c)
    BY <2>5 DEF CallMoves, CallTaken, CallAnswered, CallGivenUp, P!CallStep, P!PresenceNext
  <2>6. CASE LinkStep
    BY <2>6 DEF LinkStep, P!PresenceNext
  <2> QED BY <2>1, <2>2, <2>3, <2>4, <2>5, <2>6 DEF PathNext
<1> QED BY <1>1, <1>2, PathAhead, PTL DEF PathSpec, P!PresenceSpec

\* So the registry has no ghosts on the whole path either.
THEOREM PathNoGhosts == PathSpec => []NoGhost
  BY PathImplementsTrackers, NoGhosts, PTL

-----------------------------------------------------------------------------
AnswersBacked == \A c \in replies : c[2] = "register" => row[c[3]] # "none"

\* The types and rows of Presence; nothing is registered before App.Run has
\* registered the provider, an open stream has its number, and a device has a row
\* when its registration is answered.
PresenceInv ==
  /\ P!PresenceTypeOK /\ P!RowsBacked /\ AnswersBacked
  /\ providerRow => booted
  /\ hbOpen => stream # 0

LEMMA PresenceInitInv == P!PresenceInit => PresenceInv
<1> SUFFICES ASSUME P!PresenceInit PROVE PresenceInv
  OBVIOUS
<1>1. P!PresenceTypeOK
  <2>1. 0 \in 0..MaxEvent /\ 0 \in 0..MaxStream /\ 0 \in 0..MaxOutage
    BY PathAssumption
  <2>2. /\ ping \in [P!Stream -> SUBSET SUBSET Serial]
        /\ row \in [Serial -> {"none", "idle", "offline"}]
        /\ handler \in [P!Stream -> {"none", "open", "closed"}]
    BY DEF P!PresenceInit
  <2> QED BY <2>1, <2>2 DEF P!PresenceInit, P!PresenceTypeOK
<1>2. P!RowsBacked
  BY DEF P!PresenceInit, P!RowsBacked
<1> QED BY <1>1, <1>2 DEF PresenceInv, AnswersBacked, P!PresenceInit

\* A call is executed, answered or given up.
LEMMA CallTypes ==
  ASSUME PresenceInv, NEW c \in calls \cup replies \cup expired, P!CallStep(c)
  PROVE  PresenceInv'
<1> USE DEF PresenceInv, AnswersBacked, P!netVars, P!serverVars
<1>1. c[3] \in Serial /\ c \in (1..MaxEvent) \X {"register", "release"} \X Serial
  BY DEF P!PresenceTypeOK
<1>2. CASE P!CallRegister(c) \/ P!CallRelease(c)
  <2>1. P!Execute(c, TRUE) \/ P!Execute(c, providerRow)
    BY <1>2 DEF P!CallRegister, P!CallRelease
  <2>2. /\ calls' = calls \ {c} /\ expired' = expired \ {c}
        /\ replies' \subseteq replies \cup {c}
        /\ UNCHANGED <<booted, announced, events, listed, hbOpen, stream, ping, broken,
                       reachable, outages, providerRow, handler, activeHB>>
    BY <2>1 DEF P!Execute
  <2>3. /\ row' \in [Serial -> {"none", "idle", "offline"}]
        /\ \A s \in Serial : row[s] # "none" => row'[s] # "none"
        /\ \A s \in Serial : row'[s] # "none" => row[s] # "none" \/ providerRow
    <3>1. row \in [Serial -> {"none", "idle", "offline"}] /\ providerRow \in BOOLEAN
      BY DEF P!PresenceTypeOK
    <3>2. CASE P!CallRegister(c)
      <4>1. row' = (IF providerRow THEN [row EXCEPT ![c[3]] = "idle"] ELSE row)
        BY <3>2 DEF P!CallRegister
      <4>2. CASE providerRow
        BY ONLY <1>1, <3>1, <4>1, <4>2
      <4>3. CASE ~providerRow
        BY ONLY <3>1, <4>1, <4>3
      <4> QED BY <4>2, <4>3
    <3>3. CASE P!CallRelease(c)
      <4>1. row' = [row EXCEPT ![c[3]] = IF @ = "none" THEN @ ELSE "offline"]
        BY <3>3 DEF P!CallRelease
      <4> QED BY ONLY <1>1, <3>1, <4>1
    <3> QED BY <1>2, <3>2, <3>3
  <2>4. P!PresenceTypeOK'
    BY <1>1, <2>2, <2>3 DEF P!PresenceTypeOK
  <2>5. P!RowsBacked'
    BY <2>2, <2>3 DEF P!RowsBacked, P!PresenceTypeOK
  <2>6. ASSUME NEW d \in replies', d[2] = "register" PROVE row'[d[3]] # "none"
    <3>1. CASE d \in replies
      BY <2>3, <2>6, <3>1 DEF P!PresenceTypeOK
    <3>2. CASE d \notin replies
      <4>1. d = c /\ P!CallRegister(c) /\ providerRow
        BY <1>2, <2>2, <2>6, <3>2 DEF P!CallRegister, P!CallRelease, P!Execute
      <4> QED BY <1>1, <4>1 DEF P!CallRegister, P!PresenceTypeOK
    <3> QED BY <3>1, <3>2
  <2> QED BY <2>2, <2>4, <2>5, <2>6
<1>3. CASE c \in replies /\ P!CallReturns(c)
  <2>1. /\ replies' = replies \ {c}
        /\ listed' = IF c[2] = "register" THEN listed \cup {c[3]} ELSE listed \ {c[3]}
        /\ UNCHANGED <<booted, announced, events, calls, expired, hbOpen, stream, ping,
                       broken, reachable, outages, providerRow, row, handler, activeHB>>
    BY <1>3 DEF P!CallReturns
  <2>2. P!PresenceTypeOK'
    BY <1>1, <2>1 DEF P!PresenceTypeOK
  <2>3. P!RowsBacked'
    BY <1>3, <2>1 DEF P!RowsBacked
  <2> QED BY <2>1, <2>2, <2>3
<1>4. CASE P!CallExpires(c)
  <2>1. /\ calls' \subseteq calls /\ replies' \subseteq replies
        /\ expired' \subseteq expired \cup {c}
        /\ UNCHANGED <<booted, announced, events, listed, hbOpen, stream, ping, broken,
                       reachable, outages, providerRow, row, handler, activeHB>>
    BY <1>4 DEF P!CallExpires
  <2>2. P!PresenceTypeOK'
    BY <1>1, <2>1 DEF P!PresenceTypeOK
  <2>3. P!RowsBacked'
    BY <2>1 DEF P!RowsBacked
  <2> QED BY <2>1, <2>2, <2>3
<1> QED BY <1>2, <1>3, <1>4 DEF P!CallStep

\* A handler of the coordinator.
LEMMA HandlerTypes ==
  ASSUME PresenceInv, NEW i \in P!Stream, P!HandlerStep(i)
  PROVE  PresenceInv'
<1> USE DEF PresenceInv, AnswersBacked, P!clientVars, P!callSets
<1>0. i \in 0..MaxStream
  BY PathAssumption DEF P!Stream
<1>1. CASE P!HandlePing(i)
  <2>1. PICK snapshot \in ping[i] : P!Revive(snapshot)
    BY <1>1 DEF P!HandlePing
  <2>2. row' \in [Serial -> {"none", "idle", "offline"}]
    BY <2>1 DEF P!Revive, P!PresenceTypeOK
  <2>3. \A s \in Serial : row'[s] = "none" <=> row[s] = "none"
    BY <2>1 DEF P!Revive, P!PresenceTypeOK
  <2>4. P!PresenceTypeOK'
    BY <1>0, <1>1, <2>2 DEF P!HandlePing, P!PresenceTypeOK
  <2>5. P!RowsBacked'
    BY <1>1, <2>3 DEF P!HandlePing, P!PresenceTypeOK, P!RowsBacked
  <2>6. AnswersBacked'
    BY <1>1, <2>3 DEF P!HandlePing, P!PresenceTypeOK
  <2> QED BY <1>1, <2>4, <2>5, <2>6 DEF P!HandlePing
<1>2. CASE P!HandlerEnds(i)
  <2>1. P!PresenceTypeOK'
    BY <1>2, PathAssumption DEF P!HandlerEnds, P!PresenceTypeOK
  <2>2. P!RowsBacked'
    BY <1>2 DEF P!HandlerEnds, P!PresenceTypeOK, P!RowsBacked
  <2>3. AnswersBacked'
    BY <1>2 DEF P!HandlerEnds, P!PresenceTypeOK
  <2> QED BY <1>2, <2>1, <2>2, <2>3 DEF P!HandlerEnds
<1>3. CASE P!HandlerAborts(i)
  BY <1>3 DEF P!HandlerAborts, P!PresenceTypeOK, P!RowsBacked
<1> QED BY <1>1, <1>2, <1>3 DEF P!HandlerStep

LEMMA StreamOpen == PresenceInv /\ hbOpen => stream \in P!Stream
  BY PathAssumption DEF PresenceInv, P!PresenceTypeOK, P!Stream

LEMMA PresenceStep == PresenceInv /\ [P!PresenceNext]_(P!presenceVars) => PresenceInv'
<1> SUFFICES ASSUME PresenceInv, [P!PresenceNext]_(P!presenceVars) PROVE PresenceInv'
  OBVIOUS
<1> USE DEF AnswersBacked, P!clientVars, P!callSets, P!netVars, P!serverVars
<1>1. CASE UNCHANGED P!presenceVars
  BY <1>1 DEF P!presenceVars, PresenceInv, P!PresenceTypeOK, P!RowsBacked
<1>2. CASE P!Boot
  <2>1. P!PresenceTypeOK'
    BY <1>2 DEF PresenceInv, P!Boot, P!PresenceTypeOK
  <2> QED BY <1>2, <2>1 DEF PresenceInv, P!Boot, P!RowsBacked
<1>3. ASSUME NEW s \in Serial, P!Plug(s) \/ P!Unplug(s) PROVE PresenceInv'
  <2>1. PICK kind \in {"register", "release"} : P!Notify(kind, s)
    BY <1>3 DEF P!Plug, P!Unplug
  <2>2. announced' \subseteq Serial
    BY <1>3 DEF P!Plug, P!Unplug, PresenceInv, P!PresenceTypeOK
  <2>3. events' \in 1..MaxEvent /\ events' \in 0..MaxEvent
    BY <2>1, PathAssumption DEF P!Notify, PresenceInv, P!PresenceTypeOK
  <2>4. (calls \cup replies \cup expired)'
          \subseteq (1..MaxEvent) \X {"register", "release"} \X Serial
    BY <2>1, <2>3 DEF P!Notify, PresenceInv, P!PresenceTypeOK
  <2>5. P!PresenceTypeOK'
    BY <2>1, <2>2, <2>3, <2>4 DEF P!Notify, PresenceInv, P!PresenceTypeOK
  <2> QED BY <2>1, <2>5 DEF P!Notify, PresenceInv, P!RowsBacked
<1>4. CASE P!OpenStream \/ P!ClientNotices \/ P!BreakStream \/ P!OutageBegins \/ P!OutageEnds
  <2> USE <1>4 DEF P!OpenStream, P!ClientNotices, P!BreakStream, P!OutageBegins, P!OutageEnds
  <2>1. stream' \in 0..MaxStream /\ outages' \in 0..MaxOutage
    BY PathAssumption DEF PresenceInv, P!PresenceTypeOK
  <2>2. hbOpen' \in BOOLEAN /\ reachable' \in BOOLEAN
    BY DEF PresenceInv, P!PresenceTypeOK
  <2>3. broken' \subseteq P!Stream
    BY StreamOpen DEF PresenceInv, P!PresenceTypeOK
  <2>4. hbOpen' => stream' # 0
    <3>1. stream \in Nat /\ (stream' = stream + 1 \/ (stream' = stream /\ (hbOpen' => hbOpen)))
      BY PathAssumption DEF PresenceInv, P!PresenceTypeOK
    <3> QED BY ONLY PresenceInv, <3>1 DEF PresenceInv
  <2>5. UNCHANGED <<booted, announced, events, calls, replies, expired, listed, ping, providerRow, row, handler, activeHB>>
    OBVIOUS
  <2>6. P!PresenceTypeOK'
    BY ONLY PresenceInv, <2>1, <2>2, <2>3, <2>5 DEF PresenceInv, P!PresenceTypeOK
  <2>7. P!RowsBacked'
    BY ONLY PresenceInv, <2>5 DEF PresenceInv, P!RowsBacked
  <2> QED BY <2>4, <2>5, <2>6, <2>7 DEF PresenceInv
<1>5. CASE P!SendPing
  <2>1. /\ ping' = [ping EXCEPT ![stream] = {listed}]
        /\ UNCHANGED <<booted, announced, events, calls, replies, expired, listed, hbOpen, stream, broken,
                       reachable, outages, providerRow, row, handler, activeHB>>
    BY <1>5 DEF P!SendPing
  <2>2. listed \subseteq Serial /\ ping \in [P!Stream -> SUBSET SUBSET Serial]
    BY DEF PresenceInv, P!PresenceTypeOK
  <2>3. ping' \in [P!Stream -> SUBSET SUBSET Serial]
    BY <2>1, <2>2
  <2>4. P!PresenceTypeOK'
    BY <2>1, <2>3 DEF PresenceInv, P!PresenceTypeOK
  <2>5. \A i \in P!Stream : \A snapshot \in ping'[i] : snapshot \in ping[i] \/ snapshot = listed
    BY <2>1, <2>2
  <2>6. P!RowsBacked'
    BY <2>1, <2>5 DEF PresenceInv, P!RowsBacked
  <2> QED BY <2>1, <2>4, <2>6 DEF PresenceInv
<1>6. CASE P!CoordinatorCrashes
  <2>1. outages' = outages + 1 /\ outages < MaxOutage /\ activeHB' = 0 /\ reachable' = FALSE
    BY <1>6 DEF P!CoordinatorCrashes
  <2>2. outages' \in 0..MaxOutage /\ activeHB' \in 0..MaxStream
    <3>1. outages \in 0..MaxOutage
      BY DEF PresenceInv, P!PresenceTypeOK
    <3> QED BY <2>1, <3>1, PathAssumption
  <2>3. reachable' \in BOOLEAN
    BY <2>1
  <2>4. broken' \subseteq P!Stream
    BY <1>6, StreamOpen DEF P!CoordinatorCrashes, PresenceInv, P!PresenceTypeOK
  <2>5. /\ UNCHANGED <<booted, announced, events, calls, replies, listed, hbOpen, stream, providerRow, row>>
        /\ expired' = {}
        /\ ping' = [i \in P!Stream |-> {}]
        /\ handler' = [i \in P!Stream |-> IF i <= stream THEN "closed" ELSE handler[i]]
    BY <1>6 DEF P!CoordinatorCrashes
  <2>6. /\ ping' \in [P!Stream -> SUBSET SUBSET Serial]
        /\ handler' \in [P!Stream -> {"none", "open", "closed"}]
    BY <2>5 DEF PresenceInv, P!PresenceTypeOK
  <2>7. P!PresenceTypeOK'
    BY <2>2, <2>3, <2>4, <2>5, <2>6 DEF PresenceInv, P!PresenceTypeOK
  <2>8. P!RowsBacked'
    BY <2>5 DEF PresenceInv, P!RowsBacked
  <2> QED BY <2>5, <2>7, <2>8 DEF PresenceInv
<1> QED BY <1>1, <1>2, <1>3, <1>4, <1>5, <1>6, CallTypes, HandlerTypes DEF P!PresenceNext

\* On the whole path the coordinator's client keeps to its types, and a heartbeat
\* names no device that the coordinator has not registered, also after refused,
\* lost and overtaken calls and a crash of the coordinator.
THEOREM PathRowsBacked == PathSpec => [](P!PresenceTypeOK /\ P!RowsBacked)
  BY PathImplementsPresence, PresenceInitInv, PresenceStep, PTL DEF P!PresenceSpec, PresenceInv

-----------------------------------------------------------------------------
\* The last call about s under way, if there is one, says what was announced; if
\* there is none the list does.  Events are numbered in their order.
Pending == calls \cup replies

Final(c) == \A d \in Pending : d[3] = c[3] => d[1] <= c[1]

Follows(s) ==
  /\ (\A c \in Pending : c[3] # s) => (s \in listed <=> s \in announced)
  /\ \A c \in Pending : c[3] = s /\ Final(c) => (c[2] = "register" <=> s \in announced)

Numbered ==
  /\ events \in Nat
  /\ \A c \in Pending : c[1] \in Nat /\ c[1] <= events
  /\ \A c, d \in Pending : c[1] = d[1] => c = d
  /\ calls \cap replies = {}

FollowInv == Numbered /\ \A s \in Serial : s \notin mishap => Follows(s)

\* A device is announced: its call is the last.
LEMMA NotifyFollows ==
  ASSUME FollowInv, NEW s \in Serial, P!Plug(s) \/ P!Unplug(s), UNCHANGED mishap
  PROVE  FollowInv'
<1>1. PICK kind \in {"register", "release"} :
        P!Notify(kind, s) /\ (kind = "register" <=> s \in announced')
  BY DEF P!Plug, P!Unplug
<1> DEFINE new == <<events + 1, kind, s>>
<1>2. /\ events' = events + 1 /\ calls' = calls \cup {new} /\ listed' = listed
      /\ replies' = replies /\ Pending' = Pending \cup {new}
      /\ new[1] = events + 1 /\ new[2] = kind /\ new[3] = s
      /\ events \in Nat
  BY <1>1 DEF P!Notify, FollowInv, Numbered, Pending
<1>3. \A t \in Serial : t # s => (t \in announced' <=> t \in announced)
  BY DEF P!Plug, P!Unplug
<1> HIDE DEF new
<1>4. Numbered'
  <2>1. \A c \in Pending : c[1] \in Nat /\ c[1] <= events
    BY DEF FollowInv, Numbered
  <2>2. new \notin Pending
    BY <1>2, <2>1
  <2>3. (calls \cap replies = {})'
    BY <1>2, <2>2 DEF FollowInv, Numbered, Pending
  <2> QED BY <1>2, <2>1, <2>3 DEF FollowInv, Numbered
<1>5. ASSUME NEW t \in Serial, t \notin mishap' PROVE Follows(t)'
  <2>1. Follows(t) /\ Numbered
    BY <1>5 DEF FollowInv
  <2>2. CASE t = s
    <3>1. ASSUME NEW c \in Pending', c[3] = s, Final(c)' PROVE c = new
      <4>1. new[1] <= c[1]
        BY <1>2, <3>1 DEF Final
      <4>2. c \in Pending => c[1] \in Nat /\ c[1] <= events
        BY <2>1 DEF Numbered
      <4> QED BY <1>2, <4>1, <4>2
    <3>2. ~(\A c \in Pending' : c[3] # s)
      BY <1>2
    <3> QED BY <1>1, <1>2, <2>2, <3>1, <3>2 DEF Follows
  <2>3. CASE t # s
    <3>1. (\A c \in Pending' : c[3] # t) <=> (\A c \in Pending : c[3] # t)
      BY <1>2, <2>3
    <3>2. ASSUME NEW c \in Pending', c[3] = t, Final(c)' PROVE c \in Pending /\ Final(c)
      BY <1>2, <2>3, <3>2 DEF Final
    <3> QED BY <1>2, <1>3, <2>1, <2>3, <3>1, <3>2 DEF Follows
  <2> QED BY <2>2, <2>3
<1> QED BY <1>4, <1>5 DEF FollowInv

\* A call that leaves the pending ones without an answer is a mishap; one that is
\* executed, whatever calls were executed before it, stays pending.
LEMMA DroppedFollows ==
  ASSUME FollowInv, NEW c, Numbered', UNCHANGED <<announced, listed>>,
         mishap \subseteq mishap',
         \/ Pending' = Pending
         \/ Pending' = Pending \ {c} /\ c[3] \in mishap'
  PROVE  FollowInv'
<1>1. ASSUME NEW s \in Serial, s \notin mishap' PROVE Follows(s)'
  <2>1. Follows(s)
    BY <1>1 DEF FollowInv
  <2>2. \A d : d[3] = s => (d \in Pending' <=> d \in Pending)
    BY <1>1
  <2>3. ASSUME NEW d \in Pending', d[3] = s, Final(d)' PROVE d \in Pending /\ Final(d)
    BY <2>2, <2>3 DEF Final
  <2>4. (\A d \in Pending' : d[3] # s) => (\A d \in Pending : d[3] # s)
    BY <2>2
  <2> QED BY <2>1, <2>3, <2>4 DEF Follows
<1> QED BY <1>1 DEF FollowInv

\* An answer is taken.  If nothing went wrong its call was the first about its
\* device, so that either a later one is the last or its own effect is what was
\* announced.
LEMMA AnswerFollows ==
  ASSUME FollowInv, NEW c, CallAnswered(c)
  PROVE  FollowInv'
<1>1. /\ c \in replies /\ replies' = replies \ {c}
      /\ listed' = IF c[2] = "register" THEN listed \cup {c[3]} ELSE listed \ {c[3]}
      /\ UNCHANGED <<announced, events, calls>>
  BY DEF CallAnswered, P!CallReturns
<1>2. Pending' = Pending \ {c} /\ c \in Pending
  BY <1>1 DEF FollowInv, Numbered, Pending
<1>3. Numbered'
  BY <1>1, <1>2 DEF FollowInv, Numbered
<1>4. mishap \subseteq mishap'
  BY DEF CallAnswered
<1>5. ASSUME NEW s \in Serial, s \notin mishap' PROVE Follows(s)'
  <2>1. Follows(s) /\ Numbered
    BY <1>4, <1>5 DEF FollowInv
  <2>2. CASE c[3] # s
    <3>1. s \in listed' <=> s \in listed
      BY <1>1, <2>2
    <3>2. (\A d \in Pending' : d[3] # s) <=> (\A d \in Pending : d[3] # s)
      BY <1>2, <2>2
    <3>3. ASSUME NEW d \in Pending', d[3] = s, Final(d)' PROVE d \in Pending /\ Final(d)
      BY <1>2, <2>2, <3>3 DEF Final
    <3> QED BY <1>1, <1>2, <2>1, <3>1, <3>2, <3>3 DEF Follows
  <2>3. CASE c[3] = s
    <3>1. \A d \in Pending : d[3] = s => ~(d[1] < c[1])
      BY <1>5, <2>3 DEF CallAnswered, Pending
    <3>2. \A d \in Pending : d[3] = s => d[1] \in Nat /\ c[1] \in Nat /\ c[1] <= d[1]
      BY <1>2, <2>1, <3>1 DEF Numbered
    <3>3. s \in listed' <=> c[2] = "register"
      BY <1>1, <2>3
    <3>4. ASSUME NEW d \in Pending', d[3] = s, Final(d)' PROVE d \in Pending /\ Final(d)
      BY <1>2, <2>3, <3>2, <3>4 DEF Final
    <3>5. ASSUME \A d \in Pending' : d[3] # s PROVE Final(c)
      <4>1. \A d \in Pending : d[3] = s => d = c
        BY <1>2, <3>5
      <4> QED BY <2>3, <3>2, <4>1 DEF Final
    <3>6. (\A d \in Pending' : d[3] # s) => (s \in listed' <=> s \in announced')
      BY <1>1, <1>2, <2>1, <2>3, <3>3, <3>5 DEF Follows
    <3> QED BY <1>1, <2>1, <3>4, <3>6 DEF Follows
  <2> QED BY <2>2, <2>3
<1> QED BY <1>3, <1>5 DEF FollowInv

LEMMA MoveFollows ==
  ASSUME FollowInv, NEW c \in calls \cup replies \cup expired, CallMoves(c)
  PROVE  FollowInv'
<1>1. CASE CallTaken(c)
  <2>1. /\ UNCHANGED <<announced, events, listed>> /\ mishap \subseteq mishap'
        /\ calls' = calls \ {c}
        /\ replies' = replies \/ (replies' = replies \cup {c} /\ c \in calls)
    BY <1>1 DEF CallTaken, P!CallRegister, P!CallRelease, P!Execute
  <2>2. c \in calls /\ c \notin replies' => c[3] \in mishap'
    BY <1>1 DEF CallTaken, P!CallRegister, P!CallRelease, P!Execute
  <2>3. Pending' = Pending \/ (Pending' = Pending \ {c} /\ c[3] \in mishap')
    BY <2>1, <2>2 DEF Pending, FollowInv, Numbered
  <2>4. Pending' \subseteq Pending /\ calls' \cap replies' = {}
    BY <2>1 DEF Pending, FollowInv, Numbered
  <2>5. Numbered'
    BY <2>1, <2>4 DEF FollowInv, Numbered
  <2> QED BY <2>1, <2>3, <2>5, DroppedFollows
<1>2. CASE CallGivenUp(c)
  <2>1. /\ UNCHANGED <<announced, events, listed>> /\ mishap' = mishap \cup {c[3]}
        /\ calls' = calls \ {c} /\ replies' = replies \ {c}
    BY <1>2 DEF CallGivenUp, P!CallExpires
  <2>2. Pending' = Pending \ {c} /\ calls' \cap replies' = {}
    BY <2>1 DEF Pending, FollowInv, Numbered
  <2>3. Numbered'
    BY <2>1, <2>2 DEF FollowInv, Numbered
  <2> QED BY <2>1, <2>2, <2>3, DroppedFollows
<1> QED BY <1>1, <1>2, AnswerFollows DEF CallMoves

LEMMA FollowStep == Ahead /\ FollowInv /\ [PathNext]_pathVars => FollowInv'
<1> SUFFICES ASSUME Ahead, FollowInv, [PathNext]_pathVars PROVE FollowInv'
  OBVIOUS
<1>1. ASSUME UNCHANGED <<announced, calls, replies, listed, events, mishap>>
      PROVE  FollowInv'
  BY <1>1 DEF FollowInv, Numbered, Follows, Final, Pending
<1>2. CASE UNCHANGED pathVars
  BY <1>1, <1>2 DEF pathVars, callVars
<1>3. CASE EventBegins
  BY <1>1, <1>3 DEF EventBegins, callVars
<1>4. CASE EventEnds
  BY <1>4, EndAnnounces, NotifyFollows
<1>5. CASE TrackerStep
  BY <1>1, <1>5, TrackerQuiet DEF callVars
<1>6. CASE \E c \in calls \cup replies \cup expired : CallMoves(c)
  BY <1>6, MoveFollows
<1>7. CASE LinkStep
  BY <1>1, <1>7, LinkQuiet
<1> QED BY <1>2, <1>3, <1>4, <1>5, <1>6, <1>7 DEF PathNext

\* Once the handler and the calls about a device are over the heartbeat's list names
\* it exactly if the registry has it, for any number of devices, events, calls under
\* way and orders in which the coordinator executes them; only a call that timed out,
\* was refused or was answered before an earlier one can make the two differ.
THEOREM PathListFollows == PathSpec => []ListFollowsRegistry
<1>1. PathInit => FollowInv
  BY DEF PathInit, TrackInit, P!PresenceInit, FollowInv, Numbered, Follows, Pending
<1>2. FollowInv /\ Ahead => ListFollowsRegistry
  BY DEF FollowInv, Follows, Pending, Ahead, ListFollowsRegistry, Settled
<1> QED BY <1>1, <1>2, FollowStep, PathAhead, PTL DEF PathSpec

\* End to end: a device that the heartbeats keep alive at the coordinator, with no
\* event, handler or call about it under way and no mishap, is one its tracker
\* knows, or an Android device whose Disconnected event was lost.
THEOREM PathListNoGhosts ==
  PathSpec => [](\A s \in listed \ mishap :
                   ~InFlight(s) /\ Settled(s) => Known(s) \/ s \in lost)
<1>1. ListFollowsRegistry /\ NoGhost /\ P!PresenceTypeOK =>
        \A s \in listed \ mishap :
          ~InFlight(s) /\ Settled(s) => Known(s) \/ s \in lost
  BY DEF ListFollowsRegistry, NoGhost, Known, P!PresenceTypeOK
<1> QED BY <1>1, PathListFollows, PathNoGhosts, PathRowsBacked, PTL
=============================================================================
