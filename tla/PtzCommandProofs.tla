-------------------------- MODULE PtzCommandProofs --------------------------
(***************************************************************************)
(* What PtzCommand's run shows for a few values and four calls, for every  *)
(* address, speed, number and length of the sequence of calls.             *)
(***************************************************************************)
EXTENDS PtzCommand, TLAPS

----------------------------------------------------------------------------
(* Bytes and words, their nibbles and their remainders *)

LEMMA WordMaxFacts == WordMax \in Nat /\ WordMax >= 255
  BY DEF WordMax

LEMMA WordFacts ==
    ASSUME NEW x
    PROVE  x \in Word <=> x \in Nat /\ x <= WordMax
  BY WordMaxFacts DEF Word

LEMMA ByteFacts ==
    ASSUME NEW x
    PROVE  x \in Byte <=> x \in Nat /\ x <= 255
  BY DEF Byte

LEMMA ByteIsWord ==
    ASSUME NEW x \in Byte
    PROVE  x \in Word
  BY ByteFacts, WordFacts, WordMaxFacts

LEMMA ZeroIsWord == 0 \in Word
  BY WordFacts, WordMaxFacts

LEMMA By16 ==
    ASSUME NEW x \in Nat
    PROVE  /\ x \div 16 \in Nat
           /\ x % 16 \in 0..15
           /\ x = 16 * (x \div 16) + (x % 16)
  OBVIOUS

LEMMA By256 ==
    ASSUME NEW x \in Nat
    PROVE  /\ x \div 256 \in Nat
           /\ x % 256 \in Nat /\ x % 256 <= 255
           /\ x = 256 * (x \div 256) + (x % 256)
  OBVIOUS

\* What two nibbles make.
LEMMA TwoNibbles ==
    ASSUME NEW h \in 0..15, NEW l \in 0..15
    PROVE  /\ h * 16 + l \in Byte
           /\ (h * 16 + l) % 16 = l
           /\ (h * 16 + l) \div 16 = h
<1>1. h * 16 + l \in Nat /\ h * 16 + l <= 255
  OBVIOUS
<1>2. (h * 16 + l) % 16 = l /\ (h * 16 + l) \div 16 = h
  OBVIOUS
<1>3. QED
  BY <1>1, <1>2, ByteFacts

\* The sum of the address nibble and the rest of byte 7.
LEMMA NibbleFacts ==
    ASSUME NEW x \in Word
    PROVE  /\ High(x) \in Nat
           /\ Low(x) \in 0..15
           /\ x = 16 * High(x) + Low(x)
           /\ x \in Byte => High(x) \in 0..15
<1>1. x \in Nat
  BY WordFacts
<1>2. /\ High(x) \in Nat
      /\ Low(x) \in 0..15
      /\ x = 16 * High(x) + Low(x)
  BY <1>1, By16 DEF High, Low
<1>3. ASSUME x \in Byte PROVE High(x) \in 0..15
  <2>1. x <= 255
    BY <1>3, ByteFacts
  <2>2. QED
    BY <1>2, <2>1
<1>4. QED
  BY <1>2, <1>3

LEMMA WithHighFacts ==
    ASSUME NEW c \in Byte, NEW n \in Word
    PROVE  /\ WithHigh(c, n) \in Byte
           /\ Low(WithHigh(c, n)) = Low(c)
           /\ High(WithHigh(c, n)) = Low(n)
<1>1. Low(c) \in 0..15 /\ Low(n) \in 0..15
  BY NibbleFacts, ByteIsWord
<1>2. QED
  BY <1>1, TwoNibbles DEF High, Low, WithHigh

\* The address is cut to twelve bits.
LEMMA AddressFacts ==
    ASSUME NEW a \in Word
    PROVE  /\ Low(a \div 256) \in 0..15
           /\ a % 256 \in Byte
           /\ a \div 256 \in Word
           /\ Low(a \div 256) * 256 + (a % 256) = a % 4096
<1> DEFINE q == a \div 256
           r == a % 256
<1>1. a \in Nat /\ a <= WordMax
  BY WordFacts
<1>2. q \in Nat /\ r \in Nat /\ r <= 255 /\ a = 256 * q + r
  BY <1>1, By256
<1> HIDE DEF q, r
<1> DEFINE p == q \div 16
           s == q % 16
<1>3. p \in Nat /\ s \in 0..15 /\ q = 16 * p + s
  BY <1>2, By16
<1>4. Low(a \div 256) = s
  BY DEF Low, q
<1> HIDE DEF p, s
<1>5. /\ a = 4096 * p + (s * 256 + r)
      /\ s * 256 + r \in Nat /\ s * 256 + r <= 4095
  BY <1>2, <1>3
<1>6. a % 4096 = s * 256 + r
  BY <1>3, <1>5
<1>7. q <= WordMax
  BY <1>1, <1>2, WordMaxFacts
<1>8. r \in Byte /\ q \in Word
  BY <1>2, <1>7, ByteFacts, WordFacts
<1>9. QED
  BY <1>3, <1>4, <1>6, <1>8 DEF q, r

\* A frame keeps its first byte and the address it was made with; the device,
\* once it has a frame, has this one.
FrameInv ==
    /\ frame[1] = 165
    /\ DeviceAddress(frame) = address % 4096
    /\ Arguments(last, frame)
    /\ peer \in {Nothing, frame}
IInv == TypeOK /\ FrameInv

LEMMA InitIInv == Init => IInv
<1> SUFFICES ASSUME Init PROVE IInv
  OBVIOUS
<1>a. address \in Addresses
  BY DEF Init
<1>1. address \in Word
  BY <1>a, PtzAssumption DEF PtzAssumption
<1>2. /\ Low(address \div 256) \in 0..15
      /\ address % 256 \in Byte
      /\ Low(address \div 256) * 256 + (address % 256) = address % 4096
  BY <1>1, AddressFacts
<1>3. frame \in Frames
  BY <1>2 DEF Init, Frames, Byte
<1>4. TypeOK
  <2>1. None \in Calls
    <3>1. 0 \in Byte
      BY DEF Byte
    <3>2. QED
      BY <3>1, ZeroIsWord DEF None, Calls
  <2>2. calls = 0 /\ last = None /\ peer = Nothing
    BY DEF Init
  <2>3. calls \in 0..MaxCalls
    BY <2>2, PtzAssumption DEF PtzAssumption
  <2>4. QED
    BY <1>a, <1>3, <2>1, <2>2, <2>3 DEF TypeOK
<1>5. Low(frame[7]) = Low(address \div 256) /\ frame[3] = address % 256 /\ frame[1] = 165
  BY <1>2 DEF Init, Low
<1>6. Arguments(last, frame)
  BY DEF Init, None, Arguments
<1>7. DeviceAddress(frame) = address % 4096
  <2>1. DeviceAddress(frame) = Low(address \div 256) * 256 + (address % 256)
    BY <1>5 DEF DeviceAddress
  <2>2. QED
    BY <2>1, <1>2
<1>8. peer = Nothing
  BY DEF Init
<1>9. QED
  BY <1>4, <1>5, <1>6, <1>7, <1>8 DEF IInv, FrameInv

\* What a builder call must see to.
LEMMA CallKeeps ==
    ASSUME NEW call \in {"Move", "FI", "Preset", "Cruise", "Scan", "ScanSpeed", "Aux"},
           NEW type \in Byte, NEW first \in Byte, NEW second \in Word,
           NEW bytes \in Frames,
           IInv, Called(call, type, first, second, bytes),
           bytes[1] = 165,
           DeviceAddress(bytes) = DeviceAddress(frame),
           Arguments([call |-> call, type |-> type, first |-> first, second |-> second], bytes)
    PROVE  IInv'
<1> DEFINE l == [call |-> call, type |-> type, first |-> first, second |-> second]
<1>1. /\ frame' = bytes /\ last' = l /\ address' = address /\ peer' = peer /\ peer = Nothing
      /\ calls' = calls + 1 /\ calls < MaxCalls
  BY DEF Called
<1>2. l \in Calls
  BY DEF Calls
<1>3. calls' \in 0..MaxCalls
  <2>1. MaxCalls \in Nat /\ calls \in 0..MaxCalls
    BY PtzAssumption DEF IInv, TypeOK, PtzAssumption
  <2>2. QED
    BY <1>1, <2>1
<1>4. TypeOK'
  <2>1. address \in Addresses /\ peer \in Frames \cup {Nothing, Refused}
    BY DEF IInv, TypeOK
  <2> HIDE DEF l
  <2>2. QED
    BY <1>1, <1>2, <1>3, <2>1 DEF TypeOK
<1>5. DeviceAddress(frame') = address' % 4096
  BY <1>1 DEF IInv, FrameInv
<1>6. Arguments(last', frame')
  BY <1>1
<1>7. QED
  BY <1>1, <1>4, <1>5, <1>6 DEF IInv, FrameInv

----------------------------------------------------------------------------
(* One lemma for each builder call *)

LEMMA OrFacts ==
    ASSUME NEW c \in Byte, NEW b \in Byte
    PROVE  Or(c, b) \in Nat /\ (Or(c, b) = c \/ Or(c, b) = c + b)
<1>1. c \in Nat /\ b \in Nat
  BY ByteFacts
<1>2. QED
  BY <1>1 DEF Or

LEMMA FrameBytes ==
    ASSUME NEW f \in Frames
    PROVE  \A i \in 1..8 : f[i] \in Byte
  BY DEF Frames

\* Only these bytes matter.
LEMMA Fits ==
    ASSUME NEW f \in Frames, NEW g \in Frames,
           g[1] = f[1], g[3] = f[3], Low(g[7]) = Low(f[7])
    PROVE  g[1] = f[1] /\ DeviceAddress(g) = DeviceAddress(f)
  BY DEF DeviceAddress

LEMMA FrameFacts ==
    ASSUME IInv
    PROVE  /\ frame \in Frames /\ frame[1] = 165
           /\ frame[4] \in Byte /\ frame[7] \in Byte
<1>1. frame \in Frames /\ frame[1] = 165
  BY DEF IInv, TypeOK, FrameInv
<1>2. QED
  BY <1>1, FrameBytes

LEMMA MoveKeeps ==
    ASSUME IInv, NEW type \in Moves, NEW speed \in Speeds, Move(type, speed)
    PROVE  IInv'
<1> DEFINE cmd == Or(frame[4], type)
<1>a. speed \in Byte
  BY PtzAssumption DEF PtzAssumption
<1>b. type \in Byte
  BY DEF Moves, Stop, Right, Left, Down, Up, ZoomIn, ZoomOut, Byte
<1>c. 0 \in Word
  BY ZeroIsWord
<1>1. /\ frame \in Frames /\ frame[1] = 165 /\ speed \in Byte /\ type \in Byte /\ 0 \in Word
      /\ frame[4] \in Byte /\ frame[7] \in Byte /\ speed \in Word
  BY <1>a, <1>b, <1>c, FrameFacts, ByteIsWord
<1>2. cmd \in Byte /\ cmd <= 42
  <2>1. cmd <= 42
    BY DEF Move
  <2>2. cmd \in Nat
    BY <1>1, OrFacts
  <2>3. QED
    BY <2>1, <2>2 DEF Byte
<1> HIDE DEF cmd
<1> DEFINE l == [call |-> "Move", type |-> type, first |-> speed, second |-> 0]
<1>l. l.call = "Move" /\ l.type = type /\ l.first = speed
  OBVIOUS
<1> HIDE DEF l
<1>3. ASSUME type \in {Left, Right},
             Called("Move", type, speed, 0, [frame EXCEPT ![4] = cmd, ![5] = speed])
      PROVE  IInv'
  <2> DEFINE g == [frame EXCEPT ![4] = cmd, ![5] = speed]
  <2>1. g \in Frames /\ g[1] = frame[1] /\ g[3] = frame[3] /\ g[7] = frame[7] /\ g[5] = speed
    BY <1>1, <1>2 DEF Frames
  <2>2. Called("Move", type, speed, 0, g)
    BY <1>3
  <2> HIDE DEF g
  <2>3. type \notin {Up, Down} /\ type \notin {ZoomIn, ZoomOut, Stop}
    BY <1>3 DEF Left, Right, Up, Down, ZoomIn, ZoomOut, Stop
  <2>4. Arguments(l, g)
    BY <1>l, <2>1, <2>3 DEF Arguments, Param1
  <2>5. QED
    BY <1>1, <2>1, <2>2, <2>4, Fits, CallKeeps DEF l
<1>4. ASSUME type \in {Up, Down},
             Called("Move", type, speed, 0, [frame EXCEPT ![4] = cmd, ![6] = speed])
      PROVE  IInv'
  <2> DEFINE g == [frame EXCEPT ![4] = cmd, ![6] = speed]
  <2>1. /\ g \in Frames /\ g[1] = frame[1] /\ g[3] = frame[3] /\ g[7] = frame[7] /\ g[6] = speed
        /\ g[4] = cmd
    BY <1>1, <1>2 DEF Frames
  <2>2. Called("Move", type, speed, 0, g)
    BY <1>4
  <2> HIDE DEF g
  <2>3. type \notin {Left, Right} /\ type \notin {ZoomIn, ZoomOut, Stop}
    BY <1>4 DEF Left, Right, Up, Down, ZoomIn, ZoomOut, Stop
  <2>4. Param2(g) = speed
    BY <1>2, <2>1 DEF Param2, IsWide, CruiseSpeed, StayTime, ScanSetSpeed, Byte
  <2>5. Arguments(l, g)
    BY <1>l, <2>3, <2>4 DEF Arguments
  <2>6. QED
    BY <1>1, <2>1, <2>2, <2>5, Fits, CallKeeps DEF l
<1>5. ASSUME type \in {ZoomIn, ZoomOut, Stop},
             Called("Move", type, speed, 0, [frame EXCEPT ![4] = cmd, ![7] = WithHigh(@, speed)])
      PROVE  IInv'
  <2> DEFINE g == [frame EXCEPT ![4] = cmd, ![7] = WithHigh(@, speed)]
  <2>1. WithHigh(frame[7], speed) \in Byte
    BY <1>1, WithHighFacts
  <2>2. /\ g \in Frames /\ g[1] = frame[1] /\ g[3] = frame[3] /\ g[4] = cmd
        /\ g[7] = WithHigh(frame[7], speed)
    BY <1>1, <1>2, <2>1 DEF Frames
  <2>3. Called("Move", type, speed, 0, g)
    BY <1>5
  <2> HIDE DEF g
  <2>4. Low(g[7]) = Low(frame[7]) /\ High(g[7]) = Low(speed)
    BY <1>1, <2>2, WithHighFacts
  <2>5. Param3(g) = speed % 16
    BY <1>2, <2>2, <2>4 DEF Param3, CommandType, Low, Byte
  <2>6. type \notin {Left, Right} /\ type \notin {Up, Down}
    BY <1>5 DEF Left, Right, Up, Down, ZoomIn, ZoomOut, Stop
  <2>7. Arguments(l, g)
    BY <1>l, <2>5, <2>6 DEF Arguments
  <2>8. QED
    BY <1>1, <2>2, <2>3, <2>4, <2>7, Fits, CallKeeps DEF l
<1>6. QED
  BY <1>3, <1>4, <1>5 DEF Move, cmd

LEMMA FIKeeps ==
    ASSUME IInv, NEW type \in LensMoves, NEW speed \in Speeds, FI(type, speed)
    PROVE  IInv'
<1> DEFINE cmd == Or(Or(frame[4], Lens), type)
<1>a. speed \in Byte
  BY PtzAssumption DEF PtzAssumption
<1>b. type \in 0..8 /\ type \in Byte
  BY DEF LensMoves, FocusIn, FocusOut, IrisIn, IrisOut, Close, Byte
<1>c. 0 \in Word
  BY ZeroIsWord
<1>1. /\ frame \in Frames /\ frame[1] = 165 /\ speed \in Byte /\ type \in Byte /\ 0 \in Word
      /\ frame[4] \in Byte /\ frame[7] \in Byte /\ speed \in Word
  BY <1>a, <1>b, <1>c, FrameFacts, ByteIsWord
<1>2. cmd \in Byte /\ cmd < 134
  <2>1. frame[4] = 0 \/ frame[4] \in 64..74
    BY DEF FI, Lens
  <2>2. Or(frame[4], Lens) \in 64..74
    BY <2>1 DEF Or, Lens, HasBit
  <2>3. Or(frame[4], Lens) \in Byte
    BY <2>2 DEF Byte
  <2>4. cmd \in Nat /\ (cmd = Or(frame[4], Lens) \/ cmd = Or(frame[4], Lens) + type)
    BY <1>1, <2>3, OrFacts
  <2> HIDE DEF cmd
  <2>5. QED
    BY <1>b, <2>2, <2>4 DEF Byte
<1> HIDE DEF cmd
<1> DEFINE l == [call |-> "FI", type |-> type, first |-> speed, second |-> 0]
<1>l. l.call = "FI" /\ l.type = type /\ l.first = speed
  OBVIOUS
<1> HIDE DEF l
<1>3. ASSUME type \in {FocusIn, FocusOut},
             Called("FI", type, speed, 0, [frame EXCEPT ![4] = cmd, ![5] = speed])
      PROVE  IInv'
  <2> DEFINE g == [frame EXCEPT ![4] = cmd, ![5] = speed]
  <2>1. /\ g \in Frames /\ g[1] = frame[1] /\ g[3] = frame[3] /\ g[7] = frame[7]
        /\ g[4] = cmd /\ g[5] = speed
    BY <1>1, <1>2 DEF Frames
  <2>2. Called("FI", type, speed, 0, g)
    BY <1>3
  <2> HIDE DEF g
  <2>3. type \notin {IrisIn, IrisOut}
    BY <1>3 DEF FocusIn, FocusOut, IrisIn, IrisOut, Close
  <2>4. Arguments(l, g)
    BY <1>l, <2>1, <2>3 DEF Arguments, Param1
  <2>5. QED
    BY <1>1, <2>1, <2>2, <2>4, Fits, CallKeeps DEF l
<1>4. ASSUME type \in {IrisIn, IrisOut},
             Called("FI", type, speed, 0, [frame EXCEPT ![4] = cmd, ![6] = speed])
      PROVE  IInv'
  <2> DEFINE g == [frame EXCEPT ![4] = cmd, ![6] = speed]
  <2>1. /\ g \in Frames /\ g[1] = frame[1] /\ g[3] = frame[3] /\ g[7] = frame[7]
        /\ g[4] = cmd /\ g[6] = speed
    BY <1>1, <1>2 DEF Frames
  <2>2. Called("FI", type, speed, 0, g)
    BY <1>4
  <2> HIDE DEF g
  <2>3. type \notin {FocusIn, FocusOut}
    BY <1>4 DEF FocusIn, FocusOut, IrisIn, IrisOut, Close
  <2>4. Arguments(l, g)
    <3>1. Param2(g) = speed
      BY <1>2, <2>1 DEF Param2, IsWide, CruiseSpeed, StayTime, ScanSetSpeed, Byte
    <3>2. QED
      BY <1>l, <2>3, <3>1 DEF Arguments
  <2>5. QED
    BY <1>1, <2>1, <2>2, <2>4, Fits, CallKeeps DEF l
<1>5. ASSUME type \in {Close},
             Called("FI", type, speed, 0, [frame EXCEPT ![4] = cmd])
      PROVE  IInv'
  <2> DEFINE g == [frame EXCEPT ![4] = cmd]
  <2>1. /\ g \in Frames /\ g[1] = frame[1] /\ g[3] = frame[3] /\ g[7] = frame[7]
        /\ g[4] = cmd
    BY <1>1, <1>2 DEF Frames
  <2>2. Called("FI", type, speed, 0, g)
    BY <1>5
  <2> HIDE DEF g
  <2>3. type \notin {FocusIn, FocusOut} /\ type \notin {IrisIn, IrisOut}
    BY <1>5 DEF FocusIn, FocusOut, IrisIn, IrisOut, Close
  <2>4. Arguments(l, g)
    BY <1>l, <2>3 DEF Arguments
  <2>5. QED
    BY <1>1, <2>1, <2>2, <2>4, Fits, CallKeeps DEF l
<1>6. QED
  BY <1>3, <1>4, <1>5 DEF FI, cmd

LEMMA PresetKeeps ==
    ASSUME IInv, NEW type \in PresetCalls, NEW id \in Ids, Preset(type, id)
    PROVE  IInv'
<1>a. id \in Byte
  BY PtzAssumption DEF PtzAssumption
<1>b. type \in Byte /\ ~IsWide(type)
  BY DEF PresetCalls, Byte, IsWide, CruiseSpeed, StayTime, ScanSetSpeed
<1>c. 0 \in Byte
  BY DEF Byte
<1>1. frame \in Frames /\ frame[1] = 165 /\ id \in Word
  BY <1>a, FrameFacts, ByteIsWord
<1> DEFINE g == [frame EXCEPT ![4] = type, ![6] = id]
           l == [call |-> "Preset", type |-> type, first |-> 0, second |-> id]
<1>2. /\ g \in Frames /\ g[1] = frame[1] /\ g[3] = frame[3] /\ g[7] = frame[7]
      /\ g[4] = type /\ g[6] = id
  BY <1>1, <1>a, <1>b DEF Frames
<1>3. Called("Preset", type, 0, id, g)
  BY DEF Preset
<1>l. l.call = "Preset" /\ l.second = id
  OBVIOUS
<1> HIDE DEF g, l
<1>4. Param2(g) = id
  BY <1>2, <1>b DEF Param2
<1>5. Arguments(l, g)
  BY <1>l, <1>4 DEF Arguments
<1>6. QED
  BY <1>1, <1>b, <1>c, <1>2, <1>3, <1>5, Fits, CallKeeps DEF l

LEMMA AuxKeeps ==
    ASSUME IInv, NEW type \in AuxCalls, NEW id \in Ids, Aux(type, id)
    PROVE  IInv'
<1>a. id \in Byte
  BY PtzAssumption DEF PtzAssumption
<1>b. type \in Byte
  BY DEF AuxCalls, Byte
<1>c. 0 \in Word
  BY ZeroIsWord
<1>1. frame \in Frames /\ frame[1] = 165
  BY FrameFacts
<1> DEFINE g == [frame EXCEPT ![4] = type, ![5] = id]
           l == [call |-> "Aux", type |-> type, first |-> id, second |-> 0]
<1>2. /\ g \in Frames /\ g[1] = frame[1] /\ g[3] = frame[3] /\ g[7] = frame[7] /\ g[5] = id
  BY <1>1, <1>a, <1>b DEF Frames
<1>3. Called("Aux", type, id, 0, g)
  BY DEF Aux
<1>l. l.call = "Aux" /\ l.first = id
  OBVIOUS
<1> HIDE DEF g, l
<1>4. Arguments(l, g)
  BY <1>l, <1>2 DEF Arguments, Param1
<1>5. QED
  BY <1>1, <1>a, <1>b, <1>c, <1>2, <1>3, <1>4, Fits, CallKeeps DEF l

\* The calls with a number of one or two bytes.
NumberBytes(type, id, number) ==
    [frame EXCEPT ![4] = type, ![5] = id, ![6] = number % 256,
                  ![7] = IF IsWide(type) THEN WithHigh(@, number \div 256) ELSE @]

LEMMA NumberKeeps ==
    ASSUME IInv, NEW call \in {"Cruise", "Scan", "ScanSpeed"},
           NEW type \in Byte, NEW id \in Byte, NEW number \in Word,
           Called(call, type, id, number, NumberBytes(type, id, number))
    PROVE  IInv'
<1> DEFINE b == IF IsWide(type) THEN WithHigh(frame[7], number \div 256) ELSE frame[7]
           g == [frame EXCEPT ![4] = type, ![5] = id, ![6] = number % 256, ![7] = b]
           l == [call |-> call, type |-> type, first |-> id, second |-> number]
<1>1. frame \in Frames /\ frame[1] = 165 /\ frame[7] \in Byte
  BY FrameFacts
<1>2. number \div 256 \in Word /\ number % 256 \in Byte
  BY AddressFacts
<1>3. /\ WithHigh(frame[7], number \div 256) \in Byte
      /\ Low(WithHigh(frame[7], number \div 256)) = Low(frame[7])
      /\ High(WithHigh(frame[7], number \div 256)) = Low(number \div 256)
  BY <1>1, <1>2, WithHighFacts
<1>4. /\ b \in Byte /\ Low(b) = Low(frame[7])
      /\ IsWide(type) => High(b) = Low(number \div 256)
  BY <1>1, <1>3
<1>5. Called(call, type, id, number, g)
  BY DEF NumberBytes
<1>l. l.call = call /\ l.type = type /\ l.first = id /\ l.second = number
  OBVIOUS
<1> HIDE DEF b
<1>6. /\ g \in Frames /\ g[1] = frame[1] /\ g[3] = frame[3] /\ g[7] = b
      /\ g[4] = type /\ g[5] = id /\ g[6] = number % 256
  BY <1>1, <1>2, <1>4 DEF Frames
<1> HIDE DEF g, l
<1>7. Param2(g) = IF IsWide(type) THEN number % 4096 ELSE number % 256
  <2>1. Low(number \div 256) * 256 + (number % 256) = number % 4096
    BY AddressFacts
  <2>2. CASE IsWide(type)
    <3>1. Param2(g) = High(b) * 256 + (number % 256)
      BY <1>6, <2>2 DEF Param2
    <3>2. QED
      BY <3>1, <2>1, <2>2, <1>4
  <2>3. CASE ~IsWide(type)
    BY <1>6, <2>3 DEF Param2
  <2>4. QED
    BY <2>2, <2>3
<1>8. Arguments(l, g)
  <2>1. /\ l.call # "Move" /\ l.call # "FI" /\ l.call # "Preset" /\ l.call # "Aux"
        /\ Param1(g) = l.first
    BY <1>l, <1>6 DEF Param1
  <2>2. Param2(g) = IF IsWide(l.type) THEN l.second % 4096 ELSE l.second % 256
    BY <1>l, <1>7
  <2>3. QED
    BY <2>1, <2>2 DEF Arguments
<1>9. QED
  BY <1>1, <1>4, <1>5, <1>6, <1>8, Fits, CallKeeps DEF l

LEMMA CruiseKeeps ==
    ASSUME IInv, NEW type \in CruiseCalls, NEW id \in Ids, NEW number \in Numbers,
           Cruise(type, id, number)
    PROVE  IInv'
<1>1. id \in Byte /\ number \in Word
  BY PtzAssumption DEF PtzAssumption
<1>2. type \in Byte
  BY DEF CruiseCalls, AddPoint, DelPoint, CruiseSpeed, StayTime, StartCruise, Byte
<1>3. Called("Cruise", type, id, number, NumberBytes(type, id, number))
  BY DEF Cruise, NumberBytes
<1>4. QED
  BY <1>1, <1>2, <1>3, NumberKeeps

LEMMA ScanKeeps ==
    ASSUME IInv, NEW id \in Ids, NEW sub \in 0..2, Scan(id, sub)
    PROVE  IInv'
<1>1. id \in Byte
  BY PtzAssumption DEF PtzAssumption
<1>2. ScanStart \in Byte /\ ~IsWide(ScanStart)
  BY DEF ScanStart, Byte, IsWide, CruiseSpeed, StayTime, ScanSetSpeed
<1>3. sub \in Byte /\ sub \in Word /\ sub % 256 = sub
  <2>1. sub \in Byte
    BY DEF Byte
  <2>2. sub % 256 = sub
    OBVIOUS
  <2>3. QED
    BY <2>1, <2>2, ByteIsWord
<1>4. frame \in Frames
  BY FrameFacts
<1>5. [frame EXCEPT ![4] = ScanStart, ![5] = id, ![6] = sub] = NumberBytes(ScanStart, id, sub)
  <2>1. NumberBytes(ScanStart, id, sub)
          = [frame EXCEPT ![4] = ScanStart, ![5] = id, ![6] = sub, ![7] = frame[7]]
    BY <1>2, <1>3 DEF NumberBytes
  <2> DEFINE g == [frame EXCEPT ![4] = ScanStart, ![5] = id, ![6] = sub, ![7] = frame[7]]
             h == [frame EXCEPT ![4] = ScanStart, ![5] = id, ![6] = sub]
  <2>a. ScanStart \in Byte /\ id \in Byte /\ sub \in Byte
    BY <1>1, <1>2, <1>3
  <2>b. frame[7] \in Byte
    BY FrameFacts
  <2>c. g \in Frames /\ h \in Frames
    BY <1>4, <2>a, <2>b DEF Frames
  <2>d. \A i \in 1..8 : g[i] = h[i]
    BY <1>4 DEF Frames
  <2> HIDE DEF g, h
  <2>e. g = [i \in 1..8 |-> g[i]] /\ h = [i \in 1..8 |-> h[i]]
    BY <2>c DEF Frames
  <2>2. g = h
    BY <2>d, <2>e
  <2>3. QED
    BY <2>1, <2>2 DEF g, h
<1>6. Called("Scan", ScanStart, id, sub, NumberBytes(ScanStart, id, sub))
  BY <1>5 DEF Scan
<1>7. QED
  BY <1>1, <1>2, <1>3, <1>6, NumberKeeps

LEMMA ScanSpeedKeeps ==
    ASSUME IInv, NEW id \in Ids, NEW number \in Numbers, ScanSpeed(id, number)
    PROVE  IInv'
<1>1. id \in Byte /\ number \in Word
  BY PtzAssumption DEF PtzAssumption
<1>2. ScanSetSpeed \in Byte /\ IsWide(ScanSetSpeed)
  BY DEF ScanSetSpeed, Byte, IsWide
<1>3. Called("ScanSpeed", ScanSetSpeed, id, number, NumberBytes(ScanSetSpeed, id, number))
  BY <1>2 DEF ScanSpeed, NumberBytes
<1>4. QED
  BY <1>1, <1>2, <1>3, NumberKeeps

----------------------------------------------------------------------------
(* To the device *)

\* Only the check nibble and the checksum are written.
LEMMA CompleteFacts ==
    ASSUME NEW f \in Frames
    PROVE  /\ Complete(f) \in Frames
           /\ \A i \in {1, 3, 4, 5, 6, 7} : Complete(f)[i] = f[i]
           /\ Complete(f)[8] = Checksum(Complete(f))
<1> DEFINE n == High(f[2]) * 16 + ((High(f[1]) + Low(f[1]) + High(f[2])) % 16)
           g == [f EXCEPT ![2] = n]
           c == Checksum(g)
           h == [g EXCEPT ![8] = c]
<1>1. \A i \in 1..8 : f[i] \in Byte
  BY FrameBytes
<1>2. n \in Byte
  <2>1. High(f[2]) \in 0..15 /\ High(f[1]) \in 0..15 /\ Low(f[1]) \in 0..15
    <3>1. f[1] \in Byte /\ f[2] \in Byte
      BY <1>1
    <3>2. QED
      BY <3>1, NibbleFacts, ByteIsWord
  <2>2. QED
    BY <2>1 DEF Byte
<1> HIDE DEF n
<1>3. g \in Frames /\ \A i \in {1, 3, 4, 5, 6, 7} : g[i] = f[i]
  BY <1>2 DEF Frames
<1> HIDE DEF g
<1>4. c \in Byte
  <2>1. \A i \in 1..8 : g[i] \in Byte
    BY <1>3, FrameBytes
  <2>2. /\ g[1] \in Nat /\ g[2] \in Nat /\ g[3] \in Nat /\ g[4] \in Nat
        /\ g[5] \in Nat /\ g[6] \in Nat /\ g[7] \in Nat
    <3>1. \A i \in 1..8 : g[i] \in Nat
      BY <2>1, ByteFacts
    <3>2. QED
      BY <3>1
  <2>3. Sum(g) \in Nat
    BY <2>2 DEF Sum
  <2>4. QED
    BY <2>3, By256, ByteFacts DEF Checksum
<1> HIDE DEF c
<1>5. h \in Frames /\ h[8] = c /\ \A i \in 1..7 : h[i] = g[i]
  BY <1>3, <1>4 DEF Frames
<1>6. h = Complete(f)
  BY DEF Complete, CheckNibble, g, n, c
<1> HIDE DEF h
<1>7. Checksum(h) = c
  <2>1. Sum(h) = Sum(g)
    BY <1>5 DEF Sum
  <2>2. QED
    BY <2>1 DEF Checksum, c
<1>8. QED
  BY <1>3, <1>5, <1>6, <1>7

\* Reading the digits gives the bytes that were written.
LEMMA DigitsFacts ==
    ASSUME NEW f \in Frames
    PROVE  FromDigits(ToHex(f)) = f
<1>1. \A i \in 1..8 : FromDigits(ToHex(f))[i] = f[i]
  <2> SUFFICES ASSUME NEW i \in 1..8 PROVE FromDigits(ToHex(f))[i] = f[i]
    OBVIOUS
  <2>1. f[i] \in Byte
    BY FrameBytes
  <2>2. f[i] = 16 * High(f[i]) + Low(f[i])
    BY <2>1, NibbleFacts, ByteIsWord
  <2>3. 2 * i - 1 \in 1..16 /\ (2 * i - 1) % 2 = 1 /\ ((2 * i - 1) + 1) \div 2 = i
    OBVIOUS
  <2>4. 2 * i \in 1..16 /\ (2 * i) % 2 # 1 /\ (2 * i + 1) \div 2 = i
    OBVIOUS
  <2>5. ToHex(f)[2 * i - 1] = High(f[i]) /\ ToHex(f)[2 * i] = Low(f[i])
    BY <2>3, <2>4 DEF ToHex
  <2>6. FromDigits(ToHex(f))[i] = 16 * ToHex(f)[2 * i - 1] + ToHex(f)[2 * i]
    BY DEF FromDigits
  <2>7. QED
    BY <2>2, <2>5, <2>6
<1>2. f = [i \in 1..8 |-> f[i]]
  BY DEF Frames
<1>3. FromDigits(ToHex(f)) = [i \in 1..8 |-> FromDigits(ToHex(f))[i]]
  BY DEF FromDigits
<1>4. QED
  BY <1>1, <1>2, <1>3

LEMMA SendKeeps ==
    ASSUME IInv, Send
    PROVE  IInv'
<1> DEFINE g == Complete(frame)
<1>1. frame \in Frames /\ frame[1] = 165
  BY FrameFacts
<1>2. g \in Frames /\ (\A i \in {1, 3, 4, 5, 6, 7} : g[i] = frame[i]) /\ g[8] = Checksum(g)
  BY <1>1, CompleteFacts
<1>3. FromDigits(ToHex(g)) = g
  BY <1>2, DigitsFacts
<1>4. frame' = g /\ address' = address /\ last' = last /\ calls' = calls
  BY DEF Send
<1> HIDE DEF g
<1>5. peer' = g
  BY <1>1, <1>2, <1>3, <1>4 DEF Send, Valid
<1>6. TypeOK'
  BY <1>2, <1>4, <1>5 DEF IInv, TypeOK
<1>7. DeviceAddress(g) = DeviceAddress(frame)
  BY <1>2 DEF DeviceAddress
<1>8. /\ Param1(g) = Param1(frame) /\ Param2(g) = Param2(frame) /\ Param3(g) = Param3(frame)
  BY <1>2 DEF Param1, Param2, Param3, CommandType
<1>9. Arguments(last, g)
  <2>1. Arguments(last, frame)
    BY DEF IInv, FrameInv
  <2>2. QED
    BY <2>1, <1>8 DEF Arguments
<1>10. QED
  BY <1>1, <1>2, <1>4, <1>5, <1>6, <1>7, <1>9 DEF IInv, FrameInv

----------------------------------------------------------------------------
(* Directions *)

\* Adding the bit of one axis leaves those of the others.
LEMMA PanBits ==
    ASSUME NEW c \in Nat, NEW type \in {Right, Left}
    PROVE  /\ HasBit(Or(c, type), Down) = HasBit(c, Down)
           /\ HasBit(Or(c, type), Up) = HasBit(c, Up)
           /\ HasBit(Or(c, type), ZoomIn) = HasBit(c, ZoomIn)
           /\ HasBit(Or(c, type), ZoomOut) = HasBit(c, ZoomOut)
<1>1. CASE type = 1
  <2>1. HasBit(Or(c, 1), 4) = HasBit(c, 4)
    BY DEF HasBit, Or
  <2>2. HasBit(Or(c, 1), 8) = HasBit(c, 8)
    BY DEF HasBit, Or
  <2>3. HasBit(Or(c, 1), 16) = HasBit(c, 16)
    BY DEF HasBit, Or
  <2>4. HasBit(Or(c, 1), 32) = HasBit(c, 32)
    BY DEF HasBit, Or
  <2>5. QED
    BY <1>1, <2>1, <2>2, <2>3, <2>4 DEF Down, Up, ZoomIn, ZoomOut
<1>2. CASE type = 2
  <2>1. HasBit(Or(c, 2), 4) = HasBit(c, 4)
    BY DEF HasBit, Or
  <2>2. HasBit(Or(c, 2), 8) = HasBit(c, 8)
    BY DEF HasBit, Or
  <2>3. HasBit(Or(c, 2), 16) = HasBit(c, 16)
    BY DEF HasBit, Or
  <2>4. HasBit(Or(c, 2), 32) = HasBit(c, 32)
    BY DEF HasBit, Or
  <2>5. QED
    BY <1>2, <2>1, <2>2, <2>3, <2>4 DEF Down, Up, ZoomIn, ZoomOut
<1>3. QED
  BY <1>1, <1>2 DEF Right, Left

LEMMA TiltBits ==
    ASSUME NEW c \in Nat, NEW type \in {Down, Up}
    PROVE  /\ HasBit(Or(c, type), Right) = HasBit(c, Right)
           /\ HasBit(Or(c, type), Left) = HasBit(c, Left)
           /\ HasBit(Or(c, type), ZoomIn) = HasBit(c, ZoomIn)
           /\ HasBit(Or(c, type), ZoomOut) = HasBit(c, ZoomOut)
<1>1. CASE type = 4
  <2>1. HasBit(Or(c, 4), 1) = HasBit(c, 1)
    BY DEF HasBit, Or
  <2>2. HasBit(Or(c, 4), 2) = HasBit(c, 2)
    BY DEF HasBit, Or
  <2>3. HasBit(Or(c, 4), 16) = HasBit(c, 16)
    BY DEF HasBit, Or
  <2>4. HasBit(Or(c, 4), 32) = HasBit(c, 32)
    BY DEF HasBit, Or
  <2>5. QED
    BY <1>1, <2>1, <2>2, <2>3, <2>4 DEF Right, Left, ZoomIn, ZoomOut
<1>2. CASE type = 8
  <2>1. HasBit(Or(c, 8), 1) = HasBit(c, 1)
    BY DEF HasBit, Or
  <2>2. HasBit(Or(c, 8), 2) = HasBit(c, 2)
    BY DEF HasBit, Or
  <2>3. HasBit(Or(c, 8), 16) = HasBit(c, 16)
    BY DEF HasBit, Or
  <2>4. HasBit(Or(c, 8), 32) = HasBit(c, 32)
    BY DEF HasBit, Or
  <2>5. QED
    BY <1>2, <2>1, <2>2, <2>3, <2>4 DEF Right, Left, ZoomIn, ZoomOut
<1>3. QED
  BY <1>1, <1>2 DEF Down, Up

LEMMA ZoomBits ==
    ASSUME NEW c \in Nat, NEW type \in {ZoomIn, ZoomOut, Stop}
    PROVE  /\ HasBit(Or(c, type), Right) = HasBit(c, Right)
           /\ HasBit(Or(c, type), Left) = HasBit(c, Left)
           /\ HasBit(Or(c, type), Down) = HasBit(c, Down)
           /\ HasBit(Or(c, type), Up) = HasBit(c, Up)
<1>1. CASE type = 16
  <2>1. HasBit(Or(c, 16), 1) = HasBit(c, 1)
    BY DEF HasBit, Or
  <2>2. HasBit(Or(c, 16), 2) = HasBit(c, 2)
    BY DEF HasBit, Or
  <2>3. HasBit(Or(c, 16), 4) = HasBit(c, 4)
    BY DEF HasBit, Or
  <2>4. HasBit(Or(c, 16), 8) = HasBit(c, 8)
    BY DEF HasBit, Or
  <2>5. QED
    BY <1>1, <2>1, <2>2, <2>3, <2>4 DEF Right, Left, Down, Up
<1>2. CASE type = 32
  <2>1. HasBit(Or(c, 32), 1) = HasBit(c, 1)
    BY DEF HasBit, Or
  <2>2. HasBit(Or(c, 32), 2) = HasBit(c, 2)
    BY DEF HasBit, Or
  <2>3. HasBit(Or(c, 32), 4) = HasBit(c, 4)
    BY DEF HasBit, Or
  <2>4. HasBit(Or(c, 32), 8) = HasBit(c, 8)
    BY DEF HasBit, Or
  <2>5. QED
    BY <1>2, <2>1, <2>2, <2>3, <2>4 DEF Right, Left, Down, Up
<1>3. CASE type = Stop
  BY <1>3 DEF Or, Stop
<1>4. QED
  BY <1>1, <1>2, <1>3 DEF ZoomIn, ZoomOut

\* A command that moves has one direction on each axis; one call is one axis.
OneWay == frame[4] <= 42 => ~BothWays(frame)

\* Any other command is none that moves.
LEMMA OtherIsOneAxis ==
    ASSUME frame'[4] \in Nat, frame'[4] > 42
    PROVE  OneWay' /\ OneAxis
  BY DEF OneWay, OneAxis

LEMMA MoveIsOneAxis ==
    ASSUME IInv, NEW type \in Moves, NEW speed \in Speeds, Move(type, speed)
    PROVE  OneWay' /\ OneAxis
<1> DEFINE c == frame[4]
           cmd == Or(c, type)
<1>1. frame \in Frames /\ c \in Nat
  BY FrameFacts, ByteFacts
<1>2. ~Opposed(cmd)
  BY DEF Move
<1>3. ASSUME frame' = [frame EXCEPT ![4] = cmd, ![5] = speed], type \in {Left, Right}
      PROVE  OneWay' /\ OneAxis
  <2>1. frame'[4] = cmd /\ frame'[6] = frame[6] /\ frame'[7] = frame[7]
    BY <1>1, <1>3 DEF Frames
  <2>2. ~BothWays(frame')
    BY <1>2, <2>1 DEF Opposed, Both, BothWays
  <2>3. Tilt(frame') = Tilt(frame) /\ Zoom(frame') = Zoom(frame)
    BY <1>1, <1>3, <2>1, PanBits DEF Tilt, Zoom
  <2>4. QED
    BY <2>2, <2>3 DEF OneWay, OneAxis
<1>4. ASSUME frame' = [frame EXCEPT ![4] = cmd, ![6] = speed], type \in {Up, Down}
      PROVE  OneWay' /\ OneAxis
  <2>1. frame'[4] = cmd /\ frame'[5] = frame[5] /\ frame'[7] = frame[7]
    BY <1>1, <1>4 DEF Frames
  <2>2. ~BothWays(frame')
    BY <1>2, <2>1 DEF Opposed, Both, BothWays
  <2>3. Pan(frame') = Pan(frame) /\ Zoom(frame') = Zoom(frame)
    BY <1>1, <1>4, <2>1, TiltBits DEF Pan, Zoom
  <2>4. QED
    BY <2>2, <2>3 DEF OneWay, OneAxis
<1>5. ASSUME frame' = [frame EXCEPT ![4] = cmd, ![7] = WithHigh(@, speed)],
             type \in {ZoomIn, ZoomOut, Stop}
      PROVE  OneWay' /\ OneAxis
  <2>1. frame'[4] = cmd /\ frame'[5] = frame[5] /\ frame'[6] = frame[6]
    BY <1>1, <1>5 DEF Frames
  <2>2. ~BothWays(frame')
    BY <1>2, <2>1 DEF Opposed, Both, BothWays
  <2>3. Pan(frame') = Pan(frame) /\ Tilt(frame') = Tilt(frame)
    BY <1>1, <1>5, <2>1, ZoomBits DEF Pan, Tilt
  <2>4. QED
    BY <2>2, <2>3 DEF OneWay, OneAxis
<1>6. QED
  BY <1>3, <1>4, <1>5 DEF Move, Called

LEMMA FIIsOneAxis ==
    ASSUME IInv, NEW type \in LensMoves, NEW speed \in Speeds, FI(type, speed)
    PROVE  OneWay' /\ OneAxis
<1> DEFINE base == Or(frame[4], Lens)
           cmd == Or(base, type)
<1>1. frame \in Frames /\ frame[4] \in Byte
  BY FrameFacts
<1>2. base \in 64..74
  <2>1. frame[4] = 0 \/ frame[4] \in 64..74
    BY DEF FI, Lens
  <2>2. QED
    BY <2>1 DEF Or, Lens, HasBit
<1>3. type \in 0..8
  BY DEF LensMoves, FocusIn, FocusOut, IrisIn, IrisOut, Close
<1>4. cmd \in Nat /\ cmd > 42
  <2>1. base \in Byte /\ type \in Byte
    BY <1>2, <1>3 DEF Byte
  <2>2. cmd \in Nat /\ (cmd = base \/ cmd = base + type)
    BY <2>1, OrFacts
  <2> HIDE DEF base, cmd
  <2>3. QED
    BY <1>2, <1>3, <2>2
<1>5. frame'[4] = cmd
  BY <1>1 DEF FI, Called, Frames
<1>6. QED
  BY <1>4, <1>5, OtherIsOneAxis

LEMMA SendIsOneAxis ==
    ASSUME IInv, OneWay, Send
    PROVE  OneWay' /\ OneAxis
<1>1. /\ frame'[4] = frame[4] /\ frame'[5] = frame[5]
      /\ frame'[6] = frame[6] /\ frame'[7] = frame[7]
  BY FrameFacts, CompleteFacts DEF Send
<1>2. BothWays(frame') = BothWays(frame)
  BY <1>1 DEF BothWays
<1>3. Pan(frame') = Pan(frame) /\ Tilt(frame') = Tilt(frame)
  BY <1>1 DEF Pan, Tilt
<1>4. QED
  BY <1>1, <1>2, <1>3 DEF OneWay, OneAxis

LEMMA NextIsOneAxis ==
    ASSUME IInv, OneWay, Next
    PROVE  OneWay' /\ OneAxis
<1>1. frame \in Frames
  BY FrameFacts
<1>2. ASSUME NEW type \in Moves, NEW speed \in Speeds, Move(type, speed)
      PROVE  OneWay' /\ OneAxis
  BY <1>2, MoveIsOneAxis
<1>3. ASSUME NEW type \in LensMoves, NEW speed \in Speeds, FI(type, speed)
      PROVE  OneWay' /\ OneAxis
  BY <1>3, FIIsOneAxis
<1>4. ASSUME NEW type \in PresetCalls, NEW id \in Ids, Preset(type, id)
      PROVE  OneWay' /\ OneAxis
  <2>1. type \in Nat /\ type > 42 /\ frame'[4] = type
    BY <1>1, <1>4 DEF PresetCalls, Preset, Called, Frames
  <2>2. QED
    BY <2>1, OtherIsOneAxis
<1>5. ASSUME NEW type \in CruiseCalls, NEW id \in Ids, NEW number \in Numbers,
             Cruise(type, id, number)
      PROVE  OneWay' /\ OneAxis
  <2>1. type \in Nat /\ type > 42
    BY DEF CruiseCalls, AddPoint, DelPoint, CruiseSpeed, StayTime, StartCruise
  <2>2. frame'[4] = type
    BY <1>1, <1>5 DEF Cruise, Called, Frames
  <2>3. QED
    BY <2>1, <2>2, OtherIsOneAxis
<1>6. ASSUME NEW id \in Ids, NEW sub \in 0..2, Scan(id, sub)
      PROVE  OneWay' /\ OneAxis
  <2>1. frame'[4] = 137
    BY <1>1, <1>6 DEF Scan, ScanStart, Called, Frames
  <2>2. QED
    BY <2>1, OtherIsOneAxis
<1>7. ASSUME NEW id \in Ids, NEW number \in Numbers, ScanSpeed(id, number)
      PROVE  OneWay' /\ OneAxis
  <2>1. frame'[4] = 138
    BY <1>1, <1>7 DEF ScanSpeed, ScanSetSpeed, Called, Frames
  <2>2. QED
    BY <2>1, OtherIsOneAxis
<1>8. ASSUME NEW type \in AuxCalls, NEW id \in Ids, Aux(type, id)
      PROVE  OneWay' /\ OneAxis
  <2>1. type \in Nat /\ type > 42 /\ frame'[4] = type
    BY <1>1, <1>8 DEF AuxCalls, Aux, Called, Frames
  <2>2. QED
    BY <2>1, OtherIsOneAxis
<1>9. ASSUME Send PROVE OneWay' /\ OneAxis
  BY <1>9, SendIsOneAxis
<1>10. QED
  BY <1>2, <1>3, <1>4, <1>5, <1>6, <1>7, <1>8, <1>9 DEF Next

----------------------------------------------------------------------------
(* The theorems *)

LEMMA NextKeeps == IInv /\ [Next]_vars => IInv'
<1> SUFFICES ASSUME IInv, [Next]_vars PROVE IInv'
  OBVIOUS
<1>1. ASSUME NEW type \in Moves, NEW speed \in Speeds, Move(type, speed) PROVE IInv'
  BY <1>1, MoveKeeps
<1>2. ASSUME NEW type \in LensMoves, NEW speed \in Speeds, FI(type, speed) PROVE IInv'
  BY <1>2, FIKeeps
<1>3. ASSUME NEW type \in PresetCalls, NEW id \in Ids, Preset(type, id) PROVE IInv'
  BY <1>3, PresetKeeps
<1>4. ASSUME NEW type \in CruiseCalls, NEW id \in Ids, NEW number \in Numbers,
             Cruise(type, id, number)
      PROVE  IInv'
  BY <1>4, CruiseKeeps
<1>5. ASSUME NEW id \in Ids, NEW sub \in 0..2, Scan(id, sub) PROVE IInv'
  BY <1>5, ScanKeeps
<1>6. ASSUME NEW id \in Ids, NEW number \in Numbers, ScanSpeed(id, number) PROVE IInv'
  BY <1>6, ScanSpeedKeeps
<1>7. ASSUME NEW type \in AuxCalls, NEW id \in Ids, Aux(type, id) PROVE IInv'
  BY <1>7, AuxKeeps
<1>8. ASSUME Send PROVE IInv'
  BY <1>8, SendKeeps
<1>9. CASE UNCHANGED vars
  <2>1. Arguments(last', frame') /\ DeviceAddress(frame') = DeviceAddress(frame)
    BY <1>9 DEF vars, IInv, FrameInv
  <2>2. QED
    BY <1>9, <2>1 DEF vars, IInv, TypeOK, FrameInv
<1>10. QED
  BY <1>1, <1>2, <1>3, <1>4, <1>5, <1>6, <1>7, <1>8, <1>9 DEF Next

THEOREM Invariance == Spec => []IInv
<1>1. QED
  BY InitIInv, NextKeeps, PTL DEF Spec

\* Every variable has its type, whatever calls were made.
THEOREM TypeCorrect == Spec => []TypeOK
<1>1. IInv => TypeOK
  BY DEF IInv
<1>2. QED
  BY <1>1, Invariance, PTL

\* The checksum written by ToHex() is the one FromHex() asks for.
LEMMA FrameIsAccepted == IInv => FrameAccepted
  BY DEF IInv, FrameInv, FrameAccepted, Received

\* The two halves of byte 7 never disturb each other: the address ...
LEMMA AddressIsKept == IInv => AddressKept
  BY DEF IInv, FrameInv, AddressKept, Received

\* ... and the arguments of the last call, for every value of them.
LEMMA ParamsAreRead == IInv => ParamsRead
  BY DEF IInv, FrameInv, ParamsRead, Received

\* The device reads what was built: FromHex(), DeviceAddress() and the readers
\* undo ToHex() and the builders, whatever calls were made.
THEOREM CommandIsRead == Spec => []CommandRead
<1>1. IInv => CommandRead
  BY FrameIsAccepted, AddressIsKept, ParamsAreRead DEF CommandRead
<1>2. QED
  BY <1>1, Invariance, PTL

\* Calls add up in one byte: whatever came before, a command never moves both
\* ways on an axis and a call changes one axis, for every speed.
THEOREM AxesStayApart == Spec => AxesApart
<1>1. Init => OneWay
  <2> SUFFICES ASSUME Init PROVE OneWay
    OBVIOUS
  <2>1. frame[4] = 0
    BY DEF Init
  <2>2. QED
    BY <2>1 DEF OneWay, BothWays, HasBit, Right, Left, Down, Up, ZoomIn, ZoomOut
<1>2. IInv /\ OneWay /\ [Next]_vars => OneWay'
  <2> SUFFICES ASSUME IInv, OneWay, [Next]_vars PROVE OneWay'
    OBVIOUS
  <2>1. CASE Next
    BY <2>1, NextIsOneAxis
  <2>2. CASE UNCHANGED vars
    BY <2>2 DEF vars, OneWay, BothWays
  <2>3. QED
    BY <2>1, <2>2
<1>3. IInv /\ OneWay /\ [Next]_vars => [OneAxis]_vars
  BY NextIsOneAxis
<1>4. QED
  BY <1>1, <1>2, <1>3, Invariance, PTL DEF Spec, AxesApart
=============================================================================
