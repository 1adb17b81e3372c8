----------------------------- MODULE PtzCommand -----------------------------
(***************************************************************************)
(* class PTZCommand (type_define.h): the eight bytes of a PTZ control,     *)
(* filled in by any sequence of its builder calls, written as hexadecimal  *)
(* digits into a message and read back by the device.  Bytes are numbered  *)
(* from 1 as in the comments of the class, bytes[i] is frame[i + 1].       *)
(***************************************************************************)
EXTENDS Integers

CONSTANTS
    Addresses,  \* device addresses
    Speeds,     \* speeds of movements and lenses
    Ids,        \* presets, cruises, groups and switches
    Numbers,    \* uint16_t parameters: speeds and times of cruises and scans
    MaxCalls    \* bound: builder calls on one command

\* uint8_t and uint16_t
Byte == 0..255
WordMax == 65535
Word == 0..WordMax

ASSUME PtzAssumption ==
    /\ Addresses \subseteq Word
    /\ Speeds \subseteq Byte
    /\ Ids \subseteq Byte
    /\ Numbers \subseteq Word
    /\ MaxCalls \in Nat

VARIABLES
    address,  \* the argument of the constructor
    frame,    \* the bytes
    last,     \* the last call that was accepted, with its arguments
    calls,    \* how many there were
    peer      \* the frame the device got, if any

vars == <<address, frame, last, calls, peer>>

Frames == [1..8 -> Byte]

\* No frame has been sent yet, or FromHex() returned none.
Nothing == <<>>
Refused == <<0>>

----------------------------------------------------------------------------
(* Bits and nibbles *)

HasBit(c, b) == (c \div b) % 2 = 1

\* c | b, b a single bit or none.
Or(c, b) == IF b = 0 THEN c ELSE IF HasBit(c, b) THEN c ELSE c + b

Both(c, a, b) == HasBit(c, a) /\ HasBit(c, b)

High(c) == c \div 16
Low(c)  == c % 16

\* The high nibble of byte 7, whose low nibble belongs to the address.
WithHighBare(c, n) == Low(n) * 16
WithHigh(c, n) == Low(n) * 16 + Low(c)

----------------------------------------------------------------------------
(* The builder calls *)

Right == 1   Left == 2   Down == 4   Up == 8   ZoomIn == 16   ZoomOut == 32   Stop == 0
Moves == {Stop, Right, Left, Down, Up, ZoomIn, ZoomOut}

\* The lens types are one of these and bit 6.
Lens == 64
FocusIn == 1   FocusOut == 2   IrisIn == 4   IrisOut == 8   Close == 0
LensMoves == {Close, FocusIn, FocusOut, IrisIn, IrisOut}

PresetCalls == 129..131
AddPoint == 132  DelPoint == 133  CruiseSpeed == 134  StayTime == 135  StartCruise == 136
CruiseCalls == {AddPoint, DelPoint, CruiseSpeed, StayTime, StartCruise}
ScanStart == 137  ScanSetSpeed == 138
AuxCalls == {140, 141}

Calls == [call : {"none", "Move", "FI", "Preset", "Cruise", "Scan", "ScanSpeed", "Aux"},
          type : Byte, first : Byte, second : Word]
None == [call |-> "none", type |-> 0, first |-> 0, second |-> 0]

\* PTZCommand(): the address is spread over two bytes.
Init ==
    /\ address \in Addresses
    /\ frame = [i \in 1..8 |-> CASE i = 1 -> 165
                                 [] i = 3 -> address % 256
                                 [] i = 7 -> Low(address \div 256)
                                 [] OTHER -> 0]
    /\ last = None
    /\ calls = 0
    /\ peer = Nothing

Called(call, type, first, second, bytes) ==
    /\ peer = Nothing
    /\ calls < MaxCalls
    /\ frame' = bytes
    /\ last' = [call |-> call, type |-> type, first |-> first, second |-> second]
    /\ calls' = calls + 1
    /\ UNCHANGED <<address, peer>>

OpposedPan(c) == Both(c, Right, Left)

\* Directions add up; opposite ones and other commands are refused.
Opposed(c) == Both(c, Right, Left) \/ Both(c, Down, Up) \/ Both(c, ZoomIn, ZoomOut)
Move(type, speed) ==
    LET cmd == Or(frame[4], type) IN
    /\ cmd <= 42
    /\ ~Opposed(cmd)
    /\ \/ /\ type \in {Left, Right}
          /\ Called("Move", type, speed, 0, [frame EXCEPT ![4] = cmd, ![5] = speed])
       \/ /\ type \in {Up, Down}
          /\ Called("Move", type, speed, 0, [frame EXCEPT ![4] = cmd, ![6] = speed])
       \/ /\ type \in {ZoomIn, ZoomOut, Stop}
          /\ Called("Move", type, speed, 0, [frame EXCEPT ![4] = cmd, ![7] = WithHigh(@, speed)])

FI(type, speed) ==
    LET cmd == Or(Or(frame[4], Lens), type) IN
    /\ frame[4] = 0 \/ frame[4] \in Lens..74
    /\ ~Both(cmd, FocusIn, FocusOut) /\ ~Both(cmd, IrisIn, IrisOut)
    /\ \/ /\ type \in {FocusIn, FocusOut}
          /\ Called("FI", type, speed, 0, [frame EXCEPT ![4] = cmd, ![5] = speed])
       \/ /\ type \in {IrisIn, IrisOut}
          /\ Called("FI", type, speed, 0, [frame EXCEPT ![4] = cmd, ![6] = speed])
       \/ /\ type = Close
          /\ Called("FI", type, speed, 0, [frame EXCEPT ![4] = cmd])

Preset(type, id) ==
    Called("Preset", type, 0, id, [frame EXCEPT ![4] = type, ![6] = id])

\* Two of the five take a number of twelve bits.
IsWide(type) == type \in {CruiseSpeed, StayTime, ScanSetSpeed}
Cruise(type, id, number) ==
    Called("Cruise", type, id, number,
        [frame EXCEPT ![4] = type, ![5] = id, ![6] = number % 256,
                      ![7] = IF IsWide(type) THEN WithHigh(@, number \div 256) ELSE @])

\* The kind of a scan: begin, left border, right border.
Scan(id, sub) ==
    Called("Scan", ScanStart, id, sub, [frame EXCEPT ![4] = ScanStart, ![5] = id, ![6] = sub])

ScanSpeed(id, number) ==
    Called("ScanSpeed", ScanSetSpeed, id, number,
        [frame EXCEPT ![4] = ScanSetSpeed, ![5] = id, ![6] = number % 256,
                      ![7] = WithHigh(@, number \div 256)])

Aux(type, id) ==
    Called("Aux", type, id, 0, [frame EXCEPT ![4] = type, ![5] = id])

----------------------------------------------------------------------------
(* To the device and back *)

Sum(f) == f[1] + f[2] + f[3] + f[4] + f[5] + f[6] + f[7]
Checksum(f) == Sum(f) % 256

\* Byte 2: the version and a check nibble.
CheckNibble(f) == [f EXCEPT ![2] = High(@) * 16 + ((High(f[1]) + Low(f[1]) + High(@)) % 16)]
Complete(f) ==
    LET g == CheckNibble(f) IN [g EXCEPT ![8] = Checksum(g)]

\* FrameToHex() and HexToByte(): two digits a byte.
ToHex(f) == [i \in 1..16 |-> IF i % 2 = 1 THEN High(f[(i + 1) \div 2]) ELSE Low(f[(i + 1) \div 2])]
FromDigits(hex) == [i \in 1..8 |-> 16 * hex[2 * i - 1] + hex[2 * i]]

\* ValidateFrame()
Valid(f) == f[1] = 165 /\ f[8] = Checksum(f)

\* ToHex() changes the command it writes; FromHex() gives the device a frame
\* or nothing (then the control is refused).
Send ==
    /\ peer = Nothing
    /\ frame' = Complete(frame)
    /\ peer' = LET f == FromDigits(ToHex(frame')) IN IF Valid(f) THEN f ELSE Refused
    /\ UNCHANGED <<address, last, calls>>

\* The command can be written and read again.
Next ==
    \/ \E type \in Moves, speed \in Speeds : Move(type, speed)
    \/ \E type \in LensMoves, speed \in Speeds : FI(type, speed)
    \/ \E type \in PresetCalls, id \in Ids : Preset(type, id)
    \/ \E type \in CruiseCalls, id \in Ids, number \in Numbers : Cruise(type, id, number)
    \/ \E id \in Ids, sub \in 0..2 : Scan(id, sub)
    \/ \E id \in Ids, number \in Numbers : ScanSpeed(id, number)
    \/ \E type \in AuxCalls, id \in Ids : Aux(type, id)
    \/ Send

Spec == Init /\ [][Next]_vars

----------------------------------------------------------------------------
(* What the device reads *)

DeviceAddress(f) == Low(f[7]) * 256 + f[3]
Param1(f) == f[5]
Param2(f) == IF IsWide(f[4]) THEN High(f[7]) * 256 + f[6] ELSE f[6]

\* get_command_type() as it is: the test for presets is f >= 0x81 && f >= 0x83.
CommandType(f) ==
    CASE f[4] <= 42                    -> "PTZ"
      [] f[4] \in 43..74               -> "FI"
      [] f[4] >= 131                   -> "PRESET"
      [] OTHER                         -> "invalid"
Param3(f) == IF CommandType(f) = "PTZ" THEN High(f[7]) ELSE 0

----------------------------------------------------------------------------
(* Properties *)

TypeOK ==
    /\ address \in Addresses
    /\ frame \in Frames
    /\ last \in Calls
    /\ calls \in 0..MaxCalls
    /\ peer \in Frames \cup {Nothing, Refused}

Received == peer # Nothing

\* Every command a caller can build passes the check of the device and arrives
\* as it was built, whatever calls it took.
FrameAccepted == Received => peer = frame

\* The address of the constructor, twelve bits of it, reaches the device: no
\* call that uses the other half of its byte disturbs it.
AddressKept == Received => DeviceAddress(peer) = address % 4096

\* What the readers of the device should return after a call.
Arguments(l, f) ==
    /\ l.call = "Move" =>
         /\ l.type \in {Left, Right} => Param1(f) = l.first
         /\ l.type \in {Up, Down} => Param2(f) = l.first
         /\ l.type \in {ZoomIn, ZoomOut, Stop} => Param3(f) = l.first % 16
    /\ l.call = "FI" =>
         /\ l.type \in {FocusIn, FocusOut} => Param1(f) = l.first
         /\ l.type \in {IrisIn, IrisOut} => Param2(f) = l.first
    /\ l.call = "Preset" => Param2(f) = l.second
    /\ l.call \in {"Cruise", "Scan", "ScanSpeed"} =>
         /\ Param1(f) = l.first
         /\ Param2(f) = IF IsWide(l.type) THEN l.second % 4096 ELSE l.second % 256
    /\ l.call = "Aux" => Param1(f) = l.first

\* The device reads the arguments of the last call, those of two bytes modulo
\* 4096 and a zoom speed modulo 16.
ParamsRead == Received => Arguments(last, peer)

\* The device accepts every command a caller can build and reads what was
\* built: the frame, the address and the arguments.
CommandRead == FrameAccepted /\ AddressKept /\ ParamsRead

\* The three axes of a command that moves, each with two directions and a speed.
Pan(f)  == <<HasBit(f[4], Right), HasBit(f[4], Left), f[5]>>
Tilt(f) == <<HasBit(f[4], Down), HasBit(f[4], Up), f[6]>>
Zoom(f) == <<HasBit(f[4], ZoomIn), HasBit(f[4], ZoomOut), High(f[7])>>
BothWays(f) ==
    \/ HasBit(f[4], Right) /\ HasBit(f[4], Left)
    \/ HasBit(f[4], Down) /\ HasBit(f[4], Up)
    \/ HasBit(f[4], ZoomIn) /\ HasBit(f[4], ZoomOut)

\* A command that moves never moves both ways on an axis, and a call for one
\* axis leaves the direction and the speed of the other two.
OneAxis ==
    frame'[4] <= 42 /\ frame' # frame =>
        /\ ~BothWays(frame')
        /\ \/ Pan(frame') = Pan(frame) /\ Tilt(frame') = Tilt(frame)
           \/ Pan(frame') = Pan(frame) /\ Zoom(frame') = Zoom(frame)
           \/ Tilt(frame') = Tilt(frame) /\ Zoom(frame') = Zoom(frame)
AxesApart == [][OneAxis]_vars

=============================================================================
