------------------------------ MODULE Geometry ------------------------------
(***************************************************************************)
(* Where WS2812FX puts the pixels of a segment on the strip.  A segment is *)
(* a record of start, stop (the first LED after it), grouping, spacing and *)
(* the options mirror and reverse; a strip one of length (_length),        *)
(* reverseMode and skip, the LEDs in front of the first one that is used.  *)
(***************************************************************************)
EXTENDS Integers, FiniteSets

(* Assignment to an int16_t and to a uint16_t *)
Int16(x) == ((x + 32768) % 65536) - 32768
UInt16(x) == x % 65536

(* What a strip can be that _leds has memory for.  REV is computed in 16   *)
(* bits with a sign.                                                       *)
Strips ==
    {strip \in [length : Nat, reverseMode : BOOLEAN, skip : Nat] :
        strip.length >= 1 /\ strip.length <= 32767 /\ strip.skip <= 1}

Segments == [start : Nat, stop : Nat, grouping : Nat, spacing : Nat,
             mirror : BOOLEAN, reverse : BOOLEAN]

(* The LEDs that _leds has memory for *)
HasLed(strip, led) == led >= 0 /\ led < strip.length + strip.skip

(* What setSegment keeps: a segment that is active lies on the strip and   *)
(* is not empty.                                                           *)
OnStrip(seg, strip) ==
    /\ seg.start < strip.length
    /\ seg.stop <= strip.length
    /\ seg.stop > 0 => seg.start < seg.stop

-----------------------------------------------------------------------------
IsActive(seg) == seg.stop > seg.start
Length(seg) == seg.stop - seg.start
GroupLength(seg) == seg.grouping + seg.spacing

(* virtualLength: the pixels an effect sees; half of them, rounded up, if  *)
(* they are mirrored                                                       *)
VirtualLength(seg) ==
    LET groups == (Length(seg) + GroupLength(seg) - 1) \div GroupLength(seg)
    IN  IF seg.mirror THEN (groups + 1) \div 2 ELSE groups

REV(strip, i) == strip.length - 1 - i

(* realPixelIndex: the first LED of pixel i, in the int16_t that both of   *)
(* its callers make of the result                                          *)
RealPixelIndex(seg, strip, i) ==
    LET iGroup == Int16(i * GroupLength(seg))
        inSegment == IF ~seg.reverse THEN iGroup
                     ELSE IF seg.mirror THEN (Length(seg) - 1) \div 2 - iGroup
                     ELSE Length(seg) - iGroup - 1
        onStrip == Int16(Int16(inSegment) + seg.start)
    IN  IF strip.reverseMode THEN Int16(REV(strip, onStrip)) ELSE onStrip

(* The loop of setPixelColor over the group of pixel i: the LEDs that are  *)
(* not outside the segment, and the mirror image of each.                  *)
Grouped(seg, strip, i) ==
    LET reversed == strip.reverseMode # seg.reverse
        real == RealPixelIndex(seg, strip, i)
    IN  {Int16(IF reversed THEN real - j ELSE real + j) : j \in 0 .. seg.grouping - 1}

Inside(seg, strip, indexSet) ==
    LET indexSetRev == IF strip.reverseMode THEN Int16(REV(strip, indexSet)) ELSE indexSet
    IN  indexSetRev >= seg.start /\ indexSetRev < seg.stop

MirroredBehind(seg, strip, indexSet) ==
    IF strip.reverseMode
    THEN REV(strip, seg.start) - indexSet + REV(strip, seg.stop)
    ELSE seg.stop - indexSet + seg.start
Mirrored(seg, strip, indexSet) ==
    IF strip.reverseMode
    THEN REV(strip, seg.start) - indexSet + REV(strip, seg.stop) + 1
    ELSE seg.stop - indexSet + seg.start - 1

(* setPixelColor, within an effect: the LEDs it writes *)
SetPixelColor(seg, strip, i) ==
    LET direct == {indexSet \in Grouped(seg, strip, i) : Inside(seg, strip, indexSet)}
        images == IF seg.mirror THEN {Mirrored(seg, strip, d) : d \in direct} ELSE {}
        skipped == IF i = 0 THEN 0 .. strip.skip - 1 ELSE {}
    IN  {d + strip.skip : d \in direct \cup images} \cup skipped

(* getPixelColor: the LED it reads; none if the pixel is not on the strip  *)
GetPixelColor(seg, strip, i) ==
    LET led == UInt16(RealPixelIndex(seg, strip, i) + strip.skip)
    IN  IF led >= strip.length + strip.skip THEN {} ELSE {led}

(* setPixelColor from outside of an effect writes _leds without a test.    *)
(* The LEDs that are skipped are set with the first one, which with the    *)
(* strip reversed is that of the last pixel.                               *)
SetAnyPixelColor(strip, i) ==
    LET led == IF strip.reverseMode THEN UInt16(REV(strip, i)) ELSE i
    IN  {led + strip.skip} \cup (IF led = 0 THEN 0 .. strip.skip - 1 ELSE {})
SetRange(strip, i, i2) ==
    UNION {SetAnyPixelColor(strip, x) : x \in IF i2 >= i THEN i .. i2 ELSE i2 .. i}

-----------------------------------------------------------------------------
(* setSegment: what it turns off, and the segment it leaves.  Bounds that  *)
(* cross disable a segment; a start beyond the strip is not taken.         *)
Unchanged(seg, i1, i2, grouping, spacing) ==
    /\ seg.start = i1 /\ seg.stop = i2
    /\ grouping = 0 \/ (seg.grouping = grouping /\ seg.spacing = spacing)
TurnedOff(seg, strip, i1, i2, grouping, spacing) ==
    IF Unchanged(seg, i1, i2, grouping, spacing) \/ seg.stop = 0 THEN {}
    ELSE SetRange(strip, seg.start, seg.stop - 1)
SetSegment(seg, strip, i1, i2, grouping, spacing) ==
    IF Unchanged(seg, i1, i2, grouping, spacing) THEN seg
    ELSE IF i2 <= i1 THEN [seg EXCEPT !.stop = 0]
    ELSE [seg EXCEPT !.start = IF i1 < strip.length THEN i1 ELSE @,
                     !.stop = IF i2 > strip.length THEN strip.length ELSE i2,
                     !.grouping = IF grouping = 0 THEN @ ELSE grouping,
                     !.spacing = IF grouping = 0 THEN @ ELSE spacing]

(* resetSegments and init: the first segment is the whole strip *)
WholeStrip(strip) == [start |-> 0, stop |-> strip.length, grouping |-> 1, spacing |-> 0,
                      mirror |-> FALSE, reverse |-> FALSE]

-----------------------------------------------------------------------------
(* What the pixels of a segment are for: its LEDs, and those an effect can *)
(* paint.                                                                  *)
LedsOf(seg, strip) ==
    {(IF strip.reverseMode THEN REV(strip, i) ELSE i) + strip.skip : i \in seg.start .. seg.stop - 1}
LedsPainted(seg, strip) ==
    UNION {SetPixelColor(seg, strip, i) : i \in 0 .. VirtualLength(seg) - 1}

(* All of them, and none of the neighbours'.  Pixel 0 also sets the LEDs   *)
(* that are skipped; with spacing some stay dark.                          *)
Covered(seg, strip) ==
    /\ LedsPainted(seg, strip) \subseteq LedsOf(seg, strip) \cup 0 .. strip.skip - 1
    /\ seg.spacing = 0 => LedsOf(seg, strip) \subseteq LedsPainted(seg, strip)
=============================================================================
