------------------------------ MODULE MCStrip ------------------------------
EXTENDS Strip, Geometry

MCOrders == (0 .. MODE_COUNT - 1) \cup {255}
MCLengths == {1, 2, 3, 4, 5, 9, 24, 42}
MCSpeeds == {0, 60, 128, 255}

-----------------------------------------------------------------------------
SmallStrips == [length : Lengths \cap 1 .. 5, reverseMode : BOOLEAN, skip : 0 .. 1]
SmallSegments(strip) ==
    {seg \in [start : 0 .. strip.length - 1, stop : 0 .. strip.length, grouping : 1 .. 3,
              spacing : 0 .. 2, mirror : BOOLEAN, reverse : BOOLEAN] : OnStrip(seg, strip)}
ActiveSegments(strip) == {seg \in SmallSegments(strip) : IsActive(seg)}

(* The pixels an effect sees cover their segment exactly: with grouping,   *)
(* mirroring and both ways of reversing, in every combination, no LED      *)
(* stays dark but those of the spacing, and none of the neighbours' LEDs   *)
(* is painted.  (setPixelColor and realPixelIndex of FX_fcn.cpp.)  This is *)
(* so of the strip that init has set up, and nothing changes it later.     *)
SegmentsCovered ==
    Init => \A strip \in {s \in SmallStrips : s.length = length} :
                \A seg \in ActiveSegments(strip) : Covered(seg, strip)
=============================================================================
