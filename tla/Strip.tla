------------------------------- MODULE Strip -------------------------------
(***************************************************************************)
(* WS2812FX as the firmware uses it: one segment over the whole strip, the *)
(* effect that runs on it, and the orders that select another effect or    *)
(* another speed.  Here an order comes between two frames; module Animator *)
(* has the orders that come during one.                                    *)
(***************************************************************************)
EXTENDS EffectsClassic, EffectsFastLed, EffectsParticles

CONSTANTS
    Lengths,            \* how many LEDs the strip may have
    Speeds,             \* the speeds a client may set
    Orders,             \* the effects a client may ask for
    MaxSegmentData      \* MAX_SEGMENT_DATA

ASSUME StripAssumption ==
    /\ Lengths \subseteq Nat \ {0}
    /\ \A n \in Lengths : n <= 32767      \* REV is computed in an int16_t
    /\ Speeds \subseteq 0 .. 255
    /\ Orders \subseteq 0 .. 255
    /\ MaxSegmentData \in Nat

VARIABLES
    length,     \* _length
    mode,       \* _segments[0].mode
    speed,      \* _segments[0].speed
    rt,         \* _segment_runtimes[0]
    used        \* _usedSegmentData

vars == <<length, mode, speed, rt, used>>

-----------------------------------------------------------------------------
(* No code of the firmware sets the intensity or the palette: they stay at *)
(* the zero of resetSegments, and so do all options but the one that       *)
(* switches the segment on.                                                *)
Env == [n |-> length, speed |-> speed, intensity |-> 0,
        free |-> MaxSegmentData - (used - rt.data)]

(* The table _mode, effects that share a helper taken together *)
Effect(m, r, e) ==
    CASE m = 0 -> Static(r)
      [] m \in {1, 23, 24, 26} -> Blink(r, e)
      [] m = 2 -> Breath(r, e)
      [] m \in {3, 6} -> PlainWipe(r, e)
      [] m \in {4, 36} -> RandomWipe(r, e)
      [] m = 5 -> RandomColor(r, e)
      [] m = 7 -> Dynamic(r, e)
      [] m = 8 -> Rainbow(r, e)
      [] m = 9 -> RainbowCycle(r, e)
      [] m \in {10, 11} -> Scan(r, e)
      [] m = 12 -> Fade(r, e)
      [] m \in {13, 14} -> TheaterChase(r, e)
      [] m \in {15, 16} -> RunningBase(r, e)
      [] m = 17 -> Twinkle(r, e)
      [] m \in {18, 19} -> Dissolve(r, e)
      [] m = 20 -> Sparkle(r, e)
      [] m = 21 -> FlashSparkle(r, e)
      [] m = 22 -> HyperSparkle(r, e)
      [] m = 25 -> MultiStrobe(r, e)
      [] m = 27 -> Android(r, e)
      [] m \in {28, 29} -> Chase(r, e)
      [] m \in {30, 33} -> ChaseRainbow(r, e)
      [] m = 31 -> PlainChaseFlash(r, e)
      [] m = 32 -> RandomChaseFlash(r, e)
      [] m = 34 -> Colorful(r, e)
      [] m = 35 -> TrafficLight(r, e)
      [] m \in {37, 38, 44, 53} -> Running(r, e)
      [] m = 39 -> RunningRandom(r, e)
      [] m \in {40, 60} -> Larson(r, e)
      [] m = 41 -> Comet(r, e)
      [] m = 42 -> Fireworks(r, e)
      [] m = 43 -> Rain(r, e)
      [] m = 45 -> FireFlicker(r, e)
      [] m \in {46, 47} -> GradientBase(r, e)
      [] m \in {48, 50} -> PoliceDots(r, e)
      [] m \in {49, 51} -> PoliceAll(r, e)
      [] m \in {52, 54} -> TricolorChase(r, e)
      [] m = 55 -> TricolorWipe(r, e)
      [] m = 56 -> TricolorFade(r, e)
      [] m = 57 -> Lightning(r, e)
      [] m = 58 -> Icu(r, e)
      [] m = 59 -> MultiComet(r, e)
      [] m = 61 -> RandomChase(r, e)
      [] m = 62 -> Oscillate(r, e)
      [] m = 63 -> Pride2015(r, e)
      [] m = 64 -> Juggle(r, e)
      [] m = 65 -> Palette(r, e)
      [] m = 66 -> Fire2012(r, e)
      [] m = 67 -> Colorwaves(r, e)
      [] m = 68 -> Bpm(r, e)
      [] m = 69 -> FillNoise8(r, e)
      [] m = 70 -> Noise16One(r, e)
      [] m = 71 -> Noise16Two(r, e)
      [] m = 72 -> Noise16Three(r, e)
      [] m = 73 -> Noise16Four(r, e)
      [] m = 74 -> ColorTwinkle(r, e)
      [] m = 75 -> Lake(r, e)
      [] m = 76 -> Meteor(r, e)
      [] m = 77 -> MeteorSmooth(r, e)
      [] m = 78 -> Railway(r, e)
      [] m \in {79, 99} -> Ripple(r, e)
      [] m \in {80, 81} -> TwinkleFox(r, e)
      [] m = 82 -> HalloweenEyes(r, e)
      [] m = 83 -> StaticPattern(r, e)
      [] m = 84 -> TriStaticPattern(r, e)
      [] m \in {85, 86} -> Spots(r, e)
      [] m = 87 -> Glitter(r, e)
      [] m = 88 -> Candle(r, e)
      [] m = 89 -> Starburst(r, e)
      [] m = 90 -> ExplodingFireworks(r, e)
      [] m = 91 -> BouncingBalls(r, e)
      [] m \in 92 .. 94 -> Sinelon(r, e)
      [] m = 95 -> Popcorn(r, e)
      [] m = 96 -> Drip(r, e)
      [] m = 97 -> Plasma(r, e)
      [] m = 98 -> Percent(r, e)
      [] m = 100 -> Heartbeat(r, e)
      [] m = 101 -> Pacifica(r, e)
      [] m = 102 -> CandleMulti(r, e)
      [] m = 103 -> SolidGlitter(r, e)
      [] m = 104 -> Sunrise(r, e)
      [] m \in {105, 109} -> Phased(r, e)
      [] m = 106 -> TwinkleUp(r, e)
      [] m = 107 -> NoisePal(r, e)
      [] m = 108 -> Sinewave(r, e)
      [] m = 110 -> Flow(r, e)
      [] m = 111 -> Chunchun(r, e)
      [] m = 112 -> DancingShadows(r, e)

HalloweenEyesMode == 82

(* The frames the next call of the effect may give *)
Frames == Effect(mode, rt, Env)

-----------------------------------------------------------------------------
(* led_animator_init: ws2812fx.init(leds.cnt, ...) *)
Init ==
    /\ length \in Lengths
    /\ mode = 0
    /\ speed = 128
    /\ rt = FreshRuntime
    /\ used = 0

(* service: one call of the effect.  Whatever it allocates or frees is     *)
(* taken off and added to the data in use.                                 *)
Service ==
    /\ \E f \in Frames :
          /\ rt' = IF mode = HalloweenEyesMode THEN f.rt
                   ELSE [f.rt EXCEPT !.call = MinOf(@ + 1, 2)]
          /\ used' = used - rt.data + f.rt.data
    /\ UNCHANGED <<length, mode, speed>>

(* setMode: what is not an effect selects the last one; the same effect    *)
(* goes on with what it has.                                               *)
SetModeKeepsCount(m) ==
    LET to == IF m >= MODE_COUNT THEN MODE_COUNT - 1 ELSE m
    IN  /\ to # mode
        /\ mode' = to
        /\ rt' = FreshRuntime
        /\ UNCHANGED <<length, speed, used>>
SetMode(m) ==
    LET to == IF m >= MODE_COUNT THEN MODE_COUNT - 1 ELSE m
    IN  /\ to # mode
        /\ mode' = to
        /\ rt' = FreshRuntime
        /\ used' = used - rt.data
        /\ UNCHANGED <<length, speed>>

SetSpeed(s) ==
    /\ s # speed
    /\ speed' = s
    /\ UNCHANGED <<length, mode, rt, used>>

Next ==
    \/ Service
    \/ \E m \in Orders : SetMode(m)
    \/ \E s \in Speeds : SetSpeed(s)

Spec == Init /\ [][Next]_vars

-----------------------------------------------------------------------------
(* An effect reads and writes its data only as far as it was allocated,    *)
(* also where it computes the size from the length of the strip in another *)
(* way than its indices, and where it was left from a frame whose          *)
(* allocation failed.                                                      *)
DataInBounds(f) == f.touched <= f.rt.data

(* Whatever the length of the strip and the speed, it never divides by 0.  *)
DivisorsPositive(f) == \A d \in f.divisors : d > 0

(* What it has computed as the index of a pixel or of a table is one, and  *)
(* what it counts in eight or sixteen bits does not run over.  It keeps    *)
(* counters from frame to frame while the speed changes.  Only the drops   *)
(* that fall are painted beyond the segment as well; there setPixelColor   *)
(* drops whatever pixel 16 bits can name (SetPixelColor of Geometry).      *)
SlotsFit(f) == \A s \in f.slots : s[1] >= 0 /\ s[1] < s[2]

(* The time to the next frame, returned in 16 bits, is not cut, and no     *)
(* effect with any of its waits leaves the strip alone for half a minute.  *)
HalfAMinute == 30000
DelayFits(f) == f.delay \in 0 .. HalfAMinute

(* Every call comes back, wherever the clock has taken the head of the     *)
(* police dots, but in two cases that the code has not provided for: with  *)
(* 256 LEDs or more, and when the head went beyond the end of the strip in *)
(* the frame before and is now found behind that place.  Then the gap may  *)
(* be 255, and its 8-bit loop never ends.                                  *)
PoliceModes == {48, 50}
CallsReturn ==
    (mode \in PoliceModes /\ length < 256 /\ rt.aux0 < length)
        => \A head \in 0 .. length - 1 : PoliceReturns(rt, Env, head)

(* All of that, for every frame that any effect may make after any history *)
(* of frames, failed allocations and orders, at any time (FX.cpp as a      *)
(* whole, which checks none of its indices).                               *)
EffectsInBounds ==
    /\ \A f \in Frames : DataInBounds(f) /\ DivisorsPositive(f) /\ SlotsFit(f) /\ DelayFits(f)
    /\ CallsReturn

(* The count of the bytes in use is that of the only segment that has any, *)
(* over all fallbacks, changes of effect and repeated allocations: it does *)
(* not creep up to MAX_SEGMENT_DATA, from where no effect gets data        *)
(* (allocateData and deallocateData of FX.h, setMode).                     *)
UsedIsData == used = rt.data /\ used <= MaxSegmentData

(* A rocket of mode_exploding_fireworks that bursts comes to its end: as   *)
(* long as the first spark, which the others are waited for with, is lit,  *)
(* there are sparks that are moved and darkened.  It would stay for ever   *)
(* if the flare went off too low for a spark with one still lit from the   *)
(* burst before, and no other rocket would start.                          *)
ExplodingMode == 90
SparksDie ==
    (mode = ExplodingMode /\ rt.aux0 \in {2, 3} /\ rt.mem # <<>>)
        => (rt.mem.col <= 4 \/ MinOf(rt.mem.flare, MinOf(2 + length \div 2, 80)) > 1)
=============================================================================
