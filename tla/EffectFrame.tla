---------------------------- MODULE EffectFrame ----------------------------
(***************************************************************************)
(* What one call of an effect of WS2812FX can do, apart from the colours   *)
(* it paints.  An effect is an operator that takes the runtime r of its    *)
(* segment and its surroundings e and returns the set of frames it may     *)
(* produce; clock and random numbers are the choice among them.            *)
(*                                                                         *)
(*  r.call, r.step, r.aux0, r.aux1   what Segment_runtime keeps; a field   *)
(*                     that only holds a colour or a time is left at 0     *)
(*  r.data             the bytes allocateData has got, 0 for none          *)
(*  r.mem              what an effect that must find it again has put      *)
(*                     there; <<>> is data as allocateData leaves it, zero *)
(*  e.n                SEGLEN, at least 1: inactive segments are skipped   *)
(*  e.speed, e.intensity                                                   *)
(*  e.free             what allocateData may hand out once the segment has *)
(*                     given back its own data                             *)
(* What an effect computes from now, the clock, may be anything from one   *)
(* frame to the next: frames come late, and many effects take the clock    *)
(* times a factor of the speed, which setSpeed changes.                    *)
(* Of the pixels that a clock or a random number selects, the two ends and *)
(* the middle stand for all (Pixels).                                      *)
(***************************************************************************)
EXTENDS Integers, FiniteSets

FRAMETIME == 1000 \div 42

MODE_COUNT == 113

(* The runtime that reset() leaves. *)
FreshRuntime == [call |-> 0, step |-> 0, aux0 |-> 0, aux1 |-> 0,
                 data |-> 0, mem |-> <<>>]

(* A frame that touches no data and comes again after the usual time:      *)
(*   rt        the runtime as the effect leaves it                         *)
(*   touched   how many bytes of data it reads or writes, from the first   *)
(*   divisors  what it divides by or steps a loop with, if it is computed  *)
(*   slots     pairs of an index and the length of the table or of the     *)
(*             segment it is used in, or of a value and what its integer   *)
(*             type can hold; the latter is all that is asked of a pixel   *)
(*             that an effect leaves to setPixelColor to drop              *)
(*   delay     the milliseconds to the next frame, before it is cut to 16  *)
(*             bits                                                        *)
Frame(r) == [rt |-> r, touched |-> 0, divisors |-> {}, slots |-> {}, delay |-> FRAMETIME]

(* Segment_runtime::allocateData: the runtimes it may leave.  malloc may   *)
(* fail, and so does a request that exceeds MAX_SEGMENT_DATA.  A request   *)
(* of no bytes is taken for a failure, what is equal here: whether malloc  *)
(* returns a pointer or not, there is nothing an effect could touch.       *)
AllocateData(r, e, len) ==
    IF r.data = len
    THEN {r}
    ELSE {[r EXCEPT !.data = l, !.mem = <<>>] : l \in {0} \cup (IF len > e.free THEN {} ELSE {len})}

(* mode_static, and what every effect falls back to without its data *)
Static(r) == {[Frame(r) EXCEPT !.delay = 500]}

(* if (!SEGENV.allocateData(len)) return mode_static(); *)
WithData(r, e, len, Effect(_)) ==
    UNION {IF a.data = 0 THEN Static(a) ELSE Effect(a) : a \in AllocateData(r, e, len)}

(* Where a clock or random16(SEGLEN) may lead *)
Pixels(e) == {0, e.n \div 2, e.n - 1}

(* SPEED_FORMULA_L *)
SpeedFormula(e) == 5 + (50 * (255 - e.speed)) \div e.n

(* SEGENV.call % k; r.call counts 0, 1 and "more" *)
CallMod(r, k) == IF r.call < 2 THEN {r.call % k} ELSE 0 .. k - 1

MaxOf(a, b) == IF a > b THEN a ELSE b
MinOf(a, b) == IF a < b THEN a ELSE b

(* ArduinoMap of FX.h divides first: from s2 it gets to e2 only when v is  *)
(* at e1, and stays at s2 before.                                          *)
ArduinoMap(v, s1, e1, s2, e2) == s2 + (e2 - s2) * ((v - s1) \div (e1 - s1))
=============================================================================
