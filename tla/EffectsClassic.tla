--------------------------- MODULE EffectsClassic ---------------------------
(***************************************************************************)
(* The effects that WS2812FX started with, FX.cpp up to mode_icu.          *)
(***************************************************************************)
EXTENDS EffectFrame

-----------------------------------------------------------------------------
(* blink: aux0 is a parity, turned when the on or off time has passed *)
Blink(r, e) == {Frame(r), Frame([r EXCEPT !.aux0 = 1 - @])}

(* color_wipe: step says whether the next half of the cycle needs a new    *)
(* colour; 1 and 3 are orders, 2 and 0 what they are turned into.          *)
WipeTurn(step, back) ==
    CASE back  /\ step = 0 -> 1
      [] ~back /\ step = 2 -> 3
      [] OTHER             -> step
ColorWipe(r, e, random) ==
    {LET turned  == WipeTurn(r.step, back)
         ordered == IF r.call = 0 THEN 3 ELSE turned
     IN  Frame([r EXCEPT !.step = IF ~random THEN turned
                                  ELSE CASE ordered = 1 -> 2
                                         [] ordered = 3 -> 0
                                         [] OTHER       -> ordered]) : back \in BOOLEAN}

PlainWipe(r, e) == ColorWipe(r, e, FALSE)
RandomWipe(r, e) == ColorWipe(r, e, TRUE)

RandomColor(r, e) == {Frame(r)}

Dynamic(r, e) ==
    WithData(r, e, e.n, LAMBDA a : {[Frame(a) EXCEPT !.touched = e.n]})

Breath(r, e) == {Frame(r)}
Fade(r, e) == {Frame(r)}

(* scan: the dot is size pixels long and ends inside the segment *)
Scan(r, e) ==
    LET size == 1 + (e.intensity * e.n) \div 512
    IN  {LET offset == IF led >= e.n - size THEN led - (e.n - size) ELSE (e.n - size) - led
         IN  [Frame(r) EXCEPT !.slots = {<<offset + size - 1, e.n>>}]
            : led \in 0 .. MaxOf(0, 2 * (e.n - size) - 1)}

Rainbow(r, e) == {Frame(r)}
RainbowCycle(r, e) == {[Frame(r) EXCEPT !.divisors = {e.n}]}

(* theater_chase: aux0 says which of gap pixels is lit *)
TheaterChase(r, e) ==
    LET gap == 2 + (255 - e.intensity) \div 32
    IN  {[Frame([r EXCEPT !.aux0 = a]) EXCEPT !.slots = {<<a, gap>>}]
            : a \in {r.aux0, (r.aux0 + 1) % gap}}

RunningBase(r, e) == {Frame(r)}

(* twinkle: aux0 pixels are lit, up to maxOn *)
Twinkle(r, e) ==
    LET maxOn == ArduinoMap(e.intensity, 0, 255, 1, e.n)
        next  == IF r.aux0 >= maxOn THEN 1 ELSE r.aux0 + 1
    IN  {[Frame([r EXCEPT !.aux0 = a]) EXCEPT !.slots = {<<a, maxOn + 1>>}]
            : a \in {r.aux0, next}}

(* dissolve: turns aux0 and starts to count calls again after some time *)
Dissolve(r, e) ==
    {Frame(r)} \cup
    (IF r.call < 2 THEN {} ELSE {Frame([r EXCEPT !.aux0 = 1 - @, !.call = 0])})

Sparkle(r, e) ==
    {[Frame([r EXCEPT !.aux0 = a]) EXCEPT !.slots = {<<a, e.n>>}]
        : a \in {r.aux0} \cup Pixels(e)}

FlashSparkle(r, e) ==
    {[Frame([r EXCEPT !.aux0 = a]) EXCEPT !.slots = {<<a, e.n>>}, !.delay = 20]
        : a \in Pixels(e)}
    \cup {[Frame(r) EXCEPT !.delay = 20 + (255 - e.speed)]}

HyperSparkle(r, e) == {[Frame(r) EXCEPT !.delay = d] : d \in {20, 20 + (255 - e.speed)}}

(* multi_strobe: step counts the flashes, even ones are lit *)
MultiStrobe(r, e) ==
    LET count == 2 * (e.speed \div 10 + 1)
    IN  {[Frame([r EXCEPT !.step = (@ + 1) % (count + 1)]) EXCEPT
            !.delay = IF r.step >= count THEN 50 + 20 * (255 - e.speed)
                      ELSE IF r.step % 2 = 0 THEN 20 ELSE 50]}

(* mode_android: a section that grows (aux0 = 0) and shrinks (aux0 = 1) by *)
(* aux1 pixels while it moves on from step                                 *)
Android(r, e) ==
    LET turned == IF 255 * r.aux1 > e.intensity * e.n THEN 1
                  ELSE IF r.aux1 < 2 THEN 0 ELSE r.aux0
    IN  {LET grows == turned = 0 /\ phase # 1
             moves == turned # 0 \/ phase = 1
             aux1  == IF grows THEN r.aux1 + 1
                      ELSE IF turned # 0 /\ phase # 1 THEN r.aux1 - 1 ELSE r.aux1
             a     == IF moves THEN r.step + 1 ELSE r.step
             start == IF a >= e.n THEN 0 ELSE a
         IN  [Frame([r EXCEPT !.aux0 = turned, !.aux1 = aux1, !.step = start]) EXCEPT
                !.divisors = {e.n},
                !.slots = {<<aux1, e.n + 2>>, <<start, e.n>>},
                !.delay = 3 + (8 * (255 - e.speed)) \div e.n] : phase \in CallMod(r, 3)}

(* chase: two stretches of size pixels from the head at step, wrapped *)
Chase(r, e) ==
    LET size == (1 + (e.intensity * e.n) \div 1024) % 256
        Wrapped(i) == IF i > e.n THEN i - e.n ELSE i
    IN  {LET b == Wrapped(a + size)
             c == Wrapped(b + size)
         IN  [Frame([r EXCEPT !.step = a]) EXCEPT !.slots = {<<b, e.n + 1>>, <<c, e.n + 1>>}]
            : a \in Pixels(e)}
ChaseRainbow(r, e) == {[f EXCEPT !.divisors = {e.n}] : f \in Chase(r, e)}

(* mode_colorful: seven colours, of which four from aux0 on are shown *)
Colorful(r, e) ==
    LET next == IF e.speed > 0 THEN r.aux0 + 1 ELSE r.aux0
    IN  {[Frame([r EXCEPT !.aux0 = a]) EXCEPT !.slots = {<<a + MinOf(e.n - 1, 3), 7>>}]
            : a \in {r.aux0, IF next > 3 THEN 0 ELSE next}}

(* mode_traffic_light: aux0 is the phase of the lights *)
TrafficLight(r, e) ==
    LET up   == r.aux0 + 1
        skip == IF up = 1 /\ e.intensity > 140 THEN 2 ELSE up
    IN  {[Frame([r EXCEPT !.aux0 = a]) EXCEPT !.slots = {<<a, 4>>}]
            : a \in {r.aux0, IF skip > 3 THEN 0 ELSE skip}}

(* mode_chase_flash, mode_chase_flash_random: eight flashes, then a step;  *)
(* the random one waits less and keeps its trail in a new colour           *)
ChaseFlash(r, e, base, per) ==
    {LET moves == flash = 8
         step  == IF moves THEN (r.step + 1) % e.n ELSE r.step
     IN  [Frame([r EXCEPT !.step = step]) EXCEPT
            !.divisors = {e.n},
            !.slots = {<<r.step, e.n>>},
            !.delay = IF moves THEN base + (per * (255 - e.speed)) \div e.n
                      ELSE IF flash % 2 = 0 THEN 20 ELSE 30] : flash \in CallMod(r, 9)}
PlainChaseFlash(r, e) == ChaseFlash(r, e, 10, 30)
RandomChaseFlash(r, e) == ChaseFlash(r, e, 1, 10)

(* running: stripes of pxw pixels, shifted by aux0 *)
Running(r, e) ==
    LET pxw == 1 + e.intensity \div 32
    IN  {[Frame([r EXCEPT !.aux0 = a]) EXCEPT !.slots = {<<a, 2 * pxw>>}]
            : a \in {r.aux0, (r.aux0 + 1) % (2 * pxw)}}

(* mode_running_random: a new colour enters whenever step is back at 0 *)
RunningRandom(r, e) ==
    {Frame(r), Frame([r EXCEPT !.step = IF @ + 1 > (255 - e.intensity) \div 16 THEN 0 ELSE @ + 1])}

(* larson_scanner: step is the pixel reached, aux0 the direction *)
Larson(r, e) ==
    {[Frame([r EXCEPT !.step = index,
                      !.aux0 = IF r.step > index /\ r.step - index > e.n \div 2 THEN 1 - @ ELSE @])
        EXCEPT !.slots = {<<r.step, e.n>>}] : index \in Pixels(e)}

Comet(r, e) == {[Frame([r EXCEPT !.aux0 = index]) EXCEPT !.slots = {<<r.aux0, e.n>>}]
                    : index \in Pixels(e)}

(* mode_fireworks: aux0 and aux1 are the pixels of the last two sparks, or *)
(* NoPixel; they keep their colours while the others are blurred           *)
NoPixel == 65535
FireworksFrame(r, e, s) ==
    [Frame([r EXCEPT !.aux0 = s[1], !.aux1 = s[2]]) EXCEPT
        !.slots = {<<(i + 1) % 65536, e.n + 1>> : i \in {s[1], s[2]}}]
Fireworks(r, e) ==
    LET a0 == IF r.call = 0 THEN NoPixel ELSE r.aux0
        a1 == IF r.call = 0 THEN NoPixel ELSE r.aux1
        Sparks == {<<a0, a1>>} \cup (Pixels(e) \X {a0})
                  \cup (IF e.n \div 20 > 1 THEN Pixels(e) \X Pixels(e) ELSE {})
    IN  {FireworksFrame(r, e, s) : s \in Sparks}

(* mode_rain: fireworks that move on by a pixel when step, a time, is up;  *)
(* what has no pixel should stay so, but it is aux0 that is written when   *)
(* aux1 runs over                                                          *)
Rain(r, e) ==
    LET a0 == (r.aux0 + 1) % 65536
        a1 == (r.aux1 + 1) % 65536
        kept == IF a0 = 0 \/ a1 = 0 THEN NoPixel ELSE a0
        AtEnd(a) == IF a = e.n THEN 0 ELSE a
        moved == [r EXCEPT !.aux0 = AtEnd(kept), !.aux1 = AtEnd(a1)]
    IN  UNION {Fireworks(q, e) : q \in {r, moved}}

FireFlicker(r, e) == {[Frame(r) EXCEPT !.divisors = {(256 - e.intensity) \div 16 + 1}]}
GradientBase(r, e) == {Frame(r)}

(* police_base: the head idexR runs around the segment, idexB half a       *)
(* segment away from it, and aux0 is where the head was.  Between the two  *)
(* frames the head may have come to any pixel.  A loop with an 8-bit       *)
(* counter paints gap pixels backwards from both: whichever passes the     *)
(* first pixel is moved one length up, so that aux0 may be beyond the end  *)
(* of the segment.  With a gap of 255 the loop never ends: no frame.       *)
HeadWas(r, head) == IF r.call = 0 THEN head ELSE r.aux0
Gap(r, e, head) ==
    LET was == HeadWas(r, head)
    IN  (IF was < head THEN head - was ELSE e.n - was + head) % 256
PoliceReturns(r, e, head) == HeadWas(r, head) = head \/ Gap(r, e, head) < 255
MovedUp(e, from, gap) ==
    IF gap <= from THEN from ELSE from + e.n * ((gap - from + e.n - 1) \div e.n)

(* The dots are size + 1 pixels long; the last pixels of the two trails    *)
(* show whether they have kept to the segment.                             *)
DotSlots(r, e, head) ==
    LET half == e.n \div 2
        blue == IF head > half THEN head - half ELSE IF head + half < e.n THEN head + half ELSE 0
        size == IF (1 + e.intensity) \div 8 > half THEN 1 + half ELSE (1 + e.intensity) \div 8
        gap  == Gap(r, e, head)
        Ends == IF HeadWas(r, head) = head THEN {} ELSE {MovedUp(e, head, gap), MovedUp(e, blue, gap)}
    IN  {<<size, 255>>, <<head + size, e.n>>, <<blue + size, e.n>>}
        \cup {<<x, 65536>> : x \in Ends} \cup {<<x - gap, e.n>> : x \in Ends}
PoliceDots(r, e) ==
    {[Frame([r EXCEPT !.aux0 = IF HeadWas(r, head) = head THEN head ELSE MovedUp(e, head, Gap(r, e, head))])
        EXCEPT !.slots = DotSlots(r, e, head)]
        : head \in {h \in 0 .. e.n - 1 : PoliceReturns(r, e, h)}}
PoliceAll(r, e) == IF r.call = 0 THEN {Frame([r EXCEPT !.aux0 = i]) : i \in Pixels(e)}
                                 ELSE {Frame(r)}

(* tricolor_chase: index counts through the three stripes *)
TricolorChase(r, e) ==
    LET width == (1 + e.intensity \div 32) * 3
    IN  {[Frame(r) EXCEPT !.divisors = {width}]}

(* mode_icu: two eyes, one at step, on their way to aux0 *)
IcuApart(e) == e.n \div (e.intensity \div 8 + 2)
IcuFrame(r, e, step, aux0, divisors, delay) ==
    [Frame([r EXCEPT !.step = step, !.aux0 = aux0]) EXCEPT
        !.divisors = {e.n - IcuApart(e)} \cup divisors,
        !.slots = {<<r.step + IcuApart(e), e.n>>},
        !.delay = delay]
Icu(r, e) ==
    LET next == IF r.aux0 > r.step THEN r.step + 1 ELSE r.step - 1
    IN  IF r.aux0 # r.step
        THEN {IcuFrame(r, e, next, r.aux0, {e.n}, SpeedFormula(e))}
        ELSE {IcuFrame(r, e, r.step, r.aux0, {}, 200)} \cup
             {IcuFrame(r, e, r.step, a, {}, d) : a \in 0 .. e.n - IcuApart(e) - 1, d \in {1000, 2999}}
=============================================================================
