--------------------------- MODULE EffectsFastLed ---------------------------
(***************************************************************************)
(* The effects of FX.cpp that were added after the first ones, many of     *)
(* them from the examples of FastLED: mode_tricolor_wipe to twinklefox.    *)
(***************************************************************************)
EXTENDS EffectFrame

-----------------------------------------------------------------------------
(* mode_tricolor_wipe: led runs through three lengths, one for each colour *)
TricolorWipe(r, e) == {[Frame(r) EXCEPT !.slots = {<<led % e.n, e.n>>}] : led \in {0, e.n - 1, e.n, 2 * e.n, 3 * e.n - 1}}

TricolorFade(r, e) == {Frame(r)}

(* mode_multi_comet: eight positions of 16 bits; nothing to do before the  *)
(* next cycle                                                              *)
MultiComet(r, e) ==
    {Frame(r)} \cup WithData(r, e, 16, LAMBDA a : {[Frame(a) EXCEPT !.touched = 16]})

RandomChase(r, e) == {Frame(r)}

(* mode_oscillate: three oscillators of six bytes; r.mem follows any one   *)
(* of them.  Its position is an unsigned number of 16 bits, so that the    *)
(* test for positions below zero only finds zero itself: with steps of two *)
(* and three it may run over to 65535, and comes down from there.  All     *)
(* positions beyond the strip are taken for one, e.n.                      *)
Moved(o, e) ==
    CASE o.dir = 0 -> {o}
      [] o.dir = 1 -> {[o EXCEPT !.pos = MinOf(@ + o.speed, e.n)]}
      [] o.dir = -1 /\ o.pos < e.n ->
            {[o EXCEPT !.pos = IF o.pos >= o.speed THEN @ - o.speed ELSE e.n]}
      [] OTHER -> {[o EXCEPT !.pos = p] : p \in {p \in e.n - o.speed .. e.n : p >= 0}}
Turned(o, e) ==
    LET Paces == IF e.speed > 100 THEN {2, 3} ELSE {1, 2}
        Up(p)   == IF p.dir = -1 /\ p.pos = 0
                   THEN {[pos |-> 0, dir |-> 1, speed |-> s] : s \in Paces} ELSE {p}
        Down(p) == IF p.dir = 1 /\ p.pos >= e.n - 1
                   THEN {[pos |-> e.n - 1, dir |-> -1, speed |-> s] : s \in Paces} ELSE {p}
    IN  UNION {Down(p) : p \in Up(o)}
Oscillators(e) ==
    {[pos |-> e.n \div 4, dir |-> 1, speed |-> 1],
     [pos |-> (e.n \div 4) * 3, dir |-> 1, speed |-> 2],
     [pos |-> (e.n \div 4) * 2, dir |-> -1, speed |-> 1]}
Zeroed == [pos |-> 0, dir |-> 0, speed |-> 0]
Oscillate(r, e) ==
    LET Swing(a) ==
            LET before == IF a.call = 0 THEN Oscillators(e)
                          ELSE IF a.mem = <<>> THEN {Zeroed} ELSE {a.mem}
                moved  == before \cup UNION {Moved(o, e) : o \in before}
            IN  {[Frame([a EXCEPT !.mem = o]) EXCEPT !.touched = 18, !.divisors = {3 + e.intensity \div 8}]
                    : o \in UNION {Turned(m, e) : m \in moved}}
    IN  WithData(r, e, 18, Swing)

(* mode_lightning: step counts the flashes of a strike, aux0 of them, and  *)
(* aux1 says whether the next frame is lit.  Where a flash starts and how  *)
(* long it is are random: shortest and longest ones, at either end.        *)
Flashes(e) == {<<0, 1>>, <<0, e.n>>, <<e.n - 1, 1>>}
Lit(r, e, count, start, len) ==
    [Frame([r EXCEPT !.aux0 = count, !.aux1 = 0, !.step = @ + 1]) EXCEPT
        !.slots = {<<start + len - 1, e.n>>}, !.delay = 9]
Dark(r, step, wait) == [Frame([r EXCEPT !.aux1 = 1, !.step = step]) EXCEPT !.delay = wait]
Lightning(r, e) ==
    LET Counts == IF r.step # 0 THEN {r.aux0} ELSE {3} \cup 3 .. 2 + e.intensity \div 20
    IN  IF r.step = 0 \/ r.aux1 # 0
        THEN {Lit(r, e, c, s[1], s[2]) : c \in Counts, s \in Flashes(e)}
        ELSE IF r.step = 1 THEN {Dark(r, 1, 200)}
        ELSE IF r.step <= r.aux0 THEN {Dark(r, r.step, d) : d \in {50, 149}}
        ELSE {Dark(r, 0, d) : d \in {0, MaxOf(0, 254 - e.speed) * 100}}

(* mode_pride_2015: step and aux0 are phases of colour waves *)
Pride2015(r, e) == {Frame(r)}

(* mode_juggle: eight dots that swing between the ends of the segment *)
Juggle(r, e) == {[Frame(r) EXCEPT !.slots = {<<index, e.n>>}] : index \in {0, e.n - 1}}

Palette(r, e) == {[Frame(r) EXCEPT !.divisors = {e.n}]}

(* mode_fire_2012: a byte of heat for every pixel; heat drifts up from the *)
(* two pixels below, and a spark may fall on the first seven               *)
Fire2012(r, e) ==
    LET Burn(a) ==
            {[Frame(a) EXCEPT !.touched = e.n, !.divisors = {e.n},
                !.slots = {<<k - 2, e.n>> : k \in 2 .. e.n - 1} \cup sparks] :
                    sparks \in {{}} \cup {{<<y, e.n>>} : y \in {y \in 0 .. 6 : y < e.n}}}
    IN  WithData(r, e, e.n, Burn)

(* Waves and noise: what they keep in step and aux0 are phases             *)
Colorwaves(r, e) == {Frame(r)}
Bpm(r, e) == {Frame(r)}
FillNoise8(r, e) == {Frame(r)}
Noise16One(r, e) == {Frame(r)}
Noise16Two(r, e) == {Frame(r)}
Noise16Three(r, e) == {Frame(r)}
Noise16Four(r, e) == {Frame(r)}
Lake(r, e) == {Frame(r)}

(* mode_colortwinkle: one bit for every pixel *)
ColorTwinkle(r, e) ==
    LET Bits(a) == {[Frame(a) EXCEPT !.touched = ((e.n - 1) \div 8) + 1]}
    IN  WithData(r, e, (e.n + 7) \div 8, Bits)

(* mode_meteor and mode_meteor_smooth: the head is a tenth of the segment  *)
(* and wraps at its end.  ArduinoMap leaves the smooth one at the first    *)
(* pixel but for one step in 256, at the last.                             *)
MeteorPast(a, e, in) ==
    [Frame(a) EXCEPT !.touched = e.n,
        !.slots = {<<in + j, e.n>> : j \in 0 .. ((1 + e.n \div 10) % 256) - 1}]
MeteorAt(a, e, in) ==
    LET Wrapped(i) == IF i >= e.n THEN i - e.n ELSE i
    IN  [Frame(a) EXCEPT !.touched = e.n,
            !.slots = {<<Wrapped(in + j), e.n>> : j \in 0 .. ((1 + e.n \div 10) % 256) - 1}]
Meteor(r, e) ==
    LET Burn(a) == {MeteorAt(a, e, in) : in \in Pixels(e)}
    IN  WithData(r, e, e.n, Burn)
MeteorSmooth(r, e) ==
    LET Burn(a) == {MeteorAt(a, e, ArduinoMap(t, 0, 255, 0, e.n - 1)) : t \in {0, 254, 255}}
    IN  WithData(r, e, e.n, Burn)

(* mode_railway: every second pixel, and the one after it if there is one *)
Railway(r, e) ==
    LET dur == 40 + (255 - e.speed) * 10
        rampdur == (dur * e.intensity) \div 256
    IN  {[Frame(r) EXCEPT
            !.divisors = IF rampdur = 0 THEN {} ELSE {rampdur},
            !.slots = {<<i + 1, e.n>> : i \in {i \in 0 .. e.n - 1 : i % 2 = 0 /\ i < e.n - 1}}]}

(* ripple_base: at most a hundred ripples of four bytes; r.mem follows any *)
(* one.  A ripple is drawn by two fronts of four pixels, of which those on *)
(* the segment are painted.  With a speed of 16 or more the first frame of *)
(* a ripple has a propagation below zero, which is 254 pixels in 16 bits.  *)
RippleFronts(o, e) ==
    LET decay == (e.speed \div 16) + 1
        propI == ((((o.state \div decay) - 1) * e.speed) % 65536) \div 256
        left  == o.pos - propI - 1
        Front == UNION {{v, left + 2 * propI + 3 - (v - left)} : v \in left .. left + 3}
    IN  {v \in Front : v < e.n /\ v >= 0}
Ripple(r, e) ==
    LET maxRipples == MinOf(1 + e.n \div 4, 100)
        decay == (e.speed \div 16) + 1
        Drawn(a, o) == [Frame([a EXCEPT !.mem = o]) EXCEPT !.touched = 4 * maxRipples]
        Spread(a) ==
            IF a.mem = <<>>
            THEN {Drawn(a, <<>>)} \cup {Drawn(a, [state |-> 1, pos |-> p]) : p \in {0, e.n - 1}}
            ELSE LET state == a.mem.state + decay
                 IN  {[Drawn(a, IF state > 254 THEN <<>> ELSE [a.mem EXCEPT !.state = state])
                        EXCEPT !.slots = {<<v, e.n>> : v \in RippleFronts(a.mem, e)},
                               !.divisors = {decay}]}
    IN  WithData(r, e, 4 * maxRipples, Spread)

(* twinklefox_base: aux0 is the period of a twinkle, and every pixel's     *)
(* clock is divided by it                                                  *)
TwinkleFox(r, e) ==
    LET period == IF e.speed > 100 THEN 3 + (255 - e.speed) \div 8 ELSE 22 + (100 - e.speed) \div 2
    IN  {[Frame([r EXCEPT !.aux0 = period]) EXCEPT !.divisors = {period}]}
=============================================================================
