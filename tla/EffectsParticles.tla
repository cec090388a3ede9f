-------------------------- MODULE EffectsParticles --------------------------
(***************************************************************************)
(* The last effects of FX.cpp, mode_halloween_eyes to                      *)
(* mode_dancing_shadows.  Most of them keep an array of particles in the   *)
(* data of the segment; r.mem follows any one of them, its place rounded   *)
(* down to a pixel.                                                        *)
(***************************************************************************)
EXTENDS EffectFrame

SizeofBall == 12
SizeofSpark == 12
SizeofStar == 68
SizeofPalette == 48
SizeofSpotlight == 16

-----------------------------------------------------------------------------
(* mode_halloween_eyes: aux1 holds the state in its high byte, here alone: *)
(* 0 to spawn, 1 shown, 2 off.  call is not counted but holds the time of  *)
(* the state, 0 standing for 2000.                                         *)
EyeLength == 5
EyesState(r) == IF r.aux1 = 0 THEN 1 ELSE r.aux1
EyesFrame(r, e, place, state, time) ==
    [Frame([r EXCEPT !.aux0 = place, !.aux1 = state, !.call = time]) EXCEPT
        !.slots = IF EyesState(r) < 2 THEN {<<place, e.n>>, <<place + 4, e.n>>} ELSE {},
        !.divisors = {IF r.call = 0 THEN 2000 ELSE r.call}]
HalloweenEyes(r, e) ==
    LET Spawns == IF r.aux1 = 0 THEN 0 .. MaxOf(0, e.n - EyeLength - 1) ELSE {r.aux0}
        next   == (EyesState(r) + 1) % 3
        Times  == IF next < 2 THEN {100 + (255 - e.intensity) * 10}
                  ELSE {(255 - e.speed) * 10, MaxOf((255 - e.speed) * 20 - 1, 0)}
    IN  IF EyeLength > e.n THEN Static(r)
        ELSE {EyesFrame(r, e, p, EyesState(r), r.call) : p \in Spawns} \cup
             {EyesFrame(r, e, p, next, time) : p \in Spawns, time \in Times}

StaticPattern(r, e) == {Frame(r)}
TriStaticPattern(r, e) == {Frame(r)}

(* spots_base, and mode_flow's zones: the segment is cut in zones of equal *)
(* length around its middle.  They divide by the length only inside a zone.*)
ZonesFrame(r, e, zones) ==
    LET zoneLen == e.n \div zones
        offset  == (e.n - zones * zoneLen) \div 2
    IN  [Frame(r) EXCEPT !.divisors = {zones},
            !.slots = IF zoneLen = 0 THEN {}
                      ELSE {<<offset, e.n>>, <<offset + zones * zoneLen - 1, e.n>>}]
Spots(r, e) == {ZonesFrame(r, e, ((e.intensity * (e.n \div 4)) \div 256) + 1)}
Flow(r, e) ==
    LET asked == (e.intensity * (e.n \div 6)) \div 256
    IN  {ZonesFrame(r, e, MaxOf(2, asked + (asked % 2)))}

(* mode_bouncing_balls: room for sixteen balls; how high they fly depends  *)
(* on the clock                                                            *)
BouncingBalls(r, e) ==
    LET numBalls == ((e.intensity * 152) \div 2550) + 1
        Bounce(a) == {[Frame(a) EXCEPT !.touched = SizeofBall * (IF a.call = 0 THEN 16 ELSE numBalls),
                            !.divisors = {((255 - e.speed) * 8) \div 256 + 1, numBalls}]}
    IN  WithData(r, e, SizeofBall * 16, Bounce)

(* sinelon_base: the dot paints what it passed since the last frame, from  *)
(* aux0 to pos, and the same from the other end                            *)
Sinelon(r, e) ==
    {LET from == IF r.call = 0 THEN pos ELSE r.aux0
     IN  [Frame([r EXCEPT !.aux0 = pos]) EXCEPT
            !.slots = {<<i, e.n>> : i \in {from, pos, e.n - 1 - from, e.n - 1 - pos}}]
        : pos \in {0, e.n \div 2, e.n - 1}}

(* mode_glitter, after mode_palette, and mode_solid_glitter *)
Glitter(r, e) == {[Frame(r) EXCEPT !.divisors = {e.n}]}
SolidGlitter(r, e) == {Frame(r)}

(* mode_popcorn: at least one kernel, at most the 24 there is room for *)
Popcorn(r, e) ==
    LET numPopcorn == MaxOf(1, (e.intensity * 24) \div 255)
    IN  WithData(r, e, SizeofSpark * 24,
                 LAMBDA a : {[Frame(a) EXCEPT !.touched = SizeofSpark * numPopcorn]})

(* candle: the first candle lives in aux0, aux1 and step, each of the      *)
(* others in three bytes of data; without data there is only the first.    *)
Candle(r, e) == {Frame(r)}
CandleMulti(r, e) ==
    UNION {IF a.data = 0 THEN Candle(a, e)
           ELSE {[Frame(a) EXCEPT !.touched = (e.n - 2) * 3 + 3]}
             : a \in AllocateData(r, e, (e.n - 1) * 3)}

(* mode_starburst: each star has twelve fragments; a fragment is drawn     *)
(* from start to end, cut to the segment                                   *)
StarStart(loc, size) == MaxOf(loc - size, 0)
StarEnd(e, loc, size) ==
    MinOf(e.n, IF StarStart(loc, size) = loc + size THEN loc + size + 1 ELSE loc + size)
NumStars(e) == MinOf(1 + e.n \div 8, 15)
StarsFrame(r, e, loc, size, num) ==
    [Frame(r) EXCEPT !.touched = SizeofStar * NumStars(e),
        !.slots = {<<p, e.n>> : p \in StarStart(loc, size) .. StarEnd(e, loc, size) - 1}
                    \cup {<<num, 12 + 1>>}]
StarsFrames(r, e) ==
    {StarsFrame(r, e, loc, size, num) : loc \in {-2, 0, e.n - 2, e.n, e.n + 1}, size \in {0, 2},
                                        num \in {3, 5 + e.intensity \div 32}}
Starburst(r, e) == WithData(r, e, SizeofStar * NumStars(e), LAMBDA a : StarsFrames(a, e))

(* mode_exploding_fireworks: aux0 is 0 before the flare, 1 while it rises, *)
(* 2 when it is ready to explode, 3 while the sparks fall, and else counts *)
(* down to the next flare.  r.mem holds where the flare is and the colour  *)
(* of the first spark, that the others are waited for with.                *)
Grounded == [flare |-> 0, col |-> 0]
IgnitedAlone(phase, mem, nSparks) == IF phase = 2 THEN 345 ELSE mem.col
Ignited(phase, mem, nSparks) == IF phase = 2 /\ nSparks > 1 THEN 345 ELSE mem.col
RocketFrame(r, phase, mem, touched) ==
    [Frame([r EXCEPT !.aux0 = phase, !.mem = mem]) EXCEPT !.touched = SizeofSpark * touched]
ExplodingFireworks(r, e) ==
    LET numSparks == MinOf(2 + e.n \div 2, 80)
        Explode(a) ==
            LET mem     == IF a.mem = <<>> THEN Grounded ELSE a.mem
                nSparks == MinOf(mem.flare, numSparks)
                col     == Ignited(a.aux0, mem, nSparks)
                faded   == IF nSparks > 1 /\ col > 3 THEN col - 4 ELSE col
            IN  CASE a.aux0 < 2 ->
                       {RocketFrame(a, 1, [mem EXCEPT !.flare = p], 1) : p \in {0, 1, e.n - 1} \cap 0 .. e.n - 1}
                       \cup {RocketFrame(a, 2, mem, 1)}
                  [] a.aux0 \in {2, 3} /\ col > 4 ->
                       {RocketFrame(a, 3, [mem EXCEPT !.col = faded], MaxOf(2, nSparks))}
                  [] a.aux0 \in {2, 3} /\ col <= 4 ->
                       {RocketFrame(a, wait, [mem EXCEPT !.col = col], MaxOf(2, nSparks)) : wait \in {6, 15}}
                  [] OTHER ->
                       {RocketFrame(a, IF a.aux0 - 1 < 4 THEN 0 ELSE a.aux0 - 1, mem, 0)}
    IN  WithData(r, e, SizeofSpark * numSparks, Explode)

(* mode_drip: room for four drops, at most one of them at a bounce.  The   *)
(* state of a drop is 1 forming, 2 falling, 5 bouncing.  Above a drop that *)
(* falls one to four more pixels are painted, also beyond the segment,     *)
(* where setPixelColor drops them.  How high it bounces depends on the     *)
(* speeds it fell and rises at: less than half the way.                    *)
NewDrop(e) == [state |-> 1, pos |-> e.n - 1]
Fall(d, e) ==
    CASE d.pos > 0 -> {[d EXCEPT !.pos = p] : p \in {0, d.pos}}
      [] d.pos = 0 /\ d.state = 2 -> {[state |-> 5, pos |-> p] : p \in {0, e.n \div 2}}
      [] d.pos = 0 /\ d.state = 5 -> {<<>>}
Drops(d, e) == IF d.state = 1 THEN {d} \cup Fall([d EXCEPT !.state = 2], e) ELSE Fall(d, e)
DropFrame(r, e, d) ==
    [Frame([r EXCEPT !.mem = d]) EXCEPT !.touched = SizeofSpark * (1 + e.intensity \div 64),
        !.slots = IF d = <<>> THEN {}
                  ELSE {<<d.pos, e.n>>} \cup
                       {<<d.pos + i, 65536>> : i \in IF d.state = 1 THEN {} ELSE 1 .. 6 - d.state}]
Drip(r, e) ==
    WithData(r, e, SizeofSpark * 4,
             LAMBDA a : {DropFrame(a, e, d) : d \in Drops(IF a.mem = <<>> THEN NewDrop(e) ELSE a.mem, e)})

Plasma(r, e) == {Frame(r)}

(* mode_percent: step pixels are lit, and step goes to active_leds by size *)
Percent(r, e) ==
    LET percent == MinOf(200, e.intensity)
        active  == (e.n * (IF percent < 100 THEN percent ELSE 200 - percent)) \div 100
        size    == IF e.speed = 255 THEN 255 ELSE (1 + (e.speed * e.n) \div 2048) % 256
        step    == IF active > r.step THEN MinOf(r.step + size, active)
                   ELSE MaxOf(r.step - size, active)
    IN  {[Frame([r EXCEPT !.step = step]) EXCEPT !.slots = {<<r.step, e.n + 1>>}]}

(* mode_heartbeat: aux0 says whether the second beat has come *)
Heartbeat(r, e) ==
    {[Frame([r EXCEPT !.aux0 = b]) EXCEPT !.divisors = {40 + e.speed \div 16, 2048 + e.intensity}]
        : b \in {r.aux0, 1, 0}}

Pacifica(r, e) == {Frame(r)}

(* mode_sunrise: aux0 is the speed the sun was started with *)
Sunrise(r, e) ==
    LET durMins == IF e.speed > 60 THEN e.speed - 60 ELSE e.speed
    IN  {[Frame([r EXCEPT !.aux0 = e.speed]) EXCEPT
            !.divisors = {e.n} \cup (IF e.speed \in 1 .. 120 THEN {durMins * 600} ELSE {}),
            !.slots = {<<e.n \div 2, e.n>>, <<e.n - e.n \div 2 - 1, e.n>>}]}

Phased(r, e) == {[Frame(r) EXCEPT !.divisors = {e.n}]}

TwinkleUp(r, e) == {[Frame(r) EXCEPT !.divisors = {256 - e.speed}]}

NoisePal(r, e) ==
    WithData(r, e, SizeofPalette * 2, LAMBDA a : {[Frame(a) EXCEPT !.touched = SizeofPalette * 2]})

Sinewave(r, e) == {Frame(r)}

(* mode_chunchun: a bird for every four pixels, none on the shortest ones *)
Chunchun(r, e) ==
    LET numBirds == e.n \div 4
    IN  {[Frame(r) EXCEPT !.divisors = IF numBirds = 0 THEN {} ELSE {numBirds},
            !.slots = {<<(megumin * e.n) \div 65536, e.n>>}] : megumin \in {0, 65535}}

(* mode_dancing_shadows: whether the spotlights are to be set up is        *)
(* decided before the data is there for them; r.mem says if they have been.*)
DancingShadows(r, e) ==
    LET numSpotlights == ArduinoMap(e.intensity, 0, 255, 2, 50)
        initialize    == r.aux0 # numSpotlights
        Dance(a) == {[Frame([a EXCEPT !.mem = IF initialize THEN [width |-> w] ELSE @]) EXCEPT
                        !.touched = SizeofSpotlight * numSpotlights,
                        !.divisors = IF initialize /\ w > 1 THEN {w - 1} ELSE {}] : w \in {1, 9}}
    IN  WithData([r EXCEPT !.aux0 = numSpotlights], e, SizeofSpotlight * numSpotlights, Dance)
=============================================================================
