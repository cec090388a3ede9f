---------------------------- MODULE StripProofs ----------------------------
(***************************************************************************)
(* What module Strip checks on some lengths, proved of every length, every *)
(* speed and every history of frames, failed allocations and orders,       *)
(* whatever the clock does: no effect leaves its data, its tables or the   *)
(* range of its integers, and the bytes in use are counted right.  Each    *)
(* effect has a lemma: the frames it makes are Good, provided that the     *)
(* counters it finds are those it may have left (CountersKept), and it     *)
(* leaves such counters again.                                             *)
(***************************************************************************)
EXTENDS MCStrip, TLAPS

-----------------------------------------------------------------------------
(* A runtime as any effect may find it                                     *)
Runtime(r) ==
    /\ r = [call |-> r.call, step |-> r.step, aux0 |-> r.aux0, aux1 |-> r.aux1,
            data |-> r.data, mem |-> r.mem]
    /\ r.call \in Nat
    /\ r.data \in Nat

(* Where the effects run in this firmware: the intensity is never set      *)
Surroundings(e) ==
    /\ e.n \in Nat /\ e.n > 0 /\ e.n <= 32767
    /\ e.speed \in Nat /\ e.speed <= 255
    /\ e.intensity = 0
    /\ e.free \in Nat

(* A frame that touches no more data than it has, has not got more data    *)
(* than there was, divides by nothing but positive numbers, uses no index  *)
(* beyond its table and does not wait for more than half a minute          *)
Good(f, r, e) ==
    /\ Runtime(f.rt) /\ f.rt.data \in {r.data} \cup 0 .. e.free
    /\ f.touched <= f.rt.data
    /\ \A d \in f.divisors : d > 0
    /\ \A s \in f.slots : s[1] >= 0 /\ s[1] < s[2]
    /\ f.delay \in Nat /\ f.delay <= 30000

-----------------------------------------------------------------------------
(* Facts about numbers and about frames in general                         *)

(* The usual time between two frames                                       *)
LEMMA FrameTime == FRAMETIME = 23
  BY DEF FRAMETIME

(* Dividing does not make a number larger.                                 *)
LEMMA Quotient ==
    ASSUME NEW a \in Nat, NEW n \in Nat \ {0}
    PROVE  a \div n \in Nat /\ a \div n <= a
  OBVIOUS

(* What indexes with a remainder stays below the divisor.                  *)
LEMMA Remainder ==
    ASSUME NEW a \in Nat, NEW n \in Nat \ {0}
    PROVE  a % n \in 0 .. n - 1
  OBVIOUS

(* A clock or a random number selects a pixel of the strip.                *)
LEMMA PixelsOnStrip ==
    ASSUME NEW e, e.n \in Nat \ {0}
    PROVE  Pixels(e) \subseteq 0 .. e.n - 1
  BY DEF Pixels

(* The data of a runtime is a number of bytes.                             *)
LEMMA DataCounted ==
    ASSUME NEW r, Runtime(r)
    PROVE  r.data \in Nat
  BY DEF Runtime

(* A frame that only changes counters is good.                             *)
LEMMA PlainGood ==
    ASSUME NEW r, Runtime(r), NEW e, NEW q, Runtime(q), q.data = r.data
    PROVE  Good(Frame(q), r, e)
  BY FrameTime DEF Frame, Runtime, Good

(* mode_static, where every effect ends without its data                   *)
LEMMA StaticGood ==
    ASSUME NEW r, Runtime(r), NEW e, NEW f \in Static(r)
    PROVE  Good(f, r, e) /\ f.rt = r
  BY DEF Static, Frame, Runtime, Good

-----------------------------------------------------------------------------
(* The effects of EffectsClassic                                           *)

(* blink: strobes and blinking, whatever parity they find                  *)
LEMMA BlinkGood ==
    ASSUME NEW r, Runtime(r), NEW e, NEW f \in Blink(r, e)
    PROVE  Good(f, r, e)
  BY FrameTime DEF Blink, Frame, Runtime, Good

(* color_wipe                                                              *)
LEMMA ColorWipeGood ==
    ASSUME NEW r, Runtime(r), NEW e, NEW random \in BOOLEAN, NEW f \in ColorWipe(r, e, random)
    PROVE  Good(f, r, e)
  <1>1. PICK step : f = Frame([r EXCEPT !.step = step])
    BY DEF ColorWipe
  <1>2. QED
    BY <1>1, FrameTime DEF Frame, Runtime, Good

(* scan: the dot is inside the segment on its way to and fro.              *)
LEMMA ScanGood ==
    ASSUME NEW r, Runtime(r), NEW e, Surroundings(e), NEW f \in Scan(r, e)
    PROVE  Good(f, r, e)
  <1>1. 1 + (e.intensity * e.n) \div 512 = 1
    BY DEF Surroundings
  <1>2. PICK led \in 0 .. MaxOf(0, 2 * (e.n - 1) - 1) :
          f = [Frame(r) EXCEPT
                 !.slots = {<<(IF led >= e.n - 1 THEN led - (e.n - 1) ELSE (e.n - 1) - led) + 1 - 1, e.n>>}]
    BY <1>1 DEF Scan
  <1>3. led \in Nat /\ (led <= 2 * e.n - 3 \/ led = 0)
    BY <1>2 DEF MaxOf, Surroundings
  <1> DEFINE offset == (IF led >= e.n - 1 THEN led - (e.n - 1) ELSE (e.n - 1) - led) + 1 - 1
  <1>4. offset \in 0 .. e.n - 1
    BY <1>3 DEF Surroundings
  <1>5. f = [Frame(r) EXCEPT !.slots = {<<offset, e.n>>}]
    BY <1>2
  <1> HIDE DEF offset
  <1>6. f.rt = r /\ f.touched = 0 /\ f.divisors = {} /\ f.slots = {<<offset, e.n>>} /\ f.delay = 23
    BY <1>5, FrameTime DEF Frame
  <1>7. QED
    BY <1>4, <1>6, DataCounted DEF Good, Surroundings

(* theater_chase: the gap is 9 pixels, and aux0 counts through it.         *)
LEMMA TheaterChaseGood ==
    ASSUME NEW r, Runtime(r), NEW e, Surroundings(e), r.aux0 \in 0 .. 8,
           NEW f \in TheaterChase(r, e)
    PROVE  Good(f, r, e) /\ f.rt.aux0 \in 0 .. 8
  <1>1. 2 + (255 - e.intensity) \div 32 = 9 /\ (r.aux0 + 1) % 9 \in 0 .. 8
    BY DEF Surroundings
  <1>2. PICK a \in 0 .. 8 : f = [Frame([r EXCEPT !.aux0 = a]) EXCEPT !.slots = {<<a, 9>>}]
    BY <1>1 DEF TheaterChase
  <1>3. QED
    BY <1>2, FrameTime DEF Frame, Runtime, Good

(* mode_twinkle: at this intensity a single pixel is lit.                  *)
LEMMA TwinkleGood ==
    ASSUME NEW r, Runtime(r), NEW e, Surroundings(e), r.aux0 \in 0 .. 1,
           NEW f \in Twinkle(r, e)
    PROVE  Good(f, r, e) /\ f.rt.aux0 \in 0 .. 1
  <1>1. ArduinoMap(e.intensity, 0, 255, 1, e.n) = 1
    BY DEF ArduinoMap, Surroundings
  <1>2. PICK a \in 0 .. 1 : f = [Frame([r EXCEPT !.aux0 = a]) EXCEPT !.slots = {<<a, 1 + 1>>}]
    BY <1>1 DEF Twinkle
  <1>3. QED
    BY <1>2, FrameTime DEF Frame, Runtime, Good

(* A runtime whose calls are counted again is one.                         *)
LEMMA CallReset ==
    ASSUME NEW r, Runtime(r), NEW a, NEW c \in Nat
    PROVE  /\ Runtime([r EXCEPT !.aux0 = a, !.call = c])
           /\ [r EXCEPT !.aux0 = a, !.call = c].data = r.data
  <1>1. ASSUME NEW q, q = [r EXCEPT !.aux0 = a, !.call = c]
        PROVE  Runtime(q) /\ q.data = r.data
    BY <1>1 DEF Runtime
  <1>2. QED
    BY <1>1, Zenon

(* dissolve                                                                *)
LEMMA DissolveGood ==
    ASSUME NEW r, Runtime(r), NEW e, NEW f \in Dissolve(r, e)
    PROVE  Good(f, r, e)
  <1> DEFINE turned == 1 - r.aux0
             q == [r EXCEPT !.aux0 = turned, !.call = 0]
  <1>1. f = Frame(r) \/ f = Frame(q)
    BY DEF Dissolve
  <1>2. Runtime(q) /\ q.data = r.data
    <2>1. 0 \in Nat
      OBVIOUS
    <2> HIDE DEF turned
    <2>2. QED
      BY Zenon, <2>1, CallReset
  <1>3. QED
    BY <1>1, <1>2, PlainGood

(* mode_sparkle: the pixel kept from the frame before is on the strip.     *)
LEMMA SparkleGood ==
    ASSUME NEW r, Runtime(r), NEW e, Surroundings(e), r.aux0 \in 0 .. e.n - 1,
           NEW f \in Sparkle(r, e)
    PROVE  Good(f, r, e) /\ f.rt.aux0 \in 0 .. e.n - 1
  <1>1. PICK a \in 0 .. e.n - 1 : f = [Frame([r EXCEPT !.aux0 = a]) EXCEPT !.slots = {<<a, e.n>>}]
    <2>1. Pixels(e) \subseteq 0 .. e.n - 1
      BY PixelsOnStrip DEF Surroundings
    <2>2. PICK a \in {r.aux0} \cup Pixels(e) :
             f = [Frame([r EXCEPT !.aux0 = a]) EXCEPT !.slots = {<<a, e.n>>}]
      BY DEF Sparkle
    <2>3. a \in 0 .. e.n - 1
      BY <2>1, <2>2
    <2>4. QED
      BY <2>2, <2>3
  <1>2. QED
    BY <1>1, FrameTime DEF Frame, Runtime, Good, Surroundings

(* mode_flash_sparkle                                                      *)
LEMMA FlashSparkleGood ==
    ASSUME NEW r, Runtime(r), NEW e, Surroundings(e), NEW f \in FlashSparkle(r, e)
    PROVE  Good(f, r, e)
  <1>1. CASE f = [Frame(r) EXCEPT !.delay = 20 + (255 - e.speed)]
    BY <1>1 DEF Frame, Runtime, Good, Surroundings
  <1>2. ASSUME NEW a \in Pixels(e),
               f = [Frame([r EXCEPT !.aux0 = a]) EXCEPT !.slots = {<<a, e.n>>}, !.delay = 20]
        PROVE  Good(f, r, e)
    <2>1. a \in 0 .. e.n - 1
      BY PixelsOnStrip DEF Surroundings
    <2>2. QED
      BY <1>2, <2>1 DEF Frame, Runtime, Good, Surroundings
  <1>3. QED
    BY <1>1, <1>2 DEF FlashSparkle

(* mode_hyper_sparkle                                                      *)
LEMMA HyperSparkleGood ==
    ASSUME NEW r, Runtime(r), NEW e, Surroundings(e), NEW f \in HyperSparkle(r, e)
    PROVE  Good(f, r, e)
  BY DEF HyperSparkle, Frame, Runtime, Good, Surroundings

(* mode_multi_strobe: the pause between strobes is at most 5150 ms.        *)
LEMMA MultiStrobeGood ==
    ASSUME NEW r, Runtime(r), NEW e, Surroundings(e), NEW f \in MultiStrobe(r, e)
    PROVE  Good(f, r, e)
  <1> DEFINE count == 2 * (e.speed \div 10 + 1)
             wait == IF r.step >= count THEN 50 + 20 * (255 - e.speed)
                     ELSE IF r.step % 2 = 0 THEN 20 ELSE 50
             step == (r.step + 1) % (count + 1)
  <1>1. f = [Frame([r EXCEPT !.step = step]) EXCEPT !.delay = wait]
    BY DEF MultiStrobe
  <1>2. wait \in Nat /\ wait <= 30000
    BY DEF Surroundings
  <1> HIDE DEF wait, step
  <1>3. QED
    BY <1>1, <1>2 DEF Frame, Runtime, Good

(* mode_android: at this intensity the section is of one pixel at most.    *)
LEMMA AndroidGood ==
    ASSUME NEW r, Runtime(r), NEW e, Surroundings(e),
           r.aux1 \in 0 .. 1, r.step \in 0 .. e.n - 1, NEW f \in Android(r, e)
    PROVE  Good(f, r, e) /\ f.rt.aux1 \in 0 .. 1 /\ f.rt.step \in 0 .. e.n - 1
  <1>1. 255 * r.aux1 > e.intensity * e.n <=> r.aux1 = 1
    BY DEF Surroundings
  <1> DEFINE turned == IF 255 * r.aux1 > e.intensity * e.n THEN 1
                       ELSE IF r.aux1 < 2 THEN 0 ELSE r.aux0
             Aux1(p) == IF turned = 0 /\ p # 1 THEN r.aux1 + 1
                        ELSE IF turned # 0 /\ p # 1 THEN r.aux1 - 1 ELSE r.aux1
             Ahead(p) == IF turned # 0 \/ p = 1 THEN r.step + 1 ELSE r.step
             Start(p) == IF Ahead(p) >= e.n THEN 0 ELSE Ahead(p)
             wait == (8 * (255 - e.speed)) \div e.n
  <1>2. PICK p :
          f = [Frame([r EXCEPT !.aux0 = turned, !.aux1 = Aux1(p), !.step = Start(p)]) EXCEPT
                !.divisors = {e.n}, !.slots = {<<Aux1(p), e.n + 2>>, <<Start(p), e.n>>},
                !.delay = 3 + wait]
    BY DEF Android
  <1>3. turned = r.aux1
    BY <1>1
  <1>4. Aux1(p) \in 0 .. 1 /\ Start(p) \in 0 .. e.n - 1
    BY <1>3 DEF Surroundings
  <1>5. wait \in Nat /\ wait <= 2040
    <2>1. 8 * (255 - e.speed) \in Nat /\ 8 * (255 - e.speed) <= 2040 /\ e.n \in Nat \ {0}
      BY DEF Surroundings
    <2>2. QED
      BY <2>1, Quotient
  <1> HIDE DEF turned, Aux1, Start, wait
  <1>6. /\ f.rt = [r EXCEPT !.aux0 = turned, !.aux1 = Aux1(p), !.step = Start(p)]
        /\ f.touched = 0 /\ f.divisors = {e.n}
        /\ f.slots = {<<Aux1(p), e.n + 2>>, <<Start(p), e.n>>} /\ f.delay = 3 + wait
    BY <1>2 DEF Frame
  <1>7. Runtime(f.rt) /\ f.rt.data = r.data /\ f.rt.aux1 = Aux1(p) /\ f.rt.step = Start(p)
    BY <1>6 DEF Runtime
  <1>8. \A s \in f.slots : s[1] >= 0 /\ s[1] < s[2]
    BY <1>4, <1>6 DEF Surroundings
  <1>9. QED
    BY <1>4, <1>5, <1>6, <1>7, <1>8 DEF Runtime, Good, Surroundings

(* chase, with and without a rainbow: both stretches end on the strip.     *)
LEMMA ChaseGood ==
    ASSUME NEW r, Runtime(r), NEW e, Surroundings(e)
    PROVE  /\ \A f \in Chase(r, e) : Good(f, r, e)
           /\ \A f \in ChaseRainbow(r, e) : Good(f, r, e)
  <1> DEFINE size == (1 + (e.intensity * e.n) \div 1024) % 256
             Wrapped(i) == IF i > e.n THEN i - e.n ELSE i
             B(a) == Wrapped(a + size)
             C(a) == Wrapped(B(a) + size)
             F(a) == [Frame([r EXCEPT !.step = a]) EXCEPT
                        !.slots = {<<B(a), e.n + 1>>, <<C(a), e.n + 1>>}]
             G(a) == [F(a) EXCEPT !.divisors = {e.n}]
  <1>1. Chase(r, e) = {F(a) : a \in Pixels(e)}
    BY Zenon DEF Chase
  <1>2. ChaseRainbow(r, e) = {[f EXCEPT !.divisors = {e.n}] : f \in Chase(r, e)}
    BY DEF ChaseRainbow
  <1>3. size = 1
    BY DEF Surroundings
  <1> HIDE DEF size
  <1>4. ASSUME NEW a \in Pixels(e)
        PROVE  Good(F(a), r, e) /\ Good(G(a), r, e)
    <2>1. a \in 0 .. e.n - 1
      BY PixelsOnStrip DEF Surroundings
    <2>2. B(a) \in 0 .. e.n /\ C(a) \in 0 .. e.n
      BY <1>3, <2>1 DEF Surroundings
    <2> HIDE DEF B, C
    <2>3. /\ F(a).rt = [r EXCEPT !.step = a] /\ F(a).touched = 0 /\ F(a).divisors = {}
          /\ F(a).slots = {<<B(a), e.n + 1>>, <<C(a), e.n + 1>>} /\ F(a).delay = 23
          /\ G(a).rt = F(a).rt /\ G(a).touched = 0 /\ G(a).divisors = {e.n}
          /\ G(a).slots = F(a).slots /\ G(a).delay = 23
      BY FrameTime DEF Frame
    <2> HIDE DEF F, G
    <2>4. QED
      BY <2>2, <2>3 DEF Runtime, Good, Surroundings
  <1> HIDE DEF F
  <1>5. QED
    BY <1>1, <1>2, <1>4, ZenonT(40)

(* mode_colorful: four colours from aux0 on are in the table of seven.     *)
LEMMA ColorfulGood ==
    ASSUME NEW r, Runtime(r), NEW e, Surroundings(e), r.aux0 \in 0 .. 3,
           NEW f \in Colorful(r, e)
    PROVE  Good(f, r, e) /\ f.rt.aux0 \in 0 .. 3
  <1> DEFINE next == IF e.speed > 0 THEN r.aux0 + 1 ELSE r.aux0
  <1>1. PICK a \in {r.aux0, IF next > 3 THEN 0 ELSE next} :
          f = [Frame([r EXCEPT !.aux0 = a]) EXCEPT !.slots = {<<a + MinOf(e.n - 1, 3), 7>>}]
    BY DEF Colorful
  <1>2. a \in 0 .. 3 /\ MinOf(e.n - 1, 3) \in 0 .. 3
    BY <1>1 DEF MinOf, Surroundings
  <1>3. QED
    BY <1>1, <1>2, FrameTime DEF Frame, Runtime, Good

(* mode_traffic_light: there are four phases.                              *)
LEMMA TrafficLightGood ==
    ASSUME NEW r, Runtime(r), NEW e, Surroundings(e), r.aux0 \in 0 .. 3,
           NEW f \in TrafficLight(r, e)
    PROVE  Good(f, r, e) /\ f.rt.aux0 \in 0 .. 3
  <1> DEFINE skip == IF r.aux0 + 1 = 1 /\ e.intensity > 140 THEN 2 ELSE r.aux0 + 1
  <1>1. PICK a \in {r.aux0, IF skip > 3 THEN 0 ELSE skip} :
          f = [Frame([r EXCEPT !.aux0 = a]) EXCEPT !.slots = {<<a, 4>>}]
    BY DEF TrafficLight
  <1>2. a \in 0 .. 3
    BY <1>1 DEF Surroundings
  <1>3. QED
    BY <1>1, <1>2, FrameTime DEF Frame, Runtime, Good

(* mode_chase_flash and the random one: step is a pixel, and stays one.    *)
LEMMA ChaseFlashGood ==
    ASSUME NEW r, Runtime(r), NEW e, Surroundings(e), r.step \in 0 .. e.n - 1,
           NEW base \in {1, 10}, NEW per \in {10, 30}, NEW f \in ChaseFlash(r, e, base, per)
    PROVE  Good(f, r, e) /\ f.rt.step \in 0 .. e.n - 1
  <1> DEFINE moving == base + (per * (255 - e.speed)) \div e.n
             Step(flash) == IF flash = 8 THEN (r.step + 1) % e.n ELSE r.step
             Wait(flash) == IF flash = 8 THEN moving ELSE IF flash % 2 = 0 THEN 20 ELSE 30
             F(flash) == [Frame([r EXCEPT !.step = Step(flash)]) EXCEPT
                            !.divisors = {e.n}, !.slots = {<<r.step, e.n>>}, !.delay = Wait(flash)]
  <1>1. PICK flash \in CallMod(r, 9) : f = F(flash)
    <2>1. ChaseFlash(r, e, base, per) = {F(flash) : flash \in CallMod(r, 9)}
      BY Zenon DEF ChaseFlash
    <2> HIDE DEF F
    <2>2. QED
      BY <2>1
  <1>2. Step(flash) \in 0 .. e.n - 1
    <2>1. r.step + 1 \in Nat /\ e.n \in Nat \ {0}
      BY DEF Surroundings
    <2>2. (r.step + 1) % e.n \in 0 .. e.n - 1
      BY <2>1, Remainder
    <2>3. QED
      BY <2>2
  <1>3. moving \in Nat /\ moving <= 7660
    <2>1. /\ per * (255 - e.speed) \in Nat /\ per * (255 - e.speed) <= 7650
          /\ e.n \in Nat \ {0}
      BY DEF Surroundings
    <2>2. QED
      BY <2>1, Quotient
  <1>4. Wait(flash) \in Nat /\ Wait(flash) <= 7660
    BY <1>3
  <1> HIDE DEF Step, Wait
  <1>5. /\ f.rt = [r EXCEPT !.step = Step(flash)] /\ f.touched = 0 /\ f.divisors = {e.n}
        /\ f.slots = {<<r.step, e.n>>} /\ f.delay = Wait(flash)
    BY <1>1 DEF Frame
  <1>6. QED
    BY <1>2, <1>4, <1>5 DEF Runtime, Good, Surroundings

(* running: stripes of one pixel at this intensity                         *)
LEMMA RunningGood ==
    ASSUME NEW r, Runtime(r), NEW e, Surroundings(e), r.aux0 \in 0 .. 1,
           NEW f \in Running(r, e)
    PROVE  Good(f, r, e) /\ f.rt.aux0 \in 0 .. 1
  <1>1. 1 + e.intensity \div 32 = 1
    BY DEF Surroundings
  <1>2. PICK a \in {r.aux0, (r.aux0 + 1) % (2 * 1)} :
          f = [Frame([r EXCEPT !.aux0 = a]) EXCEPT !.slots = {<<a, 2 * 1>>}]
    BY <1>1 DEF Running
  <1>3. a \in 0 .. 1
    BY <1>2
  <1>4. QED
    BY <1>2, <1>3, FrameTime DEF Frame, Runtime, Good

(* larson_scanner: step is the pixel reached.                              *)
LEMMA LarsonGood ==
    ASSUME NEW r, Runtime(r), NEW e, Surroundings(e), r.step \in 0 .. e.n - 1,
           NEW f \in Larson(r, e)
    PROVE  Good(f, r, e) /\ f.rt.step \in 0 .. e.n - 1
  <1> DEFINE Turn(index) ==
               IF r.step > index /\ r.step - index > e.n \div 2 THEN 1 - r.aux0 ELSE r.aux0
             F(index) == [Frame([r EXCEPT !.step = index, !.aux0 = Turn(index)]) EXCEPT
                            !.slots = {<<r.step, e.n>>}]
  <1>1. PICK index \in Pixels(e) : f = F(index)
    <2>1. Larson(r, e) = {F(index) : index \in Pixels(e)}
      BY Zenon DEF Larson
    <2> HIDE DEF F
    <2>2. QED
      BY <2>1
  <1> HIDE DEF Turn
  <1>2. index \in 0 .. e.n - 1
    BY PixelsOnStrip DEF Surroundings
  <1>3. /\ f.rt = [r EXCEPT !.step = index, !.aux0 = Turn(index)] /\ f.touched = 0 /\ f.divisors = {}
        /\ f.slots = {<<r.step, e.n>>} /\ f.delay = 23
    BY <1>1, FrameTime DEF Frame
  <1>4. Runtime(f.rt) /\ f.rt.data = r.data /\ f.rt.step = index
    BY <1>3 DEF Runtime
  <1>5. QED
    BY <1>2, <1>3, <1>4, DataCounted DEF Good, Surroundings

(* mode_comet: aux0 is the pixel reached.                                  *)
LEMMA CometGood ==
    ASSUME NEW r, Runtime(r), NEW e, Surroundings(e), r.aux0 \in 0 .. e.n - 1,
           NEW f \in Comet(r, e)
    PROVE  Good(f, r, e) /\ f.rt.aux0 \in 0 .. e.n - 1
  <1>1. PICK index \in Pixels(e) :
          f = [Frame([r EXCEPT !.aux0 = index]) EXCEPT !.slots = {<<r.aux0, e.n>>}]
    BY DEF Comet
  <1>2. index \in 0 .. e.n - 1
    BY PixelsOnStrip DEF Surroundings
  <1>3. QED
    BY <1>1, <1>2, FrameTime DEF Frame, Runtime, Good, Surroundings

(* Where mode_fireworks and mode_rain may have left their sparks           *)
SparkPlaces(e) == 0 .. e.n - 1 \cup {NoPixel}

(* mode_fireworks: no spark is taken for a pixel beyond the strip.         *)
LEMMA FireworksGood ==
    ASSUME NEW r, Runtime(r), NEW e, Surroundings(e),
           r.aux0 \in SparkPlaces(e), r.aux1 \in SparkPlaces(e), NEW f \in Fireworks(r, e)
    PROVE  /\ Good(f, r, e)
           /\ f.rt.aux0 \in SparkPlaces(e) /\ f.rt.aux1 \in SparkPlaces(e)
  <1> DEFINE a0 == IF r.call = 0 THEN NoPixel ELSE r.aux0
             a1 == IF r.call = 0 THEN NoPixel ELSE r.aux1
             Sparks == {<<a0, a1>>} \cup (Pixels(e) \X {a0})
                       \cup (IF e.n \div 20 > 1 THEN Pixels(e) \X Pixels(e) ELSE {})
  <1>1. PICK s \in Sparks : f = FireworksFrame(r, e, s)
    BY DEF Fireworks
  <1>2. s[1] \in SparkPlaces(e) /\ s[2] \in SparkPlaces(e)
    <2>1. Pixels(e) \subseteq SparkPlaces(e) /\ a0 \in SparkPlaces(e) /\ a1 \in SparkPlaces(e)
      BY PixelsOnStrip DEF SparkPlaces, Surroundings
    <2> HIDE DEF a0, a1
    <2>2. QED
      BY <2>1
  <1>3. \A i \in SparkPlaces(e) : (i + 1) % 65536 >= 0 /\ (i + 1) % 65536 < e.n + 1
    BY DEF SparkPlaces, NoPixel, Surroundings
  <1>4. /\ f.rt = [r EXCEPT !.aux0 = s[1], !.aux1 = s[2]] /\ f.touched = 0 /\ f.divisors = {}
        /\ f.slots = {<<(i + 1) % 65536, e.n + 1>> : i \in {s[1], s[2]}} /\ f.delay = 23
    BY <1>1, FrameTime DEF FireworksFrame, Frame
  <1>5. /\ Runtime(f.rt) /\ f.rt.data = r.data
        /\ f.rt.aux0 = s[1] /\ f.rt.aux1 = s[2]
    <2> DEFINE a == s[1]
               b == s[2]
    <2>1. f.rt = [r EXCEPT !.aux0 = a, !.aux1 = b]
      BY <1>4
    <2> HIDE DEF a, b
    <2>2. Runtime(f.rt) /\ f.rt.data = r.data /\ f.rt.aux0 = a /\ f.rt.aux1 = b
      BY <2>1 DEF Runtime
    <2>3. QED
      BY <2>2 DEF a, b
  <1>6. \A p \in f.slots : p[1] >= 0 /\ p[1] < p[2]
    BY <1>2, <1>3, <1>4
  <1>7. QED
    BY <1>2, <1>4, <1>5, <1>6, DataCounted DEF Good

(* mode_rain: nor is one when both are moved on by a pixel in 16 bits.     *)
LEMMA RainGood ==
    ASSUME NEW r, Runtime(r), NEW e, Surroundings(e),
           r.aux0 \in SparkPlaces(e), r.aux1 \in SparkPlaces(e), NEW f \in Rain(r, e)
    PROVE  /\ Good(f, r, e)
           /\ f.rt.aux0 \in SparkPlaces(e) /\ f.rt.aux1 \in SparkPlaces(e)
  <1> DEFINE a0 == (r.aux0 + 1) % 65536
             a1 == (r.aux1 + 1) % 65536
             kept == IF a0 = 0 \/ a1 = 0 THEN NoPixel ELSE a0
             AtEnd(a) == IF a = e.n THEN 0 ELSE a
             moved == [r EXCEPT !.aux0 = AtEnd(kept), !.aux1 = AtEnd(a1)]
  <1>1. PICK q \in {r, moved} : f \in Fireworks(q, e)
    BY DEF Rain
  <1>2. a0 \in 0 .. e.n /\ a1 \in 0 .. e.n
    BY DEF SparkPlaces, NoPixel, Surroundings
  <1>3. AtEnd(kept) \in SparkPlaces(e) /\ AtEnd(a1) \in SparkPlaces(e)
    BY <1>2 DEF SparkPlaces, NoPixel, Surroundings
  <1> HIDE DEF kept, a1, AtEnd
  <1>4. CASE q = moved
    <2>1. Runtime(q) /\ q.data = r.data /\ q.aux0 = AtEnd(kept) /\ q.aux1 = AtEnd(a1)
      BY <1>4 DEF Runtime
    <2>2. QED
      BY <1>1, <1>3, <2>1, FireworksGood DEF Good
  <1>5. QED
    BY <1>1, <1>4, FireworksGood

(* fire_flicker                                                            *)
LEMMA FireFlickerGood ==
    ASSUME NEW r, Runtime(r), NEW e, Surroundings(e), NEW f \in FireFlicker(r, e)
    PROVE  Good(f, r, e)
  <1>1. (256 - e.intensity) \div 16 + 1 > 0
    BY DEF Surroundings
  <1>2. /\ f.rt = r /\ f.touched = 0 /\ f.divisors = {(256 - e.intensity) \div 16 + 1}
        /\ f.slots = {} /\ f.delay = 23
    BY FrameTime DEF FireFlicker, Frame
  <1>3. QED
    BY <1>1, <1>2, DataCounted DEF Good

(* A pixel that police_base moves up by whole lengths of the segment is a  *)
(* 16-bit number, and as many pixels backwards as it was moved for there   *)
(* is a pixel of the segment.                                              *)
LEMMA MovedUpFits ==
    ASSUME NEW e, e.n \in Nat, e.n > 0, e.n <= 32767,
           NEW from \in 0 .. e.n - 1, NEW gap \in Nat, gap < 255
    PROVE  /\ MovedUp(e, from, gap) \in Nat /\ MovedUp(e, from, gap) < 65536
           /\ MovedUp(e, from, gap) - gap \in 0 .. e.n - 1
  <1>1. CASE gap <= from
    BY <1>1 DEF MovedUp
  <1>2. CASE ~(gap <= from)
    <2>1. PICK n \in Nat, a \in Nat : n >= 1 /\ n = e.n /\ a = gap - from + n - 1
      BY <1>2
    <2>2. MovedUp(e, from, gap) = from + n * (a \div n)
      BY <1>2, <2>1 DEF MovedUp
    <2>3. /\ a \div n \in Nat /\ a % n \in Nat /\ a % n <= n - 1
          /\ a = (a \div n) * n + (a % n) /\ (a \div n) * n \in Nat
      <3>1. n >= 1
        BY <2>1
      <3>2. QED
        BY <3>1
    <2>4. PICK up \in Nat, rest \in Nat : up = (a \div n) * n /\ rest = a % n
      BY <2>3
    <2>5. n * (a \div n) = up
      BY <2>3, <2>4
    <2>6. MovedUp(e, from, gap) = from + up
      BY <2>2, <2>5
    <2>7. rest <= n - 1 /\ a = up + rest
      BY <2>3, <2>4
    <2>8. QED
      BY <2>1, <2>6, <2>7
  <1>3. QED
    BY <1>1, <1>2

(* police_base at whatever time it is called: a frame that comes to its    *)
(* end paints its dots and its trails on the segment.                      *)
LEMMA PoliceDotsGood ==
    ASSUME NEW r, Runtime(r), NEW e, Surroundings(e), r.aux0 \in Nat, NEW f \in PoliceDots(r, e)
    PROVE  Good(f, r, e) /\ f.rt.aux0 \in Nat
  <1> DEFINE next(h) == IF HeadWas(r, h) = h THEN h ELSE MovedUp(e, h, Gap(r, e, h))
             F(h)    == [Frame([r EXCEPT !.aux0 = next(h)]) EXCEPT !.slots = DotSlots(r, e, h)]
  <1>1. PICK h \in 0 .. e.n - 1 : PoliceReturns(r, e, h) /\ f = F(h)
    <2>1. PoliceDots(r, e) = {F(h) : h \in {h \in 0 .. e.n - 1 : PoliceReturns(r, e, h)}}
      BY DEF PoliceDots
    <2> HIDE DEF F
    <2>2. QED
      BY <2>1
  <1>2. e.n \in Nat /\ e.n > 0 /\ e.n <= 32767 /\ e.intensity = 0
    BY DEF Surroundings
  <1> DEFINE gap == Gap(r, e, h)
             half == e.n \div 2
             blue == IF h > half THEN h - half ELSE IF h + half < e.n THEN h + half ELSE 0
             size == IF (1 + e.intensity) \div 8 > half THEN 1 + half ELSE (1 + e.intensity) \div 8
             Ends == IF HeadWas(r, h) = h THEN {} ELSE {MovedUp(e, h, gap), MovedUp(e, blue, gap)}
  <1>3. size = 0
    BY <1>2
  <1>4. blue \in 0 .. e.n - 1
    BY <1>2
  <1>5. HeadWas(r, h) # h => gap \in Nat /\ gap < 255
    <2>1. HeadWas(r, h) \in Nat
      BY DEF HeadWas
    <2>2. gap \in Nat /\ gap < 256
      BY <1>2, <2>1 DEF Gap
    <2>3. QED
      BY <1>1, <2>2 DEF PoliceReturns
  <1>6. DotSlots(r, e, h) =
          {<<size, 255>>, <<h + size, e.n>>, <<blue + size, e.n>>}
          \cup {<<x, 65536>> : x \in Ends} \cup {<<x - gap, e.n>> : x \in Ends}
    BY DEF DotSlots
  <1> HIDE DEF blue, size, gap
  <1>7. ASSUME NEW from \in {h, blue}, HeadWas(r, h) # h
        PROVE  /\ MovedUp(e, from, gap) \in Nat /\ MovedUp(e, from, gap) < 65536
               /\ MovedUp(e, from, gap) - gap \in 0 .. e.n - 1
    <2>1. from \in 0 .. e.n - 1 /\ gap \in Nat /\ gap < 255
      BY <1>4, <1>5, <1>7
    <2>2. QED
      BY <1>2, <2>1, MovedUpFits
  <1>8. \A x \in Ends : x \in Nat /\ x < 65536 /\ x - gap \in 0 .. e.n - 1
    BY <1>7
  <1>9. next(h) \in Nat
    <2>1. CASE HeadWas(r, h) = h
      BY <2>1
    <2>2. CASE HeadWas(r, h) # h
      <3>1. next(h) = MovedUp(e, h, gap)
        BY <2>2 DEF gap
      <3>2. QED
        BY <1>7, <2>2, <3>1
    <2>3. QED
      BY <2>1, <2>2
  <1> HIDE DEF Ends
  <1>10. ASSUME NEW s \in DotSlots(r, e, h)
        PROVE  s[1] >= 0 /\ s[1] < s[2]
    <2>1. CASE s \in {<<size, 255>>, <<h + size, e.n>>, <<blue + size, e.n>>}
      BY <1>2, <1>3, <1>4, <2>1
    <2>2. CASE s \in {<<x, 65536>> : x \in Ends}
      BY <1>8, <2>2
    <2>3. CASE s \in {<<x - gap, e.n>> : x \in Ends}
      BY <1>2, <1>8, <2>3
    <2>4. QED
      BY <1>6, <2>1, <2>2, <2>3
  <1> HIDE DEF next
  <1>11. /\ f.rt = [r EXCEPT !.aux0 = next(h)] /\ f.touched = 0 /\ f.divisors = {}
         /\ f.slots = DotSlots(r, e, h) /\ f.delay = 23
    BY <1>1, FrameTime DEF Frame
  <1>12. Runtime(f.rt) /\ f.rt.data = r.data /\ f.rt.aux0 = next(h)
    BY <1>11 DEF Runtime
  <1>13. QED
    BY <1>10, <1>9, <1>11, <1>12, DataCounted DEF Good

(* police_base, the whole strip                                            *)
LEMMA PoliceAllGood ==
    ASSUME NEW r, Runtime(r), NEW e, NEW f \in PoliceAll(r, e)
    PROVE  Good(f, r, e)
  <1>1. PICK a : f = Frame([r EXCEPT !.aux0 = a]) \/ f = Frame(r)
    BY DEF PoliceAll
  <1>2. Runtime([r EXCEPT !.aux0 = a]) /\ [r EXCEPT !.aux0 = a].data = r.data
    BY DEF Runtime
  <1>3. QED
    BY <1>1, <1>2, PlainGood

(* tricolor_chase                                                          *)
LEMMA TricolorChaseGood ==
    ASSUME NEW r, Runtime(r), NEW e, Surroundings(e), NEW f \in TricolorChase(r, e)
    PROVE  Good(f, r, e)
  <1> DEFINE width == (1 + e.intensity \div 32) * 3
  <1>1. width > 0
    BY DEF Surroundings
  <1>2. f = [Frame(r) EXCEPT !.divisors = {width}]
    BY DEF TricolorChase
  <1> HIDE DEF width
  <1>3. f.rt = r /\ f.touched = 0 /\ f.divisors = {width} /\ f.slots = {} /\ f.delay = 23
    BY <1>2, FrameTime DEF Frame
  <1>4. QED
    BY <1>1, <1>3, DataCounted DEF Good

(* SPEED_FORMULA_L is at most 12755 ms.                                    *)
LEMMA SpeedFormulaBounded ==
    ASSUME NEW e, Surroundings(e)
    PROVE  SpeedFormula(e) \in Nat /\ SpeedFormula(e) <= 12755
  <1>1. /\ 50 * (255 - e.speed) \in Nat /\ 50 * (255 - e.speed) <= 12750
        /\ e.n \in Nat \ {0}
    BY DEF Surroundings
  <1>2. /\ (50 * (255 - e.speed)) \div e.n \in Nat
        /\ (50 * (255 - e.speed)) \div e.n <= 12750
    BY <1>1, Quotient
  <1>3. QED
    BY <1>2 DEF SpeedFormula

(* Where mode_icu may have left its eyes                                   *)
EyePlaces(e) == 0 .. e.n - IcuApart(e) - 1

(* mode_icu: what a frame is made of                                       *)
LEMMA IcuFrameFields ==
    ASSUME NEW r, Runtime(r), NEW e, NEW step, NEW aux0, NEW ds, NEW wait,
           NEW f, f = IcuFrame(r, e, step, aux0, ds, wait)
    PROVE  /\ Runtime(f.rt) /\ f.rt.data = r.data /\ f.rt.aux0 = aux0 /\ f.rt.step = step
           /\ f.touched = 0 /\ f.divisors = {e.n - IcuApart(e)} \cup ds
           /\ f.slots = {<<r.step + IcuApart(e), e.n>>} /\ f.delay = wait
  <1> DEFINE at   == r.step + IcuApart(e)
             left == e.n - IcuApart(e)
  <1>1. f = [Frame([r EXCEPT !.step = step, !.aux0 = aux0]) EXCEPT
               !.divisors = {left} \cup ds, !.slots = {<<at, e.n>>}, !.delay = wait]
    BY DEF IcuFrame
  <1> HIDE DEF at, left
  <1>2. /\ f.rt = [r EXCEPT !.step = step, !.aux0 = aux0] /\ f.touched = 0
        /\ f.divisors = {left} \cup ds /\ f.slots = {<<at, e.n>>} /\ f.delay = wait
    BY <1>1 DEF Frame
  <1>3. Runtime(f.rt) /\ f.rt.data = r.data /\ f.rt.aux0 = aux0 /\ f.rt.step = step
    BY <1>2 DEF Runtime
  <1>4. QED
    BY <1>2, <1>3 DEF at, left

(* A frame that moves the eyes, or looks elsewhere, keeps both on the      *)
(* strip.                                                                  *)
LEMMA IcuFrameGood ==
    ASSUME NEW r, Runtime(r), NEW e, Surroundings(e), r.step \in EyePlaces(e),
           NEW step \in EyePlaces(e), NEW aux0 \in EyePlaces(e),
           NEW ds, \A d \in ds : d > 0, NEW wait \in Nat, wait <= 12755,
           NEW f, f = IcuFrame(r, e, step, aux0, ds, wait)
    PROVE  /\ Good(f, r, e)
           /\ f.rt.aux0 \in EyePlaces(e) /\ f.rt.step \in EyePlaces(e)
  <1> DEFINE at   == r.step + IcuApart(e)
             left == e.n - IcuApart(e)
  <1>1. at >= 0 /\ at < e.n /\ left > 0
    BY DEF IcuApart, EyePlaces, Surroundings
  <1>2. /\ Runtime(f.rt) /\ f.rt.data = r.data /\ f.rt.aux0 = aux0 /\ f.rt.step = step
        /\ f.touched = 0 /\ f.divisors = {left} \cup ds
        /\ f.slots = {<<at, e.n>>} /\ f.delay = wait
    BY IcuFrameFields
  <1> HIDE DEF at, left
  <1>3. QED
    BY <1>1, <1>2, DataCounted DEF Good

(* mode_icu: the eyes move towards a place where both fit.                 *)
LEMMA IcuGood ==
    ASSUME NEW r, Runtime(r), NEW e, Surroundings(e),
           r.aux0 \in EyePlaces(e), r.step \in EyePlaces(e), NEW f \in Icu(r, e)
    PROVE  /\ Good(f, r, e)
           /\ f.rt.aux0 \in EyePlaces(e) /\ f.rt.step \in EyePlaces(e)
  <1> DEFINE next == IF r.aux0 > r.step THEN r.step + 1 ELSE r.step - 1
  <1>1. CASE r.aux0 # r.step
    <2>1. f = IcuFrame(r, e, next, r.aux0, {e.n}, SpeedFormula(e))
      BY <1>1 DEF Icu
    <2>2. next \in EyePlaces(e) /\ \A d \in {e.n} : d > 0
      BY <1>1 DEF IcuApart, EyePlaces, Surroundings
    <2> HIDE DEF next
    <2>3. QED
      BY <2>1, <2>2, SpeedFormulaBounded, IcuFrameGood
  <1>2. CASE r.aux0 = r.step
    <2>1. \/ f = IcuFrame(r, e, r.step, r.aux0, {}, 200)
          \/ \E a \in EyePlaces(e), d \in {1000, 2999} : f = IcuFrame(r, e, r.step, a, {}, d)
      BY <1>2 DEF Icu, EyePlaces
    <2>3. 200 \in Nat /\ 1000 \in Nat /\ 2999 \in Nat /\ \A d \in {} : d > 0
      OBVIOUS
    <2>4. CASE f = IcuFrame(r, e, r.step, r.aux0, {}, 200)
      BY <2>3, <2>4, IcuFrameGood
    <2>5. ASSUME NEW a \in EyePlaces(e), NEW d \in {1000, 2999},
                 f = IcuFrame(r, e, r.step, a, {}, d)
          PROVE  /\ Good(f, r, e)
                 /\ f.rt.aux0 \in EyePlaces(e) /\ f.rt.step \in EyePlaces(e)
      <3>1. d \in Nat /\ d <= 12755
        OBVIOUS
      <3>2. QED
        BY <2>3, <2>5, <3>1, IcuFrameGood
    <2>6. QED
      BY <2>1, <2>4, <2>5
  <1>3. QED
    BY <1>1, <1>2

-----------------------------------------------------------------------------
(* Data: what allocateData leaves, and what follows for an effect that     *)
(* runs only with its data                                                 *)

(* allocateData leaves the bytes asked for or none, and the counters       *)
(* alone.                                                                  *)
LEMMA Allocated ==
    ASSUME NEW r, Runtime(r), NEW e, Surroundings(e), NEW len \in Nat,
           NEW a \in AllocateData(r, e, len)
    PROVE  /\ Runtime(a) /\ a.data \in {0, len} /\ a.data \in {r.data} \cup 0 .. e.free
           /\ a.call = r.call /\ a.step = r.step /\ a.aux0 = r.aux0 /\ a.aux1 = r.aux1
           /\ a.mem = r.mem \/ a.mem = <<>>
  <1>1. CASE r.data = len
    BY <1>1, DataCounted DEF AllocateData
  <1>2. CASE r.data # len
    <2>1. PICK l \in {0} \cup (IF len > e.free THEN {} ELSE {len}) :
            a = [r EXCEPT !.data = l, !.mem = <<>>]
      BY <1>2 DEF AllocateData
    <2>2. l \in {0, len} /\ l \in 0 .. e.free /\ l \in Nat
      BY DEF Surroundings
    <2> DEFINE nothing == <<>>
    <2>3. a = [r EXCEPT !.data = l, !.mem = nothing]
      BY <2>1
    <2> HIDE DEF nothing
    <2>4. /\ Runtime(a) /\ a.data = l /\ a.mem = nothing
          /\ a.call = r.call /\ a.step = r.step /\ a.aux0 = r.aux0 /\ a.aux1 = r.aux1
      BY <2>2, <2>3 DEF Runtime
    <2>5. QED
      BY <2>2, <2>4 DEF nothing
  <1>3. QED
    BY <1>1, <1>2

(* Good relative to what was there before the data was asked for           *)
LEMMA GoodWithData ==
    ASSUME NEW r, NEW e, Surroundings(e), NEW a,
           a.data \in Nat, a.data \in {r.data} \cup 0 .. e.free, NEW f, Good(f, a, e)
    PROVE  Good(f, r, e)
  BY DEF Good

(* mode_dynamic: a byte for every pixel                                    *)
LEMMA DynamicGood ==
    ASSUME NEW r, Runtime(r), NEW e, Surroundings(e), NEW f \in Dynamic(r, e)
    PROVE  Good(f, r, e)
  <1>1. PICK a \in AllocateData(r, e, e.n) :
          f \in IF a.data = 0 THEN Static(a) ELSE {[Frame(a) EXCEPT !.touched = e.n]}
    BY DEF Dynamic, WithData
  <1>2. Runtime(a) /\ a.data \in {0, e.n} /\ a.data \in {r.data} \cup 0 .. e.free
    BY Allocated DEF Surroundings
  <1>3. CASE f = [Frame(a) EXCEPT !.touched = e.n] /\ a.data = e.n
    <2>1. f.rt = a /\ f.touched = e.n /\ f.divisors = {} /\ f.slots = {} /\ f.delay = 23
      BY <1>3, FrameTime DEF Frame
    <2>2. QED
      BY <1>2, <1>3, <2>1, DataCounted DEF Good
  <1>4. Good(f, a, e) => Good(f, r, e)
    BY <1>2, DataCounted, GoodWithData
  <1>5. QED
    BY <1>1, <1>2, <1>3, <1>4, StaticGood

-----------------------------------------------------------------------------
(* The effects of EffectsFastLed                                           *)

(* mode_tricolor_wipe                                                      *)
LEMMA TricolorWipeGood ==
    ASSUME NEW r, Runtime(r), NEW e, Surroundings(e), NEW f \in TricolorWipe(r, e)
    PROVE  Good(f, r, e)
  <1> DEFINE at(led) == led % e.n
  <1>1. PICK led \in {0, e.n - 1, e.n, 2 * e.n, 3 * e.n - 1} :
          f = [Frame(r) EXCEPT !.slots = {<<at(led), e.n>>}]
    BY DEF TricolorWipe
  <1>2. at(led) \in 0 .. e.n - 1
    <2>1. led \in Nat /\ e.n \in Nat \ {0}
      BY DEF Surroundings
    <2>2. QED
      BY <2>1, Remainder
  <1> HIDE DEF at
  <1>3. f.rt = r /\ f.touched = 0 /\ f.divisors = {} /\ f.slots = {<<at(led), e.n>>} /\ f.delay = 23
    BY <1>1, FrameTime DEF Frame
  <1>4. QED
    BY <1>2, <1>3, DataCounted DEF Good, Surroundings

(* mode_multi_comet                                                        *)
LEMMA MultiCometGood ==
    ASSUME NEW r, Runtime(r), NEW e, Surroundings(e), NEW f \in MultiComet(r, e)
    PROVE  Good(f, r, e)
  <1>1. CASE f = Frame(r)
    BY <1>1, PlainGood
  <1>2. CASE \E a \in AllocateData(r, e, 16) :
               f \in IF a.data = 0 THEN Static(a) ELSE {[Frame(a) EXCEPT !.touched = 16]}
    <2>1. PICK a \in AllocateData(r, e, 16) :
            f \in IF a.data = 0 THEN Static(a) ELSE {[Frame(a) EXCEPT !.touched = 16]}
      BY <1>2
    <2>2. Runtime(a) /\ a.data \in {0, 16} /\ a.data \in {r.data} \cup 0 .. e.free
      BY Allocated
    <2>3. CASE f = [Frame(a) EXCEPT !.touched = 16] /\ a.data = 16
      <3>1. f.rt = a /\ f.touched = 16 /\ f.divisors = {} /\ f.slots = {} /\ f.delay = 23
        BY <2>3, FrameTime DEF Frame
      <3>2. QED
        BY <2>2, <2>3, <3>1, DataCounted DEF Good
    <2>4. Good(f, a, e) => Good(f, r, e)
      BY <2>2, DataCounted, GoodWithData
    <2>5. QED
      BY <2>1, <2>2, <2>3, <2>4, StaticGood
  <1>3. QED
    BY <1>1, <1>2 DEF MultiComet, WithData

(* It is enough to look at an effect with all of its data.                 *)
LEMMA AfterAllocation ==
    ASSUME NEW r, Runtime(r), NEW e, Surroundings(e), NEW len \in Nat,
           NEW a \in AllocateData(r, e, len), NEW f,
           a.data = 0 => f \in Static(a),
           Runtime(a) /\ a.data = len /\ len # 0 => Good(f, a, e)
    PROVE  Good(f, r, e)
  <1>1. Runtime(a) /\ a.data \in {0, len} /\ a.data \in {r.data} \cup 0 .. e.free
    BY Allocated
  <1>2. Good(f, a, e)
    BY <1>1, StaticGood
  <1>3. QED
    BY <1>1, <1>2, DataCounted, GoodWithData

(* mode_oscillate                                                          *)
LEMMA OscillateGood ==
    ASSUME NEW r, Runtime(r), NEW e, Surroundings(e), NEW f \in Oscillate(r, e)
    PROVE  Good(f, r, e)
  <1> DEFINE before(a) == IF a.call = 0 THEN Oscillators(e)
                          ELSE IF a.mem = <<>> THEN {Zeroed} ELSE {a.mem}
             moved(a)  == before(a) \cup UNION {Moved(o, e) : o \in before(a)}
             width     == 3 + e.intensity \div 8
             F(a, o)   == [Frame([a EXCEPT !.mem = o]) EXCEPT !.touched = 18, !.divisors = {width}]
             Swing(a)  == {F(a, o) : o \in UNION {Turned(m, e) : m \in moved(a)}}
  <1>1. PICK a \in AllocateData(r, e, 18) : f \in IF a.data = 0 THEN Static(a) ELSE Swing(a)
    BY DEF Oscillate, WithData
  <1>2. width > 0
    BY DEF Surroundings
  <1> HIDE DEF F, width, moved
  <1>3. ASSUME Runtime(a), a.data = 18 PROVE Good(f, a, e)
    <2>1. PICK o : f = F(a, o)
      BY <1>1, <1>3
    <2>2. /\ f.rt = [a EXCEPT !.mem = o] /\ f.touched = 18 /\ f.divisors = {width}
          /\ f.slots = {} /\ f.delay = 23
      BY <2>1, FrameTime DEF F, Frame
    <2>3. Runtime(f.rt) /\ f.rt.data = 18
      BY <1>3, <2>2 DEF Runtime
    <2>4. QED
      BY <1>2, <1>3, <2>2, <2>3 DEF Good
  <1>4. QED
    BY <1>1, <1>3, AfterAllocation

(* mode_juggle                                                             *)
LEMMA JuggleGood ==
    ASSUME NEW r, Runtime(r), NEW e, Surroundings(e), NEW f \in Juggle(r, e)
    PROVE  Good(f, r, e)
  <1>1. PICK index \in {0, e.n - 1} : f = [Frame(r) EXCEPT !.slots = {<<index, e.n>>}]
    BY DEF Juggle
  <1>2. f.rt = r /\ f.touched = 0 /\ f.divisors = {} /\ f.slots = {<<index, e.n>>} /\ f.delay = 23
    BY <1>1, FrameTime DEF Frame
  <1>3. QED
    BY <1>1, <1>2, DataCounted DEF Good, Surroundings

(* An effect that divides by the length, which is never 0                  *)
LEMMA LengthDivides ==
    ASSUME NEW r, Runtime(r), NEW e, Surroundings(e), NEW f,
           f = [Frame(r) EXCEPT !.divisors = {e.n}]
    PROVE  Good(f, r, e)
  <1>1. f.rt = r /\ f.touched = 0 /\ f.divisors = {e.n} /\ f.slots = {} /\ f.delay = 23
    BY FrameTime DEF Frame
  <1>2. QED
    BY <1>1, DataCounted DEF Good, Surroundings

(* mode_fire_2012: sparks and drifting heat                                *)
LEMMA Fire2012Good ==
    ASSUME NEW r, Runtime(r), NEW e, Surroundings(e), NEW f \in Fire2012(r, e)
    PROVE  Good(f, r, e)
  <1> DEFINE drift == {<<k - 2, e.n>> : k \in 2 .. e.n - 1}
             Sparks == {{}} \cup {{<<y, e.n>>} : y \in {y \in 0 .. 6 : y < e.n}}
             F(a, sparks) == [Frame(a) EXCEPT !.touched = e.n, !.divisors = {e.n},
                                !.slots = drift \cup sparks]
             Burn(a) == {F(a, sparks) : sparks \in Sparks}
  <1>1. PICK a \in AllocateData(r, e, e.n) : f \in IF a.data = 0 THEN Static(a) ELSE Burn(a)
    BY DEF Fire2012, WithData
  <1>2. \A s \in drift : s[1] >= 0 /\ s[1] < s[2]
    BY DEF Surroundings
  <1>3. \A sparks \in Sparks : \A s \in sparks : s[1] >= 0 /\ s[1] < s[2]
    BY DEF Surroundings
  <1> HIDE DEF F, drift, Sparks
  <1>4. ASSUME Runtime(a), a.data = e.n, e.n # 0 PROVE Good(f, a, e)
    <2>1. PICK sparks \in Sparks : f = F(a, sparks)
      BY <1>1, <1>4
    <2>2. /\ f.rt = a /\ f.touched = e.n /\ f.divisors = {e.n}
          /\ f.slots = drift \cup sparks /\ f.delay = 23
      BY <2>1, FrameTime DEF F, Frame
    <2>3. QED
      BY <1>2, <1>3, <1>4, <2>2 DEF Good, Surroundings
  <1>5. QED
    BY <1>1, <1>4, AfterAllocation DEF Surroundings

(* mode_colortwinkle: the bytes asked for, rounded up from bits, hold the  *)
(* last bit.                                                               *)
LEMMA ColorTwinkleGood ==
    ASSUME NEW r, Runtime(r), NEW e, Surroundings(e), NEW f \in ColorTwinkle(r, e)
    PROVE  Good(f, r, e)
  <1> DEFINE len   == (e.n + 7) \div 8
             bytes == ((e.n - 1) \div 8) + 1
             Bits(a) == {[Frame(a) EXCEPT !.touched = bytes]}
  <1>1. PICK a \in AllocateData(r, e, len) : f \in IF a.data = 0 THEN Static(a) ELSE Bits(a)
    BY DEF ColorTwinkle, WithData
  <1>2. len \in Nat /\ bytes = len
    BY DEF Surroundings
  <1> HIDE DEF len, bytes
  <1>3. ASSUME Runtime(a), a.data = len, len # 0 PROVE Good(f, a, e)
    <2>1. f = [Frame(a) EXCEPT !.touched = bytes]
      BY <1>1, <1>3
    <2>2. f.rt = a /\ f.touched = len /\ f.divisors = {} /\ f.slots = {} /\ f.delay = 23
      BY <1>2, <2>1, FrameTime DEF Frame
    <2>3. QED
      BY <1>2, <1>3, <2>2 DEF Good
  <1>4. QED
    BY <1>1, <1>2, <1>3, AfterAllocation

(* mode_lightning                                                          *)
LEMMA LightningGood ==
    ASSUME NEW r, Runtime(r), NEW e, Surroundings(e), NEW f \in Lightning(r, e)
    PROVE  Good(f, r, e)
  <1> DEFINE pause == MaxOf(0, 254 - e.speed) * 100
  <1>1. \/ \E c : \E s \in Flashes(e) : f = Lit(r, e, c, s[1], s[2])
        \/ \E s : \E d \in {200, 50, 149, 0, pause} : f = Dark(r, s, d)
    <2>1. CASE r.step = 0 \/ r.aux1 # 0
      <3> DEFINE Counts == IF r.step # 0 THEN {r.aux0} ELSE {3} \cup 3 .. 2 + e.intensity \div 20
      <3>1. Lightning(r, e) = {Lit(r, e, c, s[1], s[2]) : c \in Counts, s \in Flashes(e)}
        BY <2>1 DEF Lightning
      <3> HIDE DEF Counts
      <3>2. PICK c \in Counts, s \in Flashes(e) : f = Lit(r, e, c, s[1], s[2])
        BY <3>1
      <3>3. QED
        BY <3>2
    <2>2. CASE ~(r.step = 0 \/ r.aux1 # 0)
      BY <2>2 DEF Lightning
    <2>3. QED
      BY <2>1, <2>2
  <1>2. pause \in Nat /\ pause <= 30000
    BY DEF MaxOf, Surroundings
  <1> HIDE DEF pause
  <1>3. ASSUME NEW c, NEW s \in Flashes(e), f = Lit(r, e, c, s[1], s[2])
        PROVE  Good(f, r, e)
    <2> DEFINE at == s[1] + s[2] - 1
               none == 0
               up == r.step + 1
    <2>1. at \in 0 .. e.n - 1
      BY DEF Flashes, Surroundings
    <2>2. f = [Frame([r EXCEPT !.aux0 = c, !.aux1 = none, !.step = up]) EXCEPT
                 !.slots = {<<at, e.n>>}, !.delay = 9]
      BY <1>3 DEF Lit
    <2> HIDE DEF at, none, up
    <2>3. /\ f.rt = [r EXCEPT !.aux0 = c, !.aux1 = none, !.step = up] /\ f.touched = 0
          /\ f.divisors = {} /\ f.slots = {<<at, e.n>>} /\ f.delay = 9
      BY <2>2 DEF Frame
    <2>4. Runtime(f.rt) /\ f.rt.data = r.data
      BY <2>3 DEF Runtime
    <2>5. QED
      BY <2>1, <2>3, <2>4, DataCounted DEF Good, Surroundings
  <1>4. ASSUME NEW s, NEW d \in {200, 50, 149, 0, pause}, f = Dark(r, s, d)
        PROVE  Good(f, r, e)
    <2> DEFINE one == 1
    <2>1. f = [Frame([r EXCEPT !.aux1 = one, !.step = s]) EXCEPT !.delay = d]
      BY <1>4 DEF Dark
    <2> HIDE DEF one
    <2>2. /\ f.rt = [r EXCEPT !.aux1 = one, !.step = s] /\ f.touched = 0
          /\ f.divisors = {} /\ f.slots = {} /\ f.delay = d
      BY <2>1 DEF Frame
    <2>3. Runtime(f.rt) /\ f.rt.data = r.data
      BY <2>2 DEF Runtime
    <2>4. QED
      BY <1>2, <1>4, <2>2, <2>3, DataCounted DEF Good
  <1>5. QED
    BY <1>1, <1>3, <1>4

(* mode_meteor: a tail of a tenth of the segment wraps at most once.       *)
LEMMA MeteorAtGood ==
    ASSUME NEW a, Runtime(a), NEW e, Surroundings(e), a.data = e.n, NEW in \in 0 .. e.n - 1
    PROVE  Good(MeteorAt(a, e, in), a, e)
  <1> DEFINE Wrapped(i) == IF i >= e.n THEN i - e.n ELSE i
             tail == (1 + e.n \div 10) % 256
             trail == {<<Wrapped(in + j), e.n>> : j \in 0 .. tail - 1}
             f == MeteorAt(a, e, in)
  <1>1. tail \in Nat /\ tail <= e.n
    <2> DEFINE x == 1 + e.n \div 10
    <2>1. x \in Nat /\ x <= e.n /\ x % 256 \in Nat /\ x % 256 <= x
      BY DEF Surroundings
    <2>2. QED
      BY <2>1 DEF Surroundings
  <1>2. f = [Frame(a) EXCEPT !.touched = e.n, !.slots = trail]
    BY DEF MeteorAt
  <1> HIDE DEF tail
  <1>3. \A s \in trail : s[1] >= 0 /\ s[1] < s[2]
    BY <1>1 DEF Surroundings
  <1> HIDE DEF f, trail
  <1>4. f.rt = a /\ f.touched = e.n /\ f.divisors = {} /\ f.slots = trail /\ f.delay = 23
    BY <1>2, FrameTime DEF Frame
  <1>5. Good(f, a, e)
    BY <1>3, <1>4, DataCounted DEF Good, Surroundings
  <1>6. QED
    BY <1>5 DEF f

(* mode_meteor                                                             *)
LEMMA MeteorGood ==
    ASSUME NEW r, Runtime(r), NEW e, Surroundings(e), NEW f \in Meteor(r, e)
    PROVE  Good(f, r, e)
  <1> DEFINE Burn(a) == {MeteorAt(a, e, in) : in \in Pixels(e)}
  <1>1. PICK a \in AllocateData(r, e, e.n) : f \in IF a.data = 0 THEN Static(a) ELSE Burn(a)
    BY DEF Meteor, WithData
  <1>2. Pixels(e) \subseteq 0 .. e.n - 1
    BY PixelsOnStrip DEF Surroundings
  <1>3. ASSUME Runtime(a), a.data = e.n, e.n # 0 PROVE Good(f, a, e)
    BY <1>1, <1>2, <1>3, MeteorAtGood
  <1>4. QED
    BY <1>1, <1>3, AfterAllocation DEF Surroundings

(* mode_meteor_smooth                                                      *)
LEMMA MeteorSmoothGood ==
    ASSUME NEW r, Runtime(r), NEW e, Surroundings(e), NEW f \in MeteorSmooth(r, e)
    PROVE  Good(f, r, e)
  <1> DEFINE At(t) == ArduinoMap(t, 0, 255, 0, e.n - 1)
             Burn(a) == {MeteorAt(a, e, At(t)) : t \in {0, 254, 255}}
  <1>1. PICK a \in AllocateData(r, e, e.n) : f \in IF a.data = 0 THEN Static(a) ELSE Burn(a)
    BY DEF MeteorSmooth, WithData
  <1>2. \A t \in {0, 254, 255} : At(t) \in 0 .. e.n - 1
    <2>1. At(0) = 0 /\ At(254) = 0 /\ At(255) = e.n - 1
      BY DEF ArduinoMap, Surroundings
    <2> HIDE DEF At
    <2>2. QED
      BY <2>1 DEF Surroundings
  <1> HIDE DEF At
  <1>3. ASSUME Runtime(a), a.data = e.n, e.n # 0 PROVE Good(f, a, e)
    BY <1>1, <1>2, <1>3, MeteorAtGood
  <1>4. QED
    BY <1>1, <1>3, AfterAllocation DEF Surroundings

(* mode_railway: the second of a pair is only painted where there is one.  *)
LEMMA RailwayGood ==
    ASSUME NEW r, Runtime(r), NEW e, Surroundings(e), NEW f \in Railway(r, e)
    PROVE  Good(f, r, e)
  <1> DEFINE dur == 40 + (255 - e.speed) * 10
             rampdur == (dur * e.intensity) \div 256
             ds == IF rampdur = 0 THEN {} ELSE {rampdur}
             pairs == {<<i + 1, e.n>> : i \in {i \in 0 .. e.n - 1 : i % 2 = 0 /\ i < e.n - 1}}
  <1>1. f = [Frame(r) EXCEPT !.divisors = ds, !.slots = pairs]
    BY DEF Railway
  <1>2. rampdur = 0
    BY DEF Surroundings
  <1>3. \A s \in pairs : s[1] >= 0 /\ s[1] < s[2]
    BY DEF Surroundings
  <1> HIDE DEF rampdur, pairs
  <1>4. f.rt = r /\ f.touched = 0 /\ f.divisors = {} /\ f.slots = pairs /\ f.delay = 23
    BY <1>1, <1>2, FrameTime DEF Frame
  <1>5. QED
    BY <1>3, <1>4, DataCounted DEF Good

(* twinklefox_base: the period is never 0.                                 *)
LEMMA TwinkleFoxGood ==
    ASSUME NEW r, Runtime(r), NEW e, Surroundings(e), NEW f \in TwinkleFox(r, e)
    PROVE  Good(f, r, e)
  <1> DEFINE period == IF e.speed > 100 THEN 3 + (255 - e.speed) \div 8
                       ELSE 22 + (100 - e.speed) \div 2
  <1>1. f = [Frame([r EXCEPT !.aux0 = period]) EXCEPT !.divisors = {period}]
    BY DEF TwinkleFox
  <1>2. period > 0
    BY DEF Surroundings
  <1> HIDE DEF period
  <1>3. /\ f.rt = [r EXCEPT !.aux0 = period] /\ f.touched = 0 /\ f.divisors = {period}
        /\ f.slots = {} /\ f.delay = 23
    BY <1>1, FrameTime DEF Frame
  <1>4. Runtime(f.rt) /\ f.rt.data = r.data
    BY <1>3 DEF Runtime
  <1>5. QED
    BY <1>2, <1>3, <1>4, DataCounted DEF Good

(* ripple_base: of the fronts only what is on the segment is painted.      *)
LEMMA RippleGood ==
    ASSUME NEW r, Runtime(r), NEW e, Surroundings(e), NEW f \in Ripple(r, e)
    PROVE  Good(f, r, e)
  <1> DEFINE len   == 4 * MinOf(1 + e.n \div 4, 100)
             decay == (e.speed \div 16) + 1
             Drawn(a, o) == [Frame([a EXCEPT !.mem = o]) EXCEPT !.touched = len]
             Moved1(a) == IF a.mem.state + decay > 254 THEN <<>>
                          ELSE [a.mem EXCEPT !.state = a.mem.state + decay]
             fronts(a) == {<<v, e.n>> : v \in RippleFronts(a.mem, e)}
             Spread(a) ==
               IF a.mem = <<>>
               THEN {Drawn(a, <<>>)} \cup {Drawn(a, [state |-> 1, pos |-> p]) : p \in {0, e.n - 1}}
               ELSE {[Drawn(a, Moved1(a)) EXCEPT !.slots = fronts(a), !.divisors = {decay}]}
  <1>1. PICK a \in AllocateData(r, e, len) : f \in IF a.data = 0 THEN Static(a) ELSE Spread(a)
    BY Zenon DEF Ripple, WithData
  <1>2. len \in Nat /\ decay > 0
    BY DEF MinOf, Surroundings
  <1>3. \A s \in fronts(a) : s[1] >= 0 /\ s[1] < s[2]
    BY DEF RippleFronts
  <1> HIDE DEF len, decay, fronts, Moved1
  <1>4. ASSUME Runtime(a), a.data = len PROVE Good(f, a, e)
    <2>1. ASSUME NEW o, f = Drawn(a, o)
          PROVE  Good(f, a, e)
      <3>1. /\ f.rt = [a EXCEPT !.mem = o] /\ f.touched = len /\ f.divisors = {}
            /\ f.slots = {} /\ f.delay = 23
        BY <2>1, FrameTime DEF Frame
      <3>2. Runtime(f.rt) /\ f.rt.data = len
        BY <1>4, <3>1 DEF Runtime
      <3>3. QED
        BY <1>2, <1>4, <3>1, <3>2 DEF Good
    <2>2. ASSUME NEW o, f = [Drawn(a, o) EXCEPT !.slots = fronts(a), !.divisors = {decay}]
          PROVE  Good(f, a, e)
      <3>1. /\ f.rt = [a EXCEPT !.mem = o] /\ f.touched = len /\ f.divisors = {decay}
            /\ f.slots = fronts(a) /\ f.delay = 23
        BY <2>2, FrameTime DEF Frame
      <3>2. Runtime(f.rt) /\ f.rt.data = len
        BY <1>4, <3>1 DEF Runtime
      <3>3. QED
        BY <1>2, <1>3, <1>4, <3>1, <3>2 DEF Good
    <2> HIDE DEF Drawn
    <2>3. CASE a.data = 0
      BY <1>1, <1>4, <2>3, StaticGood
    <2>4. QED
      BY <1>1, <2>1, <2>2, <2>3
  <1>5. QED
    BY <1>1, <1>2, <1>4, AfterAllocation

-----------------------------------------------------------------------------
(* The effects of EffectsParticles. First, where mode_halloween_eyes may   *)
(* have left its eyes                                                      *)
EyesPlaces(e) == 0 .. MaxOf(0, e.n - EyeLength - 1)

(* A frame of mode_halloween_eyes: both eyes fit, and the time kept in     *)
(* call is never divided by when it is 0.                                  *)
LEMMA EyesFrameGood ==
    ASSUME NEW r, Runtime(r), NEW e, Surroundings(e), EyeLength <= e.n,
           NEW place \in EyesPlaces(e), NEW state, NEW time \in Nat,
           NEW f, f = EyesFrame(r, e, place, state, time)
    PROVE  Good(f, r, e) /\ f.rt.aux0 = place
  <1> DEFINE eyes == IF EyesState(r) < 2 THEN {<<place, e.n>>, <<place + 4, e.n>>} ELSE {}
             past == IF r.call = 0 THEN 2000 ELSE r.call
  <1>1. \A s \in eyes : s[1] >= 0 /\ s[1] < s[2]
    BY DEF EyesPlaces, EyeLength, MaxOf, Surroundings
  <1>2. past > 0
    BY DEF Runtime
  <1>3. f = [Frame([r EXCEPT !.aux0 = place, !.aux1 = state, !.call = time]) EXCEPT
               !.slots = eyes, !.divisors = {past}]
    BY DEF EyesFrame
  <1> HIDE DEF eyes, past
  <1>4. /\ f.rt = [r EXCEPT !.aux0 = place, !.aux1 = state, !.call = time] /\ f.touched = 0
        /\ f.divisors = {past} /\ f.slots = eyes /\ f.delay = 23
    BY <1>3, FrameTime DEF Frame
  <1>5. Runtime(f.rt) /\ f.rt.data = r.data /\ f.rt.aux0 = place
    BY <1>4 DEF Runtime
  <1>6. QED
    BY <1>1, <1>2, <1>4, <1>5, DataCounted DEF Good

(* mode_halloween_eyes                                                     *)
LEMMA HalloweenEyesGood ==
    ASSUME NEW r, Runtime(r), NEW e, Surroundings(e), r.aux0 \in EyesPlaces(e),
           NEW f \in HalloweenEyes(r, e)
    PROVE  Good(f, r, e) /\ f.rt.aux0 \in EyesPlaces(e)
  <1> DEFINE Spawns == IF r.aux1 = 0 THEN EyesPlaces(e) ELSE {r.aux0}
             next   == (EyesState(r) + 1) % 3
             Times  == IF next < 2 THEN {100 + (255 - e.intensity) * 10}
                       ELSE {(255 - e.speed) * 10, MaxOf((255 - e.speed) * 20 - 1, 0)}
  <1>1. CASE EyeLength > e.n
    BY <1>1, StaticGood DEF HalloweenEyes
  <1>2. CASE EyeLength <= e.n
    <2>1. HalloweenEyes(r, e) = {EyesFrame(r, e, p, EyesState(r), r.call) : p \in Spawns} \cup
                                {EyesFrame(r, e, p, next, time) : p \in Spawns, time \in Times}
      <3>1. ~(EyeLength > e.n)
        BY <1>2 DEF EyeLength, Surroundings
      <3>2. QED
        BY <3>1 DEF HalloweenEyes, EyesPlaces
    <2>2. Times \subseteq Nat /\ Spawns \subseteq EyesPlaces(e) /\ r.call \in Nat
      BY DEF MaxOf, Surroundings, Runtime
    <2> HIDE DEF Times, Spawns, next
    <2>3. \/ \E p \in Spawns : f = EyesFrame(r, e, p, EyesState(r), r.call)
          \/ \E p \in Spawns, time \in Times : f = EyesFrame(r, e, p, next, time)
      BY <2>1
    <2>4. ASSUME NEW p \in Spawns, NEW s, NEW time \in Nat, f = EyesFrame(r, e, p, s, time)
          PROVE  Good(f, r, e) /\ f.rt.aux0 \in EyesPlaces(e)
      BY <1>2, <2>2, <2>4, EyesFrameGood
    <2>5. QED
      BY <2>2, <2>3, <2>4
  <1>3. QED
    BY <1>1, <1>2 DEF EyeLength, Surroundings

(* spots_base: the zones fit in the segment.                               *)
LEMMA ZonesGood ==
    ASSUME NEW r, Runtime(r), NEW e, Surroundings(e), NEW zones \in 1 .. 2,
           NEW f, f = ZonesFrame(r, e, zones)
    PROVE  Good(f, r, e)
  <1> DEFINE zoneLen == e.n \div zones
             offset  == (e.n - zones * zoneLen) \div 2
             ends == IF zoneLen = 0 THEN {}
                     ELSE {<<offset, e.n>>, <<offset + zones * zoneLen - 1, e.n>>}
  <1>1. zoneLen \in Nat /\ zones * zoneLen <= e.n /\ zones * zoneLen >= zoneLen
    <2>1. CASE zones = 1
      BY <2>1 DEF Surroundings
    <2>2. CASE zones = 2
      BY <2>2 DEF Surroundings
    <2>3. QED
      BY <2>1, <2>2
  <1>2. offset \in Nat /\ (zoneLen # 0 => offset < e.n /\ offset + zones * zoneLen - 1 \in 0 .. e.n - 1)
    <2> DEFINE whole == zones * zoneLen
    <2>1. whole \in Nat /\ whole <= e.n /\ (zoneLen # 0 => whole > 0)
      <3>1. CASE zones = 1
        BY <1>1, <3>1 DEF Surroundings
      <3>2. CASE zones = 2
        BY <1>1, <3>2 DEF Surroundings
      <3>3. QED
        BY <3>1, <3>2
    <2> HIDE DEF whole
    <2>2. offset = (e.n - whole) \div 2
      BY DEF whole
    <2> HIDE DEF offset, zoneLen
    <2>3. offset \in Nat /\ (zoneLen # 0 => offset < e.n /\ offset + whole - 1 \in 0 .. e.n - 1)
      BY <2>1, <2>2 DEF Surroundings
    <2>4. QED
      BY <2>3 DEF whole
  <1>3. \A s \in ends : s[1] >= 0 /\ s[1] < s[2]
    <2> HIDE DEF offset, zoneLen
    <2>1. QED
      BY <1>1, <1>2 DEF Surroundings
  <1>4. f = [Frame(r) EXCEPT !.divisors = {zones}, !.slots = ends]
    BY DEF ZonesFrame
  <1> HIDE DEF ends
  <1>5. f.rt = r /\ f.touched = 0 /\ f.divisors = {zones} /\ f.slots = ends /\ f.delay = 23
    BY <1>4, FrameTime DEF Frame
  <1>6. QED
    BY <1>3, <1>5, DataCounted DEF Good

(* spots_base and mode_flow: one zone, and two                             *)
LEMMA SpotsGood ==
    ASSUME NEW r, Runtime(r), NEW e, Surroundings(e)
    PROVE  /\ \A f \in Spots(r, e) : Good(f, r, e)
           /\ \A f \in Flow(r, e) : Good(f, r, e)
  <1>1. ((e.intensity * (e.n \div 4)) \div 256) + 1 = 1
    BY DEF Surroundings
  <1>2. MaxOf(2, (e.intensity * (e.n \div 6)) \div 256 +
                 (((e.intensity * (e.n \div 6)) \div 256) % 2)) = 2
    BY DEF MaxOf, Surroundings
  <1>3. \A f \in Spots(r, e) : f = ZonesFrame(r, e, 1)
    BY <1>1 DEF Spots
  <1>4. \A f \in Flow(r, e) : f = ZonesFrame(r, e, 2)
    BY <1>2 DEF Flow
  <1>5. QED
    BY <1>3, <1>4, ZonesGood

(* mode_bouncing_balls: the first frame sets up all sixteen.               *)
LEMMA BouncingBallsGood ==
    ASSUME NEW r, Runtime(r), NEW e, Surroundings(e), NEW f \in BouncingBalls(r, e)
    PROVE  Good(f, r, e)
  <1> DEFINE numBalls == ((e.intensity * 152) \div 2550) + 1
             calm == ((255 - e.speed) * 8) \div 256 + 1
             len == SizeofBall * 16
             bytes(a) == SizeofBall * (IF a.call = 0 THEN 16 ELSE numBalls)
             Bounce(a) == {[Frame(a) EXCEPT !.touched = bytes(a), !.divisors = {calm, numBalls}]}
  <1>1. PICK a \in AllocateData(r, e, len) : f \in IF a.data = 0 THEN Static(a) ELSE Bounce(a)
    <2>1. BouncingBalls(r, e) =
            UNION {IF a.data = 0 THEN Static(a) ELSE Bounce(a) : a \in AllocateData(r, e, len)}
      BY Zenon DEF BouncingBalls, WithData
    <2> HIDE DEF Bounce, len
    <2>2. QED
      BY <2>1
  <1>2. len \in Nat /\ bytes(a) \in Nat /\ bytes(a) <= len /\ numBalls > 0 /\ calm > 0
    BY DEF SizeofBall, Surroundings
  <1> HIDE DEF len, bytes, numBalls, calm
  <1>3. ASSUME Runtime(a), a.data = len, len # 0 PROVE Good(f, a, e)
    <2>1. f = [Frame(a) EXCEPT !.touched = bytes(a), !.divisors = {calm, numBalls}]
      BY <1>1, <1>3
    <2>2. /\ f.rt = a /\ f.touched = bytes(a) /\ f.divisors = {calm, numBalls} /\ f.slots = {}
          /\ f.delay = 23
      BY <1>2, <2>1, FrameTime DEF Frame
    <2>3. QED
      BY <1>2, <1>3, <2>2 DEF Good
  <1>4. QED
    BY <1>1, <1>2, <1>3, AfterAllocation

(* sinelon_base: where the dot was is on the strip, and its mirror image   *)
(* too.                                                                    *)
LEMMA SinelonGood ==
    ASSUME NEW r, Runtime(r), NEW e, Surroundings(e), r.aux0 \in 0 .. e.n - 1,
           NEW f \in Sinelon(r, e)
    PROVE  Good(f, r, e) /\ f.rt.aux0 \in 0 .. e.n - 1
  <1> DEFINE from(pos) == IF r.call = 0 THEN pos ELSE r.aux0
             Trail(pos) == {<<i, e.n>> : i \in {from(pos), pos, e.n - 1 - from(pos), e.n - 1 - pos}}
             F(pos) == [Frame([r EXCEPT !.aux0 = pos]) EXCEPT !.slots = Trail(pos)]
  <1>1. PICK pos \in {0, e.n \div 2, e.n - 1} : f = F(pos)
    <2>1. Sinelon(r, e) = {F(pos) : pos \in {0, e.n \div 2, e.n - 1}}
      BY DEF Sinelon
    <2> HIDE DEF F
    <2>2. QED
      BY <2>1
  <1>2. pos \in 0 .. e.n - 1
    BY DEF Surroundings
  <1>3. \A s \in Trail(pos) : s[1] >= 0 /\ s[1] < s[2]
    BY <1>2 DEF Surroundings
  <1> HIDE DEF Trail
  <1>4. /\ f.rt = [r EXCEPT !.aux0 = pos] /\ f.touched = 0 /\ f.divisors = {}
        /\ f.slots = Trail(pos) /\ f.delay = 23
    BY <1>1, FrameTime DEF Frame
  <1>5. Runtime(f.rt) /\ f.rt.data = r.data /\ f.rt.aux0 = pos
    BY <1>4 DEF Runtime
  <1>6. QED
    BY <1>2, <1>3, <1>4, <1>5, DataCounted DEF Good

(* mode_popcorn                                                            *)
LEMMA PopcornGood ==
    ASSUME NEW r, Runtime(r), NEW e, Surroundings(e), NEW f \in Popcorn(r, e)
    PROVE  Good(f, r, e)
  <1> DEFINE len == SizeofSpark * 24
             bytes == SizeofSpark * MaxOf(1, (e.intensity * 24) \div 255)
  <1>1. PICK a \in AllocateData(r, e, len) :
          f \in IF a.data = 0 THEN Static(a) ELSE {[Frame(a) EXCEPT !.touched = bytes]}
    BY DEF Popcorn, WithData
  <1>2. len \in Nat /\ bytes \in Nat /\ bytes <= len
    BY DEF SizeofSpark, MaxOf, Surroundings
  <1> HIDE DEF len, bytes
  <1>3. ASSUME Runtime(a), a.data = len, len # 0 PROVE Good(f, a, e)
    <2>1. f = [Frame(a) EXCEPT !.touched = bytes]
      BY <1>1, <1>3
    <2>2. f.rt = a /\ f.touched = bytes /\ f.divisors = {} /\ f.slots = {} /\ f.delay = 23
      BY <1>2, <2>1, FrameTime DEF Frame
    <2>3. QED
      BY <1>2, <1>3, <2>2 DEF Good
  <1>4. QED
    BY <1>1, <1>2, <1>3, AfterAllocation

(* candle: all candles but the first have three bytes each.                *)
LEMMA CandleMultiGood ==
    ASSUME NEW r, Runtime(r), NEW e, Surroundings(e), NEW f \in CandleMulti(r, e)
    PROVE  Good(f, r, e)
  <1> DEFINE len   == (e.n - 1) * 3
             bytes == (e.n - 2) * 3 + 3
  <1>1. PICK a \in AllocateData(r, e, len) :
          f \in IF a.data = 0 THEN Candle(a, e) ELSE {[Frame(a) EXCEPT !.touched = bytes]}
    BY DEF CandleMulti
  <1>2. len \in Nat /\ bytes = len
    BY DEF Surroundings
  <1> HIDE DEF len, bytes
  <1>3. Runtime(a) /\ a.data \in {0, len} /\ a.data \in {r.data} \cup 0 .. e.free
    BY <1>2, Allocated
  <1>4. CASE f = Frame(a)
    BY <1>3, <1>4, PlainGood, DataCounted, GoodWithData
  <1>5. CASE f = [Frame(a) EXCEPT !.touched = bytes] /\ a.data = len
    <2>1. f.rt = a /\ f.touched = len /\ f.divisors = {} /\ f.slots = {} /\ f.delay = 23
      BY <1>2, <1>5, FrameTime DEF Frame
    <2>2. QED
      BY <1>2, <1>3, <1>5, <2>1 DEF Good
  <1>6. QED
    BY <1>1, <1>3, <1>4, <1>5 DEF Candle

(* mode_starburst: fragments are cut at both ends of the segment.          *)
LEMMA StarburstGood ==
    ASSUME NEW r, Runtime(r), NEW e, Surroundings(e), NEW f \in Starburst(r, e)
    PROVE  Good(f, r, e)
  <1> DEFINE len == SizeofStar * NumStars(e)
             Locs == {-2, 0, e.n - 2, e.n, e.n + 1}
             Nums == {3, 5 + e.intensity \div 32}
  <1>1. PICK a \in AllocateData(r, e, len) :
          f \in IF a.data = 0 THEN Static(a) ELSE StarsFrames(a, e)
    BY DEF Starburst, WithData
  <1>2. len \in Nat
    BY DEF SizeofStar, NumStars, MinOf, Surroundings
  <1>3. Locs \subseteq Int /\ Nums \subseteq 0 .. 12
    BY DEF Surroundings
  <1>4. ASSUME Runtime(a), a.data = len, len # 0 PROVE Good(f, a, e)
    <2>1. PICK loc \in Locs, size \in {0, 2}, num \in Nums :
            f = StarsFrame(a, e, loc, size, num)
      <3>1. f \in StarsFrames(a, e)
        BY <1>1, <1>4
      <3>2. QED
        BY <3>1 DEF StarsFrames
    <2> HIDE DEF Locs, Nums
    <2> DEFINE sparks == {<<p, e.n>> : p \in StarStart(loc, size) .. StarEnd(e, loc, size) - 1}
                          \cup {<<num, 12 + 1>>}
    <2>2. \A s \in sparks : s[1] >= 0 /\ s[1] < s[2]
      <3>1. StarStart(loc, size) \in Nat /\ StarEnd(e, loc, size) \in Int
            /\ StarEnd(e, loc, size) <= e.n
        BY <1>3 DEF StarStart, StarEnd, MaxOf, MinOf, Surroundings
      <3>2. \A p \in StarStart(loc, size) .. StarEnd(e, loc, size) - 1 : p \in Nat /\ p < e.n
        BY <3>1 DEF Surroundings
      <3>3. QED
        BY <1>3, <3>2 DEF Surroundings
    <2>3. f = [Frame(a) EXCEPT !.touched = len, !.slots = sparks]
      BY <2>1 DEF StarsFrame
    <2> HIDE DEF sparks, len
    <2>4. f.rt = a /\ f.touched = len /\ f.divisors = {} /\ f.slots = sparks /\ f.delay = 23
      BY <2>3, FrameTime DEF Frame
    <2>5. QED
      BY <1>2, <1>4, <2>2, <2>4 DEF Good
  <1>5. QED
    BY <1>1, <1>2, <1>4, AfterAllocation

(* mode_percent: step never passes what is to be lit.                      *)
LEMMA PercentGood ==
    ASSUME NEW r, Runtime(r), NEW e, Surroundings(e), r.step \in 0 .. e.n,
           NEW f \in Percent(r, e)
    PROVE  Good(f, r, e) /\ f.rt.step \in 0 .. e.n
  <1> DEFINE percent == MinOf(200, e.intensity)
             active  == (e.n * (IF percent < 100 THEN percent ELSE 200 - percent)) \div 100
             size    == IF e.speed = 255 THEN 255 ELSE (1 + (e.speed * e.n) \div 2048) % 256
             step    == IF active > r.step THEN MinOf(r.step + size, active)
                        ELSE MaxOf(r.step - size, active)
  <1>1. active = 0
    BY DEF MinOf, Surroundings
  <1>2. size \in Nat
    BY DEF Surroundings
  <1>3. f = [Frame([r EXCEPT !.step = step]) EXCEPT !.slots = {<<r.step, e.n + 1>>}]
    BY DEF Percent
  <1> HIDE DEF active, size
  <1>4. step \in 0 .. e.n
    BY <1>1, <1>2 DEF MaxOf, Surroundings
  <1> HIDE DEF step
  <1>5. /\ f.rt = [r EXCEPT !.step = step] /\ f.touched = 0 /\ f.divisors = {}
        /\ f.slots = {<<r.step, e.n + 1>>} /\ f.delay = 23
    BY <1>3, FrameTime DEF Frame
  <1>6. Runtime(f.rt) /\ f.rt.data = r.data /\ f.rt.step = step
    BY <1>5 DEF Runtime
  <1>7. QED
    BY <1>4, <1>5, <1>6, DataCounted DEF Good, Surroundings

(* mode_heartbeat                                                          *)
LEMMA HeartbeatGood ==
    ASSUME NEW r, Runtime(r), NEW e, Surroundings(e), NEW f \in Heartbeat(r, e)
    PROVE  Good(f, r, e)
  <1> DEFINE ds == {40 + e.speed \div 16, 2048 + e.intensity}
  <1>1. \A d \in ds : d > 0
    BY DEF Surroundings
  <1> DEFINE F(b) == [Frame([r EXCEPT !.aux0 = b]) EXCEPT !.divisors = ds]
  <1>2. PICK b \in {r.aux0, 1, 0} : f = F(b)
    <2>1. Heartbeat(r, e) = {F(b) : b \in {r.aux0, 1, 0}}
      BY Zenon DEF Heartbeat
    <2> HIDE DEF F
    <2>2. QED
      BY <2>1
  <1> HIDE DEF ds
  <1>3. /\ f.rt = [r EXCEPT !.aux0 = b] /\ f.touched = 0 /\ f.divisors = ds
        /\ f.slots = {} /\ f.delay = 23
    BY <1>2, FrameTime DEF Frame
  <1>4. Runtime(f.rt) /\ f.rt.data = r.data
    BY <1>3 DEF Runtime
  <1>5. QED
    BY <1>1, <1>3, <1>4, DataCounted DEF Good

(* mode_sunrise: the length of the rise is never 0.                        *)
LEMMA SunriseGood ==
    ASSUME NEW r, Runtime(r), NEW e, Surroundings(e), NEW f \in Sunrise(r, e)
    PROVE  Good(f, r, e)
  <1> DEFINE durMins == IF e.speed > 60 THEN e.speed - 60 ELSE e.speed
             ds == {e.n} \cup (IF e.speed \in 1 .. 120 THEN {durMins * 600} ELSE {})
             middle == {<<e.n \div 2, e.n>>, <<e.n - e.n \div 2 - 1, e.n>>}
             start == e.speed
  <1>1. \A d \in ds : d > 0
    BY DEF Surroundings
  <1>2. \A s \in middle : s[1] >= 0 /\ s[1] < s[2]
    BY DEF Surroundings
  <1>3. f = [Frame([r EXCEPT !.aux0 = start]) EXCEPT !.divisors = ds, !.slots = middle]
    BY DEF Sunrise
  <1> HIDE DEF ds, middle, start
  <1>4. /\ f.rt = [r EXCEPT !.aux0 = start] /\ f.touched = 0 /\ f.divisors = ds
        /\ f.slots = middle /\ f.delay = 23
    BY <1>3, FrameTime DEF Frame
  <1>5. Runtime(f.rt) /\ f.rt.data = r.data
    BY <1>4 DEF Runtime
  <1>6. QED
    BY <1>1, <1>2, <1>4, <1>5, DataCounted DEF Good

(* mode_twinkleup                                                          *)
LEMMA TwinkleUpGood ==
    ASSUME NEW r, Runtime(r), NEW e, Surroundings(e), NEW f \in TwinkleUp(r, e)
    PROVE  Good(f, r, e)
  <1>1. 256 - e.speed > 0
    BY DEF Surroundings
  <1>2. /\ f.rt = r /\ f.touched = 0 /\ f.divisors = {256 - e.speed} /\ f.slots = {}
        /\ f.delay = 23
    BY FrameTime DEF TwinkleUp, Frame
  <1>3. QED
    BY <1>1, <1>2, DataCounted DEF Good

(* mode_noisepal                                                           *)
LEMMA NoisePalGood ==
    ASSUME NEW r, Runtime(r), NEW e, Surroundings(e), NEW f \in NoisePal(r, e)
    PROVE  Good(f, r, e)
  <1> DEFINE len == SizeofPalette * 2
  <1>1. PICK a \in AllocateData(r, e, len) :
          f \in IF a.data = 0 THEN Static(a) ELSE {[Frame(a) EXCEPT !.touched = len]}
    BY DEF NoisePal, WithData
  <1>2. len \in Nat
    BY DEF SizeofPalette
  <1> HIDE DEF len
  <1>3. ASSUME Runtime(a), a.data = len, len # 0 PROVE Good(f, a, e)
    <2>1. f = [Frame(a) EXCEPT !.touched = len]
      BY <1>1, <1>3
    <2>2. f.rt = a /\ f.touched = len /\ f.divisors = {} /\ f.slots = {} /\ f.delay = 23
      BY <2>1, FrameTime DEF Frame
    <2>3. QED
      BY <1>2, <1>3, <2>2 DEF Good
  <1>4. QED
    BY <1>1, <1>2, <1>3, AfterAllocation

(* mode_chunchun: no bird is past the end, and short strips have none.     *)
LEMMA ChunchunGood ==
    ASSUME NEW r, Runtime(r), NEW e, Surroundings(e), NEW f \in Chunchun(r, e)
    PROVE  Good(f, r, e)
  <1> DEFINE numBirds == e.n \div 4
             ds == IF numBirds = 0 THEN {} ELSE {numBirds}
             bird(megumin) == (megumin * e.n) \div 65536
  <1>1. PICK megumin \in {0, 65535} :
          f = [Frame(r) EXCEPT !.divisors = ds, !.slots = {<<bird(megumin), e.n>>}]
    BY DEF Chunchun
  <1>2. \A d \in ds : d > 0
    BY DEF Surroundings
  <1>3. bird(megumin) \in 0 .. e.n - 1
    <2> DEFINE q == (65535 * e.n) \div 65536
    <2>1. q \in Int /\ 65536 * q <= 65535 * e.n /\ 65535 * e.n < 65536 * q + 65536
      BY DEF Surroundings
    <2> HIDE DEF q
    <2>2. q \in 0 .. e.n - 1
      BY <2>1 DEF Surroundings
    <2>3. bird(0) = 0 /\ bird(65535) = q
      BY DEF Surroundings, q
    <2> HIDE DEF bird
    <2>4. QED
      BY <2>2, <2>3 DEF Surroundings
  <1> HIDE DEF ds, bird
  <1>4. /\ f.rt = r /\ f.touched = 0 /\ f.divisors = ds /\ f.slots = {<<bird(megumin), e.n>>}
        /\ f.delay = 23
    BY <1>1, FrameTime DEF Frame
  <1>5. QED
    BY <1>2, <1>3, <1>4, DataCounted DEF Good, Surroundings

(* mode_running_random                                                     *)
LEMMA RunningRandomGood ==
    ASSUME NEW r, Runtime(r), NEW e, NEW f \in RunningRandom(r, e)
    PROVE  Good(f, r, e)
  <1> DEFINE next == IF r.step + 1 > (255 - e.intensity) \div 16 THEN 0 ELSE r.step + 1
  <1>1. f = Frame(r) \/ f = Frame([r EXCEPT !.step = next])
    BY DEF RunningRandom
  <1> HIDE DEF next
  <1>2. Runtime([r EXCEPT !.step = next]) /\ [r EXCEPT !.step = next].data = r.data
    BY DEF Runtime
  <1>3. QED
    BY <1>1, <1>2, PlainGood

(* mode_exploding_fireworks: once the flare is out of phase 3, the first   *)
(* spark is dark; in phase 3 there is one more spark than the first, or it *)
(* is dark.                                                                *)
SparksOf(e) == MinOf(2 + e.n \div 2, 80)

Launched(mem, e) ==
    /\ mem = [flare |-> mem.flare, col |-> mem.col]
    /\ mem.flare \in 0 .. e.n - 1
    /\ mem.col \in Nat

RocketKept(r, e) ==
    /\ r.aux0 \in 0 .. 15
    /\ \/ r.mem = <<>>
       \/ /\ Launched(r.mem, e)
          /\ \/ r.mem.col <= 4
             \/ r.aux0 = 3 /\ MinOf(r.mem.flare, SparksOf(e)) > 1

(* A frame of mode_exploding_fireworks that touches no more sparks than    *)
(* there are                                                               *)
LEMMA RocketFrameGood ==
    ASSUME NEW a, Runtime(a), NEW e, NEW phase, NEW mem, NEW touched,
           SizeofSpark * touched <= a.data, NEW f, f = RocketFrame(a, phase, mem, touched)
    PROVE  Good(f, a, e) /\ f.rt.aux0 = phase /\ f.rt.mem = mem
  <1> DEFINE bytes == SizeofSpark * touched
  <1>1. bytes <= a.data
    OBVIOUS
  <1>2. f = [Frame([a EXCEPT !.aux0 = phase, !.mem = mem]) EXCEPT !.touched = bytes]
    BY DEF RocketFrame
  <1> HIDE DEF bytes
  <1>3. /\ f.rt = [a EXCEPT !.aux0 = phase, !.mem = mem] /\ f.touched = bytes
        /\ f.divisors = {} /\ f.slots = {} /\ f.delay = 23
    BY <1>2, FrameTime DEF Frame
  <1>4. Runtime(f.rt) /\ f.rt.data = a.data /\ f.rt.aux0 = phase /\ f.rt.mem = mem
    BY <1>3 DEF Runtime
  <1>5. QED
    BY <1>1, <1>3, <1>4, DataCounted DEF Good

(* mode_exploding_fireworks: at most as many sparks are touched as there   *)
(* is room for, and the phases follow each other as RocketKept says.       *)
LEMMA ExplodingFireworksGood ==
    ASSUME NEW r, Runtime(r), NEW e, Surroundings(e), RocketKept(r, e),
           NEW f \in ExplodingFireworks(r, e)
    PROVE  Good(f, r, e) /\ RocketKept(f.rt, e)
  <1> DEFINE len == SizeofSpark * SparksOf(e)
             mem(a)     == IF a.mem = <<>> THEN Grounded ELSE a.mem
             nSparks(a) == MinOf(mem(a).flare, SparksOf(e))
             col(a)     == Ignited(a.aux0, mem(a), nSparks(a))
             faded(a)   == IF nSparks(a) > 1 /\ col(a) > 3 THEN col(a) - 4 ELSE col(a)
             Explode(a) ==
                CASE a.aux0 < 2 ->
                       {RocketFrame(a, 1, [mem(a) EXCEPT !.flare = p], 1)
                            : p \in {0, 1, e.n - 1} \cap 0 .. e.n - 1}
                       \cup {RocketFrame(a, 2, mem(a), 1)}
                  [] a.aux0 \in {2, 3} /\ col(a) > 4 ->
                       {RocketFrame(a, 3, [mem(a) EXCEPT !.col = faded(a)], MaxOf(2, nSparks(a)))}
                  [] a.aux0 \in {2, 3} /\ col(a) <= 4 ->
                       {RocketFrame(a, wait, [mem(a) EXCEPT !.col = col(a)], MaxOf(2, nSparks(a)))
                            : wait \in {6, 15}}
                  [] OTHER ->
                       {RocketFrame(a, IF a.aux0 - 1 < 4 THEN 0 ELSE a.aux0 - 1, mem(a), 0)}
  <1>1. PICK a \in AllocateData(r, e, len) : f \in IF a.data = 0 THEN Static(a) ELSE Explode(a)
    <2>1. ExplodingFireworks(r, e) =
            UNION {IF a.data = 0 THEN Static(a) ELSE Explode(a) : a \in AllocateData(r, e, len)}
      BY Zenon DEF ExplodingFireworks, WithData, SparksOf
    <2> HIDE DEF Explode, len
    <2>2. QED
      BY <2>1
  <1>2. SparksOf(e) \in Nat /\ SparksOf(e) >= 2 /\ len \in Nat
    BY DEF SizeofSpark, SparksOf, MinOf, Surroundings
  <1>3. /\ Runtime(a) /\ a.data \in {0, len} /\ a.data \in {r.data} \cup 0 .. e.free
        /\ a.aux0 = r.aux0 /\ (a.mem = r.mem \/ a.mem = <<>>)
    BY <1>2, Allocated
  <1>4. CASE a.data = 0
    <2>1. f.rt = a /\ Good(f, a, e)
      BY <1>1, <1>3, <1>4, StaticGood
    <2>2. RocketKept(a, e)
      BY <1>3 DEF RocketKept
    <2>3. QED
      BY <1>3, <2>1, <2>2, DataCounted, GoodWithData
  <1>5. CASE a.data = len /\ a.data # 0
    <2> DEFINE m == mem(a)
               sparks == nSparks(a)
               c == col(a)
    <2>1. /\ Launched(m, e) /\ sparks = MinOf(m.flare, SparksOf(e))
          /\ m.col <= 4 \/ (a.aux0 = 3 /\ sparks > 1)
      BY <1>3 DEF RocketKept, Launched, Grounded, Surroundings
    <2>2. sparks \in Nat /\ sparks <= SparksOf(e)
      BY <1>2, <2>1 DEF Launched, MinOf
    <2>3. c = (IF a.aux0 = 2 /\ sparks > 1 THEN 345 ELSE m.col) /\ c \in Nat
      BY <2>1 DEF Ignited, Launched
    <2>4. f \in Explode(a)
      BY <1>1, <1>5
    <2>5. a.aux0 \in 0 .. 15
      BY <1>3 DEF RocketKept
    <2>6. ASSUME NEW phase \in 0 .. 15, NEW to, NEW touched \in Nat, touched <= SparksOf(e),
                 f = RocketFrame(a, phase, to, touched), Launched(to, e),
                 to.col <= 4 \/ (phase = 3 /\ MinOf(to.flare, SparksOf(e)) > 1)
          PROVE  Good(f, r, e) /\ RocketKept(f.rt, e)
      <3>1. SizeofSpark * touched <= a.data
        BY <1>2, <1>5, <2>6 DEF SizeofSpark
      <3>2. Good(f, a, e) /\ f.rt.aux0 = phase /\ f.rt.mem = to
        <4>1. Runtime(a) /\ f = RocketFrame(a, phase, to, touched)
          BY <1>3, <2>6
        <4> HIDE DEF len, Explode
        <4>2. QED
          BY <3>1, <4>1, RocketFrameGood
      <3>3. RocketKept(f.rt, e)
        BY <2>6, <3>2 DEF RocketKept
      <3>4. QED
        BY <1>3, <3>2, <3>3, DataCounted, GoodWithData
    <2>7. CASE a.aux0 < 2
      <3>1. \/ \E p \in 0 .. e.n - 1 : f = RocketFrame(a, 1, [m EXCEPT !.flare = p], 1)
            \/ f = RocketFrame(a, 2, m, 1)
        BY <2>4, <2>7
      <3> HIDE DEF m, sparks, c, Explode
      <3>2. m.col <= 4
        BY <2>1, <2>7
      <3>3. ASSUME NEW p \in 0 .. e.n - 1, NEW to, to = [m EXCEPT !.flare = p]
            PROVE  Launched(to, e) /\ to.col = m.col
        BY <2>1, <3>3 DEF Launched
      <3>4. ASSUME NEW p \in 0 .. e.n - 1, NEW to, to = [m EXCEPT !.flare = p],
                   f = RocketFrame(a, 1, to, 1)
            PROVE  Good(f, r, e) /\ RocketKept(f.rt, e)
        BY <1>2, <2>6, <3>2, <3>3, <3>4
      <3>5. CASE f = RocketFrame(a, 2, m, 1)
        BY <1>2, <2>1, <2>6, <3>2, <3>5
      <3>6. QED
        BY <3>1, <3>4, <3>5
    <2>8. CASE a.aux0 \in {2, 3} /\ c > 4
      <3>1. f = RocketFrame(a, 3, [m EXCEPT !.col = faded(a)], MaxOf(2, sparks))
        <4> DEFINE lit == RocketFrame(a, 3, [m EXCEPT !.col = faded(a)], MaxOf(2, sparks))
        <4> HIDE DEF mem, nSparks, col, faded
        <4>0. ~(col(a) <= 4) /\ ~(a.aux0 < 2)
          BY <2>3, <2>8
        <4>1. Explode(a) = {lit}
          BY <2>8, <4>0
        <4> HIDE DEF lit
        <4>2. f = lit
          BY <2>4, <4>1
        <4>3. QED
          BY <4>2 DEF lit
      <3> DEFINE left == faded(a)
                 to == [m EXCEPT !.col = left]
      <3>2. left \in Nat /\ sparks > 1
        BY <2>1, <2>2, <2>3, <2>8
      <3> HIDE DEF m, sparks, c, Explode, left
      <3>3. Launched(to, e) /\ MinOf(to.flare, SparksOf(e)) = sparks
        BY <2>1, <3>2 DEF Launched
      <3>4. f = RocketFrame(a, 3, to, MaxOf(2, sparks))
        BY <3>1 DEF left
      <3>5. MaxOf(2, sparks) \in Nat /\ MaxOf(2, sparks) <= SparksOf(e)
        BY <1>2, <2>2 DEF MaxOf
      <3> HIDE DEF to
      <3>6. QED
        BY <2>6, <3>2, <3>3, <3>4, <3>5
    <2>9. CASE a.aux0 \in {2, 3} /\ c <= 4
      <3>1. PICK wait \in {6, 15} : f = RocketFrame(a, wait, [m EXCEPT !.col = c], MaxOf(2, sparks))
        BY <2>3, <2>4, <2>9
      <3> DEFINE to == [m EXCEPT !.col = c]
      <3> HIDE DEF m, sparks, c, Explode
      <3>2. Launched(to, e) /\ to.col <= 4
        BY <2>1, <2>3, <2>9 DEF Launched
      <3>3. MaxOf(2, sparks) \in Nat /\ MaxOf(2, sparks) <= SparksOf(e)
        BY <1>2, <2>2 DEF MaxOf
      <3>4. f = RocketFrame(a, wait, to, MaxOf(2, sparks))
        BY <3>1
      <3> HIDE DEF to
      <3>5. QED
        BY <2>6, <3>2, <3>3, <3>4
    <2>10. CASE ~(a.aux0 < 2) /\ ~(a.aux0 \in {2, 3})
      <3> DEFINE next == IF a.aux0 - 1 < 4 THEN 0 ELSE a.aux0 - 1
      <3>1. f = RocketFrame(a, next, m, 0)
        BY <2>4, <2>10
      <3>2. next \in 0 .. 15 /\ m.col <= 4
        BY <2>1, <2>5, <2>10
      <3> HIDE DEF m, sparks, c, Explode, next
      <3>3. QED
        BY <1>2, <2>1, <2>6, <3>1, <3>2
    <2>11. QED
      BY <2>3, <2>7, <2>8, <2>9, <2>10
  <1>6. QED
    BY <1>3, <1>4, <1>5

(* mode_drip: a drop that is on its way is on the strip.                   *)
IsDrop(d, e) ==
    /\ d = [state |-> d.state, pos |-> d.pos]
    /\ d.state \in {1, 2, 5}
    /\ d.pos \in 0 .. e.n - 1

DropKept(r, e) == r.mem = <<>> \/ IsDrop(r.mem, e)

(* A drop that falls or bounces stays on the strip or is gone.             *)
LEMMA FallKept ==
    ASSUME NEW e, Surroundings(e), NEW d, IsDrop(d, e), d.state \in {2, 5}, NEW to \in Fall(d, e)
    PROVE  to = <<>> \/ IsDrop(to, e)
  <1>1. CASE d.pos > 0
    <2>1. Fall(d, e) = {[d EXCEPT !.pos = p] : p \in {0, d.pos}}
      <3>1. ~(d.pos = 0)
        BY <1>1
      <3>2. QED
        BY <1>1, <3>1 DEF Fall
    <2>2. PICK p \in {0, d.pos} : to = [d EXCEPT !.pos = p]
      BY <2>1
    <2>3. p \in 0 .. e.n - 1
      BY <2>2 DEF IsDrop, Surroundings
    <2>4. QED
      BY <2>2, <2>3 DEF IsDrop
  <1>2. CASE d.pos = 0 /\ d.state = 2
    <2>1. Fall(d, e) = {[state |-> 5, pos |-> p] : p \in {0, e.n \div 2}}
      BY <1>2 DEF Fall
    <2>2. PICK p \in {0, e.n \div 2} : to = [state |-> 5, pos |-> p]
      BY <2>1
    <2>3. p \in 0 .. e.n - 1
      BY <2>2 DEF Surroundings
    <2>4. QED
      BY <2>2, <2>3 DEF IsDrop
  <1>3. CASE d.pos = 0 /\ d.state = 5
    BY <1>3 DEF Fall
  <1>4. QED
    BY <1>1, <1>2, <1>3 DEF IsDrop, Surroundings

(* So does one that forms.                                                 *)
LEMMA DropsKept ==
    ASSUME NEW e, Surroundings(e), NEW d, IsDrop(d, e), NEW to \in Drops(d, e)
    PROVE  to = <<>> \/ IsDrop(to, e)
  <1> DEFINE falling == [d EXCEPT !.state = 2]
  <1>1. CASE d.state = 1
    <2>1. to = d \/ to \in Fall(falling, e)
      BY <1>1 DEF Drops
    <2>2. IsDrop(falling, e) /\ falling.state = 2
      BY DEF IsDrop
    <2> HIDE DEF falling
    <2>3. QED
      BY <2>1, <2>2, FallKept
  <1>2. CASE d.state # 1
    BY <1>2, FallKept DEF Drops, IsDrop
  <1>3. QED
    BY <1>1, <1>2

(* mode_drip                                                               *)
LEMMA DripGood ==
    ASSUME NEW r, Runtime(r), NEW e, Surroundings(e), DropKept(r, e), NEW f \in Drip(r, e)
    PROVE  Good(f, r, e) /\ DropKept(f.rt, e)
  <1> DEFINE len == SizeofSpark * 4
             from(a) == IF a.mem = <<>> THEN NewDrop(e) ELSE a.mem
             Fallen(a) == {DropFrame(a, e, d) : d \in Drops(from(a), e)}
  <1>1. PICK a \in AllocateData(r, e, len) : f \in IF a.data = 0 THEN Static(a) ELSE Fallen(a)
    <2>1. Drip(r, e) =
            UNION {IF a.data = 0 THEN Static(a) ELSE Fallen(a) : a \in AllocateData(r, e, len)}
      BY Zenon DEF Drip, WithData
    <2> HIDE DEF Fallen, len
    <2>2. QED
      BY <2>1
  <1>2. len \in Nat
    BY DEF SizeofSpark
  <1>3. /\ Runtime(a) /\ a.data \in {0, len} /\ a.data \in {r.data} \cup 0 .. e.free
        /\ (a.mem = r.mem \/ a.mem = <<>>)
    BY <1>2, Allocated
  <1>4. CASE a.data = 0
    <2>1. f.rt = a /\ Good(f, a, e)
      BY <1>1, <1>3, <1>4, StaticGood
    <2>2. DropKept(a, e)
      BY <1>3 DEF DropKept
    <2>3. QED
      BY <1>3, <2>1, <2>2, DataCounted, GoodWithData
  <1>5. CASE a.data = len /\ a.data # 0
    <2>1. IsDrop(from(a), e)
      <3>1. IsDrop(NewDrop(e), e)
        BY DEF NewDrop, IsDrop, Surroundings
      <3>2. QED
        BY <1>3, <3>1 DEF DropKept
    <2> HIDE DEF from
    <2>2. PICK d \in Drops(from(a), e) : f = DropFrame(a, e, d)
      BY <1>1, <1>5
    <2>3. d = <<>> \/ IsDrop(d, e)
      BY <2>1, <2>2, DropsKept
    <2> DEFINE at == IF d = <<>> THEN {}
                     ELSE {<<d.pos, e.n>>} \cup
                          {<<d.pos + i, 65536>> : i \in IF d.state = 1 THEN {} ELSE 1 .. 6 - d.state}
               bytes == SizeofSpark * (1 + e.intensity \div 64)
    <2>4. \A s \in at : s[1] >= 0 /\ s[1] < s[2]
      BY <2>3 DEF IsDrop, Surroundings
    <2>5. bytes <= a.data
      BY <1>5 DEF SizeofSpark, Surroundings
    <2>6. f = [Frame([a EXCEPT !.mem = d]) EXCEPT !.touched = bytes, !.slots = at]
      BY <2>2 DEF DropFrame
    <2> HIDE DEF at, bytes, len
    <2>7. /\ f.rt = [a EXCEPT !.mem = d] /\ f.touched = bytes /\ f.divisors = {}
          /\ f.slots = at /\ f.delay = 23
      BY <2>6, FrameTime DEF Frame
    <2>8. Runtime(f.rt) /\ f.rt.data = a.data /\ f.rt.mem = d
      BY <1>3, <2>7 DEF Runtime
    <2>9. Good(f, a, e)
      BY <1>3, <2>4, <2>5, <2>7, <2>8, DataCounted DEF Good
    <2>10. DropKept(f.rt, e)
      BY <2>3, <2>8 DEF DropKept
    <2>11. QED
      BY <1>3, <2>9, <2>10, DataCounted, GoodWithData
  <1>6. QED
    BY <1>3, <1>4, <1>5

(* mode_dancing_shadows: two spotlights at this intensity                  *)
LEMMA DancingShadowsGood ==
    ASSUME NEW r, Runtime(r), NEW e, Surroundings(e), NEW f \in DancingShadows(r, e)
    PROVE  Good(f, r, e)
  <1> DEFINE numSpotlights == ArduinoMap(e.intensity, 0, 255, 2, 50)
             initialize    == r.aux0 # numSpotlights
             len == SizeofSpotlight * numSpotlights
             q == [r EXCEPT !.aux0 = numSpotlights]
             to(a, w) == IF initialize THEN [width |-> w] ELSE a.mem
             ds(w) == IF initialize /\ w > 1 THEN {w - 1} ELSE {}
             F(a, w) == [Frame([a EXCEPT !.mem = IF initialize THEN [width |-> w] ELSE @]) EXCEPT
                           !.touched = len, !.divisors = ds(w)]
             Dance(a) == {F(a, w) : w \in {1, 9}}
  <1>1. PICK a \in AllocateData(q, e, len) : f \in IF a.data = 0 THEN Static(a) ELSE Dance(a)
    <2>1. DancingShadows(r, e) =
            UNION {IF a.data = 0 THEN Static(a) ELSE Dance(a) : a \in AllocateData(q, e, len)}
      BY Zenon DEF DancingShadows, WithData
    <2> HIDE DEF Dance, len, q
    <2>2. QED
      BY <2>1
  <1>2. len \in Nat
    BY DEF SizeofSpotlight, ArduinoMap, Surroundings
  <1> HIDE DEF numSpotlights, len, initialize
  <1>3. Runtime(q) /\ q.data = r.data
    BY DEF Runtime
  <1> HIDE DEF q
  <1>4. ASSUME Runtime(a), a.data = len, len # 0 PROVE Good(f, a, e)
    <2>1. PICK w \in {1, 9} : f = F(a, w)
      <3> HIDE DEF F
      <3>1. QED
        BY <1>1, <1>4
    <2>2. \A d \in ds(w) : d > 0
      OBVIOUS
    <2> DEFINE mem == to(a, w)
    <2>3. f = [Frame([a EXCEPT !.mem = mem]) EXCEPT !.touched = len, !.divisors = ds(w)]
      BY <2>1
    <2> HIDE DEF ds, mem
    <2>4. /\ f.rt = [a EXCEPT !.mem = mem] /\ f.touched = len /\ f.divisors = ds(w)
          /\ f.slots = {} /\ f.delay = 23
      BY <2>3, FrameTime DEF Frame
    <2>5. Runtime(f.rt) /\ f.rt.data = len
      BY <1>4, <2>4 DEF Runtime
    <2>6. QED
      BY <1>2, <1>4, <2>2, <2>4, <2>5 DEF Good
  <1> HIDE DEF Dance
  <1>5. Good(f, q, e)
    BY <1>1, <1>2, <1>3, <1>4, AfterAllocation
  <1>6. QED
    BY <1>3, <1>5 DEF Good

-----------------------------------------------------------------------------
(* What the effects may leave in their counters, and what they rely on to  *)
(* find there                                                              *)
CountersKept(m, r, e) ==
    /\ m \in {13, 14} => r.aux0 \in 0 .. 8
    /\ m \in {17, 37, 38, 44, 53} => r.aux0 \in 0 .. 1
    /\ m \in {34, 35} => r.aux0 \in 0 .. 3
    /\ m \in {20, 41, 92, 93, 94} => r.aux0 \in 0 .. e.n - 1
    /\ m \in {27, 31, 32, 40, 60} => r.step \in 0 .. e.n - 1
    /\ m = 27 => r.aux1 \in 0 .. 1
    /\ m \in {42, 43} => r.aux0 \in SparkPlaces(e) /\ r.aux1 \in SparkPlaces(e)
    /\ m \in {48, 50} => r.aux0 \in Nat
    /\ m = 58 => r.aux0 \in EyePlaces(e) /\ r.step \in EyePlaces(e)
    /\ m = HalloweenEyesMode => r.aux0 \in EyesPlaces(e)
    /\ m = ExplodingMode => RocketKept(r, e)
    /\ m = 96 => DropKept(r, e)
    /\ m = 98 => r.step \in 0 .. e.n

(* The effects that rely on their counters, and those that do not          *)
CountedModes == {13, 14, 17, 20, 27, 31, 32, 34, 35, 37, 38, 40, 41, 42, 43, 44, 48, 50, 53, 58,
                 60, 82, 90, 92, 93, 94, 96, 98}

(* Nothing is asked of the counters of the other effects.                  *)
LEMMA NothingCounted ==
    ASSUME NEW m, m \notin CountedModes, NEW r, NEW e
    PROVE  CountersKept(m, r, e)
  BY DEF CountedModes, CountersKept, HalloweenEyesMode, ExplodingMode

(* What is asked depends on the counters and the length alone, neither on  *)
(* how often the effect was called nor on the speed.                       *)
LEMMA SameCounters ==
    ASSUME NEW m, NEW p, NEW q, NEW d, NEW e, CountersKept(m, p, d),
           q.step = p.step, q.aux0 = p.aux0, q.aux1 = p.aux1, q.mem = p.mem,
           e.n = d.n, e.intensity = d.intensity
    PROVE  CountersKept(m, q, e)
  <1>1. /\ SparkPlaces(e) = SparkPlaces(d)
        /\ EyePlaces(e) = EyePlaces(d) /\ EyesPlaces(e) = EyesPlaces(d)
    BY DEF SparkPlaces, EyePlaces, EyesPlaces, IcuApart
  <1>2. RocketKept(p, d) => RocketKept(q, e)
    BY DEF RocketKept, Launched, SparksOf
  <1>3. DropKept(p, d) => DropKept(q, e)
    BY DEF DropKept, IsDrop
  <1>4. QED
    BY <1>1, <1>2, <1>3 DEF CountersKept

PlainModes == {2, 5, 8, 12, 15, 16, 46, 47, 56, 61, 63, 67, 68, 69, 70, 71, 72, 73, 75, 83, 84,
               88, 97, 101, 103, 108}

(* Effects that paint with clocks and random numbers only                  *)
LEMMA PlainModesGood ==
    ASSUME NEW m \in PlainModes, NEW r, Runtime(r), NEW e, NEW f \in Effect(m, r, e)
    PROVE  Good(f, r, e)
  <1>1. f = Frame(r)
    <2>1. CASE m = 2
      BY <2>1 DEF Effect, Breath
    <2>2. CASE m = 5
      BY <2>2 DEF Effect, RandomColor
    <2>3. CASE m = 8
      BY <2>3 DEF Effect, Rainbow
    <2>4. CASE m = 12
      BY <2>4 DEF Effect, Fade
    <2>5. CASE m \in {15, 16}
      <3>1. CASE m = 15
        BY <3>1 DEF Effect, RunningBase
      <3>2. CASE m = 16
        BY <3>2 DEF Effect, RunningBase
      <3>3. QED
        BY <2>5, <3>1, <3>2
    <2>6. CASE m \in {46, 47}
      BY <2>6 DEF Effect, GradientBase
    <2>7. CASE m = 56
      BY <2>7 DEF Effect, TricolorFade
    <2>8. CASE m = 61
      BY <2>8 DEF Effect, RandomChase
    <2>9. CASE m = 63
      BY <2>9 DEF Effect, Pride2015
    <2>10. CASE m = 67
      BY <2>10 DEF Effect, Colorwaves
    <2>11. CASE m = 68
      BY <2>11 DEF Effect, Bpm
    <2>12. CASE m = 69
      BY <2>12 DEF Effect, FillNoise8
    <2>13. CASE m = 70
      BY <2>13 DEF Effect, Noise16One
    <2>14. CASE m = 71
      BY <2>14 DEF Effect, Noise16Two
    <2>15. CASE m = 72
      BY <2>15 DEF Effect, Noise16Three
    <2>16. CASE m = 73
      BY <2>16 DEF Effect, Noise16Four
    <2>17. CASE m = 75
      BY <2>17 DEF Effect, Lake
    <2>18. CASE m = 83
      BY <2>18 DEF Effect, StaticPattern
    <2>19. CASE m = 84
      BY <2>19 DEF Effect, TriStaticPattern
    <2>20. CASE m = 88
      BY <2>20 DEF Effect, Candle
    <2>21. CASE m = 97
      BY <2>21 DEF Effect, Plasma
    <2>22. CASE m = 101
      BY <2>22 DEF Effect, Pacifica
    <2>23. CASE m = 103
      BY <2>23 DEF Effect, SolidGlitter
    <2>24. CASE m = 108
      BY <2>24 DEF Effect, Sinewave
    <2>25. QED
      BY <2>1, <2>2, <2>3, <2>4, <2>5, <2>6, <2>7, <2>8, <2>9, <2>10, <2>11, <2>12, <2>13, <2>14, <2>15, <2>16, <2>17, <2>18, <2>19, <2>20, <2>21, <2>22, <2>23, <2>24 DEF PlainModes
  <1>2. QED
    BY <1>1, PlainGood

(* Effects that divide by the length of the segment                        *)
LEMMA DividingModesGood ==
    ASSUME NEW m \in {9, 65, 87, 105, 109}, NEW r, Runtime(r), NEW e, Surroundings(e),
           NEW f \in Effect(m, r, e)
    PROVE  Good(f, r, e)
  <1>1. f = [Frame(r) EXCEPT !.divisors = {e.n}]
    <2>1. CASE m = 9
      BY <2>1 DEF Effect, RainbowCycle
    <2>2. CASE m = 65
      BY <2>2 DEF Effect, Palette
    <2>3. CASE m = 87
      BY <2>3 DEF Effect, Glitter
    <2>4. CASE m \in {105, 109}
      BY <2>4 DEF Effect, Phased
    <2>5. QED
      BY <2>1, <2>2, <2>3, <2>4
  <1>2. QED
    BY <1>1, LengthDivides

UncountedModes == {0, 1, 3, 4, 6, 7, 10, 11, 18, 19, 21, 22, 23, 24, 25, 26, 28, 29, 30, 33,
                   36, 39, 45, 49, 51, 52, 54, 55, 57, 59, 62, 64, 66, 74, 76, 77, 78, 79,
                   80, 81, 85, 86, 89, 91, 95, 99, 100, 102, 104, 106, 107, 110, 111, 112}

(* The other effects that rely on nothing they have counted                *)
LEMMA UncountedModesGood ==
    ASSUME NEW m \in UncountedModes, NEW r, Runtime(r), NEW e, Surroundings(e),
           NEW f \in Effect(m, r, e)
    PROVE  Good(f, r, e)
  <1>1. CASE m = 0
    <2>1. f \in Static(r)
      BY <1>1 DEF Effect
    <2>2. QED
      BY <2>1, StaticGood
  <1>2. CASE m \in {1, 23, 24, 26}
    <2>1. f \in Blink(r, e)
      <3>1. CASE m = 1
        BY <3>1 DEF Effect
      <3>2. CASE m = 23
        BY <3>2 DEF Effect
      <3>3. CASE m = 24
        BY <3>3 DEF Effect
      <3>4. CASE m = 26
        BY <3>4 DEF Effect
      <3>5. QED
        BY <1>2, <3>1, <3>2, <3>3, <3>4
    <2>2. QED
      BY <2>1, BlinkGood
  <1>3. CASE m \in {3, 4, 6, 36}
    <2>1. f \in PlainWipe(r, e) \/ f \in RandomWipe(r, e)
      <3>1. CASE m = 3
        BY <3>1 DEF Effect
      <3>2. CASE m = 4
        BY <3>2 DEF Effect
      <3>3. CASE m = 6
        BY <3>3 DEF Effect
      <3>4. CASE m = 36
        BY <3>4 DEF Effect
      <3>5. QED
        BY <1>3, <3>1, <3>2, <3>3, <3>4
    <2>2. QED
      BY <2>1, ColorWipeGood, FALSE \in BOOLEAN, TRUE \in BOOLEAN DEF PlainWipe, RandomWipe
  <1>4. CASE m = 7
    <2>1. f \in Dynamic(r, e)
      BY <1>4 DEF Effect
    <2>2. QED
      BY <2>1, DynamicGood
  <1>5. CASE m \in {10, 11}
    <2>1. f \in Scan(r, e)
      <3>1. CASE m = 10
        BY <3>1 DEF Effect
      <3>2. CASE m = 11
        BY <3>2 DEF Effect
      <3>3. QED
        BY <1>5, <3>1, <3>2
    <2>2. QED
      BY <2>1, ScanGood
  <1>6. CASE m \in {18, 19}
    <2>1. f \in Dissolve(r, e)
      <3>1. CASE m = 18
        BY <3>1 DEF Effect
      <3>2. CASE m = 19
        BY <3>2 DEF Effect
      <3>3. QED
        BY <1>6, <3>1, <3>2
    <2>2. QED
      BY <2>1, DissolveGood
  <1>7. CASE m = 21
    <2>1. f \in FlashSparkle(r, e)
      BY <1>7 DEF Effect
    <2>2. QED
      BY <2>1, FlashSparkleGood
  <1>8. CASE m = 22
    <2>1. f \in HyperSparkle(r, e)
      BY <1>8 DEF Effect
    <2>2. QED
      BY <2>1, HyperSparkleGood
  <1>9. CASE m = 25
    <2>1. f \in MultiStrobe(r, e)
      BY <1>9 DEF Effect
    <2>2. QED
      BY <2>1, MultiStrobeGood
  <1>10. CASE m \in {28, 29, 30, 33}
    <2>1. f \in Chase(r, e) \/ f \in ChaseRainbow(r, e)
      <3>1. CASE m \in {28, 29}
        <4>1. CASE m = 28
          BY <4>1 DEF Effect
        <4>2. CASE m = 29
          BY <4>2 DEF Effect
        <4>3. QED
          BY <3>1, <4>1, <4>2
      <3>2. CASE m \in {30, 33}
        <4>1. CASE m = 30
          BY <4>1 DEF Effect
        <4>2. CASE m = 33
          BY <4>2 DEF Effect
        <4>3. QED
          BY <3>2, <4>1, <4>2
      <3>3. QED
        BY <1>10, <3>1, <3>2
    <2>2. QED
      BY <2>1, ChaseGood
  <1>11. CASE m = 39
    <2>1. f \in RunningRandom(r, e)
      BY <1>11 DEF Effect
    <2>2. QED
      BY <2>1, RunningRandomGood
  <1>12. CASE m = 45
    <2>1. f \in FireFlicker(r, e)
      BY <1>12 DEF Effect
    <2>2. QED
      BY <2>1, FireFlickerGood
  <1>13. CASE m \in {49, 51}
    <2>1. f \in PoliceAll(r, e)
      BY <1>13 DEF Effect
    <2>2. QED
      BY <2>1, PoliceAllGood
  <1>14. CASE m \in {52, 54}
    <2>1. f \in TricolorChase(r, e)
      BY <1>14 DEF Effect
    <2>2. QED
      BY <2>1, TricolorChaseGood
  <1>15. CASE m = 55
    <2>1. f \in TricolorWipe(r, e)
      BY <1>15 DEF Effect
    <2>2. QED
      BY <2>1, TricolorWipeGood
  <1>16. CASE m = 57
    <2>1. f \in Lightning(r, e)
      BY <1>16 DEF Effect
    <2>2. QED
      BY <2>1, LightningGood
  <1>17. CASE m = 59
    <2>1. f \in MultiComet(r, e)
      BY <1>17 DEF Effect
    <2>2. QED
      BY <2>1, MultiCometGood
  <1>18. CASE m = 62
    <2>1. f \in Oscillate(r, e)
      BY <1>18 DEF Effect
    <2>2. QED
      BY <2>1, OscillateGood
  <1>19. CASE m = 64
    <2>1. f \in Juggle(r, e)
      BY <1>19 DEF Effect
    <2>2. QED
      BY <2>1, JuggleGood
  <1>20. CASE m = 66
    <2>1. f \in Fire2012(r, e)
      BY <1>20 DEF Effect
    <2>2. QED
      BY <2>1, Fire2012Good
  <1>21. CASE m = 74
    <2>1. f \in ColorTwinkle(r, e)
      BY <1>21 DEF Effect
    <2>2. QED
      BY <2>1, ColorTwinkleGood
  <1>22. CASE m = 76
    <2>1. f \in Meteor(r, e)
      BY <1>22 DEF Effect
    <2>2. QED
      BY <2>1, MeteorGood
  <1>23. CASE m = 77
    <2>1. f \in MeteorSmooth(r, e)
      BY <1>23 DEF Effect
    <2>2. QED
      BY <2>1, MeteorSmoothGood
  <1>24. CASE m = 78
    <2>1. f \in Railway(r, e)
      BY <1>24 DEF Effect
    <2>2. QED
      BY <2>1, RailwayGood
  <1>25. CASE m \in {79, 99}
    <2>1. f \in Ripple(r, e)
      BY <1>25 DEF Effect
    <2>2. QED
      BY <2>1, RippleGood
  <1>26. CASE m \in {80, 81}
    <2>1. f \in TwinkleFox(r, e)
      BY <1>26 DEF Effect
    <2>2. QED
      BY <2>1, TwinkleFoxGood
  <1>27. CASE m \in {85, 86, 110}
    <2>1. f \in Spots(r, e) \/ f \in Flow(r, e)
      <3>1. CASE m \in {85, 86}
        BY <3>1 DEF Effect
      <3>2. CASE m = 110
        BY <3>2 DEF Effect
      <3>3. QED
        BY <1>27, <3>1, <3>2
    <2>2. QED
      BY <2>1, SpotsGood
  <1>28. CASE m = 89
    <2>1. f \in Starburst(r, e)
      BY <1>28 DEF Effect
    <2>2. QED
      BY <2>1, StarburstGood
  <1>29. CASE m = 91
    <2>1. f \in BouncingBalls(r, e)
      BY <1>29 DEF Effect
    <2>2. QED
      BY <2>1, BouncingBallsGood
  <1>30. CASE m = 95
    <2>1. f \in Popcorn(r, e)
      BY <1>30 DEF Effect
    <2>2. QED
      BY <2>1, PopcornGood
  <1>31. CASE m = 100
    <2>1. f \in Heartbeat(r, e)
      BY <1>31 DEF Effect
    <2>2. QED
      BY <2>1, HeartbeatGood
  <1>32. CASE m = 102
    <2>1. f \in CandleMulti(r, e)
      BY <1>32 DEF Effect
    <2>2. QED
      BY <2>1, CandleMultiGood
  <1>33. CASE m = 104
    <2>1. f \in Sunrise(r, e)
      BY <1>33 DEF Effect
    <2>2. QED
      BY <2>1, SunriseGood
  <1>34. CASE m = 106
    <2>1. f \in TwinkleUp(r, e)
      BY <1>34 DEF Effect
    <2>2. QED
      BY <2>1, TwinkleUpGood
  <1>35. CASE m = 107
    <2>1. f \in NoisePal(r, e)
      BY <1>35 DEF Effect
    <2>2. QED
      BY <2>1, NoisePalGood
  <1>36. CASE m = 111
    <2>1. f \in Chunchun(r, e)
      BY <1>36 DEF Effect
    <2>2. QED
      BY <2>1, ChunchunGood
  <1>37. CASE m = 112
    <2>1. f \in DancingShadows(r, e)
      BY <1>37 DEF Effect
    <2>2. QED
      BY <2>1, DancingShadowsGood
  <1>38. QED
    BY <1>1, <1>2, <1>3, <1>4, <1>5, <1>6, <1>7, <1>8, <1>9, <1>10, <1>11, <1>12, <1>13, <1>14, <1>15, <1>16, <1>17, <1>18, <1>19, <1>20, <1>21, <1>22, <1>23, <1>24, <1>25, <1>26, <1>27, <1>28, <1>29, <1>30, <1>31, <1>32, <1>33, <1>34, <1>35, <1>36, <1>37 DEF UncountedModes

(* The effects that rely on their counters leave such as they rely on.     *)
LEMMA CountedModesGood ==
    ASSUME NEW m \in CountedModes \ {48, 50}, NEW r, Runtime(r), NEW e, Surroundings(e),
           CountersKept(m, r, e), NEW f \in Effect(m, r, e)
    PROVE  Good(f, r, e) /\ CountersKept(m, f.rt, e)
  <1>1. CASE m \in {13, 14}
    <2>1. f \in TheaterChase(r, e)
      <3>1. CASE m = 13
        BY <3>1 DEF Effect
      <3>2. CASE m = 14
        BY <3>2 DEF Effect
      <3>3. QED
        BY <1>1, <3>1, <3>2
    <2>2. QED
      BY <1>1, <2>1, TheaterChaseGood DEF CountersKept, HalloweenEyesMode, ExplodingMode
  <1>2. CASE m = 17
    <2>1. f \in Twinkle(r, e)
      BY <1>2 DEF Effect
    <2>2. QED
      BY <1>2, <2>1, TwinkleGood DEF CountersKept, HalloweenEyesMode, ExplodingMode
  <1>3. CASE m = 20
    <2>1. f \in Sparkle(r, e)
      BY <1>3 DEF Effect
    <2>2. QED
      BY <1>3, <2>1, SparkleGood DEF CountersKept, HalloweenEyesMode, ExplodingMode
  <1>4. CASE m = 27
    <2>1. f \in Android(r, e)
      BY <1>4 DEF Effect
    <2>2. QED
      BY <1>4, <2>1, AndroidGood DEF CountersKept, HalloweenEyesMode, ExplodingMode
  <1>5. CASE m = 31
    <2>1. f \in ChaseFlash(r, e, 10, 30)
      BY <1>5 DEF Effect, PlainChaseFlash, RandomChaseFlash
    <2>2. QED
      BY <1>5, <2>1, ChaseFlashGood DEF CountersKept, HalloweenEyesMode, ExplodingMode
  <1>6. CASE m = 32
    <2>1. f \in ChaseFlash(r, e, 1, 10)
      BY <1>6 DEF Effect, PlainChaseFlash, RandomChaseFlash
    <2>2. QED
      BY <1>6, <2>1, ChaseFlashGood DEF CountersKept, HalloweenEyesMode, ExplodingMode
  <1>7. CASE m = 34
    <2>1. f \in Colorful(r, e)
      BY <1>7 DEF Effect
    <2>2. QED
      BY <1>7, <2>1, ColorfulGood DEF CountersKept, HalloweenEyesMode, ExplodingMode
  <1>8. CASE m = 35
    <2>1. f \in TrafficLight(r, e)
      BY <1>8 DEF Effect
    <2>2. QED
      BY <1>8, <2>1, TrafficLightGood, SMTT(30) DEF CountersKept, HalloweenEyesMode, ExplodingMode
  <1>9. CASE m \in {37, 38, 44, 53}
    <2>1. f \in Running(r, e)
      BY <1>9 DEF Effect
    <2>2. QED
      BY <1>9, <2>1, RunningGood, SMTT(30) DEF CountersKept, HalloweenEyesMode, ExplodingMode
  <1>10. CASE m \in {40, 60}
    <2>1. f \in Larson(r, e)
      BY <1>10 DEF Effect
    <2>2. QED
      BY <1>10, <2>1, LarsonGood DEF CountersKept, HalloweenEyesMode, ExplodingMode
  <1>11. CASE m = 41
    <2>1. f \in Comet(r, e)
      BY <1>11 DEF Effect
    <2>2. QED
      BY <1>11, <2>1, CometGood DEF CountersKept, HalloweenEyesMode, ExplodingMode
  <1>12. CASE m = 42
    <2>1. f \in Fireworks(r, e)
      BY <1>12 DEF Effect
    <2>2. QED
      BY <1>12, <2>1, FireworksGood DEF CountersKept, HalloweenEyesMode, ExplodingMode
  <1>13. CASE m = 43
    <2>1. f \in Rain(r, e)
      BY <1>13 DEF Effect
    <2>2. QED
      BY <1>13, <2>1, RainGood DEF CountersKept, HalloweenEyesMode, ExplodingMode
  <1>14. CASE m = 58
    <2>1. f \in Icu(r, e)
      BY <1>14 DEF Effect
    <2>2. QED
      BY <1>14, <2>1, IcuGood DEF CountersKept, HalloweenEyesMode, ExplodingMode
  <1>15. CASE m = 82
    <2>1. f \in HalloweenEyes(r, e)
      BY <1>15 DEF Effect
    <2>2. QED
      BY <1>15, <2>1, HalloweenEyesGood DEF CountersKept, HalloweenEyesMode, ExplodingMode
  <1>16. CASE m = 90
    <2>1. f \in ExplodingFireworks(r, e)
      BY <1>16 DEF Effect
    <2>2. QED
      BY <1>16, <2>1, ExplodingFireworksGood DEF CountersKept, HalloweenEyesMode, ExplodingMode
  <1>17. CASE m \in {92, 93, 94}
    <2>1. f \in Sinelon(r, e)
      BY <1>17 DEF Effect
    <2>2. QED
      BY <1>17, <2>1, SinelonGood DEF CountersKept, HalloweenEyesMode, ExplodingMode
  <1>18. CASE m = 96
    <2>1. f \in Drip(r, e)
      BY <1>18 DEF Effect
    <2>2. QED
      BY <1>18, <2>1, DripGood DEF CountersKept, HalloweenEyesMode, ExplodingMode
  <1>19. CASE m = 98
    <2>1. f \in Percent(r, e)
      BY <1>19 DEF Effect
    <2>2. QED
      BY <1>19, <2>1, PercentGood DEF CountersKept, HalloweenEyesMode, ExplodingMode
  <1>20. QED
    BY <1>1, <1>2, <1>3, <1>4, <1>5, <1>6, <1>7, <1>8, <1>9, <1>10, <1>11, <1>12, <1>13, <1>14, <1>15, <1>16, <1>17, <1>18, <1>19 DEF CountedModes

(* The police dots: what they leave of the head is a number.               *)
LEMMA PoliceModesGood ==
    ASSUME NEW m \in PoliceModes, NEW r, Runtime(r), NEW e, Surroundings(e),
           CountersKept(m, r, e), NEW f \in Effect(m, r, e)
    PROVE  Good(f, r, e) /\ CountersKept(m, f.rt, e)
  <1>1. f \in PoliceDots(r, e) /\ r.aux0 \in Nat
    BY DEF PoliceModes, Effect, CountersKept
  <1>2. Good(f, r, e) /\ f.rt.aux0 \in Nat
    BY <1>1, PoliceDotsGood
  <1>3. QED
    BY <1>2 DEF PoliceModes, CountersKept, HalloweenEyesMode, ExplodingMode

(* One frame of any effect of the table                                    *)
LEMMA EffectGood ==
    ASSUME NEW m \in 0 .. MODE_COUNT - 1, NEW r, Runtime(r), NEW e, Surroundings(e),
           CountersKept(m, r, e), NEW f \in Effect(m, r, e)
    PROVE  Good(f, r, e) /\ CountersKept(m, f.rt, e)
  <1>1. \/ m \in PlainModes \/ m \in {9, 65, 87, 105, 109} \/ m \in UncountedModes
        \/ m \in CountedModes \ {48, 50} \/ m \in PoliceModes
    BY DEF MODE_COUNT, PlainModes, UncountedModes, CountedModes, PoliceModes
  <1>2. CASE m \in PoliceModes
    BY <1>2, PoliceModesGood
  <1>3. CASE m \in CountedModes \ {48, 50}
    BY <1>3, CountedModesGood
  <1>4. CASE m \in PlainModes \/ m \in {9, 65, 87, 105, 109} \/ m \in UncountedModes
    <2>1. Good(f, r, e)
      BY <1>4, PlainModesGood, DividingModesGood, UncountedModesGood
    <2>2. m \notin CountedModes
      BY <1>4 DEF PlainModes, UncountedModes, CountedModes
    <2>3. QED
      BY <2>1, <2>2, NothingCounted
  <1>5. QED
    BY <1>1, <1>2, <1>3, <1>4

-----------------------------------------------------------------------------
(* The inductive invariant.  That no effect leaves its bounds is not       *)
(* inductive: what it indexes with comes from the frame before.            *)
StripKept ==
    /\ length \in Lengths
    /\ mode \in 0 .. MODE_COUNT - 1
    /\ speed \in 0 .. 255
    /\ Runtime(rt)
    /\ UsedIsData
    /\ CountersKept(mode, rt, Env)

(* The effects are called in the surroundings that their lemmas assume.    *)
LEMMA EnvIsSurroundings ==
    ASSUME StripKept
    PROVE  Surroundings(Env)
  <1>1. /\ length \in Nat /\ length > 0 /\ length <= 32767 /\ speed \in Nat /\ speed <= 255
        /\ MaxSegmentData - (used - rt.data) \in Nat
    BY StripAssumption DEF StripKept, UsedIsData, Runtime
  <1>2. /\ Env.n = length /\ Env.speed = speed /\ Env.intensity = 0
        /\ Env.free = MaxSegmentData - (used - rt.data)
    BY DEF Env
  <1>3. QED
    BY <1>1, <1>2 DEF Surroundings

(* The frames of service                                                   *)
LEMMA FrameKept ==
    ASSUME StripKept, NEW f \in Frames
    PROVE  Good(f, rt, Env) /\ CountersKept(mode, f.rt, Env)
  BY EnvIsSurroundings, EffectGood DEF Frames, StripKept

(* The counters that setMode resets are good for any effect.               *)
LEMMA FreshCounters ==
    ASSUME NEW m, NEW e, e.n \in Nat \ {0}, e.intensity = 0
    PROVE  CountersKept(m, FreshRuntime, e) /\ Runtime(FreshRuntime) /\ FreshRuntime.data = 0
  <1>1. /\ FreshRuntime.aux0 = 0 /\ FreshRuntime.aux1 = 0 /\ FreshRuntime.step = 0
        /\ FreshRuntime.mem = <<>> /\ Runtime(FreshRuntime) /\ FreshRuntime.data = 0
    BY DEF FreshRuntime, Runtime
  <1>2. /\ 0 \in 0 .. e.n /\ 0 \in 0 .. e.n - 1 /\ 0 \in SparkPlaces(e)
        /\ 0 \in EyePlaces(e) /\ 0 \in EyesPlaces(e)
    BY DEF SparkPlaces, EyePlaces, EyesPlaces, IcuApart, EyeLength, MaxOf
  <1>3. RocketKept(FreshRuntime, e) /\ DropKept(FreshRuntime, e)
    BY <1>1 DEF RocketKept, DropKept
  <1>4. QED
    BY <1>1, <1>2, <1>3 DEF CountersKept

(* led_animator_init                                                       *)
LEMMA StripStarts ==
    ASSUME Init
    PROVE  StripKept
  <1>1. length \in Nat \ {0} /\ Env.n = length /\ Env.intensity = 0
    BY StripAssumption DEF Init, Env
  <1>2. CountersKept(mode, rt, Env) /\ Runtime(rt) /\ rt.data = 0
    BY <1>1, FreshCounters DEF Init
  <1>3. QED
    BY <1>2, StripAssumption DEF Init, StripKept, UsedIsData, MODE_COUNT

(* service: whatever frame the effect makes                                *)
LEMMA ServiceKept ==
    ASSUME StripKept, Service
    PROVE  StripKept'
  <1>1. PICK f \in Frames :
          /\ rt' = IF mode = HalloweenEyesMode THEN f.rt ELSE [f.rt EXCEPT !.call = MinOf(@ + 1, 2)]
          /\ used' = used - rt.data + f.rt.data
    BY DEF Service
  <1>2. UNCHANGED <<length, mode, speed>>
    BY DEF Service
  <1>3. /\ Runtime(f.rt) /\ f.rt.data \in {rt.data} \cup 0 .. Env.free
        /\ CountersKept(mode, f.rt, Env)
    BY FrameKept DEF Good
  <1>4. /\ Runtime(rt') /\ rt'.data = f.rt.data /\ rt'.step = f.rt.step
        /\ rt'.aux0 = f.rt.aux0 /\ rt'.aux1 = f.rt.aux1 /\ rt'.mem = f.rt.mem
    <2> DEFINE c == MinOf(f.rt.call + 1, 2)
    <2>1. c \in Nat
      BY <1>3 DEF Runtime, MinOf
    <2>2. rt' = f.rt \/ rt' = [f.rt EXCEPT !.call = c]
      BY <1>1
    <2> HIDE DEF c
    <2>3. QED
      BY <1>3, <2>1, <2>2 DEF Runtime
  <1>5. UsedIsData'
    BY <1>1, <1>3, <1>4, StripAssumption DEF StripKept, UsedIsData, Env, Runtime
  <1>6. Env'.n = Env.n /\ Env'.intensity = Env.intensity
    BY <1>2 DEF Env
  <1>7. CountersKept(mode, rt', Env')
    BY <1>3, <1>4, <1>6, SameCounters
  <1>8. CountersKept(mode, rt, Env)'
    BY <1>2, <1>7
  <1>9. QED
    BY <1>2, <1>4, <1>5, <1>8 DEF StripKept

(* setMode: the effect that comes finds fresh counters, and its            *)
(* predecessor's bytes are given back.                                     *)
LEMMA SetModeKept ==
    ASSUME StripKept, NEW m \in Orders, SetMode(m)
    PROVE  StripKept'
  <1>1. mode' \in 0 .. MODE_COUNT - 1
    BY StripAssumption DEF SetMode, MODE_COUNT
  <1>2. /\ rt' = FreshRuntime /\ used' = used - rt.data /\ UNCHANGED <<length, speed>>
    BY DEF SetMode
  <1>3. Env'.n \in Nat \ {0} /\ Env'.intensity = 0
    BY <1>2, StripAssumption DEF Env, StripKept
  <1>4. CountersKept(mode', FreshRuntime, Env') /\ Runtime(FreshRuntime) /\ FreshRuntime.data = 0
    BY <1>3, FreshCounters
  <1>5. CountersKept(mode, rt, Env)'
    BY <1>2, <1>4
  <1>6. UsedIsData'
    BY <1>2, <1>4, StripAssumption DEF StripKept, UsedIsData, Runtime
  <1>7. QED
    BY <1>1, <1>2, <1>4, <1>5, <1>6 DEF StripKept

(* setSpeed: the counters fit as well at another speed.                    *)
LEMMA SetSpeedKept ==
    ASSUME StripKept, NEW s \in Speeds, SetSpeed(s)
    PROVE  StripKept'
  <1>1. speed' \in 0 .. 255 /\ UNCHANGED <<length, mode, rt, used>>
    BY StripAssumption DEF SetSpeed
  <1>2. Env'.n = Env.n /\ Env'.intensity = Env.intensity
    BY <1>1 DEF Env
  <1>3. CountersKept(mode, rt, Env')
    BY <1>2, SameCounters DEF StripKept
  <1>4. CountersKept(mode, rt, Env)'
    BY <1>1, <1>3
  <1>5. QED
    BY <1>1, <1>4 DEF StripKept, UsedIsData

(* Whatever frames, failures of allocation and orders there were, the      *)
(* counters of the running effect are those it relies on (service, setMode *)
(* and setSpeed, with every effect of FX.cpp).                             *)
THEOREM StripInvariant == Spec => []StripKept
  <1>1. Init => StripKept
    BY StripStarts
  <1>2. StripKept /\ [Next]_vars => StripKept'
    <2> SUFFICES ASSUME StripKept, [Next]_vars
                 PROVE  StripKept'
      OBVIOUS
    <2>1. CASE Service
      BY <2>1, ServiceKept
    <2>2. ASSUME NEW m \in Orders, SetMode(m)
          PROVE  StripKept'
      BY <2>2, SetModeKept
    <2>3. ASSUME NEW s \in Speeds, SetSpeed(s)
          PROVE  StripKept'
      BY <2>3, SetSpeedKept
    <2>4. CASE UNCHANGED vars
      <3>1. CountersKept(mode, rt, Env)' <=> CountersKept(mode, rt, Env)
        BY <2>4, Zenon DEF vars, Env
      <3>2. QED
        BY <2>4, <3>1 DEF vars, StripKept, UsedIsData
    <2>5. QED
      BY <2>1, <2>2, <2>3, <2>4 DEF Next
  <1>3. QED
    BY <1>1, <1>2, PTL DEF Spec

(* The count of the bytes in use is that of the data of the segment and    *)
(* stays below MAX_SEGMENT_DATA, for every length and speed (allocateData  *)
(* and deallocateData of FX.h, setMode).                                   *)
THEOREM BytesInUseAreData == Spec => []UsedIsData
  <1>1. StripKept => UsedIsData
    BY DEF StripKept
  <1>2. QED
    BY <1>1, StripInvariant, PTL

(* A rocket that bursts comes to its end: while the first spark is lit     *)
(* there are sparks that are moved and darkened                            *)
(* (mode_exploding_fireworks).                                             *)
THEOREM SparksBurnOut == Spec => []SparksDie
  <1>1. StripKept => SparksDie
    <2> SUFFICES ASSUME StripKept, mode = ExplodingMode, rt.aux0 \in {2, 3}, rt.mem # <<>>
                 PROVE  rt.mem.col <= 4 \/ MinOf(rt.mem.flare, MinOf(2 + length \div 2, 80)) > 1
      BY DEF SparksDie
    <2>1. RocketKept(rt, Env)
      BY DEF StripKept, CountersKept
    <2>2. SparksOf(Env) = MinOf(2 + length \div 2, 80)
      BY DEF SparksOf, Env
    <2>3. QED
      BY <2>1, <2>2 DEF RocketKept
  <1>2. QED
    BY <1>1, StripInvariant, PTL

(* Whatever the clock says, the police dots come to an end on strips that  *)
(* an 8-bit number counts, unless the frame before has moved the head up   *)
(* beyond the end of the strip.                                            *)
LEMMA PoliceCallsReturn ==
    ASSUME StripKept
    PROVE  CallsReturn
  <1> SUFFICES ASSUME mode \in PoliceModes, length < 256, rt.aux0 < length,
                      NEW head \in 0 .. length - 1, HeadWas(rt, head) # head
               PROVE  Gap(rt, Env, head) < 255
    BY DEF CallsReturn, PoliceReturns
  <1>1. rt.aux0 \in Nat /\ length \in Nat /\ Env.n = length
    BY StripAssumption DEF StripKept, CountersKept, PoliceModes, Env
  <1>2. HeadWas(rt, head) = rt.aux0
    BY DEF HeadWas
  <1> DEFINE d == IF rt.aux0 < head THEN head - rt.aux0 ELSE length - rt.aux0 + head
  <1>3. d \in Nat /\ d < 255
    <2>1. head \in Nat /\ head <= length - 1 /\ head # rt.aux0
      BY <1>1, <1>2
    <2>2. QED
      BY <1>1, <2>1
  <1>4. Gap(rt, Env, head) = d % 256
    BY <1>1, <1>2 DEF Gap
  <1> HIDE DEF d
  <1>5. QED
    BY <1>3, <1>4

(* No effect of FX.cpp leaves its data, its tables or the range of its     *)
(* integers, divides by zero or waits for more than half a minute, for     *)
(* every length of strip, every speed and every change of it, and at       *)
(* whatever time its frames come; and its calls return, but for the two    *)
(* cases of the police dots that CallsReturn leaves out.                   *)
THEOREM EffectsStayInBounds == Spec => []EffectsInBounds
  <1>1. StripKept => EffectsInBounds
    <2>1. ASSUME StripKept, NEW f \in Frames
          PROVE  DataInBounds(f) /\ DivisorsPositive(f) /\ SlotsFit(f) /\ DelayFits(f)
      <3>1. Good(f, rt, Env)
        BY <2>1, FrameKept
      <3>2. HalfAMinute \in Nat /\ f.delay \in Nat /\ f.delay <= HalfAMinute
        BY <3>1 DEF Good, HalfAMinute
      <3>3. DelayFits(f)
        BY <3>2 DEF DelayFits
      <3>4. QED
        BY <3>1, <3>3 DEF Good, DataInBounds, DivisorsPositive, SlotsFit
    <2>2. QED
      BY <2>1, PoliceCallsReturn DEF EffectsInBounds
  <1>2. QED
    BY <1>1, StripInvariant, PTL

-----------------------------------------------------------------------------
(* What module Geometry computes stays on the strip, for strips of every   *)
(* length that a signed 16-bit index can address and for every segment.    *)

(* An int16_t is one; what leaves its range once on the upper side comes   *)
(* back as a negative number.                                              *)
LEMMA Int16Range ==
    ASSUME NEW x \in Int
    PROVE  Int16(x) \in Int /\ -32768 <= Int16(x) /\ Int16(x) <= 32767
BY DEF Int16

LEMMA Int16Wrap ==
    ASSUME NEW x \in Int, -32768 <= x, x <= 98303
    PROVE  Int16(x) = IF x <= 32767 THEN x ELSE x - 65536
BY DEF Int16

(* Where REV brings a 16-bit index into the strip, it is the mirror image  *)
(* of an index on the strip: the wrap of the subtraction hides nothing.    *)
LEMMA RevInverse ==
    ASSUME NEW l \in Int, 1 <= l, l <= 32767,
           NEW x \in Int, -32768 <= x, x <= 32767,
           Int16(l - 1 - x) >= 0, Int16(l - 1 - x) < l
    PROVE  x = l - 1 - Int16(l - 1 - x)
<1> DEFINE y == l - 1 - x
<1>1. y \in Int /\ -32768 <= y /\ y <= 98303
  OBVIOUS
<1>2. Int16(y) = IF y <= 32767 THEN y ELSE y - 65536
  BY <1>1, Int16Wrap
<1>3. QED BY <1>2

(* The fields of a strip and of a segment as inequalities *)
LEMMA StripFields ==
    ASSUME NEW strip \in Strips
    PROVE  /\ strip.length \in Int /\ 1 <= strip.length /\ strip.length <= 32767
           /\ strip.skip \in Int /\ 0 <= strip.skip /\ strip.skip <= 1
           /\ strip.reverseMode \in BOOLEAN
BY DEF Strips

LEMMA SegmentFields ==
    ASSUME NEW seg \in Segments
    PROVE  /\ seg.start \in Int /\ 0 <= seg.start
           /\ seg.stop \in Int /\ 0 <= seg.stop
           /\ seg.grouping \in Int /\ seg.spacing \in Int
BY DEF Segments

(* realPixelIndex is an integer, whatever it has to wrap. *)
LEMMA RealPixelIndexInt ==
    ASSUME NEW strip \in Strips, NEW seg \in Segments, NEW i \in Nat
    PROVE  RealPixelIndex(seg, strip, i) \in Int
<1> DEFINE iGroup == Int16(i * GroupLength(seg))
           inSegment == IF ~seg.reverse THEN iGroup
                        ELSE IF seg.mirror THEN (Length(seg) - 1) \div 2 - iGroup
                        ELSE Length(seg) - iGroup - 1
           onStrip == Int16(Int16(inSegment) + seg.start)
<1>1. /\ seg.start \in Int /\ seg.stop \in Int /\ seg.grouping \in Int /\ seg.spacing \in Int
      /\ strip.length \in Int
  BY StripFields, SegmentFields
<1>2. Length(seg) \in Int /\ GroupLength(seg) \in Int
  BY <1>1 DEF Length, GroupLength
<1>3. i * GroupLength(seg) \in Int
  BY <1>2
<1>4. iGroup \in Int
  BY <1>3, Int16Range
<1>5. (Length(seg) - 1) \div 2 \in Int
  BY <1>2
<1> HIDE DEF iGroup
<1>6. inSegment \in Int
  BY <1>2, <1>4, <1>5
<1> HIDE DEF inSegment
<1>7. Int16(inSegment) + seg.start \in Int
  BY <1>1, <1>6, Int16Range
<1>8. onStrip \in Int
  BY <1>7, Int16Range
<1> HIDE DEF onStrip
<1>9. Int16(REV(strip, onStrip)) \in Int
  BY <1>1, <1>8, Int16Range DEF REV
<1>10. RealPixelIndex(seg, strip, i) = IF strip.reverseMode THEN Int16(REV(strip, onStrip)) ELSE onStrip
  BY DEF RealPixelIndex, onStrip, inSegment, iGroup
<1>11. QED BY <1>8, <1>9, <1>10

(* Every index of the loop of setPixelColor is in 16 bits. *)
LEMMA GroupedRange ==
    ASSUME NEW strip \in Strips, NEW seg \in Segments, NEW i \in Nat
    PROVE  \A d \in Grouped(seg, strip, i) : d \in Int /\ -32768 <= d /\ d <= 32767
<1>1. RealPixelIndex(seg, strip, i) \in Int
  BY RealPixelIndexInt
<1>2. ASSUME NEW d \in Grouped(seg, strip, i)
      PROVE  d \in Int /\ -32768 <= d /\ d <= 32767
  <2>1. PICK j \in 0 .. seg.grouping - 1 :
             d = Int16(IF strip.reverseMode # seg.reverse
                       THEN RealPixelIndex(seg, strip, i) - j
                       ELSE RealPixelIndex(seg, strip, i) + j)
    BY DEF Grouped
  <2>2. j \in Int OBVIOUS
  <2>3. QED BY <1>1, <2>1, <2>2, Int16Range
<1>3. QED BY <1>2

(* A LED that passes the test of setPixelColor lies on the strip, and so   *)
(* does its mirror image, which is not tested.                             *)
LEMMA DirectAndImage ==
    ASSUME NEW strip \in Strips, NEW seg \in Segments, OnStrip(seg, strip),
           NEW d \in Int, -32768 <= d, d <= 32767, Inside(seg, strip, d)
    PROVE  /\ d \in Int /\ 0 <= d /\ d < strip.length
           /\ LET m == Mirrored(seg, strip, d)
              IN  m \in Int /\ 0 <= m /\ m < strip.length
<1> DEFINE l == strip.length
           rev == Int16(l - 1 - d)
<1>1. l \in Int /\ 1 <= l /\ l <= 32767 /\ strip.reverseMode \in BOOLEAN
  BY StripFields
<1>2. seg.start \in Int /\ 0 <= seg.start /\ seg.stop \in Int /\ seg.stop <= l
  BY SegmentFields DEF OnStrip
<1>3. CASE ~strip.reverseMode
  <2>1. d >= seg.start /\ d < seg.stop
    BY <1>3 DEF Inside
  <2>2. Mirrored(seg, strip, d) = seg.stop - d + seg.start - 1
    BY <1>3 DEF Mirrored
  <2>3. QED BY <1>1, <1>2, <2>1, <2>2
<1>4. CASE strip.reverseMode
  <2>1. rev >= seg.start /\ rev < seg.stop
    BY <1>4 DEF Inside, REV
  <2>2. rev \in Int
    BY <1>1, Int16Range
  <2> HIDE DEF l
  <2>3. d = l - 1 - rev
    BY <1>1, <1>2, <2>1, <2>2, RevInverse
  <2>4. Mirrored(seg, strip, d) = (l - 1 - seg.start) - d + (l - 1 - seg.stop) + 1
    BY <1>4 DEF Mirrored, REV, l
  <2> HIDE DEF rev
  <2>5. 0 <= d /\ d < l
    BY <1>1, <1>2, <2>1, <2>2, <2>3
  <2>6. Mirrored(seg, strip, d) = l - seg.start - seg.stop + rev
    BY <1>1, <1>2, <2>2, <2>3, <2>4
  <2>7. QED BY <1>1, <1>2, <2>1, <2>2, <2>5, <2>6 DEF l
<1>5. QED BY <1>1, <1>3, <1>4

(* setPixelColor writes no memory but that of the LEDs of the strip, for   *)
(* whatever pixel an effect asks for: also beyond the segment, which       *)
(* mode_drip and the police effects do.                                    *)
THEOREM SetPixelColorInBounds ==
    ASSUME NEW strip \in Strips, NEW seg \in Segments, OnStrip(seg, strip), NEW i \in Nat
    PROVE  \A led \in SetPixelColor(seg, strip, i) : HasLed(strip, led)
<1> DEFINE direct == {d \in Grouped(seg, strip, i) : Inside(seg, strip, d)}
           images == IF seg.mirror THEN {Mirrored(seg, strip, d) : d \in direct} ELSE {}
           skipped == IF i = 0 THEN 0 .. strip.skip - 1 ELSE {}
<1>1. strip.length \in Int /\ strip.skip \in Int /\ 1 <= strip.length /\ 0 <= strip.skip
  BY StripFields
<1>2. ASSUME NEW d \in direct
      PROVE  /\ d \in Int /\ 0 <= d /\ d < strip.length
             /\ Mirrored(seg, strip, d) \in Int
             /\ 0 <= Mirrored(seg, strip, d) /\ Mirrored(seg, strip, d) < strip.length
  <2>1. d \in Int /\ -32768 <= d /\ d <= 32767 /\ Inside(seg, strip, d)
    BY GroupedRange
  <2>2. QED BY <2>1, DirectAndImage
<1> HIDE DEF direct
<1>3. ASSUME NEW d \in direct \cup images
      PROVE  d \in Int /\ 0 <= d /\ d < strip.length
  BY <1>2
<1> HIDE DEF images
<1>4. ASSUME NEW led \in SetPixelColor(seg, strip, i)
      PROVE  HasLed(strip, led)
  <2>1. led \in {d + strip.skip : d \in direct \cup images} \/ led \in skipped
    BY DEF SetPixelColor, direct, images
  <2>2. CASE led \in skipped
    BY <1>1, <2>2 DEF HasLed
  <2>3. CASE led \in {d + strip.skip : d \in direct \cup images}
    <3>1. PICK d \in direct \cup images : led = d + strip.skip
      BY <2>3
    <3>2. d \in Int /\ 0 <= d /\ d < strip.length
      BY <1>3
    <3>3. QED BY <1>1, <3>1, <3>2 DEF HasLed
  <2>4. QED BY <2>1, <2>2, <2>3
<1>5. QED BY <1>4

(* setPixelColor from outside of an effect tests nothing: a pixel of the   *)
(* strip is a LED of it, counted from either end, and so are those that    *)
(* are skipped.                                                            *)
LEMMA SetAnyPixelInBounds ==
    ASSUME NEW strip \in Strips, NEW i \in Int, 0 <= i, i < strip.length
    PROVE  \A led \in SetAnyPixelColor(strip, i) : HasLed(strip, led)
<1> DEFINE at == IF strip.reverseMode THEN UInt16(REV(strip, i)) ELSE i
<1>1. /\ strip.length \in Int /\ strip.length <= 32767
      /\ strip.skip \in Int /\ 0 <= strip.skip /\ strip.reverseMode \in BOOLEAN
  BY StripFields
<1>2. REV(strip, i) \in Int /\ 0 <= REV(strip, i) /\ REV(strip, i) < strip.length
  BY <1>1 DEF REV
<1>3. UInt16(REV(strip, i)) = REV(strip, i)
  BY <1>1, <1>2 DEF UInt16
<1>4. at \in Int /\ 0 <= at /\ at < strip.length
  BY <1>1, <1>2, <1>3
<1> HIDE DEF at
<1>5. SetAnyPixelColor(strip, i) = {at + strip.skip} \cup (IF at = 0 THEN 0 .. strip.skip - 1 ELSE {})
  BY DEF SetAnyPixelColor, at
<1>6. QED BY <1>1, <1>4, <1>5 DEF HasLed

(* setSegment, with whatever bounds, leaves a segment on the strip, and    *)
(* turns off only LEDs that are there, also on a strip that is reversed    *)
(* or whose first LED is skipped.                                          *)
THEOREM SetSegmentInBounds ==
    ASSUME NEW strip \in Strips, NEW seg \in Segments, OnStrip(seg, strip),
           NEW i1 \in Nat, NEW i2 \in Nat,
           NEW grouping \in Nat, NEW spacing \in Nat
    PROVE  /\ OnStrip(SetSegment(seg, strip, i1, i2, grouping, spacing), strip)
           /\ \A led \in TurnedOff(seg, strip, i1, i2, grouping, spacing) : HasLed(strip, led)
<1>1. /\ seg.start \in Int /\ 0 <= seg.start /\ seg.stop \in Int /\ 0 <= seg.stop
      /\ strip.length \in Int /\ 1 <= strip.length /\ strip.skip \in Int /\ 0 <= strip.skip
  BY StripFields, SegmentFields
<1>2. OnStrip(SetSegment(seg, strip, i1, i2, grouping, spacing), strip)
  <2>1. CASE Unchanged(seg, i1, i2, grouping, spacing)
    BY <2>1 DEF SetSegment
  <2>2. CASE ~Unchanged(seg, i1, i2, grouping, spacing) /\ i2 <= i1
    <3>1. SetSegment(seg, strip, i1, i2, grouping, spacing) = [seg EXCEPT !.stop = 0]
      BY <2>2 DEF SetSegment
    <3>2. [seg EXCEPT !.stop = 0].start = seg.start /\ [seg EXCEPT !.stop = 0].stop = 0
      BY DEF Segments
    <3>3. QED BY <1>1, <3>1, <3>2 DEF OnStrip
  <2>3. CASE ~Unchanged(seg, i1, i2, grouping, spacing) /\ ~(i2 <= i1)
    <3> DEFINE new == SetSegment(seg, strip, i1, i2, grouping, spacing)
    <3>1. /\ new.start = IF i1 < strip.length THEN i1 ELSE seg.start
          /\ new.stop = IF i2 > strip.length THEN strip.length ELSE i2
      BY <2>3 DEF SetSegment, Segments
    <3> HIDE DEF new
    <3>2. OnStrip(new, strip)
      BY <1>1, <2>3, <3>1 DEF OnStrip
    <3>3. QED BY <3>2 DEF new
  <2>4. QED BY <2>1, <2>2, <2>3
<1>3. ASSUME NEW led \in TurnedOff(seg, strip, i1, i2, grouping, spacing)
      PROVE  HasLed(strip, led)
  <2>1. seg.stop > 0 /\ led \in SetRange(strip, seg.start, seg.stop - 1)
    BY <1>1 DEF TurnedOff
  <2>2. seg.start < seg.stop /\ seg.stop <= strip.length
    BY <2>1 DEF OnStrip
  <2>3. PICK x \in seg.start .. seg.stop - 1 : led \in SetAnyPixelColor(strip, x)
    BY <1>1, <2>1, <2>2 DEF SetRange
  <2>4. x \in Int /\ 0 <= x /\ x < strip.length
    BY <1>1, <2>2
  <2>5. QED BY <2>3, <2>4, SetAnyPixelInBounds
<1>4. QED BY <1>2, <1>3

(* getPixelColor, without a test of the segment, reads no memory but that  *)
(* of the LEDs.                                                            *)
THEOREM GetPixelColorInBounds ==
    ASSUME NEW strip \in Strips, NEW seg \in Segments, NEW i \in Nat
    PROVE  \A led \in GetPixelColor(seg, strip, i) : HasLed(strip, led)
<1> DEFINE led == UInt16(RealPixelIndex(seg, strip, i) + strip.skip)
<1>1. strip.length \in Int /\ strip.skip \in Int
  BY StripFields
<1>2. RealPixelIndex(seg, strip, i) + strip.skip \in Int
  BY <1>1, RealPixelIndexInt
<1>3. led \in Int /\ 0 <= led
  BY <1>2 DEF UInt16
<1> HIDE DEF led
<1>4. GetPixelColor(seg, strip, i) = IF led >= strip.length + strip.skip THEN {} ELSE {led}
  BY DEF GetPixelColor, led
<1>5. QED BY <1>1, <1>3, <1>4 DEF HasLed

-----------------------------------------------------------------------------
(* Which LEDs the pixels of a segment are                                  *)

(* What a division leaves                                                  *)
LEMMA Groups ==
    ASSUME NEW a \in Nat, NEW g \in Nat, g >= 1
    PROVE  /\ a \div g \in Nat /\ a % g \in Nat
           /\ a % g <= g - 1
           /\ a = (a \div g) * g + (a % g)
           /\ (a \div g) * g \in Nat /\ (a \div g) * g <= a
  OBVIOUS

(* A product grows with its factors.                                       *)
LEMMA TimesGrows ==
    ASSUME NEW x \in Nat, NEW y \in Nat, x <= y, NEW g \in Nat
    PROVE x * g <= y * g
  OBVIOUS

(* The pixels of a segment are as many as the groups that begin on it, or  *)
(* half of them.                                                           *)
LEMMA PixelOf ==
    ASSUME NEW n \in Nat, n >= 1, NEW g \in Nat, g >= 1, NEW i \in Nat
    PROVE  LET groups == (n + g - 1) \div g
           IN  /\ i * g <= n - 1 => i <= groups - 1
               /\ 2 * (i * g) <= n - 1 => i <= (groups + 1) \div 2 - 1
               /\ i <= groups - 1 => i * g <= n - 1
               /\ groups \in Nat
<1> DEFINE groups == (n + g - 1) \div g
<1>1. /\ groups \in Nat /\ groups * g <= n + g - 1 /\ groups * g >= n /\ groups * g \in Nat
  <2>1. n + g - 1 \in Nat OBVIOUS
  <2>2. QED BY <2>1, Groups
<1> HIDE DEF groups
<1>2. ASSUME i * g <= n - 1 PROVE i <= groups - 1
  <2>1. CASE groups <= i
    <3>1. groups * g <= i * g BY <2>1, <1>1, TimesGrows
    <3>2. i * g \in Nat OBVIOUS
    <3>3. QED BY <3>1, <3>2, <1>1, <1>2
  <2>2. QED BY <2>1, <1>1
<1>3. ASSUME 2 * (i * g) <= n - 1 PROVE i <= (groups + 1) \div 2 - 1
  <2>1. CASE groups <= 2 * i
    <3>1. groups * g <= (2 * i) * g BY <2>1, <1>1, TimesGrows
    <3>2. (2 * i) * g = 2 * (i * g) OBVIOUS
    <3>3. i * g \in Nat OBVIOUS
    <3>4. QED BY <3>1, <3>2, <3>3, <1>1, <1>3
  <2>2. QED BY <2>1, <1>1
<1>4. ASSUME i <= groups - 1 PROVE i * g <= n - 1
  <2>1. (i + 1) * g <= groups * g BY <1>1, <1>4, TimesGrows
  <2>2. (i + 1) * g = i * g + g OBVIOUS
  <2>3. i * g \in Nat OBVIOUS
  <2>4. QED BY <2>1, <2>2, <2>3, <1>1
<1>5. QED BY <1>1, <1>2, <1>3, <1>4 DEF groups

(* The LED at an offset in the segment, seen from the end the strip begins *)
Led(seg, strip, o) == IF strip.reverseMode THEN REV(strip, seg.start + o) ELSE seg.start + o

LEMMA ActiveFields ==
    ASSUME NEW strip \in Strips, NEW seg \in Segments, OnStrip(seg, strip), IsActive(seg)
    PROVE  /\ strip.length \in Nat /\ strip.length <= 32767 /\ strip.reverseMode \in BOOLEAN
           /\ strip.skip \in Nat
           /\ seg.start \in Nat /\ seg.stop \in Nat /\ seg.start < seg.stop /\ seg.stop <= strip.length
           /\ seg.reverse \in BOOLEAN /\ seg.mirror \in BOOLEAN
           /\ Length(seg) = seg.stop - seg.start
           /\ Length(seg) \in Nat /\ Length(seg) >= 1 /\ seg.start + Length(seg) <= strip.length
<1>1. seg.start < seg.stop /\ seg.stop <= strip.length
  BY SegmentFields DEF IsActive, OnStrip
<1>2. QED BY <1>1, StripFields, SegmentFields DEF Length, Strips, Segments

LEMMA LedsByOffset ==
    ASSUME NEW strip \in Strips, NEW seg \in Segments, OnStrip(seg, strip), IsActive(seg)
    PROVE  LedsOf(seg, strip) = {Led(seg, strip, o) + strip.skip : o \in 0 .. Length(seg) - 1}
<1>1. ASSUME NEW i \in seg.start .. seg.stop - 1
      PROVE  /\ i - seg.start \in 0 .. Length(seg) - 1
             /\ Led(seg, strip, i - seg.start) = IF strip.reverseMode THEN REV(strip, i) ELSE i
  BY <1>1, ActiveFields DEF Led, REV
<1>2. ASSUME NEW o \in 0 .. Length(seg) - 1
      PROVE  /\ seg.start + o \in seg.start .. seg.stop - 1
  BY <1>2, ActiveFields
<1>3. QED BY <1>1, <1>2 DEF LedsOf, Led

(* What setPixelColor writes of a group: LEDs of the segment, and by its   *)
(* mirror LEDs of the segment again.                                       *)
LEMMA DirectOffset ==
    ASSUME NEW strip \in Strips, NEW seg \in Segments, OnStrip(seg, strip), IsActive(seg),
           NEW d \in Int, -32768 <= d, d <= 32767, Inside(seg, strip, d)
    PROVE  \E o \in 0 .. Length(seg) - 1 :
               /\ d = Led(seg, strip, o)
               /\ Mirrored(seg, strip, d) = Led(seg, strip, Length(seg) - 1 - o)
<1> USE ActiveFields
<1>1. CASE ~strip.reverseMode
  <2>1. d >= seg.start /\ d < seg.stop
    BY <1>1 DEF Inside
  <2>2. d - seg.start \in 0 .. Length(seg) - 1
    BY <2>1
  <2>3. d = Led(seg, strip, d - seg.start)
    BY <1>1, <2>1 DEF Led
  <2>4. Mirrored(seg, strip, d) = Led(seg, strip, Length(seg) - 1 - (d - seg.start))
    BY <1>1, <2>1 DEF Led, Mirrored
  <2>5. QED BY <2>2, <2>3, <2>4
<1>2. CASE strip.reverseMode
  <2> DEFINE rev == Int16(strip.length - 1 - d)
  <2>1. rev \in Int /\ rev >= seg.start /\ rev < seg.stop
    BY <1>2, Int16Range DEF Inside, REV
  <2>2. d = strip.length - 1 - rev
    BY <2>1, RevInverse
  <2> HIDE DEF rev
  <2>3. rev - seg.start \in 0 .. Length(seg) - 1
    BY <2>1
  <2>4. d = Led(seg, strip, rev - seg.start)
    BY <1>2, <2>1, <2>2 DEF Led, REV
  <2>5. Mirrored(seg, strip, d) = Led(seg, strip, Length(seg) - 1 - (rev - seg.start))
    BY <1>2, <2>1, <2>2 DEF Led, Mirrored, REV
  <2>6. QED BY <2>3, <2>4, <2>5
<1>3. QED BY <1>1, <1>2

LEMMA PaintsOnlyItsOwn ==
    ASSUME NEW strip \in Strips, NEW seg \in Segments, OnStrip(seg, strip), IsActive(seg)
    PROVE  LedsPainted(seg, strip) \subseteq LedsOf(seg, strip) \cup 0 .. strip.skip - 1
<1> USE ActiveFields
<1>1. ASSUME NEW i \in Nat, NEW led \in SetPixelColor(seg, strip, i)
      PROVE  led \in LedsOf(seg, strip) \cup 0 .. strip.skip - 1
  <2> DEFINE direct == {d \in Grouped(seg, strip, i) : Inside(seg, strip, d)}
             images == IF seg.mirror THEN {Mirrored(seg, strip, d) : d \in direct} ELSE {}
  <2>1. led \in {d + strip.skip : d \in direct \cup images} \/ led \in 0 .. strip.skip - 1
    BY <1>1 DEF SetPixelColor
  <2>2. ASSUME NEW d \in direct \cup images
        PROVE  \E o \in 0 .. Length(seg) - 1 : d = Led(seg, strip, o)
    <3>1. PICK e \in direct : d = e \/ d = Mirrored(seg, strip, e)
      BY <2>2
    <3>2. e \in Int /\ -32768 <= e /\ e <= 32767 /\ Inside(seg, strip, e)
      BY GroupedRange
    <3>3. PICK o \in 0 .. Length(seg) - 1 :
              e = Led(seg, strip, o) /\ Mirrored(seg, strip, e) = Led(seg, strip, Length(seg) - 1 - o)
      BY <3>2, DirectOffset
    <3>4. Length(seg) - 1 - o \in 0 .. Length(seg) - 1
      OBVIOUS
    <3>5. QED BY <3>1, <3>3, <3>4
  <2> HIDE DEF direct, images
  <2>3. QED BY <2>1, <2>2, LedsByOffset
<1>2. ASSUME NEW i \in 0 .. VirtualLength(seg) - 1 PROVE i \in Nat
  BY <1>2
<1>3. QED BY <1>1, <1>2 DEF LedsPainted

(* Without spacing the groups follow each other: LED j of the group of     *)
(* pixel i is i * grouping + j LEDs from where the pixels begin.           *)
PixelsEnd(seg) == IF seg.mirror THEN (Length(seg) - 1) \div 2 ELSE Length(seg) - 1
OffsetFrom(seg, x) ==
    IF ~seg.reverse THEN x ELSE PixelsEnd(seg) - x

LEMMA GroupReaches ==
    ASSUME NEW strip \in Strips, NEW seg \in Segments, OnStrip(seg, strip), IsActive(seg),
           seg.grouping >= 1, seg.spacing = 0,
           NEW i \in Nat, NEW j \in 0 .. seg.grouping - 1,
           i * seg.grouping + j <= PixelsEnd(seg)
    PROVE  LET d == Led(seg, strip, OffsetFrom(seg, i * seg.grouping + j))
           IN  d \in Grouped(seg, strip, i) /\ Inside(seg, strip, d) /\ d \in Int /\ -32768 <= d /\ d <= 32767
<1> DEFINE b == i * seg.grouping
           l == Length(seg)
           e == PixelsEnd(seg)
           p == OffsetFrom(seg, b)
           x == OffsetFrom(seg, b + j)
           d == Led(seg, strip, x)
<1>1. /\ strip.length \in Nat /\ strip.length <= 32767 /\ strip.reverseMode \in BOOLEAN
      /\ seg.start \in Nat /\ l \in Nat /\ l >= 1 /\ seg.start + l <= strip.length
      /\ seg.reverse \in BOOLEAN /\ seg.mirror \in BOOLEAN
      /\ l = seg.stop - seg.start /\ seg.stop \in Nat /\ seg.grouping \in Nat
  BY ActiveFields DEF Segments
<1>2. e \in Nat /\ e <= l - 1
  BY <1>1 DEF PixelsEnd
<1>3. b \in Nat /\ b + j <= e /\ j \in Nat
  BY <1>1
<1>4. GroupLength(seg) = seg.grouping
  BY <1>1 DEF GroupLength
<1> HIDE DEF b
<1>5. Int16(b) = b
  BY <1>1, <1>2, <1>3, Int16Wrap
<1> DEFINE inSegment == IF ~seg.reverse THEN Int16(b)
                        ELSE IF seg.mirror THEN (l - 1) \div 2 - Int16(b)
                        ELSE l - Int16(b) - 1
<1>6. inSegment = p /\ p \in 0 .. e
  BY <1>1, <1>2, <1>3, <1>5 DEF OffsetFrom, PixelsEnd
<1> HIDE DEF p, e
<1>7. Int16(inSegment) = p
  BY <1>1, <1>2, <1>6, Int16Wrap
<1>8. Int16(Int16(inSegment) + seg.start) = p + seg.start
  BY <1>1, <1>2, <1>6, <1>7, Int16Wrap
<1>9. strip.reverseMode => Int16(REV(strip, p + seg.start)) = strip.length - 1 - (p + seg.start)
  BY <1>1, <1>2, <1>6, Int16Wrap DEF REV
<1>10. RealPixelIndex(seg, strip, i) = Led(seg, strip, p)
  <2>1. RealPixelIndex(seg, strip, i) =
          IF strip.reverseMode THEN Int16(REV(strip, Int16(Int16(inSegment) + seg.start)))
          ELSE Int16(Int16(inSegment) + seg.start)
    BY <1>4 DEF RealPixelIndex, b
  <2>2. QED BY <1>1, <1>6, <1>8, <1>9, <2>1 DEF Led, REV
<1>11. x \in 0 .. l - 1
  BY <1>1, <1>2, <1>3 DEF OffsetFrom, e
<1>12. d \in Int /\ 0 <= d /\ d <= 32767
  BY <1>1, <1>11 DEF Led, REV
<1>13. d = IF strip.reverseMode # seg.reverse THEN Led(seg, strip, p) - j ELSE Led(seg, strip, p) + j
  BY <1>1, <1>2, <1>3 DEF Led, REV, OffsetFrom, p, e
<1>14. Int16(d) = d
  BY <1>12, Int16Wrap
<1>15. d \in Grouped(seg, strip, i)
  BY <1>10, <1>13, <1>14 DEF Grouped
<1>16. Inside(seg, strip, d)
  <2>1. CASE strip.reverseMode
    <3>1. d = strip.length - 1 - (seg.start + x)
      BY <2>1 DEF Led, REV
    <3>2. REV(strip, d) = seg.start + x
      BY <1>1, <1>11, <3>1 DEF REV
    <3>3. Int16(REV(strip, d)) = seg.start + x
      BY <1>1, <1>11, <3>2, Int16Wrap
    <3>4. QED BY <1>1, <1>11, <2>1, <3>3 DEF Inside
  <2>2. CASE ~strip.reverseMode
    BY <1>1, <1>11, <2>2 DEF Led, Inside
  <2>3. QED BY <2>1, <2>2, <1>1
<1>17. QED BY <1>12, <1>15, <1>16 DEF b

(* Every LED of the segment is one of a group or the mirror image of one.  *)
LEMMA PaintsAll ==
    ASSUME NEW strip \in Strips, NEW seg \in Segments, OnStrip(seg, strip), IsActive(seg),
           seg.grouping >= 1, seg.spacing = 0
    PROVE  LedsOf(seg, strip) \subseteq LedsPainted(seg, strip)
<1> DEFINE l == Length(seg)
           g == seg.grouping
<1>1. /\ l \in Nat /\ l >= 1 /\ g \in Nat /\ g >= 1 /\ seg.mirror \in BOOLEAN /\ seg.reverse \in BOOLEAN
      /\ strip.skip \in Nat
  BY ActiveFields DEF Segments
<1>2. GroupLength(seg) = g
  BY <1>1 DEF GroupLength
<1>3. PixelsEnd(seg) \in Nat /\ PixelsEnd(seg) <= l - 1
  BY <1>1 DEF PixelsEnd
<1>4. ASSUME NEW o \in 0 .. PixelsEnd(seg)
      PROVE  \E i \in 0 .. VirtualLength(seg) - 1 :
                 LET d == Led(seg, strip, o)
                 IN  d \in Grouped(seg, strip, i) /\ Inside(seg, strip, d) /\ d \in Int /\ -32768 <= d /\ d <= 32767
  <2> DEFINE y == OffsetFrom(seg, o)
             i == y \div g
             j == y % g
  <2>1. y \in 0 .. PixelsEnd(seg) /\ OffsetFrom(seg, y) = o
    BY <1>1, <1>3 DEF OffsetFrom
  <2>2. y \in Nat
    BY <2>1, <1>3
  <2> HIDE DEF y
  <2> HIDE DEF g
  <2>3. i \in Nat /\ j \in 0 .. g - 1 /\ i * g + j = y /\ i * g <= y /\ i * g \in Nat
    <3>1. /\ y \div g \in Nat /\ y % g \in Nat /\ y % g <= g - 1 /\ y = (y \div g) * g + (y % g)
          /\ (y \div g) * g \in Nat /\ (y \div g) * g <= y
      BY <1>1, <2>2, Groups
    <3>2. QED BY <3>1, <1>1
  <2> HIDE DEF i, j
  <2>4. i \in 0 .. VirtualLength(seg) - 1
    <3> DEFINE groups == (l + g - 1) \div g
    <3>1. VirtualLength(seg) = IF seg.mirror THEN (groups + 1) \div 2 ELSE groups
      BY <1>2 DEF VirtualLength
    <3>2. i * g <= l - 1 => i <= groups - 1
      BY <1>1, <2>3, PixelOf
    <3>3. 2 * (i * g) <= l - 1 => i <= (groups + 1) \div 2 - 1
      BY <1>1, <2>3, PixelOf
    <3>4. groups \in Nat
      BY <1>1, <2>3, PixelOf
    <3> HIDE DEF groups, l
    <3>5. CASE seg.mirror
      <4>1. i * g <= (l - 1) \div 2
        BY <1>1, <1>3, <2>1, <2>2, <2>3, <3>5 DEF PixelsEnd, l
      <4>2. 2 * (i * g) <= l - 1
        BY <1>1, <2>3, <4>1
      <4>3. QED BY <2>3, <3>1, <3>3, <3>4, <3>5, <4>2
    <3>6. CASE ~seg.mirror
      <4>1. i * g <= l - 1
        BY <1>1, <1>3, <2>1, <2>2, <2>3, <3>6 DEF PixelsEnd, l
      <4>2. QED BY <2>3, <3>1, <3>2, <3>4, <3>6, <4>1
    <3>7. QED BY <1>1, <3>5, <3>6
  <2>5. i * seg.grouping + j <= PixelsEnd(seg) /\ j \in 0 .. seg.grouping - 1
    BY <1>3, <2>1, <2>2, <2>3 DEF g
  <2>6. LET d == Led(seg, strip, OffsetFrom(seg, i * seg.grouping + j))
        IN  d \in Grouped(seg, strip, i) /\ Inside(seg, strip, d) /\ d \in Int /\ -32768 <= d /\ d <= 32767
    BY <1>1, <2>3, <2>5, GroupReaches DEF g
  <2>7. OffsetFrom(seg, i * seg.grouping + j) = o
    BY <2>1, <2>3 DEF g
  <2>8. QED BY <2>4, <2>6, <2>7
<1>5. ASSUME NEW o \in 0 .. l - 1
      PROVE  Led(seg, strip, o) + strip.skip \in LedsPainted(seg, strip)
  <2>1. CASE o <= PixelsEnd(seg)
    <3>1. o \in 0 .. PixelsEnd(seg)
      BY <1>3, <2>1
    <3>2. PICK i \in 0 .. VirtualLength(seg) - 1 :
             Led(seg, strip, o) \in Grouped(seg, strip, i) /\ Inside(seg, strip, Led(seg, strip, o))
      BY <1>4, <3>1
    <3>3. Led(seg, strip, o) + strip.skip \in SetPixelColor(seg, strip, i)
      BY <3>2 DEF SetPixelColor
    <3>4. QED BY <3>3 DEF LedsPainted
  <2>2. CASE ~(o <= PixelsEnd(seg))
    <3> DEFINE m == l - 1 - o
               d == Led(seg, strip, m)
    <3>1. seg.mirror
      BY <1>1, <2>2 DEF PixelsEnd
    <3>2. m \in 0 .. PixelsEnd(seg)
      BY <1>1, <1>3, <2>2, <3>1 DEF PixelsEnd
    <3>3. PICK i \in 0 .. VirtualLength(seg) - 1 :
             d \in Grouped(seg, strip, i) /\ Inside(seg, strip, d) /\ d \in Int /\ -32768 <= d /\ d <= 32767
      BY <1>4, <3>2
    <3>4. Mirrored(seg, strip, d) = Led(seg, strip, o)
      BY <1>1, <3>2, <1>3, ActiveFields DEF Led, Mirrored, REV
    <3>5. Led(seg, strip, o) + strip.skip \in SetPixelColor(seg, strip, i)
      BY <3>1, <3>3, <3>4 DEF SetPixelColor
    <3>6. QED BY <3>5 DEF LedsPainted
  <2>3. QED BY <2>1, <2>2
<1>6. QED BY <1>5, LedsByOffset

(* The pixels an effect sees cover their segment, and nothing else, on     *)
(* strips of every length: however they are grouped, mirrored and          *)
(* reversed, no LED stays dark where there is no spacing, and none of a    *)
(* neighbour is painted.                                                   *)
THEOREM PixelsCoverSegment ==
    ASSUME NEW strip \in Strips, NEW seg \in Segments, OnStrip(seg, strip), IsActive(seg),
           seg.grouping >= 1
    PROVE  Covered(seg, strip)
BY PaintsOnlyItsOwn, PaintsAll DEF Covered

(* What the run checks of the strips it sets up, as an instance            *)
THEOREM SegmentsAreCovered == Spec => []SegmentsCovered
<1>1. ASSUME NEW strip \in SmallStrips, NEW seg \in ActiveSegments(strip)
      PROVE  Covered(seg, strip)
  <2>1. strip \in Strips
    BY DEF SmallStrips, Strips
  <2>2. /\ seg \in [start : 0 .. strip.length - 1, stop : 0 .. strip.length, grouping : 1 .. 3,
                     spacing : 0 .. 2, mirror : BOOLEAN, reverse : BOOLEAN]
        /\ OnStrip(seg, strip) /\ IsActive(seg)
    BY DEF ActiveSegments, SmallSegments
  <2>3. seg \in Segments /\ seg.grouping >= 1
    BY <2>1, <2>2 DEF Strips, Segments
  <2>4. QED BY <2>1, <2>2, <2>3, PixelsCoverSegment
<1>2. SegmentsCovered
  BY <1>1 DEF SegmentsCovered
<1>3. QED BY <1>2, PTL
=============================================================================
