------------------------------ MODULE Animator ------------------------------
(***************************************************************************)
(* The animation of the LED strip (src/main/led_animator.cpp and the part  *)
(* of WS2812FX it shares with its clients): led_anim_task computes and     *)
(* shows frames, and the task of the web server carries out orders on the  *)
(* same animMode and the same WS2812FX object.  Nothing locks them, and as *)
(* both tasks have priority 5 either may be interrupted between any two    *)
(* steps.                                                                  *)
(***************************************************************************)
EXTENDS Integers

CONSTANTS
  Modes,          \* the modes a client may order
  ModeCount,      \* MODE_COUNT
  Values,         \* the colours, speeds and brightnesses it may
  DefaultMode,
  DefaultValue,
  MaxDelay,       \* bound: the longest delay an effect asks for, in ticks of 10 ms
  MaxOrders,      \* bound: the orders of all clients
  Leds            \* LEDs of the strip

ASSUME AnimatorAssumption ==
  /\ ModeCount \in Nat \ {0} /\ Modes \subseteq Nat
  /\ DefaultMode \in 0 .. ModeCount - 1
  /\ MaxDelay \in Nat /\ MaxOrders \in Nat

VARIABLES
  anim,           \* animMode: mode, color, speed, brightness
  seg,            \* _segments[0]: mode, color, speed
  bright,         \* _brightness
  owner,          \* the effect that wrote _segment_runtimes[0], Fresh after a reset
  due,            \* next_time, in ticks from now
  rested,         \* ticks since _lastShow
  leds,           \* what the effect has painted: mode, color, speed
  pixels,         \* what each LED shows: what was painted, and how bright
  task,           \* where led_anim_task is, and what it has in its registers
  web,            \* where the task of the web server is, its order, its next LED
  orders,         \* how many orders have come
  found,          \* the effect that runs, and the owner of the state it has found
  raced,          \* whether an order and the start of the animation overlapped
  crossed         \* whether the mode was changed under an effect that ran

vars == <<anim, seg, bright, owner, due, rested, leds, pixels, task, web, orders, found, raced, crossed>>
shared == <<anim, seg, bright, owner, due, rested, leds, pixels>>

Fresh == -1
Dark == [mode |-> Fresh, color |-> Fresh, speed |-> Fresh]
MinShowTicks == 2       \* MIN_SHOW_DELAY, 15 ms
SoonTicks == 2          \* the 22 ms of setBrightness

Clamped(m) == IF m >= ModeCount THEN ModeCount - 1 ELSE m

Default == [mode |-> DefaultMode, color |-> DefaultValue, speed |-> DefaultValue]
\* Steps that led_anim_task takes once, in this order, before it serves.
Starting == {"off", "init", "brightness", "show0", "mode", "color", "speed"}

Init ==
  /\ anim = [mode |-> 0, color |-> 0, speed |-> 0, brightness |-> 0]
  /\ seg = Default
  /\ bright = DefaultValue
  /\ owner = Fresh
  /\ due = 0
  /\ rested = MinShowTicks
  /\ leds = Dark
  /\ pixels = [p \in Leds |-> [painted |-> Dark, bright |-> 0]]
  /\ task = [at |-> "off", arg |-> 0, led |-> 0]
  /\ web = [at |-> "idle", led |-> 0]
  /\ orders = 0
  /\ found = [effect |-> Fresh, state |-> Fresh]
  /\ raced = FALSE
  /\ crossed = FALSE

-----------------------------------------------------------------------------
(* Pieces of both tasks. *)

\* A step of the start, while the web server is in the middle of an order.
Overlaps == raced' = (raced \/ web.at # "idle")

\* hal_show for one LED, scaled by animMode.brightness as it is by then.
PaintLed(p) == pixels' = [pixels EXCEPT ![p] = [painted |-> leds, bright |-> anim.brightness]]
LastLed == CHOOSE p \in Leds : \A q \in Leds : q <= p
FirstLed == CHOOSE p \in Leds : \A q \in Leds : p <= q

\* WS2812FX::setMode, up to the reset of what the effect has left: next_time,
\* step, call, aux0, aux1 and data.
KeepRuntime(m) == UNCHANGED <<owner, due>>
ResetRuntime(m) ==
  IF seg.mode # Clamped(m) THEN owner' = Fresh /\ due' = 0 ELSE UNCHANGED <<owner, due>>

\* WS2812FX::setBrightness shows at once unless the next frame comes soon.
ShowsRested == rested >= MinShowTicks
ShowsAtOnce == due > SoonTicks /\ rested >= MinShowTicks

-----------------------------------------------------------------------------
(* led_anim_task *)

At(from, to) == task.at = from /\ task' = [task EXCEPT !.at = to]

\* led_animator_init: it overwrites what orders have left in animMode, and
\* starts the task.
Boot ==
  /\ At("off", "init")
  /\ anim' = [mode |-> DefaultMode, color |-> DefaultValue, speed |-> DefaultValue, brightness |-> DefaultValue]
  /\ Overlaps
  /\ UNCHANGED <<seg, bright, owner, due, rested, leds, pixels, web, orders, found, crossed>>

\* WS2812FX::init, and setBrightness, which sees that a frame is due.
StartSegment ==
  /\ \/ /\ At("init", "brightness")
        /\ owner' = Fresh /\ due' = 0
        /\ UNCHANGED bright
     \/ /\ At("brightness", "show0")
        /\ bright' = anim.brightness
        /\ UNCHANGED <<owner, due>>
  /\ Overlaps
  /\ UNCHANGED <<anim, seg, rested, leds, pixels, web, orders, found, crossed>>

StartShow ==
  /\ At("show0", "mode")
  /\ pixels' = [p \in Leds |-> [painted |-> leds, bright |-> anim.brightness]]
  /\ rested' = 0
  /\ Overlaps
  /\ UNCHANGED <<anim, seg, bright, owner, due, leds, web, orders, found, crossed>>

\* The arguments of setMode, setColor and setSpeed are read from animMode ...
ReadArgument ==
  /\ task.at \in {"mode", "color", "speed"}
  /\ task' = [task EXCEPT !.at = CASE @ = "mode" -> "setMode" [] @ = "color" -> "setColor" [] OTHER -> "setSpeed",
                          !.arg = anim[task.at]]
  /\ Overlaps
  /\ UNCHANGED <<shared, web, orders, found, crossed>>

\* ... and written to the segment.
WriteArgument ==
  /\ \/ /\ At("setMode", "color")
        /\ seg' = [seg EXCEPT !.mode = Clamped(task.arg)]
        /\ ResetRuntime(task.arg)
     \/ /\ At("setColor", "speed")
        /\ seg' = [seg EXCEPT !.color = task.arg]
        /\ UNCHANGED <<owner, due>>
     \/ \* led_animator.cpp:115 and 116 write it twice
        /\ At("setSpeed", "service")
        /\ seg' = [seg EXCEPT !.speed = task.arg]
        /\ UNCHANGED <<owner, due>>
  /\ Overlaps
  /\ UNCHANGED <<anim, bright, rested, leds, pixels, web, orders, found, crossed>>

\* WS2812FX::service returns at once, or takes the effect to run from the table.
Service ==
  /\ task.at = "service"
  /\ IF rested < MinShowTicks \/ due > 0
       THEN task' = [task EXCEPT !.at = "rest"]
       ELSE task' = [task EXCEPT !.at = "effect", !.arg = seg.mode]
  /\ UNCHANGED <<shared, web, orders, found, raced, crossed>>

\* The effect goes on from what it finds in the runtime, and paints.  A reset
\* while it does comes to the same as one just before: what it writes stays.
RunEffect ==
  /\ At("effect", "delay")
  /\ found' = [effect |-> task.arg, state |-> owner]
  /\ owner' = task.arg
  /\ leds' = [mode |-> task.arg, color |-> seg.color, speed |-> seg.speed]
  /\ crossed' = (crossed \/ web.at = "mode" \/ task.arg # seg.mode)
  /\ UNCHANGED <<anim, seg, bright, due, rested, pixels, web, orders, raced>>

\* next_time = nowUp + delay: some of the delay may have passed since nowUp.
SetNextTime ==
  /\ task.at = "delay"
  /\ task' = [task EXCEPT !.at = "show", !.led = FirstLed]
  /\ due' \in 0 .. MaxDelay
  /\ UNCHANGED <<anim, seg, bright, owner, rested, leds, pixels, web, orders, found, raced, crossed>>

ShowLed ==
  /\ task.at = "show"
  /\ PaintLed(task.led)
  /\ IF task.led = LastLed
       THEN task' = [task EXCEPT !.at = "rest"] /\ rested' = 0
       ELSE task' = [task EXCEPT !.led = @ + 1] /\ UNCHANGED rested
  /\ UNCHANGED <<anim, seg, bright, owner, due, leds, web, orders, found, raced, crossed>>

\* vTaskDelay(1)
Rest ==
  /\ At("rest", "service")
  /\ UNCHANGED <<shared, web, orders, found, raced, crossed>>

AnimatorTask ==
  \/ StartSegment \/ StartShow \/ ReadArgument \/ WriteArgument
  \/ Service \/ RunEffect \/ SetNextTime \/ ShowLed \/ Rest

-----------------------------------------------------------------------------
(* The task of the web server: led_animator_setmode and its like. *)

Order(to, a) ==
  /\ web.at = "idle"
  /\ orders < MaxOrders
  /\ orders' = orders + 1
  /\ web' = [web EXCEPT !.at = to]
  /\ anim' = a
  /\ raced' = (raced \/ task.at \in (Starting \ {"off"}) \cup {"setMode", "setColor", "setSpeed"})
  /\ UNCHANGED <<seg, bright, owner, due, rested, leds, pixels, task, found, crossed>>

OrderMode == \E m \in Modes : Order("reset", [anim EXCEPT !.mode = m])
OrderColor == \E v \in Values : Order("color", [anim EXCEPT !.color = v])
OrderSpeed == \E v \in Values : Order("speed", [anim EXCEPT !.speed = v])
OrderBrightness == \E v \in Values : Order("brightness", [anim EXCEPT !.brightness = v])

Carry(from, to) == web.at = from /\ web' = [web EXCEPT !.at = to]

ResetMode ==
  /\ Carry("reset", IF seg.mode = Clamped(anim.mode) THEN "idle" ELSE "mode")
  /\ ResetRuntime(anim.mode)
  /\ UNCHANGED <<anim, seg, bright, rested, leds, pixels, task, orders, found, raced, crossed>>

WriteSelectedOnly ==
  /\ \/ Carry("mode", "idle") /\ seg' = [seg EXCEPT !.mode = Clamped(anim.mode)]
     \/ Carry("color", "idle") /\ UNCHANGED seg
     \/ Carry("speed", "idle") /\ seg' = [seg EXCEPT !.speed = anim.speed]
  /\ UNCHANGED <<anim, bright, owner, due, rested, leds, pixels, task, orders, found, raced, crossed>>

WriteSegment ==
  /\ \/ Carry("mode", "idle") /\ seg' = [seg EXCEPT !.mode = Clamped(anim.mode)]
     \/ Carry("color", "idle") /\ seg' = [seg EXCEPT !.color = anim.color]
     \/ Carry("speed", "idle") /\ seg' = [seg EXCEPT !.speed = anim.speed]
  /\ UNCHANGED <<anim, bright, owner, due, rested, leds, pixels, task, orders, found, raced, crossed>>

\* Fault: what is not shown at once is not kept.
BrightWhenShown ==
  /\ web.at = "brightness"
  /\ bright' = IF ShowsAtOnce THEN anim.brightness ELSE bright
  /\ web' = IF bright # anim.brightness /\ ShowsAtOnce THEN [at |-> "show", led |-> FirstLed]
            ELSE [web EXCEPT !.at = "idle"]
  /\ UNCHANGED <<anim, seg, owner, due, rested, leds, pixels, task, orders, found, raced, crossed>>
SetBrightness ==
  /\ web.at = "brightness"
  /\ bright' = anim.brightness
  /\ web' = IF bright # anim.brightness /\ ShowsAtOnce THEN [at |-> "show", led |-> FirstLed]
            ELSE [web EXCEPT !.at = "idle"]
  /\ UNCHANGED <<anim, seg, owner, due, rested, leds, pixels, task, orders, found, raced, crossed>>

WebShowLed ==
  /\ web.at = "show"
  /\ PaintLed(web.led)
  /\ IF web.led = LastLed
       THEN web' = [web EXCEPT !.at = "idle"] /\ rested' = 0
       ELSE web' = [web EXCEPT !.led = @ + 1] /\ UNCHANGED rested
  /\ UNCHANGED <<anim, seg, bright, owner, due, leds, task, orders, found, raced, crossed>>

GiveOrder == OrderMode \/ OrderColor \/ OrderSpeed \/ OrderBrightness
CarryOut == ResetMode \/ WriteSegment \/ SetBrightness \/ WebShowLed

-----------------------------------------------------------------------------
\* 10 ms pass.
Tick ==
  /\ due > 0 \/ rested < MinShowTicks
  /\ due' = IF due > 0 THEN due - 1 ELSE 0
  /\ rested' = IF rested < MinShowTicks THEN rested + 1 ELSE rested
  /\ UNCHANGED <<anim, seg, bright, owner, leds, pixels, task, web, orders, found, raced, crossed>>

Next == Boot \/ AnimatorTask \/ GiveOrder \/ CarryOut \/ Tick

\* Both tasks get their turns, as tasks of one priority do, and time goes by.
\* Nobody has to give orders.
Fairness == WF_vars(Boot) /\ WF_vars(AnimatorTask) /\ WF_vars(CarryOut) /\ WF_vars(Tick)

Spec == Init /\ [][Next]_vars /\ Fairness

-----------------------------------------------------------------------------
\* Nobody shows a strip that is not there: until WS2812FX::init has set it up
\* next_time is zero, and setBrightness leaves the showing to the first frame.
ShownStripExists ==
  web.at = "show" => task.at \notin {"off", "init"}

\* The change of mode resets what the effect before has left, so that the new
\* one starts from nothing.  It may find the state of another only when the two
\* tasks have met: the mode was changed between the moment service took the
\* effect from the table and the end of that effect.
EffectsFindTheirOwn ==
  found.state \in {Fresh, found.effect} \/ crossed

\* The animation is kept twice, in animMode, from which it is started and
\* told to clients, and in the object that runs it.  Whenever the animation
\* runs and no order is being carried out, both are the same: nothing of an
\* order is lost, whatever came before the start, unless one met the start.
Running == {"service", "effect", "delay", "show", "rest"}
BothTheSame ==
  web.at = "idle" /\ task.at \in Running =>
    \/ raced
    \/ /\ seg = [mode |-> Clamped(anim.mode), color |-> anim.color, speed |-> anim.speed]
       /\ bright = anim.brightness

\* When orders cease, the whole strip shows the last of each kind, in its
\* brightness, and goes on showing it, whatever the orders interrupted and
\* whatever delay the effect before has asked for.  Not so for an order that
\* meets the start of the animation, which may undo half of it.
Obeyed(p) ==
  /\ pixels[p].bright = anim.brightness
  /\ pixels[p].painted = [mode |-> Clamped(anim.mode), color |-> anim.color, speed |-> anim.speed]
LastOrdersShown == <>[](raced \/ \A p \in Leds : Obeyed(p))
=============================================================================
