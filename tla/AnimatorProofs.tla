--------------------------- MODULE AnimatorProofs ---------------------------
(***************************************************************************)
(* The safety of Animator, for any strip, any modes and any number of      *)
(* orders.                                                                 *)
(***************************************************************************)
EXTENDS Animator, TLAPS

\* The records keep their fields.
Records ==
  /\ task \in [at : {task.at}, arg : {task.arg}, led : {task.led}]
  /\ web \in [at : {web.at}, led : {web.led}]
  /\ seg \in [mode : {seg.mode}, color : {seg.color}, speed : {seg.speed}]

LEMMA RecordsInitially == Init => Records
  BY DEF Init, Records, Default

LEMMA RecordsStep == Records /\ [Next]_vars => Records'
<1> SUFFICES ASSUME Records, [Next]_vars PROVE Records'
  OBVIOUS
<1> USE DEF Records
<1>1. CASE AnimatorTask
  <2>1. CASE StartSegment \/ StartShow \/ RunEffect \/ Rest
    BY <2>1 DEF StartSegment, StartShow, RunEffect, Rest, At, shared
  <2>2. CASE ReadArgument \/ Service
    BY <2>2 DEF ReadArgument, Service, shared
  <2>3. CASE WriteArgument
    BY <2>3 DEF WriteArgument, At
  <2>4. CASE SetNextTime \/ ShowLed
    BY <2>4 DEF SetNextTime, ShowLed
  <2> QED
    BY <1>1, <2>1, <2>2, <2>3, <2>4 DEF AnimatorTask
<1>2. CASE GiveOrder
  BY <1>2 DEF GiveOrder, OrderMode, OrderColor, OrderSpeed, OrderBrightness, Order
<1>3. CASE CarryOut
  <2>1. CASE ResetMode \/ WriteSegment
    BY <2>1 DEF ResetMode, WriteSegment, Carry
  <2>2. CASE SetBrightness \/ WebShowLed
    BY <2>2 DEF SetBrightness, WebShowLed
  <2> QED
    BY <1>3, <2>1, <2>2 DEF CarryOut
<1>4. CASE Boot \/ Tick
  BY <1>4 DEF Boot, Tick, At
<1>5. CASE UNCHANGED vars
  BY <1>5 DEF vars
<1> QED
  BY <1>1, <1>2, <1>3, <1>4, <1>5 DEF Next

\* Before the strip is set up a frame is due, so that setBrightness does not
\* show.
StartInv ==
  /\ task.at \in {"off", "init"} => due = 0
  /\ ShownStripExists

\* Behind ShownStripExists is no order of steps but the zero in next_time: a
\* reset can only make it due, and only a frame can move it away.
LEMMA StartInitially == Init => StartInv
  BY DEF Init, StartInv, ShownStripExists

LEMMA StartStep == Records /\ StartInv /\ [Next]_vars => StartInv'
<1> SUFFICES ASSUME Records, StartInv, [Next]_vars PROVE StartInv'
  OBVIOUS
<1> USE DEF Records, StartInv, ShownStripExists
<1>1. CASE Boot
  BY <1>1 DEF Boot, At
<1>2. CASE StartSegment
  BY <1>2 DEF StartSegment, At
<1>3. CASE StartShow
  BY <1>3 DEF StartShow, At
<1>4. CASE ReadArgument
  <2>1. task'.at \notin {"off", "init"}
    BY <1>4 DEF ReadArgument
  <2> QED
    BY <1>4, <2>1 DEF ReadArgument, shared
<1>5. CASE WriteArgument
  BY <1>5 DEF WriteArgument, At
<1>6. CASE Service
  BY <1>6 DEF Service
<1>7. CASE RunEffect
  BY <1>7 DEF RunEffect, At
<1>8. CASE SetNextTime
  BY <1>8 DEF SetNextTime
<1>9. CASE ShowLed
  BY <1>9 DEF ShowLed
<1>10. CASE Rest
  BY <1>10 DEF Rest, At
<1>11. CASE GiveOrder
  BY <1>11 DEF GiveOrder, OrderMode, OrderColor, OrderSpeed, OrderBrightness, Order
<1>12. CASE ResetMode
  BY <1>12 DEF ResetMode, Carry, ResetRuntime
<1>13. CASE WriteSegment
  BY <1>13 DEF WriteSegment, Carry
<1>14. CASE SetBrightness
  BY <1>14 DEF SetBrightness, ShowsAtOnce, SoonTicks
<1>15. CASE WebShowLed
  BY <1>15 DEF WebShowLed
<1>16. CASE Tick
  BY <1>16 DEF Tick
<1>17. CASE UNCHANGED vars
  BY <1>17 DEF vars
<1> QED
  BY <1>1, <1>2, <1>3, <1>4, <1>5, <1>6, <1>7, <1>8, <1>9, <1>10, <1>11, <1>12, <1>13,
     <1>14, <1>15, <1>16, <1>17 DEF Next, AnimatorTask, CarryOut

\* No LED is shown before WS2812FX::init has set the strip up.
THEOREM ShowsWhatExists == Spec => []ShownStripExists
<1>1. StartInv => ShownStripExists
  BY DEF StartInv
<1> QED
  BY RecordsInitially, RecordsStep, StartInitially, StartStep, <1>1, PTL DEF Spec

-----------------------------------------------------------------------------
\* Unless the mode was changed under an effect, the runtime is fresh or the
\* effect's that the segment has, and fresh between the reset and the change.
OwnerInv ==
  \/ crossed
  \/ /\ owner \in {Fresh, seg.mode}
     /\ web.at = "mode" => owner = Fresh
     /\ found.state \in {Fresh, found.effect}

LEMMA OwnerInitially == Init => OwnerInv
  BY DEF Init, OwnerInv

LEMMA OwnerStep == Records /\ OwnerInv /\ [Next]_vars => OwnerInv'
<1> SUFFICES ASSUME Records, OwnerInv, ~crossed, [Next]_vars PROVE OwnerInv'
  <2>1. ASSUME crossed, [Next]_vars PROVE crossed'
    BY <2>1 DEF Next, AnimatorTask, CarryOut, GiveOrder, Boot, StartSegment, StartShow, ReadArgument,
      WriteArgument, Service, RunEffect, SetNextTime, ShowLed, Rest, OrderMode, OrderColor, OrderSpeed,
      OrderBrightness, Order, ResetMode, WriteSegment, SetBrightness, WebShowLed, Tick, vars
  <2> QED
    BY <2>1 DEF OwnerInv
<1> USE DEF Records, OwnerInv
<1>1. CASE Boot
  BY <1>1 DEF Boot
<1>2. CASE StartSegment
  BY <1>2 DEF StartSegment
<1>3. CASE StartShow
  BY <1>3 DEF StartShow
<1>4. CASE ReadArgument
  BY <1>4 DEF ReadArgument, shared
<1>5. CASE WriteArgument
  BY <1>5 DEF WriteArgument, ResetRuntime
<1>6. CASE Service
  BY <1>6 DEF Service, shared
<1>7. CASE RunEffect
  BY <1>7 DEF RunEffect
<1>8. CASE SetNextTime
  BY <1>8 DEF SetNextTime
<1>9. CASE ShowLed
  BY <1>9 DEF ShowLed
<1>10. CASE Rest
  BY <1>10 DEF Rest, shared
<1>11. CASE GiveOrder
  BY <1>11 DEF GiveOrder, OrderMode, OrderColor, OrderSpeed, OrderBrightness, Order
<1>12. CASE ResetMode
  BY <1>12 DEF ResetMode, Carry, ResetRuntime
<1>13. CASE WriteSegment
  BY <1>13 DEF WriteSegment, Carry
<1>14. CASE SetBrightness
  BY <1>14 DEF SetBrightness
<1>15. CASE WebShowLed
  BY <1>15 DEF WebShowLed
<1>16. CASE Tick
  BY <1>16 DEF Tick
<1>17. CASE UNCHANGED vars
  BY <1>17 DEF vars
<1> QED
  BY <1>1, <1>2, <1>3, <1>4, <1>5, <1>6, <1>7, <1>8, <1>9, <1>10, <1>11, <1>12, <1>13,
     <1>14, <1>15, <1>16, <1>17 DEF Next, AnimatorTask, CarryOut

\* An effect goes on from its own state or from none, unless the mode was
\* changed under one.
THEOREM EffectsOwn == Spec => []EffectsFindTheirOwn
<1>1. OwnerInv => EffectsFindTheirOwn
  BY DEF OwnerInv, EffectsFindTheirOwn
<1> QED
  BY RecordsInitially, RecordsStep, OwnerInitially, OwnerStep, <1>1, PTL DEF Spec

-----------------------------------------------------------------------------
\* animMode keeps its fields.
AnimRecord ==
  anim \in [mode : {anim.mode}, color : {anim.color}, speed : {anim.speed}, brightness : {anim.brightness}]

LEMMA AnimInitially == Init => AnimRecord
  BY DEF Init, AnimRecord

LEMMA AnimStep == AnimRecord /\ [Next]_vars => AnimRecord'
<1> SUFFICES ASSUME AnimRecord, [Next]_vars PROVE AnimRecord'
  OBVIOUS
<1>1. CASE Boot
  BY <1>1 DEF Boot, AnimRecord
<1>2. CASE GiveOrder
  BY <1>2 DEF GiveOrder, OrderMode, OrderColor, OrderSpeed, OrderBrightness, Order, AnimRecord
<1>3. CASE anim' = anim
  BY <1>3 DEF AnimRecord
<1> QED
  BY <1>1, <1>2, <1>3 DEF Next, AnimatorTask, StartSegment, StartShow, ReadArgument, WriteArgument,
     Service, RunEffect, SetNextTime, ShowLed, Rest, CarryOut, ResetMode, WriteSegment,
     SetBrightness, WebShowLed, Tick, shared, vars

\* What has been carried over to the object when the task of the animation is
\* at one of these places.
PastColor == Running \cup {"speed", "setSpeed"}
PastMode == PastColor \cup {"color", "setColor"}
PastBrightness == PastMode \cup {"show0", "mode", "setMode"}
Places == PastBrightness \cup {"off", "init", "brightness"}

\* Unless an order has met the start, the start finds the web server idle; the
\* argument it has read is still that of animMode; and each field it has
\* carried over is the same in both, but for the one an order is about to
\* write.
SameInv ==
  /\ task.at \in Places
  /\ \/ raced
     \/ /\ task.at \notin Running \cup {"off"} => web.at = "idle"
        /\ task.at = "setMode" => task.arg = anim.mode
        /\ task.at = "setColor" => task.arg = anim.color
        /\ task.at = "setSpeed" => task.arg = anim.speed
        /\ task.at \in PastBrightness => bright = anim.brightness \/ web.at = "brightness"
        /\ task.at \in PastMode => seg.mode = Clamped(anim.mode) \/ web.at \in {"reset", "mode"}
        /\ task.at \in PastColor => seg.color = anim.color \/ web.at = "color"
        /\ task.at \in Running => seg.speed = anim.speed \/ web.at = "speed"

LEMMA SameInitially == Init => SameInv
  BY DEF Init, SameInv, Places, PastBrightness, PastMode, PastColor, Running

LEMMA SameStep == Records /\ AnimRecord /\ SameInv /\ [Next]_vars => SameInv'
<1> SUFFICES ASSUME Records, AnimRecord, SameInv, [Next]_vars PROVE SameInv'
  OBVIOUS
<1> USE DEF Records, AnimRecord, SameInv, Places, PastBrightness, PastMode, PastColor, Running
<1>1. CASE Boot
  BY <1>1 DEF Boot, At, Overlaps
<1>2. CASE StartSegment
  BY <1>2 DEF StartSegment, At, Overlaps
<1>3. CASE StartShow
  BY <1>3 DEF StartShow, At, Overlaps
<1>4. CASE ReadArgument
  <2>1. CASE task.at = "mode"
    BY <1>4, <2>1 DEF ReadArgument, shared, Overlaps
  <2>2. CASE task.at = "color"
    BY <1>4, <2>2 DEF ReadArgument, shared, Overlaps
  <2>3. CASE task.at = "speed"
    BY <1>4, <2>3 DEF ReadArgument, shared, Overlaps
  <2> QED
    BY <1>4, <2>1, <2>2, <2>3 DEF ReadArgument
<1>5. CASE WriteArgument
  BY <1>5 DEF WriteArgument, At, Overlaps, Clamped
<1>6. CASE Service
  BY <1>6 DEF Service, shared
<1>7. CASE RunEffect
  BY <1>7 DEF RunEffect, At
<1>8. CASE SetNextTime
  BY <1>8 DEF SetNextTime
<1>9. CASE ShowLed
  BY <1>9 DEF ShowLed
<1>10. CASE Rest
  BY <1>10 DEF Rest, At, shared
<1>11. CASE GiveOrder
  <2>1. CASE OrderMode
    BY <2>1 DEF OrderMode, Order, Starting
  <2>2. CASE OrderColor
    BY <2>2 DEF OrderColor, Order, Starting
  <2>3. CASE OrderSpeed
    BY <2>3 DEF OrderSpeed, Order, Starting
  <2>4. CASE OrderBrightness
    BY <2>4 DEF OrderBrightness, Order, Starting
  <2> QED
    BY <1>11, <2>1, <2>2, <2>3, <2>4 DEF GiveOrder
<1>12. CASE ResetMode
  BY <1>12 DEF ResetMode, Carry, Clamped
<1>13. CASE WriteSegment
  BY <1>13 DEF WriteSegment, Carry, Clamped
<1>14. CASE SetBrightness
  BY <1>14 DEF SetBrightness
<1>15. CASE WebShowLed
  BY <1>15 DEF WebShowLed
<1>16. CASE Tick
  BY <1>16 DEF Tick
<1>17. CASE UNCHANGED vars
  BY <1>17 DEF vars
<1> QED
  BY <1>1, <1>2, <1>3, <1>4, <1>5, <1>6, <1>7, <1>8, <1>9, <1>10, <1>11, <1>12, <1>13,
     <1>14, <1>15, <1>16, <1>17 DEF Next, AnimatorTask, CarryOut

\* While the animation runs and no order is being carried out, animMode and
\* the object that is animated say the same.
THEOREM NothingHalfDone == Spec => []BothTheSame
<1>1. Records /\ SameInv => BothTheSame
  BY DEF Records, SameInv, BothTheSame, PastBrightness, PastMode, PastColor
<1> QED
  BY <1>1, RecordsInitially, RecordsStep, AnimInitially, AnimStep, SameInitially, SameStep, PTL DEF Spec
=============================================================================
