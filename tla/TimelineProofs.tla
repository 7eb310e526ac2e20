--------------------------- MODULE TimelineProofs ---------------------------
(***************************************************************************)
(* Theorems about Timeline, for any durations, loop counts and calls, and  *)
(* any lag of the timer.                                                   *)
(***************************************************************************)
EXTENDS Timeline, AnimationProofs

(* The application keeps the animation alive. *)
Kept == Keepalive \subseteq {TRUE}

(* It never stops the animation itself. *)
NeverStopped == "Stop" \notin MainCalls \cup CallbackCalls

(* It has no endless animation, or none that runs backward. *)
Bounded == INFINITE \notin Loopcounts \/ "BACKWARD" \notin Turns

(* The timer is never late by more than a loop. *)
OnTime == \A d \in Durations : MaxLag <= d

-----------------------------------------------------------------------------
(***************************************************************************)
(* Types, and what the application has set.                                *)
(***************************************************************************)
SeenType == [elapsed : 0..Horizon, exact : BOOLEAN, even : BOOLEAN,
             loopcbs : 0..Horizon, firstrun : BOOLEAN]

Settings == /\ anim.duration \in Durations /\ anim.loopcount \in Loopcounts
            /\ anim.keepalive \in Keepalive /\ anim.direction \in Turns \cup {"FORWARD"}

(* An update that has called back is one of an animation on the list. *)
Updating == pc = "callback" => place = "listed" /\ local.total # 0

TInv == TypeOK /\ Settings /\ Updating

LEMMA HorizonIs == Horizon \in Nat /\ \A n \in Nat : Saturate(n) \in 0..Horizon
BY BoundsAssumption DEF Horizon, Saturate

LEMMA NewRunIs ==
    ASSUME NEW first \in BOOLEAN
    PROVE  /\ NewRun(first) \in SeenType
           /\ NewRun(first).elapsed = 0 /\ NewRun(first).exact /\ NewRun(first).even
           /\ NewRun(first).loopcbs = 0 /\ NewRun(first).firstrun = first
BY HorizonIs DEF NewRun, SeenType

LEMMA DisturbIs ==
    ASSUME seen \in SeenType, NEW exact \in BOOLEAN, NEW even \in BOOLEAN, Disturb(exact, even)
    PROVE  /\ seen' \in SeenType
           /\ seen'.exact <=> seen.exact /\ exact
           /\ seen'.even <=> seen.even /\ even
           /\ even => seen'.elapsed = seen.elapsed
           /\ seen'.loopcbs = seen.loopcbs /\ seen'.firstrun = seen.firstrun
<1> DEFINE n == IF even THEN seen.elapsed ELSE 0
           x == seen.exact /\ exact
           y == seen.even /\ even
<1>1. n \in 0..Horizon /\ (even => n = seen.elapsed) /\ x \in BOOLEAN /\ y \in BOOLEAN
    BY HorizonIs DEF SeenType
<1>2. seen' = [seen EXCEPT !.exact = x, !.even = y, !.elapsed = n]
    BY DEF Disturb, SeenType
<1>3. (x <=> seen.exact /\ exact) /\ (y <=> seen.even /\ even)
    OBVIOUS
<1> HIDE DEF n, x, y
<1>4. /\ seen' \in SeenType /\ seen'.exact = x /\ seen'.even = y /\ seen'.elapsed = n
      /\ seen'.loopcbs = seen.loopcbs /\ seen'.firstrun = seen.firstrun
    BY <1>1, <1>2 DEF SeenType
<1> QED
    BY <1>1, <1>3, <1>4

LEMMA TurnIs ==
    ASSUME seen \in SeenType, SetDirection
    PROVE  /\ seen' \in SeenType
           /\ seen'.exact = seen.exact
           /\ seen'.even <=> seen.even /\ Over(anim)
           /\ Over(anim) => seen'.elapsed = seen.elapsed
           /\ seen'.loopcbs = seen.loopcbs
           /\ seen'.firstrun <=> seen.firstrun /\ place = "unlisted"
<1> DEFINE y == seen.even /\ Over(anim)
           n == IF Over(anim) THEN seen.elapsed ELSE 0
           f == seen.firstrun /\ place = "unlisted"
<1>1. seen' = [seen EXCEPT !.even = y, !.elapsed = n, !.firstrun = f]
    BY DEF SetDirection, SeenType
<1>2. /\ y \in BOOLEAN /\ f \in BOOLEAN
      /\ n \in 0..Horizon /\ (Over(anim) => n = seen.elapsed)
    BY HorizonIs DEF SeenType
<1>3. (y <=> seen.even /\ Over(anim)) /\ (f <=> seen.firstrun /\ place = "unlisted")
    OBVIOUS
<1> HIDE DEF y, n, f
<1>4. /\ seen' \in SeenType /\ seen'.exact = seen.exact /\ seen'.even = y
      /\ seen'.elapsed = n /\ seen'.loopcbs = seen.loopcbs /\ seen'.firstrun = f
    BY <1>1, <1>2 DEF SeenType
<1> QED
    BY <1>2, <1>3, <1>4

LEMMA SeenTyped == TypeOK <=> /\ anim \in AnimationType
                              /\ place \in {"unlisted", "listed", "freed"}
                              /\ pc \in {"idle", "callback"}
                              /\ local \in [oldloop: Int, total: Int, time: Int]
                              /\ quiet \in BOOLEAN /\ seen \in SeenType
BY DEF TypeOK, SeenType

(* The total time is known from what the application has set. *)
LEMMA TotalSet ==
    ASSUME TInv
    PROVE  /\ TotalTime(anim) \in Int /\ TotalTime(anim) # 0
           /\ anim.loopcount # INFINITE => TotalTime(anim) > 0
           /\ CMod(TotalTime(anim), anim.duration) = 0
           /\ anim.duration \in Nat \ {0}
           /\ anim.loopcount \in Nat \ {0} \/ anim.loopcount = INFINITE
<1>1. anim.duration \in Nat \ {0} /\ (anim.loopcount \in Nat \ {0} \/ anim.loopcount = INFINITE)
    BY DurationsAssumption, LoopcountsAssumption DEF TInv, Settings
<1> QED
    BY <1>1, TotalIs

LEMMA TInit == Init => TInv
<1> SUFFICES ASSUME Init
             PROVE  TInv
    OBVIOUS
<1>1. PICK d \in Durations, n \in Loopcounts, k \in Keepalive :
          anim = [Fresh(d, 0) EXCEPT !.loopcount = n, !.keepalive = k]
    BY DEF Init
<1> DEFINE f == Fresh(d, 0)
<1>2. /\ f \in AnimationType /\ f.duration = d /\ f.direction = "FORWARD"
      /\ n \in Int /\ k \in BOOLEAN
    BY DurationsAssumption, LoopcountsAssumption, ChoicesAssumption
    DEF Fresh, AnimationType, States, Directions, INFINITE, Many
<1>3. anim = [f EXCEPT !.loopcount = n, !.keepalive = k]
    BY <1>1
<1> HIDE DEF f
<1>4. /\ anim \in AnimationType /\ anim.duration = d /\ anim.direction = "FORWARD"
      /\ anim.loopcount = n /\ anim.keepalive = k
    BY <1>2, <1>3 DEF AnimationType
<1>5. seen \in SeenType
    BY NewRunIs DEF Init
<1>6. TypeOK
    <2>1. local \in [oldloop: Int, total: Int, time: Int]
        BY DEF Init, NoLocal
    <2>2. place = "unlisted" /\ pc = "idle" /\ quiet = FALSE
        BY DEF Init
    <2> QED
        BY <1>4, <1>5, <2>1, <2>2, SeenTyped
<1> QED
    BY <1>4, <1>6 DEF TInv, Settings, Updating, Init

LEMMA OverIs == Over(anim) \in BOOLEAN
BY DEF Over

(* The calls. *)
LEMMA CallLeaves ==
    ASSUME NEW call, Enabled(call)
    PROVE  UNCHANGED <<pc, local, quiet>> /\ place # "freed"
BY DEF Enabled

LEMMA TCall ==
    ASSUME TInv, UserCall
    PROVE  TInv'
<1>1. /\ anim \in AnimationType /\ seen \in SeenType /\ Settings /\ Updating
      /\ place \in {"unlisted", "listed", "freed"}
    BY SeenTyped DEF TInv
<1>2. UNCHANGED <<pc, local, quiet>>
    BY CallLeaves DEF UserCall, AsyncRun, StopCall, Pause, ResumeCall, SetDirection, SetLoopcount,
                      SetDuration, SetKeepalive
<1>3. place' \in {place, "listed"}
    BY DEF UserCall, AsyncRun, StopCall, Pause, ResumeCall, SetDirection, SetLoopcount,
           SetDuration, SetKeepalive
<1> SUFFICES anim' \in AnimationType /\ Settings' /\ seen' \in SeenType
    <2>1. TypeOK'
        BY <1>1, <1>2, <1>3, SeenTyped DEF TInv, TypeOK, SeenType
    <2> QED
        BY <1>1, <1>2, <1>3, <2>1 DEF TInv, Updating
<1>4. CASE AsyncRun
    <2>1. anim' = Start(anim)
        BY <1>4 DEF AsyncRun
    <2>2. anim' \in AnimationType /\ SameLine(anim, anim')
        BY <1>1, <2>1, StartIs
    <2>3. seen' \in SeenType
        <3>1. CASE Over(anim)
            <4> DEFINE first == place = "unlisted" /\ anim.currentloop = 0 /\ anim.direction = "FORWARD"
            <4>1. seen' = NewRun(first) /\ first \in BOOLEAN
                BY <1>4, <3>1 DEF AsyncRun
            <4> QED
                BY <4>1, NewRunIs
        <3>2. CASE ~Over(anim)
            BY <1>1, <1>4, <3>2, DisturbIs DEF AsyncRun
        <3> QED
            BY <3>1, <3>2
    <2> QED
        BY <1>1, <2>2, <2>3 DEF SameLine, Settings
<1>5. CASE StopCall
    <2>1. anim' = Stop(anim) /\ seen' = seen
        BY <1>5 DEF StopCall
    <2>2. anim' \in AnimationType /\ SameLine(anim, anim')
        BY <1>1, <2>1, StopIs, EndedIs DEF SameLine
    <2> QED
        BY <1>1, <2>1, <2>2 DEF SameLine, Settings
<1>6. CASE Pause
    <2>1. anim' = Paused(anim)
        BY <1>6 DEF Pause
    <2>2. anim' \in AnimationType /\ SameLine(anim, anim')
        BY <1>1, <2>1, PausedIs
    <2>3. seen' \in SeenType
        BY <1>1, <1>6, DisturbIs DEF Pause
    <2> QED
        BY <1>1, <2>2, <2>3 DEF SameLine, Settings
<1>7. CASE ResumeCall
    <2>1. anim' = Resume(anim) /\ seen' = seen
        BY <1>7 DEF ResumeCall
    <2>2. anim' \in AnimationType /\ SameLine(anim, anim')
        BY <1>1, <2>1, ResumeIs
    <2> QED
        BY <1>1, <2>1, <2>2 DEF SameLine, Settings
<1>8. CASE SetDirection
    <2>1. PICK d \in Turns : anim' = [anim EXCEPT !.direction = d]
        BY <1>8 DEF SetDirection
    <2>2. d \in Directions
        BY ChoicesAssumption
    <2>3. anim' \in AnimationType /\ Settings'
        BY <1>1, <2>1, <2>2 DEF AnimationType, Settings
    <2>4. seen' \in SeenType
        BY <1>1, <1>8, TurnIs
    <2> QED
        BY <2>3, <2>4
<1>9. CASE SetLoopcount
    <2>1. PICK n \in Loopcounts : anim' = [anim EXCEPT !.loopcount = n]
        BY <1>9 DEF SetLoopcount
    <2>2. n \in Int
        BY LoopcountsAssumption DEF INFINITE
    <2>3. anim' \in AnimationType /\ Settings'
        BY <1>1, <2>1, <2>2 DEF AnimationType, Settings
    <2>4. Disturb(TRUE, Over(anim))
        BY <1>9 DEF SetLoopcount
    <2>5. seen' \in SeenType
        BY <1>1, <2>4, DisturbIs, OverIs
    <2> QED
        BY <2>3, <2>5
<1>10. CASE SetDuration
    <2>1. PICK d \in Durations : anim' = [anim EXCEPT !.duration = d]
        BY <1>10 DEF SetDuration
    <2>2. d \in Nat \ {0}
        BY DurationsAssumption
    <2>3. anim' \in AnimationType /\ Settings'
        BY <1>1, <2>1, <2>2 DEF AnimationType, Settings
    <2>4. Disturb(TRUE, Over(anim))
        BY <1>10 DEF SetDuration
    <2>5. seen' \in SeenType
        BY <1>1, <2>4, DisturbIs, OverIs
    <2> QED
        BY <2>3, <2>5
<1>11. CASE SetKeepalive
    <2>1. PICK k \in Keepalive : anim' = [anim EXCEPT !.keepalive = k]
        BY <1>11 DEF SetKeepalive
    <2>2. k \in BOOLEAN
        BY ChoicesAssumption
    <2>3. anim' \in AnimationType /\ Settings'
        BY <1>1, <2>1, <2>2 DEF AnimationType, Settings
    <2>4. seen' = seen
        BY <1>11 DEF SetKeepalive
    <2> QED
        BY <1>1, <2>3, <2>4
<1> QED
    BY <1>4, <1>5, <1>6, <1>7, <1>8, <1>9, <1>10, <1>11 DEF UserCall

(* An update as far as the callbacks: the time goes on by what has passed. *)
Elapsed == IF anim.state = "RUNNING" THEN -anim.lasttime ELSE 0
Moved == anim.currenttime + (IF anim.direction = "FORWARD" THEN Elapsed ELSE -Elapsed)

LEMMA BeginIs ==
    ASSUME TInv, PassRunning \/ PassReady
    PROVE  /\ anim' \in AnimationType /\ anim'.state = "RUNNING" /\ anim'.lasttime = 0
           /\ anim'.direction = anim.direction /\ anim'.keepalive = anim.keepalive
           /\ anim'.duration = anim.duration /\ anim'.loopcount = anim.loopcount
           /\ anim'.finished = anim.finished
           /\ anim'.currenttime = Clamp(anim, Moved)
           /\ anim'.currenttime \in -MaxTime..MaxTime
           /\ anim'.currentloop = CDiv(anim'.currenttime, anim.duration)
           /\ local' \in [oldloop: Int, total: Int, time: Int]
           /\ local'.oldloop = anim.currentloop /\ local'.total = TotalTime(anim)
           /\ local'.total = TotalTime(anim') /\ local'.time = ShownTime(anim')
           /\ anim.state \in {"RUNNING", "READY"} /\ pc = "idle" /\ place = "listed"
           /\ pc' = "callback" /\ UNCHANGED <<place, quiet, seen>>
<1>1. anim \in AnimationType
    BY DEF TInv, TypeOK
<1> DEFINE a == IF anim.state = "READY" THEN SetStart(anim, 0) ELSE anim
           b == Advance(a, 0)
<1>2. BeginUpdate(a) /\ anim.state \in {"RUNNING", "READY"} /\ pc = "idle" /\ place = "listed"
    BY DEF PassRunning, PassReady
<1>3. /\ a \in AnimationType /\ a.state = "RUNNING"
      /\ a.direction = anim.direction /\ a.keepalive = anim.keepalive
      /\ a.duration = anim.duration /\ a.loopcount = anim.loopcount
      /\ a.currenttime = anim.currenttime /\ a.currentloop = anim.currentloop
      /\ a.finished = anim.finished
      /\ a.lasttime = IF anim.state = "RUNNING" THEN anim.lasttime ELSE 0
    BY <1>1, <1>2, SetStartIs
<1> HIDE DEF a
<1>4. a.currenttime + Delta(a, 0) = Moved
    BY <1>1, <1>2, <1>3 DEF Delta, Moved, Elapsed, AnimationType
<1>5. \A t \in Int : Clamp(a, t) = Clamp(anim, t)
    BY <1>3 DEF Clamp, TotalTime
<1>6. Moved \in Int
    BY <1>1 DEF Moved, Elapsed, AnimationType
<1>7. /\ b \in AnimationType /\ b.state = "RUNNING" /\ b.lasttime = 0
      /\ b.direction = anim.direction /\ b.keepalive = anim.keepalive
      /\ b.duration = anim.duration /\ b.loopcount = anim.loopcount
      /\ b.finished = anim.finished
      /\ b.currenttime = Clamp(anim, Moved)
      /\ b.currentloop = CDiv(b.currenttime, anim.duration)
    BY <1>3, <1>4, <1>5, <1>6, AdvanceIs
<1>8. /\ anim' = b /\ b.currenttime \in -MaxTime..MaxTime /\ pc' = "callback"
      /\ local' = [oldloop |-> a.currentloop, total |-> TotalTime(b), time |-> ShownTime(b)]
      /\ UNCHANGED <<place, quiet, seen>>
    BY <1>2 DEF BeginUpdate
<1> HIDE DEF b
<1>9. TotalTime(b) = TotalTime(anim) /\ TotalTime(b) \in Int /\ ShownTime(b) \in Int /\ a.currentloop \in Int
    <2>1. TotalTime(b) = TotalTime(anim)
        BY <1>7 DEF TotalTime
    <2>2. CMod(b.currenttime, b.duration) \in Int /\ b.duration \in Int
        BY <1>7, CDivType DEF CMod, AnimationType
    <2> QED
        BY <1>3, <2>1, <2>2, TotalSet DEF ShownTime, AnimationType
<1>10. /\ local' \in [oldloop: Int, total: Int, time: Int]
       /\ local'.oldloop = anim.currentloop /\ local'.total = TotalTime(anim)
       /\ local'.total = TotalTime(b) /\ local'.time = ShownTime(b)
    BY <1>3, <1>8, <1>9
<1>11. /\ TotalTime(b) = TotalTime(anim') /\ ShownTime(b) = ShownTime(anim')
    BY <1>8
<1> QED
    BY <1>2, <1>7, <1>8, <1>10, <1>11

(* The rest of the update. *)
LEMMA FinishIs ==
    ASSUME TInv, FinishUpdate
    PROVE  /\ pc = "callback" /\ pc' = "idle" /\ place = "listed" /\ UNCHANGED <<place, quiet>>
           /\ local' \in [oldloop: Int, total: Int, time: Int]
           /\ anim' \in AnimationType /\ SameLine(anim, anim')
           /\ anim'.currenttime = anim.currenttime
           /\ ~AtEnd(anim, local.total) \/ anim.state = "STOPPED" => anim' = anim
           /\ AtEnd(anim, local.total) /\ anim.state # "STOPPED" => anim' = Ended(anim)
           /\ seen' \in SeenType /\ seen'.exact = seen.exact /\ seen'.even = seen.even
           /\ seen'.elapsed = seen.elapsed /\ seen'.firstrun = seen.firstrun
           /\ seen.firstrun /\ LoopChanged(anim, local.oldloop) =>
                 seen'.loopcbs = Saturate(seen.loopcbs + 1)
           /\ ~LoopChanged(anim, local.oldloop) => seen'.loopcbs = seen.loopcbs
<1>1. anim \in AnimationType /\ seen \in SeenType /\ local.total \in Int
    BY SeenTyped DEF TInv
<1>2. /\ pc = "callback" /\ pc' = "idle" /\ place = "listed" /\ UNCHANGED <<place, quiet>>
      /\ anim' = EndUpdate(anim, local.total) /\ local' = NoLocal
    BY DEF FinishUpdate, TInv, Updating
<1>3. local' \in [oldloop: Int, total: Int, time: Int]
    BY <1>2 DEF NoLocal
<1>4. /\ anim' \in AnimationType /\ SameLine(anim, anim') /\ anim'.currenttime = anim.currenttime
      /\ ~AtEnd(anim, local.total) \/ anim.state = "STOPPED" => anim' = anim
      /\ AtEnd(anim, local.total) /\ anim.state # "STOPPED" => anim' = Ended(anim)
    BY <1>1, <1>2, EndUpdateIs, EndedIs DEF SameLine
<1> DEFINE n == IF seen.firstrun /\ LoopChanged(anim, local.oldloop)
                THEN Saturate(seen.loopcbs + 1) ELSE seen.loopcbs
<1>5. seen' = [seen EXCEPT !.loopcbs = n]
    BY <1>1 DEF FinishUpdate, SeenType
<1>6. n \in 0..Horizon
    BY <1>1, HorizonIs DEF SeenType
<1>7. /\ seen.firstrun /\ LoopChanged(anim, local.oldloop) => n = Saturate(seen.loopcbs + 1)
      /\ ~LoopChanged(anim, local.oldloop) => n = seen.loopcbs
    OBVIOUS
<1> HIDE DEF n
<1>8. /\ seen' \in SeenType /\ seen'.exact = seen.exact /\ seen'.even = seen.even
      /\ seen'.elapsed = seen.elapsed /\ seen'.firstrun = seen.firstrun
      /\ seen'.loopcbs = n
    BY <1>1, <1>5, <1>6 DEF SeenType
<1> QED
    BY <1>2, <1>3, <1>4, <1>7, <1>8

(* A tick of the clock. *)
LEMMA TickIs ==
    ASSUME TInv, Tick
    PROVE  /\ UNCHANGED <<place, pc, local, quiet>>
           /\ anim' \in AnimationType /\ anim'.state = anim.state
           /\ anim'.direction = anim.direction /\ anim'.keepalive = anim.keepalive
           /\ anim'.duration = anim.duration /\ anim'.loopcount = anim.loopcount
           /\ anim'.currenttime = anim.currenttime /\ anim'.currentloop = anim.currentloop
           /\ anim'.finished = anim.finished
           /\ anim.lasttime > -MaxLag => anim'.lasttime = anim.lasttime - 1
           /\ anim.lasttime <= -MaxLag => anim'.lasttime = anim.lasttime
           /\ anim.state = "RUNNING" => anim.lasttime > -MaxLag
           /\ seen' \in SeenType /\ seen'.exact = seen.exact /\ seen'.even = seen.even
           /\ seen'.loopcbs = seen.loopcbs /\ seen'.firstrun = seen.firstrun
           /\ anim.state = "RUNNING" /\ seen.even => seen'.elapsed = Saturate(seen.elapsed + 1)
           /\ anim.state # "RUNNING" => seen'.elapsed = seen.elapsed
<1>1. anim \in AnimationType /\ seen \in SeenType
    BY SeenTyped DEF TInv
<1> DEFINE t == IF anim.lasttime > -MaxLag THEN anim.lasttime - 1 ELSE anim.lasttime
           n == IF anim.state = "RUNNING" /\ seen.even THEN Saturate(seen.elapsed + 1) ELSE seen.elapsed
<1>2. /\ anim' = [anim EXCEPT !.lasttime = t] /\ seen' = [seen EXCEPT !.elapsed = n]
      /\ anim.state = "RUNNING" => anim.lasttime > -MaxLag
      /\ UNCHANGED <<place, pc, local, quiet>>
    BY <1>1 DEF Tick, AnimationType, SeenType
<1>3. /\ t \in Int
      /\ anim.lasttime > -MaxLag => t = anim.lasttime - 1
      /\ anim.lasttime <= -MaxLag => t = anim.lasttime
    BY <1>1, BoundsAssumption DEF AnimationType
<1>4. n \in 0..Horizon
    BY <1>1, HorizonIs DEF SeenType
<1>5. /\ anim.state = "RUNNING" /\ seen.even => n = Saturate(seen.elapsed + 1)
      /\ anim.state # "RUNNING" => n = seen.elapsed
    OBVIOUS
<1> HIDE DEF t, n
<1>6. /\ anim' \in AnimationType /\ anim'.state = anim.state
      /\ anim'.direction = anim.direction /\ anim'.keepalive = anim.keepalive
      /\ anim'.duration = anim.duration /\ anim'.loopcount = anim.loopcount
      /\ anim'.currenttime = anim.currenttime /\ anim'.currentloop = anim.currentloop
      /\ anim'.finished = anim.finished /\ anim'.lasttime = t
    BY <1>1, <1>2, <1>3 DEF AnimationType
<1>7. /\ seen' \in SeenType /\ seen'.exact = seen.exact /\ seen'.even = seen.even
      /\ seen'.loopcbs = seen.loopcbs /\ seen'.firstrun = seen.firstrun /\ seen'.elapsed = n
    BY <1>1, <1>2, <1>4 DEF SeenType
<1> QED
    BY <1>2, <1>3, <1>5, <1>6, <1>7

LEMMA TStep ==
    ASSUME TInv, [Next]_vars
    PROVE  TInv'
<1>1. /\ anim \in AnimationType /\ seen \in SeenType /\ Settings /\ Updating
      /\ place \in {"unlisted", "listed", "freed"} /\ pc \in {"idle", "callback"}
      /\ local \in [oldloop: Int, total: Int, time: Int] /\ quiet \in BOOLEAN
    BY SeenTyped DEF TInv
<1>2. CASE UserCall
    BY <1>2, TCall
<1>3. CASE LeaveAlone
    BY <1>1, <1>3, SeenTyped DEF LeaveAlone, TInv, TypeOK, SeenType, Settings, Updating
<1>4. CASE PassRunning \/ PassReady
    <2>1. Settings' /\ Updating' /\ pc' = "callback"
        BY <1>1, <1>4, BeginIs, TotalSet DEF Settings, Updating
    <2>2. TypeOK'
        BY <1>1, <1>4, <2>1, BeginIs DEF TypeOK, SeenType
    <2> QED
        BY <2>1, <2>2 DEF TInv
<1>5. CASE FinishUpdate
    <2>1. Settings' /\ Updating' /\ pc' = "idle"
        BY <1>1, <1>5, FinishIs DEF Settings, SameLine, Updating
    <2>2. TypeOK'
        BY <1>1, <1>5, <2>1, FinishIs DEF TypeOK, SeenType
    <2> QED
        BY <2>1, <2>2 DEF TInv
<1>6. CASE PassStopped \/ PassRemove
    BY <1>1, <1>6 DEF PassStopped, PassRemove, TInv, TypeOK, Settings, Updating
<1>7. CASE Tick
    <2>1. Settings' /\ Updating'
        BY <1>1, <1>7, TickIs DEF Settings, Updating
    <2>2. TypeOK'
        BY <1>1, <1>7, TickIs DEF TypeOK, SeenType
    <2> QED
        BY <2>1, <2>2 DEF TInv
<1>8. CASE UNCHANGED vars
    BY <1>1, <1>8 DEF vars, TInv, TypeOK, Settings, Updating
<1> QED
    BY <1>2, <1>3, <1>4, <1>5, <1>6, <1>7, <1>8 DEF Next, Pass

LEMMA TInvariant == Spec => []TInv
BY TInit, TStep, PTL DEF Spec

(* Every variable of Timeline keeps its type, whatever the application     *)
(* calls: from the main loop or from the callbacks of an update.           *)
THEOREM TimelineTyped == Spec => []TypeOK
<1>1. TInv => TypeOK
    BY DEF TInv
<1> QED
    BY <1>1, TInvariant, PTL

-----------------------------------------------------------------------------
(***************************************************************************)
(* The reports of the end.  An animation that is active has not reported   *)
(* one, and one that waits to be freed has.                                *)
(***************************************************************************)
Reports ==
    /\ anim.finished <= 1
    /\ anim.state \notin {"STOPPED", "REMOVE"} => anim.finished = 0
    /\ anim.state = "REMOVE" => anim.finished = 1
    /\ Kept => anim.state # "REMOVE"
    /\ NeverStopped /\ pc = "callback" => anim.state \notin {"STOPPED", "REMOVE"}

LEMMA ReportsInit == Init => Reports
<1> SUFFICES ASSUME Init
             PROVE  Reports
    OBVIOUS
<1>1. PICK d \in Durations, n \in Loopcounts, k \in Keepalive :
          anim = [Fresh(d, 0) EXCEPT !.loopcount = n, !.keepalive = k]
    BY DEF Init
<1>2. anim.finished = 0 /\ anim.state = "STOPPED" /\ pc = "idle"
    BY <1>1 DEF Fresh, Init
<1> QED
    BY <1>2 DEF Reports

(* What an animation that ends, or ends again, reports. *)
LEMMA ReportsEnd ==
    ASSUME TInv, Reports, anim.state # "STOPPED", Kept \/ anim.state # "REMOVE", anim' = Ended(anim)
    PROVE  /\ anim'.finished = 1
           /\ Kept => anim'.state = "STOPPED"
           /\ anim'.state \in {"STOPPED", "REMOVE"}
<1>1. anim \in AnimationType /\ anim.keepalive \in Keepalive
    BY DEF TInv, TypeOK, Settings
<1>2. anim.finished = 0
    BY DEF Reports
<1>3. Kept => anim.keepalive
    BY <1>1 DEF Kept
<1> QED
    BY <1>1, <1>2, <1>3, EndedIs

LEMMA ReportsStep ==
    ASSUME Kept \/ NeverStopped, TInv, Reports, [Next]_vars
    PROVE  Reports'
<1>1. anim \in AnimationType /\ anim.keepalive \in Keepalive
    BY DEF TInv, TypeOK, Settings
<1>2. CASE AsyncRun
    <2>1. anim' = Start(anim) /\ UNCHANGED pc
        BY <1>2 DEF AsyncRun, Enabled
    <2>2. anim'.state = "READY" /\ anim'.finished = 0
        BY <1>1, <2>1, StartIs DEF Reports
    <2> QED
        BY <2>2 DEF Reports
<1>3. CASE StopCall
    <2>1. anim' = Stop(anim) /\ UNCHANGED pc
        BY <1>3 DEF StopCall, Enabled
    <2>2. ~NeverStopped
        BY <1>3 DEF StopCall, Enabled, NeverStopped
    <2>3. CASE anim.state = "STOPPED"
        BY <1>1, <2>1, <2>3, StopIs DEF Reports
    <2>4. CASE anim.state # "STOPPED"
        <3>1. anim' = Ended(anim)
            BY <1>1, <2>1, <2>4, StopIs
        <3> QED
            BY <2>2, <2>4, <3>1, ReportsEnd DEF Reports
    <2> QED
        BY <2>3, <2>4
<1>4. CASE Pause \/ ResumeCall
    <2>1. UNCHANGED pc /\ anim' \in {Paused(anim), Resume(anim)}
        BY <1>4 DEF Pause, ResumeCall, Enabled
    <2>2. CASE anim' = Paused(anim)
        BY <1>1, <2>1, <2>2, PausedIs DEF Reports
    <2>3. CASE anim' = Resume(anim)
        BY <1>1, <2>1, <2>3, ResumeIs DEF Reports
    <2> QED
        BY <2>1, <2>2, <2>3
<1>5. CASE SetDirection \/ SetLoopcount \/ SetDuration \/ SetKeepalive
    <2>1. UNCHANGED pc
        BY <1>5 DEF SetDirection, SetLoopcount, SetDuration, SetKeepalive, Enabled
    <2>2. anim'.finished = anim.finished /\ anim'.state = anim.state
        BY <1>1, <1>5 DEF SetDirection, SetLoopcount, SetDuration, SetKeepalive, AnimationType
    <2> QED
        BY <2>1, <2>2 DEF Reports
<1>6. CASE PassRunning \/ PassReady
    <2>1. anim'.finished = anim.finished /\ anim'.state = "RUNNING" /\ anim.state \in {"RUNNING", "READY"}
        BY <1>6, BeginIs
    <2> QED
        BY <2>1 DEF Reports
<1>7. CASE FinishUpdate
    <2>1. pc = "callback" /\ pc' = "idle" /\ (anim' = anim \/ (anim.state # "STOPPED" /\ anim' = Ended(anim)))
        BY <1>7, FinishIs
    <2>2. CASE anim' = anim
        BY <2>1, <2>2 DEF Reports
    <2>3. CASE anim.state # "STOPPED" /\ anim' = Ended(anim)
        <3>1. Kept \/ anim.state # "REMOVE"
            BY <2>1 DEF Reports
        <3> QED
            BY <2>1, <2>3, <3>1, ReportsEnd DEF Reports
    <2> QED
        BY <2>1, <2>2, <2>3
<1>8. CASE Tick
    BY <1>8, TickIs DEF Reports
<1>9. CASE LeaveAlone \/ PassStopped \/ PassRemove \/ UNCHANGED vars
    <2>1. UNCHANGED <<anim, pc>>
        BY <1>9 DEF LeaveAlone, PassStopped, PassRemove, vars
    <2> QED
        BY <2>1 DEF Reports
<1> QED
    BY <1>2, <1>3, <1>4, <1>5, <1>6, <1>7, <1>8, <1>9 DEF Next, Pass, UserCall

LEMMA ReportsInvariant == (Kept \/ NeverStopped) /\ Spec => [](TInv /\ Reports)
<1> SUFFICES ASSUME Kept \/ NeverStopped
             PROVE  Spec => [](TInv /\ Reports)
    OBVIOUS
<1>1. Init => TInv /\ Reports
    BY TInit, ReportsInit
<1>2. TInv /\ Reports /\ [Next]_vars => (TInv /\ Reports)'
    BY TStep, ReportsStep
<1> QED
    BY <1>1, <1>2, PTL DEF Spec

(* The end of a run is reported at most once, for an animation that is     *)
(* kept alive or that only its time line ends.                             *)
THEOREM ReportedOnce ==
    ASSUME Kept \/ NeverStopped
    PROVE  Spec => []FinishedOnce
<1>1. Reports => FinishedOnce
    BY DEF Reports, FinishedOnce
<1> QED
    BY <1>1, ReportsInvariant, PTL

(* Under the same condition the schedular frees an animation only after    *)
(* its finished_cb has been called, once.                                  *)
THEOREM FreedAfterReport ==
    ASSUME Kept \/ NeverStopped
    PROVE  Spec => FreedAfterFinish
<1>1. TInv /\ Reports /\ [Next]_vars
         => [(place # "freed" /\ place' = "freed") => anim.finished = 1]_vars
    <2> SUFFICES ASSUME TInv, Reports, [Next]_vars, place # "freed", place' = "freed"
                 PROVE  anim.finished = 1
        OBVIOUS
    <2>1. CASE PassRemove
        BY <2>1 DEF PassRemove, Reports
    <2>2. CASE PassRunning \/ PassReady
        BY <2>2, BeginIs
    <2>3. CASE UserCall
        BY <2>3 DEF UserCall, AsyncRun, StopCall, Pause, ResumeCall, SetDirection, SetLoopcount,
                    SetDuration, SetKeepalive
    <2>4. CASE LeaveAlone \/ FinishUpdate \/ PassStopped \/ Tick \/ UNCHANGED vars
        BY <2>4 DEF LeaveAlone, FinishUpdate, PassStopped, Tick, vars
    <2> QED
        BY <2>1, <2>2, <2>3, <2>4 DEF Next, Pass
<1> QED
    BY <1>1, ReportsInvariant, PTL DEF Spec, FreedAfterFinish

-----------------------------------------------------------------------------
(***************************************************************************)
(* The clock and the list: how late an update can be, and what is on the   *)
(* list.                                                                   *)
(***************************************************************************)
Flow ==
    /\ anim.lasttime \in -MaxLag..0
    /\ anim.state = "RUNNING" => anim.currenttime <= MaxTime
    /\ place = "unlisted" => anim.state = "STOPPED"

LEMMA FlowInit == Init => Flow
<1> SUFFICES ASSUME Init
             PROVE  Flow
    OBVIOUS
<1>1. PICK d \in Durations, n \in Loopcounts, k \in Keepalive :
          anim = [Fresh(d, 0) EXCEPT !.loopcount = n, !.keepalive = k]
    BY DEF Init
<1>2. anim.lasttime = 0 /\ anim.state = "STOPPED"
    BY <1>1 DEF Fresh
<1> QED
    BY <1>2, BoundsAssumption DEF Flow

LEMMA FlowStep ==
    ASSUME TInv, Flow, [Next]_vars
    PROVE  Flow'
<1>1. anim \in AnimationType
    BY DEF TInv, TypeOK
<1>2. CASE AsyncRun
    <2>1. anim' = Start(anim) /\ place' = "listed"
        BY <1>2 DEF AsyncRun
    <2> QED
        BY <1>1, <2>1, StartIs DEF Flow, SameLine
<1>3. CASE StopCall
    <2>1. anim' = Stop(anim) /\ place' = place
        BY <1>3 DEF StopCall
    <2> QED
        BY <1>1, <2>1, StopIs, EndedIs DEF Flow, SameLine
<1>4. CASE Pause \/ ResumeCall
    <2>1. place' = place /\ anim' \in {Paused(anim), Resume(anim)}
        BY <1>4 DEF Pause, ResumeCall
    <2>2. CASE anim' = Paused(anim)
        BY <1>1, <2>1, <2>2, PausedIs DEF Flow, SameLine
    <2>3. CASE anim' = Resume(anim)
        BY <1>1, <2>1, <2>3, ResumeIs DEF Flow, SameLine
    <2> QED
        BY <2>1, <2>2, <2>3
<1>5. CASE SetDirection \/ SetLoopcount \/ SetDuration \/ SetKeepalive
    <2>1. place' = place
        BY <1>5 DEF SetDirection, SetLoopcount, SetDuration, SetKeepalive
    <2>2. anim'.lasttime = anim.lasttime /\ anim'.state = anim.state /\ anim'.currenttime = anim.currenttime
        BY <1>1, <1>5 DEF SetDirection, SetLoopcount, SetDuration, SetKeepalive, AnimationType
    <2> QED
        BY <2>1, <2>2 DEF Flow
<1>6. CASE PassRunning \/ PassReady
    <2>1. /\ anim'.lasttime = 0 /\ anim'.currenttime \in -MaxTime..MaxTime
          /\ place = "listed" /\ place' = place
        BY <1>6, BeginIs
    <2> QED
        BY <2>1, BoundsAssumption DEF Flow
<1>7. CASE FinishUpdate
    <2>1. anim' = anim \/ anim' = Ended(anim)
        BY <1>7, FinishIs
    <2>2. place = "listed" /\ place' = place
        BY <1>7, FinishIs
    <2> QED
        BY <1>1, <2>1, <2>2, EndedIs DEF Flow, SameLine
<1>8. CASE Tick
    BY <1>1, <1>8, TickIs, BoundsAssumption DEF Flow, AnimationType
<1>9. CASE LeaveAlone \/ PassStopped \/ PassRemove \/ UNCHANGED vars
    BY <1>9 DEF LeaveAlone, PassStopped, PassRemove, vars, Flow
<1> QED
    BY <1>2, <1>3, <1>4, <1>5, <1>6, <1>7, <1>8, <1>9 DEF Next, Pass, UserCall

-----------------------------------------------------------------------------
(***************************************************************************)
(* The stopwatch and the time line.  An active run that was not disturbed  *)
(* has come no farther than the time it was running, and after an update   *)
(* that did not end it exactly as far when it was never paused.            *)
(***************************************************************************)
Active == anim.state \notin {"STOPPED", "REMOVE"}
Ending == pc = "callback" /\ AtEnd(anim, local.total)

Measured ==
    seen.even /\ Active /\ anim.loopcount # INFINITE =>
        /\ anim.currenttime >= 0 /\ Progress >= 0 /\ Progress <= seen.elapsed /\ Progress <= MaxTime
        /\ TotalTime(anim) > MaxTime /\ anim.direction = "BACKWARD" => Progress = 0
        /\ anim.state = "RUNNING" => Progress <= seen.elapsed + anim.lasttime \/ Ending
        /\ seen.exact => /\ anim.state # "PAUSED"
                         /\ anim.state = "READY" => Progress = seen.elapsed
                         /\ anim.state = "RUNNING" => Progress = seen.elapsed + anim.lasttime \/ Ending

LEMMA ProgressType == TInv => Progress \in Int
BY TotalSet DEF TInv, TypeOK, Progress, AnimationType

(* What does not touch the time line keeps the progress. *)
LEMMA ProgressKept ==
    ASSUME anim'.direction = anim.direction, anim'.duration = anim.duration,
           anim'.loopcount = anim.loopcount, anim'.currenttime = anim.currenttime
    PROVE  Progress' = Progress /\ TotalTime(anim)' = TotalTime(anim)
BY DEF Progress, TotalTime

LEMMA EndingKept ==
    ASSUME anim'.direction = anim.direction, anim'.currenttime = anim.currenttime,
           UNCHANGED <<pc, local>>
    PROVE  Ending' <=> Ending
BY DEF Ending, AtEnd

LEMMA MeasuredInit == Init => Measured
<1> SUFFICES ASSUME Init
             PROVE  Measured
    OBVIOUS
<1>1. PICK d \in Durations, n \in Loopcounts, k \in Keepalive :
          anim = [Fresh(d, 0) EXCEPT !.loopcount = n, !.keepalive = k]
    BY DEF Init
<1>2. anim.state = "STOPPED"
    BY <1>1 DEF Fresh
<1> QED
    BY <1>2 DEF Measured, Active

(* A run starts at its end of the time line. *)
LEMMA MeasuredRun ==
    ASSUME Kept, TInv, Reports, Flow, Measured, AsyncRun
    PROVE  Measured'
<1>1. /\ anim \in AnimationType /\ seen \in SeenType /\ anim.state # "REMOVE"
      /\ TotalTime(anim) \in Int
    BY TotalSet, SeenTyped DEF TInv, Reports
<1>2. /\ anim' = Start(anim) /\ UNCHANGED <<pc, local>>
      /\ Over(anim) => \E first : seen' = NewRun(first)
      /\ ~Over(anim) => Disturb(anim.state = "READY", TRUE)
    BY DEF AsyncRun, Enabled
<1>3. anim'.state = "READY" /\ SameLine(anim, anim')
    BY <1>1, <1>2, StartIs
<1>4. CASE anim.state = "STOPPED"
    <2>1. seen'.elapsed = 0
        BY <1>2, <1>4 DEF Over, NewRun
    <2>2. anim'.currenttime = StartTime(anim)
        BY <1>1, <1>2, <1>4, StartIs
    <2>3. TotalTime(anim') = TotalTime(anim)
        BY <1>3 DEF TotalTime, SameLine
    <2>4. Progress' = 0 /\ (anim.loopcount # INFINITE => anim'.currenttime >= 0)
        BY <1>1, <1>3, <2>2, <2>3, TotalSet DEF Progress, StartTime, SameLine
    <2> QED
        BY <1>3, <2>1, <2>4, BoundsAssumption DEF Measured, SameLine
<1>5. CASE Active
    <2>1. Disturb(anim.state = "READY", TRUE)
        BY <1>2, <1>5 DEF Active, Over
    <2>2. /\ seen'.exact <=> seen.exact /\ anim.state = "READY"
          /\ seen'.even <=> seen.even
          /\ seen'.elapsed = seen.elapsed
        BY <1>1, <2>1, DisturbIs
    <2>3. anim'.currenttime = anim.currenttime
        BY <1>1, <1>2, <1>5, StartIs DEF Active
    <2>4. Progress' = Progress /\ TotalTime(anim)' = TotalTime(anim)
        BY <1>3, <2>3, ProgressKept DEF SameLine
    <2> QED
        BY <1>3, <1>5, <2>2, <2>3, <2>4 DEF Measured, SameLine
<1> QED
    BY <1>1, <1>4, <1>5 DEF Active, AnimationType, States

(* A step that changes at most the state: to one that is not RUNNING, or   *)
(* that was the state before.                                              *)
LEMMA MeasuredState ==
    ASSUME TInv, Measured, UNCHANGED <<pc, local>>,
           SameLine(anim, anim'), anim'.currenttime = anim.currenttime,
           seen'.elapsed = seen.elapsed, seen'.even <=> seen.even,
           seen'.exact => seen.exact,
           \/ anim'.state = anim.state
           \/ anim'.state \in {"STOPPED", "REMOVE"}
           \/ anim.state = "RUNNING" /\ anim'.state = "PAUSED" /\ ~seen'.exact
           \/ anim.state = "PAUSED" /\ anim'.state = "READY"
    PROVE  Measured'
<1>1. Progress' = Progress /\ TotalTime(anim)' = TotalTime(anim)
    BY ProgressKept DEF SameLine
<1>2. Ending' <=> Ending
    BY EndingKept DEF SameLine
<1> QED
    BY <1>1, <1>2 DEF Measured, Active, SameLine

LEMMA MeasuredCall ==
    ASSUME Kept, TInv, Reports, Flow, Measured, UserCall
    PROVE  Measured'
<1>1. anim \in AnimationType /\ seen \in SeenType
    BY SeenTyped DEF TInv
<1>2. UNCHANGED <<pc, local>>
    BY CallLeaves DEF UserCall, AsyncRun, StopCall, Pause, ResumeCall, SetDirection, SetLoopcount,
                      SetDuration, SetKeepalive
<1>3. CASE AsyncRun
    BY <1>3, MeasuredRun
<1>4. CASE StopCall
    <2>1. anim' = Stop(anim) /\ seen' = seen
        BY <1>4 DEF StopCall
    <2>2. anim' = anim \/ anim' = Ended(anim)
        BY <1>1, <2>1, StopIs
    <2>3. CASE anim' = anim
        BY <1>2, <2>1, <2>3, MeasuredState DEF SameLine
    <2>4. CASE anim' = Ended(anim)
        <3>1. /\ SameLine(anim, anim') /\ anim'.currenttime = anim.currenttime
              /\ anim'.state \in {"STOPPED", "REMOVE"}
            BY <1>1, <2>4, EndedIs
        <3> QED
            BY <1>2, <2>1, <3>1, MeasuredState
    <2> QED
        BY <2>2, <2>3, <2>4
<1>5. CASE Pause
    <2>1. anim' = Paused(anim) /\ Disturb(anim.state # "RUNNING", TRUE)
        BY <1>5 DEF Pause
    <2>2. /\ seen'.exact <=> seen.exact /\ anim.state # "RUNNING"
          /\ seen'.even <=> seen.even
          /\ seen'.elapsed = seen.elapsed
        BY <1>1, <2>1, DisturbIs
    <2>3. /\ SameLine(anim, anim') /\ anim'.currenttime = anim.currenttime
          /\ anim.state = "RUNNING" => anim'.state = "PAUSED"
          /\ anim.state # "RUNNING" => anim'.state = anim.state
        BY <1>1, <2>1, PausedIs
    <2> QED
        BY <1>2, <2>2, <2>3, MeasuredState
<1>6. CASE ResumeCall
    <2>1. anim' = Resume(anim) /\ seen' = seen
        BY <1>6 DEF ResumeCall
    <2>2. /\ SameLine(anim, anim') /\ anim'.currenttime = anim.currenttime
          /\ anim.state = "PAUSED" => anim'.state = "READY"
          /\ anim.state # "PAUSED" => anim'.state = anim.state
        BY <1>1, <2>1, ResumeIs
    <2> QED
        BY <1>2, <2>1, <2>2, MeasuredState
<1>7. CASE SetDirection \/ SetLoopcount \/ SetDuration
    <2>1. anim'.state = anim.state
        BY <1>1, <1>7 DEF SetDirection, SetLoopcount, SetDuration, AnimationType
    <2>2. seen'.even => Over(anim)
        BY <1>1, <1>7, OverIs, TurnIs, DisturbIs DEF SetLoopcount, SetDuration
    <2> QED
        BY <2>1, <2>2 DEF Measured, Active, Over
<1>8. CASE SetKeepalive
    <2>1. seen' = seen /\ \E k : anim' = [anim EXCEPT !.keepalive = k]
        BY <1>8 DEF SetKeepalive
    <2>2. /\ anim'.direction = anim.direction /\ anim'.duration = anim.duration
          /\ anim'.loopcount = anim.loopcount /\ anim'.currenttime = anim.currenttime
          /\ anim'.lasttime = anim.lasttime /\ anim'.state = anim.state
        BY <1>1, <2>1 DEF AnimationType
    <2>3. Progress' = Progress /\ TotalTime(anim)' = TotalTime(anim) /\ (Ending' <=> Ending)
        BY <1>2, <2>2, ProgressKept, EndingKept
    <2> QED
        BY <2>1, <2>2, <2>3 DEF Measured, Active
<1> QED
    BY <1>3, <1>4, <1>5, <1>6, <1>7, <1>8 DEF UserCall

(* An update moves the animation by the time since the last one.           *)
LEMMA MeasuredUpdate ==
    ASSUME TInv, Flow, Measured, PassRunning \/ PassReady
    PROVE  Measured'
<1> SUFFICES ASSUME seen'.even, anim'.loopcount # INFINITE
             PROVE  Measured'
    BY DEF Measured
<1> DEFINE t == TotalTime(anim)
           x == anim.currenttime
           y == anim'.currenttime
           e == seen.elapsed
           l == Elapsed
<1>1. /\ anim'.state = "RUNNING" /\ anim'.lasttime = 0 /\ y = Clamp(anim, Moved)
      /\ anim'.direction = anim.direction /\ anim'.duration = anim.duration
      /\ anim'.loopcount = anim.loopcount /\ y \in -MaxTime..MaxTime
      /\ local'.total = t /\ anim.state \in {"RUNNING", "READY"} /\ pc = "idle" /\ pc' = "callback"
      /\ seen' = seen
    BY BeginIs
<1>2. t \in Int /\ t > 0 /\ x \in Int /\ e \in Int /\ anim.direction \in Directions /\ e \in Nat
      /\ MaxTime \in Nat
    BY <1>1, TotalSet, SeenTyped, HorizonIs, BoundsAssumption DEF TInv, AnimationType, SeenType
<1>3. l \in Nat /\ l = IF anim.state = "RUNNING" THEN -anim.lasttime ELSE 0
    BY BoundsAssumption DEF Flow, Elapsed
<1>4. anim.state = "RUNNING" => x <= MaxTime
    BY DEF Flow
<1>5. TotalTime(anim)' = t
    BY <1>1 DEF TotalTime
<1>6. /\ x >= 0 /\ Progress >= 0 /\ Progress <= e
      /\ t > MaxTime /\ anim.direction = "BACKWARD" => Progress = 0
      /\ Progress + l <= e
      /\ seen.exact => Progress + l = e
    <2>1. ~Ending
        BY <1>1 DEF Ending
    <2>2. Progress \in Int
        BY ProgressType
    <2>3. Active /\ seen.even /\ anim.loopcount # INFINITE
        BY <1>1 DEF Active
    <2>4. /\ x >= 0 /\ Progress >= 0 /\ Progress <= e
          /\ t > MaxTime /\ anim.direction = "BACKWARD" => Progress = 0
          /\ anim.state = "RUNNING" => Progress <= e + anim.lasttime
          /\ seen.exact => /\ anim.state = "READY" => Progress = e
                           /\ anim.state = "RUNNING" => Progress = e + anim.lasttime
        BY <2>1, <2>3 DEF Measured
    <2>5. anim.lasttime \in Int
        BY DEF TInv, TypeOK, AnimationType
    <2> HIDE DEF t, x, e, l
    <2>6. CASE anim.state = "RUNNING"
        BY <1>2, <1>3, <2>2, <2>4, <2>5, <2>6
    <2>7. CASE anim.state = "READY"
        BY <1>2, <1>3, <2>2, <2>4, <2>7
    <2> QED
        BY <1>1, <2>6, <2>7
<1>7. CASE anim.direction = "FORWARD"
    <2>1. Progress = x /\ Progress' = y
        BY <1>1, <1>7 DEF Progress
    <2>2. Moved = x + l
        BY <1>7 DEF Moved
    <2>3. y = IF x + l > t THEN t ELSE x + l
        BY <1>1, <1>2, <1>7, <2>2 DEF Clamp
    <2>4. y # x + l => Ending'
        BY <1>1, <1>7, <2>3 DEF Ending, AtEnd
    <2> HIDE DEF t, x, y, e, l
    <2>5. y >= 0 /\ y <= e /\ y <= MaxTime
          /\ (seen.exact => y = e \/ Ending')
        BY <1>1, <1>2, <1>3, <1>6, <2>1, <2>3, <2>4
    <2> QED
        BY <1>1, <1>2, <1>7, <2>1, <2>5 DEF Measured, y, e
<1>8. CASE anim.direction = "BACKWARD"
    <2>1. Progress = t - x /\ Progress' = t - y
        BY <1>1, <1>5, <1>8 DEF Progress
    <2>2. Moved = x - l
        BY <1>2, <1>3, <1>8 DEF Moved
    <2>3. y = IF x - l < 0 THEN 0 ELSE x - l
        BY <1>1, <1>2, <1>8, <2>2 DEF Clamp
    <2>4. y # x - l => Ending'
        BY <1>1, <1>8, <2>3 DEF Ending, AtEnd
    <2>5. t <= MaxTime
        <3>1. CASE anim.state = "RUNNING"
            BY <1>2, <1>4, <1>6, <1>8, <2>1, <3>1
        <3>2. CASE anim.state = "READY"
            BY <1>1, <1>2, <1>3, <1>6, <1>8, <2>1, <2>3, <3>2
        <3> QED
            BY <1>1, <3>1, <3>2
    <2> HIDE DEF t, x, y, e, l
    <2>6. y >= 0 /\ t - y >= 0 /\ t - y <= e /\ t - y <= MaxTime
          /\ (seen.exact => t - y = e \/ Ending')
        BY <1>1, <1>2, <1>3, <1>6, <2>1, <2>3, <2>4, <2>5
    <2> QED
        BY <1>1, <1>2, <1>5, <1>8, <2>1, <2>5, <2>6 DEF Measured, y, e
<1> QED
    BY <1>2, <1>7, <1>8 DEF Directions

(* An update that reached its end ends the run, and no other does.         *)
LEMMA MeasuredFinish ==
    ASSUME Kept, TInv, Reports, Measured, FinishUpdate
    PROVE  Measured'
<1>1. /\ pc = "callback" /\ pc' = "idle"
      /\ seen'.even = seen.even /\ seen'.exact = seen.exact /\ seen'.elapsed = seen.elapsed
      /\ ~AtEnd(anim, local.total) \/ anim.state = "STOPPED" => anim' = anim
      /\ AtEnd(anim, local.total) /\ anim.state # "STOPPED" => anim' = Ended(anim)
    BY FinishIs
<1>2. CASE ~AtEnd(anim, local.total) \/ ~Active
    <2>1. anim' = anim
        BY <1>1, <1>2 DEF Active, Reports
    <2>2. Progress' = Progress /\ TotalTime(anim)' = TotalTime(anim) /\ (Active => ~Ending)
        BY <1>2, <2>1, ProgressKept DEF Ending
    <2>3. (Active' <=> Active) /\ ~Ending'
        BY <1>1, <2>1 DEF Active, Ending
    <2> QED
        BY <1>1, <2>1, <2>2, <2>3 DEF Measured
<1>3. CASE AtEnd(anim, local.total) /\ Active
    <2>1. anim' = Ended(anim) /\ anim \in AnimationType
        BY <1>1, <1>3 DEF Active, TInv, TypeOK
    <2>2. ~Active'
        BY <2>1, EndedIs DEF Active
    <2> QED
        BY <2>2 DEF Measured
<1> QED
    BY <1>2, <1>3

(* The stopwatch and the clock tick together.                              *)
LEMMA MeasuredTick ==
    ASSUME TInv, Flow, Measured, Tick
    PROVE  Measured'
<1> SUFFICES ASSUME seen'.even, Active', anim'.loopcount # INFINITE
             PROVE  Measured'
    BY DEF Measured
<1> DEFINE p == Progress
           e == seen.elapsed
           l == anim.lasttime
<1>1. /\ anim'.direction = anim.direction /\ anim'.duration = anim.duration
      /\ anim'.loopcount = anim.loopcount /\ anim'.currenttime = anim.currenttime
      /\ anim'.state = anim.state
      /\ seen'.even = seen.even /\ seen'.exact = seen.exact /\ UNCHANGED <<pc, local>>
      /\ anim.state = "RUNNING" => l > -MaxLag
      /\ l > -MaxLag => anim'.lasttime = l - 1
      /\ anim.state = "RUNNING" /\ seen.even => seen'.elapsed = Saturate(e + 1)
      /\ anim.state # "RUNNING" => seen'.elapsed = e
    BY TickIs
<1>2. Progress' = p /\ TotalTime(anim)' = TotalTime(anim) /\ (Ending' <=> Ending)
    BY <1>1, ProgressKept, EndingKept
<1>3. Active /\ seen.even /\ anim.loopcount # INFINITE
    BY <1>1 DEF Active
<1>4. /\ anim.currenttime >= 0 /\ p >= 0 /\ p <= e /\ p <= MaxTime
      /\ TotalTime(anim) > MaxTime /\ anim.direction = "BACKWARD" => p = 0
      /\ anim.state = "RUNNING" => p <= e + l \/ Ending
      /\ seen.exact => /\ anim.state # "PAUSED"
                       /\ anim.state = "READY" => p = e
                       /\ anim.state = "RUNNING" => p = e + l \/ Ending
    BY <1>3 DEF Measured
<1>5. CASE anim.state # "RUNNING"
    BY <1>1, <1>2, <1>4, <1>5 DEF Measured
<1>6. CASE anim.state = "RUNNING"
    <2>1. /\ p \in Int /\ e \in 0..Horizon /\ l \in -MaxLag..0 /\ MaxTime \in Nat /\ MaxLag \in Nat
          /\ Horizon = MaxTime + MaxLag
        BY ProgressType, SeenTyped, BoundsAssumption DEF TInv, Flow, SeenType, Horizon
    <2>2. seen'.elapsed = IF e + 1 > Horizon THEN Horizon ELSE e + 1
        BY <1>1, <1>3, <1>6 DEF Saturate
    <2>3. anim'.lasttime = l - 1 /\ l > -MaxLag
        BY <1>1, <1>6
    <2> HIDE DEF p, e, l
    <2>4. p <= seen'.elapsed
        BY <1>4, <2>1, <2>2
    <2>5. p <= e + l => p <= seen'.elapsed + anim'.lasttime
        BY <1>4, <2>1, <2>2, <2>3
    <2>6. p = e + l => p = seen'.elapsed + anim'.lasttime
        BY <1>4, <2>1, <2>2, <2>3
    <2> QED
        BY <1>1, <1>2, <1>4, <1>6, <2>4, <2>5, <2>6 DEF Measured
<1> QED
    BY <1>5, <1>6

LEMMA MeasuredInvariant ==
    ASSUME Kept
    PROVE  Spec => [](TInv /\ Reports /\ Flow /\ Measured)
<1> DEFINE MInv == TInv /\ Reports /\ Flow /\ Measured
<1>1. Init => MInv
    BY TInit, ReportsInit, FlowInit, MeasuredInit
<1>2. MInv /\ [Next]_vars => MInv'
    <2> SUFFICES ASSUME TInv, Reports, Flow, Measured, [Next]_vars
                 PROVE  Measured'
        BY TStep, ReportsStep, FlowStep
    <2>1. CASE UserCall
        BY <2>1, MeasuredCall
    <2>2. CASE PassRunning \/ PassReady
        BY <2>2, MeasuredUpdate
    <2>3. CASE FinishUpdate
        BY <2>3, MeasuredFinish
    <2>4. CASE Tick
        BY <2>4, MeasuredTick
    <2>5. CASE LeaveAlone \/ PassStopped \/ PassRemove \/ UNCHANGED vars
        BY <2>5 DEF LeaveAlone, PassStopped, PassRemove, vars, Measured, Active, Ending, AtEnd,
                    Progress, TotalTime
    <2> QED
        BY <2>1, <2>2, <2>3, <2>4, <2>5 DEF Next, Pass
<1> QED
    BY <1>1, <1>2, PTL DEF Spec

(* Updates neither lose nor invent time (setcurrenttime, getdelta and the  *)
(* clamp), for any durations and loop counts and any lag of the timer.     *)
THEOREM TimeIsKept ==
    ASSUME Kept
    PROVE  Spec => []NoDrift
<1>1. Measured => NoDrift
    BY DEF Measured, NoDrift, Active, Ending
<1> QED
    BY <1>1, MeasuredInvariant, PTL

(* Pausing, resuming, and running again, from callbacks or from the main   *)
(* loop, never make an animation jump ahead of the time it was running.    *)
THEOREM PausesAreNotCharged ==
    ASSUME Kept
    PROVE  Spec => []NeverAhead
<1>1. Measured => NeverAhead
    BY DEF Measured, NeverAhead, Active, Over
<1> QED
    BY <1>1, MeasuredInvariant, PTL

-----------------------------------------------------------------------------
(***************************************************************************)
(* What an update remembers while the callbacks run.  When nothing that    *)
(* the time line depends on was changed, it is what it would compute       *)
(* again, or the run has been started anew, and is at its start.           *)
(***************************************************************************)
Remembered ==
    pc = "callback" /\ seen.even /\ Active =>
        \/ anim.currenttime = StartTime(anim)
        \/ local.total = TotalTime(anim) /\ local.time = ShownTime(anim)

(* What does not touch the time line keeps what is shown of it.            *)
LEMMA ShownKept ==
    ASSUME anim'.direction = anim.direction, anim'.duration = anim.duration,
           anim'.loopcount = anim.loopcount, anim'.currenttime = anim.currenttime
    PROVE  /\ StartTime(anim') = StartTime(anim) /\ TotalTime(anim') = TotalTime(anim)
           /\ ShownTime(anim') = ShownTime(anim)
BY DEF StartTime, TotalTime, ShownTime

LEMMA RememberedKept ==
    ASSUME Remembered, UNCHANGED <<pc, local>>, anim'.direction = anim.direction,
           anim'.duration = anim.duration, anim'.loopcount = anim.loopcount,
           anim'.currenttime = anim.currenttime, seen'.even => seen.even, Active' => Active
    PROVE  Remembered'
BY ShownKept DEF Remembered

LEMMA RememberedStep ==
    ASSUME Kept, TInv, Reports, Remembered, [Next]_vars
    PROVE  Remembered'
<1>1. anim \in AnimationType /\ seen \in SeenType /\ anim.state # "REMOVE"
    BY SeenTyped DEF TInv, Reports
<1>2. CASE AsyncRun
    <2>1. /\ anim' = Start(anim) /\ UNCHANGED <<pc, local>>
          /\ ~Over(anim) => Disturb(anim.state = "READY", TRUE)
        BY <1>2 DEF AsyncRun, Enabled
    <2>2. SameLine(anim, anim')
        BY <1>1, <2>1, StartIs
    <2>3. CASE anim.state = "STOPPED"
        <3>1. anim'.currenttime = StartTime(anim)
            BY <1>1, <2>1, <2>3, StartIs
        <3>2. StartTime(anim') = StartTime(anim)
            BY <2>2 DEF StartTime, TotalTime, SameLine
        <3> QED
            BY <3>1, <3>2 DEF Remembered
    <2>4. CASE anim.state # "STOPPED"
        <3>1. anim'.currenttime = anim.currenttime /\ (seen'.even <=> seen.even) /\ Active
            BY <1>1, <2>1, <2>4, StartIs, DisturbIs DEF Over, Active
        <3> QED
            BY <2>1, <2>2, <3>1, RememberedKept DEF SameLine
    <2> QED
        BY <2>3, <2>4
<1>3. CASE StopCall
    <2>1. anim' = Stop(anim) /\ UNCHANGED <<pc, local, seen>>
        BY <1>3 DEF StopCall, Enabled
    <2>2. SameLine(anim, anim') /\ anim'.currenttime = anim.currenttime /\ (Active' => Active)
        BY <1>1, <2>1, StopIs, EndedIs DEF SameLine, Active
    <2> QED
        BY <2>1, <2>2, RememberedKept DEF SameLine
<1>4. CASE Pause
    <2>1. anim' = Paused(anim) /\ UNCHANGED <<pc, local>> /\ Disturb(anim.state # "RUNNING", TRUE)
        BY <1>4 DEF Pause, Enabled
    <2>2. /\ SameLine(anim, anim') /\ anim'.currenttime = anim.currenttime
          /\ (Active' => Active) /\ (seen'.even <=> seen.even)
        BY <1>1, <2>1, PausedIs, DisturbIs DEF SameLine, Active
    <2> QED
        BY <2>1, <2>2, RememberedKept DEF SameLine
<1>5. CASE ResumeCall
    <2>1. anim' = Resume(anim) /\ UNCHANGED <<pc, local, seen>>
        BY <1>5 DEF ResumeCall, Enabled
    <2>2. SameLine(anim, anim') /\ anim'.currenttime = anim.currenttime /\ (Active' => Active)
        BY <1>1, <2>1, ResumeIs DEF SameLine, Active
    <2> QED
        BY <2>1, <2>2, RememberedKept DEF SameLine
<1>6. CASE SetDirection \/ SetLoopcount \/ SetDuration
    <2>1. anim'.state = anim.state
        BY <1>1, <1>6 DEF SetDirection, SetLoopcount, SetDuration, AnimationType
    <2>2. seen'.even => Over(anim)
        BY <1>1, <1>6, OverIs, TurnIs, DisturbIs DEF SetLoopcount, SetDuration
    <2> QED
        BY <2>1, <2>2 DEF Remembered, Active, Over
<1>7. CASE SetKeepalive
    <2>1. UNCHANGED <<pc, local, seen>> /\ \E k : anim' = [anim EXCEPT !.keepalive = k]
        BY <1>7 DEF SetKeepalive, Enabled
    <2>2. /\ anim'.direction = anim.direction /\ anim'.duration = anim.duration
          /\ anim'.loopcount = anim.loopcount /\ anim'.currenttime = anim.currenttime
          /\ anim'.state = anim.state
        BY <1>1, <2>1 DEF AnimationType
    <2> QED
        BY <2>1, <2>2, RememberedKept DEF Active
<1>8. CASE PassRunning \/ PassReady
    BY <1>8, BeginIs DEF Remembered
<1>9. CASE FinishUpdate
    BY <1>9, FinishIs DEF Remembered
<1>10. CASE Tick
    BY <1>10, TickIs, RememberedKept DEF Active
<1>11. CASE LeaveAlone \/ PassStopped \/ PassRemove \/ UNCHANGED vars
    <2>1. UNCHANGED <<anim, pc, local, seen>>
        BY <1>11 DEF LeaveAlone, PassStopped, PassRemove, vars
    <2> QED
        BY <2>1, RememberedKept DEF Active
<1> QED
    BY <1>2, <1>3, <1>4, <1>5, <1>6, <1>7, <1>8, <1>9, <1>10, <1>11 DEF Next, Pass, UserCall

(* The update that ends an undisturbed run has shown the value at the far  *)
(* end.                                                                    *)
LEMMA FarEndShown ==
    ASSUME TInv, Remembered, FinishUpdate, seen.even, ~Over(anim), Over(anim)'
    PROVE  local.time = FarEnd
<1>1. /\ pc = "callback" /\ Active /\ (~AtEnd(anim, local.total) => anim' = anim)
    BY FinishIs DEF Active, Over
<1>2. AtEnd(anim, local.total)
    BY <1>1 DEF Over
<1>3. /\ TotalTime(anim) # 0 /\ CMod(TotalTime(anim), anim.duration) = 0
      /\ CMod(0, anim.duration) = 0 /\ local.total # 0
    BY <1>1, TotalSet, CModZero DEF TInv, Updating
<1>4. anim.direction \in Directions
    BY DEF TInv, TypeOK, AnimationType
<1>5. ~(anim.currenttime = StartTime(anim))
    BY <1>2, <1>3, <1>4 DEF AtEnd, StartTime, Directions
<1>6. local.total = TotalTime(anim) /\ local.time = ShownTime(anim)
    BY <1>1, <1>5 DEF Remembered
<1>7. CASE anim.direction = "FORWARD"
    BY <1>2, <1>3, <1>6, <1>7 DEF AtEnd, ShownTime, FarEnd
<1>8. CASE anim.direction = "BACKWARD"
    BY <1>2, <1>3, <1>6, <1>8 DEF AtEnd, ShownTime, FarEnd
<1> QED
    BY <1>4, <1>7, <1>8 DEF Directions

(* No update ends an undisturbed run early, or without showing the value   *)
(* at its far end.                                                         *)
THEOREM EndIsShown ==
    ASSUME Kept
    PROVE  Spec => EndsAtFarEnd
<1> DEFINE RInv == TInv /\ Reports /\ Remembered
<1>1. Init => RInv
    BY TInit, ReportsInit DEF Init, Remembered
<1>2. RInv /\ [Next]_vars => RInv'
    BY TStep, ReportsStep, RememberedStep
<1>3. RInv /\ [Next]_vars
        => [(FinishUpdate /\ seen.even /\ ~Over(anim) /\ Over(anim)') => local.time = FarEnd]_vars
    BY FarEndShown
<1> QED
    BY <1>1, <1>2, <1>3, PTL DEF Spec, EndsAtFarEnd

-----------------------------------------------------------------------------
(***************************************************************************)
(* The loops of the first run: how far it has come, and what has been      *)
(* reported of it.  An update that is in its callbacks has not reported    *)
(* yet, and has at most one loop to report.                                *)
(***************************************************************************)
First == seen.firstrun /\ seen.even
Ahead == seen.firstrun => anim.direction = "FORWARD" \/ place = "unlisted"

Counted ==
    Ahead /\ (First =>
        /\ anim.currentloop >= 0 /\ anim.currentloop <= MaxTime
        /\ Active => /\ anim.currenttime >= 0
                     /\ anim.currentloop = CDiv(anim.currenttime, anim.duration)
                     /\ anim.loopcount # INFINITE => anim.currenttime <= TotalTime(anim)
        /\ pc = "idle" => seen.loopcbs = anim.currentloop
        /\ pc = "callback" => /\ seen.loopcbs = local.oldloop
                              /\ anim.currentloop \in {local.oldloop, local.oldloop + 1})

LEMMA CountedKept ==
    ASSUME TInv, Counted, UNCHANGED <<pc, local>>, anim'.direction = anim.direction,
           anim'.duration = anim.duration, anim'.loopcount = anim.loopcount,
           anim'.currenttime = anim.currenttime, anim'.currentloop = anim.currentloop,
           seen'.firstrun => seen.firstrun, First' => First, Active' => Active,
           place = "unlisted" => place' = "unlisted", seen'.loopcbs = seen.loopcbs
    PROVE  Counted'
<1>1. TotalTime(anim') = TotalTime(anim)
    BY DEF TotalTime
<1> QED
    BY <1>1 DEF Counted, Ahead

LEMMA CountedInit == Init => Counted
<1> SUFFICES ASSUME Init
             PROVE  Counted
    OBVIOUS
<1>1. PICK d \in Durations, n \in Loopcounts, k \in Keepalive :
          anim = [Fresh(d, 0) EXCEPT !.loopcount = n, !.keepalive = k]
    BY DEF Init
<1>2. /\ anim.currentloop = 0 /\ anim.state = "STOPPED" /\ seen.loopcbs = 0 /\ pc = "idle"
      /\ place = "unlisted"
    BY <1>1 DEF Fresh, Init, NewRun
<1> QED
    BY <1>2, BoundsAssumption DEF Counted, Active, Ahead

LEMMA CountedRun ==
    ASSUME TInv, Flow, Counted, AsyncRun
    PROVE  Counted'
<1>1. anim \in AnimationType /\ seen \in SeenType
    BY SeenTyped DEF TInv
<1> DEFINE first == place = "unlisted" /\ anim.currentloop = 0 /\ anim.direction = "FORWARD"
<1>2. /\ anim' = Start(anim) /\ UNCHANGED <<pc, local>> /\ place' = "listed"
      /\ Over(anim) => seen' = NewRun(first)
      /\ ~Over(anim) => Disturb(anim.state = "READY", TRUE)
    BY DEF AsyncRun, Enabled
<1>3. SameLine(anim, anim')
    BY <1>1, <1>2, StartIs
<1>4. CASE Over(anim)
    <2> SUFFICES ASSUME first
                 PROVE  Counted'
        <3>1. first \in BOOLEAN
            OBVIOUS
        <3>2. seen'.firstrun = first
            BY <1>2, <1>4, <3>1, NewRunIs
        <3> QED
            BY <3>2 DEF Counted, First, Ahead
    <2>1. anim.state = "STOPPED" /\ pc = "idle" /\ seen'.loopcbs = 0
        BY <1>2, <1>4, NewRunIs DEF Flow, TInv, Updating, TypeOK
    <2>2. anim'.currenttime = 0 /\ anim'.currentloop = 0
        BY <1>1, <1>2, <1>3, <2>1, StartIs DEF StartTime, SameLine
    <2>3. CDiv(0, anim'.duration) = 0 /\ (anim'.loopcount # INFINITE => TotalTime(anim') > 0)
        <3>1. anim'.duration = anim.duration /\ TotalTime(anim') = TotalTime(anim)
            BY <1>3 DEF TotalTime, SameLine
        <3> QED
            BY <1>3, <3>1, TotalSet DEF CDiv, SameLine
    <2>4. anim'.direction = "FORWARD" /\ pc' = "idle" /\ 0 <= MaxTime
        BY <1>2, <1>3, <2>1, BoundsAssumption DEF SameLine
    <2>5. anim'.loopcount # INFINITE => 0 <= TotalTime(anim')
        <3>1. TotalTime(anim') = TotalTime(anim) /\ TotalTime(anim) \in Int
            BY <1>3, TotalSet DEF TotalTime, SameLine
        <3> QED
            BY <2>3, <3>1
    <2> QED
        BY <2>1, <2>2, <2>3, <2>4, <2>5 DEF Counted, Ahead
<1>5. CASE ~Over(anim)
    <2>1. /\ seen'.even <=> seen.even
          /\ seen'.loopcbs = seen.loopcbs /\ seen'.firstrun = seen.firstrun
        BY <1>1, <1>2, <1>5, DisturbIs
    <2>2. anim'.currenttime = anim.currenttime /\ Active
        BY <1>1, <1>2, <1>5, StartIs DEF Over, Active
    <2>3. First' => First
        BY <2>1 DEF First
    <2>4. place # "unlisted"
        BY <1>5 DEF Flow, Over
    <2> QED
        BY <1>2, <1>3, <2>1, <2>2, <2>3, <2>4, CountedKept DEF SameLine
<1> QED
    BY <1>4, <1>5

LEMMA CountedCall ==
    ASSUME TInv, Flow, Counted, UserCall
    PROVE  Counted'
<1>1. anim \in AnimationType /\ seen \in SeenType
    BY SeenTyped DEF TInv
<1>2. UNCHANGED <<pc, local>>
    BY CallLeaves DEF UserCall, AsyncRun, StopCall, Pause, ResumeCall, SetDirection, SetLoopcount,
                      SetDuration, SetKeepalive
<1>3. CASE AsyncRun
    BY <1>3, CountedRun
<1>4. CASE StopCall
    <2>1. anim' = Stop(anim) /\ UNCHANGED <<place, seen>>
        BY <1>4 DEF StopCall
    <2>2. SameLine(anim, anim') /\ anim'.currenttime = anim.currenttime /\ (Active' => Active)
        BY <1>1, <2>1, StopIs, EndedIs DEF SameLine, Active
    <2> QED
        BY <1>2, <2>1, <2>2, CountedKept DEF SameLine, First
<1>5. CASE Pause
    <2>1. anim' = Paused(anim) /\ place' = place /\ Disturb(anim.state # "RUNNING", TRUE)
        BY <1>5 DEF Pause
    <2>2. /\ SameLine(anim, anim') /\ anim'.currenttime = anim.currenttime /\ (Active' => Active)
          /\ seen'.even <=> seen.even
          /\ seen'.loopcbs = seen.loopcbs /\ seen'.firstrun = seen.firstrun
        BY <1>1, <2>1, PausedIs, DisturbIs DEF SameLine, Active
    <2> QED
        BY <1>2, <2>1, <2>2, CountedKept DEF SameLine, First
<1>6. CASE ResumeCall
    <2>1. anim' = Resume(anim) /\ UNCHANGED <<place, seen>>
        BY <1>6 DEF ResumeCall
    <2>2. SameLine(anim, anim') /\ anim'.currenttime = anim.currenttime /\ (Active' => Active)
        BY <1>1, <2>1, ResumeIs DEF SameLine, Active
    <2> QED
        BY <1>2, <2>1, <2>2, CountedKept DEF SameLine, First
<1>7. CASE SetDirection \/ SetLoopcount \/ SetDuration
    <2>1. anim'.state = anim.state /\ anim'.currentloop = anim.currentloop /\ place' = place
        BY <1>1, <1>7 DEF SetDirection, SetLoopcount, SetDuration, AnimationType
    <2>2. /\ seen'.even => seen.even /\ Over(anim)
          /\ seen'.firstrun => seen.firstrun /\ (anim'.direction = anim.direction \/ place = "unlisted")
          /\ seen'.loopcbs = seen.loopcbs
        <3>1. CASE SetDirection
            BY <1>1, <3>1, TurnIs
        <3>2. CASE SetLoopcount \/ SetDuration
            <4>1. anim'.direction = anim.direction /\ Disturb(TRUE, Over(anim))
                BY <1>1, <3>2 DEF SetLoopcount, SetDuration, AnimationType
            <4> QED
                BY <1>1, <4>1, OverIs, DisturbIs
        <3> QED
            BY <1>7, <3>1, <3>2
    <2>3. First' => First /\ ~Active'
        BY <2>1, <2>2 DEF First, Active, Over
    <2> QED
        BY <1>2, <2>1, <2>2, <2>3 DEF Counted, Ahead
<1>8. CASE SetKeepalive
    <2>1. UNCHANGED <<place, seen>> /\ \E k : anim' = [anim EXCEPT !.keepalive = k]
        BY <1>8 DEF SetKeepalive
    <2>2. /\ anim'.direction = anim.direction /\ anim'.duration = anim.duration
          /\ anim'.loopcount = anim.loopcount /\ anim'.currenttime = anim.currenttime
          /\ anim'.currentloop = anim.currentloop /\ anim'.state = anim.state
        BY <1>1, <2>1 DEF AnimationType
    <2> QED
        BY <1>2, <2>1, <2>2, CountedKept DEF First, Active
<1> QED
    BY <1>3, <1>4, <1>5, <1>6, <1>7, <1>8 DEF UserCall

(* An update passes at most one loop, as the timer is not later than that. *)
LEMMA CountedUpdate ==
    ASSUME OnTime, TInv, Flow, Counted, PassRunning \/ PassReady
    PROVE  Counted'
<1> SUFFICES ASSUME First'
             PROVE  Counted'
    BY BeginIs DEF Counted, Ahead
<1> DEFINE t == TotalTime(anim)
           x == anim.currenttime
           y == anim'.currenttime
           d == anim.duration
           l == Elapsed
           fin == anim.loopcount # INFINITE
<1>1. /\ y = Clamp(anim, Moved) /\ y \in -MaxTime..MaxTime
      /\ anim'.direction = anim.direction /\ anim'.duration = d
      /\ anim'.loopcount = anim.loopcount /\ anim'.currentloop = CDiv(y, d)
      /\ local'.oldloop = anim.currentloop
      /\ anim.state \in {"RUNNING", "READY"} /\ pc = "idle" /\ pc' = "callback"
      /\ place = "listed" /\ place' = place /\ seen' = seen
    BY BeginIs
<1>2. t \in Int /\ x \in Int /\ d \in Nat \ {0} /\ MaxTime \in Nat
    BY TotalSet, BoundsAssumption DEF TInv, TypeOK, AnimationType
<1>3. l \in Nat /\ l <= d
    <2>1. MaxLag <= d
        BY DEF OnTime, TInv, Settings
    <2> QED
        BY <1>2, <2>1, BoundsAssumption DEF Flow, Elapsed
<1>4. Active /\ First /\ anim.direction = "FORWARD"
    BY <1>1 DEF Active, First, Counted, Ahead
<1>5. x >= 0 /\ anim.currentloop = CDiv(x, d) /\ (fin => x <= t) /\ seen.loopcbs = anim.currentloop
    BY <1>1, <1>4 DEF Counted
<1>6. y = IF fin /\ x + l > t THEN t ELSE x + l
    BY <1>1, <1>2, <1>4 DEF Clamp, Moved
<1>7. TotalTime(anim') = t
    BY <1>1 DEF TotalTime
<1>8. fin' <=> fin
    BY <1>1
<1> HIDE DEF t, x, y, d, l, fin
<1>9. x <= y /\ y <= x + d /\ (fin => y <= t) /\ y \in Nat /\ y <= MaxTime /\ x \in Nat
    BY <1>1, <1>2, <1>3, <1>5, <1>6
<1>10. CDiv(y, d) \in {CDiv(x, d), CDiv(x, d) + 1}
    BY <1>2, <1>9, NextLoop
<1>11. CDiv(y, d) >= 0 /\ CDiv(y, d) <= MaxTime
    <2>1. y \div d \in Nat /\ y \div d <= y
        BY <1>2, <1>9
    <2> QED
        BY <1>2, <1>9, <2>1 DEF CDiv
<1>12. /\ anim'.currentloop = CDiv(y, d) /\ anim'.currenttime = y /\ anim'.duration = d
       /\ anim'.currentloop >= 0 /\ anim'.currentloop <= MaxTime /\ y >= 0
       /\ anim'.loopcount # INFINITE => y <= TotalTime(anim')
       /\ local'.oldloop = CDiv(x, d) /\ seen'.loopcbs = CDiv(x, d) /\ pc' = "callback"
       /\ anim'.direction = "FORWARD"
    BY <1>1, <1>4, <1>5, <1>7, <1>9, <1>11 DEF y, d, fin
<1> QED
    BY <1>10, <1>12 DEF Counted, Ahead

(* The update reports the loop it has passed.                              *)
LEMMA CountedFinish ==
    ASSUME TInv, Counted, FinishUpdate
    PROVE  Counted'
<1>1. /\ pc = "callback" /\ pc' = "idle" /\ place' = place
      /\ SameLine(anim, anim') /\ anim'.currenttime = anim.currenttime
      /\ anim' = anim \/ anim' = Ended(anim)
      /\ seen'.even = seen.even /\ seen'.firstrun = seen.firstrun
      /\ seen.firstrun /\ LoopChanged(anim, local.oldloop) => seen'.loopcbs = Saturate(seen.loopcbs + 1)
      /\ ~LoopChanged(anim, local.oldloop) => seen'.loopcbs = seen.loopcbs
    BY FinishIs
<1>2. (First' <=> First) /\ (Active' => Active)
    BY <1>1, EndedIs DEF First, Active, SameLine, TInv, TypeOK
<1> SUFFICES ASSUME First
             PROVE  Counted'
    BY <1>1, <1>2 DEF Counted, Ahead, SameLine
<1>3. /\ anim.currentloop <= MaxTime /\ seen.loopcbs = local.oldloop
      /\ anim.currentloop \in {local.oldloop, local.oldloop + 1}
    BY <1>1 DEF Counted
<1>4. seen'.loopcbs = anim.currentloop
    <2>1. local.oldloop \in Int
        BY DEF TInv, TypeOK
    <2>2. CASE anim.currentloop = local.oldloop
        BY <1>1, <1>3, <2>2 DEF LoopChanged
    <2>3. CASE anim.currentloop = local.oldloop + 1
        <3>1. seen'.loopcbs = Saturate(local.oldloop + 1)
            BY <1>1, <1>3, <2>1, <2>3 DEF LoopChanged, First
        <3> QED
            BY <1>3, <2>1, <2>3, <3>1, BoundsAssumption DEF Saturate, Horizon
    <2> QED
        BY <1>3, <2>2, <2>3
<1>5. TotalTime(anim') = TotalTime(anim)
    BY <1>1 DEF TotalTime, SameLine
<1> QED
    BY <1>1, <1>2, <1>4, <1>5 DEF Counted, Ahead, SameLine

(* Over the first run curloopchanged_cb is called once for every loop, if  *)
(* the timer is never late by more than a loop.                            *)
THEOREM EveryLoopReported ==
    ASSUME OnTime
    PROVE  Spec => []LoopCallbacksMatch
<1> DEFINE CInv == TInv /\ Flow /\ Counted
<1>1. Init => CInv
    BY TInit, FlowInit, CountedInit
<1>2. CInv /\ [Next]_vars => CInv'
    <2> SUFFICES ASSUME TInv, Flow, Counted, [Next]_vars
                 PROVE  Counted'
        BY TStep, FlowStep
    <2>1. CASE UserCall
        BY <2>1, CountedCall
    <2>2. CASE PassRunning \/ PassReady
        BY <2>2, CountedUpdate
    <2>3. CASE FinishUpdate
        BY <2>3, CountedFinish
    <2>4. CASE Tick
        BY <2>4, TickIs, CountedKept DEF First, Active
    <2>5. CASE LeaveAlone \/ PassStopped \/ PassRemove \/ UNCHANGED vars
        <3>1. UNCHANGED <<anim, pc, local, seen>>
            BY <2>5 DEF LeaveAlone, PassStopped, PassRemove, vars
        <3>2. place # "unlisted" \/ place' = place
            BY <2>5 DEF LeaveAlone, PassStopped, PassRemove, vars
        <3> QED
            BY <3>1, <3>2, CountedKept DEF First, Active
    <2> QED
        BY <2>1, <2>2, <2>3, <2>4, <2>5 DEF Next, Pass
<1>3. CInv => LoopCallbacksMatch
    BY DEF Counted, LoopCallbacksMatch, First
<1> QED
    BY <1>1, <1>2, <1>3, PTL DEF Spec

-----------------------------------------------------------------------------
(***************************************************************************)
(* The time on the time line stays at or above 0, where the remainder of C *)
(* is the one of mathematics.                                              *)
(***************************************************************************)
NotNegative == anim.currenttime >= 0

LEMMA NotNegativeStep ==
    ASSUME Bounded, TInv, Flow, NotNegative, [Next]_vars
    PROVE  NotNegative'
<1>1. anim \in AnimationType
    BY DEF TInv, TypeOK
<1>2. /\ TotalTime(anim) \in Int /\ (anim.loopcount # INFINITE => TotalTime(anim) > 0)
      /\ anim.loopcount # INFINITE \/ anim.direction = "FORWARD"
      /\ anim.direction \in Directions
    BY <1>1, TotalSet DEF Bounded, TInv, Settings, AnimationType, Directions
<1>3. CASE AsyncRun
    <2>1. anim' = Start(anim)
        BY <1>3 DEF AsyncRun
    <2> QED
        BY <1>1, <1>2, <2>1, StartIs DEF NotNegative, StartTime
<1>4. CASE StopCall
    <2>1. anim' = anim \/ anim' = Ended(anim)
        BY <1>1, <1>4, StopIs DEF StopCall
    <2> QED
        BY <1>1, <2>1, EndedIs DEF NotNegative
<1>5. CASE Pause \/ ResumeCall
    <2>1. anim' = Paused(anim) \/ anim' = Resume(anim)
        BY <1>5 DEF Pause, ResumeCall
    <2> QED
        BY <1>1, <2>1, PausedIs, ResumeIs DEF NotNegative
<1>6. CASE SetDirection \/ SetLoopcount \/ SetDuration \/ SetKeepalive
    <2>1. anim'.currenttime = anim.currenttime
        BY <1>1, <1>6 DEF SetDirection, SetLoopcount, SetDuration, SetKeepalive, AnimationType
    <2> QED
        BY <2>1 DEF NotNegative
<1>7. CASE PassRunning \/ PassReady
    <2>1. anim'.currenttime = Clamp(anim, Moved)
        BY <1>7, BeginIs
    <2>2. Elapsed \in Nat
        BY BoundsAssumption DEF Flow, Elapsed
    <2>3. CASE anim.direction = "FORWARD"
        <3>1. Moved >= 0 /\ Moved \in Int
            BY <1>1, <2>2, <2>3 DEF Moved, NotNegative, AnimationType
        <3> QED
            BY <1>2, <2>1, <2>3, <3>1 DEF Clamp, NotNegative
    <2>4. CASE anim.direction = "BACKWARD"
        <3>1. Moved \in Int
            BY <1>1, <2>2, <2>4 DEF Moved, AnimationType
        <3> QED
            BY <1>2, <2>1, <2>4, <3>1 DEF Clamp, NotNegative
    <2> QED
        BY <1>2, <2>3, <2>4 DEF Directions
<1>8. CASE FinishUpdate
    BY <1>8, FinishIs DEF NotNegative
<1>9. CASE Tick
    BY <1>9, TickIs DEF NotNegative
<1>10. CASE LeaveAlone \/ PassStopped \/ PassRemove \/ UNCHANGED vars
    BY <1>10 DEF LeaveAlone, PassStopped, PassRemove, vars, NotNegative
<1> QED
    BY <1>3, <1>4, <1>5, <1>6, <1>7, <1>8, <1>9, <1>10 DEF Next, Pass, UserCall

LEMMA ShownIs ==
    ASSUME NEW a \in AnimationType, a.currenttime >= 0
    PROVE  ShownTime(a) \in 0..a.duration
<1>1. a.currenttime \in Nat /\ a.duration \in Nat \ {0}
    BY DEF AnimationType
<1>2. CMod(a.currenttime, a.duration) \in 0..(a.duration - 1)
    BY <1>1, CModBounds
<1> HIDE DEF CMod
<1> QED
    BY <1>1, <1>2 DEF ShownTime

(* The time handed to updateValue lies within one duration, whatever is    *)
(* set while the animation runs, unless it runs backward without end.      *)
THEOREM ShownWithinDuration ==
    ASSUME Bounded
    PROVE  Spec => ShownInRange
<1> DEFINE NInv == TInv /\ Flow /\ NotNegative
<1>1. Init => NInv
    <2> SUFFICES ASSUME Init
                 PROVE  NotNegative
        BY TInit, FlowInit
    <2>1. PICK d \in Durations, n \in Loopcounts, k \in Keepalive :
              anim = [Fresh(d, 0) EXCEPT !.loopcount = n, !.keepalive = k]
        BY DEF Init
    <2>2. anim.currenttime = 0
        BY <2>1 DEF Fresh
    <2> QED
        BY <2>2 DEF NotNegative
<1>2. NInv /\ [Next]_vars => NInv'
    BY TStep, FlowStep, NotNegativeStep
<1>3. NInv /\ [Next]_vars
        => [(pc = "idle" /\ pc' = "callback") => local'.time \in 0..anim'.duration]_vars
    <2> SUFFICES ASSUME NInv, [Next]_vars, pc = "idle", pc' = "callback"
                 PROVE  local'.time \in 0..anim'.duration
        OBVIOUS
    <2>1. PassRunning \/ PassReady
        <3>1. UserCall => UNCHANGED pc
            BY CallLeaves DEF UserCall, AsyncRun, StopCall, Pause, ResumeCall, SetDirection,
                              SetLoopcount, SetDuration, SetKeepalive
        <3>2. ~(LeaveAlone \/ FinishUpdate \/ PassStopped \/ PassRemove \/ Tick \/ UNCHANGED vars)
            BY DEF LeaveAlone, FinishUpdate, PassStopped, PassRemove, Tick, vars
        <3> QED
            BY <3>1, <3>2 DEF Next, Pass
    <2>2. local'.time = ShownTime(anim') /\ anim' \in AnimationType
        BY <2>1, BeginIs
    <2>3. anim'.currenttime >= 0
        BY NotNegativeStep DEF NotNegative
    <2> QED
        BY <2>2, <2>3, ShownIs
<1> QED
    BY <1>1, <1>2, <1>3, PTL DEF Spec, ShownInRange
=============================================================================
