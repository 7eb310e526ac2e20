--------------------------- MODULE AnimationProofs ---------------------------
(***************************************************************************)
(* Lemmas about the operators of Animation: what the functions of          *)
(* animation.c return, and what they leave of the animation they are given.*)
(***************************************************************************)
EXTENDS Animation, TLAPS

-----------------------------------------------------------------------------
(***************************************************************************)
(* Times.                                                                  *)
(***************************************************************************)
LEMMA CDivType == ASSUME NEW x \in Int, NEW d \in Nat \ {0} PROVE CDiv(x, d) \in Int
BY DEF CDiv

LEMMA CModBounds ==
    ASSUME NEW x \in Nat, NEW d \in Nat \ {0}
    PROVE  CMod(x, d) \in 0..(d - 1)
BY DEF CMod, CDiv

LEMMA CModZero == ASSUME NEW d \in Nat \ {0} PROVE CMod(0, d) = 0
BY DEF CMod, CDiv

(* The total time is a number of whole loops; endless ones count as -1. *)
LEMMA TotalIs ==
    ASSUME NEW a, a.duration \in Nat \ {0}, a.loopcount \in Nat \ {0} \/ a.loopcount = INFINITE
    PROVE  /\ TotalTime(a) \in Int /\ TotalTime(a) # 0
           /\ a.loopcount # INFINITE => TotalTime(a) > 0
           /\ CMod(TotalTime(a), a.duration) = 0
<1> DEFINE d == a.duration
           n == a.loopcount
<1>1. d \in Nat \ {0} /\ (n \in Nat \ {0} \/ n = -1) /\ TotalTime(a) = d * n
    BY DEF TotalTime, INFINITE
<1> HIDE DEF d, n
<1>2. CASE n \in Nat \ {0}
    <2>1. d * n \in Nat \ {0}
        BY <1>1, <1>2
    <2>2. (d * n) \div d = n
        BY <1>1, <1>2
    <2>3. CMod(d * n, d) = 0
        BY <1>1, <2>1, <2>2 DEF CMod, CDiv
    <2> QED
        BY <1>1, <2>1, <2>3 DEF d
<1>3. CASE n = -1
    <2>1. d * n = -d
        BY <1>1, <1>3
    <2>2. d \div d = 1
        BY <1>1
    <2>3. CMod(-d, d) = 0
        BY <1>1, <2>2 DEF CMod, CDiv
    <2> QED
        BY <1>1, <1>3, <2>1, <2>3 DEF d, n, INFINITE
<1> QED
    BY <1>1, <1>2, <1>3

(* An update that is not late by more than a loop passes at most one. *)
LEMMA NextLoop ==
    ASSUME NEW x \in Nat, NEW y \in Nat, NEW d \in Nat \ {0}, x <= y, y <= x + d
    PROVE  CDiv(y, d) \in {CDiv(x, d), CDiv(x, d) + 1}
<1>1. x \div d <= y \div d /\ y \div d <= (x \div d) + 1
    OBVIOUS
<1>2. x \div d \in Int /\ y \div d \in Int
    OBVIOUS
<1> QED
    BY <1>1, <1>2 DEF CDiv
-----------------------------------------------------------------------------
(***************************************************************************)
(* What the functions of animation.c leave of an animation.                *)
(***************************************************************************)
SameLine(a, b) ==
    /\ b.direction = a.direction /\ b.keepalive = a.keepalive
    /\ b.duration = a.duration /\ b.loopcount = a.loopcount
    /\ b.currentloop = a.currentloop /\ b.lasttime = a.lasttime

LEMMA EndedIs ==
    ASSUME NEW a \in AnimationType
    PROVE  /\ Ended(a) \in AnimationType /\ SameLine(a, Ended(a))
           /\ a.keepalive => Ended(a).state = "STOPPED"
           /\ ~a.keepalive => Ended(a).state = "REMOVE"
           /\ a.finished = 0 => Ended(a).finished = 1
           /\ Ended(a).currenttime = a.currenttime
<1> DEFINE s == IF a.keepalive THEN "STOPPED" ELSE "REMOVE"
           n == IF a.finished = Many THEN Many ELSE a.finished + 1
<1>1. /\ s \in States /\ n \in 0..Many /\ (a.finished = 0 => n = 1)
      /\ (a.keepalive => s = "STOPPED") /\ (~a.keepalive => s = "REMOVE")
    BY DEF States, Many, AnimationType
<1>2. Ended(a) = [a EXCEPT !.state = s, !.finished = n]
    BY DEF Ended, AnimationType
<1> HIDE DEF s, n
<1> QED
    BY <1>1, <1>2 DEF AnimationType, SameLine

(* A run that begins. *)
LEMMA StartIs ==
    ASSUME NEW a \in AnimationType
    PROVE  /\ Start(a) \in AnimationType /\ SameLine(a, Start(a)) /\ Start(a).state = "READY"
           /\ a.state = "STOPPED" => /\ Start(a).currenttime = StartTime(a)
                                     /\ Start(a).finished = 0
           /\ a.state # "STOPPED" => Start(a).currenttime = a.currenttime
           /\ a.state = "REMOVE" => Start(a).finished = 0
           /\ a.state \notin {"STOPPED", "REMOVE"} => Start(a).finished = a.finished
<1>1. a.state \in States /\ StartTime(a) \in Int
    BY DEF AnimationType, StartTime, TotalTime
<1>2. CASE a.state = "READY"
    BY <1>2 DEF Start, SetState, SameLine
<1>3. CASE a.state = "STOPPED"
    <2> DEFINE t == StartTime(a)
    <2>1. Start(a) = [a EXCEPT !.state = "READY", !.currenttime = t, !.finished = 0]
        BY <1>3 DEF Start, SetState, Begun
    <2>2. t \in Int
        BY <1>1
    <2> HIDE DEF t
    <2>3. "READY" \in States /\ 0 \in 0..Many
        BY DEF States, Many
    <2>4. /\ Start(a) \in AnimationType /\ SameLine(a, Start(a)) /\ Start(a).state = "READY"
          /\ Start(a).currenttime = t /\ Start(a).finished = 0
        BY <2>1, <2>2, <2>3 DEF AnimationType, SameLine
    <2> QED
        BY <1>3, <2>4 DEF t
<1>4. CASE a.state = "REMOVE"
    <2>1. Start(a) = [a EXCEPT !.state = "READY", !.finished = 0]
        BY <1>4 DEF Start, SetState, Begun
    <2>2. "READY" \in States /\ 0 \in 0..Many
        BY DEF States, Many
    <2> QED
        BY <1>4, <2>1, <2>2 DEF AnimationType, SameLine
<1>5. CASE a.state \in {"PAUSED", "RUNNING"}
    <2>1. Start(a) = [a EXCEPT !.state = "READY"]
        BY <1>5 DEF Start, SetState, Begun
    <2>2. "READY" \in States
        BY DEF States
    <2> QED
        BY <1>5, <2>1, <2>2 DEF AnimationType, SameLine
<1> QED
    BY <1>1, <1>2, <1>3, <1>4, <1>5 DEF States

LEMMA StopIs ==
    ASSUME NEW a \in AnimationType
    PROVE  /\ a.state = "STOPPED" => Stop(a) = a
           /\ a.state # "STOPPED" => Stop(a) = Ended(a)
BY DEF Stop, SetState

(* The change to a state an animation only gets to from READY or RUNNING. *)
LEMMA GoesOn ==
    ASSUME NEW a \in AnimationType, NEW s \in States, s # "STOPPED",
           a.state \notin {"STOPPED", "REMOVE"}
    PROVE  /\ SetState(a, s) \in AnimationType /\ SameLine(a, SetState(a, s))
           /\ SetState(a, s).state = s /\ SetState(a, s).currenttime = a.currenttime
           /\ SetState(a, s).finished = a.finished
<1>1. CASE a.state = s
    BY <1>1 DEF SetState, SameLine
<1>2. CASE a.state # s
    <2>1. SetState(a, s) = [a EXCEPT !.state = s]
        BY <1>2 DEF SetState, Begun
    <2> QED
        BY <2>1 DEF AnimationType, SameLine
<1> QED
    BY <1>1, <1>2

LEMMA PausedIs ==
    ASSUME NEW a \in AnimationType
    PROVE  /\ Paused(a) \in AnimationType /\ SameLine(a, Paused(a))
           /\ Paused(a).currenttime = a.currenttime /\ Paused(a).finished = a.finished
           /\ a.state = "RUNNING" => Paused(a).state = "PAUSED"
           /\ a.state # "RUNNING" => Paused(a) = a
BY GoesOn DEF Paused, States, SameLine

LEMMA ResumeIs ==
    ASSUME NEW a \in AnimationType
    PROVE  /\ Resume(a) \in AnimationType /\ SameLine(a, Resume(a))
           /\ Resume(a).currenttime = a.currenttime /\ Resume(a).finished = a.finished
           /\ a.state = "PAUSED" => Resume(a).state = "READY"
           /\ a.state # "PAUSED" => Resume(a) = a
BY GoesOn DEF Resume, States, SameLine

LEMMA SetStartIs ==
    ASSUME NEW a \in AnimationType, NEW time \in Int, a.state = "READY"
    PROVE  /\ SetStart(a, time) \in AnimationType
           /\ SetStart(a, time).state = "RUNNING" /\ SetStart(a, time).lasttime = time
           /\ SetStart(a, time).direction = a.direction /\ SetStart(a, time).keepalive = a.keepalive
           /\ SetStart(a, time).duration = a.duration /\ SetStart(a, time).loopcount = a.loopcount
           /\ SetStart(a, time).currenttime = a.currenttime
           /\ SetStart(a, time).currentloop = a.currentloop
           /\ SetStart(a, time).finished = a.finished
<1> DEFINE b == [a EXCEPT !.lasttime = time]
<1>1. /\ b \in AnimationType /\ b.state = "READY" /\ b.lasttime = time
      /\ b.direction = a.direction /\ b.keepalive = a.keepalive
      /\ b.duration = a.duration /\ b.loopcount = a.loopcount
      /\ b.currenttime = a.currenttime /\ b.currentloop = a.currentloop /\ b.finished = a.finished
    BY DEF AnimationType
<1>2. SetStart(a, time) = SetState(b, "RUNNING")
    BY DEF SetStart
<1>3. "RUNNING" \in States
    BY DEF States
<1> HIDE DEF b
<1> QED
    BY <1>1, <1>2, <1>3, GoesOn DEF SameLine

LEMMA AdvanceIs ==
    ASSUME NEW a \in AnimationType, NEW time \in Int
    PROVE  /\ Advance(a, time) \in AnimationType
           /\ Advance(a, time).currenttime = Clamp(a, a.currenttime + Delta(a, time))
           /\ Advance(a, time).currentloop = CDiv(Advance(a, time).currenttime, a.duration)
           /\ Advance(a, time).lasttime = time /\ Advance(a, time).state = a.state
           /\ Advance(a, time).direction = a.direction /\ Advance(a, time).keepalive = a.keepalive
           /\ Advance(a, time).duration = a.duration /\ Advance(a, time).loopcount = a.loopcount
           /\ Advance(a, time).finished = a.finished
<1> DEFINE t == Clamp(a, a.currenttime + Delta(a, time))
           n == CDiv(t, a.duration)
<1>1. t \in Int
    BY DEF Clamp, Delta, TotalTime, AnimationType
<1>2. Advance(a, time) = [a EXCEPT !.currenttime = t, !.currentloop = n, !.lasttime = time]
    BY DEF Advance
<1> HIDE DEF t
<1>3. n \in Int
    BY <1>1, CDivType DEF AnimationType
<1>4. n = CDiv(t, a.duration)
    OBVIOUS
<1> HIDE DEF n
<1>5. /\ Advance(a, time) \in AnimationType
      /\ Advance(a, time).currenttime = t
      /\ Advance(a, time).currentloop = n
      /\ Advance(a, time).lasttime = time /\ Advance(a, time).state = a.state
      /\ Advance(a, time).direction = a.direction /\ Advance(a, time).keepalive = a.keepalive
      /\ Advance(a, time).duration = a.duration /\ Advance(a, time).loopcount = a.loopcount
      /\ Advance(a, time).finished = a.finished
    BY <1>1, <1>2, <1>3 DEF AnimationType
<1> QED
    BY <1>4, <1>5 DEF t

LEMMA EndUpdateIs ==
    ASSUME NEW a \in AnimationType, NEW total \in Int
    PROVE  /\ ~AtEnd(a, total) => EndUpdate(a, total) = a
           /\ AtEnd(a, total) /\ a.state = "STOPPED" => EndUpdate(a, total) = a
           /\ AtEnd(a, total) /\ a.state # "STOPPED" => EndUpdate(a, total) = Ended(a)
BY DEF EndUpdate, SetState
=============================================================================
