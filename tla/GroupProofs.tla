----------------------------- MODULE GroupProofs -----------------------------
(***************************************************************************)
(* Theorems about Group, for any number of children, any durations and     *)
(* loop counts, any lag of the timer and any length of a pass.             *)
(***************************************************************************)
EXTENDS Group, AnimationProofs

(* The callbacks of a parallel group neither run it again nor pause it,    *)
(* while its scan of the children is on the way.                           *)
Steady == "PARALLEL" \in Kinds => {"AsyncRun", "Pause"} \cap CallbackCalls["PARALLEL"] = {}

-----------------------------------------------------------------------------
(***************************************************************************)
(* One child, and what the observer knows of it.                           *)
(***************************************************************************)
KidType == [elapsed : 0..Horizon, repeated : BOOLEAN, ended : 0..MaxRounds]

KidOK(a) ==
    /\ a \in AnimationType
    /\ a.direction = "FORWARD" /\ a.loopcount = 1 /\ a.keepalive = TRUE
    /\ a.duration \in Durations /\ a.currenttime <= a.duration
    /\ a.lasttime <= 0 /\ a.state # "REMOVE"

(* It is not ahead of the observer's stopwatch, unless that has stopped.   *)
InTime(k, a) ==
    Steady /\ ~Over(a) /\ ~k.repeated =>
        /\ a.currenttime <= k.elapsed
        /\ a.state = "RUNNING" => a.currenttime <= k.elapsed + a.lasttime \/ k.elapsed = Horizon

LEMMA HorizonIs ==
    /\ Horizon \in Nat
    /\ \A d \in Durations : d \in Nat \ {0} /\ d <= Horizon
<1>1. \E longest \in Durations : \A d \in Durations : d <= longest
    BY ChildrenAssumption
<1>2. MaxDuration \in Durations /\ \A d \in Durations : d <= MaxDuration
    BY <1>1 DEF MaxDuration
<1>3. MaxDuration \in Nat /\ \A d \in Durations : d \in Nat \ {0}
    BY <1>2, ChildrenAssumption
<1> QED
    BY <1>2, <1>3, BoundsAssumption DEF Horizon

LEMMA KidSeenIs ==
    ASSUME NEW k \in KidType, NEW a, NEW b
    PROVE  /\ KidSeen(k, a, b) \in KidType
           /\ Over(b) => KidSeen(k, a, b).elapsed = 0 /\ ~KidSeen(k, a, b).repeated
           /\ ~Over(b) /\ a.state = "STOPPED" =>
                 /\ KidSeen(k, a, b).elapsed = 0
                 /\ KidSeen(k, a, b).repeated <=> b.state = "RUNNING"
           /\ ~Over(b) /\ a.state # "STOPPED" =>
                 /\ KidSeen(k, a, b).elapsed = k.elapsed
                 /\ KidSeen(k, a, b).repeated <=> k.repeated
<1> DEFINE begins == a.state = "STOPPED" /\ b.state # "STOPPED"
           e == IF begins \/ Over(b) THEN 0 ELSE k.elapsed
           r == ~Over(b) /\ (IF begins THEN b.state = "RUNNING" ELSE k.repeated)
           n == IF ~Over(a) /\ Over(b) THEN UpTo(k.ended + 1, MaxRounds) ELSE k.ended
<1>1. KidSeen(k, a, b) = [elapsed |-> e, repeated |-> r, ended |-> n]
    BY DEF KidSeen
<1>2. /\ Over(b) => e = 0 /\ ~r
      /\ ~Over(b) /\ a.state = "STOPPED" => e = 0 /\ (r <=> b.state = "RUNNING")
      /\ ~Over(b) /\ a.state # "STOPPED" => e = k.elapsed /\ (r <=> k.repeated)
    BY DEF Over
<1>3. e \in 0..Horizon /\ n \in 0..MaxRounds
    BY HorizonIs, BoundsAssumption DEF KidType, UpTo
<1>4. r \in BOOLEAN
    BY DEF KidType
<1> HIDE DEF begins, e, r, n
<1>5. /\ KidSeen(k, a, b) \in KidType
      /\ KidSeen(k, a, b).elapsed = e /\ KidSeen(k, a, b).repeated = r
    BY <1>1, <1>3, <1>4 DEF KidType
<1> QED
    BY <1>2, <1>4, <1>5

(* A new child. *)
LEMMA FreshIs ==
    ASSUME NEW d \in Durations
    PROVE  LET a == Start(Fresh(d, 0))
           IN  KidOK(a) /\ a.state = "READY" /\ InTime(NewKid, a)
<1> DEFINE f == Fresh(d, 0)
<1>1. /\ f \in AnimationType /\ f.duration = d /\ f.direction = "FORWARD" /\ f.loopcount = 1
      /\ f.keepalive = TRUE /\ f.state = "STOPPED" /\ f.lasttime = 0
    BY HorizonIs DEF Fresh, AnimationType, States, Directions, Many
<1> HIDE DEF f
<1>2. /\ Start(f) \in AnimationType /\ SameLine(f, Start(f)) /\ Start(f).state = "READY"
      /\ Start(f).currenttime = 0
    BY <1>1, StartIs DEF StartTime
<1>3. 0 <= d
    BY HorizonIs
<1> QED
    BY <1>1, <1>2, <1>3 DEF KidOK, SameLine, InTime, NewKid, f

LEMMA KidStart ==
    ASSUME NEW k \in KidType, NEW a, KidOK(a), InTime(k, a)
    PROVE  /\ KidOK(Start(a)) /\ Start(a).state = "READY"
           /\ InTime(KidSeen(k, a, Start(a)), Start(a))
<1> DEFINE b == Start(a)
<1>1. /\ a \in AnimationType /\ a.duration \in Nat /\ 0 <= a.duration
    BY HorizonIs DEF KidOK
<1>2. b \in AnimationType /\ SameLine(a, b) /\ b.state = "READY"
    BY <1>1, StartIs
<1>3. a.state = "STOPPED" => b.currenttime = 0
    BY <1>1, StartIs DEF KidOK, StartTime
<1>4. a.state # "STOPPED" => b.currenttime = a.currenttime
    BY <1>1, StartIs
<1>5. KidOK(b)
    BY <1>1, <1>2, <1>3, <1>4 DEF KidOK, SameLine
<1>6. ~Over(b)
    BY <1>2 DEF Over
<1>7. InTime(KidSeen(k, a, b), b)
    <2>1. CASE a.state = "STOPPED"
        BY <1>2, <1>3, <1>6, <2>1, KidSeenIs DEF InTime
    <2>2. CASE a.state # "STOPPED"
        <3>1. ~Over(a)
            BY <2>2 DEF KidOK, Over
        <3> QED
            BY <1>2, <1>4, <1>6, <2>2, <3>1, KidSeenIs DEF InTime
    <2> QED
        BY <2>1, <2>2
<1> QED
    BY <1>2, <1>5, <1>7

(* A change of state that neither begins nor ends anything. *)
LEMMA KidKept ==
    ASSUME NEW k \in KidType, NEW a, NEW b, KidOK(a), InTime(k, a),
           b \in AnimationType, SameLine(a, b), b.currenttime = a.currenttime,
           \/ b.state = a.state
           \/ b.state = "STOPPED"
           \/ a.state # "STOPPED" /\ b.state \in {"PAUSED", "READY"}
    PROVE  KidOK(b) /\ InTime(KidSeen(k, a, b), b)
<1>1. KidOK(b)
    BY DEF KidOK, SameLine
<1>2. CASE Over(b)
    BY <1>1, <1>2 DEF InTime
<1>3. CASE ~Over(b)
    <2>1. ~Over(a) /\ a.state # "STOPPED"
        BY <1>3 DEF Over, KidOK
    <2> QED
        BY <1>1, <1>3, <2>1, KidSeenIs DEF InTime, SameLine
<1> QED
    BY <1>2, <1>3

LEMMA KidCalled ==
    ASSUME NEW k \in KidType, NEW a, KidOK(a), InTime(k, a),
           NEW b \in {Paused(a), Resume(a), Stop(a)}
    PROVE  KidOK(b) /\ InTime(KidSeen(k, a, b), b)
<1>1. a \in AnimationType
    BY DEF KidOK
<1>2. CASE b = Paused(a)
    BY <1>1, <1>2, PausedIs, KidKept
<1>3. CASE b = Resume(a)
    BY <1>1, <1>3, ResumeIs, KidKept
<1>4. CASE b = Stop(a)
    <2>1. CASE a.state = "STOPPED"
        BY <1>1, <1>4, <2>1, StopIs, KidKept DEF SameLine
    <2>2. CASE a.state # "STOPPED"
        <3>1. b = Ended(a)
            BY <1>1, <1>4, <2>2, StopIs
        <3> QED
            BY <1>1, <3>1, EndedIs, KidKept DEF KidOK
    <2> QED
        BY <2>1, <2>2
<1> QED
    BY <1>2, <1>3, <1>4

(* The end of an update: the child has come to its end, or goes on.        *)
LEMMA KidEnd ==
    ASSUME NEW k \in KidType, NEW a, KidOK(a), InTime(k, a), NEW t \in Int
    PROVE  /\ KidOK(EndUpdate(a, t)) /\ InTime(KidSeen(k, a, EndUpdate(a, t)), EndUpdate(a, t))
           /\ EndUpdate(a, t) = a \/ EndUpdate(a, t).state = "STOPPED"
<1>1. a \in AnimationType
    BY DEF KidOK
<1>2. CASE EndUpdate(a, t) = a
    BY <1>1, <1>2, KidKept DEF SameLine
<1>3. CASE EndUpdate(a, t) = Ended(a)
    <2>1. Ended(a).state = "STOPPED"
        BY <1>1, EndedIs DEF KidOK
    <2> QED
        BY <1>1, <1>3, <2>1, EndedIs, KidKept
<1> QED
    BY <1>1, <1>2, <1>3, EndUpdateIs

(* A child that is started in its turn. *)
LEMMA KidBegin ==
    ASSUME NEW k \in KidType, NEW a, KidOK(a), InTime(k, a)
    PROVE  LET b == SetStart(a, 0)
           IN  /\ KidOK(b) /\ InTime(KidSeen(k, a, b), b)
               /\ a.state = "READY" => b.state = "RUNNING"
               /\ a.state # "READY" => b = a
<1> DEFINE b == SetStart(a, 0)
<1>1. a \in AnimationType
    BY DEF KidOK
<1>2. CASE a.state # "READY"
    <2>1. b = a
        BY <1>2 DEF SetStart
    <2> QED
        BY <1>1, <1>2, <2>1, KidKept DEF SameLine
<1>3. CASE a.state = "READY"
    <2>1. /\ b \in AnimationType /\ b.state = "RUNNING" /\ b.lasttime = 0
          /\ b.direction = a.direction /\ b.keepalive = a.keepalive
          /\ b.duration = a.duration /\ b.loopcount = a.loopcount
          /\ b.currenttime = a.currenttime
        BY <1>1, <1>3, SetStartIs
    <2>2. /\ KidSeen(k, a, b).elapsed = k.elapsed /\ (KidSeen(k, a, b).repeated <=> k.repeated)
          /\ k.elapsed \in Int /\ ~Over(a) /\ ~Over(b)
        BY <1>3, <2>1, KidSeenIs DEF Over, KidType
    <2> HIDE DEF b
    <2>3. KidOK(b)
        BY <2>1 DEF KidOK
    <2>4. InTime(KidSeen(k, a, b), b)
        BY <1>3, <2>1, <2>2 DEF InTime
    <2> QED
        BY <1>3, <2>1, <2>3, <2>4 DEF b
<1> QED
    BY <1>2, <1>3

(* And updated, with the time at which the pass began. *)
LEMMA KidAdvance ==
    ASSUME NEW k \in KidType, NEW a, KidOK(a), InTime(k, a), Active(a), NEW l \in Nat
    PROVE  LET b == Advance(SetStart(a, 0), -l)
           IN  /\ KidOK(b) /\ InTime(KidSeen(k, a, b), b) /\ b.state = "RUNNING"
               /\ TotalTime(b) \in Nat
<1> DEFINE c == SetStart(a, 0)
           b == Advance(c, -l)
<1>1. /\ a \in AnimationType /\ a.duration \in Nat /\ a.duration <= Horizon /\ Horizon \in Nat
      /\ a.loopcount = 1 /\ a.direction = "FORWARD" /\ a.keepalive = TRUE /\ a.duration \in Durations
      /\ a.lasttime <= 0
    BY HorizonIs DEF KidOK
<1>2. /\ c \in AnimationType /\ c.state = "RUNNING"
      /\ c.direction = a.direction /\ c.keepalive = a.keepalive
      /\ c.duration = a.duration /\ c.loopcount = a.loopcount /\ c.currenttime = a.currenttime
      /\ c.lasttime = IF a.state = "READY" THEN 0 ELSE a.lasttime
    <2>1. CASE a.state = "READY"
        BY <1>1, <2>1, SetStartIs
    <2>2. CASE a.state = "RUNNING"
        BY <1>1, <2>2 DEF SetStart
    <2> QED
        BY <2>1, <2>2 DEF Active
<1> HIDE DEF c
<1>3. /\ b \in AnimationType /\ b.state = "RUNNING" /\ b.lasttime = -l
      /\ b.direction = a.direction /\ b.keepalive = a.keepalive
      /\ b.duration = a.duration /\ b.loopcount = a.loopcount
      /\ b.currenttime = Clamp(c, c.currenttime + Delta(c, -l))
    BY <1>2, AdvanceIs
<1> HIDE DEF b
<1>4. TotalTime(c) = a.duration /\ TotalTime(b) = a.duration
    BY <1>1, <1>2, <1>3 DEF TotalTime
<1> DEFINE x == a.currenttime + (-l - c.lasttime)
<1>5. b.currenttime = IF x > a.duration THEN a.duration ELSE x
    <2>1. Delta(c, -l) = -l - c.lasttime
        BY <1>1, <1>2 DEF Delta
    <2> QED
        BY <1>1, <1>2, <1>3, <1>4, <2>1 DEF Clamp, INFINITE
<1>6. KidOK(b)
    <2>1. a.currenttime \in Int /\ c.lasttime \in Int
        BY <1>1, <1>2 DEF AnimationType
    <2>2. b.currenttime <= a.duration
        BY <1>1, <1>5, <2>1
    <2> QED
        BY <1>1, <1>3, <2>2 DEF KidOK
<1>7. /\ KidSeen(k, a, b).elapsed = k.elapsed /\ (KidSeen(k, a, b).repeated <=> k.repeated)
      /\ k.elapsed \in Int /\ ~Over(a) /\ ~Over(b)
    BY <1>3, KidSeenIs DEF Over, KidType, Active
<1>8. InTime(KidSeen(k, a, b), b)
    <2> SUFFICES ASSUME Steady, ~k.repeated
                 PROVE  b.currenttime <= k.elapsed /\ (b.currenttime <= k.elapsed - l \/ k.elapsed = Horizon)
        BY <1>3, <1>7 DEF InTime
    <2>1. /\ a.currenttime <= k.elapsed
          /\ a.state = "RUNNING" => a.currenttime <= k.elapsed + a.lasttime \/ k.elapsed = Horizon
        BY <1>7 DEF InTime
    <2>2. a.currenttime \in Int /\ c.lasttime \in Int
        BY <1>1, <1>2 DEF AnimationType
    <2>3. x <= k.elapsed - l \/ k.elapsed = Horizon
        BY <1>2, <1>7, <2>1, <2>2 DEF Active
    <2> HIDE DEF x
    <2>4. x \in Int
        BY <2>2 DEF x
    <2>5. k.elapsed = Horizon => b.currenttime <= k.elapsed
        BY <1>1, <1>5, <2>4
    <2>6. x <= k.elapsed - l => b.currenttime <= k.elapsed - l
        BY <1>1, <1>5, <1>7, <2>4
    <2>7. b.currenttime \in Int
        BY <1>3 DEF AnimationType
    <2> QED
        BY <1>7, <2>3, <2>5, <2>6, <2>7
<1> QED
    BY <1>1, <1>3, <1>4, <1>6, <1>8 DEF b, c

(* A child that a repetition of the group begins again. *)
LEMMA KidRepeat ==
    ASSUME NEW k \in KidType, NEW a, KidOK(a), InTime(k, a), Steady => Over(a)
    PROVE  LET b == Repeated(a)
           IN  /\ KidOK(b) /\ InTime(KidSeen(k, a, b), b)
               /\ kind # "PARALLEL" /\ a.state # "RUNNING" => b.state = "READY"
               /\ b.state \in {"READY", "RUNNING"}
<1> DEFINE s == Restart(a)
           b == Repeated(a)
<1>1. /\ KidOK(s) /\ s.state \in {"READY", "RUNNING"}
      /\ a.state # "RUNNING" => s.state = "READY"
      /\ Over(a) => s.currenttime = 0 /\ a.state = "STOPPED"
    <2>1. CASE a.state = "RUNNING"
        BY <2>1 DEF Restart, Over
    <2>2. CASE a.state # "RUNNING"
        <3>1. s = Start(a) /\ a \in AnimationType
            BY <2>2 DEF Restart, KidOK
        <3>2. Over(a) => a.state = "STOPPED" /\ StartTime(a) = 0
            BY DEF Over, KidOK, StartTime
        <3> QED
            BY <2>2, <3>1, <3>2, KidStart, StartIs
    <2> QED
        BY <2>1, <2>2
<1>2. b = IF kind = "PARALLEL" THEN SetState(s, "RUNNING") ELSE s
    BY DEF Repeated
<1> HIDE DEF s
<1>3. /\ b \in AnimationType /\ SameLine(s, b) /\ b.currenttime = s.currenttime
      /\ b.state = IF kind = "PARALLEL" THEN "RUNNING" ELSE s.state
    <2>1. s \in AnimationType
        BY <1>1 DEF KidOK
    <2> QED
        BY <1>1, <1>2, <2>1, GoesOn DEF SameLine, States
<1> HIDE DEF b
<1>4. KidOK(b)
    BY <1>1, <1>3 DEF KidOK, SameLine
<1>5. InTime(KidSeen(k, a, b), b)
    <2> SUFFICES ASSUME Steady
                 PROVE  InTime(KidSeen(k, a, b), b)
        BY DEF InTime
    <2>1. a.state = "STOPPED" /\ ~Over(b) /\ b.currenttime = 0
        BY <1>1, <1>3 DEF Over
    <2>2. /\ KidSeen(k, a, b).elapsed = 0 /\ (KidSeen(k, a, b).repeated <=> b.state = "RUNNING")
        BY <2>1, KidSeenIs
    <2> QED
        BY <2>1, <2>2 DEF InTime
<1> QED
    BY <1>1, <1>3, <1>4, <1>5 DEF b

(* A tick of the clock, and of the stopwatch of a child that is RUNNING.   *)
LEMMA KidTick ==
    ASSUME NEW k \in KidType, NEW a, KidOK(a), InTime(k, a)
    PROVE  LET j == Watched(k, a)
           IN  /\ j \in KidType /\ KidOK(Older(a)) /\ InTime(j, Older(a))
               /\ Older(a).state = a.state
<1> DEFINE t == IF a.lasttime > -Horizon THEN a.lasttime - 1 ELSE a.lasttime
           e == IF a.state = "RUNNING" THEN UpTo(k.elapsed + 1, Horizon) ELSE k.elapsed
           b == Older(a)
           j == [k EXCEPT !.elapsed = e]
<1>1. a \in AnimationType /\ a.lasttime \in Int /\ Horizon \in Nat /\ k.elapsed \in 0..Horizon
    BY HorizonIs DEF KidOK, AnimationType, KidType
<1>2. t \in Int /\ t <= a.lasttime /\ t >= a.lasttime - 1
    BY <1>1
<1>3. /\ e \in 0..Horizon /\ e >= k.elapsed
      /\ a.state = "RUNNING" => e = Horizon \/ e = k.elapsed + 1
      /\ a.state # "RUNNING" => e = k.elapsed
    BY <1>1 DEF UpTo
<1>4. b = [a EXCEPT !.lasttime = t]
    BY <1>1 DEF Older, AnimationType
<1> HIDE DEF t, e
<1>5. j \in KidType /\ j.elapsed = e /\ j.repeated = k.repeated
    BY <1>3 DEF KidType
<1>6. /\ b \in AnimationType /\ b.lasttime = t /\ b.state = a.state /\ b.direction = a.direction
      /\ b.keepalive = a.keepalive /\ b.duration = a.duration /\ b.loopcount = a.loopcount
      /\ b.currenttime = a.currenttime
    BY <1>1, <1>2, <1>4 DEF AnimationType
<1> HIDE DEF b, j
<1>7. KidOK(b)
    BY <1>1, <1>2, <1>6 DEF KidOK
<1>8. InTime(j, b)
    <2> SUFFICES ASSUME Steady, ~Over(a), ~k.repeated
                 PROVE  /\ a.currenttime <= e
                        /\ a.state = "RUNNING" => a.currenttime <= e + t \/ e = Horizon
        BY <1>5, <1>6 DEF InTime, Over
    <2>1. a.currenttime \in Int
        BY <1>1 DEF AnimationType
    <2>2. /\ a.currenttime <= k.elapsed
          /\ a.state = "RUNNING" => a.currenttime <= k.elapsed + a.lasttime \/ k.elapsed = Horizon
        BY DEF InTime
    <2> QED
        BY <1>1, <1>2, <1>3, <2>1, <2>2
<1> QED
    BY <1>5, <1>6, <1>7, <1>8 DEF b, j, e, Watched

-----------------------------------------------------------------------------
(***************************************************************************)
(* All children.                                                           *)
(***************************************************************************)
LEMMA IsSequence ==
    ASSUME NEW S, NEW n \in Nat, NEW f \in [1..n -> S]
    PROVE  f \in Seq(S) /\ Len(f) = n
OBVIOUS

LEMMA FromSequence ==
    ASSUME NEW S, NEW s \in Seq(S)
    PROVE  Len(s) \in Nat /\ DOMAIN s = 1..Len(s) /\ s \in [1..Len(s) -> S]
OBVIOUS

SeenType == [kids : [Kids -> KidType], asked : Int, even : BOOLEAN]

GTyped ==
    /\ kind \in Kinds
    /\ grp \in AnimationType /\ grp.keepalive = TRUE /\ grp.state # "REMOVE"
    /\ kids \in Seq(AnimationType) /\ Len(kids) <= MaxKids
    /\ listed \in BOOLEAN /\ found \in BOOLEAN
    /\ calls \in 0..MaxCalls
    /\ lag \in 0..MaxLag
    /\ pc \in {"idle", "scan", "show", "report"}
    /\ pos \in 1..(MaxKids + 1)
    /\ pc \in {"show", "report"} => pos \in Kids
    /\ total \in Nat
    /\ seen \in SeenType

(* Every child is in time. *)
AllInTime == \A i \in Kids : KidOK(kids[i]) /\ InTime(seen.kids[i], kids[i])

LEMMA KidsAre ==
    ASSUME GTyped
    PROVE  /\ Len(kids) \in Nat /\ Kids = 1..Len(kids) /\ kids \in [Kids -> AnimationType]
           /\ seen.kids \in [Kids -> KidType] /\ seen.asked \in Int /\ seen.even \in BOOLEAN
<1>1. kids \in Seq(AnimationType) /\ Len(kids) <= MaxKids /\ seen \in SeenType
    BY DEF GTyped
<1>2. Len(kids) \in Nat /\ DOMAIN kids = 1..Len(kids) /\ kids \in [1..Len(kids) -> AnimationType]
    BY <1>1, FromSequence
<1> QED
    BY <1>1, <1>2, BoundsAssumption DEF Kids, SeenType

(* The children become others, in number and order the same. *)
LEMMA Becomes ==
    ASSUME GTyped, NEW new, new \in [Kids -> AnimationType], kids' = new
    PROVE  /\ kids' \in Seq(AnimationType) /\ Len(kids') = Len(kids) /\ Kids' = Kids
           /\ \A i \in Kids : kids'[i] = new[i]
<1>1. Len(kids) \in Nat /\ Kids = 1..Len(kids)
    BY KidsAre
<1>2. new \in Seq(AnimationType) /\ Len(new) = Len(kids) /\ DOMAIN new = Kids
    BY <1>1, IsSequence
<1> QED
    BY <1>2 DEF Kids

LEMMA BecomesSeen ==
    ASSUME GTyped, NEW new, new \in [Kids -> AnimationType], NEW even \in BOOLEAN,
           KidsBecome(new, even)
    PROVE  /\ kids' = new /\ seen' \in [kids : [Kids -> KidType], asked : Int, even : BOOLEAN]
           /\ \A i \in Kids : \E n \in 0..MaxRounds :
                 seen'.kids[i] = [KidSeen(seen.kids[i], kids[i], new[i]) EXCEPT !.ended = n]
<1>1. /\ seen \in SeenType /\ seen.kids \in [Kids -> KidType]
      /\ \A i \in Kids : seen.kids[i] \in KidType
    BY KidsAre DEF GTyped
<1> DEFINE f == [i \in Kids |-> KidSeen(seen.kids[i], kids[i], new[i])]
           g == [i \in Kids |-> [KidsSeen(new)[i] EXCEPT !.ended = 0]]
<1>2. \A i \in Kids : KidSeen(seen.kids[i], kids[i], new[i]) \in KidType
    BY <1>1, KidSeenIs
<1>3. KidsSeen(new) = f
    BY DEF KidsSeen
<1>4. /\ f \in [Kids -> KidType] /\ g \in [Kids -> KidType]
      /\ \A i \in Kids : f[i] = KidSeen(seen.kids[i], kids[i], new[i])
      /\ \A i \in Kids : g[i] = [KidSeen(seen.kids[i], kids[i], new[i]) EXCEPT !.ended = 0]
    <2>1. \A i \in Kids : f[i] = KidSeen(seen.kids[i], kids[i], new[i])
        OBVIOUS
    <2>2. \A i \in Kids : g[i] = [KidSeen(seen.kids[i], kids[i], new[i]) EXCEPT !.ended = 0]
        BY <1>3, <2>1
    <2>3. \A x \in KidType : [x EXCEPT !.ended = 0] \in KidType
        BY BoundsAssumption DEF KidType
    <2>4. f \in [Kids -> KidType]
        BY <1>2
    <2>5. g \in [Kids -> KidType]
        BY <1>2, <2>2, <2>3
    <2> QED
        BY <2>1, <2>2, <2>4, <2>5
<1>5. kids' = new /\ (seen' = [seen EXCEPT !.kids = f] \/ seen' = [seen EXCEPT !.even = FALSE, !.kids = g])
    BY <1>3 DEF KidsBecome
<1>6. \A i \in Kids : f[i] = [f[i] EXCEPT !.ended = f[i].ended] /\ f[i].ended \in 0..MaxRounds
    BY <1>2, <1>4 DEF KidType
<1> HIDE DEF f, g
<1>7. /\ seen' \in [kids : [Kids -> KidType], asked : Int, even : BOOLEAN]
      /\ seen'.kids = f \/ seen'.kids = g
    BY <1>1, <1>4, <1>5 DEF SeenType
<1>8. ASSUME NEW i \in Kids
      PROVE  \E n \in 0..MaxRounds :
                seen'.kids[i] = [KidSeen(seen.kids[i], kids[i], new[i]) EXCEPT !.ended = n]
    <2>1. CASE seen'.kids = f
        BY <1>4, <1>6, <1>8, <2>1
    <2>2. CASE seen'.kids = g
        BY <1>4, <1>8, <2>2, BoundsAssumption
    <2> QED
        BY <1>7, <2>1, <2>2
<1> QED
    BY <1>5, <1>7, <1>8

(* The number of ends a child has come to does not matter to its time.     *)
LEMMA EndsDoNotMatter ==
    ASSUME NEW k \in KidType, NEW n, NEW a, InTime(k, a)
    PROVE  InTime([k EXCEPT !.ended = n], a)
BY DEF InTime, KidType

(* When each of them stays in time, so do all.                             *)
LEMMA AllBecome ==
    ASSUME GTyped, NEW new, new \in [Kids -> AnimationType], NEW even \in BOOLEAN,
           KidsBecome(new, even),
           \A i \in Kids : KidOK(new[i]) /\ InTime(KidSeen(seen.kids[i], kids[i], new[i]), new[i])
    PROVE  /\ AllInTime' /\ seen' \in SeenType' /\ kids' \in Seq(AnimationType)
           /\ Len(kids') = Len(kids) /\ Kids' = Kids
           /\ \A i \in Kids : kids'[i] = new[i]
<1>1. /\ kids' = new /\ seen' \in [kids : [Kids -> KidType], asked : Int, even : BOOLEAN]
      /\ \A i \in Kids : \E n \in 0..MaxRounds :
            seen'.kids[i] = [KidSeen(seen.kids[i], kids[i], new[i]) EXCEPT !.ended = n]
    BY BecomesSeen
<1>2. /\ kids' \in Seq(AnimationType) /\ Len(kids') = Len(kids) /\ Kids' = Kids
      /\ \A i \in Kids : kids'[i] = new[i]
    BY <1>1, Becomes
<1>3. ASSUME NEW i \in Kids
      PROVE  KidOK(kids'[i]) /\ InTime(seen'.kids[i], kids'[i])
    <2>1. KidSeen(seen.kids[i], kids[i], new[i]) \in KidType
        BY <1>3, KidsAre, KidSeenIs
    <2>2. PICK n \in 0..MaxRounds :
              seen'.kids[i] = [KidSeen(seen.kids[i], kids[i], new[i]) EXCEPT !.ended = n]
        BY <1>1
    <2>3. KidOK(new[i]) /\ InTime(KidSeen(seen.kids[i], kids[i], new[i]), new[i])
        OBVIOUS
    <2>4. InTime(seen'.kids[i], new[i])
        BY <2>1, <2>2, <2>3, EndsDoNotMatter
    <2> QED
        BY <1>2, <2>3, <2>4
<1> QED
    BY <1>1, <1>2, <1>3 DEF AllInTime, SeenType

-----------------------------------------------------------------------------
(***************************************************************************)
(* The group and the scan of its children.  Children are paused only while *)
(* the group is, or after it was stopped, and they run only while it does, *)
(* or after it was stopped.  The children a scan has passed are over, or   *)
(* it has found one that runs.                                             *)
(***************************************************************************)
Together ==
    kind = "SEQUENTIAL" \/ Steady =>
        \A i \in Kids : /\ kids[i].state = "PAUSED" => grp.state \in {"PAUSED", "STOPPED"}
                        /\ kids[i].state = "RUNNING" => grp.state \notin {"PAUSED", "READY"}

Scanning ==
    /\ pc = "idle" => pos = 1 /\ ~found
    /\ kind = "SEQUENTIAL" => ~found /\ (pc = "scan" => grp.state = "RUNNING" /\ pos = 1)
    /\ kind = "PARALLEL" /\ Steady /\ pc # "idle" =>
          /\ grp.state \in {"RUNNING", "STOPPED"}
          /\ \A i \in Kids : /\ kids[i].state # "PAUSED"
                             /\ i < pos /\ ~found => Over(kids[i])
          /\ pc \in {"show", "report"} => kids[pos].state \in {"RUNNING", "STOPPED"}

GInv == GTyped /\ AllInTime /\ Together /\ Scanning /\ InOrder

LEMMA KindIs == GTyped => kind = "PARALLEL" \/ kind = "SEQUENTIAL"
BY KindsAssumption DEF GTyped

(* What is on the way in a pass, and who calls in it.                      *)
LEMMA CallIs ==
    ASSUME NEW call, Enabled(call), GTyped
    PROVE  /\ UNCHANGED <<kind, lag, pc, pos, found, total>>
           /\ calls' \in 0..MaxCalls
           /\ kind = "PARALLEL" /\ Steady /\ call \in {"AsyncRun", "Pause"} => pc = "idle"
<1>1. calls' \in 0..MaxCalls
    BY BoundsAssumption DEF Enabled, GTyped
<1>2. kind = "PARALLEL" /\ Steady /\ call \in {"AsyncRun", "Pause"} => pc = "idle"
    BY DEF Enabled, GTyped, Steady, InCallback
<1> QED
    BY <1>1, <1>2 DEF Enabled

LEMMA GInit == Init => GInv
<1> SUFFICES ASSUME Init
             PROVE  GInv
    OBVIOUS
<1>1. grp \in AnimationType /\ grp.keepalive = TRUE /\ grp.state # "REMOVE"
    BY DEF Init, Fresh, AnimationType, States, Directions, Many
<1>2. kids \in Seq(AnimationType) /\ Len(kids) = 0 /\ Kids = {}
    BY DEF Init, Kids
<1>3. seen \in SeenType
    BY <1>2 DEF Init, SeenType
<1>4. GTyped
    <2>1. /\ kind \in Kinds /\ listed = FALSE /\ found = FALSE /\ calls = 0 /\ lag = 0
          /\ pc = "idle" /\ pos = 1 /\ total = 0
        BY DEF Init
    <2>2. Len(kids) <= MaxKids /\ calls \in 0..MaxCalls /\ lag \in 0..MaxLag /\ pos \in 1..(MaxKids + 1)
        BY <1>2, <2>1, BoundsAssumption
    <2> QED
        BY <1>1, <1>2, <1>3, <2>1, <2>2 DEF GTyped
<1>5. AllInTime /\ Together /\ InOrder
    BY <1>2 DEF AllInTime, Together, InOrder
<1>6. Scanning
    BY DEF Init, Scanning
<1> QED
    BY <1>4, <1>5, <1>6 DEF GInv

(* A call that changes no child: Stop and SetLoopcount.                    *)
LEMMA GroupAlone ==
    ASSUME GInv, NEW call, Enabled(call), kids' = kids, listed' = listed,
           seen' \in SeenType, seen'.kids = seen.kids,
           grp' \in AnimationType, grp'.keepalive = TRUE,
           grp'.state = grp.state \/ (grp'.state = "STOPPED" /\ pc # "scan")
    PROVE  GInv'
<1>1. /\ UNCHANGED <<kind, lag, pc, pos, found, total>> /\ calls' \in 0..MaxCalls
      /\ GTyped /\ Kids' = Kids /\ SeenType' = SeenType
    BY CallIs DEF GInv, Kids, SeenType
<1>2. GTyped'
    BY <1>1 DEF GTyped
<1>3. AllInTime'
    BY <1>1 DEF GInv, AllInTime
<1>4. Together' /\ InOrder'
    BY <1>1 DEF GInv, Together, InOrder
<1>5. Scanning'
    BY <1>1 DEF GInv, Scanning
<1> QED
    BY <1>2, <1>3, <1>4, <1>5 DEF GInv

LEMMA GStop ==
    ASSUME GInv, StopCall
    PROVE  GInv'
<1>1. /\ Enabled("Stop") /\ grp' = Stop(grp) /\ UNCHANGED <<kids, listed, seen>>
    BY DEF StopCall
<1>2. grp \in AnimationType /\ grp.keepalive = TRUE /\ seen \in SeenType
    BY DEF GInv, GTyped
<1>3. /\ grp' \in AnimationType /\ grp'.keepalive = TRUE /\ grp'.state = "STOPPED"
    BY <1>1, <1>2, StopIs, EndedIs DEF SameLine
<1>4. pc # "scan"
    BY <1>1 DEF Enabled, InCallback
<1> QED
    BY <1>1, <1>2, <1>3, <1>4, GroupAlone

LEMMA GSetLoopcount ==
    ASSUME GInv, SetLoopcount
    PROVE  GInv'
<1>1. PICK n \in Loopcounts : /\ grp' = [grp EXCEPT !.loopcount = n]
                              /\ seen' = [seen EXCEPT !.asked = n, !.even = @ /\ Over(grp)]
    BY DEF SetLoopcount
<1>2. n \in Int
    BY ChildrenAssumption DEF INFINITE
<1>3. grp \in AnimationType /\ grp.keepalive = TRUE /\ seen \in SeenType
    BY DEF GInv, GTyped
<1>4. /\ grp' \in AnimationType /\ grp'.keepalive = TRUE /\ grp'.state = grp.state
    BY <1>1, <1>2, <1>3 DEF AnimationType
<1> DEFINE e == seen.even /\ Over(grp)
<1>5. e \in BOOLEAN
    OBVIOUS
<1>6. seen' = [seen EXCEPT !.asked = n, !.even = e]
    BY <1>1, <1>3 DEF SeenType
<1> HIDE DEF e
<1>7. seen' \in SeenType /\ seen'.kids = seen.kids
    BY <1>2, <1>3, <1>5, <1>6 DEF SeenType
<1>8. Enabled("SetLoopcount") /\ UNCHANGED <<kids, listed>>
    BY DEF SetLoopcount
<1> QED
    BY <1>4, <1>7, <1>8, GroupAlone

LEMMA Appended ==
    ASSUME GTyped, NEW a \in AnimationType, NEW k \in KidType
    PROVE  /\ Append(kids, a) \in Seq(AnimationType) /\ Len(Append(kids, a)) = Len(kids) + 1
           /\ DOMAIN Append(kids, a) = Kids \cup {Len(kids) + 1} /\ Len(kids) + 1 \notin Kids
           /\ \A i \in Kids : i < Len(kids) + 1 /\ Append(kids, a)[i] = kids[i]
           /\ Append(kids, a)[Len(kids) + 1] = a
           /\ Append(seen.kids, k) \in [Kids \cup {Len(kids) + 1} -> KidType]
           /\ \A i \in Kids : Append(seen.kids, k)[i] = seen.kids[i]
           /\ Append(seen.kids, k)[Len(kids) + 1] = k
<1>1. Len(kids) \in Nat /\ Kids = 1..Len(kids) /\ kids \in Seq(AnimationType)
    BY KidsAre DEF GTyped
<1> DEFINE n == Len(kids)
           f == seen.kids
<1>2. f \in Seq(KidType) /\ Len(f) = n
    BY <1>1, KidsAre, IsSequence
<1>3. /\ Append(kids, a) \in Seq(AnimationType) /\ Len(Append(kids, a)) = n + 1
      /\ \A i \in 1..n : Append(kids, a)[i] = kids[i]
      /\ Append(kids, a)[n + 1] = a
    BY <1>1
<1> HIDE DEF f
<1>4. /\ Append(f, k) \in Seq(KidType) /\ Len(Append(f, k)) = n + 1
      /\ \A i \in 1..n : Append(f, k)[i] = f[i]
      /\ Append(f, k)[n + 1] = k
    BY <1>1, <1>2
<1>5. DOMAIN Append(kids, a) = 1..(n + 1) /\ Append(f, k) \in [1..(n + 1) -> KidType]
    BY <1>3, <1>4, FromSequence
<1>6. 1..(n + 1) = Kids \cup {n + 1} /\ n + 1 \notin Kids /\ \A i \in Kids : i < n + 1
    BY <1>1
<1> QED
    BY <1>1, <1>3, <1>4, <1>5, <1>6 DEF f

LEMMA GAdd ==
    ASSUME GInv, AddToGroup
    PROVE  GInv'
<1> DEFINE m == Len(kids) + 1
<1>1. GTyped /\ seen \in SeenType /\ Len(kids) \in Nat /\ MaxKids \in Nat
    BY KidsAre, BoundsAssumption DEF GInv, GTyped
<1>2. /\ Enabled("AddToGroup") /\ Len(kids) < MaxKids /\ UNCHANGED <<grp, listed>>
      /\ seen' = [seen EXCEPT !.kids = Append(@, NewKid), !.even = @ /\ Over(grp)]
    BY DEF AddToGroup
<1>3. PICK d \in Durations : kids' = Append(kids, Start(Fresh(d, 0)))
    BY DEF AddToGroup
<1> DEFINE a == Start(Fresh(d, 0))
<1>4. KidOK(a) /\ a.state = "READY" /\ InTime(NewKid, a) /\ a \in AnimationType
    BY FreshIs DEF KidOK
<1>5. NewKid \in KidType
    BY HorizonIs, BoundsAssumption DEF NewKid, KidType
<1> HIDE DEF a
<1>6. kids' = Append(kids, a)
    BY <1>3 DEF a
<1>7. /\ kids' \in Seq(AnimationType) /\ Len(kids') = m /\ Kids' = Kids \cup {m} /\ m \notin Kids
      /\ \A i \in Kids : i < m /\ kids'[i] = kids[i]
      /\ kids'[m] = a
    BY <1>1, <1>4, <1>5, <1>6, Appended DEF Kids
<1> DEFINE e == seen.even /\ Over(grp)
           f == Append(seen.kids, NewKid)
<1>8. e \in BOOLEAN /\ seen' = [seen EXCEPT !.kids = f, !.even = e]
    BY <1>1, <1>2 DEF SeenType
<1>9. f \in [Kids' -> KidType] /\ (\A i \in Kids : f[i] = seen.kids[i]) /\ f[m] = NewKid
    BY <1>1, <1>4, <1>5, <1>7, Appended
<1> HIDE DEF e, f
<1>10. seen' \in SeenType' /\ seen'.kids = f
    BY <1>1, <1>8, <1>9 DEF SeenType
<1>11. /\ UNCHANGED <<kind, lag, pc, pos, found, total>> /\ calls' \in 0..MaxCalls
    BY <1>1, <1>2, CallIs
<1>12. GTyped'
    <2>1. Len(kids') <= MaxKids
        BY <1>1, <1>2, <1>7
    <2> QED
        BY <1>1, <1>2, <1>7, <1>10, <1>11, <2>1 DEF GTyped
<1>13. AllInTime'
    BY <1>4, <1>7, <1>9, <1>10 DEF GInv, AllInTime
<1>14. Together'
    BY <1>2, <1>4, <1>7, <1>11 DEF GInv, Together
<1>15. Scanning'
    <2>1. pc # "idle" /\ kind = "PARALLEL" /\ Steady => ~found \/ found
        OBVIOUS
    <2>2. pos \in Kids => kids'[pos] = kids[pos]
        BY <1>7
    <2>3. pc # "scan"
        BY <1>2 DEF Enabled, InCallback
    <2>4. pc \in {"show", "report"} => pos \in Kids /\ pos < m
        BY <1>1, <1>7 DEF GTyped
    <2>5. pc \in {"idle", "show", "report"}
        BY <1>1, <2>3 DEF GTyped
    <2>6. m \in Int /\ pos \in Int
        BY <1>1 DEF GTyped
    <2>7. ASSUME kind = "PARALLEL", Steady, pc # "idle", NEW i \in Kids'
          PROVE  kids'[i].state # "PAUSED" /\ (i < pos /\ ~found => Over(kids'[i]))
        <3>1. CASE i = m
            BY <1>4, <1>7, <2>4, <2>5, <2>6, <2>7, <3>1
        <3>2. CASE i \in Kids
            BY <1>7, <2>7, <3>2 DEF GInv, Scanning
        <3> QED
            BY <1>7, <3>1, <3>2
    <2> QED
        BY <1>2, <1>11, <2>2, <2>3, <2>4, <2>7 DEF GInv, Scanning
<1>16. InOrder'
    <2> SUFFICES ASSUME kind = "SEQUENTIAL", NEW i \in Kids', NEW j \in Kids', i < j,
                        kids'[j].state \in {"RUNNING", "PAUSED"}
                 PROVE  Over(kids'[i])
        BY <1>11 DEF InOrder
    <2>1. j \in Kids
        BY <1>4, <1>7
    <2>2. i \in Kids
        <3>1. j \in Int /\ m \in Int /\ j < m
            BY <1>1, <1>7, <2>1, KidsAre
        <3> QED
            BY <1>7, <3>1
    <2> QED
        BY <1>7, <2>1, <2>2 DEF GInv, InOrder
<1> QED
    BY <1>12, <1>13, <1>14, <1>15, <1>16 DEF GInv

(* A call that changes the children's states.  Together and Scanning are   *)
(* left to the calls.                                                      *)
LEMMA CallBecomes ==
    ASSUME GInv, NEW call, Enabled(call), NEW new, new \in [Kids -> AnimationType],
           NEW even \in BOOLEAN, KidsBecome(new, even), listed' \in BOOLEAN,
           \A i \in Kids : KidOK(new[i]) /\ InTime(KidSeen(seen.kids[i], kids[i], new[i]), new[i]),
           grp' \in AnimationType, grp'.keepalive = TRUE, grp'.state # "REMOVE"
    PROVE  /\ GTyped' /\ AllInTime' /\ Kids' = Kids /\ \A i \in Kids : kids'[i] = new[i]
           /\ UNCHANGED <<kind, lag, pc, pos, found, total>>
<1>1. /\ GTyped /\ AllInTime' /\ seen' \in SeenType' /\ kids' \in Seq(AnimationType)
      /\ Len(kids') = Len(kids) /\ Kids' = Kids /\ \A i \in Kids : kids'[i] = new[i]
    BY AllBecome DEF GInv
<1>2. UNCHANGED <<kind, lag, pc, pos, found, total>> /\ calls' \in 0..MaxCalls
    BY <1>1, CallIs
<1>3. GTyped'
    BY <1>1, <1>2 DEF GTyped
<1> QED
    BY <1>1, <1>2, <1>3

LEMMA KidAt ==
    ASSUME GInv, NEW i \in Kids
    PROVE  /\ KidOK(kids[i]) /\ InTime(seen.kids[i], kids[i]) /\ kids[i] \in AnimationType
           /\ seen.kids[i] \in KidType
BY KidsAre DEF GInv, AllInTime

LEMMA GPause ==
    ASSUME GInv, Pause
    PROVE  GInv'
<1> DEFINE new == [i \in Kids |-> Paused(kids[i])]
<1>1. /\ Enabled("Pause") /\ grp.state # "PAUSED" /\ grp' = Paused(grp) /\ listed' = listed
      /\ KidsBecome(new, TRUE)
    BY DEF Pause
<1>2. grp \in AnimationType /\ grp.keepalive = TRUE /\ grp.state # "REMOVE" /\ listed \in BOOLEAN /\ GTyped
    BY DEF GInv, GTyped
<1>3. /\ grp' \in AnimationType /\ grp'.keepalive = TRUE
      /\ grp.state = "RUNNING" => grp'.state = "PAUSED"
      /\ grp.state # "RUNNING" => grp'.state = grp.state
    BY <1>1, <1>2, PausedIs DEF SameLine
<1>4. ASSUME NEW i \in Kids
      PROVE  /\ KidOK(new[i]) /\ InTime(KidSeen(seen.kids[i], kids[i], new[i]), new[i])
             /\ new[i] \in AnimationType
             /\ kids[i].state = "RUNNING" => new[i].state = "PAUSED"
             /\ kids[i].state # "RUNNING" => new[i].state = kids[i].state
    BY <1>4, KidAt, KidCalled, PausedIs
<1>5. new \in [Kids -> AnimationType]
    BY <1>4
<1> HIDE DEF new
<1>6. /\ GTyped' /\ AllInTime' /\ Kids' = Kids /\ \A i \in Kids : kids'[i] = new[i]
      /\ UNCHANGED <<kind, lag, pc, pos, found, total>>
    BY <1>1, <1>2, <1>3, <1>4, <1>5, CallBecomes
<1>7. Together'
    <2> SUFFICES ASSUME kind = "SEQUENTIAL" \/ Steady, NEW i \in Kids
                 PROVE  /\ kids'[i].state = "PAUSED" => grp'.state \in {"PAUSED", "STOPPED"}
                        /\ kids'[i].state = "RUNNING" => grp'.state \notin {"PAUSED", "READY"}
        BY <1>6 DEF Together
    <2>1. /\ kids[i].state = "PAUSED" => grp.state \in {"PAUSED", "STOPPED"}
          /\ kids[i].state = "RUNNING" => grp.state \notin {"PAUSED", "READY"}
        BY DEF GInv, Together
    <2>2. grp.state \in States
        BY <1>2 DEF AnimationType
    <2> QED
        BY <1>2, <1>3, <1>4, <1>6, <2>1, <2>2 DEF States
<1>8. Scanning'
    <2>1. kind = "PARALLEL" /\ Steady => pc = "idle"
        BY <1>1, <1>2, CallIs
    <2>2. pc # "scan"
        BY <1>1 DEF Enabled, InCallback
    <2> QED
        BY <1>6, <2>1, <2>2 DEF GInv, Scanning
<1>9. InOrder'
    <2> SUFFICES ASSUME kind = "SEQUENTIAL", NEW i \in Kids, NEW j \in Kids, i < j,
                        kids'[j].state \in {"RUNNING", "PAUSED"}
                 PROVE  Over(kids'[i])
        BY <1>6 DEF InOrder
    <2>1. kids[j].state \in {"RUNNING", "PAUSED"}
        BY <1>4, <1>6
    <2>2. Over(kids[i])
        BY <2>1 DEF GInv, InOrder
    <2> QED
        BY <1>4, <1>6, <2>2 DEF Over
<1> QED
    BY <1>6, <1>7, <1>8, <1>9 DEF GInv

LEMMA GResume ==
    ASSUME GInv, ResumeCall
    PROVE  GInv'
<1> DEFINE new == [i \in Kids |-> Resume(kids[i])]
<1>1. /\ Enabled("Resume") /\ grp.state = "PAUSED" /\ grp' = Resume(grp) /\ listed' = listed
      /\ KidsBecome(new, TRUE)
    BY DEF ResumeCall
<1>2. grp \in AnimationType /\ grp.keepalive = TRUE /\ listed \in BOOLEAN /\ GTyped
    BY DEF GInv, GTyped
<1>3. grp' \in AnimationType /\ grp'.keepalive = TRUE /\ grp'.state = "READY"
    BY <1>1, <1>2, ResumeIs DEF SameLine
<1>4. ASSUME NEW i \in Kids
      PROVE  /\ KidOK(new[i]) /\ InTime(KidSeen(seen.kids[i], kids[i], new[i]), new[i])
             /\ new[i] \in AnimationType
             /\ kids[i].state = "PAUSED" => new[i].state = "READY"
             /\ kids[i].state # "PAUSED" => new[i].state = kids[i].state
    BY <1>4, KidAt, KidCalled, ResumeIs
<1>5. new \in [Kids -> AnimationType]
    BY <1>4
<1> HIDE DEF new
<1>6. /\ GTyped' /\ AllInTime' /\ Kids' = Kids /\ \A i \in Kids : kids'[i] = new[i]
      /\ UNCHANGED <<kind, lag, pc, pos, found, total>>
    BY <1>1, <1>2, <1>3, <1>4, <1>5, CallBecomes
<1>7. Together'
    <2> SUFFICES ASSUME kind = "SEQUENTIAL" \/ Steady, NEW i \in Kids
                 PROVE  kids'[i].state \notin {"PAUSED", "RUNNING"}
        BY <1>6 DEF Together
    <2>1. kids[i].state # "RUNNING"
        BY <1>1 DEF GInv, Together
    <2> QED
        BY <1>4, <1>6, <2>1
<1>8. Scanning'
    <2>1. kind = "PARALLEL" /\ Steady => pc = "idle"
        BY <1>1, <1>2 DEF GInv, Scanning
    <2>2. pc # "scan"
        BY <1>1 DEF Enabled, InCallback
    <2> QED
        BY <1>6, <2>1, <2>2 DEF GInv, Scanning
<1>9. InOrder'
    <2> SUFFICES ASSUME kind = "SEQUENTIAL", NEW i \in Kids, NEW j \in Kids, i < j,
                        kids'[j].state \in {"RUNNING", "PAUSED"}
                 PROVE  Over(kids'[i])
        BY <1>6 DEF InOrder
    <2>1. kids[j].state \in {"RUNNING", "PAUSED"}
        BY <1>4, <1>6
    <2>2. Over(kids[i])
        BY <2>1 DEF GInv, InOrder
    <2> QED
        BY <1>4, <1>6, <2>2 DEF Over
<1> QED
    BY <1>6, <1>7, <1>8, <1>9 DEF GInv

LEMMA GStopKid ==
    ASSUME GInv, StopKid
    PROVE  GInv'
<1>1. Enabled("StopKid") /\ UNCHANGED <<grp, listed>>
    BY DEF StopKid
<1>2. PICK s \in Kids : KidsBecome([kids EXCEPT ![s] = Stop(@)], FALSE)
    BY DEF StopKid
<1> DEFINE new == [kids EXCEPT ![s] = Stop(@)]
<1>3. grp \in AnimationType /\ grp.keepalive = TRUE /\ grp.state # "REMOVE" /\ listed \in BOOLEAN /\ GTyped
    BY DEF GInv, GTyped
<1>4. ASSUME NEW i \in Kids
      PROVE  /\ KidOK(new[i]) /\ InTime(KidSeen(seen.kids[i], kids[i], new[i]), new[i])
             /\ new[i] \in AnimationType
             /\ new[i].state = kids[i].state \/ new[i].state = "STOPPED"
    <2>0. kids \in [Kids -> AnimationType]
        BY <1>3, KidsAre
    <2>1. CASE i # s
        <3>1. new[i] = kids[i]
            BY <2>0, <2>1
        <3> QED
            BY <1>4, <3>1, KidAt, KidKept DEF SameLine
    <2>2. CASE i = s
        <3>1. new[i] = Stop(kids[i])
            BY <1>4, <2>0, <2>2
        <3>2. new[i] \in AnimationType /\ (new[i].state = kids[i].state \/ new[i].state = "STOPPED")
            <4>1. kids[i].state = "STOPPED" => new[i] = kids[i]
                BY <1>4, <3>1, KidAt, StopIs
            <4>2. kids[i].state # "STOPPED" => new[i] = Ended(kids[i])
                BY <1>4, <3>1, KidAt, StopIs
            <4>3. kids[i] \in AnimationType /\ kids[i].keepalive = TRUE
                BY <1>4, KidAt DEF KidOK
            <4>4. Ended(kids[i]) \in AnimationType /\ Ended(kids[i]).state = "STOPPED"
                BY <4>3, EndedIs
            <4> QED
                BY <4>1, <4>2, <4>3, <4>4
        <3> QED
            BY <1>4, <3>1, <3>2, KidAt, KidCalled
    <2> QED
        BY <2>1, <2>2
<1>5. new \in [Kids -> AnimationType]
    BY <1>3, <1>4, KidsAre
<1> HIDE DEF new
<1>6. /\ GTyped' /\ AllInTime' /\ Kids' = Kids /\ \A i \in Kids : kids'[i] = new[i]
      /\ UNCHANGED <<kind, lag, pc, pos, found, total>>
    BY <1>1, <1>2, <1>3, <1>4, <1>5, CallBecomes DEF new
<1>7. Together'
    BY <1>1, <1>4, <1>6 DEF GInv, Together
<1>8. Scanning'
    <2>1. pc \in {"show", "report"} => pos \in Kids
        BY <1>3 DEF GTyped
    <2> QED
        BY <1>1, <1>4, <1>6, <2>1 DEF GInv, Scanning, Over
<1>9. InOrder'
    <2> SUFFICES ASSUME kind = "SEQUENTIAL", NEW i \in Kids, NEW j \in Kids, i < j,
                        kids'[j].state \in {"RUNNING", "PAUSED"}
                 PROVE  Over(kids'[i])
        BY <1>6 DEF InOrder
    <2>1. kids[j].state \in {"RUNNING", "PAUSED"}
        BY <1>4, <1>6
    <2>2. Over(kids[i])
        BY <2>1 DEF GInv, InOrder
    <2> QED
        BY <1>4, <1>6, <2>2 DEF Over
<1> QED
    BY <1>6, <1>7, <1>8, <1>9 DEF GInv

LEMMA RunSeen ==
    ASSUME GInv, AsyncRun
    PROVE  /\ seen' \in SeenType
           /\ \A i \in Kids : \E n \in 0..MaxRounds :
                 seen'.kids[i] = [KidSeen(seen.kids[i], kids[i], Start(kids[i])) EXCEPT !.ended = n]
<1> DEFINE new == [i \in Kids |-> Start(kids[i])]
           f == [i \in Kids |-> KidSeen(seen.kids[i], kids[i], Start(kids[i]))]
           g == [i \in Kids |-> [f[i] EXCEPT !.ended = 0]]
           e == /\ pc = "idle" /\ seen.asked = grp.loopcount
                /\ \A i \in Kids : ~kids[i].state = "RUNNING"
<1>1. KidsSeen(new) = f
    BY DEF KidsSeen
<1>2. \A i \in Kids : f[i] \in KidType
    BY KidAt, KidSeenIs
<1>3. /\ f \in [Kids -> KidType] /\ g \in [Kids -> KidType]
    <2>1. \A x \in KidType : [x EXCEPT !.ended = 0] \in KidType
        BY BoundsAssumption DEF KidType
    <2>2. f \in [Kids -> KidType]
        BY <1>2
    <2> HIDE DEF f
    <2>3. g \in [Kids -> KidType]
        BY <1>2, <2>1
    <2> QED
        BY <2>2, <2>3
<1>4. /\ \A i \in Kids : f[i] = KidSeen(seen.kids[i], kids[i], Start(kids[i]))
      /\ \A i \in Kids : g[i] = [f[i] EXCEPT !.ended = 0]
    OBVIOUS
<1>5. \A i \in Kids : f[i] = [f[i] EXCEPT !.ended = f[i].ended] /\ f[i].ended \in 0..MaxRounds
    BY <1>2 DEF KidType
<1>6. e \in BOOLEAN /\ seen \in SeenType
    BY DEF GInv, GTyped
<1>7. seen' = [seen EXCEPT !.kids = g, !.even = e] \/ seen' = [seen EXCEPT !.kids = f, !.even = FALSE]
    BY <1>1 DEF AsyncRun
<1> HIDE DEF f, g, e
<1>8. /\ seen' \in SeenType
      /\ seen'.kids = f \/ seen'.kids = g
    BY <1>3, <1>6, <1>7 DEF SeenType
<1>9. ASSUME NEW i \in Kids
      PROVE  \E n \in 0..MaxRounds :
                seen'.kids[i] = [KidSeen(seen.kids[i], kids[i], Start(kids[i])) EXCEPT !.ended = n]
    <2>1. CASE seen'.kids = f
        BY <1>4, <1>5, <1>9, <2>1
    <2>2. CASE seen'.kids = g
        BY <1>4, <1>9, <2>2, BoundsAssumption
    <2> QED
        BY <1>8, <2>1, <2>2
<1>10. seen' \in SeenType
    BY <1>3, <1>6, <1>7 DEF SeenType
<1> QED
    BY <1>9, <1>10

LEMMA GRun ==
    ASSUME GInv, AsyncRun
    PROVE  GInv'
<1> DEFINE new == [i \in Kids |-> Start(kids[i])]
<1>1. Enabled("AsyncRun") /\ grp' = Start(grp) /\ kids' = new /\ listed' = TRUE
    BY DEF AsyncRun
<1>2. grp \in AnimationType /\ grp.keepalive = TRUE /\ GTyped
    BY DEF GInv, GTyped
<1>3. grp' \in AnimationType /\ grp'.keepalive = TRUE /\ grp'.state = "READY"
    BY <1>1, <1>2, StartIs DEF SameLine
<1>4. ASSUME NEW i \in Kids
      PROVE  /\ KidOK(new[i]) /\ InTime(KidSeen(seen.kids[i], kids[i], new[i]), new[i])
             /\ new[i] \in AnimationType /\ new[i].state = "READY"
    BY <1>4, KidAt, KidStart DEF KidOK
<1>5. new \in [Kids -> AnimationType] /\ \A i \in Kids : new[i] = Start(kids[i])
    BY <1>4
<1> HIDE DEF new
<1>6. /\ kids' \in Seq(AnimationType) /\ Len(kids') = Len(kids) /\ Kids' = Kids
      /\ \A i \in Kids : kids'[i] = new[i]
    BY <1>1, <1>2, <1>5, Becomes
<1>7. UNCHANGED <<kind, lag, pc, pos, found, total>> /\ calls' \in 0..MaxCalls
    BY <1>1, <1>2, CallIs
<1>8. GTyped'
    <2>1. seen' \in SeenType'
        BY <1>6, RunSeen DEF SeenType
    <2> QED
        BY <1>1, <1>2, <1>3, <1>6, <1>7, <2>1 DEF GTyped
<1>9. AllInTime'
    <2> SUFFICES ASSUME NEW i \in Kids
                 PROVE  KidOK(kids'[i]) /\ InTime(seen'.kids[i], kids'[i])
        BY <1>6 DEF AllInTime
    <2>1. PICK n \in 0..MaxRounds :
              seen'.kids[i] = [KidSeen(seen.kids[i], kids[i], Start(kids[i])) EXCEPT !.ended = n]
        BY RunSeen
    <2>2. KidSeen(seen.kids[i], kids[i], new[i]) \in KidType
        BY KidAt, KidSeenIs
    <2>3. InTime(seen'.kids[i], new[i])
        BY <1>4, <1>5, <2>1, <2>2, EndsDoNotMatter
    <2> QED
        BY <1>4, <1>6, <2>3
<1>10. Together' /\ InOrder'
    BY <1>4, <1>6 DEF Together, InOrder
<1>11. Scanning'
    <2>1. kind = "PARALLEL" /\ Steady => pc = "idle"
        BY <1>1, <1>2, CallIs
    <2>2. pc # "scan"
        BY <1>1 DEF Enabled, InCallback
    <2> QED
        BY <1>7, <2>1, <2>2 DEF GInv, Scanning
<1> QED
    BY <1>8, <1>9, <1>10, <1>11 DEF GInv

LEMMA GCall ==
    ASSUME GInv, UserCall
    PROVE  GInv'
BY GAdd, GRun, GStop, GPause, GResume, GSetLoopcount, GStopKid DEF UserCall

-----------------------------------------------------------------------------
(***************************************************************************)
(* The pass.                                                               *)
(***************************************************************************)
LEMMA GPassReady ==
    ASSUME GInv, PassReady
    PROVE  GInv'
<1> DEFINE new == IF kind = "PARALLEL" THEN [i \in Kids |-> SetStart(kids[i], 0)] ELSE kids
<1>1. /\ pc = "idle" /\ pc' = "scan" /\ lag' = 0 /\ grp.state = "READY" /\ grp' = SetStart(grp, 0)
      /\ KidsBecome(new, TRUE)
      /\ UNCHANGED <<kind, listed, pos, found, total, calls>>
    BY DEF PassReady, BeginScan
<1>2. grp \in AnimationType /\ grp.keepalive = TRUE /\ GTyped /\ kids \in [Kids -> AnimationType]
    BY KidsAre DEF GInv, GTyped
<1>3. grp' \in AnimationType /\ grp'.keepalive = TRUE /\ grp'.state = "RUNNING"
    BY <1>1, <1>2, SetStartIs
<1>4. ASSUME NEW i \in Kids
      PROVE  /\ KidOK(new[i]) /\ InTime(KidSeen(seen.kids[i], kids[i], new[i]), new[i])
             /\ new[i] \in AnimationType
             /\ kind # "PARALLEL" => new[i] = kids[i]
             /\ kids[i].state = "READY" /\ kind = "PARALLEL" => new[i].state = "RUNNING"
             /\ kids[i].state # "READY" => new[i] = kids[i]
    <2>1. CASE kind = "PARALLEL"
        <3>1. new[i] = SetStart(kids[i], 0)
            BY <1>4, <2>1
        <3> DEFINE k == seen.kids[i]
                   a == kids[i]
                   b == SetStart(a, 0)
        <3>2. k \in KidType /\ KidOK(a) /\ InTime(k, a)
            BY <1>4, KidAt
        <3> HIDE DEF k, a
        <3>3. /\ KidOK(b) /\ InTime(KidSeen(k, a, b), b)
              /\ a.state = "READY" => b.state = "RUNNING"
              /\ a.state # "READY" => b = a
            BY <3>2, KidBegin
        <3>4. b \in AnimationType
            BY <3>3 DEF KidOK
        <3> QED
            BY <2>1, <3>1, <3>3, <3>4 DEF k, a
    <2>2. CASE kind # "PARALLEL"
        BY <1>4, <2>2, KidAt, KidKept DEF SameLine
    <2> QED
        BY <2>1, <2>2
<1>5. new \in [Kids -> AnimationType]
    <2>1. CASE kind = "PARALLEL"
        BY <1>4, <2>1
    <2>2. CASE kind # "PARALLEL"
        BY <1>2, <2>2
    <2> QED
        BY <2>1, <2>2
<1> HIDE DEF new
<1>6. /\ AllInTime' /\ seen' \in SeenType' /\ kids' \in Seq(AnimationType)
      /\ Len(kids') = Len(kids) /\ Kids' = Kids /\ \A i \in Kids : kids'[i] = new[i]
    BY <1>1, <1>2, <1>4, <1>5, AllBecome
<1>7. GTyped'
    BY <1>1, <1>2, <1>3, <1>6, BoundsAssumption DEF GTyped
<1>8. ASSUME kind = "SEQUENTIAL" \/ Steady, NEW i \in Kids
      PROVE  kids[i].state # "PAUSED" /\ kids[i].state # "RUNNING" /\ new[i].state # "PAUSED"
    BY <1>1, <1>4, <1>8 DEF GInv, Together
<1>9. Together'
    BY <1>1, <1>3, <1>6, <1>8 DEF Together
<1>10. Scanning'
    <2>1. pos = 1 /\ ~found /\ \A i \in Kids : ~(i < pos)
        BY <1>1, <1>2, KidsAre DEF GInv, Scanning
    <2> QED
        BY <1>1, <1>3, <1>6, <1>8, <2>1 DEF Scanning
<1>11. InOrder'
    BY <1>1, <1>4, <1>6 DEF GInv, InOrder
<1> QED
    BY <1>6, <1>7, <1>9, <1>10, <1>11 DEF GInv

LEMMA GPassRunning ==
    ASSUME GInv, PassRunning
    PROVE  GInv'
<1>1. /\ pc = "idle" /\ pc' = "scan" /\ lag' = 0 /\ grp.state = "RUNNING"
      /\ UNCHANGED <<kind, grp, kids, seen, listed, pos, found, total, calls>>
      /\ Kids' = Kids /\ SeenType' = SeenType
    BY DEF PassRunning, BeginScan, Kids, SeenType
<1>2. GTyped'
    BY <1>1, BoundsAssumption DEF GInv, GTyped
<1>3. AllInTime' /\ Together' /\ InOrder'
    BY <1>1 DEF GInv, AllInTime, Together, InOrder
<1>4. Scanning'
    <2>1. pos = 1 /\ ~found /\ \A i \in Kids : ~(i < pos)
        BY <1>1, KidsAre DEF GInv, Scanning
    <2>2. Steady => \A i \in Kids : kids[i].state # "PAUSED"
        BY <1>1 DEF GInv, Together
    <2> QED
        BY <1>1, <2>1, <2>2 DEF Scanning
<1> QED
    BY <1>2, <1>3, <1>4 DEF GInv


LEMMA GPassStopped ==
    ASSUME GInv, PassStopped
    PROVE  GInv'
<1>1. /\ listed' = FALSE /\ UNCHANGED <<kind, grp, kids, lag, pc, pos, found, total, calls, seen>>
      /\ Kids' = Kids /\ SeenType' = SeenType
    BY DEF PassStopped, Kids, SeenType
<1>2. GTyped'
    BY <1>1 DEF GInv, GTyped
<1> QED
    BY <1>1, <1>2 DEF GInv, AllInTime, Together, Scanning, InOrder

LEMMA KidIndex ==
    ASSUME GTyped
    PROVE  /\ pos \in Int
           /\ \A i \in Kids : i \in Int /\ 1 <= i /\ i \in 1..MaxKids
<1>1. Len(kids) \in Nat /\ Kids = 1..Len(kids)
    BY KidsAre
<1>2. Len(kids) <= MaxKids /\ pos \in 1..(MaxKids + 1) /\ MaxKids \in Nat
    BY BoundsAssumption DEF GTyped
<1> QED
    BY <1>1, <1>2

(* One child becomes another one.                                          *)
LEMMA OneBecomes ==
    ASSUME GInv, NEW p \in Kids, NEW b, KidOK(b), InTime(KidSeen(seen.kids[p], kids[p], b), b),
           KidsBecome([kids EXCEPT ![p] = b], TRUE)
    PROVE  /\ AllInTime' /\ seen' \in SeenType' /\ kids' \in Seq(AnimationType)
           /\ Len(kids') = Len(kids) /\ Kids' = Kids
           /\ kids'[p] = b /\ \A i \in Kids : i # p => kids'[i] = kids[i]
<1> DEFINE new == [kids EXCEPT ![p] = b]
<1>1. GTyped /\ kids \in [Kids -> AnimationType] /\ b \in AnimationType
    BY KidsAre DEF GInv, KidOK
<1>2. new \in [Kids -> AnimationType] /\ new[p] = b /\ \A i \in Kids : i # p => new[i] = kids[i]
    BY <1>1
<1>3. KidsBecome(new, TRUE)
    OBVIOUS
<1> HIDE DEF new
<1>4. ASSUME NEW i \in Kids
      PROVE  KidOK(new[i]) /\ InTime(KidSeen(seen.kids[i], kids[i], new[i]), new[i])
    <2>1. CASE i = p
        BY <1>2, <2>1
    <2>2. CASE i # p
        BY <1>2, <1>4, <2>2, KidAt, KidKept DEF SameLine
    <2> QED
        BY <2>1, <2>2
<1> QED
    BY <1>1, <1>2, <1>3, <1>4, AllBecome

LEMMA GUpdateKid ==
    ASSUME GInv, UpdateKid
    PROVE  GInv'
<1>1. PICK p \in Kids : LET b == Advance(SetStart(kids[p], 0), -lag)
                        IN  /\ IsNext(p) /\ KidsBecome([kids EXCEPT ![p] = b], TRUE)
                            /\ total' = TotalTime(b) /\ pos' = p
    BY DEF UpdateKid
<1>2. pc = "scan" /\ pc' = "show" /\ UNCHANGED <<kind, grp, listed, lag, found, calls>>
    BY DEF UpdateKid
<1>3. /\ GTyped /\ lag \in Nat /\ Active(kids[p]) /\ p >= pos
      /\ \A j \in Kids : j \in pos..(p - 1) => ~Active(kids[j])
    BY <1>1, BoundsAssumption DEF GInv, GTyped, IsNext
<1> DEFINE k == seen.kids[p]
           a == kids[p]
           b == Advance(SetStart(a, 0), -lag)
<1>4. k \in KidType /\ KidOK(a) /\ InTime(k, a) /\ Active(a)
    BY <1>3, KidAt
<1>5. KidsBecome([kids EXCEPT ![p] = b], TRUE) /\ total' = TotalTime(b)
    BY <1>1
<1> HIDE DEF k, a
<1>6. KidOK(b) /\ InTime(KidSeen(k, a, b), b) /\ b.state = "RUNNING" /\ TotalTime(b) \in Nat
    BY <1>3, <1>4, KidAdvance
<1> HIDE DEF b
<1>7. /\ AllInTime' /\ seen' \in SeenType' /\ kids' \in Seq(AnimationType)
      /\ Len(kids') = Len(kids) /\ Kids' = Kids
      /\ kids'[p] = b /\ \A i \in Kids : i # p => kids'[i] = kids[i]
    BY <1>5, <1>6, OneBecomes DEF k, a
<1>8. GTyped'
    <2>1. pos' \in 1..(MaxKids + 1) /\ pos' \in Kids'
        BY <1>1, <1>3, <1>7, KidIndex, BoundsAssumption
    <2> QED
        BY <1>2, <1>3, <1>5, <1>6, <1>7, <2>1 DEF GTyped
<1>9. /\ p \in Int /\ pos \in Int /\ \A i \in Kids : i \in Int /\ 1 <= i
    BY <1>3, KidIndex
<1>10. kind = "SEQUENTIAL" => pos = 1 /\ grp.state = "RUNNING" /\ ~found
    BY <1>2 DEF GInv, Scanning
<1>11. kind = "SEQUENTIAL" => \A i \in Kids : i < p => Over(kids[i])
    <2> SUFFICES ASSUME kind = "SEQUENTIAL", NEW i \in Kids, i < p
                 PROVE  Over(kids[i])
        OBVIOUS
    <2>1. i \in pos..(p - 1)
        BY <1>3, <1>9, <1>10
    <2>2. ~Active(kids[i]) /\ kids[i].state # "PAUSED"
        BY <1>3, <1>10, <2>1 DEF GInv, Together
    <2>3. kids[i].state \in States
        BY KidAt DEF AnimationType
    <2> QED
        BY <2>2, <2>3 DEF Over, Active, States
<1>12. kind = "PARALLEL" /\ Steady => grp.state \in {"RUNNING", "STOPPED"}
    BY <1>2 DEF GInv, Scanning
<1>13. Together'
    <2>1. kind = "SEQUENTIAL" \/ Steady => grp.state \notin {"PAUSED", "READY"}
        BY <1>3, <1>10, <1>12, KindIs
    <2> QED
        BY <1>2, <1>6, <1>7, <2>1 DEF GInv, Together
<1>14. Scanning'
    <2>1. ASSUME kind = "PARALLEL", Steady, NEW i \in Kids
          PROVE  kids'[i].state # "PAUSED" /\ (i < p /\ ~found => Over(kids'[i]))
        <3>1. CASE i = p
            BY <1>6, <1>7, <1>9, <3>1
        <3>2. CASE i # p
            <4>1. kids'[i] = kids[i] /\ kids[i].state # "PAUSED" /\ (i < pos /\ ~found => Over(kids[i]))
                BY <1>2, <1>7, <2>1, <3>2 DEF GInv, Scanning
            <4>2. pos <= i /\ i < p => Over(kids[i])
                <5>1. pos <= i /\ i < p => ~Active(kids[i])
                    BY <1>3, <1>9, <2>1
                <5>2. kids[i].state \in States
                    BY <2>1, KidAt DEF AnimationType
                <5> QED
                    BY <4>1, <5>1, <5>2 DEF Over, Active, States
            <4>3. i < pos \/ pos <= i
                BY <1>9
            <4> QED
                BY <4>1, <4>2, <4>3
        <3> QED
            BY <3>1, <3>2
    <2> QED
        BY <1>1, <1>2, <1>6, <1>7, <1>10, <1>12, <2>1 DEF Scanning
<1>15. InOrder'
    <2> SUFFICES ASSUME kind = "SEQUENTIAL", NEW i \in Kids, NEW j \in Kids, i < j,
                        kids'[j].state \in {"RUNNING", "PAUSED"}
                 PROVE  Over(kids'[i])
        BY <1>2, <1>7 DEF InOrder
    <2>1. CASE j = p
        BY <1>7, <1>9, <1>11, <2>1
    <2>2. CASE j # p
        <3>1. Over(kids[i])
            BY <1>7, <2>2 DEF GInv, InOrder
        <3>2. i # p
            BY <1>4, <3>1 DEF a, Active, Over
        <3> QED
            BY <1>7, <3>1, <3>2
    <2> QED
        BY <2>1, <2>2
<1> QED
    BY <1>7, <1>8, <1>13, <1>14, <1>15 DEF GInv


(* Back from a child, which is over or runs.                               *)
LEMMA GGoOn ==
    ASSUME GTyped, NEW kid, GoOn(kid), pos \in Kids
    PROVE  /\ pc' \in {"idle", "scan"} /\ pos' \in 1..(MaxKids + 1) /\ found' \in BOOLEAN
           /\ total' = 0
           /\ pc' = "idle" => pos' = 1 /\ ~found'
           /\ kind = "SEQUENTIAL" => pc' = "idle"
           /\ kind = "PARALLEL" => /\ pc' = "scan" /\ pos' = pos + 1
                                   /\ found' <=> found \/ kid.state = "RUNNING"
<1>1. CASE kind = "PARALLEL"
    <2>1. pos + 1 \in 1..(MaxKids + 1)
        BY KidIndex, BoundsAssumption
    <2>2. pc' = "scan" /\ pos' = pos + 1 /\ found' = (found \/ kid.state = "RUNNING") /\ total' = 0
        BY <1>1 DEF GoOn
    <2> QED
        BY <1>1, <2>1, <2>2
<1>2. CASE kind # "PARALLEL"
    <2>1. pc' = "idle" /\ pos' = 1 /\ found' = FALSE /\ total' = 0
        BY <1>2 DEF GoOn, ScanReturns
    <2>2. 1 \in 1..(MaxKids + 1)
        BY BoundsAssumption
    <2> QED
        BY <1>2, <2>1, <2>2
<1> QED
    BY <1>1, <1>2

LEMMA GKidUpdated ==
    ASSUME GInv, KidUpdated
    PROVE  GInv'
<1> DEFINE k == seen.kids[pos]
           a == kids[pos]
           b == EndUpdate(a, total)
<1>1. /\ pc = "show" /\ KidsBecome([kids EXCEPT ![pos] = b], TRUE)
      /\ b.state # a.state => pc' = "report" /\ UNCHANGED <<pos, found, total>>
      /\ b.state = a.state => GoOn(b)
      /\ UNCHANGED <<kind, grp, listed, lag, calls>>
    BY DEF KidUpdated
<1>2. GTyped /\ pos \in Kids /\ total \in Int
    BY <1>1 DEF GInv, GTyped
<1>3. k \in KidType /\ KidOK(a) /\ InTime(k, a)
    BY <1>2, KidAt
<1> HIDE DEF k, a
<1>4. KidOK(b) /\ InTime(KidSeen(k, a, b), b) /\ (b = a \/ b.state = "STOPPED")
    BY <1>2, <1>3, KidEnd
<1> HIDE DEF b
<1>5. /\ AllInTime' /\ seen' \in SeenType' /\ kids' \in Seq(AnimationType)
      /\ Len(kids') = Len(kids) /\ Kids' = Kids
      /\ kids'[pos] = b /\ \A i \in Kids : i # pos => kids'[i] = kids[i]
    BY <1>1, <1>2, <1>4, OneBecomes DEF k, a
<1>6. \A i \in Kids : kids'[i] = kids[i] \/ kids'[i].state = "STOPPED"
    BY <1>4, <1>5 DEF a
<1>7. \/ pc' = "report" /\ UNCHANGED <<pos, found, total>>
      \/ /\ pc' \in {"idle", "scan"} /\ pos' \in 1..(MaxKids + 1) /\ found' \in BOOLEAN
         /\ total' = 0
    BY <1>1, <1>2, GGoOn
<1>8. GTyped'
    BY <1>1, <1>2, <1>5, <1>7 DEF GTyped
<1>9. Together' /\ InOrder'
    BY <1>1, <1>5, <1>6 DEF GInv, Together, InOrder, Over
<1>10. Scanning'
    <2>1. CASE b.state # a.state
        <3>1. pc' = "report" /\ UNCHANGED <<pos, found, total>> /\ b.state = "STOPPED"
            BY <1>1, <1>4, <2>1
        <3>2. Over(b)
            BY <3>1 DEF Over
        <3> QED
            BY <1>1, <1>2, <1>5, <1>6, <3>1, <3>2 DEF GInv, Scanning, Over
    <2>2. CASE b.state = a.state
        <3>1. /\ pc' = "idle" => pos' = 1 /\ ~found'
              /\ kind = "SEQUENTIAL" => pc' = "idle"
              /\ kind = "PARALLEL" => /\ pc' = "scan" /\ pos' = pos + 1
                                      /\ found' <=> found \/ b.state = "RUNNING"
            BY <1>1, <1>2, <2>2, GGoOn
        <3>2. ASSUME kind = "PARALLEL", Steady
              PROVE  /\ grp.state \in {"RUNNING", "STOPPED"}
                     /\ \A i \in Kids : /\ kids[i].state # "PAUSED"
                                        /\ i < pos /\ ~found => Over(kids[i])
                     /\ a.state \in {"RUNNING", "STOPPED"}
            BY <1>1, <3>2 DEF GInv, Scanning, a
        <3>3. ASSUME kind = "PARALLEL", Steady, NEW i \in Kids
              PROVE  kids'[i].state # "PAUSED" /\ (i < pos + 1 /\ ~found' => Over(kids'[i]))
            <4>1. CASE i = pos
                BY <1>5, <2>2, <3>1, <3>2, <3>3, <4>1 DEF Over
            <4>2. CASE i # pos
                <5>1. i < pos + 1 => i < pos
                    BY <1>2, <3>3, <4>2, KidIndex
                <5> QED
                    BY <1>5, <3>1, <3>2, <3>3, <4>2, <5>1
            <4> QED
                BY <4>1, <4>2
        <3> QED
            BY <1>1, <1>5, <3>1, <3>2, <3>3 DEF Scanning
    <2> QED
        BY <2>1, <2>2
<1> QED
    BY <1>5, <1>8, <1>9, <1>10 DEF GInv

LEMMA GKidReported ==
    ASSUME GInv, KidReported
    PROVE  GInv'
<1>1. /\ pc = "report" /\ GoOn(kids[pos])
      /\ UNCHANGED <<kind, grp, kids, listed, lag, calls, seen>>
      /\ Kids' = Kids /\ SeenType' = SeenType
    BY DEF KidReported, Kids, SeenType
<1>2. GTyped /\ pos \in Kids
    BY <1>1 DEF GInv, GTyped
<1>3. /\ pc' \in {"idle", "scan"} /\ pos' \in 1..(MaxKids + 1) /\ found' \in BOOLEAN
      /\ total' = 0
      /\ pc' = "idle" => pos' = 1 /\ ~found'
      /\ kind = "SEQUENTIAL" => pc' = "idle"
      /\ kind = "PARALLEL" => /\ pc' = "scan" /\ pos' = pos + 1
                              /\ found' <=> found \/ kids[pos].state = "RUNNING"
    BY <1>1, <1>2, GGoOn
<1>4. GTyped'
    BY <1>1, <1>2, <1>3 DEF GTyped
<1>5. AllInTime' /\ Together' /\ InOrder'
    BY <1>1 DEF GInv, AllInTime, Together, InOrder
<1>6. Scanning'
    <2>1. ASSUME kind = "PARALLEL", Steady
          PROVE  /\ grp.state \in {"RUNNING", "STOPPED"}
                 /\ \A i \in Kids : /\ kids[i].state # "PAUSED"
                                    /\ i < pos /\ ~found => Over(kids[i])
                 /\ kids[pos].state \in {"RUNNING", "STOPPED"}
        BY <1>1, <2>1 DEF GInv, Scanning
    <2>2. ASSUME kind = "PARALLEL", Steady, NEW i \in Kids
          PROVE  i < pos + 1 /\ ~found' => Over(kids[i])
        <3>1. CASE i = pos
            BY <1>3, <2>1, <2>2, <3>1 DEF Over
        <3>2. CASE i # pos
            <4>1. i < pos + 1 => i < pos
                BY <1>2, <2>2, <3>2, KidIndex
            <4> QED
                BY <1>3, <2>1, <2>2, <4>1
        <3> QED
            BY <3>1, <3>2
    <2> QED
        BY <1>1, <1>3, <2>1, <2>2 DEF Scanning
<1> QED
    BY <1>4, <1>5, <1>6 DEF GInv


(* When a scan has found nothing that runs, every child has come to its    *)
(* end.                                                                    *)
LEMMA AllAreOver ==
    ASSUME GInv, ScanOver, ~found, kind = "SEQUENTIAL" \/ Steady, NEW i \in Kids
    PROVE  Over(kids[i])
<1>1. /\ GTyped /\ pc = "scan" /\ kids[i].state \in States /\ pos \in Int /\ i \in Int /\ 1 <= i
      /\ i >= pos => ~Active(kids[i])
    BY KidAt, KidIndex DEF GInv, ScanOver, AnimationType
<1>2. CASE kind = "SEQUENTIAL"
    <2>1. pos = 1 /\ kids[i].state # "PAUSED"
        BY <1>1, <1>2 DEF GInv, Scanning, Together
    <2> QED
        BY <1>1, <2>1 DEF Over, Active, States
<1>3. CASE kind = "PARALLEL"
    <2>1. kids[i].state # "PAUSED" /\ (i < pos => Over(kids[i]))
        BY <1>1, <1>3 DEF GInv, Scanning
    <2>2. i < pos \/ i >= pos
        BY <1>1
    <2> QED
        BY <1>1, <2>1, <2>2 DEF Over, Active, States
<1> QED
    BY <1>1, <1>2, <1>3, KindIs

LEMMA CountDownIs ==
    ASSUME NEW a \in AnimationType, a.keepalive = TRUE, a.state # "REMOVE"
    PROVE  /\ CountDown(a) \in AnimationType /\ CountDown(a).keepalive = TRUE
           /\ CountDown(a).state = a.state \/ CountDown(a).state = "STOPPED"
<1> DEFINE n == IF a.loopcount > 0 THEN a.loopcount - 1 ELSE a.loopcount
           b == [a EXCEPT !.loopcount = n]
<1>1. n \in Int
    BY DEF AnimationType
<1>2. CountDown(a) = IF b.loopcount = 0 THEN SetState(b, "STOPPED") ELSE b
    BY DEF CountDown, AnimationType
<1> HIDE DEF n
<1>3. b \in AnimationType /\ b.keepalive = TRUE /\ b.state = a.state
    BY <1>1 DEF AnimationType
<1> HIDE DEF b
<1>4. SetState(b, "STOPPED") \in {b, Ended(b)}
    BY DEF SetState
<1>5. Ended(b) \in AnimationType /\ Ended(b).keepalive = TRUE /\ Ended(b).state = "STOPPED"
    BY <1>3, EndedIs DEF SameLine
<1>6. CountDown(a) \in {b, Ended(b)}
    BY <1>2, <1>4
<1> QED
    BY <1>3, <1>5, <1>6

LEMMA GEndScan ==
    ASSUME GInv, EndScan
    PROVE  GInv'
<1>1. /\ ScanOver /\ pc = "scan"
      /\ found => UNCHANGED <<grp, kids, seen>>
      /\ ~found => /\ grp' = CountDown(grp)
                   /\ KidsBecome(IF grp'.loopcount = 0 THEN kids
                                 ELSE [i \in Kids |-> Repeated(kids[i])], TRUE)
      /\ pc' = "idle" /\ pos' = 1 /\ found' = FALSE /\ total' = 0
      /\ UNCHANGED <<kind, listed, lag, calls>>
    BY DEF EndScan, ScanOver, ScanReturns
<1>2. GTyped /\ grp \in AnimationType /\ grp.keepalive = TRUE /\ grp.state # "REMOVE"
    BY DEF GInv, GTyped
<1>3. Scanning'
    BY <1>1 DEF Scanning
<1>4. 1 \in 1..(MaxKids + 1)
    BY BoundsAssumption
<1>5. CASE found
    <2>1. Kids' = Kids /\ SeenType' = SeenType
        BY <1>1, <1>5 DEF Kids, SeenType
    <2>2. GTyped'
        BY <1>1, <1>2, <1>4, <1>5, <2>1 DEF GTyped
    <2>3. AllInTime' /\ Together' /\ InOrder'
        BY <1>1, <1>5, <2>1 DEF GInv, AllInTime, Together, InOrder
    <2> QED
        BY <1>3, <2>2, <2>3 DEF GInv
<1>6. CASE ~found
    <2> DEFINE new == IF grp'.loopcount = 0 THEN kids ELSE [i \in Kids |-> Repeated(kids[i])]
    <2>1. grp' = CountDown(grp) /\ KidsBecome(new, TRUE)
        BY <1>1, <1>6
    <2>2. /\ grp' \in AnimationType /\ grp'.keepalive = TRUE
          /\ grp'.state = grp.state \/ grp'.state = "STOPPED"
        BY <1>2, <2>1, CountDownIs
    <2>3. \A i \in Kids : kind = "SEQUENTIAL" \/ Steady => Over(kids[i])
        BY <1>1, <1>6, AllAreOver
    <2>4. ASSUME NEW i \in Kids
          PROVE  /\ KidOK(new[i]) /\ InTime(KidSeen(seen.kids[i], kids[i], new[i]), new[i])
                 /\ new[i] = kids[i] \/ new[i].state \in {"READY", "RUNNING"}
                 /\ kind = "SEQUENTIAL" => new[i].state \notin {"RUNNING", "PAUSED"}
        <3> DEFINE k == seen.kids[i]
                   a == kids[i]
        <3>1. k \in KidType /\ KidOK(a) /\ InTime(k, a)
            BY <2>4, KidAt
        <3>2. kind = "SEQUENTIAL" \/ Steady => Over(a)
            BY <2>3, <2>4
        <3> HIDE DEF k, a
        <3>3. CASE grp'.loopcount = 0
            <4>1. new[i] = a
                BY <3>3 DEF a
            <4>2. KidOK(a) /\ InTime(KidSeen(k, a, a), a)
                BY <3>1, KidKept DEF SameLine, KidOK
            <4> QED
                BY <3>2, <4>1, <4>2 DEF k, a, Over
        <3>4. CASE grp'.loopcount # 0
            <4>1. new[i] = Repeated(a)
                BY <2>4, <3>4 DEF a
            <4> DEFINE b == Repeated(a)
            <4>2. /\ KidOK(b) /\ InTime(KidSeen(k, a, b), b)
                  /\ kind # "PARALLEL" /\ a.state # "RUNNING" => b.state = "READY"
                  /\ b.state \in {"READY", "RUNNING"}
                BY <3>1, <3>2, KidRepeat
            <4> HIDE DEF b
            <4>3. kind = "SEQUENTIAL" => b.state = "READY"
                BY <3>2, <4>2 DEF Over
            <4> QED
                BY <4>1, <4>2, <4>3 DEF k, a, b
        <3> QED
            BY <3>3, <3>4
    <2>5. new \in [Kids -> AnimationType]
        <3>1. CASE grp'.loopcount = 0
            BY <1>2, <3>1, KidsAre
        <3>2. CASE grp'.loopcount # 0
            BY <2>4, <3>2 DEF KidOK
        <3> QED
            BY <3>1, <3>2
    <2> HIDE DEF new
    <2>6. /\ AllInTime' /\ seen' \in SeenType' /\ kids' \in Seq(AnimationType)
          /\ Len(kids') = Len(kids) /\ Kids' = Kids /\ \A i \in Kids : kids'[i] = new[i]
        BY <1>2, <2>1, <2>4, <2>5, AllBecome
    <2>7. GTyped'
        <3>1. /\ kind \in Kinds /\ listed \in BOOLEAN /\ calls \in 0..MaxCalls /\ lag \in 0..MaxLag
              /\ Len(kids) <= MaxKids
            BY <1>2 DEF GTyped
        <3>2. grp'.state # "REMOVE" /\ pos' \in 1..(MaxKids + 1)
            BY <1>1, <1>2, <1>4, <2>2
        <3> QED
            BY <1>1, <2>2, <2>6, <3>1, <3>2 DEF GTyped
    <2>8. Together'
        <3>1. ASSUME kind = "PARALLEL", Steady
              PROVE  grp'.state \notin {"PAUSED", "READY"}
            BY <1>1, <2>2, <3>1 DEF GInv, Scanning
        <3>2. ASSUME kind = "SEQUENTIAL" \/ Steady, NEW i \in Kids
              PROVE  /\ new[i].state # "PAUSED"
                     /\ kind = "SEQUENTIAL" => new[i].state # "RUNNING"
            BY <2>3, <2>4, <3>2 DEF Over
        <3> QED
            BY <1>1, <1>2, <2>6, <3>1, <3>2, KindIs DEF Together
    <2>9. InOrder'
        BY <1>1, <2>4, <2>6 DEF InOrder
    <2> QED
        BY <1>3, <2>6, <2>7, <2>8, <2>9 DEF GInv
<1> QED
    BY <1>5, <1>6

LEMMA GTick ==
    ASSUME GInv, Tick
    PROVE  GInv'
<1> DEFINE new == [i \in Kids |-> Older(kids[i])]
           ticked == [i \in Kids |-> Watched(seen.kids[i], kids[i])]
<1>1. /\ kids' = new /\ seen' = [seen EXCEPT !.kids = ticked]
      /\ lag < (IF pc = "idle" THEN MaxLag ELSE MaxDrift) /\ lag' = lag + 1
      /\ UNCHANGED <<kind, grp, listed, pc, pos, found, total, calls>>
    BY DEF Tick
<1>2. GTyped /\ seen \in SeenType /\ lag \in 0..MaxLag
    BY DEF GInv, GTyped
<1>3. ASSUME NEW i \in Kids
      PROVE  /\ ticked[i] \in KidType /\ KidOK(new[i]) /\ InTime(ticked[i], new[i])
             /\ new[i].state = kids[i].state
    <2> DEFINE k == seen.kids[i]
               a == kids[i]
               j == Watched(k, a)
    <2>1. new[i] = Older(a) /\ ticked[i] = j
        BY <1>3
    <2>2. k \in KidType /\ KidOK(a) /\ InTime(k, a)
        BY <1>3, KidAt
    <2> HIDE DEF k, a
    <2>3. j \in KidType /\ KidOK(Older(a)) /\ InTime(j, Older(a)) /\ Older(a).state = a.state
        BY <2>2, KidTick
    <2> QED
        BY <2>1, <2>3 DEF a
<1>4. new \in [Kids -> AnimationType] /\ ticked \in [Kids -> KidType]
    BY <1>3 DEF KidOK
<1> HIDE DEF new, ticked
<1>5. /\ kids' \in Seq(AnimationType) /\ Len(kids') = Len(kids) /\ Kids' = Kids
      /\ \A i \in Kids : kids'[i] = new[i]
    BY <1>1, <1>2, <1>4, Becomes
<1>6. seen' \in SeenType' /\ seen'.kids = ticked
    BY <1>1, <1>2, <1>4, <1>5 DEF SeenType
<1>7. lag' \in 0..MaxLag
    BY <1>1, <1>2, BoundsAssumption
<1>8. GTyped'
    BY <1>1, <1>2, <1>5, <1>6, <1>7 DEF GTyped
<1>9. AllInTime'
    BY <1>3, <1>5, <1>6 DEF AllInTime
<1>10. \A i \in Kids : kids'[i].state = kids[i].state
    BY <1>3, <1>5
<1>11. Together' /\ InOrder'
    BY <1>1, <1>5, <1>10 DEF GInv, Together, InOrder, Over
<1>12. Scanning'
    <2>1. pc \in {"show", "report"} => pos \in Kids
        BY <1>2 DEF GTyped
    <2> QED
        BY <1>1, <1>5, <1>10, <2>1 DEF GInv, Scanning, Over
<1> QED
    BY <1>8, <1>9, <1>11, <1>12 DEF GInv

LEMMA GStep == GInv /\ [Next]_vars => GInv'
<1> SUFFICES ASSUME GInv, [Next]_vars
             PROVE  GInv'
    OBVIOUS
<1>1. CASE UserCall
    BY <1>1, GCall
<1>2. CASE Pass
    BY <1>2, GPassRunning, GPassReady, GPassStopped, GUpdateKid, GKidUpdated, GKidReported,
       GEndScan DEF Pass
<1>3. CASE Tick
    BY <1>3, GTick
<1>4. CASE UNCHANGED vars
    <2>1. Kids' = Kids /\ SeenType' = SeenType
        BY <1>4 DEF vars, Kids, SeenType
    <2>2. GTyped'
        BY <1>4, <2>1 DEF vars, GInv, GTyped
    <2> QED
        BY <1>4, <2>1, <2>2 DEF vars, GInv, AllInTime, Together, Scanning, InOrder
<1> QED
    BY <1>1, <1>2, <1>3, <1>4 DEF Next

-----------------------------------------------------------------------------
LEMMA Invariant == Spec => []GInv
<1> QED
    BY GInit, GStep, PTL DEF Spec

(***************************************************************************)
(* Every variable stays in its type: the scan stays within the list of     *)
(* children, and the group, which is kept alive, is never REMOVE.          *)
(***************************************************************************)
THEOREM GroupTyped == Spec => []TypeOK
<1>1. GInv => TypeOK
    BY KidsAre DEF GInv, GTyped, TypeOK, KidType
<1> QED
    BY Invariant, <1>1, PTL

(***************************************************************************)
(* A sequential group runs its children one at a time and in their order,  *)
(* whatever the application calls, from the main loop and from callbacks.  *)
(***************************************************************************)
THEOREM ChildrenTakeTurns == Spec => []InOrder
<1>1. GInv => InOrder
    BY DEF GInv
<1> QED
    BY Invariant, <1>1, PTL

(***************************************************************************)
(* A child is never charged time during which it did not run, unless it    *)
(* was begun by the repetition of a parallel group.                        *)
(***************************************************************************)
THEOREM WaitingIsNotCharged ==
    ASSUME Steady
    PROVE  Spec => []KidsNotAhead
<1>1. GInv => KidsNotAhead
    BY Steady DEF GInv, AllInTime, InTime, KidsNotAhead
<1> QED
    BY Invariant, <1>1, PTL

(***************************************************************************)
(* A scan ends the group only when all the children have come to their     *)
(* end: none is running, waiting for its turn or paused.                   *)
(***************************************************************************)
THEOREM GroupEndsLast ==
    ASSUME Steady
    PROVE  Spec => EndsWithKids
<1>1. ASSUME GInv, [Next]_vars
      PROVE  [(EndScan /\ ~Over(grp) /\ Over(grp)') => \A i \in Kids : Over(kids[i])]_vars
    <2> SUFFICES ASSUME EndScan, ~Over(grp), Over(grp)'
                 PROVE  \A i \in Kids : Over(kids[i])
        OBVIOUS
    <2>1. ~found /\ ScanOver
        BY DEF EndScan, Over
    <2> QED
        BY <1>1, <2>1, AllAreOver
<1> QED
    BY Invariant, <1>1, PTL DEF Spec, EndsWithKids

-----------------------------------------------------------------------------
(***************************************************************************)
(* The rounds of an undisturbed group: its loop count says how many are    *)
(* left, and each child has ended in every round before this one, and in   *)
(* this one if it is over.                                                 *)
(***************************************************************************)
EndedIn(a, round) == IF Over(a) THEN round + 1 ELSE round

Rounds ==
    /\ seen.asked \in Loopcounts \cup {1}
    /\ seen.even /\ ~Over(grp) =>
          IF seen.asked = INFINITE
          THEN grp.loopcount = INFINITE
          ELSE /\ grp.loopcount \in 1..seen.asked
               /\ \A i \in Kids : seen.kids[i].ended = EndedIn(kids[i], seen.asked - grp.loopcount)

LEMMA AskedIs ==
    ASSUME Rounds
    PROVE  /\ seen.asked \in Int /\ seen.asked < MaxRounds /\ MaxRounds \in Nat
           /\ seen.asked # INFINITE => seen.asked \in Nat \ {0}
<1>1. MaxRounds \in Nat /\ 1 < MaxRounds
    BY BoundsAssumption
<1>2. ASSUME NEW n \in Loopcounts
      PROVE  n \in (Nat \ {0}) \cup {INFINITE} /\ n < MaxRounds
    BY ChildrenAssumption, BoundsAssumption
<1>3. seen.asked = 1 \/ seen.asked \in Loopcounts
    BY DEF Rounds
<1> QED
    BY <1>1, <1>2, <1>3 DEF INFINITE

(* The number of ends the observer knows of. *)
LEMMA KidSeenEnds ==
    ASSUME NEW k \in KidType, NEW a, NEW b
    PROVE  KidSeen(k, a, b).ended =
              IF ~Over(a) /\ Over(b) THEN UpTo(k.ended + 1, MaxRounds) ELSE k.ended
BY DEF KidSeen

(* What an observer still takes for an undisturbed run. *)
LEMMA SeenEven ==
    ASSUME GTyped, NEW new, new \in [Kids -> AnimationType], NEW even \in BOOLEAN,
           KidsBecome(new, even)
    PROVE  /\ seen'.asked = seen.asked
           /\ seen'.even => /\ seen.even /\ even
                            /\ \A i \in Kids :
                                  seen'.kids[i].ended = KidSeen(seen.kids[i], kids[i], new[i]).ended
<1> DEFINE f == KidsSeen(new)
           g == [i \in Kids |-> [KidsSeen(new)[i] EXCEPT !.ended = 0]]
<1>1. seen \in SeenType
    BY DEF GTyped
<1>2. \A i \in Kids : f[i] = KidSeen(seen.kids[i], kids[i], new[i])
    BY DEF KidsSeen
<1>3. IF seen.even /\ even
      THEN seen' = [seen EXCEPT !.kids = f] ELSE seen' = [seen EXCEPT !.even = FALSE, !.kids = g]
    BY DEF KidsBecome
<1> HIDE DEF f, g
<1>4. CASE seen.even /\ even
    BY <1>1, <1>2, <1>3, <1>4 DEF SeenType
<1>5. CASE ~(seen.even /\ even)
    BY <1>1, <1>3, <1>5 DEF SeenType
<1> QED
    BY <1>4, <1>5

(* A step in which no child begins, and the group does not begin either.   *)
LEMMA RoundGoesOn ==
    ASSUME GTyped, Rounds, NEW new, new \in [Kids -> AnimationType], NEW even \in BOOLEAN,
           KidsBecome(new, even), grp'.loopcount = grp.loopcount, Over(grp) => Over(grp'),
           \A i \in Kids : Over(kids[i]) => Over(new[i])
    PROVE  Rounds'
<1>1. /\ Kids' = Kids /\ \A i \in Kids : kids'[i] = new[i] /\ seen.kids[i] \in KidType
    BY Becomes, KidsAre DEF KidsBecome
<1>2. seen'.asked = seen.asked /\ seen.asked \in Int /\ seen.asked < MaxRounds /\ MaxRounds \in Nat
    BY SeenEven, AskedIs
<1>3. CASE ~seen'.even \/ Over(grp') \/ seen.asked = INFINITE
    BY <1>2, <1>3, SeenEven DEF Rounds
<1>4. CASE seen'.even /\ ~Over(grp') /\ seen.asked # INFINITE
    <2> DEFINE round == seen.asked - grp.loopcount
    <2>1. /\ grp.loopcount \in 1..seen.asked
          /\ \A i \in Kids : seen.kids[i].ended = EndedIn(kids[i], round)
        BY <1>4, SeenEven DEF Rounds
    <2>2. round \in Nat /\ round + 1 < MaxRounds
        BY <1>2, <2>1
    <2> HIDE DEF round
    <2>3. ASSUME NEW i \in Kids
          PROVE  seen'.kids[i].ended = EndedIn(kids'[i], round)
        <3> DEFINE k == seen.kids[i]
                   a == kids[i]
                   b == new[i]
        <3>1. k \in KidType /\ k.ended = EndedIn(a, round) /\ (Over(a) => Over(b))
            BY <1>1, <2>1, <2>3
        <3>2. seen'.kids[i].ended = KidSeen(k, a, b).ended /\ kids'[i] = b
            BY <1>1, <1>4, <2>3, SeenEven
        <3> HIDE DEF k, a, b
        <3>3. KidSeen(k, a, b).ended = EndedIn(b, round)
            <4>1. CASE Over(a) \/ ~Over(b)
                BY <3>1, <4>1, KidSeenEnds DEF EndedIn
            <4>2. CASE ~Over(a) /\ Over(b)
                <5>1. k.ended = round /\ KidSeen(k, a, b).ended = UpTo(round + 1, MaxRounds)
                    BY <3>1, <4>2, KidSeenEnds DEF EndedIn
                <5> QED
                    BY <2>2, <4>2, <5>1, BoundsAssumption DEF EndedIn, UpTo
            <4> QED
                BY <4>1, <4>2
        <3> QED
            BY <3>2, <3>3
    <2>4. grp'.loopcount \in 1..seen'.asked /\ seen'.asked - grp'.loopcount = round
        BY <1>2, <2>1 DEF round
    <2> QED
        BY <1>1, <1>2, <1>4, <2>3, <2>4 DEF Rounds
<1> QED
    BY <1>3, <1>4

LEMMA RInit == Init => Rounds
BY DEF Init, Rounds, Over, Fresh

LEMMA RAdd ==
    ASSUME GInv, Rounds, AddToGroup
    PROVE  Rounds'
<1> DEFINE e == seen.even /\ Over(grp)
           k == Append(seen.kids, NewKid)
<1>1. seen' = [seen EXCEPT !.kids = k, !.even = e] /\ grp' = grp /\ seen \in SeenType
    BY DEF AddToGroup, GInv, GTyped, SeenType
<1> HIDE DEF k, e
<1>2. seen'.asked = seen.asked /\ seen'.even = e
    BY <1>1 DEF SeenType
<1> QED
    BY <1>1, <1>2 DEF Rounds, e

LEMMA RSetLoopcount ==
    ASSUME GInv, Rounds, SetLoopcount
    PROVE  Rounds'
<1>1. PICK n \in Loopcounts : /\ grp' = [grp EXCEPT !.loopcount = n]
                              /\ seen' = [seen EXCEPT !.asked = n, !.even = @ /\ Over(grp)]
    BY DEF SetLoopcount
<1> DEFINE e == seen.even /\ Over(grp)
<1>2. seen' = [seen EXCEPT !.asked = n, !.even = e] /\ seen \in SeenType /\ grp \in AnimationType
    BY <1>1 DEF GInv, GTyped, SeenType
<1> HIDE DEF e
<1>3. seen'.asked = n /\ seen'.even = e /\ grp'.state = grp.state
    BY <1>1, <1>2 DEF SeenType, AnimationType
<1> QED
    BY <1>3 DEF Rounds, Over, e

LEMMA RStop ==
    ASSUME GInv, Rounds, StopCall
    PROVE  Rounds'
<1>1. grp' = Stop(grp) /\ seen' = seen /\ grp \in AnimationType /\ grp.keepalive = TRUE
    BY DEF StopCall, GInv, GTyped
<1>2. Over(grp')
    BY <1>1, StopIs, EndedIs DEF Over
<1> QED
    BY <1>1, <1>2 DEF Rounds

LEMMA RRun ==
    ASSUME GInv, Rounds, AsyncRun
    PROVE  Rounds'
<1> DEFINE new == [i \in Kids |-> Start(kids[i])]
           f == KidsSeen(new)
           g == [i \in Kids |-> [f[i] EXCEPT !.ended = 0]]
           e == /\ pc = "idle" /\ seen.asked = grp.loopcount
                /\ \A i \in Kids : ~kids[i].state = "RUNNING"
<1>1. /\ grp' = Start(grp) /\ kids' = new
      /\ IF Over(grp) THEN seen' = [seen EXCEPT !.kids = g, !.even = e]
                      ELSE seen' = [seen EXCEPT !.kids = f, !.even = FALSE]
    BY DEF AsyncRun
<1>2. /\ GTyped /\ seen \in SeenType /\ grp \in AnimationType
    BY DEF GInv, GTyped
<1>3. ASSUME NEW i \in Kids
      PROVE  new[i] \in AnimationType /\ ~Over(new[i]) /\ g[i].ended = 0
    <2>1. KidOK(Start(kids[i])) /\ Start(kids[i]).state = "READY" /\ seen.kids[i] \in KidType
        BY <1>3, KidAt, KidStart
    <2>2. f[i] = KidSeen(seen.kids[i], kids[i], Start(kids[i]))
        BY <1>3 DEF KidsSeen
    <2>3. f[i] \in KidType
        BY <2>1, <2>2, KidSeenIs
    <2> HIDE DEF f
    <2> QED
        BY <1>3, <2>1, <2>3 DEF KidOK, Over, KidType
<1>4. new \in [Kids -> AnimationType]
    BY <1>3
<1> HIDE DEF new, f, g
<1>5. Kids' = Kids /\ \A i \in Kids : kids'[i] = new[i]
    BY <1>1, <1>2, <1>4, Becomes
<1>6. seen'.asked = seen.asked
    BY <1>1, <1>2 DEF SeenType
<1>7. CASE ~seen'.even
    BY <1>6, <1>7 DEF Rounds
<1>8. CASE seen'.even
    <2>1. Over(grp)
        BY <1>1, <1>2, <1>8 DEF SeenType
    <2> HIDE DEF e
    <2>2. seen'.kids = g /\ e
        BY <1>1, <1>2, <1>8, <2>1 DEF SeenType
    <2>3. seen.asked = grp.loopcount /\ grp'.loopcount = grp.loopcount
        BY <1>1, <1>2, <2>2, StartIs DEF SameLine, e
    <2>4. \A i \in Kids : seen'.kids[i].ended = EndedIn(kids'[i], 0)
        BY <1>3, <1>5, <2>2 DEF EndedIn
    <2>5. seen.asked # INFINITE => seen.asked \in Nat \ {0}
        BY AskedIs
    <2> QED
        BY <1>5, <1>6, <2>3, <2>4, <2>5 DEF Rounds
<1> QED
    BY <1>7, <1>8

LEMMA RPause ==
    ASSUME GInv, Rounds, Pause
    PROVE  Rounds'
<1> DEFINE new == [i \in Kids |-> Paused(kids[i])]
<1>1. grp' = Paused(grp) /\ KidsBecome(new, TRUE) /\ grp \in AnimationType /\ GTyped
    BY DEF Pause, GInv, GTyped
<1>2. grp'.loopcount = grp.loopcount /\ (Over(grp) => Over(grp'))
    BY <1>1, PausedIs DEF Over, SameLine
<1>3. \A i \in Kids : new[i] \in AnimationType /\ (Over(kids[i]) => Over(new[i]))
    BY KidAt, PausedIs DEF Over
<1>4. new \in [Kids -> AnimationType]
    BY <1>3
<1> HIDE DEF new
<1> QED
    BY <1>1, <1>2, <1>3, <1>4, RoundGoesOn

LEMMA RResume ==
    ASSUME GInv, Rounds, ResumeCall
    PROVE  Rounds'
<1> DEFINE new == [i \in Kids |-> Resume(kids[i])]
<1>1. grp' = Resume(grp) /\ KidsBecome(new, TRUE) /\ grp \in AnimationType /\ GTyped
    BY DEF ResumeCall, GInv, GTyped
<1>2. grp'.loopcount = grp.loopcount /\ (Over(grp) => Over(grp'))
    BY <1>1, ResumeIs DEF Over, SameLine
<1>3. \A i \in Kids : new[i] \in AnimationType /\ (Over(kids[i]) => Over(new[i]))
    BY KidAt, ResumeIs DEF Over
<1>4. new \in [Kids -> AnimationType]
    BY <1>3
<1> HIDE DEF new
<1> QED
    BY <1>1, <1>2, <1>3, <1>4, RoundGoesOn

LEMMA RStopKid ==
    ASSUME GInv, Rounds, StopKid
    PROVE  Rounds'
<1>1. PICK p \in Kids : KidsBecome([kids EXCEPT ![p] = Stop(@)], FALSE)
    BY DEF StopKid
<1> DEFINE b == Stop(kids[p])
           new == [kids EXCEPT ![p] = b]
<1>2. KidsBecome(new, FALSE) /\ GTyped /\ kids \in [Kids -> AnimationType]
    BY <1>1, KidsAre DEF GInv
<1>3. b \in AnimationType
    BY KidAt, KidCalled DEF KidOK
<1>4. new \in [Kids -> AnimationType]
    BY <1>2, <1>3
<1> HIDE DEF new
<1>5. seen'.asked = seen.asked /\ ~seen'.even
    BY <1>2, <1>4, SeenEven
<1> QED
    BY <1>5 DEF Rounds

LEMMA RPassReady ==
    ASSUME GInv, Rounds, PassReady
    PROVE  Rounds'
<1> DEFINE new == IF kind = "PARALLEL" THEN [i \in Kids |-> SetStart(kids[i], 0)] ELSE kids
<1>1. /\ grp' = SetStart(grp, 0) /\ KidsBecome(new, TRUE) /\ grp \in AnimationType
      /\ grp.state = "READY" /\ GTyped
    BY DEF PassReady, GInv, GTyped
<1>2. grp'.loopcount = grp.loopcount /\ (Over(grp) => Over(grp'))
    BY <1>1, SetStartIs DEF Over
<1>3. ASSUME NEW i \in Kids
      PROVE  /\ SetStart(kids[i], 0) \in AnimationType
             /\ Over(kids[i]) => Over(SetStart(kids[i], 0))
    BY <1>3, KidAt, KidBegin DEF KidOK, Over
<1>4. new \in [Kids -> AnimationType] /\ \A i \in Kids : Over(kids[i]) => Over(new[i])
    <2>1. CASE kind = "PARALLEL"
        BY <1>3, <2>1
    <2>2. CASE kind # "PARALLEL"
        BY <1>1, <2>2, KidsAre
    <2> QED
        BY <2>1, <2>2
<1> HIDE DEF new
<1> QED
    BY <1>1, <1>2, <1>4, RoundGoesOn

(* One child goes on or ends. *)
LEMMA ROneKid ==
    ASSUME GInv, Rounds, grp' = grp, NEW p \in Kids, NEW b \in AnimationType,
           Over(kids[p]) => Over(b), KidsBecome([kids EXCEPT ![p] = b], TRUE)
    PROVE  Rounds'
<1> DEFINE new == [kids EXCEPT ![p] = b]
<1>1. GTyped /\ kids \in [Kids -> AnimationType] /\ KidsBecome(new, TRUE)
    BY KidsAre DEF GInv
<1>2. new \in [Kids -> AnimationType] /\ \A i \in Kids : Over(kids[i]) => Over(new[i])
    BY <1>1
<1> HIDE DEF new
<1> QED
    BY <1>1, <1>2, RoundGoesOn

LEMMA RUpdateKid ==
    ASSUME GInv, Rounds, UpdateKid
    PROVE  Rounds'
<1>1. PICK p \in Kids : LET b == Advance(SetStart(kids[p], 0), -lag)
                        IN  IsNext(p) /\ KidsBecome([kids EXCEPT ![p] = b], TRUE)
    BY DEF UpdateKid
<1>2. grp' = grp /\ lag \in Nat /\ Active(kids[p])
    BY <1>1, BoundsAssumption DEF UpdateKid, GInv, GTyped, IsNext
<1> DEFINE b == Advance(SetStart(kids[p], 0), -lag)
<1>3. KidsBecome([kids EXCEPT ![p] = b], TRUE)
    BY <1>1
<1>4. b \in AnimationType
    BY <1>2, KidAt, KidAdvance DEF KidOK
<1>5. ~Over(kids[p])
    BY <1>2 DEF Active, Over
<1> HIDE DEF b
<1> QED
    BY <1>2, <1>3, <1>4, <1>5, ROneKid

LEMMA RKidUpdated ==
    ASSUME GInv, Rounds, KidUpdated
    PROVE  Rounds'
<1> DEFINE b == EndUpdate(kids[pos], total)
<1>1. grp' = grp /\ pc = "show" /\ KidsBecome([kids EXCEPT ![pos] = b], TRUE)
    BY DEF KidUpdated
<1>2. pos \in Kids /\ total \in Int
    BY <1>1 DEF GInv, GTyped
<1>3. KidOK(b) /\ (b = kids[pos] \/ b.state = "STOPPED")
    BY <1>2, KidAt, KidEnd
<1> HIDE DEF b
<1> QED
    BY <1>1, <1>2, <1>3, ROneKid DEF KidOK, Over

(* A round begins: what is over begins again, and what begins is active.   *)
LEMMA RepeatedIs ==
    ASSUME NEW i \in Kids, GInv
    PROVE  Over(kids[i]) => Repeated(kids[i]) \in AnimationType /\ ~Over(Repeated(kids[i]))
<1> SUFFICES ASSUME Over(kids[i])
             PROVE  Repeated(kids[i]) \in AnimationType /\ ~Over(Repeated(kids[i]))
    OBVIOUS
<1>1. /\ KidOK(Repeated(kids[i])) /\ Repeated(kids[i]).state \in {"READY", "RUNNING"}
    BY KidAt, KidRepeat
<1> QED
    BY <1>1 DEF KidOK, Over

(* An active group counts its rounds down, and ends with the last.         *)
LEMMA CountedDown ==
    ASSUME NEW a \in AnimationType, a.keepalive = TRUE,
           a.loopcount = INFINITE \/ a.loopcount \in Nat \ {0}
    PROVE  /\ a.loopcount = INFINITE => CountDown(a) = a
           /\ a.loopcount # INFINITE => CountDown(a).loopcount = a.loopcount - 1
           /\ a.loopcount = 1 \/ Over(a) => Over(CountDown(a))
<1> DEFINE n == IF a.loopcount > 0 THEN a.loopcount - 1 ELSE a.loopcount
           b == [a EXCEPT !.loopcount = n]
<1>1. CountDown(a) = IF b.loopcount = 0 THEN SetState(b, "STOPPED") ELSE b
    BY DEF CountDown, AnimationType
<1>2. n \in Int /\ (a.loopcount = INFINITE => n = a.loopcount) /\ (a.loopcount # INFINITE => n = a.loopcount - 1)
    BY DEF INFINITE
<1> HIDE DEF n
<1>3. b \in AnimationType /\ b.keepalive = TRUE /\ b.state = a.state /\ b.loopcount = n
    BY <1>2 DEF AnimationType
<1>4. a.loopcount = INFINITE => b = a
    BY <1>2 DEF AnimationType
<1> HIDE DEF b
<1>5. SetState(b, "STOPPED").loopcount = n /\ Over(SetState(b, "STOPPED"))
    <2>1. CASE b.state = "STOPPED"
        BY <1>3, <2>1 DEF SetState, Over
    <2>2. CASE b.state # "STOPPED"
        BY <1>3, <2>2, EndedIs DEF SetState, Over, SameLine
    <2> QED
        BY <2>1, <2>2
<1>6. a.loopcount = INFINITE => n # 0
    BY <1>2 DEF INFINITE
<1>7. a.loopcount = 1 => n = 0
    BY <1>2 DEF INFINITE
<1>8. Over(a) => Over(b)
    BY <1>3 DEF Over
<1> QED
    BY <1>1, <1>2, <1>3, <1>4, <1>5, <1>6, <1>7, <1>8

LEMMA REndScan ==
    ASSUME GInv, Rounds, Steady, EndScan
    PROVE  Rounds'
<1>1. GTyped /\ grp \in AnimationType /\ grp.keepalive = TRUE
    BY DEF GInv, GTyped
<1>2. CASE found
    <2>1. UNCHANGED <<grp, kids, seen>> /\ Kids' = Kids
        BY <1>2 DEF EndScan, Kids
    <2> QED
        BY <2>1 DEF Rounds, EndedIn, Over
<1>3. CASE ~found
    <2> DEFINE new == IF grp'.loopcount = 0 THEN kids ELSE [i \in Kids |-> Repeated(kids[i])]
    <2>1. ScanOver /\ grp' = CountDown(grp) /\ KidsBecome(new, TRUE)
        BY <1>3 DEF EndScan
    <2>2. \A i \in Kids : Over(kids[i])
        BY <1>3, <2>1, AllAreOver
    <2>3. ASSUME grp'.loopcount # 0, NEW i \in Kids
          PROVE  new[i] \in AnimationType /\ ~Over(new[i])
        BY <2>2, <2>3, RepeatedIs
    <2>4. new \in [Kids -> AnimationType]
        <3>1. CASE grp'.loopcount = 0
            BY <1>1, <3>1, KidsAre
        <3>2. CASE grp'.loopcount # 0
            BY <2>3, <3>2
        <3> QED
            BY <3>1, <3>2
    <2> HIDE DEF new
    <2>5. /\ Kids' = Kids /\ \A i \in Kids : kids'[i] = new[i] /\ seen.kids[i] \in KidType
        BY <1>1, <2>1, <2>4, Becomes, KidsAre DEF KidsBecome
    <2>6. /\ seen'.asked = seen.asked
          /\ seen'.even => /\ seen.even
                           /\ \A i \in Kids : seen'.kids[i].ended =
                                                 KidSeen(seen.kids[i], kids[i], new[i]).ended
        BY <1>1, <2>1, <2>4, SeenEven
    <2>7. CASE ~seen'.even \/ Over(grp')
        BY <2>6, <2>7 DEF Rounds
    <2>8. CASE seen'.even /\ ~Over(grp')
        <3>1. seen.even /\ seen.asked \in Int /\ (seen.asked # INFINITE => seen.asked \in Nat \ {0})
            BY <2>6, <2>8, AskedIs
        <3>2. ~Over(grp)
            <4> SUFFICES ASSUME Over(grp)
                         PROVE  Over(CountDown(grp))
                BY <2>1, <2>8
            <4>1. grp.state # "REMOVE"
                BY DEF GInv, GTyped
            <4> QED
                BY <1>1, <4>1, CountDownIs DEF Over
        <3>3. CASE seen.asked = INFINITE
            <4>1. grp.loopcount = INFINITE
                BY <3>1, <3>2, <3>3 DEF Rounds
            <4>2. grp' = grp
                BY <1>1, <2>1, <4>1, CountedDown
            <4> QED
                BY <2>6, <3>3, <4>1, <4>2 DEF Rounds
        <3>4. CASE seen.asked # INFINITE
            <4>1. /\ grp.loopcount \in 1..seen.asked
                  /\ \A i \in Kids : seen.kids[i].ended = EndedIn(kids[i], seen.asked - grp.loopcount)
                BY <3>1, <3>2, <3>4 DEF Rounds
            <4>2. grp.loopcount \in Nat \ {0} /\ grp.loopcount # INFINITE
                BY <3>1, <4>1 DEF INFINITE
            <4>3. grp'.loopcount = grp.loopcount - 1 /\ grp.loopcount # 1
                BY <1>1, <2>1, <2>8, <4>2, CountedDown
            <4>4. grp'.loopcount \in 1..seen.asked
                BY <3>1, <4>1, <4>2, <4>3
            <4>5. seen.asked - grp'.loopcount = (seen.asked - grp.loopcount) + 1 /\ grp'.loopcount # 0
                BY <3>1, <4>2, <4>3
            <4>6. ASSUME NEW i \in Kids
                  PROVE  seen'.kids[i].ended = EndedIn(kids'[i], seen.asked - grp'.loopcount)
                <5>1. Over(kids[i]) /\ ~Over(kids'[i]) /\ kids'[i] = new[i]
                    BY <2>2, <2>3, <2>5, <4>5, <4>6
                <5>2. seen'.kids[i].ended = seen.kids[i].ended
                    BY <2>5, <2>6, <2>8, <4>6, <5>1, KidSeenEnds
                <5>3. seen.kids[i].ended = (seen.asked - grp.loopcount) + 1
                    BY <4>1, <4>6, <5>1 DEF EndedIn
                <5> QED
                    BY <4>5, <5>1, <5>2, <5>3 DEF EndedIn
            <4> QED
                BY <2>5, <2>6, <3>4, <4>4, <4>6 DEF Rounds
        <3> QED
            BY <3>3, <3>4
    <2> QED
        BY <2>7, <2>8
<1> QED
    BY <1>2, <1>3

LEMMA RTick ==
    ASSUME GInv, Rounds, Tick
    PROVE  Rounds'
<1> DEFINE new == [i \in Kids |-> Older(kids[i])]
           ticked == [i \in Kids |-> Watched(seen.kids[i], kids[i])]
<1>1. kids' = new /\ seen' = [seen EXCEPT !.kids = ticked] /\ grp' = grp /\ seen \in SeenType
    BY DEF Tick, GInv, GTyped
<1>2. ASSUME NEW i \in Kids
      PROVE  /\ new[i] \in AnimationType /\ new[i].state = kids[i].state
             /\ ticked[i].ended = seen.kids[i].ended
    <2>1. /\ seen.kids[i] \in KidType /\ KidOK(Older(kids[i])) /\ Older(kids[i]).state = kids[i].state
        BY <1>2, KidAt, KidTick
    <2>2. Watched(seen.kids[i], kids[i]).ended = seen.kids[i].ended
        BY <2>1 DEF Watched, KidType
    <2> QED
        BY <1>2, <2>1, <2>2 DEF KidOK
<1>3. new \in [Kids -> AnimationType]
    BY <1>2
<1> HIDE DEF new, ticked
<1>4. Kids' = Kids /\ \A i \in Kids : kids'[i] = new[i]
    BY <1>1, <1>3, Becomes DEF GInv
<1>5. seen'.asked = seen.asked /\ seen'.even = seen.even /\ seen'.kids = ticked
    BY <1>1 DEF SeenType
<1>6. \A i \in Kids : EndedIn(kids'[i], seen.asked - grp.loopcount) = EndedIn(kids[i], seen.asked - grp.loopcount)
    BY <1>2, <1>4 DEF EndedIn, Over
<1> QED
    BY <1>1, <1>2, <1>4, <1>5, <1>6 DEF Rounds

LEMMA RStep ==
    ASSUME Steady, GInv, Rounds, [Next]_vars
    PROVE  Rounds'
<1>1. CASE UserCall
    BY <1>1, RAdd, RRun, RStop, RPause, RResume, RSetLoopcount, RStopKid DEF UserCall
<1>2. CASE PassReady \/ UpdateKid \/ KidUpdated \/ EndScan
    BY <1>2, RPassReady, RUpdateKid, RKidUpdated, REndScan
<1>3. CASE PassRunning \/ PassStopped \/ KidReported \/ UNCHANGED vars
    <2>1. UNCHANGED <<grp, kids, seen>> /\ Kids' = Kids
        BY <1>3 DEF PassRunning, PassStopped, KidReported, vars, Kids
    <2> QED
        BY <2>1 DEF Rounds, EndedIn, Over
<1>4. CASE Tick
    BY <1>4, RTick
<1> QED
    BY <1>1, <1>2, <1>3, <1>4 DEF Next, Pass

(***************************************************************************)
(* When an undisturbed group ends, every child has run as often as the     *)
(* loop count says, for any loop count; an endless group does not end.     *)
(***************************************************************************)
THEOREM RoundsAreComplete ==
    ASSUME Steady
    PROVE  Spec => EveryRound
<1>1. Init => Rounds
    BY RInit
<1>2. GInv /\ Rounds /\ [Next]_vars => Rounds'
    BY Steady, RStep
<1>3. ASSUME GInv, Rounds, [Next]_vars
      PROVE  [(EndScan /\ ~Over(grp) /\ Over(grp)' /\ seen.even)
                 => \A i \in Kids : seen.kids[i].ended = seen.asked]_vars
    <2> SUFFICES ASSUME EndScan, ~Over(grp), Over(grp)', seen.even, NEW i \in Kids
                 PROVE  seen.kids[i].ended = seen.asked
        OBVIOUS
    <2>1. /\ ~found /\ ScanOver /\ grp' = CountDown(grp)
          /\ grp \in AnimationType /\ grp.keepalive = TRUE
        BY <1>3 DEF EndScan, Over, GInv, GTyped
    <2>2. Over(kids[i])
        BY <1>3, <2>1, AllAreOver
    <2>3. seen.asked \in Int /\ (seen.asked # INFINITE => seen.asked \in Nat \ {0})
        BY <1>3, AskedIs
    <2>4. seen.asked # INFINITE
        <3> SUFFICES ASSUME grp.loopcount = INFINITE
                     PROVE  FALSE
            BY <1>3 DEF Rounds
        <3> QED
            BY <2>1, CountedDown
    <2>5. /\ grp.loopcount \in 1..seen.asked
          /\ seen.kids[i].ended = EndedIn(kids[i], seen.asked - grp.loopcount)
        BY <1>3, <2>4 DEF Rounds
    <2>6. grp.loopcount = 1
        <3>1. CountDown(grp) = [grp EXCEPT !.loopcount = grp.loopcount - 1] \/ grp.loopcount = 1
            BY <2>1, <2>3, <2>4, <2>5 DEF CountDown, AnimationType
        <3> QED
            BY <2>1, <3>1 DEF Over, AnimationType
    <2> QED
        BY <2>2, <2>3, <2>4, <2>5, <2>6 DEF EndedIn
<1> QED
    BY Invariant, <1>1, <1>2, <1>3, PTL DEF Spec, EveryRound
=============================================================================
