--------------------------- MODULE EffectorProofs ---------------------------
(***************************************************************************)
(* Theorems about Effector: an application that follows all the rules      *)
(* never makes the library use or free what is not there, leaves nothing   *)
(* behind, and pairs begindraw and enddraw.                                *)
(***************************************************************************)
EXTENDS Effector, TLAPS

(* The application follows every rule. *)
AllRules == Careful = Rules

-----------------------------------------------------------------------------
(***************************************************************************)
(* The inductive invariant.                                                *)
(***************************************************************************)
FillType == [step : {"none", "wait", "done"}, eff : Effectors \cup {NoEff},
             sink : Sinks \cup {NoSink}, anim : Anims \cup {NoAnim}]
RollerType == [step : {"none", "made", "runs", "over", "gone"},
               eff : [1..2 -> Effectors \cup {NoEff}],
               sink : [1..2 -> Sinks \cup {NoSink}],
               anim : [1..2 -> Anims \cup {NoAnim}]]

(* What TypeOK says, and the objects that the compositions keep. *)
Typed ==
    /\ classes \subseteq Classes
    /\ eff \in [Effectors -> EffType]
    /\ snk \in [Sinks -> SinkType]
    /\ anim \in [Anims -> AnimType]
    /\ listed \subseteq Anims
    /\ fill \in FillType
    /\ roller \in RollerType
    /\ fault \in BOOLEAN

(* A live effector has its context, its DC and, if it has one, its sink; a *)
(* freed one has left nothing.                                             *)
EffsOK ==
    \A e \in Effectors :
        /\ eff[e].life = "live" =>
              /\ HasContext(eff[e].class) => eff[e].ctx = "live"
              /\ eff[e].dc # "freed"
              /\ eff[e].dc = "white" =>
                    roller.step # "none" /\ (e = roller.eff[1] \/ e = roller.eff[2])
              /\ eff[e].sink # NoSink => snk[eff[e].sink].life = "live"
        /\ eff[e].life # "live" => eff[e].sink = NoSink /\ eff[e].res # "live"
        /\ eff[e].life = "freed" => eff[e].ctx # "live" /\ eff[e].dc \in {"app", "freed"}

OwnSinks ==
    \A e, f \in Effectors : eff[e].sink # NoSink /\ eff[e].sink = eff[f].sink => e = f

SinksOK ==
    \A k \in Sinks :
        /\ snk[k].life = "none" => snk[k].buf = "none"
        /\ snk[k].life = "live" => snk[k].buf # "freed"
        /\ snk[k].life = "freed" => snk[k].buf # "live"

AnimsOK ==
    \A a \in Anims :
        /\ anim[a].life = "live" =>
              anim[a].target \in Effectors /\ eff[anim[a].target].life # "none"
        /\ anim[a].life # "live" => anim[a].state = "STOPPED" /\ a \notin listed
        /\ anim[a].state # "STOPPED" => anim[a].ran
        /\ anim[a].state = "REMOVE" => ~anim[a].keepalive

(* An animation that has not come to its end can be drawn, *)
Draws == \A a \in Anims : Drawing(a) => Drawable(anim[a].target)

(* is the only one for an effector with drawing resources, *)
OneDraws ==
    \A a, b \in Anims :
        (/\ Drawing(a) /\ Drawing(b) /\ anim[a].target = anim[b].target
         /\ HasResources(eff[anim[a].target].class)) => a = b

(* and is what such resources are there for. *)
Held == \A e \in Effectors : eff[e].res = "live" => HasResources(eff[e].class) /\ BusyEff(e)

(* What mGEffFillEffectorAnimation made is its own until it has returned. *)
FillOK ==
    /\ fill.step # "none" =>
          /\ fill.eff \in Effectors /\ fill.anim \in Anims
          /\ eff[fill.eff].life # "none" /\ anim[fill.anim].life # "none"
          /\ \A a \in Anims : anim[a].life = "live" /\ anim[a].target = fill.eff => a = fill.anim
    /\ fill.step = "wait" =>
          /\ eff[fill.eff].life = "live" /\ eff[fill.eff].dc = "app"
          /\ anim[fill.anim].ran /\ anim[fill.anim].keepalive /\ anim[fill.anim].cb = "enddraw"
          /\ fill.anim \notin listed => anim[fill.anim].state = "STOPPED"

(* The same for effector i and animation i of the roller. *)
RollerPair(i) ==
    LET e == roller.eff[i]
        a == roller.anim[i]
    IN  /\ e \in Effectors /\ a \in Anims
        /\ eff[e].life # "none" /\ anim[a].life # "none"
        /\ a \notin listed
        /\ \A b \in Anims : anim[b].life = "live" /\ anim[b].target = e => b = a
        /\ roller.step # "gone" =>
              /\ anim[a].life = "live" /\ anim[a].keepalive
              /\ anim[a].cb = "roller" /\ anim[a].target = e
        /\ Drawing(a) => eff[e].dc = "white" /\ eff[e].class = "zoom"
        /\ roller.step = "made" => ~anim[a].ran
        /\ roller.step = "runs" => anim[a].ran
        /\ roller.step \in {"over", "gone"} => ~Drawing(a)

RollerOK ==
    /\ \A a \in Anims : anim[a].cb = "roller" /\ anim[a].life = "live" =>
          roller.step # "none" /\ a \in Kids
    /\ roller.step # "none" =>
          /\ RollerPair(1) /\ RollerPair(2)
          /\ roller.anim[1] # roller.anim[2]

Safe == /\ EffsOK /\ OwnSinks /\ SinksOK /\ AnimsOK
        /\ Draws /\ OneDraws /\ Held /\ FillOK /\ RollerOK /\ NoFault

EInv == Typed /\ Safe
-----------------------------------------------------------------------------
(***************************************************************************)
(* What the operators on single objects return.                            *)
(***************************************************************************)
LEMMA NoEffectorIs ==
    /\ NoEffector \in EffType
    /\ NoEffector.life = "none" /\ NoEffector.dc = "app" /\ NoEffector.ctx = "none"
    /\ NoEffector.res = "none" /\ NoEffector.sink = NoSink
<1>1. (CHOOSE c \in Classes : TRUE) \in Classes
    BY ClassesAssumption
<1> QED
    BY <1>1 DEF NoEffector, EffType, Life

LEMMA CreatedIs ==
    ASSUME NEW c \in Classes, NEW dc \in {"app", "source", "white"}
    PROVE  /\ Created(c, dc) \in EffType
           /\ Created(c, dc).life = "live" /\ Created(c, dc).class = c
           /\ Created(c, dc).dc = dc /\ Created(c, dc).res = "none"
           /\ Created(c, dc).sink = NoSink
           /\ HasContext(c) => Created(c, dc).ctx = "live"
<1> DEFINE n == NoEffector
<1>1. n \in EffType /\ n.res = "none" /\ n.sink = NoSink
    BY NoEffectorIs
<1>2. (IF HasContext(c) THEN "live" ELSE "none") \in Life
    BY DEF Life
<1> HIDE DEF n
<1>3. Created(c, dc) = [n EXCEPT !.life = "live", !.class = c, !.dc = dc,
                                 !.ctx = IF HasContext(c) THEN "live" ELSE "none"]
    BY DEF Created, n
<1> QED
    BY <1>1, <1>2, <1>3 DEF EffType, Life

LEMMA FreedEffIs ==
    ASSUME eff \in [Effectors -> EffType], NEW e \in Effectors
    PROVE  /\ FreedEff(e) \in EffType
           /\ FreedEff(e).life = "freed" /\ FreedEff(e).res = eff[e].res
           /\ FreedEff(e).sink = NoSink /\ FreedEff(e).ctx # "live"
           /\ eff[e].dc = "source" => FreedEff(e).dc = "freed"
           /\ eff[e].dc # "source" => FreedEff(e).dc = eff[e].dc
<1> DEFINE n == NoEffector
           r == eff[e]
           ctx == IF r.ctx = "live" THEN "freed" ELSE "none"
           dc == IF r.dc = "source" THEN "freed" ELSE r.dc
<1>1. n \in EffType /\ n.sink = NoSink /\ r \in EffType
    BY NoEffectorIs
<1> HIDE DEF n, r
<1>2. /\ ctx \in Life /\ ctx # "live"
      /\ dc \in {"app", "source", "white", "freed"}
      /\ r.res \in Life
    BY <1>1 DEF EffType, Life
<1>3. FreedEff(e) = [n EXCEPT !.life = "freed", !.res = r.res, !.ctx = ctx, !.dc = dc]
    BY DEF FreedEff, n, r
<1>4. /\ r.dc = "source" => dc = "freed"
      /\ r.dc # "source" => dc = r.dc
    OBVIOUS
<1> HIDE DEF ctx, dc
<1>5. /\ FreedEff(e) \in EffType
      /\ FreedEff(e).life = "freed" /\ FreedEff(e).res = r.res
      /\ FreedEff(e).sink = NoSink /\ FreedEff(e).ctx = ctx /\ FreedEff(e).dc = dc
    BY <1>1, <1>2, <1>3 DEF EffType, Life
<1> QED
    BY <1>2, <1>4, <1>5 DEF r

LEMMA FreedSinkIs ==
    ASSUME snk \in [Sinks -> SinkType], NEW k \in Sinks
    PROVE  /\ FreedSink(k) \in SinkType
           /\ FreedSink(k).life = "freed" /\ FreedSink(k).buf # "live"
BY DEF FreedSink, SinkType, Life

LEMMA NoAnimationIs ==
    /\ NoAnimation \in AnimType /\ FreedAnim \in AnimType
    /\ NoAnimation.life = "none" /\ NoAnimation.state = "STOPPED" /\ NoAnimation.cb = "enddraw"
    /\ FreedAnim.life = "freed" /\ FreedAnim.state = "STOPPED"
<1> DEFINE n == NoAnimation
<1>1. n \in AnimType /\ n.life = "none" /\ n.state = "STOPPED" /\ n.cb = "enddraw"
    BY LengthAssumption DEF NoAnimation, AnimType, Life
<1> HIDE DEF n
<1>2. FreedAnim = [n EXCEPT !.life = "freed"]
    BY DEF FreedAnim, n
<1> QED
    BY <1>1, <1>2 DEF AnimType, Life, n

LEMMA RunIs ==
    ASSUME anim \in [Anims -> AnimType], NEW a \in Anims
    PROVE  /\ Run(a) \in AnimType
           /\ Run(a).life = anim[a].life /\ Run(a).state = "ACTIVE" /\ Run(a).ran = TRUE
           /\ Run(a).keepalive = anim[a].keepalive /\ Run(a).target = anim[a].target
           /\ Run(a).cb = anim[a].cb
<1> DEFINE r == anim[a]
           left == IF r.state = "STOPPED" THEN Length ELSE r.left
<1>1. r \in AnimType
    OBVIOUS
<1> HIDE DEF r
<1>2. left \in 0..Length
    BY <1>1, LengthAssumption DEF AnimType
<1>3. Run(a) = [r EXCEPT !.state = "ACTIVE", !.ran = TRUE, !.left = left]
    BY <1>1 DEF Run, r, AnimType
<1> HIDE DEF left
<1>4. /\ Run(a) \in AnimType
      /\ Run(a).life = r.life /\ Run(a).state = "ACTIVE" /\ Run(a).ran = TRUE
      /\ Run(a).keepalive = r.keepalive /\ Run(a).target = r.target
      /\ Run(a).cb = r.cb
    BY <1>1, <1>2, <1>3 DEF AnimType
<1> QED
    BY <1>4 DEF r

LEMMA RulesFollowed ==
    ASSUME AllRules
    PROVE  /\ Follows("complete") /\ Follows("one_anim") /\ Follows("one_run")
           /\ Follows("stop_once") /\ Follows("over_first") /\ Follows("auto_delete")
           /\ Follows("own_sink")
BY DEF AllRules, Follows, Rules

LEMMA SinkGoneIs ==
    ASSUME Typed, NEW e \in Effectors
    PROVE  /\ SinkGone(e) \in [Sinks -> SinkType]
           /\ \A k \in Sinks :
                 /\ k # eff[e].sink => SinkGone(e)[k] = snk[k]
                 /\ k = eff[e].sink => /\ SinkGone(e)[k].life = "freed"
                                       /\ SinkGone(e)[k].buf # "live"
<1>1. /\ snk \in [Sinks -> SinkType] /\ eff[e] \in EffType
    BY DEF Typed
<1>2. eff[e].sink \in Sinks \cup {NoSink}
    BY <1>1 DEF EffType
<1> DEFINE k == eff[e].sink
           r == FreedSink(k)
<1>3. CASE k = NoSink
    BY <1>1, <1>3, NoneAssumption DEF SinkGone
<1>4. CASE k # NoSink
    <2>1. k \in Sinks /\ r \in SinkType /\ r.life = "freed" /\ r.buf # "live"
        BY <1>1, <1>2, <1>4, FreedSinkIs
    <2>2. SinkGone(e) = [snk EXCEPT ![k] = r]
        BY <1>4 DEF SinkGone
    <2> HIDE DEF r, k
    <2>3. /\ SinkGone(e) \in [Sinks -> SinkType]
          /\ \A x \in Sinks : SinkGone(e)[x] = IF x = k THEN r ELSE snk[x]
        BY <1>1, <2>1, <2>2
    <2> QED
        BY <2>1, <2>3 DEF k
<1> QED
    BY <1>3, <1>4

LEMMA BegunIs ==
    ASSUME Typed, NEW e \in Effectors
    PROVE  /\ Begun(e) \in EffType
           /\ Begun(e).life = eff[e].life /\ Begun(e).class = eff[e].class
           /\ Begun(e).dc = eff[e].dc /\ Begun(e).ctx = eff[e].ctx
           /\ Begun(e).sink = eff[e].sink
           /\ HasResources(eff[e].class) => Begun(e).res = "live"
           /\ ~HasResources(eff[e].class) => Begun(e).res = eff[e].res
<1> DEFINE r == eff[e]
           res == IF HasResources(r.class) THEN "live" ELSE r.res
<1>1. r \in EffType
    BY DEF Typed
<1> HIDE DEF r
<1>2. res \in Life
    BY <1>1 DEF EffType, Life
<1>3. Begun(e) = [r EXCEPT !.res = res]
    BY <1>1 DEF Begun, r, EffType
<1>4. /\ HasResources(r.class) => res = "live"
      /\ ~HasResources(r.class) => res = r.res
    OBVIOUS
<1> HIDE DEF res
<1>5. /\ Begun(e) \in EffType
      /\ Begun(e).life = r.life /\ Begun(e).class = r.class
      /\ Begun(e).dc = r.dc /\ Begun(e).ctx = r.ctx
      /\ Begun(e).sink = r.sink /\ Begun(e).res = res
    BY <1>1, <1>2, <1>3 DEF EffType
<1> QED
    BY <1>4, <1>5 DEF r

(* What the end of a run does to the animation, *)
LEMMA FinishAnim ==
    ASSUME Typed, NEW a \in Anims, Finish(a)
    PROVE  /\ anim' \in [Anims -> AnimType]
           /\ \A b \in Anims : b # a => anim'[b] = anim[b]
           /\ anim'[a].life = anim[a].life /\ anim'[a].ran = anim[a].ran
           /\ anim'[a].state \in {"STOPPED", "REMOVE"}
           /\ anim[a].keepalive => anim'[a].state = "STOPPED"
           /\ anim'[a].keepalive = anim[a].keepalive /\ anim'[a].target = anim[a].target
           /\ anim'[a].cb = anim[a].cb
<1> DEFINE r == anim[a]
           st == OverState(a)
           m == [r EXCEPT !.state = st]
           n == [m EXCEPT !.left = 0]
<1>1. r \in AnimType /\ anim \in [Anims -> AnimType]
    BY DEF Typed
<1>2. st \in {"STOPPED", "REMOVE"} /\ (r.keepalive => st = "STOPPED")
    BY DEF OverState
<1>3. anim' = [anim EXCEPT ![a] = n]
    <2>1. anim' = [[anim EXCEPT ![a] = m] EXCEPT ![a].left = 0]
        BY DEF Finish
    <2> HIDE DEF m, r, st
    <2>2. [anim EXCEPT ![a] = m][a] = m
        BY <1>1
    <2>3. anim' = [[anim EXCEPT ![a] = m] EXCEPT ![a] = n]
        BY <2>1, <2>2
    <2> HIDE DEF n
    <2> QED
        BY <1>1, <2>3
<1> HIDE DEF r, st
<1>4. /\ n \in AnimType /\ n.life = r.life /\ n.ran = r.ran /\ n.state = st
      /\ n.keepalive = r.keepalive /\ n.target = r.target /\ n.cb = r.cb
    <2>1. /\ m \in AnimType /\ m.life = r.life /\ m.ran = r.ran /\ m.state = st
          /\ m.keepalive = r.keepalive /\ m.target = r.target /\ m.cb = r.cb
        BY <1>1, <1>2 DEF AnimType
    <2> HIDE DEF m
    <2>2. 0 \in 0..Length
        BY LengthAssumption
    <2> QED
        BY <2>1, <2>2 DEF AnimType
<1> HIDE DEF n
<1>5. anim' \in [Anims -> AnimType] /\ anim'[a] = n /\ \A b \in Anims : b # a => anim'[b] = anim[b]
    BY <1>1, <1>3, <1>4
<1> QED
    BY <1>2, <1>4, <1>5 DEF r

(* and to the effector and its sink. *)
LEMMA EndDrawIs ==
    ASSUME Typed, NEW a \in Anims, anim[a].target \in Effectors, EndDraw(a)
    PROVE  LET e == anim[a].target IN
           /\ eff' \in [Effectors -> EffType] /\ snk' = snk
           /\ \A f \in Effectors : f # e => eff'[f] = eff[f]
           /\ eff'[e].life = eff[e].life /\ eff'[e].class = eff[e].class
           /\ eff'[e].dc = eff[e].dc /\ eff'[e].ctx = eff[e].ctx /\ eff'[e].sink = eff[e].sink
           /\ HasResources(eff[e].class) => eff'[e].res = "freed"
           /\ ~HasResources(eff[e].class) => eff'[e].res = eff[e].res
<1> DEFINE e == anim[a].target
           r == eff[e]
           res == IF HasResources(r.class) THEN "freed" ELSE r.res
           n == [r EXCEPT !.res = res]
<1>1. r \in EffType /\ eff \in [Effectors -> EffType] /\ e \in Effectors
    BY DEF Typed
<1>2. eff' = [eff EXCEPT ![e] = n] /\ snk' = snk
    BY <1>1 DEF EndDraw
<1> HIDE DEF r, e
<1>3. res \in Life
    BY <1>1 DEF EffType, Life
<1>4. /\ HasResources(r.class) => res = "freed"
      /\ ~HasResources(r.class) => res = r.res
    OBVIOUS
<1> HIDE DEF res
<1>5. /\ n \in EffType /\ n.life = r.life /\ n.class = r.class
      /\ n.dc = r.dc /\ n.ctx = r.ctx /\ n.sink = r.sink /\ n.res = res
    BY <1>1, <1>3 DEF EffType
<1> HIDE DEF n
<1>6. eff' \in [Effectors -> EffType] /\ eff'[e] = n /\ \A f \in Effectors : f # e => eff'[f] = eff[f]
    BY <1>1, <1>2, <1>5
<1> QED
    BY <1>2, <1>4, <1>5, <1>6 DEF r, e

LEMMA RollerDeleteIs ==
    ASSUME Typed, NEW a \in Anims, anim[a].target \in Effectors, RollerDelete(a)
    PROVE  LET e == anim[a].target IN
           /\ eff' \in [Effectors -> EffType] /\ snk' = SinkGone(e)
           /\ \A f \in Effectors : f # e => eff'[f] = eff[f]
           /\ eff'[e].life = "freed" /\ eff'[e].dc = "freed" /\ eff'[e].ctx # "live"
           /\ eff'[e].sink = NoSink /\ eff'[e].res = eff[e].res
<1> DEFINE e == anim[a].target
           r == FreedEff(e)
           n == [r EXCEPT !.dc = "freed"]
<1>1. /\ r \in EffType /\ eff \in [Effectors -> EffType] /\ e \in Effectors
      /\ r.life = "freed" /\ r.ctx # "live" /\ r.sink = NoSink /\ r.res = eff[e].res
    BY FreedEffIs DEF Typed
<1>2. eff' = [eff EXCEPT ![e] = n] /\ snk' = SinkGone(e)
    BY <1>1 DEF RollerDelete
<1> HIDE DEF r, e
<1>3. /\ n \in EffType /\ n.life = r.life /\ n.dc = "freed" /\ n.ctx = r.ctx
      /\ n.sink = r.sink /\ n.res = r.res
    BY <1>1 DEF EffType
<1> HIDE DEF n
<1>4. eff' \in [Effectors -> EffType] /\ eff'[e] = n /\ \A f \in Effectors : f # e => eff'[f] = eff[f]
    BY <1>1, <1>2, <1>3
<1> QED
    BY <1>1, <1>2, <1>3, <1>4 DEF e

LEMMA FinishEff ==
    ASSUME Typed, NEW a \in Anims, anim[a].target \in Effectors, Finish(a)
    PROVE  eff' \in [Effectors -> EffType] /\ snk' \in [Sinks -> SinkType] /\ fault' \in BOOLEAN
<1>1. fault \in BOOLEAN /\ snk \in [Sinks -> SinkType]
    BY DEF Typed
<1>2. CASE anim[a].cb = "roller"
    BY <1>1, <1>2, RollerDeleteIs, SinkGoneIs DEF Finish, RollerDelete
<1>3. CASE anim[a].cb # "roller"
    BY <1>1, <1>3, EndDrawIs DEF Finish, EndDraw
<1> QED
    BY <1>2, <1>3

(* A frame that is not the last one. *)
LEMMA DrawIs ==
    ASSUME EInv, NEW a \in Anims, anim[a].state = "ACTIVE", Draw(a)
    PROVE  /\ anim[a].life = "live" /\ anim[a].ran /\ Drawing(a)
           /\ anim[a].target \in Effectors /\ Drawable(anim[a].target)
           /\ \/ Finish(a)
              \/ /\ UNCHANGED <<eff, snk, fault>>
                 /\ anim' \in [Anims -> AnimType]
                 /\ \A b \in Anims :
                       /\ anim'[b].life = anim[b].life /\ anim'[b].state = anim[b].state
                       /\ anim'[b].ran = anim[b].ran /\ anim'[b].keepalive = anim[b].keepalive
                       /\ anim'[b].target = anim[b].target /\ anim'[b].cb = anim[b].cb
<1>1. anim[a].life = "live" /\ anim[a].ran /\ anim[a].target \in Effectors
    BY DEF EInv, Safe, AnimsOK
<1>2. Drawing(a) /\ Drawable(anim[a].target)
    BY <1>1 DEF Drawing, EInv, Safe, Draws
<1>3. CASE anim[a].left > 1
    <2> DEFINE r == anim[a]
               n == [r EXCEPT !.left = r.left - 1]
    <2>1. r \in AnimType /\ anim \in [Anims -> AnimType]
        BY DEF EInv, Typed
    <2>2. anim' = [anim EXCEPT ![a] = n] /\ UNCHANGED <<eff, snk>> /\ fault' = fault
        BY <1>2, <1>3, <2>1 DEF Draw, EInv, Typed
    <2>3. r.left > 1
        BY <1>3
    <2> HIDE DEF r
    <2>4. r.left - 1 \in 0..Length
        BY <2>1, <2>3, LengthAssumption DEF AnimType
    <2>5. /\ n \in AnimType /\ n.life = r.life /\ n.ran = r.ran /\ n.state = r.state
          /\ n.keepalive = r.keepalive /\ n.target = r.target /\ n.cb = r.cb
        BY <2>1, <2>4 DEF AnimType
    <2> HIDE DEF n
    <2>6. anim' \in [Anims -> AnimType] /\ anim'[a] = n /\ \A b \in Anims : b # a => anim'[b] = anim[b]
        BY <2>1, <2>2, <2>5
    <2> QED
        BY <1>1, <1>2, <2>2, <2>5, <2>6 DEF r
<1>4. CASE ~(anim[a].left > 1)
    BY <1>1, <1>2, <1>4 DEF Draw
<1> QED
    BY <1>3, <1>4
-----------------------------------------------------------------------------
(***************************************************************************)
(* What the parts of the invariant make of changes of their objects.       *)
(***************************************************************************)

(* The sink of an effector is a sink, and no other's. *)
LEMMA SinkOf ==
    ASSUME EInv, NEW e \in Effectors
    PROVE  /\ eff[e].sink \in Sinks \cup {NoSink}
           /\ eff[e].life = "live" /\ eff[e].sink # NoSink =>
                 eff[e].sink \in Sinks /\ snk[eff[e].sink].life = "live"
                 /\ \A f \in Effectors : eff[f].sink = eff[e].sink => f = e
BY DEF EInv, Typed, EffType, Safe, EffsOK, OwnSinks

(* A step that changes none of this keeps it. *)
LEMMA SafeSame ==
    ASSUME EInv, UNCHANGED <<eff, snk, listed, fill, roller, fault>>,
           \A b \in Anims :
              /\ anim'[b].life = anim[b].life /\ anim'[b].state = anim[b].state
              /\ anim'[b].ran = anim[b].ran /\ anim'[b].keepalive = anim[b].keepalive
              /\ anim'[b].target = anim[b].target /\ anim'[b].cb = anim[b].cb
    PROVE  Safe'
<1>1. \A b \in Anims : Drawing(b)' <=> Drawing(b)
    BY DEF Drawing
<1>2. EffsOK' /\ OwnSinks' /\ SinksOK' /\ AnimsOK' /\ NoFault'
    BY DEF EInv, Safe, EffsOK, OwnSinks, SinksOK, AnimsOK, NoFault
<1>3. Draws' /\ OneDraws'
    BY <1>1 DEF EInv, Safe, Draws, OneDraws, Drawable, SinkLive
<1>4. Held'
    BY <1>1 DEF EInv, Safe, Held, BusyEff
<1>5. FillOK'
    BY DEF EInv, Safe, FillOK
<1>6. RollerOK'
    BY <1>1 DEF EInv, Safe, RollerOK, RollerPair, Kids
<1> QED
    BY <1>2, <1>3, <1>4, <1>5, <1>6 DEF Safe

(* finished_cb ends the drawing of an animation that is not the roller's.  *)
LEMMA SafeEndDraw ==
    ASSUME EInv, NEW a \in Anims, anim[a].state = "ACTIVE", Drawing(a),
           Drawable(anim[a].target), Finish(a), anim[a].cb # "roller",
           UNCHANGED <<listed, fill, roller>>
    PROVE  Safe'
<1> DEFINE e == anim[a].target
<1>0. Typed /\ EffsOK /\ OwnSinks /\ SinksOK /\ AnimsOK /\ Draws /\ OneDraws /\ Held
      /\ FillOK /\ RollerOK /\ NoFault /\ EndDraw(a)
    BY DEF EInv, Safe, Finish
<1>1. anim[a].life = "live" /\ anim[a].ran /\ e \in Effectors
    BY <1>0 DEF AnimsOK
<1>2. eff[e].life = "live" /\ (HasResources(eff[e].class) => eff[e].res = "live")
    BY DEF Drawable
<1>3. /\ eff' \in [Effectors -> EffType] /\ snk' = snk
      /\ \A f \in Effectors : f # e => eff'[f] = eff[f]
      /\ eff'[e].life = eff[e].life /\ eff'[e].class = eff[e].class
      /\ eff'[e].dc = eff[e].dc /\ eff'[e].ctx = eff[e].ctx /\ eff'[e].sink = eff[e].sink
      /\ HasResources(eff[e].class) => eff'[e].res = "freed"
      /\ ~HasResources(eff[e].class) => eff'[e].res = eff[e].res
    BY <1>0, <1>1, EndDrawIs
<1>4. /\ \A b \in Anims : b # a => anim'[b] = anim[b]
      /\ anim'[a].life = anim[a].life /\ anim'[a].ran = anim[a].ran
      /\ anim'[a].state \in {"STOPPED", "REMOVE"}
      /\ anim[a].keepalive => anim'[a].state = "STOPPED"
      /\ anim'[a].keepalive = anim[a].keepalive /\ anim'[a].target = e
      /\ anim'[a].cb = anim[a].cb
    BY <1>0, FinishAnim
<1>5. fault' = fault
    BY <1>0, <1>2 DEF EndDraw, Typed
<1> HIDE DEF e
<1>6. /\ ~Drawing(a)'
      /\ \A b \in Anims : b # a => (Drawing(b)' <=> Drawing(b))
    BY <1>1, <1>4 DEF Drawing
<1>7. \A f \in Effectors : /\ eff'[f].life = eff[f].life /\ eff'[f].class = eff[f].class
                            /\ eff'[f].dc = eff[f].dc /\ eff'[f].ctx = eff[f].ctx
                            /\ eff'[f].sink = eff[f].sink
    BY <1>3
<1>8. \A b \in Anims : /\ anim'[b].target = anim[b].target /\ anim'[b].life = anim[b].life
                        /\ anim'[b].ran = anim[b].ran /\ anim'[b].cb = anim[b].cb
                        /\ anim'[b].keepalive = anim[b].keepalive
    BY <1>4 DEF e
<1>9. EffsOK' /\ OwnSinks' /\ SinksOK' /\ NoFault'
    <2>1. EffsOK'
        BY <1>0, <1>2, <1>3, <1>7 DEF EffsOK
    <2>2. OwnSinks'
        BY <1>0, <1>7 DEF OwnSinks
    <2> QED
        BY <1>0, <1>3, <1>5, <2>1, <2>2 DEF SinksOK, NoFault
<1>10. AnimsOK'
    BY <1>0, <1>1, <1>4, <1>7, <1>8 DEF AnimsOK
<1>11. Draws'
    <2> SUFFICES ASSUME NEW b \in Anims, Drawing(b)'
                 PROVE  Drawable(anim[b].target)'
        BY <1>8 DEF Draws
    <2>1. b # a /\ Drawing(b)
        BY <1>6
    <2>2. Drawable(anim[b].target) /\ anim[b].target \in Effectors
        BY <1>0, <2>1 DEF Draws, AnimsOK, Drawing
    <2>3. anim'[b].target = anim[b].target
        BY <1>8
    <2>4. CASE anim[b].target = e
        <3>1. ~HasResources(eff[e].class)
            BY <1>0, <2>1, <2>4 DEF OneDraws, e
        <3> QED
            BY <1>3, <1>7, <2>2, <2>3, <2>4, <3>1 DEF Drawable, SinkLive
    <2>5. CASE anim[b].target # e
        BY <1>3, <2>2, <2>3, <2>5 DEF Drawable, SinkLive
    <2> QED
        BY <2>4, <2>5
<1>12. OneDraws'
    BY <1>0, <1>6, <1>7, <1>8 DEF OneDraws, AnimsOK, Drawing
<1>13. Held'
    <2> SUFFICES ASSUME NEW f \in Effectors, eff'[f].res = "live"
                 PROVE  HasResources(eff'[f].class) /\ BusyEff(f)'
        BY DEF Held
    <2>1. f # e
        BY <1>0, <1>1, <1>3 DEF Held
    <2>2. PICK b \in Anims : Drawing(b) /\ anim[b].target = f
        BY <1>0, <1>3, <2>1 DEF Held, BusyEff
    <2>3. b # a
        BY <2>1, <2>2 DEF e
    <2> QED
        BY <1>0, <1>3, <1>6, <1>8, <2>1, <2>2, <2>3 DEF Held, BusyEff
<1>14. FillOK'
    <2>1. UNCHANGED <<fill, listed>>
        OBVIOUS
    <2>2. fill.step # "none" => fill.eff \in Effectors /\ fill.anim \in Anims
        BY <1>0 DEF FillOK
    <2>3. fill.step = "wait" /\ fill.anim \notin listed => anim'[fill.anim].state = "STOPPED"
        BY <1>0, <1>4, <2>2 DEF FillOK
    <2> QED
        BY <1>0, <1>7, <1>8, <2>1, <2>2, <2>3 DEF FillOK
<1>15. RollerOK'
    <2>1. ASSUME NEW i \in 1..2, roller.step # "none", RollerPair(i)
          PROVE  RollerPair(i)'
        <3>1. roller.anim[i] # a
            BY <2>1 DEF RollerPair
        <3> QED
            BY <1>4, <1>6, <1>7, <1>8, <2>1, <3>1 DEF RollerPair
    <2> QED
        BY <1>0, <1>8, <2>1 DEF RollerOK, Kids
<1> QED
    BY <1>9, <1>10, <1>11, <1>12, <1>13, <1>14, <1>15 DEF Safe

(* An effector goes that no animation will be drawn for any more, with its *)
(* sink or without it.                                                     *)
LEMMA SinksAfter ==
    ASSUME EInv, NEW e \in Effectors, snk' \in {snk, SinkGone(e)}
    PROVE  /\ SinksOK'
           /\ \A f \in Effectors :
                 f # e /\ eff[f].life = "live" /\ eff[f].sink # NoSink =>
                    eff[f].sink \in Sinks /\ snk'[eff[f].sink] = snk[eff[f].sink]
<1>1. /\ SinksOK /\ Typed
    BY DEF EInv, Safe
<1>2. ASSUME NEW f \in Effectors, f # e, eff[f].life = "live", eff[f].sink # NoSink
      PROVE  /\ eff[f].sink \in Sinks /\ snk'[eff[f].sink] = snk[eff[f].sink]
    <2>1. eff[f].sink \in Sinks /\ eff[f].sink # eff[e].sink
        BY <1>2, SinkOf
    <2> QED
        BY <1>1, <2>1, SinkGoneIs
<1>3. SinksOK'
    BY <1>1, SinkGoneIs DEF SinksOK
<1> QED
    BY <1>2, <1>3

LEMMA SafeRollerDelete ==
    ASSUME EInv, NEW a \in Anims, anim[a].state = "ACTIVE", Drawing(a),
           Drawable(anim[a].target), Finish(a), anim[a].cb = "roller",
           UNCHANGED <<listed, fill, roller>>
    PROVE  Safe'
<1> DEFINE e == anim[a].target
<1>0. Typed /\ EffsOK /\ OwnSinks /\ SinksOK /\ AnimsOK /\ Draws /\ OneDraws /\ Held
      /\ FillOK /\ RollerOK /\ NoFault /\ RollerDelete(a)
    BY DEF EInv, Safe, Finish
<1>1. anim[a].life = "live" /\ anim[a].ran /\ e \in Effectors
    BY <1>0 DEF AnimsOK
<1>2. PICK i \in 1..2 : roller.anim[i] = a
    BY <1>0, <1>1 DEF RollerOK, Kids
<1>3. /\ roller.step = "runs" /\ roller.eff[i] = e
      /\ eff[e].dc = "white" /\ eff[e].class = "zoom"
      /\ anim[a].keepalive
      /\ \A b \in Anims : anim[b].life = "live" /\ anim[b].target = e => b = a
    <2>1. roller.step # "none" /\ RollerPair(i)
        BY <1>0, <1>1, <1>2 DEF RollerOK
    <2>2. roller.step \notin {"over", "gone"} /\ roller.step # "made"
        BY <1>1, <1>2, <2>1 DEF RollerPair
    <2>3. roller.step = "runs"
        BY <1>0, <2>1, <2>2 DEF Typed, RollerType
    <2> QED
        BY <1>2, <2>1, <2>3 DEF RollerPair
<1>4. ~HasResources(eff[e].class) /\ eff[e].res # "live"
    BY <1>0, <1>1, <1>3 DEF HasResources, Held
<1>5. /\ eff[e].life = "live" /\ eff[e].sink \in Sinks /\ snk[eff[e].sink].life = "live"
      /\ eff[e].ctx = "live"
    BY <1>3 DEF Drawable, SinkLive, HasContext
<1>6. fault' = fault
    BY <1>0, <1>3, <1>5 DEF RollerDelete, BadDelete, BadSink, Typed
<1>7. /\ eff' \in [Effectors -> EffType] /\ snk' = SinkGone(e)
      /\ \A f \in Effectors : f # e => eff'[f] = eff[f]
      /\ eff'[e].life = "freed" /\ eff'[e].dc = "freed" /\ eff'[e].ctx # "live"
      /\ eff'[e].sink = NoSink /\ eff'[e].res = eff[e].res
    BY <1>0, <1>1, RollerDeleteIs
<1>8. /\ \A b \in Anims : b # a => anim'[b] = anim[b]
      /\ anim'[a].life = anim[a].life /\ anim'[a].ran = anim[a].ran
      /\ anim'[a].state = "STOPPED"
      /\ anim'[a].keepalive = anim[a].keepalive /\ anim'[a].target = e
      /\ anim'[a].cb = anim[a].cb
    BY <1>0, <1>3, FinishAnim
<1> HIDE DEF e
<1>9. /\ ~Drawing(a)'
      /\ \A b \in Anims : b # a => (Drawing(b)' <=> Drawing(b))
    BY <1>1, <1>8 DEF Drawing
<1>10. \A b \in Anims : /\ anim'[b].target = anim[b].target /\ anim'[b].life = anim[b].life
                         /\ anim'[b].ran = anim[b].ran /\ anim'[b].cb = anim[b].cb
                         /\ anim'[b].keepalive = anim[b].keepalive
    BY <1>8 DEF e
<1>11. SinksOK' /\ \A f \in Effectors :
           f # e /\ eff[f].life = "live" /\ eff[f].sink # NoSink =>
              eff[f].sink \in Sinks /\ snk'[eff[f].sink] = snk[eff[f].sink]
    BY <1>1, <1>7, SinksAfter DEF e
<1>12. e \in Effectors
    BY <1>1 DEF e
<1>13. EffsOK' /\ OwnSinks' /\ NoFault'
    <2>1. EffsOK'
        BY <1>0, <1>4, <1>7, <1>11, <1>12 DEF EffsOK
    <2>2. OwnSinks'
        BY <1>0, <1>7 DEF OwnSinks
    <2> QED
        BY <1>0, <1>6, <2>1, <2>2 DEF NoFault
<1>14. AnimsOK'
    BY <1>0, <1>1, <1>7, <1>8, <1>10, <1>12 DEF AnimsOK
<1>15. \A b \in Anims : Drawing(b)' => /\ b # a /\ Drawing(b)
                                       /\ anim[b].target \in Effectors /\ anim[b].target # e
    BY <1>0, <1>3, <1>9 DEF Drawing, AnimsOK
<1>16. Draws'
    <2> SUFFICES ASSUME NEW b \in Anims, Drawing(b)'
                 PROVE  Drawable(anim[b].target)'
        BY DEF Draws
    <2> DEFINE f == anim[b].target
    <2>1. f \in Effectors /\ f # e /\ Drawable(f) /\ anim'[b].target = f
        BY <1>0, <1>10, <1>15 DEF Draws
    <2> HIDE DEF f
    <2>2. eff'[f] = eff[f] /\ eff[f].sink # NoSink /\ eff[f].life = "live"
        BY <1>7, <2>1, NoneAssumption DEF Drawable, SinkLive
    <2>3. snk'[eff[f].sink] = snk[eff[f].sink]
        BY <1>11, <2>1, <2>2
    <2> QED
        BY <2>1, <2>2, <2>3 DEF Drawable, SinkLive
<1>17. OneDraws'
    BY <1>0, <1>7, <1>10, <1>15 DEF OneDraws
<1>18. Held'
    <2> SUFFICES ASSUME NEW f \in Effectors, eff'[f].res = "live"
                 PROVE  HasResources(eff'[f].class) /\ BusyEff(f)'
        BY DEF Held
    <2>1. f # e /\ eff'[f] = eff[f]
        BY <1>4, <1>7
    <2>2. PICK b \in Anims : Drawing(b) /\ anim[b].target = f
        BY <1>0, <2>1 DEF Held, BusyEff
    <2>3. b # a
        BY <2>1, <2>2 DEF e
    <2> QED
        BY <1>0, <1>9, <1>10, <2>1, <2>2, <2>3 DEF Held, BusyEff
<1>19. FillOK'
    <2>1. fill' = fill /\ listed' = listed
        OBVIOUS
    <2>2. /\ fill.step # "none" =>
                 /\ fill.eff \in Effectors /\ fill.anim \in Anims
                 /\ eff'[fill.eff].life # "none"
          /\ fill.step = "wait" => fill.eff # e
        BY <1>0, <1>3, <1>7 DEF FillOK
    <2>3. fill.step = "wait" /\ fill.anim \notin listed => anim'[fill.anim].state = "STOPPED"
        BY <1>0, <1>8, <2>2 DEF FillOK
    <2> QED
        BY <1>0, <1>7, <1>10, <2>1, <2>2, <2>3 DEF FillOK
<1>20. RollerOK'
    <2>1. ASSUME NEW j \in 1..2, RollerPair(j)
          PROVE  RollerPair(j)'
        <3>1. eff'[roller.eff[j]].life # "none"
            BY <1>7, <2>1 DEF RollerPair
        <3>2. Drawing(roller.anim[j])' =>
                  Drawing(roller.anim[j]) /\ eff'[roller.eff[j]] = eff[roller.eff[j]]
            <4>1. roller.anim[j] \in Anims /\ roller.eff[j] \in Effectors
                  /\ anim[roller.anim[j]].target = roller.eff[j]
                BY <1>3, <2>1 DEF RollerPair
            <4> QED
                BY <1>7, <1>15, <4>1
        <3> QED
            BY <1>10, <2>1, <3>1, <3>2 DEF RollerPair
    <2> QED
        BY <1>0, <1>10, <2>1 DEF RollerOK, Kids
<1> QED
    BY <1>11, <1>13, <1>14, <1>16, <1>17, <1>18, <1>19, <1>20 DEF Safe

LEMMA SafeEffGone ==
    ASSUME EInv, NEW e \in Effectors, eff[e].life = "live", ~BusyEff(e), eff[e].dc # "white",
           eff' = [eff EXCEPT ![e] = FreedEff(e)], snk' \in {snk, SinkGone(e)},
           \/ fill' = fill /\ (fill.step = "wait" => e # fill.eff)
           \/ fill' = [fill EXCEPT !.step = "done"] /\ fill.step = "wait",
           \/ fault' = (fault \/ BadDelete(e) \/ BadSink(e))
           \/ fault' = (fault \/ BadDelete(e)),
           UNCHANGED <<anim, listed, roller>>
    PROVE  Safe'
<1>0. Typed /\ EffsOK /\ OwnSinks /\ SinksOK /\ AnimsOK /\ Draws /\ OneDraws /\ Held
      /\ FillOK /\ RollerOK /\ NoFault
    BY DEF EInv, Safe
<1>1. /\ eff' \in [Effectors -> EffType]
      /\ \A f \in Effectors : f # e => eff'[f] = eff[f]
      /\ eff'[e].life = "freed" /\ eff'[e].res = eff[e].res
      /\ eff'[e].sink = NoSink /\ eff'[e].ctx # "live"
      /\ eff'[e].dc \in {"app", "freed"}
    <2> DEFINE n == FreedEff(e)
    <2>1. /\ eff \in [Effectors -> EffType]
          /\ n \in EffType /\ n.life = "freed" /\ n.res = eff[e].res
          /\ n.sink = NoSink /\ n.ctx # "live"
          /\ eff[e].dc = "source" => n.dc = "freed"
          /\ eff[e].dc # "source" => n.dc = eff[e].dc
        BY <1>0, FreedEffIs DEF Typed
    <2>2. eff[e].dc \in {"app", "source"}
        BY <1>0, <2>1 DEF EffsOK, EffType
    <2> HIDE DEF n
    <2>3. eff' = [eff EXCEPT ![e] = n]
        BY DEF n
    <2> QED
        BY <2>1, <2>2, <2>3
<1>2. eff[e].res # "live"
    BY <1>0 DEF Held
<1>3. NoFault'
    <2>1. ~BadDelete(e)
        BY <1>0 DEF BadDelete, EffsOK
    <2>2. ~BadSink(e)
        BY <1>0 DEF BadSink, EffsOK
    <2> QED
        BY <1>0, <2>1, <2>2 DEF NoFault
<1>4. SinksOK' /\ \A f \in Effectors :
           f # e /\ eff[f].life = "live" /\ eff[f].sink # NoSink =>
              eff[f].sink \in Sinks /\ snk'[eff[f].sink] = snk[eff[f].sink]
    BY SinksAfter
<1>5. EffsOK' /\ OwnSinks'
    <2>1. EffsOK'
        BY <1>0, <1>1, <1>2, <1>4 DEF EffsOK
    <2>2. OwnSinks'
        BY <1>0, <1>1 DEF OwnSinks
    <2> QED
        BY <2>1, <2>2
<1>6. AnimsOK'
    BY <1>0, <1>1 DEF AnimsOK
<1>7. /\ \A b \in Anims : Drawing(b)' <=> Drawing(b)
      /\ \A b \in Anims : Drawing(b) => anim[b].target \in Effectors /\ anim[b].target # e
    BY <1>0 DEF Drawing, AnimsOK, BusyEff
<1>8. Draws'
    <2> SUFFICES ASSUME NEW b \in Anims, Drawing(b)'
                 PROVE  Drawable(anim[b].target)'
        BY DEF Draws
    <2> DEFINE f == anim[b].target
    <2>1. f \in Effectors /\ f # e /\ Drawable(f) /\ anim'[b].target = f
        BY <1>0, <1>7 DEF Draws
    <2> HIDE DEF f
    <2>2. eff'[f] = eff[f] /\ eff[f].sink # NoSink /\ eff[f].life = "live"
        BY <1>1, <2>1, NoneAssumption DEF Drawable, SinkLive
    <2>3. snk'[eff[f].sink] = snk[eff[f].sink]
        BY <1>4, <2>1, <2>2
    <2> QED
        BY <2>1, <2>2, <2>3 DEF Drawable, SinkLive
<1>9. OneDraws'
    BY <1>0, <1>1, <1>7 DEF OneDraws
<1>10. Held'
    <2> SUFFICES ASSUME NEW f \in Effectors, eff'[f].res = "live"
                 PROVE  HasResources(eff'[f].class) /\ BusyEff(f)'
        BY DEF Held
    <2>1. f # e /\ eff'[f] = eff[f]
        BY <1>1, <1>2
    <2> QED
        BY <1>0, <1>7, <2>1 DEF Held, BusyEff
<1>11. FillOK'
    <2>1. /\ fill.step # "none" => fill.eff \in Effectors /\ eff'[fill.eff].life # "none"
        BY <1>0, <1>1 DEF FillOK
    <2>2. CASE fill' = fill /\ (fill.step = "wait" => e # fill.eff)
        BY <1>0, <1>1, <2>1, <2>2 DEF FillOK
    <2>3. CASE fill' = [fill EXCEPT !.step = "done"] /\ fill.step = "wait"
        <3>1. fill'.step = "done" /\ fill'.eff = fill.eff /\ fill'.anim = fill.anim
            BY <1>0, <2>3 DEF Typed, FillType
        <3> QED
            BY <1>0, <2>1, <2>3, <3>1 DEF FillOK
    <2> QED
        BY <2>2, <2>3
<1>12. RollerOK'
    <2>1. ASSUME NEW j \in 1..2, RollerPair(j)
          PROVE  RollerPair(j)'
        <3>1. eff'[roller.eff[j]].life # "none"
            BY <1>1, <2>1 DEF RollerPair
        <3>2. Drawing(roller.anim[j]) => eff'[roller.eff[j]] = eff[roller.eff[j]]
            BY <1>1, <2>1 DEF RollerPair
        <3> QED
            BY <1>7, <2>1, <3>1, <3>2 DEF RollerPair
    <2> QED
        BY <1>0, <2>1 DEF RollerOK, Kids
<1> QED
    BY <1>3, <1>4, <1>5, <1>6, <1>8, <1>9, <1>10, <1>11, <1>12 DEF Safe

(* Animations go that are not to be drawn any more. *)
LEMMA SafeAnimsGone ==
    ASSUME EInv, NEW D \in SUBSET Anims, \A a \in D : ~Drawing(a),
           \A b \in Anims : anim'[b] = IF b \in D THEN FreedAnim ELSE anim[b],
           listed' = listed \ D,
           fill.step = "wait" => fill.anim \notin D,
           \/ roller' = roller /\ (roller.step \in {"made", "runs", "over"} => D \cap Kids = {})
           \/ roller' = [roller EXCEPT !.step = "gone"] /\ D = Kids /\ roller.step # "none",
           \A a \in D : anim[a].life = "live",
           UNCHANGED <<eff, snk, fill, fault>>
    PROVE  Safe'
<1>0. Typed /\ EffsOK /\ OwnSinks /\ SinksOK /\ AnimsOK /\ Draws /\ OneDraws /\ Held
      /\ FillOK /\ RollerOK /\ NoFault
    BY DEF EInv, Safe
<1>1. FreedAnim.life = "freed" /\ FreedAnim.state = "STOPPED"
    BY NoAnimationIs
<1>2. \A b \in Anims :
          /\ Drawing(b)' <=> Drawing(b)
          /\ b \in D => anim'[b].life = "freed" /\ anim'[b].state = "STOPPED"
          /\ b \notin D => anim'[b] = anim[b]
    BY <1>1 DEF Drawing
<1>3. \A b \in Anims : anim'[b].life = "live" => b \notin D /\ anim'[b] = anim[b]
    BY <1>2
<1>4. OwnSinks' /\ SinksOK' /\ NoFault'
    BY <1>0 DEF OwnSinks, SinksOK, NoFault
<1>5. AnimsOK'
    BY <1>0, <1>2, <1>3 DEF AnimsOK
<1>6. Draws' /\ OneDraws'
    <2>1. \A b \in Anims : Drawing(b)' => Drawing(b) /\ anim'[b] = anim[b]
        BY <1>2
    <2>2. Draws'
        BY <1>0, <2>1 DEF Draws, Drawable, SinkLive
    <2>3. OneDraws'
        BY <1>0, <2>1 DEF OneDraws
    <2> QED
        BY <2>2, <2>3
<1>7. Held'
    BY <1>0, <1>2 DEF Held, BusyEff
<1>8. FillOK'
    <2>1. fill' = fill /\ eff' = eff
        OBVIOUS
    <2>2. /\ fill.step # "none" => anim'[fill.anim].life # "none" /\ fill.anim \in Anims
          /\ \A a \in Anims : anim'[a].life = "live" => anim[a].life = "live" /\ anim'[a] = anim[a]
        BY <1>0, <1>2, <1>3 DEF FillOK
    <2>3. fill.step = "wait" =>
              anim'[fill.anim] = anim[fill.anim] /\ (fill.anim \in listed' <=> fill.anim \in listed)
        BY <1>0, <1>2 DEF FillOK
    <2> QED
        BY <1>0, <2>1, <2>2, <2>3 DEF FillOK
<1>9. /\ roller'.eff = roller.eff /\ roller'.anim = roller.anim
      /\ roller'.step = roller.step \/ roller'.step = "gone"
      /\ roller.step = "none" => roller'.step = "none"
    BY <1>0 DEF Typed, RollerType
<1>10. EffsOK'
    BY <1>0, <1>9 DEF EffsOK
<1>11. RollerOK'
    <2>1. ASSUME NEW j \in 1..2, RollerPair(j), roller.step # "none"
          PROVE  RollerPair(j)'
        <3> DEFINE a == roller.anim[j]
        <3>1. /\ a \in Anims /\ a \in Kids
              /\ Drawing(a)' <=> Drawing(a)
              /\ anim'[a].life # "none"
              /\ a \notin listed'
            BY <1>2, <1>9, <2>1 DEF RollerPair, Kids
        <3>2. \A b \in Anims : anim'[b].life = "live" /\ anim'[b].target = roller.eff[j] => b = a
            BY <1>3, <2>1 DEF RollerPair
        <3>3. CASE roller' = roller /\ (roller.step \in {"made", "runs", "over"} => D \cap Kids = {})
            <4>1. roller.step # "gone" => anim'[a] = anim[a]
                <5>1. roller.step # "gone" => roller.step \in {"made", "runs", "over"}
                    BY <1>0, <2>1 DEF Typed, RollerType
                <5> QED
                    BY <1>2, <3>1, <3>3, <5>1
            <4>2. roller.step = "gone" => roller.step \notin {"made", "runs"}
                OBVIOUS
            <4> QED
                BY <2>1, <3>1, <3>2, <3>3, <4>1 DEF RollerPair
        <3>4. CASE roller'.step = "gone" /\ D = Kids
            <4>1. ~Drawing(a)
                BY <3>1, <3>4
            <4> QED
                BY <1>9, <2>1, <3>1, <3>2, <3>4, <4>1 DEF RollerPair
        <3> QED
            BY <1>0, <3>3, <3>4 DEF Typed, RollerType
    <2>2. \A b \in Anims : anim'[b].life = "live" /\ anim'[b].cb = "roller" =>
              roller.step # "none" /\ b \in Kids
        BY <1>0, <1>3 DEF RollerOK
    <2> QED
        BY <1>0, <1>9, <2>1, <2>2 DEF RollerOK, Kids
<1> QED
    BY <1>4, <1>5, <1>6, <1>7, <1>8, <1>10, <1>11 DEF Safe

(* A stopped animation is taken off the list. *)
LEMMA SafeUnlist ==
    ASSUME EInv, NEW a \in Anims, anim[a].state = "STOPPED", listed' = listed \ {a},
           UNCHANGED <<eff, snk, anim, fill, roller, fault>>
    PROVE  Safe'
<1>1. EffsOK' /\ OwnSinks' /\ SinksOK' /\ AnimsOK' /\ NoFault'
    BY DEF EInv, Safe, EffsOK, OwnSinks, SinksOK, AnimsOK, NoFault
<1>2. Draws' /\ OneDraws' /\ Held'
    BY DEF EInv, Safe, Draws, OneDraws, Held, BusyEff, Drawing, Drawable, SinkLive
<1>3. FillOK'
    BY DEF EInv, Safe, FillOK
<1>4. RollerOK'
    BY DEF EInv, Safe, RollerOK, RollerPair, Kids, Drawing
<1> QED
    BY <1>1, <1>2, <1>3, <1>4 DEF Safe

(* Sinks that no effector has come and go, and effectors get one.          *)
LEMMA SafeSink ==
    ASSUME EInv, NEW k \in Sinks, \A e \in Effectors : eff[e].sink # k,
           NEW r \in SinkType, snk' = [snk EXCEPT ![k] = r],
           r.life = "live" => r.buf # "freed",
           r.life = "freed" => r.buf # "live",
           r.life # "none",
           UNCHANGED <<eff, anim, listed, fill, roller, fault>>
    PROVE  Safe'
<1>0. Typed /\ EffsOK /\ SinksOK /\ Draws
    BY DEF EInv, Safe
<1>1. snk'[k] = r /\ \A l \in Sinks : l # k => snk'[l] = snk[l]
    BY <1>0 DEF Typed
<1>2. \A e \in Effectors : eff[e].sink # NoSink =>
          eff[e].sink \in Sinks /\ snk'[eff[e].sink] = snk[eff[e].sink]
    BY <1>1, SinkOf
<1>3. EffsOK'
    BY <1>0, <1>2 DEF EffsOK
<1>4. SinksOK'
    BY <1>0, <1>1 DEF SinksOK
<1>5. Draws'
    <2> SUFFICES ASSUME NEW b \in Anims, Drawing(b)'
                 PROVE  Drawable(anim[b].target)'
        BY DEF Draws
    <2> DEFINE f == anim[b].target
    <2>1. Drawing(b) /\ anim'[b].target = f
        BY DEF Drawing
    <2>2. f \in Effectors /\ Drawable(f)
        BY <1>0, <2>1 DEF Draws, Drawing, EInv, Safe, AnimsOK
    <2> HIDE DEF f
    <2>3. snk'[eff[f].sink] = snk[eff[f].sink] /\ eff'[f] = eff[f]
        BY <1>2, <2>2, NoneAssumption DEF Drawable, SinkLive
    <2> QED
        BY <2>1, <2>2, <2>3 DEF Drawable, SinkLive
<1>6. OwnSinks' /\ AnimsOK' /\ NoFault' /\ OneDraws' /\ Held' /\ FillOK'
    BY DEF EInv, Safe, OwnSinks, AnimsOK, NoFault, OneDraws, Held, BusyEff, Drawing, FillOK
<1>7. RollerOK'
    BY DEF EInv, Safe, RollerOK, RollerPair, Kids, Drawing
<1> QED
    BY <1>3, <1>4, <1>5, <1>6, <1>7 DEF Safe

LEMMA SafeSetSink ==
    ASSUME EInv, NEW e \in Effectors, NEW k \in Sinks, eff[e].life = "live", eff[e].sink = NoSink,
           snk[k].life = "live", \A f \in Effectors : eff[f].sink # k,
           eff' = [eff EXCEPT ![e].sink = k],
           UNCHANGED <<snk, anim, listed, fill, roller, fault>>
    PROVE  Safe'
<1>0. Typed /\ EffsOK /\ OwnSinks /\ SinksOK /\ AnimsOK /\ Draws /\ OneDraws /\ Held
      /\ FillOK /\ RollerOK /\ NoFault
    BY DEF EInv, Safe
<1> DEFINE r == eff[e]
           n == [r EXCEPT !.sink = k]
<1>1. r \in EffType /\ eff' = [eff EXCEPT ![e] = n] /\ eff \in [Effectors -> EffType]
    BY <1>0 DEF Typed
<1> HIDE DEF r
<1>2. /\ n.life = r.life /\ n.class = r.class /\ n.dc = r.dc /\ n.ctx = r.ctx /\ n.res = r.res
      /\ n.sink = k
    BY <1>1 DEF EffType
<1> HIDE DEF n
<1>3. /\ \A f \in Effectors : f # e => eff'[f] = eff[f]
      /\ eff'[e].sink = k
      /\ \A f \in Effectors : /\ eff'[f].life = eff[f].life /\ eff'[f].class = eff[f].class
                               /\ eff'[f].dc = eff[f].dc /\ eff'[f].ctx = eff[f].ctx
                               /\ eff'[f].res = eff[f].res
    BY <1>1, <1>2 DEF r
<1>4. EffsOK'
    BY <1>0, <1>3 DEF EffsOK
<1>5. OwnSinks'
    BY <1>0, <1>3 DEF OwnSinks
<1>6. SinksOK' /\ NoFault'
    BY <1>0 DEF SinksOK, NoFault
<1>7. AnimsOK'
    BY <1>0, <1>3 DEF AnimsOK
<1>8. \A b \in Anims : Drawing(b)' <=> Drawing(b)
    BY DEF Drawing
<1>9. Draws'
    <2> SUFFICES ASSUME NEW b \in Anims, Drawing(b)'
                 PROVE  Drawable(anim[b].target)'
        BY DEF Draws
    <2> DEFINE f == anim[b].target
    <2>1. anim'[b].target = f /\ f \in Effectors /\ Drawable(f)
        BY <1>0, <1>8 DEF Draws, Drawing, AnimsOK
    <2> HIDE DEF f
    <2>2. f # e
        BY <2>1, NoneAssumption DEF Drawable, SinkLive
    <2> QED
        BY <1>3, <2>1, <2>2 DEF Drawable, SinkLive
<1>10. OneDraws'
    BY <1>0, <1>3, <1>8 DEF OneDraws, Drawing, AnimsOK
<1>11. Held'
    BY <1>0, <1>3, <1>8 DEF Held, BusyEff
<1>12. FillOK'
    BY <1>0, <1>3 DEF FillOK
<1>13. RollerOK'
    BY <1>0, <1>3, <1>8 DEF RollerOK, RollerPair, Kids
<1> QED
    BY <1>4, <1>5, <1>6, <1>7, <1>9, <1>10, <1>11, <1>12, <1>13 DEF Safe

(* Effectors N are made with sinks of their own or none, *)
EffsMade(N, M) ==
    /\ \A e \in N :
          /\ eff[e].life = "none"
          /\ eff'[e].life = "live" /\ eff'[e].dc # "freed"
          /\ HasContext(eff'[e].class) => eff'[e].ctx = "live"
          /\ eff'[e].dc = "white" =>
                roller'.step # "none" /\ (e = roller'.eff[1] \/ e = roller'.eff[2])
          /\ eff'[e].res = "live" =>
                HasResources(eff'[e].class) /\ \E a \in M : anim'[a].target = e
          /\ eff'[e].sink # NoSink =>
                /\ eff'[e].sink \in Sinks /\ snk[eff'[e].sink].life = "none"
                /\ snk'[eff'[e].sink].life = "live" /\ snk'[eff'[e].sink].buf # "freed"
                /\ \A f \in N : eff'[f].sink = eff'[e].sink => f = e
    /\ \A e \in Effectors \ N : eff'[e] = eff[e]

(* and at most one animation for each, in M. *)
AnimsMade(N, M) ==
    /\ \A a \in M :
          /\ anim[a].life = "none"
          /\ anim'[a].life = "live" /\ anim'[a].target \in N
          /\ anim'[a].state # "STOPPED" => anim'[a].state = "ACTIVE" /\ anim'[a].ran
          /\ anim'[a].ran => anim'[a].state = "ACTIVE"
          /\ eff'[anim'[a].target].sink # NoSink
          /\ HasResources(eff'[anim'[a].target].class) => eff'[anim'[a].target].res = "live"
          /\ \A b \in M : anim'[b].target = anim'[a].target => b = a
    /\ \A a \in Anims \ M : anim'[a] = anim[a]

LEMMA SafeMade ==
    ASSUME EInv, NEW N \in SUBSET Effectors, NEW M \in SUBSET Anims,
           EffsMade(N, M), AnimsMade(N, M),
           SinksOK', \A k \in Sinks : snk[k].life # "none" => snk'[k] = snk[k],
           listed \subseteq listed', listed' \subseteq listed \cup M,
           roller' = roller \/ roller.step = "none",
           fault' = fault
    PROVE  /\ EffsOK' /\ OwnSinks' /\ SinksOK' /\ AnimsOK' /\ Draws' /\ OneDraws' /\ Held' /\ NoFault'
           /\ fill' = fill => FillOK'
           /\ roller' = roller /\ (\A a \in M : anim'[a].cb = "enddraw") => RollerOK'
<1> USE DEF EffsMade, AnimsMade
<1>0. Typed /\ EffsOK /\ OwnSinks /\ SinksOK /\ AnimsOK /\ Draws /\ OneDraws /\ Held
      /\ FillOK /\ RollerOK /\ NoFault
    BY DEF EInv, Safe
<1>1. \A e \in Effectors \ N :
          eff[e].sink # NoSink => /\ eff[e].sink \in Sinks /\ snk[eff[e].sink].life = "live"
                                 /\ snk'[eff[e].sink] = snk[eff[e].sink]
    BY <1>0, SinkOf DEF EffsOK
<1>2. EffsOK'
    <2> SUFFICES ASSUME NEW e \in Effectors
                 PROVE  /\ eff'[e].life = "live" =>
                              /\ HasContext(eff'[e].class) => eff'[e].ctx = "live"
                              /\ eff'[e].dc # "freed"
                              /\ eff'[e].dc = "white" => roller'.step # "none" /\
                                    (e = roller'.eff[1] \/ e = roller'.eff[2])
                              /\ eff'[e].sink # NoSink => snk'[eff'[e].sink].life = "live"
                        /\ eff'[e].life # "live" => eff'[e].sink = NoSink /\ eff'[e].res # "live"
                        /\ eff'[e].life = "freed" =>
                              eff'[e].ctx # "live" /\ eff'[e].dc \in {"app", "freed"}
        BY DEF EffsOK
    <2>1. CASE e \in N
        BY <2>1
    <2>2. CASE e \notin N
        <3>1. eff'[e] = eff[e]
            BY <2>2
        <3> QED
            BY <1>0, <1>1, <2>2, <3>1 DEF EffsOK
    <2> QED
        BY <2>1, <2>2
<1>3. OwnSinks'
    <2> SUFFICES ASSUME NEW e \in Effectors, NEW f \in Effectors,
                        eff'[e].sink # NoSink, eff'[e].sink = eff'[f].sink
                 PROVE  e = f
        BY DEF OwnSinks
    <2>1. CASE e \in N /\ f \in N
        BY <2>1
    <2>2. CASE e \notin N /\ f \notin N
        BY <1>0, <2>2 DEF OwnSinks
    <2>3. CASE e \in N /\ f \notin N
        BY <1>1, <2>3
    <2>4. CASE e \notin N /\ f \in N
        BY <1>1, <2>4
    <2> QED
        BY <2>1, <2>2, <2>3, <2>4
<1>4. \A a \in Anims \ M : anim[a].life = "live" =>
          anim[a].target \in Effectors \ N /\ eff'[anim[a].target] = eff[anim[a].target]
    BY <1>0 DEF AnimsOK
<1>5. AnimsOK'
    <2> SUFFICES ASSUME NEW a \in Anims
                 PROVE  /\ anim'[a].life = "live" =>
                              anim'[a].target \in Effectors /\ eff'[anim'[a].target].life # "none"
                        /\ anim'[a].life # "live" => anim'[a].state = "STOPPED" /\ a \notin listed'
                        /\ anim'[a].state # "STOPPED" => anim'[a].ran
                        /\ anim'[a].state = "REMOVE" => ~anim'[a].keepalive
        BY DEF AnimsOK
    <2>1. CASE a \in M
        BY <2>1
    <2>2. CASE a \notin M
        <3>1. anim'[a] = anim[a] /\ (a \in listed' => a \in listed)
            BY <2>2
        <3> QED
            BY <1>0, <1>4, <2>2, <3>1 DEF AnimsOK
    <2> QED
        BY <2>1, <2>2
<1>6. \A a \in Anims \ M : Drawing(a)' <=> Drawing(a)
    BY DEF Drawing
<1>7. \A a \in M : Drawing(a)'
    BY DEF Drawing
<1>8. Draws'
    <2> SUFFICES ASSUME NEW a \in Anims, Drawing(a)'
                 PROVE  Drawable(anim[a].target)'
        BY DEF Draws
    <2>1. CASE a \in M
        <3> DEFINE e == anim'[a].target
        <3>1. /\ e \in N /\ eff'[e].sink # NoSink
              /\ HasResources(eff'[e].class) => eff'[e].res = "live"
            BY <2>1
        <3>2. /\ eff'[e].life = "live" /\ eff'[e].dc # "freed"
              /\ HasContext(eff'[e].class) => eff'[e].ctx = "live"
              /\ eff'[e].sink \in Sinks
              /\ snk'[eff'[e].sink].life = "live" /\ snk'[eff'[e].sink].buf # "freed"
            BY <3>1
        <3> QED
            BY <3>1, <3>2 DEF Drawable, SinkLive
    <2>2. CASE a \notin M
        <3> DEFINE f == anim[a].target
        <3>1. Drawing(a) /\ anim'[a] = anim[a]
            BY <1>6, <2>2
        <3>2. f \in Effectors \ N /\ eff'[f] = eff[f] /\ Drawable(f) /\ anim'[a].target = f
            BY <1>0, <1>4, <2>2, <3>1 DEF Draws, Drawing
        <3> HIDE DEF f
        <3>3. snk'[eff[f].sink] = snk[eff[f].sink]
            BY <1>1, <3>2, NoneAssumption DEF Drawable, SinkLive
        <3> QED
            BY <3>2, <3>3 DEF Drawable, SinkLive
    <2> QED
        BY <2>1, <2>2
<1>9. \A a \in Anims \ M : Drawing(a) => anim'[a].target \in Effectors \ N
    BY <1>4 DEF Drawing
<1>10. OneDraws'
    <2> SUFFICES ASSUME NEW a \in Anims, NEW b \in Anims, Drawing(a)', Drawing(b)',
                        anim'[a].target = anim'[b].target, HasResources(eff'[anim'[a].target].class)
                 PROVE  a = b
        BY DEF OneDraws
    <2>1. CASE a \in M /\ b \in M
        BY <2>1
    <2>2. CASE a \notin M /\ b \notin M
        BY <1>0, <1>4, <1>6, <2>2 DEF OneDraws, Drawing
    <2>3. CASE (a \in M) # (b \in M)
        BY <1>6, <1>9, <2>3
    <2> QED
        BY <2>1, <2>2, <2>3
<1>11. Held'
    <2> SUFFICES ASSUME NEW e \in Effectors, eff'[e].res = "live"
                 PROVE  HasResources(eff'[e].class) /\ \E a \in Anims : Drawing(a)' /\ anim'[a].target = e
        BY DEF Held, BusyEff
    <2>1. CASE e \in N
        BY <1>7, <2>1
    <2>2. CASE e \notin N
        <3>1. eff'[e] = eff[e]
            BY <2>2
        <3>2. PICK a \in Anims : Drawing(a) /\ anim[a].target = e
            BY <1>0, <3>1 DEF Held, BusyEff
        <3>3. a \notin M
            BY <3>2 DEF Drawing
        <3> QED
            BY <1>0, <1>6, <3>1, <3>2, <3>3 DEF Held
    <2> QED
        BY <2>1, <2>2
<1>12. /\ \A b \in M : anim'[b].target \in N
       /\ \A b \in Anims : b \notin M => anim'[b] = anim[b]
    OBVIOUS
<1>13. ASSUME fill' = fill PROVE FillOK'
    <2>1. /\ fill.step # "none" =>
                 /\ fill.eff \in Effectors \ N /\ fill.anim \in Anims \ M
                 /\ eff'[fill.eff] = eff[fill.eff] /\ anim'[fill.anim] = anim[fill.anim]
                 /\ fill.anim \in listed' <=> fill.anim \in listed
        BY <1>0 DEF FillOK
    <2>2. fill.step = "wait" => fill.step # "none"
        OBVIOUS
    <2> QED
        BY <1>0, <1>12, <1>13, <2>1, <2>2 DEF FillOK
<1>14. ASSUME roller' = roller, \A a \in M : anim'[a].cb = "enddraw"
       PROVE  RollerOK'
    <2>1. ASSUME NEW j \in 1..2, RollerPair(j)
          PROVE  RollerPair(j)'
        <3>1. /\ roller.eff[j] \in Effectors \ N /\ roller.anim[j] \in Anims \ M
              /\ eff'[roller.eff[j]] = eff[roller.eff[j]]
              /\ anim'[roller.anim[j]] = anim[roller.anim[j]]
              /\ roller.anim[j] \in listed' <=> roller.anim[j] \in listed
              /\ Drawing(roller.anim[j])' <=> Drawing(roller.anim[j])
            BY <1>14, <2>1 DEF RollerPair, Drawing
        <3> QED
            BY <1>12, <1>14, <2>1, <3>1 DEF RollerPair
    <2>2. \A b \in Anims : anim'[b].cb = "roller" /\ anim'[b].life = "live" =>
              roller.step # "none" /\ b \in Kids
        BY <1>0, <1>14 DEF RollerOK
    <2> QED
        BY <1>0, <1>14, <2>1, <2>2 DEF RollerOK, Kids
<1> QED
    BY <1>0, <1>2, <1>3, <1>5, <1>8, <1>10, <1>11, <1>13, <1>14 DEF NoFault

(* A new effector with a sink, *)
SunkEff(c, dc, k) == [Created(c, dc) EXCEPT !.sink = k]

LEMMA SunkEffIs ==
    ASSUME NEW c \in Classes, NEW dc \in {"app", "source", "white"}, NEW k \in Sinks
    PROVE  /\ SunkEff(c, dc, k) \in EffType
           /\ SunkEff(c, dc, k).life = "live" /\ SunkEff(c, dc, k).class = c
           /\ SunkEff(c, dc, k).dc = dc /\ SunkEff(c, dc, k).res = "none"
           /\ SunkEff(c, dc, k).sink = k
           /\ HasContext(c) => SunkEff(c, dc, k).ctx = "live"
<1> DEFINE n == Created(c, dc)
<1>1. /\ n \in EffType /\ n.life = "live" /\ n.class = c /\ n.dc = dc /\ n.res = "none"
      /\ HasContext(c) => n.ctx = "live"
    BY CreatedIs
<1>2. SunkEff(c, dc, k) = [n EXCEPT !.sink = k]
    BY DEF SunkEff
<1> HIDE DEF n
<1> QED
    BY <1>1, <1>2 DEF EffType

(* and a sink that is made for it. *)
LEMMA SinkMade ==
    ASSUME EInv, NEW k \in Sinks, snk[k].life = "none"
    PROVE  LET t == [snk[k] EXCEPT !.life = "live"] IN
           t \in SinkType /\ t.life = "live" /\ t.buf # "freed"
BY DEF EInv, Typed, Safe, SinksOK, SinkType, Life

LEMMA CreateKeeps ==
    ASSUME EInv, NEW e \in Effectors, NEW c \in Classes, NEW dc \in {"app", "source"}, Create(e, c, dc)
    PROVE  EInv'
<1> DEFINE r == Created(c, dc)
<1>1. /\ r \in EffType /\ r.life = "live" /\ r.class = c
      /\ r.dc = dc /\ r.res = "none" /\ r.sink = NoSink
      /\ HasContext(c) => r.ctx = "live"
    BY CreatedIs
<1>2. eff' = [eff EXCEPT ![e] = r] /\ eff[e].life = "none"
      /\ UNCHANGED <<classes, snk, anim, listed, fill, roller, fault>>
    BY DEF Create
<1> HIDE DEF r
<1>3. eff' \in [Effectors -> EffType] /\ eff'[e] = r /\ \A f \in Effectors \ {e} : eff'[f] = eff[f]
    BY <1>1, <1>2 DEF EInv, Typed
<1>4. Typed'
    BY <1>2, <1>3 DEF EInv, Typed
<1>5. SinksOK'
    BY <1>2 DEF EInv, Safe, SinksOK
<1>6. EffsMade({e}, {})
    BY <1>1, <1>2, <1>3 DEF EffsMade
<1>7. AnimsMade({e}, {})
    BY <1>2 DEF AnimsMade
<1>8. Safe'
    BY <1>2, <1>5, <1>6, <1>7, SafeMade DEF Safe
<1> QED
    BY <1>4, <1>8 DEF EInv

LEMMA CreateExKeeps ==
    ASSUME EInv, NEW e \in Effectors, NEW k \in Sinks, NEW c \in Classes, CreateEx(e, k, c)
    PROVE  EInv'
<1> DEFINE r == SunkEff(c, "app", k)
           t == [snk[k] EXCEPT !.life = "live"]
<1>1. /\ r \in EffType /\ r.life = "live" /\ r.class = c
      /\ r.dc = "app" /\ r.res = "none" /\ r.sink = k
      /\ HasContext(c) => r.ctx = "live"
    BY SunkEffIs
<1>2. /\ eff' = [eff EXCEPT ![e] = r] /\ eff[e].life = "none" /\ snk[k].life = "none"
      /\ snk' = [snk EXCEPT ![k] = t]
      /\ UNCHANGED <<classes, anim, listed, fill, roller, fault>>
    BY DEF CreateEx, EInv, Typed, SunkEff
<1>3. /\ t \in SinkType /\ t.life = "live" /\ t.buf # "freed"
    BY <1>2, SinkMade
<1> HIDE DEF r, t
<1>4. /\ eff' \in [Effectors -> EffType] /\ eff'[e] = r
      /\ \A f \in Effectors \ {e} : eff'[f] = eff[f]
      /\ snk' \in [Sinks -> SinkType] /\ snk'[k] = t
      /\ \A l \in Sinks : l # k => snk'[l] = snk[l]
    BY <1>1, <1>2, <1>3 DEF EInv, Typed
<1>5. Typed'
    BY <1>2, <1>4 DEF EInv, Typed
<1>6. SinksOK'
    BY <1>3, <1>4 DEF EInv, Safe, SinksOK
<1>7. EffsMade({e}, {})
    BY <1>1, <1>2, <1>3, <1>4 DEF EffsMade
<1>8. AnimsMade({e}, {})
    BY <1>2 DEF AnimsMade
<1>9. \A l \in Sinks : snk[l].life # "none" => snk'[l] = snk[l]
    BY <1>2, <1>4
<1>10. Safe'
    BY <1>2, <1>6, <1>7, <1>8, <1>9, SafeMade DEF Safe
<1> QED
    BY <1>5, <1>10 DEF EInv

LEMMA FillStartKeeps ==
    ASSUME EInv, NEW e \in Effectors, NEW k \in Sinks, NEW a \in Anims, NEW c \in Classes,
           FillStart(e, k, a, c)
    PROVE  EInv'
<1> DEFINE res == IF HasResources(c) THEN "live" ELSE "none"
           q == SunkEff(c, "app", k)
           r == [q EXCEPT !.res = res]
           t == [snk[k] EXCEPT !.life = "live"]
           d == DrawingAnim(e, TRUE, "enddraw")
           n == [d EXCEPT !.state = "ACTIVE", !.ran = TRUE, !.left = Length]
<1>1. /\ r \in EffType /\ r.life = "live" /\ r.class = c
      /\ r.dc = "app" /\ r.res = res /\ r.sink = k
      /\ HasContext(c) => r.ctx = "live"
    <2>1. res \in Life
        BY DEF Life
    <2>2. /\ q \in EffType /\ q.life = "live" /\ q.class = c
          /\ q.dc = "app" /\ q.sink = k
          /\ HasContext(c) => q.ctx = "live"
        BY SunkEffIs
    <2> HIDE DEF res, q
    <2> QED
        BY <2>1, <2>2 DEF EffType
<1>2. /\ eff' = [eff EXCEPT ![e] = r] /\ snk' = [snk EXCEPT ![k] = t] /\ anim' = [anim EXCEPT ![a] = n]
      /\ fill' = [step |-> "wait", eff |-> e, sink |-> k, anim |-> a]
      /\ eff[e].life = "none" /\ snk[k].life = "none" /\ anim[a].life = "none" /\ fill.step = "none"
      /\ listed' = listed \cup {a} /\ UNCHANGED <<classes, roller, fault>>
    <2>1. eff' = [eff EXCEPT ![e] = r]
        BY DEF FillStart, SunkEff
    <2>2. snk' = [snk EXCEPT ![k] = t]
        BY DEF FillStart
    <2>3. anim' = [anim EXCEPT ![a] = n]
        BY DEF FillStart
    <2> HIDE DEF r, t, n
    <2> QED
        BY <2>1, <2>2, <2>3 DEF FillStart
<1>3. /\ t \in SinkType /\ t.life = "live" /\ t.buf # "freed"
    BY <1>2, SinkMade
<1>4. /\ n \in AnimType /\ n.life = "live" /\ n.state = "ACTIVE" /\ n.ran = TRUE
      /\ n.keepalive = TRUE /\ n.target = e /\ n.cb = "enddraw"
    <2>1. /\ d \in AnimType /\ d.life = "live" /\ d.keepalive = TRUE /\ d.target = e /\ d.cb = "enddraw"
        BY LengthAssumption DEF DrawingAnim, AnimType, Life
    <2>2. Length \in 0..Length
        BY LengthAssumption
    <2> DEFINE m == [d EXCEPT !.state = "ACTIVE", !.ran = TRUE]
    <2> HIDE DEF d
    <2>3. /\ m \in AnimType /\ m.life = "live" /\ m.keepalive = TRUE /\ m.target = e /\ m.cb = "enddraw"
          /\ m.state = "ACTIVE" /\ m.ran = TRUE
        BY <2>1 DEF AnimType
    <2>4. n = [m EXCEPT !.left = Length]
        OBVIOUS
    <2> HIDE DEF m, n
    <2> QED
        BY <2>2, <2>3, <2>4 DEF AnimType
<1>5. HasResources(c) <=> res = "live"
    OBVIOUS
<1> HIDE DEF r, t, n, res
<1>6. /\ eff' \in [Effectors -> EffType] /\ eff'[e] = r
      /\ \A f \in Effectors \ {e} : eff'[f] = eff[f]
      /\ snk' \in [Sinks -> SinkType] /\ snk'[k] = t
      /\ \A l \in Sinks : l # k => snk'[l] = snk[l]
      /\ anim' \in [Anims -> AnimType] /\ anim'[a] = n
      /\ \A b \in Anims \ {a} : anim'[b] = anim[b]
    BY <1>1, <1>2, <1>3, <1>4 DEF EInv, Typed
<1>7. Typed'
    <2>1. fill' \in FillType
        BY <1>2 DEF FillType
    <2>2. fill'.step = "wait"
        BY <1>2
    <2> QED
        BY <1>2, <1>6, <2>1, <2>2 DEF EInv, Typed
<1>8. SinksOK'
    BY <1>3, <1>6 DEF EInv, Safe, SinksOK
<1>9. /\ EffsOK' /\ OwnSinks' /\ AnimsOK' /\ Draws' /\ OneDraws' /\ Held' /\ NoFault'
      /\ RollerOK'
    <2> DEFINE N == {e}
               M == {a}
    <2>1. N \in SUBSET Effectors /\ M \in SUBSET Anims
        OBVIOUS
    <2>2. \A l \in Sinks : snk[l].life # "none" => snk'[l] = snk[l]
        BY <1>2, <1>6
    <2>3. /\ eff[e].life = "none"
          /\ eff'[e].life = "live" /\ eff'[e].dc = "app"
          /\ HasContext(eff'[e].class) => eff'[e].ctx = "live"
          /\ eff'[e].res = "live" <=> HasResources(eff'[e].class)
          /\ eff'[e].sink = k /\ snk[k].life = "none"
          /\ snk'[k].life = "live" /\ snk'[k].buf # "freed"
          /\ k # NoSink
        BY <1>1, <1>2, <1>3, <1>5, <1>6, NoneAssumption
    <2>4. /\ anim[a].life = "none"
          /\ anim'[a].life = "live" /\ anim'[a].target = e
          /\ anim'[a].state = "ACTIVE" /\ anim'[a].ran /\ anim'[a].cb = "enddraw"
        BY <1>2, <1>4, <1>6
    <2>5. listed \subseteq listed' /\ listed' \subseteq listed \cup M /\ fault' = fault /\ roller' = roller
        BY <1>2
    <2>6. EffsMade(N, M)
        BY <1>6, <2>3, <2>4 DEF EffsMade
    <2>7. AnimsMade(N, M)
        BY <1>6, <2>3, <2>4 DEF AnimsMade
    <2>8. \A x \in M : anim'[x].cb = "enddraw"
        BY <2>4
    <2> HIDE DEF N, M
    <2> QED
        BY <1>8, <2>1, <2>2, <2>5, <2>6, <2>7, <2>8, SafeMade DEF N, M
<1>10. FillOK'
    <2>1. fill'.step = "wait" /\ fill'.eff = e /\ fill'.anim = a
        BY <1>2
    <2>2. \A b \in Anims : anim'[b].life = "live" /\ anim'[b].target = e => b = a
        BY <1>2, <1>6 DEF EInv, Safe, AnimsOK
    <2> QED
        BY <1>1, <1>2, <1>4, <1>6, <2>1, <2>2 DEF FillOK
<1> QED
    BY <1>7, <1>8, <1>9, <1>10 DEF EInv, Safe

LEMMA RollerCreateKeeps ==
    ASSUME EInv, NEW e \in Effectors, NEW f \in Effectors, NEW k \in Sinks, NEW l \in Sinks,
           NEW a \in Anims, NEW b \in Anims, RollerCreate(e, f, k, l, a, b)
    PROVE  EInv'
<1> DEFINE q == SunkEff("zoom", "white", k)
           r == SunkEff("zoom", "white", l)
           m == DrawingAnim(e, TRUE, "roller")
           n == DrawingAnim(f, TRUE, "roller")
           t == [life |-> "live", buf |-> "live"]
<1>1. /\ e # f /\ k # l /\ a # b
      /\ eff[e].life = "none" /\ eff[f].life = "none"
      /\ snk[k].life = "none" /\ snk[l].life = "none"
      /\ anim[a].life = "none" /\ anim[b].life = "none"
      /\ roller.step = "none" /\ "zoom" \in classes
      /\ UNCHANGED <<classes, listed, fill, fault>>
    BY DEF RollerCreate
<1>2. /\ eff' = [[eff EXCEPT ![e] = q] EXCEPT ![f] = r]
      /\ snk' = [x \in Sinks |-> IF x \in {k, l} THEN t ELSE snk[x]]
      /\ anim' = [[anim EXCEPT ![a] = m] EXCEPT ![b] = n]
      /\ roller' = [step |-> "made", eff |-> <<e, f>>, sink |-> <<k, l>>, anim |-> <<a, b>>]
    BY DEF RollerCreate, SunkEff
<1>3. "zoom" \in Classes
    BY <1>1 DEF EInv, Typed
<1>4. /\ q \in EffType /\ q.life = "live" /\ q.class = "zoom" /\ q.dc = "white"
      /\ q.res = "none" /\ q.sink = k /\ q.ctx = "live"
      /\ r \in EffType /\ r.life = "live" /\ r.class = "zoom" /\ r.dc = "white"
      /\ r.res = "none" /\ r.sink = l /\ r.ctx = "live"
    BY <1>3, SunkEffIs DEF HasContext
<1>5. /\ m \in AnimType /\ m.life = "live" /\ m.state = "STOPPED" /\ m.keepalive = TRUE
      /\ m.ran = FALSE /\ m.target = e /\ m.cb = "roller"
      /\ n \in AnimType /\ n.life = "live" /\ n.state = "STOPPED" /\ n.keepalive = TRUE
      /\ n.ran = FALSE /\ n.target = f /\ n.cb = "roller"
    BY LengthAssumption DEF DrawingAnim, AnimType, Life
<1>6. t \in SinkType /\ t.life = "live" /\ t.buf = "live"
    BY DEF SinkType, Life
<1> HIDE DEF q, r, m, n, t
<1>7. /\ eff' \in [Effectors -> EffType] /\ eff'[e] = q /\ eff'[f] = r
      /\ \A x \in Effectors \ {e, f} : eff'[x] = eff[x]
    BY <1>1, <1>2, <1>4 DEF EInv, Typed
<1>8. /\ anim' \in [Anims -> AnimType] /\ anim'[a] = m /\ anim'[b] = n
      /\ \A x \in Anims \ {a, b} : anim'[x] = anim[x]
    BY <1>1, <1>2, <1>5 DEF EInv, Typed
<1>9. /\ snk' \in [Sinks -> SinkType] /\ snk'[k] = t /\ snk'[l] = t
      /\ \A x \in Sinks : x \notin {k, l} => snk'[x] = snk[x]
    BY <1>2, <1>6 DEF EInv, Typed
<1>10. /\ roller'.step = "made" /\ roller'.eff[1] = e /\ roller'.eff[2] = f
       /\ roller'.anim[1] = a /\ roller'.anim[2] = b /\ roller' \in RollerType
    <2>1. /\ <<e, f>> \in [1..2 -> Effectors \cup {NoEff}]
          /\ <<k, l>> \in [1..2 -> Sinks \cup {NoSink}]
          /\ <<a, b>> \in [1..2 -> Anims \cup {NoAnim}]
        OBVIOUS
    <2> QED
        BY <1>2, <2>1 DEF RollerType
<1>11. Typed'
    BY <1>1, <1>7, <1>8, <1>9, <1>10 DEF EInv, Typed
<1>12. SinksOK'
    BY <1>6, <1>9 DEF EInv, Safe, SinksOK
<1>13. EffsMade({e, f}, {a, b})
    BY <1>1, <1>4, <1>5, <1>6, <1>7, <1>8, <1>9, <1>10 DEF EffsMade
<1>14. AnimsMade({e, f}, {a, b})
    BY <1>1, <1>4, <1>5, <1>7, <1>8, NoneAssumption DEF AnimsMade, HasResources
<1>15. \A x \in Sinks : snk[x].life # "none" => snk'[x] = snk[x]
    BY <1>1, <1>9
<1>16. EffsOK' /\ OwnSinks' /\ AnimsOK' /\ Draws' /\ OneDraws' /\ Held' /\ NoFault' /\ FillOK'
    BY <1>1, <1>12, <1>13, <1>14, <1>15, SafeMade
<1>17. RollerOK'
    <2>1. /\ a \notin listed /\ b \notin listed
          /\ \A x \in Anims : anim[x].life = "live" => anim[x].target # e /\ anim[x].target # f
          /\ \A x \in Anims : ~(anim[x].cb = "roller" /\ anim[x].life = "live")
        BY <1>1 DEF EInv, Safe, AnimsOK, RollerOK
    <2>2. /\ \A x \in Anims : anim'[x].life = "live" /\ anim'[x].target = e => x = a
          /\ \A x \in Anims : anim'[x].life = "live" /\ anim'[x].target = f => x = b
        BY <1>1, <1>5, <1>8, <2>1
    <2>3. RollerPair(1)'
        BY <1>1, <1>4, <1>5, <1>7, <1>8, <1>10, <2>1, <2>2 DEF RollerPair
    <2>4. RollerPair(2)'
        BY <1>1, <1>4, <1>5, <1>7, <1>8, <1>10, <2>1, <2>2 DEF RollerPair
    <2>5. ASSUME NEW x \in Anims, anim'[x].cb = "roller", anim'[x].life = "live"
          PROVE  x \in {roller'.anim[i] : i \in 1..2}
        <3>1. x = a \/ x = b
            BY <1>8, <2>1, <2>5
        <3> QED
            BY <1>10, <3>1
    <2> QED
        BY <1>1, <1>10, <2>3, <2>4, <2>5 DEF RollerOK, Kids
<1> QED
    BY <1>11, <1>12, <1>16, <1>17 DEF EInv, Safe

(* mGEffAnimationCreateWithEffector calls begindraw. *)
LEMMA CreateAnimKeeps ==
    ASSUME AllRules, EInv, NEW a \in Anims, NEW e \in Effectors, NEW keepalive \in BOOLEAN,
           CreateAnim(a, e, keepalive)
    PROVE  EInv'
<1> DEFINE r == Begun(e)
           n == DrawingAnim(e, keepalive, "enddraw")
<1>0. Typed /\ EffsOK /\ OwnSinks /\ SinksOK /\ AnimsOK /\ Draws /\ OneDraws /\ Held
      /\ FillOK /\ RollerOK /\ NoFault
    BY DEF EInv, Safe
<1>1. /\ anim[a].life = "none" /\ eff[e].life = "live" /\ e \notin InnerEff
      /\ SinkLive(eff[e].sink) /\ ~BusyEff(e)
      /\ UNCHANGED <<classes, snk, listed, fill, roller>>
    BY RulesFollowed DEF CreateAnim
<1>2. fault' = fault /\ eff' = [eff EXCEPT ![e] = r] /\ anim' = [anim EXCEPT ![a] = n]
    BY <1>0, <1>1 DEF CreateAnim, Typed
<1>3. /\ r \in EffType /\ r.life = eff[e].life /\ r.class = eff[e].class
      /\ r.dc = eff[e].dc /\ r.ctx = eff[e].ctx /\ r.sink = eff[e].sink
      /\ HasResources(eff[e].class) => r.res = "live"
      /\ ~HasResources(eff[e].class) => r.res = eff[e].res
    BY <1>0, BegunIs
<1>4. /\ n \in AnimType /\ n.life = "live" /\ n.state = "STOPPED" /\ n.keepalive = keepalive
      /\ n.ran = FALSE /\ n.target = e /\ n.cb = "enddraw"
    BY LengthAssumption DEF DrawingAnim, AnimType, Life
<1> HIDE DEF r, n
<1>5. /\ eff' \in [Effectors -> EffType] /\ eff'[e] = r
      /\ \A f \in Effectors : f # e => eff'[f] = eff[f]
    BY <1>0, <1>2, <1>3 DEF Typed
<1>6. /\ anim' \in [Anims -> AnimType] /\ anim'[a] = n
      /\ \A b \in Anims : b # a => anim'[b] = anim[b]
    BY <1>0, <1>2, <1>4 DEF Typed
<1>7. Typed'
    BY <1>0, <1>1, <1>2, <1>5, <1>6 DEF Typed
<1>8. \A f \in Effectors : /\ eff'[f].life = eff[f].life /\ eff'[f].class = eff[f].class
                            /\ eff'[f].dc = eff[f].dc /\ eff'[f].ctx = eff[f].ctx
                            /\ eff'[f].sink = eff[f].sink
    BY <1>3, <1>5
<1>9. /\ Drawing(a)' /\ \A b \in Anims : b # a => (Drawing(b)' <=> Drawing(b))
    BY <1>4, <1>6 DEF Drawing
<1>10. \A b \in Anims : Drawing(b) => b # a /\ anim[b].target # e
    BY <1>1 DEF BusyEff, Drawing
<1>11. EffsOK'
    BY <1>0, <1>1, <1>5, <1>8 DEF EffsOK
<1>12. OwnSinks' /\ SinksOK' /\ NoFault'
    BY <1>0, <1>1, <1>2, <1>8 DEF OwnSinks, SinksOK, NoFault
<1>13. AnimsOK'
    <2> SUFFICES ASSUME NEW b \in Anims
                 PROVE  /\ anim'[b].life = "live" =>
                              anim'[b].target \in Effectors /\ eff'[anim'[b].target].life # "none"
                        /\ anim'[b].life # "live" => anim'[b].state = "STOPPED" /\ b \notin listed'
                        /\ anim'[b].state # "STOPPED" => anim'[b].ran
                        /\ anim'[b].state = "REMOVE" => ~anim'[b].keepalive
        BY DEF AnimsOK
    <2>1. CASE b = a
        BY <1>1, <1>4, <1>6, <1>8, <2>1
    <2>2. CASE b # a
        BY <1>0, <1>1, <1>6, <1>8, <2>2 DEF AnimsOK
    <2> QED
        BY <2>1, <2>2
<1>14. Draws'
    <2> SUFFICES ASSUME NEW b \in Anims, Drawing(b)'
                 PROVE  Drawable(anim[b].target)'
        BY DEF Draws
    <2>1. CASE b = a
        <3>1. anim'[b].target = e
            BY <1>4, <1>6, <2>1
        <3>2. /\ eff'[e].life = "live" /\ eff'[e].dc # "freed" /\ SinkLive(eff'[e].sink)
              /\ HasContext(eff'[e].class) => eff'[e].ctx = "live"
              /\ HasResources(eff'[e].class) => eff'[e].res = "live"
            BY <1>0, <1>1, <1>3, <1>5 DEF EffsOK
        <3> QED
            BY <1>1, <3>1, <3>2 DEF Drawable, SinkLive
    <2>2. CASE b # a
        <3> DEFINE f == anim[b].target
        <3>1. /\ anim'[b].target = f /\ Drawing(b) /\ f # e /\ Drawable(f) /\ f \in Effectors
            BY <1>0, <1>6, <1>9, <1>10, <2>2 DEF Draws, Drawing, AnimsOK
        <3> HIDE DEF f
        <3> QED
            BY <1>1, <1>5, <3>1 DEF Drawable, SinkLive
    <2> QED
        BY <2>1, <2>2
<1>15. \A b \in Anims : Drawing(b) => anim'[b].target # e /\ anim'[b].target = anim[b].target
    BY <1>6, <1>10
<1>16. OneDraws'
    <2> SUFFICES ASSUME NEW b \in Anims, NEW d \in Anims, Drawing(b)', Drawing(d)',
                        anim'[b].target = anim'[d].target, HasResources(eff'[anim'[b].target].class)
                 PROVE  b = d
        BY DEF OneDraws
    <2>1. anim'[a].target = e
        BY <1>4, <1>6
    <2>2. CASE b # a /\ d # a
        <3>1. /\ Drawing(b) /\ Drawing(d) /\ anim[b].target = anim[d].target
              /\ anim'[b].target = anim[b].target /\ anim[b].target \in Effectors
            BY <1>0, <1>9, <1>15, <2>2 DEF AnimsOK, Drawing
        <3> QED
            BY <1>0, <1>8, <3>1 DEF OneDraws
    <2>3. CASE b = a \/ d = a
        BY <1>9, <1>15, <2>1, <2>3
    <2> QED
        BY <2>2, <2>3
<1>17. Held'
    <2> SUFFICES ASSUME NEW f \in Effectors, eff'[f].res = "live"
                 PROVE  HasResources(eff'[f].class) /\ \E b \in Anims : Drawing(b)' /\ anim'[b].target = f
        BY DEF Held, BusyEff
    <2>1. CASE f = e
        BY <1>0, <1>1, <1>3, <1>4, <1>5, <1>6, <1>9, <2>1 DEF Held
    <2>2. CASE f # e
        <3>1. PICK b \in Anims : Drawing(b) /\ anim[b].target = f
            BY <1>0, <1>5, <2>2 DEF Held, BusyEff
        <3> QED
            BY <1>0, <1>5, <1>9, <1>10, <1>15, <2>2, <3>1 DEF Held
    <2> QED
        BY <2>1, <2>2
<1>18. FillOK'
    <2>1. fill.step # "none" =>
             /\ fill.eff \in Effectors /\ fill.anim \in Anims
             /\ fill.eff # e /\ fill.anim # a /\ anim'[fill.anim] = anim[fill.anim]
             /\ eff'[fill.eff] = eff[fill.eff]
        BY <1>0, <1>1, <1>5, <1>6 DEF FillOK, InnerEff
    <2>2. anim'[a].target = e
        BY <1>4, <1>6
    <2>3. fill.step = "wait" => fill.step # "none"
        OBVIOUS
    <2> QED
        BY <1>0, <1>1, <1>6, <2>1, <2>2, <2>3 DEF FillOK
<1>19. RollerOK'
    <2>1. anim'[a].target = e /\ anim'[a].cb = "enddraw"
        BY <1>4, <1>6
    <2>2. ASSUME NEW i \in 1..2, RollerPair(i)
          PROVE  RollerPair(i)'
        <3>1. /\ roller.eff[i] \in Effectors /\ roller.anim[i] \in Anims
              /\ roller.eff[i] # e /\ roller.anim[i] # a
              /\ anim'[roller.anim[i]] = anim[roller.anim[i]]
              /\ eff'[roller.eff[i]] = eff[roller.eff[i]]
              /\ Drawing(roller.anim[i])' <=> Drawing(roller.anim[i])
            BY <1>1, <1>5, <1>6, <2>2 DEF RollerPair, InnerEff, Drawing
        <3> QED
            BY <1>1, <1>6, <2>1, <2>2, <3>1 DEF RollerPair
    <2>3. \A b \in Anims : anim'[b].cb = "roller" /\ anim'[b].life = "live" =>
              roller.step # "none" /\ b \in Kids
        BY <1>0, <1>6, <2>1 DEF RollerOK
    <2> QED
        BY <1>0, <1>1, <2>2, <2>3 DEF RollerOK, Kids
<1> QED
    BY <1>7, <1>11, <1>12, <1>13, <1>14, <1>16, <1>17, <1>18, <1>19 DEF EInv, Safe

(* Animations D are run: the ones that were run before can be drawn again. *)
LEMMA SafeRun ==
    ASSUME EInv, NEW D \in SUBSET Anims,
           \A a \in D : /\ anim[a].life = "live"
                        /\ anim[a].ran => /\ ~HasResources(eff[anim[a].target].class)
                                          /\ Drawable(anim[a].target),
           \A b \in Anims : anim'[b] = IF b \in D THEN Run(b) ELSE anim[b],
           listed' = listed \/ listed' = listed \cup D,
           fill.step = "wait" => fill.anim \notin D,
           \/ roller' = roller /\ (roller.step # "none" => D \cap Kids = {})
           \/ /\ roller' = [roller EXCEPT !.step = "runs"] /\ roller.step = "made"
              /\ D = Kids /\ listed' = listed,
           UNCHANGED <<eff, snk, fill, fault>>
    PROVE  Safe'
<1>0. Typed /\ EffsOK /\ OwnSinks /\ SinksOK /\ AnimsOK /\ Draws /\ OneDraws /\ Held
      /\ FillOK /\ RollerOK /\ NoFault
    BY DEF EInv, Safe
<1>1. \A b \in D : /\ anim'[b].life = "live" /\ anim'[b].state = "ACTIVE" /\ anim'[b].ran = TRUE
                    /\ anim'[b].keepalive = anim[b].keepalive /\ anim'[b].target = anim[b].target
                    /\ anim'[b].cb = anim[b].cb
    <2> SUFFICES ASSUME NEW b \in D
                 PROVE  /\ anim'[b].life = "live" /\ anim'[b].state = "ACTIVE" /\ anim'[b].ran = TRUE
                        /\ anim'[b].keepalive = anim[b].keepalive /\ anim'[b].target = anim[b].target
                        /\ anim'[b].cb = anim[b].cb
        OBVIOUS
    <2> DEFINE r == Run(b)
    <2>1. /\ r.life = anim[b].life /\ r.state = "ACTIVE" /\ r.ran = TRUE
          /\ r.keepalive = anim[b].keepalive /\ r.target = anim[b].target
          /\ r.cb = anim[b].cb
        BY <1>0, RunIs DEF Typed
    <2>2. anim'[b] = r /\ anim[b].life = "live"
        OBVIOUS
    <2> HIDE DEF r
    <2> QED
        BY <2>1, <2>2
<1>2. \A b \in Anims : b \notin D => anim'[b] = anim[b]
    OBVIOUS
<1>3. \A b \in Anims : /\ anim'[b].life = anim[b].life /\ anim'[b].target = anim[b].target
                        /\ anim'[b].keepalive = anim[b].keepalive /\ anim'[b].cb = anim[b].cb
    BY <1>1, <1>2
<1>4. /\ \A b \in Anims : Drawing(b) => Drawing(b)'
      /\ \A b \in Anims : Drawing(b)' /\ ~Drawing(b) => b \in D /\ anim[b].ran
    BY <1>1, <1>2, <1>3 DEF Drawing
<1>5. /\ roller'.eff = roller.eff /\ roller'.anim = roller.anim
      /\ roller'.step = "none" <=> roller.step = "none"
      /\ roller'.step = "made" => roller'.step = roller.step
    BY <1>0 DEF Typed, RollerType
<1>6. EffsOK' /\ OwnSinks' /\ SinksOK' /\ NoFault'
    <2>1. EffsOK'
        BY <1>0, <1>5 DEF EffsOK
    <2> QED
        BY <1>0, <2>1 DEF OwnSinks, SinksOK, NoFault
<1>7. AnimsOK'
    <2> SUFFICES ASSUME NEW b \in Anims
                 PROVE  /\ anim'[b].life = "live" =>
                              anim'[b].target \in Effectors /\ eff'[anim'[b].target].life # "none"
                        /\ anim'[b].life # "live" => anim'[b].state = "STOPPED" /\ b \notin listed'
                        /\ anim'[b].state # "STOPPED" => anim'[b].ran
                        /\ anim'[b].state = "REMOVE" => ~anim'[b].keepalive
        BY DEF AnimsOK
    <2>1. CASE b \in D
        BY <1>0, <1>1, <2>1 DEF AnimsOK
    <2>2. CASE b \notin D
        BY <1>0, <1>2, <2>2 DEF AnimsOK
    <2> QED
        BY <2>1, <2>2
<1>8. Draws'
    <2> SUFFICES ASSUME NEW b \in Anims, Drawing(b)'
                 PROVE  Drawable(anim[b].target)'
        BY DEF Draws
    <2> DEFINE f == anim[b].target
    <2>1. Drawable(f) /\ anim'[b].target = f
        BY <1>0, <1>3, <1>4 DEF Draws
    <2> HIDE DEF f
    <2> QED
        BY <2>1 DEF Drawable, SinkLive
<1>9. OneDraws'
    <2> SUFFICES ASSUME NEW a \in Anims, NEW b \in Anims, Drawing(a)', Drawing(b)',
                        anim'[a].target = anim'[b].target, HasResources(eff'[anim'[a].target].class)
                 PROVE  a = b
        BY DEF OneDraws
    <2>1. anim[a].target = anim[b].target /\ HasResources(eff[anim[a].target].class)
        BY <1>3
    <2>2. Drawing(a) /\ Drawing(b)
        BY <1>4, <2>1
    <2> QED
        BY <1>0, <2>1, <2>2 DEF OneDraws
<1>10. Held'
    <2> SUFFICES ASSUME NEW e \in Effectors, eff'[e].res = "live"
                 PROVE  HasResources(eff'[e].class) /\ \E b \in Anims : Drawing(b)' /\ anim'[b].target = e
        BY DEF Held, BusyEff
    <2>1. PICK b \in Anims : Drawing(b) /\ anim[b].target = e
        BY <1>0 DEF Held, BusyEff
    <2> QED
        BY <1>0, <1>3, <1>4, <2>1 DEF Held
<1>11. FillOK'
    <2>1. fill.step # "none" => fill.eff \in Effectors /\ fill.anim \in Anims
        BY <1>0 DEF FillOK
    <2>2. fill.step = "wait" => /\ fill.step # "none" /\ anim'[fill.anim] = anim[fill.anim]
                                /\ fill.anim \notin listed' => fill.anim \notin listed
        BY <1>2, <2>1
    <2> QED
        BY <1>0, <1>3, <2>1, <2>2 DEF FillOK
<1>12. RollerOK'
    <2>1. ASSUME NEW i \in 1..2, roller.step # "none", RollerPair(i)
          PROVE  RollerPair(i)'
        <3> DEFINE e == roller.eff[i]
                   a == roller.anim[i]
        <3>1. /\ e \in Effectors /\ a \in Anims /\ a \in Kids
              /\ eff'[e].life # "none" /\ anim'[a].life # "none"
              /\ \A b \in Anims : anim'[b].life = "live" /\ anim'[b].target = e => b = a
            BY <1>3, <2>1 DEF RollerPair, Kids
        <3>2. CASE roller' = roller /\ D \cap Kids = {}
            <4>1. anim'[a] = anim[a] /\ a \notin listed' /\ (Drawing(a)' <=> Drawing(a))
                BY <1>2, <2>1, <3>1, <3>2 DEF RollerPair, Drawing
            <4> QED
                BY <2>1, <3>1, <3>2, <4>1 DEF RollerPair
        <3>3. CASE /\ roller' = [roller EXCEPT !.step = "runs"] /\ roller.step = "made"
                   /\ D = Kids /\ listed' = listed
            <4>1. roller'.step = "runs" /\ roller'.eff[i] = e /\ roller'.anim[i] = a
                BY <1>0, <1>5, <3>3 DEF Typed, RollerType
            <4>2. /\ anim[a].life = "live" /\ ~anim[a].ran
                  /\ anim[a].keepalive /\ anim[a].cb = "roller" /\ anim[a].target = e
                  /\ a \notin listed
                BY <2>1, <3>3 DEF RollerPair
            <4>3. eff[e].dc = "white" /\ eff[e].class = "zoom"
                BY <2>1, <4>2 DEF RollerPair, Drawing
            <4>4. anim'[a].ran /\ anim'[a].life = "live"
                BY <1>1, <3>1, <3>3
            <4> QED
                BY <1>3, <3>1, <3>3, <4>1, <4>2, <4>3, <4>4 DEF RollerPair
        <3> QED
            BY <2>1, <3>2, <3>3
    <2>2. \A b \in Anims : anim'[b].cb = "roller" /\ anim'[b].life = "live" =>
              roller.step # "none" /\ b \in Kids
        BY <1>0, <1>3 DEF RollerOK
    <2> QED
        BY <1>0, <1>5, <2>1, <2>2 DEF RollerOK, Kids
<1> QED
    BY <1>6, <1>7, <1>8, <1>9, <1>10, <1>11, <1>12 DEF Safe
-----------------------------------------------------------------------------
(***************************************************************************)
(* The other steps.                                                        *)
(***************************************************************************)

(* mGEffEffectorRegister and mGEffEffectorUnRegister. *)
LEMMA RegisterKeeps ==
    ASSUME EInv, NEW c \in Custom, Register(c) \/ UnRegister(c)
    PROVE  EInv'
<1>1. classes' \subseteq Classes /\ UNCHANGED <<eff, snk, anim, listed, fill, roller, fault>>
    BY ClassesAssumption DEF Register, UnRegister, EInv, Typed
<1>2. Typed'
    BY <1>1 DEF EInv, Typed
<1>3. Safe'
    BY <1>1, SafeSame
<1> QED
    BY <1>2, <1>3 DEF EInv

(* A sink no live effector has is no effector's. *)
LEMMA NobodysSink ==
    ASSUME EInv, NEW k \in Sinks,
           \/ snk[k].life = "none"
           \/ \A e \in Effectors : eff[e].life = "live" => eff[e].sink # k
    PROVE  \A e \in Effectors : eff[e].sink # k
BY NoneAssumption DEF EInv, Safe, EffsOK

(* mGEffCreateHDCSink with mGEffSetBufferSink, *)
LEMMA CreateSinkKeeps ==
    ASSUME EInv, NEW k \in Sinks, NEW buffered \in BOOLEAN, CreateSink(k, buffered)
    PROVE  EInv'
<1> DEFINE r == [life |-> "live", buf |-> IF buffered THEN "live" ELSE "none"]
<1>1. r \in SinkType /\ r.life = "live" /\ r.buf # "freed"
    BY DEF SinkType, Life
<1>2. /\ snk[k].life = "none" /\ snk' = [snk EXCEPT ![k] = r]
      /\ UNCHANGED <<classes, eff, anim, listed, fill, roller, fault>>
    BY DEF CreateSink
<1> HIDE DEF r
<1>3. Typed'
    BY <1>1, <1>2 DEF EInv, Typed
<1>4. Safe'
    BY <1>1, <1>2, NobodysSink, SafeSink
<1> QED
    BY <1>3, <1>4 DEF EInv

(* the deletion of a sink, and mGEffEffectorSetSink. *)
LEMMA DeleteSinkKeeps ==
    ASSUME AllRules, EInv, NEW k \in Sinks, DeleteSink(k)
    PROVE  EInv'
<1> DEFINE r == FreedSink(k)
<1>1. r \in SinkType /\ r.life = "freed" /\ r.buf # "live"
    BY FreedSinkIs DEF EInv, Typed
<1>2. /\ snk' = [snk EXCEPT ![k] = r] /\ \A e \in Effectors : eff[e].sink # k
      /\ UNCHANGED <<classes, eff, anim, listed, fill, roller, fault>>
    BY RulesFollowed, NobodysSink DEF DeleteSink
<1> HIDE DEF r
<1>3. Typed'
    BY <1>1, <1>2 DEF EInv, Typed
<1>4. Safe'
    BY <1>1, <1>2, SafeSink
<1> QED
    BY <1>3, <1>4 DEF EInv

LEMMA SetSinkKeeps ==
    ASSUME AllRules, EInv, NEW e \in Effectors, NEW k \in Sinks, SetSink(e, k)
    PROVE  EInv'
<1>1. /\ eff[e].life = "live" /\ eff[e].sink = NoSink /\ snk[k].life = "live"
      /\ eff' = [eff EXCEPT ![e].sink = k] /\ \A f \in Effectors : eff[f].sink # k
      /\ UNCHANGED <<classes, snk, anim, listed, fill, roller, fault>>
    BY RulesFollowed, NobodysSink DEF SetSink
<1> DEFINE r == eff[e]
           n == [r EXCEPT !.sink = k]
<1>2. r \in EffType /\ eff' = [eff EXCEPT ![e] = n] /\ eff \in [Effectors -> EffType]
    BY <1>1 DEF EInv, Typed
<1> HIDE DEF r
<1>3. n \in EffType
    BY <1>2 DEF EffType
<1> HIDE DEF n
<1>4. Typed'
    BY <1>1, <1>2, <1>3 DEF EInv, Typed
<1>5. Safe'
    BY <1>1, SafeSetSink
<1> QED
    BY <1>4, <1>5 DEF EInv

(* The deletion of an effector, with its sink or without it. *)
LEMMA DisposeKeeps ==
    ASSUME AllRules, EInv, NEW e \in Effectors, EffectorDelete(e) \/ DeleteWithoutSink(e)
    PROVE  EInv'
<1>1. /\ eff[e].life = "live" /\ e \notin InnerEff /\ ~BusyEff(e)
      /\ eff' = [eff EXCEPT ![e] = FreedEff(e)] /\ snk' \in {snk, SinkGone(e)}
      /\ UNCHANGED <<classes, anim, listed, fill, roller>>
    BY RulesFollowed DEF EffectorDelete, DeleteWithoutSink, Disposable
<1>2. \/ fault' = (fault \/ BadDelete(e) \/ BadSink(e))
      \/ fault' = (fault \/ BadDelete(e))
    BY DEF EffectorDelete, DeleteWithoutSink
<1>3. eff[e].dc # "white" /\ fill.eff # e
    BY <1>1 DEF EInv, Safe, EffsOK, InnerEff
<1>4. Safe'
    BY <1>1, <1>2, <1>3, SafeEffGone
<1>5. Typed'
    <2>1. FreedEff(e) \in EffType /\ SinkGone(e) \in [Sinks -> SinkType] /\ fault' \in BOOLEAN
        BY <1>2, FreedEffIs, SinkGoneIs DEF EInv, Typed
    <2> QED
        BY <1>1, <2>1 DEF EInv, Typed
<1> QED
    BY <1>4, <1>5 DEF EInv

(* The return of mGEffFillEffectorAnimation. *)
LEMMA FillEndKeeps ==
    ASSUME EInv, FillEnd
    PROVE  EInv'
<1> DEFINE e == fill.eff
<1>1. /\ fill.step = "wait" /\ fill.anim \notin listed
      /\ eff' = [eff EXCEPT ![e] = FreedEff(e)] /\ snk' = SinkGone(e)
      /\ fault' = (fault \/ BadDelete(e) \/ BadSink(e))
      /\ fill' = [fill EXCEPT !.step = "done"]
      /\ UNCHANGED <<classes, anim, listed, roller>>
    BY DEF FillEnd
<1>2. /\ e \in Effectors /\ fill.anim \in Anims
      /\ eff[e].life = "live" /\ eff[e].dc = "app"
      /\ anim[fill.anim].ran /\ anim[fill.anim].state = "STOPPED"
      /\ \A a \in Anims : anim[a].life = "live" /\ anim[a].target = e => a = fill.anim
    BY <1>1 DEF EInv, Safe, FillOK
<1>3. fill' \in FillType
    BY <1>1 DEF EInv, Typed, FillType
<1> HIDE DEF e
<1>4. ~BusyEff(e)
    BY <1>2 DEF BusyEff, Drawing
<1>5. Safe'
    BY <1>1, <1>2, <1>4, SafeEffGone
<1>6. Typed'
    <2>1. FreedEff(e) \in EffType /\ SinkGone(e) \in [Sinks -> SinkType] /\ fault' \in BOOLEAN
        BY <1>1, <1>2, FreedEffIs, SinkGoneIs DEF EInv, Typed
    <2>2. fill'.step \in {"none", "wait", "done"}
        BY <1>3 DEF FillType
    <2> QED
        BY <1>1, <1>2, <1>3, <2>1, <2>2 DEF EInv, Typed
<1> QED
    BY <1>5, <1>6 DEF EInv

(* mGEffAnimationAsyncRun. *)
LEMMA AsyncRunKeeps ==
    ASSUME AllRules, EInv, NEW a \in Anims, AsyncRun(a)
    PROVE  EInv'
<1>1. /\ anim[a].life = "live" /\ a \notin InnerAnim
      /\ anim[a].ran => ~HasResources(eff[anim[a].target].class) /\ Drawable(anim[a].target)
      /\ anim' = [anim EXCEPT ![a] = Run(a)] /\ listed' = listed \cup {a}
      /\ UNCHANGED <<classes, eff, snk, fill, roller, fault>>
    BY RulesFollowed DEF AsyncRun
<1>2. Run(a) \in AnimType
    BY RunIs DEF EInv, Typed
<1>3. Typed'
    BY <1>1, <1>2 DEF EInv, Typed
<1>4. \A b \in Anims : anim'[b] = IF b \in {a} THEN Run(b) ELSE anim[b]
    BY <1>1 DEF EInv, Typed
<1>5. {a} \cap Kids = {} /\ fill.anim # a
    BY <1>1 DEF InnerAnim, Kids
<1>6. Safe'
    BY <1>1, <1>4, <1>5, SafeRun
<1> QED
    BY <1>3, <1>6 DEF EInv

LEMMA DeleteAnimKeeps ==
    ASSUME AllRules, EInv, NEW a \in Anims, DeleteAnim(a)
    PROVE  EInv'
<1>1. /\ anim[a].life = "live" /\ a \notin InnerAnim /\ ~Drawing(a)
      /\ anim' = [anim EXCEPT ![a] = FreedAnim] /\ listed' = listed \ {a}
      /\ UNCHANGED <<classes, eff, snk, fill, roller, fault>>
    <2>1. Follows("over_first") /\ Follows("auto_delete")
        BY RulesFollowed
    <2> QED
        BY <2>1 DEF DeleteAnim
<1>2. Typed'
    BY <1>1, NoAnimationIs DEF EInv, Typed
<1>3. \A b \in Anims : anim'[b] = IF b \in {a} THEN FreedAnim ELSE anim[b]
    BY <1>1 DEF EInv, Typed
<1>4. {a} \cap Kids = {} /\ fill.anim # a
    BY <1>1 DEF InnerAnim, Kids
<1>5. Safe'
    BY <1>1, <1>3, <1>4, SafeAnimsGone
<1> QED
    BY <1>2, <1>5 DEF EInv

(* A frame of an animation, which may be its last. *)
LEMMA DrawKeeps ==
    ASSUME EInv, NEW a \in Anims, anim[a].state = "ACTIVE", Draw(a),
           UNCHANGED <<classes, listed, fill, roller>>
    PROVE  EInv'
<1>1. /\ Drawing(a) /\ anim[a].target \in Effectors /\ Drawable(anim[a].target)
      /\ \/ Finish(a)
         \/ /\ UNCHANGED <<eff, snk, fault>>
            /\ anim' \in [Anims -> AnimType]
            /\ \A b \in Anims :
                  /\ anim'[b].life = anim[b].life /\ anim'[b].state = anim[b].state
                  /\ anim'[b].ran = anim[b].ran /\ anim'[b].keepalive = anim[b].keepalive
                  /\ anim'[b].target = anim[b].target /\ anim'[b].cb = anim[b].cb
    BY DrawIs
<1>2. CASE Finish(a)
    <2>1. /\ anim' \in [Anims -> AnimType] /\ eff' \in [Effectors -> EffType]
          /\ snk' \in [Sinks -> SinkType] /\ fault' \in BOOLEAN
        BY <1>1, <1>2, FinishAnim, FinishEff DEF EInv
    <2>2. Typed'
        BY <2>1 DEF EInv, Typed
    <2>3. Safe'
        BY <1>1, <1>2, SafeEndDraw, SafeRollerDelete
    <2> QED
        BY <2>2, <2>3 DEF EInv
<1>3. CASE ~Finish(a)
    <2>1. Typed'
        BY <1>1, <1>3 DEF EInv, Typed
    <2>2. Safe'
        BY <1>1, <1>3, SafeSame
    <2> QED
        BY <2>1, <2>2 DEF EInv
<1> QED
    BY <1>2, <1>3

(* What a pass of the schedular does, *)
LEMMA UpdateKeeps ==
    ASSUME EInv, NEW a \in Anims, Update(a)
    PROVE  EInv'
<1>1. /\ a \in listed /\ anim[a].state \in {"ACTIVE", "STOPPED", "REMOVE"}
      /\ anim[a].state = "REMOVE" => anim[a].ran /\ ~anim[a].keepalive
      /\ anim[a].life = "live" /\ UNCHANGED <<classes, fill, roller>>
    BY DEF Update, EInv, Typed, AnimType, Safe, AnimsOK
<1>2. CASE anim[a].state = "ACTIVE"
    BY <1>1, <1>2, DrawKeeps DEF Update
<1>3. CASE anim[a].state = "STOPPED"
    <2>1. listed' = listed \ {a} /\ UNCHANGED <<anim, eff, snk, fault>>
        BY <1>1, <1>3 DEF Update
    <2>2. Safe'
        BY <1>1, <1>3, <2>1, SafeUnlist
    <2> QED
        BY <1>1, <2>1, <2>2 DEF EInv, Typed
<1>4. CASE anim[a].state = "REMOVE"
    <2>1. /\ listed' = listed \ {a} /\ anim' = [anim EXCEPT ![a] = FreedAnim]
          /\ UNCHANGED <<eff, snk, fault>>
        BY <1>1, <1>4 DEF Update
    <2>2. Typed'
        BY <1>1, <2>1, NoAnimationIs DEF EInv, Typed
    <2>3. \A b \in Anims : anim'[b] = IF b \in {a} THEN FreedAnim ELSE anim[b]
        BY <2>1 DEF EInv, Typed
    <2>4. ~Drawing(a) /\ (fill.step = "wait" => fill.anim # a)
        BY <1>1, <1>4 DEF Drawing, EInv, Safe, FillOK
    <2>5. roller.step \in {"made", "runs", "over"} => {a} \cap Kids = {}
        BY <1>1 DEF EInv, Safe, RollerOK, RollerPair, Kids
    <2>6. Safe'
        BY <1>1, <2>1, <2>3, <2>4, <2>5, SafeAnimsGone
    <2> QED
        BY <2>2, <2>6 DEF EInv
<1> QED
    BY <1>1, <1>2, <1>3, <1>4

(* and mGEffAnimationStop. *)
LEMMA StopKeeps ==
    ASSUME AllRules, EInv, NEW a \in Anims, Stop(a)
    PROVE  EInv'
<1>1. /\ anim[a].life = "live" /\ anim[a].state = "ACTIVE" /\ Finish(a)
      /\ UNCHANGED <<classes, listed, fill, roller>>
    BY RulesFollowed DEF Stop, EInv, Typed, AnimType
<1>2. anim[a].target \in Effectors /\ Drawing(a) /\ Drawable(anim[a].target)
    BY <1>1 DEF EInv, Safe, AnimsOK, Draws, Drawing
<1>3. /\ anim' \in [Anims -> AnimType] /\ eff' \in [Effectors -> EffType]
      /\ snk' \in [Sinks -> SinkType] /\ fault' \in BOOLEAN
    BY <1>1, <1>2, FinishAnim, FinishEff DEF EInv
<1>4. Typed'
    BY <1>1, <1>3 DEF EInv, Typed
<1>5. Safe'
    BY <1>1, <1>2, SafeEndDraw, SafeRollerDelete
<1> QED
    BY <1>4, <1>5 DEF EInv

(* The run, the update and the deletion of the roller. *)
LEMMA RollerStep ==
    ASSUME EInv, NEW s \in {"made", "runs", "over", "gone"}, roller' = [roller EXCEPT !.step = s]
    PROVE  /\ roller' \in RollerType /\ roller'.step = s
           /\ roller'.eff = roller.eff /\ roller'.anim = roller.anim
<1> DEFINE r == roller
<1>1. r \in RollerType /\ roller' = [r EXCEPT !.step = s]
    BY DEF EInv, Typed
<1> HIDE DEF r
<1>2. /\ roller' \in RollerType /\ roller'.step = s
      /\ roller'.eff = r.eff /\ roller'.anim = r.anim
    BY <1>1 DEF RollerType
<1> QED
    BY <1>2 DEF r

LEMMA KidsAre ==
    ASSUME EInv, roller.step # "none"
    PROVE  /\ Kids \in SUBSET Anims
           /\ \A a \in Kids : /\ a \notin listed
                              /\ roller.step # "gone" => anim[a].life = "live" /\ anim[a].cb = "roller"
                              /\ roller.step = "made" => ~anim[a].ran
                              /\ roller.step = "runs" => anim[a].ran
                              /\ roller.step \in {"over", "gone"} => ~Drawing(a)
BY DEF EInv, Safe, RollerOK, RollerPair, Kids

LEMMA RollerRunKeeps ==
    ASSUME AllRules, EInv, RollerRun
    PROVE  EInv'
<1>1. /\ roller.step = "made" /\ roller' = [roller EXCEPT !.step = "runs"]
      /\ anim' = [a \in Anims |-> IF a \in Kids THEN Run(a) ELSE anim[a]]
      /\ UNCHANGED <<classes, eff, snk, listed, fill, fault>>
    BY RulesFollowed DEF RollerRun
<1>2. Kids \in SUBSET Anims /\ \A a \in Kids : anim[a].life = "live" /\ ~anim[a].ran
    BY <1>1, KidsAre
<1>3. \A a \in Anims : Run(a) \in AnimType
    BY RunIs DEF EInv, Typed
<1>4. roller' \in RollerType /\ roller'.step = "runs"
    BY <1>1, RollerStep
<1>5. Typed'
    <2>1. anim' \in [Anims -> AnimType]
        BY <1>1, <1>3 DEF EInv, Typed
    <2> QED
        BY <1>1, <1>4, <2>1 DEF EInv, Typed
<1>6. fill.step = "wait" => fill.anim \notin Kids
    BY <1>2 DEF EInv, Safe, FillOK
<1>7. \A b \in Anims : anim'[b] = IF b \in Kids THEN Run(b) ELSE anim[b]
    BY <1>1
<1>8. Safe'
    BY <1>1, <1>2, <1>6, <1>7, SafeRun
<1> QED
    BY <1>5, <1>8 DEF EInv

LEMMA RollerUpdateKeeps ==
    ASSUME EInv, RollerUpdate
    PROVE  EInv'
<1> DEFINE active == {i \in 1..2 : anim[roller.anim[i]].state = "ACTIVE"}
           i == CHOOSE n \in active : \A m \in active : n <= m
<1>1. roller.step = "runs" /\ UNCHANGED <<classes, listed, fill>>
    BY DEF RollerUpdate
<1>2. CASE active = {}
    <2>1. roller' = [roller EXCEPT !.step = "over"] /\ UNCHANGED <<anim, eff, snk, fault>>
        BY <1>2 DEF RollerUpdate
    <2>2. /\ roller' \in RollerType /\ roller'.step = "over"
          /\ roller'.eff = roller.eff /\ roller'.anim = roller.anim
        BY <2>1, RollerStep
    <2>3. Typed'
        BY <1>1, <2>1, <2>2 DEF EInv, Typed
    <2>4. \A j \in 1..2 : anim[roller.anim[j]].state # "ACTIVE"
        BY <1>2
    <2>5. EffsOK' /\ OwnSinks' /\ SinksOK' /\ AnimsOK' /\ NoFault'
        BY <1>1, <2>1, <2>2 DEF EInv, Safe, EffsOK, OwnSinks, SinksOK, AnimsOK, NoFault
    <2>6. Draws' /\ OneDraws' /\ Held'
        BY <2>1 DEF EInv, Safe, Draws, OneDraws, Held, BusyEff, Drawing, Drawable, SinkLive
    <2>7. FillOK'
        BY <1>1, <2>1 DEF EInv, Safe, FillOK
    <2>8. ASSUME NEW j \in 1..2, RollerPair(j)
          PROVE  RollerPair(j)'
        <3>1. anim[roller.anim[j]].ran /\ ~Drawing(roller.anim[j])
            BY <1>1, <2>4, <2>8 DEF RollerPair, Drawing
        <3> QED
            BY <1>1, <2>1, <2>2, <2>8, <3>1 DEF RollerPair, Drawing
    <2>9. RollerOK'
        BY <1>1, <2>1, <2>2, <2>8 DEF EInv, Safe, RollerOK, Kids
    <2> QED
        BY <2>3, <2>5, <2>6, <2>7, <2>9 DEF EInv, Safe
<1>3. CASE active # {}
    <2>1. Draw(roller.anim[i]) /\ UNCHANGED roller
        BY <1>3 DEF RollerUpdate
    <2>2. i \in active
        <3>1. \E n \in active : \A m \in active : n <= m
            <4>1. CASE 1 \in active
                BY <4>1
            <4>2. CASE 1 \notin active
                BY <1>3, <4>2
            <4> QED
                BY <4>1, <4>2
        <3> QED
            BY <3>1
    <2>3. roller.anim[i] \in Anims /\ anim[roller.anim[i]].state = "ACTIVE"
        BY <1>1, <2>2, KidsAre DEF Kids
    <2> HIDE DEF i, active
    <2> QED
        BY <1>1, <2>1, <2>3, DrawKeeps
<1> QED
    BY <1>2, <1>3

LEMMA RollerGroupDeleteKeeps ==
    ASSUME AllRules, EInv, RollerGroupDelete
    PROVE  EInv'
<1>1. /\ roller.step = "over" /\ roller' = [roller EXCEPT !.step = "gone"]
      /\ anim' = [a \in Anims |-> IF a \in Kids THEN FreedAnim ELSE anim[a]]
      /\ UNCHANGED <<classes, eff, snk, listed, fill, fault>>
    BY RulesFollowed DEF RollerGroupDelete
<1>2. /\ Kids \in SUBSET Anims
      /\ \A a \in Kids : a \notin listed /\ anim[a].life = "live" /\ anim[a].cb = "roller" /\ ~Drawing(a)
    BY <1>1, KidsAre
<1>3. roller' \in RollerType /\ roller'.step = "gone"
    BY <1>1, RollerStep
<1>4. Typed'
    <2>1. anim' \in [Anims -> AnimType]
        BY <1>1, NoAnimationIs DEF EInv, Typed
    <2> QED
        BY <1>1, <1>3, <2>1 DEF EInv, Typed
<1>5. fill.step = "wait" => fill.anim \notin Kids
    BY <1>2 DEF EInv, Safe, FillOK
<1>6. listed' = listed \ Kids
    BY <1>1, <1>2
<1>7. \A b \in Anims : anim'[b] = IF b \in Kids THEN FreedAnim ELSE anim[b]
    BY <1>1
<1>8. Safe'
    BY <1>1, <1>2, <1>5, <1>6, <1>7, SafeAnimsGone
<1> QED
    BY <1>4, <1>8 DEF EInv
-----------------------------------------------------------------------------
LEMMA EInit == Init => EInv
<1> SUFFICES ASSUME Init
             PROVE  EInv
    OBVIOUS
<1>1. /\ NoEffector \in EffType /\ NoEffector.life = "none" /\ NoEffector.res = "none"
      /\ NoEffector.sink = NoSink
      /\ NoAnimation \in AnimType /\ NoAnimation.life = "none" /\ NoAnimation.state = "STOPPED"
    BY NoEffectorIs, NoAnimationIs
<1> DEFINE r == NoEffector
           n == NoAnimation
           t == [life |-> "none", buf |-> "none"]
<1>2. t \in SinkType /\ t.life = "none" /\ t.buf = "none"
    BY DEF SinkType, Life
<1>3. /\ classes = Classes \ Custom /\ eff = [e \in Effectors |-> r] /\ snk = [k \in Sinks |-> t]
      /\ anim = [a \in Anims |-> n] /\ listed = {} /\ fault = FALSE
      /\ fill = [step |-> "none", eff |-> NoEff, sink |-> NoSink, anim |-> NoAnim]
      /\ roller = [step |-> "none", eff |-> <<NoEff, NoEff>>, sink |-> <<NoSink, NoSink>>,
                   anim |-> <<NoAnim, NoAnim>>]
    BY DEF Init
<1> HIDE DEF r, n, t
<1>4. fill \in FillType /\ fill.step = "none"
    BY <1>3 DEF FillType
<1>5. roller \in RollerType /\ roller.step = "none"
    <2>1. /\ <<NoEff, NoEff>> \in [1..2 -> Effectors \cup {NoEff}]
          /\ <<NoSink, NoSink>> \in [1..2 -> Sinks \cup {NoSink}]
          /\ <<NoAnim, NoAnim>> \in [1..2 -> Anims \cup {NoAnim}]
        OBVIOUS
    <2> QED
        BY <1>3, <2>1 DEF RollerType
<1>6. Typed
    BY <1>1, <1>2, <1>3, <1>4, <1>5 DEF Typed, r, n
<1>7. /\ \A e \in Effectors : eff[e].life = "none" /\ eff[e].res = "none" /\ eff[e].sink = NoSink
      /\ \A k \in Sinks : snk[k].life = "none" /\ snk[k].buf = "none"
      /\ \A a \in Anims : anim[a].life = "none" /\ anim[a].state = "STOPPED"
    BY <1>1, <1>2, <1>3 DEF r, n
<1>8. EffsOK /\ OwnSinks /\ SinksOK /\ AnimsOK /\ NoFault
    BY <1>3, <1>7 DEF EffsOK, OwnSinks, SinksOK, AnimsOK, NoFault
<1>9. Draws /\ OneDraws /\ Held
    BY <1>7 DEF Draws, OneDraws, Held, Drawing
<1>10. FillOK /\ RollerOK
    BY <1>4, <1>5, <1>7 DEF FillOK, RollerOK
<1> QED
    BY <1>6, <1>8, <1>9, <1>10 DEF EInv, Safe

LEMMA ENext == AllRules /\ EInv /\ [Next]_vars => EInv'
<1> SUFFICES ASSUME AllRules, EInv, [Next]_vars
             PROVE  EInv'
    OBVIOUS
<1>1. ASSUME NEW c \in Custom, Register(c) \/ UnRegister(c)
      PROVE  EInv'
    BY <1>1, RegisterKeeps
<1>2. ASSUME NEW e \in Effectors, NEW c \in Classes, NEW dc \in {"app", "source"}, Create(e, c, dc)
      PROVE  EInv'
    BY <1>2, CreateKeeps
<1>3. ASSUME NEW e \in Effectors, NEW k \in Sinks, NEW c \in Classes, CreateEx(e, k, c)
      PROVE  EInv'
    BY <1>3, CreateExKeeps
<1>4. ASSUME NEW e \in Effectors, EffectorDelete(e) \/ DeleteWithoutSink(e)
      PROVE  EInv'
    BY <1>4, DisposeKeeps
<1>5. ASSUME NEW k \in Sinks, DeleteSink(k)
      PROVE  EInv'
    BY <1>5, DeleteSinkKeeps
<1>6. ASSUME NEW k \in Sinks, NEW buffered \in BOOLEAN, CreateSink(k, buffered)
      PROVE  EInv'
    BY <1>6, CreateSinkKeeps
<1>7. ASSUME NEW e \in Effectors, NEW k \in Sinks, SetSink(e, k)
      PROVE  EInv'
    BY <1>7, SetSinkKeeps
<1>8. ASSUME NEW a \in Anims, NEW e \in Effectors, NEW keepalive \in BOOLEAN,
             CreateAnim(a, e, keepalive)
      PROVE  EInv'
    BY <1>8, CreateAnimKeeps
<1>9. ASSUME NEW a \in Anims, AsyncRun(a) \/ Update(a) \/ Stop(a) \/ DeleteAnim(a)
      PROVE  EInv'
    BY <1>9, AsyncRunKeeps, UpdateKeeps, StopKeeps, DeleteAnimKeeps
<1>10. ASSUME NEW e \in Effectors, NEW k \in Sinks, NEW a \in Anims, NEW c \in Classes,
              FillStart(e, k, a, c)
       PROVE  EInv'
    BY <1>10, FillStartKeeps
<1>11. CASE FillEnd
    BY <1>11, FillEndKeeps
<1>12. ASSUME NEW e \in Effectors, NEW f \in Effectors, NEW k \in Sinks, NEW l \in Sinks,
              NEW a \in Anims, NEW b \in Anims, RollerCreate(e, f, k, l, a, b)
       PROVE  EInv'
    BY <1>12, RollerCreateKeeps
<1>13. CASE RollerRun \/ RollerUpdate \/ RollerGroupDelete
    BY <1>13, RollerRunKeeps, RollerUpdateKeeps, RollerGroupDeleteKeeps
<1>14. CASE UNCHANGED vars
    <2>1. Typed'
        BY <1>14 DEF vars, EInv, Typed
    <2>2. Safe'
        BY <1>14, SafeSame DEF vars
    <2> QED
        BY <2>1, <2>2 DEF EInv
<1> QED
    BY <1>1, <1>2, <1>3, <1>4, <1>5, <1>6, <1>7, <1>8, <1>9, <1>10, <1>11, <1>12, <1>13, <1>14 DEF Next

(* The invariant holds of an application that follows the rules. *)
LEMMA EInvariant ==
    ASSUME AllRules
    PROVE  Spec => []EInv
BY EInit, ENext, PTL DEF Spec

-----------------------------------------------------------------------------
(***************************************************************************)
(* Who has the sinks.                                                      *)
(***************************************************************************)
Owned(k) == k \in hands \/ \E e \in Effectors : eff[e].life = "live" /\ eff[e].sink = k

HandsOK == \A k \in Sinks : snk[k].life = "live" => Owned(k)

(* The application keeps what it has, a new sink has an owner, and an      *)
(* effector that goes takes its sink with it or hands it over.             *)
LEMMA OwnersKept ==
    ASSUME EInv, HandsOK, hands \subseteq hands',
           \A k \in Sinks : snk[k].life # "live" /\ snk'[k].life = "live" => Owned(k)',
           \A e \in Effectors : eff[e].life = "live" /\ eff[e].sink # NoSink =>
               \/ eff'[e].life = "live" /\ eff'[e].sink = eff[e].sink
               \/ snk'[eff[e].sink].life # "live"
               \/ eff[e].sink \in hands'
    PROVE  HandsOK'
<1>1. ASSUME NEW k \in Sinks, snk[k].life = "live", snk'[k].life = "live"
      PROVE  Owned(k)'
    <2>1. CASE k \in hands
        BY <2>1 DEF Owned
    <2>2. ASSUME NEW e \in Effectors, eff[e].life = "live", eff[e].sink = k
          PROVE  Owned(k)'
        BY <1>1, <2>2, NoneAssumption DEF Owned
    <2> QED
        BY <1>1, <2>1, <2>2 DEF HandsOK, Owned
<1> QED
    BY <1>1 DEF HandsOK

(* The end of a run, *)
LEMMA FinishOwned ==
    ASSUME EInv, HandsOK, hands' = hands, NEW a \in Anims, anim[a].target \in Effectors, Finish(a)
    PROVE  HandsOK'
<1> DEFINE e == anim[a].target
<1>0. Typed
    BY DEF EInv
<1>1. CASE anim[a].cb = "roller"
    <2>1. RollerDelete(a)
        BY <1>1 DEF Finish
    <2>2. /\ snk' = SinkGone(e) /\ \A f \in Effectors : f # e => eff'[f] = eff[f]
        BY <1>0, <2>1, RollerDeleteIs
    <2>3. \A k \in Sinks : /\ k # eff[e].sink => snk'[k] = snk[k]
                           /\ k = eff[e].sink => snk'[k].life = "freed"
        BY <1>0, <2>2, SinkGoneIs
    <2>4. \A f \in Effectors : eff[f].sink \in Sinks \cup {NoSink}
        BY SinkOf
    <2> HIDE DEF e
    <2>5. \A k \in Sinks : snk[k].life # "live" => snk'[k].life # "live"
        BY <2>3
    <2>6. \A f \in Effectors : eff[f].life = "live" /\ eff[f].sink # NoSink =>
              \/ eff'[f].life = "live" /\ eff'[f].sink = eff[f].sink
              \/ snk'[eff[f].sink].life # "live"
        BY <2>2, <2>3, <2>4
    <2> QED
        BY <2>5, <2>6, OwnersKept
<1>2. CASE anim[a].cb # "roller"
    <2>1. EndDraw(a)
        BY <1>2 DEF Finish
    <2>2. /\ snk' = snk /\ \A f \in Effectors : f # e => eff'[f] = eff[f]
          /\ eff'[e].life = eff[e].life /\ eff'[e].sink = eff[e].sink
        BY <1>0, <2>1, EndDrawIs
    <2> HIDE DEF e
    <2>3. \A f \in Effectors : eff'[f].life = eff[f].life /\ eff'[f].sink = eff[f].sink
        BY <2>2
    <2> QED
        BY <2>2, <2>3, OwnersKept
<1> QED
    BY <1>1, <1>2

(* a frame, *)
LEMMA DrawOwned ==
    ASSUME EInv, HandsOK, hands' = hands, NEW a \in Anims, anim[a].state = "ACTIVE", Draw(a)
    PROVE  HandsOK'
<1>1. CASE Finish(a)
    BY <1>1, DrawIs, FinishOwned
<1>2. CASE UNCHANGED <<eff, snk>>
    BY <1>2 DEF HandsOK, Owned
<1> QED
    BY <1>1, <1>2, DrawIs

(* what makes effectors and sinks, *)
LEMMA MadeOwned ==
    ASSUME EInv, HandsOK, hands' = hands, NEW e \in Effectors, NEW f \in Effectors,
           \A g \in Effectors : g # e /\ g # f => eff'[g] = eff[g],
           eff[e].life = "none", eff[f].life = "none",
           \A k \in Sinks : snk[k].life # "live" /\ snk'[k].life = "live" =>
               \/ eff'[e].life = "live" /\ eff'[e].sink = k
               \/ eff'[f].life = "live" /\ eff'[f].sink = k
    PROVE  HandsOK'
<1>1. \A k \in Sinks : snk[k].life # "live" /\ snk'[k].life = "live" => Owned(k)'
    BY DEF Owned
<1>2. \A g \in Effectors : eff[g].life = "live" => eff'[g] = eff[g]
    OBVIOUS
<1> QED
    BY <1>1, <1>2, OwnersKept

LEMMA CreateOwned ==
    ASSUME EInv, HandsOK, NEW e \in Effectors, NEW c \in Classes, NEW dc \in {"app", "source"},
           Create(e, c, dc)
    PROVE  HandsOK'
<1>0. eff \in [Effectors -> EffType] /\ snk \in [Sinks -> SinkType] /\ Typed
    BY DEF EInv, Typed
<1>1. /\ \A g \in Effectors : g # e => eff'[g] = eff[g]
      /\ eff[e].life = "none" /\ snk' = snk /\ hands' = hands
    BY <1>0 DEF Create
<1> QED
    BY <1>1, MadeOwned

LEMMA WithSinkOwned ==
    ASSUME EInv, HandsOK, NEW e \in Effectors, NEW k \in Sinks, NEW n, NEW t,
           eff' = [eff EXCEPT ![e] = n], n.life = "live", n.sink = k, eff[e].life = "none",
           snk' = [snk EXCEPT ![k] = t], hands' = hands
    PROVE  HandsOK'
<1>0. eff \in [Effectors -> EffType] /\ snk \in [Sinks -> SinkType]
    BY DEF EInv, Typed
<1>1. /\ eff'[e] = n /\ \A g \in Effectors : g # e => eff'[g] = eff[g]
      /\ \A x \in Sinks : x # k => snk'[x] = snk[x]
    BY <1>0
<1>2. \A x \in Sinks : snk[x].life # "live" /\ snk'[x].life = "live" =>
          eff'[e].life = "live" /\ eff'[e].sink = x
    BY <1>1
<1> QED
    BY <1>1, <1>2, MadeOwned

LEMMA CreateExOwned ==
    ASSUME EInv, HandsOK, NEW e \in Effectors, NEW k \in Sinks, NEW c \in Classes, CreateEx(e, k, c)
    PROVE  HandsOK'
<1> DEFINE n == SunkEff(c, "app", k)
           t == [snk[k] EXCEPT !.life = "live"]
<1>1. n.life = "live" /\ n.sink = k
    BY SunkEffIs
<1>2. /\ eff' = [eff EXCEPT ![e] = n] /\ snk' = [snk EXCEPT ![k] = t]
      /\ eff[e].life = "none" /\ hands' = hands
    BY DEF CreateEx, SunkEff
<1> HIDE DEF n, t
<1> QED
    BY <1>1, <1>2, WithSinkOwned

LEMMA FillStartOwned ==
    ASSUME EInv, HandsOK, NEW e \in Effectors, NEW k \in Sinks, NEW a \in Anims, NEW c \in Classes,
           FillStart(e, k, a, c)
    PROVE  HandsOK'
<1> DEFINE q == SunkEff(c, "app", k)
           res == IF HasResources(c) THEN "live" ELSE "none"
           n == [q EXCEPT !.res = res]
           t == [snk[k] EXCEPT !.life = "live"]
<1>1. q \in EffType /\ q.life = "live" /\ q.sink = k
    BY SunkEffIs
<1>2. n = [Created(c, "app") EXCEPT !.sink = k, !.res = res]
    BY DEF SunkEff
<1>3. /\ eff' = [eff EXCEPT ![e] = n] /\ snk' = [snk EXCEPT ![k] = t]
      /\ eff[e].life = "none" /\ hands' = hands
    BY <1>2 DEF FillStart
<1> HIDE DEF q, res, t
<1>4. n.life = "live" /\ n.sink = k
    BY <1>1 DEF EffType
<1> HIDE DEF n
<1> QED
    BY <1>3, <1>4, WithSinkOwned

LEMMA RollerOwned ==
    ASSUME EInv, HandsOK, NEW e \in Effectors, NEW f \in Effectors, NEW k \in Sinks, NEW l \in Sinks,
           NEW a \in Anims, NEW b \in Anims,
           RollerCreate(e, f, k, l, a, b)
    PROVE  HandsOK'
<1>0. eff \in [Effectors -> EffType] /\ snk \in [Sinks -> SinkType] /\ Typed
    BY DEF EInv, Typed
<1> DEFINE q == SunkEff("zoom", "white", k)
           r == SunkEff("zoom", "white", l)
           t == [life |-> "live", buf |-> "live"]
<1>1. q.life = "live" /\ q.sink = k /\ r.life = "live" /\ r.sink = l
    <2>1. "zoom" \in Classes
        BY DEF RollerCreate, EInv, Typed
    <2> QED
        BY <2>1, SunkEffIs
<1>2. /\ eff' = [[eff EXCEPT ![e] = q] EXCEPT ![f] = r] /\ e # f
      /\ snk' = [x \in Sinks |-> IF x \in {k, l} THEN t ELSE snk[x]]
      /\ eff[e].life = "none" /\ eff[f].life = "none" /\ hands' = hands
    BY DEF RollerCreate, SunkEff
<1> HIDE DEF q, r, t
<1>3. /\ eff'[e] = q /\ eff'[f] = r /\ \A g \in Effectors : g # e /\ g # f => eff'[g] = eff[g]
      /\ \A x \in Sinks : x \notin {k, l} => snk'[x] = snk[x]
    BY <1>0, <1>2
<1>4. \A x \in Sinks : snk[x].life # "live" /\ snk'[x].life = "live" =>
          \/ eff'[e].life = "live" /\ eff'[e].sink = x
          \/ eff'[f].life = "live" /\ eff'[f].sink = x
    BY <1>1, <1>3
<1> QED
    BY <1>2, <1>3, <1>4, MadeOwned

(* what gives and takes sinks, *)
LEMMA CreateSinkOwned ==
    ASSUME EInv, HandsOK, NEW k \in Sinks, NEW buffered \in BOOLEAN,
           CreateSink(k, buffered)
    PROVE  HandsOK'
<1>0. eff \in [Effectors -> EffType] /\ snk \in [Sinks -> SinkType] /\ Typed
    BY DEF EInv, Typed
<1> DEFINE t == [life |-> "live", buf |-> IF buffered THEN "live" ELSE "none"]
<1>1. eff' = eff /\ snk' = [snk EXCEPT ![k] = t] /\ hands' = hands \cup {k}
    BY DEF CreateSink
<1> HIDE DEF t
<1>2. \A x \in Sinks : x # k => snk'[x] = snk[x]
    BY <1>0, <1>1
<1>3. \A x \in Sinks : snk[x].life # "live" /\ snk'[x].life = "live" => Owned(x)'
    BY <1>1, <1>2 DEF Owned
<1> QED
    BY <1>1, <1>3, OwnersKept

LEMMA SetSinkOwned ==
    ASSUME AllRules, EInv, HandsOK, NEW e \in Effectors, NEW k \in Sinks,
           SetSink(e, k)
    PROVE  HandsOK'
<1>0. eff \in [Effectors -> EffType] /\ snk \in [Sinks -> SinkType] /\ Typed
    BY DEF EInv, Typed
<1>1. /\ eff[e].life = "live" /\ eff[e].sink = NoSink /\ snk' = snk
      /\ eff' = [eff EXCEPT ![e].sink = k] /\ hands' = (hands \ {k}) \cup {}
    BY RulesFollowed DEF SetSink
<1> DEFINE r == eff[e]
           n == [r EXCEPT !.sink = k]
<1>2. r \in EffType /\ eff' = [eff EXCEPT ![e] = n] /\ r.life = "live" /\ r.sink = NoSink
    BY <1>0, <1>1
<1> HIDE DEF r
<1>3. n.life = "live" /\ n.sink = k
    BY <1>2 DEF EffType
<1> HIDE DEF n
<1>4. eff'[e] = n /\ \A f \in Effectors : f # e => eff'[f] = eff[f]
    BY <1>0, <1>2
<1>5. ASSUME NEW x \in Sinks, snk[x].life = "live"
      PROVE  Owned(x)'
    <2>1. CASE x = k
        BY <1>3, <1>4, <2>1 DEF Owned
    <2>2. CASE x # k /\ x \in hands
        BY <1>1, <2>2 DEF Owned
    <2>3. ASSUME NEW f \in Effectors, eff[f].life = "live", eff[f].sink = x
          PROVE  Owned(x)'
        <3>1. f # e
            BY <1>1, <2>3, NoneAssumption
        <3> QED
            BY <1>4, <2>3, <3>1 DEF Owned
    <2> QED
        BY <1>5, <2>1, <2>2, <2>3 DEF HandsOK, Owned
<1> QED
    BY <1>1, <1>5 DEF HandsOK

LEMMA DeleteSinkOwned ==
    ASSUME EInv, HandsOK, NEW k \in Sinks,
           DeleteSink(k)
    PROVE  HandsOK'
<1>0. eff \in [Effectors -> EffType] /\ snk \in [Sinks -> SinkType] /\ Typed
    BY DEF EInv, Typed
<1> DEFINE t == FreedSink(k)
<1>1. eff' = eff /\ snk' = [snk EXCEPT ![k] = t] /\ hands' = hands \ {k}
    BY DEF DeleteSink
<1>2. t.life = "freed"
    BY <1>0, FreedSinkIs
<1> HIDE DEF t
<1>3. snk'[k].life # "live" /\ \A x \in Sinks : x # k => snk'[x] = snk[x]
    BY <1>0, <1>1, <1>2
<1>4. ASSUME NEW x \in Sinks, snk'[x].life = "live"
      PROVE  Owned(x)'
    <2>1. x # k /\ Owned(x)
        BY <1>3, <1>4 DEF HandsOK
    <2> QED
        BY <1>1, <2>1 DEF Owned
<1> QED
    BY <1>4 DEF HandsOK

(* and the end of an effector. *)
LEMMA EffGoneOwned ==
    ASSUME EInv, HandsOK, NEW f \in Effectors,
           eff' = [eff EXCEPT ![f] = FreedEff(f)], snk' = SinkGone(f), hands' = hands
    PROVE  HandsOK'
<1>0. eff \in [Effectors -> EffType] /\ snk \in [Sinks -> SinkType] /\ Typed
    BY DEF EInv, Typed
<1>1. /\ \A g \in Effectors : g # f => eff'[g] = eff[g]
      /\ \A x \in Sinks : /\ x # eff[f].sink => snk'[x] = snk[x]
                          /\ x = eff[f].sink => snk'[x].life = "freed"
    BY <1>0, SinkGoneIs
<1>2. \A g \in Effectors : eff[g].sink \in Sinks \cup {NoSink}
    BY SinkOf
<1>3. \A x \in Sinks : snk[x].life # "live" => snk'[x].life # "live"
    BY <1>1
<1>4. \A g \in Effectors : eff[g].life = "live" /\ eff[g].sink # NoSink =>
          \/ eff'[g].life = "live" /\ eff'[g].sink = eff[g].sink
          \/ snk'[eff[g].sink].life # "live"
    BY <1>1, <1>2
<1> QED
    BY <1>3, <1>4, OwnersKept

LEMMA FillGoneOwned ==
    ASSUME EInv, HandsOK, FillEnd
    PROVE  HandsOK'
<1>1. fill.eff \in Effectors
    BY DEF FillEnd, EInv, Safe, FillOK
<1> QED
    BY <1>1, EffGoneOwned DEF FillEnd

LEMMA HandedOver ==
    ASSUME EInv, HandsOK, NEW e \in Effectors,
           DeleteWithoutSink(e)
    PROVE  HandsOK'
<1>0. eff \in [Effectors -> EffType] /\ snk \in [Sinks -> SinkType] /\ Typed
    BY DEF EInv, Typed
<1>1. /\ eff' = [eff EXCEPT ![e] = FreedEff(e)] /\ snk' = snk
      /\ hands' = hands \cup ({eff[e].sink} \ {NoSink})
    BY DEF DeleteWithoutSink
<1>2. \A g \in Effectors : g # e => eff'[g] = eff[g]
    BY <1>0, <1>1
<1>3. \A g \in Effectors : eff[g].life = "live" /\ eff[g].sink # NoSink =>
          \/ eff'[g].life = "live" /\ eff'[g].sink = eff[g].sink
          \/ eff[g].sink \in hands'
    BY <1>1, <1>2
<1> QED
    BY <1>1, <1>3, OwnersKept

(* A step of the rest touches no sink, or ends a run. *)
LEMMA SameOwners ==
    ASSUME HandsOK, UNCHANGED <<eff, snk, hands>>
    PROVE  HandsOK'
BY DEF HandsOK, Owned

LEMMA CreateAnimOwned ==
    ASSUME EInv, HandsOK, NEW a \in Anims, NEW e \in Effectors, NEW keepalive \in BOOLEAN,
           CreateAnim(a, e, keepalive)
    PROVE  HandsOK'
<1>0. eff \in [Effectors -> EffType] /\ Typed
    BY DEF EInv, Typed
<1> DEFINE n == Begun(e)
<1>1. eff' = [eff EXCEPT ![e] = n] /\ snk' = snk /\ hands' = hands
    BY DEF CreateAnim
<1>2. n.life = eff[e].life /\ n.sink = eff[e].sink
    BY <1>0, BegunIs
<1> HIDE DEF n
<1>3. \A f \in Effectors : eff'[f].life = eff[f].life /\ eff'[f].sink = eff[f].sink
    BY <1>0, <1>1, <1>2
<1> QED
    BY <1>1, <1>3, OwnersKept

LEMMA StopOwned ==
    ASSUME AllRules, EInv, HandsOK, NEW a \in Anims, Stop(a)
    PROVE  HandsOK'
<1>1. /\ anim[a].life = "live" /\ Finish(a) /\ hands' = hands
    BY DEF Stop
<1>2. anim[a].target \in Effectors
    BY <1>1 DEF EInv, Safe, AnimsOK
<1> QED
    BY <1>1, <1>2, FinishOwned

LEMMA RollerUpdateOwned ==
    ASSUME EInv, HandsOK, RollerUpdate
    PROVE  HandsOK'
<1> DEFINE active == {i \in 1..2 : anim[roller.anim[i]].state = "ACTIVE"}
           i == CHOOSE n \in active : \A m \in active : n <= m
<1>1. roller.step = "runs" /\ hands' = hands
    BY DEF RollerUpdate
<1>2. CASE active = {}
    BY <1>1, <1>2, SameOwners DEF RollerUpdate
<1>3. CASE active # {}
    <2>1. Draw(roller.anim[i])
        BY <1>3 DEF RollerUpdate
    <2>2. i \in active
        <3>1. \E n \in active : \A m \in active : n <= m
            <4>1. CASE 1 \in active
                BY <4>1
            <4>2. CASE 1 \notin active
                BY <1>3, <4>2
            <4> QED
                BY <4>1, <4>2
        <3> QED
            BY <3>1
    <2> HIDE DEF i
    <2>3. i \in 1..2 /\ anim[roller.anim[i]].state = "ACTIVE"
        BY <2>2
    <2>4. roller.anim[i] \in Anims
        BY <1>1, <2>3 DEF EInv, Safe, RollerOK, RollerPair
    <2> QED
        BY <1>1, <2>1, <2>3, <2>4, DrawOwned
<1> QED
    BY <1>2, <1>3

LEMMA HandsNext == AllRules /\ EInv /\ HandsOK /\ [Next]_vars => HandsOK'
<1> SUFFICES ASSUME AllRules, EInv, HandsOK, [Next]_vars
             PROVE  HandsOK'
    OBVIOUS
<1>1. ASSUME NEW c \in Custom, Register(c) \/ UnRegister(c)
      PROVE  HandsOK'
    BY <1>1, SameOwners DEF Register, UnRegister
<1>2. ASSUME NEW e \in Effectors, NEW c \in Classes, NEW dc \in {"app", "source"}, Create(e, c, dc)
      PROVE  HandsOK'
    BY <1>2, CreateOwned
<1>3. ASSUME NEW e \in Effectors, NEW k \in Sinks, NEW c \in Classes, CreateEx(e, k, c)
      PROVE  HandsOK'
    BY <1>3, CreateExOwned
<1>4. ASSUME NEW e \in Effectors, NEW k \in Sinks, NEW a \in Anims, NEW c \in Classes,
             FillStart(e, k, a, c)
      PROVE  HandsOK'
    BY <1>4, FillStartOwned
<1>5. ASSUME NEW e \in Effectors, NEW f \in Effectors, NEW k \in Sinks, NEW l \in Sinks,
             NEW a \in Anims, NEW b \in Anims, RollerCreate(e, f, k, l, a, b)
      PROVE  HandsOK'
    BY <1>5, RollerOwned
<1>6. ASSUME NEW k \in Sinks, NEW buffered \in BOOLEAN, CreateSink(k, buffered)
      PROVE  HandsOK'
    BY <1>6, CreateSinkOwned
<1>7. ASSUME NEW e \in Effectors, NEW k \in Sinks, SetSink(e, k)
      PROVE  HandsOK'
    BY <1>7, SetSinkOwned
<1>8. ASSUME NEW k \in Sinks, DeleteSink(k)
      PROVE  HandsOK'
    BY <1>8, DeleteSinkOwned
<1>9. ASSUME NEW e \in Effectors, EffectorDelete(e)
      PROVE  HandsOK'
    BY <1>9, EffGoneOwned DEF EffectorDelete
<1>10. ASSUME NEW e \in Effectors, DeleteWithoutSink(e)
       PROVE  HandsOK'
    BY <1>10, HandedOver
<1>11. CASE FillEnd
    BY <1>11, FillGoneOwned
<1>12. ASSUME NEW a \in Anims, NEW e \in Effectors, NEW keepalive \in BOOLEAN,
              CreateAnim(a, e, keepalive)
       PROVE  HandsOK'
    BY <1>12, CreateAnimOwned
<1>13. ASSUME NEW a \in Anims, AsyncRun(a) \/ DeleteAnim(a)
       PROVE  HandsOK'
    BY <1>13, SameOwners DEF AsyncRun, DeleteAnim
<1>14. ASSUME NEW a \in Anims, Update(a)
       PROVE  HandsOK'
    <2>1. hands' = hands
        BY <1>14 DEF Update
    <2>2. CASE anim[a].life # "freed" /\ anim[a].state = "ACTIVE"
        BY <1>14, <2>1, <2>2, DrawOwned DEF Update
    <2>3. CASE ~(anim[a].life # "freed" /\ anim[a].state = "ACTIVE")
        <3>1. anim[a].life = "freed" \/ anim[a].state # "ACTIVE"
            BY <2>3
        <3>2. a \in listed => anim[a].life = "live" /\ anim[a].state \in {"STOPPED", "ACTIVE", "REMOVE"}
            BY DEF EInv, Typed, AnimType, Safe, AnimsOK
        <3>3. anim[a].life = "live" /\ anim[a].state \in {"STOPPED", "REMOVE"}
            BY <1>14, <3>1, <3>2 DEF Update
        <3>4. UNCHANGED <<eff, snk>>
            BY <1>14, <3>3 DEF Update
        <3> QED
            BY <2>1, <3>4, SameOwners
    <2> QED
        BY <2>2, <2>3
<1>15. ASSUME NEW a \in Anims, Stop(a)
       PROVE  HandsOK'
    BY <1>15, StopOwned
<1>16. CASE RollerRun \/ RollerGroupDelete
    BY <1>16, SameOwners DEF RollerRun, RollerGroupDelete
<1>17. CASE RollerUpdate
    BY <1>17, RollerUpdateOwned
<1>18. CASE UNCHANGED vars
    BY <1>18, SameOwners DEF vars
<1> QED
    BY <1>1, <1>2, <1>3, <1>4, <1>5, <1>6, <1>7, <1>8, <1>9, <1>10, <1>11, <1>12, <1>13, <1>14,
       <1>15, <1>16, <1>17, <1>18 DEF Next

(* The sinks that live are all in somebody's hands. *)
LEMMA HandsInvariant ==
    ASSUME AllRules
    PROVE  Spec => []HandsOK
<1>1. Init => HandsOK
    BY DEF Init, HandsOK
<1> QED
    BY <1>1, EInvariant, HandsNext, PTL DEF Spec

(***************************************************************************)
(* Whatever the number of effectors, sinks and animations: an application  *)
(* that completes an effector before it makes an animation for it, makes   *)
(* one at a time, runs it once where resources were made for it, does not  *)
(* stop one again that waits to be freed, deletes nothing before the run   *)
(* is over, leaves to the schedular what it frees, and gives each sink to  *)
(* one effector never makes effector.c draw with, or free, what is not     *)
(* there.                                                                  *)
(***************************************************************************)
THEOREM NothingMissing ==
    ASSUME AllRules
    PROVE  Spec => []NoFault
<1>1. EInv => NoFault
    BY DEF EInv, Safe
<1> QED
    BY <1>1, EInvariant, PTL

(***************************************************************************)
(* The same application loses nothing: whoever frees an effector, its      *)
(* context is freed with it, every sink that lives on is in an effector or *)
(* in the hands of the application, and a sink's buffer goes with it.      *)
(***************************************************************************)
THEOREM NothingLeft ==
    ASSUME AllRules
    PROVE  Spec => []NothingLeftBehind
<1>1. EInv /\ HandsOK => NothingLeftBehind
    BY DEF EInv, Safe, EffsOK, SinksOK, HandsOK, Owned, NothingLeftBehind
<1> QED
    BY <1>1, EInvariant, HandsInvariant, PTL

(***************************************************************************)
(* Its calls of begindraw and enddraw are paired: the drawing resources of *)
(* an effector exist exactly while an animation made for it has not ended. *)
(***************************************************************************)
THEOREM DrawsArePaired ==
    ASSUME AllRules
    PROVE  Spec => []BeginEndPaired
<1>1. EInv => BeginEndPaired
    BY DEF EInv, Safe, Held, Draws, Drawable, BusyEff, BeginEndPaired
<1> QED
    BY <1>1, EInvariant, PTL
=============================================================================
