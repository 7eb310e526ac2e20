------------------------------ MODULE Effector ------------------------------
(***************************************************************************)
(* Effectors and what belongs to them (src/effector/effector.c,            *)
(* effector-source.c, effector-sink.c): the registry of effector classes,  *)
(* the sources and the sink an effector owns once they are attached, the   *)
(* context its class allocates, the drawing resources its class creates    *)
(* when an animation is made for it and deletes when that animation is     *)
(* finished, and the two compositions of the library that do all of it on  *)
(* their own, mGEffFillEffectorAnimation and mGEffCreateRollerAnimation.   *)
(*                                                                         *)
(* Each piece is freed by a call of its own, and little of the code checks *)
(* the order.  The rules an application has to follow are named; Careful   *)
(* is the set of those it does follow.                                     *)
(***************************************************************************)
EXTENDS Naturals, FiniteSets

CONSTANTS
    Effectors, Sinks, Anims,
    Classes,    \* effector classes in use, of "alpha", "zoom" and "scroll"
    Custom,     \* those the application registers itself
    NoEff, NoSink, NoAnim,   \* none of these
    Length,     \* updates of a drawing animation
    Careful     \* rules the application follows

Rules == {"complete",     \* an animation is made when sources and sink are attached
          "one_anim",     \* an effector has one animation at a time
          "one_run",      \* an animation with drawing resources is run once
          "stop_once",    \* an animation that was reported finished and waits
                          \* for being freed is not stopped again
          "over_first",   \* nothing is deleted before the animation was run to its end
          "auto_delete",  \* one that is not kept alive is left to the schedular
          "own_sink"}     \* a sink is in one effector, set once

ASSUME ClassesAssumption ==
    Classes \subseteq {"alpha", "zoom", "scroll"} /\ Classes # {} /\ Custom \subseteq Classes
ASSUME NoneAssumption == NoEff \notin Effectors /\ NoSink \notin Sinks /\ NoAnim \notin Anims
ASSUME LengthAssumption == Length \in Nat \ {0}
ASSUME CarefulAssumption == Careful \subseteq Rules

VARIABLES
    classes,   \* effector_list: the classes that are registered
    eff,       \* the effectors with their sources, context and drawing resources
    snk,       \* the sinks
    anim,      \* the drawing animations
    listed,    \* animations on the schedular's list
    fill,      \* the call of mGEffFillEffectorAnimation
    roller,    \* the group made by mGEffCreateRollerAnimation
    hands,     \* history: sinks in the hands of the application
    fault      \* something was used or freed that is not there

vars == <<classes, eff, snk, anim, listed, fill, roller, hands, fault>>

Life == {"none", "live", "freed"}

(* dc: the DC of the first source is the application's, is to be deleted  *)
(* with the source, is the white one of the roller, or is deleted.        *)
EffType == [life : Life, class : Classes, dc : {"app", "source", "white", "freed"},
            ctx : Life, res : Life, sink : Sinks \cup {NoSink}]
SinkType == [life : Life, buf : Life]
AnimType == [life : Life, state : {"STOPPED", "ACTIVE", "REMOVE"}, left : 0..Length,
             keepalive : BOOLEAN, ran : BOOLEAN, target : Effectors \cup {NoEff},
             cb : {"enddraw", "roller"}]

HasContext(c)   == c \in {"zoom", "scroll"}
HasResources(c) == c = "scroll"

Follows(rule) == rule \in Careful

(***************************************************************************)
(* What an animation needs for a frame, and what is in its way.            *)
(***************************************************************************)
SinkLive(k) == k \in Sinks /\ snk[k].life = "live" /\ snk[k].buf # "freed"
Drawable(e) ==
    /\ eff[e].life = "live"
    /\ eff[e].dc # "freed"
    /\ SinkLive(eff[e].sink)
    /\ HasContext(eff[e].class) => eff[e].ctx = "live"
    /\ HasResources(eff[e].class) => eff[e].res = "live"

Drawing(a) == anim[a].life = "live" /\ ~(anim[a].ran /\ anim[a].state # "ACTIVE")
BusyEff(e) == \E a \in Anims : Drawing(a) /\ anim[a].target = e

(* The next object to allocate: which one it is makes no difference. *)
NewEff(e)  == e = CHOOSE x \in Effectors : eff[x].life = "none"
NewSink(k) == k = CHOOSE x \in Sinks : snk[x].life = "none"
NewAnim(a) == a = CHOOSE x \in Anims : anim[x].life = "none"

(* Objects the library keeps to itself. *)
InnerEff  == {fill.eff} \cup {roller.eff[i] : i \in 1..2}
InnerAnim == {fill.anim} \cup {roller.anim[i] : i \in 1..2}
InnerSink == {fill.sink} \cup {roller.sink[i] : i \in 1..2}
-----------------------------------------------------------------------------
NoEffector == [life |-> "none", class |-> CHOOSE c \in Classes : TRUE, dc |-> "app",
               ctx |-> "none", res |-> "none", sink |-> NoSink]
NoAnimation == [life |-> "none", state |-> "STOPPED", left |-> 0, keepalive |-> TRUE,
                ran |-> FALSE, target |-> NoEff, cb |-> "enddraw"]

Init ==
    /\ classes = Classes \ Custom
    /\ eff = [e \in Effectors |-> NoEffector]
    /\ snk = [k \in Sinks |-> [life |-> "none", buf |-> "none"]]
    /\ anim = [a \in Anims |-> NoAnimation]
    /\ listed = {}
    /\ fill = [step |-> "none", eff |-> NoEff, sink |-> NoSink, anim |-> NoAnim]
    /\ roller = [step |-> "none", eff |-> <<NoEff, NoEff>>, sink |-> <<NoSink, NoSink>>,
                  anim |-> <<NoAnim, NoAnim>>]
    /\ hands = {}
    /\ fault = FALSE

(* mGEffEffectorRegister and mGEffEffectorUnRegister. *)
Register(c) ==
    /\ c \notin classes
    /\ classes' = classes \cup {c}
    /\ UNCHANGED <<eff, snk, anim, listed, fill, roller, hands, fault>>

UnRegister(c) ==
    /\ c \in classes
    /\ classes' = classes \ {c}
    /\ UNCHANGED <<eff, snk, anim, listed, fill, roller, hands, fault>>

(***************************************************************************)
(* mGEffEffectorCreate, where the class allocates its context, together    *)
(* with both mGEffCreateSource or mGEffCreateSourceEx and                  *)
(* mGEffEffectorAppendSource; and mGEffEffectorCreateEx, which makes and   *)
(* sets the sink, too.                                                     *)
(***************************************************************************)
Created(c, dc) == [NoEffector EXCEPT !.life = "live", !.class = c, !.dc = dc,
                                     !.ctx = IF HasContext(c) THEN "live" ELSE "none"]

Create(e, c, dc) ==
    /\ eff[e].life = "none" /\ NewEff(e)
    /\ c \in classes
    /\ eff' = [eff EXCEPT ![e] = Created(c, dc)]
    /\ UNCHANGED <<classes, snk, anim, listed, fill, roller, hands, fault>>

CreateEx(e, k, c) ==
    /\ eff[e].life = "none" /\ NewEff(e)
    /\ snk[k].life = "none" /\ NewSink(k)
    /\ c \in classes
    /\ eff' = [eff EXCEPT ![e] = [Created(c, "app") EXCEPT !.sink = k]]
    /\ snk' = [snk EXCEPT ![k].life = "live"]
    /\ UNCHANGED <<classes, anim, listed, fill, roller, hands, fault>>

(* mGEffCreateHDCSink, with or without mGEffSetBufferSink. *)
CreateSink(k, buffered) ==
    /\ snk[k].life = "none" /\ NewSink(k)
    /\ snk' = [snk EXCEPT ![k] = [life |-> "live",
                                  buf |-> IF buffered THEN "live" ELSE "none"]]
    /\ hands' = hands \cup {k}
    /\ UNCHANGED <<classes, eff, anim, listed, fill, roller, fault>>

SetSink(e, k) ==
    /\ eff[e].life = "live" /\ e \notin InnerEff
    /\ snk[k].life = "live" /\ k \notin InnerSink
    /\ Follows("own_sink") =>
          /\ eff[e].sink = NoSink
          /\ \A f \in Effectors : eff[f].life = "live" => eff[f].sink # k
    /\ eff' = [eff EXCEPT ![e].sink = k]
    /\ hands' = (hands \ {k}) \cup ({eff[e].sink} \ {NoSink})
    /\ UNCHANGED <<classes, snk, anim, listed, fill, roller, fault>>

FreedSink(k) == [life |-> "freed",
                 buf |-> IF snk[k].buf = "live" THEN "freed" ELSE snk[k].buf]

DeleteSink(k) ==
    /\ snk[k].life = "live" /\ k \notin InnerSink
    /\ Follows("own_sink") => \A e \in Effectors : eff[e].life = "live" => eff[e].sink # k
    /\ snk' = [snk EXCEPT ![k] = FreedSink(k)]
    /\ hands' = hands \ {k}
    /\ UNCHANGED <<classes, eff, anim, listed, fill, roller, fault>>
-----------------------------------------------------------------------------
(***************************************************************************)
(* mGEffAnimationCreateWithEffector.  It calls the class's begindraw; one  *)
(* that creates resources stores them in the context over what is there.   *)
(* Without the class in the registry there is no animation.                *)
(***************************************************************************)
Begun(e) == [eff[e] EXCEPT !.res = IF HasResources(eff[e].class) THEN "live" ELSE @]

DrawingAnim(e, keepalive, cb) ==
    [life |-> "live", state |-> "STOPPED", left |-> 0, keepalive |-> keepalive,
     ran |-> FALSE, target |-> e, cb |-> cb]

CreateAnim(a, e, keepalive) ==
    /\ anim[a].life = "none" /\ NewAnim(a)
    /\ eff[e].life = "live" /\ e \notin InnerEff
    /\ Follows("complete") => SinkLive(eff[e].sink)
    /\ Follows("one_anim") => ~BusyEff(e)
    /\ eff[e].class \in classes
    /\ anim' = [anim EXCEPT ![a] = DrawingAnim(e, keepalive, "enddraw")]
    /\ eff' = [eff EXCEPT ![e] = Begun(e)]
    /\ fault' = (fault \/ (HasResources(eff[e].class) /\ ~SinkLive(eff[e].sink)))
    /\ UNCHANGED <<classes, snk, listed, fill, roller, hands>>

(* mGEffAnimationAsyncRun *)
Run(a) == [anim[a] EXCEPT !.state = "ACTIVE", !.ran = TRUE,
                          !.left = IF anim[a].state = "STOPPED" THEN Length ELSE @]

AsyncRun(a) ==
    /\ anim[a].life = "live" /\ a \notin InnerAnim
    /\ anim[a].ran /\ Follows("one_run") =>
          ~HasResources(eff[anim[a].target].class) /\ Drawable(anim[a].target)
    /\ anim' = [anim EXCEPT ![a] = Run(a)]
    /\ listed' = listed \cup {a}
    /\ UNCHANGED <<classes, eff, snk, fill, roller, hands, fault>>

(***************************************************************************)
(* mGEffEffectorDelete: finalize frees the context, the sources go with    *)
(* the DCs they were given a callback for, and the sink with its buffer.   *)
(***************************************************************************)
FreedEff(e) ==
    [NoEffector EXCEPT !.life = "freed", !.res = eff[e].res,
                       !.ctx = IF eff[e].ctx = "live" THEN "freed" ELSE "none",
                       !.dc = IF eff[e].dc = "source" THEN "freed" ELSE eff[e].dc]

BadDelete(e) == eff[e].life # "live" \/ (HasContext(eff[e].class) /\ eff[e].ctx # "live")

BadSink(e) == eff[e].sink # NoSink /\ snk[eff[e].sink].life # "live"

SinkGone_Keeps(e) == snk   \* mutated: the sink is not deleted
SinkGone(e) == IF eff[e].sink = NoSink THEN snk
               ELSE [snk EXCEPT ![eff[e].sink] = FreedSink(eff[e].sink)]

FreedAnim == [NoAnimation EXCEPT !.life = "freed"]

Disposable(e) ==
    /\ eff[e].life = "live" /\ e \notin InnerEff
    /\ Follows("over_first") => ~BusyEff(e)

EffectorDelete(e) ==
    /\ Disposable(e)
    /\ eff' = [eff EXCEPT ![e] = FreedEff(e)]
    /\ snk' = SinkGone(e)
    /\ fault' = (fault \/ BadDelete(e) \/ BadSink(e))
    /\ UNCHANGED <<classes, anim, listed, fill, roller, hands>>

(***************************************************************************)
(* The sink goes to the application; the sources are freed, too, although  *)
(* the comment in mgeff-effector.h:354 says that they are not.             *)
(***************************************************************************)
DeleteWithoutSink(e) ==
    /\ Disposable(e)
    /\ eff' = [eff EXCEPT ![e] = FreedEff(e)]
    /\ fault' = (fault \/ BadDelete(e))
    /\ hands' = hands \cup ({eff[e].sink} \ {NoSink})
    /\ UNCHANGED <<classes, snk, anim, listed, fill, roller>>

(* mGEffAnimationDelete takes only what is kept alive off the list. *)
DeleteAnim(a) ==
    /\ anim[a].life = "live" /\ a \notin InnerAnim
    /\ Follows("over_first") => ~Drawing(a)
    /\ Follows("auto_delete") => anim[a].keepalive
    /\ anim' = [anim EXCEPT ![a] = FreedAnim]
    /\ listed' = IF anim[a].keepalive THEN listed \ {a} ELSE listed
    /\ UNCHANGED <<classes, eff, snk, fill, roller, hands, fault>>
-----------------------------------------------------------------------------
(***************************************************************************)
(* The end of a run calls finished_cb: effbaserender_enddraw, which calls  *)
(* the class's enddraw, or for the two animations of the roller            *)
(* roller_delete_whitedc, which deletes the DC of the first source and     *)
(* then the effector.                                                      *)
(***************************************************************************)
OverState(a) == IF anim[a].keepalive THEN "STOPPED" ELSE "REMOVE"

EndDraw_Nothing(a) == UNCHANGED <<eff, snk>> /\ fault' = fault   \* mutated
EndDraw(a) ==
    LET e == anim[a].target IN
    /\ eff' = [eff EXCEPT ![e].res = IF HasResources(eff[e].class) THEN "freed" ELSE @]
    /\ fault' = (fault \/ eff[e].life # "live"
                       \/ (HasResources(eff[e].class) /\ eff[e].res # "live"))
    /\ UNCHANGED snk

RollerDelete_KeepsWhite(a) ==   \* mutated: the white DC is not deleted
    LET e == anim[a].target IN
    /\ eff' = [eff EXCEPT ![e] = FreedEff(e)]
    /\ snk' = SinkGone(e)
    /\ fault' = (fault \/ BadDelete(e) \/ BadSink(e))

RollerDelete(a) ==
    LET e == anim[a].target IN
    /\ eff' = [eff EXCEPT ![e] = [FreedEff(e) EXCEPT !.dc = "freed"]]
    /\ snk' = SinkGone(e)
    /\ fault' = (fault \/ eff[e].dc # "white" \/ BadDelete(e) \/ BadSink(e))

Finish(a) ==
    /\ anim' = [anim EXCEPT ![a].state = OverState(a), ![a].left = 0]
    /\ IF anim[a].cb = "roller" THEN RollerDelete(a) ELSE EndDraw(a)

(* effbaserender_ondraw, and the end of the run after its last frame. *)
Draw(a) ==
    IF anim[a].left > 1
    THEN /\ anim' = [anim EXCEPT ![a].left = @ - 1]
         /\ fault' = (fault \/ ~Drawable(anim[a].target))
         /\ UNCHANGED <<eff, snk>>
    ELSE IF Drawable(anim[a].target) THEN Finish(a)
    ELSE fault' = TRUE /\ UNCHANGED <<anim, eff, snk>>

(* What a pass of the schedular does with one animation of its list. *)
Update(a) ==
    /\ a \in listed
    /\ CASE anim[a].life = "freed" -> fault' = TRUE /\ UNCHANGED <<eff, snk, anim, listed>>
         [] anim[a].state = "ACTIVE" -> Draw(a) /\ UNCHANGED listed
         [] anim[a].life = "live" /\ anim[a].state = "STOPPED" ->
               listed' = listed \ {a} /\ UNCHANGED <<anim, eff, snk, fault>>
         [] anim[a].state = "REMOVE" ->
               /\ listed' = listed \ {a}
               /\ anim' = [anim EXCEPT ![a] = FreedAnim]
               /\ UNCHANGED <<eff, snk, fault>>
    /\ UNCHANGED <<classes, fill, roller, hands>>

(* Only a stopped animation is left alone: one that waits for being freed  *)
(* is finished again.                                                      *)
Stop(a) ==
    /\ anim[a].life = "live" /\ a \notin InnerAnim
    /\ Follows("stop_once") => anim[a].state # "REMOVE"
    /\ anim[a].state # "STOPPED"
    /\ Finish(a)
    /\ UNCHANGED <<classes, listed, fill, roller, hands>>
-----------------------------------------------------------------------------
(***************************************************************************)
(* mGEffFillEffectorAnimation makes effector, sink and animation from      *)
(* three DCs, waits in a message loop for the end of the animation, and    *)
(* deletes the effector.  It leaves the animation allocated.               *)
(***************************************************************************)
FillStart(e, k, a, c) ==
    /\ fill.step = "none"
    /\ eff[e].life = "none" /\ snk[k].life = "none" /\ anim[a].life = "none"
    /\ NewEff(e) /\ NewSink(k) /\ NewAnim(a)
    /\ c \in classes
    /\ eff' = [eff EXCEPT ![e] = [Created(c, "app") EXCEPT !.sink = k,
                                  !.res = IF HasResources(c) THEN "live" ELSE "none"]]
    /\ snk' = [snk EXCEPT ![k].life = "live"]
    /\ anim' = [anim EXCEPT ![a] = [DrawingAnim(e, TRUE, "enddraw") EXCEPT
                                    !.state = "ACTIVE", !.ran = TRUE, !.left = Length]]
    /\ listed' = listed \cup {a}
    /\ fill' = [step |-> "wait", eff |-> e, sink |-> k, anim |-> a]
    /\ UNCHANGED <<classes, roller, hands, fault>>

FillEnd_AtOnce ==   \* mutated: does not wait for the animation
    /\ fill.step = "wait"
    /\ eff' = [eff EXCEPT ![fill.eff] = FreedEff(fill.eff)]
    /\ snk' = SinkGone(fill.eff)
    /\ fault' = (fault \/ BadDelete(fill.eff) \/ BadSink(fill.eff))
    /\ fill' = [fill EXCEPT !.step = "done"]
    /\ UNCHANGED <<classes, anim, listed, roller, hands>>

FillEnd ==
    /\ fill.step = "wait"
    /\ fill.anim \notin listed
    /\ eff' = [eff EXCEPT ![fill.eff] = FreedEff(fill.eff)]
    /\ snk' = SinkGone(fill.eff)
    /\ fault' = (fault \/ BadDelete(fill.eff) \/ BadSink(fill.eff))
    /\ fill' = [fill EXCEPT !.step = "done"]
    /\ UNCHANGED <<classes, anim, listed, roller, hands>>

(***************************************************************************)
(* mGEffCreateRollerAnimation: a sequential group of two zoom animations,  *)
(* each with an effector, a white DC and a buffered sink of its own.       *)
(***************************************************************************)
RollerCreate(e, f, k, l, a, b) ==
    /\ roller.step = "none"
    /\ e # f /\ k # l /\ a # b
    /\ \A x \in {e, f} : eff[x].life = "none"
    /\ \A x \in {k, l} : snk[x].life = "none"
    /\ \A x \in {a, b} : anim[x].life = "none"
    /\ NewEff(e) /\ NewSink(k) /\ NewAnim(a)
    /\ "zoom" \in classes
    /\ eff' = [eff EXCEPT ![e] = [Created("zoom", "white") EXCEPT !.sink = k],
                            ![f] = [Created("zoom", "white") EXCEPT !.sink = l]]
    /\ snk' = [x \in Sinks |-> IF x \in {k, l} THEN [life |-> "live", buf |-> "live"] ELSE snk[x]]
    /\ anim' = [anim EXCEPT ![a] = DrawingAnim(e, TRUE, "roller"), ![b] = DrawingAnim(f, TRUE, "roller")]
    /\ roller' = [step |-> "made", eff |-> <<e, f>>, sink |-> <<k, l>>, anim |-> <<a, b>>]
    /\ UNCHANGED <<classes, listed, fill, hands, fault>>

Kids == {roller.anim[i] : i \in 1..2}

RollerRun ==
    /\ roller.step \in {"made", "over"}
    /\ Follows("one_run") => roller.step = "made"
    /\ anim' = [a \in Anims |-> IF a \in Kids THEN Run(a) ELSE anim[a]]
    /\ roller' = [roller EXCEPT !.step = "runs"]
    /\ UNCHANGED <<classes, eff, snk, listed, fill, hands, fault>>

(* The group updates the first child that is not over; it ends after both. *)
RollerUpdate ==
    /\ roller.step = "runs"
    /\ LET active == {i \in 1..2 : anim[roller.anim[i]].state = "ACTIVE"} IN
       IF active = {}
       THEN roller' = [roller EXCEPT !.step = "over"] /\ UNCHANGED <<anim, eff, snk, fault>>
       ELSE /\ Draw(roller.anim[CHOOSE i \in active : \A j \in active : i <= j])
            /\ UNCHANGED roller
    /\ UNCHANGED <<classes, listed, fill, hands>>

RollerGroupDelete ==
    /\ roller.step \in {"made", "runs", "over"}
    /\ Follows("over_first") => roller.step = "over"
    /\ anim' = [a \in Anims |-> IF a \in Kids THEN FreedAnim ELSE anim[a]]
    /\ roller' = [roller EXCEPT !.step = "gone"]
    /\ UNCHANGED <<classes, eff, snk, listed, fill, hands, fault>>

Next ==
    \/ \E c \in Custom : Register(c) \/ UnRegister(c)
    \/ \E e \in Effectors, c \in Classes, dc \in {"app", "source"} : Create(e, c, dc)
    \/ \E e \in Effectors, k \in Sinks, c \in Classes : CreateEx(e, k, c)
    \/ \E e \in Effectors : EffectorDelete(e) \/ DeleteWithoutSink(e)
    \/ \E k \in Sinks : DeleteSink(k)
    \/ \E k \in Sinks, buffered \in BOOLEAN : CreateSink(k, buffered)
    \/ \E e \in Effectors, k \in Sinks : SetSink(e, k)
    \/ \E a \in Anims, e \in Effectors, keepalive \in BOOLEAN : CreateAnim(a, e, keepalive)
    \/ \E a \in Anims : AsyncRun(a) \/ Update(a) \/ Stop(a) \/ DeleteAnim(a)
    \/ \E e \in Effectors, k \in Sinks, a \in Anims, c \in Classes : FillStart(e, k, a, c)
    \/ FillEnd
    \/ \E e, f \in Effectors, k, l \in Sinks, a, b \in Anims : RollerCreate(e, f, k, l, a, b)
    \/ RollerRun \/ RollerUpdate \/ RollerGroupDelete

(* The timer updates every listed animation; the call of Fill goes on.  *)
Fairness ==
    /\ \A a \in Anims : WF_vars(Update(a))
    /\ WF_vars(FillEnd) /\ WF_vars(RollerUpdate)

Spec == Init /\ [][Next]_vars /\ Fairness
-----------------------------------------------------------------------------
TypeOK ==
    /\ classes \subseteq Classes
    /\ eff \in [Effectors -> EffType]
    /\ snk \in [Sinks -> SinkType]
    /\ anim \in [Anims -> AnimType]
    /\ listed \subseteq Anims
    /\ fill.step \in {"none", "wait", "done"}
    /\ roller.step \in {"none", "made", "runs", "over", "gone"}
    /\ hands \subseteq Sinks
    /\ fault \in BOOLEAN

(* An application that follows the rules never makes the library draw with *)
(* or free something that is not there, whenever the timer ends an         *)
(* animation and whatever else it does during the message loop of          *)
(* mGEffFillEffectorAnimation (effector.c:355-414, 573).                   *)
NoFault == ~fault

(* Nothing is lost.  Whoever frees an effector, the application, the call  *)
(* that fills a window or the roller while its group goes on: the context  *)
(* of the class is freed, a sink that lives on is in an effector or in the *)
(* hands of the application, which can delete it, and its buffer goes with *)
(* it (effector.c:355-413, effector-sink.c:67).                            *)
NothingLeftBehind ==
    /\ \A e \in Effectors : eff[e].life = "freed" => eff[e].ctx # "live"
    /\ \A k \in Sinks : snk[k].life = "live" =>
          k \in hands \/ \E e \in Effectors : eff[e].life = "live" /\ eff[e].sink = k
    /\ \A k \in Sinks : snk[k].life = "freed" => snk[k].buf # "live"

(* An effector holds drawing resources exactly while an animation made for *)
(* it has not come to its end: begindraw and enddraw are paired            *)
(* (effector.c:594-603, include/mgeff-effector.h:127-141).                 *)
BeginEndPaired ==
    \A e \in Effectors : HasResources(eff[e].class) /\ eff[e].life = "live" =>
        ((eff[e].res = "live") <=> BusyEff(e))

Gone(E, K) == (\A e \in E : eff[e].life = "freed") /\ (\A k \in K : snk[k].life = "freed")

(* Both compositions clean up behind themselves.  The call that fills a    *)
(* window returns, and has freed all it made except the animation; a       *)
(* roller that is run frees both effectors, their sinks and both white DCs *)
(* in the end, the first effector while the second still draws             *)
(* (effector.c:566-578, 614-663).                                          *)
CompositionsClean ==
    /\ fill.step = "wait" ~> (fill.step = "done" /\ Gone({fill.eff} \cap Effectors,
                                                         {fill.sink} \cap Sinks))
    /\ roller.step = "runs" ~>
          LET E == {roller.eff[i] : i \in 1..2} \cap Effectors IN
          /\ Gone(E, {roller.sink[i] : i \in 1..2} \cap Sinks)
          /\ \A e \in E : eff[e].dc = "freed"
=============================================================================
