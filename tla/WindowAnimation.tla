-------------------------- MODULE WindowAnimation --------------------------
(***************************************************************************)
(* Animated windows (src/window-animation.c): creating, showing, hiding    *)
(* and moving a main window with an animation, and holding its picture.    *)
(*                                                                         *)
(* mGEffCreateMainWindow, mGEffShowWindow and mGEffMoveWindow run their    *)
(* animation to its end before they return; meanwhile the schedular        *)
(* updates every other animation, whose callbacks may call in here again.  *)
(* They share the context the application passes, the window's secondary   *)
(* DC and the memory DCs that hold the two pictures.  The rules that keep  *)
(* them apart are the application's; Careful is the set of those it        *)
(* follows.                                                                *)
(*                                                                         *)
(* There may be no memory for a picture.  Some of the calls give up then,  *)
(* others go on and pass HDC_INVALID to MiniGUI, which is taken to draw    *)
(* nothing with it and to delete nothing.                                  *)
(***************************************************************************)
EXTENDS Naturals, FiniteSets, Sequences

CONSTANTS
    Windows, Contexts, Moves,
    Places,     \* rectangles a window can have
    Wide,       \* those of another size than the others
    MaxDCs,     \* memory DCs at a time
    MaxDepth,   \* calls inside each other
    Own,        \* windows the application gives a secondary DC
    NoWin, NoCtx, NoMove,   \* none of these
    NoDC,       \* no DC: it was deleted, or is not asked for yet
    Invalid,    \* HDC_INVALID: there was no memory for the DC
    Careful     \* rules the application follows

Rules == {"fresh_info",      \* a MAINWINCREATE is filled in for every use
          "one_context",     \* a context is in one call or hold at a time
          "one_window",      \* a window is in one operation at a time
          "false_is_gone",   \* a context mGEffMoveWindow returned FALSE for is not used
          "run_once"}        \* a prepared move is run once, to its end, and deleted

ASSUME PlacesAssumption == Places # {} /\ Wide \subseteq Places /\ Own \subseteq Windows
ASSUME BoundsAssumption == MaxDCs \in Nat /\ MaxDepth \in Nat \ {0}
ASSUME NoneAssumption ==
    NoWin \notin Windows /\ NoCtx \notin Contexts /\ NoMove \notin Moves
    /\ NoDC \notin 1..MaxDCs /\ Invalid \notin 1..MaxDCs /\ NoDC # Invalid
ASSUME CarefulAssumption == Careful \subseteq Rules

VARIABLES
    win,     \* the main windows
    ctx,     \* the contexts of the application
    move,    \* move animations, each with its copy of a context
    info,    \* the MAINWINCREATE: its procedure and additional data
    calls,   \* the calls that are waiting for their animation, innermost last
    dcs,     \* memory DCs that exist
    fault    \* something was used or freed that is not there

vars == <<win, ctx, move, info, calls, dcs, fault>>

DCs == 1..MaxDCs
Follows(rule) == rule \in Careful

WinType == [live : BOOLEAN, sec : {"none", "own", "lib"}, frozen : BOOLEAN,
            vis : {"hidden", "shown", "moving"}, at : Places]
CtxType == [life : {"none", "live", "freed", "taken"}, hwnd : Windows \cup {NoWin},
            old : {"invalid", "none", "own", "lib"}, hook : BOOLEAN,
            src : DCs \cup {NoDC, Invalid}, dst : DCs \cup {NoDC, Invalid}]
MoveType == [state : {"none", "STOPPED", "READY", "RUNNING"}, listed : BOOLEAN, copy : BOOLEAN,
             hwnd : Windows \cup {NoWin}, src : DCs \cup {NoDC, Invalid},
             old : Places, new : Places, target : Places]

SomePlace == CHOOSE p \in Places : TRUE
NoWindow  == [live |-> FALSE, sec |-> "none", frozen |-> FALSE, vis |-> "hidden",
               at |-> SomePlace]
NoContext == [life |-> "none", hwnd |-> NoWin, old |-> "invalid", hook |-> FALSE,
              src |-> NoDC, dst |-> NoDC]
NoAnim    == [state |-> "none", listed |-> FALSE, copy |-> FALSE, hwnd |-> NoWin, src |-> NoDC,
              old |-> SomePlace, new |-> SomePlace, target |-> SomePlace]
Filled    == [hook |-> FALSE, data |-> NoCtx]

Init ==
    /\ win = [w \in Windows |-> NoWindow]
    /\ ctx = [c \in Contexts |-> NoContext]
    /\ move = [m \in Moves |-> NoAnim]
    /\ info = Filled
    /\ calls = <<>>
    /\ dcs = {}
    /\ fault = FALSE
-----------------------------------------------------------------------------
(***************************************************************************)
(* Who uses what.                                                          *)
(***************************************************************************)
Calling == {calls[i] : i \in DOMAIN calls}
Holds(c) == ctx[c].life = "live" /\ ctx[c].old # "invalid"
UnderWay(m) == move[m].state # "none" /\ move[m].copy
IdleCtx(c) == ~Holds(c) /\ \A k \in Calling : k.ctx # c
IdleWin(w) ==
    /\ \A c \in Contexts : Holds(c) => ctx[c].hwnd # w
    /\ \A k \in Calling : k.win # w
    /\ \A m \in Moves : UnderWay(m) => move[m].hwnd # w

Usable(c) == ctx[c].life = "live" \/ (~Follows("false_is_gone") /\ ctx[c].life = "taken")
MayUse(c, w) ==
    /\ Usable(c)
    /\ Follows("one_context") => IdleCtx(c)
    /\ Follows("one_window") => IdleWin(w)

(* A callback can call while the loop of the innermost call goes on. *)
Waits(k) == IF k.op = "move" THEN move[k.move].listed ELSE ~k.over
MayCall  == Len(calls) < MaxDepth /\ (calls # <<>> => Waits(calls[Len(calls)]))
Call(c, w, op, m) == [ctx |-> c, win |-> w, op |-> op, move |-> m, over |-> FALSE]

(* Memory DCs.  There is a next one, or there is no memory for it.  Where  *)
(* one is deleted every pointer to it becomes NoDC.                        *)
NextDC(D)  == {d \in DCs \ D : d = CHOOSE x \in DCs \ D : TRUE}
MaybeDC(D) == NextDC(D) \cup {Invalid}
Made(D)    == D \ {Invalid}
Cut(d, D)  == IF d \in Made(D) THEN NoDC ELSE d
CtxWithout(D)  == [c \in Contexts |-> [ctx[c] EXCEPT !.src = Cut(@, D), !.dst = Cut(@, D)]]
MoveWithout(D) == [m \in Moves |-> [move[m] EXCEPT !.src = Cut(@, D)]]

Stale(D) == ~(Made(D) \subseteq dcs)
-----------------------------------------------------------------------------
(* mGEffCreateWindowAnimationContext and mGEffDestroyWindowAnimationContext. *)
CreateContext(c) ==
    /\ ctx[c].life \in {"none", "freed"}
    /\ \A k \in Calling : k.ctx # c
    /\ info.data # c
    /\ ctx' = [ctx EXCEPT ![c] = [NoContext EXCEPT !.life = "live"]]
    /\ UNCHANGED <<win, move, info, calls, dcs, fault>>

DestroyContext(c) ==
    /\ Usable(c)
    /\ Follows("one_context") => IdleCtx(c)
    /\ ctx' = [ctx EXCEPT ![c] = [NoContext EXCEPT !.life = "freed"]]
    /\ fault' = (fault \/ ctx[c].life = "taken")
    /\ UNCHANGED <<win, move, info, calls, dcs>>

(***************************************************************************)
(* The picture of a window.  mGEffGetWindowForeground paints the window    *)
(* into its secondary DC and copies that; the copy is a new memory DC.     *)
(* It leaves a secondary DC that was there showing again.                  *)
(***************************************************************************)
Foreground(w, set) == [win[w] EXCEPT !.frozen = FALSE, !.vis = IF set THEN "shown" ELSE @]

(* mGEffHoldWindowForeground: the window is stored before the check. *)
Hold(c, w) ==
    /\ win[w].live /\ MayUse(c, w)
    /\ IF ctx[c].old = "invalid"
       THEN /\ ctx' = [ctx EXCEPT ![c].hwnd = w, ![c].old = win[w].sec]
            /\ win' = [win EXCEPT ![w].frozen = TRUE,
                                  ![w].sec = IF @ = "none" THEN "lib" ELSE @]
       ELSE ctx' = [ctx EXCEPT ![c].hwnd = w] /\ UNCHANGED win
    /\ fault' = (fault \/ ctx[c].life # "live")
    /\ UNCHANGED <<move, info, calls, dcs>>

(* mGEffDropWindowForeground *)
Drop_KeepsSecondary(c) ==   \* mutated: the secondary DC the library made is not deleted
    LET w == ctx[c].hwnd IN
    /\ Usable(c) /\ ctx[c].old # "invalid" /\ w \in Windows
    /\ IF win[w].sec # "none"
       THEN /\ win' = [win EXCEPT ![w].frozen = FALSE]
            /\ ctx' = [ctx EXCEPT ![c].old = "invalid"]
       ELSE UNCHANGED <<win, ctx>>
    /\ fault' = (fault \/ ctx[c].life # "live")
    /\ UNCHANGED <<move, info, calls, dcs>>

Drop(c) ==
    LET w == ctx[c].hwnd IN
    /\ Usable(c) /\ ctx[c].old # "invalid" /\ w \in Windows
    /\ IF win[w].sec # "none"
       THEN /\ win' = [win EXCEPT ![w].frozen = FALSE, ![w].sec = ctx[c].old]
            /\ ctx' = [ctx EXCEPT ![c].old = "invalid"]
       ELSE UNCHANGED <<win, ctx>>
    /\ fault' = (fault \/ ctx[c].life # "live")
    /\ UNCHANGED <<move, info, calls, dcs>>

(* ControlExtract and WindowExtract hold and drop the window with a       *)
(* context of their own; the copy goes with the new window.               *)
Extract(w) ==
    /\ win[w].live
    /\ Follows("one_window") => IdleWin(w)
    /\ win' = [win EXCEPT ![w].frozen = FALSE]
    /\ UNCHANGED <<ctx, move, info, calls, dcs, fault>>
-----------------------------------------------------------------------------
(***************************************************************************)
(* mGEffCreateMainWindow.  The hook takes the place of the window's        *)
(* procedure and the context that of its additional data until MSG_CREATE. *)
(* In the MAINWINCREATE they stay; a hook that has replaced the hook       *)
(* calls itself without end.                                               *)
(***************************************************************************)
SecondaryOf(w) == IF w \in Own THEN "own" ELSE "none"

Created(w) ==
    [NoWindow EXCEPT !.live = TRUE, !.sec = SecondaryOf(w), !.vis = "shown"]

MayCreate(c, w) ==
    /\ ~win[w].live
    /\ MayCall /\ MayUse(c, w)

(* The MAINWINCREATE at the next use: filled in again, or as it was left. *)
NextInfo(left) == {Filled} \cup (IF Follows("fresh_info") THEN {} ELSE {left})

Hooked(c) == [ctx[c] EXCEPT !.old = "invalid", !.hook = info.hook]

CreateMainWindow(c, w) ==
    /\ MayCreate(c, w)
    /\ \E s \in NextDC(dcs) : \E d \in MaybeDC(dcs \cup {s}) :
          /\ ctx' = [ctx EXCEPT ![c] = [Hooked(c) EXCEPT !.hwnd = w, !.src = s, !.dst = d]]
          /\ dcs' = dcs \cup Made({s, d})
    /\ info' \in NextInfo([hook |-> TRUE, data |-> c])
    /\ win' = [win EXCEPT ![w] = Created(w)]
    /\ fault' = (fault \/ info.hook \/ ctx[c].life # "live")
    /\ calls' = Append(calls, Call(c, w, "show", NoMove))
    /\ UNCHANGED move

(* There is no DC for the first picture; or there is, but no window. *)
CreateFails(c, w, dc) ==
    /\ MayCreate(c, w)
    /\ ctx' = [ctx EXCEPT ![c] = [Hooked(c) EXCEPT !.src = NoDC]]
    /\ info' \in NextInfo([hook |-> TRUE, data |-> IF dc THEN c ELSE info.data])
    /\ fault' = (fault \/ ctx[c].life # "live")
    /\ UNCHANGED <<win, move, calls, dcs>>

(* The application's own CreateMainWindow with the same MAINWINCREATE: the *)
(* hook takes the additional data for its context.                         *)
PlainCreate(w) ==
    LET c == info.data IN
    /\ ~win[w].live
    /\ win' = [win EXCEPT ![w] = Created(w)]
    /\ fault' = (fault \/ (info.hook /\ (c = NoCtx \/ ctx[c].life # "live" \/ ctx[c].hook)))
    /\ UNCHANGED <<ctx, move, info, calls, dcs>>

(***************************************************************************)
(* mGEffShowWindow and mGEffShowWindowEx.  To show, the first picture is   *)
(* the screen and the last the window; to hide, the other way round, and   *)
(* the context does not get to know the window.  Both go on with whatever  *)
(* DCs they get.                                                           *)
(***************************************************************************)
ShowWindow(c, w) ==
    /\ win[w].live /\ MayCall /\ MayUse(c, w)
    /\ \E s \in MaybeDC(dcs) : \E d \in MaybeDC(dcs \cup {s}) :
          /\ ctx' = [ctx EXCEPT ![c].hwnd = w, ![c].src = s, ![c].dst = d]
          /\ dcs' = dcs \cup Made({s, d})
    /\ win' = [win EXCEPT ![w] = Foreground(w, TRUE)]
    /\ fault' = (fault \/ ctx[c].life # "live")
    /\ calls' = Append(calls, Call(c, w, "show", NoMove))
    /\ UNCHANGED <<move, info>>

HideWindow(c, w) ==
    /\ win[w].live /\ MayCall /\ MayUse(c, w)
    /\ \E s \in MaybeDC(dcs) : \E d \in MaybeDC(dcs \cup {s}) :
          /\ ctx' = [ctx EXCEPT ![c].src = s, ![c].dst = d]
          /\ dcs' = dcs \cup Made({s, d})
    /\ fault' = (fault \/ ctx[c].life # "live")
    /\ calls' = Append(calls, Call(c, w, "hide", NoMove))
    /\ UNCHANGED <<win, move, info>>

(* The schedular brings the animation of a waiting call to its end, those  *)
(* of the calls outside the innermost one, too.                            *)
PlayOver(i) ==
    /\ i \in DOMAIN calls
    /\ calls[i].op # "move" /\ ~calls[i].over
    /\ calls' = [calls EXCEPT ![i].over = TRUE]
    /\ UNCHANGED <<win, ctx, move, info, dcs, fault>>

Return == SubSeq(calls, 1, Len(calls) - 1)

(* After effector_animation_play, which uses the context, too.  What the   *)
(* context says of its pictures is read by nobody until it is set again.   *)
Played(D, c) == [CtxWithout(D) EXCEPT ![c].src = NoDC, ![c].dst = NoDC]

PlayReturn_KeepsFirst ==   \* mutated: the DC of the first picture is not deleted
    LET k == calls[Len(calls)] IN
    /\ calls # <<>> /\ k.op # "move" /\ ~Waits(k)
    /\ win' = [win EXCEPT ![k.win].vis = IF k.op = "hide" THEN "hidden" ELSE @]
    /\ dcs' = dcs \ {ctx[k.ctx].dst}
    /\ ctx' = Played({ctx[k.ctx].dst}, k.ctx)
    /\ fault' = (fault \/ ctx[k.ctx].life # "live" \/ Stale({ctx[k.ctx].dst}))
    /\ calls' = Return
    /\ UNCHANGED <<move, info>>

PlayReturn ==
    LET k == calls[Len(calls)]
        D == {ctx[k.ctx].src, ctx[k.ctx].dst} IN
    /\ calls # <<>> /\ k.op # "move" /\ ~Waits(k)
    /\ win' = [win EXCEPT ![k.win].vis = IF k.op = "hide" THEN "hidden" ELSE @]
    /\ dcs' = dcs \ D
    /\ ctx' = Played(D, k.ctx)
    /\ move' = MoveWithout(D)
    /\ fault' = (fault \/ ctx[k.ctx].life # "live" \/ Stale(D))
    /\ calls' = Return
    /\ UNCHANGED info
-----------------------------------------------------------------------------
(***************************************************************************)
(* mGEffMoveWindowPreparation: an animation with a copy of the context.    *)
(* Both keep the DC with the picture.                                      *)
(***************************************************************************)
Prepared(w, p, d) ==
    [state |-> "STOPPED", listed |-> FALSE, copy |-> TRUE, hwnd |-> w, src |-> d,
     old |-> win[w].at, new |-> win[w].at, target |-> p]

NextMove(m) == m = CHOOSE x \in Moves : move[x].state = "none"

Prepare(m, c, w, p) ==
    /\ move[m].state = "none" /\ NextMove(m)
    /\ win[w].live /\ p # win[w].at /\ MayUse(c, w)
    /\ \E d \in NextDC(dcs) :
          /\ move' = [move EXCEPT ![m] = Prepared(w, p, d)]
          /\ ctx' = [ctx EXCEPT ![c].src = d]
          /\ dcs' = dcs \cup {d}
    /\ win' = [win EXCEPT ![w] = Foreground(w, FALSE)]
    /\ fault' = (fault \/ ctx[c].life # "live")
    /\ UNCHANGED <<info, calls>>

(* There is no DC for the picture; or there is, but no copy of the context. *)
PrepareFails(c, w) ==
    /\ win[w].live /\ MayUse(c, w)
    /\ ctx' = [ctx EXCEPT ![c].src = NoDC]
    /\ win' = [win EXCEPT ![w] = Foreground(w, FALSE)]
    /\ fault' = (fault \/ ctx[c].life # "live")
    /\ UNCHANGED <<move, info, calls, dcs>>

Run(m) == [move[m] EXCEPT !.state = IF @ = "STOPPED" THEN "READY" ELSE @, !.listed = TRUE]

AsyncRun(m) ==
    /\ move[m].state # "none" /\ \A k \in Calling : k.move # m
    /\ Follows("run_once") => move[m].copy
    /\ move' = [move EXCEPT ![m] = Run(m)]
    /\ UNCHANGED <<win, ctx, info, calls, dcs, fault>>

(* mGEffMoveWindow waits for the same animation.  When there is none it   *)
(* frees the context of the application and returns FALSE: the window is  *)
(* there already, or, after its picture was asked for, a DC or a copy is  *)
(* not to be had.                                                         *)
MoveWindow(m, c, w, p) ==
    /\ move[m].state = "none" /\ NextMove(m)
    /\ win[w].live /\ MayCall /\ p # win[w].at /\ MayUse(c, w)
    /\ \E d \in NextDC(dcs) :
          /\ move' = [move EXCEPT ![m] = [Prepared(w, p, d) EXCEPT !.state = "READY", !.listed = TRUE]]
          /\ ctx' = [ctx EXCEPT ![c].src = d]
          /\ dcs' = dcs \cup {d}
    /\ win' = [win EXCEPT ![w] = Foreground(w, FALSE)]
    /\ fault' = (fault \/ ctx[c].life # "live")
    /\ calls' = Append(calls, Call(c, w, "move", m))
    /\ UNCHANGED info

MoveRefused(c, w) ==
    /\ win[w].live /\ MayUse(c, w)
    /\ win' \in {win, [win EXCEPT ![w] = Foreground(w, FALSE)]}
    /\ ctx' = [ctx EXCEPT ![c] = [NoContext EXCEPT !.life = IF Follows("false_is_gone") THEN "freed" ELSE "taken"]]
    /\ fault' = (fault \/ ctx[c].life # "live")
    /\ UNCHANGED <<move, info, calls, dcs>>

MoveReturn ==
    LET k == calls[Len(calls)] IN
    /\ calls # <<>> /\ k.op = "move" /\ ~Waits(k)
    /\ move' = [move EXCEPT ![k.move] = NoAnim]
    /\ calls' = Return
    /\ UNCHANGED <<win, ctx, info, dcs, fault>>

(***************************************************************************)
(* A step of a move.  ready_for_move hides the window when the animation   *)
(* starts; animation_generate draws it at r, and gives it r's size with a  *)
(* new picture, if there is memory for it, when that is another size (an   *)
(* assertion is all that looks at the result); move_anim_finished puts it  *)
(* where it was drawn last, shows it, and frees the copy.                  *)
(***************************************************************************)
Resized(m, r) == (r \in Wide) # (move[m].old \in Wide)

Generate_KeepsOld(m, r) ==   \* mutated: after the resize the deleted DC is kept
    LET w == move[m].hwnd
        started == [win[w] EXCEPT !.vis = IF move[m].state = "READY" THEN "moving" ELSE @]
    IN  /\ move' = [move EXCEPT ![m].state = "RUNNING", ![m].new = r,
                                ![m].src = IF Resized(m, r) THEN NoDC ELSE @]
        /\ win' = [win EXCEPT ![w] = started]
        /\ dcs' = IF Resized(m, r) THEN dcs \ {move[m].src} ELSE dcs
        /\ UNCHANGED ctx
        /\ fault' = (fault \/ ~move[m].copy \/ Stale({move[m].src}))

Generate(m, r) ==
    LET w == move[m].hwnd
        started == [win[w] EXCEPT !.vis = IF move[m].state = "READY" THEN "moving" ELSE @]
        others  == dcs \ {move[m].src}
    IN  /\ IF Resized(m, r)
           THEN /\ win' = [win EXCEPT ![w] = [started EXCEPT !.at = r, !.frozen = FALSE]]
                /\ ctx' = CtxWithout({move[m].src})
                /\ \E d \in MaybeDC(others) :
                      /\ move' = [move EXCEPT ![m].state = "RUNNING", ![m].new = r, ![m].src = d]
                      /\ dcs' = others \cup Made({d})
           ELSE /\ win' = [win EXCEPT ![w] = started]
                /\ move' = [move EXCEPT ![m].state = "RUNNING", ![m].new = r]
                /\ UNCHANGED <<ctx, dcs>>
        /\ fault' = (fault \/ ~move[m].copy \/ Stale({move[m].src}))

Over(m) == [NoAnim EXCEPT !.state = "STOPPED", !.listed = move[m].listed, !.hwnd = move[m].hwnd,
                          !.src = NoDC]

Finish_StaysHidden(m, r, frozen) ==   \* mutated: the window is not shown again
    /\ move' = [move EXCEPT ![m] = Over(m)]
    /\ win' = [win EXCEPT ![move[m].hwnd].at = r, ![move[m].hwnd].frozen = frozen]
    /\ dcs' = dcs \ {move[m].src}
    /\ ctx' = CtxWithout({move[m].src})
    /\ fault' = (fault \/ ~move[m].copy \/ Stale({move[m].src}))

Finish(m, r, frozen) ==
    /\ move' = [move EXCEPT ![m] = Over(m)]
    /\ win' = [win EXCEPT ![move[m].hwnd].at = r, ![move[m].hwnd].vis = "shown",
                          ![move[m].hwnd].frozen = frozen]
    /\ dcs' = dcs \ {move[m].src}
    /\ ctx' = CtxWithout({move[m].src})
    /\ fault' = (fault \/ ~move[m].copy \/ Stale({move[m].src}))

Start(m) ==
    /\ move[m].listed /\ move[m].state = "READY"
    /\ Generate(m, move[m].old)
    /\ UNCHANGED <<info, calls>>

Draw(m) ==
    /\ move[m].listed /\ move[m].state = "RUNNING"
    /\ \E r \in Places : Generate(m, r)
    /\ UNCHANGED <<info, calls>>

(* The last drawing is at the target, and the animation ends with it. *)
Arrive(m) ==
    /\ move[m].listed /\ move[m].state = "RUNNING"
    /\ Finish(m, move[m].target, win[move[m].hwnd].frozen /\ ~Resized(m, move[m].target))
    /\ UNCHANGED <<info, calls>>

Unlist(m) ==
    /\ move[m].listed /\ move[m].state = "STOPPED"
    /\ move' = [move EXCEPT ![m].listed = FALSE]
    /\ UNCHANGED <<win, ctx, info, calls, dcs, fault>>

(* mGEffAnimationStop and mGEffAnimationDelete by the application. *)
Stop(m) ==
    /\ move[m].state \in {"READY", "RUNNING"} /\ \A k \in Calling : k.move # m
    /\ Finish(m, move[m].new, win[move[m].hwnd].frozen)
    /\ UNCHANGED <<info, calls>>

DeleteMove(m) ==
    /\ move[m].state # "none" /\ \A k \in Calling : k.move # m
    /\ Follows("run_once") => ~move[m].copy
    /\ move' = [move EXCEPT ![m] = NoAnim]
    /\ UNCHANGED <<win, ctx, info, calls, dcs, fault>>
-----------------------------------------------------------------------------
Next ==
    \/ \E c \in Contexts : CreateContext(c) \/ DestroyContext(c) \/ Drop(c)
    \/ \E c \in Contexts, w \in Windows :
          CreateMainWindow(c, w) \/ Hold(c, w) \/ ShowWindow(c, w) \/ HideWindow(c, w)
          \/ PrepareFails(c, w) \/ MoveRefused(c, w)
    \/ \E w \in Windows : Extract(w) \/ PlainCreate(w)
    \/ \E c \in Contexts, w \in Windows, dc \in BOOLEAN : CreateFails(c, w, dc)
    \/ \E i \in 1..MaxDepth : PlayOver(i)
    \/ PlayReturn \/ MoveReturn
    \/ \E m \in Moves, c \in Contexts, w \in Windows, p \in Places :
          Prepare(m, c, w, p) \/ MoveWindow(m, c, w, p)
    \/ \E m \in Moves : AsyncRun(m) \/ Start(m) \/ Draw(m) \/ Arrive(m) \/ Unlist(m) \/ Stop(m)
    \/ \E m \in Moves : DeleteMove(m)

(* Time passes and the schedular's list is gone through, by the timer or   *)
(* by the innermost call: animations come to their end and calls return.   *)
Fairness ==
    /\ \A i \in 1..MaxDepth : WF_vars(PlayOver(i))
    /\ \A m \in Moves : WF_vars(Start(m)) /\ WF_vars(Arrive(m)) /\ WF_vars(Unlist(m))
    /\ WF_vars(PlayReturn) /\ WF_vars(MoveReturn)

Spec == Init /\ [][Next]_vars /\ Fairness
-----------------------------------------------------------------------------
TypeOK ==
    /\ win \in [Windows -> WinType]
    /\ ctx \in [Contexts -> CtxType]
    /\ move \in [Moves -> MoveType]
    /\ info \in [hook : BOOLEAN, data : Contexts \cup {NoCtx}]
    /\ Len(calls) <= MaxDepth
    /\ dcs \subseteq DCs
    /\ fault \in BOOLEAN

(* No DC is deleted twice, no context used after it was freed, and the     *)
(* hook never calls itself: whatever calls the callbacks make inside a     *)
(* call, and whichever of them fail or go on without a picture for lack of *)
(* memory (window-animation.c:213-343, 382-454, 574-617, 646-671).         *)
NoFault == ~fault

(* A window's picture is frozen exactly while it is held, by a context     *)
(* whose mGEffDropWindowForeground lets it go; then its secondary DC is    *)
(* again what the application had given it (window-animation.c:122-207).   *)
FrozenWhileHeld ==
    \A w \in Windows :
        LET held == \E c \in Contexts : Holds(c) /\ ctx[c].hwnd = w IN
        /\ win[w].frozen <=> held
        /\ ~held /\ win[w].live => win[w].sec = SecondaryOf(w)

(* Every memory DC belongs to a call that has yet to return or to a move   *)
(* that has yet to end; nothing else keeps one (window-animation.c:289,    *)
(* 411-434, 581, 614).                                                     *)
NoDCLeft ==
    dcs \subseteq (UNION {{ctx[k.ctx].src, ctx[k.ctx].dst} : k \in {x \in Calling : x.op # "move"}})
                  \cup {move[m].src : m \in {x \in Moves : UnderWay(x)}}

(* A window a move has hidden is shown again, whatever becomes of the move *)
(* (window-animation.c:594-627).                                           *)
ShownAgain == \A w \in Windows : win[w].vis = "moving" ~> win[w].vis # "moving"

(* The context a callback of mGEffShowWindowEx is given names the window   *)
(* that is shown or hidden (include/mgeff-window-animation.h:69).          *)
CallbackSeesWindow ==
    \A k \in Calling : k.op \in {"show", "hide"} => ctx[k.ctx].hwnd = k.win
=============================================================================
