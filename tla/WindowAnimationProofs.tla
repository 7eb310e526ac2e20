------------------------ MODULE WindowAnimationProofs ------------------------
(***************************************************************************)
(* Theorems about WindowAnimation: whatever calls are made inside calls,   *)
(* an application that follows all the rules never makes the library use   *)
(* or free what is not there, keeps every picture frozen as long as it is  *)
(* held and no longer, and leaves no memory DC behind.                     *)
(***************************************************************************)
EXTENDS WindowAnimation, TLAPS

(* The application follows every rule. *)
AllRules == Careful = Rules

-----------------------------------------------------------------------------
(***************************************************************************)
(* The inductive invariant.                                                *)
(***************************************************************************)
InfoType == [hook : BOOLEAN, data : Contexts \cup {NoCtx}]
CallType == [ctx : Contexts, win : Windows, op : {"show", "hide", "move"},
             move : Moves \cup {NoMove}, over : BOOLEAN]

(* The types; and a MAINWINCREATE is filled in for every use.              *)
WTyped == TypeOK /\ calls \in Seq(CallType) /\ info = Filled

(* The memory DCs a context knows. *)
Pictures(c) == {ctx[c].src, ctx[c].dst} \ {Invalid}
Plays(k) == k.op # "move"

(* A window is held by one context, which knows the secondary DC the       *)
(* application has given it.                                               *)
Holding ==
    \A c \in Contexts :
        /\ ctx[c].life # "taken"
        /\ ctx[c].life # "live" => ctx[c].old = "invalid"
        /\ Holds(c) => /\ ctx[c].hwnd \in Windows /\ win[ctx[c].hwnd].live
                       /\ ctx[c].old = SecondaryOf(ctx[c].hwnd)
                       /\ \A d \in Contexts : Holds(d) /\ ctx[d].hwnd = ctx[c].hwnd => d = c

(* A move that is under way has a picture of its own, or HDC_INVALID, of a *)
(* window that is not held.                                                *)
MovesOK ==
    \A m \in Moves :
        /\ move[m].state \in {"READY", "RUNNING"} => move[m].copy /\ move[m].listed
        /\ move[m].state = "none" => ~move[m].copy /\ ~move[m].listed
        /\ UnderWay(m) => /\ move[m].hwnd \in Windows /\ move[m].src \in dcs \cup {Invalid}
                          /\ \A c \in Contexts : Holds(c) => ctx[c].hwnd # move[m].hwnd
                          /\ \A n \in Moves : UnderWay(n) /\ move[n].src = move[m].src =>
                                n = m \/ move[m].src = Invalid

(* A waiting call has its context, which holds nothing, and its pictures,  *)
(* or its move, which runs or is over.                                     *)
CallOK(k) ==
    /\ ctx[k.ctx].life = "live" /\ ctx[k.ctx].old = "invalid"
    /\ Plays(k) => /\ Pictures(k.ctx) \subseteq dcs
                   /\ \A m \in Moves : UnderWay(m) => move[m].src \notin Pictures(k.ctx)
    /\ ~Plays(k) => /\ k.move \in Moves /\ move[k.move].state # "none"
                    /\ move[k.move].copy => move[k.move].state # "STOPPED"

CallsOK == \A i \in DOMAIN calls : CallOK(calls[i])

(* No two calls share anything. *)
Disjoint(j, k) ==
    /\ j.ctx # k.ctx
    /\ Plays(j) /\ Plays(k) => Pictures(j.ctx) \cap Pictures(k.ctx) = {}
    /\ ~Plays(j) /\ ~Plays(k) => j.move # k.move

Apart == \A i, j \in DOMAIN calls : i # j => Disjoint(calls[i], calls[j])

(* Who a memory DC belongs to. *)
Owned(d) ==
    \/ \E i \in DOMAIN calls : Plays(calls[i]) /\ d \in Pictures(calls[i].ctx)
    \/ \E m \in Moves : UnderWay(m) /\ move[m].src = d

AllOwned == \A d \in dcs : Owned(d)

WInv == /\ WTyped /\ Holding /\ FrozenWhileHeld
        /\ MovesOK /\ CallsOK /\ Apart /\ AllOwned /\ NoFault

-----------------------------------------------------------------------------
(***************************************************************************)
(* Types, memory DCs and the stack of calls.                               *)
(***************************************************************************)
LEMMA RulesAre ==
    ASSUME AllRules
    PROVE  /\ Follows("fresh_info") /\ Follows("one_context") /\ Follows("one_window")
           /\ Follows("false_is_gone") /\ Follows("run_once")
BY DEF AllRules, Rules, Follows

LEMMA NothingIs ==
    /\ SomePlace \in Places
    /\ NoWindow \in WinType /\ NoContext \in CtxType /\ NoAnim \in MoveType
<1>1. SomePlace \in Places
    BY PlacesAssumption DEF SomePlace
<1> QED
    BY <1>1 DEF NoWindow, NoContext, NoAnim, WinType, CtxType, MoveType

LEMMA CreatedIs ==
    ASSUME NEW w \in Windows
    PROVE  /\ Created(w) \in WinType /\ Created(w).live /\ ~Created(w).frozen
           /\ Created(w).sec = SecondaryOf(w)
<1>1. SecondaryOf(w) \in {"none", "own"}
    BY DEF SecondaryOf
<1> DEFINE s == SecondaryOf(w)
<1>2. Created(w) = [NoWindow EXCEPT !.live = TRUE, !.sec = s, !.vis = "shown"]
    BY DEF Created
<1> HIDE DEF s
<1>3. /\ Created(w) \in WinType /\ Created(w).live /\ ~Created(w).frozen /\ Created(w).sec = s
    BY <1>1, <1>2, NothingIs DEF WinType, NoWindow, s
<1> QED
    BY <1>3 DEF s

LEMMA NotDCs == NoDC \notin DCs /\ Invalid \notin DCs /\ NoDC # Invalid
BY NoneAssumption DEF DCs

(* The memory DCs of two pictures are new ones.                            *)
LEMMA TwoPictures ==
    ASSUME WTyped, NEW src \in MaybeDC(dcs), NEW dst \in MaybeDC(dcs \cup {src})
    PROVE  /\ src \in DCs \cup {Invalid} /\ src \notin dcs
           /\ dst \in DCs \cup {Invalid} /\ dst \notin dcs
           /\ Made({src, dst}) = {src, dst} \ {Invalid}
           /\ dcs \cup Made({src, dst}) \subseteq DCs
BY NotDCs DEF MaybeDC, NextDC, Made, WTyped, TypeOK

LEMMA CallIs ==
    ASSUME NEW c \in Contexts, NEW w \in Windows, NEW op \in {"show", "hide", "move"},
           NEW m \in Moves \cup {NoMove}
    PROVE  /\ Call(c, w, op, m) \in CallType
           /\ Call(c, w, op, m).ctx = c /\ Call(c, w, op, m).op = op
           /\ Call(c, w, op, m).move = m
BY DEF Call, CallType

(* A call that waits, inside of those that do. *)
LEMMA AppendIs ==
    ASSUME NEW k \in CallType, WTyped, MayCall
    PROVE  /\ Append(calls, k) \in Seq(CallType) /\ Len(Append(calls, k)) <= MaxDepth
           /\ Append(calls, k)[Len(calls) + 1] = k
           /\ DOMAIN Append(calls, k) = DOMAIN calls \cup {Len(calls) + 1}
           /\ Len(calls) + 1 \notin DOMAIN calls
           /\ \A i \in DOMAIN calls : Append(calls, k)[i] = calls[i]
<1>1. calls \in Seq(CallType) /\ Len(calls) \in Nat /\ DOMAIN calls = 1..Len(calls)
    BY DEF WTyped
<1>2. Len(calls) + 1 <= MaxDepth
    BY <1>1, BoundsAssumption DEF MayCall
<1> QED
    BY <1>1, <1>2

(* The innermost call returns. *)
LEMMA ReturnIs ==
    ASSUME WTyped, calls # <<>>
    PROVE  /\ Len(calls) \in DOMAIN calls /\ calls[Len(calls)] \in CallType
           /\ Return \in Seq(CallType) /\ Len(Return) <= MaxDepth
           /\ DOMAIN Return = DOMAIN calls \ {Len(calls)}
           /\ \A i \in DOMAIN Return : Return[i] = calls[i]
<1> DEFINE n == Len(calls)
<1>1. calls \in Seq(CallType) /\ n \in Nat /\ DOMAIN calls = 1..n /\ n # 0 /\ n <= MaxDepth
    BY DEF WTyped, TypeOK
<1>2. /\ Return \in Seq(CallType) /\ Len(Return) = n - 1
      /\ \A i \in 1..(n - 1) : Return[i] = calls[i]
    BY <1>1 DEF Return
<1>3. DOMAIN Return = 1..(n - 1)
    BY <1>2
<1>4. 1..(n - 1) = (1..n) \ {n} /\ n - 1 <= MaxDepth
    BY <1>1, BoundsAssumption
<1> QED
    BY <1>1, <1>2, <1>3, <1>4

LEMMA CallsAre ==
    ASSUME WTyped
    PROVE  /\ \A i \in DOMAIN calls : calls[i] \in CallType /\ calls[i].ctx \in Contexts
           /\ \A i \in DOMAIN calls : calls[i] \in Calling
<1>1. \A i \in DOMAIN calls : calls[i] \in CallType
    BY DEF WTyped
<1>2. \A i \in DOMAIN calls : calls[i] \in Calling
    BY DEF Calling
<1> QED
    BY <1>1, <1>2 DEF CallType

LEMMA TypesAre ==
    ASSUME WTyped
    PROVE  /\ win \in [Windows -> WinType] /\ ctx \in [Contexts -> CtxType]
           /\ move \in [Moves -> MoveType] /\ info \in InfoType /\ dcs \subseteq DCs
           /\ \A c \in Contexts : ctx[c] \in CtxType
           /\ \A w \in Windows : win[w] \in WinType
           /\ \A m \in Moves : move[m] \in MoveType
           /\ calls \in Seq(CallType) /\ Len(calls) <= MaxDepth
BY DEF WTyped, TypeOK, InfoType

LEMMA WInit == Init => WInv
<1> SUFFICES ASSUME Init
             PROVE  WInv
    OBVIOUS
<1>1. /\ win = [w \in Windows |-> NoWindow] /\ ctx = [c \in Contexts |-> NoContext]
      /\ move = [m \in Moves |-> NoAnim] /\ info = Filled /\ calls = <<>> /\ dcs = {}
      /\ fault = FALSE
    BY DEF Init
<1>2. /\ \A w \in Windows : ~win[w].live /\ ~win[w].frozen
      /\ \A c \in Contexts : ctx[c].life = "none" /\ ctx[c].old = "invalid"
      /\ \A m \in Moves : move[m].state = "none" /\ ~move[m].copy /\ ~move[m].listed
    BY <1>1 DEF NoWindow, NoContext, NoAnim
<1>3. /\ win \in [Windows -> WinType] /\ ctx \in [Contexts -> CtxType]
      /\ move \in [Moves -> MoveType]
    BY <1>1, NothingIs
<1>4. WTyped
    <2>1. calls \in Seq(CallType) /\ Len(calls) = 0 /\ Len(calls) <= MaxDepth
        BY <1>1, BoundsAssumption
    <2> QED
        BY <1>1, <1>3, <2>1 DEF WTyped, TypeOK, Filled
<1>5. Holding /\ FrozenWhileHeld
    BY <1>2 DEF Holding, Holds, FrozenWhileHeld
<1>6. MovesOK
    BY <1>2 DEF MovesOK, UnderWay
<1>7. CallsOK /\ Apart /\ AllOwned /\ NoFault
    BY <1>1 DEF CallsOK, Apart, AllOwned, NoFault
<1> QED
    BY <1>4, <1>5, <1>6, <1>7 DEF WInv

-----------------------------------------------------------------------------
(***************************************************************************)
(* What a step leaves alone.                                               *)
(***************************************************************************)
(* Windows are held by whom they were.                                     *)
SameHolders ==
    \A c \in Contexts :
        /\ ctx'[c].life # "taken"
        /\ ctx'[c].life # "live" => ctx'[c].old = "invalid"
        /\ Holds(c)' <=> Holds(c)
        /\ Holds(c) => ctx'[c].hwnd = ctx[c].hwnd /\ ctx'[c].old = ctx[c].old

(* A window is as frozen as before, or not frozen and not held; it has the *)
(* secondary DC it had, or is a new one.                                   *)
SameFreeze(w) ==
    /\ \/ win'[w].frozen = win[w].frozen
       \/ ~win'[w].frozen /\ \A c \in Contexts : Holds(c) => ctx[c].hwnd # w
    /\ \/ win'[w].live = win[w].live /\ win'[w].sec = win[w].sec
       \/ ~win[w].live /\ win'[w].live /\ win'[w].sec = SecondaryOf(w)

LEMMA HoldingStays ==
    ASSUME WTyped, Holding, FrozenWhileHeld, SameHolders, \A w \in Windows : SameFreeze(w)
    PROVE  Holding' /\ FrozenWhileHeld'
<1>1. Holding'
    <2> SUFFICES ASSUME NEW c \in Contexts
                 PROVE  /\ ctx'[c].life # "taken"
                        /\ ctx'[c].life # "live" => ctx'[c].old = "invalid"
                        /\ Holds(c)' =>
                              /\ ctx'[c].hwnd \in Windows /\ win'[ctx'[c].hwnd].live
                              /\ ctx'[c].old = SecondaryOf(ctx'[c].hwnd)
                              /\ \A d \in Contexts :
                                    Holds(d)' /\ ctx'[d].hwnd = ctx'[c].hwnd => d = c
        BY DEF Holding
    <2>1. Holds(c) => /\ ctx[c].hwnd \in Windows /\ win[ctx[c].hwnd].live
                      /\ ctx[c].old = SecondaryOf(ctx[c].hwnd)
                      /\ \A d \in Contexts : Holds(d) /\ ctx[d].hwnd = ctx[c].hwnd => d = c
        BY DEF Holding
    <2>2. Holds(c) => win'[ctx[c].hwnd].live
        BY <2>1 DEF SameFreeze
    <2> QED
        BY <2>1, <2>2 DEF SameHolders
<1>2. ASSUME NEW w \in Windows
      PROVE  /\ win'[w].frozen <=> \E c \in Contexts : Holds(c)' /\ ctx'[c].hwnd = w
             /\ ~(\E c \in Contexts : Holds(c)' /\ ctx'[c].hwnd = w) /\ win'[w].live
                   => win'[w].sec = SecondaryOf(w)
    <2>1. (\E c \in Contexts : Holds(c)' /\ ctx'[c].hwnd = w)
             <=> \E c \in Contexts : Holds(c) /\ ctx[c].hwnd = w
        BY DEF SameHolders
    <2>2. /\ win[w].frozen <=> \E c \in Contexts : Holds(c) /\ ctx[c].hwnd = w
          /\ ~(\E c \in Contexts : Holds(c) /\ ctx[c].hwnd = w) /\ win[w].live
                => win[w].sec = SecondaryOf(w)
        BY DEF FrozenWhileHeld
    <2>3. SameFreeze(w)
        BY <1>2
    <2> QED
        BY <2>1, <2>2, <2>3 DEF SameFreeze
<1> QED
    BY <1>1, <1>2 DEF FrozenWhileHeld

LEMMA MovesStay ==
    ASSUME MovesOK, SameHolders, move' = move, dcs \subseteq dcs'
    PROVE  MovesOK'
<1>1. \A m \in Moves : UnderWay(m)' <=> UnderWay(m)
    BY DEF UnderWay
<1> QED
    BY <1>1 DEF MovesOK, SameHolders

(* No call begins or returns, and no context of one is touched.            *)
LEMMA CallsStay ==
    ASSUME WInv, UNCHANGED <<move, calls, dcs>>,
           \A i \in DOMAIN calls : ctx'[calls[i].ctx] = ctx[calls[i].ctx]
    PROVE  CallsOK' /\ Apart' /\ AllOwned'
<1>1. \A m \in Moves : UnderWay(m)' <=> UnderWay(m)
    BY DEF UnderWay
<1>2. CallsOK'
    <2> SUFFICES ASSUME NEW i \in DOMAIN calls
                 PROVE  CallOK(calls[i])'
        BY DEF CallsOK
    <2> DEFINE k == calls[i]
    <2>1. CallOK(k) /\ ctx'[k.ctx] = ctx[k.ctx]
        BY DEF WInv, CallsOK
    <2>2. k' = k
        OBVIOUS
    <2> HIDE DEF k
    <2>3. CallOK(k)'
        BY <1>1, <2>1, <2>2 DEF CallOK, Pictures, Plays
    <2> QED
        BY <2>3 DEF k
<1>3. Apart'
    BY DEF WInv, Apart, Disjoint, Pictures, Plays
<1>4. AllOwned'
    BY <1>1 DEF WInv, AllOwned, Owned, Pictures, Plays
<1> QED
    BY <1>2, <1>3, <1>4

(* Contexts and windows change that are in no call and hold nothing.       *)
LEMMA NothingBegins ==
    ASSUME WInv, WTyped', ~fault', UNCHANGED <<move, calls, dcs>>,
           \A c \in Contexts :
               \/ ctx'[c] = ctx[c]
               \/ /\ IdleCtx(c)
                  /\ ctx'[c].old = "invalid" /\ ctx'[c].life # "taken",
           \A w \in Windows : SameFreeze(w)
    PROVE  WInv'
<1>1. SameHolders
    BY DEF SameHolders, WInv, Holding, Holds, IdleCtx
<1>2. Holding' /\ FrozenWhileHeld' /\ MovesOK'
    BY <1>1, HoldingStays, MovesStay DEF WInv
<1>3. \A i \in DOMAIN calls : ctx'[calls[i].ctx] = ctx[calls[i].ctx]
    BY CallsAre DEF WInv, IdleCtx
<1>4. CallsOK' /\ Apart' /\ AllOwned'
    BY <1>3, CallsStay
<1> QED
    BY <1>2, <1>4 DEF WInv, NoFault

-----------------------------------------------------------------------------
(***************************************************************************)
(* Contexts, holds and windows.                                            *)
(***************************************************************************)
LEMMA MayUseIs ==
    ASSUME AllRules, WInv, NEW c \in Contexts, NEW w \in Windows, MayUse(c, w)
    PROVE  /\ ctx[c].life = "live" /\ IdleCtx(c) /\ ctx[c].old = "invalid"
           /\ IdleWin(w)
           /\ \A d \in Contexts : Holds(d) => ctx[d].hwnd # w
BY RulesAre DEF MayUse, Usable, WInv, Holding, IdleCtx, IdleWin, Holds

(* The other contexts are not touched.                                     *)
LEMMA OneContext ==
    ASSUME WTyped, NEW c \in Contexts, NEW x \in CtxType, ctx' = [ctx EXCEPT ![c] = x]
    PROVE  /\ ctx' \in [Contexts -> CtxType] /\ ctx'[c] = x
           /\ \A d \in Contexts : d # c => ctx'[d] = ctx[d]
BY TypesAre

LEMMA OneWindow ==
    ASSUME WTyped, NEW w \in Windows, NEW x \in WinType, win' = [win EXCEPT ![w] = x]
    PROVE  /\ win' \in [Windows -> WinType] /\ win'[w] = x
           /\ \A v \in Windows : v # w => win'[v] = win[v]
BY TypesAre

LEMMA WindowsKept ==
    ASSUME win' = win
    PROVE  \A w \in Windows : SameFreeze(w)
BY DEF SameFreeze

LEMMA CreateContextKeeps ==
    ASSUME AllRules, WInv, NEW c \in Contexts, CreateContext(c)
    PROVE  WInv'
<1> DEFINE x == [NoContext EXCEPT !.life = "live"]
<1>1. WTyped /\ UNCHANGED <<win, move, info, calls, dcs, fault>> /\ ctx' = [ctx EXCEPT ![c] = x]
    BY DEF CreateContext, WInv
<1>2. x \in CtxType /\ x.old = "invalid" /\ x.life = "live"
    BY NothingIs DEF NoContext, CtxType
<1> HIDE DEF x
<1>3. ctx' \in [Contexts -> CtxType] /\ ctx'[c] = x /\ \A d \in Contexts : d # c => ctx'[d] = ctx[d]
    BY <1>1, <1>2, OneContext
<1>4. WTyped' /\ ~fault'
    BY <1>1, <1>3 DEF WInv, WTyped, TypeOK, NoFault
<1>5. IdleCtx(c)
    BY DEF CreateContext, IdleCtx, Holds
<1> QED
    BY <1>1, <1>2, <1>3, <1>4, <1>5, NothingBegins, WindowsKept

LEMMA DestroyContextKeeps ==
    ASSUME AllRules, WInv, NEW c \in Contexts, DestroyContext(c)
    PROVE  WInv'
<1> DEFINE x == [NoContext EXCEPT !.life = "freed"]
<1>1. /\ WTyped /\ UNCHANGED <<win, move, info, calls, dcs>> /\ ctx' = [ctx EXCEPT ![c] = x]
      /\ fault' = (fault \/ ctx[c].life = "taken")
    BY DEF DestroyContext, WInv
<1>2. x \in CtxType /\ x.old = "invalid" /\ x.life = "freed"
    BY NothingIs DEF NoContext, CtxType
<1> HIDE DEF x
<1>3. ctx' \in [Contexts -> CtxType] /\ ctx'[c] = x /\ \A d \in Contexts : d # c => ctx'[d] = ctx[d]
    BY <1>1, <1>2, OneContext
<1>4. WTyped' /\ ~fault'
    BY <1>1, <1>3 DEF WInv, WTyped, TypeOK, NoFault, Holding
<1>5. IdleCtx(c)
    BY RulesAre DEF DestroyContext
<1> QED
    BY <1>1, <1>2, <1>3, <1>4, <1>5, NothingBegins, WindowsKept

LEMMA ForegroundIs ==
    ASSUME AllRules, WInv, NEW c \in Contexts, NEW w \in Windows, NEW set \in BOOLEAN,
           MayUse(c, w), win' = [win EXCEPT ![w] = Foreground(w, set)]
    PROVE  win' \in [Windows -> WinType] /\ \A v \in Windows : SameFreeze(v)
<1> DEFINE x == Foreground(w, set)
<1>1. WTyped /\ win[w] \in WinType
    BY TypesAre DEF WInv
<1>2. x \in WinType /\ ~x.frozen /\ x.live = win[w].live /\ x.sec = win[w].sec
    BY <1>1 DEF Foreground, WinType
<1> HIDE DEF x
<1>3. /\ win' \in [Windows -> WinType] /\ win'[w] = x
      /\ \A v \in Windows : v # w => win'[v] = win[v]
    BY <1>1, <1>2, OneWindow DEF x
<1>4. \A d \in Contexts : Holds(d) => ctx[d].hwnd # w
    BY MayUseIs
<1> QED
    BY <1>2, <1>3, <1>4 DEF SameFreeze

LEMMA MoveRefusedKeeps ==
    ASSUME AllRules, WInv, NEW c \in Contexts, NEW w \in Windows, MoveRefused(c, w)
    PROVE  WInv'
<1> DEFINE x == [NoContext EXCEPT !.life = "freed"]
<1>1. /\ WTyped /\ UNCHANGED <<move, info, calls, dcs>> /\ ctx' = [ctx EXCEPT ![c] = x]
      /\ fault' = (fault \/ ctx[c].life # "live") /\ MayUse(c, w)
      /\ win' = win \/ win' = [win EXCEPT ![w] = Foreground(w, FALSE)]
    BY RulesAre DEF MoveRefused, WInv
<1>2. x \in CtxType /\ x.old = "invalid" /\ x.life = "freed"
    BY NothingIs DEF NoContext, CtxType
<1> HIDE DEF x
<1>3. ctx' \in [Contexts -> CtxType] /\ ctx'[c] = x /\ \A d \in Contexts : d # c => ctx'[d] = ctx[d]
    BY <1>1, <1>2, OneContext
<1>4. IdleCtx(c) /\ ctx[c].life = "live"
    BY <1>1, MayUseIs
<1>5. win' \in [Windows -> WinType] /\ \A v \in Windows : SameFreeze(v)
    <2>1. CASE win' = win
        BY <1>1, <2>1, TypesAre, WindowsKept
    <2>2. CASE win' = [win EXCEPT ![w] = Foreground(w, FALSE)]
        <3>1. FALSE \in BOOLEAN
            OBVIOUS
        <3> QED
            BY <1>1, <2>2, <3>1, ForegroundIs
    <2> QED
        BY <1>1, <2>1, <2>2
<1>6. WTyped' /\ ~fault'
    BY <1>1, <1>3, <1>4, <1>5 DEF WInv, WTyped, TypeOK, NoFault
<1> QED
    BY <1>1, <1>2, <1>3, <1>4, <1>5, <1>6, NothingBegins

(* A context forgets its picture. *)
LEMMA ForgetsPicture ==
    ASSUME AllRules, WInv, NEW c \in Contexts, NEW w \in Windows, MayUse(c, w),
           ctx' = [ctx EXCEPT ![c].src = NoDC]
    PROVE  /\ ctx' \in [Contexts -> CtxType] /\ ctx[c].life = "live" /\ IdleCtx(c)
           /\ ctx'[c].old = "invalid" /\ ctx'[c].life = "live"
           /\ \A d \in Contexts : d # c => ctx'[d] = ctx[d]
<1> DEFINE x == [ctx[c] EXCEPT !.src = NoDC]
<1>1. WTyped
    BY DEF WInv
<1>2. IdleCtx(c) /\ ctx[c].life = "live" /\ ctx[c].old = "invalid" /\ ctx[c] \in CtxType
    BY <1>1, MayUseIs, TypesAre
<1>3. x \in CtxType /\ x.old = "invalid" /\ x.life = "live"
    BY <1>2 DEF CtxType
<1>4. ctx' = [ctx EXCEPT ![c] = x]
    BY <1>1, TypesAre
<1> HIDE DEF x
<1> QED
    BY <1>1, <1>2, <1>3, <1>4, OneContext

LEMMA PrepareFailsKeeps ==
    ASSUME AllRules, WInv, NEW c \in Contexts, NEW w \in Windows, PrepareFails(c, w)
    PROVE  WInv'
<1>1. /\ WTyped /\ UNCHANGED <<move, info, calls, dcs>> /\ MayUse(c, w)
      /\ ctx' = [ctx EXCEPT ![c].src = NoDC]
      /\ win' = [win EXCEPT ![w] = Foreground(w, FALSE)]
      /\ fault' = (fault \/ ctx[c].life # "live")
    BY DEF PrepareFails, WInv
<1>2. /\ ctx' \in [Contexts -> CtxType] /\ ctx[c].life = "live" /\ IdleCtx(c)
      /\ ctx'[c].old = "invalid" /\ ctx'[c].life = "live"
      /\ \A d \in Contexts : d # c => ctx'[d] = ctx[d]
    BY <1>1, ForgetsPicture
<1>3. win' \in [Windows -> WinType] /\ \A v \in Windows : SameFreeze(v)
    <2>1. FALSE \in BOOLEAN
        OBVIOUS
    <2> QED
        BY <1>1, <2>1, ForegroundIs
<1>4. WTyped' /\ ~fault'
    BY <1>1, <1>2, <1>3 DEF WInv, WTyped, TypeOK, NoFault
<1> QED
    BY <1>1, <1>2, <1>3, <1>4, NothingBegins

LEMMA CreateFailsKeeps ==
    ASSUME AllRules, WInv, NEW c \in Contexts, NEW w \in Windows, NEW dc \in BOOLEAN,
           CreateFails(c, w, dc)
    PROVE  WInv'
<1> DEFINE x == [Hooked(c) EXCEPT !.src = NoDC]
<1>1. /\ WTyped /\ UNCHANGED <<win, move, calls, dcs>> /\ ctx' = [ctx EXCEPT ![c] = x]
      /\ fault' = (fault \/ ctx[c].life # "live") /\ info' = Filled
    BY RulesAre DEF CreateFails, WInv, NextInfo
<1>2. IdleCtx(c) /\ ctx[c].life = "live" /\ info \in InfoType /\ ctx[c] \in CtxType
    BY <1>1, MayUseIs, TypesAre DEF CreateFails, MayCreate
<1>3. x \in CtxType /\ x.old = "invalid" /\ x.life = "live"
    BY <1>2 DEF Hooked, CtxType, InfoType
<1> HIDE DEF x
<1>4. ctx' \in [Contexts -> CtxType] /\ ctx'[c] = x /\ \A d \in Contexts : d # c => ctx'[d] = ctx[d]
    BY <1>1, <1>3, OneContext
<1>5. WTyped' /\ ~fault'
    BY <1>1, <1>2, <1>4 DEF WInv, WTyped, TypeOK, NoFault, Filled
<1> QED
    BY <1>1, <1>2, <1>3, <1>4, <1>5, NothingBegins, WindowsKept

LEMMA ExtractKeeps ==
    ASSUME AllRules, WInv, NEW w \in Windows, Extract(w)
    PROVE  WInv'
<1> DEFINE x == [win[w] EXCEPT !.frozen = FALSE]
<1>1. WTyped /\ UNCHANGED <<ctx, move, info, calls, dcs, fault>> /\ win' = [win EXCEPT ![w] = x]
    BY DEF Extract, WInv
<1>2. x \in WinType /\ ~x.frozen /\ x.live = win[w].live /\ x.sec = win[w].sec
    BY <1>1, TypesAre DEF WinType
<1> HIDE DEF x
<1>3. win' \in [Windows -> WinType] /\ win'[w] = x /\ \A v \in Windows : v # w => win'[v] = win[v]
    BY <1>1, <1>2, OneWindow
<1>4. \A c \in Contexts : Holds(c) => ctx[c].hwnd # w
    BY RulesAre DEF Extract, IdleWin
<1>5. \A v \in Windows : SameFreeze(v)
    BY <1>2, <1>3, <1>4 DEF SameFreeze
<1>6. WTyped' /\ ~fault'
    BY <1>1, <1>3 DEF WInv, WTyped, TypeOK, NoFault
<1> QED
    BY <1>1, <1>5, <1>6, NothingBegins

(* A window that does not exist yet is held by nobody.                     *)
LEMMA NewWindow ==
    ASSUME WInv, NEW w \in Windows, ~win[w].live, win' = [win EXCEPT ![w] = Created(w)]
    PROVE  /\ win' \in [Windows -> WinType]
           /\ \A v \in Windows : SameFreeze(v)
<1>1. WTyped
    BY DEF WInv
<1>2. /\ win' \in [Windows -> WinType] /\ win'[w] = Created(w)
      /\ \A v \in Windows : v # w => win'[v] = win[v]
    BY <1>1, CreatedIs, OneWindow
<1>3. \A c \in Contexts : Holds(c) => ctx[c].hwnd # w
    BY DEF WInv, Holding
<1> QED
    BY <1>2, <1>3, CreatedIs DEF SameFreeze

LEMMA PlainCreateKeeps ==
    ASSUME AllRules, WInv, NEW w \in Windows, PlainCreate(w)
    PROVE  WInv'
<1>1. /\ WTyped /\ ~win[w].live /\ win' = [win EXCEPT ![w] = Created(w)] /\ info = Filled
      /\ UNCHANGED <<ctx, move, info, calls, dcs>>
      /\ ~info.hook => fault' = fault
    BY DEF PlainCreate, WInv, WTyped, TypeOK
<1>2. win' \in [Windows -> WinType] /\ \A v \in Windows : SameFreeze(v)
    BY <1>1, NewWindow
<1>3. ~info.hook
    BY <1>1 DEF Filled
<1>4. WTyped' /\ ~fault'
    BY <1>1, <1>2, <1>3 DEF WInv, WTyped, TypeOK, NoFault
<1> QED
    BY <1>1, <1>2, <1>4, NothingBegins

LEMMA HoldKeeps ==
    ASSUME AllRules, WInv, NEW c \in Contexts, NEW w \in Windows, Hold(c, w)
    PROVE  WInv'
<1>1. /\ WTyped /\ win[w].live /\ MayUse(c, w) /\ UNCHANGED <<move, info, calls, dcs>>
      /\ fault' = (fault \/ ctx[c].life # "live")
    BY DEF Hold, WInv
<1>2. /\ ctx[c].life = "live" /\ IdleCtx(c) /\ IdleWin(w) /\ ctx[c].old = "invalid"
      /\ \A d \in Contexts : Holds(d) => ctx[d].hwnd # w
    BY <1>1, MayUseIs
<1> DEFINE s == win[w].sec
           t == IF s = "none" THEN "lib" ELSE s
           x == [ctx[c] EXCEPT !.hwnd = w, !.old = s]
           y == [win[w] EXCEPT !.frozen = TRUE, !.sec = t]
<1>3. ctx[c] \in CtxType /\ win[w] \in WinType
    BY <1>1, TypesAre
<1>4. s = SecondaryOf(w)
    BY <1>1, <1>2 DEF WInv, FrozenWhileHeld
<1>5. s \in {"none", "own"} /\ t \in {"lib", "own"}
    BY <1>4 DEF SecondaryOf
<1>6. /\ ctx' = [ctx EXCEPT ![c] = x]
      /\ win' = [win EXCEPT ![w] = y]
    BY <1>1, <1>2, TypesAre DEF Hold
<1> HIDE DEF s, t
<1>7. x \in CtxType /\ x.hwnd = w /\ x.old = s /\ x.life = "live"
    BY <1>2, <1>3, <1>5 DEF CtxType
<1>8. y \in WinType /\ y.frozen /\ y.live /\ y.sec = t
    BY <1>1, <1>3, <1>5 DEF WinType
<1> HIDE DEF x, y
<1>9. /\ ctx' \in [Contexts -> CtxType] /\ ctx'[c] = x
      /\ \A d \in Contexts : d # c => ctx'[d] = ctx[d]
    BY <1>1, <1>6, <1>7, OneContext
<1>10. /\ win' \in [Windows -> WinType] /\ win'[w] = y
       /\ \A v \in Windows : v # w => win'[v] = win[v]
    BY <1>1, <1>6, <1>8, OneWindow
<1>11. WTyped' /\ NoFault'
    BY <1>1, <1>2, <1>9, <1>10 DEF WInv, WTyped, TypeOK, NoFault
<1>12. /\ Holds(c)'
       /\ \A d \in Contexts : d # c => (Holds(d)' <=> Holds(d)) /\ ctx'[d].hwnd = ctx[d].hwnd
    BY <1>5, <1>7, <1>9 DEF Holds
<1>13. Holding'
    <2> SUFFICES ASSUME NEW d \in Contexts
                 PROVE  /\ ctx'[d].life # "taken"
                        /\ ctx'[d].life # "live" => ctx'[d].old = "invalid"
                        /\ Holds(d)' =>
                              /\ ctx'[d].hwnd \in Windows /\ win'[ctx'[d].hwnd].live
                              /\ ctx'[d].old = SecondaryOf(ctx'[d].hwnd)
                              /\ \A e \in Contexts :
                                    Holds(e)' /\ ctx'[e].hwnd = ctx'[d].hwnd => e = d
        BY DEF Holding
    <2>1. CASE d = c
        BY <1>2, <1>4, <1>7, <1>8, <1>9, <1>10, <1>12, <2>1
    <2>2. CASE d # c
        <3>1. ctx'[d] = ctx[d] /\ (Holds(d)' <=> Holds(d)) /\ (Holds(d) => ctx[d].hwnd # w)
            BY <1>2, <1>9, <1>12, <2>2
        <3>2. /\ ctx[d].life # "taken"
              /\ ctx[d].life # "live" => ctx[d].old = "invalid"
              /\ Holds(d) => /\ ctx[d].hwnd \in Windows /\ win[ctx[d].hwnd].live
                             /\ ctx[d].old = SecondaryOf(ctx[d].hwnd)
                             /\ \A e \in Contexts : Holds(e) /\ ctx[e].hwnd = ctx[d].hwnd => e = d
            BY DEF WInv, Holding
        <3> QED
            BY <1>7, <1>9, <1>10, <1>12, <3>1, <3>2
    <2> QED
        BY <2>1, <2>2
<1>14. FrozenWhileHeld'
    <2> SUFFICES ASSUME NEW v \in Windows
                 PROVE  /\ win'[v].frozen <=> \E d \in Contexts : Holds(d)' /\ ctx'[d].hwnd = v
                        /\ ~(\E d \in Contexts : Holds(d)' /\ ctx'[d].hwnd = v) /\ win'[v].live
                              => win'[v].sec = SecondaryOf(v)
        BY DEF FrozenWhileHeld
    <2>1. CASE v = w
        BY <1>7, <1>8, <1>9, <1>10, <1>12, <2>1
    <2>2. CASE v # w
        <3>1. win'[v] = win[v] /\ ctx'[c].hwnd # v /\ ~Holds(c)
            BY <1>2, <1>7, <1>9, <1>10, <2>2 DEF Holds
        <3>2. (\E d \in Contexts : Holds(d)' /\ ctx'[d].hwnd = v)
                 <=> \E d \in Contexts : Holds(d) /\ ctx[d].hwnd = v
            BY <1>12, <3>1
        <3> QED
            BY <3>1, <3>2 DEF WInv, FrozenWhileHeld
    <2> QED
        BY <2>1, <2>2
<1>15. MovesOK'
    <2>1. \A m \in Moves : UnderWay(m)' <=> UnderWay(m)
        BY <1>1 DEF UnderWay
    <2>2. \A m \in Moves : UnderWay(m) => move[m].hwnd # w
        BY <1>2 DEF IdleWin
    <2> QED
        BY <1>1, <1>7, <1>9, <1>12, <2>1, <2>2 DEF WInv, MovesOK
<1>16. \A i \in DOMAIN calls : ctx'[calls[i].ctx] = ctx[calls[i].ctx]
    BY <1>1, <1>2, <1>9, CallsAre DEF IdleCtx
<1>17. CallsOK' /\ Apart' /\ AllOwned'
    BY <1>1, <1>16, CallsStay
<1> QED
    BY <1>11, <1>13, <1>14, <1>15, <1>17 DEF WInv

LEMMA DropKeeps ==
    ASSUME AllRules, WInv, NEW c \in Contexts, Drop(c)
    PROVE  WInv'
<1> DEFINE w == ctx[c].hwnd
           o == ctx[c].old
           x == [ctx[c] EXCEPT !.old = "invalid"]
           y == [win[w] EXCEPT !.frozen = FALSE, !.sec = o]
<1>1. /\ WTyped /\ ctx[c].life = "live" /\ Holds(c) /\ w \in Windows
      /\ fault' = (fault \/ ctx[c].life # "live") /\ UNCHANGED <<move, info, calls, dcs>>
    BY RulesAre DEF Drop, Usable, Holds, WInv
<1>2. \/ ctx' = [ctx EXCEPT ![c] = x] /\ win' = [win EXCEPT ![w] = y]
      \/ UNCHANGED <<win, ctx>>
    BY <1>1, TypesAre DEF Drop
<1>3. ctx[c] \in CtxType /\ win[w] \in WinType
    BY <1>1, TypesAre
<1>4. /\ win[w].live /\ o = SecondaryOf(w)
      /\ \A d \in Contexts : Holds(d) /\ ctx[d].hwnd = w => d = c
    BY <1>1 DEF WInv, Holding
<1>5. o \in {"none", "own"}
    BY <1>4 DEF SecondaryOf
<1> HIDE DEF w, o
<1>6. x \in CtxType /\ x.hwnd = w /\ x.old = "invalid" /\ x.life = "live"
    BY <1>1, <1>3 DEF CtxType, w
<1>7. y \in WinType /\ ~y.frozen /\ y.live /\ y.sec = o
    BY <1>3, <1>4, <1>5 DEF WinType
<1> HIDE DEF x, y
<1>8. CASE UNCHANGED <<win, ctx>>
    <2>1. WTyped' /\ ~fault'
        BY <1>1, <1>8 DEF WInv, WTyped, TypeOK, NoFault
    <2> QED
        BY <1>1, <1>8, <2>1, NothingBegins, WindowsKept
<1>9. CASE ctx' = [ctx EXCEPT ![c] = x] /\ win' = [win EXCEPT ![w] = y]
    <2>1. /\ ctx' \in [Contexts -> CtxType] /\ ctx'[c] = x
          /\ \A d \in Contexts : d # c => ctx'[d] = ctx[d]
        BY <1>1, <1>6, <1>9, OneContext
    <2>2. /\ win' \in [Windows -> WinType] /\ win'[w] = y
          /\ \A v \in Windows : v # w => win'[v] = win[v]
        BY <1>1, <1>7, <1>9, OneWindow
    <2>3. WTyped' /\ NoFault'
        BY <1>1, <2>1, <2>2 DEF WInv, WTyped, TypeOK, NoFault
    <2>4. /\ ~Holds(c)'
          /\ \A d \in Contexts : d # c => (Holds(d)' <=> Holds(d)) /\ ctx'[d].hwnd = ctx[d].hwnd
        BY <1>6, <2>1 DEF Holds
    <2>5. Holding'
        <3> SUFFICES ASSUME NEW d \in Contexts
                     PROVE  /\ ctx'[d].life # "taken"
                            /\ ctx'[d].life # "live" => ctx'[d].old = "invalid"
                            /\ Holds(d)' =>
                                  /\ ctx'[d].hwnd \in Windows /\ win'[ctx'[d].hwnd].live
                                  /\ ctx'[d].old = SecondaryOf(ctx'[d].hwnd)
                                  /\ \A e \in Contexts :
                                        Holds(e)' /\ ctx'[e].hwnd = ctx'[d].hwnd => e = d
            BY DEF Holding
        <3>1. CASE d = c
            BY <1>6, <2>1, <2>4, <3>1
        <3>2. CASE d # c
            <4>1. /\ ctx[d].life # "taken"
                  /\ ctx[d].life # "live" => ctx[d].old = "invalid"
                  /\ Holds(d) => /\ ctx[d].hwnd \in Windows /\ win[ctx[d].hwnd].live
                                 /\ ctx[d].old = SecondaryOf(ctx[d].hwnd)
                                 /\ \A e \in Contexts : Holds(e) /\ ctx[e].hwnd = ctx[d].hwnd => e = d
                BY DEF WInv, Holding
            <4>2. Holds(d) => ctx[d].hwnd # w
                BY <1>4, <3>2
            <4> QED
                BY <2>1, <2>2, <2>4, <3>2, <4>1, <4>2
        <3> QED
            BY <3>1, <3>2
    <2>6. FrozenWhileHeld'
        <3> SUFFICES ASSUME NEW v \in Windows
                     PROVE  /\ win'[v].frozen <=> \E d \in Contexts : Holds(d)' /\ ctx'[d].hwnd = v
                            /\ ~(\E d \in Contexts : Holds(d)' /\ ctx'[d].hwnd = v) /\ win'[v].live
                                  => win'[v].sec = SecondaryOf(v)
            BY DEF FrozenWhileHeld
        <3>1. CASE v = w
            <4>1. ~\E d \in Contexts : Holds(d)' /\ ctx'[d].hwnd = w
                BY <1>4, <2>4
            <4> QED
                BY <1>4, <1>7, <2>2, <3>1, <4>1
        <3>2. CASE v # w
            <4>1. win'[v] = win[v] /\ ctx[c].hwnd # v
                BY <2>2, <3>2 DEF w
            <4>2. (\E d \in Contexts : Holds(d)' /\ ctx'[d].hwnd = v)
                     <=> \E d \in Contexts : Holds(d) /\ ctx[d].hwnd = v
                BY <2>4, <4>1
            <4> QED
                BY <4>1, <4>2 DEF WInv, FrozenWhileHeld
        <3> QED
            BY <3>1, <3>2
    <2>7. MovesOK'
        <3>1. \A m \in Moves : UnderWay(m)' <=> UnderWay(m)
            BY <1>1 DEF UnderWay
        <3> QED
            BY <1>1, <2>4, <3>1 DEF WInv, MovesOK
    <2>8. \A i \in DOMAIN calls : ctx'[calls[i].ctx] = ctx[calls[i].ctx]
        <3>1. ctx[c].old # "invalid"
            BY <1>1 DEF Holds
        <3> QED
            BY <1>1, <2>1, <3>1, CallsAre DEF WInv, CallsOK, CallOK
    <2>9. CallsOK' /\ Apart' /\ AllOwned'
        BY <1>1, <2>8, CallsStay
    <2> QED
        BY <2>3, <2>5, <2>6, <2>7, <2>9 DEF WInv
<1> QED
    BY <1>2, <1>8, <1>9

-----------------------------------------------------------------------------
(***************************************************************************)
(* Calls that wait for an animation to play, and return.                   *)
(***************************************************************************)
LEMMA PlayBegins ==
    ASSUME WInv, WTyped', ~fault', move' = move,
           NEW c \in Contexts, IdleCtx(c), ctx'[c].life = "live", ctx'[c].old = "invalid",
           \A d \in Contexts : d # c => ctx'[d] = ctx[d],
           ctx'[c].src \notin dcs, ctx'[c].dst \notin dcs,
           dcs' = dcs \cup ({ctx'[c].src, ctx'[c].dst} \ {Invalid}),
           NEW k \in CallType, k.ctx = c, Plays(k), MayCall, calls' = Append(calls, k),
           \A w \in Windows : SameFreeze(w)
    PROVE  WInv'
<1> DEFINE n == Len(calls) + 1
<1>1. /\ DOMAIN calls' = DOMAIN calls \cup {n} /\ n \notin DOMAIN calls /\ calls'[n] = k
      /\ \A i \in DOMAIN calls : calls'[i] = calls[i]
    BY AppendIs DEF WInv
<1> HIDE DEF n
<1>2. SameHolders
    BY DEF SameHolders, WInv, Holding, Holds, IdleCtx
<1>3. Holding' /\ FrozenWhileHeld' /\ MovesOK'
    BY <1>2, HoldingStays, MovesStay DEF WInv
<1>4. \A m \in Moves : /\ UnderWay(m)' <=> UnderWay(m)
                       /\ UnderWay(m) => move[m].src \in dcs \cup {Invalid}
    BY DEF UnderWay, WInv, MovesOK
<1>5. ASSUME NEW i \in DOMAIN calls
      PROVE  /\ calls[i].ctx \in Contexts /\ calls[i].ctx # c
             /\ ctx'[calls[i].ctx] = ctx[calls[i].ctx]
             /\ CallOK(calls[i])
             /\ Plays(calls[i]) => Pictures(calls[i].ctx) \subseteq dcs
    BY <1>5, CallsAre DEF WInv, IdleCtx, CallsOK, CallOK
<1>6. CallsOK'
    <2> SUFFICES ASSUME NEW i \in DOMAIN calls'
                 PROVE  CallOK(calls[i])'
        BY DEF CallsOK
    <2>1. CASE i = n
        <3>1. calls'[i] = k
            BY <1>1, <2>1
        <3>2. \A m \in Moves : UnderWay(m) => move[m].src \in dcs \cup {Invalid}
            BY <1>4
        <3> QED
            BY <1>4, <3>1, <3>2 DEF CallOK, Pictures, Plays
    <2>2. CASE i \in DOMAIN calls
        <3> DEFINE j == calls[i]
        <3>1. CallOK(j) /\ ctx'[j.ctx] = ctx[j.ctx] /\ j' = j
            BY <1>1, <1>5, <2>2
        <3> HIDE DEF j
        <3>2. CallOK(j)'
            BY <1>4, <3>1 DEF CallOK, Pictures, Plays
        <3> QED
            BY <3>2 DEF j
    <2> QED
        BY <1>1, <2>1, <2>2
<1>7. Apart'
    <2> SUFFICES ASSUME NEW i \in DOMAIN calls', NEW j \in DOMAIN calls', i # j
                 PROVE  Disjoint(calls[i], calls[j])'
        BY DEF Apart
    <2>1. CASE i \in DOMAIN calls /\ j \in DOMAIN calls
        <3> DEFINE f == calls[i]
                   g == calls[j]
        <3>1. Disjoint(f, g)
            BY <2>1 DEF WInv, Apart
        <3>2. f' = f /\ g' = g
            BY <1>1, <2>1
        <3>3. ctx'[f.ctx] = ctx[f.ctx] /\ ctx'[g.ctx] = ctx[g.ctx]
            BY <1>5, <2>1
        <3> HIDE DEF f, g
        <3>4. Disjoint(f, g)'
            BY <3>1, <3>2, <3>3 DEF Disjoint, Pictures, Plays
        <3> QED
            BY <3>4 DEF f, g
    <2>2. CASE i = n /\ j \in DOMAIN calls
        <3>1. calls'[i] = k /\ calls'[j] = calls[j] /\ ctx'[calls[j].ctx] = ctx[calls[j].ctx]
            BY <1>1, <1>5, <2>2
        <3>2. calls[j].ctx # c /\ (Plays(calls[j]) => Pictures(calls[j].ctx) \subseteq dcs)
            BY <1>5, <2>2
        <3> QED
            BY <3>1, <3>2 DEF Disjoint, Pictures, Plays
    <2>3. CASE j = n /\ i \in DOMAIN calls
        <3>1. calls'[j] = k /\ calls'[i] = calls[i] /\ ctx'[calls[i].ctx] = ctx[calls[i].ctx]
            BY <1>1, <1>5, <2>3
        <3>2. calls[i].ctx # c /\ (Plays(calls[i]) => Pictures(calls[i].ctx) \subseteq dcs)
            BY <1>5, <2>3
        <3> QED
            BY <3>1, <3>2 DEF Disjoint, Pictures, Plays
    <2> QED
        BY <1>1, <2>1, <2>2, <2>3
<1>8. AllOwned'
    <2> SUFFICES ASSUME NEW d \in dcs'
                 PROVE  Owned(d)'
        BY DEF AllOwned
    <2>1. CASE d \in dcs
        <3>1. Owned(d)
            BY <2>1 DEF WInv, AllOwned
        <3>2. CASE \E m \in Moves : UnderWay(m) /\ move[m].src = d
            BY <1>4, <3>2 DEF Owned
        <3>3. CASE \E i \in DOMAIN calls : Plays(calls[i]) /\ d \in Pictures(calls[i].ctx)
            <4>1. PICK i \in DOMAIN calls : Plays(calls[i]) /\ d \in Pictures(calls[i].ctx)
                BY <3>3
            <4>2. i \in DOMAIN calls' /\ calls'[i] = calls[i] /\ ctx'[calls[i].ctx] = ctx[calls[i].ctx]
                BY <1>1, <1>5
            <4> QED
                BY <4>1, <4>2 DEF Owned, Pictures, Plays
        <3> QED
            BY <3>1, <3>2, <3>3 DEF Owned
    <2>2. CASE d \in {ctx'[c].src, ctx'[c].dst} \ {Invalid}
        BY <1>1, <2>2 DEF Owned, Pictures, Plays
    <2> QED
        BY <2>1, <2>2
<1> QED
    BY <1>3, <1>6, <1>7, <1>8 DEF WInv, NoFault

LEMMA PlayCallIs ==
    ASSUME NEW c \in Contexts, NEW w \in Windows, NEW op \in {"show", "hide"}
    PROVE  /\ Call(c, w, op, NoMove) \in CallType /\ Call(c, w, op, NoMove).ctx = c
           /\ Plays(Call(c, w, op, NoMove))
BY CallIs DEF Plays

LEMMA CreateMainWindowKeeps ==
    ASSUME AllRules, WInv, NEW c \in Contexts, NEW w \in Windows, CreateMainWindow(c, w)
    PROVE  WInv'
<1>1. PICK s \in NextDC(dcs) : \E t \in MaybeDC(dcs \cup {s}) :
          /\ ctx' = [ctx EXCEPT ![c] = [Hooked(c) EXCEPT !.hwnd = w, !.src = s, !.dst = t]]
          /\ dcs' = dcs \cup Made({s, t})
    BY DEF CreateMainWindow
<1>2. PICK t \in MaybeDC(dcs \cup {s}) :
          /\ ctx' = [ctx EXCEPT ![c] = [Hooked(c) EXCEPT !.hwnd = w, !.src = s, !.dst = t]]
          /\ dcs' = dcs \cup Made({s, t})
    BY <1>1
<1> DEFINE x == [Hooked(c) EXCEPT !.hwnd = w, !.src = s, !.dst = t]
           k == Call(c, w, "show", NoMove)
<1>3. /\ WTyped /\ MayUse(c, w) /\ MayCall /\ ~win[w].live /\ info = Filled
      /\ ctx' = [ctx EXCEPT ![c] = x] /\ info' = Filled
      /\ win' = [win EXCEPT ![w] = Created(w)]
      /\ fault' = (fault \/ info.hook \/ ctx[c].life # "live")
      /\ calls' = Append(calls, k) /\ move' = move
    BY <1>2, RulesAre DEF CreateMainWindow, MayCreate, WInv, WTyped, NextInfo
<1>4. s \in MaybeDC(dcs)
    BY DEF MaybeDC
<1>5. /\ IdleCtx(c) /\ ctx[c].life = "live" /\ info \in InfoType /\ ctx[c] \in CtxType
      /\ s \in DCs \cup {Invalid} /\ s \notin dcs /\ t \in DCs \cup {Invalid} /\ t \notin dcs
      /\ dcs' = dcs \cup ({s, t} \ {Invalid}) /\ dcs' \subseteq DCs
    BY <1>2, <1>3, <1>4, MayUseIs, TypesAre, TwoPictures
<1>6. /\ x \in CtxType /\ x.old = "invalid" /\ x.life = "live"
      /\ x.src = s /\ x.dst = t
    BY <1>5 DEF Hooked, CtxType, InfoType
<1>7. k \in CallType /\ k.ctx = c /\ Plays(k)
    BY PlayCallIs
<1> HIDE DEF x, k
<1>8. ctx' \in [Contexts -> CtxType] /\ ctx'[c] = x /\ \A d \in Contexts : d # c => ctx'[d] = ctx[d]
    BY <1>3, <1>6, OneContext
<1>9. win' \in [Windows -> WinType] /\ \A v \in Windows : SameFreeze(v)
    BY <1>3, NewWindow
<1>10. calls' \in Seq(CallType) /\ Len(calls') <= MaxDepth
    BY <1>3, <1>7, AppendIs
<1>11. WTyped' /\ ~fault'
    BY <1>3, <1>5, <1>8, <1>9, <1>10 DEF WInv, WTyped, TypeOK, NoFault, Filled
<1> QED
    BY <1>3, <1>5, <1>6, <1>7, <1>8, <1>9, <1>11, PlayBegins

(* To show and to hide: the context gets two pictures.                     *)
LEMMA ShownOrHidden ==
    ASSUME AllRules, WInv, NEW c \in Contexts, NEW w \in Windows, MayUse(c, w), MayCall,
           NEW s \in MaybeDC(dcs), NEW t \in MaybeDC(dcs \cup {s}),
           NEW h \in Windows \cup {NoWin},
           ctx' = [ctx EXCEPT ![c] = [ctx[c] EXCEPT !.hwnd = h, !.src = s, !.dst = t]],
           dcs' = dcs \cup Made({s, t}), move' = move, info' = info,
           win' \in [Windows -> WinType], \A v \in Windows : SameFreeze(v),
           fault' = (fault \/ ctx[c].life # "live"),
           NEW op \in {"show", "hide"}, calls' = Append(calls, Call(c, w, op, NoMove))
    PROVE  WInv'
<1> DEFINE x == [ctx[c] EXCEPT !.hwnd = h, !.src = s, !.dst = t]
           k == Call(c, w, op, NoMove)
<1>1. WTyped /\ ctx' = [ctx EXCEPT ![c] = x] /\ calls' = Append(calls, k)
    BY DEF WInv
<1>2. /\ IdleCtx(c) /\ ctx[c].life = "live" /\ ctx[c].old = "invalid" /\ ctx[c] \in CtxType
      /\ s \in DCs \cup {Invalid} /\ s \notin dcs /\ t \in DCs \cup {Invalid} /\ t \notin dcs
      /\ dcs' = dcs \cup ({s, t} \ {Invalid}) /\ dcs' \subseteq DCs
    BY <1>1, MayUseIs, TypesAre, TwoPictures
<1>3. /\ x \in CtxType /\ x.old = "invalid" /\ x.life = "live"
      /\ x.src = s /\ x.dst = t
    BY <1>2 DEF CtxType
<1>4. k \in CallType /\ k.ctx = c /\ Plays(k)
    BY PlayCallIs
<1> HIDE DEF x, k
<1>5. ctx' \in [Contexts -> CtxType] /\ ctx'[c] = x /\ \A d \in Contexts : d # c => ctx'[d] = ctx[d]
    BY <1>1, <1>3, OneContext
<1>6. calls' \in Seq(CallType) /\ Len(calls') <= MaxDepth
    BY <1>1, <1>4, AppendIs
<1>7. WTyped' /\ ~fault'
    BY <1>1, <1>2, <1>5, <1>6 DEF WInv, WTyped, TypeOK, NoFault
<1> QED
    BY <1>1, <1>2, <1>3, <1>4, <1>5, <1>7, PlayBegins

LEMMA ShowWindowKeeps ==
    ASSUME AllRules, WInv, NEW c \in Contexts, NEW w \in Windows, ShowWindow(c, w)
    PROVE  WInv'
<1>1. PICK s \in MaybeDC(dcs) : \E t \in MaybeDC(dcs \cup {s}) :
          /\ ctx' = [ctx EXCEPT ![c].hwnd = w, ![c].src = s, ![c].dst = t]
          /\ dcs' = dcs \cup Made({s, t})
    BY DEF ShowWindow
<1>2. PICK t \in MaybeDC(dcs \cup {s}) :
          /\ ctx' = [ctx EXCEPT ![c].hwnd = w, ![c].src = s, ![c].dst = t]
          /\ dcs' = dcs \cup Made({s, t})
    BY <1>1
<1>3. /\ WTyped /\ MayUse(c, w) /\ MayCall /\ win' = [win EXCEPT ![w] = Foreground(w, TRUE)]
      /\ fault' = (fault \/ ctx[c].life # "live") /\ move' = move /\ info' = info
      /\ calls' = Append(calls, Call(c, w, "show", NoMove))
    BY DEF ShowWindow, WInv
<1>4. ctx' = [ctx EXCEPT ![c] = [ctx[c] EXCEPT !.hwnd = w, !.src = s, !.dst = t]]
    BY <1>2, <1>3, TypesAre
<1>5. win' \in [Windows -> WinType] /\ \A v \in Windows : SameFreeze(v)
    <2>1. TRUE \in BOOLEAN
        OBVIOUS
    <2> QED
        BY <1>3, <2>1, ForegroundIs
<1> QED
    BY <1>2, <1>3, <1>4, <1>5, ShownOrHidden

LEMMA HideWindowKeeps ==
    ASSUME AllRules, WInv, NEW c \in Contexts, NEW w \in Windows, HideWindow(c, w)
    PROVE  WInv'
<1>1. PICK s \in MaybeDC(dcs) : \E t \in MaybeDC(dcs \cup {s}) :
          /\ ctx' = [ctx EXCEPT ![c].src = s, ![c].dst = t]
          /\ dcs' = dcs \cup Made({s, t})
    BY DEF HideWindow
<1>2. PICK t \in MaybeDC(dcs \cup {s}) :
          /\ ctx' = [ctx EXCEPT ![c].src = s, ![c].dst = t]
          /\ dcs' = dcs \cup Made({s, t})
    BY <1>1
<1>3. /\ WTyped /\ MayUse(c, w) /\ MayCall /\ UNCHANGED <<win, move, info>>
      /\ fault' = (fault \/ ctx[c].life # "live")
      /\ calls' = Append(calls, Call(c, w, "hide", NoMove))
    BY DEF HideWindow, WInv
<1> DEFINE h == ctx[c].hwnd
<1>4. h \in Windows \cup {NoWin}
    BY <1>3, TypesAre DEF CtxType
<1>5. ctx' = [ctx EXCEPT ![c] = [ctx[c] EXCEPT !.hwnd = h, !.src = s, !.dst = t]]
    <2>1. [ctx[c] EXCEPT !.src = s, !.dst = t] = [ctx[c] EXCEPT !.hwnd = h, !.src = s, !.dst = t]
        BY <1>3, TypesAre DEF CtxType
    <2>2. ctx' = [ctx EXCEPT ![c] = [ctx[c] EXCEPT !.src = s, !.dst = t]]
        BY <1>2, <1>3, TypesAre
    <2> QED
        BY <2>1, <2>2
<1>6. win' \in [Windows -> WinType] /\ \A v \in Windows : SameFreeze(v)
    BY <1>3, WindowsKept, TypesAre
<1> HIDE DEF h
<1> QED
    BY <1>2, <1>3, <1>4, <1>5, <1>6, ShownOrHidden

(* Deleting memory DCs.                                                    *)
LEMMA CtxCut ==
    ASSUME WTyped, NEW D, D \subseteq DCs \cup {NoDC, Invalid}, NEW x, x = CtxWithout(D)
    PROVE  /\ x \in [Contexts -> CtxType]
           /\ \A c \in Contexts :
                 /\ x[c].life = ctx[c].life /\ x[c].old = ctx[c].old
                 /\ x[c].hwnd = ctx[c].hwnd
                 /\ Pictures(c) \cap D = {} =>
                       x[c].src = ctx[c].src /\ x[c].dst = ctx[c].dst
<1>1. ASSUME NEW c \in Contexts
      PROVE  /\ x[c] \in CtxType
             /\ x[c].life = ctx[c].life /\ x[c].old = ctx[c].old
             /\ x[c].hwnd = ctx[c].hwnd
             /\ Pictures(c) \cap D = {} =>
                   x[c].src = ctx[c].src /\ x[c].dst = ctx[c].dst
    <2> DEFINE s == Cut(ctx[c].src, D)
               t == Cut(ctx[c].dst, D)
    <2>1. ctx[c] \in CtxType
        BY <1>1, TypesAre
    <2>2. x[c] = [ctx[c] EXCEPT !.src = s, !.dst = t]
        BY <1>1, <2>1 DEF CtxWithout, CtxType
    <2>3. /\ s \in DCs \cup {NoDC, Invalid} /\ t \in DCs \cup {NoDC, Invalid}
          /\ Pictures(c) \cap D = {} => s = ctx[c].src /\ t = ctx[c].dst
        BY <2>1 DEF Cut, Made, CtxType, Pictures
    <2> HIDE DEF s, t
    <2> QED
        BY <2>1, <2>2, <2>3 DEF CtxType
<1>2. x = [c \in Contexts |-> x[c]]
    BY DEF CtxWithout
<1>3. x \in [Contexts -> CtxType]
    BY <1>1, <1>2
<1> QED
    BY <1>1, <1>3

(* After a call has played, its own context has no picture, too.           *)
LEMMA CtxPlayed ==
    ASSUME WTyped, NEW D, D \subseteq DCs \cup {NoDC, Invalid}, NEW k \in Contexts,
           ctx' = Played(D, k)
    PROVE  /\ ctx' \in [Contexts -> CtxType]
           /\ \A c \in Contexts :
                 /\ ctx'[c].life = ctx[c].life /\ ctx'[c].old = ctx[c].old
                 /\ ctx'[c].hwnd = ctx[c].hwnd
                 /\ c # k /\ Pictures(c) \cap D = {} =>
                       ctx'[c].src = ctx[c].src /\ ctx'[c].dst = ctx[c].dst
<1> DEFINE x == CtxWithout(D)
           y == [x[k] EXCEPT !.src = NoDC, !.dst = NoDC]
<1>1. /\ x \in [Contexts -> CtxType]
      /\ \A c \in Contexts :
            /\ x[c].life = ctx[c].life /\ x[c].old = ctx[c].old
            /\ x[c].hwnd = ctx[c].hwnd
            /\ Pictures(c) \cap D = {} =>
                  x[c].src = ctx[c].src /\ x[c].dst = ctx[c].dst
    BY CtxCut
<1>2. ctx' = [x EXCEPT ![k].src = NoDC, ![k].dst = NoDC]
    BY DEF Played
<1> HIDE DEF x
<1>3. ctx' = [x EXCEPT ![k] = y]
    BY <1>1, <1>2
<1>4. y \in CtxType /\ y.life = x[k].life /\ y.old = x[k].old /\ y.hwnd = x[k].hwnd
    <2> DEFINE z == x[k]
    <2>1. z \in CtxType
        BY <1>1
    <2> HIDE DEF z
    <2>2. LET u == [z EXCEPT !.src = NoDC, !.dst = NoDC]
          IN  u \in CtxType /\ u.life = z.life /\ u.old = z.old /\ u.hwnd = z.hwnd
        BY <2>1 DEF CtxType
    <2> QED
        BY <2>2 DEF z
<1> HIDE DEF y
<1>5. ctx' \in [Contexts -> CtxType] /\ ctx'[k] = y /\ \A c \in Contexts : c # k => ctx'[c] = x[c]
    BY <1>1, <1>3, <1>4
<1> QED
    BY <1>1, <1>4, <1>5

LEMMA MovesCut ==
    ASSUME WTyped, NEW D, D \subseteq DCs \cup {NoDC, Invalid}, move' = MoveWithout(D)
    PROVE  /\ move' \in [Moves -> MoveType]
           /\ \A m \in Moves :
                 /\ move'[m].state = move[m].state /\ move'[m].listed = move[m].listed
                 /\ move'[m].copy = move[m].copy /\ move'[m].hwnd = move[m].hwnd
                 /\ move[m].src \notin D \ {Invalid} => move'[m].src = move[m].src
<1>1. ASSUME NEW m \in Moves
      PROVE  /\ move'[m] \in MoveType
             /\ move'[m].state = move[m].state /\ move'[m].listed = move[m].listed
             /\ move'[m].copy = move[m].copy /\ move'[m].hwnd = move[m].hwnd
             /\ move[m].src \notin D \ {Invalid} => move'[m].src = move[m].src
    <2> DEFINE s == Cut(move[m].src, D)
    <2>1. move[m] \in MoveType
        BY <1>1, TypesAre
    <2>2. move'[m] = [move[m] EXCEPT !.src = s]
        BY <1>1, <2>1 DEF MoveWithout, MoveType
    <2>3. s \in DCs \cup {NoDC, Invalid} /\ (move[m].src \notin D \ {Invalid} => s = move[m].src)
        BY <2>1 DEF Cut, Made, MoveType
    <2> HIDE DEF s
    <2> QED
        BY <2>1, <2>2, <2>3 DEF MoveType
<1>2. move' = [m \in Moves |-> move'[m]]
    BY DEF MoveWithout
<1>3. move' \in [Moves -> MoveType]
    BY <1>1, <1>2
<1> QED
    BY <1>1, <1>3

LEMMA PlayReturnKeeps ==
    ASSUME WInv, PlayReturn
    PROVE  WInv'
<1> DEFINE n == Len(calls)
           k == calls[n]
           D == {ctx[k.ctx].src, ctx[k.ctx].dst}
           P == Pictures(k.ctx)
           v == IF k.op = "hide" THEN "hidden" ELSE win[k.win].vis
           y == [win[k.win] EXCEPT !.vis = v]
<1>1. WTyped /\ calls # <<>> /\ Plays(k)
    BY DEF PlayReturn, WInv, Plays
<1>2. /\ n \in DOMAIN calls /\ k \in CallType /\ k.ctx \in Contexts /\ k.win \in Windows
      /\ CallOK(k) /\ ctx[k.ctx] \in CtxType /\ win[k.win] \in WinType
    <2>1. n \in DOMAIN calls /\ k \in CallType
        BY <1>1, ReturnIs
    <2>2. k.ctx \in Contexts /\ k.win \in Windows
        BY <2>1 DEF CallType
    <2> QED
        BY <1>1, <2>1, <2>2, TypesAre DEF WInv, CallsOK
<1>3. /\ dcs' = dcs \ D /\ ctx' = Played(D, k.ctx) /\ move' = MoveWithout(D)
      /\ fault' = (fault \/ ctx[k.ctx].life # "live" \/ Stale(D))
      /\ win' = [win EXCEPT ![k.win].vis = v] /\ calls' = Return /\ info' = info
    BY DEF PlayReturn
<1>4. /\ DOMAIN calls' = DOMAIN calls \ {n} /\ calls' \in Seq(CallType) /\ Len(calls') <= MaxDepth
      /\ \A i \in DOMAIN calls' : calls'[i] = calls[i]
    BY <1>1, <1>3, ReturnIs
<1>5. /\ P = D \ {Invalid} /\ P \subseteq dcs /\ D \subseteq DCs \cup {NoDC, Invalid}
      /\ Invalid \notin dcs /\ ctx[k.ctx].life = "live"
      /\ \A m \in Moves : UnderWay(m) => move[m].src \notin P
    <2>1. P = D \ {Invalid}
        BY DEF Pictures
    <2>2. P \subseteq dcs /\ ctx[k.ctx].life = "live" /\ \A m \in Moves : UnderWay(m) => move[m].src \notin P
        BY <1>1, <1>2 DEF CallOK
    <2>3. Invalid \notin dcs /\ D \subseteq DCs \cup {NoDC, Invalid}
        BY <1>1, <1>2, TypesAre, NotDCs DEF CtxType
    <2> QED
        BY <2>1, <2>2, <2>3
<1>6. win' = [win EXCEPT ![k.win] = y]
    BY <1>1, <1>2, <1>3, TypesAre
<1>7. y \in WinType /\ y.frozen = win[k.win].frozen /\ y.live = win[k.win].live /\ y.sec = win[k.win].sec
    BY <1>2 DEF WinType
<1> HIDE DEF y, v
<1>8. /\ win' \in [Windows -> WinType] /\ win'[k.win] = y
      /\ \A w \in Windows : w # k.win => win'[w] = win[w]
    BY <1>1, <1>2, <1>6, <1>7, OneWindow
<1>9. ASSUME NEW i \in DOMAIN calls'
      PROVE  /\ i \in DOMAIN calls /\ i # n /\ calls[i].ctx \in Contexts /\ CallOK(calls[i])
             /\ calls[i].ctx # k.ctx
             /\ Plays(calls[i]) => Pictures(calls[i].ctx) \cap D = {}
    <2>1. /\ i \in DOMAIN calls /\ i # n /\ calls[i].ctx \in Contexts /\ CallOK(calls[i])
          /\ Disjoint(calls[i], k)
        BY <1>1, <1>2, <1>4, <1>9, CallsAre DEF WInv, CallsOK, Apart
    <2>2. Invalid \notin Pictures(calls[i].ctx)
        BY DEF Pictures
    <2> HIDE DEF D, P, k, n
    <2>3. Plays(calls[i]) => Pictures(calls[i].ctx) \cap P = {}
        BY <1>1, <2>1 DEF Disjoint, P
    <2>4. Plays(calls[i]) => Pictures(calls[i].ctx) \cap D = {}
        BY <1>5, <2>2, <2>3
    <2> QED
        BY <2>1, <2>4 DEF Disjoint
<1> HIDE DEF k, D, P, n
<1>10. /\ ctx' \in [Contexts -> CtxType]
       /\ \A c \in Contexts :
             /\ ctx'[c].life = ctx[c].life /\ ctx'[c].old = ctx[c].old
             /\ ctx'[c].hwnd = ctx[c].hwnd
             /\ c # k.ctx /\ Pictures(c) \cap D = {} =>
                   ctx'[c].src = ctx[c].src /\ ctx'[c].dst = ctx[c].dst
    BY <1>1, <1>2, <1>3, <1>5, CtxPlayed
<1>11. /\ move' \in [Moves -> MoveType]
       /\ \A m \in Moves :
             /\ move'[m].state = move[m].state /\ move'[m].listed = move[m].listed
             /\ move'[m].copy = move[m].copy /\ move'[m].hwnd = move[m].hwnd
             /\ move[m].src \notin D \ {Invalid} => move'[m].src = move[m].src
    BY <1>1, <1>3, <1>5, MovesCut
<1>12. WTyped' /\ NoFault'
    BY <1>1, <1>3, <1>4, <1>5, <1>8, <1>10, <1>11 DEF WInv, WTyped, TypeOK, NoFault, Stale, Made
<1>13. SameHolders /\ \A w \in Windows : SameFreeze(w)
    <2>1. SameHolders
        BY <1>10 DEF SameHolders, Holds, WInv, Holding
    <2>2. \A w \in Windows : SameFreeze(w)
        BY <1>7, <1>8 DEF SameFreeze
    <2> QED
        BY <2>1, <2>2
<1>14. Holding' /\ FrozenWhileHeld'
    BY <1>1, <1>13, HoldingStays DEF WInv
<1>15. \A m \in Moves : /\ UnderWay(m)' <=> UnderWay(m)
                        /\ UnderWay(m) => move'[m].src = move[m].src
    BY <1>5, <1>11 DEF UnderWay
<1>16. MovesOK'
    BY <1>3, <1>5, <1>11, <1>13, <1>15 DEF WInv, MovesOK, SameHolders
<1>17. CallsOK'
    <2> SUFFICES ASSUME NEW i \in DOMAIN calls'
                 PROVE  CallOK(calls[i])'
        BY DEF CallsOK
    <2> DEFINE j == calls[i]
    <2>1. /\ CallOK(j) /\ j' = j /\ j.ctx \in Contexts
          /\ j.ctx # k.ctx /\ (Plays(j) => Pictures(j.ctx) \cap D = {})
        BY <1>4, <1>9
    <2> HIDE DEF j
    <2>2. ctx'[j.ctx].life = ctx[j.ctx].life /\ ctx'[j.ctx].old = ctx[j.ctx].old
        BY <1>10, <2>1
    <2>3. Plays(j) => /\ ctx'[j.ctx].src = ctx[j.ctx].src /\ ctx'[j.ctx].dst = ctx[j.ctx].dst
                      /\ Pictures(j.ctx) \subseteq dcs'
        BY <1>3, <1>10, <2>1 DEF CallOK
    <2>4. CallOK(j)'
        BY <1>11, <1>15, <2>1, <2>2, <2>3 DEF CallOK, Pictures, Plays
    <2> QED
        BY <2>4 DEF j
<1>18. Apart'
    <2> SUFFICES ASSUME NEW i \in DOMAIN calls', NEW j \in DOMAIN calls', i # j
                 PROVE  Disjoint(calls[i], calls[j])'
        BY DEF Apart
    <2>1. Disjoint(calls[i], calls[j])
        BY <1>9 DEF WInv, Apart
    <2> QED
        BY <1>4, <1>9, <1>10, <2>1 DEF Disjoint, Pictures, Plays
<1>19. AllOwned'
    <2> SUFFICES ASSUME NEW d \in dcs'
                 PROVE  Owned(d)'
        BY DEF AllOwned
    <2>1. Owned(d) /\ d \notin D
        BY <1>3 DEF WInv, AllOwned
    <2>2. CASE \E m \in Moves : UnderWay(m) /\ move[m].src = d
        BY <1>15, <2>2 DEF Owned
    <2>3. CASE \E i \in DOMAIN calls : Plays(calls[i]) /\ d \in Pictures(calls[i].ctx)
        <3>1. PICK i \in DOMAIN calls : Plays(calls[i]) /\ d \in Pictures(calls[i].ctx)
            BY <2>3
        <3>2. i # n
            BY <2>1, <3>1 DEF D, k, Pictures
        <3>3. i \in DOMAIN calls' /\ calls'[i] = calls[i]
            BY <1>4, <3>2
        <3>4. ctx'[calls[i].ctx].src = ctx[calls[i].ctx].src /\ ctx'[calls[i].ctx].dst = ctx[calls[i].ctx].dst
            BY <1>9, <1>10, <3>1, <3>3
        <3> QED
            BY <3>1, <3>3, <3>4 DEF Owned, Pictures, Plays
    <2> QED
        BY <2>1, <2>2, <2>3 DEF Owned
<1> QED
    BY <1>12, <1>14, <1>16, <1>17, <1>18, <1>19 DEF WInv

(* The schedular brings the animation of a waiting call to its end.        *)
LEMMA PlayOverKeeps ==
    ASSUME WInv, NEW p, PlayOver(p)
    PROVE  WInv'
<1>1. /\ WTyped /\ p \in DOMAIN calls /\ calls' = [calls EXCEPT ![p].over = TRUE]
      /\ UNCHANGED <<win, ctx, move, info, dcs, fault>>
    BY DEF PlayOver, WInv
<1>2. calls \in Seq(CallType) /\ Len(calls) <= MaxDepth /\ \A i \in DOMAIN calls : calls[i] \in CallType
    BY <1>1, TypesAre, CallsAre
<1> DEFINE x == [calls[p] EXCEPT !.over = TRUE]
<1>3. /\ x \in CallType /\ x.ctx = calls[p].ctx /\ x.op = calls[p].op /\ x.move = calls[p].move
    BY <1>1, <1>2 DEF CallType
<1>4. calls' = [calls EXCEPT ![p] = x]
    BY <1>1, <1>2
<1> HIDE DEF x
<1>5. /\ calls' \in Seq(CallType) /\ Len(calls') <= MaxDepth /\ DOMAIN calls' = DOMAIN calls
      /\ calls'[p] = x /\ \A i \in DOMAIN calls : i # p => calls'[i] = calls[i]
    <2> DEFINE n == Len(calls)
    <2>1. n \in Nat /\ DOMAIN calls = 1..n /\ calls \in [1..n -> CallType]
        BY <1>2
    <2>2. calls' \in [1..n -> CallType]
        BY <1>3, <1>4, <2>1
    <2>3. calls' \in Seq(CallType) /\ Len(calls') = n
        BY <2>1, <2>2
    <2>4. DOMAIN calls' = 1..n /\ calls'[p] = x /\ \A i \in 1..n : i # p => calls'[i] = calls[i]
        BY <1>1, <1>4, <2>1
    <2> QED
        BY <1>2, <2>1, <2>3, <2>4
<1>6. \A i \in DOMAIN calls : /\ calls'[i].ctx = calls[i].ctx /\ calls'[i].op = calls[i].op
                              /\ calls'[i].move = calls[i].move
    BY <1>3, <1>5
<1>7. WTyped' /\ NoFault'
    BY <1>1, <1>5 DEF WInv, WTyped, TypeOK, NoFault
<1>8. Holding' /\ FrozenWhileHeld' /\ MovesOK'
    BY <1>1 DEF WInv, Holding, FrozenWhileHeld, MovesOK, Holds, UnderWay
<1>9. CallsOK'
    <2> SUFFICES ASSUME NEW i \in DOMAIN calls
                 PROVE  CallOK(calls[i])'
        BY <1>5 DEF CallsOK
    <2>1. CallOK(calls[i])
        BY DEF WInv, CallsOK
    <2> QED
        BY <1>1, <1>6, <2>1 DEF CallOK, Plays, Pictures, UnderWay
<1>10. Apart'
    <2> SUFFICES ASSUME NEW i \in DOMAIN calls, NEW j \in DOMAIN calls, i # j
                 PROVE  Disjoint(calls[i], calls[j])'
        BY <1>5 DEF Apart
    <2>1. Disjoint(calls[i], calls[j])
        BY DEF WInv, Apart
    <2> QED
        BY <1>1, <1>6, <2>1 DEF Disjoint, Plays, Pictures
<1>11. AllOwned'
    BY <1>1, <1>5, <1>6 DEF WInv, AllOwned, Owned, Plays, Pictures, UnderWay
<1> QED
    BY <1>7, <1>8, <1>9, <1>10, <1>11 DEF WInv

-----------------------------------------------------------------------------
(***************************************************************************)
(* Moves.                                                                  *)
(***************************************************************************)
(* A move is prepared, or begins to run, and a call waits for it or not.   *)
LEMMA MoveBegins ==
    ASSUME WInv, WTyped', ~fault',
           NEW m \in Moves, move[m].state = "none", move'[m].copy,
           \/ move'[m].state = "STOPPED" /\ calls' = calls
           \/ /\ move'[m].state = "READY" /\ move'[m].listed /\ MayCall
              /\ \E k \in CallType : /\ IdleCtx(k.ctx) /\ ~Plays(k) /\ k.move = m
                                     /\ ctx'[k.ctx].life = "live" /\ ctx'[k.ctx].old = "invalid"
                                     /\ calls' = Append(calls, k),
           move'[m].hwnd \in Windows, \A d \in Contexts : Holds(d) => ctx[d].hwnd # move'[m].hwnd,
           \A n \in Moves : n # m => move'[n] = move[n],
           move'[m].src \in DCs, move'[m].src \notin dcs, dcs' = dcs \cup {move'[m].src},
           \A d \in Contexts : \/ ctx'[d] = ctx[d]
                               \/ /\ IdleCtx(d) /\ ctx'[d].life = "live"
                                  /\ ctx'[d].old = "invalid",
           \A w \in Windows : SameFreeze(w)
    PROVE  WInv'
<1> DEFINE n == Len(calls) + 1
<1>1. /\ \A i \in DOMAIN calls : i \in DOMAIN calls' /\ calls'[i] = calls[i]
      /\ \A i \in DOMAIN calls' \ DOMAIN calls :
            /\ i = n /\ move'[m].state = "READY"
            /\ calls'[n].ctx \in Contexts /\ IdleCtx(calls'[n].ctx)
            /\ ~Plays(calls'[n]) /\ calls'[n].move = m
            /\ ctx'[calls'[n].ctx].life = "live" /\ ctx'[calls'[n].ctx].old = "invalid"
    <2>1. CASE calls' = calls
        BY <2>1
    <2>2. CASE calls' # calls
        <3>1. PICK k \in CallType : /\ IdleCtx(k.ctx) /\ ~Plays(k) /\ k.move = m
                                    /\ ctx'[k.ctx].life = "live" /\ ctx'[k.ctx].old = "invalid"
                                    /\ calls' = Append(calls, k) /\ MayCall
                                    /\ move'[m].state = "READY"
            BY <2>2
        <3>2. /\ calls'[n] = k /\ DOMAIN calls' = DOMAIN calls \cup {n}
              /\ \A i \in DOMAIN calls : calls'[i] = calls[i]
            BY <3>1, AppendIs DEF WInv
        <3>3. k.ctx \in Contexts
            BY DEF CallType
        <3> QED
            BY <3>1, <3>2, <3>3
    <2> QED
        BY <2>1, <2>2
<1> HIDE DEF n
<1>2. SameHolders
    BY DEF SameHolders, WInv, Holding, Holds, IdleCtx
<1>3. Holding' /\ FrozenWhileHeld'
    BY <1>2, HoldingStays DEF WInv
<1>4. /\ ~UnderWay(m) /\ UnderWay(m)'
      /\ \A x \in Moves : x # m => (UnderWay(x)' <=> UnderWay(x))
      /\ \A x \in Moves : UnderWay(x) => x # m /\ move[x].src \in dcs \cup {Invalid}
      /\ move'[m].src # Invalid
    BY NotDCs DEF UnderWay, WInv, MovesOK
<1>5. MovesOK'
    <2> SUFFICES ASSUME NEW x \in Moves
                 PROVE  /\ move'[x].state \in {"READY", "RUNNING"} => move'[x].copy /\ move'[x].listed
                        /\ move'[x].state = "none" => ~move'[x].copy /\ ~move'[x].listed
                        /\ UnderWay(x)' =>
                              /\ move'[x].hwnd \in Windows /\ move'[x].src \in dcs' \cup {Invalid}
                              /\ \A c \in Contexts : Holds(c)' => ctx'[c].hwnd # move'[x].hwnd
                              /\ \A y \in Moves : UnderWay(y)' /\ move'[y].src = move'[x].src =>
                                    y = x \/ move'[x].src = Invalid
        BY DEF MovesOK
    <2>1. CASE x = m
        <3>1. \A y \in Moves : UnderWay(y)' /\ move'[y].src = move'[m].src => y = m
            BY <1>4
        <3> QED
            BY <1>2, <2>1, <3>1 DEF SameHolders
    <2>2. CASE x # m
        <3>1. /\ move[x].state \in {"READY", "RUNNING"} => move[x].copy /\ move[x].listed
              /\ move[x].state = "none" => ~move[x].copy /\ ~move[x].listed
              /\ UnderWay(x) =>
                    /\ move[x].hwnd \in Windows /\ move[x].src \in dcs \cup {Invalid}
                    /\ \A c \in Contexts : Holds(c) => ctx[c].hwnd # move[x].hwnd
                    /\ \A y \in Moves : UnderWay(y) /\ move[y].src = move[x].src =>
                          y = x \/ move[x].src = Invalid
            BY DEF WInv, MovesOK
        <3>2. move'[x] = move[x] /\ (UnderWay(x)' <=> UnderWay(x))
            BY <1>4, <2>2
        <3> QED
            BY <1>2, <1>4, <3>1, <3>2 DEF SameHolders
    <2> QED
        BY <2>1, <2>2
<1>6. ASSUME NEW i \in DOMAIN calls
      PROVE  /\ calls[i].ctx \in Contexts /\ ctx'[calls[i].ctx] = ctx[calls[i].ctx]
             /\ CallOK(calls[i])
             /\ ~Plays(calls[i]) => calls[i].move # m
    <2>1. CallOK(calls[i])
        BY DEF WInv, CallsOK
    <2> QED
        BY <1>6, <2>1, CallsAre DEF WInv, IdleCtx, CallOK
<1>7. CallsOK'
    <2> SUFFICES ASSUME NEW i \in DOMAIN calls'
                 PROVE  CallOK(calls[i])'
        BY DEF CallsOK
    <2>1. CASE i \in DOMAIN calls
        <3> DEFINE j == calls[i]
        <3>1. /\ CallOK(j) /\ ctx'[j.ctx] = ctx[j.ctx] /\ j' = j
              /\ ~Plays(j) => j.move # m
            BY <1>1, <1>6, <2>1
        <3> HIDE DEF j
        <3>2. CallOK(j)'
            BY <1>4, <3>1 DEF CallOK, Pictures, Plays
        <3> QED
            BY <3>2 DEF j
    <2>2. CASE i \notin DOMAIN calls
        BY <1>1, <2>2 DEF CallOK, Plays
    <2> QED
        BY <2>1, <2>2
<1>8. Apart'
    <2> SUFFICES ASSUME NEW i \in DOMAIN calls', NEW j \in DOMAIN calls', i # j
                 PROVE  Disjoint(calls[i], calls[j])'
        BY DEF Apart
    <2>1. CASE i \in DOMAIN calls /\ j \in DOMAIN calls
        <3> DEFINE f == calls[i]
                   g == calls[j]
        <3>1. Disjoint(f, g)
            BY <2>1 DEF WInv, Apart
        <3>2. f' = f /\ g' = g
            BY <1>1, <2>1
        <3>3. ctx'[f.ctx] = ctx[f.ctx] /\ ctx'[g.ctx] = ctx[g.ctx]
            BY <1>6, <2>1
        <3> HIDE DEF f, g
        <3>4. Disjoint(f, g)'
            BY <3>1, <3>2, <3>3 DEF Disjoint, Pictures, Plays
        <3> QED
            BY <3>4 DEF f, g
    <2>2. CASE i \notin DOMAIN calls /\ j \in DOMAIN calls
        <3>1. calls'[j] = calls[j] /\ calls'[i].ctx # calls[j].ctx
            BY <1>1, <1>6, <2>2, CallsAre DEF IdleCtx, WInv
        <3> QED
            BY <1>1, <1>6, <2>2, <3>1 DEF Disjoint, Plays
    <2>3. CASE i \in DOMAIN calls /\ j \notin DOMAIN calls
        <3>1. calls'[i] = calls[i] /\ calls'[j].ctx # calls[i].ctx
            BY <1>1, <1>6, <2>3, CallsAre DEF IdleCtx, WInv
        <3> QED
            BY <1>1, <1>6, <2>3, <3>1 DEF Disjoint, Plays
    <2> QED
        BY <1>1, <2>1, <2>2, <2>3
<1>9. AllOwned'
    <2> SUFFICES ASSUME NEW d \in dcs'
                 PROVE  Owned(d)'
        BY DEF AllOwned
    <2>1. CASE d = move'[m].src
        BY <1>4, <2>1 DEF Owned
    <2>2. CASE d \in dcs
        <3>1. Owned(d)
            BY <2>2 DEF WInv, AllOwned
        <3>2. CASE \E x \in Moves : UnderWay(x) /\ move[x].src = d
            BY <1>4, <3>2 DEF Owned
        <3>3. CASE \E i \in DOMAIN calls : Plays(calls[i]) /\ d \in Pictures(calls[i].ctx)
            <4>1. PICK i \in DOMAIN calls : Plays(calls[i]) /\ d \in Pictures(calls[i].ctx)
                BY <3>3
            <4>2. i \in DOMAIN calls' /\ calls'[i] = calls[i] /\ ctx'[calls[i].ctx] = ctx[calls[i].ctx]
                BY <1>1, <1>6
            <4> QED
                BY <4>1, <4>2 DEF Owned, Pictures, Plays
        <3> QED
            BY <3>1, <3>2, <3>3 DEF Owned
    <2> QED
        BY <2>1, <2>2
<1> QED
    BY <1>3, <1>5, <1>7, <1>8, <1>9 DEF WInv, NoFault

(* A move goes on, perhaps with another picture or with none, ends, is run *)
(* or forgotten; if it was under way and is not any more, or has another   *)
(* picture, the one it had is deleted.                                     *)
NewPicture(m) ==
    /\ move'[m].src \notin dcs \ {move[m].src}
    /\ move'[m].src \in DCs \cup {Invalid}
    /\ dcs' = (dcs \ {move[m].src}) \cup ({move'[m].src} \ {Invalid})

LEMMA MoveGoesOn ==
    ASSUME WInv, WTyped', ~fault', calls' = calls, NEW m \in Moves,
           \A n \in Moves : n # m => move'[n] = move[n],
           SameHolders, \A w \in Windows : SameFreeze(w),
           move'[m].state \in {"READY", "RUNNING"} => move'[m].copy /\ move'[m].listed,
           move'[m].state = "none" => ~move'[m].copy /\ ~move'[m].listed,
           UnderWay(m)' => /\ UnderWay(m) /\ move'[m].hwnd = move[m].hwnd
                           /\ NewPicture(m) \/ (dcs' = dcs /\ move'[m].src = move[m].src),
           ~UnderWay(m)' => dcs' = IF UnderWay(m) THEN dcs \ {move[m].src} ELSE dcs,
           \A i \in DOMAIN calls :
               /\ ctx'[calls[i].ctx].life = ctx[calls[i].ctx].life
               /\ ctx'[calls[i].ctx].old = ctx[calls[i].ctx].old
               /\ Plays(calls[i]) => /\ ctx'[calls[i].ctx].src = ctx[calls[i].ctx].src
                                     /\ ctx'[calls[i].ctx].dst = ctx[calls[i].ctx].dst
               /\ ~Plays(calls[i]) /\ calls[i].move = m =>
                     /\ move'[m].state # "none"
                     /\ move'[m].copy => move'[m].state # "STOPPED"
    PROVE  WInv'
<1>1. Holding' /\ FrozenWhileHeld'
    BY HoldingStays DEF WInv
<1>2. /\ \A n \in Moves : n # m => (UnderWay(n)' <=> UnderWay(n)) /\ move'[n] = move[n]
      /\ \A n \in Moves : UnderWay(n)' => UnderWay(n)
    BY DEF UnderWay
<1>3. \A n \in Moves : UnderWay(n) => /\ move[n].src \in dcs \cup {Invalid}
                                      /\ n # m /\ UnderWay(m) /\ move[n].src = move[m].src =>
                                            move[n].src = Invalid
    BY DEF WInv, MovesOK
<1>4. dcs' = dcs \/ (UnderWay(m) /\ dcs \ {move[m].src} \subseteq dcs')
    BY DEF NewPicture
<1>5. \A n \in Moves : UnderWay(n)' /\ n # m => move[n].src \in dcs' \cup {Invalid}
    BY <1>2, <1>3, <1>4
<1>6. UnderWay(m)' =>
          /\ move'[m].src \in dcs' \cup {Invalid}
          /\ \A n \in Moves : UnderWay(n)' /\ n # m /\ move[n].src = move'[m].src =>
                move[n].src = Invalid
    <2> SUFFICES ASSUME UnderWay(m)'
                 PROVE  /\ move'[m].src \in dcs' \cup {Invalid}
                        /\ \A n \in Moves : UnderWay(n)' /\ n # m /\ move[n].src = move'[m].src =>
                              move[n].src = Invalid
        OBVIOUS
    <2>1. CASE dcs' = dcs /\ move'[m].src = move[m].src
        BY <1>2, <1>3, <2>1
    <2>2. CASE NewPicture(m)
        BY <1>2, <1>3, <2>2 DEF NewPicture
    <2> QED
        BY <2>1, <2>2
<1>7. MovesOK'
    <2> SUFFICES ASSUME NEW x \in Moves
                 PROVE  /\ move'[x].state \in {"READY", "RUNNING"} => move'[x].copy /\ move'[x].listed
                        /\ move'[x].state = "none" => ~move'[x].copy /\ ~move'[x].listed
                        /\ UnderWay(x)' =>
                              /\ move'[x].hwnd \in Windows /\ move'[x].src \in dcs' \cup {Invalid}
                              /\ \A c \in Contexts : Holds(c)' => ctx'[c].hwnd # move'[x].hwnd
                              /\ \A y \in Moves : UnderWay(y)' /\ move'[y].src = move'[x].src =>
                                    y = x \/ move'[x].src = Invalid
        BY DEF MovesOK
    <2>1. /\ move[x].state \in {"READY", "RUNNING"} => move[x].copy /\ move[x].listed
          /\ move[x].state = "none" => ~move[x].copy /\ ~move[x].listed
          /\ UnderWay(x) =>
                /\ move[x].hwnd \in Windows
                /\ \A c \in Contexts : Holds(c) => ctx[c].hwnd # move[x].hwnd
                /\ \A y \in Moves : UnderWay(y) /\ move[y].src = move[x].src =>
                      y = x \/ move[x].src = Invalid
        BY DEF WInv, MovesOK
    <2>2. CASE x = m
        <3>1. UnderWay(m)' => \A y \in Moves : UnderWay(y)' /\ move'[y].src = move'[m].src =>
                                                  y = m \/ move'[m].src = Invalid
            BY <1>2, <1>6
        <3> QED
            BY <1>6, <2>1, <2>2, <3>1 DEF SameHolders
    <2>3. CASE x # m
        <3>1. move'[x] = move[x] /\ (UnderWay(x)' <=> UnderWay(x))
            BY <1>2, <2>3
        <3>2. \A y \in Moves : UnderWay(x)' /\ UnderWay(y)' /\ move'[y].src = move'[x].src =>
                                  y = x \/ move'[x].src = Invalid
            BY <1>2, <1>6, <2>1, <2>3, <3>1
        <3> QED
            BY <1>5, <2>1, <2>3, <3>1, <3>2 DEF SameHolders
    <2> QED
        BY <2>2, <2>3
<1>8. ASSUME NEW i \in DOMAIN calls
      PROVE  CallOK(calls[i])
    BY <1>8 DEF WInv, CallsOK
<1>9. ASSUME NEW i \in DOMAIN calls, Plays(calls[i])
      PROVE  /\ Pictures(calls[i].ctx) \subseteq dcs'
             /\ UnderWay(m)' => move'[m].src \notin Pictures(calls[i].ctx)
    <2> DEFINE P == Pictures(calls[i].ctx)
    <2>1. P \subseteq dcs /\ (UnderWay(m) => move[m].src \notin P) /\ Invalid \notin P
        BY <1>8, <1>9 DEF CallOK, Pictures
    <2> HIDE DEF P
    <2>2. P \subseteq dcs' /\ (UnderWay(m)' => move'[m].src \notin P)
        BY <1>2, <1>4, <2>1 DEF NewPicture
    <2> QED
        BY <2>2 DEF P
<1>10. CallsOK'
    <2> SUFFICES ASSUME NEW i \in DOMAIN calls
                 PROVE  CallOK(calls[i])'
        BY DEF CallsOK
    <2> DEFINE j == calls[i]
    <2>1. /\ CallOK(j) /\ j' = j
          /\ ctx'[j.ctx].life = ctx[j.ctx].life /\ ctx'[j.ctx].old = ctx[j.ctx].old
          /\ Plays(j) => /\ ctx'[j.ctx].src = ctx[j.ctx].src /\ ctx'[j.ctx].dst = ctx[j.ctx].dst
                         /\ Pictures(j.ctx) \subseteq dcs'
                         /\ UnderWay(m)' => move'[m].src \notin Pictures(j.ctx)
          /\ ~Plays(j) /\ j.move = m => /\ move'[m].state # "none"
                                        /\ move'[m].copy => move'[m].state # "STOPPED"
        BY <1>8, <1>9
    <2> HIDE DEF j
    <2>2. \A x \in Moves : Plays(j) /\ UnderWay(x)' => move'[x].src \notin Pictures(j.ctx)
        BY <1>2, <2>1 DEF CallOK
    <2>3. CallOK(j)'
        BY <1>2, <2>1, <2>2 DEF CallOK, Pictures, Plays
    <2> QED
        BY <2>3 DEF j
<1>11. Apart'
    BY DEF WInv, Apart, Disjoint, Pictures, Plays
<1>12. AllOwned'
    <2> SUFFICES ASSUME NEW d \in dcs'
                 PROVE  Owned(d)'
        BY DEF AllOwned
    <2>1. CASE UnderWay(m)' /\ d = move'[m].src
        BY <2>1 DEF Owned
    <2>2. CASE ~(UnderWay(m)' /\ d = move'[m].src)
        <3>1. d \in dcs /\ (UnderWay(m) => d # move[m].src)
            BY <2>2 DEF NewPicture
        <3>2. Owned(d)
            BY <3>1 DEF WInv, AllOwned
        <3>3. CASE \E x \in Moves : UnderWay(x) /\ move[x].src = d
            <4>1. PICK x \in Moves : UnderWay(x) /\ move[x].src = d
                BY <3>3
            <4>2. x # m
                BY <3>1, <4>1
            <4> QED
                BY <1>2, <4>1, <4>2 DEF Owned
        <3>4. CASE \E i \in DOMAIN calls : Plays(calls[i]) /\ d \in Pictures(calls[i].ctx)
            BY <3>4 DEF Owned, Pictures, Plays
        <3> QED
            BY <3>2, <3>3, <3>4 DEF Owned
    <2> QED
        BY <2>1, <2>2
<1> QED
    BY <1>1, <1>7, <1>10, <1>11, <1>12 DEF WInv, NoFault

(* The pictures of the waiting calls are not those of a move.              *)
LEMMA PicturesStay ==
    ASSUME WInv, NEW m \in Moves, UnderWay(m), ctx' = CtxWithout({move[m].src})
    PROVE  /\ ctx' \in [Contexts -> CtxType] /\ SameHolders
           /\ \A i \in DOMAIN calls :
               /\ ctx'[calls[i].ctx].life = ctx[calls[i].ctx].life
               /\ ctx'[calls[i].ctx].old = ctx[calls[i].ctx].old
               /\ Plays(calls[i]) => /\ ctx'[calls[i].ctx].src = ctx[calls[i].ctx].src
                                     /\ ctx'[calls[i].ctx].dst = ctx[calls[i].ctx].dst
<1> DEFINE D == {move[m].src}
           x == ctx'
<1>1. WTyped /\ D \subseteq DCs \cup {NoDC, Invalid}
    BY TypesAre DEF WInv, MoveType
<1>2. x = CtxWithout(D)
    OBVIOUS
<1> HIDE DEF D, x
<1>3. /\ x \in [Contexts -> CtxType]
      /\ \A c \in Contexts :
            /\ x[c].life = ctx[c].life /\ x[c].old = ctx[c].old
            /\ x[c].hwnd = ctx[c].hwnd
            /\ Pictures(c) \cap D = {} =>
                  x[c].src = ctx[c].src /\ x[c].dst = ctx[c].dst
    BY <1>1, <1>2, CtxCut
<1>4. SameHolders
    BY <1>3 DEF x, SameHolders, Holds, WInv, Holding
<1>5. ASSUME NEW i \in DOMAIN calls
      PROVE  /\ calls[i].ctx \in Contexts
             /\ Plays(calls[i]) => Pictures(calls[i].ctx) \cap D = {}
    BY <1>1, <1>5, CallsAre DEF WInv, CallsOK, CallOK, D
<1> QED
    BY <1>3, <1>4, <1>5 DEF x

LEMMA OneMove ==
    ASSUME WTyped, NEW m \in Moves, NEW x \in MoveType, move' = [move EXCEPT ![m] = x]
    PROVE  /\ move' \in [Moves -> MoveType] /\ move'[m] = x
           /\ \A n \in Moves : n # m => move'[n] = move[n]
BY TypesAre

(* The move of a waiting call is under way until it is over.               *)
LEMMA MoveOf ==
    ASSUME WInv, NEW i \in DOMAIN calls, ~Plays(calls[i])
    PROVE  /\ calls[i].move \in Moves /\ move[calls[i].move].state # "none"
           /\ move[calls[i].move].copy => move[calls[i].move].state # "STOPPED"
           /\ calls[i] \in Calling
BY CallsAre DEF WInv, CallsOK, CallOK

(* The window of a move that is under way is not held.                     *)
LEMMA MovedWindow ==
    ASSUME WInv, NEW m \in Moves, move[m].state \in {"READY", "RUNNING"}
    PROVE  /\ UnderWay(m) /\ move[m].copy /\ move[m].listed /\ move[m].hwnd \in Windows
           /\ move[m].src \in dcs \cup {Invalid} /\ move[m] \in MoveType
           /\ win[move[m].hwnd] \in WinType
           /\ \A c \in Contexts : Holds(c) => ctx[c].hwnd # move[m].hwnd
<1>1. UnderWay(m) /\ move[m].copy /\ move[m].listed
    BY DEF WInv, MovesOK, UnderWay
<1> QED
    BY <1>1, TypesAre DEF WInv, MovesOK

(* Drawn at r, in the size it has or in another.                           *)
DrawnSame(m) == dcs' = dcs /\ ctx' = ctx /\ move'[m].src = move[m].src
DrawnNew(m) == NewPicture(m) /\ ctx' = CtxWithout({move[m].src})

LEMMA DrawnIs ==
    ASSUME WInv, NEW m \in Moves, NEW r \in Places, UnderWay(m), Generate(m, r)
    PROVE  /\ DrawnSame(m) \/ DrawnNew(m)
           /\ dcs' \subseteq DCs
           /\ move'[m] \in MoveType /\ move'[m].state = "RUNNING"
           /\ move'[m].copy = move[m].copy /\ move'[m].listed = move[m].listed
           /\ move'[m].hwnd = move[m].hwnd
           /\ move' \in [Moves -> MoveType] /\ \A n \in Moves : n # m => move'[n] = move[n]
<1>1. WTyped /\ move[m] \in MoveType /\ dcs \subseteq DCs /\ move \in [Moves -> MoveType]
    BY TypesAre DEF WInv
<1> DEFINE old == move[m].src
           others == dcs \ {old}
<1>2. CASE Resized(m, r)
    <2>1. PICK d \in MaybeDC(others) :
              /\ move' = [move EXCEPT ![m].state = "RUNNING", ![m].new = r, ![m].src = d]
              /\ dcs' = others \cup Made({d})
        BY <1>2 DEF Generate
    <2>2. ctx' = CtxWithout({old})
        BY <1>2 DEF Generate
    <2> HIDE DEF others
    <2>3. d \in DCs \cup {Invalid} /\ d \notin others /\ dcs' = others \cup ({d} \ {Invalid})
        <3>1. Invalid \notin others
            BY <1>1, NotDCs DEF others
        <3> QED
            BY <2>1, <3>1 DEF MaybeDC, NextDC, Made
    <2> DEFINE x == [move[m] EXCEPT !.state = "RUNNING", !.new = r, !.src = d]
    <2>4. move' = [move EXCEPT ![m] = x]
        BY <1>1, <2>1
    <2>5. /\ x \in MoveType /\ x.state = "RUNNING" /\ x.copy = move[m].copy
          /\ x.listed = move[m].listed /\ x.hwnd = move[m].hwnd /\ x.src = d
        BY <1>1, <2>3 DEF MoveType
    <2> HIDE DEF x
    <2>6. /\ move' \in [Moves -> MoveType] /\ move'[m] = x
          /\ \A n \in Moves : n # m => move'[n] = move[n]
        BY <1>1, <2>4, <2>5, OneMove
    <2>7. NewPicture(m)
        BY <2>3, <2>5, <2>6 DEF NewPicture, others
    <2>8. dcs' \subseteq DCs
        BY <1>1, <2>3 DEF others
    <2> QED
        BY <2>2, <2>5, <2>6, <2>7, <2>8 DEF DrawnNew
<1>3. CASE ~Resized(m, r)
    <2>1. /\ move' = [move EXCEPT ![m].state = "RUNNING", ![m].new = r]
          /\ ctx' = ctx /\ dcs' = dcs
        BY <1>3 DEF Generate
    <2> DEFINE x == [move[m] EXCEPT !.state = "RUNNING", !.new = r]
    <2>2. move' = [move EXCEPT ![m] = x]
        BY <1>1, <2>1
    <2>3. /\ x \in MoveType /\ x.state = "RUNNING" /\ x.copy = move[m].copy
          /\ x.listed = move[m].listed /\ x.hwnd = move[m].hwnd /\ x.src = old
        BY <1>1 DEF MoveType
    <2> HIDE DEF x
    <2>4. /\ move' \in [Moves -> MoveType] /\ move'[m] = x
          /\ \A n \in Moves : n # m => move'[n] = move[n]
        BY <1>1, <2>2, <2>3, OneMove
    <2> QED
        BY <1>1, <2>1, <2>3, <2>4 DEF DrawnSame
<1> QED
    BY <1>2, <1>3

LEMMA GenerateKeeps ==
    ASSUME WInv, NEW m \in Moves, NEW r \in Places, move[m].state \in {"READY", "RUNNING"},
           Generate(m, r), UNCHANGED <<info, calls>>
    PROVE  WInv'
<1> DEFINE w == move[m].hwnd
           v == IF move[m].state = "READY" THEN "moving" ELSE win[w].vis
           y == [win[w] EXCEPT !.vis = v]
           z == [y EXCEPT !.at = r, !.frozen = FALSE]
<1>1. /\ WTyped /\ UnderWay(m) /\ move[m].copy /\ move[m].listed /\ w \in Windows
      /\ move[m].src \in dcs \cup {Invalid} /\ move[m] \in MoveType /\ win[w] \in WinType
      /\ \A c \in Contexts : Holds(c) => ctx[c].hwnd # w
    BY MovedWindow DEF WInv
<1>2. /\ DrawnSame(m) \/ DrawnNew(m)
      /\ dcs' \subseteq DCs
      /\ move'[m] \in MoveType /\ move'[m].state = "RUNNING"
      /\ move'[m].copy = move[m].copy /\ move'[m].listed = move[m].listed
      /\ move'[m].hwnd = move[m].hwnd
      /\ move' \in [Moves -> MoveType] /\ \A n \in Moves : n # m => move'[n] = move[n]
    BY <1>1, DrawnIs
<1>3. win' = [win EXCEPT ![w] = z] \/ win' = [win EXCEPT ![w] = y]
    BY DEF Generate
<1>4. fault' = (fault \/ ~move[m].copy \/ Stale({move[m].src}))
    BY DEF Generate
<1>5. v \in {"hidden", "shown", "moving"}
    BY <1>1 DEF WinType
<1> HIDE DEF w, v
<1>6. /\ y \in WinType /\ y.frozen = win[w].frozen /\ y.live = win[w].live /\ y.sec = win[w].sec
    BY <1>1, <1>5 DEF WinType
<1> HIDE DEF y
<1>7. /\ z \in WinType /\ ~z.frozen /\ z.live = win[w].live /\ z.sec = win[w].sec
    BY <1>6 DEF WinType
<1> HIDE DEF z
<1>8. win' \in [Windows -> WinType] /\ \A u \in Windows : SameFreeze(u)
    <2>1. PICK t \in {y, z} : win' = [win EXCEPT ![w] = t]
        BY <1>3
    <2>2. /\ win' \in [Windows -> WinType] /\ win'[w] = t
          /\ \A u \in Windows : u # w => win'[u] = win[u]
        BY <1>1, <1>6, <1>7, <2>1, OneWindow
    <2> QED
        BY <1>1, <1>6, <1>7, <2>2 DEF SameFreeze
<1>9. /\ ctx' \in [Contexts -> CtxType] /\ SameHolders
      /\ \A i \in DOMAIN calls :
          /\ ctx'[calls[i].ctx].life = ctx[calls[i].ctx].life
          /\ ctx'[calls[i].ctx].old = ctx[calls[i].ctx].old
          /\ Plays(calls[i]) => /\ ctx'[calls[i].ctx].src = ctx[calls[i].ctx].src
                                /\ ctx'[calls[i].ctx].dst = ctx[calls[i].ctx].dst
    <2>1. CASE ctx' = CtxWithout({move[m].src})
        BY <1>1, <2>1, PicturesStay
    <2>2. CASE ctx' = ctx
        BY <1>1, <2>2, TypesAre DEF SameHolders, Holds, WInv, Holding
    <2> QED
        BY <1>2, <2>1, <2>2 DEF DrawnSame, DrawnNew
<1>10. ~Stale({move[m].src})
    BY <1>1 DEF Stale, Made
<1>11. WTyped' /\ ~fault'
    BY <1>1, <1>2, <1>4, <1>8, <1>9, <1>10 DEF WInv, WTyped, TypeOK, NoFault
<1>12. UnderWay(m)'
    BY <1>1, <1>2 DEF UnderWay
<1>13. NewPicture(m) \/ (dcs' = dcs /\ move'[m].src = move[m].src)
    BY <1>2 DEF DrawnSame, DrawnNew
<1>14. calls' = calls
    OBVIOUS
<1> QED
    BY <1>1, <1>2, <1>8, <1>9, <1>11, <1>12, <1>13, <1>14, MoveGoesOn

LEMMA FinishKeeps ==
    ASSUME WInv, NEW m \in Moves, NEW r \in Places, NEW frozen \in BOOLEAN,
           move[m].state \in {"READY", "RUNNING"}, frozen => win[move[m].hwnd].frozen,
           Finish(m, r, frozen), UNCHANGED <<info, calls>>
    PROVE  WInv'
<1> DEFINE w == move[m].hwnd
           x == Over(m)
           y == [win[w] EXCEPT !.at = r, !.vis = "shown", !.frozen = frozen]
<1>1. /\ WTyped /\ UnderWay(m) /\ move[m].copy /\ w \in Windows
      /\ move[m].src \in dcs \cup {Invalid} /\ move[m] \in MoveType /\ win[w] \in WinType
      /\ \A c \in Contexts : Holds(c) => ctx[c].hwnd # w
    BY MovedWindow DEF WInv
<1>2. /\ move' = [move EXCEPT ![m] = x] /\ dcs' = dcs \ {move[m].src}
      /\ ctx' = CtxWithout({move[m].src})
      /\ fault' = (fault \/ ~move[m].copy \/ Stale({move[m].src}))
      /\ win' = [win EXCEPT ![w].at = r, ![w].vis = "shown", ![w].frozen = frozen]
    BY DEF Finish
<1>3. win' = [win EXCEPT ![w] = y]
    BY <1>1, <1>2, TypesAre
<1> HIDE DEF w
<1>4. x \in MoveType /\ x.state = "STOPPED" /\ ~x.copy
    BY <1>1, NothingIs DEF Over, MoveType, NoAnim
<1>5. y \in WinType /\ y.frozen = frozen /\ y.live = win[w].live /\ y.sec = win[w].sec
    BY <1>1 DEF WinType
<1> HIDE DEF x, y
<1>6. /\ move' \in [Moves -> MoveType] /\ move'[m] = x
      /\ \A n \in Moves : n # m => move'[n] = move[n]
    BY <1>1, <1>2, <1>4, OneMove
<1>7. win' \in [Windows -> WinType] /\ \A u \in Windows : SameFreeze(u)
    <2>1. /\ win' \in [Windows -> WinType] /\ win'[w] = y
          /\ \A u \in Windows : u # w => win'[u] = win[u]
        BY <1>1, <1>3, <1>5, OneWindow
    <2>2. frozen = win[w].frozen \/ ~frozen
        BY <1>1 DEF w, WinType
    <2> QED
        BY <1>1, <1>5, <2>1, <2>2 DEF SameFreeze
<1>8. /\ ctx' \in [Contexts -> CtxType] /\ SameHolders
      /\ \A i \in DOMAIN calls :
          /\ ctx'[calls[i].ctx].life = ctx[calls[i].ctx].life
          /\ ctx'[calls[i].ctx].old = ctx[calls[i].ctx].old
          /\ Plays(calls[i]) => /\ ctx'[calls[i].ctx].src = ctx[calls[i].ctx].src
                                /\ ctx'[calls[i].ctx].dst = ctx[calls[i].ctx].dst
    BY <1>1, <1>2, PicturesStay
<1>9. WTyped' /\ ~fault'
    BY <1>1, <1>2, <1>6, <1>7, <1>8 DEF WInv, WTyped, TypeOK, NoFault, Stale, Made
<1>10. ~UnderWay(m)' /\ calls' = calls
    BY <1>4, <1>6 DEF UnderWay
<1> QED
    BY <1>1, <1>2, <1>4, <1>6, <1>7, <1>8, <1>9, <1>10, MoveGoesOn

(* The schedular updates a move.                                           *)
LEMMA UpdateKeeps ==
    ASSUME WInv, NEW m \in Moves, Start(m) \/ Draw(m) \/ Arrive(m) \/ Stop(m)
    PROVE  WInv'
<1>1. move[m].state \in {"READY", "RUNNING"}
    BY DEF Start, Draw, Arrive, Stop
<1>2. move[m] \in MoveType /\ win[move[m].hwnd] \in WinType
    BY <1>1, MovedWindow
<1>3. move[m].old \in Places /\ move[m].new \in Places /\ move[m].target \in Places
    BY <1>2 DEF MoveType
<1>4. CASE Start(m)
    BY <1>1, <1>3, <1>4, GenerateKeeps DEF Start
<1>5. CASE Draw(m)
    BY <1>1, <1>5, GenerateKeeps DEF Draw
<1>6. CASE Arrive(m)
    <2> DEFINE f == win[move[m].hwnd].frozen /\ ~Resized(m, move[m].target)
    <2>1. Finish(m, move[m].target, f) /\ UNCHANGED <<info, calls>>
        BY <1>6 DEF Arrive
    <2>2. f \in BOOLEAN /\ (f => win[move[m].hwnd].frozen)
        OBVIOUS
    <2> HIDE DEF f
    <2> QED
        BY <1>1, <1>3, <2>1, <2>2, FinishKeeps
<1>7. CASE Stop(m)
    <2> DEFINE f == win[move[m].hwnd].frozen
    <2>1. Finish(m, move[m].new, f) /\ UNCHANGED <<info, calls>>
        BY <1>7 DEF Stop
    <2>2. f \in BOOLEAN
        BY <1>2 DEF WinType
    <2> HIDE DEF f
    <2> QED
        BY <1>1, <1>3, <2>1, <2>2, FinishKeeps DEF f
<1> QED
    BY <1>4, <1>5, <1>6, <1>7

(* Run, removed from the schedular's list, deleted.                        *)
LEMMA AnimationKeeps ==
    ASSUME AllRules, WInv, NEW m \in Moves, AsyncRun(m) \/ Unlist(m) \/ DeleteMove(m)
    PROVE  WInv'
<1>1. WTyped /\ UNCHANGED <<win, ctx, info, calls, dcs, fault>> /\ move[m] \in MoveType
    BY TypesAre DEF AsyncRun, Unlist, DeleteMove, WInv
<1>2. ASSUME NEW x \in MoveType, move' = [move EXCEPT ![m] = x],
             x.state \in {"READY", "RUNNING"} => x.copy /\ x.listed,
             x.state = "none" => ~x.copy /\ ~x.listed,
             x.copy => x.state # "none" /\ UnderWay(m) /\ x.src = move[m].src /\ x.hwnd = move[m].hwnd,
             ~x.copy => ~UnderWay(m),
             \A i \in DOMAIN calls : ~Plays(calls[i]) /\ calls[i].move = m =>
                   x.state # "none" /\ (x.copy => x.state # "STOPPED")
      PROVE  WInv'
    <2>1. /\ move' \in [Moves -> MoveType] /\ move'[m] = x
          /\ \A n \in Moves : n # m => move'[n] = move[n]
        BY <1>1, <1>2, OneMove
    <2>2. WTyped' /\ ~fault'
        BY <1>1, <2>1 DEF WInv, WTyped, TypeOK, NoFault
    <2>3. SameHolders /\ \A w \in Windows : SameFreeze(w)
        BY <1>1, WindowsKept DEF SameHolders, Holds, WInv, Holding
    <2>4. /\ UnderWay(m)' => x.copy
          /\ x.copy => UnderWay(m)'
        BY <1>2, <2>1 DEF UnderWay
    <2> QED
        BY <1>1, <1>2, <2>1, <2>2, <2>3, <2>4, MoveGoesOn
<1>3. CASE AsyncRun(m)
    <2> DEFINE s == IF move[m].state = "STOPPED" THEN "READY" ELSE move[m].state
               x == Run(m)
    <2>1. /\ move[m].state # "none" /\ move[m].copy /\ move' = [move EXCEPT ![m] = x]
          /\ \A k \in Calling : k.move # m
        BY <1>3, RulesAre DEF AsyncRun
    <2>2. x = [move[m] EXCEPT !.state = s, !.listed = TRUE]
        BY <1>1 DEF Run, MoveType
    <2>3. s \in {"READY", "RUNNING"}
        BY <1>1, <2>1 DEF MoveType
    <2> HIDE DEF s, x
    <2>4. /\ x \in MoveType /\ x.state = s /\ x.listed /\ x.copy
          /\ x.src = move[m].src /\ x.hwnd = move[m].hwnd
        BY <1>1, <2>1, <2>2, <2>3 DEF MoveType
    <2>5. \A i \in DOMAIN calls : calls[i].move # m
        BY <1>1, <2>1, CallsAre
    <2>6. UnderWay(m)
        BY <2>1 DEF UnderWay
    <2> QED
        BY <1>2, <2>1, <2>3, <2>4, <2>5, <2>6
<1>4. CASE Unlist(m)
    <2> DEFINE x == [move[m] EXCEPT !.listed = FALSE]
    <2>1. move[m].state = "STOPPED" /\ move' = [move EXCEPT ![m] = x]
        BY <1>1, <1>4, TypesAre DEF Unlist
    <2>2. /\ x \in MoveType /\ x.state = "STOPPED" /\ x.copy = move[m].copy
          /\ x.src = move[m].src /\ x.hwnd = move[m].hwnd
        BY <1>1, <2>1 DEF MoveType
    <2> HIDE DEF x
    <2>3. UnderWay(m) <=> move[m].copy
        BY <2>1 DEF UnderWay
    <2>4. \A i \in DOMAIN calls : ~Plays(calls[i]) /\ calls[i].move = m => ~move[m].copy
        BY <2>1, MoveOf
    <2> QED
        BY <1>2, <2>1, <2>2, <2>3, <2>4
<1>5. CASE DeleteMove(m)
    <2>1. ~move[m].copy /\ move' = [move EXCEPT ![m] = NoAnim] /\ \A k \in Calling : k.move # m
        BY <1>5, RulesAre DEF DeleteMove
    <2>2. \A i \in DOMAIN calls : calls[i].move # m
        BY <1>1, <2>1, CallsAre
    <2>3. ~UnderWay(m)
        BY <2>1 DEF UnderWay
    <2>4. NoAnim.state = "none" /\ ~NoAnim.copy /\ ~NoAnim.listed /\ NoAnim \in MoveType
        BY NothingIs DEF NoAnim
    <2> QED
        BY <1>2, <2>1, <2>2, <2>3, <2>4
<1> QED
    BY <1>3, <1>4, <1>5

(* A new move, with a picture.                                             *)
LEMMA NewMove ==
    ASSUME NEW w \in Windows, NEW p \in Places, WTyped, NEW d \in DCs
    PROVE  LET x == Prepared(w, p, d) IN
           /\ x \in MoveType /\ x.state = "STOPPED" /\ ~x.listed /\ x.copy
           /\ x.hwnd = w /\ x.src = d
<1> DEFINE at == win[w].at
<1>1. at \in Places
    BY TypesAre DEF WinType
<1>2. Prepared(w, p, d) =
          [state |-> "STOPPED", listed |-> FALSE, copy |-> TRUE, hwnd |-> w, src |-> d,
           old |-> at, new |-> at, target |-> p]
    BY DEF Prepared
<1> HIDE DEF at
<1> QED
    BY <1>1, <1>2 DEF MoveType

(* mGEffMoveWindowPreparation and mGEffMoveWindow take the picture.        *)
LEMMA PreparedIs ==
    ASSUME AllRules, WInv, NEW c \in Contexts, NEW w \in Windows, MayUse(c, w), NEW f \in NextDC(dcs),
           ctx' = [ctx EXCEPT ![c].src = f], dcs' = dcs \cup {f},
           win' = [win EXCEPT ![w] = Foreground(w, FALSE)],
           fault' = (fault \/ ctx[c].life # "live")
    PROVE  /\ ctx' \in [Contexts -> CtxType] /\ win' \in [Windows -> WinType]
           /\ dcs' \subseteq DCs /\ ~fault' /\ f \notin dcs /\ f \in DCs
           /\ \A v \in Windows : SameFreeze(v)
           /\ IdleCtx(c) /\ ctx'[c].life = "live" /\ ctx'[c].old = "invalid"
           /\ \A d \in Contexts : d # c => ctx'[d] = ctx[d]
           /\ \A d \in Contexts : Holds(d) => ctx[d].hwnd # w
<1> DEFINE y == [ctx[c] EXCEPT !.src = f]
<1>1. WTyped
    BY DEF WInv
<1>2. /\ IdleCtx(c) /\ ctx[c].life = "live" /\ ctx[c].old = "invalid"
      /\ \A d \in Contexts : Holds(d) => ctx[d].hwnd # w
    BY MayUseIs
<1>3. f \in DCs /\ f \notin dcs /\ ctx[c] \in CtxType /\ dcs \subseteq DCs
    BY <1>1, TypesAre DEF NextDC
<1>4. ctx' = [ctx EXCEPT ![c] = y]
    BY <1>1, TypesAre
<1>5. y \in CtxType /\ y.life = "live" /\ y.old = "invalid"
    BY <1>2, <1>3 DEF CtxType
<1> HIDE DEF y
<1>6. ctx' \in [Contexts -> CtxType] /\ ctx'[c] = y /\ \A d \in Contexts : d # c => ctx'[d] = ctx[d]
    BY <1>1, <1>4, <1>5, OneContext
<1>7. win' \in [Windows -> WinType] /\ \A v \in Windows : SameFreeze(v)
    <2>1. FALSE \in BOOLEAN
        OBVIOUS
    <2> QED
        BY <2>1, ForegroundIs
<1>8. dcs' \subseteq DCs /\ ~fault'
    BY <1>2, <1>3 DEF WInv, NoFault
<1> QED
    BY <1>2, <1>3, <1>5, <1>6, <1>7, <1>8

LEMMA PrepareKeeps ==
    ASSUME AllRules, WInv, NEW m \in Moves, NEW c \in Contexts, NEW w \in Windows,
           NEW p \in Places, Prepare(m, c, w, p)
    PROVE  WInv'
<1>1. PICK f \in NextDC(dcs) :
          /\ move' = [move EXCEPT ![m] = Prepared(w, p, f)]
          /\ ctx' = [ctx EXCEPT ![c].src = f]
          /\ dcs' = dcs \cup {f}
    BY DEF Prepare
<1> DEFINE x == Prepared(w, p, f)
<1>2. /\ WTyped /\ move[m].state = "none" /\ MayUse(c, w) /\ f \in DCs
      /\ move' = [move EXCEPT ![m] = x]
      /\ ctx' = [ctx EXCEPT ![c].src = f] /\ dcs' = dcs \cup {f}
      /\ win' = [win EXCEPT ![w] = Foreground(w, FALSE)]
      /\ fault' = (fault \/ ctx[c].life # "live") /\ info' = info /\ calls' = calls
    BY <1>1 DEF Prepare, WInv, NextDC
<1>3. /\ x \in MoveType /\ x.state = "STOPPED" /\ ~x.listed /\ x.copy
      /\ x.hwnd = w /\ x.src = f
    BY <1>2, NewMove
<1> HIDE DEF x
<1>4. /\ move' \in [Moves -> MoveType] /\ move'[m] = x
      /\ \A n \in Moves : n # m => move'[n] = move[n]
    BY <1>2, <1>3, OneMove
<1>5. /\ ctx' \in [Contexts -> CtxType] /\ win' \in [Windows -> WinType]
      /\ dcs' \subseteq DCs /\ ~fault' /\ f \notin dcs
      /\ \A v \in Windows : SameFreeze(v)
      /\ IdleCtx(c) /\ ctx'[c].life = "live" /\ ctx'[c].old = "invalid"
      /\ \A d \in Contexts : d # c => ctx'[d] = ctx[d]
      /\ \A d \in Contexts : Holds(d) => ctx[d].hwnd # w
    BY <1>2, PreparedIs
<1>6. WTyped'
    BY <1>2, <1>4, <1>5 DEF WTyped, TypeOK
<1> QED
    BY <1>2, <1>3, <1>4, <1>5, <1>6, MoveBegins

LEMMA MoveWindowKeeps ==
    ASSUME AllRules, WInv, NEW m \in Moves, NEW c \in Contexts, NEW w \in Windows,
           NEW p \in Places, MoveWindow(m, c, w, p)
    PROVE  WInv'
<1>1. PICK f \in NextDC(dcs) :
          /\ move' = [move EXCEPT ![m] = [Prepared(w, p, f) EXCEPT !.state = "READY", !.listed = TRUE]]
          /\ ctx' = [ctx EXCEPT ![c].src = f]
          /\ dcs' = dcs \cup {f}
    BY DEF MoveWindow
<1> DEFINE y == Prepared(w, p, f)
           x == [y EXCEPT !.state = "READY", !.listed = TRUE]
           k == Call(c, w, "move", m)
<1>2. /\ WTyped /\ move[m].state = "none" /\ MayCall /\ MayUse(c, w) /\ f \in DCs
      /\ move' = [move EXCEPT ![m] = x]
      /\ ctx' = [ctx EXCEPT ![c].src = f] /\ dcs' = dcs \cup {f}
      /\ win' = [win EXCEPT ![w] = Foreground(w, FALSE)]
      /\ fault' = (fault \/ ctx[c].life # "live") /\ info' = info /\ calls' = Append(calls, k)
    BY <1>1 DEF MoveWindow, WInv, NextDC
<1>3. k \in CallType /\ k.ctx = c /\ ~Plays(k) /\ k.move = m
    BY CallIs DEF Plays
<1>4. /\ x \in MoveType /\ x.state = "READY" /\ x.listed /\ x.copy
      /\ x.hwnd = w /\ x.src = f
    <2>1. y \in MoveType /\ y.copy /\ y.hwnd = w /\ y.src = f
        BY <1>2, NewMove
    <2> HIDE DEF y
    <2> QED
        BY <2>1 DEF MoveType
<1> HIDE DEF x, y, k
<1>5. /\ move' \in [Moves -> MoveType] /\ move'[m] = x
      /\ \A n \in Moves : n # m => move'[n] = move[n]
    BY <1>2, <1>4, OneMove
<1>6. /\ ctx' \in [Contexts -> CtxType] /\ win' \in [Windows -> WinType]
      /\ dcs' \subseteq DCs /\ ~fault' /\ f \notin dcs
      /\ \A v \in Windows : SameFreeze(v)
      /\ IdleCtx(c) /\ ctx'[c].life = "live" /\ ctx'[c].old = "invalid"
      /\ \A d \in Contexts : d # c => ctx'[d] = ctx[d]
      /\ \A d \in Contexts : Holds(d) => ctx[d].hwnd # w
    BY <1>2, PreparedIs
<1>7. calls' \in Seq(CallType) /\ Len(calls') <= MaxDepth
    BY <1>2, <1>3, AppendIs
<1>8. WTyped'
    BY <1>2, <1>5, <1>6, <1>7 DEF WTyped, TypeOK
<1> QED
    BY <1>2, <1>3, <1>4, <1>5, <1>6, <1>8, MoveBegins

(* The move a call has waited for is over.                                 *)
LEMMA MoveReturnKeeps ==
    ASSUME WInv, MoveReturn
    PROVE  WInv'
<1> DEFINE n == Len(calls)
           k == calls[n]
           m == k.move
<1>1. /\ WTyped /\ calls # <<>> /\ ~Plays(k) /\ ~move[m].listed
      /\ move' = [move EXCEPT ![m] = NoAnim] /\ calls' = Return
      /\ UNCHANGED <<win, ctx, info, dcs, fault>>
    BY DEF MoveReturn, WInv, Plays, Waits
<1>2. /\ n \in DOMAIN calls /\ DOMAIN calls' = DOMAIN calls \ {n}
      /\ calls' \in Seq(CallType) /\ Len(calls') <= MaxDepth
      /\ \A i \in DOMAIN calls' : calls'[i] = calls[i]
    BY <1>1, ReturnIs
<1>3. /\ m \in Moves /\ move[m].state # "none"
      /\ move[m].copy => move[m].state # "STOPPED"
    BY <1>1, <1>2, MoveOf
<1>4. ASSUME NEW i \in DOMAIN calls'
      PROVE  /\ i \in DOMAIN calls /\ i # n /\ CallOK(calls[i])
             /\ ~Plays(calls[i]) => calls[i].move # m
    BY <1>1, <1>2, <1>4 DEF WInv, CallsOK, Apart, Disjoint
<1>5. \A i \in DOMAIN calls : i # n => i \in DOMAIN calls'
    BY <1>2
<1>6. ~UnderWay(m)
    <2>1. move[m].state \in {"none", "STOPPED", "READY", "RUNNING"}
        BY <1>1, <1>3, TypesAre DEF MoveType
    <2>2. move[m].state \notin {"READY", "RUNNING"}
        BY <1>1, <1>3 DEF WInv, MovesOK
    <2> QED
        BY <1>3, <2>1, <2>2 DEF UnderWay
<1>7. ~Plays(k)
    BY <1>1
<1> HIDE DEF m, k, n
<1>8. /\ move' \in [Moves -> MoveType] /\ move'[m] = NoAnim
      /\ \A x \in Moves : x # m => move'[x] = move[x]
    BY <1>1, <1>3, NothingIs, OneMove
<1>9. NoAnim.state = "none" /\ ~NoAnim.copy /\ ~NoAnim.listed
    BY DEF NoAnim
<1>10. WTyped' /\ NoFault'
    BY <1>1, <1>2, <1>8 DEF WInv, WTyped, TypeOK, NoFault
<1>11. Holding' /\ FrozenWhileHeld'
    BY <1>1 DEF WInv, Holding, FrozenWhileHeld, Holds
<1>12. \A x \in Moves : /\ UnderWay(x)' <=> UnderWay(x)
                        /\ UnderWay(x) => move'[x] = move[x]
    BY <1>6, <1>8, <1>9 DEF UnderWay
<1>13. MovesOK'
    <2> SUFFICES ASSUME NEW x \in Moves
                 PROVE  /\ move'[x].state \in {"READY", "RUNNING"} => move'[x].copy /\ move'[x].listed
                        /\ move'[x].state = "none" => ~move'[x].copy /\ ~move'[x].listed
                        /\ UnderWay(x)' =>
                              /\ move'[x].hwnd \in Windows /\ move'[x].src \in dcs' \cup {Invalid}
                              /\ \A c \in Contexts : Holds(c)' => ctx'[c].hwnd # move'[x].hwnd
                              /\ \A y \in Moves : UnderWay(y)' /\ move'[y].src = move'[x].src =>
                                    y = x \/ move'[x].src = Invalid
        BY DEF MovesOK
    <2>1. CASE x = m
        BY <1>6, <1>8, <1>9, <1>12, <2>1
    <2>2. CASE x # m
        <3>1. /\ move[x].state \in {"READY", "RUNNING"} => move[x].copy /\ move[x].listed
              /\ move[x].state = "none" => ~move[x].copy /\ ~move[x].listed
              /\ UnderWay(x) =>
                    /\ move[x].hwnd \in Windows /\ move[x].src \in dcs \cup {Invalid}
                    /\ \A c \in Contexts : Holds(c) => ctx[c].hwnd # move[x].hwnd
                    /\ \A y \in Moves : UnderWay(y) /\ move[y].src = move[x].src =>
                          y = x \/ move[x].src = Invalid
            BY DEF WInv, MovesOK
        <3>2. move'[x] = move[x] /\ \A c \in Contexts : Holds(c)' <=> Holds(c)
            BY <1>1, <1>8, <2>2 DEF Holds
        <3> QED
            BY <1>1, <1>12, <3>1, <3>2
    <2> QED
        BY <2>1, <2>2
<1>14. CallsOK'
    <2> SUFFICES ASSUME NEW i \in DOMAIN calls'
                 PROVE  CallOK(calls[i])'
        BY DEF CallsOK
    <2> DEFINE j == calls[i]
    <2>1. CallOK(j) /\ j' = j /\ (~Plays(j) => j.move # m)
        BY <1>2, <1>4
    <2> HIDE DEF j
    <2>2. CallOK(j)'
        BY <1>1, <1>8, <1>12, <2>1 DEF CallOK, Pictures, Plays
    <2> QED
        BY <2>2 DEF j
<1>15. Apart'
    <2> SUFFICES ASSUME NEW i \in DOMAIN calls', NEW j \in DOMAIN calls', i # j
                 PROVE  Disjoint(calls[i], calls[j])'
        BY DEF Apart
    <2>1. Disjoint(calls[i], calls[j])
        BY <1>4 DEF WInv, Apart
    <2> QED
        BY <1>1, <1>2, <2>1 DEF Disjoint, Pictures, Plays
<1>16. AllOwned'
    <2> SUFFICES ASSUME NEW d \in dcs'
                 PROVE  Owned(d)'
        BY DEF AllOwned
    <2>1. Owned(d)
        BY <1>1 DEF WInv, AllOwned
    <2>2. CASE \E x \in Moves : UnderWay(x) /\ move[x].src = d
        BY <1>12, <2>2 DEF Owned
    <2>3. CASE \E i \in DOMAIN calls : Plays(calls[i]) /\ d \in Pictures(calls[i].ctx)
        <3>1. PICK i \in DOMAIN calls : Plays(calls[i]) /\ d \in Pictures(calls[i].ctx)
            BY <2>3
        <3>2. i # n
            BY <1>7, <3>1 DEF k
        <3>3. i \in DOMAIN calls' /\ calls'[i] = calls[i]
            BY <1>2, <1>5, <3>2
        <3> QED
            BY <1>1, <3>1, <3>3 DEF Owned, Pictures, Plays
    <2> QED
        BY <2>1, <2>2, <2>3 DEF Owned
<1> QED
    BY <1>10, <1>11, <1>13, <1>14, <1>15, <1>16 DEF WInv

-----------------------------------------------------------------------------
(***************************************************************************)
(* Every step, and what follows.                                           *)
(***************************************************************************)
LEMMA WNext ==
    ASSUME AllRules, WInv, [Next]_vars
    PROVE  WInv'
<1>1. CASE \E c \in Contexts : CreateContext(c) \/ DestroyContext(c) \/ Drop(c)
    BY <1>1, CreateContextKeeps, DestroyContextKeeps, DropKeeps
<1>2. CASE \E c \in Contexts, w \in Windows :
              CreateMainWindow(c, w) \/ Hold(c, w) \/ ShowWindow(c, w) \/ HideWindow(c, w)
              \/ PrepareFails(c, w) \/ MoveRefused(c, w)
    BY <1>2, CreateMainWindowKeeps, HoldKeeps, ShowWindowKeeps, HideWindowKeeps,
       PrepareFailsKeeps, MoveRefusedKeeps
<1>3. CASE \E w \in Windows : Extract(w) \/ PlainCreate(w)
    BY <1>3, ExtractKeeps, PlainCreateKeeps
<1>4. CASE \E c \in Contexts, w \in Windows, dc \in BOOLEAN : CreateFails(c, w, dc)
    BY <1>4, CreateFailsKeeps
<1>5. CASE \E i \in 1..MaxDepth : PlayOver(i)
    BY <1>5, PlayOverKeeps
<1>6. CASE PlayReturn \/ MoveReturn
    BY <1>6, PlayReturnKeeps, MoveReturnKeeps
<1>7. CASE \E m \in Moves, c \in Contexts, w \in Windows, p \in Places :
              Prepare(m, c, w, p) \/ MoveWindow(m, c, w, p)
    BY <1>7, PrepareKeeps, MoveWindowKeeps
<1>8. CASE \E m \in Moves : AsyncRun(m) \/ Start(m) \/ Draw(m) \/ Arrive(m) \/ Unlist(m) \/ Stop(m)
    BY <1>8, UpdateKeeps, AnimationKeeps
<1>9. CASE \E m \in Moves : DeleteMove(m)
    BY <1>9, AnimationKeeps
<1>10. CASE UNCHANGED vars
    <2>1. UNCHANGED <<win, ctx, move, info, calls, dcs, fault>>
        BY <1>10 DEF vars
    <2>2. WTyped' /\ ~fault'
        BY <2>1 DEF WInv, WTyped, TypeOK, NoFault
    <2> QED
        BY <2>1, <2>2, NothingBegins, WindowsKept
<1> QED
    BY <1>1, <1>2, <1>3, <1>4, <1>5, <1>6, <1>7, <1>8, <1>9, <1>10 DEF Next

LEMMA WAlways ==
    ASSUME AllRules
    PROVE  Spec => []WInv
<1>1. Init => WInv
    BY WInit
<1>2. WInv /\ [Next]_vars => WInv'
    BY WNext
<1> QED
    BY <1>1, <1>2, PTL DEF Spec

(* No memory DC is deleted twice, no context is used after it was freed or *)
(* given up, and the hook never calls itself, whatever calls are made      *)
(* inside calls and whichever of them fail or go on with HDC_INVALID for   *)
(* lack of memory, with which MiniGUI is taken to do nothing               *)
(* (window-animation.c:213-343, 382-454, 574-617, 646-671).                *)
THEOREM NothingIsUsedTwice ==
    ASSUME AllRules
    PROVE  Spec => []NoFault
<1>1. WInv => NoFault
    BY DEF WInv
<1> QED
    BY <1>1, WAlways, PTL

(* A window is frozen exactly as long as a context holds it, and gets back *)
(* the secondary DC the application gave it (window-animation.c:122-207).  *)
THEOREM HeldPicturesAreFrozen ==
    ASSUME AllRules
    PROVE  Spec => []FrozenWhileHeld
<1>1. WInv => FrozenWhileHeld
    BY DEF WInv
<1> QED
    BY <1>1, WAlways, PTL

(* Every memory DC belongs to a call that has yet to return or to a move   *)
(* that has yet to end (window-animation.c:289, 411-434, 581, 614).        *)
THEOREM EveryPictureIsOwned ==
    ASSUME AllRules
    PROVE  Spec => []NoDCLeft
<1>1. ASSUME WInv
      PROVE  NoDCLeft
    <2> DEFINE OfCalls == UNION {{ctx[k.ctx].src, ctx[k.ctx].dst} : k \in {x \in Calling : x.op # "move"}}
               OfMoves == {move[m].src : m \in {x \in Moves : UnderWay(x)}}
    <2> SUFFICES ASSUME NEW d \in dcs
                 PROVE  d \in OfCalls \cup OfMoves
        BY DEF NoDCLeft
    <2>1. Owned(d)
        BY <1>1 DEF WInv, AllOwned
    <2>2. CASE \E m \in Moves : UnderWay(m) /\ move[m].src = d
        BY <2>2
    <2>3. CASE \E i \in DOMAIN calls : Plays(calls[i]) /\ d \in Pictures(calls[i].ctx)
        <3>1. PICK i \in DOMAIN calls : Plays(calls[i]) /\ d \in Pictures(calls[i].ctx)
            BY <2>3
        <3>2. calls[i] \in {x \in Calling : x.op # "move"}
            BY <3>1 DEF Calling, Plays
        <3>3. d \in {ctx[calls[i].ctx].src, ctx[calls[i].ctx].dst}
            BY <3>1 DEF Pictures
        <3> QED
            BY <3>2, <3>3
    <2> QED
        BY <2>1, <2>2, <2>3 DEF Owned
<1> QED
    BY <1>1, WAlways, PTL
=============================================================================
