------------------------------ MODULE Drawing ------------------------------
(***************************************************************************)
(* What six effector classes draw (src/effector/push-effector.c,           *)
(* clear-, zip-, zoom-, centersplit- and leafwindow-effector.c): the value *)
(* an animation hands them, interpolated between what begindraw set by the *)
(* curve, and the blits that turn the picture in the sink from the one of  *)
(* the first source into the one of the second.  The sink keeps what is    *)
(* drawn from frame to frame and from run to run, and clear and zoom keep  *)
(* where they drew last.                                                   *)
(*                                                                         *)
(* A picture is a function of its pixels.  A pixel of the sink says which  *)
(* source it shows and which pixel of it: <<1, <<x, y>>>>.  Sources and    *)
(* sink have one size.  BitBlt and StretchBlt are MiniGUI's: they clip,    *)
(* and a BitBlt of zero width or height copies the whole source.           *)
(***************************************************************************)
EXTENDS Curves, Sequences

CONSTANTS
    Classes,    \* the classes drawn with
    Sizes,      \* <<width, height>> of sources and sink
    CurveSet,   \* the curves used
    Rows,       \* values set for MGEFF_PROPERTY_LEAFROWS
    Steps,      \* progress is 0, 1 / Steps, .. 1
    Grid,       \* progress at which a curve's shape is looked at
    Careful     \* rules the application follows

Rules == {"set_first",   \* properties are set between runs
          "inside",      \* a curve that overshoots is used with push and clear only
          "painted",     \* the sink shows the first picture when splitting and leaves begin
          "fits",        \* the size is one the class can divide
          "one_zoom",    \* an effector that zoomed out does not zoom in
          "to_end"}      \* the sink is replaced only when a run has reached its end

ASSUME ClassesDrawn ==
    Classes \subseteq {"push", "clear", "zip", "zoom", "centersplit", "leafwindow"}
ASSUME SizesAssumption == Sizes \subseteq (Nat \ {0}) \X (Nat \ {0})
ASSUME CurvesAssumption == CurveSet \subseteq AllCurves
ASSUME StepsAssumption == Steps \in Nat \ {0} /\ Grid \in Nat \ {0} /\ Rows \subseteq Nat
ASSUME CarefulAssumption == Careful \subseteq Rules

VARIABLES
    size,   \* <<width, height>>
    eff,    \* the effector: class, properties and context
    run,    \* the animation that draws it
    sink    \* the picture in the sink

vars == <<size, eff, run, sink>>

W == size[1]
H == size[2]
Pixels == (0..W - 1) \X (0..H - 1)
Whole == [left |-> 0, top |-> 0, right |-> W, bottom |-> H]
InRect(p, r) == p[1] \in r.left .. r.right - 1 /\ p[2] \in r.top .. r.bottom - 1
Rect(l, t, r, b) == [left |-> l, top |-> t, right |-> r, bottom |-> b]
Picture(s) == [p \in Pixels |-> <<s, p>>]
Blank == [p \in Pixels |-> <<0, p>>]

----------------------------------------------------------------------------
(* Blits.  Each takes a picture and gives the picture drawn over. *)

Plus(p, q)  == <<p[1] + q[1], p[2] + q[2]>>
Minus(p, q) == <<p[1] - q[1], p[2] - q[2]>>

(* A blit from a point of a source, so wide and high, to the point d: the  *)
(* pixels it covers, and the one of the source that p is copied from.      *)
Reads(from, d, p) == Plus(Minus(p, d), from)
Covers(from, wide, high, d, p) ==
    LET none == wide = 0 \/ high = 0
        w == IF none THEN W ELSE wide
        h == IF none THEN H ELSE high
    IN  InRect(p, Rect(d[1], d[2], d[1] + w, d[2] + h)) /\ Reads(from, d, p) \in Pixels

(* What comes of a negative size is MiniGUI's choice: the picture counts   *)
(* as lost.                                                                *)
BitBlt(pic, s, from, wide, high, d) ==
    IF wide < 0 \/ high < 0 THEN Blank
    ELSE [p \in Pixels |->
            IF Covers(from, wide, high, d, p) THEN <<s, Reads(from, d, p)>> ELSE pic[p]]

(* The blits of a list of <<source, from, width, height, to>>, in order: a *)
(* pixel shows what the last that covers it has copied.                    *)
Last(list, p) ==
    LET on(n) == Covers(list[n][2], list[n][3], list[n][4], list[n][5], p)
    IN  {n \in DOMAIN list : on(n) /\ \A m \in DOMAIN list : m > n => ~on(m)}
Blits(pic, list) ==
    IF \E n \in DOMAIN list : list[n][3] < 0 \/ list[n][4] < 0 THEN Blank
    ELSE [p \in Pixels |->
            IF Last(list, p) = {} THEN pic[p]
            ELSE LET b == list[CHOOSE n \in Last(list, p) : TRUE]
                 IN  <<b[1], Reads(b[2], b[5], p)>>]

(* The whole source s into the rectangle r, which the macro STRETCHBLT     *)
(* draws only if it is not empty.                                          *)
StretchBlt(pic, s, r) ==
    IF r.right < r.left \/ r.bottom < r.top THEN Blank
    ELSE [p \in Pixels |->
        IF InRect(p, r)
        THEN <<s, <<((p[1] - r.left) * W) \div (r.right - r.left),
                    ((p[2] - r.top) * H) \div (r.bottom - r.top)>>>>
        ELSE pic[p]]

----------------------------------------------------------------------------
(* Values: numbers become ints by truncation toward zero. *)

Trunc(a, b) == IF a >= 0 THEN a \div b ELSE -((-a) \div b)
Part(n, f) == Trunc(n * f[1], f[2])

(* FACTOR *)
Between(s, e, f) == Trunc(s * f[2] + (e - s) * f[1], f[2])
RectBetween(s, e, f) == [c \in DOMAIN s |-> Between(s[c], e[c], f)]

----------------------------------------------------------------------------
(* begindraw: the values a run starts and ends with. *)

PushStart(d) ==
    CASE d = 0 -> Rect(-W, 0, 0, 0) [] d = 1 -> Rect(W, 0, 2 * W, 0)
      [] d = 2 -> Rect(0, -H, 0, 0) [] OTHER -> Rect(0, H, 0, 2 * H)
ClearStart(d) ==
    CASE d = 0 -> <<-W, 0>> [] d = 1 -> <<W, 0>> [] d = 2 -> <<0, -H>>
      [] d = 3 -> <<0, H>>  [] OTHER -> <<0, 0>>
ZoomStart(d) ==
    LET x == CASE d = 0 -> W \div 2 [] d \in {3, 4} -> W [] OTHER -> 0
        y == CASE d = 0 -> H \div 2 [] d \in {2, 3} -> H [] OTHER -> 0
    IN  Rect(x, y, x, y)

Begun(e) ==
    LET other == CASE e.class = "push"  -> <<PushStart(e.direction), Whole>>
                   [] e.class = "clear" -> <<ClearStart(e.direction), <<0, 0>>>>
                   [] e.class = "zoom"  -> <<ZoomStart(e.direction), Whole>>
                   [] OTHER             -> <<0, 1>>
    IN  IF e.class = "zoom" /\ e.out THEN <<other[2], other[1]>> ELSE other

----------------------------------------------------------------------------
(* ondraw, one operator per class: what the sink shows next. *)

PushDrawn(pic, e, v) ==
    LET w == v.right - v.left
        h == v.bottom - v.top
        old == CASE e.direction = 0 -> <<v.left + w, v.top>>
                 [] e.direction = 1 -> <<v.left - w, v.top>>
                 [] e.direction = 2 -> <<v.left, v.top + h>>
                 [] OTHER           -> <<v.left, v.top - h>>
    IN  BitBlt(BitBlt(pic, 2, <<0, 0>>, 0, 0, <<v.left, v.top>>), 1, <<0, 0>>, 0, 0, old)

ClearDrawn_AtValue(pic, e, v) ==                \* mutated: the value taken for prev
    BitBlt(BitBlt(pic, 2, v, W, H, v), 1, <<0, 0>>, W, H, v)

ClearDrawn(pic, e, v) ==
    BitBlt(BitBlt(pic, 2, e.point, W, H, e.point), 1, <<0, 0>>, W, H, v)

(* With zooming out the sources change places. *)
Front(e) == IF e.out THEN 1 ELSE 2
Behind(e) == IF e.out THEN 2 ELSE 1
ZoomDrawn_AtValue(pic, e, v) ==                 \* mutated: prev_rc set before it is used
    StretchBlt(BitBlt(pic, Behind(e), <<v.left, v.top>>, v.right - v.left, v.bottom - v.top,
                      <<v.left, v.top>>),
               Front(e), v)

ZoomDrawn(pic, e, v) ==
    LET r == e.rect
    IN  StretchBlt(BitBlt(pic, Behind(e), <<r.left, r.top>>, r.right - r.left, r.bottom - r.top,
                          <<r.left, r.top>>),
                   Front(e), v)

ZipDrawn(pic, e, f) ==
    LET w == Part(W, f)
        h == Part(H, f)
        new == CASE e.direction = 0 -> Rect(0, 0, w, H) [] e.direction = 1 -> Rect(W - w, 0, W, H)
                 [] e.direction = 2 -> Rect(0, 0, W, h) [] OTHER -> Rect(0, H - h, W, H)
        old == CASE e.direction = 0 -> Rect(w, 0, W, H) [] e.direction = 1 -> Rect(0, 0, W - w, H)
                 [] e.direction = 2 -> Rect(0, h, W, H) [] OTHER -> Rect(0, 0, W, H - h)
    IN  StretchBlt(StretchBlt(pic, 2, new), 1, old)

(* The first two directions split in four, the others in two. *)
ToOutside_Unguarded(pic, e, f) ==              \* mutated: crop not tested for 0
    LET four == e.direction = 0
        cw == Trunc(W * f[1], 2 * f[2])
        ch == Trunc(H * f[1], 2 * f[2])
        cropw == IF four THEN W \div 2 - cw ELSE W
        croph == H \div 2 - ch
        new == IF cw = 0 /\ ch = 0 THEN pic ELSE Picture(2)
        low == H \div 2 + ch
    IN  IF cw = 0 \/ ch = 0 THEN new
        ELSE Blits(new,
            IF four
            THEN <<<<1, <<cw, ch>>,           cropw, croph, <<0, 0>>>>,
                   <<1, <<W \div 2, ch>>,     cropw, croph, <<W - (W \div 2 - cw), 0>>>>,
                   <<1, <<cw, H \div 2>>,     cropw, croph, <<0, low>>>>,
                   <<1, <<W \div 2, H \div 2>>, cropw, croph, <<W \div 2 + cw, low>>>>>>
            ELSE <<<<1, <<0, ch>>,      cropw, croph, <<0, 0>>>>,
                   <<1, <<0, H \div 2>>, cropw, croph, <<0, low>>>>>>)

ToOutside(pic, e, f) ==
    LET four == e.direction = 0
        cw == Trunc(W * f[1], 2 * f[2])
        ch == Trunc(H * f[1], 2 * f[2])
        cropw == IF four THEN W \div 2 - cw ELSE W
        croph == H \div 2 - ch
        new == IF cw = 0 /\ ch = 0 THEN pic ELSE Picture(2)
        low == H \div 2 + ch
    IN  IF cw = 0 \/ ch = 0 \/ cropw = 0 \/ croph = 0 THEN new
        ELSE Blits(new,
            IF four
            THEN <<<<1, <<cw, ch>>,           cropw, croph, <<0, 0>>>>,
                   <<1, <<W \div 2, ch>>,     cropw, croph, <<W - (W \div 2 - cw), 0>>>>,
                   <<1, <<cw, H \div 2>>,     cropw, croph, <<0, low>>>>,
                   <<1, <<W \div 2, H \div 2>>, cropw, croph, <<W \div 2 + cw, low>>>>>>
            ELSE <<<<1, <<0, ch>>,      cropw, croph, <<0, 0>>>>,
                   <<1, <<0, H \div 2>>, cropw, croph, <<0, low>>>>>>)

ToCenter(pic, e, f, first) ==
    LET cw == Trunc(W * f[1], 2 * f[2])
        ch == Trunc(H * f[1], 2 * f[2])
        mw == W \div 2
        mh == H \div 2
        old == IF first THEN Picture(1) ELSE pic
    IN  IF cw = 0 \/ ch = 0 THEN old
        ELSE Blits(old,
            IF e.direction = 1
            THEN <<<<2, <<mw - cw, mw - ch>>, cw, ch, <<0, 0>>>>,
                   <<2, <<mw, mh - ch>>,      cw, ch, <<W - cw, 0>>>>,
                   <<2, <<mw - cw, mh>>,      cw, ch, <<0, H - ch>>>>,
                   <<2, <<mw, mh>>,           cw, ch, <<W - cw, H - ch>>>>>>
            ELSE <<<<2, <<0, mh - ch>>, W, ch, <<0, 0>>>>,
                   <<2, <<0, mh>>,      W, ch, <<0, H - ch>>>>>>)

(* The leaves are strips of the second source, the last what is left over. *)
Leaves(e) == IF e.vertical THEN H ELSE W
LeafDrawn_NoRest(pic, e, f) ==                 \* mutated: the rest is left out
    LET each == Leaves(e) \div e.rows
        over == Leaves(e) % e.rows
        v(n) == Part(IF n < e.rows THEN each ELSE over, f)
        at(n) == IF e.direction = 1 THEN each * (1 + n) - v(n) ELSE each * n
        across(n) == IF e.vertical THEN <<2, <<0, each * n>>, W, v(n), <<0, at(n)>>>>
                                   ELSE <<2, <<each * n, 0>>, v(n), H, <<at(n), 0>>>>
    IN  IF v(0) = 0 THEN pic
        ELSE Blits(pic, [n \in 1..e.rows |-> across(n - 1)])

LeafDrawn(pic, e, f) ==
    LET each == Leaves(e) \div e.rows
        over == Leaves(e) % e.rows
        v(n) == Part(IF n < e.rows THEN each ELSE over, f)
        at(n) == IF e.direction = 1 THEN each * (1 + n) - v(n) ELSE each * n
        across(n) == IF e.vertical THEN <<2, <<0, each * n>>, W, v(n), <<0, at(n)>>>>
                                   ELSE <<2, <<each * n, 0>>, v(n), H, <<at(n), 0>>>>
        last == IF over > 0 /\ v(e.rows) # 0 THEN 1 ELSE 0
    IN  IF v(0) = 0 THEN pic
        ELSE Blits(pic, [n \in 1..(e.rows + last) |-> across(n - 1)])

(* The value at progress j / Steps. *)
ValueAt(e, r, j) ==
    LET f == CurveValue(r.curve, j, Steps)
    IN  CASE e.class \in {"push", "zoom"} -> RectBetween(r.from, r.to, f)
          [] e.class = "clear" -> <<Between(r.from[1], r.to[1], f), Between(r.from[2], r.to[2], f)>>
          [] OTHER -> f

OnDraw(pic, e, v, first) ==
    CASE e.class = "push"  -> PushDrawn(pic, e, v)
      [] e.class = "clear" -> ClearDrawn(pic, e, v)
      [] e.class = "zoom"  -> ZoomDrawn(pic, e, v)
      [] e.class = "zip"   -> ZipDrawn(pic, e, v)
      [] e.class = "leafwindow" -> LeafDrawn(pic, e, v)
      [] OTHER -> IF e.direction \in {0, 2} THEN ToOutside(pic, e, v)
                                            ELSE ToCenter(pic, e, v, first)

----------------------------------------------------------------------------
NotRun == [state |-> "new", at |-> 0, frames |-> 0, curve |-> Linear, from |-> 0, to |-> 1,
           out |-> FALSE]

(* What class_init leaves: direction 0, five horizontal strips, zooming in. *)
Init ==
    /\ size \in Sizes
    /\ eff \in [class : Classes, direction : {0}, out : {FALSE}, rows : {5}, vertical : {TRUE},
                point : {<<0, 0>>}, rect : {Rect(0, 0, 0, 0)}, zoomed_out : {FALSE}]
    /\ run = NotRun
    /\ sink = Picture(1)

MaySet == "set_first" \in Careful => run.state # "drawing"

(* mGEffEffectorSetProperty, MGEFF_PROPERTY_DIRECTION; the classes that    *)
(* check the value refuse what is not one of their four.                   *)
SetDirection(d) ==
    /\ MaySet
    /\ eff.class \in {"push", "zip", "centersplit"} => d \in 0..3
    /\ eff.class = "leafwindow" => d \in 0..1
    /\ eff' = [eff EXCEPT !.direction = d]
    /\ UNCHANGED <<size, run, sink>>

SetRows(n, vertical) ==
    /\ MaySet /\ eff.class = "leafwindow"
    /\ eff' = [eff EXCEPT !.rows = IF n = 0 THEN 5 ELSE n, !.vertical = vertical]
    /\ UNCHANGED <<size, run, sink>>

SetZoom(out) ==
    /\ MaySet /\ eff.class = "zoom"
    /\ "one_zoom" \in Careful /\ eff.zoomed_out => out
    /\ eff' = [eff EXCEPT !.out = out]
    /\ UNCHANGED <<size, run, sink>>

(* The application draws the first picture, or nothing, into the sink, or  *)
(* gives the effector another.                                             *)
NewSink(pic) ==
    /\ run.state # "drawing"
    /\ "to_end" \in Careful /\ eff.class \in {"clear", "zoom"} => run.state # "stopped"
    /\ sink' = pic
    /\ run' = NotRun
    /\ UNCHANGED <<size, eff>>

(* The sizes a class can divide.  Leaves: at least a pixel each and, in    *)
(* direction 1, no remainder.  Four pieces that come to the centre: an     *)
(* even square, for the height of a piece is taken off half the width      *)
(* (centersplit-effector.c:108); two pieces: an even height.               *)
Fits(e) ==
    /\ e.class = "leafwindow" =>
        e.rows <= Leaves(e) /\ (e.direction = 1 => Leaves(e) % e.rows = 0)
    /\ e.class = "centersplit" =>
        /\ W > 1 \/ H > 1
        /\ e.direction = 1 => W = H /\ W % 2 = 0
        /\ e.direction = 3 => H % 2 = 0 /\ W > 1

MayBegin(curve) ==
    /\ "inside" \in Careful /\ Overshoots(curve) => eff.class \in {"push", "clear"}
    /\ "painted" \in Careful /\ eff.class \in {"centersplit", "leafwindow"} => sink = Picture(1)
    /\ "fits" \in Careful => Fits(eff)

(* mGEffAnimationCreateWithEffector, which calls begindraw, and a run. *)
Begin(curve) ==
    /\ run.state # "drawing" /\ MayBegin(curve)
    /\ run' = [state |-> "drawing", at |-> 0, frames |-> 0, curve |-> curve,
               from |-> Begun(eff)[1], to |-> Begun(eff)[2], out |-> eff.out]
    /\ eff' = [eff EXCEPT !.zoomed_out = @ \/ (eff.class = "zoom" /\ eff.out)]
    /\ UNCHANGED <<size, sink>>

(* An update that draws: the first at progress 0, the one that starts the  *)
(* animation; late timers skip later ones, but not the last.  frames tells *)
(* whether MGEFF_PROP_CURFRAME is still 0.                                 *)
Frame(j) ==
    LET v == ValueAt(eff, run, j) IN
    /\ run.state = "drawing"
    /\ IF run.frames = 0 THEN j = 0 ELSE j > run.at
    /\ sink' = OnDraw(sink, eff, v, run.frames = 0)
    /\ eff' = CASE eff.class = "clear" -> [eff EXCEPT !.point = v]
                [] eff.class = "zoom"  -> [eff EXCEPT !.rect = v]
                [] OTHER               -> eff
    /\ run' = [run EXCEPT !.at = j, !.frames = 1, !.state = IF j = Steps THEN "done" ELSE @]
    /\ UNCHANGED size

(* mGEffAnimationStop before the end. *)
Stop ==
    /\ run.state = "drawing"
    /\ run' = [run EXCEPT !.state = "stopped"]
    /\ UNCHANGED <<size, eff, sink>>

Next ==
    \/ \E d \in 0..4 : SetDirection(d)
    \/ \E n \in Rows, v \in BOOLEAN : SetRows(n, v)
    \/ \E out \in BOOLEAN : SetZoom(out)
    \/ NewSink(Picture(1))
    \/ NewSink(Blank)
    \/ \E c \in CurveSet : Begin(c)
    \/ \E j \in 0..Steps : Frame(j)
    \/ Stop

Spec == Init /\ [][Next]_vars

----------------------------------------------------------------------------
(* The picture a run ends with: clear brings the first source in. *)
Final(e) == IF e.class = "clear" THEN 1 ELSE 2

(***************************************************************************)
(* Types: the sink has a pixel of a source, or of nothing, everywhere, and *)
(* no pixel is read outside a source (the blits of every ondraw).          *)
(***************************************************************************)
TypeOK ==
    /\ size \in Sizes
    /\ eff.class \in Classes /\ eff.direction \in 0..4 /\ eff.rows \in Nat \ {0}
    /\ run.state \in {"new", "drawing", "done", "stopped"} /\ run.at \in 0..Steps /\ run.frames \in 0..1
    /\ run.curve \in CurveSet \cup {Linear}
    /\ DOMAIN sink = Pixels
    /\ \A p \in Pixels : sink[p] \in (0..2) \X Pixels

(***************************************************************************)
(* A run that reached its end leaves the whole final picture in the sink,  *)
(* every pixel in its place, however many frames were skipped and wherever *)
(* the last run stopped (push-effector.c:74, clear-effector.c:81,          *)
(* zip-effector.c:49, zoom-effector.c:64, centersplit-effector.c:51,       *)
(* leafwindow-effector.c:102).  Push and zip do so whatever was in the     *)
(* sink; rule "painted" gives centersplit and leafwindow the first picture *)
(* to begin with, "to_end" keeps the sink of clear and zoom after a run    *)
(* that was stopped, and "fits" leaves out the sizes Fits names.           *)
(***************************************************************************)
Settled == run.state = "done" => sink = Picture(Final(eff))

(***************************************************************************)
(* Once something was drawn, no pixel is left that shows neither source.   *)
(* The rounding of the value leaves no gap between the two pictures.       *)
(***************************************************************************)
Covered == run.frames > 0 => \A p \in Pixels : sink[p][1] \in {1, 2}

(***************************************************************************)
(* Clear and zoom draw again only what the last frame covered              *)
(* (clear-effector.c:97, zoom-effector.c:88); what is seen is what a       *)
(* redraw of the whole sink would show, as the code they replaced did      *)
(* (zoom-effector.c:84-86, under #if 0).                                   *)
(***************************************************************************)
AsRedrawn ==
    run.frames > 0 =>
        LET v == ValueAt(eff, run, run.at) IN
        /\ eff.class = "clear" => sink = BitBlt(Picture(2), 1, <<0, 0>>, W, H, v)
        /\ eff.class = "zoom"  => sink = StretchBlt(Picture(Behind(run)), Front(run), v)

(***************************************************************************)
(* The curve of a run starts at 0, ends at 1, is mirrored by its opposite, *)
(* stays between 0 and 1 unless it is a Back curve, and has no jump where  *)
(* its pieces meet (easing.c:62-196, 387-472).                             *)
(***************************************************************************)
CurvesKeepShape ==
    /\ StartsAndEnds(run.curve, Grid) /\ Mirrors(run.curve, Grid)
    /\ StaysInside(run.curve, Grid) /\ Smooth(run.curve, Grid)

(* Centersplit to the outside where a side of the piece is 0 and the other *)
(* not: it brings the whole new picture in (centersplit-effector.c:79,     *)
(* 127) and leaves the old pieces out (:83, :131).                         *)
Flash ==
    LET f == ValueAt(eff, run, run.at) IN
    /\ eff.class = "centersplit" /\ eff.direction \in {0, 2}
    /\ (Trunc(W * f[1], 2 * f[2]) = 0) # (Trunc(H * f[1], 2 * f[2]) = 0)

(***************************************************************************)
(* With a curve that does not go back, no pixel that shows the final       *)
(* picture shows the other one again later in the run: no flicker.  One    *)
(* frame is excepted, because the code does flicker there: the frame of    *)
(* centersplit to the outside that Flash names, which a sink that is not   *)
(* square comes through, shows the whole new picture, and the next draws   *)
(* old pieces over it.                                                     *)
(***************************************************************************)
NoFlicker ==
    [][run.state = "drawing" /\ run.frames > 0 /\ Monotone(run.curve) /\ ~Flash =>
        \A p \in Pixels : sink[p][1] = Final(eff) => sink'[p][1] = Final(eff)]_vars
=============================================================================
