# Models, checks and proofs for mGEff

mGEff is an animation engine for MiniGUI, written in C. An application describes how a property changes over time
(an *animation*), or how one picture turns into another (an *effector*), and the library drives the change from a
timer. This directory holds TLA+ modules translated from the C code, TLC configurations that check them on small
instances, and TLAPS proofs of theorems that hold for every instance. Source paths below are relative to
`src/src/`, line numbers are those of the C files.

## 1. The system

### 1.1 Its parts

| part | files | state it keeps | operations |
|---|---|---|---|
| animation object | `animation.c`, `include/animation.h` | `state` (STOPPED, PAUSED, RUNNING, READY, REMOVE), `direction`, `keepalive`, `duration`, `loopcount`, `currenttime`, `currentloop`, `lasttime`, callbacks | create, delete, set properties, start, pause, resume, stop, `setcurrenttime` |
| schedular | `schedular.c` | the list of animations that are driven, the timer | add, remove, one pass (`one_step`), blocking run (`sync_run`), timer handler |
| animation groups | `animationgroup.c` | list of children; a group is itself an animation | parallel update, sequential update, add child |
| library start and stop, leak registry | `schedular.c:255-345`, `garbage-collection.c` | reference count, default schedular, lists of live objects | `mGEffInit`, `mGEffDeinit`, registry add, remove, check point |
| motion curves | `motioncurve.c`, `easing.c` | parameters of a curve | set, compute a value in [0, 1] from a time in [0, 1] |
| effector core | `effector/effector.c`, `effector-source.c`, `effector-sink.c`, `common-effector.c` | registry of effector classes; effectors with their sources and sink | register, create, append source, set sink, create animation, free |
| effectors | `effector/*-effector.c`, `3DCompute.c` | per effector: bitmaps and geometry | begin, draw one frame, end |
| OpenGL effectors | `effector/gl-*.c`, `opengl-manager.c` | GL context and textures | as above |
| window animation | `window-animation.c` | context with two memory DCs, an effector and an animation | show, hide, move and create window |
| Windows port | `eff-win32.c` | none | libc replacements |

### 1.2 How they interact

There is one thread (`_MGEFF_THREADMODE` is rejected by `#error`). Control enters the library in two ways: the
application calls the API, or MiniGUI's timer calls `effschedular_ontimer` while some message loop dispatches
messages, either the application's or the one in `mGEffAnimationWait`. Both lead to passes over the schedular's
list, a pass updates animations, and an update calls the application back: `statechanged_cb` in the middle of
`setstate`, `setProperty` and `curloopchanged_cb` in the middle of `setcurrenttime`, `finished_cb` at the end of a
run. A callback may call the API again. So there are no threads and yet there is interleaving: at each callback
the state of the library is open to change, while its functions hold pointers, totals and old values in local
variables. Ownership is shared too: an animation with `keepalive` 0 is freed by the pass, one with
`keepalive` 1 by the application, and the schedular's list links them through a node inside the animation.

### 1.3 What is hard

* *Re-entrance.* A pass remembers the next list node (`list_for_each_safe`) while callbacks stop, rerun, pause and
  delete animations; `setstate` assigns the state after a callback that may have changed it; `setcurrenttime`
  compares with a total time that a callback may have made obsolete.
* *Order.* `AsyncRun` changes the state first, calls back, and links the animation afterwards. `Stop` does not
  unlink; the next pass does, and in between the animation may be run again.
* *Time.* `lasttime` has to be refreshed on every way to RUNNING, or the time an animation was paused, stopped or
  waiting is charged to it. Totals are compared by equality, `MGEFF_INFINITE` is -1, C's remainder truncates.
* *Liveness.* `SyncRun` and `Wait` block until the animation has left the list.
* *Lifetimes.* Freed by the pass, by the application, by a callback of the very function that goes on to use it. An
  effector, its sources, sink, context and drawing animation are freed by separate calls whose order nothing checks;
  the two memory DCs and the context of a window animation change hands between caller, call and animation.
* *Incremental drawing.* Clear and zoom redraw only what the previous frame covered, frames are skipped, curves run
  back, and every edge is truncated to an int by itself.

`PROJECT.json` lists each hazard at its line with the properties that watch it.

### 1.4 What makes each part correct

* *Animation*: an undisturbed run progresses exactly as time does; its value stays in the interval; loops and the end
  are reported once; a run left alone ends, and it ends having shown the end value.
* *Schedular*: the node remembered by a pass stays valid; an active animation is listed, a listed
  one is live and listed once; blocking calls return; each run asked for is reported exactly once; what is not kept
  alive is freed.
* *Groups*: a parallel group ends when its last child has, a sequential one runs one child at a time, in order; every
  repetition runs every child for its whole duration.
* *Library*: it is up exactly while somebody holds a reference; the timer belongs to the schedular that is allocated;
  the leak report names what is alive and of this session.
* *Effectors, window animations*: each source, sink, DC and context is released exactly once, after its last use;
  drawing resources exist exactly while an animation is under way; a window is frozen exactly while it is held and
  shown again after every move.
* *Drawing*: the last frame shows the final picture, whatever was skipped; no frame leaves a gap or a rest of an older
  one; a curve starts at 0, ends at 1 and has no jump.

## 2. Modules

| module | models | role |
|---|---|---|
| `Animation` | `struct _EffAnimation`; `setstate`, `setcurrenttime`, `getdelta`, `setstart`, `restart` of `animation.c` | operators on a record, no variables |
| `Timeline` | one animation under the API and a timer that is late, with callbacks inside an update | state machine over `Animation` |
| `MCTimeline` | model values | instance for TLC |
| `AnimationProofs` | lemmas about C's division and the operators of `Animation` | TLAPS |
| `TimelineProofs` | theorems about `Timeline` | TLAPS, over `AnimationProofs` |
| `Group` | parallel and sequential groups: the scan of the children, its callbacks, repetition, and the API on groups | state machine over `Animation` |
| `MCGroup` | which calls are made in which callback | instance for TLC |
| `GroupProofs` | theorems about `Group` | TLAPS, over `AnimationProofs` |
| `Lifecycle` | what the API promises about runs and their ends | abstract specification |
| `Schedular` | the list, `one_step`, `sync_run`, the timer, `AsyncRun`, `SyncRun`, `Wait`, `Stop`, `Pause`, `Resume`, `Delete`, with the C call stack | state machine; implements `Lifecycle` |
| `MCSchedular` | which calls are made in which callback | instance for TLC |
| `SchedularProofs` | theorems about `Schedular`: types, the pass and its cursor, the list, lifetimes, the refinement of `Lifecycle` | TLAPS |
| `Session` | what `mGEffInit` and `mGEffDeinit` promise together | abstract specification |
| `Library` | reference count, schedular, timer, registry of live animations, animations over several sessions | state machine; implements `Session` |
| `LibraryProofs` | theorems about `Library`, the refinement of `Session` among them | TLAPS |
| `Effector` | effectors with sources, sinks, contexts, drawing resources and animations; `mGEffFillEffectorAnimation`, `mGEffCreateRollerAnimation` | state machine |
| `WindowAnimation` | windows and contexts under create, show, hide, move, hold, drop and extraction, with calls inside calls | state machine |
| `EffectorProofs`, `WindowAnimationProofs` | theorems about `Effector` and `WindowAnimation` | TLAPS |
| `Curves` | the 25 rational motion curves | operators on fractions |
| `Drawing` | what push, clear, zip, zoom, centersplit and leafwindow draw, frame by frame | state machine over `Curves` |
| `MCDrawing` | sizes | instance for TLC |
| `DrawingProofs` | theorems about `Curves` and `Drawing` | TLAPS |

### 2.1 Animation and Timeline

Each operator of `Animation` takes the record of an animation and returns it as the C function of that name leaves it.
`SetState` is `__mgeffanimation_setstate` (459-523): the test for the old state, the reset of `currenttime` for a run
that starts from STOPPED, the turn into REMOVE. `finished` counts calls of `finished_cb` in the current run and is
not in the C struct. The three parts of `__mgeffanimation_setcurrenttime` are three operators, because callbacks
separate them: `Advance` (delta, clamp, loop), `ShownTime` (the argument of `updateValue`), `EndUpdate` (the test for
the end, which uses the total computed *before* the callbacks). Interpolated values, curve, target and frame counter
are left out.

In `Timeline`, `pc = "callback"` says that control is in a callback of an update, and `local` holds the local
variables of the interrupted function. Every API call can happen between two passes (`MainCalls`) and in the callback
(`CallbackCalls`). `seen` is a history variable: a stopwatch for the current run.
Time is relative: the clock always reads 0 and a tick ages `lasttime`, which is sound because the code only subtracts
timestamps and keeps the model finite without bounding the length of a run. Bounds: `MaxLag`, the most ticks between
two passes, and `MaxTime`, how far an endless animation is followed.

### 2.2 Schedular

The variable `stack` is the C call stack, as far as it matters: one frame for every function of the library that has
called out and goes on when the callee returns. A frame says where its function goes on (`at`), the animation it is
about, and its local variables: the state to be assigned (`new`), the remembered successor (`nxt`), the flag `found`.
One action is one stretch of C code between two points at which control leaves the library. `Visit*` and `NextNode`
are the cases and the iteration of `one_step`; `StateChanged` and `Finished` the rest of `setstate` after each of
its two callbacks; `UpdateDone` the rest of `setcurrenttime`; `AsyncAdd`, `SyncAdd`, `SyncPass`, `WaitOver` the rest
of the API functions. The calls of the application are enabled when control is with it: empty stack, a message
handler below `Wait`, or a callback on top. `CallsIn` says which calls it makes in which of these contexts,
`OwnCallsIn` which calls a callback makes for its own animation.

`progress` abstracts `currenttime` to steps of the time line; an update makes any number of steps, also more than are
left, and the clamp cuts them. `NextNode` reads the link of the remembered node: it is enabled only if that
node is live and listed, so that a pass that lost its place stops, and `CursorSafe` says that it never has.
Bounds: `MaxCalls` calls of the application in all, `MaxDepth` frames when it calls, `Length` steps.

`Lifecycle` knows nothing of lists, passes and callbacks: per animation, a phase (over, going, held, gone) and how many
ends of a run are owed, 0 or 1. `Schedular` maps its states to phases (`Phase`), and `KeepsPromise` says that each
of its steps is a step of `Lifecycle` or stutters. `owed` counts the runs asked for less the calls of `finished_cb`: a second
report makes it -1, which no step of `Lifecycle` does. The code keeps the promise only to an application that follows two
rules, which it neither states nor tests; `Careful` says which are followed. `delete` and `returns` follow none.

| rule | meaning | without it |
|---|---|---|
| `stop_once` | an animation with `keepalive` 0 is not stopped while it waits to be freed, nor in a callback of its own update | `KeepsPromise` |
| `one_change` | `statechanged_cb` does not stop, pause or resume its own animation | `KeepsPromise` |

### 2.3 Group

`Group` puts children (records of `Animation`) under a group that is itself such a record. A pass that finds the group
READY or RUNNING starts a scan (`PassReady`, `PassRunning`); `UpdateKid` starts and updates the next active child and
hands control to its `setProperty` (`pc = "show"`), `KidUpdated` is what follows, up to the child's `finished_cb`
(`pc = "report"`), `KidReported` what follows that; `EndScan` is the code behind the loop: count down, end, or repeat.
`pos`, `found` and `total` are the local variables of the interrupted functions. `lag` counts ticks since the pass read
the clock: the children are started with the time it is now (0) and updated with the time of the pass (`-lag`),
as in `animationgroup.c:63` and 66. Calls on the group recurse into the children, except Stop; children may be added
and stopped at any time. The observer in `seen` has a stopwatch per child and counts how often it ended.
Children run forward, once, and are not groups; the group's own `currenttime` is left out, since only its
`curloopchanged_cb` depends on it. Bounds: `MaxKids`, `MaxCalls`, `MaxLag`, `MaxDrift` (how long a pass lasts),
`MaxRounds` (how far the observer counts, beyond every loop count that can be set).
A timestamp older than `Horizon` is kept at `Horizon`: more than a whole duration, so that the clamp makes no
difference.

### 2.4 Session and Library

`Library` has one action per function: `InitCall`, `DeinitCall` and `StrayDeinit` (a call of `mGEffDeinit` too many) work on
`refs`, which is `m_initRefrent`, and run `Setup` and `TearDown`, the parts of `mGEffInit` and `mGEffDeinit` behind the test
of the count. Schedulars are named by `serial` (`s_serial`); `heap` and `timers` say which are allocated and which have a
timer set, so that a timer left behind is seen. `list` is the default schedular's list, as a set. `reg` is the registry of
`garbage-collection.c`. Animations are created, run, stopped and deleted in any session, also in a later one than that they
were made in; a pass of the timer is one step here, since `Schedular` opens it up. `Session` is the promise in terms of
clients that hold references; `KeepsUp` shows that `Library` keeps it. A stray `mGEffDeinit` voids it, as it does in the
code.

### 2.5 Effector

The variables are the registry of classes, effectors (life, class, DC of the source, context, drawing resources, sink), sinks,
drawing animations, the schedular's list as a set, and the two compositions of the library, `fill` and `roller`, each with
the step it is at. Three classes stand for all: `alpha` has no context, `zoom` has one, `scroll` has one and makes resources
in `begindraw` that `enddraw` deletes. `fault` becomes true when the code would use or free what is not there; the
application is free to do anything else at any moment, also while `mGEffFillEffectorAnimation` waits in its message loop.

The code relies on the order of calls and checks little of it. What it relies on is written as named rules, and `Careful` is
the set the application follows. Each rule is needed: without it the run reports the property named here.

| rule | meaning | without it |
|---|---|---|
| `complete` | an animation is made when sources and sink are attached | `NoFault` |
| `one_anim` | an effector has one animation at a time | `BeginEndPaired` |
| `one_run` | an animation with drawing resources is run once | `BeginEndPaired` |
| `stop_once` | an animation that was reported finished and waits to be freed is not stopped again | `NoFault` |
| `over_first` | nothing is deleted before the animation was run to its end | `BeginEndPaired` |
| `auto_delete` | an animation that is not kept alive is left to the schedular | `NoFault` |
| `own_sink` | a sink is in one effector, set once | `NoFault` |

`Stop` acts on every animation that is not STOPPED, as `animation.c:1000` does: `stop_once` is what keeps a second `enddraw`
away, and it is the application's to keep. `hands` is a history variable, the sinks the application has. `NothingLeftBehind`
needs none of the rules one by one; it asks for contexts, sinks and buffers, not for sources: `DeleteWithoutSink` frees
these in the code and keeps them in its comment (section 4).

### 2.6 WindowAnimation

`mGEffCreateMainWindow`, `mGEffShowWindowEx` and `mGEffMoveWindow` run their animation to its end before they return; `calls`
is the stack of those that wait. While the innermost waits, callbacks of the animations it updates may call again, which is
how calls nest. `dcs` are the memory DCs that exist; deleting one turns every pointer to it into `NoDC`, so that a later use
is seen. When a DC cannot be made, `Show`, `Hide`, `Create` and the resize in `animation_generate` go on with `HDC_INVALID`
(`Invalid`), as the code does; only the assertion at `window-animation.c:581` would notice, and the model takes a build
without assertions. MiniGUI is taken to do nothing when it is asked to draw with or to delete `HDC_INVALID`. The pictures of a
context that no call uses are left out: they are stale in the code and written before they are read.
A move made by `mGEffMoveWindowPreparation` has a copy of the context (`copy`) that `move_anim_finished` frees,
together with the picture; `Generate` is `animation_generate`, which replaces the picture when the size changes. `info` is the
application's `MAINWINCREATE`, which the code changes and leaves changed.

| rule | meaning | without it |
|---|---|---|
| `fresh_info` | a `MAINWINCREATE` is filled in for every use | `NoFault` |
| `one_context` | a context is in one call or hold at a time | `NoDCLeft` |
| `one_window` | a window is in one operation at a time | `FrozenWhileHeld` |
| `false_is_gone` | a context `mGEffMoveWindow` returned FALSE for is not used | `NoFault` |
| `run_once` | a prepared move is run once, to its end, and deleted | `NoDCLeft` |

### 2.7 Curves and Drawing

`Curves` has the powers, Back and Bounce, In, Out, InOut and OutIn, over progress `i / n` with exact fractions. `Drawing` runs
an effector: `Begin` is the creation of the animation (`begindraw` sets first and last value) and its start, `Frame(j)` an
update at progress `j / Steps`. Late timers skip any of them but the first and the last. The sink is a function from pixels to
(source, pixel of it); each `ondraw` is an operator made of MiniGUI's blits with their clipping and their special case for a
width or height of 0. The context's remembered point or rectangle survives from run to run, as it does in the code.
Interpolation truncates toward zero, as the cast to int does. The overshoot of Back is 1.7 for the code's 1.70158. Sources and
sink have one size; animations run forward, once.

| rule | meaning | without it |
|---|---|---|
| `set_first` | properties are set between runs | `AsRedrawn` |
| `inside` | a curve that overshoots is used with push and clear only | `Covered` |
| `painted` | the sink shows the first picture when centersplit and leafwindow begin | `Covered` |
| `fits` | the size is one the class can divide, see below | `Settled` |
| `one_zoom` | an effector that zoomed out does not zoom in | `AsRedrawn` |
| `to_end` | the sink is replaced only when a run has reached its end | `AsRedrawn` |

What `fits` leaves out, because the code does not end with the final picture there:

* centersplit, four pieces to the centre: all sizes but even squares. The height of a piece is computed as
  `crop_w - cur_h`, from half the *width* (`centersplit-effector.c:108`), and an odd middle line is in no piece;
* centersplit, two pieces to the centre: odd heights (the middle row is in no piece) and a width of 1;
* centersplit in any direction: a sink of one pixel, half of which is 0, and 0 means everything to `BitBlt`;
* leafwindow: more strips than pixels (nothing is drawn), and in direction 1 a remainder (it is displaced).

Centersplit to the outside is checked and proved on every other size, square or not. There the code flickers, and
`NoFlicker` says exactly where it may: `centersplit-effector.c:79` and 127 ask whether one side of the piece is not 0 and copy
the whole new picture; 83 and 131 ask whether both are and then leave the old pieces out. In a frame where one side is 0 and
the other not (`Flash`) the whole new picture shows, and the next frame draws old pieces over it. A sink of 400x200 comes
through such a frame, and so does 6x4 of the run: without `~Flash`, TLC refutes `NoFlicker` on it.

## 3. Runs

| run | expects | properties | what it shows |
|---|---|---|---|
| `timeline_calls` | pass | `NoDrift` `NeverAhead` `LoopCallbacksMatch` `FinishedOnce` `EndsAtFarEnd` `LeftAloneEnds` | run, stop, pause, resume, turn and loop-count calls in any order, between updates and inside them, with a timer up to two ticks late |
| `timeline_retune` | pass | `ShownInRange` `FreedAfterFinish` | duration, loop count, direction and keepalive change at any moment |
| `group_calls` | pass | `InOrder` `KidsNotAhead` `EndsWithKids` `EveryRound` `GroupEnds` | both kinds of group under calls from the main loop and from callbacks in the middle of the scan, with a clock that moves during the pass |
| `group_repeat` | violation | `KidsTakeTheirTime` | finding 1 |
| `reentrant` | pass | `TypeOK` `CursorSafe` `ActiveListed` `KeepsPromise` | two animations act on themselves and on each other from every callback, under the rules of 2.2 |
| `delete` | pass | `ListSafe` `NoUseAfterFree` | three kept-alive animations, deleted from the main loop, from the message loop of `Wait`, and each in its own `finished_cb` |
| `returns` | pass | `BlockingCallsReturn` `Reported` `RemoveFreed` | blocking calls return, runs are reported and what is not kept alive is freed, under fairness |
| `library` | pass | `TimersOwned` `HoldersAreSafe` `LeaksReported` `KeepsUp` | two clients, two sessions, one stray `mGEffDeinit`, two animations that may outlive their session |
| `effector` | pass | `NoFault` `NothingLeftBehind` `BeginEndPaired` `CompositionsClean` | two effectors, sinks and animations in every order the rules allow, beside both compositions |
| `window` | pass | `NoFault` `FrozenWhileHeld` `NoDCLeft` `ShownAgain` | two windows, two contexts, one prepared move, calls nested two deep |
| `hide_callback` | violation | `CallbackSeesWindow` | finding 2 |
| `drawing` | pass | `Settled` `Covered` `AsRedrawn` `CurvesKeepShape` `NoFlicker` | six classes, all directions, 25 curves, three sizes, any frames skipped, runs stopped and repeated |

Every state machine has its type invariant `TypeOK`. The run `reentrant` lists it because a theorem states it; in the other
instances it holds too, and adding it to the INVARIANTS line of a configuration checks it.

Bounds. Duration 2 with 1 or 2 loops and lag 2 has updates inside a loop, at a loop's end, across it and beyond the end of
the time line, where the clamp acts; calls are not bounded in the Timeline runs. Two animations suffice for the list hazards
of `reentrant` (the current node and the remembered one); `delete` has a third for a node that is neither. Groups have up to
two children of durations 1 and 2 and up to two rounds; three calls reach run, pause, resume as well as set the count, run,
and run again. In `group_calls`, callbacks of a sequential group run, stop and pause the group and stop children; callbacks
of a parallel group stop it or a child, for the reason given at the end of section 4. Five calls in `reentrant` reach, for
example: run both, stop one in a callback of the other, rerun it before the pass gets there, pause it (389,961 states;
`delete` has 165,137 and `returns` 70,381). `library` (29,365
states) has a second session for what the first leaves behind and a second client for counts above one. `effector` (396,242
states) has two of everything, which the roller needs, one update between the first and the last, and a class registered by
the application. `window` (753,184 states) has a context and a window beside those of the call in hand, a window with a
secondary DC of its own and one without, a place of another size, five memory DCs: two for each of two calls and one for the
move, and it may run out of them. `drawing` (407,866 states) has an even square, an odd one and a size that is no square (4x4, 5x5, 6x4), four
steps of progress, 3 strips (which do not divide 4 or 5), 2 and the default of 5; shapes of curves are looked at over 22
steps, which hits the seams of Bounce at elevenths. Deadlock is not checked, except in `drawing` and `window`, whose systems
never stop: an application may delete everything and stop calling, and then nothing happens.

Fairness. `Timeline`: weak fairness of `Tick` (the clock) and of `Pass` (the timer fires, callbacks return). `Group`: the
same. `Effector`: weak fairness of `Update(a)` (the timer goes through the list), of `FillEnd` (a call goes on when what it
waits for has happened) and of `RollerUpdate`. `WindowAnimation`: weak fairness of the updates and the end of the animations
that calls and moves wait for, and of the returns. `Library` and `Drawing` are checked for safety only and state none.
`Schedular`: weak fairness of `Library` (callbacks return, functions go on) and of `Timer`; strong fairness of
`TimePasses(a)`: among infinitely many updates of a running animation, some find that time has passed. Nothing is assumed of
the application except that it stops after `MaxCalls` calls. `returns` makes no Pause call: a paused animation keeps
`SyncRun` and `Wait` waiting, as the code intends.

Every property has a mutant, a plausible bug of the code under which its run fails (`Resume` that skips READY, `Stop` that
unlinks as in the `#if 0` branch, `finished_cb` only from RUNNING as in the other `#if 0` branch, ...); the
mutated operators stand next to the originals, commented as mutated.

## 4. Findings

1. `group_repeat`: a parallel group that repeats makes its children RUNNING without refreshing their `lasttime`, so the
   shorter ones are charged the time they waited for the longest (`animationgroup.c:79-83`).
2. `hide_callback`: `mGEffShowWindowEx` puts the window into the context when it shows it (`window-animation.c:475`) and not
   when it hides it (493), so the application's callback gets a context that names another window or none.

Found with these models and not kept as runs, most of them because the documentation says nothing to the contrary:

* an endless backward animation is never clamped, starts at `duration * -1` and shows negative times (`animation.c:387`;
  `MCInfinite` in `MCTimeline` is the instance for it, hypothesis `Bounded` of section 5 excludes it);
* `Stop` of an animation with `keepalive` 0 that has ended but is not freed yet calls `finished_cb` a second time
  (`animation.c:1000`, 437). Without the rule `stop_once`, `KeepsPromise` is refuted, and in `Effector` `NoFault`, by a second
  `enddraw`; in `Timeline`, `SetKeepalive` and `Stop` in one configuration show it with `FinishedOnce`, which
  `Kept \/ NeverStopped` excludes;
* a callback that deletes the animation after its own in the list leaves the pass with a dangling node (`schedular.c:89`;
  `CallsIn <- ForeignDelete` violates `CursorSafe`);
* what `statechanged_cb` does to its own animation is overwritten, so an animation stopped there is reported finished and
  runs on (`animation.c:492`); without the rule `one_change`, `KeepsPromise` is refuted;
* `mGEffEffectorDeleteWithoutSink` frees the sources (`effector.c:399-408`), while `include/mgeff-effector.h:354-355` says
  that "source sink and destination sink will NOT be deleted"; the model follows the code, and no property takes a side;
* centersplit to the outside flickers on sinks that are not square (`centersplit-effector.c:79`, 83, 127, 131; section 2.7).

Seen with these models in passing, by changing a configuration, and not kept as runs: `SyncRun` inside a callback
nests passes and the outer one loses its place; `Delete` of a listed animation with `keepalive` 0 leaves a freed node
on the list; an endless animation turned backward ends when an update hits 0 exactly; an animation in REMOVE
that is run again goes on from its end instead of its start; a parallel group paused from a callback of one of its
children counts the paused children as ended and stops; a child of a group that is started after the clock has moved on
within the pass is first updated with a negative time, and shows a value before its start value; a
group that is run a second time without setting its loop count again runs one round.

Seen while translating. *Library*: create and delete use a NULL default schedular after the last `mGEffDeinit`; survivors of
a session are reported as freed twice when they are deleted in a later one; that the timer could not be set is
noticed by an `assert` only. *Effector core*: `mGEffEffectorGetOps` compares with `ops->name` of what may be NULL
(`effector.c:257`); `mGEffFillEffectorAnimation` and `effector_animation_play` never free their animation; a drawing animation deleted before
its end leaves the drawing resources behind; setting `ondraw` or `setproperty` of one effector writes the table all
effectors of its class share. *Window animation*: contexts made for an extraction, and `sub_dc` on its error path, are leaked;
a secondary DC an application manages itself gets the library's default callback; the `MAINWINCREATE` of a call that failed
stays hooked; `mGEffMoveWindow` frees the caller's context when it returns FALSE, of which the header says nothing.
*Drawing*: Back curves leave [0, 1], which `include/mgeff-animation.h:188` rules out, and make every class but push and clear draw
outside its picture or with a negative size; centersplit and leafwindow do not end with the final picture on the sizes of 2.7; a
zoom in after a zoom out restores only a part.
`SetCurve` accepts `NCurveTypes`, for which there is no function (`animation.c:823`).

## 5. Proofs

Every theorem has the form `Spec => []Inv`, `Spec => [][A]_vars` or `Spec => Abstract!Spec`, holds for every value of the
constants that satisfies the named `ASSUME`s of its module, and rests on nothing else but the hypotheses in its statement.
Those are disciplines of the application, written as operators over the constants that say what it does; each is satisfied
by the configuration of the run that checks the property, and section 4 tells what happens without most of them.

| theorem | property | hypothesis |
|---|---|---|
| `TypeCorrect` | `TypeOK` of `Schedular` | |
| `CursorsAreSafe` | `CursorSafe` | `CallbackDiscipline`: callbacks make no `Delete`, `SyncRun`, `Wait` |
| `ActiveStayListed` | `ActiveListed` | `Discipline` |
| `ListStaysSafe`, `NothingFreedIsUsed` | `ListSafe`, `NoUseAfterFree` | `Discipline`, `FALSE \notin Keepalive` |
| `SchedularKeepsPromise` | `KeepsPromise` | `Discipline`, both rules of 2.2 |
| `TimelineTyped` | `TypeOK` of `Timeline` | |
| `ReportedOnce`, `FreedAfterReport` | `FinishedOnce`, `FreedAfterFinish` | `Kept \/ NeverStopped` |
| `TimeIsKept`, `PausesAreNotCharged`, `EndIsShown` | `NoDrift`, `NeverAhead`, `EndsAtFarEnd` | `Kept` |
| `EveryLoopReported` | `LoopCallbacksMatch` | `OnTime` |
| `ShownWithinDuration` | `ShownInRange` | `Bounded` |
| `GroupTyped`, `ChildrenTakeTurns` | `TypeOK` of `Group`, `InOrder` | |
| `WaitingIsNotCharged`, `GroupEndsLast`, `RoundsAreComplete` | `KidsNotAhead`, `EndsWithKids`, `EveryRound` | `Steady` |
| `TimersAreOwned`, `HoldersSafe`, `ReportIsExact` | `TimersOwned`, `HoldersAreSafe`, `LeaksReported` | |
| `LibraryImplementsSession` | `KeepsUp` | |
| `NothingMissing`, `NothingLeft`, `DrawsArePaired` | `NoFault`, `NothingLeftBehind`, `BeginEndPaired` | `AllRules` |
| `NothingIsUsedTwice`, `HeldPicturesAreFrozen`, `EveryPictureIsOwned` | `NoFault`, `FrozenWhileHeld`, `NoDCLeft` | `AllRules` |
| `TypesHold`, `CurvesHold` | `TypeOK` of `Drawing`, `CurvesKeepShape` | |
| `SettledAlways`, `CoveredAlways`, `AsRedrawnAlways`, `NoFlickerAlways` | `Settled`, `Covered`, `AsRedrawn`, `NoFlicker` | `AllRules` |

### 5.1 The pass (`SchedularProofs`)

`CursorSafe` is not inductive. `IInv` adds that the list has no duplicates and that the stack is `Sound`: above a pass
there are only `setstate` and `AsyncRun` frames, so that whenever a frame unlinks (`VisitStopped`, `VisitRemove`) it
is the only pass, and it unlinks the node it stands at, which is not the one it remembers, because the list has no
duplicates. One lemma per group of actions shows that `Sound` is kept by popping, pushing or replacing a frame, by appending
to the list, or by removing the node under the pass.

### 5.2 Lists and lifetimes (`SchedularProofs`, second part)

`Discipline` is weaker than `CallbackDiscipline`: `finished_cb` may delete its own animation if no callback stops any.
`LInv` says of the stack what keeps an active animation listed while `AsyncRun` has assigned its state and not yet linked it:
an animation whose state a frame will write is listed, or a frame below will list it (`Backed`); which frames may stand above
which (`Stacked`); and what a frame goes on to use is live (`FramesLive`). `DInv` adds that only kept-alive animations exist,
so that the pass frees nothing, and that what is on the list or under a pass is live.

For the refinement `KInv` adds that exactly one report is owed for the live animations that are READY, RUNNING or PAUSED, and
none for the others (`OwedIs`), that the state a frame is about to write is one the animation's state still allows
(`AllProper`), and that an animation inside an update of its own does not wait to be freed (`UpdateOK`), so that the end of the
update does not report it again. Both rules of 2.2 are needed: without `one_change` what `statechanged_cb` does to its
animation is overwritten, without `stop_once` its end is reported again.

### 5.3 The time line (`AnimationProofs`, `TimelineProofs`)

`AnimationProofs` has no theorem of its own but the lemmas about C's truncating division and remainder, `TotalTime`, the
cases of `SetState`, `Advance` and `EndUpdate` that `TimelineProofs` and `GroupProofs` cite.
The invariants come in layers: `TInv` (types, values the application has set, the local variables of an interrupted
update), `Reports` (calls of `finished_cb`, and which states they leave), `Flow` (how late an update can be, and who is
listed), `Measured` (a run that was never disturbed has come no farther than the time it was running, and exactly as far if
it was never paused), `Remembered` (what an interrupted update has computed is what it would compute again, or the run has
been started anew), `Counted` (calls of `curloopchanged_cb`) and `NotNegative`.

The hypotheses are those of the code: `Stop` of an animation with `keepalive` 0 that has ended and is not yet freed reports
twice, so `Kept \/ NeverStopped`; such an animation, run again, goes on from its end, so `Kept`; a timer that is late by
more than a loop merges loop callbacks, so `OnTime`; endless and backward shows negative times, so `Bounded`.

### 5.4 Groups (`GroupProofs`)

`GInv` has the types, `AllInTime` (no child is ahead of its stopwatch), `Together` (a child waits or runs only if its group
does), `Scanning` (the scan's local variables: of the children passed, none that it has not noted is active) and `InOrder`.
`EveryRound` needs a second layer, `Rounds`: in an undisturbed run every child has ended as often as rounds are over, once more
if it is over in this one, and the loops counted down and the rounds over add up to the number asked for.
`Steady` says that callbacks of a parallel group do not run or pause it; otherwise the paused children count as ended
(section 4). Sequential groups need no hypothesis.

### 5.5 The library (`LibraryProofs`)

No hypotheses: stray calls of `mGEffDeinit` and survivors of older sessions are among the behaviours. `IInv` relates the
reference count to the holders and the stray calls (`Counted`), the heap to the default schedular and the timers, the dates
of animations to the sessions, and the registry to what is alive and of this session. The refinement of `Session` maps
`refs` and the holders; its step is proved action by action.

### 5.6 Effectors and window animations (`EffectorProofs`, `WindowAnimationProofs`)

Both have `fault` as a history variable, and both theorems need to know of every pointer what it points at. `EInv` states it
per effector (`EffsOK`), sink, animation, drawing resource and for each step of the two compositions (`FillOK`, `RollerOK`), and
that no two owners share (`OwnSinks`, `OneDraws`, `Held`). `NothingLeft` adds who has each sink that lives (`HandsOK`). `WInv` has the stack of calls, each with a context of its own
(`CallsOK`, `Apart`), prepared moves (`MovesOK`), who holds which window (`Holding`), and one owner for each DC (`AllOwned`).
`AllRules` says that the application follows every rule of 2.5 and 2.6; each rule is needed there.

### 5.7 Curves and pictures (`DrawingProofs`)

The run looks at curves over 22 steps and at pictures of up to 25 pixels; the theorems hold for every `Grid`, size, number of
steps, set of strips and set of curves.

*Curves.* A curve is given by its numerators over one denominator (`Shapely`, `Within`, `Rising`). The powers get their
slope from one lemma per degree, Back from the slope of its cubic, Bounce from that of each of its four parabolas and from where they
meet. Turning a curve round (`Turned`) and putting two of half the length together (`Halves`) keep the shape, and all four ways
of a family are made so (`WaysPaired`): `CurvesKeepShape` follows for all 25. It is a lemma about operators; that a run has one of these
curves is `Typed`, which also has the bounds of every blit.

*Pictures.* `Settled`, `Covered` and `AsRedrawn` are not inductive: what a frame of clear or zoom leaves depends on
where the last one drew, maybe in another run. `DInv` adds what a run under way has of the effector (`Begins`), that the
remembered point or rectangle is either the one a fresh effector has or the one at which the sink was drawn (`ClearOK`,
`ZoomOK`), and that splitting and leaves, which draw over what is there, have a full picture to draw over (`CoveredOK`). There is
one lemma per class for a frame: it leaves no hole if it had none, and at the end the final picture. They rest on lemmas
about the value (`TruncExact`, `RectBetweenEnds`: rounding is exact at both ends; `BetweenOrder`: it never puts the left side past the right one),
on those about one blit (`ClearRestores`, `ZoomRestores`: a copy in place of what was drawn over gives back the picture below) and about
lists of blits (`BlitsInPlace`: if every pixel is in a strip that is copied to its own place, the list draws the whole
picture; `StripOf`: the strips of leafwindow share out the length).

*No flicker.* `NoFlicker` speaks of two frames. `ShownOK` says of a run under way which pixels can show the second picture:
those that push has reached (`PushedIn`), those in zip's rectangle, those outside the corners centersplit still draws (`Corner`).
With a curve that does not go back the value of the next frame is no smaller (`Later`), rounding keeps that order
(`BetweenGoes`, `PartGoes`), and so each of these regions only grows (`PushedFurther`, `ZipFurther`, `CornerShrinks`). What clear and
zoom show follows from `ClearOK` and `ZoomOK` in the same way; leaves and a split to the center only copy the second source
(`BlitsKeep`). The first frame of a split relies on the rule that the first picture is in the sink.

The corners are rectangles of their own width and height, for the sink need not be square, and the frames of `Flash` are left out.

`AllRules` says that the application follows every rule of 2.7; each one is needed. So these theorems hold for the sizes that
`fits` admits, which for centersplit and leafwindow are not all, as 2.7 lists.

### 5.8 Model-checked only

Liveness (`LeftAloneEnds`, `GroupEnds`, `BlockingCallsReturn`, `Reported`, `RemoveFreed`, `CompositionsClean`,
`ShownAgain`): fairness and ENABLED are beyond the prover.
The properties of the two runs that expect a violation are false.

## 6. Not modelled

* Curves that are not rational (sine, exponential, circular, elastic, the curve family), and changed curve parameters: their
  values are roots and transcendental functions of floats.
* Flip, scroll, cubic, star and radarscan: their geometry goes through paths, polygons and matrices of mgplus and MiniGUI
  and through trigonometry; alpha blends colours. The lifetime of what scroll allocates is in `Effector`.
* OpenGL effectors and the Windows port: optional glue around other libraries.
* Groups in groups, groups that run backward, and pausing a single child of a group.
* 32-bit overflow of times in milliseconds, which takes weeks of one run; values of animations other than numbers, points and rectangles.
* Effectors that draw to a window as their sink, and properties that change the table of a class.
* A `GetMessage` that returns 0 in the message loops of `mGEffAnimationWait` and `mGEffFillEffectorAnimation`, and pausing a move of a
  window.
* How a window animation picks its effector from the type it is given: a table.
* Samples and tests, read as a reference for how the API is called.

## 7. Plan

What is left, the most important first:

1. `Group` for groups in groups.
