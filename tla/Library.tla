------------------------------ MODULE Library ------------------------------
(***************************************************************************)
(* Initialisation and shutdown: mGEffInit, mGEffDeinit and the schedular   *)
(* they create and destroy (src/schedular.c), the registry of live objects *)
(* (src/garbage-collection.c), and the animations that an application      *)
(* creates, runs and deletes over several sessions, some of them outliving *)
(* the session they were made in.                                          *)
(*                                                                         *)
(* A pass over the list is one step here (module Schedular opens it up),   *)
(* and an animation is over after Length updates.                          *)
(***************************************************************************)
EXTENDS Integers, FiniteSets

CONSTANTS
    Clients,      \* parts of the application that use the library
    Anims,        \* animations
    Length,       \* updates from the start of a run to its end
    MaxSessions,  \* bound: schedulars ever created
    MaxStrays     \* bound: calls of mGEffDeinit nobody called mGEffInit for

ASSUME LengthAssumption == Length \in Nat \ {0}
ASSUME SessionBounds == MaxSessions \in Nat /\ MaxStrays \in Nat

None == -1

VARIABLES
    refs,      \* m_initRefrent
    default,   \* g_schedular_default: the id of the schedular, or None
    serial,    \* s_serial, the id of the next schedular
    heap,      \* ids of the schedulars that are allocated
    timers,    \* ids of the schedulars whose timer is set
    list,      \* animation_list of the default schedular, in no order
    reg,       \* animations in the registry of live objects
    anims,     \* the animations
    holders,   \* clients whose mGEffInit has no mGEffDeinit yet
    strays,    \* calls of mGEffDeinit too many so far
    report,    \* the animations EffGCCheckPoint listed last
    fault      \* freed memory or a NULL schedular was used

vars == <<refs, default, serial, heap, timers, list, reg, anims, holders,
          strays, report, fault>>

Absent == [life |-> "none", state |-> "STOPPED", left |-> 0,
           keepalive |-> TRUE, born |-> None]

Live(a)   == anims[a].life = "live"
Listed(a) == a \in list
Active(a) == Live(a) /\ anims[a].state = "ACTIVE"

(* The registry: gc_add_object refuses a duplicate, gc_remove_object       *)
(* reports what it does not find as freed twice; a set does both.          *)
GCAdd(A)     == reg' = reg \cup A
GCRemove(A)  == reg' = reg \ A
GCCheckPoint == report' = reg
-----------------------------------------------------------------------------
Init ==
    /\ refs = 0
    /\ default = None
    /\ serial = 0
    /\ heap = {} /\ timers = {}
    /\ list = {}
    /\ reg = {}
    /\ anims = [a \in Anims |-> Absent]
    /\ holders = {}
    /\ strays = 0
    /\ report = {}
    /\ fault = FALSE

(* EffGCInit: both lists of live objects start empty. *)
Setup_NoGC ==   \* mutated: the registry keeps what the last session left
    /\ default' = serial
    /\ serial' = serial + 1
    /\ heap' = heap \cup {serial}
    /\ timers' = timers \cup {serial}
    /\ list' = {}
    /\ UNCHANGED reg

Setup ==
    /\ default' = serial
    /\ serial' = serial + 1
    /\ heap' = heap \cup {serial}
    /\ timers' = timers \cup {serial}
    /\ list' = {}
    /\ reg' = {}

(* mGEffInit, called by a client that holds no reference. *)
InitCall_Fresh(c) ==   \* mutated: counts only the call that sets up
    /\ c \notin holders
    /\ holders' = holders \cup {c}
    /\ IF default = None
       THEN refs' = refs + 1 /\ serial < MaxSessions /\ Setup
       ELSE UNCHANGED <<refs, default, serial, heap, timers, list, reg>>
    /\ UNCHANGED <<anims, strays, report, fault>>

InitCall(c) ==
    /\ c \notin holders
    /\ holders' = holders \cup {c}
    /\ refs' = refs + 1
    /\ IF default = None
       THEN serial < MaxSessions /\ Setup
       ELSE UNCHANGED <<default, serial, heap, timers, list, reg>>
    /\ UNCHANGED <<anims, strays, report, fault>>

(***************************************************************************)
(* mGEffDeinit.  The animations still listed keep pointing at the list     *)
(* head that is freed with the schedular; nobody finds them on a list any  *)
(* more.  EffGCCheckPoint reports what is still registered and leaves it   *)
(* there.                                                                  *)
(***************************************************************************)
TearDown_KeepsTimer ==   \* mutated: the timer is not killed
    /\ default' = None
    /\ heap' = {}
    /\ list' = {}
    /\ report' = reg
    /\ UNCHANGED timers

TearDown ==
    /\ default' = None
    /\ timers' = timers \ {default}
    /\ heap' = {}
    /\ list' = {}
    /\ GCCheckPoint

StaysUp == UNCHANGED <<default, heap, timers, list, report>>

Deinit_AtOnce ==   \* mutated: does not look at the count
    /\ refs' = refs - 1
    /\ IF default = None THEN StaysUp ELSE TearDown
    /\ UNCHANGED <<serial, reg, anims, fault>>

Deinit ==
    /\ refs' = refs - 1
    /\ IF refs' > 0 \/ default = None THEN StaysUp ELSE TearDown
    /\ UNCHANGED <<serial, reg, anims, fault>>

DeinitCall(c) ==
    /\ c \in holders
    /\ holders' = holders \ {c}
    /\ UNCHANGED strays
    /\ Deinit

(* A client that holds nothing calls mGEffDeinit all the same. *)
StrayDeinit ==
    /\ strays < MaxStrays
    /\ strays' = strays + 1
    /\ UNCHANGED holders
    /\ Deinit
-----------------------------------------------------------------------------
(* The animations. *)
Create(a, keepalive) ==
    /\ anims[a].life = "none"
    /\ holders # {}
    /\ default # None
    /\ anims' = [anims EXCEPT ![a] = [Absent EXCEPT !.life = "live",
                                      !.keepalive = keepalive, !.born = default]]
    /\ GCAdd({a})
    /\ UNCHANGED <<refs, default, serial, heap, timers, list, holders, strays,
                   report, fault>>

(* mGEffAnimationAsyncRun returns -1 and does nothing without a schedular. *)
AsyncRun(a) ==
    /\ Live(a)
    /\ default # None
    /\ anims' = [anims EXCEPT ![a].state = "ACTIVE",
                 ![a].left = IF anims[a].state = "STOPPED" THEN Length ELSE @]
    /\ list' = list \cup {a}
    /\ UNCHANGED <<refs, default, serial, heap, timers, reg, holders, strays,
                   report, fault>>

Over(a) == IF anims[a].keepalive THEN "STOPPED" ELSE "REMOVE"

Stop(a) ==
    /\ Live(a)
    /\ anims[a].state # "STOPPED"
    /\ anims' = [anims EXCEPT ![a].state = Over(a)]
    /\ UNCHANGED <<refs, default, serial, heap, timers, list, reg, holders,
                   strays, report, fault>>

(***************************************************************************)
(* mGEffAnimationDelete.  The application deletes what is kept alive while *)
(* it holds a reference; what is not kept alive frees itself, unless the   *)
(* library went down first.  remove_animation dereferences the default     *)
(* schedular without a test.                                               *)
(***************************************************************************)
Delete(a) ==
    /\ Live(a)
    /\ IF anims[a].keepalive THEN holders # {} ELSE default = None
    /\ fault' = (fault \/ (anims[a].keepalive /\ default = None))
    /\ GCRemove({a})
    /\ list' = IF anims[a].keepalive THEN list \ {a} ELSE list
    /\ anims' = [anims EXCEPT ![a] = Absent]
    /\ UNCHANGED <<refs, default, serial, heap, timers, holders, strays, report>>

(* What one pass makes of animation a. *)
Updated(a) ==
    CASE anims[a].state = "REMOVE" -> Absent
      [] anims[a].state = "ACTIVE" /\ anims[a].left <= 1 ->
            [anims[a] EXCEPT !.state = Over(a), !.left = 0]
      [] anims[a].state = "ACTIVE" /\ anims[a].left > 1 ->
            [anims[a] EXCEPT !.left = @ - 1]
      [] OTHER -> anims[a]

(* effschedular_ontimer: one pass over the list of the timer's schedular.  *)
Timer ==
    /\ timers # {}
    /\ anims' = [a \in Anims |-> IF Listed(a) THEN Updated(a) ELSE anims[a]]
    /\ list' = {a \in list : Active(a)}
    /\ GCRemove({a \in list : anims[a].state = "REMOVE"})
    /\ fault' = (fault \/ ~(timers \subseteq heap)
                       \/ \E a \in list : ~Live(a))
    /\ UNCHANGED <<refs, default, serial, heap, timers, holders, strays, report>>

Next ==
    \/ \E c \in Clients : InitCall(c) \/ DeinitCall(c)
    \/ StrayDeinit
    \/ \E a \in Anims, k \in BOOLEAN : Create(a, k)
    \/ \E a \in Anims : AsyncRun(a) \/ Stop(a) \/ Delete(a)
    \/ Timer

Spec == Init /\ [][Next]_vars
-----------------------------------------------------------------------------
TypeOK ==
    /\ refs \in -MaxStrays..Cardinality(Clients)
    /\ default \in {None} \cup 0..MaxSessions-1
    /\ serial \in 0..MaxSessions
    /\ heap \subseteq 0..MaxSessions-1 /\ timers \subseteq 0..MaxSessions-1
    /\ list \subseteq Anims
    /\ reg \subseteq Anims /\ report \subseteq Anims
    /\ anims \in [Anims -> [life : {"none", "live"},
                            state : {"STOPPED", "ACTIVE", "REMOVE"},
                            left : 0..Length, keepalive : BOOLEAN,
                            born : {None} \cup 0..MaxSessions-1]]
    /\ holders \subseteq Clients
    /\ strays \in 0..MaxStrays
    /\ fault \in BOOLEAN

(* The timer handler gets the schedular itself as its window handle: a     *)
(* timer is set for exactly the schedulars that are allocated, over any    *)
(* number of sessions and whatever the reference count has become          *)
(* (schedular.c:281-324).                                                  *)
TimersOwned ==
    /\ heap = IF default = None THEN {} ELSE {default}
    /\ timers = heap

(* As long as nobody gives back a reference he did not take, a client that *)
(* holds one can run and delete its animations, those of earlier sessions  *)
(* too, without touching freed memory or a schedular that is gone          *)
(* (animation.c:602).                                                      *)
HoldersAreSafe == strays = 0 => ~fault

(* The report made when the library goes down names exactly the animations *)
(* created since it came up and not freed, however they were freed         *)
(* (garbage-collection.c:169).                                             *)
LeaksReported ==
    [][default # None /\ default' = None =>
          report' = {a \in Anims : Live(a) /\ anims[a].born = default}]_vars

(* Clients that give back what they took see the library up exactly while  *)
(* one of them holds a reference.                                          *)
Promise == INSTANCE Session WITH trusted <- strays = 0, up <- default # None
KeepsUp == Promise!Spec
=============================================================================
