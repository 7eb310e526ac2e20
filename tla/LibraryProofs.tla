---------------------------- MODULE LibraryProofs ----------------------------
(***************************************************************************)
(* Theorems about Library, for any set of clients and of animations, any   *)
(* length of a run and any number of sessions and of stray calls.          *)
(***************************************************************************)
EXTENDS Library, FiniteSetTheorems, TLAPS

-----------------------------------------------------------------------------
(***************************************************************************)
(* The inductive invariant.                                                *)
(***************************************************************************)
AnimType == [life : {"none", "live"}, state : {"STOPPED", "ACTIVE", "REMOVE"},
             left : Nat, keepalive : BOOLEAN, born : {None} \cup Nat]
AnimsTyped == anims \in [Anims -> AnimType]

Values ==
    /\ refs \in Int
    /\ serial \in Nat
    /\ default \in {None} \cup Nat
    /\ strays \in Nat
    /\ holders \subseteq Clients /\ IsFiniteSet(holders)
    /\ list \subseteq Anims
    /\ AnimsTyped
    /\ fault \in BOOLEAN

(* The reference count is the number of references that are held, less the *)
(* calls of mGEffDeinit that gave back none; without such calls, the       *)
(* library is up while it is not 0.                                        *)
Counted ==
    /\ refs = Cardinality(holders) - strays
    /\ strays = 0 => (default # None <=> holders # {})

(* Ids of schedulars are not given twice, and an animation names the       *)
(* schedular it was created under.                                         *)
Dated ==
    /\ default # None => default < serial
    /\ \A a \in Anims : Live(a) => anims[a].born \in Nat /\ anims[a].born < serial

(* What is on the list is alive, and on a list that exists. *)
ListAlive ==
    /\ \A a \in list : Live(a)
    /\ default = None => list = {}

(* While the library is up, the registry holds what was created since. *)
Registered ==
    default # None => reg = {a \in Anims : Live(a) /\ anims[a].born = default}

IInv == Values /\ TimersOwned /\ Counted /\ Dated /\ ListAlive /\ Registered /\ HoldersAreSafe
-----------------------------------------------------------------------------
(***************************************************************************)
(* The values an animation can take.                                       *)
(***************************************************************************)
LEMMA AbsentTyped == Absent \in AnimType /\ Absent.life = "none"
BY DEF Absent, AnimType

LEMMA UpdatedIs ==
    ASSUME AnimsTyped, NEW a \in Anims
    PROVE  /\ anims[a].state = "REMOVE" => Updated(a) = Absent
           /\ anims[a].state = "STOPPED" => Updated(a) = anims[a]
           /\ anims[a].state = "ACTIVE" /\ anims[a].left <= 1 =>
                 Updated(a) = [anims[a] EXCEPT !.state = Over(a), !.left = 0]
           /\ anims[a].state = "ACTIVE" /\ anims[a].left > 1 =>
                 Updated(a) = [anims[a] EXCEPT !.left = @ - 1]
<1>1. anims[a].left \in Nat
    BY DEF AnimsTyped, AnimType
<1>2. anims[a].left <= 1 => ~(anims[a].left > 1)
    BY <1>1
<1> QED
    BY <1>2 DEF Updated

LEMMA InvInit == Init => IInv
<1> SUFFICES ASSUME Init PROVE IInv
    OBVIOUS
<1>1. IsFiniteSet({}) /\ Cardinality({}) = 0
    BY FS_EmptySet
<1>2. AnimsTyped
    BY DEF Init, AnimsTyped, AnimType, Absent
<1>3. Values /\ TimersOwned
    <2>1. refs \in Int /\ serial \in Nat /\ default \in {None} \cup Nat /\ strays \in Nat
        BY DEF Init
    <2>2. /\ holders \subseteq Clients /\ IsFiniteSet(holders) /\ list \subseteq Anims
          /\ fault \in BOOLEAN
        BY <1>1 DEF Init
    <2> QED
        BY <1>2, <2>1, <2>2 DEF Init, Values, TimersOwned
<1>4. Counted
    BY <1>1 DEF Init, Counted
<1>5. Dated /\ ListAlive /\ Registered /\ HoldersAreSafe
    BY DEF Init, Dated, ListAlive, Registered, HoldersAreSafe, Live, Absent
<1> QED
    BY <1>3, <1>4, <1>5 DEF IInv

(* The steps that change neither the animations nor their list. *)
LEMMA InvInitCall ==
    ASSUME IInv, NEW c \in Clients, InitCall(c)
    PROVE  IInv'
<1> USE DEF None
<1>1. /\ IsFiniteSet(holders') /\ holders' \subseteq Clients
      /\ Cardinality(holders') = Cardinality(holders) + 1
    BY FS_AddElement DEF InitCall, IInv, Values
<1>2. Cardinality(holders) \in Nat
    BY FS_CardinalityType DEF IInv, Values
<1>3. /\ default' \in Nat
      /\ default = None => default' = serial /\ serial' = serial + 1 /\ heap' = heap \cup {serial}
                           /\ timers' = timers \cup {serial} /\ list' = {} /\ reg' = {}
      /\ default # None => UNCHANGED <<default, serial, heap, timers, list, reg>>
    BY DEF InitCall, Setup, IInv, Values
<1>4. /\ holders' # {} /\ refs' = refs + 1
      /\ UNCHANGED <<anims, strays, fault>>
    BY DEF InitCall
<1>5. Values'
    BY <1>1, <1>3, <1>4 DEF IInv, Values, AnimsTyped
<1>6. TimersOwned'
    BY <1>3 DEF IInv, TimersOwned, Values
<1>7. Counted'
    BY <1>1, <1>2, <1>3, <1>4 DEF IInv, Counted, Values
<1>8. Dated'
    BY <1>3, <1>4 DEF IInv, Dated, Values, Live
<1>9. ListAlive'
    BY <1>3, <1>4 DEF IInv, ListAlive, Live
<1>10. Registered'
    BY <1>3, <1>4 DEF IInv, Registered, Live, Dated, Values
<1>11. HoldersAreSafe'
    BY <1>4 DEF IInv, HoldersAreSafe
<1> QED
    BY <1>5, <1>6, <1>7, <1>8, <1>9, <1>10, <1>11 DEF IInv

LEMMA InvDeinit ==
    ASSUME IInv, Deinit,
           \/ \E c \in Clients : c \in holders /\ holders' = holders \ {c} /\ strays' = strays
           \/ strays' = strays + 1 /\ holders' = holders
    PROVE  IInv'
<1> USE DEF None
<1>0. Cardinality(holders) \in Nat
    BY FS_CardinalityType DEF IInv, Values
<1>1. /\ IsFiniteSet(holders') /\ holders' \subseteq Clients
      /\ Cardinality(holders') - strays' = Cardinality(holders) - strays - 1
    <2>1. CASE \E c \in Clients : c \in holders /\ holders' = holders \ {c} /\ strays' = strays
        <3>1. PICK c \in Clients : c \in holders /\ holders' = holders \ {c} /\ strays' = strays
            BY <2>1
        <3>2. IsFiniteSet(holders) /\ holders \subseteq Clients /\ strays \in Nat
            BY DEF IInv, Values
        <3>3. IsFiniteSet(holders \ {c}) /\ Cardinality(holders \ {c}) = Cardinality(holders) - 1
            BY <3>1, <3>2, FS_RemoveElement
        <3> QED
            BY <3>1, <3>2, <3>3, <1>0
    <2>2. CASE strays' = strays + 1 /\ holders' = holders
        BY <2>2, <1>0 DEF IInv, Values
    <2> QED
        BY <2>1, <2>2
<1>2. /\ refs' = refs - 1
      /\ \/ /\ refs' > 0 \/ default = None
            /\ UNCHANGED <<default, heap, timers, list>>
         \/ /\ ~(refs' > 0) /\ default # None
            /\ default' = None /\ timers' = timers \ {default} /\ heap' = {} /\ list' = {}
      /\ UNCHANGED <<serial, reg, anims, fault>>
    BY DEF Deinit, TearDown, StaysUp
<1>3. strays' \in Nat /\ (strays' = 0 => strays = 0)
    BY DEF IInv, Values
<1>4. Values'
    BY <1>1, <1>2, <1>3 DEF IInv, Values, AnimsTyped
<1>5. TimersOwned'
    BY <1>2 DEF IInv, TimersOwned, Values
<1>6. Counted'
    <2>1. refs' = Cardinality(holders') - strays'
        BY <1>1, <1>2 DEF IInv, Counted
    <2>2. Cardinality(holders') \in Nat /\ (Cardinality(holders') = 0 <=> holders' = {})
        BY <1>1, FS_CardinalityType, FS_EmptySet
    <2>3. ASSUME strays' = 0 PROVE holders # {} /\ default # None
        BY <2>3, <1>3 DEF IInv, Counted, Values
    <2> QED
        BY <2>1, <2>2, <2>3, <1>2 DEF Counted
<1>7. Dated'
    BY <1>2 DEF IInv, Dated, Live
<1>8. ListAlive'
    BY <1>2 DEF IInv, ListAlive, Live
<1>9. Registered'
    BY <1>2 DEF IInv, Registered, Live
<1>10. HoldersAreSafe'
    BY <1>2, <1>3 DEF IInv, HoldersAreSafe
<1> QED
    BY <1>4, <1>5, <1>6, <1>7, <1>8, <1>9, <1>10 DEF IInv
-----------------------------------------------------------------------------
(***************************************************************************)
(* The steps of the animations and of the timer.                           *)
(***************************************************************************)
OfAnimations ==
    \/ \E a \in Anims, k \in BOOLEAN : Create(a, k)
    \/ \E a \in Anims : AsyncRun(a) \/ Stop(a) \/ Delete(a)
    \/ Timer

LEMMA InvCreate ==
    ASSUME IInv, NEW a \in Anims, NEW k \in BOOLEAN, Create(a, k)
    PROVE  IInv'
<1> USE DEF None
<1>1. /\ default # None /\ ~Live(a)
      /\ AnimsTyped'
      /\ anims'[a].life = "live" /\ anims'[a].born = default
      /\ \A b \in Anims : b # a => anims'[b] = anims[b]
      /\ reg' = reg \cup {a}
      /\ UNCHANGED <<refs, default, serial, heap, timers, list, holders, strays, fault>>
    <2> DEFINE new == [Absent EXCEPT !.life = "live", !.keepalive = k, !.born = default]
    <2>1. default # None /\ default \in Nat /\ anims' = [anims EXCEPT ![a] = new]
        BY DEF Create, IInv, Values
    <2>2. new \in AnimType /\ new.life = "live" /\ new.born = default
        <3>1. "live" \in {"none", "live"} /\ default \in {None} \cup Nat
            BY <2>1
        <3> QED
            BY <3>1, AbsentTyped DEF AnimType
    <2>3. AnimsTyped
        BY DEF IInv, Values
    <2> HIDE DEF new
    <2>4. /\ AnimsTyped' /\ anims'[a] = new
          /\ \A b \in Anims : b # a => anims'[b] = anims[b]
        BY <2>1, <2>2, <2>3 DEF AnimsTyped
    <2> QED
        BY <2>1, <2>2, <2>4 DEF Create, GCAdd, Live
<1>2. Values' /\ TimersOwned' /\ Counted' /\ HoldersAreSafe'
    BY <1>1 DEF IInv, Values, TimersOwned, Counted, HoldersAreSafe
<1>3. Dated'
    BY <1>1 DEF IInv, Values, Dated, Live
<1>4. ListAlive'
    BY <1>1 DEF IInv, Values, ListAlive, Live
<1>5. Registered'
    BY <1>1 DEF IInv, Registered, Live
<1> QED
    BY <1>2, <1>3, <1>4, <1>5 DEF IInv

(* A run or a stop changes nothing that the invariant reads in the         *)
(* animation.                                                              *)
LEMMA InvRunStop ==
    ASSUME IInv, NEW a \in Anims, AsyncRun(a) \/ Stop(a)
    PROVE  IInv'
<1> USE DEF None
<1>1. /\ Live(a) /\ AnimsTyped'
      /\ \A b \in Anims : anims'[b].life = anims[b].life /\ anims'[b].born = anims[b].born
    <2>1. AnimsTyped /\ Length \in Nat
        BY LengthAssumption DEF IInv, Values
    <2>2. CASE AsyncRun(a)
        BY <2>1, <2>2 DEF AsyncRun, Live, AnimsTyped, AnimType
    <2>3. CASE Stop(a)
        BY <2>1, <2>3 DEF Stop, Over, Live, AnimsTyped, AnimType
    <2> QED
        BY <2>2, <2>3
<1>2. /\ list' = list \/ (list' = list \cup {a} /\ default # None)
      /\ UNCHANGED <<refs, default, serial, heap, timers, reg, holders, strays, fault>>
    BY DEF AsyncRun, Stop
<1>3. Values' /\ TimersOwned' /\ Counted' /\ HoldersAreSafe'
    BY <1>1, <1>2 DEF IInv, Values, TimersOwned, Counted, HoldersAreSafe
<1>4. Dated'
    BY <1>1, <1>2 DEF IInv, Dated, Live
<1>5. ListAlive'
    BY <1>1, <1>2 DEF IInv, Values, ListAlive, Live
<1>6. Registered'
    BY <1>1, <1>2 DEF IInv, Registered, Live
<1> QED
    BY <1>3, <1>4, <1>5, <1>6 DEF IInv

LEMMA InvDelete ==
    ASSUME IInv, NEW a \in Anims, Delete(a)
    PROVE  IInv'
<1> USE DEF None
<1>1. /\ Live(a) /\ AnimsTyped'
      /\ anims'[a].life = "none"
      /\ \A b \in Anims : b # a => anims'[b] = anims[b]
    BY DEF Delete, Absent, Live, IInv, Values, AnimsTyped, AnimType
<1>2. /\ reg' = reg \ {a}
      /\ \/ list' = list \ {a} /\ holders # {} /\ (fault' = (fault \/ default = None))
         \/ list' = list /\ default = None /\ fault' = fault
      /\ UNCHANGED <<refs, default, serial, heap, timers, holders, strays>>
    BY DEF Delete, GCRemove, IInv, Values
<1>3. Values' /\ TimersOwned' /\ Counted'
    BY <1>1, <1>2 DEF IInv, Values, TimersOwned, Counted
<1>4. Dated'
    BY <1>1, <1>2 DEF IInv, Dated, Live
<1>5. ListAlive'
    BY <1>1, <1>2 DEF IInv, Values, ListAlive, Live
<1>6. Registered'
    BY <1>1, <1>2 DEF IInv, Registered, Live
<1>7. HoldersAreSafe'
    BY <1>2 DEF IInv, Counted, HoldersAreSafe
<1> QED
    BY <1>3, <1>4, <1>5, <1>6, <1>7 DEF IInv

LEMMA InvTimer ==
    ASSUME IInv, Timer
    PROVE  IInv'
<1> USE DEF None
<1>1. /\ anims' = [a \in Anims |-> IF a \in list THEN Updated(a) ELSE anims[a]]
      /\ list' = {a \in list : Active(a)}
      /\ reg' = reg \ {a \in list : anims[a].state = "REMOVE"}
      /\ fault' = (fault \/ ~(timers \subseteq heap) \/ \E a \in list : ~Live(a))
      /\ UNCHANGED <<refs, default, serial, heap, timers, holders, strays>>
    BY DEF Timer, GCRemove, Listed
<1>2. AnimsTyped
    BY DEF IInv, Values
<1>3. \A a \in Anims :
          /\ Updated(a) \in AnimType
          /\ IF anims[a].state = "REMOVE" THEN Updated(a).life = "none"
             ELSE Updated(a).life = anims[a].life /\ Updated(a).born = anims[a].born
    <2> SUFFICES ASSUME NEW a \in Anims
                 PROVE  /\ Updated(a) \in AnimType
                        /\ IF anims[a].state = "REMOVE" THEN Updated(a).life = "none"
                           ELSE Updated(a).life = anims[a].life /\ Updated(a).born = anims[a].born
        OBVIOUS
    <2>1. anims[a] \in AnimType
        BY <1>2 DEF AnimsTyped
    <2>2. CASE anims[a].state = "REMOVE"
        BY <1>2, <2>2, AbsentTyped, UpdatedIs
    <2>3. CASE anims[a].state = "ACTIVE" /\ anims[a].left <= 1
        <3>1. Updated(a) = [anims[a] EXCEPT !.state = Over(a), !.left = 0]
            BY <1>2, <2>3, UpdatedIs
        <3>2. Over(a) \in {"STOPPED", "REMOVE"}
            BY DEF Over
        <3> DEFINE r == anims[a]
                   s == Over(a)
        <3>3. r \in AnimType /\ s \in {"STOPPED", "REMOVE"}
            BY <2>1, <3>2
        <3> HIDE DEF r, s
        <3>4. /\ [r EXCEPT !.state = s, !.left = 0] \in AnimType
              /\ [r EXCEPT !.state = s, !.left = 0].life = r.life
              /\ [r EXCEPT !.state = s, !.left = 0].born = r.born
            BY <3>3 DEF AnimType
        <3> QED
            BY <2>3, <3>1, <3>4 DEF r, s
    <2>4. CASE anims[a].state = "ACTIVE" /\ anims[a].left > 1
        <3>1. Updated(a) = [anims[a] EXCEPT !.left = anims[a].left - 1]
            BY <1>2, <2>4, UpdatedIs
        <3> QED
            BY <2>1, <2>4, <3>1 DEF AnimType
    <2>5. CASE anims[a].state = "STOPPED"
        BY <1>2, <2>1, <2>5, UpdatedIs
    <2> QED
        BY <2>1, <2>2, <2>3, <2>4, <2>5 DEF AnimType
<1>4. \A a \in Anims :
          IF a \in list /\ anims[a].state = "REMOVE" THEN anims'[a].life = "none"
          ELSE anims'[a].life = anims[a].life /\ anims'[a].born = anims[a].born
    BY <1>1, <1>3
<1>5. Values' /\ TimersOwned' /\ Counted'
    BY <1>1, <1>2, <1>3 DEF AnimsTyped, IInv, Values, TimersOwned, Counted
<1>6. Dated'
    BY <1>1, <1>4 DEF IInv, Dated, Live
<1>7. ListAlive'
    BY <1>1, <1>4 DEF IInv, Values, ListAlive, Live, Active
<1>8. Registered'
    BY <1>1, <1>4 DEF IInv, Registered, Live
<1>9. HoldersAreSafe'
    BY <1>1 DEF IInv, HoldersAreSafe, TimersOwned, ListAlive
<1> QED
    BY <1>5, <1>6, <1>7, <1>8, <1>9 DEF IInv

LEMMA InvNext == IInv /\ [Next]_vars => IInv'
<1> SUFFICES ASSUME IInv, [Next]_vars PROVE IInv'
    OBVIOUS
<1>1. ASSUME NEW c \in Clients, InitCall(c) PROVE IInv'
    BY <1>1, InvInitCall
<1>2. ASSUME NEW c \in Clients, DeinitCall(c) PROVE IInv'
    BY <1>2, InvDeinit DEF DeinitCall
<1>3. CASE StrayDeinit
    BY <1>3, InvDeinit DEF StrayDeinit
<1>4. CASE OfAnimations
    BY <1>4, InvCreate, InvRunStop, InvDelete, InvTimer DEF OfAnimations
<1>5. CASE UNCHANGED vars
    BY <1>5 DEF vars, IInv, Values, AnimsTyped, TimersOwned, Counted, Dated, ListAlive, Registered,
                HoldersAreSafe, Live
<1> QED
    BY <1>1, <1>2, <1>3, <1>4, <1>5 DEF Next, OfAnimations
-----------------------------------------------------------------------------
(* Over any number of sessions a timer is set for exactly the schedulars   *)
(* that are allocated (mGEffInit and mGEffDeinit, schedular.c).            *)
THEOREM TimersAreOwned == Spec => []TimersOwned
<1>1. IInv => TimersOwned
    BY DEF IInv
<1> QED
    BY <1>1, InvInit, InvNext, PTL DEF Spec

(* Who holds a reference can run and delete its animations, those of       *)
(* earlier sessions too, as long as nobody gave back too much              *)
(* (mGEffAnimationDelete, animation.c).                                    *)
THEOREM HoldersSafe == Spec => []HoldersAreSafe
<1>1. IInv => HoldersAreSafe
    BY DEF IInv
<1> QED
    BY <1>1, InvInit, InvNext, PTL DEF Spec

(* The report of EffGCCheckPoint names exactly the animations created in   *)
(* the session that ends and not freed (garbage-collection.c).             *)
THEOREM ReportIsExact == Spec => LeaksReported
<1>1. IInv /\ [Next]_vars => [default # None /\ default' = None =>
          report' = {a \in Anims : Live(a) /\ anims[a].born = default}]_vars
    <2> SUFFICES ASSUME IInv, Next, default # None, default' = None
                 PROVE  report' = {a \in Anims : Live(a) /\ anims[a].born = default}
        OBVIOUS
    <2>1. Deinit
        BY DEF Next, InitCall, DeinitCall, StrayDeinit, Create, AsyncRun, Stop, Delete, Timer
    <2>2. report' = reg
        BY <2>1 DEF Deinit, StaysUp, TearDown, GCCheckPoint
    <2> QED
        BY <2>2 DEF IInv, Registered
<1> QED
    BY <1>1, InvInit, InvNext, PTL DEF Spec, LeaksReported
-----------------------------------------------------------------------------
(***************************************************************************)
(* Library implements Session.                                             *)
(***************************************************************************)
LEMMA PromiseInit == Init => Promise!Init
BY DEF Init, Promise!Init

LEMMA PromiseNext ==
    IInv /\ [Next]_vars => [Promise!Next]_<<holders, strays = 0, default # None>>
<1> USE DEF None
<1> SUFFICES ASSUME IInv, [Next]_vars
             PROVE  [Promise!Next]_<<holders, strays = 0, default # None>>
    OBVIOUS
<1>0. IInv'
    BY InvNext
<1>1. ASSUME NEW c \in Clients, InitCall(c) PROVE Promise!Acquire(c)
    <2>1. default' # None
        BY <1>1 DEF InitCall, Setup, IInv, Values
    <2> QED
        BY <1>1, <2>1 DEF InitCall, Promise!Acquire
<1>2. ASSUME NEW c \in Clients, DeinitCall(c) PROVE Promise!Release(c)
    BY <1>0, <1>2 DEF DeinitCall, IInv, Counted, Promise!Release
<1>3. CASE StrayDeinit
    <2>1. Promise!Stray
        BY <1>3 DEF StrayDeinit, IInv, Values, Promise!Stray
    <2> QED
        BY <2>1 DEF Promise!Next
<1>4. CASE OfAnimations \/ UNCHANGED vars
    BY <1>4 DEF OfAnimations, Create, AsyncRun, Stop, Delete, Timer, vars
<1> QED
    BY <1>1, <1>2, <1>3, <1>4 DEF Next, OfAnimations, Promise!Next

(* Clients that give back what they took see the library up exactly while  *)
(* one of them holds a reference: mGEffInit and mGEffDeinit implement      *)
(* Session.                                                                *)
THEOREM LibraryImplementsSession == Spec => KeepsUp
BY PromiseInit, PromiseNext, InvInit, InvNext, PTL DEF Spec, KeepsUp, Promise!Spec
=============================================================================
