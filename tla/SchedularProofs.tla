--------------------------- MODULE SchedularProofs ---------------------------
(***************************************************************************)
(* Theorems about Schedular, for any number of animations, any length of   *)
(* their time lines, any bound on the calls and any nesting of callbacks.  *)
(***************************************************************************)
EXTENDS Schedular, SequenceTheorems, TLAPS

-----------------------------------------------------------------------------
(***************************************************************************)
(* What the operations on the call stack and on the list return.           *)
(***************************************************************************)
LEMMA FrontProperties ==
    ASSUME NEW S, NEW s \in Seq(S), s # << >>
    PROVE  /\ Front(s) \in Seq(S)
           /\ Len(s) \in Nat \ {0}
           /\ Len(Front(s)) = Len(s) - 1
           /\ \A i \in 1..(Len(s) - 1) : Front(s)[i] = s[i]
<1>1. Len(s) \in Nat \ {0}
    BY EmptySeq
<1> DEFINE n == Len(s) - 1
<1>2. n \in Nat /\ \A i \in 1..n : s[i] \in S
    BY <1>1, ElementOfSeq
<1>3. Front(s) = SubSeq(s, 1, n)
    BY DEF Front
<1> HIDE DEF n
<1>4. /\ SubSeq(s, 1, n) \in Seq(S)
      /\ Len(SubSeq(s, 1, n)) = IF 1 <= n THEN n - 1 + 1 ELSE 0
      /\ \A i \in 1..(n - 1 + 1) : SubSeq(s, 1, n)[i] = s[1 + i - 1]
    BY <1>2, SubSeqProperties
<1>5. /\ Len(Front(s)) = n
      /\ \A i \in 1..n : Front(s)[i] = s[i]
    BY <1>2, <1>3, <1>4
<1> QED
    BY <1>1, <1>3, <1>4, <1>5 DEF n

LEMMA RemoveAtProperties ==
    ASSUME NEW S, NEW s \in Seq(S), NEW k \in 1..Len(s)
    PROVE  /\ RemoveAt(s, k) \in Seq(S)
           /\ Len(RemoveAt(s, k)) = Len(s) - 1
           /\ \A i \in 1..(Len(s) - 1) :
                 RemoveAt(s, k)[i] = IF i < k THEN s[i] ELSE s[i + 1]
<1> DEFINE l == SubSeq(s, 1, k - 1)
           r == SubSeq(s, k + 1, Len(s))
<1>1. Len(s) \in Nat /\ k \in Nat /\ 1 <= k /\ k <= Len(s)
    BY LenProperties
<1>2. \A i \in 1..Len(s) : s[i] \in S
    BY ElementOfSeq
<1>3. /\ l \in Seq(S)
      /\ Len(l) = k - 1
      /\ \A i \in 1..(k - 1) : l[i] = s[i]
    <2>1. 1 \in Int /\ k - 1 \in Int /\ \A i \in 1..(k - 1) : s[i] \in S
        BY <1>1, <1>2
    <2>2. /\ l \in Seq(S)
          /\ Len(l) = IF 1 <= k - 1 THEN (k - 1) - 1 + 1 ELSE 0
          /\ \A i \in 1..((k - 1) - 1 + 1) : l[i] = s[1 + i - 1]
        BY <2>1, SubSeqProperties
    <2> QED
        BY <2>2, <1>1
<1>4. /\ r \in Seq(S)
      /\ Len(r) = Len(s) - k
      /\ \A i \in 1..(Len(s) - k) : r[i] = s[k + i]
    <2>1. k + 1 \in Int /\ Len(s) \in Int /\ \A i \in (k + 1)..Len(s) : s[i] \in S
        BY <1>1, <1>2
    <2>2. /\ r \in Seq(S)
          /\ Len(r) = IF k + 1 <= Len(s) THEN Len(s) - (k + 1) + 1 ELSE 0
          /\ \A i \in 1..(Len(s) - (k + 1) + 1) : r[i] = s[(k + 1) + i - 1]
        BY <2>1, SubSeqProperties
    <2> QED
        BY <2>2, <1>1
<1>5. /\ l \o r \in Seq(S)
      /\ Len(l \o r) = Len(l) + Len(r)
      /\ \A i \in 1..(Len(l) + Len(r)) :
            (l \o r)[i] = IF i <= Len(l) THEN l[i] ELSE r[i - Len(l)]
    BY <1>3, <1>4, ConcatProperties
<1>6. RemoveAt(s, k) = l \o r
    BY DEF RemoveAt
<1> HIDE DEF l, r
<1>7. /\ Len(RemoveAt(s, k)) = Len(s) - 1
      /\ RemoveAt(s, k) \in Seq(S)
    <2>1. Len(l) + Len(r) = Len(s) - 1
        BY <1>1, <1>3, <1>4
    <2> QED
        BY <2>1, <1>5, <1>6, Zenon
<1>8. ASSUME NEW i \in 1..(Len(s) - 1), i < k
      PROVE  RemoveAt(s, k)[i] = s[i]
    <2>1. i \in 1..(k - 1) /\ i \in 1..(Len(l) + Len(r)) /\ i <= Len(l)
        BY <1>1, <1>3, <1>4, <1>8
    <2>2. (l \o r)[i] = l[i]
        BY <2>1, <1>5
    <2> QED
        BY <2>1, <2>2, <1>3, <1>6
<1>9. ASSUME NEW i \in 1..(Len(s) - 1), ~(i < k)
      PROVE  RemoveAt(s, k)[i] = s[i + 1]
    <2>1. /\ i - (k - 1) \in 1..(Len(s) - k)
          /\ i \in 1..(Len(l) + Len(r))
          /\ ~(i <= Len(l))
          /\ k + (i - (k - 1)) = i + 1
        BY <1>1, <1>3, <1>4, <1>9
    <2>2. (l \o r)[i] = r[i - (k - 1)]
        BY <2>1, <1>3, <1>5
    <2> QED
        BY <2>1, <2>2, <1>4, <1>6
<1> QED
    BY <1>7, <1>8, <1>9

-----------------------------------------------------------------------------
(***************************************************************************)
(* Typing.                                                                 *)
(***************************************************************************)
LEMMA FrameTyped ==
    ASSUME NEW at \in Ats, NEW a \in Nodes, a = ListHead => at = "visit"
    PROVE  Frame(at, a) \in FrameType
BY DEF Frame, FrameType, Nodes, States

LEMMA ChangingTyped ==
    ASSUME NEW a \in Animations, NEW new \in States
    PROVE  Changing(a, new) \in FrameType
BY HeadAssumption DEF Changing, Frame, FrameType, Nodes, States, Ats, PassAts

LEMMA TopTyped ==
    ASSUME stack \in Seq(FrameType), stack # << >>
    PROVE  /\ Top \in FrameType
           /\ Top.at \in Ats /\ Top.a \in Nodes /\ Top.new \in States
           /\ Top.nxt \in Nodes /\ Top.found \in BOOLEAN
           /\ Top.at # "visit" => Top.a \in Animations
<1>1. Len(stack) \in 1..Len(stack)
    BY EmptySeq
<1>2. Top \in FrameType
    BY <1>1, ElementOfSeq DEF Top
<1> QED
    BY <1>2 DEF FrameType, Nodes

LEMMA GoOnTyped ==
    ASSUME stack \in Seq(FrameType), stack # << >>, NEW f \in FrameType
    PROVE  /\ GoOn(f) \in Seq(FrameType)
           /\ Len(GoOn(f)) = Len(stack)
           /\ \A i \in 1..Len(stack) : GoOn(f)[i] = IF i = Len(stack) THEN f ELSE stack[i]
<1>1. Len(stack) \in 1..Len(stack)
    BY EmptySeq
<1> QED
    BY <1>1, ExceptSeq DEF GoOn

LEMMA GoOnAtTyped ==
    ASSUME stack \in Seq(FrameType), stack # << >>, NEW at \in Ats,
           Top.a = ListHead => at = "visit"
    PROVE  /\ [Top EXCEPT !.at = at] \in FrameType
           /\ GoOnAt(at) \in Seq(FrameType)
<1>1. [Top EXCEPT !.at = at] \in FrameType
    BY TopTyped DEF FrameType
<1> QED
    BY <1>1, GoOnTyped DEF GoOnAt

LEMMA VisitedTyped ==
    ASSUME stack \in Seq(FrameType), stack # << >>, NEW at \in Ats, Top.a \in Animations
    PROVE  /\ [Top EXCEPT !.at = at, !.found = @ \/ Top.a = Wanted] \in FrameType
           /\ VisitedAt(at) \in Seq(FrameType)
<1> DEFINE f == [Top EXCEPT !.at = at, !.found = @ \/ Top.a = Wanted]
<1>1. (Top.found \/ Top.a = Wanted) \in BOOLEAN
    OBVIOUS
<1>2. f = [[Top EXCEPT !.at = at] EXCEPT !.found = Top.found \/ Top.a = Wanted]
    BY TopTyped DEF FrameType
<1>3. f \in FrameType
    BY <1>1, <1>2, TopTyped, HeadAssumption DEF FrameType
<1> QED
    BY <1>3, GoOnTyped DEF VisitedAt

LEMMA SetStateTyped ==
    ASSUME TypeOK, NEW s \in Seq(FrameType), NEW a \in Animations, NEW new \in States,
           SetState(s, a, new)
    PROVE  /\ stack' \in Seq(FrameType)
           /\ progress' \in [Animations -> 0..Length]
<1>1. Append(s, Changing(a, new)) \in Seq(FrameType)
    BY ChangingTyped, AppendProperties
<1>2. 0 \in 0..Length
    BY BoundsAssumption
<1> QED
    BY <1>1, <1>2 DEF SetState, TypeOK

LEMMA ListNodes ==
    ASSUME list \in Seq(Animations)
    PROVE  /\ First \in Nodes
           /\ \A a : Listed(a) => /\ IndexOf(a) \in 1..Len(list)
                                 /\ list[IndexOf(a)] = a
                                 /\ a \in Animations
                                 /\ Successor(a) \in Nodes
           /\ list # << >> => Listed(First)
<1>1. Len(list) \in Nat /\ \A i \in 1..Len(list) : list[i] \in Animations
    BY ElementOfSeq, LenProperties
<1>2. list # << >> => 1 \in 1..Len(list)
    BY EmptySeq
<1>3. ASSUME NEW a, Listed(a)
      PROVE  /\ IndexOf(a) \in 1..Len(list)
             /\ list[IndexOf(a)] = a
             /\ a \in Animations
             /\ Successor(a) \in Nodes
    <2>1. IndexOf(a) \in 1..Len(list) /\ list[IndexOf(a)] = a
        BY <1>3 DEF Listed, IndexOf
    <2>2. Successor(a) \in Nodes
        BY <1>1, <2>1 DEF Successor, Nodes
    <2> QED
        BY <1>1, <2>1, <2>2
<1> QED
    BY <1>1, <1>2, <1>3 DEF First, Nodes, Listed

LEMMA PassFrameTyped ==
    ASSUME list \in Seq(Animations)
    PROVE  PassFrame \in FrameType
<1>1. Frame("visit", First) \in FrameType
    BY ListNodes, FrameTyped DEF Ats, PassAts
<1>2. (IF list = << >> THEN ListHead ELSE Successor(First)) \in Nodes
    BY ListNodes DEF Nodes
<1> QED
    BY <1>1, <1>2 DEF PassFrame, FrameType

LEMMA ListOpsTyped ==
    ASSUME list \in Seq(Animations)
    PROVE  /\ \A a : Without(a) \in Seq(Animations)
           /\ \A a \in Animations : With(a) \in Seq(Animations)
BY ListNodes, RemoveAtProperties, AppendProperties DEF With, Without
LEMMA TypeInit == Init => TypeOK
<1> SUFFICES ASSUME Init PROVE TypeOK
    OBVIOUS
<1>1. << >> \in Seq(Animations) /\ << >> \in Seq(FrameType)
    BY EmptySeq
<1> QED
    BY <1>1, KeepaliveAssumption, BoundsAssumption DEF Init, TypeOK, States

LEMMA TypeLibrary == TypeOK /\ Library => TypeOK'
<1> SUFFICES ASSUME TypeOK, Library PROVE TypeOK'
    OBVIOUS
<1> USE DEF TypeOK
<1>0. /\ stack \in Seq(FrameType) /\ list \in Seq(Animations)
      /\ stack # << >>
    BY DEF Library, StateChanged, Finished, Visit, VisitRunning, VisitReady, Started,
           UpdateDone, VisitPaused, VisitStopped, VisitRemove, NextNode, PassEnd,
           AsyncAdd, SyncAdd, SyncPass, WaitOver, TopIs
<1>1. Front(stack) \in Seq(FrameType)
    BY <1>0, FrontProperties
<1>2. CASE StateChanged
    <2>1. Top.a \in Animations /\ Top.new \in States
        BY <1>0, <1>2, TopTyped DEF StateChanged, TopIs
    <2>2. stack' \in Seq(FrameType)
        BY <1>0, <1>1, <1>2, <2>1, GoOnAtTyped, HeadAssumption DEF StateChanged, Ats
    <2>3. state' \in [Animations -> States]
        BY <1>2, <2>1 DEF StateChanged, States
    <2>4. owed' \in [Animations -> Int]
        <3>1. PICK n \in {1, owed[Top.a] - 1, owed[Top.a]} : owed' = [owed EXCEPT ![Top.a] = n]
            BY <1>2 DEF StateChanged
        <3>2. n \in Int
            BY <2>1, <3>1
        <3> QED
            BY <3>1, <3>2
    <2> QED
        BY <1>2, <2>2, <2>3, <2>4 DEF StateChanged
<1>3. CASE Finished
    BY <1>1, <1>3 DEF Finished
<1>4. CASE VisitRunning
    <2>1. Top.a \in Animations
        BY <1>0, <1>4, TopTyped DEF VisitRunning, Visit, Nodes
    <2>2. stack' \in Seq(FrameType)
        BY <1>0, <1>4, <2>1, VisitedTyped DEF VisitRunning, Ats, PassAts
    <2>3. PICK steps \in 0..(Length + 1) : Updated(Top.a, steps)
        BY <1>4 DEF VisitRunning
    <2>4. progress' \in [Animations -> 0..Length]
        <3>1. progress[Top.a] \in 0..Length
            BY <2>1
        <3>2. (IF progress[Top.a] + steps > Length THEN Length
               ELSE progress[Top.a] + steps) \in 0..Length
            BY <3>1, BoundsAssumption
        <3> QED
            BY <2>3, <3>2 DEF Updated
    <2> QED
        BY <1>4, <2>2, <2>4 DEF VisitRunning
<1>5. CASE VisitReady
    <2>1. Top.a \in Animations
        BY <1>0, <1>5, TopTyped DEF VisitReady, Visit, Nodes
    <2>2. VisitedAt("started") \in Seq(FrameType)
        BY <1>0, <2>1, VisitedTyped DEF Ats, PassAts
    <2>3. SetState(VisitedAt("started"), Top.a, "RUNNING") /\ "RUNNING" \in States
        BY <1>5 DEF VisitReady, States
    <2>4. stack' \in Seq(FrameType) /\ progress' \in [Animations -> 0..Length]
        BY <2>1, <2>2, <2>3, SetStateTyped
    <2> QED
        BY <1>5, <2>4 DEF VisitReady
<1>6. CASE Started
    <2>1. Top.a \in Animations
        BY <1>0, <1>6, TopTyped DEF Started, TopIs
    <2>2. stack' \in Seq(FrameType)
        BY <1>0, <1>6, <2>1, GoOnAtTyped, HeadAssumption DEF Started, Ats, PassAts
    <2> QED
        BY <1>6, <2>2 DEF Started
<1>7. CASE UpdateDone
    <2>1. Top.a \in Animations
        BY <1>0, <1>7, TopTyped DEF UpdateDone, TopIs
    <2>2. GoOnAt("next") \in Seq(FrameType)
        BY <1>0, <2>1, GoOnAtTyped, HeadAssumption DEF Ats, PassAts
    <2>3. stack' \in Seq(FrameType) /\ progress' \in [Animations -> 0..Length]
        <3>1. CASE progress[Top.a] = Length
            <4>1. SetState(GoOnAt("next"), Top.a, "STOPPED") /\ "STOPPED" \in States
                BY <1>7, <3>1 DEF UpdateDone, States
            <4> QED
                BY <2>1, <2>2, <4>1, SetStateTyped
        <3>2. CASE progress[Top.a] # Length
            BY <1>7, <2>2, <3>2 DEF UpdateDone
        <3> QED
            BY <3>1, <3>2
    <2> QED
        BY <1>7, <2>3 DEF UpdateDone
<1>8. CASE VisitPaused \/ VisitStopped \/ VisitRemove
    <2>1. Top.a \in Animations
        BY <1>0, <1>8, TopTyped DEF VisitPaused, VisitStopped, VisitRemove, Visit, Nodes
    <2>2. stack' \in Seq(FrameType)
        BY <1>0, <1>8, <2>1, VisitedTyped
        DEF VisitPaused, VisitStopped, VisitRemove, Ats, PassAts
    <2>3. list' \in Seq(Animations)
        BY <1>0, <1>8, ListOpsTyped DEF VisitPaused, VisitStopped, VisitRemove
    <2>4. heap' \in [Animations -> {"live", "freed"}] /\ owed' \in [Animations -> Int]
        BY <1>8 DEF VisitPaused, VisitStopped, VisitRemove
    <2> QED
        BY <1>8, <2>2, <2>3, <2>4 DEF VisitPaused, VisitStopped, VisitRemove
<1>9. CASE NextNode
    <2> DEFINE nxt == IF Top.nxt = ListHead THEN ListHead ELSE Successor(Top.nxt)
               f == [Top EXCEPT !.at = "visit", !.a = Top.nxt, !.nxt = nxt]
    <2>1. nxt \in Nodes
        BY <1>0, <1>9, ListNodes DEF NextNode, Nodes
    <2>2. f \in FrameType
        BY <1>0, <2>1, TopTyped DEF FrameType, Ats, PassAts
    <2>3. stack' \in Seq(FrameType)
        BY <1>0, <1>9, <2>2, GoOnTyped DEF NextNode
    <2> QED
        BY <1>9, <2>3 DEF NextNode
<1>10. CASE PassEnd
    <2>1. stack' \in Seq(FrameType)
        <3>1. CASE /\ Len(stack) > 1
                   /\ stack[Len(stack) - 1].at = "syncloop"
                   /\ ~Top.found
            <4>1. Front(stack) # << >>
                BY <1>0, <1>1, <3>1, FrontProperties, EmptySeq
            <4> QED
                BY <1>1, <1>10, <3>1, <4>1, FrontProperties DEF PassEnd
        <3> QED
            BY <1>1, <1>10, <3>1 DEF PassEnd
    <2> QED
        BY <1>10, <2>1 DEF PassEnd
<1>11. CASE AsyncAdd \/ SyncAdd
    <2>1. Top.a \in Animations
        BY <1>0, <1>11, TopTyped DEF AsyncAdd, SyncAdd, TopIs
    <2>2. stack' \in Seq(FrameType)
        <3>1. GoOnAt("syncloop") \in Seq(FrameType)
            BY <1>0, <2>1, GoOnAtTyped, HeadAssumption DEF Ats
        <3> QED
            BY <1>1, <1>11, <3>1 DEF AsyncAdd, SyncAdd
    <2>3. list' \in Seq(Animations)
        BY <1>0, <1>11, <2>1, ListOpsTyped DEF AsyncAdd, SyncAdd
    <2> QED
        BY <1>11, <2>2, <2>3 DEF AsyncAdd, SyncAdd
<1>12. CASE SyncPass
    BY <1>0, <1>12, PassFrameTyped, AppendProperties DEF SyncPass
<1>13. CASE WaitOver
    BY <1>1, <1>13 DEF WaitOver
<1> QED
    BY <1>2, <1>3, <1>4, <1>5, <1>6, <1>7, <1>8, <1>9, <1>10, <1>11, <1>12, <1>13
    DEF Library

LEMMA TypeApplication == TypeOK /\ Application => TypeOK'
<1> SUFFICES ASSUME TypeOK, NEW a \in Animations,
                    \/ AsyncRun(a) \/ SyncRun(a) \/ Wait(a) \/ Stop(a)
                    \/ Pause(a) \/ Resume(a) \/ SetKeepalive(a) \/ Delete(a)
             PROVE  TypeOK'
    BY DEF Application
<1> USE DEF TypeOK
<1>1. stack \in Seq(FrameType) /\ list \in Seq(Animations)
    OBVIOUS
<1>2. \A at \in {"asyncadd", "syncadd", "waiting"} :
          Append(stack, Frame(at, a)) \in Seq(FrameType)
    BY <1>1, FrameTyped, AppendProperties, HeadAssumption DEF Ats, Nodes
<1>3. calls' \in 0..MaxCalls
    BY BoundsAssumption
    DEF AsyncRun, SyncRun, Wait, Stop, Pause, Resume, SetKeepalive, Delete, Call
<1>4. CASE AsyncRun(a)
    <2>1. /\ SetState(Append(stack, Frame("asyncadd", a)), a, "READY")
          /\ Append(stack, Frame("asyncadd", a)) \in Seq(FrameType)
          /\ "READY" \in States
        BY <1>2, <1>4 DEF AsyncRun, States
    <2>2. stack' \in Seq(FrameType) /\ progress' \in [Animations -> 0..Length]
        BY <2>1, SetStateTyped
    <2> QED
        BY <1>3, <1>4, <2>2 DEF AsyncRun
<1>5. CASE SyncRun(a)
    <2>1. /\ SetState(Append(stack, Frame("syncadd", a)), a, "READY")
          /\ Append(stack, Frame("syncadd", a)) \in Seq(FrameType)
          /\ "READY" \in States
        BY <1>2, <1>5 DEF SyncRun, States
    <2>2. stack' \in Seq(FrameType) /\ progress' \in [Animations -> 0..Length]
        BY <2>1, SetStateTyped
    <2> QED
        BY <1>3, <1>5, <2>2 DEF SyncRun
<1>6. CASE Wait(a)
    BY <1>2, <1>3, <1>6 DEF Wait
<1>7. CASE Stop(a) \/ Pause(a) \/ Resume(a)
    <2>1. PICK new \in {"STOPPED", "PAUSED", "READY"} : SetState(stack, a, new)
        BY <1>7 DEF Stop, Pause, Resume
    <2>2. stack' \in Seq(FrameType) /\ progress' \in [Animations -> 0..Length]
        BY <1>1, <2>1, SetStateTyped DEF States
    <2> QED
        BY <1>3, <1>7, <2>2 DEF Stop, Pause, Resume
<1>8. CASE SetKeepalive(a)
    BY <1>3, <1>8, KeepaliveAssumption DEF SetKeepalive
<1>9. CASE Delete(a)
    <2>1. list' \in Seq(Animations)
        BY <1>1, <1>9, ListOpsTyped DEF Delete
    <2> QED
        BY <1>3, <1>9, <2>1 DEF Delete
<1> QED
    BY <1>4, <1>5, <1>6, <1>7, <1>8, <1>9

LEMMA TypeNext == TypeOK /\ [Next]_vars => TypeOK'
<1> SUFFICES ASSUME TypeOK, [Next]_vars PROVE TypeOK'
    OBVIOUS
<1>1. CASE Library
    BY <1>1, TypeLibrary
<1>2. CASE Application
    BY <1>2, TypeApplication
<1>3. CASE Timer
    BY <1>3, PassFrameTyped, AppendProperties DEF Timer, TypeOK
<1>4. CASE UNCHANGED vars
    BY <1>4 DEF vars, TypeOK
<1> QED
    BY <1>1, <1>2, <1>3, <1>4 DEF Next

(***************************************************************************)
(* Every variable keeps its type: no sequence of calls and callbacks puts  *)
(* a frame on the stack that no function of the code has.                  *)
(***************************************************************************)
THEOREM TypeCorrect == Spec => []TypeOK
<1>1. Init => TypeOK
    BY TypeInit
<1>2. TypeOK /\ [Next]_vars => TypeOK'
    BY TypeNext
<1> QED
    BY <1>1, <1>2, PTL DEF Spec
-----------------------------------------------------------------------------
(***************************************************************************)
(* The node that a pass remembers.                                         *)
(*                                                                         *)
(* The application may run, stop, pause and resume any animation from any  *)
(* callback, its own or another's, but deletes none and runs none          *)
(* synchronously there; without this the theorems below do not hold (TLC   *)
(* refutes them with ForeignDelete of MCSchedular for CallsIn).            *)
(***************************************************************************)
CallbackDiscipline ==
    \A c \in Contexts \ {"main"} :
        (CallsIn[c] \cup OwnCallsIn[c]) \cap {"SyncRun", "Wait", "Delete"} = {}

In(l, a) == \E i \in 1..Len(l) : l[i] = a

Unique(l) == \A i, j \in 1..Len(l) : l[i] = l[j] => i = j

(* The node remembered is on the list, and is not the one that is visited. *)
CursorOK(f, l) ==
    /\ f.nxt = ListHead \/ In(l, f.nxt)
    /\ f.a # ListHead => f.nxt # f.a

(* Passes do not nest in a stack s, and their cursors are in the list l. *)
Sound(s, l) ==
    /\ \A i, j \in 1..Len(s) :
          (i < j /\ IsPass(s[i])) => s[j].at \in {"changing", "finished", "asyncadd"}
    /\ \A i \in 1..Len(s) : IsPass(s[i]) => CursorOK(s[i], l)

NoPass(s) == \A i \in 1..Len(s) : ~IsPass(s[i])

(***************************************************************************)
(* The inductive invariant.  That the remembered node stays listed depends *)
(* on what is taken off the list (only the node visited, by the pass       *)
(* itself, which is the only one) and on the list holding no node twice.   *)
(***************************************************************************)
IInv == TypeOK /\ Unique(list) /\ Sound(stack, list)

LEMMA SoundPop ==
    ASSUME NEW s \in Seq(FrameType), s # << >>, NEW l, Sound(s, l)
    PROVE  Sound(Front(s), l)
BY FrontProperties DEF Sound

LEMMA SoundGrow ==
    ASSUME NEW s \in Seq(FrameType), NEW l, NEW m, Sound(s, l), \A a : In(l, a) => In(m, a)
    PROVE  Sound(s, m)
BY DEF Sound, CursorOK

LEMMA SoundNoPass ==
    ASSUME NEW s \in Seq(FrameType), NEW l, NoPass(s)
    PROVE  Sound(s, l)
BY DEF Sound, NoPass

LEMMA SoundPush ==
    ASSUME NEW s \in Seq(FrameType), NEW l, Sound(s, l), NEW f \in FrameType,
           f.at \in {"changing", "finished", "asyncadd"}
    PROVE  Sound(Append(s, f), l)
<1>1. ~IsPass(f)
    BY DEF IsPass, PassAts
<1>2. Len(s) \in Nat
    BY LenProperties
<1> QED
    BY <1>1, <1>2, AppendProperties DEF Sound

LEMMA SoundPushMain ==
    ASSUME NEW s \in Seq(FrameType), NEW l, NoPass(s), NEW f \in FrameType,
           IsPass(f) => CursorOK(f, l)
    PROVE  Sound(Append(s, f), l)
<1>1. Len(s) \in Nat
    BY LenProperties
<1> QED
    BY <1>1, AppendProperties DEF Sound, NoPass

LEMMA SoundGoOn ==
    ASSUME stack \in Seq(FrameType), stack # << >>, NEW l, Sound(stack, l),
           NEW f \in FrameType,
           \/ /\ IsPass(Top) /\ IsPass(f) /\ CursorOK(f, l)
           \/ /\ ~IsPass(Top) /\ ~IsPass(f)
              /\ Top.at \in {"changing", "finished", "asyncadd"}
                    => f.at \in {"changing", "finished", "asyncadd"}
    PROVE  Sound(GoOn(f), l)
<1>1. Len(stack) \in Nat \ {0}
    BY EmptySeq
<1>2. \A i \in 1..Len(stack) : i < Len(stack) /\ IsPass(stack[i]) =>
          Top.at \in {"changing", "finished", "asyncadd"} /\ ~IsPass(Top)
    BY <1>1 DEF Sound, Top, IsPass, PassAts
<1> DEFINE t == GoOn(f)
<1>3. /\ Len(t) = Len(stack)
      /\ \A i \in 1..Len(stack) : t[i] = IF i = Len(stack) THEN f ELSE stack[i]
    BY GoOnTyped
<1> HIDE DEF t
<1>4. ASSUME NEW i \in 1..Len(t), NEW j \in 1..Len(t), i < j, IsPass(t[i])
      PROVE  t[j].at \in {"changing", "finished", "asyncadd"}
    <2>1. /\ i \in 1..Len(stack) /\ j \in 1..Len(stack)
          /\ t[i] = stack[i] /\ IsPass(stack[i]) /\ i < Len(stack)
        BY <1>1, <1>3, <1>4
    <2>2. CASE j = Len(stack)
        <3>1. f.at \in {"changing", "finished", "asyncadd"}
            BY <1>2, <2>1
        <3> QED
            BY <1>3, <2>1, <2>2, <3>1
    <2>3. CASE j # Len(stack)
        BY <1>3, <1>4, <2>1, <2>3 DEF Sound
    <2> QED
        BY <2>2, <2>3
<1>5. ASSUME NEW i \in 1..Len(t), IsPass(t[i])
      PROVE  CursorOK(t[i], l)
    <2>1. CASE i = Len(stack)
        <3>1. IsPass(f) /\ t[i] = f
            BY <1>3, <1>5, <2>1
        <3> QED
            BY <3>1
    <2>2. CASE i # Len(stack)
        BY <1>3, <1>5, <2>2 DEF Sound
    <2> QED
        BY <2>1, <2>2
<1> QED
    BY <1>4, <1>5 DEF Sound, t

(* Where the main loop or a function only it calls has control, there is   *)
(* no pass below.                                                          *)
LEMMA NoPassBelow ==
    ASSUME stack \in Seq(FrameType), NEW l, Sound(stack, l),
           stack = << >> \/ Top.at \in {"waiting", "syncadd", "syncloop"}
    PROVE  NoPass(stack)
<1>1. CASE stack = << >>
    BY <1>1 DEF NoPass
<1>2. CASE stack # << >>
    <2>1. Len(stack) \in Nat \ {0}
        BY <1>2, EmptySeq
    <2> QED
        BY <1>2, <2>1 DEF NoPass, Sound, Top, IsPass, PassAts
<1> QED
    BY <1>1, <1>2

LEMMA WithoutProperties ==
    ASSUME list \in Seq(Animations), Unique(list), NEW a
    PROVE  /\ Unique(Without(a))
           /\ \A b : b # a /\ In(list, b) => In(Without(a), b)
<1>1. CASE ~Listed(a)
    BY <1>1 DEF Without
<1>2. CASE Listed(a)
    <2> DEFINE k == IndexOf(a)
               m == RemoveAt(list, k)
    <2>1. k \in 1..Len(list) /\ list[k] = a /\ Len(list) \in Nat
        BY <1>2, ListNodes, LenProperties
    <2> HIDE DEF k
    <2>2. /\ Len(m) = Len(list) - 1
          /\ \A i \in 1..(Len(list) - 1) : m[i] = IF i < k THEN list[i] ELSE list[i + 1]
        BY <2>1, RemoveAtProperties
    <2>3. Without(a) = m
        BY <1>2 DEF Without, k
    <2> HIDE DEF m
    <2>4. Unique(m)
        BY <2>1, <2>2 DEF Unique
    <2>5. ASSUME NEW b, b # a, In(list, b)
          PROVE  In(m, b)
        <3>1. PICK i \in 1..Len(list) : list[i] = b
            BY <2>5 DEF In
        <3>2. CASE i < k
            <4>1. i \in 1..Len(m) /\ m[i] = b
                BY <2>1, <2>2, <3>1, <3>2
            <4> QED
                BY <4>1 DEF In
        <3>3. CASE ~(i < k)
            <4>1. i # k
                BY <2>1, <2>5, <3>1
            <4>2. i - 1 \in 1..Len(m) /\ m[i - 1] = b
                BY <2>1, <2>2, <3>1, <3>3, <4>1
            <4> QED
                BY <4>2 DEF In
        <3> QED
            BY <3>2, <3>3
    <2> QED
        BY <2>3, <2>4, <2>5
<1> QED
    BY <1>1, <1>2

LEMMA WithProperties ==
    ASSUME list \in Seq(Animations), Unique(list), NEW a \in Animations
    PROVE  /\ Unique(With(a))
           /\ \A b : In(list, b) => In(With(a), b)
<1>1. CASE Listed(a)
    BY <1>1 DEF With
<1>2. CASE ~Listed(a)
    <2> DEFINE m == Append(list, a)
    <2>1. /\ Len(list) \in Nat
          /\ Len(m) = Len(list) + 1
          /\ \A i \in 1..Len(list) : m[i] = list[i]
          /\ m[Len(list) + 1] = a
        BY LenProperties, AppendProperties
    <2>2. With(a) = m
        BY <1>2 DEF With
    <2> HIDE DEF m
    <2>3. Unique(m)
        BY <1>2, <2>1 DEF Unique, Listed
    <2>4. \A b : In(list, b) => In(m, b)
        BY <2>1 DEF In
    <2> QED
        BY <2>2, <2>3, <2>4
<1> QED
    BY <1>1, <1>2

(* The successor of a node of the list is another node of the list. *)
LEMMA SuccessorOK ==
    ASSUME list \in Seq(Animations), Unique(list), NEW a, Listed(a)
    PROVE  /\ Successor(a) = ListHead \/ In(list, Successor(a))
           /\ Successor(a) # a
<1>1. IndexOf(a) \in 1..Len(list) /\ list[IndexOf(a)] = a /\ a \in Animations
    BY ListNodes
<1>2. Len(list) \in Nat
    BY LenProperties
<1> QED
    BY <1>1, <1>2, HeadAssumption DEF Successor, In, Unique

LEMMA PassFrameOK ==
    ASSUME list \in Seq(Animations), Unique(list)
    PROVE  CursorOK(PassFrame, list)
<1>1. PassFrame.a = First
      /\ PassFrame.nxt = IF list = << >> THEN ListHead ELSE Successor(First)
    BY DEF PassFrame, Frame
<1>2. CASE list = << >>
    BY <1>1, <1>2 DEF CursorOK, First
<1>3. CASE list # << >>
    BY <1>1, <1>3, ListNodes, SuccessorOK DEF CursorOK
<1> QED
    BY <1>2, <1>3
LEMMA SoundSetState ==
    ASSUME NEW s \in Seq(FrameType), Sound(s, list),
           NEW a \in Animations, NEW new \in States, SetState(s, a, new)
    PROVE  Sound(stack', list)
<1>1. Changing(a, new) \in FrameType /\ Changing(a, new).at = "changing"
    BY ChangingTyped DEF Changing, Frame
<1>2. Sound(Append(s, Changing(a, new)), list)
    BY <1>1, SoundPush
<1> QED
    BY <1>2 DEF SetState

(* A pass moves on within its visit of a node. *)
LEMMA SoundVisit ==
    ASSUME TypeOK, Sound(stack, list), stack # << >>, IsPass(Top), Top.a \in Animations,
           NEW at \in PassAts
    PROVE  /\ Sound(GoOnAt(at), list)
           /\ Sound(VisitedAt(at), list)
<1> USE DEF TypeOK
<1>1. Len(stack) \in 1..Len(stack) /\ CursorOK(Top, list)
    BY EmptySeq DEF Sound, Top
<1> DEFINE f == [Top EXCEPT !.at = at]
           g == [Top EXCEPT !.at = at, !.found = @ \/ Top.a = Wanted]
<1>2. f \in FrameType /\ g \in FrameType
    BY GoOnAtTyped, VisitedTyped, HeadAssumption DEF Ats
<1>3. /\ f.at = at /\ f.a = Top.a /\ f.nxt = Top.nxt
      /\ g.at = at /\ g.a = Top.a /\ g.nxt = Top.nxt
    BY TopTyped DEF FrameType
<1>4. IsPass(f) /\ CursorOK(f, list) /\ IsPass(g) /\ CursorOK(g, list)
    BY <1>1, <1>3 DEF CursorOK, IsPass
<1> HIDE DEF f, g
<1>5. Sound(GoOn(f), list) /\ Sound(GoOn(g), list)
    BY <1>2, <1>4, SoundGoOn
<1> QED
    BY <1>5 DEF GoOnAt, VisitedAt, f, g

(* The node visited is taken off the list: the pass is the only one, and   *)
(* remembers another node.                                                 *)
LEMMA SoundUnlink ==
    ASSUME TypeOK, Unique(list), Sound(stack, list), stack # << >>, IsPass(Top),
           Top.a \in Animations, NEW at \in PassAts
    PROVE  Sound(VisitedAt(at), Without(Top.a))
<1> USE DEF TypeOK
<1>1. VisitedAt(at) \in Seq(FrameType) /\ Sound(VisitedAt(at), list)
    BY SoundVisit, VisitedTyped DEF Ats
<1> DEFINE g == [Top EXCEPT !.at = at, !.found = @ \/ Top.a = Wanted]
           t == GoOn(g)
           n == Len(stack)
<1>2. n \in Nat \ {0} /\ g \in FrameType
    BY EmptySeq, VisitedTyped DEF Ats
<1>3. g.at = at /\ g.a = Top.a
    BY TopTyped DEF FrameType
<1>4. t = VisitedAt(at)
    BY DEF VisitedAt
<1> HIDE DEF g
<1>5. Len(t) = n /\ t[n] = g
    BY <1>2, GoOnTyped
<1> HIDE DEF t, n
<1>6. ASSUME NEW i \in 1..Len(t), IsPass(t[i])
      PROVE  i = n
    <2>1. t[n].at \notin {"changing", "finished", "asyncadd"}
        BY <1>3, <1>5 DEF PassAts
    <2>2. i < n => t[n].at \in {"changing", "finished", "asyncadd"}
        BY <1>1, <1>2, <1>4, <1>5, <1>6 DEF Sound
    <2> QED
        BY <1>2, <1>5, <2>1, <2>2
<1>7. CursorOK(g, list) /\ g.nxt # Top.a
    BY <1>1, <1>2, <1>3, <1>4, <1>5, HeadAssumption DEF Sound, CursorOK, IsPass
<1>8. CursorOK(g, Without(Top.a))
    BY <1>7, WithoutProperties DEF CursorOK
<1> QED
    BY <1>1, <1>4, <1>5, <1>6, <1>8 DEF Sound

LEMMA InvLibrary == IInv /\ Library => Unique(list') /\ Sound(stack', list')
<1> SUFFICES ASSUME IInv, Library PROVE Unique(list') /\ Sound(stack', list')
    OBVIOUS
<1>0. /\ TypeOK /\ Unique(list) /\ Sound(stack, list)
      /\ stack \in Seq(FrameType) /\ list \in Seq(Animations)
      /\ stack # << >>
    BY DEF IInv, TypeOK, Library, StateChanged, Finished, Visit, VisitRunning, VisitReady,
           Started, UpdateDone, VisitPaused, VisitStopped, VisitRemove, NextNode, PassEnd,
           AsyncAdd, SyncAdd, SyncPass, WaitOver, TopIs
<1>1. Front(stack) \in Seq(FrameType) /\ Sound(Front(stack), list)
    BY <1>0, FrontProperties, SoundPop
<1>2. CASE StateChanged
    <2>1. list' = list /\ Top.at = "changing" /\ Top.a \in Animations
        BY <1>0, <1>2, TopTyped DEF StateChanged, TopIs
    <2> DEFINE f == [Top EXCEPT !.at = "finished"]
    <2>2. f \in FrameType
        BY <1>0, <2>1, GoOnAtTyped, HeadAssumption DEF Ats
    <2>3. f.at = "finished"
        BY <1>0, TopTyped DEF FrameType
    <2>4. ~IsPass(Top) /\ ~IsPass(f)
        BY <2>1, <2>3 DEF IsPass, PassAts
    <2> HIDE DEF f
    <2>5. Sound(GoOn(f), list)
        BY <1>0, <2>2, <2>3, <2>4, SoundGoOn
    <2> QED
        BY <1>0, <1>1, <1>2, <2>1, <2>5 DEF StateChanged, GoOnAt, f
<1>3. CASE Finished \/ WaitOver
    BY <1>0, <1>1, <1>3 DEF Finished, WaitOver
<1>4. CASE VisitRunning \/ VisitPaused
    <2>1. /\ list' = list /\ IsPass(Top) /\ Top.a \in Animations
          /\ \E at \in PassAts : stack' = VisitedAt(at)
        BY <1>0, <1>4, TopTyped DEF VisitRunning, VisitPaused, Visit, TopIs, IsPass, PassAts, Nodes
    <2> QED
        BY <1>0, <2>1, SoundVisit
<1>5. CASE VisitReady
    <2>1. /\ list' = list /\ IsPass(Top) /\ Top.a \in Animations
          /\ SetState(VisitedAt("started"), Top.a, "RUNNING") /\ "RUNNING" \in States
        BY <1>0, <1>5, TopTyped DEF VisitReady, Visit, TopIs, IsPass, PassAts, Nodes, States
    <2>2. VisitedAt("started") \in Seq(FrameType) /\ Sound(VisitedAt("started"), list)
        BY <1>0, <2>1, SoundVisit, VisitedTyped DEF PassAts, Ats
    <2>3. Sound(stack', list)
        BY <2>1, <2>2, SoundSetState
    <2> QED
        BY <1>0, <2>1, <2>3
<1>6. CASE Started
    <2>1. /\ list' = list /\ IsPass(Top) /\ Top.a \in Animations
          /\ \E at \in PassAts : stack' = GoOnAt(at)
        BY <1>0, <1>6, TopTyped DEF Started, TopIs, IsPass, PassAts
    <2> QED
        BY <1>0, <2>1, SoundVisit
<1>7. CASE UpdateDone
    <2>1. /\ list' = list /\ IsPass(Top) /\ Top.a \in Animations
          /\ \/ SetState(GoOnAt("next"), Top.a, "STOPPED")
             \/ stack' = GoOnAt("next")
          /\ "STOPPED" \in States /\ "next" \in PassAts
        BY <1>0, <1>7, TopTyped DEF UpdateDone, TopIs, IsPass, PassAts, States
    <2>2. GoOnAt("next") \in Seq(FrameType) /\ Sound(GoOnAt("next"), list)
        BY <1>0, <2>1, SoundVisit, GoOnAtTyped, HeadAssumption DEF Ats
    <2>3. Sound(stack', list)
        BY <2>1, <2>2, SoundSetState
    <2> QED
        BY <1>0, <2>1, <2>3
<1>8. CASE VisitStopped \/ VisitRemove
    <2>1. /\ list' = Without(Top.a) /\ IsPass(Top) /\ Top.a \in Animations
          /\ stack' = VisitedAt("next") /\ "next" \in PassAts
        BY <1>0, <1>8, TopTyped DEF VisitStopped, VisitRemove, Visit, TopIs, IsPass, PassAts, Nodes
    <2> QED
        BY <1>0, <2>1, SoundUnlink, WithoutProperties
<1>9. CASE NextNode
    <2> DEFINE nxt == IF Top.nxt = ListHead THEN ListHead ELSE Successor(Top.nxt)
               f == [Top EXCEPT !.at = "visit", !.a = Top.nxt, !.nxt = nxt]
    <2>1. nxt \in Nodes
        BY <1>0, <1>9, ListNodes DEF NextNode, Nodes
    <2>2. f \in FrameType
        BY <1>0, <2>1, TopTyped DEF FrameType, Ats, PassAts
    <2>3. f.at = "visit" /\ f.a = Top.nxt /\ f.nxt = nxt
        BY <1>0, TopTyped DEF FrameType
    <2>4. CursorOK(f, list)
        <3>1. CASE Top.nxt = ListHead
            BY <2>3, <3>1 DEF CursorOK
        <3>2. CASE Top.nxt # ListHead
            BY <1>0, <1>9, <2>3, <3>2, SuccessorOK DEF CursorOK, NextNode
        <3> QED
            BY <3>1, <3>2
    <2>5. IsPass(Top) /\ IsPass(f)
        BY <1>9, <2>3 DEF NextNode, TopIs, IsPass, PassAts
    <2>6. stack' = GoOn(f) /\ list' = list
        BY <1>9 DEF NextNode
    <2> HIDE DEF f
    <2> QED
        BY <1>0, <2>2, <2>4, <2>5, <2>6, SoundGoOn
<1>10. CASE PassEnd
    <2>1. CASE stack' = Front(stack)
        BY <1>0, <1>1, <1>10, <2>1 DEF PassEnd
    <2>2. CASE stack' # Front(stack)
        <3>1. Len(stack) > 1 /\ stack' = Front(Front(stack)) /\ list' = list
            BY <1>10, <2>2 DEF PassEnd
        <3>2. Front(stack) # << >>
            BY <1>0, <1>1, <3>1, FrontProperties, EmptySeq
        <3> QED
            BY <1>0, <1>1, <3>1, <3>2, SoundPop
    <2> QED
        BY <2>1, <2>2
<1>11. CASE AsyncAdd
    <2>1. list' = With(Top.a) /\ stack' = Front(stack) /\ Top.a \in Animations
        BY <1>0, <1>11, TopTyped DEF AsyncAdd, TopIs
    <2> QED
        BY <1>0, <1>1, <2>1, WithProperties, SoundGrow
<1>12. CASE SyncAdd
    <2>1. list' = With(Top.a) /\ Top.at = "syncadd" /\ Top.a \in Animations
        BY <1>0, <1>12, TopTyped DEF SyncAdd, TopIs
    <2>2. stack' \in Seq(FrameType) /\ Sound(stack', list)
        <3> DEFINE f == [Top EXCEPT !.at = "syncloop"]
        <3>1. f \in FrameType
            BY <1>0, <2>1, GoOnAtTyped, HeadAssumption DEF Ats
        <3>2. f.at = "syncloop"
            BY <1>0, TopTyped DEF FrameType
        <3>3. ~IsPass(Top) /\ ~IsPass(f)
            BY <2>1, <3>2 DEF IsPass, PassAts
        <3> HIDE DEF f
        <3>4. GoOn(f) \in Seq(FrameType) /\ Sound(GoOn(f), list)
            BY <1>0, <2>1, <3>1, <3>3, SoundGoOn, GoOnTyped
        <3> QED
            BY <1>1, <1>12, <3>4 DEF SyncAdd, GoOnAt, f
    <2> QED
        BY <1>0, <2>1, <2>2, WithProperties, SoundGrow
<1>13. CASE SyncPass
    <2>1. list' = list /\ stack' = Append(stack, PassFrame) /\ NoPass(stack)
        BY <1>0, <1>13, NoPassBelow DEF SyncPass, TopIs
    <2> QED
        BY <1>0, <2>1, PassFrameTyped, PassFrameOK, SoundPushMain
<1> QED
    BY <1>2, <1>3, <1>4, <1>5, <1>6, <1>7, <1>8, <1>9, <1>10, <1>11, <1>12, <1>13
    DEF Library

LEMMA MainOnly ==
    ASSUME CallbackDiscipline, NEW a, NEW name \in {"SyncRun", "Wait", "Delete"}, Call(name, a)
    PROVE  stack = << >> \/ Top.at = "waiting"
BY DEF CallbackDiscipline, Call, InContext, Contexts, TopIs

LEMMA InvApplication ==
    ASSUME CallbackDiscipline
    PROVE  IInv /\ Application => Unique(list') /\ Sound(stack', list')
<1> SUFFICES ASSUME IInv, NEW a \in Animations,
                    \/ AsyncRun(a) \/ SyncRun(a) \/ Wait(a) \/ Stop(a)
                    \/ Pause(a) \/ Resume(a) \/ SetKeepalive(a) \/ Delete(a)
             PROVE  Unique(list') /\ Sound(stack', list')
    BY DEF Application
<1>0. /\ TypeOK /\ Unique(list) /\ Sound(stack, list)
      /\ stack \in Seq(FrameType) /\ list \in Seq(Animations)
    BY DEF IInv, TypeOK
<1>1. \A at \in {"asyncadd", "syncadd", "waiting"} :
          Frame(at, a) \in FrameType /\ Frame(at, a).at = at /\ ~IsPass(Frame(at, a))
    BY FrameTyped, HeadAssumption DEF Ats, Nodes, Frame, IsPass, PassAts
<1>2. CASE AsyncRun(a)
    <2> DEFINE s == Append(stack, Frame("asyncadd", a))
    <2>1. s \in Seq(FrameType) /\ Sound(s, list)
        BY <1>0, <1>1, SoundPush, AppendProperties
    <2>2. list' = list /\ SetState(s, a, "READY") /\ "READY" \in States
        BY <1>2 DEF AsyncRun, States
    <2> HIDE DEF s
    <2>3. Sound(stack', list)
        BY <2>1, <2>2, SoundSetState
    <2> QED
        BY <1>0, <2>2, <2>3
<1>3. CASE SyncRun(a)
    <2> DEFINE s == Append(stack, Frame("syncadd", a))
    <2>1. NoPass(stack)
        BY <1>0, <1>3, MainOnly, NoPassBelow DEF SyncRun
    <2>2. s \in Seq(FrameType) /\ Sound(s, list)
        BY <1>0, <1>1, <2>1, SoundPushMain, AppendProperties
    <2>3. list' = list /\ SetState(s, a, "READY") /\ "READY" \in States
        BY <1>3 DEF SyncRun, States
    <2> HIDE DEF s
    <2>4. Sound(stack', list)
        BY <2>2, <2>3, SoundSetState
    <2> QED
        BY <1>0, <2>3, <2>4
<1>4. CASE Wait(a)
    <2>1. NoPass(stack)
        BY <1>0, <1>4, MainOnly, NoPassBelow DEF Wait
    <2> QED
        BY <1>0, <1>1, <1>4, <2>1, SoundPushMain DEF Wait
<1>5. CASE Stop(a) \/ Pause(a) \/ Resume(a)
    <2>1. PICK new \in {"STOPPED", "PAUSED", "READY"} : SetState(stack, a, new)
        BY <1>5 DEF Stop, Pause, Resume
    <2>2. Sound(stack', list)
        BY <1>0, <2>1, SoundSetState DEF States
    <2> QED
        BY <1>0, <1>5, <2>2 DEF Stop, Pause, Resume
<1>6. CASE SetKeepalive(a)
    BY <1>0, <1>6 DEF SetKeepalive
<1>7. CASE Delete(a)
    <2>1. NoPass(stack)
        BY <1>0, <1>7, MainOnly, NoPassBelow DEF Delete
    <2> QED
        BY <1>0, <1>7, <2>1, SoundNoPass, WithoutProperties DEF Delete
<1> QED
    BY <1>2, <1>3, <1>4, <1>5, <1>6, <1>7

LEMMA InvInit == Init => IInv
<1> SUFFICES ASSUME Init PROVE IInv
    OBVIOUS
<1>1. Len(list) = 0 /\ Len(stack) = 0
    BY EmptySeq DEF Init
<1> QED
    BY <1>1, TypeInit DEF IInv, Unique, Sound

LEMMA InvNext ==
    ASSUME CallbackDiscipline
    PROVE  IInv /\ [Next]_vars => IInv'
<1> SUFFICES ASSUME IInv, [Next]_vars PROVE IInv'
    OBVIOUS
<1>1. TypeOK'
    BY TypeNext DEF IInv
<1>2. Unique(list') /\ Sound(stack', list')
    <2>1. CASE Library
        BY <2>1, InvLibrary
    <2>2. CASE Application
        BY <2>2, InvApplication
    <2>3. CASE Timer
        <3>1. /\ list' = list /\ stack' = Append(stack, PassFrame)
              /\ stack \in Seq(FrameType) /\ list \in Seq(Animations)
              /\ Unique(list) /\ Sound(stack, list)
              /\ stack = << >> \/ Top.at = "waiting"
            BY <2>3 DEF Timer, InContext, TopIs, IInv, TypeOK
        <3> QED
            BY <3>1, NoPassBelow, PassFrameTyped, PassFrameOK, SoundPushMain
    <2>4. CASE UNCHANGED vars
        BY <2>4 DEF vars, IInv
    <2> QED
        BY <2>1, <2>2, <2>3, <2>4 DEF Next
<1> QED
    BY <1>1, <1>2 DEF IInv

LEMMA InvImplies == IInv => CursorSafe
BY DEF IInv, Sound, CursorSafe, CursorOK, In, Listed

(***************************************************************************)
(* With that discipline the node a pass remembers is always on the list    *)
(* when the pass gets there, however callbacks nest.                       *)
(***************************************************************************)
THEOREM CursorsAreSafe ==
    ASSUME CallbackDiscipline
    PROVE  Spec => []CursorSafe
<1>1. Init => IInv
    BY InvInit
<1>2. IInv /\ [Next]_vars => IInv'
    BY InvNext
<1>3. IInv => CursorSafe
    BY InvImplies
<1> QED
    BY <1>1, <1>2, <1>3, PTL DEF Spec

-----------------------------------------------------------------------------
(***************************************************************************)
(* Lifetimes: that active animations stay on the list, that nothing freed  *)
(* is used, and that the animations keep the promise of Lifecycle.         *)
(***************************************************************************)
(***************************************************************************)
(* What the application does in callbacks.                                 *)
(***************************************************************************)
Made(c) == CallsIn[c] \cup OwnCallsIn[c]

(* No callback stops an animation. *)
NoStops == \A c \in Contexts \ {"main"} : "Stop" \notin Made(c)

(* Nothing is run synchronously or waited for in a callback, and nothing   *)
(* deleted, except that finished_cb may delete the animation it is called  *)
(* for if no callback stops any.                                           *)
Discipline ==
    /\ \A c \in Contexts \ {"main"} :
          Made(c) \cap {"SyncRun", "Wait"} = {} /\ "Delete" \notin CallsIn[c]
    /\ \A c \in {"changing", "update"} : "Delete" \notin OwnCallsIn[c]
    /\ "Delete" \in OwnCallsIn["finished"] => NoStops
-----------------------------------------------------------------------------
(***************************************************************************)
(* The stack.                                                              *)
(***************************************************************************)

(* Frame f may be active while frame g is, which called it or a caller of  *)
(* it.                                                                     *)
May(g, f) ==
    /\ f.at \in {"waiting", "syncadd", "syncloop"} => g.at = "waiting"
    /\ IsPass(f) => g.at \in {"waiting", "syncloop"}
    /\ NoStops /\ (f.at = "finished" \/ (f.at = "changing" /\ f.new = "STOPPED")) =>
          g.at \in {"waiting", "syncloop", "next"}
    /\ Follows("one_change") /\ g.at = "changing" /\ f.at = "changing" /\ f.a = g.a =>
          f.new = "READY"

Stacked(s) == \A i, j \in 1..Len(s) : i < j => May(s[i], s[j])

Enlists(f, a) == f.at \in {"asyncadd", "syncadd"} /\ f.a = a
Enlisted(s, a) == \E i \in 1..Len(s) : Enlists(s[i], a)

(* An animation whose state is about to be written is on the list l, or a  *)
(* caller is about to put it there.                                        *)
Backed(s, l) ==
    \A i \in 1..Len(s) : s[i].at = "changing" =>
        In(l, s[i].a) \/ \E j \in 1..Len(s) : j < i /\ Enlists(s[j], s[i].a)

Using(f) == f.at \in {"changing", "started", "update", "asyncadd", "syncadd"}
FramesLive(s, h) == \A i \in 1..Len(s) : Using(s[i]) => h[s[i].a] = "live"

StackOK(s, l, h) == Stacked(s) /\ Backed(s, l) /\ FramesLive(s, h)

AllAre(s, ats) == \A i \in 1..Len(s) : s[i].at \in ats

(***************************************************************************)
(* The inductive invariant of ActiveListed.                                *)
(***************************************************************************)
LInv == TypeOK /\ Unique(list) /\ StackOK(stack, list, heap) /\ ActiveListed
-----------------------------------------------------------------------------
(***************************************************************************)
(* What pushing, popping and replacing a frame does to a stack.            *)
(***************************************************************************)
LEMMA InListed == \A a : In(list, a) <=> Listed(a)
BY DEF In, Listed

LEMMA EnlistedIs == \A a : Enlisted(stack, a) <=> Enlisting(a)
BY DEF Enlisted, Enlists, Enlisting

LEMMA PopFacts ==
    ASSUME NEW s \in Seq(FrameType), s # << >>
    PROVE  /\ Front(s) \in Seq(FrameType)
           /\ Len(s) \in Nat \ {0}
           /\ Len(Front(s)) = Len(s) - 1
           /\ \A i \in 1..Len(Front(s)) : i \in 1..Len(s) /\ i < Len(s) /\ Front(s)[i] = s[i]
<1>1. /\ Front(s) \in Seq(FrameType)
      /\ Len(s) \in Nat \ {0}
      /\ Len(Front(s)) = Len(s) - 1
      /\ \A i \in 1..(Len(s) - 1) : Front(s)[i] = s[i]
    BY FrontProperties
<1> QED
    BY <1>1

LEMMA PushFacts ==
    ASSUME NEW s \in Seq(FrameType), NEW f \in FrameType
    PROVE  /\ Append(s, f) \in Seq(FrameType)
           /\ Len(s) \in Nat
           /\ Len(Append(s, f)) = Len(s) + 1
           /\ Append(s, f)[Len(s) + 1] = f
           /\ \A i \in 1..Len(s) : i \in 1..Len(Append(s, f)) /\ Append(s, f)[i] = s[i]
           /\ \A i \in 1..Len(Append(s, f)) : i \in 1..Len(s) \/ i = Len(s) + 1
<1>1. /\ Len(s) \in Nat
      /\ Append(s, f) \in Seq(FrameType)
      /\ Len(Append(s, f)) = Len(s) + 1
      /\ \A i \in 1..Len(s) : Append(s, f)[i] = s[i]
      /\ Append(s, f)[Len(s) + 1] = f
    BY AppendProperties, LenProperties
<1> QED
    BY <1>1

LEMMA OKPop ==
    ASSUME NEW s \in Seq(FrameType), s # << >>, NEW l, NEW h, StackOK(s, l, h)
    PROVE  StackOK(Front(s), l, h)
<1> DEFINE t == Front(s)
<1>1. /\ Len(s) \in Nat \ {0} /\ Len(t) = Len(s) - 1
      /\ \A i \in 1..Len(t) : i \in 1..Len(s) /\ i < Len(s) /\ t[i] = s[i]
    BY PopFacts
<1> HIDE DEF t
<1>2. Stacked(t)
    BY <1>1 DEF StackOK, Stacked
<1>3. Backed(t, l)
    BY <1>1 DEF StackOK, Backed
<1>4. FramesLive(t, h)
    BY <1>1 DEF StackOK, FramesLive
<1> QED
    BY <1>2, <1>3, <1>4 DEF StackOK, t

LEMMA OKPush ==
    ASSUME NEW s \in Seq(FrameType), NEW l, NEW h, StackOK(s, l, h),
           NEW f \in FrameType,
           \A i \in 1..Len(s) : May(s[i], f),
           f.at = "changing" => In(l, f.a) \/ Enlisted(s, f.a),
           Using(f) => h[f.a] = "live"
    PROVE  StackOK(Append(s, f), l, h)
<1> DEFINE t == Append(s, f)
<1>1. /\ Len(s) \in Nat /\ Len(t) = Len(s) + 1 /\ t[Len(s) + 1] = f
      /\ \A i \in 1..Len(s) : i \in 1..Len(t) /\ t[i] = s[i]
      /\ \A i \in 1..Len(t) : i \in 1..Len(s) \/ i = Len(s) + 1
    BY PushFacts
<1> HIDE DEF t
<1>2. Stacked(t)
    <2> SUFFICES ASSUME NEW i \in 1..Len(t), NEW j \in 1..Len(t), i < j
                 PROVE  May(t[i], t[j])
        BY DEF Stacked
    <2>1. i \in 1..Len(s)
        BY <1>1
    <2> QED
        BY <1>1, <2>1 DEF StackOK, Stacked
<1>3. Backed(t, l)
    <2> SUFFICES ASSUME NEW i \in 1..Len(t), t[i].at = "changing", ~In(l, t[i].a)
                 PROVE  \E j \in 1..Len(t) : j < i /\ Enlists(t[j], t[i].a)
        BY DEF Backed
    <2>1. CASE i \in 1..Len(s)
        BY <1>1, <2>1 DEF StackOK, Backed
    <2>2. CASE i = Len(s) + 1
        BY <1>1, <2>2 DEF Enlisted
    <2> QED
        BY <1>1, <2>1, <2>2
<1>4. FramesLive(t, h)
    BY <1>1 DEF StackOK, FramesLive
<1> QED
    BY <1>2, <1>3, <1>4 DEF StackOK, t

(* The frame on top goes on with something else. *)
LEMMA OKGoOn ==
    ASSUME stack \in Seq(FrameType), stack # << >>, NEW l, NEW h, StackOK(stack, l, h),
           NEW f \in FrameType, f.at # "changing",
           \A i \in 1..Len(stack) : May(stack[i], Top) => May(stack[i], f),
           Using(f) => h[f.a] = "live"
    PROVE  /\ GoOn(f) \in Seq(FrameType)
           /\ StackOK(GoOn(f), l, h)
<1> DEFINE t == GoOn(f)
           n == Len(stack)
<1>1. t \in Seq(FrameType) /\ n \in Nat \ {0}
    BY GoOnTyped, EmptySeq
<1>2. Len(t) = n /\ \A i \in 1..n : t[i] = IF i = n THEN f ELSE stack[i]
    BY GoOnTyped
<1>3. Top = stack[n]
    BY DEF Top
<1> HIDE DEF t, n
<1>4. \A i, j \in 1..n : i < j => May(stack[i], stack[j])
    BY DEF StackOK, Stacked, n
<1>5. Stacked(t)
    <2> SUFFICES ASSUME NEW i \in 1..n, NEW j \in 1..n, i < j
                 PROVE  May(t[i], t[j])
        BY <1>2 DEF Stacked
    <2>1. t[i] = stack[i] /\ May(stack[i], stack[j])
        BY <1>1, <1>2, <1>4
    <2>2. CASE j = n
        BY <1>2, <1>3, <2>1, <2>2 DEF n
    <2>3. CASE j # n
        BY <1>2, <2>1, <2>3
    <2> QED
        BY <2>2, <2>3
<1>6. Backed(t, l)
    <2> SUFFICES ASSUME NEW i \in 1..n, t[i].at = "changing", ~In(l, t[i].a)
                 PROVE  \E j \in 1..n : j < i /\ Enlists(t[j], t[i].a)
        BY <1>2 DEF Backed
    <2>1. i # n /\ t[i] = stack[i]
        BY <1>2
    <2>2. PICK j \in 1..n : j < i /\ Enlists(stack[j], stack[i].a)
        BY <2>1 DEF StackOK, Backed, n
    <2>3. t[j] = stack[j]
        BY <1>1, <1>2, <2>1, <2>2
    <2> QED
        BY <2>1, <2>2, <2>3
<1>7. FramesLive(t, h)
    BY <1>2 DEF StackOK, FramesLive, n
<1> QED
    BY <1>1, <1>5, <1>6, <1>7 DEF StackOK, t

LEMMA OKGrow ==
    ASSUME NEW s \in Seq(FrameType), NEW l, NEW m, NEW h, StackOK(s, l, h),
           \A a : In(l, a) => In(m, a)
    PROVE  StackOK(s, m, h)
BY DEF StackOK, Backed

(* While no frame uses an animation, the list may lose one and one may be  *)
(* freed.                                                                  *)
LEMMA OKQuiet ==
    ASSUME NEW s \in Seq(FrameType), NEW l, NEW m, NEW h, NEW g, StackOK(s, l, h),
           AllAre(s, {"waiting", "syncloop", "next", "finished"})
    PROVE  StackOK(s, m, g)
BY DEF StackOK, Backed, FramesLive, Using, AllAre

LEMMA EnlistedPop ==
    ASSUME NEW s \in Seq(FrameType), s # << >>, NEW a, Enlisted(s, a),
           ~Enlists(s[Len(s)], a)
    PROVE  Enlisted(Front(s), a)
<1>1. /\ Len(s) \in Nat \ {0} /\ Len(Front(s)) = Len(s) - 1
      /\ \A i \in 1..(Len(s) - 1) : Front(s)[i] = s[i]
    BY FrontProperties
<1>2. PICK i \in 1..Len(s) : Enlists(s[i], a)
    BY DEF Enlisted
<1>3. i \in 1..Len(Front(s)) /\ Front(s)[i] = s[i]
    BY <1>1, <1>2
<1> QED
    BY <1>2, <1>3 DEF Enlisted

LEMMA EnlistedPush ==
    ASSUME NEW s \in Seq(FrameType), NEW f \in FrameType, NEW a,
           Enlisted(s, a) \/ Enlists(f, a)
    PROVE  Enlisted(Append(s, f), a)
<1> DEFINE t == Append(s, f)
<1>1. /\ Len(s) \in Nat /\ Len(t) = Len(s) + 1 /\ t[Len(s) + 1] = f
      /\ \A i \in 1..Len(s) : i \in 1..Len(t) /\ t[i] = s[i]
    BY PushFacts
<1> HIDE DEF t
<1>2. Len(s) + 1 \in 1..Len(t)
    BY <1>1
<1> QED
    BY <1>1, <1>2 DEF Enlisted, t

LEMMA EnlistedGoOn ==
    ASSUME stack \in Seq(FrameType), stack # << >>, NEW f \in FrameType, NEW a,
           Enlisted(stack, a), ~Enlists(Top, a)
    PROVE  Enlisted(GoOn(f), a)
<1>1. PICK i \in 1..Len(stack) : Enlists(stack[i], a)
    BY DEF Enlisted
<1>2. i # Len(stack)
    BY <1>1 DEF Top
<1>3. /\ Len(GoOn(f)) = Len(stack)
      /\ GoOn(f)[i] = stack[i]
    BY <1>1, <1>2, GoOnTyped
<1> QED
    BY <1>1, <1>3 DEF Enlisted
-----------------------------------------------------------------------------
(***************************************************************************)
(* The shapes that the stack can have where control is.                    *)
(***************************************************************************)
LEMMA BelowTop ==
    ASSUME stack \in Seq(FrameType), stack # << >>, Stacked(stack)
    PROVE  \A i \in 1..Len(stack) : i # Len(stack) => May(stack[i], Top)
<1>1. Len(stack) \in Nat \ {0}
    BY EmptySeq
<1> QED
    BY <1>1 DEF Stacked, Top

(* In the main loop only Wait is active. *)
LEMMA MainStack ==
    ASSUME stack \in Seq(FrameType), Stacked(stack), stack = << >> \/ Top.at = "waiting"
    PROVE  AllAre(stack, {"waiting"})
<1>1. CASE stack = << >>
    BY <1>1, EmptySeq DEF AllAre
<1>2. CASE stack # << >>
    BY <1>2, BelowTop DEF AllAre, May, Top
<1> QED
    BY <1>1, <1>2

LEMMA PassStack ==
    ASSUME stack \in Seq(FrameType), stack # << >>, Stacked(stack), IsPass(Top)
    PROVE  \A i \in 1..Len(stack) :
               i # Len(stack) => stack[i].at \in {"waiting", "syncloop"}
BY BelowTop DEF May

(* A pass goes on within its visit of a node. *)
LEMMA OKVisit ==
    ASSUME TypeOK, NEW l, NEW h, StackOK(stack, l, h), stack # << >>, IsPass(Top),
           Top.a \in Animations, NEW at \in PassAts,
           at \in {"started", "update"} => h[Top.a] = "live"
    PROVE  /\ GoOnAt(at) \in Seq(FrameType) /\ StackOK(GoOnAt(at), l, h)
           /\ VisitedAt(at) \in Seq(FrameType) /\ StackOK(VisitedAt(at), l, h)
           /\ \A a : Enlisted(stack, a) => Enlisted(GoOnAt(at), a) /\ Enlisted(VisitedAt(at), a)
           /\ \A i \in 1..Len(GoOnAt(at)) : GoOnAt(at)[i].at \in {"waiting", "syncloop", at}
           /\ \A i \in 1..Len(VisitedAt(at)) :
                 VisitedAt(at)[i].at \in {"waiting", "syncloop", at}
<1> USE DEF TypeOK
<1> DEFINE f == [Top EXCEPT !.at = at]
           g == [Top EXCEPT !.at = at, !.found = @ \/ Top.a = Wanted]
<1>1. f \in FrameType /\ g \in FrameType
    BY GoOnAtTyped, VisitedTyped, HeadAssumption DEF Ats
<1>2. f.at = at /\ f.a = Top.a /\ g.at = at /\ g.a = Top.a
    BY TopTyped DEF FrameType
<1>3. GoOnAt(at) = GoOn(f) /\ VisitedAt(at) = GoOn(g)
    BY DEF GoOnAt, VisitedAt
<1> HIDE DEF f, g
<1>4. Stacked(stack) /\ at # "changing" /\ at # "finished" /\ at \notin {"waiting", "syncadd", "syncloop"}
    BY DEF StackOK, PassAts
<1>5. \A i \in 1..Len(stack) : i # Len(stack) => stack[i].at \in {"waiting", "syncloop"}
    BY <1>4, PassStack
<1>6. ASSUME NEW k \in {f, g}
      PROVE  /\ GoOn(k) \in Seq(FrameType) /\ StackOK(GoOn(k), l, h)
             /\ \A a : Enlisted(stack, a) => Enlisted(GoOn(k), a)
             /\ \A i \in 1..Len(GoOn(k)) : GoOn(k)[i].at \in {"waiting", "syncloop", at}
    <2>1. k \in FrameType /\ k.at = at /\ k.a = Top.a
        BY <1>1, <1>2, <1>6
    <2>2. \A i \in 1..Len(stack) : May(stack[i], Top) => May(stack[i], k)
        BY <1>4, <2>1 DEF May, IsPass
    <2>3. Using(k) => h[k.a] = "live"
        BY <1>4, <2>1 DEF Using, PassAts
    <2>4. GoOn(k) \in Seq(FrameType) /\ StackOK(GoOn(k), l, h)
        BY <1>4, <2>1, <2>2, <2>3, OKGoOn
    <2>5. \A a : ~Enlists(Top, a)
        BY DEF Enlists, IsPass, PassAts
    <2>6. \A a : Enlisted(stack, a) => Enlisted(GoOn(k), a)
        BY <2>1, <2>5, EnlistedGoOn
    <2>7. \A i \in 1..Len(GoOn(k)) : GoOn(k)[i].at \in {"waiting", "syncloop", at}
        BY <1>5, <2>1, GoOnTyped
    <2> QED
        BY <2>4, <2>6, <2>7
<1> QED
    BY <1>3, <1>6

(* setstate is entered. *)
LEMMA OKSetState ==
    ASSUME NEW s \in Seq(FrameType), NEW l, NEW h, StackOK(s, l, h),
           NEW a \in Animations, NEW new \in States, SetState(s, a, new),
           state[a] # new => In(l, a) \/ Enlisted(s, a),
           state[a] # new => h[a] = "live",
           \A i \in 1..Len(s) : May(s[i], Changing(a, new))
    PROVE  /\ stack' \in Seq(FrameType)
           /\ StackOK(stack', l, h)
           /\ \A b : Enlisted(s, b) => Enlisted(stack', b)
<1> DEFINE f == Changing(a, new)
<1>1. f \in FrameType /\ f.at = "changing" /\ f.a = a
    BY ChangingTyped DEF Changing, Frame
<1>2. stack' = s \/ (state[a] # new /\ stack' = Append(s, f))
    BY DEF SetState
<1> HIDE DEF f
<1>3. CASE stack' = s
    BY <1>3
<1>4. CASE state[a] # new /\ stack' = Append(s, f)
    <2>1. \A i \in 1..Len(s) : May(s[i], f)
        BY DEF f
    <2>2. StackOK(Append(s, f), l, h)
        BY <1>1, <1>4, <2>1, OKPush
    <2> QED
        BY <1>1, <1>4, <2>2, PushFacts, EnlistedPush
<1> QED
    BY <1>2, <1>3, <1>4
-----------------------------------------------------------------------------
(***************************************************************************)
(* Every step keeps LInv.                                                  *)
(***************************************************************************)
OnTheMove == {"READY", "RUNNING", "PAUSED", "REMOVE"}

LEMMA ActiveListedIs ==
    ActiveListed <=> \A a \in Animations :
        heap[a] = "live" /\ state[a] \in OnTheMove => In(list, a) \/ Enlisted(stack, a)
BY InListed, EnlistedIs DEF ActiveListed, OnTheMove

LEMMA ActiveListedNext ==
    ASSUME \A a \in Animations :
        heap'[a] = "live" /\ state'[a] \in OnTheMove => In(list', a) \/ Enlisted(stack', a)
    PROVE  ActiveListed'
BY DEF ActiveListed, OnTheMove, In, Listed, Enlisting, Enlisted, Enlists

(* A node taken off the list. *)
LEMMA WithoutOthers ==
    ASSUME list \in Seq(Animations), Unique(list), NEW a
    PROVE  /\ \A b : In(Without(a), b) => In(list, b) /\ b # a
           /\ \A b : b # a /\ In(list, b) => In(Without(a), b)
<1>1. CASE ~Listed(a)
    BY <1>1 DEF Without, In, Listed
<1>2. CASE Listed(a)
    <2> DEFINE k == IndexOf(a)
               m == RemoveAt(list, k)
    <2>1. k \in 1..Len(list) /\ list[k] = a /\ Len(list) \in Nat
        BY <1>2, ListNodes, LenProperties
    <2> HIDE DEF k
    <2>2. /\ Len(m) = Len(list) - 1
          /\ \A i \in 1..(Len(list) - 1) : m[i] = IF i < k THEN list[i] ELSE list[i + 1]
        BY <2>1, RemoveAtProperties
    <2>3. Without(a) = m
        BY <1>2 DEF Without, k
    <2> HIDE DEF m
    <2>4. ASSUME NEW b, In(m, b)
          PROVE  In(list, b) /\ b # a
        <3>1. PICK i \in 1..(Len(list) - 1) : m[i] = b
            BY <2>2, <2>4 DEF In
        <3>2. \E j \in 1..Len(list) : j # k /\ list[j] = b
            <4>1. CASE i < k
                BY <2>1, <2>2, <3>1, <4>1
            <4>2. CASE ~(i < k)
                <5>1. i + 1 \in 1..Len(list) /\ i + 1 # k /\ list[i + 1] = b
                    BY <2>1, <2>2, <3>1, <4>2
                <5> QED
                    BY <5>1
            <4> QED
                BY <4>1, <4>2
        <3> QED
            BY <2>1, <3>2 DEF In, Unique
    <2> QED
        BY <2>3, <2>4, WithoutProperties
<1> QED
    BY <1>1, <1>2

LEMMA WithHas ==
    ASSUME list \in Seq(Animations), Unique(list), NEW a \in Animations
    PROVE  /\ \A b : In(list, b) => In(With(a), b)
           /\ In(With(a), a)
           /\ \A b : In(With(a), b) => In(list, b) \/ b = a
<1>1. CASE Listed(a)
    BY <1>1 DEF With, In, Listed
<1>2. CASE ~Listed(a)
    <2> DEFINE m == Append(list, a)
    <2>1. /\ Len(list) \in Nat
          /\ Len(m) = Len(list) + 1
          /\ \A i \in 1..Len(list) : m[i] = list[i]
          /\ m[Len(list) + 1] = a
        BY LenProperties, AppendProperties
    <2>2. With(a) = m
        BY <1>2 DEF With
    <2> HIDE DEF m
    <2>3. Len(list) + 1 \in 1..Len(m)
        BY <2>1
    <2>4. \A i \in 1..Len(m) : i \in 1..Len(list) \/ i = Len(list) + 1
        BY <2>1
    <2>5. In(m, a) /\ \A b : In(m, b) => In(list, b) \/ b = a
        BY <2>1, <2>3, <2>4 DEF In
    <2> QED
        BY <2>2, <2>5, WithProperties
<1> QED
    BY <1>1, <1>2

LEMMA LifeLibrary ==
    ASSUME LInv, Library
    PROVE  Unique(list') /\ StackOK(stack', list', heap') /\ ActiveListed'
<1>0. /\ TypeOK /\ Unique(list) /\ StackOK(stack, list, heap) /\ Stacked(stack)
      /\ stack \in Seq(FrameType) /\ list \in Seq(Animations)
      /\ stack # << >> /\ Len(stack) \in Nat \ {0} /\ Top = stack[Len(stack)]
    <2>1. stack # << >>
        BY DEF Library, StateChanged, Finished, Visit, VisitRunning, VisitReady,
               Started, UpdateDone, VisitPaused, VisitStopped, VisitRemove, NextNode, PassEnd,
               AsyncAdd, SyncAdd, SyncPass, WaitOver, TopIs
    <2> QED
        BY <2>1, EmptySeq DEF LInv, TypeOK, StackOK, Top
<1>1. /\ Front(stack) \in Seq(FrameType) /\ StackOK(Front(stack), list, heap)
      /\ \A a : Enlisted(stack, a) /\ ~Enlists(Top, a) => Enlisted(Front(stack), a)
    BY <1>0, FrontProperties, OKPop, EnlistedPop
<1>2. \A a \in Animations :
          heap[a] = "live" /\ state[a] \in OnTheMove => In(list, a) \/ Enlisted(stack, a)
    BY ActiveListedIs DEF LInv
<1>3. CASE StateChanged
    <2>1. /\ Top.at = "changing" /\ Top.a \in Animations /\ \A a : ~Enlists(Top, a)
          /\ list' = list /\ heap' = heap
          /\ \A a \in Animations : a # Top.a => state'[a] = state[a]
        BY <1>0, <1>3, TopTyped DEF StateChanged, TopIs, Enlists, TypeOK
    <2> DEFINE f == [Top EXCEPT !.at = "finished"]
    <2>2. f \in FrameType
        BY <1>0, <2>1, GoOnAtTyped, HeadAssumption DEF Ats
    <2>3. f.at = "finished" /\ f.new = Top.new
        BY <1>0, TopTyped DEF FrameType
    <2>4. stack' = Front(stack) \/ (stack' = GoOn(f) /\ Top.new = "STOPPED")
        BY <1>3 DEF StateChanged, GoOnAt, Reports
    <2> HIDE DEF f
    <2>5. In(list, Top.a) \/ Enlisted(stack, Top.a)
        BY <1>0, <2>1 DEF StackOK, Backed, Enlisted
    <2>6. CASE stack' = Front(stack)
        BY <1>0, <1>1, <1>2, <2>1, <2>5, <2>6, ActiveListedNext
    <2>7. CASE stack' = GoOn(f) /\ Top.new = "STOPPED"
        <3>1. \A i \in 1..Len(stack) : May(stack[i], Top) => May(stack[i], f)
            BY <2>1, <2>3, <2>7 DEF May, IsPass, PassAts
        <3>2. ~Using(f)
            BY <2>3 DEF Using
        <3>3. StackOK(GoOn(f), list, heap)
            BY <1>0, <2>2, <2>3, <3>1, <3>2, OKGoOn
        <3>4. \A a : Enlisted(stack, a) => Enlisted(GoOn(f), a)
            BY <1>0, <2>1, <2>2, EnlistedGoOn
        <3> QED
            BY <1>0, <1>2, <2>1, <2>5, <2>7, <3>3, <3>4, ActiveListedNext
    <2> QED
        BY <2>4, <2>6, <2>7
<1>4. CASE Finished \/ WaitOver
    <2>1. /\ stack' = Front(stack) /\ list' = list /\ heap' = heap /\ state' = state
          /\ \A a : ~Enlists(Top, a)
        BY <1>4 DEF Finished, WaitOver, TopIs, Enlists
    <2> QED
        BY <1>0, <1>1, <1>2, <2>1, ActiveListedNext
<1>5. CASE VisitRunning \/ VisitPaused \/ Started
    <2>1. /\ list' = list /\ heap' = heap /\ state' = state
          /\ IsPass(Top) /\ Top.a \in Animations
        BY <1>0, <1>5, TopTyped DEF VisitRunning, VisitPaused, Started, Visit, TopIs, IsPass,
           PassAts, Nodes
    <2>2. PICK at \in PassAts :
              /\ stack' \in {VisitedAt(at), GoOnAt(at)}
              /\ at \in {"started", "update"} => heap[Top.a] = "live"
        <3>1. CASE VisitRunning
            BY <3>1 DEF VisitRunning, Visit, PassAts
        <3>2. CASE VisitPaused
            BY <3>2 DEF VisitPaused, Visit, PassAts
        <3>3. CASE Started
            <4>1. heap[Top.a] = "live"
                BY <1>0, <3>3 DEF Started, TopIs, StackOK, FramesLive, Using
            <4> QED
                BY <3>3, <4>1 DEF Started, PassAts
        <3> QED
            BY <1>5, <3>1, <3>2, <3>3
    <2>3. /\ StackOK(stack', list, heap)
          /\ \A a : Enlisted(stack, a) => Enlisted(stack', a)
        BY <1>0, <2>1, <2>2, OKVisit
    <2> QED
        BY <1>0, <1>2, <2>1, <2>3, ActiveListedNext
<1>6. CASE VisitReady
    <2>1. /\ list' = list /\ heap' = heap /\ state' = state
          /\ IsPass(Top) /\ Top.a \in Animations
          /\ heap[Top.a] = "live" /\ state[Top.a] = "READY"
          /\ SetState(VisitedAt("started"), Top.a, "RUNNING")
          /\ "RUNNING" \in States /\ "started" \in PassAts
        BY <1>0, <1>6, TopTyped DEF VisitReady, Visit, TopIs, IsPass, PassAts, Nodes, States
    <2> DEFINE s == VisitedAt("started")
    <2>2. /\ s \in Seq(FrameType) /\ StackOK(s, list, heap)
          /\ \A a : Enlisted(stack, a) => Enlisted(s, a)
          /\ \A i \in 1..Len(s) : s[i].at \in {"waiting", "syncloop", "started"}
        BY <1>0, <2>1, OKVisit
    <2>3. In(list, Top.a) \/ Enlisted(s, Top.a)
        BY <1>2, <2>1, <2>2 DEF OnTheMove
    <2>4. \A i \in 1..Len(s) : May(s[i], Changing(Top.a, "RUNNING"))
        BY <2>2 DEF May, Changing, Frame, IsPass, PassAts
    <2> HIDE DEF s
    <2>5. SetState(s, Top.a, "RUNNING")
        BY <2>1 DEF s
    <2>6. /\ StackOK(stack', list, heap)
          /\ \A b : Enlisted(s, b) => Enlisted(stack', b)
        BY <2>1, <2>2, <2>3, <2>4, <2>5, OKSetState
    <2> QED
        BY <1>0, <1>2, <2>1, <2>2, <2>6, ActiveListedNext
<1>7. CASE UpdateDone
    <2>1. /\ list' = list /\ heap' = heap /\ state' = state
          /\ IsPass(Top) /\ Top.a \in Animations /\ heap[Top.a] = "live"
          /\ SetState(GoOnAt("next"), Top.a, "STOPPED") \/ stack' = GoOnAt("next")
          /\ "STOPPED" \in States /\ "next" \in PassAts
        BY <1>0, <1>7, TopTyped
        DEF UpdateDone, TopIs, IsPass, PassAts, States, StackOK, FramesLive, Using
    <2> DEFINE s == GoOnAt("next")
    <2>2. /\ s \in Seq(FrameType) /\ StackOK(s, list, heap)
          /\ \A a : Enlisted(stack, a) => Enlisted(s, a)
          /\ \A i \in 1..Len(s) : s[i].at \in {"waiting", "syncloop", "next"}
        BY <1>0, <2>1, OKVisit
    <2>3. CASE stack' = s
        BY <1>0, <1>2, <2>1, <2>2, <2>3, ActiveListedNext
    <2>4. CASE SetState(s, Top.a, "STOPPED")
        <3>1. state[Top.a] # "STOPPED" => state[Top.a] \in OnTheMove
            BY <1>0, <2>1 DEF TypeOK, States, OnTheMove
        <3>2. state[Top.a] # "STOPPED" => In(list, Top.a) \/ Enlisted(s, Top.a)
            BY <1>2, <2>1, <2>2, <3>1
        <3>3. \A i \in 1..Len(s) : May(s[i], Changing(Top.a, "STOPPED"))
            BY <2>2 DEF May, Changing, Frame, IsPass, PassAts
        <3> HIDE DEF s
        <3>4. /\ StackOK(stack', list, heap)
              /\ \A b : Enlisted(s, b) => Enlisted(stack', b)
            BY <2>1, <2>2, <2>4, <3>2, <3>3, OKSetState
        <3> QED
            BY <1>0, <1>2, <2>1, <2>2, <3>4, ActiveListedNext
    <2> QED
        BY <2>1, <2>3, <2>4
<1>8. CASE VisitStopped \/ VisitRemove
    <2>1. /\ list' = Without(Top.a) /\ state' = state
          /\ IsPass(Top) /\ Top.a \in Animations
          /\ stack' = VisitedAt("next") /\ "next" \in PassAts
          /\ \/ state[Top.a] = "STOPPED" /\ heap' = heap
             \/ heap' = [heap EXCEPT ![Top.a] = "freed"]
        BY <1>0, <1>8, TopTyped
        DEF VisitStopped, VisitRemove, Visit, TopIs, IsPass, PassAts, Nodes
    <2>2. /\ stack' \in Seq(FrameType) /\ StackOK(stack', list, heap)
          /\ \A a : Enlisted(stack, a) => Enlisted(stack', a)
          /\ AllAre(stack', {"waiting", "syncloop", "next", "finished"})
        BY <1>0, <2>1, OKVisit DEF AllAre
    <2>3. StackOK(stack', list', heap')
        BY <2>2, OKQuiet
    <2>4. ASSUME NEW a \in Animations, heap'[a] = "live", state'[a] \in OnTheMove
          PROVE  In(list', a) \/ Enlisted(stack', a)
        <3>1. a # Top.a /\ heap[a] = "live"
            BY <1>0, <2>1, <2>4 DEF OnTheMove, TypeOK
        <3> QED
            BY <1>0, <1>2, <2>1, <2>2, <2>4, <3>1, WithoutOthers
    <2> QED
        BY <1>0, <2>1, <2>3, <2>4, WithoutProperties, ActiveListedNext
<1>9. CASE NextNode
    <2> DEFINE nxt == IF Top.nxt = ListHead THEN ListHead ELSE Successor(Top.nxt)
               f == [Top EXCEPT !.at = "visit", !.a = Top.nxt, !.nxt = nxt]
    <2>1. nxt \in Nodes
        BY <1>0, <1>9, ListNodes DEF NextNode, Nodes
    <2>2. f \in FrameType
        BY <1>0, <2>1, TopTyped DEF FrameType, Ats, PassAts
    <2>3. f.at = "visit"
        BY <1>0, TopTyped DEF FrameType
    <2>4. IsPass(Top) /\ \A a : ~Enlists(Top, a)
        BY <1>9 DEF NextNode, TopIs, IsPass, PassAts, Enlists
    <2>5. stack' = GoOn(f) /\ list' = list /\ heap' = heap /\ state' = state
        BY <1>9 DEF NextNode
    <2> HIDE DEF f
    <2>6. \A i \in 1..Len(stack) : May(stack[i], Top) => May(stack[i], f)
        BY <2>3, <2>4 DEF May, IsPass, PassAts
    <2>7. StackOK(GoOn(f), list, heap)
        BY <1>0, <2>2, <2>3, <2>6, OKGoOn DEF Using
    <2>8. \A a : Enlisted(stack, a) => Enlisted(GoOn(f), a)
        BY <1>0, <2>2, <2>4, EnlistedGoOn
    <2> QED
        BY <1>0, <1>2, <2>5, <2>7, <2>8, ActiveListedNext
<1>10. CASE PassEnd
    <2>1. /\ list' = list /\ heap' = heap /\ state' = state /\ \A a : ~Enlists(Top, a)
        BY <1>10 DEF PassEnd, TopIs, Enlists
    <2>2. CASE stack' = Front(stack)
        BY <1>0, <1>1, <1>2, <2>1, <2>2, ActiveListedNext
    <2>3. CASE stack' # Front(stack)
        <3> DEFINE s == Front(stack)
        <3>1. /\ Len(stack) > 1 /\ stack[Len(stack) - 1].at = "syncloop"
              /\ stack' = Front(s)
            BY <1>10, <2>3 DEF PassEnd
        <3>2. /\ s \in Seq(FrameType) /\ Len(s) = Len(stack) - 1
              /\ s[Len(s)] = stack[Len(stack) - 1]
            BY <1>0, <3>1, FrontProperties
        <3> HIDE DEF s
        <3>3. s # << >> /\ StackOK(s, list, heap)
            BY <1>0, <1>1, <3>1, <3>2, EmptySeq DEF s
        <3>4. StackOK(stack', list, heap)
            BY <3>1, <3>2, <3>3, OKPop
        <3>5. \A a : ~Enlists(s[Len(s)], a)
            BY <3>1, <3>2 DEF Enlists
        <3>6. \A a : Enlisted(stack, a) => Enlisted(stack', a)
            BY <1>1, <2>1, <3>1, <3>2, <3>3, <3>5, EnlistedPop DEF s
        <3> QED
            BY <1>0, <1>2, <2>1, <3>4, <3>6, ActiveListedNext
    <2> QED
        BY <2>2, <2>3
<1>11. CASE AsyncAdd \/ SyncAdd
    <2>1. /\ list' = With(Top.a) /\ Top.a \in Animations /\ Top.at \in {"asyncadd", "syncadd"}
          /\ heap' = heap /\ state' = state
          /\ \A a : Enlists(Top, a) => a = Top.a
        BY <1>0, <1>11, TopTyped DEF AsyncAdd, SyncAdd, TopIs, Enlists
    <2>2. /\ \A a : In(list, a) => In(list', a)
          /\ In(list', Top.a)
          /\ Unique(list')
        BY <1>0, <2>1, WithHas, WithProperties
    <2>3. CASE stack' = Front(stack)
        <3>1. StackOK(stack', list', heap)
            BY <1>1, <2>2, <2>3, OKGrow
        <3> QED
            BY <1>1, <1>2, <2>1, <2>2, <2>3, <3>1, ActiveListedNext
    <2>4. CASE stack' # Front(stack)
        <3> DEFINE f == [Top EXCEPT !.at = "syncloop"]
        <3>1. Top.at = "syncadd" /\ stack' = GoOn(f)
            BY <1>11, <2>4 DEF AsyncAdd, SyncAdd, TopIs, GoOnAt
        <3>2. f \in FrameType
            BY <1>0, <2>1, GoOnAtTyped, HeadAssumption DEF Ats
        <3>3. f.at = "syncloop"
            BY <1>0, TopTyped DEF FrameType
        <3> HIDE DEF f
        <3>4. \A i \in 1..Len(stack) : May(stack[i], Top) => May(stack[i], f)
            BY <3>1, <3>3 DEF May, IsPass, PassAts
        <3>5. stack' \in Seq(FrameType) /\ StackOK(stack', list, heap)
            BY <1>0, <3>1, <3>2, <3>3, <3>4, OKGoOn DEF Using
        <3>6. \A a : Enlisted(stack, a) /\ a # Top.a => Enlisted(stack', a)
            BY <1>0, <2>1, <3>1, <3>2, EnlistedGoOn
        <3>7. StackOK(stack', list', heap)
            BY <2>2, <3>5, OKGrow
        <3> QED
            BY <1>2, <2>1, <2>2, <3>6, <3>7, ActiveListedNext
    <2> QED
        BY <2>3, <2>4
<1>12. CASE SyncPass
    <2>1. /\ list' = list /\ heap' = heap /\ state' = state
          /\ stack' = Append(stack, PassFrame) /\ Top.at = "syncloop"
        BY <1>12 DEF SyncPass, TopIs
    <2>2. PassFrame \in FrameType /\ PassFrame.at = "visit"
        BY <1>0, PassFrameTyped DEF PassFrame, Frame
    <2>3. \A i \in 1..Len(stack) : stack[i].at \in {"waiting", "syncloop"}
        BY <1>0, <2>1, BelowTop DEF May
    <2>4. \A i \in 1..Len(stack) : May(stack[i], PassFrame)
        BY <2>2, <2>3 DEF May
    <2>5. StackOK(stack', list, heap)
        BY <1>0, <2>1, <2>2, <2>4, OKPush DEF Using
    <2> QED
        BY <1>0, <1>2, <2>1, <2>2, <2>5, EnlistedPush, ActiveListedNext
<1> QED
    BY <1>3, <1>4, <1>5, <1>6, <1>7, <1>8, <1>9, <1>10, <1>11, <1>12 DEF Library

(* Where the calls come from. *)
LEMMA CallContexts ==
    ASSUME Discipline, stack \in Seq(FrameType), Stacked(stack), NEW name, NEW a, Call(name, a)
    PROVE  /\ heap[a] = "live"
           /\ stack = << >> \/ Top.at \in {"waiting", "changing", "update", "finished"}
           /\ name \in {"SyncRun", "Wait"} => AllAre(stack, {"waiting"})
           /\ NoStops /\ name = "Stop" => AllAre(stack, {"waiting"})
           /\ name = "Delete" => AllAre(stack, {"waiting", "syncloop", "next", "finished"})
<1>1. PICK c \in Contexts :
          /\ InContext(c)
          /\ \/ name \in CallsIn[c]
             \/ c # "main" /\ name \in OwnCallsIn[c] /\ Top.a = a
    BY DEF Call
<1>2. CASE c = "main"
    <2>1. stack = << >> \/ Top.at = "waiting"
        BY <1>1, <1>2 DEF InContext, TopIs
    <2>2. AllAre(stack, {"waiting"})
        BY <2>1, MainStack
    <2> QED
        BY <2>1, <2>2 DEF Call, AllAre
<1>3. CASE c # "main"
    <2>1. Top.at = c /\ c \in {"changing", "update", "finished"} /\ name \in Made(c) /\ stack # << >>
        BY <1>1, <1>3 DEF InContext, TopIs, Contexts, Made
    <2>2. /\ name \notin {"SyncRun", "Wait"}
          /\ ~(NoStops /\ name = "Stop")
          /\ name = "Delete" => c = "finished" /\ NoStops
        BY <2>1, CallsInAssumption DEF Discipline, NoStops, Contexts, Made
    <2>3. ASSUME name = "Delete"
          PROVE  AllAre(stack, {"waiting", "syncloop", "next", "finished"})
        BY <2>1, <2>2, <2>3, BelowTop DEF AllAre, May, Top
    <2> QED
        BY <2>1, <2>2, <2>3 DEF Call
<1> QED
    BY <1>2, <1>3

LEMMA LifeApplication ==
    ASSUME Discipline, LInv, NEW a \in Animations,
           \/ AsyncRun(a) \/ SyncRun(a) \/ Wait(a) \/ Stop(a)
           \/ Pause(a) \/ Resume(a) \/ SetKeepalive(a) \/ Delete(a)
    PROVE  Unique(list') /\ StackOK(stack', list', heap') /\ ActiveListed'
<1>0. /\ TypeOK /\ Unique(list) /\ StackOK(stack, list, heap) /\ Stacked(stack)
      /\ stack \in Seq(FrameType) /\ list \in Seq(Animations)
    BY DEF LInv, TypeOK, StackOK
<1>1. \A b \in Animations :
          heap[b] = "live" /\ state[b] \in OnTheMove => In(list, b) \/ Enlisted(stack, b)
    BY ActiveListedIs DEF LInv
<1>2. CASE AsyncRun(a) \/ SyncRun(a)
    <2>1. PICK at \in {"asyncadd", "syncadd"} :
              /\ SetState(Append(stack, Frame(at, a)), a, "READY") /\ heap[a] = "live"
              /\ at = "syncadd" => AllAre(stack, {"waiting"})
        BY <1>0, <1>2, CallContexts DEF AsyncRun, SyncRun
    <2>2. heap' = heap /\ state' = state /\ list' = list
        BY <1>2 DEF AsyncRun, SyncRun
    <2> DEFINE f == Frame(at, a)
               s == Append(stack, f)
    <2>3. f \in FrameType /\ f.at = at /\ f.a = a /\ Enlists(f, a)
        BY <2>1, FrameTyped, HeadAssumption DEF Ats, Nodes, Frame, Enlists
    <2> HIDE DEF f
    <2>4. \A i \in 1..Len(stack) : May(stack[i], f)
        BY <2>1, <2>3 DEF May, AllAre, IsPass, PassAts
    <2>5. /\ s \in Seq(FrameType) /\ StackOK(s, list, heap)
          /\ \A b : Enlisted(stack, b) => Enlisted(s, b)
          /\ Enlisted(s, a)
        BY <1>0, <2>1, <2>3, <2>4, OKPush, PushFacts, EnlistedPush
    <2>6. \A i \in 1..Len(s) : May(s[i], Changing(a, "READY"))
        BY DEF May, Changing, Frame, IsPass, PassAts
    <2> HIDE DEF s
    <2>7. SetState(s, a, "READY") /\ "READY" \in States
        BY <2>1 DEF f, s, States
    <2>8. /\ StackOK(stack', list, heap)
          /\ \A b : Enlisted(s, b) => Enlisted(stack', b)
        BY <2>1, <2>5, <2>6, <2>7, OKSetState
    <2> QED
        BY <1>0, <1>1, <2>2, <2>5, <2>8, ActiveListedNext
<1>3. CASE Wait(a)
    <2> DEFINE f == Frame("waiting", a)
    <2>1. /\ stack' = Append(stack, f) /\ heap' = heap /\ state' = state /\ list' = list
          /\ AllAre(stack, {"waiting"})
        BY <1>0, <1>3, CallContexts DEF Wait
    <2>2. f \in FrameType /\ f.at = "waiting"
        BY FrameTyped, HeadAssumption DEF Ats, Nodes, Frame
    <2> HIDE DEF f
    <2>3. \A i \in 1..Len(stack) : May(stack[i], f)
        BY <2>1, <2>2 DEF May, AllAre, IsPass, PassAts
    <2>4. /\ StackOK(stack', list, heap)
          /\ \A b : Enlisted(stack, b) => Enlisted(stack', b)
        BY <1>0, <2>1, <2>2, <2>3, OKPush, EnlistedPush DEF Using
    <2> QED
        BY <1>0, <1>1, <2>1, <2>4, ActiveListedNext
<1>4. CASE Stop(a) \/ Pause(a) \/ Resume(a)
    <2>1. PICK new \in {"STOPPED", "PAUSED", "READY"} :
              /\ SetState(stack, a, new)
              /\ new = "STOPPED" <=> Stop(a)
              /\ heap[a] = "live" /\ state[a] \in OnTheMove
        <3>1. CASE Stop(a)
            <4>1. state[a] # "STOPPED" /\ SetState(stack, a, "STOPPED") /\ heap[a] = "live"
                BY <3>1 DEF Stop, Call
            <4> QED
                BY <1>0, <3>1, <4>1 DEF TypeOK, States, OnTheMove
        <3>2. CASE Pause(a) /\ ~Stop(a)
            BY <3>2 DEF Pause, Call, OnTheMove
        <3>3. CASE Resume(a) /\ ~Stop(a)
            BY <3>3 DEF Resume, Call, OnTheMove
        <3> QED
            BY <1>4, <3>1, <3>2, <3>3
    <2>2. /\ heap' = heap /\ state' = state /\ list' = list
          /\ stack = << >> \/ Top.at \in {"waiting", "changing", "update", "finished"}
          /\ NoStops /\ new = "STOPPED" => AllAre(stack, {"waiting"})
        BY <1>0, <1>4, <2>1, CallContexts DEF Stop, Pause, Resume
    <2>3. Follows("one_change") =>
              \A i \in 1..Len(stack) : stack[i].at = "changing" => stack[i].a # a
        BY <1>4 DEF Stop, Pause, Resume, OneChange, Active
    <2>4. \A i \in 1..Len(stack) : May(stack[i], Changing(a, new))
        BY <2>2, <2>3 DEF May, Changing, Frame, IsPass, PassAts, AllAre
    <2>5. In(list, a) \/ Enlisted(stack, a)
        BY <1>1, <2>1
    <2>6. /\ StackOK(stack', list, heap)
          /\ \A b : Enlisted(stack, b) => Enlisted(stack', b)
        BY <1>0, <2>1, <2>4, <2>5, OKSetState DEF States
    <2> QED
        BY <1>0, <1>1, <2>2, <2>6, ActiveListedNext
<1>5. CASE SetKeepalive(a)
    <2>1. UNCHANGED <<heap, state, list, stack>>
        BY <1>5 DEF SetKeepalive
    <2> QED
        BY <1>0, <1>1, <2>1, ActiveListedNext
<1>6. CASE Delete(a)
    <2>1. /\ heap' = [heap EXCEPT ![a] = "freed"] /\ state' = state /\ stack' = stack
          /\ list' = list \/ list' = Without(a)
          /\ AllAre(stack, {"waiting", "syncloop", "next", "finished"})
        BY <1>0, <1>6, CallContexts DEF Delete
    <2>2. StackOK(stack', list', heap')
        BY <1>0, <2>1, OKQuiet
    <2>3. Unique(list') /\ \A b : b # a /\ In(list, b) => In(list', b)
        BY <1>0, <2>1, WithoutProperties
    <2>4. ASSUME NEW b \in Animations, heap'[b] = "live", state'[b] \in OnTheMove
          PROVE  In(list', b) \/ Enlisted(stack', b)
        <3>1. b # a /\ heap[b] = "live"
            BY <1>0, <2>1, <2>4 DEF TypeOK
        <3> QED
            BY <1>1, <2>1, <2>3, <2>4, <3>1
    <2> QED
        BY <2>2, <2>3, <2>4, ActiveListedNext
<1> QED
    BY <1>2, <1>3, <1>4, <1>5, <1>6

LEMMA LifeInit == Init => LInv
<1> SUFFICES ASSUME Init PROVE LInv
    OBVIOUS
<1>1. Len(list) = 0 /\ Len(stack) = 0
    BY EmptySeq DEF Init
<1>2. StackOK(stack, list, heap) /\ Unique(list)
    BY <1>1 DEF StackOK, Stacked, Backed, FramesLive, Unique
<1>3. ActiveListed
    BY DEF Init, ActiveListed
<1> QED
    BY <1>2, <1>3, TypeInit DEF LInv

LEMMA LifeNext ==
    ASSUME Discipline
    PROVE  LInv /\ [Next]_vars => LInv'
<1> SUFFICES ASSUME LInv, [Next]_vars PROVE LInv'
    OBVIOUS
<1>1. TypeOK'
    BY TypeNext DEF LInv
<1>2. Unique(list') /\ StackOK(stack', list', heap') /\ ActiveListed'
    <2>1. CASE Library
        BY <2>1, LifeLibrary
    <2>2. CASE Application
        BY <2>2, LifeApplication DEF Application
    <2>3. CASE Timer
        <3>1. /\ UNCHANGED <<list, heap, state>> /\ stack' = Append(stack, PassFrame)
              /\ stack \in Seq(FrameType) /\ list \in Seq(Animations)
              /\ Unique(list) /\ StackOK(stack, list, heap) /\ Stacked(stack)
              /\ stack = << >> \/ Top.at = "waiting"
            BY <2>3 DEF Timer, InContext, TopIs, LInv, TypeOK, StackOK
        <3>2. PassFrame \in FrameType /\ PassFrame.at = "visit"
            BY <3>1, PassFrameTyped DEF PassFrame, Frame
        <3>3. \A i \in 1..Len(stack) : May(stack[i], PassFrame)
            BY <3>1, <3>2, MainStack DEF AllAre, May
        <3>4. /\ StackOK(stack', list, heap)
              /\ \A b : Enlisted(stack, b) => Enlisted(stack', b)
            BY <3>1, <3>2, <3>3, OKPush, EnlistedPush DEF Using
        <3> QED
            BY <3>1, <3>4, ActiveListedIs, ActiveListedNext DEF LInv
    <2>4. CASE UNCHANGED vars
        BY <2>4, ActiveListedIs, ActiveListedNext DEF vars, LInv
    <2> QED
        BY <2>1, <2>2, <2>3, <2>4 DEF Next
<1> QED
    BY <1>1, <1>2 DEF LInv

(* An animation in the middle of a run, or waiting for being freed, is     *)
(* always on the list or about to be put there: no sequence of calls from  *)
(* callbacks loses it (schedular.c, __mgeffschedular_one_step;             *)
(* animation.c, mGEffAnimationAsyncRun).                                   *)
THEOREM ActiveStayListed ==
    ASSUME Discipline
    PROVE  Spec => []ActiveListed
<1>1. Init => LInv
    BY LifeInit
<1>2. LInv /\ [Next]_vars => LInv'
    BY LifeNext
<1>3. LInv => ActiveListed
    BY DEF LInv
<1> QED
    BY <1>1, <1>2, <1>3, PTL DEF Spec
-----------------------------------------------------------------------------
(***************************************************************************)
(* Deleting animations that are kept alive.  The list holds none that has  *)
(* been freed, and no pass stands at one: a pass goes from the list to the *)
(* node it visits without calling out, and what frees an animation, Delete *)
(* or the pass itself, takes it off the list first and runs only where no  *)
(* pass visits a node.                                                     *)
(***************************************************************************)
Kept == \A a \in Animations : keepalive[a] = TRUE
ListLive(l, h) == \A a \in Animations : In(l, a) => h[a] = "live"
VisitsLive(s, h) ==
    \A i \in 1..Len(s) : s[i].at = "visit" /\ s[i].a # ListHead => h[s[i].a] = "live"

DInv == LInv /\ Kept /\ ListLive(list, heap) /\ VisitsLive(stack, heap)

LEMMA VisitsPop ==
    ASSUME NEW s \in Seq(FrameType), s # << >>, NEW h, VisitsLive(s, h)
    PROVE  VisitsLive(Front(s), h)
<1> DEFINE t == Front(s)
<1>1. \A i \in 1..Len(t) : i \in 1..Len(s) /\ t[i] = s[i]
    BY PopFacts
<1> HIDE DEF t
<1>2. VisitsLive(t, h)
    BY <1>1 DEF VisitsLive
<1> QED
    BY <1>2 DEF t

LEMMA VisitsPush ==
    ASSUME NEW s \in Seq(FrameType), NEW h, VisitsLive(s, h), NEW f \in FrameType,
           f.at = "visit" /\ f.a # ListHead => h[f.a] = "live"
    PROVE  VisitsLive(Append(s, f), h)
<1> DEFINE t == Append(s, f)
<1>1. /\ t[Len(s) + 1] = f
      /\ \A i \in 1..Len(s) : t[i] = s[i]
      /\ \A i \in 1..Len(t) : i \in 1..Len(s) \/ i = Len(s) + 1
    BY PushFacts
<1> HIDE DEF t
<1>2. VisitsLive(t, h)
    BY <1>1 DEF VisitsLive
<1> QED
    BY <1>2 DEF t

LEMMA VisitsGoOn ==
    ASSUME stack \in Seq(FrameType), stack # << >>, NEW h, VisitsLive(stack, h),
           NEW f \in FrameType,
           f.at = "visit" /\ f.a # ListHead => h[f.a] = "live"
    PROVE  VisitsLive(GoOn(f), h)
<1> DEFINE t == GoOn(f)
<1>1. Len(t) = Len(stack) /\ \A i \in 1..Len(stack) : t[i] = IF i = Len(stack) THEN f ELSE stack[i]
    BY GoOnTyped
<1> HIDE DEF t
<1>2. VisitsLive(t, h)
    BY <1>1 DEF VisitsLive
<1> QED
    BY <1>2 DEF t

LEMMA VisitsNone ==
    ASSUME NEW s \in Seq(FrameType), NEW h,
           AllAre(s, {"waiting", "syncloop", "next", "finished"})
    PROVE  VisitsLive(s, h)
BY DEF VisitsLive, AllAre

LEMMA VisitsSetState ==
    ASSUME NEW s \in Seq(FrameType), NEW h, VisitsLive(s, h),
           NEW a \in Animations, NEW new \in States, SetState(s, a, new)
    PROVE  VisitsLive(stack', h)
<1>1. Changing(a, new) \in FrameType /\ Changing(a, new).at = "changing"
    BY ChangingTyped DEF Changing, Frame
<1>2. VisitsLive(Append(s, Changing(a, new)), h)
    BY <1>1, VisitsPush
<1> QED
    BY <1>2 DEF SetState

(* A pass begins at a node of the list. *)
LEMMA VisitsPass ==
    ASSUME TypeOK, ListLive(list, heap), VisitsLive(stack, heap)
    PROVE  VisitsLive(Append(stack, PassFrame), heap)
<1>1. stack \in Seq(FrameType) /\ list \in Seq(Animations) /\ PassFrame \in FrameType
    BY PassFrameTyped DEF TypeOK
<1>2. /\ PassFrame.a = First
      /\ First # ListHead => First \in Animations /\ In(list, First)
    BY <1>1, ListNodes, InListed DEF PassFrame, Frame, First
<1> QED
    BY <1>1, <1>2, VisitsPush DEF ListLive

LEMMA DeleteLibrary ==
    ASSUME DInv, Library
    PROVE  Kept' /\ ListLive(list', heap') /\ VisitsLive(stack', heap')
<1>0. /\ TypeOK /\ Unique(list) /\ StackOK(stack, list, heap) /\ Stacked(stack)
      /\ stack \in Seq(FrameType) /\ list \in Seq(Animations)
      /\ ListLive(list, heap) /\ VisitsLive(stack, heap)
      /\ stack # << >> /\ Top = stack[Len(stack)]
    <2>1. stack # << >>
        BY DEF Library, StateChanged, Finished, Visit, VisitRunning, VisitReady,
               Started, UpdateDone, VisitPaused, VisitStopped, VisitRemove, NextNode, PassEnd,
               AsyncAdd, SyncAdd, SyncPass, WaitOver, TopIs
    <2> QED
        BY <2>1 DEF DInv, LInv, TypeOK, StackOK, Top
<1>1. Kept'
    BY DEF DInv, Kept, Library, StateChanged, Finished, VisitRunning, VisitReady,
           Started, UpdateDone, VisitPaused, VisitStopped, VisitRemove, NextNode, PassEnd,
           AsyncAdd, SyncAdd, SyncPass, WaitOver
<1>2. Front(stack) \in Seq(FrameType) /\ VisitsLive(Front(stack), heap)
    BY <1>0, FrontProperties, VisitsPop
(* Where a frame goes on other than to visit a node. *)
<1>3. ASSUME NEW at \in Ats \ {"visit"}, Top.a \in Animations
      PROVE  /\ GoOnAt(at) \in Seq(FrameType) /\ VisitsLive(GoOnAt(at), heap)
             /\ VisitedAt(at) \in Seq(FrameType) /\ VisitsLive(VisitedAt(at), heap)
    <2> DEFINE f == [Top EXCEPT !.at = at]
               g == [Top EXCEPT !.at = at, !.found = @ \/ Top.a = Wanted]
    <2>1. f \in FrameType /\ g \in FrameType
        BY <1>0, <1>3, GoOnAtTyped, VisitedTyped, HeadAssumption
    <2>2. f.at = at /\ g.at = at
        BY <1>0, TopTyped DEF FrameType
    <2>3. GoOnAt(at) = GoOn(f) /\ VisitedAt(at) = GoOn(g)
        BY DEF GoOnAt, VisitedAt
    <2> HIDE DEF f, g
    <2>4. VisitsLive(GoOn(f), heap) /\ VisitsLive(GoOn(g), heap)
        BY <1>0, <2>1, <2>2, VisitsGoOn
    <2> QED
        BY <1>0, <2>1, <2>3, <2>4, GoOnTyped
<1>4. CASE StateChanged
    <2>1. list' = list /\ heap' = heap /\ Top.a \in Animations
          /\ stack' \in {Front(stack), GoOnAt("finished")} /\ "finished" \in Ats \ {"visit"}
        BY <1>0, <1>4, TopTyped DEF StateChanged, TopIs, Ats
    <2> QED
        BY <1>0, <1>1, <1>2, <1>3, <2>1
<1>5. CASE Finished \/ WaitOver
    BY <1>0, <1>1, <1>2, <1>5 DEF Finished, WaitOver
<1>6. CASE VisitRunning \/ VisitPaused \/ Started
    <2>1. list' = list /\ heap' = heap /\ Top.a \in Animations
        BY <1>0, <1>6, TopTyped DEF VisitRunning, VisitPaused, Started, Visit, TopIs, Nodes
    <2>2. \E at \in Ats \ {"visit"} : stack' \in {GoOnAt(at), VisitedAt(at)}
        BY <1>6 DEF VisitRunning, VisitPaused, Started, Ats, PassAts
    <2> QED
        BY <1>0, <1>1, <1>3, <2>1, <2>2
<1>7. CASE VisitReady \/ UpdateDone
    <2>1. /\ list' = list /\ heap' = heap /\ Top.a \in Animations
        BY <1>0, <1>7, TopTyped DEF VisitReady, UpdateDone, Visit, TopIs, Nodes
    <2>2. \/ SetState(VisitedAt("started"), Top.a, "RUNNING")
          \/ SetState(GoOnAt("next"), Top.a, "STOPPED")
          \/ stack' = GoOnAt("next")
        BY <1>7 DEF VisitReady, UpdateDone
    <2>3. {"started", "next"} \subseteq Ats \ {"visit"} /\ {"RUNNING", "STOPPED"} \subseteq States
        BY DEF Ats, PassAts, States
    <2>4. VisitsLive(stack', heap)
        BY <1>3, <2>1, <2>2, <2>3, VisitsSetState
    <2> QED
        BY <1>0, <1>1, <2>1, <2>4
<1>8. CASE VisitStopped \/ VisitRemove
    <2>1. /\ list' = Without(Top.a)
          /\ IsPass(Top) /\ Top.a \in Animations
          /\ stack' = VisitedAt("next") /\ "next" \in PassAts
          /\ heap' = heap \/ heap' = [heap EXCEPT ![Top.a] = "freed"]
        BY <1>0, <1>8, TopTyped
        DEF VisitStopped, VisitRemove, Visit, TopIs, IsPass, PassAts, Nodes
    <2>2. /\ stack' \in Seq(FrameType)
          /\ AllAre(stack', {"waiting", "syncloop", "next", "finished"})
        BY <1>0, <2>1, OKVisit DEF AllAre
    <2>3. VisitsLive(stack', heap')
        BY <2>2, VisitsNone
    <2>4. \A b : In(list', b) => In(list, b) /\ b # Top.a
        BY <1>0, <2>1, WithoutOthers
    <2>5. \A b : In(list, b) => b \in Animations
        BY <1>0, ListNodes, InListed
    <2>6. ListLive(list', heap')
        BY <1>0, <2>1, <2>4, <2>5 DEF ListLive, TypeOK
    <2> QED
        BY <1>1, <2>3, <2>6
<1>9. CASE NextNode
    <2> DEFINE nxt == IF Top.nxt = ListHead THEN ListHead ELSE Successor(Top.nxt)
               f == [Top EXCEPT !.at = "visit", !.a = Top.nxt, !.nxt = nxt]
    <2>1. nxt \in Nodes
        BY <1>0, <1>9, ListNodes DEF NextNode, Nodes
    <2>2. f \in FrameType
        BY <1>0, <2>1, TopTyped DEF FrameType, Ats, PassAts
    <2>3. f.a = Top.nxt
        BY <1>0, TopTyped DEF FrameType
    <2>4. stack' = GoOn(f) /\ list' = list /\ heap' = heap
          /\ (Top.nxt # ListHead => heap[Top.nxt] = "live")
        BY <1>9 DEF NextNode
    <2> HIDE DEF f
    <2>5. VisitsLive(GoOn(f), heap)
        BY <1>0, <2>2, <2>3, <2>4, VisitsGoOn
    <2> QED
        BY <1>0, <1>1, <2>4, <2>5
<1>10. CASE PassEnd
    <2>1. list' = list /\ heap' = heap
        BY <1>10 DEF PassEnd
    <2>2. CASE stack' = Front(stack)
        BY <1>0, <1>1, <1>2, <2>1, <2>2
    <2>3. CASE stack' # Front(stack)
        <3>1. Len(stack) > 1 /\ stack' = Front(Front(stack))
            BY <1>10, <2>3 DEF PassEnd
        <3>2. Front(stack) # << >>
            BY <1>0, <1>2, <3>1, FrontProperties, EmptySeq
        <3> QED
            BY <1>0, <1>1, <1>2, <2>1, <3>1, <3>2, VisitsPop
    <2> QED
        BY <2>2, <2>3
<1>11. CASE AsyncAdd \/ SyncAdd
    <2>1. /\ list' = With(Top.a) /\ Top.a \in Animations
          /\ heap' = heap /\ heap[Top.a] = "live"
          /\ stack' \in {Front(stack), GoOnAt("syncloop")} /\ "syncloop" \in Ats \ {"visit"}
        BY <1>0, <1>11, TopTyped, EmptySeq
        DEF AsyncAdd, SyncAdd, TopIs, StackOK, FramesLive, Using, Ats, PassAts
    <2>2. \A b : In(list', b) => In(list, b) \/ b = Top.a
        BY <1>0, <2>1, WithHas
    <2>3. ListLive(list', heap)
        BY <1>0, <2>1, <2>2 DEF ListLive
    <2> QED
        BY <1>1, <1>2, <1>3, <2>1, <2>3
<1>12. CASE SyncPass
    BY <1>0, <1>1, <1>12, VisitsPass DEF SyncPass
<1> QED
    BY <1>4, <1>5, <1>6, <1>7, <1>8, <1>9, <1>10, <1>11, <1>12 DEF Library

LEMMA DeleteApplication ==
    ASSUME Discipline, FALSE \notin Keepalive, DInv, NEW a \in Animations,
           \/ AsyncRun(a) \/ SyncRun(a) \/ Wait(a) \/ Stop(a)
           \/ Pause(a) \/ Resume(a) \/ SetKeepalive(a) \/ Delete(a)
    PROVE  Kept' /\ ListLive(list', heap') /\ VisitsLive(stack', heap')
<1>0. /\ TypeOK /\ Unique(list) /\ StackOK(stack, list, heap) /\ Stacked(stack)
      /\ stack \in Seq(FrameType) /\ list \in Seq(Animations)
      /\ ListLive(list, heap) /\ VisitsLive(stack, heap) /\ Kept
    BY DEF DInv, LInv, TypeOK, StackOK
<1>1. Kept'
    <2>1. CASE SetKeepalive(a)
        <3>1. PICK k \in Keepalive : keepalive' = [keepalive EXCEPT ![a] = k]
            BY <2>1 DEF SetKeepalive
        <3>2. k = TRUE
            BY KeepaliveAssumption
        <3> QED
            BY <1>0, <3>1, <3>2 DEF Kept, TypeOK
    <2>2. CASE ~SetKeepalive(a)
        BY <1>0, <2>2 DEF Kept, AsyncRun, SyncRun, Wait, Stop, Pause, Resume, Delete
    <2> QED
        BY <2>1, <2>2
<1>2. \A at \in {"asyncadd", "syncadd", "waiting"} :
          /\ Frame(at, a) \in FrameType
          /\ Append(stack, Frame(at, a)) \in Seq(FrameType)
          /\ VisitsLive(Append(stack, Frame(at, a)), heap)
    <2>1. \A at \in {"asyncadd", "syncadd", "waiting"} :
              Frame(at, a) \in FrameType /\ Frame(at, a).at # "visit"
        BY FrameTyped, HeadAssumption DEF Ats, Nodes, Frame
    <2> QED
        BY <1>0, <2>1, VisitsPush, PushFacts
<1>3. CASE ~Delete(a)
    <2>1. list' = list /\ heap' = heap
        BY <1>3 DEF AsyncRun, SyncRun, Wait, Stop, Pause, Resume, SetKeepalive
    <2>2. {"READY", "STOPPED", "PAUSED"} \subseteq States
        BY DEF States
    <2>3. \/ \E at \in {"asyncadd", "syncadd"} : SetState(Append(stack, Frame(at, a)), a, "READY")
          \/ stack' = Append(stack, Frame("waiting", a))
          \/ \E new \in {"READY", "STOPPED", "PAUSED"} : SetState(stack, a, new)
          \/ stack' = stack
        BY <1>3 DEF AsyncRun, SyncRun, Wait, Stop, Pause, Resume, SetKeepalive
    <2>4. VisitsLive(stack', heap)
        BY <1>0, <1>2, <2>2, <2>3, VisitsSetState
    <2> QED
        BY <1>0, <1>1, <2>1, <2>4
<1>4. CASE Delete(a)
    <2>1. /\ heap' = [heap EXCEPT ![a] = "freed"] /\ stack' = stack
          /\ list' = Without(a)
          /\ AllAre(stack, {"waiting", "syncloop", "next", "finished"})
        BY <1>0, <1>4, CallContexts DEF Delete, Kept
    <2>2. VisitsLive(stack', heap')
        BY <1>0, <2>1, VisitsNone
    <2>3. \A b : In(list', b) => In(list, b) /\ b # a /\ b \in Animations
        BY <1>0, <2>1, WithoutOthers, ListNodes, InListed
    <2>4. ListLive(list', heap')
        BY <1>0, <2>1, <2>3 DEF ListLive, TypeOK
    <2> QED
        BY <1>1, <2>2, <2>4
<1> QED
    BY <1>3, <1>4

LEMMA DeleteInit ==
    ASSUME FALSE \notin Keepalive
    PROVE  Init => DInv
<1> SUFFICES ASSUME Init PROVE DInv
    OBVIOUS
<1>1. Len(list) = 0 /\ Len(stack) = 0
    BY EmptySeq DEF Init
<1>2. ListLive(list, heap) /\ VisitsLive(stack, heap)
    BY <1>1 DEF ListLive, VisitsLive, In
<1>3. Kept
    BY KeepaliveAssumption DEF Init, Kept
<1> QED
    BY <1>2, <1>3, LifeInit DEF DInv

LEMMA DeleteNext ==
    ASSUME Discipline, FALSE \notin Keepalive
    PROVE  DInv /\ [Next]_vars => DInv'
<1> SUFFICES ASSUME DInv, [Next]_vars PROVE DInv'
    OBVIOUS
<1>1. LInv'
    BY LifeNext DEF DInv
<1>2. Kept' /\ ListLive(list', heap') /\ VisitsLive(stack', heap')
    <2>1. CASE Library
        BY <2>1, DeleteLibrary
    <2>2. CASE Application
        BY <2>2, DeleteApplication DEF Application
    <2>3. CASE Timer
        BY <2>3, VisitsPass DEF Timer, DInv, LInv, Kept
    <2>4. CASE UNCHANGED vars
        BY <2>4 DEF vars, DInv, Kept
    <2> QED
        BY <2>1, <2>2, <2>3, <2>4 DEF Next
<1> QED
    BY <1>1, <1>2 DEF DInv

LEMMA DeleteImplies == DInv => ListSafe /\ NoUseAfterFree
<1> SUFFICES ASSUME DInv PROVE ListSafe /\ NoUseAfterFree
    OBVIOUS
<1>1. \A i \in 1..Len(list) : list[i] \in Animations
    BY ElementOfSeq DEF DInv, LInv, TypeOK
<1>2. ListSafe
    BY <1>1 DEF DInv, LInv, ListLive, ListSafe, Unique, In
<1>3. NoUseAfterFree
    BY DEF DInv, LInv, NoUseAfterFree, Uses, VisitsLive, StackOK, FramesLive, Using
<1> QED
    BY <1>2, <1>3

(* The list holds no animation twice and none that has been freed, if      *)
(* those deleted are kept alive (animation.c, mGEffAnimationDelete).       *)
THEOREM ListStaysSafe ==
    ASSUME Discipline, FALSE \notin Keepalive
    PROVE  Spec => []ListSafe
<1>1. Init => DInv
    BY DeleteInit
<1>2. DInv /\ [Next]_vars => DInv'
    BY DeleteNext
<1>3. DInv => ListSafe
    BY DeleteImplies
<1> QED
    BY <1>1, <1>2, <1>3, PTL DEF Spec

(* No active function goes on to use an animation that a callback has      *)
(* freed, even if finished_cb frees the animation it is called for: what   *)
(* is below it on the stack has done with the animation.                   *)
THEOREM NothingFreedIsUsed ==
    ASSUME Discipline, FALSE \notin Keepalive
    PROVE  Spec => []NoUseAfterFree
<1>1. Init => DInv
    BY DeleteInit
<1>2. DInv /\ [Next]_vars => DInv'
    BY DeleteNext
<1>3. DInv => NoUseAfterFree
    BY DeleteImplies
<1> QED
    BY <1>1, <1>2, <1>3, PTL DEF Spec
-----------------------------------------------------------------------------
(***************************************************************************)
(* The promise of Lifecycle, for an application that follows the rules     *)
(* stop_once and one_change.  One end is owed exactly while a run goes on, *)
(* and each active state change is one that the promise allows, although   *)
(* other calls of statechanged_cb may have come in between.  That the end  *)
(* of a run is reported only once depends on the animation not waiting for *)
(* being freed when setcurrenttime goes on after its callbacks.            *)
(***************************************************************************)
Going == {"READY", "RUNNING", "PAUSED"}
OwedIs ==
    \A a \in Animations :
        owed[a] = IF heap[a] = "live" /\ state[a] \in Going THEN 1 ELSE 0

Asked(s, i) == i > 1 /\ s[i - 1].at \in {"asyncadd", "syncadd"}

(* Frame i of s, which writes its animation's state, is such a change.     *)
Proper(s, i, st) ==
    /\ s[i].new \in Going \cup {"STOPPED"}
    /\ s[i].new = "STOPPED" => st[s[i].a] \in Going
    /\ s[i].new = "RUNNING" => st[s[i].a] = "READY"
    /\ s[i].new = "PAUSED" => st[s[i].a] \in {"READY", "RUNNING"}
    /\ s[i].new = "READY" /\ ~Asked(s, i) => st[s[i].a] \in {"READY", "PAUSED"}

AllProper(s, st) == \A i \in 1..Len(s) : s[i].at = "changing" => Proper(s, i, st)

(* An animation in the callbacks of its update is not waiting for being    *)
(* freed, and no stop that is on its way there makes it.                   *)
UpdateOK(s, st, k) ==
    /\ \A i \in 1..Len(s) : s[i].at = "update" => st[s[i].a] # "REMOVE"
    /\ \A i, j \in 1..Len(s) :
          (/\ s[i].at = "update" /\ s[j].at = "changing"
           /\ s[j].a = s[i].a /\ s[j].new = "STOPPED") => k[s[i].a]

(***************************************************************************)
(* The inductive invariant of KeepsPromise.                                *)
(***************************************************************************)
KInv ==
    /\ LInv
    /\ OwedIs
    /\ AllProper(stack, state)
    /\ UpdateOK(stack, state, keepalive)

LEMMA ProperPop ==
    ASSUME NEW s \in Seq(FrameType), s # << >>, NEW st, AllProper(s, st)
    PROVE  AllProper(Front(s), st)
<1> DEFINE t == Front(s)
<1>1. /\ Len(s) \in Nat \ {0} /\ Len(t) = Len(s) - 1
      /\ \A i \in 1..Len(t) : i \in 1..Len(s) /\ t[i] = s[i]
    BY PopFacts
<1> HIDE DEF t
<1>2. \A i \in 1..Len(t) : Asked(t, i) <=> Asked(s, i)
    BY <1>1 DEF Asked
<1>3. AllProper(t, st)
    BY <1>1, <1>2 DEF AllProper, Proper
<1> QED
    BY <1>3 DEF t

LEMMA ProperPush ==
    ASSUME NEW s \in Seq(FrameType), NEW st, AllProper(s, st), NEW f \in FrameType,
           f.at = "changing" =>
              /\ f.new \in Going \cup {"STOPPED"}
              /\ f.new = "STOPPED" => st[f.a] \in Going
              /\ f.new = "RUNNING" => st[f.a] = "READY"
              /\ f.new = "PAUSED" => st[f.a] \in {"READY", "RUNNING"}
              /\ f.new = "READY" => \/ st[f.a] \in {"READY", "PAUSED"}
                                    \/ s # << >> /\ s[Len(s)].at \in {"asyncadd", "syncadd"}
    PROVE  AllProper(Append(s, f), st)
<1> DEFINE t == Append(s, f)
           n == Len(s)
<1>1. /\ n \in Nat /\ Len(t) = n + 1 /\ t[n + 1] = f
      /\ \A i \in 1..n : i \in 1..Len(t) /\ t[i] = s[i]
      /\ \A i \in 1..Len(t) : i \in 1..n \/ i = n + 1
    BY PushFacts
<1>2. s # << >> => n > 0
    BY EmptySeq
<1> HIDE DEF t, n
<1>3. \A i \in 1..n : Asked(t, i) <=> Asked(s, i)
    BY <1>1 DEF Asked
<1>4. s # << >> /\ s[n].at \in {"asyncadd", "syncadd"} => Asked(t, n + 1)
    BY <1>1, <1>2 DEF Asked
<1>5. ASSUME NEW i \in 1..Len(t), t[i].at = "changing"
      PROVE  Proper(t, i, st)
    <2>1. CASE i \in 1..n
        BY <1>1, <1>3, <1>5, <2>1 DEF AllProper, Proper, n
    <2>2. CASE i = n + 1
        BY <1>1, <1>4, <1>5, <2>2 DEF Proper, n
    <2> QED
        BY <1>1, <2>1, <2>2
<1> QED
    BY <1>5 DEF AllProper, t

LEMMA ProperGoOn ==
    ASSUME stack \in Seq(FrameType), stack # << >>, NEW st, AllProper(stack, st),
           NEW f \in FrameType, f.at # "changing"
    PROVE  AllProper(GoOn(f), st)
<1> DEFINE t == GoOn(f)
           n == Len(stack)
<1>1. n \in Nat \ {0} /\ Len(t) = n /\ \A i \in 1..n : t[i] = IF i = n THEN f ELSE stack[i]
    BY GoOnTyped, EmptySeq
<1> HIDE DEF t, n
<1>2. \A i \in 1..n : Asked(t, i) <=> Asked(stack, i)
    BY <1>1 DEF Asked
<1>3. AllProper(t, st)
    BY <1>1, <1>2 DEF AllProper, Proper, n
<1> QED
    BY <1>3 DEF t

LEMMA ProperSetState ==
    ASSUME NEW s \in Seq(FrameType), AllProper(s, state), state \in [Animations -> States],
           NEW a \in Animations, NEW new \in Going \cup {"STOPPED"}, SetState(s, a, new),
           new = "STOPPED" => state[a] # "REMOVE",
           new = "RUNNING" => state[a] = "READY",
           new = "PAUSED" => state[a] \in {"READY", "RUNNING"},
           new = "READY" => \/ state[a] \in {"READY", "PAUSED"}
                            \/ s # << >> /\ s[Len(s)].at \in {"asyncadd", "syncadd"}
    PROVE  AllProper(stack', state)
<1> DEFINE f == Changing(a, new)
<1>1. f \in FrameType /\ f.a = a /\ f.new = new
    BY ChangingTyped DEF Changing, Frame, Going, States
<1> HIDE DEF f
<1>2. CASE state[a] = new
    BY <1>2 DEF SetState
<1>3. CASE state[a] # new
    <2>1. new = "STOPPED" => state[a] \in Going
        BY <1>3 DEF States, Going
    <2>2. AllProper(Append(s, f), state)
        BY <1>1, <2>1, ProperPush
    <2> QED
        BY <1>3, <2>2 DEF SetState, f
<1> QED
    BY <1>2, <1>3

(* Writing READY disturbs no change that is active below, and writing      *)
(* anything disturbs none of another animation.                            *)
LEMMA ProperWritten ==
    ASSUME NEW s \in Seq(FrameType), NEW st \in [Animations -> States], AllProper(s, st),
           NEW a, NEW new,
           new = "READY" \/ \A i \in 1..Len(s) : s[i].at = "changing" => s[i].a # a
    PROVE  AllProper(s, [st EXCEPT ![a] = new])
<1>1. \A i \in 1..Len(s) : s[i].at = "changing" => s[i].a \in Animations
    BY ElementOfSeq, HeadAssumption DEF FrameType, Nodes
<1> QED
    BY <1>1 DEF AllProper, Proper, Going

(* What StateChanged does to the state it writes and to what is owed.      *)
LEMMA WrittenIs ==
    ASSUME KInv, StateChanged
    PROVE  /\ Top.a \in Animations /\ heap' = heap /\ heap[Top.a] = "live"
           /\ \A b \in Animations : b # Top.a => state'[b] = state[b] /\ owed'[b] = owed[b]
           /\ state' = [state EXCEPT ![Top.a] = state'[Top.a]]
           /\ owed' = [owed EXCEPT ![Top.a] = owed'[Top.a]]
           /\ Top.new \in Going \cup {"STOPPED"}
           /\ Top.new = "STOPPED" => /\ state[Top.a] \in Going
                                     /\ state'[Top.a] =
                                            IF keepalive[Top.a] THEN "STOPPED" ELSE "REMOVE"
                                     /\ owed'[Top.a] = owed[Top.a] - 1
           /\ Top.new # "STOPPED" => state'[Top.a] = Top.new
           /\ Top.new = "RUNNING" => state[Top.a] = "READY" /\ owed'[Top.a] = owed[Top.a]
           /\ Top.new = "PAUSED" => /\ state[Top.a] \in {"READY", "RUNNING"}
                                    /\ owed'[Top.a] = owed[Top.a]
           /\ Top.new = "READY" => \/ owed'[Top.a] = 1
                                   \/ /\ state[Top.a] \in {"READY", "PAUSED"}
                                      /\ owed'[Top.a] = owed[Top.a]
<1> DEFINE a == Top.a
           n == Len(stack)
           asked == /\ Top.new = "READY"
                    /\ n > 1
                    /\ stack[n - 1].at \in {"asyncadd", "syncadd"}
<1>1. /\ stack \in Seq(FrameType) /\ stack # << >> /\ Top.at = "changing"
      /\ n \in 1..n /\ Top = stack[n]
    BY EmptySeq DEF KInv, LInv, TypeOK, StateChanged, TopIs, Top
<1>2. a \in Animations /\ Top.new \in States
    BY <1>1, TopTyped
<1>3. /\ heap' = heap
      /\ state' = [state EXCEPT ![a] = IF Top.new = "STOPPED" /\ ~keepalive[a]
                                       THEN "REMOVE" ELSE Top.new]
      /\ owed' = [owed EXCEPT ![a] = IF asked THEN 1
                                     ELSE IF Reports(a, Top.new) THEN owed[a] - 1 ELSE owed[a]]
    BY DEF StateChanged
<1>4. Proper(stack, n, state)
    BY <1>1 DEF KInv, AllProper
<1>5. Asked(stack, n) /\ Top.new = "READY" <=> asked
    BY DEF Asked
<1>6. heap[a] = "live"
    BY <1>1 DEF KInv, LInv, StackOK, FramesLive, Using
<1>7. owed[a] \in Int /\ state \in [Animations -> States] /\ owed \in [Animations -> Int]
    BY <1>2 DEF KInv, LInv, TypeOK
<1> HIDE DEF asked, n
<1>8. state'[a] = IF Top.new = "STOPPED" /\ ~keepalive[a] THEN "REMOVE" ELSE Top.new
    BY <1>2, <1>3, <1>7
<1>9. owed'[a] = IF asked THEN 1 ELSE IF Top.new = "STOPPED" THEN owed[a] - 1 ELSE owed[a]
    BY <1>2, <1>3, <1>7 DEF Reports
<1>10. \A b \in Animations : b # a => state'[b] = state[b] /\ owed'[b] = owed[b]
    BY <1>2, <1>3, <1>7
<1>11. /\ state' = [state EXCEPT ![a] = state'[a]]
       /\ owed' = [owed EXCEPT ![a] = owed'[a]]
    BY <1>2, <1>3, <1>7
<1>12. /\ Top.new \in Going \cup {"STOPPED"}
       /\ Top.new = "STOPPED" => state[a] \in Going
       /\ Top.new = "RUNNING" => state[a] = "READY"
       /\ Top.new = "PAUSED" => state[a] \in {"READY", "RUNNING"}
       /\ Top.new = "READY" /\ ~asked => state[a] \in {"READY", "PAUSED"}
    BY <1>1, <1>4, <1>5 DEF Proper
<1>13. asked => Top.new = "READY"
    BY DEF asked
<1> QED
    BY <1>2, <1>3, <1>6, <1>7, <1>8, <1>9, <1>10, <1>11, <1>12, <1>13

LEMMA PromiseLibrary ==
    ASSUME Follows("one_change"), KInv, Library
    PROVE  OwedIs' /\ AllProper(stack', state')
<1>0. /\ TypeOK /\ Stacked(stack) /\ StackOK(stack, list, heap)
      /\ stack \in Seq(FrameType) /\ list \in Seq(Animations)
      /\ OwedIs /\ AllProper(stack, state) /\ UpdateOK(stack, state, keepalive)
      /\ state \in [Animations -> States]
      /\ stack # << >> /\ Top = stack[Len(stack)]
    <2>1. stack # << >>
        BY DEF Library, StateChanged, Finished, Visit, VisitRunning, VisitReady,
               Started, UpdateDone, VisitPaused, VisitStopped, VisitRemove, NextNode, PassEnd,
               AsyncAdd, SyncAdd, SyncPass, WaitOver, TopIs
    <2> QED
        BY <2>1 DEF KInv, LInv, TypeOK, StackOK, Top
<1>1. Front(stack) \in Seq(FrameType) /\ AllProper(Front(stack), state)
    BY <1>0, FrontProperties, ProperPop
(* Where a frame goes on other than to write a state. *)
<1>2. ASSUME NEW at \in Ats \ {"changing"}, Top.a = ListHead => at = "visit",
             NEW g \in FrameType,
             \/ g = [Top EXCEPT !.at = at]
             \/ Top.a \in Animations /\ g = [Top EXCEPT !.at = at, !.found = @ \/ Top.a = Wanted]
      PROVE  GoOn(g) \in Seq(FrameType) /\ AllProper(GoOn(g), state)
    <2>1. g.at = at
        BY <1>0, <1>2, TopTyped DEF FrameType
    <2> QED
        BY <1>0, <2>1, ProperGoOn, GoOnTyped
<1>3. ASSUME NEW at \in Ats \ {"changing"}, Top.a \in Animations
      PROVE  /\ GoOnAt(at) \in Seq(FrameType) /\ AllProper(GoOnAt(at), state)
             /\ VisitedAt(at) \in Seq(FrameType) /\ AllProper(VisitedAt(at), state)
    <2>1. /\ [Top EXCEPT !.at = at] \in FrameType
          /\ [Top EXCEPT !.at = at, !.found = @ \/ Top.a = Wanted] \in FrameType
        BY <1>0, <1>3, GoOnAtTyped, VisitedTyped, HeadAssumption
    <2> QED
        BY <1>2, <1>3, <2>1, HeadAssumption DEF GoOnAt, VisitedAt
<1>4. CASE StateChanged
    <2>1. Top.at = "changing" /\ stack' \in {Front(stack), GoOnAt("finished")}
          /\ (stack' # Front(stack) => Top.new = "STOPPED")
        BY <1>4 DEF StateChanged, TopIs, Reports
    <2>2. OwedIs'
        <3>1. ASSUME NEW b \in Animations, b # Top.a
              PROVE  owed'[b] = IF heap'[b] = "live" /\ state'[b] \in Going THEN 1 ELSE 0
            BY <1>0, <1>4, <3>1, WrittenIs DEF OwedIs
        <3>2. owed'[Top.a] = IF heap'[Top.a] = "live" /\ state'[Top.a] \in Going THEN 1 ELSE 0
            <4>1. owed[Top.a] = IF state[Top.a] \in Going THEN 1 ELSE 0
                BY <1>0, <1>4, WrittenIs DEF OwedIs
            <4> QED
                BY <1>4, <4>1, WrittenIs DEF Going
        <3> QED
            BY <3>1, <3>2 DEF OwedIs
    <2>3. stack' \in Seq(FrameType) /\ AllProper(stack', state)
        <3>1. Top.a \in Animations /\ "finished" \in Ats \ {"changing"}
            BY <1>0, <2>1, TopTyped DEF Ats
        <3> QED
            BY <1>1, <1>3, <2>1, <3>1
    <2>4. \/ state'[Top.a] = "READY"
          \/ \A i \in 1..Len(stack') : stack'[i].at = "changing" => stack'[i].a # Top.a
        <3>1. CASE Top.new = "READY"
            BY <1>4, <3>1, WrittenIs
        <3>2. CASE Top.new # "READY"
            <4>1. \A i \in 1..Len(stack) :
                      i # Len(stack) /\ stack[i].at = "changing" => stack[i].a # Top.a
                BY <1>0, <2>1, <3>2, BelowTop DEF May
            <4>2. CASE stack' = Front(stack)
                <5>1. \A i \in 1..Len(stack') : /\ i \in 1..Len(stack) /\ i # Len(stack)
                                               /\ stack'[i] = stack[i]
                    BY <1>0, <4>2, PopFacts
                <5> QED
                    BY <4>1, <5>1
            <4>3. CASE stack' = GoOnAt("finished")
                <5> DEFINE f == [Top EXCEPT !.at = "finished"]
                <5>1. f \in FrameType /\ f.at = "finished"
                    BY <1>0, <2>1, GoOnAtTyped, TopTyped, HeadAssumption DEF Ats, FrameType
                <5> HIDE DEF f
                <5>2. stack' = GoOn(f)
                    BY <4>3 DEF GoOnAt, f
                <5> QED
                    BY <1>0, <4>1, <5>1, <5>2, GoOnTyped
            <4> QED
                BY <2>1, <4>2, <4>3
        <3> QED
            BY <3>1, <3>2
    <2>5. state' = [state EXCEPT ![Top.a] = state'[Top.a]]
        BY <1>4, WrittenIs
    <2> DEFINE new == state'[Top.a]
    <2> HIDE DEF new
    <2>6. AllProper(stack', [state EXCEPT ![Top.a] = new])
        BY <1>0, <2>3, <2>4, ProperWritten DEF new, TypeOK
    <2> QED
        BY <2>2, <2>5, <2>6 DEF new
<1>5. CASE Finished \/ WaitOver
    <2>1. /\ stack' = Front(stack) /\ state' = state /\ heap' = heap /\ owed' = owed
        BY <1>5 DEF Finished, WaitOver
    <2> QED
        BY <1>0, <1>1, <2>1 DEF OwedIs
<1>6. CASE VisitRunning \/ VisitPaused \/ VisitStopped \/ Started
    <2>1. state' = state /\ heap' = heap /\ owed' = owed /\ Top.a \in Animations
        BY <1>0, <1>6, TopTyped
        DEF VisitRunning, VisitPaused, VisitStopped, Started, Visit, TopIs, Nodes
    <2>2. \E at \in Ats \ {"changing"} : stack' \in {GoOnAt(at), VisitedAt(at)}
        BY <1>6 DEF VisitRunning, VisitPaused, VisitStopped, Started, Ats, PassAts
    <2> QED
        BY <1>0, <1>3, <2>1, <2>2 DEF OwedIs
<1>7. CASE VisitReady \/ UpdateDone
    <2>1. state' = state /\ heap' = heap /\ owed' = owed /\ Top.a \in Animations
        BY <1>0, <1>7, TopTyped DEF VisitReady, UpdateDone, Visit, TopIs, Nodes
    <2>2. \/ SetState(VisitedAt("started"), Top.a, "RUNNING") /\ state[Top.a] = "READY"
          \/ SetState(GoOnAt("next"), Top.a, "STOPPED") /\ state[Top.a] # "REMOVE"
          \/ stack' = GoOnAt("next")
        <3>1. CASE VisitReady
            BY <3>1 DEF VisitReady, Visit
        <3>2. CASE UpdateDone
            <4>1. Top.at = "update" /\ Len(stack) \in 1..Len(stack)
                BY <1>0, <3>2, EmptySeq DEF UpdateDone, TopIs
            <4>2. state[Top.a] # "REMOVE"
                BY <1>0, <4>1 DEF UpdateOK
            <4> QED
                BY <3>2, <4>2 DEF UpdateDone
        <3> QED
            BY <1>7, <3>1, <3>2
    <2>3. {"started", "next"} \subseteq Ats \ {"changing"}
        BY DEF Ats, PassAts
    <2>4. CASE SetState(VisitedAt("started"), Top.a, "RUNNING") /\ state[Top.a] = "READY"
        BY <1>0, <1>3, <2>1, <2>3, <2>4, ProperSetState DEF OwedIs, Going
    <2>5. CASE SetState(GoOnAt("next"), Top.a, "STOPPED") /\ state[Top.a] # "REMOVE"
        BY <1>0, <1>3, <2>1, <2>3, <2>5, ProperSetState DEF OwedIs
    <2>6. CASE stack' = GoOnAt("next")
        BY <1>0, <1>3, <2>1, <2>3, <2>6 DEF OwedIs
    <2> QED
        BY <2>2, <2>4, <2>5, <2>6
<1>8. CASE VisitRemove
    <2>1. /\ stack' = VisitedAt("next") /\ state' = state /\ Top.a \in Animations
          /\ heap' = [heap EXCEPT ![Top.a] = "freed"]
          /\ owed' = [owed EXCEPT ![Top.a] = 0]
        BY <1>0, <1>8, TopTyped DEF VisitRemove, Visit, TopIs, Nodes
    <2>2. OwedIs'
        BY <1>0, <2>1 DEF OwedIs, TypeOK
    <2> QED
        BY <1>3, <2>1, <2>2 DEF Ats, PassAts
<1>9. CASE NextNode
    <2> DEFINE nxt == IF Top.nxt = ListHead THEN ListHead ELSE Successor(Top.nxt)
               f == [Top EXCEPT !.at = "visit", !.a = Top.nxt, !.nxt = nxt]
    <2>1. nxt \in Nodes
        BY <1>0, <1>9, ListNodes DEF NextNode, Nodes
    <2>2. f \in FrameType
        BY <1>0, <2>1, TopTyped DEF FrameType, Ats, PassAts
    <2>3. f.at = "visit"
        BY <1>0, TopTyped DEF FrameType
    <2>4. stack' = GoOn(f) /\ state' = state /\ heap' = heap /\ owed' = owed
        BY <1>9 DEF NextNode
    <2> HIDE DEF f
    <2>5. AllProper(GoOn(f), state)
        BY <1>0, <2>2, <2>3, ProperGoOn
    <2> QED
        BY <1>0, <2>4, <2>5 DEF OwedIs
<1>10. CASE PassEnd
    <2>1. state' = state /\ heap' = heap /\ owed' = owed
        BY <1>10 DEF PassEnd
    <2>2. CASE stack' = Front(stack)
        BY <1>0, <1>1, <2>1, <2>2 DEF OwedIs
    <2>3. CASE stack' # Front(stack)
        <3>1. Len(stack) > 1 /\ stack' = Front(Front(stack))
            BY <1>10, <2>3 DEF PassEnd
        <3>2. Front(stack) # << >>
            BY <1>0, <1>1, <3>1, FrontProperties, EmptySeq
        <3> QED
            BY <1>0, <1>1, <2>1, <3>1, <3>2, ProperPop DEF OwedIs
    <2> QED
        BY <2>2, <2>3
<1>11. CASE AsyncAdd \/ SyncAdd
    <2>1. /\ state' = state /\ heap' = heap /\ owed' = owed /\ Top.a \in Animations
          /\ stack' \in {Front(stack), GoOnAt("syncloop")} /\ "syncloop" \in Ats \ {"changing"}
        BY <1>0, <1>11, TopTyped DEF AsyncAdd, SyncAdd, TopIs, Ats
    <2> QED
        BY <1>0, <1>1, <1>3, <2>1 DEF OwedIs
<1>12. CASE SyncPass
    <2>1. /\ state' = state /\ heap' = heap /\ owed' = owed
          /\ stack' = Append(stack, PassFrame)
        BY <1>12 DEF SyncPass
    <2>2. PassFrame \in FrameType /\ PassFrame.at = "visit"
        BY <1>0, PassFrameTyped DEF PassFrame, Frame
    <2>3. AllProper(stack', state)
        BY <1>0, <2>1, <2>2, ProperPush
    <2> QED
        BY <1>0, <2>1, <2>3 DEF OwedIs
<1> QED
    BY <1>4, <1>5, <1>6, <1>7, <1>8, <1>9, <1>10, <1>11, <1>12 DEF Library

LEMMA PromiseApplication ==
    ASSUME Follows("stop_once"), KInv, NEW a \in Animations,
           \/ AsyncRun(a) \/ SyncRun(a) \/ Wait(a) \/ Stop(a)
           \/ Pause(a) \/ Resume(a) \/ SetKeepalive(a) \/ Delete(a)
    PROVE  OwedIs' /\ AllProper(stack', state')
<1>0. /\ TypeOK /\ stack \in Seq(FrameType) /\ state \in [Animations -> States]
      /\ OwedIs /\ AllProper(stack, state)
    BY DEF KInv, LInv, TypeOK
<1>1. state' = state
    BY DEF AsyncRun, SyncRun, Wait, Stop, Pause, Resume, SetKeepalive, Delete
<1>2. OwedIs'
    <2>1. CASE Delete(a)
        <3>1. /\ heap' = [heap EXCEPT ![a] = "freed"]
              /\ owed' = [owed EXCEPT ![a] = 0]
            BY <2>1 DEF Delete
        <3> QED
            BY <1>0, <1>1, <3>1 DEF OwedIs, TypeOK
    <2>2. CASE ~Delete(a)
        <3>1. heap' = heap /\ owed' = owed
            BY <2>2 DEF AsyncRun, SyncRun, Wait, Stop, Pause, Resume, SetKeepalive
        <3> QED
            BY <1>0, <1>1, <3>1 DEF OwedIs
    <2> QED
        BY <2>1, <2>2
<1>3. ASSUME NEW at \in {"asyncadd", "syncadd", "waiting"}
      PROVE  /\ Append(stack, Frame(at, a)) \in Seq(FrameType)
             /\ AllProper(Append(stack, Frame(at, a)), state)
             /\ Append(stack, Frame(at, a)) # << >>
             /\ Append(stack, Frame(at, a))[Len(Append(stack, Frame(at, a)))].at = at
    <2> DEFINE f == Frame(at, a)
    <2>1. f \in FrameType /\ f.at = at
        BY FrameTyped, HeadAssumption DEF Ats, Nodes, Frame
    <2> HIDE DEF f
    <2>2. AllProper(Append(stack, f), state)
        BY <1>0, <2>1, ProperPush
    <2>3. /\ Append(stack, f) \in Seq(FrameType)
          /\ Len(Append(stack, f)) = Len(stack) + 1 /\ Len(stack) \in Nat
          /\ Append(stack, f)[Len(stack) + 1] = f
        BY <1>0, <2>1, PushFacts
    <2>4. Append(stack, f) # << >>
        BY <2>3, EmptySeq
    <2> QED
        BY <2>1, <2>2, <2>3, <2>4 DEF f
<1>4. AllProper(stack', state)
    <2>1. CASE AsyncRun(a) \/ SyncRun(a)
        <3>1. PICK at \in {"asyncadd", "syncadd"} :
                  SetState(Append(stack, Frame(at, a)), a, "READY")
            BY <2>1 DEF AsyncRun, SyncRun
        <3> DEFINE s == Append(stack, Frame(at, a))
        <3>2. /\ s \in Seq(FrameType) /\ AllProper(s, state) /\ s # << >>
              /\ s[Len(s)].at \in {"asyncadd", "syncadd"}
              /\ SetState(s, a, "READY")
            BY <1>3, <3>1
        <3> HIDE DEF s
        <3> QED
            BY <1>0, <3>2, ProperSetState DEF Going
    <2>2. CASE Stop(a)
        BY <1>0, <2>2, ProperSetState DEF Stop, StopsOnce
    <2>3. CASE Pause(a)
        BY <1>0, <2>3, ProperSetState DEF Pause, Going
    <2>4. CASE Resume(a)
        BY <1>0, <2>4, ProperSetState DEF Resume, Going
    <2>5. CASE Wait(a)
        BY <1>3, <2>5 DEF Wait
    <2>6. CASE SetKeepalive(a) \/ Delete(a)
        BY <1>0, <2>6 DEF SetKeepalive, Delete
    <2> QED
        BY <2>1, <2>2, <2>3, <2>4, <2>5, <2>6
<1> QED
    BY <1>1, <1>2, <1>4

(* What pushing, popping and replacing a frame does to UpdateOK. *)
LEMMA UpdatePop ==
    ASSUME NEW s \in Seq(FrameType), s # << >>, NEW st, NEW k, UpdateOK(s, st, k)
    PROVE  UpdateOK(Front(s), st, k)
<1> DEFINE t == Front(s)
<1>1. /\ Len(s) \in Nat \ {0} /\ Len(t) = Len(s) - 1
      /\ \A i \in 1..Len(t) : i \in 1..Len(s) /\ t[i] = s[i]
    BY PopFacts
<1> HIDE DEF t
<1>2. UpdateOK(t, st, k)
    BY <1>1 DEF UpdateOK
<1> QED
    BY <1>2 DEF t

LEMMA UpdatePush ==
    ASSUME NEW s \in Seq(FrameType), NEW st, NEW k, UpdateOK(s, st, k),
           NEW f \in FrameType, f.at # "update",
           f.at = "changing" /\ f.new = "STOPPED" =>
               \A i \in 1..Len(s) : s[i].at = "update" /\ s[i].a = f.a => k[f.a]
    PROVE  UpdateOK(Append(s, f), st, k)
<1> DEFINE t == Append(s, f)
           n == Len(s)
<1>1. /\ n \in Nat /\ Len(t) = n + 1 /\ t[n + 1] = f
      /\ \A i \in 1..n : i \in 1..Len(t) /\ t[i] = s[i]
      /\ \A i \in 1..Len(t) : i \in 1..n \/ i = n + 1
    BY PushFacts
<1> HIDE DEF t
<1>2. ASSUME NEW i \in 1..Len(t), t[i].at = "update"
      PROVE  i \in 1..n /\ t[i] = s[i]
    BY <1>1, <1>2
<1>3. ASSUME NEW i \in 1..Len(t), NEW j \in 1..Len(t), t[i].at = "update",
             t[j].at = "changing", t[j].a = t[i].a, t[j].new = "STOPPED"
      PROVE  k[t[i].a]
    <2>1. i \in 1..n /\ t[i] = s[i]
        BY <1>2, <1>3
    <2>2. CASE j \in 1..n
        BY <1>1, <1>3, <2>1, <2>2 DEF UpdateOK
    <2>3. CASE j = n + 1
        BY <1>1, <1>3, <2>1, <2>3
    <2> QED
        BY <1>1, <2>2, <2>3
<1>4. UpdateOK(t, st, k)
    BY <1>2, <1>3 DEF UpdateOK
<1> QED
    BY <1>4 DEF t

LEMMA UpdateGoOn ==
    ASSUME stack \in Seq(FrameType), stack # << >>, NEW st, NEW k, UpdateOK(stack, st, k),
           NEW f \in FrameType, f.at # "changing",
           f.at = "update" =>
               /\ st[f.a] # "REMOVE"
               /\ \A i \in 1..Len(stack) : i # Len(stack) => stack[i].at # "changing"
    PROVE  UpdateOK(GoOn(f), st, k)
<1> DEFINE t == GoOn(f)
           n == Len(stack)
<1>1. n \in Nat \ {0} /\ Len(t) = n /\ \A i \in 1..n : t[i] = IF i = n THEN f ELSE stack[i]
    BY GoOnTyped, EmptySeq
<1> HIDE DEF t
<1>2. UpdateOK(t, st, k)
    BY <1>1 DEF UpdateOK
<1> QED
    BY <1>2 DEF t

LEMMA UpdateSetState ==
    ASSUME NEW s \in Seq(FrameType), UpdateOK(s, state, keepalive),
           NEW a \in Animations, NEW new \in States, SetState(s, a, new),
           new = "STOPPED" =>
               \A i \in 1..Len(s) : s[i].at = "update" /\ s[i].a = a => keepalive[a]
    PROVE  UpdateOK(stack', state, keepalive)
<1> DEFINE f == Changing(a, new)
<1>1. f \in FrameType /\ f.a = a /\ f.new = new /\ f.at = "changing"
    BY ChangingTyped DEF Changing, Frame
<1> HIDE DEF f
<1>2. UpdateOK(Append(s, f), state, keepalive)
    BY <1>1, UpdatePush
<1> QED
    BY <1>2 DEF SetState, f

LEMMA KeepInit == Init => KInv
<1> SUFFICES ASSUME Init PROVE KInv
    OBVIOUS
<1>1. Len(stack) = 0
    BY EmptySeq DEF Init
<1>2. AllProper(stack, state) /\ UpdateOK(stack, state, keepalive) /\ OwedIs
    BY <1>1 DEF Init, AllProper, UpdateOK, OwedIs, Going
<1> QED
    BY <1>2, LifeInit DEF KInv

LEMMA UpdateLibrary ==
    ASSUME KInv, Library
    PROVE  UpdateOK(stack', state', keepalive')
<1>0. /\ Stacked(stack) /\ stack \in Seq(FrameType) /\ list \in Seq(Animations)
      /\ state \in [Animations -> States]
      /\ UpdateOK(stack, state, keepalive)
      /\ stack # << >> /\ Top = stack[Len(stack)] /\ Len(stack) \in 1..Len(stack)
    <2>1. stack # << >>
        BY DEF Library, StateChanged, Finished, Visit, VisitRunning, VisitReady,
               Started, UpdateDone, VisitPaused, VisitStopped, VisitRemove, NextNode, PassEnd,
               AsyncAdd, SyncAdd, SyncPass, WaitOver, TopIs
    <2> QED
        BY <2>1, EmptySeq DEF KInv, LInv, TypeOK, StackOK, Top
<1>1. Front(stack) \in Seq(FrameType) /\ UpdateOK(Front(stack), state, keepalive)
    BY <1>0, FrontProperties, UpdatePop
<1>2. IsPass(Top) => \A i \in 1..Len(stack) : i # Len(stack) => stack[i].at \in {"waiting", "syncloop"}
    BY <1>0, BelowTop DEF May
<1>3. keepalive' = keepalive
    BY DEF Library, StateChanged, Finished, VisitRunning, VisitReady,
           Started, UpdateDone, VisitPaused, VisitStopped, VisitRemove, NextNode, PassEnd,
           AsyncAdd, SyncAdd, SyncPass, WaitOver
(* Where a frame goes on other than to write a state. *)
<1>4. ASSUME NEW at \in Ats \ {"changing"}, Top.a \in Animations,
             at = "update" => IsPass(Top) /\ state[Top.a] = "RUNNING"
      PROVE  /\ GoOnAt(at) \in Seq(FrameType) /\ UpdateOK(GoOnAt(at), state, keepalive)
             /\ VisitedAt(at) \in Seq(FrameType) /\ UpdateOK(VisitedAt(at), state, keepalive)
    <2> DEFINE g == [Top EXCEPT !.at = at]
               h == [Top EXCEPT !.at = at, !.found = @ \/ Top.a = Wanted]
    <2>1. /\ g \in FrameType /\ h \in FrameType
          /\ g.at = at /\ h.at = at /\ g.a = Top.a /\ h.a = Top.a
        BY <1>0, <1>4, GoOnAtTyped, VisitedTyped, TopTyped, HeadAssumption DEF FrameType
    <2> HIDE DEF g, h
    <2>2. GoOn(g) \in Seq(FrameType) /\ UpdateOK(GoOn(g), state, keepalive)
        BY <1>0, <1>2, <1>4, <2>1, UpdateGoOn, GoOnTyped
    <2>3. GoOn(h) \in Seq(FrameType) /\ UpdateOK(GoOn(h), state, keepalive)
        BY <1>0, <1>2, <1>4, <2>1, UpdateGoOn, GoOnTyped
    <2> QED
        BY <2>2, <2>3 DEF GoOnAt, VisitedAt, g, h
<1>5. CASE StateChanged
    <2>1. Top.at = "changing" /\ stack' \in {Front(stack), GoOnAt("finished")} /\ Top.a \in Animations
        BY <1>0, <1>5, TopTyped DEF StateChanged, TopIs
    <2>2. stack' \in Seq(FrameType) /\ UpdateOK(stack', state, keepalive)
        BY <1>1, <1>4, <2>1 DEF Ats
    <2>3. ASSUME NEW i \in 1..Len(stack'), stack'[i].at = "update"
          PROVE  i \in 1..Len(stack) /\ stack[i] = stack'[i]
        <3>1. CASE stack' = Front(stack)
            BY <1>0, <2>3, <3>1, PopFacts
        <3>2. CASE stack' = GoOnAt("finished")
            <4> DEFINE f == [Top EXCEPT !.at = "finished"]
            <4>1. f \in FrameType /\ f.at = "finished"
                BY <1>0, <2>1, GoOnAtTyped, TopTyped, HeadAssumption DEF Ats, FrameType
            <4> HIDE DEF f
            <4>2. stack' = GoOn(f)
                BY <3>2 DEF GoOnAt, f
            <4> QED
                BY <1>0, <2>3, <4>1, <4>2, GoOnTyped
        <3> QED
            BY <2>1, <3>1, <3>2
    <2>4. ASSUME NEW i \in 1..Len(stack'), stack'[i].at = "update"
          PROVE  state'[stack'[i].a] # "REMOVE"
        <3>1. stack'[i].a \in Animations
            BY <2>2, <2>4, ElementOfSeq, HeadAssumption DEF FrameType, Nodes
        <3>2. CASE stack'[i].a # Top.a
            BY <1>5, <2>2, <2>4, <3>1, <3>2, WrittenIs DEF UpdateOK
        <3>3. CASE stack'[i].a = Top.a
            <4>1. i \in 1..Len(stack) /\ stack[i].at = "update" /\ stack[i].a = Top.a
                BY <2>3, <2>4, <3>3
            <4>2. Top.new = "STOPPED" => keepalive[Top.a]
                BY <1>0, <2>1, <4>1 DEF UpdateOK
            <4> QED
                BY <1>5, <3>3, <4>2, WrittenIs DEF Going
        <3> QED
            BY <3>2, <3>3
    <2> QED
        BY <1>3, <2>2, <2>4 DEF UpdateOK
<1>6. CASE ~StateChanged
    <2>0. state' = state
        BY <1>6 DEF Library, StateChanged, Finished, VisitRunning, VisitReady,
               Started, UpdateDone, VisitPaused, VisitStopped, VisitRemove, NextNode, PassEnd,
               AsyncAdd, SyncAdd, SyncPass, WaitOver
    <2>1. CASE Finished \/ WaitOver
        BY <1>1, <1>3, <2>0, <2>1 DEF Finished, WaitOver
    <2>2. CASE VisitRunning \/ VisitPaused \/ VisitStopped \/ VisitRemove \/ Started
        <3>1. Top.a \in Animations /\ IsPass(Top)
            BY <1>0, <2>2, TopTyped
            DEF VisitRunning, VisitPaused, VisitStopped, VisitRemove, Started, Visit, TopIs,
                Nodes, IsPass, PassAts
        <3>2. \E at \in Ats \ {"changing"} :
                  /\ at = "update" => state[Top.a] = "RUNNING"
                  /\ stack' \in {GoOnAt(at), VisitedAt(at)}
            BY <2>2 DEF VisitRunning, VisitPaused, VisitStopped, VisitRemove, Started, Visit,
                        Ats, PassAts
        <3> QED
            BY <1>3, <1>4, <2>0, <3>1, <3>2
    <2>3. CASE VisitReady \/ UpdateDone
        <3>1. Top.a \in Animations /\ IsPass(Top)
            BY <1>0, <2>3, TopTyped DEF VisitReady, UpdateDone, Visit, TopIs, Nodes, IsPass, PassAts
        <3>2. \/ SetState(VisitedAt("started"), Top.a, "RUNNING")
              \/ SetState(GoOnAt("next"), Top.a, "STOPPED")
              \/ stack' = GoOnAt("next")
            BY <2>3 DEF VisitReady, UpdateDone
        <3>3. {"started", "next"} \subseteq Ats \ {"changing", "update"}
            BY DEF Ats, PassAts
        <3>4. CASE SetState(VisitedAt("started"), Top.a, "RUNNING")
            BY <1>3, <1>4, <2>0, <3>1, <3>3, <3>4, UpdateSetState DEF States
        <3>5. CASE SetState(GoOnAt("next"), Top.a, "STOPPED")
            <4> DEFINE s == GoOnAt("next")
                       f == [Top EXCEPT !.at = "next"]
            <4>1. s \in Seq(FrameType) /\ UpdateOK(s, state, keepalive)
                BY <1>4, <3>1, <3>3
            <4>2. f \in FrameType /\ f.at = "next"
                BY <1>0, <3>1, GoOnAtTyped, TopTyped, HeadAssumption DEF Ats, PassAts, FrameType
            <4>3. \A i \in 1..Len(s) : s[i].at # "update"
                <5> HIDE DEF f
                <5>1. s = GoOn(f)
                    BY DEF GoOnAt, f
                <5>2. Len(s) = Len(stack) /\ \A i \in 1..Len(s) : s[i] = IF i = Len(stack) THEN f ELSE stack[i]
                    BY <1>0, <4>2, <5>1, GoOnTyped
                <5> QED
                    BY <1>2, <3>1, <4>2, <5>2
            <4>4. SetState(s, Top.a, "STOPPED") /\ "STOPPED" \in States
                BY <3>5 DEF States
            <4> HIDE DEF s
            <4> QED
                BY <1>3, <2>0, <3>1, <4>1, <4>3, <4>4, UpdateSetState
        <3>6. CASE stack' = GoOnAt("next")
            BY <1>3, <1>4, <2>0, <3>1, <3>3, <3>6
        <3> QED
            BY <3>2, <3>4, <3>5, <3>6
    <2>4. CASE NextNode
        <3> DEFINE nxt == IF Top.nxt = ListHead THEN ListHead ELSE Successor(Top.nxt)
                   f == [Top EXCEPT !.at = "visit", !.a = Top.nxt, !.nxt = nxt]
        <3>1. nxt \in Nodes
            BY <1>0, <2>4, ListNodes DEF NextNode, Nodes
        <3>2. f \in FrameType /\ f.at = "visit"
            BY <1>0, <3>1, TopTyped DEF FrameType, Ats, PassAts
        <3>3. stack' = GoOn(f)
            BY <2>4 DEF NextNode
        <3> HIDE DEF f
        <3> QED
            BY <1>0, <1>3, <2>0, <3>2, <3>3, UpdateGoOn
    <2>5. CASE PassEnd
        <3>1. CASE stack' = Front(stack)
            BY <1>1, <1>3, <2>0, <3>1
        <3>2. CASE stack' # Front(stack)
            <4>1. Len(stack) > 1 /\ stack' = Front(Front(stack))
                BY <2>5, <3>2 DEF PassEnd
            <4>2. Front(stack) # << >>
                BY <1>0, <1>1, <4>1, FrontProperties, EmptySeq
            <4> QED
                BY <1>1, <1>3, <2>0, <4>1, <4>2, UpdatePop
        <3> QED
            BY <3>1, <3>2
    <2>6. CASE AsyncAdd \/ SyncAdd
        <3>1. /\ Top.a \in Animations /\ "syncloop" \in Ats \ {"changing", "update"}
              /\ stack' \in {Front(stack), GoOnAt("syncloop")}
            BY <1>0, <2>6, TopTyped DEF AsyncAdd, SyncAdd, TopIs, Ats, PassAts
        <3> QED
            BY <1>1, <1>3, <1>4, <2>0, <3>1
    <2>7. CASE SyncPass
        <3>1. PassFrame \in FrameType /\ PassFrame.at = "visit" /\ stack' = Append(stack, PassFrame)
            BY <1>0, <2>7, PassFrameTyped DEF PassFrame, Frame, SyncPass
        <3> QED
            BY <1>0, <1>3, <2>0, <3>1, UpdatePush
    <2> QED
        BY <1>6, <2>1, <2>2, <2>3, <2>4, <2>5, <2>6, <2>7 DEF Library
<1> QED
    BY <1>5, <1>6

LEMMA UpdateApplication ==
    ASSUME Follows("stop_once"), KInv, NEW a \in Animations,
           \/ AsyncRun(a) \/ SyncRun(a) \/ Wait(a) \/ Stop(a)
           \/ Pause(a) \/ Resume(a) \/ SetKeepalive(a) \/ Delete(a)
    PROVE  UpdateOK(stack', state', keepalive')
<1>0. /\ stack \in Seq(FrameType) /\ state \in [Animations -> States]
      /\ keepalive \in [Animations -> BOOLEAN]
      /\ UpdateOK(stack, state, keepalive)
    BY DEF KInv, LInv, TypeOK
<1>1. state' = state
    BY DEF AsyncRun, SyncRun, Wait, Stop, Pause, Resume, SetKeepalive, Delete
<1>2. CASE SetKeepalive(a)
    <2>1. PICK k \in Keepalive :
              /\ k \/ ~Active("changing", a)
              /\ keepalive' = [keepalive EXCEPT ![a] = k]
              /\ stack' = stack
        BY <1>2 DEF SetKeepalive
    <2>2. ASSUME NEW i \in 1..Len(stack), NEW j \in 1..Len(stack), stack[i].at = "update",
                 stack[j].at = "changing", stack[j].a = stack[i].a, stack[j].new = "STOPPED"
          PROVE  keepalive'[stack[i].a]
        <3>1. keepalive[stack[i].a] /\ stack[i].a \in Animations
            BY <1>0, <2>2, ElementOfSeq, HeadAssumption DEF UpdateOK, FrameType, Nodes
        <3>2. CASE stack[i].a = a
            <4>1. Active("changing", a)
                BY <2>2, <3>2 DEF Active
            <4>2. k
                BY <2>1, <4>1
            <4>3. keepalive'[a] = k
                BY <1>0, <2>1
            <4>4. keepalive'[stack[i].a] = k
                BY <3>2, <4>3
            <4> QED
                BY <4>2, <4>4
        <3>3. CASE stack[i].a # a
            <4>1. keepalive'[stack[i].a] = keepalive[stack[i].a]
                BY <1>0, <2>1, <3>1, <3>3
            <4> QED
                BY <3>1, <4>1
        <3> QED
            BY <3>2, <3>3
    <2> QED
        BY <1>0, <1>1, <2>1, <2>2 DEF UpdateOK
<1>3. CASE ~SetKeepalive(a)
    <2>0. keepalive' = keepalive
        BY <1>3 DEF AsyncRun, SyncRun, Wait, Stop, Pause, Resume, Delete
    <2>1. ASSUME NEW at \in {"asyncadd", "syncadd", "waiting"}
          PROVE  /\ Append(stack, Frame(at, a)) \in Seq(FrameType)
                 /\ UpdateOK(Append(stack, Frame(at, a)), state, keepalive)
        <3> DEFINE f == Frame(at, a)
        <3>1. f \in FrameType /\ f.at = at
            BY FrameTyped, HeadAssumption DEF Ats, Nodes, Frame
        <3> HIDE DEF f
        <3>2. Append(stack, f) \in Seq(FrameType) /\ UpdateOK(Append(stack, f), state, keepalive)
            BY <1>0, <3>1, UpdatePush, PushFacts
        <3> QED
            BY <3>2 DEF f
    <2>2. CASE AsyncRun(a) \/ SyncRun(a)
        <3>1. PICK at \in {"asyncadd", "syncadd"} :
                  SetState(Append(stack, Frame(at, a)), a, "READY")
            BY <2>2 DEF AsyncRun, SyncRun
        <3>2. UpdateOK(stack', state, keepalive)
            BY <2>1, <3>1, UpdateSetState DEF States
        <3> QED
            BY <1>1, <2>0, <3>2
    <2>3. CASE Stop(a)
        <3>1. /\ SetState(stack, a, "STOPPED") /\ "STOPPED" \in States
              /\ Active("update", a) => keepalive[a]
            BY <2>3 DEF Stop, StopsOnce, States
        <3>2. \A i \in 1..Len(stack) : stack[i].at = "update" /\ stack[i].a = a => keepalive[a]
            BY <3>1 DEF Active
        <3> QED
            BY <1>0, <1>1, <2>0, <3>1, <3>2, UpdateSetState
    <2>4. CASE Pause(a) \/ Resume(a)
        <3>1. PICK new \in {"PAUSED", "READY"} : SetState(stack, a, new)
            BY <2>4 DEF Pause, Resume
        <3> QED
            BY <1>0, <1>1, <2>0, <3>1, UpdateSetState DEF States
    <2>5. CASE Wait(a)
        BY <1>1, <2>0, <2>1, <2>5 DEF Wait
    <2>6. CASE Delete(a)
        BY <1>0, <1>1, <2>0, <2>6 DEF Delete
    <2> QED
        BY <1>3, <2>2, <2>3, <2>4, <2>5, <2>6
<1> QED
    BY <1>2, <1>3

LEMMA UpdateNext ==
    ASSUME Follows("stop_once"), KInv, [Next]_vars
    PROVE  UpdateOK(stack', state', keepalive')
<1>1. CASE Library
    BY <1>1, UpdateLibrary
<1>2. CASE Application
    BY <1>2, UpdateApplication DEF Application
<1>3. CASE Timer
    <2>1. /\ UNCHANGED <<state, keepalive>> /\ stack' = Append(stack, PassFrame)
          /\ stack \in Seq(FrameType) /\ list \in Seq(Animations)
          /\ UpdateOK(stack, state, keepalive)
        BY <1>3 DEF Timer, KInv, LInv, TypeOK
    <2>2. PassFrame \in FrameType /\ PassFrame.at = "visit"
        BY <2>1, PassFrameTyped DEF PassFrame, Frame
    <2> QED
        BY <2>1, <2>2, UpdatePush
<1>4. CASE UNCHANGED vars
    BY <1>4 DEF vars, KInv
<1> QED
    BY <1>1, <1>2, <1>3, <1>4 DEF Next

LEMMA KeepNext ==
    ASSUME Discipline, Rules \subseteq Careful
    PROVE  KInv /\ [Next]_vars => KInv'
<1> SUFFICES ASSUME KInv, [Next]_vars PROVE KInv'
    OBVIOUS
<1>1. LInv'
    BY LifeNext DEF KInv
<1>2. OwedIs' /\ AllProper(stack', state')
    <2>0. Follows("stop_once") /\ Follows("one_change")
        BY DEF Follows, Rules
    <2>1. CASE Library
        BY <2>0, <2>1, PromiseLibrary
    <2>2. CASE Application
        BY <2>0, <2>2, PromiseApplication DEF Application
    <2>3. CASE Timer
        <3>1. /\ state' = state /\ heap' = heap /\ owed' = owed
              /\ stack' = Append(stack, PassFrame)
              /\ stack \in Seq(FrameType) /\ list \in Seq(Animations)
              /\ AllProper(stack, state) /\ OwedIs
            BY <2>3 DEF Timer, KInv, LInv, TypeOK
        <3>2. PassFrame \in FrameType /\ PassFrame.at = "visit"
            BY <3>1, PassFrameTyped DEF PassFrame, Frame
        <3>3. AllProper(stack', state)
            BY <3>1, <3>2, ProperPush
        <3> QED
            BY <3>1, <3>3 DEF OwedIs
    <2>4. CASE UNCHANGED vars
        BY <2>4 DEF vars, KInv, OwedIs
    <2> QED
        BY <2>1, <2>2, <2>3, <2>4 DEF Next
<1>3. UpdateOK(stack', state', keepalive')
    BY UpdateNext DEF Follows, Rules
<1> QED
    BY <1>1, <1>2, <1>3 DEF KInv

(* The refinement mapping. *)
phase == [a \in Animations |-> Phase(a)]

(* At most one animation changes its phase. *)
LEMMA OnePhase ==
    ASSUME NEW a \in Animations,
           \A b \in Animations : b # a => state'[b] = state[b] /\ heap'[b] = heap[b]
    PROVE  phase' = [phase EXCEPT ![a] = phase'[a]]
BY DEF phase, Phase

LEMMA PromiseInit == Init => Promise!Init
BY DEF Init, Promise!Init, Phase

LEMMA PromiseNext == KInv /\ [Next]_vars => [Promise!Next]_<<phase, owed>>
<1> SUFFICES ASSUME KInv, [Next]_vars PROVE [Promise!Next]_<<phase, owed>>
    OBVIOUS
<1>0. TypeOK /\ OwedIs
    BY DEF KInv, LInv
<1>1. ASSUME UNCHANGED <<heap, state, owed>>
      PROVE  UNCHANGED <<phase, owed>>
    BY <1>1 DEF phase, Phase
<1>2. CASE StateChanged
    <2>0. PICK a \in Animations : a = Top.a
        BY <1>2, WrittenIs
    <2>1. /\ a \in Animations /\ heap' = heap /\ heap[a] = "live"
          /\ \A b \in Animations : b # a => state'[b] = state[b]
          /\ owed' = [owed EXCEPT ![a] = owed'[a]]
        BY <1>2, <2>0, WrittenIs
    <2>2. phase' = [phase EXCEPT ![a] = phase'[a]]
        BY <2>1, OnePhase
    <2>3. /\ phase[a] = Phase(a)
          /\ phase'[a] = Phase(a)'
          /\ phase = [phase EXCEPT ![a] = phase[a]]
          /\ owed = [owed EXCEPT ![a] = owed[a]]
          /\ state[a] \in States
          /\ owed[a] \in Int
        BY <1>0, <2>1 DEF phase, TypeOK
    <2>4. owed[a] = IF state[a] \in Going THEN 1 ELSE 0
        BY <1>0, <2>1 DEF OwedIs
    <2>5. owed'[a] \in Int
        BY <1>0, <2>1, TypeNext DEF TypeOK
    <2>6. Phase(a) = CASE state[a] \in {"STOPPED", "REMOVE"} -> "over"
                       [] state[a] = "PAUSED" -> "held"
                       [] OTHER -> "going"
        BY <2>1 DEF Phase
    <2>7. Phase(a)' = CASE state'[a] \in {"STOPPED", "REMOVE"} -> "over"
                       [] state'[a] = "PAUSED" -> "held"
                       [] OTHER -> "going"
        BY <2>1 DEF Phase
    <2>8. CASE Top.new = "STOPPED"
        <3>1. /\ state[a] \in Going /\ state'[a] \in {"STOPPED", "REMOVE"}
              /\ owed'[a] = owed[a] - 1
            BY <1>2, <2>8, <2>0, WrittenIs
        <3>2. phase[a] \in {"going", "held"} /\ phase'[a] = "over" /\ owed[a] = 1
            BY <2>3, <2>4, <2>6, <2>7, <3>1 DEF Going
        <3>3. Promise!Report(a)
            BY <2>1, <2>2, <3>1, <3>2 DEF Promise!Report, Promise!Becomes, phase
        <3> QED
            BY <2>1, <3>3 DEF Promise!Next
    <2>9. CASE Top.new \in {"READY", "RUNNING"}
        <3>1. /\ state'[a] = Top.new
              /\ \/ Top.new = "READY" /\ owed'[a] = 1
                 \/ state[a] \in {"READY", "PAUSED"} /\ owed'[a] = owed[a]
            BY <1>2, <2>9, <2>0, WrittenIs
        <3>2. phase'[a] = "going"
            BY <2>3, <2>7, <2>9, <3>1
        <3>3. owed'[a] = 1
            BY <2>4, <3>1 DEF Going
        <3>4. phase[a] # "gone"
            BY <2>3, <2>6
        <3>5. Promise!Ask(a)
            BY <2>1, <2>2, <3>2, <3>3, <3>4 DEF Promise!Ask, Promise!Becomes, phase
        <3> QED
            BY <2>1, <3>5 DEF Promise!Next
    <2>10. CASE Top.new = "PAUSED"
        <3>1. /\ state'[a] = "PAUSED" /\ state[a] \in {"READY", "RUNNING"} /\ owed'[a] = owed[a]
            BY <1>2, <2>10, <2>0, WrittenIs
        <3>2. phase[a] = "going" /\ phase'[a] = "held" /\ owed' = owed
            BY <2>1, <2>3, <2>6, <2>7, <3>1
        <3>3. Promise!Hold(a)
            BY <2>1, <2>2, <3>2 DEF Promise!Hold, Promise!Becomes, phase
        <3> QED
            BY <2>1, <3>3 DEF Promise!Next
    <2> QED
        BY <1>2, <2>8, <2>9, <2>10, WrittenIs DEF Going
<1>3. ASSUME NEW a \in Animations, state' = state,
             heap' = [heap EXCEPT ![a] = "freed"], owed' = [owed EXCEPT ![a] = 0],
             heap[a] = "live"
      PROVE  [Promise!Next]_<<phase, owed>>
    <2>1. phase' = [phase EXCEPT ![a] = phase'[a]]
        BY <1>0, <1>3, OnePhase DEF TypeOK
    <2>2. phase'[a] = "gone" /\ phase[a] # "gone"
        BY <1>0, <1>3 DEF phase, Phase, TypeOK
    <2>3. Promise!Discard(a)
        BY <1>3, <2>1, <2>2 DEF Promise!Discard, Promise!Becomes, phase
    <2> QED
        BY <2>3 DEF Promise!Next
<1>4. CASE VisitRemove
    <2>1. Top.a \in Animations
        BY <1>0, <1>4, TopTyped DEF VisitRemove, Visit, TopIs, Nodes, TypeOK
    <2> QED
        BY <1>3, <1>4, <2>1 DEF VisitRemove, Visit
<1>5. CASE \E a \in Animations : Delete(a)
    BY <1>3, <1>5 DEF Delete, Call
<1>6. CASE UNCHANGED <<heap, state, owed>>
    BY <1>1, <1>6
<1>7. \/ StateChanged \/ VisitRemove
      \/ \E a \in Animations : Delete(a)
      \/ UNCHANGED <<heap, state, owed>>
    <2>1. CASE Library
        BY <2>1 DEF Library, Finished, VisitRunning, VisitReady,
               Started, UpdateDone, VisitPaused, VisitStopped, NextNode, PassEnd,
               AsyncAdd, SyncAdd, SyncPass, WaitOver
    <2>2. CASE Application
        BY <2>2 DEF Application, AsyncRun, SyncRun, Wait, Stop, Pause, Resume, SetKeepalive
    <2>3. CASE Timer \/ UNCHANGED vars
        BY <2>3 DEF Timer, vars
    <2> QED
        BY <2>1, <2>2, <2>3 DEF Next
<1> QED
    BY <1>2, <1>4, <1>5, <1>6, <1>7

(* The schedular keeps the promise of Lifecycle: each animation runs only  *)
(* when asked to and the end of every run is reported once, although Stop  *)
(* and setcurrenttime both come to __mgeffanimation_setstate (animation.c).*)
(* Without stop_once the end is reported again, without one_change a state *)
(* written in statechanged_cb is overwritten: TLC refutes the promise.     *)
THEOREM SchedularKeepsPromise ==
    ASSUME Discipline, Rules \subseteq Careful
    PROVE  Spec => KeepsPromise
<1>1. KInv /\ [Next]_vars => KInv'
    BY KeepNext
<1> QED
    BY <1>1, PromiseInit, PromiseNext, KeepInit, PTL
    DEF Spec, KeepsPromise, Promise!Spec, Promise!vars, phase
=============================================================================
