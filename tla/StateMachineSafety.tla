------------------------- MODULE StateMachineSafety -------------------------
(***************************************************************************)
(* Safety of StateMachine for every tree, table and set of callbacks:      *)
(* that no posted event is stranded always holds; that the configuration   *)
(* is right and no assertion fails holds when processEvent is not called   *)
(* from inside the message loop of another activation's callback.          *)
(***************************************************************************)
EXTENDS StateMachineProofs

\* Clients that only post their events, or whose callbacks run no message
\* loop.
NoReentry == DirectEvents = {} \/ (PumpOnLeave = {} /\ PumpOnAction = {})

\* PROCESSING says that one activation on the stack is an onEvent loop.
OneLoop ==
  /\ status = "PROCESSING" <=> \E i \in 1 .. depth : frames[i].drains
  /\ \A i, j \in 1 .. depth : frames[i].drains /\ frames[j].drains => i = j
  /\ \A i \in 1 .. depth : frames[i].phase = "loop" => frames[i].drains

\* The machine rests in a leaf.
Resting ==
  current \in State /\ Initial[current] = NoState /\ entered = Chain[current]

\* What each phase of an activation knows about the entered states.
Configured(f) ==
  /\ f.phase \in {"loop", "scan"} => Resting
  /\ f.phase = "loop" => f.drains /\ ~f.pump
  /\ f.phase \in {"scan", "leave"} =>
       /\ current \in State /\ f.from = current /\ f.host \in Chain[current]
       /\ f.drains \/ DirectEvents # {}
  /\ f.phase = "leave" =>
       LET K == Kept(f.host, f.target)
       IN /\ entered = K \cup f.toLeave /\ K \cap f.toLeave = {}
          /\ f.toLeave \subseteq Chain[current]
          /\ f.toEnter = Chain[f.target] \ K
  /\ f.phase = "enter" =>
       /\ entered \cup f.toEnter = Chain[f.target]
       /\ entered \cap f.toEnter = {}
       /\ f.target \in f.toEnter
  /\ f.pump => f.drains /\ DirectEvents = {}

\* Entered states are entered together with their ancestors.
Upward(S) == \A s \in S : Chain[s] \subseteq S

\* The invariant behind run to completion: there is at most one activation,
\* and it knows the entered states exactly.
Orderly ==
  /\ depth <= 1 /\ failed = "none"
  /\ status = "IDLE" => entered = {}
  /\ depth = 0 /\ status # "IDLE" => status = "RUNNING" /\ Resting
  /\ depth = 1 => /\ Configured(frames[1])
                  /\ frames[1].drains <=> status = "PROCESSING"
  /\ Upward(entered)

-----------------------------------------------------------------------------
(* How the steps rewrite the call stack. *)

LEMMA SetTopSteps ==
  ASSUME TypeOK, depth > 0, NEW f, SetTop(f)
  PROVE  /\ frames'[depth] = f
         /\ \A i \in 1 .. depth : i # depth => frames'[i] = frames[i]
<1>1. /\ depth \in 1 .. MaxNest /\ frames \in [1 .. MaxNest -> Frame]
      /\ MaxNest \in Nat
  BY Constants DEF TypeOK
<1> QED BY <1>1 DEF SetTop

LEMMA PushSteps ==
  ASSUME TypeOK, NEW f, Push(f)
  PROVE  /\ depth' = depth + 1 /\ depth' \in 1 .. MaxNest
         /\ frames'[depth + 1] = f
         /\ \A i \in 1 .. depth : frames'[i] = frames[i]
<1>1. /\ depth \in 0 .. MaxNest /\ frames \in [1 .. MaxNest -> Frame]
      /\ MaxNest \in Nat
  BY Constants DEF TypeOK
<1> QED BY <1>1 DEF Push

LEMMA PopSteps ==
  ASSUME TypeOK, depth > 0, Pop
  PROVE  /\ depth' = depth - 1
         /\ \A i \in 1 .. depth' : frames'[i] = frames[i]
<1>1. /\ depth \in 1 .. MaxNest /\ frames \in [1 .. MaxNest -> Frame]
      /\ MaxNest \in Nat
  BY Constants DEF TypeOK
<1> QED BY <1>1 DEF Pop

\* The top activation, for a step that only rewrites it.
LEMMA TopIs == ASSUME TypeOK, depth > 0 PROVE Top = frames[depth]
BY DEF Top, TypeOK

-----------------------------------------------------------------------------
(* No posted event is stranded. *)

LEMMA OneLoopRewrite ==
  ASSUME TypeOK, OneLoop, depth > 0, NEW f, SetTop(f), f.drains = Top.drains,
         f.phase = "loop" => f.drains, UNCHANGED <<status, depth>>
  PROVE  OneLoop'
<1>1. /\ frames'[depth] = f /\ Top = frames[depth]
      /\ \A i \in 1 .. depth : i # depth => frames'[i] = frames[i]
  BY SetTopSteps, TopIs
<1>2. \A i \in 1 .. depth : /\ frames'[i].drains = frames[i].drains
                            /\ frames'[i].phase = "loop" => frames'[i].drains
  BY <1>1 DEF OneLoop
<1> QED BY <1>2 DEF OneLoop

LEMMA OneLoopPush ==
  ASSUME TypeOK, OneLoop, NEW f, Push(f),
         IF f.drains THEN status # "PROCESSING" /\ status' = "PROCESSING"
         ELSE f.phase # "loop" /\ (status' = "PROCESSING" <=> status = "PROCESSING")
  PROVE  OneLoop'
<1>1. /\ depth' = depth + 1 /\ frames'[depth + 1] = f
      /\ \A i \in 1 .. depth : frames'[i] = frames[i]
      /\ depth \in Nat
  BY PushSteps DEF TypeOK
<1>2. CASE f.drains
  BY <1>1, <1>2 DEF OneLoop
<1>3. CASE ~f.drains
  BY <1>1, <1>3 DEF OneLoop
<1> QED BY <1>2, <1>3

LEMMA OneLoopPop ==
  ASSUME TypeOK, OneLoop, depth > 0, Pop,
         IF Top.drains THEN status' # "PROCESSING" ELSE status' = status
  PROVE  OneLoop'
<1>1. /\ depth' = depth - 1 /\ Top = frames[depth] /\ depth \in Nat
      /\ \A i \in 1 .. depth' : frames'[i] = frames[i]
  BY PopSteps, TopIs DEF TypeOK
<1>2. CASE Top.drains
  BY <1>1, <1>2 DEF OneLoop
<1>3. CASE ~Top.drains
  BY <1>1, <1>3 DEF OneLoop
<1> QED BY <1>2, <1>3

LEMMA OneLoopReturn ==
  ASSUME TypeOK, OneLoop, depth > 0, Return, status' = status
  PROVE  OneLoop'
<1>1. CASE Top.drains
  <2>1. Draining.drains
    BY DEF Draining, Activation
  <2> QED BY <1>1, <2>1, OneLoopRewrite DEF Return
<1>2. CASE ~Top.drains
  BY <1>2, OneLoopPop DEF Return
<1> QED BY <1>1, <1>2

\* OneLoop is kept by every step.
LEMMA OneLoopNext == TypeInv /\ OneLoop /\ [Next]_vars => OneLoop'
<1> SUFFICES ASSUME TypeInv, OneLoop, [Next]_vars PROVE OneLoop'
  OBVIOUS
<1>1. TypeOK /\ Top \in Frame
  BY TopType DEF TypeInv
<1>2. CASE UNCHANGED vars
  BY <1>2 DEF vars, OneLoop
<1>3. CASE Start
  <2> DEFINE f == Activation(FALSE, NoEvent, "enter", Root, {Root})
  <2>1. ~f.drains /\ f.phase = "enter"
    BY DEF Activation
  <2>2. Push(f) /\ status' = "RUNNING" /\ status = "IDLE"
    BY <1>3 DEF Start
  <2> HIDE DEF f
  <2> QED BY <1>1, <2>1, <2>2, OneLoopPush
<1>4. ASSUME NEW e \in Event, PostEvent(e) PROVE OneLoop'
  BY <1>4 DEF PostEvent, OneLoop
<1>5. CASE OnEvent
  <2>1. CASE UNCHANGED <<status, depth, frames>>
    BY <2>1 DEF OneLoop
  <2>2. CASE status # "PROCESSING" /\ status' = "PROCESSING" /\ Push(Draining)
    BY <1>1, <2>2, OneLoopPush DEF Draining, Activation
  <2> QED BY <1>5, <2>1, <2>2 DEF OnEvent
<1>6. ASSUME NEW e, ProcessEvent(e) PROVE OneLoop'
  <2>1. ~Scanning(FALSE, e).drains /\ Scanning(FALSE, e).phase = "scan"
    BY DEF Scanning, Activation
  <2> QED BY <1>1, <1>6, <2>1, OneLoopPush DEF ProcessEvent
<1>7. CASE LoopTake
  <2>1. /\ depth > 0 /\ Top.drains
        /\ SetTop(Scanning(TRUE, Head(events))) /\ UNCHANGED <<status, depth>>
    <3>1. depth > 0 /\ Top.phase = "loop" /\ Top = frames[depth] /\ depth \in Nat
      BY <1>1, <1>7, TopIs DEF LoopTake, Running, TypeOK
    <3>2. Top.drains
      BY <3>1 DEF OneLoop
    <3> QED BY <1>7, <3>1, <3>2 DEF LoopTake
  <2>2. Scanning(TRUE, Head(events)).drains
    BY DEF Scanning, Activation
  <2> QED BY <1>1, <2>1, <2>2, OneLoopRewrite
<1>8. CASE LoopEnd
  <2>1. depth > 0 /\ Top.phase = "loop" /\ Top = frames[depth] /\ depth \in Nat
    BY <1>1, <1>8, TopIs DEF LoopEnd, Running, TypeOK
  <2>2. Top.drains
    BY <2>1 DEF OneLoop
  <2> QED BY <1>1, <1>8, <2>1, <2>2, OneLoopPop DEF LoopEnd
<1>9. CASE ScanEnd \/ \E s \in State : EnterLeaf(s)
  <2>1. depth > 0 /\ Return /\ status' = status
    BY <1>9 DEF ScanEnd, EnterLeaf, Enters, Running
  <2> QED BY <1>1, <2>1, OneLoopReturn
<1>10. ASSUME NEW f, SetTop(f), f.drains = Top.drains, f.phase # "loop",
              UNCHANGED <<status, depth>>, depth > 0
       PROVE  OneLoop'
  BY <1>1, <1>10, OneLoopRewrite
<1>11. CASE ScanMiss
  BY <1>1, <1>10, <1>11 DEF ScanMiss, Testing, Running, Frame
<1>12. CASE ScanTargetless
  BY <1>1, <1>10, <1>12 DEF ScanTargetless, Testing, Running, Frame
<1>13. CASE ScanHit
  BY <1>1, <1>10, <1>13 DEF ScanHit, Testing, Running, Frame
<1>14. CASE ScanUp
  BY <1>1, <1>10, <1>14 DEF ScanUp, Running, Frame
<1>15. ASSUME NEW s \in State, LeaveState(s) PROVE OneLoop'
  BY <1>1, <1>10, <1>15 DEF LeaveState, Running, Frame
<1>16. CASE TakeAction
  BY <1>1, <1>10, <1>16 DEF TakeAction, Running, Frame
<1>17. ASSUME NEW s \in State, EnterAncestor(s) \/ EnterAndJump(s) PROVE OneLoop'
  BY <1>1, <1>10, <1>17 DEF EnterAncestor, EnterAndJump, Enters, Running, Frame
<1>18. CASE CallbackReturns
  <2>1. depth > 0 /\ Top = frames[depth] /\ depth \in Nat
    BY <1>1, <1>18, TopIs DEF CallbackReturns, TypeOK
  <2>2. Top.phase = "loop" => Top.drains
    BY <2>1 DEF OneLoop
  <2> QED BY <1>1, <1>18, <2>1, <2>2, OneLoopRewrite DEF CallbackReturns, Frame
<1> QED
  BY <1>2, <1>3, <1>4, <1>5, <1>6, <1>7, <1>8, <1>9, <1>11, <1>12, <1>13, <1>14,
     <1>15, <1>16, <1>17, <1>18 DEF Next, Step

LEMMA TypeInvHolds == Spec => []TypeInv
<1>1. TypeInv /\ [Next]_vars => TypeInv'
  BY TypeNext
<1> QED BY <1>1, TypeInit, PTL DEF Spec

LEMMA OneLoopHolds == Spec => []OneLoop
<1>1. Init => OneLoop
  BY DEF Init, OneLoop
<1> QED BY <1>1, TypeInvHolds, OneLoopNext, PTL DEF Spec

\* A posted event never waits with no notice on its way and no onEvent loop
\* to drain the queue, however nested message loops consume the notices.
THEOREM NoStrandedEventHolds == Spec => []NoStrandedEvent
<1> DEFINE Inv == events # <<>> => notices > 0 \/ status = "PROCESSING"
<1>1. Init => Inv
  BY DEF Init
<1>2. TypeOK /\ Inv /\ [Next]_vars => Inv'
  <2> SUFFICES ASSUME TypeOK, Inv, [Next]_vars PROVE Inv'
    OBVIOUS
  <2>1. CASE UNCHANGED vars
    BY <2>1 DEF vars
  <2>2. CASE Start
    BY <2>2 DEF Start
  <2>3. ASSUME NEW e \in Event, PostEvent(e) PROVE Inv'
    BY <2>3 DEF PostEvent, TypeOK
  <2>4. CASE OnEvent
    BY <2>4 DEF OnEvent
  <2>5. ASSUME NEW e, ProcessEvent(e) PROVE Inv'
    BY <2>5 DEF ProcessEvent
  <2>6. CASE LoopTake
    <3>1. events # <<>> /\ status' = status /\ notices' = notices
      BY <2>6 DEF LoopTake
    <3> QED BY <3>1
  <2>7. CASE LoopEnd
    BY <2>7 DEF LoopEnd
  <2>8. CASE UNCHANGED <<status, events, notices>>
    BY <2>8
  <2>9. CASE Step \/ CallbackReturns
    BY <2>6, <2>7, <2>8, <2>9
       DEF Step, ScanMiss, ScanTargetless, ScanHit, ScanUp, ScanEnd, LeaveState,
           TakeAction, EnterAncestor, EnterAndJump, EnterLeaf, CallbackReturns
  <2> QED BY <2>1, <2>2, <2>3, <2>4, <2>5, <2>9 DEF Next
<1>3. Inv /\ OneLoop => NoStrandedEvent
  BY DEF OneLoop, NoStrandedEvent
<1>4. TypeInv => TypeOK
  BY DEF TypeInv
<1> QED BY <1>1, <1>2, <1>3, <1>4, TypeInvHolds, OneLoopHolds, PTL DEF Spec

-----------------------------------------------------------------------------
(* The tree. *)

LEMMA ChainFacts ==
  ASSUME NEW s \in State
  PROVE  /\ s \in Chain[s] /\ Root \in Chain[s] /\ Chain[s] \subseteq State
         /\ \A a \in Chain[s] : /\ Chain[a] \subseteq Chain[s]
                                /\ s \in Chain[a] => s = a
         /\ \A a, b \in Chain[s] : a \in Chain[b] \/ b \in Chain[a]
         /\ s # Root => /\ Parent[s] \in State
                        /\ Chain[s] = {s} \cup Chain[Parent[s]]
                        /\ s \notin Chain[Parent[s]]
         /\ Initial[s] # NoState =>
              /\ Initial[s] \in State
              /\ Chain[Initial[s]] = {Initial[s]} \cup Chain[s]
              /\ Initial[s] \notin Chain[s]
BY StateMachineAssumption DEF StateMachineAssumption, TreeAssumption

\* The states a transition leaves entered are closed under parents.
LEMMA KeptFacts ==
  ASSUME NEW h \in State, NEW t \in State
  PROVE  /\ Kept(h, t) \subseteq Chain[h] /\ Kept(h, t) \subseteq Chain[t]
         /\ h \notin Kept(h, t) /\ t \notin Kept(h, t)
         /\ Upward(Kept(h, t))
<1>1. /\ Kept(h, t) \subseteq Chain[h] /\ Kept(h, t) \subseteq Chain[t]
      /\ h \notin Kept(h, t) /\ t \notin Kept(h, t)
  BY DEF Kept, ProperAncestors
<1>2. ASSUME NEW s \in Kept(h, t), NEW a \in Chain[s] PROVE a \in Kept(h, t)
  <2>1. s \in Chain[h] /\ s # h /\ s \in Chain[t] /\ s # t /\ s \in State
    BY <1>1, <1>2, ChainFacts
  <2>2. a \in Chain[h] /\ a \in Chain[t]
    BY <1>2, <2>1, ChainFacts
  <2>3. a # h /\ a # t
    BY <1>2, <2>1, ChainFacts
  <2> QED BY <2>2, <2>3 DEF Kept, ProperAncestors
<1> QED BY <1>1, <1>2 DEF Upward

LEMMA LeafUpward == ASSUME NEW s \in State PROVE Upward(Chain[s])
BY ChainFacts DEF Upward

-----------------------------------------------------------------------------
(* Run to completion. *)

LEMMA Inside ==
  ASSUME TypeInv, Orderly, depth > 0
  PROVE  /\ depth = 1 /\ Top = frames[1] /\ Top \in Frame
         /\ Configured(Top) /\ status # "IDLE"
         /\ Top.drains <=> status = "PROCESSING"
<1>1. depth = 1
  BY DEF TypeInv, TypeOK, Orderly
<1> QED BY <1>1, TopType, NotIdle DEF Top, Orderly, TypeInv

LEMMA InsideLoop ==
  ASSUME TypeInv, Orderly, InMessageLoop
  PROVE  \/ depth = 0 /\ status = "RUNNING" /\ Resting
         \/ depth = 1 /\ status = "PROCESSING" /\ DirectEvents = {}
<1>1. CASE depth = 0
  BY <1>1 DEF InMessageLoop, Orderly
<1>2. CASE Top.pump /\ depth # 0
  <2>1. depth > 0
    BY <1>2 DEF TypeInv, TypeOK
  <2>2. Top.drains /\ DirectEvents = {}
    BY <1>2, <2>1, Inside DEF Configured
  <2> QED BY <2>1, <2>2, Inside
<1> QED BY <1>1, <1>2 DEF InMessageLoop

\* The step rewrites the activation and leaves it as its phase demands.
LEMMA OrderlyRewrite ==
  ASSUME TypeInv, Orderly, depth > 0, NEW f, SetTop(f), f.drains = Top.drains,
         UNCHANGED <<status, depth>>, failed' = "none",
         frames'[1] = f => Configured(frames[1])', Upward(entered')
  PROVE  Orderly'
<1>1. /\ depth = 1 /\ Top = frames[1] /\ status # "IDLE"
      /\ Top.drains <=> status = "PROCESSING"
  BY Inside
<1>2. frames'[1] = f
  BY <1>1, SetTopSteps DEF TypeInv
<1> QED BY <1>1, <1>2 DEF Orderly

LEMMA OrderlyPush ==
  ASSUME TypeInv, depth = 0, NEW f, Push(f), status' # "IDLE",
         f.drains <=> status' = "PROCESSING", failed' = "none",
         frames'[1] = f => Configured(frames[1])', Upward(entered')
  PROVE  Orderly'
<1>1. depth' = 1 /\ frames'[1] = f
  BY PushSteps DEF TypeInv
<1> QED BY <1>1 DEF Orderly

\* The step ends processEvent in a leaf.
LEMMA OrderlyReturn ==
  ASSUME TypeInv, Orderly, depth > 0, Return, UNCHANGED status,
         failed' = "none", Resting'
  PROVE  Orderly'
<1>1. /\ depth = 1 /\ Top = frames[1] /\ status # "IDLE"
      /\ Top.drains <=> status = "PROCESSING"
  BY Inside
<1>2. Upward(entered')
  BY LeafUpward DEF Resting
<1>3. CASE Top.drains
  <2>1. SetTop(Draining) /\ UNCHANGED depth
    BY <1>3 DEF Return
  <2>2. frames'[1] = Draining
    BY <1>1, <2>1, SetTopSteps DEF TypeInv
  <2>3. Configured(frames[1])'
    BY <2>2 DEF Configured, Draining, Activation
  <2>4. Draining.drains
    BY DEF Draining, Activation
  <2> QED BY <1>1, <1>2, <1>3, <2>1, <2>2, <2>3, <2>4 DEF Orderly
<1>4. CASE ~Top.drains
  <2>1. depth' = 0
    BY <1>1, <1>4, PopSteps DEF Return, TypeInv
  <2>2. status = "RUNNING"
    BY <1>1, <1>4 DEF TypeInv, TypeOK
  <2> QED BY <1>1, <1>2, <2>1, <2>2 DEF Orderly
<1> QED BY <1>3, <1>4

LEMMA OrderlyInit == Init => Orderly
BY DEF Init, Orderly, Upward

LEMMA OrderlyStart == TypeInv /\ Orderly /\ Start => Orderly'
<1> SUFFICES ASSUME TypeInv, Orderly, Start PROVE Orderly'
  OBVIOUS
<1> DEFINE f == Activation(FALSE, NoEvent, "enter", Root, {Root})
<1>1. /\ ~f.drains /\ ~f.pump /\ f.phase = "enter"
      /\ f.target = Root /\ f.toEnter = {Root}
  BY DEF Activation
<1>2. /\ Push(f) /\ depth = 0 /\ entered = {} /\ entered' = {}
      /\ status' = "RUNNING" /\ failed' = "none"
  BY DEF Start, TypeInv, Started, Orderly
<1>3. Chain[Root] = {Root}
  BY StateMachineAssumption DEF StateMachineAssumption, TreeAssumption
<1> HIDE DEF f
<1>4. frames'[1] = f => Configured(frames[1])'
  BY <1>1, <1>2, <1>3 DEF Configured
<1>5. Upward(entered')
  BY <1>2 DEF Upward
<1> QED BY <1>1, <1>2, <1>4, <1>5, OrderlyPush

LEMMA OrderlyPost ==
  TypeInv /\ Orderly /\ (\E e \in Event \ DirectEvents : PostEvent(e)) => Orderly'
BY DEF PostEvent, Orderly, Configured, Resting

LEMMA OrderlyOnEvent == TypeInv /\ Orderly /\ OnEvent => Orderly'
<1> SUFFICES ASSUME TypeInv, Orderly, OnEvent PROVE Orderly'
  OBVIOUS
<1>1. UNCHANGED <<current, entered, failed>> /\ failed = "none" /\ InMessageLoop
  BY DEF OnEvent, Orderly
<1>2. CASE UNCHANGED <<status, depth, frames>>
  BY <1>1, <1>2 DEF Orderly, Configured, Resting
<1>3. CASE status # "PROCESSING" /\ status' = "PROCESSING" /\ Push(Draining)
  <2>1. depth = 0 /\ Resting
    BY <1>1, <1>3, InsideLoop
  <2>2. Draining.drains /\ Draining.phase = "loop" /\ ~Draining.pump
    BY DEF Draining, Activation
  <2>3. frames'[1] = Draining => Configured(frames[1])'
    BY <1>1, <2>1, <2>2 DEF Configured, Resting
  <2>4. Upward(entered')
    BY <1>1 DEF Orderly
  <2> QED BY <1>1, <1>3, <2>1, <2>2, <2>3, <2>4, OrderlyPush
<1> QED BY <1>2, <1>3 DEF OnEvent

LEMMA OrderlyProcessEvent ==
  TypeInv /\ Orderly /\ (\E e \in DirectEvents : ProcessEvent(e)) => Orderly'
<1> SUFFICES ASSUME TypeInv, Orderly, NEW e \in DirectEvents, ProcessEvent(e)
             PROVE Orderly'
  OBVIOUS
<1> DEFINE f == Scanning(FALSE, e)
<1>1. /\ UNCHANGED <<status, current, entered, failed>> /\ failed = "none"
      /\ InMessageLoop /\ Push(f)
  BY DEF ProcessEvent, Orderly
<1>2. depth = 0 /\ Resting /\ status = "RUNNING"
  BY <1>1, InsideLoop
<1>3. /\ ~f.drains /\ f.phase = "scan" /\ ~f.pump
      /\ f.from = current /\ f.host = current
  BY DEF Scanning, Activation
<1> HIDE DEF f
<1>4. current \in Chain[current]
  BY <1>2, ChainFacts DEF Resting
<1>5. frames'[1] = f => Configured(frames[1])'
  BY <1>1, <1>2, <1>3, <1>4 DEF Configured, Resting
<1>6. Upward(entered')
  BY <1>1 DEF Orderly
<1> QED BY <1>1, <1>2, <1>3, <1>5, <1>6, OrderlyPush

LEMMA OrderlyLoop == TypeInv /\ Orderly /\ (LoopTake \/ LoopEnd) => Orderly'
<1> SUFFICES ASSUME TypeInv, Orderly, LoopTake \/ LoopEnd PROVE Orderly'
  OBVIOUS
<1>1. /\ UNCHANGED <<current, entered, failed>> /\ failed = "none"
      /\ depth > 0 /\ Top.phase = "loop"
  BY DEF LoopTake, LoopEnd, Running, Orderly
<1>2. Resting /\ Top.drains /\ depth = 1
  BY <1>1, Inside DEF Configured
<1>3. Upward(entered')
  BY <1>1 DEF Orderly
<1>4. CASE LoopTake
  <2> DEFINE f == Scanning(TRUE, Head(events))
  <2>1. /\ f.drains /\ f.phase = "scan" /\ ~f.pump
        /\ f.from = current /\ f.host = current
    BY DEF Scanning, Activation
  <2>2. SetTop(f) /\ UNCHANGED <<status, depth>>
    BY <1>4 DEF LoopTake
  <2> HIDE DEF f
  <2>3. current \in Chain[current]
    BY <1>2, ChainFacts DEF Resting
  <2>4. frames'[1] = f => Configured(frames[1])'
    BY <1>1, <1>2, <2>1, <2>3 DEF Configured, Resting
  <2> QED BY <1>1, <1>2, <1>3, <2>1, <2>2, <2>4, OrderlyRewrite
<1>5. CASE LoopEnd
  <2>1. depth' = 0 /\ status' = "RUNNING"
    BY <1>2, <1>5 DEF LoopEnd, Pop
  <2> QED BY <1>1, <1>2, <1>3, <2>1 DEF Orderly, Resting
<1> QED BY <1>4, <1>5

LEMMA OrderlyScan ==
  ASSUME NoReentry
  PROVE  TypeInv /\ Orderly
           /\ (ScanMiss \/ ScanTargetless \/ ScanHit \/ ScanUp \/ ScanEnd)
         => Orderly'
<1> SUFFICES ASSUME TypeInv, Orderly,
                    ScanMiss \/ ScanTargetless \/ ScanHit \/ ScanUp \/ ScanEnd
             PROVE  Orderly'
  OBVIOUS
<1>1. /\ UNCHANGED <<status, current, entered, failed>> /\ failed = "none"
      /\ depth > 0 /\ Top.phase = "scan" /\ ~Top.pump
  BY DEF ScanMiss, ScanTargetless, ScanHit, ScanUp, ScanEnd, Testing, Running,
         Orderly
<1>2. /\ Resting /\ depth = 1 /\ Top \in Frame /\ Configured(Top)
      /\ current \in State /\ Top.from = current /\ Top.host \in Chain[current]
      /\ Top.drains \/ DirectEvents # {}
  BY <1>1, Inside DEF Configured
<1>3. Upward(entered')
  BY <1>1 DEF Orderly
<1>4. ASSUME NEW f \in Frame, SetTop(f), f.drains = Top.drains, UNCHANGED depth,
             f.phase = "scan", f.from = Top.from, f.host \in Chain[current],
             f.pump => f.drains /\ DirectEvents = {}
      PROVE  Orderly'
  <2>1. frames'[1] = f => Configured(frames[1])'
    BY <1>1, <1>2, <1>4 DEF Configured, Resting
  <2> QED BY <1>1, <1>2, <1>3, <1>4, <2>1, OrderlyRewrite
<1>5. CASE ScanMiss
  <2> DEFINE f == [Top EXCEPT !.index = @ + 1]
  <2>1. f \in Frame
    BY <1>2 DEF Frame
  <2>2. /\ f.drains = Top.drains /\ f.phase = Top.phase /\ f.from = Top.from
        /\ f.host = Top.host /\ f.pump = Top.pump
    BY <1>2 DEF Frame
  <2>3. SetTop(f) /\ UNCHANGED depth
    BY <1>5 DEF ScanMiss
  <2> HIDE DEF f
  <2> QED BY <1>1, <1>2, <1>4, <2>1, <2>2, <2>3
<1>6. CASE ScanTargetless
  <2> DEFINE b == <<Top.event, Tested>> \in PumpOnAction
             n == Top.index + 1
             f == [Top EXCEPT !.index = n, !.pump = b]
  <2>1. SetTop(f) /\ UNCHANGED depth /\ n \in Nat \ {0}
    BY <1>2, <1>6 DEF ScanTargetless, Frame
  <2>2. b \in BOOLEAN /\ (b => DirectEvents = {})
    BY DEF NoReentry
  <2> HIDE DEF b, n
  <2>3. f \in Frame
    BY <1>2, <2>1, <2>2 DEF Frame
  <2>4. /\ f.drains = Top.drains /\ f.phase = Top.phase /\ f.from = Top.from
        /\ f.host = Top.host /\ f.pump = b
    BY <1>2 DEF Frame
  <2> HIDE DEF f
  <2> QED BY <1>1, <1>2, <1>4, <2>1, <2>2, <2>3, <2>4
<1>7. CASE ScanUp
  <2> DEFINE h == Parent[Top.host]
             n == 1
             f == [Top EXCEPT !.host = h, !.index = n]
  <2>1. SetTop(f) /\ UNCHANGED depth /\ n \in Nat \ {0} /\ Top.host # Root
    BY <1>7 DEF ScanUp
  <2>2. h \in State /\ h \in Chain[Top.host]
    BY <1>2, <2>1, ChainFacts DEF Frame
  <2>3. h \in Chain[current]
    BY <1>2, <2>2, ChainFacts
  <2> HIDE DEF h, n
  <2>4. f \in Frame
    BY <1>2, <2>1, <2>2 DEF Frame
  <2>5. /\ f.drains = Top.drains /\ f.phase = Top.phase /\ f.from = Top.from
        /\ f.host = h /\ f.pump = Top.pump
    BY <1>2 DEF Frame
  <2> HIDE DEF f
  <2> QED BY <1>1, <1>2, <1>4, <2>1, <2>3, <2>4, <2>5
<1>8. CASE ScanEnd
  BY <1>1, <1>2, <1>8, OrderlyReturn DEF ScanEnd, Resting
<1>9. CASE ScanHit
  <2> DEFINE h == Top.host
             t == Target[Tested]
             K == Kept(h, t)
             f == [Top EXCEPT !.phase = "leave", !.target = t,
                              !.toLeave = LeavePath(Top.from, Top.host, t),
                              !.toEnter = EnterPath(Top.host, t)]
  <2>1. SetTop(f) /\ UNCHANGED depth
    BY <1>9 DEF ScanHit
  <2>2. h \in State /\ t \in State
    <3>1. h \in State
      BY <1>2 DEF Frame
    <3>2. t \in State
      BY <1>9, Constants DEF ScanHit, Testing
    <3> QED BY <3>1, <3>2
  <2>3. /\ K \subseteq Chain[h] /\ Chain[h] \subseteq Chain[current]
        /\ K \subseteq Chain[current]
    BY <1>2, <2>2, KeptFacts, ChainFacts
  <2>4. /\ f.drains = Top.drains /\ f.phase = "leave" /\ f.from = Top.from
        /\ f.host = h /\ f.target = t /\ f.pump = Top.pump
        /\ f.toLeave = Chain[current] \ K
        /\ f.toEnter = Chain[t] \ K
    BY <1>2 DEF Frame, LeavePath, EnterPath
  <2> HIDE DEF f, K
  <2>5. entered' = K \cup f.toLeave /\ K \cap f.toLeave = {}
    BY <1>1, <1>2, <2>3, <2>4 DEF Resting
  <2>6. frames'[1] = f => Configured(frames[1])'
    BY <1>1, <1>2, <2>4, <2>5 DEF Configured, K
  <2> QED BY <1>1, <1>2, <1>3, <2>1, <2>4, <2>6, OrderlyRewrite
<1> QED BY <1>5, <1>6, <1>7, <1>8, <1>9

LEMMA OrderlyLeave ==
  ASSUME NoReentry, NEW s \in State
  PROVE  TypeInv /\ Orderly /\ LeaveState(s) => Orderly'
<1> SUFFICES ASSUME TypeInv, Orderly, LeaveState(s) PROVE Orderly'
  OBVIOUS
<1> DEFINE b == s \in PumpOnLeave
           L == Top.toLeave \ {s}
           f == [Top EXCEPT !.toLeave = L, !.pump = b]
           K == Kept(Top.host, Top.target)
<1>1. /\ UNCHANGED <<status, current, depth>> /\ entered' = entered \ {s}
      /\ depth > 0 /\ Top.phase = "leave" /\ s \in Top.toLeave
      /\ Top.toLeave \subseteq Chain[s] /\ SetTop(f)
      /\ s \in entered => failed' = "none"
  BY DEF LeaveState, Running, Deepest
<1>2. /\ Top \in Frame /\ depth = 1
      /\ current \in State /\ Top.from = current /\ Top.host \in Chain[current]
      /\ Top.drains \/ DirectEvents # {}
      /\ entered = K \cup Top.toLeave /\ K \cap Top.toLeave = {}
      /\ Top.toLeave \subseteq Chain[current]
      /\ Top.toEnter = Chain[Top.target] \ K
  BY <1>1, Inside DEF Configured
<1>3. /\ f.drains = Top.drains /\ f.phase = "leave" /\ f.from = Top.from
      /\ f.host = Top.host /\ f.target = Top.target /\ f.pump = b
      /\ f.toLeave = L /\ f.toEnter = Top.toEnter
  BY <1>1, <1>2 DEF Frame
<1>4. b => DirectEvents = {}
  BY DEF NoReentry
<1>5. Top.host \in State /\ Top.target \in State
  BY <1>2 DEF Frame
<1>6. Upward(entered')
  <2>1. ASSUME NEW r \in entered' PROVE Chain[r] \subseteq entered'
    <3>1. Chain[r] \subseteq entered /\ r \in State
      BY <1>1, <2>1 DEF Orderly, Upward, TypeInv, TypeOK
    <3>2. s \notin Chain[r]
      <4>1. CASE r \in K
        BY <1>1, <1>2, <1>5, <4>1, KeptFacts DEF Upward
      <4>2. CASE r \in Top.toLeave
        BY <1>1, <2>1, <4>2, <3>1, ChainFacts
      <4> QED BY <1>1, <1>2, <2>1, <4>1, <4>2
    <3> QED BY <1>1, <3>1, <3>2
  <2> QED BY <2>1 DEF Upward
<1> HIDE DEF f, b
<1>7. entered' = K \cup L /\ K \cap L = {}
  BY <1>1, <1>2
<1>8. frames'[1] = f => Configured(frames[1])'
  BY <1>1, <1>2, <1>3, <1>4, <1>7 DEF Configured
<1> QED BY <1>1, <1>2, <1>3, <1>6, <1>8, OrderlyRewrite

LEMMA OrderlyTake ==
  ASSUME NoReentry
  PROVE  TypeInv /\ Orderly /\ (TakeAction \/ CallbackReturns) => Orderly'
<1> SUFFICES ASSUME TypeInv, Orderly, TakeAction \/ CallbackReturns
             PROVE Orderly'
  OBVIOUS
<1>1. /\ UNCHANGED <<status, current, entered, failed, depth>>
      /\ depth > 0 /\ failed = "none" /\ Upward(entered)
  BY DEF TakeAction, CallbackReturns, Running, Orderly
<1>2. Upward(entered')
  BY <1>1
<1>3. Top \in Frame /\ depth = 1 /\ Configured(Top)
  BY <1>1, Inside
<1>4. CASE CallbackReturns
  <2> DEFINE f == [Top EXCEPT !.pump = FALSE]
  <2>1. SetTop(f)
    BY <1>4 DEF CallbackReturns
  <2>2. /\ f.drains = Top.drains /\ f.phase = Top.phase /\ f.from = Top.from
        /\ f.host = Top.host /\ f.target = Top.target /\ ~f.pump
        /\ f.toLeave = Top.toLeave /\ f.toEnter = Top.toEnter
    BY <1>3 DEF Frame
  <2> HIDE DEF f
  <2>3. frames'[1] = f => Configured(frames[1])'
    BY <1>1, <1>3, <2>2 DEF Configured, Resting
  <2> QED BY <1>1, <1>2, <1>3, <2>1, <2>2, <2>3, OrderlyRewrite
<1>5. CASE TakeAction
  <2> DEFINE b == <<Top.event, Tested>> \in PumpOnAction
             f == [Top EXCEPT !.phase = "enter", !.pump = b]
             K == Kept(Top.host, Top.target)
  <2>1. SetTop(f) /\ Top.phase = "leave" /\ Top.toLeave = {}
    BY <1>5 DEF TakeAction, Running
  <2>2. b => DirectEvents = {}
    BY DEF NoReentry
  <2>3. /\ f.drains = Top.drains /\ f.phase = "enter" /\ f.pump = b
        /\ f.target = Top.target /\ f.toEnter = Top.toEnter
    BY <1>3 DEF Frame
  <2>4. /\ Top.drains \/ DirectEvents # {}
        /\ entered = K
        /\ Top.toEnter = Chain[Top.target] \ K
    BY <1>3, <2>1 DEF Configured
  <2>5. Top.host \in State /\ Top.target \in State
    BY <1>3 DEF Frame
  <2>6. /\ K \subseteq Chain[Top.target] /\ Top.target \notin K
        /\ Top.target \in Chain[Top.target]
    BY <2>5, KeptFacts, ChainFacts
  <2> HIDE DEF f, b, K
  <2>7. frames'[1] = f => Configured(frames[1])'
    BY <1>1, <2>2, <2>3, <2>4, <2>6 DEF Configured
  <2> QED BY <1>1, <1>2, <1>3, <2>1, <2>3, <2>7, OrderlyRewrite
<1> QED BY <1>4, <1>5

LEMMA OrderlyEnter ==
  ASSUME NEW s \in State
  PROVE  TypeInv /\ Orderly
           /\ (EnterAncestor(s) \/ EnterAndJump(s) \/ EnterLeaf(s))
         => Orderly'
<1> SUFFICES ASSUME TypeInv, Orderly,
                    EnterAncestor(s) \/ EnterAndJump(s) \/ EnterLeaf(s)
             PROVE  Orderly'
  OBVIOUS
<1>1. /\ UNCHANGED status /\ depth > 0 /\ Top.phase = "enter" /\ ~Top.pump
      /\ s \in Top.toEnter /\ Top.toEnter \cap Chain[s] = {s}
      /\ entered' = entered \cup {s}
      /\ s \notin entered => failed' = "none"
  BY DEF EnterAncestor, EnterAndJump, EnterLeaf, Enters, Running, Highest
<1>2. /\ Top \in Frame /\ depth = 1
      /\ entered \cup Top.toEnter = Chain[Top.target]
      /\ entered \cap Top.toEnter = {}
      /\ Top.target \in Top.toEnter
  BY <1>1, Inside DEF Configured
<1>3. failed' = "none" /\ Top.target \in State
  BY <1>1, <1>2 DEF Frame
<1>4. Chain[s] \subseteq entered \cup {s}
  <2>1. Chain[s] \subseteq Chain[Top.target]
    BY <1>1, <1>2, <1>3, ChainFacts
  <2> QED BY <1>1, <1>2, <2>1
<1>5. Upward(entered')
  BY <1>1, <1>4 DEF Orderly, Upward
<1>6. s = Top.target => Top.toEnter = {s} /\ entered' = Chain[s]
  <2>1. Top.toEnter \subseteq Chain[Top.target]
    BY <1>2
  <2> QED BY <1>1, <1>2, <2>1
<1>7. ASSUME NEW f, SetTop(f), f.drains = Top.drains, UNCHANGED depth,
             f.phase = "enter", ~f.pump,
             entered' \cup f.toEnter = Chain[f.target],
             entered' \cap f.toEnter = {}, f.target \in f.toEnter
      PROVE  Orderly'
  <2>1. frames'[1] = f => Configured(frames[1])'
    BY <1>7 DEF Configured
  <2> QED BY <1>1, <1>2, <1>3, <1>5, <1>7, <2>1, OrderlyRewrite
<1>8. CASE EnterAncestor(s)
  <2> DEFINE T == Top.toEnter \ {s}
             f == [Top EXCEPT !.toEnter = T]
  <2>1. SetTop(f) /\ UNCHANGED depth /\ s # Top.target
    BY <1>8 DEF EnterAncestor
  <2>2. /\ f.drains = Top.drains /\ f.phase = Top.phase /\ f.pump = Top.pump
        /\ f.target = Top.target /\ f.toEnter = T
    BY <1>2 DEF Frame
  <2>3. /\ entered' \cup T = Chain[Top.target] /\ entered' \cap T = {}
        /\ Top.target \in T
    BY <1>1, <1>2, <2>1
  <2> HIDE DEF f, T
  <2> QED BY <1>1, <1>7, <2>1, <2>2, <2>3
<1>9. CASE EnterAndJump(s)
  <2> DEFINE i == Initial[s]
             f == [Top EXCEPT !.toEnter = {i}, !.target = i]
  <2>1. SetTop(f) /\ UNCHANGED depth /\ s = Top.target /\ i # NoState
    BY <1>9 DEF EnterAndJump
  <2>2. /\ f.drains = Top.drains /\ f.phase = Top.phase /\ f.pump = Top.pump
        /\ f.target = i /\ f.toEnter = {i}
    BY <1>2 DEF Frame
  <2>3. Chain[i] = {i} \cup Chain[s] /\ i \notin Chain[s]
    BY <2>1, ChainFacts
  <2> HIDE DEF f, i
  <2>4. /\ entered' \cup f.toEnter = Chain[f.target]
        /\ entered' \cap f.toEnter = {} /\ f.target \in f.toEnter
    BY <1>6, <2>1, <2>2, <2>3
  <2> QED BY <1>1, <1>7, <2>1, <2>2, <2>4
<1>10. CASE EnterLeaf(s)
  <2>1. Return /\ s = Top.target /\ Initial[s] = NoState /\ current' = s
    BY <1>10 DEF EnterLeaf
  <2>2. Resting'
    BY <1>6, <2>1 DEF Resting
  <2> QED BY <1>1, <1>3, <2>1, <2>2, OrderlyReturn
<1> QED BY <1>8, <1>9, <1>10

LEMMA OrderlyNext ==
  ASSUME NoReentry
  PROVE  TypeInv /\ Orderly /\ [Next]_vars => Orderly'
<1> SUFFICES ASSUME TypeInv, Orderly, [Next]_vars PROVE Orderly'
  OBVIOUS
<1>1. CASE UNCHANGED vars
  BY <1>1 DEF vars, Orderly, Configured, Resting, Upward
<1>2. CASE Step
  BY <1>2, OrderlyLoop, OrderlyScan, OrderlyLeave, OrderlyTake, OrderlyEnter
     DEF Step
<1>3. CASE Next
  BY <1>2, <1>3, OrderlyStart, OrderlyPost, OrderlyOnEvent, OrderlyProcessEvent,
     OrderlyTake DEF Next
<1> QED BY <1>1, <1>3

LEMMA OrderlyHolds == ASSUME NoReentry PROVE Spec => []Orderly
BY OrderlyInit, OrderlyNext, TypeInvHolds, PTL DEF Spec

\* State::enter and State::leave never assert, whatever the shape of the tree
\* and of the transitions, unless processEvent is re-entered.
THEOREM NoAssertionFailsHolds == ASSUME NoReentry PROVE Spec => []NoAssertionFails
<1>1. Orderly => NoAssertionFails
  BY DEF Orderly, NoAssertionFails
<1> QED BY <1>1, OrderlyHolds, PTL

\* One event is handled to completion before the next, although callbacks run
\* nested message loops that dispatch the notices of later events.
THEOREM RunToCompletionHolds == ASSUME NoReentry PROVE Spec => []RunToCompletion
<1>1. Orderly => RunToCompletion
  BY DEF Orderly, RunToCompletion
<1> QED BY <1>1, OrderlyHolds, PTL

\* Between events m_currentState is a leaf and exactly it and its ancestors
\* are entered.
THEOREM ConfigurationHolds == ASSUME NoReentry PROVE Spec => []ConfigurationOK
<1>1. Orderly => ConfigurationOK
  BY DEF Orderly, Resting, ConfigurationOK
<1> QED BY <1>1, OrderlyHolds, PTL

\* At every moment of a transition the entered states form one path from the
\* root.
THEOREM NestedConfigurationHolds ==
  ASSUME NoReentry PROVE Spec => []NestedConfiguration
<1>1. TypeInv /\ Orderly => NestedConfiguration
  <2> SUFFICES ASSUME TypeInv, Orderly,
                      NEW s \in entered \ {Root}, NEW r \in entered \ {Root}
               PROVE  /\ Parent[s] \in entered
                      /\ Parent[s] = Parent[r] => s = r
    BY DEF NestedConfiguration
  <2>1. s \in State /\ r \in State
    BY DEF TypeInv, TypeOK
  <2>2. Parent[s] \in entered
    BY <2>1, ChainFacts DEF Orderly, Upward
  <2>3. PICK x \in State : entered \subseteq Chain[x]
    <3>1. CASE depth = 0 /\ status # "IDLE"
      BY <3>1 DEF Orderly, Resting
    <3>2. CASE depth > 0
      <4>1. Top \in Frame /\ Configured(Top)
        BY <3>2, Inside
      <4>2. Top.target \in State /\ Top.host \in State /\ Top.phase \in Phases
        BY <4>1 DEF Frame
      <4>3. CASE Top.phase \in {"loop", "scan"}
        BY <4>1, <4>3 DEF Configured, Resting
      <4>4. CASE Top.phase = "leave"
        <5>1. /\ current \in State /\ Top.host \in Chain[current]
              /\ entered = Kept(Top.host, Top.target) \cup Top.toLeave
              /\ Top.toLeave \subseteq Chain[current]
          BY <4>1, <4>4 DEF Configured
        <5>2. Kept(Top.host, Top.target) \subseteq Chain[current]
          BY <4>2, <5>1, KeptFacts, ChainFacts
        <5> QED BY <5>1, <5>2
      <4>5. CASE Top.phase = "enter"
        BY <4>1, <4>2, <4>5 DEF Configured
      <4> QED BY <4>2, <4>3, <4>4, <4>5 DEF Phases
    <3>3. CASE status = "IDLE"
      BY <2>1, <3>3 DEF Orderly
    <3> QED BY <3>1, <3>2, <3>3 DEF TypeInv, TypeOK
  <2>4. s \in Chain[r] \/ r \in Chain[s]
    BY <2>3, ChainFacts
  <2>5. Parent[s] = Parent[r] => s = r
    BY <2>1, <2>4, ChainFacts
  <2> QED BY <2>2, <2>5
<1> QED BY <1>1, OrderlyHolds, TypeInvHolds, PTL
=============================================================================
