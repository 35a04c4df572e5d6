------------------------- MODULE StateMachineProofs -------------------------
(***************************************************************************)
(* Theorems about StateMachine for every tree, table and set of callbacks. *)
(***************************************************************************)
EXTENDS StateMachine, SequenceTheorems, TLAPS

-----------------------------------------------------------------------------
(* Facts about the constants and the call stack. *)

LEMMA Constants ==
  /\ Root \in State /\ NoState \notin State
  /\ \A s \in State \ {Root} : Parent[s] \in State
  /\ \A s \in State : Initial[s] \in State \cup {NoState}
  /\ \A s \in State : Chain[s] \subseteq State
  /\ \A t \in Transition : Target[t] \in (State \ {Root}) \cup {NoState}
  /\ MayFire \subseteq Event \X Transition
  /\ DirectEvents \subseteq Event
  /\ NoEvent \notin Event
  /\ MaxNest \in Nat \ {0} /\ MaxQueue \in Nat \ {0}
BY StateMachineAssumption
   DEF TreeAssumption, TableAssumption, EventAssumption

\* Every activation the code creates is typed.
LEMMA ActivationType ==
  ASSUME NEW d \in BOOLEAN, NEW e \in Event \cup {NoEvent}, NEW p \in Phases,
         NEW s \in State, NEW T \in SUBSET State
  PROVE  Activation(d, e, p, s, T) \in Frame
BY Constants DEF Activation, Frame

LEMMA NoFrameType == NoFrame \in Frame /\ Draining \in Frame
BY ActivationType, Constants DEF NoFrame, Draining, Phases

LEMMA TopType ==
  ASSUME TypeOK
  PROVE  Top \in Frame
<1>1. depth \in 0 .. MaxNest /\ frames \in [1 .. MaxNest -> Frame]
  BY DEF TypeOK
<1> QED BY <1>1, NoFrameType DEF Top

LEMMA StackTypes ==
  ASSUME TypeOK, NEW f \in Frame
  PROVE  /\ depth > 0 /\ SetTop(f) => frames' \in [1 .. MaxNest -> Frame]
         /\ Push(f) => /\ frames' \in [1 .. MaxNest -> Frame]
                       /\ depth' \in 0 .. MaxNest
         /\ depth > 0 /\ Pop => /\ frames' \in [1 .. MaxNest -> Frame]
                                /\ depth' \in 0 .. MaxNest
         /\ depth > 0 /\ Return => /\ frames' \in [1 .. MaxNest -> Frame]
                                   /\ depth' \in 0 .. MaxNest
<1>1. depth \in 0 .. MaxNest /\ frames \in [1 .. MaxNest -> Frame]
  BY DEF TypeOK
<1>2. depth > 0 /\ SetTop(f) => frames' \in [1 .. MaxNest -> Frame]
  BY <1>1, Constants DEF SetTop
<1>3. Push(f) => /\ frames' \in [1 .. MaxNest -> Frame]
                 /\ depth' \in 0 .. MaxNest
  BY <1>1, Constants DEF Push
<1>4. depth > 0 /\ Pop => /\ frames' \in [1 .. MaxNest -> Frame]
                          /\ depth' \in 0 .. MaxNest
  BY <1>1, Constants, NoFrameType DEF Pop
<1>5. depth > 0 /\ SetTop(Draining) => frames' \in [1 .. MaxNest -> Frame]
  BY <1>1, Constants, NoFrameType DEF SetTop
<1>6. depth > 0 /\ Return => /\ frames' \in [1 .. MaxNest -> Frame]
                             /\ depth' \in 0 .. MaxNest
  BY <1>1, <1>4, <1>5, Constants DEF Return
<1> QED BY <1>2, <1>3, <1>4, <1>6

-----------------------------------------------------------------------------
(* Type correctness. *)

\* Until start has reached a leaf no current state is assigned and the call of
\* start is the only activation; it runs no message loop.
Started ==
  /\ status = "IDLE" => current = NoState /\ depth = 0
  /\ current = NoState /\ status # "IDLE" =>
       /\ depth = 1 /\ frames[1].phase = "enter"
       /\ ~frames[1].drains /\ ~frames[1].pump

TypeInv == TypeOK /\ Started

LEMMA TypeInit == Init => TypeInv
<1> SUFFICES ASSUME Init PROVE TypeInv
  OBVIOUS
<1>1. depth \in 0 .. MaxNest /\ frames \in [1 .. MaxNest -> Frame]
  BY NoFrameType, Constants DEF Init
<1>2. events \in Seq(Event)
  BY DEF Init
<1> QED BY <1>1, <1>2 DEF Init, TypeInv, TypeOK, Started

LEMMA TypeStart == TypeInv /\ Start => TypeInv'
<1> SUFFICES ASSUME TypeInv, Start PROVE TypeInv'
  OBVIOUS
<1> DEFINE f == Activation(FALSE, NoEvent, "enter", Root, {Root})
<1>1. f \in Frame
  BY ActivationType, Constants DEF Phases
<1>2. Push(f)
  BY DEF Start
<1>3. TypeOK'
  BY <1>1, <1>2, StackTypes DEF TypeInv, TypeOK, Start
<1>4. depth = 0 /\ frames \in [1 .. MaxNest -> Frame]
  BY DEF TypeOK, TypeInv, Started, Start
<1>5. f.phase = "enter" /\ ~f.drains /\ ~f.pump
  BY DEF Activation
<1>. HIDE DEF f
<1>6. depth' = 1 /\ frames'[1] = f
  <2>1. MaxNest \in Nat \ {0}
    BY Constants
  <2>. QED BY <1>2, <1>4, <2>1 DEF Push
<1>7. Started'
  BY <1>5, <1>6 DEF Started, Start
<1> QED BY <1>3, <1>7 DEF TypeInv

LEMMA TypePost == TypeInv /\ (\E e \in Event \ DirectEvents : PostEvent(e)) => TypeInv'
<1> SUFFICES ASSUME TypeInv, NEW e \in Event, PostEvent(e) PROVE TypeInv'
  OBVIOUS
<1>1. events' \in Seq(Event) /\ notices' \in Nat
  BY AppendProperties DEF TypeInv, TypeOK, PostEvent
<1>2. TypeOK' /\ Started'
  BY <1>1 DEF TypeInv, TypeOK, PostEvent, Started
<1> QED BY <1>2 DEF TypeInv

\* While anything but the call of start is under way, or a message loop runs
\* after start, a current state is assigned.
LEMMA HasCurrent ==
  ASSUME TypeInv, status # "IDLE",
         depth = 0 \/ Top.pump \/ Top.phase # "enter" \/ Top.drains
  PROVE  current \in State
BY DEF TypeInv, TypeOK, Started, Top

LEMMA NotIdle == ASSUME TypeInv, depth > 0 PROVE status # "IDLE"
BY DEF TypeInv, TypeOK, Started

\* An update of the top activation after which a current state is still there.
LEMMA StartedKept ==
  ASSUME TypeInv, current' \in State, status # "IDLE", status' # "IDLE"
  PROVE  Started'
BY Constants DEF Started

LEMMA TypeOnEvent == TypeInv /\ OnEvent => TypeInv'
<1> SUFFICES ASSUME TypeInv, OnEvent PROVE TypeInv'
  OBVIOUS
<1>1. current \in State /\ current' = current /\ status # "IDLE"
  BY HasCurrent DEF OnEvent, InMessageLoop
<1>2. status' = "PROCESSING"
  BY DEF OnEvent
<1>3. notices' \in Nat
  BY DEF OnEvent, TypeInv, TypeOK
<1>4. frames' \in [1 .. MaxNest -> Frame] /\ depth' \in 0 .. MaxNest
  BY StackTypes, NoFrameType DEF OnEvent, TypeInv, TypeOK
<1>5. TypeOK'
  BY <1>1, <1>2, <1>3, <1>4 DEF OnEvent, TypeInv, TypeOK
<1>6. Started'
  BY <1>1, <1>2, StartedKept
<1> QED BY <1>5, <1>6 DEF TypeInv

LEMMA TypeProcessEvent ==
  TypeInv /\ (\E e \in DirectEvents : ProcessEvent(e)) => TypeInv'
<1> SUFFICES ASSUME TypeInv, NEW e \in Event, ProcessEvent(e) PROVE TypeInv'
  BY Constants
<1>1. current \in State /\ current' = current /\ status # "IDLE" /\ status' = status
  BY HasCurrent DEF ProcessEvent, InMessageLoop
<1>2. Scanning(FALSE, e) \in Frame
  BY <1>1, ActivationType DEF Scanning, Phases
<1>3. frames' \in [1 .. MaxNest -> Frame] /\ depth' \in 0 .. MaxNest
  BY <1>2, StackTypes DEF ProcessEvent, TypeInv
<1>4. TypeOK'
  BY <1>3 DEF ProcessEvent, TypeInv, TypeOK
<1>5. Started'
  BY <1>1, StartedKept
<1> QED BY <1>4, <1>5 DEF TypeInv

LEMMA TypeLoop == TypeInv /\ (LoopTake \/ LoopEnd) => TypeInv'
<1> SUFFICES ASSUME TypeInv, LoopTake \/ LoopEnd PROVE TypeInv'
  OBVIOUS
<1>1. depth > 0 /\ Top.phase = "loop" /\ current' = current
  BY DEF LoopTake, LoopEnd, Running
<1>2. current \in State /\ status # "IDLE"
  BY <1>1, HasCurrent, NotIdle
<1>3. status' \in {"RUNNING", "PROCESSING"}
  BY <1>2 DEF LoopTake, LoopEnd, TypeInv, TypeOK
<1>4. Started'
  BY <1>1, <1>2, <1>3, StartedKept
<1>5. CASE LoopTake
  <2>1. Head(events) \in Event /\ Tail(events) \in Seq(Event)
    BY <1>5, HeadTailProperties DEF LoopTake, TypeInv, TypeOK
  <2>2. Scanning(TRUE, Head(events)) \in Frame
    BY <1>2, <2>1, ActivationType DEF Scanning, Phases
  <2>3. frames' \in [1 .. MaxNest -> Frame]
    BY <1>1, <1>5, <2>2, StackTypes DEF LoopTake, TypeInv
  <2>4. TypeOK'
    BY <1>5, <2>1, <2>3 DEF LoopTake, TypeInv, TypeOK
  <2> QED BY <1>4, <2>4 DEF TypeInv
<1>6. CASE LoopEnd
  <2>1. frames' \in [1 .. MaxNest -> Frame] /\ depth' \in 0 .. MaxNest
    BY <1>1, <1>6, StackTypes, NoFrameType DEF LoopEnd, TypeInv
  <2>2. TypeOK'
    BY <1>6, <2>1 DEF LoopEnd, TypeInv, TypeOK
  <2> QED BY <1>4, <2>2 DEF TypeInv
<1> QED BY <1>5, <1>6

\* What a step may write into a typed activation leaves it typed.
LEMMA FrameUpdates ==
  ASSUME NEW f \in Frame, NEW n \in Nat \ {0}, NEW b \in BOOLEAN,
         NEW s \in State, NEW p \in Phases,
         NEW L \in SUBSET State, NEW T \in SUBSET State
  PROVE  /\ [f EXCEPT !.pump = b] \in Frame
         /\ [f EXCEPT !.index = n] \in Frame
         /\ [f EXCEPT !.index = n, !.pump = b] \in Frame
         /\ [f EXCEPT !.host = s, !.index = n] \in Frame
         /\ [f EXCEPT !.phase = p, !.target = s, !.toLeave = L, !.toEnter = T]
               \in Frame
         /\ [f EXCEPT !.toLeave = L, !.pump = b] \in Frame
         /\ [f EXCEPT !.phase = p, !.pump = b] \in Frame
         /\ [f EXCEPT !.toEnter = T] \in Frame
         /\ [f EXCEPT !.toEnter = T, !.target = s] \in Frame
<1>1. [f EXCEPT !.pump = b] \in Frame /\ [f EXCEPT !.index = n] \in Frame
  BY DEF Frame
<1>2. [f EXCEPT !.index = n, !.pump = b] \in Frame
  BY DEF Frame
<1>3. [f EXCEPT !.host = s, !.index = n] \in Frame
  BY DEF Frame
<1>4. [f EXCEPT !.phase = p, !.target = s, !.toLeave = L, !.toEnter = T]
        \in Frame
  BY DEF Frame
<1>5. [f EXCEPT !.toLeave = L, !.pump = b] \in Frame
  BY DEF Frame
<1>6. [f EXCEPT !.phase = p, !.pump = b] \in Frame
  BY DEF Frame
<1>7. /\ [f EXCEPT !.toEnter = T] \in Frame
      /\ [f EXCEPT !.toEnter = T, !.target = s] \in Frame
  BY DEF Frame
<1> QED BY <1>1, <1>2, <1>3, <1>4, <1>5, <1>6, <1>7

LEMMA TopFields ==
  ASSUME TypeOK
  PROVE  /\ Top.from \in State /\ Top.host \in State /\ Top.target \in State
         /\ Top.index \in Nat \ {0}
         /\ Top.toLeave \in SUBSET State /\ Top.toEnter \in SUBSET State
         /\ Top.event \in Event \cup {NoEvent}
BY TopType DEF Frame

\* A step that only rewrites the top activation.
LEMMA TypeRewrite ==
  ASSUME TypeInv, depth > 0, current \in State, NEW f \in Frame, SetTop(f),
         UNCHANGED <<status, events, notices, current, depth>>,
         entered' \subseteq State, failed' \in {"none", "releave", "renter"}
  PROVE  TypeInv'
<1>1. frames' \in [1 .. MaxNest -> Frame]
  BY StackTypes DEF TypeInv
<1>2. TypeOK'
  BY <1>1 DEF TypeInv, TypeOK
<1>3. Started'
  BY NotIdle, StartedKept
<1> QED BY <1>2, <1>3 DEF TypeInv

\* A step that ends a processEvent activation.
LEMMA TypeReturn ==
  ASSUME TypeInv, depth > 0, current' \in State, Return,
         UNCHANGED <<status, events, notices>>,
         entered' \subseteq State, failed' \in {"none", "releave", "renter"}
  PROVE  TypeInv'
<1>1. frames' \in [1 .. MaxNest -> Frame] /\ depth' \in 0 .. MaxNest
  BY StackTypes, NoFrameType DEF TypeInv
<1>2. TypeOK'
  BY <1>1 DEF TypeInv, TypeOK
<1>3. Started'
  BY NotIdle, StartedKept
<1> QED BY <1>2, <1>3 DEF TypeInv

LEMMA TypeScan ==
  TypeInv /\ (ScanMiss \/ ScanTargetless \/ ScanHit \/ ScanUp \/ ScanEnd)
    => TypeInv'
<1> SUFFICES ASSUME TypeInv,
                    ScanMiss \/ ScanTargetless \/ ScanHit \/ ScanUp \/ ScanEnd
             PROVE TypeInv'
  OBVIOUS
<1> DEFINE b == <<Top.event, Tested>> \in PumpOnAction
<1>1. depth > 0 /\ Top.phase = "scan"
  BY DEF ScanMiss, ScanTargetless, ScanHit, ScanUp, ScanEnd, Testing, Running
<1>2. current \in State
  BY <1>1, HasCurrent, NotIdle
<1>3. entered \subseteq State /\ failed \in {"none", "releave", "renter"}
  BY DEF TypeInv, TypeOK
<1>4. /\ Top \in Frame /\ Top.host \in State
      /\ Top.index \in Nat \ {0} /\ Top.index + 1 \in Nat \ {0}
  BY TopType, TopFields DEF TypeInv
<1>5. b \in BOOLEAN
  OBVIOUS
<1>6. CASE ScanMiss
  <2>1. [Top EXCEPT !.index = @ + 1] \in Frame
    BY <1>4, FrameUpdates DEF Phases
  <2> QED BY <1>1, <1>2, <1>3, <1>6, <2>1, TypeRewrite DEF ScanMiss
<1>7. CASE ScanTargetless
  <2> HIDE DEF b
  <2>1. [Top EXCEPT !.index = @ + 1, !.pump = b] \in Frame
    BY <1>4, <1>5, FrameUpdates DEF Phases
  <2>2. SetTop([Top EXCEPT !.index = @ + 1, !.pump = b])
    BY <1>7 DEF ScanTargetless, b
  <2> QED BY <1>1, <1>2, <1>3, <1>7, <2>1, <2>2, TypeRewrite
          DEF ScanTargetless
<1>8. CASE ScanHit
  <2> DEFINE t == Target[Tested]
             f == [Top EXCEPT !.phase = "leave", !.target = t,
                           !.toLeave = LeavePath(Top.from, Top.host, t),
                           !.toEnter = EnterPath(Top.host, t)]
  <2>1. t \in State
    BY <1>8, Constants DEF ScanHit
  <2>2. LeavePath(Top.from, Top.host, t) \in SUBSET State
    BY TopFields, Constants DEF LeavePath, TypeInv
  <2>3. EnterPath(Top.host, t) \in SUBSET State
    BY <2>1, Constants DEF EnterPath
  <2>4. SetTop(f)
    BY <1>8 DEF ScanHit
  <2> HIDE DEF t
  <2>5. f \in Frame
    BY <1>4, <2>1, <2>2, <2>3, FrameUpdates DEF Phases
  <2> HIDE DEF f
  <2> QED BY <1>1, <1>2, <1>3, <1>8, <2>4, <2>5, TypeRewrite DEF ScanHit
<1>9. CASE ScanUp
  <2> DEFINE h == Parent[Top.host]
             n == 1
  <2>1. h \in State
    BY <1>4, <1>9, Constants DEF ScanUp
  <2>2. SetTop([Top EXCEPT !.host = h, !.index = n]) /\ n \in Nat \ {0}
    BY <1>9 DEF ScanUp
  <2> HIDE DEF h, n
  <2>3. [Top EXCEPT !.host = h, !.index = n] \in Frame
    BY <1>4, <2>1, <2>2 DEF Frame
  <2> QED BY <1>1, <1>2, <1>3, <1>9, <2>2, <2>3, TypeRewrite DEF ScanUp
<1>10. CASE ScanEnd
  BY <1>1, <1>2, <1>3, <1>10, TypeReturn DEF ScanEnd
<1> QED BY <1>6, <1>7, <1>8, <1>9, <1>10

LEMMA TypeLeave ==
  TypeInv /\ ((\E s \in State : LeaveState(s)) \/ TakeAction \/ CallbackReturns)
    => TypeInv'
<1> SUFFICES ASSUME TypeInv, (\E s \in State : LeaveState(s))
                             \/ TakeAction \/ CallbackReturns
             PROVE TypeInv'
  OBVIOUS
<1>1. depth > 0 /\ (Top.phase = "leave" \/ Top.pump)
  BY DEF LeaveState, TakeAction, CallbackReturns, Running
<1>2. current \in State
  BY <1>1, HasCurrent, NotIdle
<1>3. entered \subseteq State /\ failed \in {"none", "releave", "renter"}
  BY DEF TypeInv, TypeOK
<1>4. Top \in Frame /\ Top.toLeave \in SUBSET State
  BY TopType, TopFields DEF TypeInv
<1>5. ASSUME NEW s \in State, LeaveState(s) PROVE TypeInv'
  <2> DEFINE b == s \in PumpOnLeave
  <2>1. b \in BOOLEAN
    OBVIOUS
  <2>2. SetTop([Top EXCEPT !.toLeave = @ \ {s}, !.pump = b])
    BY <1>5 DEF LeaveState
  <2> HIDE DEF b
  <2>3. [Top EXCEPT !.toLeave = @ \ {s}, !.pump = b] \in Frame
    BY <1>4, <2>1 DEF Frame
  <2>4. entered' \subseteq State /\ failed' \in {"none", "releave", "renter"}
    BY <1>3, <1>5 DEF LeaveState
  <2> QED BY <1>1, <1>2, <1>5, <2>2, <2>3, <2>4, TypeRewrite DEF LeaveState
<1>6. CASE TakeAction
  <2> DEFINE b == <<Top.event, Tested>> \in PumpOnAction
  <2>1. b \in BOOLEAN
    OBVIOUS
  <2>2. SetTop([Top EXCEPT !.phase = "enter", !.pump = b])
    BY <1>6 DEF TakeAction
  <2> HIDE DEF b
  <2>3. [Top EXCEPT !.phase = "enter", !.pump = b] \in Frame
    BY <1>4, <2>1 DEF Frame, Phases
  <2> QED BY <1>1, <1>2, <1>3, <1>6, <2>2, <2>3, TypeRewrite DEF TakeAction
<1>7. CASE CallbackReturns
  <2>1. [Top EXCEPT !.pump = FALSE] \in Frame
    BY <1>4 DEF Frame
  <2> QED BY <1>1, <1>2, <1>3, <1>7, <2>1, TypeRewrite DEF CallbackReturns
<1> QED BY <1>5, <1>6, <1>7

LEMMA TypeEnter ==
  TypeInv /\ (\E s \in State : EnterAncestor(s) \/ EnterAndJump(s) \/ EnterLeaf(s))
    => TypeInv'
<1> SUFFICES ASSUME TypeInv, NEW s \in State,
                    EnterAncestor(s) \/ EnterAndJump(s) \/ EnterLeaf(s)
             PROVE TypeInv'
  OBVIOUS
<1>1. /\ depth > 0 /\ Enters(s)
      /\ UNCHANGED <<status, events, notices>>
  BY DEF EnterAncestor, EnterAndJump, EnterLeaf, Enters, Running
<1>2. entered' \subseteq State /\ failed' \in {"none", "releave", "renter"}
  BY <1>1 DEF Enters, TypeInv, TypeOK
<1>3. CASE EnterLeaf(s)
  BY <1>1, <1>2, <1>3, TypeReturn DEF EnterLeaf
<1>4. CASE EnterAncestor(s) \/ EnterAndJump(s)
  <2>1. /\ UNCHANGED <<current, depth>>
        /\ \E t \in State, T \in SUBSET State :
              SetTop([Top EXCEPT !.toEnter = T, !.target = t])
    <3>1. CASE EnterAncestor(s)
      <4>1. Top.toEnter \ {s} \in SUBSET State /\ Top.target \in State
        BY TopFields DEF TypeInv
      <4>2. [Top EXCEPT !.toEnter = @ \ {s}]
              = [Top EXCEPT !.toEnter = Top.toEnter \ {s}, !.target = Top.target]
        BY TopType DEF Frame, TypeInv
      <4> QED BY <3>1, <4>1, <4>2 DEF EnterAncestor
    <3>2. CASE EnterAndJump(s)
      <4>1. Initial[s] \in State
        BY <3>2, Constants DEF EnterAndJump
      <4> QED BY <3>2, <4>1 DEF EnterAndJump
    <3> QED BY <1>4, <3>1, <3>2
  <2>2. PICK t \in State, T \in SUBSET State :
          SetTop([Top EXCEPT !.toEnter = T, !.target = t])
    BY <2>1
  <2>3. [Top EXCEPT !.toEnter = T, !.target = t] \in Frame
    BY TopType DEF Frame, TypeInv
  <2>4. CASE current \in State
    BY <1>1, <1>2, <2>1, <2>2, <2>3, <2>4, TypeRewrite
  <2>5. CASE current = NoState
    <3>1. frames' \in [1 .. MaxNest -> Frame]
      BY <1>1, <2>2, <2>3, StackTypes DEF TypeInv
    <3>2. TypeOK'
      BY <1>1, <1>2, <2>1, <3>1 DEF TypeInv, TypeOK
    <3>3. /\ status # "IDLE" /\ depth = 1 /\ Top = frames[1]
          /\ Top.phase = "enter" /\ ~Top.drains /\ ~Top.pump
      BY <1>1, <2>5, NotIdle DEF TypeInv, Started, Top
    <3> DEFINE g == [Top EXCEPT !.toEnter = T, !.target = t]
    <3>a. SetTop(g)
      BY <2>2
    <3> HIDE DEF g
    <3>4. frames'[1] = g
      <4>1. MaxNest \in Nat \ {0} /\ frames \in [1 .. MaxNest -> Frame]
        BY Constants DEF TypeInv, TypeOK
      <4> QED BY <3>a, <3>3, <4>1 DEF SetTop
    <3>5. /\ frames'[1].phase = "enter"
          /\ ~frames'[1].drains /\ ~frames'[1].pump
      BY <3>3, <3>4, TopType DEF Frame, TypeInv, g
    <3>6. Started'
      BY <1>1, <2>1, <3>3, <3>5 DEF Started
    <3> QED BY <3>2, <3>6 DEF TypeInv
  <2> QED BY <2>4, <2>5 DEF TypeInv, TypeOK
<1> QED BY <1>3, <1>4

LEMMA TypeNext == TypeInv /\ [Next]_vars => TypeInv'
<1> SUFFICES ASSUME TypeInv, [Next]_vars PROVE TypeInv'
  OBVIOUS
<1>1. CASE UNCHANGED vars
  BY <1>1 DEF vars, TypeInv, TypeOK, Started
<1>2. CASE Step
  BY <1>2, TypeLoop, TypeScan, TypeLeave, TypeEnter DEF Step
<1>3. CASE Next
  BY <1>2, <1>3, TypeStart, TypePost, TypeOnEvent, TypeProcessEvent, TypeLeave
     DEF Next
<1> QED BY <1>1, <1>3

\* Every variable always holds a value of its type, whatever the tree, the
\* table and the callbacks: no call reads an unset current state.
THEOREM TypeCorrect == Spec => []TypeOK
<1>1. TypeInv => TypeOK
  BY DEF TypeInv
<1> QED BY <1>1, TypeInit, TypeNext, PTL DEF Spec
=============================================================================
