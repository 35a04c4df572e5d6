----------------------- MODULE StateMachineRefinement -----------------------
(***************************************************************************)
(* StateMachine implements Statechart: seen from outside, each event is    *)
(* answered by one atomic move of the current leaf, in posting order.      *)
(***************************************************************************)
EXTENDS StateMachineSafety

\* The transition that an activation has found.
Found(f) == Table[f.host][f.index]

\* The transition found is one that takes the activation's event.
Fires(f) ==
  /\ f.event \in Event
  /\ f.host \in Chain[current] \ {Root}
  /\ f.index \in 1 .. Len(Table[f.host])
  /\ <<f.event, Found(f)>> \in MayFire
  /\ Target[Found(f)] # NoState

\* From the state s the initial states lead to t.
Leads(s, t) ==
  s \in Chain[t] /\ \A a \in Chain[t] \ Chain[s] : Initial[Parent[a]] = a

\* What an activation remembers of the event and the transition it answers.
Answers(f) ==
  /\ f.phase = "scan" => f.event \in Event
  /\ f.phase = "leave" => Fires(f) /\ f.target = Target[Found(f)]
  /\ f.phase = "enter" =>
       IF current = NoState
       THEN f.event = NoEvent /\ Leads(Root, f.target)
       ELSE Fires(f) /\ Leads(Target[Found(f)], f.target)

Answered == depth = 1 => Answers(frames[1])

Inv == TypeInv /\ Orderly /\ Answered

LEMMA AnsweredInit == Init => Answered
BY DEF Init, Answered

\* What a step does to the activation, when there is at most one.
LEMMA RewriteOne ==
  ASSUME TypeInv, Orderly, depth > 0, NEW f, SetTop(f), UNCHANGED depth
  PROVE  depth = 1 /\ depth' = 1 /\ Top = frames[1] /\ frames'[1] = f
BY Inside, SetTopSteps DEF TypeInv

LEMMA PushOne ==
  ASSUME TypeInv, depth = 0, NEW f, Push(f)
  PROVE  depth' = 1 /\ frames'[1] = f
BY PushSteps DEF TypeInv

\* After a return nothing is being answered.
LEMMA ReturnOne ==
  ASSUME TypeInv, Orderly, depth > 0, Return
  PROVE  /\ depth = 1 /\ Top = frames[1]
         /\ depth' = 1 => frames'[1].phase = "loop"
         /\ Busy' = NoEvent
<1>1. depth = 1 /\ Top = frames[1]
  BY Inside
<1>2. CASE Top.drains
  <2>1. depth' = 1 /\ frames'[1] = Draining
    BY <1>1, <1>2, RewriteOne DEF Return
  <2> QED BY <1>1, <2>1 DEF Draining, Activation, Busy
<1>3. CASE ~Top.drains
  <2>1. depth' = 0
    BY <1>1, <1>3, PopSteps DEF Return, TypeInv
  <2> QED BY <1>1, <2>1 DEF Busy
<1> QED BY <1>2, <1>3

\* What one step means for the statechart: Answered is kept, and the step is
\* a step or a stutter of Chart.
Good == Answered' /\ [Chart!Next]_(Chart!cvars)

LEMMA Stutter ==
  ASSUME Answered', UNCHANGED <<current, events>>, Busy' = Busy
  PROVE  Good
BY DEF Good, Chart!cvars

LEMMA GoodCallers ==
  ASSUME Inv, Start \/ OnEvent \/ (\E e \in Event : PostEvent(e))
              \/ (\E e \in DirectEvents : ProcessEvent(e))
  PROVE  Good
<1>1. TypeInv /\ Orderly /\ Answered
  BY DEF Inv
<1>2. CASE Start
  <2> DEFINE f == Activation(FALSE, NoEvent, "enter", Root, {Root})
  <2>1. Push(f) /\ depth = 0 /\ UNCHANGED <<current, events>> /\ current = NoState
    BY <1>1, <1>2 DEF Start, TypeInv, Started
  <2>2. f.phase = "enter" /\ f.event = NoEvent /\ f.target = Root
    BY DEF Activation
  <2> HIDE DEF f
  <2>3. depth' = 1 /\ frames'[1] = f
    BY <1>1, <2>1, PushOne
  <2>4. Leads(Root, Root)
    BY Constants, ChainFacts DEF Leads
  <2>5. Answered' /\ Busy' = Busy
    BY <2>1, <2>2, <2>3, <2>4 DEF Answered, Answers, Busy, Leads
  <2> QED BY <2>1, <2>5, Stutter
<1>3. CASE OnEvent
  <2>1. InMessageLoop /\ UNCHANGED <<current, events>>
    BY <1>3 DEF OnEvent
  <2>2. CASE UNCHANGED <<depth, frames>>
    <3>1. Answered' /\ Busy' = Busy
      BY <1>1, <2>1, <2>2 DEF Answered, Answers, Fires, Found, Leads, Busy
    <3> QED BY <2>1, <3>1, Stutter
  <2>3. CASE status # "PROCESSING" /\ Push(Draining)
    <3>1. depth = 0
      BY <1>1, <2>1, <2>3, InsideLoop
    <3>2. depth' = 1 /\ frames'[1] = Draining /\ Draining.phase = "loop"
      BY <1>1, <2>3, <3>1, PushOne DEF Draining, Activation
    <3>3. Answered' /\ Busy' = Busy
      BY <3>1, <3>2 DEF Answered, Answers, Busy
    <3> QED BY <2>1, <3>3, Stutter
  <2> QED BY <1>3, <2>2, <2>3 DEF OnEvent
<1>4. ASSUME NEW e \in Event, PostEvent(e) PROVE Good
  <2>1. UNCHANGED <<depth, frames, current>> /\ events' = Append(events, e)
    BY <1>4 DEF PostEvent
  <2>2. Answered' /\ Busy' = Busy
    BY <1>1, <2>1 DEF Answered, Answers, Fires, Found, Leads, Busy
  <2>3. Chart!Post(e)
    BY <2>1, <2>2 DEF Chart!Post
  <2> QED BY <2>2, <2>3 DEF Good, Chart!Next
<1>5. ASSUME NEW e \in DirectEvents, ProcessEvent(e) PROVE Good
  <2> DEFINE f == Scanning(FALSE, e)
  <2>1. /\ InMessageLoop /\ UNCHANGED <<current, events>> /\ Push(f)
        /\ e \in Event /\ current # NoState
    BY <1>5, Constants DEF ProcessEvent
  <2>2. f.phase = "scan" /\ f.event = e
    BY DEF Scanning, Activation
  <2> HIDE DEF f
  <2>3. depth = 0
    BY <1>1, <2>1, InsideLoop
  <2>4. depth' = 1 /\ frames'[1] = f
    BY <1>1, <2>1, <2>3, PushOne
  <2>5. Answered' /\ Busy = NoEvent /\ Busy' = e
    BY <2>1, <2>2, <2>3, <2>4 DEF Answered, Answers, Busy
  <2>6. Chart!TakeDirect(e)
    BY <2>1, <2>5 DEF Chart!TakeDirect
  <2> QED BY <2>5, <2>6 DEF Good, Chart!Next
<1> QED BY <1>2, <1>3, <1>4, <1>5

LEMMA GoodLoop == ASSUME Inv, LoopTake \/ LoopEnd PROVE Good
<1>1. TypeInv /\ Orderly /\ Answered
  BY DEF Inv
<1>2. depth > 0 /\ Top.phase = "loop"
  BY DEF LoopTake, LoopEnd, Running
<1>3. depth = 1 /\ Top = frames[1] /\ current \in State /\ Busy = NoEvent
  BY <1>1, <1>2, Inside DEF Configured, Resting, Busy
<1>4. CASE LoopTake
  <2> DEFINE e == Head(events)
             f == Scanning(TRUE, e)
  <2>1. /\ SetTop(f) /\ UNCHANGED <<depth, current>>
        /\ events # <<>> /\ events' = Tail(events)
    BY <1>4 DEF LoopTake
  <2>2. e \in Event
    BY <1>1, <2>1, HeadTailProperties DEF TypeInv, TypeOK
  <2>3. f.phase = "scan" /\ f.event = e
    BY DEF Scanning, Activation
  <2> HIDE DEF f
  <2>4. depth' = 1 /\ frames'[1] = f
    BY <1>1, <1>2, <2>1, RewriteOne
  <2>5. Answered' /\ Busy' = e
    BY <2>2, <2>3, <2>4 DEF Answered, Answers, Busy
  <2>6. Chart!Take
    BY <1>3, <2>1, <2>5, Constants DEF Chart!Take
  <2> QED BY <2>5, <2>6 DEF Good, Chart!Next
<1>5. CASE LoopEnd
  <2>1. depth' = 0 /\ UNCHANGED <<current, events>>
    BY <1>3, <1>5 DEF LoopEnd, Pop
  <2>2. Answered' /\ Busy' = Busy
    BY <1>3, <2>1 DEF Answered, Busy
  <2> QED BY <2>1, <2>2, Stutter
<1> QED BY <1>4, <1>5

\* A step that only rewrites the activation is a stutter.
LEMMA GoodRewrite ==
  ASSUME Inv, depth > 0, NEW f, SetTop(f), UNCHANGED <<depth, current, events>>,
         f.phase # "loop" <=> Top.phase # "loop", f.event = Top.event,
         frames'[1] = f => Answers(frames[1])'
  PROVE  Good
<1>1. depth = 1 /\ depth' = 1 /\ Top = frames[1] /\ frames'[1] = f
  BY RewriteOne DEF Inv
<1>2. Answered' /\ Busy' = Busy
  BY <1>1 DEF Answered, Busy
<1> QED BY <1>2, Stutter

LEMMA GoodScan ==
  ASSUME Inv, ScanMiss \/ ScanTargetless \/ ScanHit \/ ScanUp \/ ScanEnd
  PROVE  Good
<1>1. TypeInv /\ Orderly /\ Answered
  BY DEF Inv
<1>2. /\ depth > 0 /\ Top.phase = "scan" /\ UNCHANGED <<current, events>>
  BY DEF ScanMiss, ScanTargetless, ScanHit, ScanUp, ScanEnd, Testing, Running
<1>3. /\ depth = 1 /\ Top = frames[1] /\ Top \in Frame /\ current \in State
      /\ Top.host \in Chain[current] /\ Top.event \in Event
  BY <1>1, <1>2, Inside DEF Configured, Answered, Answers
<1>4. ASSUME NEW f, SetTop(f), UNCHANGED depth, f.phase = "scan",
             f.event = Top.event
      PROVE  Good
  <2>1. frames'[1] = f => Answers(frames[1])'
    BY <1>3, <1>4 DEF Answers
  <2> QED BY <1>2, <1>4, <2>1, GoodRewrite
<1>5. CASE ScanMiss
  BY <1>2, <1>3, <1>4, <1>5 DEF ScanMiss, Frame
<1>6. CASE ScanTargetless
  BY <1>2, <1>3, <1>4, <1>6 DEF ScanTargetless, Frame
<1>7. CASE ScanUp
  BY <1>2, <1>3, <1>4, <1>7 DEF ScanUp, Frame
<1>8. CASE ScanHit
  <2> DEFINE t == Target[Tested]
             f == [Top EXCEPT !.phase = "leave", !.target = t,
                              !.toLeave = LeavePath(Top.from, Top.host, t),
                              !.toEnter = EnterPath(Top.host, t)]
  <2>1. /\ SetTop(f) /\ UNCHANGED depth
        /\ Top.host # Root /\ Top.index <= Len(Table[Top.host])
        /\ <<Top.event, Tested>> \in MayFire /\ t # NoState
    BY <1>8 DEF ScanHit, Testing
  <2>2. /\ f.phase = "leave" /\ f.event = Top.event /\ f.host = Top.host
        /\ f.index = Top.index /\ f.target = t
    BY <1>3 DEF Frame
  <2>3. Top.index \in 1 .. Len(Table[Top.host])
    <3>1. Len(Table[Top.host]) \in Nat
      BY <1>3, LenProperties, StateMachineAssumption
         DEF StateMachineAssumption, TableAssumption, Frame
    <3>2. Top.index \in Nat \ {0}
      BY <1>3 DEF Frame
    <3> QED BY <2>1, <3>1, <3>2
  <2>4. Tested = Found(Top)
    BY DEF Tested, Found
  <2> HIDE DEF f
  <2>5. frames'[1] = f => Answers(frames[1])'
    BY <1>2, <1>3, <2>1, <2>2, <2>3, <2>4 DEF Answers, Fires, Found
  <2> QED BY <1>2, <2>1, <2>2, <2>5, GoodRewrite
<1>9. CASE ScanEnd
  <2>1. /\ depth' = 1 => frames'[1].phase = "loop"
        /\ Busy' = NoEvent /\ Busy = Top.event
    BY <1>1, <1>2, <1>3, <1>9, ReturnOne DEF ScanEnd, Busy
  <2>2. Answered'
    BY <2>1 DEF Answered, Answers
  <2>3. Chart!Answer
    BY <1>2, <1>3, <2>1, Constants DEF Chart!Answer
  <2> QED BY <2>2, <2>3 DEF Good, Chart!Next
<1> QED BY <1>5, <1>6, <1>7, <1>8, <1>9

LEMMA GoodLeave ==
  ASSUME Inv, (\E s \in State : LeaveState(s)) \/ TakeAction \/ CallbackReturns
  PROVE  Good
<1>1. TypeInv /\ Orderly /\ Answered
  BY DEF Inv
<1>2. depth > 0 /\ UNCHANGED <<depth, current, events>>
  BY DEF LeaveState, TakeAction, CallbackReturns, Running
<1>3. depth = 1 /\ Top = frames[1] /\ Top \in Frame /\ Answers(Top)
  BY <1>1, <1>2, Inside DEF Answered
<1>4. ASSUME NEW f, SetTop(f), f.phase = Top.phase, f.event = Top.event,
             f.host = Top.host, f.index = Top.index, f.target = Top.target
      PROVE  Good
  <2>1. frames'[1] = f => Answers(frames[1])'
    BY <1>2, <1>3, <1>4 DEF Answers, Fires, Found, Leads
  <2> QED BY <1>2, <1>4, <2>1, GoodRewrite
<1>5. ASSUME NEW s \in State, LeaveState(s) PROVE Good
  BY <1>3, <1>4, <1>5 DEF LeaveState, Frame
<1>6. CASE CallbackReturns
  BY <1>3, <1>4, <1>6 DEF CallbackReturns, Frame
<1>7. CASE TakeAction
  <2> DEFINE b == <<Top.event, Tested>> \in PumpOnAction
             f == [Top EXCEPT !.phase = "enter", !.pump = b]
  <2>1. SetTop(f) /\ Top.phase = "leave"
    BY <1>7 DEF TakeAction, Running
  <2>2. /\ f.phase = "enter" /\ f.event = Top.event /\ f.host = Top.host
        /\ f.index = Top.index /\ f.target = Top.target
    BY <1>3 DEF Frame
  <2>3. current \in State /\ Fires(Top) /\ Top.target = Target[Found(Top)]
    BY <1>1, <1>2, <1>3, <2>1, Inside DEF Configured, Answers
  <2>4. Leads(Top.target, Top.target)
    BY <1>3, ChainFacts DEF Leads, Frame
  <2> HIDE DEF f
  <2>5. frames'[1] = f => Answers(frames[1])'
    BY <1>2, <2>2, <2>3, <2>4, Constants DEF Answers, Fires, Found, Leads
  <2> QED BY <1>2, <2>1, <2>2, <2>5, GoodRewrite
<1> QED BY <1>5, <1>6, <1>7

\* Following an initial state leads one level further down.
LEMMA LeadsOn ==
  ASSUME NEW s \in State, NEW t \in State, Leads(s, t), Initial[t] # NoState
  PROVE  Leads(s, Initial[t])
<1>1. /\ Initial[t] \in State /\ Chain[Initial[t]] = {Initial[t]} \cup Chain[t]
  BY ChainFacts
<1>2. Parent[Initial[t]] = t
  BY StateMachineAssumption DEF StateMachineAssumption, TreeAssumption
<1> QED BY <1>1, <1>2 DEF Leads

LEMMA GoodEnter ==
  ASSUME Inv, NEW s \in State,
         EnterAncestor(s) \/ EnterAndJump(s) \/ EnterLeaf(s)
  PROVE  Good
<1>1. TypeInv /\ Orderly /\ Answered
  BY DEF Inv
<1>2. depth > 0 /\ Top.phase = "enter"
  BY DEF EnterAncestor, EnterAndJump, EnterLeaf, Enters, Running
<1>3. /\ depth = 1 /\ Top = frames[1] /\ Top \in Frame /\ Answers(Top)
      /\ Top.target \in State
  BY <1>1, <1>2, Inside DEF Answered, Frame
<1>4. current = NoState \/ (current \in State /\ current # NoState)
  BY <1>1, Constants DEF TypeInv, TypeOK
<1>5. Target[Found(Top)] \in State \/ current = NoState
  BY <1>2, <1>3, Constants DEF Answers, Fires
<1>6. CASE EnterAncestor(s)
  <2> DEFINE f == [Top EXCEPT !.toEnter = @ \ {s}]
  <2>1. SetTop(f) /\ UNCHANGED <<depth, current, events>>
    BY <1>6 DEF EnterAncestor, Enters
  <2>2. /\ f.phase = Top.phase /\ f.event = Top.event /\ f.host = Top.host
        /\ f.index = Top.index /\ f.target = Top.target
    BY <1>3 DEF Frame
  <2> HIDE DEF f
  <2>3. frames'[1] = f => Answers(frames[1])'
    BY <1>2, <1>3, <2>1, <2>2 DEF Answers, Fires, Found, Leads
  <2> QED BY <1>2, <2>1, <2>2, <2>3, GoodRewrite
<1>7. CASE EnterAndJump(s)
  <2> DEFINE i == Initial[s]
             f == [Top EXCEPT !.toEnter = {i}, !.target = i]
  <2>1. /\ SetTop(f) /\ UNCHANGED <<depth, current, events>>
        /\ s = Top.target /\ i # NoState
    BY <1>7 DEF EnterAndJump, Enters
  <2>2. /\ f.phase = Top.phase /\ f.event = Top.event /\ f.host = Top.host
        /\ f.index = Top.index /\ f.target = i
    BY <1>3 DEF Frame
  <2>3. current = NoState => Leads(Root, i)
    BY <1>2, <1>3, <2>1, LeadsOn, Constants DEF Answers
  <2>4. current # NoState => Leads(Target[Found(Top)], i)
    BY <1>2, <1>3, <1>5, <2>1, LeadsOn DEF Answers
  <2> HIDE DEF f, i
  <2>5. frames'[1] = f => Answers(frames[1])'
    BY <1>2, <1>3, <2>1, <2>2, <2>3, <2>4 DEF Answers, Fires, Found, Leads
  <2> QED BY <1>2, <2>1, <2>2, <2>5, GoodRewrite
<1>8. CASE EnterLeaf(s)
  <2>1. /\ Return /\ UNCHANGED events /\ current' = s
        /\ s = Top.target /\ Initial[s] = NoState
    BY <1>8 DEF EnterLeaf
  <2>2. /\ depth' = 1 => frames'[1].phase = "loop"
        /\ Busy' = NoEvent /\ Busy = Top.event
    BY <1>1, <1>2, <1>3, <2>1, ReturnOne DEF Busy
  <2>3. Answered'
    BY <2>2 DEF Answered, Answers
  <2>4. CASE current = NoState
    <3>1. Leads(Root, s) /\ Top.event = NoEvent
      BY <1>2, <1>3, <2>1, <2>4 DEF Answers
    <3>2. Chart!SettlesIn(Root, s)
      BY <2>1, <3>1 DEF Chart!SettlesIn, Leads
    <3>3. Chart!Start
      BY <2>1, <2>2, <2>4, <3>1, <3>2 DEF Chart!Start
    <3> QED BY <2>3, <3>3 DEF Good, Chart!Next
  <2>5. CASE current # NoState
    <3>1. Fires(Top) /\ Leads(Target[Found(Top)], s)
      BY <1>2, <1>3, <2>1, <2>5 DEF Answers
    <3>2. Chart!SettlesIn(Target[Found(Top)], s)
      BY <2>1, <3>1 DEF Chart!SettlesIn, Leads
    <3>3. Chart!Moves(Top.event, current, s)
      BY <3>1, <3>2 DEF Chart!Moves, Fires, Found
    <3>4. Chart!Answer
      BY <2>1, <2>2, <3>1, <3>3, Constants DEF Chart!Answer, Fires
    <3> QED BY <2>3, <3>4 DEF Good, Chart!Next
  <2> QED BY <2>4, <2>5
<1> QED BY <1>6, <1>7, <1>8

LEMMA GoodNext == Inv /\ [Next]_vars => Good
<1> SUFFICES ASSUME Inv, [Next]_vars PROVE Good
  OBVIOUS
<1>1. CASE UNCHANGED vars
  <2>1. Answered' /\ Busy' = Busy /\ UNCHANGED <<current, events>>
    BY <1>1 DEF vars, Inv, Answered, Answers, Fires, Found, Leads, Busy
  <2> QED BY <2>1, Stutter
<1>2. CASE Step
  BY <1>2, GoodLoop, GoodScan, GoodLeave, GoodEnter DEF Step
<1>3. CASE Next
  BY <1>2, <1>3, GoodCallers, GoodLeave DEF Next
<1> QED BY <1>1, <1>3

\* The machine implements the statechart its clients program against, for
\* every tree and table, unless processEvent is re-entered: the run that hands
\* it the toolbar's signal shows that this condition cannot be dropped.
THEOREM StatechartImplemented ==
  ASSUME NoReentry PROVE Spec => ImplementsStatechart
<1>1. Init => Chart!Init
  BY DEF Init, Chart!Init, Busy
<1>2. Inv /\ [Next]_vars => Answered' /\ [Chart!Next]_(Chart!cvars)
  BY GoodNext DEF Good
<1>3. TypeInv /\ Orderly /\ Answered <=> Inv
  BY DEF Inv
<1> QED
  BY <1>1, <1>2, <1>3, TypeInvHolds, OrderlyHolds, AnsweredInit, PTL
     DEF Spec, Chart!Spec, ImplementsStatechart
=============================================================================
