-------------------------- MODULE ActivityStackProofs --------------------------
(***************************************************************************)
(* The safety invariants of ActivityStack, for any activities, names and   *)
(* bound on nested operations.  The core of the argument is that m_status  *)
(* lets only one operation be under way, so that nothing can change the    *)
(* stack while it waits, and its pointers stay those of the top.           *)
(***************************************************************************)
EXTENDS ActivityStack, TLAPS

(* No activity is on the stack twice: an instance is pushed when created.  *)
Distinct == \A i, j \in DOMAIN stack : stack[i] = stack[j] => i = j

(* m_status says whether an operation is under way, and there is at most   *)
(* one.                                                                    *)
OneCall ==
  \/ status = "READY" /\ calls = <<>>
  \/ status # "READY" /\ Len(calls) = 1

(* Operations work on a stack that is not empty, and there is a switch     *)
(* effect only between two activities.                                     *)
EffectBetween ==
  calls # <<>> =>
    /\ stack # <<>>
    /\ TopCall.step = "effect" => NoActivity \notin {TopCall.from, TopCall.to}

Up == {"onStart", "onResume"}

(* The activities of the stack that are not paused, and the one that is    *)
(* being stopped, at each point of an operation.                           *)
Running ==
  IF calls = <<>> THEN {Top}
  ELSE IF TopCall.op = "push"
       THEN {TopCall.to} \cup (IF TopCall.step = "effect" THEN {TopCall.from} ELSE {})
       ELSE IF TopCall.step = "effect" THEN {} ELSE {TopCall.to}

Stopping ==
  IF calls # <<>> /\ TopCall.op # "push" THEN {TopCall.from} ELSE {}

CalledRight ==
  \A a \in OnStack \ Stopping :
    called[a] \in IF a \in Running THEN Up ELSE {"onPause"}

MayShow ==
  IF calls = <<>> THEN {Top}
  ELSE IF TopCall.op = "push" THEN {TopCall.from} ELSE {TopCall.from, TopCall.to}

ShownRight == shown \cap OnStack \subseteq MayShow

(* Only activities that close themselves get a MSG_CLOSE on the stack.     *)
ClosingRight == closing \cap OnStack \subseteq ClosesItself

IInv ==
  /\ TypeOK
  /\ OneCall
  /\ Distinct
  /\ PointersCurrent
  /\ EffectBetween
  /\ CalledRight
  /\ ShownRight
  /\ ClosingRight
  /\ NoOrphanWindow
  /\ HeldWindowsExist

-----------------------------------------------------------------------------
(* The stack.                                                              *)

LEMMA StackFacts ==
  ASSUME TypeOK
  PROVE  /\ Len(stack) \in Nat /\ DOMAIN stack = 1 .. Len(stack)
         /\ OnStack \subseteq Activity
         /\ NoActivity \notin OnStack
<1>1. Len(stack) \in Nat /\ DOMAIN stack = 1 .. Len(stack)
  BY DEF TypeOK
<1>2. OnStack \subseteq Activity
  BY DEF TypeOK, OnStack
<1> QED BY <1>1, <1>2, ActivityAssumption

LEMMA EmptyStack ==
  ASSUME stack = <<>>
  PROVE  OnStack = {} /\ Top = NoActivity
BY DEF OnStack, Top

LEMMA TopFacts ==
  ASSUME TypeOK, stack # <<>>
  PROVE  Len(stack) > 0 /\ Top = stack[Len(stack)] /\ Top \in OnStack
<1>1. Len(stack) > 0
  BY DEF TypeOK
<1> QED BY <1>1, StackFacts DEF Top, OnStack

LEMMA TopType ==
  ASSUME TypeOK
  PROVE  Top \in Activity \cup {NoActivity}
<1>1. CASE stack = <<>>
  BY <1>1, EmptyStack
<1>2. CASE stack # <<>>
  BY <1>2, TopFacts, StackFacts
<1> QED BY <1>1, <1>2

LEMMA UnderTopFacts ==
  ASSUME TypeOK, Distinct, stack # <<>>
  PROVE  UnderTop \in (OnStack \ {Top}) \cup {NoActivity}
<1>1. ASSUME Len(stack) >= 2
      PROVE  UnderTop \in OnStack \ {Top}
  BY <1>1, TopFacts, StackFacts DEF UnderTop, OnStack, Distinct
<1> QED BY <1>1, StackFacts DEF UnderTop

LEMMA PushedStack ==
  ASSUME TypeOK, Distinct, NEW a \in Activity \ OnStack, stack' = Append(stack, a)
  PROVE  /\ stack' \in Seq(Activity) /\ stack' # <<>>
         /\ Distinct'
         /\ OnStack' = OnStack \cup {a}
         /\ Top' = a /\ UnderTop' = Top
<1> DEFINE n == Len(stack)
<1>1. n \in Nat /\ DOMAIN stack = 1 .. n /\ stack \in Seq(Activity)
  BY DEF TypeOK
<1>2. /\ stack' \in Seq(Activity) /\ Len(stack') = n + 1
      /\ DOMAIN stack' = 1 .. n + 1
      /\ \A i \in 1 .. n : stack'[i] = stack[i]
      /\ stack'[n + 1] = a
  BY <1>1
<1>3. OnStack' = OnStack \cup {a}
  BY <1>1, <1>2 DEF OnStack
<1>4. Distinct'
  BY <1>1, <1>2 DEF Distinct, OnStack
<1>5. stack' # <<>> /\ Top' = a
  BY <1>1, <1>2 DEF Top
<1>6. UnderTop' = Top
  <2>1. stack = <<>> <=> n = 0
    BY <1>1
  <2>2. UnderTop' = IF Len(stack') < 2 THEN NoActivity ELSE stack'[Len(stack') - 1]
    BY DEF UnderTop
  <2>3. CASE n = 0
    BY <1>2, <2>1, <2>2, <2>3 DEF Top
  <2>4. CASE n # 0
    <3>1. ~(Len(stack') < 2) /\ Len(stack') - 1 = n /\ n \in 1 .. n
      BY <1>1, <1>2, <2>4
    <3>2. UnderTop' = stack[n]
      BY <1>2, <2>2, <3>1
    <3> QED BY <2>1, <2>4, <3>2 DEF Top
  <2> QED BY <2>3, <2>4
<1> QED BY <1>2, <1>3, <1>4, <1>5, <1>6

(* What is left of the stack, whichever number of activities is kept.      *)
LEMMA CutStack ==
  ASSUME TypeOK, Distinct, NEW k \in 0 .. Len(stack), stack' = SubSeq(stack, 1, k)
  PROVE  /\ stack' \in Seq(Activity)
         /\ Distinct'
         /\ OnStack' = OnStack \ {stack[i] : i \in k + 1 .. Len(stack)}
         /\ Top' = IF k = 0 THEN NoActivity ELSE stack[k]
<1> DEFINE n == Len(stack)
<1>1. n \in Nat /\ DOMAIN stack = 1 .. n /\ stack \in Seq(Activity) /\ k \in Nat
  BY DEF TypeOK
<1>2. /\ stack' \in Seq(Activity) /\ Len(stack') = k
      /\ DOMAIN stack' = 1 .. k
      /\ \A i \in 1 .. k : stack'[i] = stack[i]
  BY <1>1
<1>3. Distinct'
  BY <1>1, <1>2 DEF Distinct
<1>4. OnStack' = OnStack \ {stack[i] : i \in k + 1 .. n}
  <2>1. \A i \in 1 .. k : stack[i] \in OnStack /\ \A j \in k + 1 .. n : stack[i] # stack[j]
    BY <1>1 DEF OnStack, Distinct
  <2>2. OnStack' = {stack[i] : i \in 1 .. k}
    BY <1>2 DEF OnStack
  <2>3. OnStack = {stack[i] : i \in 1 .. n}
    BY <1>1 DEF OnStack
  <2>4. ASSUME NEW x
        PROVE  x \in OnStack' <=> x \in OnStack \ {stack[i] : i \in k + 1 .. n}
    <3>1. ASSUME x \in OnStack'
          PROVE  x \in OnStack \ {stack[i] : i \in k + 1 .. n}
      BY <1>1, <2>1, <2>2, <3>1
    <3>2. ASSUME NEW i \in 1 .. n, x = stack[i],
                 x \notin {stack[j] : j \in k + 1 .. n}
          PROVE  x \in OnStack'
      BY <1>1, <2>2, <3>2
    <3> QED BY <2>3, <3>1, <3>2
  <2> QED BY <2>4
<1>5. Top' = IF k = 0 THEN NoActivity ELSE stack[k]
  BY <1>1, <1>2 DEF Top
<1> QED BY <1>2, <1>3, <1>4, <1>5

LEMMA PoppedStack ==
  ASSUME TypeOK, Distinct, stack # <<>>,
         stack' = SubSeq(stack, 1, Len(stack) - 1)
  PROVE  /\ stack' \in Seq(Activity)
         /\ Distinct'
         /\ OnStack' = OnStack \ {Top}
         /\ Top' = UnderTop
<1> DEFINE k == Len(stack) - 1
<1>1. k \in 0 .. Len(stack) /\ k + 1 = Len(stack) /\ Len(stack) \in Nat
  BY StackFacts, TopFacts
<1>2. {stack[i] : i \in k + 1 .. Len(stack)} = {Top}
  BY <1>1, TopFacts
<1>3. UnderTop = IF k = 0 THEN NoActivity ELSE stack[k]
  BY <1>1 DEF UnderTop
<1>4. /\ stack' \in Seq(Activity)
      /\ Distinct'
      /\ OnStack' = OnStack \ {stack[i] : i \in k + 1 .. Len(stack)}
      /\ Top' = IF k = 0 THEN NoActivity ELSE stack[k]
  BY <1>1, CutStack
<1> QED BY <1>2, <1>3, <1>4

LEMMA PoppedToStack ==
  ASSUME TypeOK, Distinct, NEW which \in OnStack,
         stack' = SubSeq(stack, 1, Kept(which))
  PROVE  /\ stack' \in Seq(Activity)
         /\ Distinct'
         /\ OnStack' = OnStack \ Above(which)
         /\ Top' = which
         /\ which # Top => Top \in Above(which)
         /\ Above(which) \subseteq OnStack
<1> DEFINE n == Len(stack)
           Left(k) == /\ k # 0 => stack[k] = which
                      /\ \A i \in k + 1 .. n : stack[i] # which
<1>1. n \in Nat /\ DOMAIN stack = 1 .. n
  BY DEF TypeOK
<1>2. PICK k \in 1 .. n : stack[k] = which
  BY <1>1 DEF OnStack
<1>3. k \in 0 .. n /\ Left(k)
  BY <1>1, <1>2 DEF Distinct
<1>4. Kept(which) \in 0 .. n /\ Left(Kept(which))
  BY <1>3 DEF Kept
<1>5. Kept(which) # 0
  BY <1>1, <1>2, <1>4
<1>6. /\ stack' \in Seq(Activity)
      /\ Distinct'
      /\ OnStack' = OnStack \ Above(which)
      /\ Top' = stack[Kept(which)]
  BY <1>4, <1>5, CutStack DEF Above
<1>7. stack[Kept(which)] = which
  BY <1>4, <1>5
<1>8. which # Top => Top \in Above(which)
  BY <1>1, <1>4, <1>5, <1>7 DEF Top, Above
<1>9. Above(which) \subseteq OnStack
  BY <1>1, <1>4 DEF Above, OnStack
<1> QED BY <1>6, <1>7, <1>8, <1>9

-----------------------------------------------------------------------------
(* The operation under way.                                                *)

(* What the pointers of an operation say of the stack (PointersCurrent).   *)
Pointing(c) ==
  /\ c.op = "push" => c.to = Top /\ c.from = UnderTop
  /\ c.op = "pop" => c.from = Top /\ c.to = UnderTop
  /\ c.op = "popTo" => c.from = Top /\ c.to \in OnStack \ {Top}

LEMMA CallFacts ==
  ASSUME IInv, calls # <<>>
  PROVE  /\ status # "READY"
         /\ Len(calls) = 1 /\ TopCall = calls[1] /\ CallersOf = <<>>
         /\ TopCall \in Call
         /\ Pointing(TopCall)
<1>1. status # "READY" /\ Len(calls) = 1 /\ calls \in Seq(Call)
  BY DEF IInv, OneCall, TypeOK
<1>2. TopCall = calls[1] /\ CallersOf = <<>> /\ TopCall \in Call /\ 1 \in DOMAIN calls
  BY <1>1 DEF TopCall, CallersOf
<1>3. Pointing(TopCall)
  BY <1>2 DEF IInv, PointersCurrent, Pointing
<1> QED BY <1>1, <1>2, <1>3

LEMMA OnePointer ==
  ASSUME calls' \in Seq(Call), Len(calls') = 1, Pointing(TopCall)'
  PROVE  PointersCurrent'
<1>1. \A i \in DOMAIN calls' : calls'[i] = TopCall' /\ calls'[i] \in Call
  BY DEF TopCall
<1>2. TopCall' \in Call
  BY DEF TopCall
<1>3. \A i \in DOMAIN calls' :
        CASE (TopCall').op = "push" -> (TopCall').to = Top' /\ (TopCall').from = UnderTop'
          [] (TopCall').op = "pop" -> (TopCall').from = Top' /\ (TopCall').to = UnderTop'
          [] (TopCall').op = "popTo" ->
               (TopCall').from = Top' /\ (TopCall').to \in OnStack' \ {Top'}
  BY <1>2 DEF Pointing, Call
<1> QED BY <1>1, <1>3 DEF PointersCurrent

LEMMA Beginning ==
  ASSUME IInv, calls = <<>>,
         NEW op \in {"push", "pop", "popTo"},
         NEW from \in Activity \cup {NoActivity}, NEW to \in Activity \cup {NoActivity},
         Begin(op, from, to)
  PROVE  /\ calls' \in Seq(Call) /\ Len(calls') = 1 /\ calls' # <<>>
         /\ TopCall' \in Call
         /\ (TopCall').op = op /\ (TopCall').from = from /\ (TopCall').to = to
         /\ (TopCall').step = IF NoActivity \in {from, to} THEN "callback" ELSE "effect"
<1> DEFINE c == [op |-> op, from |-> from, to |-> to,
                 step |-> IF NoActivity \in {from, to} THEN "callback" ELSE "effect"]
<1>1. c \in Call
  BY DEF Call
<1>2. calls' = Append(<<>>, c)
  BY DEF Begin
<1> HIDE DEF c
<1>3. calls' \in Seq(Call) /\ Len(calls') = 1 /\ calls'[1] = c /\ calls' # <<>>
  BY <1>1, <1>2
<1>4. TopCall' = c
  BY <1>3 DEF TopCall
<1> QED BY <1>1, <1>3, <1>4 DEF c

(* A request is answered only when no operation is under way.              *)
LEMMA Idle ==
  ASSUME IInv, status = "READY"
  PROVE  /\ calls = <<>>
         /\ \A a \in OnStack : called[a] \in IF a = Top THEN Up ELSE {"onPause"}
         /\ shown \cap OnStack \subseteq {Top}
<1>1. calls = <<>>
  BY DEF IInv, OneCall
<1> QED BY <1>1 DEF IInv, CalledRight, ShownRight, Stopping, Running, MayShow

-----------------------------------------------------------------------------
(* Every step preserves the invariant.                                     *)

LEMMA PushStep == ASSUME IInv, NEW a \in Activity, Push(a) PROVE IInv'
<1>1. /\ TypeOK /\ Distinct /\ NoOrphanWindow /\ HeldWindowsExist /\ ClosingRight
      /\ calls = <<>>
      /\ \A b \in OnStack : called[b] \in IF b = Top THEN Up ELSE {"onPause"}
      /\ shown \cap OnStack \subseteq {Top}
  BY Idle DEF Push, IInv
<1>2. /\ a \notin windows /\ a \notin OnStack
      /\ Begin("push", Top, a)
      /\ status' = "PUSH" /\ stack' = Append(stack, a)
      /\ called' = [called EXCEPT ![a] = "onStart"]
      /\ windows' = windows \cup {a} /\ shown' = shown /\ closing' = closing
  BY DEF Push
<1>3. Top \in Activity \cup {NoActivity} /\ OnStack \subseteq Activity /\ NoActivity \notin OnStack
  BY <1>1, StackFacts, TopType
<1>4. /\ stack' \in Seq(Activity) /\ stack' # <<>> /\ Distinct'
      /\ OnStack' = OnStack \cup {a} /\ Top' = a /\ UnderTop' = Top
  BY <1>1, <1>2, PushedStack
<1>5. /\ calls' \in Seq(Call) /\ Len(calls') = 1 /\ calls' # <<>>
      /\ (TopCall').op = "push" /\ (TopCall').from = Top /\ (TopCall').to = a
      /\ (TopCall').step = IF NoActivity \in {Top, a} THEN "callback" ELSE "effect"
  BY <1>1, <1>2, <1>3, Beginning
<1>6. TypeOK'
  BY <1>1, <1>2, <1>4, <1>5 DEF TypeOK, Callbacks
<1>7. OneCall' /\ EffectBetween'
  BY <1>2, <1>4, <1>5 DEF OneCall, EffectBetween
<1>8. PointersCurrent'
  <2>1. Pointing(TopCall)'
    BY <1>4, <1>5 DEF Pointing
  <2> QED BY <2>1, <1>5, OnePointer
<1>9. CalledRight'
  <2>1. Stopping' = {} /\ a \in Running'
    BY <1>5 DEF Stopping, Running
  <2>2. Top \in OnStack => Top \in Running'
    BY <1>3, <1>5, ActivityAssumption DEF Running
  <2>3. \A b \in Running' : b = a \/ b = Top
    BY <1>5 DEF Running
  <2>4. called' [a] = "onStart" /\ \A b \in OnStack : called'[b] = called[b]
    BY <1>1, <1>2, <1>3 DEF TypeOK
  <2> QED BY <1>1, <1>2, <1>4, <2>1, <2>2, <2>3, <2>4 DEF CalledRight, Up
<1>10. ShownRight'
  <2>1. MayShow' = {Top} /\ a \notin shown
    BY <1>1, <1>2, <1>5 DEF MayShow, TypeOK
  <2> QED BY <1>1, <1>2, <1>4, <2>1 DEF ShownRight
<1>11. ClosingRight' /\ NoOrphanWindow' /\ HeldWindowsExist'
  BY <1>1, <1>2, <1>4 DEF ClosingRight, NoOrphanWindow, HeldWindowsExist, TypeOK
<1> QED BY <1>4, <1>6, <1>7, <1>8, <1>9, <1>10, <1>11 DEF IInv

(* pop() and popTo() begin alike: the top is stopped, and `to' is what will *)
(* be uncovered.                                                           *)
LEMMA StopStep ==
  ASSUME IInv, status = "READY", stack # <<>>,
         NEW op \in {"pop", "popTo"},
         NEW to \in Activity \cup {NoActivity},
         to \in (OnStack \ {Top}) \cup {NoActivity},
         op = "pop" => to = UnderTop,
         op = "popTo" => to # NoActivity,
         Begin(op, Top, to),
         status' = "POP", called' = [called EXCEPT ![Top] = "onStop"],
         UNCHANGED <<stack, windows, shown, closing>>
  PROVE  IInv'
<1>1. /\ TypeOK /\ Distinct /\ NoOrphanWindow /\ HeldWindowsExist /\ ClosingRight
      /\ calls = <<>>
      /\ \A b \in OnStack : called[b] \in IF b = Top THEN Up ELSE {"onPause"}
      /\ shown \cap OnStack \subseteq {Top}
  BY Idle DEF IInv
<1>2. Top \in Activity /\ OnStack \subseteq Activity /\ NoActivity \notin OnStack
  BY <1>1, StackFacts, TopFacts
<1>3. Top' = Top /\ UnderTop' = UnderTop /\ OnStack' = OnStack /\ Distinct'
  BY <1>1 DEF Top, UnderTop, OnStack, Distinct
<1>4. /\ calls' \in Seq(Call) /\ Len(calls') = 1 /\ calls' # <<>>
      /\ (TopCall').op = op /\ (TopCall').from = Top /\ (TopCall').to = to
      /\ (TopCall').step = IF NoActivity \in {Top, to} THEN "callback" ELSE "effect"
  BY <1>1, <1>2, Beginning
<1>5. TypeOK'
  BY <1>1, <1>2, <1>4 DEF TypeOK, Callbacks
<1>6. OneCall' /\ EffectBetween'
  BY <1>4 DEF OneCall, EffectBetween
<1>7. PointersCurrent'
  <2>1. Pointing(TopCall)'
    BY <1>3, <1>4 DEF Pointing
  <2> QED BY <2>1, <1>4, OnePointer
<1>8. CalledRight'
  <2>1. Stopping' = {Top}
    BY <1>4 DEF Stopping
  <2>2. \A b \in Running' : b = NoActivity
    <3>1. CASE to = NoActivity
      BY <1>4, <3>1 DEF Running
    <3>2. CASE to # NoActivity
      <4>1. (TopCall').step = "effect"
        BY <1>2, <1>4, <3>2, ActivityAssumption
      <4> QED BY <1>4, <4>1 DEF Running
    <3> QED BY <3>1, <3>2
  <2>3. \A b \in OnStack \ {Top} : called'[b] = called[b]
    BY <1>1, <1>2 DEF TypeOK
  <2> QED BY <1>1, <1>2, <1>3, <2>1, <2>2, <2>3 DEF CalledRight
<1>9. ShownRight'
  <2>1. MayShow' = {Top, to}
    BY <1>4 DEF MayShow
  <2> QED BY <1>1, <1>3, <2>1 DEF ShownRight
<1>10. ClosingRight' /\ NoOrphanWindow' /\ HeldWindowsExist'
  BY <1>1, <1>3 DEF ClosingRight, NoOrphanWindow, HeldWindowsExist
<1> QED BY <1>3, <1>5, <1>6, <1>7, <1>8, <1>9, <1>10 DEF IInv

LEMMA PopStep == ASSUME IInv, Pop PROVE IInv'
<1>1. TypeOK /\ Distinct /\ stack # <<>>
  BY DEF IInv, Pop
<1>2. UnderTop \in (OnStack \ {Top}) \cup {NoActivity}
  BY <1>1, UnderTopFacts
<1>3. UnderTop \in Activity \cup {NoActivity}
  BY <1>1, <1>2, StackFacts
<1> QED BY <1>2, <1>3, StopStep DEF Pop

LEMMA PopToStep == ASSUME IInv, NEW which, PopTo(which) PROVE IInv'
<1>1. which \in OnStack \ {Top} /\ OnStack \subseteq Activity /\ NoActivity \notin OnStack
  BY StackFacts DEF IInv, PopTo
<1>2. stack # <<>>
  BY <1>1 DEF OnStack
<1> QED BY <1>1, <1>2, StopStep DEF PopTo

LEMMA SwitchToStep == ASSUME IInv, NEW n, SwitchTo(n) PROVE IInv'
BY PushStep, PopToStep DEF SwitchTo

(* The switch effect ends: what is being covered is paused, or what is     *)
(* being uncovered resumed.                                                *)
LEMMA EffectStep == ASSUME IInv, EffectEnds PROVE IInv'
<1> DEFINE c == TopCall
<1>1. /\ TypeOK /\ Distinct /\ NoOrphanWindow /\ HeldWindowsExist /\ ClosingRight
      /\ CalledRight /\ ShownRight /\ EffectBetween
  BY DEF IInv
<1>2. /\ calls # <<>> /\ c.step = "effect"
      /\ calls' = Append(CallersOf, [c EXCEPT !.step = "callback"])
      /\ UNCHANGED <<stack, status, windows, closing>>
  BY DEF EffectEnds
<1>3. /\ status # "READY" /\ Len(calls) = 1 /\ CallersOf = <<>>
      /\ c \in Call /\ Pointing(c)
  BY <1>2, CallFacts
<1>4. c.from \in Activity /\ c.to \in Activity
  BY <1>1, <1>2, <1>3 DEF EffectBetween, Call
<1>5. Top' = Top /\ UnderTop' = UnderTop /\ OnStack' = OnStack /\ Distinct'
  BY <1>1, <1>2 DEF Top, UnderTop, OnStack, Distinct
<1>6. /\ calls' \in Seq(Call) /\ Len(calls') = 1 /\ calls' # <<>>
      /\ (TopCall').op = c.op /\ (TopCall').from = c.from /\ (TopCall').to = c.to
      /\ (TopCall').step = "callback"
  <2> DEFINE d == [c EXCEPT !.step = "callback"]
  <2>1. d \in Call /\ d.op = c.op /\ d.from = c.from /\ d.to = c.to /\ d.step = "callback"
    BY <1>3 DEF Call
  <2>2. calls' = Append(<<>>, d)
    BY <1>2, <1>3
  <2> HIDE DEF d
  <2>3. calls' \in Seq(Call) /\ Len(calls') = 1 /\ calls'[1] = d /\ calls' # <<>>
    BY <2>1, <2>2
  <2>4. TopCall' = d
    BY <2>3 DEF TopCall
  <2> HIDE DEF c
  <2> QED BY <2>1, <2>3, <2>4
<1> HIDE DEF c
<1>7. /\ c.op \in {"push", "pop", "popTo"}
      /\ c.op = "push" => c.to = Top /\ c.from = UnderTop
      /\ c.op = "pop" => c.from = Top /\ c.to = UnderTop
      /\ c.op = "popTo" => c.from = Top /\ c.to \in OnStack \ {Top}
  BY <1>3 DEF Pointing, Call
<1>8. Top \in OnStack /\ UnderTop \in (OnStack \ {Top}) \cup {NoActivity}
  <2>1. Top # NoActivity
    BY <1>4, <1>7, ActivityAssumption
  <2>2. stack # <<>>
    BY <2>1, EmptyStack
  <2> QED BY <1>1, <2>2, TopFacts, UnderTopFacts
<1>9. c.from # c.to /\ c.from \in OnStack /\ c.to \in OnStack
  BY <1>4, <1>7, <1>8, ActivityAssumption
<1>10. /\ c.op = "push" => called' = [called EXCEPT ![c.from] = "onPause"] /\ shown' = shown
       /\ c.op # "push" => /\ called' = [called EXCEPT ![c.to] = "onResume"]
                           /\ shown' \in {shown, (shown \cup Window(c.to)) \ {Top}}
  BY DEF EffectEnds, c
<1>11. TypeOK'
  <2>1. called' \in [Activity -> Callbacks]
    BY <1>1, <1>10 DEF TypeOK, Callbacks
  <2>2. shown' \subseteq windows'
    BY <1>1, <1>2, <1>10 DEF TypeOK, Window
  <2> QED BY <1>1, <1>2, <1>6, <2>1, <2>2 DEF TypeOK
<1>12. OneCall' /\ EffectBetween'
  BY <1>1, <1>2, <1>3, <1>6 DEF OneCall, EffectBetween
<1>13. PointersCurrent'
  <2>1. Pointing(TopCall)'
    BY <1>5, <1>6, <1>7 DEF Pointing
  <2> QED BY <2>1, <1>6, OnePointer
<1>14. CalledRight'
  <2>1. CASE c.op = "push"
    <3>1. Stopping' = {} /\ Running' = {c.to} /\ Stopping = {} /\ Running = {c.to, c.from}
      BY <1>2, <1>6, <2>1 DEF Stopping, Running, c
    <3>2. called'[c.from] = "onPause" /\ \A b \in OnStack \ {c.from} : called'[b] = called[b]
      BY <1>1, <1>4, <1>10, <2>1, StackFacts DEF TypeOK
    <3> QED BY <1>1, <1>5, <1>9, <3>1, <3>2 DEF CalledRight
  <2>2. CASE c.op # "push"
    <3>1. Stopping' = {c.from} /\ Running' = {c.to} /\ Stopping = {c.from} /\ Running = {}
      BY <1>2, <1>6, <2>2 DEF Stopping, Running, c
    <3>2. called'[c.to] = "onResume" /\ \A b \in OnStack \ {c.to} : called'[b] = called[b]
      BY <1>1, <1>4, <1>10, <2>2, StackFacts DEF TypeOK
    <3> QED BY <1>1, <1>5, <1>9, <3>1, <3>2 DEF CalledRight, Up
  <2> QED BY <2>1, <2>2
<1>15. ShownRight'
  <2>1. CASE c.op = "push"
    BY <1>1, <1>2, <1>5, <1>6, <1>10, <2>1 DEF ShownRight, MayShow, c
  <2>2. CASE c.op # "push"
    <3>1. MayShow' = {c.from, c.to} /\ MayShow = {c.from, c.to}
      BY <1>2, <1>6, <2>2 DEF MayShow, c
    <3> QED BY <1>1, <1>5, <1>10, <2>2, <3>1 DEF ShownRight, Window
  <2> QED BY <2>1, <2>2
<1>16. ClosingRight' /\ NoOrphanWindow' /\ HeldWindowsExist'
  BY <1>1, <1>2, <1>5 DEF ClosingRight, NoOrphanWindow, HeldWindowsExist
<1> QED BY <1>5, <1>11, <1>12, <1>13, <1>14, <1>15, <1>16 DEF IInv

(* push() ends: the covered window is hidden.                              *)
LEMMA PushEndsStep == ASSUME IInv, PushEnds PROVE IInv'
<1> DEFINE c == TopCall
<1>1. /\ TypeOK /\ Distinct /\ NoOrphanWindow /\ HeldWindowsExist /\ ClosingRight
      /\ CalledRight /\ ShownRight
  BY DEF IInv
<1>2. /\ calls # <<>> /\ c.op = "push" /\ c.step = "callback"
      /\ calls' = CallersOf /\ status' = "READY"
      /\ shown' = (shown \cup Window(c.to)) \ {c.from}
      /\ UNCHANGED <<stack, called, windows, closing>>
  BY DEF PushEnds, Returns
<1>3. calls' = <<>> /\ Pointing(c)
  BY <1>2, CallFacts
<1>4. c.to = Top /\ c.from = UnderTop
  BY <1>2, <1>3 DEF Pointing
<1>5. Top' = Top /\ OnStack' = OnStack /\ Distinct'
  BY <1>1, <1>2 DEF Top, OnStack, Distinct
<1>6. TypeOK'
  BY <1>1, <1>2, <1>3 DEF TypeOK, Window
<1>7. OneCall' /\ EffectBetween' /\ PointersCurrent'
  BY <1>2, <1>3 DEF OneCall, EffectBetween, PointersCurrent
<1>8. CalledRight'
  <2>1. Stopping = {} /\ Running = {Top} /\ Stopping' = {} /\ Running' = {Top}
    BY <1>2, <1>3, <1>4, <1>5 DEF Stopping, Running
  <2> QED BY <1>1, <1>2, <1>5, <2>1 DEF CalledRight
<1>9. ShownRight'
  <2>1. MayShow = {c.from} /\ MayShow' = {Top}
    BY <1>2, <1>3, <1>5 DEF MayShow
  <2> HIDE DEF c
  <2> QED BY <1>1, <1>2, <1>4, <1>5, <2>1 DEF ShownRight, Window
<1>10. ClosingRight' /\ NoOrphanWindow' /\ HeldWindowsExist'
  BY <1>1, <1>2, <1>5 DEF ClosingRight, NoOrphanWindow, HeldWindowsExist
<1> QED BY <1>5, <1>6, <1>7, <1>8, <1>9, <1>10 DEF IInv

(* pop() and popTo() end alike: the top and what else is above `to' leave  *)
(* the stack, and all of it is told to close.                              *)
LEMMA RemovalStep ==
  ASSUME IInv, calls # <<>>, TopCall.op # "push", TopCall.step = "callback",
         NEW removed \in SUBSET OnStack, TopCall.from \in removed,
         stack' \in Seq(Activity), Distinct',
         OnStack' = OnStack \ removed, Top' = TopCall.to,
         calls' = CallersOf, status' = "READY",
         shown' = shown \cup Window(TopCall.to),
         closing' = closing \cup (removed \cap windows),
         UNCHANGED <<called, windows>>
  PROVE  IInv'
<1> DEFINE c == TopCall
<1>1. /\ TypeOK /\ NoOrphanWindow /\ HeldWindowsExist /\ ClosingRight
      /\ CalledRight /\ ShownRight
  BY DEF IInv
<1>2. calls' = <<>>
  BY CallFacts
<1>3. TypeOK'
  BY <1>1, <1>2 DEF TypeOK, Window
<1>4. OneCall' /\ EffectBetween' /\ PointersCurrent'
  BY <1>2 DEF OneCall, EffectBetween, PointersCurrent
<1>5. CalledRight'
  <2>1. Stopping = {c.from} /\ Running = {c.to} /\ Stopping' = {} /\ Running' = {c.to}
    BY <1>2 DEF Stopping, Running
  <2> HIDE DEF c
  <2>2. \A b \in OnStack' : b \in OnStack \ {c.from}
    BY DEF c
  <2> QED BY <1>1, <2>1, <2>2 DEF CalledRight
<1>6. ShownRight'
  <2>1. MayShow = {c.from, c.to} /\ MayShow' = {c.to}
    BY <1>2 DEF MayShow
  <2>2. shown' = shown \cup Window(c.to) /\ c.from \in removed
    OBVIOUS
  <2> HIDE DEF c
  <2> QED BY <1>1, <2>1, <2>2 DEF ShownRight, Window
<1>7. ClosingRight' /\ NoOrphanWindow' /\ HeldWindowsExist'
  BY <1>1 DEF ClosingRight, NoOrphanWindow, HeldWindowsExist
<1> QED BY <1>3, <1>4, <1>5, <1>6, <1>7 DEF IInv

LEMMA PopEndsStep == ASSUME IInv, PopEnds PROVE IInv'
<1>1. /\ calls # <<>> /\ TopCall.op = "pop" /\ TopCall.step = "callback"
      /\ calls' = CallersOf /\ status' = "READY"
      /\ shown' = shown \cup Window(TopCall.to)
      /\ stack' = SubSeq(stack, 1, Len(stack) - 1)
      /\ closing' = closing \cup ({TopCall.from} \cap windows)
      /\ UNCHANGED <<called, windows>>
  BY DEF PopEnds, Returns, CloseAll
<1>2. TopCall.from = Top /\ TopCall.to = UnderTop
  BY <1>1, CallFacts DEF Pointing
<1>3. TypeOK /\ Distinct
  BY DEF IInv
<1>4. CASE stack # <<>>
  <2>1. /\ stack' \in Seq(Activity) /\ Distinct'
        /\ OnStack' = OnStack \ {Top} /\ Top' = UnderTop
    BY <1>1, <1>3, <1>4, PoppedStack
  <2>2. {Top} \in SUBSET OnStack
    BY <1>3, <1>4, TopFacts
  <2> QED BY <1>1, <1>2, <2>1, <2>2, RemovalStep
<1>5. stack # <<>>
  BY <1>1 DEF IInv, EffectBetween
<1> QED BY <1>4, <1>5

LEMMA PopToEndsStep == ASSUME IInv, PopToEnds PROVE IInv'
<1>1. /\ calls # <<>> /\ TopCall.op = "popTo" /\ TopCall.step = "callback"
      /\ calls' = CallersOf /\ status' = "READY"
      /\ shown' = shown \cup Window(TopCall.to)
      /\ stack' = SubSeq(stack, 1, Kept(TopCall.to))
      /\ closing' = closing \cup (Above(TopCall.to) \cap windows)
      /\ UNCHANGED <<called, windows>>
  BY DEF PopToEnds, Returns, CloseAll
<1>2. TopCall.from = Top /\ TopCall.to \in OnStack \ {Top}
  BY <1>1, CallFacts DEF Pointing
<1>3. TypeOK /\ Distinct
  BY DEF IInv
<1>4. /\ stack' \in Seq(Activity) /\ Distinct'
      /\ OnStack' = OnStack \ Above(TopCall.to) /\ Top' = TopCall.to
      /\ Top \in Above(TopCall.to) /\ Above(TopCall.to) \subseteq OnStack
  BY <1>1, <1>2, <1>3, PoppedToStack
<1> QED BY <1>1, <1>2, <1>4, RemovalStep

(* MSG_CLOSE and the player's button.                                      *)
LEMMA CloseStep ==
  ASSUME IInv, NEW a \in Activity, CloseWindow(a) \/ ExitWhileBusy(a)
  PROVE  IInv'
<1>1. /\ UNCHANGED <<stack, status, calls, called>>
      /\ shown' \subseteq shown
      /\ \/ /\ a \in closing /\ closing' = closing \ {a}
            /\ windows' = windows \ {a} /\ shown' = shown \ {a}
         \/ /\ a \in ClosesItself \cap windows /\ closing' = closing \cup {a}
            /\ windows' = windows /\ shown' = shown
  BY DEF CloseWindow, ExitWhileBusy
<1>2. /\ Top' = Top /\ UnderTop' = UnderTop /\ OnStack' = OnStack
      /\ TopCall' = TopCall /\ Distinct' = Distinct
  BY <1>1 DEF Top, UnderTop, OnStack, TopCall, Distinct
<1>3. TypeOK'
  BY <1>1 DEF IInv, TypeOK
<1>4. OneCall' /\ EffectBetween' /\ PointersCurrent'
  BY <1>1, <1>2 DEF IInv, OneCall, EffectBetween, PointersCurrent
<1>5. CalledRight'
  BY <1>1, <1>2 DEF IInv, CalledRight, Stopping, Running
<1>6. ShownRight'
  <2>1. MayShow' = MayShow
    BY <1>1, <1>2 DEF MayShow
  <2> QED BY <1>1, <1>2, <2>1 DEF IInv, ShownRight
<1>7. ClosingRight' /\ NoOrphanWindow' /\ HeldWindowsExist'
  BY <1>1, <1>2 DEF IInv, ClosingRight, NoOrphanWindow, HeldWindowsExist
<1> QED BY <1>2, <1>3, <1>4, <1>5, <1>6, <1>7 DEF IInv

LEMMA InvariantInit == Init => IInv
<1> SUFFICES ASSUME Init PROVE IInv
  OBVIOUS
<1>1. /\ stack = <<>> /\ status = "READY" /\ calls = <<>>
      /\ windows = {} /\ shown = {} /\ closing = {}
  BY DEF Init
<1>2. OnStack = {} /\ Top = NoActivity /\ DOMAIN stack = {} /\ DOMAIN calls = {}
  BY <1>1, EmptyStack
<1>3. TypeOK
  BY <1>1 DEF Init, TypeOK, Callbacks
<1> QED BY <1>1, <1>2, <1>3 DEF IInv, OneCall, Distinct, PointersCurrent,
       EffectBetween, CalledRight, ShownRight, ClosingRight, NoOrphanWindow,
       HeldWindowsExist

LEMMA InvariantStep == IInv /\ [Next]_vars => IInv'
<1> SUFFICES ASSUME IInv, [Next]_vars PROVE IInv'
  OBVIOUS
<1>1. CASE UNCHANGED vars
  <2>1. /\ Top' = Top /\ UnderTop' = UnderTop /\ OnStack' = OnStack
        /\ TopCall' = TopCall /\ Distinct' = Distinct
        /\ Running' = Running /\ Stopping' = Stopping /\ MayShow' = MayShow
    BY <1>1 DEF vars, Top, UnderTop, OnStack, TopCall, Distinct, Running, Stopping,
                MayShow
  <2> QED BY <1>1, <2>1 DEF vars, IInv, TypeOK, OneCall, PointersCurrent,
             EffectBetween, CalledRight, ShownRight, ClosingRight, NoOrphanWindow,
             HeldWindowsExist
<1>2. CASE Step
  BY <1>2, EffectStep, PushEndsStep, PopEndsStep, PopToEndsStep DEF Step
<1> QED BY <1>1, <1>2, PushStep, PopStep, SwitchToStep, CloseStep DEF Next

LEMMA Invariant == Spec => []IInv
BY InvariantInit, InvariantStep, PTL DEF Spec

-----------------------------------------------------------------------------
(* The order of the callbacks.                                             *)

(* What a new last callback of an activity says of the one before it.      *)
Follows(a) ==
  called'[a] # called[a] =>
    CASE called'[a] = "onStart" -> a \notin windows
      [] called'[a] = "onPause" -> called[a] \in {"onStart", "onResume"}
      [] called'[a] = "onResume" -> called[a] = "onPause"
      [] called'[a] = "onStop" -> called[a] \in {"onStart", "onResume"}

(* A step calls back at most one activity: it sets the last callback of b. *)
LEMMA OneCallback ==
  ASSUME called \in [Activity -> Callbacks],
         NEW b \in Activity \cup {NoActivity}, NEW what,
         called' = [called EXCEPT ![b] = what],
         \/ what = "onStart" /\ b \notin windows
         \/ what \in {"onPause", "onStop"} /\ called[b] \in Up
         \/ what = "onResume" /\ called[b] = "onPause"
  PROVE  \A a \in Activity : Follows(a)
<1>1. ASSUME NEW a \in Activity, a # b
      PROVE  called'[a] = called[a]
  BY <1>1
<1>2. b \in Activity => called'[b] = what
  OBVIOUS
<1>3. b \in Activity => Follows(b)
  BY <1>2 DEF Follows, Up
<1> QED BY <1>1, <1>3 DEF Follows

LEMMA OrderStep == IInv /\ [Next]_vars => \A a \in Activity : Follows(a)
<1> SUFFICES ASSUME IInv, [Next]_vars PROVE \A a \in Activity : Follows(a)
  OBVIOUS
<1>1. TypeOK /\ called \in [Activity -> Callbacks]
  BY DEF IInv, TypeOK
<1>2. CASE UNCHANGED called
  BY <1>2 DEF Follows
<1>3. ASSUME NEW a \in Activity, Push(a)
      PROVE  \A b \in Activity : Follows(b)
  <2>1. called' = [called EXCEPT ![a] = "onStart"] /\ a \notin windows
    BY <1>3 DEF Push
  <2> QED BY <1>1, <2>1, OneCallback
<1>4. ASSUME status = "READY", stack # <<>>, called' = [called EXCEPT ![Top] = "onStop"]
      PROVE  \A b \in Activity : Follows(b)
  <2>1. Top \in OnStack /\ Top \in Activity
    BY <1>1, <1>4, TopFacts, StackFacts
  <2>2. called[Top] \in Up
    BY <1>4, <2>1, Idle
  <2> QED BY <1>1, <1>4, <2>1, <2>2, OneCallback
<1>5. CASE Pop
  BY <1>4, <1>5 DEF Pop
<1>6. ASSUME NEW which, PopTo(which)
      PROVE  \A b \in Activity : Follows(b)
  <2>1. stack # <<>>
    BY <1>6, EmptyStack DEF PopTo
  <2> QED BY <1>4, <1>6, <2>1 DEF PopTo
<1>7. CASE EffectEnds
  <2> DEFINE c == TopCall
  <2>1. /\ calls # <<>> /\ c.step = "effect" /\ NoActivity \notin {c.from, c.to}
        /\ stack # <<>> /\ Distinct /\ CalledRight
    BY <1>7 DEF EffectEnds, IInv, EffectBetween
  <2>2. c \in Call /\ Pointing(c)
    BY <2>1, CallFacts
  <2>3. /\ c.from \in Activity /\ c.to \in Activity
        /\ c.op \in {"push", "pop", "popTo"}
    BY <2>1, <2>2 DEF Call
  <2>4. Top \in OnStack /\ UnderTop \in (OnStack \ {Top}) \cup {NoActivity}
    BY <1>1, <2>1, TopFacts, UnderTopFacts
  <2>5. c.from \in OnStack /\ c.to \in OnStack /\ c.from # c.to
    BY <2>1, <2>2, <2>3, <2>4 DEF Pointing
  <2>6. CASE c.op = "push"
    <3>1. Stopping = {} /\ c.from \in Running
      BY <2>1, <2>6 DEF Stopping, Running
    <3>2. called[c.from] \in Up
      BY <2>1, <2>5, <3>1 DEF CalledRight
    <3>3. called' = [called EXCEPT ![c.from] = "onPause"]
      BY <1>7, <2>6 DEF EffectEnds
    <3> QED BY <1>1, <2>3, <3>2, <3>3, OneCallback
  <2>7. CASE c.op # "push"
    <3>1. Stopping = {c.from} /\ Running = {}
      BY <2>1, <2>7 DEF Stopping, Running
    <3>2. called[c.to] = "onPause"
      BY <2>1, <2>5, <3>1 DEF CalledRight
    <3>3. called' = [called EXCEPT ![c.to] = "onResume"]
      BY <1>7, <2>7 DEF EffectEnds
    <3> QED BY <1>1, <2>3, <3>2, <3>3, OneCallback
  <2> QED BY <2>6, <2>7
<1>8. CASE PushEnds \/ PopEnds \/ PopToEnds
  BY <1>2, <1>8 DEF PushEnds, PopEnds, PopToEnds
<1>9. ASSUME NEW a \in Activity, CloseWindow(a) \/ ExitWhileBusy(a)
      PROVE  \A b \in Activity : Follows(b)
  BY <1>2, <1>9 DEF CloseWindow, ExitWhileBusy
<1> QED BY <1>2, <1>3, <1>5, <1>6, <1>7, <1>8, <1>9 DEF Next, Step, SwitchTo, vars

-----------------------------------------------------------------------------
(* The pointers, windows and callbacks keep their types, and a window is   *)
(* shown or told to close only while it exists.                            *)
THEOREM TypeCorrect == Spec => []TypeOK
<1>1. IInv => TypeOK
  BY DEF IInv
<1> QED BY <1>1, Invariant, PTL

(* What an operation took for the top of the stack when it began is still  *)
(* its top when the nested loops have ended (ActivityStack.cc:62-251).     *)
THEOREM PointersAreCurrent == Spec => []PointersCurrent
<1>1. IInv => PointersCurrent
  BY DEF IInv
<1> QED BY <1>1, Invariant, PTL

(* No activity on the stack loses its window, unless it closes itself.     *)
THEOREM HeldWindowsDoExist == Spec => []HeldWindowsExist
<1>1. IInv => HeldWindowsExist
  BY DEF IInv
<1> QED BY <1>1, Invariant, PTL

(* Every window that is off the stack has been told to close               *)
(* (ActivityStack.cc:207, 245).                                            *)
THEOREM NoWindowIsOrphaned == Spec => []NoOrphanWindow
<1>1. IInv => NoOrphanWindow
  BY DEF IInv
<1> QED BY <1>1, Invariant, PTL

(* Between operations the top is up and all that it covers is paused.      *)
THEOREM CoveredAreAllPaused == Spec => []CoveredArePaused
<1>1. IInv => CoveredArePaused
  <2> SUFFICES ASSUME IInv, status = "READY", NEW i \in DOMAIN stack
               PROVE  IF i = Len(stack)
                      THEN called[stack[i]] \in {"onStart", "onResume"}
                      ELSE called[stack[i]] = "onPause"
    BY DEF CoveredArePaused
  <2>1. TypeOK /\ Distinct /\ i \in 1 .. Len(stack) /\ Len(stack) \in Nat
    BY StackFacts DEF IInv
  <2>2. stack # <<>> /\ stack[i] \in OnStack
    BY <2>1 DEF OnStack
  <2>3. stack[i] = Top <=> i = Len(stack)
    BY <2>1, <2>2, TopFacts DEF Distinct
  <2> QED BY <2>2, <2>3, Idle DEF Up
<1> QED BY <1>1, Invariant, PTL

(* Between operations only the top of the stack is on the screen, though   *)
(* the desktop shows and hides windows of its own accord.                  *)
THEOREM OnlyTopIsShown == Spec => []OnlyTopShown
<1>1. IInv => OnlyTopShown
  BY Idle DEF OnlyTopShown
<1> QED BY <1>1, Invariant, PTL

(* The callbacks of each activity come in order, whatever is requested in  *)
(* the nested loops and whatever operations meet.                          *)
THEOREM CallbacksInOrder == Spec => CallbackOrder
<1>1. IInv /\ [Next]_vars =>
        [\A a \in Activity : called'[a] # called[a] =>
           CASE called'[a] = "onStart" -> a \notin windows
             [] called'[a] = "onPause" -> called[a] \in {"onStart", "onResume"}
             [] called'[a] = "onResume" -> called[a] = "onPause"
             [] called'[a] = "onStop" -> called[a] \in {"onStart", "onResume"}]_vars
  BY OrderStep DEF Follows
<1> QED BY <1>1, Invariant, PTL DEF Spec, CallbackOrder
=============================================================================
