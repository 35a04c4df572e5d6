-------------------------- MODULE TransitionWalkProofs -------------------------
(***************************************************************************)
(* The walk of processEvent is right for every finite tree, every leaf and *)
(* every transition on it: it follows no NULL pointer, its two sides meet, *)
(* and it leaves and enters exactly the states of LeavePath and EnterPath, *)
(* in order.                                                               *)
(***************************************************************************)
EXTENDS TransitionWalk, FiniteSetTheorems, TLAPS

-----------------------------------------------------------------------------
(* The tree.                                                               *)

LEMMA ChainFacts ==
  ASSUME NEW s \in State
  PROVE  /\ Chain[s] \subseteq State /\ s \in Chain[s] /\ Root \in Chain[s]
         /\ \A a \in Chain[s] : Chain[a] \subseteq Chain[s] /\ (s \in Chain[a] => s = a)
         /\ \A a, b \in Chain[s] : a \in Chain[b] \/ b \in Chain[a]
         /\ IsFiniteSet(Chain[s]) /\ IsFiniteSet(ProperAncestors(s))
<1>1. /\ Chain[s] \subseteq State /\ s \in Chain[s] /\ Root \in Chain[s]
      /\ \A a \in Chain[s] : Chain[a] \subseteq Chain[s] /\ (s \in Chain[a] => s = a)
      /\ \A a, b \in Chain[s] : a \in Chain[b] \/ b \in Chain[a]
  BY WalkAssumption DEF TreeAssumption
<1>2. IsFiniteSet(Chain[s])
  BY <1>1, WalkAssumption, FS_Subset
<1>3. ProperAncestors(s) \in SUBSET Chain[s]
  BY DEF ProperAncestors
<1>4. IsFiniteSet(ProperAncestors(s))
  BY <1>2, <1>3, FS_Subset
<1> QED BY <1>1, <1>2, <1>4

LEMMA ParentFacts ==
  ASSUME NEW s \in State \ {Root}
  PROVE  /\ ParentState(s) \in State
         /\ ParentState(s) \in ProperAncestors(s)
         /\ ProperAncestors(s) = Chain[ParentState(s)]
<1>1. ParentState(s) = Parent[s] /\ Parent[s] \in State
  BY WalkAssumption DEF ParentState, TreeAssumption
<1>2. Chain[s] = {s} \cup Chain[Parent[s]] /\ s \notin Chain[Parent[s]]
  BY WalkAssumption DEF TreeAssumption
<1>3. ProperAncestors(s) = Chain[Parent[s]]
  BY <1>2 DEF ProperAncestors
<1> QED BY <1>1, <1>3, ChainFacts

LEMMA DepthType ==
  ASSUME NEW s \in State
  PROVE  Depth(s) \in Nat
BY ChainFacts, FS_CardinalityType DEF Depth

LEMMA RootDepth ==
  ASSUME NEW s \in State
  PROVE  Depth(s) = 0 <=> s = Root
<1>1. ProperAncestors(s) = {} <=> s = Root
  BY ChainFacts, WalkAssumption DEF ProperAncestors, TreeAssumption
<1> QED BY <1>1, ChainFacts, FS_EmptySet DEF Depth

LEMMA ParentDepth ==
  ASSUME NEW s \in State \ {Root}
  PROVE  Depth(s) = Depth(ParentState(s)) + 1
<1> DEFINE p == ParentState(s)
<1>1. p \in State /\ ProperAncestors(s) = Chain[p]
  BY ParentFacts
<1> HIDE DEF p
<1>2. Chain[p] = ProperAncestors(p) \cup {p} /\ p \notin ProperAncestors(p)
  <2>1. p \in Chain[p]
    BY <1>1, ChainFacts
  <2> QED BY <2>1 DEF ProperAncestors
<1>3. IsFiniteSet(ProperAncestors(p))
  BY <1>1, ChainFacts
<1>4. Cardinality(ProperAncestors(p) \cup {p}) = Cardinality(ProperAncestors(p)) + 1
  BY <1>2, <1>3, FS_AddElement
<1> QED BY <1>1, <1>2, <1>4 DEF Depth, p

LEMMA AncestorDepth ==
  ASSUME NEW s \in State, NEW a \in ProperAncestors(s)
  PROVE  Depth(a) < Depth(s)
<1>1. /\ a \in State /\ a # s
      /\ ProperAncestors(a) \in SUBSET ProperAncestors(s)
      /\ a \in ProperAncestors(s) /\ a \notin ProperAncestors(a)
  BY ChainFacts DEF ProperAncestors
<1>2. IsFiniteSet(ProperAncestors(s))
  BY ChainFacts
<1>3. /\ Cardinality(ProperAncestors(a)) <= Cardinality(ProperAncestors(s))
      /\ Cardinality(ProperAncestors(a)) # Cardinality(ProperAncestors(s))
  BY <1>1, <1>2, FS_Subset
<1> QED BY <1>1, <1>3, DepthType DEF Depth

(* Two states of one chain at the same depth are the same.                 *)
LEMMA SameDepth ==
  ASSUME NEW s \in State, NEW a \in Chain[s], NEW b \in Chain[s], Depth(a) = Depth(b)
  PROVE  a = b
<1>1. a \in State /\ b \in State /\ (a \in Chain[b] \/ b \in Chain[a])
  BY ChainFacts
<1>2. CASE a \in Chain[b] /\ a # b
  BY <1>1, <1>2, AncestorDepth, DepthType DEF ProperAncestors
<1>3. CASE b \in Chain[a] /\ a # b
  BY <1>1, <1>3, AncestorDepth, DepthType DEF ProperAncestors
<1> QED BY <1>1, <1>2, <1>3

-----------------------------------------------------------------------------
(* The two lists.                                                          *)

(* seq holds the states of S, each before the states above it.             *)
Leaving(seq, S) ==
  /\ seq \in Seq(State)
  /\ {seq[i] : i \in DOMAIN seq} = S
  /\ \A i, j \in DOMAIN seq : i < j => seq[j] \in ProperAncestors(seq[i])

(* seq holds the states of S, each after the states above it.              *)
Entering(seq, S) ==
  /\ seq \in Seq(State)
  /\ {seq[i] : i \in DOMAIN seq} = S
  /\ \A i, j \in DOMAIN seq : i < j => seq[i] \in ProperAncestors(seq[j])

LEMMA LeaveOneMore ==
  ASSUME NEW seq, NEW S, Leaving(seq, S), NEW a \in State,
         \A x \in S : a \in ProperAncestors(x)
  PROVE  Leaving(Append(seq, a), S \cup {a})
<1> DEFINE n == Len(seq)
           more == Append(seq, a)
<1>1. /\ seq \in Seq(State) /\ n \in Nat /\ DOMAIN seq = 1 .. n
      /\ more \in Seq(State) /\ DOMAIN more = 1 .. n + 1
      /\ \A i \in 1 .. n : more[i] = seq[i]
      /\ more[n + 1] = a
  BY DEF Leaving
<1> HIDE DEF n, more
<1>2. S = {seq[i] : i \in 1 .. n}
  BY <1>1 DEF Leaving
<1>3. {more[i] : i \in DOMAIN more} = S \cup {a}
  <2>1. \A i \in DOMAIN more : more[i] \in S \cup {a}
    BY <1>1, <1>2
  <2>2. \A x \in S : \E i \in DOMAIN more : x = more[i]
    BY <1>1, <1>2
  <2>3. n + 1 \in DOMAIN more
    BY <1>1
  <2> QED BY <1>1, <2>1, <2>2, <2>3
<1>4. ASSUME NEW i \in DOMAIN more, NEW j \in DOMAIN more, i < j
      PROVE  more[j] \in ProperAncestors(more[i])
  <2>1. i \in 1 .. n /\ more[i] = seq[i] /\ seq[i] \in S
    BY <1>1, <1>2, <1>4
  <2>2. CASE j = n + 1
    BY <1>1, <2>1, <2>2
  <2>3. CASE j # n + 1
    BY <1>1, <1>4, <2>1, <2>3 DEF Leaving
  <2> QED BY <2>2, <2>3
<1> QED BY <1>1, <1>3, <1>4 DEF Leaving, more

LEMMA EnterOneMore ==
  ASSUME NEW seq, NEW S, Entering(seq, S), NEW a \in State,
         \A x \in S : a \in ProperAncestors(x)
  PROVE  Entering(<<a>> \o seq, S \cup {a})
<1> DEFINE n == Len(seq)
           more == <<a>> \o seq
<1>1. /\ seq \in Seq(State) /\ n \in Nat /\ DOMAIN seq = 1 .. n
      /\ more \in Seq(State) /\ DOMAIN more = 1 .. n + 1
      /\ \A i \in 1 .. n : more[i + 1] = seq[i]
      /\ more[1] = a
  BY DEF Entering
<1> HIDE DEF n, more
<1>2. S = {seq[i] : i \in 1 .. n}
  BY <1>1 DEF Entering
<1>3. \A i \in 2 .. n + 1 : i - 1 \in 1 .. n /\ more[i] = seq[i - 1]
  <2> SUFFICES ASSUME NEW i \in 2 .. n + 1
               PROVE  i - 1 \in 1 .. n /\ more[i] = seq[i - 1]
    OBVIOUS
  <2>1. i - 1 \in 1 .. n /\ (i - 1) + 1 = i
    BY <1>1
  <2> QED BY <1>1, <2>1
<1>4. {more[i] : i \in DOMAIN more} = S \cup {a}
  <2>1. \A i \in DOMAIN more : more[i] \in S \cup {a}
    BY <1>1, <1>2, <1>3
  <2>2. \A x \in S : \E i \in DOMAIN more : x = more[i]
    <3> SUFFICES ASSUME NEW k \in 1 .. n
                 PROVE  \E i \in DOMAIN more : seq[k] = more[i]
      BY <1>2
    <3>1. k + 1 \in DOMAIN more /\ more[k + 1] = seq[k]
      BY <1>1
    <3> QED BY <3>1
  <2>3. 1 \in DOMAIN more
    BY <1>1
  <2> QED BY <1>1, <2>1, <2>2, <2>3
<1>5. ASSUME NEW i \in DOMAIN more, NEW j \in DOMAIN more, i < j
      PROVE  more[i] \in ProperAncestors(more[j])
  <2>1. j \in 2 .. n + 1 /\ j - 1 \in 1 .. n /\ more[j] = seq[j - 1] /\ seq[j - 1] \in S
    BY <1>1, <1>2, <1>3, <1>5
  <2>2. CASE i = 1
    BY <1>1, <2>1, <2>2
  <2>3. CASE i # 1
    <3>1. i \in 2 .. n + 1 /\ i - 1 < j - 1
      BY <1>1, <1>5, <2>3
    <3>2. i - 1 \in DOMAIN seq /\ j - 1 \in DOMAIN seq /\ more[i] = seq[i - 1]
      BY <1>1, <1>3, <2>1, <3>1
    <3> QED BY <2>1, <3>1, <3>2 DEF Entering
  <2> QED BY <2>2, <2>3
<1> QED BY <1>1, <1>4, <1>5 DEF Entering, more

-----------------------------------------------------------------------------
(* The invariant of the loops.                                             *)

Phase == {"leave", "level", "collect", "meet", "same", "done"}

(* Where the two pointers are: on the chains they climb, and not further   *)
(* than the last states that are left and entered.                         *)
Climbing ==
  /\ at \in Phase
  /\ current \in State /\ host \in Chain[current] \ {Root} /\ target \in State \ {Root}
  /\ old \in Chain[current] \ {Root} /\ new \in Chain[target]
  /\ IF at = "leave" THEN host \in Chain[old] ELSE old \in Chain[host]
  /\ at # "leave" => old \notin Kept(host, target)
  /\ (Chain[target] \ Chain[new]) \cap Kept(host, target) = {}

(* How far apart they are.                                                 *)
Levels ==
  /\ at \in {"leave", "level"} => new = target
  /\ at = "level" => old = host \/ Depth(old) > Depth(target)
  /\ at = "collect" => /\ Depth(old) <= Depth(new) + 1
                       /\ old = host \/ (new = target /\ Depth(old) = Depth(new) + 1)
  /\ at \in {"meet", "same"} => Depth(old) = Depth(new) + 1
  /\ at \in {"same", "done"} => ParentState(old) = new

(* What the two lists hold.                                                *)
Lists ==
  IF at = "done"
  THEN Leaving(left, LeavePath(current, host, target))
       /\ Entering(toEnter, EnterPath(host, target))
  ELSE Leaving(left, Chain[current] \
                       (IF at = "leave" THEN Chain[old] ELSE ProperAncestors(old)))
       /\ Entering(toEnter, Chain[target] \ Chain[new])

IInv == Climbing /\ Levels /\ Lists

LEMMA Below ==
  ASSUME NEW s \in State, NEW a \in Chain[s], NEW x \in Chain[s] \ Chain[a]
  PROVE  a \in ProperAncestors(x)
<1>1. a \in Chain[x]
  BY ChainFacts
<1>2. a \in Chain[a]
  BY ChainFacts
<1> QED BY <1>1, <1>2 DEF ProperAncestors

LEMMA OneMore ==
  ASSUME NEW s \in State, NEW a \in Chain[s]
  PROVE  (Chain[s] \ Chain[a]) \cup {a} = Chain[s] \ ProperAncestors(a)
<1>1. a \in Chain[a]
  BY ChainFacts
<1> QED BY <1>1 DEF ProperAncestors

(* What is above a kept state is kept.                                     *)
LEMMA KeptAbove ==
  ASSUME NEW h \in State, NEW t \in State, NEW x \in Kept(h, t), NEW a \in Chain[x]
  PROVE  a \in Kept(h, t)
<1>1. ASSUME NEW s \in State, x \in ProperAncestors(s)
      PROVE  a \in ProperAncestors(s)
  BY <1>1, ChainFacts DEF ProperAncestors
<1> QED BY <1>1 DEF Kept

(* The next state up: leave p, the parent of old.                          *)
LEMMA LeaveParent ==
  ASSUME NEW s \in State, NEW o \in Chain[s] \ {Root}, NEW seq,
         Leaving(seq, Chain[s] \ ProperAncestors(o))
  PROVE  /\ ParentState(o) \in Chain[s]
         /\ Leaving(Append(seq, ParentState(o)),
                    Chain[s] \ ProperAncestors(ParentState(o)))
<1> DEFINE p == ParentState(o)
<1>1. o \in State \ {Root} /\ Chain[o] \subseteq Chain[s]
  BY ChainFacts
<1>2. p \in State /\ p \in ProperAncestors(o) /\ ProperAncestors(o) = Chain[p]
  BY <1>1, ParentFacts
<1>3. p \in Chain[s]
  BY <1>1, <1>2 DEF ProperAncestors
<1> HIDE DEF p
<1>4. \A x \in Chain[s] \ Chain[p] : p \in ProperAncestors(x)
  BY <1>3, Below
<1>5. Leaving(Append(seq, p), (Chain[s] \ Chain[p]) \cup {p})
  BY <1>2, <1>4, LeaveOneMore
<1>6. (Chain[s] \ Chain[p]) \cup {p} = Chain[s] \ ProperAncestors(p)
  BY <1>3, OneMore
<1> QED BY <1>3, <1>5, <1>6 DEF p

LEMMA EnterNew ==
  ASSUME NEW s \in State, NEW n \in Chain[s] \ {Root}, NEW seq,
         Entering(seq, Chain[s] \ Chain[n])
  PROVE  /\ ParentState(n) \in Chain[s]
         /\ Chain[s] \ Chain[ParentState(n)] = (Chain[s] \ Chain[n]) \cup {n}
         /\ Entering(<<n>> \o seq, Chain[s] \ Chain[ParentState(n)])
<1> DEFINE p == ParentState(n)
<1>1. n \in State \ {Root} /\ Chain[n] \subseteq Chain[s]
  BY ChainFacts
<1>2. p \in State /\ p \in ProperAncestors(n) /\ ProperAncestors(n) = Chain[p]
  BY <1>1, ParentFacts
<1>3. p \in Chain[s]
  BY <1>1, <1>2 DEF ProperAncestors
<1> HIDE DEF p
<1>4. \A x \in Chain[s] \ Chain[n] : n \in ProperAncestors(x)
  BY Below
<1>5. Entering(<<n>> \o seq, (Chain[s] \ Chain[n]) \cup {n})
  BY <1>1, <1>4, EnterOneMore
<1>6. (Chain[s] \ Chain[n]) \cup {n} = Chain[s] \ Chain[p]
  BY <1>2, OneMore
<1> QED BY <1>3, <1>5, <1>6 DEF p

-----------------------------------------------------------------------------
(* The invariant holds, loop by loop.                                      *)

LEMMA InvariantInit == Init => IInv
<1> SUFFICES ASSUME Init PROVE IInv
  OBVIOUS
<1>1. /\ current \in State /\ host \in Chain[current] \ {Root} /\ target \in State \ {Root}
      /\ old = current /\ new = target /\ left = <<>> /\ toEnter = <<>> /\ at = "leave"
  BY DEF Init
<1>2. current \in Chain[current] /\ target \in Chain[target]
  BY <1>1, ChainFacts
<1>3. Chain[Root] = {Root}
  BY WalkAssumption DEF TreeAssumption
<1>4. Climbing
  BY <1>1, <1>2, <1>3 DEF Climbing, Phase
<1>5. Levels
  BY <1>1 DEF Levels
<1>6. Leaving(<<>>, {}) /\ Entering(<<>>, {})
  BY DEF Leaving, Entering
<1>7. Lists
  BY <1>1, <1>6 DEF Lists
<1> QED BY <1>4, <1>5, <1>7 DEF IInv

LEMMA LeaveToHostStep == ASSUME IInv, LeaveToHost PROVE IInv'
<1>1. /\ at = "leave" /\ current \in State
      /\ host \in Chain[current] \ {Root} /\ target \in State \ {Root}
      /\ old \in Chain[current] \ {Root} /\ host \in Chain[old] /\ new = target
      /\ (Chain[target] \ Chain[new]) \cap Kept(host, target) = {}
      /\ new \in Chain[target]
      /\ Leaving(left, Chain[current] \ Chain[old])
      /\ Entering(toEnter, Chain[target] \ Chain[new])
  BY DEF IInv, Climbing, Levels, Lists, LeaveToHost
<1>2. /\ left' = Append(left, old)
      /\ UNCHANGED <<current, host, target, new, toEnter>>
  BY DEF LeaveToHost, Leave
<1>3. old \in State \ {Root} /\ host \in State /\ host \in Chain[host]
  BY <1>1, ChainFacts
<1>4. Leaving(left', Chain[current] \ ProperAncestors(old))
  <2>1. \A x \in Chain[current] \ Chain[old] : old \in ProperAncestors(x)
    BY <1>1, Below
  <2>2. Leaving(left', (Chain[current] \ Chain[old]) \cup {old})
    BY <1>1, <1>2, <1>3, <2>1, LeaveOneMore
  <2> QED BY <1>1, <2>2, OneMore
<1>5. CASE old = host
  <2>1. at' = "level" /\ old' = old
    BY <1>5 DEF LeaveToHost
  <2>2. host \notin Kept(host, target)
    BY DEF Kept, ProperAncestors
  <2>3. Climbing'
    BY <1>1, <1>2, <1>3, <1>5, <2>1, <2>2 DEF Climbing, Phase
  <2>4. Levels'
    BY <1>1, <1>2, <1>5, <2>1 DEF Levels
  <2>5. Lists'
    BY <1>1, <1>2, <1>4, <2>1 DEF Lists
  <2> QED BY <2>3, <2>4, <2>5 DEF IInv
<1>6. CASE old # host
  <2> DEFINE p == ParentState(old)
  <2>1. at' = "leave" /\ old' = p
    BY <1>1, <1>6 DEF LeaveToHost
  <2>2. p \in State /\ p \in ProperAncestors(old) /\ ProperAncestors(old) = Chain[p]
    BY <1>3, ParentFacts
  <2> HIDE DEF p
  <2>3. host \in Chain[p] /\ p \in Chain[current]
    BY <1>1, <1>3, <1>6, <2>2, ChainFacts DEF ProperAncestors
  <2>4. p # Root
    BY <1>1, <2>3, WalkAssumption DEF TreeAssumption
  <2>5. Climbing'
    BY <1>1, <1>2, <2>1, <2>3, <2>4 DEF Climbing, Phase
  <2>6. Levels'
    BY <1>1, <1>2, <2>1 DEF Levels
  <2>7. Lists'
    BY <1>1, <1>2, <1>4, <2>1, <2>2 DEF Lists
  <2> QED BY <2>5, <2>6, <2>7 DEF IInv
<1> QED BY <1>5, <1>6

LEMMA LeaveToLevelStep == ASSUME IInv, LeaveToLevel PROVE IInv'
<1>1. /\ at = "level" /\ current \in State
      /\ host \in Chain[current] \ {Root} /\ target \in State \ {Root}
      /\ old \in Chain[current] \ {Root} /\ old \in Chain[host] /\ new = target
      /\ old \notin Kept(host, target)
      /\ old = host \/ Depth(old) > Depth(target)
      /\ (Chain[target] \ Chain[new]) \cap Kept(host, target) = {}
      /\ new \in Chain[target]
      /\ Leaving(left, Chain[current] \ ProperAncestors(old))
      /\ Entering(toEnter, Chain[target] \ Chain[new])
  BY DEF IInv, Climbing, Levels, Lists, LeaveToLevel
<1>2. UNCHANGED <<current, host, target, new, toEnter>>
  BY DEF LeaveToLevel
<1>3. old \in State \ {Root} /\ host \in State
  BY <1>1, ChainFacts
<1>4. Depth(old) \in Nat /\ Depth(target) \in Nat
  BY <1>1, <1>3, DepthType
<1>5. CASE Depth(old) - Depth(new) > 1
  <2> DEFINE p == ParentState(old)
  <2>1. at' = "level" /\ old' = p /\ left' = Append(left, p)
    BY <1>1, <1>5 DEF LeaveToLevel, Leave
  <2>2. p \in State /\ p \in ProperAncestors(old) /\ Depth(old) = Depth(p) + 1
    BY <1>3, ParentFacts, ParentDepth
  <2>3. p \in Chain[current] /\ Leaving(left', Chain[current] \ ProperAncestors(p))
    BY <1>1, <2>1, LeaveParent
  <2> HIDE DEF p
  <2>4. p \in Chain[host]
    BY <1>1, <1>3, <2>2, ChainFacts DEF ProperAncestors
  <2>5. Depth(p) \in Nat /\ Depth(p) > Depth(target)
    BY <1>1, <1>4, <1>5, <2>2, DepthType
  <2>6. p # Root
    BY <1>4, <2>2, <2>5, RootDepth
  <2>7. p \notin Kept(host, target)
    BY <1>1, <1>4, <2>5, AncestorDepth DEF Kept
  <2>8. Climbing'
    BY <1>1, <1>2, <2>1, <2>3, <2>4, <2>6, <2>7 DEF Climbing, Phase
  <2>9. Levels'
    <3>1. Depth(old') > Depth(target')
      BY <1>2, <2>1, <2>5
    <3> QED BY <1>1, <1>2, <2>1, <3>1 DEF Levels
  <2>10. Lists'
    BY <1>1, <1>2, <2>1, <2>3 DEF Lists
  <2> QED BY <2>8, <2>9, <2>10 DEF IInv
<1>6. CASE ~(Depth(old) - Depth(new) > 1)
  <2>1. at' = "collect" /\ UNCHANGED <<old, left>>
    BY <1>6 DEF LeaveToLevel
  <2>2. Climbing'
    BY <1>1, <1>2, <2>1 DEF Climbing, Phase
  <2>3. Depth(old) <= Depth(new) + 1 /\ (old = host \/ Depth(old) = Depth(new) + 1)
    BY <1>1, <1>4, <1>6
  <2>4. Levels'
    <3>1. Depth(old') = Depth(old) /\ Depth(new') = Depth(new)
      BY <1>2, <2>1
    <3> QED BY <1>1, <1>2, <2>1, <2>3, <3>1 DEF Levels
  <2>5. Lists'
    BY <1>1, <1>2, <2>1 DEF Lists
  <2> QED BY <2>2, <2>4, <2>5 DEF IInv
<1> QED BY <1>5, <1>6

LEMMA CollectToLevelStep == ASSUME IInv, CollectToLevel PROVE IInv'
<1>1. /\ at = "collect" /\ current \in State
      /\ host \in Chain[current] \ {Root} /\ target \in State \ {Root}
      /\ old \in Chain[current] \ {Root} /\ old \in Chain[host]
      /\ old \notin Kept(host, target)
      /\ Depth(old) <= Depth(new) + 1
      /\ old = host \/ (new = target /\ Depth(old) = Depth(new) + 1)
      /\ (Chain[target] \ Chain[new]) \cap Kept(host, target) = {}
      /\ new \in Chain[target]
      /\ Leaving(left, Chain[current] \ ProperAncestors(old))
      /\ Entering(toEnter, Chain[target] \ Chain[new])
  BY DEF IInv, Climbing, Levels, Lists, CollectToLevel
<1>2. UNCHANGED <<current, host, target, old, left>>
  BY DEF CollectToLevel
<1>3. old \in State \ {Root} /\ host \in State /\ new \in State
  BY <1>1, ChainFacts
<1>4. Depth(old) \in Nat /\ Depth(new) \in Nat /\ Depth(old) # 0
  BY <1>3, DepthType, RootDepth
<1>5. CASE Depth(new) - Depth(old) >= 0
  <2> DEFINE q == ParentState(new)
  <2>1. at' = "collect" /\ new' = q /\ toEnter' = <<new>> \o toEnter
    BY <1>1, <1>5 DEF CollectToLevel, Collect
  <2>2. old = host /\ new \in Chain[target] \ {Root}
    BY <1>1, <1>3, <1>4, <1>5, RootDepth
  <2>3. /\ q \in Chain[target]
        /\ Chain[target] \ Chain[q] = (Chain[target] \ Chain[new]) \cup {new}
        /\ Entering(toEnter', Chain[target] \ Chain[q])
    BY <1>1, <2>1, <2>2, EnterNew
  <2>4. Depth(q) \in Nat /\ Depth(new) = Depth(q) + 1
    BY <1>3, <2>2, ParentFacts, ParentDepth, DepthType
  <2> HIDE DEF q
  <2>5. new \notin Kept(host, target)
    BY <1>3, <1>4, <1>5, <2>2, AncestorDepth DEF Kept
  <2>6. (Chain[target] \ Chain[q]) \cap Kept(host, target) = {}
    BY <1>1, <2>3, <2>5
  <2>7. Climbing'
    BY <1>1, <1>2, <2>1, <2>3, <2>6 DEF Climbing, Phase
  <2>8. Levels'
    <3>1. Depth(old') <= Depth(new') + 1
      BY <1>2, <1>4, <1>5, <2>1, <2>4
    <3> QED BY <1>2, <2>1, <2>2, <3>1 DEF Levels
  <2>9. Lists'
    BY <1>1, <1>2, <2>1, <2>3 DEF Lists
  <2> QED BY <2>7, <2>8, <2>9 DEF IInv
<1>6. CASE ~(Depth(new) - Depth(old) >= 0)
  <2>1. at' = "meet" /\ UNCHANGED <<new, toEnter>>
    BY <1>6 DEF CollectToLevel
  <2>2. Climbing'
    BY <1>1, <1>2, <2>1 DEF Climbing, Phase
  <2>3. Depth(old) = Depth(new) + 1
    BY <1>1, <1>4, <1>6
  <2>4. Levels'
    <3>1. Depth(old') = Depth(old) /\ Depth(new') = Depth(new)
      BY <1>2, <2>1
    <3> QED BY <2>1, <2>3, <3>1 DEF Levels
  <2>5. Lists'
    BY <1>1, <1>2, <2>1 DEF Lists
  <2> QED BY <2>2, <2>4, <2>5 DEF IInv
<1> QED BY <1>5, <1>6

LEMMA ClimbTogetherStep == ASSUME IInv, ClimbTogether PROVE IInv'
<1>1. /\ at = "meet" /\ current \in State
      /\ host \in Chain[current] \ {Root} /\ target \in State \ {Root}
      /\ old \in Chain[current] \ {Root} /\ old \in Chain[host]
      /\ old \notin Kept(host, target)
      /\ Depth(old) = Depth(new) + 1
      /\ (Chain[target] \ Chain[new]) \cap Kept(host, target) = {}
      /\ new \in Chain[target]
      /\ Leaving(left, Chain[current] \ ProperAncestors(old))
      /\ Entering(toEnter, Chain[target] \ Chain[new])
  BY DEF IInv, Climbing, Levels, Lists, ClimbTogether
<1>2. UNCHANGED <<current, host, target>>
  BY DEF ClimbTogether
<1>3. old \in State \ {Root} /\ host \in State /\ new \in State
  BY <1>1, ChainFacts
<1> DEFINE p == ParentState(old)
           q == ParentState(new)
<1>4. /\ p \in State /\ p \in ProperAncestors(old) /\ Depth(old) = Depth(p) + 1
      /\ p \in Chain[current]
      /\ Leaving(Append(left, p), Chain[current] \ ProperAncestors(p))
  BY <1>1, <1>3, ParentFacts, ParentDepth, LeaveParent
<1>5. p \in Chain[host]
  BY <1>1, <1>3, <1>4, ChainFacts DEF ProperAncestors
<1>6. Depth(p) = Depth(new) /\ Depth(p) \in Nat
  BY <1>1, <1>3, <1>4, DepthType
<1>7. CASE p # new
  <2>1. /\ at' = "meet" /\ old' = p /\ left' = Append(left, p)
        /\ new' = q /\ toEnter' = <<new>> \o toEnter
    BY <1>1, <1>7 DEF ClimbTogether, Collect, Leave
  <2>2. p # Root /\ new # Root
    BY <1>3, <1>4, <1>6, <1>7, RootDepth
  <2>3. /\ q \in Chain[target]
        /\ Chain[target] \ Chain[q] = (Chain[target] \ Chain[new]) \cup {new}
        /\ Entering(toEnter', Chain[target] \ Chain[q])
    BY <1>1, <2>1, <2>2, EnterNew
  <2>4. Depth(q) \in Nat /\ Depth(new) = Depth(q) + 1
    BY <1>3, <2>2, ParentFacts, ParentDepth, DepthType
  <2>5. p \notin Kept(host, target)
    BY <1>1, <1>6, <1>7, SameDepth DEF Kept, ProperAncestors
  <2>6. new \notin Kept(host, target)
    BY <1>3, <1>5, <1>6, <1>7, SameDepth DEF Kept, ProperAncestors
  <2> HIDE DEF p, q
  <2>7. (Chain[target] \ Chain[q]) \cap Kept(host, target) = {}
    BY <1>1, <2>3, <2>6
  <2>8. Climbing'
    BY <1>1, <1>2, <1>4, <1>5, <2>1, <2>2, <2>3, <2>5, <2>7 DEF Climbing, Phase
  <2>9. Levels'
    <3>1. Depth(old') = Depth(new') + 1
      BY <1>6, <2>1, <2>4
    <3> QED BY <2>1, <3>1 DEF Levels
  <2>10. Lists'
    BY <1>2, <1>4, <2>1, <2>3 DEF Lists
  <2> QED BY <2>8, <2>9, <2>10 DEF IInv
<1>8. CASE p = new
  <2>1. at' = "same" /\ UNCHANGED <<old, new, left, toEnter>>
    BY <1>8 DEF ClimbTogether
  <2>2. Climbing'
    BY <1>1, <1>2, <2>1 DEF Climbing, Phase
  <2>3. Levels'
    <3>1. Depth(old') = Depth(new') + 1 /\ ParentState(old') = new'
      BY <1>1, <1>8, <2>1
    <3> QED BY <2>1, <3>1 DEF Levels
  <2>4. Lists'
    BY <1>1, <1>2, <2>1 DEF Lists
  <2> QED BY <2>2, <2>3, <2>4 DEF IInv
<1> QED BY <1>7, <1>8

LEMMA LeaveTargetStep == ASSUME IInv, LeaveTarget PROVE IInv'
<1>1. /\ at = "same" /\ current \in State
      /\ host \in Chain[current] \ {Root} /\ target \in State \ {Root}
      /\ old \in Chain[current] \ {Root} /\ old \in Chain[host]
      /\ old \notin Kept(host, target)
      /\ ParentState(old) = new
      /\ (Chain[target] \ Chain[new]) \cap Kept(host, target) = {}
      /\ new \in Chain[target]
      /\ Leaving(left, Chain[current] \ ProperAncestors(old))
      /\ Entering(toEnter, Chain[target] \ Chain[new])
  BY DEF IInv, Climbing, Levels, Lists, LeaveTarget
<1>2. UNCHANGED <<current, host, target, old, new>> /\ at' = "done"
  BY DEF LeaveTarget
<1>3. old \in State \ {Root} /\ host \in State /\ new \in State
  BY <1>1, ChainFacts
<1>4. ProperAncestors(old) = Chain[new] /\ new \in ProperAncestors(old)
  BY <1>1, <1>3, ParentFacts
<1>5. ProperAncestors(old) \subseteq ProperAncestors(host)
  BY <1>1, <1>3, ChainFacts DEF ProperAncestors
<1>6. Climbing' /\ Levels'
  BY <1>1, <1>2 DEF Climbing, Levels, Phase
<1>7. CASE toEnter = <<>>
  <2>1. left' = Append(left, new) /\ toEnter' = <<new>>
    BY <1>1, <1>7 DEF LeaveTarget, Leave
  <2>2. new = target
    <3>1. Chain[target] \ Chain[new] = {}
      BY <1>1, <1>7 DEF Entering
    <3> QED BY <1>1, <1>3, <3>1, ChainFacts
  <2>3. Kept(host, target) = ProperAncestors(target)
    BY <1>4, <1>5, <2>2 DEF Kept, ProperAncestors
  <2>4. Leaving(left', LeavePath(current, host, target))
    BY <1>1, <2>1, <2>2, <2>3, LeaveParent DEF LeavePath
  <2>5. EnterPath(host, target) = {target}
    <3>1. target \in Chain[target]
      BY <1>1, ChainFacts
    <3> QED BY <2>3, <3>1 DEF EnterPath, ProperAncestors
  <2>6. Entering(<<target>>, {target})
    BY <1>1 DEF Entering
  <2>7. Lists'
    BY <1>2, <2>1, <2>2, <2>4, <2>5, <2>6 DEF Lists
  <2> QED BY <1>6, <2>7 DEF IInv
<1>8. CASE toEnter # <<>>
  <2>1. UNCHANGED <<left, toEnter>>
    BY <1>8 DEF LeaveTarget
  <2>2. new # target
    <3>1. CASE new = target
      <4>1. toEnter \in Seq(State) /\ {toEnter[i] : i \in DOMAIN toEnter} = {}
        BY <1>1, <3>1 DEF Entering
      <4>2. Len(toEnter) \in Nat \ {0} /\ 1 \in DOMAIN toEnter
        BY <1>8, <4>1
      <4> QED BY <4>1, <4>2
    <3> QED BY <3>1
  <2>3. Kept(host, target) = Chain[new]
    <3>1. new \in Kept(host, target)
      BY <1>1, <1>4, <1>5, <2>2 DEF Kept, ProperAncestors
    <3>2. Chain[new] \subseteq Kept(host, target)
      BY <1>1, <1>3, <3>1, KeptAbove
    <3>3. Kept(host, target) \subseteq Chain[new]
      BY <1>1 DEF Kept, ProperAncestors
    <3> QED BY <3>2, <3>3
  <2>4. Lists'
    BY <1>1, <1>2, <1>4, <2>1, <2>3 DEF Lists, LeavePath, EnterPath
  <2> QED BY <1>6, <2>4 DEF IInv
<1> QED BY <1>7, <1>8

LEMMA InvariantStep == IInv /\ [Next]_vars => IInv'
<1> SUFFICES ASSUME IInv, [Next]_vars PROVE IInv'
  OBVIOUS
<1>1. CASE LeaveToHost
  BY <1>1, LeaveToHostStep
<1>2. CASE LeaveToLevel
  BY <1>2, LeaveToLevelStep
<1>3. CASE CollectToLevel
  BY <1>3, CollectToLevelStep
<1>4. CASE ClimbTogether
  BY <1>4, ClimbTogetherStep
<1>5. CASE LeaveTarget
  BY <1>5, LeaveTargetStep
<1>6. CASE UNCHANGED vars
  BY <1>6 DEF IInv, Climbing, Levels, Lists, vars
<1> QED BY <1>1, <1>2, <1>3, <1>4, <1>5, <1>6 DEF Next

LEMMA Invariant == Spec => []IInv
BY InvariantInit, InvariantStep, PTL DEF Spec

-----------------------------------------------------------------------------
(* What the loops promise.                                                 *)

\* In every finite tree, for every leaf and every transition on it, the loops
\* of processEvent follow no NULL parent pointer and never leave the root.
THEOREM NeverNullParent == Spec => []NoNullParent
<1>1. ASSUME IInv PROVE NoNullParent
  <2>1. /\ old \in State \ {Root} /\ new \in State
        /\ current \in State /\ host \in State \ {Root} /\ target \in State \ {Root}
    BY <1>1, ChainFacts DEF IInv, Climbing
  <2>2. Root \in Chain[old] /\ Root \in ProperAncestors(old) /\ Root \in Kept(host, target)
    BY <2>1, ChainFacts DEF Kept, ProperAncestors
  <2>3. left \in Seq(State) /\ Root \notin {left[i] : i \in DOMAIN left}
    BY <1>1, <2>2 DEF IInv, Lists, Leaving, LeavePath
  <2> QED BY <2>1, <2>3 DEF NoNullParent
<1> QED BY Invariant, <1>1, PTL

\* The assertion between the loops of processEvent never fails: the two sides
\* of the last loop are one level apart, and so they meet.
THEOREM LevelsAlwaysMeet == Spec => []LevelsMeet
<1>1. IInv => LevelsMeet
  BY DEF IInv, Levels, LevelsMeet
<1> QED BY Invariant, <1>1, PTL

\* The pointer walk of processEvent computes what StateMachine takes for it:
\* the states left are LeavePath, deepest first, those to enter EnterPath,
\* highest first, each once.
THEOREM WalkIsThePath == Spec => []WalkIsPath
<1>1. IInv => WalkIsPath
  BY DEF IInv, Lists, Leaving, Entering, WalkIsPath, InOrder
<1> QED BY Invariant, <1>1, PTL
==============================================================================
