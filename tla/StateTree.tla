------------------------------- MODULE StateTree -------------------------------
(***************************************************************************)
(* The tree of states of common/StateMachine.cc, and what a transition     *)
(* from one place of it to another leaves and enters.                      *)
(***************************************************************************)

CONSTANTS
  State, Root, NoState,     \* the states, m_rootState, the NULL state pointer
  Parent,                   \* m_parentState, for every state but the root
  Chain,                    \* a state and all its ancestors, up to the root
  Initial                   \* m_initalState, or NoState

\* What the constructors State(parent) and addState build is a tree; Chain is
\* the reachability relation of its parent pointers.  setInitialState only
\* accepts a child, and enter() asserts that a state without an initial child
\* has no child at all.
TreeAssumption ==
  /\ Root \in State /\ NoState \notin State
  /\ Parent \in [State \ {Root} -> State]
  /\ Chain \in [State -> SUBSET State]
  /\ Chain[Root] = {Root}
  /\ \A s \in State \ {Root} :
        Chain[s] = {s} \cup Chain[Parent[s]] /\ s \notin Chain[Parent[s]]
  /\ \A s \in State : s \in Chain[s] /\ Root \in Chain[s]
  /\ \A s \in State : \A a \in Chain[s] :
        /\ Chain[a] \subseteq Chain[s]
        /\ s \in Chain[a] => s = a
  /\ \A s \in State : \A a, b \in Chain[s] : a \in Chain[b] \/ b \in Chain[a]
  /\ Initial \in [State -> State \cup {NoState}]
  /\ \A s \in State :
        IF Initial[s] = NoState
        THEN \A c \in State \ {Root} : Parent[c] # s
        ELSE Initial[s] # Root /\ Parent[Initial[s]] = s

-----------------------------------------------------------------------------

ProperAncestors(s) == Chain[s] \ {s}

\* The states that stay entered: those strictly above both ends.  (A target
\* that is an ancestor of the host is left and entered again.)
Kept(host, target) == ProperAncestors(host) \cap ProperAncestors(target)

\* A variant that forgets the states between the current leaf and the host.
LeavePathFromHost(from, host, target) == Chain[host] \ Kept(host, target)

\* current_2_transHost, then the walk up to the common ancestor.
LeavePath(from, host, target) == Chain[from] \ Kept(host, target)

\* A variant that forgets the ancestors of the target.
EnterPathTargetOnly(host, target) == {target}

\* A variant that enters every ancestor of the target again.
EnterPathFromRoot(host, target) == Chain[target]

\* target_2_ancestor.
EnterPath(host, target) == Chain[target] \ Kept(host, target)

\* A variant that leaves a state before its descendants.
DeepestLast(S) == {s \in S : S \cap Chain[s] = {s}}

\* leave() is called on the deepest state first, enter() on the highest.
Deepest(S) == {s \in S : S \subseteq Chain[s]}
Highest(S) == {s \in S : S \cap Chain[s] = {s}}
=============================================================================
