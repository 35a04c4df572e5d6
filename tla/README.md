# Verification of the cell-phone demo

TLA+ models of the phone user interface in `src/` (C++ on MiniGUI, mGEff and
mGNCS), checked with TLC and, where it says so, proved with TLAPS.  A definition
and the lines of code it stands for are paired in `PROJECT.json` (`map`).

## 1. The system

Everything runs in one GUI thread.  There are no locks and no preemption, but a
great deal of **re-entrancy**: a function that plays an animation to its end
(`mGEffAnimationSyncRun`, `mGEffAnimationWait`) runs a *nested message loop*, and
that loop dispatches clicks, timers, notices and `MSG_CLOSE` in the middle of the
function that started the animation.  What its locals and members said before
the loop may be stale after it.  Almost every hard behaviour of this code
comes from there; the unit tests under `src/test` never run a nested loop.

| part | state | operations | interacts with |
|---|---|---|---|
| state machine (`common/StateMachine.cc`) | tree of `State`, `m_entered` of each, `m_currentState`, `m_status`, queue `m_events` | `start`, `postEvent`, `onEvent`, `processEvent`; `enter`, `leave`, `eventTest`, `action` inside | gets events from a window procedure, a notice message for each; calls `onEnter`, `onLeave`, actions |
| desktop (`desktop/IPhoneDesktop*.cc`) | 15 states, recognisers' memories, layout, items, view, animations | window procedure, the states' callbacks | feeds the machine; pushes activities |
| activity stack (`common/ActivityStack.cc`) | `m_activities`, `m_status` | `push`, `pop`, `back`, `home`, `switchTo`, `popTo` | calls `onStart/onPause/onResume/onStop/show/hide`; sends `MSG_CLOSE` |
| desktop activity, toolbar (`desktop/ActivityDesktop.cc`) | `m_hasBeenPoped`, `m_needSwitchEffect` | life-cycle callbacks, toolbar buttons | posts signals to the machine, calls it directly, calls the stack |
| layout and items | pages (at most 10), 16 places each | move, new/delete page | changed by Pickup, Transposition, PageTurning |
| query cache (`common/SQLiteDB.cc`, `SQLiteCursor.cc`) | `m_resultCache`, `m_sqlResult`, `m_lastSQLCmd`; a cursor's rows | query, insert, update, remove, requery | rows shared by raw pointer |
| providers, resolver, services | registered providers, observers | query, update, notify | call the query cache |
| time service (`common/TimeService.cc`) | `m_time`, `m_diff`, list of listeners | tick, `set`, add/remove listener | calls the handlers of the information bar and of the settings pages |
| lock screen | a state machine of its own (`dmStateMachine.cc`) | unlock, bubbles, toolbar | pushes the desktop |
| applications | forms, lists, players | | clients of all the above |

What makes the parts correct:

* *state machine*: one event at a time, to completion, in posting order; a
  proper configuration (the current leaf and its ancestors) between events; no
  event forgotten; every activation ends.
* *activity stack*: an operation's pointers stay valid through its nested
  loops; each window that leaves the stack is closed, none that stays is; the
  callbacks of an activity come in a sensible order; only the top is shown.
* *layout*: every item has a place the user can scroll to, no two the same; a
  page has no hole in front of an item, and only an empty page is deleted; the
  items that are not carried keep their order.
* *query cache*: an answer is what the database would answer; a row is deleted
  once, and not while a cursor reads it.
* *time service*: whoever shows the time shows the current one; what the user
  has set is the date picked, and survives the ticks.

The hazards of the code are listed one by one, with their lines and the
properties that are for them, in `PROJECT.json` (`hazards`).

## 2. Modules

```
StateTree         the tree of states; what a transition leaves and enters
  |- StateMachine       the machine, with its call stack   --implements--> Statechart
  |    |- MCDesktopMachine (+ DesktopStates)    runs desktop_queue, desktop_toolbar
  |    |- MCStateMachine                        run  machine_shapes
  |    '- StateMachineProofs <- StateMachineSafety <- StateMachineRefinement
  '- TransitionWalk     processEvent's walk, pointer by pointer
       |- MCTransitionWalk                      run  transition_walk
       '- TransitionWalkProofs
ActivityStack     the stack of screens
  |- MCActivityStack                            runs stack_nested, stack_popto,
  |                                                  stack_exit
  '- ActivityStackProofs
DesktopLayout     icons, places and pages       runs desktop_layout, layout_turning
  '- DesktopLayoutProofs
QueryCache        the cache of query results and the cursors on it
  |- MCQueryCache                               runs query_cache, query_requery
  '- QueryCacheProofs
TimeService       the clock, and those who show it
  |- MCTimeService                              run  time_service
  '- TimeServiceProofs
```

### StateMachine

The variables are the members (`status`, `events`, `current`, `entered`), the
notices in the window's message queue, and the *C call stack*: `frames[1..depth]`
holds one record per `onEvent`/`processEvent` call, with its phase and locals.
`pump` in the top record says that the callback just called is running a nested
message loop.  `failed` records an assertion of `enter` or `leave` that aborted.

| code | action |
|---|---|
| `start()` | `Start`, then the enter steps from the root |
| `postEvent` | `PostEvent(e)`: queue and notice, from any message loop |
| `MSG_USER_STATEMACHINE_EVENT` -> `onEvent` | `OnEvent`: swallowed when PROCESSING, else a new loop |
| the loop of `onEvent` | `LoopTake`, `LoopEnd` |
| `processEvent` called by someone else | `ProcessEvent(e)` |
| `State::eventTest` up the tree | `ScanMiss`, `ScanTargetless`, `ScanHit`, `ScanUp`, `ScanEnd` |
| `State::leave` down the list | `LeaveState(s)` |
| `trans->action` | `TakeAction` |
| `State::enter`, with and without auto-jump | `EnterAncestor`, `EnterAndJump`, `EnterLeaf` |
| the nested loop of a callback ends | `CallbackReturns` |

Between two steps of an activation nothing else runs unless `pump` holds, because
there is one thread; the steps are separate so that the properties see the
configuration in the middle of a transition.  A recogniser (`eventTest`) is given
by two relations, the events a transition *may* and *must* take: its memory and
its geometry are abstracted to that choice.  The two lists of states that
`processEvent` builds are given as the sets `LeavePath` and `EnterPath` of
StateTree with their order; **TransitionWalk** models the loops over the parent
pointers and the depth arithmetic themselves and is checked, and proved, to
compute exactly those sets in that order.

**Statechart** is what clients rely on: a current leaf, a queue, one event being
answered, each answer a single step.  `ImplementsStatechart` maps the machine
to it: the event being answered is that of the outermost `processEvent`.

**DesktopStates** gives the desktop's tree and tables (with `HAVE_PAGESCROLL`),
the events of its window procedure, and the callbacks that run a nested loop:
`onLeave` of Transposition and PageTurning wait for their animation, a click
pushes an activity, a press waits for a fling to end.

### ActivityStack

`calls` is the C call stack of operations.  Each has two points where a
nested loop can run: the switch effect, and the animation the desktop plays in
its own `onPause`/`onResume`.  `windows`, `shown` and `closing` are the windows
that exist, that are shown, and that have a `MSG_CLOSE` on its way; `called` the
last life-cycle callback of each activity.

| code | actions |
|---|---|
| `push` | `Push` (create, `push_back`, `hide`, `onStart`), `EffectEnds` (`onPause`), `PushEnds` (`show`, `hide`) |
| `pop`, `back` | `Pop` (`onStop`), `EffectEnds` (`onResume`), `PopEnds` (`show`, `pop_back`, `MSG_CLOSE`) |
| `switchTo`, `home`, `popTo` | `SwitchTo(n)`: `Push` or `PopTo`, `EffectEnds`, `PopToEnds` |
| `MSG_CLOSE`, `MSG_DESTROY` | `CloseWindow(a)` |
| the picture player's Return button | `ExitWhileBusy(a)` |

Any client is admitted: every request can come from the main loop and from every
nested one.  An activity stands for an instance and is used again only when its
window is gone.  `Search` looks for a name as `searchActivityByName` does, from the
bottom of the stack (`ActivityStack.cc:267`); `include/ActivityStack.hh:66` and
`:91` say from the top, so with two instances of one application `switchTo` goes to
the lower one and closes the upper.

### DesktopLayout

The program has no table of places.  An icon is *on* a place when its centre is
exactly the centre of the place; the layout finds it by looking through the
scene.  So an icon that is carried, or in flight, is on no place (`Away`), and
whatever asks for the item of an index does not see it.  `shift` and `flight` are
the animations of Transposition and of the drop: where an icon will be when they
end.

| code | action |
|---|---|
| press on an item, `Pickup::onEnter` | `PickUp` |
| move: targetless transition, collide and hover recognisers | `MovePicked`, `MoveMeanwhile` |
| collide timer, `Transposition::onEnter` | `Transpose` (`PushOn` over full pages, then `CloseUp`) |
| `Transposition::onLeave` | `TranspositionEnds` |
| hover timer, `PageTurning::onEnter` | `TurnPage` (`Compact` fills the hole that is left) |
| `PageTurning::onLeave` | `TurningEnds` (`PagesAfterTurning` deletes the last page) |
| release, `Pickup::onLeave` | `Drop`, then `Land` |
| drag or fling | `ScrollPage` |
| `ActivityDesktop::onPause`, `onResume` | `Pause`, `Resume` |

Pixels are abstracted to places: a carried icon is as good as never exactly on
one, which `Exact = FALSE` takes for granted and `Exact = TRUE` does not.
`Hurry = FALSE` lets animations that nobody waits for (the drop's flight, the
icons flying off under an application) end before the user goes on, and the
cursor stay on the icon it pressed; `Hurry = TRUE` does not.

### QueryCache

`cache` is `m_resultCache`, `result` `m_sqlResult`, `heap` the rows that exist,
and a cursor holds copies of the row *pointers*.  Each statement comes in two
outcomes, accepted or refused by SQLite.

| code | action |
|---|---|
| `query`, `queryFromCache`, `execSQL` | `OpenFromCache`, `OpenFromDatabase`, `OpenFails` |
| `SQLiteCursor::requery` | `RequeryFromCache`, `RequeryFromDatabase`, `RequeryWrites`, `RequeryFails` |
| deleting a cursor | `Close` |
| `insert` (statement, then refresh) | `InsertSucceeds`, `InsertFails` |
| `update`, `remove` (refresh, then statement) | `ChangeSucceeds`, `ChangeFails` |

One row stands for all the rows of an answer.  A statement that fails does so
before its first row (the rows of a query that fails half way would be lost when
`m_sqlResult` is cleared, `SQLiteDB.cc:124`).

A cursor's `text` is the text its rows answer.  The cache deletes rows when it
drops their text, in a refresh or to make room, and the cursor does not notice: its
`text` becomes `NoCmd` and it must not be read any more.  Until then it may be read
at any time, however many statements come between.

A cursor also remembers the command that `requery` repeats, its `cmd`.  That is not
always its `query`: a query answered from the cache leaves `m_lastSQLCmd` as it was
(`SQLiteDB.cc:152`), and the cursor takes it from there (`SQLiteCursor.hh:67`).  So
`requery` may run another query, or do a write again (`RequeryWrites`), without the
refresh that `insert`, `update` and `remove` add to it.  `repeated` is a history
variable: the tables that such a write has changed and that no ordinary write has
refreshed since.  No service calls `requery`; the tests do.

### TimeService

`Tick` is `timerProc`, `SetField` is `set` (one field, normalised by `mktime`,
`m_diff` moved by the difference, the event of that one field raised), `PickDate`
and `PickTime` are the call-backs of the settings' pickers, which set field by
field.  The clients are the clock on the information bar, a row of the settings'
list, and the clock page; `shown` is what each of them last drew, in minutes.
The settings application is opened, stopped (the clock page unregisters) and
destroyed (the list does).  The settings are those of `apps/sys-setting`, which
is what the build contains; `apps/time-setting` is not built.

## 3. Runs

| run | instance | shows |
|---|---|---|
| `desktop_queue` | the desktop's tree, 11 queued kinds of events, queue of 2, 2 nested calls | the machine's invariants, `ImplementsStatechart`, `QueueServed`, `ActivationEnds` with nested loops, all events through the queue |
| `machine_shapes` | 6 states, transitions between all pairs, two events also handed over directly | every shape of transition (to self, ancestor, descendant, sibling, across; inherited or not) |
| `transition_walk` | binary tree of depth 4, every leaf, host and target | the pointer walk computes the paths |
| `stack_nested` | desktop, picture player, two instances of an application; 2 nested operations | the stack's invariants, callback order, termination |
| `desktop_toolbar` | as `desktop_queue`, with the toolbar's direct call | **violation** of `NoAssertionFails` |
| `stack_popto` | as `stack_nested` | **violation** of `StoppedBeforeClose` |
| `stack_exit` | as `stack_nested` | **violation** of `TopWindowExists` |
| `desktop_layout` | 5 icons, 3 places a page, at most 4 pages of which 2 are visited | no icon lost, hidden or cut off; order kept |
| `layout_turning` | the same with `Exact = TRUE` | **violation** of `DeletedPageEmpty` |
| `query_cache` | 3 queries, an insert and an update on 2 tables; 2 cached texts, 3 rows, 2 cursors; rows and cursors symmetric | cache coherent (unless a write is repeated) and bounded, rows owned once, cursors readable until their answer is dropped |
| `query_requery` | as `query_cache` | **violation** of `CursorShowsItsQuery` |
| `time_service` | days of 8 seconds, months of 3 and 2 days, a range of 63 seconds, 10 seconds of host time | texts current, setting kept, the date picked is set |

Bounds.  `MaxQueue = 2` lets an event wait behind another and a notice be
swallowed while a second is on its way; the machine never looks further than at
the head of the queue.  `MaxNest = 2` lets a call run on top of another, and a
third would only repeat what the second does.  The walk's result depends only on
the depths of its four states and of their meeting points, and a binary tree of
depth 4 has all combinations up to 4; the desktop's own tree has depth 3.  With
four activities the stack can hold the desktop, an activity above and below it,
and two of one name, so `popTo` has something in between to remove.

A full page, a page with room and the page beyond them are what Transposition and
the drop can meet: 5 icons on pages of 3 give all of them, and carrying icons on
fills and empties a third page.  `MaxVisit` keeps the current page, and so the
drop, away from the last page: with every later page full `Pickup::onLeave`
would look for a vacancy past `MAX_PAGE_NUMBER` and loop for ever
(`IPhoneDesktopStatePickup.cc:212-215`; `mode = "hung"`), which needs 160 icons.

`update` and `remove` are one action, and the instance has one text for both.  With
a limit of 2 the cache evicts while the other text kept is a query of either
table or a statement without rows; the query on one table that mentions the other
(its text contains the name) is dropped by writes to either.  At most two answers
are cached while a third is read, so three rows are never all in use when one is
needed.  Two cursors are enough for one to be read while the other queries again.

In the calendar every field can carry, months differ in length, and a date past
the largest `int` can be picked; then the run goes on with ticks (`inRange` is
false) but no further date is picked.  `MaxClock` bounds the host's clock.

Deadlock is checked except in `transition_walk`, which ends by design, and in
`desktop_toolbar`, where a failed assertion stops the program.

Fairness.  `WF(Step)`: the thread runs the code it is in.  `WF(OnEvent)`: a
message loop, the main or a nested one, dispatches a notice that is waiting.
`WF(CallbackReturns)`: an animation has a finite duration, so the loop that waits
for it ends.  For the stack, `WF(Step)` again says that effects end, and
`SF(CloseWindow(a))` that a message loop takes a message sent by
`SendNotifyMessage` before input and paint: the loop may be left again and again,
but not for ever without having looked at that queue.  Nothing is assumed of the
user: no event and no request ever has to come.

### What the violations show

* `desktop_toolbar` (code): while an item is dropped in Transposition, its
  `onLeave` waits for the animation; a click on a toolbar button then reaches
  `processEvent` directly (`ActivityDesktop.cc:229`), past `m_status`, with
  `m_currentState` still naming the state that has been left.  It is left twice
  and `assert(m_entered)` fails.  The call of `postEvent` next to it is compiled
  out; with it the assertion holds in `desktop_queue`, whose machine lives as long
  as the desktop.  What happens when `MSG_DESTROY` deletes the machine in the middle
  of a transition is not modelled, and `desktop_queue` says nothing of it.
* `stack_popto` (code against its comments): only the top activity is stopped.
* `stack_exit` (code): the picture player closes itself although `pop()` was
  refused; the window of the activity on top is gone, which `idleHandler`
  asserts it is not.
* `query_requery` (code): a cursor is opened by a cache hit after an `INSERT` into
  another table; its `requery` does the `INSERT` again, with no refresh of that
  table's cache, and the cursor has no rows left although its own query has an
  answer.  The tests expect the rows of the cursor's own query
  (`test/common/test-ContentResolver.cc:154-157`, `274-276`);
  `RequeryValidity` (`:244`) requeries after another query and sees nothing because
  it compares only the number of columns.
* `layout_turning` (code): an icon that is held exactly over its place leaves no
  hole when the page turns, so nothing closes up; carried off, it does leave one,
  at index 0 of the last page, and the page is then taken to be empty and deleted
  with the icons on it (`IPhoneDesktopStatePageTurning.cc:196-201`).

Other combinations of `Exact` and `Hurry` were looked at while the module was
written and are not kept as runs.  With `Exact = TRUE`, `NoSharedPlace`,
`EveryItemHome`, `NoHoleAtRest` and `OthersKeepOrder` fail after the same first
step; `CurrentPageExists` holds.  With `Hurry = TRUE` the pages may be scrolled
while the desktop is covered, and `onResume` puts the icons of one page on the
places of another (against the comment at `ActivityDesktop.cc:378`); an icon
dropped while another is still flying to the first vacancy goes to the same
place; and the cursor that has slipped off the pressed icon leaves the focus item
`NULL`, which `assert` in `IPhoneDesktopStatePickup.cc:183` excludes.

`SettingKept` is conditional on the range: once a date past 2038 is picked,
`SEC_FROM_EPOCH` no longer fits the `int` of `TimeSnapshot::get` and `set`, and
the next tick shows the epoch.  `PickedDateSet` is stated for days that every
month has; for a longer day `MDAY` is normalised in the old month before `MONTH`
is set (`SettingClockPiece.cc:123-125`).  In the order YEAR, MONTH, MDAY of
`apps/time-setting/TimeSettingActivity.cc:448-450` it fails also for short days.

## 4. Proofs

For every tree, table, event set and bound (the assumptions `TreeAssumption`,
`TableAssumption`, `EventAssumption`):

| theorem | under | from |
|---|---|---|
| `TypeCorrect` | | `TypeInv` = `TypeOK` and `Started` (a current state is set as soon as an activation can need it) |
| `NoStrandedEventHolds` | | `OneLoop`: PROCESSING says that exactly one frame is an onEvent loop |
| `RunToCompletionHolds`, `NoAssertionFailsHolds`, `ConfigurationHolds`, `NestedConfigurationHolds` | `NoReentry` | `Orderly` |
| `StatechartImplemented` | `NoReentry` | `Orderly` and `Answered` |

`NoReentry` says that the client either hands no event to `processEvent` itself
or has no callback that runs a message loop.  It is needed: `desktop_toolbar` is
the counterexample without it.  `machine_shapes` is an instance with direct calls,
`desktop_queue` one with nested loops.

`NestedConfiguration` or `ConfigurationOK` alone are not inductive: in the middle
of a transition one must know which states are entered exactly.  `Configured`
says it for each phase: while leaving, the entered states are the kept ones and
those still on the list; while entering, the entered states and those still to
be entered make up the ancestors of the target.  `Upward` (entered together with
all ancestors) follows step by step because states are left deepest first and
entered highest first.  The refinement also needs to remember which transition an
activation found and that the initial states lead from its target to the state
being entered (`Answers`).

For every finite tree, leaf and transition (`WalkAssumption`), in
TransitionWalkProofs:

| theorem | from |
|---|---|
| `NeverNullParent`, `LevelsAlwaysMeet`, `WalkIsThePath` | `Climbing`, `Levels`, `Lists` |

`Climbing` says where the two pointers may be: on the chains they climb, with
everything passed so far to be left or entered.  `Levels` bounds their distance;
that the walk from the target moves only while the other side is still at the
host is what keeps it below the meeting point.  `Lists` says what has been
collected, in what order.  A pointer at the root would have depth 0 and so could
not be asked to go up.  Depths are cardinalities, so the tree must be finite.

For all activities, names and bounds on the nesting, in ActivityStackProofs:

| theorem | from |
|---|---|
| `TypeCorrect`, `PointersAreCurrent`, `HeldWindowsDoExist`, `NoWindowIsOrphaned`, `CoveredAreAllPaused`, `OnlyTopIsShown`, `CallbacksInOrder` | `IInv`: `TypeOK`, `PointersCurrent`, `HeldWindowsExist`, `NoOrphanWindow`, `OneCall`, `Distinct`, `EffectBetween`, `CalledRight`, `ShownRight`, `ClosingRight` |

`m_status` lets only one operation be under way (`OneCall`): a second one, from a
nested loop, returns at once.  So nothing moves the stack while an operation
waits for its effect, and its pointers are current.  What holds
between operations is not inductive by itself: `EffectBetween`, `CalledRight` and
`ShownRight` say what holds in the middle of each kind of operation, when the old
top has been stopped or the new one started but the other end has not followed.

For all statements, tables, contents, cursors and limits (`TextAssumption`,
`LimitAssumption`, `ContentAssumption`), in QueryCacheProofs:

| theorem | from |
|---|---|
| `TypeCorrect`, `CacheIsCoherent`, `RowsAreOwnedOnce`, `CacheIsBounded`, `CursorsReadCurrent` | `IInv`: the first four, `CursorsShare` and `ExecutedBefore` |

The invariants hold together only: dropping a text deletes rows, which leaves
the others alone because rows are owned once; `CursorReadsCurrent` is not inductive
and follows from `CursorsShare`, that the rows of a cursor are those its text has
in the cache, and from the cache's coherence.  A text that stays in the cache keeps
its rows (`Kept`), which is why a cursor may be read long after it was opened.  A
repeated write spoils only the answers about its own table (`RepeatedStep`).
The text evicted exists because a non-empty set of numbers has a least one.

For every calendar, range of `int` and span of the host's clock
(`CalendarAssumption`, `RangeAssumption`), in TimeServiceProofs:

| theorem | from |
|---|---|
| `TypeCorrect`, `SettingIsKept` | `IInv`: `TypeOK` and `SettingKept` |
| `ShownIsCurrent` | `SInv`: `IInv`, `Listening`, `Drawn` |
| `PickedDateIsSet` | `IInv`, and that the fields of a time determine it |

A set moves `time` and `diff` by the same amount only while neither has left the
range of an `int`; the argument is that narrowing is the identity there
(`AsIntKeeps`), and that one field after another composes.  `ShownIsCurrent` is
about the events: a set raises the one of its own field only, whatever the
normalisation changes besides.  `Listening` says who is registered for what in
each state of the settings application, `Drawn` that whoever listens shows the
current fields; then each way a field can change must raise an event that each
client showing it asked for.  For `PickedDateIsSet` the calendar's `Fields` and
`MkTime` are shown to be inverse for proper dates (`FieldsProper`,
`FieldsOfMkTime`), and the three sets one after the other to be one; the dates in
between are proper because every month has the day.

For every number of icons, of places of a page, of pages and of pages visited
(`LayoutAssumption`), in DesktopLayoutProofs:

| theorem | under | from |
|---|---|---|
| `CurrentPage` | | `PagesInv`: the page in view is one of the pages, at most `MAX_PAGE_NUMBER` |
| `TypeCorrect`, `NoPlaceShared`, `NoHoleIsLeft`, `OrderIsKept` | `Gentle` | `LInv`: `TypeOK`, `PagesInv`, `Stages`, `Placed` |
| `EveryItemIsHome`, `DeletedPageIsEmpty` | `Gentle`, `Roomy` | `LInv` and `Housed` |

None of the layout's properties is inductive: they speak of icons on places, and
most of the time some icons are in flight.  The proof follows each icon to the
place where it will be when nothing is under way any more, its `Dest`: the end of
its shift or flight, the index under which `onPause` remembers it, or where it
is.  `Placed` says that no two have the same `Dest`, that only the carried icon
has none, and that there is at most one hole in front of an icon, on the page the
carried icon is over.  `Stages` says what can be under way in which state.  The
ends of animations and pause and resume then leave `Dest` as it is, and what is
left is Transposition, PageTurning, the pick-up and the drop.

Transposition over full pages and the compaction when a page is left look quite
different in the code, but both come to one operator, `Slide(P, e, v)`: the icons
between `e` and `v` move by one place towards `v` (`TransposeIs`, `CompactIs`).
That keeps icons apart, keeps their order (`SlideIs`) and moves the one hole from
`v` to `e` (`SlideHole`).  That the search for a vacancy finds one is a
pigeonhole argument over the cardinality of the set of icons (`SomeVacancy`,
`FirstVacancyIs`).

`Gentle` (neither `Exact` nor `Hurry`) is needed: `layout_turning` is the
counterexample with `Exact`, and section 3 says what happens with `Hurry`.
`Roomy` says that the pages from any the user goes to have room for all the icons,
`NItems <= (MaxPage - MaxVisit + 1) * Cap`, so that the loop of the drop meets a
vacancy before it runs past the last page.  `Housed` also follows the
page that Transposition pushes an icon to before it is counted.

Only model-checked: the liveness properties (under fairness; of the machine
`QueueServed` and `ActivationEnds`, of the stack `OperationsEnd` and
`ClosedAreDestroyed`), which are beyond this prover.  Every other property of a
passing run is stated by a theorem.

## 5. Not modelled, and what is left

Left out for good: drawing, resources, vendored code, the input engine, and
applications that are forms over the data services.  Providers and resolver are a
table filled at start-up and one virtual call; the services are clients of the
query cache that keep its discipline.

In QueryCache: a database without a cache (no provider has one), the destructor,
and rows of a query that fails half way.  In TimeService: summer time and leap
years (a clock that changes the day without the hour would leave the bar alone),
and the other fields `set` accepts.  In DesktopLayout: pixels, speeds, and what
only `Hurry = TRUE` allows.

Left, most important first:

1. **Desktop and stack together**: `SIGNAL_APP_START`/`SIGNAL_APP_QUIT`,
   `m_hasBeenPoped`, and the life of the machine itself (`MSG_DESTROY` deletes
   it under a transition).
2. **Page scrolling**: the animation whose finished callback is cleared, the
   speeds for which no transition is taken.
3. **LockScreen**: `dmStateMachine` and the lock screen's callbacks.
4. Theorems: `CurrentPageExists` is proved without `Gentle`; what else of the
   layout survives `Hurry` alone is open.
