----------------------------- MODULE DesktopLayout -----------------------------
(***************************************************************************)
(* Where the icons of the desktop are: IPhoneDesktopLayout, and the states *)
(* that move icons - Pickup, Transposition, PageTurning - with the         *)
(* recognisers that lead into them, and the animations of                  *)
(* ActivityDesktop's onPause and onResume.                                 *)
(*                                                                         *)
(* The program has no table of places: an icon is on a place when its      *)
(* centre is exactly the centre of the place, so an icon that is carried   *)
(* or in flight is on none.  Place n is index n % Cap of page n \div Cap.  *)
(***************************************************************************)
EXTENDS Integers, FiniteSets

CONSTANTS
  NItems,   \* the number of items of the scene
  Cap,      \* getItemTotal(): the places of a page
  MaxPage,  \* MAX_PAGE_NUMBER
  MaxVisit, \* bound on the pages the user goes to
  Exact,    \* the user may hold an icon exactly over a place
  Hurry     \* the user may act while something is still under way

ASSUME LayoutAssumption ==
  /\ NItems \in Nat \ {0} /\ Cap \in Nat \ {0}
  /\ MaxPage \in Nat \ {0} /\ MaxVisit \in 1..MaxPage
  /\ Exact \in BOOLEAN /\ Hurry \in BOOLEAN

Item == 1..NItems   \* in the order of Scene::items()
NoItem == 0
Away == -1          \* on no place; as an index: below the grid
Index == 0..Cap - 1

VARIABLES
  pos,         \* the place of each item, or Away
  pages,       \* m_pages
  page,        \* m_curpage
  mode,        \* which of the states is current: put down, picked up...
  focus,       \* the focus item of the scene
  origin,      \* m_originIndex of the Pickup state
  moving,      \* m_status of the collide recogniser is MOVING
  collide,     \* its m_isCollide
  expectPage,  \* its m_expectPage
  expectIndex, \* its m_expectIndex
  itemIndex,   \* the index its m_itemPos is on, while that is of use, or Away
  hover,       \* the sides whose hover recogniser has started
  shift,       \* the animations of Transposition: where each item is going
  flight,      \* the same for the items dropped last
  paused,      \* the activity is paused
  remembered   \* m_items: the item each index had when it was paused

(* The program leaves origin, itemIndex, hover and remembered as they are when  *)
(* the item is dropped, the recogniser's state left or the desktop resumed, and *)
(* sets them before it reads them again: here they are cleared in between.      *)

recogniser == <<moving, collide, expectPage, expectIndex, itemIndex, hover>>
vars == <<pos, pages, page, mode, focus, origin, recogniser, shift, flight,
          paused, remembered>>

-----------------------------------------------------------------------------
(* The layout. *)

Least(S) == CHOOSE n \in S : \A m \in S : n <= m
Most(S) == CHOOSE n \in S : \A m \in S : n >= m

First(p) == p * Cap
PlacesOf(p) == First(p) .. First(p) + Cap - 1
PageOf(n) == n \div Cap

\* index2Item(): the first item of the scene whose centre is there.
ItemAt(P, n) ==
  LET there == {i \in Item : P[i] = n}
  IN  IF there = {} THEN NoItem ELSE Least(there)

\* The places of a page where it returns NULL.
Vacancies(P, p) == PlacesOf(p) \ {P[i] : i \in Item}

\* The first page from p on that has a vacancy (there are too few items to
\* fill NItems pages).
PageWithVacancy(P, p) ==
  CHOOSE q \in p .. p + NItems :
    Vacancies(P, q) # {} /\ \A r \in p .. q - 1 : Vacancies(P, r) = {}

\* getVacancy(), on the first page from p on that has one.
FirstVacancy(P, p) == Least(Vacancies(P, PageWithVacancy(P, p)))

NextPage(p, total) == IF p + 1 >= total THEN total - 1 ELSE p + 1
\* A variant that does not stop at the first page.
PrevPageUnbounded(p) == p - 1

PrevPage(p) == IF p = 0 THEN 0 ELSE p - 1

\* newPage().
NewPage(total) == IF total + 1 > MaxPage THEN total ELSE total + 1

\* reLayout(): fills the places in order; a full page opens the next one, also
\* when no item is left for it.
Init ==
  /\ pos = [i \in Item |-> i - 1]
  /\ pages = IF PageOf(NItems) < MaxPage THEN PageOf(NItems) + 1 ELSE MaxPage
  /\ page = 0
  /\ mode = "putdown" /\ focus = NoItem /\ origin = Away
  /\ moving = FALSE /\ collide = FALSE
  /\ expectPage = 0 /\ expectIndex = 0 /\ itemIndex = Away /\ hover = {}
  /\ shift = [i \in Item |-> Away] /\ flight = [i \in Item |-> Away]
  /\ paused = FALSE /\ remembered = [k \in Index |-> NoItem]

\* Items with a place to go are there.
Arrive(P, T) == [i \in Item |-> IF T[i] = Away THEN P[i] ELSE T[i]]

NoneMoving == [i \in Item |-> Away]

\* Nothing is under way that an event could overtake.
Settled == flight = NoneMoving /\ ~paused

Picked == {"picked", "transposition", "turning"}

-----------------------------------------------------------------------------
(* Picking up, carrying, and the recognisers. *)

\* A press on an item while shaking (or the long press that begins it): onEnter
\* of Pickup looks where the cursor is by then, and takes the item that is
\* there - or none, and leaves the focus item of the last time.
PickUp(i) ==
  /\ mode = "putdown" /\ (Hurry \/ Settled)
  /\ pos[i] \in PlacesOf(page)
  /\ \E k \in IF Hurry THEN Index ELSE {pos[i] % Cap} :
       LET item == ItemAt(pos, First(page) + k) IN
       /\ origin' = k
       /\ focus' = IF item = NoItem THEN focus ELSE item
  /\ mode' = "picked"
  /\ UNCHANGED <<pos, pages, page, recogniser, shift, flight, paused, remembered>>

\* Where the carried item is after a move: as good as always on no place.
Carried == {Away} \cup IF Exact THEN PlacesOf(page) ELSE {}

\* The pointer gets to the sides of the page only.
Sides(k) == {s \in {"left", "right"} :
               k # Away => IF s = "left" THEN 2 * k < Cap ELSE 2 * k + 2 > Cap}

\* testMove() of the collide recogniser, for an item over index k.  The page
\* test of the program is x % width in the window, then in the scene: an icon
\* that sticks out on the left is on the first column, then on the last one.
TestCollide(k) ==
  IF ~moving \/ collide
  THEN /\ moving' = TRUE
       /\ UNCHANGED <<collide, expectPage, expectIndex, itemIndex>>
  ELSE /\ expectIndex' = IF k = Away THEN expectIndex ELSE k
       /\ collide' = ((origin # Away /\ origin # expectIndex') \/ page # expectPage)
       /\ itemIndex' \in IF ~collide' THEN {Away}
                         ELSE {k} \cup IF k = 0 /\ page > 0 THEN {Cap - 1} ELSE {}
       /\ expectPage' = IF collide' THEN page ELSE expectPage
       /\ UNCHANGED moving

\* A move in PickedNormal: the recognisers see it, and the targetless transition
\* of Pickup moves the focus item along.
MovePicked ==
  /\ mode = "picked" /\ focus # NoItem
  /\ \E n \in Carried : pos' = [pos EXCEPT ![focus] = n]
  /\ \E k \in Index \cup {Away} :
       /\ (pos'[focus] # Away => k = pos'[focus] % Cap)
       /\ TestCollide(k)
       /\ \E h \in SUBSET Sides(k) : hover' = hover \cup h
  /\ UNCHANGED <<pages, page, mode, focus, origin, shift, flight, paused,
                 remembered>>

\* The same in Transposition and PageTurning, whose recognisers do not look.
MoveMeanwhile ==
  /\ mode \in {"transposition", "turning"} /\ focus # NoItem
  /\ \E n \in Carried : pos' = [pos EXCEPT ![focus] = n]
  /\ UNCHANGED <<pages, page, mode, focus, origin, recogniser, shift, flight,
                 paused, remembered>>

-----------------------------------------------------------------------------
(* Transposition. *)

\* The places of page p in front of the first vacancy from there on, when the
\* page is full: the last of its places, and what is behind it.
Overflow(P, p) ==
  IF Vacancies(P, p) # {} THEN {}
  ELSE First(p) + Cap - 1 .. FirstVacancy(P, p) - 1

\* Each item on one of these places is the one index2Item() finds there.
OnPlace(P, i, S) == P[i] \in S /\ ItemAt(P, P[i]) = i

\* Where the hole of the page is, once they have moved on.
Hole(P, p) ==
  IF Vacancies(P, p) # {} THEN Least(Vacancies(P, p)) ELSE First(p) + Cap - 1

\* A variant that leaves them where they are.
PushOnNothing(P, p) == P

\* The items that do not fit on the page any more move on by one, at once.
PushOn(P, p) ==
  LET S == Overflow(P, p)
  IN  [i \in Item |-> IF OnPlace(P, i, S) THEN P[i] + 1 ELSE P[i]]

\* A variant that swaps the hole with the place that is to be free.
CloseUpSwap(P, s, e) ==
  [i \in Item |-> IF s # e /\ OnPlace(P, i, {e}) THEN s ELSE Away]

\* The items between the hole s and the place e close up on the hole: each goes
\* where the one before it was.
CloseUp(P, s, e) ==
  LET between == (s + 1 .. e) \cup (e .. s - 1)
      held == {n \in between : ItemAt(P, n) # NoItem} \cup {s}
  IN  [i \in Item |->
         IF ~OnPlace(P, i, between) THEN Away
         ELSE IF e < s THEN Least({n \in held : n > P[i]})
                       ELSE Most({n \in held : n < P[i]})]

\* The timer finds m_isCollide set.  onEnter of Transposition makes room at the
\* place under the item; below the grid it does nothing, and then no animation
\* will ever end that leads on.
Transpose ==
  /\ mode = "picked" /\ collide
  /\ collide' = FALSE /\ origin' = expectIndex
  /\ mode' = "transposition" /\ hover' = {}
  /\ IF itemIndex = Away
     THEN UNCHANGED <<pos, shift>>
     ELSE LET pushed == PushOn(pos, page)
              to == CloseUp(pushed, Hole(pos, page), First(page) + itemIndex)
          IN  /\ shift' = to
              /\ pos' = [i \in Item |-> IF to[i] = Away THEN pushed[i] ELSE Away]
  /\ UNCHANGED <<pages, page, focus, moving, expectPage, expectIndex, itemIndex,
                 flight, paused, remembered>>

\* A variant that does not count the new page.
PagesAfterTranspositionUncounted(P) == pages

\* onLeave of Transposition: the animations are waited for, and the page the
\* items were pushed on to is counted.
PagesAfterTransposition(P) ==
  IF ItemAt(P, First(pages)) # NoItem THEN NewPage(pages) ELSE pages

\* Its animation ends, and leads back to PickedNormal.
TranspositionEnds ==
  /\ mode = "transposition" /\ itemIndex # Away
  /\ mode' = "picked" /\ itemIndex' = Away
  /\ pos' = Arrive(pos, shift) /\ shift' = NoneMoving
  /\ pages' = PagesAfterTransposition(pos')
  /\ UNCHANGED <<page, focus, origin, moving, collide, expectPage, expectIndex,
                 hover, flight, paused, remembered>>

-----------------------------------------------------------------------------
(* PageTurning. *)

\* A variant that leaves the hole.
CompactNothing(P, p) == P

\* The items behind the first vacancy of page p, up to the next one, move to the
\* place before them.
Compact(P, p) ==
  IF Vacancies(P, p) = {} THEN P
  ELSE LET hole == Least(Vacancies(P, p))
           behind == {n \in PlacesOf(p) : n > hole
                        /\ \A m \in hole + 1 .. n : m \notin Vacancies(P, p)}
       IN  [i \in Item |-> IF OnPlace(P, i, behind) THEN P[i] - 1 ELSE P[i]]

\* The page to go to, and the pages there are then: going right on the last page
\* adds one, if it is not empty.
Turned(side) ==
  LET last == side = "right" /\ NextPage(page, pages) = page
      more == IF last /\ ItemAt(pos, First(page)) # NoItem
              THEN NewPage(pages) ELSE pages
  IN  [pages |-> more,
       page |-> IF side = "left" THEN PrevPage(page) ELSE NextPage(page, more)]

\* The timer finds that the item has been at a side for long.  The scroll
\* animation carries the item along: nobody looks where it is until onLeave has
\* waited for its end, so it is there at once here.
TurnPage(side) ==
  /\ mode = "picked" /\ ~collide /\ side \in hover
  /\ Turned(side).page < MaxVisit
  /\ focus # NoItem
  /\ mode' = "turning" /\ hover' = {}
  /\ pages' = Turned(side).pages /\ page' = Turned(side).page
  /\ IF page' = page
     THEN UNCHANGED pos
     ELSE LET kept == Compact(pos, page) IN
          pos' = [kept EXCEPT ![focus] =
                    IF @ = Away THEN Away ELSE @ + First(page') - First(page)]
  /\ UNCHANGED <<focus, origin, moving, collide, expectPage, expectIndex, itemIndex,
                 shift, flight, paused, remembered>>

\* A variant that deletes the last page even when it is the current one.
PagesAfterTurningOfCurrent ==
  IF pages > 1 /\ ItemAt(pos, First(pages - 1)) = NoItem THEN pages - 1 ELSE pages

\* A variant that deletes a page that is not full.
PagesAfterTurningNotFull ==
  IF page # pages - 1 /\ Vacancies(pos, pages - 1) # {} THEN pages - 1 ELSE pages

\* onLeave of PageTurning: an empty page at the end is deleted.
PagesAfterTurning ==
  IF page # pages - 1 /\ ItemAt(pos, First(pages - 1)) = NoItem
  THEN pages - 1 ELSE pages

TurningEnds ==
  /\ mode = "turning"
  /\ mode' = "picked"
  /\ pages' = PagesAfterTurning
  /\ UNCHANGED <<pos, page, focus, origin, recogniser, shift, flight, paused,
                 remembered>>

-----------------------------------------------------------------------------
(* Dropping. *)

\* The release, or the end of the shaking: onLeave of the inner state, then that
\* of Pickup.  The item flies to the first vacancy of this page or the next
\* ones, unless it has not left its place; beyond the last page there can be,
\* the loop that adds the pages never ends.
Drop ==
  /\ mode \in Picked /\ focus # NoItem
  /\ LET P == Arrive(pos, shift)
         left == CASE mode = "transposition" -> PagesAfterTransposition(P)
                   [] mode = "turning" -> PagesAfterTurning
                   [] OTHER -> pages
         atOrigin == origin # Away /\ ItemAt(P, First(page) + origin) = focus
         to == FirstVacancy(P, page)
     IN  /\ pos' = IF atOrigin THEN P ELSE [P EXCEPT ![focus] = Away]
         /\ flight' = IF atOrigin THEN flight ELSE [flight EXCEPT ![focus] = to]
         /\ pages' = IF atOrigin \/ PageOf(to) < left THEN left
                     ELSE IF PageOf(to) < MaxPage THEN PageOf(to) + 1 ELSE MaxPage
         /\ mode' = IF ~atOrigin /\ PageOf(to) >= MaxPage THEN "hung" ELSE "putdown"
  /\ shift' = NoneMoving
  \* the collide recogniser sees the release in PickedNormal, and no other end
  /\ collide' \in {FALSE, Hurry /\ collide}
  /\ itemIndex' = IF collide' THEN itemIndex ELSE Away
  /\ hover' = {}
  /\ origin' = Away
  /\ UNCHANGED <<page, focus, moving, expectPage, expectIndex, paused, remembered>>

\* The animation of a dropped item ends.
Land(i) ==
  /\ mode # "hung" /\ flight[i] # Away
  /\ pos' = [pos EXCEPT ![i] = flight[i]]
  /\ flight' = [flight EXCEPT ![i] = Away]
  /\ UNCHANGED <<pages, page, mode, focus, origin, recogniser, shift, paused,
                 remembered>>

-----------------------------------------------------------------------------
(* Scrolling, and the desktop that is covered. *)

\* A drag or a fling ends on another page.
ScrollPage ==
  /\ mode = "putdown" /\ (Hurry \/ ~paused)
  /\ page' \in {PrevPage(page), NextPage(page, pages)} \ {page}
  /\ page' < MaxVisit
  /\ UNCHANGED <<pos, pages, mode, focus, origin, recogniser, shift, flight,
                 paused, remembered>>

\* onPause: the items of the current page fly off.
Pause ==
  /\ mode = "putdown" /\ ~paused
  /\ paused' = TRUE
  /\ remembered' = [k \in Index |-> ItemAt(pos, First(page) + k)]
  /\ pos' = [i \in Item |->
               IF \E k \in Index : remembered'[k] = i THEN Away ELSE pos[i]]
  /\ UNCHANGED <<pages, page, mode, focus, origin, recogniser, shift, flight>>

\* onResume: the remembered items fly back, to the page that is current then.
Resume ==
  /\ mode = "putdown" /\ paused
  /\ paused' = FALSE
  /\ pos' = [i \in Item |->
               LET from == {k \in Index : remembered[k] = i}
               IN  IF from = {} THEN pos[i] ELSE First(page) + Most(from)]
  /\ remembered' = [k \in Index |-> NoItem]
  /\ UNCHANGED <<pages, page, mode, focus, origin, recogniser, shift, flight>>

Next ==
  \/ \E i \in Item : PickUp(i) \/ Land(i)
  \/ MovePicked \/ MoveMeanwhile
  \/ Transpose \/ TranspositionEnds
  \/ \E side \in {"left", "right"} : TurnPage(side)
  \/ TurningEnds
  \/ Drop
  \/ ScrollPage \/ Pause \/ Resume

Spec == Init /\ [][Next]_vars

-----------------------------------------------------------------------------
(* Properties. *)

\* Every variable holds a value of its type.
TypeOK ==
  /\ pos \in [Item -> Nat \cup {Away}]
  /\ pages \in 1..MaxPage /\ page \in Nat
  /\ mode \in Picked \cup {"putdown", "hung"}
  /\ focus \in Item \cup {NoItem} /\ origin \in Index \cup {Away}
  /\ moving \in BOOLEAN /\ collide \in BOOLEAN
  /\ expectPage \in Nat /\ expectIndex \in Index
  /\ itemIndex \in Index \cup {Away}
  /\ hover \subseteq {"left", "right"}
  /\ shift \in [Item -> Nat \cup {Away}]
  /\ flight \in [Item -> Nat \cup {Away}]
  /\ paused \in BOOLEAN /\ remembered \in [Index -> Item \cup {NoItem}]

\* Where each item is, or is going.
Goal(i) ==
  CASE shift[i] # Away -> shift[i]
    [] shift[i] = Away /\ flight[i] # Away -> flight[i]
    [] OTHER -> pos[i]

\* The layout shows every item by itself: no two of them are on, or on their
\* way to, the same place, whatever was pushed on, closed up or dropped.
NoSharedPlace ==
  \A i, j \in Item : i # j /\ Goal(i) # Away => Goal(i) # Goal(j)

\* The page in view is one of the pages there are, although they come and go
\* while an item is carried.
CurrentPageExists == page < pages

AtRest == mode = "putdown" /\ flight = NoneMoving /\ ~paused

\* When everything has come to rest, every item is on a page that the user can
\* scroll to.
EveryItemHome == AtRest => \A i \in Item : pos[i] # Away /\ PageOf(pos[i]) < pages

\* ...and a page has no hole in front of an item: the tests of index 0 that
\* stand for "the page is not empty" rely on it.
NoHoleAtRest ==
  AtRest => \A i \in Item : \A n \in First(PageOf(pos[i])) .. pos[i] :
              ItemAt(pos, n) # NoItem

\* IPhoneDesktopStatePageTurning.cc:196, "delete the last empty page": nothing
\* was on a page that is deleted.
DeletedPageEmpty ==
  [][pages' < pages => \A i \in Item : pos[i] = Away \/ PageOf(pos[i]) < pages']_vars

\* Items change places only to make room for the one that is carried: the others
\* stay in the order the user reads them in, over all the pages.
OthersKeepOrder ==
  [][\A i, j \in Item \ {focus'} :
       Goal(i) < Goal(j) /\ Goal(i) # Away /\ Goal(i)' # Away /\ Goal(j)' # Away
         => Goal(i)' < Goal(j)']_vars
=============================================================================
