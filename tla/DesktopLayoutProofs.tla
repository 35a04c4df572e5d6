-------------------------- MODULE DesktopLayoutProofs --------------------------
(***************************************************************************)
(* Theorems about DesktopLayout, for every number of items, of places of a *)
(* page and of pages.                                                      *)
(***************************************************************************)
EXTENDS DesktopLayout, FiniteSetTheorems, WellFoundedInduction, TLAPS

-----------------------------------------------------------------------------
(* Pages and their places. *)

LEMMA FirstType ==
  ASSUME NEW p \in Nat
  PROVE  First(p) \in Nat /\ First(p + 1) = First(p) + Cap
BY LayoutAssumption DEF First

LEMMA FirstOrder ==
  ASSUME NEW p \in Nat, NEW q \in Nat, p < q
  PROVE  First(p) + Cap <= First(q)
<1>1. PICK d \in Nat : q = p + 1 + d
  <2>1. q - p - 1 \in Nat /\ q = p + 1 + (q - p - 1)
    OBVIOUS
  <2> QED BY <2>1
<1>2. d * Cap \in Nat /\ (p + 1 + d) * Cap = p * Cap + Cap + d * Cap
  BY LayoutAssumption
<1>3. p * Cap \in Nat /\ Cap \in Nat
  BY LayoutAssumption
<1>4. First(q) = p * Cap + Cap + d * Cap
  BY <1>1, <1>2 DEF First
<1> QED BY <1>2, <1>3, <1>4 DEF First

LEMMA PlacesIs ==
  ASSUME NEW p \in Nat, NEW n \in Int
  PROVE  n \in PlacesOf(p) <=> First(p) <= n /\ n < First(p) + Cap
BY FirstType, LayoutAssumption DEF PlacesOf

\* A place is on one page, and below a page when it is on one before it.
LEMMA PageOfIs ==
  ASSUME NEW n \in Nat
  PROVE  /\ PageOf(n) \in Nat /\ n \in PlacesOf(PageOf(n))
         /\ \A p \in Nat : /\ n \in PlacesOf(p) => p = PageOf(n)
                           /\ n < First(p) <=> PageOf(n) < p
                           /\ First(p) <= n <=> p <= PageOf(n)
<1>1. Cap \in Nat /\ Cap > 0
  BY LayoutAssumption
<1>2. PICK q : q = n \div Cap
  OBVIOUS
<1>3. q \in Nat /\ q * Cap <= n /\ n < q * Cap + Cap
  BY <1>1, <1>2
<1>4. PageOf(n) = q /\ First(q) <= n /\ n < First(q) + Cap
  BY <1>2, <1>3 DEF PageOf, First
<1>5. n \in PlacesOf(q)
  BY <1>3, <1>4, PlacesIs
<1>6. ASSUME NEW p \in Nat
      PROVE  n < First(p) <=> q < p
  <2>1. q < p => First(q) + Cap <= First(p)
    BY <1>3, <1>6, FirstOrder
  <2>2. p < q => First(p) + Cap <= First(q)
    BY <1>3, <1>6, FirstOrder
  <2>3. First(p) \in Nat /\ First(q) \in Nat
    BY <1>3, <1>6, FirstType
  <2> QED BY <1>1, <1>3, <1>4, <2>1, <2>2, <2>3
<1>7. ASSUME NEW p \in Nat, n \in PlacesOf(p)
      PROVE  p = q
  <2>1. First(p) <= n /\ n < First(p) + Cap
    BY <1>7, PlacesIs
  <2>2. First(p) \in Nat /\ First(q) \in Nat
    BY <1>3, <1>7, FirstType
  <2>3. ~ (q < p)
    BY <1>6, <2>1, <2>2
  <2>4. ~ (p < q)
    <3>1. p < q => First(p) + Cap <= First(q)
      BY <1>3, <1>7, FirstOrder
    <3> QED BY <1>1, <1>4, <2>1, <2>2, <3>1
  <2> QED BY <1>3, <1>7, <2>3, <2>4
<1>8. \A p \in Nat : First(p) \in Nat
  BY FirstType
<1> QED BY <1>3, <1>4, <1>5, <1>6, <1>7, <1>8

\* The index of a place counts from the first place of its page.
LEMMA IndexIs ==
  ASSUME NEW p \in Nat, NEW n \in PlacesOf(p)
  PROVE  n \in Nat /\ n % Cap \in Index /\ First(p) + (n % Cap) = n
<1>1. Cap \in Nat /\ Cap > 0 /\ p * Cap \in Nat
  BY LayoutAssumption
<1>2. n \in Nat /\ p * Cap <= n /\ n < p * Cap + Cap
  BY <1>1 DEF PlacesOf, First
<1>3. PICK k : k = n - p * Cap
  OBVIOUS
<1>4. k \in 0 .. Cap - 1 /\ n = p * Cap + k
  BY <1>1, <1>2, <1>3
<1>5. PICK q : q = n \div Cap
  OBVIOUS
<1>6. PICK r : r = n % Cap
  OBVIOUS
<1>7. n = q * Cap + r /\ r \in 0 .. Cap - 1 /\ q \in Nat
  BY <1>1, <1>2, <1>5, <1>6
<1>8. q = p
  <2>1. n \in PlacesOf(PageOf(n)) /\ p = PageOf(n)
    BY <1>2, PageOfIs
  <2> QED BY <1>5, <2>1 DEF PageOf
<1>9. r = k
  BY <1>1, <1>4, <1>7, <1>8
<1> QED BY <1>2, <1>4, <1>6, <1>9 DEF Index, First

LEMMA IndexPlace ==
  ASSUME NEW p \in Nat, NEW k \in Index
  PROVE  First(p) + k \in PlacesOf(p) /\ First(p) + k \in Nat
BY FirstType, LayoutAssumption DEF Index, PlacesOf

-----------------------------------------------------------------------------
(* The least and the most of a set of places. *)

LEMMA LeastIs ==
  ASSUME NEW S \in SUBSET Nat, S # {}
  PROVE  /\ Least(S) \in S
         /\ \A m \in S : Least(S) <= m
<1>1. PICK n \in S : \A m \in S : ~ (<<m, n>> \in OpToRel(<, Nat))
  BY NatLessThanWellFounded, WFMin, Zenon
<1>2. \A m \in S : ~ (m < n)
  BY <1>1 DEF OpToRel
<1>3. n \in S /\ n \in Nat /\ \A m \in S : m \in Nat
  BY <1>1, Zenon
<1>4. n \in S /\ \A m \in S : n <= m
  BY <1>2, <1>3
<1> QED BY <1>4 DEF Least

LEMMA MostIs ==
  ASSUME NEW S \in SUBSET Nat, NEW n \in S, \A m \in S : n >= m
  PROVE  Most(S) = n
<1>1. /\ Most(S) \in S
      /\ \A m \in S : Most(S) >= m
  BY DEF Most
<1>2. Most(S) \in Nat /\ n \in Nat
  BY <1>1
<1> QED BY <1>1, <1>2

-----------------------------------------------------------------------------
(* Items on their places. *)

Held(P, n) == \E i \in Item : P[i] = n

Distinct(P) == \A i, j \in Item : i # j /\ P[i] # Away => P[i] # P[j]

LEMMA ItemAtIs ==
  ASSUME NEW P, NEW n
  PROVE  /\ ItemAt(P, n) = NoItem <=> ~ Held(P, n)
         /\ ItemAt(P, n) # NoItem => ItemAt(P, n) \in Item /\ P[ItemAt(P, n)] = n
<1> DEFINE there == {i \in Item : P[i] = n}
<1>1. there \in SUBSET Nat /\ NoItem \notin there
  BY LayoutAssumption DEF Item, NoItem
<1>2. there # {} => Least(there) \in there
  BY <1>1, LeastIs
<1>3. ItemAt(P, n) = IF there = {} THEN NoItem ELSE Least(there)
  BY DEF ItemAt
<1>4. there = {} <=> ~ Held(P, n)
  BY DEF Held
<1> QED BY <1>1, <1>2, <1>3, <1>4

LEMMA ItemAtHolder ==
  ASSUME NEW P, Distinct(P), NEW i \in Item, P[i] # Away
  PROVE  ItemAt(P, P[i]) = i
<1>1. Held(P, P[i])
  BY DEF Held
<1>2. ItemAt(P, P[i]) \in Item /\ P[ItemAt(P, P[i])] = P[i]
  BY <1>1, ItemAtIs
<1> QED BY <1>2 DEF Distinct

LEMMA OnPlaceIs ==
  ASSUME NEW P, Distinct(P), NEW i \in Item, NEW S, Away \notin S
  PROVE  OnPlace(P, i, S) <=> P[i] \in S
BY ItemAtHolder DEF OnPlace

LEMMA VacancyIs ==
  ASSUME NEW P, NEW p, NEW n
  PROVE  n \in Vacancies(P, p) <=> n \in PlacesOf(p) /\ ~ Held(P, n)
BY DEF Vacancies, Held

-----------------------------------------------------------------------------
(* The first vacancy: there are more places than items. *)

LEMMA MorePlacesThanItems ==
  ASSUME NEW P, NEW S, IsFiniteSet(S), NEW T, IsFiniteSet(T),
         Cardinality(T) < Cardinality(S)
  PROVE  \E n \in S : \A i \in T : P[i] # n
<1> SUFFICES ASSUME \A n \in S : \E i \in T : P[i] = n
             PROVE  FALSE
  OBVIOUS
<1> DEFINE f == [n \in S |-> CHOOSE i \in T : P[i] = n]
<1>1. \A n \in S : f[n] \in T /\ P[f[n]] = n
  OBVIOUS
<1>2. f \in [S -> T]
  BY <1>1
<1> HIDE DEF f
<1>3. \E x, y \in S : x # y /\ f[x] = f[y]
  BY <1>2, FS_PigeonHole
<1> QED BY <1>1, <1>3

LEMMA IntervalSize ==
  ASSUME NEW a \in Nat, NEW c \in Nat
  PROVE  IsFiniteSet(a .. a + c - 1) /\ Cardinality(a .. a + c - 1) = c
<1>1. /\ a \in Int /\ a + c - 1 \in Int /\ a + c - 1 - a + 1 = c
      /\ a > a + c - 1 <=> c = 0
  OBVIOUS
<1> QED BY <1>1, FS_Interval

LEMMA ItemsFinite ==
  IsFiniteSet(Item) /\ Cardinality(Item) = NItems
<1>1. 1 \in Int /\ NItems \in Int /\ ~ (1 > NItems) /\ NItems - 1 + 1 = NItems
  BY LayoutAssumption
<1> QED BY <1>1, FS_Interval DEF Item

LEMMA SomeVacancy ==
  ASSUME NEW P, NEW a \in Nat
  PROVE  \E n \in a .. a + NItems : ~ Held(P, n)
<1> DEFINE T == Item
           S == a .. a + (NItems + 1) - 1
<1>1. NItems + 1 \in Nat /\ NItems < NItems + 1
  BY LayoutAssumption
<1>2. IsFiniteSet(S) /\ Cardinality(S) = NItems + 1
  BY <1>1, IntervalSize
<1>3. IsFiniteSet(T) /\ Cardinality(T) < Cardinality(S)
  BY <1>1, <1>2, ItemsFinite
<1>4. \A n \in S : n \in a .. a + NItems
  BY LayoutAssumption
<1> HIDE DEF S, T
<1>5. PICK n \in S : \A i \in T : P[i] # n
  BY <1>2, <1>3, MorePlacesThanItems
<1> QED BY <1>4, <1>5 DEF Held, T

LEMMA SomeVacancySooner ==
  ASSUME NEW P, NEW a \in Nat, NEW j \in Item, P[j] = Away
  PROVE  \E n \in a .. a + NItems - 1 : ~ Held(P, n)
<1> DEFINE T == Item \ {j}
           S == a .. a + NItems - 1
<1>1. NItems \in Nat
  BY LayoutAssumption
<1>2. IsFiniteSet(S) /\ Cardinality(S) = NItems
  BY <1>1, IntervalSize
<1>3. IsFiniteSet(T) /\ Cardinality(T) = NItems - 1
  BY ItemsFinite, FS_RemoveElement
<1>4. Cardinality(T) < Cardinality(S)
  BY <1>1, <1>2, <1>3
<1>5. \A n \in S : n # Away
  BY <1>1 DEF Away
<1> HIDE DEF S, T
<1>6. PICK n \in S : \A i \in T : P[i] # n
  BY <1>2, <1>3, <1>4, MorePlacesThanItems
<1>7. ~ Held(P, n)
  BY <1>5, <1>6 DEF Held, T
<1> QED BY <1>6, <1>7 DEF S

LEMMA FirstVacancyIs ==
  ASSUME NEW P, NEW p \in Nat
  PROVE  /\ FirstVacancy(P, p) \in Nat
         /\ First(p) <= FirstVacancy(P, p)
         /\ ~ Held(P, FirstVacancy(P, p))
         /\ \A n \in First(p) .. FirstVacancy(P, p) - 1 : Held(P, n)
<1> DEFINE Q == {q \in Nat : p <= q /\ Vacancies(P, q) # {}}
<1>1. First(p) \in Nat /\ NItems \in Nat
  BY FirstType, LayoutAssumption
<1>2. PICK w \in First(p) .. First(p) + NItems : ~ Held(P, w)
  BY <1>1, SomeVacancy
<1>3. w \in Nat /\ First(p) <= w
  BY <1>1, <1>2
<1>4. PageOf(w) \in Nat /\ p <= PageOf(w) /\ w \in Vacancies(P, PageOf(w))
  BY <1>2, <1>3, PageOfIs, VacancyIs
<1>5. PageOf(w) <= p + NItems
  <2>1. Cap \in Nat /\ Cap > 0 /\ p * Cap \in Nat
    BY LayoutAssumption
  <2>2. (p + NItems + 1) * Cap = p * Cap + NItems * Cap + Cap /\ NItems * Cap >= NItems
    BY <1>1, <2>1
  <2>3. p + NItems + 1 \in Nat /\ First(p + NItems + 1) = p * Cap + NItems * Cap + Cap
    BY <1>1, <2>2 DEF First
  <2>4. First(p) = p * Cap /\ NItems * Cap \in Nat
    BY <1>1, <2>1 DEF First
  <2>5. w < First(p + NItems + 1)
    BY <1>1, <1>2, <2>1, <2>2, <2>3, <2>4
  <2>6. PageOf(w) < p + NItems + 1
    BY <1>3, <2>3, <2>5, PageOfIs
  <2> QED BY <1>1, <1>4, <2>6
<1>6. Q \in SUBSET Nat /\ PageOf(w) \in Q
  BY <1>4
<1>7. PICK q : q = Least(Q)
  OBVIOUS
<1>8. q \in Q /\ \A m \in Q : q <= m
  <2> HIDE DEF Q
  <2> QED BY <1>6, <1>7, LeastIs
<1>9. /\ q \in p .. p + NItems /\ Vacancies(P, q) # {}
      /\ \A r \in p .. q - 1 : Vacancies(P, r) = {}
  BY <1>1, <1>4, <1>5, <1>6, <1>8
<1>10. PICK u : u = PageWithVacancy(P, p)
  OBVIOUS
<1>11. /\ u \in p .. p + NItems /\ Vacancies(P, u) # {}
       /\ \A r \in p .. u - 1 : Vacancies(P, r) = {}
  BY <1>9, <1>10 DEF PageWithVacancy
<1>12. u \in Nat /\ p <= u
  BY <1>1, <1>11
<1>13. PICK v : v = Least(Vacancies(P, u))
  OBVIOUS
<1>14. v = FirstVacancy(P, p)
  BY <1>10, <1>13 DEF FirstVacancy
<1>15. v \in Vacancies(P, u) /\ \A m \in Vacancies(P, u) : v <= m
  <2>1. Vacancies(P, u) \in SUBSET Nat
    BY <1>12, FirstType, LayoutAssumption DEF Vacancies, PlacesOf
  <2> QED BY <1>11, <1>13, <2>1, LeastIs
<1>16. v \in PlacesOf(u) /\ ~ Held(P, v)
  BY <1>15, VacancyIs
<1>17. v \in Nat /\ First(u) <= v /\ First(p) <= v
  <2>1. First(u) \in Nat /\ (p < u => First(p) + Cap <= First(u))
    BY <1>12, FirstType, FirstOrder
  <2> QED BY <1>1, <1>12, <1>16, <2>1, LayoutAssumption DEF PlacesOf
<1>18. ASSUME NEW n \in First(p) .. v - 1
       PROVE  Held(P, n)
  <2>1. n \in Nat /\ First(p) <= n /\ n < v
    BY <1>1, <1>17, <1>18
  <2>2. PageOf(n) \in Nat /\ n \in PlacesOf(PageOf(n)) /\ p <= PageOf(n)
    BY <2>1, PageOfIs
  <2>3. PageOf(n) <= u
    <3>1. v < First(u) + Cap /\ First(u + 1) = First(u) + Cap /\ u + 1 \in Nat
          /\ First(u) \in Nat
      BY <1>12, <1>16, <1>17, PlacesIs, FirstType
    <3>2. n < First(u + 1)
      BY <1>17, <2>1, <3>1, LayoutAssumption
    <3> QED BY <1>12, <2>1, <2>2, <3>1, <3>2, PageOfIs
  <2>4. CASE PageOf(n) = u
    BY <1>15, <1>17, <2>1, <2>2, <2>4, VacancyIs
  <2>5. CASE PageOf(n) # u
    <3>1. PageOf(n) \in p .. u - 1
      BY <1>12, <2>2, <2>3, <2>5
    <3> QED BY <1>11, <2>2, <3>1, VacancyIs
  <2> QED BY <2>4, <2>5
<1> QED BY <1>14, <1>16, <1>17, <1>18

-----------------------------------------------------------------------------
(* The pages. *)

PagesInv == pages \in 1 .. MaxPage /\ page \in Nat /\ page < pages

LEMMA TurnedIs ==
  ASSUME PagesInv, NEW side
  PROVE  /\ Turned(side).pages \in pages .. MaxPage
         /\ Turned(side).page \in Nat /\ Turned(side).page < Turned(side).pages
<1> DEFINE last == side = "right" /\ NextPage(page, pages) = page
           more == IF last /\ ItemAt(pos, First(page)) # NoItem
                   THEN NewPage(pages) ELSE pages
<1>1. MaxPage \in Nat /\ pages \in Nat /\ pages >= 1 /\ pages <= MaxPage /\ page \in Nat
  BY LayoutAssumption DEF PagesInv
<1>2. more \in pages .. MaxPage
  BY <1>1 DEF NewPage
<1>3. PrevPage(page) \in Nat /\ PrevPage(page) < pages
  BY <1>1 DEF PrevPage, PagesInv
<1>4. Turned(side).pages = more
      /\ Turned(side).page = IF side = "left" THEN PrevPage(page) ELSE NextPage(page, more)
  BY DEF Turned
<1> HIDE DEF more
<1>5. NextPage(page, more) \in Nat /\ NextPage(page, more) < more
  BY <1>1, <1>2 DEF NextPage
<1> QED BY <1>1, <1>2, <1>3, <1>4, <1>5

LEMMA AfterTurningIs ==
  ASSUME PagesInv
  PROVE  /\ PagesAfterTurning \in 1 .. MaxPage /\ page < PagesAfterTurning
         /\ PagesAfterTurning \in {pages, pages - 1}
<1>1. MaxPage \in Nat
  BY LayoutAssumption
<1> QED BY <1>1 DEF PagesAfterTurning, PagesInv

LEMMA AfterTranspositionIs ==
  ASSUME PagesInv, NEW P
  PROVE  PagesAfterTransposition(P) \in pages .. MaxPage
<1>1. MaxPage \in Nat
  BY LayoutAssumption
<1> QED BY <1>1 DEF PagesAfterTransposition, NewPage, PagesInv

\* What is left of the pages when the inner state is left, and where a dropped
\* item goes.
Leaving ==
  CASE mode = "transposition" -> PagesAfterTransposition(Arrive(pos, shift))
    [] mode = "turning" -> PagesAfterTurning
    [] OTHER -> pages

DropTo == FirstVacancy(Arrive(pos, shift), page)

AtOrigin == origin # Away /\ ItemAt(Arrive(pos, shift), First(page) + origin) = focus

LEMMA LeavingIs ==
  ASSUME PagesInv
  PROVE  /\ Leaving \in 1 .. MaxPage /\ page < Leaving
         /\ Leaving < pages => mode = "turning"
<1>1. pages \in Nat /\ MaxPage \in Nat /\ page \in Nat
  BY LayoutAssumption DEF PagesInv
<1>2. CASE mode = "transposition"
  <2>1. Leaving = PagesAfterTransposition(Arrive(pos, shift))
    BY <1>2 DEF Leaving
  <2> QED BY <1>1, <2>1, AfterTranspositionIs DEF PagesInv
<1>3. CASE mode = "turning"
  <2>1. Leaving = PagesAfterTurning
    BY <1>3 DEF Leaving
  <2> QED BY <1>3, <2>1, AfterTurningIs
<1>4. CASE mode # "transposition" /\ mode # "turning"
  <2>1. Leaving = pages
    BY <1>4 DEF Leaving
  <2> QED BY <1>1, <2>1 DEF PagesInv
<1> QED BY <1>2, <1>3, <1>4

LEMMA DropSteps ==
  ASSUME Drop
  PROVE  /\ mode \in Picked /\ focus # NoItem
         /\ pos' = IF AtOrigin THEN Arrive(pos, shift)
                   ELSE [Arrive(pos, shift) EXCEPT ![focus] = Away]
         /\ flight' = IF AtOrigin THEN flight ELSE [flight EXCEPT ![focus] = DropTo]
         /\ pages' = IF AtOrigin \/ PageOf(DropTo) < Leaving THEN Leaving
                     ELSE IF PageOf(DropTo) < MaxPage THEN PageOf(DropTo) + 1 ELSE MaxPage
         /\ mode' = IF ~AtOrigin /\ PageOf(DropTo) >= MaxPage THEN "hung" ELSE "putdown"
         /\ page' = page
BY DEF Drop, Leaving, DropTo, AtOrigin

LEMMA DropPages ==
  ASSUME PagesInv, Drop
  PROVE  PagesInv'
<1>1. MaxPage \in Nat /\ pages \in Nat /\ pages <= MaxPage /\ page \in Nat /\ page < pages
  BY LayoutAssumption DEF PagesInv
<1>2. Leaving \in 1 .. MaxPage /\ page < Leaving
  BY LeavingIs
<1>3. DropTo \in Nat /\ First(page) <= DropTo
  BY <1>1, FirstVacancyIs DEF DropTo
<1>4. PageOf(DropTo) \in Nat /\ page <= PageOf(DropTo)
  BY <1>1, <1>3, PageOfIs
<1>5. pages' \in 1 .. MaxPage /\ page < pages' /\ page' = page
  BY <1>1, <1>2, <1>4, DropSteps
<1> QED BY <1>1, <1>5 DEF PagesInv

LEMMA PagesInit ==
  ASSUME Init
  PROVE  PagesInv
<1>1. NItems \in Nat /\ MaxPage \in Nat /\ MaxPage >= 1
  BY LayoutAssumption
<1>2. PageOf(NItems) \in Nat
  BY <1>1, PageOfIs
<1> QED BY <1>1, <1>2 DEF Init, PagesInv

LEMMA PagesStep ==
  ASSUME PagesInv, [Next]_vars
  PROVE  PagesInv'
<1>1. MaxPage \in Nat /\ pages \in Nat /\ pages >= 1 /\ pages <= MaxPage /\ page \in Nat
  BY LayoutAssumption DEF PagesInv
<1>2. CASE page' = page /\ pages' = pages
  BY <1>2 DEF PagesInv
<1>3. CASE TranspositionEnds
  <2>1. pages' \in pages .. MaxPage /\ page' = page
    <3>1. PagesAfterTransposition(pos') \in pages .. MaxPage
      BY AfterTranspositionIs
    <3> QED BY <1>3, <3>1 DEF TranspositionEnds
  <2> QED BY <1>1, <2>1 DEF PagesInv
<1>4. ASSUME NEW side \in {"left", "right"}, TurnPage(side)
      PROVE  PagesInv'
  <2>1. pages' = Turned(side).pages /\ page' = Turned(side).page
    BY <1>4 DEF TurnPage
  <2> QED BY <1>1, <2>1, TurnedIs DEF PagesInv
<1>5. CASE TurningEnds
  <2>1. pages' = PagesAfterTurning /\ page' = page
    BY <1>5 DEF TurningEnds
  <2> QED BY <1>1, <2>1, AfterTurningIs DEF PagesInv
<1>6. CASE ScrollPage
  <2>1. pages' = pages /\ page' \in {PrevPage(page), NextPage(page, pages)}
    BY <1>6 DEF ScrollPage
  <2>2. page' \in Nat /\ page' < pages
    BY <1>1, <2>1 DEF PagesInv, PrevPage, NextPage
  <2> QED BY <1>1, <2>1, <2>2 DEF PagesInv
<1>7. CASE Drop
  BY <1>7, DropPages
<1>8. ASSUME \/ \E i \in Item : PickUp(i) \/ Land(i)
             \/ MovePicked \/ MoveMeanwhile \/ Transpose \/ Pause \/ Resume
             \/ UNCHANGED vars
      PROVE  page' = page /\ pages' = pages
  BY <1>8 DEF PickUp, Land, MovePicked, MoveMeanwhile, Transpose, Pause, Resume, vars
<1> QED BY <1>2, <1>3, <1>4, <1>5, <1>6, <1>7, <1>8 DEF Next

LEMMA PagesInvariant == Spec => []PagesInv
BY PagesInit, PagesStep, PTL DEF Spec

(* The page in view is one of the pages there are, although they come and  *)
(* go while an item is carried (IPhoneDesktopLayout.cc, newPage and        *)
(* deletePage; IPhoneDesktopStatePageTurning.cc:163-204) - also for a user *)
(* who hurries, or puts icons exactly on places.                           *)
THEOREM CurrentPage == Spec => []CurrentPageExists
<1>1. PagesInv => CurrentPageExists
  BY DEF PagesInv, CurrentPageExists
<1> QED BY <1>1, PagesInvariant, PTL

-----------------------------------------------------------------------------
(* Holes.  Making room and closing up both come to this: the hole v goes   *)
(* to e, and the items in between move by one place.                       *)

Place == Nat \cup {Away}

\* On each page the places in front of an item are held, but for h.
HoleAt(P, h) ==
  \A i \in Item : P[i] # Away =>
    \A n \in First(PageOf(P[i])) .. P[i] : n = h \/ Held(P, n)

\* The items between e and v move by one place towards v, which nobody holds:
\* e is free then.
Slide(P, e, v) ==
  [i \in Item |-> IF P[i] \in e .. v - 1 THEN P[i] + 1
                  ELSE IF P[i] \in v + 1 .. e THEN P[i] - 1 ELSE P[i]]

LEMMA HoleAtUse ==
  ASSUME NEW P \in [Item -> Place], NEW h, HoleAt(P, h), NEW i \in Item,
         NEW q \in Nat, P[i] \in PlacesOf(q), NEW n \in Int, First(q) <= n, n <= P[i]
  PROVE  n = h \/ Held(P, n)
<1>1. First(q) \in Nat
  BY FirstType
<1>2. P[i] \in Nat /\ P[i] # Away
  BY <1>1 DEF PlacesOf, Away
<1>3. q = PageOf(P[i])
  BY <1>2, PageOfIs
<1>4. n \in First(PageOf(P[i])) .. P[i]
  BY <1>1, <1>2, <1>3
<1> QED BY <1>2, <1>4 DEF HoleAt

LEMMA SlideIs ==
  ASSUME NEW P \in [Item -> Place], Distinct(P),
         NEW e \in Nat, NEW v \in Nat, ~ Held(P, v)
  PROVE  /\ Slide(P, e, v) \in [Item -> Place]
         /\ Distinct(Slide(P, e, v))
         /\ \A i \in Item : Slide(P, e, v)[i] = Away <=> P[i] = Away
         /\ \A i, j \in Item : P[i] # Away /\ P[i] < P[j]
                                 => Slide(P, e, v)[i] < Slide(P, e, v)[j]
<1> DEFINE Q == Slide(P, e, v)
<1>1. ASSUME NEW i \in Item
      PROVE  /\ P[i] \in Place /\ P[i] # v /\ Q[i] \in Place
             /\ Q[i] = IF P[i] \in e .. v - 1 THEN P[i] + 1
                       ELSE IF P[i] \in v + 1 .. e THEN P[i] - 1 ELSE P[i]
             /\ Q[i] = Away <=> P[i] = Away
  <2>1. P[i] \in Place /\ P[i] # v
    BY DEF Held
  <2>2. Q[i] = IF P[i] \in e .. v - 1 THEN P[i] + 1
               ELSE IF P[i] \in v + 1 .. e THEN P[i] - 1 ELSE P[i]
    BY DEF Slide
  <2> HIDE DEF Q
  <2> QED BY <2>1, <2>2 DEF Place, Away
<1>2. ASSUME NEW i \in Item, NEW j \in Item, P[i] # Away, P[i] < P[j]
      PROVE  Q[i] < Q[j]
  <2> HIDE DEF Q
  <2>1. P[i] \in Nat /\ P[j] \in Nat /\ P[i] # v /\ P[j] # v
    BY <1>1, <1>2 DEF Place, Away
  <2> QED BY <1>1, <1>2, <2>1
<1>3. Distinct(Q)
  <2> HIDE DEF Q
  <2> SUFFICES ASSUME NEW i \in Item, NEW j \in Item, i # j, Q[i] # Away
               PROVE  Q[i] # Q[j]
    BY DEF Distinct
  <2>1. P[i] # Away /\ P[i] # P[j] /\ P[i] \in Nat /\ Q[i] \in Nat
    BY <1>1 DEF Distinct, Place
  <2>2. CASE P[j] = Away
    BY <1>1, <2>2
  <2>3. CASE P[j] # Away
    <3>1. P[j] \in Nat /\ Q[j] \in Nat
      BY <1>1, <2>3 DEF Place
    <3>2. P[i] < P[j] \/ P[j] < P[i]
      BY <2>1, <3>1
    <3> QED BY <1>2, <2>1, <2>3, <3>1, <3>2
  <2> QED BY <2>2, <2>3
<1>4. Q \in [Item -> Place]
  BY <1>1 DEF Slide
<1> HIDE DEF Q
<1> QED BY <1>1, <1>2, <1>3, <1>4 DEF Q

LEMMA SlideHeld ==
  ASSUME NEW P \in [Item -> Place], NEW e \in Nat, NEW v \in Nat, ~ Held(P, v),
         NEW n \in Nat, n # e,
         n \in e + 1 .. v => Held(P, n - 1),
         n \in v .. e - 1 => Held(P, n + 1),
         (n < e /\ n < v) \/ (n > e /\ n > v) => Held(P, n)
  PROVE  Held(Slide(P, e, v), n)
<1> DEFINE Q == Slide(P, e, v)
<1>1. \A i \in Item : Q[i] = IF P[i] \in e .. v - 1 THEN P[i] + 1
                             ELSE IF P[i] \in v + 1 .. e THEN P[i] - 1 ELSE P[i]
  BY DEF Slide
<1> HIDE DEF Q
<1>2. CASE n \in e + 1 .. v
  <2>1. PICK i \in Item : P[i] = n - 1
    BY <1>2 DEF Held
  <2>2. Q[i] = n
    BY <1>1, <1>2, <2>1
  <2> QED BY <2>2 DEF Held, Q
<1>3. CASE n \in v .. e - 1
  <2>1. PICK i \in Item : P[i] = n + 1
    BY <1>3 DEF Held
  <2>2. Q[i] = n
    BY <1>1, <1>3, <2>1
  <2> QED BY <2>2 DEF Held, Q
<1>4. CASE (n < e /\ n < v) \/ (n > e /\ n > v)
  <2>1. PICK i \in Item : P[i] = n
    BY <1>4 DEF Held
  <2>2. Q[i] = n
    BY <1>1, <1>4, <2>1
  <2> QED BY <2>2 DEF Held, Q
<1> QED BY <1>2, <1>3, <1>4

\* The hole of the page was v, and is e then.
LEMMA SlideHole ==
  ASSUME NEW P \in [Item -> Place], Distinct(P), NEW p \in Nat,
         NEW h, h = Away \/ h \in PlacesOf(p), HoleAt(P, h),
         NEW e \in PlacesOf(p), NEW v \in Nat, First(p) <= v, ~ Held(P, v),
         \A n \in First(p) .. v - 1 : Held(P, n)
  PROVE  HoleAt(Slide(P, e, v), e)
<1> DEFINE Q == Slide(P, e, v)
<1>1. /\ First(p) \in Nat /\ Cap \in Nat
      /\ e \in Nat /\ First(p) <= e /\ e < First(p) + Cap
  BY FirstType, LayoutAssumption DEF PlacesOf
<1>2. Q \in [Item -> Place] /\ \A i \in Item : Q[i] = Away <=> P[i] = Away
  BY <1>1, SlideIs
<1>3. SUFFICES ASSUME NEW i \in Item, Q[i] # Away,
                      NEW n \in First(PageOf(Q[i])) .. Q[i], n # e
               PROVE  Held(Q, n)
  BY DEF HoleAt
<1>4. PICK q \in Nat : Q[i] \in PlacesOf(q) /\ q = PageOf(Q[i])
  <2>1. Q[i] \in Nat
    BY <1>2, <1>3 DEF Place
  <2> HIDE DEF Q
  <2> QED BY <2>1, PageOfIs
<1>5. First(q) \in Nat /\ n \in Nat /\ First(q) <= n /\ n <= Q[i] /\ Q[i] < First(q) + Cap
      /\ Q[i] \in Nat
  <2>1. Q[i] \in Nat /\ First(q) \in Nat
    BY <1>2, <1>3, <1>4, FirstType DEF Place
  <2>2. n \in First(q) .. Q[i]
    BY <1>3, <1>4
  <2> HIDE DEF Q
  <2>3. First(q) <= Q[i] /\ Q[i] < First(q) + Cap
    BY <1>4, <2>1, PlacesIs
  <2> QED BY <2>1, <2>2, <2>3
<1>6. P[i] \in Nat /\ P[i] # v
      /\ Q[i] = IF P[i] \in e .. v - 1 THEN P[i] + 1
                ELSE IF P[i] \in v + 1 .. e THEN P[i] - 1 ELSE P[i]
  BY <1>2, <1>3 DEF Slide, Held, Place
<1> HIDE DEF Q
<1>7. n \in PlacesOf(q)
  BY <1>1, <1>5, PlacesIs
\* n is not the hole of P when that one is v
<1>8. ASSUME NEW m \in Nat, m <= P[i], P[i] \in PlacesOf(q), First(q) <= m, v < m
      PROVE  Held(P, m)
  <2>1. m = h \/ Held(P, m)
    BY <1>4, <1>8, HoleAtUse
  <2>2. ASSUME m = h
        PROVE  FALSE
    <3>1. m \in PlacesOf(p) /\ m \in PlacesOf(q)
      <4>1. m < First(q) + Cap
        BY <1>1, <1>5, <1>6, <1>8, PlacesIs
      <4> QED BY <1>4, <1>8, <2>2, <4>1, PlacesIs DEF Away
    <3>2. q = p
      BY <1>4, <1>8, <3>1, PageOfIs
    <3>3. v = h \/ Held(P, v)
      BY <1>6, <1>8, <3>2, HoleAtUse
    <3> QED BY <1>8, <2>2, <3>3
  <2> QED BY <2>1, <2>2
<1>9. CASE n < First(p)
  <2>1. Q[i] < First(p)
    <3>1. q < p
      BY <1>5, <1>7, <1>9, PageOfIs
    <3>2. First(q) + Cap <= First(p)
      BY <3>1, FirstOrder
    <3> QED BY <1>1, <1>5, <3>2
  <2>2. P[i] = Q[i]
    BY <1>1, <1>5, <1>6, <2>1
  <2>3. n = h \/ Held(P, n)
    BY <1>4, <1>5, <2>2, HoleAtUse
  <2>4. n # h
    BY <1>1, <1>5, <1>9 DEF PlacesOf, Away
  <2> QED BY <1>1, <1>5, <1>9, <2>3, <2>4, SlideHeld DEF Q
<1>10. CASE First(p) <= n
  <2>1. n \in e + 1 .. v => Held(P, n - 1)
    <3>1. n \in e + 1 .. v => n - 1 \in First(p) .. v - 1
      BY <1>1, <1>5
    <3> QED BY <3>1
  <2>2. n \in v .. e - 1 => Held(P, n + 1)
    <3> SUFFICES ASSUME n \in v .. e - 1
                 PROVE  Held(P, n + 1)
      OBVIOUS
    <3>1. n \in PlacesOf(p)
      BY <1>1, <1>5, <1>10, PlacesIs
    <3>2. q = p
      BY <1>5, <1>7, <3>1, PageOfIs
    <3>3. n + 1 <= P[i] /\ P[i] < First(p) + Cap
      BY <1>1, <1>5, <1>6, <3>2
    <3>4. P[i] \in PlacesOf(q)
      BY <1>1, <1>5, <1>6, <1>10, <3>2, <3>3, PlacesIs
    <3>5. n + 1 \in Nat /\ First(q) <= n + 1 /\ v < n + 1
      BY <1>5
    <3> QED BY <1>8, <3>3, <3>4, <3>5
  <2>3. n < e /\ n < v => Held(P, n)
    <3>1. n < v => n \in First(p) .. v - 1
      BY <1>1, <1>5, <1>10
    <3> QED BY <3>1
  <2>4. n > e /\ n > v => Held(P, n)
    <3> SUFFICES ASSUME n > e, n > v
                 PROVE  Held(P, n)
      OBVIOUS
    <3>1. P[i] = Q[i]
      BY <1>1, <1>5, <1>6
    <3> QED BY <1>4, <1>5, <1>8, <3>1
  <2> QED BY <1>1, <1>3, <1>5, <2>1, <2>2, <2>3, <2>4, SlideHeld DEF Q
<1> QED BY <1>1, <1>5, <1>9, <1>10

\* A hole behind all the others is none.
LEMMA LastHole ==
  ASSUME NEW P \in [Item -> Place], NEW p \in Nat, HoleAt(P, First(p) + Cap - 1)
  PROVE  HoleAt(P, Away)
<1> DEFINE l == First(p) + Cap - 1
<1>1. SUFFICES ASSUME NEW i \in Item, P[i] # Away,
                      NEW n \in First(PageOf(P[i])) .. P[i]
               PROVE  Held(P, n)
  BY DEF HoleAt
<1>2. n = l \/ Held(P, n)
  BY <1>1 DEF HoleAt
<1>3. CASE n = l
  <2>1. P[i] \in Nat /\ First(p) \in Nat /\ Cap \in Nat /\ Cap > 0
    BY <1>1, FirstType, LayoutAssumption DEF Place
  <2>2. l \in PlacesOf(p) /\ l \in Nat
    BY <2>1, PlacesIs
  <2>3. PageOf(P[i]) \in Nat /\ P[i] \in PlacesOf(PageOf(P[i]))
    BY <2>1, PageOfIs
  <2>4. First(PageOf(P[i])) <= l /\ l <= P[i] /\ P[i] < First(PageOf(P[i])) + Cap
        /\ First(PageOf(P[i])) \in Nat
    BY <1>1, <1>3, <2>1, <2>3, FirstType, PlacesIs
  <2>5. l \in PlacesOf(PageOf(P[i]))
    BY <2>1, <2>2, <2>3, <2>4, PlacesIs
  <2>6. PageOf(P[i]) = p
    BY <2>2, <2>3, <2>5, PageOfIs
  <2>7. P[i] = l
    BY <2>1, <2>4, <2>6
  <2> QED BY <1>3, <2>7 DEF Held
<1> QED BY <1>2, <1>3

-----------------------------------------------------------------------------
(* What the two states do with the items is a slide.                       *)

LEMMA LeastVacancyIs ==
  ASSUME NEW P, NEW p \in Nat, Vacancies(P, p) # {}
  PROVE  LET v == Least(Vacancies(P, p))
         IN  /\ v \in PlacesOf(p) /\ v \in Nat /\ First(p) <= v /\ ~ Held(P, v)
             /\ \A n \in First(p) .. v - 1 : Held(P, n)
<1> DEFINE V == Vacancies(P, p)
           v == Least(V)
<1>1. First(p) \in Nat /\ Cap \in Nat
  BY FirstType, LayoutAssumption
<1>2. V \in SUBSET Nat /\ V # {}
  BY <1>1 DEF Vacancies, PlacesOf
<1>3. \A n : n \in V <=> n \in PlacesOf(p) /\ ~ Held(P, n)
  BY VacancyIs
<1> HIDE DEF V
<1>4. v \in V /\ \A m \in V : v <= m
  BY <1>2, LeastIs
<1> HIDE DEF v
<1>5. v \in PlacesOf(p) /\ v \in Nat /\ First(p) <= v /\ v < First(p) + Cap /\ ~ Held(P, v)
  BY <1>2, <1>3, <1>4, PlacesIs
<1>6. ASSUME NEW n \in First(p) .. v - 1
      PROVE  Held(P, n)
  <2>1. n \in Nat /\ First(p) <= n /\ n < v
    BY <1>1, <1>5, <1>6
  <2>2. n \in PlacesOf(p)
    BY <1>1, <1>5, <2>1, PlacesIs
  <2> QED BY <1>3, <1>4, <1>5, <2>1, <2>2
<1> QED BY <1>5, <1>6 DEF v, V

\* One side of the items that close up, and the other.
ClosedUp(P, s, e) ==
  [i \in Item |-> IF P[i] \in e .. s - 1 THEN P[i] + 1
                  ELSE IF P[i] \in s + 1 .. e THEN P[i] - 1 ELSE Away]

LEMMA CloseUpIs ==
  ASSUME NEW P \in [Item -> Place], Distinct(P), NEW s \in Nat, NEW e \in Nat,
         \A n \in e .. s - 1 : Held(P, n),
         \A i \in Item : P[i] \in s + 2 .. e => Held(P, P[i] - 1)
  PROVE  CloseUp(P, s, e) = ClosedUp(P, s, e)
<1> DEFINE between == (s + 1 .. e) \cup (e .. s - 1)
           held == {n \in between : ItemAt(P, n) # NoItem} \cup {s}
           To(i) == IF ~OnPlace(P, i, between) THEN Away
                    ELSE IF e < s THEN Least({n \in held : n > P[i]})
                                  ELSE Most({n \in held : n < P[i]})
<1>1. held \subseteq Nat /\ between \subseteq Nat /\ Away \notin between
  BY DEF Away
<1>2. \A n : n \in held <=> n = s \/ (n \in between /\ Held(P, n))
  BY ItemAtIs
<1>3. \A i \in Item : OnPlace(P, i, between) <=> P[i] \in between
  BY <1>1, OnPlaceIs
<1>4. \A n : n \in between <=> n \in s + 1 .. e \/ n \in e .. s - 1
  OBVIOUS
<1>5. CloseUp(P, s, e) = [i \in Item |-> To(i)]
  BY DEF CloseUp
<1>6. ASSUME NEW i \in Item
      PROVE  To(i) = IF P[i] \in e .. s - 1 THEN P[i] + 1
                     ELSE IF P[i] \in s + 1 .. e THEN P[i] - 1 ELSE Away
  <2> HIDE DEF held, between
  <2>1. CASE P[i] \in e .. s - 1
    <3> DEFINE S == {n \in held : n > P[i]}
    <3>1. P[i] \in Nat /\ e < s /\ P[i] + 1 <= s /\ e <= P[i]
      BY <2>1
    <3>2. P[i] + 1 \in held
      <4>1. CASE P[i] + 1 = s
        BY <1>2, <4>1
      <4>2. CASE P[i] + 1 # s
        <5>1. P[i] + 1 \in e .. s - 1
          BY <3>1, <4>2
        <5>2. Held(P, P[i] + 1) /\ P[i] + 1 \in between
          BY <1>4, <5>1
        <5> QED BY <1>2, <5>2
      <4> QED BY <4>1, <4>2
    <3>3. P[i] + 1 \in S
      BY <3>1, <3>2
    <3>4. S \subseteq Nat /\ \A n \in S : n > P[i]
      BY <1>1
    <3> HIDE DEF S
    <3>5. Least(S) = P[i] + 1
      <4>1. Least(S) \in S /\ \A n \in S : Least(S) <= n
        BY <3>3, <3>4, LeastIs
      <4>2. Least(S) \in Nat /\ Least(S) > P[i] /\ Least(S) <= P[i] + 1
        BY <3>3, <3>4, <4>1
      <4> QED BY <3>1, <4>2
    <3>6. To(i) = Least(S)
      BY <1>3, <1>4, <2>1, <3>1 DEF S
    <3> QED BY <2>1, <3>5, <3>6
  <2>2. CASE P[i] \in s + 1 .. e
    <3> DEFINE S == {n \in held : n < P[i]}
    <3>1. P[i] \in Nat /\ P[i] - 1 \in Nat /\ s < e /\ s <= P[i] - 1 /\ P[i] <= e
      BY <2>2
    <3>2. P[i] - 1 \in held
      <4>1. CASE P[i] - 1 = s
        BY <1>2, <4>1
      <4>2. CASE P[i] - 1 # s
        <5>1. P[i] \in s + 2 .. e /\ P[i] - 1 \in s + 1 .. e
          BY <3>1, <4>2
        <5>2. Held(P, P[i] - 1) /\ P[i] - 1 \in between
          BY <1>4, <5>1
        <5> QED BY <1>2, <5>2
      <4> QED BY <4>1, <4>2
    <3>3. P[i] - 1 \in S
      BY <3>1, <3>2
    <3>4. Most(S) = P[i] - 1
      <4>1. S \subseteq Nat /\ \A n \in S : n < P[i]
        BY <1>1
      <4> HIDE DEF S
      <4>2. \A n \in S : P[i] - 1 >= n
        BY <3>1, <4>1
      <4> QED BY <3>3, <4>1, <4>2, MostIs
    <3>5. To(i) = Most(S)
      BY <1>3, <1>4, <2>2, <3>1 DEF S
    <3> QED BY <2>2, <3>1, <3>4, <3>5
  <2>3. CASE P[i] \notin e .. s - 1 /\ P[i] \notin s + 1 .. e
    BY <1>3, <1>4, <2>3
  <2> QED BY <2>1, <2>2, <2>3
<1> HIDE DEF To
<1> QED BY <1>5, <1>6 DEF ClosedUp

LEMMA FullPage ==
  ASSUME NEW P \in [Item -> Place], NEW p \in Nat, Vacancies(P, p) = {}
  PROVE  First(p) + Cap - 1 < FirstVacancy(P, p)
<1>1. First(p) \in Nat /\ Cap \in Nat
  BY FirstType, LayoutAssumption
<1>2. FirstVacancy(P, p) \in Nat /\ First(p) <= FirstVacancy(P, p)
      /\ ~ Held(P, FirstVacancy(P, p))
  BY FirstVacancyIs
<1>3. FirstVacancy(P, p) \notin PlacesOf(p)
  BY <1>2, VacancyIs
<1>4. ~ (FirstVacancy(P, p) < First(p) + Cap)
  BY <1>2, <1>3, PlacesIs
<1> QED BY <1>1, <1>2, <1>4

\* The first vacancy from page p on, when there is one on it.
LEMMA VacancyHere ==
  ASSUME NEW P \in [Item -> Place], NEW p \in Nat, Vacancies(P, p) # {}
  PROVE  FirstVacancy(P, p) = Least(Vacancies(P, p))
<1> DEFINE v == FirstVacancy(P, p)
           u == Least(Vacancies(P, p))
<1>1. First(p) \in Nat
  BY FirstType
<1>2. v \in Nat /\ First(p) <= v /\ ~ Held(P, v) /\ \A n \in First(p) .. v - 1 : Held(P, n)
  BY FirstVacancyIs
<1>3. u \in Nat /\ First(p) <= u /\ ~ Held(P, u) /\ \A n \in First(p) .. u - 1 : Held(P, n)
  BY LeastVacancyIs
<1> HIDE DEF u, v
<1>4. ~ (u < v)
  <2>1. u < v => u \in First(p) .. v - 1
    BY <1>1, <1>2, <1>3
  <2> QED BY <1>2, <1>3, <2>1
<1>5. ~ (v < u)
  <2>1. v < u => v \in First(p) .. u - 1
    BY <1>1, <1>2, <1>3
  <2> QED BY <1>2, <1>3, <2>1
<1>6. v = u
  BY <1>2, <1>3, <1>4, <1>5
<1> QED BY <1>6 DEF u, v

LEMMA PushOnIs ==
  ASSUME NEW P \in [Item -> Place], Distinct(P), NEW p \in Nat
  PROVE  PushOn(P, p) = IF Vacancies(P, p) # {} THEN P
                        ELSE Slide(P, First(p) + Cap - 1, FirstVacancy(P, p))
<1>1. CASE Vacancies(P, p) # {}
  <2>1. Overflow(P, p) = {}
    BY <1>1 DEF Overflow
  <2>2. PushOn(P, p) = [i \in Item |-> P[i]]
    BY <2>1 DEF PushOn, OnPlace
  <2>3. [i \in Item |-> P[i]] = P
    OBVIOUS
  <2> QED BY <1>1, <2>2, <2>3
<1>2. CASE Vacancies(P, p) = {}
  <2> DEFINE l == First(p) + Cap - 1
             v == FirstVacancy(P, p)
  <2>1. l \in Nat /\ v \in Nat /\ l < v
    BY <1>2, FirstType, FirstVacancyIs, FullPage, LayoutAssumption
  <2>2. Overflow(P, p) = l .. v - 1
    BY <1>2 DEF Overflow
  <2>3. \A i \in Item : OnPlace(P, i, l .. v - 1) <=> P[i] \in l .. v - 1
    <3>1. Away \notin l .. v - 1
      BY <2>1 DEF Away
    <3> QED BY <3>1, OnPlaceIs
  <2>4. PushOn(P, p) = [i \in Item |-> IF OnPlace(P, i, l .. v - 1) THEN P[i] + 1 ELSE P[i]]
    BY <2>2 DEF PushOn
  <2> HIDE DEF l, v
  <2>5. \A i \in Item : P[i] \notin v + 1 .. l
    BY <2>1
  <2>6. PushOn(P, p) = Slide(P, l, v)
    BY <2>3, <2>4, <2>5 DEF Slide
  <2> QED BY <1>2, <2>6 DEF l, v
<1> QED BY <1>1, <1>2

LEMMA TransposeIs ==
  ASSUME NEW P \in [Item -> Place], Distinct(P), NEW p \in Nat,
         NEW h, h = Away \/ h \in PlacesOf(p), HoleAt(P, h), NEW e \in PlacesOf(p),
         NEW R, R = PushOn(P, p), NEW T, T = CloseUp(R, Hole(P, p), e)
  PROVE  /\ R \in [Item -> Place] /\ T \in [Item -> Place]
         /\ \A i \in Item : P[i] = Away => R[i] = Away /\ T[i] = Away
         /\ Arrive(R, T) = Slide(P, e, FirstVacancy(P, p))
<1> DEFINE v == FirstVacancy(P, p)
           l == First(p) + Cap - 1
           s == Hole(P, p)
<1>1. /\ First(p) \in Nat /\ Cap \in Nat /\ Cap > 0 /\ l \in Nat
      /\ e \in Nat /\ First(p) <= e /\ e <= l
  BY FirstType, LayoutAssumption DEF PlacesOf
<1>2. v \in Nat /\ First(p) <= v /\ ~ Held(P, v) /\ \A n \in First(p) .. v - 1 : Held(P, n)
  BY FirstVacancyIs
<1>3. CASE Vacancies(P, p) # {}
  <2>1. R = P /\ s = v
    BY <1>3, PushOnIs, VacancyHere DEF Hole
  <2> HIDE DEF v, l, s
  <2>2. \A n \in e .. v - 1 : Held(P, n)
    <3>1. \A n \in e .. v - 1 : n \in First(p) .. v - 1
      BY <1>1, <1>2
    <3> QED BY <1>2, <3>1
  <2>3. ASSUME NEW i \in Item, P[i] \in v + 2 .. e
        PROVE  Held(P, P[i] - 1)
    <3>1. /\ P[i] \in Nat /\ P[i] - 1 \in Int /\ P[i] - 1 <= P[i] /\ v < P[i] - 1 /\ v <= P[i]
          /\ First(p) <= P[i] /\ P[i] < First(p) + Cap /\ First(p) <= P[i] - 1
      BY <1>1, <1>2, <2>3 DEF l
    <3>2. P[i] \in PlacesOf(p)
      BY <3>1, PlacesIs
    <3>3. v = h
      <4>1. v = h \/ Held(P, v)
        BY <1>2, <3>1, <3>2, HoleAtUse
      <4> QED BY <1>2, <4>1
    <3>4. P[i] - 1 = h \/ Held(P, P[i] - 1)
      BY <3>1, <3>2, HoleAtUse
    <3> QED BY <1>2, <3>1, <3>3, <3>4
  <2>4. T = ClosedUp(P, v, e)
    <3>1. CloseUp(P, v, e) = ClosedUp(P, v, e)
      BY <1>1, <1>2, <2>2, <2>3, CloseUpIs
    <3>2. T = CloseUp(P, v, e)
      BY <2>1 DEF s
    <3> QED BY <3>1, <3>2
  <2>5. ASSUME NEW i \in Item
        PROVE  /\ P[i] \in Place /\ T[i] \in Place
               /\ P[i] = Away => T[i] = Away
               /\ (IF T[i] = Away THEN P[i] ELSE T[i]) = Slide(P, e, v)[i]
    <3>1. P[i] \in Place
      OBVIOUS
    <3>2. T[i] = IF P[i] \in e .. v - 1 THEN P[i] + 1
                 ELSE IF P[i] \in v + 1 .. e THEN P[i] - 1 ELSE Away
      BY <2>4 DEF ClosedUp
    <3>3. Slide(P, e, v)[i] = IF P[i] \in e .. v - 1 THEN P[i] + 1
                              ELSE IF P[i] \in v + 1 .. e THEN P[i] - 1 ELSE P[i]
      BY DEF Slide
    <3> QED BY <1>1, <1>2, <3>1, <3>2, <3>3 DEF Place, Away
  <2>6. T \in [Item -> Place]
    BY <2>4, <2>5 DEF ClosedUp
  <2>7. Arrive(P, T) = Slide(P, e, v)
    BY <2>5 DEF Arrive, Slide
  <2> QED BY <2>1, <2>5, <2>6, <2>7 DEF v
<1>4. CASE Vacancies(P, p) = {}
  <2>1. R = Slide(P, l, v) /\ s = l /\ l < v
    BY <1>4, PushOnIs, FullPage DEF Hole
  <2>2. /\ R \in [Item -> Place] /\ Distinct(R)
        /\ \A i \in Item : R[i] = Away <=> P[i] = Away
    <3> HIDE DEF v, l
    <3> QED BY <1>1, <1>2, <2>1, SlideIs
  <2> HIDE DEF v, l, s
  <2>3. ASSUME NEW i \in Item
        PROVE  P[i] \in Place /\ R[i] \in Place
               /\ R[i] = IF P[i] \in l .. v - 1 THEN P[i] + 1 ELSE P[i]
    <3>1. R[i] = IF P[i] \in l .. v - 1 THEN P[i] + 1
                 ELSE IF P[i] \in v + 1 .. l THEN P[i] - 1 ELSE P[i]
      BY <2>1 DEF Slide
    <3>2. P[i] \notin v + 1 .. l
      BY <1>1, <1>2, <2>1
    <3> QED BY <2>2, <3>1, <3>2
  <2>4. ASSUME NEW n \in e .. l - 1
        PROVE  Held(R, n)
    <3>1. n \in First(p) .. v - 1 /\ n \notin l .. v - 1
      BY <1>1, <1>2, <2>1, <2>4
    <3>2. PICK i \in Item : P[i] = n
      BY <1>2, <3>1 DEF Held
    <3>3. R[i] = n
      BY <2>3, <3>1, <3>2
    <3> QED BY <3>3 DEF Held
  <2>5. \A i \in Item : R[i] \notin l + 1 .. e /\ R[i] \notin l + 2 .. e
    BY <1>1
  <2>6. T = ClosedUp(R, l, e)
    <3>1. CloseUp(R, l, e) = ClosedUp(R, l, e)
      BY <1>1, <2>2, <2>4, <2>5, CloseUpIs
    <3>2. T = CloseUp(R, l, e)
      BY <2>1 DEF s
    <3> QED BY <3>1, <3>2
  <2>7. ASSUME NEW i \in Item
        PROVE  /\ T[i] \in Place
               /\ P[i] = Away => T[i] = Away
               /\ (IF T[i] = Away THEN R[i] ELSE T[i]) = Slide(P, e, v)[i]
    <3>1. T[i] = IF R[i] \in e .. l - 1 THEN R[i] + 1 ELSE Away
      BY <2>5, <2>6 DEF ClosedUp
    <3>2. Slide(P, e, v)[i] = IF P[i] \in e .. v - 1 THEN P[i] + 1 ELSE P[i]
      <4>1. P[i] \notin v + 1 .. e
        BY <1>1, <1>2, <2>1
      <4> QED BY <4>1 DEF Slide
    <3>3. P[i] \in e .. v - 1 <=> P[i] \in e .. l - 1 \/ P[i] \in l .. v - 1
      BY <1>1, <1>2, <2>1
    <3>4. CASE P[i] \in e .. l - 1
      <4>1. R[i] = P[i] /\ T[i] = P[i] + 1 /\ P[i] \in Nat
        BY <1>1, <2>3, <3>1, <3>4
      <4> QED BY <3>2, <3>3, <3>4, <4>1 DEF Place, Away
    <3>5. CASE P[i] \in l .. v - 1
      <4>1. R[i] = P[i] + 1 /\ R[i] \notin e .. l - 1 /\ P[i] \in Nat
        BY <1>1, <2>3, <3>5
      <4> QED BY <3>1, <3>2, <3>3, <3>5, <4>1 DEF Place, Away
    <3>6. CASE P[i] \notin e .. l - 1 /\ P[i] \notin l .. v - 1
      BY <2>3, <3>1, <3>2, <3>3, <3>6 DEF Place
    <3> QED BY <3>4, <3>5, <3>6
  <2>8. T \in [Item -> Place]
    BY <2>6, <2>7 DEF ClosedUp
  <2>9. Arrive(R, T) = Slide(P, e, v)
    BY <2>7 DEF Arrive, Slide
  <2> QED BY <2>2, <2>7, <2>8, <2>9 DEF v
<1> QED BY <1>3, <1>4

LEMMA CompactIs ==
  ASSUME NEW P \in [Item -> Place], Distinct(P), NEW p \in Nat,
         NEW h, h = Away \/ h \in PlacesOf(p), HoleAt(P, h)
  PROVE  /\ Compact(P, p) \in [Item -> Place] /\ Distinct(Compact(P, p))
         /\ \A i \in Item : Compact(P, p)[i] = Away <=> P[i] = Away
         /\ \A i \in Item : P[i] # Away => Compact(P, p)[i] <= P[i]
         /\ \A i, j \in Item : P[i] # Away /\ P[i] < P[j]
                                 => Compact(P, p)[i] < Compact(P, p)[j]
         /\ HoleAt(Compact(P, p), Away)
<1>1. /\ First(p) \in Nat /\ Cap \in Nat /\ Cap > 0
  BY FirstType, LayoutAssumption
<1>2. CASE Vacancies(P, p) = {}
  <2>1. Compact(P, p) = P
    BY <1>2 DEF Compact
  <2>2. HoleAt(P, Away)
    <3> SUFFICES ASSUME NEW i \in Item, P[i] # Away,
                        NEW n \in First(PageOf(P[i])) .. P[i]
                 PROVE  Held(P, n)
      BY DEF HoleAt
    <3>1. n = h \/ Held(P, n)
      BY DEF HoleAt
    <3>2. n # Away
      <4>1. P[i] \in Nat
        BY DEF Place
      <4>2. PageOf(P[i]) \in Nat
        BY <4>1, PageOfIs
      <4>3. First(PageOf(P[i])) \in Nat
        BY <4>2, FirstType
      <4> QED BY <4>1, <4>3 DEF Away
    <3> QED BY <1>2, <3>1, <3>2, VacancyIs
  <2> QED BY <2>1, <2>2 DEF Place
<1>3. CASE Vacancies(P, p) # {}
  <2> DEFINE v == Least(Vacancies(P, p))
             l == First(p) + Cap - 1
             behind == {n \in PlacesOf(p) : n > v
                          /\ \A m \in v + 1 .. n : m \notin Vacancies(P, p)}
  <2>1. /\ v \in PlacesOf(p) /\ v \in Nat /\ First(p) <= v /\ ~ Held(P, v)
        /\ \A n \in First(p) .. v - 1 : Held(P, n)
    BY <1>3, LeastVacancyIs
  <2>2. l \in PlacesOf(p) /\ l \in Nat /\ v <= l
    BY <1>1, <2>1, PlacesIs
  <2>3. Compact(P, p) = [i \in Item |-> IF OnPlace(P, i, behind) THEN P[i] - 1 ELSE P[i]]
    BY <1>3 DEF Compact
  <2>4. Away \notin behind
    BY <1>1 DEF PlacesOf, Away
  <2> HIDE DEF v
  <2>5. ASSUME NEW i \in Item, P[i] \in v + 1 .. l
        PROVE  P[i] \in behind
    <3>1. P[i] \in Nat /\ v < P[i] /\ P[i] \in PlacesOf(p)
      BY <1>1, <2>1, <2>2, <2>5, PlacesIs
    <3>2. v = h
      <4>1. v = h \/ Held(P, v)
        BY <2>1, <3>1, HoleAtUse
      <4> QED BY <2>1, <4>1
    <3>3. ASSUME NEW m \in v + 1 .. P[i]
          PROVE  m \notin Vacancies(P, p)
      <4>1. m \in Nat /\ First(p) <= m /\ m <= P[i] /\ m # v
        BY <1>1, <2>1, <3>1, <3>3
      <4>2. m = h \/ Held(P, m)
        BY <3>1, <4>1, HoleAtUse
      <4> QED BY <3>2, <4>1, <4>2, VacancyIs
    <3> QED BY <2>1, <3>1, <3>3
  <2>6. \A i \in Item : P[i] \in behind => P[i] \in v + 1 .. l
    BY <1>1, <2>1 DEF PlacesOf
  <2>7. \A i \in Item : OnPlace(P, i, behind) <=> P[i] \in v + 1 .. l
    <3> HIDE DEF behind
    <3> QED BY <2>4, <2>5, <2>6, OnPlaceIs
  <2>8. Compact(P, p) = Slide(P, l, v)
    <3>1. \A i \in Item : P[i] \notin l .. v - 1
      BY <2>1, <2>2
    <3> HIDE DEF behind, l
    <3> QED BY <2>3, <2>7, <3>1 DEF Slide
  <2>9. HoleAt(Slide(P, l, v), Away)
    <3>1. HoleAt(Slide(P, l, v), l)
      <4> HIDE DEF l
      <4> QED BY <2>1, <2>2, SlideHole
    <3>2. Slide(P, l, v) \in [Item -> Place]
      BY <2>1, <2>2, SlideIs
    <3> QED BY <3>1, <3>2, LastHole
  <2>10. ASSUME NEW i \in Item, P[i] # Away
         PROVE  Slide(P, l, v)[i] <= P[i]
    <3>1. P[i] \in Nat /\ P[i] \notin l .. v - 1
      BY <2>1, <2>2, <2>10 DEF Place
    <3>2. Slide(P, l, v)[i] = IF P[i] \in v + 1 .. l THEN P[i] - 1 ELSE P[i]
      BY <3>1 DEF Slide
    <3> QED BY <3>1, <3>2
  <2> HIDE DEF l
  <2>11. /\ Slide(P, l, v) \in [Item -> Place]
         /\ Distinct(Slide(P, l, v))
         /\ \A i \in Item : Slide(P, l, v)[i] = Away <=> P[i] = Away
         /\ \A i, j \in Item : P[i] # Away /\ P[i] < P[j]
                                 => Slide(P, l, v)[i] < Slide(P, l, v)[j]
    BY <2>1, <2>2, SlideIs
  <2> QED BY <2>8, <2>9, <2>10, <2>11
<1> QED BY <1>2, <1>3

\* The carried item leaves a hole.
LEMMA LiftHole ==
  ASSUME NEW P \in [Item -> Place], HoleAt(P, Away), NEW f \in Item,
         NEW Q, Q = [P EXCEPT ![f] = Away]
  PROVE  HoleAt(Q, P[f])
<1>1. SUFFICES ASSUME NEW i \in Item, Q[i] # Away,
                      NEW n \in First(PageOf(Q[i])) .. Q[i]
               PROVE  n = P[f] \/ Held(Q, n)
  BY DEF HoleAt
<1>2. Q[i] = P[i] /\ P[i] # Away /\ P[i] \in Nat
  BY <1>1 DEF Place
<1>3. n # Away
  <2>1. PageOf(P[i]) \in Nat
    BY <1>2, PageOfIs
  <2>2. First(PageOf(P[i])) \in Nat
    BY <2>1, FirstType
  <2> QED BY <1>1, <1>2, <2>2 DEF Away
<1>4. n = Away \/ Held(P, n)
  BY <1>1, <1>2 DEF HoleAt
<1>5. PICK j \in Item : P[j] = n
  BY <1>3, <1>4 DEF Held
<1>6. j # f => Q[j] = n
  BY <1>5
<1> QED BY <1>5, <1>6 DEF Held

\* ...and fills the first vacancy when it is dropped.
LEMMA FillHole ==
  ASSUME NEW P \in [Item -> Place], Distinct(P), NEW p \in Nat,
         NEW h, h = Away \/ h \in PlacesOf(p), HoleAt(P, h),
         NEW f \in Item, P[f] = Away, NEW Q, Q = [P EXCEPT ![f] = FirstVacancy(P, p)]
  PROVE  Q \in [Item -> Place] /\ Distinct(Q) /\ HoleAt(Q, Away)
<1>1. PICK v : v = FirstVacancy(P, p)
  OBVIOUS
<1>2. v \in Nat /\ First(p) <= v /\ ~ Held(P, v) /\ \A n \in First(p) .. v - 1 : Held(P, n)
  BY <1>1, FirstVacancyIs
<1>3. /\ Q \in [Item -> Place] /\ Q[f] = v /\ v # Away
      /\ \A i \in Item : i # f => Q[i] = P[i]
  BY <1>1, <1>2 DEF Place, Away
<1>4. Distinct(Q)
  BY <1>2, <1>3 DEF Distinct, Held
<1>5. \A n \in Nat : Held(P, n) => Held(Q, n)
  <2>1. \A n \in Nat : n # Away
    BY DEF Away
  <2> QED BY <1>3, <2>1 DEF Held
<1>6. First(p) \in Nat /\ Cap \in Nat
  BY FirstType, LayoutAssumption
<1>7. HoleAt(Q, Away)
  <2>1. SUFFICES ASSUME NEW i \in Item, Q[i] # Away,
                        NEW n \in First(PageOf(Q[i])) .. Q[i]
                 PROVE  Held(Q, n)
    BY DEF HoleAt
  <2>2. PICK q \in Nat : Q[i] \in PlacesOf(q) /\ q = PageOf(Q[i])
    <3>1. Q[i] \in Nat
      BY <1>3, <2>1 DEF Place
    <3> QED BY <3>1, PageOfIs
  <2>3. First(q) \in Nat /\ n \in Nat /\ First(q) <= n /\ n <= Q[i] /\ Q[i] < First(q) + Cap
        /\ Q[i] \in Nat
    <3>1. Q[i] \in Nat /\ First(q) \in Nat
      BY <1>3, <2>1, <2>2, FirstType DEF Place
    <3>2. n \in First(q) .. Q[i]
      BY <2>1, <2>2
    <3>3. First(q) <= Q[i] /\ Q[i] < First(q) + Cap
      BY <2>2, <3>1, PlacesIs
    <3> QED BY <3>1, <3>2, <3>3
  <2>4. n \in First(p) .. v - 1 => Held(Q, n)
    BY <1>2, <1>5, <2>3
  <2>5. n = v => Held(Q, n)
    BY <1>3 DEF Held
  <2>6. CASE i = f
    <3>1. Q[i] = v
      BY <1>3, <2>6
    <3>2. p <= q
      BY <1>2, <2>2, <3>1, PageOfIs
    <3>3. First(p) <= First(q)
      BY <1>6, <2>3, <3>2, FirstOrder
    <3> QED BY <1>2, <1>6, <2>3, <2>4, <2>5, <3>1, <3>3
  <2>7. CASE i # f
    <3>1. P[i] = Q[i]
      BY <1>3, <2>7
    <3>2. n = h \/ Held(P, n)
      BY <2>2, <2>3, <3>1, HoleAtUse
    <3>3. ASSUME n = h
          PROVE  Held(Q, n)
      <4>1. n \in PlacesOf(p) /\ n \in PlacesOf(q)
        BY <1>6, <2>3, <3>3, PlacesIs DEF Away
      <4>2. q = p
        BY <2>3, <4>1, PageOfIs
      <4>3. First(p) <= n
        BY <2>3, <4>2
      <4>4. ~ (v < n)
        <5>1. v < n => v = h \/ Held(P, v)
          BY <1>2, <2>2, <2>3, <3>1, <4>2, HoleAtUse
        <5> QED BY <1>2, <2>3, <3>3, <5>1
      <4> QED BY <1>2, <1>6, <2>3, <2>4, <2>5, <4>3, <4>4
    <3> QED BY <1>5, <2>3, <3>2, <3>3
  <2> QED BY <2>6, <2>7
<1> QED BY <1>3, <1>4, <1>7

-----------------------------------------------------------------------------
(***************************************************************************)
(* The inductive invariant.  The properties speak of the items at rest or  *)
(* on their way; the invariant follows each to the place where it will be  *)
(* when nothing is under way any more: its Dest.                           *)
(***************************************************************************)

\* Where item i will be, from the variables the program keeps it in.
DestOf(P, S, F, R, p) ==
  [i \in Item |->
     LET from == {k \in Index : R[k] = i}
     IN  IF S[i] # Away THEN S[i]
         ELSE IF F[i] # Away THEN F[i]
         ELSE IF from # {} THEN First(p) + Most(from) ELSE P[i]]

Dest == DestOf(pos, shift, flight, remembered, page)

\* Every item has a place of its own, but for the one that is carried, and
\* there is no hole but on the page it is carried over.
PlacedAt(D, p, m, f) ==
  /\ D \in [Item -> Place] /\ Distinct(D)
  /\ \A i \in Item : D[i] = Away => m \in Picked /\ i = f
  /\ \E h \in {Away} \cup PlacesOf(p) :
       /\ HoleAt(D, h)
       /\ h # Away => m \in Picked /\ D[f] = Away

Placed == PlacedAt(Dest, page, mode, focus)

\* What is under way in which state.
Stages ==
  /\ mode # "transposition" => shift = NoneMoving
  /\ mode \in Picked => flight = NoneMoving /\ ~paused /\ focus # NoItem
  /\ mode \in {"transposition", "turning"} => pos[focus] = Away /\ shift[focus] = Away
  /\ mode = "picked" =>
       \/ pos[focus] = Away
       \/ origin # Away /\ pos[focus] = First(page) + origin /\ ~collide /\ hover = {}
  /\ mode \notin Picked => ~collide /\ hover = {}
  /\ ~paused => \A k \in Index : remembered[k] = NoItem
  /\ \A i \in Item : shift[i] # Away \/ flight[i] # Away => pos[i] = Away
  /\ \A k \in Index : remembered[k] # NoItem =>
       /\ pos[remembered[k]] = Away /\ flight[remembered[k]] = Away
       /\ \A l \in Index : remembered[l] = remembered[k] => l = k

\* The inductive invariant.
LInv == TypeOK /\ PagesInv /\ page < MaxVisit /\ Stages /\ Placed

LEMMA DestSettled ==
  ASSUME NEW P \in [Item -> Place], NEW S, NEW R, \A k \in Index : R[k] = NoItem, NEW p
  PROVE  /\ DestOf(P, S, NoneMoving, R, p) = Arrive(P, S)
         /\ DestOf(P, NoneMoving, NoneMoving, R, p) = P
<1>1. \A i \in Item : {k \in Index : R[k] = i} = {} /\ NoneMoving[i] = Away
  BY DEF Item, NoItem, NoneMoving
<1>2. DestOf(P, S, NoneMoving, R, p) = Arrive(P, S)
  BY <1>1 DEF DestOf, Arrive
<1>3. DestOf(P, NoneMoving, NoneMoving, R, p) = [i \in Item |-> P[i]]
  BY <1>1 DEF DestOf
<1> QED BY <1>2, <1>3

\* In the states of a carried item, and when all is settled.
LEMMA DestPicked ==
  ASSUME LInv, mode \in Picked
  PROVE  /\ Dest = Arrive(pos, shift) /\ focus \in Item
         /\ mode # "transposition" => Dest = pos
<1>1. pos \in [Item -> Place] /\ shift \in [Item -> Place]
  BY DEF LInv, TypeOK, Place
<1>2. flight = NoneMoving /\ \A k \in Index : remembered[k] = NoItem
  BY DEF LInv, Stages
<1>3. focus \in Item
  BY DEF LInv, Stages, TypeOK
<1>4. mode # "transposition" => shift = NoneMoving
  BY DEF LInv, Stages
<1> QED BY <1>1, <1>2, <1>3, <1>4, DestSettled DEF Dest

-----------------------------------------------------------------------------
(* The steps. *)

\* Icons are carried, never exactly on a place, and animations that nobody
\* waits for end before the user goes on (Exact and Hurry of DesktopLayout).
Gentle == ~Exact /\ ~Hurry

LEMMA InitInv ==
  ASSUME Init
  PROVE  LInv
<1>1. TypeOK /\ PagesInv
  <2>1. PagesInv
    BY PagesInit
  <2>2. 0 \in Index
    BY LayoutAssumption DEF Index
  <2>3. pos \in [Item -> Nat \cup {Away}]
    BY DEF Init, Item
  <2>4. /\ shift \in [Item -> Nat \cup {Away}] /\ flight \in [Item -> Nat \cup {Away}]
        /\ remembered \in [Index -> Item \cup {NoItem}]
    BY DEF Init
  <2> QED BY <2>1, <2>2, <2>3, <2>4 DEF Init, TypeOK, PagesInv
<1>2. page < MaxVisit
  BY LayoutAssumption DEF Init
<1>3. Stages
  BY DEF Init, Stages, NoneMoving, Picked, NoItem, Away
<1>4. pos \in [Item -> Place] /\ \A i \in Item : pos[i] = i - 1 /\ pos[i] \in Nat
  BY DEF Init, Item, Place
<1>5. Dest = pos
  <2>1. shift = NoneMoving /\ flight = NoneMoving /\ \A k \in Index : remembered[k] = NoItem
    BY DEF Init, NoneMoving
  <2> QED BY <1>4, <2>1, DestSettled DEF Dest
<1>6. Distinct(pos)
  BY <1>4 DEF Distinct, Item
<1>7. HoleAt(pos, Away)
  <2> SUFFICES ASSUME NEW i \in Item, NEW n \in First(PageOf(pos[i])) .. pos[i]
               PROVE  Held(pos, n)
    BY DEF HoleAt
  <2>1. PageOf(pos[i]) \in Nat
    BY <1>4, PageOfIs
  <2>2. First(PageOf(pos[i])) \in Nat
    BY <2>1, FirstType
  <2>3. n + 1 \in Item /\ n + 1 - 1 = n
    <3>1. i \in 1 .. NItems /\ pos[i] = i - 1 /\ NItems \in Nat
      BY <1>4, LayoutAssumption DEF Item
    <3>2. n \in Nat /\ n <= i - 1
      BY <2>2, <3>1
    <3> QED BY <3>1, <3>2 DEF Item
  <2> QED BY <1>4, <2>3 DEF Held
<1>8. \A i \in Item : pos[i] # Away
  BY <1>4 DEF Away
<1>9. Placed
  BY <1>4, <1>5, <1>6, <1>7, <1>8 DEF Placed, PlacedAt
<1> QED BY <1>1, <1>2, <1>3, <1>9 DEF LInv

LEMMA PickUpStep ==
  ASSUME Gentle, LInv, NEW i \in Item, PickUp(i)
  PROVE  LInv' /\ Dest' = Dest /\ pages' = pages
<1>1. /\ mode = "putdown" /\ flight = NoneMoving /\ ~paused
      /\ pos[i] \in PlacesOf(page) /\ page \in Nat
  BY DEF Gentle, PickUp, Settled, LInv, TypeOK
<1>2. shift = NoneMoving /\ \A k \in Index : remembered[k] = NoItem
  BY <1>1 DEF LInv, Stages
<1>3. pos \in [Item -> Place]
  BY DEF LInv, TypeOK, Place
<1>4. Dest = pos
  BY <1>1, <1>2, <1>3, DestSettled DEF Dest
<1>5. PICK k : k = pos[i] % Cap
  OBVIOUS
<1>6. k \in Index /\ First(page) + k = pos[i] /\ pos[i] # Away
  BY <1>1, <1>5, IndexIs DEF Away
<1>7. Distinct(pos)
  BY <1>4 DEF LInv, Placed, PlacedAt
<1>8. ItemAt(pos, First(page) + k) = i /\ i # NoItem
  <2>1. ItemAt(pos, pos[i]) = i
    BY <1>6, <1>7, ItemAtHolder
  <2> QED BY <1>6, <2>1 DEF Item, NoItem
<1>9. /\ origin' = k /\ focus' = i /\ mode' = "picked"
      /\ UNCHANGED <<pos, pages, page, recogniser, shift, flight, paused, remembered>>
  BY <1>5, <1>8 DEF PickUp, Gentle
<1>10. UNCHANGED <<moving, collide, expectPage, expectIndex, itemIndex, hover>>
  BY <1>9 DEF recogniser
<1>11. TypeOK'
  BY <1>6, <1>9, <1>10 DEF LInv, TypeOK, Picked
<1>12. PagesInv' /\ page' < MaxVisit
  BY <1>9 DEF LInv, PagesInv
<1>13. Stages'
  <2>1. Stages
    BY DEF LInv
  <2>2. ~collide /\ hover = {}
    BY <1>1, <2>1 DEF Stages, Picked
  <2>3. k # Away /\ pos'[focus'] = First(page') + origin'
    <3>1. k # Away
      BY <1>6, LayoutAssumption DEF Index, Away
    <3> QED BY <1>6, <1>9, <3>1
  <2> QED BY <1>1, <1>2, <1>8, <1>9, <1>10, <2>1, <2>2, <2>3 DEF Stages, Picked
<1>14. Dest' = Dest
  BY <1>9 DEF Dest
<1>15. Placed'
  <2>1. PlacedAt(Dest, page, "putdown", focus)
    BY <1>1 DEF LInv, Placed
  <2>2. PlacedAt(Dest, page, "picked", i)
    BY <2>1 DEF PlacedAt, Picked
  <2> QED BY <1>9, <1>14, <2>2 DEF Placed
<1> QED BY <1>9, <1>11, <1>12, <1>13, <1>14, <1>15 DEF LInv

LEMMA LandStep ==
  ASSUME LInv, NEW i \in Item, Land(i)
  PROVE  LInv' /\ Dest' = Dest /\ pages' = pages
<1>1. /\ mode # "hung" /\ flight[i] # Away
      /\ pos' = [pos EXCEPT ![i] = flight[i]] /\ flight' = [flight EXCEPT ![i] = Away]
      /\ UNCHANGED <<pages, page, mode, focus, origin, moving, collide, expectPage,
                     expectIndex, itemIndex, hover, shift, paused, remembered>>
  BY DEF Land, recogniser
<1>2. TypeOK /\ Stages
  BY DEF LInv
<1>3. mode = "putdown" /\ shift = NoneMoving
  <2>1. mode \notin Picked
    BY <1>1, <1>2 DEF Stages, NoneMoving
  <2> QED BY <1>1, <1>2, <2>1 DEF Stages, TypeOK, Picked
<1>4. /\ pos'[i] = flight[i] /\ flight'[i] = Away
      /\ \A j \in Item : j # i => pos'[j] = pos[j] /\ flight'[j] = flight[j]
  BY <1>1, <1>2 DEF TypeOK
<1>5. \A k \in Index : remembered[k] # i
  <2>1. i # NoItem
    BY DEF Item, NoItem
  <2> QED BY <1>1, <1>2, <2>1 DEF Stages
<1>6. TypeOK'
  BY <1>1, <1>2 DEF TypeOK, Away
<1>7. PagesInv' /\ page' < MaxVisit
  BY <1>1 DEF LInv, PagesInv
<1>8. shift[i] = Away
  BY <1>3 DEF NoneMoving
<1>9. Stages'
  <2>1. \A j \in Item : shift'[j] # Away \/ flight'[j] # Away => pos'[j] = Away
    BY <1>1, <1>2, <1>4, <1>8 DEF Stages
  <2>2. \A k \in Index : remembered[k] # NoItem =>
          /\ remembered[k] \in Item /\ remembered[k] # i
          /\ pos[remembered[k]] = Away /\ flight[remembered[k]] = Away
          /\ \A l \in Index : remembered[l] = remembered[k] => l = k
    BY <1>2, <1>5 DEF Stages, TypeOK
  <2>3. \A k \in Index : remembered'[k] # NoItem =>
          /\ pos'[remembered'[k]] = Away /\ flight'[remembered'[k]] = Away
          /\ \A l \in Index : remembered'[l] = remembered'[k] => l = k
    BY <1>1, <1>4, <2>2
  <2> QED BY <1>1, <1>2, <1>3, <2>1, <2>3 DEF Stages, Picked
<1>10. Dest' = Dest
  <2>1. ASSUME NEW j \in Item
        PROVE  DestOf(pos', shift', flight', remembered', page')[j] = Dest[j]
    <3>1. CASE j = i
      <4>1. {k \in Index : remembered[k] = i} = {}
        BY <1>5
      <4> QED BY <1>1, <1>4, <1>8, <3>1, <4>1 DEF Dest, DestOf
    <3>2. CASE j # i
      BY <1>1, <1>4, <3>2 DEF Dest, DestOf
    <3> QED BY <3>1, <3>2
  <2> QED BY <2>1 DEF Dest, DestOf
<1>11. Placed'
  BY <1>1, <1>10 DEF LInv, Placed
<1> QED BY <1>1, <1>6, <1>7, <1>9, <1>10, <1>11 DEF LInv

LEMMA MovePickedStep ==
  ASSUME Gentle, LInv, MovePicked
  PROVE  LInv' /\ Dest' = [Dest EXCEPT ![focus] = Away] /\ pages' = pages /\ focus' = focus
<1>1. TypeOK /\ Stages
  BY DEF LInv
<1>2. /\ mode = "picked" /\ focus \in Item /\ pos' = [pos EXCEPT ![focus] = Away]
      /\ UNCHANGED <<pages, page, mode, focus, origin, shift, flight, paused, remembered>>
  BY <1>1 DEF MovePicked, Carried, Gentle, TypeOK
<1>3. Dest = pos /\ flight = NoneMoving /\ shift = NoneMoving
      /\ \A k \in Index : remembered[k] = NoItem
  BY <1>1, <1>2, DestPicked DEF Stages, Picked
<1>4. pos \in [Item -> Place] /\ pos' \in [Item -> Place]
  BY <1>1, <1>2 DEF TypeOK, Place
<1>5. Dest' = pos'
  <2>1. DestOf(pos', NoneMoving, NoneMoving, remembered, page) = pos'
    BY <1>3, <1>4, DestSettled
  <2>2. shift' = NoneMoving /\ flight' = NoneMoving /\ remembered' = remembered /\ page' = page
    BY <1>2, <1>3
  <2> QED BY <2>1, <2>2 DEF Dest
<1>6. TypeOK'
  <2>1. PICK k \in Index \cup {Away} :
          TestCollide(k) /\ \E h \in SUBSET Sides(k) : hover' = hover \cup h
    BY DEF MovePicked
  <2>2. /\ moving' \in BOOLEAN /\ collide' \in BOOLEAN /\ expectPage' \in Nat
        /\ expectIndex' \in Index /\ itemIndex' \in Index \cup {Away}
    <3>1. CASE ~moving \/ collide
      BY <1>1, <2>1, <3>1 DEF TestCollide, TypeOK
    <3>2. CASE ~(~moving \/ collide)
      <4>1. /\ expectIndex' = IF k = Away THEN expectIndex ELSE k
            /\ collide' = ((origin # Away /\ origin # expectIndex') \/ page # expectPage)
            /\ itemIndex' \in IF ~collide' THEN {Away}
                              ELSE {k} \cup IF k = 0 /\ page > 0 THEN {Cap - 1} ELSE {}
            /\ expectPage' = IF collide' THEN page ELSE expectPage
            /\ moving' = moving
        BY <2>1, <3>2 DEF TestCollide
      <4>2. Cap - 1 \in Index
        BY LayoutAssumption DEF Index
      <4>3. expectIndex' \in Index /\ collide' \in BOOLEAN
        BY <1>1, <2>1, <4>1 DEF TypeOK
      <4>4. itemIndex' \in Index \cup {Away}
        BY <2>1, <4>1, <4>2
      <4> QED BY <1>1, <4>1, <4>3, <4>4 DEF TypeOK
    <3> QED BY <3>1, <3>2
  <2>3. hover' \subseteq {"left", "right"}
    BY <1>1, <2>1 DEF Sides, TypeOK
  <2> QED BY <1>1, <1>2, <1>4, <2>2, <2>3 DEF TypeOK, Place
<1>7. PagesInv' /\ page' < MaxVisit
  BY <1>2 DEF LInv, PagesInv
<1>8. Stages'
  <2>1. pos'[focus'] = Away
    BY <1>1, <1>2 DEF TypeOK
  <2> QED BY <1>1, <1>2, <1>3, <2>1 DEF Stages, Picked, NoneMoving
<1>9. Placed'
  <2>1. PlacedAt(pos, page, "picked", focus)
    BY <1>2, <1>3 DEF LInv, Placed
  <2>2. PlacedAt(pos', page, "picked", focus)
    <3>1. CASE pos[focus] = Away
      <4>1. pos' = pos
        BY <1>2, <1>4, <3>1
      <4> QED BY <2>1, <4>1
    <3>2. CASE pos[focus] # Away
      <4>1. HoleAt(pos, Away)
        BY <2>1, <3>2 DEF PlacedAt
      <4>2. HoleAt(pos', pos[focus])
        BY <1>2, <1>4, <4>1, LiftHole
      <4>3. pos[focus] \in PlacesOf(page)
        <5>1. pos[focus] = First(page) + origin /\ origin \in Index /\ page \in Nat
          BY <1>1, <1>2, <3>2 DEF Stages, TypeOK
        <5> QED BY <5>1, IndexPlace
      <4>4. /\ pos'[focus] = Away
            /\ \A j \in Item : j # focus => pos'[j] = pos[j] /\ pos[j] # Away
        BY <1>2, <1>4, <2>1 DEF PlacedAt
      <4>5. Distinct(pos')
        BY <2>1, <4>4 DEF PlacedAt, Distinct
      <4> QED BY <1>4, <4>2, <4>3, <4>4, <4>5 DEF PlacedAt, Picked
    <3> QED BY <3>1, <3>2
  <2> QED BY <1>2, <1>5, <2>2 DEF Placed
<1> QED BY <1>2, <1>3, <1>5, <1>6, <1>7, <1>8, <1>9 DEF LInv

LEMMA MoveMeanwhileStep ==
  ASSUME Gentle, LInv, MoveMeanwhile
  PROVE  LInv' /\ Dest' = Dest /\ pages' = pages
<1>1. TypeOK /\ Stages
  BY DEF LInv
<1>2. /\ mode \in {"transposition", "turning"} /\ focus \in Item
      /\ pos' = [pos EXCEPT ![focus] = Away]
      /\ UNCHANGED <<pages, page, mode, focus, origin, moving, collide, expectPage,
                     expectIndex, itemIndex, hover, shift, flight, paused, remembered>>
  BY <1>1 DEF MoveMeanwhile, Carried, Gentle, TypeOK, recogniser
<1>3. pos' = pos
  BY <1>1, <1>2 DEF Stages, TypeOK
<1>4. Dest' = Dest
  BY <1>2, <1>3 DEF Dest
<1> QED BY <1>2, <1>3, <1>4 DEF LInv, TypeOK, PagesInv, Stages, Placed

LEMMA TransposeStep ==
  ASSUME LInv, Transpose
  PROVE  /\ LInv' /\ pages' = pages /\ focus' = focus /\ mode' = "transposition"
         /\ Dest[focus] = Away
         /\ \/ Dest' = Dest
            \/ \E e \in PlacesOf(page) : Dest' = Slide(Dest, e, FirstVacancy(Dest, page))
<1>1. TypeOK /\ Stages
  BY DEF LInv
<1>2. /\ mode = "picked" /\ collide /\ focus \in Item
      /\ collide' = FALSE /\ origin' = expectIndex /\ mode' = "transposition" /\ hover' = {}
      /\ UNCHANGED <<pages, page, focus, moving, expectPage, expectIndex, itemIndex,
                     flight, paused, remembered>>
  BY <1>1 DEF Transpose, Stages, TypeOK, Picked
<1>3. /\ Dest = pos /\ flight = NoneMoving /\ shift = NoneMoving
      /\ ~paused /\ focus # NoItem /\ \A k \in Index : remembered[k] = NoItem
  BY <1>1, <1>2, DestPicked DEF Stages, Picked
<1>4. pos[focus] = Away
  BY <1>1, <1>2 DEF Stages
<1>5. pos \in [Item -> Place] /\ page \in Nat /\ PlacedAt(pos, page, "picked", focus)
  BY <1>1, <1>2, <1>3 DEF LInv, TypeOK, Place, Placed
<1>6. PagesInv' /\ page' < MaxVisit
  BY <1>2 DEF LInv, PagesInv
<1>7. CASE itemIndex = Away
  <2>1. pos' = pos /\ shift' = shift
    BY <1>7 DEF Transpose
  <2>2. Dest' = Dest
    BY <1>2, <2>1 DEF Dest
  <2>3. TypeOK'
    BY <1>1, <1>2, <2>1 DEF TypeOK, Picked
  <2>4. Stages'
    <3>1. shift[focus] = Away
      BY <1>2, <1>3 DEF NoneMoving
    <3> QED BY <1>1, <1>2, <1>3, <1>4, <2>1, <3>1 DEF Stages, Picked
  <2>5. Placed'
    <3>1. PlacedAt(pos, page, "transposition", focus)
      BY <1>5 DEF PlacedAt, Picked
    <3> QED BY <1>2, <1>3, <2>2, <3>1 DEF Placed
  <2> QED BY <1>2, <1>3, <1>4, <1>6, <2>2, <2>3, <2>4, <2>5 DEF LInv
<1>8. CASE itemIndex # Away
  <2>1. PICK R : R = PushOn(pos, page)
    OBVIOUS
  <2>2. PICK e : e = First(page) + itemIndex
    OBVIOUS
  <2>3. PICK T : T = CloseUp(R, Hole(pos, page), e)
    OBVIOUS
  <2>4. shift' = T /\ pos' = [i \in Item |-> IF T[i] = Away THEN R[i] ELSE Away]
    BY <1>8, <2>1, <2>2, <2>3 DEF Transpose
  <2>5. e \in PlacesOf(page) /\ e \in Nat
    BY <1>1, <1>5, <1>8, <2>2, IndexPlace DEF TypeOK
  <2>6. PICK h : (h = Away \/ h \in PlacesOf(page)) /\ HoleAt(pos, h)
    BY <1>5 DEF PlacedAt
  <2>7. Distinct(pos)
    BY <1>5 DEF PlacedAt
  <2>8. /\ R \in [Item -> Place] /\ T \in [Item -> Place]
        /\ \A i \in Item : pos[i] = Away => R[i] = Away /\ T[i] = Away
        /\ Arrive(R, T) = Slide(pos, e, FirstVacancy(pos, page))
    BY <1>5, <2>1, <2>3, <2>5, <2>6, <2>7, TransposeIs
  <2>9. pos' \in [Item -> Place] /\ shift' \in [Item -> Place]
    BY <2>4, <2>8 DEF Place
  <2>10. Dest' = Slide(pos, e, FirstVacancy(pos, page))
    <3>1. DestOf(pos', shift', NoneMoving, remembered, page) = Arrive(pos', shift')
      BY <1>3, <2>9, DestSettled
    <3>2. Dest' = DestOf(pos', shift', NoneMoving, remembered, page)
      BY <1>2, <1>3 DEF Dest
    <3>3. Arrive(pos', shift') = Arrive(R, T)
      BY <2>4 DEF Arrive
    <3> QED BY <2>8, <3>1, <3>2, <3>3
  <2>11. TypeOK'
    BY <1>1, <1>2, <2>9 DEF TypeOK, Picked, Place
  <2>12. Stages'
    <3>1. pos'[focus] = Away /\ shift'[focus] = Away
      BY <1>2, <1>4, <2>4, <2>8
    <3>2. \A i \in Item : flight[i] = Away
      BY <1>3 DEF NoneMoving
    <3>3. \A i \in Item : shift'[i] # Away => pos'[i] = Away
      BY <2>4
    <3> QED BY <1>1, <1>2, <1>3, <3>1, <3>2, <3>3 DEF Stages, Picked
  <2>13. Placed'
    <3>1. PICK v : v = FirstVacancy(pos, page)
      OBVIOUS
    <3>2. v \in Nat /\ First(page) <= v /\ ~ Held(pos, v)
          /\ \A n \in First(page) .. v - 1 : Held(pos, n)
      BY <1>5, <3>1, FirstVacancyIs
    <3>3. PICK D : D = Slide(pos, e, v)
      OBVIOUS
    <3>4. D \in [Item -> Place] /\ Distinct(D) /\ \A i \in Item : D[i] = Away <=> pos[i] = Away
      <4>1. /\ Slide(pos, e, v) \in [Item -> Place] /\ Distinct(Slide(pos, e, v))
            /\ \A i \in Item : Slide(pos, e, v)[i] = Away <=> pos[i] = Away
        BY <1>5, <2>5, <2>7, <3>2, SlideIs
      <4> QED BY <3>3, <4>1
    <3>5. HoleAt(D, e)
      BY <1>5, <2>5, <2>6, <2>7, <3>2, <3>3, SlideHole
    <3>6. PlacedAt(D, page, "transposition", focus)
      BY <1>2, <1>4, <1>5, <2>5, <3>4, <3>5 DEF PlacedAt, Picked
    <3> QED BY <1>2, <2>10, <3>1, <3>3, <3>6 DEF Placed
  <2> QED BY <1>2, <1>3, <1>4, <1>6, <2>5, <2>10, <2>11, <2>12, <2>13 DEF LInv
<1> QED BY <1>7, <1>8

LEMMA ArriveType ==
  ASSUME TypeOK
  PROVE  Arrive(pos, shift) \in [Item -> Place]
BY DEF TypeOK, Arrive, Place

LEMMA TranspositionEndsStep ==
  ASSUME LInv, TranspositionEnds
  PROVE  /\ LInv' /\ Dest' = Dest /\ focus' = focus /\ mode = "transposition"
         /\ mode' = "picked" /\ pages' = PagesAfterTransposition(Dest)
<1>1. TypeOK /\ Stages /\ PagesInv
  BY DEF LInv
<1>2. /\ mode = "transposition" /\ mode' = "picked" /\ itemIndex' = Away
      /\ pos' = Arrive(pos, shift) /\ shift' = NoneMoving
      /\ pages' = PagesAfterTransposition(pos')
      /\ UNCHANGED <<page, focus, origin, moving, collide, expectPage, expectIndex,
                     hover, flight, paused, remembered>>
  BY DEF TranspositionEnds
<1>3. /\ flight = NoneMoving /\ ~paused /\ focus # NoItem /\ focus \in Item
      /\ \A k \in Index : remembered[k] = NoItem
  BY <1>1, <1>2, DestPicked DEF Stages, Picked
<1>4. Dest = pos'
  BY <1>2, DestPicked DEF Picked
<1>5. pos' \in [Item -> Place]
  BY <1>1, <1>2, ArriveType
<1>6. Dest' = pos'
  <2>1. DestOf(pos', NoneMoving, NoneMoving, remembered, page) = pos'
    BY <1>3, <1>5, DestSettled
  <2>2. shift' = NoneMoving /\ flight' = NoneMoving /\ remembered' = remembered /\ page' = page
    BY <1>2, <1>3
  <2> QED BY <2>1, <2>2 DEF Dest
<1>7. PagesInv'
  <2>1. PagesAfterTransposition(pos') \in pages .. MaxPage
    BY <1>1, AfterTranspositionIs
  <2> QED BY <1>1, <1>2, <2>1, LayoutAssumption DEF PagesInv
<1>8. page' < MaxVisit
  BY <1>2 DEF LInv
<1>9. TypeOK'
  <2>1. shift' \in [Item -> Nat \cup {Away}]
    BY <1>2 DEF NoneMoving
  <2>2. pos' \in [Item -> Nat \cup {Away}]
    BY <1>5 DEF Place
  <2>3. pages' \in 1 .. MaxPage
    BY <1>7 DEF PagesInv
  <2> QED BY <1>1, <1>2, <2>1, <2>2, <2>3 DEF TypeOK, Picked
<1>10. Stages'
  <2>1. pos'[focus] = Away
    <3>1. pos[focus] = Away /\ shift[focus] = Away
      BY <1>1, <1>2 DEF Stages
    <3> QED BY <1>2, <1>3, <3>1 DEF Arrive
  <2>2. \A i \in Item : shift'[i] = Away /\ flight'[i] = Away
    BY <1>2, <1>3 DEF NoneMoving
  <2> QED BY <1>1, <1>2, <1>3, <2>1, <2>2 DEF Stages, Picked
<1>11. Placed'
  <2>1. PlacedAt(pos', page, "transposition", focus)
    BY <1>2, <1>4 DEF LInv, Placed
  <2>2. PlacedAt(pos', page, "picked", focus)
    BY <2>1 DEF PlacedAt, Picked
  <2> QED BY <1>2, <1>6, <2>2 DEF Placed
<1> QED BY <1>2, <1>4, <1>6, <1>7, <1>8, <1>9, <1>10, <1>11 DEF LInv

LEMMA TurnPageStep ==
  ASSUME LInv, NEW side \in {"left", "right"}, TurnPage(side)
  PROVE  /\ LInv' /\ pages' \in pages .. MaxPage /\ focus' = focus /\ mode = "picked"
         /\ \A i \in Item : Dest'[i] <= Dest[i]
         /\ \A i, j \in Item : Dest[i] # Away /\ Dest[i] < Dest[j] => Dest'[i] < Dest'[j]
<1>1. TypeOK /\ Stages /\ PagesInv
  BY DEF LInv
<1>2. /\ mode = "picked" /\ ~collide /\ side \in hover /\ Turned(side).page < MaxVisit
      /\ focus # NoItem /\ mode' = "turning" /\ hover' = {}
      /\ pages' = Turned(side).pages /\ page' = Turned(side).page
      /\ UNCHANGED <<focus, origin, moving, collide, expectPage, expectIndex, itemIndex,
                     shift, flight, paused, remembered>>
  BY DEF TurnPage
<1>3. /\ Dest = pos /\ focus \in Item /\ flight = NoneMoving /\ shift = NoneMoving
      /\ ~paused /\ \A k \in Index : remembered[k] = NoItem
  BY <1>1, <1>2, DestPicked DEF Stages, Picked
<1>4. pos[focus] = Away
  BY <1>1, <1>2 DEF Stages
<1>5. pos \in [Item -> Place] /\ page \in Nat /\ PlacedAt(pos, page, "picked", focus)
  BY <1>1, <1>2, <1>3 DEF LInv, TypeOK, Place, Placed
<1>6. pages' \in pages .. MaxPage /\ page' \in Nat /\ page' < pages' /\ PagesInv'
  <2>1. pages' \in pages .. MaxPage /\ page' \in Nat /\ page' < pages'
    BY <1>1, <1>2, TurnedIs
  <2> QED BY <1>1, <2>1, LayoutAssumption DEF PagesInv
<1>7. /\ pos' \in [Item -> Place] /\ pos'[focus] = Away
      /\ PlacedAt(pos', page', "turning", focus)
      /\ \A i \in Item : pos'[i] <= pos[i]
      /\ \A i, j \in Item : pos[i] # Away /\ pos[i] < pos[j] => pos'[i] < pos'[j]
  <2>1. CASE page' = page
    <3>1. pos' = pos
      BY <2>1 DEF TurnPage
    <3>2. PlacedAt(pos, page, "turning", focus)
      BY <1>5 DEF PlacedAt, Picked
    <3>3. \A i \in Item : pos[i] <= pos[i]
      BY <1>5 DEF Place, Away
    <3> QED BY <1>4, <1>5, <2>1, <3>1, <3>2, <3>3
  <2>2. CASE page' # page
    <3>1. PICK K : K = Compact(pos, page)
      OBVIOUS
    <3>2. PICK h : (h = Away \/ h \in PlacesOf(page)) /\ HoleAt(pos, h)
      BY <1>5 DEF PlacedAt
    <3>3. Distinct(pos)
      BY <1>5 DEF PlacedAt
    <3>4. /\ K \in [Item -> Place] /\ Distinct(K)
          /\ \A i \in Item : K[i] = Away <=> pos[i] = Away
          /\ \A i \in Item : pos[i] # Away => K[i] <= pos[i]
          /\ \A i, j \in Item : pos[i] # Away /\ pos[i] < pos[j] => K[i] < K[j]
          /\ HoleAt(K, Away)
      BY <1>5, <3>1, <3>2, <3>3, CompactIs
    <3>5. pos' = K
      <4>1. pos' = [K EXCEPT ![focus] =
                      IF @ = Away THEN Away ELSE @ + First(page') - First(page)]
        BY <2>2, <3>1 DEF TurnPage
      <4>2. K[focus] = Away
        BY <1>3, <1>4, <3>4
      <4> QED BY <3>4, <4>1, <4>2
    <3>6. PlacedAt(K, page', "turning", focus)
      BY <1>5, <3>4 DEF PlacedAt, Picked
    <3>7. \A i \in Item : K[i] <= pos[i]
      <4>1. \A i \in Item : pos[i] = Away => K[i] <= pos[i]
        BY <3>4 DEF Away
      <4> QED BY <3>4, <4>1
    <3> QED BY <1>3, <1>4, <3>4, <3>5, <3>6, <3>7
  <2> QED BY <2>1, <2>2
<1>8. Dest' = pos'
  <2>1. DestOf(pos', NoneMoving, NoneMoving, remembered, page') = pos'
    BY <1>3, <1>7, DestSettled
  <2>2. shift' = NoneMoving /\ flight' = NoneMoving /\ remembered' = remembered
    BY <1>2, <1>3
  <2> QED BY <2>1, <2>2 DEF Dest
<1>9. TypeOK'
  <2>1. pos' \in [Item -> Nat \cup {Away}] /\ pages' \in 1 .. MaxPage /\ page' \in Nat
    BY <1>6, <1>7 DEF Place, PagesInv
  <2> QED BY <1>1, <1>2, <2>1 DEF TypeOK, Picked
<1>10. Stages'
  <2>1. \A i \in Item : shift'[i] = Away /\ flight'[i] = Away
    BY <1>2, <1>3 DEF NoneMoving
  <2> QED BY <1>1, <1>2, <1>3, <1>7, <2>1 DEF Stages, Picked
<1>11. Placed'
  BY <1>2, <1>7, <1>8 DEF Placed
<1> QED BY <1>2, <1>3, <1>6, <1>7, <1>8, <1>9, <1>10, <1>11 DEF LInv

LEMMA TurningEndsStep ==
  ASSUME LInv, TurningEnds
  PROVE  /\ LInv' /\ Dest' = Dest /\ Dest = pos /\ focus' = focus /\ mode = "turning"
         /\ page' = page /\ pos' = pos /\ pages' = PagesAfterTurning
<1>1. TypeOK /\ Stages /\ PagesInv
  BY DEF LInv
<1>2. /\ mode = "turning" /\ mode' = "picked" /\ pages' = PagesAfterTurning
      /\ UNCHANGED <<pos, page, focus, origin, moving, collide, expectPage, expectIndex,
                     itemIndex, hover, shift, flight, paused, remembered>>
  BY DEF TurningEnds, recogniser
<1>3. PagesInv' /\ page' < MaxVisit /\ pages' \in 1 .. MaxPage
  <2>1. PagesAfterTurning \in 1 .. MaxPage /\ page < PagesAfterTurning
    BY <1>1, AfterTurningIs
  <2> QED BY <1>1, <1>2, <2>1 DEF PagesInv, LInv
<1>4. Dest' = Dest /\ Dest = pos
  BY <1>2, DestPicked DEF Dest, Picked
<1>5. TypeOK'
  BY <1>1, <1>2, <1>3 DEF TypeOK, Picked
<1>6. Stages'
  BY <1>1, <1>2 DEF Stages, Picked
<1>7. Placed'
  <2>1. PlacedAt(Dest, page, "turning", focus)
    BY <1>2 DEF LInv, Placed
  <2>2. PlacedAt(Dest, page, "picked", focus)
    BY <2>1 DEF PlacedAt, Picked
  <2> QED BY <1>2, <1>4, <2>2 DEF Placed
<1> QED BY <1>2, <1>3, <1>4, <1>5, <1>6, <1>7 DEF LInv

LEMMA DropStep ==
  ASSUME Gentle, LInv, Drop
  PROVE  /\ LInv' /\ focus' = focus /\ page' = page
         /\ DropTo = FirstVacancy(Dest, page)
         /\ \/ Dest[focus] # Away /\ Dest' = Dest /\ AtOrigin
            \/ Dest[focus] = Away /\ Dest' = [Dest EXCEPT ![focus] = DropTo] /\ ~AtOrigin
<1>1. TypeOK /\ Stages /\ PagesInv
  BY DEF LInv
<1>2. /\ mode \in Picked /\ focus # NoItem
      /\ pos' = IF AtOrigin THEN Arrive(pos, shift)
                ELSE [Arrive(pos, shift) EXCEPT ![focus] = Away]
      /\ flight' = IF AtOrigin THEN flight ELSE [flight EXCEPT ![focus] = DropTo]
      /\ mode' \in {"hung", "putdown"} /\ page' = page
  BY DropSteps
<1>3. /\ shift' = NoneMoving /\ collide' = FALSE /\ itemIndex' = Away /\ hover' = {}
      /\ origin' = Away
      /\ UNCHANGED <<page, focus, moving, expectPage, expectIndex, paused, remembered>>
  BY DEF Drop, Gentle
<1>4. /\ flight = NoneMoving /\ ~paused /\ focus \in Item
      /\ \A k \in Index : remembered[k] = NoItem
  BY <1>1, <1>2, DestPicked DEF Stages
<1>5. PICK P : P = Arrive(pos, shift)
  OBVIOUS
<1>6. P = Dest /\ P \in [Item -> Place] /\ page \in Nat /\ PlacedAt(P, page, mode, focus)
  BY <1>1, <1>2, <1>5, DestPicked, ArriveType DEF LInv, Placed, TypeOK
<1>7. DropTo = FirstVacancy(P, page) /\ DropTo \in Nat
  BY <1>5, <1>6, FirstVacancyIs DEF DropTo
<1>8. PagesInv' /\ page' < MaxVisit
  BY <1>1, <1>2, DropPages DEF LInv
<1>9. /\ pos' \in [Item -> Place] /\ flight' \in [Item -> Place]
      /\ \A i \in Item : shift'[i] # Away \/ flight'[i] # Away => pos'[i] = Away
      /\ PlacedAt(Dest', page, "putdown", focus)
      /\ \/ P[focus] # Away /\ Dest' = P /\ AtOrigin
         \/ P[focus] = Away /\ Dest' = [P EXCEPT ![focus] = DropTo] /\ ~AtOrigin
  <2>1. \A i \in Item : NoneMoving[i] = Away
    BY DEF NoneMoving
  <2>2. Dest' = DestOf(pos', NoneMoving, flight', remembered, page)
    BY <1>3 DEF Dest
  <2>3. CASE AtOrigin
    <3>1. pos' = P /\ flight' = NoneMoving
      BY <1>2, <1>4, <1>5, <2>3
    <3>2. P[focus] # Away
      <4>1. origin # Away /\ ItemAt(P, First(page) + origin) = focus
        BY <1>5, <2>3 DEF AtOrigin
      <4>2. P[focus] = First(page) + origin
        BY <1>2, <4>1, ItemAtIs
      <4>3. First(page) + origin \in Nat
        BY <1>1, <4>1, IndexPlace DEF TypeOK
      <4> QED BY <4>2, <4>3 DEF Away
    <3>3. Dest' = P
      BY <1>4, <1>6, <2>2, <3>1, DestSettled
    <3>4. PlacedAt(P, page, "putdown", focus)
      BY <1>6, <3>2 DEF PlacedAt
    <3>5. NoneMoving \in [Item -> Place]
      BY DEF NoneMoving, Place
    <3> QED BY <1>3, <1>6, <2>1, <2>3, <3>1, <3>2, <3>3, <3>4, <3>5
  <2>4. CASE ~AtOrigin
    <3>1. pos' = [P EXCEPT ![focus] = Away] /\ flight' = [NoneMoving EXCEPT ![focus] = DropTo]
      BY <1>2, <1>4, <1>5, <2>4
    <3>2. P[focus] = Away
      <4>1. P[focus] = IF shift[focus] = Away THEN pos[focus] ELSE shift[focus]
        BY <1>4, <1>5 DEF Arrive
      <4>2. CASE mode \in {"transposition", "turning"}
        BY <1>1, <4>1, <4>2 DEF Stages
      <4>3. CASE mode = "picked"
        <5>1. P = pos
          BY <1>2, <1>6, <4>3, DestPicked
        <5>2. SUFFICES ASSUME origin # Away, pos[focus] = First(page) + origin
                       PROVE  FALSE
          BY <1>1, <4>3, <5>1 DEF Stages
        <5>3. First(page) + origin \in Nat
          BY <1>1, <5>2, IndexPlace DEF TypeOK
        <5>4. P[focus] # Away
          BY <5>1, <5>2, <5>3 DEF Away
        <5>5. ItemAt(P, First(page) + origin) = focus
          <6>1. Distinct(P)
            BY <1>6 DEF PlacedAt
          <6>2. ItemAt(P, P[focus]) = focus
            BY <1>4, <5>4, <6>1, ItemAtHolder
          <6> QED BY <5>1, <5>2, <6>2
        <5> QED BY <1>5, <2>4, <5>2, <5>5 DEF AtOrigin
      <4> QED BY <1>2, <4>2, <4>3 DEF Picked
    <3>3. PICK Q : Q = [P EXCEPT ![focus] = DropTo]
      OBVIOUS
    <3>4. Dest' = Q
      <4>1. \A i \in Item : /\ {k \in Index : remembered[k] = i} = {}
                            /\ pos'[i] = P[i]
                            /\ flight'[i] = IF i = focus THEN DropTo ELSE Away
        BY <1>4, <1>6, <3>1, <3>2 DEF Item, NoItem, NoneMoving
      <4>2. DropTo # Away
        BY <1>7 DEF Away
      <4>3. \A i \in Item : Q[i] = IF i = focus THEN DropTo ELSE P[i]
        BY <1>6, <3>3
      <4>4. \A i \in Item : DestOf(pos', NoneMoving, flight', remembered, page)[i] = Q[i]
        BY <2>1, <4>1, <4>2, <4>3 DEF DestOf
      <4>5. Q = [i \in Item |-> Q[i]]
        BY <1>6, <3>3
      <4> QED BY <2>2, <4>4, <4>5 DEF DestOf
    <3>5. PICK h : (h = Away \/ h \in PlacesOf(page)) /\ HoleAt(P, h)
      BY <1>6 DEF PlacedAt
    <3>6. Distinct(P)
      BY <1>6 DEF PlacedAt
    <3>7. Q \in [Item -> Place] /\ Distinct(Q) /\ HoleAt(Q, Away)
      <4>1. Q = [P EXCEPT ![focus] = FirstVacancy(P, page)]
        BY <1>7, <3>3
      <4> QED BY <1>4, <1>6, <3>2, <3>5, <3>6, <4>1, FillHole
    <3>8. \A i \in Item : Q[i] # Away
      BY <1>6, <1>7, <3>3 DEF PlacedAt, Away
    <3>9. PlacedAt(Q, page, "putdown", focus)
      BY <3>7, <3>8 DEF PlacedAt
    <3>10. pos' \in [Item -> Place] /\ flight' \in [Item -> Place]
      BY <1>6, <1>7, <3>1 DEF NoneMoving, Place
    <3>11. \A i \in Item : flight'[i] # Away => pos'[i] = Away
      BY <1>4, <1>6, <3>1 DEF NoneMoving
    <3> QED BY <1>3, <2>1, <2>4, <3>2, <3>3, <3>4, <3>9, <3>10, <3>11
  <2> QED BY <2>3, <2>4
<1>10. TypeOK'
  <2>1. pages' \in 1 .. MaxPage
    BY <1>8 DEF PagesInv
  <2>2. shift' \in [Item -> Nat \cup {Away}]
    BY <1>3 DEF NoneMoving
  <2>3. pos' \in [Item -> Nat \cup {Away}] /\ flight' \in [Item -> Nat \cup {Away}]
    BY <1>9 DEF Place
  <2> QED BY <1>1, <1>2, <1>3, <2>1, <2>2, <2>3 DEF TypeOK
<1>11. Stages'
  BY <1>2, <1>3, <1>4, <1>9 DEF Stages, Picked
<1>12. Placed'
  <2>1. PlacedAt(Dest', page, mode', focus)
    BY <1>2, <1>9 DEF PlacedAt, Picked
  <2> QED BY <1>3, <2>1 DEF Placed
<1> QED BY <1>3, <1>6, <1>7, <1>8, <1>9, <1>10, <1>11, <1>12 DEF LInv

LEMMA ScrollPageStep ==
  ASSUME Gentle, LInv, ScrollPage
  PROVE  LInv' /\ Dest' = Dest /\ pages' = pages
<1>1. TypeOK /\ Stages /\ PagesInv
  BY DEF LInv
<1>2. /\ mode = "putdown" /\ ~paused /\ page' < MaxVisit
      /\ page' \in {PrevPage(page), NextPage(page, pages)}
      /\ UNCHANGED <<pos, pages, mode, focus, origin, moving, collide, expectPage,
                     expectIndex, itemIndex, hover, shift, flight, paused, remembered>>
  BY DEF ScrollPage, Gentle, recogniser
<1>3. \A k \in Index : remembered[k] = NoItem
  BY <1>1, <1>2 DEF Stages
<1>4. PagesInv'
  <2>1. pages \in Nat /\ page \in Nat /\ page < pages /\ pages >= 1
    BY <1>1 DEF PagesInv
  <2>2. page' \in Nat /\ page' < pages
    BY <1>2, <2>1 DEF PrevPage, NextPage
  <2> QED BY <1>1, <1>2, <2>2 DEF PagesInv
<1>5. TypeOK'
  BY <1>1, <1>2, <1>4 DEF TypeOK, PagesInv
<1>6. Stages'
  BY <1>1, <1>2 DEF Stages, Picked
<1>7. Dest' = Dest
  <2>1. \A i \in Item : {k \in Index : remembered[k] = i} = {}
    BY <1>3 DEF Item, NoItem
  <2> QED BY <1>2, <2>1 DEF Dest, DestOf
<1>8. Placed'
  <2>1. PlacedAt(Dest, page, "putdown", focus)
    BY <1>2 DEF LInv, Placed
  <2>2. PlacedAt(Dest, page', "putdown", focus)
    BY <2>1 DEF PlacedAt, Picked
  <2> QED BY <1>2, <1>7, <2>2 DEF Placed
<1> QED BY <1>2, <1>4, <1>5, <1>6, <1>7, <1>8 DEF LInv

LEMMA PauseStep ==
  ASSUME LInv, Pause
  PROVE  LInv' /\ Dest' = Dest /\ pages' = pages
<1>1. TypeOK /\ Stages /\ page \in Nat
  BY DEF LInv, TypeOK
<1>2. /\ mode = "putdown" /\ ~paused /\ paused' = TRUE
      /\ remembered' = [k \in Index |-> ItemAt(pos, First(page) + k)]
      /\ pos' = [i \in Item |->
                   IF \E k \in Index : remembered'[k] = i THEN Away ELSE pos[i]]
      /\ UNCHANGED <<pages, page, mode, focus, origin, moving, collide, expectPage,
                     expectIndex, itemIndex, hover, shift, flight>>
  BY DEF Pause, recogniser
<1>3. shift = NoneMoving /\ \A k \in Index : remembered[k] = NoItem
  BY <1>1, <1>2 DEF Stages
<1>4. ASSUME NEW k \in Index, remembered'[k] # NoItem
      PROVE  /\ remembered'[k] \in Item /\ pos[remembered'[k]] = First(page) + k
             /\ pos'[remembered'[k]] = Away /\ flight[remembered'[k]] = Away
  <2>1. remembered'[k] = ItemAt(pos, First(page) + k)
    BY <1>2
  <2>2. remembered'[k] \in Item /\ pos[remembered'[k]] = First(page) + k
    BY <1>4, <2>1, ItemAtIs
  <2>3. First(page) + k # Away
    <3>1. First(page) + k \in Nat
      BY <1>1, IndexPlace
    <3> QED BY <3>1 DEF Away
  <2>4. flight[remembered'[k]] = Away
    BY <1>1, <2>2, <2>3 DEF Stages
  <2>5. pos'[remembered'[k]] = Away
    BY <1>2, <2>2
  <2> QED BY <2>2, <2>4, <2>5
<1>5. TypeOK'
  <2>1. remembered' \in [Index -> Item \cup {NoItem}]
    BY <1>2, <1>4
  <2>2. pos' \in [Item -> Nat \cup {Away}]
    BY <1>1, <1>2 DEF TypeOK
  <2> QED BY <1>1, <1>2, <2>1, <2>2 DEF TypeOK
<1>6. PagesInv' /\ page' < MaxVisit
  BY <1>2 DEF LInv, PagesInv
<1>7. Stages'
  <2>1. \A i \in Item : shift'[i] # Away \/ flight'[i] # Away => pos'[i] = Away
    BY <1>1, <1>2 DEF Stages
  <2>2. ASSUME NEW k \in Index, remembered'[k] # NoItem,
               NEW l \in Index, remembered'[l] = remembered'[k]
        PROVE  l = k
    <3>1. First(page) + l = First(page) + k
      BY <1>4, <2>2
    <3> QED BY <1>1, <3>1, FirstType, LayoutAssumption DEF Index
  <2>3. \A k \in Index : remembered'[k] # NoItem =>
          /\ pos'[remembered'[k]] = Away /\ flight'[remembered'[k]] = Away
          /\ \A l \in Index : remembered'[l] = remembered'[k] => l = k
    BY <1>2, <1>4, <2>2
  <2> QED BY <1>1, <1>2, <1>3, <2>1, <2>3 DEF Stages, Picked
<1>8. Dest' = Dest
  <2>1. ASSUME NEW i \in Item
        PROVE  DestOf(pos', shift', flight', remembered', page')[i] = Dest[i]
    <3> DEFINE from == {k \in Index : remembered'[k] = i}
    <3>1. {k \in Index : remembered[k] = i} = {} /\ i # NoItem
      BY <1>3 DEF Item, NoItem
    <3>2. Dest[i] = IF shift[i] # Away THEN shift[i]
                    ELSE IF flight[i] # Away THEN flight[i] ELSE pos[i]
      BY <3>1 DEF Dest, DestOf
    <3>3. DestOf(pos', shift', flight', remembered', page')[i] =
            IF shift[i] # Away THEN shift[i]
            ELSE IF flight[i] # Away THEN flight[i]
            ELSE IF from # {} THEN First(page) + Most(from) ELSE pos'[i]
      BY <1>2 DEF DestOf
    <3>4. CASE from = {}
      <4>1. pos'[i] = pos[i]
        BY <1>2, <3>4
      <4> QED BY <3>2, <3>3, <3>4, <4>1
    <3>5. ASSUME from # {}
          PROVE  First(page) + Most(from) = pos[i]
      <4>1. PICK k \in Index : remembered'[k] = i
        BY <3>5
      <4>2. \A l \in from : l \in Index /\ l = k
        BY <1>7, <3>1, <4>1 DEF Stages
      <4>3. from \subseteq Nat /\ k \in from /\ \A l \in from : k >= l
        BY <4>1, <4>2, LayoutAssumption DEF Index
      <4> HIDE DEF from
      <4>4. Most(from) = k
        BY <4>3, MostIs
      <4> QED BY <1>4, <3>1, <4>1, <4>4
    <3> HIDE DEF from
    <3> QED BY <3>2, <3>3, <3>4, <3>5
  <2> QED BY <2>1 DEF Dest, DestOf
<1>9. Placed'
  BY <1>2, <1>8 DEF LInv, Placed
<1> QED BY <1>2, <1>5, <1>6, <1>7, <1>8, <1>9 DEF LInv

LEMMA ResumeStep ==
  ASSUME LInv, Resume
  PROVE  LInv' /\ Dest' = Dest /\ pages' = pages
<1>1. TypeOK /\ Stages /\ page \in Nat
  BY DEF LInv, TypeOK
<1>2. /\ mode = "putdown" /\ paused' = FALSE
      /\ pos' = [i \in Item |->
                   LET from == {k \in Index : remembered[k] = i}
                   IN  IF from = {} THEN pos[i] ELSE First(page) + Most(from)]
      /\ remembered' = [k \in Index |-> NoItem]
      /\ UNCHANGED <<pages, page, mode, focus, origin, moving, collide, expectPage,
                     expectIndex, itemIndex, hover, shift, flight>>
  BY DEF Resume, recogniser
<1>3. shift = NoneMoving /\ \A i \in Item : shift[i] = Away
  BY <1>1, <1>2 DEF Stages, NoneMoving
<1>4. ASSUME NEW i \in Item
      PROVE  /\ pos'[i] \in Place
             /\ flight[i] # Away => pos'[i] = Away
             /\ DestOf(pos', shift', flight', remembered', page')[i] = Dest[i]
  <2> DEFINE from == {k \in Index : remembered[k] = i}
  <2>1. i # NoItem /\ {k \in Index : remembered'[k] = i} = {}
    BY <1>2 DEF Item, NoItem
  <2>2. pos'[i] = IF from = {} THEN pos[i] ELSE First(page) + Most(from)
    BY <1>2
  <2>3. Dest[i] = IF flight[i] # Away THEN flight[i]
                  ELSE IF from # {} THEN First(page) + Most(from) ELSE pos[i]
    BY <1>3 DEF Dest, DestOf
  <2>4. DestOf(pos', shift', flight', remembered', page')[i] =
          IF flight[i] # Away THEN flight[i] ELSE pos'[i]
    BY <1>2, <1>3, <2>1 DEF DestOf
  <2>5. ASSUME from # {}
        PROVE  flight[i] = Away /\ First(page) + Most(from) \in Nat
    <3>1. PICK k \in Index : remembered[k] = i
      BY <2>5
    <3>2. \A l \in from : l \in Index /\ l = k
      BY <1>1, <2>1, <3>1 DEF Stages
    <3>3. from \subseteq Nat /\ k \in from /\ \A l \in from : k >= l
      BY <3>1, <3>2, LayoutAssumption DEF Index
    <3>4. flight[i] = Away
      BY <1>1, <2>1, <3>1 DEF Stages
    <3> HIDE DEF from
    <3>5. Most(from) = k
      BY <3>3, MostIs
    <3> QED BY <1>1, <3>1, <3>4, <3>5, IndexPlace
  <2>6. pos[i] \in Place /\ (flight[i] # Away => pos[i] = Away)
    BY <1>1 DEF TypeOK, Stages, Place
  <2> HIDE DEF from
  <2> QED BY <2>2, <2>3, <2>4, <2>5, <2>6 DEF Place
<1>5. TypeOK'
  <2>1. remembered' \in [Index -> Item \cup {NoItem}]
    BY <1>2
  <2>2. pos' \in [Item -> Nat \cup {Away}]
    BY <1>2, <1>4 DEF Place
  <2> QED BY <1>1, <1>2, <2>1, <2>2 DEF TypeOK
<1>6. PagesInv' /\ page' < MaxVisit
  BY <1>2 DEF LInv, PagesInv
<1>7. Stages'
  <2>1. \A i \in Item : shift'[i] # Away \/ flight'[i] # Away => pos'[i] = Away
    BY <1>2, <1>3, <1>4
  <2> QED BY <1>1, <1>2, <1>3, <2>1 DEF Stages, Picked
<1>8. Dest' = Dest
  BY <1>4 DEF Dest, DestOf
<1>9. Placed'
  BY <1>2, <1>8 DEF LInv, Placed
<1> QED BY <1>2, <1>5, <1>6, <1>7, <1>8, <1>9 DEF LInv

LEMMA InvStep ==
  ASSUME Gentle, LInv, [Next]_vars
  PROVE  LInv'
<1>1. CASE UNCHANGED vars
  <2>1. UNCHANGED <<pos, pages, page, mode, focus, origin, moving, collide, expectPage,
                    expectIndex, itemIndex, hover, shift, flight, paused, remembered>>
    BY <1>1 DEF vars, recogniser
  <2>2. Dest' = Dest
    BY <2>1 DEF Dest
  <2> QED BY <2>1, <2>2 DEF LInv, TypeOK, PagesInv, Stages, Placed
<1>2. CASE Next
  BY <1>2, PickUpStep, LandStep, MovePickedStep, MoveMeanwhileStep, TransposeStep,
     TranspositionEndsStep, TurnPageStep, TurningEndsStep, DropStep, ScrollPageStep,
     PauseStep, ResumeStep DEF Next
<1> QED BY <1>1, <1>2

LEMMA Invariant ==
  ASSUME Gentle
  PROVE  Spec => []LInv
<1>1. LInv /\ [Next]_vars => LInv'
  BY InvStep
<1> QED BY <1>1, InitInv, PTL DEF Spec

\* What an item rests on, or is on its way to, is its Dest.
OnTheWay == \A i \in Item : Goal(i) # Away => Goal(i) = Dest[i]

LEMMA GoalIsDest ==
  ASSUME LInv
  PROVE  OnTheWay
<1> SUFFICES ASSUME NEW i \in Item, Goal(i) # Away
             PROVE  Goal(i) = Dest[i]
  BY DEF OnTheWay
<1>1. Dest[i] = IF shift[i] # Away THEN shift[i]
                ELSE IF flight[i] # Away THEN flight[i]
                ELSE IF {k \in Index : remembered[k] = i} # {}
                     THEN First(page) + Most({k \in Index : remembered[k] = i}) ELSE pos[i]
  BY DEF Dest, DestOf
<1>2. Goal(i) = IF shift[i] # Away THEN shift[i]
                ELSE IF flight[i] # Away THEN flight[i] ELSE pos[i]
  BY DEF Goal
<1>3. shift[i] = Away /\ flight[i] = Away => {k \in Index : remembered[k] = i} = {}
  <2>1. i # NoItem
    BY DEF Item, NoItem
  <2>2. pos[i] # Away \/ shift[i] # Away \/ flight[i] # Away
    BY <1>2
  <2> QED BY <2>1, <2>2 DEF LInv, Stages
<1> QED BY <1>1, <1>2, <1>3

-----------------------------------------------------------------------------
(* Every variable keeps its type: no item is pushed or turned to a place   *)
(* before the first, nor pages counted beyond MAX_PAGE_NUMBER              *)
(* (IPhoneDesktopLayout.hh:21-56).                                         *)
THEOREM TypeCorrect ==
  ASSUME Gentle
  PROVE  Spec => []TypeOK
<1>1. LInv => TypeOK
  BY DEF LInv
<1> QED BY <1>1, Invariant, PTL

(* No two items are on, or on their way to, the same place, whatever was   *)
(* pushed on, closed up, turned, dropped or covered meanwhile              *)
(* (IPhoneDesktopStateTransposition.cc:74-148,                             *)
(* IPhoneDesktopStatePageTurning.cc:115-130,                               *)
(* IPhoneDesktopStatePickup.cc:171-235).                                   *)
THEOREM NoPlaceShared ==
  ASSUME Gentle
  PROVE  Spec => []NoSharedPlace
<1>1. ASSUME LInv
      PROVE  NoSharedPlace
  <2> SUFFICES ASSUME NEW i \in Item, NEW j \in Item, i # j, Goal(i) # Away, Goal(i) = Goal(j)
               PROVE  FALSE
    BY DEF NoSharedPlace
  <2>1. Goal(i) = Dest[i] /\ Goal(j) = Dest[j]
    BY <1>1, GoalIsDest DEF OnTheWay
  <2>2. Distinct(Dest)
    BY <1>1 DEF LInv, Placed, PlacedAt
  <2> QED BY <2>1, <2>2 DEF Distinct
<1> QED BY <1>1, Invariant, PTL

LEMMA RestIs ==
  ASSUME LInv, AtRest
  PROVE  /\ Dest = pos /\ \A i \in Item : pos[i] \in Nat /\ pos[i] # Away
         /\ HoleAt(pos, Away)
<1>1. mode = "putdown" /\ flight = NoneMoving /\ ~paused /\ mode \notin Picked
  BY DEF AtRest, Picked
<1>2. shift = NoneMoving /\ \A k \in Index : remembered[k] = NoItem
  BY <1>1 DEF LInv, Stages
<1>3. pos \in [Item -> Place]
  BY DEF LInv, TypeOK, Place
<1>4. Dest = pos
  BY <1>1, <1>2, <1>3, DestSettled DEF Dest
<1>5. PlacedAt(pos, page, mode, focus)
  BY <1>4 DEF LInv, Placed
<1> QED BY <1>1, <1>3, <1>4, <1>5 DEF PlacedAt, Place

(* When everything has come to rest no page has a hole in front of an      *)
(* item, so an empty index 0 is an empty page, as the tests of             *)
(* IPhoneDesktopStatePageTurning.cc:101-111, 195-201 and                   *)
(* IPhoneDesktopStateTransposition.cc:171-175 take it to be.               *)
THEOREM NoHoleIsLeft ==
  ASSUME Gentle
  PROVE  Spec => []NoHoleAtRest
<1>1. ASSUME LInv
      PROVE  NoHoleAtRest
  <2> SUFFICES ASSUME AtRest, NEW i \in Item, NEW n \in First(PageOf(pos[i])) .. pos[i]
               PROVE  ItemAt(pos, n) # NoItem
    BY DEF NoHoleAtRest
  <2>1. pos[i] \in Nat /\ pos[i] # Away /\ HoleAt(pos, Away)
    BY <1>1, RestIs
  <2>2. n # Away
    <3>1. PageOf(pos[i]) \in Nat
      BY <2>1, PageOfIs
    <3>2. First(PageOf(pos[i])) \in Nat
      BY <3>1, FirstType
    <3> QED BY <2>1, <3>2 DEF Away
  <2>3. Held(pos, n)
    BY <2>1, <2>2 DEF HoleAt
  <2> QED BY <2>3, ItemAtIs
<1> QED BY <1>1, Invariant, PTL

\* The items but the one in hand keep their order.
Ordered(f) ==
  \A i, j \in Item \ {f} :
    Dest[i] # Away /\ Dest[i] < Dest[j] /\ Dest'[i] # Away /\ Dest'[j] # Away
      => Dest'[i] < Dest'[j]

LEMMA StepOrdered ==
  ASSUME Gentle, LInv, [Next]_vars
  PROVE  Ordered(focus')
<1>1. CASE Dest' = Dest
  BY <1>1 DEF Ordered
<1>2. Dest \in [Item -> Place] /\ Distinct(Dest) /\ page \in Nat
  BY DEF LInv, Placed, PlacedAt, TypeOK
<1>3. CASE MovePicked
  BY <1>2, <1>3, MovePickedStep DEF Ordered
<1>4. CASE Transpose
  <2>1. CASE Dest' = Dest
    BY <1>1, <2>1
  <2>2. ASSUME NEW e \in PlacesOf(page), Dest' = Slide(Dest, e, FirstVacancy(Dest, page))
        PROVE  Ordered(focus')
    <3>1. PICK v : v = FirstVacancy(Dest, page)
      OBVIOUS
    <3>2. v \in Nat /\ ~ Held(Dest, v)
      BY <1>2, <3>1, FirstVacancyIs
    <3>3. e \in Nat
      BY <1>2, <2>2, IndexIs
    <3>4. \A i, j \in Item : Dest[i] # Away /\ Dest[i] < Dest[j]
                               => Slide(Dest, e, v)[i] < Slide(Dest, e, v)[j]
      BY <1>2, <3>2, <3>3, SlideIs
    <3> QED BY <2>2, <3>1, <3>4 DEF Ordered
  <2> QED BY <1>4, <2>1, <2>2, TransposeStep
<1>5. ASSUME NEW side \in {"left", "right"}, TurnPage(side)
      PROVE  Ordered(focus')
  BY <1>5, TurnPageStep DEF Ordered
<1>6. CASE Drop
  <2>1. focus' = focus /\ \A i \in Item \ {focus} : Dest'[i] = Dest[i]
    BY <1>2, <1>6, DropStep
  <2> QED BY <2>1 DEF Ordered
<1>7. ASSUME \/ \E i \in Item : PickUp(i) \/ Land(i)
             \/ MoveMeanwhile \/ TranspositionEnds \/ TurningEnds \/ ScrollPage
             \/ Pause \/ Resume
      PROVE  Dest' = Dest
  BY <1>7, PickUpStep, LandStep, MoveMeanwhileStep, TranspositionEndsStep, TurningEndsStep,
     ScrollPageStep, PauseStep, ResumeStep
<1>8. UNCHANGED vars => Dest' = Dest
  BY DEF vars, Dest
<1> QED BY <1>1, <1>3, <1>4, <1>5, <1>6, <1>7, <1>8 DEF Next

(* The items that are not carried stay in the order the user reads them    *)
(* in, over all the pages: making room and closing up only slide them      *)
(* (IPhoneDesktopStateTransposition.cc:74-148,                             *)
(* IPhoneDesktopStatePageTurning.cc:115-130).                              *)
THEOREM OrderIsKept ==
  ASSUME Gentle
  PROVE  Spec => OthersKeepOrder
<1>1. ASSUME LInv, OnTheWay, OnTheWay', LInv', [Next]_vars
      PROVE  \A i, j \in Item \ {focus'} :
               Goal(i) < Goal(j) /\ Goal(i) # Away /\ Goal(i)' # Away /\ Goal(j)' # Away
                 => Goal(i)' < Goal(j)'
  <2> SUFFICES ASSUME NEW i \in Item \ {focus'}, NEW j \in Item \ {focus'},
                      Goal(i) < Goal(j), Goal(i) # Away, Goal(i)' # Away, Goal(j)' # Away
               PROVE  Goal(i)' < Goal(j)'
    OBVIOUS
  <2>1. Goal(i)' = Dest'[i] /\ Goal(j)' = Dest'[j] /\ Goal(i) = Dest[i]
    BY <1>1 DEF OnTheWay
  <2>2. Dest[i] \in Nat
    BY <1>1, <2>1 DEF LInv, Placed, PlacedAt, Place
  <2>3. Goal(j) # Away
    BY <2>1, <2>2 DEF Away
  <2>4. Goal(j) = Dest[j]
    BY <1>1, <2>3 DEF OnTheWay
  <2>5. Ordered(focus')
    BY <1>1, StepOrdered
  <2> QED BY <2>1, <2>4, <2>5 DEF Ordered
<1>2. LInv /\ OnTheWay /\ OnTheWay' /\ LInv' /\ [Next]_vars =>
        [\A i, j \in Item \ {focus'} :
           Goal(i) < Goal(j) /\ Goal(i) # Away /\ Goal(i)' # Away /\ Goal(j)' # Away
             => Goal(i)' < Goal(j)']_vars
  BY <1>1
<1>3. LInv => OnTheWay
  BY GoalIsDest
<1> QED BY <1>2, <1>3, Invariant, PTL DEF Spec, OthersKeepOrder

-----------------------------------------------------------------------------
(* With room enough for all the items from any page the user goes to on.   *)

Roomy == NItems <= (MaxPage - MaxVisit + 1) * Cap

\* Every item is on a page there is - or goes to the one that the end of the
\* transposition will add - and no drop hangs.
Housed ==
  /\ mode # "hung"
  /\ \A i \in Item : \/ Dest[i] < First(pages)
                     \/ mode = "transposition" /\ Dest[i] = First(pages) /\ pages < MaxPage

LEMMA VacancyHasPage ==
  ASSUME Roomy, NEW P \in [Item -> Place], NEW p \in Nat, p < MaxVisit,
         NEW f \in Item, P[f] = Away
  PROVE  PageOf(FirstVacancy(P, p)) < MaxPage
<1>1. PICK v : v = FirstVacancy(P, p)
  OBVIOUS
<1>2. v \in Nat /\ First(p) <= v /\ \A n \in First(p) .. v - 1 : Held(P, n)
  BY <1>1, FirstVacancyIs
<1>3. First(p) \in Nat /\ NItems \in Nat /\ MaxPage \in Nat /\ MaxVisit \in Nat /\ Cap \in Nat
      /\ MaxVisit <= MaxPage
  BY FirstType, LayoutAssumption
<1>4. PICK n \in First(p) .. First(p) + NItems - 1 : ~ Held(P, n)
  BY <1>3, SomeVacancySooner
<1>5. v <= n /\ n < First(p) + NItems
  BY <1>2, <1>3, <1>4
<1>6. First(p) + NItems <= First(MaxPage)
  <2>1. PICK c \in Nat : c = MaxPage - MaxVisit + 1
    BY <1>3
  <2>2. NItems <= c * Cap /\ c * Cap \in Nat
    BY <1>3, <2>1 DEF Roomy
  <2>3. First(p) + c * Cap = First(p + c)
    BY <1>3, <2>1 DEF First
  <2>4. p + c \in Nat /\ p + c <= MaxPage
    BY <1>3, <2>1
  <2>5. First(p + c) <= First(MaxPage)
    <3>1. CASE p + c = MaxPage
      <4>1. First(MaxPage) \in Nat
        BY <1>3, FirstType
      <4> QED BY <3>1, <4>1
    <3>2. CASE p + c < MaxPage
      <4>1. First(p + c) + Cap <= First(MaxPage) /\ First(p + c) \in Nat /\ First(MaxPage) \in Nat
        BY <1>3, <2>4, <3>2, FirstOrder, FirstType
      <4> QED BY <1>3, <4>1
    <3> QED BY <1>3, <2>4, <3>1, <3>2
  <2>6. First(p + c) \in Nat /\ First(MaxPage) \in Nat
    BY <1>3, <2>4, FirstType
  <2> QED BY <1>3, <2>2, <2>3, <2>5, <2>6
<1>7. v < First(MaxPage)
  <2>1. First(MaxPage) \in Nat
    BY <1>3, FirstType
  <2> QED BY <1>2, <1>3, <1>4, <1>5, <1>6, <2>1
<1> QED BY <1>1, <1>2, <1>3, <1>7, PageOfIs

LEMMA VacancyAtEnd ==
  ASSUME NEW P \in [Item -> Place], NEW p \in Nat, NEW q \in Nat, p < q,
         \A i \in Item : P[i] < First(q)
  PROVE  FirstVacancy(P, p) <= First(q)
<1>1. PICK v : v = FirstVacancy(P, p)
  OBVIOUS
<1>2. v \in Nat /\ \A n \in First(p) .. v - 1 : Held(P, n)
  BY <1>1, FirstVacancyIs
<1>3. First(p) \in Nat /\ First(q) \in Nat /\ First(p) <= First(q)
  <2>1. First(p) \in Nat /\ First(q) \in Nat /\ First(p) + Cap <= First(q) /\ Cap \in Nat
    BY FirstType, FirstOrder, LayoutAssumption
  <2> QED BY <2>1
<1>4. ~ Held(P, First(q))
  BY <1>3 DEF Held
<1>5. ~ (First(q) < v)
  <2>1. First(q) < v => First(q) \in First(p) .. v - 1
    BY <1>2, <1>3
  <2> QED BY <1>2, <1>4, <2>1
<1> QED BY <1>1, <1>2, <1>3, <1>5

LEMMA FirstGrows ==
  ASSUME NEW p \in Nat, NEW q \in Nat, p <= q
  PROVE  First(p) \in Nat /\ First(q) \in Nat /\ First(p) <= First(q)
<1>1. First(p) \in Nat /\ First(q) \in Nat /\ Cap \in Nat
  BY FirstType, LayoutAssumption
<1>2. p < q => First(p) + Cap <= First(q)
  BY FirstOrder
<1> QED BY <1>1, <1>2

\* The page that an item was pushed on to is counted.
LEMMA CountedAfterTransposition ==
  ASSUME LInv, Housed
  PROVE  \A i \in Item : Dest[i] < First(PagesAfterTransposition(Dest))
<1>1. /\ pages \in Nat /\ MaxPage \in Nat /\ First(pages) \in Nat /\ Cap \in Nat /\ Cap > 0
      /\ First(pages + 1) = First(pages) + Cap
  BY FirstType, LayoutAssumption DEF LInv, PagesInv
<1>2. Dest \in [Item -> Place]
  BY DEF LInv, Placed, PlacedAt
<1>3. \A i \in Item : Dest[i] \in Int
  BY <1>2 DEF Place, Away
<1>4. CASE Held(Dest, First(pages))
  <2>1. pages < MaxPage
    <3>1. PICK i \in Item : Dest[i] = First(pages)
      BY <1>4 DEF Held
    <3> QED BY <1>1, <3>1 DEF Housed
  <2>2. ItemAt(Dest, First(pages)) # NoItem
    BY <1>4, ItemAtIs
  <2>3. PagesAfterTransposition(Dest) = pages + 1
    BY <1>1, <2>1, <2>2 DEF PagesAfterTransposition, NewPage
  <2>4. \A i \in Item : Dest[i] <= First(pages)
    BY <1>1, <1>3 DEF Housed
  <2> QED BY <1>1, <1>3, <2>3, <2>4
<1>5. CASE ~ Held(Dest, First(pages))
  <2>1. ItemAt(Dest, First(pages)) = NoItem
    BY <1>5, ItemAtIs
  <2>2. PagesAfterTransposition(Dest) = pages
    BY <2>1 DEF PagesAfterTransposition
  <2>3. \A i \in Item : Dest[i] # First(pages)
    BY <1>5 DEF Held
  <2> QED BY <2>2, <2>3 DEF Housed
<1> QED BY <1>4, <1>5

\* ...and only an empty page is deleted.
LEMMA LastPageEmpty ==
  ASSUME LInv, Housed, mode = "turning"
  PROVE  \A i \in Item : Dest[i] < First(PagesAfterTurning)
<1>1. Dest = pos /\ \A i \in Item : Dest[i] < First(pages)
  BY DestPicked DEF Housed, Picked
<1>2. CASE ~ (page # pages - 1 /\ ItemAt(pos, First(pages - 1)) = NoItem)
  <2>1. PagesAfterTurning = pages
    BY <1>2 DEF PagesAfterTurning
  <2> QED BY <1>1, <2>1
<1>3. CASE page # pages - 1 /\ ItemAt(pos, First(pages - 1)) = NoItem
  <2>1. PICK q : q = pages - 1
    OBVIOUS
  <2>2. /\ q \in Nat /\ pages = q + 1 /\ First(q) \in Nat /\ Cap \in Nat /\ Cap > 0
        /\ First(pages) = First(q) + Cap /\ page \in Nat /\ page # q
    <3>1. pages \in Nat /\ pages >= 1 /\ page \in Nat
      BY LayoutAssumption DEF LInv, PagesInv
    <3>2. q \in Nat /\ pages = q + 1
      BY <2>1, <3>1
    <3> QED BY <1>3, <2>1, <3>1, <3>2, FirstType, LayoutAssumption
  <2>3. PagesAfterTurning = q
    BY <1>3, <2>1 DEF PagesAfterTurning
  <2>4. ~ Held(pos, First(q))
    BY <1>3, <2>1, ItemAtIs
  <2>5. pos \in [Item -> Place] /\ PlacedAt(pos, page, mode, focus)
    BY <1>1 DEF LInv, Placed, PlacedAt
  <2>6. PICK h : (h = Away \/ h \in PlacesOf(page)) /\ HoleAt(pos, h)
    BY <2>5 DEF PlacedAt
  <2>7. ASSUME NEW i \in Item, ~ (pos[i] < First(q))
        PROVE  FALSE
    <3>1. pos[i] \in Nat /\ First(q) <= pos[i] /\ pos[i] < First(q) + Cap
      BY <1>1, <2>2, <2>5, <2>7 DEF Place, Away
    <3>2. pos[i] \in PlacesOf(q)
      BY <2>2, <3>1, PlacesIs
    <3>3. First(q) = h
      <4>1. First(q) = h \/ Held(pos, First(q))
        BY <2>2, <2>5, <2>6, <3>1, <3>2, HoleAtUse
      <4> QED BY <2>4, <4>1
    <3>4. h \in PlacesOf(page) /\ h \in PlacesOf(q)
      BY <2>2, <2>6, <3>3, PlacesIs DEF Away
    <3>5. page = q
      BY <2>2, <3>3, <3>4, PageOfIs
    <3> QED BY <2>2, <3>5
  <2> QED BY <1>1, <2>3, <2>7
<1> QED BY <1>2, <1>3

LEMMA LeavingHoused ==
  ASSUME LInv, Housed, mode \in Picked
  PROVE  \A i \in Item : Dest[i] < First(Leaving)
<1>1. CASE mode = "transposition"
  <2>1. Leaving = PagesAfterTransposition(Dest)
    BY <1>1, DestPicked DEF Leaving
  <2> QED BY <2>1, CountedAfterTransposition
<1>2. CASE mode = "turning"
  <2>1. Leaving = PagesAfterTurning
    BY <1>2 DEF Leaving
  <2> QED BY <1>2, <2>1, LastPageEmpty
<1>3. CASE mode = "picked"
  <2>1. Leaving = pages
    BY <1>3 DEF Leaving
  <2> QED BY <1>3, <2>1 DEF Housed
<1> QED BY <1>1, <1>2, <1>3 DEF Picked

LEMMA DropHoused ==
  ASSUME Gentle, Roomy, LInv, Housed, Drop
  PROVE  Housed'
<1>1. /\ mode \in Picked /\ focus \in Item /\ page \in Nat /\ page < MaxVisit
      /\ Dest \in [Item -> Place] /\ MaxPage \in Nat
  BY DropSteps, DestPicked, LayoutAssumption DEF LInv, TypeOK, Placed, PlacedAt
<1>2. Leaving \in 1 .. MaxPage /\ Leaving \in Nat
  BY <1>1, LeavingIs DEF LInv
<1>3. \A i \in Item : Dest[i] < First(Leaving)
  BY <1>1, LeavingHoused
<1>4. CASE Dest[focus] # Away
  <2>1. Dest' = Dest /\ AtOrigin
    BY <1>4, DropStep
  <2>2. pages' = Leaving /\ mode' = "putdown"
    BY <2>1, DropSteps
  <2> QED BY <1>3, <2>1, <2>2 DEF Housed
<1>5. CASE Dest[focus] = Away
  <2>1. Dest' = [Dest EXCEPT ![focus] = DropTo] /\ ~AtOrigin
    BY <1>5, DropStep
  <2>2. DropTo \in Nat /\ PageOf(DropTo) < MaxPage /\ PageOf(DropTo) \in Nat
    <3>1. DropTo = FirstVacancy(Dest, page)
      BY DropStep
    <3>2. FirstVacancy(Dest, page) \in Nat /\ PageOf(FirstVacancy(Dest, page)) < MaxPage
      BY <1>1, <1>5, FirstVacancyIs, VacancyHasPage
    <3> QED BY <3>1, <3>2, PageOfIs
  <2>3. /\ mode' = "putdown"
        /\ pages' = IF PageOf(DropTo) < Leaving THEN Leaving ELSE PageOf(DropTo) + 1
    BY <1>1, <2>1, <2>2, DropSteps
  <2>4. pages' \in Nat /\ Leaving <= pages' /\ PageOf(DropTo) < pages'
    BY <1>2, <2>2, <2>3
  <2>5. First(Leaving) \in Nat /\ First(pages') \in Nat /\ First(Leaving) <= First(pages')
    BY <1>2, <2>4, FirstGrows
  <2>6. DropTo < First(pages')
    BY <2>2, <2>4, PageOfIs
  <2>7. ASSUME NEW i \in Item
        PROVE  Dest'[i] < First(pages')
    <3>1. CASE i = focus
      BY <1>1, <2>1, <2>6, <3>1
    <3>2. CASE i # focus
      <4>1. Dest'[i] = Dest[i] /\ Dest[i] < First(Leaving) /\ Dest[i] \in Int
        BY <1>1, <1>3, <2>1, <3>2 DEF Place, Away
      <4> QED BY <2>5, <4>1
    <3> QED BY <3>1, <3>2
  <2> QED BY <2>3, <2>7 DEF Housed
<1> QED BY <1>4, <1>5

LEMMA HousedInit ==
  ASSUME Roomy, Init
  PROVE  Housed
<1>1. /\ NItems \in Nat /\ MaxPage \in Nat /\ MaxVisit \in Nat /\ MaxVisit >= 1
      /\ MaxVisit <= MaxPage /\ Cap \in Nat /\ Cap > 0
  BY LayoutAssumption
<1>2. NItems <= First(MaxPage)
  <2>1. PICK c \in Nat : c = MaxPage - MaxVisit + 1
    BY <1>1
  <2>2. NItems <= First(c) /\ c <= MaxPage
    BY <1>1, <2>1 DEF Roomy, First
  <2>3. First(c) \in Nat /\ First(MaxPage) \in Nat /\ First(c) <= First(MaxPage)
    BY <1>1, <2>2, FirstGrows
  <2> QED BY <1>1, <2>2, <2>3
<1>3. Dest = pos
  <2>1. pos \in [Item -> Place]
    BY DEF Init, Item, Place
  <2>2. shift = NoneMoving /\ flight = NoneMoving /\ \A k \in Index : remembered[k] = NoItem
    BY DEF Init, NoneMoving
  <2> QED BY <2>1, <2>2, DestSettled DEF Dest
<1>4. NItems <= First(pages)
  <2>1. PageOf(NItems) \in Nat /\ NItems \in PlacesOf(PageOf(NItems))
    BY <1>1, PageOfIs
  <2>2. NItems < First(PageOf(NItems) + 1) /\ First(PageOf(NItems) + 1) \in Nat
    <3>1. NItems < First(PageOf(NItems)) + Cap
      BY <1>1, <2>1, PlacesIs
    <3>2. PageOf(NItems) + 1 \in Nat
      BY <2>1
    <3> QED BY <2>1, <3>1, <3>2, FirstType
  <2>3. pages = PageOf(NItems) + 1 \/ pages = MaxPage
    BY DEF Init
  <2> QED BY <1>1, <1>2, <2>2, <2>3
<1>5. First(pages) \in Nat
  BY InitInv, FirstType DEF LInv, TypeOK
<1>6. ASSUME NEW i \in Item
      PROVE  pos[i] < First(pages)
  <2>1. i \in 1 .. NItems /\ pos[i] = i - 1
    BY DEF Init, Item
  <2> QED BY <1>1, <1>4, <1>5, <2>1
<1> QED BY <1>3, <1>6 DEF Init, Housed

LEMMA HousedStep ==
  ASSUME Gentle, Roomy, LInv, LInv', Housed, [Next]_vars
  PROVE  Housed'
<1>1. /\ Dest \in [Item -> Place] /\ pages \in Nat /\ page \in Nat /\ page < pages
      /\ MaxPage \in Nat /\ First(pages) \in Nat
  BY FirstType, LayoutAssumption DEF LInv, Placed, PlacedAt, PagesInv
<1>2. \A i \in Item : Dest[i] \in Int
  BY <1>1 DEF Place, Away
<1>3. ASSUME Dest' = Dest, pages' = pages, mode' # "hung",
             mode' = mode \/ mode # "transposition"
      PROVE  Housed'
  BY <1>3 DEF Housed
<1>4. ASSUME NEW i \in Item, PickUp(i)
      PROVE  Housed'
  <2>1. mode = "putdown" /\ mode' = "picked"
    BY <1>4 DEF PickUp
  <2> QED BY <1>3, <1>4, <2>1, PickUpStep
<1>5. CASE (\E i \in Item : Land(i)) \/ MoveMeanwhile \/ ScrollPage \/ Pause \/ Resume
  <2>1. mode' = mode
    BY <1>5 DEF Land, MoveMeanwhile, ScrollPage, Pause, Resume
  <2>2. Dest' = Dest /\ pages' = pages
    BY <1>5, LandStep, MoveMeanwhileStep, ScrollPageStep, PauseStep, ResumeStep
  <2>3. mode # "hung"
    BY DEF Housed
  <2> QED BY <1>3, <2>1, <2>2, <2>3
<1>6. CASE MovePicked
  <2>1. mode = "picked" /\ mode' = mode /\ focus \in Item
    BY <1>6 DEF MovePicked, LInv, TypeOK
  <2>2. Dest' = [Dest EXCEPT ![focus] = Away] /\ pages' = pages
    BY <1>6, MovePickedStep
  <2>3. \A i \in Item : Dest[i] < First(pages)
    BY <2>1 DEF Housed
  <2>4. \A i \in Item : Dest'[i] < First(pages)
    BY <1>1, <2>2, <2>3 DEF Away
  <2> QED BY <2>1, <2>2, <2>4 DEF Housed
<1>7. CASE Transpose
  <2>1. mode = "picked" /\ focus \in Item
    BY <1>7, DestPicked DEF Transpose, Picked
  <2>2. /\ pages' = pages /\ mode' = "transposition" /\ Dest[focus] = Away
        /\ \/ Dest' = Dest
           \/ \E e \in PlacesOf(page) : Dest' = Slide(Dest, e, FirstVacancy(Dest, page))
    BY <1>7, TransposeStep
  <2>3. \A i \in Item : Dest[i] < First(pages)
    BY <2>1 DEF Housed
  <2>4. CASE Dest' = Dest
    BY <1>3, <2>1, <2>2, <2>4
  <2>5. ASSUME NEW e \in PlacesOf(page), Dest' = Slide(Dest, e, FirstVacancy(Dest, page))
        PROVE  Housed'
    <3>1. PICK v : v = FirstVacancy(Dest, page)
      OBVIOUS
    <3>2. v \in Nat /\ v <= First(pages)
      BY <1>1, <2>3, <3>1, FirstVacancyIs, VacancyAtEnd
    <3>3. v = First(pages) => pages < MaxPage
      <4>1. PageOf(v) < MaxPage /\ PageOf(v) \in Nat
        BY <1>1, <2>1, <2>2, <3>1, <3>2, VacancyHasPage, PageOfIs DEF LInv
      <4>2. v = First(pages) => pages <= PageOf(v)
        BY <1>1, <3>2, PageOfIs
      <4> QED BY <1>1, <4>1, <4>2
    <3>4. e \in Nat
      BY <1>1, <2>5, IndexIs
    <3>5. ASSUME NEW i \in Item
          PROVE  Dest'[i] < First(pages) \/ (Dest'[i] = First(pages) /\ pages < MaxPage)
      <4>1. Dest'[i] = IF Dest[i] \in e .. v - 1 THEN Dest[i] + 1
                       ELSE IF Dest[i] \in v + 1 .. e THEN Dest[i] - 1 ELSE Dest[i]
        BY <2>5, <3>1 DEF Slide
      <4>2. Dest[i] \in Int /\ Dest[i] < First(pages)
        BY <1>2, <2>3
      <4> QED BY <1>1, <3>2, <3>3, <3>4, <4>1, <4>2
    <3> QED BY <2>2, <3>5 DEF Housed
  <2> QED BY <2>2, <2>4, <2>5
<1>8. CASE TranspositionEnds
  <2>1. Dest' = Dest /\ mode' = "picked" /\ pages' = PagesAfterTransposition(Dest)
    BY <1>8, TranspositionEndsStep
  <2> QED BY <2>1, CountedAfterTransposition DEF Housed
<1>9. ASSUME NEW side \in {"left", "right"}, TurnPage(side)
      PROVE  Housed'
  <2>1. mode = "picked" /\ mode' = "turning"
    BY <1>9 DEF TurnPage
  <2>2. pages' \in pages .. MaxPage /\ \A i \in Item : Dest'[i] <= Dest[i]
    BY <1>9, TurnPageStep
  <2>3. pages' \in Nat /\ pages <= pages'
    BY <1>1, <2>2
  <2>4. First(pages') \in Nat /\ First(pages) <= First(pages')
    BY <1>1, <2>3, FirstGrows
  <2>5. ASSUME NEW i \in Item
        PROVE  Dest'[i] < First(pages')
    <3>1. Dest[i] \in Int /\ Dest[i] < First(pages) /\ Dest'[i] <= Dest[i]
      BY <1>2, <2>1, <2>2 DEF Housed
    <3>2. Dest'[i] \in Int
      BY DEF LInv, Placed, PlacedAt, Place, Away
    <3> QED BY <1>1, <2>4, <3>1, <3>2
  <2> QED BY <2>1, <2>5 DEF Housed
<1>10. CASE TurningEnds
  <2>1. Dest' = Dest /\ mode = "turning" /\ pages' = PagesAfterTurning
    BY <1>10, TurningEndsStep
  <2>2. mode' = "picked"
    BY <1>10 DEF TurningEnds
  <2> QED BY <2>1, <2>2, LastPageEmpty DEF Housed
<1>11. CASE Drop
  BY <1>11, DropHoused
<1>12. CASE UNCHANGED vars
  BY <1>3, <1>12 DEF vars, Dest, Housed
<1> QED BY <1>4, <1>5, <1>6, <1>7, <1>8, <1>9, <1>10, <1>11, <1>12 DEF Next

LEMMA HousedInvariant ==
  ASSUME Gentle, Roomy
  PROVE  Spec => []Housed
<1>1. Init => Housed
  BY HousedInit
<1>2. LInv /\ LInv' /\ Housed /\ [Next]_vars => Housed'
  BY HousedStep
<1> QED BY <1>1, <1>2, Invariant, PTL DEF Spec

(* When everything has come to rest, every item is on a page that the user *)
(* can scroll to: none is left on a page that was deleted or never counted *)
(* (IPhoneDesktopStatePickup.cc:205-235,                                   *)
(* IPhoneDesktopStateTransposition.cc:171-175,                             *)
(* IPhoneDesktopStatePageTurning.cc:195-201).                              *)
THEOREM EveryItemIsHome ==
  ASSUME Gentle, Roomy
  PROVE  Spec => []EveryItemHome
<1>1. ASSUME LInv, Housed
      PROVE  EveryItemHome
  <2> SUFFICES ASSUME AtRest, NEW i \in Item
               PROVE  pos[i] # Away /\ PageOf(pos[i]) < pages
    BY DEF EveryItemHome
  <2>1. Dest = pos /\ pos[i] \in Nat /\ pos[i] # Away
    BY <1>1, RestIs
  <2>2. pos[i] < First(pages) /\ pages \in Nat
    BY <1>1, <2>1 DEF AtRest, Housed, LInv, PagesInv
  <2> QED BY <2>1, <2>2, PageOfIs
<1> QED BY <1>1, Invariant, HousedInvariant, PTL

(* "Delete the last empty page" (IPhoneDesktopStatePageTurning.cc:195-201) *)
(* deletes an empty page: looking at its index 0 is enough, because a page *)
(* that is not the current one has no hole.                                *)
THEOREM DeletedPageIsEmpty ==
  ASSUME Gentle, Roomy
  PROVE  Spec => DeletedPageEmpty
<1>1. ASSUME LInv, Housed, [Next]_vars, pages' < pages, NEW i \in Item
      PROVE  pos[i] = Away \/ PageOf(pos[i]) < pages'
  <2>1. pages \in Nat /\ MaxPage \in Nat /\ pages <= MaxPage /\ PagesInv
    BY <1>1, LayoutAssumption DEF LInv, PagesInv
  <2>2. mode = "turning" /\ pages' = PagesAfterTurning
    <3>1. CASE TurningEnds
      BY <3>1 DEF TurningEnds
    <3>2. CASE Drop
      <4>1. pages' = IF AtOrigin \/ PageOf(DropTo) < Leaving THEN Leaving
                     ELSE IF PageOf(DropTo) < MaxPage THEN PageOf(DropTo) + 1 ELSE MaxPage
        BY <3>2, DropSteps
      <4>2. Leaving \in 1 .. MaxPage /\ (Leaving < pages => mode = "turning")
        BY <2>1, LeavingIs
      <4>3. CASE AtOrigin \/ PageOf(DropTo) < Leaving
        <5>1. pages' = Leaving /\ mode = "turning"
          BY <1>1, <4>1, <4>2, <4>3
        <5> QED BY <5>1 DEF Leaving
      <4>4. CASE ~ (AtOrigin \/ PageOf(DropTo) < Leaving)
        <5>1. PageOf(DropTo) \in Nat
          <6>1. DropTo \in Nat
            BY <1>1, FirstVacancyIs DEF DropTo, LInv, TypeOK
          <6> QED BY <6>1, PageOfIs
        <5>2. pages - 1 <= Leaving
          <6>1. CASE mode = "turning"
            <7>1. Leaving = PagesAfterTurning
              BY <6>1 DEF Leaving
            <7> QED BY <2>1, <7>1, AfterTurningIs
          <6>2. CASE mode # "turning"
            BY <2>1, <4>2, <6>2
          <6> QED BY <6>1, <6>2
        <5>3. pages' >= pages /\ pages' \in Nat
          BY <2>1, <4>1, <4>2, <4>4, <5>1, <5>2
        <5> QED BY <1>1, <2>1, <5>3
      <4> QED BY <4>3, <4>4
    <3>3. CASE TranspositionEnds
      <4>1. pages' \in pages .. MaxPage
        <5>1. pages' = PagesAfterTransposition(Dest)
          BY <1>1, <3>3, TranspositionEndsStep
        <5> QED BY <2>1, <5>1, AfterTranspositionIs
      <4> QED BY <1>1, <2>1, <4>1
    <3>4. ASSUME NEW side \in {"left", "right"}, TurnPage(side)
          PROVE  FALSE
      <4>1. pages' \in pages .. MaxPage
        BY <1>1, <3>4, TurnPageStep
      <4> QED BY <1>1, <2>1, <4>1
    <3>5. ASSUME \/ \E j \in Item : PickUp(j) \/ Land(j)
                 \/ MovePicked \/ MoveMeanwhile \/ Transpose \/ ScrollPage
                 \/ Pause \/ Resume \/ UNCHANGED vars
          PROVE  pages' = pages
      BY <3>5 DEF PickUp, Land, MovePicked, MoveMeanwhile, Transpose, ScrollPage, Pause,
         Resume, vars
    <3> QED BY <1>1, <2>1, <3>1, <3>2, <3>3, <3>4, <3>5 DEF Next
  <2>3. Dest = pos /\ Dest[i] < First(pages')
    BY <1>1, <2>2, LastPageEmpty, DestPicked DEF Picked
  <2>4. pos[i] = Away \/ pos[i] \in Nat
    BY <1>1 DEF LInv, TypeOK
  <2>5. pages' \in Nat
    BY <2>1, <2>2, AfterTurningIs
  <2> QED BY <2>3, <2>4, <2>5, PageOfIs
<1>2. LInv /\ Housed /\ [Next]_vars =>
        [pages' < pages => \A i \in Item : pos[i] = Away \/ PageOf(pos[i]) < pages']_vars
  BY <1>1
<1> QED BY <1>2, Invariant, HousedInvariant, PTL DEF Spec, DeletedPageEmpty
=============================================================================
