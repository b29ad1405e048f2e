--------------------------- MODULE Sightings_proofs ---------------------------
(***************************************************************************)
(* Proofs about Sightings, for every finite set of MACs, every bound of    *)
(* the feed and every size of a page.                                      *)
(*                                                                         *)
(* FeedIsOrdered is what the store's sort and its eviction rely on.  That  *)
(* a walk misses nothing comes from WalkIsOnTime: of a MAC that the walk   *)
(* still owes, enough others are in front that no page has passed its      *)
(* place.  While a page is being made, some of these others are in the     *)
(* page already and some are yet to be looked up.                          *)
(***************************************************************************)
EXTENDS Sightings, FiniteSetTheorems, WellFoundedInduction, TLAPS

FeedIsOrdered ==
    /\ \A m \in MAC : newer[m] \subseteq feed
    /\ \A m \in MAC : m \notin newer[m]
    /\ \A m \in MAC : m \notin feed => newer[m] = {}
    /\ \A m, b \in MAC : m \in newer[b] => b \notin newer[m]

\* Of two entries one is newer, and what is newer than it is newer than the
\* other.
FeedIsTotal ==
    /\ \A m, b \in feed : m # b => m \in newer[b] \/ b \in newer[m]
    /\ \A m, b \in feed : m \in newer[b] => newer[m] \subseteq newer[b]

\* A walk owes MACs that are listed.
OwedIsVisible == owed \subseteq Visible

\* The list that a page is made of.
ListIsSound ==
    /\ walk.rest \cap walk.kept = {}
    /\ \A m \in MAC : m \notin walk.order[m]
    /\ walk.at # "over" => walk.offset <= MaxEntries
    /\ walk.at # "filter" => walk.rest = {} /\ walk.kept = {}

\* Those in front of m: between two pages, in the list of the next one ...
Front(m) == newer[m] \cap Visible

\* ... and in the list at hand, as far as the page counts them or still may.
PageFront(m) == walk.order[m] \cap (walk.kept \cup (walk.rest \cap Visible))

WalkIsOnTime ==
    \A m \in owed \ walk.got :
        /\ walk.at # "over"
        /\ walk.at = "list" => walk.offset <= Cardinality(Front(m))
        /\ walk.at = "filter" =>
               /\ m \in walk.rest \cup walk.kept
               /\ walk.order[m] \cap feed \subseteq newer[m]
               /\ walk.offset <= Cardinality(PageFront(m))

IInv ==
    /\ TypeOK
    /\ FeedIsOrdered
    /\ FeedIsTotal
    /\ KeepsTheNewest
    /\ OwedIsVisible
    /\ ListIsSound
    /\ WalkIsOnTime

-----------------------------------------------------------------------------
\* Sets of MACs are finite, and larger ones have more members.
LEMMA Counting ==
    /\ \A S \in SUBSET MAC : IsFiniteSet(S) /\ Cardinality(S) \in Nat
    /\ \A S, T \in SUBSET MAC : S \subseteq T => Cardinality(S) <= Cardinality(T)
    /\ \A S, T \in SUBSET MAC : S \subseteq T /\ S # T => Cardinality(S) < Cardinality(T)
<1>1. ASSUME NEW S \in SUBSET MAC PROVE IsFiniteSet(S) /\ Cardinality(S) \in Nat
  BY MACAssumption, FS_Subset, FS_CardinalityType
<1>2. ASSUME NEW S \in SUBSET MAC, NEW T \in SUBSET MAC, S \subseteq T
      PROVE  Cardinality(S) <= Cardinality(T) /\ (S # T => Cardinality(S) # Cardinality(T))
  BY <1>1, <1>2, FS_Subset
<1> QED
  BY <1>1, <1>2

\* A set of numbers has a least one.
LEMMA LeastOf ==
    \A S \in SUBSET Nat : S # {} => \E n \in S : \A k \in S : n <= k
<1> DEFINE R == OpToRel(<, Nat)
<1>1. IsWellFoundedOn(R, Nat)
  BY NatLessThanWellFounded
<1>2. \A x, y \in Nat : x < y => <<x, y>> \in R
  BY DEF OpToRel
<1> HIDE DEF R
<1> SUFFICES ASSUME NEW S \in SUBSET Nat, S # {}
             PROVE  \E n \in S : \A k \in S : n <= k
  OBVIOUS
<1>3. PICK x \in S : \A y \in S : ~(<<y, x>> \in R)
  BY <1>1, WFMin
<1>4. ASSUME NEW y \in S PROVE x <= y
  <2>1. ~(y < x)
    BY <1>2, <1>3
  <2> QED
    BY <2>1
<1> QED
  BY <1>4

\* Restricting an order, and putting a MAC at the front of one.
LEMMA OrdersStay ==
    ASSUME TypeOK
    PROVE  /\ \A R \in Orders, S \in SUBSET MAC : Within(R, S) \in Orders
           /\ \A S \in SUBSET MAC, m \in MAC : Stamped(S, m) \in Orders
           /\ NoOrder \in Orders
           /\ NoWalk.at = "over" /\ NoWalk.rest = {} /\ NoWalk.kept = {}
           /\ NoWalk.offset = 0 /\ NoWalk.got = {} /\ NoWalk.order = NoOrder
BY DEF Within, Stamped, NoOrder, Orders, NoWalk, TypeOK

\* What a walk is made of.
LEMMA WalkTyped ==
    ASSUME TypeOK
    PROVE  /\ walk.at \in {"over", "list", "filter"}
           /\ walk.offset \in Nat /\ walk.offset <= MaxEntries + Limit
           /\ walk.order \in Orders
           /\ walk.rest \in SUBSET MAC /\ walk.kept \in SUBSET MAC
           /\ walk.got \in SUBSET MAC
           /\ walk = [at |-> walk.at, offset |-> walk.offset, order |-> walk.order,
                      rest |-> walk.rest, kept |-> walk.kept, got |-> walk.got]
BY BoundAssumption DEF TypeOK

-----------------------------------------------------------------------------
(* The store                                                                *)

\* A note keeps the bound of the store, which has its MAC afterwards.
LEMMA NoteBound ==
    ASSUME TypeOK, NEW h \in Handler, Note(h)
    PROVE  /\ note[h] \in MAC
           /\ feed' \subseteq MAC
           /\ note[h] \in feed'
           /\ feed' \subseteq feed \cup {note[h]}
           /\ Cardinality(feed') <= MaxEntries
<1> DEFINE m == note[h]
<1>1. m \in MAC /\ feed \in SUBSET MAC /\ IsFiniteSet(feed) /\ Cardinality(feed) \in Nat
  BY Counting DEF Note, TypeOK
<1>2. CASE ~Evicts(m) /\ feed' = feed \cup {m}
  <2>1. m \in feed \/ Cardinality(feed) < MaxEntries
    BY <1>1, <1>2, BoundAssumption DEF Evicts
  <2>2. Cardinality(feed') = IF m \in feed THEN Cardinality(feed) ELSE Cardinality(feed) + 1
    BY <1>1, <1>2, FS_AddElement
  <2> QED
    BY <1>1, <1>2, <2>1, <2>2, BoundAssumption DEF TypeOK
<1>3. ASSUME Evicts(m), NEW e \in feed, feed' = (feed \ {e}) \cup {m}
      PROVE  feed' \subseteq MAC /\ m \in feed' /\ feed' \subseteq feed \cup {m} /\
             Cardinality(feed') <= MaxEntries
  <2> DEFINE F == feed \ {e}
  <2>1. Cardinality(F) = Cardinality(feed) - 1 /\ IsFiniteSet(F)
    BY <1>1, FS_RemoveElement
  <2>2. Cardinality(F) < MaxEntries
    BY <1>1, <2>1, BoundAssumption DEF TypeOK
  <2>3. feed' = F \cup {m}
    BY <1>3
  <2> HIDE DEF F, m
  <2>4. Cardinality(F \cup {m}) = IF m \in F THEN Cardinality(F) ELSE Cardinality(F) + 1
    BY <2>1, FS_AddElement
  <2>5. Cardinality(feed') <= MaxEntries
    BY <1>1, <2>1, <2>2, <2>3, <2>4, BoundAssumption
  <2> QED
    BY <1>1, <1>3, <2>5
<1> QED
  BY <1>1, <1>2, <1>3 DEF Note

\* The order after a note.
LEMMA NoteOrder ==
    ASSUME TypeOK, NEW h \in Handler, Note(h)
    PROVE  /\ \A b \in MAC : newer'[b] = IF b \in feed' \ {note[h]}
                                         THEN (newer[b] \cap feed') \cup {note[h]} ELSE {}
           /\ \A b \in MAC : after'[b] = IF b \in seen \ {note[h]}
                                         THEN after[b] \cup {note[h]} ELSE {}
           /\ seen' = seen \cup {note[h]}
           /\ owed' = (owed \ {note[h]}) \cap feed'
BY DEF Note, Stamped

\* What is left after a prune or a dismissal.
LEMMA DropOrder ==
    ASSUME TypeOK, NEW M \in SUBSET MAC, Drop(M)
    PROVE  /\ feed' = feed \ M /\ seen' = seen \ M /\ fleet' = fleet
           /\ feed' \in SUBSET MAC /\ Cardinality(feed') <= MaxEntries
           /\ newer' \in Orders /\ after' \in Orders
           /\ \A b \in MAC : newer'[b] = IF b \in feed' THEN newer[b] \cap feed' ELSE {}
           /\ \A b \in MAC : after'[b] = IF b \in seen' THEN after[b] \cap seen' ELSE {}
<1>1. feed' = feed \ M /\ seen' = seen \ M /\ fleet' = fleet
  BY DEF Drop
<1>2. feed' \in SUBSET MAC /\ feed \in SUBSET MAC /\ feed' \subseteq feed /\ seen' \in SUBSET MAC
  BY <1>1 DEF TypeOK
<1>3. Cardinality(feed') <= MaxEntries
  <2>1. /\ Cardinality(feed') \in Nat /\ Cardinality(feed) \in Nat
        /\ Cardinality(feed') <= Cardinality(feed)
    BY <1>2, Counting
  <2> QED
    BY <2>1, BoundAssumption DEF TypeOK
<1>4. newer' = [b \in MAC |-> IF b \in feed' THEN newer[b] \cap feed' ELSE {}]
  BY DEF Drop, Within
<1>5. after' = [b \in MAC |-> IF b \in seen' THEN after[b] \cap seen' ELSE {}]
  BY DEF Drop, Within
<1> QED
  BY <1>1, <1>2, <1>3, <1>4, <1>5 DEF Orders, TypeOK

-----------------------------------------------------------------------------
\* The pages of a walk keep its type: a list has no more MACs than the store,
\* and a walk that goes on has not reached the end of one.
LEMMA WalkStep ==
    ASSUME TypeOK, ListIsSound, BeginWalk \/ NextPage \/ Filter \/ Respond
    PROVE  /\ walk' \in [at : {"over", "list", "filter"}, offset : 0..(MaxEntries + Limit),
                         order : Orders, rest : SUBSET MAC, kept : SUBSET MAC,
                         got : SUBSET MAC]
           /\ Cardinality(walk'.rest \cup walk'.kept) <= MaxEntries
           /\ walk'.at # "over" => walk'.offset <= MaxEntries
           /\ UNCHANGED <<fleet, store, note, watcher>>
<1>1. 0 \in 0..(MaxEntries + Limit) /\ 0 <= MaxEntries
  BY BoundAssumption
<1>2. Cardinality({} \cup {}) = 0
  BY FS_EmptySet
<1>3. ASSUME BeginWalk \/ NextPage
      PROVE  /\ walk'.at = "filter" /\ walk'.rest = feed /\ walk'.kept = {}
             /\ walk'.order = newer
             /\ walk'.offset \in {0, walk.offset} /\ walk'.got \in {{}, walk.got}
             /\ walk' = [at |-> walk'.at, offset |-> walk'.offset, order |-> walk'.order,
                         rest |-> walk'.rest, kept |-> walk'.kept, got |-> walk'.got]
  BY <1>3, WalkTyped DEF BeginWalk, NextPage, Listing, NoWalk, ListIsSound
<1>4. CASE BeginWalk \/ NextPage
  <2>1. walk'.offset <= MaxEntries /\ walk'.offset \in 0..(MaxEntries + Limit)
    <3>1. CASE BeginWalk
      BY <1>1, <3>1 DEF BeginWalk, Listing, NoWalk
    <3>2. CASE NextPage
      BY <3>2, WalkTyped, BoundAssumption DEF NextPage, Listing, ListIsSound
    <3> QED
      BY <1>4, <3>1, <3>2
  <2>2. walk'.got \in SUBSET MAC /\ feed \in SUBSET MAC /\ newer \in Orders
    BY <1>3, <1>4, WalkTyped DEF TypeOK
  <2>3. Cardinality(walk'.rest \cup walk'.kept) <= MaxEntries
    <3>1. walk'.rest \cup walk'.kept = feed
      BY <1>3, <1>4
    <3> QED
      BY <3>1 DEF TypeOK
  <2> QED
    BY <1>3, <1>4, <2>1, <2>2, <2>3 DEF BeginWalk, NextPage
<1>6. CASE Filter
  <2>1. PICK m \in walk.rest :
            walk' = [walk EXCEPT !.rest = walk.rest \ {m},
                                 !.kept = IF Listed(m) THEN walk.kept \cup {m} ELSE walk.kept]
    BY <1>6 DEF Filter
  <2>2. /\ walk'.at = walk.at /\ walk'.offset = walk.offset
        /\ walk'.order = walk.order /\ walk'.got = walk.got
        /\ walk'.rest = walk.rest \ {m}
        /\ walk'.kept \subseteq walk.kept \cup {m}
        /\ walk' \in [at : {"over", "list", "filter"}, offset : 0..(MaxEntries + Limit),
                      order : Orders, rest : SUBSET MAC, kept : SUBSET MAC,
                      got : SUBSET MAC]
    BY <2>1, WalkTyped DEF TypeOK
  <2>3. /\ walk'.rest \cup walk'.kept \subseteq walk.rest \cup walk.kept
        /\ walk.rest \cup walk.kept \in SUBSET MAC /\ walk'.rest \cup walk'.kept \in SUBSET MAC
    BY <2>2, WalkTyped
  <2>4. Cardinality(walk'.rest \cup walk'.kept) <= MaxEntries
    BY <2>3, Counting, BoundAssumption DEF TypeOK
  <2> QED
    BY <1>6, <2>2, <2>4 DEF Filter, ListIsSound
<1>7. CASE Respond
  <2> DEFINE total == Cardinality(walk.kept)
             lo == Lower(walk.offset, total)
             hi == Upper(lo, total)
             page == {m \in walk.kept : lo <= Place(m) /\ Place(m) < hi}
             next == walk.offset + Limit
  <2>1. walk' = [NoWalk EXCEPT !.at = IF next >= total THEN "over" ELSE "list",
                               !.offset = next, !.got = walk.got \cup page]
    BY <1>7 DEF Respond
  <2>2. walk.kept \in SUBSET MAC /\ walk.rest \cup walk.kept = walk.kept /\ walk.at = "filter"
    BY <1>7, WalkTyped DEF Respond
  <2>3. total \in Nat /\ total <= MaxEntries
    BY <2>2, Counting DEF TypeOK
  <2>4. walk.offset \in Nat /\ walk.offset <= MaxEntries
    BY <2>2, WalkTyped DEF ListIsSound
  <2>5. /\ next \in 0..(MaxEntries + Limit)
        /\ ~(next >= total) => next <= MaxEntries
    BY <2>3, <2>4, BoundAssumption
  <2>6. walk.got \cup page \in SUBSET MAC
    BY <2>2, WalkTyped
  <2> HIDE DEF page, next, total
  <2>7. /\ walk'.at = IF next >= total THEN "over" ELSE "list"
        /\ walk'.offset = next /\ walk'.rest = {} /\ walk'.kept = {}
        /\ walk' \in [at : {"over", "list", "filter"}, offset : 0..(MaxEntries + Limit),
                      order : Orders, rest : SUBSET MAC, kept : SUBSET MAC,
                      got : SUBSET MAC]
    BY <2>1, <2>5, <2>6, OrdersStay DEF NoWalk
  <2> QED
    BY <1>1, <1>2, <1>7, <2>5, <2>7 DEF Respond
<1> QED
  BY <1>4, <1>6, <1>7

\* Every step keeps the types.
LEMMA TypeStep == TypeOK /\ ListIsSound /\ [Next]_vars => TypeOK'
<1> SUFFICES ASSUME TypeOK, ListIsSound, [Next]_vars PROVE TypeOK'
  OBVIOUS
<1>0. MovesUp => owed' \subseteq MAC
  BY DEF MovesUp, TypeOK
<1>1. ASSUME NEW h \in Handler, NEW m \in MAC, Discover(h, m) PROVE TypeOK'
  BY <1>1 DEF Discover, store, TypeOK
<1>2. ASSUME NEW h \in Handler, Note(h) PROVE TypeOK'
  <2>1. /\ feed' \subseteq MAC /\ Cardinality(feed') <= MaxEntries
        /\ note[h] \in MAC
    BY <1>2, NoteBound
  <2>2. newer' \in Orders
    BY <1>2, <2>1, OrdersStay DEF Note
  <2>3. after' \in Orders
    BY <1>2, <2>1 DEF Note, Orders, TypeOK
  <2> QED
    BY <1>2, <2>1, <2>2, <2>3 DEF Note, TypeOK
<1>3. ASSUME NEW m \in MAC, ChangeFleet(m) PROVE TypeOK'
  BY <1>0, <1>3 DEF ChangeFleet, store, TypeOK
<1>4. CASE Reload
  BY <1>0, <1>4 DEF Reload, store, TypeOK
<1>5. CASE Snapshot
  <2>1. {m \in MAC : fleet[m] # "absent"} \in SUBSET MAC
    OBVIOUS
  <2> QED
    BY <1>5, <2>1 DEF Snapshot, store, TypeOK
<1>6. ASSUME NEW M \in SUBSET MAC, Drop(M), UNCHANGED <<note, walk>>,
             watcher' = watcher \/ watcher' = [at |-> "wait", known |-> {}]
      PROVE  TypeOK'
  <2>1. owed' \subseteq MAC /\ seen' \subseteq MAC
    BY <1>0, <1>6 DEF Drop, TypeOK
  <2> QED
    BY <1>6, <2>1, DropOrder DEF TypeOK
<1>7. CASE Prune
  <2>1. watcher.known \in SUBSET MAC
    BY DEF TypeOK
  <2> QED
    BY <1>6, <1>7, <2>1 DEF Prune
<1>8. ASSUME NEW m \in MAC, Dismiss(m) PROVE TypeOK'
  BY <1>6, <1>8 DEF Dismiss
<1>9. CASE BeginWalk \/ NextPage \/ Filter \/ Respond
  <2>1. owed' \subseteq MAC
    BY <1>9 DEF BeginWalk, NextPage, Filter, Respond, Visible, TypeOK
  <2> QED
    BY <1>9, <2>1, WalkStep DEF TypeOK, store
<1>10. CASE Restart
  <2>1. Cardinality({}) = 0 /\ {} \cup {} = {} /\ NoOrder \in Orders /\ 0 <= MaxEntries
    BY FS_EmptySet, OrdersStay, BoundAssumption
  <2>2. NoWalk \in [at : {"over", "list", "filter"}, offset : 0..(MaxEntries + Limit),
                    order : Orders, rest : SUBSET MAC, kept : SUBSET MAC, got : SUBSET MAC]
    BY <2>1, BoundAssumption DEF NoWalk
  <2>3. Cardinality(walk'.rest \cup walk'.kept) <= MaxEntries
    BY <1>10, <2>1, OrdersStay DEF Restart
  <2> QED
    BY <1>10, <2>1, <2>2, <2>3 DEF Restart, TypeOK
<1>11. CASE UNCHANGED vars
  BY <1>11 DEF vars, store, TypeOK
<1> QED
  BY <1>1, <1>2, <1>3, <1>4, <1>5, <1>7, <1>8, <1>9, <1>10, <1>11 DEF Next

\* Every step keeps the order of the feed, and the feed the front of what was
\* seen: a note makes its MAC the newest, and what is evicted is newer than
\* nobody.
LEMMA OrderStep ==
    TypeOK /\ FeedIsOrdered /\ KeepsTheNewest /\ [Next]_vars =>
        FeedIsOrdered' /\ KeepsTheNewest'
<1> SUFFICES ASSUME TypeOK, FeedIsOrdered, KeepsTheNewest, [Next]_vars
             PROVE  FeedIsOrdered' /\ KeepsTheNewest'
  OBVIOUS
<1>0. newer \in Orders /\ after \in Orders /\ feed \subseteq MAC /\ seen \subseteq MAC
  BY DEF TypeOK
<1>1. ASSUME NEW h \in Handler, Note(h) PROVE FeedIsOrdered' /\ KeepsTheNewest'
  <2> DEFINE m == note[h]
  <2>1. m \in MAC /\ m \in feed' /\ feed' \subseteq feed \cup {m} /\ feed' \subseteq MAC
    BY <1>1, NoteBound
  <2>2. /\ \A b \in MAC : newer'[b] = IF b \in feed' \ {m}
                                      THEN (newer[b] \cap feed') \cup {m} ELSE {}
        /\ \A b \in MAC : after'[b] = IF b \in seen \ {m} THEN after[b] \cup {m} ELSE {}
        /\ seen' = seen \cup {m}
    BY <1>1, NoteOrder
  <2>3. \A b \in feed' \ {m} : newer[b] \subseteq feed' \cup {m}
    <3>1. CASE feed' = feed \cup {m}
      BY <1>0, <3>1 DEF FeedIsOrdered
    <3>2. ASSUME NEW e \in feed, Oldest(e), feed' = (feed \ {e}) \cup {m}
          PROVE  \A b \in feed' \ {m} : newer[b] \subseteq feed' \cup {m}
      <4>1. \A b \in feed \ {e} : e \notin newer[b]
        BY <1>0, <3>2 DEF Oldest, FeedIsOrdered
      <4> QED
        BY <1>0, <3>2, <4>1 DEF FeedIsOrdered
    <3> QED
      BY <1>1, <3>1, <3>2 DEF Note
  <2> HIDE DEF m
  <2>4. FeedIsOrdered'
    BY <1>0, <2>1, <2>2 DEF FeedIsOrdered
  <2>5. KeepsTheNewest'
    <3>1. feed' \subseteq seen'
      BY <2>1, <2>2 DEF KeepsTheNewest
    <3>2. ASSUME NEW b \in feed' PROVE newer'[b] = after'[b]
      BY <1>0, <2>1, <2>2, <2>3 DEF KeepsTheNewest
    <3> QED
      BY <3>1, <3>2 DEF KeepsTheNewest
  <2> QED
    BY <2>4, <2>5
<1>2. ASSUME NEW M \in SUBSET MAC, Drop(M) PROVE FeedIsOrdered' /\ KeepsTheNewest'
  <2>1. /\ feed' = feed \ M /\ seen' = seen \ M
        /\ \A b \in MAC : newer'[b] = IF b \in feed' THEN newer[b] \cap feed' ELSE {}
        /\ \A b \in MAC : after'[b] = IF b \in seen' THEN after[b] \cap seen' ELSE {}
    BY <1>2, DropOrder
  <2>2. FeedIsOrdered'
    BY <1>0, <2>1 DEF FeedIsOrdered
  <2>3. ASSUME NEW b \in feed' PROVE newer'[b] = after'[b]
    <3>1. newer[b] = after[b] /\ newer[b] \subseteq feed /\ feed \subseteq seen
      BY <1>0, <2>1 DEF FeedIsOrdered, KeepsTheNewest
    <3>2. newer[b] \cap (feed \ M) = after[b] \cap (seen \ M)
      BY <3>1
    <3> QED
      BY <1>0, <2>1, <3>1, <3>2
  <2>4. feed' \subseteq seen'
    BY <2>1 DEF KeepsTheNewest
  <2> QED
    BY <2>2, <2>3, <2>4 DEF KeepsTheNewest
<1>3. CASE Prune
  <2>1. watcher.known \in SUBSET MAC
    BY DEF TypeOK
  <2> QED
    BY <1>2, <1>3, <2>1 DEF Prune
<1>4. ASSUME NEW m \in MAC, Dismiss(m) PROVE FeedIsOrdered' /\ KeepsTheNewest'
  BY <1>2, <1>4 DEF Dismiss
<1>5. CASE Restart
  <2>1. feed' = {} /\ seen' = {} /\ \A m \in MAC : newer'[m] = {}
    BY <1>5 DEF Restart, NoOrder
  <2> QED
    BY <2>1 DEF FeedIsOrdered, KeepsTheNewest
<1>6. CASE UNCHANGED store
  BY <1>6 DEF store, FeedIsOrdered, KeepsTheNewest
<1> QED
  BY <1>1, <1>3, <1>4, <1>5, <1>6
     DEF Next, vars, Discover, ChangeFleet, Reload, Snapshot, BeginWalk, NextPage,
         Filter, Respond

\* Every step keeps the order total: the MAC of a note is newer than all
\* others.
LEMMA TotalStep ==
    TypeOK /\ FeedIsOrdered /\ FeedIsTotal /\ [Next]_vars => FeedIsTotal'
<1> SUFFICES ASSUME TypeOK, FeedIsOrdered, FeedIsTotal, [Next]_vars PROVE FeedIsTotal'
  OBVIOUS
<1>0. feed \subseteq MAC
  BY DEF TypeOK
<1>1. ASSUME NEW h \in Handler, Note(h) PROVE FeedIsTotal'
  <2>1. /\ note[h] \in feed' /\ feed' \subseteq feed \cup {note[h]} /\ feed' \subseteq MAC
        /\ \A b \in MAC : newer'[b] = IF b \in feed' \ {note[h]}
                                        THEN (newer[b] \cap feed') \cup {note[h]} ELSE {}
    BY <1>1, NoteBound, NoteOrder
  <2>2. PICK x : x = note[h]
    OBVIOUS
  <2>3. PICK F : F = feed'
    OBVIOUS
  <2>4. PICK N : N = newer'
    OBVIOUS
  <2>5. /\ x \in F /\ F \subseteq feed \cup {x} /\ F \subseteq MAC
        /\ \A b \in F \ {x} : b \in feed /\ N[b] = (newer[b] \cap F) \cup {x}
        /\ N[x] = {}
    BY <2>1, <2>2, <2>3, <2>4
  <2>6. ASSUME NEW m \in F, NEW b \in F, m # b
        PROVE  m \in N[b] \/ b \in N[m]
    <3>1. CASE m = x \/ b = x
      BY <2>5, <2>6, <3>1
    <3>2. CASE m # x /\ b # x
      <4>1. m \in feed /\ b \in feed
        BY <2>5, <3>2
      <4>2. m \in newer[b] \/ b \in newer[m]
        BY <2>6, <4>1 DEF FeedIsTotal
      <4> QED
        BY <2>5, <3>2, <4>2
    <3> QED
      BY <3>1, <3>2
  <2>7. ASSUME NEW m \in F, NEW b \in F, m \in N[b]
        PROVE  N[m] \subseteq N[b]
    <3>1. CASE m = x
      BY <2>5, <3>1
    <3>2. CASE m # x
      <4>1. b # x /\ m \in feed /\ b \in feed /\ m \in newer[b]
        BY <2>5, <2>7, <3>2
      <4>2. newer[m] \subseteq newer[b]
        BY <4>1 DEF FeedIsTotal
      <4> QED
        BY <2>5, <3>2, <4>1, <4>2
    <3> QED
      BY <3>1, <3>2
  <2> QED
    BY <2>3, <2>4, <2>6, <2>7 DEF FeedIsTotal
<1>2. ASSUME NEW M \in SUBSET MAC, Drop(M) PROVE FeedIsTotal'
  <2>1. /\ feed' = feed \ M
        /\ \A b \in MAC : newer'[b] = IF b \in feed' THEN newer[b] \cap feed' ELSE {}
    BY <1>2, DropOrder
  <2> QED
    BY <1>0, <2>1 DEF FeedIsTotal
<1>3. CASE Prune
  <2>1. watcher.known \in SUBSET MAC
    BY DEF TypeOK
  <2> QED
    BY <1>2, <1>3, <2>1 DEF Prune
<1>4. ASSUME NEW m \in MAC, Dismiss(m) PROVE FeedIsTotal'
  BY <1>2, <1>4 DEF Dismiss
<1>5. CASE Restart
  BY <1>5 DEF Restart, FeedIsTotal
<1>6. CASE UNCHANGED store
  BY <1>6 DEF store, FeedIsTotal
<1> QED
  BY <1>1, <1>3, <1>4, <1>5, <1>6
     DEF Next, vars, Discover, ChangeFleet, Reload, Snapshot, BeginWalk, NextPage,
         Filter, Respond

\* An entry that the most others are newer than is the oldest, and there is no
\* other.
LEMMA OldestExists ==
    ASSUME TypeOK, FeedIsOrdered, FeedIsTotal, feed # {}
    PROVE  \E e \in feed : Oldest(e) /\ \A d \in feed : Oldest(d) => d = e
<1> DEFINE Ahead(e) == Cardinality(newer[e])
           Behind == {Cardinality(MAC) - Ahead(e) : e \in feed}
<1>1. /\ feed \subseteq MAC /\ MAC \in SUBSET MAC /\ Cardinality(MAC) \in Nat
      /\ \A e \in feed : newer[e] \in SUBSET MAC
  BY Counting DEF TypeOK, Orders
<1>2. \A e \in feed : Ahead(e) \in Nat /\ Ahead(e) <= Cardinality(MAC)
  BY <1>1, Counting
<1>3. Behind \in SUBSET Nat /\ Behind # {}
  BY <1>1, <1>2
<1>4. \E n \in Behind : \A k \in Behind : n <= k
  <2> HIDE DEF Behind
  <2> QED
    BY <1>3, LeastOf
<1>5. PICK e \in feed : \A d \in feed : Ahead(d) <= Ahead(e)
  <2>1. PICK e \in feed :
            \A d \in feed : Cardinality(MAC) - Ahead(e) <= Cardinality(MAC) - Ahead(d)
    BY <1>4
  <2>2. \A d \in feed : Ahead(d) <= Ahead(e)
    BY <1>1, <1>2, <2>1
  <2> QED
    BY <2>2
<1>6. ASSUME NEW d \in feed, d # e PROVE d \in newer[e]
  <2> SUFFICES ASSUME d \notin newer[e] PROVE FALSE
    OBVIOUS
  <2>1. e \in newer[d] /\ newer[e] \subseteq newer[d] /\ e \notin newer[e]
    BY <1>1, <1>6 DEF FeedIsTotal, FeedIsOrdered
  <2>2. Ahead(e) < Ahead(d)
    BY <1>1, <2>1, Counting
  <2> QED
    BY <1>2, <1>5, <2>2
<1>7. Oldest(e)
  BY <1>6 DEF Oldest
<1>8. \A d \in feed : Oldest(d) => d = e
  BY <1>1, <1>6 DEF Oldest, FeedIsOrdered
<1> QED
  BY <1>7, <1>8

-----------------------------------------------------------------------------
(* The walk                                                                 *)

\* The lookup of one MAC.
LEMMA FilterStep ==
    ASSUME TypeOK, Filter
    PROVE  \E m \in walk.rest :
               /\ walk'.at = "filter" /\ walk'.offset = walk.offset
               /\ walk'.order = walk.order /\ walk'.got = walk.got
               /\ walk'.rest = walk.rest \ {m}
               /\ walk'.kept = IF Listed(m) THEN walk.kept \cup {m} ELSE walk.kept
<1>1. PICK m \in walk.rest :
          walk' = [walk EXCEPT !.rest = walk.rest \ {m},
                               !.kept = IF Listed(m) THEN walk.kept \cup {m} ELSE walk.kept]
  BY DEF Filter
<1>2. walk.at = "filter"
  BY DEF Filter
<1> QED
  BY <1>1, <1>2, WalkTyped

\* A page covers the places from the offset on: a listed MAC that it does not
\* show, although the walk has not passed its place, comes after it, and so
\* does the end of the list.
LEMMA RespondStep ==
    ASSUME TypeOK, ListIsSound, Respond
    PROVE  /\ walk'.at \in {"over", "list"}
           /\ walk'.order = NoOrder /\ walk'.rest = {} /\ walk'.kept = {}
           /\ walk'.offset = walk.offset + Limit
           /\ walk.got \subseteq walk'.got
           /\ \A m \in walk.kept \ walk'.got :
                  walk.offset <= Place(m) =>
                      walk'.at = "list" /\ walk.offset + Limit <= Place(m)
<1> DEFINE total == Cardinality(walk.kept)
           lo == Lower(walk.offset, total)
           hi == Upper(lo, total)
           page == {m \in walk.kept : lo <= Place(m) /\ Place(m) < hi}
           next == walk.offset + Limit
<1>1. walk' = [NoWalk EXCEPT !.at = IF next >= total THEN "over" ELSE "list",
                             !.offset = next, !.got = walk.got \cup page]
  BY DEF Respond
<1>2. /\ walk'.at = IF next >= total THEN "over" ELSE "list"
      /\ walk'.order = NoOrder /\ walk'.rest = {} /\ walk'.kept = {}
      /\ walk'.offset = next
      /\ walk'.got = walk.got \cup page
  <2> HIDE DEF next, total, page
  <2> QED
    BY <1>1 DEF NoWalk
<1>3. walk.kept \in SUBSET MAC /\ total \in Nat /\ walk.offset \in Nat
  BY WalkTyped, Counting
<1>4. ASSUME NEW m \in walk.kept \ walk'.got, walk.offset <= Place(m)
      PROVE  walk'.at = "list" /\ walk.offset + Limit <= Place(m)
  <2> DEFINE front == walk.order[m] \cap walk.kept
  <2>1. front \in SUBSET MAC /\ front \subseteq walk.kept /\ front # walk.kept
    BY <1>3 DEF ListIsSound
  <2>2. Place(m) \in Nat /\ Place(m) < total
    BY <1>3, <2>1, Counting DEF Place
  <2>3. m \notin page
    BY <1>2, <1>4
  <2>4. ~(lo <= Place(m) /\ Place(m) < hi)
    BY <2>3
  <2>5. lo = walk.offset
    BY <1>3, <1>4, <2>2 DEF Lower
  <2>6. hi = IF walk.offset + Limit > total THEN total ELSE walk.offset + Limit
    BY <2>5 DEF Upper
  <2> QED
    BY <1>2, <1>3, <1>4, <2>2, <2>4, <2>5, <2>6, BoundAssumption
<1> QED
  BY <1>2, <1>4

\* A walk owes what is listed, at every step: what leaves the list by a note
\* is no longer owed, and when a MAC leaves in another way nothing is.
LEMMA OwedStep == TypeOK /\ OwedIsVisible /\ [Next]_vars => OwedIsVisible'
<1> SUFFICES ASSUME TypeOK, OwedIsVisible, [Next]_vars PROVE OwedIsVisible'
  OBVIOUS
<1>1. CASE MovesUp
  BY <1>1 DEF MovesUp, OwedIsVisible
<1>2. ASSUME NEW h \in Handler, Note(h) PROVE OwedIsVisible'
  BY <1>2 DEF Note, OwedIsVisible, Visible, Listed
<1>3. ASSUME UNCHANGED <<fleet, feed>>, owed' \subseteq Visible PROVE OwedIsVisible'
  BY <1>3 DEF OwedIsVisible, Visible, Listed
<1>4. CASE Restart
  BY <1>4 DEF Restart, OwedIsVisible
<1> QED
  BY <1>1, <1>2, <1>3, <1>4
     DEF Next, vars, store, Discover, ChangeFleet, Reload, Snapshot, Prune, Dismiss, Drop,
         BeginWalk, NextPage, Filter, Respond, OwedIsVisible

\* A list is made once a page: what has been looked up is not looked up again.
LEMMA ListStep ==
    TypeOK /\ FeedIsOrdered /\ ListIsSound /\ [Next]_vars => ListIsSound'
<1> SUFFICES ASSUME TypeOK, FeedIsOrdered, ListIsSound, [Next]_vars PROVE ListIsSound'
  OBVIOUS
<1>1. CASE UNCHANGED walk
  BY <1>1 DEF ListIsSound
<1>2. CASE BeginWalk \/ NextPage
  <2>1. /\ walk'.at = "filter" /\ walk'.kept = {} /\ walk'.order = newer
    BY <1>2, WalkTyped DEF BeginWalk, NextPage, Listing, NoWalk, ListIsSound
  <2> QED
    BY <1>2, <2>1, WalkStep DEF ListIsSound, FeedIsOrdered
<1>3. CASE Filter
  BY <1>3, WalkStep, FilterStep DEF ListIsSound
<1>4. CASE Respond
  BY <1>4, WalkStep, RespondStep DEF ListIsSound, NoOrder
<1>5. CASE Restart
  BY <1>5, OrdersStay DEF Restart, ListIsSound, NoOrder
<1> QED
  BY <1>1, <1>2, <1>3, <1>4, <1>5
     DEF Next, vars, store, Discover, Note, ChangeFleet, Reload, Snapshot, Prune, Dismiss

\* As long as no page is made or asked for, a walk stays on time if those in
\* front of the MACs it still owes only become more.
LEMMA StayOnTime ==
    ASSUME TypeOK, TypeOK', WalkIsOnTime, walk' = walk, owed' \subseteq owed,
           \A m \in owed' : walk.at = "list" => Front(m) \subseteq Front(m)',
           \A m \in owed' : walk.at = "filter" /\ walk.order[m] \cap feed \subseteq newer[m] =>
               /\ PageFront(m) \subseteq PageFront(m)'
               /\ walk.order[m] \cap feed' \subseteq newer'[m]
    PROVE  WalkIsOnTime'
<1> SUFFICES ASSUME NEW m \in owed' \ walk.got
             PROVE  /\ walk.at # "over"
                    /\ walk.at = "list" => walk.offset <= Cardinality(Front(m)')
                    /\ walk.at = "filter" =>
                           /\ m \in walk.rest \cup walk.kept
                           /\ walk.order[m] \cap feed' \subseteq newer'[m]
                           /\ walk.offset <= Cardinality(PageFront(m)')
  BY DEF WalkIsOnTime, Front, PageFront
<1>1. /\ walk.at # "over"
      /\ walk.at = "list" => walk.offset <= Cardinality(Front(m))
      /\ walk.at = "filter" =>
             /\ m \in walk.rest \cup walk.kept
             /\ walk.order[m] \cap feed \subseteq newer[m]
             /\ walk.offset <= Cardinality(PageFront(m))
  BY DEF WalkIsOnTime
<1>2. m \in MAC /\ walk.offset \in Nat
  BY WalkTyped DEF TypeOK
<1>3. /\ Front(m) \in SUBSET MAC /\ Front(m)' \in SUBSET MAC
      /\ PageFront(m) \in SUBSET MAC /\ PageFront(m)' \in SUBSET MAC
  BY <1>2, WalkTyped DEF Front, PageFront, Visible, TypeOK, Orders
<1>4. CASE walk.at = "list"
  <2>1. Cardinality(Front(m)) <= Cardinality(Front(m)')
    BY <1>3, <1>4, Counting
  <2> QED
    BY <1>1, <1>2, <1>3, <1>4, <2>1, Counting
<1>5. CASE walk.at = "filter"
  <2>1. Cardinality(PageFront(m)) <= Cardinality(PageFront(m)')
    BY <1>1, <1>3, <1>5, Counting
  <2> QED
    BY <1>1, <1>2, <1>3, <1>5, <2>1, Counting
<1> QED
  BY <1>1, <1>4, <1>5, WalkTyped

\* A note puts its MAC in front of the others, and an evicted one was not in
\* front of any.
LEMMA NoteOnTime ==
    ASSUME IInv, TypeOK', NEW h \in Handler, Note(h) PROVE WalkIsOnTime'
<1> DEFINE x == note[h]
<1>0. TypeOK /\ FeedIsOrdered /\ OwedIsVisible /\ WalkIsOnTime
  BY DEF IInv
<1>1. x \in MAC /\ x \in feed' /\ feed' \subseteq feed \cup {x} /\ feed \subseteq MAC
  BY <1>0, NoteBound DEF TypeOK
<1>2. /\ \A b \in MAC : newer'[b] = IF b \in feed' \ {x}
                                    THEN (newer[b] \cap feed') \cup {x} ELSE {}
      /\ owed' = (owed \ {x}) \cap feed'
      /\ fleet' = fleet /\ walk' = walk
  BY <1>0, NoteOrder DEF Note
<1>3. \A m \in owed' : newer[m] \subseteq feed'
  <2>1. CASE feed' = feed \cup {x}
    BY <1>0, <1>1, <1>2, <2>1 DEF FeedIsOrdered, OwedIsVisible, Visible
  <2>2. ASSUME NEW e \in feed, Oldest(e), feed' = (feed \ {e}) \cup {x}
        PROVE  \A m \in owed' : newer[m] \subseteq feed'
    BY <1>0, <1>1, <1>2, <2>2 DEF FeedIsOrdered, OwedIsVisible, Visible, Oldest
  <2> QED
    BY <2>1, <2>2 DEF Note
<1> HIDE DEF x
<1>4. owed' \subseteq owed /\ owed' \subseteq feed' /\ x \notin owed' /\ owed' \subseteq MAC
  BY <1>0, <1>2 DEF TypeOK
<1>5. \A b \in feed' : b \in Visible => b \in Visible'
  BY <1>2 DEF Visible, Listed
<1>6. ASSUME NEW m \in owed' PROVE Front(m) \subseteq Front(m)'
  BY <1>2, <1>3, <1>4, <1>5 DEF Front
<1>7. ASSUME NEW m \in owed', walk.order[m] \cap feed \subseteq newer[m]
      PROVE  /\ PageFront(m) \subseteq PageFront(m)'
             /\ walk.order[m] \cap feed' \subseteq newer'[m]
  <2>1. walk.order[m] \cap feed \subseteq feed'
    BY <1>3, <1>7
  <2>2. PageFront(m) \subseteq PageFront(m)'
    BY <1>2, <1>5, <2>1 DEF PageFront, Visible
  <2>3. walk.order[m] \cap feed' \subseteq newer'[m]
    BY <1>1, <1>2, <1>4, <1>7
  <2> QED
    BY <2>2, <2>3
<1> QED
  BY <1>0, <1>2, <1>4, <1>6, <1>7, StayOnTime

\* The fleet changes, or entries are deleted: if a listed MAC has left,
\* nothing is owed any more.
LEMMA LeaveOnTime ==
    ASSUME IInv, TypeOK', MovesUp, walk' = walk, feed' \subseteq feed,
           \A b \in feed' : newer'[b] = newer[b] \cap feed'
    PROVE  WalkIsOnTime'
<1>0. TypeOK /\ FeedIsOrdered /\ OwedIsVisible /\ WalkIsOnTime
  BY DEF IInv
<1>1. CASE owed' = {}
  BY <1>1 DEF WalkIsOnTime
<1>2. CASE owed' = owed /\ Visible \subseteq Visible'
  <2>1. owed' \subseteq owed /\ owed' \subseteq feed' /\ owed' \subseteq MAC
    BY <1>0, <1>2 DEF OwedIsVisible, Visible, TypeOK
  <2>2. Visible \subseteq feed'
    BY <1>2 DEF Visible
  <2>3. ASSUME NEW m \in owed' PROVE Front(m) \subseteq Front(m)'
    BY <1>2, <2>1, <2>2 DEF Front
  <2>4. ASSUME NEW m \in owed', walk.order[m] \cap feed \subseteq newer[m]
        PROVE  /\ PageFront(m) \subseteq PageFront(m)'
               /\ walk.order[m] \cap feed' \subseteq newer'[m]
    BY <1>2, <2>1, <2>4 DEF PageFront
  <2> QED
    BY <1>0, <2>1, <2>3, <2>4, StayOnTime
<1> QED
  BY <1>1, <1>2 DEF MovesUp

\* Every step keeps a walk on time.
LEMMA OnTimeStep == IInv /\ TypeOK' /\ [Next]_vars => WalkIsOnTime'
<1> SUFFICES ASSUME IInv, TypeOK', [Next]_vars PROVE WalkIsOnTime'
  OBVIOUS
<1>0. TypeOK /\ FeedIsOrdered /\ OwedIsVisible /\ ListIsSound /\ WalkIsOnTime
  BY DEF IInv
<1>a. /\ newer \in Orders /\ feed \in SUBSET MAC /\ Visible \subseteq feed
      /\ owed \in SUBSET MAC
  BY <1>0 DEF TypeOK, Visible
<1>1. ASSUME UNCHANGED <<feed, newer, walk>>, MovesUp PROVE WalkIsOnTime'
  <2>1. \A b \in feed' : newer'[b] = newer[b] \cap feed'
    BY <1>0, <1>a, <1>1 DEF FeedIsOrdered
  <2> QED
    BY <1>1, <2>1, LeaveOnTime
<1>2. ASSUME NEW M \in SUBSET MAC, Drop(M), walk' = walk PROVE WalkIsOnTime'
  <2>1. feed' \subseteq feed /\ \A b \in feed' : newer'[b] = newer[b] \cap feed'
    BY <1>0, <1>a, <1>2, DropOrder
  <2> QED
    BY <1>2, <2>1, LeaveOnTime DEF Drop
<1>3. CASE UNCHANGED <<fleet, feed, newer, walk, owed>>
  BY <1>0, <1>3 DEF WalkIsOnTime, Front, PageFront, Visible, Listed
<1>4. CASE BeginWalk \/ NextPage
  <2>1. /\ walk'.at = "filter" /\ walk'.order = newer /\ walk'.rest = feed /\ walk'.kept = {}
        /\ walk'.offset = IF BeginWalk THEN 0 ELSE walk.offset
        /\ walk'.got = IF BeginWalk THEN {} ELSE walk.got
    <3>1. CASE BeginWalk
      BY <3>1 DEF BeginWalk, Listing, NoWalk
    <3>2. CASE NextPage /\ ~BeginWalk
      BY <1>0, <3>2, WalkTyped DEF NextPage, Listing, ListIsSound
    <3> QED
      BY <1>4, <3>1, <3>2
  <2>2. fleet' = fleet /\ feed' = feed /\ newer' = newer
    BY <1>4 DEF BeginWalk, NextPage, store
  <2> SUFFICES ASSUME NEW m \in owed' \ walk'.got
               PROVE  /\ m \in feed
                      /\ walk'.offset <= Cardinality(PageFront(m)')
    BY <2>1, <2>2 DEF WalkIsOnTime
  <2>3. m \in feed
    BY <1>0, <1>4, <1>a DEF BeginWalk, NextPage, OwedIsVisible
  <2>4. PageFront(m)' = Front(m)
    BY <1>a, <2>1, <2>2 DEF PageFront, Front, Visible, Listed
  <2>5. Front(m) \in SUBSET MAC
    BY <1>a DEF Front
  <2>6. walk'.offset <= Cardinality(Front(m))
    <3>1. CASE BeginWalk
      BY <2>1, <2>5, <3>1, Counting
    <3>2. CASE NextPage /\ ~BeginWalk
      BY <1>0, <2>1, <3>2 DEF NextPage, WalkIsOnTime
    <3> QED
      BY <1>4, <3>1, <3>2
  <2> QED
    BY <2>3, <2>4, <2>6
<1>5. CASE Filter
  <2>1. PICK x \in walk.rest :
            /\ walk'.at = "filter" /\ walk'.offset = walk.offset
            /\ walk'.order = walk.order /\ walk'.got = walk.got
            /\ walk'.rest = walk.rest \ {x}
            /\ walk'.kept = IF Listed(x) THEN walk.kept \cup {x} ELSE walk.kept
    BY <1>0, <1>5, FilterStep
  <2>2. /\ fleet' = fleet /\ feed' = feed /\ newer' = newer /\ owed' = owed
        /\ walk.at = "filter"
    BY <1>5 DEF Filter, store
  <2> SUFFICES ASSUME NEW m \in owed \ walk.got
               PROVE  /\ m \in walk'.rest \cup walk'.kept
                      /\ walk.order[m] \cap feed \subseteq newer[m]
                      /\ walk.offset <= Cardinality(PageFront(m)')
    BY <2>1, <2>2 DEF WalkIsOnTime
  <2>3. /\ m \in walk.rest \cup walk.kept
        /\ walk.order[m] \cap feed \subseteq newer[m]
        /\ walk.offset <= Cardinality(PageFront(m))
    BY <1>0, <2>2 DEF WalkIsOnTime
  <2>4. m \in walk'.rest \cup walk'.kept
    BY <1>0, <2>1, <2>3 DEF OwedIsVisible, Visible
  <2>5. PageFront(m) \subseteq PageFront(m)'
    BY <2>1, <2>2 DEF PageFront, Visible, Listed
  <2>6. /\ PageFront(m) \in SUBSET MAC /\ PageFront(m)' \in SUBSET MAC
        /\ walk.offset \in Nat
    <3>1. m \in MAC
      BY <1>a
    <3> QED
      BY <1>0, <2>1, <3>1, WalkTyped DEF PageFront, Orders
  <2>7. Cardinality(PageFront(m)) <= Cardinality(PageFront(m)')
    BY <2>5, <2>6, Counting
  <2> QED
    BY <2>3, <2>4, <2>6, <2>7, Counting
<1>6. CASE Respond
  <2>1. /\ fleet' = fleet /\ feed' = feed /\ newer' = newer
        /\ owed' = owed \ BehindLeavers
        /\ walk.at = "filter" /\ walk.rest = {}
    BY <1>6 DEF Respond, store
  <2>2. /\ walk'.at \in {"over", "list"}
        /\ walk'.offset = walk.offset + Limit
        /\ walk.got \subseteq walk'.got
        /\ \A m \in walk.kept \ walk'.got :
               walk.offset <= Place(m) =>
                   walk'.at = "list" /\ walk.offset + Limit <= Place(m)
    BY <1>0, <1>6, RespondStep
  <2> SUFFICES ASSUME NEW m \in owed' \ walk'.got
               PROVE  /\ walk'.at = "list"
                      /\ walk.offset + Limit <= Cardinality(Front(m)')
    BY <2>2 DEF WalkIsOnTime
  <2>3. /\ m \in owed \ walk.got /\ m \notin BehindLeavers /\ m \in MAC
    BY <1>a, <2>1, <2>2
  <2>4. /\ m \in walk.kept
        /\ walk.order[m] \cap feed \subseteq newer[m]
        /\ walk.offset <= Cardinality(PageFront(m))
    BY <1>0, <2>1, <2>3 DEF WalkIsOnTime
  <2> DEFINE front == walk.order[m] \cap walk.kept
  <2>5. PageFront(m) = front
    BY <2>1 DEF PageFront
  <2>6. walk'.at = "list" /\ walk.offset + Limit <= Cardinality(front)
    BY <2>2, <2>4, <2>5 DEF Place
  <2>7. front \subseteq Visible
    BY <2>3, <2>4 DEF BehindLeavers
  <2>8. front \subseteq Front(m) /\ Front(m)' = Front(m)
    BY <1>a, <2>1, <2>4, <2>7 DEF Front, Visible, Listed
  <2>9. /\ front \in SUBSET MAC /\ Front(m) \in SUBSET MAC
        /\ walk.offset + Limit \in Nat
    BY <1>0, <1>a, <2>8, WalkTyped, BoundAssumption DEF Front, Visible
  <2>10. Cardinality(front) <= Cardinality(Front(m))
    BY <2>8, <2>9, Counting
  <2> QED
    BY <2>6, <2>8, <2>9, <2>10, Counting
<1>7. CASE Restart
  BY <1>7 DEF Restart, WalkIsOnTime
<1>8. CASE Prune
  <2>1. watcher.known \in SUBSET MAC
    BY <1>0 DEF TypeOK
  <2> QED
    BY <1>2, <1>8, <2>1 DEF Prune
<1>9. ASSUME NEW m \in MAC, Dismiss(m) PROVE WalkIsOnTime'
  BY <1>2, <1>9 DEF Dismiss
<1>10. ASSUME NEW h \in Handler, Note(h) PROVE WalkIsOnTime'
  BY <1>10, NoteOnTime
<1> QED
  BY <1>1, <1>3, <1>4, <1>5, <1>6, <1>7, <1>8, <1>9, <1>10
     DEF Next, vars, store, Discover, ChangeFleet, Reload, Snapshot

-----------------------------------------------------------------------------
(* The theorems                                                             *)

\* The feed stays bounded, ordered and complete at its front, and a walk
\* through it on time.
THEOREM Invariant == Spec => []IInv
<1>1. Init => IInv
  <2> SUFFICES ASSUME Init PROVE IInv
    OBVIOUS
  <2>1. /\ feed = {} /\ seen = {} /\ owed = {} /\ walk = NoWalk
        /\ newer = NoOrder /\ after = NoOrder
    BY DEF Init
  <2>2. Cardinality({}) = 0 /\ {} \cup {} = {} /\ 0 <= MaxEntries /\ NoOrder \in Orders
    BY FS_EmptySet, BoundAssumption DEF NoOrder, Orders
  <2>3. /\ NoWalk.at = "over" /\ NoWalk.rest = {} /\ NoWalk.kept = {}
        /\ NoWalk.order = NoOrder
        /\ NoWalk \in [at : {"over", "list", "filter"}, offset : 0..(MaxEntries + Limit),
                       order : Orders, rest : SUBSET MAC, kept : SUBSET MAC,
                       got : SUBSET MAC]
    BY <2>2, BoundAssumption DEF NoWalk
  <2>4. TypeOK
    <3>1. Cardinality(walk.rest \cup walk.kept) <= MaxEntries /\ Cardinality(feed) <= MaxEntries
      BY <2>1, <2>2, <2>3
    <3> QED
      BY <2>1, <2>2, <2>3, <3>1 DEF Init, TypeOK
  <2> QED
    BY <2>1, <2>3, <2>4 DEF IInv, FeedIsOrdered, KeepsTheNewest, OwedIsVisible, ListIsSound,
       FeedIsTotal, WalkIsOnTime, NoOrder
<1>2. IInv /\ [Next]_vars => IInv'
  <2> SUFFICES ASSUME IInv, [Next]_vars PROVE IInv'
    OBVIOUS
  <2>1. TypeOK'
    BY TypeStep DEF IInv
  <2> QED
    BY <2>1, OrderStep, TotalStep, OwedStep, ListStep, OnTimeStep DEF IInv
<1> QED
  BY <1>1, <1>2, PTL DEF Spec

\* The store never holds more MACs than its bound, and a list made of it
\* never has more.
THEOREM TypeCorrect == Spec => []TypeOK
<1>1. IInv => TypeOK
  BY DEF IInv
<1> QED
  BY <1>1, Invariant, PTL

\* Whatever is evicted, pruned and dismissed, the bounded feed is the front of
\* the unbounded one, in the same order.
THEOREM FeedKeepsTheNewest == Spec => []KeepsTheNewest
<1>1. IInv => KeepsTheNewest
  BY DEF IInv
<1> QED
  BY <1>1, Invariant, PTL

\* A store that is full can always give up an entry, and there is only one that
\* it may: evictOldestLocked finds the same whatever order it looks in.
THEOREM OneIsTheOldest ==
    Spec => [](feed # {} => \E e \in feed : Oldest(e) /\ \A d \in feed : Oldest(d) => d = e)
<1>1. IInv => (feed # {} => \E e \in feed : Oldest(e) /\ \A d \in feed : Oldest(d) => d = e)
  BY OldestExists DEF IInv
<1> QED
  BY <1>1, Invariant, PTL

\* A client that reads the feed page by page is shown every MAC that was
\* listed when it began and has not moved since.
THEOREM WalksMissNothing == Spec => []WalkMissesNothing
<1>1. IInv => WalkMissesNothing
  BY DEF IInv, WalkIsOnTime, WalkMissesNothing
<1> QED
  BY <1>1, Invariant, PTL

=============================================================================
