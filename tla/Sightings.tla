------------------------------ MODULE Sightings ------------------------------
(***************************************************************************)
(* The discovery feed (internal/sightings): the MACs outside the fleet     *)
(* that have sent a firmware DHCP request, bounded in number, the one seen *)
(* last first.  BuildOffer notes them, the SIGHUP watcher prunes them, the *)
(* API lists them page by page and dismisses them.                         *)
(*                                                                         *)
(* Every access of the store and of the fleet is one critical section and  *)
(* one action.  A handler looks the MAC up before it notes it, and a       *)
(* request for a page looks every listed MAC up: the fleet changes in      *)
(* between.  No two notes carry the same time (Note reads a clock of       *)
(* nanoseconds under the lock), and of the times only their order matters; *)
(* what else an entry carries (architecture, vendor class, count) is left  *)
(* out.                                                                    *)
(***************************************************************************)
EXTENDS Naturals, FiniteSets

CONSTANTS
    MAC,            \* canonical MAC addresses
    Members,        \* the kinds of entry the operator writes into fleet.yaml
    Handler,        \* DHCP handlers that can be in flight at once
    MaxEntries,     \* how many MACs the store keeps
    Limit,          \* ?limit= of the client that reads the feed
    None            \* the handler is idle

ASSUME MACAssumption == IsFiniteSet(MAC)
ASSUME MembersAssumption == Members \subseteq {"named", "nameless"}
ASSUME BoundAssumption == MaxEntries \in Nat \ {0} /\ Limit \in Nat \ {0}
ASSUME NoneAssumption == None \notin MAC

VARIABLES
    fleet,      \* fleet[m]: m's entry in the fleet, or "absent"
    feed,       \* the keys of Store.entries
    newer,      \* newer[m]: the entries with a later lastSeen than m's
    note,       \* note[h]: the MAC that h found unknown and is about to note
    watcher,    \* the SIGHUP watcher, and the MACs it prunes by
    walk,       \* a client that reads the feed, one page after the other
    \* History, read by no action:
    seen,       \* what the feed would be if it were not bounded
    after,      \* after[m]: the MACs of seen that were noted after m
    owed        \* the MACs that the walk must show

store == <<feed, newer, seen, after>>
vars == <<fleet, store, note, watcher, walk, owed>>

\* An order of MACs: who comes before a MAC in a list that is sorted by
\* last-seen, the newest first.
Orders == [MAC -> SUBSET MAC]
NoOrder == [m \in MAC |-> {}]

\* The order R among the members of S.
Within(R, S) == [m \in MAC |-> IF m \in S THEN R[m] \cap S ELSE {}]

\* handleAPIDiscovered lists a MAC if its entry in the fleet has no name.
Listed(m) == fleet[m] # "named"

\* "over": no walk, or the last page has been read.  "list": the next page is
\* to be requested.  "filter": the handler has listed the store, in this
\* order, and looks up the rest; kept: those it has found listed.
NoWalk == [at |-> "over", offset |-> 0, order |-> NoOrder, rest |-> {}, kept |-> {},
           got |-> {}]

TypeOK ==
    /\ fleet \in [MAC -> {"absent"} \cup Members]
    /\ feed \subseteq MAC /\ Cardinality(feed) <= MaxEntries
    /\ newer \in Orders
    /\ note \in [Handler -> MAC \cup {None}]
    /\ watcher \in [at : {"wait", "snapshot", "prune"}, known : SUBSET MAC]
    /\ walk \in [at : {"over", "list", "filter"}, offset : 0..(MaxEntries + Limit),
                 order : Orders, rest : SUBSET MAC, kept : SUBSET MAC, got : SUBSET MAC]
    /\ Cardinality(walk.rest \cup walk.kept) <= MaxEntries
    /\ seen \subseteq MAC
    /\ after \in Orders
    /\ owed \subseteq MAC

\* The feed and the watcher as the program starts.
Init ==
    /\ fleet \in [MAC -> {"absent"} \cup Members]
    /\ feed = {} /\ newer = NoOrder
    /\ note = [h \in Handler |-> None]
    /\ watcher = [at |-> "wait", known |-> {}]
    /\ walk = NoWalk
    /\ seen = {} /\ after = NoOrder
    /\ owed = {}

-----------------------------------------------------------------------------
(***************************************************************************)
(* History.  A walk owes its client the MACs that were listed as it began  *)
(* and that have stayed where they were: a MAC seen again moves to the     *)
(* front, one evicted is gone, and when one leaves the list by another     *)
(* way, those behind it move up, past the place where the walk is.         *)
(***************************************************************************)
Visible == {m \in feed : Listed(m)}

MovesUp == owed' = IF Visible \ Visible' = {} THEN owed ELSE {}

\* A page may count a MAC that has left the list since the store was listed:
\* those behind it have moved up as well.
BehindLeavers == {m \in walk.kept : (walk.order[m] \cap walk.kept) \ Visible # {}}

-----------------------------------------------------------------------------
(***************************************************************************)
(* BuildOffer: a MAC without a name is unknown ...                         *)
(***************************************************************************)
Discover(h, m) ==
    /\ note[h] = None
    /\ fleet[m] # "named"
    /\ note' = [note EXCEPT ![h] = m]
    /\ UNCHANGED <<fleet, store, watcher, walk, owed>>

\* Mutant of Evicts: nothing is evicted.
EvictsNever(m) == FALSE

\* A store that is full and does not have m gives up an entry ...
Evicts(m) == m \notin feed /\ Cardinality(feed) >= MaxEntries

\* ... that everyone else is newer than (evictOldestLocked).
Oldest(e) == e \in feed /\ feed \ {e} \subseteq newer[e]

\* Mutant of Stamped: a MAC that is in the store keeps the time of its first
\* sighting.
StampedOnce(S, m) ==
    IF m \in feed THEN newer
    ELSE [b \in MAC |-> IF b \in S \ {m} THEN (newer[b] \cap S) \cup {m} ELSE {}]

\* The entries S by last-seen once m is noted: m is newer than the others.
Stamped(S, m) ==
    [b \in MAC |-> IF b \in S \ {m} THEN (newer[b] \cap S) \cup {m} ELSE {}]

\* ... and is noted, whatever the fleet says of it by now.
Note(h) ==
    LET m == note[h] IN
    /\ m # None
    /\ \/ ~Evicts(m) /\ feed' = feed \cup {m}
       \/ Evicts(m) /\ \E e \in feed : Oldest(e) /\ feed' = (feed \ {e}) \cup {m}
    /\ newer' = Stamped(feed', m)
    /\ note' = [note EXCEPT ![h] = None]
    /\ seen' = seen \cup {m}
    /\ after' = [b \in MAC |-> IF b \in seen \ {m} THEN after[b] \cup {m} ELSE {}]
    /\ owed' = (owed \ {m}) \cap feed'
    /\ UNCHANGED <<fleet, watcher, walk>>

-----------------------------------------------------------------------------
(***************************************************************************)
(* The fleet.  A create, update or delete by the API leaves the feed       *)
(* alone.  After a reload by SIGHUP the watcher copies the map and drops   *)
(* every MAC that is in the copy, with a name or without.                  *)
(***************************************************************************)
ChangeFleet(m) ==
    /\ \E e \in {"absent"} \cup Members : fleet' = [fleet EXCEPT ![m] = e]
    /\ UNCHANGED <<store, note, watcher, walk>>
    /\ MovesUp

Reload ==
    /\ watcher.at = "wait"
    /\ fleet' \in [MAC -> {"absent"} \cup Members]
    /\ watcher' = [watcher EXCEPT !.at = "snapshot"]
    /\ UNCHANGED <<store, note, walk>>
    /\ MovesUp

Snapshot ==
    /\ watcher.at = "snapshot"
    /\ watcher' = [at |-> "prune", known |-> {m \in MAC : fleet[m] # "absent"}]
    /\ UNCHANGED <<fleet, store, note, walk, owed>>

\* The entries M are deleted from the store.
Drop(M) ==
    /\ feed' = feed \ M /\ newer' = Within(newer, feed')
    /\ seen' = seen \ M /\ after' = Within(after, seen')
    /\ UNCHANGED fleet
    /\ MovesUp

\* Store.RetainOnly.
Prune ==
    /\ watcher.at = "prune"
    /\ Drop(watcher.known)
    /\ watcher' = [at |-> "wait", known |-> {}]
    /\ UNCHANGED <<note, walk>>

\* Store.Forget, for DELETE /discovered/{mac}.
Dismiss(m) ==
    /\ m \in feed
    /\ Drop({m})
    /\ UNCHANGED <<note, watcher, walk>>

-----------------------------------------------------------------------------
(***************************************************************************)
(* GET /discovered?limit=&offset=: the store is listed under its lock,     *)
(* then each MAC is looked up, then the page is cut out of what is left.   *)
(***************************************************************************)
\* Store.List: the entries, to be taken by last-seen, the newest first.
Listing(w) == [w EXCEPT !.at = "filter", !.order = newer, !.rest = feed]

BeginWalk ==
    /\ walk.at = "over"
    /\ walk' = Listing(NoWalk)
    /\ owed' = Visible
    /\ UNCHANGED <<fleet, store, note, watcher>>

NextPage ==
    /\ walk.at = "list"
    /\ walk' = Listing(walk)
    /\ UNCHANGED <<fleet, store, note, watcher, owed>>

Filter ==
    /\ walk.at = "filter"
    /\ \E m \in walk.rest :
           /\ walk.order[m] \cap walk.rest = {}
           /\ walk' = [walk EXCEPT !.rest = @ \ {m},
                                   !.kept = IF Listed(m) THEN @ \cup {m} ELSE @]
    /\ UNCHANGED <<fleet, store, note, watcher, owed>>

\* The window of the page, clamped to the list.
Lower(offset, total) == IF offset > total THEN total ELSE offset

\* Mutant of Upper: the window stops before its last element.
UpperExclusive(lo, total) == IF lo + Limit > total THEN total ELSE lo + Limit - 1

Upper(lo, total) == IF lo + Limit > total THEN total ELSE lo + Limit

\* The place of m in the filtered list, from 0.
Place(m) == Cardinality(walk.order[m] \cap walk.kept)

\* The answer, and the client's next offset: it goes on until it has reached
\* the total it was told.
Respond ==
    LET total == Cardinality(walk.kept)
        lo == Lower(walk.offset, total)
        hi == Upper(lo, total)
        page == {m \in walk.kept : lo <= Place(m) /\ Place(m) < hi}
        next == walk.offset + Limit
    IN  /\ walk.at = "filter"
        /\ walk.rest = {}
        /\ walk' = [NoWalk EXCEPT !.at = IF next >= total THEN "over" ELSE "list",
                                  !.offset = next, !.got = walk.got \cup page]
        /\ owed' = owed \ BehindLeavers
        /\ UNCHANGED <<fleet, store, note, watcher>>

\* The program starts again: the feed is gone, and so is the walk.
Restart ==
    /\ fleet' \in [MAC -> {"absent"} \cup Members]
    /\ feed' = {} /\ newer' = NoOrder
    /\ note' = [h \in Handler |-> None]
    /\ watcher' = [at |-> "wait", known |-> {}]
    /\ walk' = NoWalk
    /\ seen' = {} /\ after' = NoOrder
    /\ owed' = {}

-----------------------------------------------------------------------------
Next ==
    \/ \E h \in Handler : (\E m \in MAC : Discover(h, m)) \/ Note(h)
    \/ \E m \in MAC : ChangeFleet(m) \/ Dismiss(m)
    \/ Reload \/ Snapshot \/ Prune
    \/ BeginWalk \/ NextPage \/ Filter \/ Respond
    \/ Restart

Spec == Init /\ [][Next]_vars

-----------------------------------------------------------------------------
(* Properties                                                               *)

\* The bounded feed is the front of the unbounded one: whatever is noted,
\* dismissed and pruned, the feed has every MAC that was seen after one of its
\* entries, in the order they were seen (sightings.go:23 "the
\* least-recently-seen entry is evicted").
KeepsTheNewest == feed \subseteq seen /\ \A m \in feed : newer[m] = after[m]

\* A client that reads the feed page by page is shown every MAC that was
\* listed when it began and has not moved since, although new MACs push the
\* others back and the oldest are evicted between two pages.
WalkMissesNothing == walk.at = "over" => owed \subseteq walk.got

=============================================================================
