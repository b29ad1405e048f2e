----------------------------- MODULE AtomicFleet -----------------------------
(***************************************************************************)
(* What the fleet store promises its callers: a map that every request     *)
(* reads and changes in one step, and a file that equals the map after     *)
(* every change.  No locks, no separate mutate, save and roll back.        *)
(***************************************************************************)
EXTENDS FleetData

CONSTANTS
    Proc,       \* callers of the store: API handlers, the admin page, SIGHUP
    Down        \* the value of live while the program is not running

VARIABLES
    live,       \* the map the program serves, or Down
    disk,       \* fleet.yaml: a map, or Broken
    asked,      \* asked[p]: the request p waits on, or None
    answer      \* answer[p]: the outcome of p's last request

vars == <<live, disk, asked, answer>>

Init ==
    /\ disk \in Machines
    /\ live = disk
    /\ asked = [p \in Proc |-> None]
    /\ answer = [p \in Proc |-> "none"]

Answers(p, a) ==
    /\ asked' = [asked EXCEPT ![p] = None]
    /\ answer' = [answer EXCEPT ![p] = a]

\* A request arrives.  An update without If-Match is refused at once.
Ask(p) ==
    /\ live # Down
    /\ asked[p] = None
    /\ \/ Answers(p, "required")
       \/ \E r \in Request :
              /\ asked' = [asked EXCEPT ![p] = r]
              /\ answer' = [answer EXCEPT ![p] = "none"]
    /\ UNCHANGED <<live, disk>>

\* The comparison refuses the request, or the save fails: nothing changes.
Refuse(p) ==
    LET r == asked[p] IN
    /\ r \in Change
    /\ \E a \in {Refusal(r, live[r.mac]), "failed"} \ {"none"} : Answers(p, a)
    /\ UNCHANGED <<live, disk>>

\* The request takes effect on the map and on the file together.
Commit(p) ==
    LET r == asked[p] IN
    /\ r \in Change
    /\ Refusal(r, live[r.mac]) = "none"
    /\ live' = Put(live, r.mac, r.entry)
    /\ disk' = live'
    /\ Answers(p, "saved")

\* A reload takes the whole file, or nothing when the file is broken.
Reload(p) ==
    /\ asked[p] = ReloadRequest
    /\ UNCHANGED disk
    /\ \/ disk = Broken /\ UNCHANGED live /\ Answers(p, "failed")
       \/ disk # Broken /\ live' = disk /\ Answers(p, "reloaded")

Serve(p) == live # Down /\ (Refuse(p) \/ Commit(p) \/ Reload(p))

\* An operator edits the file by hand.
Edit ==
    /\ disk' \in Machines \cup {Broken}
    /\ UNCHANGED <<live, asked, answer>>

\* The program stops, and every request in flight is lost.
Stop ==
    /\ live # Down
    /\ live' = Down
    /\ asked' = [p \in Proc |-> None]
    /\ answer' = [p \in Proc |-> "none"]
    /\ UNCHANGED disk

Start ==
    /\ live = Down
    /\ disk # Broken
    /\ live' = disk
    /\ UNCHANGED <<disk, asked, answer>>

Next ==
    \/ \E p \in Proc : Ask(p) \/ Serve(p)
    \/ Edit
    \/ Stop
    \/ Start

Spec == Init /\ [][Next]_vars

=============================================================================
