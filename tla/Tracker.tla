------------------------------- MODULE Tracker --------------------------------
(***************************************************************************)
(* The status tracker of internal/fleet/status.go.  A box goes through a   *)
(* network boot and an installation; the handler that serves a stage notes *)
(* the stage's event after it has answered, so that notes arrive late and  *)
(* out of order.  Snapshot, behind the status pages and the machines API,  *)
(* joins the tracker with the fleet, which it reads twice.                 *)
(***************************************************************************)
EXTENDS Naturals, FiniteSets

CONSTANTS
    MAC,        \* canonical MAC addresses
    Slot,       \* handlers that have answered and not yet noted
    Stall,      \* stalledAfter, in clock ticks
    None,       \* a MAC the tracker has not seen
    Idle        \* a free slot; no snapshot in progress

ASSUME StallAssumption == Stall \in Nat \ {0}

(***************************************************************************)
(* The events.  firmware-fetched is not among them: it is declared, and no *)
(* handler ever notes it.                                                  *)
(***************************************************************************)
Ladder == <<"firmware-dhcp", "ipxe-dhcp", "user-data-fetched", "installer-done">>

Event == {"firmware-dhcp", "ipxe-dhcp", "user-data-fetched",
          "installer-done", "installer-failed"}

\* rank: installer-failed is not on the ladder.
Rank(e) == IF e = "installer-failed" THEN 0
           ELSE CHOOSE i \in DOMAIN Ladder : Ladder[i] = e

Finished == {"installer-done", "installer-failed"}

Status == [state : Event, age : 0..Stall]

ASSUME NoneAssumption == None \notin Status
ASSUME IdleAssumption == Idle \notin [mac : MAC, event : Event]

VARIABLES
    members,    \* the MACs with an entry in the fleet
    status,     \* status[m]: State and the ticks since LastSeen, or None
    note,       \* note[s]: the event a handler has yet to note
    snap,       \* the snapshot in progress: the MACs of its first read, or Idle
    rows,       \* rows[m]: how many rows of the last snapshot are m's
    flagged,    \* the MACs with the stalled flag in the last snapshot
    box,        \* box[m]: the last event m's box caused since its power-on
    \* History, read by no action:
    far,        \* far[m]: the furthest event caused since the program started
    stayed      \* the MACs that were members throughout the snapshot

vars == <<members, status, note, snap, rows, flagged, box, far, stayed>>
history == <<far, stayed>>

TypeOK ==
    /\ members \subseteq MAC
    /\ status \in [MAC -> Status \cup {None}]
    /\ note \in [Slot -> [mac : MAC, event : Event] \cup {Idle}]
    /\ snap \in (SUBSET MAC) \cup {Idle}
    /\ rows \in [MAC -> 0..2]
    /\ flagged \subseteq MAC
    /\ box \in [MAC -> Event \cup {"off"}]
    /\ far \in [MAC -> Event \cup {"off"}]
    /\ stayed \subseteq MAC

Init ==
    /\ members \in SUBSET MAC
    /\ status = [m \in MAC |-> None]
    /\ note = [s \in Slot |-> Idle]
    /\ snap = Idle
    /\ rows = [m \in MAC |-> 0]
    /\ flagged = {}
    /\ box = [m \in MAC |-> "off"]
    /\ far = [m \in MAC |-> "off"]
    /\ stayed = {}

-----------------------------------------------------------------------------
(***************************************************************************)
(* The boxes.  An installed system reports done from the installer or from *)
(* its first boot from disk, and may repeat the report; a box that fails   *)
(* keeps its power.                                                        *)
(***************************************************************************)
Follows(e) ==
    CASE e = "off" -> {"firmware-dhcp", "installer-done"}
      [] e = "firmware-dhcp" -> {"firmware-dhcp", "ipxe-dhcp"}
      [] e = "ipxe-dhcp" -> {"user-data-fetched"}
      [] e = "user-data-fetched" -> {"user-data-fetched", "installer-done", "installer-failed"}
      [] e = "installer-done" -> {"installer-done"}
      [] e = "installer-failed" -> {}

\* A failure is remembered for good, since what follows it is a new ladder.
Further(e, f) ==
    IF "installer-failed" \in {e, f} THEN "installer-failed"
    ELSE IF e = "off" \/ Rank(f) > Rank(e) THEN f ELSE e

\* A handler answers the box, and will note the event.
Cause(m, s) ==
    /\ note[s] = Idle
    /\ \E e \in Follows(box[m]) :
           /\ box' = [box EXCEPT ![m] = e]
           /\ note' = [note EXCEPT ![s] = [mac |-> m, event |-> e]]
           /\ far' = [far EXCEPT ![m] = Further(@, e)]
    /\ UNCHANGED <<members, status, snap, rows, flagged, stayed>>

PowerOff(m) ==
    /\ box[m] # "off"
    /\ box' = [box EXCEPT ![m] = "off"]
    /\ UNCHANGED <<members, status, note, snap, rows, flagged, far, stayed>>

-----------------------------------------------------------------------------
\* Mutant of Advance: the event noted last wins.
AdvanceAlways(state, e) == e

\* The state after e: an event below the current rung changes nothing, a
\* failure always takes the slot, and anything replaces a failure.
Advance(state, e) ==
    IF e = "installer-failed" \/ Rank(e) >= Rank(state) THEN e ELSE state

\* Mutant of Note: a failure is not special, and only a higher rung counts,
\* so that a failure noted first leaves an empty state.
NoteStrictly(s) ==
    LET m == note[s].mac  e == note[s].event IN
    /\ note[s] # Idle
    /\ snap = Idle
    /\ status' = [status EXCEPT ![m] =
           [state |-> IF @ = None THEN IF Rank(e) > 0 THEN e ELSE "off"
                      ELSE IF Rank(e) > Rank(@.state) THEN e ELSE @.state,
            age |-> 0]]
    /\ note' = [note EXCEPT ![s] = Idle]
    /\ UNCHANGED <<members, snap, rows, flagged, box, far, stayed>>

\* Note takes the tracker's lock, which a snapshot holds for reading.
Note(s) ==
    LET m == note[s].mac  e == note[s].event IN
    /\ note[s] # Idle
    /\ snap = Idle
    /\ status' = [status EXCEPT ![m] =
           [state |-> IF @ = None THEN e ELSE Advance(@.state, e), age |-> 0]]
    /\ note' = [note EXCEPT ![s] = Idle]
    /\ UNCHANGED <<members, snap, rows, flagged, box, far, stayed>>

\* LastEvent, which the proxyDHCP guard and the API ask for.
LastEvent(m) == IF status[m] = None THEN "off" ELSE status[m].state

IsStalled(r) == r.state \notin Finished /\ r.age = Stall

Seen == {m \in MAC : status[m] # None}

\* The first read of the fleet: one row for every member.
BeginSnapshot ==
    /\ snap = Idle
    /\ snap' = members
    /\ stayed' = members
    /\ UNCHANGED <<members, status, note, rows, flagged, box, far>>

\* Mutant of EndSnapshot: the second loop does not leave out the members.
EndSnapshotAll ==
    LET Count(b) == IF b THEN 1 ELSE 0 IN
    /\ snap # Idle
    /\ rows' = [m \in MAC |-> Count(m \in snap) + Count(m \in Seen)]
    /\ flagged' = {m \in Seen : IsStalled(status[m])}
    /\ snap' = Idle
    /\ UNCHANGED <<members, status, note, box, history>>

\* The second read: one more row for every MAC seen that is not in it.
EndSnapshot ==
    LET others == Seen \ members
        Count(b) == IF b THEN 1 ELSE 0
    IN
    /\ snap # Idle
    /\ rows' = [m \in MAC |-> Count(m \in snap) + Count(m \in others)]
    /\ flagged' = {m \in Seen \cap (snap \cup others) : IsStalled(status[m])}
    /\ snap' = Idle
    /\ UNCHANGED <<members, status, note, box, history>>

-----------------------------------------------------------------------------
\* API requests and reloads change the fleet whenever they like.
ChangeFleet ==
    /\ members' \in SUBSET MAC
    /\ stayed' = stayed \cap members'
    /\ UNCHANGED <<status, note, snap, rows, flagged, box, far>>

Older(age) == IF age < Stall THEN age + 1 ELSE age

Tick ==
    /\ status' = [m \in MAC |-> IF status[m] = None THEN None
                                ELSE [status[m] EXCEPT !.age = Older(@)]]
    /\ UNCHANGED <<members, note, snap, rows, flagged, box, far, stayed>>

\* The program restarts: the tracker and the handlers are gone.
Restart ==
    /\ status' = [m \in MAC |-> None]
    /\ note' = [s \in Slot |-> Idle]
    /\ snap' = Idle
    /\ rows' = [m \in MAC |-> 0]
    /\ flagged' = {}
    /\ far' = [m \in MAC |-> "off"]
    /\ stayed' = {}
    /\ UNCHANGED <<members, box>>

Next ==
    \/ \E m \in MAC, s \in Slot : Cause(m, s)
    \/ \E m \in MAC : PowerOff(m)
    \/ \E s \in Slot : Note(s)
    \/ BeginSnapshot
    \/ EndSnapshot
    \/ ChangeFleet
    \/ Tick
    \/ Restart

Spec == Init /\ [][Next]_vars

-----------------------------------------------------------------------------
(***************************************************************************)
(* The properties.                                                         *)
(***************************************************************************)

\* m's notes have all been made.
AtRest(m) == \A s \in Slot : note[s] = Idle \/ note[s].mac # m

\* In whatever order the notes of a box arrive, once they have all arrived
\* the tracker shows the furthest event the box has caused since the program
\* started, unless an installation failed.
FurthestAtRest ==
    \A m \in MAC : AtRest(m) /\ far[m] # "installer-failed" => LastEvent(m) = far[m]

\* A machine that is in the fleet for as long as a snapshot takes has one
\* row in it, whatever happens to the rest of the fleet; and once its notes
\* have arrived, without a failure, the row is not flagged if the last thing
\* the box did was to finish, and if it has not finished yet the row is
\* flagged exactly if it has been silent for long (README.md:584 "Machines
\* stuck > 5 minutes get a stalled flag").
MembersListedOnce ==
    [][EndSnapshot => \A m \in stayed :
        /\ rows'[m] = 1
        /\ status[m] # None /\ AtRest(m) /\ far[m] # "installer-failed" =>
              /\ box[m] = "installer-done" => m \notin flagged'
              /\ far[m] # "installer-done" =>
                    (m \in flagged' <=> status[m].age = Stall)]_vars

=============================================================================
