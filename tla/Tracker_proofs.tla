---------------------------- MODULE Tracker_proofs ---------------------------
(***************************************************************************)
(* Proofs about Tracker, for every set of machines and of handlers in      *)
(* flight.  That the tracker ends up at the furthest event is not          *)
(* inductive: while notes are on their way, the furthest event is either   *)
(* in the State slot already or in one of them, and nothing on the way or  *)
(* in the slot is further.                                                 *)
(***************************************************************************)
EXTENDS Tracker, TLAPS

Rung == {"firmware-dhcp", "ipxe-dhcp", "user-data-fetched", "installer-done"}

\* The tracker has e in its State slot for m, or a handler will tell it of e.
Shows(m, e) == status[m] # None /\ status[m].state = e
Tells(s, m, e) == note[s] # Idle /\ note[s].mac = m /\ note[s].event = e
Known(m, e) == Shows(m, e) \/ \E s \in Slot : Tells(s, m, e)

\* Without a failure, what is known of m is not further than its furthest
\* event, which is itself known.
Coming(m) ==
    far[m] # "installer-failed" =>
        /\ \A e \in Event : Known(m, e) =>
               far[m] \in Rung /\ e \in Rung /\ Rank(e) <= Rank(far[m])
        /\ far[m] # "off" => Known(m, far[m])

\* A machine that stayed is in both reads of the snapshot in progress.
StayedIsRead == snap # Idle => stayed \subseteq snap \cap members

\* A box that has just finished has nothing further behind it.
DoneIsFurthest(m) ==
    box[m] = "installer-done" /\ far[m] # "off" =>
        far[m] \in {"installer-done", "installer-failed"}

IInv == TypeOK /\ StayedIsRead /\ \A m \in MAC : Coming(m) /\ DoneIsFurthest(m)

-----------------------------------------------------------------------------
\* The rungs of the ladder, in order.
LEMMA Ranks ==
    /\ Rank("installer-failed") = 0
    /\ Rank("firmware-dhcp") = 1
    /\ Rank("ipxe-dhcp") = 2
    /\ Rank("user-data-fetched") = 3
    /\ Rank("installer-done") = 4
<1>1. DOMAIN Ladder = 1..4
  BY DEF Ladder
<1>2. /\ Ladder[1] = "firmware-dhcp" /\ Ladder[2] = "ipxe-dhcp"
      /\ Ladder[3] = "user-data-fetched" /\ Ladder[4] = "installer-done"
  BY DEF Ladder
<1>3. \A i \in 1..4 : i = 1 \/ i = 2 \/ i = 3 \/ i = 4
  OBVIOUS
<1>4. \A i \in 1..4 : \A j \in DOMAIN Ladder : Ladder[j] = Ladder[i] <=> j = i
  BY <1>1, <1>2, <1>3
<1>5. \A i \in 1..4 : (CHOOSE j \in DOMAIN Ladder : Ladder[j] = Ladder[i]) = i
  BY <1>1, <1>4
<1> QED
  BY <1>2, <1>5 DEF Rank

\* Different rungs have different ranks, and only a failure has none.
LEMMA RungsDiffer ==
    /\ Event = Rung \cup {"installer-failed"}
    /\ \A e \in Rung : Rank(e) \in 1..4 /\ e # "off" /\ e # "installer-failed"
    /\ \A e, f \in Rung : Rank(e) = Rank(f) => e = f
  BY Ranks DEF Event, Rung

\* What a box causes is an event.
LEMMA FollowsEvents ==
    ASSUME NEW e \in Event \cup {"off"}
    PROVE  Follows(e) \subseteq Event
  BY DEF Follows, Event

\* The furthest of two events, one of which may be none, is one of them.
LEMMA FurtherIsOne ==
    ASSUME NEW e \in Event \cup {"off"}, NEW f \in Event
    PROVE  /\ Further(e, f) \in Event
           /\ Further(e, f) # "installer-failed" =>
                 /\ e # "installer-failed" /\ f \in Rung
                 /\ Further(e, f) \in {e, f}
                 /\ Rank(f) <= Rank(Further(e, f))
                 /\ e # "off" => Rank(e) <= Rank(Further(e, f))
<1>1. CASE "installer-failed" \in {e, f}
  BY <1>1, RungsDiffer DEF Further
<1>2. CASE "installer-failed" \notin {e, f}
  <2>1. f \in Rung /\ Rank(f) \in 1..4
    BY <1>2, RungsDiffer
  <2>2. CASE e = "off"
    BY <1>2, <2>1, <2>2, RungsDiffer DEF Further
  <2>3. CASE e # "off"
    <3>1. e \in Rung /\ Rank(e) \in 1..4
      BY <1>2, <2>3, RungsDiffer
    <3> QED
      BY <1>2, <2>1, <2>3, <3>1, RungsDiffer DEF Further
  <2> QED
    BY <2>2, <2>3
<1> QED
  BY <1>1, <1>2

\* The clock of an entry stays in its range.
LEMMA OlderAge == \A a \in 0..Stall : Older(a) \in 0..Stall
BY StallAssumption DEF Older

\* Every action keeps the types.
LEMMA TypeStep == TypeOK /\ [Next]_vars => TypeOK'
<1> SUFFICES ASSUME TypeOK, [Next]_vars PROVE TypeOK'
  OBVIOUS
<1> USE DEF TypeOK, history
<1>1. ASSUME NEW m \in MAC, NEW s \in Slot, Cause(m, s) PROVE TypeOK'
  <2>1. PICK e \in Follows(box[m]) :
          /\ box' = [box EXCEPT ![m] = e]
          /\ note' = [note EXCEPT ![s] = [mac |-> m, event |-> e]]
          /\ far' = [far EXCEPT ![m] = Further(@, e)]
    BY <1>1 DEF Cause
  <2>2. e \in Event
    BY FollowsEvents
  <2>3. Further(far[m], e) \in Event
    BY <2>2, FurtherIsOne
  <2> QED
    BY <1>1, <2>1, <2>2, <2>3 DEF Cause
<1>2. ASSUME NEW m \in MAC, PowerOff(m) PROVE TypeOK'
  BY <1>2 DEF PowerOff
<1>3. ASSUME NEW s \in Slot, Note(s) PROVE TypeOK'
  <2>1. note[s].mac \in MAC /\ note[s].event \in Event
    BY <1>3 DEF Note
  <2>2. 0 \in 0..Stall
    BY StallAssumption
  <2>3. \A m \in MAC : status[m] # None => Advance(status[m].state, note[s].event) \in Event
    BY <2>1 DEF Advance, Status
  <2> QED
    BY <1>3, <2>1, <2>2, <2>3 DEF Note, Status
<1>4. ASSUME BeginSnapshot PROVE TypeOK'
  BY <1>4 DEF BeginSnapshot
<1>5. ASSUME EndSnapshot PROVE TypeOK'
  BY <1>5 DEF EndSnapshot, Seen
<1>6. ASSUME ChangeFleet PROVE TypeOK'
  BY <1>6 DEF ChangeFleet
<1>7. ASSUME Tick PROVE TypeOK'
  <2>1. \A m \in MAC : status'[m] \in Status \cup {None}
    BY <1>7, OlderAge DEF Tick, Status
  <2> QED
    BY <1>7, <2>1 DEF Tick
<1>8. ASSUME Restart PROVE TypeOK'
  BY <1>8 DEF Restart
<1>9. CASE UNCHANGED vars
  BY <1>9 DEF vars
<1> QED
  BY <1>1, <1>2, <1>3, <1>4, <1>5, <1>6, <1>7, <1>8, <1>9 DEF Next

-----------------------------------------------------------------------------
\* A new event of a box is at least told, and moves the furthest event up.
LEMMA CauseStep ==
    ASSUME TypeOK, NEW n \in MAC, NEW s \in Slot, Cause(n, s), NEW m \in MAC, Coming(m)
    PROVE  Coming(m)'
<1> USE DEF TypeOK
<1>1. PICK e \in Follows(box[n]) :
        /\ note' = [note EXCEPT ![s] = [mac |-> n, event |-> e]]
        /\ far' = [far EXCEPT ![n] = Further(@, e)]
  BY DEF Cause
<1>2. e \in Event
  BY FollowsEvents
<1>3. note[s] = Idle /\ status' = status
  BY DEF Cause
<1>4. note'[s] # Idle
  BY <1>1, <1>3, <1>2, IdleAssumption
<1>5. \A f : Known(m, f)' <=> Known(m, f) \/ (m = n /\ f = e)
  BY <1>1, <1>3, <1>4 DEF Known, Shows, Tells
<1>6. CASE m # n
  BY <1>1, <1>5, <1>6 DEF Coming
<1>7. CASE m = n
  <2>1. far'[m] = Further(far[m], e) /\ far[m] \in Event \cup {"off"}
    BY <1>1, <1>7
  <2> SUFFICES ASSUME far'[m] # "installer-failed" PROVE Coming(m)'
    BY DEF Coming
  <2>2. /\ far[m] # "installer-failed" /\ e \in Rung
        /\ far'[m] \in {far[m], e} /\ Rank(e) <= Rank(far'[m])
        /\ far'[m] \in Event
        /\ far[m] # "off" => Rank(far[m]) <= Rank(far'[m])
    BY <1>2, <2>1, FurtherIsOne
  <2>3. far'[m] \in Rung /\ Rank(far'[m]) \in 1..4
    BY <2>2, RungsDiffer
  <2>4. ASSUME NEW f \in Event, Known(m, f)
        PROVE  f \in Rung /\ Rank(f) <= Rank(far'[m])
    <3>1. far[m] \in Rung /\ f \in Rung /\ Rank(f) <= Rank(far[m])
      BY <2>2, <2>4 DEF Coming
    <3> QED
      BY <2>2, <2>3, <3>1, RungsDiffer
  <2>5. \A f : f = far'[m] => Known(m, f)'
    <3>1. far'[m] = e \/ (far'[m] = far[m] /\ far[m] # "off")
      BY <2>2, <2>3, RungsDiffer
    <3>2. far'[m] = e \/ Known(m, far'[m])
      BY <2>2, <3>1 DEF Coming
    <3> QED
      BY <1>5, <1>7, <3>1, <3>2
  <2> QED
    BY <1>5, <2>2, <2>3, <2>4, <2>5 DEF Coming
<1> QED
  BY <1>6, <1>7

\* A note moves its event to the State slot, unless what is there is further.
LEMMA NoteStep ==
    ASSUME TypeOK, NEW s \in Slot, Note(s), NEW m \in MAC, Coming(m)
    PROVE  Coming(m)'
<1> USE DEF TypeOK
<1>0. PICK e : e = note[s].event
  OBVIOUS
<1>1. /\ note[s] # Idle /\ note[s].mac \in MAC /\ e \in Event
      /\ note' = [note EXCEPT ![s] = Idle] /\ far' = far
      /\ status' = [status EXCEPT ![note[s].mac] =
             [state |-> IF @ = None THEN e ELSE Advance(@.state, e), age |-> 0]]
  BY <1>0 DEF Note
<1>2. CASE m # note[s].mac
  <2>1. \A f : Known(m, f)' <=> Known(m, f)
    BY <1>1, <1>2 DEF Known, Shows, Tells
  <2> QED
    BY <1>1, <2>1 DEF Coming
<1>3. CASE m = note[s].mac
  <2>0. PICK new : new = IF status[m] = None THEN e ELSE Advance(status[m].state, e)
    OBVIOUS
  <2>1. status'[m] = [state |-> new, age |-> 0] /\ status'[m] # None
    <3>1. \A f \in Event : [state |-> f, age |-> 0] # None
      BY NoneAssumption, StallAssumption DEF Status
    <3>2. new \in Event
      BY <1>1, <2>0 DEF Advance, Status
    <3> QED
      BY <1>1, <1>3, <2>0, <3>1, <3>2
  <2>2. \A f : Known(m, f)' => f = new \/ Known(m, f)
    BY <1>1, <2>1 DEF Known, Shows, Tells
  <2>3. Known(m, new)'
    BY <2>1 DEF Known, Shows
  <2>4. \A f : Known(m, f) => Known(m, f)' \/ f = e \/ Shows(m, f)
    BY <1>0, <1>1 DEF Known, Tells
  <2>5. Known(m, e)
    BY <1>0, <1>1, <1>3 DEF Known, Tells
  <2> SUFFICES ASSUME far[m] # "installer-failed" PROVE Coming(m)'
    BY <1>1 DEF Coming
  <2>6. /\ far[m] \in Rung /\ e \in Rung /\ Rank(e) <= Rank(far[m])
        /\ Known(m, far[m])
    BY <1>1, <2>5, RungsDiffer DEF Coming
  <2>7. status[m] # None =>
          /\ Known(m, status[m].state)
          /\ status[m].state \in Rung /\ Rank(status[m].state) <= Rank(far[m])
    BY DEF Coming, Known, Shows, Status
  <2>8. new \in {e, status[m].state} /\ Known(m, new)
    BY <2>0, <2>5, <2>7 DEF Advance
  <2>9. far[m] = e \/ Shows(m, far[m]) => new = far[m]
    <3>1. CASE status[m] = None
      BY <2>0, <3>1 DEF Shows
    <3>2. CASE status[m] # None
      <4>1. Rank(e) \in 1..4 /\ Rank(status[m].state) \in 1..4 /\ e # "installer-failed"
        BY <2>6, <2>7, <3>2, RungsDiffer
      <4>2. CASE far[m] = e
        BY <2>0, <2>6, <2>7, <3>2, <4>1, <4>2 DEF Advance
      <4>3. CASE Shows(m, far[m])
        <5>1. status[m].state = far[m]
          BY <4>3 DEF Shows
        <5>2. Rank(e) = Rank(far[m]) => e = far[m]
          BY <2>6, RungsDiffer
        <5> QED
          BY <2>0, <2>6, <3>2, <4>1, <5>1, <5>2 DEF Advance
      <4> QED
        BY <4>2, <4>3
    <3> QED
      BY <3>1, <3>2
  <2>10. \A f : f = far[m] => Known(m, f)'
    BY <2>3, <2>4, <2>6, <2>9
  <2>11. ASSUME NEW f \in Event, Known(m, f)'
         PROVE  f \in Rung /\ Rank(f) <= Rank(far[m])
    <3>1. Known(m, f)
      BY <2>2, <2>8, <2>11
    <3> QED
      BY <3>1, <2>6 DEF Coming
  <2> QED
    BY <1>1, <2>6, <2>10, <2>11 DEF Coming
<1> QED
  BY <1>2, <1>3

\* Nothing but a note and a box's own events changes what is known of it,
\* except a restart, which forgets everything.
LEMMA ComingStep ==
    ASSUME TypeOK, [Next]_vars, NEW m \in MAC, Coming(m)
    PROVE  Coming(m)'
<1>1. ASSUME NEW n \in MAC, NEW s \in Slot, Cause(n, s) PROVE Coming(m)'
  BY <1>1, CauseStep
<1>2. ASSUME NEW s \in Slot, Note(s) PROVE Coming(m)'
  BY <1>2, NoteStep
<1>3. CASE UNCHANGED <<status, note, far>>
  BY <1>3 DEF Coming, Known, Shows, Tells
<1>4. ASSUME Tick PROVE Coming(m)'
  <2>1. note' = note /\ far' = far
    BY <1>4 DEF Tick
  <2>2. \A e : Shows(m, e)' <=> Shows(m, e)
    <3>1. status'[m] = IF status[m] = None THEN None ELSE [status[m] EXCEPT !.age = Older(@)]
      BY <1>4 DEF Tick
    <3>2. status[m] # None => status'[m].state = status[m].state /\ status'[m] # None
      <4> SUFFICES ASSUME status[m] # None
                   PROVE  status'[m].state = status[m].state /\ status'[m] # None
        OBVIOUS
      <4>1. status[m] \in Status
        BY DEF TypeOK
      <4>2. status'[m] = [state |-> status[m].state, age |-> Older(status[m].age)]
        BY <3>1, <4>1 DEF Status
      <4>3. status'[m] \in Status
        BY <4>1, <4>2, OlderAge DEF Status
      <4> QED
        BY <4>2, <4>3, NoneAssumption
    <3> QED
      BY <3>1, <3>2 DEF Shows
  <2> QED
    BY <2>1, <2>2 DEF Coming, Known, Tells
<1>5. ASSUME Restart PROVE Coming(m)'
  BY <1>5 DEF Restart, Coming, Known, Shows, Tells
<1>6. ASSUME NEW n \in MAC, PowerOff(n) PROVE UNCHANGED <<status, note, far>>
  BY <1>6 DEF PowerOff
<1>7. ASSUME BeginSnapshot \/ EndSnapshot \/ ChangeFleet PROVE UNCHANGED <<status, note, far>>
  BY <1>7 DEF BeginSnapshot, EndSnapshot, ChangeFleet, history
<1>8. CASE UNCHANGED vars
  BY <1>8 DEF vars, Coming, Known, Shows, Tells
<1> QED
  BY <1>1, <1>2, <1>3, <1>4, <1>5, <1>6, <1>7, <1>8 DEF Next

\* A box finishes by causing the last rung, and a restart leaves nothing behind.
LEMMA DoneStep ==
    ASSUME TypeOK, [Next]_vars, NEW m \in MAC, DoneIsFurthest(m)
    PROVE  DoneIsFurthest(m)'
<1> USE DEF TypeOK, DoneIsFurthest
<1>1. ASSUME NEW n \in MAC, NEW s \in Slot, Cause(n, s) PROVE DoneIsFurthest(m)'
  <2>1. PICK e \in Follows(box[n]) :
          box' = [box EXCEPT ![n] = e] /\ far' = [far EXCEPT ![n] = Further(@, e)]
    BY <1>1 DEF Cause
  <2>2. CASE m # n
    BY <2>1, <2>2
  <2>3. CASE m = n
    <3> SUFFICES ASSUME e = "installer-done"
                 PROVE  far'[m] \in {"installer-done", "installer-failed"}
      BY <2>1, <2>3
    <3>1. far'[m] = Further(far[m], "installer-done") /\ far[m] \in Event \cup {"off"}
      BY <2>1, <2>3
    <3>2. CASE far[m] \in {"installer-failed", "off"}
      BY <3>1, <3>2 DEF Further
    <3>3. CASE far[m] \in Rung
      <4>1. Rank(far[m]) \in 1..4 /\ Rank("installer-done") = 4
        BY <3>3, Ranks, RungsDiffer
      <4>2. Rank(far[m]) = 4 => far[m] = "installer-done"
        BY <3>3, Ranks, RungsDiffer DEF Rung
      <4> QED
        BY <3>1, <3>3, <4>1, <4>2, RungsDiffer DEF Further
    <3> QED
      BY <3>1, <3>2, <3>3, RungsDiffer
  <2> QED
    BY <2>2, <2>3
<1>2. ASSUME NEW n \in MAC, PowerOff(n) PROVE DoneIsFurthest(m)'
  BY <1>2 DEF PowerOff
<1>3. ASSUME Restart PROVE DoneIsFurthest(m)'
  BY <1>3 DEF Restart
<1>4. CASE UNCHANGED <<box, far>>
  BY <1>4
<1>5. ASSUME \/ \E s \in Slot : Note(s)
             \/ BeginSnapshot \/ EndSnapshot \/ ChangeFleet \/ Tick
             \/ UNCHANGED vars
      PROVE  UNCHANGED <<box, far>>
  BY <1>5 DEF Note, BeginSnapshot, EndSnapshot, ChangeFleet, Tick, vars, history
<1> QED
  BY <1>1, <1>2, <1>3, <1>4, <1>5 DEF Next

\* A change of the fleet takes the machines it removes out of those that stayed.
LEMMA StayedStep == TypeOK /\ StayedIsRead /\ [Next]_vars => StayedIsRead'
<1> SUFFICES ASSUME TypeOK, StayedIsRead, [Next]_vars PROVE StayedIsRead'
  OBVIOUS
<1> USE DEF StayedIsRead
<1>1. ASSUME BeginSnapshot PROVE StayedIsRead'
  BY <1>1 DEF BeginSnapshot
<1>2. ASSUME ChangeFleet PROVE StayedIsRead'
  BY <1>2 DEF ChangeFleet
<1>3. ASSUME EndSnapshot \/ Restart PROVE StayedIsRead'
  BY <1>3 DEF EndSnapshot, Restart
<1>4. ASSUME NEW m \in MAC, PowerOff(m) \/ \E s \in Slot : Cause(m, s) PROVE StayedIsRead'
  BY <1>4 DEF PowerOff, Cause
<1>5. ASSUME NEW s \in Slot, Note(s) PROVE StayedIsRead'
  BY <1>5 DEF Note
<1>6. ASSUME Tick PROVE StayedIsRead'
  BY <1>6 DEF Tick
<1>7. CASE UNCHANGED vars
  BY <1>7 DEF vars
<1> QED
  BY <1>1, <1>2, <1>3, <1>4, <1>5, <1>6, <1>7 DEF Next

-----------------------------------------------------------------------------
\* Nothing is known and nothing is being read when the program starts.
LEMMA InitInvariant == Init => IInv
  BY StallAssumption
     DEF Init, IInv, TypeOK, StayedIsRead, Coming, Known, Shows, Tells, DoneIsFurthest

\* The invariant holds in every state.
THEOREM Invariance == Spec => []IInv
<1>1. IInv /\ [Next]_vars => IInv'
  BY TypeStep, ComingStep, DoneStep, StayedStep DEF IInv
<1> QED
  BY <1>1, InitInvariant, PTL DEF Spec

\* Every variable keeps its type: the State slot always holds an event.
THEOREM TypeCorrect == Spec => []TypeOK
<1>1. IInv => TypeOK
  BY DEF IInv
<1> QED
  BY <1>1, Invariance, PTL

\* At rest and without a failure, the State slot holds the furthest event.
LEMMA RestIsFurthest == IInv => FurthestAtRest
<1> SUFFICES ASSUME IInv, NEW m \in MAC, AtRest(m), far[m] # "installer-failed"
             PROVE  LastEvent(m) = far[m]
  BY DEF FurthestAtRest
<1>1. \A e : Known(m, e) <=> Shows(m, e)
  BY DEF Known, Tells, AtRest
<1>2. CASE far[m] = "off"
  BY <1>1, <1>2, RungsDiffer DEF IInv, TypeOK, Coming, Shows, Status, LastEvent
<1>3. CASE far[m] # "off"
  BY <1>1, <1>3 DEF IInv, Coming, Shows, LastEvent
<1> QED
  BY <1>2, <1>3

\* In whatever order Note is called, the tracker ends up at the furthest
\* event each box has caused, unless an installation failed.
THEOREM FurthestWins == Spec => []FurthestAtRest
  BY RestIsFurthest, Invariance, PTL

\* A machine that is in the fleet for as long as Snapshot takes has one row,
\* although Snapshot reads the fleet twice; its flag says whether it hangs, as
\* long as it has not been installed before, and a box that has just finished
\* is not flagged.
THEOREM MembersOnce == Spec => MembersListedOnce
<1>1. IInv /\ [Next]_vars =>
        [EndSnapshot => \A m \in stayed :
            /\ rows'[m] = 1
            /\ status[m] # None /\ AtRest(m) /\ far[m] # "installer-failed" =>
                  /\ box[m] = "installer-done" => m \notin flagged'
                  /\ far[m] # "installer-done" =>
                        (m \in flagged' <=> status[m].age = Stall)]_vars
  <2> SUFFICES ASSUME IInv, EndSnapshot, NEW m \in stayed
               PROVE  /\ rows'[m] = 1
                      /\ status[m] # None /\ AtRest(m) /\ far[m] # "installer-failed" =>
                            /\ box[m] = "installer-done" => m \notin flagged'
                            /\ far[m] # "installer-done" =>
                                  (m \in flagged' <=> status[m].age = Stall)
    OBVIOUS
  <2>1. m \in snap /\ m \in members /\ m \in MAC
    BY DEF EndSnapshot, IInv, StayedIsRead, TypeOK
  <2>2. rows'[m] = 1
    BY <2>1 DEF EndSnapshot
  <2>3. ASSUME status[m] # None, AtRest(m), far[m] # "installer-failed"
        PROVE  /\ box[m] = "installer-done" => m \notin flagged'
               /\ far[m] # "installer-done" => (m \in flagged' <=> status[m].age = Stall)
    <3>1. status[m].state = far[m] /\ far[m] # "off"
      BY <2>1, <2>3, RestIsFurthest, RungsDiffer
         DEF FurthestAtRest, LastEvent, IInv, TypeOK, Status
    <3>2. IsStalled(status[m]) <=> far[m] # "installer-done" /\ status[m].age = Stall
      BY <2>3, <3>1 DEF IsStalled, Finished
    <3>3. m \in flagged' <=> IsStalled(status[m])
      BY <2>1, <2>3 DEF EndSnapshot, Seen
    <3>4. box[m] = "installer-done" => far[m] = "installer-done"
      BY <2>1, <2>3, <3>1 DEF IInv, DoneIsFurthest
    <3> QED
      BY <3>2, <3>3, <3>4
  <2> QED
    BY <2>2, <2>3
<1> QED
  BY <1>1, Invariance, PTL DEF Spec, MembersListedOnce

=============================================================================
