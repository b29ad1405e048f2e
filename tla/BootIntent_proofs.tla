-------------------------- MODULE BootIntent_proofs --------------------------
(***************************************************************************)
(* Proofs about BootIntent, for every set of boxes, handlers and kinds of  *)
(* fleet entry and every TTL.  The inductive invariant adds to the types   *)
(* and to DoneDisarms that a stored intent is as old as the last PUT of    *)
(* its action: without it, an intent in the store would say nothing about  *)
(* what an operator has asked for.                                         *)
(***************************************************************************)
EXTENDS BootIntent, TLAPS

StoredIsPut ==
    \A m \in MAC : pending[m] # None => since[m][pending[m].action] = pending[m].age

IInv == TypeOK /\ DoneDisarms /\ StoredIsPut

-----------------------------------------------------------------------------
\* What a handler in flight carries at each place.
LEMMA CallTyped ==
    ASSUME NEW c \in Call
    PROVE  /\ c.at \in {"queue", "cancel", "snapshot", "retain", "status",
                        "disarm", "gate", "render"}
           /\ c.at = "queue" => c.mac \in MAC /\ c.action \in Action \cup {"null"}
           /\ c.at \in {"cancel", "status", "disarm"} => c.mac \in MAC
           /\ c.at = "retain" => c.known \in SUBSET MAC
           /\ c.at = "gate" => c.mac \in MAC /\ c.known \in BOOLEAN
           /\ c.at = "render" => c.mac \in MAC /\ c.member \in BOOLEAN
  BY DEF Call

\* A handler that goes on, and one that returns, keep the type of call.
LEMMA CallsMove ==
    ASSUME call \in [Slot -> Call \cup {Idle}], NEW h \in Slot
    PROVE  /\ \A c \in Call : Starts(h, c) => call' \in [Slot -> Call \cup {Idle}]
           /\ \A c \in Call : Continues(h, c) => call' \in [Slot -> Call \cup {Idle}]
           /\ Returns(h) => call' \in [Slot -> Call \cup {Idle}]
  BY DEF Starts, Continues, Returns

\* The clock of an intent stays in its range, never makes an expired intent
\* young again, and starts young.
LEMMA Ages ==
    /\ 0 \in 0..TTL
    /\ \A a \in 0..TTL : Older(a) \in 0..TTL
    /\ \A a \in 0..TTL : Young(Older(a)) => Young(a)
  BY TTLAssumption DEF Older, Young

-----------------------------------------------------------------------------
\* Every action keeps the types.
LEMMA TypeStep == TypeOK /\ [Next]_vars => TypeOK'
<1> SUFFICES ASSUME TypeOK, [Next]_vars PROVE TypeOK'
  OBVIOUS
<1> USE DEF TypeOK, history
<1>1. ASSUME NEW h \in Slot, NEW m \in MAC, SetIntent(h, m) PROVE TypeOK'
  <2>1. \A a \in Action \cup {"null"} : [at |-> "queue", mac |-> m, action |-> a] \in Call
    BY DEF Call
  <2> QED
    BY <1>1, <2>1, CallsMove DEF SetIntent
<1>2. ASSUME NEW h \in Slot, Queue(h) PROVE TypeOK'
  <2>1. call[h].mac \in MAC /\ call[h].action \in Action
    BY <1>2, CallTyped DEF Queue, At
  <2>2. [action |-> call[h].action, age |-> 0] \in Intent /\ 0 \in 0..TTL \cup {Never}
    BY <2>1, Ages DEF Intent
  <2>3. call' \in [Slot -> Call \cup {Idle}]
    BY <1>2, CallsMove DEF Queue
  <2> QED
    BY <1>2, <2>1, <2>2, <2>3 DEF Queue
<1>3. ASSUME NEW h \in Slot, CancelIntent(h) PROVE TypeOK'
  BY <1>3, CallsMove DEF CancelIntent
<1>4. ASSUME NEW m \in MAC, CreateMachine(m) PROVE TypeOK'
  BY <1>4 DEF CreateMachine
<1>5. ASSUME NEW m \in MAC, UpdateMachine(m) PROVE TypeOK'
  BY <1>5 DEF UpdateMachine
<1>6. ASSUME NEW h \in Slot, NEW m \in MAC, DeleteMachine(h, m) PROVE TypeOK'
  <2>1. [at |-> "cancel", mac |-> m] \in Call
    BY DEF Call
  <2> QED
    BY <1>6, <2>1, CallsMove DEF DeleteMachine
<1>7. ASSUME NEW h \in Slot, CancelDeleted(h) PROVE TypeOK'
  BY <1>7, CallsMove DEF CancelDeleted
<1>8. ASSUME NEW h \in Slot, Reload(h) PROVE TypeOK'
  <2>1. [at |-> "snapshot"] \in Call
    BY DEF Call
  <2> QED
    BY <1>8, <2>1, CallsMove DEF Reload
<1>9. ASSUME NEW h \in Slot, Snapshot(h) PROVE TypeOK'
  <2>1. [at |-> "retain", known |-> {m \in MAC : fleet[m] # "absent"}] \in Call
    BY DEF Call
  <2> QED
    BY <1>9, <2>1, CallsMove DEF Snapshot
<1>10. ASSUME NEW h \in Slot, RetainOnly(h) PROVE TypeOK'
  BY <1>10, CallsMove DEF RetainOnly
<1>11. ASSUME NEW h \in Slot, NEW m \in MAC, InstallerDone(h, m) PROVE TypeOK'
  <2>1. [at |-> "status", mac |-> m] \in Call
    BY DEF Call
  <2> QED
    BY <1>11, <2>1, CallsMove DEF InstallerDone
<1>12. ASSUME NEW h \in Slot, Status(h) PROVE TypeOK'
  <2>1. call[h].mac \in MAC
    BY <1>12, CallTyped DEF Status, At
  <2>2. [at |-> "disarm", mac |-> call[h].mac] \in Call
    BY <2>1 DEF Call
  <2> QED
    BY <1>12, <2>2, CallsMove DEF Status
<1>13. ASSUME NEW h \in Slot, Disarm(h) PROVE TypeOK'
  BY <1>13, CallsMove DEF Disarm
<1>14. ASSUME NEW m \in MAC, PowerOn(m) PROVE TypeOK'
  BY <1>14 DEF PowerOn, Stage
<1>15. ASSUME NEW m \in MAC, GiveUp(m) PROVE TypeOK'
  BY <1>15 DEF GiveUp, Stage
<1>16. ASSUME NEW h \in Slot, NEW m \in MAC, Discover(h, m) PROVE TypeOK'
  <2>1. [at |-> "gate", mac |-> m, known |-> fleet[m] = "named"] \in Call
    BY DEF Call
  <2> QED
    BY <1>16, <2>1, CallsMove DEF Discover
<1>17. ASSUME NEW h \in Slot, Offer(h) PROVE TypeOK'
  <2>1. call[h].mac \in MAC /\ call[h].known \in BOOLEAN
    BY <1>17, CallTyped DEF Offer, At
  <2>2. (IF call[h].known THEN pending[call[h].mac].action ELSE "unknown")
            \in Action \cup {"nothing", "unknown"}
    BY <1>17, <2>1 DEF Offer, Live, Intent
  <2> QED
    BY <1>17, <2>1, <2>2, CallsMove DEF Offer, Stage
<1>18. ASSUME NEW h \in Slot, Skip(h) PROVE TypeOK'
  BY <1>18, CallsMove DEF Skip
<1>19. ASSUME NEW m \in MAC, OfferIPXE(m) PROVE TypeOK'
  BY <1>19 DEF OfferIPXE, Stage
<1>20. ASSUME NEW h \in Slot, NEW m \in MAC, Dispatch(h, m) PROVE TypeOK'
  <2>1. [at |-> "render", mac |-> m, member |-> fleet[m] # "absent"] \in Call
    BY DEF Call
  <2> QED
    BY <1>20, <2>1, CallsMove DEF Dispatch
<1>21. ASSUME NEW h \in Slot, Render(h) PROVE TypeOK'
  BY <1>21, CallsMove DEF Render, Arm, Stage
<1>22. ASSUME Tick PROVE TypeOK'
  <2>1. \A m \in MAC : pending'[m] \in Intent \cup {None}
    BY <1>22, Ages DEF Tick, Intent
  <2>2. \A m \in MAC, a \in Action : since'[m][a] \in 0..TTL \cup {Never}
    BY <1>22, Ages DEF Tick
  <2> QED
    BY <1>22, <2>1, <2>2 DEF Tick
<1>23. ASSUME Restart PROVE TypeOK'
  BY <1>23 DEF Restart, Unasked
<1>24. CASE UNCHANGED vars
  BY <1>24 DEF vars
<1> QED
  BY <1>1, <1>2, <1>3, <1>4, <1>5, <1>6, <1>7, <1>8, <1>9, <1>10, <1>11, <1>12,
     <1>13, <1>14, <1>15, <1>16, <1>17, <1>18, <1>19, <1>20, <1>21, <1>22, <1>23, <1>24
     DEF Next, Handle

-----------------------------------------------------------------------------
(***************************************************************************)
(* What a step does to one machine's intent.                               *)
(***************************************************************************)
Untouched(m) == pending'[m] = pending[m] /\ since'[m] = since[m]

Queued(m) ==
    \E a \in Action :
        /\ pending'[m] = [action |-> a, age |-> 0]
        /\ since'[m][a] = 0
        /\ done'[m] => a # "install"

Aged(m) ==
    /\ since'[m] = [a \in Action |-> IF since[m][a] = Never THEN Never ELSE Older(since[m][a])]
    /\ pending'[m] = IF pending[m] = None THEN None
                     ELSE [pending[m] EXCEPT !.age = Older(@)]

\* A step drops the intent of a machine, queues one, lets it age, or leaves
\* it alone; only where it drops one or finds no install does it record that
\* an installer-done was handled.
LEMMA IntentSteps ==
    ASSUME TypeOK, [Next]_vars, NEW m \in MAC
    PROVE  \/ pending'[m] = None
           \/ Queued(m)
           \/ (Untouched(m) \/ Aged(m))
              /\ (done'[m] => done[m] \/ ~LiveAction(pending[m], "install"))
<1> USE DEF Untouched, history
<1>1. CASE UNCHANGED <<pending, since, done>>
  BY <1>1
<1>2. ASSUME NEW h \in Slot, Queue(h)
      PROVE  Queued(m) \/ UNCHANGED <<pending[m], since[m], done[m]>>
  <2>1. call[h].mac \in MAC /\ call[h].action \in Action
    BY <1>2, CallTyped DEF Queue, At, TypeOK
  <2>2. CASE m = call[h].mac
    BY <1>2, <2>1, <2>2 DEF Queue, Queued, TypeOK
  <2>3. CASE m # call[h].mac
    BY <1>2, <2>1, <2>3 DEF Queue, TypeOK
  <2> QED
    BY <2>2, <2>3
<1>3. ASSUME NEW h \in Slot, CancelIntent(h) \/ CancelDeleted(h)
      PROVE  pending'[m] = None \/ UNCHANGED <<pending[m], since, done>>
  BY <1>3 DEF CancelIntent, CancelDeleted, TypeOK
<1>4. ASSUME NEW h \in Slot, RetainOnly(h)
      PROVE  pending'[m] = None \/ UNCHANGED <<pending[m], since, done>>
  BY <1>4 DEF RetainOnly
<1>5. ASSUME NEW h \in Slot, Status(h)
      PROVE  /\ UNCHANGED <<pending, since>>
             /\ done'[m] => done[m] \/ ~LiveAction(pending[m], "install")
  BY <1>5, CallTyped DEF Status, At, TypeOK
<1>6. ASSUME NEW h \in Slot, Disarm(h)
      PROVE  pending'[m] = None \/ UNCHANGED <<pending[m], since, done[m]>>
  BY <1>6 DEF Disarm, TypeOK
<1>7. ASSUME Tick PROVE Aged(m) /\ done' = done
  BY <1>7 DEF Tick, Aged
<1>8. ASSUME Restart PROVE pending'[m] = None
  BY <1>8 DEF Restart
<1>9. ASSUME NEW h \in Slot, NEW n \in MAC,
             \/ SetIntent(h, n) \/ DeleteMachine(h, n) \/ InstallerDone(h, n)
             \/ Discover(h, n) \/ Dispatch(h, n)
      PROVE  UNCHANGED <<pending, since, done>>
  BY <1>9 DEF SetIntent, DeleteMachine, InstallerDone, Discover, Dispatch
<1>10. ASSUME NEW h \in Slot, Reload(h) \/ Snapshot(h) \/ Offer(h) \/ Skip(h) \/ Render(h)
       PROVE  UNCHANGED <<pending, since, done>>
  BY <1>10 DEF Reload, Snapshot, Offer, Skip, Render
<1>11. ASSUME NEW n \in MAC,
              \/ CreateMachine(n) \/ UpdateMachine(n) \/ PowerOn(n) \/ GiveUp(n)
              \/ OfferIPXE(n)
       PROVE  UNCHANGED <<pending, since, done>>
  BY <1>11 DEF CreateMachine, UpdateMachine, PowerOn, GiveUp, OfferIPXE
<1>12. CASE UNCHANGED vars
  BY <1>12 DEF vars
<1> QED
  BY <1>1, <1>2, <1>3, <1>4, <1>5, <1>6, <1>7, <1>8, <1>9, <1>10, <1>11, <1>12
     DEF Next, Handle

\* An intent neither comes back to life nor turns into an install by itself.
LEMMA DisarmedStep == IInv /\ [Next]_vars => DoneDisarms'
<1> SUFFICES ASSUME IInv, [Next]_vars, NEW m \in MAC, done'[m]
             PROVE  ~LiveAction(pending'[m], "install")
  BY DEF DoneDisarms, LiveAction, Live
<1> USE DEF LiveAction, Live
<1>1. CASE pending'[m] = None
  BY <1>1
<1>2. CASE Queued(m)
  BY <1>2 DEF Queued
<1>3. CASE /\ Untouched(m) \/ Aged(m)
           /\ done[m] \/ ~LiveAction(pending[m], "install")
  <2>1. ~LiveAction(pending[m], "install")
    BY <1>3 DEF IInv, DoneDisarms
  <2>2. CASE Untouched(m)
    BY <2>1, <2>2 DEF Untouched
  <2>3. CASE Aged(m) /\ pending[m] # None
    <3>1. pending[m] \in Intent
      BY <2>3 DEF IInv, TypeOK
    <3>2. pending'[m].action = pending[m].action /\ pending'[m].age = Older(pending[m].age)
      BY <2>3, <3>1 DEF Aged, Intent
    <3> QED
      BY <2>1, <2>3, <3>1, <3>2, Ages DEF Intent
  <2> QED
    BY <1>3, <2>2, <2>3 DEF Aged
<1> QED
  BY <1>1, <1>2, <1>3, IntentSteps DEF IInv

\* An intent and the last PUT of its action age together.
LEMMA StoredStep == IInv /\ [Next]_vars => StoredIsPut'
<1> SUFFICES ASSUME IInv, [Next]_vars, NEW m \in MAC, pending'[m] # None
             PROVE  since'[m][pending'[m].action] = pending'[m].age
  BY DEF StoredIsPut
<1>1. CASE Queued(m)
  BY <1>1 DEF Queued
<1>2. CASE Untouched(m)
  BY <1>2 DEF Untouched, IInv, StoredIsPut
<1>3. CASE Aged(m)
  <2>1. pending[m] \in Intent /\ since[m][pending[m].action] = pending[m].age
    BY <1>3 DEF Aged, IInv, TypeOK, StoredIsPut
  <2>2. /\ pending'[m].action = pending[m].action
        /\ pending'[m].age = Older(pending[m].age)
        /\ pending[m].action \in Action
        /\ pending[m].age # Never
    BY <1>3, <2>1, CallAssumption, TTLAssumption DEF Aged, Intent
  <2> QED
    BY <1>3, <2>1, <2>2 DEF Aged
<1> QED
  BY <1>1, <1>2, <1>3, IntentSteps DEF IInv

-----------------------------------------------------------------------------
\* The program starts without intents and without handlers.
LEMMA InitInvariant == Init => IInv
  BY DEF Init, IInv, TypeOK, DoneDisarms, StoredIsPut, Stage, Unasked

\* The invariant holds in every state.
THEOREM Invariance == Spec => []IInv
<1>1. IInv /\ [Next]_vars => IInv'
  BY TypeStep, DisarmedStep, StoredStep DEF IInv
<1> QED
  BY <1>1, InitInvariant, PTL DEF Spec

\* Every variable keeps its type: the store holds at most one action per
\* machine, and what a handler carries from one locked call to the next is
\* what that call expects.
THEOREM TypeCorrect == Spec => []TypeOK
<1>1. IInv => TypeOK
  BY DEF IInv
<1> QED
  BY <1>1, Invariance, PTL

\* Once notePhase has handled an installer-done, no install intent queued
\* before it is left to start the installation over.
THEOREM DoneEndsTheLoop == Spec => []DoneDisarms
<1>1. IInv => DoneDisarms
  BY DEF IInv
<1> QED
  BY <1>1, Invariance, PTL

\* BuildOffer lets a machine in, and the dispatch script boots the rescue
\* system, only on what an operator has asked for within the last TTL and
\* since the program started.
THEOREM NoBootWithoutPut == Spec => BootsFollowPuts
<1> DEFINE Asked(m) ==
      /\ box[m] = "firmware" /\ box'[m] = "loading" =>
             \/ let'[m] = "unknown"
             \/ let'[m] \in Action /\ Recent(m, let'[m])
      /\ box[m] = "script" /\ box'[m] = "rescue" => Recent(m, "rescue")
<1>1. \A m \in MAC : IInv /\ Live(pending[m]) =>
          pending[m].action \in Action /\ Recent(m, pending[m].action)
  BY CallAssumption, TTLAssumption
     DEF IInv, TypeOK, StoredIsPut, Live, Recent, Intent
<1>2. ASSUME IInv, Next, NEW m \in MAC PROVE Asked(m)
  <2>1. ASSUME NEW h \in Slot, Offer(h) PROVE Asked(m)
    <3>1. call[h].mac \in MAC
      BY <1>2, <2>1, CallTyped DEF Offer, At, IInv, TypeOK
    <3>2. CASE m = call[h].mac
      BY <1>1, <1>2, <2>1, <3>1, <3>2 DEF Offer, IInv, TypeOK
    <3>3. CASE m # call[h].mac
      BY <2>1, <3>3 DEF Offer, IInv, TypeOK
    <3> QED
      BY <3>2, <3>3
  <2>2. ASSUME NEW h \in Slot, Render(h) PROVE Asked(m)
    <3>1. call[h].mac \in MAC
      BY <1>2, <2>2, CallTyped DEF Render, At, IInv, TypeOK
    <3>2. CASE m = call[h].mac
      BY <1>1, <1>2, <2>2, <3>1, <3>2 DEF Render, Arm, LiveAction, IInv, TypeOK
    <3>3. CASE m # call[h].mac
      BY <2>2, <3>3 DEF Render, IInv, TypeOK
    <3> QED
      BY <3>2, <3>3
  <2>3. ASSUME NEW n \in MAC, PowerOn(n) \/ GiveUp(n) \/ OfferIPXE(n) PROVE Asked(m)
    BY <1>2, <2>3 DEF PowerOn, GiveUp, OfferIPXE, IInv, TypeOK
  <2>4. CASE UNCHANGED box
    BY <2>4
  <2>5. ASSUME NEW h \in Slot, NEW n \in MAC,
               \/ SetIntent(h, n) \/ DeleteMachine(h, n) \/ InstallerDone(h, n)
               \/ Discover(h, n) \/ Dispatch(h, n)
        PROVE  UNCHANGED box
    BY <2>5 DEF SetIntent, DeleteMachine, InstallerDone, Discover, Dispatch
  <2>6. ASSUME NEW h \in Slot,
               \/ Reload(h) \/ Queue(h) \/ CancelIntent(h) \/ CancelDeleted(h)
               \/ Snapshot(h) \/ RetainOnly(h) \/ Status(h) \/ Disarm(h) \/ Skip(h)
        PROVE  UNCHANGED box
    BY <2>6 DEF Reload, Queue, CancelIntent, CancelDeleted, Snapshot, RetainOnly,
                Status, Disarm, Skip
  <2>7. ASSUME NEW n \in MAC, CreateMachine(n) \/ UpdateMachine(n) PROVE UNCHANGED box
    BY <2>7 DEF CreateMachine, UpdateMachine
  <2>8. ASSUME Tick \/ Restart PROVE UNCHANGED box
    BY <2>8 DEF Tick, Restart
  <2> HIDE DEF Asked
  <2> QED
    BY <1>2, <2>1, <2>2, <2>3, <2>4, <2>5, <2>6, <2>7, <2>8 DEF Next, Handle
<1>3. IInv /\ [Next]_vars => [\A m \in MAC : Asked(m)]_vars
  BY <1>2
<1> QED
  BY <1>3, Invariance, PTL DEF Spec, BootsFollowPuts

=============================================================================
