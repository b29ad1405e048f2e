----------------------------- MODULE BootIntent ------------------------------
(***************************************************************************)
(* Boot intent: which boxes pxe-beacon lets into a network boot, and what  *)
(* it boots them into.  The pending store (internal/pending) holds at most *)
(* one action per MAC, with an expiry; the proxyDHCP gate (BuildOffer)     *)
(* answers the firmware of a machine of the fleet only while an action is  *)
(* pending; the dispatch script (RenderDispatch) sends the box on to the   *)
(* rescue system or to the machine's own target.  API handlers, reloads    *)
(* and installer callbacks change the intent meanwhile.                    *)
(*                                                                         *)
(* Every handler runs in a goroutine of its own and touches the fleet and  *)
(* the pending store one locked call at a time: each such call is one      *)
(* action here, and Slot bounds how many handlers run at once.  A change   *)
(* of the fleet is one step: module FleetStore shows that it is.           *)
(***************************************************************************)
EXTENDS Naturals

CONSTANTS
    MAC,        \* canonical MAC addresses, each of one box
    Slot,       \* handlers that can be in flight at once
    TTL,        \* -pending-ttl in clock ticks; 0 means that no intent expires
    Members,    \* the kinds of entry the operator writes into fleet.yaml
    None,       \* no intent is queued
    Idle,       \* a slot without a handler
    Never       \* no PUT since the program started

\* "named": an entry with a name.  "nameless": one without, which YAML and
\* the API both accept.
ASSUME MembersAssumption == Members \subseteq {"named", "nameless"}
ASSUME TTLAssumption == TTL \in Nat

Action == {"install", "rescue"}

Intent == [action : Action, age : 0..TTL]

(***************************************************************************)
(* A handler in flight, named by the call it makes next.                   *)
(***************************************************************************)
Call ==
    [at : {"queue"}, mac : MAC, action : Action \cup {"null"}]   \* PUT intent
    \cup [at : {"cancel"}, mac : MAC]                 \* DELETE machine
    \cup [at : {"snapshot"}]                          \* SIGHUP, /admin/reload
    \cup [at : {"retain"}, known : SUBSET MAC]
    \cup [at : {"status", "disarm"}, mac : MAC]       \* installer-done
    \cup [at : {"gate"}, mac : MAC, known : BOOLEAN]  \* DISCOVER from firmware
    \cup [at : {"render"}, mac : MAC, member : BOOLEAN]          \* /boot.ipxe

ASSUME CallAssumption == Idle \notin Call /\ None \notin Intent /\ Never \notin Nat

\* "firmware": waits for an OFFER.  "loading": has one, loads iPXE.
\* "script": iPXE has the URL of the script.  "target", "rescue", "menu":
\* what the script booted.  "disk": no OFFER came.
Stage == {"off", "firmware", "loading", "script", "target", "rescue", "menu", "disk"}

VARIABLES
    fleet,      \* fleet[m]: m's entry in the fleet, or "absent"
    pending,    \* pending[m]: the stored entry of m, expired or not
    box,        \* box[m]: how far m's box has got since its power-on
    call,       \* call[h]: the handler in slot h
    \* History, read by no action:
    since,      \* since[m][a]: ticks since a was last queued for m
    done,       \* done[m]: installer-done was handled, no install queued since
    let         \* let[m]: what the gate saw when it let the box in

vars == <<fleet, pending, box, call, since, done, let>>
history == <<since, done, let>>

\* Store.Status: an entry counts until its expiry.
Young(age) == TTL = 0 \/ age < TTL
Live(e) == e # None /\ Young(e.age)
LiveAction(e, a) == Live(e) /\ e.action = a

\* a was queued for m since the program started, at most a TTL ago.
Recent(m, a) == since[m][a] # Never /\ Young(since[m][a])

Unasked == [m \in MAC |-> [a \in Action |-> Never]]

TypeOK ==
    /\ fleet \in [MAC -> {"absent"} \cup Members]
    /\ pending \in [MAC -> Intent \cup {None}]
    /\ box \in [MAC -> Stage]
    /\ call \in [Slot -> Call \cup {Idle}]
    /\ since \in [MAC -> [Action -> 0..TTL \cup {Never}]]
    /\ done \in [MAC -> BOOLEAN]
    /\ let \in [MAC -> Action \cup {"nothing", "unknown"}]

Init ==
    /\ fleet \in [MAC -> {"absent"} \cup Members]
    /\ pending = [m \in MAC |-> None]
    /\ box = [m \in MAC |-> "off"]
    /\ call = [h \in Slot |-> Idle]
    /\ since = Unasked
    /\ done = [m \in MAC |-> FALSE]
    /\ let = [m \in MAC |-> "nothing"]

\* A handler starts in a free slot, goes on to its next call, or returns.
Starts(h, c) == call[h] = Idle /\ call' = [call EXCEPT ![h] = c]
Continues(h, c) == call' = [call EXCEPT ![h] = c]
Returns(h) == call' = [call EXCEPT ![h] = Idle]

At(h, place) == call[h] # Idle /\ call[h].at = place

-----------------------------------------------------------------------------
(***************************************************************************)
(* PUT /machines/{mac}/intent: the MAC must have a named entry; then the   *)
(* action is queued, or the intent is cancelled.                           *)
(***************************************************************************)
SetIntent(h, m) ==
    /\ fleet[m] = "named"
    /\ \E a \in Action \cup {"null"} : Starts(h, [at |-> "queue", mac |-> m, action |-> a])
    /\ UNCHANGED <<fleet, pending, box, history>>

\* Install and Rescue overwrite whatever is stored and restart the timer.
Queue(h) ==
    LET m == call[h].mac  a == call[h].action IN
    /\ At(h, "queue")
    /\ a # "null"
    /\ pending' = [pending EXCEPT ![m] = [action |-> a, age |-> 0]]
    /\ since' = [since EXCEPT ![m][a] = 0]
    /\ done' = [done EXCEPT ![m] = @ /\ a # "install"]
    /\ Returns(h)
    /\ UNCHANGED <<fleet, box, let>>

CancelIntent(h) ==
    /\ At(h, "queue")
    /\ call[h].action = "null"
    /\ pending' = [pending EXCEPT ![call[h].mac] = None]
    /\ Returns(h)
    /\ UNCHANGED <<fleet, box, history>>

(***************************************************************************)
(* Changes of the fleet.  Create and update do not look at the intent;     *)
(* a delete cancels it after the store has changed.                        *)
(***************************************************************************)
CreateMachine(m) ==
    /\ fleet[m] = "absent"
    /\ \E e \in Members : fleet' = [fleet EXCEPT ![m] = e]
    /\ UNCHANGED <<pending, box, call, history>>

UpdateMachine(m) ==
    /\ fleet[m] # "absent"
    /\ \E e \in Members : fleet' = [fleet EXCEPT ![m] = e]
    /\ UNCHANGED <<pending, box, call, history>>

DeleteMachine(h, m) ==
    /\ fleet[m] # "absent"
    /\ fleet' = [fleet EXCEPT ![m] = "absent"]
    /\ Starts(h, [at |-> "cancel", mac |-> m])
    /\ UNCHANGED <<pending, box, history>>

CancelDeleted(h) ==
    /\ At(h, "cancel")
    /\ pending' = [pending EXCEPT ![call[h].mac] = None]
    /\ Returns(h)
    /\ UNCHANGED <<fleet, box, history>>

\* A reload takes whatever the operator has written into the file, then
\* copies the map, then drops the intent of every MAC outside the copy.
Reload(h) ==
    /\ fleet' \in [MAC -> {"absent"} \cup Members]
    /\ Starts(h, [at |-> "snapshot"])
    /\ UNCHANGED <<pending, box, history>>

Snapshot(h) ==
    /\ At(h, "snapshot")
    /\ Continues(h, [at |-> "retain", known |-> {m \in MAC : fleet[m] # "absent"}])
    /\ UNCHANGED <<fleet, pending, box, history>>

RetainOnly(h) ==
    /\ At(h, "retain")
    /\ pending' = [m \in MAC |-> IF m \in call[h].known THEN pending[m] ELSE None]
    /\ Returns(h)
    /\ UNCHANGED <<fleet, box, history>>

(***************************************************************************)
(* installer-done, by /autoinstall/{mac}/done or /machines/{mac}/events:   *)
(* an agent may report it at any time.  installer-failed changes no        *)
(* intent.                                                                 *)
(***************************************************************************)
InstallerDone(h, m) ==
    /\ Starts(h, [at |-> "status", mac |-> m])
    /\ UNCHANGED <<fleet, pending, box, history>>

Status(h) ==
    LET m == call[h].mac IN
    /\ At(h, "status")
    /\ IF LiveAction(pending[m], "install")
       THEN Continues(h, [at |-> "disarm", mac |-> m]) /\ UNCHANGED done
       ELSE Returns(h) /\ done' = [done EXCEPT ![m] = TRUE]
    /\ UNCHANGED <<fleet, pending, box, since, let>>

\* Mutant of Disarm: an intent that has just been renewed is kept.
DisarmUnlessRenewed(h) ==
    LET m == call[h].mac IN
    /\ At(h, "disarm")
    /\ pending' = [pending EXCEPT ![m] = IF Live(@) /\ @.age = 0 THEN @ ELSE None]
    /\ done' = [done EXCEPT ![m] = TRUE]
    /\ Returns(h)
    /\ UNCHANGED <<fleet, box, since, let>>

Disarm(h) ==
    LET m == call[h].mac IN
    /\ At(h, "disarm")
    /\ pending' = [pending EXCEPT ![m] = None]
    /\ done' = [done EXCEPT ![m] = TRUE]
    /\ Returns(h)
    /\ UNCHANGED <<fleet, box, since, let>>

-----------------------------------------------------------------------------
(***************************************************************************)
(* A box boots.  An answer to a box that has been power-cycled since it    *)
(* asked reaches nobody: neither handler does anything but answer.         *)
(***************************************************************************)
PowerOn(m) ==
    /\ box' = [box EXCEPT ![m] = "firmware"]
    /\ let' = [let EXCEPT ![m] = "nothing"]
    /\ call' = [h \in Slot |-> IF (At(h, "gate") \/ At(h, "render")) /\ call[h].mac = m
                               THEN Idle ELSE call[h]]
    /\ UNCHANGED <<fleet, pending, since, done>>

\* No OFFER came in time: the firmware goes on to the local disk.
GiveUp(m) ==
    /\ box[m] = "firmware"
    /\ box' = [box EXCEPT ![m] = "disk"]
    /\ UNCHANGED <<fleet, pending, call, history>>

\* BuildOffer looks the MAC up in the fleet: a name makes it known ...
Discover(h, m) ==
    /\ box[m] = "firmware"
    /\ Starts(h, [at |-> "gate", mac |-> m, known |-> fleet[m] = "named"])
    /\ UNCHANGED <<fleet, pending, box, history>>

\* Mutant of Offer: an intent lets a box in for as long as it is stored.
OfferUnexpired(h) ==
    LET m == call[h].mac IN
    /\ At(h, "gate")
    /\ ~call[h].known \/ pending[m] # None
    /\ box[m] = "firmware"
    /\ box' = [box EXCEPT ![m] = "loading"]
    /\ let' = [let EXCEPT ![m] = IF call[h].known THEN pending[m].action ELSE "unknown"]
    /\ Returns(h)
    /\ UNCHANGED <<fleet, pending, since, done>>

\* ... and an intent lets a known one in.  Anything else is skipped in
\* silence (which of two reasons is logged depends on the status tracker).
Offer(h) ==
    LET m == call[h].mac IN
    /\ At(h, "gate")
    /\ ~call[h].known \/ Live(pending[m])
    /\ box[m] = "firmware"
    /\ box' = [box EXCEPT ![m] = "loading"]
    /\ let' = [let EXCEPT ![m] = IF call[h].known THEN pending[m].action ELSE "unknown"]
    /\ Returns(h)
    /\ UNCHANGED <<fleet, pending, since, done>>

Skip(h) ==
    /\ At(h, "gate")
    /\ box[call[h].mac] = "firmware" => call[h].known /\ ~Live(pending[call[h].mac])
    /\ Returns(h)
    /\ UNCHANGED <<fleet, pending, box, history>>

\* Mutant of OfferIPXE: the gate stands in the way of iPXE as well.
OfferIPXEGated(m) ==
    /\ box[m] = "loading"
    /\ fleet[m] = "named" => Live(pending[m])
    /\ box' = [box EXCEPT ![m] = "script"]
    /\ UNCHANGED <<fleet, pending, call, history>>

\* iPXE's own DHCP exchange passes no gate.
OfferIPXE(m) ==
    /\ box[m] = "loading"
    /\ box' = [box EXCEPT ![m] = "script"]
    /\ UNCHANGED <<fleet, pending, call, history>>

\* The script is rendered from a copy of the fleet, then asks the pending
\* store about each machine in it.
Dispatch(h, m) ==
    /\ box[m] = "script"
    /\ Starts(h, [at |-> "render", mac |-> m, member |-> fleet[m] # "absent"])
    /\ UNCHANGED <<fleet, pending, box, history>>

\* Mutant of Arm: the arm is named after the pending action, and there is no
\* arm of the name "install".
ArmOfAction(member, e) ==
    IF ~member THEN "menu" ELSE IF Live(e) THEN e.action ELSE "target"

\* The arm the box takes: rescue over the machine's own target; a MAC that
\* matches none falls through to the netboot.xyz menu.
Arm(member, e) ==
    IF ~member THEN "menu" ELSE IF LiveAction(e, "rescue") THEN "rescue" ELSE "target"

Render(h) ==
    LET m == call[h].mac IN
    /\ At(h, "render")
    /\ box' = [box EXCEPT ![m] = IF @ = "script" THEN Arm(call[h].member, pending[m]) ELSE @]
    /\ Returns(h)
    /\ UNCHANGED <<fleet, pending, since, done, let>>

-----------------------------------------------------------------------------
Older(age) == IF age < TTL THEN age + 1 ELSE age

Tick ==
    /\ pending' = [m \in MAC |-> IF pending[m] = None THEN None
                                 ELSE [pending[m] EXCEPT !.age = Older(@)]]
    /\ since' = [m \in MAC |-> [a \in Action |->
                     IF since[m][a] = Never THEN Never ELSE Older(since[m][a])]]
    /\ UNCHANGED <<fleet, box, call, done, let>>

\* The program stops and starts again: intents and handlers are gone, the
\* fleet is what the file holds, the boxes do not notice.
Restart ==
    /\ fleet' \in [MAC -> {"absent"} \cup Members]
    /\ pending' = [m \in MAC |-> None]
    /\ call' = [h \in Slot |-> Idle]
    /\ since' = Unasked
    /\ UNCHANGED <<box, done, let>>

\* A handler's next call.
Handle(h) ==
    \/ Queue(h) \/ CancelIntent(h) \/ CancelDeleted(h)
    \/ Snapshot(h) \/ RetainOnly(h)
    \/ Status(h) \/ Disarm(h)
    \/ Offer(h) \/ Skip(h) \/ Render(h)

Next ==
    \/ \E h \in Slot : Reload(h) \/ Handle(h)
    \/ \E h \in Slot, m \in MAC :
           SetIntent(h, m) \/ DeleteMachine(h, m) \/ InstallerDone(h, m)
           \/ Discover(h, m) \/ Dispatch(h, m)
    \/ \E m \in MAC :
           CreateMachine(m) \/ UpdateMachine(m) \/ PowerOn(m) \/ GiveUp(m) \/ OfferIPXE(m)
    \/ Tick
    \/ Restart

Spec == Init /\ [][Next]_vars

(***************************************************************************)
(* A handler that has started goes on to its end; iPXE, let in once, asks  *)
(* for its script until it gets it.  Strong fairness where a restart can   *)
(* cut the exchange short, or where the slots, which only this model       *)
(* bounds, can all be taken: neither happens at every attempt.  Nothing is *)
(* assumed of operators, of power-ons, or of the clock.                    *)
(***************************************************************************)
RenderFor(m) == \E h \in Slot : At(h, "render") /\ call[h].mac = m /\ Render(h)

Fairness ==
    /\ \A h \in Slot : WF_vars(Handle(h))
    /\ \A m \in MAC :
           /\ WF_vars(OfferIPXE(m))
           /\ SF_vars(\E h \in Slot : Dispatch(h, m))
           /\ SF_vars(RenderFor(m))

FairSpec == Spec /\ Fairness

-----------------------------------------------------------------------------
(***************************************************************************)
(* The properties.                                                         *)
(***************************************************************************)

\* Once an installer-done has been handled, no install intent queued before
\* it is left to start the installation over, however the callback, other
\* callbacks, PUTs, prunes and the clock interleave.
DoneDisarms == \A m \in MAC : done[m] => ~LiveAction(pending[m], "install")

\* A box gets a firmware OFFER only if its handler found no name for the MAC
\* or an operator has queued an action for it within the last TTL and since
\* the last start; it gets the rescue arm only if that action is a rescue.
\* (pending.go: a forgotten action cannot survive a restart or its TTL.)
BootsFollowPuts ==
    [][\A m \in MAC :
        /\ box[m] = "firmware" /\ box'[m] = "loading" =>
               \/ let'[m] = "unknown"
               \/ let'[m] \in Action /\ Recent(m, let'[m])
        /\ box[m] = "script" /\ box'[m] = "rescue" => Recent(m, "rescue")]_vars

\* A box that was let in reaches an arm of the script, whatever happens to
\* its intent and to its fleet entry meanwhile (proxydhcp.go: "If we don't
\* OFFER here we strand iPXE mid-chainload").
NotStranded ==
    \A m \in MAC : box[m] \in {"loading", "script"} ~> box[m] \notin {"loading", "script"}

(***************************************************************************)
(* What the documents say and the code does not keep: see the README.      *)
(***************************************************************************)

\* A box let in for a rescue does not boot its own target, an installer.
RescueNeverInstalls == \A m \in MAC : let[m] = "rescue" => box[m] # "target"

=============================================================================
