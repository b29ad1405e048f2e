------------------------------ MODULE FollowUp -------------------------------
(***************************************************************************)
(* The "client never fetched" hint of internal/proxydhcp/listener.go.  A   *)
(* handler that has sent an OFFER notes it and starts a goroutine that     *)
(* sleeps for FollowUpTimeout; whichever server completes a transfer       *)
(* forgets every OFFER noted; a goroutine that wakes up and finds its own  *)
(* OFFER still noted logs the hint.                                        *)
(*                                                                         *)
(* An OFFER is noted with the time of the note, which serves only to tell  *)
(* it from the other OFFERs to the same client: here it is the goroutine   *)
(* that was started for it.                                                *)
(***************************************************************************)
EXTENDS Naturals

CONSTANTS
    MAC,                \* clients
    Slot,               \* handlers that can be in flight at once
    Timer,              \* goroutines that can sleep at once
    FollowUpTimeout,    \* -hint-after in clock ticks (0: no OFFER is noted)
    None,               \* no OFFER of the client is noted
    Idle                \* a free slot; a timer that does not sleep

ASSUME TimeoutAssumption == FollowUpTimeout \in Nat \ {0}

Sleep == [mac : MAC, age : 0..FollowUpTimeout]

ASSUME ValueAssumption == None \notin Timer /\ Idle \notin MAC \cup Sleep


VARIABLES
    pending,    \* pending[m]: the timer of m's OFFER, or None
    timer,      \* timer[t]: whose OFFER t was started for, and its age
    sent,       \* sent[h]: the client the handler in slot h has answered
    quiet       \* history: quiet[m]: ticks since an OFFER of m was noted or
                \* anybody's transfer completed

vars == <<pending, timer, sent, quiet>>

TypeOK ==
    /\ pending \in [MAC -> Timer \cup {None}]
    /\ timer \in [Timer -> Sleep \cup {Idle}]
    /\ sent \in [Slot -> MAC \cup {Idle}]
    /\ quiet \in [MAC -> 0..FollowUpTimeout]

Init ==
    /\ pending = [m \in MAC |-> None]
    /\ timer = [t \in Timer |-> Idle]
    /\ sent = [h \in Slot |-> Idle]
    /\ quiet = [m \in MAC |-> 0]

\* handleOne has sent the OFFER.  (One that is skipped, or that cannot be
\* sent, leaves no trace.)
Send(h, m) ==
    /\ sent[h] = Idle
    /\ sent' = [sent EXCEPT ![h] = m]
    /\ UNCHANGED <<pending, timer, quiet>>

\* Mutant of NotePending: a client that is being waited for already gets a
\* new note, but no new goroutine.
NotePendingOnce(h, t) ==
    LET m == sent[h] IN
    /\ m # Idle
    /\ timer[t] = Idle
    /\ pending' = [pending EXCEPT ![m] = t]
    /\ timer' = IF pending[m] # None THEN timer
                ELSE [timer EXCEPT ![t] = [mac |-> m, age |-> 0]]
    /\ sent' = [sent EXCEPT ![h] = Idle]
    /\ quiet' = [quiet EXCEPT ![m] = 0]

\* Mutant of NotePending: a packet that was skipped is noted as well, under
\* no client.
NotePendingSkipped(h, t) ==
    LET m == sent[h] IN
    /\ timer[t] = Idle
    /\ pending' = [pending EXCEPT ![m] = t]
    /\ timer' = [timer EXCEPT ![t] = [mac |-> m, age |-> 0]]
    /\ sent' = [sent EXCEPT ![h] = Idle]
    /\ quiet' = [quiet EXCEPT ![m] = 0]

NotePending(h, t) ==
    LET m == sent[h] IN
    /\ m # Idle
    /\ timer[t] = Idle
    /\ pending' = [pending EXCEPT ![m] = t]
    /\ timer' = [timer EXCEPT ![t] = [mac |-> m, age |-> 0]]
    /\ sent' = [sent EXCEPT ![h] = Idle]
    /\ quiet' = [quiet EXCEPT ![m] = 0]

\* The TFTP or the HTTP server has completed a transfer.  Neither knows the
\* client: the tag it passes is no MAC, and clears every note.
NoteServed ==
    /\ pending' = [m \in MAC |-> None]
    /\ quiet' = [m \in MAC |-> 0]
    /\ UNCHANGED <<timer, sent>>

Awake(t) == timer[t] # Idle /\ timer[t].age = FollowUpTimeout

\* Mutant of Wake: any note of the client will do, not only the one this
\* goroutine was started for.
WakeForAny(t) ==
    LET m == timer[t].mac IN
    /\ Awake(t)
    /\ pending' = [pending EXCEPT ![m] = None]
    /\ timer' = [timer EXCEPT ![t] = Idle]
    /\ UNCHANGED <<sent, quiet>>

\* Mutant of Wake: the note is not deleted.
WakeKeeps(t) ==
    /\ Awake(t)
    /\ timer' = [timer EXCEPT ![t] = Idle]
    /\ UNCHANGED <<pending, sent, quiet>>

\* A goroutine that takes its note away has found that nobody fetched
\* anything since, and logs the hint.
Wake(t) ==
    LET m == timer[t].mac IN
    /\ Awake(t)
    /\ pending' = [pending EXCEPT ![m] = IF @ = t THEN None ELSE @]
    /\ timer' = [timer EXCEPT ![t] = Idle]
    /\ UNCHANGED <<sent, quiet>>

Older(age) == IF age < FollowUpTimeout THEN age + 1 ELSE age

Tick ==
    /\ timer' = [t \in Timer |-> IF timer[t] = Idle THEN Idle
                                 ELSE [timer[t] EXCEPT !.age = Older(@)]]
    /\ quiet' = [m \in MAC |-> Older(quiet[m])]
    /\ UNCHANGED <<pending, sent>>

Next ==
    \/ \E h \in Slot :
           \/ \E m \in MAC : Send(h, m)
           \/ \E t \in Timer : NotePending(h, t)
    \/ \E t \in Timer : Wake(t)
    \/ NoteServed
    \/ Tick

Spec == Init /\ [][Next]_vars

(***************************************************************************)
(* Time passes, and a goroutine whose sleep is over runs.                  *)
(***************************************************************************)
Fairness == WF_vars(Tick) /\ \A t \in Timer : WF_vars(Wake(t))

FairSpec == Spec /\ Fairness

-----------------------------------------------------------------------------
(***************************************************************************)
(* The properties.                                                         *)
(***************************************************************************)

\* Every note of an OFFER has a goroutine of its own client that still
\* sleeps and will take it away: none stays in the map for good, however
\* retries of the client, completed transfers and other goroutines interleave.
NoteHasItsTimer ==
    \A m \in MAC : pending[m] # None =>
        timer[pending[m]] # Idle /\ timer[pending[m]].mac = m

\* A goroutine ends and takes the note of its client away: the hint is logged.
HintFor(m) ==
    /\ \E t \in Timer : timer[t] # Idle /\ timer[t].mac = m /\ timer'[t] = Idle
    /\ pending[m] # None
    /\ pending'[m] = None

\* A hint means a full timeout without any completed transfer and without
\* another OFFER to the client: no hint cuts a retry's own wait short
\* (listener.go: "Without this check we'd hint-spam on every OFFER retry").
HintMeansSilence ==
    [][\A m \in MAC : HintFor(m) => quiet[m] = FollowUpTimeout]_vars

\* No OFFER stays noted for good: a transfer, a later OFFER or its own
\* goroutine takes its place.
NotesEnd == \A m \in MAC, t \in Timer : pending[m] = t ~> pending[m] # t

=============================================================================
