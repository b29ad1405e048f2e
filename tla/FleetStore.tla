----------------------------- MODULE FleetStore ------------------------------
(***************************************************************************)
(* The fleet store of internal/fleet: the in-memory map of machines, the   *)
(* file fleet.yaml behind it, and the transactions CreateAndSave,          *)
(* UpdateAndSave, DeleteAndSave and Reload.  A transaction holds saveMu    *)
(* from its comparison to its end.  The map itself is guarded by mu, which *)
(* is taken and released several times within a transaction: each of those *)
(* critical sections is one action, and readers come in between.           *)
(*                                                                         *)
(* Each process of Proc is one caller: it reads a machine with             *)
(* GET /machines/{mac}, sends one request at a time and waits for the      *)
(* answer.  Reload is a request here: the SIGHUP watcher and the admin     *)
(* page both call it.                                                      *)
(***************************************************************************)
EXTENDS FleetData

CONSTANTS
    Proc,       \* callers of the store
    Free,       \* the value of saveMu when nobody holds it
    Down        \* the abstract map while the program is not running

ASSUME ProcAssumption == Free \notin Proc /\ Down \notin Machines

VARIABLES
    up,         \* the program is running
    machines,   \* Fleet.machines
    file,       \* fleet.yaml: a valid map, or Broken
    edited,     \* the file was edited by hand since it was last read or saved
    saveMu,     \* the holder of Fleet.saveMu, or Free
    pc,         \* pc[p]: where p is
    req,        \* req[p]: the request p waits on, or None
    prior,      \* prior[p]: the entry p replaced, for the rollback
    buf,        \* buf[p]: the map p serialised for the file, or read from it
    reply,      \* reply[p]: the outcome of p's last request
    seen        \* seen[p]: the machine, body and ETag p last got from the API

vars == <<up, machines, file, edited, saveMu, pc, req, prior, buf, reply, seen>>
locals == <<req, prior, buf, seen>>

\* The places inside the critical section of saveMu.
Critical == {"compare", "serialise", "rename", "rollback", "read", "swap"}

NoMachines == [m \in MAC |-> Absent]

TypeOK ==
    /\ up \in BOOLEAN
    /\ machines \in Machines
    /\ file \in Machines \cup {Broken}
    /\ edited \in BOOLEAN
    /\ saveMu \in Proc \cup {Free}
    /\ pc \in [Proc -> {"idle", "etag", "lock"} \cup Critical]
    /\ req \in [Proc -> Request \cup {None}]
    /\ prior \in [Proc -> Entry]
    /\ buf \in [Proc -> Machines]
    /\ reply \in [Proc -> Answer]
    /\ seen \in [Proc -> Reading \cup {None}]

\* Load has read a valid file, and nobody has called yet.
Init ==
    /\ file \in Machines
    /\ machines = file
    /\ up = TRUE
    /\ edited = FALSE
    /\ saveMu = Free
    /\ pc = [p \in Proc |-> "idle"]
    /\ req = [p \in Proc |-> None]
    /\ prior = [p \in Proc |-> Absent]
    /\ buf = [p \in Proc |-> NoMachines]
    /\ reply = [p \in Proc |-> "none"]
    /\ seen = [p \in Proc |-> None]

-----------------------------------------------------------------------------
(***************************************************************************)
(* GET /machines/{mac}: the body comes from Lookup, the ETag header from a *)
(* second read of the map.                                                 *)
(***************************************************************************)
\* Mutant of GetBody: the handler does not look at Lookup's second result.
GetBodyUnchecked(p) ==
    /\ up
    /\ pc[p] = "idle"
    /\ \E m \in MAC :
        seen' = [seen EXCEPT ![p] = [mac |-> m, profile |-> machines[m], tag |-> NoTag]]
    /\ pc' = [pc EXCEPT ![p] = "etag"]
    /\ UNCHANGED <<up, machines, file, edited, saveMu, req, prior, buf, reply>>

GetBody(p) ==
    /\ up
    /\ pc[p] = "idle"
    /\ \E m \in MAC :
        /\ machines[m] # Absent
        /\ seen' = [seen EXCEPT ![p] = [mac |-> m, profile |-> machines[m], tag |-> NoTag]]
    /\ pc' = [pc EXCEPT ![p] = "etag"]
    /\ UNCHANGED <<up, machines, file, edited, saveMu, req, prior, buf, reply>>

\* A machine deleted since the first read has no ETag: the header is left out.
GetETag(p) ==
    LET m == seen[p].mac IN
    /\ pc[p] = "etag"
    /\ seen' = IF machines[m] = Absent THEN seen
               ELSE [seen EXCEPT ![p].tag = ETag(m, machines[m])]
    /\ pc' = [pc EXCEPT ![p] = "idle"]
    /\ UNCHANGED <<up, machines, file, edited, saveMu, req, prior, buf, reply>>

(***************************************************************************)
(* The requests a caller can send: it has no tag but the one of its last   *)
(* GET or of its last successful change, and it sends a tag only for the   *)
(* machine it belongs to.                                                  *)
(***************************************************************************)
Tags(p, m) ==
    IF seen[p] # None /\ seen[p].mac = m THEN {NoTag, seen[p].tag} ELSE {NoTag}

Requests(p) == {ReloadRequest} \cup {r \in Change : r.ifMatch \in Tags(p, r.mac)}

Submit(p) ==
    /\ up
    /\ pc[p] = "idle"
    /\ \E r \in Requests(p) : req' = [req EXCEPT ![p] = r]
    /\ reply' = [reply EXCEPT ![p] = "none"]
    /\ pc' = [pc EXCEPT ![p] = "lock"]
    /\ UNCHANGED <<up, machines, file, edited, saveMu, prior, buf, seen>>

\* UpdateAndSave refuses a missing If-Match before it takes the lock.
SubmitNoIfMatch(p) ==
    /\ up
    /\ pc[p] = "idle"
    /\ reply' = [reply EXCEPT ![p] = "required"]
    /\ UNCHANGED <<up, machines, file, edited, saveMu, pc, locals>>

\* Mutant of Lock: Reload does not wait for the transaction in progress.
LockUnlessReload(p) ==
    /\ pc[p] = "lock"
    /\ saveMu = Free \/ req[p].op = "reload"
    /\ saveMu' = p
    /\ pc' = [pc EXCEPT ![p] = IF req[p].op = "reload" THEN "read" ELSE "compare"]
    /\ UNCHANGED <<up, machines, file, edited, reply, locals>>

Lock(p) ==
    /\ pc[p] = "lock"
    /\ saveMu = Free
    /\ saveMu' = p
    /\ pc' = [pc EXCEPT ![p] = IF req[p].op = "reload" THEN "read" ELSE "compare"]
    /\ UNCHANGED <<up, machines, file, edited, reply, locals>>

\* The call returns: the deferred saveMu.Unlock runs and p gets its answer.
Return(p, a) ==
    /\ saveMu' = Free
    /\ pc' = [pc EXCEPT ![p] = "idle"]
    /\ req' = [req EXCEPT ![p] = None]
    /\ reply' = [reply EXCEPT ![p] = a]
    /\ prior' = [prior EXCEPT ![p] = Absent]
    /\ buf' = [buf EXCEPT ![p] = NoMachines]
    /\ UNCHANGED up

-----------------------------------------------------------------------------
(***************************************************************************)
(* CreateAndSave, UpdateAndSave, DeleteAndSave.                            *)
(***************************************************************************)
Refuse(p) ==
    LET r == req[p]  a == Refusal(r, machines[r.mac]) IN
    /\ pc[p] = "compare"
    /\ a # "none"
    /\ Return(p, a)
    /\ UNCHANGED <<machines, file, edited, seen>>

Mutate(p) ==
    LET r == req[p] IN
    /\ pc[p] = "compare"
    /\ Refusal(r, machines[r.mac]) = "none"
    /\ prior' = [prior EXCEPT ![p] = machines[r.mac]]
    /\ machines' = Put(machines, r.mac, r.entry)
    /\ pc' = [pc EXCEPT ![p] = "serialise"]
    /\ UNCHANGED <<up, file, edited, saveMu, req, buf, reply, seen>>

\* Save copies the map under RLock ...
Serialise(p) ==
    /\ pc[p] = "serialise"
    /\ buf' = [buf EXCEPT ![p] = machines]
    /\ pc' = [pc EXCEPT ![p] = "rename"]
    /\ UNCHANGED <<up, machines, file, edited, saveMu, req, prior, reply, seen>>

\* ... and renames a temporary file of its own over fleet.yaml.  The answer
\* to a create or an update carries the new ETag.
Rename(p) ==
    LET r == req[p] IN
    /\ pc[p] = "rename"
    /\ file' = buf[p]
    /\ edited' = FALSE
    /\ seen' = IF r.entry = Absent THEN seen
               ELSE [seen EXCEPT ![p] = [mac |-> r.mac, profile |-> r.entry,
                                         tag |-> ETag(r.mac, r.entry)]]
    /\ Return(p, "saved")
    /\ UNCHANGED machines

\* Any step of Save after the copy can fail: encoding, creating, writing or
\* renaming the temporary file.
SaveFails(p) ==
    /\ pc[p] = "rename"
    /\ pc' = [pc EXCEPT ![p] = "rollback"]
    /\ UNCHANGED <<up, machines, file, edited, saveMu, reply, locals>>

\* Mutant of Rollback: a failed save takes the entry out, as if every
\* change had been a create.
RollbackDeletes(p) ==
    /\ pc[p] = "rollback"
    /\ machines' = Put(machines, req[p].mac, Absent)
    /\ Return(p, "failed")
    /\ UNCHANGED <<file, edited, seen>>

Rollback(p) ==
    /\ pc[p] = "rollback"
    /\ machines' = Put(machines, req[p].mac, prior[p])
    /\ Return(p, "failed")
    /\ UNCHANGED <<file, edited, seen>>

-----------------------------------------------------------------------------
(***************************************************************************)
(* Reload reads and validates the whole file, then swaps the map.          *)
(***************************************************************************)
ReadFile(p) ==
    /\ pc[p] = "read"
    /\ file # Broken
    /\ buf' = [buf EXCEPT ![p] = file]
    /\ edited' = FALSE
    /\ pc' = [pc EXCEPT ![p] = "swap"]
    /\ UNCHANGED <<up, machines, file, saveMu, req, prior, reply, seen>>

\* Mutant of ReadFails: the early return leaves saveMu locked.
ReadFailsLocked(p) ==
    /\ pc[p] = "read"
    /\ file = Broken
    /\ pc' = [pc EXCEPT ![p] = "idle"]
    /\ req' = [req EXCEPT ![p] = None]
    /\ reply' = [reply EXCEPT ![p] = "failed"]
    /\ UNCHANGED <<up, machines, file, edited, saveMu, prior, buf, seen>>

ReadFails(p) ==
    /\ pc[p] = "read"
    /\ file = Broken
    /\ Return(p, "failed")
    /\ UNCHANGED <<machines, file, edited, seen>>

\* Mutant of Swap: the machines of the file are added to those in memory.
SwapMerges(p) ==
    /\ pc[p] = "swap"
    /\ machines' = [m \in MAC |-> IF buf[p][m] = Absent THEN machines[m] ELSE buf[p][m]]
    /\ Return(p, "reloaded")
    /\ UNCHANGED <<file, edited, seen>>

Swap(p) ==
    /\ pc[p] = "swap"
    /\ machines' = buf[p]
    /\ Return(p, "reloaded")
    /\ UNCHANGED <<file, edited, seen>>

-----------------------------------------------------------------------------
HandEdit ==
    /\ file' \in (Machines \cup {Broken}) \ {file}
    /\ edited' = TRUE
    /\ UNCHANGED <<up, machines, saveMu, pc, reply, locals>>

\* The process dies: memory and the requests in flight are gone, the file
\* is what it was, a temporary file may be left beside it.
Crash ==
    /\ up
    /\ up' = FALSE
    /\ machines' = NoMachines
    /\ saveMu' = Free
    /\ pc' = [p \in Proc |-> "idle"]
    /\ req' = [p \in Proc |-> None]
    /\ reply' = [p \in Proc |-> "none"]
    /\ prior' = [p \in Proc |-> Absent]
    /\ buf' = [p \in Proc |-> NoMachines]
    /\ UNCHANGED <<file, edited, seen>>

\* Load: the program does not start on a broken file.
Start ==
    /\ ~up
    /\ file # Broken
    /\ up' = TRUE
    /\ machines' = file
    /\ edited' = FALSE
    /\ UNCHANGED <<file, saveMu, pc, reply, locals>>

-----------------------------------------------------------------------------
Step(p) ==
    \/ GetETag(p)
    \/ Refuse(p) \/ Mutate(p) \/ Serialise(p) \/ Rename(p) \/ SaveFails(p) \/ Rollback(p)
    \/ ReadFile(p) \/ ReadFails(p) \/ Swap(p)

Next ==
    \/ \E p \in Proc : GetBody(p) \/ Submit(p) \/ SubmitNoIfMatch(p) \/ Lock(p) \/ Step(p)
    \/ HandEdit
    \/ Crash
    \/ Start

Spec == Init /\ [][Next]_vars

(***************************************************************************)
(* A call that runs goes on.  A caller waiting for saveMu gets it if it is *)
(* free again and again: Go's sync.Mutex hands itself to a waiter that has *)
(* waited for a millisecond.  No fairness on the callers, on the operator  *)
(* or on crashes.                                                          *)
(***************************************************************************)
Fairness == \A p \in Proc : WF_vars(Step(p)) /\ SF_vars(Lock(p))

FairSpec == Spec /\ Fairness

-----------------------------------------------------------------------------
(***************************************************************************)
(* The properties.                                                         *)
(***************************************************************************)

\* The map as the finished transactions have left it: without the change of
\* a transaction that is not yet saved, with a file that was read whole.
Committed ==
    IF saveMu = Free THEN machines
    ELSE LET p == saveMu IN
         IF pc[p] \in {"serialise", "rename", "rollback"}
         THEN Put(machines, req[p].mac, prior[p])
         ELSE IF pc[p] = "swap" THEN buf[p] ELSE machines

\* A caller is between its comparison and its return only while it holds
\* saveMu (txn.go: saveMu is held across compare, mutate and persist).
SaveMuExcludes == \A p \in Proc : pc[p] \in Critical <=> saveMu = p

\* What a caller has in hand at each place: its request while it waits, the
\* kind of request that leads to that place, nothing while the program is
\* down, and a machine's profile between the two reads of a GET.
CallsMatchRequests ==
    \A p \in Proc :
        /\ pc[p] \in {"idle", "etag"} <=> req[p] = None
        /\ pc[p] \in {"compare", "serialise", "rename", "rollback"} => req[p] \in Change
        /\ pc[p] \in {"read", "swap"} => req[p] = ReloadRequest
        /\ pc[p] = "etag" => seen[p] # None
        /\ ~up => pc[p] = "idle"

\* From its mutation to its return a transaction finds the map as it left
\* it: its own entry is in place, the entry it replaced was one its request
\* allowed it to replace, and what Save copied is still the map.  Nothing
\* but saveMu ensures this, since mu is released in between.
OwnChangeStays ==
    \A p \in Proc :
        /\ pc[p] \in {"serialise", "rename", "rollback"} =>
               /\ machines[req[p].mac] = req[p].entry
               /\ Refusal(req[p], prior[p]) = "none"
        /\ pc[p] = "rename" => buf[p] = machines

\* Unless somebody has edited the file by hand, the file holds exactly what
\* the finished transactions left in memory: a save that failed was undone,
\* a reload did not land inside a transaction, a crash lost nothing.
WriteThrough == up /\ ~edited => file = Committed

\* The file replaced by a conditional update or delete is, at the moment of
\* the rename, still the one in which the machine's ETag is the If-Match of
\* the request: nothing slipped in after the comparison.
ReplacesItsTag(p) ==
    pc[p] = "rename" /\ reply'[p] = "saved" /\ req[p].ifMatch # NoTag
    => LET found == Committed[req[p].mac] IN
       found # Absent /\ ETag(req[p].mac, found) = req[p].ifMatch

CommitsOverItsTag == [][\A p \in Proc : ReplacesItsTag(p)]_vars

\* Every request is answered, unless the program dies first.
EveryRequestAnswered == \A p \in Proc : (req[p] # None) ~> (req[p] = None)

\* The store is linearizable: with the map seen as Committed, every request
\* takes effect in one step, on the map and on the file, or not at all.
Atomic ==
    INSTANCE AtomicFleet WITH
        live <- IF up THEN Committed ELSE Down,
        disk <- file,
        asked <- [p \in Proc |-> IF pc[p] = "swap" THEN None ELSE req[p]],
        answer <- [p \in Proc |-> IF pc[p] = "swap" THEN "reloaded" ELSE reply[p]]

Linearizable == Atomic!Spec

=============================================================================
