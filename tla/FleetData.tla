------------------------------ MODULE FleetData ------------------------------
(***************************************************************************)
(* The values of the fleet store (internal/fleet): machine profiles, the   *)
(* map of machines, entity tags, and the requests that change the map.     *)
(*                                                                         *)
(* A Profile has eight fields in the code.  The store tells two parts of   *)
(* it apart: the fields profileETag hashes (`content`: boot, name, the     *)
(* side files and the params) and the one it does not (`rescue`).          *)
(***************************************************************************)

CONSTANTS
    MAC,        \* canonical MAC addresses
    Content,    \* values of the profile fields that profileETag hashes
    Rescue,     \* values of Profile.Rescue
    Absent,     \* the MAC has no entry in the map
    Broken,     \* a fleet.yaml that does not parse or does not validate
    NoTag,      \* an empty If-Match header
    None        \* a caller has no request in flight, or has read nothing

Profile == [content : Content, rescue : Rescue]

Entry == Profile \cup {Absent}

\* Fleet.machines, and what a valid fleet.yaml holds.
Machines == [MAC -> Entry]

Tag == MAC \X Content

\* profileETag: a hash over the MAC and every field but Rescue.  Hashing is
\* injective on what it reads.
ETag(m, p) == <<m, p.content>>

(***************************************************************************)
(* A request to change the store.  `entry` is what it wants the map to     *)
(* hold for `mac`: a profile for create and update, nothing for delete.    *)
(* An update without If-Match is refused before it becomes a request.      *)
(***************************************************************************)
Change ==
    [op : {"create"}, mac : MAC, entry : Profile, ifMatch : {NoTag}]
    \cup [op : {"update"}, mac : MAC, entry : Profile, ifMatch : Tag]
    \cup [op : {"delete"}, mac : MAC, entry : {Absent}, ifMatch : Tag \cup {NoTag}]

ReloadRequest == [op |-> "reload"]

Request == Change \cup {ReloadRequest}

\* What a caller knows of a machine: its profile, and its tag if it got one.
Reading == [mac : MAC, profile : Profile, tag : Tag \cup {NoTag}]

\* "none": nothing answered yet.  "failed": the Save or the reload failed.
Answer == {"none", "required", "exists", "absent", "gone", "precondition",
           "failed", "saved", "reloaded"}

\* Mutant of Refusal: a delete does not look at its If-Match.
RefusalDeletesAnyway(r, found) ==
    IF r.op = "create"
    THEN IF found # Absent THEN "exists" ELSE "none"
    ELSE IF found = Absent
    THEN IF r.op = "delete" THEN "gone" ELSE "absent"
    ELSE IF r.op = "update" /\ ETag(r.mac, found) # r.ifMatch
    THEN "precondition"
    ELSE "none"

\* The comparison a transaction makes against the entry it found, under mu:
\* the first test that applies decides, "none" lets the request through.
Refusal(r, found) ==
    IF r.op = "create"
    THEN IF found # Absent THEN "exists" ELSE "none"
    ELSE IF found = Absent
    THEN IF r.op = "delete" THEN "gone" ELSE "absent"
    ELSE IF r.ifMatch # NoTag /\ ETag(r.mac, found) # r.ifMatch
    THEN "precondition"
    ELSE "none"

Put(machines, m, e) == [machines EXCEPT ![m] = e]

\* The values that stand for nothing are nothing else.
ASSUME DataAssumption ==
    /\ Absent \notin Profile
    /\ Broken \notin Machines
    /\ NoTag \notin Tag
    /\ None \notin Request \cup Reading

=============================================================================
