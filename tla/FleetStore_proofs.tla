-------------------------- MODULE FleetStore_proofs --------------------------
(***************************************************************************)
(* Proofs about FleetStore, for every set of callers, machines, profile    *)
(* contents and rescue files.  The inductive invariant IInv adds to the    *)
(* property WriteThrough what each caller has in hand: without it a        *)
(* rollback or a rename could write anything.                              *)
(***************************************************************************)
EXTENDS FleetStore, TLAPS

IInv ==
    /\ TypeOK
    /\ SaveMuExcludes
    /\ CallsMatchRequests
    /\ OwnChangeStays
    /\ WriteThrough

-----------------------------------------------------------------------------
\* Replacing the entry of one machine gives a map, and only that entry of it
\* differs.
LEMMA PutIsMap ==
    ASSUME NEW f \in Machines, NEW m \in MAC, NEW e \in Entry
    PROVE  /\ Put(f, m, e) \in Machines
           /\ Put(f, m, e)[m] = e
           /\ \A n \in MAC \ {m} : Put(f, m, e)[n] = f[n]
  BY DEF Put, Machines

\* Putting an entry and then the one that was there gives back the map: what
\* Rollback relies on.
LEMMA PutBack ==
    ASSUME NEW f \in Machines, NEW m \in MAC, NEW e \in Entry
    PROVE  Put(Put(f, m, e), m, f[m]) = f
  BY DEF Put, Machines

\* The fields of a change.
LEMMA ChangeTyped ==
    ASSUME NEW r \in Change
    PROVE  /\ r.mac \in MAC
           /\ r.entry \in Entry
           /\ r.op \in {"create", "update", "delete"}
           /\ r.op = "create" => r.ifMatch = NoTag
           /\ r.entry = Absent <=> r.op = "delete"
  BY DataAssumption DEF Change, Entry

\* The requests a caller can send are requests.
LEMMA RequestsTyped ==
    ASSUME TypeOK, NEW p \in Proc
    PROVE  Requests(p) \subseteq Request
  BY DEF Requests, Request

\* What a caller keeps of an answer of the API is a reading.
LEMMA ReadingTyped ==
    ASSUME NEW m \in MAC, NEW e \in Profile, NEW t \in Tag \cup {NoTag}
    PROVE  [mac |-> m, profile |-> e, tag |-> t] \in Reading
  BY DEF Reading

\* A profile has an ETag, and a reading that gets it is still a reading.
LEMMA TagTyped ==
    ASSUME NEW m \in MAC, NEW e \in Profile
    PROVE  ETag(m, e) \in Tag
  BY DEF ETag, Tag, Profile

LEMMA ReadingTagged ==
    ASSUME NEW r \in Reading, NEW t \in Tag
    PROVE  [r EXCEPT !.tag = t] \in Reading
  BY DEF Reading

\* What a finished call leaves behind is typed.
LEMMA ReturnTyped ==
    ASSUME TypeOK, NEW p \in Proc, NEW a \in Answer, Return(p, a)
    PROVE  /\ up' \in BOOLEAN
           /\ saveMu' \in Proc \cup {Free}
           /\ pc' \in [Proc -> {"idle", "etag", "lock"} \cup Critical]
           /\ req' \in [Proc -> Request \cup {None}]
           /\ prior' \in [Proc -> Entry]
           /\ buf' \in [Proc -> Machines]
           /\ reply' \in [Proc -> Answer]
<1>1. Absent \in Entry /\ NoMachines \in Machines
  BY DEF Entry, NoMachines, Machines
<1>2. QED
  BY <1>1 DEF TypeOK, Return

\* Every action keeps the types.
LEMMA TypeStep == IInv /\ [Next]_vars => TypeOK'
<1> SUFFICES ASSUME IInv, [Next]_vars PROVE TypeOK'
  OBVIOUS
<1>0. TypeOK /\ CallsMatchRequests
  BY DEF IInv
<1>1. ASSUME NEW p \in Proc, GetBody(p) PROVE TypeOK'
  <2>1. PICK m \in MAC :
          /\ machines[m] # Absent
          /\ seen' = [seen EXCEPT ![p] = [mac |-> m, profile |-> machines[m], tag |-> NoTag]]
    BY <1>1 DEF GetBody
  <2>2. machines[m] \in Profile
    BY <1>0, <2>1 DEF TypeOK, Machines, Entry
  <2>3. [mac |-> m, profile |-> machines[m], tag |-> NoTag] \in Reading
    BY <2>2, ReadingTyped
  <2>4. seen' \in [Proc -> Reading \cup {None}]
    BY <1>0, <2>1, <2>3 DEF TypeOK
  <2>5. QED
    BY <1>0, <1>1, <2>4 DEF TypeOK, GetBody
<1>2. ASSUME NEW p \in Proc, GetETag(p) PROVE TypeOK'
  <2> DEFINE m == seen[p].mac
  <2>1. seen[p] \in Reading
    BY <1>0, <1>2 DEF TypeOK, CallsMatchRequests, GetETag
  <2>2. m \in MAC
    BY <2>1 DEF Reading
  <2>3. seen' \in [Proc -> Reading \cup {None}]
    <3>1. CASE machines[m] = Absent
      BY <1>0, <1>2, <3>1 DEF TypeOK, GetETag
    <3>2. CASE machines[m] # Absent
      <4>1. machines[m] \in Profile
        BY <1>0, <2>2, <3>2 DEF TypeOK, Machines, Entry
      <4>2. [seen[p] EXCEPT !.tag = ETag(m, machines[m])] \in Reading
        BY <2>1, <2>2, <4>1, TagTyped, ReadingTagged
      <4>3. seen' = [seen EXCEPT ![p] = [seen[p] EXCEPT !.tag = ETag(m, machines[m])]]
        BY <1>2, <3>2 DEF GetETag
      <4>4. QED
        BY <1>0, <4>2, <4>3 DEF TypeOK
    <3>3. QED
      BY <3>1, <3>2
  <2>4. pc' \in [Proc -> {"idle", "etag", "lock"} \cup Critical]
    BY <1>0, <1>2 DEF TypeOK, GetETag
  <2>5. QED
    BY <1>0, <1>2, <2>3, <2>4 DEF TypeOK, GetETag
<1>3. ASSUME NEW p \in Proc, Submit(p) PROVE TypeOK'
  <2>1. PICK r \in Requests(p) : req' = [req EXCEPT ![p] = r]
    BY <1>3 DEF Submit
  <2>2. r \in Request
    BY <1>0, <2>1, RequestsTyped
  <2>3. QED
    BY <1>0, <1>3, <2>1, <2>2 DEF TypeOK, Submit, Answer
<1>4. ASSUME NEW p \in Proc, SubmitNoIfMatch(p) PROVE TypeOK'
  BY <1>0, <1>4 DEF TypeOK, SubmitNoIfMatch, locals, Answer
<1>5. ASSUME NEW p \in Proc, Lock(p) PROVE TypeOK'
  BY <1>0, <1>5 DEF TypeOK, Lock, locals, Critical
<1>6. ASSUME NEW p \in Proc, Refuse(p) PROVE TypeOK'
  <2>1. PICK a : a = Refusal(req[p], machines[req[p].mac]) /\ Return(p, a)
    BY <1>6 DEF Refuse
  <2>2. a \in Answer
    BY <2>1 DEF Refusal, Answer
  <2>3. QED
    BY <1>0, <1>6, <2>1, <2>2, ReturnTyped DEF TypeOK, Refuse
<1>7. ASSUME NEW p \in Proc, Mutate(p) PROVE TypeOK'
  <2>1. req[p] \in Change
    BY <1>0, <1>7 DEF CallsMatchRequests, Mutate
  <2>2. req[p].mac \in MAC /\ req[p].entry \in Entry
    BY <2>1, ChangeTyped
  <2>3. machines' \in Machines
    BY <1>0, <1>7, <2>2, PutIsMap DEF TypeOK, Mutate
  <2>4. machines[req[p].mac] \in Entry
    BY <1>0, <2>2 DEF TypeOK, Machines
  <2>5. QED
    BY <1>0, <1>7, <2>3, <2>4 DEF TypeOK, Mutate, Critical
<1>8. ASSUME NEW p \in Proc, Serialise(p) PROVE TypeOK'
  BY <1>0, <1>8 DEF TypeOK, Serialise, Critical
<1>9. ASSUME NEW p \in Proc, Rename(p) PROVE TypeOK'
  <2>1. req[p] \in Change
    BY <1>0, <1>9 DEF CallsMatchRequests, Rename
  <2>2. req[p].mac \in MAC /\ req[p].entry \in Entry
    BY <2>1, ChangeTyped
  <2>3. seen' \in [Proc -> Reading \cup {None}]
    <3>1. CASE req[p].entry = Absent
      BY <1>0, <1>9, <3>1 DEF TypeOK, Rename
    <3>2. CASE req[p].entry # Absent
      <4>1. req[p].entry \in Profile
        BY <2>2, <3>2 DEF Entry
      <4>2. [mac |-> req[p].mac, profile |-> req[p].entry,
             tag |-> ETag(req[p].mac, req[p].entry)] \in Reading
        BY <2>2, <4>1, TagTyped, ReadingTyped
      <4>3. seen' = [seen EXCEPT ![p] =
                       [mac |-> req[p].mac, profile |-> req[p].entry,
                        tag |-> ETag(req[p].mac, req[p].entry)]]
        BY <1>9, <3>2 DEF Rename
      <4>4. QED
        BY <1>0, <4>2, <4>3 DEF TypeOK
    <3>3. QED
      BY <3>1, <3>2
  <2>4. Return(p, "saved") /\ "saved" \in Answer
    BY <1>9 DEF Rename, Answer
  <2>5. file' \in Machines
    BY <1>0, <1>9 DEF TypeOK, Rename
  <2>6. machines' = machines /\ edited' \in BOOLEAN
    BY <1>9 DEF Rename
  <2>7. QED
    BY <1>0, <2>3, <2>4, <2>5, <2>6, ReturnTyped DEF TypeOK
<1>10. ASSUME NEW p \in Proc, SaveFails(p) PROVE TypeOK'
  BY <1>0, <1>10 DEF TypeOK, SaveFails, locals, Critical
<1>11. ASSUME NEW p \in Proc, Rollback(p) PROVE TypeOK'
  <2>1. req[p] \in Change
    BY <1>0, <1>11 DEF CallsMatchRequests, Rollback
  <2>2. req[p].mac \in MAC /\ prior[p] \in Entry
    BY <1>0, <2>1, ChangeTyped DEF TypeOK
  <2>3. machines' \in Machines
    BY <1>0, <1>11, <2>2, PutIsMap DEF TypeOK, Rollback
  <2>4. Return(p, "failed") /\ "failed" \in Answer
    BY <1>11 DEF Rollback, Answer
  <2>5. file' = file /\ edited' = edited /\ seen' = seen
    BY <1>11 DEF Rollback
  <2>6. QED
    BY <1>0, <2>3, <2>4, <2>5, ReturnTyped DEF TypeOK
<1>12. ASSUME NEW p \in Proc, ReadFile(p) PROVE TypeOK'
  BY <1>0, <1>12 DEF TypeOK, ReadFile, Critical
<1>13. ASSUME NEW p \in Proc, ReadFails(p) PROVE TypeOK'
  <2>1. Return(p, "failed") /\ "failed" \in Answer
    BY <1>13 DEF ReadFails, Answer
  <2>2. QED
    BY <1>0, <1>13, <2>1, ReturnTyped DEF TypeOK, ReadFails
<1>14. ASSUME NEW p \in Proc, Swap(p) PROVE TypeOK'
  <2>1. Return(p, "reloaded") /\ "reloaded" \in Answer
    BY <1>14 DEF Swap, Answer
  <2>2. QED
    BY <1>0, <1>14, <2>1, ReturnTyped DEF TypeOK, Swap
<1>15. ASSUME HandEdit PROVE TypeOK'
  BY <1>0, <1>15 DEF TypeOK, HandEdit, locals
<1>16. ASSUME Crash PROVE TypeOK'
  <2>1. Absent \in Entry /\ NoMachines \in Machines
    BY DEF Entry, NoMachines, Machines
  <2>2. QED
    BY <1>0, <1>16, <2>1 DEF TypeOK, Crash, Answer
<1>17. ASSUME Start PROVE TypeOK'
  BY <1>0, <1>17 DEF TypeOK, Start, locals
<1>18. ASSUME UNCHANGED vars PROVE TypeOK'
  BY <1>0, <1>18 DEF TypeOK, vars
<1>19. QED
  BY <1>1, <1>2, <1>3, <1>4, <1>5, <1>6, <1>7, <1>8, <1>9, <1>10, <1>11, <1>12, <1>13, <1>14, <1>15, <1>16, <1>17, <1>18 DEF Next, Step

\* Only the holder of saveMu is inside, and it gives the lock back when it leaves.
LEMMA ExcludesStep == IInv /\ [Next]_vars => SaveMuExcludes'
<1> SUFFICES ASSUME IInv, [Next]_vars PROVE SaveMuExcludes'
  OBVIOUS
<1> USE DEF IInv, TypeOK, SaveMuExcludes, CallsMatchRequests, Critical
<1>1. ASSUME NEW p \in Proc, GetBody(p) PROVE SaveMuExcludes'
  BY <1>1 DEF GetBody
<1>2. ASSUME NEW p \in Proc, GetETag(p) PROVE SaveMuExcludes'
  BY <1>2 DEF GetETag
<1>3. ASSUME NEW p \in Proc, Submit(p) PROVE SaveMuExcludes'
  BY <1>3 DEF Submit
<1>4. ASSUME NEW p \in Proc, SubmitNoIfMatch(p) PROVE SaveMuExcludes'
  BY <1>4 DEF SubmitNoIfMatch, locals
<1>5. ASSUME NEW p \in Proc, Lock(p) PROVE SaveMuExcludes'
  BY <1>5, ProcAssumption DEF Lock, locals
<1>6. ASSUME NEW p \in Proc, Refuse(p) PROVE SaveMuExcludes'
  BY <1>6, ProcAssumption DEF Refuse, Return
<1>7. ASSUME NEW p \in Proc, Mutate(p) PROVE SaveMuExcludes'
  BY <1>7 DEF Mutate
<1>8. ASSUME NEW p \in Proc, Serialise(p) PROVE SaveMuExcludes'
  BY <1>8 DEF Serialise
<1>9. ASSUME NEW p \in Proc, Rename(p) PROVE SaveMuExcludes'
  BY <1>9, ProcAssumption DEF Rename, Return
<1>10. ASSUME NEW p \in Proc, SaveFails(p) PROVE SaveMuExcludes'
  BY <1>10 DEF SaveFails, locals
<1>11. ASSUME NEW p \in Proc, Rollback(p) PROVE SaveMuExcludes'
  BY <1>11, ProcAssumption DEF Rollback, Return
<1>12. ASSUME NEW p \in Proc, ReadFile(p) PROVE SaveMuExcludes'
  BY <1>12 DEF ReadFile
<1>13. ASSUME NEW p \in Proc, ReadFails(p) PROVE SaveMuExcludes'
  BY <1>13, ProcAssumption DEF ReadFails, Return
<1>14. ASSUME NEW p \in Proc, Swap(p) PROVE SaveMuExcludes'
  BY <1>14, ProcAssumption DEF Swap, Return
<1>15. ASSUME HandEdit PROVE SaveMuExcludes'
  BY <1>15 DEF HandEdit, locals
<1>16. ASSUME Crash PROVE SaveMuExcludes'
  BY <1>16, ProcAssumption DEF Crash
<1>17. ASSUME Start PROVE SaveMuExcludes'
  BY <1>17 DEF Start, locals
<1>18. ASSUME UNCHANGED vars PROVE SaveMuExcludes'
  BY <1>18 DEF vars
<1>19. QED
  BY <1>1, <1>2, <1>3, <1>4, <1>5, <1>6, <1>7, <1>8, <1>9, <1>10, <1>11, <1>12, <1>13, <1>14, <1>15, <1>16, <1>17, <1>18 DEF Next, Step

\* Every place in a call goes with the request that led there.
LEMMA CallsStep == IInv /\ [Next]_vars => CallsMatchRequests'
<1> SUFFICES ASSUME IInv, [Next]_vars PROVE CallsMatchRequests'
  OBVIOUS
<1> USE DEF IInv, TypeOK, CallsMatchRequests, SaveMuExcludes, Critical
<1>1. ASSUME NEW p \in Proc, GetBody(p) PROVE CallsMatchRequests'
  BY <1>1, DataAssumption DEF GetBody, Reading, Machines, Entry, Tag
<1>2. ASSUME NEW p \in Proc, GetETag(p) PROVE CallsMatchRequests'
  BY <1>2 DEF GetETag
<1>3. ASSUME NEW p \in Proc, Submit(p) PROVE CallsMatchRequests'
  BY <1>3, DataAssumption, RequestsTyped DEF Submit
<1>4. ASSUME NEW p \in Proc, SubmitNoIfMatch(p) PROVE CallsMatchRequests'
  BY <1>4 DEF SubmitNoIfMatch, locals
<1>5. ASSUME NEW p \in Proc, Lock(p) PROVE CallsMatchRequests'
  BY <1>5, DataAssumption DEF Lock, Request, Change, ReloadRequest, locals
<1>6. ASSUME NEW p \in Proc, Refuse(p) PROVE CallsMatchRequests'
  BY <1>6 DEF Refuse, Return
<1>7. ASSUME NEW p \in Proc, Mutate(p) PROVE CallsMatchRequests'
  BY <1>7 DEF Mutate
<1>8. ASSUME NEW p \in Proc, Serialise(p) PROVE CallsMatchRequests'
  BY <1>8 DEF Serialise
<1>9. ASSUME NEW p \in Proc, Rename(p) PROVE CallsMatchRequests'
  BY <1>9 DEF Rename, Return
<1>10. ASSUME NEW p \in Proc, SaveFails(p) PROVE CallsMatchRequests'
  BY <1>10 DEF SaveFails, locals
<1>11. ASSUME NEW p \in Proc, Rollback(p) PROVE CallsMatchRequests'
  BY <1>11 DEF Rollback, Return
<1>12. ASSUME NEW p \in Proc, ReadFile(p) PROVE CallsMatchRequests'
  BY <1>12 DEF ReadFile
<1>13. ASSUME NEW p \in Proc, ReadFails(p) PROVE CallsMatchRequests'
  BY <1>13 DEF ReadFails, Return
<1>14. ASSUME NEW p \in Proc, Swap(p) PROVE CallsMatchRequests'
  BY <1>14 DEF Swap, Return
<1>15. ASSUME HandEdit PROVE CallsMatchRequests'
  BY <1>15 DEF HandEdit, locals
<1>16. ASSUME Crash PROVE CallsMatchRequests'
  BY <1>16 DEF Crash
<1>17. ASSUME Start PROVE CallsMatchRequests'
  BY <1>17 DEF Start, locals
<1>18. ASSUME UNCHANGED vars PROVE CallsMatchRequests'
  BY <1>18 DEF vars
<1>19. QED
  BY <1>1, <1>2, <1>3, <1>4, <1>5, <1>6, <1>7, <1>8, <1>9, <1>10, <1>11, <1>12, <1>13, <1>14, <1>15, <1>16, <1>17, <1>18 DEF Next, Step

\* Only the holder of saveMu touches the map, so what it wrote is still there.
LEMMA OwnStep == IInv /\ [Next]_vars => OwnChangeStays'
<1> SUFFICES ASSUME IInv, [Next]_vars PROVE OwnChangeStays'
  OBVIOUS
<1> USE DEF IInv, TypeOK, CallsMatchRequests, SaveMuExcludes, OwnChangeStays, Critical
<1>1. ASSUME NEW p \in Proc, GetBody(p) PROVE OwnChangeStays'
  BY <1>1 DEF GetBody
<1>2. ASSUME NEW p \in Proc, GetETag(p) PROVE OwnChangeStays'
  BY <1>2 DEF GetETag
<1>3. ASSUME NEW p \in Proc, Submit(p) PROVE OwnChangeStays'
  BY <1>3 DEF Submit
<1>4. ASSUME NEW p \in Proc, SubmitNoIfMatch(p) PROVE OwnChangeStays'
  BY <1>4 DEF SubmitNoIfMatch, locals
<1>5. ASSUME NEW p \in Proc, Lock(p) PROVE OwnChangeStays'
  BY <1>5 DEF Lock, locals
<1>6. ASSUME NEW p \in Proc, Refuse(p) PROVE OwnChangeStays'
  BY <1>6 DEF Refuse, Return
<1>7. ASSUME NEW p \in Proc, Mutate(p) PROVE OwnChangeStays'
  BY <1>7 DEF Mutate, Put, Machines, Change
<1>8. ASSUME NEW p \in Proc, Serialise(p) PROVE OwnChangeStays'
  BY <1>8 DEF Serialise
<1>9. ASSUME NEW p \in Proc, Rename(p) PROVE OwnChangeStays'
  BY <1>9 DEF Rename, Return
<1>10. ASSUME NEW p \in Proc, SaveFails(p) PROVE OwnChangeStays'
  BY <1>10 DEF SaveFails, locals
<1>11. ASSUME NEW p \in Proc, Rollback(p) PROVE OwnChangeStays'
  BY <1>11 DEF Rollback, Return
<1>12. ASSUME NEW p \in Proc, ReadFile(p) PROVE OwnChangeStays'
  BY <1>12 DEF ReadFile
<1>13. ASSUME NEW p \in Proc, ReadFails(p) PROVE OwnChangeStays'
  BY <1>13 DEF ReadFails, Return
<1>14. ASSUME NEW p \in Proc, Swap(p) PROVE OwnChangeStays'
  BY <1>14 DEF Swap, Return
<1>15. ASSUME HandEdit PROVE OwnChangeStays'
  BY <1>15 DEF HandEdit, locals
<1>16. ASSUME Crash PROVE OwnChangeStays'
  BY <1>16 DEF Crash
<1>17. ASSUME Start PROVE OwnChangeStays'
  BY <1>17 DEF Start, locals
<1>18. ASSUME UNCHANGED vars PROVE OwnChangeStays'
  BY <1>18 DEF vars
<1>19. QED
  BY <1>1, <1>2, <1>3, <1>4, <1>5, <1>6, <1>7, <1>8, <1>9, <1>10, <1>11, <1>12, <1>13, <1>14, <1>15, <1>16, <1>17, <1>18 DEF Next, Step

\* The map of the finished transactions changes at a rename, at the read of
\* a reload, and when the program starts; no other step of a caller moves it.
LEMMA CommittedStays ==
    ASSUME IInv, NEW p \in Proc,
           \/ GetBody(p) \/ GetETag(p) \/ Submit(p) \/ SubmitNoIfMatch(p) \/ Lock(p)
           \/ Refuse(p) \/ Mutate(p) \/ Serialise(p) \/ SaveFails(p) \/ Rollback(p)
           \/ ReadFails(p) \/ Swap(p)
    PROVE  Committed' = Committed
<1> USE ProcAssumption DEF IInv, TypeOK, SaveMuExcludes, CallsMatchRequests, Critical, Committed
<1>1. CASE GetBody(p) \/ GetETag(p) \/ Submit(p) \/ SubmitNoIfMatch(p)
  BY <1>1 DEF GetBody, GetETag, Submit, SubmitNoIfMatch, locals
<1>2. CASE Lock(p) \/ Refuse(p) \/ Serialise(p) \/ SaveFails(p) \/ ReadFails(p)
  BY <1>2 DEF Lock, Refuse, Serialise, SaveFails, ReadFails, Return, locals
<1>3. CASE Mutate(p)
  <2>1. saveMu = p /\ req[p] \in Change /\ Committed = machines
    BY <1>3 DEF Mutate
  <2>2. Committed' = Put(Put(machines, req[p].mac, req[p].entry), req[p].mac, machines[req[p].mac])
    BY <1>3, <2>1 DEF Mutate
  <2>3. QED
    BY <2>1, <2>2, PutBack, ChangeTyped
<1>4. CASE Rollback(p) \/ Swap(p)
  BY <1>4 DEF Rollback, Swap, Return
<1>5. QED
  BY <1>1, <1>2, <1>3, <1>4

\* The file and the map of the finished transactions move together.
LEMMA WriteStep == IInv /\ [Next]_vars => WriteThrough'
<1> SUFFICES ASSUME IInv, [Next]_vars PROVE WriteThrough'
  OBVIOUS
<1> USE DEF IInv, TypeOK, WriteThrough
<1>1. ASSUME NEW p \in Proc,
             \/ GetBody(p) \/ GetETag(p) \/ Submit(p) \/ SubmitNoIfMatch(p) \/ Lock(p)
             \/ Refuse(p) \/ Mutate(p) \/ Serialise(p) \/ SaveFails(p) \/ Rollback(p)
             \/ ReadFails(p) \/ Swap(p)
      PROVE  WriteThrough'
  BY <1>1, CommittedStays
  DEF GetBody, GetETag, Submit, SubmitNoIfMatch, Lock, Refuse, Mutate, Serialise, SaveFails,
      Rollback, ReadFails, Swap, Return, locals
<1>2. ASSUME NEW p \in Proc, Rename(p) PROVE WriteThrough'
  BY <1>2 DEF OwnChangeStays, Rename, Return, Committed
<1>3. ASSUME NEW p \in Proc, ReadFile(p) PROVE WriteThrough'
  <2>1. saveMu = p
    BY <1>3 DEF ReadFile, SaveMuExcludes, Critical
  <2>2. Committed' = file
    BY <1>3, <2>1, ProcAssumption DEF ReadFile, Committed, Critical
  <2>3. QED
    BY <1>3, <2>2 DEF ReadFile
<1>4. ASSUME HandEdit \/ Crash PROVE WriteThrough'
  BY <1>4 DEF HandEdit, Crash
<1>5. ASSUME Start PROVE WriteThrough'
  <2>1. saveMu = Free
    BY <1>5 DEF Start, SaveMuExcludes, CallsMatchRequests, Critical
  <2>2. QED
    BY <1>5, <2>1 DEF Start, locals, Committed
<1>6. ASSUME UNCHANGED vars PROVE WriteThrough'
  BY <1>6 DEF vars, Committed
<1>7. QED
  BY <1>1, <1>2, <1>3, <1>4, <1>5, <1>6 DEF Next, Step

-----------------------------------------------------------------------------
\* Load leaves the file and the memory equal, and nobody has called.
LEMMA InitInvariant == Init => IInv
<1> SUFFICES ASSUME Init PROVE IInv
  OBVIOUS
<1>1. TypeOK
  BY DEF Init, TypeOK, NoMachines, Machines, Entry, Answer
<1>2. SaveMuExcludes /\ CallsMatchRequests /\ OwnChangeStays
  BY ProcAssumption DEF Init, SaveMuExcludes, CallsMatchRequests, OwnChangeStays, Critical
<1>3. WriteThrough
  BY DEF Init, WriteThrough, Committed
<1>4. QED
  BY <1>1, <1>2, <1>3 DEF IInv

\* Every step keeps every part of the invariant.
LEMMA StepInvariant == IInv /\ [Next]_vars => IInv'
  BY TypeStep, ExcludesStep, CallsStep, OwnStep, WriteStep DEF IInv

\* The invariant holds in every state: saveMu serialises the transactions and
\* the reloads, and each of them leaves file and memory equal.
THEOREM Invariance == Spec => []IInv
  BY InitInvariant, StepInvariant, PTL DEF Spec

\* Every variable keeps its type: in particular, memory only ever holds a
\* whole, valid map, whatever an operator writes into the file.
THEOREM TypeCorrect == Spec => []TypeOK
<1>1. IInv => TypeOK
  BY DEF IInv
<1>2. QED
  BY <1>1, Invariance, PTL

\* No two callers are between their comparison and their return at once.
THEOREM MutualExclusion == Spec => []SaveMuExcludes
<1>1. IInv => SaveMuExcludes
  BY DEF IInv
<1>2. QED
  BY <1>1, Invariance, PTL

\* Between its mutation and its return a transaction finds the map as it
\* left it.
THEOREM ChangesStay == Spec => []OwnChangeStays
<1>1. IInv => OwnChangeStays
  BY DEF IInv
<1>2. QED
  BY <1>1, Invariance, PTL

\* While nobody has edited fleet.yaml by hand, it holds exactly what the
\* finished transactions left in memory.
THEOREM FileEqualsMemory == Spec => []WriteThrough
<1>1. IInv => WriteThrough
  BY DEF IInv
<1>2. QED
  BY <1>1, Invariance, PTL

-----------------------------------------------------------------------------
\* What a transaction that is about to be saved replaces is the entry it found.
LEMMA ReplacesPrior ==
    ASSUME IInv, NEW p \in Proc, pc[p] = "rename"
    PROVE  /\ saveMu = p
           /\ req[p] \in Change
           /\ Committed = Put(machines, req[p].mac, prior[p])
           /\ Committed[req[p].mac] = prior[p]
           /\ Refusal(req[p], prior[p]) = "none"
           /\ machines[req[p].mac] = req[p].entry
           /\ buf[p] = machines
<1>1. saveMu = p /\ req[p] \in Change
  BY DEF IInv, SaveMuExcludes, CallsMatchRequests, Critical
<1>2. Committed = Put(machines, req[p].mac, prior[p])
  BY <1>1, ProcAssumption DEF Committed
<1>3. Committed[req[p].mac] = prior[p]
  BY <1>1, <1>2, PutIsMap, ChangeTyped DEF IInv, TypeOK
<1>4. QED
  BY <1>1, <1>2, <1>3 DEF IInv, OwnChangeStays

\* At the rename of a conditional change the machine still has, in the map
\* of the finished transactions, the tag the caller asked for.
THEOREM ConditionalCommits == Spec => CommitsOverItsTag
<1>1. ASSUME IInv, NEW p \in Proc PROVE ReplacesItsTag(p)
  <2>1. SUFFICES ASSUME pc[p] = "rename", req[p].ifMatch # NoTag
                 PROVE  /\ prior[p] # Absent
                        /\ ETag(req[p].mac, prior[p]) = req[p].ifMatch
    BY <1>1, ReplacesPrior DEF ReplacesItsTag
  <2>2. req[p].op # "create" /\ Refusal(req[p], prior[p]) = "none"
    BY <1>1, <2>1, ReplacesPrior, ChangeTyped
  <2>3. QED
    BY <2>1, <2>2 DEF Refusal
<1>2. IInv => [\A p \in Proc : ReplacesItsTag(p)]_vars
  BY <1>1
<1>3. QED
  BY <1>2, Invariance, PTL DEF CommitsOverItsTag

-----------------------------------------------------------------------------
(***************************************************************************)
(* The store implements the atomic map.  The refinement mapping:           *)
(***************************************************************************)
Live == IF up THEN Committed ELSE Down
Asked == [p \in Proc |-> IF pc[p] = "swap" THEN None ELSE req[p]]
Said == [p \in Proc |-> IF pc[p] = "swap" THEN "reloaded" ELSE reply[p]]

\* Both modules read the same definitions of the values.
LEMMA SameValues ==
    /\ Atomic!Machines = Machines
    /\ Atomic!Change = Change
    /\ Atomic!Request = Request
    /\ Atomic!ReloadRequest = ReloadRequest
    /\ \A r, x : Atomic!Refusal(r, x) = Refusal(r, x)
    /\ \A f, m, e : Atomic!Put(f, m, e) = Put(f, m, e)
  BY DEF Atomic!Machines, Machines, Atomic!Entry, Entry, Atomic!Profile, Profile,
         Atomic!Change, Change, Atomic!Request, Request, Atomic!ReloadRequest, ReloadRequest,
         Atomic!Tag, Tag, Atomic!Refusal, Refusal, Atomic!ETag, ETag, Atomic!Put, Put

\* The map of the finished transactions is a map, never a broken file.
LEMMA CommittedIsMap ==
    ASSUME IInv
    PROVE  Committed \in Machines
<1> USE DEF IInv, TypeOK, CallsMatchRequests
<1>1. CASE saveMu = Free
  BY <1>1 DEF Committed
<1>2. CASE saveMu \in Proc
  BY <1>2, PutIsMap, ChangeTyped, ProcAssumption DEF Committed
<1>3. QED
  BY <1>1, <1>2

\* A step of a caller that leaves what the callers were told alone is a
\* stutter of the atomic map.
LEMMA SilentSteps ==
    ASSUME IInv, NEW p \in Proc,
           \/ GetBody(p) \/ GetETag(p) \/ Lock(p) \/ Mutate(p) \/ Serialise(p)
           \/ SaveFails(p) \/ Swap(p)
    PROVE  UNCHANGED Atomic!vars
<1> USE DEF IInv, TypeOK, CallsMatchRequests, Critical
<1>1. Live' = Live /\ file' = file
  BY CommittedStays DEF Live, GetBody, GetETag, Lock, Mutate, Serialise, SaveFails, Swap, Return
<1>2. Asked' = Asked /\ Said' = Said
  <2>1. CASE Swap(p)
    BY <2>1 DEF Asked, Said, Swap, Return
  <2>2. CASE GetBody(p) \/ GetETag(p) \/ Lock(p) \/ Mutate(p) \/ Serialise(p) \/ SaveFails(p)
    BY <2>2 DEF Asked, Said, GetBody, GetETag, Lock, Mutate, Serialise, SaveFails, locals
  <2>3. QED
    BY <2>1, <2>2
<1>3. QED
  BY <1>1, <1>2 DEF Atomic!vars, Live, Asked, Said

\* Sending a request is asking the atomic map.
LEMMA SubmitRefines ==
    ASSUME IInv, NEW p \in Proc, Submit(p) \/ SubmitNoIfMatch(p)
    PROVE  Atomic!Ask(p)
<1> USE DEF IInv, TypeOK, CallsMatchRequests, Critical
<1>1. Live # Down /\ Live' = Live /\ file' = file
  BY CommittedIsMap, CommittedStays, ProcAssumption DEF Live, Submit, SubmitNoIfMatch
<1>2. Asked[p] = None
  BY DEF Asked, Submit, SubmitNoIfMatch
<1>3. CASE Submit(p)
  <2>1. PICK r \in Request : req' = [req EXCEPT ![p] = r]
    BY <1>3, RequestsTyped DEF Submit
  <2>2. Asked' = [Asked EXCEPT ![p] = r]
    BY <1>3, <2>1 DEF Asked, Submit
  <2>3. Said' = [Said EXCEPT ![p] = "none"]
    BY <1>3 DEF Said, Submit
  <2>4. QED
    BY <1>1, <1>2, <2>2, <2>3, SameValues DEF Atomic!Ask, Live, Asked, Said
<1>4. CASE SubmitNoIfMatch(p)
  <2>1. Asked' = [Asked EXCEPT ![p] = None] /\ Said' = [Said EXCEPT ![p] = "required"]
    BY <1>4 DEF Asked, Said, SubmitNoIfMatch, locals
  <2>2. QED
    BY <1>1, <1>2, <2>1 DEF Atomic!Ask, Atomic!Answers, Live, Asked, Said
<1>5. QED
  BY <1>3, <1>4

\* A call that returns an error changes nothing.
LEMMA ErrorsRefine ==
    ASSUME IInv, NEW p \in Proc, Refuse(p) \/ Rollback(p)
    PROVE  Atomic!Serve(p)
<1> USE DEF IInv, TypeOK, CallsMatchRequests, SaveMuExcludes, OwnChangeStays, Critical
<1>1. up /\ saveMu = p /\ req[p] \in Change
  BY DEF Refuse, Rollback
<1>2. Live # Down /\ Live' = Live /\ file' = file
  BY <1>1, CommittedIsMap, CommittedStays, ProcAssumption DEF Live, Refuse, Rollback, Return
<1>3. Asked[p] = req[p]
  BY DEF Asked, Refuse, Rollback
<1>4. PICK a \in {Refusal(req[p], Live[req[p].mac]), "failed"} \ {"none"} : Return(p, a)
  <2>1. CASE Refuse(p)
    BY <1>1, <2>1, ProcAssumption DEF Refuse, Live, Committed
  <2>2. CASE Rollback(p)
    BY <2>2 DEF Rollback
  <2>3. QED
    BY <2>1, <2>2
<1>5. Asked' = [Asked EXCEPT ![p] = None] /\ Said' = [Said EXCEPT ![p] = a]
  BY <1>4 DEF Asked, Said, Return, Refuse, Rollback
<1>6. Atomic!Refuse(p)
  BY <1>1, <1>2, <1>3, <1>4, <1>5, SameValues DEF Atomic!Refuse, Atomic!Answers, Live, Asked, Said
<1>7. QED
  BY <1>2, <1>6 DEF Atomic!Serve, Live

\* A rename commits: the map and the file change together.
LEMMA RenameRefines ==
    ASSUME IInv, NEW p \in Proc, Rename(p)
    PROVE  Atomic!Serve(p)
<1> USE DEF IInv, TypeOK, CallsMatchRequests, Critical
<1> DEFINE m == req[p].mac
           e == req[p].entry
<1>1. /\ up
      /\ pc[p] = "rename"
      /\ saveMu = p
      /\ req[p] \in Change
      /\ Live = Put(machines, m, prior[p])
      /\ Live[m] = prior[p]
      /\ Refusal(req[p], prior[p]) = "none"
      /\ machines[m] = e
      /\ buf[p] = machines
  BY ReplacesPrior DEF Rename, Live
<1>2. Live' = machines /\ file' = machines
  BY <1>1 DEF Rename, Return, Live, Committed
<1>3. Put(Live, m, e) = machines
  BY <1>1, PutBack, ChangeTyped
<1>4. Asked[p] = req[p]
  BY <1>1 DEF Asked
<1>5. Asked' = [Asked EXCEPT ![p] = None] /\ Said' = [Said EXCEPT ![p] = "saved"]
  BY <1>1 DEF Asked, Said, Return, Rename
<1>6. Atomic!Commit(p)
  BY <1>1, <1>2, <1>3, <1>4, <1>5, SameValues DEF Atomic!Commit, Atomic!Answers, Live, Asked, Said
<1>7. Live # Down
  BY <1>1, CommittedIsMap, ProcAssumption DEF Live
<1>8. QED
  BY <1>6, <1>7 DEF Atomic!Serve, Live

\* A reload takes effect when it has read the file: saveMu keeps every
\* transaction out until it has swapped the map.
LEMMA ReloadRefines ==
    ASSUME IInv, NEW p \in Proc, ReadFile(p) \/ ReadFails(p)
    PROVE  Atomic!Serve(p)
<1> USE DEF IInv, TypeOK, CallsMatchRequests, SaveMuExcludes, Critical
<1>1. up /\ saveMu = p /\ req[p] = ReloadRequest /\ Asked[p] = ReloadRequest /\ Live # Down
  BY CommittedIsMap, ProcAssumption DEF ReadFile, ReadFails, Asked, Live
<1>2. CASE ReadFile(p)
  <2>1. Live' = file /\ file' = file /\ file # Broken
    BY <1>1, <1>2, ProcAssumption DEF ReadFile, Live, Committed
  <2>2. Asked' = [Asked EXCEPT ![p] = None] /\ Said' = [Said EXCEPT ![p] = "reloaded"]
    BY <1>2 DEF Asked, Said, ReadFile
  <2>3. QED
    BY <1>1, <2>1, <2>2, SameValues DEF Atomic!Serve, Atomic!Reload, Atomic!Answers, Live, Asked, Said
<1>3. CASE ReadFails(p)
  <2>1. Live' = Live /\ file' = file /\ file = Broken
    BY <1>1, <1>3, CommittedStays DEF ReadFails, Return, Live
  <2>2. Asked' = [Asked EXCEPT ![p] = None] /\ Said' = [Said EXCEPT ![p] = "failed"]
    BY <1>3 DEF Asked, Said, ReadFails, Return
  <2>3. QED
    BY <1>1, <2>1, <2>2, SameValues DEF Atomic!Serve, Atomic!Reload, Atomic!Answers, Live, Asked, Said
<1>4. QED
  BY <1>2, <1>3

\* Hand edits, crashes and starts are what they look like.
LEMMA OutsideRefines ==
    ASSUME IInv, HandEdit \/ Crash \/ Start
    PROVE  Atomic!Edit \/ Atomic!Stop \/ Atomic!Start
<1> USE DEF IInv, TypeOK, SaveMuExcludes, CallsMatchRequests, Critical
<1>1. CASE HandEdit
  <2>1. Live' = Live /\ Asked' = Asked /\ Said' = Said
    BY <1>1 DEF HandEdit, locals, Live, Committed, Asked, Said
  <2>2. QED
    BY <1>1, <2>1, SameValues DEF HandEdit, Atomic!Edit, Live, Asked, Said
<1>2. CASE Crash
  <2>1. Live # Down /\ Live' = Down
    BY <1>2, CommittedIsMap, ProcAssumption DEF Crash, Live
  <2>2. Asked' = [p \in Proc |-> None] /\ Said' = [p \in Proc |-> "none"]
    BY <1>2 DEF Crash, Asked, Said
  <2>3. QED
    BY <1>2, <2>1, <2>2 DEF Crash, Atomic!Stop, Live, Asked, Said
<1>3. CASE Start
  <2>1. saveMu = Free /\ Live = Down /\ Live' = file
    BY <1>3 DEF Start, locals, Live, Committed
  <2>2. Asked' = Asked /\ Said' = Said
    BY <1>3 DEF Start, locals, Asked, Said
  <2>3. QED
    BY <1>3, <2>1, <2>2 DEF Start, Atomic!Start, Live, Asked, Said
<1>4. QED
  BY <1>1, <1>2, <1>3

\* Every request to the store takes effect in one step, on the map of the
\* finished transactions and on the file, or has no effect at all; a reload
\* takes effect whole or not at all.
THEOREM StoreIsLinearizable == Spec => Linearizable
<1>1. Init => Atomic!Init
  BY SameValues DEF Init, Atomic!Init, Committed
<1>2. IInv /\ [Next]_vars => [Atomic!Next]_Atomic!vars
  <2>1. ASSUME IInv, NEW p \in Proc, GetBody(p) \/ Submit(p) \/ SubmitNoIfMatch(p) \/ Lock(p) \/ Step(p)
        PROVE  Atomic!Ask(p) \/ Atomic!Serve(p) \/ UNCHANGED Atomic!vars
    BY <2>1, SilentSteps, SubmitRefines, ErrorsRefine, RenameRefines, ReloadRefines DEF Step
  <2>2. ASSUME UNCHANGED vars PROVE UNCHANGED Atomic!vars
    BY <2>2 DEF vars, Atomic!vars, Committed
  <2>3. QED
    BY <2>1, <2>2, OutsideRefines DEF Next, Atomic!Next
<1>3. QED
  BY <1>1, <1>2, Invariance, PTL DEF Spec, Linearizable, Atomic!Spec

=============================================================================
