--------------------------- MODULE UserData_proofs ---------------------------
(***************************************************************************)
(* Proofs about UserData, for every number of saves at once.               *)
(*                                                                         *)
(* That a save shows nothing before it has succeeded rests on what is in   *)
(* the temporary file while a save is alone: AloneHasTmp.  Once two saves  *)
(* have overlapped, whoever is still at work may have the override itself  *)
(* open, and nothing is promised until it is done: OverlapIsKnown.  Two    *)
(* phone_homes need a document with one of its own; the places where none  *)
(* can be that the check would have found are NoneOfItsOwn.                *)
(***************************************************************************)
EXTENDS UserData, TLAPS

\* A save that is alone has the temporary file open, and what is in it is
\* nothing or its document.
AloneHasTmp ==
    alone => \A s \in Saver : saver[s] # None =>
        /\ \A t \in Saver : saver[t] # None => t = s
        /\ saver[s].fd = "tmp"
        /\ tmp = IF saver[s].at = "open" THEN "empty" ELSE saver[s].text

OverlapIsKnown == Busy /\ ~alone => saved = Overlapped

NoneOfItsOwn ==
    /\ override # "own"
    /\ tmp # "own"
    /\ \A s \in Saver : saver[s] # None => saver[s].text # "own"
    /\ cloudInit = "own" => edited

IInv == TypeOK /\ AloneHasTmp /\ OverlapIsKnown /\ SavedIsServed /\ NoneOfItsOwn

-----------------------------------------------------------------------------
\* What a save in flight is.
LEMMA SaveTyped ==
    ASSUME TypeOK, NEW s \in Saver, saver[s] # None
    PROVE  /\ saver[s] \in Save
           /\ saver[s].at \in {"open", "written"}
           /\ saver[s].text \in Document
           /\ saver[s].fd \in {"tmp", "override", "gone"}
           /\ saver[s].fd = "tmp" => tmp # None
           /\ saver[s].fd = "override" => override # None
<1>1. saver[s] \in Save
  BY DEF TypeOK
<1> QED
  BY <1>1 DEF Save, TypeOK

\* What a write can leave in the open file: its document or a torn one, over
\* an empty file the document.
LEMMA WrittenContents ==
    ASSUME TypeOK, NEW s \in Saver, saver[s] # None
    PROVE  /\ Over(OpenFile(saver[s].fd), saver[s].text) \in SUBSET Content
           /\ "own" \in Over(OpenFile(saver[s].fd), saver[s].text) => saver[s].text = "own"
           /\ saver[s].fd = "tmp" /\ tmp = "empty" =>
                Over(OpenFile(saver[s].fd), saver[s].text) = {saver[s].text}
BY SaveTyped DEF Over, OpenFile, Content, Document

\* A write that ends in either way leaves files with contents, and removes
\* none.
LEMMA FilesStay ==
    ASSUME TypeOK, NEW s \in Saver, Write(s) \/ WriteFails(s)
    PROVE  /\ saver[s] # None
           /\ override' \in Content \cup {None}
           /\ tmp' \in Content \cup {None}
           /\ tmp # None => tmp' # None
           /\ override # None => override' # None
<1>1. saver[s] # None
  BY DEF Write, WriteFails
<1>2. CASE Write(s)
  <2> DEFINE S == Over(OpenFile(saver[s].fd), saver[s].text)
  <2>1. S \in SUBSET Content
    BY <1>1, WrittenContents
  <2>2. WriteTo(saver[s].fd, S)
    BY <1>2 DEF Write
  <2> HIDE DEF S
  <2> QED
    BY <1>1, <2>1, <2>2, SaveTyped, NoneAssumption DEF WriteTo, TypeOK
<1>3. CASE WriteFails(s)
  <2> DEFINE S == {OpenFile(saver[s].fd), "torn"}
  <2>1. S \in SUBSET Content
    BY <1>1, SaveTyped DEF OpenFile, Content, TypeOK
  <2>2. WriteTo(saver[s].fd, S)
    BY <1>3 DEF WriteFails
  <2> HIDE DEF S
  <2> QED
    BY <1>1, <2>1, <2>2, SaveTyped, NoneAssumption DEF WriteTo, TypeOK
<1> QED
  BY <1>1, <1>2, <1>3

-----------------------------------------------------------------------------
\* The program starts with no save, no override and a file that was checked.
LEMMA InitInv == Init => IInv
BY NoneAssumption
   DEF Init, IInv, TypeOK, AloneHasTmp, OverlapIsKnown, SavedIsServed,
       NoneOfItsOwn, Busy, Content, Document, SideFile

\* What is said of a document and of what a file may hold besides.
LEMMA PhoneHomes ==
    \A text \in Content :
        /\ phoneHomes(text) \subseteq {"none", "one", "two", "unknown"}
        /\ "two" \in phoneHomes(text) <=> text \in {"own", "hidden"}
BY DEF phoneHomes, Content, Document

\* An answer is typed, and ends the request.
LEMMA AnswerTyped ==
    ASSUME NEW from \in {"override", "file", "template"}, NEW text \in Content,
           Serve(from, text)
    PROVE  served' \in Answer /\ reader' = None
BY PhoneHomes DEF Serve, Failure, Answer, Content

\* Every step keeps the types.
LEMMA TypeStep == TypeOK /\ [Next]_vars => TypeOK'
<1> SUFFICES ASSUME TypeOK, [Next]_vars PROVE TypeOK'
  OBVIOUS
<1> USE NoneAssumption DEF TypeOK, fleet, editor
<1>1. ASSUME NEW s \in Saver, NEW text \in Document, Open(s, text) PROVE TypeOK'
  <2>1. [at |-> "open", text |-> text, fd |-> "tmp"] \in Save
    BY DEF Save
  <2>2. Truncated \in Content
    BY DEF Truncated, Content
  <2> QED
    BY <1>1, <2>1, <2>2 DEF Open
<1>2. ASSUME NEW s \in Saver, Write(s) PROVE TypeOK'
  <2>1. saver[s] # None
    BY <1>2 DEF Write
  <2>2. [saver[s] EXCEPT !.at = "written"] \in Save
    BY <2>1 DEF Save
  <2>3. /\ override' \in Content \cup {None}
        /\ tmp' \in Content \cup {None}
        /\ tmp # None => tmp' # None
        /\ override # None => override' # None
    BY <1>2, FilesStay
  <2>4. saver' \in [Saver -> Save \cup {None}]
    BY <1>2, <2>2 DEF Write
  <2>5. \A t \in Saver : saver'[t] # None =>
            saver[t] # None /\ saver'[t].fd = saver[t].fd
    BY <1>2, <2>1 DEF Write, Save
  <2>6. ASSUME NEW t \in Saver, saver'[t] # None
        PROVE  /\ saver'[t].fd = "tmp" => tmp' # None
               /\ saver'[t].fd = "override" => override' # None
    BY <2>3, <2>5, <2>6, SaveTyped
  <2>7. UNCHANGED <<fleet, reader, served, alone, saved>>
    BY <1>2 DEF Write
  <2> QED
    BY <2>3, <2>4, <2>6, <2>7
<1>3. ASSUME NEW s \in Saver, WriteFails(s) PROVE TypeOK'
  <2>1. saver[s] # None
    BY <1>3 DEF WriteFails
  <2>2. /\ override' \in Content \cup {None}
        /\ tmp' \in Content \cup {None}
        /\ tmp # None => tmp' # None
        /\ override # None => override' # None
    BY <1>3, FilesStay
  <2> QED
    BY <1>3, <2>2 DEF WriteFails
<1>4. ASSUME NEW s \in Saver, Rename(s) PROVE TypeOK'
  <2>1. \A t \in Saver : saver[t] # None =>
            /\ [saver[t] EXCEPT !.fd = Moved(@)] \in Save
            /\ [saver[t] EXCEPT !.fd = Moved(@)].fd # "tmp"
    BY DEF Save, Moved
  <2>2. saver' \in [Saver -> Save \cup {None}]
    BY <1>4, <2>1 DEF Rename
  <2>3. (\A t \in Saver : saver'[t] # None => saver'[t].fd # "tmp") /\ override' # None
    BY <1>4, <2>1 DEF Rename
  <2>4. saved' \in Document \cup {None, Overlapped}
    BY <1>4, SaveTyped DEF Rename
  <2> QED
    BY <1>4, <2>2, <2>3, <2>4 DEF Rename
<1>5. ASSUME NEW s \in Saver, RenameFails(s) PROVE TypeOK'
  BY <1>5 DEF RenameFails
<1>6. CASE ResetOverride
  <2>1. \A t \in Saver : saver[t] # None =>
            /\ [saver[t] EXCEPT !.fd = "gone"] \in Save
            /\ [saver[t] EXCEPT !.fd = "gone"].fd = "gone"
    BY DEF Save
  <2>2. saver' \in [Saver -> Save \cup {None}]
    BY <1>6, <2>1 DEF ResetOverride
  <2>3. \A t \in Saver : saver'[t] # None =>
            /\ saver'[t].fd # "override"
            /\ saver'[t].fd = "tmp" => saver[t] # None /\ saver[t].fd = "tmp"
    BY <1>6, <2>1 DEF ResetOverride
  <2> QED
    BY <1>6, <2>2, <2>3 DEF ResetOverride
<1>7. CASE SaveTemplate
  BY <1>7 DEF SaveTemplate
<1>8. CASE EditFile
  BY <1>8 DEF EditFile
<1>9. CASE NameFile
  BY <1>9 DEF NameFile
<1>10. CASE UnnameFile
  BY <1>10 DEF UnnameFile
<1>11. CASE GetUserData
  BY <1>11 DEF GetUserData, Request
<1>12. CASE ReadOverride
  <2>1. reader' \in Request \cup {None} /\ served' \in Answer \cup {None}
    <3>1. CASE override # None
      BY <1>12, <3>1, AnswerTyped DEF ReadOverride
    <3>2. CASE override = None
      BY <1>12, <3>2 DEF ReadOverride, Request
    <3> QED
      BY <3>1, <3>2
  <2> QED
    BY <1>12, <2>1 DEF ReadOverride
<1>13. CASE ReadRest
  <2>1. template \in Content /\ (cloudInit \in Document => cloudInit \in Content)
    BY DEF Content
  <2>2. Failure \in Answer
    BY DEF Failure, Answer, Content
  <2>3. reader' = None /\ served' \in Answer
    BY <1>13, <2>1, <2>2, AnswerTyped DEF ReadRest
  <2> QED
    BY <1>13, <2>3 DEF ReadRest
<1>14. CASE Restart
  BY <1>14 DEF Restart
<1>15. CASE UNCHANGED vars
  BY <1>15 DEF vars
<1> QED
  BY <1>1, <1>2, <1>3, <1>4, <1>5, <1>6, <1>7, <1>8, <1>9, <1>10, <1>11, <1>12,
     <1>13, <1>14, <1>15 DEF Next

-----------------------------------------------------------------------------
\* The file that a save writes: if the save is alone, the temporary file,
\* which gets its document or less; if not, nothing is promised anyway.
LEMMA WriteStep ==
    ASSUME IInv, NEW s \in Saver, Write(s) PROVE IInv'
<1>1. saver[s] # None /\ saver[s] \in Save /\ saver[s].at = "open"
  BY SaveTyped DEF Write, IInv
<1>2. /\ \A t \in Saver \ {s} : saver'[t] = saver[t]
      /\ saver'[s].at = "written"
      /\ saver'[s].text = saver[s].text
      /\ saver'[s].fd = saver[s].fd
      /\ saver'[s] # None
  BY <1>1, NoneAssumption DEF Write, IInv, TypeOK, Save
<1>3. UNCHANGED <<cloudInit, edited, alone, saved>>
  BY DEF Write, fleet
<1>4. TypeOK'
  BY TypeStep DEF IInv, Next
<1>5. CASE alone
  <2>1. saver[s].fd = "tmp" /\ tmp = "empty" /\ \A t \in Saver : saver[t] # None => t = s
    BY <1>1, <1>5 DEF IInv, AloneHasTmp
  <2>2. tmp' = saver[s].text /\ override' = override
    BY <1>1, <2>1, WrittenContents DEF Write, WriteTo, IInv
  <2>3. AloneHasTmp'
    BY <1>2, <1>3, <2>1, <2>2 DEF AloneHasTmp
  <2>4. OverlapIsKnown' /\ SavedIsServed'
    BY <1>3, <1>5, <2>2 DEF OverlapIsKnown, SavedIsServed, IInv
  <2>5. NoneOfItsOwn'
    BY <1>1, <1>2, <1>3, <2>2 DEF NoneOfItsOwn, IInv
  <2> QED
    BY <1>4, <2>3, <2>4, <2>5 DEF IInv
<1>6. CASE ~alone
  <2>1. saved = Overlapped
    BY <1>1, <1>6 DEF IInv, OverlapIsKnown, Busy
  <2>2. AloneHasTmp' /\ OverlapIsKnown' /\ SavedIsServed'
    BY <1>3, <1>6, <2>1 DEF AloneHasTmp, OverlapIsKnown, SavedIsServed
  <2>3. "own" \notin Over(OpenFile(saver[s].fd), saver[s].text)
    BY <1>1, WrittenContents DEF IInv, NoneOfItsOwn
  <2>4. override' # "own" /\ tmp' # "own"
    BY <2>3 DEF Write, WriteTo, IInv, NoneOfItsOwn
  <2>5. NoneOfItsOwn'
    BY <1>1, <1>2, <1>3, <2>4 DEF NoneOfItsOwn, IInv
  <2> QED
    BY <1>4, <2>2, <2>5 DEF IInv
<1> QED
  BY <1>5, <1>6

\* A write that fails: the override is untouched if the save was alone.
LEMMA WriteFailsStep ==
    ASSUME IInv, NEW s \in Saver, WriteFails(s) PROVE IInv'
<1>1. saver[s] # None /\ saver[s] \in Save
  BY SaveTyped DEF WriteFails, IInv
<1>2. \A t \in Saver : saver'[t] = IF t = s THEN None ELSE saver[t]
  BY DEF WriteFails, IInv, TypeOK
<1>3. UNCHANGED <<cloudInit, edited, alone, saved>>
  BY DEF WriteFails, fleet
<1>4. TypeOK'
  BY TypeStep DEF IInv, Next
<1>5. alone => saver[s].fd = "tmp" /\ \A t \in Saver : saver[t] # None => t = s
  BY <1>1 DEF IInv, AloneHasTmp
<1>6. alone => override' = override
  BY <1>5 DEF WriteFails, WriteTo
<1>7. ~alone => saved = Overlapped
  BY <1>1 DEF IInv, OverlapIsKnown, Busy
<1>8. AloneHasTmp' /\ OverlapIsKnown' /\ SavedIsServed'
  BY <1>2, <1>3, <1>5, <1>6, <1>7
     DEF AloneHasTmp, OverlapIsKnown, SavedIsServed, IInv
<1>9. OpenFile(saver[s].fd) # "own"
  BY <1>1 DEF OpenFile, IInv, NoneOfItsOwn, Save
<1>10. override' # "own" /\ tmp' # "own"
  BY <1>9 DEF WriteFails, WriteTo, IInv, NoneOfItsOwn
<1>11. NoneOfItsOwn'
  BY <1>2, <1>3, <1>10 DEF NoneOfItsOwn, IInv
<1> QED
  BY <1>4, <1>8, <1>11 DEF IInv

\* The rename of a save that is alone makes its document the override.
LEMMA RenameStep ==
    ASSUME IInv, NEW s \in Saver, Rename(s) PROVE IInv'
<1>1. saver[s] # None /\ saver[s].at = "written"
  BY DEF Rename
<1>2. override' = tmp /\ tmp' = None /\ UNCHANGED <<cloudInit, edited, alone>>
  BY DEF Rename, fleet
<1>3. \A t \in Saver : saver'[t] # None =>
          t # s /\ saver[t] # None /\ saver'[t].text = saver[t].text
  BY DEF Rename, IInv, TypeOK, Save
<1>4. TypeOK'
  BY TypeStep DEF IInv, Next
<1>5. CASE alone
  <2>1. tmp = saver[s].text /\ \A t \in Saver : saver[t] # None => t = s
    BY <1>1, <1>5 DEF IInv, AloneHasTmp
  <2>2. saved' = saver[s].text
    BY <1>5 DEF Rename
  <2>3. AloneHasTmp' /\ OverlapIsKnown' /\ SavedIsServed'
    BY <1>2, <1>3, <1>5, <2>1, <2>2 DEF AloneHasTmp, OverlapIsKnown, SavedIsServed
  <2> QED
    BY <1>2, <1>3, <1>4, <2>3, NoneAssumption DEF IInv, NoneOfItsOwn, Content, Document
<1>6. CASE ~alone
  <2>1. saved' = Overlapped
    BY <1>6 DEF Rename
  <2>2. AloneHasTmp' /\ OverlapIsKnown' /\ SavedIsServed'
    BY <1>2, <1>6, <2>1 DEF AloneHasTmp, OverlapIsKnown, SavedIsServed
  <2> QED
    BY <1>2, <1>3, <1>4, <2>2, NoneAssumption DEF IInv, NoneOfItsOwn, Content, Document
<1> QED
  BY <1>5, <1>6

\* A save begins alone, or has overlapped from its first step.
LEMMA OpenStep ==
    ASSUME IInv, NEW s \in Saver, NEW text \in Document, Open(s, text) PROVE IInv'
<1> DEFINE new == [at |-> "open", text |-> text, fd |-> "tmp"]
<1>1. saver' = [saver EXCEPT ![s] = new] /\ saver \in [Saver -> Save \cup {None}]
  BY DEF Open, IInv, TypeOK
<1>2. \A t \in Saver : saver'[t] = IF t = s THEN new ELSE saver[t]
  BY <1>1
<1>3. /\ tmp' = "empty"
      /\ alone' = ~Busy
      /\ saved' = IF Busy THEN Overlapped ELSE saved
      /\ text # "own"
      /\ UNCHANGED <<override, cloudInit, edited>>
  BY DEF Open, Truncated, Accepted, DefinesPhoneHome, fleet
<1>4. new.at = "open" /\ new.fd = "tmp" /\ new.text = text
  OBVIOUS
<1>5. TypeOK'
  BY TypeStep DEF IInv, Next
<1> HIDE DEF new
<1>6. AloneHasTmp'
  <2> SUFFICES ASSUME ~Busy, NEW t \in Saver, saver'[t] # None
               PROVE  /\ \A u \in Saver : saver'[u] # None => u = t
                      /\ saver'[t] = new
    BY <1>3, <1>4 DEF AloneHasTmp
  <2> QED
    BY <1>2 DEF Busy
<1>7. OverlapIsKnown' /\ SavedIsServed'
  BY <1>3 DEF OverlapIsKnown, SavedIsServed, IInv
<1>8. NoneOfItsOwn'
  BY <1>2, <1>3, <1>4 DEF NoneOfItsOwn, IInv
<1> QED
  BY <1>5, <1>6, <1>7, <1>8 DEF IInv

\* A reset removes the override of whoever has it open.
LEMMA ResetStep == IInv /\ ResetOverride => IInv'
<1> SUFFICES ASSUME IInv, ResetOverride PROVE IInv'
  OBVIOUS
<1>1. /\ override' = None
      /\ saved' = IF alone \/ ~Busy THEN None ELSE Overlapped
      /\ UNCHANGED <<tmp, cloudInit, edited, alone>>
  BY DEF ResetOverride, fleet
<1>2. ASSUME NEW t \in Saver
      PROVE  /\ saver'[t] # None <=> saver[t] # None
             /\ saver[t] # None => /\ saver'[t].text = saver[t].text
                                   /\ saver'[t].at = saver[t].at
                                   /\ saver[t].fd = "tmp" => saver'[t].fd = "tmp"
  <2>1. saver[t] # None => [saver[t] EXCEPT !.fd = "gone"] \in Save /\ saver[t] \in Save
    BY DEF Save, IInv, TypeOK
  <2> QED
    BY <2>1, NoneAssumption DEF ResetOverride, Save
<1>3. TypeOK'
  BY TypeStep DEF IInv, Next
<1>4. Busy' <=> Busy
  BY <1>2 DEF Busy
<1>5. AloneHasTmp'
  BY <1>1, <1>2 DEF AloneHasTmp, IInv
<1>6. OverlapIsKnown' /\ SavedIsServed'
  BY <1>1, <1>4 DEF OverlapIsKnown, SavedIsServed
<1>7. NoneOfItsOwn'
  BY <1>1, <1>2, NoneAssumption DEF NoneOfItsOwn, IInv, Content, Document
<1> QED
  BY <1>3, <1>5, <1>6, <1>7 DEF IInv

\* The invariant is kept by every step, also by those that save nothing.
LEMMA NextInv == IInv /\ [Next]_vars => IInv'
<1> SUFFICES ASSUME IInv, [Next]_vars PROVE IInv'
  OBVIOUS
<1>1. TypeOK'
  BY TypeStep DEF IInv
<1>2. ASSUME NEW s \in Saver, RenameFails(s) PROVE IInv'
  <2>1. \A t \in Saver : saver'[t] = IF t = s THEN None ELSE saver[t]
    BY <1>2 DEF RenameFails, IInv, TypeOK
  <2>2. UNCHANGED <<override, tmp, cloudInit, edited, alone, saved>>
    BY <1>2 DEF RenameFails, fleet
  <2> QED
    BY <1>1, <2>1, <2>2
       DEF IInv, AloneHasTmp, OverlapIsKnown, SavedIsServed, NoneOfItsOwn, Busy
<1>3. CASE Restart
  <2>1. /\ \A t \in Saver : saver'[t] = None
        /\ UNCHANGED <<override, tmp, cloudInit, alone, saved>>
        /\ cloudInit = "own" => edited' = edited
    BY <1>3 DEF Restart, CheckFile, DefinesPhoneHome
  <2> QED
    BY <1>1, <2>1
       DEF IInv, AloneHasTmp, OverlapIsKnown, SavedIsServed, NoneOfItsOwn, Busy
<1>4. ASSUME UNCHANGED editor, cloudInit' = "own" => edited' PROVE IInv'
  BY <1>1, <1>4
     DEF IInv, AloneHasTmp, OverlapIsKnown, SavedIsServed, NoneOfItsOwn, Busy, editor
<1>5. CASE SaveTemplate \/ UnnameFile
  BY <1>4, <1>5 DEF SaveTemplate, UnnameFile, IInv, NoneOfItsOwn
<1>6. CASE EditFile
  BY <1>4, <1>6 DEF EditFile
<1>7. CASE NameFile
  BY <1>4, <1>7 DEF NameFile, CheckFile, DefinesPhoneHome
<1>8. CASE GetUserData \/ ReadOverride \/ ReadRest
  BY <1>4, <1>8 DEF GetUserData, ReadOverride, ReadRest, fleet, IInv, NoneOfItsOwn
<1>9. CASE UNCHANGED vars
  BY <1>4, <1>9 DEF vars, editor, IInv, NoneOfItsOwn
<1> QED
  BY <1>2, <1>3, <1>5, <1>6, <1>7, <1>8, <1>9, OpenStep, WriteStep, WriteFailsStep,
     RenameStep, ResetStep DEF Next

\* A step that answers with two phone_homes has read a template, a file edited
\* since it was checked, or a document whose own one the check does not find.
LEMMA TwoStep ==
    ASSUME IInv, [Next]_vars, served' # served, served' # None, served'.phoneHomes = "two"
    PROVE  \/ served'.from = "template"
           \/ served'.from = "file" /\ edited
           \/ served'.text = "hidden"
<1>1. ReadOverride \/ ReadRest
  BY DEF Next, vars, Open, Write, WriteFails, Rename, RenameFails, ResetOverride,
         SaveTemplate, EditFile, NameFile, UnnameFile, GetUserData, Restart
<1>2. served' # Failure
  BY DEF Failure
<1>3. ASSUME NEW from, NEW text \in Content, Serve(from, text)
      PROVE  served'.from = from /\ served'.text = text /\ text \in {"own", "hidden"}
  BY <1>2, <1>3, PhoneHomes DEF Serve
<1>4. CASE ReadOverride
  <2>1. override \in Content /\ Serve("override", override)
    BY <1>4 DEF ReadOverride, IInv, TypeOK
  <2> QED
    BY <1>3, <2>1 DEF IInv, NoneOfItsOwn
<1>5. CASE ReadRest
  <2>1. CASE Serve("template", template)
    <3>1. template \in Content
      BY DEF IInv, TypeOK, Content
    <3> QED
      BY <1>3, <2>1, <3>1
  <2>2. CASE cloudInit \in Document /\ Serve("file", cloudInit)
    <3>1. cloudInit \in Content
      BY <2>2 DEF Content
    <3> QED
      BY <1>3, <2>2, <3>1 DEF IInv, NoneOfItsOwn
  <2> QED
    BY <1>2, <1>5, <2>1, <2>2 DEF ReadRest
<1> QED
  BY <1>1, <1>4, <1>5

-----------------------------------------------------------------------------
\* The inductive invariant holds in every state that the program reaches.
THEOREM Invariant == Spec => []IInv
BY InitInv, NextInv, PTL DEF Spec

\* The types, and that no save has a file open that is not there.
THEOREM TypeCorrect == Spec => []TypeOK
<1>1. IInv => TypeOK
  BY DEF IInv
<1> QED
  BY <1>1, Invariant, PTL

\* What was saved last is what is served as the override, whole, whatever
\* fails, is killed or is reset, unless two saves have overlapped.
THEOREM SavesAreServed == Spec => []SavedIsServed
<1>1. IInv => SavedIsServed
  BY DEF IInv
<1> QED
  BY <1>1, Invariant, PTL

\* Two phone_homes come from a template, from a file edited since the fleet
\* accepted it, or from a document whose own one the check does not find; one
\* that it finds is never served otherwise.
THEOREM TwoAreExplained == Spec => TwoPhoneHomesExplained
<1>1. IInv /\ [Next]_vars =>
        [served' # served /\ served' # None /\ served'.phoneHomes = "two" =>
            \/ served'.from = "template"
            \/ served'.from = "file" /\ edited
            \/ served'.text = "hidden"]_vars
  BY TwoStep
<1> QED
  BY <1>1, Invariant, PTL DEF Spec, TwoPhoneHomesExplained

=============================================================================
