--------------------------- MODULE Process_proofs ----------------------------
(***************************************************************************)
(* Proofs about the process and its answers to a box: the hint of the      *)
(* proxyDHCP listener (FollowUp), the chain of offers, files and scripts   *)
(* (Chain, an instance of Chainload) and start, signals and shutdown       *)
(* (Life, an instance of Lifecycle).  The three share no state.            *)
(*                                                                         *)
(* FollowUp is for any number of clients, handlers and goroutines and any  *)
(* timeout; Chain for any set of boxes, whatever codes of architectures    *)
(* they send, that can run what is made for the first of them or nothing;  *)
(* Life for any number of edits of fleet.yaml.                             *)
(***************************************************************************)
EXTENDS FollowUp, TLAPS

CONSTANTS
    Hardware,       \* of Chain: the kinds of box
    MaxVersion      \* of Life: how often fleet.yaml is edited

VARIABLES
    mode, hw, target, gate, at, file, script,       \* Chain
    config, cancelled, caught, server, transfer,    \* Life
    errc, main, firstErr, received, exit, watcher,
    hup, edited, loaded, asked, failed, wanted

Chain == INSTANCE Chainload
Life == INSTANCE Lifecycle

-----------------------------------------------------------------------------
(***************************************************************************)
(* The hint.                                                               *)
(***************************************************************************)

\* A client has been quiet for at least as long as the goroutine of its
\* noted OFFER has slept.
QuietWhileNoted ==
    \A m \in MAC : pending[m] # None => timer[pending[m]].age <= quiet[m]

Inv == TypeOK /\ NoteHasItsTimer /\ QuietWhileNoted

\* The invariant holds at the start of the program.
LEMMA InitInv == Init => Inv
BY TimeoutAssumption, ValueAssumption
   DEF Init, Inv, TypeOK, NoteHasItsTimer, QuietWhileNoted

\* A saturating clock stays in its range and never runs backwards.
LEMMA OlderAge ==
    \A a \in 0..FollowUpTimeout : Older(a) \in 0..FollowUpTimeout /\ a <= Older(a)
BY TimeoutAssumption DEF Older

\* Two saturating clocks keep their order.
LEMMA OlderMonotone ==
    \A a, b \in 0..FollowUpTimeout : a <= b => Older(a) <= Older(b)
BY TimeoutAssumption DEF Older

\* A goroutine has waited for its full timeout when it takes its note away.
LEMMA WakeEndsItsWait ==
    ASSUME Inv, NEW t \in Timer, Wake(t), NEW m \in MAC, HintFor(m)
    PROVE  pending[m] = t /\ timer[t].mac = m /\ quiet[m] = FollowUpTimeout
<1>1. pending[m] = t /\ timer[t].mac = m
  BY DEF Inv, TypeOK, Wake, Awake, HintFor
<1>2. timer[t].age = FollowUpTimeout /\ timer[t].age <= quiet[m]
  BY <1>1, ValueAssumption DEF Inv, QuietWhileNoted, Wake, Awake
<1>3. quiet[m] \in 0..FollowUpTimeout
  BY DEF Inv, TypeOK
<1> QED
  BY <1>1, <1>2, <1>3, TimeoutAssumption

\* Every step preserves the invariant: a note is always made together with
\* the start of its goroutine, a goroutine that ends takes its own note with
\* it, and whatever restarts a client's silence also replaces its note.
LEMMA NextInv == Inv /\ [Next]_vars => Inv'
<1> SUFFICES ASSUME Inv, [Next]_vars PROVE Inv'
  OBVIOUS
<1> USE ValueAssumption DEF Inv
<1>1. ASSUME NEW h \in Slot, NEW m \in MAC, Send(h, m) PROVE Inv'
  BY <1>1 DEF Send, TypeOK, NoteHasItsTimer, QuietWhileNoted
<1>2. ASSUME NEW h \in Slot, NEW t \in Timer, NotePending(h, t) PROVE Inv'
  <2>1. sent[h] \in MAC
    BY <1>2 DEF NotePending, TypeOK
  <2>2. TypeOK'
    <3>1. 0 \in 0..FollowUpTimeout
      BY TimeoutAssumption
    <3> QED
      BY <1>2, <2>1, <3>1 DEF NotePending, TypeOK, Sleep
  <2>3. \A m \in MAC : pending'[m] # None =>
          \/ m = sent[h] /\ pending'[m] = t /\ timer'[t] = [mac |-> m, age |-> 0]
          \/ m # sent[h] /\ pending'[m] = pending[m] /\ pending[m] # t
             /\ timer'[pending[m]] = timer[pending[m]] /\ quiet'[m] = quiet[m]
    BY <1>2, <2>1 DEF NotePending, TypeOK, NoteHasItsTimer
  <2>4. \A m \in MAC : [mac |-> m, age |-> 0] # Idle
    BY TimeoutAssumption DEF Sleep
  <2>5. quiet'[sent[h]] = 0
    BY <1>2, <2>1 DEF NotePending, TypeOK
  <2>6. ASSUME NEW m \in MAC, pending'[m] # None
        PROVE  /\ timer'[pending'[m]] # Idle /\ timer'[pending'[m]].mac = m
               /\ timer'[pending'[m]].age <= quiet'[m]
    <3>1. CASE m = sent[h] /\ pending'[m] = t /\ timer'[t] = [mac |-> m, age |-> 0]
      BY <2>4, <2>5, <3>1
    <3>2. CASE /\ pending'[m] = pending[m]
               /\ timer'[pending[m]] = timer[pending[m]] /\ quiet'[m] = quiet[m]
      BY <2>6, <3>2 DEF NoteHasItsTimer, QuietWhileNoted
    <3> QED
      BY <2>3, <2>6, <3>1, <3>2
  <2> QED
    BY <2>2, <2>6 DEF NoteHasItsTimer, QuietWhileNoted
<1>3. ASSUME NEW t \in Timer, Wake(t) PROVE Inv'
  <2>1. timer[t].mac \in MAC
    BY <1>3 DEF Wake, Awake, TypeOK, Sleep
  <2>2. TypeOK'
    BY <1>3, <2>1 DEF Wake, TypeOK
  <2>3. \A m \in MAC : pending'[m] # None =>
          pending'[m] = pending[m] /\ pending[m] # t
          /\ timer'[pending[m]] = timer[pending[m]] /\ quiet'[m] = quiet[m]
    BY <1>3, <2>1 DEF Wake, TypeOK, NoteHasItsTimer
  <2> QED
    BY <2>2, <2>3 DEF NoteHasItsTimer, QuietWhileNoted
<1>4. ASSUME NoteServed PROVE Inv'
  BY <1>4, TimeoutAssumption DEF NoteServed, TypeOK, NoteHasItsTimer, QuietWhileNoted
<1>5. ASSUME Tick PROVE Inv'
  <2>1. \A t \in Timer : timer[t] # Idle =>
          /\ timer'[t] \in Sleep
          /\ timer'[t].mac = timer[t].mac
          /\ timer'[t].age = Older(timer[t].age)
    <3> SUFFICES ASSUME NEW t \in Timer, timer[t] # Idle
                 PROVE  /\ timer'[t] \in Sleep
                        /\ timer'[t].mac = timer[t].mac
                        /\ timer'[t].age = Older(timer[t].age)
      OBVIOUS
    <3>1. timer[t] \in Sleep /\ timer'[t] = [timer[t] EXCEPT !.age = Older(@)]
      BY <1>5 DEF Tick, TypeOK
    <3>2. timer'[t] = [mac |-> timer[t].mac, age |-> Older(timer[t].age)]
      BY <3>1 DEF Sleep
    <3>3. timer[t].mac \in MAC /\ Older(timer[t].age) \in 0..FollowUpTimeout
      BY <3>1, OlderAge DEF Sleep
    <3> QED
      BY <3>2, <3>3 DEF Sleep
  <2>2. \A m \in MAC : quiet'[m] = Older(quiet[m]) /\ quiet'[m] \in 0..FollowUpTimeout
    BY <1>5, OlderAge DEF Tick, TypeOK
  <2>3. TypeOK'
    BY <1>5, <2>1, <2>2 DEF Tick, TypeOK
  <2>4. NoteHasItsTimer'
    <3>1. \A m \in MAC : pending'[m] = pending[m]
      BY <1>5 DEF Tick
    <3>2. \A m \in MAC : pending[m] # None => pending[m] \in Timer
      BY DEF TypeOK
    <3> QED
      BY <2>1, <3>1, <3>2 DEF NoteHasItsTimer
  <2>5. QuietWhileNoted'
    <3> SUFFICES ASSUME NEW m \in MAC, pending'[m] # None
                 PROVE  timer'[pending'[m]].age <= quiet'[m]
      BY DEF QuietWhileNoted
    <3> DEFINE t == pending[m]
    <3>1. t \in Timer /\ timer[t] # Idle /\ timer[t].age <= quiet[m] /\ pending'[m] = t
      BY <1>5 DEF Tick, TypeOK, NoteHasItsTimer, QuietWhileNoted
    <3>2. timer[t].age \in 0..FollowUpTimeout /\ quiet[m] \in 0..FollowUpTimeout
      BY <3>1 DEF TypeOK, Sleep
    <3>3. timer'[t].age = Older(timer[t].age)
      BY <2>1, <3>1
    <3> HIDE DEF t
    <3> QED
      BY <2>2, <3>1, <3>2, <3>3, OlderMonotone
  <2> QED
    BY <2>3, <2>4, <2>5
<1>6. CASE UNCHANGED vars
  BY <1>6 DEF vars, TypeOK, NoteHasItsTimer, QuietWhileNoted
<1> QED
  BY <1>1, <1>2, <1>3, <1>4, <1>5, <1>6 DEF Next

\* The invariant holds in every state of the program.
THEOREM Invariance == Spec => []Inv
BY InitInv, NextInv, PTL DEF Spec

\* Every variable keeps its type: a goroutine never outlives its timeout.
THEOREM TypeCorrect == Spec => []TypeOK
BY Invariance, PTL DEF Inv

\* Every noted OFFER has a goroutine that will take the note away
\* (notePending starts it, and only its own goroutine ends with the note).
THEOREM NotesAreTimed == Spec => []NoteHasItsTimer
BY Invariance, PTL DEF Inv

\* A hint is logged only after a full timeout without a completed transfer
\* and without another OFFER to that client.
THEOREM HintsAreEarned == Spec => HintMeansSilence
<1>1. Inv /\ [Next]_vars => [\A m \in MAC : HintFor(m) => quiet[m] = FollowUpTimeout]_vars
  <2> SUFFICES ASSUME Inv, Next, NEW m \in MAC, HintFor(m)
               PROVE  quiet[m] = FollowUpTimeout
    OBVIOUS
  <2>1. PICK t \in Timer : timer[t] # Idle /\ timer'[t] = Idle
    BY DEF HintFor
  <2>2. ASSUME NEW u \in Timer, Wake(u) PROVE quiet[m] = FollowUpTimeout
    BY <2>2, WakeEndsItsWait
  <2>3. ASSUME NEW h \in Slot, NEW n \in MAC, Send(h, n) PROVE FALSE
    BY <2>1, <2>3 DEF Send
  <2>4. ASSUME NEW h \in Slot, NEW u \in Timer, NotePending(h, u) PROVE FALSE
    BY <2>1, <2>4, ValueAssumption DEF NotePending, Inv, TypeOK
  <2>5. ASSUME NoteServed PROVE FALSE
    BY <2>1, <2>5 DEF NoteServed
  <2>6. ASSUME Tick PROVE FALSE
    <3>1. timer'[t] = [timer[t] EXCEPT !.age = Older(@)] /\ timer[t] \in Sleep
      BY <2>1, <2>6 DEF Tick, Inv, TypeOK
    <3>2. timer'[t] \in Sleep
      BY <3>1, OlderAge DEF Sleep
    <3> QED
      BY <2>1, <3>2, ValueAssumption
  <2> QED
    BY <2>2, <2>3, <2>4, <2>5, <2>6 DEF Next
<1> QED
  BY <1>1, Invariance, PTL DEF Spec, HintMeansSilence

-----------------------------------------------------------------------------
(***************************************************************************)
(* Chain: offers, files and scripts.                                       *)
(***************************************************************************)

\* What BuildOffer names for a box that it lets in.
Given(b) == Chain!LookupArch(Chain!selectArch(b.archs))

\* The box still has what it was given, ...
GivenIsKept == at \in {"fetch", "request", "ipxe"} => file = Given(hw)

\* ... and each way of starting the server has scripts of its own.
ScriptIsOfMode ==
    /\ script = "redirect" => mode = "redirector"
    /\ script = "chain" => mode = "template"
    /\ script \in Chain!Target \cup {"default"} => mode = "dispatch"

ChainInv == Chain!TypeOK /\ GivenIsKept /\ ScriptIsOfMode /\ Chain!FilesFitTheBox

\* Every architecture, known or not, has a row whose file is served under the
\* transport of the row and is made for the architecture.
LEMMA LookupArchServed ==
    \A a : LET p == Chain!LookupArch(a) IN
        /\ p.transport \in {"TFTP", "HTTP"}
        /\ p.file \in Chain!Kind
        /\ p \in [transport : {"TFTP", "HTTP"}, file : Chain!Kind]
        /\ Chain!Served(p.transport, p.file) = {p.file}
        /\ p.file \in Chain!Native(a)
<1> SUFFICES ASSUME NEW a
             PROVE  LET p == Chain!LookupArch(a) IN
                    /\ p.transport \in {"TFTP", "HTTP"}
                    /\ p.file \in Chain!Kind
                    /\ p \in [transport : {"TFTP", "HTTP"}, file : Chain!Kind]
                    /\ Chain!Served(p.transport, p.file) = {p.file}
                    /\ p.file \in Chain!Native(a)
  OBVIOUS
<1>1. \/ a = "BIOS" /\ Chain!LookupArch(a) = Chain!Profile("TFTP", "undionly.kpxe")
      \/ a = "ARM64" /\ Chain!LookupArch(a) = Chain!Profile("TFTP", "ipxe-arm64.efi")
      \/ a = "X64_HTTP" /\ Chain!LookupArch(a) = Chain!Profile("HTTP", "snponly.efi")
      \/ a = "ARM64_HTTP" /\ Chain!LookupArch(a) = Chain!Profile("HTTP", "ipxe-arm64.efi")
      \/ /\ a \notin {"BIOS", "ARM64", "ARM64_HTTP"}
         /\ Chain!LookupArch(a) = Chain!Profile("TFTP", "snponly.efi")
  BY DEF Chain!LookupArch, Chain!archTable
<1>2. ASSUME NEW t \in {"TFTP", "HTTP"}, NEW k \in Chain!Kind PROVE Chain!Served(t, k) = {k}
  BY <1>2 DEF Chain!Served, Chain!kindForLeaf, Chain!routes, Chain!Kind
<1> QED
  BY <1>1, <1>2 DEF Chain!Profile, Chain!Kind, Chain!Native

\* Firmware is skipped, or named the file of its architecture.
LEMMA FirmwareAnswer ==
    \A type : LET r == Chain!BuildOffer(Chain!FirmwareRequest(type)) IN
        r.skip \/ (~r.skip /\ r.file = Given(hw))
<1> SUFFICES ASSUME NEW type
             PROVE  LET r == Chain!BuildOffer(Chain!FirmwareRequest(type)) IN
                    r.skip \/ (~r.skip /\ r.file = Given(hw))
  OBVIOUS
<1> DEFINE q == Chain!FirmwareRequest(type)
<1>1. q.type = type /\ q.class = hw.class /\ q.user = "none" /\ q.archs = hw.archs
  BY DEF Chain!FirmwareRequest
<1>2. \/ Chain!BuildOffer(q) = Chain!Skip
      \/ Chain!BuildOffer(q) = Chain!Reply(Chain!replyType(q), Given(hw))
  <2>1. Chain!LookupArch(Chain!selectArch(q.archs)) = Given(hw)
    BY <1>1 DEF Given
  <2> HIDE DEF q
  <2> QED
    BY <1>1, <2>1 DEF Chain!BuildOffer
<1> QED
  BY <1>2 DEF Chain!Skip, Chain!Reply

\* iPXE is named the script, by an ACK if it has sent a REQUEST.
LEMMA IPXEAnswer ==
    /\ ~Chain!BuildOffer(Chain!IPXERequest("DISCOVER")).skip
    /\ LET r == Chain!BuildOffer(Chain!IPXERequest("REQUEST")) IN
       ~r.skip /\ r.type = "ACK" /\ r.file = Chain!ScriptURL
BY DEF Chain!BuildOffer, Chain!IPXERequest, Chain!Reply, Chain!replyType

\* The file a box is named is served, and runs on it if any does.
LEMMA GivenFits ==
    ASSUME Chain!HardwareAssumption, NEW b \in Hardware
    PROVE  /\ Given(b) \in [transport : {"TFTP", "HTTP"}, file : Chain!Kind]
           /\ Chain!Served(Given(b).transport, Given(b).file) = {Given(b).file}
           /\ b.runs # {} => Given(b).file \in b.runs
           /\ Given(b) # Chain!NoFile
<1>1. Given(b) \in [transport : {"TFTP", "HTTP"}, file : Chain!Kind]
  BY LookupArchServed DEF Given
<1>2. Chain!Served(Given(b).transport, Given(b).file) = {Given(b).file}
  BY LookupArchServed DEF Given
<1>3. Given(b).file \in Chain!Native(Chain!selectArch(b.archs))
  BY LookupArchServed DEF Given
<1>4. Given(b).transport # "none"
  BY <1>1
<1> QED
  BY <1>1, <1>2, <1>3, <1>4 DEF Chain!HardwareAssumption, Chain!NoFile

\* The invariant holds while the box is off.
LEMMA ChainInit == Chain!Init => ChainInv
BY DEF Chain!Init, ChainInv, Chain!TypeOK, GivenIsKept, ScriptIsOfMode, Chain!FilesFitTheBox,
       Chain!NoFile, Chain!Stage, Chain!Script, Chain!Target

\* The steps of the firmware: a box that fetches has what BuildOffer named.
LEMMA FirmwareStep ==
    ASSUME Chain!HardwareAssumption, ChainInv,
           Chain!PowerOn \/ Chain!Discover \/ Chain!Ask("REQUEST") \/ Chain!Ask("INFORM") \/ Chain!Fetch
    PROVE  ChainInv'
<1> USE DEF ChainInv, Chain!TypeOK, GivenIsKept, ScriptIsOfMode, Chain!FilesFitTheBox, Chain!Stage
<1>0. /\ Given(hw) \in [transport : {"TFTP", "HTTP", "none"}, file : Chain!Kind \cup {"none"}]
      /\ Given(hw) # Chain!NoFile
      /\ Chain!NoFile \in [transport : {"TFTP", "HTTP", "none"}, file : Chain!Kind \cup {"none"}]
      /\ hw' = hw => Given(hw)' = Given(hw)
  BY GivenFits DEF Chain!NoFile, Given
<1>1. CASE Chain!PowerOn
  BY <1>1 DEF Chain!PowerOn
<1>2. CASE Chain!Discover
  <2>1. \/ at' = "disk" /\ file' = file
        \/ at' \in {"fetch", "request"} /\ file' = Given(hw)
    BY <1>2, FirmwareAnswer DEF Chain!Discover
  <2> QED
    BY <1>0, <1>2, <2>1 DEF Chain!Discover
<1>3. CASE Chain!Ask("REQUEST") \/ Chain!Ask("INFORM")
  <2>1. /\ at = "request"
        /\ UNCHANGED <<mode, hw, target, gate, script>>
        /\ \/ at' = "disk" /\ file' = Chain!NoFile
           \/ at' = "fetch" /\ file' = Given(hw)
    BY <1>3, FirmwareAnswer DEF Chain!Ask
  <2> QED
    BY <1>0, <2>1
<1>4. CASE Chain!Fetch
  <2>1. /\ at = "fetch"
        /\ UNCHANGED <<mode, hw, target, gate, script>>
        /\ \/ at' = "ipxe" /\ file' = file
           \/ at' = "hung" /\ file' = Chain!NoFile /\ hw.runs = {}
    BY <1>4, GivenFits DEF Chain!Fetch
  <2> QED
    BY <1>0, <2>1
<1> QED
  BY <1>1, <1>2, <1>3, <1>4

\* The steps of iPXE, which is never skipped and never sent back to fetch.
LEMMA IPXEStep ==
    ASSUME ChainInv, Chain!GetAutoexec \/ Chain!IPXEDiscover \/ Chain!IPXEAsk \/ Chain!GetScript
    PROVE  ChainInv'
<1> USE DEF ChainInv, Chain!TypeOK, GivenIsKept, ScriptIsOfMode, Chain!FilesFitTheBox, Chain!Stage
<1>0. /\ Chain!NoFile \in [transport : {"TFTP", "HTTP", "none"}, file : Chain!Kind \cup {"none"}]
      /\ Chain!Rendered \in Chain!Script \ {"none"}
      /\ Chain!Rendered = "redirect" => mode = "redirector"
      /\ Chain!Rendered = "chain" => mode = "template"
      /\ Chain!Rendered \in Chain!Target \cup {"default"} => mode = "dispatch"
  BY DEF Chain!NoFile, Chain!Rendered, Chain!Mode, Chain!Script, Chain!Target
<1>1. CASE Chain!GetAutoexec \/ Chain!GetScript
  <2>1. /\ at \in {"ipxe", "boot.ipxe"} /\ at' = "script" /\ script' = Chain!Rendered
        /\ file' = Chain!NoFile
        /\ UNCHANGED <<mode, hw, target, gate>>
    BY <1>1 DEF Chain!GetAutoexec, Chain!GetScript
  <2> QED
    BY <1>0, <2>1
<1>2. CASE Chain!IPXEDiscover \/ Chain!IPXEAsk
  <2>1. /\ \/ at = "ipxe" /\ at' = "ipxe-request"
           \/ at = "ipxe-request" /\ at' = "boot.ipxe"
        /\ file' = Chain!NoFile
        /\ UNCHANGED <<mode, hw, target, gate, script>>
    BY <1>2, IPXEAnswer DEF Chain!IPXEDiscover, Chain!IPXEAsk
  <2> QED
    BY <1>0, <2>1
<1> QED
  BY <1>1, <1>2

\* Where a script leads to.
LEMMA ScriptEnds ==
    ASSUME ChainInv,
           Chain!Refuse \/ Chain!Fail \/ Chain!Default \/ Chain!Choose \/ Chain!BootTarget
           \/ Chain!Redirect \/ Chain!Chain
    PROVE  /\ at = "script" /\ at' \in {"off", "menu", "custom", "kernel", "shell", "disk"}
           /\ script' = "none" /\ UNCHANGED <<mode, hw, target, gate, file>>
           /\ at' = "disk" => mode = "redirector"
           /\ mode = "dispatch" /\ hw \in Chain!Arm => at' = "off"
<1> USE DEF Chain!EndsAt, Chain!InDispatch, Chain!Refused, ChainInv, ScriptIsOfMode
<1>1. Chain!Autoexec \subseteq {"menu", "custom", "kernel", "shell", "error"}
  BY DEF Chain!Autoexec
<1>2. CASE Chain!Refuse \/ Chain!Fail \/ Chain!Default \/ Chain!Choose
  BY <1>2 DEF Chain!Refuse, Chain!Fail, Chain!Default, Chain!Choose
<1>3. CASE Chain!BootTarget
  BY <1>1, <1>3 DEF Chain!BootTarget
<1>4. CASE Chain!Redirect \/ Chain!Chain
  BY <1>1, <1>4 DEF Chain!Redirect, Chain!Chain
<1> QED
  BY <1>2, <1>3, <1>4

\* Scripts, resets and changes of the intent.
LEMMA OtherStep ==
    ASSUME ChainInv,
           \/ Chain!Refuse \/ Chain!Fail \/ Chain!Default \/ Chain!Choose \/ Chain!BootTarget
           \/ Chain!Redirect \/ Chain!Chain
           \/ Chain!Reset \/ \E g \in Chain!Gate : Chain!Change(g)
           \/ UNCHANGED Chain!vars
    PROVE  ChainInv'
<1> USE DEF ChainInv, Chain!TypeOK, GivenIsKept, ScriptIsOfMode, Chain!FilesFitTheBox, Chain!Stage
<1>0. /\ Chain!NoFile \in [transport : {"TFTP", "HTTP", "none"}, file : Chain!Kind \cup {"none"}]
      /\ "none" \in Chain!Script /\ "none" \notin Chain!Target \cup {"default"}
  BY DEF Chain!NoFile, Chain!Script, Chain!Target
<1>1. CASE Chain!Reset
  BY <1>0, <1>1 DEF Chain!Reset
<1>2. CASE \E g \in Chain!Gate : Chain!Change(g)
  BY <1>2 DEF Chain!Change, Given
<1>3. CASE UNCHANGED Chain!vars
  BY <1>3 DEF Chain!vars, Given
<1>4. CASE Chain!Refuse \/ Chain!Fail \/ Chain!Default \/ Chain!Choose \/ Chain!BootTarget
           \/ Chain!Redirect \/ Chain!Chain
  BY <1>0, <1>4, ScriptEnds
<1> QED
  BY <1>1, <1>2, <1>3, <1>4

\* The invariant holds in every state of a boot.
THEOREM ChainInvariant == ASSUME Chain!HardwareAssumption PROVE Chain!Spec => []ChainInv
<1>1. ChainInv /\ [Chain!Next]_Chain!vars => ChainInv'
  BY FirmwareStep, IPXEStep, OtherStep DEF Chain!Next, Chain!Step
<1> QED
  BY <1>1, ChainInit, PTL DEF Chain!Spec

\* Every variable keeps its type; a file is named exactly while there is one to
\* fetch or to run.
THEOREM ChainTypeCorrect == ASSUME Chain!HardwareAssumption PROVE Chain!Spec => []Chain!TypeOK
BY ChainInvariant, PTL DEF ChainInv

\* What an OFFER names is there under the transport it names, whatever
\* architectures a box sends.
THEOREM OffersAreServed == ASSUME Chain!HardwareAssumption PROVE Chain!Spec => []Chain!OfferIsServed
<1>1. ASSUME ChainInv PROVE Chain!OfferIsServed
  <2>1. hw \in Hardware
    BY <1>1 DEF ChainInv, Chain!TypeOK
  <2> QED
    BY <1>1, <2>1, GivenFits DEF ChainInv, GivenIsKept, Chain!OfferIsServed
<1> QED
  BY <1>1, ChainInvariant, PTL

\* A box hangs on the binary it is given only if it can run none, and no arm box
\* gets through the dispatch script to an installer or a menu.
THEOREM FilesAlwaysFit == ASSUME Chain!HardwareAssumption PROVE Chain!Spec => []Chain!FilesFitTheBox
BY ChainInvariant, PTL DEF ChainInv

\* Once iPXE runs, the box does not go on to its disk, except from the legacy
\* redirector's script.
THEOREM IPXEReachesItsScript == ASSUME Chain!HardwareAssumption PROVE Chain!Spec => Chain!IPXEIsNotStranded
<1>1. ChainInv /\ [Chain!Next]_Chain!vars =>
        [(at \in Chain!InIPXE /\ at' = "disk") => (at = "script" /\ mode = "redirector")]_Chain!vars
  <2> SUFFICES ASSUME ChainInv, Chain!Next, at \in Chain!InIPXE, at' = "disk"
               PROVE  at = "script" /\ mode = "redirector"
    OBVIOUS
  <2> USE DEF Chain!InIPXE
  <2>1. ~(Chain!PowerOn \/ Chain!Discover \/ Chain!Ask("REQUEST") \/ Chain!Ask("INFORM") \/ Chain!Fetch)
    BY DEF Chain!PowerOn, Chain!Discover, Chain!Ask, Chain!Fetch
  <2>2. ~(Chain!GetAutoexec \/ Chain!IPXEDiscover \/ Chain!IPXEAsk \/ Chain!GetScript)
    BY IPXEAnswer DEF Chain!GetAutoexec, Chain!IPXEDiscover, Chain!IPXEAsk, Chain!GetScript
  <2>3. ~(Chain!Reset \/ \E g \in Chain!Gate : Chain!Change(g))
    BY DEF Chain!Reset, Chain!Change
  <2> QED
    BY <2>1, <2>2, <2>3, ScriptEnds DEF Chain!Next, Chain!Step
<1> QED
  BY <1>1, ChainInvariant, PTL DEF Chain!Spec, Chain!IPXEIsNotStranded

\* How many steps a boot has left at most.
Distance(place) ==
    IF place = "discover" THEN 7 ELSE IF place = "request" THEN 6
    ELSE IF place = "fetch" THEN 5 ELSE IF place = "ipxe" THEN 4
    ELSE IF place = "ipxe-request" THEN 3 ELSE IF place = "boot.ipxe" THEN 2
    ELSE IF place = "script" THEN 1 ELSE 0

\* Whatever becomes of its intent meanwhile, each step of a boot takes the box
\* nearer to where the boot ends, and only another boot takes it back.
BootGoesForward ==
    [][/\ Chain!Step => Distance(at') < Distance(at)
       /\ Distance(at') > Distance(at) => Chain!PowerOn]_Chain!vars

\* Each step of the box lowers its distance.
LEMMA StepsGoForward ==
    ASSUME Chain!HardwareAssumption, ChainInv, Chain!Step
    PROVE  Distance(at') < Distance(at)
<1>1. CASE Chain!Discover
  BY <1>1 DEF Chain!Discover, Distance
<1>2. CASE Chain!Ask("REQUEST") \/ Chain!Ask("INFORM")
  BY <1>2 DEF Chain!Ask, Distance
<1>3. CASE Chain!Fetch
  BY <1>3 DEF Chain!Fetch, Distance
<1>4. CASE Chain!GetAutoexec \/ Chain!IPXEDiscover \/ Chain!IPXEAsk \/ Chain!GetScript
  <2>1. \/ at \in {"ipxe", "boot.ipxe"} /\ at' = "script"
        \/ at = "ipxe" /\ at' = "ipxe-request"
        \/ at = "ipxe-request" /\ at' = "boot.ipxe"
    BY <1>4, IPXEAnswer DEF Chain!GetAutoexec, Chain!IPXEDiscover, Chain!IPXEAsk, Chain!GetScript
  <2> QED
    BY <2>1 DEF Distance
<1>5. CASE Chain!Refuse \/ Chain!Fail \/ Chain!Default \/ Chain!Choose \/ Chain!BootTarget
           \/ Chain!Redirect \/ Chain!Chain
  BY <1>5, ScriptEnds DEF Distance
<1> QED
  BY <1>1, <1>2, <1>3, <1>4, <1>5 DEF Chain!Step

\* The chainload has no loop: a boot has seven steps at most, however often the
\* fleet and the intents change (proxydhcp.go:206 "the chainload loop").
THEOREM BootsGoForward == ASSUME Chain!HardwareAssumption PROVE Chain!Spec => BootGoesForward
<1>1. ChainInv /\ [Chain!Next]_Chain!vars =>
        [/\ Chain!Step => Distance(at') < Distance(at)
         /\ Distance(at') > Distance(at) => Chain!PowerOn]_Chain!vars
  <2> SUFFICES ASSUME ChainInv, Chain!Next
               PROVE  /\ Chain!Step => Distance(at') < Distance(at)
                      /\ Distance(at') > Distance(at) => Chain!PowerOn
    OBVIOUS
  <2>1. Chain!Step => Distance(at') < Distance(at)
    BY StepsGoForward
  <2>2. Distance(at') \in Nat /\ Distance(at) \in Nat
    BY DEF Distance
  <2>3. Chain!Reset \/ (\E g \in Chain!Gate : Chain!Change(g)) => Distance(at') <= Distance(at)
    BY DEF Chain!Reset, Chain!Change, Distance
  <2> QED
    BY <2>1, <2>2, <2>3 DEF Chain!Next
<1> QED
  BY <1>1, ChainInvariant, PTL DEF Chain!Spec, BootGoesForward

-----------------------------------------------------------------------------
(***************************************************************************)
(* Life: the process.                                                      *)
(***************************************************************************)

\* A server that has returned has told main why, and main knows as long as it
\* has not received anything.
ServersTellWhy ==
    \A s \in Life!Server :
        /\ server[s] # "returned" => failed[s] = "nothing"
        /\ server[s] = "stopping" => cancelled
        /\ errc[s] = "error" => failed[s] # "nothing"
        /\ main = "select" /\ errc[s] = "nil" => asked \/ failed["dhcp"] = "socket"
        /\ main = "select" /\ server[s] = "returned" => errc[s] # None

\* The context is done before main is through with its select only if a signal
\* says so, and the error main has kept is that of a server.
MainKnowsWhy ==
    /\ main = "select" => caught /\ (cancelled => asked)
    /\ main \in {"cancel", "drain"} /\ firstErr = "nil" => asked \/ failed["dhcp"] = "socket"
    /\ firstErr = "error" => \E s \in Life!Server : failed[s] # "nothing"
    /\ Life!Runs /\ asked => cancelled

\* A file that was on the disk at the last SIGHUP and has not been read since is
\* about to be, unless the process stops: the signal is in the channel, or the
\* watcher has yet to read.
HangupIsPending ==
    loaded < wanted => hup = 1 \/ watcher = "reloading" \/ (watcher = "off" /\ cancelled)

\* Nothing is asked of a watcher that is not there yet.
WatcherIsSound ==
    /\ wanted <= edited /\ loaded <= edited
    /\ wanted > 0 => watcher # "starting"
    /\ ~config => watcher = "off" /\ wanted = 0

\* A reason to end is one that main's select finds.
EndIsReady ==
    main = "select" /\ (asked \/ \E s \in Life!Server : failed[s] # "nothing") =>
        cancelled \/ \E s \in Life!Server : errc[s] # None

LifeInv == Life!TypeOK /\ ServersTellWhy /\ MainKnowsWhy /\ Life!ExitTells

\* The invariant holds as the goroutines start.
LEMMA LifeInit == ASSUME Life!VersionAssumption, Life!NoneAssumption, Life!Init PROVE LifeInv
<1>1. 0 \in 0..MaxVersion /\ 0 \in 0..2 /\ 0 \in 0..1
  BY DEF Life!VersionAssumption
<1>2. Life!TypeOK
  BY <1>1 DEF Life!TypeOK, Life!Init
<1> QED
  BY <1>2 DEF LifeInv, ServersTellWhy, MainKnowsWhy, Life!ExitTells, Life!Init,
       Life!NoneAssumption, Life!Server, Life!Runs

\* The servers: one that stops was told to, and only one that has
\* returned has failed.
LEMMA ServersStep ==
    ASSUME Life!NoneAssumption, LifeInv, NEW s \in Life!Server,
           Life!Bind(s) \/ Life!Fail(s) \/ Life!Stop(s) \/ Life!Stopped(s) \/ Life!Transfer
    PROVE  LifeInv'
<1> USE DEF LifeInv, Life!TypeOK, ServersTellWhy, MainKnowsWhy, Life!ExitTells, Life!Return,
            Life!Runs, Life!process, Life!reloads, Life!NoneAssumption, Life!Server
<1>1. CASE Life!Bind(s)
  BY <1>1 DEF Life!Bind
<1>2. CASE Life!Fail(s)
  BY <1>2 DEF Life!Fail
<1>3. CASE Life!Stop(s)
  BY <1>3 DEF Life!Stop
<1>4. CASE Life!Stopped(s)
  BY <1>4 DEF Life!Stopped
<1>5. CASE Life!Transfer
  BY <1>5 DEF Life!Transfer
<1> QED
  BY <1>1, <1>2, <1>3, <1>4, <1>5

\* main: the first result is the reason, the others are only waited for.
LEMMA MainStep ==
    ASSUME Life!NoneAssumption, LifeInv,
           Life!Select \/ Life!Cancel \/ Life!Deadline \/ Life!Drain \/ Life!Exit
    PROVE  LifeInv'
<1> USE DEF LifeInv, Life!TypeOK, ServersTellWhy, MainKnowsWhy, Life!ExitTells, Life!Receive,
            Life!Runs, Life!servers, Life!reloads, Life!NoneAssumption, Life!Server
<1>1. CASE Life!Select
  BY <1>1 DEF Life!Select
<1>2. CASE Life!Cancel
  BY <1>2 DEF Life!Cancel
<1>3. CASE Life!Deadline
  BY <1>3 DEF Life!Deadline
<1>4. CASE Life!Drain
  <2>1. PICK s \in Life!Server : Life!Receive(s)
    BY <1>4 DEF Life!Drain
  <2>2. /\ main = "drain" /\ main' = main /\ \A t \in Life!Server : errc'[t] \in {errc[t], None}
        /\ errc' \in [Life!Server -> {"nil", "error", None}]
    BY <1>4, <2>1 DEF Life!Drain
  <2> QED
    BY <1>4, <2>2 DEF Life!Drain
<1>5. CASE Life!Exit
  BY <1>5 DEF Life!Exit
<1> QED
  BY <1>1, <1>2, <1>3, <1>4, <1>5

\* Signals and the watcher.
LEMMA SignalStep ==
    ASSUME Life!VersionAssumption, Life!NoneAssumption, LifeInv,
           Life!Interrupt \/ Life!Hangup \/ Life!Edit \/ Life!Watch \/ Life!TakeHangup
           \/ Life!WatcherLeaves \/ Life!ReadFile \/ Life!Prune \/ UNCHANGED Life!vars
    PROVE  LifeInv'
<1> USE DEF LifeInv, Life!TypeOK, ServersTellWhy, MainKnowsWhy, Life!ExitTells, Life!Killed,
            Life!Runs, Life!process, Life!servers, Life!reloads, Life!NoneAssumption, Life!Server,
            Life!VersionAssumption
<1>1. CASE Life!Interrupt
  <2>1. CASE caught
    <3>1. /\ asked' = TRUE /\ cancelled' = TRUE
          /\ UNCHANGED <<config, caught, main, firstErr, received, exit, server, transfer, errc,
                         failed, watcher, hup, edited, loaded, wanted>>
      BY <1>1, <2>1 DEF Life!Interrupt
    <3> QED
      BY <3>1
  <2>2. CASE ~caught
    <3>1. /\ asked' = TRUE /\ main' = "exited" /\ exit' = "signal"
          /\ UNCHANGED <<config, cancelled, caught, firstErr, received, server, transfer, errc,
                         failed, watcher, hup, edited, loaded, wanted>>
      BY <1>1, <2>2 DEF Life!Interrupt
    <3> QED
      BY <3>1
  <2> QED
    BY <2>1, <2>2
<1>2. CASE Life!Hangup
  <2>1. hup \in 0..1 => (IF Life!Room THEN hup + 1 ELSE hup) \in 0..1
    BY DEF Life!Room
  <2>2. /\ hup' \in 0..1 /\ wanted' \in 0..MaxVersion
        /\ UNCHANGED <<config, cancelled, caught, server, transfer, errc, firstErr, received,
                       watcher, edited, loaded, asked, failed>>
        /\ \/ UNCHANGED <<main, exit>>
           \/ main' = "exited" /\ exit' = "signal"
    BY <1>2, <2>1 DEF Life!Hangup
  <2> QED
    BY <2>2
<1>3. CASE Life!Edit
  BY <1>3 DEF Life!Edit
<1>4. CASE Life!Watch \/ Life!TakeHangup \/ Life!WatcherLeaves \/ Life!ReadFile \/ Life!Prune
  BY <1>4 DEF Life!Watch, Life!TakeHangup, Life!WatcherLeaves, Life!ReadFile, Life!Prune
<1>5. CASE UNCHANGED Life!vars
  BY <1>5 DEF Life!vars
<1> QED
  BY <1>1, <1>2, <1>3, <1>4, <1>5

\* Every step of the process keeps the invariant.
LEMMA LifeStep ==
    ASSUME Life!VersionAssumption, Life!NoneAssumption
    PROVE  LifeInv /\ [Life!Next]_Life!vars => LifeInv'
<1> SUFFICES ASSUME LifeInv, [Life!Next]_Life!vars PROVE LifeInv'
  OBVIOUS
<1>1. "dhcp" \in Life!Server
  BY DEF Life!Server
<1>2. CASE Life!Next
  BY <1>1, <1>2, ServersStep, MainStep, SignalStep DEF Life!Next, Life!Gone
<1>3. CASE UNCHANGED Life!vars
  BY <1>3, SignalStep
<1> QED
  BY <1>2, <1>3

\* What the exit code will say is known from the first result on.
THEOREM LifeInvariant ==
    ASSUME Life!VersionAssumption, Life!NoneAssumption
    PROVE  Life!Spec => []LifeInv
BY LifeInit, LifeStep, PTL DEF Life!Spec

\* A SIGHUP stays in the channel or with the watcher until it has read the file.
LEMMA WatchStep ==
    ASSUME Life!VersionAssumption, Life!NoneAssumption
    PROVE  Life!TypeOK /\ Life!TypeOK' /\ WatcherIsSound /\ HangupIsPending /\ [Life!Next]_Life!vars
             => WatcherIsSound' /\ HangupIsPending'
<1> SUFFICES ASSUME Life!TypeOK, Life!TypeOK', WatcherIsSound, HangupIsPending, [Life!Next]_Life!vars
             PROVE  WatcherIsSound' /\ HangupIsPending'
  OBVIOUS
<1>1. /\ hup \in 0..1 /\ wanted \in Nat /\ edited \in Nat /\ loaded \in Nat
      /\ config \in BOOLEAN /\ cancelled \in BOOLEAN
      /\ watcher \in {"off", "starting", "waiting", "reloading", "pruning"}
  BY DEF Life!TypeOK, Life!VersionAssumption
<1> USE DEF WatcherIsSound, HangupIsPending
<1>2. CASE UNCHANGED <<config, watcher, hup, edited, loaded, wanted>> /\ (cancelled => cancelled')
  BY <1>2
<1>3. CASE Life!Hangup
  <2>1. UNCHANGED <<config, watcher, edited, loaded>>
    BY <1>3 DEF Life!Hangup
  <2>2. CASE Life!Watches
    <3>1. hup' = 1 /\ wanted' = edited /\ cancelled' = cancelled
      BY <1>1, <1>3, <2>2 DEF Life!Hangup, Life!Room, Life!process
    <3> QED
      BY <1>1, <2>1, <2>2, <3>1 DEF Life!Watches
  <2>3. CASE ~Life!Watches
    <3>1. UNCHANGED <<hup, wanted, cancelled>>
      BY <1>3, <2>3 DEF Life!Hangup, Life!Killed
    <3> QED
      BY <2>1, <3>1
  <2> QED
    BY <2>2, <2>3
<1>4. CASE Life!Edit
  BY <1>1, <1>4 DEF Life!Edit, Life!process
<1>5. CASE Life!Watch \/ Life!WatcherLeaves \/ Life!Prune
  BY <1>1, <1>5 DEF Life!Watch, Life!WatcherLeaves, Life!Prune, Life!process
<1>6. CASE Life!TakeHangup
  BY <1>1, <1>6 DEF Life!TakeHangup, Life!process
<1>7. CASE Life!ReadFile
  BY <1>1, <1>7 DEF Life!ReadFile, Life!process
<1>8. CASE \E s \in Life!Server : Life!Bind(s) \/ Life!Fail(s) \/ Life!Stop(s) \/ Life!Stopped(s)
  BY <1>2, <1>8 DEF Life!Bind, Life!Fail, Life!Stop, Life!Stopped, Life!process, Life!reloads
<1>9. CASE Life!Transfer \/ Life!Select \/ Life!Cancel \/ Life!Deadline \/ Life!Drain \/ Life!Exit
  BY <1>1, <1>2, <1>9 DEF Life!Transfer, Life!Select, Life!Cancel, Life!Deadline, Life!Drain, Life!Exit,
     Life!process, Life!reloads
<1>10. CASE Life!Interrupt
  BY <1>2, <1>10 DEF Life!Interrupt, Life!Killed, Life!reloads
<1>11. CASE Life!Gone \/ UNCHANGED Life!vars
  BY <1>2, <1>11 DEF Life!Gone, Life!vars
<1> QED
  BY <1>3, <1>4, <1>5, <1>6, <1>7, <1>8, <1>9, <1>10, <1>11 DEF Life!Next

\* Every variable keeps its type: the channel of SIGHUPs has one at most.
THEOREM LifeTypeCorrect ==
    ASSUME Life!VersionAssumption, Life!NoneAssumption
    PROVE  Life!Spec => []Life!TypeOK
BY LifeInvariant, PTL DEF LifeInv

\* The exit code tells a stop from a failure, except that the end of the
\* proxyDHCP sockets looks like a stop.
THEOREM ExitCodeTells ==
    ASSUME Life!VersionAssumption, Life!NoneAssumption
    PROVE  Life!Spec => []Life!ExitTells
BY LifeInvariant, PTL DEF LifeInv

\* main never sleeps through the end: once the process is asked to stop or has
\* lost a server, its select has something to take.
THEOREM MainIsWoken ==
    ASSUME Life!VersionAssumption, Life!NoneAssumption
    PROVE  Life!Spec => []EndIsReady
<1>1. LifeInv => EndIsReady
  BY DEF LifeInv, ServersTellWhy, MainKnowsWhy, EndIsReady, Life!Runs, Life!TypeOK
<1> QED
  BY <1>1, LifeInvariant, PTL

\* No SIGHUP is lost to a reload in progress: the one slot of the channel is
\* enough, however many signals come and however often the file is edited.
THEOREM HangupsStayPending ==
    ASSUME Life!VersionAssumption, Life!NoneAssumption
    PROVE  Life!Spec => []HangupIsPending
<1>1. Life!Init => WatcherIsSound /\ HangupIsPending
  BY DEF Life!Init, WatcherIsSound, HangupIsPending
<1>2. Life!Spec => []Life!TypeOK
  BY LifeTypeCorrect
<1> QED
  BY <1>1, <1>2, WatchStep, PTL DEF Life!Spec

=============================================================================
