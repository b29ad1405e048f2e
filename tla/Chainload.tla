----------------------------- MODULE Chainload -------------------------------
(***************************************************************************)
(* One box's way through the network boot: its firmware's DHCP, the iPXE   *)
(* binary it is given (internal/proxydhcp BuildOffer and arch.go,          *)
(* internal/tftp, the binaries of internal/httpd), iPXE's own DHCP, and    *)
(* the script that iPXE runs (internal/boot).  The server keeps nothing    *)
(* about a box between its steps: each handler answers from the request,   *)
(* the fleet and the pending actions as they are then, and those change    *)
(* under the box's feet.  BootIntent has what the intents are; here is     *)
(* what the files, transports and stages are.  What handlers leave with    *)
(* the trackers and the discovery feed is not part of this module.         *)
(***************************************************************************)
EXTENDS Sequences

CONSTANT
    Hardware        \* the kinds of box that boot: what each sends in options
                    \* 60 and 93, and the binaries that it can run

-----------------------------------------------------------------------------
(* Architectures and files                                                  *)

Kind == {"ipxe.efi", "snponly.efi", "ipxe-arm64.efi", "undionly.kpxe"}

Profile(t, file) == [transport |-> t, file |-> file]

archTable ==
    [BIOS       |-> Profile("TFTP", "undionly.kpxe"),
     X64        |-> Profile("TFTP", "snponly.efi"),
     ARM64      |-> Profile("TFTP", "ipxe-arm64.efi"),
     X64_HTTP   |-> Profile("HTTP", "snponly.efi"),
     ARM64_HTTP |-> Profile("HTTP", "ipxe-arm64.efi"),
     IA32       |-> Profile("TFTP", "snponly.efi")]

\* Mutant of LookupArch: an unknown architecture has no profile.
LookupArchStrict(a) ==
    IF a \in DOMAIN archTable THEN archTable[a] ELSE Profile("none", "none")

\* Mutant of LookupArch: without the row of arm64's HTTP boot.
LookupArchOfPXE(a) ==
    IF a \in DOMAIN archTable \ {"ARM64_HTTP"}
    THEN archTable[a] ELSE archTable["X64"]

\* An architecture that is not in the table is taken for the commonest.
LookupArch(a) ==
    IF a \in DOMAIN archTable THEN archTable[a] ELSE archTable["X64"]

selectArch(archs) == IF archs = <<>> THEN "BIOS" ELSE Head(archs)

\* Mutant of kindForLeaf: the names of before vanilla iPXE only.
kindForOldLeaf(leaf) ==
    {k \in Kind : <<leaf, k>> \in {<<"netboot.xyz.efi", "ipxe.efi">>,
                                   <<"netboot.xyz-snponly.efi", "snponly.efi">>,
                                   <<"netboot.xyz-arm64.efi", "ipxe-arm64.efi">>,
                                   <<"netboot.xyz.kpxe", "undionly.kpxe">>}}

\* The binary TFTP serves under a name, if any.
kindForLeaf(leaf) ==
    {k \in Kind :
        \/ k = "ipxe.efi" /\ leaf \in {k, "netboot.xyz.efi"}
        \/ k = "snponly.efi" /\ leaf \in {k, "netboot.xyz-snponly.efi", "ipxe-snponly.efi"}
        \/ k = "ipxe-arm64.efi" /\ leaf \in {k, "netboot.xyz-arm64.efi"}
        \/ k = "undionly.kpxe" /\ leaf \in {k, "netboot.xyz.kpxe", "ipxe.kpxe"}}

\* ... and the one HTTP serves at /<leaf>.
routes(leaf) ==
    {k \in Kind :
        \/ k = "ipxe.efi" /\ leaf \in {k, "netboot.xyz.efi"}
        \/ k = "snponly.efi" /\ leaf \in {k, "netboot.xyz-snponly.efi"}
        \/ k = "ipxe-arm64.efi" /\ leaf \in {k, "netboot.xyz-arm64.efi"}
        \/ k = "undionly.kpxe" /\ leaf \in {k, "netboot.xyz.kpxe"}}

Served(transport, leaf) ==
    IF transport = "TFTP" THEN kindForLeaf(leaf) ELSE routes(leaf)

-----------------------------------------------------------------------------
(* Boxes                                                                    *)

\* The binaries made for machines that name this architecture first.  A code
\* that is not in the table is sent by some x86_64 firmware.
Native(a) ==
    IF a = "BIOS" THEN {"undionly.kpxe"}
    ELSE IF a \in {"ARM64", "ARM64_HTTP"} THEN {"ipxe-arm64.efi"}
    ELSE {"ipxe.efi", "snponly.efi"}

\* The architectures are any codes in any number.  A box can run what is made
\* for the first of them, or none of the binaries (ia32, riscv).
ASSUME HardwareAssumption ==
    \A b \in Hardware :
        /\ b.archs \in Seq(STRING)
        /\ b.runs = {} \/ b.runs = Native(selectArch(b.archs))

Arm == {b \in Hardware : "ipxe-arm64.efi" \in b.runs}

\* What the fleet and the pending store say of the box: it is not a member,
\* a member without a pending action, one that moreover was installed last,
\* a member with an action.
Gate == {"unknown", "idle", "installed", "armed"}

Target == {"menu", "custom", "debian-12", "ubuntu-22.04", "rocky-9"}

\* Off; DHCP by the firmware; a binary to fetch; iPXE and its DHCP; a script
\* to run; and where a boot ends.
Stage == {"off", "discover", "request", "fetch",
          "ipxe", "ipxe-request", "boot.ipxe", "script",
          "hung", "disk", "menu", "custom", "kernel", "shell"}
InIPXE == {"ipxe", "ipxe-request", "boot.ipxe", "script"}
Ended == {"disk", "menu", "custom", "kernel", "shell"}

NoFile == [transport |-> "none", file |-> "none"]

\* The flags: -config, that and -legacy-redirector, or no -config.
Mode == {"dispatch", "redirector", "template"}

VARIABLES
    mode,       \* how the server was started
    hw,         \* the box
    target,     \* boot: of its profile, while it is a member
    gate,       \* what the fleet and the pending store say of it now
    at,         \* how far it has come
    file,       \* the transport and file it has been offered
    script      \* what the script it has fetched does

vars == <<mode, hw, target, gate, at, file, script>>

Script == Target \cup {"none", "default", "redirect", "chain"}

TypeOK ==
    /\ mode \in Mode
    /\ hw \in Hardware
    /\ target \in Target
    /\ gate \in Gate
    /\ at \in Stage
    /\ file \in [transport : {"TFTP", "HTTP", "none"}, file : Kind \cup {"none"}]
    /\ script \in Script
    /\ at \in {"fetch", "request", "ipxe"} <=> file # NoFile
    /\ at = "script" <=> script # "none"

Init ==
    /\ mode \in Mode
    /\ gate = "unknown" \/ mode # "template"
    /\ hw \in Hardware
    /\ target \in Target
    /\ gate \in Gate
    /\ at = "off"
    /\ file = NoFile
    /\ script = "none"

-----------------------------------------------------------------------------
(* BuildOffer                                                               *)

\* What the box's firmware sends, and what iPXE sends on any box.
FirmwareRequest(type) ==
    [type |-> type, class |-> hw.class, user |-> "none",
     archs |-> hw.archs]
IPXERequest(type) ==
    [type |-> type, class |-> "PXEClient", user |-> "iPXE",
     archs |-> hw.archs]

Skip == [skip |-> TRUE]
Reply(type, f) == [skip |-> FALSE, type |-> type, file |-> f]
ScriptURL == [transport |-> "HTTP", file |-> "/boot.ipxe"]

replyType(req) == IF req.type = "REQUEST" THEN "ACK" ELSE "OFFER"

\* Mutant of BuildOffer: every reply is an OFFER.
BuildOfferAlwaysOffer(req) ==
    IF \/ req.type \notin {"DISCOVER", "REQUEST"}
       \/ req.class \notin {"PXEClient", "HTTPClient"}
    THEN Skip
    ELSE IF req.user = "iPXE" THEN Reply("OFFER", ScriptURL)
    ELSE IF gate \in {"idle", "installed"} THEN Skip
    ELSE Reply("OFFER", LookupArch(selectArch(req.archs)))

\* Mutant of BuildOffer: the user class is not looked at.
BuildOfferByArch(req) ==
    IF \/ req.type \notin {"DISCOVER", "REQUEST"}
       \/ req.class \notin {"PXEClient", "HTTPClient"}
       \/ gate \in {"idle", "installed"}
    THEN Skip
    ELSE Reply(replyType(req), LookupArch(selectArch(req.archs)))

\* iPXE gets the script whatever the gates say; the firmware of a member
\* needs a pending action, and its architecture tells which file it gets.
BuildOffer(req) ==
    IF \/ req.type \notin {"DISCOVER", "REQUEST"}
       \/ req.class \notin {"PXEClient", "HTTPClient"}
    THEN Skip
    ELSE IF req.user = "iPXE" THEN Reply(replyType(req), ScriptURL)
    ELSE IF gate \in {"idle", "installed"} THEN Skip
    ELSE Reply(replyType(req), LookupArch(selectArch(req.archs)))

-----------------------------------------------------------------------------
(* The firmware                                                             *)

PowerOn ==
    /\ at = "off"
    /\ at' = "discover"
    /\ UNCHANGED <<mode, hw, target, gate, file, script>>

\* A DISCOVER.  Some firmware asks again on port 4011 before it fetches.
Discover ==
    LET r == BuildOffer(FirmwareRequest("DISCOVER")) IN
    /\ at = "discover"
    /\ IF r.skip THEN at' = "disk" /\ UNCHANGED file
                 ELSE at' \in {"fetch", "request"} /\ file' = r.file
    /\ UNCHANGED <<mode, hw, target, gate, script>>

\* ... with a REQUEST, or with an INFORM.
Ask(type) ==
    LET r == BuildOffer(FirmwareRequest(type)) IN
    /\ at = "request"
    /\ IF r.skip THEN at' = "disk" /\ file' = NoFile
                 ELSE at' = "fetch" /\ file' = r.file
    /\ UNCHANGED <<mode, hw, target, gate, script>>

\* readHandler or serveIPXE, and what the box does with what it gets.
Fetch ==
    LET served == Served(file.transport, file.file) IN
    /\ at = "fetch"
    /\ \/ served = {} /\ at' = "disk" /\ file' = NoFile
       \/ served # {} /\ served \subseteq hw.runs
          /\ at' = "ipxe" /\ UNCHANGED file
       \/ ~(served \subseteq hw.runs) /\ at' = "hung" /\ file' = NoFile
    /\ UNCHANGED <<mode, hw, target, gate, script>>

-----------------------------------------------------------------------------
(* iPXE                                                                     *)

\* The script that autoexec.ipxe and /boot.ipxe are when they are fetched.
Rendered ==
    IF mode = "redirector" THEN "redirect"
    ELSE IF mode = "template" THEN "chain"
    ELSE IF gate = "unknown" THEN "default" ELSE target

\* Some builds that came over TFTP look for autoexec.ipxe there first.
GetAutoexec ==
    /\ at = "ipxe" /\ file.transport = "TFTP"
    /\ mode # "template"
    /\ at' = "script" /\ script' = Rendered
    /\ file' = NoFile
    /\ UNCHANGED <<mode, hw, target, gate>>

IPXEDiscover ==
    LET r == BuildOffer(IPXERequest("DISCOVER")) IN
    /\ at = "ipxe"
    /\ at' = IF r.skip THEN "disk" ELSE "ipxe-request"
    /\ file' = NoFile
    /\ UNCHANGED <<mode, hw, target, gate, script>>

\* iPXE does not see a reply to its REQUEST that is not an ACK, and gives up
\* after some retries.
IPXEAsk ==
    LET r == BuildOffer(IPXERequest("REQUEST")) IN
    /\ at = "ipxe-request"
    /\ IF r.skip \/ r.type # "ACK" THEN at' = "disk" /\ UNCHANGED file
       ELSE IF r.file = ScriptURL THEN at' = "boot.ipxe" /\ UNCHANGED file
       ELSE at' = "fetch" /\ file' = r.file
    /\ UNCHANGED <<mode, hw, target, gate, script>>

\* handleScript.
GetScript ==
    /\ at = "boot.ipxe"
    /\ at' = "script" /\ script' = Rendered
    /\ UNCHANGED <<mode, hw, target, gate, file>>

-----------------------------------------------------------------------------
(* Scripts                                                                  *)

EndsAt(places) ==
    /\ at' \in places
    /\ script' = "none"
    /\ UNCHANGED <<mode, hw, target, gate, file>>

IsBuiltIn(t) == t \in {"menu", "ubuntu-22.04", "debian-12"}

\* Where a chain to handleAutoexec leads to when the answer comes; nowhere if
\* it is an error (the target is not built in; the operator's file cannot be
\* read).
Autoexec ==
    IF gate = "unknown" \/ target = "menu" THEN {"menu", "shell"}
    ELSE IF target = "custom" THEN {"custom", "error"}
    ELSE IF IsBuiltIn(target) THEN {"kernel", "shell"}
    ELSE {"error"}

InDispatch == at = "script" /\ mode = "dispatch"

\* The denylist at the head of the dispatch script: ${buildarch} is that of
\* the iPXE binary.
Refused == hw \in Arm

Refuse == InDispatch /\ Refused /\ EndsAt({"off"})

\* The script's dhcp, or the fetches of the arm, fail: it says so and reboots.
Fail == InDispatch /\ ~Refused /\ EndsAt({"off"})

\* The default arm, and the choices an operator has at any other arm.
Default == InDispatch /\ ~Refused /\ script = "default" /\ EndsAt({"menu"})
Choose ==
    InDispatch /\ ~Refused /\ script \in Target /\ EndsAt({"menu", "shell"})

\* The arm of the machine's target.  (BootIntent tells a rescue from it.)
BootTarget ==
    /\ InDispatch /\ ~Refused
    /\ \/ script = "menu" /\ EndsAt({"menu"})
       \/ script = "custom"
          /\ EndsAt({IF o = "error" THEN "off" ELSE o : o \in Autoexec})
       \/ script \in Target \ {"menu", "custom"} /\ EndsAt({"kernel"})

\* The legacy redirector, which leaves iPXE when its dhcp or its chain fails.
Redirect ==
    /\ at = "script" /\ script = "redirect"
    /\ EndsAt({"disk"} \cup (Autoexec \ {"error"}))

\* boot.ipxe as it comes with the program.
Chain == at = "script" /\ script = "chain" /\ EndsAt({"menu", "shell"})

-----------------------------------------------------------------------------
\* The box is reset or switched off.
Reset ==
    /\ at # "off"
    /\ at' = "off" /\ file' = NoFile /\ script' = "none"
    /\ UNCHANGED <<mode, hw, target, gate>>

\* Intents are queued, cancelled and expire; machines are enrolled, deleted
\* and installed.
Change(g) ==
    /\ gate # g /\ mode # "template"
    /\ gate' = g
    /\ UNCHANGED <<mode, hw, target, at, file, script>>

Step ==
    \/ Discover \/ Ask("REQUEST") \/ Ask("INFORM") \/ Fetch
    \/ GetAutoexec \/ IPXEDiscover \/ IPXEAsk \/ GetScript
    \/ Refuse \/ Fail \/ Default \/ Choose \/ BootTarget \/ Redirect \/ Chain

Next == PowerOn \/ Step \/ Reset \/ \E g \in Gate : Change(g)

Spec == Init /\ [][Next]_vars

\* DHCP and HTTP are retried until they are answered, and scripts run on.
FairSpec == Spec /\ WF_vars(Step)

-----------------------------------------------------------------------------
(* Properties                                                               *)

\* What an OFFER names is there under the transport it names: the table of
\* arch.go, the names of tftp.go and the routes of httpd.go agree.
OfferIsServed == at \in {"fetch", "request"} => Served(file.transport, file.file) # {}

\* A box hangs on the binary it was given only if there is none for it
\* (arch.go:4 "get the arch table wrong and a machine boots the wrong file"),
\* and with the dispatch script no arm box gets as far as an installer or a
\* menu, which are for amd64 (dispatch.go:72 "Refuse ARM").
FilesFitTheBox ==
    /\ at = "hung" => hw.runs = {}
    /\ mode = "dispatch" /\ hw \in Arm =>
          at \notin {"menu", "custom", "kernel", "shell"}

\* Every boot comes to an end, whatever happens to the box's intent on the
\* way: iPXE is never given iPXE (proxydhcp.go:206 "the chainload loop").
BootEnds == at # "off" ~> at \in Ended \cup {"hung", "off"}

\* Once iPXE runs the box gets to a script and to where it leads, and is not
\* left without an answer (proxydhcp.go:240 "strand iPXE mid-chainload"): the
\* legacy redirector alone may leave iPXE for the disk.
IPXEIsNotStranded ==
    [][(at \in InIPXE /\ at' = "disk")
        => (at = "script" /\ mode = "redirector")]_vars

=============================================================================
