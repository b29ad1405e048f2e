------------------------------ MODULE Lifecycle ------------------------------
(***************************************************************************)
(* The process (cmd/pxe-beacon/main.go): main starts the proxyDHCP, TFTP   *)
(* and HTTP servers and waits for a signal or for the first server to      *)
(* return, cancels the context that all of them watch, waits a while for   *)
(* the others and exits.  Beside them a watcher reloads the fleet on       *)
(* SIGHUP.  The kernel hands a signal to the process if it is caught, and  *)
(* kills the process otherwise.                                            *)
(***************************************************************************)
EXTENDS Naturals

CONSTANTS
    MaxVersion,     \* how many times fleet.yaml is edited
    None            \* no result, no exit code

ASSUME VersionAssumption == MaxVersion \in Nat

Server == {"dhcp", "tftp", "http"}

ASSUME NoneAssumption == None \notin {"nil", "error", "success", "failure", "signal"}

VARIABLES
    config,     \* -config is given
    cancelled,  \* the context is done
    caught,     \* interrupt and terminate are still caught
    server,     \* server[s]: what Serve does
    transfer,   \* a TFTP transfer is under way
    errc,       \* errc[s]: what Serve has sent and main has not received
    main,       \* where main is
    firstErr,   \* the error main took from the first server to return
    received,   \* how many results main has received since
    exit,       \* how it has ended: by exit(0), by exit(1) or by a signal
    watcher,    \* the SIGHUP watcher
    hup,        \* the signals in its channel
    edited,     \* the version of fleet.yaml on the disk
    loaded,     \* the version that Reload has read last (whether it takes it
                \* is a matter of FleetStore)
    \* History, read by no action:
    asked,      \* a signal has asked the process to stop
    failed,     \* failed[s]: what made s stop by itself
    wanted      \* the version on the disk at the last SIGHUP

vars == <<config, cancelled, caught, server, transfer, errc, main, firstErr,
          received, exit, watcher, hup, edited, loaded, asked, failed, wanted>>
process == <<cancelled, caught, main, firstErr, received, exit>>
servers == <<server, transfer, errc, failed>>
reloads == <<watcher, hup, edited, loaded, wanted>>

TypeOK ==
    /\ config \in BOOLEAN
    /\ cancelled \in BOOLEAN
    /\ caught \in BOOLEAN
    /\ server \in [Server -> {"starting", "serving", "stopping", "returned"}]
    /\ transfer \in BOOLEAN
    /\ errc \in [Server -> {"nil", "error", None}]
    /\ main \in {"select", "cancel", "drain", "exited"}
    /\ firstErr \in {"nil", "error"}
    /\ received \in 0..2
    /\ exit \in {"success", "failure", "signal", None}
    /\ watcher \in {"off", "starting", "waiting", "reloading", "pruning"}
    /\ hup \in 0..1
    /\ edited \in 0..MaxVersion
    /\ loaded \in 0..MaxVersion
    /\ asked \in BOOLEAN
    /\ failed \in [Server -> {"nothing", "bind", "socket"}]
    /\ wanted \in 0..MaxVersion

\* main has loaded the fleet and started the goroutines.
Init ==
    /\ config \in BOOLEAN
    /\ cancelled = FALSE
    /\ caught = TRUE
    /\ server = [s \in Server |-> "starting"]
    /\ transfer = FALSE
    /\ errc = [s \in Server |-> None]
    /\ main = "select"
    /\ firstErr = "nil"
    /\ received = 0
    /\ exit = None
    /\ watcher = IF config THEN "starting" ELSE "off"
    /\ hup = 0
    /\ edited = 0
    /\ loaded = 0
    /\ asked = FALSE
    /\ failed = [s \in Server |-> "nothing"]
    /\ wanted = 0

Runs == main # "exited"

-----------------------------------------------------------------------------
(***************************************************************************)
(* The servers.                                                            *)
(***************************************************************************)
Return(s, result, cause) ==
    /\ server' = [server EXCEPT ![s] = "returned"]
    /\ errc' = [errc EXCEPT ![s] = result]
    /\ failed' = [failed EXCEPT ![s] = cause]
    /\ UNCHANGED transfer

\* The sockets are bound, or are not to be had.
Bind(s) ==
    /\ Runs
    /\ server[s] = "starting"
    /\ \/ server' = [server EXCEPT ![s] = "serving"] /\ UNCHANGED <<transfer, errc, failed>>
       \/ Return(s, "error", "bind")
    /\ UNCHANGED <<config, asked, process, reloads>>

\* A TFTP transfer begins or ends; it can wait for acknowledgements that
\* never come.
Transfer ==
    /\ Runs
    /\ \/ server["tftp"] = "serving"
       \/ server["tftp"] = "stopping" /\ transfer
    /\ transfer' = ~transfer
    /\ UNCHANGED <<config, asked, process, server, errc, failed, reloads>>

\* A socket fails.  The proxyDHCP listener logs it and returns no error.
Fail(s) ==
    /\ Runs
    /\ server[s] = "serving"
    /\ Return(s, IF s = "dhcp" THEN "nil" ELSE "error", "socket")
    /\ UNCHANGED <<config, asked, process, reloads>>

\* A server sees that the context is done and takes no more clients.
Stop(s) ==
    /\ Runs
    /\ server[s] = "serving"
    /\ cancelled
    /\ server' = [server EXCEPT ![s] = "stopping"]
    /\ UNCHANGED <<config, asked, process, transfer, errc, failed, reloads>>

\* TFTP waits for its transfers, HTTP two seconds for its requests.
Stopped(s) ==
    /\ Runs
    /\ server[s] = "stopping"
    /\ s = "tftp" => ~transfer
    /\ Return(s, "nil", "nothing")
    /\ UNCHANGED <<config, asked, process, reloads>>

-----------------------------------------------------------------------------
(***************************************************************************)
(* main.                                                                   *)
(***************************************************************************)
Receive(s) ==
    /\ errc[s] # None
    /\ errc' = [errc EXCEPT ![s] = None]

\* select: the context, or whichever result is there.
Select ==
    /\ main = "select"
    /\ \/ cancelled /\ UNCHANGED <<firstErr, errc>>
       \/ \E s \in Server : Receive(s) /\ firstErr' = errc[s]
    /\ main' = "cancel"
    /\ UNCHANGED <<config, cancelled, caught, received, exit, asked, server, transfer,
                   failed, reloads>>

\* cancel() ends the context and the catching of its signals.
Cancel ==
    /\ main = "cancel"
    /\ cancelled' = TRUE
    /\ caught' = FALSE
    /\ main' = "drain"
    /\ UNCHANGED <<config, asked, servers, firstErr, received, exit, reloads>>

\* Mutant of Deadline: the wait has no end.
DeadlineNever == FALSE /\ UNCHANGED vars

\* Three seconds after the cancel at the latest, the wait is over.
Deadline ==
    /\ main = "drain"
    /\ received < 2
    /\ received' = 2
    /\ UNCHANGED <<config, cancelled, caught, asked, servers, main, firstErr, exit, reloads>>

\* Mutant of Drain: an error among the rest is the one to report.
DrainLast ==
    /\ main = "drain"
    /\ received < 2
    /\ \E s \in Server : Receive(s) /\ firstErr' = errc[s]
    /\ received' = received + 1
    /\ UNCHANGED <<config, cancelled, caught, asked, server, transfer, failed, main,
                   exit, reloads>>

\* One more of two results.
Drain ==
    /\ main = "drain"
    /\ received < 2
    /\ \E s \in Server : Receive(s)
    /\ received' = received + 1
    /\ UNCHANGED <<config, cancelled, caught, asked, server, transfer, failed, main, firstErr,
                   exit, reloads>>

Exit ==
    /\ main = "drain"
    /\ received = 2
    /\ exit' = IF firstErr = "error" THEN "failure" ELSE "success"
    /\ main' = "exited"
    /\ UNCHANGED <<config, cancelled, caught, asked, servers, firstErr, received, reloads>>

-----------------------------------------------------------------------------
(***************************************************************************)
(* Signals and the watcher.                                                *)
(***************************************************************************)
Killed ==
    /\ main' = "exited"
    /\ exit' = "signal"
    /\ UNCHANGED <<cancelled, caught, firstErr, received>>

\* SIGINT or SIGTERM.
Interrupt ==
    /\ Runs
    /\ asked' = TRUE
    /\ IF caught
       THEN cancelled' = TRUE /\ UNCHANGED <<caught, main, firstErr, received, exit>>
       ELSE Killed
    /\ UNCHANGED <<config, servers, reloads>>

\* The watcher has asked for the signal.
Watches == watcher \in {"waiting", "reloading", "pruning"}

\* Mutant of Room: the channel has no buffer, a watcher that reloads misses
\* the signal.
RoomIfWaiting == watcher = "waiting" /\ hup = 0

\* Mutant of Room: the channel takes whatever comes.
RoomAlways == TRUE

\* The kernel's signal goes into the channel, if there is room.
Room == hup = 0

Hangup ==
    /\ Runs
    /\ IF Watches
       THEN /\ hup' = IF Room THEN hup + 1 ELSE hup
            /\ wanted' = edited
            /\ UNCHANGED process
       ELSE Killed /\ UNCHANGED <<hup, wanted>>
    /\ UNCHANGED <<config, asked, servers, watcher, edited, loaded>>

Edit ==
    /\ Runs
    /\ edited < MaxVersion
    /\ edited' = edited + 1
    /\ UNCHANGED <<config, asked, process, servers, watcher, hup, loaded, wanted>>

Watch ==
    /\ Runs
    /\ watcher = "starting"
    /\ watcher' = "waiting"
    /\ UNCHANGED <<config, asked, process, servers, hup, edited, loaded, wanted>>

\* The watcher takes the signal, or leaves when the context is done: of two
\* that are ready, select takes either.
TakeHangup ==
    /\ Runs
    /\ watcher = "waiting"
    /\ hup > 0
    /\ hup' = hup - 1
    /\ watcher' = "reloading"
    /\ UNCHANGED <<config, asked, process, servers, edited, loaded, wanted>>

WatcherLeaves ==
    /\ Runs
    /\ watcher = "waiting"
    /\ cancelled
    /\ watcher' = "off"
    /\ UNCHANGED <<config, asked, process, servers, hup, edited, loaded, wanted>>

\* Reload reads the file, and refuses or takes it; the prunes that follow if it
\* does are in BootIntent, Callbacks and Sightings.
ReadFile ==
    /\ Runs
    /\ watcher = "reloading"
    /\ loaded' = edited
    /\ watcher' \in {"pruning", "waiting"}
    /\ UNCHANGED <<config, asked, process, servers, hup, edited, wanted>>

Prune ==
    /\ Runs
    /\ watcher = "pruning"
    /\ watcher' = "waiting"
    /\ UNCHANGED <<config, asked, process, servers, hup, edited, loaded, wanted>>

\* The process is gone.
Gone == ~Runs /\ UNCHANGED vars

-----------------------------------------------------------------------------
Next ==
    \/ \E s \in Server : Bind(s) \/ Fail(s) \/ Stop(s) \/ Stopped(s)
    \/ Transfer
    \/ Select \/ Cancel \/ Deadline \/ Drain \/ Exit
    \/ Interrupt \/ Hangup \/ Edit
    \/ Watch \/ TakeHangup \/ WatcherLeaves \/ ReadFile \/ Prune
    \/ Gone

Spec == Init /\ [][Next]_vars

(***************************************************************************)
(* Goroutines that can go on do, and timers fire.  Nothing is assumed of   *)
(* clients: a transfer may never end.                                      *)
(***************************************************************************)
FairSpec ==
    /\ Spec
    /\ WF_vars(Select) /\ WF_vars(Cancel) /\ WF_vars(Deadline) /\ WF_vars(Exit)
    /\ WF_vars(Watch) /\ WF_vars(TakeHangup) /\ WF_vars(ReadFile) /\ WF_vars(Prune)

-----------------------------------------------------------------------------
(* Properties                                                               *)

\* Once asked to stop, or without one of its servers, the process ends, with
\* the transfers that never end still under way (main.go:277 "best-effort,
\* with a short deadline").
ProcessEnds == (asked \/ \E s \in Server : failed[s] # "nothing") ~> ~Runs

\* The exit code tells a stop from a failure, except that the end of the
\* proxyDHCP sockets looks like a stop: what the other servers return on
\* their way down changes nothing.
ExitTells ==
    /\ exit = "failure" => \E s \in Server : failed[s] # "nothing"
    /\ exit = "success" => asked \/ failed["dhcp"] = "socket"

\* A fleet.yaml that was on the disk when a SIGHUP came is read, or one after
\* it: a signal that finds the watcher at work is not lost.
HangupIsHeard ==
    \A v \in 1..MaxVersion : wanted = v ~> loaded >= v \/ cancelled \/ ~Runs

=============================================================================
