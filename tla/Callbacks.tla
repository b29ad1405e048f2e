------------------------------ MODULE Callbacks ------------------------------
(***************************************************************************)
(* The installers' callbacks.  The files a box is installed from carry a   *)
(* URL with a token (internal/callbacktoken) that is good for one MAC and  *)
(* for -callback-ttl; by that URL the box reports that it is installed,    *)
(* which ends its install intent, and sends what its installer logged      *)
(* (internal/installlog).  A box that is not heard is installed again for  *)
(* as long as its intent lives.                                            *)
(*                                                                         *)
(* One box and its MAC: the token of another MAC is like one of another    *)
(* secret.  The signature is taken to be what it should be: a token passes *)
(* under the secret that it was minted with and no other.  Time is counted *)
(* in ticks, Second of them to a second, for a token's expiry is kept in   *)
(* whole seconds.                                                          *)
(***************************************************************************)
EXTENDS Naturals, Sequences, SequencesExt

CONSTANTS
    Second,         \* ticks to a second of Unix time
    CallbackTTL,    \* -callback-ttl
    PendingTTL,     \* -pending-ttl; 0 means that no intent expires
    MaxPerMAC,      \* how much of a log the store keeps
    Bare,           \* a callback URL without a token
    None            \* no intent, no callback, no request

ASSUME TicksAssumption ==
    /\ Second \in Nat \ {0}
    /\ CallbackTTL \in Nat \ {0}
    /\ PendingTTL \in Nat
    /\ MaxPerMAC \in Nat \ {0}

(***************************************************************************)
(* What the operator set up.  url: the callback URL of the files carries a *)
(* token, or is one of before the tokens, or the files define no callback  *)
(* that pxe-beacon could add to (a shell script, say).  enforce: not       *)
(* -insecure-callbacks.  fixed: $PXE_BEACON_TOKEN_SECRET is set.           *)
(***************************************************************************)
Setup == [url : {"token", "bare", "none"}, enforce : BOOLEAN, fixed : BOOLEAN]

\* left: ticks until its expiry.  age: since it was minted.  good: it was
\* minted with the secret of today.
Token == [left : 0..CallbackTTL, age : 0..CallbackTTL, good : BOOLEAN]

\* A request that has passed the middleware.  waits: the box still does.
Request == [what : {"done", "log"}, size : 1..(MaxPerMAC + 1), waits : BOOLEAN]

ASSUME NoneAssumption ==
    /\ None \notin Token \cup Request \cup Nat \cup {Bare}
    /\ Bare \notin Token

VARIABLES
    setup,
    phase,      \* ticks since the last whole second
    intent,     \* the age of the install intent that is stored
    box,        \* what the box does
    callback,   \* the token, if any, in the URL that the box got with its files
    post,       \* the request that is being handled
    log,        \* Store.entries: the box's log, in units of which one may be
                \* the end of a body
    \* History, read by no action:
    runs,       \* installations begun since the last PUT, 2 for more
    heard,      \* what the box was answered since it began the last of them
    lastLog     \* whether the last log stored was cut

vars == <<setup, phase, intent, box, callback, post, log, runs, heard, lastLog>>
server == <<intent, post, log, lastLog>>

\* Mutant of Live: an intent lives for as long as it is stored.
LiveStored(i) == i # None

\* Store.Status: an intent counts until its expiry.
Live(i) == i # None /\ (PendingTTL = 0 \/ i < PendingTTL)

Unit == {"text", "end"}

TypeOK ==
    /\ setup \in Setup
    /\ phase \in 0..(Second - 1)
    /\ intent \in 0..PendingTTL \cup {None}
    /\ box \in {"off", "installer", "configured", "disk"}
    /\ callback \in Token \cup {Bare, None}
    /\ post \in Request \cup {None}
    /\ log \in UNION {[1..n -> Unit] : n \in 0..MaxPerMAC}
    /\ runs \in 0..2
    /\ heard \in {"nothing", "ok", "refused", "expired"}
    /\ lastLog \in {"none", "whole", "cut"}

Init ==
    /\ setup \in Setup
    /\ phase = 0
    /\ intent = None
    /\ box = "off"
    /\ callback = None
    /\ post = None
    /\ log = <<>>
    /\ runs = 0
    /\ heard = "nothing"
    /\ lastLog = "none"

-----------------------------------------------------------------------------
(***************************************************************************)
(* The box.  It boots into the installer on a live intent and from its     *)
(* disk otherwise; the installer fetches its files, more than once perhaps *)
(* and each time with a new token.                                         *)
(***************************************************************************)
Boot ==
    /\ box = "off"
    /\ IF Live(intent)
       THEN /\ box' = "installer"
            /\ runs' = IF runs < 2 THEN runs + 1 ELSE 2
            /\ heard' = "nothing"
       ELSE box' = "disk" /\ UNCHANGED <<runs, heard>>
    /\ UNCHANGED <<setup, phase, callback, server>>

\* Mutant of ExpiresIn: now and the TTL are each cut to the second.
ExpiresInTwice ==
    LET cut == phase + (CallbackTTL % Second) IN
    IF CallbackTTL > cut THEN CallbackTTL - cut ELSE 0

\* The expiry is now plus the TTL, cut to the second before.
ExpiresIn ==
    LET cut == (phase + CallbackTTL) % Second IN
    IF CallbackTTL > cut THEN CallbackTTL - cut ELSE 0

Mint == [left |-> ExpiresIn, age |-> 0, good |-> TRUE]

\* GET of user-data, preseed.cfg or kickstart.cfg.
Fetch ==
    /\ box \in {"installer", "configured"}
    /\ box' = "configured"
    /\ callback' = CASE setup.url = "token" -> Mint
                   [] setup.url = "bare" -> Bare
                   [] setup.url = "none" -> None
    /\ UNCHANGED <<setup, phase, server, runs, heard, lastLog>>

\* The installation ends, or the box is reset: whoever posted is gone.
Reset ==
    /\ box # "off"
    /\ box' = "off"
    /\ post' = IF post = None THEN None ELSE [post EXCEPT !.waits = FALSE]
    /\ UNCHANGED <<setup, phase, intent, callback, log, runs, heard, lastLog>>

-----------------------------------------------------------------------------
(***************************************************************************)
(* POST /autoinstall/{mac}/done and /log.  requireCallbackToken looks at   *)
(* the token first; what it lets pass is handled a moment later.           *)
(***************************************************************************)
Verify(t) == IF ~t.good THEN "refused" ELSE IF t.left = 0 THEN "expired" ELSE "ok"

\* The verdict: a request without a token passes in advisory mode only, a bad
\* token never.
Verdict ==
    IF callback # Bare THEN Verify(callback)
    ELSE IF setup.enforce THEN "refused" ELSE "ok"

\* A box tries again until it is heard.
Post(what, size) ==
    /\ post = None
    /\ callback # None
    /\ box = "configured" \/ (box = "disk" /\ what = "done" /\ heard # "ok")
    /\ IF Verdict = "ok"
       THEN post' = [what |-> what, size |-> size, waits |-> TRUE] /\ UNCHANGED heard
       ELSE heard' = Verdict /\ UNCHANGED post
    /\ UNCHANGED <<setup, phase, intent, box, callback, log, runs, lastLog>>

Answered == heard' = IF post.waits /\ post.what = "done" THEN "ok" ELSE heard

\* notePhase: a live install intent is cancelled.
Done ==
    /\ post # None
    /\ post.what = "done"
    /\ intent' = IF Live(intent) THEN None ELSE intent
    /\ post' = None
    /\ Answered
    /\ UNCHANGED <<setup, phase, box, callback, log, runs, lastLog>>

\* A body of n units, the last of them its end.
Body(n) == [i \in 1..n |-> IF i = n THEN "end" ELSE "text"]

\* Mutant of Appended: nothing is cut off.
AppendedWhole(s, b) == s \o b

\* Mutant of Appended: a log that is full takes nothing more.
AppendedHead(s, b) == LET all == s \o b IN
    IF Len(all) > MaxPerMAC THEN SubSeq(all, 1, MaxPerMAC) ELSE all

\* Store.Append keeps the tail.
Appended(s, b) == LET all == s \o b IN
    IF Len(all) > MaxPerMAC THEN SubSeq(all, Len(all) - MaxPerMAC + 1, Len(all)) ELSE all

\* handleInstallLog reads no more of a body than the store keeps.
Log ==
    LET read == IF post.size > MaxPerMAC THEN MaxPerMAC ELSE post.size IN
    /\ post # None
    /\ post.what = "log"
    /\ log' = Appended(log, SubSeq(Body(post.size), 1, read))
    /\ lastLog' = IF read < post.size THEN "cut" ELSE "whole"
    /\ post' = None
    /\ Answered
    /\ UNCHANGED <<setup, phase, intent, box, callback, runs>>

-----------------------------------------------------------------------------
\* PUT intent: install.
Put ==
    /\ intent' = 0
    /\ runs' = 0
    /\ UNCHANGED <<setup, phase, box, callback, post, log, heard, lastLog>>

\* A reload prunes the intent and the log of a machine that has left the
\* fleet (nothing reads the two stores together).
Prune ==
    /\ intent' = None
    /\ log' = <<>>
    /\ lastLog' = "none"
    /\ UNCHANGED <<setup, phase, box, callback, post, runs, heard>>

\* Mutant of Restart: intents survive it.
RestartArmed ==
    /\ intent' = intent
    /\ post' = None
    /\ log' = <<>>
    /\ lastLog' = "none"
    /\ callback' = IF callback \in {None, Bare} THEN callback
                   ELSE [callback EXCEPT !.good = @ /\ setup.fixed]
    /\ UNCHANGED <<setup, phase, box, runs, heard>>

\* Nothing of the program's outlives it, but a secret that was given to it.
Restart ==
    /\ intent' = None
    /\ post' = None
    /\ log' = <<>>
    /\ lastLog' = "none"
    /\ callback' = IF callback \in {None, Bare} THEN callback
                   ELSE [callback EXCEPT !.good = @ /\ setup.fixed]
    /\ UNCHANGED <<setup, phase, box, runs, heard>>

Tick ==
    /\ phase' = (phase + 1) % Second
    /\ intent' = IF intent = None \/ intent >= PendingTTL THEN intent ELSE intent + 1
    /\ callback' = IF callback \in {None, Bare} THEN callback
                   ELSE [callback EXCEPT !.left = IF @ = 0 THEN 0 ELSE @ - 1,
                                         !.age = IF @ < CallbackTTL THEN @ + 1 ELSE @]
    /\ UNCHANGED <<setup, box, post, log, runs, heard, lastLog>>

Next ==
    \/ Boot \/ Fetch \/ Reset
    \/ \E size \in 1..(MaxPerMAC + 1) : Post("log", size)
    \/ Post("done", 1)
    \/ Done \/ Log
    \/ Put \/ Prune \/ Restart \/ Tick

Spec == Init /\ [][Next]_vars

(***************************************************************************)
(* The clock does not stop, and a box that is off or in the installer goes *)
(* on to the next boot, at the latest when its watchdog or its operator    *)
(* resets it.  Nothing is assumed of callbacks: they may all be lost.      *)
(***************************************************************************)
Leave == box \in {"installer", "configured"} /\ Reset

FairSpec == Spec /\ WF_vars(Tick) /\ WF_vars(Boot) /\ WF_vars(Leave)

-----------------------------------------------------------------------------
(* Properties                                                               *)

\* A token is good for its TTL less a second at least, and for its TTL at
\* most, to the tick, wherever in a second it was minted and unless the
\* secret has changed; and no token that has expired or is of another secret
\* is let through in advisory mode either (httpd.go:976 "present-but-invalid
\* token -> 403 ALWAYS").
TokenLivesItsTTL ==
    [][\A size \in 1..(MaxPerMAC + 1), what \in {"done", "log"} :
        Post(what, size) /\ callback # Bare =>
            IF post' # None THEN callback.good /\ callback.age < CallbackTTL
            ELSE ~callback.good \/ callback.age + Second > CallbackTTL]_vars

\* A box is installed twice for one PUT only if it has not been heard: it
\* did not report, or its files carry no token although one is wanted, or
\* its token had expired.  A restart is no cause, with a new secret either:
\* it forgets the intent along with the secret.
ReinstalledOnlyUnheard ==
    [][box = "off" /\ box' = "installer" /\ runs > 0 =>
        \/ heard = "nothing"
        \/ heard = "expired"
        \/ heard = "refused" /\ setup.url = "bare" /\ setup.enforce]_vars

\* The end of the last log that was posted whole is the end of the log kept,
\* whatever was there before (installlog.go:16 "the failure is at the end").
LogKeepsTheEnd == lastLog = "whole" => log # <<>> /\ Last(log) = "end"

\* A box that nobody hears stops reinstalling when its intent expires, at the
\* latest, unless it is armed again.
LoopEnds == PendingTTL > 0 => (box = "installer" ~> box = "disk" \/ runs = 0)

=============================================================================
