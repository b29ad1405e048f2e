# Verification of pxe-beacon

TLA+ models of pxe-beacon, the TLC runs that check them, and theorems about
them that TLAPS proves. Paths are relative to the root of the repository,
without the leading `internal/` where a package is meant.

Contents: [the system](#the-system) · [modules](#modules) ·
[plan](#plan) · [each model](#each-model) · [runs](#runs) ·
[fairness](#fairness) · [proofs](#proofs) · [findings](#findings) ·
[observations](#observations) · [what is left out](#what-is-left-out)

## The system

pxe-beacon is one Go process next to somebody else's DHCP server. It adds the
boot information to DHCP (proxyDHCP), serves iPXE over TFTP and HTTP, renders
for each machine the script that boots its installer, and serves the
installer's files. An operator says what each machine is to be with
`fleet.yaml`, an HTTP API or the admin page, and arms a machine for one
installation or rescue with an *intent*.

A boot is a conversation of five parts that nobody holds together: firmware
DHCP → binary → iPXE DHCP → script → installer, each in a goroutine of its own,
and each reading again what the fleet and the intents are *now*.

| component | state | operations | talks to |
|---|---|---|---|
| Fleet store (`fleet/fleet.go`, `txn.go`, `writer.go`) | map of machines under `mu`, `saveMu`, `fleet.yaml` | Load, Reload, CreateAndSave, UpdateAndSave, DeleteAndSave, Save, Lookup, Machines, ETag | read by every handler; changed by the API, the admin page, SIGHUP, hand edits |
| Boot intent (`pending`) | one action with an expiry per MAC | Install, Rescue, Cancel, IsPending, Status, RetainOnly | set by the API, read by the gate and the dispatch script, cancelled by installer-done and deletes, pruned by reloads |
| BuildOffer (`proxydhcp/proxydhcp.go`, `arch.go`) | none | a reply or a skip for each request | fleet, intents, tracker, sightings |
| proxyDHCP listener (`proxydhcp/listener.go`) | the OFFERs nobody followed up yet, sleeping goroutines | Serve, handleOne, notePending, NoteServed | TFTP and HTTP report completed transfers to it |
| TFTP and HTTP binaries (`tftp`, `httpd` routes) | none | a file for a name | listener, tracker |
| Scripts (`boot`) | none | dispatch script, redirector, per-target script | fleet, intents |
| Status tracker (`fleet/status.go`) | State, LastSeen and events per MAC | Note, LastEvent, Snapshot | handlers note; status pages, API and gate read; Snapshot reads the fleet |
| Asset cache (`cache`, `fetch`) | a directory per target, on disk | Fetch (another process), downloads by the server | the file system only |
| Sightings (`sightings`) | a bounded feed of MACs outside the fleet | Note, List, Forget, RetainOnly | BuildOffer notes; the API lists and dismisses; SIGHUP prunes |
| Callback tokens (`callbacktoken`, `httpd` middleware) | a secret | Mint, Verify | installer files carry tokens; `/done` and `/log` check them; installer-done cancels intents |
| Install log (`installlog`) | a bounded log per MAC | Append, Get, RetainOnly | `/log` appends, SIGHUP prunes |
| Overrides and user-data (`httpd/admin.go`, `httpd.go`) | files under the data directory | save, reset, read | fleet (which file an entry names), disk |
| Lifecycle (`cmd/pxe-beacon/main.go`) | three servers, an error channel, a signal channel | start, SIGHUP, shutdown with a deadline | everything |

What is hard in it:

- **Interleaving of handlers.** Every lock is held for one access. A handler
  that checks and then acts (`PUT intent`, `notePhase`, `Snapshot`, the dispatch
  script, a GET with its ETag) can find the world changed in between.
- **Transactions over a file.** The fleet's changes are compare, mutate, save
  and perhaps roll back, with readers in between, reloads, hand edits and
  crashes.
- **Time.** Intents expire between two steps of a boot; hints sleep; stalls are
  judged by age.
- **Reordering.** Handlers note events after they have answered.
- **Restarts.** Intents, tracker, feed, logs and perhaps the tokens' secret are
  in memory; boxes boot on.
- **Other writers.** `pxe-beacon fetch` writes what the server is serving; two
  saves of one override share a temporary file; operators edit files the fleet
  has already checked.
- **Bounds.** The feed and the logs throw away at their limit, and a client pages
  through the feed while it moves.
- **Stopping.** Three servers, two kinds of signals, a deadline, and a watcher
  that may be reloading.

What makes each part correct is stated by the properties under [Runs](#runs);
every known hazard, with its line, is in `PROJECT.json`.

## Modules

| module | models |
|---|---|
| `FleetData` | profiles, the map, ETags, requests and the comparison that refuses them |
| `AtomicFleet` | what the store promises: a map and a file that every request reads and changes in one step |
| `FleetStore` | the store as it is: two locks, save, rollback, reload, crash, hand edit; implements `AtomicFleet` |
| `BootIntent` | intents, gate, dispatch, API handlers, callbacks, reloads, restarts, the clock |
| `Chainload` | one box through DHCP, binaries, iPXE and scripts: architectures, names, transports |
| `Tracker` | notes, ladder, snapshot, stalled flag |
| `FollowUp` | the "client never fetched" hint |
| `AssetCache` | a target's directory, `pxe-beacon fetch`, downloads |
| `Sightings` | the discovery feed, its handlers, its prune, a client that pages through it |
| `Callbacks` | tokens, the middleware, installer-done, the loop of a box that is not heard, the install log |
| `UserData` | the override's save as system calls, its reset, the three sources of user-data, phone_home |
| `Lifecycle` | start, signals, shutdown, exit code, the SIGHUP watcher |
| `MC*` | the instances that TLC checks |
| `FleetStore_proofs`, `BootIntent_proofs`, `Tracker_proofs`, `Process_proofs`, `AssetCache_proofs`, `Sightings_proofs`, `Callbacks_proofs`, `UserData_proofs` | theorems |

A proof module is about the component it is named after; `Process_proofs` is about
`FollowUp`, which it extends, and about `Chainload` and `Lifecycle`, which it
instantiates as `Chain` and `Life`. The three share no state.

How they compose. `FleetStore` and `AtomicFleet` share `FleetData`, and
`FleetStore` instantiates `AtomicFleet`. That the store is linearizable is what
entitles `BootIntent`, `Tracker` and `Chainload` to treat a change of the fleet
as one step. `BootIntent` decides *whether* a box is let in and *which* arm of the script it
takes; `Chainload` decides *what it is given* on the way and *where the arm
leads*. `BootIntent` does not look at architectures, and `Chainload` does not
look at rescues, at names or at the clock: its `gate` may change at any moment,
which covers every history `BootIntent` can produce. `Callbacks` looks at the end
of an installation: it takes the gate's decision, `Live(intent)`, from
`BootIntent` and adds what may keep an installer-done from getting through.
`Lifecycle` says when a SIGHUP becomes a reload; what the reload does is
`FleetStore`'s `ReadFile` and `Swap`, and the prunes after it are in
`BootIntent`, `Callbacks` and `Sightings`, each of which shares no state with the
others.

## Plan

Done: all components with state of their own, in the order fleet store, intents,
tracker, hint, cache, chainload, sightings, callbacks and install log, user-data,
lifecycle; and, for all of them, proofs of every safety property that their
passing runs check. What is left:

1. An abstract specification of a boot as one atomic decision, implemented by
   `BootIntent` up to the windows listed under [Findings](#findings) and
   [Observations](#observations).
2. **`AssetCache`** with several fetches of different releases that never overlap
   is covered by the proof for one fetcher. What two overlapping ones may still
   rely on is not stated: they share their temporary names, so that the image as
   well as the assets can be of both.

## Each model

### FleetStore

| model | code |
|---|---|
| `machines`, `file` | `Fleet.machines`, `fleet.yaml` (`Broken`: does not parse or validate) |
| `saveMu` | `Fleet.saveMu`. `mu` is the atomicity of the actions |
| `pc`, `req`, `prior`, `buf`, `reply` | a caller inside a transaction: where it is, its request, the entry it replaced, the map it serialised or read, the answer |
| `seen` | what a caller got from `GET /machines/{mac}` |
| `GetBody`, `GetETag` | the two reads of that handler (`httpd/api.go:86`, `:194`) |
| `Submit`, `SubmitNoIfMatch`, `Lock`, `Refuse`, `Mutate`, `Serialise`, `Rename`, `SaveFails`, `Rollback` | the transactions of `txn.go`, in the order of the code, and `Save` of `writer.go` |
| `ReadFile`, `ReadFails`, `Swap` | `Reload` |
| `Crash`, `Start`, `HandEdit` | the process dies, loads again; an operator edits the file |

A profile is a pair: the fields `profileETag` hashes and the one it does not.
Validation happens before a request becomes one, and a hash is taken to be
injective. Writing the temporary file and renaming it are the rename; the disk
keeps what was renamed (no lost page cache).

### BootIntent

`pending` is the store with ages instead of expiry times, so that a saturating
clock suffices: an entry is live while `age < TTL`, and always if the TTL is 0.
A handler in flight is a record in `call` that names the call it makes next; one
locked access of the fleet or of the pending store is one action. `box` is the
machine: off, waiting for an OFFER, loading iPXE, at the script, and where it
ended. `since`, `done` and `let` are history that no action reads.

Entries of the fleet are `absent`, `named` or `nameless`: `BuildOffer` takes a
MAC for a member only if its profile has a name, the script asks the map. The
already-installed guard of `BuildOffer` is left out: with a pending store,
which `main` always wires, it changes only the reason that is logged.

### Chainload

`hw` is a member of the constant `Hardware`: the vendor class and the architectures
that a box sends, and the binaries that it can run. `HardwareAssumption` says that
the latter are those made for the first architecture it names (`Native`), or none
of them; the codes themselves may be any. `Arm` are the boxes that run the arm64
binary, whose `${buildarch}` is what the scripts look at. The run has ten kinds:
BIOS with and without option 93, no PXE at all, UEFI over TFTP and over HTTP, an
architecture missing from the table, ia32, a foreign one, arm over TFTP and over
HTTP. `mode` is how `main` wires the script
functions: dispatch, legacy redirector, or the template without `-config`.
`BuildOffer` is the decision table as an operator on requests; `archTable`,
`kindForLeaf` and `routes` are the three lists that must agree, transcribed
entry by entry; each script is an action of its own with the places it can lead
to.

### Tracker

A box goes through the stages of a boot (`Follows`); each stage's handler
answers at `Cause` and notes at `Note`, later and in any order. `Advance` is the
ladder. `BeginSnapshot` and `EndSnapshot` are the two reads of the fleet within
one Snapshot, which holds the tracker's read lock but not the fleet's.
`flagged` is the flag that the page shows: `IsStalled` asks the slot, which keeps the
furthest event through later boots. `far` and `stayed` are history. The event *firmware-fetched* is declared in
`status.go` and noted nowhere, so it is not in the model.

### FollowUp

`pending` maps a client to its latest noted OFFER, `timer` are the sleeping
goroutines. The code tells OFFERs apart by the time of the note; the model by
the goroutine, which is the same as long as no two notes of one client carry
the same nanosecond. The servers report transfers under tags that are no MAC
(`tftp-anon`, `http-anon`, `ipxe-anon`), which clears every note: the branch of
`NoteServed` that deletes one MAC's note has no caller. A `-hint-after` of 0
turns the feature off, so the timeout is positive.

### AssetCache

The file system is modelled as far as it matters: names lead to inodes, Create
truncates, Rename moves a name, an open descriptor keeps its inode. Content is a
sequence of chunks that carry the release they come from, so that a file of two
releases, a torn file and a hole can be seen. Every error return of `Fetch` is
an action with exactly the clean-up its code does; `Die` has none. `handleAsset`
announces the size of what it opened and streams from the descriptor.

`Unused(n)` are the inodes of a name that nothing leads to and nobody has open;
a new file takes one of them. How many there are, `PerName`, is a bound of the
model that `Create` names; with one fetch at a time and one client it is never
reached at 3.

### Sightings

| model | code |
|---|---|
| `feed`, `newer` | the keys of `Store.entries`, and for each of them the entries with a later `lastSeen`. Times differ, and nothing depends on more than their order |
| `Discover`, `Note` | BuildOffer looks the MAC up (`proxydhcp.go:174`), then calls `NoteSighting` (`:313`) |
| `Evicts`, `Oldest`, `Stamped` | whether a note needs room, the entry `evictOldestLocked` gives up, the order once a MAC is noted |
| `Drop` | `Forget` and `RetainOnly` |
| `Reload`, `Snapshot`, `Prune` | the watcher's reload, its copy of the map, `RetainOnly` |
| `walk`; `BeginWalk`, `NextPage`, `Filter`, `Respond` | a client that asks page after page until it has the total it was told; `List` is one access, and each look at the fleet another: `order` is the list's order, `rest` what is still to be looked up, `kept` what was found listed |

`seen`, what the feed would be without a bound, and `owed`, the MACs that the
walk must show, are history. The code does not promise that every MAC is seen: if
one leaves the list, by a dismissal, a prune or an enrolment, those behind it move
up past the place where the walk is. `owed` is what remains: MACs that stayed and
behind nobody who left.

### Callbacks

One box. Time has `Second` ticks to a second, because `Mint` cuts the expiry to
a second and `Verify` compares it with a finer clock. `Setup` is what the operator
chose: whether the box's files carry a token (cloud-init always does; a preseed or
kickstart may call back without one; a script that is no cloud-config does not
call back at all), whether callbacks without one are refused, and whether the
secret is given. `Post` is the middleware and `Done` or `Log` the handler, a
moment later and perhaps after the box is gone. `Log` cuts a body like the
handler's `LimitReader`, `Appended` the log like the store. `runs`, `heard` and
`lastLog` are history.

### UserData

`Open`, `Write`, `Rename` and their failures are the calls of
`handleAdminCloudInitSave` on inodes: `fd` says where the file that a save has
open is by now, so that a save can write into what another has renamed.

A document is what the program and the box tell apart, and they do not look at the
same thing. `DefinesPhoneHome`, which the editor (`Accepted`) and the fleet
(`CheckFile`) ask, is a scan of the text before it is rendered, for a line that
begins with `phone_home`. The box reads what comes out of the template as YAML.
So `own` is a document with a phone_home that the scan finds, `hidden` one
with a phone_home that it does not find (in quotes, in a mapping that is indented,
put there by a param), `plain` a cloud-config with none, `script` what is
rendered to no cloud-config. `phoneHomes` is what may come out of rendering a
document and appending the block: one that has its own may lose it to a
condition of the template. Any document may fail to parse or to execute, which is
a 500 (`Failure`).

`CheckFile` takes the boot target, since a file that is missing is refused for an
installer and not for `custom` and `menu`; one that cannot be read passes. Left out
are reads that fail for a moment and texts in which the scan finds a phone_home that
is none (inside a block scalar or a comment of the template): they would be
refused without need. `GetUserData`, `ReadOverride` and `ReadRest` are the look
at the fleet and the reads of `handleUserData`. `alone`, `saved` and `edited` are
history.

### Lifecycle

| model | code |
|---|---|
| `server`, `errc` | the three `Serve` and what each has sent to the channel of `main.go:264` |
| `Bind`, `Fail`, `Stop`, `Stopped` | binding, a socket's failure, the context seen, the return |
| `transfer` | TFTP transfers that hold `Shutdown` up |
| `Select`, `Cancel`, `Drain`, `Deadline`, `Exit` | `main.go:271` to the end |
| `Interrupt`, `caught` | SIGINT, SIGTERM and `signal.NotifyContext`, which `cancel` undoes |
| `Hangup`, `hup`, `watcher` | SIGHUP, the one-slot channel, `watchSIGHUP` |

A signal that is not caught kills the process: SIGHUP without `-config`, before the
watcher has asked for it or after it has left, a second SIGINT after `cancel`.
`asked`, `failed` and `wanted` are history.

## Runs

| run | instance | states | shows |
|---|---|---|---|
| `fleetstore_safety` | 2 callers, 1 machine, 2 contents | 137,855 | `OwnChangeStays`: from mutation to return a transaction finds its change in place. `WriteThrough`: file = memory at rest. `CommitsOverItsTag`: at the rename of a conditional change the machine still has the tag asked for. `Linearizable`: refinement of `AtomicFleet` |
| `fleetstore_live` | 2 callers, 1 content | 32,169 | `EveryRequestAnswered` |
| `bootintent_pass` | 1 box, 2 handlers, TTL 1, named and nameless | 242,287 | `DoneDisarms`: an installer-done leaves no older install intent. `BootsFollowPuts`: nobody is let in without an intent but the unnamed. `NotStranded`: a box let in reaches an arm |
| `bootintent_rescue` | 1 box, 1 handler | | violates `RescueNeverInstalls` |
| `tracker_safety` | 1 box, 3 late notes | 105,781 | `FurthestAtRest`: whatever the order of notes. `MembersListedOnce`: one row for a machine that stays, not flagged once it has finished, flagged if it has not finished yet and is silent for long |
| `followup_pass` | 2 clients, 2 handlers, 3 goroutines, timeout 2 | 15,525 | `NoteHasItsTimer`, `HintMeansSilence`, `NotesEnd` |
| `assetcache_pass` | 1 fetch at a time, 2 assets, 2 releases, 2 chunks, 1 download | 3,411,208 | `AssetsAreWhole`: files and transfers. `SuccessIsItsRelease`: whatever earlier fetches left behind |
| `chainload_pass` | 10 boxes × 5 targets × 3 modes | 4,364 | `OfferIsServed`, `FilesFitTheBox`, `BootEnds`, `IPXEIsNotStranded` |
| `sightings_pass` | 3 MACs, a feed of 2, pages of 1, 1 handler | 1,059,948 | `KeepsTheNewest`: only the oldest is evicted. `WalkMissesNothing`: a MAC that stays does not fall between two pages |
| `callbacks_pass` | seconds of 2 ticks, token 3, intent 2, logs of 2 | 93,036 | `TokenLivesItsTTL`: to the tick. `ReinstalledOnlyUnheard`: twice for one PUT only if not heard. `LoopEnds`: with the intent. `LogKeepsTheEnd` |
| `userdata_pass` | 2 savers, a reader | 1,919,280 | `SavedIsServed`: whole and the last, unless two saves overlap. `TwoPhoneHomesExplained`: from a template, an edited file, or a phone_home that only rendering shows |
| `lifecycle_pass` | 3 servers, 1 edit | 462,918 | `ProcessEnds`, `ExitTells`, `HangupIsHeard`: no SIGHUP is lost to a reload in progress |

Every run checks its module's `TypeOK` too, except the one that is violated, the
[finding](#findings), and `fleetstore_live`, whose instance is part of `fleetstore_safety`'s.

Why the bounds are enough:

- *Callers, handlers.* The races are between a check and an act of one handler
  and one act of another: two handlers at once show each of them. The properties
  proved hold for any number.
- *One machine.* Neither the store, the intents nor the tracker relate two
  MACs; the map as a whole matters for the file and for reloads, and the proofs
  cover it. `FollowUp` has two clients because transfers clear the notes of all.
- *TTL, stall, timeout.* 1 or 2 ticks suffice to tell young, at the limit, and
  expired apart, since the clocks saturate there.
- *Three notes, three goroutines.* Three rungs can be permuted; two goroutines of
  one client leave one to another client.
- *Two chunks, two assets.* A first and a last chunk, a first and a last asset:
  a failure between them is all that is needed to tear a file or mix a target.
  `Wanted` has one of the assets because downloads of different assets do not
  meet. `PerName` = 3: one inode under the final name, one under `.part`, and one
  kept by a download.
- *Three MACs, a feed of two.* One of three must be evicted, with two there is an
  order; pages of one make every boundary between two entries one between pages.
- *Ticks.* Two to a second put an instant inside a second; a TTL of a second and a
  half is no multiple of it. An intent of two ticks can expire before the token
  and outlive it, because both can be renewed.
- *Logs of two units.* A body may be shorter, as long, or longer than the store
  keeps, and two bodies together exceed it.
- *Two savers.* A third can do to the second what the second does to the first.
- *Ten boxes.* One for each row of the table that it treats apart, for a code that
  has no row, and for what a box may leave out or be unable to run. The proofs
  cover any other.
- *One edit.* A SIGHUP before it, after it and between its write and the read.

Symmetry is used where a run checks no liveness and no action tells the members
of the set apart.

## Fairness

- `FleetStore`: weak for every step inside a transaction, strong for taking
  `saveMu`. Go's `sync.Mutex` hands over to a waiter after a millisecond, so a
  waiter is not passed over for ever. None for callers, operators and crashes.
- `BootIntent`: weak for the next call of a handler that has started and for
  iPXE's DHCP; strong for fetching the script, because a restart may cut an
  exchange short and because the slots, which only the model bounds, may be
  taken. A box in iPXE retries. None for operators, power and the clock.
- `FollowUp`: time passes, and a goroutine whose sleep is over runs. There is no
  fairness on the handlers.
- `Chainload`: weak for the box's next step: DHCP, TFTP and HTTP are retried,
  scripts run on. None for intents, power and resets.
- `Callbacks`: weak for the clock, for a box that is off to boot and for one in
  the installer to leave it, by a reset at the latest. None for callbacks, which
  may all be lost, nor for operators and restarts.
- `Lifecycle`: weak for each step of main and of the watcher, for the deadline,
  which is a timer, and for the goroutine that has been started. None for the
  servers: one may never return, and a transfer may never end.
- `Tracker`, `AssetCache`, `Sightings` and `UserData` have safety properties only.

## Proofs

`tlapm` checks all of them for every value of the constants, from the
assumptions each module names: that the values standing for "nothing" are
nothing else (`DataAssumption`, `ProcAssumption`, `CallAssumption`,
`NoneAssumption`, `IdleAssumption`, `ValueAssumption`), that the TTL is a natural
number, that a stall, a hint, a second, a token and a log have at least one unit
(`StallAssumption`, `TimeoutAssumption`, `TicksAssumption`), that a feed and a page
have room for one entry (`BoundAssumption`), that a target has finitely many
assets and takes each of them once (`OrderAssumption`), that the MACs are finitely
many (`MACAssumption`), that a box runs what is made for the first architecture it
sends or nothing (`HardwareAssumption`), that the number of edits of `fleet.yaml` is
a natural number (`VersionAssumption`), and which kinds of entry there are. The
theorems about `Chain` and `Life` have the assumptions of `Chainload` and
`Lifecycle` as hypotheses, since an instance takes them from nobody. The sets of machines,
callers, handlers, goroutines, savers, clients and releases may be infinite.

**FleetStore.** `IInv` = `TypeOK` ∧ `SaveMuExcludes` ∧ `CallsMatchRequests` ∧
`OwnChangeStays` ∧ `WriteThrough`. `WriteThrough` alone is not inductive: what a
rename writes or a rollback puts back is what the caller has in hand, so the
invariant says what that is at every place (the replaced entry is one the request
was allowed to replace; what Save copied is still the map) and that one caller
only is inside. From it follow the safety properties of the run,
`CommitsOverItsTag` (at the rename the map without the pending change is the map
the comparison saw), and `StoreIsLinearizable`: under the mapping `live ↦
Committed`, where `Committed` is the map without an unsaved change or with a file
that was read whole, every action is a step of `AtomicFleet` or a stutter. The
commit of a change is its rename, that of a reload the reading of the file.

**BootIntent.** `IInv` = `TypeOK` ∧ `DoneDisarms` ∧ `StoredIsPut`, where
`StoredIsPut` says that a stored intent is as old as the last PUT of its action.
Without it an intent in the store would say nothing of what an operator asked
for, and `BootsFollowPuts` would not follow from what the gate reads.

**Tracker.** That the tracker ends at the furthest event is not inductive while
notes are under way. `Coming(m)`: without a failure, the furthest event caused
is in the State slot or in a note on its way, and nothing in either is further.
The flag of a row is right because the slot is (`RestIsFurthest`), and a box that
has just finished cannot have got further than that (`DoneIsFurthest`); what
`MembersListedOnce` does not say is what the flag shows once a box has started over.
`StayedIsRead`: a machine that stayed in the fleet is in the first read and will
be in the second.

**FollowUp.** `Inv` = `TypeOK` ∧ `NoteHasItsTimer` ∧ `QuietWhileNoted`: a client
has been quiet for as long as its goroutine has slept.

**Chainload.** `ChainInv` = `TypeOK` ∧ `GivenIsKept` ∧ `ScriptIsOfMode` ∧
`FilesFitTheBox`. The properties rest on facts about the three lists:
every architecture, in the table or not, has a row whose file is served under the
row's transport and is made for that architecture (`LookupArchServed`), and
`BuildOffer` names exactly that row to a box it lets in (`FirmwareAnswer`).
`GivenIsKept` carries this from the offer to the download, across changes of the
intent. `ScriptIsOfMode` is what a script in hand says of the flags: only the redirector
can end at the disk, and the dispatch script sends an arm box nowhere.
`BootsGoForward` is the safety half of `BootEnds`: each step of a box in a boot
lowers `Distance`, which is at most seven, and only another power-on raises it,
however the fleet and the intents change meanwhile; that the box goes on is all that
fairness has to add.

**Lifecycle.** `LifeInv` = `TypeOK` ∧ `ServersTellWhy` ∧ `MainKnowsWhy` ∧ `ExitTells`.
The exit code is a matter of what main has kept, hence of what was in `errc`, hence
of why a server returned; the two conjuncts in the middle carry the reason from one
to the next, through the cancel and the drain. Two more theorems are the safety
halves of the run's liveness. `MainIsWoken`, for `ProcessEnds`: once the process is
asked to stop or a server has failed, main's select has something to take.
`HangupsStayPending`, for `HangupIsHeard`: a file that was on the disk at a SIGHUP
and has not been read since is in the channel or still to be read, unless the
watcher has left with the context, for any number of edits and signals.

**AssetCache.** `IInv` = `TypeOK` ∧ `TemporaryIsApart` ∧ `WorkIsSound` ∧
`ImageIsSound` ∧ `DoneIsSound` ∧ `GetIsSound` ∧ `AssetsAreWhole`, with the
hypothesis `Alone` that no two fetches run at once. That files are whole is not
inductive by itself, since a step that writes changes an inode and not a name.
`TemporaryIsApart`: an inode under a temporary name is under no other name, and
no client has it open. Only such inodes are written to, so what is under a final
name or a client's descriptor stays as it is, and a rename publishes what
`WorkIsSound` has followed chunk by chunk to its end. For `SuccessIsItsRelease`,
`DoneIsSound` keeps that every asset published so far is of the fetch's release,
from an image which `ImageIsSound` says is. Without `Alone`,
`FilesAreWhole` is false.

**Sightings.** `IInv` = `TypeOK` ∧ `FeedIsOrdered` ∧ `FeedIsTotal` ∧
`KeepsTheNewest` ∧ `OwedIsVisible` ∧ `ListIsSound` ∧ `WalkIsOnTime`.
`KeepsTheNewest` needs that what is evicted is newer than nobody, hence in nobody's
`newer`. `OneIsTheOldest`: by `FeedIsTotal` there is always exactly one such entry, so
that a full store can take a note, and `evictOldestLocked`, which goes through a Go
map in no particular order, finds the same entry in every order.
`WalkMissesNothing` speaks of the end of a walk only; `WalkIsOnTime` says why it
holds on the way: of a MAC that is owed and not shown yet, at least as many others
are in front as the next page skips. A note adds to those in front or leaves them,
an eviction takes one from behind, nothing is owed any more once one in front has
left otherwise; and while a page is being filtered the
ones to count are those kept and those that remain and are still listed. The
numbers are cardinalities, so the steps rest on lemmas that compare those of
subsets.

**Callbacks.** `IInv` = `TypeOK` ∧ `LogKeepsTheEnd` ∧ `ClocksAgree` ∧ `BareAsSetUp` ∧
`BadTokenIsHarmless` ∧ `UnheardWhileLive`. `ClocksAgree`: what a token has left and
its age add up to the TTL, less the fraction of a second that `Mint` cuts off; hence
a token is never accepted after its TTL and never refused as expired a second or
more before it (`TokensLiveTheirTTL`).
`UnheardWhileLive`: while an intent that has installed a box once is still live,
no callback of that installation was answered `ok`; a reinstallation is a boot
under such an intent (`OnlyTheUnheardReinstall`).

**UserData.** `IInv` = `TypeOK` ∧ `AloneHasTmp` ∧ `OverlapIsKnown` ∧ `SavedIsServed` ∧
`NoneOfItsOwn`. While no two saves have overlapped, one save at most is in flight,
its descriptor is on the temporary file, and the file holds nothing or its whole
document; then the rename publishes that document. `NoneOfItsOwn`: neither a save in
flight nor the files that saves write can hold a document in which the scan finds a
phone_home, and a cloud_init file can only after an edit; `TwoPhoneHomesExplained` is
what that leaves: templates, edited files, and documents in which it finds none.

Only model-checked: liveness, which needs fairness and ENABLED
(`EveryRequestAnswered`, `NotStranded`, `NotesEnd`, `BootEnds`, `LoopEnds`,
`ProcessEnds`, `HangupIsHeard`). Of three of these the safety half is proved, as
said above.

## Findings

**A rescue that ends while its box boots becomes an installation**
(`boot/dispatch.go:178`; run `bootintent_rescue`). The gate lets the box in on the
rescue; the script, rendered later, asks again, finds no rescue, and takes the
arm of the machine's own target, an unattended installer. `README.md:463` says
that the machine boots SystemRescue instead of its target.

## Observations

What the modelling brought up that no run is about. First the places where a
document and the code disagree:

- *The ETag leaves out `rescue`* (`fleet/txn.go:55`). Two profiles that differ in
  the rescue file only have one tag, so a PUT with `If-Match` overwrites another
  caller's change of it. `txn.go:32` says the tag hashes every field.
- *Entries without a name are not idle* (`proxydhcp/proxydhcp.go:177`). They pass
  the gate as unknown and match their arm in the script: an installation without
  an intent, while `README.md:293` says that members are idle by default. They
  also stay in the discovery feed (`httpd/api.go:478` looks at the name): each
  SIGHUP prunes them, by membership, and the next request lists them again.
- *A second installation that hangs is never flagged* (`fleet/status.go:109`, `:203`).
  The ladder keeps `installer-done` through every later boot, and that state is
  exempt from the flag; `README.md:584` flags machines that are stuck.
  `MembersListedOnce` therefore says nothing of a box that has started over.
- *A rescue queued while an installer-done is handled is cancelled* (`httpd.go:914`).
  `notePhase` asks for the action, sees an install, and cancels in a second call
  whatever is there by then; the comment at `httpd.go:904` wants a freshly queued
  rescue kept. A compare-and-cancel in the store would keep it.
- *An override can bring its own phone_home* (`fleet/fleet.go:404`). In quotes,
  indented, or put there by a param, the scan does not find it; the override is
  saved and served with a second one, while `README.md:431` says that such
  content is rejected. The check of a cloud_init file (`fleet.go:383`) is the
  same scan. `TwoPhoneHomesExplained` names it as the third cause.
- *A forced fetch that stops between two assets leaves a mixed target under the
  old manifest* (`cache/fetch.go:84`). `IsPopulated` calls it populated, and the
  next plain fetch does nothing. A fetch that is repeated with `-force` repairs it
  (`SuccessIsItsRelease`). Removing the manifest before the first asset is
  replaced would be enough.
- *The head of a long log is what is kept.* `handleInstallLog` reads the first
  64 KiB of a body (`httpd.go:1028`) and drops the rest, while `installlog.go:16`
  wants the tail and `README.md` promises the last 64 KiB. `LogKeepsTheEnd` holds
  of bodies that fit.
- *The warning at `main.go:150`* fears a reinstall loop when a restart draws a new
  secret. The restart forgets the intent as well, so there is none
  (`ReinstalledOnlyUnheard`), unless the operator arms the box again.
- *SIGHUP* is called a no-op without `-config` (`main.go:259`); nothing catches it
  then, so that it ends the process, as it does just after the start and during
  the shutdown.

And what surprises without contradicting anything:

- *A page walk can miss a MAC* if another leaves the feed meanwhile: offsets are
  positions.
- *Two saves of an override that overlap* use one temporary file and nothing locks
  it: either document, or bytes of both, can end up as the override, and one of
  the two answers 500. `admin.go:323` calls the write atomic, which a single
  save is.
- *phone_home.* The editor of templates does not look for one, and a cloud_init file is checked when the fleet is loaded but
  read when it is served; either way a box may get two. An override that is empty is served without any.
- *Exit code.* When the proxyDHCP sockets fail, `Serve` returns no error
  (`listener.go:172`) and the process ends with "shutdown complete" and code 0. On
  a signal, main waits for two of the three servers.
- *GET reads twice.* `httpd/api.go:86` reads the profile and `:194` the ETag: a
  change in between pairs an old body with a new tag, and the next conditional
  PUT overwrites that change.
- *Orphan intents.* PUT intent checks the fleet (`api.go:86`) and queues
  (`api.go:136`); a DELETE or a reload in between leaves an intent for a machine
  that is gone, live again if it is enrolled within the TTL, although DELETE
  cancels intents (`api.go:341`). The other way round, the prune after a reload
  (`cmd/pxe-beacon/main.go:314`) and the Cancel of a DELETE (`api.go:343`) can
  take the intent of a machine created and armed meanwhile.
- *A late or repeated installer-done* cancels an install queued since
  (`httpd.go:914`); callbacks carry nothing to tell installations apart.
- *Enrolment during a boot.* A box let in as unknown that is enrolled before its
  script is rendered is installed (`boot/dispatch.go:139`), though `README.md`
  keeps enrolment and intent apart.
- *"One-shot" rescue.* `README.md` calls a rescue one-shot, but nothing consumes
  the intent when the box boots: it lasts until its TTL, a cancel or a restart.
- *Restart caveat.* `README.md` says that the already-installed guard is lost at
  a restart; with a pending store the gate skips the box anyway.
- *A failure can be overwritten.* `installer-failed` has rank 0, so a late note
  of the same boot replaces it (`status.go:109`), while `status.go:22` says that
  it always wins the State slot.
- *`LastEvent` returns State*, the furthest event and not the last one
  (`status.go:121`); and a MAC that leaves the fleet between Snapshot's two reads
  is listed twice, one that joins not at all (`status.go:153`, `:174`).
- *The hint* is armed after the OFFER was sent, and cleared by completed
  transfers only: it fires for a client that fetched before the note, or that is
  still fetching, while `README.md` says that the client never fetched.
- *Reload over the admin page* prunes intents only; SIGHUP also prunes the
  install log and the sightings.
- *Two fetches of one target* share `_download.iso.part` and the assets' `.part`
  names, without a lock: with two members of `Fetcher`, `AssetsAreWhole` fails.
- *The legacy redirector* chains to `handleAutoexec`, which knows no rocky-9 or
  alma-9 (500, and the box goes on to its disk), no rescue, and no refusal of
  arm. The dispatch script has the netboot.xyz URL in its text and ignores
  `-chain-url`.
- *Labels.* `labelOf` (`boot/dispatch.go:551`) replaces every character but letters
  and digits: `web-1` and `web.1` share a label, and iPXE jumps to the first.
- *Several NICs.* The gate looks at the MAC that sent the request, the script
  compares net0 to net3: a box can be let in on one entry and take another's arm.

## What is left out

- *Data*: the text of scripts and installer files, YAML, JSON and HTML, the
  `defaults` entry and params, validation of one profile, DHCP options other than
  those the decisions read, names that collide, counts and vendors of sightings,
  logging.
- *Cryptography*: a token passes under its secret and its MAC and no other.
- *Networks*: an answer that is sent is received; a request that is lost is one
  that was not made. Handlers run to their end unless the process stops. A
  cloud-init phone_home tries ten times; the model's box as often as it likes.
- *Reports of a failed installation* are not in `Callbacks`: they leave the intent
  alone, as if the box had not been heard.
- *Disks*: a rename is atomic and lasting; there is no loss of written data. The
  manifest's temporary file is written and renamed in one step, and so is the
  save of a template.
- *One fetch at a time* in the checked instances of `AssetCache`; an asset has as
  many chunks as the image.
- *Notes that other components leave*: `Chainload` does not note sightings or
  events.
- *Not modelled*: dispatch labels and the rendering of preseed, kickstart and
  rescue files, which are functions of one read of the fleet; logging, network
  interfaces, vendor names, packaging; and the pages, which only show other
  components' state. `Fleet.AddOrUpdate` and `Fleet.Remove` have no callers.
