# SpliceRTC in TLA+

SpliceRTC is a split VPN for games. A Windows client reads IP packets from a TUN
device and sends them to a server over TLS. There are three channels:

* **glue**: UDP packets of game processes. Every packet is sent over several TLS
  connections ("paths") at the same time; whichever copy comes first counts.
* **vpn**: everything else, one TLS connection into a TUN device of the server.
* **reliable**: TCP streams of a SOCKS5 proxy, multiplexed with smux.

This directory holds TLA+ modules of the parts of that program in which several
goroutines, two machines or a wrapping counter make the outcome depend on the order
of events, configurations that check them with TLC, and proofs checked by TLAPS.
`PROJECT.json` lists runs, mutants and theorems and says which lines of the source every
definition stands for. Source paths below are relative to `src/`.

Contents: [inventory](#inventory), [modules](#modules), [runs](#runs),
[bounds](#bounds), [fairness](#fairness), [findings](#findings), [proofs](#proofs),
[what is not modelled](#what-is-not-modelled), [plan](#plan).

## Inventory

| component | state it keeps | operations | interacts with | what makes it correct |
|---|---|---|---|---|
| frame receiver, `internal/frame/frame.go` | top sequence number, ring bitmap of 1024, two minimum delays, start of the run of late frames | `Accept`, `AcceptSeq` | called by both ends of glue, under their locks | every frame at most once across the wrap of uint32; no new frame refused; a slower route is accepted after a while |
| glue server, `cmd/server/glue.go` | sessions by ID, paths and UDP sockets of a session, total number of sockets | attach, detach, `flow`, `readFlow`, `broadcast`, `cleanupGlue` | handler per connection, reader per socket, janitor; session lock, registry lock, one atomic counter | exact quotas, no socket without an owner, no session removed under a path |
| glue client, `cmd/client/gluepaths.go` | per path a connection and writer; epoch and receiver of the replies | `keepPath`, `servePath`, `setEpoch`, `handle`, `send` | goroutine and reader per path | replies of a new session are heard, old ones are not mixed in; paths and handler agree with the server in the end |
| game split, `cmd/client/router.go`, `flows.go`, `vpn.go` | decision per 4-tuple, flow IDs, number of flows per destination, port table | `classify`, `id`, `lookup`, `sweep`, `refresher`, `Refresh` | read loop, reply handler, ticker, refresher | a flow stays on its channel and keeps its ID; tables agree; an unknown port is looked up |
| ban of wrong keys, `cmd/server/auth.go` | five maps by address | `checkAuthBan`, `recordAuthFailure`, `recordAuthSuccess`, `cleanupAuthFailures` | all handlers of the server, janitor | bans hold, end, are earned and are forgotten |
| vpn server, `cmd/server/vpn.go` | `currentVPN`, `vpnStopped` | `claimVPN`, `handleVPNConn`, `stopVPN`, packet loop | handlers of old and new connections, TUN loop | one client at a time, the slot is never stuck or lost |
| vpn client, `cmd/client/vpnlink.go` | the current connection, `closed` | `run`, `serve`, `write`, `close` | run goroutine, TUN loop, end of the program | reconnects until told otherwise; `close` ends it |
| scheduler, `internal/sched/fq.go` | queues per flow, lists of new and old flows, byte counts, CoDel state | `Enqueue`, `Dequeue`, `Close` | TUN loop and write loop | bytes are conserved, flows are FIFO, nobody starves |
| path writer, `internal/sched/pathwriter.go` | bounded channel, deadline | `Send`, `run` | broadcasters and one writer | bounded, drops the oldest, never blocks |
| reliable server, `cmd/server/reliable.go` | streams per key and in total | `acquire`, `release`, `handleStream`, `Relay` | accept loops, streams, targets | counts are exact, streams end |
| SOCKS client, `cmd/client/socks.go` | smux session, backoff | `get`, dial, fatal error | one goroutine per SOCKS connection, all behind one mutex | one session at a time, every app is answered, a permanent error is final |
| connection slots and janitor, `cmd/server/main.go` | number of connections, ticker | accept loop, `janitor` | everything on the server | bounded |
| tray, `cmd/tray/*.go` | state of the connection, child process, routes | connect, disconnect, child exits | GUI thread and goroutines with slow scripts | routes and firewall fit the state shown |
| tray connection list, `cmd/tray/connections.go` | `connections.json`, the list in memory, the fields of the window, the key of older versions | load with migration and import, save, rename, delete, strip | the file system; a window; crashes | no key is lost |
| NAT and firewall, `cmd/server/vpn_setup.go` | iptables rules, which outlive the server | `apply`, `remove` | external commands that fail one by one, Docker, crashes | clients reach what they may and nothing else; nothing stays |
| drop measurement, `drop.go`, `droptest.go`, `measure.go` | counters | count, report | test modes | sums add up |
| egress policy, packet filter, messages, TLS, configuration, tools | none, or read once | pure functions | | parse what was built |

Hard behaviours, and where they are: the wrap of a 32-bit counter and a bitmap that slides
(`frame.go`); check-then-act across two critical sections (`auth.go`, `glue.go` `reserveFlow`, the
ticker of `vpn.go`, `connect` in `cmd/tray/client.go`); goroutines of a dead connection running
beside those of its successor (`vpn.go`, `gluepaths.go`, `glue.go`); restarts of the server with
clients that keep the old epoch (`gluepaths.go`); retries and permanent errors (`vpnlink.go`,
`socks.go`); what a crashed process leaves for the next one (`vpn_setup.go`, `connections.go`);
limits (`glue.go`, `flows.go`, `auth.go`, `reliable.go`). `PROJECT.json` lists each with its line
and the properties that watch it.

## Modules

| module | models | used by |
|---|---|---|
| `SeqWindow` | `AcceptSeq` as a function of window and number; operators only | `Receiver`, `GlueChannel` |
| `OnceDelivery` | abstract specification: a frame is delivered at most once, and never from behind the window | refined by `Receiver` |
| `Receiver` | `frame.Receiver`, with the delay judgement of `Accept` | |
| `GlueServer` | sessions, handlers, sockets, readers and janitor of `glue.go` | |
| `GlueChannel` | one client's paths and its session at the server, composed | |
| `GameSplit` | router, flow table, port table and their four goroutines | |
| `AuthBan` | the ban of one address | |
| `VPNChannel` | the links of several clients and the one slot of the server, composed | |
| `Scheduler` | the FQ-CoDel queue in front of the vpn connection | `MCScheduler` |
| `PathWriter` | the lock-free bounded queue in front of a glue path | `MCPathWriter`, `MCScheduler` |
| `Reliable` | SOCKS client, connection slots and reliable server, composed | |
| `Firewall` | the iptables rules over starts, shutdowns and crashes | `MCRestarts` |
| `ConnectionList` | the tray's connections and keys, on disk and in the window | `MCRestarts` |
| `Tray` | connect, disconnect, quit and the waiting goroutines of the tray, with the script that blocks IPv6 | |
| `ReceiverProofs`, `ServerProofs` (`AuthBan`, `Firewall`), `GlueServerProofs`, `GlueChannelProofs` (`GlueChannel`, `PathWriter`), `GameSplitProofs`, `VPNChannelProofs` (`VPNChannel`, `Scheduler`), `TrayProofs` (`Tray`, `ConnectionList`), `ReliableProofs` | theorems: the inductive invariant of a module, why every action keeps it, and what follows from it | |
| `MC*` | sets and symmetry for TLC. `MCScheduler` (`Scheduler`, `PathWriter`), `MCRestarts` (`Firewall`, `ConnectionList`), `MCShared` (`AuthBan`, `MCScheduler`) and `MCSequential` (`Receiver`, `MCRestarts`) put modules that share nothing into one run: a variable chosen at the start (`channel`, `machine`, `part`) says which of them moves, and the others stand still | `MCPathWriter`, `MCScheduler` and `MCRestarts` also by the proof modules |

`MCPathWriter`, `MCScheduler` and `MCRestarts` instantiate their modules under a name (`Path`, `FQ`,
`FW`, `List`) and give the properties short names; proofs are about the same instances, so what a
run checks and what a theorem states is one formula. The assumptions of these modules are operators
(`PathAssumption`, `SchedulerAssumption`, `ListAssumption`), which the `MC` modules assume.

`Receiver` refines `OnceDelivery` (`Once == INSTANCE OnceDelivery WITH ...`): TLC checks it as
the property `DeliversOnce`, and `ImplementsOnceDelivery` proves it.

### SeqWindow, Receiver, OnceDelivery

A frame has a true position `i`; on the wire only `Wrap(i)` is left of it. The code's uint32,
int32 and 1024 are `SeqSpace`, `Signed` and `Window`, with the relation that matters kept: half
of the sequence space is a whole number of windows. The bitmap is the set of marked slots. The
code clears the slots the window steps over in a loop; `SlideTo` removes them as a set. `Accept`
drops a late frame *before* its number is looked at, so a late frame leaves the window alone.
Times are ages that stop growing at the largest value the code compares them with. The
network may hold a frame back for less than half the sequence space (2^31 frames); serial
number arithmetic has no answer beyond that. `newest`, `count`, `best` and `drops` are history.

### GlueServer

The program counter of a handler has a value for every point at which the code has released a
lock or touched the atomic counter: `attached`, `accepted`, `serving`, `frame`, `unbound`,
`overshot`/`reserved`, `write`. `Unlocked(s)` is the session's mutex: `flow()` holds it
from the lookup to the new socket, so no other operation on the session comes between `Unbind` and
`Dial`, but those of other sessions do, and they share `totalFlows`. `reserveFlow` adds first
and looks afterwards; both steps are there. A reader is `blocked`, has `read` something it
will forward although the socket may be closed by then, or has `failed` and is about to
remove its flow. `Janitor(s)` is the visit of `cleanupGlue` to one session. Sessions and
sockets are drawn from pools; a slot is taken again only when no goroutine holds it.

### GlueChannel

Joins the client's `keepPath`, `setEpoch` and `handle` to the server's sessions, one client,
two paths. A path is `down`, `dialed` (accept read, epoch not yet announced), `up`, or `stopped` by
a permanent error (`DialRejected`), after which `onFatal` ends the client (`ClientEnds`). A dial
that breaks after the server has joined it to the session (`DialLost`) is repeated. The two ends of
a connection end at different times: the handler of one that the client has left is counted in
`lingering`, takes one of the places of the session and keeps it from being removed until it
notices (`ServerNotices`), while the path may be back with a new handler. The
gap between reading the accept and announcing the epoch is where an old epoch overtakes a
newer one. Frames in flight are sets (lost, reordered, copied over the paths); `inHand` holds
what the reader of a closed connection has read and not yet handed over. The windows on both
sides are those of `SeqWindow`.

### GameSplit

`Classify` is one call of `udpRouter.classify` under its lock; the packet of a game is then
`held` until `KeepID`, `NewID` or `NoID` (one call of `flowTable.id`), because the ticker may
sweep between the two. The ticker refreshes, sweeps routes, sweeps flows: three steps. `channel`
and `unsent` are history: by which channel the last packet of one flow, `watched`, was sent and how
long ago, as long as that is no longer than `Idle`. The kick
channel has room for one kick. `Reopen` is the operating system giving the port to another
process.

### AuthBan

One address: no operation touches two keys of the maps. `Pass` and the outcome are separate, as
in the code, with up to `Handshake` between them. `clearBanLocked` and the janitor follow the
order of the code: expired bans, old failures, old logins. The unit of time is the janitor's
interval.

### VPNChannel

Both ends of a connection are closed independently, and it may be `broken` without anyone
knowing. A handler is in `auth`, `authed`, `claimed` (with the connection it replaced still to be
closed), `serving`, `leaving` (deferred function to come) or `done`. `stopVPN` takes the slot
under the lock and closes the connection afterwards: two actions. On the client, `link.at` is
what `run` works with and `link.conn` is the field other goroutines see. The first dial is not
`run`'s: there any error ends the program (`vpn.go:44-46, 83-86`), which may be started again, and
the permanent errors are told apart (`DialRejected`) only by a link that was connected before.

### Scheduler

`Enqueue`, `Dequeue` and `DequeueBatch` hold the mutex from beginning to end; `lock` says who has
it, and the loops inside them (dropping from the fattest flow until the limit is met, going round
the flows until the batch is full, CoDel's drops) are steps taken while it is held. A flow is a
hash bucket. `newFlows` and `oldFlows` are sequences, and `inNew` is the flag from which `unlink`
concludes which list to remove a flow from. CoDel's states are there; its control law, the
interval divided by the root of the number of drops, is any time up to the interval. `first` and
`ahead` are history: how many bytes the other flows were sent while the first packet of an idle
flow waited. A batch ends with the packet that reaches `maxBytes`, as in the code, so it may
exceed it by less than a packet.

### Tray

`step` is the place in `connect` (or in the cleanup at startup) of the goroutine that holds
`connectMu`; `disc`, `waiter` and `gui` are the places of the others. Between any two accesses
to what they share (`clientCmd`, `connGen`, `tunnelUp`, the buttons, the firewall) all others may
run. `rule` says whether the firewall rule is there, and whether a connect of this tray or of one
that ended had added it, or a script left over from an ended tray (`"stray"`). `stopClient` is two steps: `Take` under the mutex, `Kill` after it. Of `connGen` only
`cancelled` is left, whether it changed since `connect` read it. A script is the moment at which
it changes the firewall rule; a failing setup script may leave the rule as it was, removed or
added. `Restart` is the end of the process, by Quit or a crash, and the next start; the job
object kills the clients, scripts go on as `orphans`. The buttons change at once, while the code
queues this for the GUI thread. Teardown scripts and the job object are taken to work: the code
only logs when they do not.

Two things the module shows and no property forbids: a client that exits after the
script's last probe leaves `connect` to report "connected" after the exit was reported; and a
disconnect that comes before `connect` reads `connGen` is not noticed by it.

### PathWriter

`Send` takes no lock, so every `select` of it is a step of its own: put the frame, or find the
channel full, then take one frame out, and so on for three attempts. The other senders and the
writing goroutine move in between. Which frame is which does not matter, the channel is first in
first out; what matters is how many there are. `overtaken` is history: whether another frame got in
while this `Send` tried. A frame that is too old and one that is written are the same to the
queue, both leave the balance `open`.

### Reliable

A session is one connection with both its ends: the client's (`client`), the handler's (`server`),
whether the network lost it (`cut`) and whether `authOK` is under way (`ok`). A stream is the
goroutine `handleApp` (`app`) and the goroutine `handleStream` (`srv`), and what the second told
the first (`answer`). `OpenStream` and `Redial` are the critical section of `openStream`. A dial
is made while the mutex is held (`holder`), all other apps wait. `DialSucceeds`, `DialFails` and
`DialRejected` are the results the code tells apart: a session, an error after which it backs off,
and a permanent one. The handlers of streams outlive their session, as in the code, and give their
place back when their relay has ended. `Accept` is `acceptLoop`, with its channel of slots. `Tidy`
and `TidyStream` forget what no goroutine can see any more, so that the pools can be used again.

### Firewall

The kernel keeps a sequence of rules per chain; the server checks, inserts, appends and deletes
one at a time. `Rules` is the list of `newVPNFirewall` in its order, `Stale` what older versions
or the other setting of `allow_private_destinations` may have left. `ApplyRule` goes through the
list from the end, since every insert goes on top. Any command may fail. A rule that cannot be
added ends the start (`CannotAdd`). A `-C`, `-D` or `-S` that fails for a rule that is there misleads
the server, which takes every error of `-C` and `-S` for "not there" and ignores those of `-D`: then a
rule is inserted twice, stays, or is in no list (`Fails`; `spoiled` remembers for which rules, until
an orderly end after which they are gone). `Crash` may come at any point, `DockerStarts`
makes the chain `DOCKER-USER` appear, and the next start may have another setting. `Passes` is
what the kernel does with a packet: the first rule that matches decides. Rules that differ only in
the network they name are one rule.

### ConnectionList

An entry on disk is sealed for this Windows user, for another one, or in plain text; an
entry in memory has a key or a sealed key that could not be opened. `LoadGood`, `LoadBroken`,
`LoadNothing` and `Import` are the outcomes of `loadConnections`; `LoadNothing` is also that of a file
that is there and cannot be read. `Write` is `saveConnections`, which may fail; `Strip` removes the key
from `client-config.json`. `Exit` is the end of the process at any point. A save replaces the first
entry with the name that was loaded, else the first with the name in the fields, else it adds one
(`Targets`). `subject` is history: the entry the user has selected, whatever its name. `kept` are the
keys the user has and has not overwritten or deleted, and `risked` those of them that the code may lose
because it does not guard against something (`Risk`): it takes an unreadable `connections.json` for
none, it skips an import or goes on after one that was not saved, or a save meets another entry of
its name. A key leaves `risked` when it is read from `connections.json` or written to it.

## Runs

| run | instance | checked | shows |
|---|---|---|---|
| `sequential` | frames: 13 frames, window 3, 12 numbers, delays 3 and 6; rules: Docker, two settings, 1 failing command; keys: 2 keys, 2 names, 2 entries | `NewFramesGetThrough`, `LateRunsAreShort`, `DeliversOnce` (refinement); `Protected`, `NothingMissing`, `NothingStays`; `KeysSurvive` | duplicates are dropped and new frames are not, across the wrap of the counter, and a route that got slower is accepted within `RebaselineAfter`; whatever a crash left, no rule is missing while clients are served, an orderly end leaves only what a command failed for, and as long as none did, clients reach what they may and nothing else; over crashes, failed writes, migrations and imports no key is lost but in the situations of `Risk` |
| `shared` | bans: 3 connections; queues: 2 flows with packets of 1 and 2 bytes, 3 senders on a queue of 2 | `BansCloseTheDoor`, `TrustedAreNotBanned`, `BansEndInTime`, `BansNeedAStreak`, `BansLast`, `EverythingIsForgotten`; `QueuesAreConsistent`, `NewFlowsComeFirst`, `NobodyStarves`; `TheOldestGo` | handshakes across a ban do what the comments promise; bytes and lists stay right through overflow, CoDel and batches, new flows come first and still nobody starves; a full path drops its oldest frames and counts each |
| `glue_server` | 2 keys, 2 IDs, 2 connections, 2 sockets, all limits at 1 or 2 | `QuotaIsExact`, `OpenSocketsAreReachable`, `PathsKeepTheirSession`, `PayloadsReachTheirDestination`, `AcceptComesFirst` | handlers, readers, janitor and eviction in any order keep the books right |
| `glue_channel` | 2 paths, 3 places in a session, 2 epochs, 2 faults | `PacketsForwardedOnce`, `OncePerAdoption`, `NewRepliesAreHeard`, `EventuallyInStep` | restarts and broken paths: packets once, replies once per adoption, new sessions heard; in the end all agree, or a permanent error has ended the client |
| `game_split` | 1 port, 3 destinations, 2 IDs | `TablesAgree`, `UnknownPortsAreLookedUp`, `SendersKeepTheirChannel`, `SendersKeepTheirID` | the tables agree under all interleavings of the four goroutines, also when IDs run out; a flow that goes on sending keeps its channel and its ID, whatever the ticker sweeps in between |
| `vpn_channel` | 2 clients, 3 connections, 1 fault | `CurrentIsServed`, `NoConnectionLeft`, `SettlesDown` | the slot survives every order of claim, replacement and release; closing works; somebody is served |
| `vpn_gives_up` | same | `GoodKeysKeepTrying`, **violated** | finding 1 |
| `reliable` | 2 clients, 2 sessions, 2 apps, all limits at 1 | `CountersAreExact`, `OneSession`, `AppsAreAnswered`, `StreamsEnd` | lost sessions, redials, refusals and restarts: counts are exact, one session per client, every app is answered, every stream ends |
| `keys_unread` | the keys of `sequential` | `WritesKeepKeys`, **violated** | finding 4 |
| `tray` | 2 clients, 1 disconnect at a time, restarts | `OneClient`, `DisconnectCleansUp`, `ConnectEnds` | whatever overlaps, one client runs at most, it can be stopped, all this tray or a crash did is undone in the end, and `connectMu` is given back |
| `tray_ipv6` | same, no restarts | `BlockedWhileConnected`, **violated** | finding 2 |
| `tray_crash` | 1 client, restarts | `RestartCleansUp`, **violated** | finding 3 |

Every property of a passing run has a mutant: a definition of the model with a plausible slip in
it (marked "Variant with a bug" beside the original), under which TLC finds the property violated.

## Bounds

* `sequential`, frames: 12 sequence numbers and 13 frames, so a frame occurs with the number of an earlier
  one; a window of 3 has room for a step inside it, to its edge and beyond. With `MaxAge` 2 the
  delays 3 and 6 are further apart than the limit; both minimum windows roll, and re-baselining
  happens more than once; a baseline window is one unit (`OffsetWindow`). Ages saturate, so time
  is not bounded. The theorems cover every size.
* `glue_server`: the limits on the total and on the flows of a session bite. Those of two sessions
  and two paths do not with two connections; only the theorems cover them. Two connections are what it takes for
  one to change a flow under the other, and two sessions compete for the one slot of the total.
  Three session objects allow a session, its successor and an evicted one with a reader left.
* `glue_channel`: two epochs are what it takes for one to be stale; two faults allow a connection
  to break on each side, or a restart after a break. Three places in the session are fewer than two
  paths and two old connections need, so a path may find it full. Two replies and one packet are
  enough to be mixed up and to be copied; that the windows tell more of them apart is
  the business of `Receiver` and the theorems.
* `game_split`: three flows and two IDs, so the counter wraps and IDs run out. `Idle` is 0 and
  `UnknownWait` 1 tick: what counts is whether a tick has passed, and packets come before, between
  and after the two sweeps of one. The theorems cover every `Idle`. The owner of a port is a game or
  unknown; another process is one more way off glue, and the theorems cover it.
* `shared`, bans: three connections suffice for a ban, a failure under way that prolongs it and a
  login under way that lifts it. Times are pairwise different where the code's are.
* `vpn_channel`: three connections: an old one, its successor and one of the other client.
  `MaxFaults` bounds the faults of a whole behaviour, whoever meets them; connections are closed
  without one as well.
* `shared`, queues: one flow that is watched and one that comes and goes beside it. Frames are one or
  two quanta long, so a turn may end with a debt. The limit of 4 bytes is reached with packets of
  either size, also when one drop is not enough; CoDel has the two packets it needs to drop in a
  row. A batch is two bytes, and single packets are taken as well. Three senders on a path are the
  fewest with which a `Send` loses its room three times and gives up; the channel of 2 is full and
  half full. `Depth` and `Attempts` are the code's 32 (`gluePathDepth`) and 3.
* `reliable`: all limits are 1, so each of them bites and is given back. The first client has two
  apps, which is what it takes to wait for the dial of another; the second client has one, and
  shares it in the pool with the first (`AppsOf`), so that the two compete for streams and slots.
  With equal limits per key and in total TLC never meets the first alone; the theorem covers others.
  Two sessions are a lost one and its successor. `Watched` is the app the two liveness properties
  are about.
* `sequential`, rules: Docker may be there from the start, come later or never; both settings; the
  rules of an older version. One command fails for a rule that is there (`MaxFailures`); the theorems
  have no bound on them. Nothing bounds crashes, restarts and rules that cannot be added.
* `sequential`, keys, and `keys_unread`: two entries at most, the one that is saved and another that
  must survive it. Two keys and two names, one of them that of the import. Nothing bounds restarts
  and failed writes. `Machines` is which of the two halves of `MCRestarts` a run is about.
* `tray`: two clients are an old one and its successor; a process is used again once no goroutine
  knows it, so the number of connects is not bounded. One disconnect is under way at a time, and
  scripts left by a tray that ended are over before it ends again. `tray_ipv6` leaves restarts
  out, so that its counterexample does without a crash; `tray_crash` needs one client only.

Deadlock is checked where the system never stops. `glue_channel`, `vpn_channel` and `shared` may
stop: connections end, bounded counters run out, and a closed queue is left.
In `tray_ipv6` the user may quit for good. `TypeOK` is a part of every invariant that is
proved, so no run checks it. `PromptFramesAreOnTime` and
`StrangersWait` are proved and have no run either: a violation would take one or two steps.

## Fairness

* `GlueChannel`: the steps of `keepPath` for each path: dial, announce, notice that the path is
  dead. They are a `for` loop with deadlines on every wait. The handler of a connection the client
  has left notices (`ServerNotices`): its reads have a deadline too (`glue.go:399`). A client that
  has met a permanent error ends (`ClientEnds`). Faults are bounded by `MaxFaults`, so
  "once connections stop breaking" is part of the property.
* `AuthBan`: clock, janitor, and the end of each handshake, which has a deadline.
* `VPNChannel`: the steps of `run` for each client, of each handler, and the second half of
  `stopVPN`. Every wait in them has a deadline or ends when the connection is closed. Breaks,
  `Close`, `StopVPN` and failing writes are not fair.
* `Scheduler` (`MCFairness`): whoever holds the mutex goes on, and the dequeuer gets it although
  others keep enqueuing (strong fairness of `Call`): a `sync.Mutex` is handed to a goroutine that
  has waited for a millisecond. Writes have a deadline, so the dequeuer comes back to call again;
  a write that fails ends in `Close`. `PathWriter` needs none.
* `Reliable`: dials, handshakes, the setup of a stream, the dial of its target and the drain of a
  relay have timeouts; a relay whose stream has ended notices it, and smux notices a dead
  connection by its keep-alive. Strong fairness of an app that wants the mutex, again for
  `sync.Mutex`. Apps, targets that keep silent and the network are not fair.
* `Tray`: each goroutine that has begun goes on; scripts end, and `connect` waits 20 s at most.
  Users, clients and crashes are not fair.

## Findings

Four places where the code does something else than a comment, a test or the documentation says.

1. **A slow handshake is final** (`vpn_gives_up`). The server closes a connection at its
   handshake deadline; the client reads that as a rejected key (`auth.go:224`). A link that was
   connected before and is redialing then gives up for good (`vpnlink.go:83-85`), although the
   comment (`vpnlink.go:40-41`) reserves this for wrong keys and certificates. The glue paths do the
   same (`gluepaths.go:173-179`, `DialRejected` of `GlueChannel`).
2. **Connected without the IPv6 block** (`tray_ipv6`). `client.exe` exits, and before the
   goroutine waiting for it has run the teardown script (`client.go:176`) the user connects again
   with a double click, which the disabled buttons do not prevent. The teardown then removes the
   rule of the new connection. `disconnect` (`client.go:297`) can do the same. The startup cleanup
   holds `connectMu` to avoid exactly this (`main.go:243-250`). `README.en.md:197` says IPv6 is
   blocked while connected.
3. **Blocked after a crash** (`tray_crash`). A tray that crashes or quits leaves its route script
   running, and the teardown of the next start (`main.go:243-250`) does not wait for it. The script
   adds the rule afterwards, and IPv6 stays blocked without a tunnel.
4. **An unreadable list is overwritten** (`keys_unread`). `loadConnections` takes every error of
   `ReadFile` for "no file" (`connections.go:95`); the next save, that of an import included, replaces
   the file and its keys, although `connections.go:101-102` moves a file that cannot be parsed aside,
   as "saving the empty list over it would wipe all keys".

Five more have a property in the module and no run of their own. To see one, put the property in the
place of `WritesKeepKeys` in `KeysUnread.cfg`; the two of `Firewall` as `INVARIANT`, with
`Machines = {"server"}` and `MaxFailures = 1`. The theorems on `Protected`, `NothingStays` and `KeysSurvive` say how far each
of them reaches: the rules in `spoiled`, the keys in `risked`.

* *An ACCEPT above a DROP* (`DropsComeFirst`; `vpn_setup_test.go:90-91`, `vpn_setup.go:305-306`).
  `apply` takes any error of `-C` for a missing rule (`vpn_setup.go:309`), also that of the xtables
  lock. After a crash in the middle of `apply` a failing `-C` inserts the ACCEPT of outgoing traffic a
  second time, above the DROPs that are there already and are then skipped.
* *A rule that stays* (`AllRemoved`; `vpn_setup.go:327`, `vpn_setup_test.go:207`). `remove` ignores a
  failing `-D` (`vpn_setup.go:331`) and deletes one copy of a rule that a failed `-C` has added twice.
* *An import that is not saved* (`ConfigKeyIsSaved`; `connections.go:141-142`). The imported key is in
  memory only (`connections.go:166-169`), and connecting takes it out of `client-config.json` all the
  same (`client.go:89`, `connections.go:409`).
* *Another entry is overwritten* (`OthersStayAsTheyAre`; `main.go:60`). A connection may be renamed
  to the name of another one, and saves go by name, to the first of them (`connections.go:257-270`).
* *A second entry* (`RenamesAddNothing`, with a third name; `main.go:60-61`). When the write after a
  rename fails (`connections.go:313-317`), the entry is renamed in memory and `loadedConnectionName`
  keeps the old name; taking the rename back appends an entry.

Remarks without a run:

* `setEpoch` takes the epoch of whichever path announces last. A path that read the accept of the
  old session and announces it late brings the old epoch back with an empty window, and a reply of
  that session still in the hands of a reader is delivered again, although `gluepaths.go:262` says
  duplicates are dropped. UDP allows it, and the channel recovers (`EventuallyInStep`);
  `OncePerAdoption` is what does hold.
* A flow on glue that is silent for longer than the idle timeout may keep its route and get another
  ID: when it sends again between the two sweeps, its route is as new and its ID is swept
  (`vpn.go:177-178`). `SendersKeepTheirID` is about flows that go on sending.
* `socks.go:100-102` says that apps fail right away during the backoff instead of waiting; while a
  dial is under way they do wait for the mutex, and `AppsAreAnswered` shows that this ends.
* Only outgoing packets count as activity of a route (`router.go:82`), so a flow that only
  receives for longer than the idle timeout is decided anew, while `README.en.md:129` says the
  decision never changes. Flows that send keep their channel (`SendersKeepTheirChannel`).

## Proofs

All theorems hold for every value of the constants under the assumptions named in the modules:
numbers are natural numbers, `None` is no member of the other sets, pools that are counted are
finite, and limits that the code would otherwise make useless are positive. Beyond that, half of the
sequence space is a whole number of windows (`SeqWindow`), a handshake is shorter than a ban
(`AuthBan`), and the numbers of `GlueChannel`, which do not wrap, are below half the sequence space.
The theorems on `Firewall` need no assumption, those on `ConnectionList` only `ListAssumption`: what
breaks the stronger properties under *Findings* is part of both models. Each proof module has the same shape: the
parts of the inductive invariant `IInv`, lemmas on what the operators of the model do to a record
or a set, one lemma per action, and theorems that follow from `Spec => []IInv`. Every `IInv` was
checked by TLC on the instance of its run, or on a smaller one, before it was proved.

| theorem | proves | of |
|---|---|---|
| `ImplementsOnceDelivery`, `NewFramesAreFresh`, `PromptFramesPass`, `LateRunsEnd` | `DeliversOnce` (refinement), `NewFramesGetThrough`, `PromptFramesAreOnTime`, `LateRunsAreShort` | `Receiver` |
| `DoorIsShut`, `TrustProtects`, `BansAreFinite`, `BansAreEarned`, `BansHold` | `BansCloseTheDoor`, `TrustedAreNotBanned`, `BansEndInTime`, `BansNeedAStreak`, `BansLast` | `AuthBan` |
| `QuotaCorrect`, `SocketsReachable`, `SessionsKept`, `PayloadsCorrect`, `AcceptFirst` | `QuotaIsExact`, `OpenSocketsAreReachable`, `PathsKeepTheirSession`, `PayloadsReachTheirDestination`, `AcceptComesFirst` | `GlueServer` |
| `TablesCorrect`, `UnknownPortsAsked`, `SendersAreKept`, `IDsAreKept` | `TablesAgree`, `UnknownPortsAreLookedUp`, `SendersKeepTheirChannel`, `SendersKeepTheirID` | `GameSplit` |
| `SlotIsServed`, `NothingLeft`, `NobodyTakesTheChannel` | `CurrentIsServed`, `NoConnectionLeft`, `StrangersWait` | `VPNChannel` |
| `OnlyOneClient`, `DisconnectUndoes` | `OneClient`, `DisconnectCleansUp` | `Tray` |
| `CountersCorrect`, `SessionIsSingle` | `CountersAreExact`, `OneSession` | `Reliable` |
| `ForwardedOnce`, `DeliveredOncePerAdoption`, `NewSessionsAreHeard` | `PacketsForwardedOnce`, `OncePerAdoption`, `NewRepliesAreHeard` | `GlueChannel` |
| `OldestGo` | `TheOldestGo` | `PathWriter` |
| `QueuesConsistent`, `NewFlowsFirst` | `QueuesAreConsistent`, `NewFlowsComeFirst` | `Scheduler` |
| `ClientsAreProtected`, `NoRuleIsMissing`, `NoRuleStays` | `Protected`, `NothingMissing`, `NothingStays` | `Firewall` |
| `KeysAreKept` | `KeysSurvive` | `ConnectionList` |

`BansNeedAStreak`, `BansLast`, `SendersKeepTheirChannel`, `SendersKeepTheirID` and `StrangersWait` are
action properties. Every safety property of every passing run is a theorem, and so is
type correctness.

Induction comes by hand, because the library's induction theorems take an operator as a parameter: a
set of natural numbers has a least element, so a property that every next number inherits cannot
have a first exception. By this `GameSplitProofs` shows that the search for a free ID ends, and
`VPNChannelProofs` what a fold returns.

**`ReceiverProofs`** begins with the arithmetic of wrapped numbers. For positions less than half the
sequence space apart, `Signed(Wrap(i) - Wrap(j)) = i - j`; positions less than `Window` apart have
different slots; `Slot(Wrap(i)) = Slot(i)`. `DeliversOnce` is not inductive: from an arbitrary
bitmap an old frame may be delivered again. `IInv` is `TypeOK`, `WindowInv` (the top is the wrapped
number of the newest delivered frame, and of the `Window` frames up to it exactly the delivered ones
are marked) and `BaselineInv` (the baseline is never below the best delay observed). The interesting
step slides the window: the slots of the frames stepped over are cleared, and because positions less
than `Window` apart have different slots, the others keep their marks. `LateRunInv` is an invariant
beside it: the time `Accept` counts from is that of the first drop of the current run, though the
minimum windows may roll meanwhile.

**`ServerProofs`**, on `AuthBan`: needs `Handshake < BanDuration` (15 s and 10 min). `IInv` adds to the
properties that the door is shut exactly while there is a ban (`ShutWithBan`), that no handshake
is younger than the door has been shut (`OldHandshakes`), that the ban is at most one handshake
younger than the shut door (`ShortProlongation`), that a login is remembered as long as it
protects (`LoginKept`), and that the count is never more than the failures since the last login or
ban (`CountIsHonest`).

**`ServerProofs`**, on `Firewall`: what a packet meets depends on the order of a chain. In whatever
state crashes, failing commands and changed settings have left it, a rule is in a chain twice only if
a command has failed for it (`Shaped`). As long as none has, the specific rules (drops, and accepted
replies) come before the general ones, and there are none without the general ones (`Ordered`). This
is because rules are inserted at the top, last to first, and deleted first to last: at every step what
is missing is a piece from the front. `DockerIsKnown` says what may be in a chain that is in no list,
and `StaleAreGone`, `RulesAreThere` and `RulesAreGone` how far the loops of `apply` and `remove` have
got, whatever fails on the way.

**`GlueServerProofs`**: `flow()` looks a flow up, closes the old socket, reserves a slot and takes a
new socket in separate steps, and a limit that held at the first need not hold at the last. What
makes it right is that the session's lock is held in between: at most one handler is inside
(`OneInFlow`), so the flow ID still points to nothing (`FlowIsUnbound`) and the session still has
room (`SessionHasRoom`) when the socket is taken. The total has no lock: `QuotaIsKept` counts the
slots that will become sockets and leaves out the ones a handler took beyond the limit and is about
to give back. `FlowsAreOpen` and `OpenSocketsAreReachable` make flow IDs and open sockets correspond
one to one, which is why eviction, the janitor and a reader, which close by different ways, give a
slot back exactly once (`ClosingFlows`, by a bijection between the flows of a session and their
sockets).

**`GameSplitProofs`**: the ticker sweeps routes and then flows, with packets in between, and no lock
spans the two. What a flow keeps is therefore a matter of ages: one that sent within `Idle` has the
route its last packet went by (`ChannelIsDecided`) and, over glue, its ID (`SenderHasID`), both used no
longer ago than it sent, so neither sweep takes them; and the packet between `classify` and `id` has a
route of age 0 (`HeldIsFresh`). `DstsAreCounted` counts a destination by the IDs in use, not by the
keys, so that a sweep is a difference of sets. The search for a free ID needs that a set of natural
numbers has a least element (`NextFreeIs`).

**`VPNChannelProofs`**, on `VPNChannel`: `NoConnectionLeft` speaks of clients that have returned; inductive is that at
every step of `run` a client has no connection open but the one `run` has in its hands
(`OpenAreLinked`). A handler has an old connection in its hands only between `claimVPN` and the close,
and it is one of its own client (`OldIsOurs`), so the close takes the channel from nobody. `stopVPN`
has a connection to close only once the channel is stopped (`StoppedFirst`), and a handler leaves only
when its connection is gone (`LeavingHasReason`).

**`VPNChannelProofs`**, on `Scheduler` (`FQIInv`): `total = AllBytes` compares a counter with a fold over all
buckets, and `BytesIn` is a fold over a queue. Both are shown to be the sum of a function over a set,
which may be taken apart at any element (`FoldAny`), so that a packet added or taken changes it by its
size (`SumChanges`, `BytesAppend`, `BytesTail`). That the total is within the limit when the lock is
free, although `dropFromFattest` gives up when no flow has a packet, is because then the sum is zero.
`TurnGoesOn`: a flow from which CoDel has dropped a packet is still the one whose turn it is, has
deficit left and another packet; the model takes that packet without asking, the code asks
(`have`). `FirstWaits`: while the first packet of an idle flow waits, what each flow in front of it has
been sent and what is left of its deficit make a quantum at most, so it gets less than a quantum and
a packet.

**`GlueChannelProofs`**, on `GlueChannel`: for numbers below half the sequence space the window is a set of
numbers it knows (`NumbersAreSmall`), and there is one invariant per direction. To the server:
whatever is on its way is for the session there is, and a packet forwarded is known to its window as
long as a copy is under way (`ForwardedIsKnown`). To the client: what the window would still accept
has been delivered less often than the session was adopted (`FreshIsOwed`), and what it knows was
delivered (`HeardWasDelivered`), so that a new session starts with an empty window and is heard.

**`GlueChannelProofs`**, on `PathWriter`: frames are in the channel, with a sender or with the writer
(`Balance`), and a sender that took a frame out finds room unless another one was faster
(`RoomWasMade`). It needs a channel with room (`pathwriter.go:38-40`) and at least two attempts
(`pathwriter.go:56`).

**`TrayProofs`**, on `Tray`: `OneClient` needs that `clientCmd` is empty from stopping the old client to
registering the new one (`SlotIsFree`), although disconnects take and kill clients at any moment, and
that a stopper holds a client only up to the kill (`TakenAreKilled`). `DisconnectCleansUp` is about a
quiet end; inductive is that whatever is left of a tunnel after the last disconnect has somebody who
will undo it (`ConnectIsAware`, `ClientWillBeTaken`, `RuleWillBeLifted`).

**`TrayProofs`**, on `ConnectionList`: a key that is kept and not at risk (`Safe`) is in
`connections.json` or moved aside or, before that file exists, in `client-config.json` (`OnDisk`), and
the list in memory has it as well once it is loaded (`InMemory`), since the next write replaces the
file by that list. The config is spare once the import is over (`ConfigIsSpare`). A save that was begun
has put its name into the list (`NameIsThere`), so the entry selected after the write is there.

**`ReliableProofs`**: a mutex held over a dial is what keeps the client to one session: a dial is the
first of the program or has an app behind it that has no stream yet (`DialsAreHeld`, `AppsAreTidy`), and
a client that dials has no session (`NoSecondSession`). Without `AppsAreTidy` a new stream might take
the place of one that is still counted. `Cardinality` says nothing of infinite sets and the pools of
this module are not assumed finite, so that the counted sets are finite is a part of the invariant.

Model-checked only:

* Liveness and fairness (`EventuallyInStep`, `EverythingIsForgotten`, `SettlesDown`, `NobodyStarves`,
  `ConnectEnds`, `AppsAreAnswered`, `StreamsEnd`): out of the prover's reach.
* The four properties of the violation runs, and the five beside them that `Findings` names.

## What is not modelled

Bytes: message layouts, IP and virtio headers, checksums, the SOCKS5 protocol, TLS and signatures.
Predicates on addresses (`egress`, blocked ports, `banKey`). Log lines and statistics. Operating
system calls and the GUI of the tray. Command line tools and test modes: they count or print and
keep no state others use. Client start, configuration and trust on first use: sequential, read
once. Times are compared, never measured: the values of timeouts appear only through their order.

Within modelled components: the byte layout of glue messages; the first connect of the client's
paths, which ends the program when none of them connects, and the backoff times; the packet loop of the vpn channel; the half-close of a relayed TCP
stream (whether data still on its way is lost when one side ends); checking the subnet and finding
the egress interface before the firewall is built; encryption of the keys and the test of a
connection in the tray.

## Plan

1. *Done*: receiver, glue server, glue channel, game split, ban, vpn channel, scheduler, path
   writer, reliable channel, firewall, connection list, tray; proofs of all safety properties.
2. The first connect of the client's paths and the redial backoff, in `GlueChannel`.
