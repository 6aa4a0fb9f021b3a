# Grandpa Bob: a formal model

TLA+ modules about the concurrent and fault-tolerant core of this repository, the
TLC configurations that check them on small instances, and the theorems that
TLAPS proves for every value of the constants. Paths are relative to the
repository root.

## The system

Grandpa Bob is a personal agent whose only host is a browser tab. The tab keeps a
profile (a workspace of files, chats, memory) in the browser's private file
system, runs agent turns in a worker, and synchronises the workspace with the
user's other devices. A small Node process connects the outside world: Telegram,
speech, pairing codes, and server-side peers that keep a profile reachable.

| part | source | state it keeps | operations |
|---|---|---|---|
| workspace sync engine | `web/src/sync/engine.ts`, `journal.ts`, `hashmap.ts`, `commit-watch.ts` | journal of stamped ops, logical clock, queue of envelopes, pending pulls, reconcile timer | note a mutation, send a map, decide, pull, apply, answer, attach and detach a peer, persist and load |
| links and multi-profile sync | `web/src/sync/index.ts`, `profile-link.ts`, `profile-sync-model.ts`, `transport-*.ts`, `chunking.ts`, `control-peer.ts` | runtimes per profile, link records, chunk buffers, connection states | start and stop a runtime, dial, accept, sign, reassemble |
| host lease | `web/src/host-lease.ts` | a lease record in local storage or a Web Lock, heartbeat and probe timers, status | acquire, beat, probe, take over, yield |
| in-tab backend | `web/src/server/local-backend.ts` | chats, turn in progress, queue of messages, subscribers | send, queue, stop, resume, answer |
| agent | `web/src/agent/*`, `tree-context.ts`, `tree-sources.ts` | running worker, run state, checkpoints, watchdog, retries | start, step, stop, checkpoint, retry |
| run log | `web/src/agent/log-store.ts`, `logger.ts`, `runlog-retention.ts`, `stopped-checkpoint.ts` | a table of numbered rows, markers, tombstones and checkpoints; a counter in memory | log, flush, pause, mark a turn, resume, trim |
| profiles | `web/src/profiles.ts` | registry in a file and in a mirror, progress marker of the migration, directories | boot, migrate, repair, create, import, relink, delete |
| seeds and transfer | `web/src/swap.ts`, `seed*.ts`, `workspace-transfer.ts` | mounted workspace, provenance | update from a seed, export, import |
| database sync | `web/src/db-sync.ts`, `auto-sync.ts` | marks of dirty databases, baseline hashes, dumps as text files | mark, flush, deliver, defer, replay |
| server link | `web/src/server-link.ts`, `web/src/main.ts` | the stored link with its keys, one connection, retry timer | pair, compare the phrase, resume, close |
| peer log | `web/src/peer-log.ts`, `src/bridge/peer-log.ts` | shipper with cursor and backlog; mirror of the run log on the desktop | handshake, backfill, batch, acknowledge, trim |
| Telegram channel | `src/bot.ts`, `src/telegram-bridge.ts`, `src/index.ts` | mailbox file: per user bindings with lease and epoch, parked messages, answered ids | park, claim, beat, acknowledge, sweep |
| pairing mailbox | `src/bridge/mailbox.ts`, `server.ts` | codes, channels, signals | publish a code, join, post, poll, prune |
| server peers and relay | `src/bridge/peer.ts`, `relay.ts`, `profiles.ts`, `store.ts`, `mdns.ts` | sessions with link, nonce, file link; a watcher and an offer per relay channel; a runtime per profile | offer, approve, watch for requests, attach, mirror |
| speech and services | `src/stt.ts`, `src/tts.ts`, `web/src/services/*` | none that matters | stateless requests |
| user interface | `ui/`, `web/src/main.ts`, `*-ui.ts`, `web/src/ui/pages.ts` | view state | render |

How they interact: tools commit files through the git layer; `commit-watch` tells
the engine of the active profile; the engine exchanges envelopes with the engines
of other tabs (broadcast channel), devices (WebRTC) and server peers (relay).
Only the tab that holds the host lease starts sync and runs turns. Telegram
messages are parked in the mailbox of the Node process; the tab polls it, claims
a user under a lease, runs a turn and acknowledges.

What is hard: every one of these is asynchronous. An engine applies one envelope
at a time while its user edits and its timers fire; links drop between a request
and its answer; a tab closes between two awaits; leases expire while their holder
is suspended.

### What makes each part correct

- **Sync engine.** Replicas that can reach each other end up with the same files.
  An edit nobody overwrote is a file somewhere or a conflict copy; the code keeps
  this but for the edit a pull overwrites without having read it, see `unread` below. A
  file disappears only because a user deleted it. The journal, from which the
  stamps and tombstones of a map come, describes the disk. The winner of a
  conflict stays the winner unless somebody edits under the round that decides it.
- **Links.** A profile's data moves only while both sides allow it, and only after
  both confirmed the phrase; the two sides agree on what is allowed once messages
  have settled; a link that replaced another gets its own updates.
- **Host lease.** At most one page is primary; when the primary goes away another
  page takes over.
- **Chat queue and worker.** One run per chat at a time; every message gets exactly
  one end, in order; a stop stops the run it was meant for and no other; a wedged
  or dead worker does not block a chat for ever.
- **Run log and peer log.** Numbers of rows are unique and grow; the copy of the log
  is a prefix of it; a row is not lost between the live stream and the backfill.
- **Database sync.** A write to a database reaches a dump; a dump never overwrites
  local changes; databases are not replaced under a running turn.
- **Profiles.** A migration that is interrupted can be resumed and loses no file; a
  profile that was reported created stays, under its id.
- **Server link and relay.** A pairing outlives its connections: after a drop, a
  reload or a failed attempt the two ends get together again without a new code,
  and nothing moves on a connection before the tab has proved its key on it.
- **Telegram channel.** A parked message is kept until it was handled; one browser
  runs it once; a chat belongs to one live profile; messages are not stuck behind
  a dead owner.
- **Pairing.** A code is used once and by one browser; a channel's signals arrive in
  order and complete.

## Modules

| module | what it is | source |
|---|---|---|
| `Journal` | the journal of a replica as a value: last op and stamp per path, clock; `recordOp`, `recordRemoteOp`, `load` | `journal.ts` |
| `Reconcile` | the decision a replica takes from two maps: what it pulls and which paths conflict | `engine.ts` 489-594 |
| `SyncEngine` | replicas, links, users and faults around those two; one action per step between two awaits | `engine.ts`, `commit-watch.ts` |
| `SyncEngineProofs` | theorems about `SyncEngine` | |
| `SingleHost` | the promise of the lease: nobody or one page hosts | `host-lease.ts` 1-21 |
| `LockLease` | the lease over Web Locks with the broadcast channel | `host-lease.ts` |
| `RecordLease` | the lease over a record in local storage | `host-lease.ts` |
| `HostLease` | the two mechanisms side by side, one of which a browser has | `createHostLease` |
| `HostLeaseProofs` | theorems about both, the refinement of `SingleHost` among them | |
| `TelegramMailbox` | the Node half: parked messages, bindings, claims, acks, sweep | `src/telegram-bridge.ts` |
| `TelegramBridge` | the mailbox with the tabs that poll it | `local-backend.ts` 1800-2031, `src/index.ts` |
| `TelegramProofs` | theorems about `TelegramBridge` | |
| `AgentWorker` | the worker of a page: message loop, stop controller, run log writes, deferred dump replays | `agent-worker.ts` 104-152, 872-1090 |
| `ChatQueue` | the chats of a page over one worker: queue, turns, watchdog, stop, cancel, delete, client | `local-backend.ts` 437-533, 601-905, 1193-1221, `agent-client.ts`, `run-watchdog.ts` |
| `TurnOrder` | the promise of a chat: its messages run in order, one at a time, each ends once | |
| `ChatQueueProofs` | theorems about `ChatQueue`, the refinement of `TurnOrder` among them | |
| `RunLog` | loggers, table, markers, checkpoints and retention of one worker | `log-store.ts`, `logger.ts`, `runlog-retention.ts`, `stopped-checkpoint.ts` |
| `RunLogProofs` | theorems about `RunLog` | |
| `PeerLog` | `RunLog` with the shipper of the tab and the mirror on the desktop | `web/src/peer-log.ts`, `src/bridge/peer-log.ts` |
| `ProfileCatalog` | which profiles of two devices are one, under which id, and the consent after a catalog: pure | `profile-sync-model.ts` |
| `ProfileLinks` | two browsers that pair, exchange catalogs and consents, attach and detach | `sync/index.ts`, `profile-link.ts` |
| `ProfileStore` | registry, migration, repair and the calls that change the registry, with crashes | `profiles.ts` |
| `ProfileProofs` | theorems about `ProfileStore` and `ProfileLinks` | |
| `DbSync` | one database and its dump: marks, flushes, deliveries, deferred replays | `db-sync.ts`, `agent-worker.ts` 104-152 |
| `DbSyncProofs` | theorems about `DbSync` | |
| `RelayTransport` | both ends of a relay channel: requests, offers, answers, the watcher | `src/bridge/relay.ts`, `transport-webrtc.ts` |
| `RelayLink` | the session of the desktop and the handshake of the tab over it | `src/bridge/peer.ts`, `server-link.ts`, `main.ts` |
| `PairingMailbox` | the desktop's own mailbox: channels with their codes, offers and lifetimes | `src/bridge/mailbox.ts` |
| `MailboxLink` | a session per channel of that mailbox, the file of paired browsers and the tab | `src/bridge/peer.ts`, `store.ts`, `server-link.ts` |
| `ServerLink` | the two ways side by side, one of which a stored link uses | `server-link.ts`, `peer.ts` |
| `ServerLinkProofs` | theorems about `RelayLink` and about the `MailboxLink` that `ServerLink` instantiates | |
| `MCSyncEngine`, `MCTelegram`, `MCLinks`, `MCRunLog` | constants and symmetry for TLC | |

Composition: `SyncEngine` uses `Journal` and `Reconcile`; `TelegramBridge` extends
`TelegramMailbox`; `ChatQueue` extends `AgentWorker`; `PeerLog` extends `RunLog`;
`ProfileLinks` extends `ProfileCatalog`; `RelayLink` extends `RelayTransport`;
`MailboxLink` extends `PairingMailbox`; `ServerLink` extends `RelayLink` and
instantiates `MailboxLink`;
`HostLease` extends `LockLease` and instantiates `RecordLease`.

### How state and actions correspond to the code

**Sync.** A content is a number that names the edit that made it, so a property can
tell where bytes come from; 0 is "no file". Hashes are the contents themselves
(no collisions). `journal[r].last[p]` is what `lastOpFor` finds and
`lamportFor` what `lamportByPath` holds; older ops of a path are never read. A replica is its rank
among the ids, which is all the tie-break compares. `job[r]` is
the envelope `drain` is applying: `phase` says where between two awaits it is
(asking, told, about to write, about to note). A map waits in `inbox[r][s]`,
one queue per peer, because connections are ordered and independent. `timer[r]`
is `pendingReconcile`, as the set of peers its closure will tell. A connection is
an element of `up`; what it carried when it closed is gone, or was delivered
before (`Sever`), and the engine keeps applying what it had received with
`live = FALSE`, which is what `connected()` then answers. Users commit bytes first and `noteMutation`
runs later (`dirty`). A crash keeps the disk and the saved journal. `unread` is a history:
the contents that a pull overwrote though its copy, if it made one, is of what the file held
when it was read. `MyMap` takes the hashes and the stamps at one moment, while
`buildHashmap` awaits each file before the stamps are read (`engine.ts:494-497`); a hash that
is older than its stamp names bytes the peer asks for and does not get, as it compares the
answer with the map, and the edit that made the difference has a round of its own armed.

**Locks.** `calls` and `answers` are the requests and callbacks between a page and
the lock manager, which is the browser's and marked external; `hold[t]` tells
that a page holds the function that returns the lock, `asking` which of the
retry timer and the take-over has a request open. `mail` is the broadcast
channel: empty when `Channel` is FALSE, as `main.ts` wires it.

**Record.** `RecordLease` counts time in ticks: ages of the record, of a sleeping
attempt, of the next beat and retry. A page can be frozen and thawed: it then
wakes up past its timers. Storage may refuse writes.

**Telegram.** `TelegramMailbox` splits each handler at its awaits: a claim checks who
owns a chat, reads the mailbox file, and answers; an ack reads the file, writes a
temporary one and renames it. `TelegramBridge` adds the tab: the tick that claims,
the chain that runs messages one at a time, the seen list in local storage, the
relay with its two guards and the ack. The seen list is one of ids, without their chats,
that keeps the newest `SeenKeep` (300 in the code, `local-backend.ts:2017`) and that a refused write of local
storage leaves as it was; `forgot` is the history of what was claimed and is not in it. The
list of answered ids keeps `AnsweredKeep` (100), and two acks share its temporary file. Time is
abstracted: a binding cannot expire while an awake tab of its profile beats.

**Chats.** The page is one thread, so an action of `ChatQueue` is what runs between
two awaits. `drain[c]` is where `drainQueue` of a chat is: off, or in the set-up of
`runTurn`, in the promise of the run, or in the write of the marker. A run has the
name of its turn. `inbox` and `outbox` are the two directions of `postMessage`;
`pending` is the client's table of open promises, and `watch` the watchdog's
table. `settle` is what the page does when promises of runs settle, whether by an
answer or by `onerror`; `advance` is the `finally` of `runTurn` and the next turn
of the loop, which follow without an await. The worker starts every message at
once, so runs of two chats overlap, and `met` remembers which did; `cut` are those
whose requests carried the signal that a stop of another run aborted. A wedged run
neither ends nor hears its signal: the case `settleStuck` exists for. `live` are the records
`liveTurns` keeps, at most `Kept` of a chat (20 in the code, `local-backend.ts:635`), the oldest
going first.

**Run log.** A row is its number and what it is: run, turn, position. `waiting[s]`
are rows a logger holds in memory, `task` is the statement the queue of the
database awaits: a flush, which looks at the table in one step and inserts in the
next, or the end of a turn, which trims before the queue is free. `paused` are the
runs with a checkpoint on disk, `turn[s].next` the continuation the worker holds.
Retention is cut down to what its passes may drop: tiers by age, tombstones, and all
but the `KeepRuns` newest runs. The size of the log is not counted; a pass may or
may not find it too large.

**Peer log.** `port` is `postMessage` from the worker to the page, in order; `asked`
what the page asks of the worker; `ship` the fields of `PeerLogShipper`; `desk` the
table of the mirror. A connection that is lost takes `up` and `down` with it, and an
answer of the worker that is still on the port is nobody's then.

**Profiles.** A registry is a function from names to ids. A file that is being
written is torn until its writer closes it. `boot` walks through the boot of one
page, step by step between awaits; `ops` are calls that have read the registry and
not yet written it. `upsets` counts crashes and writes that fail, those of the mirror, which
nobody notices (`profiles.ts:420-426`), among them. `latest` is a history, the mirror had no
write of it been refused, and `misled` tells that a registry was computed from one that was
not the latest.

**Profile links.** `end[d][l]` is the `ProfileLink` of a device on a channel together
with the session `index.ts` keeps for it; `entry[d]` the session under the id of the
peer; `store[d]` its persisted record. `task[d]` are the calls of `handleCatalog`
that await the registry. `vetoed` is a history: what the user turned off last.

**Database sync.** A content is a number and stands for its dump and its hash.
`flush[f]` and `apply` hold where a flush and a replay are and what they have read.

**Relay.** `feed` is the channel at the relay, `watch` the `RelayTransport` of the
desktop: how far it has read, which requests it took up, which offer is open. A
generation is one attempt to connect; the pairing is generation 0. `wire` is the
data channel: when it goes down the tab sees it when it looks, and the session gets
`notices`, one or more per handler, because the transport calls back for the
channel's `close` and for each bad state of the connection. `waiters` are calls of
`reconnectRelay` that share the watcher's promise; each of them puts a handler on
the new connection and sends a `server` frame with a nonce of its own (`greeting`).
A proof is good for the last nonce. `proving` are proofs whose `onControl` awaits the
stored key (`peer.ts:685`); the connection may close meanwhile, and the session then counts as
proven without one (`proves`). `proved` is a history: the connections on which the tab was let
in or proved its key. `attaching` is the stretch of `attachProfileLink` after its awaits. It is
assumed that these awaits and those of `proving`, of small local files, end before the next
connection has been negotiated over the relay (the guard of `open`); they may end before or
after the close of their own.

**Mailbox link.** Over a relay one session of the desktop waits for its tab; through
the desktop's own mailbox every way back is a new channel and a new session, so
`session`, `end` and `wire` are functions of the channel, and a key has the name of
the pairing that minted it. `live` is `liveByProfile`, `peers` the record of this
profile in `peers.json` and `tmp` the record in `peers.json.tmp`, through which every call
writes; `writes` tells how far each call that changes the file has got, so two of them
may write the temporary file before either moves it (`store.ts:97-118`). `crossed` tells
that one moved the bytes of another or found no file. `runtime` is how far
`attachProfileLink` and `startRuntime` have got. `retired` is a history: the keys
that were saved when a revocation or a newer pairing wrote.

## Runs

Each listed run is a configuration `MC<Name>.cfg`; all must pass.

| run | module | what it asks | bounds |
|---|---|---|---|
| `chat` | `ChatQueue` | order, one end per turn, a stop stops its turn, nothing is left running | one chat, 3 messages, 2 records kept, 2 faults, 1 command |
| `sync_crash` | `SyncEngine` | an edit at any time, one crash anywhere, every mixture of file times: nothing is lost but what a pull overwrites unread, quiet means agreed | 2 replicas, 1 path, 1 seed, 1 edit, 1 crash, times 0 and 1 |
| `sync_delete` | `SyncEngine` | edits and deletes while apart: journal and tombstones | 2 edits, any number of deletes, 1 drop, 1 timeout |
| `sync_online` | `SyncEngine` | edits while rounds run, every mixture of file times; convergence | 1 seed, 1 edit, times 0 and 1 |
| `lease` | `HostLease` | one host, healing, take-over after a crash, by both mechanisms | 2 pages; locks: 2 retries, 1 take-over, 1 rejection; record: staleness 6 against beats of 2, 2 freezes, 2 refused writes |
| `telegram` | `TelegramBridge` | run once, a live owner keeps its chat, nothing stays stuck | five days: two browsers and a message; two tabs of one browser and a message, with the tabs' faults or with a restart of the channel; one id in two chats; two messages of a chat. One fault, lists of one id |
| `links` | `ProfileLinks` | a veto is final, the two sides agree at rest, a link comes to rest | 2 devices, 2 channels one after the other, 2 names, 3 ids, 4 changes |
| `runlog` | `RunLog` | numbers, bounds of turns, runs that can be resumed | 2 chats, 3 turns, 3 rows, 1 upset, 1 run kept |
| `peerlog` | `PeerLog` | no hole in the copy, every row lands | 1 chat, 1 turn, 2 rows, 2 losses, windows of 2 |
| `profiles` | `ProfileStore` | nothing lost, profiles stay, the page comes up | 2 originals, 2 profiles, 3 upsets (crashes, failing writes of the file or of the mirror), 3 calls |
| `dbsync` | `DbSync` | refusals, clobbering, settling | 2 writes, 2 deliveries, 1 upset |
| `server_link` | `ServerLink` | relay: no request skipped, the proof belongs to the connection, the pairing outlives it, tab and desktop get together; mailbox: one live writer, a stored key is known, a tab with a good key comes back | relay: a pairing and 3 generations, 2 faults, 1 or 2 close events per handler of the first connection; mailbox: 4 channels, 2 events |

Why the bounds are enough. One path suffices for the sync properties, since paths
do not interact in a decision except through the order of pulls of one round and
the clock. In `sync_crash` both replicas begin with the seed and one of them edits, before,
during or after the round in which the seeds meet, and the crash and the edit can hit one
another; in `sync_delete` both make a version of their own or one makes two, which is what a
conflict, a stale map or an answer older than its map need. `WireCap` only keeps rounds from piling up identical maps.
Two pages are enough for the lease: each action of a page concerns one other
holder. One message is enough for claims of a chat, as its messages share a binding; the days with
two messages are for the lists of ids, where one id meets that of another chat or pushes out
an older one, and with lists of a single id the second message does. Two tabs of one browser
share its list. A day of two tabs has one message, as tabs meet over the owner of a chat and
over the list, and each is a matter of one message. The links have two names so that two
catalogs can change two ids at once, and four changes: each side creates and turns off.
Three messages let one wait behind another while a third runs, which is the
least that can overtake, and the third turn pushes out the record of the first; two faults let a late watchdog meet a failing write, an
error of the worker or its death. Two chats that share the worker are too many
states with three messages; `AgentWorker` and `ChatQueue` are written for any
number. Two chats with three rows can flush in the other order than they logged,
and one upset is a reload, an age, a deletion or a foreign row; `KeepRuns = 1`
makes the second run the one retention may drop. Two rows are a batch and one that
is still in memory when a connection comes up; two losses are a batch lost
and a later handshake that fails; the run has one chat, and the theorem is about any
number. For the profiles, two originals are the least of
which a crash can move one; three upsets crash a boot, the boot after it and a
call. Three generations and two faults let a request arrive while the offer of an older one
is open, and leave a generation to come back on after both; only the pairing's connection may
double its close events, which makes every call of the watcher that follows double. Four channels are a pairing, a second pairing or a fault, and the ways back
from them; a session that comes back meets one that is not closed yet. One flush
beside one replay is enough for a database: two flushes hold two texts, and either
overtakes the replay alone.

`CHECK_DEADLOCK FALSE` is set everywhere: bounded users and retries leave the system
at rest, which is not an error.

### Exceptions the properties make

Some properties excuse an accident that the code really has, and name it by a
history variable, so that the rest is still checked:

- `Calm` (`ProfileLinks`): a device pairs again only once the old channel is closed
  and the last catalog dealt with. Without it, see below.
- `Overridden` (`ProfileLinks`): a veto on a profile whose new id awaits the registry while
  another call of `handleCatalog` ends: that call opens the new id, whose consent is still
  under the old one (`sync/index.ts:492`).
- `unread` (`SyncEngine`): an edit that is made after a pull has read the file and before it
  writes (`engine.ts:639-645`), or on a file it removes.
- `crowdedOut` (`ChatQueue`): a turn whose marker was never written and after which `Kept`
  turns of its chat were started: its record is shifted out (`local-backend.ts:635`).
- `forgot` (`TelegramBridge`): an id the seen list does not hold though it was claimed, as
  local storage refused the write or newer ids pushed it out. `clashes`, `stranded` and
  `shed` are the messages that are left: with the id of a message of another chat; held by a
  suspended tab while another tab of its browser lives; taken out of a chain by a reload.
- `hit` (`RunLog`): a run that a trim met while its turn was still under way.
- `blurred` (`PeerLog`, `DbSync`), `crossed` (`DbSync`): a stream or a mark that an
  accident named at the definition broke. The stream of a log does not survive: a
  connection that comes up while rows wait for their flush; a batch that is written
  under other numbers than it was posted under; a row that is never posted while the
  page streams; a row that is logged between the insert of another chat's marker and
  its post; a backlog that is cut while a window older than it is read; a batch that is
  refused; a window that cannot be read; a reload after which numbers are handed out
  that the desktop has.
- `misled`, `Stranded` (`ProfileStore`): a registry that was computed from one that is not
  the latest, as two calls of one page overlap, or as the mirror's last write was refused and
  the file is torn; an installation of which some originals are already moved and no
  registry is left.
- `crossed` (`DbSync`) also stands for a turn that begins while replays wait behind
  the one that runs: the running one reads the newest dump, so the hash the waiting
  ones carry is out of date (`MCDbSyncOvertaken.cfg`).
- `doubled`, the phase `crashed` (`RelayLink`): a connection that gave more than one
  close event; the exception nothing catches.
- `crossed` (`MailboxLink`): two writes of `peers.json` that moved each other's temporary
  file.

### Known counterexamples

These are claims of the documentation or of comments that the modules refute, and
limits of the code that the premises of the theorems name. The
configurations marked with a name are kept beside the modules; the others say which
constant to change. None of them is among the listed runs, which all pass.

| how | property | what happens |
|---|---|---|
| `MCProfilesResume.cfg` | `Resumes` | a page killed while `removeRootEntries` deletes the originals leaves the marker and fewer originals than copies: every later boot fails the verification (`profiles.ts:670`, `:662`), although "an interrupted boot resumes" (`profiles.ts:14`) |
| `MCSyncRecreated.cfg` | `QuietMeansAgreed` | a replica that deleted a path never takes the peer's newer file for it, although the comment promises it is pulled back (`engine.ts:562`, `:585`) |
| `MCSyncOverwrite.cfg` | `NothingOverwritten` | `applyRemoteWrite` reads the file, keeps a copy of what it read and then writes (`engine.ts:639`, `:645`): an edit made in between is overwritten and in no copy, against "never silently dropped" (`README.md:547`) |
| `MCSyncOverwrite.cfg` without that invariant | `JournalDescribesDisk` | the stamps are not compared again either: the older bytes are then on the disk under the newer stamp of the edit (`engine.ts:645`) |
| `MCTelegramPark.cfg` | `NothingParkedIsLost` | the ack rewrites the mailbox from a read that is out of date (`telegram-bridge.ts:274`, against `:78`) |
| `MCLinksReplaced.cfg` | `VetoIsFinal` | two live sessions under one device id: a consent change reaches one, and the close of the old one forgets the new (`sync/index.ts:521`, `:431`, against `README.md:482`) |
| `MCRunLogForeign.cfg` | `MarkersFit` | a marker takes a number that a row of another process has: the insert fails and the turn is missing from the history (`log-store.ts:290`, against `:264`) |
| `MCPeerLogGap.cfg` | `CompleteAlways` | a connection that comes up between the log of a row and its flush has a hole (`peer-log.ts:293`, against `:23`) |
| `MCPeerLogOvertaken.cfg` | `MarkersLand` | with two chats, a row logged between the insert of a marker and its post reaches the desktop first; the marker has a lower number and is dropped as a resend (`agent-worker.ts:1082`, against "see it through the same tap", `:1085`) |
| `MCDbSyncRefused.cfg` | `CleanIsTaken` | the hash of a replaced dump takes precedence over the baseline: a clean database refuses a dump (`db-sync.ts:470`, against `:413`) |
| `ResumesWhileAlive` of `RelayLink` in `MCServerLink.cfg` | `ResumesWhileAlive` | a connection that closes while `attachProfileLink` awaits ends in `new ProfileLink(null)`, an exception nothing catches; two close events of one connection make two `server` frames, and the proof for the first nonce is refused and the pairing disposed of (`peer.ts:830`, `:682`, against `README.md:350`) |
| `MCServerLinkLate.cfg` | `WorkingLinksStay` | an older session that gets ready late takes `liveByProfile` and disposes of the newer one, which works (`peer.ts:1011`, `:1270`) |
| `MCDbSyncOvertaken.cfg` | `EarliestMatches` | two deliveries wait while the first replay reads the file of both, a turn begins and defers the second, and a third delivery is merged behind a hash that nothing has any more: it is refused over a database without changes (`agent-worker.ts:131`, against `:128`) |
| `MCChat.cfg` with `StuckResumes` | `StuckResumes` | `settleStuck` tells the user that a new message resumes the chat, but its loop still awaits the stuck run (`local-backend.ts:741`, `:711`) |
| `Channel = FALSE` in `MCHostLease.cfg` | `TakeOverWorks`, `AutoPromotes` of `LockLease` | `main.ts:1624` creates the lease without a channel: a take-over asks nobody, and two requests of one page leave it secondary with the lock in its hands (`host-lease.ts:198`) |
| three pages and releases in `MCHostLease.cfg` | `OneHost` of `RecordLease` | two sleeping attempts accept the record a third page emptied (`host-lease.ts:226`) |
| no `Overridden` in `ProfileLinks`, `MCLinks.cfg` | `VetoIsFinal` | a second catalog is handled while the relink of a vetoed profile awaits the registry: the consent was cleared for the new id and not set yet, and the offer of the peer sets it to yes (`sync/index.ts:492`) |
| no `misled` and no `ReadRegistry = Current` in `KeepsProfiles` | `KeepsProfiles` | a relink writes the page's own copy of the registry over a newer one (`main.ts:1507`, `profiles.ts:861`); and local storage refuses the mirror, which is swallowed, and the next write of the file is torn: neither place has the profile, and the boot that rebuilds the registry from the directories mints it another id (`profiles.ts:420-426`) |
| no `met` in the properties of `ChatQueue`, two chats | `StopsItsTurn` | one stop controller for the whole worker: a stop of the first chat is ignored once the second has begun, and dumps are replayed under the first |
| property `Rerun` in `MCTelegram.cfg` | `Rerun` | a message that was remembered before a reload never runs in that browser (`local-backend.ts:2017`, against `:2014`); nor does the second of two messages with one id in two chats, as ids are compared without their chats (`:2012`), nor one that a suspended tab holds while another of its browser goes on claiming |
| no `forgot` in `RunsOnce` | `RunsOnce` | local storage refuses the seen list, which is swallowed (`local-backend.ts:1821`), or newer ids push an id out that is not acknowledged yet (`:2017`): the next tick runs the message again (against "must not run the message twice", `:2014`) |
| invariant `AuthedIsProven` in `MCServerLink.cfg` | `AuthedIsProven` | a connection that closes while its proof awaits `readPeers` leaves `authed` set for the next one (`peer.ts:685`, `:703`, against `:623`); `onReady` believes it, and only the tab, which says ready after the desktop's own proof, keeps files off that connection |
| invariant `AlwaysKnown` in `MCServerLink.cfg` | `AlwaysKnown` | two writes of `peers.json` share `peers.json.tmp`: one moves the bytes of the other, and a tab is told that it is paired with a key that is not in the file (`store.ts:97-118`) |
| `CanDelete = TRUE` in `MCSyncCrash.cfg` | `NoLostEdit` | a tombstone is applied to a file edited after the map was compared, without a conflict copy (`engine.ts:602`) |
| `MaxCrashes = 1`, `Seed = 1`, `MaxContent = 3`, no drops and timeouts in `MCSyncDelete.cfg` | `TombstonesRespectNewerWrites`, `JournalDescribesDisk` | a crash within 500 ms of an op loses it (`Journal.persist`): the journal still says "deleted" of a file made again, the peer's older tombstone is pulled and removes it without a copy (`engine.ts:602`) |
| property `LoserStaysLost` in `MCSyncOnline.cfg` | `LoserStaysLost` | an edit under a round is taken for the file of the round's map: the two replicas swap their versions, each with the other's in a conflict copy, and the next round pulls one of them back over the winner (`engine.ts:639`) |
| `MaxTimeouts = 2`, no crashes in `MCSyncCrash.cfg` | `QuietMeansAgreed` | both pulls of a missing file time out; only a conflict arms the follow-up round that "settles anything the pull could not" (`engine.ts:616`, `:620`), so the file is missing until somebody edits or connects |
| `Replica = {1, 2, 3}`, `Link <- Line`, no crashes, `EditOnline = FALSE`, `MTime = {0}` in `MCSyncCrash.cfg` | `QuietMeansAgreed` | a file pulled from one peer arms no round with the others (`noteMutation` is for users' edits, `engine.ts:376`): a device between two others passes it on only when something else starts a round |
| `Empty = {2}` in `MCSyncDelete.cfg` | `OnlyUsersDelete` | an empty file is sent as an empty text, which is how a tombstone is told (`engine.ts:602`) |

Also seen: three replicas in a line may pull a loser back through the middle one; a
hub does not tell its other peers what it applied; a pull that timed out is not
asked again before the next round; a stop while a turn is set up stops nothing
(`local-backend.ts:1194`); a worker that dies before it has written a marker leaves
the turn running (`agent-client.ts:211`); a relink whose write fails forgets what
the user turned off under the old id (`relinkFails`); an approved pairing whose
connection closes before the tab gets its key replaces the old key all the same
(`peer.ts:471`); a resume that ends after a re-pairing stores the old key again
(`saveServerLink`); the catalogs `index.ts` makes
carry one date for all entries, so that which id wins is decided by the ids alone.

### Stated and not run

The type invariants of the modules, `GateHolds`, `AckedIsHeld`, `ReplayWaits`,
`OnlyUsersDelete` and `AutoPromotes` of `RecordLease` hold in the runs of their
modules, and `LoserStaysLost` in `sync_delete`, whose edits are made apart. They follow from the structure of a model or are special
cases of what the runs check, so no run lists them; the type invariants of
`SyncEngine`, `LockLease`, `ChatQueue` and `RelayTransport` are theorems.

## Fairness

`SyncEngine`: weak fairness of each step an engine takes by itself - timers fire,
promises settle, an open connection delivers - and of `Attach`: transports are
dialled again after a loss. Users, crashes, drops and timeouts are never forced.
Weak is enough because a step of one replica is disabled only by another
step of the same drain. `LockLease`: the lock manager serves and callbacks run;
retries are forced while the bound allows, closing is not. `RecordLease`: time
passes, timers of a page that runs go off when they are due, and a frozen page
wakes up some time. `TelegramBridge`: a tab that is awake polls, and
runs and acknowledges what it has claimed, each with weak fairness; a request in flight is
handled; a binding nobody beats expires, the channel's sweep runs and acks go on. A
restart, a reload or a suspension is never forced, nor that a suspended tab
wakes. `ChatQueue`: page and worker handle what has arrived, a set-up ends, a
marker is written or fails, and a run that is not wedged comes back: a model call
has a deadline, and what has none is the fault `wedge`; the watchdog reports a turn of which
nothing can be heard any more, as its timer does every half minute. Users and
faults are never forced. `ProfileLinks`: an open channel delivers and the registry is
written or fails; users are never forced. `PeerLog`: page, worker and desktop handle
what has arrived, rows get flushed, and a lost connection is tried again, as the
timer of `main.ts` does. `ProfileStore`: the steps of a boot go on unless the page is
killed, which happens `MaxUpsets` times. `DbSync`: a turn ends, a replay and a flush
go on, the debounce timer fires. `ServerLink`: of all polls, timers, callbacks, frames and
awaited calls of the way that is used, something goes on while anything can
(`WF_vars(Steps)`), which is less than fairness of each of them; the operator approves and the user compares the
phrase; attempts have deadlines (`givesUp` when the desktop will not answer), and the
tab tries again every 20 seconds. Drops, reloads, slow attempts, failing offers and
the purge of the channel are never forced.

## Proofs

`SyncEngineProofs` (for any set of replicas, any paths, links and bounds):

- `TypeCorrect`: `Spec => []TypeOK`.
- `StampsGrow`: `Spec => StampsNeverDecrease`: only a crash takes a stamp back.
- `OneSideYields`: of two replicas that compare the same pair of maps about the same
  path, one yields and the other does not: the winner rule is antisymmetric, which
  is what keeps them from swapping files.
- `NoEditIsLost`: no edit of a user is lost, made apart or while rounds run, but the one a
  pull overwrites unread, when users do not delete, no file is empty and copies have names of
  their own - the premise `Undeleted`, which the known limits above make necessary.
  `NoLostEdit` is not inductive: a pull destroys the local bytes, and it is safe only because
  of what the pull has read. The invariant `EditInv` adds that nobody has a tombstone
  (`NothingDeleted`), that a map in flight lists only files its sender has (`MapsTruthful`),
  and that an answer therefore has bytes, so that a pull never removes a file (`PullsSound`).
  It needs `TypeOK`. What the file held when it was read is in the copy; what it holds when
  it is written is that, or it goes to `unread`.
- `JournalTellsDisk` and `TombstonesYield`: the journal describes the disk, and a
  tombstone removes no file that was written later, when users edit while apart and
  nobody crashes - the premise `Steady`; each half is necessary, see the table above.
  Both are decided by a comparison made when a map arrived, and carried out some
  messages later. The invariant `RoundInv` says what stays true in between: an op is a
  write of a file or a tombstone, never both (`OpsSound`); a replica with a change to be
  noted is not connected and pulls nothing (`Noted`), and what is marked as alive
  belongs to a link that is up (`LiveOnly`); a map in flight or in a queue tells no stamp above
  the one its sender has now (`MapsOlder`); so what a pull under way
  brings is no older than what the journal of the puller says (`PullsNewer`), and
  `recordRemoteOp` takes it. The links, drops, timeouts and the orders of maps are
  arbitrary.
- `QuietIsAgreed`: pairs that fall silent hold the same files, whatever they edited
  apart, and wherever in a round a connection was lost. The premise `OneToOne` is edits made
  apart, `Undeleted`, pairs and no late answers, the last two necessary by the table above; and
  of the file times that the adapters report (`node.ts:68-76`) one of two things. Either the
  workspaces begin empty and nobody crashes (`Fresh`), with any file times: every file is
  then journaled before its replica connects (`Stamped`), so a path that both have is
  decided by stamps, and the times, which the code compares only where neither side has a stamp,
  decide nothing (`Timeless`). Or workspaces begin with any files and crash at any step, and
  all times are 0. With seeds or crashes and file times together the statement is
  model-checked only, in `sync_crash`, where it holds.
  The first layer, `BaseInv`, is `EditInv` with `Noted` and `LiveOnly`, that a file that is
  missing has no stamp (`Founded`), `Timeless` with `Stamped` and that letters go along links
  (`Linked`), and that a path is pulled once (`PullsOnce`). The second, `MeetInv`, says what
  two connected replicas owe each other. `Awaits` carries the theorem: when r should take a
  file of s, then s is going to send a map that r answers for (`WillTell`), a map with that
  file is in the mail (`Told`), or r is pulling it (`Pulls`). It is not inductive because an
  answer may be out of date when it is written. `Behind` and `Ranked`: maps are no newer
  than their sender, so what is pulled beats what is held and two replicas do not pull
  the same path from each other when both have it. `Answers`: bytes that are out of date
  are those of a round that is not a reply, and a newer map covers them. `Unopened`: the
  rest of a pull from an earlier connection is written while the first map of the new one
  is still unopened. A step is described to a pair by `Moves`, six cases that hide the
  other replicas, the queues and the journals; `PairStep` shows that every step is one of
  them or does not touch the pair, and `PairKept` that each keeps the five parts.

`HostLeaseProofs` (for any set of pages, any bounds and any three periods that the
assumption of `RecordLease` allows, with or without a channel):

- `TypeCorrect` and `RecordTypeCorrect`: the types of the two mechanisms.
- `OneKeyHolds`: the key to the lock is in one place: with the manager, in an answer
  on its way, in a page, or on its way back. It is inductive together with
  `TypeOK`, and it is stronger than it looks: a page could otherwise return a lock
  twice and free somebody else's.
- `LockLeaseRefines` and, for a browser with either mechanism, `LeaseRefines`:
  `OneHost`, the refinement of `SingleHost`: the page that says primary is the one
  that holds the key (`HostIsHolder`), so a step makes a page primary only when none
  is.
- `RecordHoldsOne`: `RecordOneHost`, one host by the stored record while nothing
  disturbs the pages. This is an argument about time. `HoldersInv` says of the calm
  case: a host is the holder of the record; the record is no older than the longest
  pause of the host's heartbeat, the refused writes included, less what remains of the
  current one, which is within what `Stale` forgives; the record a sleeping attempt
  wrote is as young as the attempt; and nobody else is about to write beside a host
  or an attempt that wakes up.

`ChatQueueProofs` (for any turns and chats, any faults and bounds):

- `TypeCorrect`: `Spec => []TypeOK`. Its invariant `TypeInv` says more: what page and
  worker name in any message, set or place is a turn that was sent, so no answer
  can be about a turn without a chat; and open promises are finitely many, which
  is what lets an error post a marker for each.
- `RunsInOrder`: `Spec => InOrder`, the refinement of `TurnOrder`. `OrderInv` has
  three parts. A queue is sorted and behind the turn of its loop (`QueueOk`). The
  loop is where the status of its turn says (`LoopOk`). A turn that runs, or whose
  promise is open, is the turn of its loop (`TurnOk`): that is why an answer that
  comes after the watchdog has settled the turn moves the chat on from that turn
  and from no other, and why a failed set-up or a late marker cannot start a second.
- `ToldAndMarkedOnce`, `OneRunPerChat`, `StopsOnlyItsTurn`, `StaysInSight`: `EndsOnce`,
  `OneRun`, `StopsItsTurn` and `StaysVisible`. `EndInv` follows a turn to its end:
  each message about a marker is posted once, at one of the places that `MarkerInv`
  lists, so the client is told once (`EndsOnce`); a stop in the channel names a turn
  that was asked to stop (`StopInv`); and a record is dropped only after the turn was
  logged (`LiveInv`), or when it is the oldest of more than `Kept`, all of which were
  started later: for the real 20 as for the 2 of the run.

`DbSyncProofs` (for any number of flushes, writes, deliveries and upsets):

- `TypeCorrect`: `Spec => []TypeOK`, where contents are any numbers.
- `NothingClobbered`: `NeverClobbers`. `Fresh`: the next number is above every
  content, and what a flush has written is shared. `Held`: every hash that is kept,
  as the baseline, by a waiting or deferred replay or by the running one, is of a
  content that was shared. So the content a replay may replace was shared too.
- `OnlyChangesRefuse`: `RefusesOnlyChanges`. The invariant `Plans` is about a database
  that is `Behind`: it has a content that was shared, and the dump is another. As
  long as nothing was overtaken some replay that waits carries its hash (`Promised`).
  In a turn more is needed, because requests are merged and the earliest hash is
  kept: the first one to be merged is the one that promises, and whatever waits came
  when database and dump differ (`InTurn`). `Told` says that a refusal over a dump
  has a replay behind it. The attempt to prove this corrected the model: the run has
  two deliveries, and with three a turn could overtake a waiting replay without
  `crossed` being told.

`RunLogProofs` (for any number of chats, turns, rows, upsets and kept runs), of the run log
and of its copy:

- `RowsNeverCollide`, `TurnsAreBounded`, `PausedRunsStayWhole`: `NumbersAreUnique`,
  `TurnBounds` and `PausedIsWhole`, from the invariant `LogInv`: rows in memory belong
  to the running turn of their chat and come after all stored rows; a batch gets its
  numbers when it is inserted, behind the table, and whatever is logged later is behind
  every marker that is there; the rows of a run are contiguous among the markers of its
  chat; what retention drops is neither paused nor in use. A number is drawn in one
  step and used in another: uniqueness needs that the numbers a batch was given are
  still free when it is inserted.

- `CopyHasNoHole`: `PeerSpec => []Complete` of `PeerLog`, for any number of chats, rows and
  lost connections, and any `MaxPending` and positive `BatchRows`. `Complete` speaks of the
  table and of the desktop, which exchange batches over three queues, so the invariant
  `PeerInv` has to say where every row is meanwhile. `Stage`: one request or message of the
  stream is under way at a time, at one of eleven places, and the shipper's cursor is
  the desktop's except while an acknowledgement is on its way. `Live` rows are those in
  the table and those that will be written under the number they were posted under.
  `DeskInv` is `Complete` for live rows, so that a row that is flushed later is there
  already. `Flow`: a live row the desktop lacks is in the batch, in the backlog, on the
  port or about to be posted, unless the table will be asked; and a batch or a window is
  `Gapless`: it has every live row between the desktop's cursor and its own last, so
  that the cursor moves past nothing. `PortInv`: rows come to the page in the order of
  their numbers, and `NumInv` says why: the counter is beyond whatever was posted, and a
  marker is the last row when it is posted. That last part failed with two chats, see
  `MCPeerLogOvertaken.cfg`; `blurred` now tells of that accident.
  `FiniteBounded`, that a finite set of rows has a highest number, is proved without
  induction: the map of each number to the next would be an injection of the set into a
  part of it.

`ProfileProofs`, of `ProfileStore` (for any sets of originals and profiles, any upsets and calls):

- `NothingIsLost`: `NothingLost`, from `Moved`: a boot that copies lists everything at
  the root, a marker is only there when something was installed, and a boot that
  removes originals has a whole copy of each in its list. So it makes no difference at
  which step the page is killed: the next boot lists what is left.
- `ProfilesStay`: `KeepsProfiles`, from `Kept`, which holds as long as nothing was
  `misled`. The latest registry has every profile that was reported, with its id, and so has
  the file when there is one (`Registries`); a mirror whose write was refused need not, so a
  reader is safe while it gets the file or a mirror that is the latest (`ReadKeeps`). The
  directories have the names, which is what a repair of the registry starts from; a boot
  about to write has them too (`BootHolds`); and a call is about a profile that nobody else
  changes and that is not known meanwhile, unless it is only patched (`Calls`). `AfterMove`
  says that nothing is reported before the migration has ended, which is why its registry
  may start with the default profile alone. A refused write of the mirror is harmless until
  the file is torn as well, and that pair of failures is all the theorem leaves out besides
  racing calls.

**Profile links.** Of `ProfileLinks`, for any profiles, names, links and changes of two
devices, `ProfileProofs` shows `LinkTypes` (`TypeOK`, with or without `Calm`) and, under
`Calm`, `RestIsAgreed` (`RestAgrees`). `Calm` is a real premise: two live sessions under
one device id break `RestAgrees` as they break `VetoIsFinal` in `MCLinksReplaced.cfg`.
`RestAgrees` speaks of a link on which nothing is on its way, so its invariant, `Inv`,
says at every moment how what is on its way will make up for what is missing:

- `OneOpen`, `TasksHere`: one link at most is open, and a call of `handleCatalog` that
  awaits the registry belongs to it. This is what `Calm` is for: an answer of an old link
  cannot touch the record of the new one.
- `EndOK`: what one end knows of itself. It is ready exactly while open and confirmed on
  both sides; once it is known by the device id (`keyed`), the entry and the record are
  there, and unless `handleCatalog` awaits, what is attached is what `applyConsent` makes
  of the record.
- `Line`: what is on its way to an end, in order: the answer to the phrase before anything
  else, then the catalog and the consent of `markReady`, then whatever was changed since. An end
  therefore confirms before a catalog comes, and drops none.
- `Heard`: the consent of the other end is known already, or is the last one on its way, or
  a catalog is on its way back, or awaits the registry, that will be answered with it. A
  step that changes a record on a link that is ready sends the new consent at the end of
  the line, which makes the second case true whatever held before.
- `Clean`: a consent that arrived before the record is kept aside by a fresh end only until
  its catalog comes.

The lemmas go through the handlers one by one. `Sending` is what they have in common: one
device changes its end and its record and sends messages on one link. A call of
`handleCatalog` is followed through its await (`Finished`, `CatalogAwaits`,
`AwaitsAgain`), as messages of the other end arrive meanwhile. At rest `Heard` leaves only
its first case, and `EndOK` of the two ends gives the attachments.

**Relay.** `ServerLinkProofs` first proves of `RelayLink`, for every number of attempts, faults and close
events, that the signaling keeps its type (`SignalingTypes`), that the watcher leaves
no request behind (`RequestsTakenUp`) and that a connection carries files only for
a proven tab (`ProvenPeers`), and that a pairing survives its connections
(`PairingKept`). The inductive invariant is the conjunction of three.
`TransportInv` adds to `NoRequestSkipped` that the watcher has read no further than
the feed goes and that only tabs send requests: a new request is then always beyond
what was read. `LinkTypes` types session, tab and connection, without the bound that
keeps the nonces finite for TLC. `LetIn` says where a proof may still be under way:
while the session has a connection, a `ready` frame or an awaiting `attachProfileLink` needs
an authenticated session, a proof on this connection and a confirmed tab (`Attaches`); a
`paired` or `resumed` frame, or a tab that is about to compare the phrase on an open
connection, needs the first two (`Greets`); a stored link, a second generation, a `resume` or
`resumed` frame or a proof that awaits the stored key needs a confirmed tab (`Returns`).
`OnlyProvenPeers` alone is not inductive, as what lets the tab in are frames that were sent
before. It does not follow from `authed`, which a late proof may have left to the wrong
connection (`AuthedIsProven` above), but from the tab's own order: it says `ready` on a
connection after that connection's `paired` or `resumed`. `EasesKeeps` covers the many
steps that let nobody in; those that do have a step each.

`PairingKept` needs `PairInv`: as long as no connection gave two close events, of a
connection, its close event and a waiting session there is one at a time, so there
is one nonce and the proof that comes is for it.

**Mailbox link.** Of its instance `Local` of `MailboxLink`, which is that module on the
variables of the desktop's mailbox, `ServerLinkProofs` proves for every number of channels
and events: `MailboxTypes`, `OneLiveWriter` (a session that is ready and not disposed of is
the live one) and `StoredIsKnown` (the key the tab has is the one in `peers.json`, unless
that one was revoked or replaced, or two writes of the file crossed). The invariant `LocalInv`
follows a key from the write that saves it to the tab: it is sent only after its own rename
has ended, and a rename that has ended is the last one or its key is in `retired`
(`WritesOK`), as long as each rename moves what its own call wrote.

**Telegram.** `TelegramProofs`, for any messages, tabs, profiles and browsers and any number
of faults: `BridgeTypes`, `TurnRunsOnce` and `LiveOwnerKept`.

- `TurnRunsOnce`: `RunsOnce`. The invariant follows a message from file to turn. `FilesOK`:
  each of the mailbox files, the temporary ones and the lists the acks in progress have read
  has an id at most once (`Box`), although an ack may write a list back that is out of date.
  `ClaimsOK`: an inbox request is at a chat once (`ChatsOnce`), so the letters it has
  collected are about different messages (`Apart`); this is where `pick`, the slice of a
  mailbox that is claimed, has to be shown to take no element twice (`PickIsPart`, which
  `nth` makes an argument about the cardinality of initial parts of a set of indices).
  `ChainsOK`: what is in the chain of a tab its browser has seen; what waits there has not
  run, and is in no other chain of the browser (`Differ`), as the tabs of a browser share
  what was seen; both but for ids that are `forgot`. A claim that brings a message in twice
  therefore finds it seen, for any length of the list and whichever writes of it are refused,
  or the browser has forgotten it.
- `LiveOwnerKept`: `LiveOwnerStays`. `Stays` says of each step that live bindings keep their
  profile; only `ClaimRead` needs an argument, as it decides before an await and acts
  after it: it compares the epoch and the liveness again.

The assumptions are the named `ASSUME`s of the modules, which TLC evaluates in the
runs. What stays with TLC: everything under fairness (`Converges`, `LockTaken`,
`Heals`, `EventuallyRun`, `Ends`, `Moves`, `Lands`, `Boots`, `Settles`, `Reconnects`,
`ComesBack`), which the prover cannot reason about; and `VetoIsFinal` of the links,
checked within the bounds of `MCLinks.cfg`.

## Not modelled, and what comes next

In this order:

1. The other records of `peers.json`, which other profiles write through the same
   temporary file (`store.ts:97`): a write loses theirs, or they lose one to it.
2. Two engines over one folder and one journal file, as several sessions of a server
   run them (`peer.ts:957`); consent and engines per folder.
3. Chunk reassembly; previews; the desktop kind of session in `ProfileLinks`.
4. Seeds and workspace transfer as pure functions on trees.
5. The pending calls of a server link: ops, transcriptions, speech, whose answers may
   race their deadlines.

Left out for good: rendering, speech, HTTP and WebRTC plumbing, the tree engine
(a library) and the formats of messages and files. The user interface, two fifths of
the code, keeps view state only; what `main.ts` decides for the host lease, the
profiles and the server link is part of their modules. Of the sync engine, explicit
rounds (`reconcileAndWait`), the legacy push of ops and journal files torn by a
crash are left for later; of the Telegram channel, transcription, unlinking and the
mirror of turns typed in the tab; of the run log, its size and the kinds of rows that
compaction keeps; of database sync, git pulls and several databases in one file
of marks.
