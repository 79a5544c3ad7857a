# agent-inbox: a TLA+ verification project

agent-inbox is a mailbox for software agents: a hub (one asyncio process, one
SQLite file) where actors join under a name, send each other messages, reply on
threads and read what waits for them; hubs that trust each other exchange mail;
on each machine a command line, an MCP server and wake hooks connect agents to
their hub, and a web console connects people to it. This directory holds TLA+
modules translated from its source, the TLC configurations that check them, and
proofs for TLAPS. Paths below are relative to `src/src/agent_inbox/` unless they
say otherwise.

    tlc -workers 2 -config MCMailbox_audience.cfg MCMailbox  # one run
    tlapm MailboxProofs.tla                                  # one proof module

## Contents

1. Inventory of the system
2. What is modelled, and how modules correspond to the code
3. Runs, their bounds and what they show
4. Disagreements between the code and what is said of it
5. Proofs
6. Not modelled, and the plan

## 1. Inventory

| Part | State | Operations | What is hard | What makes it correct |
|---|---|---|---|---|
| Rules (`rules.py`, `records.py`) | none: pure functions of what is stored | resolve an audience, party membership, attach, hide parents, thread roots, expiry, search | re-evaluated on every read against *today's* directory | who a message is for changes only where names and groups collide; expiry takes idle threads whole; every view derives the same threads |
| Mailbox (`mailbox.py`) | none of its own; the store | join, update_profile, send, reply, read, thread, purge | every operation looks, awaits, and writes what it decided from the look | nobody acts on what they may not see; mail waits until its reader deals with it |
| House (`house.py`, `policy.py`) | policies, listeners, the delivery collaborator | the public face: check, local half, remote half, tell the policies, announce | partial failure between the halves | the sender's copy is never lost; every recipient is accounted for |
| Retraction (`retraction.py`, `threads.py`) | rows of `objects` | retract a message, a thread | writes back a whole record it read earlier | a tombstone keeps its place; the report says what happened |
| Purge (`api.purge_forever`, the console's maintenance page) | its status | every interval: what is idle, removed; and on demand | races every request; must survive failing cycles and frequent restarts | nothing recent goes; everything idle goes |
| Storage (`sqlite_store.py`, `auth/store.py`) | tables, one connection each | one or two statements and a commit | coroutines share the connection, hence its transaction | what is reported done is on disk; the lock is handed back |
| Sending to a hub (`house.send`, `retry.py`, `delivery.py`, `outbound.py`) | an in-memory queue | one attempt inline, five retries, verdict, give up | timeouts that do not stop the request, attempts without a limit; crash; lost answers | at most one copy until a claim lapses; never says more than the truth; `queued` gets an ending |
| Receiving from a hub (`api.federation_inbox`, `inbound.py`) | `seen_activities` | claim, send, complete or release | overlapping attempts; crash between steps; cancellation | one delivery at a time, and delivered once, until the claim lapses |
| Trust (`peers.py`, `federation.py`, blocks) | peers, blocks, the switch | add, remove, block, switch federation | withdrawn between the awaits of an exchange | every attempt asks anew what its path asks |
| Hub settings (`hub_settings.py`, settings page) | a table, the environment | resolve, page, script, conditional write, signing key | pages outlive deployments; two first needs of the key | the key peers fetched stays good |
| Outward face (`visibility.py`, routes of `api.py`) | profiles, the mode | WebFinger, NodeInfo, actor document, directory | mode and profile are read at different awaits | a hidden name stays hidden |
| Listeners (`notify.py`, event streams in `api.py`) | a queue per connection | open, close, announce | cap is not a reservation; full queues drop; clients vanish | announced once per connection and in order; slots come back |
| Inbox and its bookmark (`api.inbox`, the clients) | the client's cursor | a page of waiting mail in four weights | ties in an instant, page cuts, old hubs | what the bookmark passed was shown |
| Replies (`mcp_client.py`) | none | look for the reply, then send it; a batch | answers lost after the hub stored | a repeated call stores nothing twice |
| Interruptions (`interrupt.py`, `mcp_client.py`) | what the gate remembers | consider an arrival, reconnect, settle trust | a stream lost and regained in a loop | the cap holds |
| Wake hooks (`wake.py`) | lock, watermark, processes | check, wait, poll, hold a stream, settle, wake | overlapping processes; a lock reclaimed by pid | nothing counts as told that was not; mail wakes |
| Console relay (`relay.py`, `backoff.py`) | one upstream stream, pages | start, stop, publish, subscribe | a thread and an event loop | pages that missed nothing show the line's state; the line comes back |
| Console (`console.py`, `client.py`) | nothing but the browser's cookie | pages and forms | sessions end, answers are lost, pages are reloaded | one click, one reply, by who clicked |
| Auth (`auth/`) | users, sessions, tokens, recovery codes | log in, enrol, mint, admit, revoke, spend | read-modify-write across awaits | a code is spent once; whoever a token let in is on its list |
| Merge (`merge.py`) | actors and users | create a human, adopt, rename | several rows in several steps | one identity at every crash point |
| Configuration (`client.py`, `cli.py`, `locking.py`) | two TOML files, two lock files | join, set, unset, decline, move from the legacy name | processes that die inside a lock; a background join with old values | one writer; identities survive; a chosen hub stays |
| Hook installation (`hookconfig.py`, `ignores.py`) | settings files shared with others | install, uninstall, ignore | versions and other people's hooks in one file | theirs stay, ours are there once |

Interactions: clients call the API, which calls the House, which calls the
Mailbox, which calls the Rules and the store. The House also hands each remote
recipient to the retrying delivery, which posts to the other hub's API; that
API calls its own House. Mailbox store and auth store are two connections to
one file. The House announces arrivals to the listeners, which the event
streams carry to the MCP server's gate, to waiting hooks and to the console's
relay. Each of these treats the stream as a hint and falls back to polling.

`PROJECT.json` lists the hazards of this code at the lines where they bite,
with the properties that watch them.

## 2. Modules

| Module | Models | Uses |
|---|---|---|
| `Rules` | `rules.py` as operators on a store and a directory | |
| `Mailbox` | the mailbox over its store: requests, the purge, restarts | `Rules` |
| `Reading` | what readers are shown of a store, and the withdrawal of a thread | `Rules` |
| `Courier` | abstract: what a hub promises of mail to another hub | |
| `Delivery` | sender, wire and receiver of federated mail | implements `Courier` |
| `Trust` | both directions of an exchange against lists that change | what `Delivery` takes as one switch |
| `House` | the pipeline of one attempt | |
| `Accounts` | operators: sign-in, enrolment, invitation, removal, and the startup that adopts them | |
| `Tokens` | device tokens and the record of whom they admit | |
| `HubSettings` | settings, their page, the signing key | |
| `Outward` | what outsiders are shown | |
| `Retention` | the purge loop's schedule, its status, the maintenance page | |
| `Listeners` | event streams | |
| `SqliteConnection` | how coroutines share a connection and two connections share a file | |
| `ProjectConfig` | the two configuration files under their locks | |
| `Hooks` | installers at shared settings files | |
| `Console` | a browser, the console, and who acts | |
| `Waker`, `Interrupts`, `Replies`, `Inbox`, `Relay` | what runs beside an agent or a page | |
| `Hub` | the hub's parts side by side | extends `SqliteConnection` and `Reading`; INSTANCE of `Delivery` (two), `Listeners`, `HubSettings`, `Trust`, `Tokens` (two), `House`, `Outward`, `Retention` |
| `Machine` | what runs on a person's machine, side by side | extends `ProjectConfig`; INSTANCE of `Hooks`, `Console` |
| `Desk` | that, and what runs beside an agent or a page, side by side | extends `Machine`; INSTANCE of `Waker`, `Interrupts`, `Replies`, `Inbox`, `Relay` |
| `MCMailbox`, `MCDelivery`, `MCAccounts`, `MCSqliteConnection`, `MCProjectConfig`, `MCTrust`, `MCRelay`, `MCHub`, `MCDesk` | small values for TLC | extend the module of their name |
| `...Proofs` | theorems | TLAPS |

**Side by side.** `Hub`, `Desk` and `Machine` hold instances of several
modules, with constants of their own. A behaviour belongs to one of them, named
by `part`, and leaves the variables of the others alone, so a run of such a
module is the union of the runs of its parts, and a property `part = "x" => X!P`
is P over X's behaviours. What a module assumes of its constants is its
definition `...Constants`, which the composite assumes of each instance
(`HubConstants`, `DeskConstants`, `MachineConstants`); the parts that a composite
extends instead assume theirs where they are declared. `Hub` has two deployments
of `Tokens`, a token that agents share and one that is bound (`Device(d)`), and two
of `Delivery`, mail that is retried and mail that names a recipient twice. `Desk`
extends `Machine`, so its behaviours are those of all the programs outside the hub.
Fairness is stated part by part.

**Mailbox.** `profile` is the `actors` table (who joined, and the groups a
profile lists), `objects` the `objects` table, `reads` the `reads` table, `age`
stands for `published` against the clock, `req[c]` for the locals of a request
in flight, `sweep[s]` for those of a purge. `sent` is history: messages as first
stored. Each handler is two actions, the look (`SendLook`, `ReadLook`,
`ReplyLook`, `ReplySend`, `ReplyMark`, `RetractLook`, `PurgeLook`) and the write
(`SendStore`, `MarkRead`, `RetractStore`, `PurgeRemove`), with everything else
free to run in between. The reads within one look are one step; the module's
header says why that loses nothing. A look that the code refuses is no step; a
request that ends early is `Abandon`. `Restart` forgets requests and keeps
tables. Each write is one transaction here; what really happens to transactions
is `SqliteConnection`'s subject.

A profile lists any names it likes as groups (`mailbox.py:241`), those of actors
included, and a group comes before an actor of that name (`rules.py:56`). Stored
audiences are resolved again by every read, so such a group takes over the mail of
its namesake. `listed` is history for this: who has listed which name of an actor.
The properties of the module name it as the one exception (`Shadowed`, `Insiders`),
and run `captured` shows it.

**Delivery.** One *copy* is a message, one remote recipient and one mention of it:
nothing removes a recipient who is named both in `to` and in `cc`, and the id of
what is posted is made from the record and the recipient's name (`delivery.py:227`),
so the two copies are one *activity*. `phase`, `tries`, `due` are the coroutine that
delivers a copy (`house.send` and `_keep_trying`), `word` what the sender was told,
receipt first and then the log; `post[c][k]` is the request of attempt *k* and the
handler that serves it at the peer; `claim` and `done` are the row of
`seen_activities`; `arrived` counts how often the message was stored. An attempt
that gets no answer (`NoAnswer`) leaves its request where it is, as `urllib`'s
timeout does. Trust is one switch, read by `Authorize` at every attempt.

Time bounds only what the code bounds. The 15 s of `outbound.py:182` limit one
socket operation, so a peer that sends a little at a time holds an attempt as long
as it likes (`Trickle`; `Held` says so, and the clock then passes it by). Nothing
bounds when the receiver reads a request, fetches the signer's key or finishes.
A claim may therefore be older than the lease while its handler is at work, and be
taken over (`Outlived`); a request may be cancelled after it stored its message and
give the claim back (`Cancelled`, `Release`: `api.py:1606`). Both put the activity
into `lapsed`, which is history: from there on the code promises nothing. A release
deletes, and a completion marks, whichever unfinished claim the id has by then, as
the two statements of the store do.

**Courier.** An activity arrives at most once, or more often once it has lapsed; the
sender says `delivered` only if it arrived; an ending is never taken back.
`Delivery` implements it with `word` mapped so that `refused`, `seen`, `unreachable`
and `stopped` are all `failed`.

**Accounts.** `account` is `auth_users`, `codes` and `sessions` the tables of
recovery codes and sessions, `actors` the types in the `actors` table. `req[c]`
holds what a request read before its await; `Write` is the `put_user` of
whatever it read, for login, enrolment and rotation (`BeginEnrolment`),
completion and password change alike. `boot` is the startup: `OpenHouse`
installs the residents and lists the accounts, `Adopt`, `LeaveColliding`,
`MoveCopy` and `MoveDrop` are the loop of `adopt_existing` with the two halves of
`_rename`, `BootstrapAdmin` ends it. `Abandon` is a request that fails between
two steps; invitations that break off so are remembered in `half`. An offer
stands for one authenticator and its recovery codes, of which the model has
one. Passwords, expiry times and `last_login` are left out.

**SqliteConnection.** An operation is a method of a store: statements, then a
commit if it writes. `writer` is the connection with the open transaction, and
the file's write lock with it, `pending` its rows, `disk` the committed ones. `Raise` is
a statement that fails, by a fault or by waiting for the lock longer than
`busy_timeout`; `Rollback` is the `except BaseException` of `_execute`, a step of
its own because it is awaited. SQLite and aiosqlite are external.

**Reading.** The same tables with small directories: `objects`, `reads`, a
sender between its look and its write (`draft`), a purge in one step, and a
thread withdrawal (`job`) that looks once and retracts turn by turn. `instant` is
the clock, `issued` counts the ids that were used; ids come in the order of
`Minting`, which is not that of the ids. The views are operators, each translated
from its own function: the one-pass `thread_roots`; `thread_tree`, a walk whose
waiting calls are an explicit stack (`calls`), with its missing turns and its bound
on nesting; the groups of `_threads`; search with its limit. All of them read the
store as a line in order of arrival (`Line`).

**Trust.** An exchange is one message out, resolved once and tried again, or one
in. `steady` is history: what has spoken against it without a break since the
attempt began; a step that drops an objection takes it out. The way out asks the
blocks, the switch and the peers; the way in asks the switch and the peers and
never the blocks (`api.py:864`, `api.py:1566`), so `DecidedAnew` asks no more of it,
and run `blocked` shows what follows.

**House.** `at` is how far `House.send`, `read` or `view` is; `receipts`, `log`
and `told` are what is said of it. `Cut` ends it anywhere. `deliverer` says
whether this house was given a delivery collaborator.

**Tokens.** A request goes from its header to `admit` and the two writes that
record it; `admitted` is the in-memory set of minutes, which `Restart` empties.
`sheet` is the operator's page, built by one call per token.

**HubSettings.** `env` changes at `Restart` only. `page` is a copy of what was
resolved when it was rendered, `put` a write between its check and the table.
`need` is a request that found no key and is minting one.

**Outward.** `ask` holds what a request from outside has read so far; `shown` is
history: an answer named somebody who was hidden all the while.

**Retention.** Minutes; `left` is what the loop has left to sleep; `page` is the
maintenance page from its preview to its report.

**Listeners.** `conn` tells a stream that was answered from one whose generator
has run, and a client that has left from one the hub has noticed. `owed` and
`dropped` are history.

**ProjectConfig.** `file` and `machine` are the parsed TOML files, `lock` the
two lock files with who created them, whether the claim was written and whether
it is old; `proc` is a process at a step of a command. `raced` is history: a
lock that a reclaim removed after somebody else had taken it, the window
`exclusive` admits to.

**Hooks.** `file` is what each harness's file parses to, event by event a set of
groups; `tmp` the temporary file all installers share; `op` an installer;
`wanted` what others put there; `crossed` the files at which two were at work at
once.

**Console.** `cookie` is the browser's, `page` what it shows, `request` a request
at a step of the console's handler (`Gate`, `WhoAmI`, `Call`), each a call to the
hub that may answer or not. `posted[k]` is what the hub stored for click k.

**Waker.** `hook` is each process of a hook with its role, what it read, and how
long it slept; `seen` the watermark files; `session` what the harness is doing.

**Interrupts, Replies, Inbox, Relay.** The gate's memory and the task that holds
the stream; a batch worked off item by item with requests that outlive their
timeouts (`flight`); each session's bookmark and the look an answer is made from
(`asked`); the relay's thread (`stage`), its loop (`posted`) and the queues of
pages (`feed`). An item of a batch whose message came before in it is reported as a
duplicate without asking the hub (`Repeated`), whatever became of the first. A page
that lost a change is in `missed`: the change came between its greeting and its
subscription, or found its queue full.

Operators under a comment that begins with "Mutant:" are not part of the
specifications: each is what a definition would be with a plausible bug, and
PROJECT.json names the property that then fails.

## 3. Runs

Every run that passes is exhaustive for its constants. Deadlock is not checked:
each system may come to rest (all ids used, all operations over).

| Run | Bounds | Shows |
|---|---|---|
| `audience` | 2 actors, one of whose names profiles may list as a group, an actor of another hub, 2 messages, 1 request | whom mail is for, who may attach to it, who is shown its parent and what takes it from an inbox change only where a group has an actor's name |
| `expiry` | 1 actor, 1 remote actor, 2 messages, 2 requests, retention of 1, fair purge | purges spare the recent and take threads whole; a retraction leaves a turn in place; every message is eventually removed |
| `accounts` | 2 names, 1 legacy username, 1 offer, 2 requests | accounts stay enrolled, codes are spent once, the removed stay gone, accounts and mailboxes go together, renames lose nobody, with crashes anywhere |
| `desk` | configuration: 2 processes, 2 engines, 2 hubs, 9 commands, 1 turn each, 1 crash, unlinks that fail; hooks: 2 installers, 2 runs, 1 edit; browser: 2 humans, 2 sessions, 1 click, 1 lost answer, a hub that enforces; wake: 1 engine, 2 processes, 1 message, waits of one sleep, no failed request; gate: cap 2 in a window of 2, 5 instants; replies: 2 messages, 2 bodies, 3 calls, cap 1; inbox: 1 session, 2 ids in 2 instants, page of 1; line: 1 page, queue of 1 | one writer per file, identities survive, a chosen hub stays, every command ends; others' hooks survive; one click is one reply, by who clicked, unless an answer was lost; nothing counts as told that was not, mail wakes a session that is waited for; the cap holds; a repeated reply is stored once; what a bookmark passed was shown; pages that missed nothing show the line's state, which comes back |
| `hub` | mail: 1 message to 1 recipient, waits of 0 and 1, timeout 1, lease 1, and 1 that names its recipient twice, posted once each; connection: 4 operations, all faults; streams: cap 1, 2 clients, queue of 2, 3 messages; settings: 3 environments, 1 page, 2 needs; trust: 1 origin, 2 exchanges; tokens: a shared one and a bound one, 2 minutes, 1 restart; pipeline: 2 local, 2 remote, 2 attempts; outward: 2 names, 1 request; retention: interval 3, settling 1, 1 failure; views: 3 actors, 3 messages, 2 instants | overlapping attempts, losses, cancellations and crashes: one handler at a time and the courier's promise until a claim lapses, and `queued` ends in a word; a stored row is lost only to a sibling's failed statement, the lock is handed back; streams hear everything once and in order, slots come back; the key settles; each path asks anew what it asks; who was let in is known; every recipient is accounted for; the hidden stay hidden; idle mail is expired whatever the restarts; views agree |

**Why the bounds suffice.** A property of `Mailbox` relates one message to its
parent and to one reader, and two steps of one request to the steps between
them. Two actors distinguish author, recipient and stranger; two messages give
a reply and its parent; one request racing the purge gives every look/write
race, since requests only meet through the tables, and `expiry` has two. In
`audience` the one name that may be listed as a group is an actor's, and is an
ordinary group for as long as that actor has not joined. There mail is kept for ever;
in `expiry` a retention of 1 makes ages 0, 1 (at the cutoff) and 2 (beyond).

For mail to another hub, two retries let a first attempt outlast a second and reach
the third, and a lease of 1 lapses while a handler is at work. A recipient named
twice is a second copy that meets the first one's claim; its run has one attempt
each, since two copies with retries take millions of states and the theorems cover
any schedule. `ClockBound` bounds when a send may begin and how long the clock runs
with no deadline ahead.

`accounts` has two requests, since its properties relate the look and the write of one
to what another did between; one person besides the admin, whose name is also what the
legacy username becomes, gives collisions; one offer is enough for a code presented
twice, and the proofs cover rotations. Where a run has one of a kind, a theorem covers
any number: streams registered at once, sessions with bookmarks, turns of a process at
a lock, copies of a message.

A lock needs two processes to be fought over and one death to be reclaimed; a
file needs two engines for one to evict the other. Two installers are enough to
overlap, two runs each to be of different versions. A browser's click meets one
lost answer, one sign-in as somebody else and any number of reloads. Two wake
processes of one engine give every order of reading and writing a watermark. A
window of two instants with a cap of two, over five, has the cap reached before
and after a reconnection. Two messages in one instant, cut by a page of one, are
the tie a bookmark must survive. A queue of one is full at once. Three messages
are the least in which a chain is walked past a message whose root is already
known, with ids out of their order of arrival; `MaxNest` 1 makes the bound on
nesting bite. A shared token with two claims and a bound one with a false claim
are the two kinds of presentation that can misattribute. An interval of 3 over
a settling time of 1 tells the first cycle from the others.

**Fairness.** `FairSpec` of `Mailbox`: the clock moves; `purge_forever` is an endless
loop that survives any exception of a cycle, so its look is weakly fair; a cycle may
fail or be cut off by a restart, but not every one, so its removal is strongly fair.
Nothing is assumed of clients. `Delivery`: the sender's event loop runs its timers and
its steps, and an attempt that the peer does not hold ends by its timeout; nothing is
assumed of the wire or the peer, and the property excuses an attempt that is held for
ever. `SqliteConnection`: an operation that began goes on; none has to begin.
`Listeners`: the event loop runs a cancelled generator to its end. `Retention`:
minutes pass and the loop takes its steps; the hub may be stopped at any time, and the
property speaks of hubs that keep staying up for the settling time. `ProjectConfig`: a
started command runs on until it ends or dies. That every command ends is stated as:
again and again, all processes are at rest; a process has finitely many turns.
`Waker`: a process runs on, and a turn ends; a process may be killed. `Relay`: the
thread goes on except inside a read, which may last for ever, and the loop runs
callbacks; nothing is assumed of the hub, pages or the network.

## 4. Disagreements

Each of these runs has TLC find a behaviour of the code that breaks something a
document or a comment of the repository says; `findings` in PROJECT.json quotes it.

| Run | Said | What happens |
|---|---|---|
| `late` | a death between claim and store costs a delay | the first retry hears `already seen` and the sender stops; all retries fall within 190 s, the lease is 300 s |
| `lastout` | the last account cannot be removed | two removals look, each sees the other operator, both remove |
| `contended` | stored: nothing can lose the sender's own copy | a statement that waited too long for the lock rolls back; another coroutine's row goes with it, and its commit succeeds |
| `captured` | a message reaches who was there when it was sent | somebody lists the recipient's name as a group, and the stored message is theirs |
| `blocked` | a blocked origin is refused, also inbound, even when it is a peer | inbound asks whether the hub federates and whether the signer is a peer; mail of a peer that was blocked later is taken |
| `untold` | every subscriber is told of every transition | a change between a page's greeting and its subscription reaches neither |
| `refusal` | declined hooks are not reinstalled, also not by join | a forced join writes the engine's entry without the refusal |

`late` runs with the schedule of `retry.BACKOFF`, the 15 s timeout and the
300 s lease; `untold` with a queue of 4 on which one page never falls behind.

More of the same kind show in the models and have no run of their own. Where a
definition states what fails, its name is given; TLC breaks it at the run's
bounds or at those noted with it.

*Mail.* A reply stored between the purge's look and its removal loses its beginning
(`ThreadKeepsItsBeginning`, `src/README.md:48`). A retraction writes back the record
it read before a purge removed it, as a tombstone (`mailbox.py:824`). Replies that
arrive while a thread is being withdrawn stay. `mark_read` may record a read after the
purge removed the message (`sqlite_store.py:463`). Of two concurrent retractions both
write, and the later mark stands (`retraction.py:114`). A commit of another operation
between the purge's two statements makes the first permanent, also when the second
fails (`kitty-specs/scheduled-purge-01KYGBQ4/spec.md:166`). A maintenance purge
removes what is idle when the button is pressed, not what the preview listed
(`PurgedWasShown`, `console.py:2091`), and two overlapping ones both report the same
removals. An attempt that a policy refused is told to no policy, the audit log
included (`EveryAttemptLogged`).

*Between hubs.* `already seen` may be said of a delivery that is still under way and
then fails (`outbound.py:208`). Until its claim lapses an activity is delivered once;
two ways lead there. An attempt, or a handler, that takes longer than the lease is
overtaken by the next, because the timeout limits a socket operation and not the
attempt (`outbound.py:182`, `peers.py:29`). A request that is cancelled after its
message was stored gives the claim back (`api.py:1606`), and the retry is delivered
again; whether the web framework cancels a handler there was not established, and the
code does not say what should follow. A recipient named in `to` and in `cc` at another
hub gets one activity id for two copies (`delivery.py:227`, `house.py:172`), and the
second is told `already seen` although it was never sent before: `outbound.py:208`
says that a fresh send can no longer collide with itself, and the sender's receipts
name the recipient twice, once delivered and once not. A block added while an exchange
is under way does not stop it, and resolving contacts a hub before the blocks are
asked (`federation.py:85`). Two first needs of the signing key mint two (`KeyKept`,
`delivery.py:139`). Whether the hub federates is read from the table alone, whatever
the environment says (`HonestAboutMode`), and a rename is not judged by a hub that
federates already (`OutcomeJudged`).

*Accounts and tokens.* A login under way when its account is reset writes the
old authenticator back (`auth/service.py:249`), and one under way when its
account is removed adds a session (`auth/service.py:313`). `_rename` drops the
recovery codes (`merge.py:280`). A token's record that fails is not tried again
in that minute.

*Agents.* A bookmark also passes what only a count told of, and what arrives
with a lower id in the instant it stands in (`BookmarkHidesNothing`,
`api.py:1112`). A reply whose first attempt is still on its way when the agent
calls again is sent twice (`SafeToRetry`). A second reply to a message within a batch
is reported as a duplicate, "handled there and not sent twice", also when it has
another body and when the first one failed (`mcp_client.py:1260`), where the tool's
description says `duplicate` when exactly that reply was already sent
(`mcp_client.py:1228`); `LedgerIsTrue` names these reports as those that assure
nothing (`Assures`). After a final status the next tool call
builds a new gate with a fresh allowance. Overlapping checks may announce a
message twice (`wake.py:10`). A session that went idle may be left without a
waiter (`SessionStaysReachable`, with a hook timeout of 3, waits of 2, settling
of 2 and slow polls of 2). An empty lock file that a waiter just created reads as
stale (`wake.py:496`). The relay's thread is not started again after a final status.

*Machines.* A token may be kept beside a hub other than the one it was minted
for, when a project pins one (`client.py:838`). Rewriting a project's file drops
tables it does not know. Overlapping installers share a temporary file and may
lose others' hooks or leave an empty file (`NothingCrossed`), and an append to
`.gitignore` may lose another's rule (`NoRuleLost`). A reply may be attributed to
the console where the hub does not enforce, or `whoami` fails behind a shared
token (`NeverAsConsole`); a composed message's answer is a page that sends again
when it is reloaded (`OneClickOneMessage`).

## 5. Proofs

`tlapm` checks every theorem for all values of the constants, under the named
assumptions of the modules (`MailboxConstants`, `DeliveryConstants`,
`ConnectionConstants`, `ReadingConstants`, `AccountConstants`, `ConfigConstants`,
`HubConstants`, `DeskConstants`, `MachineConstants`) and the hypotheses a theorem
states. The assumptions say what kind of value a constant is and which are told apart;
what more they ask (a wait, a page or a queue of at least one) is what the code
configures.

**RulesProofs.** Lemmas that the others rest on. Two stand in for induction:
`Climbing` (what holds at a number and passes from each to the next holds from
there on) and `Descending` (what holds of a thing when it holds of all that rank
lower holds of all). A walk (`IsWalk`) of as many steps as there are things, each to
a thing of lower rank or to itself, has stopped (`WalkEnds`, by the pigeonhole
principle), and `thread_root` is such a walk (`RootIsWalked`). So a thread has one
stored beginning (`RootIsStored`), and a reply is in the thread of its parent
(`ParentsThread`).

**MailboxProofs.** No hypothesis but `MailboxConstants`. `TypeCorrect` says, besides
the types, what a request holds at each stage (`PendingOK`). `PlaceInv` adds that
stored messages are the sent ones up to retraction, that what a request means to
write is (`WritesSound`), and that what a purge means to take is too old to be
spared (`DoomedIsIdle`); it gives `RetractionKeepsThePlace` and
`PurgeTakesOnlyTheOld`. `ThreadInv` adds that `inReplyTo` leads to earlier
messages (`Ranked`: finitely many, and a rank that falls from each to its parent)
and that a purge that saw a message and takes its parent takes it (`TakesReplies`).
That rests on `ParentsThread`, and gives `ThreadsAreTakenWhole`.

`IInv` joins these to what is known of names. Stored audiences, and those about to
be stored, are made of names of actors who joined; so resolving one again yields the
same actors, but for an actor whose name others list as a group (`Shadowed`) and those
who list the name of an actor it was for (`Insiders`, by way of the history `listed`).
No assumption keeps groups and actors apart, since the code has none, and the theorems
name this exception: `AudienceIsSettled`, `TurnsAttachByParties`, `ReadsAreByParties`,
`ParentsStayHidden` and `MailWaitsForItsReader`.

**DeliveryProofs.** No hypothesis but `DeliveryConstants`: nothing is assumed of how
long attempts and handlers take, of the lease or of the schedule, and requests may be
cancelled. The invariant `IInv` has, of each copy, *Posted* (an attempt has no request
before it posts one), *Truth* (what was said is so) and *Twin* (while no other copy of
the activity was sent and nothing of this one was read, there is no claim, so only a
twin makes a first attempt `already seen`); and of each activity whose claim has not
lapsed, *Handling*: one handler, which holds the claim, and a claim for as long as the
message is stored. The step that needs care is a claim that wins: either there was no
row, and then by *Handling* no handler and nothing stored, or it outlived the lease and
lapses. It yields `ClaimsExclude`, `TheStoredIsClaimed`, `SeenMeansRepeated` and
`Refinement`, the last by mapping each step to a step of the courier or a stutter.
`MailIsClaimedOnce` and `MailKeepsItsPromise` of `HubProofs` carry the first and the
last to the hub's behaviours.

**AccountsProofs.** No hypothesis but `AccountConstants`. `Inv` (types, what a
request holds, what a startup holds) carries three strengthenings. For
`ActiveAccountsAreEnrolled`: every row that a request has read and will write is
enrolled too, so a late write cannot break what it overwrites. For
`CodesAreSpentOnce`, `CodesAccounted`: an unspent code is the row of one user or on
its way there by one request, and was never admitted; most steps are `Quiet`, and
three are not. For `MailboxesAreOwned`, `MailboxesKept`: through a startup each
account has its mailbox or is yet to be adopted, or is the copy of a rename in
progress. `RemovalIsFinal` and `RenamesKeepEveryone` are about steps: only seven
actions write an account (`AccountWriters`), and during a rename the copy equals
the original until the original goes.

**ReadingProofs.** No hypothesis but `ReadingConstants`. The inductive invariant
`IInv` has the types; that a message, a draft and what a retraction writes back
answer only what was minted before them (`RepliesLater`), so that `inReplyTo` has no
cycle, whatever a purge took meanwhile; and that what a withdrawal looked at is
still to be done, withdrawn or refused, each once (`JobAccounts`). From it, part by
part of `ViewsAgree`: a line of messages has each once (`InLine`, from the number of
those before it, since instants and ids order them strictly); the one pass finds
what a walk from each message finds, also when it meets a message whose root it
knows (`RootsAgreeAll`); an inbox by conversation partitions what waits, because a
climb among what waits stays in one thread (`GroupsPartitionAll`); a hit of a search
opens (`HitsOpenAll`); a withdrawal's report accounts for every turn
(`ReportsAccountFor`). The page of a thread is the longest argument: what holds of
the rows so far and the calls that wait (`Walking`) is kept by every call, and every
turn is reached because the one it answers is (`WalkingCovers`, by `Descending`), so
the fallback for turns that no walk reached never has anything to show
(`TreeIsWholeAlways`). `TheViewsAgree` puts them together; `TheViewsGoOnAgreeing`
carries it to `Hub`.

**HubProofs.** One inductive invariant for each part, and one theorem of `Hub` for
each invariant and action property its run checks.

*The connection.* `LossNeedsARollback` has no hypothesis: whatever
raises, is cancelled or crashes, a row whose caller was told it is stored is on
disk, unless another operation of the same connection had a statement that
failed. The invariant follows a row from its statement to its commit: it is in
the open transaction, which then is its own connection's (`OneHolder`), or on
disk, or such an operation exists (`Kept`); and an operation that failed before its
last statement stays so (`Staged`), so the excuse is permanent. `DoneStaysDone`
adds that if no statement fails (one connection, no fault but a commit that
raises), nothing is lost at all. Run `contended` shows what a statement that
waits too long does without any fault. `OnlyRollbacksLose` carries the first to
`Hub`.

*The other parts.* `ListenersInv`: what a stream was sent and what its queue holds is
what it was owed without what was dropped, each once and in order, and the registered
streams are within the cap; it gives `StreamsAreToldInOrder` and
`StreamsStayWithinCap`. `TheKeySettles` is about steps: a stored key is replaced only
by a first need of it that overlaps another. `TrustInv`: what an exchange has been
asked about is no longer among the objections that held since its attempt began
(`Questioned`, `StillHolds`); it gives `TrustIsDecidedAnew`, which for mail that comes
in speaks of the switch and the peers only. `TokensInv`: whoever was let in is on the
token's list, or a request on its way to record it exists, or that record failed or
was lost to a restart; the page, built call by call, shows what was on the list when
it began. `HouseInv`: from the resolution on every remote recipient was resolved or
has a receipt (`Covered`), and all have one once the attempt was answered
(`Receipted`). `OutwardInv`: what a route has read includes whoever was visible all
the while (`ShownFrom`), in the order in which it reads.

**DeskProofs.** The same for `Desk`. `WakeInv`: what a watermark holds, and what a
hook that is about to save holds of it, was told or is about to be printed
(`FileIsTold`, `KnownIsTold`). `GateInv`: the gate remembers the last interruptions
as far as the cap reaches (`Remembers`), so one more is at least a window after
the one a cap's worth ago, and no window holds more than the cap; this also across
reconnections. `ReplyInv`: a reply never looked for too early has been stored once,
is on its way once, or is about to be sent for the first time (`Once`), and a post
past its store is stored (`StoredFollows`). `AskInv`: a question that will move a
bookmark found all that waits, but what is excused and what arrived in a later
instant than anything it found (`AskedLately`); a page is the oldest of it, so the
bookmark stays before what was left out. `LineInv`: what is on its way to a page,
applied in order, ends in the line's state, whatever the page's queue drops
(`PageRight`).

**MachineProofs.** One theorem of `Machine` for each of the same kind.

*Configuration files.* No hypothesis but `ConfigConstants`; any number of
processes, turns and crashes, and locks that cannot be unlinked. The exclusion of
the lock files rests on a view of one process at a time: in a turn it may still
claim a lock (`Pending`), claims it (`Claiming`, from the file it made to the end
of the block, whether or not the file is still its own), or is `Past` it for
good. Every lock file was made by a claim that goes on or is past, past if it has
grown old or was judged abandoned (`LocksAccounted`, `JudgedArePast`), and, unless
the lock was raced, whoever claims finds the file its own (`ClaimsHold`): a sweep
of a claimed lock would be a sweep of one that was not judged. That yields
`OneWriterAtATime`; run `desk` reaches no raced lock (one turn per process), so
the theorem, not the run, is what covers repeated reclaims. On top of it
`IdentitiesAreKept` (what a holder will write has everybody who is recorded, and
goes where the file in force is: `FilesKeep`) and `ChosenHubsAreKept` (a join
about to write found no other hub: `JoinsDefer`). `TheFilesAreKept` carries
the three to `Machine`.

*Hooks and forms.* `HookInv`: the settings file of a harness, the text an
installer is about to write and the temporary file it is about to rename each
parse, have the hooks of others that should be there, and one of ours for every
event or for none (`Sound`), for each shared file at which no two installers
overlapped; section 4 has what becomes of the others. `ClickInv`: a page that
would submit a reply again, and a request that is about to post it, hold a click
whose reply is not stored, unless an answer was lost (`Resubmitted`, `UnderWay`);
and where the hub enforces, what was stored is from whoever the session belongs to.

**How far this prover goes.** Induction is done with the least counterexample
(`Least`: `<` is well founded on Nat), since the library's induction theorems take
an operator, which the provers cannot instantiate; `Climbing` and `Descending` take
a set in its place. Recursive functions are therefore within reach, also one that
passes over a whole store, and RECURSIVE operators are not: no module here declares
one. An INSTANCE has its own copies of the operators of `FiniteSets`; lemmas named
`...Count` say that they are the originals, so that the library's theorems apply.

**Only model-checked.** Liveness (`EveryMessageExpires`, `QueuedGetsAnEnding`,
`LockHandedBack`, `SlotsComeBack`, `RetentionRuns`, `CommandsEnd`, `MailWakes`,
`LineComesBack`), which rests on fairness and so on ENABLED, beyond this prover.
Every other property of a passing run is stated by a theorem. The properties that
the failing runs refute have none, of course, nor do the definitions of section 4.

## 6. Not modelled, and the plan

Not modelled, with the reason, in PROJECT.json's `components`: prompts and other
text, names and addresses as text, the name pool, the wire format, signatures
and key formats, the release gate and deployment tools. Within the modelled
parts: HTTP routing and error bodies, WebFinger's documents, the fetching of
peers' descriptors, the login throttle, passwords and one-time codes, schema
migrations, the opening of stores, charts, layout, and the wording of notices.
These are conversions, cryptography or input and output without an order of
events of their own, or a counter (the throttle) that a test reaches as well.

Two hazards have no property: `remove_objects` commits in the middle, which the
code makes no promise about, and a purge of more ids than a statement takes,
which depends on how SQLite was built.

Theorems worth proving next: that a maintenance purge takes nothing its preview did
not show unless that became idle since; type correctness of the parts of `Hub` and
`Desk` whose invariant does not contain it; and that with the schedule and the lease
of the code no claim lapses as long as no attempt is held, no handler outlives 20 s
and none is cancelled.
