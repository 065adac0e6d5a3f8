# A verification of Remnawave Admin

Remnawave Admin is a web panel, a Telegram bot and a node agent on top of a
Remnawave panel. This directory holds TLA+ models of the parts whose
correctness depends on the order in which coroutines, processes, messages and
failures meet, the TLC configurations that check them, and TLAPS proofs.
Paths below are relative to the repository.

## 1. The system

| Component | State it keeps | Operations | What is hard |
|---|---|---|---|
| Agent command channel (`web/backend/core/agent_manager.py`, `api/v2/agent_ws.py`, `node-agent/src/ws_client.py`) | `_connections`: node -> WebSocket; one lock; one handler coroutine per WebSocket | register, unregister, send_command; connect, break, reconnect | an old handler finishes after a new connection is there; sends on dead sockets; an `await` under the lock |
| Delivery of throttled addresses (`core/throttle_sync.py`) | `_pushed`: fingerprint of the list last sent to each node | push_throttles, forget_node, the minute loop | several coroutines push at once; what was sent may be lost or refused; the panel restarts |
| Agent shaper (`node-agent/src/command_runner.py`, `shaper.py`) | `_shaper_general`, `_shaper_personal`, `_shaper_loaded`, `_shaper_state`; the eBPF program and its maps in the kernel | sync_throttled_ips, set_shaper, scripts | memory and kernel diverge when a script fails, is cancelled or outlives its command |
| Soft block (`shared/throttle.py`, `shared/db/violations.py`) | a row of `user_throttles`; the user's squads in the Remnawave panel | apply_throttle, lift_throttle, cleanup of expired rows | two stores without a transaction, three processes |
| Outbound mail queue (`core/mail/outbound_queue.py`, `shared/mail_queue.py`) | rows of `email_queue` | enqueue, the worker, retry, cancel, clear, cleanup, bounces | the worker goes on with copies of the rows; crashes in the middle of a delivery |
| Terminal sessions (`core/terminal_sessions.py`, `api/v2/terminal.py`, `pty_provider.py`) | sessions by id and by node, cool-down, shells on the node | create, close, idle cleanup, streams both ways | takeover of an idle session, close commands that get lost |
| Command log and scripts (`api/v2/scripts.py`, `core/task_scheduler.py`) | `node_command_log`, scheduled tasks | run, schedule, result, resolve on reconnect | results and sends that are lost, a minute that is skipped |
| Webhooks (`core/webhook_security.py`, `api/v2/webhooks.py`, `shared/webhook_outbox.py`) | `webhook_subscriptions` with a count of failures, `webhook_retry_queue` | fire, attempt, count, disable, retry; switch on and off, delete, redeliver | rows are deleted before they are tried, parallel deliveries count in one row |
| Violations (`api/v2/collector.py`, `shared/db/violations.py`, `api/v2/violations.py`) | the users waiting for a check, cool-downs, the batch in hand; rows of `violations` | enqueue, check, save, block, mark; resolve, annul, whitelist | one worker of many awaits beside operators; dedup against rows that wait |
| Automation (`core/automation.py`, `automation_engine.py`) | rules, pending actions, target locks | run a chain, store delayed steps, claim, check, act, finish | claim before the work, check and act, two writers of one account |
| Sessions, login guard, rights (`core/sessions.py`, `login_guard.py`, `rbac.py`) | sessions, revoked ids, failures | login, refresh, revoke | caches of revoked sessions |
| Agent collectors and sender (`node-agent/src/main.py`, `sender.py`) | buffers of connections and torrent events, the timer | collect, send in chunks, retry, stop | at-least-once delivery, overflow, a slow handler beside the retry |
| Collector API (`api/v2/collector.py`, `shared/db/connections.py`) | `user_connections`, `torrent_events` | store connections, then events; close what is old | two requests at once, one of several writes failing |
| Connection monitor, analysers, notices, guards | scores, windows | score, notify | mostly SQL and numeric scoring |
| Bot, notifications, plugins, support, finance, DNS, backups, frontend | their tables | dialogues and adapters | external services |

How they interact: the agent holds one WebSocket to the panel, over which all
commands travel. A soft block writes the database (ThrottleSquads); the loop
reads the rows into one list per node and sends it over the channel
(ThrottleDelivery over AgentChannel); the agent's runner turns the list into
kernel state (AgentShaper). Bot and web API share the database and nothing
else. The mail queue is a table that the bot and the API fill, one worker in the
web process empties, and the API, the bounce reader and a daily job change
beside it. The node's log reaches the collector as reports (Reports); the users
seen in them wait for the violation worker, whose verdicts disable accounts in
the Remnawave panel, write `violations` and start tasks of the automation
engine; the engine, its delayed actions and the operators write the same
accounts and rows (Enforcement). Events of all kinds go to webhooks (Webhooks).

`PROJECT.json` lists all components with what is modelled, and under "hazards"
everything found hard to test, each at its line.

## 2. The modules

### AgentChannel
One node's entry in the registry. The code keys everything by node and nodes
share only the lock, so one node is enough. Connections are numbered as they
are accepted. `handler[c]` is the program counter of `agent_websocket`:
accepted -> (replacing ->) announce -> pushing -> serving -> leaving -> done.
`register` is one step when there is nothing to replace (no await under the
lock) and two around `await old.close()` otherwise; asyncio's lock is
first-come-first-served, which is a guard of `RegisterFirst` and
`ReplaceBegin`. A send on a socket whose other end is gone is either swallowed
by the transport (`SendSwallowed`, the panel believes it) or waits (`stuck`)
and fails, and the failure pops the node's entry, whoever owns it by then
(`SendFails`). A send that a full transport holds up and that goes through after
all is left out; so is a handshake the agent gives up while its token is checked
(`_verify_agent`), which comes before anything is registered. All other commands of the panel are covered by `OtherSendFails`.
The receive loop ends because the link is gone (`NoticeDrop`) or because
handling a message raised (`HandlerBreaks`). The module has no Spec of its own:
it is composed.

### ThrottleDelivery (extends AgentChannel)
A list is a member of `Lists`: `push_throttles` only compares and sends it
whole. Each coroutine that runs `push_throttles` (the callers and one handler
per connection) has a program counter with a step between any two awaits:
`Fetch` (the query runs), `Decide` (compare with the fingerprint), `SendOk`,
`SendWaits`, `SendBreaks`, `GiveUp`. The database's answer is read at `Fetch`
and used after `Decide`, so lists can be stale. `Resync` is
`forget_node` + `push_throttles(only_node)` of a new connection. The agent takes
lists in order and applies or refuses each; a refusal is not heard of.
`PanelRestart` loses the registry, the coroutines and the fingerprints. A
`MaxChanges`-bounded counter limits changes of the list, `MaxRestarts` restarts.

### AgentShaper
`general`, `personal`, `loaded`, `saved` are the four attributes of
CommandRunner; `kernel` is what the node enforces: the program's settings, the
limits, whether the maps are pinned, and an epoch that flips with every install
(the penalties live in the maps of one install). `SyncThrottledIps` and
`SetShaper` run up to the first await; `ScriptOk`, `ScriptFails`, `Reload` are
the rest of the command. `Cancel` is the cancellation of the listen task by a
broken link: the script becomes an `orphan` that ends whenever it wants. Bound:
one orphan at a time. An orphan and the script of the next command work command
by command on the same filters and pinned maps, and both may exit 0, so scripts
that overlap leave any of `Mixtures`: each address as it was, free, or as one of
them says, and the program and the pins of any of them. The ghost `overlap` says
that two have met and one still runs; `sure` begins only with a full install
that ran alone. An update removes addresses with `|| true`: any removal may fail
while the script exits 0, and the ghost `stuck` remembers these addresses. A
failed install leaves what stood, everything, or no program with or without pins:
a half-attached program is not told apart from none or from the whole. A failed
update may have dealt with any part of its addresses. `Reload`, the fallback of
an update that finds no pins, happens only after something has gone wrong, and no
property speaks of those states.

### ThrottleSquads
One user (rows of different users are independent). `squads` is the list in the
Remnawave panel, `home` what an administrator gave, `row` the record. Each
coroutine of the bot, the web API or the automation runs `apply_throttle` or
`lift_throttle` one remote call per step; with `Faults` every call may fail
before or after it was carried out, and any process may die between two steps.
Restrictions of the environment: a reserve squad is configured and stays the
same, and nobody edits the user's squads while a soft block stands or is being
set or lifted. Rates and reasons are left out.

### MailQueue
`rows` is the table, `stage`/`batch`/`current` the worker. The worker's SELECT
runs outside a transaction, so its locks are gone at once and `batch` is a copy:
only `attempts` of the copy matters afterwards. Priorities are abstracted to any
batch of the right size. There is one worker (`start()` is guarded by
`_running` and the web process runs once). `Enqueue` is the one outcome of
`enqueue` that leaves a row; a suppressed address or the hourly limit leaves
none. Time is `next`, `stale`, `old`, each flipped by a step of its own. `raced`
is a ghost that remembers letters retried while the worker held their copy. Every
UPDATE of the worker may raise with or without having been carried out. The one to
'sent' stands inside the `try`, so a record that was made but not heard of is
followed by one to 'failed' (`RecordSentFails`, then `RecordFailure`), and while
attempts are left the letter goes out again. The properties name this way back and
admit no other.

`LetterLife` is what everybody but the worker may rely on: the life of each letter
(waiting, trying, delivered, given up, withdrawn, returned, removed), with a bounded
number of tries between two requests of an administrator, no try of a letter that
was given up or whose delivery the sender knows of (a delivery that it does not
know of may be followed by `Fail`, and that by another try), and a return only of a
letter with a recorded delivery. The mapping `Life` reads phase and tries off the row (`PhaseOf`: 'failed' is "given up" when no attempt is left and "waiting"
otherwise), the letters claimed by a pass off `batch`, and those touched meanwhile
off `raced`. It makes no difference there where the worker is, what its copies
say, or whether an UPDATE finds its row: that is what the refinement shows.

### Accounts, Detection, Automation; Enforcement composes them
`Accounts` holds what is shared: `status`, the account in the Remnawave panel
(external: disabling what is disabled, or enabling what is enabled, is an
error); `mirror`, the copy in the panel-admin's `users` table that
`Sync` brings up to date; `violations`, the table with its deduplication
(`Duplicate`, `Insert`), which the traffic monitor asks to be left out
(`dedup=False`), and its unconditional update (`Update`); the
`whitelist`; and the operator: resolving with a block in its two steps, closing,
annulling all pending rows of a user, whitelisting, enabling. `recent` is both
"pending" and "inside the dedup window"; a row leaves the window at any time,
the oldest first. `by` is the detector that saved the row. Comparison and insertion
are one step: that two detectors save for one user at the same moment, and both
insert, is left out. A call to the panel or the database that raises may have been
carried out (`CallFails`).

`Detection` is `_violation_worker`: `at` is its program counter, with a step
between any two awaits: take a batch, score it (any score: the analysers are not
modelled), read the statuses from the mirror, and for each violator save, disable
(the violator, then each accomplice), mark, and hand the violation to the
engine as a task that is not awaited (`events`). `SaveTorrent` and `SaveTraffic`
are the two other detectors that save violations: the torrent check of the
collector, always with the highest score (`Top`) and compared like the worker's,
and the traffic monitor, with any score and uncompared. With the settings at their
defaults neither blocks nor closes its row: it waits for an operator. They count as
moves.

`Automation` is one rule on `violation.detected` and the engine's loop. `task[v]` is the coroutine of
`handle_event` for violation v, `pending_actions` the table, `claimed` and
`item` what the loop has marked done and not carried out. The chain is a constant: warnings
and blocks, at once or delayed, for good or for a time. A stored row may become
due at once; `HandleEvent` takes the target's lock whether or not one had
expired.

`Enforcement` adds `Crash`: queue, cool-downs, worker, tasks and claimed rows
are gone, tables and panel are not. Three variables are ghosts: `ban` (the decision
that stands behind a block), `excused` (users some call for whom failed or was cut
short), `late` in a row (its step was called off before it was claimed).

### BoundedDelivery and Webhooks
`BoundedDelivery` is what a sender with retries promises of each item: a bounded
number of tries, none after it was delivered or dropped, and it does not stay
open. `Webhooks` is `webhook_security.py`: a delivery is a pair of webhook and
event, `at[d]` its place from the task of `dispatch_event` through the two
UPDATEs of `_bump_failure` to the queue and back, `batch` what the retry worker
waits for. The mapping (`Phase`, `Tries`) sends every place to none, open,
delivered or dropped, and counts an attempt once its answer is there; the property
`KeepsPromise` is `Promise!Spec`, liveness included. Ghosts: `harmed`, `off`,
`undecided` say which deliveries and webhooks a fault or the API excuses. A database call that fails may
have been carried out: the count may stand though the delivery does not know of it.

### Reports
The agent's main loop in realtime mode, `send_in_chunks` and `send_batch`, and
the handlers of `receive_connections`. Connections are numbered in the order of
the log. `at`, `start`, `attempt`, `awaiting` are where the loop stands in the
sending; `handler[h]` is a request in the collector, which lives on when the agent
has given up waiting for it. `BusyTurn` collects and, if the timer is `due`,
sends; `QuietTurn` is a turn with nothing new, which sends metrics only and starts the
interval anew, whatever the buffer holds. The polling mode is left out. A report
with more than `EventLimit` torrent events is not `Valid` and is refused on every
attempt (a `BatchReport` may hold a thousand; the agent puts all it has gathered into
the first chunk). `ChunkSize` is taken to be at most what a report may hold of
connections, 5000 (which is the default).

`LogTransfer` is what agent and collector promise together about the connections:
a log goes through a bounded buffer, arrives in order, leaves the buffer only when
it has arrived or is counted as lost, and a running agent throws away only the
oldest, and only when the buffer is full. Chunks, attempts, answers that come late
or not at all, requests that two handlers work on side by side and the loop's place
are gone there. The mapping `Transfer` takes the set of what the buffer holds; an
overflow is part of `Read`, the cut after a sending becomes `Release`, a death
`Restart`.

### Proof modules
`AgentChannelProofs`, `ThrottleDeliveryProofs`, `ThrottleSquadsProofs`,
`MailQueueProofs`, `AgentShaperProofs`, `WebhooksProofs`, `ReportsProofs`,
`EnforcementProofs`; see 5.

### Mutants
A few definitions say "(Mutant: ...)": they are plausible bugs, unused in the
specifications, that show each property can fail (`PROJECT.json`, "mutants").

## 3. The runs

| Run | Bounds | Shows |
|---|---|---|
| `throttle_delivery` | 2 connections, the loop and 2 handlers pushing, 2 lists, 1 change, 1 restart | RegisteredIsHandled, RegistryMovesForward, MarkIsLastSent, Converges hold |
| `agent_registry` (violation) | the same | RegistryTracksAgent fails |
| `agent_shaper` | 2 addresses, 1 rate, 2 settings | KernelFollowsMemory and PenaltiesSurvive hold |
| `shaper_empty_list` (violation) | the same | EmptyListClears fails |
| `throttle_squads` | 3 coroutines, 2 home lists and the empty one, faults | SnapshotIsHome, HomeOrReserve, SnapshotKept, StrandedOnlyByLoss hold |
| `squads_expiry` (violation) | 1 coroutine, no faults | ReserveHasSnapshot fails |
| `mail_queue` | 2 letters, batch of 2, 2 attempts, 1 retry, 1 crash | GivesUpWhenExhausted, InFlightUntouched, FinalIsFinal, Settles hold; implements LetterLife (LivesAsPromised) |
| `mail_cleanup` (violation) | 1 letter | CleanupSparesUnsent fails |
| `enforcement` | a watched user and an accomplice, 2 violations, 2 rules, 1 move of an operator, client or other detector, 1 fault or crash | PendingEscalates, NoHardLeftPending, HardVerdictCounts, TimedBlockHasEnd, CalledOffHonoured hold |
| `enforcement_ban` (violation) | 1 user, 1 violation, 1 rule, 1 move, no fault | BanStands fails |
| `webhooks` | 1 webhook, 3 events, 3 attempts, off after 2 failures, batch of 2, 1 move of the API, 1 fault or crash | NoneAtLimit, DroppedForAReason hold; implements BoundedDelivery |
| `reports` | 4 connections, 2 events, 1 event in a report, chunks of 2, 2 attempts, buffer of 3, 2 handlers, 2 faults | NothingForgotten, StoredInOrder, EventsOnce, DrainsWhenBusy hold; implements LogTransfer (TransfersLog) |

Why the bounds are enough: two connections are what a replacement needs, and the
third pusher (the loop) is what races both handlers; one change of the list with
an arbitrary list already on the node gives both a limit that must be lifted and
one that must be set. Two addresses tell "changed" from "left alone" in one
update. Three coroutines give an apply and a lift that interrupt another. Two
attempts tell the first failure from the last, and two letters a batch from a
single delivery. In `enforcement` two violations of one user meet in the dedup
window, both of the worker's or one of another detector's (three, with a row of the
traffic monitor between two of the worker's, are covered by the proofs), the rules `MCEnforcement` gives are the two shapes the engine's comments
recommend ("warn, then block for a time unless something changed", and a block
for a time at once), and one move or fault is what separates a promise kept from
one excused; a batch with two violators is not in the instance (the worker
treats them one after the other, as it does two batches), because it multiplies
the states. Its VIEW leaves out what nothing reads any
more: the mirror and whitelist entry of the accomplice, verdicts on violators who
were handled, and scores of closed violations. In `webhooks` three events let two
deliveries fail side by side while a third succeeds, with a first attempt, a
retry and a last one each; deliveries to different webhooks share only the
worker's batch. In `reports` a buffer of three overflows, a full buffer is two
chunks, two handlers let a retry meet its predecessor, and two events are one
more than a report may hold, while one alone goes through. The invariants and
action properties of all passing runs are proved without bounds, the liveness
properties are checked in these instances only.

`throttle_delivery` and `agent_registry` say `CHECK_DEADLOCK FALSE`: when the
agent has used its last connection and the list does not change any more, a
system at rest may stop. So do `webhooks`, whose events may all be settled, and
`enforcement`, whose worker waits at the bound on violations. Symmetry is used only in runs without liveness.

### What the violations show
* **agent_registry** - `unregister(node)` and the except branch of `send_command`
  drop the node's entry without looking whose it is. Connection 1 breaks, the
  agent reconnects as 2 and registers, then the handler of 1 reaches its
  `finally` and removes 2: the agent is connected, pinging and unreachable for
  commands until it reconnects. A comparison with the own WebSocket would do.
  What does hold is `EntryLostOnlyToThePast` (section 5).
* **shaper_empty_list** - the remembered list is replaced before the script has
  succeeded; a cancelled or failed update is never made up for by lists equal to
  the remembered one, and those are answered as applied. What does hold is
  `EmptyListClearsWhenSure` (section 5).
* **squads_expiry** - expiry deletes the snapshot and moves nobody back. What does
  hold is StrandedOnlyByLoss: besides this, only a failure, or a lifting that saw
  no snapshot (it began before the record was there) and deletes the record all the
  same, leaves a user behind.
* **mail_cleanup** - 'failed' is both "given up" and "waiting for the next
  attempt"; the cleanup takes both.
* **enforcement_ban** - when a timed block is over the engine enables the account
  without asking why it is disabled by then. An operator who resolves the
  violation with a block meanwhile (the panel's "already disabled" counts as
  success) sees his decision lifted.

What the passing runs show beside their properties: a torrent event is stored
twice only when an answer was not heard (EventsOnce names it); a failed write
of the connections is answered with 200 and is the one loss that is no fault of
the agent (NothingForgotten); what a failed sending has left in the buffer waits
for a busy turn (the premise of DrainsWhenBusy); and once more torrent events have
gathered than a report may hold, every attempt is refused, and neither events nor
connections leave the buffers until the agent starts anew (`Clogged`; without that
name DrainsWhenBusy is violated). A torrent's row that waits for an operator holds
the worker's hard verdicts of that user (the last disjunct of HardVerdictCounts). A
letter whose delivery was recorded unheard is sent again (FinalIsFinal). Scripts of
the shaper that overlap, and removals that fail behind `|| true`, may exit 0 with
a kernel that does not follow the memory (`sure` and `stuck` in
KernelFollowsMemory).

## 4. Fairness

* `ThrottleDelivery.Fairness`: the loop wakes every minute whatever happened
  before (`throttle_sync_loop` catches everything), so `Fetch` of a caller is
  weakly fair, and asyncio runs every coroutine that is ready (WF on the steps of
  pushes and handlers). `SendOk` is strongly fair: reading the token may fail now
  and then but not for ever, and a send on a live socket succeeds. The agent
  takes what it was sent (WF). No fairness on connecting, breaking, changing
  the list, erring handlers or restarting. The setting `throttle_enabled` is on. `Converges` only
  speaks of nodes that are healthy from some point on; what breaks the channel
  for good is the business of `RegistryTracksAgent`.
* `MailQueue.Fairness`: the loop runs every 10 s and survives every exception;
  a delivery ends (timeouts); time passes for backoff and staleness; the mark
  does not fail for ever (SF on `MarkSending`).
* `Webhooks.Fairness`: every task of a delivery goes on (asyncio runs it, and a
  request ends: httpx's timeout is per connect, read and write, so this trusts the
  receiver not to drip an answer without end), and the worker, which sleeps for seconds and
  survives every exception, claims what is due (WF). Nothing about the API, new
  events, or faults.
* `Reports.Fairness`: time passes, the sender posts, a handler goes on (WF).
  Nothing about turns of the loop: whether the log brings anything is the node's
  affair, so DrainsWhenBusy has turns that find something while the timer is
  ready as its premise.
* `Enforcement` states no fairness and no liveness: its worker waits at the bound
  on violations, so nothing it would promise could be checked honestly.

## 5. What is proved

All theorems hold for every value of the constants under the modules' named
assumptions (a non-empty number of connections, `NoConn` not a connection,
callers are not connections, `Empty` is a list and `NoMark` is not, the squad
values differ, `NoMail` is not a letter, attempts, limits and batch sizes are
positive, webhooks, events, handlers and accounts are finitely many, a rule's
main action is not delayed, watched accounts and accomplices are accounts, `NoUser`,
`NoRow` and `NoHandler` are neither users nor rows nor handlers).

* **Channel** (`AgentChannelProofs`). `ChannelInv` strengthens
  RegisteredIsHandled: `UsedInOrder` (WebSockets are used in order, one at a
  time), `LockIsReplacing` (the lock is held exactly by a handler that replaces,
  and there is something to replace until it is done - unregister and failed
  sends wait for the lock), `LaterWait` (whoever is still to register is later
  than the registered one and than the one registering). The last two are what
  makes RegistryMovesForward true: without the first-come lock it fails (that is
  its mutant).
* **Delivery** (`ThrottleDeliveryProofs`). Every step of the delivery is a step
  of the channel or leaves it alone (`StepsOfTheChannel`), so the channel's
  results carry over: `EntryHasHandler`, `EntryMovesForward`, and
  `EntryLostOnlyToThePast`: an agent that is served loses its entry only to an
  earlier connection to the same panel process, so never on its first one. The
  last needs `EntryInv`: connections follow one another (`OneAfterAnother`), and a
  send that waits does so on a connection of the past (`StuckIsPast`). `MarkKept` proves
  MarkIsLastSent with `DeliveryInv`: a push that succeeds writes list and mark in
  one step (no await between the write of a live socket and the mark), the agent
  only takes from the head, and a connection enters the resynchronised states
  only by dropping the mark. `TypeCorrect` is the type invariant. `QuietDelivers` is
  the safety half of Converges: once the mark stands for the wanted list and the
  agent has read what it was sent, nobody has anything left to do, and the node
  enforces the list or has refused it (`TakenIsApplied`). What TLC adds is that
  this state is reached.
* **Soft block** (`ThrottleSquadsProofs`). `Inv` adds to the two invariants that
  a coroutine holds a snapshot only in the states that use it
  (`LocalSnapshot`). `TypeCorrect`, `SnapshotSafe`, `SquadsSafe`, `SnapshotStays`.
  `StrandedByLoss` needs `MovesWithSnapshot` as well (whoever is about to move the
  user holds what he has read) and goes through the steps of an apply
  (`ApplyStrands`) and of a lifting (`LiftStrands`).
* **Mail queue** (`MailQueueProofs`). `Inv` says how the worker's copies relate
  to the rows: `WorkerInOrder` (it is at a row of its batch exactly while it
  delivers), `WaitingRows` (a row that waits for its turn is not recorded as sent
  and has the attempts of its copy, unless it was retried meanwhile), `RowInTurn`
  (the row at its turn is `sending` with one attempt more, or deleted, or carries an
  unheard record, and perhaps its bounce) and
  `MessageIdOfSent` (a bounce only meets a row that was sent). Without the
  second, closing a row by the count of the copy could not be justified.
  `TypeCorrect`, `GivesUp`, `InFlightSafe`, `FinalStays`. `ImplementsLife` is the
  refinement of LetterLife, all of it (that specification states no fairness). It
  adds `ClaimedOpen` to `Inv`: a failed row of the batch that has not had its turn
  has another attempt ahead, which is why marking it is a try LetterLife allows. A
  crash maps to a claim cut short, a row found stale to a recovery, and an UPDATE
  that finds no row changes no letter.
* **Agent shaper** (`AgentShaperProofs`). `Inv` says what a command under way
  knows: a script that installs was built from the memory (`FullInstall`,
  `SureInstall`), and one that updates turns what the kernel enforces into what
  the memory says (`SureUpdate`, which is where the difference of two lists must
  be right: `UpdateInstalls`), except for the addresses in `stuck`, which have no
  limit in memory; a script that met another knows nothing. `TypeCorrect`,
  `MemoryFollowed`, `PenaltiesKept`.
  With `ClearedIdle` it gives `EmptyListClearsWhenSure`: the claim that
  `shaper_empty_list` refutes is true, but for removals that failed unnoticed, as long
  as no script has failed or was cut off since the last full install that ran alone.
* **Webhooks** (`WebhooksProofs`). NoneAtLimit is inductive with the types;
  DroppedForAReason needs `OffIsKnown` (a delivery under way whose webhook is not
  active is one of those that were switched off). `RefinesPromise` shows that
  initial states and steps map to those of BoundedDelivery or to stutters: a
  first attempt, a retry and a crash each to what the promise calls try, accept
  or drop. `TypeCorrect`, `LimitHolds`, `DropsAreJustified`.
* **Reports** (`ReportsProofs`). `BufferIsTail`: what the buffer holds is the end
  of the log, so sets of connections are intervals and the sender's place is one
  number. `Accounted` says that what is in front of that place is stored or lost,
  `AwaitedPart` what the request it waits for carries, `RequestsInOrder` that no
  request in the collector, abandoned ones included, is ahead of it. Without the
  last, an abandoned request could store a chunk after a gap. For the events,
  `OnePlace`: until an answer is missed an event is in the buffer, in one request
  or in one row. `TypeCorrect`, `NothingIsForgotten`, `OrderHolds`, `EventsAreOnce`.
  `ImplementsTransfer` is the refinement of LogTransfer, all of it. Since the buffer
  is an interval of the log, cutting the sequence is taking the entries above a
  number (`CutOfHeld`, `SameCardinality`); `RequestsRead` (no request carries what
  the agent has not read) and `RequestsInOrder` make what a handler stores, or fails
  to store, an arrival or a loss in order.
* **Enforcement** (`EnforcementProofs`). `RowsStay` is what every step keeps of the
  violations (no row goes, changes its user or waits again), and what the
  claims of the other parts rest on. `Inv` adds to the types: `InHand` (the
  violators left have scores, the violation in hand exists and is about the user
  in hand), `RowsInv` (a stored action is about the user of its violation, and stays
  called off), `LoopInv` (the loop has a row in hand or has claimed nothing) and
  `TasksInv` (a violation is told to the engine once). TimedBlockHasEnd needs the
  last two: a second task for a violation would overwrite the one that still has to store the
  enabling. NoHardLeftPending is inductive with `BlockInv` (the violator is
  disabled before the accomplices); it speaks of the worker's rows only. PendingEscalates
  follows from `WaitingInv`: what waits in the window is pending (`RecentPending`),
  and the rows of all detectors escalate from one that was not compared to the next
  (`Escalates`, `Compared`), which is why comparing with the newest (`NewestIsLast`)
  is enough. HardVerdictCounts then says what swallowed a verdict: a row of the worker's own is
  excluded by NoHardLeftPending, so it is another detector's. `TypeCorrect`, `CalledOffStays`,
  `TimedBlocksEnd`, `PendingIsEscalation`, `HardIsNotLeft`, `HardCounts`.

Only model-checked: the liveness properties (Converges, Settles, DrainsWhenBusy
and the liveness in KeepsPromise - fairness and ENABLED are out of the prover's
reach). EmptyListClears, ReserveHasSnapshot, RegistryTracksAgent,
CleanupSparesUnsent and BanStands are false of the code; the theorems
`EmptyListClearsWhenSure`, `StrandedByLoss` and `EntryLostOnlyToThePast` say how
much of the first three is true.

## 6. Not modelled, and the plan

What comes next, in this order:
1. Proofs: how long a decision to block for good stands (what is true of
   BanStands); the safety half of the other liveness properties, as QuietDelivers
   is of Converges.
2. **TerminalSessions** on AgentChannel (the takeover
   of an idle session leaves two terminals on one node), the command log
   (`node_command_log`: an entry is logged as running before it is sent), or
   `user_connections` with the closing of stale rows (the second chunk of a
   sending closes addresses the first has reported).

Known hazards without a property have a note in `PROJECT.json`.

Most of the repository's lines are the frontend, the bot's dialogues, endpoints
that turn SQL into JSON, adapters and numeric scoring. They hold little state of
their own and no order of steps to get wrong, so the models cover a small share
of the lines: those where coroutines, processes and failures meet.

Left out for good: analysers (real-valued scores), dialogues and formatting of
the bot, adapters to external services, the frontend, migrations, parsing of
logs and mail. Of modelled components, `PROJECT.json` says part by part what is
left out (attachments and the hourly limit of the mail queue, the agent's reports
of penalties, the polling mode, the closing of stale connections, ...).
