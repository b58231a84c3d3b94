# A TLA+ development of pseudocoder-host

The host is a Go program that runs a coding agent in a pseudo-terminal and lets
paired mobile devices watch it, approve its commands, review its changes and
keep the machine awake. This directory holds TLA+ modules translated from that
code, the TLC configurations that check them on small instances, and proofs
that TLAPS checks for every value of the constants. Paths below are relative to
`src/host/internal/` unless they begin with `cmd/` or `src/`.

`PROJECT.json` is the index: the components, the runs, for each checked
property a deliberately wrong variant of a definition that must break it, the
source lines of each definition, the findings, the hazards and the theorems.

## 1. The system

| component | state | operations | what is hard |
|---|---|---|---|
| command approvals (`server/approval.go`, `handlers_approval.go`, `ApproveHandler` in `server.go`) | pending requests with a one-slot answer channel each, temporary allow rules, audit rows, chat items | `Queue` (one goroutine per HTTP caller), `DecideWithDevice` (one per device), expiry, hang-up | a decision is several unlocked steps and races the caller's timer and other devices |
| structured chat timeline (`structured_chat_controller.go`, `structured_chat_runtime.go`) | stored snapshot, revision counter per session | apply, merge of a provider's view, reserve a revision, load a snapshot | read-modify-write by hooks outside the lock; a counter that is not stored; restart |
| keep-awake control plane (`handlers_keepawake.go`, `server_setters.go`, `KeepAwakePolicyHandler`) | leases, timers, policy, status revision, saved config | enable, extend, disable, status, timers, disconnect grace, revocation, policy changes | two locks and a file; failing audits; rollback of a policy others changed meanwhile |
| review cards (`diff/poller.go`, `stream/card_streamer.go`, `actions/`, `storage/cards.go`, `storage/decided_cards.go`) | git index and tree, card rows, archive, hashes in memory | poll, validation at reconnect, accept, reject, undo, marking after commit | git is not in the database's transaction; three kinds of goroutine; crash |
| session output gate (`session_output_gate.go`, `pty/session.go`) | buffer and flags | callback per chunk, activate, drop | output read while the buffer is being drained |
| PTY session manager, ring buffer (`pty/manager.go`, `pty/session.go`, `pty/ringbuffer.go`), session requests and rows | the map of sessions, processes, the stored rows, the last lines | create, start, register, attach, close, exit, close all | create and start against close all; a close that waits for an exit; limits |
| hub (`server_broadcast.go`, `server_http.go`, `server_lifecycle.go`, `client_io.go`, the reconnect handler of `cmd/host.go`) | clients, two levels of bounded buffers | register, broadcast, replay, hang up, stop | full buffers, replay against the live stream, stop against a new connection |
| provider watchers, pipelines, readers, parsers (`*_session_watcher.go`, `*_pipeline.go`, `jsonl_tail_reader.go`, `gemini_file_tailer.go`, `*_event_parser.go`) | deadlines, the bound file, an offset, items and their index, a seed | discover, bind, follow, reset, seed, roll back, stop | goroutines that outlive their pipeline; files that rotate or are half written; whose file it is |
| chat prompts (`handlers_sessions.go`) | the one prompt in flight per session | begin, write, end, disconnect | several connections of a device |
| OS inhibitor (`keepawake/manager.go`) | handle, generation, state | set desired state, watch the handle, close | a slow acquire against close; stale watchers |
| repository commands and remembered results (`handlers_repo.go`, `git.go`, `idempotencyCache`) | the repository, a gate, a cache per connection | commit, push, fetch, pull, branches, pull requests, history | checks made before and used after a change; repeats; failures half way |
| pairing and devices (`auth/`, `RevokeDeviceHandler`, `cmd/devices.go`) | a code, attempts, device rows, connections | generate, redeem, connect, revoke | revocation in two processes and several steps; a sliding window |
| files (`file_ops.go`, `handlers_file.go`, `file_watch_poller.go`) | the tree, a snapshot of it | list, read, write, create, delete, poll | two sources of events about one file, and a tree that changes during a scan |
| config, storage schema, enrichment, codec, TLS, the other commands | mostly on disk | thin | listed in `PROJECT.json` with the reason they are not modelled |

How they interact: the CLI blocks on `POST /approve` in the approval queue,
which broadcasts to the hub and, by hooks, writes the chat timeline; provider
pipelines write the same timeline. A device's connection drives approvals,
keep-awake and card decisions; its loss starts the grace period of its leases;
its return triggers a replay (session list, chat snapshot, terminal history,
pending cards). The poller calls the card streamer, which a decision tells to
forget the file's hash. The PTY reader feeds the gate, and through it the hub.

The reader of an agent's file writes the timeline through the same controller
as the approval hooks; the policy and the leases drive the OS inhibitor; file
and repository requests share the connection's cache of results.

What makes each component correct is stated by its properties in section 3;
the `hazards` of `PROJECT.json` say, line by line, what could break them, and
also list what no property covers yet, with the reason.

## 2. The modules

A module's `VARIABLES` are commented with the Go field or table they stand for,
and an action is the code between two points where another goroutine can act:
a whole handler when it holds its lock throughout, one action per unlocked
stretch otherwise. Definitions marked "Wrong on purpose" are the variants the
properties are tested against; no specification uses them.

**ApprovalQueue.** A caller passes `idle -> register -> announce -> project ->
waiting -> (expired) -> done`, the statements of `Queue`; a device's
`DecideWithDevice` is `Claim` (take the request out of the map, under `q.mu`),
`RecordDecision` (audit), `ProjectDecision` (chat), `GrantRule`, `Answer`
(non-blocking send to the one-slot channel). `Receive`, `Expire` and `Abandon`
are the three branches of the caller's `select`, and any of them that is ready
may be taken. A rule that matches is copied under the lock (`MatchRule`), and
the caller is approved by that copy later (`AutoApprove`), when the rule may
have expired. Every decision asks the audit store to keep a row
(`RecordAudit`): the store takes it or refuses it, which the code only logs,
and the verdict is told all the same; `unsaved` (history) are the rows that
were refused. Commands are opaque.

**StructuredTimeline.** `Replace` is the load-diff-persist cycle under
`timelineMu` that `ApplyAuthoritativeTimeline` and `MergeProviderTimeline` end
in, and `Announce` the remove and upsert messages it returns. They are
broadcast after the lock is released: until then they are in `sending`, each
writer's in the order of their revisions, those of two writers in any. The
writers are the approval hooks (`LoadForPending`, `ApplyPending`,
`LoadForDecision`, `ApplyDecision`) and the goroutines of the pipelines:
`MergeProvider` for a line or a prompt; for a file that is read from its
beginning `BeginBatch` (a `chat.reset` or an empty snapshot, numbered by
`NextRevision`), `MergeBatch`, whose messages are dropped, `LoadBatch` and
`SendBatch`, the two halves of `LoadSnapshotMessage`. `ReadSnapshot` and
`RememberSnapshot` are the same for a session switch. `replica` is a client
that is sent all of this: `TakeChange` and `TakeReset` apply the gate "revision
greater than the last one", `TakeSnapshot` replaces the copy. It is external
code, modelled from the comment the numbering is written for. `missed`
(history, with `held`) is the latest change the copy was sent and lacks. The
order of items is abstracted: a timeline is a set.

**KeepAwake.** `ka.mu` is held for the whole of a client handler, a timer or a
revocation, so each is one action. The end of a connection is three actions
(`HangUp`, `CheckLast` under `s.mu`, `MarkDisconnected` under `ka.mu`), the
policy endpoint up to four (`BeginPolicy`, `PersistPolicy`, `ApplyPolicy` or
`RefusePolicy`, `RestoreConfig`), because it gives the lock up to write the
config file. Audit writes may fail everywhere; power readings are drawn when
the code takes one. A status revision accompanies each change of the leases.

**Inhibitor** is `keepawake.Manager`, which KeepAwake's `awake` asks to hold
the machine. `Enable`, `Acquire`/`AcquireFails`, `Adopt` or `Surrender` are
`SetDesiredEnabled(true)` around the slow start of a process, with the manager's
lock free meanwhile; `Disable` and `Released` are the other direction; `Close`,
`CloseReleased`, `CloseTimesOut` the shutdown. `Exit` is the process ending by
itself, `WatchHandle` the goroutine that notices, which acts only if its
generation is still the manager's.

**ReviewCards.** A file's content is a version, a diff is a pair of versions,
and a patch applies when the content it expects is there. `Poll`,
`ListPending`, `PruneRow`, `PruneSeen`, `Save`, `Remember` are the poller's
tick and the streamer's `ProcessChunksRaw`; `Visit` starts the reconnect's
validation, which shares the pruning actions. A decision is `Read`, `Apply`
(the transaction opens; git apply), then `Commit`, `Abort` or `LoseCommit`,
`RollBackLate`, `Archive`, `Notify`. Where a decision is taken back
(`RolledBack`), git may fail although the content is there (`NotRolledBack`):
that is only logged and leaves the patch staged. An undo is `ReadDecided`, `ApplyUndo`,
`RestoreCard`, `ForgetDecided`; `ListAccepted` and `MarkCommitted` are what
`repo.commit` does to the archive. Table operations may fail, the host may
restart at any step. `recorded`, `torn` and `undone` are history variables.

**OutputStream** is the abstract promise of a new session's output: once the
session is announced its chunks go out in order, each once; a session that
could not be created sends nothing. **SessionOutputGate** is the gate with its
two goroutines, and implements it under `state <- SessionState`.

**Hub.** `captureOutput` cuts the output twice: it broadcasts what it has
read, as it comes (`Emit`: a chunk of some lines and perhaps a part of one), and
then writes the complete lines one by one to the ring buffer (`Record`), each
with what was pending of it from earlier chunks; the end of the output writes
what is left (`Flush`). The output is numbered in pieces, which end where a line
or a chunk ends; a message, a line of `ring` too, is a span of pieces.
`runBroadcaster` copies a message into each client's buffer or drops it. A
connection is `Upgrade`, `Register`, `Greet`, `ReadHistory`, `Replay` (blocking
sends with a timeout), `StartReading`, and its end is `HangUp`, `EndReader`,
`EndWriter`, in any order with `Stop` and `CloseDeviceConnections`. `since` and
`settled` are history: where the replayed lines begin and end, and which pieces
are with the connection or were taken from it by a full buffer.

**Sessions.** An opening call goes `Create`, `Start`, `Save`, `Register` (a
tmux session: `Attach`, which has a check before it), a closing one `Close` to
`Done`; detaching from a tmux session with the kill flag is `KillSession` and
then `Close`, and others may close it in between. `CloseAll` takes the whole map
at once. `Exit` and `waitForExit` are the process and the goroutine that reaps
it. `Start` reads the clock, `Save` takes the store's lock later, so rows are
saved in any order of their times. `Retained` is the retention query: it orders
rows by the text of `started_at` (`Place`), in which the zeros at the end of a
fraction are trimmed and the host's own rows are in local time.

**Discovery.** `Candidates` is a watcher's scan (files near the launch, whose
first event is not before it), `Chosen` what each provider makes of several,
`Scan` one tick of the watcher: bind, go on, or give up at the deadline.
`SeedPrompt` restarts a discovery. The agents' files are external.

**Pipelines.** The objects are kept in sequences in the order of creation, so
that old ones are still there to misbehave. A thread (a connection's handler,
the terminal's output, a closing request) walks through `Ensure`, `Insert`,
`Seed`, `Watch`, `Write` and so on, or `Take`, `Stop`, `HaltReader`,
`AwaitReader`, `HaltWatcher`, `AwaitWatcher`; watchers bind readers and readers
merge, each checking the generation or the flag where the code does. `End`
removes the record of a prompt when the request ids agree, as
`endSessionPrompt` does; a device may send the same request again over another
connection, whose cache does not know it, and the two then share an id.

**Transcript.** One file, one reader, one parser. `Poll`, `DeliverLine`,
`ReadComplete` and `ReadFromBeginning` are the tail reader; `PollPartial` and
`PollWhole` the Gemini tailer, which reads whole files; `ParseEvent` is the
parser with its index of tool calls and its seed; `MergeReader` and
`MergePrompt` take items under the pipeline's lock and merge them later. An
event is a number with a kind; text matters only as "the seed's or not".

**RepoCommands.** A request is looked up in the connection's cache
(`Receive`), checked, enters by the gate (`Enter`), and acts step by step
(`HandleCommit`, `HandlePush`, `HandlePrCreate`, ...), every step of which may
fail; `Finish` remembers the result and answers. The repository is parent
pointers, branch tips, the checked-out place, a work tree and a remote.
`GetHistory` answers with an empty last page when HEAD has no commit, whatever
the cursor (`EmptyPage`, after `Orphan`), and when the `rev-parse` of the
cursor's parent fails.
`Edit`, `Detach` and `Elsewhere` are what happens around the gate.

**Devices.** Codes, `ValidateCode` with its window of attempts, a connection's
`ValidateToken` and `Register`, and a revocation: the command asks the
candidates in turn (`Revoke`, `AskNext`), each of which may be carried out by
the host (`Lookup`, `Close`, `Delete`) after the command has given up on it,
and deletes the row itself when none answers (`DeleteDirectly`).

**Files.** A write is checked against its base version (`Write`) and renamed
into place later (`atomicWriteFile`); a create makes the file and then fills it
(`Fill`); each announces itself (`Announce`). The poller looks at one path at a
time (`Look`) while the tree changes, compares (`Diff`) and announces (`Send`).
The client lists once and reads what it is told has changed.

**StructuredChat**, **HostSessions** and **HostServices** put several modules
together, for any values of their constants: the parts share no variable, the
initial state picks one and only that one moves, so the states of the parts add
up. Every property of such a module is a property of one part, and
`PartTypesOK` the type invariants of all. What two parts say to each other is
in the modules where it matters (KeepAwake's connections, Pipelines' merges,
Sessions' gate), not in the sum. The `MC*` modules give the constants of a run
their model values and small sets, and nothing else.

## 3. The runs

Deadlock is not checked: in every model requests, edits or output are finite,
and a system with nothing left to do stops.

| run | what it shows |
|---|---|
| `approval_queue` | `OneMobileVerdict`, the verdict a caller is told was decided and sent to the audit store (`VerdictIsAudited`), `NoStrandedCaller`, a rule that is used was granted and not expired when matched (`RulesWereGranted`), and that every accepted call returns (`EveryCallReturns`) |
| `structured_chat` | timeline: when nothing is on its way, a client that follows the revisions and lacks no overtaken change holds the stored timeline (`ReplicaFollowsStore`), every stored change moves the revision on, over restarts too (`RevisionCoversChange`). pipelines: nothing is merged by a reader bound before its pipeline was stopped (`StoppedReadersAreQuiet`), one prompt at a time (`OnePromptAtATime`). transcript: every line once (`EveryLineOnce`), results with their calls (`ResultsLand`), a prompt's bubble stays (`SeedIsVisible`) |
| `keepawake_leases` | `EveryLeaseHasItsTimer`, `RevisionCoversLeases`, `EveryLeaseEnds` |
| `host_services` | keep-awake policy: `InhibitorFollowsLeases`, `FailClosedHoldsNoLease`, `EndsAreAccounted`. inhibitor: no process is left behind (`NoStrayInhibitor`). devices: `AttemptsAreLimited`, and a revoked device has no open connection (`OpenAreKnown`). repository: repeats are answered and not run (`RepeatsAreRemembered`), checks hold when used (`ChecksStillHold`), pages make up the history (`PagesAreTheHistory`). files: `SeenIsKnown` |
| `review_cards` | once the poller has settled no card shows an old diff (`NoStaleCard`); the index holds exactly what is recorded as accepted (`IndexFollowsRecords`) |
| `sessions` | gate: `NothingLostOrReordered`, and it implements `OutputStream` with its liveness (`ImplementsOutputStream`). hub: history and live stream meet (`ReplayMeetsLiveStream`), a closed connection is forgotten (`ClosedClientIsForgotten`). sessions: `RunningIsTracked`, `EveryCloseReturns`, `MostRecentAreKept`. discovery: `EveryDiscoveryEnds` |

Six runs end in a counterexample; each is a disagreement between the code and
its own comments. `findings` in `PROJECT.json` has the quotations, and further
disagreements that were met while modelling, each with the exception a property
makes for it.

| run | counterexample |
|---|---|
| `approval_timeout` | a device claims a request, the caller's timer fires before the answer is sent: the device is told its approval was accepted, the caller is denied |
| `timeline_lost` | two approvals load the timeline, then both write it: the second write removes the first one's item |
| `timeline_reused` | a reset is numbered 2, a snapshot reader sets the counter back to the stored 1, the next write is numbered 2 as well and the client's gate drops it |
| `keepawake_dominance` | two requests enable keep-awake; the first is applied and a lease is granted; the second's audit write fails and it puts back the "disabled" it had read: the lease is live while keep-awake is disabled |
| `review_cards_missing` | a reconnect takes its diff, the file changes, a poll saves the card, the reconnect prunes it; the poller's hash says nothing changed, so the card never returns |
| `discovery_file` | two sessions of one directory: the file of the one prompted first also qualifies for the other, which is bound to it |

### Exceptions

Some properties name a situation they do not speak of, because the code does go
wrong there; a history variable marks it, and everything else is checked.
`StoppedReadersAreQuiet` leaves out readers bound after `Stop` has counted the
generation up; `OnePromptAtATime` prompts whose record was
removed by another connection of the device, by the session's end or by an
earlier handler of the same request (`cleared`); `RunningIsTracked` sessions closed before they were started
(`early`); `OpenAreKnown` connections registered after the sweep (`late`) and
rows the command deleted alone (`direct`); `ChecksStillHold` what was changed
around the gate; `EveryLineOnce` a file rewritten past what was read of it
(`hidden`); `SeedIsVisible` merges that overlap (`raced`); `ResultsLand`
rolled-back prompts (`undone`); `SeenIsKnown` changes of which no event is ever
made (`missed`); `ReplicaFollowsStore` a change that a later message overtook on
its way to the client, until the next snapshot (`missed`); `PagesAreTheHistory`
histories that ended because HEAD had no commit or `rev-parse` failed (`cut`);
`IndexFollowsRecords` files with a patch the error paths left behind (`torn`: by
a crash, a rollback that failed twice, or another acceptance before a late
rollback) and files an undo touched (`undone`). `ReplayMeetsLiveStream`
leaves out what was broadcast and not yet written as a line when the history
was read (`Between`): the rest of a chunk, and a line that is not complete.
`MostRecentAreKept` compares only clients' rows of different seconds: inside a
second the order of the texts is not that of time, and hosts' rows are in local
time. `EveryLineOnce` asks of Codex messages only that they are shown at most
once, since they are left out before the first task.

### Bounds, and why they are enough

- `approval_queue`: two callers, two devices, one command, `TTL` 1, time up to
  2, one rule expiry, one refused audit row. Two of each is what every race here
  needs; the rule expiring at 1 serves a second request when granted before and
  is dead when granted after. About a million states.
- `structured_chat`, timeline: an approval, two mergers (a reader and a prompt)
  beside the hook's two projections, two provider views that differ, revisions up to 3 and
  one restart: enough for the hook's two writes, a reset or an opening with its
  snapshot, a merge that sends two messages, and one writer's message
  overtaking another's. `timeline_lost` and `timeline_reused` have two
  approvals, one merger, three views and revisions up to 4.
  Pipelines twice, because the product is not feasible and the two show
  different things: two connections of a device with two requests, so that one
  may be sent again over the other, and one pipeline, two watchers
  and a reader; and one connection with a pipeline that is stopped and made
  again, two watchers and a reader. Transcript: three events, one prompt, one
  rotation, four of them together, for all three providers: enough for a call,
  something between, and its result, or a prompt, its echo and a reset. Over
  four million states in all.
- `keepawake_leases`: a device with two connections (a reconnect before the
  old one is noticed) and an administrator, two leases, durations 1 and 2,
  grace 1, all power readings, no policy calls. `host_services` has the same
  module with one connection and two concurrent policy calls. The two are
  separate because their product is not feasible, and the policy calls touch
  connections only through the leases both runs have.
- `host_services`, the others: five generations of the inhibitor (enable,
  disable and enable again, each with a stale watcher); one device, two
  connections and two candidate addresses, a window of two seconds in three;
  two requests out of all repository operations by two connections, a cache of
  one result, pages of one commit, two commits, so that the second request
  evicts, repeats or overlaps the first; one path with five changes by two
  handlers and the outside (one path, since no step of the poller or of a
  handler relates two but by order). Over a million states in all.
- `review_cards`: two files, three contents, two requests at a time, two
  edits, two calls, and two faults, each a failure of a table or of git or a
  restart, so that a decision's write and its rollback may both fail; symmetric
  in the files, the requests and the two contents other than the initial one.
  All properties of the run are invariants, so the symmetry is sound. Over four
  million states. `review_cards_missing` needs one fault at most.
- `sessions`: twelve chunks for the gate; five already exercise a batch, a
  refill during it, a chunk in the reader's hands and the open gate. Hub: one
  connection (clients do not touch each other's state), a send buffer of two
  messages, a broadcast channel of one and a history of one line, two pieces of
  output, so that both buffers overflow and the history forgets: a chunk of two
  lines, a line in two chunks, and a line with the beginning of the next.
  Sessions: two PTY sessions, or one and a tmux session, with room for one
  (whose calls overlap, so that saving is out of order), one earlier row and
  room for two rows, at 0, 0.5, 0.51 and 1 second, whose texts sort neither like
  their times nor, for the host's rows, in one zone. Discovery: one session and
  one foreign file, time up to 5, which is past every deadline. Liveness needs
  no symmetry; about 300,000 states.
- `discovery_file`: two sessions, time up to 4.

The bounds on time, revisions, leases, edits, calls, failures and boots are
named constants in the guards of the actions that would pass them.

### Fairness

- ApprovalQueue: weak fairness for the steps of a caller's goroutine inside
  `Queue` (the Go scheduler runs a runnable goroutine), for each device's
  `DecideWithDevice` once begun, and for the clock. None for arriving requests,
  decisions or hang-ups: people and tools owe nothing.
- KeepAwake: weak fairness for an armed timer and for the clock. None for any
  client.
- Hub: weak fairness for the capture's second statement, the broadcaster, and
  each connection's own goroutines (Go runs them); none for peers, new output
  or `Stop`.
- Sessions: weak fairness for a closing call under way and for the
  goroutine that waits for a killed process; none for requests, nor for a
  process to end by itself.
- Discovery: weak fairness for the clock and for each watcher's ticker.
- SessionOutputGate: weak fairness for the reader's forward and for the
  creating handler. None for new output. That the drain loop ends rests on
  output pausing at some time, which the bound on chunks supplies; a session
  that never pauses could keep `Activate` looping (a listed hazard).
- The other modules have no liveness property and no fairness.

## 4. The proofs

TLAPS proves the following for every value of the constants that satisfies the
modules' named assumptions: bounds are natural numbers, `None` is not a value
it stands beside, a set that must be finite is. An assumption that says more is
named with the theorem that needs it. Nearly every property needed a stronger,
inductive invariant; each was first run through TLC.

`ApprovalQueueProofs`:
- `TypeInvariant`: `Spec => []TypeOK`. `TypeOK` is not inductive alone; `Typed`
  adds that only submitted requests are prompted, pending or being decided,
  which is what gives an audit row its command.
- `FirstResponseWins`, `VerdictsAreAudited`, `CallersAreNotStranded`,
  `RulesAreGranted`: `Spec` implies always `OneMobileVerdict`,
  `VerdictIsAudited`, `NoStrandedCaller`, `RulesWereGranted`. They follow from
  one inductive invariant, `IndInv`. It says where a request can be (open in
  the map, carried by one device, answered in its channel, or settled), that
  these exclude each other, and which audit row each stage of the carrying
  device has already written. Without the stages, a device about to answer
  might do so for a verdict that was never recorded.

`KeepAwakeProofs`, over `KeepAwakeInv`:
- `TypeInvariant`, `LeasesHaveTimers` (`EveryLeaseHasItsTimer`),
  `HostFollowsLeases` (`InhibitorFollowsLeases`), `FailureEndsLeases`
  (`FailClosedHoldsNoLease`), and for each step `ChangesAreAnnounced`
  (`RevisionCoversLeases`) and `EndsHaveReasons` (`EndsAreAccounted`).
- That a timer is due no later than its lease does not carry itself over an
  extension, which moves the deadline: `InSchedule` says that the timer is
  armed for the deadline itself. `Live` never holds an id not yet handed out.
- The action properties need the invariant too: a lease whose timer fires is
  due only because timers are in schedule.

`StructuredChatProofs`:
- `TimelineInvariant`: `TypeInvariant`, `RevisionOrderIsWriteOrder`
  (`ReplicaFollowsStore`), `ChangesAreCovered` (`RevisionCoversChange`).
  `LoadsAreTimelines` is needed for the hooks, which write later what they
  loaded earlier. `Delivery` is the heart: there is a function `past` from the
  revisions to the timelines they stood for, such that each message on its way
  turns the timeline before it into its own, each snapshot is the timeline of
  its revision, a copy that lacks nothing, and for which nothing on its way is
  late, is the timeline of the last change or snapshot it took, and each stored change is in the copy, on its way, in a
  snapshot to come, or accounted missed.
- `CopiesFollowTheStore`: the same for the chat with all its parts, by mapping
  its steps to the timeline's.
- `PromptsComeOneAtATime` (`OnePromptAtATime`) and `StoppedReadersStayQuiet`
  (`StoppedReadersAreQuiet`), for both instances of Pipelines.
- `TranscriptInvariant`, for any number of lines, prompts and new files, and
  from it `LinesAreShownOnce` (`EveryLineOnce`), `ResultsLandOnCalls`
  (`ResultsLand`) and `SeedStaysVisible` (`SeedIsVisible`). `LinesInv` is the
  heart: while the reader has open the file the agent writes, there is a number
  `k` of lines it has taken; those between `k` and its offset are on their way,
  in order; what was kept of a half line is of the next; and the items are those
  of the first `k` lines, each once. `FreshInv` starts it: a reader that has
  read nothing shows nothing. `SyncInv` takes it from the items to the stored
  timeline, past merges that are under way. `LandInv` needs that the remembered
  index of a call is the place of its item, `IdsInv` that a bubble shows no
  line. The work is in lemmas about the parsers: one line changes one place of
  the list (`ParseEdits`), and a rebuilt file has each line once
  (`MessagesAre`, over the recursive function in `OwnLines`).
- `TypesOfChat` (`PartTypesOK`).

`PipelinesProofs`: `PipelinesInvariant`, for any connections and any number of
pipelines, watchers and readers. `Base` says which pipeline, watcher and reader
each call may refer to. `Alone`, which holds until prompts overlapped, says that
one prompt is handled at a time, that a pipeline knows the watcher and the
reader that run for it (or a prompt awaits the watcher's end), and that `Stop`
has not ended while a reader merges that did so before the generation moved.
`ThreadsAreApart`: a connection is not named like one of the two internal
threads, which are tags of the model.

`HostSessionsProofs`:
- `TypeInvariant`, `NoChunkIsLost` (`NothingLostOrReordered`): the gate's flags
  follow its handler. The inductive invariant `Order` adds `Quiet`: a batch is
  in hand only while draining, nothing is buffered once the gate is open,
  nothing is sent or in the reader's hands before. `NumberedAppend` and
  `NumberedHead` are about sequences of consecutive chunks.
- `GateImplementsStream`: `Spec => Promise!Spec`, the safety half of
  `ImplementsOutputStream`: a forward, from the batch or by the reader, is the
  abstract `Send` of the next chunk, a callback is `Read`, the handler's steps
  are `Decide` or stutter.
- `RunningTerminalsAreTracked` (`RunningIsTracked`), over `TrackInv`: a session
  that has been created and is not yet open is in the manager's map, or about
  to be stopped, or was let go before it ran.
- `NewestRowsAreKept` (`MostRecentAreKept`), over `RowsInv`, for any clock and
  any local time: of the texts only `TextAssumption` is known (that of a later
  second sorts later among UTC times, and no two are the same).
  `RetainedAreAbove`: when retention drops a row it keeps as many as it may, each
  with its text above that one.
- `NoLineFallsBetween` (`ReplayMeetsLiveStream`), over `HubInv`: the lines of
  the ring buffer are consecutive and reach up to what was recorded, a
  connection that joined is served until it shuts down, and each piece since the
  oldest line of the history it read is with it, on its way to it (replay,
  broadcast channel, send buffer), or taken by a full buffer or a timeout. What
  was broadcast and not yet a line when the history was read is the one
  exception.
- `TypesOfSessions` (`PartTypesOK`), from the invariants above
  and of Discovery: buffers, the history, the manager and the store keep their
  limits.

`ReviewCardsProofs`:
- `TypeInvariant`.
- `StagedIsDecided` (`IndexFollowsRecords`), over `IndexInv`: on a file that is
  not torn and that no undo touched, the index is what the record says, or the request whose transaction is open, or that has
  still to be rolled back, has staged it.
- `CardsAreCurrent` (`NoStaleCard`), over `PollInv` (what a scan in progress
  has read and not yet written is no older than the last poll) and `CardInv`.

`HostServicesProofs`:
- `NoProcessBehindTheManager` (`NoStrayInhibitor`), over `InhibitorInv`: while
  a call starts a process or gives one up again, the manager is not ON.
- `RevokedDevicesAreCutOff` (`OpenAreKnown`), over `DevicesInv`: a device is
  swept before it is deleted, so that a connection open then is a late one.
- `NoMinuteHoldsMore` (`AttemptsAreLimited`), over `AttemptsInv`: the limiter's
  counts agree, second by second, with what was let through. The sums over a
  window are cardinalities of finite sets, by induction over its seconds.
- `NothingMovesUnderTheGate` (`ChecksStillHold`), over `GateInv`.
- `ResultsAreRemembered` (`RepeatsAreRemembered`), over `MemoryInv`: the
  result of an executed request is in the cache as many places from its end as
  others were executed since, and a key under way is not in it.
- `PagesMakeUpTheHistory` (`PagesAreTheHistory`), over `PageInv`: the pages
  read so far are the first commits of the chain of first parents, all of them
  when the history has ended and was not cut, and the
  cursor is the last of them; a new commit lengthens chains only at the other
  end. That the chain exists as a function is `RecursionDefines`.
- `SeenFilesAreKnown` (`SeenIsKnown`), over `FilesInv`: what the poller has seen
  is told or waits in the scan's list.
- `TypesOfServices` (`PartTypesOK`), from the invariants above.

`DataInduction` holds what the library states with an operator parameter,
which the provers cannot instantiate: `SetInduction` and `StrongInduction` over
sets of numbers, from the library's facts about finite sets, the least and the
greatest element of such a set, and `RecursionDefines`: a function defined by
recursion on the numbers exists and satisfies its equation. No module declares
a `RECURSIVE` operator.

Assumptions that say more than "a bound is a number": `ThreadsAreApart` and
`ConnectionsAssumption` (connections are not named like the internal threads);
`RepositoryAssumption` (a connection is not `NoOne`, the branches `main` and
`pr` exist, caches and pages hold at least one entry); `RowsAssumption` and
`LimitsAssumption` of HostSessions (ids of earlier runs, of new sessions and of
the host differ, the rows earlier runs left fit the store, and time goes on
past the watchers' window), and `TextAssumption` of HostSessions (what was said
of texts above). TLC evaluates all of them in every run.

### Only model-checked

Every invariant and every action property of the runs is stated by a theorem.
What stays with TLC is liveness, since the provers reason neither about fairness
nor about `ENABLED`: `EveryCallReturns`, `EveryLeaseEnds`,
`ClosedClientIsForgotten`, `EveryCloseReturns`, `EveryDiscoveryEnds` and the
fairness half of `ImplementsOutputStream`. So do the runs that expect a
violation: a counterexample is its own proof.

## 5. What is not modelled

- Text: command matching, wording, diff parsing, JSON. Values are opaque.
- In ApprovalQueue: a host without an audit store.
- In StructuredTimeline: storage errors, sanitising, several sessions (the
  state is per session and `timelineMu` only serializes more); the downgrade of
  a provider the runtime cannot follow (`structured_chat_runtime.go`), which
  saves the session's row again, also one that was deleted meanwhile, and takes
  two revisions by `NextRevision`. Snapshots are taken by the client whatever
  their revision.
- In KeepAwake: the idempotency cache (a retry answered from it changes
  nothing); delivery of status messages, for which `RevisionCoversLeases` is
  the condition clients need; requests for another session, which are refused.
- In Hub: pings and deadlines (a peer that is gone is `HangUp`), input and its
  rate limit, messages other than terminal lines, the other replays of the
  reconnect handler (cards are in ReviewCards, the chat in StructuredTimeline).
- In Sessions: terminal input, resizing, renaming; a process that survives its
  kill.
- In Discovery and Transcript: the agents' formats; sessions of different
  directories, which do not meet; the date directories a Codex watcher walks;
  I/O errors other than "not there yet".
- In RepoCommands: the text of git and gh, their timeouts, merge conflicts;
  keep-awake's own cache, which also coalesces requests.
- In Devices: the text and comparison of codes and tokens; the socket the code
  is shown on; the approval token, one file written at start.
- In Files: refusals by path, size or content, links and directories, replayed
  requests, rewrites that keep size and time (the poller cannot see them).
- In ReviewCards: chunk decisions, binary, new, deleted and renamed files; two
  known weak spots are excepted from the properties rather than hidden: files
  an undo changed (it takes no lock), and files torn by a crash between git and
  SQLite, by a rollback that git fails or refuses both times, or by another
  acceptance before a late rollback.
- The components marked `not_modelled` in `PROJECT.json`.

## 6. Plan

1. Proofs: KeepAwake's `awake` as the abstract specification of Inhibitor, as
   a refinement in both TLC and TLAPS; the composed specifications of
   HostSessions and HostServices as refinements of each part's `Spec`, the way
   `TimelineRuns` does it for the chat.
2. Chunk decisions and untracked files in ReviewCards.
3. The keep-awake cache with its requests in flight.

## 7. Running it

    tlc -workers 2 -config MCApprovalQueue.cfg MCApprovalQueue.tla
    tlc -workers 2 -config MCHostServices.cfg MCHostServices.tla
    tlapm ApprovalQueueProofs.tla
    tlapm HostServicesProofs.tla
    tlapm StructuredChatProofs.tla      # about ten minutes

`PROJECT.json` names the module and configuration of every run.
