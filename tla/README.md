# Formal models of millibee

This directory models millibee, the personal agent gateway in `src/`, in TLA+.
`PROJECT.json` lists the components, the runs of TLC, the theorems checked by
TLAPS, the source lines every definition stands for, and the disagreements
between code and text that the runs show. All paths below are relative to
`src/`.

    tlc -workers 2 -config MessageBus.cfg MCMessageBus    # one run
    tlapm MessageBus_proofs.tla                           # one module of proofs

## 1. The system

| part | keeps | does |
|---|---|---|
| message bus, `pkg/bus` | two buffered channels, a read-write lock, a closed flag, handlers | publish and consume in both directions, close |
| agent loop, `pkg/agent/loop.go` | nothing of its own beyond a flag; drives everything below | `Run` consumes inbound messages one by one; cron jobs, heartbeats and the command line call it directly, at the same time |
| sessions, `pkg/session` | history and summary of every conversation, and a file for each | append, read, truncate, replace, save through a temporary file |
| summarizer and compression, `loop.go` | a set of sessions being summarized | a background goroutine replaces old messages by a summary; a context error drops half of the history |
| prompt context, `pkg/agent/context.go` | nothing | assembles the request and removes tool turns that are not well formed |
| message tool, `pkg/tools/message.go` | the current chat, and whether it has spoken in this round | sends; `Run` asks it whether to send the response as well |
| subagents, `pkg/tools/subagent.go`, `spawn.go` | tasks, a count, a lock | run tasks in goroutines that report on the inbound channel |
| provider fallback, `pkg/providers/fallback.go`, `cooldown.go` | failure counts and cooldowns of every provider | try candidates in order, skipping those that cool down |
| cron scheduler, `pkg/cron` | a table of jobs and its file | wakes every second, runs due jobs, is changed by a tool and by commands |
| cron tool, `pkg/tools/cron.go` | the current chat | adds, removes, enables jobs; executes them |
| cron commands, `cmd/millibee/cmd_cron.go` | a table of their own, for as long as the command runs | the same, on the file of a gateway that may be running |
| channel manager, `pkg/channels/manager.go` | the channels, which of them run | starts and stops them; its dispatcher takes outbound messages to them |
| console, `console.go` | a flag: the response was streamed | prints chunks as they come, and responses |
| SSH, `ssh.go` | by user: the connection, the chunk channel | a terminal program per connection, fed by two listeners |
| Telegram, `telegram.go` | by chat: the placeholder, the stream | edits a "Thinking..." message to parts of the answer, then to all of it |
| heartbeat, state, devices | the last active channel, and its file | prompt the agent from time to time; announce USB devices |
| gateway, `cmd_gateway.go` | all of the above | starts them in order, waits for the interrupt, stops them |
| tool groups, policies, limits, `pkg/tools` | a sliding window of calls | what a round is offered, and what it may call |
| file, shell, git tools | the workspace | write through a temporary file; run a command under a time-out; commit |
| skill search, `pkg/skills` | a cache with similar queries, a semaphore | asks all registries at once |
| skill installation | the skills directory, a mutex | downloads, extracts, judges and keeps a skill, or removes it |
| memory vault, `pkg/memory` | notes, an index made from them | saves, searches; the index goes into every prompt |
| credentials, `pkg/auth` | `auth.json`, sealed or not | login, logout, refresh in the middle of a call |
| routing, `pkg/routing` | nothing | which agent answers a message, in which session |
| configuration, `pkg/config` | `config.json` | model list, conversion of the old `providers` |
| migration, `pkg/migrate` | backups | copies a workspace and merges a configuration |

Components meet in five places. The **bus** joins channels and agent; the
subagents and the device service publish on it too. The **agent loop** is called
by `Run`, by the cron handler, by the heartbeat handler and by the command line,
each in its own goroutine, on the same sessions and tools. The **session** is
written by those rounds, by the summarizer they start and by compression. The
**store file** of the scheduler is shared by a running gateway and by commands.
And the **workspace**, its files, notes, skills and repository, belongs to every
round that runs, as `auth.json` and `config.json` do to every process.

What is hard is therefore mostly interleaving: of rounds, of a round and its
summarizer, of a handler and the tool that edits its job, of a publisher and
`Close`; then crashes between two writes; then waits that depend on each other.
Section 4 says which property is about which; the `hazards` of `PROJECT.json`
give the line of each.

## 2. Modules

| module | what it models | composed of |
|---|---|---|
| `FifoQueue` | what one direction of the bus promises | |
| `MessageBus` | `pkg/bus` with publishers, writers, consumers | implements `FifoQueue` twice |
| `MessageBus_proofs` | its invariants and the refinement, proved | `MessageBus` |
| `CronService` | scheduler, store file, run loops, crashes | |
| `CronTool` | additions in two calls, execution | `CronService` |
| `CronCli` | commands as processes of their own | `CronService` |
| `CronClients` | a gateway with both | `CronTool`, `CronCli` |
| `CronService_proofs` | the scheduler's safety, alone and with tool and commands, proved | `CronClients` |
| `SessionHistory` | sanitizing, truncating, compressing as operators | |
| `Histories` | any history, with the reference of what is sent of it | `SessionHistory` |
| `AgentSession` | rounds, tool turns, summarizer, compression, saves on one session | `SessionHistory` |
| `AgentSession_proofs` | that a session stays whole and histories are sound, proved | `AgentSession`, `Histories` |
| `AgentReplies` | who hears what: rounds on the shared message tool | |
| `Subagents` | spawning, the limit, reports, the lock | |
| `Subagents_proofs` | its safety properties, proved | `Subagents` |
| `Cooldown` | the cooldown tracker | |
| `Fallback` | both chains and the retry loop above them | `Cooldown` |
| `Fallback_proofs` | the tracker's invariants, that calls refine its specification, compression, proved | `Fallback` |
| `Gateway` | start and stop of the gateway, channel manager and dispatcher | |
| `Telegram`, `Ssh`, `Console` | one chat, one user, one terminal | |
| `Channels` | what the three promise together | `Telegram`, `Ssh`, `Console` |
| `Answers_proofs` | that replies go home and answers are seen, proved | `AgentReplies`, `Channels` |
| `Heartbeat` | the last channel: agent, heartbeat, their managers and file | |
| `ToolGuards` | tool groups, policies, sliding windows | |
| `FileTools`, `ShellTool`, `GitRepo` | writing files, running a command, committing | |
| `SkillSearch`, `SkillInstall` | the search cache; skills on disk | |
| `MemoryVault` | notes and their index | |
| `Credentials` | the credential store and all who change it | |
| `Routing` | bindings, session keys, reports | |
| `Config`, `Migration` | the configuration's keys and models; the workspace's files | |
| `Lookups_proofs` | that logins last, keys stay, the first provider starts, routes hold and the cache is sound, proved | `Credentials`, `Config`, `Routing`, `SkillSearch` |
| `Parts_proofs` | that files, commits, notes, skills, the last channel, a migration, the limits of tools and the start of channels are as promised, proved | `FileTools`, `GitRepo`, `MemoryVault`, `SkillInstall`, `Heartbeat`, `Migration`, `ToolGuards`, `Gateway` |
| `MCRounds` | what rounds share: providers and the message tool | `Fallback`, `AgentReplies` |
| `MCParts` | the safety of all that has no run of its own | 16 of the modules |
| `MCLive` | what must eventually happen in three of them | `Fallback`, `Gateway`, `ShellTool` |

`MC<module>` instantiates a module for TLC: sets and sequences that a
configuration cannot write, and symmetry where no property or action tells the
members apart. `MCRounds`, `MCParts` and `MCLive` put many modules into one run:
a behaviour is one of a single module, its *part*, which is chosen in the
initial state. That makes one run of many small state spaces, whose sum it
explores; nothing is composed. A property of a part holds trivially of the
others. Modules with theorems are extended,
so that the runs check the very definitions the theorems are about; in the other
parts their variables stay in one initial state. Where one instance of a module
would be too large a second one is instantiated on the same variables with other
bounds: `AgentSession` with turns of two calls, `Telegram` with a note of somebody
else, `Ssh` with a message of somebody else. The histories of `Histories`
have a variable of their own.

Conventions. A goroutine has a program counter; what it does under one lock, or
between two accesses of shared state, is one action. History variables, which
the code does not have, are marked *history* where they are declared. A
definition preceded by the words "faulty form" comes in two versions: the first
is a plausible mistake, is used by nothing, and is there to be put in the place
of the second, to see which property notices. Bounds are constants named `Max…`.
Names of people, files and messages are strings in `MCParts` and `MCLive`, and
model values elsewhere; no module looks into them.

### The bus

A publisher's call is RLock, the test of `closed`, the send, RUnlock; a writer's
is Lock, the change, Unlock. The lock is Go's: a waiting writer keeps new
readers out, a departing writer lets the waiting readers in. Messages are pairs
of publisher and number. A full channel parks its sender with the lock held;
a receive hands the sender's message over in its place. `Close` closes both
channels under the write lock, after which receivers get what is buffered and
then zero messages with `ok = true`.

### The scheduler

Times are small integers and the clock is `Tick`. The table, the file, and up to
two run loops (a `Stop` followed by a `Start` can leave the old one running for a
while) are state; every operation is under the service's lock and so one action,
but a save is split from it: `os.WriteFile` may fail or be cut by a crash, and
the lock is held until it returns. `executeJobByID` is two actions, with the
handler outside of the lock between them. A start that finds a torn file fails
and leaves the table empty; the first change afterwards replaces the file.

### Sessions

`SessionHistory` has messages with a number, a role and the tool calls they make
or answer. `sanitizeHistoryForProvider`, `TruncateHistory` and the cut of
`forceCompression` are operators on sequences. `Histories` has one variable, a
history that grows by any message, and compares what is sent of it with a
reference: the set of positions that count, each by the others that do. `AgentSession` has the state of
one session, its file, two rounds, the summarizer, and the requests that were
sent. Each call of the session manager is one action, since each takes its lock.
A summary is the set of messages it covers; a request is the sequence it is made
of, so that one can ask for gaps.

### Replies

Rounds are those of `Run` (of users, commands, and system messages), of cron and
of the heartbeat. The message tool's three fields are written one at a time, as
the code does without a lock. A call may name its chat, or leave it to the
fields; naming only half of one is left out.

### Subagents

`Spawn` and the end of `runTask` meet on the manager's lock. The tool loop of a
subagent is one step that may fail; the read lock it takes first to copy the
manager's settings is left out, because what follows waits for the lock again
and nothing shows in between. The inbound channel is a bounded queue; what
the bus does beyond that is in `MessageBus`.

### Fallback

The tracker keeps what is left of a wait rather than its end, which makes its
states finitely many and leaves time unbounded. Steps of the backoff are
constants, so that the theorems hold for the code's 1, 5, 25, 60 minutes and
5, 10, 20, 24 hours with a window of 24 hours; the runs use short ones of the
same shape (a longer table for billing, no step above the window). An error is
its classification and whether its text has one of the words the retry loop
looks for.

### Channels and gateway

`Telegram` is one chat. A handler sends "Thinking..." and stores it as the
chat's placeholder, overwriting another's; the stream of a round takes the
placeholder over, and its loop edits it on a ticker until it is flushed; the
dispatcher's `Send` loads the placeholder that is left and edits it to the
answer, or sends a new message. `placeholders` and `streams` are `sync.Map`s, so
a load and what follows are two actions. An edit lands when the API serves it,
which may be after the next one was asked for, or fails.

`Ssh` is one user with two connections. The maps have one entry for the user, so
the second connection takes the first one's place, and leaving with Ctrl+C
removes the entry of either. A listener reads one item of a Go channel and turns
it into an event; the program handles one event at a time and starts the next
listener. A full chunk channel drops the chunk; with a full response channel
`Send` waits, and fails in the end.

`Console` has the flag `streamed`, which `SendStreamChunk` sets and the next
`Send` clears, printing nothing.

`Gateway` follows `gatewayCmd` in its order: services in the order of their
start, channels under the manager's lock, the interrupt, and the stops. The
dispatcher takes a message, then the lock, then sends. The bus is its outbound
channel; `MessageBus` has the rest.

### Heartbeat, state and devices

Agent and heartbeat each have a `state.Manager`, which reads the file when it is
made; that of the devices only reads, and is left out. A save is: memory, temporary file, rename, with a crash possible
before each. The heartbeat has two timers, the first beat's and the ticker's,
that may overlap.

### Tools

`ToolGuards`: a round's request offers the groups its message names, those of
its calls so far, and two that are always there; a call passes the registry, the
policy and the window. `FileTools`: read, compute, write the temporary file,
rename, each an action; `truth` is what the answers add up to. `ShellTool`: the
call, the goroutine of `cmd.Wait`, the watcher that kills the group, the shell
and its descendants, which may leave the group or let go of the pipe. `GitRepo`:
a file is changed or not, staged or not; `/commit` reads the diff, asks the LLM
and commits, in three actions.

### Skills and memory

`SkillSearch`: the cache's lookup, its expiry and eviction are each under its
lock and so one action; registries answer or fail one after another, at most
`MaxConcurrent` at once. `SkillInstall`: every step that can fail (removal of the
old directory, download, extraction, the verdict, the file that says where the
skill is from) is an action of the tool, which holds its mutex, and of the
command, which does not. `MemoryVault`: write the note, scan, write the index,
by rounds and by the nightly rebuild, without a lock.

### Credentials, configuration, migration

`Credentials`: load, modify, write in place, by the gateway's calls and by
processes of the command; a refresh may bring a new refresh token and end the old
one, or not. With a master key the file is sealed, and a process that has another
key cannot open it. `Config`: a file is a model list or none, the keys of the
old providers, and the defaults; loading, converting, saving, the commands that
rewrite it, and what a start makes of it. `Migration`: the plan, an entry for
every file of which those that are not there are skipped, the question, then
backup and copy of each file in order, with failures and deaths, and new runs.

### Routing

The cascade is a list of levels, and the first with a match decides; session keys
are tuples. Links are a Go map, so where two of them name a peer either may
answer. Reports of subagents go to the main session of the default
agent, whichever session spawned them.

## 3. Environment and fairness

* A crash keeps files and nothing else. A rename is atomic; `os.WriteFile` is
  not: a crash in the middle of it leaves the file torn. `AddedIsDurable`
  therefore says nothing of the jobs of a torn file.
* LLM and tool calls return, with an answer or an error: the clients have
  timeouts and tools are cancelled. `CallsReturn`, `DueIsRun` and
  `LeavesUnlessCircle` assume this and weak fairness of every goroutine, which
  Go's scheduler provides. Strong fairness is assumed in one place, the end of a
  round in `Subagents`: the number of its tool iterations is bounded; and for the
  steps of the scheduler's run loop, whose lock is free again and again.
* The clock goes on (weak fairness of `Tick`) in the liveness runs.
* New messages, jobs and commands need never arrive; nothing is assumed about
  them.
* `PublishReturns`: `gatewayCmd` goes on whenever it does not wait for the
  interrupt, and the dispatcher, a goroutine, waits for nothing but the lock. The
  interrupt need never come, and nobody need publish.
* `ExecReturns`: the time-out fires, and the three goroutines of a call run. A
  process need not end, nor react to anything but the kill of its group.
* Services outside (the bot API, registries, OAuth servers, git) answer or fail;
  no liveness property rests on them.
* In the `bus` run a consumer is served until it has seen the channel closed, as
  `Run` and the dispatcher do while the gateway runs.

## 4. Runs

Every property is described above its definition. What follows is why the runs
are as they are.

| run | instance | shows |
|---|---|---|
| `bus` | 2 publishers, a writer that closes or registers a handler, both consumers, capacity 1 | no send on a closed channel, nothing lost by `Close`, both directions implement `FifoQueue`, calls return, what was accepted arrives |
| `cron` | 2 jobs, 2 run loops that may overlap, one crash (tearing the file), one failing save | recurring jobs stay armed, one-time jobs run at most once and nothing runs early, additions are durable, what is gone stays gone |
| `cron_clients` | 1 job, the tool's two-call addition, 1 command process, a crash, a failing save | what is gone stays gone unless a command wrote it back; a due job is collected and executed |
| `cron_cli_remove` | the same without troubles | *violated*: a job that a command removed is executed |
| `parts` | see the bounds below | the safety of sessions, histories, three channels, heartbeat, credentials, vault, skills, tools, routing, migration, configuration |
| `replies_swallow` | rounds of `Run` and of cron, 2 chats | *violated*: a user's response is withheld for what a cron job sent |
| `commit_nothing` | `GitRepo` of `parts` | *violated*: the hint of `/commit` is never given, and a commit is made under a message about nothing |
| `legacy_providers` | `Config` of `parts` | *violated*: a configuration of the old kind is not served by its own keys |
| `subagents` | 3 subagents, limit 2, inbound channel of 1, cancellation, a user's and a job's round | slots match goroutines, who has left has reported, to the chat of its own round; only the circle of waits keeps one from leaving |
| `subagents_stuck` | 2 subagents, user messages only, nothing is cancelled | *violated*: the circle of waits happens, and a subagent never reports |
| `rounds` | 2 callers, 2 providers, a step of 1 for ordinary errors, steps of 1 and 2 for billing; 3 goroutines, 2 agents, 2 chats, two rounds | waits are served and no longer, only a request that was too large costs history; replies go home |
| `live` | 2 callers on 2 models of one provider; a gateway with Telegram enabled or not; one command with 2 descendants | calls of the chain, publishers on a full channel and the exec tool return; no channel refuses a message only because it is still starting |

Some properties hold under a condition that is part of their statement, each
because without it the code does otherwise. The conditions, and what happens
outside of them:

* `NeverEarly`, unless `Start` was called while a stopped run loop was busy:
  then both loops run what is due (`service.go:105-132`).
* `OneTimeAtMostOnce` is checked of the scheduler alone. With the tool, a job
  that becomes due between `AddJob` and `UpdateJob` is executed without its
  command, and the copy written back restores the next run that `checkJobs` has
  reset (`tools/cron.go:205`).
* `GoneUnlessCommanded`: a command that saves the table it read earlier brings
  jobs back.
* `ClearIsFinal`, when no round, compression or summarizer holds a copy of the
  history at `/clear`. A summarizer that does stores the summary of the cleared
  conversation afterwards (`loop.go:1138`).
* `ConversationIsWhole` (order, and no gap in requests or in the file) counts what
  compression and truncation have dropped as dropped. Compression keeps the last message, not the last user
  message as `loop.go:928` says; truncation keeps the last four of the history
  as it is after the summarizing call, which need not be the four that were left
  out of the summary (`loop.go:1139`). A call of another round that is still
  being executed is sent without its result (`context.go:248`).
* `RepliesGoHome`, for a round of the default agent with no other round on
  its tools meanwhile. The message tool's chat and flag are shared, `Run` asks the default agent's tool also about
  rounds of other agents (answering twice), and about commands, which prepare no
  tool (answering not at all after a round that spoke). A job that goes through
  the agent is never answered, contrary to `tools/cron.go:330`.
* `ReportGoesHome`, unless another round has set the spawn tool's chat between
  the context and the call.
* `OnlyTooLargeIsCompressed`, for errors whose text has none of the words
  `token`, `context`, `length` unless they are about the size of the request,
  and for calls that are not cancelled (the error of a cancelled call is
  `context canceled`, which the retry loop takes for a context window error,
  `loop.go:678`).
* `AnswersAreSeen`. Telegram: for a round that was alone in its chat, none of
  whose edits came after the flush, which happens (`telegram.go:180-203`): then
  the last part shown stays in place of the answer. A second message in the chat
  replaces the placeholder of the first, whose "Thinking..." stays. SSH: for a
  user with one connection whom nothing else was sent; a second one takes over
  the first one's responses, and closing it leaves the first without any
  (`ssh.go:200`). Chunks the answer has overtaken may follow it. Console: for
  responses nothing came between; otherwise the flag swallows the message of the
  other (`console.go:80-119`), and also the error that ends a streamed round.
* `LastChannelSurvives`, but for a failing save and for a heartbeat since, which
  records the channel it knew at boot as the last one.
* `StillRefreshes`, while no two savings of `auth.json` overlapped and no answer
  of a provider was lost. Two that overlap lose a login or a rotated token
  (`auth/store.go:131`).
* `PromptShowsNotes`, unless since the last rebuild of a night two writers
  overlapped, one of them died, or a file was changed by hand. The nightly
  rebuild is what ends the exception.
* `InstalledIsWhole`, unless the command overlapped the tool or was killed. From
  GitHub a file that cannot be written leaves an empty directory, which the
  property lets pass.
* `CommitHoldsWhatWasSaid`, for commits whose index nobody else touched between
  the message and the commit; others hold what is staged by then.
* `FilesAreAsReported`: of two calls one of which writes between the read and the
  rename of the other, the earlier is lost (`edit.go:131-157`).
* `BackedUp`, without `--force` and `--refresh`, until the next run, which backs
  up what it finds over the older `.bak`.
* `RoutesHold`: where two links name a peer, either is taken.
* `StartsOnTheFirst`, when no provider is named, nor by the model. With one, its entry gets the
  user's model but keeps the provider's name (`migration.go:352-354`), so looking
  the model up by its own name finds nothing, and the agent does not start.
* `KeysStay`, but for `onboard`, which writes the defaults, and a command that
  dies while it writes.
* `PublishReturns`, with an enabled channel and until the gateway stops: with
  none no dispatcher runs (`manager.go:98`) and the outbound channel fills up.
* `ExecReturns`, unless a descendant that has left the process group holds the
  output.

Bounds. One slot in a channel and two senders make every send a possible wait,
and with the writer there is a reader, a waiting writer and a reader behind it.
Two jobs, one recurring and one not, and a clock of three ticks allow a job to
be due, run, fall due again and be edited meanwhile; no property is about more
than one job. Histories of six messages hold two tool turns, and a compression
with messages left over. Two rounds on a tool are enough for one to disturb the
other; a third would need a third value of a field to add anything. Three
subagents reach a limit of two, with a report queued behind another. The backoff
tables let one wait grow, and outlast the other; for longer tables there are
the theorems. The calls of `rounds` do not stream; a stream differs only in the
candidates that cannot, which `live` has. Its three goroutines have two rounds
between them, with two calls for the loop's and one for the others'.

`MCParts` and `MCLive` state the values of each module after `WITH` or in the
configuration. *Sessions*: a round without tools of each of two goroutines on a
history of four, two runs of the summarizer, one trouble (a failing save or LLM,
`/clear`, a crash); and two rounds of one, with two calls per turn. *Channels*:
two messages, one chunk each, and a message of somebody else (for SSH with one
message only); for Telegram also two chunks each; capacities of one.
*Heartbeat*: two rounds, two beats, one trouble, two days. *Credentials*: a call
and a command, two providers, three operations, three refresh tokens. *Vault*: a round and the
nightly rebuild, two notes, three saves, two days. *Search*: two searchers, two
registries, room for one query of three, two of which are similar. *Install*:
two rounds and a command, one skill, three operations. *Guards*: two rounds, two
calls a minute, a minute and a half. *Routing*: three lists of agents, two messages,
and lists of up to two of five bindings with one scope, or up to one with four
scopes and three tables of links.
*Git, files*: two rounds, one commit, three calls. *Migration*: two files, two
runs. *Config*: three providers with any keys, two commands. What the properties
relate is two actors, or a call and what it left for the next one; each instance
has room for that, and their mutants are found.

`CHECK_DEADLOCK FALSE` is set where the instance runs out of messages, jobs or
rounds and stops; the liveness properties exclude stopping too early.

## 5. Proofs

* **Bus** (`MessageBus_proofs`), for any publishers, writers and capacity. The
  properties are not inductive: that no one sends on a closed channel rests on
  every sender being a reader of the lock, on a writer in its critical section
  excluding readers, and on the places of readers, waiting readers and the
  writer being disjoint. `BusInv` says so. `ZeroOnlyAfterDrain` adds that what
  was accepted is what was received, followed by what is buffered and parked.
  The refinement, `Spec => Inbound!Spec /\ Outbound!Spec`, needs in addition
  that the senders parked on a channel are parked there and each once
  (`WaitInv`), so that the message a sender waits with stays the one it came
  with, and that nobody is parked while `Close` is at work. Every step is then
  one of accepting, delivering, shutting, or nothing, for each direction.
* **Fallback** (`Fallback_proofs`), for any providers and rising steps not above
  the window. The tracker's invariant bounds what is left of a wait by the step
  for the current count, which the next step is never below, and by what is left
  of the window, so that when the counts start over no wait is running. That no
  step exceeds the window is an assumption the code meets exactly: the longest
  billing step equals the window. A call touches the tracker through its two
  operations on providers of its candidates, so `Spec => TrackerSpec`, and the
  tracker's theorems hold under any number of concurrent calls.
  `OnlyTooLargeIsCompressed` (theorem `CompressedWhenTooLarge`) has the
  assumption `WordsTell`, that no retriable failure has the words of a request
  too large; without it the code compresses for such a failure. The invariant
  follows the words from an attempt to the error of the pass.
* **Replies** (`Answers_proofs`), for any goroutines, agents, chats, rounds
  and calls. Rounds meet in the fields of a tool. The invariant says of a round
  that is alone on its agent what the fields hold at each of its steps, and that
  what is published so far is of rounds and calls that are over or in hand; of a
  round that has ended it keeps what its end showed.
* **Sessions** (`AgentSession_proofs`), for any goroutines, rounds, tool calls,
  summaries, failing saves, crashes and `/clear`; a compression keeps at least
  two messages, and the first file holds a conversation from its beginning.
  `SessionInv` says that every copy of the history, in a compression, a Save, the
  summarizer or the file, is in the order of arrival and holds nothing that was
  cleared; that every number up to the next is in the store, in its summary or
  given up; and that this holds of a round's two reads although the summarizer
  may come between them, because the summary is read last and is written before
  the history is cut. The cut of `forceCompression` is a `CHOOSE`, whose
  existence is a lemma (a set of numbers has a least one).
  `HistoriesAreSound` is of histories of any length. The loop of
  `sanitizeHistoryForProvider` is a function on the prefixes of the history. That
  there is one, and that what it keeps of each prefix is the selection of those it
  let pass, are shown by the least prefix that would be an exception; whether a
  message passes is then restated in terms of the set of those kept, which is the
  reference's condition, and two sets that meet it do not differ at a least place.
* **Subagents** (`Subagents_proofs`), for any number of subagents, any limit,
  channel capacity and number of messages and jobs. `SubInv` ties the place of a
  subagent to its status, to whether it has reported, to the lock and to what
  lies in the inbound channel; the slots follow by counting who enters and
  leaves. `ReportGoesHome` follows from what a round may assume of the shared
  chat between its call and the tool's read of it.
* **Scheduler** (`CronService_proofs`), for any number of jobs, run loops
  (overlapping ones too), crashes and failing saves, with a first file whose
  jobs are numbered from 1. `CronInv` strengthens `RecurringStaysArmed` to hold
  from the save of `Start` on, before the loop runs, and says what a loop may
  have collected where; with it come `GoneStaysGone`, from the order in which
  jobs get their numbers, and, with what the table and the file hold of
  acknowledged additions, `AddedIsDurable`. `OneTimeAtMostOnce` needs more:
  executions begun and still to begin are at most one, because a job is
  collected only with a next run, which for a one-time job is its time, and once
  that time has come neither `Start` nor `EnableJob` computes another. The same
  holds of the copy in the file, which is why a reload in the middle of an
  execution does no harm. `NeverEarly` is an
  action property: unless loops have overlapped, a recurring job that is armed
  or queued is so for a time at least its interval after its last start.
* **Cron with its tool and commands** (same module), for any number of command
  processes. `CopyRevivesNothing` (the property `GoneUnlessCommanded`) shows that
  until a command has run, the scheduler's invariant survives the tool's
  `AddJob` and `UpdateJob` with its stale copy in between, because `UpdateJob`
  writes only over a job that is still in the table, and with an armed one.
* **Files** (`Parts_proofs`, as are the next seven), for any rounds, files and
  calls: a call that computes from what it read has read what is still in the
  file, unless another has written meanwhile, which the property excuses; its
  temporary file is torn or is what it is about to put in place. `FilesWhole`:
  whatever fails, a file is one content that somebody wrote.
* **Git**, for any committers and files: what `/commit` is about to say of the
  index is what is in it, unless another has changed the index since the diff was
  read; `CommitHoldsWhatWasSaid` then follows at the commit, and is kept because
  commits are only ever added.
* **Vault**, for any writers, notes and days. That the index of the prompt is a
  scan of the notes rests on there being one writer at work as long as nobody has
  overlapped, so that what it has scanned is still there when it writes the index.
  The day a note keeps when it is saved again is the harder half: a note whose
  first day is known is dated, or is being filled by a writer that has read that
  day.
* **Skills**, for any tools, skills and registries. As long as nothing overlapped,
  one installer is past its check: a tool because it holds the mutex, the command
  because it is alone. What its directory holds follows from its step, and every
  other directory loads.
* **Last channel**, for any chats and timers: a save in hand is of the channel
  the agent's manager has; saves of users and of beats differ in whether the
  heartbeat has outdated the channel; a process that is down saves nothing. From
  this, that a save takes the file over and that nothing else changes what a start
  finds. `LastChannelSurvives` is an action property.
* **Migration**, for any files, versions and runs: as long as a file's turn is to
  come, what is owed of it is in its place, and its entry is not one that copies
  over it without a backup; the file in hand has it in the `.bak` before its place
  is truncated. A plan names no file twice, which the assumption on the list of
  files says of the code's table.
* **Limits**, for any rounds, tools and policies: a bucket is the end of the
  history of its tool, and what it has dropped of it is a minute old. When a call
  is let through, fewer than the limit are left, so the one that lies the limit
  back has been dropped. What is offered to a round was chosen with all names it
  had used but the last.
* **Start of channels** (`RefusalsAreFinal`, an action property), for any channels:
  the manager's lock is held from before the dispatcher runs until all channels
  are started, so that a channel that was looked up was looked up after that.
* **Credentials** (`Lookups_proofs`, as are the next four), for any calls, shells, providers,
  operations and tokens. An actor whose copy of the store is stale overlaps when
  it saves, which the property excuses; as long as nobody who waits to save is
  stale, every refresh token in somebody's hands is the file's or one that nobody
  else has. Assumed (`Distinct`): the marks of an absent or torn file are no
  tables. A logout of all providers removes the file under a writer, which goes
  on with one that has no name.
* **Keys of the configuration** (`CommandsKeepTheKeys`, an action property), for
  any providers, files and commands, dying ones too. A command works on what
  `LoadConfig` made of the file, so the lemmas follow a key through it: a key of
  the file is in the list or in the providers after loading, a list converted
  from the providers has an entry with the key of each (`WithKeys` as the ranks of
  those that have one), a login changes the entry of one model, and merging takes
  the foreign key only where there is none. The invariant says that the file is
  absent, torn, or of the form the decoder yields.
* **First provider** (`TheFirstProviderStarts`), for any providers in any order.
  The list starts with the first provider that has a key; the conversion gives the
  user's model to that entry alone, and so an entry of the model's name is that
  one. The proof showed the property too strong as it stood: a `model` that is
  the name of a provider may be found as that provider's own entry
  (`migration.go:338-369`), which the property now excuses (`NamesAModel`).
* **Routing** (`RoutesAreKept`), for any bindings, agents, scopes, links and
  messages. The first binding of the most specific level exists because a set of
  numbers has a least one, of levels and then of places (`FirstIsBound`); that it
  is one of the peer, when the peer has any, follows from its level. That two peers
  who share a key have the same names is read off the shapes of keys (`KeyShapes`,
  `KeysApart`). The invariant only says of each round heard that its agent and its
  session are those the configuration gives its message.
* **Search cache** (`CacheStaysSound`), for any queries, registries, sizes and
  times to live. The invariant (`SearchInv`) says that the list is the queries of
  the cache, in the order of their last use, and each use was before the searches
  counted; moving a query to the end keeps the others in order because it shifts
  them by one, and dropping the expired ones because ranks grow. Rounds that ask
  the registries hold results of their own, which sorting by score permutes.

  The conversion of the providers and the cache's list rest on one group of lemmas: in a finite set with a total order the
  number of members up to each is a bijection with `1 .. n` (`RanksGrow`,
  `EveryRank`, `RanksInOrder`). Lists that the code filters in a loop are written
  as such ranks, not as a fold, since no prover here can be given the induction a
  fold needs; TLC evaluates the same definitions.
* **Telegram** (`TelegramAnswersStand`, in `Answers_proofs` as are the next two),
  for any messages, notes of others, chunks and failing calls. `ChatInv` says
  where each message is (`InOnePlace`: with its handler, in the inbox, with the
  agent, in the outbox, sent), whose the placeholder is (`PlaceholderIsTaken`), and
  of an undisturbed round that it is the only one under way (`UnderWayAlone`), so
  that no other round can take its placeholder; that the answer of a round that is
  sent is on the screen as a message nobody will edit (`SentAlone`), its own edit
  loop aside, whose edits then count as late; and of a chat nothing disturbed that a
  "Thinking..." on the screen is the placeholder (`OneThought`).
* **SSH** (`SshAnswersShown`), for any connections, chunks and capacities. A
  program that is open listens for responses or has an event in hand after which
  it will (`Listens`); a calm message is, in turn, on its way to `Send`, in its
  connection's response channel, an event of its program, or shown, and there is
  one such message at a time (`CalmFlow`); chunks append to the last text or start
  a new one, so that the answer stays first in its own.
* **Console** (`TheConsolePrintsOnce`), for any lines, chunks and messages of
  others: while an unmixed line is worked on or waits to be sent the flag is set
  exactly if a chunk of it was printed, and nothing is before it in the queue.
  `EveryAnswerIsSeen` puts the three together: `AnswersAreSeen` of `parts`.

`TypeOK` and `ParkedOnlyWhenFull`, which the proofs rest on, hold for every
value of the constants and are in no run any more. Instance assumptions of the
modules that `MCRounds` and `MCParts` extend (`Instance`, `WordsTell`, `Distinct`)
are stated in the theorems. The assumptions of the modules themselves are theirs,
and TLC evaluates them in `parts`: the mark of an absent channel is no chat
(`NoChannelAssumption`), that of an absent note is no note (`NoNoteAssumption`), that
of an absent skill is neither a skill nor an installer, and no tool's round is a
command (`InstallAssumption`), the table of a migration names a file once
(`FilesAssumption`), limits are numbers (`GuardAssumption`), messages of users are
numbered and are no messages of others (`TelegramAssumption`, `SshAssumption`,
`ConsoleAssumption`), files and defaults are what the decoder yields
(`ConfigAssumption`), lists are lists and the kinds of peers in lower case
(`RoutingAssumption`), queries are not empty, and sizes and times to live not 0
(`SearchAssumption`), a history that is compressed has more than two messages
(`HistoryAssumption`).

Every invariant of the runs that pass is stated by a theorem. Only model-checked,
and why:

* `CallsReturn`, `AcceptedIsDelivered`, `DueIsRun`, `PublishReturns`,
  `ExecReturns` and `LeavesUnlessCircle` are of liveness or use
  ENABLED, which is beyond the prover.

## 6. Plan

Done: what carries every message (bus, sessions, replies), what acts on its own
(cron, subagents, fallback), and the edges (channels, gateway, heartbeat, tools,
skills, vault, credentials, routing, configuration, migration). What is left, by
what it would add:

1. An abstract channel, *each outbound message is shown once, and what stays is
   the final text*, for Telegram and SSH to implement where they do.
2. Several chats of the Telegram channel, whose edit loops share the bot's rate.
3. The assembly of tool calls from streams, an operator against a reference.
4. `Gateway` over `MessageBus` in place of its one outbound channel.

## 7. Not modelled, and remarks

Web, search and hardware tools, the translation between provider formats, the
optimizer, logging, voice: they keep no state that two steps could disagree
about, or the state is a library's. Texts are modelled where a decision depends
on them (the words of errors) and otherwise left out. Branches and conflicts of
git, the patterns of the skill scanner and of the exec guard are verdicts.
`Status`, `ListJobs`, `GetTask` and other reading operations change nothing.
`pkg/tui/model.go`, `UnregisterChannel`, `RegisterCheck` and `AppendToday` are
called by no production code. Of the scheduler, a data race of run loops on
`onJob` is outside: it is set before the start. Two sessions whose keys map to
one file name are not modelled.

Seen while reading, and not the subject of a run:

* A job through the agent is never answered: `tools/cron.go:330` leaves that to a
  loop that does not see it. A handler that does not return holds up all other
  jobs (`cron/service.go:159`); the LLM call below it has a time-out.
* A candidate that fails in the middle of its stream has shown chunks, which the
  next one's follow (`fallback.go:339`); only the console keeps them.
* Heartbeat and devices follow the user's channel only from boot to boot
  (`state.go:50-70`).
* `loop.go:426` says "Use the origin session for context"; the report of a
  subagent goes to the main session of the default agent.
* `-s my-session` (`docs/tools-reference.md:191`) is not the session used:
  `loop.go:352-356` takes keys of the form `agent:` only. The same goes for the
  keys cron gives.
* The peer metadata that routing reads are set by Telegram only; account, guild,
  team and parent by nobody.
* Inbound media are read by nobody.
* `auth login` for OpenAI sets the default model to `gpt-5.2` also when the
  entry it found has another name.
* `ConvertConfig` of the migration starts from the default configuration, whose
  model list is not empty, so what it converts meets the same fate as in
  `legacy_providers`.
