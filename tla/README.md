# aga: TLA+ models, model checking and proofs

aga is a chat platform in which people and LLM agents work on a project
together.  One Rust program (`src/main/src`) runs as an HTTP server (`aga`), as
the agent runtime (`aga agent`) and as a seeder (`aga seed`).  Server and
runtime are separate processes; they share one SQLite database (WAL) and
Centrifugo, a pub/sub broker.  Agents execute commands in workstations: pods of
Kubernetes, or containers of Docker in development.

This directory models the parts whose correctness depends on interleavings,
failures and lost messages, checks them with TLC on small instances and proves
the main results with TLAPS for every instance.

- [1. The system](#1-the-system)
- [2. Plan](#2-plan)
- [3. The modules](#3-the-modules)
- [4. What is checked](#4-what-is-checked)
- [5. What is proved](#5-what-is-proved)
- [6. Disagreements with the documentation](#6-disagreements-with-the-documentation)
- [7. What is not modelled](#7-what-is-not-modelled)
- [8. Running it](#8-running-it)

## 1. The system

### Components

| Component | Source | State | Operations | Model |
|---|---|---|---|---|
| Event intake of the runtime | `runtime.rs`, `centrifuge.rs` | SSE stream, watermark, `seen` | connect, catch up, read an event, reconnect every 30 s, start, die | `Delivery`, `Intake` |
| Dispatch of runs | `runtime.rs` | semaphore of the process, one mutex per workstation and agent, one task per message | spawn, acquire, route, run, release | `Dispatch` |
| Questions to humans | `runtime.rs`, `agent.rs`, `trace.rs` | `tasks.status`, `human_requests`, the message of the question | ask, link, reply, answer, complete, resume | `HumanRequest` |
| Workstations and sessions | `chat/sessions.rs`, `chat/chats.rs`, `server.rs`, `ws_ops.rs` | `workstations`, `sessions`, pods, files in `/work/project` | create, mark down, delete, release; open, deploy, restore, close | `Sessions` |
| Chats, threads, messages | `chat/chats.rs`, `chat/messages.rs`, `server.rs` | `chats`, `messages` | create, send, start a thread, post to the parent, share, close, `#end` | `Threads` |
| Participants, accounts, rights | `chat/chats.rs`, `chat/users.rs`, `auth.rs`, `server.rs` | `chat_users`, `chat_participants`, keys of Keycloak | first request of a subject, invite, kick, `can_write`, `#invite`, `#kick`; loading the keys | `Access` |
| Capabilities | `trace.rs`, `server.rs` | `capabilities`, their history | create, rename, edit, delete, resolve | `Capabilities` |
| Agent sets, LLM connections, MCP catalogue | `trace.rs`, `server.rs`, `runtime.rs` | sets, agents and their links, connections, the default | replace a set, attach, rename, delete, load for a run | `AgentSets` |
| Start of the stores | `trace.rs`, `chat/mod.rs`, `main.rs` | the schema | create tables, migrate | `Startup` |
| Territories | `scope.rs` | none: a pure function of the set | `territory_for_list`, `sandbox_command` | `Territory` |
| Agent loop | `agent.rs`, `runtime.rs` | conversation, round, trace, steps on their way to the chat | ask the LLM, perform actions, trace, ask a human, finish | `AgentLoop` |
| Commands of a script | `agent.rs` | none | `command_words`, `command_allowed` | `Commands` |
| MCP client | `mcp.rs` | request ids, the pipes of a child process | connect, list, call, time out | `Mcp` (stdio) |
| Context builder | `context.rs` | none | the last messages within a size | `Context` |
| Pods and containers | `cluster.rs`, `workstation.rs`, `ssh_key.rs` | the cluster, `workstations.state` | create, inject keys, wait, delete, exec | `Cluster`; from above in `Sessions` |
| Centrifugo | external | subscriptions | publish, subscribe | external, in `Delivery` |
| Views of files and changes | `project_files.rs`, `git_changes.rs` | none | read-only commands | not modelled |
| Configuration, LLM client, seed | `config.rs`, `llm.rs`, `seed.rs` | none | I/O | not modelled |
| Web client, deployment, end-to-end tests | `front/`, `infra/`, `e2e/` | | | not modelled |

### Interactions

1. A handler of the server inserts a message (`Threads`) and afterwards
   publishes its id to Centrifugo, best effort.
2. The runtime reads ids from its stream, or loads them from the database
   after a (re)connection, and accepts each once (`Delivery`).
3. An accepted message becomes a task, which takes a permit, finds the agents
   it calls in the agent set of its project and runs them, one at a time per
   workstation and agent (`Dispatch`).
4. A run asks its LLM and its MCP servers, executes commands in the workstation
   of the session (`Sessions`) and posts steps and its answer to the chat
   (`AgentLoop`, `Threads`).  What it is and may do comes from its set
   (`AgentSets`, `Capabilities`, `Territory`), what it knows from the chat
   (`Context`), and its scripts are compared with its tools (`Commands`).
5. A run may end with a question; the reply is an ordinary message and comes
   back through 1–3, where it closes the request and starts another run
   (`HumanRequest`).
6. Every request is first given an account and then its rights (`Access`); the
   machine of a station is made and removed by the handlers (`Cluster`).
7. Both processes open and migrate the same database when they start
   (`Startup`).

### What is hard, and what makes a component correct

The code runs on tokio: each handler and each task is a sequence of statements
with `.await` between them, and any two interleave there.  There is hardly a
transaction that spans a check and what it protects.  Both processes may die
anywhere; Centrifugo keeps no history.

- *Intake*: a message is dispatched at most once per process although the
  stream and the catch-up overlap; none is skipped between the start and the
  watermark; a restart does not answer old messages; what was lost is found
  later.
- *Dispatch*: an agent never works twice at once on a workstation; permits are
  conserved; nobody waits for what is free; every message is served.
- *Questions*: one answer and one resumption per question, whatever races; a
  task follows its request; a reply is not in vain.
- *Agent loop*: each call of the LLM has one result, whatever fails; a late
  answer of an MCP server is not taken for another's; the trace has every
  effect; the answer comes after the steps; a run ends.
- *Sessions*: at most one open session per station, and it is the one the
  station names; the files are those of its project; a recovery continues the
  right session on the right branch; marks and deletions hold.
- *Threads*: a closed root has no open thread; the limits hold; copies name
  the right message; every thread finds its session.
- *Capabilities and sets*: a history tells its record; a set is always whole,
  wherever a saving is refused or stops; what a run resolves by name is what its
  agent was given by id.
- *Access*: one account per subject; a request acts by the role of its own
  token, and a person with a right is refused only when a query failed; new keys are noticed; SSO that fails never means no SSO.
- *Startup*: old data survive every migration and race; in the end both serve.
- *Cluster*: the state of a station says what was seen; no pod is forgotten;
  keys are there before they are needed.
- *Territory, Context, Commands*: the mounts agree with the territory and no
  path has two writers; a context ends with the message the run answers and uses
  its budget; the words of a script are its commands.

`PROJECT.json` lists each hazard with its line and the properties about it.

## 2. Plan

Done, each with its instances: 1 `Delivery` (with the abstract `Intake`), 2
`Dispatch`, 3 `HumanRequest`, 4 `Sessions`, 5 `Threads`, 6 `AgentLoop` (over
`Mcp`), 7 `Capabilities` and `AgentSets`, 8 `Startup`, 9 `Access`, 10 `Cluster`,
11 the algorithms `Territory`, `Context`, `Commands`, 12 the theorems: every safety
property of a run.

Next, in this order:

13. Compositions: `Delivery` with `Dispatch` (a message that was stored is
    served), `Dispatch` with `Sessions` (a run outlives the session it was
    started for), `Threads` with `Sessions` (closing a root frees the station).
14. Refinements: `Sessions` against an abstract station that serves one
    project at a time; `HumanRequest` against an abstract mailbox; the creation
    of a pod in `Sessions` by `Cluster`.

## 3. The modules

| Module | Contents |
|---|---|
| `Intake` | abstract promise: stored messages are handed over at most once per process |
| `Delivery`, `MCDelivery` | log, publication, stream, watermark, catch-up, restart |
| `DeliveryProofs` | theorems about `Delivery`, refinement of `Intake` |
| `Dispatch`, `MCDispatch`, `DispatchProofs` | permits, mutexes, tasks |
| `HumanRequest`, `MCHumanRequest`, `HumanRequestProofs` | a question and its answer |
| `Mcp` | one MCP server on a pipe and its client |
| `AgentLoop`, `MCAgentLoop` | a run of an agent, its tools and its steps |
| `AgentLoopProofs` | theorems about `AgentLoop`, `Mcp`, `Territory`, `Context` and `Commands` |
| `Sessions`, `MCSessions`, `SessionsProofs` | workstations, sessions, their files |
| `Threads`, `MCThreads`, `ThreadsProofs` | chats, threads, messages |
| `Capabilities`, `MCCapabilities` | skills and shortcuts with their history |
| `AgentSets`, `MCAgentSets` | sets, links, connections, and what a run makes of them |
| `Access`, `MCAccess` | keys, accounts, participants, commands |
| `StoresProofs` | theorems about `Capabilities`, `AgentSets` and `Access` |
| `Startup`, `MCStartup` | migrations by two processes |
| `Cluster`, `MCCluster` | machines of stations |
| `ClusterProofs` | theorems about `Cluster` and `Startup` |
| `Territory`, `Context`, `Commands`, `MCAlgorithms` | three pure algorithms over bounded inputs |

Every module has the same layout: constants with their named assumption,
variables, one action per handler or statement, `Init`, `Next`, `Spec`, the
properties, and at the end the strengthenings the proofs need, unless they stand
before their proofs.  Where a module of proofs is about several components, the
specification of each further one bears its name (`SpecAccess`).  Operators
marked `faulty variant` are not used by any specification: each is an action or
helper with a plausible bug, and `PROJECT.json` ("mutants") names the property
that notices it.

### Delivery

The log is the number `stored`, since ids are consecutive and messages are
never deleted.  `owed[id]` counts the publish calls the request of `id` still
has to make (a new thread publishes its first message twice).  `stream` holds
the frames between the broker and the process; connecting empties it, because
Centrifugo replays nothing.  `Accept` is `mark_seen` and the spawning of the
tasks of the ids that are new.  `CatchUp` takes the oldest `CatchUpLimit` ids
above the watermark.  `StartProcess` is `mark_start`.  Publications may come in
any order and fail, and so may the queries of the runtime, at any time;
`trouble` records for the life of a process which of these happened, and
`NoGap` and `NoReplay` say which of them they depend on.

### Dispatch

`task` follows one accepted message; `queue` is the FIFO queue of tokio's
semaphore, `waiters` those of the mutexes.  `RouteMessage` chooses any set of
agents: whom a message calls depends on its text, its parent and the set.  The
run itself is one phase, whose end is `FinishRun`.  `Hung` names agents whose
run may never end; neither the LLM client (`llm.rs:120`) nor a command
(`agent.rs:1076`) has a time-out.

### HumanRequest

One agent on one workstation: its runs are serial, which `Dispatch`
establishes (`OneRunPerAgent`) and `StartRun` assumes.  Each statement of
`ask_human`, of the `Question` arm of `run_job` and of `route_answer` is an
action of its own.  `inChat` separates a reply in the chat of the question from
a message elsewhere that carries the same parent.  `Faults` switches failing
statements (`"db"`), failing runs (`"run"`), a closing chat (`"close"`), a thread
that fills up (`"full"`) and edits of the agent set (`"set"`); `MaxCrashes` bounds
the deaths of the process.  `SendQuestion` is the posting of a question: a chat that
is closed or full refuses it, and an error may come before or after the `INSERT`, so
that the question is in the chat and nothing links to it.
`happened` records which of the faults did occur, and the properties that
depend on their absence say so.

### AgentLoop and Mcp

`Mcp` is the client and the server at the two ends of a pipe.  `exchange` is
where the request in flight is; a time-out drops it wherever it is, and leaves
`torn` if a line was half-written (`write_all` of tokio is not cancel-safe), the
request in `pending`, and possibly an answer in `stdout`.  The server answers
what is pending in any order or never, prints other lines, and dies.  A line
behind a torn one cannot be read, so its request is lost; lines that ask for
nothing (notifications, refusals) leave no trace but the end of a torn line.

`AgentLoop` EXTENDS it and awaits its exchanges.  `pc` is the place in
`Agent::run`; `conv` the conversation as roles and call ids, `calls` the actions
of the reply that are left.  What the LLM asks for is a choice: how many actions
when it replies, of which kind when their turn comes.  `commands`, `performed`
and `outputs` count what was traced, done, and traced as a result.  `Fail` is
`?` anywhere.  `queued` is the channel to the task that posts the steps;
`newest` the latest message of the run in the chat, which may refuse any.  A
role has at most one MCP server here; servers share nothing but the order of
their calls, which the loop makes one at a time.

### Sessions

`at[c]` is how far the handler that opens session `c` has come; `closing[k]`
the same for a request that closes.  `workspace` abstracts the files of
`/work/project` to the project and the branch.  A failed `git` command leaves
the files, as `switch_project_command` clones beside them.  The code closes none
of the windows between its statements, so every handler may step into them at
any time; `entered` records that one did: a second opening between the check and
the transaction of the first (`"open"`), a closing before the project is deployed
or while the command that deploys it is still running (`"deploy"`), a release against the check of an opening (`"release"`), a mark
before the search for the session to continue (`"down"`).  A command in a pod goes on
when its handler is dropped (`agent.rs:137`: nothing kills the child), so `adrift[c]`
is the clone or the checkout that nobody waits for, and it takes effect at any later
time, whoever uses the station by then (`EndAdrift`).  The properties say
"unless such a window was entered", and with it what the code would have to
serialise; the configurations of section 6 show what happens inside.

### Threads

A request is a check (`Check…`), which leaves a record of what it will insert
in `pending`, and the `INSERT`.  Rights only refuse requests and are left open.
`Lookup` is the walk of `root_workstation_id` and `project_id_for_chat`, with
its bound.  `create_chat` with a parent has no caller and is left out.
`overtaken` records that a chat was closed for which a request had passed the
checks of a thread.

### Capabilities and AgentSets

In `Capabilities` a request goes through the steps of its handler: the record
read, the name checked, each change a transaction with its entry in the history.
It may fail at each of them, and `overtaken` records the requests whose record
another one changed after they had read it.  A reader resolves names one by one.

`AgentSets` keeps links by id, as the tables do, and names in a loaded set, as
`AgentDef` does; ids are never used again.  A save replaces the rows of a set in
one transaction, statement by statement: `draft` is how far it has come, the new
agents show at `CommitSet`, and `Rollback` is a refusal, an error or the end of the
handler.  `saved` remembers what each set was last saved with.  Both kinds of
databases are initial states: in one that was migrated (`migrated`), `llm_id` was
added without a foreign key (`trace.rs:1799`), so an agent may name a connection that
is gone or still to come.  Replies are left out: a handler reads what it has written
again after the commit and may answer 404 or 500 although the tables changed.  `load` is the way of a run from the routing of a message (the
row of the agent, its skills, its servers, in separate queries) to the start of
the run (`resolve_agent`: the connection, the prompt, the tools), between which
anything may be edited; `stale` are names taken from an entry meanwhile, `late`
connections that came meanwhile.

### Startup

`Plan` is the list of statements both processes execute when they open the two
stores, in their order.  `Databases` are the databases the first start may find,
whatever columns they have, as long as a release could have left them (`Served`);
`MCStartup` has a new database, the current schema, the first one and four versions
between, with the texts of the capabilities filled, edited or not yet copied.  A `Read` of columns decides about the statements after it, so `seen`
may be out of date when they run; an `ALTER` that was already made fails and ends
the start.  A process that ended is started again.

### Access

Keys of the identity provider change (`current`) and are fetched
(`RefreshKeys`); `verifier` is what the server knows.  A request finds or makes
the account of its subject, stores the role of its token, and reads it again
when its right is asked; its command acts before its message is sent.  Each is a
step of its own.  `crossed` and `together` record that requests of the same
person interleaved.  A query about a right may fail, and the answer is then no
(`Query`; `unwrap_or(false)`); `blind` records that it was.

Names are no identities.  `#invite` and `#kick` give the name of a user, which
`update_user_name` changes at any login and which several accounts may share, so
such a command may find any account, or none (`Named`).  A request that adds
a participant gives the id of an account, and a run of the agent makes its account one.

### Cluster

The creation of a station: row, secret, pod (in Docker: inspect, start or run,
inject the key), waiting, state.  The deletion: pod, row.  Both backends are in
one module; `backend` is chosen initially.  A command may fail, the deadline may
pass, a pod may fall, and the server may die between any two steps
(`Restart`), or a client go away and its handler with it; the command of `docker` or
`kubectl` in flight goes on without it (`adrift`) and may take effect at any later
time.  The `UPDATE` of the state may fail, which the code does not look at
(`EndWith`, `unwritten`).  Stations share nothing but the secrets of the cluster, whose other
writers are `StoreOwn` and the initial state; so one station is enough.

### Territory, Context and Commands

Pure functions, each in a small system of its own: a set of agents that is
edited, a chat that grows and is read, a script that is written.  A path is the
sequence of its components and `Starts` knows which component begins like
another, so that a comparison of texts would be noticed.  `Writable` is what the
mounts do: the last one over a path decides.  `BuildContext` is the loop as a
recursive function of the number of messages taken.  `Context` measures messages
in units of length; created_at is in the order of ids (the clock does not go
back).  The message a run answers may be one of the agent's own user, when it answers a
question (`AnswersAgent`); it then stands there as a reply of the agent, unmarked.
`Commands` compares the two passes of `command_words` with a declarative
reading of the grammar of sh: a command is a word with only assignments,
keywords and redirections before it in its simple command.  `Reader` and `Pass`
are the two loops, as functions of the number of pieces and of tokens behind
them: a stack of parentheses and a flag in the first, a stack of places in the
second.  The reading of the grammar knows no stack: it says of a piece whether it
is in the body of a heredoc, how deep it stands (`Depth`), and what precedes it
in its command (`Before`), by counting.  `AddPiece` lets a script grow by a piece
that the grammar admits (`Fits`), so that scripts which are not finished, with
substitutions still open, are compared too.  The comment in the
source calls the check a guard against mistakes of the model, not a boundary,
and the scripts compared are those of the grammar the code knows: a redirection
whose target is in backquotes, `<(...)`, here-strings, `&>`, functions, `case`
and `for` are left out, and so is text in double quotes.  Pieces are set apart by
blanks, but for `X=$(` and for text glued to the end of a substitution (`glued`);
text glued to its beginning is left out.

## 4. What is checked

Every cfg gives its bounds; a state is any reachable one of the instance.

| Run | Instance | Shows |
|---|---|---|
| `delivery` | 3 messages, catch-up of 1, all faults | at most one dispatch per process, only of stored messages; implements `Intake`; the newest message is accepted in the end; no gap before trouble; nothing old is caught up |
| `dispatch` | 4 messages, 2 agents, 2 permits | serial agents, no lost wakeup; every message is served |
| `human_request` | 3 runs, 1 called, 2 replies, all faults, 1 crash | one resumption of a question; task and request agree; every question that was asked can be answered unless queries fail; a late reply resumes the agent |
| `agent_loop` | 2 rounds of up to 2 actions, 4 MCP requests, 1 other line | every call has its own result; late answers mislead nobody; trace complete; answer last; the run ends |
| `sessions` | 2 stations, 2 sessions, 2 projects, 1 closer, 2 handlers under way, one window entered | the open session is the current one and has its files, unless a window was entered; a session continues one of its project on another station |
| `threads` | 3 chats, 4 messages, 2 requests, 2 levels, limit 1 | sessions are found, copies name the right message, closed trees; a thread exceeds its limit by one message per rival at most |
| `capabilities` | 2 records, 2 names, 2 texts, 3 requests, 1 reader | unique names, a history that tells its record, no trace of refused edits, no dead text in a prompt |
| `agent_sets` | 2 sets, 3 agents, 2 connections, 3 catalogue entries, 4 changes, 1 run, new and migrated tables | trees stay in their set, a run gets its own skills and servers, the best connection; a set is whole wherever a saving stops |
| `startup` | both processes, 9 databases in 6 versions of the schema, 1 kill | old texts and sessions survive; a start fails only if raced; in the end both serve |
| `access` | 2 subjects, 2 requests, 5 accounts, 3 events | one account, own rights, refused only without a right or when a query failed, no anonymous super-user with SSO; the current key is accepted in the end |
| `cluster` | 1 station, both backends, 3 failures | states tell what was seen or could not be written, no orphan, keys in place; a creation ends |
| `algorithms` | 6 names of agents in 3 levels, paths of up to 3 components; chats of 5 messages; scripts of 5 pieces | mounts and territory agree, one writer per path; the context of the trigger, whoever wrote it and whenever it is built; the words are the commands, unless text is glued to a substitution |

The properties of the newer modules are conjunctions of named parts, each with
a comment of its own: `CatalogueOK`, `EditsOK`, `RunGetsItsOwn`, `OldDataServed`,
`AccountsOK`, `RightsOK`, `StateIsTrue`, `MachinesOK`, `ContextOK`,
`WordsAreCommands`.  What section 5 proves for every instance and another property
of a run comes close to is not repeated in the runs: `DispatchedOnce`,
`PermitsConserved`, `AnsweredOnce`, `SettledForGood`, `ShareNamesOriginal` and the
types.

Why the bounds suffice: each property relates at most two actors and one
resource, and every run has room for both actors, for the resource to change
hands once, and for what the code does at a limit (a catch-up shorter than what
was missed; more messages than permits; a thread with one place left; the
deepest level).  Three log entries are what an out-of-order publication around a
reconnection takes; three runs are a question, its resumption and a rival. Four
MCP requests are the two of a connection, a call that times out, and the call
that might take its answer.  Of `Sessions`, at most two handlers are under way
at a time and one of the windows of section 3 is entered in a behaviour, since
the properties are stated for each window by itself.  An agent below an agent
below a root is what the exclusion of the nearest folder is about; a chat of
five has a message that is too long, calls of the agent older than those with
outputs, and messages behind the trigger; five pieces nest a substitution in a
command and go on. The graphs have from 0.02 to 2.9 million states. The mutants
confirm it: every property is broken by a plausible bug within these bounds.
`MaxMessages` of `Delivery` and `MaxCrashes` only bound the exploration and
stand in guards of `StoreMessage` and `Crash`, `MaxRequests`, `MaxNoise` and
`MaxCalls` in those of `Request`, `ServerPrints` and `AskLlm`. The other bounds
of the same kind are `MaxUnderWay` and `MaxEntered` (`Sessions`, the latter a
constraint of `MCSessions`), `MaxAgents` and `MaxChanges` (`AgentSets`),
`MaxStops` and the choice of `Databases` (`Startup`), `MaxUsers` and `MaxEvents` (`Access`), `MaxTrouble`
(`Cluster`), `MaxChat` (`Context`) and `MaxPieces` (`Commands`).

Deadlock is checked for `Delivery`.  The other models end: a finite pool of
messages, runs, rounds, sessions or ids is used up, or, without fairness, a handler
stops; there `CHECK_DEADLOCK FALSE` says so, and `EveryMessageServed`,
`LateReplyResumes` and `RunEnds` cover what deadlock would hide.

### Fairness

- `Delivery`: the loop of the process goes on (`WF` of `Connect` and
  `EndSession`: tokio polls the loop and `tokio::time::interval` fires); a
  catch-up that is tried again and again succeeds once (`SF` of `CatchUp`: a
  query of SQLite may fail, not for ever).  No fairness for the server, the
  broker or reading the stream: `NewestAccepted` holds without a single event.
- `Dispatch`: tasks are scheduled, and the run of an agent that is not `Hung`
  ends.  MCP calls have time-outs and the loop has `max_iterations` (`RunEnds`
  of `AgentLoop`); that LLM requests and commands end, which have no time-out, is
  an assumption.  `DispatchHung.cfg` shows what happens otherwise.
- `HumanRequest`: tasks are scheduled and runs end.  No fairness for people.
- `AgentLoop`: run and poster are scheduled, LLM requests and commands end, and
  the timers of `mcp.rs` fire.  None for the MCP server: it may stay silent,
  talk without end, or die.

- `Startup`: a process takes its next statement, and one that ended is started
  again: both are Deployments of Kubernetes (`infra/k8s/core`).
- `Access`: the loop that refreshes the keys goes on (`main.rs:143`, a task of
  its own with an interval), and each fetch ends: `reqwest::get` has no time-out
  (`main.rs:27`), so that an identity provider which accepts a connection and never
  answers does not exist is an assumption.  None for people.
- `Cluster`: the handler of a creation goes on.  The waiting has a deadline; that the
  other commands end, `docker` and `kubectl` without a time-out, is an assumption.
  No fairness for commands without a handler.

`Sessions` and `Threads` state no liveness: a handler that stops half-way is
never taken up again, and the code promises nothing about it.

## 5. What is proved

TLAPS proves these for every value of the constants that meets the assumption
of the module.

| Theorem | States | Strengthening |
|---|---|---|
| `DeliveryProofs!DispatchedOnceCorrect`, `DeliveryImplementsIntake` | `ImplementsIntake`: at most one dispatch per process; refinement of `Intake` | `CountInv`: an id was dispatched iff it is in `seen`, and nothing is ahead of the log |
| `DeliveryProofs!NoReplayCorrect` | no catch-up of old messages, once the start mark was read | `WatermarkInv` |
| `DeliveryProofs!NoGapCorrect` | nothing is skipped until something of `Troubles` happened | `Prefix`: before each frame of the stream comes, or was accepted, everything older |
| `DispatchProofs!OneRunPerAgentCorrect`, `PermitsConservedCorrect`, `NoLostWakeupCorrect` | mutual exclusion, permits, wakeups | `TaskInv`, `QueueInv`, `RunInv`, `WaitInv`: queues hold exactly the waiting, each once |
| `HumanRequestProofs!AnsweredOnceCorrect`, `ResumedOnceCorrect`, `TaskFollowsRequestCorrect`, `SettledForGoodCorrect`, `QuestionAnswerableCorrect` | the properties of that name; the last one unless a query failed, or the chat was closed or full before the question was posted | `RunInv`, `RouteInv`, `AnswerInv`, `CauseInv`, `QuestionInv` |
| `AgentLoopProofs!AnswersOwnRequestCorrect`, `TraceCompleteCorrect`, `StepsBeforeAnswerCorrect` | whatever the server does, for any number of rounds, actions and requests | `TraceInv`: where the run is determines how far its trace is behind; `OrderInv`: nothing is queued after the end |
| `AgentLoopProofs!ConversationOKCorrect` | types, and one result for each call, for any number of rounds and actions | `ResultsInOrder`: a result follows its call or the call waits in `calls`; `ResultsOnce`: ids bear their round; `McpInv` |
| `SessionsProofs!OpenIsCurrentCorrect` | unless `"open"` was entered | `OrderInv`, `OpenInv`: what the check found holds at the commit |
| `SessionsProofs!SessionHasItsProjectCorrect` | unless `"open"`, `"deploy"` (with a clone that its handler left running) or `"release"` was entered | `FileInv` |
| `SessionsProofs!ContinuesAnotherCorrect` | unless `"down"` was entered | `RecoverInv` |
| `ThreadsProofs!CopyBesideThreadCorrect`, `ShareNamesOriginalCorrect` | whatever races | `ChatInv`, `RequestInv`, `MessageInv` |
| `ThreadsProofs!ClosedTreeCorrect` | unless a closing overtook a thread | `ClosedInv`: the chat of a checked thread is open at the `INSERT` |
| `ThreadsProofs!SessionFoundCorrect` | the bounded walk up ends at the root, for any depth that is allowed | `ChatInv`: each level is one below its parent |
| `ThreadsProofs!OverrunBoundedCorrect` | any number of requests, any limit | `OverrunInv`: messages and the requests that passed the check, added up |
| `ClusterProofs!StateIsTrueCorrect` | whatever fails, falls or races: ready only if seen to be, left in creating only by a creation that waited in vain, was interrupted or could not write its end | `CreateInv`: a station is not ready before its one creation ends |
| `ClusterProofs!MachinesOKCorrect`, from `SharedSecretStoredCorrect`, `KeyInPlaceCorrect`, `NoOrphanCorrect` | any number of stations and failures | `KeyInv`: where the key is from the row to the machine; `DeleteInv`: nobody makes a pod for a deleted station |
| `ClusterProofs!OldDataServedCorrect` | any number of processes that open the database, whenever they stop and start again, on any database of `Databases`: the whole schema, the old sessions, the old texts unless a start was killed between adding their column and filling it (`torn`) or one under way is about to, and between one anonymous user and as many as there are processes | `StartupInv`: what the statements behind a process had as their effect is there for good (`EffectsOK`), what was read stays true (`SeenOK`), and whoever may still add an anonymous user is counted with those there are (`AnonymousOK`) |
| `ClusterProofs!BreaksOnlyWhenRacedCorrect` | a start that nobody overtook does not fail | `UpToDate`: what it has read is what is there, up to its next statements |
| `StoresProofs!CatalogueOKCorrect`, `EditsOKCorrect` | any numbers of records, names and requests | `CapabilitiesInv`: an entry ends each history as the record is (`HistoryTellsRecord`), what a request that is under way has read (`RequestsOK`) and that it still holds unless another change came between (`UndisturbedSoFar`) |
| `StoresProofs!RunGetsItsOwnCorrect`, `SetsAreWholeCorrect` | any numbers of sets, agents, connections and runs, new and migrated tables | `AgentSetsInv`: rows refer to rows that are there (`TablesOK`), what an open transaction has passed, how each set relates to what it was saved with (`SavedOK`), and how what a run has loaded so far relates to the rows (`LoadsOK`) |
| `StoresProofs!AccountsOKCorrect`, `RightsOKCorrect` | any numbers of subjects, requests, events and failing queries; who has a right is refused only if a request of the same person crossed or the query failed (`blind`) | `AccessInv`: what each request was granted follows from its token or from who takes part (`UserOK`, `RightOK`, `DoneOK`); accounts have no gaps, and without a rival no subject has two (`SubjectsOK`) |
| `AgentLoopProofs!SandboxKeepsTerritoryCorrect`, `OneWriterPerPathCorrect` | any number of agents, folders nested in any depth | `SetOK`: the set is finite and the names of its agents differ |
| `AgentLoopProofs!ContextOKCorrect` | chats, budgets and numbers of outputs of any size; the last message is marked unless the agent's own user wrote it | `TurnOK`: what the loop has taken after n messages; `ContextInv`: the context is what the loop makes of the messages up to its trigger |
| `AgentLoopProofs!WordsAreCommandsCorrect` | scripts of any length, whatever is nested in them, but for text glued to the substitution of an assignment or a target (`HasGlued`) | `Fitting`: every piece fits the ones before it; about each of its beginnings `Stacks` (both stacks are as the innermost open piece left them), `PlaceKnown` (whether a command may follow) and `Found` (the words so far are the commands so far) |

and `TypeCorrect` of each, or the types within the invariant of the last ten.
None of the properties is inductive by itself.  The pattern is the same
everywhere: a conjunction of named parts is shown to hold initially (`InitInv`)
and to be kept by every action (one step per action), the property follows from
it, and the temporal step is `PTL`.  The argument worth knowing is that of
`OverrunBounded`: a request that found a place counted fewer than `MaxMessages`;
from then on its place in the sum moves from "passed" to "stored" and the sum
does not grow, so only the number of requests that can pass at a time is added
to the limit.

Four more arguments are worth knowing:

- Induction over numbers is by the least counterexample, which exists because `<`
  is well-founded (`LeastNumber`).  From it follow `Recursion` (a recursive function
  has a solution) and `UpTo` (what holds first and goes on holds as far as one
  counts); so the loop of `build_context`, written as a recursive function, is
  proved about for chats of any length, and so are the walk up of `Lookup` and the two
  loops of `command_words`.
- `SandboxKeepsTerritory`: the last mount over a path decides, and mounts of what is
  excluded come after the folder; among the agents that have a path in their folder
  the one with the longest folder is its writer, and two of them would have the same
  name (`NearestInside`).
- `WordsAreCommands`: by induction over the pieces of a script.  The reader counts the
  bodies of heredocs that are still to be skipped and the grammar the delimiters since
  the end of their line; both agree on what is in a body (`BodiesAre`), and so, piece by
  piece, on what a backquote is (`TickIs`).  Then the pairs: at every piece the two stacks
  are as the innermost open one left them (`Stacks`), so the piece that closes it leaves
  them as they were before it (`WhatCloses`).  What a stack gives back is therefore
  whether the enclosing command waited for its name when the pair was opened
  (`Resumes`), and nothing of that command was read in between.  With it goes on that
  the second pass waits for a name where the grammar admits a command, and, where no command
  is computed, only there or behind a group (`PlaceKnown`).  A redirection skips exactly
  its target (`SkipIs`).  That a longer script
  still is one of the grammar is `FitsAgree`: whether a piece fits depends on what is
  before it only.
- `AccountsOK`, `RightsOK` and `EditsOK` hold in part only for requests that no
  other one crossed; the code has no transaction around its checks.  The
  invariants say for every request from which moment it counts as crossed, so
  the theorems also show that nothing else disturbs it.

The assumptions are those of the modules (`ASSUME`), which TLC evaluates in every
run: bounds are numbers, the processes and the requests that are counted are finite
in number, and a value that stands for "none" (`None`, `Unset`, `NoTable`) is none of
the values it is compared with; and `Databases` are databases a release could have left
(`DatabasesAssumption`).

Only model-checked: liveness (`NewestAccepted`, `EveryMessageServed`,
`LateReplyResumes`, `RunEnds`, `AllServe`, `FreshTokensAccepted`, `CreationEnds`),
which depends on fairness and `ENABLED`.

## 6. Disagreements with the documentation

Some configurations check what a comment or the README of the repository says;
TLC shows a behaviour of the code that contradicts it.  They are no runs of
`PROJECT.json`, whose properties all hold, and are run by hand (section 8).

| Configuration | Statement | Behaviour |
|---|---|---|
| `DeliveryOutOfOrder` | what was missed is caught up | an id behind the watermark is never loaded |
| `HumanRequestEarlyReply` | a reply to the question continues the agent | not before the request is linked to the question |
| `SessionsBranch` | the branch the session worked on | of a recovered session: the branch of the other station |
| `DispatchHung` | a slow agent does not block the others | messages for it hold all permits |
| `HumanRequestRunFails` | no task is left running | an error leaves it running |
| `SessionsTwoOpen` | one active session per station | two openings pass the check |
| `SessionsRelease` | only a free station is released | a session opened meanwhile loses its files |
| `SessionsStaleDeploy` | the project is given by the session | a late clone of the previous session overwrites it |
| `ThreadsClosedRoot` | closing a root closes the whole tree | a thread started meanwhile stays open |
| `ThreadsShared` | a full thread takes no messages | racing writers and shares exceed the limit |

Met while modelling, and visible in the models without a configuration:

- What was missed is not caught up beyond `CATCH_UP_LIMIT` when a live event
  follows, and old messages are answered when the query of the start mark fails
  (`Delivery`: why `NoGap` and `NoReplay` name `trouble`).
- A message that calls two agents runs both under one permit of
  `MAX_CONCURRENT_AGENT_RUNS` (`Dispatch`: `AcquirePermit`).
- A station that was marked as down becomes ready when its creation ends, a
  session may then continue itself, and a deletion that the database refuses
  leaves a ready station without a pod (`Sessions`).
- `#end` is refused by the chat that it closed (`Threads`: `SendEnd`).
- `refresh_jwks_loop` says "a failure is not fatal, the previous key stays"
  (`main.rs:36`), but `fetch_jwks` does not look at the HTTP status: an error page
  that is JSON replaces the keys by what it holds, which may be none, until the
  next refresh (`Access`: `RefreshFails`; `FreshTokensAccepted` is why it ends).
- `add_participant` answers 200 for a closed chat, which takes no participant
  (`Access`; `InvitedIsTrue` says why no message is misled).
- `set_default_llm` of a connection that is gone answers "not found" and leaves
  no default (`AgentSets`: `SetDefaultLlm`).
- The history of a capability may get an entry that changes nothing, when two
  edits cross (`EmptyEntryOnlyIfOvertaken`).
- Two starts that cross may end with an error, and are repaired by the next one
  (`BreaksOnlyWhenRaced`, `AllServe`).
- A message of the context that lost its place may come back later, when older
  steps of the agent no longer carry their outputs (`Context`).

- The comment at `context.rs:10` says that the message to answer is marked; an answer
  written by the agent's own user is not (`TriggerLast`).
- The comment at `agent.rs:347` says that what is checked is the words in the place of
  a command; in `X=$(pwd)-dev make` that is `-dev` for the reader, and `make` is not
  looked at (`Commands`: `HasGlued`).
- A question that finds its thread full, or is stored by a statement that then reports an
  error, leaves its task waiting for a human whom nothing can reach
  (`QuestionAnswerable` names both).
- A person who has a right is told "forbidden" when the query about it fails
  (`RightsAreGranted`).
- A station whose state cannot be written stays in "creating" (`LeftCreating`).
- In a migrated database an agent keeps the id of a connection that was deleted, as the
  comment at `trace.rs:1196` says; its runs take the default one (`ConfigIsBest`).
- A start that is killed between adding the column `content` and filling it loses the
  old texts (`OldTextsKept`: `torn`).

## 7. What is not modelled

The components marked so in section 1: they read only, or wrap I/O, or format.
The projects of the server are rows without an order of effects.  A run looks up
its workstation once (`runtime.rs:335`) and may outlive its session, an LLM
request has no time-out (`llm.rs:120`), and two agents that call each other in a
root chat are stopped by nothing (`runtime.rs:368`): the first needs the
composition of section 2, the others promise nothing to check.
Time is abstract: a time-out is a step that may happen.  Texts are abstract:
whom a message mentions and what an LLM answers are choices.  The ids of chats,
messages and sessions are unordered except in `Delivery`, where their order
matters.  SQLite statements are atomic and serial, as its writers are; a failing
statement is a fault or the end of the handler.

## 8. Running it

    tlc -workers 2 -config Sessions.cfg MCSessions
    tlc -config ThreadsShared.cfg MCThreads       # a configuration of section 6
    tlapm SessionsProofs.tla

`PROJECT.json` has the runs with their configurations, the mutants, the map
from definitions to source lines, the hazards and the theorems.
