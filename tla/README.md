# A verification development of the SentinelO2 agent

The repository is a compatibility agent, in Rust, for the SentinelX hub: a process on
a host that keeps one WebSocket to the hub, executes the requests that arrive on it and
answers them. These modules model the parts of it where the order of events matters, and a few
of its computations whose edges matter:
TLC checks them on small instances; TLAPS proves for every instance all but two of the
invariants and action properties that the runs check. Liveness, `WindowIsExact` and
`AnswerTellsTruth` rest on the runs alone.

Paths below are relative to `src/crates/sentinel0-agent/src/` unless they say otherwise.

## The system

| Part | State | Operations | Talks to |
|---|---|---|---|
| Process (`main.rs`, `instance_lock.rs`, `rotation.rs`, `identity.rs`) | lock file, `identity.json`, `identity.rotated.json` | start, lock, load identity, rotate, stop | supervisor, hub's HTTP API, `Agent::run` |
| Reconnect loop (`lib.rs`: `run`, `serve_one`) | `attempt`, `retry_hint`, one `JoinSet` of tasks | pause, connect, welcome, classify the end of a session | session loop, tasks |
| Session loop (`lib.rs`: `session_loop` and its handlers) | WebSocket, `last_pong`, heartbeat, response channel (64), notification future | a `select!` over cancellation, heartbeat, notification, task completion, responses and reads | hub, tasks (channel, `JoinSet`), store |
| Request tasks (`lib.rs`: `spawn_foreground_request`, `start_background_request`, `handle_binary_frame`) | one request each | dispatch, then answer through the channel, or persist and notify | dispatcher, store, session |
| Completion store (`pending_results.rs`) | directory of `<job_id>.json` | record (commit, prune), drain, clear, under a per-directory mutex | tasks, session loop, file system, wall clock |
| Dispatcher (`core.rs`, `fileops.rs`) | semaphore of scans | route an operation to its handler, deadlines and cancellation of scans | every handler below |
| Uploads (`upload.rs`, `edit_upload.rs`, `staging.rs`) | staging directories with metadata and numbered parts | init, chunk / transfer frame, complete, single-file upload and fetch | policy, file system |
| Exports (`file_export.rs`) | a map of sessions: path, next chunk, running digest | init, chunk, complete | policy, file system |
| Mutations (`fsmutate.rs`, `fsutil.rs`) and edits (`edit.rs`) | the host's files | move, copy, delete, chmod, chown, edit with a validator | policy, file system, `sudo` |
| Subprocesses (`process_runner.rs`, `process_output.rs`, `shell.rs`, `script.rs`) | process groups, bounded pipe buffers | run with limits, kill the group on timeout or cancellation | every handler that executes |
| Policy (`policy.rs`) and command segmentation (`segment.rs`) | immutable configuration | resolve a path, authorise a command line | every handler |
| Local API (`local_api.rs`), git (`git_ops.rs`, `project_snapshot.rs`), SSH helper (`ssh_target.rs`), audit (`local_audit.rs`), reports (`host.rs`, `progressive_help.rs`, `tooling.rs`) | sockets, children, log file | one request at a time | dispatcher |
| Protocol (`src/crates/sentinel0-proto`) | none | messages, binary frames, response bounding | both ends |
| Build cache and CI (`src/ops`, `src/.github`) | - | not part of the agent | - |

What is hard here: a worker task outlives the session that started it, so its completion
meets replays of another session; the only task that may send is also the one that must
notice that nothing is received; completions survive crashes on disk and are removed
after a send that may not arrive; the pruning order of the store depends on the wall
clock; credentials rotate on disk under a process that keeps the old one; uploads,
edits, mutations and git race on the same paths; readers meet files that change under
them; and a command is a tree of processes that forks, leaves its group and holds pipes
open while the agent tries to end it.

What makes each part correct is stated with the modules below, or in the plan.

## Modules

| Module | Models | How |
|---|---|---|
| `PendingStore` | the eviction rule of `pending_results.rs` | `Victims`: the files that at least `cap` others follow in the order of `json_files`. Used by the next two. |
| `PendingResults` | `record`, `drain`, `clear` with their mutex | a record is `Begin` (reads the clock), `Commit` (takes the mutex, writes), `Prune` (releases it); crashes and errors may hit between them |
| `PendingResultsProofs` | - | theorems about `PendingResults` |
| `CompletionDelivery` | the promise about a completion | idle, running, owed, handed or lost; abstract |
| `JobDelivery` | `start_background_request`, `replay_pending_results`, the notification and heartbeat branches of `session_loop` | one variable group per actor: tasks, store, session, network |
| `JobDeliveryProofs` | - | theorems about `JobDelivery` |
| `SessionLoop` | `session_loop`, `handle_*`, `send_outbound`, the task set | the loop is in `select` or inside a `sending`; time passes in units of the heartbeat |
| `SessionLoopProofs` | - | theorems about `SessionLoop` |
| `AgentProcess` | `main.rs`, `instance_lock.rs`, `rotation.rs`, `run` | per process a program counter, one shared lock, one rotated credential on disk |
| `AgentProcessProofs` | - | theorems about `AgentProcess` |
| `Uploads` | `upload.rs` with the commits of `fsutil.rs` | per handler thread a program counter and its locals; names point to inodes; one step per system call at which handlers meet |
| `UploadsProofs` | - | theorems about `Uploads` |
| `HostFiles` | `fsutil.rs`, the state that the next four share | paths and private siblings, directory entries with their owner and mode, system calls that may fail, one record per handler |
| `FileMutations` | `fsmutate.rs` | move, copy, delete, chmod, chown: direct rename, set aside and roll back, staged copy across volumes |
| `Edits` | `edit.rs`, `edit_upload.rs` | load, validate, back up, install: by rename, creation, in place, or sudo helpers |
| `GitWork` | `git_ops.rs`: clone, apply_patch, push | git itself is external |
| `FileReads` | `file_export.rs`, list and search of `fileops.rs` under `core.rs` | export sessions chunk by chunk; walks under permits and a deadline |
| `HostWork` | - | composes the five on the same paths; the properties |
| `HostAnswers` | - | `HostWork` with a history variable: what each handler's own steps have done to its destination, against what it answers |
| `HostWorkProofs` | - | theorems about `HostWork` |
| `ProcessTree` | the kernel's view of a command (external) | parents, groups, credentials, ends of pipes, reuse of ids; each may change at any time |
| `ProcessRunner` | `process_runner.rs`, `process_output.rs` | spawn, feed, read, wait, deadline, the look at `/proc` process by process, kill of the group, check and kill of the rest one by one, drain under grace, cancellation |
| `Scripts`, `StdioChild` | `script.rs`, `shell.rs`; the child of `call_stdio_jsonrpc` | what surrounds a run: the work directory, the conversation |
| `LocalApi` | `local_api.rs` | checks of the configuration, probe of the version, conversations |
| `AuditLog` | `local_audit.rs`, the end of `dispatch_inner` | append in two writes, retention check, trim by rename, under one lock |
| `AuditLogProofs` | - | theorems about `AuditLog` |
| `ReadWindow` | the one-pass read of `fileops.rs` with its lossy decoding and its clip, `CapturedStream` | algorithms, one unit or one read per step |
| `TextEdits` | the modes of `edit.rs` | algorithms, one occurrence per step |
| `HostCommands` | - | the sum of the last seven: they share no state, so each behaviour is one of one part |
| `HostCommandsProofs` | - | theorems about `HostCommands` and its parts, on top of `AuditLogProofs` |
| `MC...` | instances | values of the constants |

`JobDelivery` takes the store as atomic operations on a map of files and the order of
commits as their time stamp; `PendingResults` justifies that under its mutex and says
what changes when the clock is set back. `SessionLoop` leaves out the replays that
`JobDelivery` models, and `JobDelivery` the other traffic. `AgentProcess` takes a
session as one step whose ends are those of the two. `HostWork` is a composition with
shared state: all its handlers act on one `fs`. A validator, git and the sudo helpers are
awaited in it without the machinery of `ProcessRunner`: they end, fail or time out.

### Correspondence

* **Store.** `files[n]` / `store[j]` is the file `<safe_name(job_id)>.json`; `safe_name` is
  injective, so a name is the job. `mtime` and `stamp` order the files as `json_files`
  sorts them. `clear_pending(path)` removes by name: `Clear` does too.
* **Notify.** `waiter` is the pinned `notified_owned()` future (`armed`, `registered` once
  polled, `granted`), `permit` the one the `Notify` stores. Dropping a granted future
  passes the grant on.
* **Session.** An `ws.send().await` is a step of its own in `SessionLoop`; in `JobDelivery`
  the send and the clear of a replay are two steps and a loss, a crash or a `record` may
  fall between them. `ws.send` returning `Ok` puts a message on the wire, from where it
  reaches the hub or is lost with the connection.
* **Crash.** Tasks, channel, `Notify` and connection are gone, files stay. A graceful stop
  (`abort_all`) is a crash as far as completions are concerned.
* **Process.** Credentials are named by their time of issue. `load` precedes `acquire`, as
  in `main.rs`, so a process may wait with an identity that its predecessor rotates.
* **Uploads.** One session id and one destination: `meta`, `parts` and `assembled` are the
  session directory, `dest` the destination. Handlers run on blocking threads without any
  lock, so each of their system calls is a step. A name holds an inode because
  `File::create(assembled.bin)` truncates whatever inode has that name, a hard link gives
  it a second name and a handle outlives both. `cross` and `links` are drawn once: is the
  destination on another volume than the staging directory, do hard links work there.
  `fs::write` of a part is a truncation and a write; `meta.json` is written in one step.
  `expect`, `promised`, `creations` and `shared` are observations. Errors are steps back
  to `idle`: what a failed handler leaves behind stays.
* **Files of the host.** `fs` maps a path to a directory entry; `Staged(h)`, `Old(h)` and
  `Backup(h)` are the siblings with random names that handler `h` makes. `data` is whose
  text it is and whether it is whole, torn or mixed. `host` is drawn once: `cross` (source
  and destination on different volumes), `links` (hard links work), `root` (the agent may
  change owners), and `mix`, the requests that arrive. A crash is a handler that takes no
  more steps. `result` and `notes` are the answer and what it mentions; `effect` in
  `HostAnswers` is what the steps of the handler itself, not of the others, have made of its
  destination. A directory counts as not empty, except for a clone, to which it may be
  either.
* **Exports.** `exports[id]` is the session that `EXPORTS` holds; `hashed` what its hasher
  was given, `frames` the chunks as the client saw them.
* **Commands.** `proc[p]` is the process at a pid, `start` its start time; `stranger` and
  `newcomer` are processes of others that were given a freed pid, before the agent checked
  its start time or between that check and the signal. Processes may leave the group, gain
  rights, fork and exit at any time. `pipe` joins standard output and standard error.
  `run.pc` follows `run_argv_with_limits` statement by statement. A look at the tree is
  `StartLook`, then for each process `ListChildren` (one read of its children) and for each
  child `Identify` (one read of its start time); the order of the queue is left open, and
  the threads of a parent are read together. `armed` is the `ProcessGroupGuard`; `reader` and
  `taken` are the reader tasks and whether their handle is used up. Dropping the future
  (`Cancel`) enters the guard's kill. `use = "shell"` is every command without a work
  directory, so git and the relay of a local API too.
* **Audit.** `lock` is the `Mutex` of the module; a row and its newline are two writes, as
  in the code, so that a crash between them tears the row.
* **Local API.** An endpoint is a record of the choices its configuration makes;
  `HearLine` and `HearHttp` read a message that the service sent, and `seen` collects the
  versions that the service had during the call.
* **Texts.** The units of `ReadWindow` are bytes or UTF-16 words, told apart by what the
  decoding makes of them: a newline, a character of its own (of one byte in UTF-8, or of
  three), the lead of a longer one, or a trail. `Lossy` yields characters and `U+FFFD`,
  `Width` their bytes in UTF-8, and `Clip` cuts the content in bytes again. Which trails may
  follow which leads is abstracted. In `TextEdits` a character is a letter, and a regular
  expression is a literal.

## Checks

| Run | Bounds | What it shows |
|---|---|---|
| `pending_results` | 3 names, 2 writers, cap 2, one crash, one I/O error, one clock step back | `BacklogBound`: the cap is exceeded only by the record in progress and by cut or failed prunes. `RecordedSurvives`: without clock steps a prune never takes the file it was called for. `EvictsOldestFirst`. |
| `job_delivery` | 3 jobs, cap 2 (so that a third evicts), one lost connection, one crash | `PersistedUntilSent`, `WakeupNotLost`, `NoRepeatInSession`, and `KeepsPromise`: the refinement of `CompletionDelivery` |
| `job_delivery_live` | 2 jobs, one loss, one crash, one I/O error, fairness | `PersistedIsSent`, `FallbackIsSent` |
| `session_loop` | 3 requests (plain, export, job), limit 2, channel 1, 2 sessions | answers in their session, once, in order, whatever the channel holds; heartbeats; `CancelStops` |
| `session_blocked` | 1 request, sends may wait | finding: a blocked send disables the heartbeat deadline |
| `agent_process` | 2 processes, 2 crashes, clock to 6 with an enrolled validity of 6 and a rotated one of 2, 2 failures in a row | `SingleInstance`, `LiveCredentialChosen`, `RotationMovesForward`, `BackoffMatchesHistory` |
| `uploads` | 2 handlers, any 5 requests, 2 chunk indexes, `total_size` 0 or 2, one crash | `DestinationVerified`: the destination holds, at every moment, bytes whose size and digest were accepted. `OneCreation`: of racing uploads without overwrite at most one is installed. |
| `upload_clobber` | as above, up to the first counterexample | finding: a reservation does not protect what replaces it |
| `files` | 2 handlers, any of the requests of one of four mixes (changes, git, exports, walks), 2 paths, one in a directory that may be missing, 2 I/O errors, 2 chunks, 1 permit, 1 export session; with the history of `HostAnswers` | `WholeOrRecoverable`, `NoOverwriteKeeps`, `ResidueReported`, `AnswerTellsTruth`, `DigestIsOfFrames`, `ScanTellsTruth` |
| `commands` | commands: 6 kinds with one write and 2 process ids (`Few`), and a quiet one under sudo with 3, each id given out twice; 2 audit workers, rows to 8, retention of 2 with a trigger of 3; 2 calls of each kind of endpoint with one change of version; every text to length 4 of 6 kinds of bytes or 5 of words, caps to 4; outputs to length 6; edits of texts to length 4 | `ReachedAreGone`, `SparesStrangers`, `OutputComplete`, `AnsweredUnlessStdinHeld`; `RowsKept`, `RetentionBound`; `ProbedThisCall`; `LinesAreExact`, `WindowIsExact`, `KeepsHeadAndTail`, `ReplacesFirst` |
| `command_timeout` | the 6 kinds of command, up to the first counterexample | finding: a reader that ended before the deadline makes the cleanup panic |
| `command_cleanup` | the 6 kinds of command | finding: after a timeout the writer of the input is awaited without a deadline |

The bounds let every case of the code happen: a third completion for a cap of two, a
second session for a task that outlives the first, more answers than the channel holds,
a credential past its half-life, expired, rotated and expired again; an `upload_init`, both
chunks, an `upload_complete` and a fifth request that meets any of their steps; two
handlers on the same path at each of their system calls, with an error and a second one
in the cleanup after the first; a child and a grandchild of a command, so that
one can lose its parent and leave the group while `/proc` is read, and an id that a
stranger or the stranger's child takes over between any two steps of the kill. The kernel
gives an id to a stranger only if the agent looks at it or the stranger has a child there
(`Watched`): another stranger meets no step of the agent. The command with a grandchild has no
output (`quiet`), and those with output have one descendant, since the kill does not look at
pipes, nor the pipes at who signals. A third handler would add no new pair of steps on a
path, and the mixes only leave out pairs that meet on no path. Every property is
also checked against a plausible defect of the code (operators with the comment
`defect:`), which the same run must find.

**Fairness.** Tasks, the reconnect loop and the supervisor keep going: weak fairness.
`select!` starts at a random branch each time, so a branch that is ready again and again
is taken: strong fairness of the notification, heartbeat, response and cancellation
branches. Nothing is assumed about the hub or the network, except that connections can
be made again after the bounded number of losses. A session need not end.
In `HostCommands` the steps of the agent on its request are weakly fair: the runtime keeps
polling the task, its timers and its readers. Nothing is assumed about the processes of the
command: they may run, hold pipes and ignore their input for ever, which is why
`AnsweredUnlessStdinHeld` has its exception. `finish_stdin_write` has no deadline; after a
timeout that contradicts what `COMPATIBILITY.md` says, and `command_cleanup` shows it.

**What `DestinationVerified` excepts.** `shared` is set when an `upload_complete` opens
`assembled.bin` while another of the same session has not installed it yet, or while the
installed file still has that name (a crash or a failed removal after the hard link). The
truncation then reaches a file that was already verified, or even installed, and the
property fails without the exception after two requests to complete one session, or one
crash and a retry. Nothing in the agent prevents this: it relies on a hub that completes
a session once. Apart from that the property needs no discipline of the hub.

**What the properties of `files` except.**

* `ResidueReported` is about moves and copies. An edit that cannot remove its temporary file
  says so only when it fails under sudo; a link whose temporary name stays
  (`fsutil.rs:81`), a failed edit, and a sudo creation that was committed
  (`edit.rs:1132`) log it at best. A sync that fails returns before the cleanup, and a source
  that cannot be removed is reported without the old file that stays.
* `AnswerTellsTruth` compares the answer with `effect`. Errors with a mark are left out: a
  failed sync, a helper that timed out after its effect, a rollback or recovery that failed.
  A clone that fails removes the directory at its destination, whoever has put it there, and
  `git apply` has removed the old text when it finds the path taken: both are left out of
  the part about errors. A deletion that fails may have emptied a directory in part, and a
  creation may leave its empty reservation. `sudo mv` into a directory that has come up
  says ok.
* `WholeOrRecoverable` says that a backup is there. That a failed write in place is restored
  from it whenever possible (`COMPATIBILITY.md:134`) is not checked: `Recover` has both
  outcomes.
* An export that is asked for chunks ahead of their turn has a digest of less than the file;
  one whose session was replaced by another of the same id has that one's digest; and
  `list` says nothing of entries whose metadata fails for another reason than a missing
  permission (`fileops.rs:781`). `DigestIsOfFrames` and `ScanTellsTruth` say so.
* Whether a directory at the destination of a clone is empty is left open (`CheckClone`).

Without hard links a creation reserves its path with an empty file. Another edit may read
that file as its text, and a third handler may then meet its write in place: the backup
that stays is empty. `WholeOrRecoverable` allows an empty backup on such a host and on no
other. It takes three handlers to see it, one more than `files` has; the proof found it.

**What the other properties except.** `RecordedSurvives` promises nothing once the clock was
set back. `RowsKept` counts a row that was joined to a torn one as kept, since its bytes are
in the file, although `read_audit` skips that line. `ReplacesFirst` is about texts to look for
that are not empty. `ProbedThisCall` says that the call met a good version before it answered;
the service may be replaced after the probe. `ReachedAreGone` promises nothing of a process
whose parent exited during the look, or that started after its parent's children were read,
unless it is still in the group; a child that calls `setsid` and loses its parent at that
moment escapes. `SparesStrangers` has three exceptions: a stranger that leads the group of
the root's id once the root is reaped (`killpg` checks nothing), an id that passes on between
check and signal, and one that passed on before its start time was first read. A helper of
sudo that is given up at its deadline and signals later is not modelled.

**Findings.** The four violation runs are disagreements between the code and what
`src/COMPATIBILITY.md` or a test says; each counterexample is a legal run of the model.
Two more are known and have no run of their own. Two requests with one `job_id`: the replay
clears by name, so the clear of the first completion can remove the second, which is then
never sent (`lib.rs:535`; `COMPATIBILITY.md:55` says a completion is "removed only after
successful send"). `PersistedUntilSent` is violated with `JobOf <- RetriedJob`. And a
privileged creation that fails removes the parent directories that were missing when it
began, if they are empty, also one that another edit has made since (`edit.rs:1122`;
`COMPATIBILITY.md:133` says "only empty parent directories that the edit itself created").

## Proofs

`JobDeliveryProofs` proves, for every finite set of requests, every cap and every bound:

* `TypeCorrect`: the type invariant.
* `PersistedUntilSentHolds`: if no two requests share a `job_id`, a persisted completion
  stays stored until it is sent, expired or outlived by `Cap` later ones. The property
  is not inductive. `PersistInv` adds that a file is named after the job it holds, that
  stamps are distinct and bounded by the number of commits, that a request not yet
  recorded has no stamp, and that what a session clears it has sent. The eviction case is
  `VictimOutlived`: the files after a victim inject into the completions after its own.
  With `JobOf <- RetriedJob` TLC shows that the assumption cannot be dropped.
* `WakeupNotLostHolds`: no wake-up is lost, whatever the ids. `WakeInv` extends the
  property to the inside of a replay (what is announced is in the snapshot, being cleared
  or signalled) and says that a replay started by the notification has consumed its
  future, so that re-arming never throws a grant away.
* `NoRepeatInSessionHolds`: the invariant adds, for each stage of a replay, what has been
  sent and is still stored: only the completion between its send and its clear.
* `KeepsPromiseHolds`: the refinement of `CompletionDelivery`, under the same assumption
  on ids. `PersistInv` and `SessionInv` (where a completion is, from its end to its send)
  carry it: a lemma for each kind of action gives the abstract step, and an eviction is
  `VictimOutlived` again.

`PendingResultsProofs` proves, for any number of names, writers and faults and any cap:

* `BacklogBoundHolds`: `StoreInv` adds that one writer is between its commit and its prune,
  and that until the clock is set back its file is the youngest. A prune leaves at most
  `Cap` files, since a file that is no victim is followed by fewer than `Cap`.
* `RecordedSurvivesHolds` and `EvictsOldestFirstHolds`, as action properties. That a prune
  keeps something needs a last file of a finite set in the order of `json_files`; it comes
  from the strict subsets of followers, without induction over data.

`UploadsProofs` proves, for every set of handlers and inodes, every number of chunks and
every bound:

* `TypeCorrect`: the type invariant, with the fact that no part gets an index out of range.
* `DestinationVerifiedHolds`: `ContentInv` says whose inode every private name and handle
  is, what each of them holds at each step between its creation and its rename, and that
  a name which was given up is empty. While `assembled.bin` has one user, nothing that is
  open for writing is ever behind the destination. `MarkIsUnsent` only separates the
  observation of a reservation from what clients send.
* `OneCreationHolds`: `OneCreation` alone is not inductive, since a handler that holds a
  reservation renames without looking again. `CreationInv` adds that at most one handler
  is between a reservation and its end, that nothing was created before it, and that
  the destination is occupied from the reservation or the creation on.

`SessionLoopProofs` proves `AnswersStayInSessionHolds` for every set of requests, capacity
and limit. The property speaks of what was sent; `SessionInv` adds what is about to be:
everything in the response channel or half-sent belongs to this session and to a request
that has arrived for good, and both are empty between sessions. The other theorems:

* `AnsweredOnceHolds` and `FrameBeforeAckHolds`: `OnceInv` counts for each request what
  was answered, what waits in the channel and what is half sent: one of them at most, and
  none while its task runs.
* `SilentHubDroppedHolds` and `NeverDroppedUnaskedHolds`, for every interval and timeout:
  `ClockInv` relates the silence to the next tick and to the last Ping. Both assume that no
  send blocks, `~CanBlock`: the run `session_blocked` shows that this cannot be dropped.

`AgentProcessProofs` proves, for any number of processes, any schedule and any lifetimes:

* `SingleInstanceHolds` and `BackoffMatchesHistoryHolds`, over crashes and restarts. The
  invariant adds that a process which is not running has no history.
* `RotationMovesForwardHolds`: `ProcessInv` adds that a credential on its way to the disk
  is not older than the one there. The lock is needed: with two on their way the older
  could be written last.
* `LiveCredentialChosenHolds`: the choice is one step from the disk and the clock, so all it
  needs is that credentials are times.

`AuditLogProofs` proves, for `AuditSpec`, the part of `HostCommands` that is `AuditLog` by
itself, with any number of workers, errors and restarts (`HostCommandsProofs` lifts both to
the whole):

* `RowsKeptHolds`: one worker is between the lock and its release (`Alone`), the file holds
  the last rows in order, torn ones joined to the next (`Holds`, `LastRows`), and a trim in
  progress keeps the last `MaxLines` of them.
* `RetentionBoundHolds`: `GrowthInv` charges each row beyond the trigger to the counter of
  the process, to a restart that lost it, or to an error.

`HostWorkProofs` proves the properties of the run `files`, except `AnswerTellsTruth`, for any number of handlers,
names, chunks, permits and errors, every host and every set of requests. `Inv` has:

* the types, with `TreeInv`: under a directory that is gone there is nothing;
* per handler `Tidy` (which steps find a private file of the handler), `BackedBy`, `Told` (what a walk has found or has still to
  visit) and `Careful` (which steps a request that may not overwrite can reach);
* `Sessions` and `Clients`: a session belongs to one request, its hash is of as many chunks
  as were asked for, and the frames of a client that never asks ahead cover it.

The argument is local. `ServedIsOwn` and `ServedTouches` show for each of the 55 actions
that a step changes its own job only, and only paths of that job; elsewhere it can but
finish the text which it began to write in place. So `OthersKeep` gives the invariant of
every other handler at once, and each part is proved for the handler that moves, with one
proof step per action. `NoOverwriteKeepsHolds` follows from `Careful`.
`WholeOrRecoverableHolds` needs `Whole`: private copies are `Saved`, and either a whole
text is in a backup, or nothing but an unfinished copy holds part of one (`Unspoilt`).
`Unspoilt` alone is not inductive, as a write in place ends it; the backup it requires
(`BackedBy`) is what turns it into `Recoverable`, and no step undoes that. `Cloned` adds
what a clone may put back.

What the proofs changed in the model: a move onto itself answers at once and a copy onto
itself is refused (`fsmutate.rs`), which the runs had not met; a copy meets the text of
another writer only in a file; and `WholeOrRecoverable` has its case of hosts without
hard links.

`HostCommandsProofs` proves the safety properties of the run `commands`, except `WindowIsExact`, for `HostCommands`'s `Spec`: for any finite set of processes and any commands, texts, ranges,
caps, limits, reads, edits, endpoints and workers. Each part has an invariant of its own, which
says nothing while another part has the behaviour.

*The kill of a tree* (`RunInv`, kept by each action of the agent, the kernel and the command):

* `ReachedAreGoneHolds`: `Kin` says that the parent of a live process of the tree lives and was
  there no later. `Met` says of the look, at each of its reads, that who was there when it
  began and was met is in the snapshot, and that whose parent was listed has been found or
  met; so when nothing is left to read, the descendants of the root are in the snapshot, by
  induction along `Down`. `Aimed` says of the signals that who is of the snapshot and lives
  has still to be signalled, is aimed at, or was told of as an error. Both rest on `Ages`: no
  step of the kernel or of a signal brings an identity back or makes an old process the child
  of another.
* `OutputCompleteHolds`: `AllRead` says that a reader at its end saw the last holder of the
  pipe go, that the pipe is empty then, and that an answer without the mark comes only from
  there. `Holders` is what no step makes non-empty again: a descriptor passes to a
  descendant only from one who holds it.
* `SparesStrangersHolds`: `ChosenRightly` says that a stranger at which the agent aims is one
  whose identity it took for that of a descendant when it looked; for any other the check of
  the start time fails.

*The algorithms*, whose reference definitions are recursive over the text:

* `KeepsHeadAndTailHolds`: `CaptureInv` says that the head is the first bytes and the queue of
  chunks, glued together, the last ones. `CutToLimitKeeps` shows that the loop which cuts the
  queue ends at the limit and takes nothing but from the front.
* `LinesAreExactHolds`: `FileInv` says that the pass has, at every place, what the text says
  up to there, and that it stops only where nothing more is to come or at the first unit too
  many. Lines are counted by `LineAtNext`; `TakenPrefix` shows that what a truncated pass has
  is a beginning of what the whole text says. What the decoding and the clip make of the
  units (`WindowIsExact`) is left to the run: the proof would be an induction over both.
* `ReplacesFirstHolds`: `EditInv` says that there is a place up to which everything is done
  (`DoneTo`): the chosen matches before it are counted and replaced, none reaches over it,
  the output has the pieces up to it, and the rest is what comes after it. `FindsNext` shows
  that what `Find` meets in the rest is the next of the leftmost matches without overlap,
  `FindsLast` that nothing is left when it meets none. `GreedyIs` characterises that set
  without recursion, and `InterpretedIs` shows that escapes yield a text again.

*The others*: `ProbedThisCallHolds` (`ProbeInv`: the version that answers, and the one behind
an open connection, are among those seen since the call began, and the action is dialled only
after the probe has met a good one) for `ApiSpec`, and `HostProbesThisCall`, `HostKeepsRows`
and `HostBoundsRetention` for the whole.

Induction over data: the induction theorems of the library take an operator as a parameter,
which the provers cannot instantiate. `NatSetInduction` is induction over a set of numbers
instead, from the well-foundedness of `<` (a least counterexample would have a predecessor),
and `Recursion` derives from it that a function defined step by step exists. That the
recursive functions of the model (`Down`, `ChosenTo`, `Greedy`, the rounds of `CutToLimit`,
the escapes of `Interpreted`) and `FlattenSeq` are what their equations say follows, and so do
the lemmas about them. They are written as recursive functions for that reason.

Assumptions: the `ASSUME`s of `Uploads` (inodes and sizes are numbers, `MarkIsUnsent`), of
`JobDelivery` (finitely many requests, a positive cap), of `PendingResults` (the same about
names), of `SessionLoop` and `AgentProcess` (times are numbers, the timeout is longer than
the interval as `AgentConfig::validate` requires, `None` is neither a time nor a process),
of `AuditLog` (the limits of `local_audit.rs` in their order), of `HostWork` (there is a
name, 0 is no handler, the requests are requests), of `ProcessTree` (finitely many processes,
the root among them) and of `HostCommands` (commands, endpoints, ranges and limits are such,
and the characters of an edit are strings).

Model-checked only: liveness (`PersistedIsSent`, `FallbackIsSent`, `AnsweredUnlessOver`,
`CancelStops`, `AnsweredUnlessStdinHeld`), which needs fairness and ENABLED, and those are
beyond the provers; `WindowIsExact`, whose decoding is a recursion over the text on both
sides; and `AnswerTellsTruth`, which is about `HostAnswers`. Type invariants are proved where a proof rests on them; that of
`Uploads` is also checked, since it says that no part gets an index out of range.

## Plan

The race of `happy_eyeballs.rs` between `AgentProcess` and the network: the attempt that
loses is dropped, and the model takes the outcome as one step.

## Not modelled

Message encodings, formatting, logging and option parsing; corrupt store entries (no
writer of this program makes them); a missing state directory (the agent then runs without
lock and rotation); random job ids made up by the agent, which are taken to be fresh;
missed heartbeat ticks that tokio delivers in a burst after a long send; what is inside a
directory that is moved, copied or deleted; the internals of git, sudo and validators.

Parts with status `not_modelled` in `PROJECT.json`: the policy, the segmentation of command
lines and the bounding of responses are pure functions of strings and JSON values, whose
models would spell them out character by character; the wire protocol is types and
encodings; the connection race, the preflight and the SSH helper are one exchange each with
no state that outlives it; snapshots, host reports, help and tooling only read.
