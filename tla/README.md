# TLA+ models of the lush prompt-rendering core

This directory holds TLA+ models of the prompt-rendering core of lush's line editor (LLE).
It also holds the TLC configurations that check them.
Every module is written from the C sources under `src/`. `spec.md` says what the code is meant to do.

## 1. Inventory

### Components, their state and operations

| Component | Source | State it keeps | Operations |
|---|---|---|---|
| Async worker | `src/src/lle/core/async_worker.c` | `running`, `shutdown_requested`, FIFO queue (`queue_head/tail/size`), `next_request_id`, `total_requests/completed/timeouts`, one pthread, `queue_mutex`, `queue_cond` | init, start, submit, shutdown, wait, destroy, the worker loop (wait, dequeue, dispatch, count, callback), stats getters |
| Git status provider | `async_worker.c` 367-521 | none (fills a response) | `lle_async_get_git_status`: rev-parse, branch, symbolic-ref, rev-parse --short, status --porcelain, rev-list, merge/rebase file checks |
| Timed subprocess runner | `src/src/lle/core/git_command.c` | none (reentrant); one child process and one pipe per call | `git_command_with_timeout`: pipe, fork/exec, select with timeout, read/drain, trim, waitpid; `kill_child` escalation; `git_command_in_dir` |
| Expansion engine | `src/src/lle/prompt/prompt_expansion.c` | none (pure transformation into a bounded buffer) | `lle_prompt_expand`: pass 1 (template engine, external), then `expand_prompt_escapes` (ANSI passthrough, bash `\X`, zsh `%X`), `emit_color` |
| Powerline renderer | `src/src/lle/prompt/powerline_renderer.c` | none (pure) | `strip_ansi`, `collect_visible_segments`, `resolve_segment_colors`, `render_left_to_right`, `render_right_to_left`, bounded `buf_append` |
| Shell integration | `src/src/lle/lle_shell_integration.c` | `g_lle_integration` (arena-rooted record: editor, composer, event hub, `init_state` bits, `error_count`, `ctrl_g_count`, `last_ctrl_g_time_us`, `recovery_mode`, reset counters), `atexit_registered`, the at-exit one-shot flag, the static registries flag, `s_rendered_ps1` | init, shutdown, at-exit handler, soft/hard/nuclear reset, record_error, reset_error_counter, record_ctrl_g, update_prompt, notify_prompt_var_set, readline wrapper |

External collaborators have no code in this repository. They are the template engine (pass 1), composer, segment and theme registries, color model, event hub, arena, symbol table, history and editor.
They appear only as nondeterministic outcomes of the calls the modelled code makes.
The template engine is the exception: pass 1 is modelled from the spec, because its escapes interact with pass 2.

### How the components interact

* The **shell integration** owns everything on the main thread. It creates the event hub, the editor and the composer. Before each read-line it renders `PS1` through the **expansion engine** into `s_rendered_ps1`.
* The composer chooses between the expansion engine and the **powerline renderer** by theme style.
* The **async worker** is the only second thread. The main thread submits git-status requests. The worker thread runs the **git status provider**, which calls the **timed subprocess runner** once per probe. Each probe is a fork/exec with a pipe and a `select` timeout. The completion callback runs on the worker thread.
* Shared state between threads is only the worker struct, guarded by `queue_mutex`. The getters read it unlocked.

### What is hard

* **Interleaving and ordering (async worker).** submit, shutdown, wait and destroy on the main thread interleave with the worker loop. The worker loop releases the lock while it dispatches and while the callback runs. Hazards: a lost wakeup, stranded requests at shutdown, statistics seen by the callback, FIFO order, restart after a failed `pthread_create`, and destroy while the thread runs.
* **Timeouts and process control (subprocess runner).** The timeout covers only the first `select`. A signal during `select` bypasses it. Escalation is SIGTERM, then 100 ms, then SIGKILL. Every path must reap the child. The drain loop tests `errno` after `read` returned 0.
* **Failure paths and one-shot guards (shell integration).** Init can fail at several steps, and each failure tears down a different prefix. The at-exit handler and `g_registries_initialized` are process-wide one-shot flags. The reset ladder interacts with the error and Ctrl-G counters and with a time window.
* **Byte-level scanning (expansion engine, powerline).** CSI passthrough versus escapes. `\0` and `\x` can emit a NUL. Truncation is bounded, and in the powerline renderer it drops whole chunks. `strip_ansi` can read past an unterminated CSI. Two passes consume backslashes one after the other.

### What makes each component correct

* Async worker: every accepted request is answered exactly once, in submission order, and eventually. The statistics account for every request, and the callback sees its own completion. Shutdown drains the queue. wait after shutdown returns. destroy never leaves a thread on freed memory. A timed-out probe is reported.
* Subprocess runner: it returns within the timeout plus the escalation. `timed_out` implies `exit_status = -1`. No child is left unreaped on any path. Output is NUL-terminated and trimmed.
* Shell integration: a failed init leaves nothing registered. Shutdown happens at most once per init and at least once before exit. Three Ctrl-G presses inside the window cause exactly one hard reset and zero the count. The error threshold triggers a hard reset.
* Expansion engine: the output is NUL-terminated and fits the buffer. Text with no `\`, `%` or ESC is unchanged. Unknown escapes round-trip. CSI sequences pass through unchanged. Color downgrade follows the terminal's depth.
* Powerline: one separator per visible segment. The color transitions at each boundary are `fg = bg(i)`, `bg = bg(i+1)`. Embedded CSI is stripped without reading past the content.

## 2. Plan

The modules come in order of importance. The concurrent part comes first, then the timeout machinery it depends on, then the main-thread lifecycle, then the pure algorithms.

1. **AsyncWorker** (done in this sitting), with **AsyncService**, the abstract FIFO service it refines, and **MCAsyncWorker**.
2. **GitCommand** (done): one call of `git_command_with_timeout` as a process/pipe/time state machine. The child's behaviours are nondeterministic: exit quickly, write and exit, stall before or after writing, ignore SIGTERM. Signals during `select` are modelled too. Properties: bounded return time, no zombie, `timed_out => exit_status = -1`. The bounded-time property is stated from the spec and expected to fail.
3. **GitStatus** (done, second sitting): `lle_async_get_git_status` as its own state machine, one step per probe and one per porcelain line, with a run of its own. The run slot came from merging the two GitCommand pass runs into one. It is not composed into AsyncWorker's `Dispatch`: a status in every delivered response multiplies the worker's state space by the number of statuses per request. Inside AsyncWorker the call stays one step whose only observable is whether a probe timed out. Later in the same sitting: the cwd's length against `git_command_in_dir`'s 1024-byte command buffer.
4. **ShellIntegration** (done): init steps with failure at each step, shutdown, at-exit guard, re-init, soft/hard/nuclear reset, record_error, record_ctrl_g with an abstract clock. Properties: teardown after a failed init, at most one shutdown per init, the panic reset against the press history. Second sitting: the history save and reload around resets, the PS1/PROMPT sync and the default prompt's rendering, soft reset and the editing mode, in the same run.
5. **PromptExpansion** and **EmitColor** (done): pass 2 as a RECURSIVE operator over short byte sequences over an abstract alphabet (plain, `\`, `%`, ESC, `[`, digits, letters, NUL). Pass 1 comes from the spec. The spec's invariants 1-5 are checked over all inputs up to a bound, and `emit_color`'s cube approximation against a nearest-level reference. Second sitting: the `%F{`/`%K{` brace scan, composed with EmitColor's `EmitParams`, at three color depths.
6. **Powerline** (done): `strip_ansi`, left/right assembly and `buf_append` truncation as operators. Properties: separator count and transitions, no read past the terminator, with and without truncation.

Abstract specifications worth stating: `AsyncService` (done), a `TimedRun` contract that the GitCommand state machine should refine, and the expansion properties as reference operators.

## 3. Modules and runs so far

### AsyncWorker (`AsyncWorker.tla`, `MCAsyncWorker.tla`)

It models two actors. The **client** is the main thread, which calls start, submit, shutdown, wait and destroy. The **worker thread** runs `lle_async_worker_thread`.

Every critical section under `queue_mutex` is one atomic step. The steps are:

* `Start`: running check, then `pthread_create`, which may fail.
* `Submit(k)`: three outcomes, `INVALID_STATE`, `RESOURCE_EXHAUSTED`, or enqueue with signal.
* `Shutdown`.
* `Wait`, which reads `running` and then enters `pthread_join`, and `Join`, which returns from it.
* `Destroy`.
* `WorkerBlock`, `WorkerExit` and `WorkerDequeue`: the three exits of the locked wait at the loop top.

The unlocked stretches of the loop are steps of their own: `Dispatch` builds the response, `Count` raises `total_completed` under the lock, and `Callback` calls `on_complete` and frees the request.

The variable `wpc` is the worker's place in that loop. `"none"` means no thread exists, and `"exited"` means the thread finished but has not been joined. `delivered` is a history variable: the responses passed to `on_complete`.

Abstractions:

* A request is its id and kind.
* The git-status dispatch is reduced to its observable result. It always returns `LLE_SUCCESS`, and the environment chooses whether one of its probes timed out.
* A spurious wakeup of `pthread_cond_wait` re-runs the `while` test. That returns to a state `WorkerBlock` left, so it is not a separate step.
* The unreachable `if (!request) continue;` branch is omitted.

`ClientJoinsBeforeDestroy` selects the client.

* `TRUE`: the client follows the documented lifecycle. It calls wait only after shutdown, and destroy only once no thread exists.
* `FALSE`: it calls destroy whenever it likes, which the spec allows ("destroy from any state").

**Fairness.** The worker's steps are weakly fair, because it is a pthread the OS keeps scheduling. `Join` is weakly fair, because `pthread_join` returns once the thread has ended. The client has no fairness: a user may never call anything.

**Bounds** (`MCAsyncWorker`): queue capacity 2, 3 request ids, 2 starts, both request kinds.

* Three ids against a capacity of two make the full-queue refusal happen.
* Two starts allow a restart after a shutdown/wait cycle, or after a failed `pthread_create`.
* Both kinds exercise the success and the unimplemented-request paths.

There are 3,666 distinct states.

`Destroy` is allowed from every state, as spec 4.5 allows. From a running worker it frees the struct while the thread is still in its loop. No run states this; the hazard is listed in `PROJECT.json`.

`CHECK_DEADLOCK FALSE`: after `Destroy` the worker no longer exists and the model really stops. Hangs are caught by the liveness properties instead.

| Run | cfg | Expect | What it shows |
|---|---|---|---|
| `worker_lifecycle` | `AsyncWorker.cfg` | pass | `StatsAccounting`: total_requests = completed + queued + in flight, and completed already counts the request whose callback is running. `DrainedWhenNoThread`: whenever no thread exists, every accepted request has been answered. `ServiceRefinement`: the worker implements `AsyncService`, so answers come exactly once, in id order, and eventually. `JoinReturns`: a wait issued after shutdown returns. |
| `worker_timeout_unreported` | `AsyncWorkerTimeout.cfg` | violation | A git-status request whose probe timed out is answered with `LLE_SUCCESS` and `total_timeouts` stays 0. The spec says it gets a non-success result and is counted. |

### GitCommand (`GitCommand.tla`, `MCGitCommand.tla`)

It models one call of `git_command_in_dir` / `git_command_with_timeout` as two actors joined by a pipe.

The **parent** is the calling thread (the async worker). `pc` is its place in the function:

* `Spawn`: the command-length check, `pipe` and `fork`. Any failure returns `{-1, false}` with no child. On success the child inherits the shell's SIGTERM disposition, which may be SIG_IGN.
* `SelectReady`: `select` reports data or EOF.
* `SelectTimeout`: `select` returns 0. The parent closes the read end, sends SIGTERM (step 1 of `kill_child`) and sets `timed_out`.
* `Interrupted`: a signal interrupts a call blocked on the empty pipe. For `select`, the code treats -1/EINTR as "data available" and goes on to read. For `read`, both loops retry. Either way `errno` becomes EINTR.
* `KillWaitNoHang`: after the 100 ms grace, `waitpid(WNOHANG)`, then SIGKILL if the child is still alive. `KillReap`: the blocking `waitpid` that follows.
* `ReadChunk`: one iteration of `read_all_available`. A read returns any 1..n of the waiting bytes, returns 0 at EOF, or hands a full buffer to the drain loop.
* `Drain`: the drain loop. Its exit condition `n <= 0 && errno != EINTR` is kept exactly.
* `Reap`: close, trim, then the blocking `waitpid` that sets `exit_status`.

The **child** is `sh -c 'git ...'`:

* `ChildWrite`: writes a byte. With the read end closed, the write raises SIGPIPE and kills it.
* `ChildExit`: exits 0 or 1, or dies of an outside signal.
* `ChildDStall`: enters an uninterruptible sleep that never ends.

Abstractions:

* Bytes are counted, not named.
* The trim removes only newline bytes, so it is not modelled.
* There is no clock. The timeout is an event that can happen whenever the pipe has nothing readable, so it races late output. It is weakly fair, because wall-clock time keeps passing.
* The non-EINTR `select` error path is omitted. `select` on one valid fd with a valid timeout fails only with EINTR or ENOMEM.

**Environment.** The variable `env` is chosen once, from the constant set `Envs`, and never changes. It is a record of four fields:

* `signals`: whether signals reach the thread.
* `errno`: the `errno` the thread carries on entry. It is thread-local and is not cleared by successful calls, so an EINTR left by an earlier call is possible.
* `dstall`: whether the child may sleep uninterruptibly.
* `exits`: what is assumed of the child. `always`, `after_output` (a child that has written finishes), or `never_assumed`.

`Benign(env)` means no signals, a clear `errno`, no uninterruptible sleep and a child that finishes. Those are the conditions spec 4.1's bound is meant for.

**Fairness.** Every parent step is weakly fair, and so is the timeout. Signals are never fair.

**Bounds.** The child may write 3 bytes against a 2-byte buffer, so both the storing loop and the drain loop run. `cmd_returns` starts from all 24 environments. Each violation run starts from the one environment its finding needs.

| Run | cfg | Expect | What it shows |
|---|---|---|---|
| `cmd_returns` | `GitCommand.cfg` | pass | Every environment is covered: signals, a stale EINTR, and a child that hangs, ignores SIGTERM or sleeps uninterruptibly. In all of them, a call that returns has reaped its child (`ChildReapedOnReturn`). It also reports exactly what the child did (`ResultMatchesChild`): -1 and an empty buffer on timeout, otherwise the exit code and the first `output_size-1` bytes however `read` split them. In a benign environment every call returns, including after the SIGTERM/SIGKILL escalation (`ReturnsWhenBenign`). 5,442 states. |
| `cmd_partial_output_stall` | `GitCommandStall.cfg` | violation | The child writes and then hangs. The parent blocks in `read` forever, because the timeout covers only the first `select`. |
| `cmd_drain_spin` | `GitCommandDrainSpin.cfg` | violation | The output overflows the buffer after an earlier EINTR. The child exits, but the drain loop reads EOF forever, because `read` returning 0 does not clear `errno`. |

Together the two violations show that the spec's bound ("timeout_ms plus at most 100 ms of escalation") does not hold for this code. Both are fixable in the code. A third cause is in the model too, with no run kept. A signal during `select` (`Interrupted`) sends the parent into a blocking read, and on a child that never writes it stays there (trace Spawn, Interrupted). With `env.dstall` the model also shows a fourth way: a child in uninterruptible sleep survives SIGKILL, and `kill_child`'s blocking `waitpid` waits for it. No run keeps that case, because whether the child dies is up to the kernel.

### GitStatus (`GitStatus.tla`, `MCGitStatus.tla`)

It models `lle_async_get_git_status` (`async_worker.c` 380-520), the function the worker thread runs for a git-status request. The function is straight-line code, so `pc` names the probe it is at. Each probe is one step:

* `CheckRepo`: `rev-parse --git-dir`. On failure the function returns with `is_git_repo = false`.
* `GetBranch`: `branch --show-current` into `status->branch`. On failure it sets `is_detached` and goes to `DetachedCommit`, which reads `rev-parse --short HEAD` into `status->commit`.
* `CheckSymbolicRef`: `symbolic-ref HEAD` sets `is_detached` to its failure, overriding `GetBranch`.
* `GetCommit`: reads the short commit if it is still empty.
* `GetPorcelain`: `status --porcelain` into the 8 KiB buffer. On success the parse follows.
* `ParseLine` / `ParseEnd`: one iteration of the `while (*line)` loop each. A `?` line is untracked. Otherwise, when the second byte is not NUL, X and Y are tested against space and `?`. `strchr` then finds the next newline.
* `GetAheadBehind`: `rev-list --left-right --count`, read with `sscanf`.
* `GetMergeState`: `rev-parse --git-dir` again, then the `access` checks for `MERGE_HEAD`, `rebase-merge` and `rebase-apply`.

**Abstractions.**

* Git is an oracle. A repository is a record: its kind (not a repository, on a branch, unborn, or detached), its porcelain lines, an upstream with ahead/behind counts, and whether a merge or rebase is in progress. `Answer` gives what each probe prints and whether it exits 0. For example, `branch --show-current` succeeds with an empty name on a detached HEAD, and `rev-parse --short HEAD` fails in an unborn repository.
* Every probe may time out (`Probe`). A timed-out probe returns false with an empty buffer, as `git_command_with_timeout` does. The history variable `timedOut` records whether any probe of the call timed out.
* Every probe goes through `git_command_in_dir` (`git_command.c` 211-227), which prints `git -C '<cwd>' <args> 2>/dev/null` into `char cmd[1024]`. When that does not fit, the call returns exit -1 without running git, and the probe fails like a timed-out one but is not recorded as a timeout. The variable `dlen` is `strlen(cwd)`. `ArgsLen` gives each probe's argument length, and `CmdFits` is the `n >= sizeof(cmd)` test. The rev-list probe stops fitting at a 954-byte cwd, `rev-parse --short HEAD` at 980, `branch --show-current` at 981, and `rev-parse --git-dir` at 983.
* The porcelain output is bytes: `XY path\n` per line. It is cut to `Cap` bytes, and its trailing newlines are stripped (`Received`), which is what `read_all_available` and the trim in `git_command_with_timeout` do.
* Names and hashes are model values.

**Bounds** (`MCGitStatus`): 1,315 repositories. They cover each kind, 0 to 2 porcelain lines of kinds `??`, ` M`, `M ` and `MM` with one- or two-byte paths, tracking or not, and merging, rebasing or neither. The buffer keeps 7 bytes, so output fits whole, or is cut one or two bytes into its second line. The cwd is 1, 954, 980, 981 or 983 bytes long: one length where every command fits, then one at each length where one more probe stops fitting. 265,968 states in about 10 s.

`CHECK_DEADLOCK FALSE`: the function returns.

| Run | cfg | Expect | What it shows |
|---|---|---|---|
| `git_status_probe` | `GitStatus.cfg` | pass | `StatusMatchesRepo`: when no probe times out and every command fits `cmd[1024]`, the status is the one spec 4.5 describes for the repository, in every repository kind. That includes a detached HEAD mid-rebase, where `branch --show-current` and `symbolic-ref` decide `is_detached` one after the other (the spec's open question). The counts match too, when the output fits. `CountsBracketed`: whatever is truncated and whatever times out, each count is at least what the lines received whole give, and at most what git's full output gives. A line cut to one byte (`M` then NUL) is not counted. This also holds at every cwd length. |

With timeouts the status can describe no repository at all. If `symbolic-ref` times out after `branch --show-current` succeeded, the status has branch `main` and `is_detached = TRUE` (trace CheckRepo, GetBranch, CheckSymbolicRef timed out). If `branch --show-current` times out and `symbolic-ref` then answers, the status is on no branch and not detached. Both come from `run_git_in_dir` folding a timeout into "command failed", which is the finding of `worker_timeout_unreported`. The spec leaves the intended semantics of the two probes open, so no run asserts one.

A long cwd degrades the status with no timeout at all. `StatusMatchesRepo` without the `AllFit` premise fails on an attached repository with a 981-byte cwd. `rev-parse --git-dir` and `symbolic-ref HEAD` fit. `branch --show-current` and `rev-parse --short HEAD` do not. The status then claims a repository with an empty branch, no commit, and `is_detached = FALSE`. At 954 to 979 bytes only ahead/behind are lost, reading 0. Nothing reports why. `PROJECT.json` lists this as a numeric_edge hazard. It has no violation run of its own, because it is the same folding of "could not run" into "failed" that `worker_timeout_unreported` already shows.

### ShellIntegration (`ShellIntegration.tla`, `MCShellIntegration.tla`)

It models the main thread's calls into `lle_shell_integration.c`, from process start to `exit()`. Each object is a boolean (alive or not): `integ` (`g_lle_integration`), the session `arena`, the event `hub`, the shell `hooks` bridge, `editor`, `composer`, and the static `registries`. Each call into a collaborator that can fail is a nondeterministic outcome.

The editor also carries `histsys` (its history core, whose creation may fail without failing the editor), `mem` (the entries that core holds), `abort` (`abort_requested`) and `mode` (`editing_mode`, as far as this file sets it). `disk` is `$HOME/.lush_history`. `ps1` and `prompt` are the symbol table's `PS1` and `PROMPT`, and `rendered` is the static `s_rendered_ps1`. A prompt format is a record: its source text, whether it is valid UTF-8, whether `lle_prompt_expand` succeeds on it, and what it expands to. The expansion engine itself is modelled in PromptExpansion; here it is an oracle. The environment `env` is chosen once: whether `HOME` is set, whether the uid is 0, and `config.display_newline_before_prompt`.

* `LleInit`: `lle_shell_integration_init`. A failure before the hook bridge leaves no trace, so it is a stuttering step. An editor failure destroys the hub and the arena. On success the editor is created (`EditorCreated`: the history core may fail, and a core loads the file when `HOME` is set). `ConfigureComposer` may fail at the registries or at the composer. A composer that comes up writes the theme's format to `PS1` (`"$ "` when the theme has none) and syncs `PROMPT` to it. Atexit is registered once per process. The fresh record has zero counters.
* `Shutdown` / `ShutdownEffect` / `DestroyPromptComposer` / `DestroyEditor`: the teardown. The history is saved first (`SaveHistory`: only with a history core and `HOME` set). The registries are cleaned up only through an existing composer.
* `AtExit`: `exit()` runs the registered handler once, guarded by its static `shutdown_complete`.
* `HardReset`, `NuclearReset`: both use `HardResetEffect`. It saves the history, then recreates the editor (`CreateAndConfigureEditor`: `lle_editor_create` may fail) from the saved file, and zeroes the counters.
* `RecordError`, `ResetErrorCounter`.
* `RecordCtrlG`, `CtrlGCount`: the unsigned window test against `last_ctrl_g_time_us`. The press happens at some `PressTime` not before the clock's last reading. `lle_record_ctrl_g` is the only reader of the clock, so advancing time at presses loses no behaviour and keeps the clock from interleaving with every other step.
* `SoftReset`: `lle_soft_reset` sets the abort request. The buffer and navigation cursor it also clears are not modelled.
* `UpdateEditingMode`: `set -o vi|emacs`, then `lush_update_editing_mode`.
* `AddHistory`: the history core records an entry. That code is outside this repository, so this action is modelled from spec 4.6.
* `NotifyPromptVarSet`: shell code assigns `PS1` or `PROMPT`, and `lle_shell_notify_prompt_var_set` copies the value to the other name. `PS2` only notifies the composer, whose cache is external.
* `UpdatePrompt` (`UpdatePromptEffect`): `lle_shell_update_prompt`. Without a composer it writes the fallback (`"$ "`, `"# "` for uid 0). Otherwise a format that is not valid UTF-8 is replaced by the fallback format. Its expansion, or the fallback if expansion fails, is written after the optional newline.
* `ReadlineDefaultPrompt` / `ReadlineGivenPrompt`: `lush_readline_with_prompt` with a NULL prompt (render, then display `Effective(rendered)`, which is `"$ "` for an empty prompt) or with the caller's. `lle_readline` consumes the abort request.

`presses` is a history variable. It holds the times of the Ctrl-G presses since the last hard reset, trimmed to the last `PanicCount`. `entered` counts the entries the user entered.

Omitted:

* `recovery_mode`. `lle_record_error` sets it and `lle_hard_reset` clears it inside the same call, so no caller ever sees it set.
* Statistics that no property reads: `total_readline_calls`, `successful_reads`, and the init and reset timestamps.
* A `PS1` that is unset, and a failed `strdup` of the 3-byte fallback. On that path root gets `"$ "`.
* History file I/O errors. The history core's save and load are taken to succeed.

**Bounds.**

* Error threshold 2.
* Panic count 3, as in the spec.
* A 2-tick window over a 3-tick clock. Runs of presses both continue and break, and a gap of exactly the window occurs.
* At most 2 hard resets.
* One history entry: enough to be kept or lost.
* The user assigns a format the engine fails on, or one that is not valid UTF-8. The theme has a format that renders, or none.
* Three environments. `HOME` acts only on the history, the uid only on the fallback text, and the newline only on the prefix. The three environments give each field both values.
* 1,823,664 states, in about 2.5 minutes.

`CHECK_DEADLOCK FALSE`: nothing follows `exit()`.

| Run | cfg | Expect | What it shows |
|---|---|---|---|
| `shell_lifecycle` | `ShellIntegration.cfg` | pass | `TornDownWhenInactive`: no editor, composer, hub or arena outlives its integration, through failed inits, shutdown, re-init and exit. `ExitShutsDown`: after an explicit shutdown and a re-init, the at-exit handler still shuts the new integration down. `PanicCountMatchesPresses`: the incremental `ctrl_g_count` always equals the length of the current run of presses that are each within the window of the one before, counted since the last hard reset of any kind. A full run never survives. `HistoryPreserved`: with `HOME` set, an editor with a history core holds every entry entered. That holds across automatic and explicit hard resets, re-creations that failed, shutdowns and re-inits. |
| `shell_init_dangling_hooks` | `ShellIntegrationHooks.cfg` | violation | If init fails at editor creation, it destroys the hub but never calls `lle_shell_hooks_cleanup`. The hook bridge stays registered with a freed hub. Trace: one `LleInit`. |

With `HOME` unset, a hard reset loses the session's history. `lle_hard_reset` neither saves nor reloads it, although its comment says a hard reset preserves history. Trace: `LleInit`, `AddHistory`, `HardReset`, with the HOME condition taken out of `HistoryPreserved`. The spec ties persistence to `${HOME}/.lush_history` and says nothing of an unset `HOME`, so it is a hazard, not a run. After a re-init, composer creation writes the theme's format over a `PS1` the user had set. After a hard reset, the editing mode is whatever `lle_editor_create` gives, since nothing calls `lush_update_editing_mode`. The spec is silent on both. `record_error` has no property: the hard reset at `error_count >= LLE_ERROR_THRESHOLD` is one guard, and the `recovery_mode` it sets is cleared by `lle_hard_reset` in the same call.

### PromptExpansion (`PromptExpansion.tla`, `MCPromptExpansion.tla`)

It models one call of `lle_prompt_expand`. Bytes are their integer codes.

* `Init`: the format, `getuid()`, `ctx->color_depth`, and whether a template context is given. With a context, pass 1 (`TemplatePass`, from the spec: the engine's code is external) rewrites `\n`, `\\` and `\$` and leaves the rest. `src` is the pass-2 input.
* One action per branch of `expand_prompt_escapes`' loop, each taking one iteration:
  * `ScanAnsi`: ESC, and after `ESC [` the bytes for which `*p < 0x40` holds on a signed char (`SignedBelow40`), then one final byte.
  * `ScanBash`: the `\X` switch (`BashEscape`), with the `\0` and `\x` digit loops (`OctalScan`, `HexScan`) and `val <= 255`.
  * `ScanZsh`: the `%X` switch (`ZshEscape`). `%F{` and `%K{` run the brace scan (`BraceScan`). It takes the spec up to the next `}`, or to the end of the string when there is none. It keeps at most 63 bytes and skips the `}`. Then it calls `emit_color`. `%F` or `%K` without `{` appends nothing.
* `emit_color` is composed from EmitColor. `ColorSpecOf` is its parse of the spec bytes: `sscanf` for `#RRGGBB`, `strtol` read to the end (`FoldLeftDigits`), or the name table. `Color!EmitParams` gives the SGR parameters. `Sgr` and `Decimal` are the `snprintf` that prints them as `ESC [ n;...m`.
  * `%D` (`DateScan`): with `{`, the same brace scan (`BraceText`) keeps at most 127 bytes of the format and skips the `}`. Without `{`, the format is `%y-%m-%d` (`DefaultDate`). The result is `strftime`'s. `Strftime` is a libc oracle at a fixed time (9 Nov 2026): `%Y %y %m %d %D` give that date, `%%` gives `%`, and any other conversion is copied as is.
  * `ScanPlain`: any other byte, a trailing `\` or `%` included.
* `Put` is `buf_append_char`/`buf_append_str`: bytes go in while `pos + 1 < size`.
* `full` is a history variable: what the scan emitted, with no buffer limit.

Escapes whose value comes from the system (`\h \H \w \W \d \t \! \j \l \s \v`, `%n %M %d %~ %c %T`) are the same control as `\u` and `%m`: a string appended with `buf_append_str`. Inside the scan they are represented by those two, expanding to fixed 2- and 1-byte strings. `%m`'s string is `HostnameShort` of a fixed `gethostname` result (`h.d`). What the host and cwd strings are is checked separately, by CwdDisplay (below).

The reference `SpecExpand` is written from spec 4.2's dispatch and tables, over a whole string. A CSI runs to a final byte in `0x40..0x7E`. A digit run is the longest prefix of at most 3 octal or 2 hex digits. Fixed escapes are table lookups. `SpecColor` applies the spec's color rules to the text of `%F{...}`/`%K{...}`. An integer 0..255 gives `ESC[38;5;Nm` at depth 256 and `ESC[(30|40)+N%8m` at basic. Any other text is dropped. At depth none, everything is dropped. The spec does not say what a bare `%F`, or a spec with no closing `}`, does. Only there does the reference (`SpecBrace`) take the code's behaviour: it emits nothing, and the spec runs to the end of the string.

**Bounds.** Every format of up to 4 bytes over ESC `[` `\` `%` `0` `1` `x` `u` `$` `m` `F` `{` `}` and the UTF-8 lead byte 0xC3. These mix a brace scan with the other escapes, as in `%F{\u` or `%F{}`. Every 5-byte format over `%` `F` `K` `{` `}` `1` `9` is checked too: closed specs with a number (`%F{1}`, `%K{9}`) or with text, and specs opened twice. So is `%D` followed by up to 4 bytes over `%` `D` `{` `}` `Y` `.`: a bare `%D`, empty and unclosed braces, and date conversions inside them. The reference's `SpecDate` takes the brace text as the spec's row says and hands it to the same `Strftime`. Each format is checked with and without a template pass, as root and not, at color depths none, basic and 256. Truecolor differs from 256 only for `#RRGGBB`, which EmitColor covers. The output buffer has 4 bytes, so expansions, color escapes included, are cut mid-string. 3,428,628 states in about 2 min 30 s.

**Fairness.** None. Every branch of the scan advances `p`, so the loop ending holds by construction and no liveness property is checked; the properties are stated on return (`Done`) or at every step.

`CHECK_DEADLOCK FALSE`: the function returns.

| Run | cfg | Expect | What it shows |
|---|---|---|---|
| `expand_tables` | `PromptExpansion.cfg` | pass | `ExpansionFollowsTables`: on return, the scan emitted exactly what the spec's tables give for its input. `TruncatedToPrefix`: at every step the buffer holds the first `size-1` emitted bytes, so no later short expansion is squeezed in after one that did not fit. |
| `expand_tables` (cont.) | | | `SystemEscapesFollowSpec` (stated in `MCPromptExpansion`, over the sets below): `\h`/`%m`, `\w`/`%~` and `\W`/`%c`/`%.` render what spec 4.2's rows say. |
| `expand_template_pass` | `PromptExpansionTemplate.cfg` | violation | With a template context, which `lle_shell_update_prompt` always passes, pass 1 turns `\$` into `$` before pass 2 sees it. Root gets `$`, not `#`. Trace: format `\$`, uid 0. |

Also found while modelling, with no run kept: `\0` followed by a non-octal byte appends a NUL. The rest of the prompt is then invisible to every reader of the C string. A `%F{` with no `}` swallows the rest of the format into the color spec. No later escape or text is shown, and the color is dropped unless the rest happens to be a color. The spec does not say what should happen.

Two smaller differences from spec 4.2. First, `\l` appends the basename of `ttyname()` (`0` for `/dev/pts/0`), while the spec's row says it is the component after `/dev/` (`pts/0`); `%l` does that. Second, `\u`'s user and `\$`'s root test use `getuid()`, the real uid, where the spec says effective uid.

### CwdDisplay (`CwdDisplay.tla`)

It models the helpers that compute the system-valued strings, as operators. Strings are byte sequences without their NUL. A user-database entry is a record `[found, dir]`, with `found` FALSE when `getpwuid` returns NULL. A host name is `[ok, name]`, with `ok` FALSE when `gethostname` fails.

* `HostnameShort` is `get_hostname_short`: the empty string on failure, else the name cut at the first `.` (`strchr`).
* `HomeMatches` is the test in `get_cwd_tilde`: `strncmp` on the home's length, then `cwd[hlen]` must be `/` or the end.
* `CwdTilde` is `get_cwd_tilde` with `get_cwd_full`: `~` followed by the rest of the cwd, or the cwd itself. `Snprintf` truncates either to `PATH_MAX - 1` bytes.
* `CwdBasename` is `get_cwd_basename`: `~` and `/` stay as they are. Otherwise it takes what follows the last `/` (`strrchr`, via `SelectLastInSeq`), or the whole string when there is none.

The references come from spec 4.2's rows:

* `SpecHost` is the longest prefix with no dot.
* `SpecTilde` replaces the home when the cwd is the home followed by a suffix that is empty or starts with `/`.
* `SpecBasename` is the longest suffix with no `/`, except that `/` stays `/`.

`EscapesAgreeOn(Hs, Pws, Cs)` compares code and reference over given sets. `MCPromptExpansion` states `SystemEscapesFollowSpec` over its own sets, as part of `expand_tables`:

* host names: a failed call, an empty name, `h`, `h.d`, `.d` and `h.d.e`;
* entries: not found, and homes "", `/`, `/a`, `/a/` and `/ab`;
* cwds: the empty string of a failed `getcwd`, `/`, and every path of one or two components from `a`, `b`, `ab`.

`PATH_MAX` is 8, more than the longest cwd. The comparison itself, `SystemEscapesHold`, is a constant formula. TLC evaluates it once, which is why it takes plain sets rather than constants overridden in the cfg. The property makes it a state invariant: it holds wherever the scan stands.

Its mutant drops the "followed by `/` or end" check. Home `/a` then turns cwd `/ab` into `~b`.

Also found while modelling, with no run kept: with `PATH_MAX` 7, the same sets violate the property. An empty `pw_dir` matches every cwd, and `"~%s"` of a cwd of `PATH_MAX - 1` bytes loses its last byte to `snprintf`. Only an account whose home field is empty can reach this. Not modelled: `gethostname` truncating names longer than the 256-byte buffer.

### EmitColor (`EmitColor.tla`, `MCEmitColor.tla`)

It models `emit_color` as one action, `Emit`, over a parsed spec: a `#RRGGBB` triple, a strtol result, or a word looked up in the named table. It also takes the color depth 0..3 and `%F`/`%K`. The escape is abstracted to its SGR parameters. R ranges over all of 0..255; G and B over 0, 60, 128 and 255.

| Run | cfg | Expect | What it shows |
|---|---|---|---|
| `color_cube_nearest` | `EmitColorCube.cfg` | violation | `ci = (c > 47) ? (c - 35) / 40 : 0` maps 48..74 to cube level 0, although level 95 is nearer. For example `#00003C` becomes index 16 (black). |

### Powerline (`Powerline.tla`, `MCPowerline.tla`)

It models one call of `lle_powerline_render`.

* `Init`: the enabled segments and the direction. Also the terminal's capabilities (truecolor, 256 colors or basic), whether the theme sets a text color, and `output_size`. Each segment has a fate:
  * one of the five reasons `collect_visible_segments` skips it (missing from the registry, `is_visible` false, `show = false`, render failed, render empty);
  * or `ok`, with its raw content, its name (for `default_segment_bg`) and whether the theme sets its bg.
* `CollectSkip`, `CollectKeep`: one iteration of the collection loop. A kept segment's content goes through `StripAnsi`, which follows `strip_ansi`'s loop byte by byte. Its colors come from `ResolveFg`/`ResolveBg`, then `Downgrade` (from the spec: the color model is external).
* `CollectDone`: the loop ends at the last segment or at `POWERLINE_MAX_VISIBLE`. With nothing visible the output stays empty.
* `RenderLeft`, `RenderRight`: one iteration of `render_left_to_right` / `render_right_to_left`. `RenderEnd` is the trailing reset of the right-to-left path.
* The output is a sequence of chunks, one per `buf_append` call. A chunk is appended only if `pos + len < size`, so a chunk that does not fit is dropped whole. `full` is a history variable holding every chunk attempted.

Color escapes are abstracted to their color and a length per mode (17, 10 or 5 bytes). The separator is abstracted to its 3 bytes.

**Bounds.**
* Up to 3 enabled segments.
* `POWERLINE_MAX_VISIBLE` is 2, so the cap is reached.
* Content is one of `a`, `ESC[;m a`, `a ESC[;` (an unterminated CSI) and `ESC[m` (only a CSI).
* Buffers of 60 bytes (two segments do not fit) and 1024 bytes.
* 1,682,064 states.

`CHECK_DEADLOCK FALSE`: the function returns.

| Run | cfg | Expect | What it shows |
|---|---|---|---|
| `powerline_render` | `Powerline.cfg` | pass | `SeparatorPerSegment` (spec 8, invariant 6): one arrow per visible segment in both directions. `ArrowsMatchBlocks`: each arrow's colors, as the terminal holds them when the glyph is written (bg and fg escapes set them, a reset clears both), are the backgrounds of the blocks it joins, and the terminal default at the open end. `StrippedPerSpec`: each block's content is its render output with every CSI removed. The first two are stated for renders that fit. |

With truncation, `ArrowsMatchBlocks` fails. `buf_append` drops a 10-byte color escape but appends the 3-byte separator after it, so the arrow is drawn in the previous color. The spec allows silent truncation, so this is listed as a hazard, not as a run.

## 4. Not modelled

* The completion and syntax-highlighting bridges and `populate_history_config` are read-only lookups or copies of configuration values.
* The unlocked getters (`is_running`, `pending_count`, `get_stats`) change no state.
* Request allocation is plain `calloc`/`free`.
* The external collaborators listed above have no code in this repository.
* The quoting of `cwd` in `git_command_in_dir`'s `sh -c` line (`git_command.c` 218) is a question about shell word splitting, not a state machine. GitStatus treats the directory as opaque. A directory name with a quote in it is reported as no repository, and a crafted name runs commands. `PROJECT.json` lists it as a hazard.
* The history core's file I/O (a failed save or load) and `lle_editor_create`'s choice of editing mode are outside this repository. Their consequences are listed as hazards.
