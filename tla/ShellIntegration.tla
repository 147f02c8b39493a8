--------------------------- MODULE ShellIntegration ---------------------------
(***************************************************************************)
(* The shell-level lifecycle of the line editor                           *)
(* (src/src/lle/lle_shell_integration.c): init with its failure paths,    *)
(* shutdown, the at-exit handler, re-init, the hard and nuclear resets,    *)
(* error recording and Ctrl-G panic detection.                             *)
(*                                                                         *)
(* It also models the editor's history persistence across resets,       *)
(* the PS1/PROMPT variables and the rendering of the default prompt       *)
(* (lle_shell_update_prompt, lush_readline_with_prompt), the soft reset   *)
(* and the editing-mode update.                                            *)
(*                                                                         *)
(* Objects are booleans (alive or not).  Every call into a collaborator    *)
(* that can fail (arena, event hub, editor, history core, registries,      *)
(* composer) is a nondeterministic outcome.  Time is an abstract           *)
(* microsecond clock.  A prompt format is a record: the format string's    *)
(* name, whether it is valid UTF-8, whether lle_prompt_expand succeeds on  *)
(* it, and the text it expands to.                                         *)
(***************************************************************************)
EXTENDS Naturals, Sequences, FiniteSets

CONSTANTS
    ErrorThreshold,  \* LLE_ERROR_THRESHOLD
    PanicCount,      \* LLE_CTRL_G_PANIC_COUNT
    PanicWindow,     \* LLE_CTRL_G_PANIC_WINDOW_US, in clock ticks
    MaxTime,         \* bound on the clock
    MaxResets,       \* bound on hard_reset_count
    MaxEntries,      \* bound on the history entries the user enters
    UserFormats,     \* formats the user may assign to PS1 or PROMPT
    ThemeFormats,    \* ps1_format of the default theme (src "" when empty)
    Envs             \* the process environments to explore

ASSUME ErrorThreshold \in Nat \ {0} /\ PanicCount \in Nat \ {0}
ASSUME PanicWindow \in Nat \ {0} /\ MaxTime \in Nat /\ MaxResets \in Nat
ASSUME MaxEntries \in Nat

(* A prompt format string: src names it ("" is the empty string), utf8 is *)
(* lle_utf8_is_valid, expands is lle_prompt_expand's success, out is what *)
(* it expands to.                                                          *)
Formats == [src : STRING, utf8 : BOOLEAN, expands : BOOLEAN, out : STRING]

(* The literal "$ " that composer creation writes when the theme has no   *)
(* ps1_format.                                                             *)
DollarFmt == [src |-> "$ ", utf8 |-> TRUE, expands |-> TRUE, out |-> "$ "]

ASSUME UserFormats \subseteq Formats /\ ThemeFormats \subseteq Formats

(* The environment: $HOME set, getuid() == 0, and                          *)
(* config.display_newline_before_prompt.                                   *)
Environments == [home : BOOLEAN, root : BOOLEAN, newline : BOOLEAN]

ASSUME Envs \subseteq Environments /\ Envs # {}

VARIABLES
    integ,             \* g_lle_integration != NULL
    arena,             \* the session arena exists
    hub,               \* the shell event hub exists
    hooks,             \* the shell hook bridge has handlers registered
    editor,            \* integ->editor exists
    composer,          \* integ->prompt_composer exists
    registries,        \* g_registries_initialized
    atexitRegistered,  \* atexit_registered (static)
    shutdownComplete,  \* the at-exit handler's static shutdown_complete
    exited,            \* the process has called exit()
    error_count,
    ctrl_g_count,
    last_ctrl_g_time_us,
    hard_reset_count,
    nuclear_reset_count,
    now,               \* get_timestamp_us()
    presses,           \* history: Ctrl-G times since the last hard reset
    env,               \* the process environment, fixed for the run
    histsys,           \* editor->history_system exists
    mem,               \* the entries held by editor->history_system
    abort,             \* editor->abort_requested
    mode,              \* editor->editing_mode, as far as this file sets it
    disk,              \* the entries in $HOME/.lush_history
    entered,           \* history: the number of entries the user entered
    ps1, prompt,       \* the symbol table's PS1 and PROMPT
    rendered           \* s_rendered_ps1

vars == <<integ, arena, hub, hooks, editor, composer, registries,
          atexitRegistered, shutdownComplete, exited, error_count, ctrl_g_count,
          last_ctrl_g_time_us, hard_reset_count, nuclear_reset_count, now, presses,
          env, histsys, mem, abort, mode, disk, entered,
          ps1, prompt, rendered>>

objects == <<integ, arena, hub, hooks, editor, composer, registries>>
counters == <<error_count, ctrl_g_count, last_ctrl_g_time_us, hard_reset_count,
              nuclear_reset_count, presses>>
edstate == <<editor, histsys, mem, abort, mode>>
inputs == <<env, entered>>
prompts == <<ps1, prompt, rendered>>

(* A prompt string as s_rendered_ps1 holds it: an optional leading        *)
(* newline, then a body.                                                   *)
Text(nl, body) == [nl |-> nl, body |-> body]

Init ==
    /\ integ = FALSE /\ arena = FALSE /\ hub = FALSE /\ hooks = FALSE
    /\ editor = FALSE /\ composer = FALSE /\ registries = FALSE
    /\ atexitRegistered = FALSE /\ shutdownComplete = FALSE /\ exited = FALSE
    /\ error_count = 0 /\ ctrl_g_count = 0 /\ last_ctrl_g_time_us = 0
    /\ hard_reset_count = 0 /\ nuclear_reset_count = 0
    /\ now = 0
    /\ presses = <<>>
    /\ env \in Envs
    /\ histsys = FALSE /\ mem = {} /\ abort = FALSE /\ mode = "none"
    /\ disk = {} /\ entered = 0
    /\ ps1 \in UserFormats /\ prompt = ps1
    /\ rendered = Text(FALSE, "")

-----------------------------------------------------------------------------
(* create_and_configure_editor succeeded: lle_history_core_create may      *)
(* fail (non-fatal), and a history core loads $HOME/.lush_history, whose   *)
(* content is file, when HOME is set.  A fresh editor has no abort request *)
(* and the editing mode lle_editor_create gives it.                        *)
EditorCreated(hs, file) ==
    /\ editor' = TRUE /\ histsys' = hs
    /\ mem' = IF hs /\ env.home THEN file ELSE {}
    /\ abort' = FALSE /\ mode' = "created"

(* destroy_editor: the editor and its history core are gone.              *)
DestroyEditor ==
    /\ editor' = FALSE /\ histsys' = FALSE /\ mem' = {}
    /\ abort' = FALSE /\ mode' = "none"

(* create_and_configure_editor: lle_editor_create may fail.               *)
CreateAndConfigureEditor(file) ==
    \/ DestroyEditor
    \/ \E hs \in BOOLEAN : EditorCreated(hs, file)

(* The history save of shutdown and hard reset: only with an editor that  *)
(* has a history core, and only when HOME is set.                          *)
SaveHistory ==
    disk' = IF editor /\ histsys /\ env.home THEN mem ELSE disk

(* The format composer creation writes to PS1: the theme's ps1_format, or *)
(* "$ " when the theme has none.                                           *)
ThemePS1(th) == IF th.src = "" THEN DollarFmt ELSE th

(* create_and_configure_prompt_composer: the static registries are set up  *)
(* once (either registry may fail, the segment one is then cleaned up);    *)
(* the composer allocation, lle_composer_init and the event registration   *)
(* may each fail, which frees the composer but keeps the registries.  A    *)
(* composer that comes up writes the theme's format to PS1 and syncs       *)
(* PROMPT to it.                                                           *)
ConfigureComposer ==
    \E regOK \in (IF registries THEN {TRUE} ELSE BOOLEAN), compOK \in BOOLEAN,
       th \in ThemeFormats :
        /\ registries' = regOK
        /\ composer' = (regOK /\ compOK)
        /\ IF regOK /\ compOK
              THEN ps1' = ThemePS1(th) /\ prompt' = ThemePS1(th)
              ELSE UNCHANGED <<ps1, prompt>>

(* Mutant: the editor-failure path also forgets to destroy the hub and    *)
(* the arena.                                                              *)
LleInit_KeepsHubOnEditorFailure ==
    /\ ~integ /\ ~exited
    /\ \/ /\ hooks' = TRUE /\ hub' = TRUE /\ arena' = TRUE
          /\ UNCHANGED <<integ, edstate, composer, registries, atexitRegistered,
                         counters, prompts>>
       \/ /\ integ' = TRUE /\ arena' = TRUE /\ hub' = TRUE /\ hooks' = TRUE
          /\ \E hs \in BOOLEAN : EditorCreated(hs, disk)
          /\ ConfigureComposer
          /\ atexitRegistered' = TRUE
          /\ error_count' = 0 /\ ctrl_g_count' = 0 /\ last_ctrl_g_time_us' = 0
          /\ hard_reset_count' = 0 /\ nuclear_reset_count' = 0
          /\ presses' = <<>>
          /\ UNCHANGED rendered
    /\ UNCHANGED <<shutdownComplete, exited, now, inputs, disk>>

(* lle_shell_integration_init, from an empty g_lle_integration.  Failing  *)
(* before the hook bridge (no memory pool, the arena, its calloc or the    *)
(* event hub) destroys the arena and leaves no trace: a stuttering step.   *)
(*  - the hook bridge is initialised, then the editor fails: the hub and   *)
(*    the arena are destroyed, the hook bridge is not cleaned up;          *)
(*  - otherwise the integration comes up (composer optional), atexit is    *)
(*    registered once per process (POSIX guarantees 32 slots, so it is     *)
(*    taken to succeed), and the fresh record has zero counters.           *)
LleInit ==
    /\ ~integ /\ ~exited
    /\ \/ /\ hooks' = TRUE
          /\ UNCHANGED <<integ, arena, hub, edstate, composer, registries,
                         atexitRegistered, counters, prompts>>
       \/ /\ integ' = TRUE /\ arena' = TRUE /\ hub' = TRUE /\ hooks' = TRUE
          /\ \E hs \in BOOLEAN : EditorCreated(hs, disk)
          /\ ConfigureComposer
          /\ atexitRegistered' = TRUE
          /\ error_count' = 0 /\ ctrl_g_count' = 0 /\ last_ctrl_g_time_us' = 0
          /\ hard_reset_count' = 0 /\ nuclear_reset_count' = 0
          /\ presses' = <<>>
          /\ UNCHANGED rendered
    /\ UNCHANGED <<shutdownComplete, exited, now, inputs, disk>>

(* destroy_prompt_composer: a no-op without a composer; otherwise it      *)
(* unregisters and frees it, then cleans the static registries up.        *)
DestroyPromptComposer ==
    /\ composer' = FALSE
    /\ registries' = (registries /\ ~composer)

(* lle_shell_integration_shutdown's teardown of a live integration:        *)
(* save history, destroy the composer, the editor, the hook bridge, the    *)
(* hub; clear the pointer; destroy the arena.                              *)
ShutdownEffect ==
    /\ SaveHistory
    /\ DestroyPromptComposer
    /\ DestroyEditor
    /\ integ' = FALSE /\ arena' = FALSE /\ hub' = FALSE /\ hooks' = FALSE

(* Mutant: an explicit shutdown also sets the at-exit one-shot flag.     *)
Shutdown_MarksComplete ==
    /\ integ
    /\ ShutdownEffect
    /\ shutdownComplete' = TRUE
    /\ UNCHANGED <<atexitRegistered, exited, counters, now, inputs, prompts>>

Shutdown ==
    /\ integ
    /\ ShutdownEffect
    /\ UNCHANGED <<atexitRegistered, shutdownComplete, exited, counters, now,
                   inputs, prompts>>

(* exit(): the registered handler runs once, guarded by its static flag.  *)
AtExit ==
    /\ ~exited
    /\ exited' = TRUE
    /\ IF atexitRegistered /\ ~shutdownComplete
          THEN /\ shutdownComplete' = TRUE
               /\ IF integ THEN ShutdownEffect
                           ELSE UNCHANGED <<objects, edstate, disk>>
          ELSE UNCHANGED <<shutdownComplete, objects, edstate, disk>>
    /\ UNCHANGED <<atexitRegistered, counters, now, inputs, prompts>>

-----------------------------------------------------------------------------
(* Mutant: the history is not saved before the editor is destroyed.       *)
HardResetEffect_NoSave ==
    /\ hard_reset_count < MaxResets
    /\ UNCHANGED disk
    /\ CreateAndConfigureEditor(disk')
    /\ error_count' = 0 /\ ctrl_g_count' = 0
    /\ hard_reset_count' = hard_reset_count + 1
    /\ presses' = <<>>

(* lle_hard_reset on a live integration: save history, destroy the editor, *)
(* recreate it (lle_editor_create may fail, leaving LLE inactive), zero    *)
(* error_count, ctrl_g_count and recovery_mode, count the reset.  The      *)
(* Ctrl-G history starts over with the counter.                            *)
HardResetEffect ==
    /\ hard_reset_count < MaxResets
    /\ SaveHistory
    /\ CreateAndConfigureEditor(disk')
    /\ error_count' = 0 /\ ctrl_g_count' = 0
    /\ hard_reset_count' = hard_reset_count + 1
    /\ presses' = <<>>

HardReset ==
    /\ integ
    /\ HardResetEffect
    /\ UNCHANGED <<integ, arena, hub, hooks, composer, registries, atexitRegistered,
                   shutdownComplete, exited, last_ctrl_g_time_us,
                   nuclear_reset_count, now, inputs, prompts>>

(* lle_nuclear_reset: a hard reset, then ESC c and a 50 ms sleep.          *)
NuclearReset ==
    /\ integ
    /\ HardResetEffect
    /\ nuclear_reset_count' = nuclear_reset_count + 1
    /\ UNCHANGED <<integ, arena, hub, hooks, composer, registries, atexitRegistered,
                   shutdownComplete, exited, last_ctrl_g_time_us, now, inputs,
                   prompts>>

(* lle_record_error: count the error; at the threshold set recovery_mode   *)
(* and hard-reset, which clears recovery_mode again before returning.      *)
RecordError ==
    /\ integ
    /\ IF error_count + 1 >= ErrorThreshold
          THEN HardResetEffect
          ELSE /\ error_count' = error_count + 1
               /\ UNCHANGED <<edstate, disk, ctrl_g_count, hard_reset_count,
                              presses>>
    /\ UNCHANGED <<integ, arena, hub, hooks, composer, registries, atexitRegistered,
                   shutdownComplete, exited, last_ctrl_g_time_us,
                   nuclear_reset_count, now, inputs, prompts>>

(* lle_reset_error_counter.                                                *)
ResetErrorCounter ==
    /\ integ
    /\ error_count' = 0
    /\ UNCHANGED <<objects, edstate, atexitRegistered, shutdownComplete, exited,
                   ctrl_g_count, last_ctrl_g_time_us, hard_reset_count,
                   nuclear_reset_count, now, presses, inputs, disk, prompts>>

(* The last PanicCount presses: all the history the panic rule can use.  *)
Recent(s) == IF Len(s) > PanicCount THEN Tail(s) ELSE s

(* Mutant: the window test is "now - last <= window".                    *)
CtrlGCount_InclusiveWindow(t) ==
    IF t - last_ctrl_g_time_us <= PanicWindow THEN ctrl_g_count + 1 ELSE 1

(* ctrl_g_count after a press at time t: one more if within the window of  *)
(* the previous press (unsigned now - last), else a fresh count of 1.      *)
CtrlGCount(t) ==
    IF t - last_ctrl_g_time_us < PanicWindow THEN ctrl_g_count + 1 ELSE 1

(* get_timestamp_us() at a press: CLOCK_MONOTONIC, not before its last     *)
(* reading.  lle_record_ctrl_g is the only reader of the clock, so time    *)
(* advances at presses.                                                    *)
PressTime == now..MaxTime

(* Mutant: the panic check is missing; presses only count.               *)
RecordCtrlG_NoPanicReset ==
    /\ integ
    /\ \E t \in PressTime :
        /\ now' = t
        /\ last_ctrl_g_time_us' = t
        /\ ctrl_g_count' = CtrlGCount(t)
        /\ presses' = Recent(Append(presses, t))
    /\ UNCHANGED <<edstate, disk, error_count, hard_reset_count>>
    /\ UNCHANGED <<integ, arena, hub, hooks, composer, registries, atexitRegistered,
                   shutdownComplete, exited, nuclear_reset_count, inputs, prompts>>

(* lle_record_ctrl_g: count the press, stamp it, and at the panic count    *)
(* zero the counter and hard-reset.                                        *)
RecordCtrlG ==
    /\ integ
    /\ \E t \in PressTime :
        /\ now' = t
        /\ last_ctrl_g_time_us' = t
        /\ IF CtrlGCount(t) >= PanicCount
              THEN HardResetEffect
              ELSE /\ ctrl_g_count' = CtrlGCount(t)
                   /\ presses' = Recent(Append(presses, t))
                   /\ UNCHANGED <<edstate, disk, error_count, hard_reset_count>>
    /\ UNCHANGED <<integ, arena, hub, hooks, composer, registries, atexitRegistered,
                   shutdownComplete, exited, nuclear_reset_count, inputs, prompts>>

-----------------------------------------------------------------------------
(* lle_soft_reset: with an editor, request an abort (the buffer and the    *)
(* history-navigation cursor it also clears are not modelled).            *)
SoftReset ==
    /\ integ /\ editor
    /\ abort' = TRUE
    /\ UNCHANGED <<objects, histsys, mem, mode, atexitRegistered,
                   shutdownComplete, exited, counters, now, inputs, disk, prompts>>

(* `set -o vi` or `set -o emacs` sets shell_opts.vi_mode to vi, then       *)
(* lush_update_editing_mode sets the editor's mode, if there is an editor. *)
UpdateEditingMode ==
    /\ integ /\ editor
    /\ \E vi \in BOOLEAN : mode' = IF vi THEN "vi_insert" ELSE "emacs"
    /\ UNCHANGED <<objects, histsys, mem, abort, atexitRegistered,
                   shutdownComplete, exited, counters, now, inputs, disk, prompts>>

(* The history core records a line the user entered (spec 4.6 "Persisted *)
(* state"; the history core itself is outside this repository).           *)
AddHistory ==
    /\ integ /\ editor /\ histsys
    /\ entered < MaxEntries
    /\ entered' = entered + 1
    /\ mem' = mem \cup {entered + 1}
    /\ UNCHANGED <<objects, histsys, abort, mode, atexitRegistered,
                   shutdownComplete, exited, counters, now, env, disk,
                   prompts>>

(* Shell code assigns v to PS1 or PROMPT, then calls                      *)
(* lle_shell_notify_prompt_var_set, which tells the composer and copies    *)
(* the value to the other name.  (PS2 only notifies the composer, whose    *)
(* cache is not modelled.)                                                 *)
NotifyPromptVarSet ==
    \E var \in {"PS1", "PROMPT"}, v \in UserFormats :
        /\ IF var = "PS1" THEN ps1' = v /\ prompt' = v
                          ELSE prompt' = v /\ ps1' = v
        /\ UNCHANGED <<objects, edstate, atexitRegistered, shutdownComplete,
                       exited, counters, now, inputs, disk, rendered>>

(* The fallback prompt: "$ ", or "# " for uid 0.                           *)
Fallback == IF env.root THEN "# " ELSE "$ "

(* The format that replaces a PS1 that is not valid UTF-8.                *)
FallbackFmt == [src |-> Fallback, utf8 |-> TRUE, expands |-> TRUE, out |-> Fallback]

(* lle_shell_update_prompt: without a composer the fallback; otherwise     *)
(* PS1 (the fallback format if it is not valid UTF-8) expanded after the   *)
(* optional newline, or the fallback after it if expansion fails.          *)
UpdatePromptEffect ==
    rendered' =
        IF ~(integ /\ composer) THEN Text(FALSE, Fallback)
        ELSE LET f == IF ps1.utf8 THEN ps1 ELSE FallbackFmt
             IN  Text(env.newline, IF f.expands THEN f.out ELSE Fallback)

UpdatePrompt ==
    /\ UpdatePromptEffect
    /\ UNCHANGED <<objects, edstate, atexitRegistered, shutdownComplete, exited,
                   counters, now, inputs, disk, ps1, prompt>>

(* lush_readline_with_prompt with a NULL prompt: with an editor, render    *)
(* PS1 and display Effective(s_rendered_ps1).  lle_readline consumes any   *)
(* abort request.                                                          *)
ReadlineDefaultPrompt ==
    /\ integ /\ editor
    /\ UpdatePromptEffect
    /\ abort' = FALSE
    /\ UNCHANGED <<objects, histsys, mem, mode, atexitRegistered,
                   shutdownComplete, exited, counters, now, inputs, disk,
                   ps1, prompt>>

(* lush_readline_with_prompt with the caller's prompt (e.g. PS2).         *)
ReadlineGivenPrompt ==
    /\ integ /\ editor
    /\ abort' = FALSE
    /\ UNCHANGED <<objects, histsys, mem, mode, atexitRegistered,
                   shutdownComplete, exited, counters, now, inputs, disk,
                   prompts>>

Next ==
    \/ LleInit \/ Shutdown \/ AtExit
    \/ HardReset \/ NuclearReset \/ RecordError \/ ResetErrorCounter
    \/ RecordCtrlG
    \/ SoftReset \/ UpdateEditingMode \/ AddHistory
    \/ NotifyPromptVarSet \/ UpdatePrompt
    \/ ReadlineDefaultPrompt \/ ReadlineGivenPrompt

Spec == Init /\ [][Next]_vars

-----------------------------------------------------------------------------
(* Properties                                                               *)

TypeOK ==
    /\ integ \in BOOLEAN /\ arena \in BOOLEAN /\ hub \in BOOLEAN
    /\ hooks \in BOOLEAN /\ editor \in BOOLEAN /\ composer \in BOOLEAN
    /\ registries \in BOOLEAN /\ atexitRegistered \in BOOLEAN
    /\ shutdownComplete \in BOOLEAN /\ exited \in BOOLEAN
    /\ error_count \in 0..ErrorThreshold
    /\ ctrl_g_count \in 0..PanicCount
    /\ last_ctrl_g_time_us \in 0..MaxTime /\ now \in 0..MaxTime
    /\ hard_reset_count \in 0..MaxResets /\ nuclear_reset_count \in 0..MaxResets
    /\ presses \in Seq(0..MaxTime) /\ Len(presses) <= PanicCount
    /\ env \in Environments
    /\ histsys \in BOOLEAN /\ abort \in BOOLEAN
    /\ mode \in {"none", "created", "emacs", "vi_insert"}
    /\ entered \in 0..MaxEntries
    /\ mem \subseteq 1..MaxEntries /\ disk \subseteq 1..MaxEntries
    /\ {ps1, prompt} \subseteq UserFormats \cup ThemeFormats \cup {DollarFmt}
    /\ rendered \in [nl : BOOLEAN, body : STRING]

(* Spec 6: "the partially built object is torn down in reverse order".    *)
(* Whenever no integration is published, whether init failed part-way, or  *)
(* shutdown, the at-exit handler or a re-init ran, no editor, composer,    *)
(* event hub or arena of an old attempt is left alive.                     *)
TornDownWhenInactive ==
    ~integ => ~(arena \/ hub \/ editor \/ composer)

(* The hook bridge's handlers live in the event hub: they are never left   *)
(* registered once the hub is destroyed (init's editor-failure path).      *)
NoDanglingHooks == hooks => hub

(* Spec 3: the root is "destroyed at exit via a registered at-exit handler *)
(* guarded against double-entry": once the process exits, no integration   *)
(* is left, even after an explicit shutdown and a re-init.                 *)
ExitShutsDown == exited => ~integ

(* Number of trailing presses each within the window of the one before.  *)
RECURSIVE RunLength(_)
RunLength(s) ==
    IF s = <<>> THEN 0
    ELSE IF Len(s) > 1 /\ s[Len(s)] - s[Len(s) - 1] < PanicWindow
         THEN 1 + RunLength(SubSeq(s, 1, Len(s) - 1))
         ELSE 1

(* Spec 4.6: a press within the panic window of the previous one counts;  *)
(* the PanicCount-th such press hard-resets and zeroes the count, and any  *)
(* hard reset (error threshold, explicit, nuclear) zeroes it too.  The     *)
(* incremental ctrl_g_count always equals the length of the current run    *)
(* of presses since the last hard reset, and a full run never survives.    *)
PanicCountMatchesPresses ==
    /\ ctrl_g_count = RunLength(presses)
    /\ RunLength(presses) < PanicCount

(* Spec 4.6 "Persisted state" and lle_hard_reset's comment ("preserves    *)
(* history"): with HOME set, an editor that has a history core holds every *)
(* entry the user entered, across automatic and explicit hard resets,      *)
(* editor re-creations that failed, shutdowns and re-inits.                *)
HistoryPreserved == env.home /\ histsys => 1..entered \subseteq mem

=============================================================================
