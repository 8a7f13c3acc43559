# HA AutoUpgrade: a TLA+ model

This directory holds TLA+ specifications of the add-on in `ha_auto_upgrade/`
(paths below are relative to `ha_auto_upgrade/src/ha_autoupgrade/`), the
configurations TLC checks them with, and proofs checked by TLAPS.
`PROJECT.json` lists the runs, maps every definition to the source lines it
models, and lists the hazards of the code with the properties that cover them.

## The system

The add-on is one Python process in a container that the Supervisor starts
(`boot: auto`). `main.py` creates an `AutoUpgradeService`, starts a threaded
HTTP server and then calls `service.tick()` for ever, every few seconds,
logging whatever it raises. All long operations run on that thread. Every HTTP
request runs on a thread of its own.

| Component | State | Operations | Model |
|---|---|---|---|
| Service loop and runs (`service.py`, `main.py`) | local variables of the operation in progress | `tick`, `_dispatch`, `run_check`, `run_install`, `retry_failed`, `backup_now`, `clear_stuck_state`, `_watchdog`, `_handle_summary` | `RunLifecycle` |
| Update executor (`updates/executor.py`) | results of the items of one run, its own config | `execute`, `_execute_candidate`, the rollback request | `RunLifecycle` |
| Run lock (`utils/locks.py`) | the lock file, the descriptor in memory | `acquire` (breaks a stale lock), `release` | `RunLifecycle` |
| Run part of `state.json` (`storage/state.py`) | `running_job`, `retry_queue`, `failure_count`, `cooldown_until`, `safe_mode_until`, `last_run` | `start_job`, `finish_job`, `set_failure_mode`, `clear_failure_mode`, `queue_retry`, `mark_interrupted_if_running`, `clear_stuck_state` | `RunLifecycle`; what it promises in `RunAccount` |
| Action queue (`service.py`) | a deque under `queue_lock` | `enqueue_action` by web threads, `_dequeue_action` by the loop | `RunLifecycle` |
| Tasks and legacy schedule (`service.py`, `scheduler/engine.py`) | `scheduled_tasks`, `next_check`, `next_install`, `schedule_signature` in `state.json` | create, update, enable, list, select, advance; `_refresh_schedule`; the writes of `next_install` by runs | `Schedule` |
| Configuration (`config.py`, `service.py`) | `options.json`, `runtime_overrides.json`, `config` with its raw options and the objects built from it | `load_config`, `from_dict`, `validate`, `import_configuration`, `reload_config` | `Configuration`; what an import does to runs and stored schedules in `RunLifecycle` and `Schedule` |
| Web API (`web/server.py`) | none | requests that enqueue, edit tasks, import, audit, or read | the threads of `RunLifecycle`, `Schedule`, `Configuration`, `HistoryLog` |
| Backup manager (`backups/manager.py`) | none (the backups of the Supervisor) | create, trim, rollback | `UpdateRequests`; the rollback in `RunLifecycle` |
| Planner, candidates and versions (`updates/planner.py`, `policies/engine.py`, `utils/versioning.py`) | none | `discover`, `build_plan`, `evaluate_candidate`, comparison | `UpdateRequests` |
| Rules of a run (`policies/engine.py`) | none | `evaluate_run` | calendar rules in `Configuration`, the others inputs of `RunLifecycle` |
| Triggers and dates (`scheduler/triggers.py`, `utils/dates.py`) | none | pure functions | `Calendar`; cron and interval triggers not modelled |
| `state.json` as a file (`storage/state.py`) | `state.json`, `state.tmp` | create, read, migrate, write through the temporary file, update | `StateStore` |
| Audit history (`storage/history.py`) | `history.jsonl` | append, trim | `HistoryLog` |
| Supervisor client (`api/supervisor.py`) | none | requests with retries, `wait_for_job` | `UpdateRequests` |
| Notifications (`notifications/manager.py`) | none | `send`: a webhook whose errors are caught in part | the exceptions it lets out: `RunLifecycle`, `UpdateRequests`, `Schedule`, `Configuration` |
| Rendering, translations, system figures, logging | none that is read back | output, or inputs of the models | not modelled |

### How the parts interact

- Web threads touch the loop in three ways: they append to the action queue
  (under a lock), they replace `config`, `executor`, `backup_manager` and
  `scheduler` during an import (under no lock), and they rewrite
  `scheduled_tasks` and `next_install` in `state.json` (under no lock).
- Every piece of state that must survive a restart is in `state.json`, rewritten
  as a whole by `StateStore.update`, or is the mere existence and age of the
  lock file.
- A scheduled operation is dispatched with a *trigger* string: `schedule` for
  the legacy schedule, `schedule_task:<type>` for a task, `manual` for the
  queue. Rules about scheduled runs compare that string.

### What is hard here

1. *Interleaving.* Read, compute, write sequences on the task list by several
   threads without exclusion; `StateStore.update` itself, which reads the whole file,
   changes some keys and writes all of them back; a check that writes back what it
   read before a request that may take minutes; an import during a run.
2. *Crashes.* A run is spread over many writes; the process can stop between
   any two. What is left is a job, a lock file, a schedule whose signature may or
   may not have been written.
3. *Partial failure.* Backups, updates, health checks and the rollback request
   raise; so does the notifier, which is called outside any `try` before each item and
   after a run, and lets `ValueError` and `HTTPException` out. `run_install` catches
   (and notifies once more in its handler), `retry_failed` does not.
4. *Time.* Cooldown, safe mode, minimum spacing, stale lock and watchdog are
   five clocks that start at different moments and that user actions reset.
5. *Liveness.* One thread serves the queue, the tasks and the legacy schedule.
6. *Delivery.* Every request is repeated when no answer comes, also those that make
   something; jobs go on whatever the client thinks of them.
7. *Configuration in two files and one memory.* What an import derives, stores and
   keeps are three different sets of options; the next start sees only two of them.
8. *The calendar.* Weekdays, months of different length, jitter across midnight,
   UTC against local time, and a schedule that is kept across restarts only if a
   signature says so.

What makes each part correct is stated with its module below.

## Modules

| Module | Contents |
|---|---|
| `RunLifecycle` | the service loop, the run with its lock, job and accounting, the executor, crashes and restarts, web threads as seen from the loop |
| `MCRunLifecycle` | configurations, preconditions and schedules for TLC |
| `RunDocumented` | statements of DOCS.md about runs, which the model refutes |
| `RunLifecycleProofs` | theorems about `RunLifecycle` |
| `RunAccount` | what those who read the run part of `state.json` rely on: an account of runs |
| `RunAccountProofs` | `RunLifecycle` implements `RunAccount` |
| `Schedule` | tasks, legacy schedule, requests, imports, restarts, each at the granularity of its reads and writes of `state.json` |
| `MCSchedule` | symmetry for TLC, and the statement of DOCS.md that `doc_settings` refutes |
| `ScheduleProofs` | theorems about `Schedule` |
| `StateStore` | `state.json` and `state.tmp` as files, read and written by several threads |
| `StateRegister` | what the callers of `StateStore` rely on: a register |
| `StateStoreProofs` | with one writer, `StateStore` implements `StateRegister` |
| `Calendar` | triggers and calendar rules as operators on days and slots |
| `CalendarProofs` | each trigger finds the first moment it is meant to find |
| `Configuration` | options, their parsing, imports, edits, restarts, and the attempts of the legacy schedule over time |
| `MCConfiguration` | a calendar, edits and imports for TLC, and the statement of DOCS.md that `doc_days` refutes |
| `ConfigurationProofs` | theorems about `Configuration` |
| `UpdateRequests` | one run, request by request, against a Supervisor that may not answer |
| `MCUpdateRequests` | items, versions and policies for TLC |
| `UpdateRequestsProofs` | theorems about `UpdateRequests`, which implements `RunAccount` too |
| `HistoryLines` | what an append and a trim make of the lines of a file |
| `HistoryLog` | `history.jsonl` as written and trimmed by several threads, system call by system call |
| `BoundedLog` | what the callers of the history rely on: a log of the newest events |
| `HistoryLogProofs` | `HistoryLog` implements `BoundedLog` |

`Configuration` extends `Calendar`, `HistoryLog` and `BoundedLog` both extend
`HistoryLines`; `StateStore`, `HistoryLog`, `RunLifecycle` and `UpdateRequests` instantiate
their abstract specifications. The modules cut the system at the same places the code does:
`RunLifecycle` treats a request with all its attempts as one step, and
`UpdateRequests` looks inside, and both implement one abstract specification,
`RunAccount`; `Schedule` takes a trigger for any moment in the
future, and `Configuration` for the right one; both have the read and the write of
`StateStore.update` apart, `RunLifecycle` takes an update for one step, and
`StateStore` looks at the files below.

### RunLifecycle

`pc` is where the loop's thread is. Its values name points between effects:
`acquire` is before `lock.acquire()`, `pre_backup` after `start_job`, `wait`
while an update request is out, `raised` while an exception travels, `release`
in the `finally`. `run` holds the locals of the operation, `summary` the
`RunSummary` on its way to `_handle_summary`; `lockAge`, `job`, `retryQueue`,
`failureCount`, `cooldown`, `safeMode` and `lastRun` are on disk and survive
`Crash`. `Restart` is `__init__` with `mark_interrupted_if_running`. Two history
variables, `startAge` and `unreported`, are read by properties only.

One action stands for the code between two effects that another actor, a crash
or a property could tell apart. `_watchdog` and `_handle_summary` write
`state.json` several times and are several actions; `start_job` is one write
and one action. `config` is read where the code reads it: at the gate, at the
backup, and once on entry of the executor (`run.cfg`), as a later import gives
the service a new executor and leaves the running one alone.

Abstractions:

- *Timestamps* are the time left until them or passed since them, cut off where
  the code cannot tell values apart. Only comparisons with now occur in the code,
  so this loses nothing and bounds nothing.
- *Plans*: discovery, the policy and the filter of a manual install may leave any
  part of the items, so `PlanInstall` takes any subset.
- *Rules*: a run's rules are split into those about the calendar, which
  `evaluate_run` applies to scheduled installs only, and all the others. Their
  values are inputs.
- *An import* replaces all of the service's objects in one step. In the code
  they are replaced in succession without any effect in between; a thread could see the
  new config and the old executor, which is the same as an import a moment later
  or earlier for everything but `createBackup` at `RunPreActions`, where
  `BackupBeforeRequest` speaks of the executor's configuration.
- *Writes* of `state.json` by the loop are atomic and never fail here. The keys of
  this module are written by the loop's thread only, but a web thread that stores
  something else puts back what it read of them: an update of the loop that falls
  between is undone. This model does not show it. The same mechanism is in
  `Schedule`, and what concurrent writers do to the files in `StateStore`.
- *Notifications* end or raise, the latter only with a webhook configured (`webhook`):
  before an item (`StartNotificationRaises`), and after a run (`NotifyRaises`). In an install
  that was not in its `except` clause yet, the second leads there: a run that has been
  settled is reported once more as failed, without results.
- Durations are constants: an import in the model changes modes, not durations.

### RunAccount

Four places share the account of runs: the executor that fills it, the loop that
settles it, the start that repairs it, and the dashboard and the retry that read it. `RunAccount`
is what they agree on, in eleven actions without any program counter:

- A run begins when none is lost by it, that is when the job on record is none or its
  items are all in the retry queue; a retry only with items that are owed.
- Each of its items has one turn: it is asked for while no other is, or simulated, and
  never again in this run.
- It is complete only when every item has had its turn, and the status sums up what failed.
  An install is broken off without results by an exception, never while an item is being
  updated: on its way to the job, between two items, in the rollback, or after it has been
  settled already. A retry that raises leaves its job behind.
- The retry queue is replaced by exactly what the last run failed on, unless that run has
  no results, or a crash comes first. Only a clear, by the user or the watchdog, empties it otherwise.
- A start turns the job of a run that was cut off into an interrupted run and owes all its items.

In `RunLifecycle` the mapping reads the phase off `pc` and `job`: a job is "running" while the
thread is between its record and its end, and "abandoned" when no thread is at it any more;
`asked` is the history variable `unreported`, `unsettled` what `finish_job` has
published and `queue_retry` has not stored yet. In `UpdateRequests`, which has one run, no crash
and no disk, the phase follows from `pc` and the results, and what has been asked for is the
item in hand and those with a result. So a repeated request is a stutter: the account is
what is asked of an item, the module below it how often.

### Schedule

A thread is a record: `at` names the write it is about to do, `tasks`, `install`
and `signature` are what it read or computed for it, and `copy` is, inside
`StateStore.update`, the file as it has read and changed it. Each action is the code from
one access of `state.json` to the next, so every interleaving of two threads
occurs, both between a read and the update that depends on it and between the read
and the write of one update (`BeginUpdate`, `EndUpdate`). Updates of all other keys, which
every job, result, backup, failure and self test makes, are in the model too
(`UpdateOtherKeys`), as they write the schedule back with the rest. `main` is the
service loop, `Web` the request threads; `Restart` forgets the threads and keeps the
file. `file.install` carries, besides the time left, the settings it was
computed `by`: a history component, read by `InstallsFollowSettings` only.

Three history variables say what has happened that the code does not guard against, so that
the properties can claim exactly what it does guarantee: `overtaken` are the threads in an
update that another thread's write has overtaken, `emptied` that the process has written an empty
list over tasks, `collided` that an edit has given a task the id of another one.

- `Normalized` is `_normalize_state_tasks`: of the tasks with one id the first in
  the stored order (type, then id) survives. When two tasks have both id and
  type in common their order is a matter of other fields, so either may be kept.
- The next occurrence of a trigger is any moment in the future: `1..Period`.
- Which of several due tasks is the oldest is not represented; any may be chosen.
- `next_check` is left out: it is shown and recomputed, and the legacy check it
  triggers may be due at any tick (`DispatchOther`).
- A request the code refuses (validation, unknown id, duplicate type) changes
  nothing and is no step.
- `CreateIds` and `EditIds` are the ids clients put into payloads; without one,
  `create_schedule_task` takes a fresh UUID and an edit keeps the id.
- An install of which a notification raises ends without writing the next install
  (`InstallRaises`), and ends the tick, so that its task is not advanced.

### StateStore

The level below: each action is one system call (open for reading,
read, open with truncation, write and close, rename). A file is an inode, so a
thread keeps what it opened when the name moves on, and two threads that open
`state.tmp` share it. A text is the set of updates it contains, or `Broken` when it does not
parse. `shared` remembers that two threads had the file open for writing at the
same time; their texts may then be mixed, and which text results is
nondeterministic. An exception ends a request, is logged by the loop, and stops a
service that is being created. `read` includes the migration of an old schema, which
is a write.

`StateRegister` has one variable, the set of updates made, and one action,
`Apply`. The refinement mapping is `Value`, the updates in the text named
`state.json`. `RunLifecycle` takes one `StateStore.update` for one step: `StateStore`
shows when this is right (one thread writes at a time). `Schedule` and `Configuration`
have its read and its write apart, with the write atomic, and `doc_interrupted` shows
what happens to the files when two writes overlap.

### Configuration

A moment is a day and a slot of the day, counted in UTC from a Monday; `Offset` is
how far local time is ahead. `addon` is what the Supervisor has stored and hands
over as `options.json`, `overrides` is the add-on's own file, `config` the raw
options in force. `attempt` is when an install was attempted last, unless it was cut off.

Two things go on at once. *Imports* (`request`, one per web thread) are merged and
accepted, stored with the Supervisor, written to the overrides, and loaded, which
`from_dict` may refuse only then (`ReloadRefused`). They can be cut off by `Stop` after each
step, and end early when a request raises. *Writers* (`writer`) are the threads in
`_refresh_schedule`, in a check, or at the end of an install: they read or compute a next
install and its signature, and write each later with an update that is itself a read and
a write, as in `Schedule`. So a check writes back what it read before an import, two
refreshes mix their moments and signatures, and any other update may put an old schedule back.

What the code does not guard against is remembered in three history variables, and the
properties say what holds until then: `unread`, that since the start options were stored that
`from_dict` refuses; `mixed`, that two imports were under way at once; `interfered`, that
an import, an update or a stop came between the reads and the writes of another thread.

- Of the options those are kept that decide when the legacy schedule attempts an
  install and whether the weekday or the window refuses it. The others are parsed
  one by one and touch neither. `time_range_end`, cron and the older
  `weekday_time` are left out.
- `FromDict` writes what it derives back into the raw options, as the code does:
  this is what `doc_days` is about. Options are given as they are spelt: `one-time` stands for
  the aliases of `once` (`Spelled`), `fortnightly` for an unknown frequency, `7` for a word
  that is no weekday, and the day of a month is any number. Only `from_dict` normalises and
  refuses them (`Valid`); what an import compares with `once` is the word as it came.
  `NoFrequency` is the empty string, an empty set of days one without a valid token.
- `schedule_allowed_weekdays` is a list in an order that Python's hashing decides; it
  differs from the default list unless it has the default's order, so the override
  may or may not be stored (`OverridesOf`).
- `deterministic_jitter` depends on a date and a seed; any value is possible.
- `write_text` of the overrides is one step; see the observations.
- Time passes only when nothing is due: the loop ticks every few seconds, which is
  far below the resolution of the schedule. A run takes any number of slots.

### UpdateRequests

One run from the refresh to the result. Each attempt of a request is a step: it
may be refused, or carried out and answered, or carried out without an answer, in
which case it is repeated until `MaxAttempts`, which the policy sets
(`api_retry_max_attempts`, 0 included: then the request fails without having been made). The Supervisor (external) ends backups
and updates in its own time, well or not, and new versions are released at any
moment. `pc` names the request that is out.

- A notification before an item may raise and end the run (`NotificationRaises`).
- Versions are tuples of numbers with the rest of the text as the last; `Above` is the
  order of `compare_versions`. `Bucket` stands for the hash of the rollout.
- Backups are numbered by their dates, which is the order `cleanup_retention` sorts by.
- A read that fails after its attempts is one alternative of the step that needs it;
  a repeated GET changes nothing.
- A job that failed is done for `wait_for_job`, which returns it without looking at
  errors: `AwaitBackup` and `AwaitUpdate` go on when the job has left the Supervisor's
  list, however it ended.

### HistoryLog

Each action is one system call: the append, the read of `_trim`, the truncation by
`write_text`, its write. Lines are event numbers, `Torn` a line that is no event, `Cut` one
without its end. A text written from the start over what others have appended
meanwhile leaves a rest of them, perhaps starting in the middle of a line.
`overlap` remembers that two appends were in progress at once, `crashes` counts crashes.

`BoundedLog` promises that an append adds one event at the end and takes none but the
oldest away, and that nothing but a crash (a step that counts one) may cost the newest
lines; while appends overlap it promises nothing. The refinement mapping shows the rewriting of the file as what it
is going to be (`LinesOf`), so truncation and write are invisible unless they are
cut off. A run of the code audits from the loop's thread; exports, self-tests, task
edits and imports do so from web threads.

## Properties and runs

The longest run takes about two and a half minutes with 2 workers.

### `run_core` (`RunCore.cfg`)
Two items, threshold 2, a webhook, crashes, clears and retries at any point.

- `LockMatchesRun`: the lock is held exactly between acquire and release, on every
  way out, and its file exists while it is. With a lock that is never taken
  away from a running process, "one run at a time" holds for one process.
- `JobMatchesRun`: `running_job` names the mode of the run in memory and covers
  its items, so that a crash leaves a true account.
- `OnlyTheseForget`: an item whose update was requested and whose result is not written yet
  is in the running job or, after a crash, in the retry queue, and only two steps can lose
  track of it: the watchdog's clear, which does so by design, and the end of an install that
  an exception has broken off, which ends the job with no results. The exception may be that of the
  rollback request (`doc_results`) or that of a notification between two items. No crash,
  restart, retry, later run or settled result forgets one.
- `ActsAsAccount`: the refinement of `RunAccount`. Each single property above can hold while
  the account is wrong, say when an item is asked for twice, or when a run is
  summed up before its last item.
- `InstallJobEnds`: an install leaves no job behind in a living process. A retry
  does, when its backup or an update raises.
- `InstallsAreSpaced`: starts of installs are `min_minutes_between_runs` apart
  whatever happens in between: the interrupted run of a crash is entered as
  `last_run`, and `completed_at` is never earlier than the start.
- `FailedRunKeepsSafeMode`: a failed run that ends in safe mode prolongs it.

Two items are what it takes for a partial result and for a plan smaller than the
candidates; the threshold 2 tells the first failure from the one that starts safe
mode; `MinDelay` 2 and `SafeMode` 2 tell a clock that has started from one that
is half over. Durations above 2 add states that differ in a number only, and
the proofs cover all values. `MaxQueue` is 1: the loop takes one action at a
time, and the next can be enqueued as soon as it has.

### `run_variants` (`RunVariants.cfg`)
One item, imports between three configurations at any moment of a run (live with
backup and rollback request; live without backup; dry run with backup and without
`auto_install`; the watchdog always on), all outcomes of the rules, both schedules and
the queue.

- `BackupBeforeRequest`: no request without the backup that the executor was
  configured to make, although the service decided about its own backup under an
  older configuration.
- `InstallIsGated`: what the gate read (cooldown, safe mode, rules) still holds
  when the job is recorded after waiting for the lock and discovery. `Cooldown` 2
  outlasts safe mode and the spacing, so that each of the three blocks alone.
- `ActsAsAccount`: the same refinement with the watchdog, the rollback request and
  simulating configurations, which `run_core` has not.
- `StuckJobEnds`: a job nobody works on is cleared or taken over by a new run.
- `LockIsGrantedAgain`: a lock left by a crash does not refuse runs for ever.
- `QueueIsServed`: enqueued actions are taken (or lost with the process, which
  keeps its queue in memory).

*Fairness* (`Fairness` in `RunLifecycle`): weak fairness of the main thread
(`main.py` calls `tick` in an endless loop, and every request and wait in it
has a timeout), of time, and of the restart (the Supervisor starts an add-on with
`boot: auto`). None for crashes, web threads or any particular outcome.

### `schedule` (`Schedule.cfg`)
The loop and one web thread, two ids, edits that name any id, imports, one setting (which differs
from that of the first start, none).

- `AutoUpdateNeedsCheck`: whatever lists and whole files overwrite each other, an enabled Auto
  Update is never stored without an enabled Auto Check Update, until an edit has given a task
  the id of another (`collided`): requests validate the lists they write, and putting an
  old one back keeps a valid one valid, but normalising two tasks of one id drops one
  unvalidated. The edits stay in the model, so the property says that they are the only way.
- `TasksStay`: once there are tasks, only an update that another thread's write has overtaken
  between its own read and write takes the last of them away. The
  lists that threads read and write in separate updates never do.
- `LegacyInstallIsSet`: without tasks the next install is a stored moment, although
  the refresh that computes it can be cut off before the signature is written,
  and checks write back what they read; as long as no update has written an empty list over
  tasks (`emptied`).
- `TypeOK`: the type invariant, with a next run exactly for the enabled tasks.

Two threads are enough for one update to overtake another, and a stale list a newer one. Two ids and
two types give all lists that valid edits produce (a task of each type, or two of one type after an
edit of the type), and `Period` 1 tells due, pending and unscheduled apart. More web threads, ids
that clients choose for new tasks, and a third id, which it takes to drop the active
check of a valid list by an edit, are covered by the proofs.

### `state_store` (`StateStore.cfg`)
One writer (the loop), two readers, two updates, five inodes (two names and a file
that each of three threads has open).

- `ActsAsRegister`: no update is lost or half made, whatever crashes (also during
  the first write and the migration) come in between.
- `ReadsAreComplete`: no reader finds a text that does not parse.

### `configuration` (`Configuration.cfg`)
Four days of two slots in months of two days, a zone one slot ahead, a jitter of one slot, the loop and
one web thread. An edit by the user (`auto_install`, every day) and four imports: other weekdays and
another hour, the 4th of a month (which is its 2nd here), one time, and one time by an alias and
without a moment, which `from_dict` refuses after both files have been written unless a moment was
given before. Checks, failing checks, updates of other keys and stops at any moment.

- `NoOccurrenceIsPassedOver`: until a thread or a stop interferes, while the process is up,
  `next_install` is never later than the first occurrence to come with its jitter. The schedule is
  recomputed only when the signature differs, so an option missing from the signature, or a start
  that trusts a stale one, breaks it.
- `OneAttemptPerOccurrence`: until then, between two attempts lies an occurrence. A trigger that
  counts "now" as still to come, or a schedule recomputed during a run, would attempt one twice.
- `StoredOptionsAreValid`: what valid imports and edits leave in the two files can be started with,
  also when an import is cut off between them. A process that cannot start does not come back. It
  claims nothing once something was stored that `from_dict` refuses by itself (`unread`), which the code
  does not prevent (see the observations).
- `ImportsOutliveRestart`: while no import is under way, a start finds the schedule in force, unless the
  user has edited the options, a refused value was stored, or two imports were under way at once
  since the start (`mixed`). The overrides are what differs from the *defaults*; if they were what
  differs from the configuration in force, the second import would undo the first.

The first two are false once a thread has interfered: a check that began before an import writes a
moment of the old settings under the new signature, which a restart keeps
(`doc_settings` shows the first half). So they say of which interference the schedule
is free: an import during a run, a stop in the middle of an import or a check, and edits or
restarts at any time are none, unless they fall between the reads and the writes
of another thread. `CONSTRAINT Uninterfered` cuts off what follows an interfering step. `interfered`
is never reset and these two claim nothing once it is set; what the other two are about does
not depend on what threads do with the schedule, so each of its states is reached without interference too.

Four days reach a weekday of each schedule and cross a month's end with days before and after it; the
jitter and the offset both carry past midnight. Two web threads, and with them `mixed`, are covered by
the proofs.

### `update_requests` (`UpdateRequests.cfg`)
The operating system and one add-on, three versions of which one differs from another in its
suffix only, two old backups of which one is the add-on's own, six policies (all three
strategies, pins, minimums, security only, rollout, exclusion, limit, with and without backup, retention
1 and 0, two attempts per request and, in one, none).

- `NoVersionBeyondPolicy`: what is asked of the Supervisor respects pins and minimums, also
  hours after the discovery and when repeated. Add-ons are excepted because
  `update_addon` names no version.
- `BackupIsKept`: the backup of the run has come to its end before the first update, and
  the trimming spares it although repeated requests have made more than one; others' backups
  are never deleted.
- `UpdatedWasDone`: an item is reported as updated only after a job for it has ended.
- `OsIsLast`: nothing is asked for after the operating system, whose update restarts the host.
- `ActsAsAccount`: the refinement of `RunAccount`: with every lost answer, timeout and failed
  check each item of the plan still has one turn and one result, and a run that raises has none.
- `RunAdvances`: each step of the loop leaves less of the run, in the lexicographic order of
  five numbers (the way, the candidates left, the backups to delete, the way of the item, the
  attempts left). Counted attempts are what bounds every repetition.
- `RunEnds`: a run ends whatever is left unanswered. *Fairness*: weak fairness of the loop's thread,
  as every request and every wait has a timeout. Jobs and releases need none.

A repeat needs two attempts, `attempts` 0 is what the options accept besides, retention 1 with a repeated backup makes a surplus that could
contain the run's own, and two items are an order.

### `history` (`HistoryLog.cfg`)
Three threads, retention 2, six events (`MaxEvents`), two crashes (`MaxCrashes`).

- `ActsAsLog`: the refinement of `BoundedLog`: an append adds its event and takes none but the oldest,
  and only a step that counts a crash may lose others. Its proof is for all values.
- `HistoryIsComplete`: without crashes and overlaps the file is exactly the newest
  events in their order.

Six events fill the file three times over; a second crash finds what the first has left; a third thread shows that the promise returns
when an overlap of two is over.

### Runs that end in a counterexample
| Run | Statement | What the code does |
|---|---|---|
| `doc_window` | DOCS.md:100, no automatic update outside the window | the window is evaluated for the trigger `schedule` only; tasks are dispatched as `schedule_task:...` |
| `doc_results` | DOCS.md:93, results are written | when the rollback request raises, the results are lost: the summary has none and nothing is queued for retry |
| `doc_settings` | DOCS.md:135, installs at the selected hour | a check writes the `next_install` of the settings before an import back |
| `doc_days` | DOCS.md:135, attempts run on the selected weekdays | an import takes the weekdays that `from_dict` once derived for given ones, so the policy refuses the days it selects |
| `doc_interrupted` | DOCS.md:196, an interrupted run is marked on next start | two writers of `state.tmp`: one renames the file the other has just truncated; after a stop the service cannot read `state.json` and never starts |

## Proofs

`tlapm` proves, in the eight `...Proofs` modules and for all values of the constants
that satisfy the modules' assumptions:

**RunLifecycle** (assumptions: durations are naturals, inputs have their types).
- `TypeCorrect`, `LockIsHeldByRuns` are inductive as they stand.
- `JobIsTrue`, `InstallJobsEnd`: from `JobInv`, which adds `RunShape`: which modes
  reach which points, and that the item sets are empty where a run starts.
  Without it a step from `acquire` could record any job.
- `GateIsRespected`: from `GateInv`. After the gate only this thread writes
  cooldown, safe mode and `last_run`, and time only helps; that is what makes
  reading them before the lock harmless.
- `InstallsStayApart`: from `SpacingInv`: a recent start of an install is on
  record, as the job (running or cut off) or as a `last_run` not older than it.
  `SummaryInv` is needed to know that a summary written by `finish_job` is not
  older than the start: it is made after it.
- `BackupsComeFirst`: from `BackupInv`, about the executor's configuration.
- `SafeModeIsKept`, under `NoWatchdog`: from `SafeModeInv`: safe mode is on only while
  the failures have reached the threshold, so the next failure starts it anew. The
  watchdog starts safe mode after a single stuck job, whatever the count.
**RunAccount**, under the assumptions of `RunLifecycle`.
- `RunsActAsAccount`: the refinement, by one case per action of the code (`AccountStep`), from `JobInv`
  and `AccountInv`. The latter has five parts: that each item has one place in the run
  (`ItemsInv`), which modes reach which points (`ModesInv`), that a request is only made for an item
  of the job not asked for yet (`AskedInv`), that the items of a retry
  stay in the retry queue until it is settled (`RetryInv`), and that a summary on its way is either
  complete or empty (`ResultsInv`). Steps that cannot be
  seen go through two lemmas, `StaysAside` and `AwayAside`, for threads that are at a run and away
  from one.
- `NothingElseForgets`: `OnlyTheseForget` for any configurations, with webhook, watchdog and
  rollback. It needs `AskedInv` (whatever was asked for belongs to the job while it is recorded) and
  `ResultsInv` (a summary that is not empty has a result for each), and no assumption.

**Schedule** (assumptions: ids, threads, period and settings as declared; nothing about what clients
ask for). `Step` says once what each action does to the threads and the file: a thread *reads*,
*begins* an update, or *writes* (`Reads`, `Begins`, `Writes`), and `StepShape` that every
action is one of these; the invariants are then about a few shapes instead of twenty actions.
- `TypeCorrect`, including that a stored task has a next run exactly when it is
  enabled.
- `TasksNeverDisappear`: from `Held` (a thread about to write a list holds a non-empty one, as lists are
  only prepared from a task found in them or from a non-empty normalised list) and `CopiesKeepTasks`
  (a copy that no other write has overtaken has tasks if the file has).
- `LegacyInstallIsAlwaysSet`: from `InstallKnown`: once a refresh has written the next runs, every
  state without tasks, in the file or in a copy, has an install that is set, and a failing check
  puts back one that is not only if there are tasks. An empty list written over tasks
  breaks just this, as with tasks the install may be none.
- `DependencyIsKept`: from `SoundLists`: every list in the file, in a copy or in the hands of a
  thread is `Sound`: it has the dependency and no two checks with one id. The
  last part is what normalising needs, as it validates nothing, and what `collided` takes away.

**StateStore**, under `Writers = {Main}`.
- `OneWriterActsAsRegister`: the refinement, from `OneWriterInv`: `ReadersInv` (readers
  never hold `state.tmp` open), `FilesInv` (the two names never share an inode, and
  `state.json` parses) and `WriterInv` (the text on its way is `Value` with one update
  or none, and before the rename `state.tmp` holds all of it). `doc_interrupted` shows
  that a second writer breaks it.
- `OneWriterReadsAreComplete`: from the same invariant.

**Calendar** (assumptions: a day has slots, months come in order).
- `WeekdaySetFindsFirst`, `MonthlyFindsFirst`: the moment found is an occurrence, lies in
  the future, and no occurrence comes before it; the latter as long as the calendar
  has another month. The search of the code, day by day or month by month, is `Smallest`
  of a set of numbers, and `SmallestOfSome` rests on the well-foundedness of `<`.
- `WeekdayTriggersAgree`: the modular arithmetic of one trigger and the search of the other agree.

**Configuration** (assumptions: jitter at most a day, zone less than a day, options of the
types the parser leaves, a calendar beyond the bound).
- `StoredOptionsStayValid`: from `OptionsInv`: `StoredInv` says of each of the two files that
  `from_dict` accepts it by itself, unless something refused was stored, and `RequestsInv` the same of the
  imports that have begun to store. `ReadableIsValid` is the lemma that the two files may then
  come from different imports. The assumption on options is their types, refused values included.
- `CompletedImportsAreKept`: from `KeptInv`: at most one import is under way, between its two writes
  the overrides belong to the configuration to come, and otherwise they restore (`Restores`) the
  one in force. For any number of threads and of imports cut off; that imports overlap is what
  `mixed` records, and no assumption excludes it.
- `NoneIsPassedOver`, `NoneIsAttemptedTwice`: from `ScheduleInv`: until something interferes the
  state is `Consistent`. That is about the *signature* and not the configuration: whatever schedule the
  stored signature describes, the stored moment `Fits` it, that is, covers its occurrences and lies
  after one since the last attempt (`Last`). That makes it safe to keep the moment when the
  signatures agree, also after a restart with another history. And what a thread holds (`Holding`) is,
  when its update ends, still what it read or computed (`Intended`), which is what no interference means.
  `SignatureTellsAll` says the signature has all that occurrences depend on; `NextInstallFits` rests on the
  theorems of `CalendarProofs`. Any number of web threads, checks and updates of other keys are covered.

**UpdateRequests** (assumptions: as in the module: items are finitely many, and names differ or are told apart by discovery).
- One inductive invariant (`UpdateRequestsInvariant`): the plan contains only candidates the
  policy allows, the run's backup is the newest one begun and is not among the surplus, an
  answered job carries the current attempt. `OsComesLast` needs that the plan, once the operating
  system is being updated, has nothing left but what has its type.
- `RequestsActAsAccount`: the refinement of `RunAccount`, from `TurnInv`: the candidates of a plan are
  of different items, none of which has a result yet, no item has two, and none has one before
  the updates begin.
- `EachStepAdvances`: `RunAdvances` for any sizes, from `LeftInv` (what is left is finite).
  `RunsAreFinite`: its order has no infinite descent. Together they are the safety half of `RunEnds`:
  a run can only stand still. That it does not is the fairness of the loop, checked by TLC.
- `VersionsAreOrdered`, `PlanTakesTheFirst`, `RetentionKeepsTheNewest`: the operators `Above`, `Planned`
  and `Surplus`, which count what comes before, do what sorting and slicing do in the code;
  `FirstOfOrdered` is the lemma about finite, totally ordered sets that both rest on.

**HistoryLog** (assumption: retention at least one).
- `HistoryActsAsLog`: the refinement, with each step that loses lines a crash, from `HistoryInvariant`: without overlap at most one thread
  is busy, and what it is about to write is the newest lines of what it read. `HistoryHoldsTheNewest`
  from the same invariant.

Every invariant and action property of the passing runs and every refinement has its theorem.
Model-checked without a proof are the liveness properties `StuckJobEnds`, `LockIsGrantedAgain`,
`QueueIsServed` and `RunEnds`, as liveness under fairness and `ENABLED` are beyond the prover.

## Not modelled, and observations

- `export_diagnostics` and `self_test` write nothing that a run reads (their audit is in
  `HistoryLog`).
- Failures of disk writes, a loss of power (what `rename` guarantees without `fsync`),
  and several processes on one `/data`.
- What notifications say, rendering and translations are output; that a notification raises is modelled
  (any exception that `send` lets out is one). Figures of the system and entity states
  are inputs; the comparisons of `evaluate_run` with them stand alone, one `if` each.
- Cron expressions and interval triggers: no add-on option sets a cron expression, and its next
  occurrence is by definition the first minute that matches; an interval is an addition.
- The other options of `config.py`: each is converted and range-checked by itself.
- Composition of all modules in one: the interfaces between them are single steps
  (an update of `state.json`, a request, a due install), and each is looked into by a module of its own.

Seen while modelling, and listed as no finding:

- *Tasks.* A task is dispatched again when the process stops, or a notification raises, between its dispatch
  and its advance; tasks ignore `auto_install`; edits can make two tasks of one type. The loop and the
  requests write whole task lists over each other, so that an edit may be lost; so does an update of any
  other key that read the file before a task was created, after the request has been answered
  (`TasksStay` names these updates). An edit may name the id of another task (service.py:403-407); normalising
  then drops a task and validates nothing (service.py:448-449), which with a third task can leave Auto Update enabled
  without an active check, against what tests/test_schedule_tasks.py:57-60 expects of a single request.
- *Schedule.* With tasks stored, a manual install overwrites the `next_install` that the dashboard shows. A
  trigger that finds no next moment raises at the end of an install that went well. A stop between the two
  writes of `_refresh_schedule` leaves a moment under the signature before; a start with that older schedule,
  edited back meanwhile, keeps it. After an import `check_interval_minutes` has no effect on checks until
  a restart (config.py:513 prefers the raw `schedule_check_interval_minutes`, against DOCS.md:133). The
  default window, 22:00 to 06:00 in local time, refuses an `install_hour` in the daytime, and jitter can carry
  an attempt past its end; `install_hour` is compared in UTC.
- *Imports.* An import stores the options before `from_dict` reads them (service.py:1041-1052), and checks only a
  frequency that is given as `once` (service.py:1025): `one-time` without a moment, an unknown frequency, or a weekday or
  a day of the month that is none is stored, the request fails, and every later start raises in `load_config`.
  `runtime_overrides.json` is written in place. Two imports at once can leave the files of one
  and the memory of the other (`mixed`).
- *Notifications.* One that raises after a good install reports it once more as a failed run without results:
  `failure_count` grows, cooldown or safe mode may start, and `last_run` loses its results. One that raises when an
  install is skipped leaves the install due, so that the next tick tries again.
- *Runs.* A retry with nothing to do is skipped, and clears the failure mode (service.py:942-944). `retry_failed` evaluates no rule, so retries pass failed thresholds (DOCS.md:101). A run that succeeds clears the
  whole retry queue. The maintenance service is not restored when a run raises.
- *Requests.* Repeated requests may leave two backups, or two updates of one item at work at once (against
  "serially", DOCS.md:91). A deletion whose answer was lost is repeated, gets 404 and fails the run
  after its backup was made. Errors of failed jobs are not looked at. `api_retry_max_attempts` 0
  is accepted and fails every request. Pins do not bind add-ons, which are updated to what is the latest at that moment.
- *History.* It is documented as append-only (DOCS.md:71); appends that overlap, and crashes during a trim, lose
  events, bring trimmed ones back or join two lines. A torn line makes `recent` raise, and with it the
  history and status requests, until it has left the last fifty lines.

## What could come next

1. A measure for the operations of `RunLifecycle`, as `RunAdvances` has one for requests.
2. The run part of `state.json` with the read and the write of `update` apart, as the schedule has them: which of
   the promises of `RunAccount` outlive a web thread that puts an old file back.
3. Cron expressions as sets of slots and days, with the search proved to find the first.
