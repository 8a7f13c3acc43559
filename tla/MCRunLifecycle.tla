--------------------------- MODULE MCRunLifecycle ---------------------------
(* Instances of RunLifecycle for TLC: the configurations, the outcomes of   *)
(* the preconditions and the schedules that the runs choose from.           *)
EXTENDS RunLifecycle

Config(backup, install, rollback, watchdog) ==
  [install |-> install, rollback |-> rollback, watchdog |-> watchdog,
   createBackup |-> backup, autoInstall |-> TRUE, webhook |-> FALSE]

\* A backup before each run, no rollback request, no watchdog, a webhook.
OneConfig == {[Config(TRUE, "live", FALSE, FALSE) EXCEPT !.webhook = TRUE]}
\* Imports during a run: the backup on and off, live and dry run, the rollback
\* request, auto_install off, a webhook or none; the watchdog on.
VariousConfigs ==
  {Config(TRUE, "live", TRUE, TRUE), [Config(FALSE, "live", FALSE, TRUE) EXCEPT !.webhook = TRUE],
   [Config(TRUE, "dry_run", FALSE, TRUE) EXCEPT !.autoInstall = FALSE]}

Good == [thresholds |-> TRUE, window |-> TRUE]
GoodOnly == {Good}
AllSnapshots == SnapshotType

NoSchedule == {}
\* What the legacy schedule and the tasks dispatch.
BothSchedules == {"install"} \X {"schedule", "schedule_task"}
=============================================================================
