---------------------------- MODULE RunDocumented ----------------------------
(* Statements of DOCS.md about runs, put to the model of the code.          *)
EXTENDS MCRunLifecycle

\* DOCS.md, Safety Model: no automatic update outside the configured
\* maintenance window.  The window is only evaluated for the trigger
\* "schedule"; an Auto Update task is dispatched as "schedule_task:...".
AutomaticUpdatesInWindow ==
  pc = "wait" /\ run.trigger # "manual" => snap.window

\* DOCS.md, Update Flow: results are written to state and audit history.  When
\* the rollback request after a failed run raises, the run is reported without
\* results and the items it failed on are neither in last_run nor in the retry
\* queue.
ResultsAreWritten ==
  pc = "release" /\ run.mode = "install" => unreported = {}

\* A configuration with the rollback request switched on.
RollbackConfig == {Config(TRUE, "live", TRUE, FALSE)}
=============================================================================
