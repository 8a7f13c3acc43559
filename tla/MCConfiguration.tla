-------------------------- MODULE MCConfiguration --------------------------
(* Instances of Configuration for TLC, and a statement of DOCS.md that the  *)
(* model refutes.                                                           *)
EXTENDS Configuration

\* Months of 2, 2, 5 and 5 days in place of 31, 28, ... days.
ShortMonths == <<0, 2, 4, 9, 14>>

SwitchOn == [auto_install |-> TRUE]
EveryDay == [auto_install |-> TRUE, install_days |-> Weekdays]
Tuesdays == [install_days |-> {1}, install_hour |-> 1]
Monthly == [frequency |-> "monthly", monthday |-> 4]
Once == [frequency |-> "once", once_at |-> [day |-> 3, slot |-> 0]]
\* from_dict refuses it when no moment has been given before.
OneTime == [frequency |-> "one-time"]

\* DOCS.md, Scheduling: scheduled install attempts run on the selected weekday set.
\* An import pins the weekdays of the policy to those that were selected before
\* it, and attempts on the ones it selects are refused.
SelectedDaysAreNotRefused ==
  Due /\ config.auto_install /\ config.frequency = "weekly" /\ Weekday(now.day) \in config.install_days
    => "weekday" \notin RefusedBy(config)

OneEdit == {SwitchOn}
OneImport == {Tuesdays}
Daily == {EveryDay}
ManyImports == {Tuesdays, Monthly, Once, OneTime}

\* OneAttemptPerOccurrence and NoOccurrenceIsPassedOver claim nothing of what
\* follows a step that interferes.
Uninterfered == ~interfered
=============================================================================
