----------------------------- MODULE MCSchedule -----------------------------
(* Symmetry for TLC, and a statement of the documentation about the         *)
(* schedule, put to the model of the code.                                   *)
EXTENDS Schedule, TLC

\* Ids, settings and web threads are only compared.
Symmetry == Permutations(Ids) \cup Permutations(Settings) \cup Permutations(Web)

\* DOCS.md, Scheduling: scheduled install attempts run on the selected weekday
\* set at the selected hour.  A check that began before an import ends after it
\* and writes the next install of the previous settings back.
InstallsFollowSettings ==
  At(Main, "idle") /\ LegacyInstallDue /\ (\A p \in Web : At(p, "idle"))
    => file.install.by = config
=============================================================================
