--------------------------- MODULE Configuration ---------------------------
(***************************************************************************)
(* Where the configuration comes from and what the legacy install schedule *)
(* makes of it: options stored by the Supervisor, overrides stored by the  *)
(* add-on, their parsing, an import step by step, edits in the user        *)
(* interface, restarts, and the attempts to install that result.           *)
(*                                                                         *)
(* Options are functions from option names to values.  Of some eighty      *)
(* options those are kept that decide when an install is attempted and     *)
(* whether the calendar rules refuse it.  Scheduled tasks (Schedule) are   *)
(* absent, and installs succeed or are refused without other effects.      *)
(*                                                                         *)
(* The service loop and the web threads read next_install and its          *)
(* signature, compute, and write in later steps, as in Schedule:           *)
(* StateStore.update reads the whole of state.json, changes some keys and  *)
(* writes all of it back.                                                  *)
(***************************************************************************)
EXTENDS Calendar

CONSTANTS
  Edits,     \* what the user may set in the Supervisor's user interface
  Imports,   \* the options that clients import
  Web,       \* the threads of the web server
  Main,      \* the thread of the service loop
  Jitter,    \* the largest jitter, in slots
  Offset,    \* local time is this far ahead of UTC
  Horizon    \* bound: time stops at the end of this day

ASSUME ThreadsAssumption == Main \notin Web
ASSUME JitterAssumption == Jitter \in 0..DayLength
ASSUME OffsetAssumption == Offset \in (1 - DayLength)..(DayLength - 1)
\* The calendar reaches past the bound, and a hundred years do too.
ASSUME HorizonAssumption ==
  /\ Horizon \in 0..36499
  /\ Len(MonthStart) > 2 /\ MonthStart[1] = 0 /\ Horizon < MonthStart[Len(MonthStart) - 1]

NoMoment == [day |-> -1, slot |-> 0]
NoFrequency == ""
\* "22:00-06:00"
DefaultWindow == [start |-> DayLength - 1, end |-> 0]

\* ADDON_OPTION_KEYS and DEFAULT_OPTIONS, in part
AddonOptionKeys == {"install_days", "install_hour", "auto_install"}
DefaultOptions ==
  [install_days |-> {6}, install_hour |-> 0, auto_install |-> FALSE,
   frequency |-> NoFrequency, monthday |-> 1, once_at |-> NoMoment,
   allowed_weekdays |-> Weekdays, window |-> DefaultWindow]
OptionKeys == DOMAIN DefaultOptions
OverrideKeys == OptionKeys \ AddonOptionKeys

\* Options, all or some, as they are given.  A frequency may be given by another
\* spelling or by a word that is none, and 7 is any word that is no weekday.
Frequencies == {"daily", "weekly", "monthly", "once"}
Spellings == Frequencies \cup {NoFrequency, "one-time", "fortnightly"}
DayWords == Weekdays \cup {7}
Values ==
  [install_days |-> SUBSET DayWords, install_hour |-> Slots, auto_install |-> BOOLEAN,
   frequency |-> Spellings, monthday |-> Int, once_at |-> Moment,
   allowed_weekdays |-> SUBSET DayWords, window |-> [start : Slots, end : Slots]]
IsOptions(options) ==
  DOMAIN options \subseteq OptionKeys /\ \A k \in DOMAIN options : options[k] \in Values[k]
ASSUME OptionsAssumption ==
  /\ \A options \in Edits \cup Imports : IsOptions(options)
  /\ \A new \in Edits : DOMAIN new \subseteq AddonOptionKeys

Threads == Web \cup {Main}

VARIABLES
  now,        \* the time, in UTC
  addon,      \* the add-on options the Supervisor has stored: options.json at a start
  overrides,  \* runtime_overrides.json
  config,     \* self.config and self.scheduler
  schedule,   \* next_install and schedule_signature in state.json
  request,    \* the import each thread is at
  writer,     \* what each thread is doing with the schedule
  up,         \* is the process running
  attempt,    \* when an install was attempted last
  unread,     \* history: since the start options were stored that from_dict refuses
  mixed,      \* history: since the start two imports were under way at once
  interfered  \* history: a thread or a stop came between another thread's reads and writes

history == <<unread, mixed, interfered>>
vars == <<now, addon, overrides, config, schedule, request, writer, up, attempt, history>>

\* dict.update, and its restriction to some keys
Updated(options, new) ==
  [k \in DOMAIN options \cup DOMAIN new |-> IF k \in DOMAIN new THEN new[k] ELSE options[k]]
Only(options, keys) == [k \in DOMAIN options \cap keys |-> options[k]]

-----------------------------------------------------------------------------
(* Parsing *)

\* SCHEDULE_FREQUENCY_ALIASES
Spelled(frequency) == IF frequency = "one-time" THEN "once" ELSE frequency

\* _normalize_schedule_frequency
Frequency(options) ==
  IF options.frequency # NoFrequency THEN Spelled(options.frequency)
  ELSE IF options.once_at # NoMoment THEN "once"
  ELSE IF options.install_days = Weekdays THEN "daily" ELSE "weekly"

\* AppConfig.from_dict: the values that were worked out become the raw options.
\* The policy's weekdays are derived only if nobody has given any.
FromDict(given) ==
  LET merged == Updated(DefaultOptions, given)
      days == IF merged.install_days = {} THEN DefaultOptions.install_days ELSE merged.install_days
      dated == [merged EXCEPT !.install_days = days]
      frequency == Frequency(dated)
      allowed == IF "allowed_weekdays" \in DOMAIN given THEN given.allowed_weekdays
                 ELSE IF frequency = "weekly" THEN days ELSE Weekdays
  IN [dated EXCEPT !.frequency = frequency, !.allowed_weekdays = allowed]

\* from_dict and AppConfig.validate raise for anything else.
Valid(options) ==
  /\ options.install_days \cup options.allowed_weekdays \subseteq Weekdays
  /\ options.frequency \in Frequencies
  /\ options.monthday \in 1..31
  /\ options.frequency = "once" => options.once_at # NoMoment

\* load_config
Stored == Updated(addon, overrides)

\* Mutant: the hour is not part of the signature.
SignatureWithoutHour(options) == Only(options, OptionKeys \ {"auto_install", "install_hour"})
\* _schedule_signature
Signature(options) == Only(options, OptionKeys \ {"auto_install"})
NoSignature == <<>>

-----------------------------------------------------------------------------
(* The legacy schedule *)

\* _trigger_for("install")
Occurrence(options, from) ==
  CASE options.frequency = "once" -> OneTimeNext(options.once_at, from)
    [] options.frequency = "monthly" -> MonthlyNext(options.monthday, options.install_hour, from)
    [] options.frequency = "daily" -> WeekdaySetNext(Weekdays, options.install_hour, from)
    [] options.frequency = "weekly" -> WeekdaySetNext(options.install_days, options.install_hour, from)

\* compute_next: the jitter follows from the date and a seed and may be any.  A
\* one-time schedule has none.
NextInstalls(options, from) ==
  {Shift(Occurrence(options, from), j) : j \in 0..(IF options.frequency = "once" THEN 0 ELSE Jitter)}

\* next and signature: what a thread has read or computed and will write; copy: in
\* an update, what it read of the schedule, changed.
Idle == [at |-> "idle", next |-> NoMoment, signature |-> NoSignature, copy |-> {}]
Refreshing == {"refresh", "runs", "sign"}

At(p, point) == up /\ writer[p].at = point /\ writer[p].copy = {}
\* Between its reads and its writes
Busy(p) == writer[p].at \notin {"idle", "skipping", "installing"} \/ writer[p].copy # {}

Holds(p, point, next) ==
  writer' = [writer EXCEPT ![p] =
    [at |-> point, next |-> next, signature |-> Signature(config), copy |-> {}]]
Reads(p, point) == Holds(p, point, schedule.next)
Computes(p, point) == \E next \in NextInstalls(config, now) : Holds(p, point, next)

\* StateStore.update reads the file and changes its copy ...
BeginUpdate(p) ==
  /\ up /\ writer[p].copy = {} /\ writer[p].at # "refresh"
  /\ LET w == writer[p]
         new == CASE w.at \in {"idle", "skipping", "installing"} -> schedule
                  [] w.at = "sign" -> [schedule EXCEPT !.signature = w.signature]
                  [] OTHER -> [schedule EXCEPT !.next = w.next]
     IN writer' = [writer EXCEPT ![p].copy = {new}]
  /\ UNCHANGED <<now, addon, overrides, config, schedule, request, up, attempt, history>>

\* ... and writes all of it back.  What it changes, or the end of an install, comes
\* between the reads and the writes of the threads that are busy.
EndUpdate(p, points) ==
  /\ up /\ writer[p].at \in points
  /\ schedule' \in writer[p].copy
  /\ interfered' = (interfered \/ (/\ schedule' # schedule \/ writer[p].at = "advance"
                                  /\ \E q \in Threads \ {p} : Busy(q)))
  /\ UNCHANGED <<now, addon, overrides, config, request, up, attempt, unread, mixed>>

\* The updates of everything else in state.json put back the schedule they read.
UpdateOtherKeys(p) ==
  /\ EndUpdate(p, {"idle", "skipping", "installing"})
  /\ writer' = [writer EXCEPT ![p].copy = {}]

\* _refresh_schedule without tasks.  The one at a start may find a missing next
\* install, but then no signature either.
Refresh(p) ==
  /\ At(p, "refresh")
  /\ IF schedule.signature = Signature(config) THEN Reads(p, "runs") ELSE Computes(p, "runs")
  /\ UNCHANGED <<now, addon, overrides, config, schedule, request, up, attempt, history>>

SetNextRuns(p) ==
  /\ EndUpdate(p, {"runs"})
  /\ writer' = [writer EXCEPT ![p].at = "sign", ![p].copy = {}]

SetScheduleSignature(p) ==
  /\ EndUpdate(p, {"sign"})
  /\ writer' = [writer EXCEPT ![p] = Idle]

\* run_check reads the next install, once more when it fails, and writes it back.
BeginCheck ==
  /\ At(Main, "idle")
  /\ Reads(Main, "check")
  /\ UNCHANGED <<now, addon, overrides, config, schedule, request, up, attempt, history>>

CheckFails ==
  /\ At(Main, "check")
  /\ Reads(Main, "failed")
  /\ UNCHANGED <<now, addon, overrides, config, schedule, request, up, attempt, history>>

Due == At(Main, "idle") /\ ~Before(now, schedule.next)

\* The calendar rules of evaluate_run that refuse an install, by local time.
RefusedBy(options) ==
  LET local == Shift(now, Offset)
  IN {rule \in {"weekday", "window"} :
        \/ rule = "weekday" /\ Weekday(local.day) \notin options.allowed_weekdays
        \/ rule = "window" /\ ~WithinWindow(local.slot, options.window)}

SkipInstall ==
  /\ Due /\ ~config.auto_install
  /\ writer' = [writer EXCEPT ![Main].at = "skipping"]
  /\ UNCHANGED <<now, addon, overrides, config, schedule, request, up, attempt, history>>

\* The install goes on until the rules have refused it or its items are through.
BeginInstall ==
  /\ Due /\ config.auto_install
  /\ writer' = [writer EXCEPT ![Main].at = "installing"]
  /\ attempt' = now
  /\ UNCHANGED <<now, addon, overrides, config, schedule, request, up, history>>

\* The install or its refusal ends in _advance_install_schedule ...
EndInstall ==
  /\ At(Main, "skipping") \/ At(Main, "installing")
  /\ Computes(Main, "advance")
  /\ UNCHANGED <<now, addon, overrides, config, schedule, request, up, attempt, history>>

\* An install that is cut off before the schedule is advanced counts as none.
CutOff(last) == IF writer[Main].at \in {"installing", "advance"} THEN NoMoment ELSE last

\* ... unless a notification raises: it counts as cut off.
InstallRaises ==
  /\ At(Main, "skipping") \/ At(Main, "installing")
  /\ writer' = [writer EXCEPT ![Main] = Idle]
  /\ attempt' = CutOff(attempt)
  /\ UNCHANGED <<now, addon, overrides, config, schedule, request, up, history>>

\* A check or an install writes the next install and is over.
WriteNextInstall ==
  /\ EndUpdate(Main, {"check", "failed", "advance"})
  /\ writer' = [writer EXCEPT ![Main] = Idle]

-----------------------------------------------------------------------------
(* Import *)

NoRequest == [at |-> "none", options |-> <<>>]
Goto(p, point) == request' = [request EXCEPT ![p].at = point]
EndRequest(p) == request' = [request EXCEPT ![p] = NoRequest]
\* The web server is started after __init__ has refreshed the schedule.
Serving == up /\ writer[Main].at \notin Refreshing

\* import_configuration up to the answer that the add-on options are valid.  Only
\* the frequency as it is given is compared with "once".  A request that is refused
\* here changes nothing.
BeginImport(p, incoming) ==
  LET options == Updated(config, incoming)
  IN /\ Serving /\ At(p, "idle") /\ request[p].at = "none"
     /\ options.frequency = "once" => Before(now, options.once_at)
     /\ request' = [request EXCEPT ![p] = [at |-> "valid", options |-> options]]
     /\ mixed' = (mixed \/ \E q \in Web : request[q].at # "none")
     /\ UNCHANGED <<now, addon, overrides, config, schedule, writer, up, attempt, unread, interfered>>

\* The options are stored with the Supervisor; the answer may be lost, or the
\* Supervisor may refuse, and the request ends there.
SaveAddonOptions(p) ==
  /\ request[p].at = "valid"
  /\ \/ /\ addon' = Only(request[p].options, AddonOptionKeys)
        /\ unread' = (unread \/ ~Valid(FromDict(request[p].options)))
        /\ Goto(p, "saved") \/ EndRequest(p)
     \/ UNCHANGED <<addon, unread>> /\ EndRequest(p)
  /\ UNCHANGED <<now, overrides, config, schedule, writer, up, attempt, mixed, interfered>>

\* Mutant: what differs from the configuration in force.
OverridesThatChange(options) ==
  {Only(options, {k \in OverrideKeys : options[k] # config[k]})}
\* What differs from the defaults.  Lists of all weekdays are equal to the
\* default list only if they are in its order.
OverridesOf(options) ==
  LET differ == {k \in OverrideKeys : options[k] # DefaultOptions[k]}
  IN {Only(options, differ), Only(options, differ \cup {"allowed_weekdays"})}

StoreOverrides(p) ==
  /\ request[p].at = "saved"
  /\ overrides' \in OverridesOf(request[p].options)
  /\ Goto(p, "stored")
  /\ UNCHANGED <<now, addon, config, schedule, writer, up, attempt, history>>

\* reload_config up to _refresh_schedule ...
Reload(p) ==
  LET options == FromDict(request[p].options)
  IN /\ request[p].at = "stored" /\ At(p, "idle")
     /\ Valid(options)
     /\ config' = options
     /\ writer' = [writer EXCEPT ![p].at = "refresh"]
     /\ interfered' = (interfered \/ \E q \in Threads : Busy(q))
     /\ EndRequest(p)
     /\ UNCHANGED <<now, addon, overrides, schedule, up, attempt, unread, mixed>>

\* ... or from_dict raises.
ReloadRefused(p) ==
  /\ request[p].at = "stored"
  /\ ~Valid(FromDict(request[p].options))
  /\ EndRequest(p)
  /\ UNCHANGED <<now, addon, overrides, config, schedule, writer, up, attempt, history>>

-----------------------------------------------------------------------------
(* The environment *)

\* The user edits the add-on's options; they are read at the next start.
EditOptions(new) ==
  /\ addon' = Updated(addon, new)
  /\ unread' = (unread \/ ~Valid(FromDict(new)))
  /\ UNCHANGED <<now, overrides, config, schedule, request, writer, up, attempt, mixed, interfered>>

Stop ==
  /\ up
  /\ up' = FALSE
  /\ request' = [p \in Web |-> NoRequest]
  /\ writer' = [p \in Threads |-> Idle]
  /\ attempt' = CutOff(attempt)
  /\ interfered' = (interfered \/ \E p \in Threads : writer[p].at = "sign")
  /\ UNCHANGED <<now, addon, overrides, config, schedule, unread, mixed>>

\* load_config raises for invalid options, and the process ends at once.
Start ==
  LET options == FromDict(Stored)
  IN /\ ~up
     /\ Valid(options)
     /\ config' = options
     /\ writer' = [writer EXCEPT ![Main].at = "refresh"]
     /\ up' = TRUE
     /\ unread' = FALSE /\ mixed' = FALSE
     /\ UNCHANGED <<now, addon, overrides, schedule, request, attempt, interfered>>

\* The service loop ticks more often than a slot passes.
PassTime ==
  /\ ~Due
  /\ now.day < Horizon
  /\ now' = Shift(now, 1)
  /\ UNCHANGED <<addon, overrides, config, schedule, request, writer, up, attempt, history>>

-----------------------------------------------------------------------------
Init ==
  /\ now = [day |-> 0, slot |-> 0]
  /\ addon = Only(DefaultOptions, AddonOptionKeys)
  /\ overrides = <<>>
  /\ config = FromDict(addon)
  /\ schedule = [next |-> NoMoment, signature |-> NoSignature]
  /\ request = [p \in Web |-> NoRequest]
  /\ writer = [p \in Threads |-> Idle]
  /\ up = FALSE
  /\ attempt = NoMoment
  /\ unread = FALSE /\ mixed = FALSE /\ interfered = FALSE

Import(p) ==
  \/ \E incoming \in Imports : BeginImport(p, incoming)
  \/ SaveAddonOptions(p) \/ StoreOverrides(p) \/ Reload(p) \/ ReloadRefused(p)

Write(p) ==
  \/ BeginUpdate(p) \/ UpdateOtherKeys(p)
  \/ Refresh(p) \/ SetNextRuns(p) \/ SetScheduleSignature(p)

Tick ==
  \/ BeginCheck \/ CheckFails
  \/ SkipInstall \/ BeginInstall \/ EndInstall \/ InstallRaises
  \/ WriteNextInstall

Next ==
  \/ Tick
  \/ Write(Main)
  \/ \E p \in Web : Import(p) \/ (Serving /\ request[p].at = "none" /\ Write(p))
  \/ \E new \in Edits : EditOptions(new)
  \/ Stop \/ Start \/ PassTime

Spec == Init /\ [][Next]_vars

-----------------------------------------------------------------------------
(* Properties *)

\* The moments at which an install is to be attempted.
Occurs(options, m) ==
  CASE options.frequency = "once" -> m = options.once_at
    [] options.frequency = "monthly" ->
         m = [day |-> DayOfMonth(MonthOf(m.day), options.monthday), slot |-> options.install_hour]
    [] options.frequency = "daily" -> m.slot = options.install_hour
    [] options.frequency = "weekly" ->
         m.slot = options.install_hour /\ Weekday(m.day) \in options.install_days
Moments == [day : 0..Horizon, slot : Slots]

\* No thread is in _refresh_schedule.
Refreshed == up /\ \A p \in Threads : writer[p].at \notin Refreshing

\* No occurrence is attempted twice, whatever is imported, edited or restarted: between
\* an attempt and the one before it, unless that was cut off, lies an occurrence of the
\* schedule in force, until an import, an update or a stop first comes between the
\* reads and the writes of a thread.
OneAttemptPerOccurrence ==
  [][writer[Main].at = "idle" /\ writer'[Main].at = "installing" /\ Refreshed /\ ~interfered =>
       \E m \in Moments : Occurs(config, m) /\ Before(attempt, m) /\ ~Before(now, m)]_vars

\* Until then no occurrence is passed over either: the next install comes with the
\* first occurrence in the future or before it.
NoOccurrenceIsPassedOver ==
  Refreshed /\ ~interfered =>
    \A m \in Moments : Occurs(config, m) /\ Before(now, m) => ~Before(Shift(m, Jitter), schedule.next)

\* Whatever an import has stored when it is cut off or fails, together with what
\* the user sets, is accepted at the next start, if each would be by itself.
StoredOptionsAreValid == unread \/ Valid(FromDict(Stored))

ScheduleKeys == {"install_days", "install_hour", "frequency", "monthday", "once_at", "window"}
\* What is in force while no import is under way is what a start finds, unless the user
\* has edited the options since, from_dict refused what was stored, or two imports
\* have been under way at once.
ImportsOutliveRestart ==
  /\ up /\ ~unread /\ ~mixed /\ addon = Only(config, AddonOptionKeys)
  /\ \A p \in Web : request[p].at = "none"
  => Only(FromDict(Stored), ScheduleKeys) = Only(config, ScheduleKeys)
=============================================================================
