------------------------ MODULE ConfigurationProofs ------------------------
(***************************************************************************)
(* Proofs about Configuration for any options that are edited or imported, *)
(* those that from_dict refuses included, by any number of web threads,    *)
(* and for any calendar, jitter and time zone: when what is stored can be  *)
(* started with, what outlives a restart, and that the schedule passes no  *)
(* occurrence over and attempts none twice until a thread or a stop comes  *)
(* between the reads and the writes of another.                            *)
(***************************************************************************)
EXTENDS Configuration, CalendarProofs

-----------------------------------------------------------------------------
(* Options *)

LEMMA UpdatedOptions ==
  ASSUME NEW options, NEW new
  PROVE  /\ DOMAIN Updated(options, new) = DOMAIN options \cup DOMAIN new
         /\ \A k \in DOMAIN new : Updated(options, new)[k] = new[k]
         /\ \A k \in DOMAIN options \ DOMAIN new : Updated(options, new)[k] = options[k]
         /\ IsOptions(options) /\ IsOptions(new) => IsOptions(Updated(options, new))
BY DEF Updated, IsOptions

LEMMA UpdatedAt ==
  ASSUME NEW options, NEW new, NEW k \in DOMAIN options \cup DOMAIN new
  PROVE  Updated(options, new)[k] = IF k \in DOMAIN new THEN new[k] ELSE options[k]
BY DEF Updated

LEMMA OnlySome ==
  ASSUME NEW options, NEW keys
  PROVE  /\ DOMAIN Only(options, keys) = DOMAIN options \cap keys
         /\ \A k \in DOMAIN options \cap keys : Only(options, keys)[k] = options[k]
         /\ IsOptions(options) => IsOptions(Only(options, keys))
BY DEF Only, IsOptions

LEMMA Defaults ==
  /\ IsOptions(DefaultOptions) /\ OptionKeys = DOMAIN DefaultOptions
  /\ OptionKeys = {"install_days", "install_hour", "auto_install", "frequency", "monthday",
                   "once_at", "allowed_weekdays", "window"}
  /\ OverrideKeys = {"frequency", "monthday", "once_at", "allowed_weekdays", "window"}
  /\ DefaultOptions.install_days = {6} /\ DefaultOptions.allowed_weekdays = Weekdays
  /\ DefaultOptions.frequency = NoFrequency /\ DefaultOptions.monthday \in 1..31
<1>1. OptionKeys = {"install_days", "install_hour", "auto_install", "frequency", "monthday",
                    "once_at", "allowed_weekdays", "window"}
  BY DEF OptionKeys, DefaultOptions
<1>2. /\ DefaultOptions.install_days \in Values.install_days
      /\ DefaultOptions.install_hour \in Values.install_hour
      /\ DefaultOptions.auto_install \in Values.auto_install
      /\ DefaultOptions.frequency \in Values.frequency
      /\ DefaultOptions.monthday \in Values.monthday
      /\ DefaultOptions.once_at \in Values.once_at
      /\ DefaultOptions.allowed_weekdays \in Values.allowed_weekdays
      /\ DefaultOptions.window \in Values.window
  BY DayLengthAssumption
  DEF DefaultOptions, Values, DayWords, Weekdays, Spellings, Slots, Moment, NoMoment, DefaultWindow
<1>3. IsOptions(DefaultOptions)
  BY <1>1, <1>2 DEF IsOptions, OptionKeys
<1>4. OverrideKeys = {"frequency", "monthday", "once_at", "allowed_weekdays", "window"}
  BY <1>1 DEF OverrideKeys, AddonOptionKeys
<1>. QED
  BY <1>1, <1>3, <1>4 DEF OptionKeys, DefaultOptions

LEMMA DefaultsAreOptions == IsOptions(DefaultOptions) /\ OptionKeys = DOMAIN DefaultOptions
BY Defaults, Zenon

\* What is given, over the defaults.
LEMMA Merged ==
  ASSUME NEW given, IsOptions(given)
  PROVE  LET merged == Updated(DefaultOptions, given)
         IN /\ IsOptions(merged) /\ DOMAIN merged = OptionKeys
            /\ \A k \in OptionKeys : merged[k] = IF k \in DOMAIN given THEN given[k] ELSE DefaultOptions[k]
<1>1. DOMAIN given \subseteq OptionKeys
  BY DEF IsOptions
<1>. DEFINE merged == Updated(DefaultOptions, given)
<1>2. /\ DOMAIN merged = DOMAIN DefaultOptions \cup DOMAIN given
      /\ IsOptions(DefaultOptions) /\ IsOptions(given) => IsOptions(merged)
  BY UpdatedOptions
<1>3. \A k \in DOMAIN DefaultOptions \cup DOMAIN given :
        merged[k] = IF k \in DOMAIN given THEN given[k] ELSE DefaultOptions[k]
  BY UpdatedAt
<1>. HIDE DEF merged
<1>4. IsOptions(merged)
  BY <1>2, DefaultsAreOptions
<1>5. DOMAIN merged = OptionKeys
  BY <1>1, <1>2, DefaultsAreOptions
<1>6. \A k \in OptionKeys : merged[k] = IF k \in DOMAIN given THEN given[k] ELSE DefaultOptions[k]
  BY <1>3, DefaultsAreOptions
<1>. QED
  BY <1>4, <1>5, <1>6 DEF merged

\* What an option is worth in options that have them all.
LEMMA AllOptions ==
  ASSUME NEW options, IsOptions(options), DOMAIN options = OptionKeys
  PROVE  /\ options.install_days \in SUBSET DayWords /\ options.install_hour \in Slots
         /\ options.frequency \in Spellings /\ options.monthday \in Int
         /\ options.once_at \in Moment /\ options.allowed_weekdays \in SUBSET DayWords
<1>1. \A k \in OptionKeys : options[k] \in Values[k]
  BY DEF IsOptions
<1>. QED
  BY <1>1, Defaults DEF Values

\* What from_dict makes of the options it is given, key by key.
LEMMA FromDictAt ==
  ASSUME NEW given, IsOptions(given)
  PROVE  LET merged == Updated(DefaultOptions, given)
             options == FromDict(given)
         IN /\ DOMAIN options = OptionKeys
            /\ options.install_days = IF merged.install_days = {} THEN {6} ELSE merged.install_days
            /\ options.frequency =
                 IF merged.frequency # NoFrequency THEN Spelled(merged.frequency)
                 ELSE IF merged.once_at # NoMoment THEN "once"
                 ELSE IF options.install_days = Weekdays THEN "daily" ELSE "weekly"
            /\ options.allowed_weekdays =
                 IF "allowed_weekdays" \in DOMAIN given THEN merged.allowed_weekdays
                 ELSE IF options.frequency = "weekly" THEN options.install_days ELSE Weekdays
            /\ \A k \in {"install_hour", "auto_install", "monthday", "once_at", "window"} : options[k] = merged[k]
<1>. DEFINE merged == Updated(DefaultOptions, given)
            days == IF merged.install_days = {} THEN DefaultOptions.install_days ELSE merged.install_days
            dated == [merged EXCEPT !.install_days = days]
            frequency == Frequency(dated)
            allowed == IF "allowed_weekdays" \in DOMAIN given THEN given.allowed_weekdays
                       ELSE IF frequency = "weekly" THEN days ELSE Weekdays
            options == [dated EXCEPT !.frequency = frequency, !.allowed_weekdays = allowed]
<1>0. FromDict(given) = options
  BY DEF FromDict
<1>1. DOMAIN merged = OptionKeys
  BY Merged
<1>2. "allowed_weekdays" \in DOMAIN given => given.allowed_weekdays = merged.allowed_weekdays
  <2>1. DOMAIN given \subseteq OptionKeys
    BY DEF IsOptions
  <2>. QED
    BY <2>1, Merged
<1>. HIDE DEF merged
<1>3. {"install_days", "install_hour", "auto_install", "frequency", "monthday", "once_at",
       "allowed_weekdays", "window"} \subseteq OptionKeys
  BY Defaults
<1>4. days = IF merged.install_days = {} THEN {6} ELSE merged.install_days
  BY Defaults
<1>. HIDE DEF days
<1>5. /\ DOMAIN dated = OptionKeys /\ dated.install_days = days
      /\ \A k \in OptionKeys \ {"install_days"} : dated[k] = merged[k]
  BY <1>1, <1>3
<1>. HIDE DEF dated
<1>6. frequency = IF merged.frequency # NoFrequency THEN Spelled(merged.frequency)
                  ELSE IF merged.once_at # NoMoment THEN "once"
                  ELSE IF days = Weekdays THEN "daily" ELSE "weekly"
  <2>1. dated.frequency = merged.frequency /\ dated.once_at = merged.once_at
    BY <1>3, <1>5
  <2>. QED
    BY <1>5, <2>1 DEF Frequency
<1>7. allowed = IF "allowed_weekdays" \in DOMAIN given THEN merged.allowed_weekdays
                ELSE IF frequency = "weekly" THEN days ELSE Weekdays
  BY <1>2
<1>. HIDE DEF frequency, allowed
<1>8. /\ DOMAIN options = OptionKeys /\ options.install_days = days
      /\ options.frequency = frequency /\ options.allowed_weekdays = allowed
      /\ \A k \in OptionKeys \ {"install_days", "frequency", "allowed_weekdays"} : options[k] = merged[k]
  BY <1>3, <1>5
<1>. HIDE DEF options
<1>. QED
  BY <1>0, <1>3, <1>4, <1>6, <1>7, <1>8 DEF merged

\* What from_dict accepts, said of the options before they are parsed: of those the
\* add-on stores as overrides, and of all.
OverridesRead(given) ==
  LET merged == Updated(DefaultOptions, given)
  IN /\ merged.allowed_weekdays \subseteq Weekdays
     /\ merged.monthday \in 1..31
     /\ Spelled(merged.frequency) \in Frequencies \cup {NoFrequency}
     /\ Spelled(merged.frequency) = "once" => merged.once_at # NoMoment
DaysRead(given) == "install_days" \in DOMAIN given => given.install_days \subseteq Weekdays

LEMMA ReadableIsValid ==
  ASSUME NEW given, IsOptions(given)
  PROVE  Valid(FromDict(given)) <=> DaysRead(given) /\ OverridesRead(given)
<1>. DEFINE merged == Updated(DefaultOptions, given)
<1>. PICK options : options = FromDict(given)
  OBVIOUS
<1>1. /\ options.install_days = IF merged.install_days = {} THEN {6} ELSE merged.install_days
      /\ options.frequency =
           IF merged.frequency # NoFrequency THEN Spelled(merged.frequency)
           ELSE IF merged.once_at # NoMoment THEN "once"
           ELSE IF options.install_days = Weekdays THEN "daily" ELSE "weekly"
      /\ options.allowed_weekdays =
           IF "allowed_weekdays" \in DOMAIN given THEN merged.allowed_weekdays
           ELSE IF options.frequency = "weekly" THEN options.install_days ELSE Weekdays
      /\ options.monthday = merged.monthday /\ options.once_at = merged.once_at
  BY FromDictAt
<1>2. \A k \in {"install_days", "allowed_weekdays"} :
        merged[k] = IF k \in DOMAIN given THEN given[k] ELSE DefaultOptions[k]
  <2>1. {"install_days", "allowed_weekdays"} \subseteq OptionKeys
    BY Defaults
  <2>. QED
    BY <2>1, Merged
<1>3. merged.install_days \subseteq Weekdays <=> DaysRead(given)
  BY <1>2, Defaults DEF DaysRead, Weekdays
<1>4. "allowed_weekdays" \notin DOMAIN given => merged.allowed_weekdays = Weekdays
  BY <1>2, Defaults
<1>5. OverridesRead(given) <=>
        /\ merged.allowed_weekdays \subseteq Weekdays
        /\ merged.monthday \in 1..31
        /\ Spelled(merged.frequency) \in Frequencies \cup {NoFrequency}
        /\ Spelled(merged.frequency) = "once" => merged.once_at # NoMoment
  BY DEF OverridesRead
<1>6. NoFrequency \notin Frequencies /\ Spelled(NoFrequency) = NoFrequency
      /\ "once" # NoFrequency /\ {"once", "daily", "weekly"} \subseteq Frequencies
  BY DEF NoFrequency, Frequencies, Spelled
<1>7. \A f : f # NoFrequency => Spelled(f) # NoFrequency
  BY DEF Spelled, NoFrequency
<1>. HIDE DEF merged
<1>8. options.install_days \subseteq Weekdays <=> merged.install_days \subseteq Weekdays
  <2>1. {6} \subseteq Weekdays
    BY DEF Weekdays
  <2>. QED
    BY <1>1, <2>1
<1>9. options.install_days \cup options.allowed_weekdays \subseteq Weekdays <=>
        merged.install_days \subseteq Weekdays /\ merged.allowed_weekdays \subseteq Weekdays
  BY <1>1, <1>4, <1>8
<1>10. options.frequency \in Frequencies <=> Spelled(merged.frequency) \in Frequencies \cup {NoFrequency}
  BY <1>1, <1>6, <1>7
<1>11. (options.frequency = "once" => options.once_at # NoMoment) <=>
         (Spelled(merged.frequency) = "once" => merged.once_at # NoMoment)
  BY <1>1, <1>6
<1>. QED
  BY <1>1, <1>3, <1>5, <1>9, <1>10, <1>11 DEF Valid

LEMMA FromDictIsOptions ==
  ASSUME NEW given, IsOptions(given)
  PROVE  /\ IsOptions(FromDict(given)) /\ DOMAIN FromDict(given) = OptionKeys
         /\ FromDict(given).install_days # {}
<1>. DEFINE merged == Updated(DefaultOptions, given)
<1>. PICK options : options = FromDict(given)
  OBVIOUS
<1>1. /\ DOMAIN options = OptionKeys
      /\ options.install_days = IF merged.install_days = {} THEN {6} ELSE merged.install_days
      /\ options.frequency =
           IF merged.frequency # NoFrequency THEN Spelled(merged.frequency)
           ELSE IF merged.once_at # NoMoment THEN "once"
           ELSE IF options.install_days = Weekdays THEN "daily" ELSE "weekly"
      /\ options.allowed_weekdays =
           IF "allowed_weekdays" \in DOMAIN given THEN merged.allowed_weekdays
           ELSE IF options.frequency = "weekly" THEN options.install_days ELSE Weekdays
      /\ \A k \in {"install_hour", "auto_install", "monthday", "once_at", "window"} : options[k] = merged[k]
  BY FromDictAt
<1>2. IsOptions(merged) /\ DOMAIN merged = OptionKeys
  BY Merged
<1>. HIDE DEF merged
<1>3. /\ merged.install_days \in SUBSET DayWords /\ merged.frequency \in Spellings
      /\ merged.allowed_weekdays \in SUBSET DayWords
  BY <1>2, AllOptions
<1>4. options.install_days \in SUBSET DayWords /\ options.install_days # {}
  BY <1>1, <1>3 DEF DayWords, Weekdays
<1>5. options.allowed_weekdays \in SUBSET DayWords
  BY <1>1, <1>3, <1>4 DEF DayWords
<1>6. options.frequency \in Spellings
  BY <1>1, <1>3 DEF Spellings, Frequencies, Spelled
<1>7. \A k \in {"install_hour", "auto_install", "monthday", "once_at", "window"} : options[k] \in Values[k]
  <2>1. \A k \in {"install_hour", "auto_install", "monthday", "once_at", "window"} : k \in OptionKeys
    BY Defaults
  <2>2. \A k \in OptionKeys : merged[k] \in Values[k]
    BY <1>2 DEF IsOptions
  <2>. QED
    BY <1>1, <2>1, <2>2
<1>8. \A k \in OptionKeys : options[k] \in Values[k]
  <2>1. \A k \in {"install_days", "frequency", "allowed_weekdays"} : options[k] \in Values[k]
    BY <1>4, <1>5, <1>6 DEF Values
  <2>. QED
    BY <1>7, <2>1, Defaults
<1>. QED
  BY <1>1, <1>4, <1>8 DEF IsOptions

\* Options as a start or an import can leave them in force.
Full(options) ==
  /\ IsOptions(options) /\ DOMAIN options = OptionKeys
  /\ options.install_days # {}
  /\ Valid(options)

LEMMA FullOptions ==
  ASSUME NEW options, Full(options)
  PROVE  /\ options.install_days \in SUBSET Weekdays /\ options.install_days # {}
         /\ options.install_hour \in Slots
         /\ options.frequency \in Frequencies /\ options.monthday \in Nat \ {0}
         /\ options.once_at \in Moment
BY AllOptions DEF Full, Valid

-----------------------------------------------------------------------------
(* What is stored *)

Points == {"none", "valid", "saved", "stored"}
Requested(p) ==
  request[p].at # "none" =>
    LET options == request[p].options
    IN /\ up /\ IsOptions(options) /\ DOMAIN options = OptionKeys
       /\ request[p].at \in {"saved", "stored"} /\ ~unread => DaysRead(options) /\ OverridesRead(options)
RequestsInv ==
  DOMAIN request = Web /\ \A p \in Web : DOMAIN request[p] = {"at", "options"} /\ Requested(p)
StoredInv ==
  /\ IsOptions(addon) /\ DOMAIN addon \subseteq AddonOptionKeys
  /\ IsOptions(overrides) /\ DOMAIN overrides \subseteq OverrideKeys
  /\ ~unread => DaysRead(addon) /\ OverridesRead(overrides)
OptionsInv ==
  /\ now \in Moment /\ now.day \in 0..Horizon
  /\ StoredInv
  /\ Full(config)
  /\ RequestsInv

LEMMA DisjointKeys == AddonOptionKeys \cap OverrideKeys = {} /\ OptionKeys = AddonOptionKeys \cup OverrideKeys
BY Defaults DEF OverrideKeys, AddonOptionKeys

\* What from_dict accepts of the stored options is what it accepts of their parts.
LEMMA StoredIsRead ==
  ASSUME IsOptions(addon), DOMAIN addon \subseteq AddonOptionKeys,
         IsOptions(overrides), DOMAIN overrides \subseteq OverrideKeys
  PROVE  /\ IsOptions(Stored)
         /\ DaysRead(Stored) <=> DaysRead(addon)
         /\ OverridesRead(Stored) <=> OverridesRead(overrides)
         /\ \A k \in OverrideKeys : Updated(DefaultOptions, Stored)[k] = Updated(DefaultOptions, overrides)[k]
<1>1. /\ IsOptions(Stored) /\ DOMAIN Stored = DOMAIN addon \cup DOMAIN overrides
      /\ \A k \in DOMAIN overrides : Stored[k] = overrides[k]
      /\ \A k \in DOMAIN addon \ DOMAIN overrides : Stored[k] = addon[k]
  BY UpdatedOptions DEF Stored
<1>2. "install_days" \in AddonOptionKeys /\ "install_days" \notin OverrideKeys
  BY DisjointKeys DEF AddonOptionKeys
<1>3. DaysRead(Stored) <=> DaysRead(addon)
  BY <1>1, <1>2 DEF DaysRead
<1>4. ASSUME NEW k \in OverrideKeys
      PROVE  Updated(DefaultOptions, Stored)[k] = Updated(DefaultOptions, overrides)[k]
  <2>1. k \in OptionKeys /\ k \notin DOMAIN addon
    BY DisjointKeys
  <2>2. /\ Updated(DefaultOptions, Stored)[k] = IF k \in DOMAIN Stored THEN Stored[k] ELSE DefaultOptions[k]
        /\ Updated(DefaultOptions, overrides)[k] = IF k \in DOMAIN overrides THEN overrides[k] ELSE DefaultOptions[k]
    BY <1>1, <2>1, Merged
  <2>. QED
    BY <1>1, <2>1, <2>2
<1>5. {"frequency", "monthday", "once_at", "allowed_weekdays"} \subseteq OverrideKeys
  BY Defaults
<1>6. OverridesRead(Stored) <=> OverridesRead(overrides)
  BY <1>4, <1>5 DEF OverridesRead
<1>. QED
  BY <1>1, <1>3, <1>4, <1>6

\* What an import stores of a request says the same as the request.
LEMMA OverridesSay ==
  ASSUME NEW options, IsOptions(options), DOMAIN options = OptionKeys,
         NEW stored \in OverridesOf(options)
  PROVE  /\ IsOptions(stored) /\ DOMAIN stored \subseteq OverrideKeys
         /\ \A k \in OverrideKeys : Updated(DefaultOptions, stored)[k] = Updated(DefaultOptions, options)[k]
         /\ OverridesRead(stored) <=> OverridesRead(options)
<1>. DEFINE differ == {k \in OverrideKeys : options[k] # DefaultOptions[k]}
<1>1. PICK keys \in SUBSET OverrideKeys : stored = Only(options, keys) /\ differ \subseteq keys
  <2>1. "allowed_weekdays" \in OverrideKeys
    BY Defaults
  <2>2. differ \subseteq OverrideKeys /\ differ \cup {"allowed_weekdays"} \subseteq OverrideKeys
    BY <2>1
  <2>. QED
    BY <2>2 DEF OverridesOf
<1>2. IsOptions(stored) /\ DOMAIN stored = keys /\ \A k \in keys : stored[k] = options[k]
  <2>1. keys \subseteq DOMAIN options
    BY DisjointKeys
  <2>2. /\ DOMAIN Only(options, keys) = DOMAIN options \cap keys
        /\ \A k \in DOMAIN options \cap keys : Only(options, keys)[k] = options[k]
        /\ IsOptions(Only(options, keys))
    BY OnlySome
  <2>. QED
    BY <1>1, <2>1, <2>2
<1>3. ASSUME NEW k \in OverrideKeys
      PROVE  Updated(DefaultOptions, stored)[k] = Updated(DefaultOptions, options)[k]
  <2>1. k \in OptionKeys
    BY DisjointKeys
  <2>2. /\ Updated(DefaultOptions, stored)[k] = IF k \in DOMAIN stored THEN stored[k] ELSE DefaultOptions[k]
        /\ Updated(DefaultOptions, options)[k] = options[k]
    BY <1>2, <2>1, Merged
  <2>3. k \notin keys => options[k] = DefaultOptions[k]
    BY <1>1
  <2>. QED
    BY <1>2, <2>2, <2>3
<1>4. {"frequency", "monthday", "once_at", "allowed_weekdays"} \subseteq OverrideKeys
  BY Defaults
<1>5. OverridesRead(stored) <=> OverridesRead(options)
  BY <1>3, <1>4 DEF OverridesRead
<1>. QED
  BY <1>2, <1>3, <1>5

LEMMA AddonPart ==
  ASSUME NEW options, IsOptions(options)
  PROVE  LET part == Only(options, AddonOptionKeys)
         IN /\ IsOptions(part) /\ DOMAIN part \subseteq AddonOptionKeys
            /\ DaysRead(options) => DaysRead(part)
<1>1. LET part == Only(options, AddonOptionKeys)
      IN /\ DOMAIN part = DOMAIN options \cap AddonOptionKeys /\ IsOptions(part)
         /\ \A k \in DOMAIN options \cap AddonOptionKeys : part[k] = options[k]
  BY OnlySome
<1>. QED
  BY <1>1 DEF DaysRead

\* A request that no step touches keeps its options, ...
LEMMA RequestsStay ==
  ASSUME RequestsInv, UNCHANGED <<request, up>>, ~unread' => ~unread
  PROVE  RequestsInv'
<1>1. ASSUME NEW q \in Web
      PROVE  DOMAIN request'[q] = {"at", "options"} /\ Requested(q)'
  BY DEF RequestsInv, Requested, DaysRead, OverridesRead, IsOptions, Values
<1>. QED
  BY <1>1 DEF RequestsInv

\* ... and a step of one leaves the others where they are.
LEMMA RequestGoes ==
  ASSUME RequestsInv, NEW p \in Web, NEW point \in Points, Goto(p, point), request[p].at # "none",
         UNCHANGED up, ~unread' => ~unread,
         ~unread' /\ point \in {"saved", "stored"} =>
           DaysRead(request[p].options) /\ OverridesRead(request[p].options)
  PROVE  RequestsInv'
<1>1. /\ DOMAIN request' = Web
      /\ \A q \in Web \ {p} : request'[q] = request[q]
      /\ request'[p].at = point /\ request'[p].options = request[p].options
      /\ DOMAIN request'[p] = {"at", "options"}
  BY DEF RequestsInv, Goto
<1>2. ASSUME NEW q \in Web
      PROVE  DOMAIN request'[q] = {"at", "options"} /\ Requested(q)'
  BY <1>1 DEF RequestsInv, Requested, DaysRead, OverridesRead, IsOptions, Values
<1>. QED
  BY <1>1, <1>2 DEF RequestsInv

LEMMA RequestEnds ==
  ASSUME RequestsInv, NEW p \in Web, EndRequest(p), UNCHANGED up, ~unread' => ~unread
  PROVE  RequestsInv'
<1>1. /\ DOMAIN request' = Web
      /\ \A q \in Web \ {p} : request'[q] = request[q]
      /\ request'[p].at = "none"
      /\ DOMAIN request'[p] = {"at", "options"}
  BY DEF RequestsInv, EndRequest, NoRequest
<1>2. ASSUME NEW q \in Web
      PROVE  DOMAIN request'[q] = {"at", "options"} /\ Requested(q)'
  BY <1>1 DEF RequestsInv, Requested, DaysRead, OverridesRead, IsOptions, Values
<1>. QED
  BY <1>1, <1>2 DEF RequestsInv

\* The time that has passed.
LEMMA TimePasses ==
  ASSUME OptionsInv, PassTime
  PROVE  now' \in Moment /\ now'.day \in 0..Horizon /\ ~Before(now', now)
<1>1. now' = Shift(now, 1) /\ now.day < Horizon /\ now.day \in 0..Horizon
  BY DEF PassTime, OptionsInv
<1>2. /\ now \in Moment /\ DayLength \in Nat /\ DayLength > 0 /\ Horizon \in Int
      /\ now.slot \in 0..(DayLength - 1) /\ now.day \in Int
  <2>1. now \in Moment
    BY DEF OptionsInv
  <2>2. /\ DayLength \in Nat /\ DayLength > 0 /\ Horizon \in Int
    BY DayLengthAssumption, HorizonAssumption
  <2>. QED
    BY <2>1, <2>2 DEF Moment, Slots
<1>3. /\ now'.day = IF now.slot + 1 >= DayLength THEN now.day + 1 ELSE now.day
      /\ now'.slot = IF now.slot + 1 >= DayLength THEN now.slot + 1 - DayLength ELSE now.slot + 1
  BY <1>1, <1>2 DEF Shift, Moment
<1>4. now' \in Moment
  BY <1>1, <1>2, ShiftIsMoment
<1>5. ~Before(Shift(now, 1), Shift(now, 0))
  <2>1. ~Before(now, now)
    BY <1>2, BeforeIsOrder
  <2>. QED
    BY <1>2, <2>1, ShiftKeepsOrder
<1>6. ~Before(now', now)
  BY <1>1, <1>2, <1>5, ShiftedByNone
<1>7. now'.day \in 0..Horizon
  <2>1. now.day + 1 <= Horizon
    BY <1>1, <1>2
  <2>2. now'.day = now.day + 1 \/ now'.day = now.day
    BY <1>3
  <2>. QED
    BY <1>1, <1>2, <2>1, <2>2
<1>. QED
  BY <1>4, <1>6, <1>7

\* What stays after a step that touches none of it.
LEMMA StoredStays ==
  ASSUME OptionsInv
  PROVE  /\ UNCHANGED now => now' \in Moment /\ now'.day \in 0..Horizon
         /\ UNCHANGED <<addon, overrides>> /\ (~unread' => ~unread) => StoredInv'
         /\ UNCHANGED config => Full(config')
<1>1. UNCHANGED <<addon, overrides>> /\ (~unread' => ~unread) => StoredInv'
  BY DEF OptionsInv, StoredInv, IsOptions, Values, DaysRead, OverridesRead
<1>2. UNCHANGED config => Full(config')
  BY DEF OptionsInv
<1>. QED
  BY <1>1, <1>2 DEF OptionsInv

LEMMA OptionsInvAfter ==
  ASSUME now' \in Moment, now'.day \in 0..Horizon, StoredInv', Full(config'), RequestsInv'
  PROVE  OptionsInv'
<1>1. Full(config)'
  BY DEF Full, IsOptions, Valid, Values
<1>. QED
  BY <1>1 DEF OptionsInv

\* The steps that leave the options alone.
LEMMA QuietSteps ==
  ASSUME \/ Tick
         \/ \E p \in Threads : Write(p)
  PROVE  UNCHANGED <<now, addon, overrides, config, request, up, unread, mixed>>
<1>1. ASSUME NEW p \in Threads, Write(p)
      PROVE  UNCHANGED <<now, addon, overrides, config, request, up, unread, mixed>>
  BY <1>1 DEF Write, BeginUpdate, UpdateOtherKeys, Refresh, SetNextRuns, SetScheduleSignature, EndUpdate, history
<1>2. CASE Tick
  BY <1>2 DEF Tick, BeginCheck, CheckFails, SkipInstall, BeginInstall, EndInstall, InstallRaises,
              WriteNextInstall, EndUpdate, history
<1>. QED
  BY <1>1, <1>2

LEMMA OptionsStep ==
  ASSUME OptionsInv, Next
  PROVE  OptionsInv'
<1>0. StoredInv /\ RequestsInv /\ Full(config) /\ now \in Moment /\ now.day \in 0..Horizon
  BY DEF OptionsInv
<1>1. CASE UNCHANGED <<now, addon, overrides, config, request, up, unread>>
  BY <1>0, <1>1, StoredStays, RequestsStay, OptionsInvAfter
<1>2. CASE Tick \/ \E p \in Threads : Write(p)
  BY <1>1, <1>2, QuietSteps
<1>3. ASSUME NEW p \in Web, NEW incoming \in Imports, BeginImport(p, incoming)
      PROVE  OptionsInv'
  <2>. PICK options : options = Updated(config, incoming)
    OBVIOUS
  <2>1. /\ UNCHANGED <<now, addon, overrides, config, up, unread>> /\ up
        /\ request' = [request EXCEPT ![p] = [at |-> "valid", options |-> options]]
    BY <1>3 DEF BeginImport, At
  <2>2. IsOptions(options) /\ DOMAIN options = OptionKeys
    <3>1. IsOptions(config) /\ DOMAIN config = OptionKeys /\ IsOptions(incoming)
      BY <1>0, OptionsAssumption DEF Full
    <3>2. DOMAIN options = DOMAIN config \cup DOMAIN incoming /\ IsOptions(options)
      BY <3>1, UpdatedOptions
    <3>. QED
      BY <3>1, <3>2 DEF IsOptions
  <2>3. /\ DOMAIN request' = Web
        /\ \A q \in Web \ {p} : request'[q] = request[q]
        /\ request'[p] = [at |-> "valid", options |-> options]
    BY <1>0, <2>1 DEF RequestsInv
  <2>4. ASSUME NEW q \in Web
        PROVE  DOMAIN request'[q] = {"at", "options"} /\ Requested(q)'
    <3>1. CASE q = p
      <4>1. /\ DOMAIN request'[q] = {"at", "options"}
            /\ request'[q].at = "valid" /\ request'[q].options = options
        BY <2>3, <3>1
      <4>. QED
        BY <2>1, <2>2, <4>1 DEF Requested, IsOptions, Values
    <3>2. CASE q # p
      <4>1. request'[q] = request[q]
        BY <2>3, <3>2
      <4>. QED
        BY <1>0, <2>1, <4>1 DEF RequestsInv, Requested, DaysRead, OverridesRead, IsOptions, Values
    <3>. QED
      BY <3>1, <3>2
  <2>5. RequestsInv'
    BY <2>3, <2>4 DEF RequestsInv
  <2>. QED
    BY <1>0, <2>1, <2>5, StoredStays, OptionsInvAfter
<1>4. ASSUME NEW p \in Web, SaveAddonOptions(p)
      PROVE  OptionsInv'
  <2>. PICK options : options = request[p].options
    OBVIOUS
  <2>1. /\ UNCHANGED <<now, overrides, config, up>> /\ request[p].at = "valid"
        /\ \/ /\ addon' = Only(options, AddonOptionKeys)
              /\ unread' = (unread \/ ~Valid(FromDict(options)))
              /\ Goto(p, "saved") \/ EndRequest(p)
           \/ UNCHANGED <<addon, unread>> /\ EndRequest(p)
    BY <1>4 DEF SaveAddonOptions
  <2>2. IsOptions(options) /\ DOMAIN options = OptionKeys
    BY <1>0, <2>1 DEF RequestsInv, Requested
  <2>3. CASE UNCHANGED <<addon, unread>> /\ EndRequest(p)
    BY <1>0, <2>1, <2>3, StoredStays, RequestEnds, OptionsInvAfter
  <2>4. CASE /\ addon' = Only(options, AddonOptionKeys)
             /\ unread' = (unread \/ ~Valid(FromDict(options)))
             /\ Goto(p, "saved") \/ EndRequest(p)
    <3>1. ~unread' => ~unread /\ DaysRead(options) /\ OverridesRead(options)
      BY <2>2, <2>4, ReadableIsValid
    <3>2. StoredInv'
      <4>1. /\ IsOptions(addon') /\ DOMAIN addon' \subseteq AddonOptionKeys
            /\ DaysRead(options) => DaysRead(addon')
        BY <2>2, <2>4, AddonPart
      <4>. QED
        BY <1>0, <2>1, <3>1, <4>1 DEF StoredInv, IsOptions, Values, DaysRead, OverridesRead
    <3>3. RequestsInv'
      <4>1. "saved" \in Points /\ request[p].at # "none"
        BY <2>1 DEF Points
      <4>. QED
        BY <1>0, <2>1, <2>4, <3>1, <4>1, RequestGoes, RequestEnds
    <3>. QED
      BY <1>0, <2>1, <3>2, <3>3, StoredStays, OptionsInvAfter
  <2>. QED
    BY <2>1, <2>3, <2>4
<1>5. ASSUME NEW p \in Web, StoreOverrides(p)
      PROVE  OptionsInv'
  <2>. PICK options : options = request[p].options
    OBVIOUS
  <2>1. /\ UNCHANGED <<now, addon, config, up, unread>> /\ request[p].at = "saved"
        /\ overrides' \in OverridesOf(options)
        /\ Goto(p, "stored")
    BY <1>5 DEF StoreOverrides, history
  <2>2. /\ IsOptions(options) /\ DOMAIN options = OptionKeys
        /\ ~unread => DaysRead(options) /\ OverridesRead(options)
    BY <1>0, <2>1 DEF RequestsInv, Requested
  <2>3. StoredInv'
    <3>1. /\ IsOptions(overrides') /\ DOMAIN overrides' \subseteq OverrideKeys
          /\ OverridesRead(overrides') <=> OverridesRead(options)
      BY <2>1, <2>2, OverridesSay
    <3>. QED
      BY <1>0, <2>1, <2>2, <3>1 DEF StoredInv, IsOptions, Values, DaysRead, OverridesRead
  <2>4. RequestsInv'
    <3>1. "stored" \in Points /\ request[p].at # "none"
      BY <2>1 DEF Points
    <3>. QED
      BY <1>0, <2>1, <2>2, <3>1, RequestGoes
  <2>. QED
    BY <1>0, <2>1, <2>3, <2>4, StoredStays, OptionsInvAfter
<1>6. ASSUME NEW p \in Web, Reload(p) \/ ReloadRefused(p)
      PROVE  OptionsInv'
  <2>. PICK options : options = request[p].options
    OBVIOUS
  <2>1. /\ UNCHANGED <<now, addon, overrides, up, unread>> /\ request[p].at = "stored"
        /\ UNCHANGED config \/ (config' = FromDict(options) /\ Valid(FromDict(options)))
        /\ EndRequest(p)
    BY <1>6, Zenon DEF Reload, ReloadRefused, history
  <2>2. IsOptions(options)
    BY <1>0, <2>1 DEF RequestsInv, Requested
  <2>3. Full(config')
    BY <1>0, <2>1, <2>2, FromDictIsOptions DEF Full
  <2>. QED
    BY <1>0, <2>1, <2>3, StoredStays, RequestEnds, OptionsInvAfter
<1>7. ASSUME NEW new \in Edits, EditOptions(new)
      PROVE  OptionsInv'
  <2>1. /\ UNCHANGED <<now, overrides, config, request, up>> /\ addon' = Updated(addon, new)
        /\ unread' = (unread \/ ~Valid(FromDict(new)))
    BY <1>7 DEF EditOptions
  <2>2. IsOptions(new) /\ DOMAIN new \subseteq AddonOptionKeys
    BY OptionsAssumption
  <2>3. ~unread' => ~unread /\ DaysRead(new)
    BY <2>1, <2>2, ReadableIsValid
  <2>4. StoredInv'
    <3>1. /\ DOMAIN Updated(addon, new) = DOMAIN addon \cup DOMAIN new
          /\ \A k \in DOMAIN new : Updated(addon, new)[k] = new[k]
          /\ \A k \in DOMAIN addon \ DOMAIN new : Updated(addon, new)[k] = addon[k]
          /\ IsOptions(addon) /\ IsOptions(new) => IsOptions(Updated(addon, new))
      BY UpdatedOptions
    <3>2. IsOptions(addon') /\ DOMAIN addon' \subseteq AddonOptionKeys
      BY <1>0, <2>1, <2>2, <3>1 DEF StoredInv
    <3>3. DaysRead(addon) /\ DaysRead(new) => DaysRead(addon')
      BY <2>1, <3>1 DEF DaysRead
    <3>. QED
      BY <1>0, <2>1, <2>3, <3>2, <3>3 DEF StoredInv, IsOptions, Values, DaysRead, OverridesRead
  <2>. QED
    BY <1>0, <2>1, <2>3, <2>4, StoredStays, RequestsStay, OptionsInvAfter
<1>8. CASE Stop
  <2>1. UNCHANGED <<now, addon, overrides, config, unread>> /\ request' = [p \in Web |-> NoRequest]
    BY <1>8 DEF Stop
  <2>2. RequestsInv'
    BY <2>1 DEF NoRequest, RequestsInv, Requested
  <2>. QED
    BY <1>0, <2>1, <2>2, StoredStays, OptionsInvAfter
<1>9. CASE Start
  <2>1. /\ ~up /\ UNCHANGED <<now, addon, overrides, request>>
        /\ config' = FromDict(Stored) /\ Valid(FromDict(Stored))
    BY <1>9 DEF Start
  <2>2. /\ IsOptions(Stored)
        /\ DaysRead(Stored) <=> DaysRead(addon)
        /\ OverridesRead(Stored) <=> OverridesRead(overrides)
    BY <1>0, StoredIsRead DEF StoredInv
  <2>3. Full(config')
    BY <2>1, <2>2, FromDictIsOptions DEF Full
  <2>4. DaysRead(addon) /\ OverridesRead(overrides)
    BY <2>1, <2>2, ReadableIsValid
  <2>5. StoredInv'
    BY <1>0, <2>1, <2>4 DEF StoredInv, IsOptions, Values, DaysRead, OverridesRead
  <2>6. RequestsInv'
    <3>1. \A p \in Web : request'[p].at = "none"
      BY <1>0, <2>1 DEF RequestsInv, Requested
    <3>. QED
      BY <1>0, <2>1, <3>1 DEF RequestsInv, Requested
  <2>. QED
    BY <1>0, <2>1, <2>3, <2>5, <2>6, StoredStays, OptionsInvAfter
<1>10. CASE PassTime
  <2>1. UNCHANGED <<addon, overrides, config, request, up, unread>> /\ now' \in Moment /\ now'.day \in 0..Horizon
    BY <1>10, TimePasses DEF PassTime, history
  <2>. QED
    BY <1>0, <2>1, StoredStays, RequestsStay, OptionsInvAfter
<1>. QED
  BY <1>2, <1>3, <1>4, <1>5, <1>6, <1>7, <1>8, <1>9, <1>10 DEF Next, Import, Threads

LEMMA InitHasOptions == Init => OptionsInv
<1>. SUFFICES ASSUME Init PROVE OptionsInv
  OBVIOUS
<1>1. /\ now = [day |-> 0, slot |-> 0] /\ addon = Only(DefaultOptions, AddonOptionKeys)
      /\ overrides = <<>> /\ config = FromDict(addon)
      /\ request = [p \in Web |-> NoRequest]
  BY DEF Init
<1>2. now \in Moment /\ now.day \in 0..Horizon
  BY <1>1, DayLengthAssumption, HorizonAssumption DEF Moment, Slots
<1>3. IsOptions(addon) /\ DOMAIN addon \subseteq AddonOptionKeys /\ DaysRead(addon)
  <2>1. DaysRead(DefaultOptions)
    BY Defaults DEF DaysRead, Weekdays
  <2>. QED
    BY <1>1, <2>1, DefaultsAreOptions, AddonPart
<1>4. ASSUME NEW given, IsOptions(given), DOMAIN given \subseteq AddonOptionKeys
      PROVE  OverridesRead(given)
  <2>1. {"frequency", "monthday", "once_at", "allowed_weekdays"} \subseteq OverrideKeys
    BY Defaults
  <2>2. \A k \in OverrideKeys : Updated(DefaultOptions, given)[k] = DefaultOptions[k]
    BY <1>4, Merged, DisjointKeys
  <2>3. Spelled(NoFrequency) = NoFrequency /\ NoFrequency # "once"
    BY DEF Spelled, NoFrequency
  <2>. QED
    BY <2>1, <2>2, <2>3, Defaults DEF OverridesRead
<1>5. StoredInv
  <2>1. DOMAIN overrides = {} /\ IsOptions(overrides)
    BY <1>1 DEF IsOptions
  <2>. QED
    BY <1>3, <1>4, <2>1 DEF StoredInv
<1>6. Full(config)
  BY <1>1, <1>3, <1>4, ReadableIsValid, FromDictIsOptions DEF Full
<1>7. RequestsInv
  BY <1>1 DEF NoRequest, RequestsInv, Requested
<1>. QED
  BY <1>2, <1>5, <1>6, <1>7 DEF OptionsInv

THEOREM OptionsInvariant == Spec => []OptionsInv
<1>1. OptionsInv /\ UNCHANGED vars => OptionsInv'
  <2>. SUFFICES ASSUME OptionsInv, UNCHANGED vars PROVE OptionsInv'
    OBVIOUS
  <2>1. StoredInv' /\ RequestsInv' /\ Full(config')
    BY StoredStays, RequestsStay DEF vars, history, OptionsInv
  <2>. QED
    BY <2>1, OptionsInvAfter DEF vars, OptionsInv
<1>. QED
  BY <1>1, InitHasOptions, OptionsStep, PTL DEF Spec

\* Whatever an import has stored when it is cut off or fails, together with what
\* the user sets, is accepted by load_config at the next start, unless from_dict
\* refuses one of them by itself: no mixture of options that it accepts is refused.
THEOREM StoredOptionsStayValid == Spec => []StoredOptionsAreValid
<1>1. OptionsInv => StoredOptionsAreValid
  BY StoredIsRead, ReadableIsValid DEF OptionsInv, StoredInv, StoredOptionsAreValid
<1>. QED
  BY <1>1, OptionsInvariant, PTL

-----------------------------------------------------------------------------
(* The schedule *)

\* The first occurrence to come, if there is one within the bound.
LEMMA FirstOccurrence ==
  ASSUME NEW o, Full(o), NEW from \in Moment, from.day \in 0..Horizon
  PROVE  LET next == Occurrence(o, from)
         IN /\ next \in Moment /\ Before(from, next)
            /\ Occurs(o, next) \/ next.day > Horizon
            /\ \A m \in Moments : Occurs(o, m) /\ Before(from, m) => ~Before(m, next)
<1>0. /\ o.install_days \in SUBSET Weekdays /\ o.install_days # {} /\ o.install_hour \in Slots
      /\ o.frequency \in Frequencies /\ o.monthday \in Nat \ {0} /\ o.once_at \in Moment
  BY FullOptions
<1>1. /\ Horizon \in Nat /\ Horizon < 36500 /\ Len(MonthStart) > 2 /\ MonthStart[1] = 0
      /\ Horizon < MonthStart[Len(MonthStart) - 1]
      /\ MonthStart[Len(MonthStart) - 1] < MonthStart[Len(MonthStart)]
      /\ MonthStart[Len(MonthStart) - 1] \in Nat /\ MonthStart[Len(MonthStart)] \in Nat
  <2>1. Len(MonthStart) \in Nat /\ Len(MonthStart) > 2
    BY HorizonAssumption, MonthsAssumption
  <2>2. PICK l \in 1..Len(MonthStart) : l = Len(MonthStart) - 1 /\ l < Len(MonthStart)
    <3>1. Len(MonthStart) - 1 \in 1..Len(MonthStart) /\ Len(MonthStart) - 1 < Len(MonthStart)
      BY <2>1
    <3>. QED
      BY <3>1
  <2>3. Len(MonthStart) \in 1..Len(MonthStart)
    BY <2>1
  <2>4. MonthStart[l] < MonthStart[Len(MonthStart)] /\ MonthStart[l] \in Nat /\ MonthStart[Len(MonthStart)] \in Nat
    BY <2>2, <2>3, MonthsInOrder
  <2>. QED
    BY <2>2, <2>4, HorizonAssumption
<1>2. \A m \in Moments : m \in Moment /\ m.day \in 0..Horizon
  BY <1>1 DEF Moments, Moment
<1>. PICK next : next = Occurrence(o, from)
  OBVIOUS
<1>3. CASE o.frequency = "once"
  <2>1. next = OneTimeNext(o.once_at, from) /\ \A m : Occurs(o, m) <=> m = o.once_at
    BY <1>3 DEF Occurrence, Occurs
  <2>2. CASE Before(from, o.once_at)
    <3>1. next = o.once_at
      BY <2>1, <2>2 DEF OneTimeNext
    <3>2. ~Before(next, next)
      BY <1>0, <3>1, BeforeIsOrder
    <3>. QED
      BY <1>0, <2>1, <2>2, <3>1, <3>2
  <2>3. CASE ~Before(from, o.once_at)
    <3>1. next = [from EXCEPT !.day = @ + 36500]
      BY <2>1, <2>3 DEF OneTimeNext
    <3>2. next \in Moment /\ next.day = from.day + 36500
      BY <3>1 DEF Moment
    <3>3. Before(from, next) /\ next.day > Horizon
      BY <1>1, <3>2 DEF Before
    <3>. QED
      BY <2>1, <2>3, <3>2, <3>3
  <2>. QED
    BY <2>2, <2>3
<1>4. CASE o.frequency = "monthly"
  <2>1. /\ next = MonthlyNext(o.monthday, o.install_hour, from)
        /\ \A m : Occurs(o, m) <=>
             m = [day |-> DayOfMonth(MonthOf(m.day), o.monthday), slot |-> o.install_hour]
    BY <1>4 DEF Occurrence, Occurs
  <2>2. /\ next \in Moment /\ Before(from, next)
        /\ next = [day |-> DayOfMonth(MonthOf(next.day), o.monthday), slot |-> o.install_hour]
        /\ \A m \in Moment :
             /\ m.day \in Nat /\ m.day < MonthStart[Len(MonthStart)]
             /\ m = [day |-> DayOfMonth(MonthOf(m.day), o.monthday), slot |-> o.install_hour]
             /\ Before(from, m)
             => ~Before(m, next)
    <3>1. from.day >= 0 /\ from.day < MonthStart[Len(MonthStart) - 1]
      BY <1>1
    <3>. QED
      BY <1>0, <1>1, <2>1, <3>1, MonthlyFindsFirst
  <2>3. \A m \in Moments : m.day \in Nat /\ m.day < MonthStart[Len(MonthStart)]
    BY <1>1, <1>2
  <2>. QED
    BY <1>2, <2>1, <2>2, <2>3
<1>5. CASE o.frequency = "daily"
  <2>1. /\ next = WeekdaySetNext(Weekdays, o.install_hour, from)
        /\ \A m : Occurs(o, m) <=> m.slot = o.install_hour
    BY <1>5 DEF Occurrence, Occurs
  <2>2. /\ next \in Moment /\ next.slot = o.install_hour /\ Before(from, next)
        /\ \A m \in Moment : m.slot = o.install_hour /\ Weekday(m.day) \in Weekdays /\ Before(from, m) =>
             ~Before(m, next)
    <3>. PICK hour \in Slots : hour = o.install_hour
      BY <1>0
    <3>1. Weekdays # {} /\ Weekdays \in SUBSET Weekdays
      BY DEF Weekdays
    <3>2. /\ WeekdaySetNext(Weekdays, hour, from) \in Moment
          /\ WeekdaySetNext(Weekdays, hour, from).slot = hour
          /\ Before(from, WeekdaySetNext(Weekdays, hour, from))
          /\ \A m \in Moment : m.slot = hour /\ Weekday(m.day) \in Weekdays /\ Before(from, m) =>
               ~Before(m, WeekdaySetNext(Weekdays, hour, from))
      BY <3>1, WeekdaySetFindsFirst
    <3>. QED
      BY <2>1, <3>2
  <2>3. \A m \in Moment : Weekday(m.day) \in Weekdays
    BY DEF Moment, Weekday, Weekdays
  <2>. QED
    BY <1>2, <2>1, <2>2, <2>3
<1>6. CASE o.frequency = "weekly"
  <2>1. /\ next = WeekdaySetNext(o.install_days, o.install_hour, from)
        /\ \A m : Occurs(o, m) <=> m.slot = o.install_hour /\ Weekday(m.day) \in o.install_days
    BY <1>6 DEF Occurrence, Occurs
  <2>2. /\ next \in Moment /\ next.slot = o.install_hour /\ Weekday(next.day) \in o.install_days
        /\ Before(from, next)
        /\ \A m \in Moment : m.slot = o.install_hour /\ Weekday(m.day) \in o.install_days /\ Before(from, m) =>
             ~Before(m, next)
    <3>. PICK days \in SUBSET Weekdays, hour \in Slots : days = o.install_days /\ hour = o.install_hour
      BY <1>0
    <3>1. /\ WeekdaySetNext(days, hour, from) \in Moment
          /\ WeekdaySetNext(days, hour, from).slot = hour
          /\ Weekday(WeekdaySetNext(days, hour, from).day) \in days
          /\ Before(from, WeekdaySetNext(days, hour, from))
          /\ \A m \in Moment : m.slot = hour /\ Weekday(m.day) \in days /\ Before(from, m) =>
               ~Before(m, WeekdaySetNext(days, hour, from))
      BY <1>0, WeekdaySetFindsFirst
    <3>. QED
      BY <2>1, <3>1
  <2>. QED
    BY <1>2, <2>1, <2>2
<1>. QED
  BY <1>0, <1>3, <1>4, <1>5, <1>6 DEF Frequencies

\* The next install comes with the first occurrence after a time or before it ...
Covers(o, next, time) ==
  \A m \in Moments : Occurs(o, m) /\ Before(time, m) => ~Before(Shift(m, Jitter), next)
\* ... and not before there is one, unless the bound is passed.
Reaches(o, next, time) ==
  \E m \in Moment : /\ m.day >= 0 /\ Before(time, m) /\ ~Before(next, m)
                    /\ Occurs(o, m) \/ m.day > Horizon

LEMMA NextInstallFits ==
  ASSUME NEW o, Full(o), NEW from \in Moment, from.day \in 0..Horizon, NEW next \in NextInstalls(o, from)
  PROVE  next \in Moment /\ Covers(o, next, from) /\ Reaches(o, next, from)
<1>0. /\ DayLength \in Nat /\ Jitter \in Nat /\ Jitter <= DayLength /\ Horizon \in Nat
  BY DayLengthAssumption, JitterAssumption, HorizonAssumption
<1>1. PICK j \in 0..Jitter : next = Shift(Occurrence(o, from), j)
  BY <1>0 DEF NextInstalls
<1>. PICK first : first = Occurrence(o, from)
  OBVIOUS
<1>2. /\ first \in Moment /\ Before(from, first)
      /\ Occurs(o, first) \/ first.day > Horizon
      /\ \A m \in Moments : Occurs(o, m) /\ Before(from, m) => ~Before(m, first)
  BY FirstOccurrence
<1>3. next = Shift(first, j) /\ j \in Nat /\ j <= Jitter /\ j <= DayLength
  BY <1>0, <1>1
<1>4. next \in Moment
  <2>1. j \in Int /\ -DayLength < j
    BY <1>0, <1>3, DayLengthAssumption
  <2>. QED
    BY <1>2, <1>3, <2>1, ShiftIsMoment
<1>5. Covers(o, next, from)
  <2>1. SUFFICES ASSUME NEW m \in Moments, Occurs(o, m), Before(from, m)
                 PROVE  ~Before(Shift(m, Jitter), next)
    BY DEF Covers
  <2>2. ~Before(m, first) /\ m \in Moment
    BY <1>0, <1>2, <2>1 DEF Moments, Moment
  <2>. QED
    BY <1>0, <1>2, <1>3, <2>2, ShiftKeepsOrder
<1>6. Reaches(o, next, from)
  <2>1. ~Before(first, first) /\ Shift(first, 0) = first
    BY <1>2, BeforeIsOrder, ShiftedByNone
  <2>2. ~Before(Shift(first, j), Shift(first, 0))
    BY <1>2, <1>3, <2>1, ShiftKeepsOrder
  <2>3. first.day >= 0
    BY <1>0, <1>2 DEF Before, Moment
  <2>. QED
    BY <1>2, <1>3, <2>1, <2>2, <2>3 DEF Reaches
<1>. QED
  BY <1>4, <1>5, <1>6

\* The signature tells what the schedule depends on.
LEMMA SignatureTellsAll ==
  ASSUME NEW o, Full(o)
  PROVE  /\ Signature(o) # NoSignature
         /\ \A m : Occurs(Signature(o), m) <=> Occurs(o, m)
         /\ \A next, time : Covers(Signature(o), next, time) <=> Covers(o, next, time)
         /\ \A next, time : Reaches(Signature(o), next, time) <=> Reaches(o, next, time)
<1>1. /\ DOMAIN Signature(o) = DOMAIN o \cap (OptionKeys \ {"auto_install"})
      /\ \A k \in DOMAIN o \cap (OptionKeys \ {"auto_install"}) : Signature(o)[k] = o[k]
  BY OnlySome DEF Signature
<1>2. {"install_days", "install_hour", "frequency", "monthday", "once_at"}
        \subseteq DOMAIN o \cap (OptionKeys \ {"auto_install"})
  BY Defaults DEF Full
<1>. PICK s : s = Signature(o)
  OBVIOUS
<1>3. /\ s.install_days = o.install_days /\ s.install_hour = o.install_hour
      /\ s.frequency = o.frequency /\ s.monthday = o.monthday /\ s.once_at = o.once_at
  BY <1>1, <1>2
<1>4. o.frequency \in Frequencies
  BY FullOptions
<1>5. \A m : Occurs(s, m) <=> Occurs(o, m)
  BY <1>3, <1>4 DEF Occurs, Frequencies
<1>6. s # NoSignature
  <2>1. "frequency" \in DOMAIN s
    BY <1>1, <1>2
  <2>2. "frequency" \notin DOMAIN NoSignature
    BY DEF NoSignature
  <2>. QED
    BY <2>1, <2>2
<1>. QED
  BY <1>5, <1>6 DEF Covers, Reaches

LEMMA NoMomentIsMoment ==
  /\ NoMoment \in Moment
  /\ \A m \in Moment : m.day >= 0 => Before(NoMoment, m)
BY DayLengthAssumption DEF NoMoment, Moment, Slots, Before

\* What is reached after a time is reached after an earlier one ...
LEMMA ReachedBefore ==
  ASSUME NEW o, NEW next, NEW from \in Moment, NEW time \in Moment,
         ~Before(from, time), Reaches(o, next, from)
  PROVE  Reaches(o, next, time)
<1>1. PICK m \in Moment : /\ m.day >= 0 /\ Before(from, m) /\ ~Before(next, m)
                          /\ Occurs(o, m) \/ m.day > Horizon
  BY DEF Reaches
<1>2. Before(time, m)
  BY <1>1, BeforeIsOrder
<1>. QED
  BY <1>1, <1>2 DEF Reaches

\* ... and what is covered is covered later.
LEMMA CoveredAfter ==
  ASSUME NEW o, NEW next, NEW from \in Moment, NEW time \in Moment,
         ~Before(time, from), Covers(o, next, from)
  PROVE  Covers(o, next, time)
<1>1. \A m \in Moments : m \in Moment
  BY HorizonAssumption DEF Moments, Moment
<1>2. \A m \in Moments : Before(time, m) => Before(from, m)
  BY <1>1, BeforeIsOrder
<1>. QED
  BY <1>2 DEF Covers

\* A next install fits options: an occurrence that is still to come is not passed
\* over, and there is one since the given time.
Fits(o, next, from, time) == Covers(o, next, from) /\ Reaches(o, next, time)

LEMMA FitsLater ==
  ASSUME NEW o, NEW next, NEW time, NEW from \in Moment, NEW later \in Moment,
         ~Before(later, from), Fits(o, next, from, time)
  PROVE  Fits(o, next, later, time)
BY CoveredAfter DEF Fits

LEMMA FitsAtAll ==
  ASSUME NEW o, NEW next, NEW time, NEW from, Fits(o, next, from, time)
  PROVE  Fits(o, next, from, NoMoment)
BY NoMomentIsMoment DEF Fits, Reaches

LEMMA FreshFits ==
  ASSUME OptionsInv, NEW next \in NextInstalls(config, now), NEW time \in Moment, ~Before(now, time)
  PROVE  next \in Moment /\ Fits(config, next, now, time)
<1>1. now \in Moment /\ now.day \in 0..Horizon /\ Full(config)
  BY DEF OptionsInv
<1>2. next \in Moment /\ Covers(config, next, now) /\ Reaches(config, next, now)
  BY <1>1, NextInstallFits
<1>. QED
  BY <1>1, <1>2, ReachedBefore DEF Fits

LEMMA SignatureFits ==
  ASSUME NEW o, Full(o)
  PROVE  /\ Signature(o) # NoSignature
         /\ \A next, from, time : Fits(Signature(o), next, from, time) <=> Fits(o, next, from, time)
BY SignatureTellsAll DEF Fits

\* The attempt that the next one is to be told from.
Last == CutOff(attempt)

\* What a thread puts back when its update ends.
Intended(p) ==
  CASE writer[p].at \in {"idle", "skipping", "installing"} -> schedule
    [] writer[p].at = "sign" -> [schedule EXCEPT !.signature = writer[p].signature]
    [] OTHER -> [schedule EXCEPT !.next = writer[p].next]

\* What a thread holds is still so when it is written.
Holding(p) ==
  LET w == writer[p]
  IN /\ w.copy \subseteq {Intended(p)}
     /\ w.at \in {"check", "failed"} => w.next = schedule.next
     /\ w.at \in {"runs", "sign"} => w.signature = Signature(config)
     /\ w.at = "runs" => Fits(config, w.next, now, Last)
     /\ w.at = "sign" => Fits(config, schedule.next, now, Last)
     /\ w.at = "advance" => Fits(config, w.next, now, attempt)
IsWriter(p) ==
  /\ DOMAIN writer[p] = {"at", "next", "signature", "copy"} /\ writer[p].next \in Moment
  /\ ~up => writer[p].at = "idle" /\ writer[p].copy = {}
  /\ p \in Web => writer[p].at \in {"idle"} \cup Refreshing

Consistent ==
  /\ schedule = [next |-> schedule.next, signature |-> schedule.signature] /\ schedule.next \in Moment
  /\ attempt \in Moment /\ ~Before(now, attempt)
  /\ DOMAIN writer = Threads
  /\ \A p \in Threads : IsWriter(p) /\ Holding(p)
  /\ schedule.signature # NoSignature /\ (\A p \in Threads : writer[p].at # "sign") =>
       Fits(schedule.signature, schedule.next, now, Last)
  /\ Refreshed => schedule.signature = Signature(config)

\* Nothing has come between the reads and the writes of a thread.
ScheduleInv == ~interfered => Consistent

LEMMA LastIsPast ==
  ASSUME OptionsInv, Consistent
  PROVE  /\ Last \in Moment /\ ~Before(now, Last)
         /\ now \in Moment /\ attempt \in Moment /\ ~Before(now, attempt)
<1>1. now \in Moment /\ now.day \in 0..Horizon /\ attempt \in Moment /\ ~Before(now, attempt)
  BY DEF OptionsInv, Consistent
<1>2. ~Before(now, NoMoment)
  BY <1>1, HorizonAssumption DEF Before, NoMoment
<1>. QED
  BY <1>1, <1>2, NoMomentIsMoment DEF Last, CutOff

\* Without a thread that is about to sign, the next install fits the options that
\* are signed, with one it fits those in force.
LEMMA NextFits ==
  ASSUME OptionsInv, Consistent, schedule.signature = Signature(config)
  PROVE  Fits(config, schedule.next, now, Last)
<1>1. Full(config)
  BY DEF OptionsInv
<1>2. CASE \A p \in Threads : writer[p].at # "sign"
  BY <1>1, <1>2, SignatureFits DEF Consistent
<1>3. CASE ~\A p \in Threads : writer[p].at # "sign"
  BY <1>3 DEF Consistent, Holding
<1>. QED
  BY <1>2, <1>3

\* A thread keeps what it holds through the steps of others, ...
LEMMA OthersHold ==
  ASSUME Consistent, NEW q \in Threads, writer'[q] = writer[q],
         UNCHANGED <<now, config>>, ~Busy(q) \/ UNCHANGED schedule,
         Last' \in {Last, NoMoment}, attempt' = attempt \/ q # Main
  PROVE  Holding(q)'
<1>1. Holding(q) /\ IsWriter(q)
  BY DEF Consistent
<1>2. CASE ~Busy(q)
  BY <1>2 DEF Busy, Holding
<1>3. CASE UNCHANGED schedule
  <2>1. Intended(q)' = Intended(q)
    BY <1>3 DEF Intended
  <2>2. q # Main => writer[q].at # "advance"
    BY <1>1 DEF Threads, IsWriter, Refreshing
  <2>3. \A o, next : Fits(o, next, now, Last) => Fits(o, next, now, Last')
    BY FitsAtAll
  <2>. QED
    BY <1>1, <1>3, <2>1, <2>2, <2>3 DEF Holding, Signature, Only
<1>. QED
  BY <1>2, <1>3

\* ... and all stays consistent when a thread has done what leaves the schedule alone.
LEMMA QuietStep ==
  ASSUME OptionsInv, Consistent, NEW p \in Threads,
         UNCHANGED <<now, config, schedule, up>>,
         DOMAIN writer' = Threads, \A q \in Threads \ {p} : writer'[q] = writer[q],
         IsWriter(p)', Holding(p)',
         attempt' \in Moment, ~Before(now, attempt'), Last' \in {Last, NoMoment},
         attempt' = attempt \/ p = Main,
         writer'[p].at = "sign" <=> writer[p].at = "sign",
         writer'[p].at \in Refreshing <=> writer[p].at \in Refreshing
  PROVE  Consistent'
<1>1. ASSUME NEW q \in Threads
      PROVE  IsWriter(q)' /\ Holding(q)'
  <2>1. CASE q = p
    BY <2>1
  <2>2. CASE q # p
    <3>1. writer'[q] = writer[q] /\ IsWriter(q)
      BY <2>2 DEF Consistent
    <3>2. attempt' = attempt \/ q # Main
      BY <2>2
    <3>3. Holding(q)'
      BY <3>1, <3>2, OthersHold
    <3>. QED
      BY <3>1, <3>3 DEF IsWriter
  <2>. QED
    BY <2>1, <2>2
<1>2. (\A q \in Threads : writer'[q].at # "sign") => \A q \in Threads : writer[q].at # "sign"
  OBVIOUS
<1>3. schedule'.signature # NoSignature /\ (\A q \in Threads : writer'[q].at # "sign") =>
        Fits(schedule'.signature, schedule'.next, now', Last')
  BY <1>2, FitsAtAll DEF Consistent
<1>4. Refreshed' => schedule'.signature = Signature(config')
  BY DEF Refreshed, Consistent
<1>. QED
  BY <1>1, <1>3, <1>4 DEF Consistent, Signature, Only

\* A thread goes to another point, ...
LEMMA ThreadGoes ==
  ASSUME Consistent, NEW p \in Threads, NEW point, writer' = [writer EXCEPT ![p].at = point]
  PROVE  /\ DOMAIN writer' = Threads /\ \A q \in Threads \ {p} : writer'[q] = writer[q]
         /\ DOMAIN writer'[p] = {"at", "next", "signature", "copy"}
         /\ writer'[p].at = point /\ writer'[p].next = writer[p].next
         /\ writer'[p].signature = writer[p].signature /\ writer'[p].copy = writer[p].copy
BY DEF Consistent, IsWriter

\* ... holds a next install, or changes its copy of the schedule.
LEMMA ThreadHolds ==
  ASSUME Consistent, NEW p \in Threads, NEW new, writer' = [writer EXCEPT ![p] = new]
  PROVE  DOMAIN writer' = Threads /\ writer'[p] = new /\ \A q \in Threads \ {p} : writer'[q] = writer[q]
BY DEF Consistent

LEMMA LastStays ==
  ASSUME UNCHANGED attempt,
         writer'[Main].at \in {"installing", "advance"} <=> writer[Main].at \in {"installing", "advance"}
  PROVE  Last' = Last
BY DEF Last, CutOff

LEMMA UpdateBegins ==
  ASSUME OptionsInv, Consistent, NEW p \in Threads, BeginUpdate(p)
  PROVE  Consistent'
<1>1. /\ up /\ writer[p].at # "refresh"
      /\ writer' = [writer EXCEPT ![p].copy = {Intended(p)}]
      /\ UNCHANGED <<now, config, schedule, up, attempt>>
  BY DEF BeginUpdate, Intended
<1>2. /\ DOMAIN writer' = Threads /\ \A q \in Threads \ {p} : writer'[q] = writer[q]
      /\ DOMAIN writer'[p] = {"at", "next", "signature", "copy"}
      /\ writer'[p].at = writer[p].at /\ writer'[p].next = writer[p].next
      /\ writer'[p].signature = writer[p].signature /\ writer'[p].copy = {Intended(p)}
  BY <1>1 DEF Consistent, IsWriter
<1>3. Last' = Last
  BY <1>1, <1>2, LastStays DEF Threads
<1>4. IsWriter(p) /\ Holding(p)
  BY DEF Consistent
<1>5. Intended(p)' = Intended(p)
  BY <1>1, <1>2 DEF Intended
<1>6. IsWriter(p)' /\ Holding(p)'
  BY <1>1, <1>2, <1>3, <1>4, <1>5 DEF IsWriter, Holding, Signature, Only
<1>. QED
  BY <1>1, <1>2, <1>3, <1>6, LastIsPast, QuietStep

LEMMA RefreshReads ==
  ASSUME OptionsInv, Consistent, NEW p \in Threads, Refresh(p)
  PROVE  Consistent'
<1>1. /\ up /\ writer[p].at = "refresh"
      /\ UNCHANGED <<now, config, schedule, up, attempt>>
  BY DEF Refresh, At
<1>2. PICK next :
        /\ writer' = [writer EXCEPT ![p] =
             [at |-> "runs", next |-> next, signature |-> Signature(config), copy |-> {}]]
        /\ \/ next \in NextInstalls(config, now)
           \/ next = schedule.next /\ schedule.signature = Signature(config)
  BY DEF Refresh, Reads, Computes, Holds
<1>3. /\ DOMAIN writer' = Threads /\ \A q \in Threads \ {p} : writer'[q] = writer[q]
      /\ writer'[p] = [at |-> "runs", next |-> next, signature |-> Signature(config), copy |-> {}]
  BY <1>2, ThreadHolds
<1>4. Last' = Last
  BY <1>1, <1>3, LastStays DEF Threads
<1>5. next \in Moment /\ Fits(config, next, now, Last)
  BY <1>2, LastIsPast, FreshFits, NextFits DEF Consistent
<1>6. IsWriter(p)' /\ Holding(p)'
  BY <1>1, <1>3, <1>4, <1>5 DEF IsWriter, Holding, Refreshing, Signature, Only
<1>. QED
  BY <1>1, <1>3, <1>4, <1>6, LastIsPast, QuietStep DEF Refreshing

LEMMA CheckReads ==
  ASSUME OptionsInv, Consistent, BeginCheck \/ CheckFails
  PROVE  Consistent'
<1>0. Main \in Threads /\ Main \notin Web
  BY ThreadsAssumption DEF Threads
<1>1. /\ up /\ writer[Main].at \in {"idle", "check"}
      /\ UNCHANGED <<now, config, schedule, up, attempt>>
  BY DEF BeginCheck, CheckFails, At
<1>2. PICK point \in {"check", "failed"} :
        writer' = [writer EXCEPT ![Main] =
          [at |-> point, next |-> schedule.next, signature |-> Signature(config), copy |-> {}]]
  BY DEF BeginCheck, CheckFails, Reads, Holds
<1>3. /\ DOMAIN writer' = Threads /\ \A q \in Threads \ {Main} : writer'[q] = writer[q]
      /\ writer'[Main] = [at |-> point, next |-> schedule.next, signature |-> Signature(config), copy |-> {}]
  BY <1>0, <1>2, ThreadHolds
<1>4. Last' = Last
  BY <1>1, <1>3, LastStays
<1>5. IsWriter(Main)' /\ Holding(Main)'
  BY <1>0, <1>1, <1>3 DEF Consistent, IsWriter, Holding
<1>. QED
  BY <1>0, <1>1, <1>3, <1>4, <1>5, LastIsPast, QuietStep DEF Refreshing

LEMMA InstallSteps ==
  ASSUME OptionsInv, Consistent, SkipInstall \/ BeginInstall
  PROVE  Consistent'
<1>0. Main \in Threads /\ Main \notin Web
  BY ThreadsAssumption DEF Threads
<1>1. /\ up /\ writer[Main].at = "idle" /\ writer[Main].copy = {}
      /\ UNCHANGED <<now, config, schedule, up>>
  BY DEF SkipInstall, BeginInstall, Due, At
<1>2. PICK point \in {"skipping", "installing"} :
        /\ writer' = [writer EXCEPT ![Main].at = point]
        /\ point = "skipping" => attempt' = attempt
        /\ attempt' \in {attempt, now}
  BY DEF SkipInstall, BeginInstall
<1>3. /\ DOMAIN writer' = Threads /\ \A q \in Threads \ {Main} : writer'[q] = writer[q]
      /\ DOMAIN writer'[Main] = {"at", "next", "signature", "copy"}
      /\ writer'[Main].at = point /\ writer'[Main].next = writer[Main].next /\ writer'[Main].copy = {}
  BY <1>0, <1>1, <1>2, ThreadGoes
<1>4. Last' \in {Last, NoMoment}
  BY <1>1, <1>2, <1>3 DEF Last, CutOff
<1>5. attempt' \in Moment /\ ~Before(now, attempt')
  BY <1>2, LastIsPast, BeforeIsOrder
<1>6. IsWriter(Main)' /\ Holding(Main)'
  BY <1>0, <1>1, <1>3 DEF Consistent, IsWriter, Holding
<1>. QED
  BY <1>0, <1>1, <1>3, <1>4, <1>5, <1>6, QuietStep DEF Refreshing

LEMMA InstallComputes ==
  ASSUME OptionsInv, Consistent, EndInstall
  PROVE  Consistent'
<1>0. Main \in Threads /\ Main \notin Web
  BY ThreadsAssumption DEF Threads
<1>1. /\ up /\ writer[Main].at \in {"skipping", "installing"}
      /\ UNCHANGED <<now, config, schedule, up, attempt>>
  BY DEF EndInstall, At
<1>2. PICK next \in NextInstalls(config, now) :
        writer' = [writer EXCEPT ![Main] =
          [at |-> "advance", next |-> next, signature |-> Signature(config), copy |-> {}]]
  BY DEF EndInstall, Computes, Holds
<1>3. /\ DOMAIN writer' = Threads /\ \A q \in Threads \ {Main} : writer'[q] = writer[q]
      /\ writer'[Main] = [at |-> "advance", next |-> next, signature |-> Signature(config), copy |-> {}]
  BY <1>0, <1>2, ThreadHolds
<1>4. Last' \in {Last, NoMoment}
  BY <1>1, <1>3 DEF Last, CutOff
<1>5. next \in Moment /\ Fits(config, next, now, attempt)
  BY <1>2, LastIsPast, FreshFits
<1>6. IsWriter(Main)' /\ Holding(Main)'
  BY <1>0, <1>1, <1>3, <1>5 DEF IsWriter, Holding
<1>. QED
  BY <1>0, <1>1, <1>3, <1>4, <1>6, LastIsPast, QuietStep DEF Refreshing

LEMMA InstallIsDropped ==
  ASSUME OptionsInv, Consistent, InstallRaises
  PROVE  Consistent'
<1>0. Main \in Threads /\ Main \notin Web
  BY ThreadsAssumption DEF Threads
<1>1. /\ up /\ writer[Main].at \in {"skipping", "installing"}
      /\ UNCHANGED <<now, config, schedule, up>>
      /\ writer' = [writer EXCEPT ![Main] = Idle] /\ attempt' = Last
  BY DEF InstallRaises, At, Last
<1>2. /\ DOMAIN writer' = Threads /\ \A q \in Threads \ {Main} : writer'[q] = writer[q]
      /\ writer'[Main] = Idle
  BY <1>0, <1>1, ThreadHolds
<1>3. Last' = attempt'
  BY <1>2 DEF Last, CutOff, Idle
<1>4. IsWriter(Main)' /\ Holding(Main)'
  BY <1>0, <1>1, <1>2, NoMomentIsMoment DEF IsWriter, Holding, Idle
<1>. QED
  BY <1>0, <1>1, <1>2, <1>3, <1>4, LastIsPast, QuietStep DEF Refreshing, Idle

\* An update puts back what it was meant to, and nothing else that is held changes.
LEMMA UpdateEnds ==
  ASSUME OptionsInv, Consistent, NEW p \in Threads, NEW points, EndUpdate(p, points), ~interfered'
  PROVE  /\ up /\ writer[p].at \in points /\ UNCHANGED <<now, config, up, attempt>>
         /\ schedule' = Intended(p)
         /\ UNCHANGED schedule \/ \A q \in Threads \ {p} : ~Busy(q)
         /\ writer[p].at = "advance" => \A q \in Threads \ {p} : ~Busy(q)
<1>1. schedule' = Intended(p)
  BY DEF EndUpdate, Consistent, Holding
<1>. QED
  BY <1>1 DEF EndUpdate

LEMMA OtherKeysChange ==
  ASSUME OptionsInv, Consistent, NEW p \in Threads, UpdateOtherKeys(p), ~interfered'
  PROVE  Consistent'
<1>1. /\ up /\ writer[p].at \in {"idle", "skipping", "installing"}
      /\ UNCHANGED <<now, config, up, attempt>> /\ schedule' = Intended(p)
  BY UpdateEnds DEF UpdateOtherKeys
<1>2. UNCHANGED schedule /\ writer' = [writer EXCEPT ![p].copy = {}]
  BY <1>1 DEF Intended, UpdateOtherKeys
<1>3. /\ DOMAIN writer' = Threads /\ \A q \in Threads \ {p} : writer'[q] = writer[q]
      /\ DOMAIN writer'[p] = {"at", "next", "signature", "copy"}
      /\ writer'[p].at = writer[p].at /\ writer'[p].next = writer[p].next /\ writer'[p].copy = {}
  BY <1>2 DEF Consistent, IsWriter
<1>4. Last' = Last
  BY <1>1, <1>3, LastStays DEF Threads
<1>5. IsWriter(p)' /\ Holding(p)'
  BY <1>1, <1>3 DEF Consistent, IsWriter, Holding
<1>. QED
  BY <1>1, <1>2, <1>3, <1>4, <1>5, LastIsPast, QuietStep DEF Refreshing

\* The next install is written ...
LEMMA NextRunsAreSet ==
  ASSUME OptionsInv, Consistent, NEW p \in Threads, SetNextRuns(p), ~interfered'
  PROVE  Consistent'
<1>1. /\ up /\ writer[p].at = "runs"
      /\ UNCHANGED <<now, config, up, attempt>> /\ schedule' = Intended(p)
      /\ UNCHANGED schedule \/ \A q \in Threads \ {p} : ~Busy(q)
  BY UpdateEnds DEF SetNextRuns
<1>2. schedule' = [next |-> writer[p].next, signature |-> schedule.signature]
  BY <1>1 DEF Intended, Consistent
<1>3. /\ DOMAIN writer' = Threads /\ \A q \in Threads \ {p} : writer'[q] = writer[q]
      /\ DOMAIN writer'[p] = {"at", "next", "signature", "copy"}
      /\ writer'[p].at = "sign" /\ writer'[p].next = writer[p].next /\ writer'[p].copy = {}
      /\ writer'[p].signature = writer[p].signature
  BY DEF SetNextRuns, Consistent, IsWriter
<1>4. Last' = Last
  BY <1>1, <1>3, LastStays DEF Threads
<1>5. IsWriter(p) /\ Holding(p)
  BY DEF Consistent
<1>6. IsWriter(p)' /\ Holding(p)'
  BY <1>1, <1>2, <1>3, <1>4, <1>5 DEF IsWriter, Holding, Refreshing, Signature, Only
<1>7. ASSUME NEW q \in Threads \ {p}
      PROVE  IsWriter(q)' /\ Holding(q)'
  <2>1. Holding(q)'
    BY <1>1, <1>3, <1>4, OthersHold
  <2>. QED
    BY <1>1, <1>3, <2>1 DEF Consistent, IsWriter
<1>. QED
  BY <1>1, <1>2, <1>3, <1>5, <1>6, <1>7, LastIsPast DEF Consistent, IsWriter, Refreshed, Refreshing

\* ... and then the signature.
LEMMA SignatureIsSet ==
  ASSUME OptionsInv, Consistent, NEW p \in Threads, SetScheduleSignature(p), ~interfered'
  PROVE  Consistent'
<1>1. /\ up /\ writer[p].at = "sign"
      /\ UNCHANGED <<now, config, up, attempt>> /\ schedule' = Intended(p)
      /\ UNCHANGED schedule \/ \A q \in Threads \ {p} : ~Busy(q)
  BY UpdateEnds DEF SetScheduleSignature
<1>2. schedule' = [next |-> schedule.next, signature |-> writer[p].signature]
  BY <1>1 DEF Intended, Consistent
<1>3. /\ DOMAIN writer' = Threads /\ \A q \in Threads \ {p} : writer'[q] = writer[q]
      /\ writer'[p] = Idle
  BY DEF SetScheduleSignature, Consistent
<1>4. Last' = Last
  BY <1>1, <1>3, LastStays DEF Threads, Idle
<1>5. /\ writer[p].signature = Signature(config) /\ Fits(config, schedule.next, now, Last)
      /\ Full(config)
  BY <1>1 DEF Consistent, Holding, OptionsInv
<1>6. IsWriter(p)' /\ Holding(p)'
  BY <1>1, <1>3, NoMomentIsMoment DEF IsWriter, Holding, Idle
<1>7. ASSUME NEW q \in Threads \ {p}
      PROVE  IsWriter(q)' /\ Holding(q)'
  <2>1. Holding(q)'
    BY <1>1, <1>3, <1>4, OthersHold
  <2>. QED
    BY <1>1, <1>3, <2>1 DEF Consistent, IsWriter
<1>8. Fits(schedule'.signature, schedule'.next, now', Last') /\ schedule'.signature = Signature(config')
  BY <1>1, <1>2, <1>4, <1>5, SignatureFits
<1>. QED
  BY <1>1, <1>2, <1>3, <1>6, <1>7, <1>8, LastIsPast DEF Consistent, Signature, Only

LEMMA NextInstallIsWritten ==
  ASSUME OptionsInv, Consistent, WriteNextInstall, ~interfered'
  PROVE  Consistent'
<1>0. Main \in Threads /\ Main \notin Web
  BY ThreadsAssumption DEF Threads
<1>1. /\ up /\ writer[Main].at \in {"check", "failed", "advance"}
      /\ UNCHANGED <<now, config, up, attempt>> /\ schedule' = Intended(Main)
      /\ writer[Main].at = "advance" => \A q \in Threads \ {Main} : ~Busy(q)
  BY <1>0, UpdateEnds DEF WriteNextInstall
<1>2. schedule' = [next |-> writer[Main].next, signature |-> schedule.signature]
  BY <1>1 DEF Intended, Consistent
<1>3. /\ DOMAIN writer' = Threads /\ \A q \in Threads \ {Main} : writer'[q] = writer[q]
      /\ writer'[Main] = Idle
  BY <1>0 DEF WriteNextInstall, Consistent
<1>4. IsWriter(Main) /\ Holding(Main)
  BY <1>0 DEF Consistent
<1>5. IsWriter(Main)' /\ Holding(Main)'
  BY <1>0, <1>1, <1>3, NoMomentIsMoment DEF IsWriter, Holding, Idle
<1>6. CASE writer[Main].at \in {"check", "failed"}
  <2>1. UNCHANGED schedule
    BY <1>2, <1>4, <1>6 DEF Holding, Consistent
  <2>2. Last' = Last
    BY <1>1, <1>3, <1>6, LastStays DEF Idle
  <2>. QED
    BY <1>0, <1>1, <1>3, <1>5, <1>6, <2>1, <2>2, LastIsPast, QuietStep DEF Refreshing, Idle
<1>7. CASE writer[Main].at = "advance"
  <2>1. ASSUME NEW q \in Threads \ {Main}
        PROVE  IsWriter(q)' /\ Holding(q)' /\ writer[q].at \notin Refreshing
    <3>1. ~Busy(q) /\ writer'[q] = writer[q]
      BY <1>1, <1>3, <1>7
    <3>2. Holding(q)'
      BY <3>1 DEF Busy, Holding
    <3>. QED
      BY <1>1, <3>1, <3>2 DEF Busy, Refreshing, Consistent, IsWriter
  <2>2. schedule.signature = Signature(config)
    BY <1>1, <1>7, <2>1 DEF Consistent, Refreshed, Refreshing
  <2>3. Last' = attempt
    BY <1>1, <1>3 DEF Last, CutOff, Idle
  <2>4. Fits(config, writer[Main].next, now, attempt) /\ Full(config)
    BY <1>4, <1>7 DEF Holding, OptionsInv
  <2>5. Fits(schedule'.signature, schedule'.next, now', Last') /\ schedule'.signature = Signature(config')
    BY <1>1, <1>2, <2>2, <2>3, <2>4, SignatureFits
  <2>. QED
    BY <1>1, <1>2, <1>3, <1>4, <1>5, <2>1, <2>5, LastIsPast DEF Consistent, IsWriter, Signature, Only
<1>. QED
  BY <1>1, <1>6, <1>7

LEMMA OptionsAreReloaded ==
  ASSUME OptionsInv, Consistent, NEW p \in Web, Reload(p), ~interfered'
  PROVE  Consistent'
<1>0. p \in Threads
  BY DEF Threads
<1>1. /\ UNCHANGED <<now, schedule, up, attempt>> /\ up
      /\ writer' = [writer EXCEPT ![p].at = "refresh"]
      /\ writer[p].at = "idle" /\ \A q \in Threads : ~Busy(q)
  BY DEF Reload, At
<1>2. /\ DOMAIN writer' = Threads /\ \A q \in Threads \ {p} : writer'[q] = writer[q]
      /\ DOMAIN writer'[p] = {"at", "next", "signature", "copy"}
      /\ writer'[p].at = "refresh" /\ writer'[p].next = writer[p].next /\ writer'[p].copy = writer[p].copy
  BY <1>0, <1>1, ThreadGoes
<1>3. ASSUME NEW q \in Threads
      PROVE  IsWriter(q)' /\ Holding(q)' /\ writer[q].at # "sign"
  <2>1. ~Busy(q) /\ IsWriter(q)
    BY <1>1 DEF Consistent
  <2>2. CASE q = p
    BY <1>1, <1>2, <2>1, <2>2 DEF Busy, IsWriter, Holding, Refreshing
  <2>3. CASE q # p
    BY <1>1, <1>2, <2>1, <2>3 DEF Busy, IsWriter, Holding
  <2>. QED
    BY <2>1, <2>2, <2>3 DEF Busy
<1>4. Last' = Last
  BY <1>1, <1>2, LastStays
<1>5. ~Refreshed'
  BY <1>0, <1>2 DEF Refreshed, Refreshing
<1>. QED
  BY <1>1, <1>2, <1>3, <1>4, <1>5, LastIsPast DEF Consistent

LEMMA ProcessStarts ==
  ASSUME OptionsInv, Consistent, Start
  PROVE  Consistent'
<1>0. Main \in Threads /\ Main \notin Web
  BY ThreadsAssumption DEF Threads
<1>1. /\ UNCHANGED <<now, schedule, attempt>> /\ ~up /\ up' = TRUE
      /\ writer' = [writer EXCEPT ![Main].at = "refresh"]
  BY DEF Start
<1>2. /\ DOMAIN writer' = Threads /\ \A q \in Threads \ {Main} : writer'[q] = writer[q]
      /\ DOMAIN writer'[Main] = {"at", "next", "signature", "copy"}
      /\ writer'[Main].at = "refresh" /\ writer'[Main].next = writer[Main].next
      /\ writer'[Main].copy = writer[Main].copy
  BY <1>0, <1>1, ThreadGoes
<1>3. \A q \in Threads : IsWriter(q) /\ writer[q].at = "idle" /\ writer[q].copy = {}
  BY <1>1 DEF Consistent, IsWriter
<1>4. ASSUME NEW q \in Threads
      PROVE  IsWriter(q)' /\ Holding(q)'
  <2>1. CASE q = Main
    BY <1>0, <1>1, <1>2, <1>3, <2>1 DEF IsWriter, Holding
  <2>2. CASE q # Main
    BY <1>1, <1>2, <1>3, <2>2 DEF IsWriter, Holding
  <2>. QED
    BY <2>1, <2>2
<1>5. Last' = Last
  BY <1>0, <1>1, <1>2, <1>3, LastStays
<1>6. ~Refreshed'
  BY <1>0, <1>2 DEF Refreshed, Refreshing
<1>. QED
  BY <1>1, <1>2, <1>3, <1>4, <1>5, <1>6, LastIsPast DEF Consistent

LEMMA ProcessStops ==
  ASSUME OptionsInv, Consistent, Stop, ~interfered'
  PROVE  Consistent'
<1>1. /\ UNCHANGED <<now, config, schedule>> /\ ~up' /\ attempt' = Last
      /\ writer' = [p \in Threads |-> Idle]
      /\ \A p \in Threads : writer[p].at # "sign"
  BY DEF Stop, Last
<1>2. ASSUME NEW q \in Threads
      PROVE  IsWriter(q)' /\ Holding(q)'
  BY <1>1, NoMomentIsMoment DEF IsWriter, Holding, Idle
<1>3. Last' = Last
  BY <1>1, ThreadsAssumption DEF Last, CutOff, Idle, Threads
<1>. QED
  BY <1>1, <1>2, <1>3, LastIsPast DEF Consistent, Refreshed

LEMMA ScheduleWaits ==
  ASSUME OptionsInv, Consistent, PassTime
  PROVE  Consistent'
<1>1. /\ UNCHANGED <<config, schedule, writer, up, attempt>>
      /\ now' \in Moment /\ ~Before(now', now)
  BY TimePasses DEF PassTime
<1>2. now \in Moment /\ Last' = Last
  BY <1>1 DEF OptionsInv, Last, CutOff
<1>3. \A o, next, time : Fits(o, next, now, time) => Fits(o, next, now', time)
  BY <1>1, <1>2, FitsLater
<1>4. ASSUME NEW q \in Threads
      PROVE  IsWriter(q)' /\ Holding(q)'
  <2>1. IsWriter(q) /\ Holding(q) /\ Intended(q)' = Intended(q)
    BY <1>1 DEF Consistent, Intended
  <2>. QED
    BY <1>1, <1>2, <1>3, <2>1 DEF IsWriter, Holding, Signature, Only
<1>5. ~Before(now', attempt')
  BY <1>1, <1>2, BeforeIsOrder DEF Consistent
<1>. QED
  BY <1>1, <1>2, <1>3, <1>4, <1>5 DEF Consistent, Refreshed, Signature, Only

LEMMA NothingHappens ==
  ASSUME OptionsInv, Consistent, UNCHANGED <<now, config, schedule, writer, up, attempt>>
  PROVE  Consistent'
<1>0. Main \in Threads
  BY DEF Threads
<1>1. IsWriter(Main)' /\ Holding(Main)'
  BY <1>0, OthersHold DEF Consistent, IsWriter, Last, CutOff
<1>. QED
  BY <1>0, <1>1, LastIsPast, QuietStep DEF Consistent, Last, CutOff

LEMMA ScheduleStep ==
  ASSUME OptionsInv, ScheduleInv, Next
  PROVE  ScheduleInv'
<1>1. SUFFICES ASSUME ~interfered' PROVE Consistent'
  BY DEF ScheduleInv
<1>2. ASSUME NEW p \in Web, Import(p)
      PROVE  ~interfered /\ (Reload(p) \/ UNCHANGED <<now, config, schedule, writer, up, attempt>>)
  <2>1. CASE Reload(p)
    BY <1>1, <2>1 DEF Reload
  <2>2. CASE (\E incoming \in Imports : BeginImport(p, incoming)) \/ SaveAddonOptions(p)
              \/ StoreOverrides(p) \/ ReloadRefused(p)
    <3>1. UNCHANGED <<now, config, schedule, writer, up, attempt, interfered>>
      BY <2>2, Zenon DEF BeginImport, SaveAddonOptions, StoreOverrides, ReloadRefused, history
    <3>. QED
      BY <1>1, <3>1
  <2>. QED
    BY <1>2, <2>1, <2>2, Zenon DEF Import
<1>3. ASSUME NEW p \in Threads, Write(p)
      PROVE  ~interfered
  BY <1>1, <1>3 DEF Write, BeginUpdate, UpdateOtherKeys, Refresh, SetNextRuns, SetScheduleSignature, EndUpdate, history
<1>4. Tick => ~interfered
  BY <1>1 DEF Tick, BeginCheck, CheckFails, SkipInstall, BeginInstall, EndInstall, InstallRaises,
              WriteNextInstall, EndUpdate, history
<1>5. ASSUME NEW new \in Edits, EditOptions(new)
      PROVE  ~interfered /\ UNCHANGED <<now, config, schedule, writer, up, attempt>>
  BY <1>1, <1>5 DEF EditOptions
<1>6. Stop \/ Start \/ PassTime => ~interfered
  BY <1>1 DEF Stop, Start, PassTime, history
<1>7. ASSUME NEW p \in Threads, Write(p)
      PROVE  Consistent'
  BY <1>1, <1>3, <1>7, UpdateBegins, OtherKeysChange, RefreshReads, NextRunsAreSet, SignatureIsSet
  DEF Write, ScheduleInv
<1>8. CASE Tick
  BY <1>1, <1>4, <1>8, CheckReads, InstallSteps, InstallComputes, InstallIsDropped, NextInstallIsWritten
  DEF Tick, ScheduleInv
<1>9. ASSUME NEW p \in Web, Import(p)
      PROVE  Consistent'
  BY <1>1, <1>2, <1>9, OptionsAreReloaded, NothingHappens DEF ScheduleInv
<1>10. ASSUME NEW new \in Edits, EditOptions(new)
       PROVE  Consistent'
  BY <1>5, <1>10, NothingHappens DEF ScheduleInv
<1>11. CASE Stop \/ Start \/ PassTime
  BY <1>1, <1>6, <1>11, ProcessStops, ProcessStarts, ScheduleWaits DEF ScheduleInv
<1>. QED
  BY <1>7, <1>8, <1>9, <1>10, <1>11 DEF Next, Threads

THEOREM ScheduleInvariant == Spec => []ScheduleInv
<1>1. Init => ScheduleInv
  <2>. SUFFICES ASSUME Init PROVE Consistent
    BY DEF ScheduleInv
  <2>1. /\ schedule = [next |-> NoMoment, signature |-> NoSignature] /\ up = FALSE
        /\ attempt = NoMoment /\ now = [day |-> 0, slot |-> 0]
        /\ writer = [p \in Threads |-> Idle]
    BY DEF Init
  <2>2. ~Before(now, NoMoment)
    BY <2>1 DEF Before, NoMoment
  <2>3. \A p \in Threads : IsWriter(p) /\ Holding(p)
    BY <2>1, NoMomentIsMoment DEF IsWriter, Holding, Idle
  <2>. QED
    BY <2>1, <2>2, <2>3, NoMomentIsMoment DEF Consistent, Refreshed
<1>2. OptionsInv /\ ScheduleInv /\ UNCHANGED vars => ScheduleInv'
  BY NothingHappens DEF vars, history, ScheduleInv
<1>. QED
  BY <1>1, <1>2, OptionsInvariant, ScheduleStep, PTL DEF Spec

\* No occurrence is passed over, whatever is imported, edited or restarted: the next
\* install comes with the first occurrence in the future or before it, until a thread
\* or a stop comes between the reads and the writes of another thread.
THEOREM NoneIsPassedOver == Spec => []NoOccurrenceIsPassedOver
<1>1. OptionsInv /\ ScheduleInv => NoOccurrenceIsPassedOver
  <2>. SUFFICES ASSUME OptionsInv, Consistent, Refreshed PROVE NoOccurrenceIsPassedOver
    BY DEF NoOccurrenceIsPassedOver, ScheduleInv
  <2>1. Covers(config, schedule.next, now)
    BY NextFits DEF Consistent, Fits
  <2>. QED
    BY <2>1 DEF Covers, NoOccurrenceIsPassedOver
<1>. QED
  BY <1>1, OptionsInvariant, ScheduleInvariant, PTL

\* No occurrence is attempted twice: between an attempt and the one before it,
\* unless that was cut off, lies an occurrence of the schedule in force, until a thread
\* or a stop comes between the reads and the writes of another thread.
THEOREM NoneIsAttemptedTwice == Spec => OneAttemptPerOccurrence
<1>. DEFINE Apart == writer[Main].at = "idle" /\ writer'[Main].at = "installing" /\ Refreshed /\ ~interfered =>
                       \E m \in Moments : Occurs(config, m) /\ Before(attempt, m) /\ ~Before(now, m)
<1>0. Main \in Threads /\ Main \notin Web
  BY ThreadsAssumption DEF Threads
<1>1. ASSUME OptionsInv, ScheduleInv, Next
      PROVE  Apart
  <2>. SUFFICES ASSUME writer[Main].at = "idle", writer'[Main].at = "installing", Refreshed, Consistent
                PROVE  \E m \in Moments : Occurs(config, m) /\ Before(attempt, m) /\ ~Before(now, m)
    BY <1>1 DEF ScheduleInv
  <2>1. Due
    <3>1. ASSUME NEW p \in Web, Import(p)
          PROVE  writer'[Main] = writer[Main]
      <4>1. UNCHANGED writer \/ writer' = [writer EXCEPT ![p].at = "refresh"]
        BY <3>1, Zenon DEF Import, BeginImport, SaveAddonOptions, StoreOverrides, Reload, ReloadRefused
      <4>. QED
        BY <1>0, <4>1 DEF Consistent
    <3>2. ASSUME NEW new \in Edits, EditOptions(new)
          PROVE  UNCHANGED writer
      BY <3>2 DEF EditOptions
    <3>3. ASSUME NEW p \in Threads, Write(p)
          PROVE  writer'[Main].at \in {writer[Main].at, "runs", "sign", "idle"}
      <4>1. CASE BeginUpdate(p)
        BY <1>0, <4>1 DEF BeginUpdate, Consistent, IsWriter
      <4>2. CASE UpdateOtherKeys(p)
        BY <1>0, <4>2 DEF UpdateOtherKeys, Consistent, IsWriter
      <4>3. CASE Refresh(p)
        BY <1>0, <4>3 DEF Refresh, Reads, Computes, Holds, Consistent
      <4>4. CASE SetNextRuns(p)
        BY <1>0, <4>4 DEF SetNextRuns, Consistent, IsWriter
      <4>5. CASE SetScheduleSignature(p)
        BY <1>0, <4>5 DEF SetScheduleSignature, Consistent, Idle
      <4>. QED
        BY <3>3, <4>1, <4>2, <4>3, <4>4, <4>5 DEF Write
    <3>4. CASE Tick
      <4>1. ~EndInstall /\ ~InstallRaises /\ ~CheckFails
        BY DEF EndInstall, InstallRaises, CheckFails, At
      <4>2. ~BeginCheck
        BY <1>0 DEF BeginCheck, Reads, Holds, Consistent
      <4>3. ~WriteNextInstall
        BY DEF WriteNextInstall, EndUpdate
      <4>. QED
        BY <3>4, <4>1, <4>2, <4>3 DEF Tick, SkipInstall, BeginInstall
    <3>5. ~Stop
      BY <1>0 DEF Stop, Idle
    <3>6. ~Start /\ ~PassTime
      BY <1>0 DEF Start, PassTime, Refreshed
    <3>. QED
      BY <1>1, <3>1, <3>2, <3>3, <3>4, <3>5, <3>6 DEF Next, Threads
  <2>2. /\ Full(config) /\ now \in Moment /\ now.day \in 0..Horizon /\ schedule.next \in Moment
        /\ attempt \in Moment /\ ~Before(now, schedule.next)
    BY <1>1, <2>1 DEF OptionsInv, Consistent, Due
  <2>3. Reaches(config, schedule.next, attempt)
    <3>1. Last = attempt
      BY DEF Last, CutOff
    <3>. QED
      BY <1>1, <3>1, NextFits DEF Consistent, Fits
  <2>4. PICK m \in Moment : /\ m.day >= 0 /\ Before(attempt, m) /\ ~Before(schedule.next, m)
                            /\ Occurs(config, m) \/ m.day > Horizon
    BY <2>3 DEF Reaches
  <2>5. ~Before(now, m)
    BY <2>2, <2>4, BeforeIsOrder
  <2>6. m.day <= Horizon
    BY <2>2, <2>4, <2>5, HorizonAssumption DEF Before, Moment
  <2>7. m \in Moments
    BY <2>4, <2>6, HorizonAssumption DEF Moments, Moment
  <2>. QED
    BY <2>4, <2>5, <2>6, <2>7, HorizonAssumption DEF Moment
<1>2. UNCHANGED vars => Apart
  BY DEF vars
<1>3. OptionsInv /\ ScheduleInv /\ [Next]_vars => [Apart]_vars
  BY <1>1
<1>. QED
  BY <1>3, OptionsInvariant, ScheduleInvariant, PTL DEF Spec, OneAttemptPerOccurrence

-----------------------------------------------------------------------------
(* Imports and restarts *)

\* A start with the add-on options of c and the stored overrides has c's schedule.
Restores(stored, c) ==
  Only(FromDict(Updated(Only(c, AddonOptionKeys), stored)), ScheduleKeys) = Only(c, ScheduleKeys)

\* Overrides that say the same of the schedule as the options that c was made of
\* restore c: install_days, which from_dict may have filled in, come from c itself.
LEMMA OverridesRestore ==
  ASSUME NEW given, IsOptions(given),
         NEW stored, IsOptions(stored), DOMAIN stored \subseteq OverrideKeys,
         \A k \in OverrideKeys : Updated(DefaultOptions, stored)[k] = Updated(DefaultOptions, given)[k]
  PROVE  Restores(stored, FromDict(given))
<1>. DEFINE merged == Updated(DefaultOptions, given)
            c == FromDict(given)
            again == Updated(Only(c, AddonOptionKeys), stored)
            remerged == Updated(DefaultOptions, again)
            d == FromDict(again)
<1>0. /\ AddonOptionKeys = {"install_days", "install_hour", "auto_install"}
      /\ {"frequency", "monthday", "once_at", "window"} \subseteq OverrideKeys
      /\ AddonOptionKeys \cap OverrideKeys = {} /\ OptionKeys = AddonOptionKeys \cup OverrideKeys
  BY Defaults, DisjointKeys DEF AddonOptionKeys
<1>1. IsOptions(c) /\ DOMAIN c = OptionKeys /\ c.install_days # {}
  BY FromDictIsOptions
<1>2. /\ c.install_days = IF merged.install_days = {} THEN {6} ELSE merged.install_days
      /\ c.frequency =
           IF merged.frequency # NoFrequency THEN Spelled(merged.frequency)
           ELSE IF merged.once_at # NoMoment THEN "once"
           ELSE IF c.install_days = Weekdays THEN "daily" ELSE "weekly"
      /\ \A k \in {"install_hour", "monthday", "once_at", "window"} : c[k] = merged[k]
  BY FromDictAt DEF c
<1>. HIDE DEF c
<1>3. /\ DOMAIN Only(c, AddonOptionKeys) = AddonOptionKeys /\ IsOptions(Only(c, AddonOptionKeys))
      /\ \A k \in AddonOptionKeys : Only(c, AddonOptionKeys)[k] = c[k]
  <2>1. DOMAIN c \cap AddonOptionKeys = AddonOptionKeys
    BY <1>0, <1>1
  <2>. QED
    BY <1>1, <2>1, OnlySome
<1>4. /\ IsOptions(again) /\ DOMAIN again = AddonOptionKeys \cup DOMAIN stored
      /\ \A k \in DOMAIN stored : again[k] = stored[k]
      /\ \A k \in AddonOptionKeys : again[k] = c[k]
  <2>. DEFINE part == Only(c, AddonOptionKeys)
  <2>. HIDE DEF part
  <2>1. /\ DOMAIN Updated(part, stored) = DOMAIN part \cup DOMAIN stored
        /\ \A k \in DOMAIN stored : Updated(part, stored)[k] = stored[k]
        /\ \A k \in DOMAIN part \ DOMAIN stored : Updated(part, stored)[k] = part[k]
        /\ IsOptions(part) /\ IsOptions(stored) => IsOptions(Updated(part, stored))
    BY UpdatedOptions
  <2>2. \A k \in AddonOptionKeys : k \in DOMAIN part \ DOMAIN stored /\ part[k] = c[k]
    BY <1>0, <1>3 DEF part
  <2>. QED
    BY <1>3, <2>1, <2>2 DEF part
<1>. HIDE DEF again
<1>5. /\ DOMAIN d = OptionKeys
      /\ d.install_days = IF remerged.install_days = {} THEN {6} ELSE remerged.install_days
      /\ d.frequency =
           IF remerged.frequency # NoFrequency THEN Spelled(remerged.frequency)
           ELSE IF remerged.once_at # NoMoment THEN "once"
           ELSE IF d.install_days = Weekdays THEN "daily" ELSE "weekly"
      /\ \A k \in {"install_hour", "monthday", "once_at", "window"} : d[k] = remerged[k]
  BY <1>4, FromDictAt
<1>6. /\ remerged.install_days = c.install_days /\ remerged.install_hour = c.install_hour
      /\ \A k \in {"frequency", "monthday", "once_at", "window"} : remerged[k] = merged[k]
  <2>1. \A k \in OptionKeys : remerged[k] = IF k \in DOMAIN again THEN again[k] ELSE DefaultOptions[k]
    BY <1>4, Merged
  <2>2. \A k \in OptionKeys :
          Updated(DefaultOptions, stored)[k] = IF k \in DOMAIN stored THEN stored[k] ELSE DefaultOptions[k]
    BY Merged
  <2>. HIDE DEF remerged
  <2>3. \A k \in AddonOptionKeys : remerged[k] = c[k]
    BY <1>0, <1>4, <2>1
  <2>4. ASSUME NEW k \in OverrideKeys
        PROVE  remerged[k] = merged[k]
    <3>1. k \in OptionKeys /\ k \notin AddonOptionKeys
      BY <1>0
    <3>2. k \in DOMAIN again <=> k \in DOMAIN stored
      BY <1>4, <3>1
    <3>3. remerged[k] = Updated(DefaultOptions, stored)[k]
      BY <1>4, <2>1, <2>2, <3>1, <3>2
    <3>. QED
      BY <3>3
  <2>. HIDE DEF merged
  <2>. QED
    BY <1>0, <2>3, <2>4
<1>. HIDE DEF merged, remerged, d
<1>7. \A k \in ScheduleKeys : d[k] = c[k]
  <2>1. d.install_days = c.install_days
    BY <1>1, <1>5, <1>6
  <2>2. d.once_at = c.once_at /\ remerged.once_at = merged.once_at /\ remerged.frequency = merged.frequency
    BY <1>2, <1>5, <1>6
  <2>3. d.frequency = c.frequency
    BY <1>2, <1>5, <2>1, <2>2
  <2>4. d.install_hour = c.install_hour /\ d.monthday = c.monthday /\ d.window = c.window
    BY <1>2, <1>5, <1>6
  <2>. QED
    BY <2>1, <2>2, <2>3, <2>4 DEF ScheduleKeys
<1>8. Only(d, ScheduleKeys) = Only(c, ScheduleKeys)
  BY <1>1, <1>5, <1>7 DEF Only
<1>. QED
  BY <1>8 DEF Restores, c, again, d

\* At most one import is under way; between its writes the overrides belong to the
\* configuration to come, at all other times to the one in force.
KeptInv ==
  up /\ ~unread /\ ~mixed =>
    /\ \A p, q \in Web : request[p].at # "none" /\ request[q].at # "none" => p = q
    /\ \A p \in Web : request[p].at = "stored" => overrides \in OverridesOf(request[p].options)
    /\ (\A p \in Web : request[p].at # "stored") => Restores(overrides, config)

\* Nothing that leaves the overrides, the configuration and a process that is up alone
\* can disturb it, unless it begins an import or brings it to its second write or past it.
LEMMA KeptByOthers ==
  ASSUME KeptInv, UNCHANGED <<overrides, config>>, up' => up,
         ~unread' => ~unread, ~mixed' => ~mixed,
         \A p \in Web : request'[p].at # "none" => request[p].at # "none",
         \A p \in Web : request'[p].at = "stored" <=> request[p].at = "stored",
         \A p \in Web : request[p].at = "stored" => request'[p].options = request[p].options
  PROVE  KeptInv'
<1>. SUFFICES ASSUME up', ~unread', ~mixed'
              PROVE  /\ \A p, q \in Web : request'[p].at # "none" /\ request'[q].at # "none" => p = q
                     /\ \A p \in Web : request'[p].at = "stored" => overrides' \in OverridesOf(request'[p].options)
                     /\ (\A p \in Web : request'[p].at # "stored") => Restores(overrides', config')
  BY DEF KeptInv, Restores, OverridesOf
<1>. QED
  BY DEF KeptInv

LEMMA KeptStep ==
  ASSUME OptionsInv, KeptInv, Next
  PROVE  KeptInv'
<1>0. /\ DOMAIN request = Web /\ \A p \in Web : DOMAIN request[p] = {"at", "options"} /\ Requested(p)
      /\ StoredInv
  BY DEF OptionsInv, RequestsInv
<1>1. CASE UNCHANGED <<overrides, config, request, up, unread, mixed>>
  BY <1>1, KeptByOthers
<1>2. CASE Tick \/ (\E p \in Threads : Write(p)) \/ PassTime
  BY <1>1, <1>2, QuietSteps DEF PassTime, history
<1>3. ASSUME NEW p \in Web, NEW incoming \in Imports, BeginImport(p, incoming)
      PROVE  KeptInv'
  <2>1. PICK options :
          /\ UNCHANGED <<overrides, config, up, unread>> /\ request[p].at = "none"
          /\ mixed' = (mixed \/ \E q \in Web : request[q].at # "none")
          /\ request' = [request EXCEPT ![p] = [at |-> "valid", options |-> options]]
    BY <1>3 DEF BeginImport
  <2>2. request'[p].at = "valid" /\ \A q \in Web \ {p} : request'[q] = request[q]
    BY <1>0, <2>1
  <2>. SUFFICES ASSUME up', ~unread', ~mixed'
                PROVE  /\ \A q, r \in Web : request'[q].at # "none" /\ request'[r].at # "none" => q = r
                       /\ \A q \in Web : request'[q].at = "stored" => overrides' \in OverridesOf(request'[q].options)
                       /\ (\A q \in Web : request'[q].at # "stored") => Restores(overrides', config')
    BY DEF KeptInv, Restores, OverridesOf
  <2>3. \A q \in Web : request[q].at = "none"
    BY <2>1
  <2>4. \A q \in Web \ {p} : request'[q].at = "none"
    BY <2>2, <2>3
  <2>. QED
    BY <2>1, <2>2, <2>3, <2>4 DEF KeptInv
<1>4. ASSUME NEW p \in Web, SaveAddonOptions(p)
      PROVE  KeptInv'
  <2>1. /\ UNCHANGED <<overrides, config, up, mixed>> /\ request[p].at = "valid"
        /\ ~unread' => ~unread
        /\ \/ request' = [request EXCEPT ![p].at = "saved"]
           \/ request' = [request EXCEPT ![p] = NoRequest]
    <3>1. ~unread' => ~unread
      BY <1>4 DEF SaveAddonOptions
    <3>. QED
      BY <1>4, <3>1, Zenon DEF SaveAddonOptions, Goto, EndRequest
  <2>2. request'[p].at # "stored" /\ \A q \in Web \ {p} : request'[q] = request[q]
    BY <1>0, <2>1 DEF NoRequest
  <2>3. \A q \in Web : request'[q].at = "stored" <=> request[q].at = "stored"
    BY <2>1, <2>2
  <2>4. \A q \in Web : request[q].at = "stored" => request'[q].options = request[q].options
    BY <2>1, <2>2
  <2>5. \A q \in Web : request'[q].at # "none" => request[q].at # "none"
    BY <2>1, <2>2
  <2>. QED
    BY <2>1, <2>3, <2>4, <2>5, KeptByOthers
<1>5. ASSUME NEW p \in Web, StoreOverrides(p)
      PROVE  KeptInv'
  <2>1. /\ overrides' \in OverridesOf(request[p].options) /\ request[p].at = "saved"
        /\ request' = [request EXCEPT ![p].at = "stored"]
        /\ UNCHANGED <<up, unread, mixed>>
    BY <1>5 DEF StoreOverrides, Goto, history
  <2>2. /\ request'[p].at = "stored" /\ request'[p].options = request[p].options
        /\ \A q \in Web \ {p} : request'[q] = request[q]
    BY <1>0, <2>1
  <2>. SUFFICES ASSUME up', ~unread', ~mixed'
                PROVE  /\ \A q, r \in Web : request'[q].at # "none" /\ request'[r].at # "none" => q = r
                       /\ \A q \in Web : request'[q].at = "stored" => overrides' \in OverridesOf(request'[q].options)
                       /\ (\A q \in Web : request'[q].at # "stored") => Restores(overrides', config')
    BY DEF KeptInv, Restores, OverridesOf
  <2>3. \A q \in Web : request[q].at # "none" => q = p
    BY <2>1 DEF KeptInv
  <2>4. \A q \in Web \ {p} : request'[q].at = "none"
    BY <2>2, <2>3
  <2>. QED
    BY <2>1, <2>2, <2>4
<1>6. ASSUME NEW p \in Web, Reload(p)
      PROVE  KeptInv'
  <2>. PICK options : options = request[p].options
    OBVIOUS
  <2>1. /\ request[p].at = "stored" /\ UNCHANGED <<overrides, up, unread, mixed>>
        /\ config' = FromDict(options)
        /\ request' = [request EXCEPT ![p] = NoRequest]
    BY <1>6, Zenon DEF Reload, EndRequest
  <2>2. IsOptions(options) /\ DOMAIN options = OptionKeys
    BY <1>0, <2>1 DEF Requested
  <2>3. request'[p].at = "none" /\ \A q \in Web \ {p} : request'[q] = request[q]
    BY <1>0, <2>1 DEF NoRequest
  <2>. SUFFICES ASSUME up', ~unread', ~mixed'
                PROVE  /\ \A q, r \in Web : request'[q].at # "none" /\ request'[r].at # "none" => q = r
                       /\ \A q \in Web : request'[q].at = "stored" => overrides' \in OverridesOf(request'[q].options)
                       /\ (\A q \in Web : request'[q].at # "stored") => Restores(overrides', config')
    BY DEF KeptInv, Restores, OverridesOf
  <2>4. overrides \in OverridesOf(options) /\ \A q \in Web : request[q].at # "none" => q = p
    BY <2>1 DEF KeptInv
  <2>5. \A q \in Web : request'[q].at = "none"
    BY <2>3, <2>4
  <2>6. Restores(overrides, FromDict(options))
    <3>1. /\ IsOptions(overrides) /\ DOMAIN overrides \subseteq OverrideKeys
          /\ \A k \in OverrideKeys :
               Updated(DefaultOptions, overrides)[k] = Updated(DefaultOptions, options)[k]
      BY <2>2, <2>4, OverridesSay
    <3>. QED
      BY <2>2, <3>1, OverridesRestore
  <2>. QED
    BY <2>1, <2>5, <2>6
<1>7. ASSUME NEW p \in Web, ReloadRefused(p)
      PROVE  KeptInv'
  \* from_dict refuses only what was stored as it was.
  <2>1. /\ request[p].at = "stored" /\ ~Valid(FromDict(request[p].options)) /\ UNCHANGED unread
    BY <1>7 DEF ReloadRefused, history
  <2>2. unread
    BY <1>0, <2>1, ReadableIsValid DEF Requested
  <2>. QED
    BY <2>1, <2>2 DEF KeptInv
<1>8. ASSUME NEW new \in Edits, EditOptions(new)
      PROVE  KeptInv'
  BY <1>8, KeptByOthers DEF EditOptions
<1>9. CASE Stop
  BY <1>9 DEF Stop, KeptInv
<1>10. CASE Start
  <2>1. /\ ~up /\ UNCHANGED <<overrides, request>> /\ config' = FromDict(Stored)
    BY <1>10 DEF Start
  <2>2. \A p \in Web : request'[p].at = "none"
    BY <1>0, <2>1 DEF Requested
  <2>3. Restores(overrides', config')
    BY <1>0, <2>1, StoredIsRead, OverridesRestore DEF StoredInv
  <2>. QED
    BY <2>1, <2>2, <2>3 DEF KeptInv, Restores, OverridesOf
<1>. QED
  BY <1>2, <1>3, <1>4, <1>5, <1>6, <1>7, <1>8, <1>9, <1>10 DEF Next, Import, Threads

\* A start finds the schedule in force while no import is under way, unless the user has
\* edited the options since, from_dict refused what was stored, or two imports were
\* under way at once: those can leave the overrides of one beside the configuration of
\* the other.
THEOREM CompletedImportsAreKept == Spec => []ImportsOutliveRestart
<1>1. Init => KeptInv
  BY DEF Init, KeptInv
<1>2. OptionsInv /\ KeptInv /\ [Next]_vars => KeptInv'
  <2>1. CASE UNCHANGED vars
    BY <2>1, KeptByOthers DEF vars, history
  <2>. QED
    BY <2>1, KeptStep
<1>3. KeptInv => ImportsOutliveRestart
  BY DEF KeptInv, Restores, ImportsOutliveRestart, Stored
<1>. QED
  BY <1>1, <1>2, <1>3, OptionsInvariant, PTL DEF Spec
=============================================================================
