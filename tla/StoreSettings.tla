--------------------------- MODULE StoreSettings ---------------------------
(***************************************************************************)
(* Whether the store takes orders, and where it delivers                   *)
(* (storeSettings.util.js, storeHours.util.js, settings.controller.js and  *)
(* the settings of admin.controller.js): the newest app_settings row, the  *)
(* store_settings row, and the merged view of both that the process caches *)
(* for a while.                                                            *)
(*                                                                         *)
(* An UPDATE names the row by the place (ctid) it was read at; every       *)
(* update moves the row, so an UPDATE that was overtaken changes nothing.  *)
(* Charges, minima, theme and banner travel with the row and are not told  *)
(* apart.  Time passes in ticks, the day has Day of them.                  *)
(***************************************************************************)
EXTENDS Integers

CONSTANTS
    Desks,       \* bound: requests in flight at once
    CacheTTL,    \* STORE_SETTINGS_CACHE_TTL_MS, in ticks
    Day,         \* ticks of a day
    ModeChoices,     \* bound: modes that are set
    Hours,       \* bound: opening and closing times that are set
    MaxClock,    \* bound: ticks
    MaxWrites    \* bound: updates of the rows

ASSUME SettingsAssumption ==
    /\ CacheTTL \in Nat /\ Day \in Nat \ {0} /\ MaxClock \in Nat
    /\ MaxWrites \in Nat \ {0}
    /\ ModeChoices \subseteq {"accepting", "limited_capacity", "not_accepting"}
    /\ Hours \subseteq (0..Day - 1) \X (0..Day - 1)

VARIABLES
    clock,       \* ticks since the start, the first one at midnight
    appSettings, \* the newest app_settings row; tid is its place
    zone,        \* store_settings: the delivery zone, 0 while there is no row
    cached,      \* cachedMergedSettings, made from the rows as they were read
    cachedAt,    \* cachedMergedAt
    desk,        \* what each request in flight is doing
    changedAt    \* history: when the rows last changed

settingsVars == <<clock, appSettings, zone, cached, cachedAt, desk, changedAt>>

Modes == {"accepting", "limited_capacity", "not_accepting"}
Times == 0..Day - 1
Columns == [open : BOOLEAN, mode : Modes, from : Times, to : Times]

\* What is merged when the rows cannot be read in time.
Defaults == [open |-> TRUE, mode |-> "accepting", from |-> 0, to |-> Day - 1]

\* A merged view, and what it was made from.
Origins == {"none", "rows", "defaults"}
Views   == [cols : Columns, zone : 0..MaxWrites, from : Origins]
NoView  == [cols |-> Defaults, zone |-> 0, from |-> "none"]

\* isWithinStoreHours: hours that begin and end at once are no hours at all,
\* hours that end before they begin go on past midnight.
WithinHours(from, to, minute) ==
    /\ from # to
    /\ \/ from < to /\ minute >= from /\ minute < to
       \/ from > to /\ (minute >= from \/ minute < to)

Minute == clock % Day

\* resolveStoreAvailability: the mode customers see at minute m.
EffectiveMode(cols, m) ==
    IF cols.open /\ cols.mode # "not_accepting" /\ WithinHours(cols.from, cols.to, m)
    THEN cols.mode ELSE "not_accepting"

IdleDesk == [at |-> "idle", cols |-> Defaults, zone |-> 0, tid |-> 0, since |-> 0, made |-> "none"]
DeskAt(d, at) == desk[d].at = at

-----------------------------------------------------------------------------
\* Changing app_settings.

\* setStoreAcceptanceMode: the flag follows the mode.
WithMode(cols, m) == [cols EXCEPT !.mode = m, !.open = m # "not_accepting"]

\* PATCH acceptance-mode writes the two columns of whatever row it finds.
SetAcceptanceMode(d, m) ==
    /\ DeskAt(d, "idle")
    /\ desk' = [desk EXCEPT ![d] = [IdleDesk EXCEPT !.at = "select_mode", !.cols.mode = m]]
    /\ UNCHANGED <<clock, appSettings, zone, cached, cachedAt, changedAt>>

\* PATCH toggle decides on what it reads first, from the mode and not from the
\* flag.
ToggleStoreOpen(d) ==
    SetAcceptanceMode(d, IF appSettings.cols.mode = "not_accepting"
                         THEN "accepting" ELSE "not_accepting")

\* PUT settings: the row as it was read, with the columns of the body replaced.
UpdateSettings(d, cols) ==
    /\ DeskAt(d, "idle")
    /\ desk' = [desk EXCEPT ![d] = [IdleDesk EXCEPT !.at = "select_row", !.cols = cols]]
    /\ UNCHANGED <<clock, appSettings, zone, cached, cachedAt, changedAt>>

\* putSetting: theme, banner and app information are keys of a column of the
\* same row.
PutSetting(d) ==
    /\ DeskAt(d, "idle")
    /\ desk' = [desk EXCEPT ![d] = [IdleDesk EXCEPT !.at = "select_value"]]
    /\ UNCHANGED <<clock, appSettings, zone, cached, cachedAt, changedAt>>

SelectRow(d) ==
    /\ \/ DeskAt(d, "select_value") /\ desk' = [desk EXCEPT ![d].at = "set_value", ![d].tid = appSettings.tid]
       \/ DeskAt(d, "select_mode") /\ desk' = [desk EXCEPT ![d].at = "set_mode", ![d].tid = appSettings.tid]
       \/ DeskAt(d, "select_row") /\ desk' = [desk EXCEPT ![d].at = "set_row", ![d].tid = appSettings.tid]
    /\ UNCHANGED <<clock, appSettings, zone, cached, cachedAt, changedAt>>

\* UPDATE app_settings ... WHERE ctid = the place read before.
UpdateRow(d) ==
    /\ \/ DeskAt(d, "set_mode")
       \/ DeskAt(d, "set_row")
    /\ IF desk[d].tid = appSettings.tid
       THEN /\ appSettings.tid < MaxWrites
            /\ appSettings' =
                 [tid  |-> appSettings.tid + 1,
                  cols |-> IF DeskAt(d, "set_mode")
                           THEN WithMode(appSettings.cols, desk[d].cols.mode)
                           ELSE desk[d].cols]
            /\ changedAt' = clock
       ELSE UNCHANGED <<appSettings, changedAt>>
    /\ desk' = [desk EXCEPT ![d].at = "sync"]
    /\ UNCHANGED <<clock, zone, cached, cachedAt>>

\* A new theme moves the row as well, so that it overtakes a change of the mode
\* that was about to be written; it refreshes no view.
UpdateValue(d) ==
    /\ DeskAt(d, "set_value")
    /\ IF desk[d].tid = appSettings.tid
       THEN /\ appSettings.tid < MaxWrites
            /\ appSettings' = [appSettings EXCEPT !.tid = @ + 1]
       ELSE UNCHANGED appSettings
    /\ desk' = [desk EXCEPT ![d] = IdleDesk]
    /\ UNCHANGED <<clock, zone, cached, cachedAt, changedAt>>

\* syncOperationalToStoreSettings, then getMergedStoreSettings with a forced
\* refresh.  The columns it copies are shadowed by those of app_settings.
SyncStoreSettings(d) ==
    /\ DeskAt(d, "sync")
    /\ cached' = NoView
    /\ cachedAt' = 0
    /\ desk' = [desk EXCEPT ![d] = [IdleDesk EXCEPT !.at = "load", !.since = clock]]
    /\ UNCHANGED <<clock, appSettings, zone, changedAt>>

-----------------------------------------------------------------------------
\* updateDeliveryZone: the upsert is refused by the database, so the row is
\* deleted and inserted anew, in two statements; the cache is left alone.

DeleteZone(d) ==
    /\ DeskAt(d, "idle")
    /\ zone' = 0
    /\ changedAt' = clock
    /\ desk' = [desk EXCEPT ![d] = [IdleDesk EXCEPT !.at = "insert"]]
    /\ UNCHANGED <<clock, appSettings, cached, cachedAt>>

InsertZone(d, z) ==
    /\ DeskAt(d, "insert")
    /\ zone' = z
    /\ changedAt' = clock
    /\ desk' = [desk EXCEPT ![d] = IdleDesk]
    /\ UNCHANGED <<clock, appSettings, cached, cachedAt>>

-----------------------------------------------------------------------------
\* getMergedStoreSettings.

\* now - cachedMergedAt < STORE_SETTINGS_CACHE_TTL_MS.
Fresh == cached.from # "none" /\ clock - cachedAt < CacheTTL

\* A customer's request that finds no fresh view reads the rows.
GetStoreStatus(d) ==
    /\ DeskAt(d, "idle")
    /\ ~Fresh
    /\ desk' = [desk EXCEPT ![d] = [IdleDesk EXCEPT !.at = "load", !.since = clock]]
    /\ UNCHANGED <<clock, appSettings, zone, cached, cachedAt, changedAt>>

\* The reads of Promise.all.  One that takes too long gives nothing, and the
\* defaults are merged instead.
ReadOperationalSettings(d) ==
    /\ DeskAt(d, "load")
    /\ \/ desk' = [desk EXCEPT ![d].at = "load_zone", ![d].cols = appSettings.cols,
                               ![d].made = "rows"]
       \/ desk' = [desk EXCEPT ![d].at = "merge", ![d].made = "defaults"]
    /\ UNCHANGED <<clock, appSettings, zone, cached, cachedAt, changedAt>>

ReadStoreSettingsRow(d) ==
    /\ DeskAt(d, "load_zone")
    /\ \/ desk' = [desk EXCEPT ![d].at = "merge", ![d].zone = zone]
       \/ desk' = [desk EXCEPT ![d].at = "merge", ![d].made = "defaults"]
    /\ UNCHANGED <<clock, appSettings, zone, cached, cachedAt, changedAt>>

ViewOf(d) == [cols |-> desk[d].cols, zone |-> desk[d].zone, from |-> desk[d].made]

\* Mutant: the view is as old as its merge, not as its request.
StampWhenMerged(d) ==
    /\ DeskAt(d, "merge")
    /\ cached' = ViewOf(d)
    /\ cachedAt' = clock
    /\ desk' = [desk EXCEPT ![d] = IdleDesk]
    /\ UNCHANGED <<clock, appSettings, zone, changedAt>>

\* The view is stamped with the time at which its request came in; it replaces
\* a view of later rows as well.
CacheView(d) ==
    /\ DeskAt(d, "merge")
    /\ cached' = ViewOf(d)
    /\ cachedAt' = desk[d].since
    /\ desk' = [desk EXCEPT ![d] = IdleDesk]
    /\ UNCHANGED <<clock, appSettings, zone, changedAt>>

Tick ==
    /\ clock < MaxClock
    /\ clock' = clock + 1
    /\ UNCHANGED <<appSettings, zone, cached, cachedAt, desk, changedAt>>

\* The process restarts: its cache and what was in flight are gone.
SettingsRestart ==
    /\ cached' = NoView
    /\ cachedAt' = 0
    /\ desk' = [d \in Desks |-> IdleDesk]
    /\ UNCHANGED <<clock, appSettings, zone, changedAt>>

\* A statement fails, which ends its request: a deleted zone stays deleted.
DeskFails(d) ==
    /\ ~DeskAt(d, "idle")
    /\ desk' = [desk EXCEPT ![d] = IdleDesk]
    /\ UNCHANGED <<clock, appSettings, zone, cached, cachedAt, changedAt>>

SettingsInit ==
    /\ clock = 0
    /\ appSettings = [cols |-> Defaults, tid |-> 0]
    /\ zone = 1
    /\ cached = NoView /\ cachedAt = 0
    /\ desk = [d \in Desks |-> IdleDesk]
    /\ changedAt = 0

DeskStep(d) ==
    \/ \E m \in ModeChoices : SetAcceptanceMode(d, m)
    \/ ToggleStoreOpen(d)
    \/ \E m \in ModeChoices : UpdateSettings(d, [appSettings.cols EXCEPT !.mode = m])
    \/ \E b \in BOOLEAN : UpdateSettings(d, [appSettings.cols EXCEPT !.open = b])
    \/ \E h \in Hours : UpdateSettings(d, [appSettings.cols EXCEPT !.from = h[1], !.to = h[2]])
    \/ PutSetting(d) \/ SelectRow(d) \/ UpdateValue(d) \/ UpdateRow(d) \/ SyncStoreSettings(d)
    \/ DeleteZone(d)
    \/ \E z \in 1..MaxWrites : InsertZone(d, z)
    \/ GetStoreStatus(d) \/ ReadOperationalSettings(d) \/ ReadStoreSettingsRow(d) \/ CacheView(d)
    \/ DeskFails(d)

SettingsNext ==
    \/ \E d \in Desks : DeskStep(d)
    \/ Tick
    \/ SettingsRestart

SettingsSpec == SettingsInit /\ [][SettingsNext]_settingsVars

-----------------------------------------------------------------------------
DeskPlaces == {"idle", "select_mode", "select_row", "select_value", "set_mode",
               "set_row", "set_value", "sync", "insert", "load", "load_zone", "merge"}

\* Every variable of the settings keeps its type.
SettingsTypeOK ==
    /\ clock \in 0..MaxClock
    /\ appSettings \in [cols : Columns, tid : 0..MaxWrites]
    /\ zone \in 0..MaxWrites
    /\ cached \in Views
    /\ cachedAt \in 0..clock
    /\ desk \in [Desks -> [at : DeskPlaces, cols : Columns, zone : 0..MaxWrites,
                           tid : 0..MaxWrites, since : 0..clock, made : Origins]]
    /\ changedAt \in 0..clock

\* A change of the mode, the hours or the zone that was made a cache life ago is
\* seen by every customer, whatever reads were in flight when it was made
\* (getMergedStoreSettings); views made of defaults are excepted.
ChangeIsSeen ==
    Fresh /\ cached.from = "rows" /\ (cached.cols # appSettings.cols \/ cached.zone # zone)
        => clock - changedAt < CacheTTL

\* A store that is switched on takes orders exactly while fewer ticks have
\* passed since it last opened than it stays open, past midnight as well
\* (resolveStoreAvailability, isWithinStoreHours).
HoursKept ==
    LET c == appSettings.cols
    IN  EffectiveMode(c, Minute) # "not_accepting" <=>
            /\ c.open /\ c.mode # "not_accepting"
            /\ (Minute - c.from) % Day < (c.to - c.from) % Day
=============================================================================
