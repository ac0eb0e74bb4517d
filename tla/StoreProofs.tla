------------------------------- MODULE StoreProofs -------------------------------
(***************************************************************************)
(* What the store's own desk promises, for any number of requests, timers  *)
(* and monitor runs in flight: the settings of the store (StoreSettings),  *)
(* the advice about its capacity (CapacitySuggestion), packing (Packing),  *)
(* and the operational monitor and timeline (Timeline).                    *)
(***************************************************************************)
EXTENDS StoreSettings, CapacitySuggestion, Packing, Timeline, SumLemmas, TLAPS

-----------------------------------------------------------------------------
(* The settings of the store. *)

\* What a view of the rows differs in from the rows as they are.
Differs(cols, z) == cols # appSettings.cols \/ z # zone

\* A read that is behind the rows began before they last changed, and so is the
\* view that was made of one.
BehindIsOld ==
    /\ cached.from = "rows" /\ Differs(cached.cols, cached.zone) => changedAt >= cachedAt
    /\ \A d \in Desks :
         /\ desk[d].at = "load_zone" /\ desk[d].cols # appSettings.cols => changedAt >= desk[d].since
         /\ /\ desk[d].at = "merge" /\ desk[d].made = "rows"
            /\ Differs(desk[d].cols, desk[d].zone)
            => changedAt >= desk[d].since

\* The record a request is kept in, at any time t.
DeskUntil(t) == [at : DeskPlaces, cols : Columns, zone : 0..MaxWrites,
                 tid : 0..MaxWrites, since : 0..t, made : Origins]

-----------------------------------------------------------------------------
\* The values the settings start from have their types.
LEMMA DefaultsAreColumns == Defaults \in Columns
  BY SettingsAssumption DEF SettingsAssumption, Defaults, Columns, Modes, Times

\* No view is a view.
LEMMA NoViewIsView == NoView \in Views
  BY DefaultsAreColumns, SettingsAssumption DEF SettingsAssumption, NoView, Views, Origins

\* A request that does nothing is a request, whatever the time.
LEMMA IdleIsTyped ==
  ASSUME NEW t \in Nat
  PROVE  IdleDesk \in DeskUntil(t)
  BY DefaultsAreColumns, SettingsAssumption
     DEF SettingsAssumption, IdleDesk, DeskUntil, DeskPlaces, Origins

\* Initially every variable has its type.
LEMMA SettingsInitTyped == SettingsInit => SettingsTypeOK
<1> SUFFICES ASSUME SettingsInit PROVE SettingsTypeOK
  OBVIOUS
<1>1. clock = 0 /\ clock \in 0..MaxClock /\ cachedAt \in 0..clock /\ changedAt \in 0..clock
  BY SettingsAssumption DEF SettingsInit, SettingsAssumption
<1>2. appSettings \in [cols : Columns, tid : 0..MaxWrites] /\ zone \in 0..MaxWrites
  BY DefaultsAreColumns, SettingsAssumption DEF SettingsInit, SettingsAssumption
<1>3. cached \in Views
  BY NoViewIsView DEF SettingsInit
<1>4. desk \in [Desks -> DeskUntil(clock)]
  BY <1>1, IdleIsTyped DEF SettingsInit
<1> QED BY <1>1, <1>2, <1>3, <1>4 DEF SettingsTypeOK, DeskUntil

\* What every request starts from.
LEMMA ReadyForRequests ==
  SettingsTypeOK => IdleDesk \in DeskUntil(clock) /\ appSettings.cols \in Columns
<1>1. SettingsTypeOK => clock \in Nat
  BY SettingsAssumption DEF SettingsTypeOK, SettingsAssumption
<1> QED BY <1>1, IdleIsTyped DEF SettingsTypeOK

\* A request that begins or goes on leaves the rows and the cache alone, and its
\* own record typed.
LEMMA RequestsTyped ==
  ASSUME SettingsTypeOK, NEW d \in Desks,
         \/ \E m \in ModeChoices : SetAcceptanceMode(d, m)
         \/ ToggleStoreOpen(d)
         \/ \E m \in ModeChoices : UpdateSettings(d, [appSettings.cols EXCEPT !.mode = m])
         \/ \E b \in BOOLEAN : UpdateSettings(d, [appSettings.cols EXCEPT !.open = b])
         \/ \E h \in Hours : UpdateSettings(d, [appSettings.cols EXCEPT !.from = h[1], !.to = h[2]])
  PROVE  SettingsTypeOK'
<1>0. IdleDesk \in DeskUntil(clock) /\ appSettings.cols \in Columns
  BY ReadyForRequests
<1>1. ASSUME NEW m \in Modes, SetAcceptanceMode(d, m) PROVE SettingsTypeOK'
  <2>1. [IdleDesk EXCEPT !.at = "select_mode", !.cols.mode = m] \in DeskUntil(clock)
    BY <1>0 DEF Columns, DeskPlaces, DeskUntil
  <2> QED BY <2>1, <1>1 DEF SetAcceptanceMode, SettingsTypeOK, DeskUntil
<1>2. ASSUME NEW c \in Columns, UpdateSettings(d, c) PROVE SettingsTypeOK'
  <2>1. [IdleDesk EXCEPT !.at = "select_row", !.cols = c] \in DeskUntil(clock)
    BY <1>0 DEF DeskPlaces, DeskUntil
  <2> QED BY <2>1, <1>2 DEF UpdateSettings, SettingsTypeOK, DeskUntil
<1>3. CASE \E m \in ModeChoices : SetAcceptanceMode(d, m)
  BY <1>1, <1>3, SettingsAssumption DEF SettingsAssumption, Modes
<1>4. CASE ToggleStoreOpen(d)
  BY <1>1, <1>4 DEF ToggleStoreOpen, Modes
<1>5. CASE \E m \in ModeChoices : UpdateSettings(d, [appSettings.cols EXCEPT !.mode = m])
  <2>1. \A m \in ModeChoices : [appSettings.cols EXCEPT !.mode = m] \in Columns
    BY <1>0, SettingsAssumption DEF SettingsAssumption, Columns, Modes
  <2> QED BY <2>1, <1>2, <1>5
<1>6. CASE \E b \in BOOLEAN : UpdateSettings(d, [appSettings.cols EXCEPT !.open = b])
  <2>1. \A b \in BOOLEAN : [appSettings.cols EXCEPT !.open = b] \in Columns
    BY <1>0 DEF Columns
  <2> QED BY <2>1, <1>2, <1>6
<1>7. CASE \E h \in Hours : UpdateSettings(d, [appSettings.cols EXCEPT !.from = h[1], !.to = h[2]])
  <2>1. \A h \in Hours : h[1] \in Times /\ h[2] \in Times
    BY SettingsAssumption DEF SettingsAssumption, Times
  <2>2. \A h \in Hours : [appSettings.cols EXCEPT !.from = h[1], !.to = h[2]] \in Columns
    BY <1>0, <2>1 DEF Columns
  <2> QED BY <2>2, <1>2, <1>7
<1> QED BY <1>3, <1>4, <1>5, <1>6, <1>7

\* The statements of the requests keep the types.
LEMMA StatementsTyped ==
  ASSUME SettingsTypeOK, NEW d \in Desks,
         \/ PutSetting(d) \/ SelectRow(d) \/ UpdateValue(d) \/ UpdateRow(d)
         \/ SyncStoreSettings(d) \/ DeleteZone(d)
         \/ \E z \in 1..MaxWrites : InsertZone(d, z)
         \/ GetStoreStatus(d) \/ ReadOperationalSettings(d) \/ ReadStoreSettingsRow(d)
         \/ CacheView(d) \/ DeskFails(d)
  PROVE  SettingsTypeOK'
<1>0. /\ clock \in Nat /\ clock \in 0..clock /\ IdleDesk \in DeskUntil(clock)
      /\ desk \in [Desks -> DeskUntil(clock)] /\ desk[d] \in DeskUntil(clock)
      /\ appSettings.cols \in Columns /\ appSettings.tid \in 0..MaxWrites /\ 0 \in 0..MaxWrites
      /\ zone \in 0..MaxWrites /\ MaxWrites \in Nat /\ 0 \in 0..clock
  BY IdleIsTyped, SettingsAssumption DEF SettingsTypeOK, SettingsAssumption, DeskUntil
<1>1. CASE SelectRow(d)
  <2>1. /\ [desk[d] EXCEPT !.at = "set_mode", !.tid = appSettings.tid] \in DeskUntil(clock)
        /\ [desk[d] EXCEPT !.at = "set_row", !.tid = appSettings.tid] \in DeskUntil(clock)
        /\ [desk[d] EXCEPT !.at = "set_value", !.tid = appSettings.tid] \in DeskUntil(clock)
    BY <1>0 DEF DeskUntil, DeskPlaces
  <2>2. desk' \in [Desks -> DeskUntil(clock)]
    BY <1>0, <1>1, <2>1 DEF SelectRow
  <2> QED BY <1>1, <2>2 DEF SelectRow, SettingsTypeOK, DeskUntil
<1>2. CASE UpdateRow(d)
  <2>1. [desk[d] EXCEPT !.at = "sync"] \in DeskUntil(clock)
    BY <1>0 DEF DeskUntil, DeskPlaces
  <2>2. desk' \in [Desks -> DeskUntil(clock)] /\ clock' = clock
    BY <1>0, <1>2, <2>1 DEF UpdateRow
  <2>3. desk[d].cols \in Columns /\ WithMode(appSettings.cols, desk[d].cols.mode) \in Columns
    BY <1>0 DEF DeskUntil, WithMode, Columns
  <2>4. appSettings' \in [cols : Columns, tid : 0..MaxWrites]
    BY <1>0, <1>2, <2>3 DEF UpdateRow, SettingsTypeOK
  <2>5. changedAt' \in 0..clock'
    BY <1>0, <1>2 DEF UpdateRow, SettingsTypeOK
  <2> QED BY <1>2, <2>2, <2>4, <2>5 DEF UpdateRow, SettingsTypeOK, DeskUntil
<1>3. CASE SyncStoreSettings(d)
  <2>1. [IdleDesk EXCEPT !.at = "load", !.since = clock] \in DeskUntil(clock)
    BY <1>0 DEF DeskUntil, DeskPlaces
  <2>2. desk' \in [Desks -> DeskUntil(clock)]
    BY <1>0, <1>3, <2>1 DEF SyncStoreSettings
  <2> QED BY <1>0, <1>3, <2>2, NoViewIsView DEF SyncStoreSettings, SettingsTypeOK, DeskUntil
<1>4. CASE DeleteZone(d)
  <2>1. [IdleDesk EXCEPT !.at = "insert"] \in DeskUntil(clock)
    BY <1>0 DEF DeskUntil, DeskPlaces
  <2>2. desk' \in [Desks -> DeskUntil(clock)]
    BY <1>0, <1>4, <2>1 DEF DeleteZone
  <2> QED BY <1>0, <1>4, <2>2 DEF DeleteZone, SettingsTypeOK, DeskUntil
<1>5. ASSUME NEW z \in 1..MaxWrites, InsertZone(d, z) PROVE SettingsTypeOK'
  <2>1. desk' \in [Desks -> DeskUntil(clock)] /\ z \in 0..MaxWrites
    BY <1>0, <1>5 DEF InsertZone
  <2> QED BY <1>0, <1>5, <2>1 DEF InsertZone, SettingsTypeOK, DeskUntil
<1>6. CASE GetStoreStatus(d)
  <2>1. [IdleDesk EXCEPT !.at = "load", !.since = clock] \in DeskUntil(clock)
    BY <1>0 DEF DeskUntil, DeskPlaces
  <2>2. desk' \in [Desks -> DeskUntil(clock)]
    BY <1>0, <1>6, <2>1 DEF GetStoreStatus
  <2> QED BY <1>6, <2>2 DEF GetStoreStatus, SettingsTypeOK, DeskUntil
<1>7. CASE ReadOperationalSettings(d)
  <2>1. /\ [desk[d] EXCEPT !.at = "load_zone", !.cols = appSettings.cols, !.made = "rows"] \in DeskUntil(clock)
        /\ [desk[d] EXCEPT !.at = "merge", !.made = "defaults"] \in DeskUntil(clock)
    BY <1>0 DEF DeskUntil, DeskPlaces, Origins
  <2>2. desk' \in [Desks -> DeskUntil(clock)]
    BY <1>0, <1>7, <2>1 DEF ReadOperationalSettings
  <2> QED BY <1>7, <2>2 DEF ReadOperationalSettings, SettingsTypeOK, DeskUntil
<1>8. CASE ReadStoreSettingsRow(d)
  <2>1. /\ [desk[d] EXCEPT !.at = "merge", !.zone = zone] \in DeskUntil(clock)
        /\ [desk[d] EXCEPT !.at = "merge", !.made = "defaults"] \in DeskUntil(clock)
    BY <1>0 DEF DeskUntil, DeskPlaces, Origins
  <2>2. desk' \in [Desks -> DeskUntil(clock)]
    BY <1>0, <1>8, <2>1 DEF ReadStoreSettingsRow
  <2> QED BY <1>8, <2>2 DEF ReadStoreSettingsRow, SettingsTypeOK, DeskUntil
<1>9. CASE CacheView(d)
  <2>1. ViewOf(d) \in Views /\ desk[d].since \in 0..clock
    BY <1>0 DEF DeskUntil, ViewOf, Views
  <2>2. desk' \in [Desks -> DeskUntil(clock)]
    BY <1>0, <1>9 DEF CacheView
  <2> QED BY <1>9, <2>1, <2>2 DEF CacheView, SettingsTypeOK, DeskUntil
<1>10. CASE DeskFails(d)
  <2>1. desk' \in [Desks -> DeskUntil(clock)]
    BY <1>0, <1>10 DEF DeskFails
  <2> QED BY <1>10, <2>1 DEF DeskFails, SettingsTypeOK, DeskUntil
<1>11. CASE PutSetting(d)
  <2>1. [IdleDesk EXCEPT !.at = "select_value"] \in DeskUntil(clock)
    BY <1>0 DEF DeskUntil, DeskPlaces
  <2>2. desk' \in [Desks -> DeskUntil(clock)]
    BY <1>0, <1>11, <2>1 DEF PutSetting
  <2> QED BY <1>11, <2>2 DEF PutSetting, SettingsTypeOK, DeskUntil
<1>12. CASE UpdateValue(d)
  <2>1. desk' \in [Desks -> DeskUntil(clock)]
    BY <1>0, <1>12 DEF UpdateValue
  <2>2. appSettings' \in [cols : Columns, tid : 0..MaxWrites]
    BY <1>0, <1>12 DEF UpdateValue, SettingsTypeOK
  <2> QED BY <1>12, <2>1, <2>2 DEF UpdateValue, SettingsTypeOK, DeskUntil
<1> QED BY <1>1, <1>2, <1>3, <1>4, <1>5, <1>6, <1>7, <1>8, <1>9, <1>10, <1>11, <1>12

\* The types survive every step.
LEMMA SettingsTypeStep == SettingsTypeOK /\ [SettingsNext]_settingsVars => SettingsTypeOK'
<1> SUFFICES ASSUME SettingsTypeOK, [SettingsNext]_settingsVars PROVE SettingsTypeOK'
  OBVIOUS
<1>1. ASSUME NEW d \in Desks, DeskStep(d) PROVE SettingsTypeOK'
  BY <1>1, RequestsTyped, StatementsTyped DEF DeskStep
<1>2. CASE Tick
  <2>1. clock \in Nat /\ MaxClock \in Nat /\ clock' = clock + 1 /\ clock' \in 0..MaxClock
    BY <1>2, SettingsAssumption DEF Tick, SettingsTypeOK, SettingsAssumption
  <2>2. \A t \in 0..clock : t \in 0..clock'
    BY <2>1
  <2>3. \A x \in DeskUntil(clock) : x \in DeskUntil(clock')
    BY <2>2 DEF DeskUntil
  <2>4. desk \in [Desks -> DeskUntil(clock')]
    BY <2>3 DEF SettingsTypeOK, DeskUntil
  <2> QED BY <1>2, <2>1, <2>2, <2>4 DEF Tick, SettingsTypeOK, DeskUntil
<1>3. CASE SettingsRestart
  <2>1. clock \in Nat /\ 0 \in 0..clock
    BY SettingsAssumption DEF SettingsTypeOK, SettingsAssumption
  <2>2. desk' \in [Desks -> DeskUntil(clock)]
    BY <1>3, <2>1, IdleIsTyped DEF SettingsRestart
  <2> QED BY <1>3, <2>1, <2>2, NoViewIsView DEF SettingsRestart, SettingsTypeOK, DeskUntil
<1>4. CASE UNCHANGED settingsVars
  BY <1>4 DEF settingsVars, SettingsTypeOK
<1> QED BY <1>1, <1>2, <1>3, <1>4 DEF SettingsNext

\* Every variable of the settings keeps its type.
THEOREM SettingsTypes == SettingsSpec => []SettingsTypeOK
  BY SettingsInitTyped, SettingsTypeStep, PTL DEF SettingsSpec

-----------------------------------------------------------------------------
\* What is behind the rows stays older than their last change.

\* BehindIsOld survives every step.
LEMMA BehindStep ==
  ASSUME SettingsTypeOK, SettingsTypeOK', BehindIsOld, [SettingsNext]_settingsVars
  PROVE  BehindIsOld'
<1>0. /\ desk \in [Desks -> DeskUntil(clock)] /\ clock \in Nat /\ cachedAt \in Nat /\ cachedAt <= clock
      /\ changedAt \in Nat /\ changedAt <= clock
      /\ \A d \in Desks : desk[d].since \in Nat /\ desk[d].since <= clock
  <2>1. clock \in Nat /\ desk \in [Desks -> DeskUntil(clock)]
    BY SettingsAssumption DEF SettingsTypeOK, SettingsAssumption, DeskUntil
  <2>2. \A d \in Desks : desk[d].since \in 0..clock
    BY <2>1 DEF DeskUntil
  <2> QED BY <2>1, <2>2 DEF SettingsTypeOK
\* The cache and the rows stand still; the record of d is harmless afterwards.
<1>1. ASSUME NEW d \in Desks, UNCHANGED <<appSettings, zone, cached, cachedAt, changedAt>>,
             \A e \in Desks : e # d => desk'[e] = desk[e],
             desk'[d].at \notin {"load_zone", "merge"}
      PROVE  BehindIsOld'
  BY <1>1 DEF BehindIsOld, Differs
<1>2. ASSUME NEW d \in Desks, DeskStep(d) PROVE BehindIsOld'
  <2>1. CASE \/ \E m \in ModeChoices : SetAcceptanceMode(d, m)
             \/ ToggleStoreOpen(d)
    <3>1. PICK m : SetAcceptanceMode(d, m)
      BY <2>1 DEF ToggleStoreOpen
    <3>2. desk'[d].at = "select_mode" /\ \A e \in Desks : e # d => desk'[e] = desk[e]
      BY <1>0, <3>1 DEF SetAcceptanceMode, IdleDesk
    <3> QED BY <1>1, <3>1, <3>2 DEF SetAcceptanceMode
  <2>2. CASE \/ \E m \in ModeChoices : UpdateSettings(d, [appSettings.cols EXCEPT !.mode = m])
             \/ \E b \in BOOLEAN : UpdateSettings(d, [appSettings.cols EXCEPT !.open = b])
             \/ \E h \in Hours : UpdateSettings(d, [appSettings.cols EXCEPT !.from = h[1], !.to = h[2]])
    <3>1. PICK c : UpdateSettings(d, c)
      BY <2>2
    <3>2. desk'[d].at = "select_row" /\ \A e \in Desks : e # d => desk'[e] = desk[e]
      BY <1>0, <3>1 DEF UpdateSettings, IdleDesk
    <3> QED BY <1>1, <3>1, <3>2 DEF UpdateSettings
  <2>3. CASE SelectRow(d)
    <3>1. desk'[d].at \in {"set_mode", "set_row", "set_value"} /\ \A e \in Desks : e # d => desk'[e] = desk[e]
      BY <1>0, <2>3 DEF SelectRow, DeskUntil
    <3> QED BY <1>1, <2>3, <3>1 DEF SelectRow
  <2>4. CASE UpdateRow(d)
    <3>1. desk'[d].at = "sync" /\ \A e \in Desks : e # d => desk'[e] = desk[e]
      BY <1>0, <2>4 DEF UpdateRow, DeskUntil
    <3>2. CASE UNCHANGED <<appSettings, changedAt>>
      BY <1>1, <2>4, <3>1, <3>2 DEF UpdateRow
    <3>3. CASE changedAt' = clock
      BY <1>0, <2>4, <3>1, <3>3 DEF UpdateRow, BehindIsOld
    <3> QED BY <2>4, <3>2, <3>3 DEF UpdateRow
  <2>5. CASE SyncStoreSettings(d)
    <3>1. desk'[d].at = "load" /\ \A e \in Desks : e # d => desk'[e] = desk[e]
      BY <1>0, <2>5 DEF SyncStoreSettings, IdleDesk
    <3> QED BY <2>5, <3>1 DEF SyncStoreSettings, BehindIsOld, Differs, NoView
  <2>6. CASE DeleteZone(d)
    <3>1. desk'[d].at = "insert" /\ \A e \in Desks : e # d => desk'[e] = desk[e]
      BY <1>0, <2>6 DEF DeleteZone, IdleDesk
    <3> QED BY <1>0, <2>6, <3>1 DEF DeleteZone, BehindIsOld
  <2>7. ASSUME NEW z \in 1..MaxWrites, InsertZone(d, z) PROVE BehindIsOld'
    <3>1. desk'[d].at = "idle" /\ \A e \in Desks : e # d => desk'[e] = desk[e]
      BY <1>0, <2>7 DEF InsertZone, IdleDesk
    <3> QED BY <1>0, <2>7, <3>1 DEF InsertZone, BehindIsOld
  <2>8. CASE GetStoreStatus(d)
    <3>1. desk'[d].at = "load" /\ \A e \in Desks : e # d => desk'[e] = desk[e]
      BY <1>0, <2>8 DEF GetStoreStatus, IdleDesk
    <3> QED BY <1>1, <2>8, <3>1 DEF GetStoreStatus
  <2>9. CASE ReadOperationalSettings(d)
    <3>1. /\ \A e \in Desks : e # d => desk'[e] = desk[e]
          /\ \/ desk'[d].at = "load_zone" /\ desk'[d].cols = appSettings.cols
             \/ desk'[d].at = "merge" /\ desk'[d].made = "defaults"
      BY <1>0, <2>9 DEF ReadOperationalSettings, DeskUntil
    <3> QED BY <2>9, <3>1 DEF ReadOperationalSettings, BehindIsOld, Differs
  <2>10. CASE ReadStoreSettingsRow(d)
    <3>1. /\ \A e \in Desks : e # d => desk'[e] = desk[e]
          /\ desk'[d].at = "merge" /\ desk'[d].cols = desk[d].cols /\ desk'[d].since = desk[d].since
          /\ desk'[d].zone = zone \/ desk'[d].made = "defaults"
      BY <1>0, <2>10 DEF ReadStoreSettingsRow, DeskUntil
    <3> QED BY <2>10, <3>1 DEF ReadStoreSettingsRow, DeskAt, BehindIsOld, Differs
  <2>11. CASE CacheView(d)
    <3>1. desk'[d].at = "idle" /\ \A e \in Desks : e # d => desk'[e] = desk[e]
      BY <1>0, <2>11 DEF CacheView, IdleDesk
    <3> QED BY <2>11, <3>1 DEF CacheView, ViewOf, DeskAt, BehindIsOld, Differs
  <2>12. CASE DeskFails(d)
    <3>1. desk'[d].at = "idle" /\ \A e \in Desks : e # d => desk'[e] = desk[e]
      BY <1>0, <2>12 DEF DeskFails, IdleDesk
    <3> QED BY <1>1, <2>12, <3>1 DEF DeskFails
  <2>13. CASE PutSetting(d)
    <3>1. desk'[d].at = "select_value" /\ \A e \in Desks : e # d => desk'[e] = desk[e]
      BY <1>0, <2>13 DEF PutSetting, IdleDesk
    <3> QED BY <1>1, <2>13, <3>1 DEF PutSetting
  <2>14. CASE UpdateValue(d)
    <3>1. desk'[d].at = "idle" /\ \A e \in Desks : e # d => desk'[e] = desk[e]
      BY <1>0, <2>14 DEF UpdateValue, IdleDesk
    <3>2. appSettings'.cols = appSettings.cols
      BY <2>14 DEF UpdateValue, SettingsTypeOK
    <3> QED BY <2>14, <3>1, <3>2 DEF UpdateValue, BehindIsOld, Differs
  <2> QED BY <1>2, <2>1, <2>2, <2>3, <2>4, <2>5, <2>6, <2>7, <2>8, <2>9, <2>10, <2>11, <2>12, <2>13, <2>14
          DEF DeskStep
<1>3. CASE Tick
  BY <1>3 DEF Tick, BehindIsOld, Differs
<1>4. CASE SettingsRestart
  BY <1>4 DEF SettingsRestart, BehindIsOld, Differs, NoView, IdleDesk
<1>5. CASE UNCHANGED settingsVars
  BY <1>5 DEF settingsVars, BehindIsOld, Differs
<1> QED BY <1>2, <1>3, <1>4, <1>5 DEF SettingsNext

\* A view that is shown and behind the rows was made of a read that began before
\* they changed, less than a cache life ago.
THEOREM ChangesAreSeen == SettingsSpec => []ChangeIsSeen
<1>1. SettingsInit => BehindIsOld
  BY DEF SettingsInit, BehindIsOld, NoView, IdleDesk
<1>2. SettingsTypeOK /\ BehindIsOld /\ [SettingsNext]_settingsVars => BehindIsOld'
  BY SettingsTypeStep, BehindStep
<1>3. SettingsTypeOK /\ BehindIsOld => ChangeIsSeen
  <2> SUFFICES ASSUME SettingsTypeOK, BehindIsOld, Fresh, cached.from = "rows",
                      Differs(cached.cols, cached.zone)
               PROVE  clock - changedAt < CacheTTL
    BY DEF ChangeIsSeen, Differs
  <2>1. changedAt >= cachedAt /\ clock - cachedAt < CacheTTL
    BY DEF BehindIsOld, Fresh
  <2>2. clock \in Int /\ changedAt \in Int /\ cachedAt \in Int /\ CacheTTL \in Int
    BY SettingsAssumption DEF SettingsTypeOK, SettingsAssumption
  <2> QED BY <2>1, <2>2
<1> QED BY <1>1, <1>2, <1>3, SettingsTypes, PTL DEF SettingsSpec

-----------------------------------------------------------------------------
\* The remainder of a difference of two times of the day.
LEMMA DifferenceOfTimes ==
  ASSUME NEW a \in Times, NEW b \in Times
  PROVE  /\ a >= b => (a - b) % Day = a - b
         /\ a < b  => (a - b) % Day = a - b + Day
<1>1. a \in Int /\ b \in Int /\ Day \in Nat /\ Day > 0 /\ 0 <= a /\ a < Day /\ 0 <= b /\ b < Day
  BY SettingsAssumption DEF SettingsAssumption, Times
<1> QED BY <1>1

\* Comparing the minutes keeps the hours, also past midnight: the store takes
\* orders exactly while it has been open for less time than it stays open.
THEOREM HoursAreKept == SettingsSpec => []HoursKept
<1>1. SettingsTypeOK => HoursKept
  <2> SUFFICES ASSUME SettingsTypeOK PROVE HoursKept
    OBVIOUS
  <2>1. appSettings.cols \in Columns /\ clock \in Nat /\ Day \in Nat /\ Day > 0
    BY SettingsAssumption DEF SettingsTypeOK, SettingsAssumption
  <2>2. Minute \in Times
    BY <2>1 DEF Minute, Times
  <2>3. appSettings.cols.from \in Times /\ appSettings.cols.to \in Times
    BY <2>1 DEF Columns
  <2>4. \A f \in Times, t \in Times, m \in Times :
          WithinHours(f, t, m) <=> (m - f) % Day < (t - f) % Day
    <3> SUFFICES ASSUME NEW f \in Times, NEW t \in Times, NEW m \in Times
                 PROVE  WithinHours(f, t, m) <=> (m - f) % Day < (t - f) % Day
      OBVIOUS
    <3>1. /\ f \in Int /\ t \in Int /\ m \in Int
          /\ 0 <= f /\ f < Day /\ 0 <= t /\ t < Day /\ 0 <= m /\ m < Day
      BY <2>1 DEF Times
    <3>2. /\ m >= f => (m - f) % Day = m - f
          /\ m < f => (m - f) % Day = m - f + Day
          /\ t >= f => (t - f) % Day = t - f
          /\ t < f => (t - f) % Day = t - f + Day
      BY DifferenceOfTimes
    <3> QED BY <2>1, <3>1, <3>2 DEF WithinHours
  <2>5. EffectiveMode(appSettings.cols, Minute) # "not_accepting" <=>
            /\ appSettings.cols.open /\ appSettings.cols.mode # "not_accepting"
            /\ WithinHours(appSettings.cols.from, appSettings.cols.to, Minute)
    BY DEF EffectiveMode
  <2> QED BY <2>2, <2>3, <2>4, <2>5 DEF HoursKept
<1> QED BY <1>1, SettingsTypes, PTL

-----------------------------------------------------------------------------
(* The advice about the capacity. *)

CheckRecords == [at : {"idle", "collect", "latest", "insert"}, advice : Advices, crossed : BOOLEAN]

\* The timer runs exactly while it is set; an evaluation that has something to
\* say says something new, unless it was crossed by another.
TimerRuns == due = debounce
AdviceIsNew == \A w \in Checks :
  /\ check[w].at \in {"latest", "insert"} => check[w].advice # Nothing
  /\ check[w].at = "insert" /\ ~check[w].crossed => check[w].advice # latest.advice

\* An evaluation moves on: its own record, and the mark on the others.
LEMMA CheckMovesEffect ==
  ASSUME CapacityTypeOK, NEW w \in Checks, NEW c \in CheckRecords, CheckMoves(w, c)
  PROVE  /\ check' \in [Checks -> CheckRecords]
         /\ \A v \in Checks : check'[v].at = IF v = w THEN c.at ELSE check[v].at
         /\ c.at # "idle" => check'[w].advice = c.advice /\ (c.crossed => check'[w].crossed)
         /\ \A v \in Checks \ {w} :
              check'[v].advice = check[v].advice /\ (check[v].at # "idle" => check'[v].crossed)
<1>1. Nothing \in Advices /\ IdleCheck \in CheckRecords /\ IdleCheck.at = "idle"
  BY DEF Nothing, Advices, Severities, IdleCheck, CheckRecords
<1>2. \A v \in Checks : check[v] \in CheckRecords
  BY DEF CapacityTypeOK, CheckRecords
<1>3. \A b \in BOOLEAN, x \in CheckRecords :
        /\ [x EXCEPT !.crossed = b] \in CheckRecords /\ [x EXCEPT !.crossed = b].at = x.at
        /\ [x EXCEPT !.crossed = b].advice = x.advice /\ [x EXCEPT !.crossed = b].crossed = b
  BY DEF CheckRecords
<1> DEFINE others == {v \in Checks \ {w} : check[v].at # "idle"}
<1>4. c.crossed \in BOOLEAN /\ (c.crossed \/ others # {}) \in BOOLEAN
  BY DEF CheckRecords
<1>5. /\ check' = [v \in Checks |->
            IF v = w THEN IF c.at = "idle" THEN IdleCheck
                          ELSE [c EXCEPT !.crossed = c.crossed \/ others # {}]
            ELSE IF v \in others THEN [check[v] EXCEPT !.crossed = TRUE] ELSE check[v]]
  BY DEF CheckMoves
<1>6. check'[w] = IF c.at = "idle" THEN IdleCheck ELSE [c EXCEPT !.crossed = c.crossed \/ others # {}]
  BY <1>5
<1>7. \A v \in Checks \ {w} : check'[v] = IF v \in others THEN [check[v] EXCEPT !.crossed = TRUE] ELSE check[v]
  BY <1>5
<1>8. check'[w] \in CheckRecords /\ check'[w].at = c.at
      /\ (c.at # "idle" => check'[w].advice = c.advice /\ (c.crossed => check'[w].crossed))
  BY ZenonT(120), <1>1, <1>3, <1>4, <1>6
<1>9. \A v \in Checks \ {w} :
        /\ check'[v] \in CheckRecords /\ check'[v].at = check[v].at
        /\ check'[v].advice = check[v].advice /\ (check[v].at # "idle" => check'[v].crossed)
  BY ZenonT(120), <1>2, <1>3, <1>7
<1> QED BY <1>5, <1>8, <1>9

\* What is evaluated is an advice.
LEMMA EvaluateTyped ==
  ASSUME NEW s \in Signals, NEW g \in BOOLEAN, NEW m
  PROVE  Evaluate(s, g, m) \in Advices
<1>1. LimitedTriggers(s, g) \in SUBSET Reasons
  BY DEF LimitedTriggers
<1>2. Severity(LimitedTriggers(s, g), s) \in Severities
  BY DEF Severity, Severities
<1> QED BY <1>1, <1>2 DEF Evaluate, Advices, Suggestable, Nothing, Severities

\* Every variable of the capacity advice keeps its type.
LEMMA CapacityTypeInit == CapacityInit => CapacityTypeOK
<1> SUFFICES ASSUME CapacityInit PROVE CapacityTypeOK
  OBVIOUS
<1>1. Nothing \in Advices /\ IdleCheck \in CheckRecords
  BY DEF Nothing, Advices, Severities, IdleCheck, CheckRecords
<1>2. NoAdvice \in Rows
  BY <1>1, CapacityAssumption DEF NoAdvice, Rows, CapacityAssumption
<1> QED BY <1>1, <1>2 DEF CapacityInit, CapacityTypeOK, AllModes, CheckRecords

\* The steps of an evaluation, as moves of its record.
LEMMA CheckStepMoves ==
  ASSUME CapacityTypeOK, NEW w \in Checks, CheckStep(w)
  PROVE  \E c \in CheckRecords : CheckMoves(w, c)
<1>1. /\ check[w] \in CheckRecords /\ Nothing \in Advices /\ IdleCheck \in CheckRecords
      /\ [IdleCheck EXCEPT !.at = "collect"] \in CheckRecords
      /\ [check[w] EXCEPT !.at = "insert"] \in CheckRecords
  BY DEF CapacityTypeOK, CheckRecords, IdleCheck, Nothing, Advices, Severities
<1>2. ASSUME NEW s \in Signals, CollectSignals(w, s) PROVE \E c \in CheckRecords : CheckMoves(w, c)
  <2> DEFINE advice == Evaluate(s, QueueGrowing(s), storeMode)
  <2>1. advice \in Advices
    BY EvaluateTyped DEF QueueGrowing
  <2>2. [check[w] EXCEPT !.at = "latest", !.advice = advice] \in CheckRecords
    BY <1>1, <2>1 DEF CheckRecords
  <2> QED BY <1>1, <1>2, <2>2 DEF CollectSignals
<1> QED BY <1>1, <1>2 DEF CheckStep, DebounceFires, MonitorTick, ReadLatest, PersistSuggestion, CheckFails

LEMMA CapacityTypeStep == CapacityTypeOK /\ [CapacityNext]_capacityVars => CapacityTypeOK'
<1> SUFFICES ASSUME CapacityTypeOK, [CapacityNext]_capacityVars PROVE CapacityTypeOK'
  OBVIOUS
<1>1. ASSUME NEW w \in Checks, CheckStep(w) PROVE CapacityTypeOK'
  <2>1. check' \in [Checks -> CheckRecords]
    BY <1>1, CheckStepMoves, CheckMovesEffect
  <2>2. snapshot' \subseteq Counts
    BY <1>1 DEF CheckStep, DebounceFires, MonitorTick, CollectSignals, ReadLatest, PersistSuggestion, CheckFails,
                CapacityTypeOK, Signals
  <2>3. latest' \in Rows
    <3>1. check[w].advice \in Advices /\ latest \in Rows /\ MaxRows \in Nat
      BY CapacityAssumption DEF CapacityTypeOK, CheckRecords, CapacityAssumption
    <3>2. CASE latest' = latest
      BY <3>1, <3>2
    <3>3. CASE PersistSuggestion(w)
      <4>1. latest.id + 1 \in 0..MaxRows
        BY <3>1, <3>3 DEF PersistSuggestion, Rows
      <4> QED BY <3>1, <3>3, <4>1 DEF PersistSuggestion, Rows
    <3> QED BY <1>1, <3>2, <3>3 DEF CheckStep, DebounceFires, MonitorTick, CollectSignals, ReadLatest, CheckFails
  <2>4. storeMode' = storeMode /\ debounce' \in BOOLEAN /\ due' \in BOOLEAN /\ unseen' \in BOOLEAN
    BY <1>1 DEF CheckStep, DebounceFires, MonitorTick, CollectSignals, ReadLatest, PersistSuggestion, CheckFails,
                CapacityTypeOK
  <2> QED BY <2>1, <2>2, <2>3, <2>4 DEF CapacityTypeOK, CheckRecords
<1>2. ASSUME NEW m \in AllModes, CapacityEvent(m) PROVE CapacityTypeOK'
  BY <1>2 DEF CapacityEvent, CapacityTypeOK
<1>3. ASSUME NEW queue \in Counts, GetActiveSuggestion(queue) PROVE CapacityTypeOK'
  BY <1>3 DEF GetActiveSuggestion, CapacityTypeOK
<1>4. CASE Dismiss \/ DismissalEnds \/ SnapshotExpires
  BY <1>4 DEF Dismiss, DismissalEnds, SnapshotExpires, CapacityTypeOK, Rows
<1>5. CASE UNCHANGED capacityVars
  BY <1>5 DEF capacityVars, CapacityTypeOK
<1> QED BY <1>1, <1>2, <1>3, <1>4, <1>5 DEF CapacityNext

\* An event waits for a timer that runs or an evaluation that has yet to look.
LEMMA EventStep ==
  ASSUME CapacityTypeOK, TimerRuns, EventIsLookedAt, [CapacityNext]_capacityVars
  PROVE  TimerRuns' /\ EventIsLookedAt'
<1>1. ASSUME NEW w \in Checks, CheckStep(w) PROVE TimerRuns' /\ EventIsLookedAt'
  <2>0. IdleCheck \in CheckRecords /\ [IdleCheck EXCEPT !.at = "collect"] \in CheckRecords
        /\ [IdleCheck EXCEPT !.at = "collect"].at = "collect"
    BY DEF CheckRecords, IdleCheck, Nothing, Advices, Severities
  <2>1. CASE DebounceFires(w) \/ MonitorTick(w)
    <3>1. check'[w].at = "collect"
      BY <2>0, <2>1, CheckMovesEffect DEF DebounceFires, MonitorTick
    <3> QED BY <2>1, <3>1 DEF DebounceFires, MonitorTick, TimerRuns, EventIsLookedAt
  <2>2. CASE \E s \in Signals : CollectSignals(w, s)
    BY <2>2 DEF CollectSignals, TimerRuns, EventIsLookedAt
  <2>3. CASE ReadLatest(w) \/ PersistSuggestion(w) \/ CheckFails(w)
    <3>1. check[w].at # "collect" => \A v \in Checks : check[v].at = "collect" => check'[v].at = "collect"
      BY <1>1, CheckStepMoves, CheckMovesEffect
    <3>2. debounce' = debounce /\ due' = due
      BY <2>3 DEF ReadLatest, PersistSuggestion, CheckFails
    <3>3. unseen' => unseen /\ check[w].at # "collect"
      BY <2>3 DEF ReadLatest, PersistSuggestion, CheckFails
    <3>4. unseen' => due' \/ \E v \in Checks : check'[v].at = "collect"
      BY <3>1, <3>2, <3>3 DEF EventIsLookedAt
    <3> QED BY <3>2, <3>4 DEF TimerRuns, EventIsLookedAt
  <2> QED BY <1>1, <2>1, <2>2, <2>3 DEF CheckStep
<1>2. ASSUME NEW m \in AllModes, CapacityEvent(m) PROVE TimerRuns' /\ EventIsLookedAt'
  BY <1>2 DEF CapacityEvent, TimerRuns, EventIsLookedAt, CapacityTypeOK
<1>3. ASSUME NEW queue \in Counts, GetActiveSuggestion(queue) PROVE TimerRuns' /\ EventIsLookedAt'
  BY <1>3 DEF GetActiveSuggestion, TimerRuns, EventIsLookedAt
<1>4. CASE Dismiss \/ DismissalEnds \/ SnapshotExpires
  BY <1>4 DEF Dismiss, DismissalEnds, SnapshotExpires, TimerRuns, EventIsLookedAt
<1>5. CASE UNCHANGED capacityVars
  BY <1>5 DEF capacityVars, TimerRuns, EventIsLookedAt
<1> QED BY <1>1, <1>2, <1>3, <1>4, <1>5 DEF CapacityNext

\* What an evaluation is about to insert stays new until another is inserted.
LEMMA AdviceStep ==
  ASSUME CapacityTypeOK, AdviceIsNew, [CapacityNext]_capacityVars
  PROVE  AdviceIsNew'
<1>0. \A w \in Checks : check[w] \in CheckRecords /\ check[w].crossed \in BOOLEAN
  BY DEF CapacityTypeOK, CheckRecords
\* The record of w stays new; those of others are as they were, or crossed.
<1>a. ASSUME NEW w \in Checks, NEW c \in CheckRecords, CheckMoves(w, c),
             latest' = latest \/ \A v \in Checks \ {w} : check[v].at # "idle" => check'[v].crossed,
             c.at \in {"latest", "insert"} => c.advice # Nothing,
             c.at = "insert" /\ ~c.crossed => c.advice # latest'.advice
      PROVE  AdviceIsNew'
  <2>1. ASSUME NEW v \in Checks \ {w} PROVE
             /\ check'[v].at \in {"latest", "insert"} => check'[v].advice # Nothing
             /\ check'[v].at = "insert" /\ ~check'[v].crossed => check'[v].advice # latest'.advice
    BY <1>a, CheckMovesEffect DEF AdviceIsNew
  <2>2. /\ check'[w].at \in {"latest", "insert"} => check'[w].advice # Nothing
        /\ check'[w].at = "insert" /\ ~check'[w].crossed => check'[w].advice # latest'.advice
    BY <1>a, CheckMovesEffect
  <2> QED BY <2>1, <2>2 DEF AdviceIsNew
<1>i. /\ IdleCheck \in CheckRecords /\ IdleCheck.at = "idle"
      /\ [IdleCheck EXCEPT !.at = "collect"] \in CheckRecords
      /\ [IdleCheck EXCEPT !.at = "collect"].at = "collect"
  BY DEF CheckRecords, IdleCheck, Nothing, Advices, Severities
<1>1. ASSUME NEW w \in Checks, DebounceFires(w) \/ MonitorTick(w) PROVE AdviceIsNew'
  BY <1>1, <1>a, <1>i DEF DebounceFires, MonitorTick
<1>2. ASSUME NEW w \in Checks, NEW s \in Signals, CollectSignals(w, s) PROVE AdviceIsNew'
  <2> DEFINE advice == Evaluate(s, QueueGrowing(s), storeMode)
             c == [check[w] EXCEPT !.at = "latest", !.advice = advice]
  <2>1. advice \in Advices
    BY EvaluateTyped DEF QueueGrowing
  <2>2. c \in CheckRecords /\ c.at = "latest" /\ c.advice = advice
    BY <1>0, <2>1 DEF CheckRecords
  <2>3. CASE advice = Nothing
    BY <1>2, <1>a, <1>i, <2>3 DEF CollectSignals
  <2>4. CASE advice # Nothing
    <3> HIDE DEF advice
    <3>1. CheckMoves(w, c) /\ latest' = latest
      BY <1>2, <2>4 DEF CollectSignals, advice
    <3> HIDE DEF c
    <3> QED BY <1>a, <2>2, <2>4, <3>1
  <2> QED BY <2>3, <2>4
<1>3. ASSUME NEW w \in Checks, ReadLatest(w) PROVE AdviceIsNew'
  <2> DEFINE c == [check[w] EXCEPT !.at = "insert"]
  <2>1. c \in CheckRecords /\ c.at = "insert" /\ c.advice = check[w].advice
    BY <1>0 DEF CheckRecords
  <2>2. check[w].advice # Nothing
    BY <1>3 DEF ReadLatest, AdviceIsNew
  <2>3. CASE ~Suppressed(latest, check[w].advice) /\ ShouldPersist(latest, check[w].advice)
    <3>1. check[w].advice # latest.advice
      BY <2>2, <2>3 DEF Suppressed, ShouldPersist, NoAdvice
    <3>2. CheckMoves(w, c) /\ latest' = latest
      BY <1>3, <2>3 DEF ReadLatest
    <3> HIDE DEF c
    <3> QED BY <1>a, <2>1, <2>2, <3>1, <3>2
  <2>4. CASE ~(~Suppressed(latest, check[w].advice) /\ ShouldPersist(latest, check[w].advice))
    BY <1>3, <1>a, <1>i, <2>4 DEF ReadLatest
  <2> QED BY <2>3, <2>4
<1>4. ASSUME NEW w \in Checks, PersistSuggestion(w) PROVE AdviceIsNew'
  <2>1. CheckMoves(w, IdleCheck)
    BY <1>4 DEF PersistSuggestion
  <2>2. \A v \in Checks \ {w} : check[v].at # "idle" => check'[v].crossed
    BY <1>i, <2>1, CheckMovesEffect
  <2> QED BY <1>a, <1>i, <2>1, <2>2
<1>5. ASSUME NEW w \in Checks, CheckFails(w) PROVE AdviceIsNew'
  BY <1>5, <1>a, <1>i DEF CheckFails
<1>6. CASE \/ \E m \in AllModes : CapacityEvent(m)
           \/ \E queue \in Counts : GetActiveSuggestion(queue)
           \/ SnapshotExpires \/ UNCHANGED capacityVars
  BY <1>6 DEF CapacityEvent, GetActiveSuggestion, SnapshotExpires, capacityVars, AdviceIsNew
<1>7. CASE Dismiss \/ DismissalEnds
  <2>1. check' = check /\ latest'.advice = latest.advice
    BY <1>7 DEF Dismiss, DismissalEnds, CapacityTypeOK, Rows
  <2> QED BY <2>1 DEF AdviceIsNew
<1> QED BY <1>1, <1>2, <1>3, <1>4, <1>5, <1>6, <1>7 DEF CapacityNext, CheckStep

\* Every variable of the capacity advice keeps its type.
THEOREM CapacityTypes == CapacitySpec => []CapacityTypeOK
  BY CapacityTypeInit, CapacityTypeStep, PTL DEF CapacitySpec

\* No event of any number of evaluations at once goes unseen.
THEOREM EventsAreLookedAt == CapacitySpec => []EventIsLookedAt
<1>1. CapacityInit => CapacityTypeOK /\ TimerRuns /\ EventIsLookedAt
  BY CapacityTypeInit DEF CapacityInit, TimerRuns, EventIsLookedAt
<1>2. CapacityTypeOK /\ TimerRuns /\ EventIsLookedAt /\ [CapacityNext]_capacityVars
        => (CapacityTypeOK /\ TimerRuns /\ EventIsLookedAt)'
  BY CapacityTypeStep, EventStep
<1> QED BY <1>1, <1>2, PTL DEF CapacitySpec

\* A step that inserts a row gives another advice than the row before it, or is
\* of an evaluation that another one crossed.
THEOREM AdviceIsNotRepeated == CapacitySpec => NoRepeatedAdvice
<1> DEFINE NewOrCrossed == latest'.id # latest.id =>
             \/ latest'.advice # latest.advice
             \/ \E w \in Checks : check[w].at = "insert" /\ check[w].crossed
<1>1. CapacityInit => CapacityTypeOK /\ AdviceIsNew
  BY CapacityTypeInit DEF CapacityInit, AdviceIsNew, IdleCheck
<1>2. CapacityTypeOK /\ AdviceIsNew /\ [CapacityNext]_capacityVars => (CapacityTypeOK /\ AdviceIsNew)'
  BY CapacityTypeStep, AdviceStep
<1>3. CapacityTypeOK /\ AdviceIsNew /\ [CapacityNext]_capacityVars => [NewOrCrossed]_capacityVars
  <2> SUFFICES ASSUME CapacityTypeOK, AdviceIsNew, CapacityNext, latest'.id # latest.id PROVE NewOrCrossed
    BY DEF capacityVars
  <2>1. PICK w \in Checks : PersistSuggestion(w)
    BY DEF CapacityNext, CheckStep, CapacityEvent, DebounceFires, MonitorTick, CollectSignals, ReadLatest,
           CheckFails, GetActiveSuggestion, Dismiss, DismissalEnds, SnapshotExpires, CapacityTypeOK, Rows
  <2> QED BY <2>1 DEF PersistSuggestion, AdviceIsNew, CapacityTypeOK, CheckRecords
<1> QED BY <1>1, <1>2, <1>3, PTL DEF CapacitySpec, NoRepeatedAdvice

-----------------------------------------------------------------------------
(* Packing. *)

\* Division rounds down.
LEMMA Divides ==
  ASSUME NEW a \in Int, NEW c \in Nat \ {0}
  PROVE  a \div c \in Int /\ (a \div c) * c <= a /\ a < (a \div c) * c + c
OBVIOUS

\* The units that cover g grams, where x of them would: no more than x, and they
\* do cover them.
LEMMA RoundedUp ==
  ASSUME NEW g \in Nat, NEW c \in Nat \ {0}, NEW x \in Nat, g <= x * c
  PROVE  /\ (g + c - 1) \div c \in Nat
         /\ g <= ((g + c - 1) \div c) * c
         /\ (g + c - 1) \div c <= x
<1> DEFINE q == (g + c - 1) \div c
<1>1. q \in Int /\ q * c <= g + c - 1 /\ g + c - 1 < q * c + c
  BY Divides
<1> HIDE DEF q
<1>2. g <= q * c
  BY <1>1
<1>3. q <= x
  <2> SUFFICES ASSUME q >= x + 1 PROVE FALSE
    BY <1>1
  <2>1. q * c >= (x + 1) * c
    BY <1>1
  <2>2. (x + 1) * c = x * c + c
    OBVIOUS
  <2> QED BY <1>1, <2>1, <2>2
<1>4. q >= 0
  <2> SUFFICES ASSUME q <= -1 PROVE FALSE
    BY <1>1
  <2>1. q * c <= -1 * c
    BY <1>1
  <2> QED BY <1>1, <2>1
<1> QED BY <1>1, <1>2, <1>3, <1>4 DEF q

\* A line that is reconciled with available grams in the next cut takes no more
\* than those, and is made good.
LEMMA ReconciledLine ==
  ASSUME NEW ordered \in Nat \ {0}, NEW w \in Nat, NEW available \in Nat, NEW r,
         r = Reconcile(ordered, w, available)
  PROVE  /\ r \in Weighed
         /\ r.supplement <= available
         /\ r.actual + r.supplement + r.refund >= ordered - Tolerance
         /\ r.supplement + r.refund > 0 => r.actual + r.supplement + r.refund = ordered
  BY PackingAssumption DEF PackingAssumption, Reconcile, Weighed, LineActions

\* Whatever the stock x, the units a line takes are a number.
LEMMA DeductionIsInt ==
  ASSUME NEW ordered \in Nat \ {0}, NEW w \in Nat, NEW x \in Int
  PROVE  Deduction(Reconcile(ordered, w, x * Cut).supplement) \in Int
<1>1. Cut \in Nat \ {0} /\ Tolerance \in Nat
  BY PackingAssumption DEF PackingAssumption
<1>2. x * Cut \in Int
  BY <1>1
<1> DEFINE g == Reconcile(ordered, w, x * Cut).supplement
<1>3. g \in Int
  BY <1>1, <1>2 DEF Reconcile
<1> HIDE DEF g
<1>4. g + Cut - 1 \in Int
  BY <1>1, <1>3
<1>5. Deduction(g) \in Int
  BY <1>1, <1>4, Divides DEF Deduction
<1> QED BY <1>5 DEF g

\* The lines of an order.
LEMMA OrderedLines ==
  ASSUME NEW o \in Trays
  PROVE  Len(Ordered[o]) \in Nat /\ \A i \in 1..Len(Ordered[o]) : Ordered[o][i] \in Nat \ {0}
  BY PackingAssumption DEF PackingAssumption

\* The stock after each line is what its recursion says.
LEMMA StockAfterRuns ==
  ASSUME NEW o \in Trays, NEW ws \in [1..Len(Ordered[o]) -> Nat], NEW start \in Nat, NEW left,
         left = StockAfter(o, ws, start)
  PROVE  /\ left \in [0..Len(Ordered[o]) -> Int]
         /\ left[0] = start
         /\ \A i \in 1..Len(Ordered[o]) :
              left[i] = left[i - 1]
                        - Deduction(Reconcile(Ordered[o][i], ws[i], left[i - 1] * Cut).supplement)
<1> DEFINE N == Len(Ordered[o])
           u(i, x) == x - Deduction(Reconcile(Ordered[o][i], ws[i], x * Cut).supplement)
           d == [i \in 1..N |-> [x \in Int |-> u(i, x)]]
<1>1. N \in Nat /\ \A i \in 1..N : Ordered[o][i] \in Nat \ {0} /\ ws[i] \in Nat
  BY OrderedLines
<1>2. \A i \in 1..N, x \in Int : u(i, x) \in Int
  <2> SUFFICES ASSUME NEW i \in 1..N, NEW x \in Int PROVE u(i, x) \in Int
    OBVIOUS
  <2>1. Deduction(Reconcile(Ordered[o][i], ws[i], x * Cut).supplement) \in Int
    BY <1>1, DeductionIsInt
  <2> QED BY <2>1
<1>3. left = CHOOSE f : f = [i \in 0..N |-> IF i = 0 THEN start ELSE u(i, f[i - 1])]
  BY DEF StockAfter
<1> HIDE DEF N, u
<1>4. d \in [1..N -> [Int -> Int]]
  BY <1>2
<1>5. \E f \in [0..N -> Int] : f = [i \in 0..N |-> IF i = 0 THEN start ELSE d[i][f[i - 1]]]
  <2> HIDE DEF d
  <2>1. start \in Int /\ N \in Nat
    BY <1>1
  <2> QED BY ZenonT(60), <1>4, <2>1, RecursionExistsInt
<1>6. PICK f \in [0..N -> Int] : f = [i \in 0..N |-> IF i = 0 THEN start ELSE d[i][f[i - 1]]]
  BY <1>5
<1>7. f = [i \in 0..N |-> IF i = 0 THEN start ELSE u(i, f[i - 1])]
  <2>1. \A i \in 0..N : i # 0 => i \in 1..N /\ i - 1 \in 0..N
    BY <1>1
  <2>2. \A i \in 0..N : i # 0 => d[i][f[i - 1]] = u(i, f[i - 1])
    BY <2>1, <1>6
  <2>3. f = [i \in 0..N |-> f[i]]
    BY <1>6
  <2>4. \A i \in 0..N : f[i] = IF i = 0 THEN start ELSE u(i, f[i - 1])
    BY <1>6, <2>2
  <2> QED BY <2>3, <2>4
<1>8. left = [i \in 0..N |-> IF i = 0 THEN start ELSE u(i, left[i - 1])]
  BY <1>3, <1>7
<1>9. \A i \in 1..N : i \in 0..N /\ i # 0
  BY <1>1
<1>10. left[0] = start /\ \A i \in 1..N : left[i] = u(i, left[i - 1])
  BY <1>1, <1>8, <1>9
<1>11. \A i \in 1..N : left[i - 1] \in Int => left[i] = d[i][left[i - 1]]
  BY <1>10
<1>12. \A n \in 0..N : left[n] \in Int
  <2> HIDE DEF d
  <2>1. start \in Int /\ N \in Nat
    BY <1>1
  <2> QED BY ZenonT(60), <1>4, <1>10, <1>11, <2>1, RunsThroughInt
<1>13. left \in [0..N -> Int]
  BY <1>8, <1>12
<1> QED BY <1>10, <1>13 DEF N, u

\* The stock never goes below zero nor up, and a line takes at least the units
\* for the grams put on top of it.
LEMMA StockAfterFalls ==
  ASSUME NEW o \in Trays, NEW ws \in [1..Len(Ordered[o]) -> Nat], NEW start \in Nat, NEW left,
         left = StockAfter(o, ws, start)
  PROVE  /\ \A i \in 0..Len(Ordered[o]) : left[i] \in Nat /\ left[i] <= start
         /\ left[0] = start
         /\ \A i \in 1..Len(Ordered[o]) :
              Reconcile(Ordered[o][i], ws[i], left[i - 1] * Cut).supplement
                <= (left[i - 1] - left[i]) * Cut
<1> DEFINE N == Len(Ordered[o])
           r(i) == Reconcile(Ordered[o][i], ws[i], left[i - 1] * Cut)
<1>1. N \in Nat /\ Cut \in Nat \ {0} /\ \A i \in 1..N : Ordered[o][i] \in Nat \ {0} /\ ws[i] \in Nat
  BY OrderedLines, PackingAssumption DEF PackingAssumption
<1>2. /\ left \in [0..N -> Int]
      /\ left[0] = start
      /\ \A i \in 1..N : left[i] = left[i - 1] - Deduction(r(i).supplement)
  BY StockAfterRuns
<1>3. ASSUME NEW i \in 1..N, left[i - 1] \in Nat
      PROVE  /\ left[i] \in Nat /\ left[i] <= left[i - 1]
             /\ r(i).supplement <= (left[i - 1] - left[i]) * Cut
  <2> DEFINE x == left[i - 1]
             g == r(i).supplement
  <2>1. x * Cut \in Nat
    BY <1>1, <1>3
  <2>2. r(i) \in Weighed /\ g <= x * Cut
    BY <1>1, <2>1, ReconciledLine
  <2>3. g \in Nat
    BY <2>2 DEF Weighed
  <2>4. left[i] = x - Deduction(g)
    BY <1>2
  <2> HIDE DEF g
  <2>5. Deduction(g) \in Nat /\ g <= Deduction(g) * Cut /\ Deduction(g) <= x
    BY <1>1, <1>3, <2>2, <2>3, RoundedUp DEF Deduction
  <2>6. x - (x - Deduction(g)) = Deduction(g)
    BY <1>3, <2>5
  <2> QED BY <1>3, <2>4, <2>5, <2>6 DEF g
<1> HIDE DEF r
<1> DEFINE T == {n \in Nat : n <= N => left[n] \in Nat /\ left[n] <= start}
<1>4. 0 \in T
  BY <1>2
<1>5. ASSUME NEW n \in T PROVE n + 1 \in T
  <2>1. CASE n + 1 <= N
    <3>1. left[n] \in Nat /\ left[n] <= start /\ n + 1 \in 1..N /\ n + 1 - 1 = n
      BY <1>1, <2>1
    <3>2. left[n + 1] \in Nat /\ left[n + 1] <= left[n]
      BY <1>3, <3>1
    <3> QED BY <3>1, <3>2
  <2> QED BY <2>1
<1>6. T = Nat
  <2>1. T \in SUBSET Nat
    OBVIOUS
  <2> HIDE DEF T
  <2> QED BY <1>4, <1>5, <2>1, SetInduction
<1>7. \A i \in 0..N : left[i] \in Nat /\ left[i] <= start
  BY <1>1, <1>6
<1>8. \A i \in 1..N : i - 1 \in 0..N
  BY <1>1
<1>9. \A i \in 1..N : r(i).supplement <= (left[i - 1] - left[i]) * Cut
  BY <1>3, <1>7, <1>8
<1> QED BY <1>2, <1>7, <1>9 DEF r

-----------------------------------------------------------------------------
\* What was put on top of the lines of an order is the sum it says.
LEMMA SupplementsRun ==
  ASSUME NEW n \in Nat, NEW ls \in [1..n -> Weighed]
  PROVE  \E sum \in [0..n -> Int] :
           /\ sum[0] = 0
           /\ \A i \in 1..n : sum[i] = sum[i - 1] + ls[i].supplement
           /\ Supplements(ls) = sum[n]
<1> DEFINE d == [i \in 1..n |-> [x \in Int |-> x + ls[i].supplement]]
           sum == CHOOSE f : f = [i \in 0..n |-> IF i = 0 THEN 0 ELSE f[i - 1] + ls[i].supplement]
<1>1. Len(ls) = n
  OBVIOUS
<1>2. Supplements(ls) = sum[n]
  BY <1>1 DEF Supplements
<1>3. \A i \in 1..n : ls[i].supplement \in Nat
  BY DEF Weighed
<1>4. d \in [1..n -> [Int -> Int]]
  BY <1>3
<1>5. PICK f \in [0..n -> Int] : f = [i \in 0..n |-> IF i = 0 THEN 0 ELSE d[i][f[i - 1]]]
  <2> HIDE DEF d
  <2>1. 0 \in Int
    OBVIOUS
  <2> QED BY <1>4, <2>1, RecursionExistsInt
<1>6. f = [i \in 0..n |-> IF i = 0 THEN 0 ELSE f[i - 1] + ls[i].supplement]
  <2>1. \A i \in 0..n : i # 0 => i \in 1..n /\ i - 1 \in 0..n
    OBVIOUS
  <2>2. \A i \in 0..n : i # 0 => d[i][f[i - 1]] = f[i - 1] + ls[i].supplement
    BY <2>1, <1>5
  <2>3. f = [i \in 0..n |-> f[i]]
    BY <1>5
  <2>4. \A i \in 0..n : f[i] = IF i = 0 THEN 0 ELSE f[i - 1] + ls[i].supplement
    BY <1>5, <2>2
  <2> QED BY <2>3, <2>4
<1>7. sum = [i \in 0..n |-> IF i = 0 THEN 0 ELSE sum[i - 1] + ls[i].supplement]
  BY <1>6
<1> HIDE DEF sum
<1>8. sum \in [0..n -> Int]
  <2>1. \A i \in 1..n : i \in 0..n /\ i # 0
    OBVIOUS
  <2>2. /\ sum[0] = 0
        /\ \A i \in 1..n : sum[i] = sum[i - 1] + ls[i].supplement
    BY <1>7, <2>1
  <2>3. \A i \in 1..n : sum[i - 1] \in Int => sum[i] = d[i][sum[i - 1]]
    BY <2>2
  <2>4. \A i \in 0..n : sum[i] \in Int
    <3> HIDE DEF d
    <3>1. 0 \in Int
      OBVIOUS
    <3> QED BY <1>4, <2>2, <2>3, <3>1, RunsThroughInt
  <2> QED BY <1>7, <2>4
<1>9. sum[0] = 0 /\ \A i \in 1..n : sum[i] = sum[i - 1] + ls[i].supplement
  BY <1>7
<1> QED BY <1>2, <1>8, <1>9

\* What was put on top is a number, and where every line is covered by what is
\* taken from left, so are all of them.
LEMMA SupplementsCovered ==
  ASSUME NEW n \in Nat, NEW ls \in [1..n -> Weighed], NEW c \in Nat, NEW left,
         \A i \in 0..n : left[i] \in Int,
         \A i \in 1..n : ls[i].supplement <= (left[i - 1] - left[i]) * c
  PROVE  Supplements(ls) \in Nat /\ Supplements(ls) <= (left[0] - left[n]) * c
<1>1. PICK sum \in [0..n -> Int] :
        /\ sum[0] = 0
        /\ \A i \in 1..n : sum[i] = sum[i - 1] + ls[i].supplement
        /\ Supplements(ls) = sum[n]
  BY SupplementsRun
<1>2. \A i \in 1..n : ls[i].supplement \in Nat
  BY DEF Weighed
<1> DEFINE P(m) == sum[m] >= 0 /\ sum[m] <= (left[0] - left[m]) * c
<1>3. P(0)
  <2>1. 0 \in 0..n /\ left[0] \in Int
    OBVIOUS
  <2>2. (left[0] - left[0]) * c = 0
    BY <2>1
  <2> QED BY <1>1, <2>2
<1>4. ASSUME NEW m \in Nat, m + 1 <= n, P(m) PROVE P(m + 1)
  <2>1. m \in 0..n /\ 0 \in 0..n /\ m + 1 \in 0..n /\ m + 1 \in 1..n /\ m + 1 - 1 = m
    BY <1>4
  <2>2. sum[m] \in Int /\ left[0] \in Int /\ left[m] \in Int /\ left[m + 1] \in Int
    BY <1>1, <2>1
  <2>3. sum[m + 1] = sum[m] + ls[m + 1].supplement
    BY <1>1, <2>1
  <2>4. ls[m + 1].supplement \in Nat /\ ls[m + 1].supplement <= (left[m] - left[m + 1]) * c
    BY <1>2, <2>1
  <2>5. (left[0] - left[m]) * c + (left[m] - left[m + 1]) * c = (left[0] - left[m + 1]) * c
    BY <2>2
  <2>6. (left[0] - left[m]) * c \in Int /\ (left[m] - left[m + 1]) * c \in Int
    BY SMTT(60), <2>2
  <2> DEFINE p == (left[0] - left[m]) * c
             q == (left[m] - left[m + 1]) * c
             r == (left[0] - left[m + 1]) * c
  <2>7. p \in Int /\ q \in Int /\ p + q = r
    BY <2>5, <2>6
  <2>8. sum[m] >= 0 /\ sum[m] <= p /\ ls[m + 1].supplement <= q
    BY <1>4, <2>4
  <2> HIDE DEF p, q, r
  <2>9. sum[m + 1] >= 0 /\ sum[m + 1] <= r
    <3>1. /\ sum[m] \in Int /\ ls[m + 1].supplement \in Nat /\ p \in Int /\ q \in Int /\ r = p + q
          /\ sum[m] >= 0 /\ sum[m] <= p /\ ls[m + 1].supplement <= q
          /\ sum[m + 1] = sum[m] + ls[m + 1].supplement
      BY <2>2, <2>3, <2>4, <2>7, <2>8
    <3> QED BY SMTT(60), <3>1
  <2> QED BY <2>9 DEF r
<1> HIDE DEF P
<1> DEFINE T == {m \in Nat : m <= n => P(m)}
<1>5. 0 \in T
  BY <1>3
<1>6. ASSUME NEW m \in T PROVE m + 1 \in T
  <2>1. m + 1 <= n => m <= n /\ m \in Nat
    OBVIOUS
  <2> QED BY <1>4, <2>1
<1>7. T = Nat
  <2>1. T \in SUBSET Nat
    OBVIOUS
  <2> HIDE DEF T
  <2> QED BY <1>5, <1>6, <2>1, SetInduction
<1>8. P(n)
  <2>1. n \in T
    BY <1>7
  <2> QED BY <2>1
<1>9. sum[n] \in Int
  BY <1>1
<1> QED BY <1>1, <1>8, <1>9 DEF P

\* Nothing is on top of lines that are not weighed.
LEMMA NothingOnTop ==
  ASSUME NEW n \in Nat
  PROVE  Supplements([i \in 1..n |-> Unweighed]) = 0
<1> DEFINE ls == [i \in 1..n |-> Unweighed]
           left == [i \in 0..n |-> 0]
<1>1. ls \in [1..n -> Weighed] /\ \A i \in 1..n : ls[i].supplement = 0
  BY DEF Unweighed, Weighed, LineActions
<1>2. \A i \in 0..n : left[i] = 0
  OBVIOUS
<1>3. \A i \in 1..n : i \in 0..n /\ i - 1 \in 0..n
  OBVIOUS
<1> HIDE DEF ls, left
<1>4. \A i \in 1..n : ls[i].supplement <= (left[i - 1] - left[i]) * 1
  BY <1>1, <1>2, <1>3
<1>5. 0 \in 0..n /\ n \in 0..n /\ 1 \in Nat
  OBVIOUS
<1>6. \A i \in 0..n : left[i] \in Int
  BY <1>2
<1>7. Supplements(ls) \in Nat /\ Supplements(ls) <= (left[0] - left[n]) * 1
  BY <1>1, <1>4, <1>5, <1>6, SupplementsCovered
<1>8. Supplements(ls) = 0
  BY <1>2, <1>5, <1>7
<1> QED BY <1>8 DEF ls

\* What was put on top of an order's lines is never negative.
LEMMA SupplementsAreNat ==
  ASSUME NEW n \in Nat, NEW ls \in [1..n -> Weighed]
  PROVE  Supplements(ls) \in Nat
<1>1. PICK sum \in [0..n -> Int] :
        /\ sum[0] = 0
        /\ \A i \in 1..n : sum[i] = sum[i - 1] + ls[i].supplement
        /\ Supplements(ls) = sum[n]
  BY SupplementsRun
<1> DEFINE left == [i \in 0..n |-> 0 - sum[i]]
<1>2. \A i \in 1..n : i \in 0..n /\ i - 1 \in 0..n /\ ls[i].supplement \in Nat
  BY DEF Weighed
<1>3. \A i \in 0..n : left[i] \in Int /\ left[i] = 0 - sum[i] /\ sum[i] \in Int
  BY <1>1
<1> HIDE DEF left
<1>4. ASSUME NEW i \in 1..n PROVE ls[i].supplement <= (left[i - 1] - left[i]) * 1
  <2>1. /\ sum[i] = sum[i - 1] + ls[i].supplement /\ sum[i] \in Int /\ sum[i - 1] \in Int
        /\ left[i] = 0 - sum[i] /\ left[i - 1] = 0 - sum[i - 1] /\ ls[i].supplement \in Nat
    BY <1>1, <1>2, <1>3
  <2>2. left[i - 1] - left[i] = ls[i].supplement
    BY <2>1
  <2> QED BY <2>1, <2>2
<1>5. 1 \in Nat /\ \A i \in 0..n : left[i] \in Int
  BY <1>3
<1> QED BY <1>4, <1>5, SupplementsCovered

\* What a transaction that reconciles order o writes.
LEMMA ReconciledOrder ==
  ASSUME NEW o \in Trays, NEW ws \in [1..Len(Ordered[o]) -> Nat], NEW start \in Nat, NEW ls, NEW left,
         left = StockAfter(o, ws, start), ls = LinesAfter(o, ws, start)
  PROVE  /\ ls \in [1..Len(Ordered[o]) -> Weighed]
         /\ \A i \in 1..Len(Ordered[o]) :
              LET got == ls[i].actual + ls[i].supplement + ls[i].refund
              IN  /\ got >= Ordered[o][i] - Tolerance
                  /\ ls[i].supplement + ls[i].refund > 0 => got = Ordered[o][i]
         /\ left[Len(Ordered[o])] \in 0..start
         /\ Supplements(ls) <= (start - left[Len(Ordered[o])]) * Cut
<1> DEFINE N == Len(Ordered[o])
<1>1. N \in Nat /\ Cut \in Nat \ {0} /\ \A i \in 1..N : Ordered[o][i] \in Nat \ {0} /\ ws[i] \in Nat
  BY OrderedLines, PackingAssumption DEF PackingAssumption
<1>2. /\ \A i \in 0..N : left[i] \in Nat /\ left[i] <= start
      /\ left[0] = start
      /\ \A i \in 1..N : Reconcile(Ordered[o][i], ws[i], left[i - 1] * Cut).supplement
                            <= (left[i - 1] - left[i]) * Cut
  BY StockAfterFalls
<1>3. ls = [i \in 1..N |-> Reconcile(Ordered[o][i], ws[i], left[i - 1] * Cut)]
  BY DEF LinesAfter
<1>4. \A i \in 1..N : i - 1 \in 0..N
  BY <1>1
<1>5. ASSUME NEW i \in 1..N
      PROVE  /\ ls[i] \in Weighed
             /\ ls[i].actual + ls[i].supplement + ls[i].refund >= Ordered[o][i] - Tolerance
             /\ ls[i].supplement + ls[i].refund > 0
                  => ls[i].actual + ls[i].supplement + ls[i].refund = Ordered[o][i]
  <2>0. left[i - 1] \in Nat /\ Cut \in Nat
    BY <1>1, <1>2, <1>4
  <2>1. left[i - 1] * Cut \in Nat
    BY <2>0
  <2>2. ls[i] = Reconcile(Ordered[o][i], ws[i], left[i - 1] * Cut)
    BY <1>3
  <2>3. Ordered[o][i] \in Nat \ {0} /\ ws[i] \in Nat
    BY <1>1
  <2> DEFINE a == Ordered[o][i]
             w == ws[i]
             x == left[i - 1] * Cut
             r == ls[i]
  <2>4. a \in Nat \ {0} /\ w \in Nat /\ x \in Nat /\ r = Reconcile(a, w, x)
    BY <2>1, <2>2, <2>3
  <2> HIDE DEF a, w, x, r
  <2>5. /\ r \in Weighed
        /\ r.actual + r.supplement + r.refund >= a - Tolerance
        /\ r.supplement + r.refund > 0 => r.actual + r.supplement + r.refund = a
    BY <2>4, ReconciledLine
  <2> QED BY <2>5 DEF a, r
<1>6. ls \in [1..N -> Weighed]
  <2>1. \A i \in 1..N : Reconcile(Ordered[o][i], ws[i], left[i - 1] * Cut) \in Weighed
    BY <1>3, <1>5
  <2> QED BY <1>3, <2>1
<1>7. \A i \in 1..N : ls[i].supplement <= (left[i - 1] - left[i]) * Cut
  BY <1>2, <1>3
<1>8. N \in 0..N /\ (\A i \in 0..N : left[i] \in Int) /\ Cut \in Nat
  BY <1>1, <1>2
<1> HIDE DEF N
<1>9. Supplements(ls) <= (start - left[N]) * Cut
  BY <1>1, <1>2, <1>6, <1>7, <1>8, SupplementsCovered
<1>10. left[N] \in 0..start
  BY <1>2, <1>8
<1> QED BY <1>5, <1>6, <1>9, <1>10 DEF N
-----------------------------------------------------------------------------
\* What is on top of the lines of each order; PutOnTop is the sum of it.
OnTop == [o \in Trays |-> Supplements(lines[o])]

LEMMA OnTopIsSum == SupplementsTaken <=> SumOf(OnTop) <= taken * Cut
  BY DEF SupplementsTaken, PutOnTop, SumOf, OnTop

\* Order o is packed, being packed, or its request came to nothing.
Packs(o) ==
    \/ tray[o].st \in {"PACKED", "CANCELLED"}
    \/ \E p \in Packers : packer[p].tray = o /\ packer[p].at \in {"read", "write"}
    \/ o \in broken

PackInv == PackTypeOK /\ ShortagesSettled /\ ReconciledGetsPacked

\* A packing request that does nothing is one.
LEMMA IdlePackerTyped == IdlePacker \in [at : {"free", "start", "read", "write"}, tray : Trays]
  BY PackingAssumption DEF PackingAssumption, IdlePacker

\* The stock and what was taken from it are numbers.
OnTopTypeOK == OnTop \in [Trays -> Int] /\ \A o \in Trays : OnTop[o] \in Nat

LEMMA OnTopTyped == PackTypeOK => OnTopTypeOK
<1> SUFFICES ASSUME PackTypeOK, NEW o \in Trays PROVE Supplements(lines[o]) \in Nat
  BY DEF OnTop, OnTopTypeOK
<1>1. Len(Ordered[o]) \in Nat
  BY OrderedLines
<1>2. lines[o] \in [1..Len(Ordered[o]) -> Weighed]
  BY DEF PackTypeOK
<1> QED BY <1>1, <1>2, SupplementsAreNat

LEMMA PackInitHolds == PackInit => PackInv
<1> SUFFICES ASSUME PackInit PROVE PackInv
  OBVIOUS
<1>1. \A o \in Trays : Len(Ordered[o]) \in Nat
  BY OrderedLines
<1>2. PackTypeOK
  <2>1. Unweighed \in Weighed
    BY DEF Unweighed, Weighed, LineActions
  <2>2. tray \in [Trays -> [st : TrayStates, recon : ReconStates]]
    BY DEF PackInit, TrayStates, ReconStates
  <2>3. DOMAIN lines = Trays /\ \A o \in Trays : lines[o] \in [1..Len(Ordered[o]) -> Weighed]
    BY <2>1 DEF PackInit
  <2>4. packer \in [Packers -> [at : {"free", "start", "read", "write"}, tray : Trays]]
    BY IdlePackerTyped DEF PackInit
  <2> QED BY <2>2, <2>3, <2>4 DEF PackInit, PackTypeOK
<1>3. MadeWhole /\ ReconciledGetsPacked
  BY DEF PackInit, MadeWhole, ReconciledGetsPacked
<1>4. SupplementsTaken
  <2>1. \A o \in Trays : OnTop[o] = 0
    BY <1>1, NothingOnTop DEF PackInit, OnTop
  <2>2. OnTop \in [Trays -> Int] /\ IsFiniteSet(Trays)
    BY <1>2, OnTopTyped, PackingAssumption DEF PackingAssumption, OnTopTypeOK
  <2> HIDE DEF OnTop
  <2>3. SumOf(OnTop) = 0
    BY <2>1, <2>2, SumOfNothing
  <2>4. taken * Cut = 0
    BY PackingAssumption DEF PackingAssumption, PackInit
  <2> QED BY <2>3, <2>4, OnTopIsSum
<1> QED BY <1>2, <1>3, <1>4 DEF PackInv, ShortagesSettled

\* What ExecuteReconciliation does to the stock and to what it counts.
LEMMA ExecuteTakes ==
  ASSUME PackTypeOK, NEW p \in Packers, NEW o \in Trays,
         NEW ws \in [1..Len(Ordered[o]) -> Scale], ExecuteReconciliation(p, o, ws)
  PROVE  /\ units' \in 0..units /\ taken' \in Nat /\ taken' = taken + (units - units')
         /\ lines'[o] \in [1..Len(Ordered[o]) -> Weighed]
         /\ \A i \in 1..Len(Ordered[o]) :
              LET got == lines'[o][i].actual + lines'[o][i].supplement + lines'[o][i].refund
              IN  /\ got >= Ordered[o][i] - Tolerance
                  /\ lines'[o][i].supplement + lines'[o][i].refund > 0 => got = Ordered[o][i]
         /\ Supplements(lines'[o]) <= (units - units') * Cut
<1> DEFINE left == StockAfter(o, ws, units)
           ls == LinesAfter(o, ws, units)
<1>1. units \in Nat /\ taken \in Nat /\ o \in DOMAIN lines
  BY PackingAssumption DEF PackingAssumption, PackTypeOK
<1>2. ws \in [1..Len(Ordered[o]) -> Nat]
  BY PackingAssumption DEF PackingAssumption
<1>3. /\ lines'[o] = ls /\ units' = left[Len(Ordered[o])] /\ taken' = taken + units - units'
  BY <1>1 DEF ExecuteReconciliation
<1> HIDE DEF left, ls
<1>4. /\ ls \in [1..Len(Ordered[o]) -> Weighed]
      /\ \A i \in 1..Len(Ordered[o]) :
           LET got == ls[i].actual + ls[i].supplement + ls[i].refund
           IN  /\ got >= Ordered[o][i] - Tolerance
               /\ ls[i].supplement + ls[i].refund > 0 => got = Ordered[o][i]
      /\ left[Len(Ordered[o])] \in 0..units
      /\ Supplements(ls) <= (units - left[Len(Ordered[o])]) * Cut
  <2>1. left = StockAfter(o, ws, units) /\ ls = LinesAfter(o, ws, units)
    BY DEF left, ls
  <2> QED BY <1>1, <1>2, <2>1, ReconciledOrder
<1>5. units' \in 0..units
  BY <1>3, <1>4
<1>6. taken' = taken + (units - units') /\ taken' \in Nat
  BY <1>1, <1>3, <1>5
<1> QED BY <1>3, <1>4, <1>5, <1>6
\* The lines and what was taken stay.
LinesStay == lines' = lines /\ taken' = taken

\* An action that leaves the lines alone and puts no order among the reconciled
\* leaves the shortages settled.
LEMMA SettledStays ==
  ASSUME PackTypeOK, ShortagesSettled, LinesStay,
         \A o \in Trays : tray'[o].recon = "COMPLETED" => tray[o].recon = "COMPLETED"
  PROVE  ShortagesSettled'
<1>1. MadeWhole'
  BY DEF ShortagesSettled, MadeWhole, LinesStay
<1>2. OnTop' = OnTop /\ taken' = taken
  BY DEF OnTop, LinesStay
<1>3. SumOf(OnTop) <= taken * Cut
  BY OnTopIsSum DEF ShortagesSettled
<1>4. (SumOf(OnTop) <= taken * Cut)'
  <2> HIDE DEF OnTop
  <2> QED BY <1>2, <1>3
<1>5. SupplementsTaken'
  BY <1>4, OnTopIsSum, PTL
<1> QED BY <1>1, <1>5 DEF ShortagesSettled

LEMMA PackTypeStep == PackTypeOK /\ [PackNext]_packVars => PackTypeOK'
<1> SUFFICES ASSUME PackTypeOK, [PackNext]_packVars PROVE PackTypeOK'
  OBVIOUS
<1> USE DEF PackTypeOK
<1>0. MaxUnits \in Nat /\ units \in Nat /\ \A o \in Trays : Len(Ordered[o]) \in Nat
  BY OrderedLines, PackingAssumption DEF PackingAssumption
<1>1. CASE \E o \in Trays : CancelTray(o)
  BY <1>0, <1>1 DEF CancelTray, TrayStates
<1>2. CASE \E p \in Packers, o \in Trays : StartPacking(p, o)
  BY <1>2 DEF StartPacking
<1>3. ASSUME NEW p \in Packers, NEW o \in Trays, NEW ws \in [1..Len(Ordered[o]) -> Scale],
             ExecuteReconciliation(p, o, ws)
      PROVE  PackTypeOK'
  <2>1. units' \in 0..units /\ taken' \in Nat /\ lines'[o] \in [1..Len(Ordered[o]) -> Weighed]
    BY <1>3, ExecuteTakes
  <2>2. /\ DOMAIN lines' = Trays
        /\ \A x \in Trays : lines'[x] \in [1..Len(Ordered[x]) -> Weighed]
    <3>1. DOMAIN lines' = Trays /\ \A x \in Trays : x # o => lines'[x] = lines[x]
      BY <1>3 DEF ExecuteReconciliation
    <3> QED BY <2>1, <3>1
  <2>3. /\ tray' \in [Trays -> [st : TrayStates, recon : ReconStates]]
        /\ packer' \in [Packers -> [at : {"free", "start", "read", "write"}, tray : Trays]]
        /\ broken' \subseteq Trays
    BY <1>3 DEF ExecuteReconciliation, ReconStates
  <2>4. units' \in 0..MaxUnits
    BY <1>0, <2>1
  <2> QED BY <2>1, <2>2, <2>3, <2>4
<1>4. ASSUME NEW p \in Packers, StartWrite(p) PROVE PackTypeOK'
  <2>1. packer' \in [Packers -> [at : {"free", "start", "read", "write"}, tray : Trays]]
    BY <1>4, IdlePackerTyped DEF StartWrite
  <2>2. tray' \in [Trays -> [st : TrayStates, recon : ReconStates]]
    BY ZenonT(60), <1>4 DEF StartWrite, TrayStates
  <2>3. packer[p].tray \in Trays /\ broken' \subseteq broken \cup {packer[p].tray}
    BY <1>4 DEF StartWrite
  <2> QED BY <1>4, <2>1, <2>2, <2>3 DEF StartWrite
<1>5. ASSUME NEW p \in Packers, PackRead(p) PROVE PackTypeOK'
  <2>1. packer[p] \in [at : {"free", "start", "read", "write"}, tray : Trays]
    OBVIOUS
  <2>2. CASE packer' = [packer EXCEPT ![p].at = "write"] /\ UNCHANGED broken
    BY <1>5, <2>1, <2>2 DEF PackRead
  <2>3. CASE packer' = [packer EXCEPT ![p] = IdlePacker] /\ broken' = broken \cup {packer[p].tray}
    BY <1>5, <2>1, <2>3, IdlePackerTyped DEF PackRead
  <2> QED BY <1>5, <2>2, <2>3 DEF PackRead
<1>6. ASSUME NEW p \in Packers, PackWrite(p) PROVE PackTypeOK'
  BY ZenonT(60), <1>6, IdlePackerTyped DEF PackWrite, TrayStates
<1>7. ASSUME NEW p \in Packers, PackerFails(p) PROVE PackTypeOK'
  BY <1>7, IdlePackerTyped DEF PackerFails
<1>8. CASE OthersBuy
  BY <1>0, <1>8 DEF OthersBuy
<1>9. CASE UNCHANGED packVars
  BY <1>9 DEF packVars
<1> QED BY <1>1, <1>2, <1>3, <1>4, <1>5, <1>6, <1>7, <1>8, <1>9 DEF PackNext

\* A transaction that reconciles an order leaves every shortage settled.
LEMMA ExecuteSettles ==
  ASSUME PackTypeOK, PackTypeOK', ShortagesSettled, NEW p \in Packers, NEW o \in Trays,
         NEW ws \in [1..Len(Ordered[o]) -> Scale], ExecuteReconciliation(p, o, ws)
  PROVE  ShortagesSettled'
<1>1. /\ units' \in 0..units /\ taken' = taken + (units - units')
      /\ \A i \in 1..Len(Ordered[o]) :
           LET got == lines'[o][i].actual + lines'[o][i].supplement + lines'[o][i].refund
           IN  /\ got >= Ordered[o][i] - Tolerance
               /\ lines'[o][i].supplement + lines'[o][i].refund > 0 => got = Ordered[o][i]
      /\ Supplements(lines'[o]) <= (units - units') * Cut
  BY ExecuteTakes
<1>2. \A x \in Trays : x # o => lines'[x] = lines[x] /\ tray'[x] = tray[x]
  BY DEF ExecuteReconciliation, PackTypeOK
<1>3. MadeWhole'
  <2> SUFFICES ASSUME NEW x \in Trays, tray'[x].recon = "COMPLETED", NEW i \in 1..Len(Ordered[x])
               PROVE  LET got == lines'[x][i].actual + lines'[x][i].supplement + lines'[x][i].refund
                      IN  /\ got >= Ordered[x][i] - Tolerance
                          /\ lines'[x][i].supplement + lines'[x][i].refund > 0 => got = Ordered[x][i]
    BY DEF MadeWhole
  <2>1. CASE x = o
    BY <1>1, <2>1
  <2>2. CASE x # o
    BY <1>2, <2>2 DEF ShortagesSettled, MadeWhole
  <2> QED BY <2>1, <2>2
<1>4. SupplementsTaken'
  <2>1. OnTop \in [Trays -> Int] /\ \A x \in Trays : OnTop[x] \in Nat
    BY OnTopTyped DEF OnTopTypeOK
  <2>2. OnTopTypeOK'
    <3>1. PackTypeOK'
      OBVIOUS
    <3> QED BY <3>1, OnTopTyped, PTL
  <2>3. PICK g : g = OnTop'
    OBVIOUS
  <2>4. \A x \in Trays \ {o} : g[x] = OnTop[x]
    BY <1>2, <2>3 DEF OnTop
  <2>5. g[o] = Supplements(lines'[o])
    BY <2>3 DEF OnTop
  <2>6. g \in [Trays -> Int] /\ g[o] \in Nat /\ OnTop[o] \in Nat
    BY <2>1, <2>2, <2>3 DEF OnTopTypeOK
  <2>7. IsFiniteSet(Trays)
    BY PackingAssumption DEF PackingAssumption
  <2>8. SumOf(OnTop) \in Int /\ SumOf(g) \in Int /\ SumOf(g) = SumOf(OnTop) + g[o] - OnTop[o]
    <3> HIDE DEF OnTop
    <3> QED BY <2>1, <2>4, <2>6, <2>7, SumChanges
  <2>9. SumOf(OnTop) <= taken * Cut
    BY OnTopIsSum DEF ShortagesSettled
  <2>10. /\ units \in Int /\ units' \in Int /\ taken \in Int /\ Cut \in Int
    BY <1>1, PackingAssumption DEF PackingAssumption, PackTypeOK
  <2>11. taken' * Cut = taken * Cut + (units - units') * Cut
    <3>1. (taken + (units - units')) * Cut = taken * Cut + (units - units') * Cut
      BY <2>10
    <3> QED BY <1>1, <3>1
  <2>12. taken * Cut \in Int /\ (units - units') * Cut \in Int
    BY <2>10
  <2>13. SumOf(g) <= taken' * Cut
    <3> DEFINE a == taken * Cut
               b == (units - units') * Cut
    <3>1. a \in Int /\ b \in Int /\ taken' * Cut = a + b /\ SumOf(OnTop) <= a /\ g[o] <= b
      BY <1>1, <2>5, <2>9, <2>11, <2>12
    <3> HIDE DEF a, b, OnTop
    <3> QED BY <2>6, <2>8, <3>1
  <2>14. (SumOf(OnTop) <= taken * Cut)'
    <3> HIDE DEF OnTop
    <3> QED BY <2>3, <2>13
  <2> QED BY <2>14, OnTopIsSum, PTL
<1> QED BY <1>3, <1>4 DEF ShortagesSettled

LEMMA SettledStep == PackTypeOK /\ ShortagesSettled /\ [PackNext]_packVars => ShortagesSettled'
<1> SUFFICES ASSUME PackTypeOK, ShortagesSettled, [PackNext]_packVars PROVE ShortagesSettled'
  OBVIOUS
<1>0. PackTypeOK'
  BY PackTypeStep
<1>1. CASE \E o \in Trays : CancelTray(o)
  BY <1>1, SettledStays DEF CancelTray, LinesStay, PackTypeOK
<1>2. CASE \E p \in Packers, o \in Trays : StartPacking(p, o)
  BY <1>2, SettledStays DEF StartPacking, LinesStay
<1>3. ASSUME NEW p \in Packers, NEW o \in Trays, NEW ws \in [1..Len(Ordered[o]) -> Scale],
             ExecuteReconciliation(p, o, ws)
      PROVE  ShortagesSettled'
  BY <1>0, <1>3, ExecuteSettles
<1>4. ASSUME NEW p \in Packers, StartWrite(p) PROVE ShortagesSettled'
  BY <1>4, SettledStays DEF StartWrite, LinesStay, PackTypeOK
<1>5. ASSUME NEW p \in Packers, PackRead(p) PROVE ShortagesSettled'
  BY <1>5, SettledStays DEF PackRead, LinesStay
<1>6. ASSUME NEW p \in Packers, PackWrite(p) PROVE ShortagesSettled'
  BY <1>6, SettledStays DEF PackWrite, LinesStay, PackTypeOK
<1>7. ASSUME NEW p \in Packers, PackerFails(p) PROVE ShortagesSettled'
  BY <1>7, SettledStays DEF PackerFails, LinesStay
<1>8. CASE OthersBuy
  BY <1>8, SettledStays DEF OthersBuy, LinesStay
<1>9. CASE UNCHANGED packVars
  BY <1>9, SettledStays DEF packVars, LinesStay
<1> QED BY <1>1, <1>2, <1>3, <1>4, <1>5, <1>6, <1>7, <1>8, <1>9 DEF PackNext

LEMMA PackedStep == PackTypeOK /\ ReconciledGetsPacked /\ [PackNext]_packVars => ReconciledGetsPacked'
<1> SUFFICES ASSUME PackTypeOK, ReconciledGetsPacked, [PackNext]_packVars,
                    NEW o \in Trays, tray'[o].recon = "COMPLETED"
             PROVE  Packs(o)'
  BY DEF ReconciledGetsPacked, Packs
<1> USE DEF PackTypeOK, Packs
<1>0. tray[o].recon = "COMPLETED" => Packs(o)
  BY DEF ReconciledGetsPacked
<1>1. CASE \E x \in Trays : CancelTray(x)
  BY <1>0, <1>1 DEF CancelTray
<1>2. ASSUME NEW p \in Packers, NEW x \in Trays, StartPacking(p, x) PROVE Packs(o)'
  BY <1>0, <1>2 DEF StartPacking
<1>3. ASSUME NEW p \in Packers, NEW x \in Trays, NEW ws \in [1..Len(Ordered[x]) -> Scale],
             ExecuteReconciliation(p, x, ws)
      PROVE  Packs(o)'
  <2>1. CASE o = x
    <3>1. packer'[p].tray = o /\ packer'[p].at = "read"
      BY <1>3, <2>1 DEF ExecuteReconciliation
    <3> QED BY <3>1
  <2>2. CASE o # x
    <3>1. /\ tray'[o] = tray[o] /\ packer[p].at = "free" /\ broken' = broken
          /\ \A q \in Packers : q # p => packer'[q] = packer[q]
      BY <1>3, <2>2 DEF ExecuteReconciliation
    <3> QED BY <1>0, <3>1
  <2> QED BY <2>1, <2>2
<1>4. ASSUME NEW p \in Packers, StartWrite(p) PROVE Packs(o)'
  <2>1. /\ packer[p].at = "start" /\ \A q \in Packers : q # p => packer'[q] = packer[q]
        /\ \A x \in Trays : tray'[x].recon = tray[x].recon
        /\ broken \subseteq broken'
    BY <1>4 DEF StartWrite
  <2>2. CASE o = packer[p].tray
    <3>1. tray[o].st \in {"PACKED", "CANCELLED"} => o \in broken'
      BY <1>4, <2>2 DEF StartWrite, Packable
    <3> QED BY <1>0, <2>1, <3>1
  <2>3. CASE o # packer[p].tray
    <3>1. tray'[o] = tray[o]
      BY <1>4, <2>3 DEF StartWrite
    <3> QED BY <1>0, <2>1, <3>1
  <2> QED BY <2>2, <2>3
<1>5. ASSUME NEW p \in Packers, PackRead(p) PROVE Packs(o)'
  <2>1. /\ tray' = tray /\ broken \subseteq broken'
        /\ \A q \in Packers : q # p => packer'[q] = packer[q]
    BY <1>5 DEF PackRead
  <2>2. \/ packer'[p].tray = packer[p].tray /\ packer'[p].at = "write"
        \/ packer[p].tray \in broken'
    BY <1>5 DEF PackRead
  <2> QED BY <1>0, <2>1, <2>2
<1>6. ASSUME NEW p \in Packers, PackWrite(p) PROVE Packs(o)'
  <2>1. /\ broken' = broken
        /\ \A q \in Packers : q # p => packer'[q] = packer[q]
        /\ tray'[o].recon = tray[o].recon
        /\ tray'[o].st = IF o = packer[p].tray THEN "PACKED" ELSE tray[o].st
    BY <1>6 DEF PackWrite
  <2> QED BY <1>0, <2>1
<1>7. ASSUME NEW p \in Packers, PackerFails(p) PROVE Packs(o)'
  <2>1. /\ tray' = tray /\ broken' = broken \cup {packer[p].tray}
        /\ \A q \in Packers : q # p => packer'[q] = packer[q]
    BY <1>7 DEF PackerFails
  <2> QED BY <1>0, <2>1
<1>8. CASE OthersBuy
  BY <1>0, <1>8 DEF OthersBuy
<1>9. CASE UNCHANGED packVars
  BY <1>0, <1>9 DEF packVars
<1> QED BY <1>1, <1>2, <1>3, <1>4, <1>5, <1>6, <1>7, <1>8, <1>9 DEF PackNext

\* Packing keeps the types of its variables: however many lines of however many
\* orders are filled from it, the stock never goes below zero
\* (packingWeightReconciliation.service.js).
THEOREM PackTypes == PackSpec => []PackTypeOK
<1>1. PackInit => PackTypeOK
  BY PackInitHolds DEF PackInv
<1> QED BY <1>1, PackTypeStep, PTL DEF PackSpec

\* Customers and stock together: a reconciled line is made good to the gram, and
\* what was put on top of all lines is covered by the units the stock gave
\* (reconcileOrderPacking).
THEOREM ShortagesAreSettled == PackSpec => []ShortagesSettled
<1>1. PackInit => PackTypeOK /\ ShortagesSettled
  BY PackInitHolds DEF PackInv
<1> QED BY <1>1, PackTypeStep, SettledStep, PTL DEF PackSpec

\* A reconciled order is packed or being packed, or its request came to nothing.
THEOREM ReconciledIsPacked == PackSpec => []ReconciledGetsPacked
<1>1. PackInit => PackTypeOK /\ ReconciledGetsPacked
  BY PackInitHolds DEF PackInv
<1> QED BY <1>1, PackTypeStep, PackedStep, PTL DEF PackSpec

-----------------------------------------------------------------------------
(* The timeline and the monitor. *)

\* A key that is not set has no alert and nobody about to raise one; one run at
\* most is about to raise an alert, and then it is the first.
AlertLedger ==
    \A a \in Alerts :
        /\ rung[a] <= 1
        /\ a \notin alertKeys => rung[a] = 0
        /\ \A r \in Runs : runs[r].step = "ring" /\ runs[r].alert = a =>
             /\ a \in alertKeys /\ rung[a] = 0
             /\ \A q \in Runs : runs[q].step = "ring" /\ runs[q].alert = a => q = r

WeighedColumns == {"packed_at", "weight_reconciliation_completed_at"}

\* Before the order is weighed, nothing has stamped or is about to stamp the columns
\* that the weighing sets.
UnweighedBlank ==
    ~weighed => /\ \A c \in Followed \cap WeighedColumns : stamps[c] = 0
                /\ \A p \in inFlight : ColumnOf[p.type] \notin WeighedColumns

Handlers ==
    \/ ConfirmOrder \/ BeginPacking \/ Weigh \/ Pack \/ AssignRider \/ Unassign \/ AcceptAndGo
    \/ DeliverOrder \/ FailAtDoor \/ ConfirmReturn \/ SendAgain \/ ReportException

-----------------------------------------------------------------------------
\* Publishing keeps the types: whatever the events, only those that stamp a followed
\* column are in flight.
LEMMA PublishAsyncTyped ==
    ASSUME TimelineTypeOK, NEW types, PublishAsync(types)
    PROVE  inFlight' \subseteq [type : Stamped, step : {"asked", "stamp"}, at : 0 .. MaxMinute]
  <1> DEFINE New == {[type |-> e, step |-> "asked", at |-> 0] : e \in types \cap Stamped}
  <1>1. 0 \in 0 .. MaxMinute
    BY TimelineAssumption DEF TimelineAssumption
  <1>2. ASSUME NEW n \in New PROVE n \in [type : Stamped, step : {"asked", "stamp"}, at : 0 .. MaxMinute]
    BY <1>1
  <1>3. inFlight' = inFlight \cup New
    BY DEF PublishAsync
  <1> QED  BY <1>2, <1>3 DEF TimelineTypeOK

\* A handler's commit keeps the types of what Publishing changes.
LEMMA PublishingTyped ==
    ASSUME TimelineTypeOK, NEW from, NEW to \in Stages, NEW columns, NEW types,
           Publishing(from, to, columns, types)
    PROVE  /\ stage' \in Stages /\ minute' \in 1 .. MaxMinute
           /\ stamps' \in [Followed -> 0 .. MaxMinute]
           /\ inFlight' \subseteq [type : Stamped, step : {"asked", "stamp"}, at : 0 .. MaxMinute]
           /\ alertKeys' \subseteq Alerts /\ rung' \in [Alerts -> Nat]
           /\ runs' \in [Runs -> [step : {"idle", "claim", "ring"}, alert : Alerts]]
  <1>1. minute \in 0 .. MaxMinute
    BY TimelineAssumption DEF TimelineTypeOK, TimelineAssumption
  <1>2. stamps' \in [Followed -> 0 .. MaxMinute]
    BY <1>1 DEF Publishing, TimelineTypeOK
  <1>3. PublishAsync(types)
    BY DEF Publishing
  <1> QED  BY <1>2, <1>3, PublishAsyncTyped DEF Publishing, TimelineTypeOK

\* Every handler keeps the types.
LEMMA HandlerTyped ==
    ASSUME TimelineTypeOK, Handlers
    PROVE  TimelineTypeOK'
  <1> USE PublishingTyped
  <1>1. CASE ConfirmOrder
    BY <1>1 DEF ConfirmOrder, TimelineTypeOK, Stages, Kitchen
  <1>2. CASE BeginPacking
    BY <1>2 DEF BeginPacking, TimelineTypeOK, Stages, Kitchen
  <1>3. CASE Weigh
    BY <1>3 DEF Weigh, TimelineTypeOK
  <1>4. CASE Pack
    BY <1>4 DEF Pack, TimelineTypeOK, Stages, Kitchen
  <1>5. CASE AssignRider
    BY <1>5 DEF AssignRider, TimelineTypeOK
  <1>6. CASE Unassign
    BY <1>6 DEF Unassign, TimelineTypeOK
  <1>7. CASE AcceptAndGo
    BY <1>7 DEF AcceptAndGo, TimelineTypeOK, Stages, Kitchen
  <1>8. CASE DeliverOrder
    BY <1>8 DEF DeliverOrder, TimelineTypeOK, Stages, Kitchen
  <1>9. CASE FailAtDoor
    BY <1>9 DEF FailAtDoor, TimelineTypeOK, Stages, Kitchen
  <1>10. CASE ConfirmReturn
    BY <1>10 DEF ConfirmReturn, TimelineTypeOK
  <1>11. CASE SendAgain
    BY <1>11 DEF SendAgain, TimelineTypeOK, Stages, Kitchen
  <1>12. CASE ReportException
    BY <1>12 DEF ReportException, TimelineTypeOK
  <1> QED
    BY <1>1, <1>2, <1>3, <1>4, <1>5, <1>6, <1>7, <1>8, <1>9, <1>10, <1>11, <1>12 DEF Handlers

\* Every other step keeps the types.
LEMMA RunTyped ==
    ASSUME TimelineTypeOK, NEW r \in Runs, RunReads(r) \/ Claim(r) \/ Ring(r)
    PROVE  TimelineTypeOK'
  <1>1. CASE RunReads(r)
    <2>1. Found \subseteq Alerts
      BY DEF Found, TierOf, Alerts, AgeTiers
    <2>2. PICK a \in Alerts : runs' = [runs EXCEPT ![r] = [step |-> "claim", alert |-> a]]
      BY <1>1, <2>1 DEF RunReads
    <2>3. [step |-> "claim", alert |-> a] \in [step : {"idle", "claim", "ring"}, alert : Alerts]
      OBVIOUS
    <2> QED  BY <1>1, <2>2, <2>3 DEF RunReads, TimelineTypeOK
  <1>2. CASE Claim(r)
    <2>1. runs[r] \in [step : {"idle", "claim", "ring"}, alert : Alerts]
      BY DEF TimelineTypeOK
    <2>2. IdleRun \in [step : {"idle", "claim", "ring"}, alert : Alerts]
      BY DEF IdleRun, Alerts
    <2>3. [runs[r] EXCEPT !.step = "ring"] \in [step : {"idle", "claim", "ring"}, alert : Alerts]
      BY <2>1
    <2>4. runs' \in [Runs -> [step : {"idle", "claim", "ring"}, alert : Alerts]]
      BY <1>2, <2>2, <2>3 DEF Claim, TimelineTypeOK
    <2>5. alertKeys' \subseteq Alerts
      BY <1>2, <2>1 DEF Claim, TimelineTypeOK
    <2> QED  BY <1>2, <2>4, <2>5 DEF Claim, TimelineTypeOK
  <1>3. CASE Ring(r)
    <2>1. PICK a \in Alerts : /\ rung' = [rung EXCEPT ![a] = @ + 1]
                              /\ PublishAsync({EventOfAlert[a]})
      BY <1>3 DEF Ring, TimelineTypeOK
    <2>2. IdleRun \in [step : {"idle", "claim", "ring"}, alert : Alerts]
      BY DEF IdleRun, Alerts
    <2>3. rung' \in [Alerts -> Nat]
      BY <2>1 DEF TimelineTypeOK
    <2>4. runs' \in [Runs -> [step : {"idle", "claim", "ring"}, alert : Alerts]]
      BY <1>3, <2>2 DEF Ring, TimelineTypeOK
    <2>5. inFlight' \subseteq [type : Stamped, step : {"asked", "stamp"}, at : 0 .. MaxMinute]
      BY <2>1, PublishAsyncTyped
    <2> QED  BY <1>3, <2>3, <2>4, <2>5 DEF Ring, TimelineTypeOK
  <1> QED  BY <1>1, <1>2, <1>3

\* A publication in flight keeps the types.
LEMMA PublicationTyped ==
    ASSUME TimelineTypeOK, NEW p \in inFlight, Begin(p) \/ StampOrder(p)
    PROVE  TimelineTypeOK'
  <1>1. p \in [type : Stamped, step : {"asked", "stamp"}, at : 0 .. MaxMinute]
    BY DEF TimelineTypeOK
  <1>2. CASE Begin(p)
    <2>1. minute \in 0 .. MaxMinute
      BY TimelineAssumption DEF TimelineTypeOK, TimelineAssumption
    <2>2. [p EXCEPT !.step = "stamp", !.at = minute]
             \in [type : Stamped, step : {"asked", "stamp"}, at : 0 .. MaxMinute]
      BY <1>1, <2>1
    <2> QED  BY <1>2, <2>2 DEF Begin, TimelineTypeOK
  <1>3. CASE StampOrder(p)
    <2>1. p.at \in 0 .. MaxMinute
      BY <1>1
    <2>2. Stamp(stamps, ColumnOf[p.type], p.at) \in [Followed -> 0 .. MaxMinute]
      BY <2>1 DEF Stamp, TimelineTypeOK
    <2> QED  BY <1>3, <2>2 DEF StampOrder, TimelineTypeOK
  <1> QED  BY <1>2, <1>3

\* Whatever happens to an order and its publications, every variable of the timeline
\* keeps its type.
THEOREM TimelineTypes == TimelineSpec => []TimelineTypeOK
  <1>1. TimelineInit => TimelineTypeOK
    <2>1. 0 \in 0 .. MaxMinute /\ 1 \in 1 .. MaxMinute
      BY TimelineAssumption DEF TimelineAssumption
    <2>2. IdleRun \in [step : {"idle", "claim", "ring"}, alert : Alerts] /\ "PLACED" \in Stages
      BY DEF IdleRun, Alerts, Stages
    <2> SUFFICES ASSUME TimelineInit PROVE TimelineTypeOK
      OBVIOUS
    <2>3. stamps \in [Followed -> 0 .. MaxMinute] /\ rung \in [Alerts -> Nat]
      BY <2>1 DEF TimelineInit
    <2>4. runs \in [Runs -> [step : {"idle", "claim", "ring"}, alert : Alerts]]
      BY <2>2 DEF TimelineInit
    <2> QED  BY <2>1, <2>2, <2>3, <2>4 DEF TimelineInit, TimelineTypeOK
  <1>2. TimelineTypeOK /\ [TimelineNext]_timelineVars => TimelineTypeOK'
    <2> SUFFICES ASSUME TimelineTypeOK, [TimelineNext]_timelineVars PROVE TimelineTypeOK'
      OBVIOUS
    <2>1. CASE Handlers
      BY <2>1, HandlerTyped
    <2>2. CASE \E p \in inFlight : Begin(p) \/ StampOrder(p)
      BY <2>2, PublicationTyped
    <2>3. CASE \E r \in Runs : RunReads(r) \/ Claim(r) \/ Ring(r)
      BY <2>3, RunTyped
    <2>4. CASE \E a \in Alerts : AlertExpires(a)
      BY <2>4 DEF AlertExpires, TimelineTypeOK
    <2>5. CASE MinutePasses
      BY <2>5, TimelineAssumption DEF MinutePasses, TimelineTypeOK, TimelineAssumption
    <2>6. CASE DropInFlight
      BY <2>6 DEF DropInFlight, TimelineTypeOK, IdleRun, Alerts
    <2>7. CASE UNCHANGED timelineVars
      BY <2>7 DEF timelineVars, TimelineTypeOK
    <2> QED
      BY <2>1, <2>2, <2>3, <2>4, <2>5, <2>6, <2>7 DEF TimelineNext, Handlers
  <1> QED  BY <1>1, <1>2, PTL DEF TimelineSpec

-----------------------------------------------------------------------------
\* A handler leaves the alerts alone.
LEMMA HandlersKeepAlerts ==
    ASSUME Handlers
    PROVE  UNCHANGED <<alertKeys, rung, runs>>
  BY DEF Handlers, Publishing, ConfirmOrder, BeginPacking, Weigh, Pack, AssignRider, Unassign,
         AcceptAndGo, DeliverOrder, FailAtDoor, ConfirmReturn, SendAgain, ReportException

\* The ledger of the alerts survives every step.
LEMMA AlertLedgerStep ==
    ASSUME TimelineTypeOK, AlertLedger, [TimelineNext]_timelineVars
    PROVE  AlertLedger'
  <1>1. CASE UNCHANGED <<alertKeys, rung, runs>>
    BY <1>1 DEF AlertLedger
  <1>2. ASSUME NEW r \in Runs, RunReads(r) PROVE AlertLedger'
    BY <1>2 DEF RunReads, AlertLedger, TimelineTypeOK
  <1>3. ASSUME NEW r \in Runs, Claim(r) PROVE AlertLedger'
    BY <1>3 DEF Claim, AlertLedger, TimelineTypeOK, IdleRun
  <1>4. ASSUME NEW r \in Runs, Ring(r) PROVE AlertLedger'
    BY <1>4 DEF Ring, AlertLedger, TimelineTypeOK, IdleRun
  <1>5. ASSUME NEW b \in Alerts, AlertExpires(b) PROVE AlertLedger'
    BY <1>5 DEF AlertExpires, AlertLedger, TimelineTypeOK
  <1>6. CASE DropInFlight
    BY <1>6 DEF DropInFlight, AlertLedger, IdleRun
  <1>7. CASE Handlers
    BY <1>1, <1>7, HandlersKeepAlerts
  <1> QED
    BY <1>1, <1>2, <1>3, <1>4, <1>5, <1>6, <1>7
       DEF TimelineNext, Handlers, Begin, StampOrder, MinutePasses, timelineVars

\* An alert is raised once in the life of its key, however many runs of the monitors
\* overlap and whenever the process restarts.
THEOREM AlertsOnce == TimelineSpec => []AlertedOnce
  <1>1. TimelineInit => AlertLedger
    BY DEF TimelineInit, AlertLedger, IdleRun
  <1>2. TimelineTypeOK /\ AlertLedger /\ [TimelineNext]_timelineVars => AlertLedger'
    BY AlertLedgerStep
  <1>3. AlertLedger => AlertedOnce
    BY DEF AlertLedger, AlertedOnce
  <1> QED  BY <1>1, <1>2, <1>3, TimelineTypes, PTL DEF TimelineSpec

-----------------------------------------------------------------------------
\* What a handler publishes before the order is weighed stamps neither of the
\* columns of the weighing.
LEMMA UnweighedBlankStep ==
    ASSUME TimelineTypeOK, UnweighedBlank, [TimelineNext]_timelineVars
    PROVE  UnweighedBlank'
  <1> SUFFICES ASSUME ~weighed'
               PROVE  /\ \A c \in Followed \cap WeighedColumns : stamps'[c] = 0
                      /\ \A p \in inFlight' : ColumnOf[p.type] \notin WeighedColumns
    BY DEF UnweighedBlank
  <1>1. ~weighed
    BY DEF TimelineNext, timelineVars, Publishing, ConfirmOrder, BeginPacking, Weigh, Pack,
           AssignRider, Unassign, AcceptAndGo, DeliverOrder, FailAtDoor, ConfirmReturn,
           SendAgain, ReportException, Begin, StampOrder, RunReads, Claim, Ring, AlertExpires,
           MinutePasses, DropInFlight
  <1>2. ASSUME NEW types, PublishAsync(types),
               \A e \in types \cap Stamped : ColumnOf[e] \notin WeighedColumns
        PROVE  \A p \in inFlight' : ColumnOf[p.type] \notin WeighedColumns
    BY <1>1, <1>2 DEF PublishAsync, UnweighedBlank
  <1>3. ASSUME NEW from, NEW to, NEW columns, NEW types, Publishing(from, to, columns, types),
               \A e \in types \cap Stamped : ColumnOf[e] \notin WeighedColumns,
               columns \cap WeighedColumns = {}
        PROVE  /\ \A c \in Followed \cap WeighedColumns : stamps'[c] = 0
               /\ \A p \in inFlight' : ColumnOf[p.type] \notin WeighedColumns
    <2>1. \A c \in Followed \cap WeighedColumns : stamps'[c] = stamps[c]
      BY <1>3 DEF Publishing
    <2>2. PublishAsync(types)
      BY <1>3 DEF Publishing
    <2> QED  BY <1>1, <1>2, <1>3, <2>1, <2>2 DEF UnweighedBlank
  <1>4. CASE ConfirmOrder
    BY <1>3, <1>4 DEF ConfirmOrder, ColumnOf, WeighedColumns
  <1>5. CASE BeginPacking
    BY <1>3, <1>5 DEF BeginPacking, ColumnOf, WeighedColumns
  <1>6. CASE AssignRider
    BY <1>3, <1>6 DEF AssignRider, ColumnOf, WeighedColumns
  <1>7. CASE Unassign
    BY <1>3, <1>7 DEF Unassign
  <1>8. CASE AcceptAndGo
    BY <1>3, <1>8 DEF AcceptAndGo, ColumnOf, WeighedColumns
  <1>9. CASE DeliverOrder
    BY <1>3, <1>9 DEF DeliverOrder, ColumnOf, WeighedColumns
  <1>10. CASE FailAtDoor
    BY <1>3, <1>10 DEF FailAtDoor, Stamped, ColumnOf, WeighedColumns
  <1>11. CASE ConfirmReturn
    BY <1>3, <1>11 DEF ConfirmReturn, ColumnOf, WeighedColumns
  <1>12. CASE SendAgain
    BY <1>3, <1>12 DEF SendAgain, Stamped, ColumnOf, WeighedColumns
  <1>13. CASE ReportException
    BY <1>3, <1>13 DEF ReportException, Stamped, ColumnOf, WeighedColumns
  <1>14. ASSUME NEW p \in inFlight, Begin(p)
         PROVE  /\ \A c \in Followed \cap WeighedColumns : stamps'[c] = 0
                /\ \A q \in inFlight' : ColumnOf[q.type] \notin WeighedColumns
    <2>1. [p EXCEPT !.step = "stamp", !.at = minute].type = p.type
      BY DEF TimelineTypeOK
    <2> QED  BY <1>1, <1>14, <2>1 DEF Begin, UnweighedBlank
  <1>15. ASSUME NEW p \in inFlight, StampOrder(p)
         PROVE  /\ \A c \in Followed \cap WeighedColumns : stamps'[c] = 0
                /\ \A q \in inFlight' : ColumnOf[q.type] \notin WeighedColumns
    BY <1>1, <1>15 DEF StampOrder, Stamp, UnweighedBlank, TimelineTypeOK
  <1>16. ASSUME NEW r \in Runs, Ring(r)
         PROVE  /\ \A c \in Followed \cap WeighedColumns : stamps'[c] = 0
                /\ \A q \in inFlight' : ColumnOf[q.type] \notin WeighedColumns
    <2>1. EventOfAlert[runs[r].alert] \notin Stamped
      BY DEF TimelineTypeOK, Alerts, AgeTiers, EventOfAlert, Stamped, ColumnOf
    <2>2. PublishAsync({EventOfAlert[runs[r].alert]})
      BY <1>16 DEF Ring
    <2> QED  BY <1>1, <1>2, <1>16, <2>1, <2>2 DEF Ring, UnweighedBlank
  <1>17. CASE DropInFlight
    BY <1>1, <1>17 DEF DropInFlight, UnweighedBlank
  <1>18. CASE UNCHANGED <<stamps, inFlight>>
    BY <1>1, <1>18 DEF UnweighedBlank
  <1> QED
    BY <1>1, <1>4, <1>5, <1>6, <1>7, <1>8, <1>9, <1>10, <1>11, <1>12, <1>13, <1>14, <1>15,
       <1>16, <1>17, <1>18
       DEF TimelineNext, Weigh, Pack, RunReads, Claim, AlertExpires, MinutePasses, timelineVars

\* A step of the timeline moves no timestamp that is written, but failed_delivery_at.
LEMMA StampStandsStep ==
    ASSUME TimelineTypeOK, UnweighedBlank, [TimelineNext]_timelineVars,
           NEW c \in Followed \ {"failed_delivery_at"}, stamps[c] # 0
    PROVE  stamps'[c] = stamps[c]
  <1>1. ASSUME NEW from, NEW to, NEW columns, NEW types, Publishing(from, to, columns, types),
               c \notin columns
        PROVE  stamps'[c] = stamps[c]
    BY <1>1 DEF Publishing
  <1>2. CASE Weigh
    BY <1>1, <1>2 DEF Weigh, UnweighedBlank, WeighedColumns
  <1>3. CASE ConfirmReturn
    BY <1>1, <1>3 DEF ConfirmReturn
  <1>4. CASE Handlers /\ ~Weigh /\ ~ConfirmReturn
    BY <1>1, <1>4 DEF Handlers, ConfirmOrder, BeginPacking, Pack, AssignRider, Unassign,
                      AcceptAndGo, DeliverOrder, FailAtDoor, SendAgain, ReportException
  <1>5. ASSUME NEW p \in inFlight, StampOrder(p) PROVE stamps'[c] = stamps[c]
    BY <1>5 DEF StampOrder, Stamp, TimelineTypeOK
  <1>6. CASE UNCHANGED stamps
    BY <1>6
  <1> QED
    BY <1>2, <1>3, <1>4, <1>5, <1>6
       DEF TimelineNext, Handlers, Begin, RunReads, Claim, Ring, AlertExpires, MinutePasses,
           DropInFlight, timelineVars

\* A timestamp stands once it is written, whatever publications overlap or repeat.
THEOREM StampsStand == TimelineSpec => FirstStampStands
  <1>1. TimelineInit => UnweighedBlank
    BY DEF TimelineInit, UnweighedBlank
  <1>2. TimelineTypeOK /\ UnweighedBlank /\ [TimelineNext]_timelineVars => UnweighedBlank'
    BY UnweighedBlankStep
  <1>3. TimelineTypeOK /\ UnweighedBlank /\ [TimelineNext]_timelineVars
           => [\A c \in Followed \ {"failed_delivery_at"} :
                  stamps[c] # 0 => stamps'[c] = stamps[c]]_timelineVars
    BY StampStandsStep
  <1> QED  BY <1>1, <1>2, <1>3, TimelineTypes, PTL DEF TimelineSpec, FirstStampStands
=============================================================================
