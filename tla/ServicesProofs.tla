--------------------------- MODULE ServicesProofs ---------------------------
(***************************************************************************)
(* The components beside the money together, as MCServices instantiates    *)
(* them: each of them behaves in the composition as its own specification  *)
(* says, so that what is proved of a component holds of the composition,   *)
(* for all values of all constants at once.                                *)
(***************************************************************************)
EXTENDS MCServices, DeliveryProofs, StoreProofs, CustomerProofs

-----------------------------------------------------------------------------
(* The start of the process. *)

\* Every variable of the start keeps its type.
THEOREM StartTypes == StartSpec => []StartTypeOK
<1>1. StartInit => StartTypeOK
  <2> SUFFICES ASSUME StartInit PROVE StartTypeOK
    OBVIOUS
  <2>1. phase = "down" /\ at = 1 /\ lapsed = FALSE /\ starts = 0 /\ faults = 0
    BY DEF StartInit
  <2>2. lapsed \in BOOLEAN
    BY <2>1
  <2>3. at \in Nat /\ starts \in 0 .. MaxStarts /\ faults \in 0 .. MaxFaults
    BY <2>1, StartAssumption DEF StartAssumption
  <2> QED BY <2>1, <2>2, <2>3 DEF StartTypeOK
<1>2. StartTypeOK /\ [StartNext]_startVars => StartTypeOK'
  <2> SUFFICES ASSUME StartTypeOK, [StartNext]_startVars PROVE StartTypeOK'
    OBVIOUS
  <2> USE StartAssumption DEF StartAssumption, StartTypeOK
  <2>1. CASE Deploy
    BY <2>1 DEF Deploy
  <2>2. CASE RunScript
    <3>1. at' = at + 1 /\ phase' = phase /\ lapsed' = lapsed /\ starts' = starts
      BY <2>2 DEF RunScript
    <3>2. faults' = faults \/ (faults < MaxFaults /\ faults' = faults + 1)
      BY <2>2 DEF RunScript
    <3>3. faults' \in 0 .. MaxFaults /\ at' \in Nat
      BY <3>1, <3>2
    <3> QED BY <3>1, <3>3
  <2>3. CASE Boot
    <3>1. phase' = "schema" /\ at' = 1 /\ lapsed' = FALSE /\ faults' = faults
      BY <2>3 DEF Boot
    <3>2. starts < MaxStarts /\ starts' = starts + 1
      BY <2>3 DEF Boot
    <3>3. starts' \in 0 .. MaxStarts
      BY <3>2
    <3>4. lapsed' \in BOOLEAN /\ at' \in Nat
      BY <3>1
    <3> QED BY <3>1, <3>3, <3>4
  <2>4. CASE EnsureSection
    BY <2>4 DEF EnsureSection
  <2>5. CASE EnsureSectionLapses
    <3>1. faults < MaxFaults /\ faults' = faults + 1 /\ starts' = starts
      BY <2>5 DEF EnsureSectionLapses
    <3>2. \/ at' = at + 1 /\ lapsed' = TRUE /\ phase' = phase
          \/ phase' = "down" /\ at' = 1 /\ lapsed' = lapsed
      BY <2>5 DEF EnsureSectionLapses
    <3>3. faults' \in 0 .. MaxFaults /\ at' \in Nat
      BY <3>1, <3>2
    <3>4. lapsed' \in BOOLEAN
      BY <3>2
    <3> QED BY <3>1, <3>2, <3>3, <3>4
  <2>6. CASE Listen
    BY <2>6 DEF Listen
  <2>7. CASE StopProcess
    BY <2>7 DEF StopProcess
  <2>8. CASE UNCHANGED startVars
    BY <2>8 DEF startVars
  <2> QED BY <2>1, <2>2, <2>3, <2>4, <2>5, <2>6, <2>7, <2>8 DEF StartNext
<1> QED BY <1>1, <1>2, PTL DEF StartSpec

-----------------------------------------------------------------------------
(* The composition. *)

\* A step of the composition is a step of each component, or leaves it as it is.
LEMMA ServicesStep ==
  [ServicesNext]_mcVars =>
    /\ [DoorNext]_doorVars
    /\ [FailedNext]_failedVars
    /\ [PackNext]_packVars
    /\ [SettingsNext]_settingsVars
    /\ [CapacityNext]_capacityVars
    /\ [LoginNext]_loginVars
    /\ [CatalogueNext]_catalogueVars
    /\ [AddressNext]_addressVars
    /\ [NotesNext]_noteVars
    /\ [StartNext]_startVars
    /\ [TimelineNext]_timelineVars
    /\ [CartNext]_cartVars
    /\ [FleetNext]_<<roadVars, routesVars>>
<1>1. [ServicesNext]_mcVars => [DoorNext]_doorVars
  BY DEF ServicesNext, StandStill, mcVars
<1>2. [ServicesNext]_mcVars => [FailedNext]_failedVars
  BY DEF ServicesNext, StandStill, mcVars
<1>3. [ServicesNext]_mcVars => [PackNext]_packVars
  BY DEF ServicesNext, StandStill, mcVars
<1>4. [ServicesNext]_mcVars => [SettingsNext]_settingsVars
  BY DEF ServicesNext, StandStill, mcVars
<1>5. [ServicesNext]_mcVars => [CapacityNext]_capacityVars
  BY DEF ServicesNext, StandStill, mcVars
<1>6. [ServicesNext]_mcVars => [LoginNext]_loginVars
  BY DEF ServicesNext, StandStill, mcVars
<1>7. [ServicesNext]_mcVars => [CatalogueNext]_catalogueVars
  BY DEF ServicesNext, StandStill, mcVars
<1>8. [ServicesNext]_mcVars => [AddressNext]_addressVars
  BY DEF ServicesNext, StandStill, mcVars
<1>9. [ServicesNext]_mcVars => [NotesNext]_noteVars
  BY DEF ServicesNext, StandStill, mcVars
<1>10. [ServicesNext]_mcVars => [StartNext]_startVars
  BY DEF ServicesNext, StandStill, mcVars
<1>11. [ServicesNext]_mcVars => [TimelineNext]_timelineVars
  BY DEF ServicesNext, StandStill, mcVars
<1>12. [ServicesNext]_mcVars => [CartNext]_cartVars
  BY DEF ServicesNext, StandStill, mcVars
<1>13. [ServicesNext]_mcVars => [FleetNext]_<<roadVars, routesVars>>
  BY DEF ServicesNext, StandStill, mcVars, FleetNext
<1> QED BY <1>1, <1>2, <1>3, <1>4, <1>5, <1>6, <1>7, <1>8, <1>9, <1>10, <1>11,
           <1>12, <1>13

\* The composition starts each component as its specification does.
LEMMA ServicesStart ==
  ServicesInit =>
    /\ DoorInit
    /\ FailedInit
    /\ PackInit
    /\ SettingsInit
    /\ CapacityInit
    /\ LoginInit
    /\ CatalogueInit
    /\ AddressInit
    /\ NotesInit
    /\ StartInit
    /\ TimelineInit
    /\ CartInit
    /\ FleetInit /\ RoutesInit
  BY DEF ServicesInit

\* Every component behaves in the composition as on its own: the doorstep, the
\* failed delivery, packing, the settings, the capacity advice, signing in, the
\* catalogue, the addresses, the notifications, the start, the timeline, the cart,
\* and the road with the planning screen.
THEOREM ServicesImplement ==
  ServicesSpec =>
    /\ DoorSpec
    /\ FailedSpec
    /\ PackSpec
    /\ SettingsSpec
    /\ CapacitySpec
    /\ LoginSpec
    /\ CatalogueSpec
    /\ AddressSpec
    /\ NotesSpec
    /\ StartSpec
    /\ TimelineSpec
    /\ CartSpec
    /\ FleetSpec
  BY ServicesStart, ServicesStep, PTL
     DEF ServicesSpec, DoorSpec, FailedSpec, PackSpec, SettingsSpec, CapacitySpec,
         LoginSpec, CatalogueSpec, AddressSpec, NotesSpec, StartSpec, TimelineSpec,
         CartSpec, FleetSpec

\* Every variable of every component keeps its type in the composition.
THEOREM ServicesTypes == ServicesSpec => []ServicesTypeOK
<1>1. /\ DoorTypeOK /\ FailedTypeOK /\ PackTypeOK /\ SettingsTypeOK /\ CapacityTypeOK
      /\ LoginTypeOK /\ CatalogueTypeOK /\ AddressTypeOK /\ RoutesTypeOK /\ FleetTypeOK
      /\ NotesTypeOK /\ StartTypeOK /\ TimelineTypeOK /\ CartTypeOK
      => ServicesTypeOK
  BY DEF ServicesTypeOK
<1> QED BY <1>1, ServicesImplement, DoorTypes, FailedTypes, PackTypes, SettingsTypes,
           CapacityTypes, LoginTypes, CatalogueTypes, AddressTypes, RoutesTypes, FleetTypes,
           NotesTypes, StartTypes, TimelineTypes, CartTypes, PTL

\* What the components promise, each for itself, holds of all of them together.
THEOREM ServicesKeepPromises ==
  ServicesSpec =>
    /\ []EarningsCovered
    /\ []ShownCodeWorks
    /\ []PendingHasTask
    /\ []ReconciledGetsPacked
    /\ []ShortagesSettled
    /\ []ChangeIsSeen
    /\ []EventIsLookedAt
    /\ []SignInWorks
    /\ []ViewsAreCurrent
    /\ []OneDefault
    /\ []ClearedStaysCleared
    /\ []CartIsWhatWasAsked
    /\ []AlertedOnce
    /\ []ToursServeAll
    /\ NoRepeatedAdvice
    /\ NoWayBack
    /\ FirstStampStands
  BY ServicesImplement, PTL,
     EarningsAreCovered, ShownCodesWork, PendingTasks, ReconciledIsPacked,
     ShortagesAreSettled, ChangesAreSeen, EventsAreLookedAt, SignInIsSound, NoStaleView,
     OneDefaultAddress, ClearedIsCleared, CartIsAsked, AlertsOnce, ToursServe,
     AdviceIsNotRepeated, OverIsOver, StampsStand
=============================================================================
