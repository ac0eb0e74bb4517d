----------------------------- MODULE MCServices -----------------------------
(***************************************************************************)
(* Instances of the components beside the money for TLC, all in one run.   *)
(* They share no state in the models (what one does to another is an       *)
(* action of the other, see the README), so that a product of their states *)
(* shows nothing: each behaviour follows the one component in focus, and   *)
(* the others stand still.                                                 *)
(***************************************************************************)
EXTENDS Doorstep, FailedDelivery, Packing,
        StoreSettings, CapacitySuggestion, Login, Catalogue,
        Addresses, Routes, Fleet, Notifications,
        Startup, Timeline, Cart

VARIABLE focus    \* the component this behaviour follows

Components == {"door", "failed", "packing", "settings", "capacity",
               "login", "catalogue", "addresses", "routes", "road", "notes",
               "startup", "timeline", "cart"}

mcVars == <<focus, doorVars, failedVars, packVars,
            settingsVars, capacityVars, loginVars, catalogueVars, addressVars,
            routesVars, roadVars, noteVars,
            startVars, timelineVars, cartVars>>

OpenHours == {<<2, 1>>}
TwoLines  == [o \in Trays |-> IF o = CHOOSE x \in Trays : TRUE THEN <<4, 6>> ELSE <<4>>]
Doors     == <<14, 22, 5, 9, 3, 8, 1, 7, 12, 6>>

\* Where a component that is not in focus has a choice, it has none.
Quiet ==
    /\ focus # "packing" => units = 0
    /\ focus # "startup" => have = {}
    /\ focus # "catalogue" => categories = {} /\ \A p \in Products : products[p] = Absent

ServicesInit ==
    /\ focus \in Components
    /\ DoorInit
    /\ FailedInit
    /\ PackInit
    /\ SettingsInit
    /\ CapacityInit
    /\ LoginInit
    /\ CatalogueInit
    /\ AddressInit
    /\ RoutesInit
    /\ FleetInit
    /\ NotesInit
    /\ StartInit
    /\ TimelineInit
    /\ CartInit
    /\ Quiet

StandStill(c) ==
    /\ UNCHANGED focus
    /\ c # "door"      => UNCHANGED doorVars
    /\ c # "failed"    => UNCHANGED failedVars
    /\ c # "packing"   => UNCHANGED packVars
    /\ c # "settings"  => UNCHANGED settingsVars
    /\ c # "capacity"  => UNCHANGED capacityVars
    /\ c # "login"     => UNCHANGED loginVars
    /\ c # "catalogue" => UNCHANGED catalogueVars
    /\ c # "addresses" => UNCHANGED addressVars
    /\ c # "routes"    => UNCHANGED routesVars
    /\ c # "road"      => UNCHANGED roadVars
    /\ c # "notes"     => UNCHANGED noteVars
    /\ c # "startup"   => UNCHANGED startVars
    /\ c # "timeline"  => UNCHANGED timelineVars
    /\ c # "cart"      => UNCHANGED cartVars

ServicesNext ==
    \/ focus = "door"      /\ DoorNext /\ StandStill("door")
    \/ focus = "failed"    /\ FailedNext /\ StandStill("failed")
    \/ focus = "packing"   /\ PackNext /\ StandStill("packing")
    \/ focus = "settings"  /\ SettingsNext /\ StandStill("settings")
    \/ focus = "capacity"  /\ CapacityNext /\ StandStill("capacity")
    \/ focus = "login"     /\ LoginNext /\ StandStill("login")
    \/ focus = "catalogue" /\ CatalogueNext /\ StandStill("catalogue")
    \/ focus = "addresses" /\ AddressNext /\ StandStill("addresses")
    \/ focus = "routes"    /\ RoutesNext /\ StandStill("routes")
    \/ focus = "road"      /\ RoadNext /\ StandStill("road")
    \/ focus = "notes"     /\ NotesNext /\ StandStill("notes")
    \/ focus = "startup"   /\ StartNext /\ StandStill("startup")
    \/ focus = "timeline"  /\ TimelineNext /\ StandStill("timeline")
    \/ focus = "cart"      /\ CartNext /\ StandStill("cart")

ServicesSpec == ServicesInit /\ [][ServicesNext]_mcVars

-----------------------------------------------------------------------------
\* The type invariants of the components that are followed only here.
ServicesTypeOK ==
    /\ focus = "door"      => DoorTypeOK
    /\ focus = "failed"    => FailedTypeOK
    /\ focus = "packing"   => PackTypeOK
    /\ focus = "settings"  => SettingsTypeOK
    /\ focus = "capacity"  => CapacityTypeOK
    /\ focus = "login"     => LoginTypeOK
    /\ focus = "catalogue" => CatalogueTypeOK
    /\ focus = "addresses" => AddressTypeOK
    /\ focus = "routes"    => RoutesTypeOK
    /\ focus = "road"      => FleetTypeOK
    /\ focus = "notes"     => NotesTypeOK
    /\ focus = "startup"   => StartTypeOK
    /\ focus = "timeline"  => TimelineTypeOK
    /\ focus = "cart"      => CartTypeOK
=============================================================================
