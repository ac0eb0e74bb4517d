------------------------------- MODULE Startup -------------------------------
(***************************************************************************)
(* The database's shape and the process that depends on it: deploy.sh      *)
(* applies schema.sql and the migrations and restarts the process, and     *)
(* ensureSchema repairs what is missing before the server listens, one     *)
(* statement after the other, each failure of its own caught.              *)
(*                                                                         *)
(* A database is the set of the objects in it.  <<t, "">> is the table (or *)
(* the enum) t and <<t, x>> its column, index, constraint, value or seeded *)
(* row x; the columns nothing below names are left out.                    *)
(***************************************************************************)
EXTENDS Naturals, Sequences, SequencesExt

CONSTANTS
    MaxStarts,    \* bound: how often the process is started
    MaxFaults     \* bound: statements lost to an outage, or kills in mid-start

ASSUME StartAssumption == MaxStarts \in Nat /\ MaxFaults \in Nat

VARIABLES
    have,         \* the objects of the database
    phase,        \* "down", "scripts" (deploy.sh), "schema" (ensureSchema), "listening"
    at,           \* the script, or the section of ensureSchema, that comes next
    lapsed,       \* an outage took a statement of this start
    starts, faults

startVars == <<have, phase, at, lapsed, starts, faults>>

Objects(t, xs) == {<<t, x>> : x \in xs}

-----------------------------------------------------------------------------
\* Statements.  One does nothing when an object of `unless` is there, fails when
\* one of `needs` is not or one of `clash` is, and otherwise drops and makes.
NoEffect == [unless |-> {}, needs |-> {}, clash |-> {}, drops |-> {}, makes |-> {}]

Create(t, xs, refs) ==
    [NoEffect EXCEPT !.unless = {<<t, "">>}, !.makes = Objects(t, xs \cup {""}),
                    !.needs = {<<r, "">> : r \in refs}]
Add(t, x) == [NoEffect EXCEPT !.needs = {<<t, "">>}, !.makes = {<<t, x>>}]
AddRef(t, x, r) == [NoEffect EXCEPT !.needs = {<<t, "">>, <<r, "">>}, !.makes = {<<t, x>>}]
Index(t, name, xs) ==
    [NoEffect EXCEPT !.unless = {<<t, name>>}, !.needs = Objects(t, xs \cup {""}),
                    !.makes = {<<t, name>>}]
Touch(needs) == [NoEffect EXCEPT !.needs = needs]
Seed(t, row, xs) ==
    [NoEffect EXCEPT !.needs = Objects(t, xs \cup {""}), !.makes = {<<t, row>>}]

Succeeds(q, db) == q.unless \cap db # {} \/ (q.needs \subseteq db /\ q.clash \cap db = {})
After(q, db) == IF q.unless \cap db # {} THEN db ELSE (db \ q.drops) \cup q.makes

\* A transaction, or statements sent as one query: all of them or none.
QueryOutcome(qs, db) ==
    LET Run(r, q) == [ok |-> r.ok /\ Succeeds(q, r.db), db |-> After(q, r.db)]
        done == FoldLeft(Run, [ok |-> TRUE, db |-> db], qs)
    IN  IF done.ok THEN done ELSE [ok |-> FALSE, db |-> db]
AllOrNone(qs, db) == QueryOutcome(qs, db).db

\* A step in its try: the first query that fails ends it, those before it stay.
StepOutcome(step, db) ==
    LET Run(r, qs) == IF r.ok THEN QueryOutcome(qs, r.db) ELSE r
    IN  FoldLeft(Run, [ok |-> TRUE, db |-> db], step).db

Each(Op(_), xs) == [i \in DOMAIN xs |-> <<<<Op(xs[i])>>>>]
Adds(t, xs)     == LET A(x) == Add(t, x) IN Each(A, xs)

-----------------------------------------------------------------------------
\* The steps of ensureSchema in their order.  A step is a sequence of queries (an
\* error skips the rest of its step), a query a sequence of statements.
One(q) == <<<<q>>>>

DropLegacySlots ==
    [NoEffect EXCEPT !.unless = {<<"delivery_slots", "slot_date">>},
                    !.drops = Objects("delivery_slots", {"", "slot_time", "name"})]
SlotTable ==
    Create("delivery_slots", {"name", "slot_date", "booked", "is_active"}, {})
SlotIndexes ==
    << Index("delivery_slots", "by_date_name", {"slot_date", "name"}),
       Index("delivery_slots", "by_date", {"slot_date"}),
       Index("delivery_slots", "by_active", {"is_active", "slot_date"}) >>
SlotFunction == [NoEffect EXCEPT !.makes = {<<"auto_generate_delivery_slots", "">>}]

SettingsColumns == {"value", "updated_at", "delivery_charge", "min_order_amount", "store_open",
                    "store_acceptance_mode", "store_open_time", "store_close_time",
                    "delivery_radius_km"}

\* repairAppSettingsSchema: one statement for each column that is missing.
RepairAppSettings ==
    LET Repair(x) == <<Add("app_settings", x)>>
    IN  << Repair("id") >> \o
        [i \in 1 .. 9 |-> Repair(<<"value", "updated_at", "delivery_charge", "min_order_amount",
            "store_open", "store_acceptance_mode", "store_open_time", "store_close_time",
            "delivery_radius_km">>[i])]

\* Mutant: the store's row before its table.
StoreRowFirst ==
    << One(Create("app_settings", {"id"} \cup SettingsColumns, {})),
       RepairAppSettings,
       One(Add("app_settings", "id")),
       One(Seed("store_settings", "row", {})),
       One(Create("store_settings", {"id"}, {})),
       One(Add("store_settings", "id")) >>

SettingsSteps ==
    << One(Create("app_settings", {"id"} \cup SettingsColumns, {})),
       RepairAppSettings,
       One(Add("app_settings", "id")),
       One(Create("store_settings", {"id"}, {})),
       One(Add("store_settings", "id")),
       One(Seed("store_settings", "row", {})) >>

CatalogueSteps ==
    << One(Add("categories", "sort_order")),
       One(Add("products", "base_price_per_kg")),
       One(Touch(Objects("products", {"base_price_per_kg", "price"}))) >>
    \o Adds("products", <<"mrp", "weight_variants", "cut_types", "marination_options",
                          "freshness_date", "created_at", "updated_at">>)

PartnerSteps ==
    Adds("delivery_partners", <<"approved", "vehicle_number", "licence_number",
                                "bank_details", "earnings">>)
    \o << One(Add("users", "is_active")),
          One(Touch(Objects("delivery_partners", {"user_id"}) \cup
                    Objects("users", {"role"}) \cup {<<"order_assignments", "">>})),
          One(Create("order_assignments", {"delivery_partner_id", "status"},
                     {"orders", "delivery_partners"})),
          One(Index("order_assignments", "by_partner", {"delivery_partner_id"})) >>
    \o Adds("users", <<"mfa_enabled", "mfa_secret", "mfa_backup_codes">>)

PaymentCheck == <<"orders", "payment_status_check">>

PaymentSteps ==
    << One(Create("payment_transactions", {"order_id", "status", "gateway_order_id",
                "gateway_payment_id", "gateway_transaction_id", "created_at"}, {"orders"})),
       One(Add("payment_transactions", "gateway_order_id")),
       One(Add("payment_transactions", "gateway_payment_id")),
       << << Index("payment_transactions", "by_order", {"order_id"}),
             Index("payment_transactions", "by_status", {"status"}),
             Index("payment_transactions", "by_gateway", {"gateway_transaction_id"}),
             Index("payment_transactions", "by_creation", {"created_at"}) >> >>,
       One([Add("orders", "payment_status") EXCEPT !.unless = {<<"orders", "payment_status">>},
                 !.makes = @ \cup {PaymentCheck}]),
       << <<[Touch({<<"orders", "">>}) EXCEPT !.drops = {PaymentCheck}]>>,
          <<[Touch({<<"orders", "payment_status">>}) EXCEPT !.clash = {PaymentCheck},
                 !.makes = {PaymentCheck}]>> >>,
       One(Index("orders", "by_payment_status", {"payment_status"})) >>

AddressSteps ==
    << One(Create("addresses", {"user_id", "address_line1", "address_line2", "city", "state",
                "pincode", "address_type", "latitude", "longitude", "is_default", "label",
                "address_line", "lat", "lng"}, {"users"})) >>
    \o Adds("addresses", <<"address_line1", "address_line2", "city", "state", "pincode",
                           "address_type", "latitude", "longitude">>)
    \o << One(Touch(Objects("addresses", {"city", "state", "latitude", "longitude",
                                          "address_type"}))),
          One(Touch(Objects("addresses", {"address_line1", "address_line", "latitude", "lat",
                                          "longitude", "lng", "address_type", "label"}))),
          One(Touch(Objects("addresses", {"label", "address_line", "lat", "lng"}))),
          << << Index("addresses", "by_user", {"user_id"}),
                Index("addresses", "by_default", {"user_id", "is_default"}) >> >> >>

CategorySeeds ==
    Adds("otp_logs", <<"template_id", "msg91_response">>)
    \o << One(Seed("categories", "default_rows", {"name", "image_url", "sort_order", "active"})),
          One(Touch(Objects("categories", {"name", "image_url"}))) >>

SlotSteps ==
    << One(DropLegacySlots), One(SlotTable), << SlotIndexes >>,
       One(SlotFunction), One(SlotFunction),
       One(Touch({<<"auto_generate_delivery_slots", "">>})) >>
    \o Adds("order_status", <<"PICKED_UP", "ON_THE_WAY">>)
    \o Adds("delivery_slots", <<"max_orders", "current_orders">>)
    \o << One(Touch(Objects("delivery_slots", {"current_orders", "booked"}))) >>

OrderSteps ==
    Adds("orders", <<"estimated_delivery_time", "eta_minutes", "delivery_slot_id">>)
    \o << One(Touch({<<"orders", "delivery_slot_id">>})),
          One(Index("orders", "by_eta", {"estimated_delivery_time"})) >>
    \o Adds("orders", <<"updated_at", "coupon_released_at">>)
    \o << One(Index("orders", "by_coupon", {"customer_id", "coupon_id", "coupon_released_at"})),
          One(Add("delivery_partners", "updated_at")),
          One(Add("order_assignments", "updated_at")),
          One(Add("users", "fcm_token")),
          One(Index("users", "by_fcm_token", {"fcm_token"})),
          One(Create("schema_migrations", {"name"}, {})) >>

StatusValues == <<"PAYMENT_PENDING", "PAYMENT_VERIFIED", "PACKING_STARTED", "RIDER_ASSIGNED",
                  "RIDER_ACCEPTED", "RIDER_REJECTED", "RIDER_NEARBY", "REFUNDED">>

FailedDeliverySteps ==
    Adds("order_status", StatusValues \o <<"FAILED_DELIVERY">>)
    \o << One(Add("assignment_status", "FAILED")) >>
    \o Adds("orders", <<"failed_delivery_reason", "failed_delivery_at">>)
    \o << One(AddRef("orders", "failed_delivery_by", "users")), One(Add("orders", "returned_at")),
          One(AddRef("orders", "returned_by", "users")) >>
    \o Adds("orders", <<"return_reason", "return_condition", "failed_delivery_resolution",
                        "failed_delivery_resolved_at">>)
    \o << One(AddRef("orders", "failed_delivery_resolved_by", "users")),
          One(Create("admin_tasks", {"status", "task_type"}, {"orders", "users"})),
          One(Index("admin_tasks", "open_tasks", {"status", "task_type"})) >>

CustomerSteps ==
    Adds("order_assignments", <<"delivery_image_url", "delivery_notes", "delivered_at",
                                "batch_ids">>)
    \o Adds("users", <<"email", "profile_image_url", "updated_at">>)
    \o << One(Create("user_notifications", {"user_id", "created_at"}, {"users"})),
          One(Index("user_notifications", "by_user", {"user_id", "created_at"})),
          One(Create("wishlists", {}, {"users", "products"})),
          One(Create("order_reviews", {}, {"orders", "users"})),
          One(Create("product_ratings", {}, {"products", "users", "orders"})) >>

WeightSteps ==
    Adds("order_items", <<"ordered_weight_g", "actual_weight_g", "weight_delta_g", "supplement_g",
            "weight_refund_amount", "weight_reconciliation_action", "reconciled_at">>)
    \o << One(Touch(Objects("order_items", {"ordered_weight_g", "quantity", "product_id"}) \cup
                    {<<"products", "weight_variants">>})) >>
    \o Adds("orders", <<"packed_at", "weight_reconciliation_status",
            "weight_reconciliation_completed_at", "weight_reconciliation_total_refund">>)
    \o << One(Create("order_weight_reconciliations", {"order_id"},
                     {"orders", "order_items", "users"})),
          One(Index("order_weight_reconciliations", "by_order", {"order_id"})) >>

RefundSteps ==
    << One(Create("order_partial_refunds", {"order_id", "gateway_refund_id", "idempotency_key"},
                  {"orders", "order_items"})),
       One(Index("order_partial_refunds", "by_order", {"order_id"})),
       One(Add("order_partial_refunds", "gateway_refund_id")),
       One(Add("order_partial_refunds", "idempotency_key")),
       One(Index("order_partial_refunds", "one_per_key", {"idempotency_key"})),
       One(Create("inventory_movements", {"order_id"}, {"products", "orders", "order_items"})),
       One(Index("inventory_movements", "by_order", {"order_id"})) >>

EventTable ==
    << One(Create("operational_events", {"event_type", "order_id", "created_at"},
                  {"orders", "users"})),
       One(Index("operational_events", "by_type", {"event_type", "created_at"})),
       One(Add("delivery_partners", "operational_status")) >>
RiderOfEvent == One(AddRef("operational_events", "rider_id", "delivery_partners"))
EventsByOrder == One(Index("operational_events", "by_order", {"order_id", "created_at"}))
EventsByRider == One(Index("operational_events", "by_rider", {"rider_id", "created_at"}))
EventSteps == EventTable \o <<RiderOfEvent, EventsByOrder, EventsByRider>>

MetricSteps ==
    Adds("orders", <<"confirmed_at", "packing_started_at", "dispatch_queued_at", "assigned_at",
            "rider_accepted_at", "out_for_delivery_at", "delivered_at", "refunded_at">>)
    \o << One(Create("delivery_batches", {"anchor_order_id", "created_at"}, {"orders"})),
          One(Index("delivery_batches", "by_anchor", {"anchor_order_id", "created_at"})),
          One(Create("capacity_suggestions", {"created_at"}, {})),
          One(Index("capacity_suggestions", "by_creation", {"created_at"})),
          One(Create("business_metrics_daily_rollup", {"metric_date"}, {})),
          One(Index("business_metrics_daily_rollup", "by_date", {"metric_date"})) >>
    \o Adds("delivery_partners", <<"availability_status", "estimated_return_at",
            "estimated_return_minutes", "active_order_count">>)
    \o << One(Index("delivery_partners", "by_availability", {"availability_status", "is_online"})),
          One(Add("delivery_partners", "kyc_status")),
          One(Touch(Objects("delivery_partners", {"kyc_status", "approved"}))) >>

\* The steps in their order; the sections only keep them together.
Sections == << SettingsSteps, CatalogueSteps, PartnerSteps, PaymentSteps, AddressSteps,
               CategorySeeds, SlotSteps, OrderSteps, FailedDeliverySteps, CustomerSteps,
               WeightSteps, RefundSteps, EventSteps, MetricSteps >>

\* Columns of older address rows: no statement adds them to a table that lacks them.
LegacyAddress == Objects("addresses", {"label", "address_line", "lat", "lng"})

\* The objects the first n sections promise.
Makes(step) == UNION {UNION {q.makes : q \in ToSet(step[j])} : j \in DOMAIN step}
Promised == [n \in 0 .. Len(Sections) |->
    UNION {UNION {Makes(step) : step \in ToSet(Sections[c])} : c \in 1 .. n} \ LegacyAddress]

-----------------------------------------------------------------------------
\* schema.sql is one transaction: an index on a column that an older table lacks
\* undoes all of it, the later "backward-compatible" ALTERs included.
BaseTables ==
    Objects("users", {"", "id", "role"}) \cup
    Objects("categories", {"", "name", "image_url", "active"}) \cup
    Objects("products", {"", "price", "category_id", "active"}) \cup
    Objects("coupons", {"", "active"}) \cup
    Objects("orders", {"", "customer_id", "coupon_id", "status", "created_at"}) \cup
    Objects("order_items", {"", "order_id", "product_id", "quantity"}) \cup
    Objects("delivery_partners", {"", "user_id", "is_online"}) \cup
    Objects("otp_logs", {"", "phone", "created_at"}) \cup
    Objects("banners", {"", "active", "sort_order"}) \cup
    {<<"user_role", "">>, <<"order_status", "">>, <<"assignment_status", "">>}

SchemaEnums ==
    << [NoEffect EXCEPT !.makes = {<<"user_role", "">>, <<"assignment_status", "">>}],
       [NoEffect EXCEPT !.unless = {<<"order_status", "">>},
             !.makes = Objects("order_status", {"", "PICKED_UP", "ON_THE_WAY"})] >>

SchemaTables ==
    << Create("users", {"id", "role", "mfa_enabled", "mfa_secret", "mfa_backup_codes"}, {}),
       Create("categories", {"name", "image_url", "sort_order", "active"}, {}),
       Index("categories", "by_sort_order", {"sort_order"}),
       Create("products", {"price", "category_id", "active", "mrp"}, {"categories"}),
       Create("coupons", {"active"}, {}),
       Create("orders", {"customer_id", "coupon_id", "status", "created_at", "updated_at",
                         "coupon_released_at", "delivery_slot_id"}, {"users", "coupons"}),
       Index("orders", "by_coupon", {"customer_id", "coupon_id", "coupon_released_at"}),
       Create("order_items", {"order_id", "product_id", "quantity"}, {"orders", "products"}),
       Create("delivery_partners", {"user_id", "is_online", "approved", "vehicle_number",
                    "licence_number", "bank_details", "earnings", "updated_at"}, {"users"}),
       Index("delivery_partners", "by_approved", {"approved"}),
       Create("app_settings", {"id"} \cup SettingsColumns, {}),
       Add("categories", "sort_order") >>
    \o [i \in 1 .. 5 |-> Add("delivery_partners",
            <<"approved", "vehicle_number", "licence_number", "bank_details", "earnings">>[i])]
    \o << Create("order_assignments", {"delivery_partner_id", "status", "batch_ids", "updated_at"},
                 {"orders", "delivery_partners"}),
          Index("order_assignments", "by_partner", {"delivery_partner_id"}),
          Create("banners", {"active", "sort_order"}, {}),
          Create("otp_logs", {"phone", "created_at", "template_id", "msg91_response"}, {}) >>

SchemaSql == SchemaEnums \o SchemaTables \o <<SlotTable>> \o SlotIndexes \o <<SlotFunction>>

AddSlots        == <<DropLegacySlots, SlotTable>> \o SlotIndexes \o <<SlotFunction>>
AddFcmToken     == <<Add("users", "fcm_token"), Index("users", "by_fcm_token", {"fcm_token"})>>
AddStaffRole    == <<Add("user_role", "staff")>>
AddMissing ==
    <<Add("orders", "updated_at"), Add("delivery_partners", "updated_at"),
      Add("order_assignments", "updated_at"), Add("users", "fcm_token"),
      Index("users", "by_fcm_token", {"fcm_token"}), Create("schema_migrations", {"name"}, {})>>

\* Two transactions of one script: the second moves assignments only.
MigrateStatuses ==
    << Touch(Objects("order_status", {"PICKED_UP", "ON_THE_WAY"}) \cup {<<"orders", "">>}) >>
    \o [i \in 1 .. 9 |-> Add("order_status", (StatusValues \o <<"FAILED">>)[i])]

\* deploy.sh runs them in this order and goes on whatever they return.
Scripts == <<SchemaSql, AddSlots, AddFcmToken, AddStaffRole, AddMissing, MigrateStatuses>>

-----------------------------------------------------------------------------
\* A database no script was run on; one of this edition; and one of an earlier
\* edition, with the addresses table of create_addresses_table.sql.
Older ==
    BaseTables \cup Objects("delivery_slots", {"", "slot_time", "name"}) \cup
    Objects("addresses", {"", "user_id", "address_line1", "address_line2", "city", "state",
        "pincode", "address_type", "latitude", "longitude", "is_default", "by_user", "by_default"})

StartInit ==
    /\ have \in {{}, AllOrNone(SchemaSql, {}), Older}
    /\ phase = "down" /\ at = 1 /\ lapsed = FALSE
    /\ starts = 0 /\ faults = 0

Deploy ==
    /\ phase = "down" /\ starts < MaxStarts
    /\ phase' = "scripts" /\ at' = 1
    /\ UNCHANGED <<have, lapsed, starts, faults>>

\* psql or node runs the next file, or the database does not answer it.
RunScript ==
    /\ phase = "scripts" /\ at <= Len(Scripts)
    /\ at' = at + 1
    /\ \/ have' = AllOrNone(Scripts[at], have) /\ UNCHANGED faults
       \/ /\ faults < MaxFaults /\ faults' = faults + 1
          /\ UNCHANGED have
    /\ UNCHANGED <<phase, lapsed, starts>>

\* pm2 starts the process, after the scripts or without them (SKIP_MIGRATE, a crash).
Boot ==
    /\ phase = "down" \/ (phase = "scripts" /\ at > Len(Scripts))
    /\ starts < MaxStarts /\ starts' = starts + 1
    /\ phase' = "schema" /\ at' = 1 /\ lapsed' = FALSE
    /\ UNCHANGED <<have, faults>>

\* The database after some steps of ensureSchema.
StepsDone(steps, db) == LET Run(r, step) == StepOutcome(step, r) IN FoldLeft(Run, db, steps)

\* A section of ensureSchema: an error is logged and ends its step only.  The database
\* answers, or it fails from a query of step i on: it is back for the next step or for
\* the next section, or the process is killed.  Nobody else changes the schema.
EnsureSection ==
    /\ phase = "schema" /\ at <= Len(Sections)
    /\ have' = StepsDone(Sections[at], have) /\ at' = at + 1
    /\ UNCHANGED <<phase, lapsed, starts, faults>>

EnsureSectionLapses ==
    /\ phase = "schema" /\ at <= Len(Sections)
    /\ faults < MaxFaults /\ faults' = faults + 1
    /\ LET steps == Sections[at] IN
       \E i \in DOMAIN steps : \E n \in 0 .. Len(steps[i]) - 1 :
         LET before == StepOutcome(SubSeq(steps[i], 1, n), StepsDone(SubSeq(steps, 1, i - 1), have))
         IN  \/ /\ \/ have' = before
                   \/ have' = StepsDone(SubSeq(steps, i + 1, Len(steps)), before)
                /\ at' = at + 1 /\ lapsed' = TRUE /\ UNCHANGED phase
             \/ /\ have' = before
                /\ phase' = "down" /\ at' = 1 /\ UNCHANGED lapsed
    /\ UNCHANGED starts

\* The server listens after the last step, whatever became of the steps.
Listen ==
    /\ phase = "schema" /\ at > Len(Sections)
    /\ phase' = "listening"
    /\ UNCHANGED <<have, at, lapsed, starts, faults>>

\* SIGTERM, SIGINT, an uncaught error: gracefulShutdown, and pm2 restarts.
StopProcess ==
    /\ phase = "listening"
    /\ phase' = "down" /\ at' = 1 /\ lapsed' = FALSE
    /\ UNCHANGED <<have, starts, faults>>

StartNext == Deploy \/ RunScript \/ Boot \/ EnsureSection \/ EnsureSectionLapses
             \/ Listen \/ StopProcess

StartSpec == StartInit /\ [][StartNext]_startVars

-----------------------------------------------------------------------------
StartTypeOK ==
    /\ phase \in {"down", "scripts", "schema", "listening"}
    /\ at \in Nat /\ lapsed \in BOOLEAN
    /\ starts \in 0 .. MaxStarts /\ faults \in 0 .. MaxFaults

\* While the database answers, every section of ensureSchema leaves behind what it and
\* the sections before it promise, on a database that holds the base tables: whatever
\* a script or an earlier start left half done, and whatever older shape it had.  A
\* process that listens after such a start finds all of it.
SchemaIsRepaired ==
    phase \in {"schema", "listening"} /\ ~lapsed /\ BaseTables \subseteq have =>
        Promised[at - 1] \subseteq have
=============================================================================
