------------------------------ MODULE Addresses ------------------------------
(***************************************************************************)
(* The delivery addresses of one customer, one of which may be the default *)
(* (addresses.controller.js), changed from several devices.                *)
(*                                                                         *)
(* PostgreSQL runs the transactions at READ COMMITTED: a statement sees    *)
(* the rows committed when it starts, waits for the locks on those it      *)
(* changes, and changes the ones that are still there.  The last statement *)
(* of a transaction and its COMMIT are one step, because nobody sees what  *)
(* is between them.  The columns beside is_default are left out.           *)
(***************************************************************************)
EXTENDS FiniteSets

CONSTANTS
    AddressIds,   \* ids an address can have
    NoAddress,    \* no id
    Errands       \* bound: requests in flight at once

ASSUME AddressAssumption == NoAddress \notin AddressIds

VARIABLES
    address,     \* addresses: is_default of each row, absent before and deleted after
    errand,      \* what each request in flight is doing
    overlooked,  \* history: a row became the default that another request's UPDATE missed
    revived      \* history: an edit wrote back a flag that had changed since

addressVars == <<address, errand, overlooked, revived>>

RowIds      == {a \in AddressIds : address[a] \in {"plain", "default"}}
DefaultRows == {a \in AddressIds : address[a] = "default"}

NoErrand == [at |-> "idle", id |-> NoAddress, flag |-> "plain", seen |-> {}, locked |-> {}]

ErrandAt(e, at) == errand[e].at = at

\* An id nobody has had (BIGSERIAL).
Unused(a) == address[a] = "absent" /\ \A e \in Errands : errand[e].id # a

\* No other transaction has changed one of these rows and not yet committed.
Unlocked(e, rows) == \A f \in Errands \ {e} : errand[f].locked \cap rows = {}

-----------------------------------------------------------------------------
\* Requests that make an address the default: setDefaultAddress, updateAddress
\* with nothing but isDefault or with isDefault in an edit, addAddress with
\* isDefault.  The last inserts its row, the others have looked it up.
MakeDefault(e, a, at) ==
    /\ ErrandAt(e, "idle")
    /\ errand' = [errand EXCEPT ![e] = [NoErrand EXCEPT !.at = at, !.id = a, !.flag = "default"]]
    /\ UNCHANGED <<address, overlooked, revived>>

SetDefault(e, a) == a \in RowIds /\ MakeDefault(e, a, "clear_set")

\* Mutant: addAddress does not clear the other flags.
AddDefaultAtOnce(e, a) == Unused(a) /\ MakeDefault(e, a, "add")

AddDefault(e, a) == Unused(a) /\ MakeDefault(e, a, "clear_add")

\* UPDATE addresses SET is_default = FALSE WHERE user_id: its snapshot.
ClearStarts(e) ==
    /\ \/ ErrandAt(e, "clear_set") /\ errand' = [errand EXCEPT ![e].at = "wait_set", ![e].seen = RowIds]
       \/ ErrandAt(e, "clear_add") /\ errand' = [errand EXCEPT ![e].at = "wait_add", ![e].seen = RowIds]
    /\ UNCHANGED <<address, overlooked, revived>>

\* It has all its locks, and changes what is still there.
ClearEnds(e) ==
    /\ Unlocked(e, errand[e].seen)
    /\ \/ ErrandAt(e, "wait_set") /\ errand' = [errand EXCEPT ![e].at = "set", ![e].locked = errand[e].seen \cap RowIds]
       \/ ErrandAt(e, "wait_add") /\ errand' = [errand EXCEPT ![e].at = "add", ![e].locked = errand[e].seen \cap RowIds]
    /\ UNCHANGED <<address, overlooked, revived>>

\* Row a becomes the default behind the back of another request, which clears
\* the flags without it.
Overlooks(e, a) ==
    overlooked' = (overlooked \/ \E f \in Errands \ {e} :
                     errand[f].at \in {"wait_set", "wait_add", "set", "add"} /\ a \notin errand[f].seen)

\* The rows as they are when errand e commits with row a set to flag.
Committed(e, a, flag) ==
    [b \in AddressIds |->
        IF b = a THEN flag
        ELSE IF b \in errand[e].locked THEN "plain" ELSE address[b]]

\* UPDATE ... SET is_default = TRUE WHERE id, COMMIT.  A row that was deleted
\* meanwhile stays away, and no row is the default.
SetCommits(e) ==
    /\ ErrandAt(e, "set")
    /\ LET a == errand[e].id
       IN  /\ Unlocked(e, {a})
           /\ address' = Committed(e, a, IF a \in RowIds THEN "default" ELSE address[a])
           /\ Overlooks(e, a)
    /\ errand' = [errand EXCEPT ![e] = NoErrand]
    /\ UNCHANGED revived

\* INSERT, COMMIT.
AddCommits(e) ==
    /\ ErrandAt(e, "add")
    /\ address' = Committed(e, errand[e].id, errand[e].flag)
    /\ Overlooks(e, errand[e].id)
    /\ errand' = [errand EXCEPT ![e] = NoErrand]
    /\ UNCHANGED revived

-----------------------------------------------------------------------------
\* Requests that make no address the default.

AddPlain(e, a) ==
    /\ ErrandAt(e, "idle")
    /\ Unused(a)
    /\ address' = [address EXCEPT ![a] = "plain"]
    /\ UNCHANGED <<errand, overlooked, revived>>

\* updateAddress reads the row before its transaction, and writes the flag it
\* read, or FALSE.
EditRead(e, a, keeps) ==
    /\ ErrandAt(e, "idle")
    /\ a \in RowIds
    /\ errand' = [errand EXCEPT ![e] =
         [NoErrand EXCEPT !.at = "edit", !.id = a, !.flag = IF keeps THEN address[a] ELSE "plain"]]
    /\ UNCHANGED <<address, overlooked, revived>>

EditWrite(e) ==
    /\ ErrandAt(e, "edit")
    /\ LET a == errand[e].id
       IN  /\ Unlocked(e, {a})
           /\ a \in RowIds
           /\ address' = [address EXCEPT ![a] = errand[e].flag]
           /\ revived' = (revived \/ (errand[e].flag = "default" /\ address[a] = "plain"))
    /\ errand' = [errand EXCEPT ![e] = NoErrand]
    /\ UNCHANGED overlooked

DeleteAddress(a) ==
    /\ a \in RowIds
    /\ \A e \in Errands : a \notin errand[e].locked
    /\ address' = [address EXCEPT ![a] = "deleted"]
    /\ UNCHANGED <<errand, overlooked, revived>>

\* A statement or the process fails: the transaction is rolled back.
ErrandFails(e) ==
    /\ ~ErrandAt(e, "idle")
    /\ errand' = [errand EXCEPT ![e] = NoErrand]
    /\ UNCHANGED <<address, overlooked, revived>>

AddressInit ==
    /\ address = [a \in AddressIds |-> "absent"]
    /\ errand = [e \in Errands |-> NoErrand]
    /\ overlooked = FALSE /\ revived = FALSE

ErrandStep(e) ==
    \/ \E a \in AddressIds : SetDefault(e, a) \/ AddDefault(e, a) \/ AddPlain(e, a)
    \/ \E a \in AddressIds, keeps \in BOOLEAN : EditRead(e, a, keeps)
    \/ ClearStarts(e) \/ ClearEnds(e) \/ SetCommits(e) \/ AddCommits(e)
    \/ EditWrite(e) \/ ErrandFails(e)

AddressNext ==
    \/ \E e \in Errands : ErrandStep(e)
    \/ \E a \in AddressIds : DeleteAddress(a)

AddressSpec == AddressInit /\ [][AddressNext]_addressVars

-----------------------------------------------------------------------------
\* Every variable of the addresses keeps its type; no row is locked twice.
AddressTypeOK ==
    /\ address \in [AddressIds -> {"absent", "plain", "default", "deleted"}]
    /\ errand \in [Errands ->
         [at : {"idle", "clear_set", "clear_add", "wait_set", "wait_add", "set", "add", "edit"},
          id : AddressIds \cup {NoAddress}, flag : {"plain", "default"},
          seen : SUBSET AddressIds, locked : SUBSET AddressIds]]
    /\ overlooked \in BOOLEAN /\ revived \in BOOLEAN
    /\ \A e, f \in Errands : e # f => errand[e].locked \cap errand[f].locked = {}

\* A customer never has two default addresses, however the requests of the
\* devices overlap, but for two ways the code leaves open: a row that is younger
\* than another request's UPDATE becomes the default before that request ends,
\* and an edit writes back a flag taken away since (addAddress, updateAddress,
\* setDefaultAddress).
OneDefault == ~overlooked /\ ~revived => \A a, b \in DefaultRows : a = b
=============================================================================
