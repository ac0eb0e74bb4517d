--------------------------- MODULE CustomerProofs ---------------------------
(***************************************************************************)
(* What the customer's own side promises, for any number of requests in    *)
(* flight: the default address (Addresses), notifications (Notifications), *)
(* the cart (Cart), signing in (Login) and what is shown of the shop       *)
(* (Catalogue): no view of an older edition, unless it was made during a   *)
(* change or its store was left out of the sweep.                          *)
(***************************************************************************)
EXTENDS Addresses, Notifications, Cart, Login, Catalogue, SequenceTheorems, TLAPS

-----------------------------------------------------------------------------
(* Addresses. *)

\* Neither of the two ways around the locks has been taken.
Undisturbed == ~overlooked /\ ~revived

\* What errand e relies on: its clearing reaches every default row; what it saw
\* had been inserted; what it saw and did not lock is gone for good, and what it
\* locked is there; the row it is going to insert is not.
ClearingReaches(e) ==
    /\ errand[e].locked \subseteq RowIds
    /\ errand[e].at \in {"wait_set", "wait_add", "set", "add"} =>
         \A a \in errand[e].seen : a \in AddressIds /\ address[a] # "absent"
    /\ errand[e].at \in {"set", "add"} =>
         \A a \in errand[e].seen \ errand[e].locked : address[a] = "deleted"
    /\ errand[e].at \in {"clear_add", "wait_add", "add"} =>
         errand[e].id \in AddressIds /\ address[errand[e].id] = "absent"
    /\ Undisturbed =>
         /\ errand[e].at \in {"wait_set", "wait_add"} => DefaultRows \subseteq errand[e].seen
         /\ errand[e].at \in {"set", "add"} => DefaultRows \subseteq errand[e].locked

\* Two errands never insert the same row.
OwnIds ==
    \A e, f \in Errands :
        e # f /\ errand[e].at \in {"clear_add", "wait_add", "add"}
              /\ errand[f].at \in {"clear_add", "wait_add", "add"} => errand[e].id # errand[f].id

AddressInv == AddressTypeOK /\ OneDefault /\ OwnIds /\ \A e \in Errands : ClearingReaches(e)

ErrandRecords ==
    [at : {"idle", "clear_set", "clear_add", "wait_set", "wait_add", "set", "add", "edit"},
     id : AddressIds \cup {NoAddress}, flag : {"plain", "default"},
     seen : SUBSET AddressIds, locked : SUBSET AddressIds]

-----------------------------------------------------------------------------
\* An errand that changes only its own record, which is typed and has no more
\* locks than before, keeps the types.
LEMMA OwnRecordTyped ==
  ASSUME AddressTypeOK, NEW e \in Errands, NEW x \in ErrandRecords,
         errand' = [errand EXCEPT ![e] = x], x.locked \subseteq errand[e].locked,
         UNCHANGED <<overlooked, revived>>,
         address' \in [AddressIds -> {"absent", "plain", "default", "deleted"}]
  PROVE  AddressTypeOK'
<1>1. errand' \in [Errands -> ErrandRecords]
  BY DEF AddressTypeOK, ErrandRecords
<1>2. \A f \in Errands : errand'[f].locked \subseteq errand[f].locked
  BY DEF AddressTypeOK, ErrandRecords
<1>3. ASSUME NEW f \in Errands, NEW g \in Errands, f # g
      PROVE  errand'[f].locked \cap errand'[g].locked = {}
  <2>1. errand[f].locked \cap errand[g].locked = {}
    BY <1>3 DEF AddressTypeOK
  <2> QED BY <1>2, <2>1
<1> QED BY <1>1, <1>3 DEF AddressTypeOK, ErrandRecords

\* The requests that are asked for keep the types.
LEMMA AskedTyped ==
  ASSUME AddressTypeOK, NEW e \in Errands, NEW a \in AddressIds,
         \/ SetDefault(e, a) \/ AddDefault(e, a) \/ AddPlain(e, a)
         \/ \E keeps \in BOOLEAN : EditRead(e, a, keeps)
  PROVE  AddressTypeOK'
<1>1. CASE SetDefault(e, a)
  <2>1. [NoErrand EXCEPT !.at = "clear_set", !.id = a, !.flag = "default"] \in ErrandRecords
    BY DEF NoErrand, ErrandRecords
  <2> QED BY <1>1, <2>1, OwnRecordTyped DEF SetDefault, MakeDefault, NoErrand, AddressTypeOK
<1>2. CASE AddDefault(e, a)
  <2>1. [NoErrand EXCEPT !.at = "clear_add", !.id = a, !.flag = "default"] \in ErrandRecords
    BY DEF NoErrand, ErrandRecords
  <2> QED BY <1>2, <2>1, OwnRecordTyped DEF AddDefault, MakeDefault, NoErrand, AddressTypeOK
<1>3. CASE AddPlain(e, a)
  BY <1>3 DEF AddPlain, AddressTypeOK
<1>4. ASSUME NEW keeps \in BOOLEAN, EditRead(e, a, keeps) PROVE AddressTypeOK'
  <2>1. [NoErrand EXCEPT !.at = "edit", !.id = a, !.flag = IF keeps THEN address[a] ELSE "plain"]
          \in ErrandRecords
    BY <1>4 DEF EditRead, RowIds, NoErrand, ErrandRecords
  <2> QED BY <1>4, <2>1, OwnRecordTyped DEF EditRead, NoErrand, AddressTypeOK
<1> QED BY <1>1, <1>2, <1>3, <1>4

\* The statements of the requests keep the types.
LEMMA ErrandsTyped ==
  ASSUME AddressTypeOK, NEW e \in Errands,
         \/ ClearStarts(e) \/ ClearEnds(e) \/ SetCommits(e) \/ AddCommits(e)
         \/ EditWrite(e) \/ ErrandFails(e)
  PROVE  AddressTypeOK'
<1>0. /\ errand[e] \in ErrandRecords /\ NoErrand \in ErrandRecords /\ RowIds \subseteq AddressIds
      /\ address \in [AddressIds -> {"absent", "plain", "default", "deleted"}]
      /\ NoErrand.locked = {}
  BY DEF AddressTypeOK, ErrandRecords, NoErrand, RowIds
<1>1. CASE ClearStarts(e)
  <2>1. /\ [errand[e] EXCEPT !.at = "wait_set", !.seen = RowIds] \in ErrandRecords
        /\ [errand[e] EXCEPT !.at = "wait_add", !.seen = RowIds] \in ErrandRecords
    BY <1>0 DEF ErrandRecords
  <2>2. PICK x \in ErrandRecords : errand' = [errand EXCEPT ![e] = x] /\ x.locked = errand[e].locked
    BY <1>0, <1>1, <2>1 DEF ClearStarts, ErrandRecords
  <2> QED BY <1>0, <1>1, <2>2, OwnRecordTyped DEF ClearStarts
<1>2. CASE ClearEnds(e)
  <2>1. PICK x \in ErrandRecords : errand' = [errand EXCEPT ![e] = x]
                                   /\ x.locked = errand[e].seen \cap RowIds
    <3>1. /\ [errand[e] EXCEPT !.at = "set", !.locked = errand[e].seen \cap RowIds] \in ErrandRecords
          /\ [errand[e] EXCEPT !.at = "add", !.locked = errand[e].seen \cap RowIds] \in ErrandRecords
      BY <1>0 DEF ErrandRecords
    <3>2. CASE errand' = [errand EXCEPT ![e].at = "set", ![e].locked = errand[e].seen \cap RowIds]
      <4> USE <3>1
      <4> WITNESS [errand[e] EXCEPT !.at = "set", !.locked = errand[e].seen \cap RowIds] \in ErrandRecords
      <4> QED BY ZenonT(60), <1>0, <3>2 DEF ErrandRecords
    <3>3. CASE errand' = [errand EXCEPT ![e].at = "add", ![e].locked = errand[e].seen \cap RowIds]
      <4> USE <3>1
      <4> WITNESS [errand[e] EXCEPT !.at = "add", !.locked = errand[e].seen \cap RowIds] \in ErrandRecords
      <4> QED BY ZenonT(60), <1>0, <3>3 DEF ErrandRecords
    <3> QED BY <1>2, <3>2, <3>3 DEF ClearEnds
  <2>2. errand' \in [Errands -> ErrandRecords]
    BY <2>1 DEF AddressTypeOK, ErrandRecords
  <2>3. \A f \in Errands \ {e} : errand'[f] = errand[f] /\ errand[f].locked \cap x.locked = {}
    BY <1>2, <2>1 DEF ClearEnds, Unlocked, AddressTypeOK
  <2>4. errand'[e] = x
    BY <2>1 DEF AddressTypeOK
  <2>5. \A f, g \in Errands : f # g => errand'[f].locked \cap errand'[g].locked = {}
    BY <2>3, <2>4 DEF AddressTypeOK
  <2> QED BY <1>2, <2>2, <2>5 DEF ClearEnds, AddressTypeOK, ErrandRecords
<1>3. CASE SetCommits(e)
  <2>1. address' \in [AddressIds -> {"absent", "plain", "default", "deleted"}]
    BY <1>0, <1>3 DEF SetCommits, Committed, RowIds
  <2>2. overlooked' \in BOOLEAN /\ revived' \in BOOLEAN
    BY <1>3 DEF SetCommits, Overlooks, AddressTypeOK
  <2>3. errand' = [errand EXCEPT ![e] = NoErrand]
    BY <1>3 DEF SetCommits
  <2> QED BY <1>0, <2>1, <2>2, <2>3 DEF AddressTypeOK, ErrandRecords
<1>4. CASE AddCommits(e)
  <2>1. address' \in [AddressIds -> {"absent", "plain", "default", "deleted"}]
    BY <1>0, <1>4 DEF AddCommits, Committed, ErrandRecords
  <2>2. overlooked' \in BOOLEAN /\ revived' \in BOOLEAN
    BY <1>4 DEF AddCommits, Overlooks, AddressTypeOK
  <2>3. errand' = [errand EXCEPT ![e] = NoErrand]
    BY <1>4 DEF AddCommits
  <2> QED BY <1>0, <2>1, <2>2, <2>3 DEF AddressTypeOK, ErrandRecords
<1>5. CASE EditWrite(e)
  <2>1. address' \in [AddressIds -> {"absent", "plain", "default", "deleted"}]
    BY <1>0, <1>5 DEF EditWrite, ErrandRecords
  <2>2. overlooked' \in BOOLEAN /\ revived' \in BOOLEAN
    BY <1>5 DEF EditWrite, AddressTypeOK
  <2>3. errand' = [errand EXCEPT ![e] = NoErrand]
    BY <1>5 DEF EditWrite
  <2> QED BY <1>0, <2>1, <2>2, <2>3 DEF AddressTypeOK, ErrandRecords
<1>6. CASE ErrandFails(e)
  BY <1>0, <1>6, OwnRecordTyped DEF ErrandFails
<1> QED BY <1>1, <1>2, <1>3, <1>4, <1>5, <1>6

\* The types survive every step.
LEMMA AddressTypeStep == AddressTypeOK /\ [AddressNext]_addressVars => AddressTypeOK'
<1> SUFFICES ASSUME AddressTypeOK, [AddressNext]_addressVars PROVE AddressTypeOK'
  OBVIOUS
<1>1. ASSUME NEW e \in Errands, ErrandStep(e) PROVE AddressTypeOK'
  BY <1>1, AskedTyped, ErrandsTyped DEF ErrandStep
<1>2. ASSUME NEW a \in AddressIds, DeleteAddress(a) PROVE AddressTypeOK'
  BY <1>2 DEF DeleteAddress, AddressTypeOK
<1>3. CASE UNCHANGED addressVars
  BY <1>3 DEF addressVars, AddressTypeOK
<1> QED BY <1>1, <1>2, <1>3 DEF AddressNext

\* Initially every variable has its type.
LEMMA AddressInitTyped == AddressInit => AddressTypeOK
<1> SUFFICES ASSUME AddressInit PROVE AddressTypeOK
  OBVIOUS
<1>1. NoErrand \in ErrandRecords /\ NoErrand.locked = {}
  BY DEF NoErrand, ErrandRecords
<1>2. errand \in [Errands -> ErrandRecords] /\ \A e \in Errands : errand[e].locked = {}
  BY <1>1 DEF AddressInit
<1> QED BY <1>2 DEF AddressInit, AddressTypeOK, ErrandRecords

\* Every variable of the addresses keeps its type.
THEOREM AddressTypes == AddressSpec => []AddressTypeOK
  BY AddressInitTyped, AddressTypeStep, PTL DEF AddressSpec

-----------------------------------------------------------------------------
\* An errand that has not begun relies on nothing.
LEMMA RestReliesOnNothing ==
  ASSUME NEW e, errand[e].at \in {"idle", "clear_set", "edit"}, errand[e].locked = {}
  PROVE  ClearingReaches(e)
  BY DEF ClearingReaches

\* What the other errands do to an errand f that is not theirs: rows come and go
\* outside of its locks.
LEMMA AddressesChange ==
  ASSUME AddressInv, AddressTypeOK', NEW f \in Errands, errand'[f] = errand[f],
         \A a \in AddressIds : address[a] # "absent" => address'[a] # "absent",
         \A a \in AddressIds : address[a] = "deleted" => address'[a] = "deleted",
         errand[f].locked \subseteq RowIds',
         errand[f].at \in {"clear_add", "wait_add", "add"} => address'[errand[f].id] = "absent",
         Undisturbed' => Undisturbed,
         Undisturbed' /\ errand[f].at \in {"wait_set", "wait_add", "set", "add"} =>
             \A a \in DefaultRows' : a \in DefaultRows \/ (a \in errand[f].seen /\ address[a] # "deleted")
  PROVE  ClearingReaches(f)'
<1>0. ClearingReaches(f) /\ errand[f] \in ErrandRecords
  BY DEF AddressInv, AddressTypeOK, ErrandRecords
<1>1. ASSUME errand[f].at \in {"wait_set", "wait_add", "set", "add"}, NEW a \in errand[f].seen
      PROVE  a \in AddressIds /\ address'[a] # "absent"
  BY <1>0, <1>1 DEF ClearingReaches
<1>2. ASSUME errand[f].at \in {"set", "add"}, NEW a \in errand[f].seen \ errand[f].locked
      PROVE  address'[a] = "deleted"
  BY <1>0, <1>2 DEF ClearingReaches
<1>3. ASSUME errand[f].at \in {"clear_add", "wait_add", "add"}
      PROVE  errand[f].id \in AddressIds /\ address'[errand[f].id] = "absent"
  BY <1>0, <1>3 DEF ClearingReaches
<1>6. errand'[f].locked \subseteq RowIds'
  OBVIOUS
<1>4. ASSUME Undisturbed', errand[f].at \in {"wait_set", "wait_add"}
      PROVE  DefaultRows' \subseteq errand[f].seen
  BY <1>0, <1>4 DEF ClearingReaches
<1>5. ASSUME Undisturbed', errand[f].at \in {"set", "add"}
      PROVE  DefaultRows' \subseteq errand[f].locked
  BY <1>0, <1>5 DEF ClearingReaches
<1> QED BY <1>1, <1>2, <1>3, <1>4, <1>5, <1>6 DEF ClearingReaches

\* Row a is committed as flag by errand e at the end of its clearing: the other
\* flags are gone.
LEMMA CommitKeepsOne ==
  ASSUME AddressInv, AddressTypeOK', NEW e \in Errands, NEW a,
         NEW flag \in {"absent", "plain", "default", "deleted"}, errand[e].at \in {"set", "add"},
         address' = Committed(e, a, flag),
         a \in AddressIds => IF flag \in {"absent", "deleted"} THEN address[a] = flag
                                                            ELSE address[a] # "deleted",
         flag \in {"plain", "default"} => \A f \in Errands \ {e} :
             /\ a \in AddressIds => a \notin errand[f].locked
             /\ errand[f].at \in {"clear_add", "wait_add", "add"} => errand[f].id # a,
         Overlooks(e, a), UNCHANGED revived,
         errand' = [errand EXCEPT ![e] = NoErrand]
  PROVE  AddressInv'
<1>0. /\ errand \in [Errands -> ErrandRecords] /\ address \in [AddressIds -> {"absent", "plain", "default", "deleted"}]
      /\ ClearingReaches(e) /\ \A f \in Errands : f # e => errand'[f] = errand[f]
      /\ errand'[e] = NoErrand /\ errand[e].locked \subseteq AddressIds
  BY DEF AddressInv, AddressTypeOK, ErrandRecords
<1>1. Undisturbed' => Undisturbed
  BY DEF Undisturbed, Overlooks
<1>2. \A b \in AddressIds : b # a => address'[b] = IF b \in errand[e].locked THEN "plain" ELSE address[b]
  BY DEF Committed
<1>3. a \in AddressIds => address'[a] = flag
  BY DEF Committed
<1>4. Undisturbed => DefaultRows \subseteq errand[e].locked
  BY <1>0 DEF ClearingReaches
<1>5. Undisturbed => DefaultRows' \subseteq {a}
  BY <1>2, <1>4 DEF DefaultRows
<1>6. OneDefault'
  BY <1>1, <1>5 DEF OneDefault, Undisturbed
<1>7. OwnIds'
  BY <1>0 DEF AddressInv, OwnIds, NoErrand
<1>8. ClearingReaches(e)'
  <2>1. errand'[e].at = "idle" /\ errand'[e].locked = {}
    BY <1>0 DEF NoErrand
  <2> QED BY <2>1 DEF ClearingReaches
<1>9. ASSUME NEW f \in Errands, f # e PROVE ClearingReaches(f)'
  <2>0. errand'[f] = errand[f] /\ ClearingReaches(f)
    BY <1>0, <1>9 DEF AddressInv
  <2>1. errand[e].locked \cap errand[f].locked = {}
    BY <1>9 DEF AddressInv, AddressTypeOK
  <2>a. \A b \in errand[e].locked : b \in AddressIds /\ address[b] \in {"plain", "default"}
    BY <1>0 DEF ClearingReaches, RowIds
  <2>2. \A b \in AddressIds : address[b] # "absent" => address'[b] # "absent"
    BY <1>2, <1>3
  <2>3. \A b \in AddressIds : address[b] = "deleted" => address'[b] = "deleted"
    BY <1>2, <1>3, <2>a
  <2>4. ASSUME errand[f].at \in {"clear_add", "wait_add", "add"}
        PROVE  address'[errand[f].id] = "absent"
    <3>1. errand[f].id \in AddressIds /\ address[errand[f].id] = "absent"
      BY <2>0, <2>4 DEF ClearingReaches
    <3>2. CASE errand[f].id # a
      BY <1>2, <2>a, <3>1, <3>2
    <3>3. CASE errand[f].id = a
      <4>1. flag \notin {"plain", "default"}
        BY <1>9, <2>4, <3>3
      <4>2. address[a] = flag
        BY <3>1, <3>3, <4>1
      <4> QED BY <1>3, <3>1, <3>3, <4>2
    <3> QED BY <3>2, <3>3
  <2>6. errand[f].locked \subseteq RowIds'
    <3>1. ASSUME NEW b \in errand[f].locked PROVE b \in AddressIds /\ address'[b] \in {"plain", "default"}
      <4>1. b \in AddressIds /\ address[b] \in {"plain", "default"}
        BY <2>0 DEF ClearingReaches, RowIds
      <4> QED BY <1>2, <1>3, <1>9, <4>1
    <3> QED BY <3>1 DEF RowIds
  <2>5. ASSUME Undisturbed', errand[f].at \in {"wait_set", "wait_add", "set", "add"},
               NEW b \in DefaultRows'
        PROVE  b \in DefaultRows \/ (b \in errand[f].seen /\ address[b] # "deleted")
    <3>1. b = a /\ a \in AddressIds /\ flag = "default"
      BY <1>1, <1>3, <1>5, <2>5 DEF DefaultRows
    <3>2. a \in errand[f].seen
      BY <1>9, <2>5 DEF Undisturbed, Overlooks
    <3> QED BY <3>1, <3>2
  <2> QED BY <1>1, <2>0, <2>2, <2>3, <2>4, <2>5, <2>6, AddressesChange
<1> QED BY <1>6, <1>7, <1>8, <1>9 DEF AddressInv

-----------------------------------------------------------------------------
\* Requests that are asked for keep the invariant: none of them makes a row the
\* default or gives one up.
LEMMA AskedKeepsOne ==
  ASSUME AddressInv, AddressTypeOK', NEW e \in Errands, NEW a \in AddressIds,
         \/ SetDefault(e, a) \/ AddDefault(e, a)
         \/ \E keeps \in BOOLEAN : EditRead(e, a, keeps)
  PROVE  AddressInv'
<1>0. /\ errand \in [Errands -> ErrandRecords]
      /\ \A f \in Errands : ClearingReaches(f)
  BY DEF AddressInv, AddressTypeOK, ErrandRecords
<1>1. /\ UNCHANGED <<address, overlooked, revived>>
      /\ \A f \in Errands : f # e => errand'[f] = errand[f]
      /\ errand'[e].at \in {"clear_set", "clear_add", "edit"} /\ errand'[e].id = a
      /\ errand'[e].locked = {}
      /\ errand'[e].at = "clear_add" => Unused(a)
  BY ZenonT(60), <1>0 DEF SetDefault, AddDefault, EditRead, MakeDefault, NoErrand
<1>2. OneDefault'
  BY <1>1 DEF AddressInv, OneDefault, DefaultRows
<1>3. OwnIds'
  BY <1>1 DEF AddressInv, OwnIds, Unused
<1>4. ClearingReaches(e)'
  BY <1>1 DEF ClearingReaches, Unused
<1>5. ASSUME NEW f \in Errands, f # e PROVE ClearingReaches(f)'
  BY <1>0, <1>1, <1>5 DEF ClearingReaches, RowIds, DefaultRows, Undisturbed
<1> QED BY <1>2, <1>3, <1>4, <1>5 DEF AddressInv

\* The first statement of a transaction, which sees the rows and then locks them.
LEMMA ClearingKeepsOne ==
  ASSUME AddressInv, AddressTypeOK', NEW e \in Errands, ClearStarts(e) \/ ClearEnds(e)
  PROVE  AddressInv'
<1>0. /\ errand \in [Errands -> ErrandRecords] /\ errand[e] \in ErrandRecords
      /\ \A f \in Errands : ClearingReaches(f)
  BY DEF AddressInv, AddressTypeOK, ErrandRecords
<1>1. /\ UNCHANGED <<address, overlooked, revived>>
      /\ \A f \in Errands : f # e => errand'[f] = errand[f]
      /\ errand'[e].id = errand[e].id
      /\ errand'[e].at \in {"clear_add", "wait_add", "add"}
            => errand[e].at \in {"clear_add", "wait_add", "add"}
  BY <1>0 DEF ClearStarts, ClearEnds, ErrandAt, ErrandRecords
<1>2. OneDefault'
  BY <1>1 DEF AddressInv, OneDefault, DefaultRows
<1>3. OwnIds'
  BY <1>1 DEF AddressInv, OwnIds
<1>4. ClearingReaches(e)'
  <2>1. CASE ClearStarts(e)
    <3>1. /\ errand'[e].at \in {"wait_set", "wait_add"} /\ errand'[e].seen = RowIds
          /\ errand'[e].locked = errand[e].locked
      BY <1>0, <2>1 DEF ClearStarts, ErrandAt, ErrandRecords
    <3>2. DefaultRows \subseteq RowIds /\ \A a \in RowIds : a \in AddressIds /\ address[a] # "absent"
      BY DEF DefaultRows, RowIds
    <3>3. DefaultRows' = DefaultRows /\ RowIds' = RowIds
      BY <1>1 DEF DefaultRows, RowIds
    <3> QED BY <1>0, <1>1, <3>1, <3>2, <3>3 DEF ClearingReaches
  <2>2. CASE ClearEnds(e)
    <3>1. /\ errand[e].at \in {"wait_set", "wait_add"} /\ errand'[e].at \in {"set", "add"}
          /\ errand'[e].locked = errand[e].seen \cap RowIds /\ errand'[e].seen = errand[e].seen
      BY <1>0, <2>2 DEF ClearEnds, ErrandAt, ErrandRecords
    <3>2. DefaultRows' = DefaultRows /\ RowIds' = RowIds /\ Undisturbed' = Undisturbed
          /\ DefaultRows \subseteq RowIds
      BY <1>1 DEF DefaultRows, RowIds, Undisturbed
    <3>3. \A a \in errand[e].seen : a \in AddressIds /\ address[a] # "absent"
      BY <1>0, <3>1 DEF ClearingReaches
    <3>4. \A a \in errand[e].seen \ RowIds : address[a] = "deleted"
      BY <3>3 DEF RowIds, AddressInv, AddressTypeOK
    <3>5. Undisturbed => DefaultRows \subseteq errand[e].seen \cap RowIds
      BY <1>0, <3>1, <3>2 DEF ClearingReaches
    <3>6. errand'[e].at \in {"clear_add", "wait_add", "add"} =>
            errand[e].id \in AddressIds /\ address[errand[e].id] = "absent"
      BY <1>0, <1>1 DEF ClearingReaches
    <3> QED BY <1>1, <3>1, <3>2, <3>3, <3>4, <3>5, <3>6 DEF ClearingReaches
  <2> QED BY <2>1, <2>2
<1>5. ASSUME NEW f \in Errands, f # e PROVE ClearingReaches(f)'
  BY <1>0, <1>1, <1>5 DEF ClearingReaches, RowIds, DefaultRows, Undisturbed
<1> QED BY <1>2, <1>3, <1>4, <1>5 DEF AddressInv

\* The last statement of a transaction that makes a row the default.
LEMMA CommitsKeepOne ==
  ASSUME AddressInv, AddressTypeOK', NEW e \in Errands, SetCommits(e) \/ AddCommits(e)
  PROVE  AddressInv'
<1>0. /\ errand[e] \in ErrandRecords /\ address \in [AddressIds -> {"absent", "plain", "default", "deleted"}]
      /\ \A f \in Errands : ClearingReaches(f)
  BY DEF AddressInv, AddressTypeOK, ErrandRecords
<1>1. CASE SetCommits(e)
  <2> DEFINE a == errand[e].id
  <2>1. /\ errand[e].at = "set" /\ Unlocked(e, {a}) /\ Overlooks(e, a) /\ revived' = revived
        /\ address' = Committed(e, a, IF a \in RowIds THEN "default" ELSE address[a])
        /\ errand' = [errand EXCEPT ![e] = NoErrand]
    BY <1>1 DEF SetCommits, ErrandAt
  <2>2. \A f \in Errands \ {e} : a \notin errand[f].locked
    BY <2>1 DEF Unlocked
  <2>3. CASE a \in RowIds
    <3>1. \A f \in Errands \ {e} : errand[f].at \in {"clear_add", "wait_add", "add"} => errand[f].id # a
      BY <1>0, <2>3 DEF ClearingReaches, RowIds
    <3>2. a \in AddressIds /\ address[a] # "deleted" /\ address' = Committed(e, a, "default")
      BY <2>1, <2>3 DEF RowIds
    <3> HIDE DEF a
    <3> QED BY <2>1, <2>2, <3>1, <3>2, CommitKeepsOne
  <2>4. CASE a \in AddressIds /\ a \notin RowIds
    <3>1. address[a] \in {"absent", "deleted"} /\ address' = Committed(e, a, address[a])
      BY <1>0, <2>1, <2>4 DEF RowIds
    <3> HIDE DEF a
    <3> QED BY <2>1, <3>1, CommitKeepsOne
  <2>5. CASE a \notin AddressIds
    <3>1. address' = Committed(e, a, "deleted")
      BY <2>1, <2>5 DEF Committed
    <3> HIDE DEF a
    <3> QED BY <2>1, <2>5, <3>1, CommitKeepsOne
  <2> QED BY <2>3, <2>4, <2>5 DEF RowIds
<1>2. CASE AddCommits(e)
  <2>1. /\ errand[e].at = "add" /\ Overlooks(e, errand[e].id) /\ revived' = revived
        /\ address' = Committed(e, errand[e].id, errand[e].flag)
        /\ errand' = [errand EXCEPT ![e] = NoErrand] /\ errand[e].flag \in {"plain", "default"}
    BY <1>0, <1>2 DEF AddCommits, ErrandAt, ErrandRecords
  <2>2. errand[e].id \in AddressIds /\ address[errand[e].id] = "absent"
    BY <1>0, <2>1 DEF ClearingReaches
  <2>3. \A f \in Errands \ {e} : errand[e].id \notin errand[f].locked
    BY <1>0, <2>2 DEF ClearingReaches, RowIds
  <2>4. \A f \in Errands \ {e} :
          errand[f].at \in {"clear_add", "wait_add", "add"} => errand[f].id # errand[e].id
    BY <2>1 DEF AddressInv, OwnIds
  <2> QED BY <2>1, <2>2, <2>3, <2>4, CommitKeepsOne
<1> QED BY <1>1, <1>2

\* Plain rows, edits, deletions and failures.
LEMMA RowsKeepOne ==
  ASSUME AddressInv, AddressTypeOK', NEW e \in Errands,
         \/ \E a \in AddressIds : AddPlain(e, a)
         \/ EditWrite(e) \/ ErrandFails(e)
  PROVE  AddressInv'
<1>0. /\ errand \in [Errands -> ErrandRecords] /\ address \in [AddressIds -> {"absent", "plain", "default", "deleted"}]
      /\ \A f \in Errands : ClearingReaches(f)
  BY DEF AddressInv, AddressTypeOK, ErrandRecords
<1>1. ASSUME NEW a \in AddressIds, AddPlain(e, a) PROVE AddressInv'
  <2>1. /\ address[a] = "absent" /\ \A f \in Errands : errand[f].id # a
        /\ address' = [address EXCEPT ![a] = "plain"] /\ UNCHANGED <<errand, overlooked, revived>>
    BY <1>1 DEF AddPlain, Unused
  <2>2. DefaultRows' = DefaultRows /\ RowIds \subseteq RowIds' /\ Undisturbed' = Undisturbed
    BY <1>0, <2>1 DEF DefaultRows, RowIds, Undisturbed
  <2>3. OneDefault' /\ OwnIds'
    BY <2>1, <2>2 DEF AddressInv, OneDefault, OwnIds
  <2>4. ASSUME NEW f \in Errands PROVE ClearingReaches(f)'
    <3>1. \A b \in AddressIds : address[b] # "absent" => address'[b] = address[b]
      BY <1>0, <2>1
    <3>2. ClearingReaches(f) /\ errand'[f] = errand[f] /\ errand[f] \in ErrandRecords
      BY <1>0, <2>1
    <3> QED BY <2>1, <2>2, <3>1, <3>2, <1>0 DEF ClearingReaches, ErrandRecords
  <2> QED BY <2>3, <2>4 DEF AddressInv
<1>2. CASE EditWrite(e)
  <2> DEFINE a == errand[e].id
  <2>1. /\ Unlocked(e, {a}) /\ a \in AddressIds /\ address[a] \in {"plain", "default"}
        /\ address' = [address EXCEPT ![a] = errand[e].flag] /\ errand[e].flag \in {"plain", "default"}
        /\ revived' = (revived \/ (errand[e].flag = "default" /\ address[a] = "plain"))
        /\ errand' = [errand EXCEPT ![e] = NoErrand] /\ UNCHANGED overlooked
    BY <1>0, <1>2 DEF EditWrite, RowIds, ErrandRecords
  <2>2. RowIds' = RowIds /\ (Undisturbed' => Undisturbed /\ DefaultRows' \subseteq DefaultRows)
    BY <1>0, <2>1 DEF RowIds, Undisturbed, DefaultRows
  <2>3. /\ errand'[e] = NoErrand /\ \A f \in Errands : f # e => errand'[f] = errand[f]
    BY <1>0, <2>1
  <2>4. OneDefault'
    BY <2>2 DEF AddressInv, OneDefault, Undisturbed
  <2>5. OwnIds'
    BY <2>3 DEF AddressInv, OwnIds, NoErrand
  <2>6. ClearingReaches(e)'
    <3>1. errand'[e].at = "idle" /\ errand'[e].locked = {}
      BY <2>3 DEF NoErrand
    <3> QED BY <3>1 DEF ClearingReaches
  <2>7. ASSUME NEW f \in Errands, f # e PROVE ClearingReaches(f)'
    <3>1. \A b \in AddressIds : b # a => address'[b] = address[b]
      BY <1>0, <2>1
    <3>2. address'[a] \in {"plain", "default"}
      BY <1>0, <2>1
    <3>3. ClearingReaches(f) /\ errand'[f] = errand[f] /\ errand[f] \in ErrandRecords
      BY <1>0, <2>3, <2>7
    <3> QED BY <2>1, <2>2, <3>1, <3>2, <3>3 DEF ClearingReaches, ErrandRecords
  <2> QED BY <2>4, <2>5, <2>6, <2>7 DEF AddressInv
<1>3. CASE ErrandFails(e)
  <2>1. /\ errand'[e] = NoErrand /\ \A f \in Errands : f # e => errand'[f] = errand[f]
        /\ UNCHANGED <<address, overlooked, revived>>
    BY <1>0, <1>3 DEF ErrandFails
  <2>2. OneDefault' /\ OwnIds'
    BY <2>1 DEF AddressInv, OneDefault, DefaultRows, OwnIds, NoErrand
  <2>3. ClearingReaches(e)'
    <3>1. errand'[e].at = "idle" /\ errand'[e].locked = {}
      BY <2>1 DEF NoErrand
    <3> QED BY <3>1 DEF ClearingReaches
  <2>4. ASSUME NEW f \in Errands, f # e PROVE ClearingReaches(f)'
    BY <1>0, <2>1, <2>4 DEF ClearingReaches, RowIds, DefaultRows, Undisturbed
  <2> QED BY <2>2, <2>3, <2>4 DEF AddressInv
<1> QED BY <1>1, <1>2, <1>3

\* A row nobody has locked is deleted.
LEMMA DeletionKeepsOne ==
  ASSUME AddressInv, NEW a \in AddressIds, DeleteAddress(a), AddressTypeOK'
  PROVE  AddressInv'
<1>0. /\ errand \in [Errands -> ErrandRecords] /\ address \in [AddressIds -> {"absent", "plain", "default", "deleted"}]
      /\ \A f \in Errands : ClearingReaches(f)
  BY DEF AddressInv, AddressTypeOK, ErrandRecords
<1>1. /\ address[a] \in {"plain", "default"} /\ address' = [address EXCEPT ![a] = "deleted"]
      /\ \A f \in Errands : a \notin errand[f].locked
      /\ UNCHANGED <<errand, overlooked, revived>>
  BY DEF DeleteAddress, RowIds
<1>2. /\ DefaultRows' \subseteq DefaultRows /\ Undisturbed' = Undisturbed
      /\ \A b \in RowIds : b # a => b \in RowIds'
  BY <1>0, <1>1 DEF DefaultRows, RowIds, Undisturbed
<1>3. OneDefault' /\ OwnIds'
  BY <1>1, <1>2 DEF AddressInv, OneDefault, OwnIds
<1>4. ASSUME NEW f \in Errands PROVE ClearingReaches(f)'
  <2>1. ClearingReaches(f) /\ errand'[f] = errand[f] /\ errand[f] \in ErrandRecords
    BY <1>0, <1>1
  <2>2. /\ \A b \in AddressIds : b # a => address'[b] = address[b]
        /\ address'[a] = "deleted" /\ errand[f].locked \subseteq RowIds'
    BY <1>0, <1>1, <1>2, <2>1 DEF ClearingReaches
  <2> QED BY <1>1, <1>2, <2>1, <2>2 DEF ClearingReaches, ErrandRecords
<1> QED BY <1>3, <1>4 DEF AddressInv

\* However the requests overlap, the clearing of the one that commits next reaches
\* the row that is the default now, so that there is never a second one.
THEOREM OneDefaultAddress == AddressSpec => []OneDefault
<1>1. AddressInit => AddressInv
  <2> SUFFICES ASSUME AddressInit PROVE AddressInv
    OBVIOUS
  <2>1. \A e \in Errands : errand[e].at = "idle" /\ errand[e].locked = {}
    BY DEF AddressInit, NoErrand
  <2>2. DefaultRows = {}
    BY DEF AddressInit, DefaultRows
  <2> QED BY <2>1, <2>2, AddressInitTyped DEF AddressInv, OneDefault, OwnIds, ClearingReaches
<1>2. AddressInv /\ [AddressNext]_addressVars => AddressInv'
  <2> SUFFICES ASSUME AddressInv, [AddressNext]_addressVars PROVE AddressInv'
    OBVIOUS
  <2>1. AddressTypeOK'
    BY AddressTypeStep DEF AddressInv
  <2>2. ASSUME NEW e \in Errands, ErrandStep(e) PROVE AddressInv'
    BY <2>1, <2>2, AskedKeepsOne, ClearingKeepsOne, CommitsKeepOne, RowsKeepOne DEF ErrandStep
  <2>3. ASSUME NEW a \in AddressIds, DeleteAddress(a) PROVE AddressInv'
    BY <2>1, <2>3, DeletionKeepsOne
  <2>4. CASE UNCHANGED addressVars
    BY <2>1, <2>4 DEF addressVars, AddressInv, OneDefault, OwnIds, ClearingReaches, DefaultRows,
                      RowIds, Undisturbed
  <2> QED BY <2>2, <2>3, <2>4 DEF AddressNext
<1>3. AddressInv => OneDefault
  BY DEF AddressInv
<1> QED BY <1>1, <1>2, <1>3, PTL DEF AddressSpec

-----------------------------------------------------------------------------
(* Notifications. *)

\* A note that waits for its row has none, so that its row cannot turn unread
\* again once it was read.
WaitingHaveNoRow == \A n \in sending : noteRow[n] = "none"

\* The list in memory after a note was put in: without the oldest beyond its limit.
KeptList(s, n) ==
    LET all == Append(s, n)
    IN  IF Len(all) > Shown THEN SubSeq(all, Len(all) - Shown + 1, Len(all)) ELSE all

\* It keeps its limit, and holds the new note and some of the old ones.
LEMMA ListKeepsLimit ==
  ASSUME NEW s \in Seq(Notes), Len(s) <= Shown, NEW n \in Notes
  PROVE  /\ KeptList(s, n) \in Seq(Notes) /\ Len(KeptList(s, n)) <= Shown
         /\ \A i \in DOMAIN KeptList(s, n) : KeptList(s, n)[i] = n \/ \E j \in DOMAIN s : KeptList(s, n)[i] = s[j]
<1> DEFINE all == Append(s, n)
           m   == Len(all) - Shown + 1
           t   == SubSeq(all, m, Len(all))
<1>1. /\ all \in Seq(Notes) /\ Len(all) = Len(s) + 1 /\ Len(s) \in Nat
      /\ \A i \in 1..Len(all) : all[i] = n \/ (i \in 1..Len(s) /\ all[i] = s[i])
  BY AppendProperties, LenProperties
<1>2. Shown \in Nat /\ Shown >= 1
  BY NotesAssumption DEF NotesAssumption
<1>3. DOMAIN s = 1..Len(s) /\ DOMAIN all = 1..Len(all)
  BY <1>1, LenProperties
<1>4. KeptList(s, n) = IF Len(all) > Shown THEN t ELSE all
  BY DEF KeptList
<1> HIDE DEF all
<1>5. CASE Len(all) > Shown
  <2>1. m \in Int /\ Len(all) \in Int /\ m \in 1..Len(all) /\ Len(all) - m + 1 = Shown
    BY <1>1, <1>2, <1>5
  <2> HIDE DEF m
  <2>2. \A i \in m..Len(all) : all[i] \in Notes
    BY <1>1, <2>1, ElementOfSeq
  <2>3. /\ t \in Seq(Notes)
        /\ Len(t) = IF m <= Len(all) THEN Len(all) - m + 1 ELSE 0
        /\ \A i \in 1 .. Len(all) - m + 1 : t[i] = all[m + i - 1]
    <3>1. \A S, x : \A a \in Int, b \in Int : (\A i \in a..b : x[i] \in S)
            => /\ SubSeq(x, a, b) \in Seq(S)
               /\ Len(SubSeq(x, a, b)) = IF a <= b THEN b - a + 1 ELSE 0
               /\ \A i \in 1..(b - a + 1) : SubSeq(x, a, b)[i] = x[a + i - 1]
      BY SubSeqProperties
    <3> DEFINE k == Len(all)
    <3>2. k \in Int /\ m \in Int /\ \A i \in m..k : all[i] \in Notes
      BY <2>1, <2>2
    <3> HIDE DEF k
    <3>3. /\ SubSeq(all, m, k) \in Seq(Notes)
          /\ Len(SubSeq(all, m, k)) = IF m <= k THEN k - m + 1 ELSE 0
          /\ \A i \in 1..(k - m + 1) : SubSeq(all, m, k)[i] = all[m + i - 1]
      BY <3>1, <3>2
    <3> QED BY <3>3 DEF k
  <2> HIDE DEF t
  <2>4. Len(t) = Shown /\ DOMAIN t = 1..Shown
    BY <1>2, <2>1, <2>3, LenProperties
  <2>5. ASSUME NEW i \in DOMAIN t PROVE t[i] = n \/ \E j \in DOMAIN s : t[i] = s[j]
    <3>1. i \in 1..Len(t) /\ i \in 1..(Len(all) - m + 1)
      BY <2>1, <2>4
    <3>2. m + i - 1 \in 1..Len(all)
      BY <2>1, <3>1
    <3>3. t[i] = all[m + i - 1]
      BY <2>3, <3>1
    <3> QED BY <1>1, <1>3, <3>2, <3>3
  <2> QED BY <1>2, <1>4, <1>5, <2>3, <2>4, <2>5
<1>6. CASE ~(Len(all) > Shown)
  BY <1>1, <1>2, <1>3, <1>4, <1>6
<1> QED BY <1>5, <1>6

\* Every variable of the notifications keeps its type.
LEMMA NotesTypeInit == NotesInit => NotesTypeOK
  BY NotesAssumption, EmptySeq DEF NotesInit, NotesTypeOK, NotesAssumption

LEMMA NotesTypeStep == NotesTypeOK /\ [NotesNext]_noteVars => NotesTypeOK'
<1> SUFFICES ASSUME NotesTypeOK, [NotesNext]_noteVars PROVE NotesTypeOK'
  OBVIOUS
<1>1. ASSUME NEW n \in Notes, SendNote(n) PROVE NotesTypeOK'
  <2>2. inbox' = KeptList(inbox, n)
    BY <1>1 DEF SendNote, KeptList
  <2>1. inbox' \in Seq(Notes) /\ Len(inbox') <= Shown
    BY <2>2, ListKeepsLimit DEF NotesTypeOK
  <2> QED BY <1>1, <2>1 DEF SendNote, NotesTypeOK
<1>2. ASSUME NEW n \in Notes, PersistNote(n) PROVE NotesTypeOK'
  BY <1>2 DEF PersistNote, NotesTypeOK
<1>3. ASSUME NEW r \in Readers, ListUnread(r) \/ ClearRows(r) PROVE NotesTypeOK'
  BY <1>3 DEF ListUnread, ClearRows, NotesTypeOK, NoteRows, InMemory
<1>4. ASSUME NEW r \in Readers, NEW n \in Notes, MarkRead(r, n) \/ MarkCopy(r, n) PROVE NotesTypeOK'
  BY <1>4 DEF MarkRead, MarkCopy, NotesTypeOK
<1>5. ASSUME NEW r \in Readers, ClearCopies(r) PROVE NotesTypeOK'
  <2>1. InMemory \subseteq Notes
    BY ElementOfSeq, LenProperties DEF NotesTypeOK, InMemory
  <2> QED BY <1>5, <2>1 DEF ClearCopies, NotesTypeOK, NoteRows
<1>6. CASE ForgetNotes
  BY <1>6, NotesAssumption, EmptySeq DEF ForgetNotes, NotesTypeOK, NotesAssumption
<1>7. CASE UNCHANGED noteVars
  BY <1>7 DEF noteVars, NotesTypeOK
<1> QED BY <1>1, <1>2, <1>3, <1>4, <1>5, <1>6, <1>7 DEF NotesNext

\* What was cleared stays cleared, step by step.
LEMMA ClearedStep ==
  ASSUME NotesTypeOK, WaitingHaveNoRow, ClearedStaysCleared, [NotesNext]_noteVars
  PROVE  WaitingHaveNoRow' /\ ClearedStaysCleared'
<1>1. ASSUME NEW n \in Notes, SendNote(n) PROVE WaitingHaveNoRow' /\ ClearedStaysCleared'
  <2>4. \A i \in DOMAIN inbox' : inbox'[i] = n \/ \E j \in DOMAIN inbox : inbox'[i] = inbox[j]
    <3>1. inbox' = KeptList(inbox, n)
      BY <1>1 DEF SendNote, KeptList
    <3> QED BY <3>1, ListKeepsLimit DEF NotesTypeOK
  <2>1. \A m \in InMemory' : m = n \/ m \in InMemory
    BY <2>4 DEF InMemory
  <2>2. n \notin cleared
    BY <1>1 DEF SendNote, ClearedStaysCleared
  <2>3. ASSUME NEW m \in cleared, m \in InMemory' PROVE m \in readHere'
    BY <1>1, <2>1, <2>2, <2>3 DEF SendNote, ClearedStaysCleared, InMemory
  <2> QED BY <1>1, <2>3 DEF SendNote, WaitingHaveNoRow, ClearedStaysCleared
<1>2. ASSUME NEW n \in Notes, PersistNote(n) PROVE WaitingHaveNoRow' /\ ClearedStaysCleared'
  BY <1>2 DEF PersistNote, WaitingHaveNoRow, ClearedStaysCleared, NotesTypeOK, InMemory
<1>3. ASSUME NEW r \in Readers, ListUnread(r) \/ ClearRows(r) PROVE WaitingHaveNoRow' /\ ClearedStaysCleared'
  BY <1>3 DEF ListUnread, ClearRows, WaitingHaveNoRow, ClearedStaysCleared, NotesTypeOK, InMemory
<1>4. ASSUME NEW r \in Readers, NEW n \in Notes, MarkRead(r, n) \/ MarkCopy(r, n)
      PROVE  WaitingHaveNoRow' /\ ClearedStaysCleared'
  BY <1>4 DEF MarkRead, MarkCopy, WaitingHaveNoRow, ClearedStaysCleared, NotesTypeOK, InMemory
<1>5. ASSUME NEW r \in Readers, ClearCopies(r) PROVE WaitingHaveNoRow' /\ ClearedStaysCleared'
  BY <1>5 DEF ClearCopies, WaitingHaveNoRow, ClearedStaysCleared, InMemory, NoteRows
<1>6. CASE ForgetNotes
  BY <1>6 DEF ForgetNotes, WaitingHaveNoRow, ClearedStaysCleared, InMemory
<1>7. CASE UNCHANGED noteVars
  BY <1>7 DEF noteVars, WaitingHaveNoRow, ClearedStaysCleared, InMemory
<1> QED BY <1>1, <1>2, <1>3, <1>4, <1>5, <1>6, <1>7 DEF NotesNext

\* Every variable of the notifications keeps its type; the list keeps its limit.
THEOREM NotesTypes == NotesSpec => []NotesTypeOK
  BY NotesTypeInit, NotesTypeStep, PTL DEF NotesSpec

\* What "mark all read" had marked is never shown as unread again, neither from
\* the rows nor from the copies in memory.
THEOREM ClearedIsCleared == NotesSpec => []ClearedStaysCleared
<1>1. NotesInit => NotesTypeOK /\ WaitingHaveNoRow /\ ClearedStaysCleared
  BY NotesTypeInit DEF NotesInit, WaitingHaveNoRow, ClearedStaysCleared
<1>2. NotesTypeOK /\ WaitingHaveNoRow /\ ClearedStaysCleared /\ [NotesNext]_noteVars
        => (NotesTypeOK /\ WaitingHaveNoRow /\ ClearedStaysCleared)'
  BY NotesTypeStep, ClearedStep
<1> QED BY <1>1, <1>2, PTL DEF NotesSpec

-----------------------------------------------------------------------------
(* The cart. *)

Maps      == [Goods -> Line]
TabPlaces == {"rest", "add", "update", "write", "order", "clear"}
TabType   == [at : TabPlaces, map : Maps, want : Maps, good : Goods, line : Requests]

\* An order placed is made of a cart that is not empty.
Sold == [lines : {OrderLines(m) : m \in Maps \ {Empty}}, sure : BOOLEAN,
         asked : {OrderLines(n) : n \in Maps}]

\* What is added is something, what is ordered as well.
JobFits(j) == (j.at = "add" => j.line.qty >= 1) /\ (j.at = "order" => j.map # Empty)

CartTyped ==
    /\ shelf \in [Goods -> [active : BOOLEAN, stock : 0..MaxStock]]
    /\ linked \in BOOLEAN
    /\ cart \in [Places -> Maps]
    /\ tab \in [Tabs -> TabType]
    /\ \A t \in Tabs : JobFits(tab[t])
    /\ bought \in Seq(Sold)
    /\ asked \in Maps
    /\ muddled \in BOOLEAN

\* While the customer knows the cart, no two requests are in flight, the cart
\* is what was asked for, and so is the copy a request is about to write, or
\* to make an order of.
CopyIsAsked(t) ==
    /\ tab[t].at \in {"update", "write"} => tab[t].map = tab[t].want
    /\ TabAt(t, "order") => tab[t].map = asked

Known == ~muddled => /\ ~Overlap
                     /\ cart[Place] = asked
                     /\ \A t \in Tabs : CopyIsAsked(t)

SureOrders == \A i \in DOMAIN bought : bought[i].sure => bought[i].lines = bought[i].asked

CartInv == CartTyped /\ Known /\ SureOrders

\* The maps the operations make.
LEMMA LineTyped == /\ Empty \in Maps
                   /\ \A l \in Line : l.qty \in 0..MaxQty /\ l.grams \in Weights
                   /\ \A l \in Line : l # NoLine => l.qty > 0
                   /\ \A q \in 1..MaxQty, w \in Weights : [qty |-> q, grams |-> w] \in Line
  BY CartAssumption DEF CartAssumption, Empty, Maps, Line, NoLine

LEMMA AddedTyped ==
  ASSUME NEW m \in Maps, NEW g \in Goods, NEW l \in Requests, l.qty >= 1, m[g].qty + l.qty <= MaxQty
  PROVE  Added(m, g, l) \in Maps
<1>1. m[g] \in Line /\ l.qty \in 0..MaxPerCall /\ l.grams \in Weights
  BY DEF Maps, Requests
<1>2. m[g].qty \in Nat /\ m[g].grams \in Weights
  BY <1>1, LineTyped
<1>3. m[g].qty + l.qty \in 1..MaxQty /\ Chosen(l.grams, m[g].grams) \in Weights
  BY <1>1, <1>2, CartAssumption DEF CartAssumption, Chosen
<1>4. [qty |-> m[g].qty + l.qty, grams |-> Chosen(l.grams, m[g].grams)] \in Line
  BY <1>3, LineTyped
<1> QED BY <1>4 DEF Added, Maps

LEMMA UpdatedTyped ==
  ASSUME NEW m \in Maps, NEW g \in Goods, NEW l \in Requests
  PROVE  Updated(m, g, l) \in Maps
<1>1. m[g] \in Line /\ l.qty \in 0..MaxPerCall /\ l.grams \in Weights /\ NoLine \in Line
  BY DEF Maps, Requests, Line
<1>2. CASE l.qty = 0
  BY <1>1, <1>2 DEF Updated, Maps
<1>3. CASE l.qty # 0
  <2>1. l.qty \in 1..MaxQty /\ Chosen(l.grams, m[g].grams) \in Weights
    BY <1>1, <1>3, LineTyped, CartAssumption DEF CartAssumption, Chosen
  <2>2. [qty |-> l.qty, grams |-> Chosen(l.grams, m[g].grams)] \in Line
    BY <2>1, LineTyped
  <2> QED BY <1>3, <2>2 DEF Updated, Maps
<1> QED BY <1>2, <1>3

LEMMA UnsentTyped == Unsent \in TabType /\ Unsent.at = "rest" /\ JobFits(Unsent)
<1>1. (CHOOSE g \in Goods : TRUE) \in Goods
  BY CartAssumption DEF CartAssumption
<1>2. NoLine \in Requests
  BY CartAssumption DEF CartAssumption, NoLine, Requests
<1> QED BY <1>1, <1>2, LineTyped DEF Unsent, TabType, TabPlaces, JobFits

\* A cart that is not empty has a line with a quantity.
LEMMA NotEmpty ==
  ASSUME NEW m \in Maps, m # Empty
  PROVE  InCart(m) \in (SUBSET Goods) \ {{}}
<1>1. PICK g \in Goods : m[g] # NoLine
  BY DEF Maps, Empty
<1>2. m[g].qty > 0
  BY <1>1, LineTyped DEF Maps
<1>3. g \in InCart(m) /\ InCart(m) \subseteq Goods
  BY <1>2 DEF InCart
<1> QED BY <1>3

\* A request moves alone, and only onto a record of the right type.
LEMMA TabMoves ==
  ASSUME CartTyped, NEW t \in Tabs, NEW j \in TabType, JobFits(j),
         tab' = [tab EXCEPT ![t] = j]
  PROVE  /\ tab' \in [Tabs -> TabType]
         /\ \A u \in Tabs : JobFits(tab'[u])
         /\ \A u \in Tabs : tab'[u] = IF u = t THEN j ELSE tab[u]
<1>1. \A u \in Tabs : tab'[u] = IF u = t THEN j ELSE tab[u]
  BY DEF CartTyped
<1> QED BY <1>1 DEF CartTyped

\* When the customer knows the cart before and after a step of one request, the
\* others rest, and nothing but that request's copy need be looked at.
LEMMA KnownStep ==
  ASSUME CartTyped, Known, NEW t \in Tabs, NEW j \in TabType,
         tab' = [tab EXCEPT ![t] = j], muddled' = (muddled \/ Overlap'),
         ~muddled => /\ cart'[Place'] = asked'
                     /\ j.at \in {"update", "write"} => j.map = j.want
                     /\ j.at = "order" => j.map = asked'
                     /\ asked' = asked \/ ~TabAt(t, "rest")
  PROVE  Known'
<1> SUFFICES ASSUME ~muddled' PROVE ~Overlap' /\ cart'[Place'] = asked' /\ \A u \in Tabs : CopyIsAsked(u)'
  BY DEF Known
<1>1. ~muddled /\ ~Overlap' /\ ~Overlap /\ \A u \in Tabs : CopyIsAsked(u)
  BY DEF Known
<1>2. \A u \in Tabs : tab'[u] = IF u = t THEN j ELSE tab[u]
  BY DEF CartTyped
<1>3. ASSUME NEW u \in Tabs PROVE CopyIsAsked(u)'
  <2>1. CASE u = t
    BY <1>1, <1>2, <2>1 DEF CopyIsAsked, TabAt
  <2>2. CASE u # t /\ asked' = asked
    BY <1>1, <1>2, <2>2 DEF CopyIsAsked, TabAt
  <2>3. CASE u # t /\ TabAt(u, "rest")
    BY <1>2, <2>3 DEF CopyIsAsked, TabAt
  <2> QED BY <1>1, <2>1, <2>2, <2>3 DEF Overlap
<1> QED BY <1>1, <1>3

\* The step of one request.
LEMMA TabStepKeeps ==
  ASSUME CartInv, NEW t \in Tabs, TabStep(t), muddled' = (muddled \/ Overlap')
  PROVE  CartInv'
<1>0. /\ CartTyped /\ Known /\ SureOrders /\ tab[t] \in TabType /\ cart[Place] \in Maps /\ Unsent \in TabType
      /\ Place \in Places /\ Unsent.at = "rest" /\ muddled' \in BOOLEAN /\ JobFits(tab[t]) /\ JobFits(Unsent)
      /\ \A p \in TabPlaces : [tab[t] EXCEPT !.at = p] \in TabType
  BY UnsentTyped DEF CartInv, CartTyped, Place, Places, TabType
<1>1. ASSUME NEW g \in Goods, NEW l \in Requests, AddCheck(t, g, l) PROVE CartInv'
  <2> DEFINE j == [Unsent EXCEPT !.at = "add", !.good = g, !.line = l]
  <2>1. j \in TabType /\ j.at = "add"
    BY <1>0 DEF TabType, TabPlaces
  <2>5. JobFits(j)
    BY <1>1 DEF AddCheck, JobFits, Unsent
  <2>2. tab' = [tab EXCEPT ![t] = j] /\ UNCHANGED <<shelf, linked, cart, bought, asked>>
    BY <1>1 DEF AddCheck
  <2> HIDE DEF j
  <2>3. Known'
    BY <1>0, <2>1, <2>2, KnownStep DEF Known, Place
  <2>4. SureOrders' /\ CartTyped'
    BY <1>0, <2>1, <2>2, <2>5, TabMoves DEF SureOrders, CartTyped, JobFits
  <2> QED BY <2>3, <2>4 DEF CartInv
<1>2. ASSUME NEW g \in Goods, NEW l \in Requests, UpdateRead(t, g, l) PROVE CartInv'
  <2> DEFINE j == [at |-> IF l.qty = 0 THEN "write" ELSE "update", good |-> g, line |-> l,
                   map |-> Updated(cart[Place], g, l), want |-> Clear(Updated(asked, g, l))]
  <2>1. j \in TabType /\ j.at \notin {"add", "order"} /\ (~muddled => j.map = j.want)
    <3>1. Updated(cart[Place], g, l) \in Maps /\ Updated(asked, g, l) \in Maps
      BY <1>0, UpdatedTyped DEF CartTyped
    <3>2. Clear(Updated(asked, g, l)) \in Maps
      BY <3>1, LineTyped DEF Clear
    <3>3. ~muddled => Updated(cart[Place], g, l) = Clear(Updated(asked, g, l))
      BY <1>0 DEF Known, Clear
    <3> QED BY <3>1, <3>2, <3>3 DEF TabType, TabPlaces
  <2>2. tab' = [tab EXCEPT ![t] = j] /\ UNCHANGED <<shelf, linked, cart, bought, asked>>
    BY <1>2 DEF UpdateRead
  <2> HIDE DEF j
  <2>3. Known'
    BY <1>0, <2>1, <2>2, KnownStep DEF Known, Place
  <2>4. SureOrders' /\ CartTyped'
    BY <1>0, <2>1, <2>2, TabMoves DEF SureOrders, CartTyped, JobFits
  <2> QED BY <2>3, <2>4 DEF CartInv
<1>3. CASE AddRead(t)
  <2> DEFINE g == tab[t].good
             l == tab[t].line
             j == [tab[t] EXCEPT !.at = "write", !.map = Added(cart[Place], g, l), !.want = Clear(Added(asked, g, l))]
  <2>0. g \in Goods /\ l \in Requests /\ l.qty >= 1 /\ cart[Place][g].qty + l.qty <= MaxQty
    BY <1>0, <1>3 DEF AddRead, TabAt, JobFits, TabType
  <2>1. j \in TabType /\ j.at \notin {"add", "order"} /\ (~muddled => j.map = j.want)
    <3>1. Added(cart[Place], g, l) \in Maps
      BY <1>0, <2>0, AddedTyped
    <3>3. ~muddled => Added(cart[Place], g, l) = Clear(Added(asked, g, l))
      BY <1>0 DEF Known, Clear
    <3>2. Clear(Added(asked, g, l)) \in Maps
      BY <3>1, <3>3, LineTyped DEF Clear
    <3> QED BY <1>0, <3>1, <3>2, <3>3 DEF TabType, TabPlaces
  <2>2. tab' = [tab EXCEPT ![t] = j] /\ UNCHANGED <<shelf, linked, cart, bought, asked>>
    BY <1>0, <1>3 DEF AddRead, CartTyped
  <2> HIDE DEF j
  <2>3. Known'
    BY <1>0, <2>1, <2>2, KnownStep DEF Known, Place
  <2>4. SureOrders' /\ CartTyped'
    BY <1>0, <2>1, <2>2, TabMoves DEF SureOrders, CartTyped, JobFits
  <2> QED BY <2>3, <2>4 DEF CartInv
<1>4. CASE UpdateCheck(t)
  <2>1. PICK j \in {Unsent, [tab[t] EXCEPT !.at = "write"]} : tab' = [tab EXCEPT ![t] = j]
    BY <1>4 DEF UpdateCheck
  <2>2. j \in TabType /\ j.at \notin {"add", "order"} /\ UNCHANGED <<shelf, linked, cart, bought, asked>>
    BY <1>0, <1>4, <2>1 DEF UpdateCheck, TabPlaces, TabType
  <2>3. ~muddled => (j.at \in {"update", "write"} => j.map = j.want)
    BY <1>0, <1>4, <2>1 DEF UpdateCheck, TabAt, Known, CopyIsAsked, TabType
  <2>4. Known'
    BY <1>0, <2>1, <2>2, <2>3, KnownStep DEF Known, Place
  <2>5. SureOrders' /\ CartTyped'
    BY <1>0, <2>1, <2>2, TabMoves DEF SureOrders, CartTyped, JobFits
  <2> QED BY <2>4, <2>5 DEF CartInv
<1>5. CASE WriteCart(t)
  <2>1. /\ tab' = [tab EXCEPT ![t] = Unsent] /\ UNCHANGED <<shelf, linked, bought>> /\ ~TabAt(t, "rest")
        /\ cart' = [cart EXCEPT ![Place] = tab[t].map] /\ asked' = tab[t].want /\ Place' = Place
    BY <1>5 DEF WriteCart, TabAt, Place
  <2>2. cart' \in [Places -> Maps] /\ asked' \in Maps /\ cart'[Place'] = tab[t].map
    BY <1>0, <2>1 DEF CartTyped, TabType
  <2>3. ~muddled => cart'[Place'] = asked'
    BY <1>0, <1>5, <2>1, <2>2 DEF Known, CopyIsAsked, WriteCart, TabAt
  <2>4. Known'
    BY <1>0, <2>1, <2>3, KnownStep
  <2>5. SureOrders' /\ CartTyped'
    BY <1>0, <2>1, <2>2, TabMoves DEF SureOrders, CartTyped, JobFits
  <2> QED BY <2>4, <2>5 DEF CartInv
<1>6. ASSUME NEW shown, OrderRead(t, shown) PROVE CartInv'
  <2> DEFINE j == [Unsent EXCEPT !.at = "order", !.map = cart[Place]]
  <2>1. j \in TabType /\ j.at = "order" /\ j.map = cart[Place] /\ j.map # Empty
    BY <1>0, <1>6 DEF TabType, TabPlaces, OrderRead
  <2>2. tab' = [tab EXCEPT ![t] = j] /\ UNCHANGED <<shelf, linked, cart, bought, asked>>
    BY <1>6 DEF OrderRead
  <2> HIDE DEF j
  <2>3. Known'
    BY <1>0, <2>1, <2>2, KnownStep DEF Known, Place
  <2>4. SureOrders' /\ CartTyped'
    BY <1>0, <2>1, <2>2, TabMoves DEF SureOrders, CartTyped, JobFits
  <2> QED BY <2>3, <2>4 DEF CartInv
<1>7. ASSUME NEW mode, PlaceOrder(t, mode) PROVE CartInv'
  <2> DEFINE m == tab[t].map
             b == [lines |-> OrderLines(m), sure |-> ~muddled, asked |-> OrderLines(asked)]
             j == [tab[t] EXCEPT !.at = "clear"]
  <2>1. j \in TabType /\ j.at = "clear" /\ tab' = [tab EXCEPT ![t] = j] /\ UNCHANGED <<linked, cart, asked>>
    BY <1>0, <1>7 DEF PlaceOrder, TabPlaces, TabType
  <2>2. m \in Maps /\ m # Empty /\ asked \in Maps /\ bought' = Append(bought, b) /\ (~muddled => m = asked)
    BY <1>0, <1>7 DEF PlaceOrder, TabAt, TabType, CartTyped, JobFits, Known, CopyIsAsked
  <2>3. b \in Sold /\ (b.sure => b.lines = b.asked)
    <3>1. muddled \in BOOLEAN /\ b.sure = ~muddled /\ b.lines = OrderLines(m) /\ b.asked = OrderLines(asked)
      BY <1>0 DEF CartTyped
    <3>2. b.sure => b.lines = b.asked
      BY <2>2, <3>1
    <3>3. CASE muddled
      <4>1. (~muddled) = FALSE
        BY <3>3
      <4> QED BY <2>2, <3>2, <4>1 DEF Sold
    <3>4. CASE ~muddled
      <4>1. (~muddled) = TRUE
        BY <3>4
      <4> QED BY <2>2, <3>2, <4>1 DEF Sold
    <3> QED BY <3>1, <3>3, <3>4
  <2>4. shelf' \in [Goods -> [active : BOOLEAN, stock : 0..MaxStock]]
    <3>1. ASSUME NEW g \in Goods PROVE [shelf[g] EXCEPT !.stock = @ - m[g].qty] \in [active : BOOLEAN, stock : 0..MaxStock]
      <4>1. shelf[g] \in [active : BOOLEAN, stock : 0..MaxStock] /\ m[g].qty \in Nat /\ MaxStock \in Nat
        BY <1>0, <2>2, LineTyped, CartAssumption DEF CartAssumption, CartTyped, Maps
      <4>2. m[g].qty <= shelf[g].stock
        BY <1>7, <4>1 DEF PlaceOrder, InCart, InStock
      <4>3. shelf[g].stock - m[g].qty \in 0..MaxStock
        BY <4>1, <4>2
      <4> QED BY <4>1, <4>3
    <3> QED BY <1>0, <1>7, <3>1 DEF PlaceOrder, CartTyped
  <2> HIDE DEF j, b
  <2>5. bought' \in Seq(Sold) /\ SureOrders'
    BY <1>0, <2>2, <2>3, AppendProperties DEF CartTyped, SureOrders
  <2>6. Known'
    BY <1>0, <2>1, KnownStep DEF Known, Place
  <2>7. CartTyped'
    BY <1>0, <2>1, <2>4, <2>5, TabMoves DEF CartTyped, JobFits
  <2> QED BY <2>5, <2>6, <2>7 DEF CartInv
<1>8. CASE OrderRefused(t)
  <2>1. tab' = [tab EXCEPT ![t] = Unsent] /\ UNCHANGED <<shelf, linked, cart, bought, asked>>
    BY <1>8 DEF OrderRefused
  <2>3. Known'
    BY <1>0, <2>1, KnownStep DEF Known, Place
  <2>4. SureOrders' /\ CartTyped'
    BY <1>0, <2>1, TabMoves DEF SureOrders, CartTyped, JobFits
  <2> QED BY <2>3, <2>4 DEF CartInv
<1>9. CASE ClearOrdered(t)
  <2>1. /\ tab' = [tab EXCEPT ![t] = Unsent] /\ UNCHANGED <<shelf, linked, bought>> /\ ~TabAt(t, "rest")
        /\ cart' = [cart EXCEPT ![Place] = Empty] /\ asked' = Empty /\ Place' = Place
    BY <1>9 DEF ClearOrdered, TabAt, Place
  <2>2. cart' \in [Places -> Maps] /\ asked' \in Maps /\ cart'[Place'] = asked'
    BY <1>0, <2>1, LineTyped DEF CartTyped
  <2>4. Known'
    BY <1>0, <2>1, <2>2, KnownStep
  <2>5. SureOrders' /\ CartTyped'
    BY <1>0, <2>1, <2>2, TabMoves DEF SureOrders, CartTyped, JobFits
  <2> QED BY <2>4, <2>5 DEF CartInv
<1> QED BY <1>1, <1>2, <1>3, <1>4, <1>5, <1>6, <1>7, <1>8, <1>9 DEF TabStep

LEMMA CartInit0 == CartInit => CartInv
<1> SUFFICES ASSUME CartInit PROVE CartInv
  OBVIOUS
<1>1. Place \in Places /\ MaxStock \in 0..MaxStock
  BY CartAssumption DEF CartAssumption, CartInit, Place, Places
<1>2. CartTyped
  BY <1>1, UnsentTyped, LineTyped, EmptySeq DEF CartInit, CartTyped
<1> QED BY <1>1, <1>2, UnsentTyped DEF CartInit, CartInv, Known, SureOrders, Overlap, TabAt, CopyIsAsked

LEMMA CartStep == CartInv /\ [CartNext]_cartVars => CartInv'
<1> SUFFICES ASSUME CartInv, [CartNext]_cartVars PROVE CartInv'
  OBVIOUS
<1>0. CartTyped /\ Known /\ SureOrders /\ Unsent \in TabType /\ Unsent.at = "rest" /\ Empty \in Maps
      /\ Place \in Places
  BY UnsentTyped, LineTyped DEF CartInv, Place, Places
<1>1. ASSUME NEW t \in Tabs, TabStep(t), muddled' = (muddled \/ Overlap') PROVE CartInv'
  BY <1>1, TabStepKeeps
<1>2. CASE GetCart
  BY <1>0, <1>2 DEF GetCart, CartInv, CartTyped, Known, SureOrders, AllAtRest, Overlap, TabAt, CopyIsAsked, Place
<1>3. CASE ClearCart
  <2>1. cart' \in [Places -> Maps] /\ cart'[Place'] = asked' /\ UNCHANGED <<shelf, linked, tab, bought>> /\ asked' = Empty
    BY <1>0, <1>3 DEF ClearCart, CartTyped, Place
  <2>2. muddled' \in BOOLEAN /\ (~muddled' => \A t \in Tabs : TabAt(t, "rest"))
    BY <1>0, <1>3 DEF ClearCart, AllAtRest, CartTyped
  <2> QED BY <1>0, <2>1, <2>2 DEF CartInv, CartTyped, Known, SureOrders, Overlap, TabAt, CopyIsAsked
<1>4. ASSUME NEW t \in Tabs, CommandFails(t) PROVE CartInv'
  <2>1. tab[t].map \in Maps
    BY <1>0 DEF CartTyped, TabType
  <2>2. cart' \in [Places -> Maps]
    BY <1>0, <1>4, <2>1 DEF CommandFails, CartTyped
  <2>3. tab' = [tab EXCEPT ![t] = Unsent] /\ muddled' = TRUE /\ UNCHANGED <<shelf, linked, bought, asked>>
    BY <1>4 DEF CommandFails
  <2>4. CartTyped'
    BY <1>0, <2>2, <2>3, UnsentTyped, TabMoves DEF CartTyped
  <2> QED BY <1>0, <2>3, <2>4 DEF CartInv, Known, SureOrders
<1>5. ASSUME NEW p \in Places, CartExpires(p) PROVE CartInv'
  <2>1. cart' \in [Places -> Maps] /\ UNCHANGED <<shelf, linked, tab, bought, asked>> /\ Place' = Place
    BY <1>0, <1>5 DEF CartExpires, CartTyped, Place
  <2>2. muddled' \in BOOLEAN /\ (~muddled' => ~muddled /\ cart'[Place] = cart[Place])
    BY <1>0, <1>5 DEF CartExpires, CartTyped
  <2> QED BY <1>0, <2>1, <2>2 DEF CartInv, CartTyped, Known, SureOrders, Overlap, TabAt, CopyIsAsked
<1>6. CASE LinkTurns
  <2>1. UNCHANGED <<shelf, cart, tab, bought, asked>> /\ linked' \in BOOLEAN /\ muddled' \in BOOLEAN
    BY <1>0, <1>6 DEF LinkTurns, CartTyped
  <2>2. ~muddled' => ~muddled /\ cart'[Place'] = cart[Place]
    BY <1>0, <1>6 DEF LinkTurns, Place
  <2> QED BY <1>0, <2>1, <2>2 DEF CartInv, CartTyped, Known, SureOrders, Overlap, TabAt, CopyIsAsked
<1>7. CASE CartRestart
  <2>1. /\ cart' \in [Places -> Maps] /\ UNCHANGED <<shelf, linked, bought, asked>> /\ Place' = Place
        /\ \A t \in Tabs : tab'[t] = Unsent
        /\ tab' \in [Tabs -> TabType]
    BY <1>0, <1>7 DEF CartRestart, CartTyped, Place
  <2>4. muddled' = (muddled \/ ~AllAtRest \/ cart'[Place] # cart[Place])
    BY <1>7, <2>1 DEF CartRestart
  <2>2. muddled' \in BOOLEAN /\ (~muddled' => ~muddled /\ cart'[Place'] = cart[Place])
    BY <1>0, <2>1, <2>4 DEF CartTyped
  <2>3. CartTyped'
    BY <1>0, <2>1, <2>2, UnsentTyped DEF CartTyped
  <2> QED BY <1>0, <2>1, <2>2, <2>3 DEF CartInv, Known, SureOrders, Overlap, TabAt, CopyIsAsked
<1>8. ASSUME NEW g \in Goods, ShelfChanges(g) PROVE CartInv'
  BY <1>0, <1>8 DEF ShelfChanges, CartInv, CartTyped, Known, SureOrders, Overlap, TabAt, CopyIsAsked, Place
<1>9. CASE UNCHANGED cartVars
  BY <1>0, <1>9 DEF cartVars, CartInv, CartTyped, Known, SureOrders, Overlap, TabAt, CopyIsAsked, Place
<1> QED BY <1>1, <1>2, <1>3, <1>4, <1>5, <1>6, <1>7, <1>8, <1>9 DEF CartNext

LEMMA CartAlways == CartSpec => []CartInv
  BY CartInit0, CartStep, PTL DEF CartSpec

\* Every variable of the cart keeps its type; an order has at least one line.
THEOREM CartTypes == CartSpec => []CartTypeOK
<1>1. CartInv => CartTypeOK
  <2> SUFFICES ASSUME CartInv PROVE CartTypeOK
    OBVIOUS
  <2>1. ASSUME NEW i \in DOMAIN bought PROVE DOMAIN bought[i].lines \in (SUBSET Goods) \ {{}}
    <3>1. bought[i] \in Sold
      BY ElementOfSeq, LenProperties DEF CartInv, CartTyped
    <3>2. PICK m \in Maps \ {Empty} : bought[i].lines = OrderLines(m)
      BY <3>1 DEF Sold
    <3> QED BY <3>2, NotEmpty DEF OrderLines
  <2> QED BY <2>1 DEF CartInv, CartTyped, CartTypeOK, Maps, TabType, TabPlaces, Requests
<1> QED BY <1>1, CartAlways, PTL

\* The cart of a customer whose requests were answered one by one is what those
\* answers amount to, and an order made of it has its lines.
THEOREM CartIsAsked == CartSpec => []CartIsWhatWasAsked
<1>1. CartInv => CartIsWhatWasAsked
  BY DEF CartInv, Known, SureOrders, CartIsWhatWasAsked
<1> QED BY <1>1, CartAlways, PTL

-----------------------------------------------------------------------------
(* Signing in. *)

SessionType == [at : SessionPlaces, resend : BOOLEAN, otp : Otps, count : 0..MaxStrikes, token : 0..MaxTokens]

\* The places from which a request still releases the send lock, those at which
\* the newest code has yet to be sent or dropped, and those at which a wrong
\* entry is being counted.
Locking  == {"forget", "look", "store", "send", "unlock", "unlock_failed"}
Undecided   == {"send", "unlock_failed", "drop"}
Counting == {"count", "strike", "put_back"}

\* What is put back has an attempt left.
TriesLeft == \A h \in Sessions : session[h].at \in Counting => session[h].otp.tries < MaxTries

\* A lock is held by a request that will release it, if none was cut short.
LockIsHeld == ~cutShort /\ sendLock => \E h \in Sessions : session[h].at \in Locking

\* One request at a time: the code in Redis is the one of the newest SMS, unless
\* the request is about to send or to drop it; the device has the token of the
\* table, unless the request is about to hand it over or to take it away.
OneIsIn == ~crossedIn => \A g, h \in Sessions : session[g].at = "out" \/ session[h].at = "out" \/ g = h

CodeIsSent ==
    ~crossedIn /\ ~cutShort =>
        /\ otpKey # NoOtp => otpKey.code = sms \/ \E h \in Sessions : session[h].at \in Undecided
        /\ \A h \in Sessions : /\ session[h].at = "send" /\ otpKey # NoOtp => otpKey.code = session[h].otp.code
                               /\ session[h].at \in Counting => session[h].otp.code = sms

TokenIsHeld ==
    ~crossedIn /\ ~cutShort =>
        /\ (\A h \in Sessions : session[h].at \notin {"answer", "blacklist"}) => device = dbToken
        /\ \A h \in Sessions : /\ session[h].at = "answer" => session[h].token = dbToken
                               /\ session[h].at = "blacklist" => dbToken = 0

\* What the last two come to when nobody but the request s is in.
CodeWith(s) ==
    /\ otpKey # NoOtp => otpKey.code = sms \/ s.at \in Undecided
    /\ s.at = "send" /\ otpKey # NoOtp => otpKey.code = s.otp.code
    /\ s.at \in Counting => s.otp.code = sms

TokenWith(s) ==
    /\ s.at \notin {"answer", "blacklist"} => device = dbToken
    /\ s.at = "answer" => s.token = dbToken
    /\ s.at = "blacklist" => dbToken = 0

LoginInv == LoginTypeOK /\ TriesLeft /\ LockIsHeld /\ OneIsIn /\ CodeIsSent /\ TokenIsHeld

\* The moves of a request.

LEMMA Bounds == /\ MaxSms \in Nat /\ MaxTokens \in Nat /\ MaxTries \in Nat /\ MaxStrikes \in Nat
                /\ NoOtp \in Otps /\ Out \in SessionType /\ Out.at = "out"
  BY LoginAssumption DEF LoginAssumption, NoOtp, Otps, Out, SessionType, SessionPlaces

\* There is room for one more below a bound.
LEMMA Numbers ==
  ASSUME LoginTypeOK
  PROVE  /\ codes < MaxSms => codes + 1 \in 0..MaxSms
         /\ tokens < MaxTokens => tokens + 1 \in 0..MaxTokens
         /\ 0 \in 0..MaxSms /\ 0 \in 0..MaxTokens /\ 0 \in 0..MaxTries /\ 0 \in 0..MaxStrikes
<1>1. codes \in 0..MaxSms /\ tokens \in 0..MaxTokens
  BY DEF LoginTypeOK
<1> QED BY <1>1, Bounds

\* A request moves alone; unless another is noted, the others are out.
LEMMA SessionMoves ==
  ASSUME LoginTypeOK, NEW h \in Sessions, NEW s \in SessionType, Continues(h, s)
  PROVE  /\ session' \in [Sessions -> SessionType] /\ crossedIn' \in BOOLEAN
         /\ \A g \in Sessions : session'[g] = IF g = h THEN s ELSE session[g]
         /\ ~crossedIn' => ~crossedIn /\ \A g \in Sessions \ {h} : session[g].at = "out"
  BY DEF Continues, LoginTypeOK, SessionType, Others, SessionAt

\* Every step of a request is a move to a record of the right type, and only a
\* code with attempts left is put back.
LEMMA StepMoves ==
  ASSUME LoginTypeOK, TriesLeft, NEW h \in Sessions, SessionStep(h)
  PROVE  \E s \in SessionType : Continues(h, s) /\ (s.at \in Counting => s.otp.tries < MaxTries)
<1>0. /\ session[h] \in SessionType /\ otpKey \in Otps /\ Out \in SessionType /\ strikes \in 0..MaxStrikes
      /\ \A at \in SessionPlaces : /\ [session[h] EXCEPT !.at = at] \in SessionType
                                    /\ [session[h] EXCEPT !.at = at].at = at
                                    /\ [session[h] EXCEPT !.at = at].otp = session[h].otp
      /\ session[h].at \in Counting => session[h].otp.tries < MaxTries
  BY Bounds DEF LoginTypeOK, SessionType, TriesLeft
<1>1. ASSUME NEW at \in SessionPlaces \ Counting, Proceeds(h, at)
      PROVE  \E s \in SessionType : Continues(h, s) /\ (s.at \in Counting => s.otp.tries < MaxTries)
  BY ZenonT(60), <1>0, <1>1 DEF Proceeds
<1>2. CASE Ends(h)
  BY <1>0, <1>2, Bounds DEF Ends, Counting
<1>3. ASSUME NEW resend \in BOOLEAN, SendOtp(h, resend)
      PROVE  \E s \in SessionType : Continues(h, s) /\ (s.at \in Counting => s.otp.tries < MaxTries)
  <2>1. [Out EXCEPT !.at = "lock", !.resend = resend] \in SessionType
    BY <1>0 DEF SessionType, SessionPlaces
  <2>2. [Out EXCEPT !.at = "lock", !.resend = resend].at = "lock"
    BY DEF Out
  <2> QED BY <1>3, <2>1, <2>2 DEF SendOtp, Counting
<1>4. CASE SetSendLock(h) \/ ForgetCode(h) \/ LookForCode(h) \/ SendSms(h) \/ ReleaseSendLock(h) \/ SpendCode(h)
  BY <1>1, <1>2, <1>4 DEF SetSendLock, ForgetCode, LookForCode, SendSms, ReleaseSendLock, SpendCode,
                          SessionPlaces, Counting
<1>5. CASE DropCode(h) \/ PutBack(h) \/ Answer(h) \/ Blacklist(h) \/ SessionFails(h)
  BY <1>2, <1>5 DEF DropCode, PutBack, Answer, Blacklist, SessionFails
<1>6. CASE StoreCode(h)
  <2>0. [code |-> codes + 1, tries |-> 0] \in Otps
    BY <1>6, Numbers DEF StoreCode, Otps
  <2>1. [session[h] EXCEPT !.at = "send", !.otp = [code |-> codes + 1, tries |-> 0]] \in SessionType
    BY <1>0, <2>0 DEF SessionType, SessionPlaces
  <2>2. [session[h] EXCEPT !.at = "send", !.otp = [code |-> codes + 1, tries |-> 0]].at = "send"
    BY <1>0 DEF SessionType
  <2> QED BY <1>6, <2>1, <2>2 DEF StoreCode, Counting
<1>7. CASE VerifyOtp(h)
  <2> DEFINE s == [Out EXCEPT !.otp = otpKey]
  <2>1. s \in SessionType /\ s.otp = otpKey
    BY <1>0 DEF SessionType
  <2>2. PICK at \in {"drop", "count", "spend"} :
           Continues(h, [s EXCEPT !.at = at]) /\ (at = "count" => otpKey.tries < MaxTries)
    BY <1>7 DEF VerifyOtp
  <2> HIDE DEF s
  <2>3. [s EXCEPT !.at = at] \in SessionType /\ [s EXCEPT !.at = at].at = at /\ [s EXCEPT !.at = at].otp = otpKey
    BY <2>1 DEF SessionType, SessionPlaces
  <2> QED BY <2>2, <2>3 DEF Counting
<1>8. CASE CountStrike(h)
  <2> DEFINE s == [session[h] EXCEPT !.at = "strike", !.count = OneMore(strikes)]
  <2>1. OneMore(strikes) \in 0..MaxStrikes
    BY <1>0, Bounds DEF OneMore
  <2>2. s \in SessionType /\ s.otp = session[h].otp
    BY <1>0, <2>1 DEF SessionType, SessionPlaces
  <2>3. Continues(h, s) /\ session[h].at \in Counting
    BY <1>8 DEF CountStrike, SessionAt, Counting
  <2> HIDE DEF s
  <2> QED BY <1>0, <2>2, <2>3
<1>9. CASE WriteStrike(h)
  <2>1. session[h].at \in Counting /\ \E at \in {"drop", "put_back"} : Proceeds(h, at)
    BY <1>9 DEF WriteStrike, SessionAt, Counting
  <2>2. CASE Proceeds(h, "put_back")
    BY <1>0, <2>1, <2>2 DEF Proceeds, SessionPlaces
  <2> QED BY <1>1, <2>1, <2>2 DEF SessionPlaces, Counting
<1>10. CASE RefreshToken(h) \/ Logout(h)
  <2>1. \A at \in {"token", "blacklist"} : [Out EXCEPT !.at = at] \in SessionType /\ [Out EXCEPT !.at = at].at = at
    BY ZenonT(120), <1>0 DEF Out, SessionType, SessionPlaces
  <2> QED BY <1>10, <2>1 DEF RefreshToken, Logout, Counting
<1>11. CASE WriteToken(h)
  <2>1. [session[h] EXCEPT !.at = "answer", !.token = tokens + 1] \in SessionType
    <3>1. tokens + 1 \in 0..MaxTokens
      BY <1>11, Numbers DEF WriteToken
    <3> QED BY <1>0, <3>1 DEF SessionType, SessionPlaces
  <2>2. [session[h] EXCEPT !.at = "answer", !.token = tokens + 1].at = "answer"
    BY <1>0 DEF SessionType
  <2> QED BY <1>11, <2>1, <2>2 DEF WriteToken, Counting
<1> QED BY <1>3, <1>4, <1>5, <1>6, <1>7, <1>8, <1>9, <1>10, <1>11 DEF SessionStep

\* Types.

LEMMA LoginTypeInit == LoginInit => LoginTypeOK
<1>1. 0 \in 0..MaxSms /\ 0 \in 0..MaxTokens /\ 0 \in 0..MaxStrikes
  BY Bounds
<1>2. ASSUME LoginInit
      PROVE  session \in [Sessions -> SessionType]
  BY <1>2, Bounds DEF LoginInit
<1> QED BY <1>1, <1>2, Bounds DEF LoginInit, LoginTypeOK, SessionType

LEMMA SessionTyped ==
  ASSUME LoginTypeOK, TriesLeft, NEW h \in Sessions, SessionStep(h)
  PROVE  LoginTypeOK' /\ TriesLeft'
<1>0. /\ session[h] \in SessionType /\ NoOtp \in Otps /\ 0 \in 0..MaxStrikes /\ 0 \in 0..MaxTokens /\ MaxTries \in Nat
  BY Bounds DEF LoginTypeOK, SessionType
<1>1. session' \in [Sessions -> SessionType] /\ crossedIn' \in BOOLEAN /\ TriesLeft'
  BY StepMoves, SessionMoves DEF TriesLeft
<1>2. otpKey' \in Otps
  <2>1. CASE StoreCode(h)
    BY <2>1, Numbers DEF StoreCode, Otps
  <2>2. CASE PutBack(h)
    BY <1>0, <2>2 DEF PutBack, TriesLeft, SessionAt, Counting, SessionType, Otps, LoginTypeOK
  <2>3. CASE otpKey' \in {otpKey, NoOtp}
    BY <1>0, <2>3 DEF LoginTypeOK
  <2> QED BY <2>1, <2>2, <2>3 DEF SessionStep, SendOtp, SetSendLock, ForgetCode, LookForCode, SendSms, ReleaseSendLock,
        DropCode, VerifyOtp, CountStrike, WriteStrike, SpendCode, RefreshToken, WriteToken, Answer, Logout, Blacklist,
        SessionFails
<1>3. strikes' \in 0..MaxStrikes /\ sms' \in 0..MaxSms
  <2>1. strikes' \in {strikes, 0, session[h].count} /\ sms' \in {sms, session[h].otp.code}
    BY DEF SessionStep, SendOtp, SetSendLock, ForgetCode, LookForCode, StoreCode, SendSms, ReleaseSendLock,
        DropCode, VerifyOtp, CountStrike, WriteStrike, PutBack, SpendCode, RefreshToken, WriteToken, Answer, Logout,
        Blacklist, SessionFails
  <2> QED BY <1>0, <2>1 DEF SessionType, Otps, LoginTypeOK
<1>4. dbToken' \in 0..MaxTokens /\ device' \in 0..MaxTokens /\ tokens' \in 0..MaxTokens
  <2>1. CASE WriteToken(h)
    <3>1. device' = device /\ tokens' = tokens + 1 /\ dbToken' = tokens + 1 /\ tokens < MaxTokens
      BY <2>1 DEF WriteToken
    <3> QED BY <3>1, Numbers DEF LoginTypeOK
  <2>2. CASE dbToken' \in {dbToken, 0} /\ device' \in {device, session[h].token, 0} /\ tokens' = tokens
    BY <1>0, <2>2 DEF SessionType, LoginTypeOK
  <2> QED BY <2>1, <2>2 DEF SessionStep, SendOtp, SetSendLock, ForgetCode, LookForCode, StoreCode, SendSms, ReleaseSendLock,
        DropCode, VerifyOtp, CountStrike, WriteStrike, PutBack, SpendCode, RefreshToken, Answer, Logout, Blacklist,
        SessionFails
<1>5. codes' \in 0..MaxSms /\ sendLock' \in BOOLEAN /\ cutShort' \in BOOLEAN
  <2>1. CASE StoreCode(h)
    <3>1. codes' = codes + 1 /\ codes < MaxSms /\ sendLock' = sendLock /\ cutShort' = cutShort
      BY <2>1 DEF StoreCode
    <3> QED BY <3>1, Numbers DEF LoginTypeOK
  <2>2. CASE codes' = codes /\ sendLock' \in {sendLock, TRUE, FALSE} /\ cutShort' \in {cutShort, TRUE}
    BY <2>2 DEF LoginTypeOK
  <2> QED BY <2>1, <2>2 DEF SessionStep, SendOtp, SetSendLock, ForgetCode, LookForCode, SendSms, ReleaseSendLock,
        DropCode, VerifyOtp, CountStrike, WriteStrike, PutBack, SpendCode, RefreshToken, WriteToken, Answer, Logout,
        Blacklist, SessionFails
<1> QED BY <1>1, <1>2, <1>3, <1>4, <1>5 DEF LoginTypeOK, SessionType

LEMMA ExpiryTyped ==
  ASSUME LoginTypeOK, TriesLeft, KeyExpires
  PROVE  LoginTypeOK' /\ TriesLeft'
<1>1. /\ otpKey' \in {otpKey, NoOtp} /\ sendLock' \in {sendLock, FALSE} /\ strikes' \in {strikes, 0}
      /\ dbToken' = dbToken /\ session' = session /\ sms' = sms /\ device' = device
      /\ codes' = codes /\ tokens' = tokens /\ crossedIn' = crossedIn /\ cutShort' = cutShort
  BY DEF KeyExpires
<1> QED BY <1>1, Numbers, Bounds DEF LoginTypeOK, TriesLeft

\* The send lock.

LEMMA LockStep ==
  ASSUME LoginTypeOK, TriesLeft, LockIsHeld, NEW h \in Sessions, SessionStep(h)
  PROVE  LockIsHeld'
<1> SUFFICES ASSUME ~cutShort', sendLock'
             PROVE  \E g \in Sessions : session'[g].at \in Locking
  BY DEF LockIsHeld
<1>0. session \in [Sessions -> SessionType] /\ \A g \in Sessions \ {h} : session'[g] = session[g]
  BY StepMoves, SessionMoves DEF LoginTypeOK, SessionType
<1>1. CASE SetSendLock(h)
  <2>1. session'[h].at \in {"forget", "look"}
    BY <1>0, <1>1 DEF SetSendLock, Proceeds, Continues, SessionType
  <2> QED BY <2>1 DEF Locking
<1>2. CASE ReleaseSendLock(h) \/ SessionFails(h)
  BY <1>2 DEF ReleaseSendLock, SessionFails
<1>3. ASSUME sendLock' = sendLock, cutShort' = cutShort,
             session[h].at \in Locking => session'[h].at \in Locking
      PROVE  \E g \in Sessions : session'[g].at \in Locking
  <2>1. PICK g \in Sessions : session[g].at \in Locking
    BY <1>3 DEF LockIsHeld
  <2>2. CASE g = h
    BY <1>3, <2>1, <2>2
  <2>3. CASE g # h
    BY <1>0, <2>1, <2>3
  <2> QED BY <2>2, <2>3
<1>4. CASE ForgetCode(h) \/ LookForCode(h) \/ StoreCode(h) \/ SendSms(h)
  <2>1. session'[h].at \in {"look", "store", "unlock", "unlock_failed", "send"}
    <3>1. CASE ForgetCode(h)
      BY <1>0, <3>1 DEF ForgetCode, Proceeds, Continues, SessionType
    <3>2. CASE LookForCode(h)
      BY <1>0, <3>2 DEF LookForCode, Proceeds, Continues, SessionType
    <3>3. CASE StoreCode(h)
      BY <1>0, <3>3 DEF StoreCode, Proceeds, Continues, SessionType
    <3>4. CASE SendSms(h)
      BY <1>0, <3>4 DEF SendSms, Proceeds, Continues, SessionType
    <3> QED BY <1>4, <3>1, <3>2, <3>3, <3>4
  <2>2. sendLock' = sendLock /\ cutShort' = cutShort
    BY <1>4 DEF ForgetCode, LookForCode, StoreCode, SendSms
  <2> QED BY <1>3, <2>1, <2>2 DEF Locking
<1>5. CASE \/ \E resend \in BOOLEAN : SendOtp(h, resend)
           \/ DropCode(h) \/ VerifyOtp(h) \/ CountStrike(h) \/ WriteStrike(h) \/ PutBack(h) \/ SpendCode(h)
           \/ RefreshToken(h) \/ WriteToken(h) \/ Answer(h) \/ Logout(h) \/ Blacklist(h)
  <2>1. session[h].at \in {"out", "drop", "count", "strike", "put_back", "spend", "token", "answer", "blacklist"}
    BY <1>5 DEF SendOtp, DropCode, VerifyOtp, CountStrike, WriteStrike, PutBack, SpendCode, RefreshToken, WriteToken,
                Answer, Logout, Blacklist, SessionAt
  <2>2. sendLock' = sendLock /\ cutShort' = cutShort
    BY <1>5 DEF SendOtp, DropCode, VerifyOtp, CountStrike, WriteStrike, PutBack, SpendCode, RefreshToken, WriteToken,
                Answer, Logout, Blacklist
  <2> QED BY <1>3, <2>1, <2>2 DEF Locking
<1> QED BY <1>1, <1>2, <1>4, <1>5 DEF SessionStep

\* The newest code and the newest token.

\* As long as nobody crossed another and none was cut short, the one request that
\* moves is the only one in, before the step and after it.
LEMMA Alone ==
  ASSUME LoginInv, NEW h \in Sessions, SessionStep(h), ~crossedIn', ~cutShort'
  PROVE  /\ ~crossedIn /\ ~cutShort
         /\ \A g \in Sessions \ {h} : session[g].at = "out" /\ session'[g].at = "out"
         /\ CodeWith(session[h]) /\ TokenWith(session[h])
<1>1. ~crossedIn /\ \A g \in Sessions \ {h} : session[g].at = "out" /\ session'[g].at = "out"
  BY StepMoves, SessionMoves DEF LoginInv
<1>2. ~cutShort
  BY DEF SessionStep, SendOtp, SetSendLock, ForgetCode, LookForCode, StoreCode, SendSms, ReleaseSendLock,
         DropCode, VerifyOtp, CountStrike, WriteStrike, PutBack, SpendCode, RefreshToken, WriteToken, Answer,
         Logout, Blacklist, SessionFails
<1>3. CodeWith(session[h])
  BY <1>1, <1>2 DEF LoginInv, CodeIsSent, CodeWith, Undecided
<1>4. TokenWith(session[h])
  BY <1>1, <1>2 DEF LoginInv, TokenIsHeld, TokenWith
<1> QED BY <1>1, <1>2, <1>3, <1>4

LEMMA OneStep ==
  ASSUME LoginInv, NEW h \in Sessions, SessionStep(h)
  PROVE  OneIsIn'
<1>1. ~crossedIn' => \A g \in Sessions \ {h} : session'[g].at = "out"
  BY StepMoves, SessionMoves DEF LoginInv
<1> QED BY <1>1 DEF OneIsIn

LEMMA CodeStep ==
  ASSUME LoginInv, NEW h \in Sessions, SessionStep(h)
  PROVE  CodeIsSent'
<1> SUFFICES ASSUME ~crossedIn', ~cutShort'
             PROVE  CodeWith(session[h])'
  <2>1. ~crossedIn' => \A g \in Sessions \ {h} : session'[g].at = "out"
    BY StepMoves, SessionMoves DEF LoginInv
  <2> QED BY <2>1 DEF CodeIsSent, CodeWith, Counting
<1>0. /\ session \in [Sessions -> SessionType] /\ session[h] \in SessionType
      /\ CodeWith(session[h]) /\ otpKey \in Otps
  BY Alone DEF LoginInv, LoginTypeOK, SessionType
<1>1. CASE StoreCode(h)
  <2>1. session'[h].at = "send" /\ session'[h].otp = otpKey'
    BY <1>0, <1>1 DEF StoreCode, Continues, SessionType
  <2> QED BY <2>1 DEF CodeWith, Undecided, Counting
<1>2. CASE SendSms(h)
  <2>0. session[h].at = "send" /\ otpKey' = otpKey
    BY <1>2 DEF SendSms, SessionAt
  <2>1. CASE sms' = session[h].otp.code /\ Proceeds(h, "unlock")
    <3>1. session'[h].at = "unlock"
      BY <1>0, <2>1 DEF Proceeds, Continues, SessionType
    <3> QED BY <1>0, <2>0, <2>1, <3>1 DEF CodeWith, Counting
  <2>2. CASE Proceeds(h, "unlock_failed")
    <3>1. session'[h].at = "unlock_failed"
      BY <1>0, <2>2 DEF Proceeds, Continues, SessionType
    <3> QED BY <3>1 DEF CodeWith, Undecided, Counting
  <2> QED BY <1>2, <2>1, <2>2 DEF SendSms
<1>3. CASE ReleaseSendLock(h)
  <2>0. otpKey' = otpKey /\ sms' = sms
    BY <1>3 DEF ReleaseSendLock
  <2>1. CASE session[h].at = "unlock" /\ Ends(h)
    <3>1. session'[h].at = "out"
      BY <1>0, <2>1, Bounds DEF Ends, Continues
    <3> QED BY <1>0, <2>0, <2>1, <3>1 DEF CodeWith, Undecided, Counting
  <2>2. CASE Proceeds(h, "drop")
    <3>1. session'[h].at = "drop"
      BY <1>0, <2>2 DEF Proceeds, Continues, SessionType
    <3> QED BY <3>1 DEF CodeWith, Undecided, Counting
  <2> QED BY <1>3, <2>1, <2>2 DEF ReleaseSendLock, SessionAt
<1>4. CASE VerifyOtp(h)
  <2>0. session[h].at = "out" /\ otpKey' = otpKey /\ sms' = sms /\ otpKey # NoOtp
    BY <1>4 DEF VerifyOtp, SessionAt
  <2>1. session'[h].at \in {"drop", "count", "spend"} /\ session'[h].otp = otpKey
    BY <1>0, <1>4 DEF VerifyOtp, Continues, Out
  <2>2. otpKey.code = sms
    BY <1>0, <2>0 DEF CodeWith, Undecided
  <2> QED BY <2>0, <2>1, <2>2 DEF CodeWith, Undecided, Counting
<1>5. CASE CountStrike(h) \/ WriteStrike(h)
  <2>0. session[h].at \in {"count", "strike"} /\ otpKey' = otpKey /\ sms' = sms
    BY <1>5 DEF CountStrike, WriteStrike, SessionAt
  <2>1. session'[h].at \in {"strike", "drop", "put_back"} /\ session'[h].otp = session[h].otp
    BY <1>0, <1>5 DEF CountStrike, WriteStrike, Proceeds, Continues, SessionType
  <2> QED BY <1>0, <2>0, <2>1 DEF CodeWith, Undecided, Counting
<1>6. CASE PutBack(h)
  <2>0. session[h].at = "put_back" /\ sms' = sms /\ otpKey'.code = session[h].otp.code
    BY <1>0, <1>6 DEF PutBack, SessionAt, SessionType, Otps
  <2>1. session'[h].at = "out"
    BY <1>0, <1>6, Bounds DEF PutBack, Ends, Continues
  <2> QED BY <1>0, <2>0, <2>1 DEF CodeWith, Counting
<1>7. CASE ForgetCode(h) \/ DropCode(h) \/ SpendCode(h)
  <2>1. session'[h].at \in {"look", "out", "token"} /\ otpKey' = NoOtp
    BY <1>0, <1>7, Bounds DEF ForgetCode, DropCode, SpendCode, Ends, Proceeds, Continues, SessionType
  <2> QED BY <2>1 DEF CodeWith, Counting
<1>8. CASE \/ \E resend \in BOOLEAN : SendOtp(h, resend)
           \/ SetSendLock(h) \/ LookForCode(h)
           \/ RefreshToken(h) \/ WriteToken(h) \/ Answer(h) \/ Logout(h) \/ Blacklist(h)
  <2>0. session[h].at \in {"out", "lock", "look", "token", "answer", "blacklist"} /\ otpKey' = otpKey /\ sms' = sms
    BY <1>8 DEF SendOtp, SetSendLock, LookForCode, RefreshToken, WriteToken, Answer, Logout, Blacklist, SessionAt
  <2>1. session'[h].at \in {"lock", "forget", "look", "store", "unlock", "token", "answer", "out", "blacklist"}
    <3>1. CASE (\E resend \in BOOLEAN : SendOtp(h, resend)) \/ RefreshToken(h) \/ Logout(h)
      BY <1>0, <3>1 DEF SendOtp, RefreshToken, Logout, Continues, Out
    <3>2. CASE SetSendLock(h) \/ LookForCode(h) \/ WriteToken(h)
      BY ZenonT(60), <1>0, <3>2 DEF SetSendLock, LookForCode, WriteToken, Proceeds, Continues, SessionType
    <3>3. CASE Answer(h) \/ Blacklist(h)
      BY <1>0, <3>3, Bounds DEF Answer, Blacklist, Ends, Continues
    <3> QED BY <1>8, <3>1, <3>2, <3>3
  <2> QED BY <1>0, <2>0, <2>1 DEF CodeWith, Undecided, Counting
<1>9. CASE SessionFails(h)
  BY <1>9 DEF SessionFails
<1> QED BY <1>1, <1>2, <1>3, <1>4, <1>5, <1>6, <1>7, <1>8, <1>9 DEF SessionStep

LEMMA TokenStep ==
  ASSUME LoginInv, NEW h \in Sessions, SessionStep(h)
  PROVE  TokenIsHeld'
<1> SUFFICES ASSUME ~crossedIn', ~cutShort'
             PROVE  TokenWith(session[h])'
  <2>1. ~crossedIn' => \A g \in Sessions \ {h} : session'[g].at = "out"
    BY StepMoves, SessionMoves DEF LoginInv
  <2> QED BY <2>1 DEF TokenIsHeld, TokenWith
<1>0. /\ session \in [Sessions -> SessionType] /\ session[h] \in SessionType
      /\ TokenWith(session[h])
  BY Alone DEF LoginInv, LoginTypeOK, SessionType
<1>1. CASE WriteToken(h)
  <2>1. session'[h].at = "answer" /\ session'[h].token = dbToken'
    BY <1>0, <1>1 DEF WriteToken, Continues, SessionType
  <2> QED BY <2>1 DEF TokenWith
<1>2. CASE Answer(h)
  <2>0. session[h].at = "answer" /\ device' = session[h].token /\ dbToken' = dbToken
    BY <1>2 DEF Answer, SessionAt
  <2>1. session'[h].at = "out"
    BY <1>0, <1>2, Bounds DEF Answer, Ends, Continues
  <2> QED BY <1>0, <2>0, <2>1 DEF TokenWith
<1>3. CASE Logout(h)
  <2>1. session'[h].at = "blacklist" /\ dbToken' = 0
    BY <1>0, <1>3 DEF Logout, Continues, Out
  <2> QED BY <2>1 DEF TokenWith
<1>4. CASE Blacklist(h)
  <2>0. session[h].at = "blacklist" /\ device' = 0 /\ dbToken' = dbToken
    BY <1>4 DEF Blacklist, SessionAt
  <2>1. session'[h].at = "out"
    BY <1>0, <1>4, Bounds DEF Blacklist, Ends, Continues
  <2> QED BY <1>0, <2>0, <2>1 DEF TokenWith
<1>5. CASE \/ \E resend \in BOOLEAN : SendOtp(h, resend)
           \/ SetSendLock(h) \/ ForgetCode(h) \/ LookForCode(h) \/ StoreCode(h)
           \/ SendSms(h) \/ ReleaseSendLock(h) \/ DropCode(h) \/ VerifyOtp(h) \/ CountStrike(h)
           \/ WriteStrike(h) \/ PutBack(h) \/ SpendCode(h) \/ RefreshToken(h)
  <2>0. session[h].at \notin {"answer", "blacklist"} /\ device' = device /\ dbToken' = dbToken
    BY <1>5 DEF SendOtp, SetSendLock, ForgetCode, LookForCode, StoreCode, SendSms, ReleaseSendLock, DropCode,
                VerifyOtp, CountStrike, WriteStrike, PutBack, SpendCode, RefreshToken, SessionAt
  <2>1. session'[h].at \notin {"answer", "blacklist"}
    <3>1. CASE (\E resend \in BOOLEAN : SendOtp(h, resend)) \/ VerifyOtp(h) \/ RefreshToken(h)
      BY <1>0, <3>1 DEF SendOtp, VerifyOtp, RefreshToken, Continues, Out
    <3>2. CASE DropCode(h) \/ PutBack(h)
      BY <1>0, <3>2, Bounds DEF DropCode, PutBack, Ends, Continues
    <3>3. CASE StoreCode(h) \/ CountStrike(h)
      BY <1>0, <3>3 DEF StoreCode, CountStrike, Continues, SessionType
    <3>4. CASE ReleaseSendLock(h)
      BY <1>0, <3>4, Bounds DEF ReleaseSendLock, Ends, Proceeds, Continues, SessionType
    <3>5. CASE SetSendLock(h) \/ ForgetCode(h) \/ LookForCode(h) \/ SendSms(h) \/ WriteStrike(h) \/ SpendCode(h)
      BY <1>0, <3>5 DEF SetSendLock, ForgetCode, LookForCode, SendSms, WriteStrike, SpendCode,
                        Proceeds, Continues, SessionType
    <3> QED BY <1>5, <3>1, <3>2, <3>3, <3>4, <3>5
  <2> QED BY <1>0, <2>0, <2>1 DEF TokenWith
<1>6. CASE SessionFails(h)
  BY <1>6 DEF SessionFails
<1> QED BY <1>1, <1>2, <1>3, <1>4, <1>5, <1>6 DEF SessionStep

\* The invariant.

LEMMA ExpiryKeeps ==
  ASSUME LoginInv, KeyExpires
  PROVE  LoginInv'
<1>1. /\ otpKey' \in {otpKey, NoOtp} /\ (sendLock' => sendLock) /\ sms' = sms /\ session' = session
      /\ dbToken' = dbToken /\ device' = device /\ crossedIn' = crossedIn /\ cutShort' = cutShort
  BY DEF KeyExpires
<1>2. LoginTypeOK' /\ TriesLeft'
  BY ExpiryTyped DEF LoginInv
<1>3. LockIsHeld' /\ OneIsIn'
  BY <1>1 DEF LoginInv, LockIsHeld, OneIsIn
<1>4. CodeIsSent'
  BY <1>1 DEF LoginInv, CodeIsSent
<1>5. TokenIsHeld'
  BY <1>1 DEF LoginInv, TokenIsHeld
<1> QED BY <1>2, <1>3, <1>4, <1>5 DEF LoginInv

LEMMA LoginInvInit == LoginInit => LoginInv
<1> SUFFICES ASSUME LoginInit PROVE LoginInv
  OBVIOUS
<1>1. \A h \in Sessions : session[h].at = "out"
  BY Bounds DEF LoginInit
<1>2. LoginTypeOK
  BY LoginTypeInit
<1> QED BY <1>1, <1>2 DEF LoginInit, LoginInv, TriesLeft, LockIsHeld, OneIsIn, CodeIsSent, TokenIsHeld, Counting

LEMMA LoginInvStep == LoginInv /\ [LoginNext]_loginVars => LoginInv'
<1> SUFFICES ASSUME LoginInv, [LoginNext]_loginVars PROVE LoginInv'
  OBVIOUS
<1>1. ASSUME NEW h \in Sessions, SessionStep(h)
      PROVE  LoginInv'
  BY <1>1, SessionTyped, LockStep, OneStep, CodeStep, TokenStep DEF LoginInv
<1>2. CASE UNCHANGED loginVars
  BY <1>2 DEF loginVars, LoginInv, LoginTypeOK, TriesLeft, LockIsHeld, OneIsIn, CodeIsSent, TokenIsHeld
<1> QED BY <1>1, <1>2, ExpiryKeeps DEF LoginNext

LEMMA LoginInvAlways == LoginSpec => []LoginInv
  BY LoginInvInit, LoginInvStep, PTL DEF LoginSpec

\* Every variable of the sign-in keeps its type, however many requests are in flight.
THEOREM LoginTypes == LoginSpec => []LoginTypeOK
<1>1. LoginInv => LoginTypeOK
  BY DEF LoginInv
<1> QED BY <1>1, LoginInvAlways, PTL

\* Once every request has run to its end, nobody is locked out of asking for a
\* code; and when no two overlapped, the code that signs in is the one of the
\* newest SMS and the device holds the token of the table (sendOtp, verifyOtp,
\* refreshToken, logout).
THEOREM SignInIsSound == LoginSpec => []SignInWorks
<1>1. LoginInv => SignInWorks
  BY DEF LoginInv, LockIsHeld, CodeIsSent, TokenIsHeld, SignInWorks, AllOut, SessionAt, Locking, Undecided
<1> QED BY <1>1, LoginInvAlways, PTL

-----------------------------------------------------------------------------
(* The catalogue. *)

StewardPlaces == {"rest", "patch", "delete", "sweep"}
StewardType   == [at : StewardPlaces, cat : Categories \cup {NoCategory},
                  left : SUBSET ViewKeys, store : Stores]

\* As long as no view was being made during a change, what a customer's request
\* has made is of the tables as they are, a sweep has emptied all it is not
\* still to come to, and with none under way nothing old is left, except in the
\* stores that were missed.
NoSweep == \A w \in Stewards : ~StewardAt(w, "sweep")
Swept   == \A w \in Stewards : StewardAt(w, "sweep") =>
               \A k \in ViewKeys \ steward[w].left : view[steward[w].store][k] = 0
MadeIsFresh == \A r \in Shoppers : shopper[r].at = "made" => shopper[r].made = edition
NothingOld == NoSweep => \A s \in Stores \ missed, k \in ViewKeys : view[s][k] \in {0, edition}
ViewInv == ~overlapped => ~Overlapping /\ MadeIsFresh /\ Swept /\ NothingOld

LEMMA RestTyped == AtRest \in StewardType /\ \A e \in Nat : Browsed \in [at : {"done", "made"}, key : ViewKeys, made : 0..e]
<1>1. (CHOOSE k \in ViewKeys : TRUE) \in ViewKeys
  BY CatalogueAssumption DEF CatalogueAssumption
<1> QED BY <1>1 DEF AtRest, Browsed, StewardType, StewardPlaces, Stores

LEMMA CatalogueTypeInit == CatalogueInit => CatalogueTypeOK
<1> SUFFICES ASSUME CatalogueInit PROVE CatalogueTypeOK
  OBVIOUS
<1>1. edition = 1 /\ edition \in 1..MaxEdition /\ 0 \in 0..edition
  BY CatalogueAssumption DEF CatalogueAssumption, CatalogueInit
<1>2. products \in [Products -> [state : {"absent", "active", "hidden"}, cat : categories \cup {NoCategory}]]
  BY DEF CatalogueInit, Absent
<1>3. steward \in [Stewards -> StewardType]
  BY RestTyped DEF CatalogueInit
<1>4. shopper \in [Shoppers -> [at : {"done", "made"}, key : ViewKeys, made : 0..edition]]
  BY <1>1, RestTyped DEF CatalogueInit
<1> QED BY <1>1, <1>2, <1>3, <1>4 DEF CatalogueInit, CatalogueTypeOK, StewardType, StewardPlaces

\* A change of the tables, whatever it changes.
LEMMA ChangedTyped ==
  ASSUME CatalogueTypeOK, NEW w \in Stewards, Changed(w), overlapped' \in BOOLEAN,
         products' \in [Products -> [state : {"absent", "active", "hidden"}, cat : categories' \cup {NoCategory}]],
         categories' \subseteq Categories
  PROVE  CatalogueTypeOK'
<1>1. edition' = edition + 1 /\ edition \in Nat /\ edition' \in 1..MaxEdition
  BY CatalogueAssumption DEF CatalogueAssumption, Changed, CatalogueTypeOK
<1>2. 0..edition \subseteq 0..edition'
  BY <1>1
<1>3. view' \in [Stores -> [ViewKeys -> 0..edition']]
  BY <1>2 DEF Changed, CatalogueTypeOK
<1>4. shopper' \in [Shoppers -> [at : {"done", "made"}, key : ViewKeys, made : 0..edition']]
  BY <1>2 DEF Changed, CatalogueTypeOK
<1>5. [AtRest EXCEPT !.at = "sweep", !.left = ViewKeys, !.store = StoreInUse] \in StewardType
  BY RestTyped DEF StewardType, StewardPlaces, StoreInUse, Stores, AtRest
<1>6. steward' \in [Stewards -> StewardType]
  BY <1>5 DEF Changed, CatalogueTypeOK, StewardType, StewardPlaces
<1> QED BY <1>1, <1>3, <1>4, <1>6 DEF Changed, CatalogueTypeOK, StewardType, StewardPlaces

\* A step that leaves the tables and moves one admin request.
LEMMA StewardMoves ==
  ASSUME CatalogueTypeOK, NEW w \in Stewards, NEW j \in StewardType, steward' = [steward EXCEPT ![w] = j]
  PROVE  steward' \in [Stewards -> [at : {"rest", "patch", "delete", "sweep"}, cat : Categories \cup {NoCategory},
                                    left : SUBSET ViewKeys, store : Stores]]
  BY DEF CatalogueTypeOK, StewardType, StewardPlaces

LEMMA StewardTyped ==
  ASSUME CatalogueTypeOK, NEW w \in Stewards, StewardStep(w), overlapped' \in BOOLEAN
  PROVE  CatalogueTypeOK'
<1> DEFINE P == [state : {"absent", "active", "hidden"}, cat : categories \cup {NoCategory}]
<1>0. /\ steward[w] \in StewardType /\ AtRest \in StewardType
      /\ products \in [Products -> P] /\ categories \subseteq Categories
  BY RestTyped DEF CatalogueTypeOK, StewardType, StewardPlaces
<1>1. ASSUME NEW p \in Products, NEW c \in categories \cup {NoCategory}, NEW s \in {"active", "hidden"},
             products' = [products EXCEPT ![p] = [state |-> s, cat |-> c]], categories' = categories, Changed(w)
      PROVE  CatalogueTypeOK'
  <2>1. products' \in [Products -> P]
    BY <1>0, <1>1
  <2> QED BY <1>0, <1>1, <2>1, ChangedTyped
<1>2. ASSUME NEW p \in Products, NEW c, NEW s \in {"absent", "active", "hidden"}, UpdateProduct(w, p, s, c)
      PROVE  CatalogueTypeOK'
  <2>1. products' \in [Products -> P]
    BY <1>0, <1>2 DEF UpdateProduct
  <2> QED BY <1>0, <1>2, <2>1, ChangedTyped DEF UpdateProduct
<1>3. ASSUME NEW p \in Products, NEW c, CreateProduct(w, p, c) PROVE CatalogueTypeOK'
  BY <1>1, <1>3 DEF CreateProduct
<1>4. ASSUME NEW p \in Products, NEW c, NEW s \in {"active", "hidden"}, PatchWrite(w, p, s, c) PROVE CatalogueTypeOK'
  BY <1>1, <1>4 DEF PatchWrite
<1>5. ASSUME NEW p \in Products, UpdateStock(w, p) \/ DeleteProduct(w, p) PROVE CatalogueTypeOK'
  <2>1. products[p].state \in {"absent", "active", "hidden"}
    BY <1>0
  <2> QED BY <1>2, <1>5, <2>1 DEF UpdateStock, DeleteProduct
<1>6. ASSUME NEW p \in Products, PatchRead(w, p) PROVE CatalogueTypeOK'
  <2>1. [AtRest EXCEPT !.at = "patch"] \in StewardType
    BY <1>0 DEF StewardType, StewardPlaces
  <2> QED BY <1>6, <2>1, StewardMoves DEF PatchRead, tables, CatalogueTypeOK
<1>7. ASSUME NEW c \in Categories, CreateCategory(w, c) PROVE CatalogueTypeOK'
  <2>1. products' \in [Products -> [state : {"absent", "active", "hidden"}, cat : categories' \cup {NoCategory}]]
    BY <1>0, <1>7 DEF CreateCategory
  <2> QED BY <1>0, <1>7, <2>1, ChangedTyped DEF CreateCategory
<1>8. ASSUME NEW c \in Categories, UpdateCategory(w, c) PROVE CatalogueTypeOK'
  BY <1>0, <1>8, ChangedTyped DEF UpdateCategory
<1>9. ASSUME NEW c \in Categories, DeleteCategoryCount(w, c) PROVE CatalogueTypeOK'
  <2>1. [AtRest EXCEPT !.at = "delete", !.cat = c] \in StewardType
    BY <1>0 DEF StewardType, StewardPlaces
  <2> QED BY <1>9, <2>1, StewardMoves DEF DeleteCategoryCount, tables, CatalogueTypeOK
<1>10. CASE DeleteCategory(w)
  <2> DEFINE c == steward[w].cat
  <2>1. /\ categories' = categories \ {c} /\ Changed(w)
        /\ products' = [p \in Products |-> IF p \in InCategory(c) THEN [products[p] EXCEPT !.cat = NoCategory] ELSE products[p]]
    BY <1>10 DEF DeleteCategory
  <2>2. ASSUME NEW p \in Products
        PROVE  products'[p] \in [state : {"absent", "active", "hidden"}, cat : categories' \cup {NoCategory}]
    BY <1>0, <2>1 DEF InCategory
  <2>3. products' \in [Products -> [state : {"absent", "active", "hidden"}, cat : categories' \cup {NoCategory}]]
    BY <2>1, <2>2
  <2> QED BY <1>0, <2>1, <2>3, ChangedTyped
<1>11. CASE CategoryGone(w) \/ SweepDone(w) \/ SweepFails(w)
  <2>1. steward' = [steward EXCEPT ![w] = AtRest] /\ UNCHANGED <<tables, redisUp, view, shopper>> /\ missed' \subseteq Stores
    BY <1>0, <1>11 DEF CategoryGone, SweepDone, SweepFails, CatalogueTypeOK
  <2> QED BY <1>0, <2>1, StewardMoves DEF tables, CatalogueTypeOK
<1>12. ASSUME NEW k \in ViewKeys, SweepKey(w, k) PROVE CatalogueTypeOK'
  <2>1. [steward[w] EXCEPT !.left = steward[w].left \ {k}] \in StewardType
    BY <1>0 DEF StewardType
  <2>2. steward' = [steward EXCEPT ![w] = [steward[w] EXCEPT !.left = steward[w].left \ {k}]]
    BY <1>12 DEF SweepKey, CatalogueTypeOK
  <2>3. view' \in [Stores -> [ViewKeys -> 0..edition]]
    <3>1. steward[w].store \in Stores /\ 0 \in 0..edition
      BY <1>0 DEF StewardType, CatalogueTypeOK
    <3> QED BY <1>12, <3>1 DEF SweepKey, CatalogueTypeOK
  <2> QED BY <1>12, <2>1, <2>2, <2>3, StewardMoves DEF SweepKey, tables, CatalogueTypeOK
<1> QED BY <1>2, <1>3, <1>4, <1>5, <1>6, <1>7, <1>8, <1>9, <1>10, <1>11, <1>12 DEF StewardStep

LEMMA CatalogueTypeStep == CatalogueTypeOK /\ [CatalogueNext]_catalogueVars => CatalogueTypeOK'
<1> SUFFICES ASSUME CatalogueTypeOK, [CatalogueNext]_catalogueVars PROVE CatalogueTypeOK'
  OBVIOUS
<1>1. CASE UNCHANGED catalogueVars
  BY <1>1 DEF catalogueVars, tables, CatalogueTypeOK
<1>2. CASE CatalogueNext
  <2>0. /\ overlapped' \in BOOLEAN /\ edition \in Nat /\ 0 \in 0..edition /\ edition \in 0..edition
        /\ StoreInUse \in Stores
    BY <1>2 DEF CatalogueNext, CatalogueTypeOK, StoreInUse, Stores
  <2>1. ASSUME NEW w \in Stewards, StewardStep(w) PROVE CatalogueTypeOK'
    BY <2>0, <2>1, StewardTyped
  <2>2. ASSUME NEW r \in Shoppers, KeepView(r) PROVE CatalogueTypeOK'
    <3>1. shopper[r].key \in ViewKeys /\ shopper[r].made \in 0..edition
      BY DEF CatalogueTypeOK
    <3>2. view' \in [Stores -> [ViewKeys -> 0..edition]]
      <4>1. [view[StoreInUse] EXCEPT ![shopper[r].key] = shopper[r].made] \in [ViewKeys -> 0..edition]
        BY <2>0, <3>1 DEF CatalogueTypeOK
      <4> QED BY <2>0, <2>2, <4>1 DEF KeepView, CatalogueTypeOK
    <3>3. shopper' \in [Shoppers -> [at : {"done", "made"}, key : ViewKeys, made : 0..edition]]
      BY <2>0, <2>2, RestTyped DEF KeepView, CatalogueTypeOK
    <3> QED BY <2>0, <2>2, <3>2, <3>3 DEF KeepView, tables, CatalogueTypeOK
  <2>3. ASSUME NEW r \in Shoppers, NEW k \in ViewKeys, MakeView(r, k) PROVE CatalogueTypeOK'
    BY <2>0, <2>3 DEF MakeView, tables, CatalogueTypeOK
  <2>4. ASSUME NEW s \in Stores, NEW k \in ViewKeys, ViewExpires(s, k) PROVE CatalogueTypeOK'
    BY <2>0, <2>4 DEF ViewExpires, tables, CatalogueTypeOK
  <2>5. CASE RedisTurns
    BY <2>0, <2>5 DEF RedisTurns, tables, CatalogueTypeOK
  <2>6. CASE CatalogueRestart
    <3>1. view' \in [Stores -> [ViewKeys -> 0..edition]]
      BY <2>0, <2>6 DEF CatalogueRestart, CatalogueTypeOK
    <3>2. steward' \in [Stewards -> StewardType]
      BY <2>6, RestTyped DEF CatalogueRestart
    <3>3. shopper' \in [Shoppers -> [at : {"done", "made"}, key : ViewKeys, made : 0..edition]]
      BY <2>0, <2>6, RestTyped DEF CatalogueRestart
    <3>4. missed' \subseteq Stores
      BY <2>6 DEF CatalogueRestart, CatalogueTypeOK, Stores
    <3> QED BY <2>0, <2>6, <3>1, <3>2, <3>3, <3>4 DEF CatalogueRestart, tables, CatalogueTypeOK, StewardType, StewardPlaces
  <2> QED BY <1>2, <2>1, <2>2, <2>3, <2>4, <2>5, <2>6 DEF CatalogueNext, CatalogueStep
<1> QED BY <1>1, <1>2

\* Every variable of the catalogue keeps its type, and no product names a
\* category that is gone.
THEOREM CatalogueTypes == CatalogueSpec => []CatalogueTypeOK
  BY CatalogueTypeInit, CatalogueTypeStep, PTL DEF CatalogueSpec

-----------------------------------------------------------------------------
\* The views.

\* A change starts a sweep that has everything still to come to.
LEMMA ChangedViews ==
  ASSUME CatalogueTypeOK, NEW w \in Stewards, Changed(w), Swept, ~Overlapping'
  PROVE  MadeIsFresh' /\ Swept' /\ NothingOld'
<1>1. \A v \in Stewards : steward'[v] = IF v = w THEN [AtRest EXCEPT !.at = "sweep", !.left = ViewKeys, !.store = StoreInUse]
                                                 ELSE steward[v]
  BY DEF Changed, CatalogueTypeOK
<1>2. steward'[w].at = "sweep" /\ steward'[w].left = ViewKeys
  BY <1>1 DEF AtRest
<1>3. MadeIsFresh'
  BY <1>2 DEF MadeIsFresh, Overlapping, StewardAt, CatalogueTypeOK, Changed
<1>4. Swept'
  BY <1>1, <1>2 DEF Swept, StewardAt, Changed
<1>5. NothingOld'
  BY <1>2 DEF NothingOld, NoSweep, StewardAt
<1> QED BY <1>3, <1>4, <1>5

\* The same for any step of an admin request.
LEMMA StewardViews ==
  ASSUME CatalogueTypeOK, NEW w \in Stewards, StewardStep(w), MadeIsFresh, Swept, NothingOld, ~Overlapping'
  PROVE  MadeIsFresh' /\ Swept' /\ NothingOld'
<1>1. CASE Changed(w)
  BY <1>1, ChangedViews
<1>2. ASSUME ~StewardAt(w, "sweep"), ~StewardAt(w, "sweep")', \A v \in Stewards \ {w} : steward'[v] = steward[v],
             UNCHANGED <<tables, redisUp, view, shopper, missed>>
      PROVE  MadeIsFresh' /\ Swept' /\ NothingOld'
  BY <1>2 DEF MadeIsFresh, Swept, NothingOld, NoSweep, StewardAt, tables
<1>3. ASSUME NEW k \in ViewKeys, SweepKey(w, k) PROVE MadeIsFresh' /\ Swept' /\ NothingOld'
  <2>1. /\ steward'[w].at = "sweep" /\ steward'[w].left = steward[w].left \ {k} /\ steward'[w].store = steward[w].store
        /\ \A v \in Stewards \ {w} : steward'[v] = steward[v]
    BY <1>3 DEF SweepKey, StewardAt, CatalogueTypeOK
  <2>2. \A s \in Stores, i \in ViewKeys : view'[s][i] = IF s = steward[w].store /\ i = k THEN 0 ELSE view[s][i]
    BY <1>3 DEF SweepKey, CatalogueTypeOK
  <2>3. \A v \in Stewards : steward[v].store \in Stores
    BY DEF CatalogueTypeOK
  <2>4. MadeIsFresh'
    BY <1>3 DEF SweepKey, MadeIsFresh, tables
  <2>5. NothingOld'
    BY <2>1 DEF NothingOld, NoSweep, StewardAt
  <2>6. ASSUME NEW v \in Stewards, StewardAt(v, "sweep")', NEW i \in ViewKeys \ steward'[v].left
        PROVE  view'[steward'[v].store][i] = 0
    <3>1. CASE v = w
      BY <1>3, <2>1, <2>2, <2>3, <2>6, <3>1 DEF Swept, SweepKey
    <3>2. CASE v # w
      BY <2>1, <2>2, <2>3, <2>6, <3>2 DEF Swept, StewardAt
    <3> QED BY <3>1, <3>2
  <2> QED BY <2>4, <2>5, <2>6 DEF Swept
<1>4. CASE SweepDone(w)
  <2>1. \A v \in Stewards : steward'[v] = IF v = w THEN AtRest ELSE steward[v]
    BY <1>4 DEF SweepDone, CatalogueTypeOK
  <2>2. /\ \A i \in ViewKeys : view[steward[w].store][i] = 0
        /\ Stores \ missed' \subseteq {steward[w].store}
        /\ view' = view /\ shopper' = shopper /\ edition' = edition
    BY <1>4 DEF SweepDone, Swept, tables, CatalogueTypeOK
  <2>3. MadeIsFresh' /\ Swept'
    BY <2>1, <2>2 DEF MadeIsFresh, Swept, StewardAt, AtRest
  <2> QED BY <2>2, <2>3 DEF NothingOld
<1>5. CASE SweepFails(w)
  <2>1. \A v \in Stewards : steward'[v] = IF v = w THEN AtRest ELSE steward[v]
    BY <1>5 DEF SweepFails, CatalogueTypeOK
  <2>2. missed' = Stores /\ view' = view /\ shopper' = shopper /\ edition' = edition
    BY <1>5 DEF SweepFails, tables
  <2> QED BY <2>1, <2>2 DEF MadeIsFresh, Swept, NothingOld, StewardAt, AtRest
<1>6. ASSUME NEW p \in Products, PatchRead(w, p) PROVE MadeIsFresh' /\ Swept' /\ NothingOld'
  <2>1. ~StewardAt(w, "sweep") /\ ~StewardAt(w, "sweep")' /\ \A v \in Stewards \ {w} : steward'[v] = steward[v]
    BY <1>6 DEF PatchRead, AtRest, StewardAt, CatalogueTypeOK
  <2> QED BY <1>2, <1>6, <2>1 DEF PatchRead
<1>7. ASSUME NEW c \in Categories, DeleteCategoryCount(w, c) PROVE MadeIsFresh' /\ Swept' /\ NothingOld'
  <2>1. ~StewardAt(w, "sweep") /\ ~StewardAt(w, "sweep")' /\ \A v \in Stewards \ {w} : steward'[v] = steward[v]
    BY <1>7 DEF DeleteCategoryCount, AtRest, StewardAt, CatalogueTypeOK
  <2> QED BY <1>2, <1>7, <2>1 DEF DeleteCategoryCount
<1>8. CASE CategoryGone(w)
  <2>1. ~StewardAt(w, "sweep") /\ ~StewardAt(w, "sweep")' /\ \A v \in Stewards \ {w} : steward'[v] = steward[v]
    BY <1>8 DEF CategoryGone, AtRest, StewardAt, CatalogueTypeOK
  <2> QED BY <1>2, <1>8, <2>1 DEF CategoryGone
<1>9. CASE DeleteCategory(w) \/ \E c \in Categories : CreateCategory(w, c) \/ UpdateCategory(w, c)
  BY <1>1, <1>9 DEF DeleteCategory, CreateCategory, UpdateCategory
<1>10. ASSUME NEW p \in Products, NEW c, NEW s,
              CreateProduct(w, p, c) \/ UpdateProduct(w, p, s, c) \/ PatchWrite(w, p, s, c)
       PROVE  MadeIsFresh' /\ Swept' /\ NothingOld'
  BY <1>1, <1>10 DEF CreateProduct, UpdateProduct, PatchWrite
<1> QED BY <1>3, <1>4, <1>5, <1>6, <1>7, <1>8, <1>9, <1>10 DEF StewardStep, UpdateStock, DeleteProduct

LEMMA ViewInit == CatalogueInit => ViewInv
<1> SUFFICES ASSUME CatalogueInit PROVE ~Overlapping /\ MadeIsFresh /\ Swept /\ NothingOld
  BY DEF ViewInv
<1>1. \A w \in Stewards : steward[w].at = "rest"
  BY DEF CatalogueInit, AtRest
<1>2. \A r \in Shoppers : shopper[r].at = "done"
  BY DEF CatalogueInit, Browsed
<1> QED BY <1>1, <1>2 DEF CatalogueInit, Overlapping, MadeIsFresh, Swept, NothingOld, StewardAt

LEMMA ViewStep == CatalogueTypeOK /\ ViewInv /\ [CatalogueNext]_catalogueVars => ViewInv'
<1> SUFFICES ASSUME CatalogueTypeOK, ViewInv, [CatalogueNext]_catalogueVars, ~overlapped'
             PROVE  ~Overlapping' /\ MadeIsFresh' /\ Swept' /\ NothingOld'
  BY DEF ViewInv
<1>1. CASE UNCHANGED catalogueVars
  BY <1>1 DEF catalogueVars, tables, ViewInv, Overlapping, MadeIsFresh, Swept, NothingOld, NoSweep, StewardAt
<1>2. CASE CatalogueNext
  <2>0. ~overlapped /\ ~Overlapping' /\ ~Overlapping /\ MadeIsFresh /\ Swept /\ NothingOld
    BY <1>2 DEF CatalogueNext, ViewInv
  <2>1. ASSUME NEW w \in Stewards, StewardStep(w) PROVE MadeIsFresh' /\ Swept' /\ NothingOld'
    BY <2>0, <2>1, StewardViews
  <2>2. ASSUME NEW r \in Shoppers, KeepView(r) PROVE MadeIsFresh' /\ Swept' /\ NothingOld'
    <3>1. /\ \A w \in Stewards : StewardAt(w, "rest")
          /\ shopper[r].made = edition /\ shopper[r].key \in ViewKeys /\ StoreInUse \in Stores
      BY <2>0, <2>2 DEF Overlapping, MadeIsFresh, KeepView, CatalogueTypeOK, StoreInUse, Stores
    <3>2. \A u \in Shoppers : shopper'[u] = IF u = r THEN Browsed ELSE shopper[u]
      BY <2>2 DEF KeepView, CatalogueTypeOK
    <3>3. \A s \in Stores, k \in ViewKeys : view'[s][k] \in {view[s][k], edition}
      BY <2>2, <3>1 DEF KeepView, CatalogueTypeOK
    <3>4. MadeIsFresh'
      BY <2>0, <2>2, <3>2 DEF MadeIsFresh, Browsed, KeepView, tables
    <3> QED BY <2>0, <2>2, <3>1, <3>3, <3>4 DEF Swept, NothingOld, NoSweep, StewardAt, KeepView, tables
  <2>3. ASSUME NEW r \in Shoppers, NEW k \in ViewKeys, MakeView(r, k) PROVE MadeIsFresh' /\ Swept' /\ NothingOld'
    BY <2>0, <2>3 DEF MakeView, tables, CatalogueTypeOK, MadeIsFresh, Swept, NothingOld, NoSweep, StewardAt
  <2>4. ASSUME NEW s \in Stores, NEW k \in ViewKeys, ViewExpires(s, k) PROVE MadeIsFresh' /\ Swept' /\ NothingOld'
    <3>1. \A z \in Stores, i \in ViewKeys : view'[z][i] \in {view[z][i], 0}
      BY <2>4 DEF ViewExpires, CatalogueTypeOK
    <3>2. \A w \in Stewards : steward[w].store \in Stores
      BY DEF CatalogueTypeOK
    <3> QED BY <2>0, <2>4, <3>1, <3>2 DEF ViewExpires, tables, MadeIsFresh, Swept, NothingOld, NoSweep, StewardAt
  <2>5. CASE RedisTurns
    BY <2>0, <2>5 DEF RedisTurns, tables, MadeIsFresh, Swept, NothingOld, NoSweep, StewardAt
  <2>6. CASE CatalogueRestart
    <3>1. (\A w \in Stewards : steward'[w].at = "rest") /\ \A r \in Shoppers : shopper'[r].at = "done"
      BY <2>6 DEF CatalogueRestart, AtRest, Browsed
    <3>2. \A k \in ViewKeys : view'["memory"][k] = 0 /\ view'["redis"][k] = view["redis"][k]
      BY <2>6 DEF CatalogueRestart, CatalogueTypeOK, Stores
    <3>3. "redis" \notin missed' => "redis" \notin missed /\ NoSweep
      BY <2>6 DEF CatalogueRestart, NoSweep
    <3>4. MadeIsFresh' /\ Swept'
      BY <3>1 DEF MadeIsFresh, Swept, StewardAt
    <3>5. edition' = edition
      BY <2>6 DEF CatalogueRestart, tables
    <3>6. ASSUME NEW s \in Stores \ missed', NEW k \in ViewKeys PROVE view'[s][k] \in {0, edition'}
      <4>1. CASE s = "memory"
        BY <3>2, <4>1
      <4>2. CASE s = "redis"
        BY <2>0, <3>2, <3>3, <3>5, <4>2 DEF NothingOld, Stores
      <4> QED BY <4>1, <4>2 DEF Stores
    <3>7. NothingOld'
      BY <3>6 DEF NothingOld
    <3> QED BY <2>0, <3>4, <3>7
  <2> QED BY <1>2, <2>0, <2>1, <2>2, <2>3, <2>4, <2>5, <2>6 DEF CatalogueNext, CatalogueStep
<1> QED BY <1>1, <1>2

\* Between changes no view of an older edition is shown, in either store, unless
\* a view was being made during a change or the store was left out of a sweep.
THEOREM NoStaleView == CatalogueSpec => []ViewsAreCurrent
<1>1. ViewInv => ViewsAreCurrent
  BY DEF ViewInv, NothingOld, NoSweep, ViewsAreCurrent
<1>2. CatalogueSpec => []ViewInv
  BY ViewInit, ViewStep, CatalogueTypes, PTL DEF CatalogueSpec
<1> QED BY <1>1, <1>2, PTL
=============================================================================
