----------------------------- MODULE Notifications -----------------------------
(***************************************************************************)
(* The notifications of one user (notification.service.js, users.routes.js)*)
(* kept twice: as rows of user_notifications, and in a list in the memory  *)
(* of the process, which is shown instead when the query fails or finds    *)
(* nothing.  Sending, reading and clearing run at the same time; the       *)
(* database may fail under any of them, and a restart empties the memory.  *)
(* What a notification says, and its way to the phone, are left out.       *)
(***************************************************************************)
EXTENDS Integers, FiniteSets, Sequences

CONSTANTS
    Notes,     \* notifications the user gets
    Shown,     \* the limit of the memory list (100 in the code)
    Readers    \* bound: requests of the user in flight at once

ASSUME NotesAssumption == Shown \in 1..Cardinality(Notes)

VARIABLES
    noteRow,   \* user_notifications: none, unread or read
    sending,   \* the note that is in memory and waits for its row
    inbox,     \* notificationStore: the notes, oldest first
    readHere,  \* the notes whose copy in memory is marked read
    reading,   \* what each request of the user is doing
    lists,     \* the unread notes each request was last shown
    cleared    \* history: notes whose row a finished clearing had marked

noteVars == <<noteRow, sending, inbox, readHere, reading, lists, cleared>>

InMemory == {inbox[i] : i \in DOMAIN inbox}

NoteRows(st) == {n \in Notes : noteRow[n] = st}

NotesInit ==
    /\ noteRow = [n \in Notes |-> "none"] /\ sending = {}
    /\ inbox = <<>> /\ readHere = {}
    /\ reading = [r \in Readers |-> "idle"] /\ lists = [r \in Readers |-> {}]
    /\ cleared = {}

-----------------------------------------------------------------------------
\* sendNotification puts the note in memory, which keeps the last ones, and
\* persistNotification inserts the row; its failure is logged, no more.
SendNote(n) ==
    /\ noteRow[n] = "none" /\ n \notin sending \cup InMemory
    /\ inbox' = LET all == Append(inbox, n)
                 IN  IF Len(all) > Shown THEN SubSeq(all, Len(all) - Shown + 1, Len(all)) ELSE all
    /\ readHere' = {m \in readHere \ {n} : \E i \in DOMAIN inbox' : inbox'[i] = m}
    /\ sending' = sending \cup {n}
    /\ UNCHANGED <<noteRow, reading, lists, cleared>>

PersistNote(n) ==
    /\ n \in sending
    /\ noteRow' \in {noteRow, [noteRow EXCEPT ![n] = "unread"]}
    /\ sending' = sending \ {n}
    /\ UNCHANGED <<inbox, readHere, reading, lists, cleared>>

-----------------------------------------------------------------------------
\* getUserNotifications with unreadOnly: the rows; the copies in memory when
\* there is no row to show or the query failed.
ListUnread(r) ==
    /\ reading[r] = "idle"
    /\ LET rows   == NoteRows("unread")
           copies == InMemory \ readHere
       IN  \/ lists' = [lists EXCEPT ![r] = IF rows # {} THEN rows ELSE copies]
           \/ lists' = [lists EXCEPT ![r] = copies]
    /\ UNCHANGED <<noteRow, sending, inbox, readHere, reading, cleared>>

\* markNotificationRead of a note the user was shown.  A number is the id of a
\* row, and the copy in memory is left as it is.  The id of a copy has digits
\* too, which name no row: the answer is yes and nothing has changed.
MarkRead(r, n) ==
    /\ reading[r] = "idle" /\ n \in lists[r]
    /\ lists' = [lists EXCEPT ![r] = {}]
    /\ noteRow' \in {noteRow, [noteRow EXCEPT ![n] = IF @ = "unread" THEN "read" ELSE @]}
    /\ UNCHANGED <<sending, inbox, readHere, reading, cleared>>

\* The copy is marked when the id is the copy's and the statement failed, be it
\* that its digits are too large a number.
MarkCopy(r, n) ==
    /\ reading[r] = "idle" /\ n \in lists[r] \cap InMemory
    /\ lists' = [lists EXCEPT ![r] = {}]
    /\ readHere' = readHere \cup {n}
    /\ UNCHANGED <<noteRow, sending, inbox, reading, cleared>>

-----------------------------------------------------------------------------
\* markAllNotificationsRead: the rows in one statement, then the copies,
\* whether the statement failed or not.
ClearRows(r) ==
    /\ reading[r] = "idle"
    /\ \/ /\ noteRow' = [n \in Notes |-> IF noteRow[n] = "unread" THEN "read" ELSE noteRow[n]]
          /\ reading' = [reading EXCEPT ![r] = "rows"]
       \/ /\ UNCHANGED noteRow
          /\ reading' = [reading EXCEPT ![r] = "failed"]
    /\ lists' = [lists EXCEPT ![r] = {}]
    /\ UNCHANGED <<sending, inbox, readHere, cleared>>

\* Mutant: the copies are only the way out when the database failed, as in
\* markNotificationRead.
ClearCopiesAfterFailure(r) ==
    /\ reading[r] \in {"rows", "failed"}
    /\ readHere' = IF reading[r] = "failed" THEN readHere \cup InMemory ELSE readHere
    /\ cleared' = IF reading[r] = "rows" THEN cleared \cup NoteRows("read") ELSE cleared
    /\ reading' = [reading EXCEPT ![r] = "idle"]
    /\ UNCHANGED <<noteRow, sending, inbox, lists>>

ClearCopies(r) ==
    /\ reading[r] \in {"rows", "failed"}
    /\ readHere' = readHere \cup InMemory
    /\ cleared' = IF reading[r] = "rows" THEN cleared \cup NoteRows("read") ELSE cleared
    /\ reading' = [reading EXCEPT ![r] = "idle"]
    /\ UNCHANGED <<noteRow, sending, inbox, lists>>

\* A restart: the memory and the requests are gone, the rows stay.
ForgetNotes ==
    /\ inbox' = <<>> /\ readHere' = {} /\ sending' = {}
    /\ reading' = [r \in Readers |-> "idle"] /\ lists' = [r \in Readers |-> {}]
    /\ UNCHANGED <<noteRow, cleared>>

NotesNext ==
    \/ \E n \in Notes : SendNote(n) \/ PersistNote(n)
    \/ \E r \in Readers :
         \/ ListUnread(r)
         \/ \E n \in Notes : MarkRead(r, n) \/ MarkCopy(r, n)
         \/ ClearRows(r) \/ ClearCopies(r)
    \/ ForgetNotes

NotesSpec == NotesInit /\ [][NotesNext]_noteVars

-----------------------------------------------------------------------------
\* Every variable of the notifications keeps its type; the memory list keeps to
\* its limit.
NotesTypeOK ==
    /\ noteRow \in [Notes -> {"none", "unread", "read"}] /\ sending \subseteq Notes
    /\ inbox \in Seq(Notes) /\ Len(inbox) <= Shown /\ readHere \subseteq Notes
    /\ reading \in [Readers -> {"idle", "rows", "failed"}] /\ lists \in [Readers -> SUBSET Notes]
    /\ cleared \subseteq Notes

\* A notification whose row "mark all read" had marked is never counted or
\* listed as unread afterwards: not from the rows, and not from the copies in
\* memory, which are shown as soon as no unread row is left
\* (markAllNotificationsRead marks both).
ClearedStaysCleared ==
    \A n \in cleared : noteRow[n] = "read" /\ (n \in InMemory => n \in readHere)
=============================================================================
