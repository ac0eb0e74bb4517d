---------------------------- MODULE RefundLedger -----------------------------
(***************************************************************************)
(* What the refund service promises, whatever fails on the way: a debt     *)
(* keeps its amount once it is recorded, it is paid out at most once, in   *)
(* full and never before it was recorded, and it is booked as paid only    *)
(* when it was.                                                            *)
(***************************************************************************)
EXTENDS Naturals

CONSTANT Keys  \* the refund ids known to us and to the gateway

VARIABLES
    owed,   \* amount recorded for a key, 0 when there is none
    paid,   \* amount the gateway has paid out for it
    booked  \* keys we regard as paid

ledger == <<owed, paid, booked>>

Init ==
    /\ owed = [k \in Keys |-> 0]
    /\ paid = [k \in Keys |-> 0]
    /\ booked = {}

\* Debts are recorded, several at once if need be.
Owe ==
    /\ owed' \in [Keys -> Nat]
    /\ \A k \in Keys : owed[k] > 0 => owed'[k] = owed[k]
    /\ UNCHANGED <<paid, booked>>

PayOut(k) ==
    /\ owed[k] > 0
    /\ paid[k] = 0
    /\ paid' = [paid EXCEPT ![k] = owed[k]]
    /\ UNCHANGED <<owed, booked>>

Book(k) ==
    /\ paid[k] > 0
    /\ booked' = booked \cup {k}
    /\ UNCHANGED <<owed, paid>>

Next == Owe \/ \E k \in Keys : PayOut(k) \/ Book(k)

Spec == Init /\ [][Next]_ledger
==============================================================================
