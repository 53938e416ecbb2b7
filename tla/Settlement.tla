----------------------------- MODULE Settlement -----------------------------
(***************************************************************************)
(* What billing promises of money, whatever requests do to each other: an  *)
(* invoice is settled only after a voucher for it is in the company's      *)
(* financial system, and a payment is completed only after the bank took   *)
(* the money, in the very step in which its invoice is settled.  Staff may *)
(* undo a settlement; vouchers, money taken and completed payments stay.   *)
(***************************************************************************)
EXTENDS Naturals

CONSTANTS
    Invoice,
    Payment

VARIABLES
    vouched,    \* invoices with a voucher in the financial system
    taken,      \* payments whose money the bank has taken
    settled,    \* invoices that count as paid
    completed   \* pairs <<payment, invoice>> of completed payments

settlementVars == <<vouched, taken, settled, completed>>

SettlementInit ==
    /\ vouched = {}
    /\ taken = {}
    /\ settled = {}
    /\ completed = {}

Vouch ==
    /\ vouched \subseteq vouched'
    /\ vouched' \subseteq Invoice
    /\ UNCHANGED <<taken, settled, completed>>

Take(p) ==
    /\ taken' = taken \cup {p}
    /\ UNCHANGED <<vouched, settled, completed>>

\* The invoices V become settled and the payments of the pairs C complete.
Settle(V, C) ==
    /\ V \subseteq vouched
    /\ C \subseteq taken \X V
    /\ settled' \subseteq settled \cup V
    /\ V \subseteq settled'
    /\ completed' = completed \cup C
    /\ UNCHANGED <<vouched, taken>>

SettlementNext ==
    \/ Vouch
    \/ \E p \in Payment : Take(p)
    \/ \E V \in SUBSET Invoice, C \in SUBSET (Payment \X Invoice) : Settle(V, C)

SettlementSpec == SettlementInit /\ [][SettlementNext]_settlementVars

(***************************************************************************)
(* No money is lost between the bank and the books: what is settled has a  *)
(* voucher, and a completed payment is one the bank took for an invoice    *)
(* that has a voucher.                                                     *)
(***************************************************************************)
Sound ==
    /\ settled \subseteq vouched
    /\ completed \subseteq taken \X vouched
=============================================================================
