------------------------------- MODULE Billing -------------------------------
(***************************************************************************)
(* Incomes, the invoices that bill them and the bank payments of invoices: *)
(* InvoiceService, the parts of IncomeService and PaymentService that write*)
(* their status, and the transactions their requests run in.               *)
(*                                                                         *)
(* A request is a work list of awaited steps.  Reads see what is committed;*)
(* a write with the request's session joins its transaction, any other     *)
(* write is committed at once.                                             *)
(***************************************************************************)
EXTENDS Naturals, Sequences, FiniteSets

CONSTANTS
    Income,       \* incomes on the books
    Invoice,      \* invoices there may ever be
    Payment,      \* payments there may ever be
    Thread,       \* requests in flight
    FinNo,        \* the indicator officialFinNo, a document with a counter
    NoLock,       \* the lock of a document that has none
    Instance,     \* inspection instances incomes may belong to
    instanceOf,   \* instance of an income; for a free (Azad) income, Income
    Official,     \* invoices of type official
    Existing,     \* items of the invoices that exist at first, {} for others
    Ops,          \* the requests that are made
    MaxRequests,  \* bound on requests
    MaxFaults     \* bound on failing calls, transaction timeouts and restarts

Free == {i \in Income : instanceOf[i] \notin Instance}

ASSUME BillingAssumption ==
    /\ Income \cap Invoice = {} /\ Income \cap Payment = {}
    /\ Invoice \cap Payment = {}
    /\ FinNo \notin Income \cup Invoice \cup Payment
    /\ NoLock \notin Payment /\ "keep" \notin Payment \cup {NoLock}
    /\ Existing \in [Invoice -> SUBSET Income]
    /\ MaxRequests \in Nat /\ MaxFaults \in Nat

-----------------------------------------------------------------------------
(* Documents and steps.                                                    *)

Doc == Income \cup Invoice \cup Payment \cup {FinNo}

Status ==
    {"none",                                        \* not created
     "unpaid", "partially",                         \* incomes, with 3 below
     "pending", "paid", "canceled",
     "active", "issued",                            \* invoices, with 3 above
     "progressing", "completed"}                    \* payments

IncomeStatus == {"unpaid", "partially", "pending", "paid", "canceled"}

\* Items of an invoice are its incomes, the item of a payment its invoice.
Document ==
    [status : Status, items : SUBSET Doc, lock : Payment \cup {NoLock},
     issueNo : BOOLEAN]

Blank == [status |-> "none", items |-> {}, lock |-> NoLock, issueNo |-> FALSE]

\* What an update sets; "keep" leaves a field alone, issueNo is only ever set.
Change ==
    [status : Status \cup {"keep"}, lock : Payment \cup {NoLock, "keep"},
     issueNo : BOOLEAN]

Touch        == [status |-> "keep", lock |-> "keep", issueNo |-> FALSE]
Becomes(s)   == [Touch EXCEPT !.status = s]
LockedBy(p)  == [Touch EXCEPT !.lock = p]
Numbered     == [Touch EXCEPT !.issueNo = TRUE]
Issued       == [Numbered EXCEPT !.status = "issued"]

Changed(d, c) ==
    [d EXCEPT !.status  = IF c.status = "keep" THEN @ ELSE c.status,
              !.lock    = IF c.lock = "keep" THEN @ ELSE c.lock,
              !.issueNo = @ \/ c.issueNo]

\* The requests, and the steps they are made of.
Request ==
    {"createInvoice", "makeInvoiceManually", "issue", "makeInvoicePend",
     "makeInvoicePaid", "makeInvoiceCancel", "revertToPreviousState",
     "updateInvoice", "forceUpdate", "createIncome", "updateIncome",
     "forceUpdateIncome", "changeCaseType", "remove", "pay", "verify"}

ASSUME OpsAssumption == Ops \subseteq Request

StepOp ==
    Request \cup {"write", "insert", "insertInvoice", "settle", "voucher",
                  "createPayment", "token", "confirm"}

Step ==
    [op   : StepOp,
     on   : SUBSET Doc,               \* documents concerned
     to   : Change,                   \* what a write does to them
     seen : [Invoice -> Document],    \* invoices as they were read earlier
     tx   : BOOLEAN]                  \* with the session of the request

Unseen == [v \in Invoice |-> Blank]

Do(op, D, tx) ==
    [op |-> op, on |-> D, to |-> Touch, seen |-> Unseen, tx |-> tx]
Write(D, c, tx) == [Do("write", D, tx) EXCEPT !.to = c]

VARIABLES
    doc,        \* the documents as committed
    agenda,     \* what each request has still to do
    wrote,      \* documents written in the transaction of each request
    buf,        \* those documents as the transaction will leave them
    stale,      \* documents others changed since the transaction began
    inserted,   \* invoices inserted in the financial system
    vouched,    \* invoices with a voucher in the financial system
    bank,       \* the bank's side of each payment
    elapsed,    \* payments whose lock has run out
    dropped,    \* history: incomes forceUpdate took from an invoice
    entered,    \* history: incomes a request creates as paid
    requests,
    faults

books == <<inserted, vouched>>
env   == <<bank, elapsed>>
txn   == <<wrote, buf, stale>>
vars  == <<doc, agenda, txn, books, env, dropped, entered, requests, faults>>

BankStatus == {"idle", "asked", "open", "closed", "charged", "confirmed"}

TypeOK ==
    /\ doc \in [Doc -> Document]
    /\ agenda \in [Thread -> Seq(Step)]
    /\ wrote \in [Thread -> SUBSET Doc]
    /\ buf \in [Thread -> [Doc -> Document]]
    /\ stale \in [Thread -> SUBSET Doc]
    /\ inserted \subseteq Invoice
    /\ vouched \subseteq Invoice
    /\ bank \in [Payment -> BankStatus]
    /\ elapsed \subseteq Payment
    /\ dropped \subseteq Income
    /\ entered \subseteq Income
    /\ requests \in 0..MaxRequests
    /\ faults \in 0..MaxFaults

Blanks == [d \in Doc |-> Blank]

\* Incomes are billed by the invoices that exist, or not yet, or are yet to be
\* created; some of these invoices have been issued.
Billed(i) == \E v \in Invoice : i \in Existing[v]

AtFirst(d, future) ==
    CASE d \in Invoice /\ Existing[d] # {} ->
           [status  |-> IF d \in inserted THEN "issued" ELSE "active",
            items   |-> Existing[d],
            lock    |-> NoLock,
            issueNo |-> d \in inserted]
      [] d \in Income \ future ->
           [Blank EXCEPT !.status = IF Billed(d) THEN "pending" ELSE "unpaid"]
      [] OTHER -> Blank

Init ==
    /\ inserted \in SUBSET {v \in Invoice : Existing[v] # {}}
    /\ \E future \in SUBSET {i \in Income : ~Billed(i)} :
         doc = [d \in Doc |-> AtFirst(d, future)]
    /\ agenda = [t \in Thread |-> <<>>]
    /\ wrote = [t \in Thread |-> {}]
    /\ buf = [t \in Thread |-> Blanks]
    /\ stale = [t \in Thread |-> {}]
    /\ vouched = {}
    /\ bank = [p \in Payment |-> "idle"]
    /\ elapsed = {}
    /\ dropped = {}
    /\ entered = {}
    /\ requests = 0
    /\ faults = 0

-----------------------------------------------------------------------------
(* Requests and their transactions: TransactionInterceptor, MongoDB.       *)

Open(t)     == wrote[t] # {}
Idle(t)     == agenda[t] = <<>> /\ ~Open(t) /\ stale[t] = {}
Quiet       == \A t \in Thread : Idle(t)
Turn(t, op) == agenda[t] # <<>> /\ Head(agenda[t]).op = op

\* Request t is done with the head of its agenda and does these steps next.
Then(t, new) == agenda' = [agenda EXCEPT ![t] = new \o Tail(@)]

\* The request ends; what its transaction wrote is lost.
Abort(t) ==
    /\ agenda' = [agenda EXCEPT ![t] = <<>>]
    /\ wrote' = [wrote EXCEPT ![t] = {}]
    /\ buf' = [buf EXCEPT ![t] = Blanks]
    /\ stale' = [stale EXCEPT ![t] = {}]
    /\ UNCHANGED doc

Locked(d) == d.lock \in Payment \ elapsed

\* The documents D change under the open transactions of T.
Overtake(T, D) ==
    stale' = [u \in Thread |->
                IF u \in T /\ Open(u) THEN stale[u] \cup D ELSE stale[u]]

\* A write without the session waits for the transactions that hold one of
\* its documents.
WriteDirect(t) ==
    /\ Turn(t, "write")
    /\ LET s == Head(agenda[t]) IN
         /\ ~s.tx
         /\ \A u \in Thread : wrote[u] \cap s.on = {}
         /\ doc' = [d \in Doc |-> IF d \in s.on THEN Changed(doc[d], s.to)
                                                ELSE doc[d]]
         /\ Overtake(Thread, s.on)
    /\ Then(t, <<>>)
    /\ UNCHANGED <<wrote, buf, books, env, dropped, entered, requests, faults>>

\* A document is in the way when it changed since the transaction began or
\* another transaction has written it.
Conflict(t, D) ==
    \/ D \cap stale[t] # {}
    \/ \E u \in Thread \ {t} : wrote[u] \cap D # {}

\* Document d as the transaction of t sees it.
View(t, d) == IF d \in wrote[t] THEN buf[t][d] ELSE doc[d]

WriteInTransaction(t) ==
    /\ Turn(t, "write")
    /\ LET s == Head(agenda[t]) IN
         /\ s.tx
         /\ ~Conflict(t, s.on)
         /\ buf' = [buf EXCEPT ![t] =
                      [d \in Doc |-> IF d \in s.on
                                     THEN Changed(View(t, d), s.to)
                                     ELSE buf[t][d]]]
         /\ wrote' = [wrote EXCEPT ![t] = @ \cup s.on]
    /\ Then(t, <<>>)
    /\ UNCHANGED <<doc, stale, books, env, dropped, entered, requests, faults>>

WriteConflict(t) ==
    /\ Turn(t, "write")
    /\ Head(agenda[t]).tx
    /\ Conflict(t, Head(agenda[t]).on)
    /\ Abort(t)
    /\ UNCHANGED <<books, env, dropped, entered, requests, faults>>

Commit(t) ==
    /\ agenda[t] = <<>>
    /\ ~Idle(t)
    /\ doc' = [d \in Doc |-> View(t, d)]
    /\ stale' = [u \in Thread |->
                   IF u = t THEN {}
                   ELSE IF Open(u) THEN stale[u] \cup wrote[t] ELSE stale[u]]
    /\ wrote' = [wrote EXCEPT ![t] = {}]
    /\ buf' = [buf EXCEPT ![t] = Blanks]
    /\ UNCHANGED <<agenda, books, env, dropped, entered, requests, faults>>

-----------------------------------------------------------------------------
(* Creating invoices.                                                      *)

Live(v)     == doc[v].status \notin {"none", "canceled"}
Bills(v, D) == doc[v].items \cap D # {}

\* createInvoice: the invoice of free incomes is created without the session.
CreateInvoice(t) ==
    /\ Turn(t, "createInvoice")
    /\ LET S == Head(agenda[t]).on IN
         IF \E v \in Invoice : Live(v) /\ Bills(v, S)
         THEN Abort(t)
         ELSE /\ Then(t, <<Do("insert", S, S \cap Free = {}),
                           Write(S, Becomes("pending"), TRUE)>>)
              /\ UNCHANGED <<doc, txn>>
    /\ UNCHANGED <<books, env, dropped, entered, requests, faults>>

\* makeInvoiceManually bills all incomes of the instances it is given, which
\* are those of the incomes in the request.
MakeInvoiceManually(t) ==
    /\ Turn(t, "makeInvoiceManually")
    /\ LET S == {i \in Income \ Free :
                   /\ doc[i].status \notin {"none", "canceled"}
                   /\ \E j \in Head(agenda[t]).on \cap Income :
                        instanceOf[i] = instanceOf[j]} IN
         IF S = {} \/ \E i \in S : doc[i].status # "unpaid"
         THEN Abort(t)
         ELSE /\ Then(t, <<Write(S, Becomes("pending"), TRUE),
                           Do("insert", S, TRUE)>>)
              /\ UNCHANGED <<doc, txn>>
    /\ UNCHANGED <<books, env, dropped, entered, requests, faults>>

\* The insertion of an invoice with the given items.
Insert(t) ==
    /\ Turn(t, "insert")
    /\ \E v \in Invoice :
         LET s   == Head(agenda[t])
             new == [Blank EXCEPT !.status = "active", !.items = s.on] IN
           /\ doc[v].status = "none"
           /\ \A u \in Thread : v \notin wrote[u]
           /\ \/ /\ s.tx /\ v \notin stale[t]
                 /\ buf' = [buf EXCEPT ![t][v] = new]
                 /\ wrote' = [wrote EXCEPT ![t] = @ \cup {v}]
                 /\ Then(t, <<>>)
                 /\ UNCHANGED <<doc, stale>>
              \/ /\ s.tx /\ v \in stale[t]
                 /\ Abort(t)
              \/ /\ ~s.tx
                 /\ doc' = [doc EXCEPT ![v] = new]
                 /\ Overtake(Thread, {v})
                 /\ Then(t, <<>>)
                 /\ UNCHANGED <<wrote, buf>>
    /\ UNCHANGED <<books, env, dropped, entered, requests, faults>>

-----------------------------------------------------------------------------
(* The life of an invoice: InvoiceService.                                 *)

\* A handler that reads invoice v goes on with new when it may, and throws
\* when it may not.
Guarded(t, ok, new) ==
    IF ok THEN Then(t, new) /\ UNCHANGED <<doc, txn>> ELSE Abort(t)

\* issue is called by its request with the session, by makeInvoicePaid without.
Issue(t) ==
    /\ Turn(t, "issue")
    /\ \E v \in Head(agenda[t]).on \cap Invoice :
         LET tx == Head(agenda[t]).tx IN
         Guarded(t, ~Locked(doc[v]) /\ doc[v].status \in {"active", "pending"},
                 <<Write({v}, Touch, FALSE)>>
                 \o (IF v \in Official THEN <<Write({FinNo}, Touch, tx)>>
                                       ELSE <<>>)
                 \o <<Do("insertInvoice", {v}, tx),
                      Write(doc[v].items, Becomes("pending"), tx),
                      Write({v}, Issued, tx)>>)
    /\ UNCHANGED <<books, env, dropped, entered, requests, faults>>

\* FinancialService.insertInvoice
InsertInvoice(t) ==
    /\ Turn(t, "insertInvoice")
    /\ inserted' = inserted \cup (Head(agenda[t]).on \cap Invoice)
    /\ Then(t, <<>>)
    /\ UNCHANGED <<doc, txn, vouched, env, dropped, entered, requests, faults>>

\* Mutant of MayPend: the lock is not looked at.
MayPendLocked(v) == doc[v].status \in {"active", "issued"}

MayPend(v) == ~Locked(doc[v]) /\ doc[v].status \in {"active", "issued"}

MakeInvoicePend(t) ==
    /\ Turn(t, "makeInvoicePend")
    /\ \E v \in Head(agenda[t]).on \cap Invoice :
         Guarded(t, MayPend(v),
                 <<Write(doc[v].items, Becomes("pending"), FALSE),
                   Write({v}, Becomes("pending"), FALSE)>>)
    /\ UNCHANGED <<books, env, dropped, entered, requests, faults>>

\* Mutants of Cancellation: the incomes are not freed; they are freed outside
\* the transaction.
CancellationAlone(v) == <<Write({v}, Becomes("canceled"), TRUE)>>

CancellationOutside(v) ==
    <<Write(doc[v].items, Becomes("unpaid"), FALSE),
      Write({v}, Becomes("canceled"), TRUE)>>

Cancellation(v) ==
    <<Write(doc[v].items, Becomes("unpaid"), TRUE),
      Write({v}, Becomes("canceled"), TRUE)>>

\* Only a paid invoice is refused; one cancelled before may be cancelled again.
MakeInvoiceCancel(t) ==
    /\ Turn(t, "makeInvoiceCancel")
    /\ \E v \in Head(agenda[t]).on \cap Invoice :
         Guarded(t, ~Locked(doc[v]) /\ doc[v].status \notin {"none", "paid"},
                 Cancellation(v))
    /\ UNCHANGED <<books, env, dropped, entered, requests, faults>>

\* updateInvoice with an issue number; without one it writes the status it read.
UpdateInvoice(t) ==
    /\ Turn(t, "updateInvoice")
    /\ \E v \in Head(agenda[t]).on \cap Invoice :
         \/ Guarded(t, ~Locked(doc[v]) /\ doc[v].status = "active",
                    <<Write(doc[v].items, Becomes("pending"), TRUE),
                      Write({v}, Issued, TRUE)>>)
         \/ Guarded(t, ~Locked(doc[v]) /\ doc[v].status = "active",
                    <<Write({v}, Becomes("active"), TRUE)>>)
    /\ UNCHANGED <<books, env, dropped, entered, requests, faults>>

\* Mutant of PreviousStatus: a status invoices do not have.
PreviousStatusDraft(v) == IF doc[v].issueNo THEN "issued" ELSE "draft"

PreviousStatus(v) == IF doc[v].issueNo THEN "issued" ELSE "active"

\* revertToPreviousState takes the invoices of its request one by one; at one
\* that is neither issued nor pending it returns, and what it wrote stays.
RevertToPreviousState(t) ==
    /\ Turn(t, "revertToPreviousState")
    /\ \E v \in Head(agenda[t]).on \cap Invoice :
         LET rest == Head(agenda[t]).on \ {v} IN
         \/ /\ doc[v].status \notin {"issued", "pending"}
            /\ ~Locked(doc[v])
            /\ Then(t, <<>>)
            /\ UNCHANGED <<doc, txn>>
         \/ /\ Locked(doc[v]) \/ doc[v].status \in {"issued", "pending"}
            /\ Guarded(t, ~Locked(doc[v]),
                 <<Write(doc[v].items, Becomes("pending"), TRUE),
                   Write({v}, Becomes(PreviousStatus(v)), TRUE)>>
                 \o (IF rest = {} THEN <<>>
                     ELSE <<Do("revertToPreviousState", rest, TRUE)>>))
    /\ UNCHANGED <<books, env, dropped, entered, requests, faults>>

\* forceUpdate with the items but those in gone: they are freed, then the query
\* on the added items names the operator $id, which MongoDB refuses.
ForceUpdate(t) ==
    /\ Turn(t, "forceUpdate")
    /\ \E v \in Head(agenda[t]).on \cap Invoice,
          gone \in SUBSET (Head(agenda[t]).on \cap Income) :
         /\ gone \subseteq doc[v].items
         /\ Guarded(t, ~Locked(doc[v]),
                    <<Write(gone, Becomes("unpaid"), FALSE)>>)
         /\ dropped' = IF Locked(doc[v]) THEN dropped ELSE dropped \cup gone
    /\ UNCHANGED <<books, env, entered, requests, faults>>

-----------------------------------------------------------------------------
(* Incomes: IncomeService.                                                 *)

\* createIncome: the request gives the status or leaves it unpaid.  The id is
\* one that no request is using, and none has used for an income as paid.
CreateIncome(t) ==
    /\ Turn(t, "createIncome")
    /\ \E i \in Income \ entered, status \in IncomeStatus :
         /\ doc[i].status = "none"
         /\ \A u \in Thread :
              /\ i \notin wrote[u]
              /\ \A j \in 1..Len(agenda[u]) : i \notin agenda[u][j].on
         /\ Then(t, <<Write({i}, Becomes(status), TRUE)>>)
         /\ entered' = IF status = "paid" THEN entered \cup {i} ELSE entered
    /\ UNCHANGED <<doc, txn, books, env, dropped, requests, faults>>

\* IncomeService.forceUpdate does not look at the status.
ForceUpdateIncome(t) ==
    /\ Turn(t, "forceUpdateIncome")
    /\ \E i \in Head(agenda[t]).on \cap Income :
         Guarded(t, doc[i].status # "none" /\ ~Locked(doc[i]),
                 <<Write({i}, Touch, TRUE)>>)
    /\ UNCHANGED <<books, env, dropped, entered, requests, faults>>

\* changeCaseType taxes the incomes of an instance, which it may not when they
\* are paid or on an invoice.  Locks count only when the case becomes official.
ChangeCaseType(t) ==
    /\ Turn(t, "changeCaseType")
    /\ \E j \in Head(agenda[t]).on \cap (Income \ Free), official \in BOOLEAN :
         LET S == {i \in Income : /\ doc[i].status # "none"
                                  /\ instanceOf[i] = instanceOf[j]}
             ok == /\ \A v \in Invoice : Live(v) => ~Bills(v, S)
                   /\ \A i \in S :
                        /\ doc[i].status \notin {"paid", "partially"}
                        /\ doc[i].status = "pending" =>
                             \A v \in Invoice : ~Bills(v, {i})
                        /\ official => ~Locked(doc[i]) IN
         Guarded(t, ok, <<Write(S, Touch, TRUE)>>)
    /\ UNCHANGED <<books, env, dropped, entered, requests, faults>>

\* updateIncome changes the amount, which is not modelled.
UpdateIncome(t) ==
    /\ Turn(t, "updateIncome")
    /\ \E i \in Head(agenda[t]).on \cap Income :
         Guarded(t, ~Locked(doc[i]) /\ doc[i].status = "unpaid",
                 <<Write({i}, Touch, TRUE)>>)
    /\ UNCHANGED <<books, env, dropped, entered, requests, faults>>

\* A free income cannot be removed: the handler looks for its instance.
Remove(t) ==
    /\ Turn(t, "remove")
    /\ \E i \in Head(agenda[t]).on \cap Income :
         Guarded(t, ~Locked(doc[i]) /\ doc[i].status = "unpaid" /\ i \notin Free,
                 <<Write({i}, Becomes("canceled"), TRUE)>>)
    /\ UNCHANGED <<books, env, dropped, entered, requests, faults>>

-----------------------------------------------------------------------------
(* Settling invoices: makeInvoicePaid.                                     *)

\* All invoices are read first, and settled one by one by what was read.
MakeInvoicePaid(t) ==
    /\ Turn(t, "makeInvoicePaid")
    /\ LET V == Head(agenda[t]).on \cap Invoice IN
         Then(t, <<[Do("settle", V, TRUE) EXCEPT
                      !.seen = [v \in Invoice |->
                                  IF v \in V THEN doc[v] ELSE Blank]]>>)
    /\ UNCHANGED <<doc, txn, books, env, dropped, entered, requests, faults>>

\* The invoice gets its number, outside the transaction, when it had none.
EnsureIssued(v, seen) ==
    IF seen.issueNo THEN <<>>
    ELSE <<Do("issue", {v}, FALSE), Write({v}, Numbered, FALSE)>>

\* Mutant of MarkPaid: the incomes become paid outside the transaction.
MarkPaidOutside(v, seen) ==
    <<Write(seen.items, Becomes("paid"), FALSE),
      Write({v}, Becomes("paid"), TRUE)>>

MarkPaid(v, seen) ==
    <<Write(seen.items, Becomes("paid"), TRUE),
      Write({v}, Becomes("paid"), TRUE)>>

\* The invoices a settle step was given.
Batch(s) == {v \in Invoice : s.seen[v].status # "none"}

\* One round of the loop; the rounds that are left are the rest of the step.
SettleNext(t) ==
    /\ Turn(t, "settle")
    /\ LET s == Head(agenda[t]) IN
       \E v \in s.on \cap Invoice :
         Guarded(t, /\ ~Locked(s.seen[v])
                    /\ s.seen[v].status \in {"active", "issued", "pending"},
                 EnsureIssued(v, s.seen[v])
                 \o MarkPaid(v, s.seen[v])
                 \o <<[s EXCEPT !.on = @ \ {v}]>>)
    /\ UNCHANGED <<books, env, dropped, entered, requests, faults>>

\* Mutant of Vouching: the transaction ends without a voucher.
VouchingSkipped(B) == <<Write(B, Touch, TRUE)>>

\* The voucher of all invoices of the batch, and its number in each.
Vouching(B) == <<Do("voucher", B, TRUE), Write(B, Touch, TRUE)>>

\* What comes behind the loop.
SettleRest(t) ==
    /\ Turn(t, "settle")
    /\ LET s == Head(agenda[t]) IN
         /\ s.on = {}
         /\ Then(t, Vouching(Batch(s)))
    /\ UNCHANGED <<doc, txn, books, env, dropped, entered, requests, faults>>

\* FinancialService.insertVouchers, or a voucher entered by hand before, whose
\* number the request gives.
Voucher(t) ==
    /\ Turn(t, "voucher")
    /\ vouched' = vouched \cup (Head(agenda[t]).on \cap Invoice)
    /\ Then(t, <<>>)
    /\ UNCHANGED <<doc, txn, inserted, env, dropped, entered, requests, faults>>

-----------------------------------------------------------------------------
(* Bank payments: PaymentService.                                          *)

InvoiceOf(p) == doc[p].items

\* Mutants of LockBoth: the locks wait for the commit; the invoice is left open.
LockAtCommit(v, p) ==
    <<Write(doc[v].items, LockedBy(p), TRUE), Write({v}, LockedBy(p), TRUE)>>

LockIncomes(v, p) == <<Write(doc[v].items, LockedBy(p), FALSE)>>

LockBoth(v, p) ==
    <<Write(doc[v].items, LockedBy(p), FALSE), Write({v}, LockedBy(p), FALSE)>>

\* pay locks the incomes, then the invoice, creates the payment and asks the
\* bank for a token.
Pay(t) ==
    /\ Turn(t, "pay")
    /\ \E v \in Head(agenda[t]).on \cap Invoice, p \in Payment :
         LET ok == /\ doc[v].status \in {"active", "issued"}
                   /\ ~Locked(doc[v]) IN
         /\ bank[p] = "idle"
         /\ Guarded(t, ok, LockBoth(v, p)
                           \o <<Do("createPayment", {v, p}, FALSE),
                                Do("token", {p}, FALSE)>>)
         /\ bank' = IF ok THEN [bank EXCEPT ![p] = "asked"] ELSE bank
    /\ UNCHANGED <<elapsed, books, dropped, entered, requests, faults>>

CreatePayment(t) ==
    /\ Turn(t, "createPayment")
    /\ \E v \in Head(agenda[t]).on \cap Invoice,
          p \in Head(agenda[t]).on \cap Payment :
         /\ doc[p].status = "none"
         /\ doc' = [doc EXCEPT ![p] = [Blank EXCEPT
                      !.status = "progressing", !.items = {v}]]
         /\ Overtake(Thread, {p})
    /\ Then(t, <<>>)
    /\ UNCHANGED <<wrote, buf, books, env, dropped, entered, requests, faults>>

\* getBankGatewayTokenConfig, createIPGPage: the payer gets the bank's page.
GetBankToken(t) ==
    /\ Turn(t, "token")
    /\ \E p \in Head(agenda[t]).on \cap Payment :
         /\ bank[p] = "asked"
         /\ bank' = [bank EXCEPT ![p] = "open"]
    /\ Then(t, <<>>)
    /\ UNCHANGED <<doc, txn, elapsed, books, dropped, entered, requests, faults>>

\* The bank's callback says that the payer cancelled (17) or paid (00).  verify
\* believes it; that only the bank calls, and 17 only after the payer has closed
\* the page, is assumed of the bank.
Verify(t) ==
    /\ Turn(t, "verify")
    /\ \E p \in Head(agenda[t]).on \cap Payment :
         /\ doc[p].status # "none"
         /\ \/ /\ bank[p] = "closed"
               /\ \E v \in InvoiceOf(p) \cap Invoice :
                    Then(t, <<Write({p}, Becomes("canceled"), TRUE),
                              Write({v}, LockedBy(NoLock), TRUE),
                              Write(doc[v].items, LockedBy(NoLock), TRUE)>>)
            \/ /\ bank[p] \in {"charged", "confirmed"}
               /\ Then(t, <<Do("confirm", {p}, TRUE)>>)
    /\ UNCHANGED <<doc, txn, books, env, dropped, entered, requests, faults>>

\* Mutants of Completion: the invoice is not settled; the payment is completed
\* outside the transaction.
CompletionAlone(p) == <<Write({p}, Becomes("completed"), TRUE)>>

CompletionOutside(p) ==
    <<Write({p}, Becomes("completed"), FALSE),
      Do("makeInvoicePaid", InvoiceOf(p), TRUE)>>

Completion(p) ==
    <<Write({p}, Becomes("completed"), TRUE),
      Do("makeInvoicePaid", InvoiceOf(p), TRUE)>>

\* confirmPayment: the bank takes the money for good, and the payment is
\* completed.  Asked a second time the bank may refuse; the request then ends
\* without a payment to answer with.
ConfirmPayment(t) ==
    /\ Turn(t, "confirm")
    /\ \E p \in Head(agenda[t]).on \cap Payment :
         \/ /\ bank[p] \in {"charged", "confirmed"}
            /\ bank' = [bank EXCEPT ![p] = "confirmed"]
            /\ Then(t, Completion(p))
            /\ UNCHANGED <<doc, txn>>
         \/ /\ bank[p] = "confirmed"
            /\ Abort(t)
            /\ UNCHANGED bank
    /\ UNCHANGED <<elapsed, books, dropped, entered, requests, faults>>

\* The payer, at the bank's page, pays or gives up.
PayerDecides(p) ==
    /\ bank[p] = "open"
    /\ \E b \in {"charged", "closed"} : bank' = [bank EXCEPT ![p] = b]
    /\ UNCHANGED <<doc, agenda, txn, books, elapsed, dropped, entered, requests, faults>>

\* Ten minutes after pay the locks it set no longer hold.
LockElapses(p) ==
    /\ bank[p] # "idle"
    /\ p \notin elapsed
    /\ elapsed' = elapsed \cup {p}
    /\ UNCHANGED <<doc, agenda, txn, books, bank, dropped, entered, requests, faults>>

-----------------------------------------------------------------------------
(* Requests and faults.                                                    *)

Created(d) == doc[d].status # "none"

\* The documents requests are about; for verify a
\* payment the bank calls back about.
Subjects(op) ==
    CASE op = "createInvoice" ->
           {S \in SUBSET {i \in Income : Created(i)} :
              S # {} /\ (S \subseteq Free \/ S \cap Free = {})}
      [] op = "makeInvoiceManually" ->
           {S \in SUBSET (Income \ Free) : S # {}}
      [] op = "createIncome" ->
           {{} : i \in {j \in Income : ~Created(j)}}
      [] op = "changeCaseType" ->
           {{i} : i \in Income \ Free}
      [] op \in {"issue", "makeInvoicePend", "makeInvoiceCancel", "updateInvoice"} ->
           {{v} : v \in {w \in Invoice : Created(w)}}
      [] op \in {"makeInvoicePaid", "revertToPreviousState"} ->
           {V \in SUBSET Invoice : V # {} /\ \A v \in V : Created(v)}
      [] op = "forceUpdate" ->
           {{v} \cup S : v \in {w \in Invoice : Created(w)}, S \in SUBSET Income}
      [] op \in {"updateIncome", "forceUpdateIncome", "remove"} ->
           {{i} : i \in Income}
      [] op = "pay" ->
           {{v} : v \in {w \in Invoice :
                            Created(w) /\ \E p \in Payment : bank[p] = "idle"}}
      [] op = "verify" ->
           {{p} : p \in {q \in Payment : bank[q] \in {"closed", "charged",
                                                      "confirmed"}}}

MakeRequest(t) ==
    /\ Idle(t)
    /\ requests < MaxRequests
    /\ requests' = requests + 1
    /\ \E op \in Ops : \E D \in Subjects(op) :
         agenda' = [agenda EXCEPT ![t] = <<Do(op, D, TRUE)>>]
    /\ UNCHANGED <<doc, txn, books, env, dropped, entered, faults>>

\* A call fails and nothing catches the exception.
Fail(t) ==
    /\ agenda[t] # <<>>
    /\ faults < MaxFaults
    /\ faults' = faults + 1
    /\ Abort(t)
    /\ UNCHANGED <<books, env, dropped, entered, requests>>

\* MongoDB gives up the transaction; its writes are lost, what the request
\* does with the session from then on fails.
TransactionTimeout(t) ==
    /\ Open(t)
    /\ faults < MaxFaults
    /\ faults' = faults + 1
    /\ wrote' = [wrote EXCEPT ![t] = {}]
    /\ buf' = [buf EXCEPT ![t] = Blanks]
    /\ stale' = [stale EXCEPT ![t] = Doc]
    /\ UNCHANGED <<doc, agenda, books, env, dropped, entered, requests>>

Restart ==
    /\ ~Quiet
    /\ faults < MaxFaults
    /\ faults' = faults + 1
    /\ agenda' = [t \in Thread |-> <<>>]
    /\ wrote' = [t \in Thread |-> {}]
    /\ buf' = [t \in Thread |-> Blanks]
    /\ stale' = [t \in Thread |-> {}]
    /\ UNCHANGED <<doc, books, env, dropped, entered, requests>>

Proceed(t) ==
    \/ CreateInvoice(t) \/ MakeInvoiceManually(t) \/ Insert(t)
    \/ Issue(t) \/ InsertInvoice(t) \/ MakeInvoicePend(t)
    \/ MakeInvoiceCancel(t) \/ UpdateInvoice(t) \/ RevertToPreviousState(t)
    \/ ForceUpdate(t) \/ CreateIncome(t) \/ UpdateIncome(t)
    \/ ForceUpdateIncome(t) \/ ChangeCaseType(t) \/ Remove(t)
    \/ MakeInvoicePaid(t) \/ SettleNext(t) \/ SettleRest(t) \/ Voucher(t)
    \/ Pay(t) \/ CreatePayment(t) \/ GetBankToken(t) \/ Verify(t)
    \/ ConfirmPayment(t)
    \/ WriteDirect(t) \/ WriteInTransaction(t) \/ WriteConflict(t) \/ Commit(t)

Next ==
    \/ \E t \in Thread : Proceed(t) \/ MakeRequest(t) \/ Fail(t)
                         \/ TransactionTimeout(t)
    \/ \E p \in Payment : PayerDecides(p) \/ LockElapses(p)
    \/ Restart

Spec == Init /\ [][Next]_vars
=============================================================================
