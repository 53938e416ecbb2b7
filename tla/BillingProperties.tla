--------------------------- MODULE BillingProperties ---------------------------
(***************************************************************************)
(* What billing keeps, and the refinement of Settlement.                   *)
(***************************************************************************)
EXTENDS Billing

Paid(v) == doc[v].status = "paid"

(***************************************************************************)
(* However requests interleave, conflict, fail or are cut short, money     *)
(* follows the rules of Settlement: makeInvoicePaid marks an invoice paid  *)
(* only with a voucher registered before its commit, and verify completes a*)
(* payment the bank confirmed together with its invoice or not at all.     *)
(***************************************************************************)
Books == INSTANCE Settlement WITH
    Invoice   <- Invoice,
    Payment   <- Payment,
    vouched   <- vouched,
    taken     <- {p \in Payment : bank[p] = "confirmed"},
    settled   <- {v \in Invoice : Paid(v)},
    completed <- {c \in Payment \X Invoice :
                    doc[c[1]].status = "completed" /\ c[2] \in doc[c[1]].items}

FollowsBooks == Books!SettlementSpec

(***************************************************************************)
(* An invoice and its incomes become paid together: the step that makes an *)
(* invoice paid leaves every income it bills paid.                         *)
(***************************************************************************)
PaidTogether ==
    [][\A v \in Invoice : Paid(v)' /\ ~Paid(v) =>
         \A i \in doc'[v].items : doc'[i].status = "paid"]_vars

(***************************************************************************)
(* Requests make no income paid that the financial system does not know: an*)
(* income counts as paid because it was created so, or an invoice that     *)
(* bills it has a voucher.                                                 *)
(***************************************************************************)
PaidIncomeVouched ==
    \A i \in Income : doc[i].status = "paid" =>
        \/ i \in entered
        \/ \E v \in vouched : i \in doc[v].items

(***************************************************************************)
(* One request at a time.  An income of an instance that one invoice alone *)
(* has ever billed, and forceUpdate has not taken from it, has at any time *)
(* the status its invoice calls for, whatever calls failed.                *)
(***************************************************************************)
HeldStatus(status) ==
    CASE status = "paid"     -> {"paid"}
      [] status = "canceled" -> {"unpaid", "canceled"}
      [] OTHER               -> {"pending"}

\* Of the documents f, invoice v is the only one that bills income i.
Sole(f, v, i) ==
    /\ i \in f[v].items \ (Free \cup dropped)
    /\ \A w \in Invoice : i \in f[w].items => w = v

IncomeFollowsInvoice ==
    \A v \in Invoice, i \in Income :
        Sole(doc, v, i) => doc[i].status \in HeldStatus(doc[v].status)

(***************************************************************************)
(* One request at a time, an invoice does not move while its lock runs: not*)
(* cancelled, issued, settled or reverted until the payer is back or the   *)
(* ten minutes are over.                                                   *)
(***************************************************************************)
LockHolds ==
    [][\A v \in Invoice : Locked(doc[v]) => doc'[v].status = doc[v].status]_vars

(***************************************************************************)
(* A payment completes only after its own lock has run out, or because     *)
(* another payment of the invoice took the lock away: verify calls         *)
(* makeInvoicePaid, which refuses a locked invoice.                        *)
(***************************************************************************)
CompletesLate ==
    \A p \in Payment : doc[p].status = "completed" =>
        \/ p \in elapsed
        \/ \E q \in Payment \ {p} : doc[q].items = doc[p].items

(***************************************************************************)
(* "checking incomes not be in any active invoice (most important          *)
(* validation in creating invoice)", invoice.service.ts:94.                *)
(***************************************************************************)
BilledOnce ==
    \A v, w \in Invoice : v # w /\ Live(v) /\ Live(w) => ~Bills(v, doc[w].items)

(***************************************************************************)
(* "If income status is not unpaid so it is one a processing invoice",     *)
(* income.service.ts:230: an unpaid income, which updateIncome and remove  *)
(* take, is on no invoice that has been sent out or paid.                  *)
(***************************************************************************)
UnpaidIsFree ==
    Quiet => \A v \in Invoice : Live(v) =>
        \A i \in doc[v].items \ dropped : doc[i].status # "unpaid"

-----------------------------------------------------------------------------
(* Why it holds: what is true of the documents, and of a request in flight.*)

Steps(t) == {agenda[t][j] : j \in 1..Len(agenda[t])}

Sets(s, x) == s.op = "write" /\ s.to.status = x

\* Invoices the request has yet to bring to the financial system.
Owes(t) ==
    {v \in Invoice : \E s \in Steps(t) :
        \/ s.op = "voucher" /\ v \in s.on
        \/ s.op = "settle" /\ v \in Batch(s)}

\* Document d is paid by the request, in its transaction or by a step to come.
Pays(t, d) ==
    \/ d \in wrote[t] /\ buf[t][d].status = "paid"
    \/ \E s \in Steps(t) : Sets(s, "paid") /\ d \in s.on

Settles(t, v) ==
    \/ Pays(t, v)
    \/ \E s \in Steps(t) : s.op \in {"makeInvoicePaid", "settle"} /\ v \in s.on

NewlyPaid(t, v) ==
    v \in wrote[t] /\ buf[t][v].status = "paid" /\ doc[v].status # "paid"

\* Invoices hold incomes; what does not exist holds nothing.
Shape(f) ==
    /\ \A v \in Invoice : f[v].items \subseteq Income
    /\ \A d \in Doc : f[d].status = "none" => f[d].items = {}

\* Two transactions never hold the same document.
Isolation ==
    \A t, u \in Thread : t # u => wrote[t] \cap wrote[u] = {}

\* The committed books: what is paid has a voucher, what is completed the bank
\* has confirmed.
BooksInv ==
    /\ Shape(doc)
    /\ \A v \in Invoice : Paid(v) => v \in vouched
    /\ PaidIncomeVouched
    /\ \A p \in Payment : doc[p].status = "completed" => bank[p] = "confirmed"

\* What was written in a transaction: nothing ceases to exist, no items change,
\* and payments follow the bank.
BufInv(t) ==
    /\ Shape(buf[t])
    /\ \A d \in wrote[t] : doc[d].status # "none" =>
         buf[t][d].status # "none" /\ buf[t][d].items = doc[d].items
    /\ \A p \in Payment \cap wrote[t] :
         /\ doc[p].status # "none"
         /\ \/ buf[t][p].status = "canceled" /\ bank[p] = "closed"
            \/ buf[t][p].status = "completed" /\ bank[p] = "confirmed"

\* What a step may be about.  A payment is written in the transaction, in the
\* way the bank has decided; nothing becomes paid outside it.
StepInv(s) ==
    /\ s.op \in {"createInvoice", "insert"} => s.on \subseteq Income
    /\ s.op = "settle" => \A v \in Batch(s) :
         doc[v].status # "none" /\ s.seen[v].items = doc[v].items
    /\ s.op = "confirm" => \A p \in s.on \cap Payment : doc[p].status # "none"
    /\ s.op = "write" => s.to.status # "none"
    /\ Sets(s, "paid") => s.tx /\ \A v \in s.on \cap Invoice : doc[v].status # "none"
    /\ Sets(s, "completed") => s.on \subseteq Payment
    /\ s.op = "write" => \A p \in s.on \cap Payment :
         /\ s.tx
         /\ doc[p].status # "none"
         /\ \/ s.to.status = "canceled" /\ bank[p] = "closed"
            \/ s.to.status = "completed" /\ bank[p] = "confirmed"

\* Steps that may share a request with a settlement.
Clean(s) ==
    \/ s.op \in {"makeInvoicePaid", "settle", "voucher", "confirm",
                 "insertInvoice"}
    \/ s.op = "issue" /\ ~s.tx
    \/ s.op = "write" /\ (s.tx => s.to.status \in {"keep", "paid", "completed"})

Settling(t) ==
    \/ \E p \in Payment \cap wrote[t] : buf[t][p].status = "completed"
    \/ \E v \in Invoice : NewlyPaid(t, v)
    \/ \E s \in Steps(t) :
         \/ s.op \in {"makeInvoicePaid", "settle", "confirm"}
         \/ Sets(s, "paid") \/ Sets(s, "completed")

\* Handlers that may take up a settlement where there was none.
Alone(s) == s.op \in {"verify", "createIncome"}

AgendaInv(t) ==
    /\ \A s \in Steps(t) : StepInv(s)
    /\ Settling(t) => \A s \in Steps(t) : Clean(s)
    /\ \A s \in Steps(t) : Alone(s) => agenda[t] = <<s>> /\ wrote[t] = {}

\* The voucher comes before the commit.
VoucherInv(t) ==
    /\ \A v \in Invoice : Pays(t, v) => v \in vouched \cup Owes(t)
    /\ \A i \in Income : Pays(t, i) =>
         \/ i \in entered
         \/ \E v \in vouched \cup Owes(t) : i \in doc[v].items

\* A request that completes a payment settles its invoice; one that settles an
\* invoice pays its incomes.  A transaction that is lost can do neither.
Lost(t) == Doc \subseteq stale[t]

TogetherInv(t) ==
    /\ \A p \in Payment \cap wrote[t] : buf[t][p].status = "completed" =>
         \A v \in Invoice \cap buf[t][p].items : Settles(t, v)
    /\ \A s \in Steps(t) : Sets(s, "completed") /\ ~Lost(t) =>
         \A p \in s.on \cap Payment : \A v \in Invoice \cap doc[p].items :
            Settles(t, v)
    /\ \A v \in Invoice : NewlyPaid(t, v) =>
         \A i \in buf[t][v].items : Pays(t, i)
    /\ \A s \in Steps(t) : Sets(s, "paid") /\ ~Lost(t) =>
         \A v \in s.on \cap Invoice : \A i \in doc[v].items : Pays(t, i)

RequestInv(t) == BufInv(t) /\ AgendaInv(t) /\ VoucherInv(t) /\ TogetherInv(t)

(***************************************************************************)
(* The inductive invariant behind the properties above: what requests in   *)
(* flight have written and have still to do keeps to the rules, so that any*)
(* of them may commit whenever the code lets it.                           *)
(***************************************************************************)
LedgerInv ==
    /\ BooksInv
    /\ Isolation
    /\ \A t \in Thread : RequestInv(t)

-----------------------------------------------------------------------------
(* One request at a time: why locks hold.                                  *)

SetsLock(s) == s.op = "write" /\ s.to.lock # "keep"

\* Another payment of the invoice of p.
Shared(p) == \E q \in Payment \ {p} : doc[q].items = doc[p].items

\* A payment under way has the lock of its invoice, unless its time is over or
\* another payment of the invoice came by.
LocksInv ==
    /\ \A v \in Invoice : ~Created(v) => doc[v].lock = NoLock
    /\ \A p \in Payment : Created(p) =>
         \E v \in Invoice : Created(v) /\ doc[p].items = {v}
    /\ \A p \in Payment : doc[p].status = "canceled" => bank[p] = "closed"
    /\ \A p \in Payment : doc[p].status \notin {"none", "canceled"} =>
         \/ p \in elapsed \/ Shared(p)
         \/ \A v \in Invoice \cap doc[p].items : doc[v].lock = p
    /\ CompletesLate

\* A step that leaves locks alone, and the status of locked invoices.
Respects(s) ==
    /\ ~SetsLock(s) /\ s.op # "createPayment"
    /\ s.op = "write" /\ s.to.status # "keep" =>
         \A v \in s.on \cap Invoice : ~Locked(doc[v])
    /\ s.op = "settle" => \A v \in Batch(s) : s.seen[v].lock = doc[v].lock

Completes(t, p) ==
    \/ p \in wrote[t] /\ buf[t][p].status = "completed"
    \/ \E s \in Steps(t) : Sets(s, "completed") /\ p \in s.on

\* Request t is to settle invoice v and has yet to look at its lock.
Judges(t, v) ==
    \E s \in Steps(t) : s.op \in {"makeInvoicePaid", "settle"} /\ v \in s.on

\* A request that leaves locks alone.
Keeping(t) ==
    /\ \A s \in Steps(t) : Respects(s)
    /\ \A s \in Steps(t) : s.op = "pay" => agenda[t] = <<s>> /\ wrote[t] = {}
    /\ \A v \in Invoice \cap wrote[t] :
         /\ buf[t][v].lock = doc[v].lock
         /\ buf[t][v].status # doc[v].status => ~Locked(doc[v])
    /\ \A p \in Payment : Completes(t, p) =>
         \A v \in Invoice \cap doc[p].items : ~Locked(doc[v]) \/ Judges(t, v)

\* Request t pays an invoice: it locks first and creates the payment then.
Paying(t) == \E v \in Invoice, p \in Payment :
    LET incomes == Write(doc[v].items, LockedBy(p), FALSE)
        invoice == Write({v}, LockedBy(p), FALSE)
        create  == Do("createPayment", {v, p}, FALSE)
        token   == Do("token", {p}, FALSE) IN
    /\ Created(v)
    /\ wrote[t] = {}
    /\ \/ /\ agenda[t] \in {<<incomes, invoice, create, token>>,
                            <<invoice, create, token>>}
          /\ ~Locked(doc[v])
       \/ /\ agenda[t] = <<create, token>>
          /\ doc[v].lock = p

\* Request t cancels payment p, which lifts the lock of its invoice, whoever
\* holds it.
Releasing(t) == \E v \in Invoice, p \in Payment :
    LET close   == Write({p}, Becomes("canceled"), TRUE)
        invoice == Write({v}, LockedBy(NoLock), TRUE)
        incomes == Write(doc[v].items, LockedBy(NoLock), TRUE) IN
    /\ bank[p] = "closed"
    /\ Created(p) /\ doc[p].items = {v}
    /\ wrote[t] \subseteq Income \cup {v, p}
    /\ v \in wrote[t] => buf[t][v].status = doc[v].status
    /\ \/ agenda[t] = <<close, invoice, incomes>> /\ wrote[t] = {}
       \/ /\ agenda[t] \in {<<invoice, incomes>>, <<incomes>>, <<>>}
          /\ \/ p \in wrote[t]
             \/ wrote[t] = {} /\ Lost(t)

(***************************************************************************)
(* The inductive invariant behind LockHolds and CompletesLate.             *)
(***************************************************************************)
LockInv ==
    /\ LocksInv
    /\ \A t \in Thread : Keeping(t) \/ Paying(t) \/ Releasing(t)

-----------------------------------------------------------------------------
(* One request at a time: why incomes follow their invoices.               *)

\* The documents as the transaction of t sees them.
Future(t) == [d \in Doc |-> View(t, d)]

SetsInTransaction(t, d) ==
    {s \in Steps(t) : s.op = "write" /\ s.tx /\ s.to.status # "keep" /\ d \in s.on}

\* The statuses document d may end up with when request t commits.
Ends(t, d) ==
    IF SetsInTransaction(t, d) = {} THEN {View(t, d).status}
    ELSE {s.to.status : s \in SetsInTransaction(t, d)}

\* A transaction that is lost before it wrote anything, or after.
Void(t) == wrote[t] = {} /\ Lost(t)

\* Incomes of an invoice that request t has yet to insert.
Inserting(t) ==
    {i \in Income : \E s \in Steps(t) : s.op = "insert" /\ s.tx /\ i \in s.on}

\* What request t commits in the end suits.
OutcomeInv(t) ==
    /\ \A v \in Invoice, i \in Income \ Inserting(t) : Sole(Future(t), v, i) =>
         \A x \in Ends(t, v), y \in Ends(t, i) : y \in HeldStatus(x)
    /\ \A i \in Inserting(t) : Ends(t, i) \subseteq {"pending"}

OpenStatus == Status \ {"paid", "canceled"}

\* What is written outside the transaction changes nothing for an income its
\* invoice alone bills: that is not paid or cancelled.
DirectInv(s) ==
    s.op = "write" /\ ~s.tx /\ s.to.status # "keep" =>
        /\ \A v \in s.on \cap Invoice :
             doc[v].status \in OpenStatus /\ s.to.status \in OpenStatus
        /\ \A i \in s.on \cap (Income \ (Free \cup dropped)) :
             /\ s.to.status = "pending"
             /\ \A v \in Invoice : Sole(doc, v, i) => doc[v].status \in OpenStatus

\* Requests whose handler is alone on the agenda.
Begins(s) ==
    \/ s.op \in Request \ {"issue", "makeInvoicePaid", "revertToPreviousState"}
    \/ s.op = "issue" /\ s.tx

Making(t) ==
    \/ \E s \in Steps(t) : s.op = "insert"
    \/ \E v \in Invoice \cap wrote[t] : ~Created(v)

\* A write as a revert makes it: invoices stay open, incomes billed.
Reopens(s) ==
    s.op = "write" => s.to.status \in {"keep", "pending", "issued", "active"}

PlanInv(t) ==
    /\ \A s \in Steps(t) : DirectInv(s)
    /\ \A s \in Steps(t) : s.op = "write" => \A v \in s.on \cap Invoice : Created(v)
    /\ \A s \in Steps(t) : Begins(s) => agenda[t] = <<s>> /\ wrote[t] = {}
    /\ \A s \in Steps(t) : s.op = "revertToPreviousState" =>
         \A r \in Steps(t) : Reopens(r)
    /\ \A s \in Steps(t) :
         /\ s.op = "createInvoice" => s.on \subseteq Free \/ s.on \cap Free = {}
         /\ s.op = "insert" /\ ~s.tx => s.on \subseteq Free
    /\ Making(t) => \A s \in Steps(t) : s.op = "insert" \/ (s.op = "write" /\ s.tx)

(***************************************************************************)
(* The inductive invariant behind IncomeFollowsInvoice.                    *)
(***************************************************************************)
FollowInv ==
    /\ IncomeFollowsInvoice
    /\ \A t \in Thread : PlanInv(t) /\ (Void(t) \/ OutcomeInv(t))
=============================================================================
