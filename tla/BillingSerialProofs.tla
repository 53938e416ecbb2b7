--------------------------- MODULE BillingSerialProofs ---------------------------
(***************************************************************************)
(* Billing when requests come one at a time: locks hold, payments complete *)
(* late, and incomes follow their invoices.                                *)
(***************************************************************************)
EXTENDS LedgerProofs

-----------------------------------------------------------------------------
(* What the handlers put on the agenda.                                    *)

\* Request t goes on with the steps E instead of the head of its agenda.
Goes(t, E) ==
    \E new \in Seq(Step) :
        Then(t, new) /\ UNCHANGED <<doc, txn>> /\ Elems(new) = E

LEMMA GoesSteps ==
    ASSUME TypeOK, NEW t \in Thread, agenda[t] # <<>>, NEW E, Goes(t, E)
    PROVE  /\ Steps(t) = {Head(agenda[t])} \cup Rest(t)
           /\ Steps(t)' = E \cup Rest(t)
           /\ E \subseteq Step
           /\ UNCHANGED <<doc, wrote, buf, stale>>
<1>1. PICK new \in Seq(Step) :
        Then(t, new) /\ UNCHANGED <<doc, txn>> /\ Elems(new) = E
  BY DEF Goes
<1>2. /\ Steps(t) = {Head(agenda[t])} \cup Rest(t)
      /\ Steps(t)' = Elems(new) \cup Rest(t)
  BY <1>1, PushSteps
<1>3. Elems(new) \subseteq Step
  BY DEF Elems
<1> QED
  BY <1>1, <1>2, <1>3 DEF txn

LEMMA GoesShort ==
    ASSUME NEW t \in Thread, UNCHANGED <<doc, txn>>
    PROVE  /\ Then(t, <<>>) => Goes(t, {})
           /\ \A a \in Step : Then(t, <<a>>) => Goes(t, {a})
           /\ \A a, b \in Step : Then(t, <<a, b>>) => Goes(t, {a, b})
           /\ \A a, b, c \in Step : Then(t, <<a, b, c>>) => Goes(t, {a, b, c})
  BY Agendas, ElemsShort DEF Goes

\* A handler throws, or it may and goes on.
LEMMA GuardedGoes ==
    ASSUME NEW t \in Thread, NEW ok \in BOOLEAN
    PROVE  /\ \A a \in Step : Guarded(t, ok, <<a>>) => Abort(t) \/ (ok /\ Goes(t, {a}))
           /\ \A a, b \in Step :
                Guarded(t, ok, <<a, b>>) => Abort(t) \/ (ok /\ Goes(t, {a, b}))
           /\ \A new \in Seq(Step) :
                Guarded(t, ok, new) => Abort(t) \/ (ok /\ Goes(t, Elems(new)))
<1>1. ASSUME NEW new \in Seq(Step), Guarded(t, ok, new)
      PROVE  Abort(t) \/ (ok /\ Goes(t, Elems(new)))
  BY <1>1 DEF Guarded, Goes
<1>2. ASSUME NEW a \in Step, Guarded(t, ok, <<a>>) PROVE Abort(t) \/ (ok /\ Goes(t, {a}))
  BY <1>1, <1>2, Agendas, ElemsShort
<1>3. ASSUME NEW a \in Step, NEW b \in Step, Guarded(t, ok, <<a, b>>)
      PROVE  Abort(t) \/ (ok /\ Goes(t, {a, b}))
  BY <1>1, <1>3, Agendas, ElemsShort
<1> QED
  BY <1>1, <1>2, <1>3

LEMMA CreateInvoiceGoes ==
    ASSUME TypeOK, NEW t \in Thread, CreateInvoice(t)
    PROVE  LET S == Head(agenda[t]).on IN
           Abort(t) \/ Goes(t, {Do("insert", S, S \cap Free = {}),
                                Write(S, Becomes("pending"), TRUE)})
<1> DEFINE S == Head(agenda[t]).on
           a == Do("insert", S, S \cap Free = {})
           b == Write(S, Becomes("pending"), TRUE)
<1>1. S \in SUBSET Doc
  BY HeadType DEF CreateInvoice
<1>2. a \in Step /\ b \in Step
  BY <1>1, DoType, WriteType DEF StepOp, Status
<1>3. Abort(t) \/ (Then(t, <<a, b>>) /\ UNCHANGED <<doc, txn>>)
  BY DEF CreateInvoice
<1> HIDE DEF a, b
<1>4. Abort(t) \/ Goes(t, {a, b})
  BY <1>2, <1>3, GoesShort
<1> QED
  BY <1>4 DEF a, b

LEMMA MakeInvoiceManuallyGoes ==
    ASSUME TypeOK, NEW t \in Thread, MakeInvoiceManually(t)
    PROVE  \/ Abort(t)
           \/ \E S \in SUBSET (Income \ Free) :
                Goes(t, {Write(S, Becomes("pending"), TRUE), Do("insert", S, TRUE)})
<1> DEFINE a(S) == Write(S, Becomes("pending"), TRUE)
           b(S) == Do("insert", S, TRUE)
<1>1. \/ Abort(t)
      \/ \E S \in SUBSET (Income \ Free) :
           Then(t, <<a(S), b(S)>>) /\ UNCHANGED <<doc, txn>>
  BY Zenon DEF MakeInvoiceManually
<1>2. \A S \in SUBSET (Income \ Free) : a(S) \in Step /\ b(S) \in Step
  BY DocSets, DoType, WriteType DEF StepOp, Status
<1> HIDE DEF a, b
<1>3. \/ Abort(t)
      \/ \E S \in SUBSET (Income \ Free) : Goes(t, {a(S), b(S)})
  BY <1>1, <1>2, GoesShort
<1> QED
  BY <1>3 DEF a, b

\* The steps of issue; the incomes are written before the invoice.
IssueSteps(v, tx) ==
    {Write({v}, Touch, FALSE), Write({FinNo}, Touch, tx), Do("insertInvoice", {v}, tx),
     Write(doc[v].items, Becomes("pending"), tx), Write({v}, Issued, tx)}

LEMMA IssueGoes ==
    ASSUME TypeOK, NEW t \in Thread, Issue(t)
    PROVE  \/ Abort(t)
           \/ \E v \in Invoice : \E E \in SUBSET IssueSteps(v, Head(agenda[t]).tx) :
                /\ ~Locked(doc[v]) /\ doc[v].status \in {"active", "pending"}
                /\ Goes(t, E)
<1> DEFINE tx == Head(agenda[t]).tx
<1>1. PICK v \in Invoice :
        Guarded(t, ~Locked(doc[v]) /\ doc[v].status \in {"active", "pending"},
                 <<Write({v}, Touch, FALSE)>>
                 \o (IF v \in Official THEN <<Write({FinNo}, Touch, tx)>>
                                       ELSE <<>>)
                 \o <<Do("insertInvoice", {v}, tx),
                      Write(doc[v].items, Becomes("pending"), tx),
                      Write({v}, Issued, tx)>>)
  BY DEF Issue
<1> DEFINE ok == ~Locked(doc[v]) /\ doc[v].status \in {"active", "pending"}
           a == Write({v}, Touch, FALSE)
           f == Write({FinNo}, Touch, tx)
           b == Do("insertInvoice", {v}, tx)
           c == Write(doc[v].items, Becomes("pending"), tx)
           d == Write({v}, Issued, tx)
           p == <<a>>
           q == IF v \in Official THEN <<f>> ELSE <<>>
           r == <<b, c, d>>
<1>2. tx \in BOOLEAN
  BY HeadType DEF Issue
<1>3. a \in Step /\ f \in Step /\ c \in Step /\ d \in Step
  BY <1>2, WriteType, DocSets, DocItems DEF Status
<1>4. b \in Step
  BY <1>2, DoType, DocSets DEF StepOp
<1>5. Guarded(t, ok, p \o q \o r)
  BY <1>1
<1>6. {a, f, b, c, d} = IssueSteps(v, tx)
  BY DEF IssueSteps
<1>7. p \in Seq(Step) /\ Elems(p) = {a}
  BY <1>3, Agendas, ElemsShort
<1>8. q \in Seq(Step) /\ Elems(q) \subseteq {f}
  BY <1>3, Agendas, ElemsShort
<1>9. r \in Seq(Step) /\ Elems(r) = {b, c, d}
  BY <1>3, <1>4, Agendas, ElemsShort
<1> HIDE DEF a, f, b, c, d, p, q, r
<1>10. p \o q \in Seq(Step) /\ Elems(p \o q) = Elems(p) \cup Elems(q)
  BY <1>7, <1>8, StepsConcat
<1>11. /\ p \o q \o r \in Seq(Step)
       /\ Elems(p \o q \o r) = Elems(p \o q) \cup Elems(r)
  BY <1>9, <1>10, StepsConcat
<1>12. Abort(t) \/ (ok /\ Goes(t, Elems(p \o q \o r)))
  <2>1. ok \in BOOLEAN
    OBVIOUS
  <2> HIDE DEF ok
  <2> QED
    BY <1>5, <1>11, <2>1, GuardedGoes
<1>13. Elems(p \o q \o r) \in SUBSET IssueSteps(v, tx)
  BY <1>6, <1>7, <1>8, <1>9, <1>10, <1>11
<1> HIDE DEF tx
<1>14. CASE Abort(t)
  BY <1>14
<1>15. CASE ok /\ Goes(t, Elems(p \o q \o r))
  BY <1>13, <1>15 DEF tx
<1> QED
  BY <1>12, <1>14, <1>15

LEMMA MakeInvoicePendGoes ==
    ASSUME TypeOK, NEW t \in Thread, MakeInvoicePend(t)
    PROVE  \/ Abort(t)
           \/ \E v \in Invoice :
                /\ MayPend(v)
                /\ Goes(t, {Write(doc[v].items, Becomes("pending"), FALSE),
                            Write({v}, Becomes("pending"), FALSE)})
<1>1. PICK v \in Invoice :
        Guarded(t, MayPend(v),
                 <<Write(doc[v].items, Becomes("pending"), FALSE),
                   Write({v}, Becomes("pending"), FALSE)>>)
  BY DEF MakeInvoicePend
<1> DEFINE a == Write(doc[v].items, Becomes("pending"), FALSE)
           b == Write({v}, Becomes("pending"), FALSE)
<1>2. a \in Step /\ b \in Step
  BY WriteType, DocSets, DocItems DEF Status
<1>3. MayPend(v) \in BOOLEAN
  BY DEF MayPend
<1> HIDE DEF a, b
<1>4. Guarded(t, MayPend(v), <<a, b>>)
  BY <1>1 DEF a, b
<1>5. Abort(t) \/ (MayPend(v) /\ Goes(t, {a, b}))
  BY <1>2, <1>3, <1>4, GuardedGoes
<1> QED
  BY <1>5 DEF a, b

LEMMA MakeInvoiceCancelGoes ==
    ASSUME TypeOK, NEW t \in Thread, MakeInvoiceCancel(t)
    PROVE  \/ Abort(t)
           \/ \E v \in Invoice :
                /\ ~Locked(doc[v]) /\ doc[v].status \notin {"none", "paid"}
                /\ Goes(t, {Write(doc[v].items, Becomes("unpaid"), TRUE),
                            Write({v}, Becomes("canceled"), TRUE)})
<1>1. PICK v \in Invoice :
        Guarded(t, ~Locked(doc[v]) /\ doc[v].status \notin {"none", "paid"},
                Cancellation(v))
  BY DEF MakeInvoiceCancel
<1> DEFINE ok == ~Locked(doc[v]) /\ doc[v].status \notin {"none", "paid"}
           a == Write(doc[v].items, Becomes("unpaid"), TRUE)
           b == Write({v}, Becomes("canceled"), TRUE)
<1>2. a \in Step /\ b \in Step
  BY WriteType, DocSets, DocItems DEF Status
<1>3. ok \in BOOLEAN
  OBVIOUS
<1>4. Guarded(t, ok, <<a, b>>)
  BY <1>1 DEF Cancellation
<1> HIDE DEF a, b, ok
<1>5. Abort(t) \/ (ok /\ Goes(t, {a, b}))
  BY <1>2, <1>3, <1>4, GuardedGoes
<1> QED
  BY <1>5 DEF a, b, ok

LEMMA UpdateInvoiceGoes ==
    ASSUME TypeOK, NEW t \in Thread, UpdateInvoice(t)
    PROVE  \/ Abort(t)
           \/ \E v \in Invoice :
                /\ ~Locked(doc[v]) /\ doc[v].status = "active"
                /\ \/ Goes(t, {Write(doc[v].items, Becomes("pending"), TRUE),
                               Write({v}, Issued, TRUE)})
                   \/ Goes(t, {Write({v}, Becomes("active"), TRUE)})
<1>1. PICK v \in Invoice :
         \/ Guarded(t, ~Locked(doc[v]) /\ doc[v].status = "active",
                    <<Write(doc[v].items, Becomes("pending"), TRUE),
                      Write({v}, Issued, TRUE)>>)
         \/ Guarded(t, ~Locked(doc[v]) /\ doc[v].status = "active",
                    <<Write({v}, Becomes("active"), TRUE)>>)
  BY DEF UpdateInvoice
<1> DEFINE a == Write(doc[v].items, Becomes("pending"), TRUE)
           b == Write({v}, Issued, TRUE)
           c == Write({v}, Becomes("active"), TRUE)
           ok == ~Locked(doc[v]) /\ doc[v].status = "active"
<1>2. a \in Step /\ b \in Step /\ c \in Step
  BY WriteType, DocSets, DocItems DEF Status
<1>3. Guarded(t, ok, <<a, b>>) \/ Guarded(t, ok, <<c>>)
  BY <1>1
<1>4. ok \in BOOLEAN
  OBVIOUS
<1> HIDE DEF a, b, c, ok
<1>5. Abort(t) \/ (ok /\ (Goes(t, {a, b}) \/ Goes(t, {c})))
  BY <1>2, <1>3, <1>4, GuardedGoes
<1> QED
  BY <1>5 DEF a, b, c, ok

LEMMA ForceUpdateGoes ==
    ASSUME TypeOK, NEW t \in Thread, ForceUpdate(t)
    PROVE  \/ Abort(t)
           \/ \E gone \in SUBSET Income :
                /\ gone \subseteq dropped'
                /\ Goes(t, {Write(gone, Becomes("unpaid"), FALSE)})
<1>1. PICK v \in Invoice, gone \in SUBSET Income :
        /\ Guarded(t, ~Locked(doc[v]), <<Write(gone, Becomes("unpaid"), FALSE)>>)
        /\ dropped' = IF Locked(doc[v]) THEN dropped ELSE dropped \cup gone
  BY DEF ForceUpdate
<1> DEFINE a == Write(gone, Becomes("unpaid"), FALSE)
           ok == ~Locked(doc[v])
<1>2. a \in Step
  BY WriteType, DocSets DEF Status
<1>3. Guarded(t, ok, <<a>>)
  BY <1>1
<1>4. ok \in BOOLEAN /\ (ok => gone \subseteq dropped')
  BY <1>1
<1> HIDE DEF a, ok
<1>5. Abort(t) \/ (ok /\ Goes(t, {a}))
  BY <1>2, <1>3, <1>4, GuardedGoes
<1> QED
  BY <1>4, <1>5 DEF a

\* The requests about incomes write them once.
LEMMA IncomeGoes ==
    ASSUME TypeOK, NEW t \in Thread,
           CreateIncome(t) \/ UpdateIncome(t) \/ ForceUpdateIncome(t) \/ ChangeCaseType(t)
           \/ Remove(t)
    PROVE  \/ Abort(t)
           \/ \E S \in SUBSET Income : Goes(t, {Write(S, Touch, TRUE)})
           \/ \E i \in Income, x \in IncomeStatus :
                /\ doc[i].status = "none"
                /\ Goes(t, {Write({i}, Becomes(x), TRUE)})
           \/ \E i \in Income \ Free :
                /\ doc[i].status = "unpaid"
                /\ Goes(t, {Write({i}, Becomes("canceled"), TRUE)})
<1>1. \A S \in SUBSET Income : Write(S, Touch, TRUE) \in Step
  BY WriteType, DocSets
<1>2. \A i \in Income, x \in IncomeStatus : Write({i}, Becomes(x), TRUE) \in Step
  BY WriteType, DocSets, IncomeStatuses
<1>3. CASE CreateIncome(t)
  <2>1. PICK i \in Income, x \in IncomeStatus :
          /\ doc[i].status = "none"
          /\ Then(t, <<Write({i}, Becomes(x), TRUE)>>)
    BY <1>3 DEF CreateIncome
  <2>2. UNCHANGED <<doc, txn>>
    BY <1>3 DEF CreateIncome
  <2> DEFINE a == Write({i}, Becomes(x), TRUE)
  <2>3. a \in Step /\ Then(t, <<a>>)
    BY <1>2, <2>1
  <2> HIDE DEF a
  <2>4. Goes(t, {a})
    BY <2>2, <2>3, GoesShort
  <2> QED
    BY <2>1, <2>4 DEF a
<1>4. CASE UpdateIncome(t)
  <2>1. PICK i \in Income :
          Guarded(t, ~Locked(doc[i]) /\ doc[i].status = "unpaid", <<Write({i}, Touch, TRUE)>>)
    BY <1>4 DEF UpdateIncome
  <2> QED
    BY <1>1, <2>1, GuardedGoes
<1>5. CASE ForceUpdateIncome(t)
  <2>1. PICK i \in Income :
          Guarded(t, doc[i].status # "none" /\ ~Locked(doc[i]), <<Write({i}, Touch, TRUE)>>)
    BY <1>5 DEF ForceUpdateIncome
  <2> QED
    BY <1>1, <2>1, GuardedGoes
<1>6. CASE ChangeCaseType(t)
  <2>1. \E S \in SUBSET Income, ok \in BOOLEAN : Guarded(t, ok, <<Write(S, Touch, TRUE)>>)
    BY <1>6 DEF ChangeCaseType
  <2> QED
    BY <1>1, <2>1, GuardedGoes
<1>7. CASE Remove(t)
  <2>1. PICK i \in Income :
          Guarded(t, ~Locked(doc[i]) /\ doc[i].status = "unpaid" /\ i \notin Free,
                  <<Write({i}, Becomes("canceled"), TRUE)>>)
    BY <1>7 DEF Remove
  <2> DEFINE ok == ~Locked(doc[i]) /\ doc[i].status = "unpaid" /\ i \notin Free
             a  == Write({i}, Becomes("canceled"), TRUE)
  <2>2. ok \in BOOLEAN /\ a \in Step /\ Guarded(t, ok, <<a>>)
    BY <1>2, <2>1 DEF IncomeStatus
  <2> HIDE DEF a, ok
  <2>3. Abort(t) \/ (ok /\ Goes(t, {a}))
    BY <2>2, GuardedGoes
  <2> QED
    BY <2>3 DEF a, ok
<1> QED
  BY <1>3, <1>4, <1>5, <1>6, <1>7

LEMMA RevertGoes ==
    ASSUME TypeOK, NEW t \in Thread, RevertToPreviousState(t)
    PROVE  \/ Abort(t)
           \/ Goes(t, {})
           \/ \E v \in Invoice, rest \in SUBSET Doc :
              \E E \in SUBSET {Write(doc[v].items, Becomes("pending"), TRUE),
                               Write({v}, Becomes(PreviousStatus(v)), TRUE),
                               Do("revertToPreviousState", rest, TRUE)} :
                /\ ~Locked(doc[v]) /\ doc[v].status \in {"issued", "pending"}
                /\ Write(doc[v].items, Becomes("pending"), TRUE) \in E
                /\ Write({v}, Becomes(PreviousStatus(v)), TRUE) \in E
                /\ Goes(t, E)
<1>1. PICK v \in Head(agenda[t]).on \cap Invoice :
         LET rest == Head(agenda[t]).on \ {v} IN
         \/ Then(t, <<>>) /\ UNCHANGED <<doc, txn>>
         \/ /\ Locked(doc[v]) \/ doc[v].status \in {"issued", "pending"}
            /\ Guarded(t, ~Locked(doc[v]),
              <<Write(doc[v].items, Becomes("pending"), TRUE),
                Write({v}, Becomes(PreviousStatus(v)), TRUE)>>
              \o (IF rest = {} THEN <<>>
                  ELSE <<Do("revertToPreviousState", rest, TRUE)>>))
  BY DEF RevertToPreviousState
<1> DEFINE rest == Head(agenda[t]).on \ {v}
           a == Write(doc[v].items, Becomes("pending"), TRUE)
           b == Write({v}, Becomes(PreviousStatus(v)), TRUE)
           c == Do("revertToPreviousState", rest, TRUE)
           p == <<a, b>>
           q == IF rest = {} THEN <<>> ELSE <<c>>
           ok == ~Locked(doc[v])
<1>2. rest \in SUBSET Doc
  BY HeadType DEF RevertToPreviousState
<1>3. a \in Step /\ b \in Step
  BY WriteType, DocSets, DocItems DEF Status, PreviousStatus
<1>4. c \in Step
  BY <1>2, DoType DEF StepOp, Request
<1>5. p \in Seq(Step) /\ Elems(p) = {a, b}
  BY <1>3, Agendas, ElemsShort
<1>6. q \in Seq(Step) /\ Elems(q) \subseteq {c}
  BY <1>4, Agendas, ElemsShort
<1>7. \/ Then(t, <<>>) /\ UNCHANGED <<doc, txn>>
      \/ /\ Locked(doc[v]) \/ doc[v].status \in {"issued", "pending"}
         /\ Guarded(t, ok, p \o q)
  BY <1>1
<1>8. ok \in BOOLEAN
  OBVIOUS
<1>9. v \in Invoice
  OBVIOUS
<1> HIDE DEF a, b, c, p, q
<1>10. p \o q \in Seq(Step) /\ Elems(p \o q) = Elems(p) \cup Elems(q)
  BY <1>5, <1>6, StepsConcat
<1>11. CASE Then(t, <<>>) /\ UNCHANGED <<doc, txn>>
  BY <1>11, GoesShort
<1>12. CASE /\ Locked(doc[v]) \/ doc[v].status \in {"issued", "pending"}
            /\ Guarded(t, ok, p \o q)
  <2>1. Abort(t) \/ (ok /\ Goes(t, Elems(p \o q)))
    <3> HIDE DEF ok
    <3> QED
      BY <1>8, <1>10, <1>12, GuardedGoes
  <2>2. CASE Abort(t)
    BY <2>2
  <2>3. CASE ok /\ Goes(t, Elems(p \o q))
    <3>1. /\ Elems(p \o q) \in SUBSET {a, b, c} /\ a \in Elems(p \o q) /\ b \in Elems(p \o q)
      BY <1>5, <1>6, <1>10
    <3>2. ~Locked(doc[v]) /\ doc[v].status \in {"issued", "pending"}
      BY <1>12, <2>3
    <3> DEFINE E == Elems(p \o q)
    <3>3. E \in SUBSET {a, b, c} /\ a \in E /\ b \in E /\ Goes(t, E)
      BY <2>3, <3>1
    <3> HIDE DEF E, rest
    <3> QED
      BY <1>2, <1>9, <3>2, <3>3 DEF a, b, c
  <2> QED
    BY <2>1, <2>2, <2>3
<1> QED
  BY <1>7, <1>11, <1>12

\* The settle step of invoices V.
SettleOf(V) ==
    [Do("settle", V, TRUE) EXCEPT
       !.seen = [v \in Invoice |-> IF v \in V THEN doc[v] ELSE Blank]]

LEMMA MakeInvoicePaidGoes ==
    ASSUME TypeOK, NEW t \in Thread, MakeInvoicePaid(t)
    PROVE  Goes(t, {SettleOf(Head(agenda[t]).on \cap Invoice)})
<1> DEFINE V    == Head(agenda[t]).on \cap Invoice
           seen == [v \in Invoice |-> IF v \in V THEN doc[v] ELSE Blank]
           s    == [Do("settle", V, TRUE) EXCEPT !.seen = seen]
<1>1. Then(t, <<s>>) /\ UNCHANGED <<doc, txn>>
  BY DEF MakeInvoicePaid
<1>2. s \in Step
  <2>1. seen \in [Invoice -> Document]
    BY BlankType, DocSets DEF TypeOK
  <2>2. Do("settle", V, TRUE) \in Step
    BY DoType, DocSets DEF StepOp
  <2> HIDE DEF seen
  <2> QED
    BY <2>1, <2>2 DEF Step
<1>3. s = SettleOf(V)
  BY DEF SettleOf
<1> HIDE DEF s, V
<1>4. Goes(t, {s})
  BY <1>1, <1>2, GoesShort
<1> QED
  BY <1>3, <1>4 DEF V

\* What a round of the settlement loop does with invoice v, and what it leaves.
PaidSteps(h, v) ==
    {Write(doc[v].items, Becomes("paid"), TRUE), Write({v}, Becomes("paid"), TRUE),
     [h EXCEPT !.on = @ \ {v}]}

NumberSteps(v) == {Do("issue", {v}, FALSE), Write({v}, Numbered, FALSE)}

LEMMA SettleNextGoes ==
    ASSUME TypeOK, LedgerInv, NEW t \in Thread, SettleNext(t)
    PROVE  LET h == Head(agenda[t]) IN
           \/ Abort(t)
           \/ \E v \in Invoice : \E N \in SUBSET NumberSteps(v) :
                /\ v \in Batch(h) /\ ~Locked(h.seen[v])
                /\ h.seen[v].status \in {"active", "issued", "pending"}
                /\ Goes(t, N \cup PaidSteps(h, v))
<1> DEFINE h == Head(agenda[t])
<1>1. /\ agenda[t] # <<>> /\ h.op = "settle" /\ h \in Step
      /\ h.seen \in [Invoice -> Document] /\ h.on \in SUBSET Doc
  BY HeadType DEF SettleNext
<1>2. PICK v \in Invoice :
        LET ok == /\ ~Locked(h.seen[v])
                  /\ h.seen[v].status \in {"active", "issued", "pending"} IN
        Guarded(t, ok, EnsureIssued(v, h.seen[v]) \o MarkPaid(v, h.seen[v])
                       \o <<[h EXCEPT !.on = @ \ {v}]>>)
  BY DEF SettleNext
<1> DEFINE ok == /\ ~Locked(h.seen[v])
                 /\ h.seen[v].status \in {"active", "issued", "pending"}
           e == EnsureIssued(v, h.seen[v])
           m == MarkPaid(v, h.seen[v])
           g == [h EXCEPT !.on = @ \ {v}]
           r == <<g>>
           a == Do("issue", {v}, FALSE)
           b == Write({v}, Numbered, FALSE)
           c == Write(h.seen[v].items, Becomes("paid"), TRUE)
           d == Write({v}, Becomes("paid"), TRUE)
<1>3. Guarded(t, ok, e \o m \o r)
  BY <1>2
<1>4. CASE ~ok
  BY <1>3, <1>4 DEF Guarded
<1>5. CASE ok
  <2>1. StepInv(h)
    BY <1>1, HeadInv
  <2>2. v \in Batch(h) /\ h.seen[v].items = doc[v].items
    BY <1>1, <1>5, <2>1 DEF Batch, StepInv
  <2>3. a \in Step /\ b \in Step /\ d \in Step
    BY DoType, WriteType, DocSets DEF StepOp, Request, Status
  <2>4. c \in Step
    <3>1. doc[v].items \in SUBSET Doc
      BY DocItems, DocSets
    <3> QED
      BY <2>2, <3>1, WriteType DEF Status
  <2>5. g \in Step
    BY <1>1 DEF Step
  <2>6. e \in Seq(Step) /\ Elems(e) \in SUBSET {a, b}
    <3>1. e = <<>> \/ e = <<a, b>>
      BY DEF EnsureIssued
    <3> HIDE DEF e, a, b
    <3>2. CASE e = <<>>
      BY <3>2, Agendas, ElemsShort
    <3>3. CASE e = <<a, b>>
      BY <2>3, <3>3, Agendas, ElemsShort
    <3> QED
      BY <3>1, <3>2, <3>3
  <2>7. m \in Seq(Step) /\ Elems(m) = {c, d}
    <3>1. m = <<c, d>>
      BY DEF MarkPaid
    <3> HIDE DEF m, c, d
    <3> QED
      BY <2>3, <2>4, <3>1, Agendas, ElemsShort
  <2>8. r \in Seq(Step) /\ Elems(r) = {g}
    BY <2>5, Agendas, ElemsShort
  <2>9. /\ {a, b} = NumberSteps(v)
        /\ {c, d, g} = PaidSteps(h, v)
    BY <2>2 DEF NumberSteps, PaidSteps
  <2> HIDE DEF h, a, b, c, d, e, m, g, r
  <2>10. e \o m \in Seq(Step) /\ Elems(e \o m) = Elems(e) \cup {c, d}
    BY <2>6, <2>7, StepsConcat
  <2> DEFINE new == e \o m \o r
  <2>11. new \in Seq(Step) /\ Elems(new) = Elems(e) \cup PaidSteps(h, v)
    <3>1. new \in Seq(Step) /\ Elems(new) = Elems(e \o m) \cup Elems(r)
      BY <2>8, <2>10, StepsConcat
    <3>2. Elems(e \o m) \cup Elems(r) = Elems(e) \cup {c, d, g}
      BY <2>8, <2>10
    <3> QED
      BY <2>9, <3>1, <3>2
  <2>12. Then(t, new) /\ UNCHANGED <<doc, txn>>
    BY <1>3, <1>5 DEF Guarded
  <2> HIDE DEF new
  <2>13. Goes(t, Elems(e) \cup PaidSteps(h, v))
    BY <2>11, <2>12 DEF Goes
  <2>14. Elems(e) \in SUBSET NumberSteps(v)
    BY <2>6, <2>9
  <2> QED
    BY <1>5, <2>2, <2>13, <2>14 DEF h
<1> QED
  BY <1>4, <1>5

LEMMA SettleRestGoes ==
    ASSUME TypeOK, NEW t \in Thread, SettleRest(t)
    PROVE  LET B == Batch(Head(agenda[t])) IN
           /\ Head(agenda[t]).on = {}
           /\ Goes(t, {Do("voucher", B, TRUE), Write(B, Touch, TRUE)})
<1> DEFINE B == Batch(Head(agenda[t]))
           a == Do("voucher", B, TRUE)
           b == Write(B, Touch, TRUE)
<1>1. Head(agenda[t]).on = {} /\ Then(t, <<a, b>>) /\ UNCHANGED <<doc, txn>>
  BY DEF SettleRest, Vouching
<1>2. B \in SUBSET Doc
  BY DocSets DEF Batch
<1>3. a \in Step /\ b \in Step
  BY <1>2, DoType, WriteType DEF StepOp
<1> HIDE DEF a, b
<1>4. Goes(t, {a, b})
  BY <1>1, <1>3, GoesShort
<1> QED
  BY <1>1, <1>4 DEF a, b

LEMMA NothingGoes ==
    ASSUME TypeOK, NEW t \in Thread, InsertInvoice(t) \/ Voucher(t) \/ GetBankToken(t)
    PROVE  Goes(t, {})
<1>1. Then(t, <<>>) /\ UNCHANGED <<doc, txn>>
  BY DEF InsertInvoice, Voucher, GetBankToken
<1> QED
  BY <1>1, GoesShort

LEMMA ConfirmPaymentGoes ==
    ASSUME TypeOK, NEW t \in Thread, ConfirmPayment(t)
    PROVE  \/ Abort(t)
           \/ \E p \in Payment \cap Head(agenda[t]).on :
                Goes(t, {Write({p}, Becomes("completed"), TRUE),
                         Do("makeInvoicePaid", InvoiceOf(p), TRUE)})
<1>1. CASE Abort(t)
  BY <1>1
<1>2. CASE ~Abort(t)
  <2>1. PICK p \in Head(agenda[t]).on \cap Payment :
          Then(t, Completion(p)) /\ UNCHANGED <<doc, txn>>
    BY <1>2, Zenon DEF ConfirmPayment
  <2> DEFINE a == Write({p}, Becomes("completed"), TRUE)
             b == Do("makeInvoicePaid", InvoiceOf(p), TRUE)
  <2>2. Then(t, <<a, b>>) /\ UNCHANGED <<doc, txn>>
    BY <2>1 DEF Completion
  <2>3. InvoiceOf(p) \in SUBSET Doc
    BY DocItems, DocSets DEF InvoiceOf
  <2>4. a \in Step /\ b \in Step
    BY <2>3, DoType, WriteType, DocSets DEF StepOp, Request, Status
  <2> HIDE DEF a, b
  <2>5. Goes(t, {a, b})
    BY <2>2, <2>4, GoesShort
  <2> QED
    BY <2>1, <2>5 DEF a, b
<1> QED
  BY <1>1, <1>2

\* verify of a payment the payer gave up.
LEMMA VerifyGoes ==
    ASSUME TypeOK, NEW t \in Thread, Verify(t)
    PROVE  \/ \E p \in Payment \cap Head(agenda[t]).on :
                doc[p].status # "none" /\ Goes(t, {Do("confirm", {p}, TRUE)})
           \/ \E p \in Payment \cap Head(agenda[t]).on : \E v \in Invoice \cap InvoiceOf(p) :
                LET new == <<Write({p}, Becomes("canceled"), TRUE),
                             Write({v}, LockedBy(NoLock), TRUE),
                             Write(doc[v].items, LockedBy(NoLock), TRUE)>> IN
                /\ doc[p].status # "none" /\ bank[p] = "closed"
                /\ new \in Seq(Step)
                /\ Then(t, new)
                /\ Goes(t, Elems(new))
<1>1. PICK p \in Head(agenda[t]).on \cap Payment :
        /\ doc[p].status # "none"
        /\ \/ /\ bank[p] = "closed"
              /\ \E v \in InvoiceOf(p) \cap Invoice :
                   Then(t, <<Write({p}, Becomes("canceled"), TRUE),
                             Write({v}, LockedBy(NoLock), TRUE),
                             Write(doc[v].items, LockedBy(NoLock), TRUE)>>)
           \/ Then(t, <<Do("confirm", {p}, TRUE)>>)
  BY DEF Verify
<1>2. UNCHANGED <<doc, txn>>
  BY DEF Verify
<1>3. CASE Then(t, <<Do("confirm", {p}, TRUE)>>)
  <2>1. Do("confirm", {p}, TRUE) \in Step
    BY DoType, DocSets DEF StepOp
  <2>2. Goes(t, {Do("confirm", {p}, TRUE)})
    BY <1>2, <1>3, <2>1, GoesShort
  <2> QED
    BY <1>1, <2>2
<1>4. ASSUME bank[p] = "closed", NEW v \in InvoiceOf(p) \cap Invoice,
             Then(t, <<Write({p}, Becomes("canceled"), TRUE),
                       Write({v}, LockedBy(NoLock), TRUE),
                       Write(doc[v].items, LockedBy(NoLock), TRUE)>>)
      PROVE  LET new == <<Write({p}, Becomes("canceled"), TRUE),
                             Write({v}, LockedBy(NoLock), TRUE),
                             Write(doc[v].items, LockedBy(NoLock), TRUE)>> IN
             new \in Seq(Step) /\ Then(t, new) /\ Goes(t, Elems(new))
  <2> DEFINE a == Write({p}, Becomes("canceled"), TRUE)
             b == Write({v}, LockedBy(NoLock), TRUE)
             c == Write(doc[v].items, LockedBy(NoLock), TRUE)
             new == <<a, b, c>>
  <2>1. a \in Step /\ b \in Step
    BY WriteType, DocSets DEF Status
  <2>2. c \in Step
    <3>1. doc[v].items \in SUBSET Doc
      BY DocItems, DocSets
    <3> QED
      BY <3>1, WriteType
  <2> HIDE DEF a, b, c
  <2>3. new \in Seq(Step)
    BY <2>1, <2>2, Agendas
  <2>4. Then(t, new)
    BY <1>4 DEF a, b, c
  <2> HIDE DEF new
  <2>5. Goes(t, Elems(new))
    BY <1>2, <2>3, <2>4 DEF Goes
  <2> QED
    BY <2>3, <2>4, <2>5 DEF new, a, b, c
<1> QED
  BY <1>1, <1>3, <1>4

-----------------------------------------------------------------------------
(* Why locks hold.                                                         *)

LEMMA LockType ==
    ASSUME TypeOK, NEW d \in Doc
    PROVE  /\ doc[d].lock \in Payment \cup {NoLock}
           /\ Locked(doc[d]) <=> doc[d].lock # NoLock /\ doc[d].lock \notin elapsed
<1>1. doc[d] \in Document
  BY DEF TypeOK
<1>2. doc[d].lock \in Payment \cup {NoLock}
  BY <1>1 DEF Document
<1> QED
  BY <1>2, BillingAssumption DEF Locked

\* Locks and payments stay as they are.
LEMMA LocksKept ==
    ASSUME LocksInv, elapsed \subseteq elapsed',
           \A v \in Invoice : doc'[v].lock = doc[v].lock /\ (Created(v) => Created(v)'),
           \A p \in Payment : doc'[p] = doc[p],
           \A p \in Payment : bank[p] = "closed" => bank'[p] = "closed"
    PROVE  LocksInv'
<1>1. \A p \in Payment : Shared(p) => Shared(p)'
  BY DEF Shared
<1>2. \A v \in Invoice : ~Created(v)' => doc'[v].lock = NoLock
  BY DEF LocksInv
<1>3. ASSUME NEW p \in Payment, Created(p)'
      PROVE  \E v \in Invoice : Created(v)' /\ doc'[p].items = {v}
  BY <1>3 DEF LocksInv, Created
<1>4. \A p \in Payment : doc'[p].status = "canceled" => bank'[p] = "closed"
  BY DEF LocksInv
<1>5. ASSUME NEW p \in Payment, doc'[p].status \notin {"none", "canceled"}
      PROVE  \/ p \in elapsed' \/ Shared(p)'
             \/ \A v \in Invoice \cap doc'[p].items : doc'[v].lock = p
  BY <1>1, <1>5 DEF LocksInv
<1>6. CompletesLate'
  BY DEF LocksInv, CompletesLate
<1> QED
  BY <1>2, <1>3, <1>4, <1>5, <1>6 DEF LocksInv

\* A request that leaves locks alone goes on.
LEMMA KeepingStep ==
    ASSUME NEW t \in Thread, Keeping(t), elapsed \subseteq elapsed',
           \A v \in Invoice : doc'[v].lock = doc[v].lock,
           \A p \in Payment : doc'[p].items = doc[p].items,
           \A s \in Steps(t)' : s \in Steps(t) \/ Respects(s),
           \A s \in Steps(t)' : s.op = "pay" => agenda'[t] = <<s>> /\ wrote'[t] = {},
           \A v \in Invoice \cap wrote'[t] :
              /\ buf'[t][v].lock = doc[v].lock
              /\ buf'[t][v].status # doc'[v].status => ~Locked(doc[v]),
           \A p \in Payment : Completes(t, p)' =>
              \/ Completes(t, p)
              \/ \A v \in Invoice \cap doc[p].items : ~Locked(doc[v]) \/ Judges(t, v)',
           \A v \in Invoice : Judges(t, v) => Judges(t, v)' \/ ~Locked(doc[v])
    PROVE  Keeping(t)'
<1>1. \A v \in Invoice : ~Locked(doc[v]) => ~Locked(doc[v])'
  BY DEF Locked
<1>2. ASSUME NEW s \in Steps(t)' PROVE Respects(s)'
  <2>1. Respects(s)
    BY DEF Keeping
  <2>2. \A v \in Batch(s) : s.seen[v].lock = doc[v].lock => s.seen[v].lock = doc'[v].lock
    BY DEF Batch
  <2> QED
    BY <1>1, <2>1, <2>2 DEF Respects, SetsLock, Batch
<1>3. ASSUME NEW v \in Invoice \cap wrote'[t]
      PROVE  /\ buf'[t][v].lock = doc'[v].lock
             /\ buf'[t][v].status # doc'[v].status => ~Locked(doc[v])'
  BY <1>1
<1>4. ASSUME NEW p \in Payment, Completes(t, p)', NEW v \in Invoice \cap doc'[p].items
      PROVE  ~Locked(doc[v])' \/ Judges(t, v)'
  <2>1. v \in Invoice \cap doc[p].items
    OBVIOUS
  <2>2. ~Locked(doc[v]) \/ Judges(t, v)'
    BY <1>4, <2>1 DEF Keeping
  <2> QED
    BY <1>1, <2>2
<1> QED
  BY <1>2, <1>3, <1>4 DEF Keeping

\* Steps that handlers which keep locks may add.
Mild(s) == Respects(s) /\ s.op # "pay" /\ ~Sets(s, "completed")

LEMMA MildWrite ==
    ASSUME NEW D, NEW c, c.lock = "keep", c.status # "completed",
           c.status = "keep" \/ \A v \in D \cap Invoice : ~Locked(doc[v]), NEW tx
    PROVE  Mild(Write(D, c, tx))
<1> DEFINE s == Write(D, c, tx)
<1>1. s.op = "write" /\ s.on = D /\ s.to = c
  BY DEF Write, Do
<1> HIDE DEF s
<1>2. Mild(s)
  BY <1>1 DEF Mild, Respects, SetsLock, Sets
<1> QED
  BY <1>2 DEF s

LEMMA MildChanges ==
    /\ Touch.lock = "keep" /\ Numbered.lock = "keep" /\ Issued.lock = "keep"
    /\ \A x : Becomes(x).lock = "keep"
    /\ \A p : LockedBy(p).lock = p
  BY DEF Touch, Numbered, Issued, Becomes, LockedBy

LEMMA MildWrites ==
    ASSUME NEW D, NEW tx
    PROVE  /\ Mild(Write(D, Touch, tx)) /\ Mild(Write(D, Numbered, tx))
           /\ (\A v \in D \cap Invoice : ~Locked(doc[v])) =>
                /\ Mild(Write(D, Issued, tx))
                /\ \A x : x # "completed" => Mild(Write(D, Becomes(x), tx))
<1>1. Mild(Write(D, Touch, tx)) /\ Mild(Write(D, Numbered, tx))
  BY MildWrite, MildChanges, PlainChanges
<1>2. ASSUME \A v \in D \cap Invoice : ~Locked(doc[v])
      PROVE  /\ Mild(Write(D, Issued, tx))
             /\ \A x : x # "completed" => Mild(Write(D, Becomes(x), tx))
  BY <1>2, MildWrite, MildChanges, PlainChanges
<1> QED
  BY <1>1, <1>2

LEMMA MildDo ==
    ASSUME NEW op, op \notin {"write", "createPayment", "settle", "pay"}, NEW D, NEW tx
    PROVE  Mild(Do(op, D, tx))
<1> DEFINE s == Do(op, D, tx)
<1>1. s.op = op
  BY DEF Do
<1> HIDE DEF s
<1>2. Mild(s)
  BY <1>1 DEF Mild, Respects, SetsLock, Sets
<1> QED
  BY <1>2 DEF s

\* A handler of a request that leaves locks alone.
LEMMA KeepingGoes ==
    ASSUME TypeOK, NEW t \in Thread, agenda[t] # <<>>, Keeping(t), UNCHANGED elapsed,
           NEW E, Goes(t, E), Head(agenda[t]).op # "write",
           \A s \in E : Respects(s) /\ s.op # "pay",
           \A s \in E : Sets(s, "completed") => \A p \in s.on \cap Payment :
              \A v \in Invoice \cap doc[p].items :
                 \E r \in E : r.op = "makeInvoicePaid" /\ v \in r.on,
           Head(agenda[t]).op \in {"makeInvoicePaid", "settle"} =>
              \A v \in Invoice \cap Head(agenda[t]).on :
                 ~Locked(doc[v]) \/ \E r \in E : r.op = "settle" /\ v \in r.on
    PROVE  Keeping(t)'
<1> DEFINE h == Head(agenda[t])
<1>1. /\ Steps(t) = {h} \cup Rest(t) /\ Steps(t)' = E \cup Rest(t)
      /\ UNCHANGED <<doc, wrote, buf, stale>>
  BY GoesSteps
<1>2. \A s \in Rest(t) : s.op # "pay"
  <2>1. ASSUME NEW s \in Rest(t), s.op = "pay" PROVE FALSE
    <3>1. agenda[t] = <<s>>
      BY <1>1, <2>1 DEF Keeping
    <3>2. Tail(agenda[t]) = <<>>
      BY <3>1
    <3>3. Rest(t) = {}
      BY <3>2, ElemsShort DEF Rest
    <3> QED
      BY <3>3
  <2> QED
    BY <2>1
<1>3. \A s \in Steps(t)' : (s \in Steps(t) \/ Respects(s)) /\ s.op # "pay"
  BY <1>1, <1>2
<1>4. ASSUME NEW p \in Payment, Completes(t, p)'
      PROVE  \/ Completes(t, p)
             \/ \A v \in Invoice \cap doc[p].items : ~Locked(doc[v]) \/ Judges(t, v)'
  <2>1. CASE p \in wrote'[t] /\ buf'[t][p].status = "completed"
    BY <1>1, <2>1 DEF Completes
  <2>2. ASSUME NEW s \in Steps(t)', Sets(s, "completed"), p \in s.on
        PROVE  \/ Completes(t, p)
               \/ \A v \in Invoice \cap doc[p].items : Judges(t, v)'
    <3>1. CASE s \in E
      <4>1. \A v \in Invoice \cap doc[p].items :
              \E r \in Steps(t)' : r.op = "makeInvoicePaid" /\ v \in r.on
        BY <1>1, <2>2, <3>1
      <4> QED
        BY <4>1 DEF Judges
    <3>2. CASE s \in Rest(t)
      BY <1>1, <2>2, <3>2 DEF Completes
    <3> QED
      BY <1>1, <3>1, <3>2
  <2> QED
    BY <1>4, <2>1, <2>2 DEF Completes
<1>5. ASSUME NEW v \in Invoice, Judges(t, v) PROVE Judges(t, v)' \/ ~Locked(doc[v])
  <2>1. PICK s \in Steps(t) : s.op \in {"makeInvoicePaid", "settle"} /\ v \in s.on
    BY <1>5 DEF Judges
  <2>2. CASE s \in Rest(t)
    BY <1>1, <2>1, <2>2 DEF Judges
  <2>3. CASE s = h
    <3>1. ~Locked(doc[v]) \/ \E r \in Steps(t)' : r.op = "settle" /\ v \in r.on
      BY <1>1, <2>1, <2>3
    <3> QED
      BY <3>1 DEF Judges
  <2> QED
    BY <1>1, <2>1, <2>2, <2>3
<1>6. \A v \in Invoice \cap wrote'[t] :
        /\ buf'[t][v].lock = doc[v].lock
        /\ buf'[t][v].status # doc'[v].status => ~Locked(doc[v])
  BY <1>1 DEF Keeping
<1> QED
  BY <1>1, <1>3, <1>4, <1>5, <1>6, KeepingStep

LEMMA AbortKeeping ==
    ASSUME TypeOK, NEW t \in Thread, agenda'[t] = <<>>, wrote'[t] = {}
    PROVE  Keeping(t)'
<1>1. Steps(t)' = {}
  BY DEF Steps
<1> QED
  BY <1>1 DEF Keeping, Completes

LEMMA AbortEmpties ==
    ASSUME TypeOK, NEW t \in Thread, Abort(t)
    PROVE  agenda'[t] = <<>> /\ wrote'[t] = {} /\ UNCHANGED doc
  BY DEF Abort, TypeOK

\* Short agendas.
LEMMA ShortAgenda ==
    /\ \A a : Head(<<a>>) = a /\ Tail(<<a>>) = <<>>
    /\ \A a, b : Head(<<a, b>>) = a /\ Tail(<<a, b>>) = <<b>>
    /\ \A a, b, c : Head(<<a, b, c>>) = a /\ Tail(<<a, b, c>>) = <<b, c>>
    /\ \A a, b, c, d : Head(<<a, b, c, d>>) = a /\ Tail(<<a, b, c, d>>) = <<b, c, d>>
  OBVIOUS

\* Payments come and go with steps of their own; all others leave locks alone.
LEMMA OthersKeep ==
    ASSUME LockInv, NEW t \in Thread,
           Head(agenda[t]).op \notin {"write", "createPayment"}, agenda[t] # <<>>
    PROVE  Keeping(t)
<1>1. ~Paying(t)
  <2>1. ASSUME NEW v \in Invoice, NEW p \in Payment,
               LET incomes == Write(doc[v].items, LockedBy(p), FALSE)
                   invoice == Write({v}, LockedBy(p), FALSE)
                   create  == Do("createPayment", {v, p}, FALSE)
                   token   == Do("token", {p}, FALSE) IN
               \/ agenda[t] = <<incomes, invoice, create, token>>
               \/ agenda[t] = <<invoice, create, token>>
               \/ agenda[t] = <<create, token>>
        PROVE  Head(agenda[t]).op \in {"write", "createPayment"}
    BY <2>1, ShortAgenda DEF Write, Do
  <2> QED
    BY <2>1 DEF Paying
<1>2. ~Releasing(t)
  <2>1. ASSUME NEW v \in Invoice, NEW p \in Payment,
               LET close   == Write({p}, Becomes("canceled"), TRUE)
                   invoice == Write({v}, LockedBy(NoLock), TRUE)
                   incomes == Write(doc[v].items, LockedBy(NoLock), TRUE) IN
               \/ agenda[t] = <<close, invoice, incomes>>
               \/ agenda[t] = <<invoice, incomes>>
               \/ agenda[t] = <<incomes>>
        PROVE  Head(agenda[t]).op = "write"
    BY <2>1, ShortAgenda DEF Write, Do
  <2> QED
    BY <2>1 DEF Releasing
<1> QED
  BY <1>1, <1>2 DEF LockInv

LEMMA MildKeeps ==
    ASSUME TypeOK, LockInv, NEW t \in Thread, agenda[t] # <<>>, UNCHANGED elapsed,
           Head(agenda[t]).op \notin {"write", "createPayment", "makeInvoicePaid", "settle"}
    PROVE  /\ Abort(t) => Keeping(t)'
           /\ \A E : Goes(t, E) /\ (\A s \in E : Mild(s)) => Keeping(t)'
           /\ \A a : Goes(t, {a}) /\ Mild(a) => Keeping(t)'
           /\ \A a, b : Goes(t, {a, b}) /\ Mild(a) /\ Mild(b) => Keeping(t)'
<1>1. ASSUME Abort(t) PROVE Keeping(t)'
  BY <1>1, AbortEmpties, AbortKeeping
<1>2. ASSUME NEW E, Goes(t, E), \A s \in E : Mild(s)
      PROVE  Keeping(t)'
  <2>1. Keeping(t)
    BY OthersKeep
  <2> QED
    BY <1>2, <2>1, KeepingGoes DEF Mild
<1>3. ASSUME NEW a, Goes(t, {a}), Mild(a) PROVE Keeping(t)'
  BY <1>2, <1>3
<1>4. ASSUME NEW a, NEW b, Goes(t, {a, b}), Mild(a), Mild(b) PROVE Keeping(t)'
  BY <1>2, <1>4
<1> QED
  BY <1>1, <1>2, <1>3, <1>4

LEMMA InvoiceHandlersKeep ==
    ASSUME TypeOK, LedgerInv, LockInv, NEW t \in Thread,
           \/ CreateInvoice(t) \/ MakeInvoiceManually(t) \/ Issue(t) \/ MakeInvoicePend(t)
           \/ MakeInvoiceCancel(t) \/ UpdateInvoice(t) \/ RevertToPreviousState(t)
           \/ ForceUpdate(t)
    PROVE  Keeping(t)'
<1>1. /\ agenda[t] # <<>> /\ UNCHANGED elapsed
      /\ Head(agenda[t]).op \notin {"write", "createPayment", "makeInvoicePaid", "settle"}
  BY DEF CreateInvoice, MakeInvoiceManually, Issue, MakeInvoicePend, MakeInvoiceCancel,
         UpdateInvoice, RevertToPreviousState, ForceUpdate, Turn, env
<1>2. Shape(doc)
  BY DEF LedgerInv, BooksInv
<1>3. \A v \in Invoice : doc[v].items \cap Invoice = {}
  BY <1>2, NoPayments
<1>4. ASSUME NEW S \in SUBSET Income PROVE S \cap Invoice = {}
  BY BillingAssumption
<1>5. ASSUME NEW v \in Invoice, NEW tx
      PROVE  /\ \A x : x # "completed" => Mild(Write(doc[v].items, Becomes(x), tx))
             /\ ~Locked(doc[v]) => /\ Mild(Write({v}, Issued, tx))
                                   /\ \A x : x # "completed" =>
                                        Mild(Write({v}, Becomes(x), tx))
  BY <1>3, MildWrites
<1>6. CASE CreateInvoice(t)
  <2> DEFINE S == Head(agenda[t]).on
             a == Do("insert", S, S \cap Free = {})
             b == Write(S, Becomes("pending"), TRUE)
  <2>1. S \subseteq Income
    <3>1. agenda[t] # <<>> /\ Head(agenda[t]).op = "createInvoice"
      BY <1>6 DEF CreateInvoice, Turn
    <3> QED
      BY <3>1, HeadInv DEF StepInv
  <2>2. Mild(a) /\ Mild(b)
    BY <1>4, <2>1, MildDo, MildWrites
  <2>3. Abort(t) \/ Goes(t, {a, b})
    BY <1>6, CreateInvoiceGoes
  <2> HIDE DEF a, b
  <2> QED
    BY <1>1, <2>2, <2>3, MildKeeps
<1>7. CASE MakeInvoiceManually(t)
  <2>1. CASE Abort(t)
    BY <1>1, <2>1, MildKeeps
  <2>2. ASSUME NEW S \in SUBSET (Income \ Free),
               Goes(t, {Write(S, Becomes("pending"), TRUE), Do("insert", S, TRUE)})
        PROVE  Keeping(t)'
    <3> DEFINE a == Write(S, Becomes("pending"), TRUE)
               b == Do("insert", S, TRUE)
    <3>1. Mild(a)
      BY <1>4, MildWrites
    <3>2. Mild(b)
      BY MildDo
    <3>3. Goes(t, {a, b})
      BY <2>2
    <3> HIDE DEF a, b
    <3> QED
      BY <1>1, <3>1, <3>2, <3>3, MildKeeps
  <2> QED
    BY <1>7, <2>1, <2>2, MakeInvoiceManuallyGoes
<1>8. CASE Issue(t)
  <2> DEFINE tx == Head(agenda[t]).tx
  <2>1. ASSUME NEW v \in Invoice, ~Locked(doc[v])
        PROVE  \A s \in IssueSteps(v, tx) : Mild(s)
    <3>1. Mild(Write({v}, Touch, FALSE)) /\ Mild(Write({FinNo}, Touch, tx))
      BY MildWrites
    <3>2. Mild(Do("insertInvoice", {v}, tx))
      BY MildDo
    <3>3. Mild(Write(doc[v].items, Becomes("pending"), tx)) /\ Mild(Write({v}, Issued, tx))
      BY <1>5, <2>1
    <3> QED
      BY <3>1, <3>2, <3>3 DEF IssueSteps
  <2>2. CASE Abort(t)
    BY <1>1, <2>2, MildKeeps
  <2>3. ASSUME NEW v \in Invoice, NEW E \in SUBSET IssueSteps(v, tx),
               ~Locked(doc[v]), Goes(t, E)
        PROVE  Keeping(t)'
    <3>1. \A s \in E : Mild(s)
      BY <2>1, <2>3
    <3> QED
      BY <1>1, <2>3, <3>1, MildKeeps
  <2> QED
    BY <1>8, <2>2, <2>3, IssueGoes
<1>9. CASE MakeInvoicePend(t)
  <2>1. CASE Abort(t)
    BY <1>1, <2>1, MildKeeps
  <2>2. ASSUME NEW v \in Invoice, MayPend(v),
               Goes(t, {Write(doc[v].items, Becomes("pending"), FALSE),
                        Write({v}, Becomes("pending"), FALSE)})
        PROVE  Keeping(t)'
    <3>1. /\ Mild(Write(doc[v].items, Becomes("pending"), FALSE))
          /\ Mild(Write({v}, Becomes("pending"), FALSE))
      BY <1>5, <2>2 DEF MayPend
    <3> QED
      BY <1>1, <2>2, <3>1, MildKeeps
  <2> QED
    BY <1>9, <2>1, <2>2, MakeInvoicePendGoes
<1>10. CASE MakeInvoiceCancel(t)
  <2>1. CASE Abort(t)
    BY <1>1, <2>1, MildKeeps
  <2>2. ASSUME NEW v \in Invoice, ~Locked(doc[v]),
               Goes(t, {Write(doc[v].items, Becomes("unpaid"), TRUE),
                        Write({v}, Becomes("canceled"), TRUE)})
        PROVE  Keeping(t)'
    <3>1. /\ Mild(Write(doc[v].items, Becomes("unpaid"), TRUE))
          /\ Mild(Write({v}, Becomes("canceled"), TRUE))
      BY <1>5, <2>2
    <3> QED
      BY <1>1, <2>2, <3>1, MildKeeps
  <2> QED
    BY <1>10, <2>1, <2>2, MakeInvoiceCancelGoes
<1>11. CASE UpdateInvoice(t)
  <2>1. CASE Abort(t)
    BY <1>1, <2>1, MildKeeps
  <2>2. ASSUME NEW v \in Invoice, ~Locked(doc[v]),
               \/ Goes(t, {Write(doc[v].items, Becomes("pending"), TRUE),
                           Write({v}, Issued, TRUE)})
               \/ Goes(t, {Write({v}, Becomes("active"), TRUE)})
        PROVE  Keeping(t)'
    <3>1. /\ Mild(Write(doc[v].items, Becomes("pending"), TRUE))
          /\ Mild(Write({v}, Issued, TRUE)) /\ Mild(Write({v}, Becomes("active"), TRUE))
      BY <1>5, <2>2
    <3> QED
      BY <1>1, <2>2, <3>1, MildKeeps
  <2> QED
    BY <1>11, <2>1, <2>2, UpdateInvoiceGoes
<1>12. CASE RevertToPreviousState(t)
  <2>1. CASE Abort(t)
    BY <1>1, <2>1, MildKeeps
  <2>2. CASE Goes(t, {})
    BY <1>1, <2>2, MildKeeps
  <2>3. ASSUME NEW v \in Invoice, NEW rest, ~Locked(doc[v]),
               NEW E \in SUBSET {Write(doc[v].items, Becomes("pending"), TRUE),
                                 Write({v}, Becomes(PreviousStatus(v)), TRUE),
                                 Do("revertToPreviousState", rest, TRUE)}, Goes(t, E)
        PROVE  Keeping(t)'
    <3>1. PreviousStatus(v) # "completed"
      BY DEF PreviousStatus
    <3> DEFINE a == Write(doc[v].items, Becomes("pending"), TRUE)
               b == Write({v}, Becomes(PreviousStatus(v)), TRUE)
               c == Do("revertToPreviousState", rest, TRUE)
    <3>2. Mild(a) /\ Mild(b)
      BY <1>5, <2>3, <3>1
    <3>3. Mild(c)
      BY MildDo
    <3>4. E \subseteq {a, b, c}
      OBVIOUS
    <3> HIDE DEF a, b, c
    <3>5. \A s \in E : Mild(s)
      BY <3>2, <3>3, <3>4
    <3> QED
      BY <1>1, <2>3, <3>5, MildKeeps
  <2> QED
    BY <1>12, <2>1, <2>2, <2>3, RevertGoes
<1>13. CASE ForceUpdate(t)
  <2>1. CASE Abort(t)
    BY <1>1, <2>1, MildKeeps
  <2>2. ASSUME NEW gone \in SUBSET Income,
               Goes(t, {Write(gone, Becomes("unpaid"), FALSE)})
        PROVE  Keeping(t)'
    <3>1. Mild(Write(gone, Becomes("unpaid"), FALSE))
      BY <1>4, MildWrites
    <3> QED
      BY <1>1, <2>2, <3>1, MildKeeps
  <2> QED
    BY <1>13, <2>1, <2>2, ForceUpdateGoes
<1> QED
  BY <1>6, <1>7, <1>8, <1>9, <1>10, <1>11, <1>12, <1>13

LEMMA IncomeHandlersKeep ==
    ASSUME TypeOK, LockInv, NEW t \in Thread,
           CreateIncome(t) \/ UpdateIncome(t) \/ ForceUpdateIncome(t) \/ ChangeCaseType(t)
           \/ Remove(t)
    PROVE  Keeping(t)'
<1>1. /\ agenda[t] # <<>> /\ UNCHANGED elapsed
      /\ Head(agenda[t]).op \notin {"write", "createPayment", "makeInvoicePaid", "settle"}
  BY DEF CreateIncome, UpdateIncome, ForceUpdateIncome, ChangeCaseType, Remove, Turn, env
<1>2. ASSUME NEW S \in SUBSET Income
      PROVE  /\ Mild(Write(S, Touch, TRUE))
             /\ \A x : x # "completed" => Mild(Write(S, Becomes(x), TRUE))
  <2>1. S \cap Invoice = {}
    BY BillingAssumption
  <2> QED
    BY <2>1, MildWrites
<1>3. CASE Abort(t)
  BY <1>1, <1>3, MildKeeps
<1>4. ASSUME NEW S \in SUBSET Income, Goes(t, {Write(S, Touch, TRUE)})
      PROVE  Keeping(t)'
  BY <1>1, <1>2, <1>4, MildKeeps
<1>5. ASSUME NEW i \in Income, NEW x \in IncomeStatus,
             Goes(t, {Write({i}, Becomes(x), TRUE)})
      PROVE  Keeping(t)'
  <2>1. Mild(Write({i}, Becomes(x), TRUE))
    BY <1>2 DEF IncomeStatus
  <2> QED
    BY <1>1, <1>5, <2>1, MildKeeps
<1>6. "canceled" \in IncomeStatus
  BY DEF IncomeStatus
<1> QED
  BY <1>3, <1>4, <1>5, <1>6, IncomeGoes

LEMMA SettlementKeeps ==
    ASSUME TypeOK, LedgerInv, LockInv, NEW t \in Thread,
           MakeInvoicePaid(t) \/ SettleNext(t) \/ SettleRest(t)
    PROVE  Keeping(t)'
<1> DEFINE h == Head(agenda[t])
<1>1. /\ agenda[t] # <<>> /\ UNCHANGED elapsed
      /\ h.op \in {"makeInvoicePaid", "settle"}
  BY DEF MakeInvoicePaid, SettleNext, SettleRest, Turn, env
<1>2. Keeping(t)
  BY <1>1, OthersKeep
<1>3. Respects(h)
  BY <1>1, <1>2, HeadInv DEF Keeping
<1>4. CASE MakeInvoicePaid(t)
  <2> DEFINE V == h.on \cap Invoice
             s == SettleOf(V)
  <2>1. Goes(t, {s})
    BY <1>4, MakeInvoicePaidGoes
  <2>2. /\ s.op = "settle" /\ s.on = V
        /\ s.seen = [v \in Invoice |-> IF v \in V THEN doc[v] ELSE Blank]
    BY DEF SettleOf, Do
  <2> HIDE DEF s
  <2>3. \A v \in Batch(s) : s.seen[v].lock = doc[v].lock
    BY <2>2 DEF Batch, Blank
  <2>4. Respects(s) /\ ~Sets(s, "completed")
    BY <2>2, <2>3 DEF Respects, SetsLock, Sets
  <2>5. \A v \in Invoice \cap h.on : \E r \in {s} : r.op = "settle" /\ v \in r.on
    BY <2>2
  <2> QED
    BY <1>1, <1>2, <2>1, <2>2, <2>4, <2>5, KeepingGoes
<1>5. CASE SettleNext(t)
  <2>1. CASE Abort(t)
    BY <2>1, AbortEmpties, AbortKeeping
  <2>2. ASSUME NEW v \in Invoice, NEW N \in SUBSET NumberSteps(v),
               v \in Batch(h), ~Locked(h.seen[v]), Goes(t, N \cup PaidSteps(h, v))
        PROVE  Keeping(t)'
    <3> DEFINE a == Do("issue", {v}, FALSE)
               b == Write({v}, Numbered, FALSE)
               c == Write(doc[v].items, Becomes("paid"), TRUE)
               d == Write({v}, Becomes("paid"), TRUE)
               g == [h EXCEPT !.on = @ \ {v}]
               E == N \cup PaidSteps(h, v)
    <3>1. h.op = "settle" /\ h \in Step
      BY <1>5, HeadType DEF SettleNext
    <3>2. ~Locked(doc[v])
      <4>1. h.seen[v].lock = doc[v].lock
        BY <1>3, <2>2, <3>1 DEF Respects
      <4> QED
        BY <2>2, <4>1 DEF Locked
    <3>3. Mild(a) /\ Mild(b) /\ Mild(d)
      BY <3>2, MildDo, MildWrites
    <3>4. Mild(c)
      <4>1. doc[v].items \cap Invoice = {}
        BY NoPayments DEF LedgerInv, BooksInv
      <4> QED
        BY <4>1, MildWrites
    <3>5. g.op = "settle" /\ g.seen = h.seen /\ g.on = h.on \ {v}
      BY <3>1 DEF Step
    <3>6. E \subseteq {a, b, c, d, g} /\ g \in E
      BY DEF NumberSteps, PaidSteps
    <3> HIDE DEF a, b, c, d, g
    <3>7. Mild(g)
      BY <1>3, <3>1, <3>5 DEF Mild, Respects, SetsLock, Sets, Batch
    <3>8. \A s \in E : Mild(s)
      BY <3>3, <3>4, <3>6, <3>7
    <3>9. \A w \in Invoice \cap h.on :
            ~Locked(doc[w]) \/ \E r \in E : r.op = "settle" /\ w \in r.on
      BY <3>2, <3>5, <3>6
    <3>10. \A s \in E : Respects(s) /\ s.op # "pay" /\ ~Sets(s, "completed")
      BY <3>8 DEF Mild
    <3>11. Goes(t, E)
      BY <2>2
    <3> HIDE DEF E
    <3> QED
      BY <1>1, <1>2, <3>1, <3>9, <3>10, <3>11, KeepingGoes
  <2> QED
    BY <1>5, <2>1, <2>2, SettleNextGoes
<1>6. CASE SettleRest(t)
  <2> DEFINE B == Batch(h)
             a == Do("voucher", B, TRUE)
             b == Write(B, Touch, TRUE)
  <2>1. h.on = {} /\ Goes(t, {a, b})
    BY <1>6, SettleRestGoes
  <2>2. Mild(a) /\ Mild(b)
    BY MildDo, MildWrites
  <2> HIDE DEF a, b
  <2>3. \A s \in {a, b} : Respects(s) /\ s.op # "pay" /\ ~Sets(s, "completed")
    BY <2>2 DEF Mild
  <2>4. Invoice \cap h.on = {}
    BY <2>1
  <2> QED
    BY <1>1, <1>2, <2>1, <2>3, <2>4, KeepingGoes
<1> QED
  BY <1>4, <1>5, <1>6

LEMMA ConfirmPaymentKeeps ==
    ASSUME TypeOK, LockInv, NEW t \in Thread, ConfirmPayment(t)
    PROVE  Keeping(t)'
<1>1. /\ agenda[t] # <<>> /\ UNCHANGED elapsed /\ Head(agenda[t]).op = "confirm"
  BY DEF ConfirmPayment, Turn
<1>2. Keeping(t)
  BY <1>1, OthersKeep
<1>3. CASE Abort(t)
  BY <1>3, AbortEmpties, AbortKeeping
<1>4. ASSUME NEW p \in Payment,
             Goes(t, {Write({p}, Becomes("completed"), TRUE),
                      Do("makeInvoicePaid", InvoiceOf(p), TRUE)})
      PROVE  Keeping(t)'
  <2> DEFINE a == Write({p}, Becomes("completed"), TRUE)
             b == Do("makeInvoicePaid", InvoiceOf(p), TRUE)
  <2>1. /\ a.op = "write" /\ a.on = {p} /\ a.to.lock = "keep"
        /\ b.op = "makeInvoicePaid" /\ b.on = doc[p].items
    BY MildChanges DEF Write, Do, InvoiceOf
  <2>2. Goes(t, {a, b})
    BY <1>4
  <2> HIDE DEF a, b
  <2>3. {p} \cap Invoice = {}
    BY BillingAssumption
  <2>4. Respects(a) /\ Respects(b) /\ ~Sets(b, "completed")
    BY <2>1, <2>3 DEF Respects, SetsLock, Sets
  <2>5. \A s \in {a, b} : Respects(s) /\ s.op # "pay"
    BY <2>1, <2>4
  <2>6. \A s \in {a, b} : Sets(s, "completed") => \A q \in s.on \cap Payment :
           \A v \in Invoice \cap doc[q].items :
              \E r \in {a, b} : r.op = "makeInvoicePaid" /\ v \in r.on
    BY <2>1, <2>4
  <2> QED
    BY <1>1, <1>2, <2>2, <2>5, <2>6, KeepingGoes
<1> QED
  BY <1>3, <1>4, ConfirmPaymentGoes

LEMMA QuietHandlersKeep ==
    ASSUME TypeOK, LockInv, NEW t \in Thread,
           InsertInvoice(t) \/ Voucher(t) \/ GetBankToken(t)
    PROVE  Keeping(t)'
<1>1. /\ agenda[t] # <<>> /\ UNCHANGED elapsed
      /\ Head(agenda[t]).op \notin {"write", "createPayment", "makeInvoicePaid", "settle"}
  BY DEF InsertInvoice, Voucher, GetBankToken, Turn, env
<1>2. Goes(t, {})
  BY NothingGoes
<1> QED
  BY <1>1, <1>2, MildKeeps

LEMMA PairsConcat ==
    ASSUME NEW a \in Step, NEW b \in Step, NEW c \in Step, NEW d \in Step
    PROVE  <<a, b>> \o <<c, d>> = <<a, b, c, d>>
<1> DEFINE q == <<a, b>>
           r == <<c, d>>
           w == <<a, b, c, d>>
<1>1. q \in Seq(Step) /\ r \in Seq(Step) /\ w \in Seq(Step)
  OBVIOUS
<1>2. Len(q) = 2 /\ Len(r) = 2 /\ Len(w) = 4
  OBVIOUS
<1>3. /\ q[1] = a /\ q[2] = b /\ r[1] = c /\ r[2] = d
      /\ w[1] = a /\ w[2] = b /\ w[3] = c /\ w[4] = d
  OBVIOUS
<1> HIDE DEF q, r, w
<1>4. q \o r \in Seq(Step) /\ Len(q \o r) = 4
  <2>1. q \o r \in Seq(Step) /\ Len(q \o r) = Len(q) + Len(r)
    BY <1>1, ConcatProperties
  <2> QED
    BY <1>2, <2>1
<1>5. \A i \in 1..4 : (q \o r)[i] = w[i]
  BY <1>1, <1>2, <1>3, ConcatProperties
<1> QED
  BY <1>1, <1>2, <1>4, <1>5, SeqEqual DEF q, r, w

\* A step alone on the agenda gives way to the steps it asks for.
LEMMA AloneGoes ==
    ASSUME TypeOK, NEW t \in Thread, NEW s, agenda[t] = <<s>>, NEW new \in Seq(Step),
           Then(t, new)
    PROVE  agenda'[t] = new
<1>1. Tail(agenda[t]) = <<>>
  BY ShortAgenda
<1>2. agenda'[t] = new \o <<>>
  BY <1>1 DEF Then, TypeOK
<1> QED
  BY <1>2, ConcatEmptySeq

LEMMA VerifyKeeps ==
    ASSUME TypeOK, LedgerInv, LockInv, NEW t \in Thread, Verify(t)
    PROVE  Keeping(t)' \/ Releasing(t)'
<1>1. /\ agenda[t] # <<>> /\ Head(agenda[t]).op = "verify"
      /\ UNCHANGED <<elapsed, doc, wrote, bank>>
  BY DEF Verify, Turn, env, txn
<1>2. agenda[t] = <<Head(agenda[t])>> /\ wrote[t] = {}
  BY <1>1, HeadInv DEF RequestInv, AgendaInv, Alone
<1>3. ASSUME NEW p \in Payment, Goes(t, {Do("confirm", {p}, TRUE)})
      PROVE  Keeping(t)'
  <2>1. Mild(Do("confirm", {p}, TRUE))
    BY MildDo
  <2> QED
    BY <1>1, <1>3, <2>1, MildKeeps
<1>4. ASSUME NEW p \in Payment, NEW v \in Invoice \cap InvoiceOf(p),
             doc[p].status # "none", bank[p] = "closed",
             LET new == <<Write({p}, Becomes("canceled"), TRUE),
                          Write({v}, LockedBy(NoLock), TRUE),
                          Write(doc[v].items, LockedBy(NoLock), TRUE)>> IN
             new \in Seq(Step) /\ Then(t, new)
      PROVE  Releasing(t)'
  <2>1. agenda'[t] = <<Write({p}, Becomes("canceled"), TRUE),
                       Write({v}, LockedBy(NoLock), TRUE),
                       Write(doc[v].items, LockedBy(NoLock), TRUE)>>
    BY <1>2, <1>4, AloneGoes
  <2>2. doc[p].items = {v}
    BY <1>4 DEF LockInv, LocksInv, Created, InvoiceOf
  <2>3. /\ doc' = doc /\ bank'[p] = "closed" /\ wrote'[t] = {}
        /\ Created(p)' /\ doc'[p].items = {v}
    BY <1>1, <1>2, <1>4, <2>2 DEF Created
  <2> QED
    BY <2>1, <2>3 DEF Releasing
<1> QED
  BY <1>3, <1>4, VerifyGoes, Zenon

LEMMA PayKeeps ==
    ASSUME TypeOK, LedgerInv, LockInv, NEW t \in Thread, Pay(t)
    PROVE  Keeping(t)' \/ Paying(t)'
<1>1. PICK v \in Invoice, p \in Payment :
        LET ok == doc[v].status \in {"active", "issued"} /\ ~Locked(doc[v]) IN
        Guarded(t, ok, LockBoth(v, p) \o <<Do("createPayment", {v, p}, FALSE),
                                           Do("token", {p}, FALSE)>>)
  BY DEF Pay
<1> DEFINE ok == doc[v].status \in {"active", "issued"} /\ ~Locked(doc[v])
           a == Write(doc[v].items, LockedBy(p), FALSE)
           b == Write({v}, LockedBy(p), FALSE)
           c == Do("createPayment", {v, p}, FALSE)
           d == Do("token", {p}, FALSE)
           q == <<a, b>>
           r == <<c, d>>
<1>2. agenda[t] # <<>> /\ Head(agenda[t]).op = "pay" /\ UNCHANGED elapsed
  BY DEF Pay, Turn
<1>3. Keeping(t)
  BY <1>2, OthersKeep
<1>4. agenda[t] = <<Head(agenda[t])>> /\ wrote[t] = {}
  BY <1>2, <1>3, HeadInv DEF Keeping
<1>5. a \in Step /\ b \in Step
  BY WriteType, DocSets, DocItems
<1>6. c \in Step /\ d \in Step
  BY DoType, DocSets DEF StepOp
<1>7. Guarded(t, ok, q \o r)
  BY <1>1 DEF LockBoth
<1>8. CASE ~ok
  BY <1>7, <1>8, AbortEmpties, AbortKeeping DEF Guarded
<1>9. CASE ok
  <2>1. Then(t, q \o r) /\ UNCHANGED <<doc, wrote, elapsed>>
    BY <1>2, <1>7, <1>9 DEF Guarded, txn
  <2>2. q \o r \in Seq(Step) /\ q \o r = <<a, b, c, d>>
    <3> HIDE DEF a, b, c, d
    <3>1. q \in Seq(Step) /\ r \in Seq(Step)
      BY <1>5, <1>6, Agendas
    <3>2. q \o r \in Seq(Step)
      BY <3>1, Agendas
    <3>3. q \o r = <<a, b, c, d>>
      BY <1>5, <1>6, PairsConcat
    <3> QED
      BY <3>2, <3>3
  <2>3. agenda'[t] = <<a, b, c, d>>
    <3> HIDE DEF q, r
    <3> QED
      BY <1>4, <2>1, <2>2, AloneGoes
  <2>4. /\ doc' = doc /\ wrote'[t] = {} /\ Created(v)' /\ ~Locked(doc[v])'
    BY <1>4, <1>9, <2>1 DEF Created, Locked
  <2> QED
    BY <2>3, <2>4 DEF Paying
<1> QED
  BY <1>8, <1>9

LEMMA ChangedParts ==
    ASSUME NEW d \in Document, NEW c \in Change
    PROVE  /\ Changed(d, c).status = IF c.status = "keep" THEN d.status ELSE c.status
           /\ Changed(d, c).lock = IF c.lock = "keep" THEN d.lock ELSE c.lock
           /\ Changed(d, c).items = d.items
  BY DEF Changed, Document

\* Requests behind a payment step, or the step itself alone.
LEMMA PayAlone ==
    ASSUME TypeOK, NEW t \in Thread, agenda[t] # <<>>, Keeping(t), Head(agenda[t]).op # "pay"
    PROVE  \A s \in Steps(t) : s.op # "pay"
<1>1. ASSUME NEW s \in Steps(t), s.op = "pay" PROVE FALSE
  <2>1. agenda[t] = <<s>>
    BY <1>1 DEF Keeping
  <2>2. Head(agenda[t]) = s
    BY <2>1
  <2> QED
    BY <1>1, <2>2
<1> QED
  BY <1>1

LEMMA PopSteps ==
    ASSUME TypeOK, NEW t \in Thread, agenda[t] # <<>>, Then(t, <<>>)
    PROVE  /\ Steps(t) = {Head(agenda[t])} \cup Steps(t)'
           /\ agenda'[t] = Tail(agenda[t])
<1>1. <<>> \in Seq(Step) /\ Elems(<<>>) = {}
  BY Agendas, ElemsShort
<1>2. Steps(t) = {Head(agenda[t])} \cup Rest(t) /\ Steps(t)' = {} \cup Rest(t)
  BY <1>1, PushSteps
<1>3. agenda[t] \in Seq(Step) /\ Tail(agenda[t]) \in Seq(Step)
  BY StepTail DEF TypeOK
<1>4. agenda'[t] = <<>> \o Tail(agenda[t])
  BY DEF Then, TypeOK
<1>5. agenda'[t] = Tail(agenda[t])
  BY <1>3, <1>4, ConcatEmptySeq
<1> QED
  BY <1>2, <1>5

LEMMA WriteDirectDocs ==
    ASSUME TypeOK, LedgerInv, NEW t \in Thread, WriteDirect(t)
    PROVE  LET s == Head(agenda[t]) IN
           /\ agenda[t] # <<>> /\ s \in Steps(t) /\ s.op = "write" /\ s.tx = FALSE
           /\ s.on \in SUBSET Doc /\ s.on \cap wrote[t] = {} /\ s.on \cap Payment = {}
           /\ Then(t, <<>>)
           /\ UNCHANGED <<wrote, buf, bank, elapsed, dropped>>
           /\ \A d \in Doc \ s.on : doc'[d] = doc[d]
           /\ \A d \in s.on :
                /\ doc'[d].status = IF s.to.status = "keep" THEN doc[d].status ELSE s.to.status
                /\ doc'[d].lock = IF s.to.lock = "keep" THEN doc[d].lock ELSE s.to.lock
                /\ doc'[d].items = doc[d].items
           /\ \A d \in Doc : doc[d].status # "none" => doc'[d].status # "none"
<1> DEFINE s == Head(agenda[t])
<1>1. /\ agenda[t] # <<>> /\ s.op = "write" /\ s.on \in SUBSET Doc /\ s.to \in Change
      /\ s.tx \in BOOLEAN
  BY HeadType DEF WriteDirect
<1>2. /\ ~s.tx /\ (\A u \in Thread : wrote[u] \cap s.on = {})
      /\ doc' = [d \in Doc |-> IF d \in s.on THEN Changed(doc[d], s.to) ELSE doc[d]]
      /\ Then(t, <<>>) /\ UNCHANGED <<wrote, buf, bank, elapsed, dropped>>
  BY DEF WriteDirect, env
<1>3. s \in Steps(t) /\ StepInv(s)
  BY <1>1, HeadInv
<1>4. s.to.status # "none" /\ s.on \cap Payment = {}
  BY <1>1, <1>2, <1>3 DEF StepInv
<1>5. \A d \in Doc : doc[d] \in Document
  BY DEF TypeOK
<1>6. ASSUME NEW d \in s.on
      PROVE  /\ doc'[d].status = IF s.to.status = "keep" THEN doc[d].status ELSE s.to.status
             /\ doc'[d].lock = IF s.to.lock = "keep" THEN doc[d].lock ELSE s.to.lock
             /\ doc'[d].items = doc[d].items
  <2>1. d \in Doc /\ doc'[d] = Changed(doc[d], s.to)
    BY <1>1, <1>2
  <2> QED
    BY <1>1, <1>5, <2>1, ChangedParts
<1>7. \A d \in Doc \ s.on : doc'[d] = doc[d]
  BY <1>2
<1>8. \A d \in Doc : doc[d].status # "none" => doc'[d].status # "none"
  BY <1>4, <1>6, <1>7
<1> QED
  BY <1>1, <1>2, <1>3, <1>4, <1>6, <1>7, <1>8

LEMMA WriteDirectKeeping ==
    ASSUME TypeOK, LedgerInv, LocksInv, NEW t \in Thread, Keeping(t), WriteDirect(t)
    PROVE  LocksInv' /\ Keeping(t)'
<1> DEFINE s == Head(agenda[t])
<1>1. /\ agenda[t] # <<>> /\ s \in Steps(t) /\ s.op = "write"
      /\ s.on \in SUBSET Doc /\ s.on \cap wrote[t] = {} /\ s.on \cap Payment = {}
      /\ Then(t, <<>>)
      /\ UNCHANGED <<wrote, buf, bank, elapsed>>
      /\ \A d \in Doc \ s.on : doc'[d] = doc[d]
      /\ \A d \in s.on : /\ s.to.lock = "keep" => doc'[d].lock = doc[d].lock
                         /\ doc'[d].items = doc[d].items
      /\ \A d \in Doc : doc[d].status # "none" => doc'[d].status # "none"
  BY WriteDirectDocs
<1>2. s.to.lock = "keep"
  BY <1>1 DEF Keeping, Respects, SetsLock
<1>3. \A v \in Invoice : doc'[v].lock = doc[v].lock /\ (Created(v) => Created(v)')
  BY <1>1, <1>2, DocSets DEF Created
<1>4. \A p \in Payment : doc'[p] = doc[p]
  BY <1>1, DocSets
<1>5. Steps(t) = {s} \cup Steps(t)'
  BY <1>1, PopSteps
<1>6. \A x \in Steps(t)' : x.op # "pay"
  BY <1>1, <1>5, PayAlone
<1>7. \A v \in Invoice \cap wrote'[t] :
        /\ buf'[t][v].lock = doc[v].lock
        /\ buf'[t][v].status # doc'[v].status => ~Locked(doc[v])
  <2>1. \A v \in Invoice \cap wrote[t] : doc'[v] = doc[v]
    BY <1>1, DocSets
  <2> QED
    BY <1>1, <2>1 DEF Keeping
<1>8. \A p \in Payment : Completes(t, p)' => Completes(t, p)
  BY <1>1, <1>5 DEF Completes, Sets
<1>9. \A v \in Invoice : Judges(t, v) => Judges(t, v)'
  BY <1>1, <1>5 DEF Judges
<1>10. LocksInv'
  BY <1>1, <1>3, <1>4, LocksKept
<1>11. Keeping(t)'
  BY <1>1, <1>3, <1>4, <1>5, <1>6, <1>7, <1>8, <1>9, KeepingStep
<1> QED
  BY <1>10, <1>11

\* The lock of an invoice that is not locked is set.
LEMMA LockSet ==
    ASSUME TypeOK, LocksInv, NEW v \in Invoice, NEW p \in Payment,
           ~Locked(doc[v]), Created(v), UNCHANGED <<bank, elapsed>>,
           doc'[v].lock = p, \A w \in Invoice \ {v} : doc'[w] = doc[w],
           doc'[v].status = doc[v].status,
           \A q \in Payment : doc'[q] = doc[q]
    PROVE  LocksInv'
<1>1. \A q \in Payment : Shared(q)' <=> Shared(q)
  BY DEF Shared
<1>2. \A w \in Invoice : Created(w)' <=> Created(w)
  BY DEF Created
<1>3. \A w \in Invoice : ~Created(w)' => doc'[w].lock = NoLock
  BY <1>2 DEF LocksInv
<1>4. ASSUME NEW q \in Payment, Created(q)'
      PROVE  \E w \in Invoice : Created(w)' /\ doc'[q].items = {w}
  BY <1>2, <1>4 DEF LocksInv, Created
<1>5. \A q \in Payment : doc'[q].status = "canceled" => bank'[q] = "closed"
  BY DEF LocksInv
<1>6. ASSUME NEW q \in Payment, doc'[q].status \notin {"none", "canceled"},
             q \notin elapsed, ~Shared(q)
      PROVE  \A w \in Invoice \cap doc'[q].items : doc'[w].lock = q
  <2>1. \A w \in Invoice \cap doc[q].items : doc[w].lock = q
    BY <1>6 DEF LocksInv
  <2>2. v \notin doc[q].items
    <3>1. ASSUME v \in doc[q].items PROVE FALSE
      <4>1. doc[v].lock = q
        BY <2>1, <3>1
      <4> QED
        BY <1>6, <4>1 DEF Locked
    <3> QED
      BY <3>1
  <2> QED
    BY <2>1, <2>2
<1>7. CompletesLate'
  BY DEF LocksInv, CompletesLate
<1> QED
  BY <1>1, <1>3, <1>4, <1>5, <1>6, <1>7 DEF LocksInv

LEMMA WriteDirectPaying ==
    ASSUME TypeOK, LedgerInv, LocksInv, NEW t \in Thread, Paying(t), WriteDirect(t)
    PROVE  LocksInv' /\ Paying(t)'
<1> DEFINE s == Head(agenda[t])
<1>1. PICK v \in Invoice, p \in Payment :
        LET incomes == Write(doc[v].items, LockedBy(p), FALSE)
            invoice == Write({v}, LockedBy(p), FALSE)
            create  == Do("createPayment", {v, p}, FALSE)
            token   == Do("token", {p}, FALSE) IN
        /\ Created(v)
        /\ wrote[t] = {}
        /\ \/ /\ agenda[t] \in {<<incomes, invoice, create, token>>,
                                <<invoice, create, token>>}
              /\ ~Locked(doc[v])
           \/ /\ agenda[t] = <<create, token>>
              /\ doc[v].lock = p
  BY DEF Paying
<1> DEFINE incomes == Write(doc[v].items, LockedBy(p), FALSE)
           invoice == Write({v}, LockedBy(p), FALSE)
           create  == Do("createPayment", {v, p}, FALSE)
           token   == Do("token", {p}, FALSE)
<1>2. /\ agenda[t] # <<>> /\ s.op = "write" /\ Then(t, <<>>)
      /\ UNCHANGED <<wrote, buf, bank, elapsed>>
      /\ s.on \cap Payment = {}
      /\ \A d \in Doc \ s.on : doc'[d] = doc[d]
      /\ \A d \in s.on :
           /\ doc'[d].status = IF s.to.status = "keep" THEN doc[d].status ELSE s.to.status
           /\ doc'[d].lock = IF s.to.lock = "keep" THEN doc[d].lock ELSE s.to.lock
  BY WriteDirectDocs
<1>3. agenda'[t] = Tail(agenda[t])
  BY <1>2, PopSteps
<1>4. \A q \in Payment : doc'[q] = doc[q]
  BY <1>2, DocSets
<1>5. /\ incomes.on = doc[v].items /\ incomes.to.status = "keep"
      /\ invoice.on = {v} /\ invoice.to.status = "keep" /\ invoice.to.lock = p
      /\ create.op = "createPayment"
  BY MildChanges, PlainChanges DEF Write, Do
<1>6. Created(v) /\ wrote[t] = {}
  BY <1>1
<1>7. \/ agenda[t] = <<incomes, invoice, create, token>> /\ ~Locked(doc[v])
      \/ agenda[t] = <<invoice, create, token>> /\ ~Locked(doc[v])
      \/ agenda[t] = <<create, token>>
  BY <1>1
<1>8. doc[v].items \cap Invoice = {}
  BY NoPayments DEF LedgerInv, BooksInv
<1>9. p # "keep"
  BY BillingAssumption
<1> HIDE DEF incomes
<1>10. CASE agenda[t] = <<incomes, invoice, create, token>> /\ ~Locked(doc[v])
  <2> HIDE DEF invoice, create, token
  <2>1. s = incomes /\ agenda'[t] = <<invoice, create, token>>
    BY <1>3, <1>10, ShortAgenda
  <2>2. \A w \in Invoice : doc'[w] = doc[w]
    BY <1>2, <1>5, <1>8, <2>1, DocSets
  <2>3. LocksInv'
    BY <1>2, <1>4, <2>2, LocksKept DEF Created
  <2>4. Created(v)' /\ wrote'[t] = {} /\ ~Locked(doc[v])'
    BY <1>2, <1>6, <1>10, <2>2 DEF Created, Locked
  <2>5. Paying(t)'
    BY <2>1, <2>4 DEF Paying, invoice, create, token
  <2> QED
    BY <2>3, <2>5
<1>11. CASE agenda[t] = <<invoice, create, token>> /\ ~Locked(doc[v])
  <2> HIDE DEF invoice, create, token
  <2>1. s = invoice /\ agenda'[t] = <<create, token>>
    BY <1>3, <1>11, ShortAgenda
  <2>2. \A w \in Invoice \ {v} : doc'[w] = doc[w]
    BY <1>2, <1>5, <2>1, DocSets
  <2>3. doc'[v].status = doc[v].status
    BY <1>2, <1>5, <2>1
  <2>4. doc'[v].lock = p
    BY <1>2, <1>5, <1>9, <2>1
  <2>5. LocksInv'
    BY <1>2, <1>4, <1>6, <1>11, <2>2, <2>3, <2>4, LockSet
  <2>6. Created(v)' /\ wrote'[t] = {}
    BY <1>2, <1>6, <2>3 DEF Created
  <2>7. Paying(t)'
    BY <2>1, <2>4, <2>6 DEF Paying, create, token
  <2> QED
    BY <2>5, <2>7
<1>12. CASE agenda[t] = <<create, token>>
  <2> HIDE DEF invoice, create, token
  <2>1. s = create
    BY <1>12, ShortAgenda
  <2> QED
    BY <1>2, <1>5, <2>1
<1> QED
  BY <1>7, <1>10, <1>11, <1>12

LEMMA WriteDirectLocks ==
    ASSUME TypeOK, LedgerInv, LockInv, NEW t \in Thread, WriteDirect(t)
    PROVE  LocksInv' /\ (Keeping(t)' \/ Paying(t)')
<1>1. LocksInv /\ (Keeping(t) \/ Paying(t) \/ Releasing(t))
  BY DEF LockInv
<1>2. ~Releasing(t)
  <2>1. /\ agenda[t] # <<>> /\ Head(agenda[t]).op = "write" /\ Head(agenda[t]).tx = FALSE
    BY WriteDirectDocs
  <2>2. ASSUME NEW v \in Invoice, NEW p \in Payment,
               LET close   == Write({p}, Becomes("canceled"), TRUE)
                   invoice == Write({v}, LockedBy(NoLock), TRUE)
                   incomes == Write(doc[v].items, LockedBy(NoLock), TRUE) IN
               \/ agenda[t] = <<close, invoice, incomes>>
               \/ agenda[t] = <<invoice, incomes>>
               \/ agenda[t] = <<incomes>>
        PROVE  Head(agenda[t]).tx = TRUE
    BY <2>2, ShortAgenda DEF Write, Do
  <2> QED
    BY <2>1, <2>2 DEF Releasing
<1> QED
  BY <1>1, <1>2, WriteDirectKeeping, WriteDirectPaying

\* The payment comes into being when its invoice is locked for it.
LEMMA CreatePaymentLocks ==
    ASSUME TypeOK, LedgerInv, LockInv, NEW t \in Thread, CreatePayment(t)
    PROVE  LocksInv' /\ Keeping(t)'
<1> DEFINE s == Head(agenda[t])
<1>1. agenda[t] # <<>> /\ s.op = "createPayment" /\ s \in Steps(t)
  <2>1. agenda[t] # <<>> /\ s.op = "createPayment"
    BY DEF CreatePayment, Turn
  <2> QED
    BY <2>1, HeadInv
<1>2. ~Keeping(t)
  BY <1>1 DEF Keeping, Respects
<1>3. ~Releasing(t)
  <2>1. ASSUME NEW v \in Invoice, NEW p \in Payment,
               LET close   == Write({p}, Becomes("canceled"), TRUE)
                   invoice == Write({v}, LockedBy(NoLock), TRUE)
                   incomes == Write(doc[v].items, LockedBy(NoLock), TRUE) IN
               \/ agenda[t] = <<close, invoice, incomes>>
               \/ agenda[t] = <<invoice, incomes>>
               \/ agenda[t] = <<incomes>>
        PROVE  Head(agenda[t]).op = "write"
    BY <2>1, ShortAgenda DEF Write, Do
  <2> QED
    BY <1>1, <2>1 DEF Releasing
<1>4. PICK v \in Invoice, p \in Payment :
        LET incomes == Write(doc[v].items, LockedBy(p), FALSE)
            invoice == Write({v}, LockedBy(p), FALSE)
            create  == Do("createPayment", {v, p}, FALSE)
            token   == Do("token", {p}, FALSE) IN
        /\ Created(v)
        /\ wrote[t] = {}
        /\ \/ agenda[t] \in {<<incomes, invoice, create, token>>,
                             <<invoice, create, token>>}
           \/ agenda[t] = <<create, token>> /\ doc[v].lock = p
  BY <1>2, <1>3 DEF LockInv, Paying
<1> DEFINE incomes == Write(doc[v].items, LockedBy(p), FALSE)
           invoice == Write({v}, LockedBy(p), FALSE)
           create  == Do("createPayment", {v, p}, FALSE)
           token   == Do("token", {p}, FALSE)
<1>5. /\ incomes.op = "write" /\ invoice.op = "write"
      /\ create.on = {v, p} /\ token.op = "token"
  BY DEF Write, Do
<1>6. \/ agenda[t] = <<incomes, invoice, create, token>>
      \/ agenda[t] = <<invoice, create, token>>
      \/ agenda[t] = <<create, token>> /\ doc[v].lock = p
  BY <1>4
<1>7. Mild(token)
  BY MildDo
<1> HIDE DEF incomes, invoice, create, token
<1>8. agenda[t] = <<create, token>> /\ doc[v].lock = p /\ s = create
  BY <1>1, <1>5, <1>6, ShortAgenda
<1>9. /\ doc[p].status = "none"
      /\ doc' = [doc EXCEPT ![p] = [Blank EXCEPT !.status = "progressing", !.items = {v}]]
      /\ Then(t, <<>>) /\ UNCHANGED <<wrote, buf, bank, elapsed>>
  <2>1. PICK w \in s.on \cap Invoice, q \in s.on \cap Payment :
          /\ doc[q].status = "none"
          /\ doc' = [doc EXCEPT ![q] = [Blank EXCEPT !.status = "progressing",
                                                     !.items = {w}]]
    BY DEF CreatePayment
  <2>2. w = v /\ q = p
    BY <1>5, <1>8, <2>1, BillingAssumption
  <2>3. Then(t, <<>>) /\ UNCHANGED <<wrote, buf, bank, elapsed>>
    BY DEF CreatePayment, env
  <2> QED
    BY <2>1, <2>2, <2>3
<1>10. agenda'[t] = <<token>> /\ Steps(t)' = {token}
  <2>1. agenda'[t] = <<token>>
    <3>1. agenda'[t] = Tail(agenda[t])
      BY <1>1, <1>9, PopSteps
    <3> QED
      BY <1>8, <3>1, ShortAgenda
  <2> QED
    BY <2>1, ElemsShort DEF Steps, Elems
<1>11. Keeping(t)'
  <2>1. wrote'[t] = {}
    BY <1>4, <1>9
  <2>2. Respects(token)'
    BY <1>5 DEF Respects, SetsLock
  <2>3. \A q \in Payment : ~Completes(t, q)'
    BY <1>5, <1>10, <2>1 DEF Completes, Sets
  <2> QED
    BY <1>5, <1>10, <2>1, <2>2, <2>3 DEF Keeping
<1>12. /\ doc'[p].status = "progressing" /\ doc'[p].items = {v}
       /\ \A d \in Doc \ {p} : doc'[d] = doc[d]
  BY <1>9, DocSets DEF TypeOK, Blank
<1>13. \A w \in Invoice : doc'[w] = doc[w]
  BY <1>12, DocSets, BillingAssumption
<1>14. \A q \in Payment \ {p} : doc'[q] = doc[q]
  BY <1>12, DocSets
<1>15. LocksInv /\ Created(v)
  BY <1>4 DEF LockInv
<1>16. ASSUME NEW q \in Payment \ {p}, Created(q), Shared(q) PROVE Shared(q)'
  <2>1. PICK x \in Payment \ {q} : doc[x].items = doc[q].items
    BY <1>16 DEF Shared
  <2>2. doc[q].items # {}
    BY <1>15, <1>16 DEF LocksInv
  <2>3. doc[p].items = {}
    BY <1>9, DocSets DEF LedgerInv, BooksInv, Shape
  <2>4. doc'[x] = doc[x] /\ doc'[q] = doc[q]
    BY <1>14, <2>1, <2>2, <2>3
  <2> QED
    BY <2>1, <2>4 DEF Shared
<1>17. LocksInv'
  <2>1. \A w \in Invoice : ~Created(w)' => doc'[w].lock = NoLock
    BY <1>13, <1>15 DEF LocksInv, Created
  <2>2. ASSUME NEW q \in Payment, Created(q)'
        PROVE  \E w \in Invoice : Created(w)' /\ doc'[q].items = {w}
    <3>1. CASE q = p
      BY <1>12, <1>13, <1>15, <3>1 DEF Created
    <3>2. CASE q # p
      <4>1. \E w \in Invoice : Created(w) /\ doc[q].items = {w}
        BY <1>14, <1>15, <2>2, <3>2 DEF LocksInv, Created
      <4> QED
        BY <1>13, <1>14, <3>2, <4>1 DEF Created
    <3> QED
      BY <3>1, <3>2
  <2>3. \A q \in Payment : doc'[q].status = "canceled" => bank'[q] = "closed"
    BY <1>9, <1>12, <1>14, <1>15 DEF LocksInv
  <2>4. ASSUME NEW q \in Payment, doc'[q].status \notin {"none", "canceled"}
        PROVE  \/ q \in elapsed' \/ Shared(q)'
               \/ \A w \in Invoice \cap doc'[q].items : doc'[w].lock = q
    <3>1. CASE q = p
      BY <1>8, <1>12, <1>13, <3>1
    <3>2. CASE q # p
      <4>1. doc'[q] = doc[q] /\ Created(q)
        BY <1>14, <2>4, <3>2 DEF Created
      <4>2. \/ q \in elapsed \/ Shared(q)
            \/ \A w \in Invoice \cap doc[q].items : doc[w].lock = q
        BY <1>15, <2>4, <4>1 DEF LocksInv
      <4> QED
        BY <1>9, <1>13, <1>16, <3>2, <4>1, <4>2
    <3> QED
      BY <3>1, <3>2
  <2>5. CompletesLate'
    <3>1. ASSUME NEW q \in Payment, doc'[q].status = "completed"
          PROVE  q \in elapsed' \/ Shared(q)'
      <4>1. q # p /\ doc'[q] = doc[q] /\ Created(q)
        BY <1>12, <1>14, <3>1 DEF Created
      <4>2. q \in elapsed \/ Shared(q)
        BY <1>15, <3>1, <4>1 DEF LocksInv, CompletesLate, Shared
      <4> QED
        BY <1>9, <1>16, <4>1, <4>2
    <3> QED
      BY <3>1 DEF CompletesLate, Shared
  <2> QED
    BY <2>1, <2>2, <2>3, <2>4, <2>5 DEF LocksInv
<1> QED
  BY <1>11, <1>17

LEMMA WriteInTransactionBuf ==
    ASSUME TypeOK, LedgerInv, NEW t \in Thread, WriteInTransaction(t)
    PROVE  LET s == Head(agenda[t]) IN
           /\ agenda[t] # <<>> /\ s \in Steps(t) /\ s.op = "write" /\ s.tx = TRUE
           /\ s.on \in SUBSET Doc /\ s.on \cap stale[t] = {}
           /\ Then(t, <<>>)
           /\ UNCHANGED <<doc, stale, bank, elapsed, dropped>>
           /\ wrote'[t] = wrote[t] \cup s.on
           /\ \A d \in Doc \ s.on : buf'[t][d] = buf[t][d]
           /\ \A d \in s.on :
                /\ buf'[t][d].status = IF s.to.status = "keep" THEN View(t, d).status
                                                               ELSE s.to.status
                /\ buf'[t][d].lock = IF s.to.lock = "keep" THEN View(t, d).lock
                                                           ELSE s.to.lock
                /\ buf'[t][d].items = View(t, d).items
<1> DEFINE s == Head(agenda[t])
<1>1. /\ agenda[t] # <<>> /\ s.op = "write" /\ s.on \in SUBSET Doc /\ s.to \in Change
      /\ s.tx \in BOOLEAN
  BY HeadType DEF WriteInTransaction
<1>2. /\ s.tx /\ s.on \cap stale[t] = {}
      /\ buf' = [buf EXCEPT ![t] =
                   [d \in Doc |-> IF d \in s.on THEN Changed(View(t, d), s.to)
                                  ELSE buf[t][d]]]
      /\ wrote' = [wrote EXCEPT ![t] = @ \cup s.on]
      /\ Then(t, <<>>)
      /\ UNCHANGED <<doc, stale, bank, elapsed, dropped>>
  BY DEF WriteInTransaction, env, Conflict
<1>3. s \in Steps(t)
  BY <1>1, HeadInv
<1> HIDE DEF s
<1>4. /\ \A d \in Doc \ s.on : buf'[t][d] = buf[t][d]
      /\ \A d \in s.on : buf'[t][d] = Changed(View(t, d), s.to)
      /\ wrote'[t] = wrote[t] \cup s.on
  BY <1>1, <1>2 DEF TypeOK
<1>5. ASSUME NEW d \in s.on
      PROVE  /\ buf'[t][d].status = IF s.to.status = "keep" THEN View(t, d).status
                                                            ELSE s.to.status
             /\ buf'[t][d].lock = IF s.to.lock = "keep" THEN View(t, d).lock
                                                        ELSE s.to.lock
             /\ buf'[t][d].items = View(t, d).items
  <2>1. View(t, d) \in Document
    BY <1>1, ViewType
  <2> QED
    BY <1>1, <1>4, <2>1, ChangedParts
<1> QED
  BY <1>1, <1>2, <1>3, <1>4, <1>5 DEF s

LEMMA WriteInTransactionKeeping ==
    ASSUME TypeOK, LedgerInv, NEW t \in Thread, Keeping(t), WriteInTransaction(t)
    PROVE  Keeping(t)'
<1> DEFINE s == Head(agenda[t])
<1>1. /\ agenda[t] # <<>> /\ s \in Steps(t) /\ s.op = "write"
      /\ s.on \in SUBSET Doc
      /\ Then(t, <<>>)
      /\ UNCHANGED <<doc, bank, elapsed>>
      /\ wrote'[t] = wrote[t] \cup s.on
      /\ \A d \in Doc \ s.on : buf'[t][d] = buf[t][d]
      /\ \A d \in s.on :
           /\ buf'[t][d].status = IF s.to.status = "keep" THEN View(t, d).status
                                                          ELSE s.to.status
           /\ s.to.lock = "keep" => buf'[t][d].lock = View(t, d).lock
  BY WriteInTransactionBuf
<1>2. Respects(s) /\ StepInv(s)
  BY <1>1, HeadInv DEF Keeping
<1>3. Steps(t) = {s} \cup Steps(t)'
  BY <1>1, PopSteps
<1>4. \A x \in Steps(t)' : x.op # "pay"
  BY <1>1, <1>3, PayAlone
<1> HIDE DEF s
<1>5. s.to.lock = "keep" /\ (s.to.status # "keep" => \A v \in s.on \cap Invoice : ~Locked(doc[v]))
  BY <1>1, <1>2 DEF Respects, SetsLock
<1>6. ASSUME NEW v \in Invoice \cap wrote'[t]
      PROVE  /\ buf'[t][v].lock = doc[v].lock
             /\ buf'[t][v].status # doc'[v].status => ~Locked(doc[v])
  <2>1. v \in Doc /\ doc'[v] = doc[v]
    BY <1>1, DocSets
  <2>2. /\ View(t, v).lock = doc[v].lock
        /\ View(t, v).status # doc[v].status => ~Locked(doc[v])
    BY DEF View, Keeping
  <2>3. CASE v \in s.on
    BY <1>1, <1>5, <2>1, <2>2, <2>3
  <2>4. CASE v \notin s.on
    <3>1. buf'[t][v] = View(t, v)
      BY <1>1, <2>1, <2>4 DEF View
    <3> QED
      BY <2>1, <2>2, <3>1
  <2> QED
    BY <2>3, <2>4
<1>7. ASSUME NEW p \in Payment, Completes(t, p)' PROVE Completes(t, p)
  <2>1. CASE \E x \in Steps(t)' : Sets(x, "completed") /\ p \in x.on
    BY <1>3, <2>1 DEF Completes
  <2>2. CASE p \in wrote'[t] /\ buf'[t][p].status = "completed"
    <3>1. CASE p \in s.on
      <4>1. s.to.status \in {"canceled", "completed"}
        BY <1>1, <1>2, <3>1 DEF StepInv
      <4>2. Sets(s, "completed")
        BY <1>1, <2>2, <3>1, <4>1 DEF Sets
      <4> QED
        BY <1>1, <3>1, <4>2 DEF Completes
    <3>2. CASE p \notin s.on
      BY <1>1, <2>2, <3>2, DocSets DEF Completes
    <3> QED
      BY <3>1, <3>2
  <2> QED
    BY <1>7, <2>1, <2>2 DEF Completes
<1>8. \A v \in Invoice : Judges(t, v) => Judges(t, v)'
  BY <1>1, <1>3 DEF Judges
<1>9. /\ \A v \in Invoice : doc'[v].lock = doc[v].lock
      /\ \A p \in Payment : doc'[p].items = doc[p].items
      /\ \A x \in Steps(t)' : x \in Steps(t)
      /\ elapsed \subseteq elapsed'
  BY <1>1, <1>3
<1> QED
  BY <1>4, <1>6, <1>7, <1>8, <1>9, KeepingStep

LEMMA WriteInTransactionReleasing ==
    ASSUME TypeOK, LedgerInv, NEW t \in Thread, Releasing(t), WriteInTransaction(t)
    PROVE  Releasing(t)'
<1> DEFINE s == Head(agenda[t])
<1>1. PICK v \in Invoice, p \in Payment :
        LET close   == Write({p}, Becomes("canceled"), TRUE)
            invoice == Write({v}, LockedBy(NoLock), TRUE)
            incomes == Write(doc[v].items, LockedBy(NoLock), TRUE) IN
        /\ bank[p] = "closed"
        /\ Created(p) /\ doc[p].items = {v}
        /\ wrote[t] \subseteq Income \cup {v, p}
        /\ v \in wrote[t] => buf[t][v].status = doc[v].status
        /\ \/ agenda[t] = <<close, invoice, incomes>> /\ wrote[t] = {}
           \/ /\ agenda[t] \in {<<invoice, incomes>>, <<incomes>>, <<>>}
              /\ \/ p \in wrote[t]
                 \/ wrote[t] = {} /\ Lost(t)
  BY DEF Releasing
<1> DEFINE close   == Write({p}, Becomes("canceled"), TRUE)
           invoice == Write({v}, LockedBy(NoLock), TRUE)
           incomes == Write(doc[v].items, LockedBy(NoLock), TRUE)
<1>2. /\ agenda[t] # <<>> /\ s.on \in SUBSET Doc /\ s.on \cap stale[t] = {}
      /\ Then(t, <<>>)
      /\ UNCHANGED <<doc, stale, bank>>
      /\ wrote'[t] = wrote[t] \cup s.on
      /\ \A d \in Doc \ s.on : buf'[t][d] = buf[t][d]
      /\ \A d \in s.on : buf'[t][d].status =
                           IF s.to.status = "keep" THEN View(t, d).status ELSE s.to.status
  BY WriteInTransactionBuf
<1>3. agenda'[t] = Tail(agenda[t])
  BY <1>2, PopSteps
<1>4. /\ close.on = {p} /\ invoice.on = {v} /\ invoice.to.status = "keep"
      /\ incomes.on = doc[v].items /\ incomes.to.status = "keep"
  BY PlainChanges DEF Write, Do
<1>5. doc[v].items \subseteq Income
  BY NoPayments DEF LedgerInv, BooksInv
<1>6. v \notin Income /\ v # p /\ v \in Doc /\ p \in Doc
  BY DocSets, BillingAssumption
<1>7. /\ bank'[p] = "closed" /\ Created(p)' /\ doc'[p].items = {v} /\ doc' = doc
  BY <1>1, <1>2 DEF Created
<1>8. v \in wrote[t] => buf[t][v].status = doc[v].status
  BY <1>1
<1>9. wrote[t] \subseteq Income \cup {v, p}
  BY <1>1
<1>10. \/ agenda[t] = <<close, invoice, incomes>> /\ wrote[t] = {}
       \/ /\ agenda[t] = <<invoice, incomes>> \/ agenda[t] = <<incomes>>
          /\ p \in wrote[t] \/ (wrote[t] = {} /\ Lost(t))
  BY <1>1, <1>2
<1> HIDE DEF close, invoice, incomes, s
<1>11. View(t, v).status = doc[v].status
  BY <1>8 DEF View
<1>12. CASE agenda[t] = <<close, invoice, incomes>> /\ wrote[t] = {}
  <2>1. s = close /\ agenda'[t] = <<invoice, incomes>>
    BY <1>3, <1>12, ShortAgenda DEF s
  <2>2. wrote'[t] = {p}
    BY <1>2, <1>4, <1>12, <2>1
  <2> QED
    BY <1>6, <1>7, <2>1, <2>2 DEF Releasing, invoice, incomes
<1>13. CASE agenda[t] = <<invoice, incomes>> /\ (p \in wrote[t] \/ (wrote[t] = {} /\ Lost(t)))
  <2>1. s = invoice /\ agenda'[t] = <<incomes>>
    BY <1>3, <1>13, ShortAgenda DEF s
  <2>2. p \in wrote[t]
    BY <1>2, <1>4, <1>6, <1>13, <2>1 DEF Lost
  <2>3. /\ wrote'[t] \subseteq Income \cup {v, p} /\ p \in wrote'[t]
    BY <1>2, <1>4, <1>9, <2>1, <2>2
  <2>4. buf'[t][v].status = doc'[v].status
    BY <1>2, <1>4, <1>7, <1>11, <2>1
  <2> QED
    BY <1>7, <2>1, <2>3, <2>4 DEF Releasing, incomes
<1>14. CASE agenda[t] = <<incomes>> /\ (p \in wrote[t] \/ (wrote[t] = {} /\ Lost(t)))
  <2>1. s = incomes /\ agenda'[t] = <<>>
    BY <1>3, <1>14, ShortAgenda DEF s
  <2>2. wrote'[t] \subseteq Income \cup {v, p}
    BY <1>2, <1>4, <1>5, <1>9, <2>1
  <2>3. v \in wrote'[t] => buf'[t][v].status = doc'[v].status
    BY <1>2, <1>4, <1>5, <1>6, <1>7, <1>8, <2>1
  <2>4. p \in wrote'[t] \/ (wrote'[t] = {} /\ Lost(t)')
    <3>1. CASE p \in wrote[t]
      BY <1>2, <3>1
    <3>2. CASE wrote[t] = {} /\ Lost(t)
      <4>1. s.on = {}
        BY <1>2, <3>2 DEF Lost
      <4> QED
        BY <1>2, <3>2, <4>1 DEF Lost
    <3> QED
      BY <1>14, <3>1, <3>2
  <2> QED
    BY <1>7, <2>1, <2>2, <2>3, <2>4 DEF Releasing
<1> QED
  BY <1>10, <1>12, <1>13, <1>14

LEMMA WriteInTransactionLocks ==
    ASSUME TypeOK, LedgerInv, LockInv, NEW t \in Thread, WriteInTransaction(t)
    PROVE  Keeping(t)' \/ Releasing(t)'
<1>1. ~Paying(t)
  <2>1. agenda[t] # <<>> /\ Head(agenda[t]).op = "write" /\ Head(agenda[t]).tx = TRUE
    BY WriteInTransactionBuf
  <2>2. ASSUME NEW v \in Invoice, NEW p \in Payment,
               LET incomes == Write(doc[v].items, LockedBy(p), FALSE)
                   invoice == Write({v}, LockedBy(p), FALSE)
                   create  == Do("createPayment", {v, p}, FALSE)
                   token   == Do("token", {p}, FALSE) IN
               \/ agenda[t] = <<incomes, invoice, create, token>>
               \/ agenda[t] = <<invoice, create, token>>
               \/ agenda[t] = <<create, token>>
        PROVE  Head(agenda[t]).tx = FALSE
    BY <2>2, ShortAgenda DEF Write, Do
  <2> QED
    BY <2>1, <2>2 DEF Paying
<1> QED
  BY <1>1, WriteInTransactionKeeping, WriteInTransactionReleasing DEF LockInv

LEMMA InsertLocks ==
    ASSUME TypeOK, LedgerInv, LockInv, NEW t \in Thread, Insert(t)
    PROVE  /\ LocksInv' /\ Keeping(t)'
           /\ \A v \in Invoice : Locked(doc[v]) => doc'[v] = doc[v]
<1>1. agenda[t] # <<>> /\ Head(agenda[t]).op = "insert" /\ UNCHANGED <<bank, elapsed>>
  BY DEF Insert, Turn, env
<1>2. Keeping(t) /\ LocksInv
  BY <1>1, OthersKeep DEF LockInv
<1> DEFINE new == [Blank EXCEPT !.status = "active", !.items = Head(agenda[t]).on]
<1>3. PICK v \in Invoice :
        /\ doc[v].status = "none"
        /\ v \notin wrote[t]
        /\ \/ /\ buf' = [buf EXCEPT ![t][v] = new]
              /\ wrote' = [wrote EXCEPT ![t] = @ \cup {v}]
              /\ Then(t, <<>>)
              /\ UNCHANGED <<doc, stale>>
           \/ Abort(t)
           \/ /\ doc' = [doc EXCEPT ![v] = new]
              /\ Then(t, <<>>)
              /\ UNCHANGED <<wrote, buf>>
  BY DEF Insert
<1>4. new.lock = NoLock /\ new.status = "active" /\ new.items = Head(agenda[t]).on
  BY DEF Blank
<1> HIDE DEF new
<1>5. v \in Doc /\ doc[v].lock = NoLock /\ ~Locked(doc[v])
  <2>1. doc[v].lock = NoLock
    BY <1>2, <1>3 DEF LocksInv, Created
  <2> QED
    BY <2>1, DocSets, BillingAssumption DEF Locked
<1>6. CASE Abort(t)
  <2>1. Keeping(t)' /\ UNCHANGED doc
    BY <1>6, AbortEmpties, AbortKeeping
  <2> QED
    BY <1>1, <1>2, <2>1, LocksKept DEF Created
<1>7. ASSUME Then(t, <<>>), \A w \in Invoice : doc'[w].lock = doc[w].lock,
             \A p \in Payment : doc'[p] = doc[p],
             \A w \in Invoice \cap wrote'[t] :
                /\ buf'[t][w].lock = doc[w].lock
                /\ buf'[t][w].status # doc'[w].status => ~Locked(doc[w]),
             \A p \in Payment : p \in wrote'[t] => p \in wrote[t] /\ buf'[t][p] = buf[t][p]
      PROVE  Keeping(t)'
  <2>1. Steps(t) = {Head(agenda[t])} \cup Steps(t)'
    BY <1>1, <1>7, PopSteps
  <2>2. \A x \in Steps(t)' : x.op # "pay"
    BY <1>1, <1>2, <2>1, PayAlone
  <2>3. \A p \in Payment : Completes(t, p)' => Completes(t, p)
    BY <1>7, <2>1 DEF Completes, Sets
  <2>4. \A w \in Invoice : Judges(t, w) => Judges(t, w)'
    BY <1>1, <2>1 DEF Judges
  <2> QED
    BY <1>1, <1>2, <1>7, <2>1, <2>2, <2>3, <2>4, KeepingStep
<1>8. CASE /\ buf' = [buf EXCEPT ![t][v] = new]
           /\ wrote' = [wrote EXCEPT ![t] = @ \cup {v}]
           /\ Then(t, <<>>)
           /\ UNCHANGED <<doc, stale>>
  <2>1. /\ buf'[t][v] = new /\ \A d \in Doc \ {v} : buf'[t][d] = buf[t][d]
        /\ wrote'[t] = wrote[t] \cup {v}
    BY <1>5, <1>8 DEF TypeOK
  <2>2. ASSUME NEW w \in Invoice \cap wrote'[t]
        PROVE  /\ buf'[t][w].lock = doc[w].lock
               /\ buf'[t][w].status # doc'[w].status => ~Locked(doc[w])
    <3>1. CASE w = v
      BY <1>4, <1>5, <2>1, <3>1
    <3>2. CASE w # v
      BY <1>2, <1>8, <2>1, <3>2, DocSets DEF Keeping
    <3> QED
      BY <3>1, <3>2
  <2>3. \A p \in Payment : p \in wrote'[t] => p \in wrote[t] /\ buf'[t][p] = buf[t][p]
    BY <2>1, DocSets, BillingAssumption
  <2>4. Keeping(t)'
    BY <1>7, <1>8, <2>2, <2>3
  <2>5. LocksInv'
    BY <1>1, <1>2, <1>8, LocksKept DEF Created
  <2> QED
    BY <1>8, <2>4, <2>5
<1>9. CASE /\ doc' = [doc EXCEPT ![v] = new]
           /\ Then(t, <<>>)
           /\ UNCHANGED <<wrote, buf>>
  <2>1. doc'[v] = new /\ \A d \in Doc \ {v} : doc'[d] = doc[d]
    BY <1>5, <1>9 DEF TypeOK
  <2>2. \A p \in Payment : doc'[p] = doc[p]
    BY <2>1, DocSets, BillingAssumption
  <2>3. ASSUME NEW w \in Invoice
        PROVE  /\ doc'[w].lock = doc[w].lock /\ (Created(w) => Created(w)')
               /\ Locked(doc[w]) => doc'[w] = doc[w]
    <3>1. CASE w = v
      BY <1>4, <1>5, <2>1, <3>1 DEF Created
    <3>2. CASE w # v
      BY <2>1, <3>2, DocSets DEF Created
    <3> QED
      BY <3>1, <3>2
  <2>4. LocksInv'
    BY <1>1, <1>2, <2>2, <2>3, LocksKept
  <2>5. ASSUME NEW w \in Invoice \cap wrote'[t]
        PROVE  /\ buf'[t][w].lock = doc[w].lock
               /\ buf'[t][w].status # doc'[w].status => ~Locked(doc[w])
    <3>1. w \in wrote[t] /\ w # v /\ doc'[w] = doc[w]
      BY <1>3, <1>9, <2>1, DocSets
    <3> QED
      BY <1>2, <1>9, <3>1 DEF Keeping
  <2>6. Keeping(t)'
    BY <1>7, <1>9, <2>2, <2>3, <2>5
  <2> QED
    BY <2>3, <2>4, <2>6
<1> QED
  BY <1>3, <1>6, <1>8, <1>9

\* What a request commits leaves the locks as they are, or is the cancellation
\* of a payment whose invoice loses its lock.
LEMMA CommitKeeping ==
    ASSUME TypeOK, LedgerInv, LocksInv, NEW t \in Thread, Keeping(t), Commit(t)
    PROVE  /\ LocksInv'
           /\ \A v \in Invoice : Locked(doc[v]) => doc'[v].status = doc[v].status
<1>1. /\ \A d \in Doc : d \in wrote[t] => doc'[d] = buf[t][d]
      /\ \A d \in Doc : d \notin wrote[t] => doc'[d] = doc[d]
      /\ Steps(t) = {} /\ RequestInv(t) /\ Grows /\ UNCHANGED bank
  BY CommitDocs
<1>2. UNCHANGED elapsed
  BY DEF Commit, env
<1>3. ASSUME NEW v \in Invoice
      PROVE  /\ doc'[v].lock = doc[v].lock /\ (Created(v) => Created(v)')
             /\ Locked(doc[v]) => doc'[v].status = doc[v].status
  <2>1. v \in Doc
    BY DocSets
  <2>2. Created(v) => Created(v)'
    BY <1>1, <2>1 DEF Grows, Created
  <2>3. CASE v \in wrote[t]
    BY <1>1, <2>1, <2>2, <2>3 DEF Keeping
  <2>4. CASE v \notin wrote[t]
    BY <1>1, <2>1, <2>2, <2>4
  <2> QED
    BY <2>3, <2>4
<1>4. ASSUME NEW p \in Payment
      PROVE  doc'[p].items = doc[p].items /\ (Created(p)' => Created(p))
  <2>1. p \in Doc
    BY DocSets
  <2>2. CASE p \in wrote[t]
    BY <1>1, <2>1, <2>2 DEF RequestInv, BufInv, Created
  <2>3. CASE p \notin wrote[t]
    BY <1>1, <2>1, <2>3 DEF Created
  <2> QED
    BY <2>2, <2>3
<1>5. \A p \in Payment : Shared(p)' <=> Shared(p)
  BY <1>4 DEF Shared
<1>6. \A v \in Invoice : ~Created(v)' => doc'[v].lock = NoLock
  BY <1>3 DEF LocksInv
<1>7. ASSUME NEW p \in Payment, Created(p)'
      PROVE  \E v \in Invoice : Created(v)' /\ doc'[p].items = {v}
  BY <1>3, <1>4, <1>7 DEF LocksInv
<1>8. ASSUME NEW p \in Payment
      PROVE  /\ doc'[p].status = "canceled" => bank'[p] = "closed"
             /\ doc'[p].status \notin {"none", "canceled"} =>
                  \/ p \in elapsed' \/ Shared(p)'
                  \/ \A v \in Invoice \cap doc'[p].items : doc'[v].lock = p
             /\ doc'[p].status = "completed" => p \in elapsed' \/ Shared(p)'
  <2>1. p \in Doc
    BY DocSets
  <2>2. CASE p \notin wrote[t]
    <3>1. doc'[p] = doc[p]
      BY <1>1, <2>1, <2>2
    <3>2. doc[p].status = "completed" => p \in elapsed \/ Shared(p)
      BY DEF LocksInv, CompletesLate, Shared
    <3> QED
      BY <1>1, <1>2, <1>3, <1>5, <3>1, <3>2 DEF LocksInv
  <2>3. CASE p \in wrote[t]
    <3>1. /\ doc[p].status # "none"
          /\ \/ doc'[p].status = "canceled" /\ bank[p] = "closed"
             \/ doc'[p].status = "completed" /\ bank[p] = "confirmed"
      BY <1>1, <2>1, <2>3 DEF RequestInv, BufInv
    <3>2. CASE doc'[p].status = "canceled" /\ bank[p] = "closed"
      BY <1>1, <3>2
    <3>3. CASE doc'[p].status = "completed" /\ bank[p] = "confirmed"
      <4>1. PICK v \in Invoice : doc[p].items = {v}
        BY <3>1 DEF LocksInv, Created
      <4>2. Completes(t, p)
        BY <1>1, <2>1, <2>3, <3>3 DEF Completes
      <4>3. ~Judges(t, v)
        BY <1>1 DEF Judges
      <4>4. ~Locked(doc[v])
        BY <4>1, <4>2, <4>3 DEF Keeping
      <4>5. doc[p].status \notin {"none", "canceled"}
        BY <3>1, <3>3 DEF LocksInv
      <4>6. p \in elapsed \/ Shared(p) \/ doc[v].lock = p
        BY <4>1, <4>5 DEF LocksInv
      <4>7. p \in elapsed \/ Shared(p)
        BY <4>4, <4>6 DEF Locked
      <4> QED
        BY <1>2, <1>5, <3>3, <4>7
    <3> QED
      BY <3>1, <3>2, <3>3
  <2> QED
    BY <2>2, <2>3
<1>9. CompletesLate'
  BY <1>8 DEF CompletesLate, Shared
<1> QED
  BY <1>3, <1>6, <1>7, <1>8, <1>9 DEF LocksInv

LEMMA CommitReleasing ==
    ASSUME TypeOK, LedgerInv, LocksInv, NEW t \in Thread, Releasing(t), Commit(t)
    PROVE  /\ LocksInv'
           /\ \A v \in Invoice : doc'[v].status = doc[v].status
<1>1. /\ \A d \in Doc : d \in wrote[t] => doc'[d] = buf[t][d]
      /\ \A d \in Doc : d \notin wrote[t] => doc'[d] = doc[d]
      /\ RequestInv(t) /\ Grows /\ UNCHANGED bank
  BY CommitDocs
<1>2. UNCHANGED elapsed
  BY DEF Commit, env
<1>3. PICK v \in Invoice, p \in Payment :
        /\ bank[p] = "closed"
        /\ Created(p) /\ doc[p].items = {v}
        /\ wrote[t] \subseteq Income \cup {v, p}
        /\ v \in wrote[t] => buf[t][v].status = doc[v].status
        /\ p \in wrote[t] \/ wrote[t] = {}
  BY DEF Releasing
<1>4. p \in Doc /\ v \in Doc /\ Created(v)
  BY <1>3, DocSets DEF LocksInv
<1>5. \A w \in Invoice \ {v} : doc'[w] = doc[w]
  BY <1>1, <1>3, DocSets, BillingAssumption
<1>6. \A q \in Payment \ {p} : doc'[q] = doc[q]
  BY <1>1, <1>3, DocSets, BillingAssumption
<1>7. doc'[v].status = doc[v].status
  BY <1>1, <1>3, <1>4
<1>8. \A w \in Invoice : doc'[w].status = doc[w].status
  BY <1>5, <1>7
<1>9. doc'[p].items = {v} /\ Created(p)'
  BY <1>1, <1>3, <1>4 DEF Grows, Created
<1>10. \A q \in Payment : doc'[q].items = doc[q].items
  BY <1>3, <1>6, <1>9
<1>11. \A q \in Payment : Shared(q)' <=> Shared(q)
  BY <1>10 DEF Shared
<1>12. CASE p \in wrote[t]
  <2>1. doc'[p].status = "canceled"
    BY <1>1, <1>3, <1>4, <1>12 DEF RequestInv, BufInv
  <2>2. \A w \in Invoice : ~Created(w)' => doc'[w].lock = NoLock
    BY <1>4, <1>5, <1>8 DEF LocksInv, Created
  <2>3. ASSUME NEW q \in Payment, Created(q)'
        PROVE  \E w \in Invoice : Created(w)' /\ doc'[q].items = {w}
    <3>1. Created(q)
      BY <1>3, <1>6, <2>3 DEF Created
    <3> QED
      BY <1>8, <1>10, <3>1 DEF LocksInv, Created
  <2>4. \A q \in Payment : doc'[q].status = "canceled" => bank'[q] = "closed"
    BY <1>1, <1>3, <1>6 DEF LocksInv
  <2>5. ASSUME NEW q \in Payment, doc'[q].status \notin {"none", "canceled"}
        PROVE  \/ q \in elapsed' \/ Shared(q)'
               \/ \A w \in Invoice \cap doc'[q].items : doc'[w].lock = q
    <3>1. q # p /\ doc'[q] = doc[q]
      BY <1>6, <2>1, <2>5
    <3>2. CASE v \in doc[q].items
      <4>1. doc[q].items = {v}
        BY <2>5, <3>1, <3>2 DEF LocksInv, Created
      <4> QED
        BY <1>3, <1>11, <3>1, <4>1 DEF Shared
    <3>3. CASE v \notin doc[q].items
      BY <1>2, <1>5, <1>11, <2>5, <3>1, <3>3 DEF LocksInv
    <3> QED
      BY <3>2, <3>3
  <2>6. ASSUME NEW q \in Payment, doc'[q].status = "completed"
        PROVE  q \in elapsed' \/ Shared(q)'
    <3>1. doc'[q] = doc[q]
      BY <1>6, <2>1, <2>6
    <3>2. q \in elapsed \/ Shared(q)
      BY <2>6, <3>1 DEF LocksInv, CompletesLate, Shared
    <3> QED
      BY <1>2, <1>11, <3>2
  <2>7. CompletesLate'
    BY <2>6 DEF CompletesLate, Shared
  <2>8. LocksInv'
    BY <2>2, <2>3, <2>4, <2>5, <2>7 DEF LocksInv
  <2> QED
    BY <1>8, <2>8
<1>13. CASE p \notin wrote[t]
  <2>1. wrote[t] = {}
    BY <1>3, <1>13
  <2>2. \A d \in Doc : doc'[d] = doc[d]
    BY <1>1, <2>1
  <2>3. LocksInv'
    BY <1>1, <1>2, <2>2, DocSets, LocksKept DEF Created
  <2> QED
    BY <1>8, <2>3
<1> QED
  BY <1>12, <1>13

LEMMA CommitLocks ==
    ASSUME TypeOK, LedgerInv, LockInv, NEW t \in Thread, Commit(t)
    PROVE  /\ LocksInv' /\ Keeping(t)'
           /\ \A v \in Invoice : Locked(doc[v]) => doc'[v].status = doc[v].status
<1>1. agenda[t] = <<>> /\ agenda'[t] = <<>> /\ wrote'[t] = {}
  BY DEF Commit, TypeOK
<1>2. ~Paying(t)
  BY <1>1 DEF Paying
<1>3. Keeping(t)'
  BY <1>1, AbortKeeping
<1> QED
  BY <1>2, <1>3, CommitKeeping, CommitReleasing DEF LockInv

\* Faults, the environment and new requests.
LEMMA LocksStay ==
    ASSUME LocksInv, UNCHANGED doc, elapsed \subseteq elapsed',
           \A p \in Payment : bank[p] = "closed" => bank'[p] = "closed"
    PROVE  LocksInv'
  BY LocksKept DEF Created

\* A request waits, and may lose its transaction.
LEMMA RequestStays ==
    ASSUME TypeOK, NEW t \in Thread, Keeping(t) \/ Paying(t) \/ Releasing(t),
           UNCHANGED <<doc, agenda>>, elapsed \subseteq elapsed',
           \A p \in Payment : bank[p] = "closed" => bank'[p] = "closed",
           \/ wrote'[t] = wrote[t] /\ buf'[t] = buf[t] /\ stale'[t] = stale[t]
           \/ wrote'[t] = {} /\ stale'[t] = Doc
    PROVE  (Keeping(t) \/ Paying(t) \/ Releasing(t))'
<1>1. Steps(t)' = Steps(t)
  BY DEF Steps
<1>2. \A v \in Invoice : ~Locked(doc[v]) => ~Locked(doc[v])'
  BY DEF Locked
<1>3. CASE Keeping(t)
  <2>1. \A s \in Steps(t)' : s.op = "pay" => agenda'[t] = <<s>> /\ wrote'[t] = {}
    BY <1>1, <1>3 DEF Keeping
  <2>2. \A v \in Invoice \cap wrote'[t] :
          /\ buf'[t][v].lock = doc[v].lock
          /\ buf'[t][v].status # doc'[v].status => ~Locked(doc[v])
    BY <1>3 DEF Keeping
  <2>3. \A p \in Payment : Completes(t, p)' => Completes(t, p)
    BY <1>1 DEF Completes, Sets
  <2>4. \A v \in Invoice : Judges(t, v)' <=> Judges(t, v)
    BY <1>1 DEF Judges
  <2> QED
    BY <1>1, <1>3, <2>1, <2>2, <2>3, <2>4, KeepingStep
<1>4. CASE Paying(t)
  <2>1. PICK v \in Invoice, p \in Payment :
          LET incomes == Write(doc[v].items, LockedBy(p), FALSE)
              invoice == Write({v}, LockedBy(p), FALSE)
              create  == Do("createPayment", {v, p}, FALSE)
              token   == Do("token", {p}, FALSE) IN
          /\ Created(v)
          /\ wrote[t] = {}
          /\ \/ /\ agenda[t] \in {<<incomes, invoice, create, token>>,
                                  <<invoice, create, token>>}
                /\ ~Locked(doc[v])
             \/ /\ agenda[t] = <<create, token>>
                /\ doc[v].lock = p
    BY <1>4 DEF Paying
  <2>2. Created(v)' /\ wrote'[t] = {} /\ (~Locked(doc[v]) => ~Locked(doc[v])')
    BY <1>2, <2>1 DEF Created
  <2> QED
    BY <2>1, <2>2 DEF Paying
<1>5. CASE Releasing(t)
  <2>1. PICK v \in Invoice, p \in Payment :
          LET close   == Write({p}, Becomes("canceled"), TRUE)
              invoice == Write({v}, LockedBy(NoLock), TRUE)
              incomes == Write(doc[v].items, LockedBy(NoLock), TRUE) IN
          /\ bank[p] = "closed"
          /\ Created(p) /\ doc[p].items = {v}
          /\ wrote[t] \subseteq Income \cup {v, p}
          /\ v \in wrote[t] => buf[t][v].status = doc[v].status
          /\ \/ agenda[t] = <<close, invoice, incomes>> /\ wrote[t] = {}
             \/ /\ agenda[t] \in {<<invoice, incomes>>, <<incomes>>, <<>>}
                /\ \/ p \in wrote[t]
                   \/ wrote[t] = {} /\ Lost(t)
    BY <1>5 DEF Releasing
  <2>2. /\ bank'[p] = "closed" /\ Created(p)'
        /\ wrote'[t] \subseteq Income \cup {v, p}
        /\ v \in wrote'[t] => buf'[t][v].status = doc'[v].status
        /\ wrote[t] = {} => wrote'[t] = {}
        /\ (p \in wrote[t] \/ (wrote[t] = {} /\ Lost(t))) =>
              p \in wrote'[t] \/ (wrote'[t] = {} /\ Lost(t)')
    BY <2>1 DEF Created, Lost
  <2> QED
    BY <2>1, <2>2 DEF Releasing
<1> QED
  BY <1>3, <1>4, <1>5

LEMMA MakeRequestKeeping ==
    ASSUME TypeOK, NEW t \in Thread, MakeRequest(t)
    PROVE  Keeping(t)'
<1>1. PICK op \in Ops : \E D \in Subjects(op) :
        agenda' = [agenda EXCEPT ![t] = <<Do(op, D, TRUE)>>]
  BY DEF MakeRequest
<1>2. PICK D \in Subjects(op) : agenda' = [agenda EXCEPT ![t] = <<Do(op, D, TRUE)>>]
  BY <1>1
<1> DEFINE s == Do(op, D, TRUE)
<1>3. s.op \in Request
  BY OpsAssumption DEF Do
<1>4. agenda'[t] = <<s>>
  BY <1>2 DEF TypeOK
<1>5. wrote'[t] = {}
  BY DEF MakeRequest, Idle, Open, txn
<1> HIDE DEF s
<1>6. Steps(t)' = {s}
  BY <1>4, ElemsShort DEF Steps, Elems
<1>7. Respects(s)'
  BY <1>3 DEF Respects, SetsLock, Request
<1>8. \A p \in Payment : ~Completes(t, p)'
  BY <1>3, <1>5, <1>6 DEF Completes, Sets, Request
<1> QED
  BY <1>4, <1>5, <1>6, <1>7, <1>8 DEF Keeping

LEMMA ProceedLocks ==
    ASSUME TypeOK, LedgerInv, LockInv, NEW t \in Thread, Proceed(t)
    PROVE  LocksInv' /\ (Keeping(t)' \/ Paying(t)' \/ Releasing(t)')
<1>1. LocksInv
  BY DEF LockInv
<1>2. CASE Insert(t) \/ CreatePayment(t) \/ WriteDirect(t) \/ Commit(t)
  BY <1>2, InsertLocks, CreatePaymentLocks, WriteDirectLocks, CommitLocks
<1>3. CASE ~(Insert(t) \/ CreatePayment(t) \/ WriteDirect(t) \/ Commit(t))
  <2>1. UNCHANGED doc
    BY <1>3, DocSteps
  <2>2. UNCHANGED elapsed /\ \A p \in Payment : bank[p] = "closed" => bank'[p] = "closed"
    <3>1. CASE UNCHANGED env
      BY <3>1 DEF env
    <3>2. CASE ~UNCHANGED env
      <4>1. Pay(t) \/ GetBankToken(t) \/ ConfirmPayment(t)
        BY <3>2
           DEF Proceed, CreateInvoice, MakeInvoiceManually, Insert, Issue, InsertInvoice,
               MakeInvoicePend, MakeInvoiceCancel, UpdateInvoice, RevertToPreviousState,
               ForceUpdate, CreateIncome, UpdateIncome, ForceUpdateIncome, ChangeCaseType,
               Remove, MakeInvoicePaid, SettleNext, SettleRest, Voucher, CreatePayment,
               Verify, WriteDirect, WriteInTransaction, WriteConflict, Commit
      <4>2. CASE Pay(t)
        BY <4>2 DEF Pay, TypeOK
      <4>3. CASE GetBankToken(t)
        BY <4>3 DEF GetBankToken, TypeOK
      <4>4. CASE ConfirmPayment(t)
        BY <4>4 DEF ConfirmPayment, TypeOK
      <4> QED
        BY <4>1, <4>2, <4>3, <4>4
    <3> QED
      BY <3>1, <3>2
  <2>3. LocksInv'
    BY <1>1, <2>1, <2>2, LocksStay
  <2>4. CASE WriteConflict(t)
    <3>1. Abort(t)
      BY <2>4 DEF WriteConflict
    <3> QED
      BY <2>3, <3>1, AbortEmpties, AbortKeeping
  <2>5. CASE ~WriteConflict(t)
    <3>1. Keeping(t)' \/ Paying(t)' \/ Releasing(t)'
      BY <1>3, <2>5, InvoiceHandlersKeep, IncomeHandlersKeep, SettlementKeeps,
         ConfirmPaymentKeeps, QuietHandlersKeep, VerifyKeeps, PayKeeps,
         WriteInTransactionLocks DEF Proceed
    <3> QED
      BY <2>3, <3>1
  <2> QED
    BY <2>4, <2>5
<1> QED
  BY <1>2, <1>3

LEMMA InitLocks ==
    ASSUME Init
    PROVE  LockInv
<1>1. ASSUME NEW d \in Doc
      PROVE  /\ doc[d].lock = NoLock
             /\ d \in Payment => doc[d].status \in {"none", "unpaid", "pending"}
  BY <1>1, InitDoc, BillingAssumption DEF Blank
<1>2. ASSUME NEW p \in Payment PROVE doc[p] = Blank
  <2>1. PICK future : doc = [d \in Doc |-> AtFirst(d, future)]
    BY DEF Init
  <2> QED
    BY <2>1, DocSets, BillingAssumption DEF AtFirst
<1>3. LocksInv
  BY <1>1, <1>2, DocSets DEF LocksInv, CompletesLate, Created, Blank
<1>4. ASSUME NEW t \in Thread PROVE Keeping(t)
  <2>1. agenda[t] = <<>> /\ wrote[t] = {}
    BY DEF Init
  <2>2. Steps(t) = {}
    BY <2>1, ElemsShort DEF Steps, Elems
  <2> QED
    BY <2>1, <2>2 DEF Keeping, Completes
<1> QED
  BY <1>3, <1>4 DEF LockInv

\* Requests come one at a time.
LEMMA NextLocks ==
    ASSUME TypeOK, LedgerInv, LockInv, NEW t, Thread = {t}, [Next]_vars
    PROVE  LockInv'
<1>1. LocksInv /\ (Keeping(t) \/ Paying(t) \/ Releasing(t))
  BY DEF LockInv
<1>2. SUFFICES LocksInv' /\ (Keeping(t) \/ Paying(t) \/ Releasing(t))'
  BY DEF LockInv
<1>3. CASE Proceed(t)
  BY <1>3, ProceedLocks
<1>4. CASE MakeRequest(t)
  BY <1>1, <1>4, MakeRequestKeeping, LocksStay DEF MakeRequest, env
<1>5. CASE Fail(t)
  BY <1>1, <1>5, AbortEmpties, AbortKeeping, LocksStay DEF Fail, env
<1>6. CASE TransactionTimeout(t)
  <2>1. /\ wrote'[t] = {} /\ stale'[t] = Doc /\ UNCHANGED <<doc, agenda, elapsed, bank>>
    BY <1>6 DEF TransactionTimeout, TypeOK, env
  <2> QED
    BY <1>1, <2>1, RequestStays, LocksStay
<1>7. ASSUME NEW p \in Payment, PayerDecides(p) \/ LockElapses(p)
      PROVE  LocksInv' /\ (Keeping(t) \/ Paying(t) \/ Releasing(t))'
  <2>1. /\ UNCHANGED <<doc, agenda, wrote, buf, stale>> /\ elapsed \subseteq elapsed'
        /\ \A q \in Payment : bank[q] = "closed" => bank'[q] = "closed"
    BY <1>7 DEF PayerDecides, LockElapses, txn, TypeOK
  <2> QED
    BY <1>1, <2>1, RequestStays, LocksStay
<1>8. CASE Restart
  <2>1. agenda'[t] = <<>> /\ wrote'[t] = {} /\ UNCHANGED <<doc, elapsed, bank>>
    BY <1>8 DEF Restart, env
  <2> QED
    BY <1>1, <2>1, AbortKeeping, LocksStay
<1>9. CASE UNCHANGED vars
  <2>1. UNCHANGED <<doc, agenda, wrote, buf, stale, elapsed, bank>>
    BY <1>9 DEF vars, txn, env
  <2> QED
    BY <1>1, <2>1, RequestStays, LocksStay
<1> QED
  BY <1>3, <1>4, <1>5, <1>6, <1>7, <1>8, <1>9 DEF Next

\* A locked invoice keeps its status in every step.
LEMMA NextHolds ==
    ASSUME TypeOK, LedgerInv, LockInv, NEW t, Thread = {t}, [Next]_vars,
           NEW v \in Invoice, Locked(doc[v])
    PROVE  doc'[v].status = doc[v].status
<1>1. CASE WriteDirect(t)
  <2> DEFINE s == Head(agenda[t])
  <2>1. /\ agenda[t] # <<>> /\ s \in Steps(t) /\ s.op = "write" /\ s.on \in SUBSET Doc
        /\ \A d \in Doc \ s.on : doc'[d] = doc[d]
        /\ \A d \in s.on : s.to.status = "keep" => doc'[d].status = doc[d].status
    BY <1>1, WriteDirectDocs
  <2>2. ~Releasing(t)
    <3>1. Head(agenda[t]).tx = FALSE
      BY <1>1, WriteDirectDocs
    <3>2. ASSUME NEW w \in Invoice, NEW p \in Payment,
                 LET close   == Write({p}, Becomes("canceled"), TRUE)
                     invoice == Write({w}, LockedBy(NoLock), TRUE)
                     incomes == Write(doc[w].items, LockedBy(NoLock), TRUE) IN
                 \/ agenda[t] = <<close, invoice, incomes>>
                 \/ agenda[t] = <<invoice, incomes>>
                 \/ agenda[t] = <<incomes>>
          PROVE  Head(agenda[t]).tx = TRUE
      BY <3>2, ShortAgenda DEF Write, Do
    <3> QED
      BY <2>1, <3>1, <3>2 DEF Releasing
  <2>3. CASE Keeping(t)
    BY <2>1, <2>3, DocSets DEF Keeping, Respects
  <2>4. CASE Paying(t)
    <3>1. ASSUME NEW w \in Invoice, NEW p \in Payment,
                 LET incomes == Write(doc[w].items, LockedBy(p), FALSE)
                     invoice == Write({w}, LockedBy(p), FALSE)
                     create  == Do("createPayment", {w, p}, FALSE)
                     token   == Do("token", {p}, FALSE) IN
                 \/ agenda[t] = <<incomes, invoice, create, token>>
                 \/ agenda[t] = <<invoice, create, token>>
                 \/ agenda[t] = <<create, token>>
          PROVE  Head(agenda[t]).op = "write" => Head(agenda[t]).to.status = "keep"
      BY <3>1, ShortAgenda, PlainChanges DEF Write, Do
    <3>2. s.to.status = "keep"
      BY <2>1, <2>4, <3>1 DEF Paying
    <3> QED
      BY <2>1, <3>2, DocSets
  <2> QED
    BY <2>2, <2>3, <2>4 DEF LockInv
<1>2. CASE CreatePayment(t)
  <2>1. PICK p \in Payment : \E x : doc' = [doc EXCEPT ![p] = x]
    BY <1>2 DEF CreatePayment
  <2> QED
    BY <2>1, DocSets, BillingAssumption DEF TypeOK
<1>3. CASE Insert(t) \/ Commit(t)
  BY <1>3, InsertLocks, CommitLocks
<1>4. CASE UNCHANGED doc
  BY <1>4
<1>5. CASE Proceed(t)
  BY <1>1, <1>2, <1>3, <1>4, <1>5, DocSteps
<1>6. CASE MakeRequest(t) \/ Fail(t) \/ TransactionTimeout(t)
  BY <1>6 DEF MakeRequest, Fail, TransactionTimeout, Abort
<1>7. CASE Restart \/ UNCHANGED vars \/ \E p \in Payment : PayerDecides(p) \/ LockElapses(p)
  BY <1>7 DEF Restart, vars, PayerDecides, LockElapses
<1> QED
  BY <1>5, <1>6, <1>7 DEF Next

(***************************************************************************)
(* When requests come one at a time, LockInv holds in every reachable      *)
(* state: each request leaves locks alone, pays or releases, by the rules. *)
(***************************************************************************)
THEOREM SerialLocks ==
    ASSUME NEW t, Thread = {t}
    PROVE  Spec => []LockInv
<1>1. Init => LockInv
  BY InitLocks
<1>2. TypeOK /\ LedgerInv /\ LockInv /\ [Next]_vars => LockInv'
  BY NextLocks
<1> QED
  BY <1>1, <1>2, BillingType, LedgerCorrect, PTL DEF Spec

(***************************************************************************)
(* Requests one at a time, an invoice does not move while its lock runs.   *)
(***************************************************************************)
THEOREM SerialLockHolds ==
    ASSUME NEW t, Thread = {t}
    PROVE  Spec => LockHolds
<1>1. TypeOK /\ LedgerInv /\ LockInv /\ [Next]_vars
        => [\A v \in Invoice : Locked(doc[v]) => doc'[v].status = doc[v].status]_vars
  BY NextHolds
<1> QED
  BY <1>1, SerialLocks, BillingType, LedgerCorrect, PTL DEF Spec, LockHolds

(***************************************************************************)
(* Requests one at a time, a payment that completes has outlived its lock, *)
(* or another payment of the invoice took the lock over.                   *)
(***************************************************************************)
THEOREM SerialCompletesLate ==
    ASSUME NEW t, Thread = {t}
    PROVE  Spec => []CompletesLate
<1>1. LockInv => CompletesLate
  BY DEF LockInv, LocksInv
<1> QED
  BY <1>1, SerialLocks, PTL

-----------------------------------------------------------------------------
(* Incomes follow their invoices.                                          *)

\* The steps of E that change the status of document d in the transaction.
Alters(E, d) == {s \in E : s.op = "write" /\ s.tx /\ s.to.status # "keep" /\ d \in s.on}

\* Where a document ends up when the handler at the head goes on with E.
LEMMA EndsGoes ==
    ASSUME TypeOK, NEW t \in Thread, agenda[t] # <<>>, Head(agenda[t]).op # "write",
           NEW E, Goes(t, E), NEW d \in Doc, NEW x
    PROVE  /\ SetsInTransaction(t, d) = Alters(Rest(t), d)
           /\ SetsInTransaction(t, d)' = Alters(E, d) \cup Alters(Rest(t), d)
           /\ x \in Ends(t, d)' =>
                \/ \E s \in Alters(E, d) : s.to.status = x
                \/ x \in Ends(t, d)
           /\ x \in Ends(t, d)' /\ Alters(E, d) # {} =>
                \E s \in Alters(E, d) \cup Alters(Rest(t), d) : s.to.status = x
<1>1. /\ Steps(t) = {Head(agenda[t])} \cup Rest(t)
      /\ Steps(t)' = E \cup Rest(t)
      /\ UNCHANGED <<doc, wrote, buf, stale>>
  BY GoesSteps
<1>2. SetsInTransaction(t, d) = Alters(Rest(t), d)
  BY <1>1 DEF SetsInTransaction, Alters
<1>3. SetsInTransaction(t, d)' = Alters(E, d) \cup Alters(Rest(t), d)
  BY <1>1 DEF SetsInTransaction, Alters
<1>4. View(t, d)' = View(t, d)
  BY <1>1 DEF View
<1> QED
  BY <1>2, <1>3, <1>4 DEF Ends

\* The same when nothing else is left of the request.
LEMMA EndsAlone ==
    ASSUME TypeOK, NEW t \in Thread, agenda[t] # <<>>, Head(agenda[t]).op # "write",
           NEW E, Goes(t, E), Rest(t) = {}, NEW d \in Doc, Alters(E, d) # {}
    PROVE  \A x \in Ends(t, d)' : \E s \in Alters(E, d) : s.to.status = x
<1>1. Steps(t)' = E
  BY GoesSteps
<1>2. SetsInTransaction(t, d)' = Alters(E, d)
  BY <1>1 DEF SetsInTransaction, Alters
<1> QED
  BY <1>2 DEF Ends

\* Every document ends up as something.
LEMMA SomeEnd ==
    ASSUME TypeOK, NEW t \in Thread, NEW d \in Doc
    PROVE  Ends(t, d) # {} /\ Ends(t, d) \subseteq Status
<1>1. CASE SetsInTransaction(t, d) = {}
  <2>1. View(t, d).status \in Status
    BY ViewType DEF Document
  <2> QED
    BY <1>1, <2>1 DEF Ends
<1>2. CASE SetsInTransaction(t, d) # {}
  <2>1. ASSUME NEW s \in SetsInTransaction(t, d)
        PROVE  s.to.status \in Status
    <3>1. s \in Step /\ s.to.status # "keep"
      BY StepsType DEF SetsInTransaction
    <3> QED
      BY <3>1 DEF Step, Change
  <2> QED
    BY <1>2, <2>1 DEF Ends
<1> QED
  BY <1>1, <1>2

\* The status an open invoice, a paid and a cancelled one call for.
LEMMA HeldOpen ==
    /\ \A x \in OpenStatus : HeldStatus(x) = {"pending"}
    /\ HeldStatus("paid") = {"paid"}
    /\ HeldStatus("canceled") = {"unpaid", "canceled"}
    /\ \A x \in Status : \A y \in HeldStatus(x) : y \in {"paid", "unpaid", "canceled", "pending"}
  BY DEF HeldStatus, OpenStatus

\* A request that is not creating an invoice sees the items that are committed.
LEMMA SoleFuture ==
    ASSUME TypeOK, LedgerInv, NEW t \in Thread, ~Making(t)
    PROVE  /\ \A v \in Invoice : Future(t)[v].items = doc[v].items
           /\ \A v \in Invoice : \A i : Sole(Future(t), v, i) <=> Sole(doc, v, i)
<1>1. ASSUME NEW v \in Invoice
      PROVE  Future(t)[v].items = doc[v].items
  <2>1. BufInv(t)
    BY DEF LedgerInv, RequestInv
  <2>2. Future(t)[v] = View(t, v)
    BY DocSets DEF Future
  <2>3. v \in wrote[t] => Created(v)
    BY DEF Making
  <2> QED
    BY <2>1, <2>2, <2>3 DEF View, BufInv, Created
<1> QED
  BY <1>1 DEF Sole

\* What is left behind the head, and a handler that is alone.
LEMMA BehindHandler ==
    ASSUME TypeOK, NEW t \in Thread, PlanInv(t), agenda[t] # <<>>
    PROVE  /\ \A s \in Rest(t) : ~Begins(s)
           /\ Begins(Head(agenda[t])) => Rest(t) = {} /\ wrote[t] = {}
           /\ Head(agenda[t]) \in Steps(t) /\ Rest(t) \subseteq Steps(t)
           /\ Steps(t) = {Head(agenda[t])} \cup Rest(t)
<1>1. Steps(t) = {Head(agenda[t])} \cup Rest(t)
  BY ElemsTail DEF TypeOK, Rest, Steps, Elems
<1>2. ASSUME NEW s \in Steps(t), Begins(s)
      PROVE  Rest(t) = {} /\ wrote[t] = {}
  <2>1. agenda[t] = <<s>> /\ wrote[t] = {}
    BY <1>2 DEF PlanInv
  <2>2. Tail(agenda[t]) = <<>>
    BY <2>1, ShortAgenda
  <2> QED
    BY <2>1, <2>2, ElemsShort DEF Rest
<1> QED
  BY <1>1, <1>2

\* What a handler may put on the agenda.
Follows(t, s) ==
    /\ DirectInv(s) \/ DirectInv(s)'
    /\ s.op = "write" => \A v \in s.on \cap Invoice : Created(v)
    /\ ~Begins(s)
    /\ s.op = "insert" => s.tx \/ s.on \subseteq Free

LEMMA DirectKept ==
    ASSUME NEW s, DirectInv(s), UNCHANGED doc, dropped \subseteq dropped'
    PROVE  DirectInv(s)'
  BY DEF DirectInv, Sole

\* The plan of a request whose handler goes on with E.
LEMMA PlanGoes ==
    ASSUME TypeOK, NEW t \in Thread, PlanInv(t), agenda[t] # <<>>,
           Head(agenda[t]).op \notin {"write", "insert"}, dropped \subseteq dropped',
           NEW E, Goes(t, E), \A s \in E : Follows(t, s),
           (\E s \in E \cup Rest(t) : s.op = "revertToPreviousState")
              => \A s \in E \cup Rest(t) : Reopens(s),
           (\E s \in E : s.op = "insert")
              => \A s \in E \cup Rest(t) : s.op = "insert" \/ (s.op = "write" /\ s.tx)
    PROVE  PlanInv(t)'
<1>1. /\ Steps(t) = {Head(agenda[t])} \cup Rest(t)
      /\ Steps(t)' = E \cup Rest(t)
      /\ UNCHANGED <<doc, wrote, buf, stale>>
  BY GoesSteps
<1>2. \A s \in Rest(t) : ~Begins(s)
  BY BehindHandler
<1>3. ~Making(t)
  BY <1>1 DEF PlanInv
<1>4. \A s \in Steps(t)' : DirectInv(s)'
  BY <1>1, DirectKept DEF PlanInv, Follows
<1>5. \A s \in Steps(t)' : s.op = "write" => \A v \in s.on \cap Invoice : Created(v)'
  BY <1>1 DEF PlanInv, Follows, Created
<1>6. \A s \in Steps(t)' : ~Begins(s)
  BY <1>1, <1>2 DEF Follows
<1>7. \A s \in Steps(t)' : s.op = "revertToPreviousState" => \A r \in Steps(t)' : Reopens(r)
  BY <1>1
<1>8. ASSUME NEW s \in Steps(t)'
      PROVE  /\ s.op = "createInvoice" => s.on \subseteq Free \/ s.on \cap Free = {}
             /\ s.op = "insert" /\ ~s.tx => s.on \subseteq Free
  <2>1. s.op # "createInvoice"
    BY <1>6 DEF Begins, Request
  <2> QED
    BY <1>1, <2>1 DEF PlanInv, Follows
<1>9. Making(t)' => \A s \in Steps(t)' : s.op = "insert" \/ (s.op = "write" /\ s.tx)
  BY <1>1, <1>3 DEF Making, Created
<1> QED
  BY <1>4, <1>5, <1>6, <1>7, <1>8, <1>9 DEF PlanInv

\* Nothing that the steps E change is an income or an invoice.
Silent(E) ==
    \A s \in E : /\ s.op # "insert"
                 /\ \A d \in Income \cup Invoice : s \notin Alters(E, d)

LEMMA InsertingGoes ==
    ASSUME TypeOK, NEW t \in Thread, agenda[t] # <<>>, NEW E, Goes(t, E),
           Head(agenda[t]).op # "insert"
    PROVE  /\ \A i : i \in Inserting(t) => i \in Inserting(t)'
           /\ \A i : i \in Inserting(t)' =>
                i \in Inserting(t) \/ \E s \in E : s.op = "insert" /\ s.tx /\ i \in s.on
           /\ Future(t)' = Future(t)
<1>1. /\ Steps(t) = {Head(agenda[t])} \cup Rest(t)
      /\ Steps(t)' = E \cup Rest(t)
      /\ UNCHANGED <<doc, wrote, buf, stale>>
  BY GoesSteps
<1>2. Future(t)' = Future(t)
  BY <1>1 DEF Future, View
<1> QED
  BY <1>1, <1>2 DEF Inserting

\* The outcome does not change when the new steps change nothing.
LEMMA SilentGoes ==
    ASSUME TypeOK, NEW t \in Thread, OutcomeInv(t), agenda[t] # <<>>,
           Head(agenda[t]).op \notin {"write", "insert"}, dropped \subseteq dropped',
           NEW E, Goes(t, E), Silent(E)
    PROVE  OutcomeInv(t)'
<1>1. /\ \A i : i \in Inserting(t) <=> i \in Inserting(t)'
      /\ Future(t)' = Future(t)
  BY InsertingGoes DEF Silent
<1>2. ASSUME NEW d \in Income \cup Invoice, NEW x, x \in Ends(t, d)'
      PROVE  x \in Ends(t, d)
  <2>1. Alters(E, d) = {}
    BY DEF Silent, Alters
  <2> QED
    BY <1>2, <2>1, EndsGoes, DocSets
<1>3. ASSUME NEW v \in Invoice, NEW i \in Income, Sole(Future(t), v, i)'
      PROVE  Sole(Future(t), v, i)
  BY <1>1, <1>3 DEF Sole
<1>4. ASSUME NEW v \in Invoice, NEW i \in Income \ Inserting(t)', Sole(Future(t), v, i)',
             NEW x \in Ends(t, v)', NEW y \in Ends(t, i)'
      PROVE  y \in HeldStatus(x)
  <2>1. Sole(Future(t), v, i) /\ i \in Income \ Inserting(t)
    BY <1>1, <1>3, <1>4
  <2>2. x \in Ends(t, v) /\ y \in Ends(t, i)
    BY <1>2, <1>4
  <2> QED
    BY <2>1, <2>2 DEF OutcomeInv
<1>5. ASSUME NEW i \in Inserting(t)', NEW y \in Ends(t, i)'
      PROVE  y = "pending"
  <2>1. i \in Inserting(t) /\ i \in Income
    BY <1>1 DEF Inserting
  <2> QED
    BY <1>2, <1>5, <2>1 DEF OutcomeInv
<1> QED
  BY <1>4, <1>5 DEF OutcomeInv, HeldStatus

\* The outcome of a handler that changes invoice w and its items alone.
LEMMA OutcomeGoes ==
    ASSUME TypeOK, LedgerInv, NEW t \in Thread, PlanInv(t), OutcomeInv(t), agenda[t] # <<>>,
           Head(agenda[t]).op \notin {"write", "insert"}, dropped \subseteq dropped',
           NEW E, Goes(t, E), \A s \in E : s.op # "insert", NEW w \in Invoice,
           \A v \in Invoice \ {w} : Alters(E, v) = {},
           \A i \in Income \ doc[w].items : Alters(E, i) = {},
           \A i \in Income : Sole(doc, w, i) =>
             \A x \in Ends(t, w)', y \in Ends(t, i)' : y \in HeldStatus(x)
    PROVE  OutcomeInv(t)'
<1>1. /\ \A i : i \in Inserting(t) <=> i \in Inserting(t)'
      /\ Future(t)' = Future(t)
  BY InsertingGoes
<1>2. ~Making(t) /\ Inserting(t) = {}
  <2>1. Head(agenda[t]) \in Steps(t)
    BY BehindHandler
  <2>2. ~Making(t)
    BY <2>1 DEF PlanInv
  <2> QED
    BY <2>2 DEF Inserting, Making
<1>3. ASSUME NEW d \in Income \cup Invoice, Alters(E, d) = {}, NEW x, x \in Ends(t, d)'
      PROVE  x \in Ends(t, d)
  BY <1>3, EndsGoes, DocSets
<1>4. ASSUME NEW v \in Invoice, NEW i \in Income, Sole(Future(t), v, i)',
             NEW x \in Ends(t, v)', NEW y \in Ends(t, i)'
      PROVE  y \in HeldStatus(x)
  <2>1. Sole(Future(t), v, i)
    BY <1>1, <1>4 DEF Sole
  <2>2. Sole(doc, v, i)
    BY <1>2, <2>1, SoleFuture
  <2>3. CASE v = w
    BY <1>4, <2>2, <2>3
  <2>4. CASE v # w
    <3>1. i \notin doc[w].items
      BY <2>2, <2>4 DEF Sole
    <3>2. x \in Ends(t, v) /\ y \in Ends(t, i)
      BY <1>3, <1>4, <2>4, <3>1
    <3> QED
      BY <1>2, <2>1, <3>2 DEF OutcomeInv
  <2> QED
    BY <2>3, <2>4
<1>5. Inserting(t)' = {}
  BY <1>1, <1>2
<1> QED
  BY <1>4, <1>5 DEF OutcomeInv, HeldStatus

\* A request that begins has changed nothing yet.
LEMMA FreshOutcome ==
    ASSUME TypeOK, LedgerInv, NEW t \in Thread, IncomeFollowsInvoice, PlanInv(t),
           agenda[t] # <<>>, Begins(Head(agenda[t]))
    PROVE  /\ OutcomeInv(t) /\ Rest(t) = {} /\ wrote[t] = {}
           /\ \A d \in Doc : Ends(t, d) = {doc[d].status}
           /\ Head(agenda[t]).op \notin {"write", "insert"}
           /\ Inserting(t) = {} /\ ~Making(t)
<1>1. Rest(t) = {} /\ wrote[t] = {} /\ Steps(t) = {Head(agenda[t])} \cup Rest(t)
  BY BehindHandler
<1>2. Steps(t) = {Head(agenda[t])}
  BY <1>1
<1>3. Head(agenda[t]).op \notin {"write", "insert"}
  BY DEF Begins, Request
<1>4. ASSUME NEW d \in Doc PROVE Ends(t, d) = {doc[d].status}
  BY <1>1, <1>2, <1>3 DEF Ends, SetsInTransaction, View
<1>5. Inserting(t) = {} /\ ~Making(t)
  BY <1>1, <1>2, <1>3 DEF Inserting, Making
<1>6. OutcomeInv(t)
  <2>1. ASSUME NEW v \in Invoice, NEW i \in Income, Sole(Future(t), v, i)
        PROVE  doc[i].status \in HeldStatus(doc[v].status)
    BY <1>5, <2>1, SoleFuture DEF IncomeFollowsInvoice
  <2>2. \A v \in Invoice : v \in Doc
    BY DocSets
  <2>3. \A i \in Income : i \in Doc
    BY DocSets
  <2>4. ASSUME NEW v \in Invoice, NEW i \in Income, Sole(Future(t), v, i),
               NEW x \in Ends(t, v), NEW y \in Ends(t, i)
        PROVE  y \in HeldStatus(x)
    BY <1>4, <2>1, <2>2, <2>3, <2>4
  <2> QED
    BY <1>5, <2>4 DEF OutcomeInv
<1> QED
  BY <1>1, <1>3, <1>4, <1>5, <1>6

LEMMA OpenGoes ==
    ASSUME TypeOK, LedgerInv, NEW t \in Thread, PlanInv(t), OutcomeInv(t), agenda[t] # <<>>,
           Head(agenda[t]).op \notin {"write", "insert"}, dropped \subseteq dropped',
           NEW E, Goes(t, E), NEW w \in Invoice,
           \E x \in OpenStatus : x \in Ends(t, w),
           \A s \in E : /\ s.op # "insert"
                        /\ s.op = "write" /\ s.tx /\ s.to.status # "keep" =>
                             \/ s.on = doc[w].items /\ s.to.status = "pending"
                             \/ s.on = {w} /\ s.to.status \in OpenStatus
    PROVE  OutcomeInv(t)'
<1>1. doc[w].items \cap Invoice = {} /\ doc[w].items \subseteq Income /\ w \notin Income
  BY NoPayments, BillingAssumption DEF LedgerInv, BooksInv
<1>2. \A v \in Invoice \ {w} : Alters(E, v) = {}
  BY <1>1 DEF Alters
<1>3. \A i \in Income \ doc[w].items : Alters(E, i) = {}
  BY <1>1 DEF Alters
<1>4. ~Making(t) /\ Inserting(t) = {}
  <2>1. Head(agenda[t]) \in Steps(t)
    BY BehindHandler
  <2>2. ~Making(t)
    BY <2>1 DEF PlanInv
  <2> QED
    BY <2>2 DEF Inserting, Making
<1>5. ASSUME NEW i \in Income, Sole(doc, w, i),
             NEW x \in Ends(t, w)', NEW y \in Ends(t, i)'
      PROVE  y \in HeldStatus(x)
  <2>1. Sole(Future(t), w, i)
    BY <1>4, <1>5, SoleFuture
  <2>2. \A z \in Ends(t, i) : z = "pending"
    BY <1>4, <2>1, HeldOpen DEF OutcomeInv
  <2>3. \A u \in Ends(t, w) : "pending" \in HeldStatus(u)
    <3>1. PICK z : z \in Ends(t, i)
      BY SomeEnd, DocSets
    <3> QED
      BY <1>4, <2>1, <2>2, <3>1 DEF OutcomeInv
  <2>4. y = "pending"
    <3>1. \A s \in Alters(E, i) : s.to.status = "pending"
      BY <1>1 DEF Alters
    <3> QED
      BY <1>5, <2>2, <3>1, EndsGoes, DocSets
  <2>5. x \in OpenStatus \/ x \in Ends(t, w)
    <3>1. \A s \in Alters(E, w) : s.to.status \in OpenStatus
      BY <1>1 DEF Alters
    <3>2. (\E s \in Alters(E, w) : s.to.status = x) \/ x \in Ends(t, w)
      BY <1>5, EndsGoes, DocSets
    <3> QED
      BY <3>1, <3>2
  <2> QED
    BY <2>3, <2>4, <2>5, HeldOpen
<1> QED
  BY <1>2, <1>3, <1>5, OutcomeGoes

\* What is true of request t and the documents when requests come one at a time.
Follow(t) == IncomeFollowsInvoice /\ PlanInv(t) /\ (Void(t) \/ OutcomeInv(t))

LEMMA FollowsStays ==
    ASSUME IncomeFollowsInvoice, UNCHANGED doc, dropped \subseteq dropped'
    PROVE  IncomeFollowsInvoice'
  BY DEF IncomeFollowsInvoice, Sole, HeldStatus

\* A request that has written nothing, and is not about to, will not change a
\* thing.
LEMMA OutcomeFresh ==
    ASSUME NEW t \in Thread, IncomeFollowsInvoice', wrote'[t] = {},
           \A s \in Steps(t)' : s.op \notin {"write", "insert"}
    PROVE  OutcomeInv(t)' /\ ~Making(t)'
<1>1. Inserting(t)' = {} /\ ~Making(t)'
  BY DEF Inserting, Making
<1>2. ASSUME NEW d \in Doc PROVE View(t, d)' = doc'[d]
  BY DEF View
<1>3. \A d : SetsInTransaction(t, d)' = {}
  BY DEF SetsInTransaction
<1>4. ASSUME NEW d \in Doc PROVE Ends(t, d)' = {doc'[d].status} /\ Future(t)'[d] = doc'[d]
  BY <1>2, <1>3 DEF Ends, Future
<1>5. ASSUME NEW v \in Invoice, NEW i \in Income, Sole(Future(t), v, i)',
             NEW x \in Ends(t, v)', NEW y \in Ends(t, i)'
      PROVE  y \in HeldStatus(x)
  <2>1. Sole(doc, v, i)'
    BY <1>4, <1>5, DocSets DEF Sole
  <2>2. x = doc'[v].status /\ y = doc'[i].status
    BY <1>4, <1>5, DocSets
  <2> QED
    BY <2>1, <2>2 DEF IncomeFollowsInvoice, HeldStatus
<1> QED
  BY <1>1, <1>5 DEF OutcomeInv, HeldStatus

\* A request ends, whatever it had planned.
LEMMA FollowEmpty ==
    ASSUME NEW t \in Thread, IncomeFollowsInvoice', agenda'[t] = <<>>, wrote'[t] = {}
    PROVE  Follow(t)'
<1>1. Steps(t)' = {}
  BY ElemsShort DEF Steps, Elems
<1>2. OutcomeInv(t)' /\ ~Making(t)'
  BY <1>1, OutcomeFresh
<1>3. PlanInv(t)'
  BY <1>1, <1>2 DEF PlanInv
<1> QED
  BY <1>2, <1>3 DEF Follow

LEMMA FollowAbort ==
    ASSUME TypeOK, NEW t \in Thread, IncomeFollowsInvoice, Abort(t), dropped \subseteq dropped'
    PROVE  Follow(t)'
<1>1. agenda'[t] = <<>> /\ wrote'[t] = {} /\ UNCHANGED doc
  BY DEF Abort, TypeOK
<1> QED
  BY <1>1, FollowsStays, FollowEmpty

LEMMA FollowGoes ==
    ASSUME TypeOK, LedgerInv, NEW t \in Thread, Follow(t), agenda[t] # <<>>,
           Head(agenda[t]).op \notin {"write", "insert"}, dropped \subseteq dropped',
           NEW E, Goes(t, E), \A s \in E : Follows(t, s),
           \A s \in E : s.op = "revertToPreviousState" =>
             Head(agenda[t]).op = "revertToPreviousState",
           (\E s \in Steps(t) : s.op = "revertToPreviousState") => \A s \in E : Reopens(s),
           (\E s \in E : s.op = "insert")
              => \A s \in E \cup Rest(t) : s.op = "insert" \/ (s.op = "write" /\ s.tx),
           OutcomeInv(t) => OutcomeInv(t)'
    PROVE  Follow(t)'
<1>1. UNCHANGED <<doc, wrote, stale>> /\ IncomeFollowsInvoice /\ PlanInv(t)
  BY GoesSteps DEF Follow
<1>2. IncomeFollowsInvoice'
  BY <1>1, FollowsStays
<1>3. Void(t)' \/ OutcomeInv(t)'
  <2>1. Void(t) => Void(t)'
    BY <1>1 DEF Void, Lost
  <2> QED
    BY <2>1 DEF Follow
<1>4. Head(agenda[t]) \in Steps(t) /\ Rest(t) \subseteq Steps(t)
  BY <1>1, BehindHandler
<1>5. (\E s \in E \cup Rest(t) : s.op = "revertToPreviousState")
        => \A s \in E \cup Rest(t) : Reopens(s)
  <2>1. ASSUME NEW s \in Steps(t), s.op = "revertToPreviousState"
        PROVE  \A r \in E \cup Rest(t) : Reopens(r)
    BY <1>1, <1>4, <2>1 DEF PlanInv
  <2> QED
    BY <1>4, <2>1
<1>6. PlanInv(t)'
  BY <1>1, <1>5, PlanGoes
<1> QED
  BY <1>2, <1>3, <1>6 DEF Follow

\* A handler that is alone on the agenda.
LEMMA FollowBegins ==
    ASSUME TypeOK, LedgerInv, NEW t \in Thread, Follow(t), agenda[t] # <<>>,
           Begins(Head(agenda[t])), dropped \subseteq dropped',
           NEW E, Goes(t, E), \A s \in E : Follows(t, s),
           \A s \in E : s.op # "revertToPreviousState",
           (\E s \in E : s.op = "insert")
              => \A s \in E : s.op = "insert" \/ (s.op = "write" /\ s.tx),
           OutcomeInv(t) => OutcomeInv(t)'
    PROVE  Follow(t)'
<1>1. /\ Rest(t) = {} /\ Head(agenda[t]).op \notin {"write", "insert"}
      /\ Steps(t) = {Head(agenda[t])} \cup Rest(t)
  BY FreshOutcome, BehindHandler DEF Follow
<1>2. Head(agenda[t]).op # "revertToPreviousState"
  BY DEF Begins
<1> QED
  BY <1>1, <1>2, FollowGoes

LEMMA StepFields ==
    ASSUME NEW D, NEW c, NEW tx, NEW op
    PROVE  /\ Write(D, c, tx).op = "write" /\ Write(D, c, tx).on = D
           /\ Write(D, c, tx).to = c /\ Write(D, c, tx).tx = tx
           /\ Do(op, D, tx).op = op /\ Do(op, D, tx).on = D /\ Do(op, D, tx).tx = tx
  BY DEF Write, Do

\* Writes in the transaction, and those that change no status.
LEMMA WriteFollows ==
    ASSUME NEW t \in Thread, NEW D, \A v \in D \cap Invoice : Created(v),
           NEW c, NEW tx, tx \/ c.status = "keep"
    PROVE  Follows(t, Write(D, c, tx))
<1> DEFINE s == Write(D, c, tx)
<1>1. s.op = "write" /\ s.on = D /\ s.to = c /\ s.tx = tx
  BY StepFields
<1> HIDE DEF s
<1>2. DirectInv(s)
  BY <1>1 DEF DirectInv
<1>3. ~Begins(s)
  BY <1>1 DEF Begins, Request
<1> QED
  BY <1>1, <1>2, <1>3 DEF Follows, s

\* Writes outside the transaction that bill the items of an invoice.
LEMMA BillFollows ==
    ASSUME TypeOK, LedgerInv, NEW t \in Thread, NEW v \in Invoice,
           doc[v].status \in {"active", "issued", "pending"}
    PROVE  /\ Follows(t, Write(doc[v].items, Becomes("pending"), FALSE))
           /\ Follows(t, Write({v}, Becomes("pending"), FALSE))
           /\ Follows(t, Write({v}, Issued, FALSE))
<1>1. doc[v].items \cap Invoice = {} /\ doc[v].items \subseteq Income /\ v \notin Income
  BY NoPayments, BillingAssumption DEF LedgerInv, BooksInv
<1>2. Created(v) /\ doc[v].status \in OpenStatus
  BY DEF Created, OpenStatus, Status
<1>3. ASSUME NEW s, s.op = "write", s.on = doc[v].items \/ s.on = {v},
             s.on = doc[v].items => s.to.status = "pending",
             s.to.status \in OpenStatus
      PROVE  Follows(t, s)
  <2>1. DirectInv(s)
    BY <1>1, <1>2, <1>3 DEF DirectInv, Sole
  <2>2. ~Begins(s)
    BY <1>3 DEF Begins, Request
  <2> QED
    BY <1>1, <1>2, <1>3, <2>1, <2>2 DEF Follows
<1>4. Becomes("pending").status = "pending" /\ Issued.status = "issued"
  BY PlainChanges
<1>5. "pending" \in OpenStatus /\ "issued" \in OpenStatus
  BY DEF OpenStatus, Status
<1> DEFINE a == Write(doc[v].items, Becomes("pending"), FALSE)
           b == Write({v}, Becomes("pending"), FALSE)
           c == Write({v}, Issued, FALSE)
<1>6. /\ a.op = "write" /\ a.on = doc[v].items /\ a.to.status = "pending"
      /\ b.op = "write" /\ b.on = {v} /\ b.to.status = "pending"
      /\ c.op = "write" /\ c.on = {v} /\ c.to.status = "issued"
  BY <1>4 DEF Write, Do
<1>7. v \notin doc[v].items
  BY <1>1
<1> HIDE DEF a, b, c
<1>8. Follows(t, a) /\ Follows(t, b) /\ Follows(t, c)
  BY <1>3, <1>5, <1>6, <1>7
<1> QED
  BY <1>8 DEF a, b, c

\* Calls that are not requests, and those that may follow other steps.
LEMMA DoFollows ==
    ASSUME NEW t \in Thread, NEW op, NEW D, NEW tx,
           \/ op \in StepOp \ (Request \cup {"write", "insert"})
           \/ op \in {"makeInvoicePaid", "revertToPreviousState"}
           \/ op = "issue" /\ ~tx
           \/ op = "insert" /\ (tx \/ D \subseteq Free)
    PROVE  Follows(t, Do(op, D, tx))
<1> DEFINE s == Do(op, D, tx)
<1>1. s.op = op /\ s.on = D /\ s.tx = tx
  BY StepFields
<1> HIDE DEF s
<1>2. op # "write"
  OBVIOUS
<1>3. ~Begins(s)
  BY <1>1 DEF Begins, StepOp, Request
<1> QED
  BY <1>1, <1>2, <1>3 DEF Follows, DirectInv, s

\* Steps that change the status of nothing in the transaction.
LEMMA SilentSteps ==
    ASSUME NEW E, \A s \in E : s.op # "insert" /\ (s.op = "write" => s.tx = FALSE \/ s.to.status = "keep"
                                                  \/ s.on \cap (Income \cup Invoice) = {})
    PROVE  Silent(E)
  BY DEF Silent, Alters

LEMMA QuietFollow ==
    ASSUME TypeOK, LedgerInv, NEW t \in Thread, Follow(t),
           InsertInvoice(t) \/ Voucher(t) \/ GetBankToken(t)
    PROVE  Follow(t)'
<1>1. /\ agenda[t] # <<>> /\ UNCHANGED dropped
      /\ Head(agenda[t]).op \notin {"write", "insert"}
  BY DEF InsertInvoice, Voucher, GetBankToken, Turn
<1>2. Goes(t, {})
  BY NothingGoes
<1>3. OutcomeInv(t) => OutcomeInv(t)'
  BY <1>1, <1>2, SilentGoes DEF Silent
<1> QED
  BY <1>1, <1>2, <1>3, FollowGoes

\* The requests about incomes.
LEMMA IncomesFollow ==
    ASSUME TypeOK, LedgerInv, NEW t \in Thread, Follow(t),
           CreateIncome(t) \/ UpdateIncome(t) \/ ForceUpdateIncome(t) \/ ChangeCaseType(t)
           \/ Remove(t)
    PROVE  Follow(t)'
<1>1. /\ agenda[t] # <<>> /\ UNCHANGED dropped /\ Begins(Head(agenda[t]))
      /\ IncomeFollowsInvoice /\ PlanInv(t)
  BY DEF CreateIncome, UpdateIncome, ForceUpdateIncome, ChangeCaseType, Remove, Turn, Begins,
         Request, Follow
<1>2. Head(agenda[t]).op \notin {"write", "insert"}
  BY <1>1, FreshOutcome
<1>3. CASE Abort(t)
  BY <1>1, <1>3, FollowAbort
<1>4. ASSUME NEW S \in SUBSET Income, Goes(t, {Write(S, Touch, TRUE)})
      PROVE  Follow(t)'
  <2> DEFINE s == Write(S, Touch, TRUE)
  <2>1. s.op = "write" /\ s.to.status = "keep" /\ s.tx /\ Follows(t, s)
    <3>1. s.op = "write" /\ s.to.status = "keep" /\ s.tx
      BY PlainChanges DEF Write, Do
    <3>2. \A v \in S \cap Invoice : Created(v)
      BY BillingAssumption
    <3> QED
      BY <3>1, <3>2, WriteFollows
  <2>2. Goes(t, {s})
    BY <1>4
  <2> HIDE DEF s
  <2>3. Silent({s})
    BY <2>1, SilentSteps
  <2>4. OutcomeInv(t) => OutcomeInv(t)'
    BY <1>1, <1>2, <2>2, <2>3, SilentGoes
  <2> QED
    BY <1>1, <2>1, <2>2, <2>4, FollowBegins
<1>5. ASSUME NEW i \in Income, NEW x, Goes(t, {Write({i}, Becomes(x), TRUE)}),
             \A v \in Invoice : Sole(doc, v, i) =>
               doc[v].status = "canceled" /\ x = "canceled"
      PROVE  Follow(t)'
  <2> DEFINE s == Write({i}, Becomes(x), TRUE)
  <2>1. s.op = "write" /\ s.to.status = x /\ s.tx /\ s.on = {i} /\ Follows(t, s)
    <3>1. s.op = "write" /\ s.to.status = x /\ s.tx /\ s.on = {i}
      BY PlainChanges DEF Write, Do
    <3>2. \A v \in {i} \cap Invoice : Created(v)
      BY BillingAssumption
    <3> QED
      BY <3>1, <3>2, WriteFollows
  <2> HIDE DEF s
  <2>2. Goes(t, {s})
    BY <1>5 DEF s
  <2>3. Future(t)' = Future(t) /\ Inserting(t)' = {}
    BY <1>1, <1>2, <2>1, <2>2, InsertingGoes, FreshOutcome
  <2>4. ASSUME NEW v \in Invoice, NEW j \in Income, Sole(Future(t), v, j)',
               NEW a \in Ends(t, v)', NEW b \in Ends(t, j)'
        PROVE  b \in HeldStatus(a)
    <3>1. Sole(Future(t), v, j)
      BY <1>1, <2>3, <2>4 DEF Sole
    <3>2. Sole(doc, v, j)
      BY <1>1, <3>1, FreshOutcome, SoleFuture
    <3>3. Alters({s}, v) = {} /\ (j # i => Alters({s}, j) = {})
      BY <2>1, BillingAssumption DEF Alters
    <3>4. a = doc[v].status
      <4>1. a \in Ends(t, v)
        BY <1>1, <1>2, <2>2, <2>4, <3>3, EndsGoes, DocSets
      <4> QED
        BY <1>1, <4>1, FreshOutcome, DocSets
    <3>5. CASE j # i
      <4>1. b \in Ends(t, j)
        BY <1>1, <1>2, <2>2, <2>4, <3>3, <3>5, EndsGoes, DocSets
      <4>2. b = doc[j].status
        BY <1>1, <4>1, FreshOutcome, DocSets
      <4> QED
        BY <1>1, <3>2, <3>4, <4>2 DEF IncomeFollowsInvoice
    <3>6. CASE j = i
      <4>1. doc[v].status = "canceled" /\ x = "canceled"
        BY <1>5, <3>2, <3>6
      <4>2. b = "canceled" \/ b \in Ends(t, j)
        BY <1>1, <1>2, <2>1, <2>2, <2>4, <4>1, EndsGoes, DocSets DEF Alters
      <4>3. b \in Ends(t, j) => b = doc[j].status
        BY <1>1, FreshOutcome, DocSets
      <4> QED
        BY <1>1, <3>2, <3>4, <4>1, <4>2, <4>3, HeldOpen DEF IncomeFollowsInvoice
    <3> QED
      BY <3>5, <3>6
  <2>5. OutcomeInv(t)'
    BY <2>3, <2>4 DEF OutcomeInv, HeldStatus
  <2> QED
    BY <1>1, <2>1, <2>2, <2>5, FollowBegins
<1>6. ASSUME NEW i \in Income, doc[i].status = "none" PROVE \A v \in Invoice : ~Sole(doc, v, i)
  <2>1. ASSUME NEW v \in Invoice, Sole(doc, v, i) PROVE FALSE
    <3>1. doc[i].status \in HeldStatus(doc[v].status)
      BY <1>1, <2>1 DEF IncomeFollowsInvoice
    <3>2. doc[v].status \in Status
      BY DocItems, DocSets DEF Document
    <3> QED
      BY <1>6, <3>1, <3>2, HeldOpen
  <2> QED
    BY <2>1
<1>7. ASSUME NEW i \in Income, doc[i].status = "unpaid", NEW v \in Invoice, Sole(doc, v, i)
      PROVE  doc[v].status = "canceled"
  <2>1. doc[i].status \in HeldStatus(doc[v].status)
    BY <1>1, <1>7 DEF IncomeFollowsInvoice
  <2> QED
    BY <1>7, <2>1 DEF HeldStatus
<1> QED
  BY <1>3, <1>4, <1>5, <1>6, <1>7, IncomeGoes

\* An invoice is about to be inserted, and its incomes to be billed.
LEMMA MakingFollow ==
    ASSUME TypeOK, LedgerInv, NEW t \in Thread, Follow(t), agenda[t] # <<>>,
           Begins(Head(agenda[t])), UNCHANGED dropped, NEW S \in SUBSET Income,
           NEW tx \in BOOLEAN, tx \/ S \subseteq Free,
           Goes(t, {Do("insert", S, tx), Write(S, Becomes("pending"), TRUE)})
    PROVE  Follow(t)'
<1> DEFINE a == Do("insert", S, tx)
           b == Write(S, Becomes("pending"), TRUE)
<1>1. /\ a.op = "insert" /\ a.on = S /\ a.tx = tx
      /\ b.op = "write" /\ b.on = S /\ b.to.status = "pending" /\ b.tx = TRUE
  BY PlainChanges DEF Write, Do
<1>2. Follows(t, a)
  BY DoFollows
<1>3. Follows(t, b)
  <2>1. \A v \in S \cap Invoice : Created(v)
    BY BillingAssumption
  <2> QED
    BY <2>1, WriteFollows
<1>4. Goes(t, {a, b})
  OBVIOUS
<1> HIDE DEF a, b
<1>5. IncomeFollowsInvoice /\ PlanInv(t)
  BY DEF Follow
<1>6. /\ Head(agenda[t]).op \notin {"write", "insert"} /\ ~Making(t)
      /\ Inserting(t) = {} /\ Rest(t) = {}
      /\ \A d \in Doc : Ends(t, d) = {doc[d].status}
  BY <1>5, FreshOutcome
<1>7. /\ \A i : i \in Inserting(t)' => i \in S /\ tx
      /\ \A i \in S : tx => i \in Inserting(t)'
      /\ Future(t)' = Future(t)
  <2>1. Steps(t)' = {a, b} \cup Rest(t)
    BY <1>4, GoesSteps
  <2> QED
    BY <1>1, <1>4, <1>6, <2>1, InsertingGoes DEF Inserting
<1>8. ASSUME NEW v \in Invoice, NEW i \in Income \ Inserting(t)', Sole(Future(t), v, i)',
             NEW x \in Ends(t, v)', NEW y \in Ends(t, i)'
      PROVE  y \in HeldStatus(x)
  <2>1. Sole(Future(t), v, i)
    BY <1>7, <1>8 DEF Sole
  <2>2. Sole(doc, v, i)
    BY <1>6, <2>1, SoleFuture
  <2>3. i \notin S /\ v \notin S
    BY <1>7, <2>2, BillingAssumption DEF Sole
  <2>4. Alters({a, b}, i) = {} /\ Alters({a, b}, v) = {}
    BY <1>1, <2>3 DEF Alters
  <2>5. x \in Ends(t, v) /\ y \in Ends(t, i)
    BY <1>4, <1>6, <1>8, <2>4, EndsGoes, DocSets
  <2>6. x = doc[v].status /\ y = doc[i].status
    BY <1>6, <2>5, DocSets
  <2> QED
    BY <1>5, <2>2, <2>6 DEF IncomeFollowsInvoice
<1>9. ASSUME NEW i \in Inserting(t)', NEW y \in Ends(t, i)'
      PROVE  y = "pending"
  <2>1. i \in S
    BY <1>7, <1>9
  <2>2. Alters({a, b}, i) = {b} /\ Alters(Rest(t), i) = {}
    BY <1>1, <1>6, <2>1 DEF Alters
  <2>3. i \in Doc /\ Head(agenda[t]).op # "write"
    BY <1>6, <2>1, DocSets
  <2>4. \E s \in Alters({a, b}, i) \cup Alters(Rest(t), i) : s.to.status = y
    BY <1>4, <1>9, <2>2, <2>3, EndsGoes
  <2> QED
    BY <1>1, <2>2, <2>4
<1>10. OutcomeInv(t)'
  BY <1>8, <1>9 DEF OutcomeInv, HeldStatus
<1> QED
  BY <1>1, <1>2, <1>3, <1>4, <1>10, FollowBegins

LEMMA CreateInvoiceFollow ==
    ASSUME TypeOK, LedgerInv, NEW t \in Thread, Follow(t), CreateInvoice(t)
    PROVE  Follow(t)'
<1> DEFINE h == Head(agenda[t])
           S == h.on
           tx == S \cap Free = {}
<1>1. agenda[t] # <<>> /\ h.op = "createInvoice" /\ UNCHANGED dropped
  BY DEF CreateInvoice, Turn
<1>2. Begins(h)
  BY <1>1 DEF Begins, Request
<1>3. S \in SUBSET Income
  BY <1>1, HeadInv DEF StepInv
<1>4. tx \/ S \subseteq Free
  <2>1. h \in Steps(t)
    BY <1>1, HeadInv
  <2> QED
    BY <1>1, <2>1 DEF Follow, PlanInv
<1>5. tx \in BOOLEAN
  OBVIOUS
<1>6. Abort(t) \/ Goes(t, {Do("insert", S, tx), Write(S, Becomes("pending"), TRUE)})
  BY CreateInvoiceGoes
<1>7. CASE Abort(t)
  BY <1>1, <1>7, FollowAbort DEF Follow
<1> HIDE DEF S, tx
<1>8. CASE Goes(t, {Do("insert", S, tx), Write(S, Becomes("pending"), TRUE)})
  BY <1>1, <1>2, <1>3, <1>4, <1>5, <1>8, MakingFollow
<1> QED
  BY <1>6, <1>7, <1>8

LEMMA MakeInvoiceManuallyFollow ==
    ASSUME TypeOK, LedgerInv, NEW t \in Thread, Follow(t), MakeInvoiceManually(t)
    PROVE  Follow(t)'
<1>1. /\ agenda[t] # <<>> /\ UNCHANGED dropped
      /\ Begins(Head(agenda[t]))
  BY DEF MakeInvoiceManually, Turn, Begins, Request
<1>2. CASE Abort(t)
  BY <1>1, <1>2, FollowAbort DEF Follow
<1>3. ASSUME NEW S \in SUBSET (Income \ Free),
             Goes(t, {Write(S, Becomes("pending"), TRUE), Do("insert", S, TRUE)})
      PROVE  Follow(t)'
  <2>1. {Write(S, Becomes("pending"), TRUE), Do("insert", S, TRUE)} =
        {Do("insert", S, TRUE), Write(S, Becomes("pending"), TRUE)}
    OBVIOUS
  <2>2. Goes(t, {Do("insert", S, TRUE), Write(S, Becomes("pending"), TRUE)})
    BY <1>3, <2>1
  <2> QED
    BY <1>1, <2>2, MakingFollow
<1> QED
  BY <1>2, <1>3, MakeInvoiceManuallyGoes

LEMMA MakeInvoicePendFollow ==
    ASSUME TypeOK, LedgerInv, NEW t \in Thread, Follow(t), MakeInvoicePend(t)
    PROVE  Follow(t)'
<1>1. agenda[t] # <<>> /\ Begins(Head(agenda[t])) /\ UNCHANGED dropped /\ PlanInv(t)
  BY DEF MakeInvoicePend, Turn, Begins, Request, Follow
<1>2. CASE Abort(t)
  BY <1>1, <1>2, FollowAbort DEF Follow
<1>3. ASSUME NEW v \in Invoice, MayPend(v),
             Goes(t, {Write(doc[v].items, Becomes("pending"), FALSE),
                      Write({v}, Becomes("pending"), FALSE)})
      PROVE  Follow(t)'
  <2> DEFINE a == Write(doc[v].items, Becomes("pending"), FALSE)
             b == Write({v}, Becomes("pending"), FALSE)
  <2>1. Goes(t, {a, b})
    BY <1>3
  <2>2. a.op = "write" /\ a.tx = FALSE /\ b.op = "write" /\ b.tx = FALSE
    BY DEF Write, Do
  <2>3. Follows(t, a) /\ Follows(t, b)
    BY <1>3, BillFollows DEF MayPend
  <2> HIDE DEF a, b
  <2>4. Silent({a, b})
    BY <2>2, SilentSteps
  <2>5. OutcomeInv(t) => OutcomeInv(t)'
    BY <1>1, <2>1, <2>4, SilentGoes, FreshOutcome DEF Follow
  <2> QED
    BY <1>1, <2>1, <2>2, <2>3, <2>5, FollowBegins
<1> QED
  BY <1>2, <1>3, MakeInvoicePendGoes

LEMMA MakeInvoiceCancelFollow ==
    ASSUME TypeOK, LedgerInv, NEW t \in Thread, Follow(t), MakeInvoiceCancel(t)
    PROVE  Follow(t)'
<1>1. /\ agenda[t] # <<>> /\ Begins(Head(agenda[t])) /\ UNCHANGED dropped /\ PlanInv(t)
      /\ IncomeFollowsInvoice
  BY DEF MakeInvoiceCancel, Turn, Begins, Request, Follow
<1>2. CASE Abort(t)
  BY <1>1, <1>2, FollowAbort DEF Follow
<1>3. ASSUME NEW v \in Invoice, doc[v].status # "none",
             Goes(t, {Write(doc[v].items, Becomes("unpaid"), TRUE),
                      Write({v}, Becomes("canceled"), TRUE)})
      PROVE  Follow(t)'
  <2> DEFINE a == Write(doc[v].items, Becomes("unpaid"), TRUE)
             b == Write({v}, Becomes("canceled"), TRUE)
  <2>1. Goes(t, {a, b})
    BY <1>3
  <2>2. /\ a.op = "write" /\ a.tx = TRUE /\ a.on = doc[v].items /\ a.to.status = "unpaid"
        /\ b.op = "write" /\ b.tx = TRUE /\ b.on = {v} /\ b.to.status = "canceled"
    BY PlainChanges DEF Write, Do
  <2>3. /\ doc[v].items \cap Invoice = {} /\ doc[v].items \subseteq Income /\ v \notin Income
        /\ Created(v)
    BY <1>3, NoPayments, BillingAssumption DEF LedgerInv, BooksInv, Created
  <2>4. Follows(t, a) /\ Follows(t, b)
    <3>1. \A w \in doc[v].items \cap Invoice : Created(w)
      BY <2>3
    <3>2. \A w \in {v} \cap Invoice : Created(w)
      BY <2>3
    <3> QED
      BY <3>1, <3>2, WriteFollows
  <2> HIDE DEF a, b
  <2>5. \A w \in Invoice \ {v} : Alters({a, b}, w) = {}
    BY <2>2, <2>3 DEF Alters
  <2>6. \A i \in Income \ doc[v].items : Alters({a, b}, i) = {}
    BY <2>2, <2>3 DEF Alters
  <2>7. /\ Head(agenda[t]).op \notin {"write", "insert"} /\ OutcomeInv(t) /\ Rest(t) = {}
    BY <1>1, FreshOutcome
  <2>8. ASSUME NEW d \in Doc, Alters({a, b}, d) # {}, NEW x \in Ends(t, d)'
         PROVE  \E s \in Alters({a, b}, d) : s.to.status = x
    <3> DEFINE E == {a, b}
    <3>1. Goes(t, E) /\ Alters(E, d) # {} /\ agenda[t] # <<>>
      BY <1>1, <2>1, <2>8
    <3>2. Rest(t) = {} /\ Head(agenda[t]).op # "write"
      BY <2>7
    <3> HIDE DEF E
    <3>3. \A z \in Ends(t, d)' : \E s \in Alters(E, d) : s.to.status = z
      BY <3>1, <3>2, EndsAlone
    <3> QED
      BY <2>8, <3>3 DEF E
  <2>9. ASSUME NEW i \in Income, Sole(doc, v, i),
               NEW x \in Ends(t, v)', NEW y \in Ends(t, i)'
        PROVE  y \in HeldStatus(x)
    <3>1. i \in doc[v].items
      BY <2>9 DEF Sole
    <3>2. Alters({a, b}, v) = {b} /\ Alters({a, b}, i) = {a}
      BY <2>2, <2>3, <3>1 DEF Alters
    <3>3. v \in Doc /\ i \in Doc
      BY DocSets
    <3>4. \E s \in {b} : s.to.status = x
      BY <2>9, <2>8, <3>2, <3>3
    <3>5. \E s \in {a} : s.to.status = y
      BY <2>9, <2>8, <3>2, <3>3
    <3>6. x = "canceled" /\ y = "unpaid"
      BY <2>2, <3>4, <3>5
    <3> QED
      BY <3>6, HeldOpen
  <2>10. OutcomeInv(t)'
    BY <1>1, <2>1, <2>2, <2>5, <2>6, <2>7, <2>9, OutcomeGoes
  <2> QED
    BY <1>1, <2>1, <2>2, <2>4, <2>10, FollowBegins
<1> QED
  BY <1>2, <1>3, MakeInvoiceCancelGoes

LEMMA UpdateInvoiceFollow ==
    ASSUME TypeOK, LedgerInv, NEW t \in Thread, Follow(t), UpdateInvoice(t)
    PROVE  Follow(t)'
<1>1. /\ agenda[t] # <<>> /\ Begins(Head(agenda[t])) /\ UNCHANGED dropped /\ PlanInv(t)
      /\ IncomeFollowsInvoice
  BY DEF UpdateInvoice, Turn, Begins, Request, Follow
<1>2. CASE Abort(t)
  BY <1>1, <1>2, FollowAbort DEF Follow
<1>3. /\ Head(agenda[t]).op \notin {"write", "insert"} /\ OutcomeInv(t)
      /\ \A d \in Doc : Ends(t, d) = {doc[d].status}
  BY <1>1, FreshOutcome
<1>4. ASSUME NEW v \in Invoice, doc[v].status = "active",
             \/ Goes(t, {Write(doc[v].items, Becomes("pending"), TRUE),
                         Write({v}, Issued, TRUE)})
             \/ Goes(t, {Write({v}, Becomes("active"), TRUE)})
      PROVE  Follow(t)'
  <2> DEFINE a == Write(doc[v].items, Becomes("pending"), TRUE)
             b == Write({v}, Issued, TRUE)
             c == Write({v}, Becomes("active"), TRUE)
  <2>1. Goes(t, {a, b}) \/ Goes(t, {c})
    BY <1>4
  <2>2. /\ a.op = "write" /\ a.tx = TRUE /\ a.on = doc[v].items /\ a.to.status = "pending"
        /\ b.op = "write" /\ b.tx = TRUE /\ b.on = {v} /\ b.to.status = "issued"
        /\ c.op = "write" /\ c.tx = TRUE /\ c.on = {v} /\ c.to.status = "active"
    BY PlainChanges DEF Write, Do
  <2>3. Follows(t, a) /\ Follows(t, b) /\ Follows(t, c)
    <3>1. \A w \in doc[v].items \cap Invoice : Created(w)
      BY NoPayments DEF LedgerInv, BooksInv
    <3>2. \A w \in {v} \cap Invoice : Created(w)
      BY <1>4 DEF Created
    <3> QED
      BY <3>1, <3>2, WriteFollows
  <2> HIDE DEF a, b, c
  <2>4. "active" \in OpenStatus /\ "issued" \in OpenStatus
    BY DEF OpenStatus, Status
  <2>5. \E x \in OpenStatus : x \in Ends(t, v)
    BY <1>3, <1>4, <2>4, DocSets
  <2>6. ASSUME NEW E, E = {a, b} \/ E = {c}, Goes(t, E)
        PROVE  Follow(t)'
    <3>1. \A s \in E : /\ s.op = "write" /\ s.tx = TRUE /\ Follows(t, s)
                       /\ \/ s.on = doc[v].items /\ s.to.status = "pending"
                          \/ s.on = {v} /\ s.to.status \in OpenStatus
      BY <2>2, <2>3, <2>4, <2>6
    <3>2. OutcomeInv(t)'
      BY <1>1, <1>3, <2>5, <2>6, <3>1, OpenGoes
    <3> QED
      BY <1>1, <2>6, <3>1, <3>2, FollowBegins
  <2> QED
    BY <2>1, <2>6
<1> QED
  BY <1>2, <1>4, UpdateInvoiceGoes

LEMMA IssueFollow ==
    ASSUME TypeOK, LedgerInv, NEW t \in Thread, Follow(t), Issue(t)
    PROVE  Follow(t)'
<1>1. /\ agenda[t] # <<>> /\ Head(agenda[t]).op = "issue" /\ UNCHANGED dropped /\ PlanInv(t)
      /\ IncomeFollowsInvoice /\ Head(agenda[t]).tx \in BOOLEAN
  BY HeadType DEF Issue, Turn, Follow
<1>2. CASE Abort(t)
  BY <1>1, <1>2, FollowAbort
<1>3. ASSUME NEW tx \in BOOLEAN, tx = Head(agenda[t]).tx, NEW v \in Invoice,
             doc[v].status \in {"active", "pending"},
             NEW E \in SUBSET IssueSteps(v, tx), Goes(t, E)
      PROVE  Follow(t)'
  <2> DEFINE a == Write({v}, Touch, FALSE)
             b == Write({FinNo}, Touch, tx)
             c == Do("insertInvoice", {v}, tx)
             d == Write(doc[v].items, Becomes("pending"), tx)
             e == Write({v}, Issued, tx)
  <2>1. E \subseteq {a, b, c, d, e}
    BY <1>3 DEF IssueSteps
  <2>2. /\ a.op = "write" /\ a.to.status = "keep" /\ b.op = "write" /\ b.to.status = "keep"
        /\ c.op = "insertInvoice"
        /\ d.op = "write" /\ d.tx = tx /\ d.on = doc[v].items /\ d.to.status = "pending"
        /\ e.op = "write" /\ e.tx = tx /\ e.on = {v} /\ e.to.status = "issued"
    BY PlainChanges DEF Write, Do
  <2>3. Created(v) /\ doc[v].items \cap Invoice = {} /\ FinNo \notin Invoice
    BY <1>3, NoPayments, BillingAssumption DEF LedgerInv, BooksInv, Created
  <2>4. Follows(t, a)
    <3>1. \A w \in {v} \cap Invoice : Created(w)
      BY <2>3
    <3>2. Touch.status = "keep"
      BY PlainChanges
    <3> QED
      BY <3>1, <3>2, WriteFollows
  <2>5. Follows(t, b)
    <3>1. \A w \in {FinNo} \cap Invoice : Created(w)
      BY <2>3
    <3>2. Touch.status = "keep"
      BY PlainChanges
    <3> QED
      BY <3>1, <3>2, WriteFollows
  <2>6. Follows(t, c)
    BY DoFollows DEF StepOp, Request
  <2>7. Follows(t, d) /\ Follows(t, e)
    <3>1. CASE tx = TRUE
      <4>1. \A w \in doc[v].items \cap Invoice : Created(w)
        BY <2>3
      <4>2. \A w \in {v} \cap Invoice : Created(w)
        BY <2>3
      <4> QED
        BY <3>1, <4>1, <4>2, WriteFollows
    <3>2. CASE tx = FALSE
      BY <1>3, <3>2, BillFollows
    <3> QED
      BY <3>1, <3>2
  <2> HIDE DEF a, b, c, d, e
  <2>8. \A s \in E : /\ s.op \in {"write", "insertInvoice"} /\ Follows(t, s) /\ Reopens(s)
                     /\ s.op = "write" /\ s.to.status # "keep" =>
                          /\ s.tx = tx
                          /\ \/ s.on = doc[v].items /\ s.to.status = "pending"
                             \/ s.on = {v} /\ s.to.status = "issued"
    BY <2>1, <2>2, <2>4, <2>5, <2>6, <2>7 DEF Reopens
  <2>9. "active" \in OpenStatus /\ "issued" \in OpenStatus /\ "pending" \in OpenStatus
    BY DEF OpenStatus, Status
  <2>10. CASE tx = TRUE
    <3>1. Begins(Head(agenda[t]))
      BY <1>1, <1>3, <2>10 DEF Begins
    <3>2. OutcomeInv(t) /\ doc[v].status \in Ends(t, v)
      BY <1>1, <3>1, FreshOutcome, DocSets
    <3>3. \E x \in OpenStatus : x \in Ends(t, v)
      BY <1>3, <2>9, <3>2
    <3>4. OutcomeInv(t)'
      BY <1>1, <1>3, <2>8, <2>9, <3>2, <3>3, OpenGoes
    <3> QED
      BY <1>1, <1>3, <2>8, <3>1, <3>4, FollowBegins
  <2>11. CASE tx = FALSE
    <3>1. Silent(E)
      BY <2>8, <2>11, SilentSteps
    <3>2. OutcomeInv(t) => OutcomeInv(t)'
      BY <1>1, <1>3, <3>1, SilentGoes
    <3> QED
      BY <1>1, <1>3, <2>8, <3>2, FollowGoes
  <2> QED
    BY <2>10, <2>11
<1> QED
  BY <1>1, <1>2, <1>3, IssueGoes

LEMMA ForceUpdateFollow ==
    ASSUME TypeOK, LedgerInv, NEW t \in Thread, Follow(t), ForceUpdate(t)
    PROVE  Follow(t)'
<1>1. /\ agenda[t] # <<>> /\ Begins(Head(agenda[t])) /\ PlanInv(t) /\ IncomeFollowsInvoice
      /\ dropped \subseteq dropped'
  BY DEF ForceUpdate, Turn, Begins, Request, Follow
<1>2. CASE Abort(t)
  BY <1>1, <1>2, FollowAbort
<1>3. ASSUME NEW gone \in SUBSET Income, gone \subseteq dropped',
             Goes(t, {Write(gone, Becomes("unpaid"), FALSE)})
      PROVE  Follow(t)'
  <2> DEFINE s == Write(gone, Becomes("unpaid"), FALSE)
  <2>1. s.op = "write" /\ s.tx = FALSE /\ s.on = gone
    BY DEF Write, Do
  <2>2. Goes(t, {s})
    BY <1>3
  <2> HIDE DEF s
  <2>3. s.on \cap Invoice = {}
    BY <2>1, BillingAssumption
  <2>4. DirectInv(s)'
    BY <1>3, <2>1, <2>3 DEF DirectInv
  <2>5. Follows(t, s)
    BY <2>1, <2>3, <2>4 DEF Follows, Begins, Request
  <2>6. Silent({s})
    BY <2>1, SilentSteps
  <2>7. OutcomeInv(t) => OutcomeInv(t)'
    BY <1>1, <2>2, <2>6, SilentGoes, FreshOutcome
  <2> QED
    BY <1>1, <2>1, <2>2, <2>5, <2>7, FollowBegins
<1> QED
  BY <1>2, <1>3, ForceUpdateGoes

LEMMA RevertFollow ==
    ASSUME TypeOK, LedgerInv, NEW t \in Thread, Follow(t), RevertToPreviousState(t)
    PROVE  Follow(t)'
<1>1. /\ agenda[t] # <<>> /\ Head(agenda[t]).op = "revertToPreviousState" /\ UNCHANGED dropped
      /\ PlanInv(t) /\ IncomeFollowsInvoice
  BY DEF RevertToPreviousState, Turn, Follow
<1>2. CASE Abort(t)
  BY <1>1, <1>2, FollowAbort
<1>3. CASE Goes(t, {})
  <2>1. OutcomeInv(t) => OutcomeInv(t)'
    BY <1>1, <1>3, SilentGoes DEF Silent
  <2> QED
    BY <1>1, <1>3, <2>1, FollowGoes
<1>4. \A s \in Steps(t) : Reopens(s)
  <2>1. Head(agenda[t]) \in Steps(t)
    BY <1>1, BehindHandler
  <2> QED
    BY <1>1, <2>1 DEF PlanInv
<1>5. ASSUME NEW v \in Invoice, NEW rest \in SUBSET Doc,
             NEW E \in SUBSET {Write(doc[v].items, Becomes("pending"), TRUE),
                               Write({v}, Becomes(PreviousStatus(v)), TRUE),
                               Do("revertToPreviousState", rest, TRUE)},
             doc[v].status \in {"issued", "pending"},
             Write(doc[v].items, Becomes("pending"), TRUE) \in E,
             Write({v}, Becomes(PreviousStatus(v)), TRUE) \in E,
             Goes(t, E)
      PROVE  Follow(t)'
  <2> DEFINE a == Write(doc[v].items, Becomes("pending"), TRUE)
             b == Write({v}, Becomes(PreviousStatus(v)), TRUE)
             c == Do("revertToPreviousState", rest, TRUE)
  <2>1. E \subseteq {a, b, c} /\ a \in E /\ b \in E
    BY <1>5
  <2>2. /\ a.op = "write" /\ a.tx = TRUE /\ a.on = doc[v].items /\ a.to.status = "pending"
        /\ b.op = "write" /\ b.tx = TRUE /\ b.on = {v} /\ b.to.status \in {"issued", "active"}
        /\ c.op = "revertToPreviousState"
    <3>1. PreviousStatus(v) \in {"issued", "active"}
      BY DEF PreviousStatus
    <3>2. b.to = Becomes(PreviousStatus(v))
      BY DEF Write, Do
    <3>3. b.to.status = PreviousStatus(v)
      BY <3>2, PlainChanges
    <3> QED
      BY <3>1, <3>3, PlainChanges DEF Write, Do
  <2>3. /\ doc[v].items \cap Invoice = {} /\ doc[v].items \subseteq Income /\ v \notin Income
        /\ Created(v)
    BY <1>5, NoPayments, BillingAssumption DEF LedgerInv, BooksInv, Created
  <2>4. Follows(t, a) /\ Follows(t, b) /\ Follows(t, c)
    <3>1. \A w \in doc[v].items \cap Invoice : Created(w)
      BY <2>3
    <3>2. \A w \in {v} \cap Invoice : Created(w)
      BY <2>3
    <3> QED
      BY <3>1, <3>2, WriteFollows, DoFollows
  <2> HIDE DEF a, b, c
  <2>5. \A s \in E : Follows(t, s) /\ Reopens(s) /\ s.op # "insert"
    BY <2>1, <2>2, <2>4 DEF Reopens
  <2>6. \A w \in Invoice \ {v} : Alters(E, w) = {}
    BY <2>1, <2>2, <2>3 DEF Alters
  <2>7. \A i \in Income \ doc[v].items : Alters(E, i) = {}
    BY <2>1, <2>2, <2>3 DEF Alters
  <2>8. \A i \in Income : \A s \in Alters(E, i) : s.to.status = "pending"
    BY <2>1, <2>2, <2>3 DEF Alters
  <2>9. \A d : \A s \in Alters(E, d) \cup Alters(Rest(t), d) :
          s.to.status \in {"pending", "issued", "active"}
    <3>1. Rest(t) \subseteq Steps(t)
      BY <1>1, BehindHandler
    <3> QED
      BY <1>4, <2>5, <3>1 DEF Alters, Reopens
  <2>10. Head(agenda[t]).op \notin {"write", "insert"}
    BY <1>1
  <2>11. ASSUME NEW d \in Doc, Alters(E, d) # {}, NEW x \in Ends(t, d)'
         PROVE  \E s \in Alters(E, d) \cup Alters(Rest(t), d) : s.to.status = x
    BY <1>1, <1>5, <2>10, <2>11, EndsGoes
  <2>12. ASSUME OutcomeInv(t), NEW i \in Income, Sole(doc, v, i),
                NEW x \in Ends(t, v)', NEW y \in Ends(t, i)'
         PROVE  y \in HeldStatus(x)
    <3>1. i \in doc[v].items /\ i \in Doc /\ v \in Doc
      BY <2>12, DocSets DEF Sole
    <3>2. a \in Alters(E, i) /\ b \in Alters(E, v)
      BY <2>1, <2>2, <3>1 DEF Alters
    <3>3. x \in OpenStatus
      <4>1. x \in {"pending", "issued", "active"}
        BY <2>9, <2>11, <2>12, <3>1, <3>2
      <4> QED
        BY <4>1 DEF OpenStatus, Status
    <3>4. PICK s \in Alters(E, i) \cup Alters(Rest(t), i) : s.to.status = y
      BY <2>11, <2>12, <3>1, <3>2
    <3>5. CASE s \in Alters(E, i)
      BY <2>8, <3>3, <3>4, <3>5, HeldOpen
    <3>6. CASE s \in Alters(Rest(t), i)
      <4>1. SetsInTransaction(t, i) = Alters(Rest(t), i)
        <5>1. Steps(t) = {Head(agenda[t])} \cup Rest(t)
          BY <1>1, BehindHandler
        <5> QED
          BY <2>10, <5>1 DEF SetsInTransaction, Alters
      <4>2. y \in Ends(t, i)
        BY <3>4, <3>6, <4>1 DEF Ends
      <4>3. Making(t) = FALSE /\ Inserting(t) = {}
        <5>1. Head(agenda[t]) \in Steps(t)
          BY <1>1, BehindHandler
        <5>2. ~Making(t)
          BY <1>1, <5>1 DEF PlanInv
        <5> QED
          BY <5>2 DEF Inserting, Making
      <4>4. Sole(Future(t), v, i)
        BY <2>12, <4>3, SoleFuture
      <4>5. PICK z : z \in Ends(t, v) /\ z \in Status
        BY <3>1, SomeEnd
      <4>6. y \in HeldStatus(z)
        BY <2>12, <4>2, <4>3, <4>4, <4>5 DEF OutcomeInv
      <4>7. y \in {"pending", "issued", "active"}
        BY <2>9, <3>4
      <4>8. y = "pending"
        BY <4>5, <4>6, <4>7, HeldOpen
      <4> QED
        BY <3>3, <4>8, HeldOpen
    <3> QED
      BY <3>4, <3>5, <3>6
  <2>13. OutcomeInv(t) => OutcomeInv(t)'
    BY <1>1, <1>5, <2>5, <2>6, <2>7, <2>10, <2>12, OutcomeGoes
  <2> QED
    BY <1>1, <1>5, <2>5, <2>10, <2>13, FollowGoes
<1> QED
  BY <1>2, <1>3, <1>5, RevertGoes

\* A handler that puts nothing on the agenda that incomes or invoices would
\* follow.
LEMMA SilentFollow ==
    ASSUME TypeOK, LedgerInv, NEW t \in Thread, Follow(t), agenda[t] # <<>>,
           Head(agenda[t]).op \notin {"write", "insert"}, dropped \subseteq dropped',
           NEW E, Goes(t, E),
           \A s \in E : Follows(t, s) /\ s.op \notin {"insert", "revertToPreviousState"},
           (\E s \in Steps(t) : s.op = "revertToPreviousState") => \A s \in E : Reopens(s),
           Silent(E)
    PROVE  Follow(t)'
<1>1. OutcomeInv(t) => OutcomeInv(t)'
  BY SilentGoes
<1> QED
  BY <1>1, FollowGoes

\* A settlement and a revert never share a request.
LEMMA NoRevert ==
    ASSUME TypeOK, LedgerInv, NEW t \in Thread, agenda[t] # <<>>,
           Head(agenda[t]).op \in {"makeInvoicePaid", "settle", "confirm"}
    PROVE  /\ \A s \in Steps(t) : s.op # "revertToPreviousState" /\ Clean(s)
           /\ Head(agenda[t]) \in Steps(t)
<1>1. Head(agenda[t]) \in Steps(t) /\ RequestInv(t)
  BY HeadInv
<1>2. Settling(t)
  BY <1>1 DEF Settling
<1>3. \A s \in Steps(t) : Clean(s)
  BY <1>1, <1>2 DEF RequestInv, AgendaInv
<1> QED
  BY <1>1, <1>3 DEF Clean

\* Steps that write nothing.
LEMMA CallsFollow ==
    ASSUME TypeOK, LedgerInv, NEW t \in Thread, Follow(t), agenda[t] # <<>>,
           Head(agenda[t]).op \notin {"write", "insert"}, dropped \subseteq dropped',
           NEW s, Goes(t, {s}), s.op \in {"settle", "confirm"}
    PROVE  Follow(t)'
<1>1. Follows(t, s) /\ Reopens(s)
  BY DEF Follows, Reopens, DirectInv, Begins, Request
<1>2. Silent({s})
  BY SilentSteps
<1> QED
  BY <1>1, <1>2, SilentFollow

LEMMA MakeInvoicePaidFollow ==
    ASSUME TypeOK, LedgerInv, NEW t \in Thread, Follow(t), MakeInvoicePaid(t)
    PROVE  Follow(t)'
<1> DEFINE V == Head(agenda[t]).on \cap Invoice
           s == SettleOf(V)
<1>1. /\ agenda[t] # <<>> /\ Head(agenda[t]).op \notin {"write", "insert"} /\ UNCHANGED dropped
  BY DEF MakeInvoicePaid, Turn
<1>2. Goes(t, {s})
  BY MakeInvoicePaidGoes
<1>3. s.op = "settle"
  <2> HIDE DEF V
  <2> QED
    BY DEF SettleOf, Do
<1> HIDE DEF s
<1> QED
  BY <1>1, <1>2, <1>3, CallsFollow

LEMMA SettleRestFollow ==
    ASSUME TypeOK, LedgerInv, NEW t \in Thread, Follow(t), SettleRest(t)
    PROVE  Follow(t)'
<1> DEFINE B == Batch(Head(agenda[t]))
           a == Do("voucher", B, TRUE)
           b == Write(B, Touch, TRUE)
<1>1. agenda[t] # <<>> /\ Head(agenda[t]).op = "settle" /\ UNCHANGED dropped
  BY DEF SettleRest, Turn
<1>2. Goes(t, {a, b})
  BY SettleRestGoes
<1>3. a.op = "voucher" /\ b.op = "write" /\ b.to.status = "keep"
  BY PlainChanges DEF Write, Do
<1>4. Follows(t, a)
  BY DoFollows DEF StepOp, Request
<1>5. Follows(t, b)
  <2>1. \A v \in B \cap Invoice : Created(v)
    BY <1>1, HeadInv DEF StepInv, Created
  <2> QED
    BY <2>1, WriteFollows
<1> HIDE DEF a, b
<1>6. Silent({a, b})
  BY <1>3, SilentSteps
<1>7. Reopens(a) /\ Reopens(b)
  BY <1>3 DEF Reopens
<1> QED
  BY <1>1, <1>2, <1>3, <1>4, <1>5, <1>6, <1>7, SilentFollow

LEMMA ConfirmPaymentFollow ==
    ASSUME TypeOK, LedgerInv, NEW t \in Thread, Follow(t), ConfirmPayment(t)
    PROVE  Follow(t)'
<1>1. agenda[t] # <<>> /\ Head(agenda[t]).op = "confirm" /\ UNCHANGED dropped
  BY DEF ConfirmPayment, Turn
<1>2. CASE Abort(t)
  BY <1>1, <1>2, FollowAbort DEF Follow
<1>3. ASSUME NEW p \in Payment,
             Goes(t, {Write({p}, Becomes("completed"), TRUE),
                      Do("makeInvoicePaid", InvoiceOf(p), TRUE)})
      PROVE  Follow(t)'
  <2> DEFINE a == Write({p}, Becomes("completed"), TRUE)
             b == Do("makeInvoicePaid", InvoiceOf(p), TRUE)
  <2>1. Goes(t, {a, b})
    BY <1>3
  <2>2. a.op = "write" /\ a.on = {p} /\ b.op = "makeInvoicePaid"
    BY DEF Write, Do
  <2>3. p \notin Income \cup Invoice
    BY BillingAssumption
  <2>4. Follows(t, a) /\ Follows(t, b)
    <3>1. \A v \in {p} \cap Invoice : Created(v)
      BY <2>3
    <3> QED
      BY <3>1, WriteFollows, DoFollows
  <2> HIDE DEF a, b
  <2>5. Silent({a, b})
    BY <2>2, <2>3, SilentSteps
  <2> QED
    BY <1>1, <2>1, <2>2, <2>4, <2>5, NoRevert, SilentFollow
<1> QED
  BY <1>2, <1>3, ConfirmPaymentGoes

LEMMA VerifyFollow ==
    ASSUME TypeOK, LedgerInv, LockInv, NEW t \in Thread, Follow(t), Verify(t)
    PROVE  Follow(t)'
<1>1. /\ agenda[t] # <<>> /\ Head(agenda[t]).op = "verify" /\ UNCHANGED dropped
      /\ Begins(Head(agenda[t])) /\ PlanInv(t)
  BY DEF Verify, Turn, Begins, Request, Follow
<1>2. \A s \in Steps(t) : s.op = "verify"
  <2>1. Rest(t) = {} /\ Steps(t) = {Head(agenda[t])} \cup Rest(t)
    BY <1>1, BehindHandler
  <2> QED
    BY <1>1, <2>1
<1>3. ASSUME NEW p \in Payment, Goes(t, {Do("confirm", {p}, TRUE)})
      PROVE  Follow(t)'
  <2> DEFINE s == Do("confirm", {p}, TRUE)
  <2>1. Goes(t, {s})
    BY <1>3
  <2>2. s.op = "confirm"
    BY DEF Do
  <2> HIDE DEF s
  <2> QED
    BY <1>1, <2>1, <2>2, CallsFollow
<1>4. ASSUME NEW p \in Payment, NEW v \in Invoice \cap InvoiceOf(p), doc[p].status # "none",
             Goes(t, Elems(<<Write({p}, Becomes("canceled"), TRUE),
                             Write({v}, LockedBy(NoLock), TRUE),
                             Write(doc[v].items, LockedBy(NoLock), TRUE)>>))
      PROVE  Follow(t)'
  <2> DEFINE a == Write({p}, Becomes("canceled"), TRUE)
             b == Write({v}, LockedBy(NoLock), TRUE)
             c == Write(doc[v].items, LockedBy(NoLock), TRUE)
  <2>1. Goes(t, {a, b, c})
    <3>1. Goes(t, Elems(<<a, b, c>>))
      BY <1>4
    <3> HIDE DEF a, b, c
    <3>2. Elems(<<a, b, c>>) = {a, b, c}
      BY ElemsShort
    <3> QED
      BY <3>1, <3>2, Zenon
  <2>2. /\ a.op = "write" /\ a.on = {p}
        /\ b.op = "write" /\ b.to.status = "keep" /\ c.op = "write" /\ c.to.status = "keep"
    BY DEF Write, Do, LockedBy, Touch
  <2>3. p \notin Income \cup Invoice
    BY BillingAssumption
  <2>4. Created(v) /\ doc[v].items \cap Invoice = {}
    BY <1>4, NoPayments DEF LockInv, LocksInv, Created, InvoiceOf, LedgerInv, BooksInv
  <2>5. Follows(t, a) /\ Follows(t, b) /\ Follows(t, c)
    <3>1. \A w \in {p} \cap Invoice : Created(w)
      BY <2>3
    <3>2. \A w \in {v} \cap Invoice : Created(w)
      BY <2>4
    <3>3. \A w \in doc[v].items \cap Invoice : Created(w)
      BY <2>4
    <3> QED
      BY <3>1, <3>2, <3>3, WriteFollows
  <2> HIDE DEF a, b, c
  <2>6. Silent({a, b, c})
    BY <2>2, <2>3, SilentSteps
  <2> QED
    BY <1>1, <1>2, <2>1, <2>2, <2>5, <2>6, SilentFollow
<1> QED
  BY <1>3, <1>4, VerifyGoes

LEMMA PayFollow ==
    ASSUME TypeOK, LedgerInv, NEW t \in Thread, Follow(t), Pay(t)
    PROVE  Follow(t)'
<1>1. PICK v \in Invoice, p \in Payment :
        LET ok == doc[v].status \in {"active", "issued"} /\ ~Locked(doc[v]) IN
        Guarded(t, ok, LockBoth(v, p) \o <<Do("createPayment", {v, p}, FALSE),
                                           Do("token", {p}, FALSE)>>)
  BY DEF Pay
<1> DEFINE ok == doc[v].status \in {"active", "issued"} /\ ~Locked(doc[v])
           a == Write(doc[v].items, LockedBy(p), FALSE)
           b == Write({v}, LockedBy(p), FALSE)
           c == Do("createPayment", {v, p}, FALSE)
           d == Do("token", {p}, FALSE)
           q == <<a, b>>
           r == <<c, d>>
<1>2. /\ agenda[t] # <<>> /\ Head(agenda[t]).op \notin {"write", "insert"} /\ UNCHANGED dropped
      /\ PlanInv(t)
  BY DEF Pay, Turn, Follow
<1>3. a \in Step /\ b \in Step /\ c \in Step /\ d \in Step
  BY WriteType, DoType, DocSets, DocItems DEF StepOp
<1>4. /\ a.op = "write" /\ a.to.status = "keep" /\ b.op = "write" /\ b.to.status = "keep"
      /\ c.op = "createPayment" /\ d.op = "token"
  BY DEF Write, Do, LockedBy, Touch
<1>5. Guarded(t, ok, q \o r)
  BY <1>1 DEF LockBoth
<1>6. ASSUME ok PROVE Follows(t, a) /\ Follows(t, b) /\ Follows(t, c) /\ Follows(t, d)
  <2>1. Created(v) /\ doc[v].items \cap Invoice = {}
    BY <1>6, NoPayments DEF Created, LedgerInv, BooksInv
  <2>2. \A w \in {v} \cap Invoice : Created(w)
    BY <2>1
  <2>3. \A w \in doc[v].items \cap Invoice : Created(w)
    BY <2>1
  <2>4. LockedBy(p).status = "keep"
    BY DEF LockedBy, Touch
  <2>5. Follows(t, a) /\ Follows(t, b)
    BY <2>2, <2>3, <2>4, WriteFollows
  <2>6. Follows(t, c) /\ Follows(t, d)
    BY DoFollows DEF StepOp, Request
  <2> QED
    BY <2>5, <2>6
<1>7. q \o r \in Seq(Step) /\ Elems(q \o r) = {a, b, c, d}
  <2> HIDE DEF a, b, c, d
  <2>1. q \in Seq(Step) /\ r \in Seq(Step)
    BY <1>3, Agendas
  <2>2. Elems(q) = {a, b} /\ Elems(r) = {c, d}
    BY <1>3, ElemsShort
  <2> HIDE DEF q, r
  <2> QED
    BY <2>1, <2>2, StepsConcat
<1> HIDE DEF a, b, c, d, q, r
<1>8. CASE ~ok
  BY <1>2, <1>5, <1>8, FollowAbort DEF Guarded, Follow
<1>9. CASE ok
  <2>1. Goes(t, Elems(q \o r))
    BY <1>5, <1>7, <1>9 DEF Guarded, Goes
  <2>2. Goes(t, {a, b, c, d})
    BY <1>7, <2>1
  <2>3. Silent({a, b, c, d})
    BY <1>4, SilentSteps
  <2>4. \A s \in {a, b, c, d} : Reopens(s) /\ Follows(t, s)
                                /\ s.op \notin {"insert", "revertToPreviousState"}
    BY <1>4, <1>6, <1>9 DEF Reopens
  <2> QED
    BY <1>2, <2>2, <2>3, <2>4, SilentFollow
<1> QED
  BY <1>8, <1>9

LEMMA SettleNextFollow ==
    ASSUME TypeOK, LedgerInv, NEW t \in Thread, Follow(t), SettleNext(t)
    PROVE  Follow(t)'
<1> DEFINE h == Head(agenda[t])
<1>1. agenda[t] # <<>> /\ h.op = "settle" /\ h \in Step /\ UNCHANGED dropped /\ PlanInv(t)
  BY HeadType DEF SettleNext, Turn, Follow
<1>2. CASE Abort(t)
  BY <1>1, <1>2, FollowAbort DEF Follow
<1>3. /\ \A s \in Steps(t) : s.op # "revertToPreviousState" /\ Clean(s) /\ StepInv(s)
      /\ Steps(t) = {h} \cup Rest(t)
  BY <1>1, NoRevert, BehindHandler DEF LedgerInv, RequestInv, AgendaInv
<1>4. \A s \in Rest(t) : \A d \in Income \cup Invoice : s \in Alters(Rest(t), d) =>
        s.to.status = "paid"
  BY <1>3, BillingAssumption DEF Alters, Clean, StepInv, Sets
<1>5. ASSUME NEW v \in Invoice, NEW N \in SUBSET NumberSteps(v), v \in Batch(h),
             Goes(t, N \cup PaidSteps(h, v))
      PROVE  Follow(t)'
  <2> DEFINE a == Do("issue", {v}, FALSE)
             b == Write({v}, Numbered, FALSE)
             c == Write(doc[v].items, Becomes("paid"), TRUE)
             d == Write({v}, Becomes("paid"), TRUE)
             g == [h EXCEPT !.on = @ \ {v}]
             E == N \cup PaidSteps(h, v)
  <2>1. E \subseteq {a, b, c, d, g} /\ c \in E /\ d \in E
    BY <1>5 DEF PaidSteps, NumberSteps
  <2>2. /\ a.op = "issue" /\ b.op = "write" /\ b.to.status = "keep"
        /\ c.op = "write" /\ c.tx = TRUE /\ c.on = doc[v].items /\ c.to.status = "paid"
        /\ d.op = "write" /\ d.tx = TRUE /\ d.on = {v} /\ d.to.status = "paid"
    BY PlainChanges DEF Write, Do
  <2>3. g.op = "settle"
    BY <1>1 DEF Step
  <2>4. /\ doc[v].items \cap Invoice = {} /\ doc[v].items \subseteq Income /\ v \notin Income
        /\ Created(v)
    BY <1>1, <1>5, HeadInv, NoPayments, BillingAssumption DEF LedgerInv, BooksInv, Created,
       StepInv
  <2>5. Follows(t, a) /\ Follows(t, b) /\ Follows(t, c) /\ Follows(t, d)
    <3>1. \A w \in doc[v].items \cap Invoice : Created(w)
      BY <2>4
    <3>2. \A w \in {v} \cap Invoice : Created(w)
      BY <2>4
    <3>3. Numbered.status = "keep"
      BY PlainChanges
    <3> QED
      BY <3>1, <3>2, <3>3, WriteFollows, DoFollows
  <2>6. Goes(t, E)
    BY <1>5
  <2> HIDE DEF a, b, c, d, g, E
  <2>7. Follows(t, g)
    BY <2>3 DEF Follows, DirectInv, Begins, Request
  <2>8. \A s \in E : Follows(t, s) /\ s.op \notin {"insert", "revertToPreviousState"}
    BY <2>1, <2>2, <2>3, <2>5, <2>7
  <2>9. \A w \in Invoice \ {v} : Alters(E, w) = {}
    BY <2>1, <2>2, <2>3, <2>4 DEF Alters
  <2>10. \A i \in Income \ doc[v].items : Alters(E, i) = {}
    BY <2>1, <2>2, <2>3, <2>4 DEF Alters
  <2>11. \A w : \A s \in Alters(E, w) : s.to.status = "paid"
    BY <2>1, <2>2, <2>3 DEF Alters
  <2>12. h.op \notin {"write", "insert"}
    BY <1>1
  <2>13. ASSUME NEW w \in Income \cup Invoice, Alters(E, w) # {}, NEW x \in Ends(t, w)'
         PROVE  x = "paid"
    <3>1. w \in Doc
      BY DocSets
    <3>2. \E s \in Alters(E, w) \cup Alters(Rest(t), w) : s.to.status = x
      BY <1>1, <2>6, <2>12, <2>13, <3>1, EndsGoes
    <3>3. \A s \in Alters(Rest(t), w) : s \in Rest(t)
      BY DEF Alters
    <3> QED
      BY <1>4, <2>11, <3>2, <3>3
  <2>14. ASSUME NEW i \in Income, Sole(doc, v, i),
                NEW x \in Ends(t, v)', NEW y \in Ends(t, i)'
         PROVE  y \in HeldStatus(x)
    <3>1. c \in Alters(E, i) /\ d \in Alters(E, v)
      BY <2>1, <2>2, <2>14 DEF Alters, Sole
    <3>2. x = "paid" /\ y = "paid"
      BY <2>13, <2>14, <3>1
    <3> QED
      BY <3>2, HeldOpen
  <2>15. OutcomeInv(t) => OutcomeInv(t)'
    BY <1>1, <2>6, <2>8, <2>9, <2>10, <2>12, <2>14, OutcomeGoes
  <2> QED
    BY <1>1, <1>3, <2>6, <2>8, <2>12, <2>15, FollowGoes
<1> QED
  BY <1>2, <1>5, SettleNextGoes

LEMMA PopRest ==
    ASSUME TypeOK, NEW t \in Thread, agenda[t] # <<>>, Then(t, <<>>)
    PROVE  Steps(t)' = Rest(t)
  BY PopSteps DEF Steps, Rest, Elems

\* A step is done and nothing new is to be done.
LEMMA PlanPops ==
    ASSUME TypeOK, NEW t \in Thread, PlanInv(t), agenda[t] # <<>>, Then(t, <<>>),
           \A s \in Rest(t) : DirectInv(s)', \A v \in Invoice : Created(v) => Created(v)',
           Making(t)' => Making(t)
    PROVE  PlanInv(t)' /\ Steps(t)' = Rest(t)
<1>1. Steps(t)' = Rest(t)
  BY PopRest
<1>2. Rest(t) \subseteq Steps(t) /\ \A s \in Rest(t) : ~Begins(s)
  BY BehindHandler
<1>3. \A s \in Rest(t) : s.op = "write" => \A v \in s.on \cap Invoice : Created(v)'
  BY <1>2 DEF PlanInv
<1>4. \A s \in Rest(t) :
        /\ s.op = "revertToPreviousState" => \A r \in Rest(t) : Reopens(r)
        /\ s.op = "createInvoice" => s.on \subseteq Free \/ s.on \cap Free = {}
        /\ s.op = "insert" /\ ~s.tx => s.on \subseteq Free
  BY <1>2 DEF PlanInv
<1>5. Making(t)' => \A s \in Rest(t) : s.op = "insert" \/ (s.op = "write" /\ s.tx)
  BY <1>2 DEF PlanInv
<1> QED
  BY <1>1, <1>2, <1>3, <1>4, <1>5 DEF PlanInv

LEMMA WriteInTransactionFollow ==
    ASSUME TypeOK, LedgerInv, NEW t \in Thread, Follow(t), WriteInTransaction(t)
    PROVE  Follow(t)'
<1> DEFINE s == Head(agenda[t])
<1>1. /\ agenda[t] # <<>> /\ s \in Steps(t) /\ s.op = "write" /\ s.tx = TRUE
      /\ s.on \in SUBSET Doc /\ s.on \cap stale[t] = {}
      /\ Then(t, <<>>)
      /\ UNCHANGED <<doc, stale, dropped>>
      /\ wrote'[t] = wrote[t] \cup s.on
      /\ \A d \in Doc \ s.on : buf'[t][d] = buf[t][d]
      /\ \A d \in s.on :
           /\ buf'[t][d].status = IF s.to.status = "keep" THEN View(t, d).status
                                                          ELSE s.to.status
           /\ buf'[t][d].items = View(t, d).items
  BY WriteInTransactionBuf
<1>2. IncomeFollowsInvoice /\ PlanInv(t) /\ (Void(t) \/ OutcomeInv(t))
  BY DEF Follow
<1>3. Rest(t) \subseteq Steps(t) /\ Steps(t) = {s} \cup Rest(t)
  BY <1>1, <1>2, BehindHandler
<1>4. IncomeFollowsInvoice'
  BY <1>1, <1>2, FollowsStays
<1>5. Steps(t)' = Rest(t)
  BY <1>1, PopRest
<1> HIDE DEF s
<1>6. Making(t)' => Making(t)
  <2>1. \A v \in s.on \cap Invoice : Created(v)
    BY <1>1, <1>2 DEF PlanInv
  <2> QED
    BY <1>1, <1>3, <1>5, <2>1 DEF Making, Created
<1>7. PlanInv(t)'
  <2>1. \A r \in Rest(t) : DirectInv(r)'
    BY <1>1, <1>2, <1>3, DirectKept DEF PlanInv
  <2>2. \A v \in Invoice : Created(v) => Created(v)'
    BY <1>1 DEF Created
  <2> QED
    BY <1>1, <1>2, <1>6, <2>1, <2>2, PlanPops
<1>8. CASE Void(t)
  <2>1. s.on = {}
    BY <1>1, <1>8 DEF Void, Lost
  <2>2. Void(t)'
    BY <1>1, <1>8, <2>1 DEF Void, Lost
  <2> QED
    BY <1>4, <1>7, <2>2 DEF Follow
<1>9. ASSUME NEW d \in Doc
      PROVE  /\ View(t, d)'.items = View(t, d).items
             /\ Ends(t, d)' \subseteq Ends(t, d)
  <2>1. d \notin s.on => View(t, d)' = View(t, d)
    BY <1>1 DEF View
  <2>2. d \in s.on => View(t, d)' = buf'[t][d]
    BY <1>1 DEF View
  <2>3. View(t, d)'.items = View(t, d).items
    BY <1>1, <2>1, <2>2
  <2>4. CASE s \in SetsInTransaction(t, d)
    <3>1. s.to.status \in Ends(t, d) /\ d \in s.on /\ s.to.status # "keep"
      BY <2>4 DEF Ends, SetsInTransaction
    <3>2. View(t, d)'.status = s.to.status
      BY <1>1, <2>2, <3>1
    <3>3. SetsInTransaction(t, d)' \subseteq SetsInTransaction(t, d)
      BY <1>3, <1>5 DEF SetsInTransaction
    <3> QED
      BY <2>3, <2>4, <3>1, <3>2, <3>3 DEF Ends
  <2>5. CASE s \notin SetsInTransaction(t, d)
    <3>1. d \notin s.on \/ s.to.status = "keep"
      BY <1>1, <2>5 DEF SetsInTransaction
    <3>2. View(t, d)'.status = View(t, d).status
      BY <1>1, <2>1, <2>2, <3>1
    <3>3. SetsInTransaction(t, d)' = SetsInTransaction(t, d)
      BY <1>3, <1>5, <2>5 DEF SetsInTransaction
    <3> QED
      BY <2>3, <3>2, <3>3 DEF Ends
  <2> QED
    BY <2>4, <2>5
<1>10. CASE OutcomeInv(t)
  <2>1. Inserting(t)' = Inserting(t)
    BY <1>1, <1>3, <1>5 DEF Inserting
  <2>2. \A v \in Invoice : Future(t)'[v].items = Future(t)[v].items
    BY <1>9, DocSets DEF Future
  <2>3. ASSUME NEW v \in Invoice, NEW i \in Income, Sole(Future(t), v, i)'
        PROVE  Sole(Future(t), v, i)
    BY <1>1, <2>2, <2>3 DEF Sole
  <2>4. ASSUME NEW v \in Invoice, NEW i \in Income \ Inserting(t)', Sole(Future(t), v, i)',
               NEW x \in Ends(t, v)', NEW y \in Ends(t, i)'
        PROVE  y \in HeldStatus(x)
    <3>1. x \in Ends(t, v) /\ y \in Ends(t, i)
      BY <1>9, <2>4, DocSets
    <3> QED
      BY <1>10, <2>1, <2>3, <2>4, <3>1 DEF OutcomeInv
  <2>5. ASSUME NEW i \in Inserting(t)', NEW y \in Ends(t, i)'
        PROVE  y = "pending"
    <3>1. i \in Inserting(t) /\ i \in Income
      BY <2>1 DEF Inserting
    <3>2. y \in Ends(t, i)
      BY <1>9, <2>5, <3>1, DocSets
    <3>3. Ends(t, i) \subseteq {"pending"}
      BY <1>10, <3>1 DEF OutcomeInv
    <3> QED
      BY <3>2, <3>3
  <2>6. OutcomeInv(t)'
    BY <2>4, <2>5 DEF OutcomeInv, HeldStatus
  <2> QED
    BY <1>4, <1>7, <2>6 DEF Follow
<1> QED
  BY <1>2, <1>8, <1>10

\* A step outside the transaction that moves no income its invoice alone bills.
LEMMA DirectFollow ==
    ASSUME TypeOK, LedgerInv, NEW t \in Thread, Follow(t), agenda[t] # <<>>, Then(t, <<>>),
           UNCHANGED <<wrote, buf, dropped>>, Lost(t) => Lost(t)',
           Head(agenda[t]).op \in {"write", "insert"} => ~Head(agenda[t]).tx,
           \A v \in Invoice : /\ doc'[v].items \ Free = doc[v].items \ Free
                              /\ Created(v) => Created(v)'
                              /\ \/ doc'[v].status = doc[v].status
                                 \/ /\ doc'[v].status \in OpenStatus
                                    /\ doc[v].status \in OpenStatus,
           \A i \in Income :
             (\E v \in Invoice : Sole(doc, v, i) \/ Sole(Future(t), v, i)) \/ i \in Inserting(t)
                => doc'[i].status = doc[i].status
    PROVE  Follow(t)'
<1>1. IncomeFollowsInvoice /\ PlanInv(t) /\ (Void(t) \/ OutcomeInv(t))
  BY DEF Follow
<1>2. /\ Rest(t) \subseteq Steps(t) /\ Steps(t) = {Head(agenda[t])} \cup Rest(t)
      /\ Steps(t)' = Rest(t)
  BY <1>1, BehindHandler, PopRest
<1>3. \A v \in Invoice : \A i : Sole(doc, v, i)' <=> Sole(doc, v, i)
  BY DEF Sole
<1>4. ASSUME NEW v \in Invoice, NEW i \in Income, Sole(doc, v, i)'
      PROVE  doc'[i].status \in HeldStatus(doc'[v].status)
  <2>1. Sole(doc, v, i)
    BY <1>3, <1>4
  <2>2. doc[i].status \in HeldStatus(doc[v].status)
    BY <1>1, <2>1 DEF IncomeFollowsInvoice
  <2>3. HeldStatus(doc'[v].status) = HeldStatus(doc[v].status)
    BY HeldOpen
  <2> QED
    BY <2>1, <2>2, <2>3
<1>5. IncomeFollowsInvoice'
  BY <1>4 DEF IncomeFollowsInvoice, HeldStatus
<1>6. ASSUME NEW r \in Rest(t) PROVE DirectInv(r)'
  <2>1. DirectInv(r)
    BY <1>1, <1>2 DEF PlanInv
  <2>2. \A v \in Invoice : doc[v].status \in OpenStatus => doc'[v].status \in OpenStatus
    OBVIOUS
  <2> QED
    BY <1>3, <2>1, <2>2 DEF DirectInv
<1>7. Making(t)' => Making(t)
  BY <1>2 DEF Making
<1>8. PlanInv(t)'
  BY <1>1, <1>6, <1>7, PlanPops
<1>9. CASE Void(t)
  <2>1. Void(t)'
    BY <1>9 DEF Void
  <2> QED
    BY <1>5, <1>8, <2>1 DEF Follow
<1>10. CASE OutcomeInv(t)
  <2>1. Inserting(t)' = Inserting(t)
    BY <1>2 DEF Inserting
  <2>2. \A d : SetsInTransaction(t, d)' = SetsInTransaction(t, d)
    BY <1>2 DEF SetsInTransaction
  <2>3. \A v \in Invoice : Future(t)'[v].items \ Free = Future(t)[v].items \ Free
    BY DocSets DEF Future, View
  <2>4. ASSUME NEW d \in Doc
        PROVE  \/ Ends(t, d)' = Ends(t, d)
               \/ /\ Ends(t, d) = {doc[d].status} /\ Ends(t, d)' = {doc'[d].status}
                  /\ doc'[d].status # doc[d].status
    <3>1. CASE SetsInTransaction(t, d) = {}
      <4>1. Ends(t, d) = {View(t, d).status} /\ Ends(t, d)' = {View(t, d)'.status}
        BY <2>2, <3>1 DEF Ends
      <4>2. \/ View(t, d)' = View(t, d)
            \/ View(t, d) = doc[d] /\ View(t, d)' = doc'[d]
        BY DEF View
      <4> QED
        BY <4>1, <4>2
    <3>2. CASE SetsInTransaction(t, d) # {}
      BY <2>2, <3>2 DEF Ends
    <3> QED
      BY <3>1, <3>2
  <2>5. ASSUME NEW v \in Invoice, NEW i \in Income \ Inserting(t)', Sole(Future(t), v, i)',
               NEW x \in Ends(t, v)', NEW y \in Ends(t, i)'
        PROVE  y \in HeldStatus(x)
    <3>1. Sole(Future(t), v, i)
      BY <2>3, <2>5 DEF Sole
    <3>2. y \in Ends(t, i)
      <4>1. doc'[i].status = doc[i].status /\ i \in Doc
        BY <3>1, DocSets
      <4> QED
        BY <2>4, <2>5, <4>1
    <3>3. \A z \in Ends(t, v) : y \in HeldStatus(z)
      BY <1>10, <2>1, <3>1, <3>2 DEF OutcomeInv
    <3>4. CASE Ends(t, v)' = Ends(t, v)
      BY <2>5, <3>3, <3>4
    <3>5. CASE Ends(t, v) = {doc[v].status} /\ Ends(t, v)' = {doc'[v].status}
      <4>1. y \in HeldStatus(doc[v].status) /\ x = doc'[v].status
        BY <2>5, <3>3, <3>5
      <4> QED
        BY <4>1, HeldOpen
    <3> QED
      BY <2>4, <3>4, <3>5, DocSets
  <2>6. ASSUME NEW i \in Inserting(t)', NEW y \in Ends(t, i)'
        PROVE  y = "pending"
    <3>1. i \in Inserting(t) /\ i \in Income
      BY <2>1 DEF Inserting
    <3>2. Ends(t, i)' = Ends(t, i)
      BY <2>4, <3>1, DocSets
    <3>3. Ends(t, i) \subseteq {"pending"}
      BY <1>10, <3>1 DEF OutcomeInv
    <3> QED
      BY <2>6, <3>2, <3>3
  <2>7. OutcomeInv(t)'
    BY <2>5, <2>6 DEF OutcomeInv, HeldStatus
  <2> QED
    BY <1>5, <1>8, <2>7 DEF Follow
<1> QED
  BY <1>1, <1>9, <1>10

LEMMA WriteDirectFollow ==
    ASSUME TypeOK, LedgerInv, NEW t \in Thread, Follow(t), WriteDirect(t)
    PROVE  Follow(t)'
<1> DEFINE s == Head(agenda[t])
<1>1. /\ agenda[t] # <<>> /\ s \in Steps(t) /\ s.op = "write" /\ s.tx = FALSE
      /\ s.on \in SUBSET Doc
      /\ Then(t, <<>>)
      /\ UNCHANGED <<wrote, buf, dropped>>
      /\ \A d \in Doc \ s.on : doc'[d] = doc[d]
      /\ \A d \in s.on :
           /\ doc'[d].status = IF s.to.status = "keep" THEN doc[d].status ELSE s.to.status
           /\ doc'[d].items = doc[d].items
      /\ \A d \in Doc : doc[d].status # "none" => doc'[d].status # "none"
  BY WriteDirectDocs
<1>2. Lost(t) => Lost(t)'
  BY DEF WriteDirect, Overtake, Lost
<1> HIDE DEF s
<1>3. IncomeFollowsInvoice /\ PlanInv(t)
  BY DEF Follow
<1>4. ~Making(t) /\ Inserting(t) = {}
  <2>1. ~Making(t)
    BY <1>1, <1>3 DEF PlanInv
  <2> QED
    BY <2>1 DEF Inserting, Making
<1>5. DirectInv(s)
  BY <1>1, <1>3 DEF PlanInv
<1>6. \A v \in Invoice : doc'[v].items = doc[v].items /\ (Created(v) => Created(v)')
  BY <1>1, DocSets DEF Created
<1>7. ASSUME NEW v \in Invoice
      PROVE  \/ doc'[v].status = doc[v].status
             \/ doc'[v].status \in OpenStatus /\ doc[v].status \in OpenStatus
  <2>1. CASE v \in s.on /\ s.to.status # "keep"
    BY <1>1, <1>5, <2>1 DEF DirectInv
  <2>2. CASE v \notin s.on \/ s.to.status = "keep"
    BY <1>1, <2>2, DocSets
  <2> QED
    BY <2>1, <2>2
<1>8. ASSUME NEW v \in Invoice, NEW i \in Income, Sole(doc, v, i)
      PROVE  doc'[i].status = doc[i].status
  <2>1. doc[i].status \in HeldStatus(doc[v].status)
    BY <1>3, <1>8 DEF IncomeFollowsInvoice
  <2>2. CASE i \in s.on /\ s.to.status # "keep"
    <3>1. s.to.status = "pending" /\ doc[v].status \in OpenStatus
      BY <1>1, <1>5, <1>8, <2>2 DEF DirectInv, Sole
    <3>2. doc[i].status = "pending"
      BY <2>1, <3>1, HeldOpen
    <3> QED
      BY <1>1, <2>2, <3>1, <3>2
  <2>3. CASE i \notin s.on \/ s.to.status = "keep"
    BY <1>1, <2>3, DocSets
  <2> QED
    BY <2>2, <2>3
<1>9. \A v \in Invoice : \A i : Sole(Future(t), v, i) => Sole(doc, v, i)
  BY <1>4, SoleFuture
<1> QED
  BY <1>1, <1>2, <1>4, <1>6, <1>7, <1>8, <1>9, DirectFollow DEF s

LEMMA CreatePaymentFollow ==
    ASSUME TypeOK, LedgerInv, NEW t \in Thread, Follow(t), CreatePayment(t)
    PROVE  Follow(t)'
<1>1. /\ agenda[t] # <<>> /\ Head(agenda[t]).op = "createPayment" /\ Then(t, <<>>)
      /\ UNCHANGED <<wrote, buf, dropped>>
  BY DEF CreatePayment, Turn
<1>2. Lost(t) => Lost(t)'
  BY DEF CreatePayment, Overtake, Lost
<1>3. PICK p \in Payment :
        doc' = [doc EXCEPT ![p] = [Blank EXCEPT !.status = "progressing",
                                               !.items = doc'[p].items]]
  <2>1. PICK v \in Invoice, p \in Payment :
          doc' = [doc EXCEPT ![p] = [Blank EXCEPT !.status = "progressing", !.items = {v}]]
    BY DEF CreatePayment
  <2>2. doc'[p].items = {v}
    BY <2>1, DocSets DEF TypeOK, Blank
  <2> QED
    BY <2>1, <2>2
<1>4. \A d \in Income \cup Invoice : doc'[d] = doc[d]
  BY <1>3, BillingAssumption, DocSets DEF TypeOK
<1> QED
  BY <1>1, <1>2, <1>4, DirectFollow DEF Created

\* A new invoice bills incomes that end up pending.
LEMMA InsertInTransactionFollow ==
    ASSUME TypeOK, LedgerInv, NEW t \in Thread, Follow(t), agenda[t] # <<>>,
           Head(agenda[t]).op = "insert", Head(agenda[t]).tx, Then(t, <<>>),
           UNCHANGED <<doc, stale, dropped>>,
           NEW v \in Invoice \ (wrote[t] \cup stale[t]), ~Created(v),
           wrote'[t] = wrote[t] \cup {v}, \A d \in Doc \ {v} : buf'[t][d] = buf[t][d],
           buf'[t][v].status = "active", buf'[t][v].items = Head(agenda[t]).on
    PROVE  Follow(t)'
<1> DEFINE s == Head(agenda[t])
<1>1. IncomeFollowsInvoice /\ PlanInv(t) /\ OutcomeInv(t)
  BY DocSets DEF Follow, Void, Lost
<1>2. /\ Rest(t) \subseteq Steps(t) /\ Steps(t) = {s} \cup Rest(t)
      /\ Steps(t)' = Rest(t) /\ s \in Steps(t)
  BY <1>1, BehindHandler, PopRest
<1> HIDE DEF s
<1>3. s.op = "insert" /\ s.tx /\ buf'[t][v].items = s.on
  BY DEF s
<1>4. Making(t)
  BY <1>2, <1>3 DEF Making
<1>5. PlanInv(t)'
  <2>1. \A r \in Rest(t) : DirectInv(r)'
    BY <1>1, <1>2, DirectKept DEF PlanInv
  <2>2. \A w \in Invoice : Created(w) => Created(w)'
    BY DEF Created
  <2> QED
    BY <1>1, <1>4, <2>1, <2>2, PlanPops
<1>6. IncomeFollowsInvoice'
  BY <1>1, FollowsStays
<1>7. /\ \A i : i \in Inserting(t)' => i \in Inserting(t)
      /\ \A i : i \in Inserting(t) => i \in Inserting(t)' \/ i \in s.on
      /\ \A i \in s.on \cap Income : i \in Inserting(t)
  BY <1>2, <1>3 DEF Inserting
<1>8. \A d : SetsInTransaction(t, d)' = SetsInTransaction(t, d)
  BY <1>2, <1>3 DEF SetsInTransaction
<1>9. \A d \in Doc \ {v} : View(t, d)' = View(t, d)
  BY DEF View
<1>10. View(t, v)' = buf'[t][v] /\ View(t, v) = doc[v] /\ v \in Doc
  BY DocSets DEF View
<1>11. ASSUME NEW d \in Doc \ {v} PROVE Ends(t, d)' = Ends(t, d)
  <2>1. View(t, d)' = View(t, d) /\ SetsInTransaction(t, d)' = SetsInTransaction(t, d)
    BY <1>8, <1>9
  <2> QED
    BY <2>1 DEF Ends
<1>12. Ends(t, v)' = {"active"}
  <2>1. SetsInTransaction(t, v) = {}
    BY <1>1 DEF SetsInTransaction, PlanInv
  <2> QED
    BY <1>8, <1>10, <2>1 DEF Ends
<1>13. doc[v].items = {}
  BY DocSets DEF LedgerInv, BooksInv, Shape, Created
<1>14. /\ Future(t)'[v].items = s.on /\ Future(t)[v].items = {}
       /\ \A w \in Invoice \ {v} : Future(t)'[w].items = Future(t)[w].items
  BY <1>3, <1>9, <1>10, <1>13, DocSets DEF Future
<1>15. \A i \in Income : i # v /\ i \in Doc
  BY BillingAssumption, DocSets
<1>16. ASSUME NEW w \in Invoice, NEW i \in Income \ Inserting(t)', Sole(Future(t), w, i)',
              NEW x \in Ends(t, w)', NEW y \in Ends(t, i)'
       PROVE  y \in HeldStatus(x)
  <2>1. y \in Ends(t, i)
    BY <1>11, <1>15, <1>16
  <2>2. CASE w = v
    <3>1. i \in Inserting(t)
      BY <1>7, <1>14, <1>16, <2>2 DEF Sole
    <3>2. y = "pending"
      BY <1>1, <2>1, <3>1 DEF OutcomeInv
    <3>3. x = "active"
      BY <1>12, <1>16, <2>2
    <3> QED
      BY <3>2, <3>3 DEF HeldStatus
  <2>3. CASE w # v
    <3>1. i \notin s.on
      BY <1>14, <1>16, <2>3 DEF Sole
    <3>2. Sole(Future(t), w, i) /\ i \notin Inserting(t)
      BY <1>7, <1>14, <1>16, <2>3, <3>1 DEF Sole
    <3>3. x \in Ends(t, w)
      BY <1>11, <1>16, <2>3, DocSets
    <3> QED
      BY <1>1, <2>1, <3>2, <3>3 DEF OutcomeInv
  <2> QED
    BY <2>2, <2>3
<1>17. ASSUME NEW i \in Inserting(t)', NEW y \in Ends(t, i)'
       PROVE  y = "pending"
  <2>1. i \in Inserting(t) /\ i \in Income
    BY <1>7 DEF Inserting
  <2>2. y \in Ends(t, i)
    BY <1>11, <1>15, <1>17, <2>1
  <2>3. Ends(t, i) \subseteq {"pending"}
    BY <1>1, <2>1 DEF OutcomeInv
  <2> QED
    BY <2>2, <2>3
<1>18. OutcomeInv(t)'
  BY <1>16, <1>17 DEF OutcomeInv, HeldStatus
<1> QED
  BY <1>5, <1>6, <1>18 DEF Follow

LEMMA InsertFollow ==
    ASSUME TypeOK, LedgerInv, NEW t \in Thread, Follow(t), Insert(t)
    PROVE  Follow(t)'
<1> DEFINE s == Head(agenda[t])
           new == [Blank EXCEPT !.status = "active", !.items = s.on]
<1>1. agenda[t] # <<>> /\ s.op = "insert" /\ UNCHANGED dropped /\ s \in Steps(t)
  <2>1. agenda[t] # <<>> /\ s.op = "insert" /\ UNCHANGED dropped
    BY DEF Insert, Turn
  <2> QED
    BY <2>1, HeadInv
<1>2. PICK v \in Invoice :
        /\ doc[v].status = "none" /\ v \notin wrote[t]
        /\ \/ /\ s.tx /\ v \notin stale[t]
              /\ buf' = [buf EXCEPT ![t][v] = new]
              /\ wrote' = [wrote EXCEPT ![t] = @ \cup {v}]
              /\ Then(t, <<>>)
              /\ UNCHANGED <<doc, stale>>
           \/ Abort(t)
           \/ /\ ~s.tx
              /\ doc' = [doc EXCEPT ![v] = new]
              /\ Overtake(Thread, {v})
              /\ Then(t, <<>>)
              /\ UNCHANGED <<wrote, buf>>
  BY Zenon DEF Insert
<1>3. new.status = "active" /\ new.items = s.on
  BY DEF Blank
<1>4. v \in Doc /\ ~Created(v) /\ doc[v].items = {}
  BY <1>2, DocSets DEF Created, LedgerInv, BooksInv, Shape
<1> HIDE DEF new
<1>5. CASE Abort(t)
  BY <1>1, <1>5, FollowAbort DEF Follow
<1>6. CASE /\ s.tx /\ v \notin stale[t]
           /\ buf' = [buf EXCEPT ![t][v] = new]
           /\ wrote' = [wrote EXCEPT ![t] = @ \cup {v}]
           /\ Then(t, <<>>)
           /\ UNCHANGED <<doc, stale>>
  <2>1. wrote'[t] = wrote[t] \cup {v}
    BY <1>6 DEF TypeOK
  <2>2. buf'[t][v] = new /\ \A d \in Doc \ {v} : buf'[t][d] = buf[t][d]
    BY <1>4, <1>6 DEF TypeOK
  <2> QED
    BY <1>1, <1>2, <1>3, <1>4, <1>6, <2>1, <2>2, InsertInTransactionFollow
<1>7. CASE /\ ~s.tx
           /\ doc' = [doc EXCEPT ![v] = new]
           /\ Overtake(Thread, {v})
           /\ Then(t, <<>>)
           /\ UNCHANGED <<wrote, buf>>
  <2>1. s.on \subseteq Free
    BY <1>1, <1>7 DEF Follow, PlanInv
  <2>2. doc'[v] = new /\ \A d \in Doc \ {v} : doc'[d] = doc[d]
    BY <1>4, <1>7 DEF TypeOK
  <2>3. Lost(t) => Lost(t)'
    BY <1>7 DEF Lost, Overtake
  <2>4. "none" \in OpenStatus /\ "active" \in OpenStatus
    BY DEF OpenStatus, Status
  <2>5. \A w \in Invoice : /\ doc'[w].items \ Free = doc[w].items \ Free
                           /\ Created(w) => Created(w)'
                           /\ \/ doc'[w].status = doc[w].status
                              \/ /\ doc'[w].status \in OpenStatus
                                 /\ doc[w].status \in OpenStatus
    <3>1. \A w \in Invoice \ {v} : doc'[w] = doc[w]
      BY <2>2, DocSets
    <3>2. doc'[v].items \ Free = doc[v].items \ Free
      BY <1>3, <1>4, <2>1, <2>2
    <3>3. doc'[v].status \in OpenStatus /\ doc[v].status \in OpenStatus
      BY <1>2, <1>3, <2>2, <2>4
    <3> QED
      BY <1>4, <3>1, <3>2, <3>3 DEF Created
  <2>6. \A i \in Income : doc'[i].status = doc[i].status
    BY <2>2, DocSets, BillingAssumption
  <2> QED
    BY <1>1, <1>7, <2>3, <2>5, <2>6, DirectFollow
<1> QED
  BY <1>2, <1>5, <1>6, <1>7

\* The commit: what was to come has come.
LEMMA CommitFollow ==
    ASSUME TypeOK, LedgerInv, NEW t \in Thread, Follow(t), Commit(t)
    PROVE  Follow(t)'
<1>1. agenda'[t] = <<>> /\ wrote'[t] = {} /\ Steps(t) = {} /\ UNCHANGED dropped
  BY CommitDocs DEF Commit, TypeOK
<1>2. \A d \in Doc : doc'[d] = View(t, d)
  BY DEF Commit
<1>3. IncomeFollowsInvoice /\ (Void(t) \/ OutcomeInv(t))
  BY DEF Follow
<1>4. ASSUME NEW v \in Invoice, NEW i \in Income, Sole(doc, v, i)'
      PROVE  doc'[i].status \in HeldStatus(doc'[v].status)
  <2>1. CASE Void(t)
    <3>1. \A d \in Doc : doc'[d] = doc[d]
      BY <1>2, <2>1 DEF Void, View
    <3>2. Sole(doc, v, i)
      BY <1>1, <1>4, <3>1, DocSets DEF Sole
    <3>3. v \in Doc /\ i \in Doc
      BY DocSets
    <3>4. doc'[v] = doc[v] /\ doc'[i] = doc[i]
      BY <3>1, <3>3
    <3>5. doc[i].status \in HeldStatus(doc[v].status)
      BY <1>3, <3>2 DEF IncomeFollowsInvoice
    <3> QED
      BY <3>4, <3>5
  <2>2. CASE OutcomeInv(t)
    <3>1. \A d \in Doc : Future(t)[d] = doc'[d]
      BY <1>2 DEF Future
    <3>2. Sole(Future(t), v, i)
      BY <1>1, <1>4, <3>1, DocSets DEF Sole
    <3>3. Inserting(t) = {}
      BY <1>1 DEF Inserting
    <3>4. \A d \in Doc : Ends(t, d) = {doc'[d].status}
      BY <1>1, <1>2 DEF Ends, SetsInTransaction
    <3>5. doc'[v].status \in Ends(t, v) /\ doc'[i].status \in Ends(t, i)
      BY <3>4, DocSets
    <3> QED
      BY <2>2, <3>2, <3>3, <3>5 DEF OutcomeInv
  <2> QED
    BY <1>3, <2>1, <2>2
<1>5. IncomeFollowsInvoice'
  BY <1>4 DEF IncomeFollowsInvoice, HeldStatus
<1> QED
  BY <1>1, <1>5, FollowEmpty

LEMMA MakeRequestFollow ==
    ASSUME TypeOK, NEW t \in Thread, Follow(t), MakeRequest(t)
    PROVE  Follow(t)'
<1>1. PICK op \in Ops : \E D \in Subjects(op) :
        agenda' = [agenda EXCEPT ![t] = <<Do(op, D, TRUE)>>]
  BY DEF MakeRequest
<1>2. PICK D \in Subjects(op) : agenda' = [agenda EXCEPT ![t] = <<Do(op, D, TRUE)>>]
  BY <1>1
<1> DEFINE s == Do(op, D, TRUE)
<1>3. s.op = op /\ s.on = D /\ op \in Request
  BY OpsAssumption DEF Do
<1>4. agenda'[t] = <<s>> /\ wrote'[t] = {} /\ UNCHANGED <<doc, dropped>>
  BY <1>2 DEF TypeOK, MakeRequest, Idle, Open, txn
<1> HIDE DEF s
<1>5. Steps(t)' = {s}
  BY <1>4, ElemsShort DEF Steps, Elems
<1>6. s.op \notin {"write", "insert"}
  BY <1>3 DEF Request
<1>7. IncomeFollowsInvoice'
  BY <1>4, FollowsStays DEF Follow
<1>8. OutcomeInv(t)' /\ ~Making(t)'
  BY <1>4, <1>5, <1>6, <1>7, OutcomeFresh
<1>9. op = "createInvoice" => D \subseteq Free \/ D \cap Free = {}
  <2>1. ASSUME op = "createInvoice" PROVE D \subseteq Free \/ D \cap Free = {}
    <3>1. D \in Subjects("createInvoice")
      BY <1>2, <2>1
    <3> QED
      BY <3>1 DEF Subjects
  <2> QED
    BY <2>1
<1>10. PlanInv(t)'
  BY <1>3, <1>4, <1>5, <1>6, <1>8, <1>9 DEF PlanInv, DirectInv, Reopens
<1> QED
  BY <1>7, <1>8, <1>10 DEF Follow

LEMMA TimeoutFollow ==
    ASSUME TypeOK, NEW t \in Thread, Follow(t), TransactionTimeout(t)
    PROVE  Follow(t)'
<1>1. wrote'[t] = {} /\ stale'[t] = Doc /\ UNCHANGED <<doc, agenda, dropped>>
  BY DEF TransactionTimeout, TypeOK
<1>2. IncomeFollowsInvoice'
  BY <1>1, FollowsStays DEF Follow
<1>3. Steps(t)' = Steps(t)
  BY <1>1 DEF Steps
<1>4. \A s \in Steps(t) : DirectInv(s)'
  BY <1>1, DirectKept DEF Follow, PlanInv
<1>5. Making(t)' => Making(t)
  BY <1>1, <1>3 DEF Making
<1>6. PlanInv(t)'
  BY <1>1, <1>3, <1>4, <1>5 DEF Follow, PlanInv, Created
<1>7. Void(t)'
  BY <1>1 DEF Void, Lost
<1> QED
  BY <1>2, <1>6, <1>7 DEF Follow

LEMMA StillFollow ==
    ASSUME NEW t \in Thread, Follow(t), UNCHANGED <<doc, agenda, txn, dropped>>
    PROVE  Follow(t)'
<1>1. UNCHANGED <<doc, agenda, wrote, buf, stale, dropped>>
  BY DEF txn
<1>2. IncomeFollowsInvoice'
  BY <1>1, FollowsStays DEF Follow
<1>3. Steps(t)' = Steps(t) /\ Future(t)' = Future(t)
  BY <1>1 DEF Steps, Future, View
<1>4. \A s \in Steps(t) : DirectInv(s)'
  BY <1>1, DirectKept DEF Follow, PlanInv
<1>5. Making(t)' <=> Making(t)
  BY <1>1, <1>3 DEF Making, Created
<1>6. PlanInv(t)'
  BY <1>1, <1>3, <1>4, <1>5 DEF Follow, PlanInv, Created
<1>7. Inserting(t)' = Inserting(t) /\ \A d : SetsInTransaction(t, d)' = SetsInTransaction(t, d)
  BY <1>3 DEF Inserting, SetsInTransaction
<1>8. ASSUME NEW d PROVE Ends(t, d)' = Ends(t, d)
  <2>1. View(t, d)' = View(t, d) /\ SetsInTransaction(t, d)' = SetsInTransaction(t, d)
    BY <1>1, <1>7 DEF View
  <2> QED
    BY <2>1 DEF Ends
<1>9. OutcomeInv(t) => OutcomeInv(t)'
  BY <1>1, <1>3, <1>7, <1>8 DEF OutcomeInv, Sole, HeldStatus
<1>10. Void(t) => Void(t)'
  BY <1>1 DEF Void, Lost
<1> QED
  BY <1>2, <1>6, <1>9, <1>10 DEF Follow

LEMMA InitFollow ==
    ASSUME Init, NEW t \in Thread
    PROVE  Follow(t)
<1>1. PICK future \in SUBSET {i \in Income : ~Billed(i)} : doc = [d \in Doc |-> AtFirst(d, future)]
  BY DEF Init
<1>2. agenda[t] = <<>> /\ wrote[t] = {} /\ dropped = {}
  BY DEF Init
<1>3. ASSUME NEW v \in Invoice, NEW i \in Income, Sole(doc, v, i)
      PROVE  doc[i].status \in HeldStatus(doc[v].status)
  <2>1. v \in Doc /\ i \in Doc /\ i \notin Invoice /\ v \notin Income
    BY DocSets, BillingAssumption
  <2>2. doc[v] = AtFirst(v, future) /\ doc[i] = AtFirst(i, future)
    BY <1>1, <2>1
  <2>3. Existing[v] # {}
    <3>1. i \in doc[v].items
      BY <1>3 DEF Sole
    <3> QED
      BY <2>1, <2>2, <3>1 DEF AtFirst, Blank
  <2>4. doc[v].items = Existing[v] /\ doc[v].status \in {"issued", "active"}
    BY <2>1, <2>3, InitDoc
  <2>5. Billed(i)
    BY <1>3, <2>4 DEF Billed, Sole
  <2>6. doc[i].status = "pending"
    BY <1>1, <2>1, <2>2, <2>5 DEF AtFirst, Blank
  <2> QED
    BY <2>4, <2>6 DEF HeldStatus
<1>4. IncomeFollowsInvoice
  BY <1>3 DEF IncomeFollowsInvoice
<1>5. Steps(t) = {}
  BY <1>2, ElemsShort DEF Steps, Elems
<1>6. PlanInv(t)
  BY <1>2, <1>5 DEF PlanInv, Making
<1>7. Inserting(t) = {} /\ \A d : SetsInTransaction(t, d) = {}
  BY <1>5 DEF Inserting, SetsInTransaction
<1>8. ASSUME NEW d \in Doc PROVE Ends(t, d) = {doc[d].status} /\ Future(t)[d] = doc[d]
  BY <1>2, <1>7 DEF Ends, Future, View
<1>9. ASSUME NEW v \in Invoice, NEW i \in Income, Sole(Future(t), v, i),
             NEW x \in Ends(t, v), NEW y \in Ends(t, i)
      PROVE  y \in HeldStatus(x)
  <2>1. Sole(doc, v, i)
    BY <1>8, <1>9, DocSets DEF Sole
  <2>2. x = doc[v].status /\ y = doc[i].status
    BY <1>8, <1>9, DocSets
  <2> QED
    BY <1>3, <2>1, <2>2
<1>10. OutcomeInv(t)
  BY <1>7, <1>9 DEF OutcomeInv
<1> QED
  BY <1>4, <1>6, <1>10 DEF Follow

LEMMA ProceedFollow ==
    ASSUME TypeOK, LedgerInv, LockInv, NEW t \in Thread, Follow(t), Proceed(t)
    PROVE  Follow(t)'
<1>1. CASE WriteConflict(t)
  BY <1>1, FollowAbort DEF WriteConflict, Follow
<1>2. CASE ~WriteConflict(t)
  BY <1>2, IncomesFollow, CreateInvoiceFollow, MakeInvoiceManuallyFollow, MakeInvoicePendFollow,
     MakeInvoiceCancelFollow, UpdateInvoiceFollow, QuietFollow, IssueFollow, ForceUpdateFollow,
     RevertFollow, MakeInvoicePaidFollow, SettleRestFollow, SettleNextFollow,
     ConfirmPaymentFollow, VerifyFollow, PayFollow, WriteInTransactionFollow, WriteDirectFollow,
     CreatePaymentFollow, InsertFollow, CommitFollow DEF Proceed
<1> QED
  BY <1>1, <1>2

\* Requests come one at a time.
LEMMA NextFollow ==
    ASSUME TypeOK, LedgerInv, LockInv, FollowInv, NEW t, Thread = {t}, [Next]_vars
    PROVE  FollowInv'
<1>1. t \in Thread /\ Follow(t)
  BY DEF FollowInv, Follow
<1>2. SUFFICES Follow(t)'
  BY DEF FollowInv, Follow
<1>3. CASE Proceed(t)
  BY <1>1, <1>3, ProceedFollow
<1>4. CASE MakeRequest(t)
  BY <1>1, <1>4, MakeRequestFollow
<1>5. CASE Fail(t)
  BY <1>1, <1>5, FollowAbort DEF Fail, Follow
<1>6. CASE TransactionTimeout(t)
  BY <1>1, <1>6, TimeoutFollow
<1>7. CASE Restart
  <2>1. agenda'[t] = <<>> /\ wrote'[t] = {} /\ UNCHANGED <<doc, dropped>>
    BY <1>7 DEF Restart
  <2>2. IncomeFollowsInvoice'
    BY <1>1, <2>1, FollowsStays DEF Follow
  <2> QED
    BY <1>1, <2>1, <2>2, FollowEmpty
<1>8. CASE UNCHANGED vars \/ \E p \in Payment : PayerDecides(p) \/ LockElapses(p)
  BY <1>1, <1>8, StillFollow DEF vars, PayerDecides, LockElapses
<1> QED
  BY <1>3, <1>4, <1>5, <1>6, <1>7, <1>8 DEF Next

(***************************************************************************)
(* When requests come one at a time, FollowInv holds in every reachable    *)
(* state: the transaction of a request, with what it has still to write,   *)
(* leaves every income the status its invoice will call for.               *)
(***************************************************************************)
THEOREM SerialFollows ==
    ASSUME NEW t, Thread = {t}
    PROVE  Spec => []FollowInv
<1>1. Init => FollowInv
  BY InitFollow DEF FollowInv, Follow
<1>2. TypeOK /\ LedgerInv /\ LockInv /\ FollowInv /\ [Next]_vars => FollowInv'
  BY NextFollow
<1> QED
  BY <1>1, <1>2, SerialLocks, BillingType, LedgerCorrect, PTL DEF Spec

(***************************************************************************)
(* Requests one at a time, an income of an instance that one invoice alone *)
(* bills has at any time the status its invoice calls for.                 *)
(***************************************************************************)
THEOREM SerialIncomesFollow ==
    ASSUME NEW t, Thread = {t}
    PROVE  Spec => []IncomeFollowsInvoice
<1>1. FollowInv => IncomeFollowsInvoice
  BY DEF FollowInv
<1> QED
  BY <1>1, SerialFollows, PTL
=============================================================================
