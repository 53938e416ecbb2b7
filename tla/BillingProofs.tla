----------------------------- MODULE BillingProofs -----------------------------
(***************************************************************************)
(* Theorems about Billing for every set of incomes, invoices and payments, *)
(* any number of requests in flight, and every bound.                      *)
(***************************************************************************)
EXTENDS BillingProperties, TLAPS, SequenceTheorems

-----------------------------------------------------------------------------
(* Agendas and documents.                                                  *)

\* The head of a non-empty agenda is a step, the rest is again an agenda.
LEMMA StepTail ==
    ASSUME NEW S, NEW q \in Seq(S), q # <<>>
    PROVE  Head(q) \in S /\ Tail(q) \in Seq(S)
  OBVIOUS

\* Changes and documents are closed under the operators of Billing.
LEMMA ChangeType ==
    /\ Touch \in Change
    /\ \A s \in Status : Becomes(s) \in Change
    /\ \A p \in Payment \cup {NoLock} : LockedBy(p) \in Change
    /\ Numbered \in Change
    /\ Issued \in Change
  BY DEF Touch, Becomes, LockedBy, Numbered, Issued, Change, Status

LEMMA ChangedType ==
    ASSUME NEW d \in Document, NEW c \in Change
    PROVE  Changed(d, c) \in Document
  BY DEF Changed, Document, Change

LEMMA BlankType == Blank \in Document /\ Blanks \in [Doc -> Document]
<1>1. Blank \in Document
  BY DEF Blank, Document, Status
<1> QED
  BY <1>1 DEF Blanks

LEMMA DoType ==
    ASSUME NEW op \in StepOp, NEW D \in SUBSET Doc, NEW tx \in BOOLEAN
    PROVE  /\ Do(op, D, tx) \in Step
           /\ \A c \in Change : Write(D, c, tx) \in Step
<1>1. Touch \in Change
  BY ChangeType
<1>2. Unseen \in [Invoice -> Document]
  BY BlankType DEF Unseen
<1>3. Do(op, D, tx) \in Step
  BY <1>1, <1>2 DEF Do, Step
<1>4. Do("write", D, tx) \in Step
  BY <1>1, <1>2 DEF Do, Step, StepOp
<1>5. ASSUME NEW c \in Change PROVE Write(D, c, tx) \in Step
  BY <1>4 DEF Write, Step
<1> QED
  BY <1>3, <1>5

\* Items of documents, sets of documents steps are about.
LEMMA DocSets ==
    /\ Income \subseteq Doc /\ Invoice \subseteq Doc /\ Payment \subseteq Doc
    /\ FinNo \in Doc
  BY DEF Doc

LEMMA HeadType ==
    ASSUME TypeOK, NEW t \in Thread, NEW op, Turn(t, op)
    PROVE  /\ agenda[t] \in Seq(Step)
           /\ agenda[t] # <<>>
           /\ Head(agenda[t]) \in Step
           /\ Head(agenda[t]).op = op
           /\ Head(agenda[t]).on \in SUBSET Doc
           /\ Head(agenda[t]).to \in Change
           /\ Head(agenda[t]).seen \in [Invoice -> Document]
           /\ Head(agenda[t]).tx \in BOOLEAN
<1>1. agenda[t] \in Seq(Step) /\ agenda[t] # <<>>
  BY DEF TypeOK, Turn
<1>2. Head(agenda[t]) \in Step
  BY <1>1, StepTail
<1> QED
  BY <1>1, <1>2 DEF Turn, Step

LEMMA ThenType ==
    ASSUME TypeOK, NEW t \in Thread, agenda[t] # <<>>,
           NEW new \in Seq(Step), Then(t, new)
    PROVE  agenda' \in [Thread -> Seq(Step)]
<1>1. agenda[t] \in Seq(Step)
  BY DEF TypeOK
<1>2. new \o Tail(agenda[t]) \in Seq(Step)
  BY <1>1, StepTail, ConcatProperties
<1> QED
  BY <1>2 DEF Then, TypeOK

\* What the steps of a request change of documents, agendas and transactions.
TxnType ==
    /\ doc \in [Doc -> Document]
    /\ agenda \in [Thread -> Seq(Step)]
    /\ wrote \in [Thread -> SUBSET Doc]
    /\ buf \in [Thread -> [Doc -> Document]]
    /\ stale \in [Thread -> SUBSET Doc]

LEMMA AbortType ==
    ASSUME TypeOK, NEW t \in Thread, Abort(t)
    PROVE  TxnType'
  BY BlankType DEF TypeOK, Abort, TxnType

LEMMA GuardedType ==
    ASSUME TypeOK, NEW t \in Thread, agenda[t] # <<>>,
           NEW new \in Seq(Step), NEW ok, Guarded(t, ok, new)
    PROVE  TxnType'
<1>1. CASE Abort(t)
  BY <1>1, AbortType
<1>2. CASE Then(t, new) /\ UNCHANGED <<doc, txn>>
  BY <1>2, ThenType DEF TypeOK, txn, TxnType
<1> QED
  BY <1>1, <1>2 DEF Guarded

LEMMA OvertakeType ==
    ASSUME TypeOK, NEW D \in SUBSET Doc, Overtake(Thread, D)
    PROVE  stale' \in [Thread -> SUBSET Doc]
  BY DEF Overtake, TypeOK

LEMMA Agendas ==
    /\ \A a \in Step : <<a>> \in Seq(Step)
    /\ \A a, b \in Step : <<a, b>> \in Seq(Step)
    /\ \A a, b, c \in Step : <<a, b, c>> \in Seq(Step)
    /\ <<>> \in Seq(Step)
    /\ \A p, q \in Seq(Step) : p \o q \in Seq(Step)
  BY ConcatProperties

\* An action that leaves the books, the bank and the counters alone.
LEMMA RestType ==
    ASSUME TypeOK, TxnType', UNCHANGED <<books, env, dropped, entered, requests, faults>>
    PROVE  TypeOK'
  BY DEF TypeOK, TxnType, books, env

\* What invoices and payments read from the database are about.
LEMMA DocItems ==
    ASSUME TypeOK, NEW d \in Doc
    PROVE  doc[d] \in Document /\ doc[d].items \in SUBSET Doc
  BY DEF TypeOK, Document

-----------------------------------------------------------------------------
(* Types: one lemma for each handler.                                      *)

LEMMA CreateInvoiceType ==
    ASSUME TypeOK, NEW t \in Thread, CreateInvoice(t)
    PROVE  TypeOK'
<1> DEFINE S   == Head(agenda[t]).on
           new == <<Do("insert", S, S \cap Free = {}),
                    Write(S, Becomes("pending"), TRUE)>>
<1>1. agenda[t] # <<>> /\ S \in SUBSET Doc
  BY HeadType DEF CreateInvoice
<1>2. Do("insert", S, S \cap Free = {}) \in Step
  BY <1>1, DoType DEF StepOp
<1>3. Write(S, Becomes("pending"), TRUE) \in Step
  BY <1>1, DoType, ChangeType DEF StepOp, Status
<1>4. new \in Seq(Step)
  BY <1>2, <1>3, Agendas
<1>5. CASE Abort(t)
  BY <1>5, AbortType, RestType DEF CreateInvoice
<1>6. CASE Then(t, new) /\ UNCHANGED <<doc, txn>>
  <2>1. agenda' \in [Thread -> Seq(Step)]
    BY <1>1, <1>4, <1>6, ThenType
  <2>2. TxnType'
    BY <1>6, <2>1 DEF TypeOK, TxnType, txn
  <2> QED
    BY <2>2, RestType DEF CreateInvoice
<1> QED
  BY <1>5, <1>6 DEF CreateInvoice

LEMMA MakeInvoiceManuallyType ==
    ASSUME TypeOK, NEW t \in Thread, MakeInvoiceManually(t)
    PROVE  TypeOK'
<1>1. agenda[t] # <<>>
  BY HeadType DEF MakeInvoiceManually
<1>2. CASE Abort(t)
  BY <1>2, AbortType, RestType DEF MakeInvoiceManually
<1>3. ASSUME NEW S \in SUBSET Income,
             Then(t, <<Write(S, Becomes("pending"), TRUE), Do("insert", S, TRUE)>>),
             UNCHANGED <<doc, txn>>
      PROVE  TypeOK'
  <2> DEFINE new == <<Write(S, Becomes("pending"), TRUE), Do("insert", S, TRUE)>>
  <2>1. Write(S, Becomes("pending"), TRUE) \in Step /\ Do("insert", S, TRUE) \in Step
    BY DoType, ChangeType, DocSets DEF StepOp, Status
  <2>2. new \in Seq(Step)
    BY <2>1, Agendas
  <2>3. agenda' \in [Thread -> Seq(Step)]
    BY <1>1, <1>3, <2>2, ThenType
  <2>4. TxnType'
    BY <1>3, <2>3 DEF TypeOK, TxnType, txn
  <2> QED
    BY <2>4, RestType DEF MakeInvoiceManually
<1> QED
  BY <1>2, <1>3, Zenon DEF MakeInvoiceManually

LEMMA InsertType ==
    ASSUME TypeOK, NEW t \in Thread, Insert(t)
    PROVE  TypeOK'
<1> DEFINE s   == Head(agenda[t])
           new == [Blank EXCEPT !.status = "active", !.items = s.on]
<1>1. agenda[t] # <<>> /\ s.on \in SUBSET Doc
  BY HeadType DEF Insert
<1>2. PICK v \in Invoice :
        \/ /\ buf' = [buf EXCEPT ![t][v] = new]
           /\ wrote' = [wrote EXCEPT ![t] = @ \cup {v}]
           /\ Then(t, <<>>)
           /\ UNCHANGED <<doc, stale>>
        \/ Abort(t)
        \/ /\ doc' = [doc EXCEPT ![v] = new]
           /\ Overtake(Thread, {v})
           /\ Then(t, <<>>)
           /\ UNCHANGED <<wrote, buf>>
  BY DEF Insert
<1>3. new \in Document
  BY <1>1, BlankType DEF Document, Status
<1>4. v \in Doc
  BY DocSets
<1>5. ASSUME Then(t, <<>>) PROVE agenda' \in [Thread -> Seq(Step)]
  BY <1>1, <1>5, ThenType, Agendas
<1>6. CASE /\ buf' = [buf EXCEPT ![t][v] = new]
           /\ wrote' = [wrote EXCEPT ![t] = @ \cup {v}]
           /\ Then(t, <<>>)
           /\ UNCHANGED <<doc, stale>>
  <2> HIDE DEF new
  <2>1. buf' \in [Thread -> [Doc -> Document]]
    BY <1>3, <1>4, <1>6 DEF TypeOK
  <2>2. wrote' \in [Thread -> SUBSET Doc]
    BY <1>4, <1>6 DEF TypeOK
  <2>3. TxnType'
    BY <1>5, <1>6, <2>1, <2>2 DEF TypeOK, TxnType
  <2> QED
    BY <2>3, RestType DEF Insert
<1>7. CASE Abort(t)
  BY <1>7, AbortType, RestType DEF Insert
<1>8. CASE /\ doc' = [doc EXCEPT ![v] = new]
           /\ Overtake(Thread, {v})
           /\ Then(t, <<>>)
           /\ UNCHANGED <<wrote, buf>>
  <2> HIDE DEF new
  <2>1. doc' \in [Doc -> Document]
    BY <1>3, <1>4, <1>8 DEF TypeOK
  <2>2. stale' \in [Thread -> SUBSET Doc]
    BY <1>4, <1>8, OvertakeType
  <2>3. TxnType'
    BY <1>5, <1>8, <2>1, <2>2 DEF TypeOK, TxnType
  <2> QED
    BY <2>3, RestType DEF Insert
<1> QED
  BY <1>2, <1>6, <1>7, <1>8

\* A handler that goes on with steps when it may.
LEMMA HandlerType ==
    ASSUME TypeOK, NEW t \in Thread, agenda[t] # <<>>,
           NEW new \in Seq(Step), NEW ok, Guarded(t, ok, new),
           UNCHANGED <<books, env, dropped, entered, requests, faults>>
    PROVE  TypeOK'
  BY GuardedType, RestType

LEMMA WriteType ==
    ASSUME NEW D \in SUBSET Doc, NEW tx \in BOOLEAN
    PROVE  /\ Write(D, Touch, tx) \in Step
           /\ Write(D, Numbered, tx) \in Step
           /\ Write(D, Issued, tx) \in Step
           /\ \A s \in Status : Write(D, Becomes(s), tx) \in Step
           /\ \A p \in Payment \cup {NoLock} : Write(D, LockedBy(p), tx) \in Step
<1>1. "write" \in StepOp
  BY DEF StepOp
<1> QED
  BY <1>1, DoType, ChangeType

LEMMA IssueType ==
    ASSUME TypeOK, NEW t \in Thread, Issue(t)
    PROVE  TypeOK'
<1>1. PICK v \in Invoice :
        Guarded(t, ~Locked(doc[v]) /\ doc[v].status \in {"active", "pending"},
                 <<Write({v}, Touch, FALSE)>>
                 \o (IF v \in Official
                     THEN <<Write({FinNo}, Touch, Head(agenda[t]).tx)>>
                     ELSE <<>>)
                 \o <<Do("insertInvoice", {v}, Head(agenda[t]).tx),
                      Write(doc[v].items, Becomes("pending"), Head(agenda[t]).tx),
                      Write({v}, Issued, Head(agenda[t]).tx)>>)
  BY DEF Issue
<1> DEFINE tx == Head(agenda[t]).tx
           a  == <<Write({v}, Touch, FALSE)>>
           b  == IF v \in Official THEN <<Write({FinNo}, Touch, tx)>> ELSE <<>>
           c  == <<Do("insertInvoice", {v}, tx),
                   Write(doc[v].items, Becomes("pending"), tx),
                   Write({v}, Issued, tx)>>
<1>2. agenda[t] # <<>> /\ tx \in BOOLEAN
  BY HeadType DEF Issue
<1>3. v \in Doc /\ doc[v].items \in SUBSET Doc /\ FinNo \in Doc
  BY DocSets, DocItems
<1>4. a \in Seq(Step)
  BY <1>3, WriteType, Agendas
<1>5. b \in Seq(Step)
  BY <1>2, <1>3, WriteType, Agendas
<1>6. c \in Seq(Step)
  <2>1. Do("insertInvoice", {v}, tx) \in Step
    BY <1>2, <1>3, DoType DEF StepOp
  <2>2. Write(doc[v].items, Becomes("pending"), tx) \in Step
    BY <1>2, <1>3, WriteType DEF Status
  <2>3. Write({v}, Issued, tx) \in Step
    BY <1>2, <1>3, WriteType
  <2> QED
    BY <2>1, <2>2, <2>3, Agendas
<1> HIDE DEF a, b, c
<1>7. a \o b \o c \in Seq(Step)
  BY <1>4, <1>5, <1>6, Agendas
<1>8. Guarded(t, ~Locked(doc[v]) /\ doc[v].status \in {"active", "pending"},
              a \o b \o c)
  BY <1>1 DEF a, b, c
<1> QED
  BY <1>2, <1>7, <1>8, HandlerType DEF Issue

LEMMA InsertInvoiceType ==
    ASSUME TypeOK, NEW t \in Thread, InsertInvoice(t)
    PROVE  TypeOK'
<1>1. agenda[t] # <<>>
  BY HeadType DEF InsertInvoice
<1>2. agenda' \in [Thread -> Seq(Step)]
  BY <1>1, ThenType, Agendas DEF InsertInvoice
<1> QED
  BY <1>2 DEF InsertInvoice, TypeOK, txn, env

LEMMA VoucherType ==
    ASSUME TypeOK, NEW t \in Thread, Voucher(t)
    PROVE  TypeOK'
<1>1. agenda[t] # <<>>
  BY HeadType DEF Voucher
<1>2. agenda' \in [Thread -> Seq(Step)]
  BY <1>1, ThenType, Agendas DEF Voucher
<1> QED
  BY <1>2 DEF Voucher, TypeOK, txn, env

LEMMA MakeInvoicePendType ==
    ASSUME TypeOK, NEW t \in Thread, MakeInvoicePend(t)
    PROVE  TypeOK'
<1>1. PICK v \in Invoice :
        Guarded(t, MayPend(v),
                 <<Write(doc[v].items, Becomes("pending"), FALSE),
                   Write({v}, Becomes("pending"), FALSE)>>)
  BY DEF MakeInvoicePend
<1>2. agenda[t] # <<>>
  BY HeadType DEF MakeInvoicePend
<1>3. v \in Doc /\ doc[v].items \in SUBSET Doc
  BY DocSets, DocItems
<1>4. <<Write(doc[v].items, Becomes("pending"), FALSE),
        Write({v}, Becomes("pending"), FALSE)>> \in Seq(Step)
  BY <1>3, WriteType, Agendas DEF Status
<1> QED
  BY <1>1, <1>2, <1>4, HandlerType DEF MakeInvoicePend

LEMMA MakeInvoiceCancelType ==
    ASSUME TypeOK, NEW t \in Thread, MakeInvoiceCancel(t)
    PROVE  TypeOK'
<1>1. PICK v \in Invoice :
        Guarded(t, ~Locked(doc[v]) /\ doc[v].status \notin {"none", "paid"},
                Cancellation(v))
  BY DEF MakeInvoiceCancel
<1>2. agenda[t] # <<>>
  BY HeadType DEF MakeInvoiceCancel
<1>3. v \in Doc /\ doc[v].items \in SUBSET Doc
  BY DocSets, DocItems
<1>4. Cancellation(v) \in Seq(Step)
  BY <1>3, WriteType, Agendas DEF Status, Cancellation
<1> QED
  BY <1>1, <1>2, <1>4, HandlerType DEF MakeInvoiceCancel

LEMMA UpdateInvoiceType ==
    ASSUME TypeOK, NEW t \in Thread, UpdateInvoice(t)
    PROVE  TypeOK'
<1>1. PICK v \in Invoice :
         \/ Guarded(t, ~Locked(doc[v]) /\ doc[v].status = "active",
                    <<Write(doc[v].items, Becomes("pending"), TRUE),
                      Write({v}, Issued, TRUE)>>)
         \/ Guarded(t, ~Locked(doc[v]) /\ doc[v].status = "active",
                    <<Write({v}, Becomes("active"), TRUE)>>)
  BY DEF UpdateInvoice
<1>2. agenda[t] # <<>>
  BY HeadType DEF UpdateInvoice
<1>3. v \in Doc /\ doc[v].items \in SUBSET Doc
  BY DocSets, DocItems
<1>4. <<Write(doc[v].items, Becomes("pending"), TRUE),
        Write({v}, Issued, TRUE)>> \in Seq(Step)
  BY <1>3, WriteType, Agendas DEF Status
<1>5. <<Write({v}, Becomes("active"), TRUE)>> \in Seq(Step)
  BY <1>3, WriteType, Agendas DEF Status
<1> QED
  BY <1>1, <1>2, <1>4, <1>5, HandlerType DEF UpdateInvoice

LEMMA RevertToPreviousStateType ==
    ASSUME TypeOK, NEW t \in Thread, RevertToPreviousState(t)
    PROVE  TypeOK'
<1>1. PICK v \in Head(agenda[t]).on \cap Invoice :
         LET rest == Head(agenda[t]).on \ {v} IN
         \/ Then(t, <<>>) /\ UNCHANGED <<doc, txn>>
         \/ Guarded(t, ~Locked(doc[v]),
              <<Write(doc[v].items, Becomes("pending"), TRUE),
                Write({v}, Becomes(PreviousStatus(v)), TRUE)>>
              \o (IF rest = {} THEN <<>>
                  ELSE <<Do("revertToPreviousState", rest, TRUE)>>))
  BY DEF RevertToPreviousState
<1>2. agenda[t] # <<>> /\ Head(agenda[t]).on \in SUBSET Doc
  BY HeadType DEF RevertToPreviousState
<1>3. v \in Doc /\ doc[v].items \in SUBSET Doc
  BY DocSets, DocItems
<1> DEFINE rest == Head(agenda[t]).on \ {v}
           a    == <<Write(doc[v].items, Becomes("pending"), TRUE),
                     Write({v}, Becomes(PreviousStatus(v)), TRUE)>>
           b    == IF rest = {} THEN <<>>
                   ELSE <<Do("revertToPreviousState", rest, TRUE)>>
<1>4. a \in Seq(Step)
  <2>1. PreviousStatus(v) \in Status /\ "pending" \in Status
    BY DEF PreviousStatus, Status
  <2> QED
    BY <1>3, <2>1, WriteType, Agendas
<1>5. b \in Seq(Step)
  <2>1. Do("revertToPreviousState", rest, TRUE) \in Step
    BY <1>2, DoType DEF StepOp, Request
  <2> QED
    BY <2>1, Agendas
<1> HIDE DEF a, b
<1>6. a \o b \in Seq(Step)
  BY <1>4, <1>5, Agendas
<1>7. CASE Then(t, <<>>) /\ UNCHANGED <<doc, txn>>
  <2>1. TxnType'
    BY <1>2, <1>7, ThenType, Agendas DEF TypeOK, TxnType, txn
  <2> QED
    BY <2>1, RestType DEF RevertToPreviousState
<1>8. CASE Guarded(t, ~Locked(doc[v]), a \o b)
  BY <1>2, <1>6, <1>8, HandlerType DEF RevertToPreviousState
<1> QED
  BY <1>1, <1>7, <1>8 DEF a, b

LEMMA ForceUpdateType ==
    ASSUME TypeOK, NEW t \in Thread, ForceUpdate(t)
    PROVE  TypeOK'
<1>1. PICK v \in Invoice, gone \in SUBSET Income :
        /\ Guarded(t, ~Locked(doc[v]),
                   <<Write(gone, Becomes("unpaid"), FALSE)>>)
        /\ dropped' = IF Locked(doc[v]) THEN dropped ELSE dropped \cup gone
  BY DEF ForceUpdate
<1>2. agenda[t] # <<>>
  BY HeadType DEF ForceUpdate
<1>3. <<Write(gone, Becomes("unpaid"), FALSE)>> \in Seq(Step)
  BY WriteType, Agendas, DocSets DEF Status
<1>4. TxnType'
  BY <1>1, <1>2, <1>3, GuardedType
<1>5. dropped' \subseteq Income
  BY <1>1 DEF TypeOK
<1> QED
  BY <1>4, <1>5 DEF ForceUpdate, TypeOK, TxnType, books, env

LEMMA IncomeHandlerType ==
    ASSUME TypeOK, NEW t \in Thread, UpdateIncome(t) \/ Remove(t)
    PROVE  TypeOK'
<1>1. PICK i \in Income, ok \in BOOLEAN, new \in Seq(Step) :
        agenda[t] # <<>> /\ Guarded(t, ok, new)
  <2>1. ASSUME NEW i \in Income
        PROVE  /\ <<Write({i}, Touch, TRUE)>> \in Seq(Step)
               /\ <<Write({i}, Becomes("canceled"), TRUE)>> \in Seq(Step)
    BY WriteType, Agendas, DocSets DEF Status
  <2>2. CASE UpdateIncome(t)
    <3>1. PICK i \in Income :
            Guarded(t, ~Locked(doc[i]) /\ doc[i].status = "unpaid",
                    <<Write({i}, Touch, TRUE)>>)
      BY <2>2 DEF UpdateIncome
    <3>2. agenda[t] # <<>>
      BY <2>2, HeadType DEF UpdateIncome
    <3> QED
      BY <2>1, <3>1, <3>2
  <2>3. CASE Remove(t)
    <3>1. PICK i \in Income :
            Guarded(t, ~Locked(doc[i]) /\ doc[i].status = "unpaid" /\ i \notin Free,
                    <<Write({i}, Becomes("canceled"), TRUE)>>)
      BY <2>3 DEF Remove
    <3>2. agenda[t] # <<>>
      BY <2>3, HeadType DEF Remove
    <3> QED
      BY <2>1, <3>1, <3>2
  <2> QED
    BY <2>2, <2>3
<1>2. UNCHANGED <<books, env, dropped, entered, requests, faults>>
  BY DEF UpdateIncome, Remove
<1> QED
  BY <1>1, <1>2, HandlerType

LEMMA IncomeStatuses ==
    \A x \in IncomeStatus : x \in Status
  BY DEF IncomeStatus, Status

\* createIncome writes an income once, with the status of the request.
LEMMA CreateIncomeType ==
    ASSUME TypeOK, NEW t \in Thread, CreateIncome(t)
    PROVE  TypeOK'
<1>1. PICK i \in Income, status \in IncomeStatus :
        /\ Then(t, <<Write({i}, Becomes(status), TRUE)>>)
        /\ entered' = IF status = "paid" THEN entered \cup {i} ELSE entered
  BY DEF CreateIncome
<1>2. <<Write({i}, Becomes(status), TRUE)>> \in Seq(Step)
  BY IncomeStatuses, DocSets, WriteType, Agendas
<1>3. agenda[t] # <<>>
  BY DEF CreateIncome, Turn
<1>4. agenda' \in [Thread -> Seq(Step)]
  BY <1>1, <1>2, <1>3, ThenType
<1>5. entered' \subseteq Income
  BY <1>1 DEF TypeOK
<1> QED
  BY <1>4, <1>5 DEF CreateIncome, TypeOK, txn, books, env

\* forceUpdate of an income and changeCaseType write incomes once.
LEMMA IncomeRequests ==
    ASSUME TypeOK, NEW t \in Thread,
           ForceUpdateIncome(t) \/ ChangeCaseType(t)
    PROVE  /\ agenda[t] # <<>>
           /\ Head(agenda[t]).op \in {"forceUpdateIncome", "changeCaseType"}
           /\ \E S \in SUBSET Income, ok \in BOOLEAN :
                Guarded(t, ok, <<Write(S, Touch, TRUE)>>)
           /\ UNCHANGED <<books, env, dropped, entered, requests, faults>>
<1>1. /\ agenda[t] # <<>>
      /\ Head(agenda[t]).op \in {"forceUpdateIncome", "changeCaseType"}
  BY DEF ForceUpdateIncome, ChangeCaseType, Turn
<1>2. UNCHANGED <<books, env, dropped, entered, requests, faults>>
  BY DEF ForceUpdateIncome, ChangeCaseType
<1>3. CASE ForceUpdateIncome(t)
  <2>1. PICK i \in Income :
          Guarded(t, doc[i].status # "none" /\ ~Locked(doc[i]),
                  <<Write({i}, Touch, TRUE)>>)
    BY <1>3 DEF ForceUpdateIncome
  <2> QED
    BY <1>1, <1>2, <2>1
<1>4. CASE ChangeCaseType(t)
  <2>1. \E S \in SUBSET Income, ok \in BOOLEAN :
          Guarded(t, ok, <<Write(S, Touch, TRUE)>>)
    BY <1>4 DEF ChangeCaseType
  <2> QED
    BY <1>1, <1>2, <2>1
<1> QED
  BY <1>3, <1>4

LEMMA IncomeRequestsType ==
    ASSUME TypeOK, NEW t \in Thread,
           ForceUpdateIncome(t) \/ ChangeCaseType(t)
    PROVE  TypeOK'
<1>1. PICK S \in SUBSET Income, ok \in BOOLEAN :
        Guarded(t, ok, <<Write(S, Touch, TRUE)>>)
  BY IncomeRequests
<1>2. S \in SUBSET Doc
  BY DocSets
<1>3. Write(S, Touch, TRUE) \in Step
  BY <1>2, WriteType DEF Status
<1>4. <<Write(S, Touch, TRUE)>> \in Seq(Step)
  BY <1>3, Agendas
<1> QED
  BY <1>1, <1>4, IncomeRequests, HandlerType

LEMMA MakeInvoicePaidType ==
    ASSUME TypeOK, NEW t \in Thread, MakeInvoicePaid(t)
    PROVE  TypeOK'
<1> DEFINE V    == Head(agenda[t]).on \cap Invoice
           seen == [v \in Invoice |-> IF v \in V THEN doc[v] ELSE Blank]
           s    == [Do("settle", V, TRUE) EXCEPT !.seen = seen]
<1>1. agenda[t] # <<>> /\ V \in SUBSET Doc
  BY HeadType, DocSets DEF MakeInvoicePaid
<1>2. Then(t, <<s>>) /\ UNCHANGED <<doc, txn, books, env, dropped, entered, requests, faults>>
  BY DEF MakeInvoicePaid
<1>3. seen \in [Invoice -> Document]
  BY BlankType, DocSets DEF TypeOK
<1>4. Do("settle", V, TRUE) \in Step
  BY <1>1, DoType DEF StepOp
<1> HIDE DEF seen
<1>5. s \in Step
  BY <1>3, <1>4 DEF Step
<1> HIDE DEF s
<1>6. TxnType'
  BY <1>1, <1>2, <1>5, ThenType, Agendas DEF TypeOK, TxnType, txn
<1> QED
  BY <1>2, <1>6, RestType

LEMMA SettleNextType ==
    ASSUME TypeOK, NEW t \in Thread, SettleNext(t)
    PROVE  TypeOK'
<1> DEFINE s == Head(agenda[t])
<1>1. /\ agenda[t] # <<>>
      /\ s \in Step
      /\ s.seen \in [Invoice -> Document]
      /\ s.on \in SUBSET Doc
  BY HeadType DEF SettleNext
<1>2. PICK v \in Invoice :
        Guarded(t, /\ ~Locked(s.seen[v])
                   /\ s.seen[v].status \in {"active", "issued", "pending"},
                EnsureIssued(v, s.seen[v]) \o MarkPaid(v, s.seen[v])
                \o <<[s EXCEPT !.on = @ \ {v}]>>)
  BY DEF SettleNext
<1>3. v \in Doc /\ s.seen[v].items \in SUBSET Doc
  BY <1>1, DocSets DEF Document
<1>4. EnsureIssued(v, s.seen[v]) \in Seq(Step)
  <2>1. Do("issue", {v}, FALSE) \in Step
    BY <1>3, DoType DEF StepOp, Request
  <2>2. Write({v}, Numbered, FALSE) \in Step
    BY <1>3, WriteType
  <2> QED
    BY <2>1, <2>2, Agendas DEF EnsureIssued
<1>5. MarkPaid(v, s.seen[v]) \in Seq(Step)
  BY <1>3, WriteType, Agendas DEF MarkPaid, Status
<1>6. <<[s EXCEPT !.on = @ \ {v}]>> \in Seq(Step)
  <2>1. [s EXCEPT !.on = @ \ {v}] \in Step
    BY <1>1 DEF Step
  <2> QED
    BY <2>1, Agendas
<1>7. EnsureIssued(v, s.seen[v]) \o MarkPaid(v, s.seen[v])
      \o <<[s EXCEPT !.on = @ \ {v}]>> \in Seq(Step)
  BY <1>4, <1>5, <1>6, Agendas
<1> QED
  BY <1>1, <1>2, <1>7, HandlerType DEF SettleNext

LEMMA SettleRestType ==
    ASSUME TypeOK, NEW t \in Thread, SettleRest(t)
    PROVE  TypeOK'
<1> DEFINE B == Batch(Head(agenda[t]))
<1>1. agenda[t] # <<>> /\ B \in SUBSET Doc
  BY HeadType, DocSets DEF SettleRest, Batch
<1>2. /\ Then(t, Vouching(B))
      /\ UNCHANGED <<doc, txn, books, env, dropped, entered, requests, faults>>
  BY DEF SettleRest
<1> HIDE DEF B
<1>3. Vouching(B) \in Seq(Step)
  <2>1. Do("voucher", B, TRUE) \in Step
    BY <1>1, DoType DEF StepOp
  <2> QED
    BY <1>1, <2>1, WriteType, Agendas DEF Vouching
<1>4. TxnType'
  BY <1>1, <1>2, <1>3, ThenType DEF TypeOK, TxnType, txn
<1> QED
  BY <1>2, <1>4, RestType

LEMMA PayType ==
    ASSUME TypeOK, NEW t \in Thread, Pay(t)
    PROVE  TypeOK'
<1>1. PICK v \in Invoice, p \in Payment, ok \in BOOLEAN :
        /\ Guarded(t, ok, LockBoth(v, p) \o <<Do("createPayment", {v, p}, FALSE),
                                              Do("token", {p}, FALSE)>>)
        /\ bank' = IF ok THEN [bank EXCEPT ![p] = "asked"] ELSE bank
  BY DEF Pay
<1>2. agenda[t] # <<>>
  BY HeadType DEF Pay
<1>3. v \in Doc /\ p \in Doc /\ doc[v].items \in SUBSET Doc
  BY DocSets, DocItems
<1>4. LockBoth(v, p) \in Seq(Step)
  BY <1>3, WriteType, Agendas DEF LockBoth
<1>5. <<Do("createPayment", {v, p}, FALSE), Do("token", {p}, FALSE)>> \in Seq(Step)
  BY <1>3, DoType, Agendas DEF StepOp
<1>6. TxnType'
  BY <1>1, <1>2, <1>4, <1>5, Agendas, GuardedType
<1>7. bank' \in [Payment -> BankStatus]
  BY <1>1 DEF TypeOK, BankStatus
<1> QED
  BY <1>6, <1>7 DEF Pay, TypeOK, TxnType, books

LEMMA CreatePaymentType ==
    ASSUME TypeOK, NEW t \in Thread, CreatePayment(t)
    PROVE  TypeOK'
<1>1. PICK v \in Invoice, p \in Payment :
        /\ doc' = [doc EXCEPT ![p] = [Blank EXCEPT
                     !.status = "progressing", !.items = {v}]]
        /\ Overtake(Thread, {p})
  BY DEF CreatePayment
<1>2. agenda[t] # <<>>
  BY HeadType DEF CreatePayment
<1>3. [Blank EXCEPT !.status = "progressing", !.items = {v}] \in Document
  BY BlankType, DocSets DEF Document, Status
<1>4. doc' \in [Doc -> Document]
  BY <1>1, <1>3, DocSets DEF TypeOK
<1>5. stale' \in [Thread -> SUBSET Doc]
  BY <1>1, OvertakeType, DocSets
<1>6. TxnType'
  BY <1>2, <1>4, <1>5, ThenType, Agendas DEF CreatePayment, TypeOK, TxnType
<1> QED
  BY <1>6, RestType DEF CreatePayment

LEMMA GetBankTokenType ==
    ASSUME TypeOK, NEW t \in Thread, GetBankToken(t)
    PROVE  TypeOK'
<1>1. agenda[t] # <<>>
  BY HeadType DEF GetBankToken
<1>2. agenda' \in [Thread -> Seq(Step)]
  BY <1>1, ThenType, Agendas DEF GetBankToken
<1> QED
  BY <1>2 DEF GetBankToken, TypeOK, BankStatus, txn, books

LEMMA VerifyType ==
    ASSUME TypeOK, NEW t \in Thread, Verify(t)
    PROVE  TypeOK'
<1>1. agenda[t] # <<>>
  BY HeadType DEF Verify
<1>2. PICK p \in Payment :
        \/ \E v \in Invoice :
             Then(t, <<Write({p}, Becomes("canceled"), TRUE),
                       Write({v}, LockedBy(NoLock), TRUE),
                       Write(doc[v].items, LockedBy(NoLock), TRUE)>>)
        \/ Then(t, <<Do("confirm", {p}, TRUE)>>)
  BY DEF Verify
<1>3. ASSUME NEW v \in Invoice
      PROVE  <<Write({p}, Becomes("canceled"), TRUE),
               Write({v}, LockedBy(NoLock), TRUE),
               Write(doc[v].items, LockedBy(NoLock), TRUE)>> \in Seq(Step)
  BY WriteType, DocItems, DocSets, Agendas DEF Status
<1>4. <<Do("confirm", {p}, TRUE)>> \in Seq(Step)
  BY DoType, DocSets, Agendas DEF StepOp
<1>5. agenda' \in [Thread -> Seq(Step)]
  BY <1>1, <1>2, <1>3, <1>4, ThenType
<1> QED
  BY <1>5 DEF Verify, TypeOK, txn, books, env

LEMMA ConfirmPaymentType ==
    ASSUME TypeOK, NEW t \in Thread, ConfirmPayment(t)
    PROVE  TypeOK'
<1>1. agenda[t] # <<>>
  BY HeadType DEF ConfirmPayment
<1>2. PICK p \in Payment :
         \/ /\ bank' = [bank EXCEPT ![p] = "confirmed"]
            /\ Then(t, Completion(p))
            /\ UNCHANGED <<doc, txn>>
         \/ /\ Abort(t)
            /\ UNCHANGED bank
  BY DEF ConfirmPayment
<1>3. Completion(p) \in Seq(Step)
  <2>1. doc[p].items \in SUBSET Doc
    BY DocItems, DocSets
  <2>2. Do("makeInvoicePaid", InvoiceOf(p), TRUE) \in Step
    BY <2>1, DoType DEF InvoiceOf, StepOp, Request
  <2> QED
    BY <2>2, WriteType, DocSets, Agendas DEF Completion, Status
<1>4. TxnType'
  BY <1>1, <1>2, <1>3, ThenType, AbortType DEF TypeOK, TxnType, txn
<1>5. bank' \in [Payment -> BankStatus]
  BY <1>2 DEF TypeOK, BankStatus
<1> QED
  BY <1>4, <1>5 DEF ConfirmPayment, TypeOK, TxnType, books

LEMMA WriteDirectType ==
    ASSUME TypeOK, NEW t \in Thread, WriteDirect(t)
    PROVE  TypeOK'
<1> DEFINE s == Head(agenda[t])
<1>1. agenda[t] # <<>> /\ s.on \in SUBSET Doc /\ s.to \in Change
  BY HeadType DEF WriteDirect
<1>2. /\ doc' = [d \in Doc |-> IF d \in s.on THEN Changed(doc[d], s.to)
                                             ELSE doc[d]]
      /\ Overtake(Thread, s.on)
  BY DEF WriteDirect
<1>3. doc' \in [Doc -> Document]
  BY <1>1, <1>2, ChangedType DEF TypeOK
<1>4. stale' \in [Thread -> SUBSET Doc]
  BY <1>1, <1>2, OvertakeType
<1>5. TxnType'
  BY <1>1, <1>3, <1>4, ThenType, Agendas DEF WriteDirect, TypeOK, TxnType
<1> QED
  BY <1>5, RestType DEF WriteDirect

LEMMA ViewType ==
    ASSUME TypeOK, NEW t \in Thread, NEW d \in Doc
    PROVE  View(t, d) \in Document
  BY DEF View, TypeOK

LEMMA WriteInTransactionType ==
    ASSUME TypeOK, NEW t \in Thread, WriteInTransaction(t)
    PROVE  TypeOK'
<1> DEFINE s == Head(agenda[t])
           f == [d \in Doc |-> IF d \in s.on THEN Changed(View(t, d), s.to)
                               ELSE buf[t][d]]
<1>1. agenda[t] # <<>> /\ s.on \in SUBSET Doc /\ s.to \in Change
  BY HeadType DEF WriteInTransaction
<1>2. /\ buf' = [buf EXCEPT ![t] = f]
      /\ wrote' = [wrote EXCEPT ![t] = @ \cup s.on]
  BY DEF WriteInTransaction
<1>3. f \in [Doc -> Document]
  BY <1>1, ViewType, ChangedType DEF TypeOK
<1> HIDE DEF f
<1>4. TxnType'
  BY <1>1, <1>2, <1>3, ThenType, Agendas DEF WriteInTransaction, TypeOK, TxnType
<1> QED
  BY <1>4, RestType DEF WriteInTransaction

LEMMA CommitType ==
    ASSUME TypeOK, NEW t \in Thread, Commit(t)
    PROVE  TypeOK'
<1>1. doc' \in [Doc -> Document]
  BY ViewType DEF Commit
<1>2. stale' \in [Thread -> SUBSET Doc]
  BY DEF Commit, TypeOK
<1>3. TxnType'
  BY <1>1, <1>2, BlankType DEF Commit, TypeOK, TxnType
<1> QED
  BY <1>3, RestType DEF Commit

\* Requests are about documents.
LEMMA SubjectsType ==
    ASSUME NEW op \in Request, NEW D \in Subjects(op)
    PROVE  D \in SUBSET Doc
<1>1. CASE op = "createInvoice" \/ op = "makeInvoiceManually"
  BY <1>1 DEF Subjects, Doc
<1>2. CASE op \in {"issue", "makeInvoicePend", "makeInvoiceCancel",
                     "updateInvoice", "pay"}
  <2>1. \E v \in Invoice : D = {v}
    BY <1>2 DEF Subjects
  <2> QED
    BY <2>1 DEF Doc
<1>3. CASE op \in {"makeInvoicePaid", "revertToPreviousState"}
  BY <1>3 DEF Subjects, Doc
<1>4. CASE op = "forceUpdate"
  <2>1. \E v \in Invoice, S \in SUBSET Income : D = {v} \cup S
    BY <1>4 DEF Subjects
  <2> QED
    BY <2>1 DEF Doc
<1>5. CASE op \in {"changeCaseType", "updateIncome", "forceUpdateIncome", "remove"}
  <2>1. \E i \in Income : D = {i}
    BY <1>5 DEF Subjects
  <2> QED
    BY <2>1 DEF Doc
<1>6. CASE op = "verify"
  <2>1. \E p \in Payment : D = {p}
    BY <1>6 DEF Subjects
  <2> QED
    BY <2>1 DEF Doc
<1>7. CASE op = "createIncome"
  BY <1>7 DEF Subjects
<1> QED
  BY <1>1, <1>2, <1>3, <1>4, <1>5, <1>6, <1>7 DEF Request

LEMMA MakeRequestType ==
    ASSUME TypeOK, NEW t \in Thread, MakeRequest(t)
    PROVE  TypeOK'
<1>1. PICK op \in Ops : \E D \in Subjects(op) :
        agenda' = [agenda EXCEPT ![t] = <<Do(op, D, TRUE)>>]
  BY DEF MakeRequest
<1>2. PICK D \in Subjects(op) : agenda' = [agenda EXCEPT ![t] = <<Do(op, D, TRUE)>>]
  BY <1>1
<1>3. op \in Request /\ D \in SUBSET Doc
  BY OpsAssumption, SubjectsType
<1>4. <<Do(op, D, TRUE)>> \in Seq(Step)
  BY <1>3, DoType, Agendas DEF StepOp
<1>5. agenda' \in [Thread -> Seq(Step)]
  BY <1>2, <1>4 DEF TypeOK
<1>6. requests' \in 0..MaxRequests
  BY BillingAssumption DEF MakeRequest, TypeOK
<1> QED
  BY <1>5, <1>6 DEF MakeRequest, TypeOK, txn, books, env

LEMMA FaultType ==
    ASSUME TypeOK, faults < MaxFaults, faults' = faults + 1,
           TxnType', UNCHANGED <<books, env, dropped, entered, requests>>
    PROVE  TypeOK'
<1>1. faults' \in 0..MaxFaults
  BY BillingAssumption DEF TypeOK
<1> QED
  BY <1>1 DEF TypeOK, TxnType, books, env

LEMMA FaultsType ==
    ASSUME TypeOK,
           Restart \/ \E t \in Thread : Fail(t) \/ TransactionTimeout(t)
    PROVE  TypeOK'
<1>1. CASE Restart
  <2>1. TxnType'
    BY <1>1, BlankType, Agendas DEF Restart, TypeOK, TxnType
  <2> QED
    BY <1>1, <2>1, FaultType DEF Restart
<1>2. ASSUME NEW t \in Thread, Fail(t) PROVE TypeOK'
  BY <1>2, AbortType, FaultType DEF Fail
<1>3. ASSUME NEW t \in Thread, TransactionTimeout(t) PROVE TypeOK'
  <2>1. TxnType'
    BY <1>3, BlankType DEF TransactionTimeout, TypeOK, TxnType
  <2> QED
    BY <1>3, <2>1, FaultType DEF TransactionTimeout
<1> QED
  BY <1>1, <1>2, <1>3

LEMMA ProceedType ==
    ASSUME TypeOK, NEW t \in Thread, Proceed(t)
    PROVE  TypeOK'
<1>1. ASSUME WriteConflict(t) PROVE TypeOK'
  BY <1>1, AbortType, RestType DEF WriteConflict
<1> QED
  BY <1>1, CreateInvoiceType, MakeInvoiceManuallyType, InsertType, IssueType,
     InsertInvoiceType, MakeInvoicePendType, MakeInvoiceCancelType,
     UpdateInvoiceType, RevertToPreviousStateType, ForceUpdateType,
     IncomeHandlerType, IncomeRequestsType, CreateIncomeType, MakeInvoicePaidType,
     SettleNextType, SettleRestType, VoucherType, PayType, CreatePaymentType, GetBankTokenType, VerifyType,
     ConfirmPaymentType, WriteDirectType, WriteInTransactionType, CommitType
  DEF Proceed

\* The documents there are at first.
LEMMA InitDoc ==
    ASSUME Init
    PROVE  /\ doc = [d \in Doc |-> doc[d]]
           /\ \A d \in Doc :
                IF d \in Invoice /\ Existing[d] # {}
                THEN doc[d] = [status  |-> IF d \in inserted THEN "issued"
                                                             ELSE "active",
                               items   |-> Existing[d],
                               lock    |-> NoLock,
                               issueNo |-> d \in inserted]
                ELSE doc[d] = Blank \/ \E x \in {"unpaid", "pending"} :
                                          doc[d] = [Blank EXCEPT !.status = x]
<1>1. PICK future : doc = [d \in Doc |-> AtFirst(d, future)]
  BY DEF Init
<1>2. ASSUME NEW d \in Doc, ~(d \in Invoice /\ Existing[d] # {})
      PROVE  \/ AtFirst(d, future) = Blank
             \/ \E x \in {"unpaid", "pending"} :
                  AtFirst(d, future) = [Blank EXCEPT !.status = x]
  <2>1. CASE d \in Income \ future
    <3>1. AtFirst(d, future) =
            [Blank EXCEPT !.status = IF Billed(d) THEN "pending" ELSE "unpaid"]
      BY <1>2, <2>1 DEF AtFirst
    <3> QED
      BY <3>1
  <2>2. CASE d \notin Income \ future
    BY <1>2, <2>2 DEF AtFirst
  <2> QED
    BY <2>1, <2>2
<1>3. ASSUME NEW d \in Doc, d \in Invoice /\ Existing[d] # {}
      PROVE  AtFirst(d, future) = [status  |-> IF d \in inserted THEN "issued"
                                                                 ELSE "active",
                                   items   |-> Existing[d],
                                   lock    |-> NoLock,
                                   issueNo |-> d \in inserted]
  BY <1>3, BillingAssumption DEF AtFirst
<1>4. \A d \in Doc : doc[d] = AtFirst(d, future)
  BY <1>1
<1>5. doc = [d \in Doc |-> doc[d]]
  BY <1>1
<1> QED
  BY <1>2, <1>3, <1>4, <1>5

LEMMA InitType ==
    ASSUME Init
    PROVE  TypeOK
<1>1. doc \in [Doc -> Document]
  <2>1. ASSUME NEW d \in Doc PROVE doc[d] \in Document
    <3>1. CASE d \in Invoice /\ Existing[d] # {}
      <4>1. doc[d] = [status  |-> IF d \in inserted THEN "issued" ELSE "active",
                      items   |-> Existing[d],
                      lock    |-> NoLock,
                      issueNo |-> d \in inserted]
        BY <3>1, InitDoc
      <4> QED
        BY <3>1, <4>1, BillingAssumption, DocSets DEF Document, Status
    <3>2. CASE ~(d \in Invoice /\ Existing[d] # {})
      <4>1. doc[d] = Blank \/ \E x \in Status : doc[d] = [Blank EXCEPT !.status = x]
        BY <3>2, InitDoc DEF Status
      <4> QED
        BY <4>1, BlankType DEF Document
    <3> QED
      BY <3>1, <3>2
  <2> QED
    BY <2>1, InitDoc
<1>2. inserted \subseteq Invoice
  BY DEF Init
<1> QED
  BY <1>1, <1>2, BlankType, BillingAssumption, Agendas DEF Init, TypeOK, BankStatus

-----------------------------------------------------------------------------

(***************************************************************************)
(* TypeOK holds in every run: every handler of the invoice, income and     *)
(* payment services leaves documents with a status of their schemas.       *)
(***************************************************************************)
THEOREM BillingType == Spec => []TypeOK
<1>1. Init => TypeOK
  BY InitType
<1>2. TypeOK /\ [Next]_vars => TypeOK'
  <2> SUFFICES ASSUME TypeOK, [Next]_vars PROVE TypeOK'
    OBVIOUS
  <2>1. ASSUME NEW t \in Thread, Proceed(t) PROVE TypeOK'
    BY <2>1, ProceedType
  <2>2. ASSUME NEW t \in Thread, MakeRequest(t) PROVE TypeOK'
    BY <2>2, MakeRequestType
  <2>3. ASSUME Restart \/ \E t \in Thread : Fail(t) \/ TransactionTimeout(t)
        PROVE  TypeOK'
    BY <2>3, FaultsType
  <2>4. ASSUME NEW p \in Payment, PayerDecides(p) PROVE TypeOK'
    BY <2>4 DEF PayerDecides, TypeOK, BankStatus, txn, books
  <2>5. ASSUME NEW p \in Payment, LockElapses(p) PROVE TypeOK'
    BY <2>5 DEF LockElapses, TypeOK, txn, books
  <2>6. CASE UNCHANGED vars
    BY <2>6 DEF vars, TypeOK, txn, books, env
  <2> QED
    BY <2>1, <2>2, <2>3, <2>4, <2>5, <2>6 DEF Next
<1> QED
  BY <1>1, <1>2, PTL DEF Spec

=============================================================================
