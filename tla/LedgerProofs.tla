------------------------------ MODULE LedgerProofs ------------------------------
(***************************************************************************)
(* Billing keeps LedgerInv, and so implements Settlement.  The argument    *)
(* does not depend on the order of the steps of a request: it is about the *)
(* set of steps a request has still to do.                                 *)
(***************************************************************************)
EXTENDS BillingProofs

-----------------------------------------------------------------------------
(* Steps of a request.                                                     *)

Elems(q) == {q[j] : j \in 1..Len(q)}

LEMMA ElemsConcat ==
    ASSUME NEW S, NEW p \in Seq(S), NEW q \in Seq(S)
    PROVE  Elems(p \o q) = Elems(p) \cup Elems(q)
<1>1. /\ Len(p \o q) = Len(p) + Len(q)
      /\ Len(p) \in Nat /\ Len(q) \in Nat
      /\ \A j \in 1..Len(p) + Len(q) :
           (p \o q)[j] = IF j <= Len(p) THEN p[j] ELSE q[j - Len(p)]
  BY ConcatProperties, LenProperties
<1>2. ASSUME NEW x \in Elems(p \o q) PROVE x \in Elems(p) \cup Elems(q)
  BY <1>1 DEF Elems
<1>3. ASSUME NEW x \in Elems(p) PROVE x \in Elems(p \o q)
  BY <1>1 DEF Elems
<1>4. ASSUME NEW x \in Elems(q) PROVE x \in Elems(p \o q)
  <2>1. PICK j \in 1..Len(q) : x = q[j]
    BY DEF Elems
  <2>2. j + Len(p) \in 1..Len(p) + Len(q) /\ ~(j + Len(p) <= Len(p))
        /\ (j + Len(p)) - Len(p) = j
    BY <1>1
  <2>3. (p \o q)[j + Len(p)] = q[j]
    BY <1>1, <2>2
  <2> QED
    BY <1>1, <2>1, <2>2, <2>3 DEF Elems
<1> QED
  BY <1>2, <1>3, <1>4

LEMMA StepsConcat ==
    ASSUME NEW p \in Seq(Step), NEW q \in Seq(Step)
    PROVE  p \o q \in Seq(Step) /\ Elems(p \o q) = Elems(p) \cup Elems(q)
  BY ElemsConcat, ConcatProperties

LEMMA ElemsTail ==
    ASSUME NEW S, NEW q \in Seq(S), q # <<>>
    PROVE  Elems(q) = {Head(q)} \cup Elems(Tail(q))
<1>1. /\ Len(q) \in Nat \ {0}
      /\ Len(Tail(q)) = Len(q) - 1
      /\ Head(q) = q[1]
      /\ \A j \in 1..Len(q) - 1 : Tail(q)[j] = q[j + 1]
  BY HeadTailProperties, LenProperties, EmptySeq
<1>2. ASSUME NEW x \in Elems(q) PROVE x = Head(q) \/ x \in Elems(Tail(q))
  <2>1. PICK j \in 1..Len(q) : x = q[j]
    BY DEF Elems
  <2>2. CASE j = 1
    BY <1>1, <2>1, <2>2
  <2>3. CASE j # 1
    <3>1. j - 1 \in 1..Len(q) - 1 /\ (j - 1) + 1 = j
      BY <1>1, <2>3
    <3>2. Tail(q)[j - 1] = x
      BY <1>1, <2>1, <3>1
    <3> QED
      BY <1>1, <3>1, <3>2 DEF Elems
  <2> QED
    BY <2>2, <2>3
<1>3. ASSUME NEW x \in Elems(Tail(q)) PROVE x \in Elems(q)
  BY <1>1 DEF Elems
<1>4. Head(q) \in Elems(q)
  BY <1>1 DEF Elems
<1> QED
  BY <1>2, <1>3, <1>4

LEMMA ElemsShort ==
    /\ Elems(<<>>) = {}
    /\ \A a : Elems(<<a>>) = {a}
    /\ \A a, b : Elems(<<a, b>>) = {a, b}
    /\ \A a, b, c : Elems(<<a, b, c>>) = {a, b, c}
<1>1. Elems(<<>>) = {}
  BY DEF Elems
<1>2. ASSUME NEW a PROVE Elems(<<a>>) = {a}
  <2>1. Len(<<a>>) = 1 /\ <<a>>[1] = a
    OBVIOUS
  <2> QED
    BY <2>1 DEF Elems
<1>3. ASSUME NEW a, NEW b PROVE Elems(<<a, b>>) = {a, b}
  <2>1. Len(<<a, b>>) = 2 /\ <<a, b>>[1] = a /\ <<a, b>>[2] = b
    OBVIOUS
  <2> QED
    BY <2>1 DEF Elems
<1>4. ASSUME NEW a, NEW b, NEW c PROVE Elems(<<a, b, c>>) = {a, b, c}
  <2>1. /\ Len(<<a, b, c>>) = 3
        /\ <<a, b, c>>[1] = a /\ <<a, b, c>>[2] = b /\ <<a, b, c>>[3] = c
    OBVIOUS
  <2>2. 1..3 = {1, 2, 3}
    OBVIOUS
  <2>3. Elems(<<a, b, c>>) = {<<a, b, c>>[j] : j \in {1, 2, 3}}
    BY <2>1, <2>2, Zenon DEF Elems
  <2> QED
    BY <2>1, <2>3
<1> QED
  BY <1>1, <1>2, <1>3, <1>4

\* What a request has to do behind the head of its agenda.
Rest(t) == Elems(Tail(agenda[t]))

LEMMA PushSteps ==
    ASSUME TypeOK, NEW t \in Thread, agenda[t] # <<>>,
           NEW new \in Seq(Step), Then(t, new)
    PROVE  /\ Steps(t) = {Head(agenda[t])} \cup Rest(t)
           /\ Steps(t)' = Elems(new) \cup Rest(t)
           /\ \A u \in Thread \ {t} : agenda'[u] = agenda[u] /\ Steps(u)' = Steps(u)
<1>1. agenda[t] \in Seq(Step) /\ Tail(agenda[t]) \in Seq(Step)
  BY StepTail DEF TypeOK
<1>2. Steps(t) = {Head(agenda[t])} \cup Rest(t)
  BY <1>1, ElemsTail DEF Steps, Rest, Elems
<1>3. agenda' = [agenda EXCEPT ![t] = new \o Tail(agenda[t])]
  BY DEF Then
<1>4. agenda'[t] = new \o Tail(agenda[t])
  BY <1>3 DEF TypeOK
<1>5. Steps(t)' = Elems(new \o Tail(agenda[t]))
  BY <1>4 DEF Steps, Elems
<1>6. Steps(t)' = Elems(new) \cup Rest(t)
  <2>1. Elems(new \o Tail(agenda[t])) = Elems(new) \cup Elems(Tail(agenda[t]))
    BY <1>1, ElemsConcat
  <2> QED
    BY <1>5, <2>1 DEF Rest
<1>7. \A u \in Thread \ {t} : agenda'[u] = agenda[u] /\ Steps(u)' = Steps(u)
  BY <1>3 DEF TypeOK, Steps
<1> QED
  BY <1>2, <1>6, <1>7

\* The steps of an agenda are steps.
LEMMA StepsType ==
    ASSUME TypeOK, NEW t \in Thread
    PROVE  Steps(t) \subseteq Step
<1>1. agenda[t] \in Seq(Step)
  BY DEF TypeOK
<1> QED
  BY <1>1 DEF Steps

-----------------------------------------------------------------------------
(* What one request may do to the world of another.                        *)

\* Nothing ceases to exist, no items change, and what the bank has decided it
\* has decided.
Grows ==
    /\ vouched \subseteq vouched'
    /\ entered \subseteq entered'
    /\ \A p \in Payment : bank[p] \in {"closed", "confirmed"} => bank'[p] = bank[p]
    /\ \A d \in Doc : doc[d].status # "none" =>
         doc'[d].status # "none" /\ doc'[d].items = doc[d].items

\* The transaction of u goes on as it was.
Holds(u) ==
    /\ wrote'[u] = wrote[u]
    /\ buf'[u] = buf[u]
    /\ stale[u] \subseteq stale'[u]
    /\ \A d \in wrote[u] : doc'[d] = doc[d]

\* What exists keeps its items, and what bills an income exists.
LEMMA ItemsKept ==
    ASSUME Shape(doc), Grows, NEW v \in Invoice, NEW i, i \in doc[v].items
    PROVE  i \in doc'[v].items
<1>1. v \in Doc
  BY DocSets
<1>2. doc[v].status # "none"
  BY <1>1 DEF Shape
<1> QED
  BY <1>1, <1>2 DEF Grows

LEMMA StepKept ==
    ASSUME Grows, NEW s \in Step, StepInv(s)
    PROVE  StepInv(s)'
<1>1. s.seen \in [Invoice -> Document] /\ s.on \subseteq Doc
  BY DEF Step
<1>2. ASSUME NEW d \in Doc, doc[d].status # "none"
      PROVE  doc'[d].status # "none" /\ doc'[d].items = doc[d].items
  BY <1>2 DEF Grows
<1>3. ASSUME s.op = "settle", NEW v \in Batch(s)
      PROVE  doc'[v].status # "none" /\ s.seen[v].items = doc'[v].items
  <2>1. v \in Doc /\ v \in Invoice
    BY DocSets DEF Batch
  <2>2. doc[v].status # "none" /\ s.seen[v].items = doc[v].items
    BY <1>3 DEF StepInv
  <2> QED
    BY <1>2, <2>1, <2>2
<1>4. ASSUME s.op = "confirm", NEW p \in s.on \cap Payment
      PROVE  doc'[p].status # "none"
  BY <1>2, <1>4, DocSets DEF StepInv
<1>5. ASSUME Sets(s, "paid"), NEW v \in s.on \cap Invoice
      PROVE  doc'[v].status # "none"
  BY <1>2, <1>5, DocSets DEF StepInv
<1>6. ASSUME s.op = "write", NEW p \in s.on \cap Payment
      PROVE  /\ s.tx
             /\ doc'[p].status # "none"
             /\ \/ s.to.status = "canceled" /\ bank'[p] = "closed"
                \/ s.to.status = "completed" /\ bank'[p] = "confirmed"
  <2>1. /\ s.tx
        /\ doc[p].status # "none"
        /\ \/ s.to.status = "canceled" /\ bank[p] = "closed"
           \/ s.to.status = "completed" /\ bank[p] = "confirmed"
    BY <1>6 DEF StepInv
  <2>2. doc'[p].status # "none"
    BY <1>2, <2>1, DocSets
  <2>3. bank[p] \in {"closed", "confirmed"} => bank'[p] = bank[p]
    BY DEF Grows
  <2> QED
    BY <2>1, <2>2, <2>3
<1> QED
  BY <1>3, <1>4, <1>5, <1>6 DEF StepInv, Sets, Batch

LEMMA BufKept ==
    ASSUME NEW u \in Thread, BufInv(u), Grows, Holds(u), wrote[u] \subseteq Doc
    PROVE  BufInv(u)'
<1>1. Shape(buf[u])'
  BY DEF BufInv, Holds, Shape
<1>2. ASSUME NEW d \in wrote'[u], doc'[d].status # "none"
      PROVE  buf'[u][d].status # "none" /\ buf'[u][d].items = doc'[d].items
  BY <1>2 DEF BufInv, Holds
<1>3. ASSUME NEW p \in Payment \cap wrote'[u]
      PROVE  /\ doc'[p].status # "none"
             /\ \/ buf'[u][p].status = "canceled" /\ bank'[p] = "closed"
                \/ buf'[u][p].status = "completed" /\ bank'[p] = "confirmed"
  <2>1. /\ doc[p].status # "none"
        /\ \/ buf[u][p].status = "canceled" /\ bank[p] = "closed"
           \/ buf[u][p].status = "completed" /\ bank[p] = "confirmed"
    BY <1>3 DEF BufInv, Holds
  <2>2. doc'[p] = doc[p] /\ buf'[u][p] = buf[u][p]
    BY <1>3 DEF Holds
  <2>3. bank[p] \in {"closed", "confirmed"} => bank'[p] = bank[p]
    BY DEF Grows
  <2> QED
    BY <2>1, <2>2, <2>3
<1> QED
  BY <1>1, <1>2, <1>3 DEF BufInv

LEMMA NewlyPaidKept ==
    ASSUME NEW u \in Thread, Holds(u), NEW v \in Invoice
    PROVE  NewlyPaid(u, v)' <=> NewlyPaid(u, v)
  BY DEF NewlyPaid, Holds

\* A request that does not settle anything has nothing to keep together.
LEMMA NotSettling ==
    ASSUME NEW u \in Thread, ~Settling(u)
    PROVE  TogetherInv(u)
  BY DEF Settling, TogetherInv

\* The steps E keep to the rules, or do so as soon as the bank has answered.
Fit(E) ==
    \/ \A s \in E : StepInv(s)
    \/ UNCHANGED doc /\ \A s \in E : StepInv(s)'

\* What was paid, owed and settled still is.
Carries(t) ==
    /\ \A d \in Doc : Pays(t, d) => Pays(t, d)'
    /\ Owes(t) \subseteq vouched' \cup Owes(t)'
    /\ \A v \in Invoice : Settles(t, v) => Settles(t, v)'

\* What the steps E pay is owed, what they complete is settled with them.
Covered(t, E) ==
    /\ \A s \in E : Sets(s, "paid") =>
         /\ \A v \in s.on \cap Invoice : v \in vouched' \cup Owes(t)'
         /\ \A i \in s.on \cap Income :
              \/ i \in entered'
              \/ \E v \in vouched' \cup Owes(t)' : v \in Invoice /\ i \in doc[v].items
         /\ \A v \in s.on \cap Invoice : \A i \in doc[v].items : Pays(t, i)'
    /\ \A s \in E : Sets(s, "completed") =>
         \A p \in s.on \cap Payment : \A v \in Invoice \cap doc[p].items :
            Settles(t, v)'

(***************************************************************************)
(* A request whose transaction goes on as it was, and whose steps H are    *)
(* replaced by the steps E, keeps to the rules when                        *)
(*   - the new steps do, and share the request with what may be settled,   *)
(*   - what was paid, owed and settled still is, and                       *)
(*   - what the new steps pay or complete is owed, and settled with them.  *)
(***************************************************************************)
LEMMA RequestKept ==
    ASSUME TypeOK, Shape(doc), NEW u \in Thread, RequestInv(u), Grows, Holds(u),
           NEW H, NEW E, NEW R, Steps(u) = H \cup R, Steps(u)' = E \cup R,
           E \subseteq Step,
           Fit(E), \A s \in E : ~Alone(s),
           \A s \in R : Alone(s) => agenda'[u] = <<s>> /\ wrote[u] = {},
           Settling(u)' => \A s \in Steps(u)' : Clean(s),
           Carries(u), Covered(u, E)
    PROVE  RequestInv(u)'
<1> USE DEF Carries, Covered
<1>1. BufInv(u)'
  BY BufKept DEF RequestInv, TypeOK
<1>2. ASSUME NEW s \in Steps(u)' PROVE StepInv(s)'
  <2>1. s \in Step
    BY StepsType
  <2>2. StepInv(s) \/ StepInv(s)'
    BY DEF Fit, RequestInv, AgendaInv
  <2> QED
    BY <2>1, <2>2, StepKept
<1>3. AgendaInv(u)'
  <2>1. \A s \in Steps(u)' : StepInv(s)'
    BY <1>2
  <2>2. \A s \in Steps(u)' : Alone(s) =>
          agenda'[u] = <<s>> /\ wrote'[u] = {}
    BY DEF Holds
  <2> QED
    BY <2>1, <2>2 DEF AgendaInv, Clean
<1>4. ASSUME NEW d \in Doc, Pays(u, d)'
      PROVE  Pays(u, d) \/ \E s \in E : Sets(s, "paid") /\ d \in s.on
  BY <1>4 DEF Pays, Holds, Sets
<1>5. \A v \in Owes(u) : v \in Invoice
  BY DEF Owes
<1>6. VoucherInv(u)'
  <2>1. ASSUME NEW v \in Invoice, Pays(u, v)' PROVE v \in vouched' \cup Owes(u)'
    <3>1. CASE Pays(u, v)
      <4>1. v \in vouched \cup Owes(u)
        BY <3>1 DEF RequestInv, VoucherInv
      <4> QED
        BY <4>1 DEF Grows
    <3>2. CASE \E s \in E : Sets(s, "paid") /\ v \in s.on
      BY <3>2
    <3> QED
      BY <1>4, <2>1, <3>1, <3>2, DocSets
  <2>2. ASSUME NEW i \in Income, Pays(u, i)', i \notin entered'
        PROVE  \E v \in vouched' \cup Owes(u)' : i \in doc'[v].items
    <3>1. \E v \in vouched' \cup Owes(u)' : v \in Invoice /\ i \in doc[v].items
      <4>1. CASE Pays(u, i)
        <5> i \notin entered
          BY <2>2 DEF Grows
        <5>1. PICK v \in vouched \cup Owes(u) : i \in doc[v].items
          BY <4>1 DEF RequestInv, VoucherInv
        <5>2. v \in Invoice /\ v \in vouched' \cup Owes(u)'
          BY <1>5, <5>1 DEF Grows, TypeOK
        <5> QED
          BY <5>1, <5>2
      <4>2. CASE \E s \in E : Sets(s, "paid") /\ i \in s.on
        BY <2>2, <4>2
      <4> QED
        BY <1>4, <2>2, <4>1, <4>2, DocSets
    <3> QED
      BY <3>1, ItemsKept
  <2> QED
    BY <2>1, <2>2 DEF VoucherInv
<1>7. TogetherInv(u)'
  <2>1. ASSUME NEW p \in Payment \cap wrote'[u], buf'[u][p].status = "completed",
               NEW v \in Invoice \cap buf'[u][p].items
        PROVE  Settles(u, v)'
    <3>1. Settles(u, v)
      BY <2>1 DEF RequestInv, TogetherInv, Holds
    <3> QED
      BY <3>1
  <2>2. ~Lost(u)' => ~Lost(u)
    BY DEF Lost, Holds
  <2>3. ASSUME NEW s \in Steps(u)', Sets(s, "completed"), ~Lost(u)',
               NEW p \in s.on \cap Payment, NEW v \in Invoice \cap doc'[p].items
        PROVE  Settles(u, v)'
    <3>1. s.op = "write"
      BY <2>3 DEF Sets
    <3>2. StepInv(s) \/ UNCHANGED doc
      BY DEF Fit, RequestInv, AgendaInv
    <3>3. doc[p].status # "none" \/ UNCHANGED doc
      BY <2>3, <3>1, <3>2 DEF StepInv
    <3>4. doc'[p].items = doc[p].items
      BY <3>3, DocSets DEF Grows
    <3>5. CASE s \in E
      BY <2>3, <3>4, <3>5
    <3>6. CASE s \in R
      <4>1. Settles(u, v)
        BY <2>2, <2>3, <3>4, <3>6 DEF RequestInv, TogetherInv
      <4> QED
        BY <4>1
    <3> QED
      BY <3>5, <3>6
  <2>4. ASSUME NEW v \in Invoice, NewlyPaid(u, v)', NEW i \in buf'[u][v].items
        PROVE  Pays(u, i)'
    <3>1. NewlyPaid(u, v) /\ i \in buf[u][v].items
      BY <2>4, NewlyPaidKept DEF Holds
    <3>2. Pays(u, i)
      BY <3>1 DEF RequestInv, TogetherInv
    <3>3. i \in Doc
      BY <3>1, DocSets DEF RequestInv, BufInv, Shape
    <3> QED
      BY <3>2, <3>3
  <2>5. ASSUME NEW s \in Steps(u)', Sets(s, "paid"), ~Lost(u)',
               NEW v \in s.on \cap Invoice, NEW i \in doc'[v].items
        PROVE  Pays(u, i)'
    <3>1. StepInv(s) \/ UNCHANGED doc
      BY DEF Fit, RequestInv, AgendaInv
    <3>2. doc'[v].items = doc[v].items
      BY <2>5, <3>1, DocSets DEF StepInv, Grows
    <3>3. CASE s \in E
      BY <2>5, <3>2, <3>3
    <3>4. CASE s \in R
      <4>1. Pays(u, i)
        BY <2>2, <2>5, <3>2, <3>4 DEF RequestInv, TogetherInv
      <4>2. i \in Doc
        BY <2>5, <3>2, DocSets DEF Shape
      <4> QED
        BY <4>1, <4>2
    <3> QED
      BY <3>3, <3>4
  <2> QED
    BY <2>1, <2>3, <2>4, <2>5 DEF TogetherInv, Sets
<1> QED
  BY <1>1, <1>3, <1>6, <1>7 DEF RequestInv

\* Steps that settle nothing and that a settlement does not rest on.
Harmless(s) ==
    /\ s.op \notin {"settle", "voucher", "makeInvoicePaid"}
    /\ ~Sets(s, "paid")

Plain(s) ==
    /\ Harmless(s)
    /\ ~Alone(s) /\ s.op # "confirm"
    /\ ~Sets(s, "completed")

\* Doing harmless steps H, and taking up plain steps E.
LEMMA RequestQuiet ==
    ASSUME TypeOK, Shape(doc), NEW u \in Thread, RequestInv(u), Grows, Holds(u),
           NEW H, NEW E, NEW R, Steps(u) = H \cup R, Steps(u)' = E \cup R,
           \A s \in H : Harmless(s),
           E \subseteq Step,
           \A s \in E : StepInv(s) /\ Plain(s),
           Settling(u) => \A s \in E : Clean(s),
           \A s \in R : Alone(s) => agenda'[u] = <<s>> /\ wrote[u] = {}
    PROVE  RequestInv(u)'
<1>1. Fit(E) /\ \A s \in E : ~Alone(s)
  BY DEF Plain, Fit
<1>2. ASSUME NEW d \in Doc, Pays(u, d) PROVE Pays(u, d)'
  <2>1. CASE d \in wrote[u] /\ buf[u][d].status = "paid"
    BY <2>1 DEF Holds, Pays
  <2>2. CASE \E s \in Steps(u) : Sets(s, "paid") /\ d \in s.on
    <3>1. PICK s \in Steps(u) : Sets(s, "paid") /\ d \in s.on
      BY <2>2
    <3>2. s \in R
      BY <3>1 DEF Harmless
    <3> QED
      BY <3>1, <3>2 DEF Pays, Sets
  <2> QED
    BY <1>2, <2>1, <2>2 DEF Pays
<1>3. Owes(u) \subseteq vouched' \cup Owes(u)'
  <2>1. ASSUME NEW v \in Owes(u) PROVE v \in Owes(u)'
    <3>1. PICK s \in Steps(u) : \/ s.op = "voucher" /\ v \in s.on
                                \/ s.op = "settle" /\ v \in Batch(s)
      BY DEF Owes
    <3>2. s \in R
      BY <3>1 DEF Harmless
    <3>3. s \in Steps(u)'
      BY <3>2
    <3> QED
      BY <3>1, <3>3 DEF Owes, Batch
  <2> QED
    BY <2>1
<1>4. ASSUME NEW v \in Invoice, Settles(u, v) PROVE Settles(u, v)'
  <2>1. CASE Pays(u, v)
    BY <1>2, <2>1, DocSets DEF Settles
  <2>2. CASE \E s \in Steps(u) : s.op \in {"makeInvoicePaid", "settle"} /\ v \in s.on
    <3>1. PICK s \in Steps(u) : s.op \in {"makeInvoicePaid", "settle"} /\ v \in s.on
      BY <2>2
    <3>2. s \in R
      BY <3>1 DEF Harmless
    <3> QED
      BY <3>1, <3>2 DEF Settles
  <2> QED
    BY <1>4, <2>1, <2>2 DEF Settles
<1>5. Settling(u)' => Settling(u)
  <2>1. ASSUME Settling(u)' PROVE Settling(u)
    <3>1. CASE \E p \in Payment \cap wrote'[u] : buf'[u][p].status = "completed"
      BY <3>1 DEF Holds, Settling
    <3>2. CASE \E v \in Invoice : NewlyPaid(u, v)'
      BY <3>2, NewlyPaidKept DEF Settling
    <3>3. ASSUME NEW s \in Steps(u)',
                 \/ s.op \in {"makeInvoicePaid", "settle", "confirm"}
                 \/ Sets(s, "paid") \/ Sets(s, "completed")
          PROVE  Settling(u)
      <4>1. s \in R
        BY <3>3 DEF Plain, Harmless
      <4> QED
        BY <3>3, <4>1 DEF Settling
    <3> QED
      BY <2>1, <3>1, <3>2, <3>3 DEF Settling, Sets
  <2> QED
    BY <2>1
<1>6. Settling(u)' => \A s \in Steps(u)' : Clean(s)
  BY <1>5 DEF RequestInv, AgendaInv
<1>7. \A s \in E : ~Sets(s, "paid") /\ ~Sets(s, "completed")
  BY DEF Plain, Harmless
<1>8. Carries(u) /\ Covered(u, E)
  BY <1>2, <1>3, <1>4, <1>7 DEF Carries, Covered
<1> QED
  BY <1>1, <1>6, <1>8, RequestKept

\* A request whose agenda is not touched.
LEMMA RequestWaits ==
    ASSUME TypeOK, Shape(doc), NEW u \in Thread, RequestInv(u), Grows, Holds(u),
           agenda'[u] = agenda[u]
    PROVE  RequestInv(u)'
<1>1. Steps(u)' = Steps(u)
  BY DEF Steps
<1>2. \A s \in Steps(u) : Alone(s) => agenda'[u] = <<s>> /\ wrote[u] = {}
  BY DEF RequestInv, AgendaInv
<1> DEFINE None == {}
<1>3. /\ Steps(u) = None \cup Steps(u) /\ Steps(u)' = None \cup Steps(u)
      /\ None \subseteq Step
      /\ \A s \in None : Harmless(s) /\ StepInv(s) /\ Plain(s) /\ Clean(s)
  BY <1>1
<1> HIDE DEF None
<1> QED
  BY <1>2, <1>3, RequestQuiet

\* Behind the head of an agenda there is no callback of the bank and no income
\* to be created.
LEMMA AloneOnAgenda ==
    ASSUME TypeOK, NEW t \in Thread, RequestInv(t), agenda[t] # <<>>
    PROVE  /\ \A s \in Rest(t) : ~Alone(s)
           /\ Alone(Head(agenda[t])) => Rest(t) = {} /\ wrote[t] = {}
<1>1. agenda[t] \in Seq(Step)
  BY DEF TypeOK
<1>2. Steps(t) = {Head(agenda[t])} \cup Rest(t)
  BY <1>1, ElemsTail DEF Steps, Rest, Elems
<1>3. ASSUME NEW s \in Steps(t), Alone(s) PROVE Rest(t) = {} /\ wrote[t] = {}
  <2>1. agenda[t] = <<s>> /\ wrote[t] = {}
    BY <1>3 DEF RequestInv, AgendaInv
  <2>2. Tail(agenda[t]) = <<>>
    BY <2>1
  <2> QED
    BY <2>1, <2>2, ElemsShort DEF Rest
<1> QED
  BY <1>2, <1>3

\* A request that goes on with plain steps.
LEMMA RequestProceeds ==
    ASSUME TypeOK, Shape(doc), NEW t \in Thread, RequestInv(t), Grows, Holds(t),
           agenda[t] # <<>>, NEW new \in Seq(Step), Then(t, new),
           Harmless(Head(agenda[t])),
           \A s \in Elems(new) : StepInv(s) /\ Plain(s),
           Settling(t) => \A s \in Elems(new) : Clean(s)
    PROVE  RequestInv(t)'
<1>1. /\ Steps(t) = {Head(agenda[t])} \cup Rest(t)
      /\ Steps(t)' = Elems(new) \cup Rest(t)
  BY PushSteps
<1>2. \A s \in Rest(t) : Alone(s) => agenda'[t] = <<s>> /\ wrote[t] = {}
  BY AloneOnAgenda
<1>3. Elems(new) \subseteq Step
  BY DEF Elems
<1> DEFINE H == {Head(agenda[t])}
           R == Rest(t)
           E == Elems(new)
<1>4. /\ Steps(t) = H \cup R /\ Steps(t)' = E \cup R
      /\ \A s \in H : Harmless(s)
      /\ E \subseteq Step /\ \A s \in E : StepInv(s) /\ Plain(s)
      /\ Settling(t) => \A s \in E : Clean(s)
      /\ \A s \in R : Alone(s) => agenda'[t] = <<s>> /\ wrote[t] = {}
  BY <1>1, <1>2, <1>3
<1> HIDE DEF H, R, E
<1> QED
  BY <1>4, RequestQuiet

-----------------------------------------------------------------------------
(* Steps of one request.                                                   *)

LEMMA BooksKept ==
    ASSUME TypeOK, BooksInv, Grows, Shape(doc)',
           \A v \in Invoice : Paid(v)' => Paid(v),
           \A i \in Income : doc'[i].status = "paid" => doc[i].status = "paid",
           \A p \in Payment : doc'[p].status = "completed" =>
                              doc[p].status = "completed"
    PROVE  BooksInv'
<1>1. \A v \in Invoice : Paid(v)' => v \in vouched'
  BY DEF BooksInv, Grows
<1>2. ASSUME NEW i \in Income, doc'[i].status = "paid", i \notin entered'
      PROVE  \E v \in vouched' : i \in doc'[v].items
  <2>1. PICK v \in vouched : i \in doc[v].items
    BY <1>2 DEF BooksInv, PaidIncomeVouched, Grows
  <2>2. v \in Invoice /\ v \in vouched'
    BY DEF TypeOK, Grows
  <2> QED
    BY <2>1, <2>2, ItemsKept DEF BooksInv
<1>3. \A p \in Payment : doc'[p].status = "completed" => bank'[p] = "confirmed"
  BY DEF BooksInv, Grows
<1> QED
  BY <1>1, <1>2, <1>3 DEF BooksInv, PaidIncomeVouched

\* The other requests wait.
LEMMA LedgerStep ==
    ASSUME TypeOK, LedgerInv, BooksInv', Isolation', Grows, NEW t \in Thread,
           \A u \in Thread \ {t} : Holds(u) /\ agenda'[u] = agenda[u],
           RequestInv(t)'
    PROVE  LedgerInv'
<1>1. ASSUME NEW u \in Thread \ {t} PROVE RequestInv(u)'
  BY <1>1, RequestWaits DEF LedgerInv, BooksInv
<1> QED
  BY <1>1 DEF LedgerInv

\* Steps that leave documents and transactions alone.
LEMMA LedgerPush ==
    ASSUME TypeOK, LedgerInv, UNCHANGED <<doc, txn>>, Grows, NEW t \in Thread,
           \A u \in Thread \ {t} : agenda'[u] = agenda[u],
           (\A u \in Thread : Holds(u)) => RequestInv(t)'
    PROVE  LedgerInv'
<1>1. \A u \in Thread : Holds(u)
  BY DEF Holds, txn
<1>2. Isolation'
  BY DEF LedgerInv, Isolation, txn
<1>3. BooksInv'
  BY BooksKept DEF LedgerInv, BooksInv, Paid, Shape
<1> QED
  BY <1>1, <1>2, <1>3, LedgerStep

\* A request that has nothing left to do and nothing written.
LEMMA RequestEmpty ==
    ASSUME NEW t \in Thread, agenda'[t] = <<>>, wrote'[t] = {}, buf'[t] = Blanks
    PROVE  RequestInv(t)'
<1>1. Steps(t)' = {}
  BY ElemsShort DEF Steps, Elems
<1>2. BufInv(t)'
  BY DocSets DEF BufInv, Shape, Blanks, Blank
<1>3. ~Settling(t)'
  BY <1>1 DEF Settling, NewlyPaid
<1>4. \A d : ~Pays(t, d)'
  BY <1>1 DEF Pays
<1>5. TogetherInv(t)'
  BY <1>1, <1>4 DEF TogetherInv, NewlyPaid
<1> QED
  BY <1>1, <1>2, <1>4, <1>5 DEF RequestInv, AgendaInv, VoucherInv

LEMMA GrowsStill ==
    ASSUME TypeOK, UNCHANGED <<doc, vouched, entered>>,
           \A p \in Payment : bank[p] \in {"closed", "confirmed"} => bank'[p] = bank[p]
    PROVE  Grows
  BY DEF Grows

LEMMA LedgerAbort ==
    ASSUME TypeOK, LedgerInv, NEW t \in Thread, Abort(t), UNCHANGED <<books, bank, entered>>
    PROVE  LedgerInv'
<1>1. /\ agenda'[t] = <<>> /\ wrote'[t] = {} /\ buf'[t] = Blanks
      /\ \A u \in Thread \ {t} :
           /\ agenda'[u] = agenda[u] /\ wrote'[u] = wrote[u]
           /\ buf'[u] = buf[u] /\ stale'[u] = stale[u]
  BY DEF Abort, TypeOK
<1>2. Grows
  BY GrowsStill DEF Abort, books
<1>3. \A u \in Thread \ {t} : Holds(u)
  BY <1>1 DEF Holds, Abort
<1>4. Isolation'
  BY <1>1 DEF Isolation, LedgerInv
<1>5. BooksInv'
  BY <1>2, BooksKept DEF LedgerInv, BooksInv, Paid, Shape, Abort
<1> QED
  BY <1>1, <1>2, <1>3, <1>4, <1>5, RequestEmpty, LedgerStep

\* A handler that throws, or goes on with plain steps.
LEMMA LedgerHandler ==
    ASSUME TypeOK, LedgerInv, NEW t \in Thread, agenda[t] # <<>>, UNCHANGED <<vouched, entered>>,
           \A p \in Payment : bank[p] \in {"closed", "confirmed"} => bank'[p] = bank[p],
           NEW new \in Seq(Step), Then(t, new), UNCHANGED <<doc, txn>>,
           Harmless(Head(agenda[t])),
           \A s \in Elems(new) : StepInv(s) /\ Plain(s),
           Settling(t) => \A s \in Elems(new) : Clean(s)
    PROVE  LedgerInv'
<1>1. Grows
  BY GrowsStill
<1>2. \A u \in Thread \ {t} : agenda'[u] = agenda[u]
  BY PushSteps
<1>3. (\A u \in Thread : Holds(u)) => RequestInv(t)'
  BY <1>1, RequestProceeds DEF LedgerInv, BooksInv
<1> QED
  BY <1>1, <1>2, <1>3, LedgerPush

\* Writes of incomes and invoices that settle nothing.
LEMMA PlainWrite ==
    ASSUME NEW D, D \cap Payment = {}, NEW c,
           c.status \notin {"none", "paid", "completed"}, NEW tx
    PROVE  /\ StepInv(Write(D, c, tx)) /\ Plain(Write(D, c, tx))
           /\ Harmless(Write(D, c, tx))
           /\ ~tx \/ c.status = "keep" => Clean(Write(D, c, tx))
<1> DEFINE s == Write(D, c, tx)
<1>1. s.op = "write" /\ s.on = D /\ s.to = c /\ s.tx = tx
  BY DEF Write, Do
<1> HIDE DEF s
<1>2. StepInv(s) /\ Plain(s) /\ Harmless(s) /\ (~tx \/ c.status = "keep" => Clean(s))
  BY <1>1 DEF StepInv, Plain, Alone, Harmless, Clean, Sets
<1> QED
  BY <1>2 DEF s

LEMMA PlainChanges ==
    /\ Touch.status = "keep" /\ Numbered.status = "keep"
    /\ \A p : LockedBy(p).status = "keep"
    /\ Issued.status = "issued"
    /\ \A x : Becomes(x).status = x
  BY DEF Touch, Numbered, LockedBy, Issued, Becomes

LEMMA PlainWrites ==
    ASSUME NEW D, D \cap Payment = {}, NEW tx
    PROVE  /\ \A x \in {"pending", "unpaid", "canceled", "active", "issued"} :
                /\ StepInv(Write(D, Becomes(x), tx)) /\ Plain(Write(D, Becomes(x), tx))
                /\ ~tx => Clean(Write(D, Becomes(x), tx))
           /\ \A p : /\ StepInv(Write(D, LockedBy(p), tx))
                     /\ Plain(Write(D, LockedBy(p), tx))
           /\ StepInv(Write(D, Issued, tx)) /\ Plain(Write(D, Issued, tx))
           /\ ~tx => Clean(Write(D, Issued, tx))
           /\ \A c \in {Touch, Numbered} :
                StepInv(Write(D, c, tx)) /\ Plain(Write(D, c, tx)) /\ Clean(Write(D, c, tx))
<1>1. ASSUME NEW x \in {"pending", "unpaid", "canceled", "active", "issued"}
      PROVE  /\ StepInv(Write(D, Becomes(x), tx)) /\ Plain(Write(D, Becomes(x), tx))
             /\ ~tx => Clean(Write(D, Becomes(x), tx))
  <2>1. Becomes(x).status \notin {"none", "paid", "completed"}
    BY PlainChanges
  <2> QED
    BY <2>1, PlainWrite
<1>2. ASSUME NEW p PROVE StepInv(Write(D, LockedBy(p), tx)) /\ Plain(Write(D, LockedBy(p), tx))
  <2>1. LockedBy(p).status \notin {"none", "paid", "completed"}
    BY PlainChanges
  <2> QED
    BY <2>1, PlainWrite
<1>3. /\ StepInv(Write(D, Issued, tx)) /\ Plain(Write(D, Issued, tx))
      /\ ~tx => Clean(Write(D, Issued, tx))
  <2>1. Issued.status \notin {"none", "paid", "completed"}
    BY PlainChanges
  <2> QED
    BY <2>1, PlainWrite
<1>4. ASSUME NEW c \in {Touch, Numbered}
      PROVE  StepInv(Write(D, c, tx)) /\ Plain(Write(D, c, tx)) /\ Clean(Write(D, c, tx))
  <2>1. c.status = "keep"
    BY PlainChanges
  <2> QED
    BY <2>1, PlainWrite
<1> QED
  BY <1>1, <1>2, <1>3, <1>4

LEMMA PlainDo ==
    ASSUME NEW op \in StepOp \ {"write", "settle", "voucher", "makeInvoicePaid",
                                "verify", "createIncome", "confirm"},
           NEW D, NEW tx, op \in {"createInvoice", "insert"} => D \subseteq Income
    PROVE  /\ StepInv(Do(op, D, tx)) /\ Plain(Do(op, D, tx))
           /\ op = "insertInvoice" \/ (op = "issue" /\ ~tx) => Clean(Do(op, D, tx))
<1> DEFINE s == Do(op, D, tx)
<1>1. s.op = op /\ s.on = D /\ s.tx = tx
  BY DEF Do
<1> HIDE DEF s
<1>2. /\ StepInv(s) /\ Plain(s)
      /\ op = "insertInvoice" \/ (op = "issue" /\ ~tx) => Clean(s)
  BY <1>1 DEF StepInv, Plain, Alone, Harmless, Clean, Sets
<1> QED
  BY <1>2 DEF s

\* Incomes and invoices are no payments.
LEMMA NoPayments ==
    ASSUME Shape(doc), NEW v \in Invoice
    PROVE  /\ {v} \cap Payment = {} /\ doc[v].items \cap Payment = {}
           /\ doc[v].items \cap Invoice = {} /\ doc[v].items \subseteq Income
           /\ {FinNo} \cap Payment = {}
  BY BillingAssumption DEF Shape

\* The head of an agenda keeps to the rules; what does not share a request with
\* a settlement is no part of one.
LEMMA HeadInv ==
    ASSUME TypeOK, LedgerInv, NEW t \in Thread, agenda[t] # <<>>
    PROVE  /\ Head(agenda[t]) \in Steps(t)
           /\ StepInv(Head(agenda[t]))
           /\ Settling(t) => Clean(Head(agenda[t]))
           /\ Shape(doc) /\ RequestInv(t)
<1>1. agenda[t] \in Seq(Step)
  BY DEF TypeOK
<1>2. Steps(t) = {Head(agenda[t])} \cup Rest(t)
  BY <1>1, ElemsTail DEF Steps, Rest, Elems
<1>3. RequestInv(t) /\ Shape(doc)
  BY DEF LedgerInv, BooksInv
<1> QED
  BY <1>2, <1>3 DEF RequestInv, AgendaInv

-----------------------------------------------------------------------------
(* The handlers that settle nothing.                                       *)

LEMMA GuardedLedger ==
    ASSUME TypeOK, LedgerInv, NEW t \in Thread, agenda[t] # <<>>,
           UNCHANGED <<books, bank, entered>>,
           NEW new \in Seq(Step), NEW ok, Guarded(t, ok, new),
           Harmless(Head(agenda[t])),
           \A s \in Elems(new) : StepInv(s) /\ Plain(s),
           Settling(t) => \A s \in Elems(new) : Clean(s)
    PROVE  LedgerInv'
<1>1. CASE Abort(t)
  BY <1>1, LedgerAbort
<1>2. CASE Then(t, new) /\ UNCHANGED <<doc, txn>>
  <2>1. UNCHANGED <<vouched, entered>>
    BY DEF books
  <2> QED
    BY <1>2, <2>1, LedgerHandler
<1> QED
  BY <1>1, <1>2 DEF Guarded

LEMMA CreateInvoiceLedger ==
    ASSUME TypeOK, LedgerInv, NEW t \in Thread, CreateInvoice(t)
    PROVE  LedgerInv'
<1> DEFINE h   == Head(agenda[t])
           S   == h.on
           a   == Do("insert", S, S \cap Free = {})
           b   == Write(S, Becomes("pending"), TRUE)
<1>1. agenda[t] # <<>> /\ h.op = "createInvoice" /\ S \in SUBSET Doc
  BY HeadType DEF CreateInvoice
<1>2. S \subseteq Income
  BY <1>1, HeadInv DEF StepInv
<1>3. UNCHANGED <<books, bank, entered>> /\ UNCHANGED <<vouched, entered>>
  BY DEF CreateInvoice, books, env
<1>4. CASE Abort(t)
  BY <1>3, <1>4, LedgerAbort
<1>5. CASE Then(t, <<a, b>>) /\ UNCHANGED <<doc, txn>>
  <2>1. a \in Step /\ b \in Step
    <3>1. "insert" \in StepOp /\ "pending" \in Status
      BY DEF StepOp, Status
    <3> QED
      BY <1>1, <3>1, DoType, WriteType
  <2>2. <<a, b>> \in Seq(Step) /\ Elems(<<a, b>>) = {a, b}
    BY <2>1, ElemsShort, Agendas
  <2>3. StepInv(a) /\ Plain(a)
    BY <1>2, PlainDo DEF StepOp
  <2>4. StepInv(b) /\ Plain(b)
    <3>1. S \cap Payment = {}
      BY <1>2, BillingAssumption
    <3> QED
      BY <3>1, PlainWrites
  <2>5. Harmless(h) /\ ~Clean(h)
    BY <1>1 DEF Harmless, Sets, Clean
  <2>6. ~Settling(t)
    BY <1>1, <2>5, HeadInv
  <2> HIDE DEF a, b, h
  <2> QED
    BY <1>1, <1>3, <1>5, <2>2, <2>3, <2>4, <2>5, <2>6, LedgerHandler DEF h, env
<1> QED
  BY <1>4, <1>5 DEF CreateInvoice

LEMMA MakeInvoiceManuallyLedger ==
    ASSUME TypeOK, LedgerInv, NEW t \in Thread, MakeInvoiceManually(t)
    PROVE  LedgerInv'
<1> DEFINE h == Head(agenda[t])
<1>1. agenda[t] # <<>> /\ h.op = "makeInvoiceManually"
  BY HeadType DEF MakeInvoiceManually
<1>2. UNCHANGED <<books, bank, entered>> /\ UNCHANGED <<vouched, entered>>
  BY DEF MakeInvoiceManually, books, env
<1>3. CASE Abort(t)
  BY <1>2, <1>3, LedgerAbort
<1>4. ASSUME NEW S \in SUBSET Income,
             Then(t, <<Write(S, Becomes("pending"), TRUE), Do("insert", S, TRUE)>>),
             UNCHANGED <<doc, txn>>
      PROVE  LedgerInv'
  <2> DEFINE a == Write(S, Becomes("pending"), TRUE)
             b == Do("insert", S, TRUE)
  <2>1. a \in Step /\ b \in Step
    <3>1. "insert" \in StepOp /\ "pending" \in Status
      BY DEF StepOp, Status
    <3> QED
      BY <3>1, DoType, WriteType, DocSets
  <2>2. <<a, b>> \in Seq(Step) /\ Elems(<<a, b>>) = {a, b}
    BY <2>1, ElemsShort, Agendas
  <2>3. StepInv(b) /\ Plain(b)
    BY PlainDo DEF StepOp
  <2>4. StepInv(a) /\ Plain(a)
    <3>1. S \cap Payment = {}
      BY BillingAssumption
    <3> QED
      BY <3>1, PlainWrites
  <2>5. Harmless(h) /\ ~Clean(h)
    BY <1>1 DEF Harmless, Sets, Clean
  <2>6. ~Settling(t)
    BY <1>1, <2>5, HeadInv
  <2>7. Then(t, <<a, b>>)
    BY <1>4
  <2> HIDE DEF a, b, h
  <2> QED
    BY <1>1, <1>2, <1>4, <2>2, <2>3, <2>4, <2>5, <2>6, <2>7, LedgerHandler DEF h
<1> QED
  BY <1>3, <1>4, Zenon DEF MakeInvoiceManually

\* The handler of a request that shares its agenda with no settlement.
LEMMA RequestLedger ==
    ASSUME TypeOK, LedgerInv, NEW t \in Thread, agenda[t] # <<>>,
           UNCHANGED <<books, bank, entered>>,
           NEW new \in Seq(Step), NEW ok, Guarded(t, ok, new),
           Head(agenda[t]).op \in Request \ {"issue", "makeInvoicePaid"},
           \A s \in Elems(new) : StepInv(s) /\ Plain(s)
    PROVE  LedgerInv'
<1> DEFINE h == Head(agenda[t])
<1>1. Harmless(h) /\ ~Clean(h)
  BY DEF Harmless, Clean, Sets, Request
<1>2. ~Settling(t)
  BY <1>1, HeadInv
<1> QED
  BY <1>1, <1>2, GuardedLedger

LEMMA MakeInvoicePendLedger ==
    ASSUME TypeOK, LedgerInv, NEW t \in Thread, MakeInvoicePend(t)
    PROVE  LedgerInv'
<1>1. PICK v \in Invoice :
        Guarded(t, MayPend(v),
                 <<Write(doc[v].items, Becomes("pending"), FALSE),
                   Write({v}, Becomes("pending"), FALSE)>>)
  BY DEF MakeInvoicePend
<1> DEFINE a == Write(doc[v].items, Becomes("pending"), FALSE)
           b == Write({v}, Becomes("pending"), FALSE)
<1>2. /\ agenda[t] # <<>>
      /\ Head(agenda[t]).op \in Request \ {"issue", "makeInvoicePaid"}
  BY HeadType DEF MakeInvoicePend, Request
<1>3. {v} \cap Payment = {} /\ doc[v].items \cap Payment = {}
  BY NoPayments DEF LedgerInv, BooksInv
<1>4. StepInv(a) /\ Plain(a) /\ StepInv(b) /\ Plain(b)
  BY <1>3, PlainWrites
<1>5. a \in Step /\ b \in Step
  BY WriteType, DocSets, DocItems DEF Status
<1>6. <<a, b>> \in Seq(Step) /\ Elems(<<a, b>>) = {a, b}
  BY <1>5, Agendas, ElemsShort
<1>7. Guarded(t, MayPend(v), <<a, b>>)
  BY <1>1
<1>8. UNCHANGED <<books, bank, entered>>
  BY DEF MakeInvoicePend, env
<1> HIDE DEF a, b
<1> QED
  BY <1>2, <1>4, <1>6, <1>7, <1>8, RequestLedger

LEMMA MakeInvoiceCancelLedger ==
    ASSUME TypeOK, LedgerInv, NEW t \in Thread, MakeInvoiceCancel(t)
    PROVE  LedgerInv'
<1>1. PICK v \in Invoice :
        Guarded(t, ~Locked(doc[v]) /\ doc[v].status \notin {"none", "paid"},
                Cancellation(v))
  BY DEF MakeInvoiceCancel
<1> DEFINE a == Write(doc[v].items, Becomes("unpaid"), TRUE)
           b == Write({v}, Becomes("canceled"), TRUE)
<1>2. /\ agenda[t] # <<>>
      /\ Head(agenda[t]).op \in Request \ {"issue", "makeInvoicePaid"}
  BY HeadType DEF MakeInvoiceCancel, Request
<1>3. {v} \cap Payment = {} /\ doc[v].items \cap Payment = {}
  BY NoPayments DEF LedgerInv, BooksInv
<1>4. StepInv(a) /\ Plain(a) /\ StepInv(b) /\ Plain(b)
  BY <1>3, PlainWrites
<1>5. a \in Step /\ b \in Step
  BY WriteType, DocSets, DocItems DEF Status
<1>6. <<a, b>> \in Seq(Step) /\ Elems(<<a, b>>) = {a, b}
  BY <1>5, Agendas, ElemsShort
<1>7. Cancellation(v) = <<a, b>>
  BY DEF Cancellation
<1>8. UNCHANGED <<books, bank, entered>>
  BY DEF MakeInvoiceCancel, env
<1> HIDE DEF a, b
<1> QED
  BY <1>1, <1>2, <1>4, <1>6, <1>7, <1>8, RequestLedger

LEMMA UpdateInvoiceLedger ==
    ASSUME TypeOK, LedgerInv, NEW t \in Thread, UpdateInvoice(t)
    PROVE  LedgerInv'
<1>1. PICK v \in Invoice :
         \/ Guarded(t, ~Locked(doc[v]) /\ doc[v].status = "active",
                    <<Write(doc[v].items, Becomes("pending"), TRUE),
                      Write({v}, Issued, TRUE)>>)
         \/ Guarded(t, ~Locked(doc[v]) /\ doc[v].status = "active",
                    <<Write({v}, Becomes("active"), TRUE)>>)
  BY DEF UpdateInvoice
<1> DEFINE a == Write(doc[v].items, Becomes("pending"), TRUE)
           b == Write({v}, Issued, TRUE)
           c == Write({v}, Becomes("active"), TRUE)
           ok == ~Locked(doc[v]) /\ doc[v].status = "active"
<1>2. /\ agenda[t] # <<>>
      /\ Head(agenda[t]).op \in Request \ {"issue", "makeInvoicePaid"}
  BY HeadType DEF UpdateInvoice, Request
<1>3. {v} \cap Payment = {} /\ doc[v].items \cap Payment = {}
  BY NoPayments DEF LedgerInv, BooksInv
<1>4. /\ StepInv(a) /\ Plain(a) /\ StepInv(b) /\ Plain(b)
      /\ StepInv(c) /\ Plain(c)
  BY <1>3, PlainWrites
<1>5. a \in Step /\ b \in Step /\ c \in Step
  BY WriteType, DocSets, DocItems DEF Status
<1>6. /\ <<a, b>> \in Seq(Step) /\ Elems(<<a, b>>) = {a, b}
      /\ <<c>> \in Seq(Step) /\ Elems(<<c>>) = {c}
  BY <1>5, Agendas, ElemsShort
<1>7. Guarded(t, ok, <<a, b>>) \/ Guarded(t, ok, <<c>>)
  BY <1>1
<1>8. UNCHANGED <<books, bank, entered>>
  BY DEF UpdateInvoice, env
<1> HIDE DEF a, b, c, ok
<1> QED
  BY <1>2, <1>4, <1>6, <1>7, <1>8, RequestLedger

LEMMA IncomeHandlerLedger ==
    ASSUME TypeOK, LedgerInv, NEW t \in Thread, UpdateIncome(t) \/ Remove(t)
    PROVE  LedgerInv'
<1>1. PICK i \in Income, ok \in BOOLEAN :
        \/ Guarded(t, ok, <<Write({i}, Touch, TRUE)>>)
        \/ Guarded(t, ok, <<Write({i}, Becomes("canceled"), TRUE)>>)
  BY DEF UpdateIncome, Remove
<1> DEFINE a == Write({i}, Touch, TRUE)
           b == Write({i}, Becomes("canceled"), TRUE)
<1>2. /\ agenda[t] # <<>>
      /\ Head(agenda[t]).op \in Request \ {"issue", "makeInvoicePaid"}
  <2>1. agenda[t] # <<>> /\ Head(agenda[t]).op \in {"updateIncome", "remove"}
    BY HeadType DEF UpdateIncome, Remove, Turn
  <2> QED
    BY <2>1 DEF Request
<1>3. {i} \cap Payment = {}
  BY BillingAssumption
<1>4. StepInv(a) /\ Plain(a) /\ StepInv(b) /\ Plain(b)
  BY <1>3, PlainWrites
<1>5. a \in Step /\ b \in Step
  BY WriteType, DocSets DEF Status
<1>6. /\ <<a>> \in Seq(Step) /\ Elems(<<a>>) = {a}
      /\ <<b>> \in Seq(Step) /\ Elems(<<b>>) = {b}
  BY <1>5, Agendas, ElemsShort
<1>7. Guarded(t, ok, <<a>>) \/ Guarded(t, ok, <<b>>)
  BY <1>1
<1>8. UNCHANGED <<books, bank, entered>>
  BY DEF UpdateIncome, Remove, env
<1> HIDE DEF a, b
<1> QED
  BY <1>2, <1>4, <1>6, <1>7, <1>8, RequestLedger

LEMMA IncomeRequestsLedger ==
    ASSUME TypeOK, LedgerInv, NEW t \in Thread,
           ForceUpdateIncome(t) \/ ChangeCaseType(t)
    PROVE  LedgerInv'
<1>1. PICK S \in SUBSET Income, ok \in BOOLEAN :
        Guarded(t, ok, <<Write(S, Touch, TRUE)>>)
  BY IncomeRequests
<1> DEFINE a == Write(S, Touch, TRUE)
<1>2. /\ agenda[t] # <<>>
      /\ Head(agenda[t]).op \in Request \ {"issue", "makeInvoicePaid"}
      /\ UNCHANGED <<books, bank, entered>>
  BY IncomeRequests DEF Request, env
<1>3. S \cap Payment = {} /\ S \in SUBSET Doc
  BY BillingAssumption, DocSets
<1>4. StepInv(a) /\ Plain(a)
  BY <1>3, PlainWrites
<1>5. a \in Step
  BY <1>3, WriteType DEF Status
<1>6. <<a>> \in Seq(Step) /\ Elems(<<a>>) = {a}
  BY <1>5, Agendas, ElemsShort
<1>7. Guarded(t, ok, <<a>>)
  BY <1>1
<1> HIDE DEF a
<1> QED
  BY <1>2, <1>4, <1>6, <1>7, RequestLedger

\* An income is created alone on its agenda; one created as paid is entered.
LEMMA CreateIncomeLedger ==
    ASSUME TypeOK, LedgerInv, NEW t \in Thread, CreateIncome(t)
    PROVE  LedgerInv'
<1> DEFINE h == Head(agenda[t])
<1>1. agenda[t] # <<>> /\ h.op = "createIncome"
  BY HeadType DEF CreateIncome
<1>2. PICK i \in Income, status \in IncomeStatus :
        /\ Then(t, <<Write({i}, Becomes(status), TRUE)>>)
        /\ entered' = IF status = "paid" THEN entered \cup {i} ELSE entered
  BY DEF CreateIncome
<1>3. UNCHANGED <<doc, txn, vouched, bank>>
  BY DEF CreateIncome, books, env
<1> DEFINE a == Write({i}, Becomes(status), TRUE)
           q == <<a>>
<1>4. a.op = "write" /\ a.on = {i} /\ a.tx /\ a.to.status = status
  BY PlainChanges DEF Write, Do
<1>5. a \in Step
  BY WriteType, DocSets, IncomeStatuses
<1>6. q \in Seq(Step) /\ Elems(q) = {a}
  BY <1>5, Agendas, ElemsShort
<1>7. Then(t, q)
  BY <1>2
<1>8. Rest(t) = {} /\ wrote[t] = {}
  BY <1>1, AloneOnAgenda DEF LedgerInv, Alone
<1> HIDE DEF a, q
<1>9. /\ Steps(t) = {h} \cup Rest(t) /\ Steps(t)' = {a} \cup Rest(t)
      /\ \A u \in Thread \ {t} : agenda'[u] = agenda[u]
  BY <1>1, <1>6, <1>7, PushSteps
<1>10. Grows
  BY <1>2, <1>3 DEF Grows
<1>11. status \notin {"none", "completed", "keep"} /\ i \notin Invoice \cup Payment
  BY BillingAssumption DEF IncomeStatus
<1>12. StepInv(a) /\ ~Sets(a, "completed") /\ ~Alone(a)
  BY <1>4, <1>11 DEF StepInv, Sets, Alone
<1>13. Owes(t) = {}
  BY <1>1, <1>8, <1>9 DEF Owes
<1>14. \A d \in Doc : ~Pays(t, d)
  BY <1>1, <1>8, <1>9 DEF Pays, Sets
<1>15. \A v \in Invoice : ~Settles(t, v)
  BY <1>1, <1>8, <1>9, <1>14, DocSets DEF Settles
<1>16. ASSUME \A u \in Thread : Holds(u) PROVE RequestInv(t)'
  <2> DEFINE H == {h}
             E == {a}
             R == Rest(t)
  <2>1. Shape(doc) /\ RequestInv(t) /\ Holds(t)
    BY <1>1, <1>16, HeadInv
  <2>2. Settling(t)' => \A s \in Steps(t)' : Clean(s)
    <3>1. CASE status = "paid"
      BY <1>4, <1>8, <1>9, <3>1 DEF Clean
    <3>2. CASE status # "paid"
      <4>1. wrote'[t] = {} /\ Steps(t)' = {a}
        BY <1>3, <1>8, <1>9 DEF txn
      <4>2. ~Sets(a, "paid") /\ ~Sets(a, "completed")
        BY <1>4, <1>12, <3>2 DEF Sets
      <4>3. ~Settling(t)'
        BY <1>4, <4>1, <4>2 DEF Settling, NewlyPaid, Sets
      <4> QED
        BY <4>3
    <3> QED
      BY <3>1, <3>2
  <2>3. Sets(a, "paid") => i \in entered'
    BY <1>2, <1>4 DEF Sets
  <2>4. Carries(t) /\ Covered(t, E) /\ Fit(E)
    BY <1>4, <1>11, <1>12, <1>13, <1>14, <1>15, <2>3 DEF Carries, Covered, Fit
  <2>5. /\ Steps(t) = H \cup R /\ Steps(t)' = E \cup R /\ E \subseteq Step
        /\ \A s \in E : ~Alone(s)
        /\ \A s \in R : Alone(s) => agenda'[t] = <<s>> /\ wrote[t] = {}
    BY <1>5, <1>8, <1>9, <1>12
  <2> HIDE DEF H, E, R
  <2> QED
    BY <1>10, <2>1, <2>2, <2>4, <2>5, RequestKept
<1> QED
  BY <1>3, <1>9, <1>10, <1>16, LedgerPush

LEMMA ForceUpdateLedger ==
    ASSUME TypeOK, LedgerInv, NEW t \in Thread, ForceUpdate(t)
    PROVE  LedgerInv'
<1>1. PICK v \in Invoice, gone \in SUBSET Income :
        Guarded(t, ~Locked(doc[v]), <<Write(gone, Becomes("unpaid"), FALSE)>>)
  BY DEF ForceUpdate
<1> DEFINE a == Write(gone, Becomes("unpaid"), FALSE)
<1>2. /\ agenda[t] # <<>>
      /\ Head(agenda[t]).op \in Request \ {"issue", "makeInvoicePaid"}
  BY HeadType DEF ForceUpdate, Request
<1>3. gone \cap Payment = {}
  BY BillingAssumption
<1>4. StepInv(a) /\ Plain(a)
  BY <1>3, PlainWrites
<1>5. a \in Step
  BY WriteType, DocSets DEF Status
<1>6. <<a>> \in Seq(Step) /\ Elems(<<a>>) = {a}
  BY <1>5, Agendas, ElemsShort
<1>7. Guarded(t, ~Locked(doc[v]), <<a>>)
  BY <1>1
<1>8. UNCHANGED <<books, bank, entered>>
  BY DEF ForceUpdate, env
<1> HIDE DEF a
<1> QED
  BY <1>2, <1>4, <1>6, <1>7, <1>8, RequestLedger

LEMMA RevertLedger ==
    ASSUME TypeOK, LedgerInv, NEW t \in Thread, RevertToPreviousState(t)
    PROVE  LedgerInv'
<1>1. PICK v \in Head(agenda[t]).on \cap Invoice :
         LET rest == Head(agenda[t]).on \ {v} IN
         \/ Then(t, <<>>) /\ UNCHANGED <<doc, txn>>
         \/ Guarded(t, ~Locked(doc[v]),
              <<Write(doc[v].items, Becomes("pending"), TRUE),
                Write({v}, Becomes(PreviousStatus(v)), TRUE)>>
              \o (IF rest = {} THEN <<>>
                  ELSE <<Do("revertToPreviousState", rest, TRUE)>>))
  BY DEF RevertToPreviousState
<1> DEFINE rest == Head(agenda[t]).on \ {v}
           a == Write(doc[v].items, Becomes("pending"), TRUE)
           b == Write({v}, Becomes(PreviousStatus(v)), TRUE)
           c == Do("revertToPreviousState", rest, TRUE)
           q == IF rest = {} THEN <<>> ELSE <<c>>
<1>2. /\ agenda[t] # <<>>
      /\ Head(agenda[t]).op \in Request \ {"issue", "makeInvoicePaid"}
      /\ rest \in SUBSET Doc
  BY HeadType DEF RevertToPreviousState, Request
<1>3. {v} \cap Payment = {} /\ doc[v].items \cap Payment = {}
  BY NoPayments DEF LedgerInv, BooksInv
<1>4. PreviousStatus(v) \in {"active", "issued"}
  BY DEF PreviousStatus
<1>5. StepInv(a) /\ Plain(a) /\ StepInv(b) /\ Plain(b)
  BY <1>3, <1>4, PlainWrites
<1>6. StepInv(c) /\ Plain(c)
  BY PlainDo DEF StepOp, Request
<1>7. a \in Step /\ b \in Step
  BY <1>4, WriteType, DocSets, DocItems DEF Status
<1>8. c \in Step
  BY <1>2, DoType DEF StepOp, Request
<1>9. <<a, b>> \in Seq(Step) /\ Elems(<<a, b>>) = {a, b}
  BY <1>7, Agendas, ElemsShort
<1>10. q \in Seq(Step) /\ Elems(q) \subseteq {c}
  BY <1>8, Agendas, ElemsShort
<1>11. /\ <<a, b>> \o q \in Seq(Step)
       /\ Elems(<<a, b>> \o q) \subseteq {a, b, c}
  <2> DEFINE p == <<a, b>>
  <2>1. p \in Seq(Step) /\ Elems(p) = {a, b}
    BY <1>9
  <2> HIDE DEF a, b, c, q, p
  <2>2. p \o q \in Seq(Step) /\ Elems(p \o q) = Elems(p) \cup Elems(q)
    BY <1>10, <2>1, StepsConcat
  <2>3. Elems(p \o q) \subseteq {a, b, c}
    BY <1>10, <2>1, <2>2
  <2> QED
    BY <2>2, <2>3 DEF p
<1>12. (Then(t, <<>>) /\ UNCHANGED <<doc, txn>>) \/ Guarded(t, ~Locked(doc[v]), <<a, b>> \o q)
  BY <1>1
<1>13. UNCHANGED <<books, bank, entered>> /\ UNCHANGED <<vouched, entered>>
  BY DEF RevertToPreviousState, env, books
<1> HIDE DEF a, b, c, q
<1>14. CASE Then(t, <<>>) /\ UNCHANGED <<doc, txn>>
  <2>1. Guarded(t, TRUE, <<>>)
    BY <1>14 DEF Guarded
  <2>2. <<>> \in Seq(Step) /\ Elems(<<>>) = {}
    BY Agendas, ElemsShort
  <2> QED
    BY <1>2, <1>13, <2>1, <2>2, RequestLedger
<1>15. CASE Guarded(t, ~Locked(doc[v]), <<a, b>> \o q)
  BY <1>2, <1>5, <1>6, <1>11, <1>13, <1>15, RequestLedger
<1> QED
  BY <1>12, <1>14, <1>15

\* issue shares a request with a settlement when makeInvoicePaid calls it, and
\* then all its steps are outside the transaction.
LEMMA IssueLedger ==
    ASSUME TypeOK, LedgerInv, NEW t \in Thread, Issue(t)
    PROVE  LedgerInv'
<1> DEFINE h == Head(agenda[t])
<1>1. PICK v \in Invoice :
        Guarded(t, ~Locked(doc[v]) /\ doc[v].status \in {"active", "pending"},
                 <<Write({v}, Touch, FALSE)>>
                 \o (IF v \in Official THEN <<Write({FinNo}, Touch, h.tx)>>
                                       ELSE <<>>)
                 \o <<Do("insertInvoice", {v}, h.tx),
                      Write(doc[v].items, Becomes("pending"), h.tx),
                      Write({v}, Issued, h.tx)>>)
  BY DEF Issue
<1> DEFINE ok == ~Locked(doc[v]) /\ doc[v].status \in {"active", "pending"}
           a == Write({v}, Touch, FALSE)
           f == Write({FinNo}, Touch, h.tx)
           b == Do("insertInvoice", {v}, h.tx)
           c == Write(doc[v].items, Becomes("pending"), h.tx)
           d == Write({v}, Issued, h.tx)
           p == <<a>>
           q == IF v \in Official THEN <<f>> ELSE <<>>
           r == <<b, c, d>>
<1>2. agenda[t] # <<>> /\ h.op = "issue" /\ h.tx \in BOOLEAN
  BY HeadType DEF Issue
<1>3. /\ {v} \cap Payment = {} /\ doc[v].items \cap Payment = {}
      /\ {FinNo} \cap Payment = {}
  BY NoPayments DEF LedgerInv, BooksInv
<1>4. /\ StepInv(a) /\ Plain(a) /\ Clean(a)
      /\ StepInv(f) /\ Plain(f) /\ Clean(f)
      /\ StepInv(c) /\ Plain(c) /\ (~h.tx => Clean(c))
      /\ StepInv(d) /\ Plain(d) /\ (~h.tx => Clean(d))
  BY <1>3, PlainWrites
<1>5. StepInv(b) /\ Plain(b) /\ Clean(b)
  BY PlainDo DEF StepOp
<1>6. a \in Step /\ f \in Step /\ c \in Step /\ d \in Step
  BY <1>2, WriteType, DocSets, DocItems DEF Status
<1>7. b \in Step
  BY <1>2, DoType, DocSets DEF StepOp
<1>8. p \in Seq(Step) /\ Elems(p) = {a}
  BY <1>6, Agendas, ElemsShort
<1>9. q \in Seq(Step) /\ Elems(q) \subseteq {f}
  BY <1>6, Agendas, ElemsShort
<1>10. r \in Seq(Step) /\ Elems(r) = {b, c, d}
  BY <1>6, <1>7, Agendas, ElemsShort
<1>11. Guarded(t, ok, p \o q \o r)
  BY <1>1
<1> HIDE DEF a, f, b, c, d, p, q, r, ok
<1>12. p \o q \in Seq(Step) /\ Elems(p \o q) = Elems(p) \cup Elems(q)
  BY <1>8, <1>9, StepsConcat
<1>13. /\ p \o q \o r \in Seq(Step)
       /\ Elems(p \o q \o r) = Elems(p \o q) \cup Elems(r)
  BY <1>10, <1>12, StepsConcat
<1>14. Elems(p \o q \o r) \subseteq {a, f, b, c, d}
  BY <1>8, <1>9, <1>10, <1>12, <1>13
<1>15. Harmless(h)
  BY <1>2 DEF Harmless, Sets
<1>16. Settling(t) => ~h.tx
  <2>1. Clean(h) => ~h.tx
    BY <1>2 DEF Clean
  <2> QED
    BY <1>2, <2>1, HeadInv
<1>17. \A s \in Elems(p \o q \o r) : StepInv(s) /\ Plain(s)
  BY <1>4, <1>5, <1>14
<1>18. Settling(t) => \A s \in Elems(p \o q \o r) : Clean(s)
  BY <1>4, <1>5, <1>14, <1>16
<1>19. UNCHANGED <<books, bank, entered>>
  BY DEF Issue, env
<1> QED
  BY <1>2, <1>11, <1>13, <1>15, <1>17, <1>18, <1>19, GuardedLedger

LEMMA EmptyPush ==
    /\ <<>> \in Seq(Step)
    /\ \A s \in Elems(<<>>) : StepInv(s) /\ Plain(s) /\ Clean(s)
  BY Agendas, ElemsShort

LEMMA InsertInvoiceLedger ==
    ASSUME TypeOK, LedgerInv, NEW t \in Thread, InsertInvoice(t)
    PROVE  LedgerInv'
<1>1. agenda[t] # <<>> /\ Head(agenda[t]).op = "insertInvoice"
  BY HeadType DEF InsertInvoice
<1>2. Harmless(Head(agenda[t]))
  BY <1>1 DEF Harmless, Sets
<1>3. Then(t, <<>>) /\ UNCHANGED <<doc, txn>> /\ UNCHANGED <<vouched, entered>> /\ UNCHANGED bank
  BY DEF InsertInvoice, env
<1> QED
  BY <1>1, <1>2, <1>3, EmptyPush, LedgerHandler

LEMMA GetBankTokenLedger ==
    ASSUME TypeOK, LedgerInv, NEW t \in Thread, GetBankToken(t)
    PROVE  LedgerInv'
<1>1. agenda[t] # <<>> /\ Head(agenda[t]).op = "token"
  BY HeadType DEF GetBankToken
<1>2. Harmless(Head(agenda[t]))
  BY <1>1 DEF Harmless, Sets
<1>3. Then(t, <<>>) /\ UNCHANGED <<doc, txn>> /\ UNCHANGED <<vouched, entered>>
  BY DEF GetBankToken, books
<1>4. \A p \in Payment : bank[p] \in {"closed", "confirmed"} => bank'[p] = bank[p]
  BY DEF GetBankToken, TypeOK
<1> QED
  BY <1>1, <1>2, <1>3, <1>4, EmptyPush, LedgerHandler

LEMMA PayLedger ==
    ASSUME TypeOK, LedgerInv, NEW t \in Thread, Pay(t)
    PROVE  LedgerInv'
<1>1. PICK v \in Invoice, p \in Payment, ok \in BOOLEAN :
        /\ bank[p] = "idle"
        /\ Guarded(t, ok, LockBoth(v, p) \o <<Do("createPayment", {v, p}, FALSE),
                                              Do("token", {p}, FALSE)>>)
        /\ bank' = IF ok THEN [bank EXCEPT ![p] = "asked"] ELSE bank
  BY DEF Pay
<1> DEFINE h == Head(agenda[t])
           a == Write(doc[v].items, LockedBy(p), FALSE)
           b == Write({v}, LockedBy(p), FALSE)
           c == Do("createPayment", {v, p}, FALSE)
           d == Do("token", {p}, FALSE)
           q == <<a, b>>
           r == <<c, d>>
<1>2. agenda[t] # <<>> /\ h.op = "pay"
  BY HeadType DEF Pay
<1>3. {v} \cap Payment = {} /\ doc[v].items \cap Payment = {}
  BY NoPayments DEF LedgerInv, BooksInv
<1>4. StepInv(a) /\ Plain(a) /\ StepInv(b) /\ Plain(b)
  BY <1>3, PlainWrites
<1>5. StepInv(c) /\ Plain(c) /\ StepInv(d) /\ Plain(d)
  BY PlainDo DEF StepOp
<1>6. a \in Step /\ b \in Step
  BY WriteType, DocSets, DocItems
<1>7. c \in Step /\ d \in Step
  BY DoType, DocSets DEF StepOp
<1>8. q \in Seq(Step) /\ Elems(q) = {a, b} /\ r \in Seq(Step) /\ Elems(r) = {c, d}
  BY <1>6, <1>7, Agendas, ElemsShort
<1>9. Guarded(t, ok, q \o r)
  BY <1>1 DEF LockBoth
<1> HIDE DEF a, b, c, d, q, r
<1>10. q \o r \in Seq(Step) /\ Elems(q \o r) = {a, b} \cup {c, d}
  BY <1>8, StepsConcat
<1>11. \A s \in Elems(q \o r) : StepInv(s) /\ Plain(s)
  BY <1>4, <1>5, <1>10
<1>12. Harmless(h) /\ ~Clean(h)
  BY <1>2 DEF Harmless, Clean, Sets
<1>13. ~Settling(t)
  BY <1>2, <1>12, HeadInv
<1>14. \A x \in Payment : bank[x] \in {"closed", "confirmed"} => bank'[x] = bank[x]
  BY <1>1 DEF TypeOK
<1>15. UNCHANGED <<vouched, entered>> /\ UNCHANGED books
  BY DEF Pay, books
<1>16. CASE ok
  <2>1. Then(t, q \o r) /\ UNCHANGED <<doc, txn>>
    BY <1>9, <1>16 DEF Guarded
  <2> QED
    BY <1>2, <1>10, <1>11, <1>12, <1>13, <1>14, <1>15, <2>1, LedgerHandler
<1>17. CASE ~ok
  <2>1. Abort(t) /\ UNCHANGED <<books, bank, entered>>
    BY <1>1, <1>9, <1>15, <1>17 DEF Guarded
  <2> QED
    BY <2>1, LedgerAbort
<1> QED
  BY <1>16, <1>17

\* The bank's callback: alone on its agenda, with nothing written.
LEMMA VerifyLedger ==
    ASSUME TypeOK, LedgerInv, NEW t \in Thread, Verify(t)
    PROVE  LedgerInv'
<1> DEFINE h == Head(agenda[t])
<1>1. agenda[t] # <<>> /\ h.op = "verify" /\ h \in Step
  BY HeadType DEF Verify
<1>2. UNCHANGED <<doc, txn, books, bank>> /\ UNCHANGED <<vouched, entered>>
  BY DEF Verify, books, env
<1>3. Harmless(h) /\ ~Clean(h)
  BY <1>1 DEF Harmless, Clean, Sets
<1>4. ~Settling(t)
  BY <1>1, <1>3, HeadInv
<1>5. PICK p \in Payment :
        /\ doc[p].status # "none"
        /\ \/ /\ bank[p] = "closed"
              /\ \E v \in Invoice :
                   Then(t, <<Write({p}, Becomes("canceled"), TRUE),
                             Write({v}, LockedBy(NoLock), TRUE),
                             Write(doc[v].items, LockedBy(NoLock), TRUE)>>)
           \/ Then(t, <<Do("confirm", {p}, TRUE)>>)
  BY DEF Verify
<1>6. ASSUME bank[p] = "closed", NEW v \in Invoice,
             Then(t, <<Write({p}, Becomes("canceled"), TRUE),
                       Write({v}, LockedBy(NoLock), TRUE),
                       Write(doc[v].items, LockedBy(NoLock), TRUE)>>)
      PROVE  LedgerInv'
  <2> DEFINE a == Write({p}, Becomes("canceled"), TRUE)
             b == Write({v}, LockedBy(NoLock), TRUE)
             c == Write(doc[v].items, LockedBy(NoLock), TRUE)
  <2>1. {v} \cap Payment = {} /\ doc[v].items \cap Payment = {}
    BY NoPayments DEF LedgerInv, BooksInv
  <2>2. StepInv(b) /\ Plain(b) /\ StepInv(c) /\ Plain(c)
    BY <2>1, PlainWrites
  <2>3. StepInv(a) /\ Plain(a)
    <3>1. /\ a.op = "write" /\ a.on = {p} /\ a.tx = TRUE
          /\ a.to.status = "canceled"
      BY PlainChanges DEF Write, Do
    <3> HIDE DEF a
    <3> QED
      BY <1>5, <1>6, <3>1 DEF StepInv, Plain, Alone, Harmless, Sets
  <2>4. a \in Step /\ b \in Step /\ c \in Step
    BY WriteType, DocSets, DocItems DEF Status
  <2>5. <<a, b, c>> \in Seq(Step) /\ Elems(<<a, b, c>>) = {a, b, c}
    BY <2>4, Agendas, ElemsShort
  <2>6. Then(t, <<a, b, c>>)
    BY <1>6
  <2> HIDE DEF a, b, c
  <2>7. \A s \in Elems(<<a, b, c>>) : StepInv(s) /\ Plain(s)
    BY <2>2, <2>3, <2>5
  <2> QED
    BY <1>1, <1>2, <1>3, <1>4, <2>5, <2>6, <2>7, LedgerHandler
<1>7. ASSUME Then(t, <<Do("confirm", {p}, TRUE)>>) PROVE LedgerInv'
  <2> DEFINE c == Do("confirm", {p}, TRUE)
             q == <<c>>
  <2>1. c \in Step
    BY DoType, DocSets DEF StepOp
  <2>2. q \in Seq(Step) /\ Elems(q) = {c}
    BY <2>1, Agendas, ElemsShort
  <2>3. c.op = "confirm" /\ c.on = {p}
    BY DEF Do
  <2> HIDE DEF c, q
  <2>4. Then(t, q)
    BY <1>7 DEF q, c
  <2>5. Rest(t) = {} /\ wrote[t] = {}
    BY <1>1, AloneOnAgenda DEF LedgerInv, Alone
  <2>6. Steps(t) = {h} \cup Rest(t) /\ Steps(t)' = {c} \cup Rest(t)
        /\ \A u \in Thread \ {t} : agenda'[u] = agenda[u]
    BY <1>1, <2>2, <2>4, PushSteps
  <2>7. Grows
    BY <1>2, GrowsStill
  <2>8. StepInv(c) /\ ~Sets(c, "paid") /\ ~Sets(c, "completed") /\ Clean(c)
    BY <1>5, <2>3 DEF StepInv, Sets, Clean
  <2>9. \A d \in Doc : ~Pays(t, d)
    BY <1>1, <2>5, <2>6 DEF Pays, Sets
  <2>10. Owes(t) = {}
    BY <1>1, <2>5, <2>6 DEF Owes
  <2>11. \A v \in Invoice : ~Settles(t, v)
    BY <1>1, <2>5, <2>6, <2>9, DocSets DEF Settles
  <2>12. ASSUME \A u \in Thread : Holds(u) PROVE RequestInv(t)'
    <3> DEFINE H == {h}
               E == {c}
               R == Rest(t)
    <3>1. /\ Steps(t) = H \cup R /\ Steps(t)' = E \cup R
          /\ E \subseteq Step
          /\ \A s \in E : StepInv(s) /\ ~Alone(s) /\ ~Sets(s, "paid")
                          /\ ~Sets(s, "completed")
          /\ \A s \in R : Alone(s) => agenda'[t] = <<s>> /\ wrote[t] = {}
          /\ \A s \in Steps(t)' : Clean(s)
      BY <2>1, <2>3, <2>5, <2>6, <2>8 DEF Alone
    <3>2. Shape(doc) /\ RequestInv(t) /\ Holds(t)
      BY <1>1, <2>12, HeadInv
    <3> HIDE DEF H, E, R
    <3>3. Carries(t) /\ Covered(t, E) /\ Fit(E)
      BY <2>9, <2>10, <2>11, <3>1 DEF Carries, Covered, Fit
    <3> QED
      BY <2>7, <3>1, <3>2, <3>3, RequestKept
  <2> QED
    BY <1>2, <2>6, <2>7, <2>12, LedgerPush
<1> QED
  BY <1>5, <1>6, <1>7

\* Writes that are committed at once.
LEMMA LedgerDirect ==
    ASSUME TypeOK, LedgerInv, NEW t \in Thread, agenda[t] # <<>>, Then(t, <<>>),
           Harmless(Head(agenda[t])), UNCHANGED <<wrote, buf>>,
           NEW D, Overtake(Thread, D), Grows, BooksInv',
           \A u \in Thread : \A d \in wrote[u] : doc'[d] = doc[d]
    PROVE  LedgerInv'
<1>1. \A u \in Thread : Holds(u)
  BY DEF Holds, Overtake
<1>2. Isolation'
  BY DEF LedgerInv, Isolation
<1>3. \A u \in Thread \ {t} : agenda'[u] = agenda[u]
  BY EmptyPush, PushSteps
<1>4. RequestInv(t)'
  BY <1>1, EmptyPush, HeadInv, RequestProceeds
<1> QED
  BY <1>1, <1>2, <1>3, <1>4, LedgerStep

LEMMA CreatePaymentLedger ==
    ASSUME TypeOK, LedgerInv, NEW t \in Thread, CreatePayment(t)
    PROVE  LedgerInv'
<1>1. agenda[t] # <<>> /\ Head(agenda[t]).op = "createPayment"
  BY HeadType DEF CreatePayment
<1>2. PICK v \in Invoice, p \in Payment :
        /\ doc[p].status = "none"
        /\ doc' = [doc EXCEPT ![p] = [Blank EXCEPT
                     !.status = "progressing", !.items = {v}]]
        /\ Overtake(Thread, {p})
  BY DEF CreatePayment
<1>3. Harmless(Head(agenda[t]))
  BY <1>1 DEF Harmless, Sets
<1>4. /\ doc'[p].status = "progressing"
      /\ \A d \in Doc \ {p} : doc'[d] = doc[d]
  BY <1>2, DocSets DEF TypeOK, Blank
<1>5. UNCHANGED <<vouched, bank, entered, wrote, buf>>
  BY DEF CreatePayment, books, env
<1>6. Grows
  BY <1>2, <1>4, <1>5 DEF Grows
<1>7. ASSUME NEW u \in Thread, NEW d \in wrote[u] PROVE doc'[d] = doc[d]
  <2>1. d # p
    BY <1>2, <1>7 DEF LedgerInv, RequestInv, BufInv
  <2> QED
    BY <1>4, <1>7, <2>1 DEF TypeOK
<1>8. p \notin Income /\ p \notin Invoice /\ p \in Doc
  BY BillingAssumption, DocSets
<1>9. Shape(doc)'
  BY <1>4, <1>8, DocSets DEF LedgerInv, BooksInv, Shape
<1>10. BooksInv'
  <2>1. \A d \in Income \cup Invoice : doc'[d] = doc[d]
    BY <1>4, <1>8, DocSets
  <2>2. \A x \in Payment : doc'[x].status = "completed" => doc[x].status = "completed"
    BY <1>4, DocSets
  <2> QED
    BY <1>6, <1>9, <2>1, <2>2, BooksKept DEF LedgerInv, Paid
<1> QED
  BY <1>1, <1>2, <1>3, <1>5, <1>6, <1>7, <1>10, LedgerDirect DEF CreatePayment

LEMMA WriteDirectLedger ==
    ASSUME TypeOK, LedgerInv, NEW t \in Thread, WriteDirect(t)
    PROVE  LedgerInv'
<1> DEFINE s == Head(agenda[t])
<1>1. /\ agenda[t] # <<>> /\ s.op = "write" /\ ~s.tx /\ s.on \subseteq Doc
      /\ s.to \in Change
  BY HeadType DEF WriteDirect
<1>2. /\ doc' = [d \in Doc |-> IF d \in s.on THEN Changed(doc[d], s.to)
                                             ELSE doc[d]]
      /\ \A u \in Thread : wrote[u] \cap s.on = {}
      /\ Overtake(Thread, s.on)
      /\ Then(t, <<>>)
      /\ UNCHANGED <<wrote, buf>>
  BY DEF WriteDirect
<1>3. UNCHANGED <<vouched, entered>> /\ UNCHANGED bank
  BY DEF WriteDirect, books, env
<1>4. StepInv(s)
  BY <1>1, HeadInv
<1>5. s.to.status \notin {"none", "paid"} /\ s.on \cap Payment = {}
  BY <1>1, <1>4 DEF StepInv, Sets
<1>6. Harmless(s)
  BY <1>1, <1>5 DEF Harmless, Sets
<1> HIDE DEF s
<1>7. ASSUME NEW d \in s.on
      PROVE  /\ doc'[d].items = doc[d].items
             /\ doc[d].status # "none" => doc'[d].status # "none"
             /\ doc'[d].status = "none" => doc[d].status = "none"
             /\ doc'[d].status = "paid" => doc[d].status = "paid"
  <2>1. doc[d] \in Document
    BY <1>1 DEF TypeOK
  <2>2. doc'[d] = Changed(doc[d], s.to)
    BY <1>1, <1>2
  <2> QED
    BY <1>1, <1>5, <2>1, <2>2 DEF Changed, Document, Change
<1>8. \A d \in Doc : d \notin s.on => doc'[d] = doc[d]
  BY <1>2
<1>9. Grows
  BY <1>3, <1>7, <1>8 DEF Grows
<1>10. \A u \in Thread : \A d \in wrote[u] : doc'[d] = doc[d]
  BY <1>2, <1>8 DEF TypeOK
<1>11. Shape(doc)'
  <2>1. \A d \in Doc : /\ doc'[d].items = doc[d].items
                       /\ doc'[d].status = "none" => doc[d].status = "none"
    BY <1>7, <1>8
  <2> QED
    BY <2>1, DocSets DEF LedgerInv, BooksInv, Shape
<1>12. BooksInv'
  <2>1. \A d \in Doc : doc'[d].status = "paid" => doc[d].status = "paid"
    BY <1>7, <1>8
  <2>2. \A p \in Payment : doc'[p] = doc[p]
    BY <1>5, <1>8, DocSets
  <2> QED
    BY <1>9, <1>11, <2>1, <2>2, DocSets, BooksKept DEF LedgerInv, Paid
<1> QED
  BY <1>1, <1>2, <1>6, <1>9, <1>10, <1>12, LedgerDirect DEF s

LEMMA InsertDirectLedger ==
    ASSUME TypeOK, LedgerInv, NEW t \in Thread, agenda[t] # <<>>,
           Head(agenda[t]).op = "insert", NEW v \in Invoice,
           doc[v].status = "none", \A u \in Thread : v \notin wrote[u],
           doc' = [doc EXCEPT ![v] = [Blank EXCEPT !.status = "active",
                                                   !.items = Head(agenda[t]).on]],
           Overtake(Thread, {v}), Then(t, <<>>),
           UNCHANGED <<wrote, buf, vouched, bank, entered>>
    PROVE  LedgerInv'
<1>1. Harmless(Head(agenda[t])) /\ Head(agenda[t]).on \subseteq Income
  BY HeadInv DEF Harmless, Sets, StepInv
<1>2. /\ doc'[v].status = "active" /\ doc'[v].items \subseteq Income
      /\ \A d \in Doc \ {v} : doc'[d] = doc[d]
  BY <1>1, DocSets DEF TypeOK, Blank
<1>3. Grows
  BY <1>2 DEF Grows
<1>4. \A u \in Thread : \A d \in wrote[u] : doc'[d] = doc[d]
  BY <1>2 DEF TypeOK
<1>5. Shape(doc)'
  BY <1>2, DocSets DEF LedgerInv, BooksInv, Shape
<1>6. BooksInv'
  <2>1. \A x \in Invoice : Paid(x)' => Paid(x)
    BY <1>2, DocSets DEF Paid
  <2>2. \A d \in Income \cup Payment : doc'[d] = doc[d]
    BY <1>2, DocSets, BillingAssumption
  <2> QED
    BY <1>3, <1>5, <2>1, <2>2, BooksKept DEF LedgerInv
<1> QED
  BY <1>1, <1>3, <1>4, <1>6, LedgerDirect

LEMMA InsertInTransactionLedger ==
    ASSUME TypeOK, LedgerInv, NEW t \in Thread, agenda[t] # <<>>,
           Head(agenda[t]).op = "insert", NEW v \in Invoice,
           doc[v].status = "none", \A u \in Thread : v \notin wrote[u],
           buf' = [buf EXCEPT ![t][v] = [Blank EXCEPT !.status = "active",
                                                      !.items = Head(agenda[t]).on]],
           wrote' = [wrote EXCEPT ![t] = @ \cup {v}], Then(t, <<>>),
           UNCHANGED <<doc, stale, vouched, bank, entered>>
    PROVE  LedgerInv'
<1> DEFINE h == Head(agenda[t])
<1>1. h.on \subseteq Income /\ ~Clean(h)
  BY HeadInv DEF Clean, StepInv
<1>2. ~Settling(t) /\ RequestInv(t) /\ Shape(doc)
  BY <1>1, HeadInv
<1>3. /\ buf'[t][v].status = "active" /\ buf'[t][v].items = h.on
      /\ \A d \in Doc \ {v} : buf'[t][d] = buf[t][d]
      /\ \A u \in Thread \ {t} : buf'[u] = buf[u]
  BY DocSets DEF TypeOK, Blank
<1>4. /\ wrote'[t] = wrote[t] \cup {v}
      /\ \A u \in Thread \ {t} : wrote'[u] = wrote[u]
  BY DEF TypeOK
<1>5. /\ Steps(t) = {h} \cup Rest(t) /\ Steps(t)' = Rest(t)
      /\ \A u \in Thread \ {t} : agenda'[u] = agenda[u]
  <2>1. /\ Steps(t) = {h} \cup Rest(t) /\ Steps(t)' = Elems(<<>>) \cup Rest(t)
        /\ \A u \in Thread \ {t} : agenda'[u] = agenda[u]
    BY EmptyPush, PushSteps
  <2> QED
    BY <2>1, ElemsShort
<1> HIDE DEF h
<1>6. Grows
  BY DEF Grows
<1>7. \A u \in Thread \ {t} : Holds(u)
  BY <1>3, <1>4 DEF Holds
<1>8. Isolation'
  BY <1>4 DEF LedgerInv, Isolation
<1>9. BooksInv'
  BY <1>6, BooksKept DEF LedgerInv, BooksInv, Paid, Shape
<1>10. v \notin Payment /\ v \in Doc
  BY BillingAssumption, DocSets
<1>11. BufInv(t)'
  <2>1. Shape(buf[t])'
    BY <1>1, <1>2, <1>3, DocSets DEF RequestInv, BufInv, Shape
  <2>2. \A d \in wrote'[t] : doc'[d].status # "none" =>
          buf'[t][d].status # "none" /\ buf'[t][d].items = doc'[d].items
    BY <1>2, <1>3, <1>4 DEF RequestInv, BufInv, TypeOK
  <2>3. \A p \in Payment \cap wrote'[t] :
          /\ p \in wrote[t] /\ buf'[t][p] = buf[t][p]
    BY <1>3, <1>4, <1>10, DocSets
  <2> QED
    BY <1>2, <2>1, <2>2, <2>3 DEF RequestInv, BufInv
<1>12. ~Settling(t)'
  <2>1. \A p \in Payment \cap wrote'[t] : buf'[t][p].status # "completed"
    BY <1>2, <1>3, <1>4, <1>10, DocSets DEF Settling
  <2>2. \A x \in Invoice : ~NewlyPaid(t, x)'
    BY <1>2, <1>3, <1>4, <1>10, DocSets DEF Settling, NewlyPaid
  <2> QED
    BY <1>2, <1>5, <2>1, <2>2 DEF Settling, Sets
<1>13. AgendaInv(t)'
  <2>1. \A s \in Steps(t)' : StepInv(s)'
    BY <1>2, <1>5, <1>6, StepsType, StepKept DEF RequestInv, AgendaInv
  <2>2. \A s \in Steps(t)' : ~Alone(s)
    BY <1>2, <1>5, AloneOnAgenda
  <2> QED
    BY <1>12, <2>1, <2>2 DEF AgendaInv
<1>14. VoucherInv(t)'
  <2>1. \A d \in Doc : Pays(t, d)' => Pays(t, d)
    BY <1>3, <1>4, <1>5 DEF Pays, Sets
  <2>2. Owes(t) \subseteq Owes(t)'
    <3>1. h.op # "voucher" /\ h.op # "settle"
      BY DEF h
    <3> QED
      BY <1>5, <3>1 DEF Owes, Batch
  <2> QED
    BY <1>2, <2>1, <2>2, DocSets DEF RequestInv, VoucherInv
<1>15. TogetherInv(t)'
  BY <1>12 DEF Settling, TogetherInv
<1>16. RequestInv(t)'
  BY <1>11, <1>13, <1>14, <1>15 DEF RequestInv
<1> QED
  BY <1>5, <1>6, <1>7, <1>8, <1>9, <1>16, LedgerStep

LEMMA InsertLedger ==
    ASSUME TypeOK, LedgerInv, NEW t \in Thread, Insert(t)
    PROVE  LedgerInv'
<1>1. agenda[t] # <<>> /\ Head(agenda[t]).op = "insert"
  BY HeadType DEF Insert
<1>2. UNCHANGED <<books, bank, entered>> /\ UNCHANGED <<vouched, entered>>
  BY DEF Insert, books, env
<1> DEFINE new == [Blank EXCEPT !.status = "active", !.items = Head(agenda[t]).on]
<1>3. PICK v \in Invoice :
        /\ doc[v].status = "none"
        /\ \A u \in Thread : v \notin wrote[u]
        /\ \/ /\ buf' = [buf EXCEPT ![t][v] = new]
              /\ wrote' = [wrote EXCEPT ![t] = @ \cup {v}]
              /\ Then(t, <<>>)
              /\ UNCHANGED <<doc, stale>>
           \/ Abort(t)
           \/ /\ doc' = [doc EXCEPT ![v] = new]
              /\ Overtake(Thread, {v})
              /\ Then(t, <<>>)
              /\ UNCHANGED <<wrote, buf>>
  BY DEF Insert
<1> QED
  BY <1>1, <1>2, <1>3, LedgerAbort, InsertInTransactionLedger, InsertDirectLedger

-----------------------------------------------------------------------------
(* The steps of a settlement.                                              *)

LEMMA LedgerSettle ==
    ASSUME TypeOK, LedgerInv, NEW t \in Thread, agenda[t] # <<>>,
           UNCHANGED <<doc, txn>>, Grows, NEW new \in Seq(Step), Then(t, new),
           Settling(t)' => Settling(t),
           Fit(Elems(new)), \A s \in Elems(new) : Clean(s),
           Carries(t), Covered(t, Elems(new))
    PROVE  LedgerInv'
<1> DEFINE H == {Head(agenda[t])}
           R == Rest(t)
           E == Elems(new)
<1>1. /\ Steps(t) = H \cup R /\ Steps(t)' = E \cup R
      /\ \A u \in Thread \ {t} : agenda'[u] = agenda[u]
  BY PushSteps
<1>2. \A s \in R : Alone(s) => agenda'[t] = <<s>> /\ wrote[t] = {}
  BY AloneOnAgenda, HeadInv
<1>3. Fit(E) /\ \A s \in E : ~Alone(s)
  BY DEF Clean, Alone
<1>4. E \subseteq Step
  BY DEF Elems
<1>5. RequestInv(t) /\ Shape(doc)
  BY HeadInv
<1>6. Settling(t)' => \A s \in Steps(t)' : Clean(s)
  BY <1>1, <1>5 DEF RequestInv, AgendaInv
<1>7. Covered(t, E)
  OBVIOUS
<1> HIDE DEF H, R, E
<1>8. ASSUME Holds(t) PROVE RequestInv(t)'
  BY <1>1, <1>2, <1>3, <1>4, <1>5, <1>6, <1>7, <1>8, RequestKept
<1> QED
  BY <1>1, <1>8, LedgerPush

\* What a step that is no write, no voucher and no settlement leaves behind.
LEMMA BehindHead ==
    ASSUME TypeOK, NEW t \in Thread, agenda[t] # <<>>, UNCHANGED txn,
           NEW new \in Seq(Step), Then(t, new)
    PROVE  /\ Head(agenda[t]).op # "write" =>
                \A d \in Doc : Pays(t, d) => Pays(t, d)'
           /\ Head(agenda[t]).op \notin {"voucher", "settle"} => Owes(t) \subseteq Owes(t)'
<1> DEFINE h == Head(agenda[t])
<1>1. Steps(t) = {h} \cup Rest(t) /\ Steps(t)' = Elems(new) \cup Rest(t)
  BY PushSteps
<1> HIDE DEF h
<1>2. ASSUME h.op # "write", NEW d \in Doc, Pays(t, d) PROVE Pays(t, d)'
  BY <1>1, <1>2 DEF Pays, Sets, txn
<1>3. ASSUME h.op \notin {"voucher", "settle"}, NEW v \in Owes(t) PROVE v \in Owes(t)'
  BY <1>1, <1>3 DEF Owes, Batch
<1> QED
  BY <1>2, <1>3 DEF h

LEMMA MakeInvoicePaidLedger ==
    ASSUME TypeOK, LedgerInv, NEW t \in Thread, MakeInvoicePaid(t)
    PROVE  LedgerInv'
<1> DEFINE h    == Head(agenda[t])
           V    == h.on \cap Invoice
           seen == [v \in Invoice |-> IF v \in V THEN doc[v] ELSE Blank]
           s    == [Do("settle", V, TRUE) EXCEPT !.seen = seen]
           new  == <<s>>
<1>1. agenda[t] # <<>> /\ h.op = "makeInvoicePaid"
  BY HeadType DEF MakeInvoicePaid
<1>2. Then(t, new) /\ UNCHANGED <<doc, txn>> /\ UNCHANGED <<vouched, entered>> /\ UNCHANGED bank
  BY DEF MakeInvoicePaid, books, env
<1>3. s.op = "settle" /\ s.on = V /\ s.seen = seen
  BY DEF Do
<1>4. s \in Step
  <2>1. seen \in [Invoice -> Document]
    BY BlankType, DocSets DEF TypeOK
  <2>2. Do("settle", V, TRUE) \in Step
    BY DoType, DocSets DEF StepOp
  <2> HIDE DEF seen
  <2> QED
    BY <2>1, <2>2 DEF Step
<1>5. StepInv(s) /\ Clean(s) /\ ~Sets(s, "paid") /\ ~Sets(s, "completed")
  <2>1. \A v \in Batch(s) : doc[v].status # "none" /\ s.seen[v].items = doc[v].items
    BY <1>3 DEF Batch, Blank
  <2> HIDE DEF s
  <2> QED
    BY <1>3, <2>1 DEF StepInv, Clean, Sets
<1>6. new \in Seq(Step) /\ Elems(new) = {s}
  BY <1>4, Agendas, ElemsShort
<1> HIDE DEF s, new
<1>7. Steps(t) = {h} \cup Rest(t) /\ Steps(t)' = {s} \cup Rest(t)
  BY <1>1, <1>2, <1>6, PushSteps
<1>8. Settling(t)
  BY <1>1, <1>7 DEF Settling
<1>9. /\ \A d \in Doc : Pays(t, d) => Pays(t, d)'
      /\ Owes(t) \subseteq Owes(t)'
  BY <1>1, <1>2, <1>6, BehindHead
<1>10. ASSUME NEW v \in Invoice, Settles(t, v) PROVE Settles(t, v)'
  <2>1. CASE Pays(t, v)
    BY <1>9, <2>1, DocSets DEF Settles
  <2>2. CASE \E x \in Steps(t) : x.op \in {"makeInvoicePaid", "settle"} /\ v \in x.on
    BY <1>3, <1>7, <2>2 DEF Settles
  <2> QED
    BY <1>10, <2>1, <2>2 DEF Settles
<1>11. Grows
  BY <1>2, GrowsStill
<1> QED
  <2>1. Carries(t) /\ Covered(t, Elems(new)) /\ Fit(Elems(new))
    BY <1>5, <1>6, <1>9, <1>10 DEF Carries, Covered, Fit
  <2> QED
    BY <1>1, <1>2, <1>5, <1>6, <1>8, <1>11, <2>1, LedgerSettle

LEMMA SettleRestLedger ==
    ASSUME TypeOK, LedgerInv, NEW t \in Thread, SettleRest(t)
    PROVE  LedgerInv'
<1> DEFINE h == Head(agenda[t])
           B == Batch(h)
           a == Do("voucher", B, TRUE)
           b == Write(B, Touch, TRUE)
           new == <<a, b>>
<1>1. agenda[t] # <<>> /\ h.op = "settle" /\ h.on = {}
  BY HeadType DEF SettleRest
<1>2. Then(t, new) /\ UNCHANGED <<doc, txn>> /\ UNCHANGED <<vouched, entered>> /\ UNCHANGED bank
  BY DEF SettleRest, Vouching, books, env
<1>3. B \subseteq Invoice /\ B \in SUBSET Doc /\ B \cap Payment = {}
  BY DocSets, BillingAssumption DEF Batch
<1>4. a.op = "voucher" /\ a.on = B
  BY DEF Do
<1>5. a \in Step /\ b \in Step
  BY <1>3, DoType, WriteType DEF StepOp
<1>6. new \in Seq(Step) /\ Elems(new) = {a, b}
  BY <1>5, Agendas, ElemsShort
<1>7. StepInv(b) /\ Plain(b) /\ Clean(b)
  BY <1>3, PlainWrites
<1> HIDE DEF a, b, B, new
<1>8. StepInv(a) /\ Clean(a) /\ ~Sets(a, "paid") /\ ~Sets(a, "completed")
  BY <1>4 DEF StepInv, Clean, Sets
<1>9. ~Sets(b, "paid") /\ ~Sets(b, "completed")
  BY <1>7 DEF Plain, Harmless
<1>10. Steps(t) = {h} \cup Rest(t) /\ Steps(t)' = {a, b} \cup Rest(t)
  BY <1>1, <1>2, <1>6, PushSteps
<1>11. Settling(t)
  BY <1>1, <1>10 DEF Settling
<1>12. \A d \in Doc : Pays(t, d) => Pays(t, d)'
  BY <1>1, <1>2, <1>6, BehindHead
<1>13. ASSUME NEW v \in Owes(t) PROVE v \in Owes(t)'
  <2>1. PICK s \in Steps(t) : \/ s.op = "voucher" /\ v \in s.on
                              \/ s.op = "settle" /\ v \in Batch(s)
    BY DEF Owes
  <2>2. v \in Invoice
    BY DEF Owes
  <2>3. CASE s = h
    BY <1>1, <1>4, <1>10, <2>1, <2>2, <2>3 DEF Owes, B
  <2>4. CASE s \in Rest(t)
    BY <1>10, <2>1, <2>2, <2>4 DEF Owes, Batch
  <2> QED
    BY <1>10, <2>3, <2>4
<1>14. ASSUME NEW v \in Invoice, Settles(t, v) PROVE Settles(t, v)'
  BY <1>1, <1>10, <1>12, <1>14, DocSets DEF Settles
<1>15. Grows
  BY <1>2, GrowsStill
<1> QED
  <2>1. Carries(t) /\ Covered(t, Elems(new)) /\ Fit(Elems(new))
    BY <1>6, <1>7, <1>8, <1>9, <1>12, <1>13, <1>14 DEF Carries, Covered, Fit
  <2> QED
    BY <1>1, <1>2, <1>6, <1>7, <1>8, <1>11, <1>15, <2>1, LedgerSettle

LEMMA VoucherLedger ==
    ASSUME TypeOK, LedgerInv, NEW t \in Thread, Voucher(t)
    PROVE  LedgerInv'
<1> DEFINE h == Head(agenda[t])
<1>1. agenda[t] # <<>> /\ h.op = "voucher"
  BY HeadType DEF Voucher
<1>2. /\ vouched' = vouched \cup (h.on \cap Invoice)
      /\ Then(t, <<>>) /\ UNCHANGED <<doc, txn>> /\ UNCHANGED <<bank, entered>>
  BY DEF Voucher, env
<1> HIDE DEF h
<1>3. Steps(t) = {h} \cup Rest(t) /\ Steps(t)' = Rest(t)
  <2>1. Steps(t) = {h} \cup Rest(t) /\ Steps(t)' = Elems(<<>>) \cup Rest(t)
    BY <1>1, <1>2, EmptyPush, PushSteps DEF h
  <2> QED
    BY <2>1, ElemsShort
<1>4. Settling(t)' => Settling(t)
  BY <1>2, <1>3 DEF Settling, NewlyPaid, Sets, txn
<1>5. \A d \in Doc : Pays(t, d) => Pays(t, d)'
  BY <1>1, <1>2, EmptyPush, BehindHead DEF h
<1>6. ASSUME NEW v \in Owes(t) PROVE v \in vouched' \cup Owes(t)'
  <2>1. PICK s \in Steps(t) : \/ s.op = "voucher" /\ v \in s.on
                              \/ s.op = "settle" /\ v \in Batch(s)
    BY DEF Owes
  <2>2. v \in Invoice
    BY DEF Owes
  <2>3. CASE s = h
    BY <1>1, <1>2, <2>1, <2>2, <2>3
  <2>4. CASE s \in Rest(t)
    BY <1>3, <2>1, <2>2, <2>4 DEF Owes, Batch
  <2> QED
    BY <1>3, <2>3, <2>4
<1>7. ASSUME NEW v \in Invoice, Settles(t, v) PROVE Settles(t, v)'
  BY <1>1, <1>3, <1>5, <1>7, DocSets DEF Settles
<1>8. Grows
  BY <1>2 DEF Grows
<1>9. agenda[t] # <<>>
  BY <1>1
<1>10. <<>> \in Seq(Step) /\ Elems(<<>>) = {}
  BY Agendas, ElemsShort
<1> QED
  <2>1. Carries(t) /\ Covered(t, Elems(<<>>)) /\ Fit(Elems(<<>>))
    BY <1>5, <1>6, <1>7, <1>10 DEF Carries, Covered, Fit
  <2> QED
    BY <1>2, <1>4, <1>8, <1>9, <1>10, <2>1, LedgerSettle

\* The bank takes the money for good; the payment is to be completed and its
\* invoice settled.
LEMMA ConfirmPaymentLedger ==
    ASSUME TypeOK, LedgerInv, NEW t \in Thread, ConfirmPayment(t)
    PROVE  LedgerInv'
<1> DEFINE h == Head(agenda[t])
<1>1. agenda[t] # <<>> /\ h.op = "confirm"
  BY HeadType DEF ConfirmPayment
<1>2. UNCHANGED books /\ UNCHANGED <<vouched, entered>>
  BY DEF ConfirmPayment, books
<1>3. PICK p \in h.on \cap Payment :
         \/ /\ bank[p] \in {"charged", "confirmed"}
            /\ bank' = [bank EXCEPT ![p] = "confirmed"]
            /\ Then(t, Completion(p))
            /\ UNCHANGED <<doc, txn>>
         \/ /\ Abort(t)
            /\ UNCHANGED bank
  BY DEF ConfirmPayment
<1>4. CASE Abort(t) /\ UNCHANGED bank
  BY <1>2, <1>4, LedgerAbort
<1>5. CASE /\ bank[p] \in {"charged", "confirmed"}
           /\ bank' = [bank EXCEPT ![p] = "confirmed"]
           /\ Then(t, Completion(p))
           /\ UNCHANGED <<doc, txn>>
  <2> DEFINE a == Write({p}, Becomes("completed"), TRUE)
             b == Do("makeInvoicePaid", InvoiceOf(p), TRUE)
             new == <<a, b>>
  <2>1. Then(t, new)
    BY <1>5 DEF Completion
  <2>2. /\ a.op = "write" /\ a.on = {p} /\ a.tx = TRUE
        /\ a.to.status = "completed"
        /\ b.op = "makeInvoicePaid" /\ b.on = doc[p].items
    BY PlainChanges DEF Write, Do, InvoiceOf
  <2>3. a \in Step /\ b \in Step
    <3>1. InvoiceOf(p) \in SUBSET Doc
      BY DocItems, DocSets DEF InvoiceOf
    <3> QED
      BY <3>1, WriteType, DoType, DocSets DEF Status, StepOp, Request
  <2>4. new \in Seq(Step) /\ Elems(new) = {a, b}
    BY <2>3, Agendas, ElemsShort
  <2> HIDE DEF h, a, b, new
  <2>5. Steps(t) = {h} \cup Rest(t) /\ Steps(t)' = {a, b} \cup Rest(t)
    BY <1>1, <2>1, <2>4, PushSteps DEF h
  <2>6. Settling(t)
    BY <1>1, <2>5 DEF Settling
  <2>7. /\ bank'[p] = "confirmed"
        /\ \A x \in Payment : bank[x] \in {"closed", "confirmed"} => bank'[x] = bank[x]
    BY <1>5 DEF TypeOK
  <2>8. Grows
    BY <1>2, <1>5, <2>7, GrowsStill
  <2>9. doc[p].status # "none"
    BY <1>1, HeadInv DEF StepInv, h
  <2>10. ASSUME NEW s \in Elems(new) PROVE StepInv(s)'
    <3>1. CASE s = a
      <4>1. doc'[p].status # "none"
        BY <1>5, <2>9
      <4> QED
        BY <2>2, <2>7, <3>1, <4>1 DEF StepInv, Sets
    <3>2. CASE s = b
      <4>1. s.op = "makeInvoicePaid"
        BY <2>2, <3>2
      <4> QED
        BY <4>1 DEF StepInv, Sets
    <3> QED
      BY <2>4, <3>1, <3>2
  <2>12. Fit(Elems(new))
    BY <1>5, <2>10 DEF Fit
  <2>13. \A s \in Elems(new) : Clean(s)
    BY <2>2, <2>4 DEF Clean
  <2>14. /\ \A d \in Doc : Pays(t, d) => Pays(t, d)'
         /\ Owes(t) \subseteq Owes(t)'
    BY <1>1, <1>5, <2>1, <2>4, BehindHead DEF h
  <2>15. ASSUME NEW v \in Invoice, Settles(t, v) PROVE Settles(t, v)'
    BY <1>1, <2>5, <2>14, <2>15, DocSets DEF Settles
  <2>16. \A v \in Invoice \cap doc[p].items : Settles(t, v)'
    BY <2>2, <2>5 DEF Settles
  <2>17. Covered(t, Elems(new))
    <3>1. ~Sets(a, "paid") /\ ~Sets(b, "paid") /\ ~Sets(b, "completed")
      BY <2>2 DEF Sets
    <3> QED
      BY <2>2, <2>4, <2>16, <3>1 DEF Covered
  <2>18. Carries(t)
    BY <2>14, <2>15 DEF Carries
  <2>19. agenda[t] # <<>>
    BY <1>1
  <2> QED
    BY <1>5, <2>1, <2>4, <2>6, <2>8, <2>12, <2>13, <2>17, <2>18, <2>19, LedgerSettle
<1> QED
  BY <1>3, <1>4, <1>5

\* One round: the invoice is paid with the incomes it was read with.
LEMMA SettleNextLedger ==
    ASSUME TypeOK, LedgerInv, NEW t \in Thread, SettleNext(t)
    PROVE  LedgerInv'
<1> DEFINE h == Head(agenda[t])
<1>1. /\ agenda[t] # <<>> /\ h.op = "settle" /\ h \in Step
      /\ h.seen \in [Invoice -> Document] /\ h.on \in SUBSET Doc
  BY HeadType DEF SettleNext
<1>2. UNCHANGED <<books, bank, entered>> /\ UNCHANGED <<vouched, entered>>
  BY DEF SettleNext, books, env
<1>3. PICK v \in Invoice :
        LET ok == /\ ~Locked(h.seen[v])
                  /\ h.seen[v].status \in {"active", "issued", "pending"} IN
        Guarded(t, ok, EnsureIssued(v, h.seen[v]) \o MarkPaid(v, h.seen[v])
                       \o <<[h EXCEPT !.on = @ \ {v}]>>)
  BY DEF SettleNext
<1> DEFINE ok == /\ ~Locked(h.seen[v])
                 /\ h.seen[v].status \in {"active", "issued", "pending"}
           e == EnsureIssued(v, h.seen[v])
           m == MarkPaid(v, h.seen[v])
           g == [h EXCEPT !.on = @ \ {v}]
           r == <<g>>
<1>4. Guarded(t, ok, e \o m \o r)
  BY <1>3
<1>5. CASE ~ok
  BY <1>2, <1>4, <1>5, LedgerAbort DEF Guarded
<1>6. CASE ok
  <2> DEFINE a == Do("issue", {v}, FALSE)
             b == Write({v}, Numbered, FALSE)
             c == Write(h.seen[v].items, Becomes("paid"), TRUE)
             d == Write({v}, Becomes("paid"), TRUE)
             new == e \o m \o r
  <2>1. Then(t, new) /\ UNCHANGED <<doc, txn>>
    BY <1>4, <1>6 DEF Guarded
  <2>2. StepInv(h) /\ Shape(doc)
    BY <1>1, HeadInv
  <2>3. /\ v \in Batch(h) /\ doc[v].status # "none"
        /\ h.seen[v].items = doc[v].items
    BY <1>1, <1>6, <2>2 DEF Batch, StepInv
  <2>4. /\ {v} \cap Payment = {} /\ doc[v].items \cap Payment = {}
        /\ doc[v].items \cap Invoice = {} /\ doc[v].items \subseteq Income
    BY <2>2, NoPayments
  <2>5. /\ c.op = "write" /\ c.on = doc[v].items /\ c.tx = TRUE /\ c.to.status = "paid"
        /\ d.op = "write" /\ d.on = {v} /\ d.tx = TRUE /\ d.to.status = "paid"
    BY <2>3, PlainChanges DEF Write, Do
  <2>6. g.op = "settle" /\ g.seen = h.seen /\ g.on = h.on \ {v} /\ g \in Step
    BY <1>1 DEF Step
  <2>7. a \in Step /\ b \in Step /\ c \in Step /\ d \in Step
    <3>1. a \in Step
      BY DoType, DocSets DEF StepOp, Request
    <3>2. b \in Step /\ d \in Step
      BY WriteType, DocSets DEF Status
    <3>3. doc[v].items \in SUBSET Doc
      BY DocItems, DocSets
    <3>4. c \in Step
      BY <2>3, <3>3, WriteType DEF Status
    <3> QED
      BY <3>1, <3>2, <3>4
  <2>8. StepInv(a) /\ Plain(a) /\ Clean(a)
    BY PlainDo DEF StepOp, Request
  <2>9. StepInv(b) /\ Plain(b) /\ Clean(b)
    BY <2>4, PlainWrites
  <2>10. e \in Seq(Step) /\ Elems(e) \subseteq {a, b}
    <3>1. e = <<>> \/ e = <<a, b>>
      BY DEF EnsureIssued
    <3> HIDE DEF e, a, b
    <3>2. CASE e = <<>>
      BY <3>2, Agendas, ElemsShort
    <3>3. CASE e = <<a, b>>
      BY <2>7, <3>3, Agendas, ElemsShort
    <3> QED
      BY <3>1, <3>2, <3>3
  <2>11. m \in Seq(Step) /\ Elems(m) = {c, d}
    <3>1. m = <<c, d>>
      BY DEF MarkPaid
    <3> HIDE DEF m, c, d
    <3> QED
      BY <2>7, <3>1, Agendas, ElemsShort
  <2>12. r \in Seq(Step) /\ Elems(r) = {g}
    BY <2>6, Agendas, ElemsShort
  <2> HIDE DEF h, a, b, c, d, e, m, g, r
  <2>13. e \o m \in Seq(Step) /\ Elems(e \o m) = Elems(e) \cup {c, d}
    BY <2>10, <2>11, StepsConcat
  <2>14. new \in Seq(Step) /\ Elems(new) = Elems(e) \cup {c, d} \cup {g}
    BY <2>12, <2>13, StepsConcat
  <2> HIDE DEF new
  <2>15. Steps(t) = {h} \cup Rest(t) /\ Steps(t)' = Elems(new) \cup Rest(t)
    BY <1>1, <2>1, <2>14, PushSteps DEF h
  <2>16. c \in Steps(t)' /\ d \in Steps(t)' /\ g \in Steps(t)'
    BY <2>14, <2>15
  <2>17. Settling(t)
    BY <1>1, <2>15 DEF Settling
  <2>18. Grows
    BY <1>2, <2>1, GrowsStill
  <2>19. StepInv(c) /\ Clean(c) /\ ~Sets(c, "completed")
    BY <2>4, <2>5 DEF StepInv, Clean, Sets
  <2>20. StepInv(d) /\ Clean(d) /\ ~Sets(d, "completed")
    BY <2>3, <2>4, <2>5 DEF StepInv, Clean, Sets
  <2>21. StepInv(g) /\ Clean(g) /\ ~Sets(g, "completed") /\ ~Sets(g, "paid")
    BY <1>1, <2>2, <2>6 DEF StepInv, Clean, Sets, Batch
  <2>22. Fit(Elems(new)) /\ \A s \in Elems(new) : Clean(s)
    BY <2>8, <2>9, <2>10, <2>14, <2>19, <2>20, <2>21 DEF Fit
  <2>23. \A x \in Doc : Pays(t, x) => Pays(t, x)'
    BY <1>1, <2>1, <2>14, BehindHead DEF h
  <2>24. ASSUME NEW x \in Owes(t) PROVE x \in Owes(t)'
    <3>1. PICK s \in Steps(t) : \/ s.op = "voucher" /\ x \in s.on
                                \/ s.op = "settle" /\ x \in Batch(s)
      BY DEF Owes
    <3>2. x \in Invoice
      BY DEF Owes
    <3>3. CASE s = h
      <4>1. x \in Batch(g)
        BY <1>1, <2>6, <3>1, <3>3 DEF Batch
      <4> QED
        BY <2>6, <2>16, <3>2, <4>1 DEF Owes, Batch
    <3>4. CASE s \in Rest(t)
      BY <2>15, <3>1, <3>2, <3>4 DEF Owes, Batch
    <3> QED
      BY <2>15, <3>3, <3>4
  <2>25. ASSUME NEW x \in Doc, x = v \/ x \in doc[v].items PROVE Pays(t, x)'
    BY <2>5, <2>16, <2>25 DEF Pays, Sets
  <2>26. ASSUME NEW x \in Invoice, Settles(t, x) PROVE Settles(t, x)'
    <3>1. CASE Pays(t, x)
      BY <2>23, <3>1, DocSets DEF Settles
    <3>2. CASE x = v
      BY <2>25, <3>2, DocSets DEF Settles
    <3>3. ASSUME x # v, NEW s \in Steps(t),
                 s.op \in {"makeInvoicePaid", "settle"}, x \in s.on
          PROVE  Settles(t, x)'
      <4>1. CASE s = h
        BY <2>6, <2>16, <3>3, <4>1 DEF Settles
      <4>2. CASE s \in Rest(t)
        BY <2>15, <3>3, <4>2 DEF Settles
      <4> QED
        BY <2>15, <4>1, <4>2
    <3> QED
      BY <2>26, <3>1, <3>2, <3>3 DEF Settles
  <2>27. Carries(t)
    BY <2>23, <2>24, <2>26 DEF Carries
  <2>28. v \in Owes(t)'
    <3>1. v \in Batch(g)
      BY <2>3, <2>6 DEF Batch
    <3> QED
      BY <2>6, <2>16, <3>1 DEF Owes, Batch
  <2>29. \A i \in doc[v].items : Pays(t, i)'
    BY <2>4, <2>25, DocSets
  <2>30. /\ \A s \in Elems(e) : ~Sets(s, "paid") /\ ~Sets(s, "completed")
         /\ c.on \cap Invoice = {} /\ d.on \cap Income = {}
    BY <2>4, <2>5, <2>8, <2>9, <2>10, BillingAssumption DEF Plain, Harmless
  <2>31. ASSUME NEW s \in Elems(new), Sets(s, "paid") PROVE s = c \/ s = d
    BY <2>14, <2>21, <2>30, <2>31
  <2>32. Covered(t, Elems(new))
    <3>1. \A s \in Elems(new) : ~Sets(s, "completed")
      BY <2>14, <2>19, <2>20, <2>21, <2>30
    <3> QED
      BY <2>5, <2>28, <2>29, <2>30, <2>31, <3>1 DEF Covered
  <2>33. agenda[t] # <<>>
    BY <1>1
  <2> QED
    BY <2>1, <2>14, <2>17, <2>18, <2>22, <2>27, <2>32, <2>33, LedgerSettle
<1> QED
  BY <1>5, <1>6

-----------------------------------------------------------------------------
(* Transactions.                                                           *)

(***************************************************************************)
(* A write joins the transaction.  In a request that settles it is Clean:  *)
(* what was to be paid is now written as paid, nothing else loses it.      *)
(***************************************************************************)
LEMMA WriteInTransactionLedger ==
    ASSUME TypeOK, LedgerInv, NEW t \in Thread, WriteInTransaction(t)
    PROVE  LedgerInv'
<1> DEFINE s == Head(agenda[t])
           D == s.on
           c == s.to
<1>1. /\ agenda[t] # <<>> /\ s.op = "write" /\ s.tx
      /\ D \subseteq Doc /\ c \in Change
  BY HeadType DEF WriteInTransaction
<1>2. /\ ~Conflict(t, D)
      /\ buf' = [buf EXCEPT ![t] =
                   [d \in Doc |-> IF d \in D THEN Changed(View(t, d), c)
                                  ELSE buf[t][d]]]
      /\ wrote' = [wrote EXCEPT ![t] = @ \cup D]
      /\ Then(t, <<>>)
      /\ UNCHANGED <<doc, stale, vouched, bank, entered>>
  BY DEF WriteInTransaction, books, env
<1>3. StepInv(s) /\ Shape(doc) /\ RequestInv(t) /\ (Settling(t) => Clean(s))
      /\ s \in Steps(t)
  BY <1>1, HeadInv
<1>4. /\ Steps(t) = {s} \cup Rest(t) /\ Steps(t)' = Rest(t)
      /\ \A u \in Thread \ {t} : agenda'[u] = agenda[u]
  <2>1. /\ Steps(t) = {s} \cup Rest(t) /\ Steps(t)' = Elems(<<>>) \cup Rest(t)
        /\ \A u \in Thread \ {t} : agenda'[u] = agenda[u]
    BY <1>1, <1>2, EmptyPush, PushSteps
  <2> QED
    BY <2>1, ElemsShort
<1>5. \A x \in Rest(t) : ~Alone(x)
  BY <1>1, <1>3, AloneOnAgenda
<1> HIDE DEF s
<1>6. /\ \A d \in D : buf'[t][d] = Changed(View(t, d), c)
      /\ \A d \in Doc \ D : buf'[t][d] = buf[t][d]
      /\ \A u \in Thread \ {t} : buf'[u] = buf[u] /\ wrote'[u] = wrote[u]
      /\ wrote'[t] = wrote[t] \cup D
  BY <1>1, <1>2 DEF TypeOK
<1>7. c.status # "none"
  BY <1>1, <1>3 DEF StepInv
<1>8. ASSUME NEW d \in D
      PROVE  /\ buf'[t][d].items = View(t, d).items
             /\ c.status = "keep" => buf'[t][d].status = View(t, d).status
             /\ c.status # "keep" => buf'[t][d].status = c.status
  <2>1. View(t, d) \in Document
    BY <1>1, ViewType
  <2> QED
    BY <1>1, <1>6, <2>1 DEF Changed, Document, Change
<1>9. /\ \A d \in Doc : d \in wrote[t] => View(t, d) = buf[t][d]
      /\ \A d \in Doc : d \notin wrote[t] => View(t, d) = doc[d]
  BY DEF View
<1>10. BufInv(t) /\ AgendaInv(t) /\ VoucherInv(t) /\ TogetherInv(t)
  BY <1>3 DEF RequestInv
<1>11. Shape(buf[t])'
  <2>1. ASSUME NEW d \in Doc, buf'[t][d].status = "none" PROVE buf'[t][d].items = {}
    BY <1>1, <1>3, <1>6, <1>7, <1>8, <1>9, <1>10, <2>1 DEF BufInv, Shape
  <2>2. ASSUME NEW v \in Invoice PROVE buf'[t][v].items \subseteq Income
    BY <1>3, <1>6, <1>8, <1>9, <1>10, DocSets DEF BufInv, Shape
  <2> QED
    BY <2>1, <2>2 DEF Shape
<1>12. ASSUME NEW d \in wrote'[t], doc[d].status # "none"
       PROVE  buf'[t][d].status # "none" /\ buf'[t][d].items = doc[d].items
  <2>1. View(t, d).status # "none" /\ View(t, d).items = doc[d].items
    BY <1>1, <1>6, <1>9, <1>10, <1>12 DEF BufInv, TypeOK
  <2>2. CASE d \in D
    BY <1>7, <1>8, <2>1, <2>2
  <2>3. CASE d \notin D
    BY <1>6, <1>10, <1>12, <2>3 DEF BufInv, TypeOK
  <2> QED
    BY <2>2, <2>3
<1>13. ASSUME NEW p \in Payment \cap wrote'[t]
       PROVE  /\ doc[p].status # "none"
              /\ \/ buf'[t][p].status = "canceled" /\ bank[p] = "closed"
                 \/ buf'[t][p].status = "completed" /\ bank[p] = "confirmed"
  <2>1. CASE p \in D
    <3>1. /\ doc[p].status # "none"
          /\ \/ c.status = "canceled" /\ bank[p] = "closed"
             \/ c.status = "completed" /\ bank[p] = "confirmed"
      BY <1>1, <1>3, <2>1 DEF StepInv
    <3> QED
      BY <1>8, <2>1, <3>1
  <2>2. CASE p \notin D
    BY <1>6, <1>10, <1>13, <2>2, DocSets DEF BufInv
  <2> QED
    BY <2>1, <2>2
<1>14. BufInv(t)'
  BY <1>2, <1>11, <1>12, <1>13 DEF BufInv
<1>15. ASSUME NEW v \in Invoice, NewlyPaid(t, v)'
       PROVE  \/ NewlyPaid(t, v) /\ buf'[t][v].items = buf[t][v].items
              \/ Sets(s, "paid") /\ v \in D
  <2>1. v \in wrote'[t] /\ buf'[t][v].status = "paid" /\ doc[v].status # "paid"
    BY <1>2, <1>15 DEF NewlyPaid
  <2>2. CASE v \in D /\ c.status = "keep"
    BY <1>8, <1>9, <2>1, <2>2, DocSets DEF NewlyPaid
  <2>3. CASE v \in D /\ c.status # "keep"
    BY <1>1, <1>8, <2>1, <2>3 DEF Sets
  <2>4. CASE v \notin D
    BY <1>6, <2>1, <2>4, DocSets DEF NewlyPaid
  <2> QED
    BY <2>2, <2>3, <2>4
<1>16. ASSUME NEW p \in Payment \cap wrote'[t], buf'[t][p].status = "completed"
       PROVE  \/ p \in wrote[t] /\ buf[t][p].status = "completed" /\ p \notin D
              \/ Sets(s, "completed") /\ p \in D
  <2>1. CASE p \in D
    <3>1. c.status # "keep"
      BY <1>1, <1>3, <2>1 DEF StepInv
    <3> QED
      BY <1>1, <1>8, <1>16, <2>1, <3>1 DEF Sets
  <2>2. CASE p \notin D
    BY <1>6, <1>16, <2>2, DocSets
  <2> QED
    BY <2>1, <2>2
<1>17. Settling(t)' => Settling(t)
  <2>1. ASSUME NEW v \in Invoice, NewlyPaid(t, v)' PROVE Settling(t)
    BY <1>3, <1>15, <2>1 DEF Settling
  <2>2. ASSUME NEW p \in Payment \cap wrote'[t], buf'[t][p].status = "completed"
        PROVE  Settling(t)
    BY <1>3, <1>16, <2>2 DEF Settling
  <2>3. ASSUME NEW x \in Steps(t)',
               \/ x.op \in {"makeInvoicePaid", "settle", "confirm"}
               \/ Sets(x, "paid") \/ Sets(x, "completed")
        PROVE  Settling(t)
    BY <1>4, <2>3 DEF Settling
  <2> QED
    BY <2>1, <2>2, <2>3 DEF Settling, Sets
<1>18. Grows
  BY <1>2 DEF Grows
<1>19. AgendaInv(t)'
  <2>1. \A x \in Steps(t)' : StepInv(x)'
    BY <1>4, <1>10, <1>18, StepsType, StepKept DEF AgendaInv
  <2>2. Settling(t)' => \A x \in Steps(t)' : Clean(x)
    BY <1>4, <1>10, <1>17 DEF AgendaInv
  <2> QED
    BY <1>4, <1>5, <2>1, <2>2 DEF AgendaInv
<1>20. ASSUME NEW d \in Income \cup Invoice, Pays(t, d)' PROVE Pays(t, d) \/ doc[d].status = "paid"
  <2>1. CASE \E x \in Steps(t)' : Sets(x, "paid") /\ d \in x.on
    BY <1>4, <2>1 DEF Pays
  <2>2. CASE d \in wrote'[t] /\ buf'[t][d].status = "paid"
    <3>1. CASE d \in D /\ c.status = "keep"
      BY <1>8, <1>9, <2>2, <3>1, DocSets DEF Pays
    <3>2. CASE d \in D /\ c.status # "keep"
      BY <1>1, <1>3, <1>8, <2>2, <3>2 DEF Pays, Sets
    <3>3. CASE d \notin D
      BY <1>6, <2>2, <3>3, DocSets DEF Pays
    <3> QED
      BY <3>1, <3>2, <3>3
  <2> QED
    BY <1>20, <2>1, <2>2 DEF Pays, Sets
<1>21. Owes(t)' = Owes(t)
  <2>1. s.op # "voucher" /\ s.op # "settle"
    BY <1>1
  <2> QED
    BY <1>4, <2>1 DEF Owes, Batch
<1>22. VoucherInv(t)'
  <2>1. ASSUME NEW v \in Invoice, Pays(t, v)' PROVE v \in vouched \cup Owes(t)
    BY <1>10, <1>20, <2>1 DEF VoucherInv, LedgerInv, BooksInv, Paid
  <2>2. ASSUME NEW i \in Income, Pays(t, i)', i \notin entered
        PROVE  \E v \in vouched \cup Owes(t) : i \in doc[v].items
    BY <1>10, <1>20, <2>2 DEF VoucherInv, LedgerInv, BooksInv, PaidIncomeVouched
  <2> QED
    BY <1>2, <1>21, <2>1, <2>2 DEF VoucherInv
<1>23. ASSUME Settling(t), NEW d \in Income \cup Invoice, Pays(t, d) PROVE Pays(t, d)'
  <2>1. c.status \in {"keep", "paid", "completed"}
    BY <1>1, <1>3, <1>23 DEF Clean
  <2>2. CASE d \in D
    <3>1. c.status # "completed"
      <4>1. c.status = "completed" => D \subseteq Payment
        BY <1>1, <1>3 DEF StepInv, Sets
      <4> QED
        BY <2>2, <4>1, BillingAssumption
    <3>2. CASE c.status = "paid"
      BY <1>6, <1>8, <2>2, <3>2 DEF Pays
    <3>3. CASE c.status = "keep"
      <4>1. \/ d \in wrote[t] /\ buf[t][d].status = "paid"
            \/ \E x \in Rest(t) : Sets(x, "paid") /\ d \in x.on
        BY <1>4, <1>23, <3>3 DEF Pays, Sets
      <4> QED
        BY <1>4, <1>6, <1>8, <1>9, <2>2, <3>3, <4>1, DocSets DEF Pays, Sets
    <3> QED
      BY <2>1, <3>1, <3>2, <3>3
  <2>3. CASE d \notin D
    <3>1. \/ d \in wrote[t] /\ buf[t][d].status = "paid"
          \/ \E x \in Rest(t) : Sets(x, "paid") /\ d \in x.on
      BY <1>4, <1>23, <2>3 DEF Pays
    <3> QED
      BY <1>4, <1>6, <2>3, <3>1, DocSets DEF Pays, Sets
  <2> QED
    BY <2>2, <2>3
<1>24. ASSUME Settling(t), NEW v \in Invoice, Settles(t, v) PROVE Settles(t, v)'
  <2>1. CASE Pays(t, v)
    BY <1>23, <1>24, <2>1 DEF Settles
  <2>2. CASE \E x \in Steps(t) : x.op \in {"makeInvoicePaid", "settle"} /\ v \in x.on
    BY <1>1, <1>4, <2>2 DEF Settles
  <2> QED
    BY <1>24, <2>1, <2>2 DEF Settles
<1>25. Lost(t)' <=> Lost(t)
  BY <1>2 DEF Lost
<1>26. D # {} => ~Lost(t)
  BY <1>1, <1>2 DEF Conflict, Lost
<1>27. TogetherInv(t)'
  <2>1. ASSUME NEW p \in Payment \cap wrote'[t], buf'[t][p].status = "completed",
               NEW v \in Invoice \cap buf'[t][p].items
        PROVE  Settles(t, v)'
    <3>1. CASE p \in wrote[t] /\ buf[t][p].status = "completed" /\ p \notin D
      <4>1. v \in buf[t][p].items /\ Settling(t)
        BY <1>6, <2>1, <3>1, DocSets DEF Settling
      <4>2. Settles(t, v)
        BY <1>10, <3>1, <4>1 DEF TogetherInv
      <4> QED
        BY <1>24, <4>1, <4>2
    <3>2. CASE Sets(s, "completed") /\ p \in D
      <4>1. Settling(t) /\ ~Lost(t)
        BY <1>3, <1>26, <3>2 DEF Settling
      <4>2. v \in doc[p].items
        BY <1>12, <1>13, <2>1
      <4>3. Settles(t, v)
        BY <1>3, <1>10, <3>2, <4>1, <4>2 DEF TogetherInv
      <4> QED
        BY <1>24, <4>1, <4>3
    <3> QED
      BY <1>16, <2>1, <3>1, <3>2
  <2>2. ASSUME NEW x \in Steps(t)', Sets(x, "completed"), ~Lost(t)',
               NEW p \in x.on \cap Payment, NEW v \in Invoice \cap doc'[p].items
        PROVE  Settles(t, v)'
    <3>1. x \in Steps(t) /\ Settling(t)
      BY <1>4, <2>2 DEF Settling
    <3>2. Settles(t, v)
      BY <1>2, <1>10, <1>25, <2>2, <3>1 DEF TogetherInv
    <3> QED
      BY <1>24, <3>1, <3>2
  <2>3. ASSUME NEW v \in Invoice, NewlyPaid(t, v)', NEW i \in buf'[t][v].items
        PROVE  Pays(t, i)'
    <3>1. i \in Income
      BY <1>11 DEF Shape
    <3>2. CASE NewlyPaid(t, v) /\ buf'[t][v].items = buf[t][v].items
      <4>1. Pays(t, i) /\ Settling(t)
        BY <1>10, <2>3, <3>2 DEF TogetherInv, Settling
      <4> QED
        BY <1>23, <3>1, <4>1
    <3>3. CASE Sets(s, "paid") /\ v \in D
      <4>1. Settling(t) /\ ~Lost(t)
        BY <1>3, <1>26, <3>3 DEF Settling
      <4>2. doc[v].status # "none" /\ v \in wrote'[t]
        BY <1>3, <1>6, <3>3 DEF StepInv
      <4>3. i \in doc[v].items
        BY <1>12, <2>3, <4>2
      <4>4. Pays(t, i)
        BY <1>3, <1>10, <3>3, <4>1, <4>3 DEF TogetherInv
      <4> QED
        BY <1>23, <3>1, <4>1, <4>4
    <3> QED
      BY <1>15, <2>3, <3>2, <3>3
  <2>4. ASSUME NEW x \in Steps(t)', Sets(x, "paid"), ~Lost(t)',
               NEW v \in x.on \cap Invoice, NEW i \in doc'[v].items
        PROVE  Pays(t, i)'
    <3>1. x \in Steps(t) /\ Settling(t)
      BY <1>4, <2>4 DEF Settling
    <3>2. i \in doc[v].items /\ i \in Income
      BY <1>2, <1>3, <2>4 DEF Shape
    <3>3. Pays(t, i)
      BY <1>10, <1>25, <2>4, <3>1, <3>2 DEF TogetherInv
    <3> QED
      BY <1>23, <3>1, <3>2, <3>3
  <2> QED
    BY <2>1, <2>2, <2>3, <2>4 DEF TogetherInv, Sets
<1>28. RequestInv(t)'
  BY <1>14, <1>19, <1>22, <1>27 DEF RequestInv
<1>29. \A u \in Thread \ {t} : Holds(u)
  BY <1>2, <1>6 DEF Holds
<1>30. Isolation'
  <2>1. \A u \in Thread \ {t} : wrote[u] \cap D = {}
    BY <1>2 DEF Conflict
  <2> QED
    BY <1>6, <2>1 DEF LedgerInv, Isolation
<1>31. BooksInv'
  BY <1>2, <1>18, BooksKept DEF LedgerInv, BooksInv, Paid, Shape
<1> QED
  BY <1>4, <1>18, <1>28, <1>29, <1>30, <1>31, LedgerStep

(***************************************************************************)
(* The commit: what the transaction has paid is vouched by now, since the  *)
(* request has nothing left to do.                                         *)
(***************************************************************************)
LEMMA CommitDocs ==
    ASSUME TypeOK, LedgerInv, NEW t \in Thread, Commit(t)
    PROVE  /\ \A d \in Doc : d \in wrote[t] => doc'[d] = buf[t][d]
           /\ \A d \in Doc : d \notin wrote[t] => doc'[d] = doc[d]
           /\ Steps(t) = {} /\ Owes(t) = {}
           /\ \A d : Pays(t, d) => d \in wrote[t] /\ buf[t][d].status = "paid"
           /\ \A v \in Invoice : Settles(t, v) => Pays(t, v)
           /\ UNCHANGED <<agenda, vouched, bank, entered>>
           /\ RequestInv(t) /\ Grows
<1>1. /\ \A d \in Doc : d \in wrote[t] => doc'[d] = buf[t][d]
      /\ \A d \in Doc : d \notin wrote[t] => doc'[d] = doc[d]
  BY DEF Commit, View
<1>2. Steps(t) = {}
  BY ElemsShort DEF Commit, Steps, Elems
<1>3. Owes(t) = {} /\ \A d : Pays(t, d) => d \in wrote[t] /\ buf[t][d].status = "paid"
  BY <1>2 DEF Owes, Pays
<1>4. \A v \in Invoice : Settles(t, v) => Pays(t, v)
  BY <1>2 DEF Settles
<1>5. UNCHANGED <<agenda, vouched, bank, entered>>
  BY DEF Commit, books, env
<1>6. RequestInv(t)
  BY DEF LedgerInv
<1>7. Grows
  BY <1>1, <1>5, <1>6 DEF Grows, RequestInv, BufInv
<1> QED
  BY <1>1, <1>2, <1>3, <1>4, <1>5, <1>6, <1>7

LEMMA CommitLedger ==
    ASSUME TypeOK, LedgerInv, NEW t \in Thread, Commit(t)
    PROVE  LedgerInv'
<1>1. /\ \A d \in Doc : d \in wrote[t] => doc'[d] = buf[t][d]
      /\ \A d \in Doc : d \notin wrote[t] => doc'[d] = doc[d]
      /\ Steps(t) = {} /\ Owes(t) = {}
      /\ UNCHANGED <<agenda, vouched, bank, entered>>
      /\ RequestInv(t) /\ Grows
  BY CommitDocs
<1>2. BooksInv
  BY DEF LedgerInv
<1>3. ASSUME NEW d \in Doc, d \in wrote[t], buf[t][d].status = "paid"
      PROVE  Pays(t, d)
  BY <1>3 DEF Pays
<1>4. Shape(doc)'
  BY <1>1, <1>2, DocSets DEF BooksInv, RequestInv, BufInv, Shape
<1>5. ASSUME NEW v \in Invoice, Paid(v)' PROVE v \in vouched'
  <2>1. CASE v \in wrote[t]
    BY <1>1, <1>3, <1>5, <2>1, DocSets DEF Paid, RequestInv, VoucherInv
  <2>2. CASE v \notin wrote[t]
    BY <1>1, <1>2, <1>5, <2>2, DocSets DEF Paid, BooksInv
  <2> QED
    BY <2>1, <2>2
<1>6. ASSUME NEW i \in Income, doc'[i].status = "paid", i \notin entered'
      PROVE  \E v \in vouched' : i \in doc'[v].items
  <2>1. \E v \in vouched : i \in doc[v].items
    <3>1. CASE i \in wrote[t]
      BY <1>1, <1>3, <1>6, <3>1, DocSets DEF RequestInv, VoucherInv
    <3>2. CASE i \notin wrote[t]
      BY <1>1, <1>2, <1>6, <3>2, DocSets DEF BooksInv, PaidIncomeVouched
    <3> QED
      BY <3>1, <3>2
  <2>2. PICK v \in vouched : i \in doc[v].items
    BY <2>1
  <2>3. v \in Invoice
    BY DEF TypeOK
  <2>4. i \in doc'[v].items
    BY <1>1, <1>2, <2>2, <2>3, ItemsKept DEF BooksInv
  <2> QED
    BY <1>1, <2>4
<1>7. ASSUME NEW p \in Payment, doc'[p].status = "completed"
      PROVE  bank'[p] = "confirmed"
  <2>1. CASE p \in wrote[t]
    BY <1>1, <1>7, <2>1, DocSets DEF RequestInv, BufInv
  <2>2. CASE p \notin wrote[t]
    BY <1>1, <1>2, <1>7, <2>2, DocSets DEF BooksInv
  <2> QED
    BY <2>1, <2>2
<1>8. BooksInv'
  BY <1>4, <1>5, <1>6, <1>7 DEF BooksInv, PaidIncomeVouched
<1>9. /\ wrote'[t] = {} /\ buf'[t] = Blanks
      /\ \A u \in Thread \ {t} :
           /\ wrote'[u] = wrote[u] /\ buf'[u] = buf[u] /\ stale[u] \subseteq stale'[u]
  BY DEF Commit, TypeOK
<1>10. Isolation'
  BY <1>9 DEF LedgerInv, Isolation
<1>11. ASSUME NEW u \in Thread \ {t} PROVE Holds(u)
  <2>1. wrote[u] \cap wrote[t] = {} /\ wrote[u] \subseteq Doc
    BY DEF LedgerInv, Isolation, TypeOK
  <2> QED
    BY <1>1, <1>9, <2>1 DEF Holds
<1>12. agenda'[t] = <<>>
  BY DEF Commit
<1>13. RequestInv(t)'
  BY <1>9, <1>12, RequestEmpty
<1> QED
  BY <1>1, <1>8, <1>10, <1>11, <1>13, LedgerStep

LEMMA MakeRequestLedger ==
    ASSUME TypeOK, LedgerInv, NEW t \in Thread, MakeRequest(t)
    PROVE  LedgerInv'
<1>1. PICK op \in Ops : \E D \in Subjects(op) :
        agenda' = [agenda EXCEPT ![t] = <<Do(op, D, TRUE)>>]
  BY DEF MakeRequest
<1>2. PICK D \in Subjects(op) : agenda' = [agenda EXCEPT ![t] = <<Do(op, D, TRUE)>>]
  BY <1>1
<1> DEFINE s == Do(op, D, TRUE)
<1>3. s.op = op /\ s.on = D
  BY DEF Do
<1>4. /\ agenda'[t] = <<s>>
      /\ \A u \in Thread \ {t} : agenda'[u] = agenda[u]
  BY <1>2 DEF TypeOK
<1> HIDE DEF s
<1>5. wrote[t] = {} /\ agenda[t] = <<>>
  BY DEF MakeRequest, Idle, Open
<1>6. Steps(t)' = {s}
  BY <1>4, ElemsShort DEF Steps, Elems
<1>7. UNCHANGED <<doc, txn>> /\ UNCHANGED <<vouched, entered>> /\ UNCHANGED bank
  BY DEF MakeRequest, books, env
<1>8. Grows
  BY <1>7, GrowsStill
<1>9. op \in Request
  BY OpsAssumption
<1>10. op = "createInvoice" => D \subseteq Income
  BY DEF Subjects
<1>11. StepInv(s)'
  BY <1>3, <1>9, <1>10 DEF StepInv, Sets, Request
<1>12. ~Sets(s, "paid") /\ ~Sets(s, "completed") /\ s.op \notin {"settle", "confirm"}
  BY <1>3, <1>9 DEF Sets, Request
<1>13. ASSUME Holds(t) PROVE RequestInv(t)'
  <2>1. BufInv(t)'
    BY <1>5, <1>8, <1>13, BufKept DEF LedgerInv, RequestInv
  <2>2. Settling(t)' => s.op = "makeInvoicePaid"
    BY <1>5, <1>6, <1>12, <1>13 DEF Settling, NewlyPaid, Holds, Sets
  <2>3. AgendaInv(t)'
    BY <1>4, <1>5, <1>6, <1>11, <1>13, <2>2 DEF AgendaInv, Clean, Holds
  <2>4. \A d : ~Pays(t, d)'
    BY <1>5, <1>6, <1>12, <1>13 DEF Pays, Holds, Sets
  <2>5. TogetherInv(t)'
    BY <1>5, <1>6, <1>12, <1>13 DEF TogetherInv, NewlyPaid, Holds, Sets
  <2> QED
    BY <2>1, <2>3, <2>4, <2>5 DEF RequestInv, VoucherInv
<1> QED
  BY <1>4, <1>7, <1>8, <1>13, LedgerPush

\* A transaction that is lost settles nothing any more.
LEMMA TransactionTimeoutLedger ==
    ASSUME TypeOK, LedgerInv, NEW t \in Thread, TransactionTimeout(t)
    PROVE  LedgerInv'
<1>1. /\ wrote'[t] = {} /\ buf'[t] = Blanks /\ stale'[t] = Doc
      /\ \A u \in Thread \ {t} :
           wrote'[u] = wrote[u] /\ buf'[u] = buf[u] /\ stale'[u] = stale[u]
      /\ UNCHANGED <<doc, agenda, vouched, bank, entered>>
  BY DEF TransactionTimeout, TypeOK, books, env
<1>2. Grows
  BY <1>1, GrowsStill
<1>3. Isolation'
  BY <1>1 DEF LedgerInv, Isolation
<1>4. BooksInv'
  BY <1>1 DEF LedgerInv, BooksInv, Paid, PaidIncomeVouched, Shape
<1>5. \A u \in Thread \ {t} : Holds(u) /\ agenda'[u] = agenda[u]
  BY <1>1 DEF Holds
<1>6. Steps(t)' = Steps(t)
  BY <1>1 DEF Steps
<1>7. BufInv(t)'
  BY <1>1, DocSets DEF BufInv, Shape, Blanks, Blank
<1>8. RequestInv(t)
  BY DEF LedgerInv
<1>9. \A d : Pays(t, d)' => Pays(t, d)
  BY <1>1, <1>6 DEF Pays, Sets
<1>10. Owes(t)' = Owes(t)
  BY <1>6 DEF Owes, Batch
<1>11. Settling(t)' => Settling(t)
  BY <1>1, <1>6 DEF Settling, NewlyPaid, Sets
<1>12. AgendaInv(t)'
  <2>1. \A s \in Steps(t)' : StepInv(s)'
    BY <1>2, <1>6, <1>8, StepsType, StepKept DEF RequestInv, AgendaInv
  <2>2. Settling(t)' => \A s \in Steps(t)' : Clean(s)
    BY <1>6, <1>8, <1>11 DEF RequestInv, AgendaInv
  <2>3. \A s \in Steps(t)' : Alone(s) => agenda'[t] = <<s>> /\ wrote'[t] = {}
    BY <1>1, <1>6, <1>8 DEF RequestInv, AgendaInv
  <2> QED
    BY <2>1, <2>2, <2>3 DEF AgendaInv
<1>13. VoucherInv(t)'
  BY <1>1, <1>8, <1>9, <1>10 DEF RequestInv, VoucherInv
<1>14. TogetherInv(t)'
  BY <1>1 DEF TogetherInv, NewlyPaid, Lost
<1>15. RequestInv(t)'
  BY <1>7, <1>12, <1>13, <1>14 DEF RequestInv
<1> QED
  BY <1>2, <1>3, <1>4, <1>5, <1>15, LedgerStep

LEMMA RestartLedger ==
    ASSUME TypeOK, LedgerInv, Restart
    PROVE  LedgerInv'
<1>1. /\ \A t \in Thread : agenda'[t] = <<>> /\ wrote'[t] = {} /\ buf'[t] = Blanks
      /\ UNCHANGED <<doc, vouched, bank, entered>>
  BY DEF Restart, books, env
<1>2. BooksInv'
  BY <1>1 DEF LedgerInv, BooksInv, Paid, PaidIncomeVouched, Shape
<1>3. Isolation'
  BY <1>1 DEF Isolation
<1> QED
  BY <1>1, <1>2, <1>3, RequestEmpty DEF LedgerInv

\* The payer and the clock.
LEMMA EnvironmentLedger ==
    ASSUME TypeOK, LedgerInv, UNCHANGED <<doc, agenda, txn, books, entered>>,
           \A p \in Payment : bank[p] \in {"closed", "confirmed"} => bank'[p] = bank[p]
    PROVE  LedgerInv'
<1>1. UNCHANGED <<vouched, entered>> /\ Grows
  BY GrowsStill DEF books
<1>2. \A u \in Thread : Holds(u)
  BY DEF Holds, txn
<1>3. Isolation' /\ BooksInv'
  BY <1>1, BooksKept DEF LedgerInv, Isolation, txn, BooksInv, Paid, Shape
<1>4. ASSUME NEW u \in Thread PROVE RequestInv(u)'
  BY <1>1, <1>2, RequestWaits DEF LedgerInv, BooksInv
<1> QED
  BY <1>3, <1>4 DEF LedgerInv

-----------------------------------------------------------------------------
(* The invariant.                                                          *)

LEMMA ProceedLedger ==
    ASSUME TypeOK, LedgerInv, NEW t \in Thread, Proceed(t)
    PROVE  LedgerInv'
<1>1. ASSUME WriteConflict(t) PROVE LedgerInv'
  <2>1. Abort(t) /\ UNCHANGED <<books, bank, entered>>
    BY <1>1 DEF WriteConflict, env
  <2> QED
    BY <2>1, LedgerAbort
<1> QED
  BY <1>1, CreateInvoiceLedger, MakeInvoiceManuallyLedger, InsertLedger,
     IssueLedger, InsertInvoiceLedger, MakeInvoicePendLedger,
     MakeInvoiceCancelLedger, UpdateInvoiceLedger, RevertLedger,
     ForceUpdateLedger, IncomeHandlerLedger, IncomeRequestsLedger, CreateIncomeLedger,
     MakeInvoicePaidLedger,
     SettleNextLedger, SettleRestLedger, VoucherLedger, PayLedger,
     CreatePaymentLedger, GetBankTokenLedger, VerifyLedger,
     ConfirmPaymentLedger, WriteDirectLedger, WriteInTransactionLedger,
     CommitLedger
  DEF Proceed

LEMMA InitLedger ==
    ASSUME Init
    PROVE  LedgerInv
<1>1. Shape(doc)
  <2>1. ASSUME NEW v \in Invoice PROVE doc[v].items \subseteq Income
    <3>1. v \notin Income /\ v \in Doc
      BY BillingAssumption, DocSets
    <3>2. CASE Existing[v] # {}
      BY <3>1, <3>2, BillingAssumption, InitDoc
    <3>3. CASE Existing[v] = {}
      BY <3>1, <3>3, InitDoc DEF Blank
    <3> QED
      BY <3>2, <3>3
  <2>2. ASSUME NEW d \in Doc, doc[d].status = "none" PROVE doc[d].items = {}
    <3>1. CASE d \in Invoice /\ Existing[d] # {}
      BY <2>2, <3>1, InitDoc
    <3>2. CASE ~(d \in Invoice /\ Existing[d] # {})
      BY <3>2, InitDoc DEF Blank
    <3> QED
      BY <3>1, <3>2
  <2> QED
    BY <2>1, <2>2 DEF Shape
<1>2. ASSUME NEW d \in Doc PROVE doc[d].status \notin {"paid", "completed"}
  <2>1. CASE d \in Invoice /\ Existing[d] # {}
    BY <2>1, InitDoc
  <2>2. CASE ~(d \in Invoice /\ Existing[d] # {})
    BY <2>2, InitDoc DEF Blank
  <2> QED
    BY <2>1, <2>2
<1>3. BooksInv
  BY <1>1, <1>2, DocSets DEF BooksInv, Paid, PaidIncomeVouched
<1>4. Isolation
  BY DEF Init, Isolation
<1>5. ASSUME NEW t \in Thread PROVE RequestInv(t)
  <2>1. agenda[t] = <<>> /\ wrote[t] = {} /\ buf[t] = Blanks
    BY DEF Init
  <2>2. Steps(t) = {}
    BY <2>1, ElemsShort DEF Steps, Elems
  <2>3. BufInv(t)
    BY <2>1, DocSets DEF BufInv, Shape, Blanks, Blank
  <2>4. ~Settling(t) /\ \A d : ~Pays(t, d)
    BY <2>1, <2>2 DEF Settling, NewlyPaid, Pays
  <2> QED
    BY <2>2, <2>3, <2>4, NotSettling DEF RequestInv, AgendaInv, VoucherInv
<1> QED
  BY <1>3, <1>4, <1>5 DEF LedgerInv

LEMMA NextLedger ==
    ASSUME TypeOK, LedgerInv, [Next]_vars
    PROVE  LedgerInv'
<1>1. ASSUME NEW t \in Thread, Proceed(t) PROVE LedgerInv'
  BY <1>1, ProceedLedger
<1>2. ASSUME NEW t \in Thread, MakeRequest(t) PROVE LedgerInv'
  BY <1>2, MakeRequestLedger
<1>3. ASSUME NEW t \in Thread, Fail(t) PROVE LedgerInv'
  <2>1. Abort(t) /\ UNCHANGED <<books, bank, entered>>
    BY <1>3 DEF Fail, env
  <2> QED
    BY <2>1, LedgerAbort
<1>4. ASSUME NEW t \in Thread, TransactionTimeout(t) PROVE LedgerInv'
  BY <1>4, TransactionTimeoutLedger
<1>5. ASSUME NEW p \in Payment, PayerDecides(p) PROVE LedgerInv'
  <2>1. \A x \in Payment : bank[x] \in {"closed", "confirmed"} => bank'[x] = bank[x]
    BY <1>5 DEF PayerDecides, TypeOK
  <2> QED
    BY <1>5, <2>1, EnvironmentLedger DEF PayerDecides
<1>6. ASSUME NEW p \in Payment, LockElapses(p) PROVE LedgerInv'
  BY <1>6, EnvironmentLedger DEF LockElapses
<1>7. CASE Restart
  BY <1>7, RestartLedger
<1>8. CASE UNCHANGED vars
  <2>1. UNCHANGED <<doc, agenda, txn, books, entered>> /\ UNCHANGED bank
    BY <1>8 DEF vars, env
  <2> QED
    BY <2>1, EnvironmentLedger
<1> QED
  BY <1>1, <1>2, <1>3, <1>4, <1>5, <1>6, <1>7, <1>8 DEF Next

(***************************************************************************)
(* The inductive invariant: at any time any request in flight may commit,  *)
(* fail or be cut short without harm to the books.                         *)
(***************************************************************************)
THEOREM LedgerCorrect == Spec => []LedgerInv
<1>1. Init => LedgerInv
  BY InitLedger
<1>2. TypeOK /\ LedgerInv /\ [Next]_vars => LedgerInv'
  BY NextLedger
<1> QED
  BY <1>1, <1>2, BillingType, PTL DEF Spec

(***************************************************************************)
(* No income counts as paid without an invoice that bills it and has a     *)
(* voucher, or a request that created it so: makeInvoicePaid inserts the   *)
(* voucher before its transaction commits, and nothing but createIncome    *)
(* marks incomes paid otherwise.                                           *)
(***************************************************************************)
THEOREM PaidIncomesVouched == Spec => []PaidIncomeVouched
<1>1. LedgerInv => PaidIncomeVouched
  BY DEF LedgerInv, BooksInv
<1> QED
  BY <1>1, LedgerCorrect, PTL

-----------------------------------------------------------------------------
(* The refinement.                                                         *)

\* Only these steps change what is committed.
LEMMA DocSteps ==
    ASSUME NEW t \in Thread, Proceed(t)
    PROVE  \/ UNCHANGED doc
           \/ WriteDirect(t) \/ Insert(t) \/ CreatePayment(t) \/ Commit(t)
<1>1. ASSUME NEW ok, NEW new, Guarded(t, ok, new) PROVE UNCHANGED doc
  BY <1>1 DEF Guarded, Abort
<1>2. CASE CreateInvoice(t) \/ MakeInvoiceManually(t)
  BY <1>2, Zenon DEF CreateInvoice, MakeInvoiceManually, Abort
<1>3. CASE Issue(t) \/ MakeInvoicePend(t) \/ MakeInvoiceCancel(t) \/ UpdateInvoice(t)
           \/ ForceUpdate(t) \/ UpdateIncome(t) \/ ForceUpdateIncome(t)
           \/ ChangeCaseType(t) \/ Remove(t) \/ SettleNext(t) \/ Pay(t)
  BY <1>1, <1>3, Zenon
     DEF Issue, MakeInvoicePend, MakeInvoiceCancel, UpdateInvoice, ForceUpdate,
         UpdateIncome, ForceUpdateIncome, ChangeCaseType, Remove, SettleNext, Pay
<1>4. CASE RevertToPreviousState(t)
  BY <1>1, <1>4, Zenon DEF RevertToPreviousState
<1>5. CASE InsertInvoice(t) \/ CreateIncome(t) \/ MakeInvoicePaid(t) \/ SettleRest(t)
           \/ Voucher(t) \/ GetBankToken(t) \/ Verify(t) \/ WriteInTransaction(t)
  BY <1>5
     DEF InsertInvoice, CreateIncome, MakeInvoicePaid, SettleRest, Voucher, GetBankToken,
         Verify, WriteInTransaction
<1>6. CASE ConfirmPayment(t) \/ WriteConflict(t)
  BY <1>6 DEF ConfirmPayment, WriteConflict, Abort
<1> QED
  BY <1>2, <1>3, <1>4, <1>5, <1>6 DEF Proceed

Taken     == {p \in Payment : bank[p] = "confirmed"}
Settled   == {v \in Invoice : Paid(v)}
Completed == {c \in Payment \X Invoice :
                doc[c[1]].status = "completed" /\ c[2] \in doc[c[1]].items}

LEMMA VouchStep ==
    ASSUME TypeOK', vouched \subseteq vouched', UNCHANGED <<Taken, Settled, Completed>>
    PROVE  Books!Vouch
  BY DEF TypeOK, Books!Vouch, Taken, Settled, Completed

LEMMA SettleStep ==
    ASSUME UNCHANGED <<vouched, Taken>>,
           NEW V \in SUBSET Invoice, NEW C \in SUBSET (Payment \X Invoice),
           V \subseteq vouched, C \subseteq Taken \X V,
           Settled' \subseteq Settled \cup V, V \subseteq Settled',
           Completed' = Completed \cup C
    PROVE  Books!SettlementNext
<1>1. Books!Settle(V, C)
  BY DEF Books!Settle, Taken, Settled, Completed
<1> QED
  BY <1>1 DEF Books!SettlementNext

\* A step that settles and completes nothing.
LEMMA QuietDocs ==
    ASSUME UNCHANGED <<vouched, bank>>,
           Settled' \subseteq Settled, Completed' = Completed
    PROVE  Books!SettlementNext
<1> DEFINE None == {}
<1>1. /\ None \in SUBSET Invoice /\ None \in SUBSET (Payment \X Invoice)
      /\ None \subseteq vouched /\ None \subseteq Taken \X None
      /\ Settled' \subseteq Settled \cup None /\ None \subseteq Settled'
      /\ Completed' = Completed \cup None
  OBVIOUS
<1>2. UNCHANGED <<vouched, Taken>>
  BY DEF Taken
<1> HIDE DEF None
<1> QED
  BY <1>1, <1>2, SettleStep

LEMMA WriteDirectFollows ==
    ASSUME TypeOK, LedgerInv, NEW t \in Thread, WriteDirect(t)
    PROVE  /\ Settled' \subseteq Settled /\ Completed' = Completed
           /\ UNCHANGED <<vouched, bank>>
<1> DEFINE s == Head(agenda[t])
<1>1. s.op = "write" /\ ~s.tx /\ s.on \subseteq Doc /\ s.to \in Change /\ StepInv(s)
  BY HeadType, HeadInv DEF WriteDirect
<1>2. doc' = [d \in Doc |-> IF d \in s.on THEN Changed(doc[d], s.to) ELSE doc[d]]
  BY DEF WriteDirect
<1>3. s.to.status # "paid" /\ s.on \cap Payment = {}
  BY <1>1 DEF StepInv, Sets
<1> HIDE DEF s
<1>4. ASSUME NEW d \in Doc, doc'[d].status = "paid" PROVE doc[d].status = "paid"
  <2>1. doc[d] \in Document
    BY DEF TypeOK
  <2>2. CASE d \in s.on
    <3>1. doc'[d] = Changed(doc[d], s.to)
      BY <1>2, <2>2
    <3> QED
      BY <1>1, <1>3, <1>4, <2>1, <3>1 DEF Changed, Document, Change
  <2>3. CASE d \notin s.on
    BY <1>2, <1>4, <2>3
  <2> QED
    BY <2>2, <2>3
<1>5. \A p \in Payment : doc'[p] = doc[p]
  BY <1>2, <1>3, DocSets
<1>6. Settled' \subseteq Settled
  BY <1>4, DocSets DEF Settled, Paid
<1>7. Completed' = Completed
  BY <1>5 DEF Completed
<1> QED
  BY <1>6, <1>7 DEF WriteDirect, books, env

LEMMA InsertFollows ==
    ASSUME TypeOK, LedgerInv, NEW t \in Thread, Insert(t)
    PROVE  /\ Settled' \subseteq Settled /\ Completed' = Completed
           /\ UNCHANGED <<vouched, bank>>
<1>1. \/ UNCHANGED doc
      \/ \E v \in Invoice :
           doc' = [doc EXCEPT ![v] = [Blank EXCEPT !.status = "active",
                                                   !.items = Head(agenda[t]).on]]
  BY DEF Insert, Abort
<1>2. CASE UNCHANGED doc
  BY <1>2 DEF Settled, Paid, Completed, Insert, books, env
<1>3. ASSUME NEW v \in Invoice,
             doc' = [doc EXCEPT ![v] = [Blank EXCEPT !.status = "active",
                                                     !.items = Head(agenda[t]).on]]
      PROVE  Settled' \subseteq Settled /\ Completed' = Completed
  <2>1. doc'[v].status = "active" /\ \A d \in Doc \ {v} : doc'[d] = doc[d]
    BY <1>3, DocSets DEF TypeOK, Blank
  <2>2. \A p \in Payment : doc'[p] = doc[p]
    BY <2>1, DocSets, BillingAssumption
  <2> QED
    BY <2>1, <2>2, DocSets DEF Settled, Paid, Completed
<1> QED
  BY <1>1, <1>2, <1>3 DEF Insert, books, env

LEMMA CreatePaymentFollows ==
    ASSUME TypeOK, LedgerInv, NEW t \in Thread, CreatePayment(t)
    PROVE  /\ Settled' \subseteq Settled /\ Completed' = Completed
           /\ UNCHANGED <<vouched, bank>>
<1>1. PICK v \in Invoice, p \in Payment :
        /\ doc[p].status = "none"
        /\ doc' = [doc EXCEPT ![p] = [Blank EXCEPT
                     !.status = "progressing", !.items = {v}]]
  BY DEF CreatePayment
<1>2. /\ doc'[p].status = "progressing"
      /\ \A d \in Doc \ {p} : doc'[d] = doc[d]
  BY <1>1, DocSets DEF TypeOK, Blank
<1>3. \A x \in Invoice : doc'[x] = doc[x]
  BY <1>2, DocSets, BillingAssumption
<1>4. Completed' = Completed
  <2>1. ASSUME NEW c \in Payment \X Invoice
        PROVE  (doc'[c[1]].status = "completed" /\ c[2] \in doc'[c[1]].items)
                 <=> (doc[c[1]].status = "completed" /\ c[2] \in doc[c[1]].items)
    <3>1. c[1] \in Payment /\ c[1] \in Doc
      BY DocSets
    <3> QED
      BY <1>1, <1>2, <3>1
  <2> QED
    BY <2>1 DEF Completed
<1> QED
  BY <1>3, <1>4 DEF Settled, Paid, CreatePayment, books, env

(***************************************************************************)
(* A commit settles all invoices that are paid afterwards, and completes   *)
(* the payments its transaction has completed.                             *)
(***************************************************************************)
LEMMA CommitFollows ==
    ASSUME TypeOK, LedgerInv, LedgerInv', NEW t \in Thread, Commit(t)
    PROVE  Books!SettlementNext
<1> DEFINE V == Settled'
           C == {c \in Payment \X Invoice :
                   /\ c[1] \in wrote[t] /\ buf[t][c[1]].status = "completed"
                   /\ c[2] \in buf[t][c[1]].items}
<1>1. /\ \A d \in Doc : d \in wrote[t] => doc'[d] = buf[t][d]
      /\ \A d \in Doc : d \notin wrote[t] => doc'[d] = doc[d]
      /\ \A d : Pays(t, d) => d \in wrote[t] /\ buf[t][d].status = "paid"
      /\ \A v \in Invoice : Settles(t, v) => Pays(t, v)
      /\ UNCHANGED <<vouched, bank>>
      /\ RequestInv(t)
  BY CommitDocs
<1>2. V \subseteq Invoice /\ V \subseteq vouched
  BY <1>1 DEF Settled, LedgerInv, BooksInv
<1>3. ASSUME NEW c \in C PROVE c \in Taken \X V
  <2>1. c \in Payment \X Invoice /\ c[1] \in Payment /\ c[2] \in Invoice
    OBVIOUS
  <2>2. bank[c[1]] = "confirmed"
    BY <1>1, <1>3, <2>1 DEF RequestInv, BufInv
  <2>3. Settles(t, c[2])
    BY <1>1, <1>3, <2>1 DEF RequestInv, TogetherInv
  <2>4. doc'[c[2]].status = "paid"
    BY <1>1, <2>1, <2>3, DocSets
  <2> QED
    BY <2>1, <2>2, <2>4 DEF Taken, Settled, Paid
<1>4. ASSUME NEW c \in Payment \X Invoice
      PROVE  c \in Completed' <=> c \in Completed \cup C
  <2>1. c[1] \in Payment /\ c[1] \in Doc
    BY DocSets
  <2>2. CASE c[1] \in wrote[t]
    <3>1. doc'[c[1]] = buf[t][c[1]]
      BY <1>1, <2>1, <2>2
    <3>2. c \in Completed => doc'[c[1]].status = "completed"
                             /\ doc'[c[1]].items = doc[c[1]].items
      BY <1>1, <2>1, <2>2, <3>1 DEF Completed, LedgerInv, BooksInv, RequestInv, BufInv
    <3> QED
      BY <2>2, <3>1, <3>2 DEF Completed
  <2>3. CASE c[1] \notin wrote[t]
    BY <1>1, <2>1, <2>3 DEF Completed
  <2> QED
    BY <2>2, <2>3
<1>5. Completed' = Completed \cup C
  <2>1. Completed' \subseteq Payment \X Invoice /\ Completed \subseteq Payment \X Invoice
        /\ C \subseteq Payment \X Invoice
    BY DEF Completed
  <2> HIDE DEF C
  <2> QED
    BY <1>4, <2>1
<1>6. C \subseteq Taken \X V /\ C \subseteq Payment \X Invoice
  BY <1>3
<1>7. UNCHANGED <<vouched, Taken>>
  BY <1>1 DEF Taken
<1> HIDE DEF C
<1> QED
  BY <1>2, <1>5, <1>6, <1>7, SettleStep

LEMMA ConfirmFollows ==
    ASSUME TypeOK, TypeOK', NEW t \in Thread, ConfirmPayment(t)
    PROVE  Books!SettlementNext
<1>1. UNCHANGED <<vouched, doc>>
  BY DEF ConfirmPayment, books, Abort
<1>2. UNCHANGED <<Settled, Completed>>
  BY <1>1 DEF Settled, Completed, Paid
<1>3. CASE UNCHANGED bank
  <2>1. UNCHANGED Taken
    BY <1>3 DEF Taken
  <2> QED
    BY <1>1, <1>2, <2>1, VouchStep DEF Books!SettlementNext
<1>4. ASSUME NEW p \in Payment, bank' = [bank EXCEPT ![p] = "confirmed"]
      PROVE  Books!SettlementNext
  <2>1. Taken' = Taken \cup {p}
    BY <1>4 DEF Taken, TypeOK
  <2>2. Books!Take(p)
    BY <1>1, <1>2, <2>1 DEF Books!Take, Taken, Settled, Completed
  <2> QED
    BY <2>2 DEF Books!SettlementNext
<1> QED
  BY <1>3, <1>4 DEF ConfirmPayment

LEMMA OtherFollows ==
    ASSUME TypeOK, TypeOK', NEW t \in Thread, Proceed(t), ~ConfirmPayment(t)
    PROVE  vouched \subseteq vouched' /\ UNCHANGED Taken
<1>1. CASE Voucher(t)
  BY <1>1 DEF Voucher, env, Taken
<1>2. CASE InsertInvoice(t)
  BY <1>2 DEF InsertInvoice, env, Taken
<1>3. CASE Pay(t)
  <2>1. UNCHANGED <<vouched, entered>>
    BY <1>3 DEF Pay, books
  <2>2. \E p \in Payment : bank[p] = "idle" /\
          (bank' = [bank EXCEPT ![p] = "asked"] \/ UNCHANGED bank)
    BY <1>3 DEF Pay
  <2> QED
    BY <2>1, <2>2 DEF Taken, TypeOK
<1>4. CASE GetBankToken(t)
  <2>1. UNCHANGED <<vouched, entered>>
    BY <1>4 DEF GetBankToken, books
  <2>2. \E p \in Payment : bank[p] = "asked" /\ bank' = [bank EXCEPT ![p] = "open"]
    BY <1>4 DEF GetBankToken
  <2> QED
    BY <2>1, <2>2 DEF Taken, TypeOK
<1>5. CASE UNCHANGED <<books, env>>
  BY <1>5 DEF books, env, Taken
<1>6. \/ Voucher(t) \/ InsertInvoice(t) \/ Pay(t) \/ GetBankToken(t)
      \/ UNCHANGED <<books, env>>
  BY DEF Proceed, CreateInvoice, MakeInvoiceManually, Insert, Issue, MakeInvoicePend,
     MakeInvoiceCancel, UpdateInvoice, RevertToPreviousState, ForceUpdate,
     CreateIncome, UpdateIncome, ForceUpdateIncome, ChangeCaseType, Remove,
     MakeInvoicePaid, SettleNext, SettleRest, CreatePayment, Verify, WriteDirect,
     WriteInTransaction, WriteConflict, Commit
<1> QED
  BY <1>1, <1>2, <1>3, <1>4, <1>5, <1>6

LEMMA NextFollows ==
    ASSUME TypeOK, TypeOK', LedgerInv, LedgerInv', [Next]_vars
    PROVE  [Books!SettlementNext]_(Books!settlementVars)
<1>1. ASSUME UNCHANGED doc, vouched \subseteq vouched', UNCHANGED Taken
      PROVE  Books!SettlementNext
  <2>1. UNCHANGED <<Settled, Completed>>
    BY <1>1 DEF Settled, Completed, Paid
  <2> QED
    BY <1>1, <2>1, VouchStep DEF Books!SettlementNext
<1>2. ASSUME NEW t \in Thread, Proceed(t) PROVE Books!SettlementNext
  <2>1. CASE ConfirmPayment(t)
    BY <2>1, ConfirmFollows
  <2>2. CASE WriteDirect(t) \/ Insert(t) \/ CreatePayment(t)
    BY <2>2, WriteDirectFollows, InsertFollows, CreatePaymentFollows, QuietDocs
  <2>3. CASE Commit(t)
    BY <2>3, CommitFollows
  <2>4. CASE UNCHANGED doc /\ ~ConfirmPayment(t)
    BY <1>1, <1>2, <2>4, OtherFollows
  <2> QED
    BY <1>2, <2>1, <2>2, <2>3, <2>4, DocSteps
<1>3. ASSUME NEW t \in Thread, MakeRequest(t) \/ Fail(t) \/ TransactionTimeout(t)
      PROVE  Books!SettlementNext
  <2>1. UNCHANGED doc /\ UNCHANGED <<books, env>>
    BY <1>3 DEF MakeRequest, Fail, TransactionTimeout, Abort
  <2> QED
    BY <1>1, <2>1 DEF books, env, Taken
<1>4. ASSUME NEW p \in Payment, PayerDecides(p) \/ LockElapses(p)
      PROVE  Books!SettlementNext
  <2>1. UNCHANGED doc /\ UNCHANGED <<vouched, entered>>
    BY <1>4 DEF PayerDecides, LockElapses, books
  <2>2. UNCHANGED Taken
    BY <1>4 DEF PayerDecides, LockElapses, Taken, TypeOK
  <2> QED
    BY <1>1, <2>1, <2>2
<1>5. ASSUME Restart PROVE Books!SettlementNext
  BY <1>1, <1>5 DEF Restart, books, env, Taken
<1>6. CASE UNCHANGED vars
  BY <1>6 DEF vars, txn, books, env, Books!settlementVars, Paid
<1> QED
  BY <1>2, <1>3, <1>4, <1>5, <1>6 DEF Next

(***************************************************************************)
(* Billing implements Settlement.                                          *)
(***************************************************************************)
THEOREM BillingFollowsBooks == Spec => FollowsBooks
<1>1. Init => Books!SettlementInit
  <2> SUFFICES ASSUME Init PROVE Books!SettlementInit
    OBVIOUS
  <2>1. ASSUME NEW d \in Doc PROVE doc[d].status \notin {"paid", "completed"}
    <3>1. CASE d \in Invoice /\ Existing[d] # {}
      BY <3>1, InitDoc
    <3>2. CASE ~(d \in Invoice /\ Existing[d] # {})
      BY <3>2, InitDoc DEF Blank
    <3> QED
      BY <3>1, <3>2
  <2> QED
    BY <2>1, DocSets DEF Init, Books!SettlementInit, Paid
<1>2. TypeOK /\ TypeOK' /\ LedgerInv /\ LedgerInv' /\ [Next]_vars
        => [Books!SettlementNext]_(Books!settlementVars)
  BY NextFollows
<1> QED
  BY <1>1, <1>2, BillingType, LedgerCorrect, PTL
     DEF Spec, FollowsBooks, Books!SettlementSpec

(***************************************************************************)
(* The rules of Settlement keep the books sound: none takes back a voucher.*)
(***************************************************************************)
LEMMA BooksSound == Books!SettlementSpec => []Books!Sound
<1>1. Books!SettlementInit => Books!Sound
  BY DEF Books!SettlementInit, Books!Sound
<1>2. Books!Sound /\ [Books!SettlementNext]_(Books!settlementVars) => Books!Sound'
  <2> SUFFICES ASSUME Books!Sound, [Books!SettlementNext]_(Books!settlementVars)
               PROVE  Books!Sound'
    OBVIOUS
  <2>1. CASE Books!Vouch
    BY <2>1 DEF Books!Sound, Books!Vouch
  <2>2. ASSUME NEW p \in Payment, Books!Take(p) PROVE Books!Sound'
    BY <2>2 DEF Books!Sound, Books!Take
  <2>3. ASSUME NEW V \in SUBSET Invoice, NEW C \in SUBSET (Payment \X Invoice),
               Books!Settle(V, C)
        PROVE  Books!Sound'
    BY <2>3 DEF Books!Sound, Books!Settle
  <2>4. CASE UNCHANGED Books!settlementVars
    BY <2>4 DEF Books!Sound, Books!settlementVars
  <2> QED
    BY <2>1, <2>2, <2>3, <2>4 DEF Books!SettlementNext
<1> QED
  BY <1>1, <1>2, PTL DEF Books!SettlementSpec

(***************************************************************************)
(* Hence billing keeps them so: what is settled has a voucher, and a       *)
(* completed payment is one the bank confirmed for an invoice that has one.*)
(***************************************************************************)
THEOREM SettlementSound == Spec => []Books!Sound
  BY BillingFollowsBooks, BooksSound, PTL DEF FollowsBooks

(***************************************************************************)
(* Only a commit makes an invoice paid, and then its transaction has paid  *)
(* the incomes too.                                                        *)
(***************************************************************************)
LEMMA CommitPaysTogether ==
    ASSUME TypeOK, LedgerInv, NEW t \in Thread, Commit(t),
           NEW v \in Invoice, Paid(v)', ~Paid(v), NEW i \in doc'[v].items
    PROVE  doc'[i].status = "paid"
<1>1. /\ \A d \in Doc : d \in wrote[t] => doc'[d] = buf[t][d]
      /\ \A d \in Doc : d \notin wrote[t] => doc'[d] = doc[d]
      /\ \A d : Pays(t, d) => d \in wrote[t] /\ buf[t][d].status = "paid"
      /\ RequestInv(t)
  BY CommitDocs
<1>2. v \in wrote[t] /\ doc'[v] = buf[t][v] /\ NewlyPaid(t, v)
  BY <1>1, DocSets DEF Paid, NewlyPaid
<1>3. Pays(t, i)
  BY <1>1, <1>2 DEF RequestInv, TogetherInv
<1>4. i \in Doc
  BY <1>1, <1>2, DocSets DEF RequestInv, BufInv, Shape
<1> QED
  BY <1>1, <1>3, <1>4

LEMMA NextPaysTogether ==
    ASSUME TypeOK, LedgerInv, [Next]_vars,
           NEW v \in Invoice, Paid(v)', ~Paid(v), NEW i \in doc'[v].items
    PROVE  doc'[i].status = "paid"
<1>1. ~UNCHANGED doc /\ ~(Settled' \subseteq Settled)
  BY DEF Settled, Paid
<1>2. PICK t \in Thread : Proceed(t)
  <2>1. ASSUME NEW t \in Thread, MakeRequest(t) \/ Fail(t) \/ TransactionTimeout(t)
        PROVE  UNCHANGED doc
    BY <2>1 DEF MakeRequest, Fail, TransactionTimeout, Abort
  <2>2. ASSUME NEW p \in Payment, PayerDecides(p) \/ LockElapses(p)
        PROVE  UNCHANGED doc
    BY <2>2 DEF PayerDecides, LockElapses
  <2>3. Restart => UNCHANGED doc
    BY DEF Restart
  <2>4. UNCHANGED vars => UNCHANGED doc
    BY DEF vars
  <2> QED
    BY <1>1, <2>1, <2>2, <2>3, <2>4 DEF Next
<1>3. Commit(t)
  BY <1>1, <1>2, DocSteps, WriteDirectFollows, InsertFollows, CreatePaymentFollows
<1> QED
  BY <1>3, CommitPaysTogether

(***************************************************************************)
(* An invoice and its incomes become paid in one step, makeInvoicePaid's   *)
(* commit, whatever else is written meanwhile.                             *)
(***************************************************************************)
THEOREM BillingPaidTogether == Spec => PaidTogether
<1>1. TypeOK /\ LedgerInv /\ [Next]_vars
        => [\A v \in Invoice : Paid(v)' /\ ~Paid(v) =>
              \A i \in doc'[v].items : doc'[i].status = "paid"]_vars
  BY NextPaysTogether
<1> QED
  BY <1>1, BillingType, LedgerCorrect, PTL DEF Spec, PaidTogether

=============================================================================
