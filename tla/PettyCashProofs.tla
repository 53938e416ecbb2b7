--------------------------- MODULE PettyCashProofs ---------------------------
(***************************************************************************)
(* Proofs about petty cashes and the costs paid from them.                 *)
(***************************************************************************)
EXTENDS PettyCash, SumProofs, SequenceTheorems

-----------------------------------------------------------------------------
(* Which cashes pay.                                                       *)

Remains(found) == [k \in 1..Len(found) |-> cash[found[k]].remain]

IsLeft(cum, found) ==
    cum = [k \in 0..Len(found) |->
             IF k = 0 THEN 0 ELSE cum[k - 1] + cash[found[k]].remain]

\* What the first k of the cashes found have left is the sum of their remainders.
LEMMA LeftSums ==
    ASSUME cash \in [Cash -> CashDoc], NEW found \in Seq(Cash)
    PROVE  /\ Len(found) \in Nat
           /\ Remains(found) \in [1..Len(found) -> Int]
           /\ Left(found) \in [0..Len(found) -> Int]
           /\ Accumulates(Left(found), Remains(found), Len(found))
           /\ \A k \in 0..Len(found) :
                Left(found)[k] = SumFunction([j \in 1..k |-> Remains(found)[j]])
<1> DEFINE n == Len(found)
           r == Remains(found)
           l == Left(found)
<1>1. n \in Nat /\ found \in [1..n -> Cash]
  BY LenProperties
<1>2. r \in [1..n -> Int] /\ \A k \in 1..n : r[k] = cash[found[k]].remain
  BY <1>1 DEF Remains, CashDoc
<1> HIDE DEF r
<1>3. PICK h \in [0..n -> Int] :
        /\ Accumulates(h, r, n)
        /\ \A k \in 0..n : h[k] = SumFunction([j \in 1..k |-> r[j]])
  BY <1>1, <1>2, PrefixSums
<1>4. IsLeft(h, found)
  BY <1>1, <1>2, <1>3 DEF Accumulates, IsLeft
<1>5. IsLeft(l, found)
  <2>1. l = CHOOSE cum : IsLeft(cum, found)
    BY DEF Left, IsLeft
  <2> HIDE DEF l
  <2> QED
    BY <1>4, <2>1
<1> HIDE DEF l, n
<1> DEFINE N == {k \in Nat : k \in 0..n => l[k] = h[k]}
<1>6. l = [k \in 0..n |-> l[k]]
  BY <1>5 DEF IsLeft, n
<1>7. \A k \in 0..n : l[k] = IF k = 0 THEN 0 ELSE l[k - 1] + r[k]
  <2>1. \A k \in 0..n :
          l[k] = IF k = 0 THEN 0 ELSE l[k - 1] + cash[found[k]].remain
    BY <1>5 DEF IsLeft, n
  <2>2. ASSUME NEW k \in 0..n, k # 0 PROVE k \in 1..n
    BY <1>1, <2>2
  <2> QED
    BY <1>2, <2>1, <2>2
<1>8. \A k \in 1..n : h[k] = h[k - 1] + r[k]
  BY <1>3 DEF Accumulates
<1>9. 0 \in N
  BY <1>1, <1>3, <1>7 DEF Accumulates
<1>10. ASSUME NEW k \in N PROVE k + 1 \in N
  BY <1>1, <1>7, <1>8, <1>10
<1>11. N = Nat
  <2>1. N \in SUBSET Nat
    OBVIOUS
  <2> HIDE DEF N
  <2> QED
    BY <1>9, <1>10, <2>1, InductiveSet
<1>12. \A k \in 0..n : l[k] = h[k]
  BY <1>1, <1>11
<1>13. l = h
  BY <1>6, <1>12
<1> QED
  BY <1>1, <1>2, <1>3, <1>13 DEF n, l, r

LEMMA MinIs ==
    ASSUME NEW T \in SUBSET Nat, T # {}
    PROVE  Min(T) \in T /\ \A m \in T : Min(T) <= m
<1>1. \E n \in T : \A m \in T : n <= m
  BY LeastNumber
<1> QED
  BY <1>1 DEF Min

\* Each share is from one of the cashes found, no more than it has, and takes
\* nothing back from a cash that has something.
From(info, found, price) ==
    \A j \in DOMAIN info :
        /\ \E i \in DOMAIN found : info[j].cash = found[i]
        /\ info[j].amount <= cash[info[j].cash].remain
        /\ price >= 0 /\ cash[info[j].cash].remain >= 0 => info[j].amount >= 0

\* What is allocated pays the cost in full out of what the cashes have.
LEMMA AllocationPays ==
    ASSUME cash \in [Cash -> CashDoc],
           NEW found \in Seq(Cash),
           \A i, j \in DOMAIN found : found[i] = found[j] => i = j,
           NEW price \in Int, Allocation(found, price) # <<>>
    PROVE  /\ Allocation(found, price) \in Seq(Share)
           /\ InFull(Allocation(found, price), price)
           /\ From(Allocation(found, price), found, price)
<1> DEFINE cum      == Left(found)
           r        == Remains(found)
           info     == Allocation(found, price)
           alone    == {k \in DOMAIN found : Covers(cash[found[k]].remain, price)}
           together == {k \in DOMAIN found : Covers(cum[k], price)}
<1>1. Len(found) \in Nat /\ DOMAIN found = 1..Len(found) /\ found \in [1..Len(found) -> Cash]
  BY LenProperties
<1>2. /\ \A k \in DOMAIN found : /\ found[k] \in Cash
                                  /\ cash[found[k]].remain \in Int
                                  /\ r[k] = cash[found[k]].remain
      /\ alone \in SUBSET Nat /\ together \in SUBSET Nat
  BY <1>1 DEF CashDoc, Remains
<1>3. CASE alone # {}
  <2> DEFINE m == Min(alone)
             c == found[m]
             f == [j \in {1} |-> price]
  <2>1. m \in DOMAIN found /\ cash[c].remain >= price
    <3>1. m \in alone
      BY <1>2, <1>3, MinIs
    <3> QED
      BY <3>1 DEF Covers
  <2>2. info = <<[cash |-> c, amount |-> price]>>
    BY <1>3 DEF Allocation
  <2>3. c \in Cash
    BY <1>2, <2>1
  <2> HIDE DEF m, info
  <2>4. info \in Seq(Share)
    BY <2>2, <2>3 DEF Share
  <2>5. DOMAIN info = {1} /\ info[1].cash = c /\ info[1].amount = price
    BY <2>2
  <2>6. SumFunction([j \in DOMAIN info |-> info[j].amount]) = price
    <3>1. f \in [{1} -> Int] /\ f[1] = price
      OBVIOUS
    <3>2. [j \in DOMAIN info |-> info[j].amount] = f
      BY <2>5
    <3> HIDE DEF f
    <3>3. SumFunction(f) = f[1]
      BY <3>1, SumSingle
    <3> QED
      BY <3>1, <3>2, <3>3
  <2> QED
    BY <2>1, <2>4, <2>5, <2>6 DEF InFull, From, info
<1>4. CASE alone = {}
  <2> DEFINE n == Min(together)
             f == [j \in 1..n |-> info[j].amount]
             e == [j \in 1..n - 1 |-> r[j]]
  <2>1. together # {}
    BY <1>4 DEF Allocation
  <2>2. n \in DOMAIN found /\ Covers(cum[n], price) /\ \A k \in together : n <= k
    BY <1>2, <2>1, MinIs
  <2>3. info = [k \in 1..n |->
                 [cash   |-> found[k],
                  amount |-> IF k = n THEN LastShare(found, n, cum, price)
                             ELSE cash[found[k]].remain]]
    BY <1>4, <2>1 DEF Allocation
  <2>4. \A k \in DOMAIN found : ~(r[k] >= price)
    BY <1>2, <1>4 DEF Covers
  <2>5. /\ cum \in [0..Len(found) -> Int]
        /\ cum[0] = 0 /\ \A k \in 1..Len(found) : cum[k] = cum[k - 1] + r[k]
        /\ \A k \in 0..Len(found) : cum[k] = SumFunction([j \in 1..k |-> r[j]])
    BY LeftSums DEF Accumulates
  <2> HIDE DEF info, cum, n, alone, r
  <2>6. n \in Nat /\ n # 0 /\ n - 1 \in 0..Len(found) /\ n \in 1..Len(found)
    BY <1>1, <2>2
  <2>7. n - 1 # 0
    <3>1. n = 1 => cum[n] = r[n]
      BY <1>1, <1>2, <2>2, <2>5
    <3> QED
      BY <2>2, <2>4, <2>6, <3>1 DEF Covers
  <2>8. /\ cum[n - 1] \in Int /\ cum[n - 1] < price
        /\ cum[n] = cum[n - 1] + r[n] /\ cum[n] >= price
    <3>1. n - 1 \in DOMAIN found /\ n - 1 \notin together
      BY <1>1, <2>2, <2>6, <2>7
    <3> QED
      BY <2>2, <2>5, <2>6, <3>1 DEF Covers
  <2>9. /\ LastShare(found, n, cum, price) \in Int
        /\ LastShare(found, n, cum, price) > 0
        /\ LastShare(found, n, cum, price) = price - cum[n - 1]
        /\ LastShare(found, n, cum, price) <= cash[found[n]].remain
    BY <1>2, <2>2, <2>8 DEF LastShare
  <2>10. \A k \in 1..n : /\ k \in DOMAIN found
                          /\ info[k].cash = found[k] /\ info[k].amount \in Int
                          /\ info[k].amount <= cash[found[k]].remain
    BY <1>1, <1>2, <2>3, <2>6, <2>9
  <2>20. \A k \in 1..n : cash[found[k]].remain >= 0 => info[k].amount >= 0
    BY <1>1, <1>2, <2>3, <2>6, <2>9
  <2>11. DOMAIN info = 1..n
    BY <2>3
  <2>12. info \in Seq(Share)
    <3>1. info \in [1..n -> Share]
      BY <1>1, <1>2, <2>3, <2>6, <2>9 DEF Share
    <3> QED
      BY <2>6, <3>1
  <2>13. /\ f \in [1..n -> Int] /\ e \in [1..n - 1 -> Int]
         /\ \A k \in 1..n - 1 : e[k] = f[k]
    BY <1>2, <2>3, <2>6, <2>10
  <2>14. f[n] = price - cum[n - 1]
    BY <2>3, <2>6, <2>9
  <2>15. SumFunction(e) = cum[n - 1]
    BY <2>5, <2>6
  <2> HIDE DEF f, e
  <2>16. SumFunction(f) = SumFunction(e) + f[n]
    BY <2>6, <2>13, SumSequence
  <2>17. SumFunction(f) = price
    BY <2>8, <2>14, <2>15, <2>16
  <2>18. f = [j \in DOMAIN info |-> info[j].amount]
    BY <2>11 DEF f
  <2>19. \A i, j \in DOMAIN info : info[i].cash = info[j].cash => i = j
    BY <2>10, <2>11
  <2>21. InFull(info, price)
    BY <2>17, <2>18, <2>19 DEF InFull
  <2>22. From(info, found, price)
    BY <2>10, <2>11, <2>20 DEF From
  <2> QED
    BY <2>12, <2>21, <2>22 DEF info
<1> QED
  BY <1>3, <1>4

-----------------------------------------------------------------------------
(* Agendas.                                                                *)

LEMMA ThenIs ==
    ASSUME TypeOK, NEW t \in Thread, agenda[t] # <<>>,
           NEW new \in Seq(Step), Then(t, new)
    PROVE  /\ agenda' \in [Thread -> Seq(Step)]
           /\ agenda'[t] = new \o Tail(agenda[t])
           /\ \A u \in Thread \ {t} : agenda'[u] = agenda[u]
           /\ Len(new) \in Nat /\ Len(agenda[t]) \in Nat \ {0}
           /\ DOMAIN agenda[t] = 1..Len(agenda[t])
           /\ DOMAIN agenda'[t] = 1..Len(new) + Len(agenda[t]) - 1
           /\ \A i \in DOMAIN agenda'[t] :
                agenda'[t][i] = IF i <= Len(new) THEN new[i]
                                ELSE agenda[t][i - Len(new) + 1]
<1> DEFINE q == agenda[t]
<1>1. q \in Seq(Step) /\ q # <<>>
  BY DEF TypeOK
<1>2. agenda' = [agenda EXCEPT ![t] = new \o Tail(q)]
  BY DEF Then
<1>3. /\ Len(q) \in Nat \ {0} /\ DOMAIN q = 1..Len(q) /\ Len(new) \in Nat
      /\ Tail(q) \in Seq(Step) /\ Len(Tail(q)) = Len(q) - 1
      /\ \A j \in 1..Len(q) - 1 : Tail(q)[j] = q[j + 1]
  BY <1>1, HeadTailProperties, LenProperties, EmptySeq
<1> HIDE DEF q
<1> DEFINE w == new \o Tail(q)
<1>4. /\ w \in Seq(Step) /\ Len(w) = Len(new) + Len(Tail(q))
      /\ \A i \in 1..Len(new) + Len(Tail(q)) :
           w[i] = IF i <= Len(new) THEN new[i] ELSE Tail(q)[i - Len(new)]
  BY <1>3, ConcatProperties
<1>5. DOMAIN w = 1..Len(new) + Len(q) - 1
  BY <1>3, <1>4, LenProperties
<1> HIDE DEF w
<1>6. agenda' \in [Thread -> Seq(Step)] /\ agenda'[t] = w
  BY <1>2, <1>4 DEF TypeOK, w
<1>7. \A u \in Thread \ {t} : agenda'[u] = agenda[u]
  BY <1>2 DEF TypeOK
<1>8. ASSUME NEW i \in DOMAIN w
      PROVE  w[i] = IF i <= Len(new) THEN new[i] ELSE q[i - Len(new) + 1]
  <2>1. i \in 1..Len(new) + Len(Tail(q)) /\ i \in Int
    BY <1>3, <1>5
  <2>2. CASE i <= Len(new)
    BY <1>4, <2>1, <2>2
  <2>3. CASE ~(i <= Len(new))
    <3>1. i - Len(new) \in 1..Len(q) - 1
      BY <1>3, <2>1, <2>3
    <3> QED
      BY <1>3, <1>4, <2>1, <2>3, <3>1
  <2> QED
    BY <2>2, <2>3
<1> QED
  BY <1>3, <1>5, <1>6, <1>7, <1>8 DEF q, w

\* A write with nothing to add leaves the steps after the first.
LEMMA ThenNone ==
    ASSUME TypeOK, NEW t \in Thread, agenda[t] # <<>>, Then(t, <<>>)
    PROVE  /\ agenda' \in [Thread -> Seq(Step)]
           /\ agenda'[t] = Tail(agenda[t])
           /\ \A u \in Thread \ {t} : agenda'[u] = agenda[u]
           /\ Len(agenda[t]) \in Nat \ {0}
           /\ DOMAIN agenda[t] = 1..Len(agenda[t])
           /\ DOMAIN agenda'[t] = 1..Len(agenda[t]) - 1
           /\ \A i \in DOMAIN agenda'[t] : agenda'[t][i] = agenda[t][i + 1]
<1> DEFINE none == <<>>
<1>1. none \in Seq(Step) /\ Len(none) = 0
  BY EmptySeq
<1>2. Tail(agenda[t]) \in Seq(Step)
  BY HeadTailProperties DEF TypeOK
<1>3. none \o Tail(agenda[t]) = Tail(agenda[t])
  BY <1>2, ConcatEmptySeq
<1>4. Then(t, none)
  OBVIOUS
<1> HIDE DEF none
<1>5. /\ agenda' \in [Thread -> Seq(Step)]
      /\ agenda'[t] = none \o Tail(agenda[t])
      /\ \A u \in Thread \ {t} : agenda'[u] = agenda[u]
      /\ Len(agenda[t]) \in Nat \ {0}
      /\ DOMAIN agenda[t] = 1..Len(agenda[t])
      /\ DOMAIN agenda'[t] = 1..Len(none) + Len(agenda[t]) - 1
      /\ \A i \in DOMAIN agenda'[t] :
           agenda'[t][i] = IF i <= Len(none) THEN none[i]
                           ELSE agenda[t][i - Len(none) + 1]
  BY <1>1, <1>4, ThenIs
<1>6. DOMAIN agenda'[t] = 1..Len(agenda[t]) - 1
  BY <1>1, <1>5
<1>7. ASSUME NEW i \in DOMAIN agenda'[t] PROVE agenda'[t][i] = agenda[t][i + 1]
  <2>1. i \in Int /\ i > 0 /\ i - 0 + 1 = i + 1
    BY <1>5, <1>6
  <2> QED
    BY <1>1, <1>5, <2>1
<1> QED
  BY <1>3, <1>5, <1>6, <1>7

\* The first step, and what its kind says of it.
LEMMA HeadIs ==
    ASSUME CashInv, NEW t \in Thread, agenda[t] # <<>>
    PROVE  LET s == Head(agenda[t]) IN
           /\ s = agenda[t][1] /\ 1 \in DOMAIN agenda[t]
           /\ s \in Step /\ StepInv(s)
           /\ s.op = "createCost" => s.new \in CostDoc
           /\ s.op = "setRemain" => s.cash \in Cash /\ s.remain \in Int
           /\ s.op = "refund" => s.cash \in Cash /\ s.amount \in Int
           /\ s.op = "setAmount" => s.cash \in Cash /\ s.amount \in Int /\ s.remain \in Int
           /\ s.op = "clearAmount" => s.cash \in Cash
           /\ s.op = "setCash" => s.cash \in Cash /\ s.status \in {"inactive", "deleted"}
           /\ s.op = "setCosts" => /\ s.costs \in SUBSET Cost
                                  /\ s.status \in {"unpaid", "pending", "paid", "deleted"}
           /\ s.op = "setBudget" => s.costs \in SUBSET Cost
<1> DEFINE s == Head(agenda[t])
<1>1. agenda[t] \in Seq(Step)
  BY DEF CashInv, TypeOK
<1>2. s = agenda[t][1] /\ 1 \in DOMAIN agenda[t] /\ s \in Step
  BY <1>1, HeadTailProperties, LenProperties, EmptySeq
<1>3. StepInv(s)
  BY <1>2 DEF CashInv
<1> HIDE DEF s
<1> QED
  BY <1>2, <1>3 DEF Step, s

\* The agenda of a request: a first step, and those that follow it.
LEMMA OneThen ==
    ASSUME NEW a \in Step, NEW w \in Seq(Step)
    PROVE  /\ <<a>> \o w \in Seq(Step) /\ <<a>> \o w # <<>>
           /\ Len(w) \in Nat /\ DOMAIN w = 1..Len(w)
           /\ DOMAIN (<<a>> \o w) = 1..Len(w) + 1
           /\ (<<a>> \o w)[1] = a /\ Head(<<a>> \o w) = a
           /\ \A i \in DOMAIN (<<a>> \o w) :
                i # 1 => i - 1 \in DOMAIN w /\ (<<a>> \o w)[i] = w[i - 1]
<1> DEFINE p == <<a>>
<1>1. p \in Seq(Step) /\ Len(p) = 1 /\ p[1] = a
  OBVIOUS
<1>2. Len(w) \in Nat /\ DOMAIN w = 1..Len(w)
  BY LenProperties
<1> HIDE DEF p
<1> DEFINE q == p \o w
<1>3. /\ q \in Seq(Step) /\ Len(q) = Len(p) + Len(w)
      /\ \A i \in 1..Len(p) + Len(w) : q[i] = IF i <= Len(p) THEN p[i] ELSE w[i - Len(p)]
  BY <1>1, ConcatProperties
<1> HIDE DEF q
<1>4. DOMAIN q = 1..Len(w) + 1
  BY <1>1, <1>2, <1>3, LenProperties
<1>5. q # <<>>
  BY <1>1, <1>2, <1>3, EmptySeq
<1>6. Head(q) = q[1]
  BY <1>3, <1>5, HeadTailProperties
<1>7. q[1] = a /\ \A i \in 1..Len(w) + 1 : i # 1 => i - 1 \in 1..Len(w) /\ q[i] = w[i - 1]
  BY <1>1, <1>2, <1>3
<1> QED
  BY <1>1, <1>2, <1>3, <1>4, <1>5, <1>6, <1>7 DEF p, q

LEMMA OnlyOne ==
    ASSUME NEW a \in Step
    PROVE  /\ <<a>> \in Seq(Step) /\ <<a>> # <<>>
           /\ DOMAIN <<a>> = {1} /\ <<a>>[1] = a /\ Head(<<a>>) = a
  OBVIOUS

-----------------------------------------------------------------------------
(* However requests interleave or fail.                                    *)

\* Documents only come into being, costs only gain a budget, and a cash once
\* filled or charged with less than nothing remains one that was.
Steady ==
    /\ minus \subseteq minus'
    /\ \A c \in Cash : cash[c].status # "none" => cash'[c].status # "none"
    /\ \A k \in Cost : cost[k].status # "none" =>
         cost'[k].status # "none" /\ (cost[k].budget => cost'[k].budget)

LEMMA CostStays ==
    ASSUME NEW d \in CostDoc, CostInv(d), Steady
    PROVE  CostInv(d)'
<1>1. ASSUME NEW j \in DOMAIN d.pettyCashInfo
      PROVE  d.pettyCashInfo[j].cash \in Cash
  <2>1. d.pettyCashInfo \in Seq(Share)
    BY DEF CostDoc
  <2>2. d.pettyCashInfo[j] \in Share
    BY <2>1, LenProperties, ElementOfSeq
  <2> QED
    BY <2>2 DEF Share
<1>2. ASSUME NEW x \in Range(d.pettyCashInfo)
      PROVE  /\ cash'[x.cash].status # "none"
             /\ d.price >= 0 /\ x.cash \notin minus' => x.amount >= 0
  <2>1. x.cash \in Cash
    BY <1>1 DEF Range
  <2> QED
    BY <2>1 DEF CostInv, Steady
<1> QED
  BY <1>2 DEF CostInv, InFull

LEMMA StepStays ==
    ASSUME NEW s \in Step, StepInv(s), Steady
    PROVE  StepInv(s)'
<1>1. CASE s.op = "createCost"
  <2>1. s.new \in CostDoc
    BY <1>1 DEF Step
  <2>2. CostInv(s.new)'
    BY <1>1, <2>1, CostStays DEF StepInv
  <2> QED
    BY <1>1, <2>2 DEF StepInv
<1>2. CASE s.op = "setCosts"
  <2>1. s.costs \in SUBSET Cost
    BY <1>2 DEF Step
  <2> QED
    BY <1>2, <2>1 DEF StepInv, Steady
<1>3. CASE s.op \in {"setRemain", "refund", "setAmount"}
  <2>1. s.cash \notin minus' => s.cash \notin minus
    BY DEF Steady
  <2> QED
    BY <1>3, <2>1 DEF StepInv
<1>4. CASE s.op \notin {"createCost", "setCosts", "setRemain", "refund", "setAmount"}
  BY <1>4 DEF StepInv
<1> QED
  BY <1>1, <1>2, <1>3, <1>4

\* The cashes that pay a negative price.
Charged(k) == cost[k].price < 0 => Payers(cost[k].pettyCashInfo) \subseteq minus

CostsInv == \A k \in Cost : CostInv(cost[k]) /\ Charged(k)

AgendaInv(t) ==
    \A i \in DOMAIN agenda[t] :
        /\ StepInv(agenda[t][i])
        /\ i # 1 => agenda[t][i].op \in {"setRemain", "refund"}

\* Costs that are not written.
LEMMA CostsStay ==
    ASSUME CashInv, Steady, UNCHANGED cost
    PROVE  CostsInv'
<1>1. cost \in [Cost -> CostDoc]
  BY DEF CashInv, TypeOK
<1>2. ASSUME NEW k \in Cost PROVE CostInv(cost[k])' /\ Charged(k)'
  <2>1. \A d \in CostDoc : CostInv(d) => CostInv(d)'
    BY CostStays
  <2>2. CostInv(cost[k])'
    BY <1>1, <2>1 DEF CashInv, CostInv
  <2>3. Charged(k)'
    BY DEF CashInv, Charged, Steady, Payers
  <2> QED
    BY <2>2, <2>3
<1> QED
  BY <1>2 DEF CostsInv

LEMMA StepIn ==
    ASSUME TypeOK, NEW t \in Thread, NEW i \in DOMAIN agenda[t]
    PROVE  agenda[t][i] \in Step
<1>1. agenda[t] \in Seq(Step)
  BY DEF TypeOK
<1> QED
  BY <1>1, LenProperties, ElementOfSeq

LEMMA AgendaStays ==
    ASSUME CashInv, Steady, NEW u \in Thread, agenda'[u] = agenda[u]
    PROVE  AgendaInv(u)'
<1>1. \A s \in Step : StepInv(s) => StepInv(s)'
  BY StepStays
<1>2. ASSUME NEW i \in DOMAIN agenda[u] PROVE StepInv(agenda[u][i])'
  <2>1. agenda[u][i] \in Step /\ StepInv(agenda[u][i])
    BY StepIn DEF CashInv
  <2> QED
    BY <1>1, <2>1 DEF StepInv, CostInv
<1> QED
  BY <1>2 DEF AgendaInv, CashInv

\* A request adds an agenda and writes nothing.
LEMMA RequestInv ==
    ASSUME CashInv, NEW t \in Thread, NEW steps \in Seq(Step), Request(t, steps),
           \A i \in DOMAIN steps :
             StepInv(steps[i]) /\ (i # 1 => steps[i].op \in {"setRemain", "refund"})
    PROVE  CashInv'
<1>1. /\ UNCHANGED <<cash, cost, waived, minus, faults>> /\ requests' = requests + 1
      /\ requests < MaxRequests
      /\ agenda' = [agenda EXCEPT ![t] = steps] /\ orderly' \in BOOLEAN
  BY DEF Request, CashInv, TypeOK
<1>2. TypeOK'
  BY <1>1, PettyCashAssumption DEF CashInv, TypeOK
<1>3. NeverNegative' /\ CostsInv' /\ Steady
  BY <1>1 DEF CashInv, NeverNegative, CostInv, CostsInv, Charged, Steady
<1>4. ASSUME NEW u \in Thread PROVE AgendaInv(u)'
  <2>1. CASE u = t
    <3>1. agenda'[u] = steps
      BY <1>1, <2>1 DEF CashInv, TypeOK
    <3> QED
      BY <1>1, <3>1 DEF AgendaInv, StepInv, CostInv
  <2>2. CASE u # t
    <3>1. agenda'[u] = agenda[u]
      BY <1>1, <2>2 DEF CashInv, TypeOK
    <3> QED
      BY <1>3, <3>1, AgendaStays
  <2> QED
    BY <2>1, <2>2
<1> QED
  BY <1>2, <1>3, <1>4 DEF CashInv, CostsInv, Charged, AgendaInv

\* A write takes its step off the agenda.
LEMMA WriteInv ==
    ASSUME CashInv, NEW t \in Thread, agenda[t] # <<>>, Then(t, <<>>),
           UNCHANGED <<orderly, requests, faults>>,
           cash' \in [Cash -> CashDoc], cost' \in [Cost -> CostDoc],
           waived' \in [Cash -> Int], minus' \in SUBSET Cash,
           Steady, NeverNegative', CostsInv'
    PROVE  CashInv'
<1>1. TypeOK
  BY DEF CashInv
<1>2. /\ agenda' \in [Thread -> Seq(Step)]
      /\ \A u \in Thread \ {t} : agenda'[u] = agenda[u]
      /\ Len(agenda[t]) \in Nat \ {0}
      /\ DOMAIN agenda[t] = 1..Len(agenda[t])
      /\ DOMAIN agenda'[t] = 1..Len(agenda[t]) - 1
      /\ \A i \in DOMAIN agenda'[t] : agenda'[t][i] = agenda[t][i + 1]
  BY <1>1, ThenNone
<1>3. TypeOK'
  BY <1>1, <1>2 DEF TypeOK
<1>4. AgendaInv(t)'
  <2>1. \A s \in Step : StepInv(s) => StepInv(s)'
    BY StepStays
  <2>2. ASSUME NEW i \in DOMAIN agenda'[t]
        PROVE  StepInv(agenda[t][i])' /\ agenda'[t][i].op \in {"setRemain", "refund"}
    <3>1. i + 1 \in DOMAIN agenda[t] /\ i + 1 # 1 /\ agenda'[t][i] = agenda[t][i + 1]
      BY <1>2
    <3>2. /\ agenda[t][i + 1] \in Step /\ StepInv(agenda[t][i + 1])
          /\ agenda[t][i + 1].op \in {"setRemain", "refund"}
      BY <1>1, <3>1, StepIn DEF CashInv
    <3> QED
      BY <2>1, <3>1, <3>2 DEF StepInv, CostInv
  <2> QED
    BY <2>2 DEF AgendaInv
<1>5. ASSUME NEW u \in Thread \ {t} PROVE AgendaInv(u)'
  BY <1>2, AgendaStays
<1> QED
  BY <1>3, <1>4, <1>5 DEF CashInv, CostsInv, Charged, AgendaInv

-----------------------------------------------------------------------------
(* Requests.                                                               *)

LEMMA FoundIs ==
    ASSUME NEW S \in SUBSET Cash, NEW found \in SetToSeqs(S)
    PROVE  /\ found \in Seq(Cash)
           /\ \A i, j \in DOMAIN found : found[i] = found[j] => i = j
           /\ \A i \in DOMAIN found : found[i] \in S
<1>1. Cardinality(S) \in Nat
  BY PettyCashAssumption, FS_Subset, FS_CardinalityType
<1>2. /\ found \in [1..Cardinality(S) -> S]
      /\ \A i, j \in 1..Cardinality(S) : i # j => found[i] # found[j]
  BY DEF SetToSeqs
<1>3. found \in [1..Cardinality(S) -> Cash]
  BY <1>2
<1> QED
  BY <1>1, <1>2, <1>3

\* What one cash gives for a cost, and what it has left.
Pays(share) ==
    [op |-> "setRemain", cash |-> share.cash,
     remain |-> cash[share.cash].remain - share.amount]

\* Cost new is about to be created, the writes w will take its shares.
Creates(t, new, w) ==
    /\ Request(t, <<[op |-> "createCost", new |-> new]>> \o w)
    /\ new.status = "unpaid" /\ CostInv(new)
    /\ DOMAIN w = DOMAIN new.pettyCashInfo
    /\ \A k \in DOMAIN w : /\ w[k] = Pays(new.pettyCashInfo[k])
                           /\ new.pettyCashInfo[k] \in Share
                           /\ w[k].remain >= 0

LEMMA CreatePettyCostIs ==
    ASSUME CashInv, NEW t \in Thread, CreatePettyCost(t)
    PROVE  \E new \in CostDoc, w \in Seq(Step) : Creates(t, new, w)
<1>1. PICK S \in SUBSET {c \in Cash : cash[c].status = "active"} :
      \E found \in SetToSeqs(S), price \in Prices :
        /\ Allocation(found, price) # <<>>
        /\ Request(t,
             <<[op |-> "createCost",
                new |-> [status |-> "unpaid", official |-> TRUE, budget |-> TRUE,
                         price |-> price, pettyCashInfo |-> Allocation(found, price)]]>>
             \o [k \in DOMAIN Allocation(found, price) |->
                   [op     |-> "setRemain",
                    cash   |-> Allocation(found, price)[k].cash,
                    remain |-> cash[Allocation(found, price)[k].cash].remain
                                 - Allocation(found, price)[k].amount]])
  BY Zenon DEF CreatePettyCost
<1>2. PICK found \in SetToSeqs(S), price \in Prices :
        /\ Allocation(found, price) # <<>>
        /\ Request(t,
             <<[op |-> "createCost",
                new |-> [status |-> "unpaid", official |-> TRUE, budget |-> TRUE,
                         price |-> price, pettyCashInfo |-> Allocation(found, price)]]>>
             \o [k \in DOMAIN Allocation(found, price) |->
                   [op     |-> "setRemain",
                    cash   |-> Allocation(found, price)[k].cash,
                    remain |-> cash[Allocation(found, price)[k].cash].remain
                                 - Allocation(found, price)[k].amount]])
  BY <1>1, Zenon
<1> DEFINE info == Allocation(found, price)
           new  == [status |-> "unpaid", official |-> TRUE, budget |-> TRUE,
                    price |-> price, pettyCashInfo |-> info]
           w    == [k \in DOMAIN info |->
                      [op     |-> "setRemain",
                       cash   |-> info[k].cash,
                       remain |-> cash[info[k].cash].remain - info[k].amount]]
<1>3. info # <<>> /\ Request(t, <<[op |-> "createCost", new |-> new]>> \o w)
  BY <1>2, Zenon
<1>4. S \in SUBSET Cash /\ price \in Int
  BY PettyCashAssumption
<1>5. /\ found \in Seq(Cash)
      /\ \A i, j \in DOMAIN found : found[i] = found[j] => i = j
      /\ \A i \in DOMAIN found : found[i] \in S
  BY <1>4, FoundIs
<1>6. cash \in [Cash -> CashDoc] /\ NeverNegative
  BY DEF CashInv, TypeOK
<1>7. info \in Seq(Share) /\ InFull(info, price) /\ From(info, found, price)
  BY <1>3, <1>4, <1>5, <1>6, AllocationPays
<1> HIDE DEF info
<1>8. ASSUME NEW k \in DOMAIN info
      PROVE  /\ info[k] \in Share /\ info[k].cash \in S
             /\ info[k].amount <= cash[info[k].cash].remain
             /\ price >= 0 /\ cash[info[k].cash].remain >= 0 => info[k].amount >= 0
  <2>1. info[k] \in Share
    BY <1>7, LenProperties, ElementOfSeq
  <2> QED
    BY <1>5, <1>7, <2>1 DEF From
<1>9. \A k \in DOMAIN info : /\ info[k].cash \in Cash /\ info[k].amount \in Int
                             /\ cash[info[k].cash].remain \in Int
  BY <1>6, <1>8 DEF Share, CashDoc
<1>10. w \in Seq(Step)
  <2>1. Len(info) \in Nat /\ DOMAIN info = 1..Len(info)
    BY <1>7, LenProperties
  <2>2. w \in [1..Len(info) -> Step]
    BY <1>9, <2>1 DEF Step
  <2> QED
    BY <2>1, <2>2
<1>11. new \in CostDoc
  BY <1>4, <1>7 DEF CostDoc
<1>12. ASSUME NEW x \in Range(info)
       PROVE  /\ cash[x.cash].status # "none"
              /\ price >= 0 /\ x.cash \notin minus => x.amount >= 0
  <2>1. PICK k \in DOMAIN info : x = info[k]
    BY DEF Range
  <2>2. x.cash \in S /\ x.cash \in Cash
    BY <1>8, <1>9, <2>1
  <2>3. x.cash \notin minus => cash[x.cash].remain >= 0
    BY <1>6, <2>2 DEF NeverNegative
  <2> QED
    BY <1>8, <2>1, <2>2, <2>3
<1>13. CostInv(new)
  <2>1. new.pettyCashInfo = info /\ new.price = price
    OBVIOUS
  <2> QED
    BY <1>7, <1>12, <2>1 DEF CostInv
<1>14. /\ new.status = "unpaid" /\ new.pettyCashInfo = info
       /\ DOMAIN w = DOMAIN info
  OBVIOUS
<1>15. ASSUME NEW k \in DOMAIN w PROVE w[k] = Pays(info[k]) /\ w[k].remain >= 0
  <2>1. k \in DOMAIN info
    BY <1>14
  <2>2. w[k] = Pays(info[k])
    BY <2>1 DEF Pays
  <2>3. w[k].remain = cash[info[k].cash].remain - info[k].amount
    BY <2>1
  <2>4. info[k].amount <= cash[info[k].cash].remain
    BY <1>8, <2>1
  <2> HIDE DEF w
  <2> QED
    BY <1>9, <2>1, <2>2, <2>3, <2>4
<1> HIDE DEF new, w
<1> QED
  BY <1>3, <1>8, <1>10, <1>11, <1>13, <1>14, <1>15 DEF Creates

\* A request of one write.
Sole(a) ==
    /\ StepInv(a)
    /\ \/ a.op = "createCost" /\ ~a.new.official
       \/ /\ a.op = "setCosts"
          /\ a.status = "deleted" => \A k \in a.costs : ~cost[k].official
       \/ a.op \in {"setBudget", "setCash", "clearAmount"}
       \/ /\ a.op = "setAmount"
          /\ a.remain = cash[a.cash].remain + (a.amount - cash[a.cash].amount)

SoleRequest(t) ==
    \/ CreateUnofficialCost(t) \/ UpdateCostsStatus(t)
    \/ UpdateUnofficialPettyCost(t) \/ UpdateSpentDate(t)
    \/ DeleteUnofficialCost(t) \/ UpdatePettyCash(t)
    \/ DeActivePettyCash(t) \/ DeletePettyCash(t)

LEMMA SoleRequestIs ==
    ASSUME CashInv, NEW t \in Thread, SoleRequest(t)
    PROVE  \E a \in Step : Request(t, <<a>>) /\ Sole(a)
<1>1. CASE CreateUnofficialCost(t)
  <2>1. PICK budget \in BOOLEAN :
          Request(t, <<[op |-> "createCost",
                        new |-> [status |-> "unpaid", official |-> FALSE,
                                 budget |-> budget, price |-> 0,
                                 pettyCashInfo |-> <<>>]]>>)
    BY <1>1, Zenon DEF CreateUnofficialCost
  <2> DEFINE d == [status |-> "unpaid", official |-> FALSE, budget |-> budget,
                   price |-> 0, pettyCashInfo |-> <<>>]
             a == [op |-> "createCost", new |-> d]
  <2>2. 0 \in Int
    OBVIOUS
  <2>3. /\ d \in CostDoc /\ ~d.official /\ d.status = "unpaid" /\ d.pettyCashInfo = <<>>
    <3>1. <<>> \in Seq(Share)
      BY EmptySeq
    <3> QED
      BY <2>2, <3>1 DEF CostDoc
  <2>4. CostInv(d)
    BY <2>3 DEF CostInv, Range
  <2>5. Request(t, <<a>>)
    BY <2>1, Zenon
  <2> HIDE DEF d
  <2>6. a \in Step /\ a.op = "createCost" /\ a.new = d
    BY <2>3 DEF Step
  <2> HIDE DEF a
  <2> QED
    BY <2>3, <2>4, <2>5, <2>6 DEF Sole, StepInv
<1>2. CASE UpdateCostsStatus(t)
  <2>1. PICK K \in SUBSET {k \in Cost : Exists(cost[k])},
             status \in {"unpaid", "pending", "paid"} :
          /\ status = "paid" => \A k \in K : MayBePaid(k)
          /\ Request(t, <<[op |-> "setCosts", costs |-> K, status |-> status]>>)
    BY <1>2, Zenon DEF UpdateCostsStatus
  <2> DEFINE a == [op |-> "setCosts", costs |-> K, status |-> status]
  <2>2. \A k \in K : k \in Cost /\ cost[k].status # "none"
    BY DEF Exists
  <2>3. status = "paid" => \A k \in K : cost[k].budget
    BY <2>1, <2>2 DEF MayBePaid, CashInv, CostInv
  <2>4. /\ a \in Step /\ a.op = "setCosts" /\ a.costs = K /\ a.status = status
    BY <2>2 DEF Step
  <2>5. Request(t, <<a>>)
    BY <2>1, Zenon
  <2> HIDE DEF a
  <2> QED
    BY <2>2, <2>3, <2>4, <2>5 DEF Sole, StepInv
<1>3. CASE UpdateUnofficialPettyCost(t)
  <2>1. PICK k \in Cost : Request(t, <<[op |-> "setBudget", costs |-> {k}]>>)
    BY <1>3, Zenon DEF UpdateUnofficialPettyCost
  <2> DEFINE a == [op |-> "setBudget", costs |-> {k}]
  <2>2. a \in Step /\ a.op = "setBudget"
    BY DEF Step
  <2> QED
    BY <2>1, <2>2 DEF Sole, StepInv
<1>4. CASE UpdateSpentDate(t)
  <2>1. PICK K \in SUBSET {k \in Cost : Exists(cost[k])} :
          Request(t, <<[op |-> "setBudget", costs |-> K]>>)
    BY <1>4, Zenon DEF UpdateSpentDate
  <2> DEFINE a == [op |-> "setBudget", costs |-> K]
  <2>2. a \in Step /\ a.op = "setBudget"
    BY DEF Step
  <2> QED
    BY <2>1, <2>2 DEF Sole, StepInv
<1>5. CASE DeleteUnofficialCost(t)
  <2>1. PICK K \in SUBSET {k \in Cost : Exists(cost[k])} :
          /\ \A k \in K : ~cost[k].official
          /\ Request(t, <<[op |-> "setCosts", costs |-> K, status |-> "deleted"]>>)
    BY <1>5, Zenon DEF DeleteUnofficialCost
  <2> DEFINE a == [op |-> "setCosts", costs |-> K, status |-> "deleted"]
  <2>2. a \in Step /\ a.op = "setCosts" /\ a.costs = K /\ a.status = "deleted"
    BY DEF Step
  <2>3. Request(t, <<a>>)
    BY <2>1, Zenon
  <2> HIDE DEF a
  <2> QED
    BY <2>1, <2>2, <2>3 DEF Sole, StepInv
<1>6. CASE UpdatePettyCash(t)
  <2>1. PICK c \in Cash, v \in Amounts :
          \/ /\ cash[c].amount < v
             /\ Request(t, <<[op |-> "setAmount", cash |-> c, amount |-> v,
                              remain |-> Raised(c, v)]>>)
          \/ Request(t, <<[op |-> "clearAmount", cash |-> c]>>)
    BY <1>6, Zenon DEF UpdatePettyCash
  <2> DEFINE r == Raised(c, v)
             a == [op |-> "setAmount", cash |-> c, amount |-> v, remain |-> r]
             b == [op |-> "clearAmount", cash |-> c]
  <2>2. /\ v \in Int /\ cash[c].remain \in Int /\ cash[c].amount \in Int
        /\ c \notin minus => cash[c].remain >= 0
    BY PettyCashAssumption DEF CashInv, TypeOK, NeverNegative, CashDoc
  <2>3. r \in Int /\ r = cash[c].remain + (v - cash[c].amount)
    BY <2>2 DEF Raised
  <2>4. cash[c].amount < v /\ c \notin minus => r >= 0
    BY <2>2, <2>3
  <2>5. (cash[c].amount < v /\ Request(t, <<a>>)) \/ Request(t, <<b>>)
    BY <2>1, Zenon
  <2> HIDE DEF r
  <2>6. /\ a \in Step /\ a.op = "setAmount" /\ a.cash = c /\ a.amount = v /\ a.remain = r
        /\ b \in Step /\ b.op = "clearAmount"
    BY <2>2, <2>3 DEF Step
  <2> HIDE DEF a, b
  <2>7. CASE cash[c].amount < v /\ Request(t, <<a>>)
    <3>1. Sole(a)
      BY <2>3, <2>4, <2>6, <2>7 DEF Sole, StepInv
    <3> QED
      BY <2>6, <2>7, <3>1
  <2>8. CASE Request(t, <<b>>)
    <3>1. Sole(b)
      BY <2>6 DEF Sole, StepInv
    <3> QED
      BY <2>6, <2>8, <3>1
  <2> QED
    BY <2>5, <2>7, <2>8
<1>7. CASE DeActivePettyCash(t) \/ DeletePettyCash(t)
  <2>1. PICK c \in Cash, status \in {"inactive", "deleted"} :
          Request(t, <<[op |-> "setCash", cash |-> c, status |-> status]>>)
    BY <1>7, Zenon DEF DeActivePettyCash, DeletePettyCash
  <2> DEFINE a == [op |-> "setCash", cash |-> c, status |-> status]
  <2>2. a \in Step /\ a.op = "setCash"
    BY DEF Step
  <2> QED
    BY <2>1, <2>2 DEF Sole, StepInv
<1> QED
  BY <1>1, <1>2, <1>3, <1>4, <1>5, <1>6, <1>7 DEF SoleRequest

\* Cost k is about to be deleted, the writes w will give back its shares.
Undoes(t, k, w) ==
    /\ Request(t, <<[op |-> "setCosts", costs |-> {k}, status |-> "deleted"]>> \o w)
    /\ Exists(cost[k])
    /\ DOMAIN w = DOMAIN cost[k].pettyCashInfo
    /\ \A j \in DOMAIN w :
         /\ cost[k].pettyCashInfo[j] \in Share
         /\ w[j] = [op |-> "refund", cash |-> cost[k].pettyCashInfo[j].cash,
                    amount |-> cost[k].pettyCashInfo[j].amount]

LEMMA DeletePettyCostIs ==
    ASSUME CashInv, NEW t \in Thread, DeletePettyCost(t)
    PROVE  \E k \in Cost, w \in Seq(Step) : Undoes(t, k, w)
<1>1. PICK k \in Cost :
        /\ cost[k].status = "unpaid"
        /\ Request(t, <<[op |-> "setCosts", costs |-> {k}, status |-> "deleted"]>>
                      \o Refunds(k))
  BY DEF DeletePettyCost
<1> DEFINE info == cost[k].pettyCashInfo
           w    == Refunds(k)
<1>2. info \in Seq(Share)
  BY DEF CashInv, TypeOK, CostDoc
<1>3. w = [j \in DOMAIN info |->
             [op |-> "refund", cash |-> info[j].cash, amount |-> info[j].amount]]
  BY DEF Refunds
<1>4. Exists(cost[k])
  BY <1>1 DEF Exists
<1>5. Request(t, <<[op |-> "setCosts", costs |-> {k}, status |-> "deleted"]>> \o w)
  BY <1>1
<1> HIDE DEF w, info
<1>6. Len(info) \in Nat /\ DOMAIN info = 1..Len(info)
  BY <1>2, LenProperties
<1>7. ASSUME NEW j \in DOMAIN info PROVE info[j] \in Share
  BY <1>2, <1>6, ElementOfSeq
<1>8. \A j \in DOMAIN info : info[j].cash \in Cash /\ info[j].amount \in Int
  BY <1>7 DEF Share
<1>9. w \in [1..Len(info) -> Step]
  BY <1>3, <1>6, <1>8 DEF Step
<1>10. w \in Seq(Step)
  BY <1>6, <1>9
<1>11. DOMAIN w = DOMAIN info
  BY <1>3
<1>12. \A j \in DOMAIN w : /\ info[j] \in Share
                           /\ w[j] = [op |-> "refund", cash |-> info[j].cash,
                                      amount |-> info[j].amount]
  BY <1>3, <1>7
<1> QED
  BY <1>4, <1>5, <1>10, <1>11, <1>12 DEF Undoes, info

LEMMA CreatesInv ==
    ASSUME CashInv, NEW t \in Thread, CreatePettyCost(t)
    PROVE  CashInv'
<1>1. PICK new \in CostDoc, w \in Seq(Step) : Creates(t, new, w)
  BY CreatePettyCostIs
<1> DEFINE a == [op |-> "createCost", new |-> new]
<1>2. a \in Step /\ a.op = "createCost" /\ a.new = new
  BY DEF Step
<1>3. Request(t, <<a>> \o w)
  BY <1>1 DEF Creates
<1> HIDE DEF a
<1> DEFINE q == <<a>> \o w
<1>4. /\ q \in Seq(Step) /\ q[1] = a
      /\ \A i \in DOMAIN q : i # 1 => i - 1 \in DOMAIN w /\ q[i] = w[i - 1]
  BY <1>2, OneThen
<1>5. ASSUME NEW k \in DOMAIN w PROVE w[k].op = "setRemain" /\ w[k].remain >= 0
  <2>1. w[k] = Pays(new.pettyCashInfo[k]) /\ w[k].remain >= 0
    BY <1>1, Zenon DEF Creates
  <2>2. Pays(new.pettyCashInfo[k]).op = "setRemain"
    BY DEF Pays
  <2> QED
    BY <2>1, <2>2, Zenon
<1>6. Request(t, q)
  BY <1>3
<1> HIDE DEF q
<1>7. StepInv(a)
  BY <1>1, <1>2 DEF Creates, StepInv
<1>8. ASSUME NEW i \in DOMAIN q
      PROVE  StepInv(q[i]) /\ (i # 1 => q[i].op \in {"setRemain", "refund"})
  <2>1. CASE i = 1
    BY <1>4, <1>7, <2>1
  <2>2. CASE i # 1
    BY <1>4, <1>5, <2>2 DEF StepInv
  <2> QED
    BY <2>1, <2>2
<1> QED
  BY <1>4, <1>6, <1>8, RequestInv

LEMMA UndoesInv ==
    ASSUME CashInv, NEW t \in Thread, DeletePettyCost(t)
    PROVE  CashInv'
<1>1. PICK k \in Cost, w \in Seq(Step) : Undoes(t, k, w)
  BY DeletePettyCostIs
<1> DEFINE a == [op |-> "setCosts", costs |-> {k}, status |-> "deleted"]
<1>2. a \in Step /\ StepInv(a)
  BY DEF Step, StepInv
<1>3. Request(t, <<a>> \o w)
  BY <1>1 DEF Undoes
<1> HIDE DEF a
<1> DEFINE q == <<a>> \o w
<1>4. /\ q \in Seq(Step) /\ q[1] = a
      /\ \A i \in DOMAIN q : i # 1 => i - 1 \in DOMAIN w /\ q[i] = w[i - 1]
  BY <1>2, OneThen
<1>5. ASSUME NEW j \in DOMAIN w PROVE w[j].op = "refund" /\ StepInv(w[j])
  <2> DEFINE x == cost[k].pettyCashInfo[j]
  <2>1. w[j] = [op |-> "refund", cash |-> x.cash, amount |-> x.amount]
    BY <1>1, Zenon DEF Undoes
  <2>2. x \in Range(cost[k].pettyCashInfo)
    BY <1>1 DEF Undoes, Range
  <2>3. x.cash \notin minus => x.amount >= 0
    <3>1. CostInv(cost[k]) /\ Charged(k) /\ cost[k].price \in Int
      BY DEF CashInv, TypeOK, CostDoc, Charged
    <3>2. x.cash \in Payers(cost[k].pettyCashInfo)
      BY <2>2 DEF Payers
    <3> HIDE DEF x
    <3> QED
      BY <2>2, <3>1, <3>2 DEF CostInv, Charged
  <2> HIDE DEF x
  <2> QED
    BY <2>1, <2>3 DEF StepInv
<1>6. Request(t, q)
  BY <1>3
<1> HIDE DEF q
<1>7. ASSUME NEW i \in DOMAIN q
      PROVE  StepInv(q[i]) /\ (i # 1 => q[i].op \in {"setRemain", "refund"})
  <2>1. CASE i = 1
    BY <1>2, <1>4, <2>1
  <2>2. CASE i # 1
    BY <1>4, <1>5, <2>2 DEF StepInv
  <2> QED
    BY <2>1, <2>2
<1> QED
  BY <1>4, <1>6, <1>7, RequestInv

LEMMA SoleInv ==
    ASSUME CashInv, NEW t \in Thread, SoleRequest(t)
    PROVE  CashInv'
<1>1. PICK a \in Step : Request(t, <<a>>) /\ Sole(a)
  BY SoleRequestIs
<1> DEFINE q == <<a>>
<1>2. q \in Seq(Step) /\ DOMAIN q = {1} /\ q[1] = a
  BY OnlyOne
<1>3. Request(t, q) /\ StepInv(a)
  BY <1>1 DEF Sole
<1> HIDE DEF q
<1> QED
  BY <1>2, <1>3, RequestInv

LEMMA CreatePettyCashInv ==
    ASSUME CashInv, NEW t \in Thread, CreatePettyCash(t)
    PROVE  CashInv'
<1>1. PICK c \in Cash, a \in Amounts :
        /\ cash[c].status = "none"
        /\ cash' = [cash EXCEPT ![c] = Filled(a)]
        /\ minus' = IF a < 0 THEN minus \cup {c} ELSE minus
  BY DEF CreatePettyCash
<1>2. /\ UNCHANGED <<cost, agenda, waived, faults>> /\ requests' = requests + 1
      /\ requests < MaxRequests /\ orderly' \in BOOLEAN
  BY DEF CreatePettyCash, CashInv, TypeOK
<1>3. a \in Int /\ cash \in [Cash -> CashDoc] /\ cost \in [Cost -> CostDoc]
  BY PettyCashAssumption DEF CashInv, TypeOK
<1>4. /\ Filled(a) \in CashDoc /\ Filled(a).status = "active"
      /\ Filled(a).remain = a
  BY <1>3 DEF Filled, CashDoc
<1>5. cash' \in [Cash -> CashDoc] /\ minus' \in SUBSET Cash
  BY <1>1, <1>3, <1>4 DEF CashInv, TypeOK
<1>6. TypeOK'
  BY <1>2, <1>5, PettyCashAssumption DEF CashInv, TypeOK
<1>7. NeverNegative'
  BY <1>1, <1>3, <1>4 DEF CashInv, NeverNegative
<1>8. Steady
  BY <1>1, <1>2, <1>3, <1>4 DEF Steady
<1>9. CostsInv'
  BY <1>2, <1>3, <1>8, CostsStay
<1>10. \A u \in Thread : AgendaInv(u)'
  BY <1>2, <1>8, AgendaStays
<1> QED
  BY <1>6, <1>7, <1>9, <1>10 DEF CashInv, CostsInv, Charged, AgendaInv

-----------------------------------------------------------------------------
(* Writes.                                                                 *)

\* A cash with a remainder of its own is written, or is gone.
LEMMA WriteCashInv ==
    ASSUME CashInv, NEW t \in Thread, agenda[t] # <<>>,
           NEW c \in Cash, NEW new \in CashDoc, c \notin minus => new.remain >= 0,
           cash[c].status # "none" => new.status # "none", WriteCash(t, c, new),
           waived' \in [Cash -> Int]
    PROVE  CashInv'
<1>1. /\ Then(t, <<>>) /\ UNCHANGED <<cost, orderly, minus, requests, faults>>
      /\ cash' = IF Exists(cash[c]) THEN [cash EXCEPT ![c] = new] ELSE cash
  BY DEF WriteCash
<1>2. cash \in [Cash -> CashDoc] /\ cost \in [Cost -> CostDoc] /\ minus \in SUBSET Cash
  BY DEF CashInv, TypeOK
<1>3. cash' \in [Cash -> CashDoc] /\ cost' \in [Cost -> CostDoc] /\ minus' \in SUBSET Cash
  BY <1>1, <1>2
<1>4. NeverNegative'
  BY <1>1, <1>2 DEF CashInv, NeverNegative
<1>5. Steady
  BY <1>1, <1>2 DEF Steady
<1>6. CostsInv'
  BY <1>1, <1>5, CostsStay
<1> QED
  BY <1>1, <1>3, <1>4, <1>5, <1>6, WriteInv

LEMMA SetRemainInv ==
    ASSUME CashInv, NEW t \in Thread, SetRemain(t)
    PROVE  CashInv'
<1> DEFINE s == Head(agenda[t])
           new == [cash[s.cash] EXCEPT !.remain = s.remain]
<1>1. /\ agenda[t] # <<>> /\ s.op = "setRemain" /\ WriteCash(t, s.cash, new)
      /\ waived' \in [Cash -> Int]
  BY DEF SetRemain, Turn, CashInv, TypeOK
<1>2. s.cash \in Cash /\ s.remain \in Int /\ (s.cash \notin minus => s.remain >= 0)
  BY <1>1, HeadIs DEF StepInv
<1> HIDE DEF s
<1>3. cash[s.cash] \in CashDoc
  BY <1>2 DEF CashInv, TypeOK
<1>4. new \in CashDoc /\ new.remain = s.remain /\ new.status = cash[s.cash].status
  BY <1>2, <1>3 DEF CashDoc
<1> HIDE DEF new
<1> QED
  BY <1>1, <1>2, <1>4, WriteCashInv

LEMMA SetAmountInv ==
    ASSUME CashInv, NEW t \in Thread, SetAmount(t)
    PROVE  CashInv'
<1> DEFINE s == Head(agenda[t])
           new == [cash[s.cash] EXCEPT !.amount = s.amount, !.remain = s.remain]
<1>1. /\ agenda[t] # <<>> /\ s.op = "setAmount" /\ WriteCash(t, s.cash, new)
      /\ waived' \in [Cash -> Int]
  BY DEF SetAmount, Turn, CashInv, TypeOK
<1>2. /\ s.cash \in Cash /\ s.remain \in Int /\ s.amount \in Int
      /\ s.cash \notin minus => s.remain >= 0
  BY <1>1, HeadIs DEF StepInv
<1> HIDE DEF s
<1>3. cash[s.cash] \in CashDoc
  BY <1>2 DEF CashInv, TypeOK
<1>4. new \in CashDoc /\ new.remain = s.remain /\ new.status = cash[s.cash].status
  BY <1>2, <1>3 DEF CashDoc
<1> HIDE DEF new
<1> QED
  BY <1>1, <1>2, <1>4, WriteCashInv

\* What an update to 0 leaves of a cash.
Cleared(c) == [cash[c] EXCEPT !.amount = 0]

LEMMA ClearAmountIs ==
    ASSUME CashInv, NEW t \in Thread, ClearAmount(t)
    PROVE  /\ agenda[t] # <<>> /\ Head(agenda[t]).op = "clearAmount"
           /\ Head(agenda[t]).cash \in Cash
           /\ WriteCash(t, Head(agenda[t]).cash, Cleared(Head(agenda[t]).cash))
           /\ Cleared(Head(agenda[t]).cash) \in CashDoc
           /\ Cleared(Head(agenda[t]).cash).amount = 0
           /\ Cleared(Head(agenda[t]).cash).remain = cash[Head(agenda[t]).cash].remain
           /\ Cleared(Head(agenda[t]).cash).status = cash[Head(agenda[t]).cash].status
           /\ waived' \in [Cash -> Int]
           /\ \A c \in Cash \ {Head(agenda[t]).cash} : waived'[c] = waived[c]
           /\ Exists(cash[Head(agenda[t]).cash]) =>
                waived'[Head(agenda[t]).cash] = FilledWith(Head(agenda[t]).cash)
<1> DEFINE c == Head(agenda[t]).cash
<1>1. /\ agenda[t] # <<>> /\ Head(agenda[t]).op = "clearAmount"
      /\ WriteCash(t, c, Cleared(c))
      /\ waived' = IF Exists(cash[c])
                   THEN [waived EXCEPT ![c] = @ + cash[c].amount] ELSE waived
  BY DEF ClearAmount, Turn, Cleared
<1>2. c \in Cash
  BY <1>1, HeadIs
<1> HIDE DEF c
<1>3. cash[c] \in CashDoc /\ cash[c].amount \in Int /\ waived \in [Cash -> Int]
  BY <1>2 DEF CashInv, TypeOK, CashDoc
<1>4. /\ Cleared(c) \in CashDoc /\ Cleared(c).amount = 0
      /\ Cleared(c).remain = cash[c].remain /\ Cleared(c).status = cash[c].status
  BY <1>3 DEF CashDoc, Cleared
<1>5. /\ waived' \in [Cash -> Int]
      /\ \A d \in Cash \ {c} : waived'[d] = waived[d]
      /\ Exists(cash[c]) => waived'[c] = FilledWith(c)
  BY <1>1, <1>2, <1>3 DEF FilledWith
<1> QED
  BY <1>1, <1>2, <1>4, <1>5 DEF c

LEMMA ClearAmountInv ==
    ASSUME CashInv, NEW t \in Thread, ClearAmount(t)
    PROVE  CashInv'
<1> DEFINE c == Head(agenda[t]).cash
           new == Cleared(c)
<1>1. /\ agenda[t] # <<>> /\ c \in Cash /\ WriteCash(t, c, new)
      /\ new \in CashDoc /\ new.remain = cash[c].remain
      /\ new.status = cash[c].status /\ waived' \in [Cash -> Int]
  BY ClearAmountIs
<1> HIDE DEF c, new
<1>2. c \notin minus => new.remain >= 0
  BY <1>1 DEF CashInv, NeverNegative
<1> QED
  BY <1>1, <1>2, WriteCashInv

LEMMA SetCashInv ==
    ASSUME CashInv, NEW t \in Thread, SetCash(t)
    PROVE  CashInv'
<1> DEFINE s == Head(agenda[t])
           new == [cash[s.cash] EXCEPT !.status = s.status]
<1>1. /\ agenda[t] # <<>> /\ s.op = "setCash" /\ WriteCash(t, s.cash, new)
      /\ waived' \in [Cash -> Int]
  BY DEF SetCash, Turn, CashInv, TypeOK
<1>2. s.cash \in Cash /\ s.status \in {"inactive", "deleted"}
  BY <1>1, HeadIs
<1> HIDE DEF s
<1>3. cash[s.cash] \in CashDoc /\ (s.cash \notin minus => cash[s.cash].remain >= 0)
  BY <1>2 DEF CashInv, TypeOK, NeverNegative
<1>4. new \in CashDoc /\ new.remain = cash[s.cash].remain /\ new.status = s.status
  BY <1>2, <1>3 DEF CashDoc
<1> HIDE DEF new
<1> QED
  BY <1>1, <1>2, <1>3, <1>4, WriteCashInv

LEMMA CreateCostInv ==
    ASSUME CashInv, NEW t \in Thread, CreateCost(t)
    PROVE  CashInv'
<1> DEFINE s == Head(agenda[t])
<1>1. /\ agenda[t] # <<>> /\ s.op = "createCost" /\ Then(t, <<>>)
      /\ UNCHANGED <<cash, orderly, waived, requests, faults>>
      /\ minus' = IF s.new.price < 0 THEN minus \cup Payers(s.new.pettyCashInfo)
                  ELSE minus
  BY DEF CreateCost, Turn
<1>2. PICK k \in Cost : cost[k].status = "none" /\ cost' = [cost EXCEPT ![k] = s.new]
  BY DEF CreateCost
<1>3. s.new \in CostDoc /\ CostInv(s.new)
  BY <1>1, HeadIs DEF StepInv
<1>4. PICK new \in CostDoc :
        new = s.new /\ cost' = [cost EXCEPT ![k] = new] /\ CostInv(new)
  BY <1>2, <1>3
<1>5. /\ cash \in [Cash -> CashDoc] /\ cost \in [Cost -> CostDoc] /\ NeverNegative
      /\ minus \in SUBSET Cash /\ waived \in [Cash -> Int]
  BY DEF CashInv, TypeOK
<1>6. Payers(new.pettyCashInfo) \in SUBSET Cash
  <2>1. new.pettyCashInfo \in Seq(Share)
    BY <1>4 DEF CostDoc
  <2>2. Range(new.pettyCashInfo) \subseteq Share
    BY <2>1, LenProperties, ElementOfSeq DEF Range
  <2> QED
    BY <2>2 DEF Payers, Share
<1>7. minus' = IF new.price < 0 THEN minus \cup Payers(new.pettyCashInfo) ELSE minus
  BY <1>1, <1>4
<1> HIDE DEF s
<1>8. /\ minus \subseteq minus' /\ minus' \in SUBSET Cash
      /\ new.price < 0 => Payers(new.pettyCashInfo) \subseteq minus'
  BY <1>5, <1>6, <1>7
<1>9. /\ cash' \in [Cash -> CashDoc] /\ cost' \in [Cost -> CostDoc] /\ NeverNegative'
      /\ waived' \in [Cash -> Int]
  BY <1>1, <1>4, <1>5, <1>8 DEF NeverNegative
<1>10. Steady
  BY <1>1, <1>2, <1>4, <1>5, <1>8 DEF Steady
<1>11. ASSUME NEW m \in Cost PROVE CostInv(cost[m])' /\ Charged(m)'
  <2>1. \A d \in CostDoc : CostInv(d) => CostInv(d)'
    BY <1>10, CostStays
  <2>2. cost'[m] = IF m = k THEN new ELSE cost[m]
    BY <1>4, <1>5
  <2>3. cost[m] \in CostDoc /\ CostInv(cost[m]) /\ Charged(m)
    BY <1>5 DEF CashInv, Charged
  <2>4. CASE m = k
    <3>1. CostInv(new)'
      BY <1>4, <2>1
    <3> QED
      BY <1>8, <2>2, <2>4, <3>1 DEF CostInv, Charged, Payers, InFull, Range
  <2>5. CASE m # k
    <3>1. cost'[m] = cost[m]
      BY <2>2, <2>5
    <3>2. CostInv(cost[m])'
      BY <2>1, <2>3, <3>1 DEF CostInv
    <3> QED
      BY <1>8, <2>3, <3>1, <3>2 DEF Charged, Payers
  <2> QED
    BY <2>4, <2>5
<1>12. CostsInv'
  BY <1>11 DEF CostsInv
<1> QED
  BY <1>1, <1>8, <1>9, <1>10, <1>12, WriteInv

LEMMA SetCostsInv ==
    ASSUME CashInv, NEW t \in Thread, SetCosts(t)
    PROVE  CashInv'
<1> DEFINE s == Head(agenda[t])
<1>1. /\ agenda[t] # <<>> /\ s.op = "setCosts" /\ Then(t, <<>>)
      /\ UNCHANGED <<cash, orderly, waived, minus, requests, faults>>
      /\ cost' = [k \in Cost |-> IF k \in s.costs /\ Exists(cost[k])
                                 THEN [cost[k] EXCEPT !.status = s.status] ELSE cost[k]]
  BY DEF SetCosts, Turn, WriteCosts, history
<1>2. /\ s.costs \in SUBSET Cost
      /\ s.status \in {"unpaid", "pending", "paid", "deleted"}
      /\ s.status = "paid" => \A k \in s.costs : cost[k].budget
  BY <1>1, HeadIs DEF StepInv
<1> HIDE DEF s
<1>3. /\ cash \in [Cash -> CashDoc] /\ cost \in [Cost -> CostDoc] /\ NeverNegative
      /\ waived \in [Cash -> Int] /\ minus \in SUBSET Cash
  BY DEF CashInv, TypeOK
<1>4. ASSUME NEW k \in Cost
      PROVE  /\ cost'[k] \in CostDoc
             /\ \/ cost'[k] = cost[k]
                \/ /\ k \in s.costs /\ cost'[k].status = s.status
                   /\ cost'[k].official = cost[k].official
                   /\ cost'[k].budget = cost[k].budget
                   /\ cost'[k].price = cost[k].price
                   /\ cost'[k].pettyCashInfo = cost[k].pettyCashInfo
  BY <1>1, <1>2, <1>3 DEF CostDoc
<1>5. cost' \in [Cost -> CostDoc]
  BY <1>1, <1>4
<1>6. Steady
  BY <1>1, <1>2, <1>4 DEF Steady
<1>7. ASSUME NEW k \in Cost PROVE CostInv(cost[k])' /\ Charged(k)'
  <2>1. CostInv(cost[k]) /\ Charged(k)
    BY DEF CashInv, Charged
  <2>2. CASE cost'[k] = cost[k]
    BY <1>1, <2>1, <2>2 DEF CostInv, Charged
  <2>3. CASE cost'[k] # cost[k]
    BY <1>1, <1>2, <1>4, <2>1, <2>3 DEF CostInv, Charged
  <2> QED
    BY <2>2, <2>3
<1>8. /\ cash' \in [Cash -> CashDoc] /\ NeverNegative'
      /\ waived' \in [Cash -> Int] /\ minus' \in SUBSET Cash
  BY <1>1, <1>3 DEF NeverNegative
<1>9. CostsInv'
  BY <1>7 DEF CostsInv
<1> QED
  BY <1>1, <1>5, <1>6, <1>8, <1>9, WriteInv

LEMMA SetBudgetInv ==
    ASSUME CashInv, NEW t \in Thread, SetBudget(t)
    PROVE  CashInv'
<1> DEFINE s == Head(agenda[t])
<1>1. /\ agenda[t] # <<>> /\ s.op = "setBudget" /\ Then(t, <<>>)
      /\ UNCHANGED <<cash, orderly, waived, minus, requests, faults>>
      /\ cost' = [k \in Cost |-> IF k \in s.costs /\ Exists(cost[k])
                                 THEN [cost[k] EXCEPT !.budget = TRUE] ELSE cost[k]]
  BY DEF SetBudget, Turn, WriteCosts, history
<1>3. /\ cash \in [Cash -> CashDoc] /\ cost \in [Cost -> CostDoc] /\ NeverNegative
      /\ waived \in [Cash -> Int] /\ minus \in SUBSET Cash
  BY DEF CashInv, TypeOK
<1> HIDE DEF s
<1>4. ASSUME NEW k \in Cost
      PROVE  /\ cost'[k] \in CostDoc
             /\ \/ cost'[k] = cost[k]
                \/ /\ cost'[k].status = cost[k].status
                   /\ cost'[k].official = cost[k].official
                   /\ cost'[k].budget
                   /\ cost'[k].price = cost[k].price
                   /\ cost'[k].pettyCashInfo = cost[k].pettyCashInfo
  BY <1>1, <1>3 DEF CostDoc
<1>5. cost' \in [Cost -> CostDoc]
  BY <1>1, <1>4
<1>6. Steady
  BY <1>1, <1>4 DEF Steady
<1>7. ASSUME NEW k \in Cost PROVE CostInv(cost[k])' /\ Charged(k)'
  <2>1. CostInv(cost[k]) /\ Charged(k)
    BY DEF CashInv, Charged
  <2>2. CASE cost'[k] = cost[k]
    BY <1>1, <2>1, <2>2 DEF CostInv, Charged
  <2>3. CASE cost'[k] # cost[k]
    BY <1>1, <1>4, <2>1, <2>3 DEF CostInv, Charged
  <2> QED
    BY <2>2, <2>3
<1>8. /\ cash' \in [Cash -> CashDoc] /\ NeverNegative'
      /\ waived' \in [Cash -> Int] /\ minus' \in SUBSET Cash
  BY <1>1, <1>3 DEF NeverNegative
<1>9. CostsInv'
  BY <1>7 DEF CostsInv
<1> QED
  BY <1>1, <1>5, <1>6, <1>8, <1>9, WriteInv

\* What a refund becomes.
Refunded(t) ==
    LET s == Head(agenda[t]) IN
    [op |-> "setRemain", cash |-> s.cash, remain |-> cash[s.cash].remain + s.amount]

LEMMA RefundIs ==
    ASSUME CashInv, NEW t \in Thread, Refund(t)
    PROVE  /\ agenda[t] # <<>> /\ Head(agenda[t]).op = "refund"
           /\ UNCHANGED <<cash, cost, history, requests, faults>>
           /\ Refunded(t) \in Step /\ Refunded(t).op = "setRemain"
           /\ Refunded(t).cash = Head(agenda[t]).cash
           /\ Refunded(t).cash \notin minus => Refunded(t).remain >= 0
           /\ Refunded(t).remain
                = cash[Head(agenda[t]).cash].remain + Head(agenda[t]).amount
           /\ IF Exists(cash[Head(agenda[t]).cash])
              THEN Then(t, <<Refunded(t)>>) ELSE Then(t, <<>>)
<1> DEFINE s == Head(agenda[t])
<1>1. agenda[t] # <<>> /\ s.op = "refund"
  BY DEF Refund, Turn
<1>2. s.cash \in Cash /\ s.amount \in Int /\ (s.cash \notin minus => s.amount >= 0)
  BY <1>1, HeadIs DEF StepInv
<1>3. /\ cash[s.cash].remain \in Int
      /\ s.cash \notin minus => cash[s.cash].remain >= 0
  BY <1>2 DEF CashInv, TypeOK, CashDoc, NeverNegative
<1>4. /\ Refunded(t) = [op |-> "setRemain", cash |-> s.cash,
                        remain |-> cash[s.cash].remain + s.amount]
  BY DEF Refunded
<1>5. IF Exists(cash[s.cash]) THEN Then(t, <<Refunded(t)>>) ELSE Then(t, <<>>)
  BY DEF Refund, Refunded
<1>6. UNCHANGED <<cash, cost, history, requests, faults>>
  BY DEF Refund
<1> DEFINE n == cash[s.cash].remain + s.amount
<1>7. n \in Int /\ (s.cash \notin minus => n >= 0)
  BY <1>2, <1>3
<1> HIDE DEF s, n
<1>8. Refunded(t) \in Step
  BY <1>2, <1>4, <1>7 DEF Step, n
<1>9. /\ Refunded(t).op = "setRemain" /\ Refunded(t).cash = s.cash
      /\ Refunded(t).remain = n
  BY <1>4 DEF n
<1> QED
  BY <1>1, <1>5, <1>6, <1>7, <1>8, <1>9 DEF s, n

LEMMA RefundInv ==
    ASSUME CashInv, NEW t \in Thread, Refund(t)
    PROVE  CashInv'
<1> DEFINE r == Refunded(t)
<1>1. /\ agenda[t] # <<>> /\ UNCHANGED <<cash, cost, history, requests, faults>>
      /\ r \in Step /\ r.op = "setRemain" /\ (r.cash \notin minus => r.remain >= 0)
      /\ Then(t, <<r>>) \/ Then(t, <<>>)
  BY RefundIs
<1> HIDE DEF r
<1>2. Steady /\ NeverNegative' /\ TypeOK /\ CostsInv'
  <2>1. Steady
    BY <1>1 DEF Steady, history
  <2>2. NeverNegative' /\ TypeOK
    BY <1>1 DEF CashInv, NeverNegative, history
  <2> QED
    BY <1>1, <2>1, <2>2, CostsStay
<1>3. CASE Then(t, <<>>)
  <2>1. /\ cash' \in [Cash -> CashDoc] /\ cost' \in [Cost -> CostDoc]
        /\ waived' \in [Cash -> Int] /\ minus' \in SUBSET Cash /\ UNCHANGED orderly
    BY <1>1 DEF CashInv, TypeOK, history
  <2> QED
    BY <1>1, <1>2, <1>3, <2>1, WriteInv
<1>4. CASE Then(t, <<r>>)
  <2> DEFINE new == <<r>>
  <2>1. new \in Seq(Step) /\ Len(new) = 1 /\ new[1] = r /\ Then(t, new)
    BY <1>1, <1>4
  <2> HIDE DEF new
  <2>2. /\ agenda' \in [Thread -> Seq(Step)]
        /\ \A u \in Thread \ {t} : agenda'[u] = agenda[u]
        /\ Len(agenda[t]) \in Nat \ {0}
        /\ DOMAIN agenda[t] = 1..Len(agenda[t])
        /\ DOMAIN agenda'[t] = 1..Len(new) + Len(agenda[t]) - 1
        /\ \A i \in DOMAIN agenda'[t] :
             agenda'[t][i] = IF i <= Len(new) THEN new[i]
                             ELSE agenda[t][i - Len(new) + 1]
    BY <1>1, <1>2, <2>1, ThenIs
  <2>3. TypeOK'
    BY <1>1, <1>2, <2>2 DEF TypeOK, history
  <2>4. ASSUME NEW i \in DOMAIN agenda'[t]
        PROVE  StepInv(agenda[t][i])' /\ agenda'[t][i].op \in {"setRemain", "refund"}
    <3>1. CASE i = 1
      <4>1. agenda'[t][i] = r
        BY <2>1, <2>2, <3>1
      <4> QED
        BY <1>1, <4>1 DEF StepInv, history
    <3>2. CASE i # 1
      <4>1. i \in DOMAIN agenda[t] /\ agenda'[t][i] = agenda[t][i]
        BY <2>1, <2>2, <3>2
      <4>2. StepInv(agenda[t][i]) /\ agenda[t][i].op \in {"setRemain", "refund"}
        BY <3>2, <4>1 DEF CashInv
      <4> QED
        BY <1>1, <4>1, <4>2 DEF StepInv, CostInv, history
    <3> QED
      BY <3>1, <3>2
  <2>5. \A u \in Thread \ {t} : AgendaInv(u)'
    BY <1>2, <2>2, AgendaStays
  <2> QED
    BY <1>2, <2>3, <2>4, <2>5 DEF CashInv, CostsInv, Charged, AgendaInv
<1> QED
  BY <1>1, <1>3, <1>4

LEMMA FailInv ==
    ASSUME CashInv, NEW t \in Thread, Fail(t)
    PROVE  CashInv'
<1>1. /\ UNCHANGED <<cash, cost, waived, minus, requests>> /\ faults' = faults + 1
      /\ faults < MaxFaults /\ orderly' \in BOOLEAN
      /\ agenda' = [agenda EXCEPT ![t] = <<>>]
  BY DEF Fail
<1>2. agenda' \in [Thread -> Seq(Step)]
  BY <1>1, EmptySeq DEF CashInv, TypeOK
<1>3. TypeOK'
  BY <1>1, <1>2, PettyCashAssumption DEF CashInv, TypeOK
<1>4. Steady /\ NeverNegative' /\ CostsInv'
  <2>1. Steady /\ NeverNegative'
    BY <1>1 DEF Steady, CashInv, NeverNegative
  <2> QED
    BY <1>1, <2>1, CostsStay
<1>5. ASSUME NEW u \in Thread PROVE AgendaInv(u)'
  <2>1. CASE u = t
    BY <1>1, <2>1 DEF AgendaInv, CashInv, TypeOK
  <2>2. CASE u # t
    <3>1. agenda'[u] = agenda[u]
      BY <1>1, <2>2 DEF CashInv, TypeOK
    <3> QED
      BY <1>4, <3>1, AgendaStays
  <2> QED
    BY <2>1, <2>2
<1> QED
  BY <1>3, <1>4, <1>5 DEF CashInv, CostsInv, Charged, AgendaInv

LEMMA InitInv ==
    ASSUME Init
    PROVE  CashInv
<1>1. /\ NoCash \in CashDoc /\ NoCash.remain = 0 /\ NoCash.amount = 0
      /\ \A a \in Amounts : Filled(a) \in CashDoc /\ Filled(a).remain = Filled(a).amount
  BY PettyCashAssumption DEF NoCash, Filled, CashDoc
<1>2. cash \in [Cash -> CashDoc] /\ \A c \in Cash : cash[c].remain = cash[c].amount
  BY <1>1 DEF Init
<1>3. NeverNegative
  BY <1>2 DEF Init, NeverNegative, CashDoc
<1>4. <<>> \in Seq(Share) /\ <<>> \in Seq(Step)
  BY EmptySeq
<1>5. NoCost \in CostDoc /\ CostInv(NoCost) /\ NoCost.price = 0
  BY <1>4 DEF NoCost, CostDoc, CostInv, Range
<1>6. TypeOK
  BY <1>2, <1>4, <1>5, PettyCashAssumption DEF Init, TypeOK
<1>7. CostsInv
  BY <1>5 DEF Init, CostsInv, Charged
<1>8. \A t \in Thread : AgendaInv(t)
  BY DEF Init, AgendaInv
<1> QED
  BY <1>3, <1>6, <1>7, <1>8 DEF CashInv, CostsInv, Charged, AgendaInv

LEMMA NextInv ==
    ASSUME CashInv, [Next]_vars
    PROVE  CashInv'
<1>1. CASE UNCHANGED vars
  BY <1>1 DEF vars, history, CashInv, TypeOK, NeverNegative, CostInv, StepInv
<1>2. ASSUME NEW t \in Thread,
             SoleRequest(t) \/ CreatePettyCost(t) \/ DeletePettyCost(t)
             \/ CreatePettyCash(t)
             \/ CreateCost(t) \/ SetRemain(t) \/ SetAmount(t) \/ ClearAmount(t)
             \/ SetCash(t) \/ Refund(t) \/ SetCosts(t) \/ SetBudget(t) \/ Fail(t)
      PROVE  CashInv'
  BY <1>2, SoleInv, CreatesInv, UndoesInv, CreatePettyCashInv, CreateCostInv,
     SetRemainInv, SetAmountInv, ClearAmountInv, SetCashInv, RefundInv, SetCostsInv, SetBudgetInv,
     FailInv
<1> QED
  BY <1>1, <1>2 DEF Next, SoleRequest

(***************************************************************************)
(* However requests interleave, fail or are cut short, what is stored and  *)
(* what is still to be written keep the invariant.                         *)
(***************************************************************************)
THEOREM CashInvHolds == Spec => []CashInv
<1>1. Init => CashInv
  BY InitInv
<1>2. CashInv /\ [Next]_vars => CashInv'
  BY NextInv
<1> QED
  BY <1>1, <1>2, PTL DEF Spec

(***************************************************************************)
(* What the requests store and agree to write is of its type; that a share *)
(* is of a cash and an amount needs what createPettyCost allocates.        *)
(***************************************************************************)
THEOREM TypeCorrect == Spec => []TypeOK
<1>1. CashInv => TypeOK
  BY DEF CashInv
<1> QED
  BY <1>1, CashInvHolds, PTL

(***************************************************************************)
(* No remainder written by createPettyCost, deletePettyCost or             *)
(* updatePettyCash is negative, though each is reckoned from an old read,  *)
(* unless the cash itself was filled with a negative amount or paid a cost *)
(* of a negative price.                                                    *)
(***************************************************************************)
THEOREM RemaindersNeverNegative == Spec => []NeverNegative
<1>1. CashInv => NeverNegative
  BY DEF CashInv
<1> QED
  BY <1>1, CashInvHolds, PTL

(***************************************************************************)
(* The shares of an official cost, allocated by createPettyCost among any  *)
(* cashes, add up to its price.                                            *)
(***************************************************************************)
THEOREM CostsPaidInFull == Spec => []PaidInFull
<1>1. CashInv => PaidInFull
  BY DEF CashInv, CostInv, PaidInFull
<1> QED
  BY <1>1, CashInvHolds, PTL

(***************************************************************************)
(* A cost that updateCostsStatus marked as paid counts against a budget.   *)
(***************************************************************************)
THEOREM PaidCostsHaveBudget == Spec => []PaidHasBudget
<1>1. CashInv => PaidHasBudget
  BY DEF CashInv, CostInv, PaidHasBudget
<1> QED
  BY <1>1, CashInvHolds, PTL

-----------------------------------------------------------------------------
(* What costs take.                                                        *)

LEMMA TakenType ==
    ASSUME NEW info \in Seq(Share), NEW c
    PROVE  Taken(info, c) \in Int
<1> DEFINE S == {x \in DOMAIN info : info[x].cash = c}
           f == [j \in S |-> info[j].amount]
<1>1. info \in [1..Len(info) -> Share] /\ DOMAIN info = 1..Len(info) /\ Len(info) \in Nat
  BY LenProperties
<1>2. IsFiniteSet(S)
  <2>1. IsFiniteSet(1..Len(info))
    BY <1>1, FS_Interval
  <2> QED
    BY <1>1, <2>1, FS_Subset
<1>3. f \in [S -> Int]
  BY <1>1 DEF Share
<1>4. Taken(info, c) = SumFunction(f)
  BY DEF Taken
<1> HIDE DEF S, f
<1> QED
  BY <1>2, <1>3, <1>4, SumType

LEMMA TakenNone ==
    ASSUME NEW info, NEW c, \A j \in DOMAIN info : info[j].cash # c
    PROVE  Taken(info, c) = 0
<1> DEFINE S == {x \in DOMAIN info : info[x].cash = c}
           f == [j \in S |-> info[j].amount]
<1>1. S = {}
  OBVIOUS
<1>2. Taken(info, c) = SumFunction(f) /\ f \in [{} -> Int]
  BY <1>1 DEF Taken
<1> HIDE DEF S, f
<1> QED
  BY <1>2, SumEmpty

LEMMA TakenOne ==
    ASSUME NEW info \in Seq(Share), NEW c,
           \A i, j \in DOMAIN info : info[i].cash = info[j].cash => i = j,
           NEW n \in DOMAIN info, info[n].cash = c
    PROVE  Taken(info, c) = info[n].amount
<1> DEFINE S == {x \in DOMAIN info : info[x].cash = c}
           f == [j \in S |-> info[j].amount]
<1>1. S = {n}
  OBVIOUS
<1>2. info[n] \in Share
  BY LenProperties, ElementOfSeq
<1>3. f \in [{n} -> Int] /\ f[n] = info[n].amount
  BY <1>1, <1>2 DEF Share
<1>4. Taken(info, c) = SumFunction(f)
  BY DEF Taken
<1> HIDE DEF S, f
<1>5. SumFunction(f) = f[n]
  BY <1>3, SumSingle
<1> QED
  BY <1>3, <1>4, <1>5

\* Cost by cost.
Taking(K, c) ==
    [k \in Cost |-> IF Exists(cost[k]) /\ k \notin K
                    THEN Taken(cost[k].pettyCashInfo, c) ELSE 0]

LEMMA TakingIs ==
    ASSUME cost \in [Cost -> CostDoc], NEW K, NEW c
    PROVE  /\ SpentBut(K, c) = SumFunction(Taking(K, c))
           /\ Taking(K, c) \in [Cost -> Int]
           /\ \A k \in Cost : /\ cost[k].pettyCashInfo \in Seq(Share)
                              /\ Taken(cost[k].pettyCashInfo, c) \in Int
           /\ SpentBut(K, c) \in Int
<1>1. SpentBut(K, c) = SumFunction(Taking(K, c))
  BY DEF SpentBut, Taking
<1>2. ASSUME NEW k \in Cost
      PROVE  /\ cost[k].pettyCashInfo \in Seq(Share)
             /\ Taken(cost[k].pettyCashInfo, c) \in Int
  <2>1. cost[k].pettyCashInfo \in Seq(Share)
    BY DEF CostDoc
  <2> QED
    BY <2>1, TakenType
<1>3. Taking(K, c) \in [Cost -> Int]
  BY <1>2 DEF Taking
<1>4. SumFunction(Taking(K, c)) \in Int
  BY <1>3, SumType, PettyCashAssumption
<1> QED
  BY <1>1, <1>2, <1>3, <1>4

\* Without a cost that exists, what is spent is less by what it took.
LEMMA SpentWithout ==
    ASSUME cost \in [Cost -> CostDoc], NEW c, NEW k \in Cost, Exists(cost[k])
    PROVE  Spent(c) = SpentBut({k}, c) + Taken(cost[k].pettyCashInfo, c)
<1> DEFINE f == Taking({k}, c)
           g == Taking({}, c)
           d == Taken(cost[k].pettyCashInfo, c)
<1>1. /\ f \in [Cost -> Int] /\ SpentBut({k}, c) = SumFunction(f)
      /\ g \in [Cost -> Int] /\ Spent(c) = SumFunction(g)
      /\ SumFunction(f) \in Int /\ d \in Int
  BY TakingIs DEF Spent
<1>2. \A m \in Cost \ {k} : f[m] = g[m]
  BY DEF Taking
<1>3. f[k] = 0 /\ g[k] = d
  BY DEF Taking
<1> HIDE DEF f, g, d
<1>4. SumFunction(g) = SumFunction(f) + (g[k] - f[k])
  BY <1>1, <1>2, SumChange, PettyCashAssumption
<1>5. SumFunction(g) = SumFunction(f) + d
  BY <1>1, <1>3, <1>4
<1> QED
  BY <1>1, <1>5 DEF d

\* Costs without shares take nothing.
LEMMA SpentWithoutShares ==
    ASSUME cost \in [Cost -> CostDoc], NEW c, NEW K,
           \A k \in K \cap Cost : cost[k].pettyCashInfo = <<>>
    PROVE  SpentBut(K, c) = Spent(c)
<1>1. ASSUME NEW k \in K \cap Cost PROVE Taken(cost[k].pettyCashInfo, c) = 0
  <2>1. DOMAIN cost[k].pettyCashInfo = {}
    OBVIOUS
  <2> QED
    BY <2>1, TakenNone
<1>2. \A k \in Cost : Taking(K, c)[k] = Taking({}, c)[k]
  BY <1>1 DEF Taking
<1>3. Taking(K, c) = Taking({}, c)
  BY <1>2 DEF Taking
<1>4. SpentBut(K, c) = SumFunction(Taking(K, c)) /\ Spent(c) = SumFunction(Taking({}, c))
  BY TakingIs DEF Spent
<1> QED
  BY <1>3, <1>4

\* What a cost created takes.
LEMMA SpentCreated ==
    ASSUME cost \in [Cost -> CostDoc], NEW c, NEW k \in Cost, NEW new \in CostDoc,
           cost[k].status = "none", Exists(new), cost' = [cost EXCEPT ![k] = new]
    PROVE  Spent(c)' = Spent(c) + Taken(new.pettyCashInfo, c)
<1> DEFINE f == Taking({}, c)
           g == [m \in Cost |-> IF Exists(cost'[m]) /\ m \notin {}
                                THEN Taken(cost'[m].pettyCashInfo, c) ELSE 0]
           d == Taken(new.pettyCashInfo, c)
<1>1. /\ f \in [Cost -> Int] /\ Spent(c) = SumFunction(f) /\ SumFunction(f) \in Int
      /\ \A m \in Cost : Taken(cost[m].pettyCashInfo, c) \in Int
  BY TakingIs DEF Spent
<1>2. d \in Int
  <2>1. new.pettyCashInfo \in Seq(Share)
    BY DEF CostDoc
  <2> QED
    BY <2>1, TakenType
<1>3. Spent(c)' = SumFunction(g)
  BY DEF Spent, SpentBut
<1>4. cost'[k] = new /\ \A m \in Cost \ {k} : cost'[m] = cost[m]
  OBVIOUS
<1>5. \A m \in Cost \ {k} : f[m] = g[m]
  BY <1>4 DEF Taking
<1>6. f[k] = 0 /\ g[k] = d
  BY <1>4 DEF Taking, Exists
<1>7. g \in [Cost -> Int]
  <2>1. \A m \in Cost : g[m] \in Int
    BY <1>1, <1>2, <1>5, <1>6
  <2> QED
    BY <2>1
<1> HIDE DEF f, g, d
<1>8. SumFunction(g) = SumFunction(f) + (g[k] - f[k])
  BY <1>1, <1>5, <1>7, SumChange, PettyCashAssumption
<1>9. SumFunction(g) = SumFunction(f) + d
  BY <1>1, <1>2, <1>6, <1>8
<1> QED
  BY <1>1, <1>3, <1>9 DEF d

\* What is spent is of the costs that still exist, and of their shares.
LEMMA SpentKept ==
    ASSUME cost \in [Cost -> CostDoc], NEW c, NEW K,
           \A k \in Cost :
             /\ Exists(cost'[k]) <=> Exists(cost[k]) /\ k \notin K
             /\ cost'[k].pettyCashInfo = cost[k].pettyCashInfo
    PROVE  Spent(c)' = SpentBut(K, c)
<1> DEFINE g == [m \in Cost |-> IF Exists(cost'[m]) /\ m \notin {}
                                THEN Taken(cost'[m].pettyCashInfo, c) ELSE 0]
           f == Taking(K, c)
<1>1. Spent(c)' = SumFunction(g)
  BY DEF Spent, SpentBut
<1>2. SpentBut(K, c) = SumFunction(f)
  BY DEF SpentBut, Taking
<1>3. \A m \in Cost : g[m] = f[m]
  BY DEF Taking
<1>4. f = [m \in Cost |-> f[m]]
  BY DEF Taking
<1>5. g = [m \in Cost |-> g[m]]
  OBVIOUS
<1> HIDE DEF f, g
<1>6. f = g
  BY <1>3, <1>4, <1>5
<1> QED
  BY <1>1, <1>2, <1>6

-----------------------------------------------------------------------------
(* Requests one at a time.                                                 *)

\* Nothing was taken off the amount of a cash that does not exist yet.
Fresh == \A c \in Cash : cash[c].status = "none" => waived[c] = 0

\* The cashes are in balance, with what is still to be written.
Books == CashInv /\ Fresh /\ InBalance /\ Conserved

\* While one request is under way, what it leaves is what counts.
LEMMA BalancedSoFar ==
    ASSUME NEW t \in Thread,
           orderly' => \A u \in Thread \ {t} : agenda'[u] = <<>>,
           orderly' => \A c \in Cash : Exists(cash'[c]) => Balances(agenda[t], c)',
           \A c \in Cash : Exists(cash'[c]) =>
             cash'[c].remain \in Int /\ Spent(c)' \in Int
    PROVE  InBalance' /\ Conserved'
<1>1. ASSUME orderly' PROVE InBalance'
  BY <1>1 DEF InBalance
<1>2. InBalance'
  BY <1>1 DEF InBalance
<1>3. ASSUME orderly', Quiet', NEW c \in Cash, Exists(cash'[c])
      PROVE  cash'[c].remain + Spent(c)' = FilledWith(c)'
  <2>1. agenda'[t] = <<>>
    BY <1>3 DEF Quiet
  <2>2. Balances(agenda[t], c)'
    BY <1>3
  <2>3. Mine(agenda[t], c)' = {}
    BY <2>1 DEF Mine
  <2>4. Spends(agenda[t], c)' = Spent(c)' + 0
    BY <2>1 DEF Spends, Deletes, Takes, Spent
  <2> QED
    BY <1>3, <2>2, <2>3, <2>4 DEF Balances
<1> QED
  BY <1>2, <1>3 DEF Conserved

\* A request that has started and has its writes to come.
LEMMA RequestBalances ==
    ASSUME Books, NEW t \in Thread, NEW steps \in Seq(Step), Request(t, steps),
           orderly /\ Quiet => \A c \in Cash : Exists(cash[c]) => Balances(steps, c)
    PROVE  InBalance' /\ Conserved'
<1>1. /\ UNCHANGED <<cash, cost, waived>> /\ agenda' = [agenda EXCEPT ![t] = steps]
      /\ orderly' => orderly /\ Quiet
  BY DEF Request
<1>2. /\ agenda'[t] = steps
      /\ \A u \in Thread \ {t} : agenda'[u] = agenda[u]
  BY <1>1 DEF Books, CashInv, TypeOK
<1>3. orderly' => \A u \in Thread \ {t} : agenda'[u] = <<>>
  BY <1>1, <1>2 DEF Quiet
<1>4. ASSUME orderly', NEW c \in Cash, Exists(cash'[c])
      PROVE  Balances(agenda[t], c)'
  <2>1. Balances(steps, c)
    BY <1>1, <1>4
  <2>2. Mine(agenda[t], c)' = Mine(steps, c)
    BY <1>2 DEF Mine
  <2>3. Deletes(agenda[t])' = Deletes(steps) /\ Takes(agenda[t], c)' = Takes(steps, c)
    BY <1>2 DEF Deletes, Takes
  <2>4. SpentBut(Deletes(agenda[t]), c)' = SpentBut(Deletes(steps), c)
    BY <1>1, <2>3 DEF SpentBut
  <2>5. Spends(agenda[t], c)' = Spends(steps, c)
    BY <2>3, <2>4 DEF Spends
  <2> QED
    BY <1>1, <1>2, <2>1, <2>2, <2>5 DEF Balances, Settles, FilledWith
<1>5. \A c \in Cash : cash'[c].remain \in Int /\ Spent(c)' \in Int
  <2>1. \A c \in Cash : Spent(c) \in Int
    BY TakingIs DEF Spent, Books, CashInv, TypeOK
  <2>2. \A c \in Cash : Spent(c)' = Spent(c)
    BY <1>1 DEF Spent, SpentBut
  <2>3. \A c \in Cash : cash[c].remain \in Int
    BY DEF Books, CashInv, TypeOK, CashDoc
  <2> QED
    BY <1>1, <2>1, <2>2, <2>3
<1> QED
  BY <1>3, <1>4, <1>5, BalancedSoFar

\* What a request finds: the cashes in balance.
LEMMA FoundInBalance ==
    ASSUME Books, orderly, Quiet, NEW c \in Cash, Exists(cash[c])
    PROVE  /\ cash[c].remain + Spent(c) = FilledWith(c)
           /\ cash[c].remain \in Int /\ FilledWith(c) \in Int /\ Spent(c) \in Int
<1>1. cash[c].remain \in Int /\ FilledWith(c) \in Int
  BY DEF Books, CashInv, TypeOK, CashDoc, FilledWith
<1>2. Spent(c) \in Int
  BY TakingIs DEF Spent, Books, CashInv, TypeOK
<1> QED
  BY <1>1, <1>2 DEF Books, Conserved

LEMMA CreatesBalances ==
    ASSUME Books, NEW t \in Thread, CreatePettyCost(t)
    PROVE  InBalance' /\ Conserved'
<1>0. CashInv
  BY DEF Books
<1>1. PICK new \in CostDoc, w \in Seq(Step) : Creates(t, new, w)
  BY <1>0, CreatePettyCostIs
<1> DEFINE a == [op |-> "createCost", new |-> new]
           info == new.pettyCashInfo
<1>2. a \in Step /\ a.op = "createCost" /\ a.new = new
  BY DEF Step
<1>3. Request(t, <<a>> \o w)
  BY <1>1 DEF Creates
<1> HIDE DEF a
<1> DEFINE q == <<a>> \o w
<1>4. /\ q \in Seq(Step) /\ q # <<>> /\ q[1] = a /\ Head(q) = a
      /\ Len(w) \in Nat /\ DOMAIN w = 1..Len(w) /\ DOMAIN q = 1..Len(w) + 1
      /\ \A i \in DOMAIN q : i # 1 => i - 1 \in DOMAIN w /\ q[i] = w[i - 1]
  BY <1>2, OneThen
<1>5. Request(t, q)
  BY <1>3
<1> HIDE DEF q
<1>6. /\ info \in Seq(Share) /\ DOMAIN w = DOMAIN info
      /\ \A i, j \in DOMAIN info : info[i].cash = info[j].cash => i = j
  <2>1. info \in Seq(Share)
    BY DEF CostDoc
  <2>2. DOMAIN w = DOMAIN info /\ CostInv(new)
    BY <1>1 DEF Creates
  <2>3. new.official \/ ~new.official
    OBVIOUS
  <2> QED
    BY <2>1, <2>2, <2>3 DEF CostInv, InFull
<1>7. ASSUME NEW k \in DOMAIN info
      PROVE  /\ w[k].op = "setRemain" /\ w[k].cash = info[k].cash
             /\ w[k].remain = cash[info[k].cash].remain - info[k].amount
             /\ info[k] \in Share
  <2>1. w[k] = Pays(info[k]) /\ info[k] \in Share
    BY <1>1, <1>6, Zenon DEF Creates
  <2>2. /\ Pays(info[k]).op = "setRemain" /\ Pays(info[k]).cash = info[k].cash
        /\ Pays(info[k]).remain = cash[info[k].cash].remain - info[k].amount
    BY DEF Pays
  <2> QED
    BY <2>1, <2>2
<1>8. ASSUME orderly, Quiet, NEW c \in Cash, Exists(cash[c])
      PROVE  Balances(q, c)
  <2>1. /\ cash[c].remain + Spent(c) = FilledWith(c)
        /\ cash[c].remain \in Int /\ FilledWith(c) \in Int /\ Spent(c) \in Int
    BY <1>8, FoundInBalance
  <2>2. Deletes(q) = {} /\ Takes(q, c) = Taken(info, c)
    BY <1>2, <1>4 DEF Deletes, Takes
  <2>3. Spends(q, c) = Spent(c) + Taken(info, c)
    BY <2>2 DEF Spends, Spent
  <2>4. Taken(info, c) \in Int
    BY <1>6, TakenType
  <2>5. ASSUME NEW i \in Mine(q, c)
        PROVE  /\ i \in DOMAIN q /\ i # 1 /\ i - 1 \in DOMAIN info
               /\ info[i - 1].cash = c /\ q[i] = w[i - 1]
    BY <1>2, <1>4, <1>6, <1>7 DEF Mine
  <2>6. \A i, j \in Mine(q, c) : i = j
    <3>1. ASSUME NEW i \in Mine(q, c), NEW j \in Mine(q, c) PROVE i = j
      <4>1. i - 1 = j - 1
        BY <1>6, <2>5
      <4>2. i \in Int /\ j \in Int
        BY <1>4, <2>5
      <4> QED
        BY <4>1, <4>2
    <3> QED
      BY <3>1
  <2>7. ASSUME NEW i \in Mine(q, c) PROVE Settles(q[i], c, Spends(q, c))
    <3>1. /\ q[i].op = "setRemain"
          /\ q[i].remain = cash[c].remain - info[i - 1].amount
          /\ info[i - 1].amount \in Int
      BY <1>7, <2>5 DEF Share
    <3>2. Taken(info, c) = info[i - 1].amount
      BY <1>6, <2>5, TakenOne
    <3>3. q[i].remain + Spends(q, c) = FilledWith(c)
      BY <2>1, <2>3, <3>1, <3>2
    <3> QED
      BY <3>1, <3>3 DEF Settles
  <2>8. ASSUME Mine(q, c) = {}
        PROVE  cash[c].remain + Spends(q, c) = FilledWith(c)
    <3>1. ASSUME NEW k \in DOMAIN info, info[k].cash = c PROVE FALSE
      <4>1. k + 1 \in DOMAIN q /\ k + 1 # 1 /\ (k + 1) - 1 = k
        BY <1>4, <1>6
      <4>2. q[k + 1] = w[k]
        BY <1>4, <4>1
      <4>3. k + 1 \in Mine(q, c)
        BY <1>7, <3>1, <4>1, <4>2 DEF Mine
      <4> QED
        BY <2>8, <4>3
    <3>2. Taken(info, c) = 0
      BY <3>1, TakenNone
    <3> QED
      BY <2>1, <2>3, <3>2
  <2> QED
    BY <2>6, <2>7, <2>8 DEF Balances
<1> QED
  BY <1>4, <1>5, <1>8, RequestBalances

LEMMA UndoesBalances ==
    ASSUME Books, NEW t \in Thread, DeletePettyCost(t)
    PROVE  InBalance' /\ Conserved'
<1>0. CashInv /\ cost \in [Cost -> CostDoc]
  BY DEF Books, CashInv, TypeOK
<1>1. PICK m \in Cost, w \in Seq(Step) : Undoes(t, m, w)
  BY <1>0, DeletePettyCostIs
<1> DEFINE a == [op |-> "setCosts", costs |-> {m}, status |-> "deleted"]
           info == cost[m].pettyCashInfo
<1>2. /\ a \in Step /\ a.op = "setCosts" /\ a.costs = {m} /\ a.status = "deleted"
  BY DEF Step
<1>3. Request(t, <<a>> \o w)
  BY <1>1 DEF Undoes
<1> HIDE DEF a
<1> DEFINE q == <<a>> \o w
<1>4. /\ q \in Seq(Step) /\ q # <<>> /\ q[1] = a /\ Head(q) = a
      /\ Len(w) \in Nat /\ DOMAIN w = 1..Len(w) /\ DOMAIN q = 1..Len(w) + 1
      /\ \A i \in DOMAIN q : i # 1 => i - 1 \in DOMAIN w /\ q[i] = w[i - 1]
  BY <1>2, OneThen
<1>5. Request(t, q) /\ Exists(cost[m])
  BY <1>1, <1>3 DEF Undoes
<1> HIDE DEF q
<1>6. /\ info \in Seq(Share) /\ DOMAIN w = DOMAIN info
      /\ \A i, j \in DOMAIN info : info[i].cash = info[j].cash => i = j
  <2>1. info \in Seq(Share)
    BY <1>0 DEF CostDoc
  <2>2. DOMAIN w = DOMAIN info
    BY <1>1 DEF Undoes
  <2>3. CostInv(cost[m])
    BY <1>0 DEF CashInv
  <2>4. cost[m].official \/ ~cost[m].official
    OBVIOUS
  <2> QED
    BY <2>1, <2>2, <2>3, <2>4 DEF CostInv, InFull
<1>7. ASSUME NEW k \in DOMAIN info
      PROVE  /\ w[k].op = "refund" /\ w[k].cash = info[k].cash
             /\ w[k].amount = info[k].amount /\ info[k] \in Share
  <2>1. /\ w[k] = [op |-> "refund", cash |-> info[k].cash, amount |-> info[k].amount]
        /\ info[k] \in Share
    BY <1>1, <1>6, Zenon DEF Undoes
  <2> QED
    BY <2>1
<1>8. ASSUME orderly, Quiet, NEW c \in Cash, Exists(cash[c])
      PROVE  Balances(q, c)
  <2>1. /\ cash[c].remain + Spent(c) = FilledWith(c)
        /\ cash[c].remain \in Int /\ FilledWith(c) \in Int /\ Spent(c) \in Int
    BY <1>8, FoundInBalance
  <2>2. Deletes(q) = {m} /\ Takes(q, c) = 0
    BY <1>2, <1>4 DEF Deletes, Takes
  <2>3. Spends(q, c) = SpentBut({m}, c) + 0
    BY <2>2 DEF Spends
  <2>4. SpentBut({m}, c) \in Int /\ Taken(info, c) \in Int
    BY <1>0, TakingIs
  <2>5. Spent(c) = SpentBut({m}, c) + Taken(info, c)
    BY <1>0, <1>5, SpentWithout
  <2>6. ASSUME NEW i \in Mine(q, c)
        PROVE  /\ i \in DOMAIN q /\ i # 1 /\ i - 1 \in DOMAIN info
               /\ info[i - 1].cash = c /\ q[i] = w[i - 1]
    BY <1>2, <1>4, <1>6, <1>7 DEF Mine
  <2>7. \A i, j \in Mine(q, c) : i = j
    <3>1. ASSUME NEW i \in Mine(q, c), NEW j \in Mine(q, c) PROVE i = j
      <4>1. i - 1 = j - 1
        BY <1>6, <2>6
      <4>2. i \in Int /\ j \in Int
        BY <1>4, <2>6
      <4> QED
        BY <4>1, <4>2
    <3> QED
      BY <3>1
  <2>8. ASSUME NEW i \in Mine(q, c) PROVE Settles(q[i], c, Spends(q, c))
    <3>1. /\ q[i].op = "refund" /\ q[i].amount = info[i - 1].amount
          /\ info[i - 1].amount \in Int
      BY <1>7, <2>6 DEF Share
    <3>2. Taken(info, c) = info[i - 1].amount
      BY <1>6, <2>6, TakenOne
    <3>3. cash[c].remain + q[i].amount + Spends(q, c) = FilledWith(c)
      BY <2>1, <2>3, <2>4, <2>5, <3>1, <3>2
    <3> QED
      BY <3>1, <3>3 DEF Settles
  <2>9. ASSUME Mine(q, c) = {}
        PROVE  cash[c].remain + Spends(q, c) = FilledWith(c)
    <3>1. ASSUME NEW k \in DOMAIN info, info[k].cash = c PROVE FALSE
      <4>1. k + 1 \in DOMAIN q /\ k + 1 # 1 /\ (k + 1) - 1 = k
        BY <1>4, <1>6
      <4>2. q[k + 1] = w[k]
        BY <1>4, <4>1
      <4>3. k + 1 \in Mine(q, c)
        BY <1>7, <3>1, <4>1, <4>2 DEF Mine
      <4> QED
        BY <2>9, <4>3
    <3>2. Taken(info, c) = 0
      BY <3>1, TakenNone
    <3> QED
      BY <2>1, <2>3, <2>4, <2>5, <3>2
  <2> QED
    BY <2>7, <2>8, <2>9 DEF Balances
<1> QED
  BY <1>4, <1>5, <1>8, RequestBalances

LEMMA SoleBalances ==
    ASSUME Books, NEW t \in Thread, SoleRequest(t)
    PROVE  InBalance' /\ Conserved'
<1>0. CashInv /\ cost \in [Cost -> CostDoc]
  BY DEF Books, CashInv, TypeOK
<1>1. PICK a \in Step : Request(t, <<a>>) /\ Sole(a)
  BY <1>0, SoleRequestIs
<1> DEFINE q == <<a>>
<1>2. q \in Seq(Step) /\ q # <<>> /\ DOMAIN q = {1} /\ q[1] = a /\ Head(q) = a
  BY OnlyOne
<1>3. Request(t, q)
  BY <1>1
<1> HIDE DEF q
<1>4. ASSUME orderly, Quiet, NEW c \in Cash, Exists(cash[c])
      PROVE  Balances(q, c)
  <2>1. /\ cash[c].remain + Spent(c) = FilledWith(c)
        /\ cash[c].remain \in Int /\ FilledWith(c) \in Int /\ Spent(c) \in Int
    BY <1>4, FoundInBalance
  <2>2. \A i, j \in Mine(q, c) : i = j
    BY <1>2 DEF Mine
  <2>3. Spends(q, c) = Spent(c)
    <3>1. CASE a.op = "createCost"
      <4>1. a.new.pettyCashInfo = <<>>
        BY <1>1, <3>1 DEF Sole, StepInv, CostInv
      <4>2. Taken(a.new.pettyCashInfo, c) = 0
        BY <4>1, TakenNone
      <4>3. Deletes(q) = {} /\ Takes(q, c) = 0
        BY <1>2, <3>1, <4>2 DEF Deletes, Takes
      <4>4. Spends(q, c) = Spent(c) + 0
        BY <4>3 DEF Spends, Spent
      <4> QED
        BY <2>1, <4>4
    <3>2. CASE a.op = "setCosts" /\ a.status = "deleted"
      <4>1. a.costs \in SUBSET Cost
        BY <3>2 DEF Step
      <4>2. \A k \in a.costs : cost[k].pettyCashInfo = <<>>
        BY <1>0, <1>1, <3>2, <4>1 DEF Sole, CashInv, CostInv
      <4>3. SpentBut(a.costs, c) = Spent(c)
        BY <1>0, <4>2, SpentWithoutShares
      <4>4. Deletes(q) = a.costs /\ Takes(q, c) = 0
        BY <1>2, <3>2 DEF Deletes, Takes
      <4>5. Spends(q, c) = SpentBut(a.costs, c) + 0
        BY <4>4 DEF Spends
      <4> QED
        BY <2>1, <4>3, <4>5
    <3>3. CASE a.op # "createCost" /\ ~(a.op = "setCosts" /\ a.status = "deleted")
      <4>1. Deletes(q) = {} /\ Takes(q, c) = 0
        BY <1>2, <3>3 DEF Deletes, Takes
      <4>2. Spends(q, c) = Spent(c) + 0
        BY <4>1 DEF Spends, Spent
      <4> QED
        BY <2>1, <4>2
    <3> QED
      BY <3>1, <3>2, <3>3
  <2>4. ASSUME NEW i \in Mine(q, c) PROVE Settles(q[i], c, Spends(q, c))
    <3>1. /\ q[i] = a /\ a.cash = c
          /\ a.op \in {"setRemain", "refund", "setAmount"}
      BY <1>2 DEF Mine
    <3>2. /\ a.op = "setAmount"
          /\ a.remain = cash[c].remain + (a.amount - cash[c].amount)
      BY <1>1, <3>1 DEF Sole
    <3>3. /\ a.amount \in Int /\ cash[c].amount \in Int /\ waived[c] \in Int
      BY <1>0, <3>2 DEF Step, CashInv, TypeOK, CashDoc
    <3>4. a.remain + Spent(c) = a.amount + waived[c]
      BY <2>1, <3>2, <3>3 DEF FilledWith
    <3> QED
      BY <2>3, <3>1, <3>2, <3>4 DEF Settles
  <2> QED
    BY <2>1, <2>2, <2>3, <2>4 DEF Balances
<1> QED
  BY <1>2, <1>3, <1>4, RequestBalances

\* No cost that exists has shares of a cash that does not.
LEMMA NothingSpent ==
    ASSUME CashInv, NEW c \in Cash, cash[c].status = "none"
    PROVE  Spent(c) = 0
<1>1. cost \in [Cost -> CostDoc]
  BY DEF CashInv, TypeOK
<1>2. ASSUME NEW k \in Cost PROVE Taken(cost[k].pettyCashInfo, c) = 0
  <2>1. CostInv(cost[k])
    BY DEF CashInv
  <2>2. ASSUME NEW j \in DOMAIN cost[k].pettyCashInfo
        PROVE  cost[k].pettyCashInfo[j].cash # c
    <3>1. cost[k].pettyCashInfo[j] \in Range(cost[k].pettyCashInfo)
      BY DEF Range
    <3> QED
      BY <2>1, <3>1 DEF CostInv
  <2> QED
    BY <2>2, TakenNone
<1>3. Spent(c) = SumFunction(Taking({}, c)) /\ Taking({}, c) \in [Cost -> Int]
  BY <1>1, TakingIs DEF Spent
<1>4. \A k \in Cost : Taking({}, c)[k] = 0
  BY <1>2 DEF Taking
<1> DEFINE f == Taking({}, c)
<1> HIDE DEF f
<1>5. f \in [Cost -> Int] /\ \A k \in Cost : f[k] = 0
  BY <1>3, <1>4 DEF f
<1>6. SumFunction(f) = 0
  BY <1>5, SumZero, PettyCashAssumption
<1> QED
  BY <1>3, <1>6 DEF f

LEMMA CreatePettyCashBalances ==
    ASSUME Books, NEW t \in Thread, CreatePettyCash(t)
    PROVE  InBalance' /\ Conserved'
<1>0. /\ CashInv /\ CashInv' /\ cash \in [Cash -> CashDoc]
  BY CreatePettyCashInv DEF Books, CashInv, TypeOK
<1>1. PICK d \in Cash, v \in Amounts :
        /\ cash[d].status = "none"
        /\ cash' = [cash EXCEPT ![d] = Filled(v)]
  BY DEF CreatePettyCash
<1>2. /\ UNCHANGED <<cost, agenda, waived>>
      /\ orderly' => orderly /\ Quiet
      /\ v \in Int
  BY PettyCashAssumption DEF CreatePettyCash
<1>3. \A c \in Cash : Spent(c)' = Spent(c)
  BY <1>2 DEF Spent, SpentBut
<1>4. ASSUME orderly', NEW c \in Cash, Exists(cash'[c])
      PROVE  cash'[c].remain + Spent(c)' = FilledWith(c)'
  <2>1. CASE c = d
    <3>1. cash'[c] = Filled(v)
      BY <1>0, <1>1, <2>1
    <3>2. Spent(c) = 0
      BY <1>0, <1>1, <2>1, NothingSpent
    <3> QED
      BY <1>1, <1>2, <1>3, <2>1, <3>1, <3>2 DEF Filled, FilledWith, Books, Fresh
  <2>2. CASE c # d
    <3>1. cash'[c] = cash[c]
      BY <1>0, <1>1, <2>2
    <3>2. orderly /\ Quiet /\ Exists(cash[c])
      BY <1>2, <1>4, <3>1
    <3> QED
      BY <1>2, <1>3, <3>1, <3>2, FoundInBalance DEF FilledWith
  <2> QED
    BY <2>1, <2>2
<1>5. orderly' => \A u \in Thread : agenda'[u] = <<>>
  BY <1>2 DEF Quiet
<1> QED
  BY <1>4, <1>5 DEF InBalance, Conserved

\* The cash is written as its first write says, or is none of its business.
Writes(t, c) ==
    /\ Exists(cash[c])
    /\ Spent(c)' = Spends(agenda[t], c)
    /\ IF 1 \in Mine(agenda[t], c)
       THEN Settles(agenda[t][1], c, Spends(agenda[t], c)) =>
              cash'[c].remain + Spends(agenda[t], c) = FilledWith(c)'
       ELSE cash'[c].remain = cash[c].remain /\ FilledWith(c)' = FilledWith(c)

LEMMA OneBusy ==
    ASSUME Books, orderly, NEW t \in Thread, agenda[t] # <<>>
    PROVE  /\ \A u \in Thread \ {t} : agenda[u] = <<>>
           /\ \A c \in Cash : Exists(cash[c]) => Balances(agenda[t], c)
  BY DEF Books, InBalance

\* After a first write there is no cost left to create or to delete.
LEMMA RestOnlyCash ==
    ASSUME CashInv', NEW t \in Thread, NEW c,
           \A i \in DOMAIN agenda'[t] : agenda'[t][i].op \in {"setRemain", "refund"},
           Spent(c)' \in Int
    PROVE  Spends(agenda[t], c)' = Spent(c)'
<1>1. agenda'[t] # <<>> => Head(agenda'[t]).op \in {"setRemain", "refund"}
  <2>1. agenda'[t] \in Seq(Step)
    BY DEF CashInv, TypeOK
  <2>2. agenda'[t] # <<>> =>
          Head(agenda'[t]) = agenda'[t][1] /\ 1 \in DOMAIN agenda'[t]
    BY <2>1, HeadTailProperties, LenProperties, EmptySeq
  <2> QED
    BY <2>2
<1>2. Deletes(agenda[t])' = {} /\ Takes(agenda[t], c)' = 0
  BY <1>1 DEF Deletes, Takes
<1>3. Spends(agenda[t], c)' = Spent(c)' + 0
  BY <1>2 DEF Spends, Spent
<1> QED
  BY <1>3

LEMMA SpentPrime ==
    ASSUME CashInv', NEW c
    PROVE  Spent(c)' \in Int
<1>1. cost' \in [Cost -> CostDoc]
  BY DEF CashInv, TypeOK
<1> DEFINE g == [m \in Cost |-> IF Exists(cost'[m]) /\ m \notin {}
                                THEN Taken(cost'[m].pettyCashInfo, c) ELSE 0]
<1>2. Spent(c)' = SumFunction(g)
  BY DEF Spent, SpentBut
<1>3. ASSUME NEW m \in Cost PROVE Taken(cost'[m].pettyCashInfo, c) \in Int
  <2>1. cost'[m].pettyCashInfo \in Seq(Share)
    BY <1>1 DEF CostDoc
  <2> QED
    BY <2>1, TakenType
<1>4. g \in [Cost -> Int]
  BY <1>3
<1> HIDE DEF g
<1> QED
  BY <1>2, <1>4, SumType, PettyCashAssumption

LEMMA WriteBalances ==
    ASSUME Books, CashInv', NEW t \in Thread, agenda[t] # <<>>, Then(t, <<>>),
           orderly' => orderly,
           orderly => \A c \in Cash : Exists(cash'[c]) => Writes(t, c)
    PROVE  InBalance' /\ Conserved'
<1>1. TypeOK /\ CashInv
  BY DEF Books, CashInv
<1>2. /\ \A u \in Thread \ {t} : agenda'[u] = agenda[u]
      /\ Len(agenda[t]) \in Nat \ {0}
      /\ DOMAIN agenda[t] = 1..Len(agenda[t])
      /\ DOMAIN agenda'[t] = 1..Len(agenda[t]) - 1
      /\ \A i \in DOMAIN agenda'[t] : agenda'[t][i] = agenda[t][i + 1]
  BY <1>1, ThenNone
<1>3. \A i \in DOMAIN agenda'[t] : /\ i + 1 \in DOMAIN agenda[t] /\ i + 1 # 1 /\ i \in Int
                                   /\ agenda'[t][i] = agenda[t][i + 1]
                                   /\ agenda'[t][i].op \in {"setRemain", "refund"}
  BY <1>1, <1>2 DEF CashInv
<1>4. orderly' => \A u \in Thread \ {t} : agenda'[u] = <<>>
  BY <1>2, OneBusy
<1>5. ASSUME orderly', NEW c \in Cash, Exists(cash'[c])
      PROVE  Balances(agenda[t], c)'
  <2>1. Writes(t, c) /\ orderly
    BY <1>5
  <2>2. Balances(agenda[t], c)
    BY <2>1, OneBusy DEF Writes
  <2>3. Spends(agenda[t], c)' = Spent(c)' /\ Spent(c)' = Spends(agenda[t], c)
    BY <1>3, <2>1, SpentPrime, RestOnlyCash DEF Writes
  <2> DEFINE M == Mine(agenda[t], c)
             N == Mine(agenda[t], c)'
             x == Spends(agenda[t], c)
  <2>4. \A i \in N : i \in DOMAIN agenda'[t] /\ i \in Int /\ i + 1 \in M /\ i + 1 # 1
    BY <1>3 DEF Mine
  <2>5. \A i, j \in M : i = j
    BY <2>2 DEF Balances
  <2> HIDE DEF M, N
  <2>6. \A i, j \in N : i = j
    <3>1. ASSUME NEW i \in N, NEW j \in N PROVE i = j
      <4>1. i + 1 = j + 1 /\ i \in Int /\ j \in Int
        BY <2>4, <2>5
      <4> QED
        BY <4>1
    <3> QED
      BY <3>1
  <2>7. ASSUME NEW i \in N PROVE Settles(agenda[t][i], c, Spends(agenda[t], c))'
    <3>1. i + 1 \in M /\ 1 \notin M /\ i \in DOMAIN agenda'[t]
      BY <2>4, <2>5
    <3>2. cash'[c].remain = cash[c].remain /\ FilledWith(c)' = FilledWith(c)
      BY <2>1, <3>1 DEF Writes, M
    <3>3. Settles(agenda[t][i + 1], c, x)
      BY <2>2, <3>1 DEF Balances, M
    <3>4. agenda'[t][i] = agenda[t][i + 1]
      BY <1>3, <3>1
    <3>5. agenda[t][i + 1].op \in {"setRemain", "refund"}
      BY <1>3, <3>1
    <3> QED
      BY <2>3, <3>2, <3>3, <3>4, <3>5 DEF Settles
  <2>8. ASSUME N = {} PROVE cash'[c].remain + x = FilledWith(c)'
    <3>1. CASE 1 \in M
      <4>1. Settles(agenda[t][1], c, x)
        BY <2>2, <3>1 DEF Balances, M
      <4> QED
        BY <2>1, <3>1, <4>1 DEF Writes, M
    <3>2. CASE 1 \notin M
      <4>1. ASSUME NEW m \in M PROVE FALSE
        <5>1. m \in DOMAIN agenda[t] /\ m # 1
          BY <3>2 DEF M, Mine
        <5>2. m - 1 \in DOMAIN agenda'[t] /\ (m - 1) + 1 = m
          BY <1>2, <5>1
        <5>3. agenda'[t][m - 1] = agenda[t][m]
          BY <1>3, <5>2
        <5>4. m - 1 \in N
          BY <5>2, <5>3 DEF M, N, Mine
        <5> QED
          BY <2>8, <5>4
      <4>2. M = {}
        BY <4>1
      <4>3. cash[c].remain + x = FilledWith(c)
        BY <2>2, <4>2 DEF Balances, M
      <4>4. cash'[c].remain = cash[c].remain /\ FilledWith(c)' = FilledWith(c)
        BY <2>1, <3>2 DEF Writes, M
      <4> QED
        BY <4>3, <4>4
    <3> QED
      BY <3>1, <3>2
  <2> QED
    BY <2>3, <2>6, <2>7, <2>8 DEF Balances, N
<1>6. \A c \in Cash : cash'[c].remain \in Int /\ Spent(c)' \in Int
  <2>1. \A c \in Cash : cash'[c].remain \in Int
    BY DEF CashInv, TypeOK, CashDoc
  <2> QED
    BY <2>1, SpentPrime
<1> QED
  BY <1>4, <1>5, <1>6, BalancedSoFar

\* A first step that is no business of a cash leaves it.
LEMMA HeadMine ==
    ASSUME CashInv, NEW t \in Thread, agenda[t] # <<>>, NEW c
    PROVE  LET s == Head(agenda[t]) IN
           /\ agenda[t][1] = s
           /\ 1 \in Mine(agenda[t], c) <=>
                s.op \in {"setRemain", "refund", "setAmount"} /\ s.cash = c
           /\ s.op \notin {"createCost", "setCosts"} =>
                Deletes(agenda[t]) = {} /\ Takes(agenda[t], c) = 0
           /\ s.op = "createCost" =>
                /\ Deletes(agenda[t]) = {}
                /\ Takes(agenda[t], c) = Taken(s.new.pettyCashInfo, c)
           /\ s.op = "setCosts" => Takes(agenda[t], c) = 0
<1>1. agenda[t][1] = Head(agenda[t]) /\ 1 \in DOMAIN agenda[t]
  BY HeadIs
<1> QED
  BY <1>1 DEF Mine, Deletes, Takes

\* What is spent does not change when only a cash is written.
LEMMA SpentSame ==
    ASSUME CashInv, NEW t \in Thread, agenda[t] # <<>>, NEW c,
           Head(agenda[t]).op \notin {"createCost", "setCosts"}, UNCHANGED cost
    PROVE  Spent(c)' = Spends(agenda[t], c)
<1>1. Deletes(agenda[t]) = {} /\ Takes(agenda[t], c) = 0
  BY HeadMine
<1>2. Spends(agenda[t], c) = Spent(c) + 0
  BY <1>1 DEF Spends, Spent
<1>3. Spent(c) \in Int
  BY TakingIs DEF Spent, CashInv, TypeOK
<1>4. Spent(c)' = Spent(c)
  BY DEF Spent, SpentBut
<1> QED
  BY <1>2, <1>3, <1>4

LEMMA WriteCashBalances ==
    ASSUME Books, CashInv', NEW t \in Thread, agenda[t] # <<>>,
           Head(agenda[t]).op \in {"setRemain", "setAmount", "setCash", "clearAmount"},
           NEW d \in Cash, d = Head(agenda[t]).cash,
           NEW new \in CashDoc, WriteCash(t, d, new),
           \A c \in Cash \ {d} : waived'[c] = waived[c],
           Exists(cash[d]) /\ Head(agenda[t]).op \in {"setCash", "clearAmount"} =>
             new.remain = cash[d].remain /\ new.amount + waived'[d] = FilledWith(d),
           Head(agenda[t]).op \in {"setRemain", "setAmount"} =>
             \A spent \in Int : Settles(Head(agenda[t]), d, spent) =>
               new.remain + spent = new.amount + waived'[d]
    PROVE  InBalance' /\ Conserved'
<1>1. /\ CashInv /\ cash \in [Cash -> CashDoc]
  BY DEF Books, CashInv, TypeOK
<1>2. /\ Then(t, <<>>) /\ UNCHANGED <<cost, orderly>>
      /\ cash' = IF Exists(cash[d]) THEN [cash EXCEPT ![d] = new] ELSE cash
  BY DEF WriteCash
<1>3. ASSUME NEW c \in Cash, Exists(cash'[c]) PROVE Writes(t, c)
  <2>1. Spent(c)' = Spends(agenda[t], c)
    BY <1>1, <1>2, SpentSame
  <2>2. Spends(agenda[t], c) \in Int
    BY <2>1, SpentPrime
  <2>3. Exists(cash[c])
    BY <1>1, <1>2, <1>3
  <2>4. CASE c = d
    <3>1. cash'[c] = new
      BY <1>1, <1>2, <2>3, <2>4
    <3>2. CASE Head(agenda[t]).op \in {"setCash", "clearAmount"}
      <4>1. 1 \notin Mine(agenda[t], c)
        BY <1>1, <3>2, HeadMine
      <4> QED
        BY <2>1, <2>3, <2>4, <3>1, <3>2, <4>1 DEF Writes, FilledWith
    <3>3. CASE Head(agenda[t]).op \in {"setRemain", "setAmount"}
      <4>1. 1 \in Mine(agenda[t], c) /\ agenda[t][1] = Head(agenda[t])
        BY <1>1, <2>4, <3>3, HeadMine
      <4>2. Settles(agenda[t][1], c, Spends(agenda[t], c)) =>
              cash'[c].remain + Spends(agenda[t], c) = FilledWith(c)'
        BY <2>2, <2>4, <3>1, <3>3, <4>1 DEF FilledWith
      <4> QED
        BY <2>1, <2>3, <4>1, <4>2 DEF Writes
    <3> QED
      BY <3>2, <3>3
  <2>5. CASE c # d
    <3>1. cash'[c] = cash[c]
      BY <1>1, <1>2, <2>5
    <3>2. 1 \notin Mine(agenda[t], c)
      BY <1>1, <2>5, HeadMine
    <3> QED
      BY <2>1, <2>3, <2>5, <3>1, <3>2 DEF Writes, FilledWith
  <2> QED
    BY <2>4, <2>5
<1> QED
  BY <1>2, <1>3, WriteBalances

LEMMA SetRemainBalances ==
    ASSUME Books, NEW t \in Thread, SetRemain(t)
    PROVE  InBalance' /\ Conserved'
<1> DEFINE s == Head(agenda[t])
           new == [cash[s.cash] EXCEPT !.remain = s.remain]
<1>1. /\ agenda[t] # <<>> /\ s.op = "setRemain" /\ WriteCash(t, s.cash, new)
      /\ UNCHANGED waived
  BY DEF SetRemain, Turn
<1>2. CashInv /\ CashInv'
  BY SetRemainInv DEF Books
<1>3. s.cash \in Cash /\ s.remain \in Int
  BY <1>1, <1>2, HeadIs
<1>4. cash[s.cash] \in CashDoc
  BY <1>2, <1>3 DEF CashInv, TypeOK
<1>5. new \in CashDoc /\ new.remain = s.remain /\ new.amount = cash[s.cash].amount
  <2> HIDE DEF s
  <2> QED
    BY <1>3, <1>4 DEF CashDoc
<1> HIDE DEF new
<1>6. \A spent \in Int : Settles(s, s.cash, spent) =>
        new.remain + spent = new.amount + waived'[s.cash]
  BY <1>1, <1>5 DEF Settles, FilledWith
<1> QED
  BY <1>1, <1>2, <1>3, <1>5, <1>6, WriteCashBalances

LEMMA SetAmountBalances ==
    ASSUME Books, NEW t \in Thread, SetAmount(t)
    PROVE  InBalance' /\ Conserved'
<1> DEFINE s == Head(agenda[t])
           new == [cash[s.cash] EXCEPT !.amount = s.amount, !.remain = s.remain]
<1>1. /\ agenda[t] # <<>> /\ s.op = "setAmount" /\ WriteCash(t, s.cash, new)
      /\ UNCHANGED waived
  BY DEF SetAmount, Turn
<1>2. CashInv /\ CashInv'
  BY SetAmountInv DEF Books
<1>3. s.cash \in Cash /\ s.remain \in Int /\ s.amount \in Int
  BY <1>1, <1>2, HeadIs
<1>4. cash[s.cash] \in CashDoc
  BY <1>2, <1>3 DEF CashInv, TypeOK
<1>5. new \in CashDoc /\ new.remain = s.remain /\ new.amount = s.amount
  <2> HIDE DEF s
  <2> QED
    BY <1>3, <1>4 DEF CashDoc
<1> HIDE DEF new
<1>6. \A spent \in Int : Settles(s, s.cash, spent) =>
        new.remain + spent = new.amount + waived'[s.cash]
  BY <1>1, <1>5 DEF Settles
<1> QED
  BY <1>1, <1>2, <1>3, <1>5, <1>6, WriteCashBalances

LEMMA ClearAmountBalances ==
    ASSUME Books, NEW t \in Thread, ClearAmount(t)
    PROVE  InBalance' /\ Conserved'
<1>1. CashInv /\ CashInv' /\ waived \in [Cash -> Int]
  BY ClearAmountInv DEF Books, CashInv, TypeOK
<1> DEFINE c == Head(agenda[t]).cash
           new == Cleared(c)
<1>2. /\ agenda[t] # <<>> /\ Head(agenda[t]).op = "clearAmount"
      /\ c \in Cash /\ WriteCash(t, c, new)
      /\ new \in CashDoc /\ new.amount = 0 /\ new.remain = cash[c].remain
      /\ \A d \in Cash \ {c} : waived'[d] = waived[d]
      /\ waived' \in [Cash -> Int]
      /\ Exists(cash[c]) => waived'[c] = FilledWith(c)
  BY <1>1, ClearAmountIs
<1> HIDE DEF new
<1>3. Exists(cash[c]) => new.amount + waived'[c] = FilledWith(c)
  <2> HIDE DEF c
  <2> QED
    BY <1>2
<1> QED
  BY <1>1, <1>2, <1>3, WriteCashBalances

LEMMA SetCashBalances ==
    ASSUME Books, NEW t \in Thread, SetCash(t)
    PROVE  InBalance' /\ Conserved'
<1> DEFINE s == Head(agenda[t])
           new == [cash[s.cash] EXCEPT !.status = s.status]
<1>1. /\ agenda[t] # <<>> /\ s.op = "setCash" /\ WriteCash(t, s.cash, new)
      /\ UNCHANGED waived
  BY DEF SetCash, Turn
<1>2. CashInv /\ CashInv'
  BY SetCashInv DEF Books
<1>3. s.cash \in Cash /\ s.status \in {"inactive", "deleted"}
  BY <1>1, <1>2, HeadIs
<1>4. cash[s.cash] \in CashDoc
  BY <1>2, <1>3 DEF CashInv, TypeOK
<1>5. /\ new \in CashDoc /\ new.remain = cash[s.cash].remain
      /\ new.amount = cash[s.cash].amount
  <2> HIDE DEF s
  <2> QED
    BY <1>3, <1>4 DEF CashDoc
<1> HIDE DEF new
<1>6. new.amount + waived'[s.cash] = FilledWith(s.cash)
  BY <1>1, <1>5 DEF FilledWith
<1> QED
  BY <1>1, <1>2, <1>3, <1>5, <1>6, WriteCashBalances

\* A write of the costs alone.
LEMMA WriteCostsBalances ==
    ASSUME Books, CashInv', NEW t \in Thread, agenda[t] # <<>>, Then(t, <<>>),
           Head(agenda[t]).op \in {"createCost", "setCosts", "setBudget"},
           UNCHANGED <<cash, orderly, waived>>,
           \A c \in Cash : Spent(c)' = Spends(agenda[t], c)
    PROVE  InBalance' /\ Conserved'
<1>1. CashInv
  BY DEF Books
<1>2. ASSUME NEW c \in Cash, Exists(cash'[c]) PROVE Writes(t, c)
  <2>1. 1 \notin Mine(agenda[t], c)
    BY <1>1, HeadMine
  <2> QED
    BY <1>2, <2>1 DEF Writes, FilledWith
<1> QED
  BY <1>2, WriteBalances

LEMMA CreateCostBalances ==
    ASSUME Books, NEW t \in Thread, CreateCost(t)
    PROVE  InBalance' /\ Conserved'
<1> DEFINE s == Head(agenda[t])
<1>1. /\ agenda[t] # <<>> /\ s.op = "createCost" /\ Then(t, <<>>)
      /\ UNCHANGED <<cash, orderly, waived>>
  BY DEF CreateCost, Turn
<1>2. PICK k \in Cost : cost[k].status = "none" /\ cost' = [cost EXCEPT ![k] = s.new]
  BY DEF CreateCost
<1>3. CashInv /\ CashInv' /\ cost \in [Cost -> CostDoc]
  BY CreateCostInv DEF Books, CashInv, TypeOK
<1>4. s.new \in CostDoc /\ s.new.status = "unpaid"
  BY <1>1, <1>3, HeadIs DEF StepInv
<1>5. ASSUME NEW c \in Cash PROVE Spent(c)' = Spends(agenda[t], c)
  <2>1. Deletes(agenda[t]) = {} /\ Takes(agenda[t], c) = Taken(s.new.pettyCashInfo, c)
    BY <1>1, <1>3, HeadMine
  <2>2. PICK new \in CostDoc : new = s.new
    BY <1>4
  <2> HIDE DEF s
  <2>3. Exists(new)
    BY <1>4, <2>2 DEF Exists
  <2>4. cost' = [cost EXCEPT ![k] = new]
    BY <1>2, <2>2
  <2>5. Spent(c)' = Spent(c) + Taken(new.pettyCashInfo, c)
    BY <1>2, <1>3, <2>3, <2>4, SpentCreated
  <2> QED
    BY <2>1, <2>2, <2>5 DEF Spends, Spent
<1> QED
  BY <1>1, <1>3, <1>5, WriteCostsBalances

LEMMA SetCostsBalances ==
    ASSUME Books, NEW t \in Thread, SetCosts(t)
    PROVE  InBalance' /\ Conserved'
<1> DEFINE s == Head(agenda[t])
           K == Deletes(agenda[t])
<1>1. /\ agenda[t] # <<>> /\ s.op = "setCosts" /\ Then(t, <<>>)
      /\ UNCHANGED <<cash, orderly, waived>>
      /\ cost' = [k \in Cost |-> IF k \in s.costs /\ Exists(cost[k])
                                 THEN [cost[k] EXCEPT !.status = s.status] ELSE cost[k]]
  BY DEF SetCosts, Turn, WriteCosts, history
<1>2. CashInv /\ CashInv' /\ cost \in [Cost -> CostDoc]
  BY SetCostsInv DEF Books, CashInv, TypeOK
<1>3. s.status \in {"unpaid", "pending", "paid", "deleted"}
  BY <1>1, <1>2, HeadIs
<1>4. K = IF s.status = "deleted" THEN s.costs ELSE {}
  BY <1>1 DEF Deletes
<1> HIDE DEF s, K
<1>5. ASSUME NEW k \in Cost
      PROVE  /\ cost'[k].pettyCashInfo = cost[k].pettyCashInfo
             /\ cost'[k].status = IF k \in s.costs /\ Exists(cost[k])
                                  THEN s.status ELSE cost[k].status
  BY <1>1, <1>2 DEF CostDoc
<1>6. ASSUME NEW k \in Cost PROVE Exists(cost'[k]) <=> Exists(cost[k]) /\ k \notin K
  BY <1>3, <1>4, <1>5 DEF Exists
<1>7. ASSUME NEW c \in Cash PROVE Spent(c)' = Spends(agenda[t], c)
  <2>1. Spent(c)' = SpentBut(K, c)
    BY <1>2, <1>5, <1>6, SpentKept
  <2>2. Takes(agenda[t], c) = 0
    BY <1>1, <1>2, HeadMine DEF s
  <2>3. Spends(agenda[t], c) = SpentBut(K, c) + 0
    BY <2>2 DEF Spends, K
  <2>4. SpentBut(K, c) \in Int
    BY <1>2, TakingIs
  <2> QED
    BY <2>1, <2>3, <2>4
<1> QED
  BY <1>1, <1>2, <1>7, WriteCostsBalances DEF s

LEMMA SetBudgetBalances ==
    ASSUME Books, NEW t \in Thread, SetBudget(t)
    PROVE  InBalance' /\ Conserved'
<1> DEFINE s == Head(agenda[t])
<1>1. /\ agenda[t] # <<>> /\ s.op = "setBudget" /\ Then(t, <<>>)
      /\ UNCHANGED <<cash, orderly, waived>>
      /\ cost' = [k \in Cost |-> IF k \in s.costs /\ Exists(cost[k])
                                 THEN [cost[k] EXCEPT !.budget = TRUE] ELSE cost[k]]
  BY DEF SetBudget, Turn, WriteCosts, history
<1>2. CashInv /\ CashInv' /\ cost \in [Cost -> CostDoc]
  BY SetBudgetInv DEF Books, CashInv, TypeOK
<1> HIDE DEF s
<1>3. ASSUME NEW k \in Cost
      PROVE  /\ cost'[k].pettyCashInfo = cost[k].pettyCashInfo
             /\ cost'[k].status = cost[k].status
  BY <1>1, <1>2 DEF CostDoc
<1>4. \A k \in Cost : Exists(cost'[k]) <=> Exists(cost[k]) /\ k \notin {}
  BY <1>3 DEF Exists
<1>5. ASSUME NEW c \in Cash PROVE Spent(c)' = Spends(agenda[t], c)
  <2>1. Spent(c)' = SpentBut({}, c)
    BY <1>2, <1>3, <1>4, SpentKept
  <2>2. Deletes(agenda[t]) = {} /\ Takes(agenda[t], c) = 0
    BY <1>1, <1>2, HeadMine DEF s
  <2>3. Spends(agenda[t], c) = SpentBut({}, c) + 0
    BY <2>2 DEF Spends
  <2>4. SpentBut({}, c) \in Int
    BY <1>2, TakingIs
  <2> QED
    BY <2>1, <2>3, <2>4
<1> QED
  BY <1>1, <1>2, <1>5, WriteCostsBalances DEF s

LEMMA RefundBalances ==
    ASSUME Books, NEW t \in Thread, Refund(t)
    PROVE  InBalance' /\ Conserved'
<1> DEFINE s == Head(agenda[t])
           r == Refunded(t)
<1>1. CashInv /\ CashInv' /\ TypeOK
  BY RefundInv DEF Books, CashInv
<1>2. /\ agenda[t] # <<>> /\ s.op = "refund"
      /\ UNCHANGED <<cash, cost, orderly, waived>>
      /\ r \in Step /\ r.op = "setRemain" /\ r.cash = s.cash
      /\ r.remain = cash[s.cash].remain + s.amount
      /\ IF Exists(cash[s.cash]) THEN Then(t, <<r>>) ELSE Then(t, <<>>)
  BY <1>1, RefundIs DEF history
<1>3. s.cash \in Cash /\ s.amount \in Int
  BY <1>1, <1>2, HeadIs
<1> HIDE DEF r
<1>4. CASE ~Exists(cash[s.cash])
  <2>1. ASSUME NEW c \in Cash, Exists(cash'[c]) PROVE Writes(t, c)
    <3>1. Spent(c)' = Spends(agenda[t], c)
      BY <1>1, <1>2, SpentSame
    <3>2. 1 \notin Mine(agenda[t], c)
      BY <1>1, <1>2, <1>4, <2>1, HeadMine
    <3> QED
      BY <1>2, <2>1, <3>1, <3>2 DEF Writes, FilledWith
  <2> QED
    BY <1>1, <1>2, <1>4, <2>1, WriteBalances
<1>5. CASE Exists(cash[s.cash])
  <2> DEFINE new == <<r>>
  <2>1. new \in Seq(Step) /\ Len(new) = 1 /\ new[1] = r /\ Then(t, new)
    BY <1>2, <1>5
  <2> HIDE DEF new
  <2>2. /\ \A u \in Thread \ {t} : agenda'[u] = agenda[u]
        /\ Len(agenda[t]) \in Nat \ {0}
        /\ DOMAIN agenda[t] = 1..Len(agenda[t])
        /\ DOMAIN agenda'[t] = 1..Len(new) + Len(agenda[t]) - 1
        /\ \A i \in DOMAIN agenda'[t] :
             agenda'[t][i] = IF i <= Len(new) THEN new[i]
                             ELSE agenda[t][i - Len(new) + 1]
    BY <1>1, <1>2, <2>1, ThenIs
  <2>3. DOMAIN agenda'[t] = DOMAIN agenda[t]
    BY <2>1, <2>2
  <2>4. agenda[t][1] = s
    BY <1>1, <1>2, HeadIs
  <2> HIDE DEF s
  <2>5. ASSUME NEW i \in DOMAIN agenda[t]
        PROVE  agenda'[t][i] = IF i = 1 THEN r ELSE agenda[t][i]
    BY <2>1, <2>2, <2>3
  <2>6. \A i \in DOMAIN agenda'[t] : agenda'[t][i].op \in {"setRemain", "refund"}
    BY <1>1, <1>2, <2>3, <2>5 DEF CashInv
  <2>7. orderly' => \A u \in Thread \ {t} : agenda'[u] = <<>>
    BY <1>2, <2>2, OneBusy
  <2>8. ASSUME orderly', NEW c \in Cash, Exists(cash'[c])
        PROVE  Balances(agenda[t], c)'
    <3>1. Balances(agenda[t], c)
      BY <1>2, <2>8, OneBusy
    <3>2. Spends(agenda[t], c)' = Spends(agenda[t], c)
      <4>1. Spent(c)' = Spends(agenda[t], c)
        BY <1>1, <1>2, SpentSame DEF s
      <4>2. Spends(agenda[t], c)' = Spent(c)'
        BY <1>1, <2>6, SpentPrime, RestOnlyCash
      <4> QED
        BY <4>1, <4>2
    <3>3. Mine(agenda[t], c)' = Mine(agenda[t], c)
      BY <1>2, <2>3, <2>4, <2>5 DEF Mine
    <3>4. ASSUME NEW i \in Mine(agenda[t], c)
          PROVE  Settles(agenda[t][i], c, Spends(agenda[t], c))'
      <4>1. Settles(agenda[t][i], c, Spends(agenda[t], c))
        BY <3>1 DEF Balances
      <4>2. i \in DOMAIN agenda[t] /\ agenda[t][i].cash = c
        BY DEF Mine
      <4>3. CASE i = 1
        <5>1. s.cash = c /\ agenda'[t][i] = r
          BY <2>4, <2>5, <4>2, <4>3
        <5>2. cash[c].remain + s.amount + Spends(agenda[t], c) = FilledWith(c)
          BY <1>2, <2>4, <4>1, <4>3 DEF Settles
        <5>3. r.remain + Spends(agenda[t], c) = FilledWith(c)
          BY <1>2, <5>1, <5>2
        <5> QED
          BY <1>2, <3>2, <5>1, <5>3 DEF Settles, FilledWith
      <4>4. CASE i # 1
        <5>1. agenda'[t][i] = agenda[t][i]
          BY <2>5, <4>2, <4>4
        <5> QED
          BY <1>2, <3>2, <4>1, <5>1 DEF Settles, FilledWith
      <4> QED
        BY <4>3, <4>4
    <3> QED
      BY <1>2, <3>1, <3>2, <3>3, <3>4 DEF Balances, FilledWith
  <2>9. \A c \in Cash : cash'[c].remain \in Int /\ Spent(c)' \in Int
    <3>1. \A c \in Cash : cash'[c].remain \in Int
      BY <1>1 DEF CashInv, TypeOK, CashDoc
    <3> QED
      BY <1>1, <3>1, SpentPrime
  <2> QED
    BY <2>7, <2>8, <2>9, BalancedSoFar
<1> QED
  BY <1>4, <1>5

\* No cash ceases to be, and only one that exists is taken something off.
LEMMA NextFresh ==
    ASSUME Books, [Next]_vars
    PROVE  Fresh'
<1> DEFINE Lives == \A c \in Cash : cash[c].status # "none" => cash'[c].status # "none"
<1>1. /\ CashInv /\ Fresh /\ cash \in [Cash -> CashDoc] /\ waived \in [Cash -> Int]
  BY DEF Books, CashInv, TypeOK
<1>2. CASE UNCHANGED <<cash, waived>>
  BY <1>1, <1>2 DEF Fresh
<1>3. ASSUME NEW t \in Thread, CreatePettyCash(t) PROVE Fresh'
  BY <1>1, <1>3 DEF CreatePettyCash, Filled, Fresh
<1>4. ASSUME NEW t \in Thread, NEW c \in Cash, NEW new \in CashDoc,
             WriteCash(t, c, new), new.status # "none" \/ new.status = cash[c].status,
             \A d \in Cash : waived'[d] = waived[d] \/ (d = c /\ Exists(cash[c]))
      PROVE  Fresh'
  BY <1>1, <1>4 DEF WriteCash, Fresh, Exists
<1>5. ASSUME NEW t \in Thread, SetRemain(t) PROVE Fresh'
  <2> DEFINE s == Head(agenda[t])
             new == [cash[s.cash] EXCEPT !.remain = s.remain]
  <2>1. agenda[t] # <<>> /\ s.op = "setRemain" /\ WriteCash(t, s.cash, new) /\ UNCHANGED waived
    BY <1>5 DEF SetRemain, Turn
  <2>2. s.cash \in Cash /\ s.remain \in Int
    BY <1>1, <2>1, HeadIs
  <2> HIDE DEF s
  <2>3. new \in CashDoc /\ new.status = cash[s.cash].status
    BY <1>1, <2>2 DEF CashDoc
  <2> HIDE DEF new
  <2> QED
    BY <1>4, <2>1, <2>2, <2>3
<1>6. ASSUME NEW t \in Thread, SetAmount(t) PROVE Fresh'
  <2> DEFINE s == Head(agenda[t])
             new == [cash[s.cash] EXCEPT !.amount = s.amount, !.remain = s.remain]
  <2>1. agenda[t] # <<>> /\ s.op = "setAmount" /\ WriteCash(t, s.cash, new) /\ UNCHANGED waived
    BY <1>6 DEF SetAmount, Turn
  <2>2. s.cash \in Cash /\ s.remain \in Int /\ s.amount \in Int
    BY <1>1, <2>1, HeadIs
  <2> HIDE DEF s
  <2>3. new \in CashDoc /\ new.status = cash[s.cash].status
    BY <1>1, <2>2 DEF CashDoc
  <2> HIDE DEF new
  <2> QED
    BY <1>4, <2>1, <2>2, <2>3
<1>7. ASSUME NEW t \in Thread, SetCash(t) PROVE Fresh'
  <2> DEFINE s == Head(agenda[t])
             new == [cash[s.cash] EXCEPT !.status = s.status]
  <2>1. agenda[t] # <<>> /\ s.op = "setCash" /\ WriteCash(t, s.cash, new) /\ UNCHANGED waived
    BY <1>7 DEF SetCash, Turn
  <2>2. s.cash \in Cash /\ s.status \in {"inactive", "deleted"}
    BY <1>1, <2>1, HeadIs
  <2> HIDE DEF s
  <2>3. new \in CashDoc /\ new.status # "none"
    BY <1>1, <2>2 DEF CashDoc
  <2> HIDE DEF new
  <2> QED
    BY <1>4, <2>1, <2>2, <2>3
<1>8. ASSUME NEW t \in Thread, ClearAmount(t) PROVE Fresh'
  <2> DEFINE c == Head(agenda[t]).cash
             new == Cleared(c)
  <2>1. /\ c \in Cash /\ WriteCash(t, c, new) /\ new \in CashDoc
        /\ new.status = cash[c].status /\ \A d \in Cash \ {c} : waived'[d] = waived[d]
        /\ ~Exists(cash[c]) => waived' = waived
    BY <1>1, <1>8, ClearAmountIs DEF ClearAmount
  <2> HIDE DEF c, new
  <2> QED
    BY <1>4, <2>1
<1>9. ASSUME NEW t \in Thread,
             \/ SoleRequest(t) \/ CreatePettyCost(t) \/ DeletePettyCost(t)
             \/ CreateCost(t) \/ Refund(t) \/ SetCosts(t) \/ SetBudget(t) \/ Fail(t)
      PROVE  UNCHANGED <<cash, waived>>
  <2>1. SoleRequest(t) => UNCHANGED <<cash, waived>>
    BY <1>1, SoleRequestIs DEF Request
  <2>2. CreatePettyCost(t) \/ DeletePettyCost(t) => UNCHANGED <<cash, waived>>
    BY <1>1, CreatePettyCostIs, DeletePettyCostIs DEF Creates, Undoes, Request
  <2> QED
    BY <1>9, <2>1, <2>2 DEF CreateCost, Refund, SetCosts, SetBudget, WriteCosts, Fail,
                            history
<1>10. UNCHANGED vars => UNCHANGED <<cash, waived>>
  BY DEF vars, history
<1> QED
  BY <1>2, <1>3, <1>5, <1>6, <1>7, <1>8, <1>9, <1>10 DEF Next, SoleRequest

LEMMA InitBooks ==
    ASSUME Init
    PROVE  Books
<1>1. CashInv
  BY InitInv
<1>2. InBalance
  BY DEF Init, InBalance
<1>3. ASSUME NEW c \in Cash, Exists(cash[c]) PROVE cash[c].remain + Spent(c) = FilledWith(c)
  <2>1. \A k \in Cost : Taking({}, c)[k] = 0
    BY DEF Init, NoCost, Exists, Taking
  <2>2. cost \in [Cost -> CostDoc]
    BY <1>1 DEF CashInv, TypeOK
  <2> DEFINE f == Taking({}, c)
  <2>3. Spent(c) = SumFunction(f) /\ f \in [Cost -> Int]
    BY <2>2, TakingIs DEF Spent
  <2> HIDE DEF f
  <2>4. \A k \in Cost : f[k] = 0
    BY <2>1 DEF f
  <2>5. Spent(c) = 0
    BY <2>3, <2>4, SumZero, PettyCashAssumption
  <2>6. PICK a \in Amounts : cash[c] = Filled(a)
    BY <1>3 DEF Init, Exists, NoCash
  <2>7. a \in Int /\ waived[c] = 0
    BY PettyCashAssumption DEF Init
  <2> QED
    BY <2>5, <2>6, <2>7 DEF Filled, FilledWith
<1>4. Fresh
  BY DEF Init, Fresh
<1> QED
  BY <1>1, <1>2, <1>3, <1>4 DEF Books, Conserved

LEMMA NextBooks ==
    ASSUME Books, [Next]_vars
    PROVE  Books'
<1>1. CashInv'
  BY NextInv DEF Books
<1>2. CASE UNCHANGED vars
  <2>1. cash' = cash /\ cost' = cost /\ agenda' = agenda /\ orderly' = orderly
    BY <1>2 DEF vars, history
  <2>4. \A c : FilledWith(c)' = FilledWith(c) /\ waived'[c] = waived[c]
    BY <1>2 DEF vars, history, FilledWith
  <2>2. InBalance'
    <3>1. ASSUME NEW t \in Thread, NEW c \in Cash, Balances(agenda[t], c)
          PROVE  Balances(agenda[t], c)'
      <4>1. Spends(agenda[t], c)' = Spends(agenda[t], c)
        BY <2>1 DEF Spends, Deletes, Takes, SpentBut
      <4>2. Mine(agenda[t], c)' = Mine(agenda[t], c)
        BY <2>1 DEF Mine
      <4> QED
        BY <2>1, <2>4, <3>1, <4>1, <4>2 DEF Balances, Settles
    <3> QED
      BY <2>1, <3>1 DEF Books, InBalance
  <2>3. Conserved'
    BY <2>1, <2>4 DEF Books, Conserved, Quiet, Spent, SpentBut
  <2> QED
    BY <1>1, <2>2, <2>3, NextFresh DEF Books
<1>3. ASSUME NEW t \in Thread,
             SoleRequest(t) \/ CreatePettyCost(t) \/ DeletePettyCost(t)
             \/ CreatePettyCash(t)
             \/ CreateCost(t) \/ SetRemain(t) \/ SetAmount(t) \/ ClearAmount(t)
             \/ SetCash(t) \/ Refund(t) \/ SetCosts(t) \/ SetBudget(t)
      PROVE  InBalance' /\ Conserved'
  BY <1>3, SoleBalances, CreatesBalances, UndoesBalances, CreatePettyCashBalances,
     CreateCostBalances, SetRemainBalances, SetAmountBalances, ClearAmountBalances, SetCashBalances,
     RefundBalances, SetCostsBalances, SetBudgetBalances
<1>4. ASSUME NEW t \in Thread, Fail(t) PROVE InBalance' /\ Conserved'
  <2>1. ~orderly'
    BY <1>4 DEF Fail
  <2> QED
    BY <2>1 DEF InBalance, Conserved
<1> QED
  BY <1>1, <1>2, <1>3, <1>4, NextFresh DEF Next, SoleRequest, Books

(***************************************************************************)
(* Requests one at a time.  However many cashes and costs there are, and   *)
(* whatever is filled, raised, taken out of use, allocated, deleted and    *)
(* refunded: what a cash has left and what its costs took make up its      *)
(* amount and what an update to 0 took off it.                             *)
(***************************************************************************)
THEOREM MoneyConserved == Spec => []Conserved
<1>1. Init => Books
  BY InitBooks
<1>2. Books /\ [Next]_vars => Books'
  BY NextBooks
<1>3. Books => Conserved
  BY DEF Books
<1> QED
  BY <1>1, <1>2, <1>3, PTL DEF Spec

(***************************************************************************)
(* And between two writes of a request every cash is out of balance by     *)
(* exactly what that request has still to write.                           *)
(***************************************************************************)
THEOREM AlwaysInBalance == Spec => []InBalance
<1>1. Init => Books
  BY InitBooks
<1>2. Books /\ [Next]_vars => Books'
  BY NextBooks
<1>3. Books => InBalance
  BY DEF Books
<1> QED
  BY <1>1, <1>2, <1>3, PTL DEF Spec
=============================================================================
