------------------------------ MODULE PettyCash ------------------------------
(***************************************************************************)
(* Petty cashes and the costs paid from them: PettyCashService,            *)
(* PettyCostService.                                                       *)
(*                                                                         *)
(* A handler reads, decides, and then writes what it decided, one awaited  *)
(* update of one document after the other; none of them is in the          *)
(* transaction of its request.  The start of a handler is its first read,  *)
(* the agenda its writes to come.  Amounts are whole numbers, of any sign, *)
(* and added exactly: fractions and their rounding are left out.           *)
(***************************************************************************)
EXTENDS Integers, Sequences, FiniteSets, SequencesExt

CONSTANTS
    Cash,         \* petty cashes there may ever be
    Cost,         \* costs there may ever be
    Thread,       \* requests in flight
    Amounts,      \* amounts petty cashes are filled to, of either sign
    Prices,       \* what a cost comes to, with tax, of either sign
    MaxRequests,  \* bound on requests
    MaxFaults     \* bound on refused database calls

ASSUME PettyCashAssumption ==
    /\ IsFiniteSet(Cash) /\ IsFiniteSet(Cost)
    /\ Amounts \subseteq Int /\ Prices \subseteq Int
    /\ MaxRequests \in Nat /\ MaxFaults \in Nat

VARIABLES
    cash, cost,
    agenda,     \* the writes a request has still to do
    orderly,    \* history: one request at a time so far, and none failed
    waived,     \* history: what updates to 0 took off the amount of each cash
    minus,      \* history: cashes filled, or charged, with less than nothing
    requests, faults

history == <<orderly, waived, minus>>
vars    == <<cash, cost, agenda, history, requests, faults>>

Share == [cash : Cash, amount : Int]

CashDoc == [status : {"none", "active", "inactive", "deleted"},
            amount : Int, remain : Int]

\* budget: whether the cost names a category budget; price: of an official cost.
CostDoc == [status : {"none", "unpaid", "pending", "paid", "deleted"},
            official : BOOLEAN, budget : BOOLEAN, price : Int,
            pettyCashInfo : Seq(Share)]

Step ==
    [op : {"createCost"}, new : CostDoc]
    \cup [op : {"setRemain"}, cash : Cash, remain : Int]
    \cup [op : {"refund"}, cash : Cash, amount : Int]
    \cup [op : {"setAmount"}, cash : Cash, amount : Int, remain : Int]
    \cup [op : {"clearAmount"}, cash : Cash]
    \cup [op : {"setCash"}, cash : Cash, status : {"inactive", "deleted"}]
    \cup [op : {"setCosts"}, costs : SUBSET Cost,
          status : {"unpaid", "pending", "paid", "deleted"}]
    \cup [op : {"setBudget"}, costs : SUBSET Cost]

TypeOK ==
    /\ cash \in [Cash -> CashDoc]
    /\ cost \in [Cost -> CostDoc]
    /\ agenda \in [Thread -> Seq(Step)]
    /\ orderly \in BOOLEAN
    /\ waived \in [Cash -> Int]
    /\ minus \subseteq Cash
    /\ requests \in 0..MaxRequests
    /\ faults \in 0..MaxFaults

NoCash == [status |-> "none", amount |-> 0, remain |-> 0]
NoCost == [status |-> "none", official |-> FALSE, budget |-> FALSE,
           price |-> 0, pettyCashInfo |-> <<>>]

\* Mutant of Filled: the remainder is left to the first cost to set.
FilledUnset(a) == [status |-> "active", amount |-> a]

Filled(a) == [status |-> "active", amount |-> a, remain |-> a]

\* Some petty cashes may have been handed out.
Init ==
    /\ cash \in [Cash -> {NoCash} \cup {Filled(a) : a \in Amounts}]
    /\ cost = [k \in Cost |-> NoCost]
    /\ agenda = [t \in Thread |-> <<>>]
    /\ orderly = TRUE
    /\ waived = [c \in Cash |-> 0]
    /\ minus = {c \in Cash : cash[c].amount < 0}
    /\ requests = 0
    /\ faults = 0

Exists(doc) == doc.status \notin {"none", "deleted"}
Quiet       == \A t \in Thread : agenda[t] = <<>>

\* A request starts: it has read the documents and will do these steps.
Request(t, steps) ==
    /\ agenda[t] = <<>>
    /\ requests < MaxRequests
    /\ requests' = requests + 1
    /\ agenda' = [agenda EXCEPT ![t] = steps]
    /\ orderly' = (orderly /\ Quiet)
    /\ UNCHANGED <<cash, cost, waived, minus, faults>>

-----------------------------------------------------------------------------
(* Which cashes pay.                                                       *)

\* Mutant of Covers: the tax in the price, an eleventh, is left out.
CoversNet(have, price) == have >= (price * 10) \div 11

Covers(have, price) == have >= price

\* Mutant of LastShare: the last cash gives all it has.
LastShareAll(found, n, cum, price) == cash[found[n]].remain

\* What the last of the n cashes gives; cum[j] is what the first j have.
LastShare(found, n, cum, price) == price - cum[n - 1]

\* What the first k of the cashes found have left, for every k.
Left(found) ==
    LET cum[k \in 0..Len(found)] ==
          IF k = 0 THEN 0 ELSE cum[k - 1] + cash[found[k]].remain IN
    cum

\* The shares of the cashes found, in this order: the first that has enough
\* pays alone, or else they are emptied in turn until the price is reached.
\* No shares when they do not have it.
Allocation(found, price) ==
    LET cum      == Left(found)
        alone    == {k \in DOMAIN found : Covers(cash[found[k]].remain, price)}
        together == {k \in DOMAIN found : Covers(cum[k], price)} IN
    CASE alone # {} ->
           <<[cash |-> found[Min(alone)], amount |-> price]>>
      [] alone = {} /\ together # {} ->
           LET n == Min(together) IN
           [k \in 1..n |->
              [cash   |-> found[k],
               amount |-> IF k = n THEN LastShare(found, n, cum, price)
                                   ELSE cash[found[k]].remain]]
      [] OTHER -> <<>>

\* createPettyCost: an official cost, from the active cashes of the user, or
\* those of them that were named, in whatever order the query returns them.
\* The cost comes first, then the remainders, reckoned from those read.
CreatePettyCost(t) ==
    \E S \in SUBSET {c \in Cash : cash[c].status = "active"} :
    \E found \in SetToSeqs(S), price \in Prices :
        LET info  == Allocation(found, price)
            write == [k \in DOMAIN info |->
                        [op     |-> "setRemain",
                         cash   |-> info[k].cash,
                         remain |-> cash[info[k].cash].remain - info[k].amount]]
        IN
        /\ info # <<>>
        /\ Request(t,
             <<[op |-> "createCost",
                new |-> [status |-> "unpaid", official |-> TRUE, budget |-> TRUE,
                         price |-> price, pettyCashInfo |-> info]]>> \o write)

\* An unofficial cost; its price, which concerns no cash, is left out.
CreateUnofficialCost(t) ==
    \E budget \in BOOLEAN :
        Request(t, <<[op |-> "createCost",
                      new |-> [status |-> "unpaid", official |-> FALSE,
                               budget |-> budget, price |-> 0,
                               pettyCashInfo |-> <<>>]]>>)

-----------------------------------------------------------------------------
(* The other requests.                                                     *)

\* Mutant of Refunds: the last cash is forgotten.
RefundsButLast(k) ==
    [j \in 1..Len(cost[k].pettyCashInfo) - 1 |->
       [op     |-> "refund",
        cash   |-> cost[k].pettyCashInfo[j].cash,
        amount |-> cost[k].pettyCashInfo[j].amount]]

\* Mutant of Refunds: the cashes are charged once more.
RefundsCharged(k) ==
    [j \in DOMAIN cost[k].pettyCashInfo |->
       [op     |-> "refund",
        cash   |-> cost[k].pettyCashInfo[j].cash,
        amount |-> -cost[k].pettyCashInfo[j].amount]]

Refunds(k) ==
    [j \in DOMAIN cost[k].pettyCashInfo |->
       [op     |-> "refund",
        cash   |-> cost[k].pettyCashInfo[j].cash,
        amount |-> cost[k].pettyCashInfo[j].amount]]

\* The cost is deleted first, then its cashes get back their shares.
DeletePettyCost(t) ==
    \E k \in Cost :
        /\ cost[k].status = "unpaid"
        /\ Request(t, <<[op |-> "setCosts", costs |-> {k}, status |-> "deleted"]>>
                      \o Refunds(k))

\* Mutant of MayBePaid: the budget is not looked at.
MayBePaidUnchecked(k) == TRUE

MayBePaid(k) == cost[k].official \/ cost[k].budget

UpdateCostsStatus(t) ==
    \E K \in SUBSET {k \in Cost : Exists(cost[k])},
       status \in {"unpaid", "pending", "paid"} :
        /\ K # {}
        /\ status = "paid" => \A k \in K : MayBePaid(k)
        /\ Request(t, <<[op |-> "setCosts", costs |-> K, status |-> status]>>)

\* updateUnofficialPettyCost that leaves the cost with a category and a date.
UpdateUnofficialPettyCost(t) ==
    \E k \in Cost :
        /\ Exists(cost[k]) /\ ~cost[k].official
        /\ Request(t, <<[op |-> "setBudget", costs |-> {k}]>>)

\* updateSpentDate, with the budget of the first cost that has a category.
UpdateSpentDate(t) ==
    \E K \in SUBSET {k \in Cost : Exists(cost[k])} :
        /\ K # {}
        /\ Request(t, <<[op |-> "setBudget", costs |-> K]>>)

DeleteUnofficialCost(t) ==
    \E K \in SUBSET {k \in Cost : Exists(cost[k])} :
        /\ K # {}
        /\ \A k \in K : ~cost[k].official /\ cost[k].status # "paid"
        /\ Request(t, <<[op |-> "setCosts", costs |-> K, status |-> "deleted"]>>)

\* createPettyCash is one write.
CreatePettyCash(t) ==
    \E c \in Cash, a \in Amounts :
        /\ cash[c].status = "none"
        /\ agenda[t] = <<>>
        /\ requests < MaxRequests
        /\ requests' = requests + 1
        /\ orderly' = (orderly /\ Quiet)
        /\ cash' = [cash EXCEPT ![c] = Filled(a)]
        /\ minus' = IF a < 0 THEN minus \cup {c} ELSE minus
        /\ UNCHANGED <<cost, agenda, waived, faults>>

\* Mutant of Raised: what was spent is forgotten.
RaisedAnew(c, a) == a

\* What cash c has left once its amount is raised to a.
Raised(c, a) == cash[c].remain + (a - cash[c].amount)

\* updatePettyCash with an amount, which may only grow; but 0 passes for no
\* amount at both tests, and is written without a remainder.
UpdatePettyCash(t) ==
    \E c \in Cash, a \in Amounts :
        /\ Exists(cash[c])
        /\ \/ /\ a # 0
              /\ cash[c].amount < a
              /\ Request(t,
                   <<[op     |-> "setAmount", cash |-> c, amount |-> a,
                      remain |-> Raised(c, a)]>>)
           \/ /\ a = 0
              /\ Request(t, <<[op |-> "clearAmount", cash |-> c]>>)

DeActivePettyCash(t) ==
    \E c \in Cash :
        /\ Exists(cash[c])
        /\ Request(t, <<[op |-> "setCash", cash |-> c, status |-> "inactive"]>>)

Uses(k, c) == \E s \in Range(cost[k].pettyCashInfo) : s.cash = c

DeletePettyCash(t) ==
    \E c \in Cash :
        /\ Exists(cash[c])
        /\ \A k \in Cost : Exists(cost[k]) => ~Uses(k, c)
        /\ Request(t, <<[op |-> "setCash", cash |-> c, status |-> "deleted"]>>)

-----------------------------------------------------------------------------
(* Writes.                                                                 *)

Turn(t, op) == agenda[t] # <<>> /\ Head(agenda[t]).op = op
Then(t, new) == agenda' = [agenda EXCEPT ![t] = new \o Tail(@)]

Payers(info) == {s.cash : s \in Range(info)}

CreateCost(t) ==
    /\ Turn(t, "createCost")
    /\ \E k \in Cost :
         /\ cost[k].status = "none"
         /\ cost' = [cost EXCEPT ![k] = Head(agenda[t]).new]
    /\ minus' = IF Head(agenda[t]).new.price < 0
                THEN minus \cup Payers(Head(agenda[t]).new.pettyCashInfo)
                ELSE minus
    /\ Then(t, <<>>)
    /\ UNCHANGED <<cash, orderly, waived, requests, faults>>

\* An update of a document that is gone changes nothing.
WriteCash(t, c, new) ==
    /\ cash' = IF Exists(cash[c]) THEN [cash EXCEPT ![c] = new] ELSE cash
    /\ Then(t, <<>>)
    /\ UNCHANGED <<cost, orderly, minus, requests, faults>>

SetRemain(t) ==
    /\ Turn(t, "setRemain")
    /\ LET s == Head(agenda[t]) IN
       WriteCash(t, s.cash, [cash[s.cash] EXCEPT !.remain = s.remain])
    /\ UNCHANGED waived

SetAmount(t) ==
    /\ Turn(t, "setAmount")
    /\ LET s == Head(agenda[t]) IN
       WriteCash(t, s.cash, [cash[s.cash] EXCEPT !.amount = s.amount,
                                                 !.remain = s.remain])
    /\ UNCHANGED waived

ClearAmount(t) ==
    /\ Turn(t, "clearAmount")
    /\ LET c == Head(agenda[t]).cash IN
         /\ WriteCash(t, c, [cash[c] EXCEPT !.amount = 0])
         /\ waived' = IF Exists(cash[c])
                      THEN [waived EXCEPT ![c] = @ + cash[c].amount] ELSE waived

SetCash(t) ==
    /\ Turn(t, "setCash")
    /\ LET s == Head(agenda[t]) IN
       WriteCash(t, s.cash, [cash[s.cash] EXCEPT !.status = s.status])
    /\ UNCHANGED waived

\* The cash is read when its turn comes, and written in a step of its own.
Refund(t) ==
    /\ Turn(t, "refund")
    /\ LET s == Head(agenda[t]) IN
       Then(t, IF Exists(cash[s.cash])
               THEN <<[op |-> "setRemain", cash |-> s.cash,
                       remain |-> cash[s.cash].remain + s.amount]>>
               ELSE <<>>)
    /\ UNCHANGED <<cash, cost, history, requests, faults>>

WriteCosts(t, K, Change(_)) ==
    /\ cost' = [k \in Cost |-> IF k \in K /\ Exists(cost[k])
                               THEN Change(cost[k]) ELSE cost[k]]
    /\ Then(t, <<>>)
    /\ UNCHANGED <<cash, history, requests, faults>>

SetCosts(t) ==
    /\ Turn(t, "setCosts")
    /\ LET s == Head(agenda[t])
           Change(d) == [d EXCEPT !.status = s.status] IN
       WriteCosts(t, s.costs, Change)

SetBudget(t) ==
    /\ Turn(t, "setBudget")
    /\ LET Change(d) == [d EXCEPT !.budget = TRUE] IN
       WriteCosts(t, Head(agenda[t]).costs, Change)

\* The database refuses a call, or the server stops: what the request had
\* still to do is not done.
Fail(t) ==
    /\ agenda[t] # <<>>
    /\ faults < MaxFaults
    /\ faults' = faults + 1
    /\ agenda' = [agenda EXCEPT ![t] = <<>>]
    /\ orderly' = FALSE
    /\ UNCHANGED <<cash, cost, waived, minus, requests>>

Next ==
    \E t \in Thread :
        \/ CreatePettyCost(t) \/ CreateUnofficialCost(t) \/ DeletePettyCost(t)
        \/ UpdateCostsStatus(t) \/ UpdateUnofficialPettyCost(t)
        \/ UpdateSpentDate(t) \/ DeleteUnofficialCost(t)
        \/ CreatePettyCash(t) \/ UpdatePettyCash(t) \/ DeActivePettyCash(t)
        \/ DeletePettyCash(t)
        \/ CreateCost(t) \/ SetRemain(t) \/ SetAmount(t) \/ ClearAmount(t)
        \/ SetCash(t) \/ Refund(t) \/ SetCosts(t) \/ SetBudget(t) \/ Fail(t)

Spec == Init /\ [][Next]_vars

-----------------------------------------------------------------------------
(* Properties.                                                             *)

\* What the shares of a cost take from cash c.
Taken(info, c) ==
    SumFunction([j \in {x \in DOMAIN info : info[x].cash = c} |-> info[j].amount])

\* What the costs that exist, without those in K, take from cash c.
SpentBut(K, c) ==
    SumFunction([k \in Cost |-> IF Exists(cost[k]) /\ k \notin K
                                THEN Taken(cost[k].pettyCashInfo, c) ELSE 0])

Spent(c) == SpentBut({}, c)

(***************************************************************************)
(* Requests one at a time, none of them failing.  However cashes are       *)
(* filled, raised and taken out of use and costs allocated, deleted and    *)
(* refunded, what a cash has left and what its costs took make up what it  *)
(* was filled with: its amount, and what an update to 0 took off the amount*)
(* and left in the remainder.                                              *)
(***************************************************************************)
FilledWith(c) == cash[c].amount + waived[c]

Conserved ==
    orderly /\ Quiet => \A c \in Cash :
        Exists(cash[c]) => cash[c].remain + Spent(c) = FilledWith(c)

\* What a request is about to delete, and what the cost it is about to create
\* will take from cash c.
Deletes(steps) ==
    IF steps # <<>> /\ Head(steps).op = "setCosts" /\ Head(steps).status = "deleted"
    THEN Head(steps).costs ELSE {}
Takes(steps, c) ==
    IF steps # <<>> /\ Head(steps).op = "createCost"
    THEN Taken(Head(steps).new.pettyCashInfo, c) ELSE 0

\* What the costs will have taken from cash c when they are written.
Spends(steps, c) == SpentBut(Deletes(steps), c) + Takes(steps, c)

\* The writes of the remainder of cash c.
Mine(steps, c) ==
    {i \in DOMAIN steps : /\ steps[i].op \in {"setRemain", "refund", "setAmount"}
                          /\ steps[i].cash = c}

Settles(s, c, spent) ==
    \/ s.op = "setRemain" /\ s.remain + spent = FilledWith(c)
    \/ s.op = "refund"    /\ cash[c].remain + s.amount + spent = FilledWith(c)
    \/ s.op = "setAmount" /\ s.remain + spent = s.amount + waived[c]

\* The writes of one request, to come, bring cash c into balance.
Balances(steps, c) ==
    /\ \A i, j \in Mine(steps, c) : i = j
    /\ \A i \in Mine(steps, c) : Settles(steps[i], c, Spends(steps, c))
    /\ Mine(steps, c) = {} => cash[c].remain + Spends(steps, c) = FilledWith(c)

(***************************************************************************)
(* Requests one at a time, none of them failing, also between two writes:  *)
(* every cash is out of balance by exactly what the request under way has  *)
(* still to write.                                                         *)
(***************************************************************************)
InBalance ==
    orderly =>
        /\ \A t, u \in Thread : agenda[t] # <<>> /\ agenda[u] # <<>> => t = u
        /\ \A t \in Thread, c \in Cash :
             agenda[t] # <<>> /\ Exists(cash[c]) => Balances(agenda[t], c)

(***************************************************************************)
(* However requests interleave or fail, no cash is overdrawn: the remainder*)
(* that createPettyCost and deletePettyCost write is not negative, though  *)
(* it was reckoned from an earlier read.  Nothing keeps a user from filling*)
(* a cash with a negative amount, or from entering a cost of a negative    *)
(* price, whose deletion takes money; of such cashes nothing is said, but  *)
(* they do no harm to the others that pay with them.                       *)
(***************************************************************************)
NeverNegative == \A c \in Cash \ minus : cash[c].remain >= 0

\* Shares that make up a price, each from another cash.
InFull(info, price) ==
    /\ SumFunction([j \in DOMAIN info |-> info[j].amount]) = price
    /\ \A i, j \in DOMAIN info : info[i].cash = info[j].cash => i = j

(***************************************************************************)
(* However requests interleave or fail, an official cost is paid in full:  *)
(* the shares of its cashes, each another cash, add up to its price.       *)
(***************************************************************************)
PaidInFull ==
    \A k \in Cost : cost[k].official => InFull(cost[k].pettyCashInfo, cost[k].price)

(***************************************************************************)
(* "Please ensure that all costs have both a categoryId and a spentDate":  *)
(* a cost that was paid counts against a budget, however its category and  *)
(* date were entered.                                                      *)
(***************************************************************************)
PaidHasBudget ==
    \A k \in Cost : cost[k].status = "paid" => cost[k].budget

CostInv(d) ==
    /\ d.official => InFull(d.pettyCashInfo, d.price)
    /\ ~d.official => d.pettyCashInfo = <<>>
    /\ d.official \/ d.status = "paid" => d.budget
    /\ \A s \in Range(d.pettyCashInfo) :
         /\ cash[s.cash].status # "none"
         /\ d.price >= 0 /\ s.cash \notin minus => s.amount >= 0

StepInv(s) ==
    /\ s.op \in {"setRemain", "setAmount"} /\ s.cash \notin minus => s.remain >= 0
    /\ s.op = "refund" /\ s.cash \notin minus => s.amount >= 0
    /\ s.op = "createCost" => s.new.status = "unpaid" /\ CostInv(s.new)
    /\ s.op = "setCosts" /\ s.status = "paid" =>
         \A k \in s.costs : cost[k].status # "none" /\ cost[k].budget

(***************************************************************************)
(* The inductive invariant, however requests interleave or fail: what is   *)
(* stored, and what a request has read and decided and not yet written, is *)
(* as createPettyCost and updateCostsStatus meant it.                      *)
(***************************************************************************)
CashInv ==
    /\ TypeOK
    /\ NeverNegative
    /\ \A k \in Cost :
         /\ CostInv(cost[k])
         /\ cost[k].price < 0 => Payers(cost[k].pettyCashInfo) \subseteq minus
    /\ \A t \in Thread : \A i \in DOMAIN agenda[t] :
         /\ StepInv(agenda[t][i])
         /\ i # 1 => agenda[t][i].op \in {"setRemain", "refund"}
=============================================================================
