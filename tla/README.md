# Models of noora: workflow engine, billing, petty cash

noora is a NestJS server for an inspection company. Its core is a workflow
engine: a process definition drawn in BPMN is compiled into a document (a
*process instance*) whose stages an executor activates, completes and joins while
people complete forms and automatic tasks call services. Around it are the
company's records: incomes, invoices, bank payments, debts, petty cash,
attendance. A Next.js frontend is a client of the server's REST interface.

This directory holds TLA+ modules for the engine, for billing (incomes, invoices
and bank payments) and for petty cash, TLC runs on small instances, and proofs of
what holds for every instance. Paths below are
relative to `src/noora-flow-main/src/`.

## 1. The system's parts

| Part | State | Operations | Talks to | What is hard, and what makes it correct |
|---|---|---|---|---|
| Executor (`modules/tasks/providers/executor.ts`) | instance document: status, `_flags`, `parameters`, per stage status, `_flags`, history | `startFlow`, `goToNextStage`, `gatewayHandler`, `makeStageActive`, `onStageActive`, `makeTaskComplete`, `makeFlowEnd`, hold, cancel, resume, `saveParams` | task collection, connectors, service delegate, itself (sub-processes) | each call awaits the database between reading and writing: no stage before its predecessors, no lost join, no early end |
| Task requests (`modules/tasks/tasks.service.ts`) | user task documents: status, assignee | `completeTask` (complete, hold, cancel, resume, save), `reassignTask`, `claimTask` | executor | check, then act on what was read; worklist and instance must agree |
| Process instances (`modules/process-instances`) | instance documents | compile and create, start, `updateInstances`, `cancelInstance`, `makeInspectionCancel` | executor, billing | read, merge, write back of the parameters |
| Process definitions (`modules/process-definitions`) | versions by key | create, update, convert from BPMN | compiler | version numbers; shape of the stages |
| Invoices, incomes, payments | status, lock, totals | create, issue, pending, paid, cancel, revert; pay, verify | bank, accounting system, indicator | double billing, payment confirmed but not booked, locks set in two steps |
| Debts (`users/services/debt.service.ts`) | debt per instance, credit per user | check, add, update | instances | check and add are apart |
| Petty cash (`petty-cash`, `petty-costs`, `category-budget`) | remainder per cash | allocate a cost to one or several cashes | | remainder written from an earlier read |
| Numbering (`indicator`, `contract-number`) | counters | increment; look a buyer code up or create it | | duplicate codes |
| Attendance, products, properties, files, tickets, seeders | records | create, read, update, delete, reports | | little shared state |
| Queues, notifications, e-mail, SMS, search index | jobs, derived copies | send, index | | output only |
| Identity, frontend, deployment, schematics | | | | outside the models |

`PROJECT.json` lists every part with its status, and under `hazards` what can go
wrong in this code that a test hardly reaches, at its line.

## 2. The modules

- `FlowGraph` - a process definition: the stages, how the executor treats each
  kind (`kind`), the edges (`nextOf`, `branches`), which stages call out
  (`connector`, `service`) and what their criteria say (`showsError`,
  `stopsOnError`). Also `Justified`: when control may come to a stage, and `Run`:
  how far control runs from a stage before it has to wait for somebody.
- `FlowRules` - the abstract specification. Its state is two sets, the stages
  `reached` and the stages `done`; a stage may be reached when a predecessor lets
  control through, and finish when it was reached. A parallel gateway lets
  control through when *all* its sources are done.
- `FlowCriteria` - `validateCriteria` and its inputs as a pure function, with all
  seven criteria and missing fields.
- `WorkflowEngine` - one process instance, its task documents and the request
  handlers, one action per database step.
- `WorkflowProperties` - the properties, and the refinement
  `Rules == INSTANCE FlowRules`.
- `SerialFlow` - the inductive invariant `SerialInv` of the engine for requests one at
  a time, and the premises of its last two parts.
- `WorkflowProofs`, `ControlProofs` - the theorems for any number of handlers, those
  on `FlowCriteria` included; `SerialProofs` - those for one.
- `MCLoop`, `MCConcurrent`, `MCRace` - process definitions for TLC; `MCSerial` is
  `MCLoop` with the premises of `SerialFlow`, which TLC evaluates.
- `Settlement` - what billing promises of money: a settled invoice has a voucher,
  a payment completes only after the bank took the money and in the step that
  settles its invoice; `Sound` is what follows from these rules.
- `Billing` - incomes, invoices, payments, the requests on them and the database
  transactions they run in; the bank and the financial system as external actors.
- `BillingProperties` - the properties, the refinement `Books == INSTANCE
  Settlement`, and the inductive invariants `LedgerInv`, `LockInv` and `FollowInv`.
- `BillingProofs`, `LedgerProofs` - the theorems for requests in flight together;
  `BillingSerialProofs` - those for one at a time. `MCBilling` - instances for TLC.
- `PettyCash` - petty cashes, the costs paid from them, their properties and the
  inductive invariant `CashInv`. `PettyCashProofs` - the theorems. `MCPettyCash` -
  the instance for TLC.
- `SumProofs` - lemmas: induction on the natural numbers, and what `SumFunction`
  is over a finite set.

The engine, billing and petty cash are not composed. Billing writes the
`InvoicePaymentStatus` and fee parameters of an instance, which steer nothing in
the engine but the conditions of exclusive gateways, and these may go either way
in `WorkflowEngine`; petty cash shares no document with either.

### The engine: how state and actions correspond to the code

| Variable | Code |
|---|---|
| `flow`, `status`, `failed` | `status` of the instance, `stages[].status`, `stages[]._flags._error` |
| `params` | the stages whose form fields are in `parameters` (values are abstracted) |
| `task`, `holder` | status and assignee of the user task document of a stage; "none" when there is no document |
| `agenda` | what a request in flight has still to do |
| `reached`, `done` | history variables, read by no action: what the rules are about |
| `calls`, `faults` | counters for the bounds `MaxCalls` and `MaxFaults` |

A request is a chain of `async` calls that are awaited one by one, so a handler is
a call stack. The calls are strictly nested and none uses another's result, so the
stack is a work list: an action takes the head of `agenda[t]`, does one database
operation and puts the calls it makes in front of the rest. What a call has been
given by its caller (the instance read earlier) travels in its record: `seen` are
the parameters read, `flag` a condition decided on the earlier read, `val` a stage
status. So a handler acts on stale data exactly where the code does, and handlers
interleave wherever the code awaits.

`GoToNextStage`, `MakeStageActive`, `OnStageActive`, `CreateUserTasks`,
`MakeTaskComplete`, `UpdateUserTask`, `MakeFlowEnd`, `MakeFlowHold`,
`MakeFlowCancel`, `MakeFlowResume`, `SaveParams` are the methods of those names.
`AfterComplete` is the part of `makeTaskComplete` behind its write, which works on
the instance read again; `MarkStageCompleted` the last write of `gatewayHandler`,
which comes after everything behind the gateway has run. `CompleteTask` is the
lookup of the task document and `CheckRequest` the checks on the instance, two
reads apart as in `completeTask`; `ClaimTask`/`ClaimWrite` likewise. `Throw` is an
exception nobody catches, `Fail` a refused database call, `Restart` the end of the
process; nothing in the code takes up the work of a handler that is gone.

Points a reader of the code may stumble on:

- A parallel gateway counts as sources the stages that name it in `nextStages`;
  an exclusive gateway that reaches it through a condition is not counted.
- The conditions of an exclusive gateway depend on data, so any of its branches,
  or its `nextStages`, may be taken.
- The criteria in force are those of the stage or else those of the instance;
  `showsError` and `stopsOnError` stand for the outcome. `StageCriteria` proves
  that nothing else of the criteria counts for a stage.
- A call activity with a definition key gets no child. `createChildProcessInstance`
  hands `{version: -1}` to `findOne`, whose third argument is `populate`; the lookup
  throws and the error is logged and dropped (executor.ts:564-619). The stage stays
  active.
- Cancelling through a form replaces the parameters by the form's; cancelling an
  instance leaves them. The two updates of a cancellation are awaited together and
  are modelled in both orders.
- `changeTaskAssignee` also writes the watchers, which nothing here depends on.

### Billing: how state and actions correspond to the code

| Variable | Code |
|---|---|
| `doc` | the committed documents of incomes, invoices and payments: `status`, `items`, `lock`, whether there is an `issueNo`. The item of a payment is its `invoiceId`. `FinNo` is the indicator `officialFinNo` |
| `agenda` | the awaited calls a request has still to make |
| `wrote`, `buf`, `stale` | the MongoDB transaction of a request: the documents it has written, as it will leave them, and those others changed since it began |
| `inserted`, `vouched` | invoices and vouchers in the financial system (`FinancialService`) |
| `bank` | how far a payment is at the bank: asked for a token, page open, closed by the payer, charged, confirmed |
| `elapsed` | payments whose lock of ten minutes has run out |
| `dropped`, `entered` | history: incomes `forceUpdate` took from an invoice; incomes `createIncome` was told are paid |

Every HTTP request has a session and a transaction (`TransactionInterceptor`), but
only calls that are handed the session take part in it. This is where the
interesting behaviour comes from, so the model keeps it call by call: reads never
have the session and see what is committed (`doc`); a write with the session joins
the transaction (`WriteInTransaction`), which begins with it; a write without is
committed at once (`WriteDirect`) and waits for transactions that hold the
document, its own request's included. A transaction that writes a document changed
under it is refused (`WriteConflict`) and the request fails. The commit is not
awaited by the interceptor, so `Commit` is a step of its own behind the end of the
handler, before which other requests may read. Calls that run without the session though one is at hand:
the `issue` and `save` inside `makeInvoicePaid`, all of `makeInvoicePend`, `pay`
and `forceUpdate`, and the creation of an invoice of free (Azad) incomes.

The handlers are the actions of the same names: `CreateInvoice`,
`MakeInvoiceManually`, `Issue`, `MakeInvoicePend`, `MakeInvoiceCancel`,
`UpdateInvoice`, `RevertToPreviousState`, `ForceUpdate` of invoices, `CreateIncome`,
`UpdateIncome`, `ForceUpdateIncome`, `ChangeCaseType`, `Remove` of incomes,
`MakeInvoicePaid`, `Pay`, `Verify`. Each reads, checks and puts its writes and
calls on the agenda. `MakeInvoicePaid` reads all its invoices at once and
`SettleNext` is one round of its loop by what was read then. `Fail` is an exception
from any call, `TransactionTimeout` MongoDB's limit on the life of a transaction,
`Restart` the end of the process.

- `UpdateInvoice` without an issue number still writes the status it has read.
- `ForceUpdate` goes as far as the code does: after freeing the removed incomes it
  queries with `$id`, which MongoDB refuses, so nothing behind that is reached.
- `CreateIncome` takes an income no request uses. Incomes not yet created, and not
  on an invoice at first, are part of every initial choice. The status of the new
  income is the body's: `CreateIncomeDto` has an optional `status`
  (create-income.dto.ts:84-87), the controller passes the body on
  (income.controller.ts:45-56) and `createIncome` spreads it into the document
  (income.service.ts:101-113). So any of the `IncomeStatuses` may be given, and
  one `POST /income` stores a paid income that no invoice bills; `entered`
  remembers these. A value that is not listed is refused by the schema and changes
  nothing. The requests that change an income or an invoice have no status in
  their DTOs, and the validation pipe strips what a DTO does not name (main.ts:20).
- `ChangeCaseType` looks at the locks of the incomes only when the case becomes
  official. Its loop of updates runs in the request's transaction and is one write.
  A request for the case type the instance has already does nothing and is not made.
- The sums these requests keep in the instance are not modelled, so two of them do
  not conflict on it: the model allows more interleavings than MongoDB.
- `Remove` fails on a free income, since it looks for the income's instance.
- `Voucher` also stands for a voucher that was entered by hand and whose number the
  request gives; the code trusts that number.
- `ConfirmPayment` may be answered no when the bank is asked a second time.
- An assumption on the environment: `Verify` is the bank's callback, and the bank
  calls with 17 (cancelled) only after the payer has closed its page
  (`bank[p] = "closed"`). The handler asks the bank back only when the code is 00;
  that the page is closed behind a 17 is nothing the code makes sure of.

### Petty cash: how state and actions correspond to the code

`cash` holds `amount`, `remain` and `isActive` of the petty cashes, `cost` the
status, kind and `pettyCashInfo` of the costs, and whether a cost has a
`categoryBudgetId`. No call of these services is handed the session, so every write
is committed at once. A request is its first read (the action named after the
handler) and then its writes one by one (`CreateCost`, `SetRemain`, `Refund`, ...);
`Fail` ends it anywhere. `Allocation` is the loop over the cashes found: the first
that has enough pays alone, or else cashes are emptied in turn. The order in which
the query returns the cashes is left open. `updateSpentDate` gives all costs the
budget of the first one that has a category, as the code does. `orderly` is a
history variable: no two requests so far were in flight together and none failed.

- Amounts and prices are whole numbers of any sign: the DTOs ask for a number and no
  more (create-petty-cash.dto.ts:18-20, update-petty-cash.dto.ts:12-14,
  create-petty-cost.dto.ts:37-43). A cash filled with less than nothing is
  overdrawn at once. A cost of a negative price adds to the remainder of the one
  cash that pays it, and its deletion takes that away again, which may be more than
  is left by then (petty-cost.service.ts:301). The history variable `minus` holds
  the cashes that were so filled or charged. Numbers are added exactly: fractions,
  and how floating point rounds them, are left out. The price of an unofficial
  cost concerns no cash and is left out.
- `UpdatePettyCash` has two ways, since `updatePettyCash` tests the amount for
  truth. An amount that is not 0 has to be greater than the old one, and the
  remainder grows with it (`Raised`, then `SetAmount`). An amount of 0 counts as
  none in both tests (petty-cash.service.ts:103, 116) and is then written by line
  123, which leaves the remainder as it is (`ClearAmount`): the amount is reduced to
  0 although line 104 says "You cannot reduce the pettyCash amount", and it may be
  raised from there a second time. The history variable `waived` adds up what such
  updates took off the amount of each cash.

## 3. What the runs check

| Run | Definition and bounds | Checks | Shows |
|---|---|---|---|
| `MCConcurrent` | fork and join with branches of different length, the other stage classes behind it; 2 handlers, 3 requests, 1 fault | `TypeOK`, `ControlJustified`, `FinishedHasTask`, refinement `FollowsRules` | however handlers interleave, control flow keeps the rules |
| `MCLive` | the same, `FairSpec`, no faults | `JoinFires`, `HandlersFinish` | a join whose branches are all done is passed; every request ends |
| `MCSerial` | two user tasks between fork and join in a loop, a side branch that ends the flow; 1 handler, 8 requests | `TaskMirror`, `FieldsKept`, `EndsClean`, `JoinCurrent`, the inductive invariant `SerialInv` | what the code was written for: requests one at a time |
| `MCDoubleSubmit` | two user tasks in a row, 2 handlers of one user | `NotCompletedTwice` | violated |
| `MCDoubleClaim` | the same, unassigned tasks, 2 users | `ClaimTakesFromNobody` | violated |
| `MCCancel` | the same, 2 users | `CancelClosesTasks` | violated |
| `MCRetry` | `MCLoop`, with a task that shows its error and lets the flow pass | `EndsClean` | violated |
| `MCBilling` | 2 incomes, one of them free, one billed at first; 2 invoices, 1 payment; 2 requests in flight, 3 in all, of all sixteen kinds; 1 fault | `LedgerInv`, `TypeOK`, `PaidIncomeVouched`, refinement `FollowsBooks`, `PaidTogether` | however requests conflict, fail or are cut short, invoices, incomes, vouchers and bank payments stay together |
| `MCBillingSerial` | 2 incomes of 2 instances, 2 invoices, 2 payments; 4 requests one at a time; 1 fault | `IncomeFollowsInvoice`, `LockHolds`, `CompletesLate`, the inductive invariants `LockInv` and `FollowInv` | what the code was written for, with its failures |
| `MCDoubleBilling` | 2 requests `createInvoice`, no faults | `BilledOnce` | violated |
| `MCCancelTwice` | 3 requests one at a time: create, cancel, issue, pay; no faults | `UnpaidIsFree` | violated |
| `MCPettyCash` | 2 cashes, 2 costs, amounts -1, 0, 2 and prices -1, 1, 3; 2 requests in flight, 4 in all; 1 fault; symmetry | `TypeOK`, `Conserved`, `InBalance`, `NeverNegative`, `PaidInFull`, `PaidHasBudget`, the inductive invariant `CashInv` | shares add up, no cash is overdrawn, and one at a time no money is lost or made, with the exceptions below |

**Why the bounds are enough.** In `MCConcurrent` two handlers are what a race
needs; three requests complete both branches and let a third (hold, cancel, save,
a retry of the task in error) fall in between; the branches differ in length, so
the join is looked at too early, in time and by both. The one fault falls at every
step of every behaviour. In `MCSerial` eight requests go through the loop with both
branches, come to the join a second time, and leave one for a hold, a cancellation
or a reassignment. Histories of more handlers and requests are covered by the
proofs, which have no bounds. In `MCBilling` two requests in flight are what a
conflict needs, three let a payment be begun, verified and disturbed, or an invoice
be cancelled and its income billed anew while a third request still acts on what it
read; the proofs cover the rest. In `MCBillingSerial` four requests go
from a billed income to its payment and two payments of one invoice, or through
issue, pend, revert and cancel. In `MCPettyCash` the amounts -1, 0 and 2 and the prices
-1, 1 and 3 make every case happen: one cash alone, with and without something
left, both together, emptied to 0 or not (a cash of 2 that paid 1 has 1, which with
the 2 of the other is the 3), not enough, a cash of -1 that pays a cost of -1;
an amount that is raised from below 0 and from 0, and one that is set to 0
before and after costs were paid. Four requests create, delete and refund two costs.
A cash with less than nothing can pay a cost only together with two others, which
is left to the proof.

`CHECK_DEADLOCK` is off in every run: an instance that has ended, a user who
stops working, or an office with nothing to bill really stops.

**Fairness.** `FairSpec` is weak fairness of each handler's steps. The event loop
resumes every handler whose database call has returned, and a call that is not
refused returns. Nobody is obliged to make a request, so requests are not fair. The
liveness run has no faults, since after a restart the code resumes nothing. The
specifications of billing and petty cash state no fairness: a payer may never come
back from the bank, and a payment the bank took may never be booked.

`HandlersFinish` speaks of flows in which every cycle passes a stage that waits for
somebody (a user task, a timer, a call activity). On a cycle of automatic stages
`goToNextStage` and `makeTaskComplete` call each other for as long as no error stops
the branch; the definition is not checked for that. The flow of `MCLive` has no such
cycle, so the run says nothing about them.

**Premises of the properties.** The serial properties of the engine speak of states
between requests (`Undisturbed`). In flight, the code gives no such guarantee, as the
violation runs show. `JoinFires` speaks of joins of activities in flows that do
not stop on errors: the start stage is never marked completed and a gateway only after what is behind it has
run, so a join of those is stuck (both are in the hazard list).

`EndsClean` and `TaskMirror` need two premises about the process definition, which
`MCSerial` meets and without which the code breaks them:

- `OrderedForks`: where one branch of a fork may run to the end by itself and a later
  one activates a stage, a branch before these two waits for somebody. `parallelHandler` and
  `iterateNextStages` follow the branches one after the other (executor.ts:362, 376), and
  `makeFlowEnd` completes the flow when nothing is active at that moment (line 1563). With
  `log` first in the fork of `MCLoop`, TLC finds the flow completed, then `left` and
  `right` activated in it: no fault, no error, one request. A definition has to put a
  branch that waits first.
- `ErrorsStop`: a user task that shows its error stops its branch. Else the task may be
  completed again when the flow has ended; `MCRetry` drops the premise.

`JoinCurrent` speaks of a stage `x` that only the join `g` leads to, and to which no
branch of `g` before `x` runs back by itself (`OnlyBehind`): such a branch re-opens a
source of the join in the very call that then goes on to `x`. `FieldsKept` needs
no premise.

`IncomeFollowsInvoice` holds at any time when requests come one at a time, not
only between them: a request sets invoices and their incomes in one transaction,
and what it writes outside of it leaves such an income the status it has. It speaks
of incomes only one invoice has ever billed (see
`UnpaidIsFree` for the others), that belong to an instance and that `forceUpdate`
has not taken away. `CompletesLate` says what the code does, not what one would
wish: `pay` locks the invoice for ten minutes, `verify` does not lift the lock
before it calls `makeInvoicePaid`, and that refuses a locked invoice; so money the
bank has confirmed is booked only when the callback comes after the lock has run
out, or when the cancelled callback of a second payment has lifted it. 
`PaidIncomeVouched` says that an income is paid because `createIncome` was told so
or because an invoice that bills it has a voucher. The first part is what the code
allows, not what an accountant would: nothing keeps `createInvoice` from billing such
an income either, which makes it pending.

`Conserved` and `InBalance`
speak of petty cash requests one at a time that did not fail; in flight together the later write of `remain`
wins, and a cash may be overspent though the `remain` written is never negative.
What a cash was filled with is its amount and what updates to 0 took off it
(`FilledWith`): after an update to 0 the remainder and the costs no longer make up the
`amount` that is stored, and the next raise adds to the remainder once more.
`NeverNegative` speaks of the cashes not in `minus`, however requests interleave
or fail; that these are unharmed by the others, which may pay a cost together
with them, is part of what it says.

## 4. What the violations mean

- `NotCompletedTwice`: `completeTask` answers "Already completed" on the instance
  it read at tasks.service.ts:125; the write at executor.ts:1079 is unconditional.
  Two submissions in flight complete the task twice and run what follows twice.
- `ClaimTakesFromNobody`: the second update of `claimTask` selects by `taskId`
  alone, so of two claims in flight the later one takes the task.
- `CancelClosesTasks`: a handler in flight during the cancellation creates or
  re-opens a task afterwards; it stays open in a cancelled flow.
- `EndsClean` in `MCRetry`: a task in error does not keep the flow from ending, and
  `completeTask` accepts a retry of it afterwards, which moves the ended flow on.
- `BilledOnce`: `createInvoice` looks for other invoices of its incomes in what is
  committed and inserts its own in a transaction that conflicts with nothing (or in
  none, for free incomes). Two that are in flight together, or a second one that
  comes between the answer of the first and its commit, bill an income twice.
- `UnpaidIsFree`: `updateIncome` takes an unpaid income to be on no processing
  invoice. `makeInvoiceCancel` accepts an invoice that is already cancelled: create,
  cancel, bill again, cancel the first again, and the income is unpaid, so may be
  changed or removed, on a live invoice.

## 5. What is proved

The theorems about the engine hold for every process definition within the assumptions of
`FlowGraph` (one start stage with one next stage, which the Joi schema of
definitions demands; an end stage; next stages that exist), any number of handlers,
users, requests and faults.

- `TypeCorrect` (`WorkflowProofs`): `Spec => []TypeOK`.
- `ControlCorrect` (`ControlProofs`): `Spec => []ControlJustified`.
- `FinishedTasksListed`: `Spec => []FinishedHasTask`.
- `EngineFollowsRules`: `Spec => FollowsRules`, the refinement of `FlowRules`.
- `StagesInOrder`: `Spec => []Rules!Causal`. Everything reached has a predecessor
  that let control through.
- `StageCriteria`, `FlowNeverBlocked` (`WorkflowProofs`): for a stage only two
  of the criteria count; for a flow the criteria never block the end, since its
  error flag is never set. The engine's model leaves those checks out on the
  strength of it.

The argument: a stage's being justified is not visible in the state when control
gets there, since the handler decided it on an instance read earlier. What is
invariant is that every call *pending* on an agenda is one the rules allow
(`Allowed`): a pending `goToNextStage` is justified, a pending `afterComplete`
belongs to a finished stage, a pending completion of a user stage to one with a
task document. `Justified` only grows with `reached` and `done`
(the executor's guards are stable), so other handlers cannot invalidate a pending
call, and a stale read is harmless for control flow. `ControlJustified` is that
statement with the conjuncts it needs (`StatusJustified`, `FinishedHasTask`); it is
inductive together with `TypeOK` and is checked by TLC as an invariant of
`MCConcurrent`. The refinement follows step by step: each action maps to `Reach`,
to `Finish` or to a stutter.

The theorems of `SerialProofs` are about requests one at a time (`Thread = {t}`), with
everything else as arbitrary as above: the definition, with its forks, joins and loops,
the number of requests, and the faults.

- `SerialHolds`: `Spec => []SerialInv`, the inductive invariant.
- `SerialFieldsKept`: `Spec => []FieldsKept`. `SerialJoinCurrent`:
  `Spec => JoinCurrent`.
- `SerialEndsClean`: `Spec => []EndsClean`. `SerialTaskMirror`:
  `Spec => []TaskMirror`. These two have `OrderedForks` and `ErrorsStop` as hypotheses.

The argument is an induction over the call stack, made without recursion: the agenda
is the stack, and the invariant says of *every* call on it what it may be, not how it
came there. `PlanInv`: a request is idle, an errand (a hold, a save, a claim: a few
shapes of at most two calls), or it runs the flow, and then each call fits its
position; behind the head there are only hops to a next stage, ends and marks, and behind the
completion of a user task there is nothing. What a step of the executor does is
stated once for all its eleven actions (`Step`): the calls it makes (`Follows`),
what it writes (`Writes`, `Saves`) and what those calls have read (`Reads`). The
preservation of the parts of the invariant is proved from `Step`, and `RunSteps`
shows that each action is one.

`FieldsInv`: whoever is to write the parameters has read them as they are; since only
the head of the agenda is such a write, nothing comes between. `JoinInv`: while a stage behind
a join waits for its turn, the join is ready, and everything in front of it has come
from branches that do not run back to the join; `Run` is the closure of the
graph under calls that do not wait, defined as an intersection so that it needs no
recursion. `EndInv`: when some call may end the flow and one behind it activate a
stage, then a stage that waits is active or a call in front of the two is about to
activate one (`Held`, `Holds`), which is what `OrderedForks` gives when a fork is
opened; when `makeFlowEnd` has its turn nothing is active, and a completed flow has no call
left that could activate anything. `ErrorsStop` makes a completion after the end
impossible: what is not active is in error, and an error stops.
`MirrorInv`: the stage and its document are written in different calls. The document
lags behind for one stage at most, that of the head of the agenda (`LagInv`), and
for a hold, a resumption or a cancellation between its two writes; all other documents show
their stage. The proof uses `TypeOK` and `ControlJustified`, proved before: a
completion belongs to a user stage that has its document.

The theorems about billing hold for any sets of incomes, invoices, payments and
requests, any ownership of the incomes and any invoices that exist at first, with
the assumptions of `Billing`: the kinds of documents are disjoint.

- `BillingType` (`BillingProofs`): `Spec => []TypeOK`.
- `LedgerCorrect` (`LedgerProofs`): `Spec => []LedgerInv`.
- `PaidIncomesVouched`: `Spec => []PaidIncomeVouched`. Incomes entered as paid are
  the exception it names; that no other request adds to them is what is proved.
- `BillingFollowsBooks`: `Spec => FollowsBooks`, the refinement of `Settlement`.
- `BillingPaidTogether`: `Spec => PaidTogether`.
- `SettlementSound`: `Spec => []Books!Sound`, from the refinement and the lemma that the
  rules of `Settlement` imply it. What is settled has a voucher, and what is
  completed was confirmed by the bank.

The argument: what a commit makes true was decided many steps before, so an
invariant of the documents alone is not inductive. `LedgerInv` also says what every
request in flight has written in its transaction and has still to do.
`BooksInv` is the statement about the committed documents; `BufInv` the same of what
a transaction will leave; `AgendaInv` says which steps may share a request with a
settlement and that none of them writes a status outside the transaction that only
the transaction may set; `VoucherInv` that what a request is about to pay has
its voucher, is still owed one by a step on its agenda, or is the income the request
creates as paid; `TogetherInv` that a
request which completes a payment settles its invoice, and one that settles an
invoice pays its incomes, by what it has written or will write. The last two speak
of the *set* of steps to come, not of their order: a commit happens only when the
agenda is empty, so everything owed has been done by then. This makes the
preservation proof a matter of elements added to and removed from an agenda. A
transaction the database has given up can do neither; `Lost` says that all it would
write conflicts. The refinement and `PaidTogether` then look only at the four steps
that change `doc`: a direct write, an insertion, a new payment and a commit.

The theorems of `BillingSerialProofs` are about requests one at a time: their
hypothesis is `Thread = {t}`, and everything else is as arbitrary as above, the
number of requests and of faults included. A request is still many steps, which
may fail, conflict with the request's own direct writes, or be cut short.

- `SerialLocks`: `Spec => []LockInv`. `SerialLockHolds`: `Spec => LockHolds`.
  `SerialCompletesLate`: `Spec => []CompletesLate`.
- `SerialFollows`: `Spec => []FollowInv`. `SerialIncomesFollow`:
  `Spec => []IncomeFollowsInvoice`.

The argument for locks: what a lock means depends on the request under way, and
there are three ways one may be with locks. It leaves them alone (`Keeping`: every
step to come respects the lock of the documents it writes, and a payment it is to
complete has an unlocked invoice or one whose lock `makeInvoicePaid` is still to look
at); it pays (`Paying`: the lock is set before the payment exists); or it cancels a
payment (`Releasing`: the lock goes, whoever holds it). Between these a payment under
way has the lock of its invoice, or its time is over, or the invoice has another
payment (`LocksInv`); `CompletesLate` is what is left of that when it completes.

The argument for incomes: `Ends(t, d)` are the statuses document `d` may have when
the transaction of `t` commits, by what it has written or has still to write.
`OutcomeInv` says that what the incomes end with suits what their invoice ends with;
it says so of the documents *to be*, so the order in which a handler writes them
does not matter, and a commit, with an empty agenda, makes it true of those that
are. `DirectInv` says that a write outside the transaction keeps an open invoice open
and sets an income that one invoice alone bills only to pending, while that invoice is
open, which is what the income is already. `PlanInv` says which calls a
handler may have on the agenda together, which is what the two above need at the
handlers that read before they plan. A transaction that is lost before it wrote
anything (`Void`) commits nothing and is excepted. The proof uses `TypeOK`,
`LedgerInv` and `LockInv`, all proved before; that the value `"keep"`, which stands
for a field an update does not set, is no payment is an assumption of `Billing`.

The theorems about petty cash hold for any finite sets of cashes and costs, any
whole amounts and prices, of either sign, any number of requests, in flight together or not, and any
number of faults (`PettyCashAssumption`).

- `CashInvHolds`: `Spec => []CashInv`, the inductive invariant, and from it
  `TypeCorrect`, `RemaindersNeverNegative`, `CostsPaidInFull` and
  `PaidCostsHaveBudget`, which are about requests in any interleaving.
- `MoneyConserved`: `Spec => []Conserved`. `AlwaysInBalance`:
  `Spec => []InBalance`. These are about requests one at a time that did not fail.

The argument: a request decides on one read and writes in several steps, so what is
stored is right only if what is still to be written is. `CashInv` says both: the
costs stored, and the cost a request has on its agenda, have shares of different
cashes that add up to the price, and no remainder on an agenda is negative, but for cashes in `minus`. That is
stable although the remainder may be stale, since it was not negative when it was
reckoned and `minus` only grows. A cost of a negative price is always paid by one
cash alone, which is in `minus` from the moment the cost is stored; and when a cash
in `minus` pays with others, what each of the others gives is what it has, or
no more than that and not less than 0. `Conserved` is false between the writes of one request. `InBalance` says
by how much: for each cash a request has at most one write of the remainder to come,
and that write settles what the cash has spent when the costs still to be created
or deleted are counted in. `Books`, the two with `CashInv`, is inductive. The shares come from prefix sums over the cashes found,
which is an induction over data; `SumProofs` gets it, without the induction
theorems that take an operator, from the least element of a set of numbers: the
numbers for which a statement holds are a set, and the least one outside
would have a predecessor inside.

Only model-checked: the liveness properties `JoinFires` and `HandlersFinish`, since
liveness under fairness is outside the prover's reach. All other properties of the
passing runs are stated by theorems.

## 6. Not modelled, and why

- Flows marked `isParallel`, the deprecated if-else gateway, validation of form
  values (assumed to succeed), values of parameters, dates, history entries,
  watchers, notifications.
- Stage keys that do not resolve, and definitions without an end stage.
- Sub-processes: the planned module below.
- Of billing: amounts, taxes, recipients and the invoice number; the overdue charge; the
  sums and the payment status copied to the instances. Of
  petty cash: the category budgets themselves (a cost has one or not), titles, files.
- Cascading updates and `makeInspectionCancel`, which spans the engine and billing.
- The greater part of the repository is a web frontend, reports and records that are
  created, read, updated and deleted with no state another request depends on; it
  is a client of the modelled requests, which any client may make at any time.
- The other parts of section 1; see the notes in `PROJECT.json`.

## 7. Plan

1. (done) `FlowGraph`, `FlowRules`, `FlowCriteria`, `WorkflowEngine`, their runs,
   type correctness, the control invariant and the refinement.
2. (done) `Settlement`, `Billing`, the runs above, type correctness, the ledger
   invariant and the refinement.
3. (done) `PettyCash`, its run and its theorems.
4. `SubFlow`: a compound stage and its child instance - `createChildProcessInstance`,
   `reopenProcessInstance`, `onFlowEnd`, cascading hold, cancel and resume; with the
   lookup as it is and as it was meant. Abstract specification: a call that
   returns at most once per visit.
5. `Credit`: `canPaidThisAmount`, `addDebt`, `debtUpdated`; then buyer codes and
   versions of process definitions, which have the same shape (check, then act).
6. (done) Proofs for requests one at a time: locks and incomes of billing; worklist,
   fields, joins and end of the engine.
