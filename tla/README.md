# KrwnOS — verification models

TLA+ models of what KrwnOS keeps in shared rows: its money, its decisions, its
citizens, its tree of nodes and the services around them; the TLC runs that check
them on small instances, and theorems about them proved with TLAPS for every value
of their constants. Every definition was written from the source; paths below are
relative to the repository's `src/` unless they start with `prisma/` or `docs/`.
`PROJECT.json` names, for each definition, the lines it models, and for each hazard
the line where it bites and the properties that cover it.

## 1. The system

KrwnOS is a Next.js server over PostgreSQL (Prisma), with an optional Redis and a
BullMQ worker. A *State* is a tree of nodes (the Vertical), memberships of users in
nodes, wallets, settings (the Constitution) and modules. All durable state is rows;
several server processes and workers act on it at once, and an operation is mostly
"find the row, check it, await, update by id". That gap is where the hard behaviour
is, together with the clients that merge what they load with what they are told.

| Component | State it keeps | Operations | What makes it correct | Module |
|---|---|---|---|---|
| Ledger (`modules/wallet/repo.ts`, `service.ts`) | balances, `Transaction` rows | transfer, mint, executeTransfer | no overdraft; balances = journal; money conserved; all or nothing; true answers | `Ledger` |
| Period ticks (payroll, role tax, subscriptions) | charge rows unique per period | one tick per job | at most one charge per period; row iff movement; every item accounted for | `PeriodTicks` |
| Governance (`modules/governance`) | proposals, votes, fines, rules | create, vote, close, execute, veto, cancel, cron tick | totals = votes; nothing without a mandate; fines once; overdue proposals close | `Governance` |
| Invitations, registration, role market, emigration | invitations, memberships, primary balances | issue, accept with fee, revoke, reap, register, purchase, emigrate | the use limit; no overdraft | `Citizens` |
| Citizens administration, auto-promotion | memberships, bans, tokens | kick, ban, unban, admit, move, merge; promotion job | a ban holds; a merged account leaves nothing; the eligible are promoted | `Citizens` |
| On-chain treasuries and watcher | cached balance, pending rows | prepare, confirm; the daemon's tick | rows complete on finality only; the cache follows; final rows settle | `OnChain` |
| Vertical editor, permissions engine | `VerticalNode.parentId` | POST, PATCH, DELETE, PUT; check, resolveAll, scopes | a forest; inheritance = the transitive closure | `Vertical` |
| Chat, directives, event bus | messages, acknowledgements, streams, the client's list | post, acknowledge, deliver, load | shown once; shown to readers; who owes an acknowledgement | `Chat` |
| Exchange Engine | pairs, cross-state journal, balances | pairs, crossStateTransfer | burn = mint; bounded overdraft; a blockade blocks | `Exchange` |
| Currency Factory, wallet directory | `StateAsset`, `Wallet` rows | create, update, retire, set primary, ensure default; ensure wallets | one primary; one wallet per holder | `CurrencyFactory` |
| Backups | manifests, object store | create, daily job with retention, CLI | the newest backups exist, and restore unless torn or cyclic | `Backup` |
| E-mail digest | one row per citizen and period | the job's loop | one mail a period; a row means a mail | `Digest` |
| Setup, CLI tokens | State and token rows | setupState, authenticate, rotate | one State, one live token per chain | `Setup` |
| Telegram linking | link and credential rows | ask for a link, the webhook | one account per link | `TelegramLink` |
| State configuration | the `StateSettings` row | update, the page's form, the tour | a decision is not undone unasked | `Settings` |
| Activity feed | log rows, the page's list | record, page, stream, reap | complete for, and limited to, the scope the code gives a viewer | `Feed` |
| Registry, jobs, push, auth, presence, theme, tunnels and vault, rate limits, UI, CLI, SDK | various | I/O and rendering | — | section 7 |

Interactions. Requests call services; services call repositories, which issue SQL.
Transfers, mints, payroll, role tax, subscriptions and fines all go through
`runLedgerTransferInTx`. Governance writes settings through
`StateConfigService.update` and fines through `applyWalletFine`. The worker calls the
ticks, `tickDueProposals`, the promotion job, the reapers, the digest and the backup;
BullMQ may deliver a stalled job again beside its first execution. Services publish on
the event bus after they have committed; chat streams and the activity feed live on
these events and lose what is not delivered.

## 2. Modules

A handler that awaits between its reads and its writes has a program counter and
carries its locals; one that is one transaction is one action. History variables
remember what a property speaks of and are never read by an action. The deliberately
wrong variants that `PROJECT.json` uses as mutants stand beside the definition they
replace and are marked `Faulty variant:` or `Mutant:`; no specification uses them.

| Module | Checked in | Proofs |
|---|---|---|
| `Ledger`, with its abstract specification `AtomicLedger` | `MCLedger` | `LedgerProofs` |
| `PeriodTicks` | `MCPeriodTicks` | `PeriodTicksProofs` |
| `Governance` | `MCGovernance` | `GovernanceProofs` |
| `Citizens` | `MCCitizens` | `CitizensProofs` |
| `OnChain` | `MCOnChain` | `ExchangeProofs` |
| `Exchange`, `CurrencyFactory` | `MCServices` | `ExchangeProofs` |
| `Chat`, `Digest`, `Setup`, `TelegramLink`, `Settings` | `MCServices` | `ServicesProofs` |
| `Vertical`, `Backup`, `Feed` | `MCServices` | `TreeProofs` |

`Sums` models nothing: it holds the lemmas on induction and on sums over finite sets that
the proofs about money, votes and trees share.

**Ledger.** Each request `r` is one HTTP call with its own interactive READ COMMITTED
transaction. `bal` is the committed column, `delta[r]` what `r`'s open transaction has
written, `held` the row locks an UPDATE takes until the end of the transaction,
`posted`/`minted` the effect of the completed `Transaction` rows, `rows[r]` the
statuses of the rows the request left. `RequestTransfer` is the service (both wallets,
the pre-check on an unlocked read, the tax split); `ReadSource`, `Debit`, `Credit`,
`CreditTax`, `Commit` are the statements; `Throw` and `WriteFailedRow` the catch block.
`LoseCommitAck`, `DeadlockVictim`, `Abort` and `Crash` are the database and the process.
Amounts are integers in minor units, rounded half to even as `money.ts` does.
`AtomicLedger` is what `executeTransfer` promises: a movement happens whole, once, and
never overdraws; `IsAtomicLedger` is the refinement.

**PeriodTicks.** `job[r]` holds the locals of run `r`, `claim[r]` the charge row its
open transaction has inserted, `rows` the committed ones. Payroll inserts first and
reads the treasury inside the transaction, role tax and subscriptions decide on a
balance read outside; `Charge` debits the live balance, in one step, which is what
`Ledger` is shown to implement. A second insert of a key waits for the first
transaction (`NotInserting`) and then hits the unique index (`Duplicate`). `Crash` is a
worker that dies or an exception outside the item's `try`; the queue may hand the job
out again (`Start` from `dead`).

**Governance.** Each handler has read the proposal (`StartVote`, `StartClose`,
`Execute`, `StartVeto`, `StartCancel`) and carries its locals to the write
(`InsertVote`, `Tally`, `Close`, `ApplySetting`/`ApplyFine`, `MarkExecuted`, `Veto`,
`Cancel`). `updateProposalStatus` writes by id alone, so `SetStatus` has no guard.
`Cron` is the handler of the proposal-expirer job. `mandate` and `applied` are history:
the counts on which a proposal was declared passed, and how often its change took
effect. Rules and memberships change at any time (`EnactRules`, `ChangeMembership`).
`ApplyFine` rejects when the debtor's wallet is gone, whether or not a fine row exists, as
`wallet-fine.ts` looks for the wallet before its transaction. `Die` is a process that dies
or a database error the job swallows; `Frail` names the stages at which it may happen.

**Citizens.** `rows` are memberships with ids, because the administration and the
promotion job write by the id they read. `AcceptStart` … `AcceptClose` are the awaits of
an acceptance (token, ban, fee, use count, seat); `Register*`, `Purchase*`, `Emigrate*`
and `Merge*` read in one call and write in a transaction; `Kick`, `Ban`, `Unban`, `Admit`
and `Move` are one transaction each. An invitation without a target node opens no seat
(`AcceptNowhere`). The promotion job lists candidates (`FindCandidates`), reads wallets and
seats in two more awaits (`ReadWallets`, `ReadSeats`), `Promote` moves one of them by id,
`PromotionThrows` ends the tick. `Expire` and `ReapInvitations` are time and the reaper.
`barred`, `gone` and `admitted` are history.

**OnChain.** The chain is external: its balance moves, a hash is mined, reverted,
finalised or reorganised away, calls fail. `tick[p]` is a tick of the daemon or of a
`--once` run beside it: list, read the balance, write it, list at most `Batch` pending
rows, read each status, settle. `PrepareOnChainIntent` and `ConfirmOnChainTransfer` are
the two requests of the Web3 flow; a client may replace its hash while a tick works on
the old one. `ever[t]` remembers the hashes of a row. `Work`, bounded by `MaxWork`, is what
clients and chain have done: rows, movements, reorganisations.

**Vertical.** `parent` is the tree; `req` the PATCH and PUT requests between their reads
and writes, with the climb that looks for a cycle (`WouldCreateCycle`) and the save that
clears all parents and writes level by level. `WalkUp`, `IsAncestorOf`, `Check`,
`ResolveAll`, `ScopeNodeIds`, `MayUseTreasury`, `CanActOnVerticalNode` and `RoleSeats` are
the helpers of `vertical-tree.ts`, the permissions engine and its callers. The code climbs
with a set of seen nodes; the model climbs one level `Cardinality(Node)` times, which
visits the same nodes.

**Chat.** One post per message: `Post`, `CollectRecipients`, `InsertDirectiveAcks`,
`Publish` over Redis or `PublishFails`, `LocalDelivery` to the streams of the publishing
process and `EchoDelivery` to every process subscribed, the publisher's among them.
`shown` is `useChat`'s list, `page` an answer to a load under way. Seats move, streams
drop. Recipients sit at or above a channel's node and those obliged are picked among them at
or below it, which leaves the node itself.

**Exchange.** Pairs with `UpsertPair`, `SetPairEnabled`, `DeletePair`; a swap checks the
pair and then runs its transaction (`ReadSource`, `Debit`, `Credit`, `Commit`) under row
locks. `Abort` rolls back a deadlock's victim, a transaction at its timeout, or one whose
statement or connection fails; `Commit` may take effect and lose its answer, so that the
catch block, `WriteFailedRow`, adds a failed row beside a completed one; `SwapDies` is the
process. The source's balance is compared with the amount in `ReadSource`, in application
code, and decremented unconditionally in `Debit`.

**CurrencyFactory.** `createAsset`, `updateAsset`, `setPrimaryAsset` (the one transaction,
with the row locks that can deadlock), `retireAsset`, `ensureDefaultAsset` (find the
oldest, demote, promote it, or seed), and the two `ensure*Wallet`, which look for the
primary asset, look for a wallet and insert. An `updateMany` picks its rows from the
snapshot of its statement (`SeePrimaries`, `Clear`) and writes them once their locks are
free (`Demote`, `LockCleared`): a primary promoted in between escapes it.

**Backup.** `CollectVertical` and `CollectMemberships` are the parallel reads of
`create`; then the object, the manifest, and for the daily job the list, the deletion of
objects and of manifests. Beside it the State changes as the editor changes it: nodes come
and go, seats move, a PATCH checks in `StartMove` and writes in `FinishMove`, so two of them
may close a cycle, a PUT saves a whole tree (`SaveTree`). `Restores` is what a restore
accepts: all nodes `Placed`, parents first, and all seats at nodes of the archive.

**Digest.** A run computes its period, lists who wants mail and takes them one by one:
`Look`, `Claim` (insert on a unique key), `Send`, or `SendFails` and `Release`. The mail
server may take a mail and lose the answer.

**Setup.** `setupState` counts the States outside its transaction, then inserts user and
State under two unique keys and commits with a bootstrap token; a rotation authenticates,
finds the token, mints and revokes.

**TelegramLink.** The webhook finds the link, finds the account, inserts the credential
and consumes the link, four statements without a transaction.

**Settings.** The page's form is a copy of what it loaded, with wildcards expanded
(`AsShown`). `ReadSettings` is its GET, whose answer travels while others write, and
`ShowSettings` its `setForm`; `ChangeField` edits the form; `Submit` sends all of it, `Patch`
one field, `PatchExtras` the column `extras` whole, `CompleteTour` that column with one
mark more; `ReadRow` and `Write` are the repository's `update`, which merges the rules it
read; `ShowSaved` shows the row that a save returned, unless its answer is lost. `exposed`
remembers who held an older copy of a field when it was decided, in a form, a request or an
answer on its way.

**Feed.** `EntryOf` is the table by which events of the modules become rows with a
visibility and an audience; `ListForViewer` reads three pages' worth, filters, and
computes the cursor; `Ingest` is the stream, which a row that was not published does not
reach. `said` remembers the event behind a row, so that `Concerns` can say from the event,
not from the row's visibility, whether the code's scope for the viewer includes it. For
rows of a node that scope is the node and those below it, which its documentation states
the other way round (section 6).

**MCServices.** Ten of these modules share no row in the models, so a behaviour of
`MCServices` is a behaviour of one of them (`part`), the others stay initial, and TLC
explores the sum of the state spaces. The ten are EXTENDed, not instantiated, so that the
definitions the proofs speak of are themselves the properties of the run; the names of
their constants, variables and actions differ for that reason.

## 3. Runs

| Run | Instance | What it shows |
|---|---|---|
| `ledger_races` | 3 requests, 2 citizens, root treasury, rates 0 and 50 % | No overdraft, balances = journal, money conserved, answers true |
| `ledger_atomic` | 2 requests, 4 wallets of two currencies, amounts 2 and 3 | `AtomicLedger` is refined; every transfer ends although locks may form a cycle |
| `ticks_payroll` | 2 overlapping payroll runs, 2 citizens, one restart each, a month rollover | At most one payment per key; row iff movement; results add up |
| `ticks_subscriptions` | role tax and subscription runs, three wallets, other transfers, rescheduling | No overdraft on stale balances; every run ends |
| `ticks_incometax` | payroll with a 50 % income tax | *Violated*: payroll with an income tax pays nobody |
| `gov_fines` | 1 fine, 2 voters of weights 1 and 4, the cron job and 2 requests, one death | Totals match votes; mandate; executed means applied; a fine is taken once |
| `gov_settings` | 1 setting, auto_dao and consultation rules, one edit, one death or swallowed error up to the closing | Overdue proposals close; passed auto_dao settings are decided |
| `gov_autodao_fine` | auto_dao with a fine | *Violated*: an auto_dao fine is never decided |
| `gov_races` | 2 requests | *Violated*: the status leaves the documented branches |
| `citizens` | 2 users, 3 nodes, one single-use invitation to a node or to none, 2 requests in flight, 3 requests in all | The use limit is passed by one at most; merges leave nothing; bans hold; promotions come |
| `onchain` | daemon and `--once`, 2 hashes, balances 0, 1 and 3 with dust 1, 2 rows in batches of 1, 1 fault, 1 reorganisation, 2 events of the chain and its clients | Completed rows were final; the oldest rows settle when final; the cache converges |
| `services` | the ten parts of `MCServices`, below | One safety question or more per service |

The parts of `services`: *vertical*, 3 nodes (one not created yet), 2 overlapping
requests; *chat*, a chain of 3 nodes, 3 citizens on 2 processes, a public and a bound
channel, one message, one move of the clerk or the intern, one load of the sovereign or
the clerk per channel, one fault; *exchange*, 2 wallets of 2 States, amounts 1 and 3,
rates 1/2 and 2, 3 swaps, 2 edits, one failure; *factory*, 3 tickers over an empty and a
grown registry, 4 requests; *backup*, two daily jobs and the CLI, two changes or one
change and an outage, moves of lobby and office below each other, keeping one of two
backups; *digest*, 2 readers, 2 runs, 2 days, one failure; *setup*, 2 requests, 4 tokens;
*telegram*, 2 citizens, 2 accounts, 2 links, one death; *settings*, 2 administrators, 3
fields, 4 calls, four of the possible patches; *feed*, an empty log and logs of five rows
(equal times, a hidden stretch, alternating), two of twelve kinds of news, pages of one
row. About 780 000 distinct states together.

Bounds and why they are enough. Three transfers over three wallets contain every cycle of
row locks the ledger can form with a shared treasury, and two debits of one wallet with a
third payer; two amounts and opening balances of 2 to 4 make both "covers" and "does not
cover" happen after a concurrent debit; a rate of 50 % makes a tax of 1 or 2, half-even
rounding in both directions. Two tick runs suffice for any pairwise race on a unique key;
`Weeks = 1` crosses one month (or, with `WeeksPerMonth = 2`, one week within a month);
`Attempts = 1` restarts each run once. In governance a race needs two handlers besides the
cron job, two requests that found the same status; proposals share only the rules, which
no action of a proposal writes, so one proposal is enough for properties of each alone. In
`citizens` and the services a race is between two requests that read before either writes,
and a third request or job shows what a later one makes of it; three nodes give a place
above, at and below; three tickers a primary, a sibling and a candidate; five log rows
with pages of one an overfetch window that is full, and one that is not. In `onchain` a
batch of one with two rows makes the limit bind: a row that is final waits behind an older
one. In `backup` two moves that overlap are what it takes to close a cycle. `MaxOps`,
`MaxMoves`, `MaxLoads`, `MaxSwaps`, `MaxEdits`, `MaxChanges`, `MaxBackups`, `MaxDays`,
`MaxCalls`, `MaxTokens`, `MaxTx`, `MaxWork`, `MaxFaults`, `MaxFailures`, `MaxReorgs`,
`MaxDeaths`, `MaxDrops`, `MaxBreaks`, `MaxOutages`, `MaxEvents`, `Edits` and `Faults`
bound what the environment does. CHECK_DEADLOCK is off everywhere: a finite set of
requests, runs or proposals really ends. Symmetry of requests, runs and citizens is used
where no liveness is checked.

Several properties state a bound and not an absolute: the code checks in one call and
writes in another, so `AdmissionsBounded`, `OverdraftBounded`, `UniqueButForRaces`,
`OneLiveToken`, `OneAccountPerLink`, `CyclesNeedOverlap` and `EditsSurvive` say exactly
how far requests that overtake one another can exceed what a sequential caller gets, and
that nothing else exceeds it.

Every property of a passing run has a mutant in `PROJECT.json`: a plausible bug (a
dropped balance condition, a missing unique index, a skipped count, a status left
unread, a swapped order) under which TLC finds it violated.

## 4. Fairness

`Ledger`: weak fairness of each request's next statement, because the event loop and
PostgreSQL run what is not waiting for a lock; and of the deadlock detector. No abort,
crash or lost answer is forced. `PeriodTicks`: weak fairness of each run's next step;
restarts are not forced. `Governance`: weak fairness of an operation that has started,
and of the cron handler's `StartClose` for each proposal, since the job runs every
minute (`jobs/worker.ts`) and lists overdue proposals oldest first; requests by people
are never forced. `Citizens`: weak fairness of the steps of requests taken, of the
promotion job and of the reaper, both repeatable jobs of the worker. `OnChain`: weak
fairness of the daemon's steps and of its start, as its timer fires after each tick and
a supervisor restarts it; nothing is asked of `--once` runs, clients or the chain.
Accordingly the progress properties promise no more than these schedules give.
`FinalIsSettled` speaks of rows among the `Batch` oldest pending ones (`Overdue`): younger
rows may wait for ever. In `gov_settings` a handler may fail at any await up to the closing
and the next minute's cron repairs it; a failure after `passed` is not repaired, so
`AutoDaoDecides` excludes it (`Frail`), and section 6 says what happens then. The
other modules state safety only and assume no fairness.

## 5. What is proved

For sets of any size (voters, citizens and handlers finite where a count or a fold needs
it), any amounts and any bounds. Each proof rests on an inductive invariant that TLC was
given first; the properties alone are not inductive.

* `LedgerProofs`. A plan in flight moves money between distinct wallets (`PlanInv`), the
  uncommitted change of a row is exactly what the executed statements wrote
  (`DeltaInv`), and a changed row is locked by its writer, who could commit it without an
  overdraft (`LockInv`, strict two-phase locking). Without `LockInv` the conditional
  UPDATE alone does not exclude that another transaction commits in between. From it
  `NoOverdraft`, `DoubleEntry`, `AnswersAreTrue`, and `LedgerRefinesAtomicLedger`: a
  commit maps to `Pay`, `Mint` or `Drop`, every other step to a drop or a stutter.
  `MoneyConserved` follows from the same invariant: the three legs of a transfer add up
  to nothing, a mint to its amount, whatever the tax rounds to.
* `PeriodTicksProofs`. An open transaction past its insert holds exactly its own key, not
  committed and held by nobody else (`ClaimInv`), and each committed row has moved once
  (`MovedInv`). From it `PaidAtMostOnce`, `RowAndMovementTogether`, `TicksNeverOverdraw`.
  Each counter of a run grows with the item it stands for and a run ends at the end of its
  list only, so `EveryItemAccounted`, for lists of any length.
* `GovernanceProofs`. `HandlerInv` says what a handler carries from one step to the next
  and still is true when used: a tally was once in the columns, which only grow
  (`AtMost`); a "passed" verdict reached the published threshold; whoever applies has a
  mandate; whoever marks has applied. `Unpublished` keeps handlers away from rows that do
  not exist yet, so that publishing cannot change rules under them; `FineInv` ties the
  fine row to the effect. From it `MandateRequired`, `ExecutedWasApplied`,
  `FineTakenOnce`. `TotalsAreVotes` compares the columns with sums over the Vote rows; a
  vote enters both in one transaction, whatever votes race with it.
* `CitizensProofs`. A row keeps its user whatever is done to it by id (`Shape`), and
  nothing in flight belongs to a citizen who was barred (`NothingInFlight`): that is why a
  ban holds although no handler looks at bans again before its write. From it `BansHold`
  and `MergedAreGone`. `UsesInv` counts the requests between the look at an invitation
  and its increment, and those between the increment and the seat: the last to be
  promised a use found room. From it `UsesAreBounded`.
* `ExchangeProofs`, watcher. What a tick works through are hashes of the rows it took them
  from (`WorkInv`), and finality once seen stays true however late it is acted on
  (`SeenInv`), so a replaced hash does no harm. From it `CompletedOnFinality`.
* `ExchangeProofs`, swaps. A sealed pair is closed and no swap over it is under way
  (`SealedInv`), so `BlockadesHold`. What each open swap has burned or minted accounts for
  the difference between the balances and the journal, so `SwapsConserve`; a wallet is
  debited beyond zero only by swaps that read it before, so `OverdraftsBounded`.
* `ExchangeProofs`, currency factory. A bare count of the primaries is not inductive: a
  switch that looked before they appeared adds one more. The invariant therefore
  attributes each primary to a request of its own, and none to a request that would still
  spare it (`Spares`, `PrimariesAttributed`); a request pays when it promotes, and what it
  cleared stays locked and in place until then (`LocksHeld`). For the wallets, those a
  citizen has and the requests still opening one are together never more than the
  requests (`WalletsBounded`), because a request begins only where there is none. So
  `RacesAreCounted`, for registries that start with one primary at most.
* `ServicesProofs`, chat. Events and loaded pages on their way go to citizens who were
  entitled once (`EventInv`, `PageInv`), so `ReadersOnly`. Lists shown and pages loaded
  have no repetition and the messages posted stay finitely many (`OnceInv`), so
  `NoMessageTwice`. Whoever stays seated at the channel's node is among the recipients from
  their collection on and among those obliged from the insert on, and whoever stays seated
  elsewhere is never obliged (`ObligeInv`), so `DirectivesObligeTheNode`. That a member
  strictly below the node cannot be a recipient needs that no two nodes lie above each
  other, an assumption of `ChatConstants`.
* Digest. One run at a time holds a claim (`HeldByOne`); while it does, its row stands and
  no mail has gone out (`HeldInv`), nor where no row stands (`FreeInv`). From it
  `OneMail` and `RowsAreMails`.
* Setup. An attempt that was not overtaken still finds no State, or its token alive
  (`Timely`); two attempts past an insert hold different keys, none of them a State's
  (`KeysFree`, `Apart`). So a commit or a mint that adds a token beyond the first is paid
  for by an overtaken request, a death or a revocation to come (`CountInv`), and
  `OneTokenLives`.
* TelegramLink. A delivery at work has found its link unconsumed or was overtaken
  (`AtWork`); the accounts of a link are covered by its mark, the deliveries before their
  mark, and those that were overtaken or died (`Accounted`). So `LinksAttachOnce`.
* Settings. Every copy of a field, in the row, a form, a patch, the rules somebody read or
  an answer on its way to a page, says what was last decided, or shows it as a form does,
  unless somebody held an older copy, in flight or shown, when the decision was written
  (`Agreed`). So `DecisionsStand`. It needs that a form
  shows a value it has shown before as it is (`AsShown` is idempotent: a wildcard becomes
  the list, the list stays) and that columns, rules and marks have different names.

* `TreeProofs`, vertical editor. The proofs say that a tree leads every node to a root
  without a recursion: no nonempty set of nodes has all its parents inside it
  (`Grounded`). A tree is free of cycles exactly when it is `Grounded`, when the climbs
  of the editor say so, and when a level by level placement reaches every node
  (`CycleTests`). The invariant follows a move through its await: as long as no other move
  was written, what the climb has passed is closed upwards but for the node it stands on
  (`Climbing`), and what it leaves behind is a set that holds the new parent, not the
  moved node, and all that lies above (`Cleared`); adding such an edge keeps the tree
  `Grounded`. So `CyclesOverlap`.
* `WalksAgree` needs no such care, since the walks must end on trees with cycles as well:
  on every function from nodes to nodes or none, the walk of length `Cardinality(NodeId)`
  passes every node that lies above (`WalkMeetsReference`), because a walk that passes a
  node twice has seen all it will see. The permissions found on the way are those of the
  closure (`RightsAgree`), and the feed's scope, which skips what it has climbed already,
  loses nothing by it (`ScopeHoldsAbove`).
* Backups. An id is given once, to a row or to a run that will write one (`OwnIds`); what
  a job goes on to delete lies below the newest rows and stays there whatever is written
  or deleted beside it (`OldVictims`); the object is there before the row (`Archived`); and
  what a run read is what the State is, or the run knows better (`Pictured`). Parents and
  seats of an archive that is not torn lie inside it, and of such a tree a restore places
  every node if and only if no cycle keeps some back (`PlacedUnlessCycle`); cyclic trees are
  reachable and not excluded. So `NewestRestore`.
* Feed. Every live row that the viewer may see is shown, arriving, below the cursor, or
  lost for one of the reasons `FeedFollowsScope` names (`CoverInv`); a cursor that goes on
  has met no read of hidden rows only (`CursorInv`). That a row is due exactly when it is
  visible is a lemma on the table of events (`RowsConcern`). So `FeedKeepsScope`.

Sums and counts. The provers cannot instantiate an induction over a predicate, so `Sums`
states induction over the subsets of a finite set for a *set* of good subsets, from the
well-foundedness of strict inclusion, and derives from it what a sum over a finite set
obeys: it does not depend on the order in which the community modules' fold picks its
elements, adds up pointwise and changes with one element by that element. Counts of
requests use the facts on cardinality for one element put in or taken out; where the code
bounds nothing, that a set is finite is part of the invariant and not an assumption.
In the same way `TreeProofs` proves what the recursive functions `Climb`, `Batch`,
`ClimbInto` and `Placed` compute: that a function with such equations exists, by
induction over the set of good numbers, and then what each of its values is. The steps
that need a first or lowest one take it from `LeastNumber`.

Assumptions: the named ASSUMEs of the modules (`LedgerConstants`, `TickConstants`,
`GovernanceConstants`, `CitizensAssumption`, `OnChainAssumption`), and for the
parts of `MCServices` the conditions `ChatConstants`, `ExchangeConstants`,
`FactoryAssumption`, `DigestConstants`, `TelegramConstants`, `SettingsConstants`,
`VerticalConstants`, `BackupConstants` and `FeedConstants`, which those theorems state as
hypotheses; `OneTokenLives` has none. Wallets are assumed finite for
`MoneyConserved` (`FiniteWallets`), a State having finitely many. TLC evaluates all of
them in the runs (`InputsAreLegal` in `MCServices`).

`FeedConstants` takes from the code that the log begins with finitely many rows of
distinct ids, that slots are ids of none of them, that the event of a new channel carries
no user (`modules/chat/service.ts:296`), and that the one of a merger, which only the
Sovereign sees, has no `users` beside its actor. Without the last two the table of events
and the reference would not agree, for inputs that no module emits.

Only model-checked: every liveness property (`EveryTransferEnds`, `EveryRunEnds`,
`DueProposalsClose`, `AutoDaoDecides`, `EligibleArePromoted`, `CacheConverges`,
`FinalIsSettled`), as TLAPS has no rules for fairness here. Every invariant and safety
action property of the passing runs has a theorem; the violations of section 6 are
counterexamples and have none.

## 6. Disagreements found

With a run of their own:

* `ticks_incometax` — payroll's income tax goes to the payer's own wallet; the repository
  rejects it and nobody is paid.
* `gov_autodao_fine` — the automatic executor is no `User`, so a fine decided under
  `auto_dao` fails on a foreign key and stays `passed`.
* `gov_races` — stale status writes leave the lifecycle of `docs/WHITEPAPER.md`, section 8.

Met while modelling, each a behaviour of a model or read beside it:

* Ledger: a lost answer to COMMIT leaves a failed row beside the completed movement
  (`repo.ts:568`; `repo.ts:12` calls it rolled back). A tax that rounds up to the whole
  amount is not withheld.
* Ticks: a payroll retried after the month's end leaves whom it missed unpaid; a
  subscription rescheduled from monthly to weekly is charged under both keys.
* Governance: a vote found open may land after the closing; two closings may each apply a
  setting; a death between `passed` and the execution strands an auto_dao proposal, which
  `gov_settings` shows when `Frail` holds every stage; a fine already taken can end as
  rejected when the wallet disappears before a second execution; node weights edited while
  a proposal is open change its verdict (`service.ts:846`, against
  `docs/WHITEPAPER.md:522`).
* Citizens: a merge overwrites the target's balance with a stale sum, and deletes
  duplicate votes without adjusting totals; a failed fee burns the use; an invitation
  revoked during an acceptance ends as consumed; two emigrations at once forfeit twice;
  promotions are judged on a balance read before. The comment on `canBanOrMerge` says
  only the owner passes in practice, but holders of `*` or the key do.
* Watcher: an older read may overwrite a newer balance until the next tick; a revert is
  accepted before finality though completion is not; hashes that are never mined starve
  younger rows once they fill a batch, against `watcher.ts:18-21`; a hash can be attached
  after the settlement.
* Vertical: two overlapping PATCH moves close a cycle, which the backup then cannot
  restore although nothing changed while it was made (`backup-prisma.ts:185-189`); PATCH
  may move the lobby though PUT refuses; a node created between PUT's validation and its
  writes becomes a root; saving the page undoes moves made meanwhile.
* Permissions: a permission held in any seat opens a treasury that the citizen reaches
  through another seat, since `wallet/service.ts` asks for the two separately.
* Chat: a directive obliges the members of the channel's own node only, though
  `service.ts:429` speaks of the node and its descendants and
  `prisma/schema.prisma:723-726` of every subordinate: descendants are no recipients, and
  members between the author and the node are recipients but not obliged
  (`OnlyTheNodeIsObliged` states what is so). A message of a public channel is pushed to
  the sovereign only; an answer to a load replaces what arrived meanwhile; an event for a
  channel never opened keeps its history from loading; a repeated event resets a shown
  acknowledgement; a failed publish skips the local listeners; a message and its
  acknowledgement rows are not one transaction. `event-bus.ts:115` counts on Redis not
  delivering to the publisher's connection, but the process has a second one that
  subscribes, and hears its own events.
* Exchange: two swaps may take a wallet below zero, against the comment at
  `exchange-prisma.ts:188`; a lost answer to COMMIT leaves a failed row beside the completed
  swap (`exchange-prisma.ts:294-296`).
* Factory: two promotions leave two primaries, against `repo.ts:744`; a primary switched
  while two requests open a wallet leaves a citizen with two; retiring races the switch.
* Backup: reads are not one snapshot; a restore makes all memberships active and refills
  invitations; two archives of one millisecond share a name.
* Digest: one failing mailbox aborts everyone after it until the next run.
* Setup and tokens: two setups at once create two States (`setup-state.ts:4` says exactly
  once); overlapping rotations leave two live tokens; one that expires between
  authentication and rotation is replaced by one that never does.
* Telegram: two updates with one link attach two accounts; a revoked credential could not
  be linked again, as the unique key ignores revocation.
* Settings: two updates lose one of two governance rules; the page writes back a decision
  of the Parliament taken since it was loaded; any save turns the wildcard `*` of
  `allowedConfigKeys` into a list; the mark of a finished tour can be lost.
* Feed: `activity-feed.ts:21` and `:268-269` say a row of a node is seen by members of it
  or of its ancestors; the code shows it to members at or below it. Paging ends at a
  window of which nothing is visible, and skips rows of equal time; the first page's
  answer replaces what the stream brought. Under Redis every process records an event
  again, which the model, with its in-memory bus, does not show. `StateCreated` is never
  emitted, and `MembershipGranted` by the administration only.

Hazards listed in `PROJECT.json` without a property are two of the above: the two charge
keys and the stranded auto_dao proposal. The models have the behaviours; no document
promises that they cannot happen.

## 7. Not modelled, and why

Components: the *module registry* (filled once at start-up, by one caller); the *job
queue* itself (a library: redelivery and overlap appear as the repeated and concurrent
runs of the models); *push and Telegram delivery*, *authentication and sessions* (I/O and
cryptography around one row each: the models start from an authenticated citizen);
*presence and the realtime gateway* (counters that expire, best effort by design);
*theme*, *tunnels and the secret vault* (formatting, external processes, encryption);
*rate limiting* (one atomic counter per window); *user interface, CLI and SDK* (pages,
translations and HTTP clients of the services above, two thirds of the repository's
lines, without shared state). What the models map is therefore a minority of the lines,
mostly the services under `core/`, `modules/`, `server/` and `jobs/`; pages, catalogues
of texts, thin routes, validation and formatting make up the rest.

Left out of the modelled components: authorisation of the spender, the view-only
treasury rule and on-chain events (Ledger); the subscription's hierarchy check and the
loop over States (PeriodTicks); the `by_balance` strategy, fractional node weights
(integers here), text and payload validation, decreed fines (Governance);
`updateMembershipTitle`, the votes and secondary wallets a merge moves, and the creation
of accounts with their first token (Citizens); titles, sibling order and permission lists
of a PATCH (Vertical); creating and archiving channels, subscribing (Chat); what a caller
may swap (Exchange); names, icons and amounts of rates (CurrencyFactory); tables other
than nodes and memberships, the writes of a restore (Backup); what a mail says (Digest);
seeding and the interactive runner, scopes and expiry of tokens (Setup); the login by
Telegram and the bot's answers (TelegramLink); ranges of fields and the creation of the
row (Settings); category filters, the audit view and texts (Feed).

What would come next: a pair of `Feed`s over the Redis bus of `Chat`, since the second
recording is a composition of the two; the restore of a backup as writes into a running
State; and `by_balance` voting over the balances of `Ledger`.
