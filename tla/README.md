# GESTMONEY: formal models

GESTMONEY is a multi-tenant back office for networks of mobile-money agents: a
NestJS API (`src/apps/api`) over PostgreSQL (Prisma), a web client, a mobile
client and a Python scoring service. This directory holds TLA+ models of the
parts of the API where money, prepaid codes and access rights can go wrong, the
TLC configurations that check them, and proofs checked by TLAPS.

Everything below names the code relative to `src/apps/api/src/`.

## 1. The system

### How the program runs

One Node process serves HTTP requests, runs scheduled tasks (`@Cron`) and the
listeners of in-process events (`EventEmitter2`). Between two `await`s nothing
else runs; at every `await` anything may. The database is PostgreSQL at its
default isolation level (READ COMMITTED): one statement is atomic, and
`prisma.$transaction` makes its writes visible together, but a row that was read
before may have changed when it is written, unless the statement itself tests
it. No handler takes a lock. Events live in memory: a restart loses those not
yet handled.

Three consequences shape every model here:

- a handler is **read, decide, write**, as separate steps that interleave with
  those of every other handler;
- a listener starts **after the commit** of the transaction that caused it, beside later requests;
- a **restart** forgets what was in progress and keeps the tables.

### Components

| Component | State it keeps | Operations that change it | Hard behaviour | What makes it correct |
|---|---|---|---|---|
| transactions | `Transaction`, `Reversal`, `AuditLog`, customer totals | create, complete, cancel, reverse | tests a status it read earlier; events after the commit | one life per transaction, one reversal each, an audit log that tells the truth |
| float | `FloatAccount`, `FloatMovement`, `ReplenishmentRequest` | listener of COMPLETED / REVERSED, debit, credit, replenishment | read-then-decrement, order of listeners, lost events | no lost update, movements equal to completions less reversals, an alert at the threshold |
| commissions | `CommissionEarning`, commission of the transaction, plans, payments | recordCommission, recalculate, deletion by a reversal, payment of a month | find-then-insert, two statements for one fact, batch beside listener | one earning, none lost, none undeserved |
| accounting | `JournalEntry`, `FiscalYear`, accounts | entry of a completion, manual entries, closing of a year | reads a commission being written; closing beside entries | one balanced entry per completed transaction |
| agents | status of an agent | suspend, activate | between the validation of a transaction and its insertion | none on its own |
| payments: vouchers | `Voucher` | genererLot, consommer, annulerLot | one UPDATE decides; batches collide on random codes | a code serves once |
| payments: payments and webhooks | `Paiement`, `PaymentProof`, `WebhookEvent` | creation, upload, review, notification, expiry | repeated notifications, failures half-way, races between the ways of paying | a payment succeeds for a recorded reason, an event is treated once |
| licences, tenants, superadmin | `Tenant` (columns and `settings.licence`), `LicenceEvent`, cache of the guard | trial, renewal, provisional licence, suspension, revocation, grace and expiry tasks, console | the whole settings object is written back from an earlier read; a cached status | access ends when it must, paid time is kept, one trial |
| cashier | `Cashier`, `CashMovement` | open, addEcriture, close | balance = last entry read | entries chain, none lost |
| stock | `Inventory`, `StockMovement`, `ArticleStock`, `MouvementArticle` | stockIn, stockOut, entree, sortie, ajustement | absolute quantity from an earlier read | never negative, quantity = sum of movements |
| integrations | circuit breaker, in memory | call, retry | outcomes counted long after the call began | opens after N failures in a row, can always recover |
| campaigns | `CampagneEmail`, a loop in memory | planifier, envoyer, scheduled task | test and marking apart, loop lost by a restart | sent once, finished when all of it is sent |
| webhooks (outbound) | `WebhookEndpoint`, `WebhookLivraison`, loops in memory | emettre, tester, retenter, supprimer | background loop beside manual retries and a deletion | the row says what the endpoint was sent |
| mobile: offline queue | SQLite table, count of pending rows, state of the network | createTransaction, syncPending, useSync | refused bodies, lost answers, two flows on one row, cuts, stops | what was saved is put to the API |
| auth | refresh tokens, failed attempts, 2FA codes | login, refresh, logout, verify | rotation beside reuse | a token is used once |
| kyc, alertes | status rows | review, acknowledge | two writes of one request | one transition |

Interactions: `transactions` emits `transaction.completed` and
`transaction.reversed`; `float`, `commissions` and `accounting` listen and write
(`notifications` and `gateway` listen and only send).
`transactions` reads the float and the status of the agent when it validates a
creation, and deletes the earnings of what it reverses. `payments` and
`licences` do not call each other in the code: a payment that succeeds renews
nothing by itself, an administrator calls the renewal; their events only reach
`notifications`. The guard of the application asks `licences` for a cached
status at every request. The console (`superadmin`) and `tenants` write the row
that `licences` manages. `cashier`, `stock`, the replenishment requests of `float`,
the closing of `accounting`, the circuit breaker of `integrations`, `campaigns`,
`webhooks` and the queue of the telephone are registers of their own beside the
transactions: the part of each that is modelled writes no table that the modelled
part of another one writes. Outside those parts there is one such table:
`syncBalance` of `integrations` awaits the balance an operator answers and writes
it over `FloatAccount.balance` (`integrations.service.ts:284`), whatever moved the
account meanwhile and without a `FloatMovement` (see section 5). The queue of the
telephone posts to `transactions`, which refuses the bodies it sends.

`PROJECT.json` lists every component with its files, those left out included.

## 2. The modules

| Module | Models | Checked by | Proved in |
|---|---|---|---|
| `TransactionTypes` | business and stored types, conversions, effect on the float | all core runs | |
| `TransactionStore` | the tables the core shares, their initial content | all core runs | |
| `TransactionContract` | abstract life of transactions, the overwriting of a settled one included | `ecouteurs` | `TransactionsProofs` |
| `Transactions` | `transactions.service.ts`, agent suspension | all core runs, `claim_terminal` | `TransactionsProofs` |
| `FloatListener` | `float.listener.ts`, debitFloat, creditFloat | `ecouteurs`, `operations`, two claims | `OperationsProofs` |
| `CommissionListener` | `commission.listener.ts`, recordCommission, recalculate | `ecouteurs`, `operations`, one claim | `OperationsProofs` |
| `AccountingListener` | `accounting.listener.ts`, the automatic entry | `operations` | `OperationsProofs` |
| `Operations` | the composition of the four above | `operations` | `OperationsProofs` |
| `Ecouteurs` | the service with one of the first two listeners per behaviour | `ecouteurs` | |
| `VoucherContract` | abstract promise of prepaid codes | `vouchers` | `VouchersProofs` |
| `Vouchers` | `vouchers.service.ts` | `vouchers` | `VouchersProofs` |
| `Paiements` | `payments.service.ts`, `webhook.service.ts` | `paiements`, one claim | `PaiementsProofs` |
| `Licences` | `licences.service.ts`, its scheduler, the console, the guard | `licences`, `claim_revocation` | `LicencesProofs` |
| `Appels` | what the registers below share: calls in flight, restarts | `annexes` | |
| `Replenishment` | the replenishment requests of `float.service.ts` | `annexes` | `AnnexesProofs` |
| `Cashier` | `cashier.service.ts` | `annexes` | `AnnexesProofs` |
| `Stock` | the movements of `stock.service.ts` | `annexes` | `AnnexesProofs` |
| `FiscalYear` | the closing of a year in `accounting.service.ts`, beside entries | `annexes` | `AnnexesProofs` |
| `CircuitBreaker` | `circuit-breaker.util.ts`, `retry.util.ts` | `annexes` | `AnnexesProofs` |
| `Campaigns` | `campaigns.service.ts` | `annexes` | `AnnexesProofs` |
| `Livraisons` | `webhooks.service.ts` (outbound) | `annexes` | `EnvoisProofs` |
| `FileHorsLigne` | the offline queue of `apps/mobile` | `annexes` | `EnvoisProofs` |
| `Annexes` | the choice of one of these eight registers per behaviour | `annexes` | `AnnexesProofs` |
| `Sommes` | nothing of the code: facts about sums over finite sets | | itself |

`MC*` modules add only symmetry sets and the values TLC needs. Operators named
`Mut...` are faults a programmer could plausibly make; each property is shown to
notice one of them (`"mutants"` in `PROJECT.json`). Definitions keep the names
of the code (French, as in the code) and `"map"` gives the lines of each.

### How the models stand for the code

**Transactions.** A request has an operation, a target row and a program
counter: `lu` after the read and the test, `commis` after the database
transaction, `emis` after the event. `Lire` is `findOne` with the status test of
complete, cancel and reverse; `Completer`, `Annuler` and `Reverser` are the
`$transaction` blocks, which update by id **without testing again** (row, audit
record, customer totals, deletion of earnings, compensating transaction, all in
one step because the database commits them together). `LireCreation` is
`validateTransaction` (suspended agent, sufficient float), `Inserer` the
insertion. `Emettre` is the emission that follows the commit. A row is named by
the request that inserts it, so that identifiers are fresh. Requests overlap as
they like on one row, which nothing in the code prevents: `Noter` lists in `courses`
the rows a request wrote although their status was no longer the one it had read.
All eight types that `CreateTransactionDto` accepts may be submitted, `ANNULATION`
(stored as `ADJUSTMENT`) and `REVERSAL` included.

**FloatListener.** One job per event: `FloatIgnorer` (a type whose completion moves
nothing), `FloatEchouer` (no account, or not enough: caught, logged, event
spent), `FloatLire`, then `FloatDebiter` or `FloatCrediter` (balance by
decrement, movement with the balances that were read), then for debits
`FloatVerifierSeuil`, which reads the balance again. A reversal debits whatever
was not a debit (`SensReversal`), the types no completion moves included.

**CommissionListener.** The steps of recordCommission: `ComExistant` (an earning is
there), `ComSans` (the resolution finds nothing) or `ComCalculer` (it finds an
amount), `ComInserer`, `ComRefleter` (the copy on the transaction); `ComEchouer` is
the failure of any of these calls, which the listener logs and which ends a batch.
The batch puts `RecalculLister` and `RecalculPurger` before them. What a resolution
finds depends on the plan in force that day, its tiers, the volume of the agent
and what is left of a monthly cap: it is **chosen freely at every resolution**, any
amount of `Commissions` or none, so that a batch may delete an earning and find
another amount, or nothing.

**AccountingListener.** `CptExercice` (an open fiscal year or none, chosen freely:
accountants open and close years), `CptLire` / `CptEchouer` (the row is read
again and must still be COMPLETED), then `CptPasser` (an entry is there, or the
generator has no lines for such a type: adjustments and client-made reversals),
`CptInserer` (deposits alone book the commission) or `CptRefuser`.

A failure of the database is an action of its own in `CommissionListener`, where it
falls between two writes that belong together. In the two other listeners the job
writes once, and the action of their refusal (`FloatEchouer`, `CptRefuser`) stands for
the loss of the effect: `CptRefuser` may happen at any insertion; the float job fails
for its two business reasons only, and a restart (`PerdreFloat`) loses it anywhere.

**Vouchers.** `Consommer` / `Rejeter` is the one conditional UPDATE, with its
WHERE clause as `Consommable`; `Repondre` is the read that words the answer;
`InsererCodes` is one turn of the loop of `genererLot` (`createMany` with
`skipDuplicates`, any set of codes of the right size may be drawn);
`DemarrerLot` takes any name of a lot, that of an existing one included, since
`dto.lot` is not looked up; `AnnoncerLot` then counts the codes **of the lot**, as the
answer does, and `RefuserLot` is the refusal of a batch left incomplete.
`AnnulerLot` is one UPDATE. The expiry is compared with an instant taken before
the UPDATE, as in the code.

**Paiements.** `LirePaiement`, `ChercherDoublon`, `CreerPreuve`,
`MettreEnCours` are the four database calls of an upload; `LirePreuve` then
`Valider` (one transaction) or `RejeterPreuve`, `RemettreEnAttente` (two
statements) those of a review; `Inserer` / `Ignorer` the insertion of the event
under its unique key and the duplicate; `Decider`, `Marquer`, `Cloturer` its
treatment, and `Echouer` the failure of any of its database calls. The key of a
notification without identifier is the payment reference, as in the code.
Signatures are left out: only authenticated notifications are modelled.

**Licences.** Dates are instants of a clock that starts at 1; `Nul` (0) is the
absent date. `Deduire` is `deduireStatut`, `Permis` the refusals of each method,
`Lire` the read at the start of a method (the read object is kept in
`acte[d].lu`), `Invalider` the emptying of the cache inside `construireStatut`,
and one action per method its write: the columns it names, and the whole of
`meta` (`settings.licence`) **computed from the read copy**. The console writes
columns only and leaves the cache alone. `Lister`, `LireTache`,
`BasculerEnGrace`, `ExpirerFinDeGrace`, `InvaliderTache` are the scheduled
tasks. `LireGarde` and `Ranger` are a cache miss of the guard; a hit changes
nothing. Months and days are durations in clock units.

**The registers of `Annexes`.** They share no state, so a behaviour exercises
one of them, chosen at the start (`actif`), and leaves the others as they
began: their states add up instead of multiplying, and one run checks all. A
call (`Appels`) is an HTTP request, a scheduled task or a background loop, and
also names the row it inserts; each step of it is one awaited database call.

- *Replenishment*: `Demander`, or `DemanderApprouvee` for an approver; a decision
  is `LireDemande` (the row is PENDING), then `Approuver` or `RejeterDemande`,
  which write **by id alone**; an approval goes on with `LireCompte` and `Crediter`.
- *Cashier*: no column keeps the balance: `SoldeCourant` is the newest entry's
  `balanceAfter`, or the opening balance of a till without entries. `LireCaisse`,
  `LireSolde`, then `AjouterEcriture` or `FermerCaisse` and `Journaliser`;
  `OuvrirCaisse` updates the row of the user, or creates it (one per user).
- *Stock*: the inventory of a product is found or created, tested, then
  **incremented**; the quantity of an article is read, then **assigned** the value
  computed from the read, with its movement.
- *FiscalYear*: `LireExercice`, `Calculer` (trial balance and result),
  `SansReport`, `VerifierReport`, `InsererReport` or `ReportRefuse`, `Fermer`: the
  closing as the code awaits it; `Enregistrer` is an entry that had found the year
  open. The income statement keeps positive balances only (`Positif`), as the code does.
- *CircuitBreaker*: the state is tested by `Executer` and the outcome counted by
  `Reussir` or `Echouer` in the state of **that** later moment; `Reprendre` is one
  more attempt of the retry helper, which the breaker does not see.
- *Campaigns*: `LireEnvoi` then `Lancer`; `EnvoyerLot` and `TerminerEnvoi` are
  the background loop, which nothing resumes; `Choisir` is the scheduled task.
- *Livraisons*: `TrouverEndpoint`, `CreerLivraison`, then `Poster` and `Noter` up
  to three times; `Retenter` sends a row once more beside the loop; `Supprimer`
  takes the rows away. A write about a row that is gone throws: a request answers
  with the error, but nobody awaits the loop of an event, and a rejection nobody
  handles stops the Node process (`Rejeter`), which interrupts every other call.
- *FileHorsLigne*: `Saisir`, `CompterSaisie`: createTransaction up to its POST;
  `Lister`, `Suivante`, `FinirSync`: syncPending; `Reabonner`, `EcouterSansSuite`,
  `EcouterEtEnvoyer`: the effect of useSync and its listener, with the count it
  captured when it subscribed (`abonne`). `Refuser` is the answer of the API to any of
  these POSTs: their body (`type: 'DEPOSIT'`, `amount`, `phone`, `operatorId`) is none
  that `CreateTransactionDto` accepts, and `main.ts:89` forbids unknown fields.
  `markError` leaves the row to be posted again; `markSynced` is not reached, and is not
  modelled. `PosteEchoue` is a POST without answer. A stop of the application
  (`FileArret`) keeps the table and starts with a count of zero.

### Histories

Some properties need to remember what the database does not. These variables are
written by actions and never read by a guard: `courses` (the rows a request wrote
after their status had changed) in `Transactions`, `croisees` (the rows for which two
jobs both looked for an earning before either inserted) in `CommissionListener`, the
field `par` of a voucher (the generation that inserted it), `paye` (until when access was paid
for), `dernierOuvert` (last instant the row opened access), `conflits` (a
request wrote an end date, or opened a trial, computed from something that had
changed meanwhile) in `Licences`; `regles` (payments that have been REUSSI) in
`Paiements`; `audit`, which is a table, also serves as one. The registers have
`depassees`, `decales`, `ecrases`, `tardives`, `ecrasees`, `chevauchees` (a call
wrote from something that had changed since it read it), `lances`, `recus`,
`acceptees`, `enSuite`, `tentees` and `oublies` (what really happened). Each marks
precisely the overlap that a property excludes, so that the property still says
something about every other behaviour.

## 3. The runs

| Run | Instance | Shows |
|---|---|---|
| `ecouteurs` | the service with the float listener, or with the commission listener and its batch; 1 existing row and those created, 3 requests among create, complete, cancel, reverse and recalculate, overlapping freely; an agent with and one without account; a debit, a credit and a type that moves nothing; amounts 1 and 2 or none per resolution; threshold 1, 1 restart; 2.5 million states | balance = opening + movements; movements of a row = completions less reversals; an account left low by a debit has an alert; two earnings only from jobs that crossed; the amount shown was earned; a completed row has an earning once all its jobs found one; audit log, totals and reversal links up to the rows listed in `courses`; refines `TransactionContract` |
| `operations` | 1 row (a deposit or an adjustment), 2 requests, all three listeners, 1 restart, weak fairness; 388 thousand | the three books agree; the listeners act for completions only; every completion is dealt with |
| `vouchers` | 3 codes, 2 generations of 2 in 2 lots or in one, 2 users of 2 tenants, expiry, 1 restart; 5.5 million | a code serves once; « déjà utilisé » is true; a generation that answers inserted what was asked for; refines `VoucherContract` |
| `paiements` | 1 payment, 1 upload, 2 reviews, 2 deliveries among 4 notifications, 1 restart, weak fairness; 1 million | one treatment per event; success has a recorded cause; a conforming event closed without error took effect; every event is closed |
| `licences` | 3 requests (2 at once), both tasks, 1 guarded request, clock 1..3, durations, grace and cache of 1, restarts unbounded; 4.2 million | access ends in time; one trial; paid time kept; cached status recent |
| `annexes` | 3 calls, amounts 1 and 2, 1 restart; thresholds of 2, 1 retry, 2 batches, 2 attempts; 2 rows and 2 runs of syncPending on the telephone, weak fairness; 1.2 million | each register's sums and outcomes are what the calls say, up to the overlaps each property names; a row the telephone saved is put to the API in the end |
| `claim_terminal` | a complete and a cancel overlap | a cancelled row becomes COMPLETED |
| `claim_float_negative` | two withdrawals at once | negative float |
| `claim_reversal_neutral` | two withdrawals for the float of one | the one whose debit was refused is reversed, and credits the agent |
| `claim_commission_cancelled` | reversal beside the commission listener | an earning on a REVERSED row |
| `claim_proof_unique` | two uploads of one file | the file serves twice |
| `claim_revocation` | one request at a time | a revoked company opens a trial |

The six `claim_` runs are expected to fail: each checks something a comment, a
message or a test of the repository says, and the counterexample shows what the
code does instead. `"findings"` quotes the sentence and the line.

**Bounds, and why they suffice.** Every race in this code is between two actors
about one row, sometimes with a third that moves the row on. Runs have two or
three such actors and one or two rows, and every property's fault is found at
these sizes. Three requests in `ecouteurs` allow complete, reverse and one more about
the same row (a second complete, a batch, a cancellation) or about another one of the
same account (a row that is created); two in `operations`, where all three listeners
run, allow a complete beside a cancel, a reversal, a batch or a second complete. The
two types of `operations` are one that has all three effects and one that has an
earning only; `ecouteurs` has the three behaviours of the float listener. A merchant
payment, which moves nothing and is booked, is left to the proofs, which cover all eight
types; the others differ from one of these by name alone. One restart is enough for a
handler, and a second restart only meets handlers already lost. Clocks are as long
as needed to pass every threshold once: in `licences`, 1..3 passes the end of a
trial, of a subscription, of the grace period and of the cache, in any order; in
`vouchers`, one tick passes the expiry. In `annexes`, three calls are two that
overlap and one that comes before, between or after; a threshold of two failures
with three calls that each fail, retry and come back passes it, and `MaxEchecs` = 4
counts past it; two batches and two attempts make the loops loop. On the telephone
at most three flows run at once (`MaxCharge`), two of them syncPending (`MaxFlux`),
with two things going wrong (`MaxEnnuis`), losses, failures or stops: enough to lose
the connection, stop while it is down, and reach each exception of `SaisieTentee`.

The bounds are constants, each named in its module (`MaxPannes`, `MaxHeure`,
`MaxDemandes`, `MaxArrets`, `MaxEchecs`, `MaxFlux`, `MaxCharge`, `MaxEnnuis`), as are
the values that the code fixes and a run lowers (`MaxTentatives`, ten in the code,
`MaxEssais`, three, `MaxReprises`, `Seuil`, `SeuilSucces`, `Lots`). Validity in
`vouchers` is bounded in the run (`{1}`); the proofs cover unlimited validity too.
Deadlock is not checked: every instance ends when its requests are used up.

**Fairness.** `operations`, `paiements` and `annexes` state liveness. They assume weak
fairness of the steps that the event loop runs without being asked: the emission
after a commit, the next step of a listener job that has started, the next step
of the treatment of a notification. `await` of a database call resumes when the
database answers or the call fails; nothing in the code waits for anything
else. No fairness is assumed of clients, administrators, the gateway, the clock
or failures. A restart may still cut a job: the properties say "unless". On the
telephone, the flows in progress and the listener are JavaScript callbacks that
the loop of the application runs (`FluxEtape`, `EcouterEtEnvoyer`, `Reabonner`),
and a connection that was lost comes back (`Reconnecter`): without the last, which
is the reason for which an offline queue exists, nothing could be promised. No fairness
gives a POST its answer while connected: `SaisieTentee` excludes (`oublies`) the rows
for which it failed, since nothing then tries again before the next loss.

**Symmetry** is used in runs without liveness, over identifiers the code treats
alike.

## 4. What is proved

All theorems hold for every value of the constants that satisfies the named
`ASSUME`s of the modules, that is for any number of requests, rows, agents, codes,
payments, notifications, batches, durations, thresholds, telephones' entries and
restarts. TLC evaluates each of these assumptions in the runs.

`TransactionsProofs`, about requests that overlap as they like:
1. `TypeInv`: types, and what ties a request to its rows: its target exists, the
   row it will insert does not exist yet, a creation carries a PENDING row. Without
   the second part a reversal could overwrite an existing row. Gives `TypeCorrect`.
2. `AuditInv` = `TypeInv` and `AuditFidele`: a row that does not exist has no
   record, so a first record is a true one. Gives `AuditSur`.
3. `ServiceInv`: `AgregatExact` and `LienUnUn` are inductive with two more facts.
   `Memoire` is what a read still says after others wrote: the row a reversal read
   COMPLETED is not PENDING again, and one read PENDING is no compensation.
   `CompensationFaite` says that a compensation is COMPLETED, or reversed in its turn.
   Both properties speak of every row: a total is what the audit log counts, and a
   REVERSED row names a Reversal of its own; `courses` lists the rows for which
   more cannot be said. Gives `AgregatsExacts`, `ReversalUnique` and, with the refinement
   mapping, `ContratRespecte`: every step is a step of `TransactionContract` or a
   stutter, and the rows requests overwrite are those the contract lists. That they
   exist is shown by `claim_terminal`.

`VouchersProofs`: `IInv` = `TypeOK` and `Trace`. `Trace` says that a used code
names a request past its UPDATE, and that a request that was told it consumed a
code is the one the code names; `UsageUnique` alone is not inductive, since it
does not constrain codes whose user was lost by a restart. Gives `VouchersTypes`,
`ConsommationUnique`, `RefusJustifie` and `VouchersContrat`, with no hypothesis
about clients: the conditional UPDATE suffices. `LotsComplets` rests on `Comptes`: at every
step the codes a generation inserted and those it still lacks add up to what was asked,
since `genererLot` counts what it inserted and not what it drew; on `Filiation` (a code is
in the lot of its generation); and on `Annonces`, for the number that is announced: the
codes of a lot are those of the generations that named it, and no generation inserts
any more once it answered.

`LicencesProofs`:
- `AccesLimite`: access ends at most one grace period after the latest date ever
  granted. The invariant `DatesAccordees` bounds every date of the row **and of every
  copy of the row held by a request, a task or a guarded request**; without the copies
  it is not inductive, since each of them may be written back.
- `RenouvellementsCumules`: the end of the subscription is what was paid for,
  unless two extensions were computed from one end date.
- `CacheFrais`: a cached status lets in for less than its lifetime after access was
  closed (invariant `CacheRecent`, which covers the status being computed).
- `UnSeulEssai`: one trial, unless two openings overlapped. `EssaiPremier` says
  that a row whose read copy shows no trial belongs to a tenant that has had none.
- `LicencesTypes`.

`OperationsProofs`, about the service **with its three listeners**. `OpsInv` has one
part per component: `MetierInv` (a row is sound, and a request past its commit has a
completed target), `FloatInv`, `ComInv` and `CptInv` (whatever a job wrote follows an
event of the right kind). Two lemmas carry it: every step keeps the type, the amount and
the completions of the rows that exist (`Croissante`), and the method and target of a
request that committed (`Fidele`); a listener's part then survives the steps of the
others without being looked into.
- `OpsTypes`; `EffetsJustifies`: no float, earning or entry for a row that was never
  completed. The commission of an entry is 0 or one that a job resolved for the row
  (`MontantInv`, through the row, the accounting job and the journal).
- `AlertesFideles`: `AlerteSeuil` is not inductive, since it says nothing while a job
  runs; `AlerteInv` adds that an account left low by a debit always has an alert, or
  a job still to compare the balance, or one that a restart stopped there. It is the
  second read of the balance, after the debit, that makes it hold.
- `GainInv` carries the three theorems about earnings.
  `GainsConserves`: a completed row has an earning or is owed one (`Servie`): by a
  completion that has committed, or a job that is still looking for an earning, found
  no amount, failed or was stopped. A job that deletes goes back to looking, and a job
  ends well only before an earning, which is why batches may overlap, and requests too.
  `GainsUniques`: unless two jobs crossed, a row has one earning, or one job about to
  insert its only one (`UneFois`). `CommissionsGagnees`: `Gagnee`, of the rows that were
  not reversed and that no batch went over; a batch deletes before it knows
  whether it will find an amount, and leaves the old copy when it finds none.
- `SoldesConserves`: no update of a balance is lost, whatever jobs overlap. The decrement
  and the movement are one step; the sum ranges over requests, which may be
  infinitely many, so the invariant adds that those which began (`Entamees`) are finite.
- `EffetsFideles`, for all eight types: the movements of a row are those of its
  completions, one sense and one amount, and those of its reversals, the opposite sense
  (`FloatLivre`, which ties each job to the movement it leaves), so their sum is
  a difference of two cardinalities times the amount. For a row that no request overwrote,
  `Liees` gives its completing request and its reversing one, each the only one of its
  kind. Jobs that gave up or were lost have left nothing, which only lowers the counts.
- `LivresAccordes` puts the above together with `GainsConserves`, `EffetsJustifies` and
  two more invariants: `Constats` (the audit log of a row that was not overwritten shows
  no completion that the status denies) and `CptLivre` (a job that is over has found or
  booked an entry, or there is none for such a type).
- `CoeurAudite`, `CoeurExact` and `CoeurContrat`: what `TransactionsProofs` shows of the
  service alone holds with its listeners at work. `OpsNeutre`: a step of the composition
  is a step of the service or is `Neutre`, it leaves the status and the reversal of every
  row, the audit log and the reversals as they are. So each invariant survives, and
  the refinement of `TransactionContract` holds with the listeners' steps as stutters.

`PaiementsProofs`: one invariant, `PaiementsInv`, gives `PaiementsTypes`,
`EvenementsUniques`, `ReussitesJustifiees` and `ConformesActives`. Its parts say that the
event a delivery treats is the one it inserted (`Enregistrees`), that what a delivery
decided is still true when it writes (`Decidee`: the amount of a payment never changes),
and that every payment that ever succeeded has its cause in the tables (`Regles`).

`AnnexesProofs`, first one register at a time:
- `RechargesExactes`: the sum of the credits is kept step by step. For the decisions,
  `Jugee`: as long as no decision about a request was written over another (`Seules`), one
  call at most is engaged in crediting it, by the amount approved. `RechargeExacte` alone
  says nothing while that call is between its two writes.
- `CaissesExactes`: a till opens with no less than zero, and its entries chain; the
  invariant is the property with the sign of an opening.
- `StocksExacts`: `StockEtats` adds what a call knows between its read and its write: a
  removal asks for no more than was read, and an inventory that was found stays.
- `DisjoncteurJuste`, inductive as it stands with its types; `CampagneUnique`, with
  `CampLue` (a call that read the campaign found it neither started nor sent);
  `ClotureExacte`, whose invariant follows the result through the steps of every closing
  in progress, a closing entry booked by one that a restart stopped included.

Then all of them: `AnnexesInv` is the conjunction of the eight invariants. A step of the
register that is exercised keeps its own, and the others because it leaves their variables
alone and restarts the process within the common bound or not at all (`Redemarre`). Gives
`AnnexesBienTypees` and `AnnexesSures`, of the specification that the run checks.

`EnvoisProofs`, the registers that send something out:
- `LivraisonsFideles`. `LivInv` ties the count of a row to its POSTs before, between and
  after the two steps of an attempt (`Compteur`), for the rows that one call at a time
  sends (`Seule`).
- `FileInv`, the types of the queue of the telephone, for `AnnexesSures`.

`Sommes`: amounts are added by `SumFunctionOnSet` of the library, a recursive function that
takes out of the set an element chosen arbitrarily. That the choice does not matter, and
hence what a sum becomes when an element is added, removed or changed, needs
induction over finite sets. The library's induction theorems take an operator as a parameter,
which the provers cannot instantiate; `FiniInduction` obtains it for a **set** of subsets
instead of a predicate, from `WFMin` and the well-foundedness of `<` on the naturals
(`NatMin`: a set of naturals with zero and successors is `Nat`).

Every invariant of the passing runs is stated by one of these theorems. Only model-checked:
liveness (`CompletionTraitee`, `EvenementTraite`, `SaisieTentee`), which is out of the
prover's reach. The claims that fail are counterexamples, and have nothing to prove.

## 5. What is not modelled, and why

- Within modelled components: listings, statistics and exports (read only);
  wording, formatting and logging; the arithmetic of taxes; the
  signature of notifications; upload of the file itself; reminders, quotas and
  changes of plan in `licences` (`assurerQuota` counts and its caller inserts later,
  `licences.service.ts:313`; a provisional licence after an expired grace opens
  another one, line 809); the demonstration licence (seeded, never leaves its
  status) and `marquerEnAttentePaiement` (no caller). In `accounting`, the chart of
  accounts and the validation of entries; the accounting type is rebuilt from the
  stored enum, which forgets cash-in (`accounting.service.ts:1054`):
  `TypeComptable` shows it, no document says otherwise.
- `syncBalance` of `integrations` (`integrations.service.ts:264`), called by an
  administrator for one account or for all of a network: it writes the balance of the
  operator over `FloatAccount.balance`, absolutely, after an awaited call and without a
  movement. A debit or a credit committed while the operator answers is overwritten,
  and from then on the balance is no longer the sum of its movements. `SoldeConserve`
  and `AlerteSeuil` are about the accounts on which it is not called.
- The resolution of a commission is a free choice in the model: tiers, shares and the
  monthly cap are not computed. Two resolutions that overlap for one agent both read what
  is left of the cap (`commissions.service.ts:266`) and may exceed it together.
- Decimal amounts are integers: the code compares with a tolerance only in
  notifications, where one unit is modelled.
- Components whose operations are single-row writes without a protocol: users,
  roles, agencies, networks, customers, hr, versions, currencies, audit,
  public-leads, api-keys, support, alertes; and kyc, whose review writes the file
  then the customer in one request that nothing else writes.
- Sessions and two-factor login (`auth`): their properties are about security,
  which this project leaves aside.
- Input and output only: pdf, import, reporting, analytics, notifications,
  push, gateway, health, backup.
- The web client, the screens of the mobile client, the Python service.

The modelled lines are a small share of the repository because most of it is of
the last three kinds: of some 110 thousand lines, the pages, texts and translations of the
web client alone are more than half, and the rest of the API is largely controllers,
DTOs, listings and documents. A model of them would have no step for another to come
between. What remains to model is named in the plan.

Some behaviours that the models show contradict no promise of the repository, and are
therefore not findings: a payment that succeeded may leave REUSSI by a late upload; the
daily task overwrites a suspension of the console; a fiscal year that an entry joined
during its closing can only be closed if its result is then zero, since the reference
of the closing entry is taken; a row of the telephone whose POST has no answer while connected waits
for the connection to be lost and found; every row of the telephone is refused by the
API and posted again for ever, while `useSync.ts:6` promises no more than the attempt. `circuit-breaker.util.ts:6` calls HALF_OPEN
a test with a single call allowed; any number of calls pass (`Executer`), which a
comment on an enum value hardly promises.

## 6. Hazards

`"hazards"` in `PROJECT.json` lists what a test would hardly reach, each at its
line, with the properties that watch it; a note says what a property excludes or
why it is about a history rather than a row. One has none, with the reason: the
balance that `syncBalance` writes. Besides the
transactions, they are mostly of one family: a value is read, awaited over, and
written by id (replenishment, till, stock, closing, campaign, delivery). The
exceptions are a loop nobody awaits whose rejection stops the process
(`webhooks.service.ts:257`), and a queue on the telephone that posts bodies of another API.

## 7. Plan

Order: what moves money first, then what gives access, then the rest.

Done: transactions and their contract; the three listeners and their composition;
vouchers and their contract; payments and webhooks; licences; the registers
(replenishment, till, stock, closing, circuit breaker, campaigns, deliveries, offline
queue); the proofs above.

Left, in this order:

1. `AccountingListener`'s free choice of a fiscal year replaced by `FiscalYear` in
   `Operations`, and `Replenishment` over the balances of `FloatListener`.
2. Licences: reminders (one per threshold, emitted after the commit), quotas,
   change of plan; `Licences` refining an abstract contract of access.
3. `CommissionTariff`: tier resolution, shares and the monthly cap as functions, against
   a reference definition over bounded inputs, in place of the free choice; payment of a
   month.
4. `syncBalance` beside the float listener.
5. kyc review; the catalogue, purchase orders and equipment of `stock`.

Proofs left: what the items above will add. A `Licences` that refines an abstract contract
of access (item 2) would state in one formula what its five theorems say apart.

Runs stay few: components that share state share a run, and components that share none
are alternatives of one run (`Annexes`), so that their states add up.
