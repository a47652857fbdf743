# A verification development for the voting platform

TLA+ models of the platform, TLC configurations that check them on small
instances, and proofs the TLA+ proof system checks for all instances. Every
definition is translated from the source; `PROJECT.json` maps each one to its
lines. Paths below are relative to `src/`.

## 1. The system

A university voting platform. A backend (`backend/src`, Express on Node, one
process that may be restarted or doubled during a deploy) keeps users, elections,
census and results in PostgreSQL (SQLite for development). A smart contract
(`blockchain/contracts/ElectionRegistryV2.sol`) keeps each election's terms and
its votes. The backend signs every vote as a *relayer*: a vote is known on chain
only by its *nullifier*, an HMAC of user, election and an ephemeral salt. The
pages (`frontend/src`, React) hold nothing an election depends on, but they decide
what a voter sees, when a vote is sent again and when a session is renewed.

| Component | State it keeps | Operations | Talks to | Module |
|---|---|---|---|---|
| Contract `ElectionRegistryV2` | owner, pending owner, relayers, elections, who voted, tally, log | transfer/accept ownership, set relayer, create, halt, cast | relayer, owner's cold key | `ElectionRegistryV2` |
| Vote registration, `routes/elections.ts` | the handler's place; replies | `POST /register-vote` | lock, port, record | `VoteRecording` |
| Lock and cleanup job, `db/postgres.ts` | `vote_attempts` | acquire, release, note the transaction, reconcile, expire | `findVote`, `recordConfirmedVote` | `VoteRecording` |
| Vote record, `db/voteRecord.ts` | `election_participations`, `nullifier_audit` | record a confirmed vote | handler, demonstration shortcut, job | `VoteRecording` |
| Vote port, `services/voteChain.ts` | - | cast, find, replace a stuck transaction | the node | `VoteRecording`, `Relayer` |
| Relayer queue, `services/voteChain.ts` | promise chain, cached nonce | take a nonce, repair, invalidate | the node; chain sync signs with the same key | `Relayer` |
| Chain sync, `scripts/syncElections.ts` | `chain_*` columns of `elections` | claim, send, confirm, retry, reclaim | the node, timers, the panel | `ChainSync` |
| Election administration, `routes/admin/elections.ts` | elections, candidates, census | create, edit, add candidates and voters | starts chain sync | `ChainSync`, `Census` |
| Opening and closing, `index.ts`, `services/electionSalt.ts` | `notified_*` flags, `ephemeral_salt` | notify in pages, destroy the salt | email queue, `vote_attempts` | `Closing`, `Announcements` |
| Email queue, `services/email/` | `email_log`, one-use tokens | enqueue, claim, issue a link, send, retry, give up | the mail provider, timers | `EmailQueue` |
| Accounts and sessions, `routes/auth.ts`, `utils/auth.ts` | users, refresh and one-use tokens | login, refresh, logout, change, forgotten, reset, delete | email queue | `Sessions` |
| Access requests and imports, `routes/registration.ts`, `routes/admin/` | requests, whitelist, accounts, censuses | ask, accept, import, invite | email queue | `Census` |
| SQLite adapter, `db/sqlite-adapter.ts` | one connection, a queue, a depth | run, transaction | all handlers | `SqliteTransactions` |
| SQLite file, `config/database.ts` | the file of an older release | `initialize` | at each start | `SqliteStart` |
| Migrations, `backend/migrations` | the PostgreSQL schema and rows | up, down | the code of each version | `Migrations` |
| Retention, `services/retention.ts` | terms of rows | five purges | timers | `Retention` |
| First contract, `contracts/VTB.sol` | elections, hashes of votes | create, close, reopen, vote | older elections' audits | `ElectionRegistryV1` |
| Voting booth, `pages/VotingBooth.jsx` | choice, place in the flow | load, choose, confirm, vote | eligibility, `register-vote` | `Booth` |
| Results, `routes/elections.ts`, `pages/ElectionResults.jsx` | the last answer | fetch, interval, PDF | database and node | `Results` |
| Session in the browser, `utils/apiClient.js`, `context/AuthContext.jsx` | cookies of all tabs, a client per tab | hydrate, log in, renew, repeat | `Sessions` | `Web` |
| Administration panel, `pages/AdminPanel.jsx` | a list per tab | load, operate, poll | `Census`, `ChainSync` | `Panel` |
| Recount, `blockchain/scripts/recount.ts` | windows of blocks | read the log, compare | the node | `Recount` |
| Deployment, `blockchain/scripts/deploy.ts`, `set-relayer.ts` | `deployments/<red>.json` | deploy, set relayer | the contract | `Deployment` |
| HTTP surface, other pages, seeding | nothing of an election | - | - | section 6 |

### What is hard about it

* Handlers interleave at every `await`, with each other, with the timers and, in
  a deploy, with another process. The state they read may be gone when they act.
* The chain and the database cannot commit together. Between broadcasting a
  vote and recording it the server may stop, the node may not answer, the
  transaction may be slow, replaced or revert, and the voter may retry with
  another candidate.
* Everything that went wrong is left to jobs that look later, at rows that
  others change meanwhile. `setInterval` does not wait for the pass before, so
  the passes of one timer overlap.
* Nothing that is on chain can be corrected: a duplicated election or an
  uncounted ballot stays.
* What is forgotten for privacy (the salt, the voter of a vote, an old account)
  is forgotten for ever: too early loses votes, too late or never loses the secret.
* A page is old from the moment it is shown; its answers arrive late, out of order
  or not at all, and other tabs share its cookies.

What makes each component correct is listed with its module below; the hazards,
each at its line, are in `PROJECT.json`.

## 2. Modules

### BallotBox, Registration, Outbox: the abstract specifications

`BallotBox` is what any ballot box of the platform promises: one ballot per
nullifier, never changed or removed, none after sealing. Three parts of the system
are shown to implement it: each election of the contract, each election of the first
contract, and the votes the backend counts.

`Registration` is what registering an election promises, however often it has to
try: the contract takes the election once, and the database publishes exactly what
the contract took, after it took it and for good. `ChainSync` implements it.

`Outbox` is what a queue of mail promises, whatever works it off: a message is
queued once and closed once, leaves only in between, at most once if it must not
arrive twice, and has left if it is closed as sent. `EmailQueue` implements it.

### ElectionRegistryV2: the contract

One variable per storage variable, one action per function, a guard per
`require`. `voteCast` is the event log, `timestamp` the block's clock. The log is
a history variable for the contract itself but real data for everyone who
recounts, which is what `TallyMatchesLog` is about.

* `TallyMatchesLog`: the counters (`votesFor`, `totalVotes`), kept apart from
  `hasVoted` and from the log, equal a recount of the log.
* `ElectionsAreBallotBoxes`: each election implements `BallotBox`, under the
  mapping that reads a ballot from the log and `sealed` from halt and clock.
* Proved and no longer run, since they repeat guards: `VotesWithinTerms`,
  `TermsFixed`, `ResultFinal`.

### VoteRecording: from a request to a counted vote

One election, registered on chain. State: the contract as a ballot box
(`cast`, `sealed`), the transaction of each request, where the handler of each
request stands, the row of each voter in `vote_attempts`, the participations and
the counted votes, and the runs of the cleanup job. A request is one call of
`POST /register-vote`; retries are other requests of the same voter, usually with
another candidate. A request broadcasts at most one transaction and inserts at
most one row, so its name also stands for the hash and for the row's id.

The handler's actions are its steps between two `await`s: `Begin` (the last read
of the participation), `TakeLock` (the upsert), `Send`, `AwaitReceipt` /
`WaitTimesOut`, then `NotePendingTx`, `RecordVote` or `Release`. The reads before
`Begin` (election, voter, census, candidate) only decide whether the request
exists. The job's actions are its statements and the separate calls of
`findVote`: `JobStart` (the SELECT), `JobScan` (the event), `JobReceipt`,
`JobNonce`, then `JobRecord` or `JobFail`, and `JobExpire` at the end of a run.

`Faults` selects what may go wrong: the database (`db`), the node before the
broadcast (`rpc`), its answer after it (`lostAnswer`), the wait for the receipt
(`waitError`), replacement of a stuck transaction with or without its vote
(`speedup`, `cancel`), a missing chain configuration (`noPort`), 72 h without a
resolution (`expiry`), and a block mined between two looks of `findVote`
(`blockDuringLook`). `SlowHandlers` lets a handler outlive the 30 minutes after
which the job takes its row for abandoned; `MaxCrashes` bounds restarts.

* `AuditMatchesChain`: a counted vote is the voter's ballot in the contract, the
  participations are exactly the counted voters, and a voter told "confirmed" has
  that choice in the contract.
* `RecordedIsBallotBox`: the counted votes implement `BallotBox`, whoever records.
* `OneSender`: of one voter's requests at most one is past the lock.
* `FailsOnlyDeadAttempts`: the job gives up only attempts none of whose voter's
  transactions was counted or may still be mined.
* `CastIsCounted`, `LocksResolve` (liveness): ballots end up counted; nobody
  stays locked out.

### ChainSync: registering an election in the contract

One row of `elections` (its `chain_*` columns, closing time and number of
candidates), a run of `runOnce` per process, every `createElection` transaction
ever accepted, the ids the contract has given, and the edit an administrator's
route has checked and not yet written. Each statement or call of `runOnce` is an
action; `Abort` is a failing statement outside the `try`, `Fail` the catch block.
Calls are chained inside a process (`chain`), so a process has one run at a time.
`attempts` saturates at `CHAIN_MAX_ATTEMPTS`, which is all it is compared with;
`due` and `stuck` stand for comparisons of times with the clock. The terms of an
election are what `createElection` fixes and the properties tell apart: the
closing time and the number of candidates. `OtherCreates` stands for every other
election in the same contract.

* `SyncIsRegistration`: the job implements `Registration`. `registered` is the
  election whose hash the row has kept, with its terms; `published` is what the row
  says once it is synced. Lost transactions are left to `OneElection`.
* `OneElection`: never two elections for the row, apart from transactions whose
  hash was lost, the gap the code's own comment accepts.
* `Registers` (liveness): an open election with candidates ends up registered
  unless its transaction reverts.
* Proved and no longer run: `IdIsOwnElection`, `SyncedIsTerminal`,
  `SyncedMatchesContract`.

### EmailQueue: mail that survives its worker

The rows of `email_log`, the cycle of each backend process with the row it has
claimed, the one-use tokens in the order of their issue, and what the mail
provider has put in mailboxes under which key. Each statement or call of
`runOnce`, `claimNext`, `attemptSend` and `prepareLinkEmail` is an action; cycles
are chained inside a process (`chain`), so a process has one at a time. A message
is plain, with its body in the row, or has a link, whose token is issued when it
is sent and belongs to a *line*: one user and one purpose. `due` and `stuck`
stand for comparisons of times with the clock. Candidates are tried in any order
and number: creation order, `LIMIT 10`, `BATCH_MAX` and the pause between sends
are left out. The issuing transaction is two actions, the tokens its UPDATE sees
(`PrepareLink`) and its commit (`IssueToken`), since READ COMMITTED lets another
one commit in between; `seen` is how many tokens there were at the UPDATE, a history
that only the property reads. The provider keeps keys for ever.

* `QueueIsOutbox`: the queue implements `Outbox`. A row is "waiting" while it is
  queued or claimed; a plain message is one that must not arrive twice.
* `OneLiveLink`: of one user and purpose two links work at once only if the
  transaction that issued the later one had begun before the earlier one was
  committed. That can happen, in two processes, and the run reaches it (section 5).
* `Settles` (liveness): every queued message reaches a final state.
* Proved and no longer run: that no plain message reaches a mailbox twice, slow
  workers included (`PlainDeliveredOnce`), that final rows stay as they are and "sent"
  means delivered (`FinalStatesAreFinal`); and that with one process at most one link
  works (`OneLinkWorks`).

### Sessions: who may go on

The rows of accounts, refresh tokens and one-use links, and requests that go
statement by statement. PostgreSQL is READ COMMITTED: a statement sees what was
committed when it started, waits for rows another transaction holds and looks at
them again (`tx`, the rows of an open transaction, is written back by its COMMIT).
Every operation that opens or ends a session is there: login, demonstration login,
refresh with its rotation, logout, change of the password, forgotten and reset,
removal by the user and by an administrator, approval and its withdrawal, and the
anonymising of removed accounts. `era` numbers the password changes a token was
issued after, `raced` marks tokens whose request ran beside such a change:
history variables, which no guard reads.

* `RotatedOnce`: a refresh token is exchanged for at most one other.
* `OnlyRacersSurvive`: a change, reset, removal or withdrawn approval ends every
  older session, but for those whose own request ran beside it (section 5).
* `LinksWorkOnce`: a link that was used, or voided by another reset of its account,
  is never unused again, and a password is reset only in the step that spends the
  link with which the reset was asked for.

### Census: who may vote

Accounts, access requests, whitelist, elections with their domains, censuses and
ballot papers, built by requests that run side by side. A request carries its
statements as a list (`todo`); nothing is seen before its COMMIT. A person has one
mailbox and one identifier, both UNIQUE, and spells the first one way or another.

* `CensusComplete`: an approved student is in the census of every election that
  is open to him and has not begun, whichever came first and by whichever route,
  but for the pairs collected in `excused`, each at the line that loses them.
* `FrozenAfterStart`: a census that has begun grows only by requests begun before.

### Closing: the salt

One election, the pass of the job that destroys its salt, the votes up to their lock,
the registration on the contract and the edits that move the end or hide the election.

* `VotesAreSalted`: no vote is recorded whose nullifier has no salt, unless the salt was
  destroyed while the election was off the chain and its end then moved (`reopened`).
* `SaltIsDestroyed` (liveness): a closed election loses its salt in the end.

### Announcements: the notices

The two kinds of notice with their flags, passes of the job that overlap and page the
census by OFFSET, notices an administrator sends by hand, and the census that changes
meanwhile. `enqueue()` returns before its INSERT: a page leaves its notices in
`queueing`, and each INSERT is made, fails or is lost in a stop later, by itself, also
after the flag is written. Somebody is `told` once the row is in `email_log`.

* `EverybodyIsTold` (liveness): everybody is told of the opening and the closing, but
  for those in `excused`: who joins while the others are told, follows an account
  removed between two pages, is on a page whose query fails, or has lost the notice to
  an INSERT that failed or a stop after the flag (section 5).

### Relayer: the nonces of one key

The queue of `sendRelayerTx` with its cached nonce, the pending count it asks the
node for, the repair when the two disagree, the chain sync that signs with the
same key outside the queue, and the operator who replaces a stuck transaction. A
`createElection` that the node took and whose answer was lost is sent again, under a
new nonce, as `syncElections.ts` does.

* `NoGap`: as long as the node drops nothing, no gap is left in the nonces, behind
  which nothing would be mined.
* `QueueMoves` (liveness): a vote in the queue gets its answer, whatever becomes
  of those before it.
* Proved and not run: `OneNonceEach`, no vote is in the node at two nonces. Of
  elections it does not hold.

### Small modules, composed by MCParts

These share no state; a behaviour of `MCParts` is one of them.

* `Booth` (`BallotNotOfferedAgain`): the flow of one voter in several tabs, with
  the two queries of the eligibility apart, the timeout of the request and answers
  that are lost. The server is the abstraction of `VoteRecording` to one voter. A
  booth opened after a vote was taken offers no ballot.
* `Results` (`VerifiedIsTrue`, `NoVoteAfterTally`, `OpenPageShowsTally`): the route
  with its queries one after another while votes of three kinds arrive, and the
  page with interval, tabs and PDF. A vote is a request that passes the clock
  (`Accept`) and is broadcast or written some awaits later (`Broadcast`, `RecordDemo`),
  then mined or lost (`Block`) and recorded. What says "verified in the chain" is there;
  once the tally was seen no request is accepted and the contract takes nothing, and
  the rows that still come are of votes it has, or of demo accounts accepted before;
  an open page ends up with the tally.
* `Web` (`NeverThrowsItselfOut`, `EveryCallSettles`): cookies shared by tabs, a
  client per tab, the one renewal all its calls wait for, login, logout, the guard
  of `must_change_password`.
* `Panel` (`ListCatchesUp`): loads that overlap and answer out of order, and the
  interval that follows a registration until it is over.
* `Recount` (`NoFalseAlarm`): windows of blocks over a chain that grows.
* `Deployment` (`RecordIsTrue`): the two scripts, stopped anywhere, keep a relayer
  in the contract and the truth in the file.
* `Migrations` (`SchemaMoves`, `TurnoutMatchesVotes`): every order of up and down,
  over the rows the code of each version leaves. `Fits(n)` and `FitsBack(n)` are the
  constraints that migration n puts on the rows it finds; `SchemaMoves` says that they
  always hold, so that a deploy never stops at a migration. Proved and no longer run:
  `DenyByDefault`, every table has row level security.
* `SqliteStart` (`FileIsWhole`): a start over a file of any older release, stopped
  anywhere, each statement swallowing its error as the code does. A row is a vote, by
  its voter and its hash; two old rows may share a hash, and `OnePerHash` is what
  INSERT OR IGNORE makes of them. "tracking" are the two columns of `vote_attempts`
  that no step adds to a table that is there.
* `SqliteTransactions` (`OwnersAreAtomic`, `EveryTransactionEnds`): queue, depth,
  nested transactions and those of other requests that join.
* `ElectionRegistryV1` (`AuditsAgree`): the first contract; count, mapping and
  history agree however often an election was closed and opened again. Proved and
  not run: `FirstElectionsAreBallotBoxes`; what seals its box is its time, since an
  election that is closed can be opened again.
* `Retention` (`OverdueIsForgotten`): the purges of a run, in overlapping runs that
  fail; what is over its term goes in the end.

Links between the modules are assumptions each states at its head: `VoteRecording`
takes the registered election from `ChainSync` and the vote that reaches its
contract from `Relayer`; `Closing` has votes up to the lock, `VoteRecording` from
there; `Announcements` ends with the row of `email_log` that `EmailQueue` begins
with; `Sessions` uses links that `EmailQueue` issues; `Web` sees of `Sessions`
whether a renewal is granted; `Panel` sees of `ChainSync` whether a registration is
under way.

## 3. Runs

All runs pass.

| Run | Question |
|---|---|
| `registry` | Does the contract keep a verifiable tally under every interleaving of calls of two keys? Is each election a ballot box? |
| `votes` | Four requests of two voters, slow handlers and every kind of fault but the 72 h expiry, in any number: is what the backend counts what the contract holds, and what the voter was told? |
| `votes_tracked` | Database and node failing before the broadcast, slow handlers, no configuration, a restart: does the job give up dead attempts only, and is every ballot counted in the end? |
| `votes_locks` | Every kind of fault and a restart: does one request of a voter send at a time, and is every lock released? |
| `chain` | Two processes, an administrator and the seven faults the code is written to survive, two in a behaviour: is the election registered in the end, once, and is what the database publishes what the contract took? |
| `email` | Two processes, a plain message and one link with two faults, or two links of one user with one, of any kind but a slow worker: is the queue an outbox, do two links work only if their transactions overlapped, do rows settle? |
| `sessions` | Any four requests on an account that is logged in, with a failing database and a restart: is a token rotated once, does a link reset one password once, and does a cut end all that did not race it? |
| `census` | Any three requests that create accounts, elections and censuses, two at a time, failing and restarting: is everybody in the census of the elections open to him, and does a census stay once voting has begun? |
| `closing` | An election opens and closes while voters vote, administrators edit, passes of the timers overlap, statements fail and the server restarts: is the salt destroyed in time and never too early, and is everybody told? |
| `relayer` | Votes, a registration and an operator take nonces of one key while calls fail, the node drops transactions and the server restarts: is a gap ever left, does the queue ever stop? |
| `parts` | The safety of the eleven small modules, one in each behaviour. |
| `parts_live` | The liveness of five of them. |

### Bounds, and why they are enough

*Contract.* Two keys suffice to have an owner, a pending owner, a relayer that is
not the owner and a stranger; two elections to see that one does not disturb the
other; two nullifiers and two candidates to tell double votes and miscounts apart;
three instants to be before, at and after an end. The contract's run uses symmetry
of accounts and of nullifiers, and only for safety.

*Votes.* Voters do not interact except through the job, which handles one row
after another, so two voters (one of them a demonstration account, whose votes
skip the chain) are enough, with two requests each that disagree on the candidate:
the second is the retry. One run of the job at a time is what the timer of
`index.ts` gives as long as a run takes less than half an hour; `LockExcludes`
states this assumption, and without it the property fails: a run that selected a
row before another resolved it records or fails it under the retry that took it
over. `votes` has no crash and `votes_tracked` no lost answers: `AuditMatchesChain`
is proved for every set of faults and any number of crashes, `CastIsCounted` does
not hold with the others (section 5).

*Chain sync.* Elections of one database meet only in the numbering of the
contract, which one foreign election is enough to disturb. Two processes compete
for a claim; three transactions are the one that is lost, the one that is dropped
and the one that stays; two attempts reach the exhausted state and leave one
retry before it; the clock passes the earlier of two closing times and not the
later; one edit is enough to disagree with a registration. Counters that would
grow for ever stop at `MaxTime`, `MaxSends`, `MaxOthers`, `MaxEdits` and
`MaxFaults`; the theorems hold for any value of them.

*Email.* Two processes compete for every row; a plain message and one with a link
take the two paths of `attemptSend`, and messages meet only in a line: `reset` and
`again` are two requests of one user. A behaviour has both of them and one fault, which
has two processes issue links side by side, or only the first and two faults
(`MaxFaultsOfTwo`, `MaxFaults`): a lost answer and the crash or the failed UPDATE after
it. Two attempts have one that is retried and one that is the last.

*Sessions.* Accounts do not meet. Four requests are a login, two refreshes of one
token and a change beside them, in all other mixtures too; five tokens and three
links are as many as four requests issue on top of the first; two passwords tell
the old from the new. One restart abandons every request under way. Requests are
interchangeable (symmetry, safety only).

*Census.* Three requests, two of them side by side, make a person, an election and
what joins them, in any order; two students tell the rows of an import apart; a
university and its department are the shortest chain of scopes, and four calls to
create an election cover students, administrators, both and an explicit school.

*Closing.* The job of the salt and that of the notices read no column of the election
in common but clock and `is_active`, so a behaviour of `MCClosing` is of one of the
two modules. Two voters vote, one of whom may be the last; two edits move the end and
hide the election; one restart. For the notices pages of one row give a census of two
people two pages and a third that ends it; two passes overlap, of the job or one of
them by hand; one person is there from the start and one joins; one statement fails or
the server stops once, and two things are changed.

*Relayer.* Two votes are the one that fails and the one behind it; six nonces leave room
for an election that is sent again and the operator between; two faults and one repair.

*Parts.* Two tabs and two posts in the booth; blocks up to 5 in windows of 2 make
a full window, a partial one and one that begins empty; three voters' nullifiers in
the recount; two voters and two ballots in the migrations and the SQLite file, which
is where a vote can be lost, doubled or swapped, and two steps down (016 has none, on
purpose); two deployments with two keys; one transaction with another nested in it
and one of another request, two writes each; two elections and three instants in the
first contract; of each kind of row one in the retention. The results have one elector,
one demo account and one candidate: figures of different candidates never meet, a vote
is for this one or not there, and each voter has one request under way (`MaxAsked`),
which is enough for it to be late. `parts` has no visits of
other pages (`MaxVisits`) and single loads of the panel, `parts_live` has both.

### Fairness

`FairSpec` of `VoteRecording`: handlers and runs of the job make progress (Node
resumes every settled `await`), blocks are mined, time passes and the timer
fires: weak fairness. A step of the job that the node or the database may refuse
again and again (`JobScan` per voter, `JobRecord`, `JobFail`) has strong fairness:
a node that answers from time to time is asked every 30 minutes. Requests need
not come, the operator need not replace anything and the server need not crash.

`FairSpec` of `ChainSync`: the job runs every five minutes and what a run awaits
settles (every call has a timeout), the administrator's handler finishes, claims
age and backoffs elapse, pooled transactions that are not dropped are mined:
weak fairness. The panel's button is pressed again and again while the election
is not registered: strong fairness, since a press waits while a run is under way.
`Registers` has to hold with two faults; more of them only repeat these.

`FairSpec` of `EmailQueue`: every process starts a cycle every five minutes
(`index.ts`), what it awaits settles, claims age and backoffs elapse: weak
fairness. New mail need not come and requests need not lapse.

`MCClosing`: the timers of `index.ts` fire for ever and their passes go on, a vote
that has begun ends, the cleanup job resolves what it finds and the database answers
an INSERT, well or not: weak fairness. Time need not reach the end;
`SaltIsDestroyed` and `EverybodyIsTold` speak of elections that stay closed. An
election that is opened and closed for ever promises nothing.

`Relayer`: every call to the node ends, with an answer or its timeout,
and the node mines what it can: weak fairness.

`MCParts`: the clock runs, what a page asks is answered or fails, its interval
fires; what is asked of the SQLite connection is answered, a run of the retention
goes on and the next one starts: weak fairness. A poll of the panel is repeated
while it fails, and the server does not fail for ever: strong fairness of its answer.
A user need not click anything.

## 4. Proofs

All theorems hold for any number of keys, voters, requests, tabs, candidates,
elections, processes and, where they say so, faults.

| Theorem | States |
|---|---|
| `TypeCorrect`, `TallyVerifiable`, `TermsNeverChange`, `ResultsAreFinal`, `RegistryImplementsBallotBoxes` (`ElectionRegistryV2Proofs`) | every property of the contract, those that are not run included |
| `TypeCorrect`, `CountMatchesChain`, `CountedVotesAreABallotBox` (`VoteRecordingProofs`) | for every set of faults, what is counted is what was cast, once |
| `LockExcludes` (`VoteRecordingProofs`) | one sender per voter, if runs of the job do not overlap and no handler outlives 30 minutes |
| `FailsAreFinal` (`VoteRecordingProofs`) | the job gives up only what can no longer be counted, if an operator replaces no transaction, nothing sent goes unnoticed and the node answers within 72 h; any number of overlapping runs and slow handlers |
| `SyncedIdIsOwn` (`ChainSyncProofs`) | types, and that a synced row points at an election of its own, for every set of faults |
| `SyncedStays`, `NoSecondElection` | unless a live run outlives its claim |
| `SyncedAgrees`, `SyncImplementsRegistration` | unless it does, or a failed row is edited, or a claim falls between check and write of an edit, the refinement of `Registration` |
| `TypeCorrect`, `PlainDeliveredOnce` (`EmailQueueProofs`) | for every set of faults, slow workers included |
| `FinalStatesAreFinal`, `QueueImplementsOutbox` | unless a live worker outlives its claim, the refinement of `Outbox` |
| `LinksOverlapOnly` | `OneLiveLink`, for every set of faults and any processes and messages |
| `OneProcessOneLink` | with one process at most one link of a user and purpose works, for every set of faults |
| `SessionInvariant`, `TokensRotateOnce`, `CutsSpareOnlyRacers`, `LinksResetOnce` (`SessionsProofs`) | a refresh token has one heir; a cut ends every session that did not race it; a link resets one password, once; with the failures and restarts of the module |
| `OneNonceAtATime`, `NoncesHaveNoGap`, `VotesHaveOneNonce`, `SaltOutlivesVotes` (`ServerProofs`) | the two properties of `Relayer` and `Closing` that are not liveness; that two votes never hold nonces at once, and one vote, unlike an election, never stands in the node at two |
| `NoBallotTwice`, `VerifiedVotesAreInChain`, `TallyIsSeenAfterVoting`, `TabKeepsItsSession`, `RecountAgreesWithContract`, `FileOfTheNetworkIsTrue`, `FirstContractAuditsAgree`, `FirstContractIsBallotBoxes` (`PartsProofs`) | the safety properties of `Booth`, `Results`, `Web`, `Recount`, `Deployment` and `ElectionRegistryV1`, and that the elections of the first contract are ballot boxes |
| `MigrationsNeverStop`, `TablesAreSecured`, `TurnoutIsNumberOfVotes`, `StartLeavesFileWhole`, `TransactionsAreAtomic` (`DatabaseProofs`) | the safety properties of `Migrations`, `SqliteStart` and `SqliteTransactions` |
| `NobodyIsLeftOut`, `CensusIsFrozen` (`DatabaseProofs`) | the two properties of `Census`, for any people, elections, files, requests side by side, failing statements and restarts |

`ElectionRegistryV2Proofs`. `TypeOK` is inductive. For the tally, the inductive
invariant `LogInv` adds to `TallyMatchesLog` and `VotesWithinTerms` that
`hasVoted` is exactly the set of nullifiers of the log: without it a step could
not know that the vote it logs is a new element, and the cardinalities could not
be compared. `TermsFixed` and `ResultFinal` follow from the type invariant step
by step; the refinement of `BallotBox` from `LogInv`, sealing by the clock
included.

`VoteRecordingProofs`. `TypeInv` adds to `TypeOK` that a run of the job that works
on an attempt has one under hand. `ChainInv` ties database and chain: a request that
records has a transaction that counted, a run of the job that records holds the vote
of the contract. These two give `CountMatchesChain` and the refinement
`CountedVotesAreABallotBox`, for every set of faults. `LockInv` says that a request
past the lock holds a young pending row, and that the rows the job has in hand are
old, pending and belong to different voters; it gives `LockExcludes` from two
assumptions that are spelled out in the theorem. `TrackInv` says where a voter's
transactions can be: one in the mempool is that of the request that holds the lock,
and a reverted one means that no vote of the voter can be accepted any more
(`Dead`); so what the job has found reverted stays so while it writes. Its
assumption is `Faults \subseteq {"db", "rpc", "noPort"}`, the set of
`MCVoteRecordingTracked.cfg`; the other faults are the findings 1 to 3 below, which
break it.

`ChainSyncProofs`. `Inv` adds to the types what a run knows at each stage and that
elections and mined transactions correspond. `OnceInv`: at most one run holds the
claim, what it has in hand is the stored hash, and every transaction that is
neither dropped nor lost is the stored one or about to be stored. `TermsInv` adds that the
transaction in hand says what the row says, which an edit must not disturb. For the
refinement `RefInv` adds that a lost transaction is nobody's any more, neither the
stored one nor about to be stored (`LostApart`): so what is registered is one election
and stays it, a mined transaction that is not lost is the first `Register`, the write of
"synced" is `Publish`, and every other step of a run, crash or edit is a stutter.

`EmailQueueProofs`. `Inv` adds to the types that tokens are only issued for messages
with a link and that plain messages keep one key: nothing about claims, which is why
`PlainDeliveredOnce` needs no assumption on time. `HoldInv`: a claimed row has one
worker and is not stale, and a worker that is about to write "sent" has had its
message delivered. `LinkInv`: a transaction about to commit has seen every unused
token of its line but those issued since its UPDATE (`SeesBefore`), which is what
`OneLiveLink` says of it once it has committed; with one process none are. The
refinement of `Outbox` follows from `Inv` and `HoldInv`: a claimed row is still
waiting when its copy leaves, and a worker that closes one has it claimed still.
`copies` is a cardinality, so the proof of a delivery shows that the copy is a new
element.

`SessionsProofs`. `SessionInv` says of every request what it has read and not acted
on (`Knows`), that it is marked `raced` if a cut came after its credentials
(`Dated`), that a rotation that claimed its token finds it unrevoked until it ends
(`Claimed`), and that a cut that has listed the rows to revoke misses none but
those that raced it (`MissesOnlyRacers`). `OneClaim`, no token in the hands of two
rotations, is the row lock of the conditional UPDATE, and what `RotatedOnce` rests
on. `OnlyRacersSurvive` follows from the last two at the commit of a cut. `LinkInv`
does for links what `OneClaim` does for tokens: a reset that has spent its link and not
committed is the only one to hold that row, and nobody has committed it used
meanwhile; so its commit is the first.

`ServerProofs`. `NoncesHaveNoGap`: gaps are no invariant by themselves, since what
fills a nonce was chosen earlier, so `NonceInv` speaks of `Filled(n)`, that nothing
is missing below `n`: of every nonce somebody holds, and of the cache when no vote
holds one. A vote that holds a nonce leads the queue and the cache is one past it
(`SenderLeads`), for every fault; the rest under "the node drops nothing".
`VotesHaveOneNonce` does without: the vote that stands at a nonce in the node has
that nonce and will not send again, and a script that replaces a transaction keeps
its nonce (`PlaceInv`). It is about votes only: an election that is sent again
stands at two. `SaltOutlivesVotes`: the job looks at the salt of an election only
when it is over, and then a voter either has read the salt or is refused by the
clock (`SaltLeavesLate`).

`PartsProofs`. One inductive invariant per part. `Booth`: a tab opened after a vote
was taken remembers it in one of three places, the two tables in the order they are
asked and the page (`Remembers`); a vote moves from the first table to the second
and never back. `Results`: what a query or page holds is `Backed` by votes that are
there, `Public` if it may be shown, and votes are never taken away; a tally that is
seen means that the end is past (`SeenOK`), and `NoVoteAfterTally` follows step by
step. `Web`: a tab that exchanged the token and has not the next one is renewing it,
or has gone to /login (`Exchanged`). `Recount`: what has been found is what the log
says of the blocks read so far (`ReadSoFar`), and a window begins after them.
`Deployment`: a script and its transaction know the contract they work on, which has
the relayer from the step at which the script says so. `ElectionRegistryV1`: the
history of an election holds each of its voters once, and as many as the count; for
the ballot box, time only goes on, and a vote is taken only before the end, whatever
`isActive` was meanwhile.

`DatabaseProofs`. `Migrations`: `RowsInv` says which values each version's code
leaves in the columns that a later constraint restricts; the UNIQUE positions of a
ballot paper fit since the migration renumbers them first, and the renumbering by
position and id is injective (`RenumberedUnique`). `TablesInv` lists what may lack
row level security, `VotesInv` that a user has one row before 016 and that rows and
users are as many after it; the cardinalities are compared by the bijection of
`SameSize`. `SqliteStart`: `VotesOK` describes the tables as committed and how far
the separating transaction is, with which rows it may hold (one of every hash,
without its voter), `BlocksOK` and `LinksOK` what a start that swallowed nothing has
repaired by each step. `SqliteTransactions`: the callback that has run its BEGIN is
the only one and at the head of the queue (`QueueOK`); of what it and those nested
in it wrote, all is waiting while it runs and all is kept or all gone afterwards
(`AtomicOK`). `Census`: `CensusComplete` is not inductive, since an account and the
elections are written by different transactions, each blind to what the other has
not committed. `Settled` says of every election open to a student that, once the
account is approved, the pair is in the census, excused, or owed by a request of its
domain (`IsTaken`); and that a transaction which writes the account and has looked
the elections up has the pair in hand already, or it is taken. `FounderOK` says the
same of an election that is not committed yet. `HeldOK` has every voter a
transaction holds belong to an election that had not started when the request came
in, which is `FrozenAfterStart` at its commit. What the rows a file flattens to are
needs an induction over its length; it is done by the least counterexample
(`LeastNumber`, `Flattened`).

Assumptions are only those of the constants, named at the head of each module
(`RegistryAssumption`, `VoteRecordingAssumption`, `RelayerAssumption` and so on),
which TLC evaluates in every run. They say that bounds are numbers, that names of
different kinds differ (a vote is no election, a tab none of the reserved words of
`Web`), that `None` is no user, token, row or password, that accounts and
nullifiers, students, rows of a table and values of `bytes32`, are finitely many,
and that an account has one role (`Students` and `Admins` of `Census` are disjoint).
The types of the proved modules are theorems (`TypeCorrect`, `SyncedIdIsOwn`,
`SessionInvariant`, `OneNonceAtATime`) or parts of the inductive invariants, and not
run again.

Only model-checked: the liveness properties (`CastIsCounted`, `LocksResolve`,
`Registers`, `Settles`, `SaltIsDestroyed`, `EverybodyIsTold`, `QueueMoves` and those of
`parts_live`), since fairness is out of the prover's reach. Every other property of a
run is a theorem, with the assumptions on faults the table states.

## 5. Where the code does not do what it says

Each was met while modelling. The properties exclude them by name (a fault that is
not in the run's set, a history variable such as `raced` or `excused`, a clause of the
property), so that what passes says exactly how far the promise goes. The hazards of
`PROJECT.json` that a property therefore does not catch point here.

Votes (`Faults` of `VoteRecording`):

1. `routes/elections.ts:1018`: an error after the broadcast marks the attempt failed
   although the transaction can still be mined, where `ARCHITECTURE.md:129` has a
   background job that confirms pending transactions. The job reads only pending
   attempts, so the ballot stays on chain and uncounted until the voter tries again. The same after 72 h without an answer
   of the node (`db/postgres.ts:543`).
2. `db/postgres.ts:306`: a retry takes over the row of a failed attempt with its
   `tx_hash` and `nonce`. If the server stops before the new ones are noted, the job
   judges the new attempt by the old transaction. `FailsOnlyDeadAttempts` is run and
   proved without the faults that it takes (`lostAnswer`, `waitError`).
3. `services/voteChain.ts:476`: `findVote` reads receipt and nonce in two calls; a
   block between them makes the voter's own counted transaction look replaced. The
   fault is `blockDuringLook`, which the same run leaves out.
4. `db/postgres.ts:507`: the job fails a row by its id and does not look at its status
   again. With a run that outlasts the 30 minutes of the timer, or a handler that
   does, a row that was resolved and taken over meanwhile is failed under the retry:
   `OneSender` is run and proved for one run at a time and handlers within 30 minutes.

Registration (`Faults` of `ChainSync`):

5. `routes/admin/elections.ts:608`: a failed row is never frozen, although its
   transaction may still be mined, which the comment above it denies. Terms edited
   then differ from those that the retry finds confirmed.
6. `scripts/syncElections.ts:336`: a reverted `createElection` keeps its hash, and
   every retry confirms the same reverted transaction; the panel's button cannot
   recover the election, as `app.ts:354` says it does.
7. With `slow`, a run that keeps a claim beyond `STUCK_MS` can write over a synced
   row. With `adminRace`, a claim that falls between an edit's check and its write
   (`routes/admin/elections.ts:393`) registers the old terms: the write does not repeat
   the check. `SyncedAgrees` names both.

Relayer:

* `ARCHITECTURE.md:126` has every write to a contract pass through the relayer queue;
  the chain sync signs `createElection` with the same key outside it
  (`scripts/syncElections.ts`), so a vote may find its nonce taken. `NoGap` and
  `QueueMoves` hold with that. An election whose hash was lost is sent again under a
  new nonce and may be mined twice (`syncElections.ts:310`), the gap `OneElection`
  leaves too. The speedup that line 128 has submitted after a timeout
  is what the operator's `scripts/resolveStuckNonce.ts` does by hand.

Email (`Faults` of `EmailQueue`):

8. `services/email/tokens.ts:39`: two processes that issue links of one user at the
   same time each mark only the tokens they saw, and both new links work, where the
   comment at line 27 has one. The run reaches it; `OneLiveLink` says that transactions
   that overlap are the only way to it.
9. With `slow`, a late failure of a worker that lost its row puts a sent row back to
   "queued": a plain message, its body gone, stays there for ever, and a link is sent
   again. `PlainDeliveredOnce` holds even then.

Sessions (`raced`):

10. `routes/auth.ts:217` and `727`: a login or a rotation that runs beside a change
    of the password survives it, where `docs/API.md:22` has every session ended. A
    change that has checked the old password writes over a reset (line 464).

Census and notices (`excused`):

11. `routes/admin/users.ts:32`: who is approved later is also put into the census of
    elections whose voters are administrators only; `CensusComplete` is about who is
    missing and does not say it. A domain whose addition breaks off answers the retry
    with 409 and leaves its census incomplete; an account made by the import of one
    census is in no other.
12. `routes/admin/elections.ts:53`: an account created while the voters of an election
    are selected, after it looked for its elections, is in no census of it.
    `routes/admin/election-census.ts:163`: what was asked before the start of an
    election, a file with many rows say, is written to its census after it.
13. `index.ts:146`, `services/email/queue.ts:151`: a page of notices whose query fails is
    skipped for good, and with it everybody on it; an account removed meanwhile takes
    the next one out of its page. `enqueue()` does not wait for its INSERT: if it fails,
    it is logged and nobody tries again, and if the server stops after the flag is
    written and before the INSERT, the notice is gone, where the flag says that all
    were told.
14. `routes/admin/elections.ts:385`: an election off the chain until its end loses its
    salt; its end can then be moved, and its votes have nullifiers without one
    (`reopened`).

Results:

15. `routes/elections.ts:791` reads the clock once. A demonstration vote that was in time
    is recorded (line 880) whenever its handler gets there, also after the tally was
    published (line 465) and seen, so that published figures can change; a vote for the
    chain that is late is refused by the contract. `NoVoteAfterTally` allows the first
    by name.

SQLite, migrations, retention:

16. `db/sqlite-adapter.ts:26`: the comment has the second transaction wait; one that
    is called while another is open joins it, and so does a loose statement, which is
    rolled back with it. A callback that joined between COMMIT
    and the decrement of the depth commits statement by statement. `OwnersAreAtomic`
    promises nothing to those that joined.
17. `config/database.ts:474`: the copy of the old votes ignores the second row with one
    (`election_id`, `nullifier_hash`), which is lost, where the migration it follows
    stops at it (016, line 52). `config/database.ts:192`: an older `vote_attempts` never
    gets `tx_hash` and `nonce`, since only CREATE TABLE names them; noting a pending
    transaction then fails (`db/sqlite-adapter.ts:117`) and the handler drops the error
    (`routes/elections.ts:957`). `config/database.ts:293`: every start approves the domain
    administrators again, also one whose approval was withdrawn. Of swallowed errors the
    start says nothing, and goes on (`missed` in `FileIsWhole`).
18. Migration 015 announces 'unverified' for new requests; `registration.ts:170`
    inserts 'pending'. 004 undone and done again sends dead mail anew.
19. `services/retention.ts`: the first purge that fails keeps those behind it from
    running; removing a removed account again starts its term anew; approved and
    unverified requests and the audit of nullifiers have no term.

Pages:

20. The booth: the branch of `contract_error` is dead; a timer may write over an
    answer that arrived; the listener of the live feed is never taken off. The panel:
    one `loading` for all tabs, and the last answer to arrive wins. The session: two
    tabs that renew at once send the loser to the login; a renewal has no timeout; a
    late logout clears the cookies of the next login.

## 6. Not modelled

* Reorganisations of the chain: a mined transaction stays mined, as the code
  assumes with its one confirmation. A transaction the node no longer knows is taken
  to be gone for good, as `TransactionDroppedError` is. A change of contract address.
* The cryptography (nullifiers, roots, tokens, passwords): values are distinct names.
* The reads before a handler's first step and the listings, which change nothing;
  wording, formatting, presentation, logging. `frontend/src/i18n/config.ts` is texts.
* Rate limits: they count requests of an address in the memory of one process and
  touch no state of an election.
* Organisational units and targets by unit in `Census`: a domain with those above it
  is the same relation.
* The live feed and the participation bar of the booth, the contents of forms,
  filters and modals of the panel, the dashboard and the profile page: they decide
  nothing the backend does not decide again.
* Indexes, triggers and columns no migration reads; the mail of confirmation 016
  deletes; blocks of columns of the SQLite file that nothing reads apart are one.
* Two operator's scripts at once: a script that stopped has its transaction mined or
  lost before the next begins. Otherwise a pooled revocation may still take effect
  after it was judged lost.
* In `Relayer` one server process, and a pending count that does not lag behind what
  the node accepted; after the node drops a transaction the gap stays until an error
  or a restart asks for the count anew.
* The seeding script, which fills an empty database once, and the test suites.

## 7. What is left

Every safety property the runs check is proved. What a next step could be, most
important first:

1. Refine across modules: that a run of `ChainSync` which sends, and a handler of
   `VoteRecording` which casts, are calls of one `ElectionRegistryV2`, so that the
   assumptions at the heads of the modules become theorems. Today the chapters meet in
   `BallotBox`, which the contract implements and the backend takes for its contract.
2. The lifecycle of rows that no property names: a participation is never withdrawn, a
   member of a census that voted is never removed.
3. Safety lemmas for `Panel` and `Retention`, of which only liveness is stated.
4. Liveness for every instance, which needs a prover with fairness.
