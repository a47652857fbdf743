----------------------------- MODULE DatabaseProofs ---------------------------
(*****************************************************************************)
(* Proofs about the database: the migrations of PostgreSQL, the start of     *)
(* SQLite on a file of any age, the transactions of its adapter, and the     *)
(* accounts and censuses that requests build in it side by side.  Each has   *)
(* its own specification and inductive invariant, for any values of its      *)
(* constants.                                                                *)
(*****************************************************************************)
EXTENDS Migrations, SqliteStart, SqliteTransactions, Census,
        FiniteSetTheorems, SequenceTheorems, WellFoundedInduction, TLAPS

-------------------------------------------------------------------------------
(* The migrations of PostgreSQL.                                           *)

MigrationsSpec == MigrationsInit /\ [][MigrationsNext]_migrationsVars

(* No table is there that 006 does not know, but those of 014 and 016,     *)
(* which secure their own.                                                 *)
TablesInv ==
    /\ version \in 0 .. 16
    /\ version <= 13 => tables \subseteq TABLES
    /\ version \in {14, 15} => tables \subseteq TABLES \cup {"admin_action_log"}
    /\ DenyByDefault

LEMMA UpgradeTables ==
  ASSUME TablesInv, Upgrade
  PROVE  TablesInv'
<1> USE DEF TablesInv, DenyByDefault, Up
<1>1. CASE InitialSchema \/ EmailTables \/ RefreshTokens
  BY <1>1 DEF InitialSchema, EmailTables, RefreshTokens, TABLES
<1>2. CASE EmailBody \/ EmailQueueState \/ EmailLogWithoutTokens \/ ElectionChainSync
  BY <1>2 DEF EmailBody, EmailQueueState, EmailLogWithoutTokens, ElectionChainSync, schema
<1>3. CASE EnableRls
  BY <1>3 DEF EnableRls
<1>4. CASE \/ ChainContractAndVoteSource \/ ElectionEphemeralSalt \/ VoteAttemptsTxTracking
           \/ LegalAcceptance \/ RetentionJobs
  BY <1>4 DEF ChainContractAndVoteSource, ElectionEphemeralSalt, VoteAttemptsTxTracking,
              LegalAcceptance, RetentionJobs, Columns, schema
<1>5. CASE AdminActionLog \/ RegistrationEmailVerification
  BY <1>5 DEF AdminActionLog, RegistrationEmailVerification, schema
<1>6. CASE SeparateParticipationFromVotes
  BY <1>6 DEF SeparateParticipationFromVotes, Secured016
<1> QED
  BY <1>1, <1>2, <1>3, <1>4, <1>5, <1>6 DEF Upgrade

LEMMA DowngradeTables ==
  ASSUME TablesInv, Downgrade
  PROVE  TablesInv'
<1> USE DEF TablesInv, DenyByDefault, Down
<1>1. CASE InitialSchemaDown \/ EmailTablesDown \/ RefreshTokensDown \/ EnableRlsDown
  BY <1>1 DEF InitialSchemaDown, EmailTablesDown, RefreshTokensDown, EnableRlsDown
<1>2. CASE EmailBodyDown \/ EmailQueueStateDown \/ EmailLogWithoutTokensDown
  BY <1>2 DEF EmailBodyDown, EmailQueueStateDown, EmailLogWithoutTokensDown, schema
<1>3. CASE ElectionChainSyncDown \/ ChainContractAndVoteSourceDown
  BY <1>3 DEF ElectionChainSyncDown, ChainContractAndVoteSourceDown, schema
<1>4. CASE ColumnsDown \/ RegistrationEmailVerificationDown
  BY <1>4 DEF ColumnsDown, Columns, RegistrationEmailVerificationDown, schema
<1>5. CASE AdminActionLogDown
  BY <1>5 DEF AdminActionLogDown
<1> QED
  BY <1>1, <1>2, <1>3, <1>4, <1>5 DEF Downgrade

(* What the code writes at each version touches no table.                  *)
LEMMA WritesKeepSchema ==
  ASSUME MigrationsNext, ~Upgrade, ~Downgrade
  PROVE  UNCHANGED <<version, tables, secured>>
<1> USE DEF Unmigrated, schema
<1>1. ASSUME NEW u \in Members, NEW h \in Hashes, RecordVote(u, h) \/ RecordConfirmedVote(u, h)
      PROVE  UNCHANGED <<version, tables, secured>>
  BY <1>1 DEF RecordVote, RecordConfirmedVote
<1>2. CASE WriteCandidates \/ RegisterElection \/ RequestAccess
  BY <1>2 DEF WriteCandidates, RegisterElection, RequestAccess
<1>3. CASE EnqueueMail \/ SendMail \/ UseLink
  BY <1>3 DEF EnqueueMail, SendMail, UseLink
<1> QED
  BY <1>1, <1>2, <1>3 DEF MigrationsNext

(* Once row level security is on (006) every table has it, up and down the *)
(* migrations after it: those that create a table secure it.               *)
THEOREM TablesAreSecured == MigrationsSpec => []DenyByDefault
<1>1. MigrationsInit => TablesInv
  BY DEF MigrationsInit, TablesInv, DenyByDefault, TABLES
<1>2. TablesInv /\ [MigrationsNext]_migrationsVars => TablesInv'
  <2> SUFFICES ASSUME TablesInv, [MigrationsNext]_migrationsVars PROVE TablesInv'
    OBVIOUS
  <2>1. CASE UNCHANGED <<version, tables, secured>>
    BY <2>1 DEF TablesInv, DenyByDefault
  <2>2. CASE UNCHANGED migrationsVars
    BY <2>1, <2>2 DEF migrationsVars, schema
  <2> QED
    BY <2>1, <2>2, UpgradeTables, DowngradeTables, WritesKeepSchema
<1>3. TablesInv => DenyByDefault
  BY DEF TablesInv
<1> QED
  BY <1>1, <1>2, <1>3, PTL DEF MigrationsSpec

(* A set and another that a function maps it onto, one to one.             *)
LEMMA SameSize ==
  ASSUME NEW S, IsFiniteSet(S), NEW T, NEW f \in [S -> T],
         \A y \in T : \E x \in S : f[x] = y
  PROVE  /\ IsFiniteSet(T)
         /\ (\A x, y \in S : f[x] = f[y] => x = y) => Cardinality(T) = Cardinality(S)
<1>1. f \in Surjection(S, T)
  BY DEF Surjection
<1>2. (\A x, y \in S : f[x] = f[y] => x = y) => f \in Injection(S, T)
  BY DEF Injection, IsInjective
<1> QED
  BY <1>1, <1>2, FS_Surjection

VoteRow == [user : Members \cup {"nobody"}, hash : Hashes, tx : BOOLEAN, block : BOOLEAN,
            source : {"none", "legacy", "chain", "demo"}]

(* Before 016 a user has at most one row; from it on there are as many     *)
(* rows as users.                                                          *)
VotesInv ==
    /\ version \in 0 .. 16
    /\ nullifier_audit \subseteq VoteRow /\ IsFiniteSet(nullifier_audit)
    /\ version < 16 => /\ election_participations = {}
                       /\ \A r, s \in nullifier_audit : r.user = s.user => r = s
    /\ IsFiniteSet(election_participations)
    /\ TurnoutMatchesVotes

(* A migration that rewrites every row, and keeps whose it is.             *)
LEMMA RewriteRows ==
  ASSUME VotesInv, version < 16, version' \in 0 .. 15, UNCHANGED election_participations,
         NEW f \in [nullifier_audit -> VoteRow],
         \A row \in nullifier_audit : f[row].user = row.user,
         nullifier_audit' = {f[row] : row \in nullifier_audit}
  PROVE  VotesInv'
<1>1. f \in [nullifier_audit -> nullifier_audit']
  OBVIOUS
<1>2. IsFiniteSet(nullifier_audit')
  BY <1>1, SameSize DEF VotesInv
<1>3. nullifier_audit' \subseteq VoteRow
  OBVIOUS
<1>4. \A r, s \in nullifier_audit' : r.user = s.user => r = s
  BY DEF VotesInv
<1> QED
  BY <1>2, <1>3, <1>4 DEF VotesInv, TurnoutMatchesVotes

LEMMA NoVotesLeft ==
  ASSUME VotesInv, version < 16, version' \in 0 .. 15, UNCHANGED election_participations,
         nullifier_audit' = {}
  PROVE  VotesInv'
BY FS_EmptySet DEF VotesInv, TurnoutMatchesVotes

LEMMA VotesStay ==
  ASSUME VotesInv, version < 16, version' \in 0 .. 15, UNCHANGED votesRows
  PROVE  VotesInv'
BY DEF VotesInv, TurnoutMatchesVotes, votesRows

LEMMA SourcesStep ==
  ASSUME VotesInv, ChainContractAndVoteSource \/ ChainContractAndVoteSourceDown
  PROVE  VotesInv'
<1>1. CASE ChainContractAndVoteSource
  <2> DEFINE f == [row \in nullifier_audit |-> WithSource(row)]
  <2>1. \A row \in nullifier_audit : WithSource(row) \in VoteRow /\ WithSource(row).user = row.user
    <3> TAKE row \in nullifier_audit
    <3>1. row \in VoteRow /\ SourceOf(row) \in {"none", "legacy", "chain", "demo"}
      BY DEF VotesInv, SourceOf
    <3>2. WithSource(row) = [row EXCEPT !.source = SourceOf(row), !.tx = row.tx /\ row.block]
      BY DEF WithSource
    <3> HIDE DEF SourceOf
    <3>3. (row.tx /\ row.block) \in BOOLEAN
      OBVIOUS
    <3> QED
      BY <3>1, <3>2, <3>3 DEF VoteRow
  <2>2. /\ f \in [nullifier_audit -> VoteRow]
        /\ \A row \in nullifier_audit : f[row].user = row.user
        /\ nullifier_audit' = {f[row] : row \in nullifier_audit}
    BY <1>1, <2>1 DEF ChainContractAndVoteSource
  <2>3. version < 16 /\ version' \in 0 .. 15 /\ UNCHANGED election_participations
    BY <1>1 DEF ChainContractAndVoteSource, Up
  <2> QED
    BY <2>2, <2>3, RewriteRows
<1>2. CASE ChainContractAndVoteSourceDown
  <2> DEFINE f == [row \in nullifier_audit |-> [row EXCEPT !.source = "none"]]
  <2>1. \A row \in nullifier_audit : /\ [row EXCEPT !.source = "none"] \in VoteRow
                                     /\ [row EXCEPT !.source = "none"].user = row.user
    BY DEF VotesInv, VoteRow
  <2>2. /\ f \in [nullifier_audit -> VoteRow]
        /\ \A row \in nullifier_audit : f[row].user = row.user
        /\ nullifier_audit' = {f[row] : row \in nullifier_audit}
    BY <1>2, <2>1 DEF ChainContractAndVoteSourceDown
  <2>3. version < 16 /\ version' \in 0 .. 15 /\ UNCHANGED election_participations
    BY <1>2 DEF ChainContractAndVoteSourceDown, Down
  <2> QED
    BY <2>2, <2>3, RewriteRows
<1> QED
  BY <1>1, <1>2

(* 016: one row without its user for each row, and one user for each row.  *)
LEMMA SeparateStep ==
  ASSUME VotesInv, SeparateParticipationFromVotes
  PROVE  VotesInv'
<1>1. PICK rows, votes, users : /\ rows = nullifier_audit /\ votes = nullifier_audit'
                                /\ users = election_participations'
  OBVIOUS
<1>2. /\ version = 15 /\ version' = 16 /\ rows \subseteq VoteRow /\ IsFiniteSet(rows)
      /\ \A r, s \in rows : r.user = s.user => r = s
      /\ \A r, s \in rows : r.hash = s.hash => r = s
      /\ votes = {[row EXCEPT !.user = "nobody"] : row \in rows}
      /\ users = {row.user : row \in rows}
  BY <1>1 DEF SeparateParticipationFromVotes, VotesInv, Up, Fits, Duplicates, Anonymous
<1> DEFINE a == [row \in rows |-> [row EXCEPT !.user = "nobody"]]
           u == [row \in rows |-> row.user]
<1>3. \A row \in rows : a[row] \in VoteRow /\ a[row].hash = row.hash
  BY <1>2 DEF VoteRow
<1>4. votes \subseteq VoteRow
  BY <1>2, <1>3
<1>5. a \in [rows -> votes] /\ \A y \in votes : \E x \in rows : a[x] = y
  BY <1>2
<1>6. u \in [rows -> users] /\ \A y \in users : \E x \in rows : u[x] = y
  BY <1>2
<1>7. \A x, y \in rows : u[x] = u[y] => x = y
  BY <1>2
<1> HIDE DEF a, u
<1>8. \A x, y \in rows : a[x] = a[y] => x = y
  BY <1>2, <1>3
<1>9. IsFiniteSet(rows)
  BY <1>2
<1>10. IsFiniteSet(votes) /\ Cardinality(votes) = Cardinality(rows)
  BY <1>5, <1>8, <1>9, SameSize
<1>11. IsFiniteSet(users) /\ Cardinality(users) = Cardinality(rows)
  BY <1>6, <1>7, <1>9, SameSize
<1> QED
  BY <1>1, <1>2, <1>4, <1>10, <1>11 DEF VotesInv, TurnoutMatchesVotes

(* The rows that the code of a version may write.                          *)
LEMMA VoteRowsOK ==
  ASSUME NEW user \in Members \cup {"nobody"}, NEW hash \in Hashes, NEW row \in VoteRows(user, hash)
  PROVE  row \in VoteRow /\ row.user = user /\ row.hash = hash
<1>1. CASE \E e \in Evidence, s \in {"none", "legacy"} :
              row = [user |-> user, hash |-> hash, tx |-> e.tx, block |-> e.block, source |-> s]
  BY <1>1 DEF Evidence, VoteRow
<1>2. CASE \E b \in BOOLEAN, s \in {"chain", "demo"} :
              row = [user |-> user, hash |-> hash, tx |-> b, block |-> b, source |-> s]
  BY <1>2 DEF VoteRow
<1>3. CASE version < 9
  BY <1>1, <1>3 DEF VoteRows
<1>4. CASE ~(version < 9)
  <2>1. \/ \E e \in Evidence, s \in {"legacy"} :
              row = [user |-> user, hash |-> hash, tx |-> e.tx, block |-> e.block, source |-> s]
        \/ row = [user |-> user, hash |-> hash, tx |-> TRUE, block |-> TRUE, source |-> "chain"]
        \/ row = [user |-> user, hash |-> hash, tx |-> FALSE, block |-> FALSE, source |-> "demo"]
    BY <1>4 DEF VoteRows
  <2> QED
    BY <1>1, <1>2, <2>1
<1> QED
  BY <1>3, <1>4

LEMMA RecordVoteStep ==
  ASSUME VotesInv, NEW user \in Members, NEW hash \in Hashes,
         RecordVote(user, hash) \/ RecordConfirmedVote(user, hash)
  PROVE  VotesInv'
<1>1. CASE RecordVote(user, hash)
  <2>1. PICK row \in VoteRows(user, hash) : nullifier_audit' = nullifier_audit \cup {row}
    BY <1>1 DEF RecordVote
  <2>2. row \in VoteRow /\ row.user = user
    BY <2>1, VoteRowsOK
  <2>3. \A r \in nullifier_audit : r.user # user
    BY <1>1 DEF RecordVote
  <2>4. version < 16 /\ UNCHANGED <<version, election_participations>>
    BY <1>1 DEF RecordVote, Unmigrated, VotesInv
  <2>5. IsFiniteSet(nullifier_audit')
    BY <2>1, FS_AddElement DEF VotesInv
  <2>6. \A r, s \in nullifier_audit' : r.user = s.user => r = s
    BY <2>1, <2>2, <2>3, <2>4 DEF VotesInv
  <2>7. nullifier_audit' \subseteq VoteRow
    BY <2>1, <2>2 DEF VotesInv
  <2> QED
    BY <2>4, <2>5, <2>6, <2>7 DEF VotesInv, TurnoutMatchesVotes
<1>2. CASE RecordConfirmedVote(user, hash)
  <2>1. PICK row \in VoteRows("nobody", hash) : nullifier_audit' = nullifier_audit \cup {row}
    BY <1>2 DEF RecordConfirmedVote
  <2>2. row \in VoteRow /\ row.hash = hash
    BY <2>1, VoteRowsOK
  <2>3. /\ row \notin nullifier_audit /\ user \notin election_participations
        /\ election_participations' = election_participations \cup {user}
        /\ version = 16 /\ version' = 16
    BY <1>2, <2>2 DEF RecordConfirmedVote, Unmigrated
  <2>4. /\ IsFiniteSet(nullifier_audit') /\ IsFiniteSet(election_participations')
        /\ Cardinality(nullifier_audit') = Cardinality(nullifier_audit) + 1
        /\ Cardinality(election_participations') = Cardinality(election_participations) + 1
    BY <2>1, <2>3, FS_AddElement DEF VotesInv
  <2>5. nullifier_audit' \subseteq VoteRow
    BY <2>1, <2>2 DEF VotesInv
  <2> QED
    BY <2>3, <2>4, <2>5 DEF VotesInv, TurnoutMatchesVotes
<1> QED
  BY <1>1, <1>2

LEMMA UpgradeVotes ==
  ASSUME VotesInv, Upgrade
  PROVE  VotesInv'
<1> USE DEF Up, votesRows
<1>1. CASE InitialSchema \/ EmailTables \/ EmailBody \/ EmailQueueState \/ RefreshTokens
  BY <1>1, VotesStay DEF InitialSchema, EmailTables, EmailBody, EmailQueueState, RefreshTokens
<1>2. CASE EnableRls \/ EmailLogWithoutTokens \/ ElectionChainSync
  BY <1>2, VotesStay DEF EnableRls, EmailLogWithoutTokens, ElectionChainSync
<1>3. CASE ElectionEphemeralSalt \/ VoteAttemptsTxTracking \/ LegalAcceptance \/ RetentionJobs
  BY <1>3, VotesStay DEF ElectionEphemeralSalt, VoteAttemptsTxTracking, LegalAcceptance,
                         RetentionJobs, Columns
<1>4. CASE AdminActionLog \/ RegistrationEmailVerification
  BY <1>4, VotesStay DEF AdminActionLog, RegistrationEmailVerification
<1> QED
  BY <1>1, <1>2, <1>3, <1>4, SourcesStep, SeparateStep DEF Upgrade

LEMMA DowngradeVotes ==
  ASSUME VotesInv, Downgrade
  PROVE  VotesInv'
<1> USE DEF Down, votesRows
<1>1. CASE InitialSchemaDown
  BY <1>1, NoVotesLeft DEF InitialSchemaDown
<1>2. CASE EmailTablesDown \/ EmailBodyDown \/ EmailQueueStateDown \/ RefreshTokensDown
  BY <1>2, VotesStay DEF EmailTablesDown, EmailBodyDown, EmailQueueStateDown, RefreshTokensDown
<1>3. CASE EnableRlsDown \/ EmailLogWithoutTokensDown \/ ElectionChainSyncDown
  BY <1>3, VotesStay DEF EnableRlsDown, EmailLogWithoutTokensDown, ElectionChainSyncDown
<1>4. CASE ColumnsDown \/ AdminActionLogDown \/ RegistrationEmailVerificationDown
  BY <1>4, VotesStay DEF ColumnsDown, Columns, AdminActionLogDown, RegistrationEmailVerificationDown
<1> QED
  BY <1>1, <1>2, <1>3, <1>4, SourcesStep DEF Downgrade

(* After 016, and after every vote that is recorded since, there are as    *)
(* many votes as people who voted.                                         *)
THEOREM TurnoutIsNumberOfVotes == MigrationsSpec => []TurnoutMatchesVotes
<1>1. MigrationsInit => VotesInv
  BY FS_EmptySet DEF MigrationsInit, VotesInv, TurnoutMatchesVotes
<1>2. VotesInv /\ [MigrationsNext]_migrationsVars => VotesInv'
  <2> SUFFICES ASSUME VotesInv, [MigrationsNext]_migrationsVars PROVE VotesInv'
    OBVIOUS
  <2>1. CASE UNCHANGED <<version, votesRows>>
    BY <2>1 DEF VotesInv, TurnoutMatchesVotes, votesRows
  <2>2. CASE WriteCandidates \/ RegisterElection \/ RequestAccess
    BY <2>1, <2>2 DEF WriteCandidates, RegisterElection, RequestAccess, Unmigrated, votesRows
  <2>3. CASE EnqueueMail \/ SendMail \/ UseLink
    BY <2>1, <2>3 DEF EnqueueMail, SendMail, UseLink, Unmigrated
  <2>4. CASE UNCHANGED migrationsVars
    BY <2>1, <2>4 DEF migrationsVars, votesRows
  <2> QED
    BY <2>2, <2>3, <2>4, UpgradeVotes, DowngradeVotes, RecordVoteStep DEF MigrationsNext
<1>3. VotesInv => TurnoutMatchesVotes
  BY DEF VotesInv
<1> QED
  BY <1>1, <1>2, <1>3, PTL DEF MigrationsSpec

(* Whatever the positions were, a candidate's new one is the number of     *)
(* those before it, and of two the candidates before the first are fewer.  *)
LEMMA RenumberedUnique ==
  ASSUME position \in [Paper -> Nat]
  PROVE  Renumbered \in [Paper -> Nat] /\ UniquePositions(Renumbered)
<1> DEFINE Before(c) == {d \in Paper : \/ position[d] < position[c]
                                       \/ position[d] = position[c] /\ d < c}
<1>1. Paper \subseteq Nat /\ IsFiniteSet(Paper)
  BY MigrationsAssumption
<1>2. \A c \in Paper : IsFiniteSet(Before(c)) /\ Cardinality(Before(c)) \in Nat
  <2> TAKE c \in Paper
  <2>1. Before(c) \subseteq Paper
    OBVIOUS
  <2> QED
    BY <1>1, <2>1, FS_Subset, FS_CardinalityType
<1>3. ASSUME NEW c \in Paper, NEW d \in Paper, c \in Before(d)
      PROVE  Cardinality(Before(c)) < Cardinality(Before(d))
  <2>1. position[c] \in Nat /\ position[d] \in Nat /\ c \in Nat /\ d \in Nat
    BY <1>1
  <2>2. Before(c) \subseteq Before(d)
    <3> SUFFICES ASSUME NEW e \in Paper, e \in Before(c) PROVE e \in Before(d)
      OBVIOUS
    <3>1. position[e] \in Nat /\ e \in Nat
      BY <1>1
    <3> QED
      BY <1>3, <2>1, <3>1
  <2>3. c \notin Before(c)
    BY <2>1
  <2>4. Before(c) # Before(d)
    BY <1>3, <2>3
  <2> HIDE DEF Before
  <2>5. IsFiniteSet(Before(d)) /\ Cardinality(Before(c)) \in Nat /\ Cardinality(Before(d)) \in Nat
    BY <1>2
  <2>6. /\ Cardinality(Before(c)) <= Cardinality(Before(d))
        /\ Cardinality(Before(c)) = Cardinality(Before(d)) => Before(c) = Before(d)
    BY <2>2, <2>5, FS_Subset
  <2> QED
    BY <2>4, <2>5, <2>6
<1>4. ASSUME NEW c \in Paper, NEW d \in Paper, c # d
      PROVE  c \in Before(d) \/ d \in Before(c)
  <2>1. position[c] \in Nat /\ position[d] \in Nat /\ c \in Nat /\ d \in Nat
    BY <1>1
  <2> QED
    BY <1>4, <2>1
<1>5. Renumbered = [c \in Paper |-> Cardinality(Before(c))]
  BY DEF Renumbered
<1> HIDE DEF Before
<1>6. Renumbered \in [Paper -> Nat]
  BY <1>2, <1>5
<1>7. ASSUME NEW c \in Paper, NEW d \in Paper, c # d
      PROVE  Renumbered[c] # Renumbered[d]
  BY <1>2, <1>3, <1>4, <1>5, <1>7
<1> QED
  BY <1>6, <1>7 DEF UniquePositions

MailRow == [status : Statuses, exhausted : BOOLEAN, body : {"none", "plain", "token"},
            template_data : BOOLEAN]

(* The rows have the values of their version: before 004 and before 015    *)
(* none that these migrations bring in.                                    *)
RowsInv ==
    /\ version \in 0 .. 16
    /\ position \in [Paper -> Nat]
    /\ email_log \in MailRow
    /\ version < 4 => email_log.status \in FirstStatuses
    /\ request \in FirstRequests \cup {"unverified"}
    /\ version < 15 => request \in FirstRequests

LEMMA RowsFit == RowsInv => SchemaMoves
<1> SUFFICES ASSUME RowsInv PROVE SchemaMoves
  OBVIOUS
<1>1. email_log.status \in Statuses /\ Unqueued(email_log.status) \in FirstStatuses
  BY DEF RowsInv, MailRow, Statuses, Unqueued, FirstStatuses
<1>2. UniquePositions(Renumbered)
  BY RenumberedUnique DEF RowsInv
<1>3. request \in FirstRequests \cup {"unverified"} /\ Verified \in FirstRequests
  BY DEF RowsInv, Verified, FirstRequests
<1>4. version < 15 => version + 1 # 16
  BY DEF RowsInv
<1> QED
  BY <1>1, <1>2, <1>3, <1>4 DEF SchemaMoves, Fits, FitsBack

LEMMA RowsStay ==
  ASSUME RowsInv, UNCHANGED <<paperRows, mailRows, request>>, version' \in 0 .. 16,
         version' >= version
  PROVE  RowsInv'
BY DEF RowsInv, paperRows, mailRows

LEMMA UpgradeRows ==
  ASSUME RowsInv, Upgrade
  PROVE  RowsInv'
<1> USE DEF Up
<1>1. CASE InitialSchema \/ EmailTables \/ EmailBody \/ RefreshTokens \/ EnableRls \/ ElectionChainSync
  BY <1>1, RowsStay DEF InitialSchema, EmailTables, EmailBody, RefreshTokens, EnableRls, ElectionChainSync
<1>2. CASE ElectionEphemeralSalt \/ VoteAttemptsTxTracking \/ LegalAcceptance \/ RetentionJobs
  BY <1>2, RowsStay DEF ElectionEphemeralSalt, VoteAttemptsTxTracking, LegalAcceptance,
                        RetentionJobs, Columns
<1>3. CASE AdminActionLog \/ SeparateParticipationFromVotes
  BY <1>3, RowsStay DEF AdminActionLog, SeparateParticipationFromVotes
<1>4. CASE EmailQueueState
  <2>1. Requeued(email_log.status) \in Statuses
    BY DEF RowsInv, MailRow, Requeued, Statuses, FirstStatuses
  <2>2. email_log' \in MailRow
    BY <1>4, <2>1 DEF RowsInv, MailRow, EmailQueueState
  <2> QED
    BY <1>4, <2>2 DEF EmailQueueState, RowsInv, paperRows
<1>5. CASE EmailLogWithoutTokens
  <2>1. email_log' \in MailRow
    BY <1>5 DEF RowsInv, MailRow, EmailLogWithoutTokens, Emptied, Discarded, Statuses, FirstStatuses
  <2> QED
    BY <1>5, <2>1 DEF EmailLogWithoutTokens, RowsInv, paperRows
<1>6. CASE ChainContractAndVoteSource
  BY <1>6, RenumberedUnique DEF ChainContractAndVoteSource, RowsInv, mailRows
<1>7. CASE RegistrationEmailVerification
  BY <1>7 DEF RegistrationEmailVerification, RowsInv, paperRows, mailRows
<1> QED
  BY <1>1, <1>2, <1>3, <1>4, <1>5, <1>6, <1>7 DEF Upgrade

LEMMA DowngradeRows ==
  ASSUME RowsInv, Downgrade
  PROVE  RowsInv'
<1> USE DEF Down
<1>1. CASE EnableRlsDown \/ RefreshTokensDown \/ ChainContractAndVoteSourceDown
  BY <1>1 DEF EnableRlsDown, RefreshTokensDown, ChainContractAndVoteSourceDown, RowsInv,
              paperRows, mailRows
<1>2. CASE ColumnsDown \/ AdminActionLogDown \/ ElectionChainSyncDown
  BY <1>2 DEF ColumnsDown, Columns, AdminActionLogDown, ElectionChainSyncDown, RowsInv,
              paperRows, mailRows
<1>3. CASE InitialSchemaDown
  BY <1>3 DEF InitialSchemaDown, RowsInv, mailRows, FirstRequests
<1>4. CASE EmailTablesDown
  BY <1>4 DEF EmailTablesDown, RowsInv, MailRow, NoMail, Statuses, FirstStatuses, paperRows
<1>5. CASE EmailBodyDown \/ EmailLogWithoutTokensDown
  <2>1. email_log' \in MailRow /\ email_log'.status = email_log.status
    BY <1>5 DEF EmailBodyDown, EmailLogWithoutTokensDown, RowsInv, MailRow
  <2> QED
    BY <1>5, <2>1 DEF EmailBodyDown, EmailLogWithoutTokensDown, RowsInv, paperRows
<1>6. CASE EmailQueueStateDown
  <2>1. Unqueued(email_log.status) \in FirstStatuses
    BY DEF RowsInv, MailRow, Unqueued, Statuses, FirstStatuses
  <2>2. email_log' \in MailRow /\ email_log'.status \in FirstStatuses
    BY <1>6, <2>1 DEF EmailQueueStateDown, RowsInv, MailRow, Statuses
  <2> QED
    BY <1>6, <2>2 DEF EmailQueueStateDown, RowsInv, paperRows
<1>7. CASE RegistrationEmailVerificationDown
  <2>1. Verified \in FirstRequests
    BY DEF RowsInv, Verified, FirstRequests
  <2> QED
    BY <1>7, <2>1 DEF RegistrationEmailVerificationDown, RowsInv, paperRows, mailRows
<1> QED
  BY <1>1, <1>2, <1>3, <1>4, <1>5, <1>6, <1>7 DEF Downgrade

LEMMA MailWritesRows ==
  ASSUME RowsInv, EnqueueMail \/ SendMail
  PROVE  RowsInv'
<1>1. CASE EnqueueMail
  <2>1. email_log' \in MailRow /\ email_log'.status \in FirstStatuses
    BY <1>1 DEF EnqueueMail, NoMail, MailRow, Statuses, FirstStatuses
  <2> QED
    BY <1>1, <2>1 DEF EnqueueMail, Unmigrated, RowsInv, paperRows
<1>2. CASE SendMail
  <2>1. PICK status \in (IF version < 4 THEN {"sent", "failed", "skipped"}
                         ELSE {"sending", "queued"} \cup Final),
             exhausted \in BOOLEAN :
             email_log' = Trimmed([email_log EXCEPT !.status = status, !.exhausted = exhausted])
    BY <1>2 DEF SendMail
  <2> DEFINE sent == [email_log EXCEPT !.status = status, !.exhausted = exhausted]
  <2>2. status \in Statuses /\ (version < 4 => status \in FirstStatuses)
    BY <2>1 DEF Final, Statuses, FirstStatuses
  <2>3. sent \in MailRow /\ sent.status = status
    BY <2>1, <2>2 DEF RowsInv, MailRow
  <2> HIDE DEF sent
  <2>4. Trimmed(sent) \in MailRow /\ Trimmed(sent).status = status
    BY <2>3 DEF Trimmed, Emptied, MailRow
  <2>5. email_log' = Trimmed(sent)
    BY <2>1 DEF sent
  <2> QED
    BY <1>2, <2>2, <2>4, <2>5 DEF SendMail, Unmigrated, RowsInv, paperRows
<1> QED
  BY <1>1, <1>2

LEMMA WritesRows ==
  ASSUME RowsInv, MigrationsNext, ~Upgrade, ~Downgrade
  PROVE  RowsInv'
<1> USE DEF Unmigrated
<1>1. ASSUME NEW u \in Members, NEW h \in Hashes, RecordVote(u, h) \/ RecordConfirmedVote(u, h)
      PROVE  RowsInv'
  BY <1>1 DEF RecordVote, RecordConfirmedVote, RowsInv, paperRows, mailRows
<1>2. CASE WriteCandidates
  <2>1. Cardinality(Paper) \in Nat
    BY MigrationsAssumption, FS_CardinalityType
  <2>2. position' \in [Paper -> Nat]
    BY <1>2, <2>1 DEF WriteCandidates
  <2> QED
    BY <1>2, <2>2 DEF WriteCandidates, RowsInv, mailRows
<1>3. CASE RegisterElection \/ UseLink
  BY <1>3 DEF RegisterElection, UseLink, RowsInv, paperRows, mailRows
<1>4. CASE RequestAccess
  BY <1>4 DEF RequestAccess, RowsInv, FirstRequests, paperRows, mailRows
<1> QED
  BY <1>1, <1>2, <1>3, <1>4, MailWritesRows DEF MigrationsNext

(* Whatever rows the code of a version leaves, each migration below 016    *)
(* can be applied and undone: what it does to the rows before it adds its  *)
(* constraint makes them satisfy it, however many candidates had one       *)
(* position.                                                               *)
THEOREM MigrationsNeverStop == MigrationsSpec => []SchemaMoves
<1>1. MigrationsInit => RowsInv
  BY DEF MigrationsInit, RowsInv, MailRow, NoMail, Statuses, FirstStatuses, FirstRequests
<1>2. RowsInv /\ [MigrationsNext]_migrationsVars => RowsInv'
  <2> SUFFICES ASSUME RowsInv, [MigrationsNext]_migrationsVars PROVE RowsInv'
    OBVIOUS
  <2>1. CASE UNCHANGED migrationsVars
    BY <2>1 DEF migrationsVars, RowsInv, paperRows, mailRows
  <2> QED
    BY <2>1, UpgradeRows, DowngradeRows, WritesRows
<1>3. RowsInv => SchemaMoves
  BY RowsFit
<1> QED
  BY <1>1, <1>2, <1>3, PTL DEF MigrationsSpec

-------------------------------------------------------------------------------
(* The start on a file of SQLite: initDatabase.                            *)

SqliteStartSpec == SqliteStartInit /\ [][SqliteStartNext]_sqliteStartVars

(* The steps by their numbers.                                             *)
Numbers == [tables |-> 1, columns |-> 2, sessions |-> 3, admins |-> 4, mail |-> 5, queue |-> 6,
            requeue |-> 7, links |-> 8, actions |-> 9, template |-> 10, find |-> 11, mark |-> 12,
            discard |-> 13, empty |-> 14, chain |-> 15, votes |-> 16, participations |-> 17,
            copy |-> 18, drop |-> 19, rename |-> 20, commit |-> 21]

LEMMA StepsInOrder ==
  Len(Steps) = 21 /\ DOMAIN Steps = 1 .. 21 /\ \A i \in 1 .. 21 : Numbers[Steps[i]] = i
<1>1. Len(Steps) = 21 /\ DOMAIN Steps = 1 .. 21
  BY DEF Steps
<1>2. /\ Numbers[Steps[1]] = 1 /\ Numbers[Steps[2]] = 2 /\ Numbers[Steps[3]] = 3
      /\ Numbers[Steps[4]] = 4 /\ Numbers[Steps[5]] = 5 /\ Numbers[Steps[6]] = 6
  BY DEF Steps, Numbers
<1>3. /\ Numbers[Steps[7]] = 7 /\ Numbers[Steps[8]] = 8 /\ Numbers[Steps[9]] = 9
      /\ Numbers[Steps[10]] = 10 /\ Numbers[Steps[11]] = 11 /\ Numbers[Steps[12]] = 12
  BY DEF Steps, Numbers
<1>4. /\ Numbers[Steps[13]] = 13 /\ Numbers[Steps[14]] = 14 /\ Numbers[Steps[15]] = 15
      /\ Numbers[Steps[16]] = 16 /\ Numbers[Steps[17]] = 17 /\ Numbers[Steps[18]] = 18
  BY DEF Steps, Numbers
<1>5. /\ Numbers[Steps[19]] = 19 /\ Numbers[Steps[20]] = 20 /\ Numbers[Steps[21]] = 21
  BY DEF Steps, Numbers
<1> QED
  BY <1>1, <1>2, <1>3, <1>4, <1>5

LEMMA StepNumbers ==
  /\ AtStep("tables") => boot.at = 1
  /\ AtStep("columns") => boot.at = 2
  /\ AtStep("sessions") => boot.at = 3
  /\ AtStep("admins") => boot.at = 4
  /\ AtStep("mail") => boot.at = 5
  /\ AtStep("queue") => boot.at = 6
  /\ AtStep("requeue") => boot.at = 7
  /\ AtStep("links") => boot.at = 8
  /\ AtStep("actions") => boot.at = 9
  /\ AtStep("template") => boot.at = 10
  /\ AtStep("find") => boot.at = 11
  /\ AtStep("mark") => boot.at = 12
  /\ AtStep("discard") => boot.at = 13
  /\ AtStep("empty") => boot.at = 14
  /\ AtStep("chain") => boot.at = 15
  /\ AtStep("votes") => boot.at = 16
  /\ AtStep("participations") => boot.at = 17
  /\ AtStep("copy") => boot.at = 18
  /\ AtStep("drop") => boot.at = 19
  /\ AtStep("rename") => boot.at = 20
  /\ AtStep("commit") => boot.at = 21
BY StepsInOrder DEF AtStep, Numbers

Row1   == [of : Voters, hash : Ballots, named : BOOLEAN]
Tables == [form : {"absent", "old", "new"}, rows : SUBSET Row1, new : SUBSET Row1,
           participations : SUBSET Voters]
Mail   == [status : {"none", "queued", "sending", "sent", "failed", "dead", "skipped"},
           exhausted : BOOLEAN, body : {"none", "token"}, template : BOOLEAN]

StartTypeOK ==
    /\ boot \in [at : 0 .. 22, leaked : BOOLEAN]
    /\ missed \in {"never", "before", "now"}
    /\ outbox \in Mail /\ blocks \subseteq Blocks
    /\ disk \in Tables /\ work \in Tables
    /\ voted \subseteq Row1 /\ \A v \in voted : v.named

VotersIn(votes) == {v.of : v \in votes}

(* The rows are the votes, of each hash one, without their voters.         *)
Counted(rows) == \E kept \in OnePerHash(voted) : rows = {Nameless(v) : v \in kept}

(* The votes without their voters, and the voters without their votes.     *)
Separated(t) ==
    t.form = "new" /\ Counted(t.rows) /\ t.participations = VotersIn(voted)

(* The tables as committed, and how far the transaction has come.          *)
VotesOK ==
    /\ disk.form = "new" => Separated(disk)
    /\ disk.form = "old" => disk.rows = voted /\ disk.participations = {}
    /\ disk.form = "absent" => voted = {} /\ disk.participations = {} /\ boot.at \in {0, 1}
    /\ boot.at \notin 17 .. 21 => work = disk
    /\ boot.at \in 17 .. 21 => disk.form = "old"
    /\ boot.at \in 17 .. 18 => work.rows = voted
    /\ boot.at = 17 => work.participations = {}
    /\ boot.at \in 18 .. 20 => work.participations = VotersIn(voted)
    /\ boot.at \in 19 .. 20 => Counted(work.new)
    /\ boot.at = 21 => Separated(work)
    /\ boot.at = 22 => disk.form = "new"

(* What a start that swallowed no error has added and repaired so far.     *)
BlocksOK ==
    missed # "now" =>
        /\ boot.at > 1 => "attempts" \in blocks
        /\ boot.at > 2 => "columns" \in blocks
        /\ boot.at > 3 => "sessions" \in blocks
        /\ boot.at > 5 => "mail" \in blocks
        /\ boot.at > 6 => "queue" \in blocks
        /\ boot.at > 7 => outbox.status # "failed"
        /\ boot.at > 8 => "links" \in blocks
        /\ boot.at > 9 => "actions" \in blocks
        /\ boot.at > 10 => "template" \in blocks
        /\ boot.at > 15 => "chain" \in blocks

(* A link that is still good has its text in the body, where it is found.  *)
LinksOK ==
    missed = "never" /\ exposed /\ resetLink = "live" =>
        outbox.body = "token" /\ boot.at <= 12 /\ (boot.at = 12 => boot.leaked)

StartInv == StartTypeOK /\ VotesOK /\ BlocksOK /\ LinksOK

LEMMA PassesOn ==
  ASSUME StartInv, NEW step, Passes(step)
  PROVE  /\ boot'.at = boot.at + 1 /\ boot'.leaked = boot.leaked /\ missed' = missed
         /\ boot.at \in 1 .. 21 /\ boot' \in [at : 0 .. 22, leaked : BOOLEAN]
<1>1. boot' = [boot EXCEPT !.at = boot.at + 1] /\ missed' = missed /\ boot.at \in 1 .. 21
  BY StepsInOrder DEF Passes, AtStep
<1>2. boot \in [at : 0 .. 22, leaked : BOOLEAN]
  BY DEF StartInv, StartTypeOK
<1> QED
  BY <1>1, <1>2

(* A step that does not touch the votes, before they are separated, when   *)
(* the backend serves, or to begin again.                                  *)
LEMMA VotesStay1 ==
  ASSUME StartInv, UNCHANGED votesTables,
         \/ boot'.at = boot.at
         \/ boot.at = 0 /\ boot'.at = 1
         \/ boot.at \in 2 .. 15 /\ boot'.at \in 3 .. 16
  PROVE  VotesOK'
BY DEF StartInv, VotesOK, votesTables, Separated, Counted, OnePerHash

LEMMA BlockStep1 ==
  ASSUME StartInv,
         \/ AddColumns \/ AddSessions \/ AddEmailLog \/ AddQueueColumns
         \/ AddResetTokens \/ AddActionLog \/ AddTemplateData \/ AddChainColumns
  PROVE  StartInv'
<1>1. PICK step \in {"columns", "mail", "links", "queue", "sessions", "template", "chain", "actions"} :
         /\ Passes(step) /\ blocks' = blocks \cup {step}
         /\ UNCHANGED <<approved, letters, votesTables>>
  BY DEF AddColumns, AddSessions, AddEmailLog, AddQueueColumns, AddResetTokens, AddActionLog,
         AddTemplateData, AddChainColumns, AddBlock
<1>2. /\ boot'.at = boot.at + 1 /\ boot'.leaked = boot.leaked /\ missed' = missed
      /\ boot.at \in 1 .. 21 /\ boot' \in [at : 0 .. 22, leaked : BOOLEAN] /\ AtStep(step)
  BY <1>1, PassesOn DEF Passes
<1>3. step \in {"columns", "mail", "links", "queue", "sessions", "template", "chain", "actions"}
  BY <1>1
<1>4. /\ step = "columns" => boot.at = 2
      /\ step = "sessions" => boot.at = 3
      /\ step = "mail" => boot.at = 5
      /\ step = "queue" => boot.at = 6
      /\ step = "links" => boot.at = 8
      /\ step = "actions" => boot.at = 9
      /\ step = "template" => boot.at = 10
      /\ step = "chain" => boot.at = 15
  BY <1>2, StepNumbers
<1>5. StartTypeOK'
  <2>1. step \in Blocks
    <3>1. /\ DOMAIN Releases = 1 .. 10 /\ Releases[2] = "columns" /\ Releases[3] = "mail"
          /\ Releases[4] = "links" /\ Releases[5] = "queue" /\ Releases[6] = "sessions"
          /\ Releases[7] = "template" /\ Releases[8] = "chain" /\ Releases[10] = "actions"
      BY DEF Releases
    <3> QED
      BY <1>3, <3>1 DEF Blocks
  <2> QED
    BY <1>1, <1>2, <2>1 DEF StartInv, StartTypeOK, letters, votesTables
<1>6. boot.at \in 2 .. 15
  BY <1>3, <1>4
<1>7. /\ UNCHANGED votesTables /\ outbox' = outbox /\ resetLink' = resetLink /\ exposed' = exposed
  BY <1>1 DEF letters
<1>8. boot'.at \in 3 .. 16
  BY <1>2, <1>6
<1>9. VotesOK'
  BY <1>6, <1>7, <1>8, VotesStay1
<1>10. /\ blocks \subseteq blocks' /\ step \in blocks'
  BY <1>1
<1>11. /\ boot.at = 2 => step = "columns"
       /\ boot.at = 3 => step = "sessions"
       /\ boot.at = 5 => step = "mail"
       /\ boot.at = 6 => step = "queue"
       /\ boot.at = 8 => step = "links"
       /\ boot.at = 9 => step = "actions"
       /\ boot.at = 10 => step = "template"
       /\ boot.at = 15 => step = "chain"
       /\ boot.at # 7 /\ boot.at # 12 /\ boot.at # 11
  BY <1>3, <1>4
<1>12. BlocksOK'
  BY <1>2, <1>6, <1>7, <1>10, <1>11 DEF StartInv, BlocksOK
<1>13. LinksOK'
  BY <1>2, <1>6, <1>7, <1>11 DEF StartInv, LinksOK
<1> QED
  BY <1>5, <1>9, <1>12, <1>13 DEF StartInv

(* The steps that repair rows: of the administrators, and of the outbox.   *)
LEMMA RepairStep ==
  ASSUME StartInv, ApproveAdmins \/ Requeue \/ FindLinks \/ MarkUsed \/ DiscardLinks \/ EmptyBodies
  PROVE  StartInv'
<1>1. boot \in [at : 0 .. 22, leaked : BOOLEAN] /\ outbox \in Mail
  BY DEF StartInv, StartTypeOK
<1>2. UNCHANGED <<blocks, disk, work, voted, exposed, missed>>
  BY DEF ApproveAdmins, Requeue, FindLinks, MarkUsed, DiscardLinks, EmptyBodies, Passes, Letter,
         letters, votesTables
<1>3. ASSUME NEW at \in {4, 7, 11, 12, 13, 14}, boot.at = at, boot'.at = at + 1,
             boot' \in [at : 0 .. 22, leaked : BOOLEAN], outbox' \in Mail,
             at = 7 \/ outbox.status # "failed" => outbox'.status # "failed",
             at < 12 => outbox'.body = outbox.body /\ resetLink' = resetLink,
             at = 11 /\ outbox.body = "token" => boot'.leaked,
             at = 12 /\ boot.leaked => resetLink' # "live",
             resetLink' = "live" => resetLink = "live"
      PROVE  StartInv'
  <2>1. StartTypeOK'
    BY <1>2, <1>3 DEF StartInv, StartTypeOK
  <2>2. VotesOK'
    <3>1. UNCHANGED votesTables /\ boot.at \in 2 .. 15 /\ boot'.at \in 3 .. 16
      BY <1>2, <1>3 DEF votesTables
    <3> QED
      BY <3>1, VotesStay1
  <2>3. BlocksOK'
    BY <1>2, <1>3 DEF StartInv, BlocksOK
  <2>4. LinksOK'
    BY <1>2, <1>3 DEF StartInv, LinksOK
  <2> QED
    BY <2>1, <2>2, <2>3, <2>4 DEF StartInv
<1>4. CASE ApproveAdmins
  <2>1. Passes("admins") /\ UNCHANGED <<outbox, resetLink>>
    BY <1>4 DEF ApproveAdmins, letters
  <2>2. boot.at = 4
    BY <2>1, StepNumbers DEF Passes
  <2> QED
    BY <1>1, <1>3, <2>1, <2>2, PassesOn
<1>5. CASE Requeue
  <2>1. /\ Passes("requeue") /\ UNCHANGED resetLink
        /\ outbox' = IF outbox.status # "failed" THEN outbox
                     ELSE [outbox EXCEPT !.status = IF outbox.exhausted THEN "dead" ELSE "queued"]
    BY <1>5 DEF Requeue, Letter
  <2>2. boot.at = 7
    BY <2>1, StepNumbers DEF Passes
  <2>3. outbox' \in Mail /\ outbox'.status # "failed" /\ outbox'.body = outbox.body
    BY <1>1, <2>1 DEF Mail
  <2> QED
    BY <1>3, <2>1, <2>2, <2>3, PassesOn
<1>6. CASE FindLinks
  <2>1. PICK leaked \in BOOLEAN : leaked = (outbox.body = "token")
    OBVIOUS
  <2>2. AtStep("find") /\ boot' = [at |-> boot.at + 1, leaked |-> leaked] /\ UNCHANGED letters
    BY <1>6, <2>1 DEF FindLinks
  <2>3. boot.at = 11
    BY <2>2, StepNumbers
  <2>4. leaked = TRUE \/ outbox.body # "token"
    BY <2>1
  <2>5. /\ boot' \in [at : 0 .. 22, leaked : BOOLEAN] /\ boot'.at = 12
        /\ boot'.leaked \/ outbox.body # "token"
    BY <2>2, <2>3, <2>4
  <2>6. UNCHANGED <<outbox, resetLink>>
    BY <2>2 DEF letters
  <2> QED
    BY <1>1, <1>3, <2>3, <2>5, <2>6
<1>7. CASE MarkUsed
  <2>1. /\ Passes("mark") /\ UNCHANGED outbox
        /\ resetLink' = IF boot.leaked /\ resetLink = "live" THEN "used" ELSE resetLink
    BY <1>7 DEF MarkUsed
  <2>2. boot.at = 12
    BY <2>1, StepNumbers DEF Passes
  <2> QED
    BY <1>1, <1>3, <2>1, <2>2, PassesOn
<1>8. CASE DiscardLinks
  <2>1. /\ Passes("discard") /\ UNCHANGED resetLink
        /\ outbox' = outbox \/ outbox' = [outbox EXCEPT !.status = "dead"]
    BY <1>8 DEF DiscardLinks, Letter
  <2>2. boot.at = 13
    BY <2>1, StepNumbers DEF Passes
  <2>3. outbox' \in Mail /\ (outbox.status # "failed" => outbox'.status # "failed")
    BY <1>1, <2>1 DEF Mail
  <2> QED
    BY <1>3, <2>1, <2>2, <2>3, PassesOn
<1>9. CASE EmptyBodies
  <2>1. /\ Passes("empty") /\ UNCHANGED resetLink
        /\ outbox' = outbox \/ outbox' = [outbox EXCEPT !.body = "none"]
    BY <1>9 DEF EmptyBodies, Letter, WithoutBody
  <2>2. boot.at = 14
    BY <2>1, StepNumbers DEF Passes
  <2>3. outbox' \in Mail /\ outbox'.status = outbox.status
    BY <1>1, <2>1 DEF Mail
  <2> QED
    BY <1>3, <2>1, <2>2, <2>3, PassesOn
<1> QED
  BY <1>4, <1>5, <1>6, <1>7, <1>8, <1>9

(* A start begins, an error is swallowed, or the process ends.             *)
LEMMA StartAndEnd ==
  ASSUME StartInv, StartBackend \/ Swallowed \/ Exit
  PROVE  StartInv'
<1>1. boot \in [at : 0 .. 22, leaked : BOOLEAN]
  BY DEF StartInv, StartTypeOK
<1>2. UNCHANGED <<outbox, resetLink, exposed, blocks, disk, voted>>
  BY DEF StartBackend, Swallowed, Exit, letters, votesTables
<1>3. CASE StartBackend
  <2>1. /\ boot.at = 0 /\ boot' = [at |-> 1, leaked |-> FALSE] /\ UNCHANGED work
        /\ missed' \in {"never", "before"} /\ (missed' = "never" => missed = "never")
    BY <1>3 DEF StartBackend, Stopped, votesTables
  <2>2. boot' \in [at : 0 .. 22, leaked : BOOLEAN] /\ boot'.at = 1
    BY <2>1
  <2>3. StartTypeOK' /\ VotesOK'
    BY <1>2, <2>1, <2>2, VotesStay1 DEF StartInv, StartTypeOK, votesTables
  <2> QED
    BY <1>2, <2>1, <2>2, <2>3 DEF StartInv, BlocksOK, LinksOK
<1>4. CASE Swallowed
  <2>1. PICK step \in {Steps[i] : i \in DOMAIN Steps} \ (Separating \cup {"tables"}) :
           /\ AtStep(step)
           /\ boot' = [boot EXCEPT !.at = IF step \in Scrubbing THEN Numbered("chain") ELSE @ + 1]
    BY <1>4 DEF Swallowed
  <2>2. boot.at \in 1 .. 21 /\ Numbers[step] = boot.at
    BY <2>1, StepsInOrder DEF AtStep
  <2>3. boot.at \in 2 .. 15
    <3>1. step \notin {"tables", "votes", "participations", "copy", "drop", "rename", "commit"}
      BY <2>1 DEF Separating
    <3>2. \A i \in 1 .. 21 : i \in {1, 16, 17, 18, 19, 20, 21} => Steps[i] \in
             {"tables", "votes", "participations", "copy", "drop", "rename", "commit"}
      BY DEF Steps
    <3>3. boot.at \notin {1, 16, 17, 18, 19, 20, 21}
      BY <2>1, <2>2, <3>1, <3>2 DEF AtStep
    <3> QED
      BY <2>2, <3>3
  <2>4. Numbered("chain") = 15
    <3>1. Steps[15] = "chain" /\ Numbers["chain"] = 15
      BY DEF Steps, Numbers
    <3>2. \A i \in DOMAIN Steps : Steps[i] = "chain" <=> i = 15
      BY <3>1, StepsInOrder
    <3> QED
      BY <3>2, StepsInOrder DEF Numbered
  <2>5. PICK next \in {15, boot.at + 1} : boot' = [boot EXCEPT !.at = next]
    BY <2>1, <2>4
  <2>6. boot' \in [at : 0 .. 22, leaked : BOOLEAN] /\ boot'.at \in 3 .. 16
    BY <1>1, <2>3, <2>5
  <2>7. missed' = "now" /\ UNCHANGED votesTables
    BY <1>4 DEF Swallowed
  <2>8. StartTypeOK' /\ VotesOK'
    BY <1>2, <2>3, <2>6, <2>7, VotesStay1 DEF StartInv, StartTypeOK, votesTables
  <2> QED
    BY <2>7, <2>8 DEF StartInv, BlocksOK, LinksOK
<1>5. CASE Exit
  <2>1. /\ boot' = [at |-> 0, leaked |-> FALSE] /\ work' = disk /\ missed' = missed
    BY <1>5 DEF Exit
  <2>2. boot' \in [at : 0 .. 22, leaked : BOOLEAN] /\ boot'.at = 0
    BY <2>1
  <2>3. StartTypeOK'
    BY <1>2, <2>1, <2>2 DEF StartInv, StartTypeOK
  <2>4. VotesOK'
    BY <1>2, <2>1, <2>2 DEF StartInv, VotesOK, Separated, Counted
  <2> QED
    BY <1>2, <2>1, <2>2, <2>3, <2>4 DEF StartInv, BlocksOK, LinksOK
<1> QED
  BY <1>3, <1>4, <1>5

LEMMA NamelessRow ==
  ASSUME NEW r \in Row1
  PROVE  Nameless(r) \in Row1 /\ Nameless(r).of = r.of /\ Nameless(r).hash = r.hash
         /\ Nameless(r).named = FALSE
BY DEF Nameless, Row1

LEMMA TableTypes ==
  ASSUME StartInv
  PROVE  /\ disk \in Tables /\ work \in Tables /\ boot \in [at : 0 .. 22, leaked : BOOLEAN]
         /\ VotersIn(voted) \subseteq Voters /\ voted \subseteq Row1
         /\ \A kept \in OnePerHash(voted) : {Nameless(v) : v \in kept} \subseteq Row1
<1>1. voted \subseteq Row1
  BY DEF StartInv, StartTypeOK
<1>2. \A kept \in OnePerHash(voted) : {Nameless(v) : v \in kept} \subseteq Row1
  BY <1>1, NamelessRow DEF OnePerHash
<1>3. VotersIn(voted) \subseteq Voters
  BY <1>1 DEF VotersIn, Row1
<1> QED
  BY <1>1, <1>2, <1>3 DEF StartInv, StartTypeOK

LEMMA CreateTablesStep ==
  ASSUME StartInv, CreateTables
  PROVE  StartInv'
<1>1. /\ Passes("tables") /\ work' = disk'
      /\ disk' = IF disk.form = "absent" THEN [disk EXCEPT !.form = "new", !.rows = {}] ELSE disk
      /\ UNCHANGED <<outbox, resetLink, exposed, voted>>
      /\ "attempts" \in blocks' /\ blocks' \subseteq Blocks
  <2>1. "attempts" \in Blocks /\ "tracking" \in Blocks
    <3>1. Releases[1] = "attempts" /\ Releases[9] = "tracking" /\ DOMAIN Releases = 1 .. 10
      BY DEF Releases
    <3> QED
      BY <3>1 DEF Blocks
  <2> QED
    BY <2>1 DEF CreateTables, letters, StartInv, StartTypeOK
<1>2. /\ boot.at = 1 /\ boot'.at = 2 /\ missed' = missed /\ boot' \in [at : 0 .. 22, leaked : BOOLEAN]
  BY <1>1, PassesOn, StepNumbers DEF Passes
<1>3. disk' \in Tables /\ disk'.form # "absent" /\ (disk.form # "absent" => disk' = disk)
  BY <1>1, TableTypes DEF Tables
<1>4. disk.form = "absent" => Separated(disk)'
  <2> SUFFICES ASSUME disk.form = "absent" PROVE Separated(disk)'
    OBVIOUS
  <2>1. voted = {} /\ disk.participations = {}
    BY DEF StartInv, VotesOK
  <2>2. disk'.form = "new" /\ disk'.rows = {} /\ disk'.participations = {}
    BY <1>1, <2>1, TableTypes DEF Tables
  <2> QED
    BY <1>1, <2>1, <2>2 DEF Separated, Counted, OnePerHash, VotersIn
<1>5. StartTypeOK'
  BY <1>1, <1>2, <1>3 DEF StartInv, StartTypeOK
<1>6. VotesOK'
  BY <1>1, <1>2, <1>3, <1>4 DEF StartInv, VotesOK, Separated, Counted
<1> QED
  BY <1>1, <1>2, <1>5, <1>6 DEF StartInv, BlocksOK, LinksOK

(* The transaction that separates, one statement after another.            *)
LEMMA TransactionStep ==
  ASSUME StartInv, InTransaction, missed' = missed, boot' \in [at : 0 .. 22, leaked : BOOLEAN],
         boot.at \in 16 .. 21, boot'.at = boot.at + 1 \/ boot'.at = 22,
         disk' \in Tables, work' \in Tables, VotesOK'
  PROVE  StartInv'
<1>1. UNCHANGED <<blocks, outbox, resetLink, exposed, voted>>
  BY DEF InTransaction, letters
<1>2. StartTypeOK'
  BY <1>1 DEF StartInv, StartTypeOK
<1> QED
  BY <1>1, <1>2 DEF StartInv, BlocksOK, LinksOK

LEMMA SeparationStep ==
  ASSUME StartInv,
         \/ NothingToSeparate \/ BeginSeparation \/ InsertParticipations \/ CopyVotes
         \/ DropOld \/ Rename \/ CommitSeparation
  PROVE  StartInv'
<1>1. /\ disk \in Tables /\ work \in Tables /\ boot \in [at : 0 .. 22, leaked : BOOLEAN]
      /\ VotersIn(voted) \subseteq Voters
      /\ \A kept \in OnePerHash(voted) : {Nameless(v) : v \in kept} \subseteq Row1
  BY TableTypes
<1>2. VotesOK
  BY DEF StartInv
<1>3. UNCHANGED voted /\ InTransaction
  BY DEF NothingToSeparate, BeginSeparation, InsertParticipations, CopyVotes, DropOld, Rename,
         CommitSeparation, InTransaction
<1>4. CASE NothingToSeparate
  <2>1. /\ AtStep("votes") /\ disk.form # "old" /\ missed' = missed /\ UNCHANGED <<disk, work>>
        /\ boot' = [boot EXCEPT !.at = 22]
    BY <1>4, StepsInOrder DEF NothingToSeparate
  <2>2. boot.at = 16 /\ boot'.at = 22 /\ boot' \in [at : 0 .. 22, leaked : BOOLEAN]
    BY <1>1, <2>1, StepNumbers
  <2>3. VotesOK'
    BY <1>1, <1>2, <1>3, <2>1, <2>2 DEF VotesOK, Separated, Counted, Tables
  <2> QED
    BY <1>1, <1>3, <2>1, <2>2, <2>3, TransactionStep
<1>5. CASE BeginSeparation
  <2>1. Passes("votes") /\ disk.form = "old" /\ UNCHANGED <<disk, work>>
    BY <1>5 DEF BeginSeparation
  <2>2. boot.at = 16 /\ boot'.at = 17 /\ missed' = missed /\ boot' \in [at : 0 .. 22, leaked : BOOLEAN]
    BY <2>1, PassesOn, StepNumbers DEF Passes
  <2>3. VotesOK'
    BY <1>2, <1>3, <2>1, <2>2 DEF VotesOK, Separated, Counted
  <2> QED
    BY <1>1, <1>3, <2>1, <2>2, <2>3, TransactionStep
<1>6. CASE InsertParticipations
  <2>1. /\ Passes("participations") /\ UNCHANGED disk
        /\ work' = [work EXCEPT !.participations = @ \cup {r.of : r \in work.rows}]
    BY <1>6 DEF InsertParticipations, Executes1
  <2>2. /\ boot.at = 17 /\ boot'.at = 18 /\ missed' = missed
        /\ boot' \in [at : 0 .. 22, leaked : BOOLEAN]
    BY <2>1, PassesOn, StepNumbers DEF Passes
  <2>3. work' = [work EXCEPT !.participations = VotersIn(voted)]
    <3>1. work.rows = voted /\ work.participations = {}
      BY <1>2, <2>2 DEF VotesOK
    <3>2. work.participations \cup {r.of : r \in work.rows} = VotersIn(voted)
      BY <3>1 DEF VotersIn
    <3> QED
      BY <2>1, <3>2
  <2>4. work' \in Tables /\ work'.rows = work.rows /\ work'.participations = VotersIn(voted)
    BY <1>1, <2>3 DEF Tables
  <2>5. VotesOK'
    BY <1>2, <1>3, <2>1, <2>2, <2>4 DEF VotesOK, VotersIn, Separated, Counted
  <2> QED
    BY <1>1, <1>3, <2>1, <2>2, <2>4, <2>5, TransactionStep
<1>7. CASE CopyVotes
  <2>1. /\ Passes("copy") /\ UNCHANGED disk
        /\ \E kept \in OnePerHash(work.rows) : work' = [work EXCEPT !.new = {Nameless(r) : r \in kept}]
    BY <1>7 DEF CopyVotes, Executes1
  <2>2. boot.at = 18 /\ boot'.at = 19 /\ missed' = missed /\ boot' \in [at : 0 .. 22, leaked : BOOLEAN]
    BY <2>1, PassesOn, StepNumbers DEF Passes
  <2>3. PICK kept \in OnePerHash(voted) : work' = [work EXCEPT !.new = {Nameless(r) : r \in kept}]
    <3>1. work.rows = voted
      BY <1>2, <2>2 DEF VotesOK
    <3> QED
      BY <2>1, <3>1
  <2>4. /\ work' \in Tables /\ work'.participations = work.participations
        /\ work'.new = {Nameless(r) : r \in kept}
    BY <1>1, <2>3 DEF Tables
  <2>5. Counted(work.new)'
    BY <1>3, <2>3, <2>4 DEF Counted
  <2>6. VotesOK'
    BY <1>2, <1>3, <2>1, <2>2, <2>4, <2>5 DEF VotesOK, VotersIn, Separated, Counted
  <2> QED
    BY <1>1, <1>3, <2>1, <2>2, <2>4, <2>6, TransactionStep
<1>8. CASE DropOld
  <2>1. Passes("drop") /\ UNCHANGED disk /\ work' = [work EXCEPT !.form = "absent", !.rows = {}]
    BY <1>8 DEF DropOld, Executes1
  <2>2. boot.at = 19 /\ boot'.at = 20 /\ missed' = missed /\ boot' \in [at : 0 .. 22, leaked : BOOLEAN]
    BY <2>1, PassesOn, StepNumbers DEF Passes
  <2>3. work' \in Tables /\ work'.participations = work.participations /\ work'.new = work.new
    BY <1>1, <2>1 DEF Tables
  <2>4. VotesOK'
    BY <1>2, <1>3, <2>1, <2>2, <2>3 DEF VotesOK, VotersIn, Counted, Separated
  <2> QED
    BY <1>1, <1>3, <2>1, <2>2, <2>3, <2>4, TransactionStep
<1>9. CASE Rename
  <2>1. /\ Passes("rename") /\ UNCHANGED disk
        /\ work' = [work EXCEPT !.form = "new", !.rows = work.new, !.new = {}]
    BY <1>9 DEF Rename, Executes1
  <2>2. boot.at = 20 /\ boot'.at = 21 /\ missed' = missed /\ boot' \in [at : 0 .. 22, leaked : BOOLEAN]
    BY <2>1, PassesOn, StepNumbers DEF Passes
  <2>3. /\ work' \in Tables /\ work'.participations = work.participations
        /\ work'.rows = work.new /\ work'.form = "new"
    BY <1>1, <2>1 DEF Tables
  <2>4. Separated(work)'
    BY <1>2, <1>3, <2>2, <2>3 DEF VotesOK, Separated, Counted, VotersIn
  <2>5. VotesOK'
    BY <1>2, <1>3, <2>1, <2>2, <2>4 DEF VotesOK, Separated, Counted
  <2> QED
    BY <1>1, <1>3, <2>1, <2>2, <2>3, <2>5, TransactionStep
<1>10. CASE CommitSeparation
  <2>1. Passes("commit") /\ disk' = work /\ work' = work
    BY <1>10 DEF CommitSeparation
  <2>2. boot.at = 21 /\ boot'.at = 22 /\ missed' = missed /\ boot' \in [at : 0 .. 22, leaked : BOOLEAN]
    BY <2>1, PassesOn, StepNumbers DEF Passes
  <2>3. Separated(disk)' /\ disk'.form = "new"
    BY <1>2, <1>3, <2>1, <2>2 DEF VotesOK, Separated, Counted, VotersIn
  <2>4. VotesOK'
    BY <2>1, <2>2, <2>3 DEF VotesOK, Separated
  <2> QED
    BY <1>1, <1>3, <2>1, <2>2, <2>4, TransactionStep
<1> QED
  BY <1>4, <1>5, <1>6, <1>7, <1>8, <1>9, <1>10

(* The backend serves.                                                     *)
LEMMA ServeVotesStep ==
  ASSUME StartInv, NEW user \in Voters, NEW hash \in Ballots, RecordVoteSqlite(user, hash)
  PROVE  StartInv'
<1> DEFINE v == Signed(user, hash)
<1>0. v \in Row1 /\ v.of = user /\ v.hash = hash /\ v.named
  BY DEF Signed, Row1
<1>1. /\ boot.at = 22 /\ UNCHANGED <<boot, missed, blocks, outbox, resetLink, exposed>>
      /\ disk' = [disk EXCEPT !.participations = @ \cup {user},
                              !.rows = @ \cup {Nameless(v)}]
      /\ work' = disk' /\ voted' = voted \cup {v}
      /\ \A r \in disk.rows : r.hash # hash
  BY StepsInOrder DEF RecordVoteSqlite, Serving, Ready, letters
<1> HIDE DEF v
<1>2. disk \in Tables /\ disk.form = "new" /\ Separated(disk) /\ voted \subseteq Row1
      /\ \A u \in voted : u.named
  BY <1>1 DEF StartInv, StartTypeOK, VotesOK
<1>3. /\ disk' \in Tables /\ disk'.form = "new"
      /\ disk'.participations = disk.participations \cup {user}
      /\ disk'.rows = disk.rows \cup {Nameless(v)}
  <2>1. Nameless(v) \in Row1
    BY <1>0, NamelessRow
  <2> QED
    BY <1>1, <1>2, <2>1 DEF Tables
<1>4. Counted(disk.rows)' /\ VotersIn(voted') = VotersIn(voted) \cup {user}
  <2> DEFINE rows == disk.rows
  <2>1. Counted(rows) /\ \A r \in rows : r.hash # v.hash
    BY <1>0, <1>1, <1>2 DEF Separated
  <2>2. PICK kept \in OnePerHash(voted) : rows = {Nameless(u) : u \in kept}
    BY <2>1 DEF Counted
  <2>3. kept \subseteq voted /\ \A k \in kept : k.hash # v.hash
    <3>1. kept \subseteq voted
      BY <2>2 DEF OnePerHash
    <3>2. ASSUME NEW k \in kept PROVE k.hash # v.hash
      <4>1. Nameless(k) \in rows
        BY <2>2
      <4>2. Nameless(k).hash = k.hash
        BY <1>2, <3>1, NamelessRow
      <4> QED
        BY <2>1, <4>1, <4>2
    <3> QED
      BY <3>1, <3>2
  <2>4. kept \cup {v} \in OnePerHash(voted')
    BY <1>1, <2>2, <2>3 DEF OnePerHash
  <2>5. disk'.rows = {Nameless(u) : u \in kept \cup {v}}
    BY <1>3, <2>2
  <2> QED
    BY <1>0, <1>1, <1>3, <2>4, <2>5 DEF Counted, VotersIn
<1>5. Separated(disk)'
  BY <1>2, <1>3, <1>4 DEF Separated, Counted, VotersIn
<1>6. StartTypeOK'
  BY <1>0, <1>1, <1>2, <1>3 DEF StartInv, StartTypeOK
<1>7. VotesOK'
  BY <1>1, <1>3, <1>5 DEF VotesOK
<1> QED
  BY <1>1, <1>6, <1>7 DEF StartInv, BlocksOK, LinksOK

LEMMA ServeMailStep ==
  ASSUME StartInv, \/ EnqueueLetter \/ SendLetter \/ UseResetLink \/ WithdrawApproval
                   \/ UNCHANGED sqliteStartVars
  PROVE  StartInv'
<1>1. outbox \in Mail /\ UNCHANGED <<boot, missed, blocks, disk, work, voted>>
  BY DEF StartInv, StartTypeOK, EnqueueLetter, SendLetter, UseResetLink, WithdrawApproval, Serving,
         votesTables, sqliteStartVars
<1>2. VotesOK'
  BY <1>1, VotesStay1 DEF votesTables
<1>3. CASE EnqueueLetter
  <2>1. outbox' \in Mail /\ outbox'.status = "queued" /\ UNCHANGED <<resetLink, exposed>> /\ boot.at = 22
    <3>1. NoLetter \in Mail
      BY DEF NoLetter, Mail
    <3>2. outbox' = [NoLetter EXCEPT !.status = "queued", !.template = TRUE]
      BY <1>3 DEF EnqueueLetter
    <3>3. outbox' \in Mail /\ outbox'.status = "queued"
      BY <3>1, <3>2 DEF Mail
    <3> QED
      BY <1>3, <3>3, StepsInOrder DEF EnqueueLetter, Serving, Ready
  <2> QED
    BY <1>1, <1>2, <2>1 DEF StartInv, StartTypeOK, BlocksOK, LinksOK
<1>4. CASE SendLetter
  <2>1. PICK status \in {"queued", "sending", "sent", "dead", "skipped"} :
           outbox' = WithoutBody([outbox EXCEPT !.status = status])
    BY <1>4 DEF SendLetter
  <2>2. PICK m : m = [outbox EXCEPT !.status = status]
    OBVIOUS
  <2>3. m \in Mail /\ m.status = status
    BY <1>1, <2>1, <2>2 DEF Mail
  <2>4. outbox' = m \/ outbox' = [m EXCEPT !.body = "none"]
    BY <2>1, <2>2 DEF WithoutBody
  <2>5. outbox' \in Mail /\ outbox'.status # "failed"
    BY <2>3, <2>4 DEF Mail
  <2>6. boot.at = 22 /\ (exposed' = FALSE \/ UNCHANGED <<resetLink, exposed>>)
    BY <1>4, StepsInOrder DEF SendLetter, Serving, Ready
  <2> QED
    BY <1>1, <1>2, <2>5, <2>6 DEF StartInv, StartTypeOK, BlocksOK, LinksOK
<1>5. CASE UseResetLink \/ WithdrawApproval \/ UNCHANGED sqliteStartVars
  <2>1. UNCHANGED <<outbox, exposed>> /\ (resetLink' = "used" \/ resetLink' = resetLink)
    BY <1>5 DEF UseResetLink, WithdrawApproval, sqliteStartVars, letters
  <2> QED
    BY <1>1, <1>2, <2>1 DEF StartInv, StartTypeOK, BlocksOK, LinksOK
<1> QED
  BY <1>3, <1>4, <1>5

(* A start of the server leaves the file of SQLite whole, from whatever the*)
(* starts before it left behind: each step of initDatabase finds out by    *)
(* itself what is missing, and the separation of the votes from their      *)
(* voters is one transaction.                                              *)
THEOREM StartLeavesFileWhole == SqliteStartSpec => []FileIsWhole
<1>1. SqliteStartInit => StartInv
  <2> SUFFICES ASSUME SqliteStartInit PROVE StartInv
    OBVIOUS
  <2>1. /\ boot = [at |-> 0, leaked |-> FALSE] /\ missed = "never" /\ voted \in OldVotes
        /\ outbox \in OldLetters(blocks) /\ exposed = (outbox.body = "token") /\ work = disk
    BY DEF SqliteStartInit
  <2>2. boot \in [at : 0 .. 22, leaked : BOOLEAN] /\ boot.at = 0
    BY <2>1
  <2>3. outbox \in Mail
    <3>1. NoLetter \in Mail
      BY DEF NoLetter, Mail
    <3>2. outbox = NoLetter \/ outbox \in Mail
      BY <2>1 DEF OldLetters, Mail
    <3> QED
      BY <3>1, <3>2
  <2>4. blocks \subseteq Blocks
    <3>1. PICK n \in 0 .. Len(Releases) : blocks \subseteq {Releases[i] : i \in 1 .. n}
      BY DEF SqliteStartInit
    <3>2. Len(Releases) = 10 /\ DOMAIN Releases = 1 .. 10
      BY DEF Releases
    <3> QED
      BY <3>1, <3>2 DEF Blocks
  <2>5. voted \subseteq Row1 /\ \A v \in voted : v.named
    <3>1. \A u \in Voters, h \in Ballots : Signed(u, h) \in Row1 /\ Signed(u, h).named
      BY DEF Signed, Row1
    <3>2. \A v \in voted : \E u \in Voters, h \in Ballots : v = Signed(u, h)
      BY <2>1 DEF OldVotes
    <3> QED
      BY <3>1, <3>2
  <2>6. PICK form \in {"absent", "old"} :
           /\ form = "absent" => voted = {}
           /\ disk = [form |-> form, rows |-> voted, new |-> {}, participations |-> {}]
    BY DEF SqliteStartInit
  <2>7. disk \in Tables
    BY <2>5, <2>6 DEF Tables
  <2>8. VotesOK
    BY <2>1, <2>2, <2>6 DEF VotesOK
  <2>9. StartTypeOK
    BY <2>1, <2>2, <2>3, <2>4, <2>5, <2>7 DEF StartTypeOK
  <2>10. exposed => outbox.body = "token"
    BY <2>1
  <2> QED
    BY <2>2, <2>8, <2>9, <2>10 DEF StartInv, BlocksOK, LinksOK
<1>2. StartInv /\ [SqliteStartNext]_sqliteStartVars => StartInv'
  BY BlockStep1, RepairStep, StartAndEnd, CreateTablesStep, SeparationStep, ServeVotesStep, ServeMailStep
     DEF SqliteStartNext, Initialize
<1>3. StartInv => FileIsWhole
  <2> SUFFICES ASSUME StartInv, Ready PROVE FileIsWhole
    BY DEF FileIsWhole
  <2>1. boot.at = 22
    BY StepsInOrder DEF Ready
  <2>2. Separated(disk)
    BY <2>1 DEF StartInv, VotesOK
  <2>3. PICK kept \in OnePerHash(voted) : disk.rows = {Nameless(v) : v \in kept}
    BY <2>2 DEF Separated, Counted
  <2>4. /\ voted \subseteq Row1 /\ kept \subseteq voted
        /\ \A v \in voted : \E k \in kept : k.hash = v.hash
        /\ \A k, l \in kept : k.hash = l.hash => k = l
        /\ \A k \in kept : Nameless(k).hash = k.hash
    BY <2>3, NamelessRow DEF StartInv, StartTypeOK, OnePerHash
  <2>5. /\ \A r \in disk.rows : \E v \in voted : r = Nameless(v)
        /\ \A v \in voted : \E r \in disk.rows : r.hash = v.hash
    BY <2>3, <2>4
  <2>6. \A v \in voted : Alone(v) => Nameless(v) \in disk.rows
    BY <2>3, <2>4 DEF Alone
  <2>7. \A r, s \in disk.rows : r.hash = s.hash => r = s
    BY <2>3, <2>4
  <2>8. disk.form = "new" /\ disk.participations = {v.of : v \in voted}
    BY <2>2 DEF Separated, VotersIn
  <2>9. missed # "now" => Blocks \ {"tracking"} \subseteq blocks /\ outbox.status # "failed"
    <3> SUFFICES ASSUME missed # "now"
                 PROVE  Blocks \ {"tracking"} \subseteq blocks /\ outbox.status # "failed"
      OBVIOUS
    <3>1. /\ "columns" \in blocks /\ "sessions" \in blocks /\ "mail" \in blocks /\ "queue" \in blocks
          /\ "links" \in blocks /\ "actions" \in blocks /\ "template" \in blocks /\ "chain" \in blocks
          /\ "attempts" \in blocks /\ outbox.status # "failed"
      BY <2>1 DEF StartInv, BlocksOK
    <3>2. Blocks \subseteq {"attempts", "columns", "mail", "links", "queue", "sessions", "template",
                            "chain", "tracking", "actions"}
      BY DEF Blocks, Releases
    <3> QED
      BY <3>1, <3>2
  <2> QED
    BY <2>1, <2>5, <2>6, <2>7, <2>8, <2>9 DEF StartInv, LinksOK, FileIsWhole
<1> QED
  BY <1>1, <1>2, <1>3, PTL DEF SqliteStartSpec

-------------------------------------------------------------------------------
(* The transactions of the SQLite adapter.                                 *)

SqliteSpec == SqliteInit /\ [][SqliteNext]_sqliteVars

Places == {"new", "queued", "begun", "running", "committed", "leaving", "done", "failed"}
Active == {c \in owners : fn[c] \in {"begun", "running", "committed", "leaving"}}
Family(c) == Nested(c) \cup {c}

SqliteTypeOK ==
    /\ txQueue \in Seq(Callbacks) /\ txDepth \in {0, 1}
    /\ fn \in [Callbacks -> Places] /\ written \in [Callbacks -> 0 .. Writes]
    /\ owners \subseteq Callbacks /\ inTransaction \in BOOLEAN

(* The one that has run its BEGIN is at the head of the queue, so there is *)
(* only one; the depth says that it runs.                                  *)
QueueOK ==
    /\ \A c \in Active : txQueue # <<>> /\ c = Head(txQueue)
    /\ \A c \in Callbacks : fn[c] \in {"begun", "committed", "leaving"} => c \in owners
    /\ \A c \in owners : /\ fn[c] \notin {"new", "queued"}
                         /\ fn[c] \in {"begun", "running"} => inTransaction
                         /\ fn[c] \in {"running", "committed", "leaving"} => txDepth = 1
    /\ txDepth = 1 => \E c \in Active : fn[c] # "begun"

(* What a callback has written, and when those nested in it are called.    *)
WrittenOK ==
    /\ \A c \in Callbacks :
          /\ fn[c] \in {"new", "queued", "begun"} =>
                written[c] = 0 /\ \A d \in Nested(c) : fn[d] = "new"
          /\ fn[c] \in {"committed", "done"} => written[c] = Writes
          /\ written[c] = Writes => \A d \in Nested(c) : fn[d] = "done"
    /\ \A e \in Callbacks, i \in 1 .. Writes :
          <<e, i>> \in durable \cup uncommitted => i <= written[e]

NoneIn(c, rows) == \A e \in Family(c), i \in 1 .. Writes : <<e, i>> \notin rows
AllIn(c, rows)  == \A e \in Family(c), i \in 1 .. Writes : <<e, i>> \in rows

(* What those of one transaction wrote is all waiting for the COMMIT while *)
(* it runs, and all kept or all gone afterwards, when no nested one runs.  *)
AtomicOK(c) ==
    /\ \A d \in Nested(c) : /\ d \notin owners /\ fn[d] \in {"new", "running", "done", "failed"}
                            /\ fn[d] = "running" => fn[c] = "running"
    /\ fn[c] = "running" =>
          NoneIn(c, durable) /\ \A e \in Family(c) : \A i \in 1 .. written[e] : <<e, i>> \in uncommitted
    /\ fn[c] \in {"committed", "done"} => AllIn(c, durable)
    /\ fn[c] = "leaving" => NoneIn(c, durable \cup uncommitted)
    /\ fn[c] = "failed" => AllIn(c, durable) \/ NoneIn(c, durable \cup uncommitted)

SqliteInv == SqliteTypeOK /\ QueueOK /\ WrittenOK /\ \A c \in owners : AtomicOK(c)

LEMMA OneActive == ASSUME SqliteInv, NEW c \in Active, NEW d \in Active PROVE c = d
BY DEF SqliteInv, QueueOK

LEMMA NestedOnes == \A c : Nested(c) \subseteq Callbacks /\ \A d \in Nested(c) : Outer[d] = c /\ d # c
BY DEF Nested

(* One callback moves on, and nothing is written.                          *)
LEMMA OwnersStay ==
  ASSUME SqliteInv, NEW c \in Callbacks, NEW at \in Places, Goes(c, at),
         UNCHANGED <<written, owners, uncommitted, durable>>,
         Outer[c] # c /\ Outer[c] \in owners =>
             at \in {"running", "done", "failed"} /\ (at = "running" => fn[Outer[c]] = "running"),
         c \in owners => \/ fn[c] = "begun" /\ at = "running"
                         \/ fn[c] = "committed" /\ at = "done"
                         \/ fn[c] = "leaving" /\ at = "failed"
  PROVE  \A o \in owners' : AtomicOK(o)'
<1>1. /\ fn \in [Callbacks -> Places] /\ fn'[c] = at
      /\ \A d \in Callbacks : d # c => fn'[d] = fn[d]
  BY DEF Goes, SqliteInv, SqliteTypeOK
<1>2. TAKE o \in owners'
<1>3. o \in owners /\ o \in Callbacks /\ AtomicOK(o)
  BY DEF SqliteInv, SqliteTypeOK
<1>4. \A d \in Nested(o) : d # o /\ d \in Callbacks /\ Outer[d] = o
  BY NestedOnes
<1>5. \A d \in Nested(o) : d \notin owners /\ fn[d] \in {"new", "running", "done", "failed"}
                           /\ (fn[d] = "running" => fn[o] = "running")
  BY <1>3 DEF AtomicOK
<1>6. ASSUME NEW d \in Nested(o)
      PROVE  /\ d \notin owners' /\ fn'[d] \in {"new", "running", "done", "failed"}
             /\ fn'[d] = "running" => fn'[o] = "running"
  <2>1. CASE d = c
    BY <1>1, <1>3, <1>4, <1>5, <2>1
  <2>2. CASE d # c /\ o # c
    BY <1>1, <1>3, <1>4, <1>5, <2>2
  <2>3. CASE d # c /\ o = c
    <3>1. CASE fn[o] = "begun"
      BY <1>1, <1>3, <1>4, <1>5, <2>3, <3>1
    <3>2. CASE fn[o] # "begun"
      BY <1>1, <1>3, <1>4, <1>5, <2>3, <3>2
    <3> QED
      BY <3>1, <3>2
  <2> QED
    BY <2>1, <2>2, <2>3
<1>7. CASE o # c
  BY <1>1, <1>3, <1>6, <1>7 DEF AtomicOK, NoneIn, AllIn
<1>8. CASE o = c /\ fn[c] = "begun"
  <2>1. \A e \in Family(o) : e \in Callbacks /\ written[e] = 0
    BY <1>3, <1>4, <1>8 DEF SqliteInv, WrittenOK, Family
  <2>2. ASSUME NEW e \in Family(o), NEW i \in 1 .. Writes PROVE <<e, i>> \notin durable
    <3>1. e \in Callbacks /\ written[e] = 0
      BY <2>1
    <3>2. <<e, i>> \in durable => i <= written[e]
      BY <3>1 DEF SqliteInv, WrittenOK
    <3> QED
      BY <3>1, <3>2, SqliteAssumption
  <2>3. \A e \in Family(o) : 1 .. written[e] = {}
    BY <2>1
  <2>4. fn'[o] = "running"
    BY <1>1, <1>3, <1>8
  <2>5. written' = written /\ durable' = durable /\ uncommitted' = uncommitted
    OBVIOUS
  <2> QED
    BY <1>6, <2>2, <2>3, <2>4, <2>5 DEF AtomicOK, NoneIn, AllIn
<1>9. CASE o = c /\ fn[c] # "begun"
  BY <1>1, <1>3, <1>6, <1>9 DEF AtomicOK, NoneIn, AllIn
<1> QED
  BY <1>7, <1>8, <1>9

LEMMA WrittenStays ==
  ASSUME SqliteInv, NEW c \in Callbacks, NEW at \in Places, Goes(c, at),
         UNCHANGED <<written, uncommitted, durable>>,
         fn[c] # "done", at # "new",
         fn[c] = "new" => Outer[c] = c \/ fn[Outer[c]] = "running",
         at \in {"queued", "begun"} => fn[c] \in {"new", "queued"},
         at \in {"committed", "done"} => written[c] = Writes
  PROVE  WrittenOK'
<1>1. /\ fn \in [Callbacks -> Places] /\ fn'[c] = at
      /\ \A d \in Callbacks : d # c => fn'[d] = fn[d]
  BY DEF Goes, SqliteInv, SqliteTypeOK
<1>2. ASSUME NEW d \in Callbacks
      PROVE  /\ fn'[d] \in {"new", "queued", "begun"} =>
                   written[d] = 0 /\ \A n \in Nested(d) : fn'[n] = "new"
             /\ fn'[d] \in {"committed", "done"} => written[d] = Writes
             /\ written[d] = Writes => \A n \in Nested(d) : fn'[n] = "done"
  <2>1. /\ fn[d] \in {"new", "queued", "begun"} =>
              written[d] = 0 /\ \A n \in Nested(d) : fn[n] = "new"
        /\ fn[d] \in {"committed", "done"} => written[d] = Writes
        /\ written[d] = Writes => \A n \in Nested(d) : fn[n] = "done"
    BY DEF SqliteInv, WrittenOK
  <2>2. \A n \in Nested(d) : n # d /\ n \in Callbacks /\ Outer[n] = d
    BY NestedOnes
  <2> QED
    BY <1>1, <2>1, <2>2
<1>3. \A e \in Callbacks, i \in 1 .. Writes : <<e, i>> \in durable \cup uncommitted => i <= written[e]
  BY DEF SqliteInv, WrittenOK
<1> QED
  BY <1>2, <1>3 DEF WrittenOK

LEMMA QueueMoves ==
  ASSUME SqliteInv
  PROVE  /\ txQueue \in Seq(Callbacks)
         /\ txQueue # <<>> => Head(txQueue) \in Callbacks /\ Tail(txQueue) \in Seq(Callbacks)
         /\ \A c \in Callbacks : /\ Append(txQueue, c) \in Seq(Callbacks) /\ Append(txQueue, c) # <<>>
                                 /\ txQueue # <<>> => Head(Append(txQueue, c)) = Head(txQueue)
<1>1. txQueue \in Seq(Callbacks)
  BY DEF SqliteInv, SqliteTypeOK
<1> QED
  BY <1>1, HeadTailProperties, AppendProperties

LEMMA CallKeeps ==
  ASSUME SqliteInv, NEW c \in Callbacks, Call(c)
  PROVE  SqliteInv'
<1>1. /\ fn \in [Callbacks -> Places] /\ fn[c] = "new" /\ Outer[c] \in Callbacks
      /\ txDepth \in {0, 1} /\ c \notin owners
  BY SqliteAssumption DEF Call, SqliteInv, SqliteTypeOK, QueueOK
<1>2. UNCHANGED <<txDepth, written, owners, inTransaction, uncommitted, durable>>
  BY DEF Call, connection
<1>3. Outer[c] # c /\ Outer[c] \in owners => txDepth = 1 /\ fn[Outer[c]] = "running"
  BY DEF Call, SqliteInv, QueueOK
<1>4. PICK at \in {"running", "queued"} :
         /\ Goes(c, at)
         /\ at = "running" => txDepth = 1 /\ txQueue' = txQueue
         /\ at = "queued" => txDepth = 0 /\ txQueue' = Append(txQueue, c)
  BY <1>1 DEF Call, Joins
<1>5. at \in Places
  BY DEF Places
<1>6. \A o \in owners' : AtomicOK(o)'
  BY <1>1, <1>2, <1>3, <1>4, <1>5, OwnersStay
<1>7. WrittenOK'
  BY <1>1, <1>2, <1>4, <1>5, WrittenStays DEF Call
<1>8. /\ fn' \in [Callbacks -> Places] /\ fn'[c] = at
      /\ \A d \in Callbacks : d # c => fn'[d] = fn[d]
  BY <1>1, <1>4, <1>5 DEF Goes
<1>9. SqliteTypeOK'
  BY <1>2, <1>4, <1>8, QueueMoves DEF SqliteInv, SqliteTypeOK
<1>10. Active' = Active /\ owners \subseteq Callbacks
  BY <1>1, <1>2, <1>8 DEF Active, SqliteInv, SqliteTypeOK
<1>11. QueueOK'
  <2>1. \A d \in Active' : txQueue' # <<>> /\ d = Head(txQueue')
    BY <1>4, <1>10, QueueMoves, <1>1 DEF SqliteInv, QueueOK
  <2>2. \A d \in Callbacks : fn'[d] \in {"begun", "committed", "leaving"} => d \in owners'
    BY <1>2, <1>4, <1>8 DEF SqliteInv, QueueOK
  <2>3. \A d \in owners' : /\ fn'[d] \notin {"new", "queued"}
                           /\ fn'[d] \in {"begun", "running"} => inTransaction'
                           /\ fn'[d] \in {"running", "committed", "leaving"} => txDepth' = 1
    BY <1>1, <1>2, <1>8, <1>10 DEF SqliteInv, QueueOK
  <2>4. txDepth' = 1 => \E d \in Active' : fn'[d] # "begun"
    BY <1>1, <1>2, <1>8, <1>10 DEF SqliteInv, QueueOK, Active
  <2> QED
    BY <2>1, <2>2, <2>3, <2>4 DEF QueueOK
<1> QED
  BY <1>6, <1>7, <1>9, <1>11 DEF SqliteInv

LEMMA HeadWaits ==
  ASSUME SqliteInv, NEW c \in Callbacks, txQueue # <<>>, c = Head(txQueue), fn[c] = "queued"
  PROVE  Active = {} /\ txDepth = 0 /\ c \notin owners /\ (Outer[c] # c => Outer[c] \notin owners)
<1>1. Active = {}
  BY DEF Active, SqliteInv, QueueOK
<1>2. txDepth = 0 /\ c \notin owners
  BY <1>1 DEF SqliteInv, QueueOK, SqliteTypeOK
<1>3. ASSUME Outer[c] # c, Outer[c] \in owners PROVE FALSE
  <2>1. c \in Nested(Outer[c])
    BY <1>3 DEF Nested
  <2> QED
    BY <1>3, <2>1 DEF SqliteInv, AtomicOK
<1> QED
  BY <1>1, <1>2, <1>3

LEMMA BeginKeeps ==
  ASSUME SqliteInv, NEW c \in Callbacks, Begin(c)
  PROVE  SqliteInv'
<1>1. /\ fn \in [Callbacks -> Places] /\ fn[c] = "queued" /\ txQueue # <<>> /\ c = Head(txQueue)
      /\ UNCHANGED <<txDepth, written>>
  BY DEF Begin, SqliteInv, SqliteTypeOK
<1>2. Active = {} /\ txDepth = 0 /\ c \notin owners /\ (Outer[c] # c => Outer[c] \notin owners)
  BY <1>1, HeadWaits
<1>3. \A d \in owners : d \in Callbacks /\ fn[d] \in {"done", "failed"}
  BY <1>2 DEF Active, SqliteInv, SqliteTypeOK, QueueOK, Places
<1>4. CASE /\ inTransaction' = TRUE /\ UNCHANGED <<uncommitted, durable, txQueue>>
           /\ Goes(c, "begun") /\ owners' = owners \cup {c}
  <2>1. /\ fn' \in [Callbacks -> Places] /\ fn'[c] = "begun"
        /\ \A d \in Callbacks : d # c => fn'[d] = fn[d]
    BY <1>1, <1>4 DEF Goes, Places
  <2>2. WrittenOK'
    BY <1>1, <1>4, WrittenStays DEF Places
  <2>3. Active' = {c}
    BY <1>3, <1>4, <2>1 DEF Active
  <2>4. SqliteTypeOK'
    BY <1>1, <1>4, <2>1 DEF SqliteInv, SqliteTypeOK
  <2>5. QueueOK'
    <3>1. \A d \in Active' : txQueue' # <<>> /\ d = Head(txQueue')
      BY <1>1, <1>4, <2>3
    <3>2. \A d \in Callbacks : fn'[d] \in {"begun", "committed", "leaving"} => d \in owners'
      BY <1>4, <2>1 DEF SqliteInv, QueueOK
    <3>3. \A d \in owners' : /\ fn'[d] \notin {"new", "queued"}
                             /\ fn'[d] \in {"begun", "running"} => inTransaction'
                             /\ fn'[d] \in {"running", "committed", "leaving"} => txDepth' = 1
      BY <1>3, <1>4, <2>1
    <3>4. txDepth' # 1
      BY <1>1, <1>2
    <3> QED
      BY <3>1, <3>2, <3>3, <3>4 DEF QueueOK
  <2>6. ASSUME NEW o \in owners' PROVE AtomicOK(o)'
    <3>1. CASE o = c
      <4>1. \A d \in Nested(c) : d \in Callbacks /\ d # c /\ fn[d] = "new"
        BY <1>1, NestedOnes DEF SqliteInv, WrittenOK
      <4>2. \A d \in Nested(c) : d \notin owners'
        BY <1>3, <1>4, <4>1
      <4>3. \A d \in Nested(c) : fn'[d] = "new"
        BY <4>1, <2>1
      <4> QED
        BY <3>1, <4>2, <4>3, <2>1 DEF AtomicOK
    <3>2. CASE o # c
      <4>1. o \in owners /\ o \in Callbacks /\ fn'[o] = fn[o] /\ AtomicOK(o)
        BY <1>3, <1>4, <2>1, <3>2 DEF SqliteInv
      <4>2. \A d \in Nested(o) : d \in Callbacks /\ d # c
        BY <1>2, <4>1, NestedOnes
      <4>3. \A d \in Nested(o) : fn'[d] = fn[d] /\ (d \in owners' <=> d \in owners)
        BY <1>4, <2>1, <4>2
      <4> QED
        BY <1>1, <1>4, <4>1, <4>3 DEF AtomicOK, NoneIn, AllIn
    <3> QED
      BY <3>1, <3>2
  <2> QED
    BY <2>2, <2>4, <2>5, <2>6 DEF SqliteInv
<1>5. CASE /\ Goes(c, "failed") /\ txQueue' = Tail(txQueue)
           /\ UNCHANGED <<owners, inTransaction, uncommitted, durable>>
  <2>1. /\ fn' \in [Callbacks -> Places] /\ fn'[c] = "failed"
        /\ \A d \in Callbacks : d # c => fn'[d] = fn[d]
    BY <1>1, <1>5 DEF Goes, Places
  <2>2. WrittenOK'
    <3>1. "failed" \in Places /\ Goes(c, "failed") /\ UNCHANGED <<written, uncommitted, durable>>
      BY <1>1, <1>5 DEF Places
    <3> QED
      BY <1>1, <3>1, WrittenStays
  <2>3. \A o \in owners' : AtomicOK(o)'
    BY <1>1, <1>2, <1>5, OwnersStay DEF Places
  <2>4. SqliteTypeOK'
    BY <1>1, <1>5, <2>1, QueueMoves DEF SqliteInv, SqliteTypeOK
  <2>5. Active' = {} /\ \A d \in owners : fn'[d] \in {"done", "failed"}
    BY <1>2, <1>3, <1>5, <2>1 DEF Active
  <2>6. \A d \in Callbacks : fn'[d] \in {"begun", "committed", "leaving"} => d \in owners'
    BY <1>5, <2>1 DEF SqliteInv, QueueOK
  <2>7. QueueOK'
    <3>1. owners' = owners /\ txDepth' # 1
      BY <1>1, <1>2, <1>5
    <3>2. \A d \in owners' : fn'[d] \notin {"new", "queued", "begun", "running", "committed", "leaving"}
      BY <2>5, <3>1
    <3> QED
      BY <2>5, <2>6, <3>1, <3>2 DEF QueueOK
  <2> QED
    BY <2>2, <2>3, <2>4, <2>7 DEF SqliteInv
<1> QED
  BY <1>4, <1>5 DEF Begin, connection

LEMMA EnterKeeps ==
  ASSUME SqliteInv, NEW c \in Callbacks, Enter(c)
  PROVE  SqliteInv'
<1>1. /\ fn \in [Callbacks -> Places] /\ fn[c] = "begun" /\ Goes(c, "running")
      /\ txDepth' = txDepth + 1
      /\ UNCHANGED <<txQueue, written, owners, inTransaction, uncommitted, durable>>
  BY DEF Enter, SqliteInv, SqliteTypeOK, connection
<1>2. c \in owners /\ c \in Active /\ inTransaction
  BY <1>1 DEF SqliteInv, QueueOK, Active
<1>3. \A d \in Active : d = c
  BY <1>2, OneActive
<1>4. txDepth = 0
  BY <1>1, <1>3 DEF SqliteInv, QueueOK, SqliteTypeOK
<1>5. /\ fn' \in [Callbacks -> Places] /\ fn'[c] = "running"
      /\ \A d \in Callbacks : d # c => fn'[d] = fn[d]
  BY <1>1 DEF Goes, Places
<1>6. Outer[c] # c => Outer[c] \notin owners
  <2>1. SUFFICES ASSUME Outer[c] # c, Outer[c] \in owners PROVE FALSE
    OBVIOUS
  <2>2. c \in Nested(Outer[c])
    BY <2>1 DEF Nested
  <2> QED
    BY <1>2, <2>1, <2>2 DEF SqliteInv, AtomicOK
<1>7. "running" \in Places /\ UNCHANGED <<written, owners, uncommitted, durable>>
  BY <1>1 DEF Places
<1>8. \A o \in owners' : AtomicOK(o)'
  BY <1>1, <1>6, <1>7, OwnersStay
<1>9. WrittenOK'
  BY <1>1, <1>7, WrittenStays
<1>10. SqliteTypeOK'
  BY <1>1, <1>4, <1>5 DEF SqliteInv, SqliteTypeOK
<1>11. Active' = Active
  BY <1>1, <1>2, <1>5 DEF Active, SqliteInv, SqliteTypeOK
<1>12. QueueOK'
  <2>1. \A d \in Active' : txQueue' # <<>> /\ d = Head(txQueue')
    BY <1>1, <1>11 DEF SqliteInv, QueueOK
  <2>2. \A d \in Callbacks : fn'[d] \in {"begun", "committed", "leaving"} => d \in owners'
    BY <1>1, <1>5 DEF SqliteInv, QueueOK
  <2>3. \A d \in owners' : /\ fn'[d] \notin {"new", "queued"}
                           /\ fn'[d] \in {"begun", "running"} => inTransaction'
                           /\ fn'[d] \in {"running", "committed", "leaving"} => txDepth' = 1
    BY <1>1, <1>2, <1>4, <1>5 DEF SqliteInv, QueueOK, SqliteTypeOK
  <2>4. \E d \in Active' : fn'[d] # "begun"
    BY <1>2, <1>5, <1>11
  <2> QED
    BY <2>1, <2>2, <2>3, <2>4 DEF QueueOK
<1> QED
  BY <1>8, <1>9, <1>10, <1>12 DEF SqliteInv

LEMMA LeaveKeeps ==
  ASSUME SqliteInv, NEW c \in Callbacks, LeaveTx(c)
  PROVE  SqliteInv'
<1>1. PICK at \in {"done", "failed"} :
         /\ (fn[c] = "committed" /\ at = "done") \/ (fn[c] = "leaving" /\ at = "failed")
         /\ Goes(c, at)
  BY DEF LeaveTx
<1>2. /\ fn \in [Callbacks -> Places] /\ txQueue' = Tail(txQueue) /\ txDepth' = txDepth - 1
      /\ UNCHANGED <<written, owners, inTransaction, uncommitted, durable>>
  BY DEF LeaveTx, SqliteInv, SqliteTypeOK, connection
<1>3. c \in owners /\ c \in Active
  BY <1>1 DEF SqliteInv, QueueOK, Active
<1>4. \A d \in Active : d = c
  BY <1>3, OneActive
<1>5. txDepth = 1 /\ txQueue # <<>>
  BY <1>1, <1>3 DEF SqliteInv, QueueOK
<1>6. /\ fn' \in [Callbacks -> Places] /\ fn'[c] = at
      /\ \A d \in Callbacks : d # c => fn'[d] = fn[d]
  BY <1>1, <1>2 DEF Goes, Places
<1>7. Outer[c] # c => Outer[c] \notin owners
  <2>1. SUFFICES ASSUME Outer[c] # c, Outer[c] \in owners PROVE FALSE
    OBVIOUS
  <2>2. c \in Nested(Outer[c])
    BY <2>1 DEF Nested
  <2> QED
    BY <1>3, <2>1, <2>2 DEF SqliteInv, AtomicOK
<1>8. at \in Places
  BY DEF Places
<1>9. \A o \in owners' : AtomicOK(o)'
  BY <1>1, <1>2, <1>7, <1>8, OwnersStay
<1>10. WrittenOK'
  <2>1. written[c] = Writes \/ at = "failed"
    BY <1>1 DEF SqliteInv, WrittenOK
  <2> QED
    BY <1>1, <1>2, <1>8, <2>1, WrittenStays
<1>11. SqliteTypeOK'
  BY <1>2, <1>5, <1>6, QueueMoves DEF SqliteInv, SqliteTypeOK
<1>12. \A d \in owners : fn'[d] \in {"done", "failed"}
  <2>1. \A d \in owners : d # c => d \notin Active
    BY <1>4
  <2>2. \A d \in owners : d \in Callbacks /\ (d # c => fn[d] \in {"done", "failed"})
    BY <2>1 DEF Active, SqliteInv, SqliteTypeOK, QueueOK, Places
  <2> QED
    BY <1>6, <2>2
<1>13. Active' = {}
  BY <1>2, <1>12 DEF Active
<1>14. \A d \in Callbacks : fn'[d] \in {"begun", "committed", "leaving"} => d \in owners'
  BY <1>2, <1>6 DEF SqliteInv, QueueOK
<1>15. QueueOK'
  <2>1. owners' = owners /\ txDepth' # 1
    BY <1>2, <1>5
  <2>2. \A d \in owners' : fn'[d] \notin {"new", "queued", "begun", "running", "committed", "leaving"}
    BY <1>12, <2>1
  <2> QED
    BY <1>13, <1>14, <2>1, <2>2 DEF QueueOK
<1> QED
  BY <1>9, <1>10, <1>11, <1>15 DEF SqliteInv

(* What is executed belongs to the family that runs, if there is one.      *)
LEMMA WriteKeeps ==
  ASSUME SqliteInv, NEW c \in Callbacks, Write(c)
  PROVE  SqliteInv'
<1>1. /\ fn[c] = "running" /\ written[c] < Writes
      /\ written[c] = Writes - 1 => \A d \in Nested(c) : fn[d] = "done"
      /\ written' = [written EXCEPT ![c] = @ + 1]
      /\ UNCHANGED <<txDepth, txQueue, fn, owners>>
      /\ Executes(<<c, written[c] + 1>>)
  BY DEF Write
<1>2. /\ written \in [Callbacks -> 0 .. Writes] /\ Writes \in Nat \ {0}
      /\ owners \subseteq Callbacks /\ inTransaction \in BOOLEAN
  BY SqliteAssumption DEF SqliteInv, SqliteTypeOK
<1>3. /\ written' \in [Callbacks -> 0 .. Writes] /\ written'[c] = written[c] + 1
      /\ \A d \in Callbacks : d # c => written'[d] = written[d]
  BY <1>1, <1>2
<1>4. /\ inTransaction' = inTransaction
      /\ inTransaction => uncommitted' = uncommitted \cup {<<c, written'[c]>>} /\ durable' = durable
      /\ ~inTransaction => durable' = durable \cup {<<c, written'[c]>>} /\ uncommitted' = uncommitted
  BY <1>1, <1>2, <1>3 DEF Executes
<1>5. SqliteTypeOK'
  BY <1>1, <1>3, <1>4 DEF SqliteInv, SqliteTypeOK
<1>6. Active' = Active
  BY <1>1 DEF Active
<1>7. QueueOK'
  BY <1>1, <1>4, <1>6 DEF SqliteInv, QueueOK
<1>8. WrittenOK'
  <2>1. ASSUME NEW d \in Callbacks
        PROVE  /\ fn'[d] \in {"new", "queued", "begun"} =>
                     written'[d] = 0 /\ \A n \in Nested(d) : fn'[n] = "new"
               /\ fn'[d] \in {"committed", "done"} => written'[d] = Writes
               /\ written'[d] = Writes => \A n \in Nested(d) : fn'[n] = "done"
    <3>1. CASE d = c
      BY <1>1, <1>2, <1>3, <3>1
    <3>2. CASE d # c
      BY <1>1, <1>3, <3>2 DEF SqliteInv, WrittenOK
    <3> QED
      BY <3>1, <3>2
  <2>2. ASSUME NEW e \in Callbacks, NEW i \in 1 .. Writes,
               <<e, i>> \in durable' \cup uncommitted'
        PROVE  i <= written'[e]
    <3>1. <<e, i>> \in durable \cup uncommitted \/ (e = c /\ i = written'[c])
      BY <1>2, <1>4, <2>2
    <3>2. CASE <<e, i>> \in durable \cup uncommitted
      <4>1. i <= written[e]
        BY <3>2 DEF SqliteInv, WrittenOK
      <4> QED
        BY <4>1, <1>2, <1>3
    <3>3. CASE e = c /\ i = written'[c]
      BY <3>3, <1>2, <1>3
    <3> QED
      BY <3>1, <3>2, <3>3
  <2> QED
    BY <2>1, <2>2 DEF WrittenOK
<1>9. ASSUME NEW o \in owners' PROVE AtomicOK(o)'
  <2>1. o \in owners /\ AtomicOK(o) /\ o \in Callbacks /\ fn' = fn /\ owners' = owners
    BY <1>1, <1>2 DEF SqliteInv
  <2>2. \A d \in Nested(o) : d \in Callbacks
    BY <2>1, NestedOnes
  <2>3. CASE c \notin Family(o)
    <3>1. \A e \in Family(o), i \in 1 .. Writes :
             /\ <<e, i>> \in durable' <=> <<e, i>> \in durable
             /\ <<e, i>> \in uncommitted' <=> <<e, i>> \in uncommitted
      BY <1>2, <1>4, <2>3
    <3>2. \A e \in Family(o) : e \in Callbacks /\ written'[e] = written[e] /\ written[e] \in 0 .. Writes
      BY <1>2, <1>3, <2>1, <2>2, <2>3 DEF Family
    <3>3. /\ NoneIn(o, durable)' <=> NoneIn(o, durable)
          /\ AllIn(o, durable)' <=> AllIn(o, durable)
          /\ NoneIn(o, durable \cup uncommitted)' <=> NoneIn(o, durable \cup uncommitted)
      BY <3>1 DEF NoneIn, AllIn
    <3>4. ASSUME fn[o] = "running", NEW e \in Family(o), NEW i \in 1 .. written'[e]
          PROVE  <<e, i>> \in uncommitted'
      <4>1. i \in 1 .. Writes /\ i \in 1 .. written[e]
        BY <1>2, <3>2
      <4> QED
        BY <2>1, <3>1, <3>4, <4>1 DEF AtomicOK
    <3> QED
      BY <2>1, <3>3, <3>4 DEF AtomicOK
  <2>4. CASE c \in Family(o)
    <3>1. fn[o] = "running" /\ inTransaction
      BY <1>1, <2>1, <2>4 DEF AtomicOK, Family, SqliteInv, QueueOK
    <3>2. durable' = durable /\ uncommitted' = uncommitted \cup {<<c, written'[c]>>}
      BY <1>4, <3>1
    <3>3. \A e \in Family(o) : e \in Callbacks
      BY <2>1, <2>2 DEF Family
    <3>4. ASSUME NEW e \in Family(o), NEW i \in 1 .. written'[e] PROVE <<e, i>> \in uncommitted'
      <4>1. i \in 1 .. written[e] \/ (e = c /\ i = written'[c])
        BY <1>2, <1>3, <3>3
      <4> QED
        BY <2>1, <3>1, <3>2, <4>1 DEF AtomicOK
    <3>5. NoneIn(o, durable)'
      BY <2>1, <3>1, <3>2 DEF AtomicOK, NoneIn
    <3> QED
      BY <2>1, <3>1, <3>4, <3>5 DEF AtomicOK
  <2> QED
    BY <2>3, <2>4
<1> QED
  BY <1>5, <1>7, <1>8, <1>9 DEF SqliteInv

LEMMA StatementKeeps ==
  ASSUME SqliteInv, NEW s \in Statements, Statement(s)
  PROVE  SqliteInv'
<1>1. /\ s \notin Callbacks
      /\ UNCHANGED <<txDepth, txQueue, fn, written, owners>>
      /\ inTransaction' = inTransaction
      /\ uncommitted' \in {uncommitted, uncommitted \cup {<<s, 1>>}}
      /\ durable' \in {durable, durable \cup {<<s, 1>>}}
  BY SqliteAssumption DEF Statement, Executes, SqliteInv, SqliteTypeOK
<1>2. \A e \in Callbacks, i \in 1 .. Writes :
         /\ <<e, i>> \in durable' <=> <<e, i>> \in durable
         /\ <<e, i>> \in uncommitted' <=> <<e, i>> \in uncommitted
  BY <1>1
<1>3. SqliteTypeOK'
  BY <1>1 DEF SqliteInv, SqliteTypeOK
<1>4. Active' = Active
  BY <1>1 DEF Active
<1>5. QueueOK'
  BY <1>1, <1>4 DEF SqliteInv, QueueOK
<1>6. WrittenOK'
  BY <1>1, <1>2 DEF SqliteInv, WrittenOK
<1>7. ASSUME NEW o \in owners' PROVE AtomicOK(o)'
  <2>1. o \in owners /\ AtomicOK(o) /\ o \in Callbacks /\ fn' = fn /\ owners' = owners /\ written' = written
    BY <1>1 DEF SqliteInv, SqliteTypeOK
  <2>2. \A e \in Family(o) : e \in Callbacks /\ written[e] \in 0 .. Writes
    BY <2>1, NestedOnes DEF Family, SqliteInv, SqliteTypeOK
  <2>3. /\ NoneIn(o, durable)' <=> NoneIn(o, durable)
        /\ AllIn(o, durable)' <=> AllIn(o, durable)
        /\ NoneIn(o, durable \cup uncommitted)' <=> NoneIn(o, durable \cup uncommitted)
    BY <1>2, <2>2 DEF NoneIn, AllIn
  <2>4. \A e \in Family(o) : \A i \in 1 .. written[e] : i \in 1 .. Writes
    BY <2>2, SqliteAssumption
  <2>5. fn[o] = "running" => \A e \in Family(o) : \A i \in 1 .. written[e] : <<e, i>> \in uncommitted'
    BY <1>2, <2>1, <2>2, <2>4 DEF AtomicOK
  <2> QED
    BY <2>1, <2>3, <2>5 DEF AtomicOK
<1> QED
  BY <1>3, <1>5, <1>6, <1>7 DEF SqliteInv

(* The end of a transaction that ran its BEGIN: it is the only one that    *)
(* does, none of its nested ones runs, and none of it is durable yet.      *)
LEMMA OwnerEnds ==
  ASSUME SqliteInv, NEW c \in owners, fn[c] = "running", NEW at \in {"committed", "leaving"},
         Goes(c, at), UNCHANGED <<txDepth, txQueue, written, owners>>,
         inTransaction' = FALSE,
         \A d \in Nested(c) : fn[d] # "running",
         at = "committed" => written[c] = Writes
  PROVE  /\ SqliteTypeOK' /\ QueueOK' /\ c \in Callbacks /\ fn'[c] = at
         /\ \A d \in Callbacks : d # c => fn'[d] = fn[d]
         /\ \A o \in owners : o # c => fn[o] \in {"done", "failed"}
         /\ \A o \in owners : \A d \in Nested(o) : d \in Callbacks /\ d # c
         /\ \A e \in Callbacks :
               /\ fn'[e] \in {"new", "queued", "begun"} =>
                     written'[e] = 0 /\ \A n \in Nested(e) : fn'[n] = "new"
               /\ fn'[e] \in {"committed", "done"} => written'[e] = Writes
               /\ written'[e] = Writes => \A n \in Nested(e) : fn'[n] = "done"
<1>1. /\ fn \in [Callbacks -> Places] /\ c \in Callbacks /\ owners \subseteq Callbacks
  BY DEF SqliteInv, SqliteTypeOK
<1>2. /\ fn' \in [Callbacks -> Places] /\ fn'[c] = at
      /\ \A d \in Callbacks : d # c => fn'[d] = fn[d]
  BY <1>1 DEF Goes, Places
<1>3. c \in Active /\ \A d \in Active : d = c
  BY OneActive DEF Active
<1>4. \A o \in owners : o # c => fn[o] \in {"done", "failed"}
  BY <1>1, <1>3 DEF Active, SqliteInv, QueueOK, Places
<1>5. \A o \in owners : \A d \in Nested(o) : d \in Callbacks /\ d # c
  BY NestedOnes DEF SqliteInv, AtomicOK
<1>6. SqliteTypeOK'
  BY <1>1, <1>2 DEF SqliteInv, SqliteTypeOK
<1>7. Active' = {c}
  BY <1>1, <1>2, <1>4 DEF Active
<1>8. QueueOK'
  <2>1. \A d \in Active' : txQueue' # <<>> /\ d = Head(txQueue')
    BY <1>3, <1>7 DEF SqliteInv, QueueOK
  <2>2. \A d \in Callbacks : fn'[d] \in {"begun", "committed", "leaving"} => d \in owners'
    BY <1>2 DEF SqliteInv, QueueOK
  <2>3. \A d \in owners' : /\ fn'[d] \notin {"new", "queued", "begun", "running"}
                           /\ fn'[d] \in {"running", "committed", "leaving"} => txDepth' = 1
    <3>1. txDepth' = 1
      BY DEF SqliteInv, QueueOK
    <3> QED
      BY <1>1, <1>2, <1>4, <3>1
  <2>4. \E d \in Active' : fn'[d] # "begun"
    BY <1>2, <1>7
  <2> QED
    BY <2>1, <2>2, <2>3, <2>4 DEF QueueOK
<1>9. ASSUME NEW e \in Callbacks
      PROVE  /\ fn'[e] \in {"new", "queued", "begun"} =>
                   written'[e] = 0 /\ \A n \in Nested(e) : fn'[n] = "new"
             /\ fn'[e] \in {"committed", "done"} => written'[e] = Writes
             /\ written'[e] = Writes => \A n \in Nested(e) : fn'[n] = "done"
  <2>1. /\ fn[e] \in {"new", "queued", "begun"} =>
              written[e] = 0 /\ \A n \in Nested(e) : fn[n] = "new"
        /\ fn[e] \in {"committed", "done"} => written[e] = Writes
        /\ written[e] = Writes => \A n \in Nested(e) : fn[n] = "done"
    BY DEF SqliteInv, WrittenOK
  <2>2. \A n \in Nested(e) : n \in Callbacks
    BY NestedOnes
  <2> QED
    BY <1>1, <1>2, <2>1, <2>2
<1> QED
  BY <1>1, <1>2, <1>4, <1>5, <1>6, <1>8, <1>9

LEMMA JoinedEnds ==
  ASSUME SqliteInv, NEW c \in Callbacks, c \notin owners, fn[c] = "running",
         NEW at \in {"done", "failed"}, at \in Places, Goes(c, at),
         at = "done" => written[c] = Writes,
         UNCHANGED <<txDepth, txQueue, written, owners, inTransaction, uncommitted, durable>>
  PROVE  SqliteInv'
<1>1. /\ fn \in [Callbacks -> Places] /\ owners \subseteq Callbacks
  BY DEF SqliteInv, SqliteTypeOK
<1>2. /\ fn' \in [Callbacks -> Places] /\ fn'[c] = at
      /\ \A d \in Callbacks : d # c => fn'[d] = fn[d]
  BY <1>1 DEF Goes
<1>3. WrittenOK'
  BY WrittenStays
<1>4. \A o \in owners' : AtomicOK(o)'
  BY OwnersStay
<1>5. SqliteTypeOK'
  BY <1>2 DEF SqliteInv, SqliteTypeOK
<1>6. Active' = Active /\ \A o \in owners : o \in Callbacks /\ fn'[o] = fn[o]
  BY <1>1, <1>2 DEF Active
<1>7. QueueOK'
  BY <1>2, <1>6 DEF SqliteInv, QueueOK, Active
<1> QED
  BY <1>3, <1>4, <1>5, <1>7 DEF SqliteInv

LEMMA AllOrNone ==
  ASSUME SqliteInv, NEW c \in owners
  PROVE  AllIn(c, durable) \/ NoneIn(c, durable)
<1>1. c \in Callbacks /\ fn[c] \in {"begun", "running", "committed", "leaving", "done", "failed"}
  BY DEF SqliteInv, SqliteTypeOK, QueueOK, Places
<1>2. CASE fn[c] = "begun"
  <2>1. SUFFICES ASSUME NEW e \in Family(c), NEW i \in 1 .. Writes, <<e, i>> \in durable PROVE FALSE
    BY DEF NoneIn
  <2>2. e \in Callbacks /\ (e # c => e \in Nested(c))
    BY <1>1, NestedOnes DEF Family
  <2>3. written[e] = 0
    BY <1>1, <1>2, <2>2 DEF SqliteInv, WrittenOK
  <2>4. i <= written[e]
    BY <2>1, <2>2 DEF SqliteInv, WrittenOK
  <2> QED
    BY <2>3, <2>4, SqliteAssumption
<1>3. CASE fn[c] # "begun"
  BY <1>1, <1>3 DEF SqliteInv, AtomicOK, NoneIn
<1> QED
  BY <1>2, <1>3

LEMMA ThrowKeeps ==
  ASSUME SqliteInv, NEW c \in Callbacks, Throw(c)
  PROVE  SqliteInv'
<1>1. /\ fn[c] = "running" /\ UNCHANGED <<txDepth, txQueue, written, owners>>
      /\ \A d \in Nested(c) : fn[d] # "running"
  BY DEF Throw, Ended
<1>2. CASE c \in owners
  <2>1. /\ Goes(c, "leaving") /\ inTransaction' = FALSE
        /\ uncommitted' = {} /\ durable' = durable
    BY <1>2 DEF Throw, Ends
  <2>2. /\ SqliteTypeOK' /\ QueueOK' /\ c \in Callbacks /\ fn'[c] = "leaving"
        /\ \A d \in Callbacks : d # c => fn'[d] = fn[d]
        /\ \A o \in owners : o # c => fn[o] \in {"done", "failed"}
        /\ \A o \in owners : \A d \in Nested(o) : d \in Callbacks /\ d # c
        /\ \A e \in Callbacks :
              /\ fn'[e] \in {"new", "queued", "begun"} =>
                    written'[e] = 0 /\ \A n \in Nested(e) : fn'[n] = "new"
              /\ fn'[e] \in {"committed", "done"} => written'[e] = Writes
              /\ written'[e] = Writes => \A n \in Nested(e) : fn'[n] = "done"
    BY <1>1, <1>2, <2>1, OwnerEnds
  <2>3. WrittenOK'
    BY <1>1, <2>1, <2>2 DEF SqliteInv, WrittenOK
  <2>4. ASSUME NEW o \in owners' PROVE AtomicOK(o)'
    <3>1. o \in owners /\ o \in Callbacks /\ AtomicOK(o) /\ owners' = owners
      BY <1>1 DEF SqliteInv, SqliteTypeOK
    <3>2. \A d \in Nested(o) : fn'[d] = fn[d] /\ d \notin owners' /\ fn'[d] \in {"new", "running", "done", "failed"}
                               /\ (fn[d] = "running" => fn[o] = "running")
      BY <2>2, <3>1 DEF AtomicOK
    <3>3. CASE o = c
      <4>1. NoneIn(o, durable \cup uncommitted)'
        BY <1>1, <2>1, <3>1, <3>3 DEF AtomicOK, NoneIn
      <4>2. \A d \in Nested(o) : fn'[d] # "running"
        BY <1>1, <3>2, <3>3
      <4> QED
        BY <2>2, <3>2, <3>3, <4>1, <4>2 DEF AtomicOK
    <3>4. CASE o # c
      <4>1. fn'[o] = fn[o] /\ fn[o] \in {"done", "failed"}
        BY <2>2, <3>1, <3>4
      <4>2. /\ AllIn(o, durable)' <=> AllIn(o, durable)
            /\ NoneIn(o, durable \cup uncommitted) => NoneIn(o, durable \cup uncommitted)'
        BY <2>1 DEF AllIn, NoneIn
      <4> QED
        BY <3>1, <3>2, <4>1, <4>2 DEF AtomicOK
    <3> QED
      BY <3>3, <3>4
  <2> QED
    BY <2>2, <2>3, <2>4 DEF SqliteInv
<1>3. CASE c \notin owners
  <2>1. Goes(c, "failed") /\ UNCHANGED <<inTransaction, uncommitted, durable>>
    BY <1>3 DEF Throw, connection
  <2>2. "failed" \in Places
    BY DEF Places
  <2> QED
    BY <1>1, <1>3, <2>1, <2>2, JoinedEnds
<1> QED
  BY <1>2, <1>3

LEMMA ReturnKeeps ==
  ASSUME SqliteInv, NEW c \in Callbacks, Return(c)
  PROVE  SqliteInv'
<1>1. /\ fn[c] = "running" /\ written[c] = Writes /\ UNCHANGED <<txDepth, txQueue, written, owners>>
  BY DEF Return
<1>2. \A d \in Nested(c) : d \in Callbacks /\ fn[d] = "done" /\ written[d] = Writes
  BY <1>1, NestedOnes DEF SqliteInv, WrittenOK
<1>3. CASE c \in owners
  <2>1. /\ Goes(c, "committed") /\ inTransaction' = FALSE
        /\ uncommitted' = {} /\ durable' = durable \cup uncommitted
    BY <1>3 DEF Return, Ends
  <2>2. /\ SqliteTypeOK' /\ QueueOK' /\ c \in Callbacks /\ fn'[c] = "committed"
        /\ \A d \in Callbacks : d # c => fn'[d] = fn[d]
        /\ \A o \in owners : o # c => fn[o] \in {"done", "failed"}
        /\ \A o \in owners : \A d \in Nested(o) : d \in Callbacks /\ d # c
        /\ \A e \in Callbacks :
              /\ fn'[e] \in {"new", "queued", "begun"} =>
                    written'[e] = 0 /\ \A n \in Nested(e) : fn'[n] = "new"
              /\ fn'[e] \in {"committed", "done"} => written'[e] = Writes
              /\ written'[e] = Writes => \A n \in Nested(e) : fn'[n] = "done"
    BY <1>1, <1>2, <1>3, <2>1, OwnerEnds
  <2>3. WrittenOK'
    BY <1>1, <2>1, <2>2 DEF SqliteInv, WrittenOK
  <2>4. ASSUME NEW o \in owners' PROVE AtomicOK(o)'
    <3>1. o \in owners /\ o \in Callbacks /\ AtomicOK(o) /\ owners' = owners
      BY <1>1 DEF SqliteInv, SqliteTypeOK
    <3>2. \A d \in Nested(o) : fn'[d] = fn[d] /\ d \notin owners' /\ fn'[d] \in {"new", "running", "done", "failed"}
                               /\ (fn[d] = "running" => fn[o] = "running")
      BY <2>2, <3>1 DEF AtomicOK
    <3>3. CASE o = c
      <4>1. AllIn(o, durable)'
        BY <1>1, <1>2, <2>1, <3>1, <3>3 DEF AtomicOK, AllIn, Family
      <4>2. \A d \in Nested(o) : fn'[d] # "running"
        BY <1>2, <3>2, <3>3
      <4> QED
        BY <2>2, <3>2, <3>3, <4>1, <4>2 DEF AtomicOK
    <3>4. CASE o # c
      <4>1. fn'[o] = fn[o] /\ fn[o] \in {"done", "failed"}
        BY <2>2, <3>1, <3>4
      <4>2. /\ AllIn(o, durable) => AllIn(o, durable)'
            /\ NoneIn(o, durable \cup uncommitted) => NoneIn(o, durable \cup uncommitted)'
        BY <2>1 DEF AllIn, NoneIn
      <4> QED
        BY <3>1, <3>2, <4>1, <4>2 DEF AtomicOK
    <3> QED
      BY <3>3, <3>4
  <2> QED
    BY <2>2, <2>3, <2>4 DEF SqliteInv
<1>4. CASE c \notin owners
  <2>1. Goes(c, "done") /\ UNCHANGED <<inTransaction, uncommitted, durable>>
    BY <1>4 DEF Return, connection
  <2>2. "done" \in Places
    BY DEF Places
  <2> QED
    BY <1>1, <1>4, <2>1, <2>2, JoinedEnds
<1> QED
  BY <1>3, <1>4

LEMMA StopKeeps ==
  ASSUME SqliteInv, Stop
  PROVE  SqliteInv'
<1>1. /\ fn' = [c \in Callbacks |-> IF fn[c] = "done" THEN "done" ELSE "failed"]
      /\ txDepth' = 0 /\ txQueue' = <<>> /\ UNCHANGED <<written, owners>>
      /\ inTransaction' = FALSE /\ uncommitted' = {} /\ durable' = durable
  BY DEF Stop, Ends
<1>2. \A c \in Callbacks : fn'[c] \in {"done", "failed"} /\ (fn'[c] = "done" <=> fn[c] = "done")
  BY <1>1
<1>3. owners \subseteq Callbacks
  BY DEF SqliteInv, SqliteTypeOK
<1>4. SqliteTypeOK'
  <2>1. fn' \in [Callbacks -> Places]
    BY <1>1, <1>2 DEF Places
  <2>2. txQueue' \in Seq(Callbacks)
    BY <1>1, EmptySeq
  <2> QED
    BY <1>1, <2>1, <2>2 DEF SqliteInv, SqliteTypeOK
<1>5. Active' = {}
  BY <1>1, <1>2, <1>3 DEF Active
<1>6. QueueOK'
  BY <1>1, <1>2, <1>3, <1>5 DEF QueueOK
<1>7. WrittenOK'
  <2>1. \A c \in Callbacks : Nested(c) \subseteq Callbacks
    BY NestedOnes
  <2> QED
    BY <1>1, <1>2, <2>1 DEF SqliteInv, WrittenOK
<1>8. ASSUME NEW o \in owners' PROVE AtomicOK(o)'
  <2>1. o \in owners /\ o \in Callbacks /\ AtomicOK(o) /\ owners' = owners
    BY <1>1, <1>3 DEF SqliteInv
  <2>2. \A d \in Nested(o) : d \in Callbacks /\ d \notin owners' /\ fn'[d] \in {"done", "failed"}
    BY <1>2, <2>1, NestedOnes DEF AtomicOK
  <2>3. AllIn(o, durable) \/ NoneIn(o, durable)
    BY <2>1, AllOrNone
  <2>4. fn[o] = "done" => AllIn(o, durable)
    BY <2>1 DEF AtomicOK
  <2>5. /\ AllIn(o, durable)' <=> AllIn(o, durable)
        /\ NoneIn(o, durable \cup uncommitted)' <=> NoneIn(o, durable)
    BY <1>1 DEF AllIn, NoneIn
  <2> QED
    BY <1>2, <2>1, <2>2, <2>3, <2>4, <2>5 DEF AtomicOK
<1> QED
  BY <1>4, <1>6, <1>7, <1>8 DEF SqliteInv

LEMMA SqliteInitInv == SqliteInit => SqliteInv
<1> SUFFICES ASSUME SqliteInit PROVE SqliteInv
  OBVIOUS
<1>1. SqliteTypeOK
  <2>1. txQueue \in Seq(Callbacks) /\ txDepth \in {0, 1} /\ owners \subseteq Callbacks
        /\ inTransaction \in BOOLEAN
    BY EmptySeq DEF SqliteInit
  <2>2. fn \in [Callbacks -> Places]
    BY DEF SqliteInit, Places
  <2>3. 0 \in 0 .. Writes
    BY SqliteAssumption
  <2>4. written \in [Callbacks -> 0 .. Writes]
    BY <2>3 DEF SqliteInit
  <2> QED
    BY <2>1, <2>2, <2>4 DEF SqliteTypeOK
<1>2. QueueOK
  BY DEF SqliteInit, QueueOK, Active
<1>3. WrittenOK
  BY SqliteAssumption, NestedOnes DEF SqliteInit, WrittenOK
<1> QED
  BY <1>1, <1>2, <1>3 DEF SqliteInv, SqliteInit

LEMMA SqliteStep == SqliteInv /\ [SqliteNext]_sqliteVars => SqliteInv'
<1> SUFFICES ASSUME SqliteInv, [SqliteNext]_sqliteVars PROVE SqliteInv'
  OBVIOUS
<1>1. CASE \E s \in Statements : Statement(s)
  BY <1>1, StatementKeeps
<1>2. ASSUME NEW c \in Callbacks, Call(c) \/ Turn(c) \/ Throw(c) PROVE SqliteInv'
  <2>1. CASE Call(c)
    BY <2>1, CallKeeps
  <2>2. CASE Begin(c)
    BY <2>2, BeginKeeps
  <2>3. CASE Enter(c)
    BY <2>3, EnterKeeps
  <2>4. CASE Write(c)
    BY <2>4, WriteKeeps
  <2>5. CASE Return(c)
    BY <2>5, ReturnKeeps
  <2>6. CASE LeaveTx(c)
    BY <2>6, LeaveKeeps
  <2>7. CASE Throw(c)
    BY <2>7, ThrowKeeps
  <2> QED
    BY <1>2, <2>1, <2>2, <2>3, <2>4, <2>5, <2>6, <2>7 DEF Turn
<1>3. CASE Stop
  BY <1>3, StopKeeps
<1>4. CASE UNCHANGED sqliteVars
  <2>1. UNCHANGED <<txDepth, txQueue, fn, written, owners, inTransaction, uncommitted, durable>>
    BY <1>4 DEF sqliteVars, connection
  <2>2. SqliteTypeOK' /\ QueueOK' /\ WrittenOK'
    BY <2>1 DEF SqliteInv, SqliteTypeOK, QueueOK, Active, WrittenOK
  <2>3. \A o \in owners' : AtomicOK(o)'
    BY <2>1 DEF SqliteInv, AtomicOK, NoneIn, AllIn
  <2> QED
    BY <2>2, <2>3 DEF SqliteInv
<1> QED
  BY <1>1, <1>2, <1>3, <1>4 DEF SqliteNext

(* A transaction of the SQLite adapter that ran its own BEGIN is kept or   *)
(* undone as a whole, with those nested in it, for any number of callers   *)
(* whose calls join it, wait, fail or stop with the process.               *)
THEOREM TransactionsAreAtomic == SqliteSpec => []OwnersAreAtomic
<1>1. SqliteInv => OwnersAreAtomic
  <2> SUFFICES ASSUME SqliteInv, NEW c \in owners
               PROVE  LET all == (Nested(c) \cup {c}) \X (1 .. Writes)
                      IN  /\ durable \cap all \in {{}, all}
                          /\ fn[c] = "done" => all \subseteq durable
    BY DEF OwnersAreAtomic
  <2> DEFINE all == (Nested(c) \cup {c}) \X (1 .. Writes)
  <2>1. \A p \in all : \E e \in Family(c), i \in 1 .. Writes : p = <<e, i>>
    BY DEF Family
  <2>2. AllIn(c, durable) => all \subseteq durable
    BY <2>1 DEF AllIn
  <2>3. NoneIn(c, durable) => durable \cap all = {}
    BY <2>1 DEF NoneIn
  <2>4. AllIn(c, durable) \/ NoneIn(c, durable)
    BY AllOrNone
  <2>5. fn[c] = "done" => AllIn(c, durable)
    BY DEF SqliteInv, AtomicOK
  <2> HIDE DEF all
  <2>6. durable \cap all \in {{}, all}
    BY <2>2, <2>3, <2>4
  <2> QED
    BY <2>2, <2>5, <2>6 DEF all
<1> QED
  BY <1>1, SqliteInitInv, SqliteStep, PTL DEF SqliteSpec

-------------------------------------------------------------------------------
(* Accounts, elections and censuses: the routes under READ COMMITTED.      *)

(* The least counterexample.                                               *)
LEMMA LeastNumber ==
    ASSUME NEW T \in SUBSET Nat, T # {}
    PROVE  \E x \in T : \A y \in T : x <= y
<1>1. \A x, y : <<x, y>> \in OpToRel(<, Nat) <=> (x \in Nat /\ y \in Nat /\ x < y)
  BY Zenon DEF OpToRel
<1>2. \E x \in T : \A y \in T : ~(<<y, x>> \in OpToRel(<, Nat))
  BY NatLessThanWellFounded, WFMin
<1>3. \E x \in T : \A y \in T : ~(y \in Nat /\ x \in Nat /\ y < x)
  BY <1>1, <1>2, Zenon
<1> QED
  BY <1>3

Flat(f, seqs, n) ==
    f = [i \in 1 .. n |-> IF i = 1 THEN seqs[i] ELSE f[i - 1] \o seqs[i]]

LEMMA FlatExists ==
    ASSUME NEW seqs, NEW n \in Nat
    PROVE  \E f : Flat(f, seqs, n)
<1> DEFINE T == {m \in Nat : ~ \E f : Flat(f, seqs, m)}
<1> SUFFICES ASSUME T # {} PROVE FALSE
  OBVIOUS
<1>1. T \in SUBSET Nat
  OBVIOUS
<1>2. PICK m \in T : \A k \in T : m <= k
  <2> HIDE DEF T
  <2> QED
    BY <1>1, LeastNumber
<1>3. m \in Nat /\ (\A f : ~Flat(f, seqs, m))
  OBVIOUS
<1>4. m # 0
  <2>1. Flat([i \in {} |-> 0], seqs, 0)
    BY DEF Flat
  <2> QED
    BY <1>3, <2>1
<1>5. m - 1 \in Nat /\ m - 1 \notin T
  BY <1>2, <1>3, <1>4
<1>6. PICK g : Flat(g, seqs, m - 1)
  BY <1>5
<1> DEFINE h == [i \in 1 .. m |-> IF i < m THEN g[i] ELSE IF m = 1 THEN seqs[m] ELSE g[m - 1] \o seqs[m]]
<1> HIDE DEF T
<1>7. \A i \in 1 .. m - 1 : g[i] = IF i = 1 THEN seqs[i] ELSE g[i - 1] \o seqs[i]
  BY <1>6 DEF Flat
<1>8. \A i \in 1 .. m : h[i] = IF i = 1 THEN seqs[i] ELSE h[i - 1] \o seqs[i]
  <2> SUFFICES ASSUME NEW i \in 1 .. m
               PROVE  h[i] = IF i = 1 THEN seqs[i] ELSE h[i - 1] \o seqs[i]
    OBVIOUS
  <2>1. CASE i < m
    <3>1. h[i] = g[i]
      BY <2>1
    <3>2. i # 1 => h[i - 1] = g[i - 1]
      BY <2>1, <1>3
    <3>3. g[i] = IF i = 1 THEN seqs[i] ELSE g[i - 1] \o seqs[i]
      BY <2>1, <1>3, <1>7
    <3> QED
      BY <3>1, <3>2, <3>3
  <2>2. CASE i = m
    <3>1. i # 1 => h[i - 1] = g[i - 1]
      BY <2>2, <1>3
    <3>2. h[i] = IF m = 1 THEN seqs[m] ELSE g[m - 1] \o seqs[m]
      BY <2>2, <1>3
    <3> QED
      BY <2>2, <3>1, <3>2
  <2> QED
    BY <2>1, <2>2, <1>3
<1>9. h = [i \in 1 .. m |-> h[i]]
  OBVIOUS
<1> HIDE DEF h
<1>10. Flat(h, seqs, m)
  BY <1>8, <1>9 DEF Flat
<1> QED
  BY <1>3, <1>10

(* Every place of a flattened sequence is a place of one of its parts,     *)
(* which lies there whole.                                                 *)
LiesIn(whole, part, o) ==
    o + Len(part) <= Len(whole) /\ \A k \in 1 .. Len(part) : whole[o + k] = part[k]

MadeOf(whole, seqs, n) ==
    \A m \in 1 .. Len(whole) : \E i \in 1 .. n, o \in 0 .. Len(whole) :
        /\ o < m /\ m <= o + Len(seqs[i])
        /\ LiesIn(whole, seqs[i], o)

LEMMA LiesFurther ==
    ASSUME NEW whole, NEW new, NEW part, NEW o \in Nat,
           Len(whole) \in Nat, Len(new) \in Nat, Len(part) \in Nat, Len(whole) <= Len(new),
           \A k \in 1 .. Len(whole) : new[k] = whole[k],
           LiesIn(whole, part, o)
    PROVE  LiesIn(new, part, o)
<1>1. o + Len(part) <= Len(whole) /\ \A k \in 1 .. Len(part) : whole[o + k] = part[k]
  BY DEF LiesIn
<1>2. \A k \in 1 .. Len(part) : o + k \in 1 .. Len(whole)
  BY <1>1
<1> QED
  BY <1>1, <1>2 DEF LiesIn

LEMMA Appended ==
    ASSUME NEW S, NEW seqs \in Seq(Seq(S)), NEW n \in 1 .. Len(seqs), NEW whole \in Seq(S),
           MadeOf(whole, seqs, n - 1)
    PROVE  MadeOf(whole \o seqs[n], seqs, n)
<1> DEFINE new == whole \o seqs[n]
<1>1. seqs[n] \in Seq(S) /\ new \in Seq(S) /\ Len(new) = Len(whole) + Len(seqs[n])
  OBVIOUS
<1>2. \A k \in 1 .. Len(whole) : new[k] = whole[k]
  BY <1>1
<1>3. \A k \in 1 .. Len(seqs[n]) : new[Len(whole) + k] = seqs[n][k]
  BY <1>1
<1> HIDE DEF new
<1> SUFFICES ASSUME NEW m \in 1 .. Len(new)
             PROVE  \E i \in 1 .. n, o \in 0 .. Len(new) :
                      /\ o < m /\ m <= o + Len(seqs[i])
                      /\ LiesIn(new, seqs[i], o)
  BY DEF MadeOf, new
<1>4. CASE m <= Len(whole)
  <2>1. m \in 1 .. Len(whole)
    BY <1>1, <1>4
  <2>2. PICK i \in 1 .. n - 1, o \in 0 .. Len(whole) :
           /\ o < m /\ m <= o + Len(seqs[i])
           /\ LiesIn(whole, seqs[i], o)
    BY <2>1 DEF MadeOf
  <2>3. i \in 1 .. n /\ o \in 0 .. Len(new) /\ seqs[i] \in Seq(S)
    BY SMTT(30), <1>1, <2>2
  <2>4. LiesIn(new, seqs[i], o)
    <3>1. Len(seqs[i]) \in Nat /\ Len(whole) \in Nat /\ Len(new) \in Nat /\ o \in Nat
      BY SMTT(30), <1>1, <2>3
    <3>2. Len(whole) <= Len(new)
      BY <1>1
    <3> QED
      BY <1>2, <2>2, <3>1, <3>2, LiesFurther
  <2> QED
    BY <2>2, <2>3, <2>4
<1>5. CASE m > Len(whole)
  <2>1. LiesIn(new, seqs[n], Len(whole)) /\ Len(whole) \in 0 .. Len(new) /\ n \in 1 .. n
    BY <1>1, <1>3 DEF LiesIn
  <2>2. Len(whole) < m /\ m <= Len(whole) + Len(seqs[n])
    BY <1>1, <1>5
  <2> QED
    BY <2>1, <2>2
<1> QED
  BY <1>1, <1>4, <1>5

LEMMA FlatIsMadeOf ==
    ASSUME NEW S, NEW seqs \in Seq(Seq(S)), NEW f, Flat(f, seqs, Len(seqs)),
           NEW n \in 1 .. Len(seqs)
    PROVE  f[n] \in Seq(S) /\ MadeOf(f[n], seqs, n)
<1> DEFINE T == {m \in 1 .. Len(seqs) : ~(f[m] \in Seq(S) /\ MadeOf(f[m], seqs, m))}
<1> SUFFICES ASSUME T # {} PROVE FALSE
  OBVIOUS
<1>1. T \in SUBSET Nat
  OBVIOUS
<1>2. PICK m \in T : \A k \in T : m <= k
  <2> HIDE DEF T
  <2> QED
    BY <1>1, LeastNumber
<1>3. m \in 1 .. Len(seqs) /\ ~(f[m] \in Seq(S) /\ MadeOf(f[m], seqs, m))
  OBVIOUS
<1>4. f[m] = IF m = 1 THEN seqs[m] ELSE f[m - 1] \o seqs[m]
  BY <1>3 DEF Flat
<1>5. seqs[m] \in Seq(S)
  BY <1>3
<1>6. CASE m = 1
  <2>1. <<>> \in Seq(S) /\ MadeOf(<<>>, seqs, m - 1)
    BY <1>6 DEF MadeOf
  <2>2. MadeOf(<<>> \o seqs[m], seqs, m)
    BY <1>3, <2>1, Appended
  <2>3. <<>> \o seqs[m] = seqs[m]
    BY <1>5
  <2> QED
    BY <1>3, <1>4, <1>5, <1>6, <2>2, <2>3
<1>7. CASE m # 1
  <2>1. m - 1 \in 1 .. Len(seqs) /\ m - 1 \notin T
    BY <1>2, <1>3, <1>7
  <2>2. f[m - 1] \in Seq(S) /\ MadeOf(f[m - 1], seqs, m - 1)
    BY <2>1
  <2> HIDE DEF T
  <2>3. MadeOf(f[m - 1] \o seqs[m], seqs, m)
    BY <1>3, <2>2, Appended
  <2> QED
    BY <1>3, <1>4, <1>5, <1>7, <2>2, <2>3
<1> QED
  BY <1>6, <1>7

LEMMA Flattened ==
    ASSUME NEW S, NEW seqs \in Seq(Seq(S))
    PROVE  FlattenSeq(seqs) \in Seq(S) /\ MadeOf(FlattenSeq(seqs), seqs, Len(seqs))
<1>1. CASE Len(seqs) = 0
  <2>1. FlattenSeq(seqs) = seqs
    BY <1>1 DEF FlattenSeq
  <2>2. seqs = <<>>
    BY <1>1
  <2> QED
    BY <2>1, <2>2 DEF MadeOf
<1>2. CASE Len(seqs) # 0
  <2> DEFINE f == CHOOSE g : Flat(g, seqs, Len(seqs))
  <2>1. Flat(f, seqs, Len(seqs))
    <3>1. Len(seqs) \in Nat
      OBVIOUS
    <3>2. \E g : Flat(g, seqs, Len(seqs))
      BY <3>1, FlatExists
    <3> QED
      BY <3>2, Zenon
  <2>2. FlattenSeq(seqs) = f[Len(seqs)]
    BY <1>2 DEF FlattenSeq, Flat
  <2> HIDE DEF f
  <2> QED
    BY <1>2, <2>1, <2>2, FlatIsMadeOf
<1> QED
  BY <1>1, <1>2

(* Who may vote: accounts and censuses.                                    *)

CensusTypeOK ==
    /\ accounts \in [People -> Account \cup {None}]
    /\ elections \in [Elections -> Election \cup {None}]
    /\ started \subseteq Elections
    /\ reqs \in [Requests -> Request]

(* The i-th row a request has yet to write: a voter of the census it was   *)
(* let into, or an account whose censuses are looked up later.             *)
RowOK(q, i) ==
    /\ q.todo[i][1] = "voters" => q.op \in {"domain", "importVoters"} /\ q.todo[i][2] = q.el
    /\ q.op = "domain" => q.todo[i][1] = "voters"
    /\ q.todo[i][1] = "users" /\ q.op # "importVoters" =>
          \E k \in i + 1 .. Len(q.todo) : q.todo[k] = <<"censuses", None, q.todo[i][3]>>

(* What a transaction has written into a census that had begun when the    *)
(* request came in: nothing.                                               *)
HeldOK(q) == \A row \in q.held :
    row[1] = "voters" => row[2] \notin q.born \/ (q.op = "found" /\ row[2] = q.el)

RequestOK(q) ==
    /\ q.stage = "done" => q.op \in {"none", "served"}
    /\ q.stage # "tx" => q.held = {}
    /\ q.op \in {"register", "chief", "apply", "reject", "voter"} => q.file # <<>>
    /\ q.op = "chief" => q.file[1] \in Admins
    /\ q.op \in {"voter", "domain", "importVoters", "found", "stand"} => q.el \in Elections
    /\ q.op \in {"voter", "domain", "importVoters"} => q.el \notin q.born
    /\ q.op = "domain" => q.stage \in {"write", "after"} /\ (q.stage = "write" => q.todo = <<>>)
    /\ q.op = "found" => q.stage = "tx" /\ q.todo = <<>> /\ \A row \in q.held : row[1] = "voters"
    /\ \A i \in 1 .. Len(q.todo) : RowOK(q, i)
    /\ HeldOK(q)

(* The elections it works on are there, or yet to be created.              *)
RequestFits(q) ==
    /\ q.born \subseteq started
    /\ q.op \in {"stand", "domain"} => q.el \in Made
    /\ q.op = "found" => q.el \notin Made

OneFounder == \A r, s \in Requests :
    reqs[r].op = "found" /\ reqs[s].op = "found" /\ reqs[r].el = reqs[s].el => r = s

AccessOK == access \subseteq Made \X Targets

(* A domain that was admitted and whose people are still being added.      *)
Pending(r, e, p) ==
    /\ reqs[r].op = "domain" /\ reqs[r].el = e /\ At(r, "after")
    /\ DomainOf[p] \in reqs[r].opens
    /\ \/ reqs[r].todo = <<>>
       \/ \E i \in 1 .. Len(reqs[r].todo) : reqs[r].todo[i] = <<"voters", e, p>>

IsTaken(e, p) == <<e, p>> \in voters \cup excused \/ \E r \in Requests : Pending(r, e, p)

Entitled(e, p) ==
    e \in Made \ started /\ elections[e].who # "admin" /\ <<e, DomainOf[p]>> \in access

(* A transaction that makes an account and has looked up its elections.    *)
Looked(q, p) ==
    /\ q.op # "importVoters" /\ UserRow(p) \in q.held
    /\ \A i \in 1 .. Len(q.todo) : q.todo[i] # <<"censuses", None, p>>

HasIn(q, e, p) == <<"voters", e, p>> \in q.held

(* Who has an account, or is about to have one, joins.                     *)
Told(e, p) ==
    /\ p \in Approved => IsTaken(e, p)
    /\ \A r \in Requests : Looked(reqs[r], p) => HasIn(reqs[r], e, p) \/ IsTaken(e, p)

Settled == \A e \in Elections, p \in Students : Entitled(e, p) => Told(e, p)

(* A founder has selected those who had an account.                        *)
FounderOK(q) == q.op = "found" =>
    \A p \in Students \cap Approved : q.who # "admin" /\ DomainOf[p] \in q.opens =>
        HasIn(q, q.el, p) \/ <<q.el, p>> \in excused

CensusInv ==
    /\ CensusTypeOK
    /\ \A r \in Requests : RequestOK(reqs[r]) /\ RequestFits(reqs[r]) /\ FounderOK(reqs[r])
    /\ OneFounder /\ AccessOK /\ Settled

-------------------------------------------------------------------------------
(* What has to be shown of a step.                                         *)
LEMMA CensusFrame ==
    ASSUME CensusInv, CensusTypeOK', NEW R \in SUBSET Requests,
           started \subseteq started', Made \subseteq Made', excused \subseteq excused',
           \A r \in Requests \ R : reqs'[r] = reqs[r],
           \A r \in R : RequestOK(reqs'[r]) /\ RequestFits(reqs[r])' /\ FounderOK(reqs[r])',
           \A r \in Requests \ R : reqs[r].op = "found" => reqs[r].el \notin Made',
           OneFounder', AccessOK',
           \A p \in Students \cap Approved', r \in Requests \ R :
               p \notin Approved /\ reqs[r].op = "found" => <<reqs[r].el, p>> \in excused',
           \A e \in Elections, p \in Students :
               /\ Entitled(e, p)' => Entitled(e, p) \/ Told(e, p)'
               /\ Entitled(e, p)' /\ p \in Approved' /\ p \notin Approved => IsTaken(e, p)'
               /\ Entitled(e, p) /\ IsTaken(e, p) => IsTaken(e, p)' \/ Told(e, p)'
               /\ \A r \in R : Looked(reqs'[r], p) /\ Entitled(e, p) =>
                     HasIn(reqs'[r], e, p) \/ IsTaken(e, p)
    PROVE  CensusInv'
<1>1. ASSUME NEW r \in Requests
      PROVE  RequestOK(reqs'[r]) /\ RequestFits(reqs[r])' /\ FounderOK(reqs[r])'
  <2>1. CASE r \in R
    BY <2>1
  <2>2. CASE r \notin R
    <3>1. /\ reqs'[r] = reqs[r]
          /\ RequestOK(reqs[r]) /\ RequestFits(reqs[r]) /\ FounderOK(reqs[r])
      BY <2>2 DEF CensusInv
    <3>2. RequestFits(reqs[r])'
      BY <2>2, <3>1 DEF RequestFits
    <3>3. FounderOK(reqs[r])'
      <4> SUFFICES ASSUME reqs[r].op = "found", NEW p \in Students \cap Approved',
                          reqs[r].who # "admin", DomainOf[p] \in reqs[r].opens
                   PROVE  HasIn(reqs[r], reqs[r].el, p) \/ <<reqs[r].el, p>> \in excused'
        BY <3>1 DEF FounderOK
      <4>1. CASE p \in Approved
        BY <3>1, <4>1 DEF FounderOK
      <4>2. CASE p \notin Approved
        BY <2>2, <4>2
      <4> QED
        BY <4>1, <4>2
    <3> QED
      BY <3>1, <3>2, <3>3
  <2> QED
    BY <2>1, <2>2
<1>2. ASSUME NEW e \in Elections, NEW p \in Students, Entitled(e, p)', ~Told(e, p)'
      PROVE  FALSE
  <2>1. Entitled(e, p) /\ Told(e, p)
    BY <1>2 DEF CensusInv, Settled
  <2>2. IsTaken(e, p) => IsTaken(e, p)'
    BY <1>2, <2>1
  <2>3. p \in Approved' => IsTaken(e, p)'
    BY <1>2, <2>1, <2>2 DEF Told
  <2>4. ASSUME NEW r \in Requests, Looked(reqs'[r], p)
        PROVE  HasIn(reqs'[r], e, p) \/ IsTaken(e, p)'
    <3>1. CASE r \in R
      BY <2>1, <2>2, <2>4, <3>1
    <3>2. CASE r \notin R
      BY <2>1, <2>2, <2>4, <3>2 DEF Told
    <3> QED
      BY <3>1, <3>2
  <2> QED
    BY <1>2, <2>3, <2>4 DEF Told
<1> QED
  BY <1>1, <1>2 DEF CensusInv, Settled

(* A step of one request that founds nothing and opens nothing.            *)
LEMMA RequestMoves ==
    ASSUME CensusInv, NEW r \in Requests, NEW q \in Request,
           reqs' = [reqs EXCEPT ![r] = q],
           RequestOK(q), RequestFits(q), q.op # "found",
           accounts' \in [People -> Account \cup {None}],
           Approved' \cap Students \subseteq Approved,
           elections' \in [Elections -> Election \cup {None}],
           Made' = Made, \A e \in Made : elections'[e].who = elections[e].who,
           access' = access, started' = started,
           voters \subseteq voters', excused \subseteq excused',
           \A e \in Elections, p \in Students :
               /\ Pending(r, e, p) => IsTaken(e, p)'
               /\ Looked(q, p) /\ Entitled(e, p) => HasIn(q, e, p) \/ IsTaken(e, p)
    PROVE  CensusInv'
<1>1. CensusTypeOK
  BY DEF CensusInv
<1>2. reqs' \in [Requests -> Request] /\ reqs'[r] = q /\ \A s \in Requests \ {r} : reqs'[s] = reqs[s]
  BY <1>1 DEF CensusTypeOK
<1>3. CensusTypeOK'
  BY <1>1, <1>2 DEF CensusTypeOK
<1>4. RequestFits(reqs[r])' /\ FounderOK(reqs[r])'
  BY <1>2 DEF RequestFits, FounderOK
<1>5. \A s \in Requests \ {r} : reqs[s].op = "found" => reqs[s].el \notin Made'
  BY DEF CensusInv, RequestFits
<1>6. OneFounder' /\ AccessOK'
  BY <1>2 DEF CensusInv, OneFounder, AccessOK
<1>7. ASSUME NEW e \in Elections, NEW p \in Students
      PROVE  /\ Entitled(e, p)' = Entitled(e, p)
             /\ IsTaken(e, p) => IsTaken(e, p)'
  <2>1. Entitled(e, p)' = Entitled(e, p)
    BY DEF Entitled
  <2>2. \A s \in Requests \ {r} : Pending(s, e, p) => Pending(s, e, p)'
    BY <1>2 DEF Pending, At
  <2>3. IsTaken(e, p) => IsTaken(e, p)'
    BY <2>2 DEF IsTaken
  <2> QED
    BY <2>1, <2>3
<1> DEFINE R == {r}
<1>8. /\ R \in SUBSET Requests
      /\ \A s \in Requests \ R : reqs'[s] = reqs[s]
      /\ \A s \in Requests \ R : reqs[s].op = "found" => reqs[s].el \notin Made'
  BY <1>2, <1>5
<1>9. \A s \in R : RequestOK(reqs'[s]) /\ RequestFits(reqs[s])' /\ FounderOK(reqs[s])'
  BY <1>2, <1>4
<1>10. started \subseteq started' /\ Made \subseteq Made' /\ excused \subseteq excused'
  OBVIOUS
<1>11. \A p \in Students \cap Approved', s \in Requests \ R :
         p \notin Approved /\ reqs[s].op = "found" => <<reqs[s].el, p>> \in excused'
  OBVIOUS
<1>12. \A e \in Elections, p \in Students :
               /\ Entitled(e, p)' => Entitled(e, p) \/ Told(e, p)'
               /\ Entitled(e, p)' /\ p \in Approved' /\ p \notin Approved => IsTaken(e, p)'
               /\ Entitled(e, p) /\ IsTaken(e, p) => IsTaken(e, p)' \/ Told(e, p)'
               /\ \A s \in R : Looked(reqs'[s], p) /\ Entitled(e, p) =>
                     HasIn(reqs'[s], e, p) \/ IsTaken(e, p)
  BY <1>2, <1>7
<1> HIDE DEF R
<1> QED
  BY <1>3, <1>6, <1>8, <1>9, <1>10, <1>11, <1>12, CensusFrame

(* Nothing but one request moves, and it was adding nobody.                *)
LEMMA OnlyRequestMoves ==
    ASSUME CensusInv, NEW r \in Requests, NEW q \in Request,
           reqs' = [reqs EXCEPT ![r] = q],
           RequestOK(q), RequestFits(q), q.op # "found",
           UNCHANGED <<accounts, elections, access, started>>,
           voters \subseteq voters', excused \subseteq excused',
           reqs[r].op # "domain" \/ reqs[r].stage # "after",
           \A e \in Elections, p \in Students :
               Looked(q, p) /\ Entitled(e, p) => HasIn(q, e, p) \/ IsTaken(e, p)
    PROVE  CensusInv'
<1>1. Approved' = Approved /\ Made' = Made
  BY DEF Approved, Has, Made
<1>2. \A e \in Elections, p \in Students : ~Pending(r, e, p)
  BY DEF Pending, At
<1>3. /\ accounts' \in [People -> Account \cup {None}]
      /\ elections' \in [Elections -> Election \cup {None}]
      /\ \A e \in Made : elections'[e].who = elections[e].who
      /\ Approved' \cap Students \subseteq Approved
  BY <1>1 DEF CensusInv, CensusTypeOK
<1>4. access' = access /\ started' = started
  OBVIOUS
<1>5. \A e \in Elections, p \in Students :
        /\ Pending(r, e, p) => IsTaken(e, p)'
        /\ Looked(q, p) /\ Entitled(e, p) => HasIn(q, e, p) \/ IsTaken(e, p)
  BY <1>2
<1> QED
  BY <1>1, <1>3, <1>4, <1>5, RequestMoves

-------------------------------------------------------------------------------
(* The requests come in.                                                   *)
LEMMA Rows ==
    /\ \A p \in People : UserRow(p) \in Row /\ <<"censuses", None, p>> \in Row
                         /\ <<"applications", None, p>> \in Row
    /\ \A p \in People, s \in Targets : <<"list", s, p>> \in Row /\ <<"spent", s, p>> \in Row
    /\ \A p \in People, e \in Elections : <<"voters", e, p>> \in Row
    /\ \A row \in Row : row = <<row[1], row[2], row[3]>> /\ row[3] \in People
BY DEF Row, UserRow

LEMMA Arriving ==
    ASSUME CensusInv, NEW r \in Requests, reqs[r].op = "none", NEW q \in Request, Arrives(r, q),
           q.held = {}, q.stage # "done", q.op # "found",
           q.op \in {"register", "chief", "apply", "reject", "voter"} => q.file # <<>>,
           q.op = "chief" => q.file[1] \in Admins,
           q.op \in {"voter", "domain", "importVoters", "stand"} => q.el \in Made,
           q.op \in {"voter", "domain", "importVoters"} => q.el \notin started,
           q.op = "domain" => q.stage = "write" /\ q.todo = <<>>,
           \A i \in 1 .. Len(q.todo) : RowOK(q, i)
    PROVE  CensusInv'
<1> DEFINE n == [q EXCEPT !.born = started]
<1>1. started \subseteq Elections /\ Made \subseteq Elections
  BY DEF CensusInv, CensusTypeOK, Made
<1>2. /\ n \in Request /\ n.born = started /\ n.op = q.op /\ n.stage = q.stage
      /\ n.file = q.file /\ n.el = q.el /\ n.opens = q.opens /\ n.todo = q.todo
      /\ n.held = q.held
  BY <1>1 DEF Request
<1>3. reqs' = [reqs EXCEPT ![r] = n]
  BY DEF Arrives
<1> HIDE DEF n
<1>4. \A i \in 1 .. Len(n.todo) : RowOK(n, i)
  BY <1>2 DEF RowOK
<1>5. RequestOK(n)
  BY <1>1, <1>2, <1>4 DEF RequestOK, HeldOK
<1>6. RequestFits(n)
  BY <1>2 DEF RequestFits
<1>7. /\ UNCHANGED <<accounts, elections, access, started>>
      /\ voters \subseteq voters' /\ excused \subseteq excused'
  BY DEF Arrives, people, polls
<1>8. \A p \in Students : ~Looked(n, p)
  BY <1>2 DEF Looked
<1> QED
  BY <1>2, <1>3, <1>5, <1>6, <1>7, <1>8, OnlyRequestMoves

LEMMA Blank ==
    /\ NoRequest \in Request /\ NoRequest.held = {} /\ NoRequest.todo = <<>>
    /\ \A p \in People : <<p>> \in Seq(People) /\ <<p>> # <<>> /\ <<p>>[1] = p
<1>1. Everyone \in Targets /\ <<>> \in Seq(People) /\ <<>> \in Seq(Row)
  BY DEF Targets
<1>2. \A p \in People : <<p>> \in Seq(People) /\ <<p>> # <<>> /\ <<p>>[1] = p
  OBVIOUS
<1>3. NoRequest \in Request
  <2> HIDE DEF Row
  <2> QED
    BY <1>1 DEF NoRequest, Request
<1> QED
  BY <1>2, <1>3 DEF NoRequest

(* A request of one person or of one election.                             *)
LEMMA SimpleArrivals ==
    ASSUME CensusInv, NEW r \in Requests, reqs[r].op = "none",
           \/ \E p \in People :
                 \/ Register(r, p) \/ Apply(r, p)
                 \/ \E spelt \in Spellings : CreateDomainAdmin(r, p, spelt)
                 \/ \E scope \in Scopes : Reject(r, p, scope)
           \/ \E e \in Elections, scope \in Scopes :
                 \/ \E d \in Targets : AddDomain(r, e, d, scope)
                 \/ \E p \in People : AddVoter(r, e, p, scope)
                 \/ AddCandidate(r, e, scope)
    PROVE  CensusInv'
<1>1. ASSUME NEW p \in People, Register(r, p) PROVE CensusInv'
  <2> DEFINE q == [NoRequest EXCEPT !.op = "register", !.stage = "write", !.file = <<p>>]
  <2>1. /\ q \in Request /\ q.op = "register" /\ q.stage = "write" /\ q.file # <<>>
        /\ q.held = {} /\ q.todo = <<>>
    BY ZenonT(40), Blank DEF Request, Ops, Targets
  <2>2. Arrives(r, q)
    BY <1>1 DEF Register
  <2> HIDE DEF q
  <2> QED
    BY <2>1, <2>2, Arriving
<1>2. ASSUME NEW p \in People, Apply(r, p) PROVE CensusInv'
  <2> DEFINE q == [NoRequest EXCEPT !.op = "apply", !.stage = "read", !.file = <<p>>]
  <2>1. /\ q \in Request /\ q.op = "apply" /\ q.stage = "read" /\ q.file # <<>>
        /\ q.held = {} /\ q.todo = <<>>
    BY ZenonT(40), Blank DEF Request, Ops, Targets
  <2>2. Arrives(r, q)
    BY <1>2 DEF Apply
  <2> HIDE DEF q
  <2> QED
    BY <2>1, <2>2, Arriving
<1>3. ASSUME NEW p \in People, NEW spelt \in Spellings, CreateDomainAdmin(r, p, spelt)
      PROVE  CensusInv'
  <2> DEFINE q == [NoRequest EXCEPT !.op = "chief", !.stage = "write", !.file = <<p>>, !.spelt = spelt]
  <2>0. spelt \in {"lower", "mixed"}
    BY CensusAssumption
  <2>1. /\ q \in Request /\ q.op = "chief" /\ q.stage = "write" /\ q.file = <<p>>
        /\ q.held = {} /\ q.todo = <<>>
    BY <2>0, Blank DEF Request, Ops
  <2>2. Arrives(r, q) /\ p \in Admins
    BY <1>3 DEF CreateDomainAdmin
  <2> HIDE DEF q
  <2>3. q.file # <<>> /\ q.file[1] \in Admins
    BY <2>1, <2>2
  <2> QED
    BY <2>1, <2>2, <2>3, Arriving
<1>4. ASSUME NEW p \in People, NEW scope \in Scopes, Reject(r, p, scope) PROVE CensusInv'
  <2> DEFINE q == [NoRequest EXCEPT !.op = "reject", !.stage = "write", !.file = <<p>>]
  <2>1. /\ q \in Request /\ q.op = "reject" /\ q.stage = "write" /\ q.file # <<>>
        /\ q.held = {} /\ q.todo = <<>>
    BY ZenonT(40), Blank DEF Request, Ops, Targets
  <2>2. Arrives(r, q)
    BY <1>4 DEF Reject
  <2> HIDE DEF q
  <2> QED
    BY <2>1, <2>2, Arriving
<1>5. ASSUME NEW e \in Elections, NEW scope \in Scopes, NEW d \in Targets, AddDomain(r, e, d, scope)
      PROVE  CensusInv'
  <2> DEFINE q == [NoRequest EXCEPT !.op = "domain", !.stage = "write", !.el = e, !.opens = {d}]
  <2>0. {d} \in SUBSET Targets
    OBVIOUS
  <2>1. /\ q \in Request /\ q.op = "domain" /\ q.stage = "write" /\ q.el = e
        /\ q.held = {} /\ q.todo = <<>>
    BY <2>0, Blank DEF Request, Ops
  <2>2. Arrives(r, q) /\ e \in Made /\ e \notin started
    BY <1>5 DEF AddDomain, CensusOpen
  <2> HIDE DEF q
  <2> QED
    BY <2>1, <2>2, Arriving
<1>6. ASSUME NEW e \in Elections, NEW scope \in Scopes, NEW p \in People, AddVoter(r, e, p, scope)
      PROVE  CensusInv'
  <2> DEFINE q == [NoRequest EXCEPT !.op = "voter", !.stage = "write", !.el = e, !.file = <<p>>]
  <2>1. /\ q \in Request /\ q.op = "voter" /\ q.stage = "write" /\ q.el = e /\ q.file # <<>>
        /\ q.held = {} /\ q.todo = <<>>
    BY ZenonT(40), Blank DEF Request, Ops, Targets
  <2>2. Arrives(r, q) /\ e \in Made /\ e \notin started
    BY <1>6 DEF AddVoter, CensusOpen
  <2> HIDE DEF q
  <2> QED
    BY <2>1, <2>2, Arriving
<1>7. ASSUME NEW e \in Elections, NEW scope \in Scopes, AddCandidate(r, e, scope)
      PROVE  CensusInv'
  <2> DEFINE q == [NoRequest EXCEPT !.op = "stand", !.stage = "read", !.el = e]
  <2>1. /\ q \in Request /\ q.op = "stand" /\ q.stage = "read" /\ q.el = e
        /\ q.held = {} /\ q.todo = <<>>
    BY ZenonT(40), Blank DEF Request, Ops, Targets
  <2>2. Arrives(r, q) /\ e \in Made
    BY <1>7 DEF AddCandidate
  <2> HIDE DEF q
  <2> QED
    BY <2>1, <2>2, Arriving
<1> QED
  BY <1>1, <1>2, <1>3, <1>4, <1>5, <1>6, <1>7

(* An account, and then its censuses.                                      *)
LEMMA AccountRows ==
    ASSUME NEW q, NEW p, q.op \notin {"domain", "importVoters"},
           q.todo = <<UserRow(p), <<"censuses", None, p>>>>
    PROVE  \A i \in 1 .. Len(q.todo) : RowOK(q, i)
<1>1. UserRow(p)[1] = "users" /\ UserRow(p)[3] = p
  BY DEF UserRow
<1>2. Len(q.todo) = 2 /\ q.todo[1] = UserRow(p) /\ q.todo[2] = <<"censuses", None, p>>
  OBVIOUS
<1>3. 1 .. Len(q.todo) = {1, 2} /\ 2 \in 1 + 1 .. Len(q.todo)
  BY <1>2
<1>4. RowOK(q, 1)
  BY <1>1, <1>2, <1>3 DEF RowOK
<1>5. RowOK(q, 2)
  BY <1>2 DEF RowOK
<1> QED
  BY <1>3, <1>4, <1>5

LEMMA AccountRowsBetween ==
    ASSUME NEW q, NEW p, q.op \notin {"domain", "importVoters"},
           NEW s, s[1] \in {"applications", "spent"},
           q.todo = <<UserRow(p), s, <<"censuses", None, p>>>>
    PROVE  \A i \in 1 .. Len(q.todo) : RowOK(q, i)
<1>1. UserRow(p)[1] = "users" /\ UserRow(p)[3] = p
  BY DEF UserRow
<1>2. Len(q.todo) = 3 /\ q.todo[1] = UserRow(p) /\ q.todo[2] = s
      /\ q.todo[3] = <<"censuses", None, p>>
  OBVIOUS
<1>3. 1 .. Len(q.todo) = {1, 2, 3} /\ 3 \in 1 + 1 .. Len(q.todo)
  BY <1>2
<1>4. RowOK(q, 1)
  BY <1>1, <1>2, <1>3 DEF RowOK
<1>5. RowOK(q, 2) /\ RowOK(q, 3)
  BY <1>2 DEF RowOK
<1> QED
  BY <1>3, <1>4, <1>5

(* A transaction that makes an account.                                    *)
LEMMA OneAccountArrivals ==
    ASSUME CensusInv, NEW r \in Requests, reqs[r].op = "none",
           NEW p \in People, NEW scope \in Scopes,
           CreateUser(r, p, scope) \/ Accept(r, p, scope)
    PROVE  CensusInv'
<1>1. UserRow(p) \in Row /\ <<"censuses", None, p>> \in Row /\ <<"applications", None, p>> \in Row
  BY Rows
<1>2. CASE CreateUser(r, p, scope)
  <2> DEFINE todo == <<UserRow(p), <<"censuses", None, p>>>>
             q == [NoRequest EXCEPT !.op = "create", !.stage = "tx", !.file = <<p>>, !.todo = todo]
  <2>1. todo \in Seq(Row)
    BY <1>1
  <2>2. Arrives(r, q)
    BY <1>2 DEF CreateUser
  <2>3. todo = <<UserRow(p), <<"censuses", None, p>>>>
    OBVIOUS
  <2> HIDE DEF todo
  <2>4. /\ q \in Request /\ q.op = "create" /\ q.stage = "tx" /\ q.held = {} /\ q.todo = todo
    BY ZenonT(40), <2>1, Blank DEF Request, Ops, Targets
  <2> HIDE DEF q
  <2>5. \A i \in 1 .. Len(q.todo) : RowOK(q, i)
    BY <2>3, <2>4, AccountRows
  <2> QED
    BY <2>2, <2>4, <2>5, Arriving
<1>3. CASE Accept(r, p, scope)
  <2> DEFINE todo == <<UserRow(p), <<"applications", None, p>>, <<"censuses", None, p>>>>
             q == [NoRequest EXCEPT !.op = "accept", !.stage = "tx", !.file = <<p>>, !.todo = todo]
  <2>1. todo \in Seq(Row)
    BY <1>1
  <2>2. Arrives(r, q)
    BY <1>3 DEF Accept
  <2>3. PICK s : /\ todo = <<UserRow(p), s, <<"censuses", None, p>>>>
                 /\ s[1] \in {"applications", "spent"}
    <3>1. <<"applications", None, p>>[1] = "applications"
      OBVIOUS
    <3> QED
      BY <3>1
  <2> HIDE DEF todo
  <2>4. /\ q \in Request /\ q.op = "accept" /\ q.stage = "tx" /\ q.held = {} /\ q.todo = todo
    BY ZenonT(40), <2>1, Blank DEF Request, Ops, Targets
  <2> HIDE DEF q
  <2>5. \A i \in 1 .. Len(q.todo) : RowOK(q, i)
    BY <2>3, <2>4, AccountRowsBetween
  <2> QED
    BY <2>2, <2>4, <2>5, Arriving
<1> QED
  BY <1>2, <1>3

(* The rows of a file are those of its lines, one line after the other.    *)
LEMMA ImportRows ==
    ASSUME NEW file \in Seq(People), NEW rowsFor,
           \A p \in InFile(file) : rowsFor[p] \in Seq(Row)
    PROVE  /\ RowsOf(file, rowsFor) \in Seq(Row)
           /\ \A i \in 1 .. Len(RowsOf(file, rowsFor)) :
                 \E p \in InFile(file), o \in Nat :
                     /\ o < i /\ i <= o + Len(rowsFor[p])
                     /\ LiesIn(RowsOf(file, rowsFor), rowsFor[p], o)
<1> HIDE DEF Row, People
<1> DEFINE parts == [i \in 1 .. Len(file) |-> rowsFor[file[i]]]
<1>1. \A i \in 1 .. Len(file) : file[i] \in InFile(file)
  BY DEF InFile
<1>2. /\ parts \in Seq(Seq(Row)) /\ Len(parts) = Len(file)
      /\ \A i \in 1 .. Len(parts) : parts[i] = rowsFor[file[i]]
  BY <1>1
<1>3. RowsOf(file, rowsFor) = FlattenSeq(parts)
  BY DEF RowsOf
<1> HIDE DEF parts
<1> DEFINE whole == FlattenSeq(parts)
<1>4. whole \in Seq(Row) /\ MadeOf(whole, parts, Len(parts))
  BY <1>2, Flattened
<1> HIDE DEF whole
<1>5. ASSUME NEW i \in 1 .. Len(whole)
      PROVE  \E p \in InFile(file), o \in Nat :
                 o < i /\ i <= o + Len(rowsFor[p]) /\ LiesIn(whole, rowsFor[p], o)
  <2>1. PICK j \in 1 .. Len(parts), o \in 0 .. Len(whole) :
          o < i /\ i <= o + Len(parts[j]) /\ LiesIn(whole, parts[j], o)
    BY <1>4 DEF MadeOf
  <2>2. file[j] \in InFile(file) /\ parts[j] = rowsFor[file[j]] /\ o \in Nat
    BY <1>1, <1>2, <1>4, <2>1
  <2> QED
    BY <2>1, <2>2
<1> QED
  BY <1>3, <1>4, <1>5 DEF whole

LEMMA Concatenated ==
    ASSUME NEW S, NEW x \in S, NEW y \in S, NEW z \in S
    PROVE  /\ <<x>> \o <<>> = <<x>> /\ <<>> \o <<x>> = <<x>>
           /\ <<x>> \o <<y>> = <<x, y>> /\ <<x>> \o <<y, z>> = <<x, y, z>>
<1>1. <<x>> \in Seq(S) /\ <<y>> \in Seq(S) /\ <<x, y>> \in Seq(S)
      /\ <<y, z>> \in Seq(S) /\ <<x, y, z>> \in Seq(S)
  OBVIOUS
<1>2. \A s, t \in Seq(S) : Len(s) = Len(t) /\ (\A i \in 1 .. Len(s) : s[i] = t[i]) => s = t
  OBVIOUS
<1>3. <<x>> \o <<y>> = <<x, y>>
  <2> DEFINE s == <<x>> \o <<y>>
             t == <<x, y>>
  <2>1. /\ s \in Seq(S) /\ t \in Seq(S) /\ Len(s) = 2 /\ Len(t) = 2
        /\ s[1] = x /\ s[2] = y /\ t[1] = x /\ t[2] = y
    BY <1>1
  <2>2. \A i \in 1 .. 2 : i = 1 \/ i = 2
    OBVIOUS
  <2> HIDE DEF s, t
  <2>3. s = t
    BY <1>2, <2>1, <2>2
  <2> QED
    BY <2>3 DEF s, t
<1>4. <<x>> \o <<y, z>> = <<x, y, z>>
  <2> DEFINE s == <<x>> \o <<y, z>>
             t == <<x, y, z>>
  <2>1. /\ s \in Seq(S) /\ t \in Seq(S) /\ Len(s) = 3 /\ Len(t) = 3
        /\ s[1] = x /\ s[2] = y /\ s[3] = z /\ t[1] = x /\ t[2] = y /\ t[3] = z
    BY <1>1
  <2>2. \A i \in 1 .. 3 : i = 1 \/ i = 2 \/ i = 3
    OBVIOUS
  <2> HIDE DEF s, t
  <2>3. s = t
    BY <1>2, <2>1, <2>2
  <2> QED
    BY <2>3 DEF s, t
<1>5. <<x>> \o <<>> = <<x>> /\ <<>> \o <<x>> = <<x>>
  OBVIOUS
<1> QED
  BY <1>3, <1>4, <1>5

LEMMA ImportUsersArrives ==
    ASSUME CensusInv, NEW r \in Requests, reqs[r].op = "none",
           NEW file \in Files, NEW spelt \in Spellings, NEW scope \in Scopes,
           ImportUsers(r, file, spelt, scope)
    PROVE  CensusInv'
<1> DEFINE rowsFor == [p \in InFile(file) |->
                          <<<<"list", scope, p>>>>
                          \o IF Found(p, spelt) THEN <<>>
                             ELSE <<UserRow(p), <<"censuses", None, p>>>>]
           todo == RowsOf(file, rowsFor)
           q == [NoRequest EXCEPT !.op = "importUsers", !.stage = "tx", !.file = file,
                   !.spelt = spelt, !.todo = todo]
<1>1. Arrives(r, q)
  BY DEF ImportUsers
<1>2. file \in Seq(People) /\ InFile(file) \subseteq People /\ scope \in Targets
      /\ spelt \in {"lower", "mixed"}
  <2>1. file \in Seq(People) /\ scope \in Targets /\ spelt \in {"lower", "mixed"}
    BY CensusAssumption DEF People
  <2> QED
    BY <2>1 DEF InFile
<1>3. ASSUME NEW p \in InFile(file)
      PROVE  \/ /\ rowsFor[p] = <<<<"list", scope, p>>>>
                /\ rowsFor[p] \in Seq(Row)
             \/ /\ rowsFor[p] = <<<<"list", scope, p>>, UserRow(p), <<"censuses", None, p>>>>
                /\ rowsFor[p] \in Seq(Row)
  <2>1. <<"list", scope, p>> \in Row /\ UserRow(p) \in Row /\ <<"censuses", None, p>> \in Row
    BY <1>2, Rows
  <2>2. /\ <<<<"list", scope, p>>>> \o <<>> = <<<<"list", scope, p>>>>
        /\ <<<<"list", scope, p>>>> \o <<UserRow(p), <<"censuses", None, p>>>>
              = <<<<"list", scope, p>>, UserRow(p), <<"censuses", None, p>>>>
    <3> HIDE DEF Row
    <3> QED
      BY ZenonT(40), <2>1, Concatenated
  <2>3. CASE Found(p, spelt)
    <3>1. rowsFor[p] = <<<<"list", scope, p>>>> \o <<>>
      BY <2>3
    <3>2. rowsFor[p] = <<<<"list", scope, p>>>>
      BY <2>2, <3>1
    <3> HIDE DEF rowsFor, Row
    <3> QED
      BY <2>1, <3>2
  <2>4. CASE ~Found(p, spelt)
    <3>1. rowsFor[p] = <<<<"list", scope, p>>>> \o <<UserRow(p), <<"censuses", None, p>>>>
      BY <2>4
    <3> HIDE DEF rowsFor, Row
    <3>2. rowsFor[p] = <<<<"list", scope, p>>, UserRow(p), <<"censuses", None, p>>>>
      BY <2>2, <3>1
    <3> QED
      BY <2>1, <3>2
  <2> QED
    BY <2>3, <2>4
<1> HIDE DEF rowsFor
<1>4. /\ todo \in Seq(Row)
      /\ \A i \in 1 .. Len(todo) : \E p \in InFile(file), o \in Nat :
            o < i /\ i <= o + Len(rowsFor[p]) /\ LiesIn(todo, rowsFor[p], o)
  BY <1>2, <1>3, ImportRows
<1> HIDE DEF todo
<1>5. /\ q \in Request /\ q.op = "importUsers" /\ q.stage = "tx" /\ q.held = {} /\ q.todo = todo
  BY ZenonT(40), <1>2, <1>4, Blank DEF Request, Ops
<1> HIDE DEF q
<1>6. ASSUME NEW i \in 1 .. Len(todo) PROVE RowOK(q, i)
  <2>1. PICK p \in InFile(file), o \in Nat :
            o < i /\ i <= o + Len(rowsFor[p]) /\ LiesIn(todo, rowsFor[p], o)
    BY <1>4
  <2> DEFINE part == rowsFor[p]
  <2>2. /\ o + Len(part) <= Len(todo) /\ \A k \in 1 .. Len(part) : todo[o + k] = part[k]
    BY <2>1 DEF LiesIn
  <2>3. UserRow(p)[1] = "users" /\ UserRow(p)[3] = p
    BY DEF UserRow
  <2>4. CASE part = <<<<"list", scope, p>>>>
    <3>1. Len(part) = 1 /\ part[1] = <<"list", scope, p>>
      BY <2>4
    <3> HIDE DEF part
    <3>2. o + 1 = i /\ 1 \in 1 .. Len(part)
      BY <2>1, <3>1 DEF part
    <3>3. todo[i] = <<"list", scope, p>>
      BY <2>2, <3>1, <3>2
    <3> QED
      BY <1>5, <3>3 DEF RowOK
  <2>5. CASE part = <<<<"list", scope, p>>, UserRow(p), <<"censuses", None, p>>>>
    <3>1. /\ Len(part) = 3 /\ part[1] = <<"list", scope, p>> /\ part[2] = UserRow(p)
          /\ part[3] = <<"censuses", None, p>>
      BY <2>5
    <3> HIDE DEF part
    <3>2. /\ i = o + 1 \/ i = o + 2 \/ i = o + 3
          /\ 1 \in 1 .. Len(part) /\ 2 \in 1 .. Len(part) /\ 3 \in 1 .. Len(part)
      BY <2>1, <3>1 DEF part
    <3>3. /\ todo[o + 1] = <<"list", scope, p>> /\ todo[o + 2] = UserRow(p)
          /\ todo[o + 3] = <<"censuses", None, p>>
      BY <2>2, <3>1, <3>2
    <3>4. i # o + 2 => RowOK(q, i)
      BY <1>5, <3>2, <3>3 DEF RowOK
    <3>5. ASSUME i = o + 2 PROVE RowOK(q, i)
      <4>1. o + 3 \in i + 1 .. Len(todo)
        BY <2>2, <3>1, <3>5
      <4> QED
        BY <1>5, <2>3, <3>3, <3>5, <4>1 DEF RowOK
    <3> QED
      BY <3>4, <3>5
  <2> QED
    BY <1>3, <2>4, <2>5
<1> QED
  BY <1>1, <1>5, <1>6, Arriving

LEMMA ImportVotersArrives ==
    ASSUME CensusInv, NEW r \in Requests, reqs[r].op = "none", NEW e \in Elections,
           NEW file \in Files, NEW spelt \in Spellings, NEW scope \in Scopes,
           ImportVoters(r, e, file, spelt, scope)
    PROVE  CensusInv'
<1> DEFINE rowsFor == [p \in InFile(file) |->
                          (IF Found(p, spelt) THEN <<>> ELSE <<UserRow(p)>>)
                          \o <<<<"voters", e, p>>>>]
           todo == RowsOf(file, rowsFor)
           q == [NoRequest EXCEPT !.op = "importVoters", !.stage = "tx", !.file = file,
                   !.el = e, !.spelt = spelt, !.todo = todo]
<1>1. Arrives(r, q) /\ e \in Made /\ e \notin started
  BY DEF ImportVoters, CensusOpen
<1>2. file \in Seq(People) /\ InFile(file) \subseteq People /\ scope \in Targets
      /\ spelt \in {"lower", "mixed"}
  <2>1. file \in Seq(People) /\ scope \in Targets /\ spelt \in {"lower", "mixed"}
    BY CensusAssumption DEF People
  <2> QED
    BY <2>1 DEF InFile
<1>3. ASSUME NEW p \in InFile(file)
      PROVE  /\ rowsFor[p] \in Seq(Row)
             /\ \A k \in 1 .. Len(rowsFor[p]) :
                   rowsFor[p][k] \in {UserRow(p), <<"voters", e, p>>}
  <2>1. UserRow(p) \in Row /\ <<"voters", e, p>> \in Row
    BY <1>2, Rows
  <2>2. /\ <<>> \o <<<<"voters", e, p>>>> = <<<<"voters", e, p>>>>
        /\ <<UserRow(p)>> \o <<<<"voters", e, p>>>> = <<UserRow(p), <<"voters", e, p>>>>
    <3> HIDE DEF Row
    <3> QED
      BY <2>1, Concatenated
  <2>3. CASE Found(p, spelt)
    <3>1. rowsFor[p] = <<>> \o <<<<"voters", e, p>>>>
      BY <2>3
    <3> HIDE DEF rowsFor, Row
    <3>2. rowsFor[p] = <<<<"voters", e, p>>>>
      BY <2>2, <3>1
    <3> QED
      BY <2>1, <3>2
  <2>4. CASE ~Found(p, spelt)
    <3>1. rowsFor[p] = <<UserRow(p)>> \o <<<<"voters", e, p>>>>
      BY <2>4
    <3> HIDE DEF rowsFor, Row
    <3>2. rowsFor[p] = <<UserRow(p), <<"voters", e, p>>>>
      BY <2>2, <3>1
    <3> QED
      BY <2>1, <3>2
  <2> QED
    BY <2>3, <2>4
<1> HIDE DEF rowsFor
<1>4. /\ todo \in Seq(Row)
      /\ \A i \in 1 .. Len(todo) : \E p \in InFile(file), o \in Nat :
            o < i /\ i <= o + Len(rowsFor[p]) /\ LiesIn(todo, rowsFor[p], o)
  BY <1>2, <1>3, ImportRows
<1> HIDE DEF todo
<1>5. /\ q \in Request /\ q.op = "importVoters" /\ q.stage = "tx" /\ q.held = {} /\ q.todo = todo
      /\ q.el = e
  BY ZenonT(40), <1>2, <1>4, Blank DEF Request, Ops
<1> HIDE DEF q
<1>6. ASSUME NEW i \in 1 .. Len(todo) PROVE RowOK(q, i)
  <2>1. PICK p \in InFile(file), o \in Nat :
            o < i /\ i <= o + Len(rowsFor[p]) /\ LiesIn(todo, rowsFor[p], o)
    BY <1>4
  <2> DEFINE k == i - o
  <2>2. k \in 1 .. Len(rowsFor[p]) /\ o + k = i
    <3>1. Len(rowsFor[p]) \in Nat
      BY <1>3
    <3> QED
      BY <2>1, <3>1
  <2>3. todo[i] = rowsFor[p][k]
    BY <2>1, <2>2 DEF LiesIn
  <2> HIDE DEF k
  <2>4. todo[i] = UserRow(p) \/ todo[i] = <<"voters", e, p>>
    BY <1>3, <2>2, <2>3
  <2>5. UserRow(p)[1] = "users"
    BY DEF UserRow
  <2> QED
    BY <1>5, <2>4, <2>5 DEF RowOK
<1> QED
  BY <1>1, <1>5, <1>6, Arriving

(* A founder has in hand whom its call lets in among those with an account.*)
LEMMA ElectorateFits ==
    ASSUME NEW scope \in Scopes, NEW call \in Calls, NEW p \in Students \cap Approved,
           \A d \in call.opens : Covers(scope, d),
           call.who # "admin", DomainOf[p] \in OpensTo(scope, call)
    PROVE  p \in Electorate(scope, call)
<1>1. p \in People /\ p \in Approved /\ call.who \in {"student", "both"} /\ DomainOf[p] \in Domains
  BY CensusAssumption DEF People
<1>2. CASE call.opens = {}
  BY <1>1, <1>2 DEF OpensTo, Electorate
<1>3. CASE call.opens # {}
  <2>1. DomainOf[p] \in call.opens /\ DomainOf[p] \in Below[DomainOf[p]]
    BY <1>1, <1>3, CensusAssumption DEF OpensTo
  <2> QED
    BY <1>1, <1>3, <2>1 DEF Electorate
<1> QED
  BY <1>2, <1>3

LEMMA CreateElectionArrives ==
    ASSUME CensusInv, NEW r \in Requests, reqs[r].op = "none",
           NEW e \in Elections, NEW scope \in Scopes, NEW call \in Calls,
           CreateElection(r, e, scope, call)
    PROVE  CensusInv'
<1> DEFINE held == {<<"voters", e, p>> : p \in Electorate(scope, call)}
           opens == OpensTo(scope, call)
           q == [NoRequest EXCEPT !.op = "found", !.stage = "tx", !.el = e, !.who = call.who,
                     !.opens = opens, !.held = held]
           n == [q EXCEPT !.born = started]
<1>1. /\ e \notin Made /\ \A s \in Requests : Open(s) => reqs[s].el # e
      /\ \A d \in call.opens : Covers(scope, d)
      /\ Arrives(r, q)
  BY DEF CreateElection
<1>2. started \subseteq Elections /\ Made \subseteq Elections /\ reqs \in [Requests -> Request]
  BY DEF CensusInv, CensusTypeOK, Made
<1>3. held \in SUBSET Row /\ \A row \in held : row[1] = "voters" /\ row[2] = e
  BY Rows DEF Electorate, Approved
<1>4. opens \in SUBSET Targets /\ call.who \in {"student", "admin", "both"}
  <2>1. scope \in Targets /\ call.opens \subseteq Targets /\ call.who \in {"student", "admin", "both"}
    BY CensusAssumption DEF Targets
  <2> QED
    BY <2>1 DEF OpensTo
<1>5. \A p \in Students \cap Approved : call.who # "admin" /\ DomainOf[p] \in opens =>
          <<"voters", e, p>> \in held
  BY <1>1, ElectorateFits
<1> HIDE DEF held, opens
<1>6. /\ q \in Request /\ q.op = "found" /\ q.stage = "tx" /\ q.el = e /\ q.who = call.who
      /\ q.opens = opens /\ q.held = held /\ q.todo = <<>>
  BY ZenonT(40), <1>3, <1>4, Blank DEF Request, Ops
<1> HIDE DEF q
<1>7. /\ n \in Request /\ n.op = "found" /\ n.stage = "tx" /\ n.el = e /\ n.who = call.who
      /\ n.opens = opens /\ n.held = held /\ n.todo = <<>> /\ n.born = started
  BY <1>2, <1>6 DEF Request
<1>8. reqs' = [reqs EXCEPT ![r] = n] /\ UNCHANGED <<accounts, elections, access, voters, started, excused>>
  BY <1>1 DEF Arrives, people, polls
<1> HIDE DEF n
<1>9. reqs'[r] = n /\ \A s \in Requests \ {r} : reqs'[s] = reqs[s]
  BY <1>2, <1>8
<1>10. CensusTypeOK'
  BY <1>2, <1>7, <1>8 DEF CensusInv, CensusTypeOK
<1>11. Made' = Made /\ Approved' = Approved
  BY <1>8 DEF Made, Approved, Has
<1>12. RequestOK(n)
  BY <1>3, <1>7 DEF RequestOK, HeldOK, RowOK
<1>13. RequestFits(reqs[r])'
  BY <1>1, <1>7, <1>8, <1>9, <1>11 DEF RequestFits
<1>14. FounderOK(reqs[r])'
  <2> SUFFICES ASSUME NEW p \in Students \cap Approved, n.who # "admin", DomainOf[p] \in n.opens
               PROVE  HasIn(n, n.el, p)
    BY <1>9, <1>11 DEF FounderOK
  <2> QED
    BY <1>5, <1>7 DEF HasIn
<1>15. OneFounder'
  <2> SUFFICES ASSUME NEW a \in Requests, NEW b \in Requests,
                      reqs'[a].op = "found", reqs'[b].op = "found", reqs'[a].el = reqs'[b].el,
                      a # b
               PROVE  FALSE
    BY DEF OneFounder
  <2>1. \A s \in Requests \ {r} : reqs[s].op = "found" => reqs[s].el # e
    BY <1>1 DEF CensusInv, RequestOK, Open, At
  <2> QED
    BY <1>7, <1>9, <2>1 DEF CensusInv, OneFounder
<1>16. AccessOK'
  BY <1>8, <1>11 DEF CensusInv, AccessOK
<1>17. ASSUME NEW f \in Elections, NEW p \in Students
       PROVE  /\ Entitled(f, p)' = Entitled(f, p)
              /\ IsTaken(f, p) => IsTaken(f, p)'
              /\ ~Looked(n, p)
  <2>1. Entitled(f, p)' = Entitled(f, p)
    BY <1>8 DEF Entitled, Made
  <2>2. \A s \in Requests : Pending(s, f, p) => Pending(s, f, p)'
    BY <1>9 DEF Pending, At
  <2>3. IsTaken(f, p) => IsTaken(f, p)'
    BY <1>8, <2>2 DEF IsTaken
  <2>4. ~Looked(n, p)
    <3>1. UserRow(p)[1] = "users"
      BY DEF UserRow
    <3> QED
      BY <1>3, <1>7, <3>1 DEF Looked
  <2> QED
    BY <2>1, <2>3, <2>4
<1> DEFINE R == {r}
<1>18. /\ R \in SUBSET Requests
       /\ \A s \in Requests \ R : reqs'[s] = reqs[s]
       /\ \A s \in Requests \ R : reqs[s].op = "found" => reqs[s].el \notin Made'
       /\ \A s \in R : RequestOK(reqs'[s]) /\ RequestFits(reqs[s])' /\ FounderOK(reqs[s])'
  BY <1>9, <1>11, <1>12, <1>13, <1>14 DEF CensusInv, RequestFits
<1>19. started \subseteq started' /\ Made \subseteq Made' /\ excused \subseteq excused'
  BY <1>8, <1>11
<1>20. \A p \in Students \cap Approved', s \in Requests \ R :
         p \notin Approved /\ reqs[s].op = "found" => <<reqs[s].el, p>> \in excused'
  BY <1>11
<1>21. \A f \in Elections, p \in Students :
               /\ Entitled(f, p)' => Entitled(f, p) \/ Told(f, p)'
               /\ Entitled(f, p)' /\ p \in Approved' /\ p \notin Approved => IsTaken(f, p)'
               /\ Entitled(f, p) /\ IsTaken(f, p) => IsTaken(f, p)' \/ Told(f, p)'
               /\ \A s \in R : Looked(reqs'[s], p) /\ Entitled(f, p) =>
                     HasIn(reqs'[s], f, p) \/ IsTaken(f, p)
  BY <1>9, <1>11, <1>17
<1> HIDE DEF R
<1> QED
  BY <1>10, <1>15, <1>16, <1>18, <1>19, <1>20, <1>21, CensusFrame

-------------------------------------------------------------------------------
(* The answer.                                                             *)
LEMMA ServedOK ==
    /\ Served \in Request /\ Served.op = "served" /\ Served.held = {} /\ RequestOK(Served)
    /\ RequestFits(Served) /\ \A p \in People : ~Looked(Served, p)
<1>1. /\ Served \in Request /\ Served.op = "served" /\ Served.held = {} /\ Served.todo = <<>>
      /\ Served.born = {} /\ Served.stage = "done"
  BY Blank DEF Served, Request, NoRequest
<1> HIDE DEF Served
<1> QED
  BY <1>1 DEF RequestOK, RowOK, HeldOK, RequestFits, Looked

LEMMA AnswerKeeps ==
    ASSUME CensusInv, NEW r \in Requests, Answer(r),
           accounts' \in [People -> Account \cup {None}],
           Approved' \cap Students \subseteq Approved,
           elections' \in [Elections -> Election \cup {None}],
           Made' = Made, \A e \in Made : elections'[e].who = elections[e].who,
           access' = access, started' = started,
           voters \subseteq voters', excused \subseteq excused',
           \A e \in Elections, p \in Students : Pending(r, e, p) => IsTaken(e, p)'
    PROVE  CensusInv'
<1>1. reqs' = [reqs EXCEPT ![r] = Served]
  BY DEF Answer
<1>2. Students \subseteq People
  BY DEF People
<1> QED
  BY <1>1, <1>2, ServedOK, RequestMoves

LEMMA GivingUp ==
    ASSUME CensusInv, NEW r \in Requests, GivesUp(r)
    PROVE  CensusInv'
<1>1. /\ Answer(r) /\ excused' = excused \cup Abandoned(r)
      /\ UNCHANGED <<accounts, elections, access, voters, started>>
  BY DEF GivesUp, people, polls
<1>2. Approved' = Approved /\ Made' = Made
  BY <1>1 DEF Approved, Has, Made
<1>3. ASSUME NEW e \in Elections, NEW p \in Students, Pending(r, e, p)
      PROVE  IsTaken(e, p)'
  <2>1. <<e, p>> \in Abandoned(r)
    BY <1>3 DEF Pending, Abandoned, People
  <2> QED
    BY <1>1, <2>1 DEF IsTaken
<1>4. /\ accounts' \in [People -> Account \cup {None}]
      /\ Approved' \cap Students \subseteq Approved
      /\ elections' \in [Elections -> Election \cup {None}]
      /\ \A e \in Made : elections'[e].who = elections[e].who
      /\ access' = access /\ started' = started
      /\ voters \subseteq voters' /\ excused \subseteq excused'
  BY <1>1, <1>2 DEF CensusInv, CensusTypeOK
<1> QED
  BY <1>1, <1>2, <1>3, <1>4, AnswerKeeps

(* Not one whose domain was admitted: nobody waits for it.                 *)
LEMMA AnswerAloneKeeps ==
    ASSUME CensusInv, NEW r \in Requests, Answer(r),
           reqs[r].op # "domain" \/ reqs[r].stage # "after",
           accounts' \in [People -> Account \cup {None}],
           Approved' \cap Students \subseteq Approved,
           UNCHANGED <<elections, access, started>>,
           voters \subseteq voters', excused \subseteq excused'
    PROVE  CensusInv'
<1>1. Made' = Made
  BY DEF Made
<1>2. \A e \in Elections, p \in Students : ~Pending(r, e, p)
  BY DEF Pending, At
<1>3. /\ elections' \in [Elections -> Election \cup {None}]
      /\ \A e \in Made : elections'[e].who = elections[e].who
  BY DEF CensusInv, CensusTypeOK
<1> QED
  BY <1>1, <1>2, <1>3, AnswerKeeps

LEMMA OneIsSomebody ==
    ASSUME CensusInv, NEW r \in Requests,
           reqs[r].op \in {"register", "chief", "apply", "reject", "voter"}
    PROVE  One(r) \in People
<1>1. reqs[r].file \in Seq(People) /\ reqs[r].file # <<>>
  BY DEF CensusInv, CensusTypeOK, Request, RequestOK
<1>2. reqs[r].file[1] \in People
  BY <1>1
<1> QED
  BY <1>2 DEF One

LEMMA InsertAccountKeeps ==
    ASSUME CensusInv, NEW r \in Requests, InsertAccount(r)
    PROVE  CensusInv'
<1> DEFINE p == One(r)
           new == [spelt |-> reqs[r].spelt, approved |-> reqs[r].op = "chief"]
<1>1. /\ reqs[r].op \in {"register", "chief"} /\ Answer(r)
      /\ accounts' = [accounts EXCEPT ![p] = new]
      /\ UNCHANGED <<elections, access, voters, started, excused>>
  BY DEF InsertAccount, polls
<1>2. p \in People /\ accounts \in [People -> Account \cup {None}] /\ reqs[r] \in Request
  BY <1>1, OneIsSomebody DEF CensusInv, CensusTypeOK
<1>3. new \in Account
  BY <1>2 DEF Account, Request
<1>4. reqs[r].op = "chief" => p \in Admins
  BY DEF CensusInv, RequestOK, One
<1>5. ASSUME NEW s \in Approved' \cap Students PROVE s \in Approved
  <2>1. s \in People /\ accounts'[s] # None /\ accounts'[s].approved
    BY <1>5 DEF Approved, Has
  <2>2. s # p
    <3> SUFFICES ASSUME s = p PROVE FALSE
      OBVIOUS
    <3>1. accounts'[s] = new
      BY <1>1, <1>2
    <3>2. new.approved = (reqs[r].op = "chief")
      OBVIOUS
    <3> HIDE DEF new
    <3>3. new.approved
      BY <2>1, <3>1
    <3>4. reqs[r].op = "chief"
      BY <3>2, <3>3
    <3> QED
      BY <1>4, <1>5, <3>4, CensusAssumption
  <2>3. accounts'[s] = accounts[s]
    BY <1>1, <1>2, <2>1, <2>2
  <2> QED
    BY <2>1, <2>3 DEF Approved, Has
<1>6. accounts' \in [People -> Account \cup {None}]
  BY <1>1, <1>2, <1>3
<1> HIDE DEF p, new
<1> QED
  BY <1>1, <1>5, <1>6, AnswerAloneKeeps

LEMMA OneStatementKeeps ==
    ASSUME CensusInv, NEW r \in Requests,
           InsertApplication(r) \/ MarkRejected(r) \/ InsertVoter(r) \/ Invite(r)
    PROVE  CensusInv'
<1>1. /\ Answer(r) /\ reqs[r].op # "domain" /\ voters \subseteq voters'
      /\ UNCHANGED <<accounts, elections, access, started, excused>>
  BY DEF InsertApplication, MarkRejected, InsertVoter, Invite, people, polls
<1>2. /\ accounts' \in [People -> Account \cup {None}] /\ Approved' = Approved
  BY <1>1 DEF CensusInv, CensusTypeOK, Approved, Has
<1> QED
  BY <1>1, <1>2, AnswerAloneKeeps

(* A name is added to a ballot paper.                                      *)
LEMMA InsertCandidateKeeps ==
    ASSUME CensusInv, NEW r \in Requests, InsertCandidate(r)
    PROVE  CensusInv'
<1> DEFINE e == reqs[r].el
           ballot == Append(elections[e].ballot, reqs[r].seat)
<1>1. /\ reqs[r].op = "stand" /\ Answer(r)
      /\ elections' = [elections EXCEPT ![e].ballot = ballot]
      /\ UNCHANGED <<accounts, access, voters, started, excused>>
  BY DEF InsertCandidate, people
<1>2. /\ e \in Made /\ e \in Elections /\ elections \in [Elections -> Election \cup {None}]
      /\ reqs[r] \in Request
  BY <1>1 DEF CensusInv, CensusTypeOK, RequestFits, Made
<1>3. elections[e] \in Election
  BY <1>2 DEF Made
<1>4. ballot \in Seq(Nat)
  BY <1>2, <1>3 DEF Election, Request
<1> HIDE DEF ballot
<1>5. elections'[e] = [elections[e] EXCEPT !.ballot = ballot]
      /\ \A f \in Elections \ {e} : elections'[f] = elections[f]
  BY <1>1, <1>2
<1>6. elections'[e] \in Election /\ elections'[e].who = elections[e].who
  BY <1>3, <1>4, <1>5 DEF Election
<1>7. elections' \in [Elections -> Election \cup {None}]
  BY <1>1, <1>2, <1>5, <1>6
<1>8. elections'[e] # None
  BY <1>6, NoneAssumption
<1>9. Made' = Made /\ \A f \in Made : elections'[f].who = elections[f].who
  BY <1>2, <1>5, <1>6, <1>8 DEF Made
<1>10. /\ accounts' \in [People -> Account \cup {None}] /\ Approved' = Approved
  BY <1>1 DEF CensusInv, CensusTypeOK, Approved, Has
<1>11. \A f \in Elections, p \in Students : ~Pending(r, f, p)
  BY <1>1 DEF Pending, At
<1> HIDE DEF e
<1> QED
  BY <1>1, <1>7, <1>9, <1>10, <1>11, AnswerKeeps

-------------------------------------------------------------------------------
(* A domain is added: the domain, the SELECT, a person at a time.          *)
LEMMA ReadWhitelistKeeps ==
    ASSUME CensusInv, NEW r \in Requests, ReadWhitelist(r)
    PROVE  CensusInv'
<1> DEFINE p == One(r)
<1>1. /\ reqs[r].op = "apply" /\ reqs[r].stage = "read" /\ reqs[r] \in Request
      /\ UNCHANGED <<accounts, elections, access, voters, started, excused>>
  BY DEF ReadWhitelist, At, people, polls, CensusInv, CensusTypeOK
<1>2. p \in People /\ DomainOf[p] \in Targets /\ Everyone \in Targets
  BY <1>1, OneIsSomebody, CensusAssumption DEF Targets
<1>3. RequestOK(reqs[r]) /\ RequestFits(reqs[r]) /\ reqs[r].held = {}
  BY <1>1 DEF CensusInv, RequestOK
<1>4. ASSUME NEW s \in {DomainOf[p], Everyone},
             reqs' = [reqs EXCEPT ![r].stage = "tx",
                         ![r].todo = <<UserRow(p), <<"spent", s, p>>, <<"censuses", None, p>>>>]
      PROVE  CensusInv'
  <2> DEFINE todo == <<UserRow(p), <<"spent", s, p>>, <<"censuses", None, p>>>>
             q == [reqs[r] EXCEPT !.stage = "tx", !.todo = todo]
  <2>1. todo \in Seq(Row)
    <3>1. UserRow(p) \in Row /\ <<"spent", s, p>> \in Row /\ <<"censuses", None, p>> \in Row
      BY <1>2, Rows
    <3> HIDE DEF Row
    <3> QED
      BY <3>1
  <2>2. PICK x : todo = <<UserRow(p), x, <<"censuses", None, p>>>>
                 /\ x[1] \in {"applications", "spent"}
    <3>1. <<"spent", s, p>>[1] = "spent"
      OBVIOUS
    <3> QED
      BY <3>1
  <2>3. reqs' = [reqs EXCEPT ![r] = q]
    BY <1>4
  <2> HIDE DEF todo, p
  <2>4. /\ q \in Request /\ q.op = "apply" /\ q.stage = "tx" /\ q.held = {} /\ q.todo = todo
        /\ q.file = reqs[r].file /\ q.born = reqs[r].born /\ q.el = reqs[r].el
    BY <1>1, <1>3, <2>1 DEF Request
  <2> HIDE DEF q
  <2>5. \A i \in 1 .. Len(q.todo) : RowOK(q, i)
    BY <2>2, <2>4, AccountRowsBetween
  <2>6. RequestOK(q)
    BY <1>1, <1>3, <2>4, <2>5 DEF RequestOK, HeldOK
  <2>7. RequestFits(q) /\ \A y \in Students : ~Looked(q, y)
    BY <1>3, <2>4 DEF RequestFits, Looked
  <2> QED
    BY <1>1, <2>3, <2>4, <2>6, <2>7, OnlyRequestMoves
<1>5. ASSUME reqs' = [reqs EXCEPT ![r].stage = "write"]
      PROVE  CensusInv'
  <2> DEFINE q == [reqs[r] EXCEPT !.stage = "write"]
  <2>1. reqs' = [reqs EXCEPT ![r] = q]
    BY <1>5
  <2>2. /\ q \in Request /\ q.op = "apply" /\ q.stage = "write" /\ q.held = {} /\ q.todo = reqs[r].todo
        /\ q.file = reqs[r].file /\ q.born = reqs[r].born /\ q.el = reqs[r].el
    BY <1>1, <1>3 DEF Request
  <2> HIDE DEF q
  <2>3. RequestOK(q)
    BY <1>1, <1>3, <2>2 DEF RequestOK, HeldOK, RowOK
  <2>4. RequestFits(q) /\ \A y \in Students : ~Looked(q, y)
    BY <1>3, <2>2 DEF RequestFits, Looked
  <2> QED
    BY <1>1, <2>1, <2>2, <2>3, <2>4, OnlyRequestMoves
<1> QED
  BY <1>4, <1>5 DEF ReadWhitelist

LEMMA ReadSeatKeeps ==
    ASSUME CensusInv, NEW r \in Requests, ReadSeat(r)
    PROVE  CensusInv'
<1> DEFINE ballot == elections[reqs[r].el].ballot
           seat == IF ballot = <<>> THEN 0 ELSE ballot[Len(ballot)] + 1
           q == [reqs[r] EXCEPT !.stage = "write", !.seat = seat]
<1>1. /\ reqs[r].op = "stand" /\ reqs[r].stage = "read" /\ reqs[r] \in Request
      /\ reqs' = [reqs EXCEPT ![r] = q]
      /\ UNCHANGED <<accounts, elections, access, voters, started, excused>>
  BY DEF ReadSeat, At, people, polls, CensusInv, CensusTypeOK
<1>2. RequestOK(reqs[r]) /\ RequestFits(reqs[r]) /\ reqs[r].held = {}
  BY <1>1 DEF CensusInv, RequestOK
<1>3. ballot \in Seq(Nat)
  <2>1. elections[reqs[r].el] \in Election
    BY <1>1, <1>2 DEF RequestFits, Made, CensusInv, CensusTypeOK
  <2> QED
    BY <2>1 DEF Election
<1> HIDE DEF ballot
<1>4. seat \in Nat
  BY <1>3
<1> HIDE DEF seat
<1>5. /\ q \in Request /\ q.op = "stand" /\ q.stage = "write" /\ q.held = {} /\ q.todo = reqs[r].todo
      /\ q.file = reqs[r].file /\ q.born = reqs[r].born /\ q.el = reqs[r].el
  BY <1>1, <1>2, <1>4 DEF Request
<1> HIDE DEF q
<1>6. RequestOK(q)
  BY <1>1, <1>2, <1>5 DEF RequestOK, HeldOK, RowOK
<1>7. RequestFits(q) /\ \A y \in Students : ~Looked(q, y)
  BY <1>1, <1>2, <1>5 DEF RequestFits, Looked
<1> QED
  BY <1>1, <1>5, <1>6, <1>7, OnlyRequestMoves

(* The domain is in: its people wait for the request.                      *)
LEMMA InsertDomainKeeps ==
    ASSUME CensusInv, NEW r \in Requests, InsertDomain(r)
    PROVE  CensusInv'
<1> DEFINE e == reqs[r].el
           after == [reqs[r] EXCEPT !.stage = "after"]
<1>1. PICK d \in reqs[r].opens :
          /\ access' = access \cup {<<e, d>>}
          /\ IF d = Everyone THEN Answer(r) ELSE reqs' = [reqs EXCEPT ![r] = after]
  BY DEF InsertDomain
<1>2. /\ reqs[r].op = "domain" /\ reqs[r].stage = "write" /\ reqs[r] \in Request
      /\ reqs \in [Requests -> Request]
      /\ UNCHANGED <<accounts, elections, voters, started, excused>>
  BY DEF InsertDomain, At, people, CensusInv, CensusTypeOK
<1>3. /\ RequestOK(reqs[r]) /\ reqs[r].held = {} /\ reqs[r].todo = <<>>
      /\ e \in Made /\ e \in Elections /\ RequestFits(reqs[r])
  BY <1>2 DEF CensusInv, RequestOK, RequestFits
<1>4. /\ after \in Request /\ after.op = "domain" /\ after.stage = "after" /\ after.held = {}
      /\ after.todo = <<>> /\ after.el = e /\ after.opens = reqs[r].opens
      /\ after.born = reqs[r].born /\ after.file = reqs[r].file
  BY <1>2, <1>3 DEF Request
<1> DEFINE q == IF d = Everyone THEN Served ELSE after
<1>5. reqs' = [reqs EXCEPT ![r] = q]
  BY <1>1 DEF Answer
<1> HIDE DEF after
<1>6. RequestOK(after) /\ RequestFits(after)
  BY <1>2, <1>3, <1>4 DEF RequestOK, RequestFits, HeldOK, RowOK
<1>7. /\ q \in Request /\ RequestOK(q) /\ RequestFits(q) /\ q.op # "found"
      /\ \A p \in People : ~Looked(q, p)
      /\ d # Everyone => q = after
  BY <1>4, <1>6, ServedOK DEF Looked
<1> HIDE DEF q
<1>8. reqs'[r] = q /\ \A s \in Requests \ {r} : reqs'[s] = reqs[s]
  BY <1>2, <1>5
<1>9. CensusTypeOK'
  BY <1>2, <1>5, <1>7 DEF CensusInv, CensusTypeOK
<1>10. Made' = Made /\ Approved' = Approved
  BY <1>2 DEF Made, Approved, Has
<1>11. RequestFits(reqs[r])' /\ FounderOK(reqs[r])'
  BY <1>2, <1>7, <1>8, <1>10 DEF RequestFits, FounderOK
<1>12. OneFounder'
  BY <1>7, <1>8 DEF CensusInv, OneFounder
<1>13. AccessOK'
  <2>1. d \in Targets
    BY <1>2 DEF Request
  <2> QED
    BY <1>1, <1>3, <1>10, <2>1 DEF CensusInv, AccessOK
<1>14. ASSUME NEW f \in Elections, NEW p \in Students
       PROVE  /\ Entitled(f, p)' => Entitled(f, p) \/ Told(f, p)'
              /\ IsTaken(f, p) => IsTaken(f, p)'
              /\ ~Looked(q, p)
  <2>1. p \in People /\ DomainOf[p] # Everyone
    BY CensusAssumption DEF People
  <2>2. \A s \in Requests \ {r} : Pending(s, f, p) => Pending(s, f, p)'
    BY <1>8 DEF Pending, At
  <2>3. ~Pending(r, f, p)
    BY <1>2 DEF Pending, At
  <2>4. IsTaken(f, p) => IsTaken(f, p)'
    BY <1>2, <2>2, <2>3 DEF IsTaken
  <2>5. ASSUME Entitled(f, p)', ~Entitled(f, p) PROVE Told(f, p)'
    <3>1. f = e /\ DomainOf[p] = d
      BY <1>1, <1>2, <1>10, <2>5 DEF Entitled
    <3>2. Pending(r, f, p)'
      BY <1>4, <1>7, <1>8, <2>1, <3>1 DEF Pending, At
    <3> QED
      BY <3>2 DEF Told, IsTaken
  <2> QED
    BY <1>7, <2>1, <2>4, <2>5
<1> DEFINE R == {r}
<1>15. /\ R \in SUBSET Requests
       /\ \A s \in Requests \ R : reqs'[s] = reqs[s]
       /\ \A s \in Requests \ R : reqs[s].op = "found" => reqs[s].el \notin Made'
       /\ \A s \in R : RequestOK(reqs'[s]) /\ RequestFits(reqs[s])' /\ FounderOK(reqs[s])'
  BY <1>7, <1>8, <1>10, <1>11 DEF CensusInv, RequestFits
<1>16. started \subseteq started' /\ Made \subseteq Made' /\ excused \subseteq excused'
  BY <1>2, <1>10
<1>17. \A p \in Students \cap Approved', s \in Requests \ R :
         p \notin Approved /\ reqs[s].op = "found" => <<reqs[s].el, p>> \in excused'
  BY <1>10
<1>18. \A f \in Elections, p \in Students :
               /\ Entitled(f, p)' => Entitled(f, p) \/ Told(f, p)'
               /\ Entitled(f, p)' /\ p \in Approved' /\ p \notin Approved => IsTaken(f, p)'
               /\ Entitled(f, p) /\ IsTaken(f, p) => IsTaken(f, p)' \/ Told(f, p)'
               /\ \A s \in R : Looked(reqs'[s], p) /\ Entitled(f, p) =>
                     HasIn(reqs'[s], f, p) \/ IsTaken(f, p)
  BY <1>8, <1>10, <1>14
<1> HIDE DEF R
<1> QED
  BY <1>9, <1>12, <1>13, <1>15, <1>16, <1>17, <1>18, CensusFrame

LEMMA OrdersOnto ==
    ASSUME NEW S, IsFiniteSet(S), NEW s \in Orders(S), NEW x \in S
    PROVE  \E i \in 1 .. Cardinality(S) : s[i] = x
<1> DEFINE n == Cardinality(S)
<1>1. n \in Nat
  BY FS_CardinalityType
<1>2. s \in [1 .. n -> S] /\ \A i, j \in DOMAIN s : s[i] = s[j] => i = j
  BY DEF Orders
<1>3. s \in Injection(1 .. n, S)
  BY <1>2 DEF Injection, IsInjective
<1>4. Cardinality(1 .. n) = n
  BY <1>1, FS_Interval
<1>5. s \in Surjection(1 .. n, S)
  BY <1>3, <1>4, FS_Injection
<1> QED
  BY <1>5 DEF Surjection

(* The SELECT sees who has an account; of who is about to have one, those  *)
(* that have not looked up their elections will find this one.             *)
LEMMA SelectUsersKeeps ==
    ASSUME CensusInv, NEW r \in Requests, SelectUsers(r)
    PROVE  CensusInv'
<1> DEFINE e == reqs[r].el
           chosen == {p \in Approved \cap Students : DomainOf[p] \in reqs[r].opens}
<1>1. /\ reqs[r].op = "domain" /\ reqs[r].stage = "after" /\ reqs[r].todo = <<>>
      /\ reqs[r] \in Request /\ reqs \in [Requests -> Request]
      /\ excused' = excused \cup ({e} \X Unseen(r, e))
      /\ UNCHANGED <<accounts, elections, access, voters, started>>
  BY DEF SelectUsers, At, people, polls, CensusInv, CensusTypeOK
<1>2. /\ RequestOK(reqs[r]) /\ reqs[r].held = {} /\ e \in Elections /\ e \notin reqs[r].born
      /\ e \in Made /\ RequestFits(reqs[r])
  BY <1>1 DEF CensusInv, RequestOK, RequestFits
<1>3. PICK q \in Request :
        /\ reqs' = [reqs EXCEPT ![r] = q] /\ RequestOK(q) /\ RequestFits(q) /\ q.op # "found"
        /\ \A p \in People : ~Looked(q, p)
        /\ chosen # {} => /\ q.op = "domain" /\ q.el = e /\ q.stage = "after"
                          /\ q.opens = reqs[r].opens
                          /\ \A p \in chosen :
                                \E i \in 1 .. Len(q.todo) : q.todo[i] = <<"voters", e, p>>
  <2>1. CASE chosen = {}
    <3>1. Answer(r)
      BY <2>1 DEF SelectUsers
    <3> QED
      BY <2>1, <3>1, ServedOK DEF Answer
  <2>2. CASE chosen # {}
    <3>1. PICK s \in Orders(chosen) :
             reqs' = [reqs EXCEPT ![r].todo = [i \in DOMAIN s |-> <<"voters", e, s[i]>>]]
      BY <2>2 DEF SelectUsers
    <3> DEFINE todo == [i \in DOMAIN s |-> <<"voters", e, s[i]>>]
               n == Cardinality(chosen)
               q == [reqs[r] EXCEPT !.todo = todo]
    <3>2. IsFiniteSet(chosen) /\ chosen \subseteq People
      BY FS_Subset, CensusAssumption DEF People
    <3> HIDE DEF chosen
    <3>3. n \in Nat /\ s \in [1 .. n -> chosen]
      BY <3>2, FS_CardinalityType DEF Orders
    <3>4. \A p \in chosen : \E i \in 1 .. n : s[i] = p
      BY <3>2, OrdersOnto
    <3> HIDE DEF n
    <3>5. /\ todo = [i \in 1 .. n |-> <<"voters", e, s[i]>>]
          /\ \A i \in 1 .. n : <<"voters", e, s[i]>> \in Row
      BY <1>2, <3>2, <3>3, Rows
    <3>6. todo \in Seq(Row) /\ Len(todo) = n
      <4> HIDE DEF Row
      <4> QED
        BY <3>3, <3>5
    <3>7. \A i \in 1 .. n : todo[i] = <<"voters", e, s[i]>>
      BY <3>5
    <3> HIDE DEF todo
    <3>8. /\ q \in Request /\ q.op = "domain" /\ q.stage = "after" /\ q.el = e /\ q.held = {}
          /\ q.todo = todo /\ q.opens = reqs[r].opens /\ q.born = reqs[r].born
      BY <1>1, <1>2, <3>6 DEF Request
    <3>9. reqs' = [reqs EXCEPT ![r] = q]
      BY <3>1 DEF todo
    <3> HIDE DEF q
    <3>10. \A i \in 1 .. Len(q.todo) : RowOK(q, i)
      BY <3>6, <3>7, <3>8 DEF RowOK
    <3>11. RequestOK(q) /\ RequestFits(q)
      BY <1>1, <1>2, <3>8, <3>10 DEF RequestOK, HeldOK, RequestFits
    <3>12. \A p \in chosen : \E i \in 1 .. Len(q.todo) : q.todo[i] = <<"voters", e, p>>
      BY <3>4, <3>6, <3>7, <3>8
    <3>13. \A p \in People : ~Looked(q, p)
      BY <3>8 DEF Looked
    <3> QED
      BY <3>8, <3>9, <3>11, <3>12, <3>13
  <2> QED
    BY <2>1, <2>2
<1>4. reqs'[r] = q /\ \A s \in Requests \ {r} : reqs'[s] = reqs[s]
  BY <1>1, <1>3
<1>5. CensusTypeOK'
  BY <1>1, <1>3 DEF CensusInv, CensusTypeOK
<1>6. Made' = Made /\ Approved' = Approved
  BY <1>1 DEF Made, Approved, Has
<1>7. RequestFits(reqs[r])' /\ FounderOK(reqs[r])'
  BY <1>1, <1>3, <1>4, <1>6 DEF RequestFits, FounderOK
<1>8. OneFounder' /\ AccessOK'
  BY <1>1, <1>3, <1>4, <1>6 DEF CensusInv, OneFounder, AccessOK
<1>9. ASSUME NEW f \in Elections, NEW p \in Students
      PROVE  /\ Entitled(f, p)' = Entitled(f, p)
             /\ IsTaken(f, p) => IsTaken(f, p)' \/ Told(f, p)'
             /\ ~Looked(q, p)
  <2>1. Entitled(f, p)' = Entitled(f, p)
    BY <1>1 DEF Entitled, Made
  <2>2. p \in People
    BY DEF People
  <2>3. CASE <<f, p>> \in voters \cup excused
    BY <1>1, <1>3, <2>1, <2>2, <2>3 DEF IsTaken
  <2>4. ASSUME NEW s \in Requests \ {r}, Pending(s, f, p)
        PROVE  IsTaken(f, p)'
    <3>1. Pending(s, f, p)'
      BY <1>4, <2>4 DEF Pending, At
    <3> QED
      BY <3>1 DEF IsTaken
  <2>5. ASSUME Pending(r, f, p) PROVE IsTaken(f, p)' \/ Told(f, p)'
    <3>1. f = e /\ DomainOf[p] \in reqs[r].opens
      BY <2>5 DEF Pending
    <3>2. CASE p \in Approved
      <4>1. p \in chosen
        BY <3>1, <3>2
      <4> HIDE DEF chosen, e
      <4>2. Pending(r, f, p)'
        BY <1>3, <1>4, <3>1, <4>1 DEF Pending, At
      <4> QED
        BY <4>2 DEF IsTaken
    <3>3. CASE p \notin Approved
      <4>1. ASSUME NEW s \in Requests, Looked(reqs'[s], p)
            PROVE  HasIn(reqs'[s], f, p) \/ IsTaken(f, p)'
        <5>1. s # r /\ reqs'[s] = reqs[s]
          BY <1>3, <1>4, <2>2, <4>1
        <5>2. HasIn(reqs[s], f, p) \/ p \in Unseen(r, e)
          BY <2>2, <3>1, <4>1, <5>1 DEF Unseen, Looked, HasIn
        <5>3. p \in Unseen(r, e) => <<f, p>> \in excused'
          BY <1>1, <3>1
        <5> QED
          BY <5>1, <5>2, <5>3 DEF HasIn, IsTaken
      <4> QED
        BY <1>6, <3>3, <4>1 DEF Told
    <3> QED
      BY <3>2, <3>3
  <2> QED
    BY <1>3, <2>1, <2>2, <2>3, <2>4, <2>5 DEF IsTaken
<1> HIDE DEF chosen
<1> DEFINE R == {r}
<1>10. /\ R \in SUBSET Requests
       /\ \A s \in Requests \ R : reqs'[s] = reqs[s]
       /\ \A s \in Requests \ R : reqs[s].op = "found" => reqs[s].el \notin Made'
       /\ \A s \in R : RequestOK(reqs'[s]) /\ RequestFits(reqs[s])' /\ FounderOK(reqs[s])'
  BY <1>3, <1>4, <1>6, <1>7 DEF CensusInv, RequestFits
<1>11. started \subseteq started' /\ Made \subseteq Made' /\ excused \subseteq excused'
  BY <1>1, <1>6
<1>12. \A p \in Students \cap Approved', s \in Requests \ R :
         p \notin Approved /\ reqs[s].op = "found" => <<reqs[s].el, p>> \in excused'
  BY <1>6
<1>13. \A f \in Elections, p \in Students :
               /\ Entitled(f, p)' => Entitled(f, p) \/ Told(f, p)'
               /\ Entitled(f, p)' /\ p \in Approved' /\ p \notin Approved => IsTaken(f, p)'
               /\ Entitled(f, p) /\ IsTaken(f, p) => IsTaken(f, p)' \/ Told(f, p)'
               /\ \A s \in R : Looked(reqs'[s], p) /\ Entitled(f, p) =>
                     HasIn(reqs'[s], f, p) \/ IsTaken(f, p)
  BY <1>4, <1>6, <1>9
<1> HIDE DEF R
<1> QED
  BY <1>5, <1>8, <1>10, <1>11, <1>12, <1>13, CensusFrame

LEMMA AssignNextKeeps ==
    ASSUME CensusInv, NEW r \in Requests, AssignNext(r)
    PROVE  CensusInv'
<1> DEFINE e == reqs[r].el
           todo == reqs[r].todo
<1>1. /\ reqs[r].op = "domain" /\ reqs[r].stage = "after" /\ todo # <<>> /\ todo \in Seq(Row)
      /\ reqs[r] \in Request
      /\ voters' = voters \cup {<<Head(todo)[2], Head(todo)[3]>>}
      /\ UNCHANGED <<accounts, elections, access, started, excused>>
  BY DEF AssignNext, At, people, CensusInv, CensusTypeOK, Request
<1>2. RequestOK(reqs[r]) /\ RequestFits(reqs[r]) /\ reqs[r].held = {}
  BY <1>1 DEF CensusInv, RequestOK
<1>3. Head(todo) = todo[1] /\ Len(todo) \in Nat /\ Len(todo) # 0
  <2> HIDE DEF Row
  <2> QED
    BY <1>1
<1>4. Made' = Made /\ Approved' = Approved
  BY <1>1 DEF Made, Approved, Has
<1>5. /\ accounts' \in [People -> Account \cup {None}]
      /\ elections' \in [Elections -> Election \cup {None}]
      /\ \A f \in Made : elections'[f].who = elections[f].who
      /\ Approved' \cap Students \subseteq Approved
  BY <1>1, <1>4 DEF CensusInv, CensusTypeOK
<1>6. ASSUME NEW f \in Elections, NEW p \in Students, Pending(r, f, p)
      PROVE  /\ f = e /\ DomainOf[p] \in reqs[r].opens
             /\ <<f, p>> \in voters' \/ \E i \in 2 .. Len(todo) : todo[i] = <<"voters", f, p>>
  <2>1. f = e /\ DomainOf[p] \in reqs[r].opens
    BY <1>6 DEF Pending
  <2>2. PICK i \in 1 .. Len(todo) : todo[i] = <<"voters", f, p>>
    BY <1>1, <1>6 DEF Pending
  <2>3. CASE i = 1
    BY <1>1, <1>3, <2>1, <2>2, <2>3
  <2>4. CASE i # 1
    BY <1>3, <2>1, <2>2, <2>4
  <2> QED
    BY <2>3, <2>4
<1>7. CASE Len(todo) = 1
  <2>1. Answer(r)
    BY <1>7 DEF AssignNext
  <2>2. \A f \in Elections, p \in Students : Pending(r, f, p) => IsTaken(f, p)'
    BY <1>6, <1>7 DEF IsTaken
  <2> QED
    BY <1>1, <1>4, <1>5, <2>1, <2>2, AnswerKeeps
<1>8. CASE Len(todo) # 1
  <2> DEFINE rest == Tail(todo)
             q == [reqs[r] EXCEPT !.todo = rest]
  <2>1. reqs' = [reqs EXCEPT ![r] = q]
    BY <1>8 DEF AssignNext
  <2>2. /\ rest \in Seq(Row) /\ Len(rest) = Len(todo) - 1
        /\ \A i \in 1 .. Len(rest) : rest[i] = todo[i + 1]
    <3> HIDE DEF Row
    <3> QED
      BY <1>1, <1>3
  <2> HIDE DEF rest
  <2>3. /\ q \in Request /\ q.op = "domain" /\ q.stage = "after" /\ q.el = e /\ q.held = {}
        /\ q.todo = rest /\ q.opens = reqs[r].opens /\ q.born = reqs[r].born
    BY <1>1, <1>2, <2>2 DEF Request
  <2> HIDE DEF q
  <2>4. ASSUME NEW i \in 1 .. Len(q.todo) PROVE RowOK(q, i)
    <3>1. i + 1 \in 1 .. Len(todo) /\ rest[i] = todo[i + 1]
      BY <1>3, <2>2, <2>3
    <3>2. RowOK(reqs[r], i + 1)
      BY <1>2, <3>1 DEF RequestOK
    <3>3. todo[i + 1][1] = "voters" /\ todo[i + 1][2] = e
      BY <1>1, <3>2 DEF RowOK
    <3> QED
      BY <2>3, <3>1, <3>3 DEF RowOK
  <2>5. RequestOK(q) /\ RequestFits(q)
    BY <1>1, <1>2, <2>3, <2>4 DEF RequestOK, HeldOK, RequestFits
  <2>6. \A p \in Students : ~Looked(q, p)
    BY <2>3 DEF Looked
  <2>7. ASSUME NEW f \in Elections, NEW p \in Students, Pending(r, f, p)
        PROVE  IsTaken(f, p)'
    <3>1. CASE <<f, p>> \in voters'
      BY <3>1 DEF IsTaken
    <3>2. ASSUME NEW i \in 2 .. Len(todo), todo[i] = <<"voters", f, p>>
          PROVE  IsTaken(f, p)'
      <4>1. i - 1 \in 1 .. Len(rest) /\ rest[i - 1] = todo[i]
        BY <1>3, <2>2
      <4>2. reqs'[r] = q
        BY <2>1 DEF CensusInv, CensusTypeOK
      <4>3. f = e /\ DomainOf[p] \in reqs[r].opens
        BY <1>6, <2>7
      <4>4. Pending(r, f, p)'
        BY <2>3, <3>2, <4>1, <4>2, <4>3 DEF Pending, At
      <4> QED
        BY <4>4 DEF IsTaken
    <3> QED
      BY <1>6, <2>7, <3>1, <3>2
  <2>8. access' = access /\ started' = started /\ voters \subseteq voters' /\ excused \subseteq excused'
        /\ q.op # "found"
    BY <1>1, <2>3
  <2> QED
    BY <1>4, <1>5, <2>1, <2>3, <2>5, <2>6, <2>7, <2>8, RequestMoves
<1> QED
  BY <1>7, <1>8

-------------------------------------------------------------------------------
(* A transaction: a row, and the COMMIT.                                   *)
LEMMA WrittenRows ==
    ASSUME NEW row \in Row
    PROVE  /\ Written(row) \in SUBSET Row
           /\ row[1] # "censuses" => Written(row) \subseteq {row}
           /\ \A x \in Written(row) :
                 x = row \/ (x[1] = "voters" /\ row[1] = "censuses" /\ x[2] \in OpenTo(row[3]))
           /\ \A p \in People : row = <<"censuses", None, p>> =>
                 \A e \in OpenTo(p) : <<"voters", e, p>> \in Written(row)
<1>1. row[3] \in People /\ OpenTo(row[3]) \subseteq Elections
  BY Rows DEF OpenTo, Made
<1>2. \A e \in OpenTo(row[3]) : <<"voters", e, row[3]>> \in Row
  BY <1>1, Rows
<1>3. row[1] = "censuses" => Written(row) = {<<"voters", e, row[3]>> : e \in OpenTo(row[3])}
  BY DEF Written
<1>4. row[1] # "censuses" => Written(row) \subseteq {row}
  BY DEF Written
<1>5. CASE row[1] = "censuses"
  <2>1. \A x \in Written(row) :
          \E e \in OpenTo(row[3]) : x = <<"voters", e, row[3]>>
    BY <1>3, <1>5
  <2>2. \A p \in People : row = <<"censuses", None, p>> => row[3] = p
    OBVIOUS
  <2> HIDE DEF Row
  <2> QED
    BY <1>2, <1>3, <1>5, <2>1, <2>2
<1>6. CASE row[1] # "censuses"
  <2>1. \A p \in People : row # <<"censuses", None, p>>
    BY <1>6
  <2> HIDE DEF Row
  <2> QED
    BY <1>4, <1>6, <2>1
<1> QED
  BY <1>5, <1>6

LEMMA WriteRowKeeps ==
    ASSUME CensusInv, NEW r \in Requests, WriteRow(r)
    PROVE  CensusInv'
<1> DEFINE todo == reqs[r].todo
           row == Head(todo)
           rest == Tail(todo)
           held == reqs[r].held \cup Written(row)
           q == [reqs[r] EXCEPT !.todo = rest, !.held = held]
<1>1. /\ reqs[r].stage = "tx" /\ todo # <<>> /\ todo \in Seq(Row) /\ reqs[r] \in Request
      /\ reqs' = [reqs EXCEPT ![r] = q]
      /\ UNCHANGED <<accounts, elections, access, voters, started, excused>>
  BY DEF WriteRow, At, people, polls, CensusInv, CensusTypeOK, Request
<1>2. RequestOK(reqs[r]) /\ RequestFits(reqs[r])
  BY DEF CensusInv
<1>3. reqs[r].op # "domain" /\ reqs[r].op # "found"
  BY <1>1, <1>2 DEF RequestOK
<1>4. /\ row = todo[1] /\ row \in Row /\ Len(todo) \in Nat /\ Len(todo) # 0
      /\ rest \in Seq(Row) /\ Len(rest) = Len(todo) - 1
      /\ \A i \in 1 .. Len(rest) : rest[i] = todo[i + 1]
  <2> HIDE DEF Row
  <2> QED
    BY <1>1
<1> HIDE DEF rest
<1>5. RowOK(reqs[r], 1)
  BY <1>2, <1>4 DEF RequestOK
<1> HIDE DEF row
<1>6. /\ Written(row) \in SUBSET Row
      /\ row[1] # "censuses" => Written(row) \subseteq {row}
      /\ \A x \in Written(row) :
            x = row \/ (x[1] = "voters" /\ row[1] = "censuses" /\ x[2] \in OpenTo(row[3]))
      /\ \A p \in People : row = <<"censuses", None, p>> =>
            \A e \in OpenTo(p) : <<"voters", e, p>> \in Written(row)
  BY <1>4, WrittenRows
<1> HIDE DEF held
<1>7. /\ q \in Request /\ q.op = reqs[r].op /\ q.stage = "tx" /\ q.el = reqs[r].el /\ q.held = held
      /\ q.todo = rest /\ q.born = reqs[r].born /\ q.file = reqs[r].file
  <2>1. held \in SUBSET Row
    BY <1>1, <1>6 DEF held, Request
  <2> QED
    BY <1>1, <1>4, <2>1 DEF Request
<1> HIDE DEF q
<1>8. ASSUME NEW i \in 1 .. Len(q.todo) PROVE RowOK(q, i)
  <2>1. i + 1 \in 1 .. Len(todo) /\ rest[i] = todo[i + 1]
    BY <1>4, <1>7
  <2>2. RowOK(reqs[r], i + 1)
    BY <1>2, <2>1 DEF RequestOK
  <2>3. ASSUME NEW k \in i + 1 + 1 .. Len(todo)
        PROVE  k - 1 \in i + 1 .. Len(rest) /\ rest[k - 1] = todo[k]
    BY <1>4, <2>1
  <2>4. rest[i][1] = "voters" => q.op \in {"domain", "importVoters"} /\ rest[i][2] = q.el
    BY <1>7, <2>1, <2>2 DEF RowOK
  <2>5. rest[i][1] = "users" /\ q.op # "importVoters" =>
          \E k \in i + 1 .. Len(rest) : rest[k] = <<"censuses", None, rest[i][3]>>
    <3> SUFFICES ASSUME rest[i][1] = "users", q.op # "importVoters"
                 PROVE  \E k \in i + 1 .. Len(rest) : rest[k] = <<"censuses", None, rest[i][3]>>
      OBVIOUS
    <3>1. PICK k \in i + 1 + 1 .. Len(todo) : todo[k] = <<"censuses", None, todo[i + 1][3]>>
      BY <1>7, <2>1, <2>2 DEF RowOK
    <3> QED
      BY <2>1, <2>3, <3>1
  <2> QED
    BY <1>3, <1>7, <2>4, <2>5 DEF RowOK
<1>9. HeldOK(q)
  <2> SUFFICES ASSUME NEW x \in Written(row), x[1] = "voters" PROVE x[2] \notin reqs[r].born
    BY <1>2, <1>7 DEF RequestOK, HeldOK, held
  <2>1. CASE x = row
    <3>1. row[2] = reqs[r].el /\ reqs[r].op = "importVoters"
      BY <1>3, <1>4, <1>5, <2>1 DEF RowOK
    <3> QED
      BY <1>2, <2>1, <3>1 DEF RequestOK
  <2>2. CASE x[2] \in OpenTo(row[3])
    BY <1>2, <2>2 DEF OpenTo, RequestFits
  <2> QED
    BY <1>6, <2>1, <2>2
<1>10. RequestOK(q) /\ RequestFits(q)
  <2>1. RequestFits(q)
    BY <1>2, <1>7 DEF RequestFits
  <2> QED
    BY <1>2, <1>3, <1>7, <1>8, <1>9, <2>1 DEF RequestOK
<1>11. ASSUME NEW e \in Elections, NEW p \in Students, Looked(q, p), Entitled(e, p)
       PROVE  HasIn(q, e, p) \/ IsTaken(e, p)
  <2>1. p \in People /\ e \in OpenTo(p)
    BY <1>11 DEF Entitled, OpenTo, People
  <2>2. /\ reqs[r].op # "importVoters" /\ UserRow(p) \in held
        /\ \A i \in 1 .. Len(rest) : rest[i] # <<"censuses", None, p>>
    BY <1>7, <1>11 DEF Looked
  <2>3. UserRow(p)[1] = "users" /\ UserRow(p)[3] = p
    BY DEF UserRow
  <2>4. UserRow(p) \notin Written(row)
    <3> SUFFICES ASSUME UserRow(p) \in Written(row) PROVE FALSE
      OBVIOUS
    <3>1. row = UserRow(p)
      BY <1>6, <2>3
    <3>2. PICK k \in 1 + 1 .. Len(todo) : todo[k] = <<"censuses", None, p>>
      BY <1>4, <1>5, <2>2, <2>3, <3>1 DEF RowOK
    <3>3. k - 1 \in 1 .. Len(rest) /\ rest[k - 1] = todo[k]
      BY <1>4
    <3> QED
      BY <2>2, <3>2, <3>3
  <2>5. UserRow(p) \in reqs[r].held
    BY <2>2, <2>4 DEF held
  <2>6. CASE row = <<"censuses", None, p>>
    BY <1>6, <1>7, <2>1, <2>6 DEF HasIn, held
  <2>7. CASE row # <<"censuses", None, p>>
    <3>1. ASSUME NEW i \in 1 .. Len(todo) PROVE todo[i] # <<"censuses", None, p>>
      <4>1. CASE i = 1
        BY <1>4, <2>7, <4>1
      <4>2. CASE i # 1
        <5>1. i - 1 \in 1 .. Len(rest) /\ rest[i - 1] = todo[i]
          BY <1>4, <4>2
        <5> QED
          BY <2>2, <5>1
      <4> QED
        BY <4>1, <4>2
    <3>2. Looked(reqs[r], p)
      BY <2>2, <2>5, <3>1 DEF Looked
    <3>3. HasIn(reqs[r], e, p) \/ IsTaken(e, p)
      BY <1>11, <3>2 DEF CensusInv, Settled, Told
    <3> QED
      BY <1>7, <3>3 DEF HasIn, held
  <2> QED
    BY <2>6, <2>7
<1>12. voters \subseteq voters' /\ excused \subseteq excused' /\ q.op # "found"
       /\ reqs[r].stage # "after"
  BY <1>1, <1>3, <1>7
<1> QED
  BY <1>1, <1>7, <1>10, <1>11, <1>12, OnlyRequestMoves

(* The founder's COMMIT: who is in access and had an account is in hand, and*)
(* who is about to have one looks the election up later, or is excused.    *)
LEMMA FounderCommits ==
    ASSUME CensusInv, NEW r \in Requests, Commit(r), reqs[r].op = "found"
    PROVE  CensusInv'
<1> DEFINE q == reqs[r]
           e == q.el
           new == [who |-> q.who, ballot |-> <<>>, fixed |-> FALSE]
<1>1. /\ q.stage = "tx" /\ q.todo = <<>> /\ q \in Request
      /\ RequestOK(q) /\ RequestFits(q) /\ FounderOK(q)
      /\ e \in Elections /\ e \notin Made /\ \A row \in q.held : row[1] = "voters"
      /\ reqs \in [Requests -> Request] /\ elections \in [Elections -> Election \cup {None}]
      /\ accounts \in [People -> Account \cup {None}]
  BY DEF Commit, At, CensusInv, CensusTypeOK, RequestOK, RequestFits
<1>2. \A p \in People : UserRow(p) \notin q.held
  <2>1. \A p \in People : UserRow(p)[1] = "users"
    BY DEF UserRow
  <2> QED
    BY <1>1, <2>1
<1>3. /\ accounts' = [p \in People |-> IF UserRow(p) \in q.held
                                       THEN [spelt |-> q.spelt, approved |-> TRUE]
                                       ELSE accounts[p]]
      /\ voters' = voters \cup {x \in Elections \X People : <<"voters", x[1], x[2]>> \in q.held}
      /\ elections' = [elections EXCEPT ![e] = new]
      /\ access' = access \cup ({e} \X q.opens)
      /\ Answer(r)
      /\ excused' = excused \cup Missed(r)
      /\ started' = started
  BY DEF Commit
<1>4. {e} \X Unseen(r, e) \subseteq Missed(r)
  BY DEF Missed
<1>5. accounts' = accounts
  BY <1>1, <1>2, <1>3
<1>6. Approved' = Approved
  BY <1>5 DEF Approved, Has
<1>7. new \in Election /\ new.who = q.who /\ new # None
  <2>1. <<>> \in Seq(Nat) /\ q.who \in {"student", "admin", "both"}
    BY <1>1 DEF Request
  <2>2. new \in Election
    BY <2>1 DEF Election
  <2> QED
    BY <2>2, NoneAssumption
<1> HIDE DEF new
<1>8. elections'[e] = new /\ \A f \in Elections \ {e} : elections'[f] = elections[f]
  BY <1>1, <1>3
<1>9. Made' = Made \cup {e}
  BY <1>1, <1>7, <1>8 DEF Made
<1>10. reqs'[r] = Served /\ \A s \in Requests \ {r} : reqs'[s] = reqs[s]
  BY <1>1, <1>3 DEF Answer
<1>11. CensusTypeOK'
  <2>1. elections' \in [Elections -> Election \cup {None}]
    BY <1>1, <1>3, <1>7
  <2>2. reqs' \in [Requests -> Request]
    BY <1>1, <1>3, ServedOK DEF Answer
  <2> QED
    BY <1>1, <1>3, <1>5, <2>1, <2>2 DEF CensusInv, CensusTypeOK
<1>12. RequestFits(reqs[r])' /\ FounderOK(reqs[r])'
  <2>1. Served.born = {}
    BY DEF Served, NoRequest
  <2> QED
    BY <1>10, <2>1, ServedOK DEF RequestFits, FounderOK
<1>13. OneFounder'
  BY <1>10, ServedOK DEF CensusInv, OneFounder
<1>14. AccessOK'
  <2>1. q.opens \subseteq Targets
    BY <1>1 DEF Request
  <2> QED
    BY <1>3, <1>9, <2>1 DEF CensusInv, AccessOK
<1>15. \A s \in Requests \ {r} : reqs[s].op = "found" => reqs[s].el \notin Made'
  BY <1>9 DEF CensusInv, OneFounder, RequestFits
<1>16. ASSUME NEW f \in Elections, NEW p \in Students
       PROVE  IsTaken(f, p) => IsTaken(f, p)'
  <2>1. \A s \in Requests : Pending(s, f, p) => Pending(s, f, p)'
    BY <1>10 DEF Pending, At
  <2> QED
    BY <1>3, <2>1 DEF IsTaken
<1>17. ASSUME NEW f \in Elections, NEW p \in Students, Entitled(f, p)'
       PROVE  Entitled(f, p) \/ Told(f, p)'
  <2>1. p \in People
    BY DEF People
  <2>2. CASE f # e
    BY <1>3, <1>8, <1>9, <1>17, <2>2 DEF Entitled
  <2>3. CASE f = e
    <3>1. DomainOf[p] \in q.opens /\ q.who # "admin"
      <4>1. <<e, DomainOf[p]>> \notin access
        BY <1>1 DEF CensusInv, AccessOK
      <4> QED
        BY <1>3, <1>7, <1>8, <1>17, <2>3, <4>1 DEF Entitled
    <3>2. ASSUME p \in Approved PROVE IsTaken(f, p)'
      <4>1. HasIn(q, e, p) \/ <<e, p>> \in excused
        BY <1>1, <3>1, <3>2 DEF FounderOK
      <4>2. HasIn(q, e, p) => <<e, p>> \in voters'
        BY <1>1, <1>3, <2>1 DEF HasIn
      <4> QED
        BY <1>3, <2>3, <4>1, <4>2 DEF IsTaken
    <3>3. ASSUME NEW s \in Requests, Looked(reqs'[s], p)
          PROVE  HasIn(reqs'[s], f, p) \/ IsTaken(f, p)'
      <4>1. s # r /\ reqs'[s] = reqs[s]
        BY <1>10, <2>1, <3>3, ServedOK
      <4>2. HasIn(reqs[s], e, p) \/ p \in Unseen(r, e)
        BY <2>1, <3>3, <4>1 DEF Unseen, Looked, HasIn
      <4>3. p \in Unseen(r, e) => <<e, p>> \in excused'
        BY <1>3, <1>4
      <4> QED
        BY <2>3, <4>1, <4>2, <4>3 DEF IsTaken
    <3> QED
      BY <1>6, <3>2, <3>3 DEF Told
  <2> QED
    BY <2>2, <2>3
<1> DEFINE R == {r}
<1>18. /\ R \in SUBSET Requests
       /\ \A s \in Requests \ R : reqs'[s] = reqs[s]
       /\ \A s \in Requests \ R : reqs[s].op = "found" => reqs[s].el \notin Made'
       /\ \A s \in R : RequestOK(reqs'[s]) /\ RequestFits(reqs[s])' /\ FounderOK(reqs[s])'
  BY <1>10, <1>12, <1>15, ServedOK
<1>19. started \subseteq started' /\ Made \subseteq Made' /\ excused \subseteq excused'
  BY <1>3, <1>9
<1>20. \A p \in Students \cap Approved', s \in Requests \ R :
         p \notin Approved /\ reqs[s].op = "found" => <<reqs[s].el, p>> \in excused'
  BY <1>6
<1>21. \A f \in Elections, p \in Students :
               /\ Entitled(f, p)' => Entitled(f, p) \/ Told(f, p)'
               /\ Entitled(f, p)' /\ p \in Approved' /\ p \notin Approved => IsTaken(f, p)'
               /\ Entitled(f, p) /\ IsTaken(f, p) => IsTaken(f, p)' \/ Told(f, p)'
               /\ \A s \in R : Looked(reqs'[s], p) /\ Entitled(f, p) =>
                     HasIn(reqs'[s], f, p) \/ IsTaken(f, p)
  <2>1. Students \subseteq People
    BY DEF People
  <2> HIDE DEF e, q
  <2> QED
    BY <1>6, <1>10, <1>16, <1>17, <2>1, ServedOK
<1> HIDE DEF R
<1> QED
  BY <1>11, <1>13, <1>14, <1>18, <1>19, <1>20, <1>21, CensusFrame

(* Any other COMMIT: the new accounts.                                     *)
LEMMA AccountsCommit ==
    ASSUME CensusInv, NEW r \in Requests, Commit(r), reqs[r].op # "found"
    PROVE  CensusInv'
<1> DEFINE q == reqs[r]
           after == [q EXCEPT !.stage = "after", !.held = {}]
           new == {p \in People : UserRow(p) \in q.held}
<1>1. /\ q.stage = "tx" /\ q.todo = <<>> /\ q \in Request
      /\ RequestOK(q) /\ RequestFits(q) /\ q.op # "domain"
      /\ reqs \in [Requests -> Request] /\ elections \in [Elections -> Election \cup {None}]
      /\ accounts \in [People -> Account \cup {None}]
  BY DEF Commit, At, CensusInv, CensusTypeOK, RequestOK, RequestFits
<1>2. /\ accounts' = [p \in People |-> IF UserRow(p) \in q.held
                                       THEN [spelt |-> q.spelt, approved |-> TRUE]
                                       ELSE accounts[p]]
      /\ voters' = voters \cup {x \in Elections \X People : <<"voters", x[1], x[2]>> \in q.held}
      /\ excused' = excused \cup Missed(r)
      /\ UNCHANGED <<elections, access, started>>
  BY DEF Commit
<1>3. /\ Founding \X new \subseteq Missed(r)
      /\ q.op = "importVoters" => \A e \in Elections, p \in new : e \in OpenTo(p) => <<e, p>> \in Missed(r)
  BY DEF Missed
<1>4. /\ after \in Request /\ after.op = q.op /\ after.stage = "after" /\ after.held = {}
      /\ after.todo = <<>> /\ after.el = q.el /\ after.born = q.born /\ after.file = q.file
  BY <1>1 DEF Request
<1>5. PICK n \in Request :
        /\ reqs' = [reqs EXCEPT ![r] = n] /\ RequestOK(n) /\ RequestFits(n) /\ n.op # "found"
        /\ n.held = {}
  <2>1. CASE q.op \in {"importUsers", "importVoters"} /\ Invitees(q) # {}
    <3>1. reqs' = [reqs EXCEPT ![r] = after]
      BY <2>1 DEF Commit
    <3> HIDE DEF after
    <3>2. RequestOK(after) /\ RequestFits(after)
      BY <1>1, <1>4, <2>1 DEF RequestOK, RequestFits, RowOK, HeldOK
    <3> QED
      BY <1>4, <2>1, <3>1, <3>2
  <2>2. CASE ~(q.op \in {"importUsers", "importVoters"} /\ Invitees(q) # {})
    <3>1. Answer(r)
      BY <2>2 DEF Commit
    <3> QED
      BY <3>1, ServedOK DEF Answer
  <2> QED
    BY <2>1, <2>2
<1> HIDE DEF after
<1>6. reqs'[r] = n /\ \A s \in Requests \ {r} : reqs'[s] = reqs[s]
  BY <1>1, <1>5
<1>7. CensusTypeOK'
  <2>1. [spelt |-> q.spelt, approved |-> TRUE] \in Account
    BY <1>1 DEF Request, Account
  <2>2. accounts' \in [People -> Account \cup {None}]
    BY <1>1, <1>2, <2>1
  <2>3. reqs' \in [Requests -> Request]
    BY <1>1, <1>5
  <2> QED
    BY <1>2, <2>2, <2>3 DEF CensusInv, CensusTypeOK
<1>8. Made' = Made
  BY <1>2 DEF Made
<1>9. ASSUME NEW p \in Approved', p \notin Approved PROVE p \in new
  <2>1. p \in People /\ accounts'[p] # accounts[p]
    BY <1>9 DEF Approved, Has
  <2> QED
    BY <1>2, <2>1
<1>10. RequestFits(reqs[r])' /\ FounderOK(reqs[r])'
  BY <1>2, <1>5, <1>6, <1>8 DEF RequestFits, FounderOK
<1>11. OneFounder' /\ AccessOK'
  BY <1>2, <1>5, <1>6, <1>8 DEF CensusInv, OneFounder, AccessOK
<1>12. ASSUME NEW e \in Elections, NEW p \in Students
       PROVE  /\ Entitled(e, p)' = Entitled(e, p)
              /\ IsTaken(e, p) => IsTaken(e, p)'
              /\ ~Looked(n, p)
  <2>1. Entitled(e, p)' = Entitled(e, p)
    BY <1>2 DEF Entitled, Made
  <2>2. \A s \in Requests : Pending(s, e, p) => Pending(s, e, p)'
    BY <1>1, <1>6 DEF Pending, At
  <2>3. IsTaken(e, p) => IsTaken(e, p)'
    BY <1>2, <2>2 DEF IsTaken
  <2>4. ~Looked(n, p)
    BY <1>5 DEF Looked
  <2> QED
    BY <2>1, <2>3, <2>4
<1>13. ASSUME NEW e \in Elections, NEW p \in Students, Entitled(e, p), p \in new
       PROVE  IsTaken(e, p)'
  <2>1. CASE q.op = "importVoters"
    <3>1. e \in OpenTo(p)
      BY <1>13 DEF Entitled, OpenTo
    <3>2. <<e, p>> \in excused'
      BY <1>2, <1>3, <1>13, <2>1, <3>1
    <3> QED
      BY <3>2 DEF IsTaken
  <2>2. CASE q.op # "importVoters"
    <3>1. Looked(q, p)
      BY <1>1, <1>13, <2>2 DEF Looked
    <3>2. HasIn(q, e, p) \/ IsTaken(e, p)
      BY <1>13, <3>1 DEF CensusInv, Settled, Told
    <3>3. HasIn(q, e, p) => <<e, p>> \in voters'
      BY <1>2, <1>13 DEF HasIn, People
    <3> QED
      BY <1>12, <3>2, <3>3 DEF IsTaken
  <2> QED
    BY <2>1, <2>2
<1> DEFINE R == {r}
<1>14. /\ R \in SUBSET Requests
       /\ \A s \in Requests \ R : reqs'[s] = reqs[s]
       /\ \A s \in Requests \ R : reqs[s].op = "found" => reqs[s].el \notin Made'
       /\ \A s \in R : RequestOK(reqs'[s]) /\ RequestFits(reqs[s])' /\ FounderOK(reqs[s])'
  BY <1>5, <1>6, <1>8, <1>10 DEF CensusInv, RequestFits
<1>15. started \subseteq started' /\ Made \subseteq Made' /\ excused \subseteq excused'
  BY <1>2, <1>8
<1>16. \A p \in Students \cap Approved', s \in Requests \ R :
         p \notin Approved /\ reqs[s].op = "found" => <<reqs[s].el, p>> \in excused'
  BY <1>2, <1>3, <1>9 DEF Founding
<1> HIDE DEF new, q
<1>17. \A e \in Elections, p \in Students :
               /\ Entitled(e, p)' => Entitled(e, p) \/ Told(e, p)'
               /\ Entitled(e, p)' /\ p \in Approved' /\ p \notin Approved => IsTaken(e, p)'
               /\ Entitled(e, p) /\ IsTaken(e, p) => IsTaken(e, p)' \/ Told(e, p)'
               /\ \A s \in R : Looked(reqs'[s], p) /\ Entitled(e, p) =>
                     HasIn(reqs'[s], e, p) \/ IsTaken(e, p)
  BY <1>6, <1>9, <1>12, <1>13
<1> HIDE DEF R
<1> QED
  BY <1>7, <1>11, <1>14, <1>15, <1>16, <1>17, CensusFrame

-------------------------------------------------------------------------------
(* Crashes, the clock, and what an administrator does to an account.       *)
LEMMA CrashKeeps ==
    ASSUME CensusInv, Crash
    PROVE  CensusInv'
<1>1. /\ reqs' = [r \in Requests |-> IF Open(r) THEN Served ELSE reqs[r]]
      /\ excused' = excused \cup UNION {Abandoned(r) : r \in Requests}
      /\ UNCHANGED <<accounts, elections, access, voters, started>>
  BY DEF Crash, people, polls
<1>2. Made' = Made /\ Approved' = Approved
  BY <1>1 DEF Made, Approved, Has
<1>3. ASSUME NEW r \in Requests
      PROVE  /\ reqs'[r] \in Request /\ reqs'[r].op \in {"none", "served"} /\ reqs'[r].held = {}
             /\ RequestOK(reqs'[r]) /\ RequestFits(reqs[r])'
  <2>1. CASE Open(r)
    <3>1. reqs'[r] = Served
      BY <1>1, <2>1
    <3>2. Served.born = {}
      BY DEF Served, NoRequest
    <3> QED
      BY <3>1, <3>2, ServedOK DEF RequestFits
  <2>2. CASE ~Open(r)
    <3>1. reqs'[r] = reqs[r] /\ reqs[r].stage = "done"
      BY <1>1, <2>2 DEF Open, At
    <3>2. reqs[r] \in Request /\ RequestOK(reqs[r]) /\ RequestFits(reqs[r])
      BY DEF CensusInv, CensusTypeOK
    <3>3. reqs[r].op \in {"none", "served"} /\ reqs[r].held = {}
      BY <3>1, <3>2 DEF RequestOK
    <3> QED
      BY <1>1, <1>2, <3>1, <3>2, <3>3 DEF RequestFits
  <2> QED
    BY <2>1, <2>2
<1>4. CensusTypeOK'
  <2>1. reqs' \in [Requests -> Request]
    BY <1>1, <1>3
  <2> QED
    BY <1>1, <2>1 DEF CensusInv, CensusTypeOK
<1>5. \A r \in Requests : FounderOK(reqs[r])'
  BY <1>3 DEF FounderOK
<1>6. OneFounder' /\ AccessOK'
  BY <1>1, <1>2, <1>3 DEF CensusInv, OneFounder, AccessOK
<1>7. ASSUME NEW e \in Elections, NEW p \in Students
      PROVE  /\ Entitled(e, p)' = Entitled(e, p)
             /\ IsTaken(e, p) => IsTaken(e, p)'
             /\ \A r \in Requests : ~Looked(reqs'[r], p)
  <2>1. Entitled(e, p)' = Entitled(e, p)
    BY <1>1 DEF Entitled, Made
  <2>2. ASSUME NEW r \in Requests, Pending(r, e, p) PROVE <<e, p>> \in excused'
    <3>1. <<e, p>> \in Abandoned(r)
      BY <2>2 DEF Pending, Abandoned, People
    <3> QED
      BY <1>1, <3>1
  <2>3. IsTaken(e, p) => IsTaken(e, p)'
    BY <1>1, <2>2 DEF IsTaken
  <2>4. \A r \in Requests : ~Looked(reqs'[r], p)
    BY <1>3 DEF Looked
  <2> QED
    BY <2>1, <2>3, <2>4
<1>8. started \subseteq started' /\ Made \subseteq Made' /\ excused \subseteq excused'
  BY <1>1, <1>2
<1> QED
  BY <1>2, <1>3, <1>4, <1>5, <1>6, <1>7, <1>8, CensusFrame

(* The pairs of an account that was anonymised are gone, from the census   *)
(* and from what is excused; nobody is at work on it.                      *)
LEMMA AnonymizeKeeps ==
    ASSUME CensusInv, NEW a \in People, Anonymize(a)
    PROVE  CensusInv'
<1>1. /\ \A r \in Requests : reqs[r].stage = "done"
      /\ accounts' = [accounts EXCEPT ![a] = None]
      /\ voters' = voters \ (Elections \X {a})
      /\ excused' = excused \ (Elections \X {a})
      /\ UNCHANGED <<elections, access, started, reqs>>
  BY DEF Anonymize, Open, At
<1>2. Made' = Made
  BY <1>1 DEF Made
<1>3. Approved' = Approved \ {a}
  BY <1>1 DEF Approved, Has, CensusInv, CensusTypeOK
<1>4. CensusTypeOK'
  BY <1>1 DEF CensusInv, CensusTypeOK
<1>5. ASSUME NEW r \in Requests
      PROVE  /\ RequestOK(reqs'[r]) /\ RequestFits(reqs[r])' /\ FounderOK(reqs[r])'
             /\ reqs'[r].op \in {"none", "served"} /\ reqs'[r].held = {} /\ reqs'[r] = reqs[r]
  <2>1. /\ RequestOK(reqs[r]) /\ RequestFits(reqs[r]) /\ reqs'[r] = reqs[r]
        /\ reqs[r].stage = "done"
    BY <1>1 DEF CensusInv
  <2>2. reqs[r].op \in {"none", "served"} /\ reqs[r].held = {}
    BY <2>1 DEF RequestOK
  <2> QED
    BY <1>1, <1>2, <2>1, <2>2 DEF RequestFits, FounderOK
<1>6. OneFounder' /\ AccessOK'
  BY <1>1, <1>2 DEF CensusInv, OneFounder, AccessOK
<1>7. ASSUME NEW e \in Elections, NEW p \in Students, Entitled(e, p)'
      PROVE  Told(e, p)'
  <2>1. Entitled(e, p)
    BY <1>1, <1>2, <1>7 DEF Entitled
  <2>2. ASSUME p \in Approved' PROVE IsTaken(e, p)'
    <3>1. p # a /\ IsTaken(e, p)
      BY <1>3, <2>1, <2>2 DEF CensusInv, Settled, Told
    <3>2. \A r \in Requests : ~Pending(r, e, p)
      BY <1>5 DEF Pending
    <3> QED
      BY <1>1, <3>1, <3>2 DEF IsTaken
  <2>3. \A r \in Requests : ~Looked(reqs'[r], p)
    BY <1>5 DEF Looked
  <2> QED
    BY <2>2, <2>3 DEF Told
<1> QED
  BY <1>4, <1>5, <1>6, <1>7 DEF CensusInv, Settled

(* No request moves.                                                       *)
LEMMA NobodyMoves ==
    ASSUME CensusInv, UNCHANGED <<reqs, access, voters>>,
           accounts' \in [People -> Account \cup {None}],
           elections' \in [Elections -> Election \cup {None}],
           started \subseteq started', started' \subseteq Elections,
           Made' = Made, \A e \in Made : elections'[e].who = elections[e].who,
           excused \subseteq excused',
           \A p \in Students \cap Approved' : p \notin Approved =>
               (OpenTo(p) \cup Founding) \X {p} \subseteq excused'
    PROVE  CensusInv'
<1>1. CensusTypeOK'
  BY DEF CensusInv, CensusTypeOK
<1>2. \A r \in Requests : reqs'[r] = reqs[r]
  OBVIOUS
<1>3. OneFounder' /\ AccessOK'
  BY DEF CensusInv, OneFounder, AccessOK
<1>4. ASSUME NEW e \in Elections, NEW p \in Students
      PROVE  /\ Entitled(e, p)' => Entitled(e, p)
             /\ IsTaken(e, p) => IsTaken(e, p)'
             /\ Entitled(e, p) /\ p \in Approved' /\ p \notin Approved => IsTaken(e, p)'
  <2>1. Entitled(e, p)' => Entitled(e, p)
    BY DEF Entitled
  <2>2. \A s \in Requests : Pending(s, e, p) => Pending(s, e, p)'
    BY DEF Pending, At
  <2>3. IsTaken(e, p) => IsTaken(e, p)'
    BY <2>2 DEF IsTaken
  <2>4. Entitled(e, p) => e \in OpenTo(p)
    BY DEF Entitled, OpenTo
  <2> QED
    BY <2>1, <2>3, <2>4 DEF IsTaken
<1>5. \A r \in Requests : reqs[r].op = "found" => reqs[r].el \notin Made' /\ reqs[r].el \in Founding
  BY DEF CensusInv, RequestFits, Founding
<1>6. \A p \in Students \cap Approved', r \in Requests :
               p \notin Approved /\ reqs[r].op = "found" => <<reqs[r].el, p>> \in excused'
  BY <1>5
<1> DEFINE R == {}
<1>7. /\ R \in SUBSET Requests
      /\ \A r \in Requests \ R : reqs'[r] = reqs[r]
      /\ \A r \in R : RequestOK(reqs'[r]) /\ RequestFits(reqs[r])' /\ FounderOK(reqs[r])'
      /\ \A r \in Requests \ R : reqs[r].op = "found" => reqs[r].el \notin Made'
      /\ \A p \in Students \cap Approved', r \in Requests \ R :
               p \notin Approved /\ reqs[r].op = "found" => <<reqs[r].el, p>> \in excused'
      /\ \A e \in Elections, p \in Students :
               /\ Entitled(e, p)' => Entitled(e, p) \/ Told(e, p)'
               /\ Entitled(e, p)' /\ p \in Approved' /\ p \notin Approved => IsTaken(e, p)'
               /\ Entitled(e, p) /\ IsTaken(e, p) => IsTaken(e, p)' \/ Told(e, p)'
               /\ \A r \in R : Looked(reqs'[r], p) /\ Entitled(e, p) =>
                     HasIn(reqs'[r], e, p) \/ IsTaken(e, p)
  BY <1>2, <1>4, <1>5, <1>6
<1> HIDE DEF R
<1>8. Made \subseteq Made'
  OBVIOUS
<1> QED
  BY <1>1, <1>3, <1>7, <1>8, CensusFrame

LEMMA ApproveKeeps ==
    ASSUME CensusInv, NEW a \in People, NEW scope \in Scopes, ApproveAccount(a, scope)
    PROVE  CensusInv'
<1>1. /\ accounts[a] # None /\ accounts' = [accounts EXCEPT ![a].approved = TRUE]
      /\ excused' = excused \cup ((OpenTo(a) \cup Founding) \X {a})
      /\ UNCHANGED <<elections, access, voters, started, reqs>>
  BY DEF ApproveAccount, Has, polls
<1>2. accounts \in [People -> Account \cup {None}]
  BY DEF CensusInv, CensusTypeOK
<1>3. [accounts[a] EXCEPT !.approved = TRUE] \in Account
  BY <1>1, <1>2 DEF Account
<1>4. /\ accounts' \in [People -> Account \cup {None}]
      /\ \A p \in People \ {a} : accounts'[p] = accounts[p]
  BY <1>1, <1>2, <1>3
<1>5. \A p \in Approved' : p \notin Approved => p = a
  BY <1>4 DEF Approved, Has
<1>6. /\ elections' \in [Elections -> Election \cup {None}] /\ started \subseteq started'
      /\ started' \subseteq Elections /\ Made' = Made
      /\ \A e \in Made : elections'[e].who = elections[e].who
  BY <1>1 DEF CensusInv, CensusTypeOK, Made
<1> QED
  BY <1>1, <1>4, <1>5, <1>6, NobodyMoves

LEMMA ClockKeeps ==
    ASSUME CensusInv, NEW e \in Elections, Start(e) \/ SentToChain(e)
    PROVE  CensusInv'
<1>1. /\ UNCHANGED <<reqs, access, voters, accounts, excused>>
      /\ started \subseteq started' /\ started' \subseteq Elections
  BY DEF Start, SentToChain, people, polls, CensusInv, CensusTypeOK
<1>2. accounts' \in [People -> Account \cup {None}] /\ Approved' = Approved
  BY <1>1 DEF CensusInv, CensusTypeOK, Approved, Has
<1>3. CASE Start(e)
  <2>1. /\ elections' \in [Elections -> Election \cup {None}] /\ Made' = Made
        /\ \A f \in Made : elections'[f].who = elections[f].who
    BY <1>3 DEF Start, polls, CensusInv, CensusTypeOK, Made
  <2> QED
    BY <1>1, <1>2, <2>1, NobodyMoves
<1>4. CASE SentToChain(e)
  <2>1. /\ e \in Made /\ elections' = [elections EXCEPT ![e].fixed = TRUE]
        /\ elections \in [Elections -> Election \cup {None}]
    BY <1>4 DEF SentToChain, CensusInv, CensusTypeOK
  <2>2. elections[e] \in Election
    BY <2>1 DEF Made
  <2> DEFINE new == [elections[e] EXCEPT !.fixed = TRUE]
  <2>3. new \in Election /\ new.who = elections[e].who
    BY <2>2 DEF Election
  <2>4. elections'[e] = new /\ \A f \in Elections \ {e} : elections'[f] = elections[f]
    BY <2>1
  <2> HIDE DEF new
  <2>5. elections' \in [Elections -> Election \cup {None}]
    BY <2>1, <2>3, <2>4
  <2>6. new # None
    BY <2>3, NoneAssumption
  <2>7. Made' = Made /\ \A f \in Made : elections'[f].who = elections[f].who
    BY <2>1, <2>3, <2>4, <2>6 DEF Made
  <2> QED
    BY <1>1, <1>2, <2>5, <2>7, NobodyMoves
<1> QED
  BY <1>3, <1>4

-------------------------------------------------------------------------------
LEMMA CensusInit == Init => CensusInv
<1> SUFFICES ASSUME Init PROVE CensusInv
  OBVIOUS
<1>1. /\ \A p \in People : accounts[p] = None
      /\ \A e \in Elections : elections[e] = None
      /\ access = {} /\ started = {}
      /\ \A r \in Requests : reqs[r] = NoRequest
  BY DEF Init
<1>2. CensusTypeOK
  BY Blank DEF Init, CensusTypeOK
<1>3. /\ NoRequest.op = "none" /\ NoRequest.held = {} /\ NoRequest.todo = <<>> /\ NoRequest.born = {}
  BY DEF NoRequest
<1>4. RequestOK(NoRequest) /\ RequestFits(NoRequest) /\ FounderOK(NoRequest)
  BY <1>3 DEF RequestOK, HeldOK, RowOK, RequestFits, FounderOK
<1>5. OneFounder /\ AccessOK /\ Settled
  BY <1>1, <1>3 DEF OneFounder, AccessOK, Settled, Entitled, Made
<1> QED
  BY <1>1, <1>2, <1>4, <1>5 DEF CensusInv

LEMMA CensusStep == CensusInv /\ [Next]_vars => CensusInv'
<1> SUFFICES ASSUME CensusInv, [Next]_vars PROVE CensusInv'
  OBVIOUS
<1>1. ASSUME NEW r \in Requests, Arrival(r) PROVE CensusInv'
  <2>1. reqs[r].op = "none"
    BY <1>1 DEF Arrival, MayArrive
  <2>2. ASSUME NEW p \in People,
               \/ Register(r, p) \/ Apply(r, p)
               \/ \E spelt \in Spellings : CreateDomainAdmin(r, p, spelt)
               \/ \E scope \in Scopes : Reject(r, p, scope)
        PROVE  CensusInv'
    BY <2>1, <2>2, SimpleArrivals
  <2>3. ASSUME NEW p \in People, NEW scope \in Scopes, CreateUser(r, p, scope) \/ Accept(r, p, scope)
        PROVE  CensusInv'
    BY <2>1, <2>3, OneAccountArrivals
  <2>4. ASSUME NEW file \in Files, NEW spelt \in Spellings, NEW scope \in Scopes,
               ImportUsers(r, file, spelt, scope)
        PROVE  CensusInv'
    BY <2>1, <2>4, ImportUsersArrives
  <2>5. ASSUME NEW file \in Files, NEW spelt \in Spellings, NEW scope \in Scopes,
               NEW e \in Elections, ImportVoters(r, e, file, spelt, scope)
        PROVE  CensusInv'
    BY <2>1, <2>5, ImportVotersArrives
  <2>6. ASSUME NEW e \in Elections, NEW scope \in Scopes, NEW call \in Calls,
               CreateElection(r, e, scope, call)
        PROVE  CensusInv'
    BY <2>1, <2>6, CreateElectionArrives
  <2>7. ASSUME NEW e \in Elections, NEW scope \in Scopes,
               \/ \E d \in Targets : AddDomain(r, e, d, scope)
               \/ \E p \in People : AddVoter(r, e, p, scope)
               \/ AddCandidate(r, e, scope)
        PROVE  CensusInv'
    BY <2>1, <2>7, SimpleArrivals
  <2> QED
    BY <1>1, <2>2, <2>3, <2>4, <2>5, <2>6, <2>7 DEF Arrival
<1>2. ASSUME NEW r \in Requests, Step(r) PROVE CensusInv'
  <2>1. ASSUME InsertAccount(r) PROVE CensusInv'
    BY <2>1, InsertAccountKeeps
  <2>2. ASSUME ReadWhitelist(r) PROVE CensusInv'
    BY <2>2, ReadWhitelistKeeps
  <2>3. ASSUME InsertApplication(r) \/ MarkRejected(r) \/ InsertVoter(r) \/ Invite(r) PROVE CensusInv'
    BY <2>3, OneStatementKeeps
  <2>4. ASSUME InsertDomain(r) PROVE CensusInv'
    BY <2>4, InsertDomainKeeps
  <2>5. ASSUME SelectUsers(r) PROVE CensusInv'
    BY <2>5, SelectUsersKeeps
  <2>6. ASSUME AssignNext(r) PROVE CensusInv'
    BY <2>6, AssignNextKeeps
  <2>7. ASSUME ReadSeat(r) PROVE CensusInv'
    BY <2>7, ReadSeatKeeps
  <2>8. ASSUME InsertCandidate(r) PROVE CensusInv'
    BY <2>8, InsertCandidateKeeps
  <2>9. ASSUME WriteRow(r) PROVE CensusInv'
    BY <2>9, WriteRowKeeps
  <2>10. ASSUME Commit(r) PROVE CensusInv'
    BY <2>10, FounderCommits, AccountsCommit
  <2>11. ASSUME Collides(r) \/ Victim(r) PROVE CensusInv'
    BY <2>11, GivingUp DEF Collides, Victim
  <2> QED
    BY <1>2, <2>1, <2>2, <2>3, <2>4, <2>5, <2>6, <2>7, <2>8, <2>9, <2>10, <2>11 DEF Step
<1>3. ASSUME NEW r \in Requests, StatementFails(r) PROVE CensusInv'
  BY <1>3, GivingUp DEF StatementFails
<1>4. ASSUME NEW p \in People, Anonymize(p) PROVE CensusInv'
  BY <1>4, AnonymizeKeeps
<1>5. ASSUME NEW p \in People, NEW scope \in Scopes, ApproveAccount(p, scope) PROVE CensusInv'
  BY <1>5, ApproveKeeps
<1>6. ASSUME NEW e \in Elections, Start(e) \/ SentToChain(e) PROVE CensusInv'
  BY <1>6, ClockKeeps
<1>7. CASE UNCHANGED vars
  <2>1. UNCHANGED <<reqs, access, voters, accounts, elections, started, excused>>
    BY <1>7 DEF vars, people, polls
  <2>2. /\ accounts' \in [People -> Account \cup {None}] /\ Approved' = Approved
        /\ elections' \in [Elections -> Election \cup {None}] /\ Made' = Made
        /\ started' \subseteq Elections
    BY <2>1 DEF CensusInv, CensusTypeOK, Approved, Has, Made
  <2> QED
    BY <2>1, <2>2, NobodyMoves
<1> QED
  BY <1>1, <1>2, <1>3, <1>4, <1>5, <1>6, <1>7, CrashKeeps DEF Next

(* A student with an account is in the census of every election open to    *)
(* students of the domain, or a request is still adding them, unless one of*)
(* the known gaps let the pair through.                                    *)
THEOREM NobodyIsLeftOut == Spec => []CensusComplete
<1>1. CensusInv => CensusComplete
  <2> SUFFICES ASSUME CensusInv, NEW e \in Made \ started, NEW p \in Students \cap Approved,
                      elections[e].who # "admin", <<e, DomainOf[p]>> \in access
               PROVE  \/ <<e, p>> \in voters \cup excused
                      \/ \E r \in Requests : reqs[r].op = "domain" /\ reqs[r].el = e /\ Open(r)
    BY DEF CensusComplete
  <2>1. e \in Elections /\ Entitled(e, p)
    BY DEF Entitled, Made
  <2>2. IsTaken(e, p)
    BY <2>1 DEF CensusInv, Settled, Told
  <2>3. ASSUME NEW r \in Requests, Pending(r, e, p)
        PROVE  reqs[r].op = "domain" /\ reqs[r].el = e /\ Open(r)
    BY <2>3 DEF Pending, Open, At
  <2> QED
    BY <2>2, <2>3 DEF IsTaken
<1> QED
  BY <1>1, CensusInit, CensusStep, PTL DEF Spec

(* Voters come from three statements, none of a request that came in when  *)
(* the election had begun.                                                 *)
LEMMA VotersOfOldRequests ==
    ASSUME CensusInv, [Next]_vars,
           NEW e \in Made \cap started, NEW p \in People, <<e, p>> \in voters' \ voters
    PROVE  \E r \in Requests : Open(r) /\ e \notin reqs[r].born /\ reqs'[r] # reqs[r]
<1>1. PICK r \in Requests : InsertVoter(r) \/ AssignNext(r) \/ Commit(r)
  <2>1. ASSUME NEW r \in Requests, Arrival(r) PROVE voters' = voters
    BY ZenonT(40), <2>1
       DEF Arrival, Register, Apply, CreateDomainAdmin, CreateUser, Accept, Reject,
           ImportUsers, ImportVoters, CreateElection, AddDomain, AddVoter, AddCandidate,
           Arrives, polls
  <2>2. ASSUME NEW r \in Requests, GivesUp(r) PROVE voters' = voters
    BY <2>2 DEF GivesUp, polls
  <2>3. ASSUME NEW r \in Requests, Step(r)
        PROVE  InsertVoter(r) \/ AssignNext(r) \/ Commit(r) \/ voters' = voters
    BY <2>2, <2>3 DEF Step, InsertAccount, ReadWhitelist, InsertApplication, MarkRejected,
                InsertDomain, SelectUsers, ReadSeat, InsertCandidate, WriteRow, Invite,
                Collides, Victim, polls
  <2>4. ASSUME NEW a \in People, Anonymize(a) \/ \E scope \in Scopes : ApproveAccount(a, scope)
        PROVE  voters' \subseteq voters
    BY <2>4 DEF Anonymize, ApproveAccount, polls
  <2>5. ASSUME NEW f \in Elections, Start(f) \/ SentToChain(f) PROVE voters' = voters
    BY <2>5 DEF Start, SentToChain, polls
  <2>6. Crash \/ UNCHANGED vars => voters' = voters
    BY DEF Crash, vars, polls
  <2>7. \A r \in Requests : StatementFails(r) => GivesUp(r)
    BY DEF StatementFails
  <2> QED
    BY <2>1, <2>2, <2>3, <2>4, <2>5, <2>6, <2>7 DEF Next
<1>2. /\ RequestOK(reqs[r]) /\ RequestFits(reqs[r]) /\ reqs[r] \in Request
      /\ reqs \in [Requests -> Request]
  BY DEF CensusInv, CensusTypeOK
<1>3. Answer(r) => reqs'[r].op = "served" /\ reqs'[r].stage = "done"
  <2>1. Served.op = "served" /\ Served.stage = "done"
    BY DEF Served, NoRequest
  <2> QED
    BY <1>2, <2>1 DEF Answer
<1>4. CASE InsertVoter(r)
  <2>1. reqs[r].op = "voter" /\ reqs[r].stage = "write" /\ e = reqs[r].el /\ Answer(r)
    BY <1>4 DEF InsertVoter, At
  <2> QED
    BY <1>2, <1>3, <2>1 DEF RequestOK, Open, At
<1>5. CASE AssignNext(r)
  <2> DEFINE todo == reqs[r].todo
  <2>1. /\ reqs[r].op = "domain" /\ reqs[r].stage = "after" /\ todo # <<>> /\ todo \in Seq(Row)
        /\ voters' = voters \cup {<<Head(todo)[2], Head(todo)[3]>>}
    BY <1>2, <1>5 DEF AssignNext, At, Request
  <2>2. Head(todo) = todo[1] /\ 1 \in 1 .. Len(todo)
    <3> HIDE DEF Row
    <3> QED
      BY <2>1
  <2>3. todo[1][2] = reqs[r].el
    BY <1>2, <2>1, <2>2 DEF RequestOK, RowOK
  <2>4. e = reqs[r].el
    BY <2>1, <2>2, <2>3
  <2>5. reqs'[r] # reqs[r]
    <3>1. CASE Len(todo) = 1
      BY <1>3, <1>5, <2>1, <3>1 DEF AssignNext
    <3>2. CASE Len(todo) # 1
      <4> DEFINE q == [reqs[r] EXCEPT !.todo = Tail(todo)]
      <4>0. reqs' = [reqs EXCEPT ![r] = q]
        BY <1>5, <3>2 DEF AssignNext
      <4>1. reqs'[r].todo = Tail(todo)
        BY <1>2, <4>0 DEF Request
      <4>2. Len(Tail(todo)) # Len(todo)
        <5> HIDE DEF Row
        <5> QED
          BY <2>1, <2>2
      <4> QED
        BY <4>1, <4>2
    <3> QED
      BY <3>1, <3>2
  <2> QED
    BY <1>2, <2>1, <2>4, <2>5 DEF RequestOK, Open, At
<1>6. CASE Commit(r)
  <2>1. /\ reqs[r].stage = "tx" /\ <<"voters", e, p>> \in reqs[r].held
        /\ reqs'[r].stage \in {"done", "after"}
    <3>1. voters' = voters \cup {x \in Elections \X People : <<"voters", x[1], x[2]>> \in reqs[r].held}
      BY <1>6 DEF Commit
    <3> DEFINE after == [reqs[r] EXCEPT !.stage = "after", !.held = {}]
    <3>2. reqs' = [reqs EXCEPT ![r] = after] \/ Answer(r)
      BY <1>6 DEF Commit
    <3>3. after.stage = "after"
      BY <1>2 DEF Request
    <3> HIDE DEF after
    <3>4. reqs'[r].stage \in {"done", "after"}
      BY <1>2, <1>3, <3>2, <3>3
    <3> QED
      BY <1>6, <3>1, <3>4 DEF Commit, At
  <2>2. e \notin reqs[r].born
    <3>1. e \notin reqs[r].born \/ (reqs[r].op = "found" /\ e = reqs[r].el)
      BY <1>2, <2>1 DEF RequestOK, HeldOK
    <3> QED
      BY <1>2, <3>1 DEF RequestFits
  <2> QED
    BY <2>1, <2>2 DEF Open, At
<1> QED
  BY <1>1, <1>4, <1>5, <1>6

(* A census that has begun grows only by requests that came in before.     *)
THEOREM CensusIsFrozen == Spec => FrozenAfterStart
<1>1. CensusInv /\ [Next]_vars =>
        [\A e \in Made \cap started, p \in People :
            <<e, p>> \in voters' \ voters =>
                \E r \in Requests : Open(r) /\ e \notin reqs[r].born /\ reqs'[r] # reqs[r]]_vars
  BY VotersOfOldRequests
<1> QED
  BY <1>1, CensusInit, CensusStep, PTL DEF Spec, FrozenAfterStart

===============================================================================
