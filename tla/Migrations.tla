------------------------------ MODULE Migrations ------------------------------
(* The sixteen migrations of the PostgreSQL schema, up and down, over the   *)
(* rows that the code of each version leaves.  `npm run migrate' applies    *)
(* what is pending and `npm run migrate:down' undoes one; a release may end *)
(* at any of them, so each is a step, and the code writes in between.  Of   *)
(* the columns only those that some migration reads or writes are kept.     *)
EXTENDS Naturals, FiniteSets

CONSTANTS
    Members,        \* users who vote in one election
    DemoMembers,    \* those whose address is of vtb.demo
    Hashes,       \* values of nullifier_hash
    Paper,        \* the ids of the candidates of the election
    MaxDowns      \* bound: migrations that are undone

ASSUME MigrationsAssumption ==
    /\ DemoMembers \subseteq Members
    /\ Paper \subseteq Nat /\ IsFiniteSet(Paper)
    /\ MaxDowns \in Nat

VARIABLES
    version,         \* pgmigrations: how many are applied
    subject,         \* bound: the rows that the code writes are of one subject
    tables, secured, \* the tables, and those with row level security
    nullifier_audit, election_participations,
    position,        \* candidates.position
    registered,      \* elections.chain_status is "synced"
    email_log,       \* one row
    link,            \* the token of a link
    request,         \* registration_requests.status of one row
    downs

votesRows   == <<nullifier_audit, election_participations>>
paperRows   == <<position, registered>>
mailRows    == <<email_log, link>>
schema      == <<tables, secured>>
migrationsVars == <<version, subject, schema, votesRows, paperRows, mailRows, request, downs>>

NoMail == [status |-> "none", exhausted |-> FALSE, body |-> "none", template_data |-> FALSE]

MigrationsInit ==
    /\ version = 0 /\ subject \in {"votes", "candidates", "mail", "requests"}
    /\ tables = {"pgmigrations"} /\ secured = {}
    /\ nullifier_audit = {} /\ election_participations = {}
    /\ position = [c \in Paper |-> 0] /\ registered = FALSE
    /\ email_log = NoMail /\ link = "none"
    /\ request = "none"
    /\ downs = 0

(* What the migrations that add a constraint, or turn its rows away, make   *)
(* of them first.                                                           *)
FirstStatuses == {"none", "queued", "sent", "failed", "skipped"}
Statuses      == FirstStatuses \cup {"sending", "dead"}

Unqueued(status) == IF status \in {"sending", "dead"} THEN "failed" ELSE status

\* Mutant: the candidates keep their positions.
Renumbered_Not == position
Renumbered ==
    [c \in Paper |-> Cardinality({d \in Paper : \/ position[d] < position[c]
                                                \/ position[d] = position[c] /\ d < c})]

UniquePositions(p) == \A c, d \in Paper : c # d => p[c] # p[d]

FirstRequests == {"none", "pending", "approved", "rejected"}

Verified == IF request = "unverified" THEN "none" ELSE request

Duplicates ==
    \E r, s \in nullifier_audit : r # s /\ r.hash = s.hash

(* A migration stops, and the server with it, when the rows break what it   *)
(* adds; so does one that is undone, whose constraint was narrower.         *)
Fits(n) ==
    /\ n = 4  => email_log.status \in Statuses
    /\ n = 9  => UniquePositions(Renumbered)
    /\ n = 15 => request \in FirstRequests \cup {"unverified"}
    /\ n = 16 => ~Duplicates

FitsBack(n) ==
    /\ n = 4  => Unqueued(email_log.status) \in FirstStatuses
    /\ n = 15 => Verified \in FirstRequests

Up(n) ==
    /\ version = n - 1 /\ Fits(n) /\ version' = n
    /\ UNCHANGED <<subject, downs>>

Down(n) ==
    /\ version = n /\ FitsBack(n) /\ version' = n - 1
    /\ downs < MaxDowns /\ downs' = downs + 1
    /\ UNCHANGED subject

-------------------------------------------------------------------------------
(* 001 to 003: the tables, those of the mail, and the bodies of the mails.  *)

ElectionTables ==
    {"users", "elections", "election_images", "candidates", "election_access",
     "election_targets", "election_voters"}

OtherTables ==
    {"vote_attempts", "nullifier_audit", "registration_requests",
     "org_units", "schools_and_degrees", "email_whitelist"}

FirstTables == ElectionTables \cup OtherTables

InitialSchema ==
    /\ Up(1) /\ tables' = tables \cup FirstTables
    /\ UNCHANGED <<secured, votesRows, paperRows, mailRows, request>>

InitialSchemaDown ==
    /\ Down(1)
    /\ tables' = tables \ FirstTables /\ secured' = secured \ FirstTables
    /\ nullifier_audit' = {} /\ position' = [c \in Paper |-> 0] /\ request' = "none"
    /\ UNCHANGED <<election_participations, registered, mailRows>>

EmailTables ==
    /\ Up(2) /\ tables' = tables \cup {"email_log", "password_reset_tokens"}
    /\ UNCHANGED <<secured, votesRows, paperRows, mailRows, request>>

EmailTablesDown ==
    /\ Down(2) /\ tables' = tables \ {"email_log", "password_reset_tokens"}
    /\ email_log' = NoMail /\ link' = "none"
    /\ UNCHANGED <<secured, votesRows, paperRows, request>>

EmailBody == Up(3) /\ UNCHANGED <<schema, votesRows, paperRows, mailRows, request>>

EmailBodyDown ==
    /\ Down(3) /\ email_log' = [email_log EXCEPT !.body = "none"]
    /\ UNCHANGED <<schema, votesRows, paperRows, link, request>>

(* 004: what had failed is queued again, or dead when it has no attempt left. *)

Requeued(status) == IF status # "failed" THEN status
                    ELSE IF email_log.exhausted THEN "dead" ELSE "queued"

EmailQueueState ==
    /\ Up(4)
    /\ email_log' = [email_log EXCEPT !.status = Requeued(@)]
    /\ UNCHANGED <<schema, votesRows, paperRows, link, request>>

EmailQueueStateDown ==
    /\ Down(4)
    /\ email_log' = [email_log EXCEPT !.status = Unqueued(@)]
    /\ UNCHANGED <<schema, votesRows, paperRows, link, request>>

(* 005 and 006: the sessions, and row level security for what there is.     *)

RefreshTokens ==
    /\ Up(5) /\ tables' = tables \cup {"refresh_tokens"}
    /\ UNCHANGED <<secured, votesRows, paperRows, mailRows, request>>

RefreshTokensDown ==
    /\ Down(5) /\ tables' = tables \ {"refresh_tokens"}
    /\ UNCHANGED <<secured, votesRows, paperRows, mailRows, request>>

TABLES == FirstTables \cup {"email_log", "password_reset_tokens", "refresh_tokens", "pgmigrations"}

EnableRls ==
    /\ Up(6) /\ secured' = secured \cup (TABLES \cap tables)
    /\ UNCHANGED <<tables, votesRows, paperRows, mailRows, request>>

EnableRlsDown ==
    /\ Down(6) /\ secured' = secured \ TABLES
    /\ UNCHANGED <<tables, votesRows, paperRows, mailRows, request>>

(* 007: the links whose text is in a body are used up, the mails that carry *)
(* one and still wait are dead, and what is final keeps no body.            *)

Final == {"sent", "dead", "skipped"}

Emptied(mail)   == IF mail.status \in Final THEN [mail EXCEPT !.body = "none"] ELSE mail
Discarded(mail) == IF mail.status \in {"queued", "sending"} /\ ~mail.template_data /\ mail.body = "token"
                   THEN [mail EXCEPT !.status = "dead"] ELSE mail

LinkAfter(mail) == IF link = "live" /\ mail.body = "token" THEN "used" ELSE link

EmailLogWithoutTokens ==
    /\ Up(7)
    /\ link' = LinkAfter(email_log)
    /\ email_log' = Emptied(Discarded(email_log))
    /\ UNCHANGED <<schema, votesRows, paperRows, request>>

EmailLogWithoutTokensDown ==
    /\ Down(7) /\ email_log' = [email_log EXCEPT !.template_data = FALSE]
    /\ UNCHANGED <<schema, votesRows, paperRows, link, request>>

(* 008: every election is to be registered anew.                            *)

ElectionChainSync == Up(8) /\ UNCHANGED <<schema, votesRows, paperRows, mailRows, request>>

ElectionChainSyncDown ==
    /\ Down(8) /\ registered' = FALSE
    /\ UNCHANGED <<schema, votesRows, position, mailRows, request>>

(* 009: where each vote comes from, no hash without a block, and positions  *)
(* that are unique in their election.                                       *)

SourceOf(row) ==
    IF row.user \in DemoMembers THEN "demo"
    ELSE IF row.tx /\ row.block THEN "chain" ELSE "legacy"

WithSource(row) == [row EXCEPT !.source = SourceOf(row), !.tx = @ /\ row.block]

ChainContractAndVoteSource ==
    /\ Up(9)
    /\ nullifier_audit' = {WithSource(row) : row \in nullifier_audit}
    /\ position' = Renumbered
    /\ UNCHANGED <<schema, election_participations, registered, mailRows, request>>

ChainContractAndVoteSourceDown ==
    /\ Down(9)
    /\ nullifier_audit' = {[row EXCEPT !.source = "none"] : row \in nullifier_audit}
    /\ UNCHANGED <<schema, election_participations, paperRows, mailRows, request>>

(* 010 to 013: columns that begin empty.                                    *)

Columns == UNCHANGED <<schema, votesRows, paperRows, mailRows, request>>

ElectionEphemeralSalt  == Up(10) /\ Columns
VoteAttemptsTxTracking == Up(11) /\ Columns
LegalAcceptance        == Up(12) /\ Columns
RetentionJobs          == Up(13) /\ Columns
ColumnsDown            == \E n \in 10 .. 13 : Down(n) /\ Columns

(* 014: the log of actions.                                                 *)

AdminActionLog ==
    /\ Up(14)
    /\ tables' = tables \cup {"admin_action_log"} /\ secured' = secured \cup {"admin_action_log"}
    /\ UNCHANGED <<votesRows, paperRows, mailRows, request>>

AdminActionLogDown ==
    /\ Down(14)
    /\ tables' = tables \ {"admin_action_log"} /\ secured' = secured \ {"admin_action_log"}
    /\ UNCHANGED <<votesRows, paperRows, mailRows, request>>

(* 015: a request waits for its address to be confirmed.                    *)

RegistrationEmailVerification ==
    /\ Up(15)
    /\ UNCHANGED <<schema, votesRows, paperRows, mailRows, request>>

RegistrationEmailVerificationDown ==
    /\ Down(15) /\ request' = Verified
    /\ UNCHANGED <<schema, votesRows, paperRows, mailRows>>

(* 016: who has voted on one side, the votes on the other; it is not undone *)

\* Mutant: only the votes of the chain are copied.
Anonymous_OnChain(rows) == {[row EXCEPT !.user = "nobody"] : row \in {r \in rows : r.source = "chain"}}
Anonymous(rows) == {[row EXCEPT !.user = "nobody"] : row \in rows}

Secured016 == {"election_participations", "nullifier_audit"}

SeparateParticipationFromVotes ==
    /\ Up(16)
    /\ election_participations' = {row.user : row \in nullifier_audit}
    /\ nullifier_audit' = Anonymous(nullifier_audit)
    /\ tables' = tables \cup {"election_participations"}
    /\ secured' = (secured \ {"nullifier_audit"}) \cup Secured016
    /\ UNCHANGED <<paperRows, mailRows, request>>

-------------------------------------------------------------------------------
(* What the code writes, at each version.                                   *)

Unmigrated == UNCHANGED <<version, subject, schema, downs>>

Evidence == {e \in [tx : BOOLEAN, block : BOOLEAN] : e.block => e.tx}

(* Since 009 with its source, if the route already states it; before, with  *)
(* a hash that perhaps no block has.                                        *)
VoteRows(user, hash) ==
    {[user |-> user, hash |-> hash, tx |-> e.tx, block |-> e.block, source |-> s] :
       e \in Evidence, s \in IF version < 9 THEN {"none"} ELSE {"legacy"}}
    \cup (IF version < 9 THEN {}
          ELSE {[user |-> user, hash |-> hash, tx |-> TRUE, block |-> TRUE, source |-> "chain"],
                [user |-> user, hash |-> hash, tx |-> FALSE, block |-> FALSE, source |-> "demo"]})

RecordVote(user, hash) ==
    /\ subject = "votes" /\ version \in 1 .. 15
    /\ \A row \in nullifier_audit : row.user # user
    /\ \E row \in VoteRows(user, hash) : nullifier_audit' = nullifier_audit \cup {row}
    /\ UNCHANGED <<election_participations, paperRows, mailRows, request>> /\ Unmigrated

RecordConfirmedVote(user, hash) ==
    /\ subject = "votes" /\ version = 16 /\ user \notin election_participations
    /\ \A row \in nullifier_audit : row.hash # hash
    /\ election_participations' = election_participations \cup {user}
    /\ \E row \in {r \in VoteRows("nobody", hash) : r.source # "legacy"} :
          nullifier_audit' = nullifier_audit \cup {row}
    /\ UNCHANGED <<paperRows, mailRows, request>> /\ Unmigrated

(* The candidates of an election, in their order since 009; before, with    *)
(* any position.                                                            *)
WriteCandidates ==
    /\ subject = "candidates" /\ version >= 1 /\ ~registered
    /\ \E p \in [Paper -> 0 .. Cardinality(Paper)] :
          /\ version >= 9 => UniquePositions(p)
          /\ position' = p
    /\ UNCHANGED <<votesRows, registered, mailRows, request>> /\ Unmigrated

RegisterElection ==
    /\ subject = "candidates" /\ version >= 8 /\ ~registered /\ registered' = TRUE
    /\ UNCHANGED <<votesRows, position, mailRows, request>> /\ Unmigrated

(* A mail, with its body since 003; since 007 a link is not in it.          *)
EnqueueMail ==
    /\ subject = "mail" /\ version >= 2 /\ email_log = NoMail
    /\ \/ /\ email_log' = [NoMail EXCEPT !.status = "queued",
                                         !.body = IF version >= 3 THEN "plain" ELSE "none"]
          /\ UNCHANGED link
       \/ /\ version < 7 /\ link' = "live"
          /\ email_log' = [NoMail EXCEPT !.status = "queued",
                                         !.body = IF version >= 3 THEN "token" ELSE "none"]
       \/ /\ version >= 7
          /\ email_log' = [NoMail EXCEPT !.status = "queued", !.template_data = TRUE]
          /\ UNCHANGED link
    /\ UNCHANGED <<votesRows, paperRows, request>> /\ Unmigrated

Trimmed(mail) == IF version >= 7 THEN Emptied(mail) ELSE mail

SendMail ==
    /\ email_log.status \in {"queued", "sending"}
    /\ \E status \in (IF version < 4 THEN {"sent", "failed", "skipped"} ELSE {"sending", "queued"} \cup Final),
          exhausted \in BOOLEAN :
          email_log' = Trimmed([email_log EXCEPT !.status = status, !.exhausted = exhausted])
    /\ IF email_log.template_data THEN link' = "live" ELSE UNCHANGED link
    /\ UNCHANGED <<votesRows, paperRows, request>> /\ Unmigrated

UseLink ==
    /\ link = "live" /\ link' = "used"
    /\ UNCHANGED <<votesRows, paperRows, email_log, request>> /\ Unmigrated

(* The request that waits for its address is what 015 announces; the route  *)
(* writes 'pending' at every version.                                       *)
RequestAccess ==
    /\ subject = "requests" /\ version >= 1
    /\ \/ request = "none"       /\ request' \in {"pending", "approved"}
       \/ request = "none"       /\ version >= 15 /\ request' = "unverified"
       \/ request = "unverified" /\ request' \in {"pending", "approved"}
       \/ request = "pending"    /\ request' \in {"approved", "rejected"}
    /\ UNCHANGED <<votesRows, paperRows, mailRows>> /\ Unmigrated

-------------------------------------------------------------------------------
Upgrade ==
    \/ InitialSchema \/ EmailTables \/ EmailBody \/ EmailQueueState \/ RefreshTokens
    \/ EnableRls \/ EmailLogWithoutTokens \/ ElectionChainSync \/ ChainContractAndVoteSource
    \/ ElectionEphemeralSalt \/ VoteAttemptsTxTracking \/ LegalAcceptance \/ RetentionJobs
    \/ AdminActionLog \/ RegistrationEmailVerification \/ SeparateParticipationFromVotes

Downgrade ==
    \/ InitialSchemaDown \/ EmailTablesDown \/ EmailBodyDown \/ EmailQueueStateDown
    \/ RefreshTokensDown \/ EnableRlsDown \/ EmailLogWithoutTokensDown \/ ElectionChainSyncDown
    \/ ChainContractAndVoteSourceDown \/ ColumnsDown \/ AdminActionLogDown
    \/ RegistrationEmailVerificationDown

MigrationsNext ==
    \/ Upgrade \/ Downgrade
    \/ \E u \in Members, h \in Hashes : RecordVote(u, h) \/ RecordConfirmedVote(u, h)
    \/ WriteCandidates \/ RegisterElection
    \/ EnqueueMail \/ SendMail \/ UseLink \/ RequestAccess

-------------------------------------------------------------------------------
(* Whatever rows the code of a version has left, the next migration can be  *)
(* applied, so that the server starts; only 016 may refuse, two votes with  *)
(* one nullifier.  And below 016 the last one can be undone.                *)
SchemaMoves ==
    /\ version < 15 => Fits(version + 1)
    /\ version \in 1 .. 15 => FitsBack(version)

(* After 016 there are as many votes as voters, though nothing says any     *)
(* more which vote is whose: nobody's vote was lost or made twice.          *)
TurnoutMatchesVotes ==
    version = 16 => Cardinality(nullifier_audit) = Cardinality(election_participations)

(* Since 006 no table can be read past the backend: also those created or   *)
(* replaced later have their row level security.                            *)
DenyByDefault == version >= 6 => tables \subseteq secured

===============================================================================
