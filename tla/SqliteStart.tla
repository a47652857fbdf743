----------------------------- MODULE SqliteStart -----------------------------
(* What a start of the backend does to a SQLite file of an older release:   *)
(* it creates what is missing, repairs rows, and separates who has voted    *)
(* from the votes.  Almost every statement swallows its error, since most   *)
(* fail because there is nothing left to do, and the process may stop       *)
(* between any two of them; another start goes through all of it again.     *)
EXTENDS Naturals, Sequences

CONSTANTS
    Voters,     \* users who vote in one election
    Ballots     \* values of nullifier_hash

VARIABLES
    kind,       \* bound: the file has rows of one kind
    boot,       \* the step of the start, and whether it has found a link in a body
    missed,     \* whether a statement has failed silently: in this start, before, never
    blocks,     \* the tables and columns that the file has, by the step that adds them
    approved,   \* is_approved of one administrator
    outbox,     \* one row of email_log
    resetLink, exposed,  \* a link of password_reset_tokens, and whether its text was in a body
    disk,       \* the tables of the votes, as committed
    work,       \* and as the transaction sees them
    voted       \* every vote there ever was, as it was cast

sqliteStartVars == <<kind, boot, missed, blocks, approved, outbox, resetLink, exposed, disk, work, voted>>

votesTables == <<disk, work, voted>>
letters     == <<outbox, resetLink, exposed>>

(* The steps that add tables and columns, in the order of the migrations of *)
(* PostgreSQL that they copy: an older file has those up to some release.   *)
(* "tracking" are tx_hash and nonce of vote_attempts: no step adds them to  *)
(* a table that is there.                                                   *)
Releases == <<"attempts", "columns", "mail", "links", "queue", "sessions", "template", "chain",
              "tracking", "actions">>
Blocks   == {Releases[i] : i \in DOMAIN Releases}

(* initialize(): its steps in their order.                                  *)
Steps == <<"tables", "columns", "sessions", "admins", "mail",
           "queue", "requeue", "links", "actions", "template",
           "find", "mark", "discard", "empty", "chain",
           "votes", "participations", "copy", "drop", "rename", "commit">>

AtStep(step) == \E i \in DOMAIN Steps : boot.at = i /\ Steps[i] = step
Stopped      == boot.at = 0
Ready        == boot.at = Len(Steps) + 1

NoLetter == [status |-> "none", exhausted |-> FALSE, body |-> "none", template |-> FALSE]

OldLetters(has) ==
    {NoLetter} \cup
    {m \in [status : {"queued", "sending", "sent", "failed", "dead", "skipped"}, exhausted : BOOLEAN,
            body : {"none", "token"}, template : {FALSE}] :
        /\ "mail" \in has
        /\ m.status \in {"sending", "dead"} => "queue" \in has
        /\ m.status = "failed"              => "queue" \notin has
        /\ m.body = "token"                 => "links" \in has /\ "template" \notin has}

(* A row of nullifier_audit: whose vote it is, and whether the row says so. *)
Signed(user, hash) == [of |-> user, hash |-> hash, named |-> TRUE]
Nameless(r)        == [r EXCEPT !.named = FALSE]

(* UNIQUE(user_id, election_id); nothing keeps two old votes from one hash. *)
OldVotes == {rows \in SUBSET {Signed(u, h) : u \in Voters, h \in Ballots} :
                \A r, s \in rows : r.of = s.of => r = s}

SqliteStartInit ==
    /\ kind \in {"votes", "mail", "admins"}
    /\ boot = [at |-> 0, leaked |-> FALSE] /\ missed = "never"
    /\ approved \in BOOLEAN /\ (approved \/ kind = "admins")
    /\ \E n \in 0 .. Len(Releases), never \in {{}, {"tracking"}} :
          blocks = {Releases[i] : i \in 1 .. n} \ never
    /\ outbox \in OldLetters(blocks) /\ (outbox = NoLetter \/ kind = "mail")
    /\ exposed = (outbox.body = "token")
    /\ resetLink \in IF exposed THEN {"live", "used"} ELSE {"none"}
    /\ voted \in OldVotes /\ (voted = {} \/ kind = "votes")
    /\ disk = [form |-> IF blocks = {} /\ voted = {} THEN "absent" ELSE "old",
               rows |-> voted, new |-> {}, participations |-> {}]
    /\ work = disk

-------------------------------------------------------------------------------
Passes(step) == AtStep(step) /\ boot' = [boot EXCEPT !.at = @ + 1] /\ UNCHANGED <<kind, missed>>

StartBackend ==
    /\ Stopped
    /\ boot' = [at |-> 1, leaked |-> FALSE]
    /\ missed' = IF missed = "never" THEN "never" ELSE "before"
    /\ UNCHANGED <<kind, blocks, approved, letters, votesTables>>

(* The first tables; the error of the last rejects, and the process ends.   *)
CreateTables ==
    /\ Passes("tables")
    /\ disk' = IF disk.form = "absent" THEN [disk EXCEPT !.form = "new", !.rows = {}] ELSE disk
    /\ work' = disk'
    /\ blocks' = IF "attempts" \in blocks THEN blocks ELSE blocks \cup {"attempts", "tracking"}
    /\ UNCHANGED <<approved, letters, voted>>

AddBlock(step) ==
    /\ Passes(step) /\ blocks' = blocks \cup {step}
    /\ UNCHANGED <<approved, letters, votesTables>>

AddColumns      == AddBlock("columns")
AddSessions     == AddBlock("sessions")
AddEmailLog     == AddBlock("mail")
AddQueueColumns == AddBlock("queue")
AddResetTokens  == AddBlock("links")
AddActionLog    == AddBlock("actions")
AddTemplateData == AddBlock("template")
AddChainColumns == AddBlock("chain")

ApproveAdmins ==
    /\ Passes("admins") /\ approved' = TRUE
    /\ UNCHANGED <<blocks, letters, votesTables>>

Letter(m) == outbox' = m /\ UNCHANGED <<blocks, approved, resetLink, exposed, votesTables>>

(* What had failed waits again, or has been tried often enough.             *)
Requeue ==
    /\ Passes("requeue")
    /\ Letter(IF outbox.status # "failed" THEN outbox
              ELSE [outbox EXCEPT !.status = IF outbox.exhausted THEN "dead" ELSE "queued"])

(* scrubLoggedEmailTokens: the links in bodies are found, then used up; the *)
(* mails that still wait with one are dropped, and at last no final one     *)
(* keeps its body.                                                          *)
FindLinks ==
    /\ AtStep("find") /\ boot' = [at |-> boot.at + 1, leaked |-> outbox.body = "token"]
    /\ UNCHANGED <<kind, missed, blocks, approved, letters, votesTables>>

MarkUsed ==
    /\ Passes("mark")
    /\ resetLink' = IF boot.leaked /\ resetLink = "live" THEN "used" ELSE resetLink
    /\ UNCHANGED <<blocks, approved, outbox, exposed, votesTables>>

DiscardLinks ==
    /\ Passes("discard")
    /\ Letter(IF outbox.status \in {"queued", "sending"} /\ ~outbox.template /\ outbox.body = "token"
              THEN [outbox EXCEPT !.status = "dead"] ELSE outbox)

WithoutBody(m) == IF m.status \in {"sent", "dead", "skipped"} THEN [m EXCEPT !.body = "none"] ELSE m

EmptyBodies == Passes("empty") /\ Letter(WithoutBody(outbox))

-------------------------------------------------------------------------------
(* separateParticipationFromVotes: one transaction.                         *)

\* Mutant: there is no BEGIN.
Executes1_Autocommit(tables) == work' = tables /\ disk' = tables
Executes1(tables) == work' = tables /\ UNCHANGED disk

InTransaction == UNCHANGED <<blocks, approved, letters, voted>>

NothingToSeparate ==
    /\ AtStep("votes") /\ disk.form # "old"
    /\ boot' = [boot EXCEPT !.at = Len(Steps) + 1]
    /\ UNCHANGED <<kind, missed, disk, work>> /\ InTransaction

BeginSeparation ==
    /\ Passes("votes") /\ disk.form = "old"
    /\ UNCHANGED <<disk, work>> /\ InTransaction

InsertParticipations ==
    /\ Passes("participations")
    /\ Executes1([work EXCEPT !.participations = @ \cup {r.of : r \in work.rows}]) /\ InTransaction

(* Every column that is copied must be there.                               *)
Copied == {"columns", "chain"}

(* INSERT OR IGNORE, in a random order: of the votes with one hash one is   *)
(* copied, whichever it is, and the others are dropped.                     *)
OnePerHash(rows) ==
    {kept \in SUBSET rows : /\ \A r \in rows : \E k \in kept : k.hash = r.hash
                            /\ \A k, l \in kept : k.hash = l.hash => k = l}

CopyVotes ==
    /\ Passes("copy") /\ Copied \subseteq blocks
    /\ \E kept \in OnePerHash(work.rows) : Executes1([work EXCEPT !.new = {Nameless(r) : r \in kept}])
    /\ InTransaction

DropOld ==
    /\ Passes("drop")
    /\ Executes1([work EXCEPT !.form = "absent", !.rows = {}]) /\ InTransaction

Rename ==
    /\ Passes("rename")
    /\ Executes1([work EXCEPT !.form = "new", !.rows = work.new, !.new = {}]) /\ InTransaction

CommitSeparation ==
    /\ Passes("commit")
    /\ disk' = work /\ UNCHANGED work /\ InTransaction

-------------------------------------------------------------------------------
(* A statement fails.  Inside the scrubbing the rest of it is left; outside *)
(* the next statement follows; the first tables and the transaction reject, *)
(* the transaction after its ROLLBACK, and the process ends.                *)
Scrubbing  == {"find", "mark", "discard", "empty"}
Separating == {"votes", "participations", "copy", "drop", "rename", "commit"}
Numbered(step) == CHOOSE i \in DOMAIN Steps : Steps[i] = step

Swallowed ==
    /\ \E step \in {Steps[i] : i \in DOMAIN Steps} \ (Separating \cup {"tables"}) :
          /\ AtStep(step)
          /\ boot' = [boot EXCEPT !.at = IF step \in Scrubbing THEN Numbered("chain") ELSE @ + 1]
    /\ missed' = "now"
    /\ UNCHANGED <<kind, blocks, approved, letters, votesTables>>

(* The process ends: for an error that is not swallowed, or for any reason. *)
Exit ==
    /\ ~Stopped /\ boot' = [at |-> 0, leaked |-> FALSE]
    /\ work' = disk
    /\ UNCHANGED <<kind, missed, blocks, approved, letters, disk, voted>>

-------------------------------------------------------------------------------
(* Then the backend serves: votes in their new form, mails without links.   *)

Serving(rows) == Ready /\ kind = rows /\ UNCHANGED <<kind, boot, missed, blocks>>

RecordVoteSqlite(user, hash) ==
    /\ Serving("votes") /\ user \notin disk.participations /\ \A r \in disk.rows : r.hash # hash
    /\ disk' = [disk EXCEPT !.participations = @ \cup {user},
                            !.rows = @ \cup {Nameless(Signed(user, hash))}]
    /\ work' = disk' /\ voted' = voted \cup {Signed(user, hash)}
    /\ UNCHANGED <<approved, letters>>

EnqueueLetter ==
    /\ Serving("mail") /\ {"mail", "queue", "template"} \subseteq blocks /\ outbox = NoLetter
    /\ outbox' = [NoLetter EXCEPT !.status = "queued", !.template = TRUE]
    /\ UNCHANGED <<approved, resetLink, exposed, votesTables>>

(* A mail with template data gets its link when it is sent.                 *)
SendLetter ==
    /\ Serving("mail") /\ "queue" \in blocks /\ outbox.status \in {"queued", "sending"}
    /\ \E status \in {"queued", "sending", "sent", "dead", "skipped"} :
          outbox' = WithoutBody([outbox EXCEPT !.status = status])
    /\ IF outbox.template /\ "links" \in blocks
       THEN resetLink' = "live" /\ exposed' = FALSE ELSE UNCHANGED <<resetLink, exposed>>
    /\ UNCHANGED <<approved, votesTables>>

UseResetLink ==
    /\ Serving("mail") /\ resetLink = "live" /\ resetLink' = "used"
    /\ UNCHANGED <<approved, outbox, exposed, votesTables>>

WithdrawApproval ==
    /\ Serving("admins") /\ approved /\ approved' = FALSE
    /\ UNCHANGED <<letters, votesTables>>

-------------------------------------------------------------------------------
Initialize ==
    \/ CreateTables \/ AddColumns \/ AddSessions \/ ApproveAdmins
    \/ AddEmailLog \/ AddQueueColumns \/ Requeue \/ AddResetTokens \/ AddActionLog \/ AddTemplateData
    \/ FindLinks \/ MarkUsed \/ DiscardLinks \/ EmptyBodies
    \/ AddChainColumns
    \/ NothingToSeparate \/ BeginSeparation \/ InsertParticipations \/ CopyVotes
    \/ DropOld \/ Rename \/ CommitSeparation

SqliteStartNext ==
    \/ StartBackend \/ Initialize \/ Swallowed \/ Exit
    \/ \E u \in Voters, h \in Ballots : RecordVoteSqlite(u, h)
    \/ EnqueueLetter \/ SendLetter \/ UseResetLink \/ WithdrawApproval

(* No other vote there ever was has the hash of v.                          *)
Alone(v) == \A u \in voted : u.hash = v.hash => u = v

(* When a start is through, wherever those before it broke off and whatever *)
(* they swallowed: every vote whose hash no other had is there, as it was   *)
(* cast and without its voter, and of those that shared one hash exactly    *)
(* one is; nothing else is there, and every voter has taken part.  If this  *)
(* start swallowed no error, the file has all its tables, all their columns *)
(* but perhaps the two of "tracking", and no mail that nobody would send;   *)
(* and if none ever did, no link whose text was stored can still be used.   *)
FileIsWhole ==
    Ready =>
        /\ disk.form = "new"
        /\ \A r \in disk.rows : \E v \in voted : r = Nameless(v)
        /\ \A v \in voted : Alone(v) => Nameless(v) \in disk.rows
        /\ \A v \in voted : \E r \in disk.rows : r.hash = v.hash
        /\ \A r, s \in disk.rows : r.hash = s.hash => r = s
        /\ disk.participations = {v.of : v \in voted}
        /\ missed # "now"  => Blocks \ {"tracking"} \subseteq blocks /\ outbox.status # "failed"
        /\ missed = "never" => ~(exposed /\ resetLink = "live")

===============================================================================
