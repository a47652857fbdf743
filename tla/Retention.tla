------------------------------ MODULE Retention ------------------------------
(* What the backend keeps of a person, and for how long: the requests that  *)
(* were rejected, the mails, the links, the accounts that were closed and   *)
(* the actions of the administrators.  Every five minutes a run goes        *)
(* through all of it, and does not wait for the run before it.              *)
EXTENDS Naturals, Sequences, FiniteSets

CONSTANTS
    Kept,         \* rows
    TableOf,      \* "request", "mail", "token", "account" or "action", for each
    RETENTION,    \* days, for each table
    TokenLife,    \* days until a link expires
    Runs,         \* runs of the job at a time
    LastDay,      \* bound: the days of a behaviour
    MaxJobErrors  \* bound: statements of the job that fail

Order == <<"request", "mail", "token", "account", "action">>
Never == LastDay + 1

ASSUME RetentionAssumption ==
    /\ TableOf \in [Kept -> {"request", "mail", "token", "account", "action"}]
    /\ RETENTION \in [{"request", "mail", "token", "account", "action"} -> Nat]
    /\ TokenLife \in Nat /\ LastDay \in Nat /\ MaxJobErrors \in Nat

VARIABLES
    day,
    kept,         \* each row: "none", "live", "over" or "gone", and when it was over
    job,          \* the runs: the step, and the accounts selected
    jobErrors

retentionVars == <<day, kept, job, jobErrors>>

NoJob == [step |-> 0, ids |-> {}]

RetentionInit ==
    /\ day = 0
    /\ kept = [r \in Kept |-> [status |-> "none", since |-> Never]]
    /\ job = [j \in Runs |-> NoJob]
    /\ jobErrors = 0

In(table, status) == {r \in Kept : TableOf[r] = table /\ kept[r].status = status}

Row(r, status, since) ==
    /\ kept' = [kept EXCEPT ![r] = [status |-> status, since |-> since]]
    /\ UNCHANGED <<day, job, jobErrors>>

NextDay ==
    /\ day < LastDay /\ day' = day + 1
    /\ UNCHANGED <<kept, job, jobErrors>>

(* A request is made, and then approved, which keeps it, or rejected.       *)
MakeRequest(r)   == r \in In("request", "none") /\ Row(r, "live", Never)
RejectAccess(r)  == r \in In("request", "live") /\ Row(r, "over", day)

(* The mails and the actions count from the day they are written.           *)
EnqueueEmail(r)   == r \in In("mail", "none")   /\ Row(r, "over", day)
logAdminAction(r) == r \in In("action", "none") /\ Row(r, "over", day)

(* A link counts from its use, or from the day it expires.                  *)
IssueLink(r) == r \in In("token", "none") /\ Row(r, "live", day + TokenLife)
Usable(r)    == r \in In("token", "live") /\ day < kept[r].since
FollowLink(r) == Usable(r) /\ Row(r, "over", day)

(* An account is closed by its owner, once, or by an administrator, who may *)
(* do it again.                                                             *)
OpenAccount(r)  == r \in In("account", "none") /\ Row(r, "live", Never)
DeleteMe(r)     == r \in In("account", "live") /\ Row(r, "over", day)
DeleteAgain(r)  == r \in In("account", "live") \cup In("account", "over")
                   /\ kept[r].since # day /\ Row(r, "over", day)

-------------------------------------------------------------------------------
(* runRetentionJobs.                                                        *)

(* Strictly before the cutoff.                                              *)
Overdue(r) == kept[r].status \in {"live", "over"} /\ kept[r].since + RETENTION[TableOf[r]] < day

Gone(rows) == kept' = [r \in Kept |-> IF r \in rows THEN [kept[r] EXCEPT !.status = "gone"] ELSE kept[r]]

StartRun(j) ==
    /\ job[j].step = 0 /\ job' = [job EXCEPT ![j].step = 1]
    /\ UNCHANGED <<day, kept, jobErrors>>

\* Mutant: the last purge is not reached.
Proceeds_Short(j) ==
    job' = [job EXCEPT ![j] = IF @.step = Len(Order) - 1 THEN NoJob ELSE [step |-> @.step + 1, ids |-> {}]]
Proceeds(j) ==
    job' = [job EXCEPT ![j] = IF @.step = Len(Order) THEN NoJob ELSE [step |-> @.step + 1, ids |-> {}]]

(* One DELETE for each table but that of the accounts.                      *)
Purge(j) ==
    /\ job[j].step \in DOMAIN Order \ {4}
    /\ Gone({r \in Kept : TableOf[r] = Order[job[j].step] /\ Overdue(r)})
    /\ Proceeds(j)
    /\ UNCHANGED <<day, jobErrors>>

(* The accounts are selected first, and then emptied one after another.     *)
SelectAccounts(j) ==
    /\ job[j].step = 4 /\ job[j].ids = {}
    /\ LET due == {r \in In("account", "over") : Overdue(r)}
       IN  IF due = {} THEN Proceeds(j) ELSE job' = [job EXCEPT ![j].ids = due]
    /\ UNCHANGED <<day, kept, jobErrors>>

Anonymize(j, r) ==
    /\ r \in job[j].ids
    /\ Gone({r} \cap In("account", "over"))
    /\ IF job[j].ids = {r} THEN Proceeds(j) ELSE job' = [job EXCEPT ![j].ids = @ \ {r}]
    /\ UNCHANGED <<day, jobErrors>>

Aborted(j) == job' = [job EXCEPT ![j] = NoJob]

(* A statement fails, or the process ends: the rest waits for another run.  *)
RunFails(j) ==
    /\ job[j].step \in DOMAIN Order /\ jobErrors < MaxJobErrors
    /\ jobErrors' = jobErrors + 1 /\ Aborted(j)
    /\ UNCHANGED <<day, kept>>

JobStep(j) == StartRun(j) \/ Purge(j) \/ SelectAccounts(j) \/ \E r \in Kept : Anonymize(j, r)

People(r) ==
    \/ MakeRequest(r) \/ RejectAccess(r) \/ EnqueueEmail(r) \/ logAdminAction(r)
    \/ IssueLink(r) \/ FollowLink(r) \/ OpenAccount(r) \/ DeleteMe(r) \/ DeleteAgain(r)

RetentionNext ==
    \/ NextDay
    \/ \E r \in Kept : People(r)
    \/ \E j \in Runs : JobStep(j) \/ RunFails(j)

-------------------------------------------------------------------------------
(* What is over by more than its term is gone at last, whatever run fails   *)
(* or overlaps another, unless the account was closed anew.                 *)
OverdueIsForgotten ==
    \A r \in Kept : kept[r].status \in {"live", "over"} /\ Overdue(r) ~> kept[r].status = "gone" \/ ~Overdue(r)

===============================================================================
