----------------------------- MODULE Announcements -----------------------------
(* Who is told that one election opens and that it closes: the job of the   *)
(* notifications and the notices an administrator sends by hand, beside the *)
(* census that changes, the failures and the restarts.                      *)
(*                                                                          *)
(* A pass goes statement by statement.  setInterval does not wait for the   *)
(* pass before, so passes overlap; and enqueue() returns before its INSERT, *)
(* which goes on by itself.  What becomes of a row of email_log is in       *)
(* EmailQueue.                                                              *)
EXTENDS Naturals, FiniteSets

CONSTANTS
    Recipients,    \* accounts that are or may come to be in the census
    Ids,           \* the id of an account: the pages are in this order
    Early,         \* the accounts in the census from the start
    MAX_NOTIFY_BATCH,
    Rounds,        \* passes over the census that may overlap
    MaxLosses,     \* bound: statements that fail, and restarts
    MaxChanges     \* bound: what administrators and voters do

ASSUME AnnouncementsAssumption ==
    /\ Ids \in [Recipients -> Nat]
    /\ \A v, w \in Recipients : Ids[v] = Ids[w] => v = w
    /\ Early \subseteq Recipients /\ IsFiniteSet(Recipients)
    /\ MAX_NOTIFY_BATCH \in Nat \ {0}
    /\ MaxLosses \in Nat /\ MaxChanges \in Nat

VARIABLES
    election,    \* its clock and its row
    census,      \* election_voters
    removed,     \* the accounts with deleted_at
    round,       \* the passes: of the job, or of a handler
    queueing,    \* notices that enqueue() was called for, before their INSERT
    told,        \* who was told what: the notice is in email_log
    excused,     \* who may have missed what, and how
    losses, changes

people            == <<census, removed>>
outbound          == <<round, queueing, told, excused>>
announcementsVars == <<election, people, outbound, losses, changes>>

Kinds == {"open", "close"}
By    == {"job", "hand"}

Election == [clock : {"before", "open", "over"}, active : BOOLEAN, notified : SUBSET Kinds]
Round    == [at : {"idle", "page", "mark", "close"}, by : By, kind : Kinds, offset : Nat]
Notice   == [by : By, kind : Kinds, to : Recipients]

Resting == [at |-> "idle", by |-> "job", kind |-> "open", offset |-> 0]

AnnouncementsInit ==
    /\ election = [clock |-> "before", active |-> TRUE, notified |-> {}]
    /\ census = Early /\ removed = {}
    /\ round = [p \in Rounds |-> Resting]
    /\ queueing = {}
    /\ told = [k \in Kinds |-> {}] /\ excused = [k \in Kinds |-> {}]
    /\ losses = 0 /\ changes = 0

-------------------------------------------------------------------------------
(* checkElectionNotifications: the elections to announce, the census page   *)
(* by page, the flag.                                                       *)

Present == census \ removed
Fails   == losses < MaxLosses /\ losses' = losses + 1
Changes == changes < MaxChanges /\ changes' = changes + 1

Due(k) == /\ k \notin election.notified
          /\ IF k = "open" THEN election.clock # "before" /\ election.active
                           ELSE election.clock = "over"

Announces(p, by, k) ==
    round' = [round EXCEPT ![p] = [at |-> "page", by |-> by, kind |-> k, offset |-> 0]]
Rests(p) == round' = [round EXCEPT ![p] = Resting]

ListToOpen(p) ==
    /\ round[p].at = "idle"
    /\ \E k \in Kinds : Due(k)
    /\ IF Due("open") THEN Announces(p, "job", "open") ELSE round' = [round EXCEPT ![p].at = "close"]
    /\ UNCHANGED <<election, people, queueing, told, excused, losses, changes>>

ListToClose(p) ==
    /\ round[p].at = "close"
    /\ IF Due("close") THEN Announces(p, "job", "close") ELSE Rests(p)
    /\ UNCHANGED <<election, people, queueing, told, excused, losses, changes>>

(* POST /admin/elections/:id/notify-open and notify-close: to everybody, at *)
(* any time, and without the flag.                                          *)
NotifyByHand(p, k) ==
    /\ round[p].at = "idle" /\ Changes
    /\ Announces(p, "hand", k)
    /\ UNCHANGED <<election, people, queueing, told, excused, losses>>

Before(v) == Cardinality({w \in Present : Ids[w] < Ids[v]})
PageFrom(offset) ==
    {v \in Present : Before(v) >= offset /\ Before(v) < offset + MAX_NOTIFY_BATCH}

\* Mutant: a voter between two pages is passed over.
NextOffset_Skips(offset) == offset + MAX_NOTIFY_BATCH + 1
NextOffset(offset) == offset + MAX_NOTIFY_BATCH

(* The page is read and enqueue() called for each of its rows: that starts  *)
(* the INSERT and waits for nothing.                                        *)
TellPage(p) ==
    LET q == round[p]
        rows == PageFrom(q.offset)
    IN
    /\ q.at = "page"
    /\ queueing' = queueing \cup [by : {q.by}, kind : {q.kind}, to : rows]
    /\ \/ /\ Cardinality(rows) = MAX_NOTIFY_BATCH
          /\ round' = [round EXCEPT ![p].offset = NextOffset(q.offset)]
       \/ /\ Cardinality(rows) < MAX_NOTIFY_BATCH
          /\ IF q.by = "job" THEN round' = [round EXCEPT ![p].at = "mark"] ELSE Rests(p)
    /\ UNCHANGED <<election, people, told, excused, losses, changes>>

(* The INSERT of a notice, made or failed.  A failure is logged and nobody  *)
(* tries again: whom the job wrote to may not be told.                      *)
Queued(n) ==
    /\ queueing' = queueing \ {n}
    /\ told' = [told EXCEPT ![n.kind] = @ \cup {n.to}]
    /\ UNCHANGED <<election, people, round, excused, losses, changes>>

NotQueued(n) ==
    /\ Fails
    /\ queueing' = queueing \ {n}
    /\ excused' = IF n.by = "job" THEN [excused EXCEPT ![n.kind] = @ \cup {n.to}] ELSE excused
    /\ UNCHANGED <<election, people, round, told, changes>>

Underway(k) == {v \in Recipients : [by |-> "job", kind |-> k, to |-> v] \in queueing}

(* The query of a page fails.  To the job it reads as the end of the        *)
(* census; a handler answers 500.                                           *)
PageFails(p) ==
    LET q == round[p] IN
    /\ q.at = "page" /\ Fails
    /\ IF q.by = "job"
       THEN /\ round' = [round EXCEPT ![p].at = "mark"]
            /\ excused' = [excused EXCEPT
                   ![q.kind] = @ \cup (Present \ (told[q.kind] \cup Underway(q.kind)))]
       ELSE Rests(p) /\ UNCHANGED excused
    /\ UNCHANGED <<election, people, queueing, told, changes>>

(* The UPDATE of the flag; its failure is logged and the pass goes on.      *)
Mark(p) ==
    LET q == round[p] IN
    /\ q.at = "mark"
    /\ \/ election' = [election EXCEPT !.notified = @ \cup {q.kind}] /\ UNCHANGED losses
       \/ Fails /\ UNCHANGED election
    /\ IF q.kind = "open" THEN round' = [round EXCEPT ![p] = [Resting EXCEPT !.at = "close"]]
       ELSE Rests(p)
    /\ UNCHANGED <<people, queueing, told, excused, changes>>

-------------------------------------------------------------------------------
(* The clock, administrators, voters who leave, and the server.             *)

(* PUT /admin/elections/:id                                                 *)
SwitchActive ==
    /\ Changes /\ election' = [election EXCEPT !.active = ~@]
    /\ UNCHANGED <<people, outbound, losses>>

(* PATCH /admin/elections/:id with a later end_time, which the server takes *)
(* as long as the contract does not have the election.                      *)
ExtendEnd ==
    /\ election.clock = "over" /\ Changes
    /\ election' = [election EXCEPT !.clock = "open"]
    /\ UNCHANGED <<people, outbound, losses>>

TimePasses ==
    /\ election.clock # "over"
    /\ election' = [election EXCEPT !.clock = IF @ = "before" THEN "open" ELSE "over"]
    /\ UNCHANGED <<people, outbound, losses, changes>>

Announcing(p, k) ==
    round[p].at \in {"page", "mark"} /\ round[p].by = "job" /\ round[p].kind = k

(* A census grows until the election begins, and by the requests that came  *)
(* in before.  Whoever comes after the page that would hold them is missed. *)
JoinCensus(v) ==
    /\ v \notin census /\ election.clock # "over" /\ Changes
    /\ census' = census \cup {v}
    /\ excused' = [k \in Kinds |->
           IF k \in election.notified \/ \E p \in Rounds : Announcing(p, k)
           THEN excused[k] \cup {v} ELSE excused[k]]
    /\ UNCHANGED <<election, removed, round, queueing, told, losses>>

(* An account is removed: while a pass pages, the rows after it move up and *)
(* the first of them is skipped.                                            *)
LeaveCensus(v) ==
    /\ v \in Present /\ Changes
    /\ removed' = removed \cup {v}
    /\ excused' = [k \in Kinds |->
           excused[k] \cup {w \in Present : \E p \in Rounds :
               /\ Announcing(p, k) /\ Before(v) < round[p].offset
               /\ Before(w) = round[p].offset}]
    /\ UNCHANGED <<election, census, round, queueing, told, losses>>

(* A stop loses the INSERTs that have not reached the database: behind a    *)
(* flag already written, for good; before it, the next pass tells again.    *)
Restart ==
    /\ Fails
    /\ round' = [p \in Rounds |-> Resting] /\ queueing' = {}
    /\ excused' = [k \in Kinds |->
           IF k \in election.notified THEN excused[k] \cup Underway(k) ELSE excused[k]]
    /\ UNCHANGED <<election, people, told, changes>>

-------------------------------------------------------------------------------

NotifyJob(p) == ListToOpen(p) \/ ListToClose(p) \/ TellPage(p) \/ PageFails(p) \/ Mark(p)

AnnouncementsNext ==
    \/ \E p \in Rounds : NotifyJob(p) \/ \E k \in Kinds : NotifyByHand(p, k)
    \/ \E n \in queueing : Queued(n) \/ NotQueued(n)
    \/ \E v \in Recipients : JoinCensus(v) \/ LeaveCensus(v)
    \/ SwitchActive \/ ExtendEnd \/ TimePasses \/ Restart

(* The timer fires for ever, a handler that is not killed goes on, and the  *)
(* database answers an INSERT.                                              *)
Inserts == \E n \in queueing : Queued(n) \/ NotQueued(n)

-------------------------------------------------------------------------------
(* Everybody in the census is told that the election opened and that it     *)
(* closed, whatever overlaps, fails or restarts: but for who joins when the *)
(* others are being told, who follows an account that is removed meanwhile, *)
(* who is on a page whose query fails, and who has lost a notice of the job *)
(* to an INSERT that failed or to a stop that came after the flag.          *)
EverybodyIsTold ==
    <>[](election.clock = "over" /\ election.active) =>
        \A k \in Kinds : <>[](Present \subseteq told[k] \cup excused[k])

===============================================================================
