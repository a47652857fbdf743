------------------------------- MODULE MCClosing -------------------------------
(* The day of an election: the job that destroys its salt and the one that  *)
(* announces it share no column of its row but the clock and is_active, so  *)
(* each behaviour is of one of them and the other rests.                    *)
EXTENDS Closing, Announcements

CONSTANTS v1, v2

VARIABLE part

dayVars == <<part, vars, announcementsVars>>

MCIds == [v \in Recipients |-> IF v = v1 THEN 1 ELSE 2]

DayInit ==
    /\ part \in {"salt", "notices"}
    /\ Init /\ (part = "salt" \/ electorate = {})
    /\ AnnouncementsInit

DayNext ==
    \/ part = "salt"    /\ Next              /\ UNCHANGED <<part, announcementsVars>>
    \/ part = "notices" /\ AnnouncementsNext /\ UNCHANGED <<part, vars>>

DayFair ==
    /\ WF_vars(part = "salt" /\ SaltJob)
    /\ \A v \in Voters : /\ WF_vars(part = "salt" /\ Handler(v))
                         /\ WF_vars(part = "salt" /\ Reconcile(v))
    /\ \A p \in Rounds : WF_announcementsVars(part = "notices" /\ NotifyJob(p))
    /\ WF_announcementsVars(part = "notices" /\ Inserts)

DaySpec == DayInit /\ [][DayNext]_dayVars /\ DayFair

===============================================================================
