-------------------------------- MODULE Recount --------------------------------
(* The independent recount of one election: a script that reads only the    *)
(* chain, in windows of blocks, while the chain grows.                      *)
EXTENDS Naturals, FiniteSets

CONSTANTS
    Nullifiers,
    CandidateIds,
    Deployed,       \* deploymentBlock
    BLOCK_WINDOW,
    MaxBlock        \* bound: the last block

ASSUME RecountAssumption ==
    /\ Deployed \in Nat \ {0} /\ MaxBlock \in Nat /\ BLOCK_WINDOW \in Nat \ {0}
    /\ IsFiniteSet(Nullifiers)     \* values of bytes32

VARIABLES
    head,           \* the number of the last block
    log,            \* the events VoteCast: nullifier, candidate and block
    hasta,          \* the block the recount is made at
    inicio,         \* where the next window begins
    vistos,         \* the nullifiers seen in the events
    tallyFromEvents,
    tallyFromContract,
    repeatedNullifiers,
    step

recountVars == <<head, log, hasta, inicio, vistos, tallyFromEvents, tallyFromContract,
                 repeatedNullifiers, step>>
progress    == <<hasta, inicio, vistos, tallyFromEvents, tallyFromContract,
                 repeatedNullifiers, step>>

Event == [nullifier : Nullifiers, candidate : CandidateIds, block : Nat]
Zero  == [c \in CandidateIds |-> 0]

RecountInit ==
    /\ head = Deployed /\ log = {}
    /\ hasta = 0 /\ inicio = 0 /\ vistos = {}
    /\ tallyFromEvents = Zero /\ tallyFromContract = Zero
    /\ repeatedNullifiers = 0 /\ step = "head"

(* A block with some votes; the contract takes one of each nullifier.       *)
MineBlock ==
    /\ head < MaxBlock /\ head' = head + 1
    /\ \E N \in SUBSET (Nullifiers \ {e.nullifier : e \in log}), choice \in [Nullifiers -> CandidateIds] :
          log' = log \cup {[nullifier |-> n, candidate |-> choice[n], block |-> head'] : n \in N}
    /\ UNCHANGED progress

At(block, c) == Cardinality({e \in log : e.block <= block /\ e.candidate = c})

ReadHead ==
    /\ step = "head"
    /\ hasta' = head /\ inicio' = Deployed /\ step' = "events"
    /\ UNCHANGED <<head, log, vistos, tallyFromEvents, tallyFromContract, repeatedNullifiers>>

\* Mutant: the window takes in one block more than it should.
Fin_Wide == IF inicio + BLOCK_WINDOW < hasta THEN inicio + BLOCK_WINDOW ELSE hasta
Fin == IF inicio + BLOCK_WINDOW - 1 < hasta THEN inicio + BLOCK_WINDOW - 1 ELSE hasta

InWindow == {e \in log : inicio <= e.block /\ e.block <= Fin}

(* queryFilter of one window; a nullifier seen before counts no more.       *)
ReadWindow ==
    /\ step = "events" /\ inicio <= hasta
    /\ LET new == {e \in InWindow : e.nullifier \notin vistos}
       IN  /\ vistos' = vistos \cup {e.nullifier : e \in new}
           /\ tallyFromEvents' = [c \in CandidateIds |->
                  tallyFromEvents[c] + Cardinality({e \in new : e.candidate = c})]
           /\ repeatedNullifiers' = repeatedNullifiers + Cardinality(InWindow \ new)
    /\ inicio' = inicio + BLOCK_WINDOW
    /\ UNCHANGED <<head, log, hasta, tallyFromContract, step>>

\* Mutant: the contract is asked for its tally of now.
TallyBlock_Latest == head
TallyBlock == hasta

ReadTally ==
    /\ step = "events" /\ inicio > hasta
    /\ tallyFromContract' = [c \in CandidateIds |-> At(TallyBlock, c)]
    /\ step' = "done"
    /\ UNCHANGED <<head, log, hasta, inicio, vistos, tallyFromEvents, repeatedNullifiers>>

consistent == repeatedNullifiers = 0 /\ tallyFromEvents = tallyFromContract

RecountNext == MineBlock \/ ReadHead \/ ReadWindow \/ ReadTally

(* The recount of an honest chain never says DISCREPANCIA, however the      *)
(* blocks fall on its windows and whatever is voted while it reads: no      *)
(* event is left out or read twice, and both sources are of one block.      *)
NoFalseAlarm == step = "done" => consistent

===============================================================================
