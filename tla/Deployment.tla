------------------------------ MODULE Deployment ------------------------------
(* deploy.ts and set-relayer.ts, which the owner runs by hand, one at a     *)
(* time: the first deploys the contract and writes deployments/<red>.json,  *)
(* the second authorises one relayer, revokes another and brings the file   *)
(* up to date.  Either may stop between two steps, also while it waits for  *)
(* a transaction; the next one begins when that one is in the chain or      *)
(* lost.                                                                    *)
EXTENDS Naturals, Sequences

CONSTANTS
    Keys,          \* addresses
    OwnerKey,      \* that of the owner, who signs
    NoKey,
    MaxDeploys     \* bound: contracts deployed

ASSUME DeploymentAssumption == OwnerKey \in Keys /\ NoKey \notin Keys /\ MaxDeploys \in Nat

VARIABLES
    contracts,     \* the contracts of the network: the argument of each and its relayers
    record,        \* the file of the network
    script,        \* what runs: its step, its contract and its parameters
    pool,          \* its transaction, not mined yet
    unrecorded     \* whether relayers have changed since the file was written

deploymentVars == <<contracts, record, script, pool, unrecorded>>

NoRecord == [contract |-> 0, relayerAddress |-> NoKey, constructorArgs |-> NoKey, verified |-> FALSE]
NoScript == [at |-> "none", contract |-> 0, authorise |-> NoKey, revoke |-> NoKey]
NoTx     == [contract |-> 0, relayer |-> NoKey, allowed |-> FALSE]

DeploymentInit ==
    /\ contracts = <<>>
    /\ record = NoRecord /\ script = NoScript /\ pool = NoTx
    /\ unrecorded = FALSE

Steps1(from, to) == script.at = from /\ script' = [script EXCEPT !.at = to]
Ends1            == script' = NoScript
Idle1            == script = NoScript /\ pool = NoTx

isRelayer(key)  == key \in contracts[script.contract].relayers

-------------------------------------------------------------------------------
(* deploy.ts.  In a real network the relayer is not the owner.              *)

StartDeploy(relayer) ==
    /\ Idle1 /\ relayer # OwnerKey /\ Len(contracts) < MaxDeploys
    /\ script' = [NoScript EXCEPT !.at = "deploy", !.authorise = relayer]
    /\ UNCHANGED <<contracts, record, pool, unrecorded>>

DeployContract ==
    /\ script.at = "deploy"
    /\ contracts' = Append(contracts, [arg |-> script.authorise, relayers |-> {script.authorise}])
    /\ script' = [script EXCEPT !.at = "check", !.contract = Len(contracts')]
    /\ UNCHANGED <<record, pool, unrecorded>>

CheckDeployed ==
    /\ Steps1("check", "verify") /\ isRelayer(script.authorise)
    /\ UNCHANGED <<contracts, record, pool, unrecorded>>

(* With the key of the explorer, and if the explorer agrees.                *)
WriteDeployment ==
    /\ script.at = "verify" /\ Ends1
    /\ \E verified \in BOOLEAN :
          record' = [NoRecord EXCEPT !.contract = script.contract,
                                     !.relayerAddress = script.authorise, !.verified = verified]
    /\ unrecorded' = FALSE
    /\ UNCHANGED <<contracts, pool>>

-------------------------------------------------------------------------------
(* set-relayer.ts.  The file says which contract; CONTRACT_ADDRESS only     *)
(* when there is none, and must not say another.                            *)

ContractAddress(env) == IF record # NoRecord THEN record.contract ELSE env

Agrees(env) == record = NoRecord \/ env \in {0, record.contract}

StartRotation(env, authorise, revoke) ==
    /\ Idle1 /\ Agrees(env) /\ ContractAddress(env) \in DOMAIN contracts
    /\ authorise # revoke
    /\ script' = [at |-> "authorise", contract |-> ContractAddress(env),
                  authorise |-> authorise, revoke |-> revoke]
    /\ UNCHANGED <<contracts, record, pool, unrecorded>>

Sends(relayer, allowed) ==
    /\ pool' = [contract |-> script.contract, relayer |-> relayer, allowed |-> allowed]
    /\ UNCHANGED <<contracts, record, unrecorded>>

Authorise ==
    /\ Steps1("authorise", IF isRelayer(script.authorise) THEN "revoke" ELSE "authorising")
    /\ IF isRelayer(script.authorise) THEN UNCHANGED <<contracts, record, pool, unrecorded>>
                                      ELSE Sends(script.authorise, TRUE)

Revoke ==
    /\ Steps1("revoke", IF isRelayer(script.revoke) THEN "revoking" ELSE "read")
    /\ IF isRelayer(script.revoke) THEN Sends(script.revoke, FALSE)
                                   ELSE UNCHANGED <<contracts, record, pool, unrecorded>>

(* tx.wait().                                                               *)
Confirmed1 ==
    /\ pool = NoTx
    /\ Steps1("authorising", "revoke") \/ Steps1("revoking", "read")
    /\ UNCHANGED <<contracts, record, pool, unrecorded>>

(* What the contract says in the end, not what was meant.                   *)
ReadBack ==
    /\ Steps1("read", "write")
    /\ isRelayer(script.authorise) /\ ~isRelayer(script.revoke)
    /\ UNCHANGED <<contracts, record, pool, unrecorded>>

\* Mutant: the argument is taken from the file each time.
Updated_Args(relayer) == [record EXCEPT !.constructorArgs = record.relayerAddress, !.relayerAddress = relayer]
Updated(relayer) ==
    [record EXCEPT !.constructorArgs = IF @ = NoKey THEN record.relayerAddress ELSE @,
                   !.relayerAddress = relayer]

WriteRotation ==
    /\ script.at = "write" /\ Ends1
    /\ record' = IF record = NoRecord THEN record ELSE Updated(script.authorise)
    /\ unrecorded' = FALSE
    /\ UNCHANGED <<contracts, pool>>

-------------------------------------------------------------------------------
(* The chain, and the end of a script for an error or for any other reason. *)

MineRelayerTx ==
    /\ pool # NoTx /\ pool' = NoTx
    /\ contracts' = [contracts EXCEPT ![pool.contract].relayers =
                         IF pool.allowed THEN @ \cup {pool.relayer} ELSE @ \ {pool.relayer}]
    /\ unrecorded' = TRUE
    /\ UNCHANGED <<record, script>>

LoseRelayerTx ==
    /\ script = NoScript /\ pool # NoTx /\ pool' = NoTx
    /\ UNCHANGED <<contracts, record, script, unrecorded>>

ScriptStops ==
    /\ script # NoScript /\ Ends1
    /\ UNCHANGED <<contracts, record, pool, unrecorded>>

DeploymentNext ==
    \/ \E k \in Keys : StartDeploy(k)
    \/ DeployContract \/ CheckDeployed \/ WriteDeployment
    \/ \E env \in 0 .. MaxDeploys, a \in Keys, r \in Keys \cup {NoKey} : StartRotation(env, a, r)
    \/ Authorise \/ Revoke \/ Confirmed1 \/ ReadBack \/ WriteRotation
    \/ MineRelayerTx \/ LoseRelayerTx \/ ScriptStops

-------------------------------------------------------------------------------
(* Wherever the scripts stopped: no contract is ever left without a relayer *)
(* who can send the votes; the file has the argument with which its         *)
(* contract can be verified, however often the relayer was changed; and the *)
(* relayer that it names is one, unless a change was not written down yet.  *)
RecordIsTrue ==
    /\ \A id \in DOMAIN contracts : contracts[id].relayers # {}
    /\ record # NoRecord =>
          LET contract == contracts[record.contract]
          IN  /\ contract.arg = IF record.constructorArgs = NoKey THEN record.relayerAddress
                                                               ELSE record.constructorArgs
              /\ unrecorded \/ record.relayerAddress \in contract.relayers

===============================================================================
