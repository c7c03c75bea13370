---------------------------- MODULE MandateSetup ----------------------------
(***************************************************************************)
(* How a mandate comes into force.  The dashboard draws an id and stages   *)
(* the body, the owner's wallet sends createMandate, and once there is a   *)
(* receipt the dashboard has policy-service store the body, which checks   *)
(* its hash against the registry first.  A tab is one click on "create" or *)
(* on "revoke", and lives until its promise settles.  The registry, the    *)
(* ledger and the dashboard's map change between the awaits of a tab.      *)
(***************************************************************************)
EXTENDS MandateRegistry, Ledger

CONSTANTS
    Tabs,        \* clicks on "create" or "revoke", in any browser
    SetupFaults  \* of "ledgerRestart", "dashboardRestart", "callFails"

(* What the dashboard draws and builds for a mandate. *)
Staged == [body : PolicyBodies, expiresAt : ExpiryTimes]

ASSUME SetupAssumption == None \notin Accounts \cup Staged

VARIABLES
    staged,   \* mandateId -> what was drawn and built for it, or None
    tracked,  \* the dashboard's map: "absent", or confirmed or not
    tab,      \* tab -> what it awaits
    tx        \* tab -> the transaction its wallet sent

setupVars == <<registry, ledgerVars, staged, tracked, tab, tx>>

(* A creation whose dashboard died goes on in policy-service, as an orphan. *)
Tab ==
    [does : {"create", "revoke", "orphan"}, mandate : Or(Mandates),
     step : {"idle", "wallet", "receipt", "registryRead", "policyPut", "answer", "over"}]

Tx == [state : {"none", "sent", "mined", "reverted"}, sender : Or(Accounts)]

SetupInit ==
    /\ RegistryInit
    /\ LedgerInit
    /\ staged = Empty(Mandates)
    /\ tracked = [m \in Mandates |-> "absent"]
    /\ tab = [t \in Tabs |-> [does |-> "create", mandate |-> None, step |-> "idle"]]
    /\ tx = [t \in Tabs |-> [state |-> "none", sender |-> None]]

At(t, step) == tab[t].step = step

Goto(t, step) == tab' = [tab EXCEPT ![t].step = step]
-----------------------------------------------------------------------------
(* The owner's browser *)

(* POST /api/mandates: a fresh random id, its body staged, its transaction *)
(* built from the body's hash. *)
StageMandate(t) ==
    /\ At(t, "idle")
    /\ \E m \in Mandates, s \in Staged :
          /\ staged[m] = None
          /\ staged' = [staged EXCEPT ![m] = s]
          /\ tracked' = [tracked EXCEPT ![m] = "pending"]
          /\ tab' = [tab EXCEPT ![t] =
                 [does |-> "create", mandate |-> m, step |-> "wallet"]]
    /\ UNCHANGED <<registry, ledgerVars, tx>>

(* "Revoke", offered on confirmed rows: build-revoke simulates it as the   *)
(* connected account, which must own the mandate. *)
BuildRevoke(t) ==
    /\ At(t, "idle")
    /\ \E m \in Mandates, from \in Accounts :
          /\ tracked[m] = "confirmed"
          /\ registry[m].owner = from /\ ~registry[m].revoked
          /\ tab' = [tab EXCEPT ![t] =
                 [does |-> "revoke", mandate |-> m, step |-> "wallet"]]
    /\ UNCHANGED <<registry, ledgerVars, staged, tracked, tx>>

(* sendTransaction: signed by whichever account the wallet has selected.   *)
WalletSends(t) ==
    /\ At(t, "wallet")
    /\ \E from \in Accounts :
          tx' = [tx EXCEPT ![t] = [state |-> "sent", sender |-> from]]
    /\ Goto(t, "receipt")
    /\ UNCHANGED <<registry, ledgerVars, staged, tracked>>

(* The human closes the wallet's prompt. *)
WalletRefuses(t) ==
    /\ At(t, "wallet")
    /\ Goto(t, "over")
    /\ UNCHANGED <<registry, ledgerVars, staged, tracked, tx>>

(* waitForReceipt: any receipt will do, its status is not looked at.  For  *)
(* a creation POST .../confirm follows; the dashboard must know the id.    *)
ReceiptSeen(t) ==
    /\ At(t, "receipt") /\ tx[t].state \in {"mined", "reverted"}
    /\ Goto(t, IF tab[t].does = "create" /\ tracked[tab[t].mandate] # "absent"
               THEN "registryRead" ELSE "over")
    /\ UNCHANGED <<registry, ledgerVars, staged, tracked, tx>>

(* Mutant: waits until there is one. *)
WaitsForEver(t) == FALSE /\ UNCHANGED setupVars

(* ... for 90 seconds. *)
ReceiptTimesOut(t) ==
    /\ At(t, "receipt")
    /\ Goto(t, "over")
    /\ UNCHANGED <<registry, ledgerVars, staged, tracked, tx>>
-----------------------------------------------------------------------------
(* The chain *)

CallData(t, m) ==
    \/ tab[t].does = "revoke" /\ Revoke(tx[t].sender, m)
    \/ tab[t].does # "revoke"
       /\ CreateMandate(tx[t].sender, m, staged[m].body, staged[m].expiresAt)

(* The transaction is mined, whoever still waits for it. *)
Mine(t) ==
    /\ tx[t].state = "sent"
    /\ CallData(t, tab[t].mandate)
    /\ tx' = [tx EXCEPT ![t].state = "mined"]
    /\ UNCHANGED <<ledgerVars, staged, tracked, tab>>

(* It runs out of gas, or the contract reverts it. *)
RevertTx(t) ==
    /\ tx[t].state = "sent"
    /\ tx' = [tx EXCEPT ![t].state = "reverted"]
    /\ UNCHANGED <<registry, ledgerVars, staged, tracked, tab>>

(* Others use the contract too. *)
OthersTransact ==
    /\ RegistryNext
    /\ UNCHANGED <<ledgerVars, staged, tracked, tab, tx>>
-----------------------------------------------------------------------------
(* Storing the body *)

(* Mutant: only an unknown mandate is turned down. *)
ReadWithoutComparing(t) ==
    /\ At(t, "registryRead")
    /\ Goto(t, IF Known(tab[t].mandate) THEN "policyPut" ELSE "over")
    /\ UNCHANGED <<registry, ledgerVars, staged, tracked, tx>>

(* PUT /policy reads the registry: 404 for an unknown mandate, 409 for     *)
(* another hash than the body's. *)
ReadRegistry(t) ==
    /\ At(t, "registryRead")
    /\ LET m == tab[t].mandate IN
       Goto(t, IF Known(m) /\ registry[m].policyHash = staged[m].body
               THEN "policyPut" ELSE "over")
    /\ UNCHANGED <<registry, ledgerVars, staged, tracked, tx>>

(* ... and then has the ledger store the body. *)
PutPolicyBody(t) ==
    /\ At(t, "policyPut")
    /\ StorePolicy(tab[t].mandate, staged[tab[t].mandate].body)
    /\ Goto(t, "answer")
    /\ UNCHANGED <<registry, staged, tracked, tx>>

(* policy-service has answered; markConfirmed, if the dashboard still asks. *)
MarkConfirmed(t) ==
    /\ At(t, "answer")
    /\ tracked' = IF tab[t].does = "create"
                  THEN [tracked EXCEPT ![tab[t].mandate] = "confirmed"]
                  ELSE tracked
    /\ Goto(t, "over")
    /\ UNCHANGED <<registry, ledgerVars, staged, tx>>
-----------------------------------------------------------------------------
(* Failures *)

Serving == {"registryRead", "policyPut", "answer"}

(* The chain cannot be read, the ledger answers an error, or an answer is  *)
(* lost: the tab shows an error, and nothing is tried again. *)
CallFails(t) ==
    /\ "callFails" \in SetupFaults
    /\ tab[t].step \in Serving
    /\ Goto(t, "over")
    /\ UNCHANGED <<registry, ledgerVars, staged, tracked, tx>>

(* The dashboard forgets which mandates it knows, and whom it was serving. *)
DashboardRestart ==
    /\ "dashboardRestart" \in SetupFaults
    /\ tracked' = [m \in Mandates |-> "absent"]
    /\ tab' = [t \in Tabs |->
           IF tab[t].step \in Serving THEN [tab[t] EXCEPT !.does = "orphan"]
           ELSE tab[t]]
    /\ UNCHANGED <<registry, ledgerVars, staged, tx>>

LedgerLosesAll ==
    /\ "ledgerRestart" \in SetupFaults
    /\ LedgerRestart
    /\ UNCHANGED <<registry, staged, tracked, tab, tx>>

TabStep(t) ==
    \/ StageMandate(t) \/ BuildRevoke(t) \/ WalletSends(t) \/ WalletRefuses(t)
    \/ ReceiptSeen(t) \/ ReceiptTimesOut(t) \/ Mine(t) \/ RevertTx(t)
    \/ ReadRegistry(t) \/ PutPolicyBody(t) \/ MarkConfirmed(t) \/ CallFails(t)

SetupNext ==
    \/ \E t \in Tabs : TabStep(t)
    \/ OthersTransact \/ DashboardRestart \/ LedgerLosesAll

SetupSpec == SetupInit /\ [][SetupNext]_setupVars

(* Timers fire and servers answer; neither the human nor the chain must.   *)
SetupFairness ==
    \A t \in Tabs :
        /\ WF_setupVars(ReceiptTimesOut(t)) /\ WF_setupVars(ReadRegistry(t))
        /\ WF_setupVars(PutPolicyBody(t)) /\ WF_setupVars(MarkConfirmed(t))

FairSetupSpec == SetupSpec /\ SetupFairness
-----------------------------------------------------------------------------
(* Type correctness, the registry's and the ledger's included. *)
SetupTypeOK ==
    /\ RegistryTypeOK
    /\ LedgerTypeOK
    /\ staged \in [Mandates -> Or(Staged)]
    /\ tracked \in [Mandates -> {"absent", "pending", "confirmed"}]
    /\ tab \in [Tabs -> Tab]
    /\ tx \in [Tabs -> Tx]

(* Whatever body the ledger holds is the one the registry has the hash of, *)
(* and a mandate the dashboard shows as live is registered with the body   *)
(* it was staged with.  policy-service compares before it stores, with an  *)
(* await in between; transactions revert, others create and revoke, and    *)
(* the services restart meanwhile. *)
PolicyFollowsEnvelope ==
    \A m \in Mandates :
        /\ policies[m] # None =>
              Known(m) /\ registry[m].policyHash = policies[m].policy
        /\ tracked[m] = "confirmed" =>
              /\ Known(m) /\ staged[m] # None
              /\ registry[m].policyHash = staged[m].body

(* Once its transaction is sent, a click comes to an end: the button is    *)
(* not left busy by a transaction that is never mined. *)
SentTabsEnd == \A t \in Tabs : At(t, "receipt") ~> At(t, "over")
=============================================================================
