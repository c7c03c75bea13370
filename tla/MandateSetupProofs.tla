------------------------- MODULE MandateSetupProofs -------------------------
(* What the setup of mandates guarantees, for any number of mandates, tabs *)
(* and accounts: it only ever acts on the contract by its functions, and   *)
(* no policy body comes into force that the registry has no hash of.       *)
EXTENDS MandateSetup, LedgerProofs

(* The contract alone: what MandateRegistry.sol guarantees, for any number *)
(* of mandates, senders and policy bodies.                                 *)

LEMMA RegistryTypeStep ==
    ASSUME RegistryTypeOK, [RegistryNext]_registry
    PROVE  RegistryTypeOK'
<1>1. CASE UNCHANGED registry
  BY <1>1 DEF RegistryTypeOK
<1>2. ASSUME NEW sender \in Accounts, NEW m \in Mandates, Revoke(sender, m)
      PROVE  RegistryTypeOK'
  BY <1>2 DEF RegistryTypeOK, RegistryEntry, Revoke
<1>3. ASSUME NEW sender \in Accounts, NEW m \in Mandates,
             NEW hash \in PolicyBodies, NEW expiry \in ExpiryTimes,
             CreateMandate(sender, m, hash, expiry)
      PROVE  RegistryTypeOK'
  <2>1. expiry \in Nat
    BY RegistryAssumption
  <2>2. QED
    BY <1>3, <2>1 DEF RegistryTypeOK, RegistryEntry, CreateMandate
<1>4. QED
  BY <1>1, <1>2, <1>3 DEF RegistryNext

(* The contract's storage keeps its type. *)
THEOREM RegistryTypeCorrect == RegistrySpec => []RegistryTypeOK
<1>1. RegistryInit => RegistryTypeOK
  BY DEF RegistryInit, RegistryTypeOK, RegistryEntry, ZeroEntry
<1>2. RegistryTypeOK /\ [RegistryNext]_registry => RegistryTypeOK'
  BY RegistryTypeStep
<1>3. QED
  BY <1>1, <1>2, PTL DEF RegistrySpec

LEMMA EnvelopeStep ==
    ASSUME RegistryTypeOK, RegistryNext, NEW m \in Mandates, Known(m)
    PROVE  /\ registry'[m].owner = registry[m].owner
           /\ registry'[m].policyHash = registry[m].policyHash
           /\ registry'[m].expiresAt = registry[m].expiresAt
           /\ registry[m].revoked => registry'[m].revoked
<1>1. ASSUME NEW sender \in Accounts, NEW n \in Mandates, Revoke(sender, n)
      PROVE  /\ registry'[m].owner = registry[m].owner
             /\ registry'[m].policyHash = registry[m].policyHash
             /\ registry'[m].expiresAt = registry[m].expiresAt
             /\ registry[m].revoked => registry'[m].revoked
  BY <1>1 DEF RegistryTypeOK, RegistryEntry, Revoke
<1>2. ASSUME NEW sender \in Accounts, NEW n \in Mandates,
             NEW hash \in PolicyBodies, NEW expiry \in ExpiryTimes,
             CreateMandate(sender, n, hash, expiry)
      PROVE  registry'[m] = registry[m]
  BY <1>2 DEF RegistryTypeOK, CreateMandate
<1>3. QED
  BY <1>1, <1>2 DEF RegistryNext

(* Once created, an envelope is never changed, handed over or reinstated. *)
THEOREM EnvelopeStaysFrozen == RegistrySpec => EnvelopeIsFrozen
<1>1. RegistryTypeOK /\ [RegistryNext]_registry =>
         [\A m \in Mandates : Known(m) =>
            /\ registry'[m].owner = registry[m].owner
            /\ registry'[m].policyHash = registry[m].policyHash
            /\ registry'[m].expiresAt = registry[m].expiresAt
            /\ registry[m].revoked => registry'[m].revoked]_registry
  BY EnvelopeStep
<1>2. QED
  BY <1>1, RegistryTypeCorrect, PTL DEF RegistrySpec, EnvelopeIsFrozen

(* Nothing is revoked that was not created: an early revoke cannot poison  *)
(* the id of a mandate to come. *)
THEOREM OnlyKnownIsRevoked == RegistrySpec => []RevokedImpliesKnown
<1>1. RegistryInit => RevokedImpliesKnown
  BY DEF RegistryInit, RevokedImpliesKnown, ZeroEntry
<1>2. RegistryTypeOK /\ RevokedImpliesKnown /\ [RegistryNext]_registry
         => RevokedImpliesKnown'
  <2> SUFFICES ASSUME RegistryTypeOK, RevokedImpliesKnown, [RegistryNext]_registry
               PROVE  RevokedImpliesKnown'
    OBVIOUS
  <2>1. CASE UNCHANGED registry
    BY <2>1 DEF RevokedImpliesKnown, Known
  <2>2. ASSUME NEW sender \in Accounts, NEW m \in Mandates, Revoke(sender, m)
        PROVE  RevokedImpliesKnown'
    BY <2>2, RegistryAssumption
       DEF RegistryTypeOK, RegistryEntry, RevokedImpliesKnown, Known, Revoke
  <2>3. ASSUME NEW sender \in Accounts, NEW m \in Mandates,
               NEW hash \in PolicyBodies, NEW expiry \in ExpiryTimes,
               CreateMandate(sender, m, hash, expiry)
        PROVE  RevokedImpliesKnown'
    BY <2>3, RegistryAssumption
       DEF RegistryTypeOK, RegistryEntry, RevokedImpliesKnown, Known, CreateMandate
  <2>4. QED
    BY <2>1, <2>2, <2>3 DEF RegistryNext
<1>3. QED
  BY <1>1, <1>2, RegistryTypeCorrect, PTL DEF RegistrySpec
-----------------------------------------------------------------------------
(* The setup on top of it. *)

(* From the comparison until the tab is over: what was staged is what is   *)
(* registered.  It is kept because the registry's entry is frozen and a    *)
(* staged body is never staged again. *)
Compared(t) ==
    tab[t].step \in {"policyPut", "answer"} =>
        /\ Known(tab[t].mandate)
        /\ registry[tab[t].mandate].policyHash = staged[tab[t].mandate].body

(* A creation under way has its body staged, only creations are confirmed, *)
(* and a transaction has a sender and a mandate. *)
TabOK(t) ==
    /\ ~At(t, "idle") => tab[t].mandate \in Mandates
    /\ ~At(t, "idle") /\ tab[t].does # "revoke" => staged[tab[t].mandate] # None
    /\ tab[t].step \in Serving => tab[t].does # "revoke"
    /\ tx[t].state # "none" => ~At(t, "idle") /\ tx[t].sender \in Accounts

SetupInv ==
    /\ SetupTypeOK
    /\ \A t \in Tabs : TabOK(t) /\ Compared(t)
    /\ PolicyFollowsEnvelope

LEMMA SetupInitInv == SetupInit => SetupInv
<1> SUFFICES ASSUME SetupInit PROVE SetupInv
  OBVIOUS
<1>1. RegistryTypeOK
  BY DEF SetupInit, RegistryInit, RegistryTypeOK, RegistryEntry, ZeroEntry
<1>2. LedgerTypeOK
  BY LedgerInitType DEF SetupInit
<1>3. SetupTypeOK
  BY <1>1, <1>2 DEF SetupInit, SetupTypeOK, Empty, Or, Tab, Tx, At
<1>4. \A t \in Tabs : TabOK(t) /\ Compared(t)
  BY DEF SetupInit, TabOK, Compared, At, Serving
<1>5. PolicyFollowsEnvelope
  BY DEF SetupInit, LedgerInit, Empty, PolicyFollowsEnvelope
<1>6. QED
  BY <1>3, <1>4, <1>5 DEF SetupInv

(* The contract is only ever acted on by its two functions. *)
LEMMA SetupActsOnRegistry ==
    ASSUME SetupInv, [SetupNext]_setupVars
    PROVE  [RegistryNext]_registry
<1>1. ASSUME NEW t \in Tabs, Mine(t)
      PROVE  RegistryNext
  <2>1. /\ tx[t].sender \in Accounts /\ tab[t].mandate \in Mandates
        /\ tab[t].does # "revoke" => staged[tab[t].mandate] # None
    BY <1>1 DEF Mine, SetupInv, TabOK
  <2>2. tab[t].does # "revoke" => staged[tab[t].mandate] \in Staged
    BY <2>1 DEF SetupInv, SetupTypeOK, Or
  <2>3. QED
    BY <1>1, <2>1, <2>2 DEF Mine, CallData, RegistryNext, Staged
<1>2. ASSUME NEW t \in Tabs, TabStep(t), ~Mine(t)
      PROVE  UNCHANGED registry
  BY <1>2 DEF TabStep, StageMandate, BuildRevoke, WalletSends, WalletRefuses, ReceiptSeen,
              ReceiptTimesOut, RevertTx, ReadRegistry, PutPolicyBody, MarkConfirmed, CallFails
<1>3. QED
  BY <1>1, <1>2 DEF SetupNext, OthersTransact, DashboardRestart, LedgerLosesAll, setupVars

(* So what a tab has compared stays true. *)
LEMMA KnownStaysKnown ==
    ASSUME SetupInv, [SetupNext]_setupVars, NEW m \in Mandates, Known(m)
    PROVE  Known(m)' /\ registry'[m].policyHash = registry[m].policyHash
BY SetupActsOnRegistry, EnvelopeStep DEF SetupInv, SetupTypeOK, Known

LEMMA SetupLedgerTypeStep ==
    ASSUME SetupInv, [SetupNext]_setupVars
    PROVE  LedgerTypeOK'
<1>1. ASSUME UNCHANGED ledgerVars
      PROVE  LedgerTypeOK'
  BY <1>1 DEF SetupInv, SetupTypeOK, LedgerTypeOK, ledgerVars
<1>2. ASSUME NEW t \in Tabs, PutPolicyBody(t)
      PROVE  LedgerTypeOK'
  <2>1. tab[t].mandate \in Mandates /\ staged[tab[t].mandate] # None
    BY <1>2 DEF PutPolicyBody, SetupInv, TabOK, At, Serving
  <2>2. staged[tab[t].mandate] \in Staged
    BY <2>1 DEF SetupInv, SetupTypeOK, Or
  <2>3. QED
    BY <1>2, <2>1, <2>2, StorePolicyType DEF PutPolicyBody, Staged, SetupInv, SetupTypeOK
<1>3. ASSUME LedgerLosesAll
      PROVE  LedgerTypeOK'
  BY <1>3, LedgerRestartType DEF LedgerLosesAll, SetupInv, SetupTypeOK
<1>4. ASSUME NEW t \in Tabs, TabStep(t), ~PutPolicyBody(t)
      PROVE  UNCHANGED ledgerVars
  BY <1>4 DEF TabStep, StageMandate, BuildRevoke, WalletSends, WalletRefuses, ReceiptSeen,
              ReceiptTimesOut, Mine, RevertTx, ReadRegistry, MarkConfirmed, CallFails
<1>5. QED
  BY <1>1, <1>2, <1>3, <1>4 DEF SetupNext, OthersTransact, DashboardRestart, setupVars

(* The dashboard's side of the type invariant. *)
TabsTyped ==
    /\ staged \in [Mandates -> Or(Staged)]
    /\ tracked \in [Mandates -> {"absent", "pending", "confirmed"}]
    /\ tab \in [Tabs -> Tab]
    /\ tx \in [Tabs -> Tx]

LEMMA GotoTyped ==
    ASSUME TabsTyped, NEW t \in Tabs,
           NEW step \in {"idle", "wallet", "receipt", "registryRead", "policyPut",
                         "answer", "over"}, Goto(t, step)
    PROVE  tab' \in [Tabs -> Tab]
BY DEF TabsTyped, Goto, Tab

LEMMA TabsTypedStep ==
    ASSUME SetupInv, [SetupNext]_setupVars
    PROVE  TabsTyped'
<1>0. TabsTyped
  BY DEF SetupInv, SetupTypeOK, TabsTyped
<1>1. ASSUME NEW t \in Tabs, StageMandate(t)
      PROVE  TabsTyped'
  <2>1. PICK m \in Mandates, s \in Staged :
           /\ staged' = [staged EXCEPT ![m] = s]
           /\ tracked' = [tracked EXCEPT ![m] = "pending"]
           /\ tab' = [tab EXCEPT ![t] = [does |-> "create", mandate |-> m, step |-> "wallet"]]
    BY <1>1 DEF StageMandate
  <2>2. tab' \in [Tabs -> Tab]
    BY <1>0, <2>1 DEF TabsTyped, Tab, Or
  <2>3. staged' \in [Mandates -> Or(Staged)]
    BY <1>0, <2>1 DEF TabsTyped, Or
  <2>4. QED
    BY <1>0, <1>1, <2>1, <2>2, <2>3 DEF TabsTyped, StageMandate
<1>2. ASSUME NEW t \in Tabs, BuildRevoke(t)
      PROVE  TabsTyped'
  <2>1. tab' \in [Tabs -> Tab]
    BY <1>0, <1>2 DEF BuildRevoke, TabsTyped, Tab, Or
  <2>2. QED
    BY <1>0, <1>2, <2>1 DEF TabsTyped, BuildRevoke
<1>3. ASSUME NEW t \in Tabs, WalletSends(t)
      PROVE  TabsTyped'
  <2>1. tx' \in [Tabs -> Tx]
    BY <1>0, <1>3 DEF WalletSends, TabsTyped, Tx, Or
  <2>2. QED
    BY <1>0, <1>3, <2>1, GotoTyped DEF TabsTyped, WalletSends
<1>4. ASSUME NEW t \in Tabs, Mine(t) \/ RevertTx(t)
      PROVE  TabsTyped'
  BY <1>0, <1>4 DEF TabsTyped, Mine, RevertTx, Tx
<1>5. ASSUME NEW t \in Tabs,
             WalletRefuses(t) \/ ReceiptTimesOut(t) \/ ReceiptSeen(t) \/ ReadRegistry(t)
               \/ PutPolicyBody(t) \/ CallFails(t)
      PROVE  TabsTyped'
  BY <1>0, <1>5, GotoTyped DEF TabsTyped, WalletRefuses, ReceiptTimesOut, ReceiptSeen,
                               ReadRegistry, PutPolicyBody, CallFails
<1>6. ASSUME NEW t \in Tabs, MarkConfirmed(t)
      PROVE  TabsTyped'
  BY <1>0, <1>6, GotoTyped DEF TabsTyped, MarkConfirmed
<1>7. ASSUME DashboardRestart
      PROVE  TabsTyped'
  BY <1>0, <1>7 DEF TabsTyped, DashboardRestart, Tab
<1>8. ASSUME OthersTransact \/ LedgerLosesAll \/ UNCHANGED setupVars
      PROVE  TabsTyped'
  BY <1>0, <1>8 DEF TabsTyped, OthersTransact, LedgerLosesAll, setupVars
<1>9. QED
  BY <1>1, <1>2, <1>3, <1>4, <1>5, <1>6, <1>7, <1>8 DEF SetupNext, TabStep

LEMMA SetupTypeStep ==
    ASSUME SetupInv, [SetupNext]_setupVars
    PROVE  SetupTypeOK'
<1>1. RegistryTypeOK'
  BY SetupActsOnRegistry, RegistryTypeStep DEF SetupInv, SetupTypeOK
<1>2. QED
  BY <1>1, SetupLedgerTypeStep, TabsTypedStep DEF SetupTypeOK, TabsTyped

(* What is staged stays as it was staged. *)
LEMMA StagedStaysStaged ==
    ASSUME SetupInv, [SetupNext]_setupVars, NEW m \in Mandates, staged[m] # None
    PROVE  staged'[m] = staged[m]
<1>1. ASSUME NEW t \in Tabs, StageMandate(t)
      PROVE  staged'[m] = staged[m]
  BY <1>1 DEF StageMandate, SetupInv, SetupTypeOK
<1>2. ASSUME NEW t \in Tabs, TabStep(t), ~StageMandate(t)
      PROVE  UNCHANGED staged
  BY <1>2 DEF TabStep, BuildRevoke, WalletSends, WalletRefuses, ReceiptSeen, ReceiptTimesOut,
              Mine, RevertTx, ReadRegistry, PutPolicyBody, MarkConfirmed, CallFails
<1>3. QED
  BY <1>1, <1>2 DEF SetupNext, OthersTransact, DashboardRestart, LedgerLosesAll, setupVars

(* A tab that only goes on keeps its mandate and what it does. *)
LEMMA TabStepOK ==
    ASSUME SetupInv, [SetupNext]_setupVars, NEW u \in Tabs
    PROVE  TabOK(u)'
<1>0. TabsTyped /\ TabOK(u)
  BY DEF SetupInv, SetupTypeOK, TabsTyped
<1>1. tab[u].mandate \in Mandates /\ staged[tab[u].mandate] # None
         => staged'[tab[u].mandate] # None
  BY StagedStaysStaged
<1>2. ASSUME NEW t \in Tabs, StageMandate(t)
      PROVE  TabOK(u)'
  <2>1. PICK m \in Mandates, s \in Staged :
           /\ staged' = [staged EXCEPT ![m] = s]
           /\ tab' = [tab EXCEPT ![t] = [does |-> "create", mandate |-> m, step |-> "wallet"]]
    BY <1>2 DEF StageMandate
  <2>2. staged'[m] # None
    BY <1>0, <2>1, SetupAssumption DEF TabsTyped
  <2>3. QED
    BY <1>0, <1>1, <1>2, <2>1, <2>2 DEF StageMandate, TabOK, TabsTyped, At, Serving
<1>3. ASSUME NEW t \in Tabs, BuildRevoke(t)
      PROVE  TabOK(u)'
  BY <1>0, <1>1, <1>3 DEF BuildRevoke, TabOK, TabsTyped, At, Serving
<1>4. ASSUME NEW t \in Tabs, WalletSends(t)
      PROVE  TabOK(u)'
  BY <1>0, <1>1, <1>4 DEF WalletSends, Goto, TabOK, TabsTyped, Tab, Tx, At, Serving
<1>5. ASSUME NEW t \in Tabs, Mine(t) \/ RevertTx(t)
      PROVE  TabOK(u)'
  BY <1>0, <1>1, <1>5 DEF Mine, RevertTx, TabOK, TabsTyped, Tx, At, Serving
<1>6. ASSUME NEW t \in Tabs, WalletRefuses(t) \/ ReceiptTimesOut(t) \/ CallFails(t)
      PROVE  TabOK(u)'
  BY <1>0, <1>1, <1>6 DEF WalletRefuses, ReceiptTimesOut, CallFails, Goto, TabOK, TabsTyped,
                          Tab, At, Serving
<1>7. ASSUME NEW t \in Tabs, ReceiptSeen(t)
      PROVE  TabOK(u)'
  BY <1>0, <1>1, <1>7 DEF ReceiptSeen, Goto, TabOK, TabsTyped, Tab, At, Serving
<1>8. ASSUME NEW t \in Tabs, ReadRegistry(t) \/ PutPolicyBody(t) \/ MarkConfirmed(t)
      PROVE  TabOK(u)'
  BY <1>0, <1>1, <1>8 DEF ReadRegistry, PutPolicyBody, MarkConfirmed, Goto, TabOK, TabsTyped,
                          Tab, At, Serving
<1>9. ASSUME DashboardRestart
      PROVE  TabOK(u)'
  BY <1>0, <1>1, <1>9 DEF DashboardRestart, TabOK, TabsTyped, Tab, At, Serving
<1>10. ASSUME OthersTransact \/ LedgerLosesAll \/ UNCHANGED setupVars
       PROVE  TabOK(u)'
  BY <1>0, <1>10 DEF OthersTransact, LedgerLosesAll, setupVars, TabOK, At
<1>11. QED
  BY <1>2, <1>3, <1>4, <1>5, <1>6, <1>7, <1>8, <1>9, <1>10 DEF SetupNext, TabStep

(* ReadRegistry compares; afterwards nothing changes either side. *)
LEMMA ComparedStep ==
    ASSUME SetupInv, [SetupNext]_setupVars, NEW u \in Tabs
    PROVE  Compared(u)'
<1> SUFFICES ASSUME tab'[u].step \in {"policyPut", "answer"}
             PROVE  Compared(u)'
  BY DEF Compared
<1>0. TabsTyped /\ TabOK(u) /\ Compared(u)
  BY DEF SetupInv, SetupTypeOK, TabsTyped
<1>1. \/ tab[u].step \in {"policyPut", "answer"} /\ tab'[u].mandate = tab[u].mandate
      \/ ReadRegistry(u)
  <2>1. ASSUME NEW t \in Tabs, StageMandate(t) \/ BuildRevoke(t)
        PROVE  tab'[u] = tab[u]
    BY <1>0, <2>1 DEF StageMandate, BuildRevoke, TabsTyped
  <2>2. ASSUME NEW t \in Tabs, \/ WalletSends(t) \/ WalletRefuses(t) \/ ReceiptSeen(t)
                               \/ ReceiptTimesOut(t) \/ MarkConfirmed(t) \/ CallFails(t)
        PROVE  tab'[u] = tab[u]
    BY <1>0, <2>2 DEF WalletSends, WalletRefuses, ReceiptSeen, ReceiptTimesOut, MarkConfirmed,
                      CallFails, Goto, TabsTyped, Tab
  <2>3. ASSUME NEW t \in Tabs, ReadRegistry(t)
        PROVE  tab'[u] = tab[u] \/ t = u
    BY <1>0, <2>3 DEF ReadRegistry, Goto, TabsTyped
  <2>4. ASSUME NEW t \in Tabs, PutPolicyBody(t)
        PROVE  tab[u].step \in {"policyPut", "answer"} /\ tab'[u].mandate = tab[u].mandate
    BY <1>0, <2>4 DEF PutPolicyBody, At, Goto, TabsTyped, Tab
  <2>5. ASSUME DashboardRestart
        PROVE  tab'[u].step = tab[u].step /\ tab'[u].mandate = tab[u].mandate
    BY <1>0, <2>5 DEF DashboardRestart, TabsTyped, Tab
  <2>6. ASSUME \/ OthersTransact \/ LedgerLosesAll \/ UNCHANGED setupVars
               \/ \E t \in Tabs : Mine(t) \/ RevertTx(t)
        PROVE  tab'[u] = tab[u]
    BY <2>6 DEF OthersTransact, LedgerLosesAll, setupVars, Mine, RevertTx
  <2>7. QED
    BY <2>1, <2>2, <2>3, <2>4, <2>5, <2>6 DEF SetupNext, TabStep
<1>2. /\ tab'[u].mandate = tab[u].mandate /\ tab[u].mandate \in Mandates
      /\ Known(tab[u].mandate)
      /\ registry[tab[u].mandate].policyHash = staged[tab[u].mandate].body
      /\ staged[tab[u].mandate] # None
  BY <1>0, <1>1 DEF Compared, TabOK, ReadRegistry, Goto, At, Serving, TabsTyped, Tab
<1>3. QED
  BY <1>2, KnownStaysKnown, StagedStaysStaged DEF Compared, Known

LEMMA PolicyFollowsStep ==
    ASSUME SetupInv, [SetupNext]_setupVars
    PROVE  PolicyFollowsEnvelope'
<1>0. TabsTyped /\ LedgerTypeOK /\ PolicyFollowsEnvelope
  BY DEF SetupInv, SetupTypeOK, TabsTyped
<1> SUFFICES ASSUME NEW m \in Mandates
             PROVE  /\ policies'[m] # None =>
                          Known(m)' /\ registry'[m].policyHash = policies'[m].policy
                    /\ tracked'[m] = "confirmed" =>
                          /\ Known(m)' /\ staged'[m] # None
                          /\ registry'[m].policyHash = staged'[m].body
  BY DEF PolicyFollowsEnvelope
<1>1. ASSUME policies'[m] = policies[m]
      PROVE  policies'[m] # None =>
                Known(m)' /\ registry'[m].policyHash = policies'[m].policy
  BY <1>0, <1>1, KnownStaysKnown DEF PolicyFollowsEnvelope
<1>2. ASSUME tracked'[m] = tracked[m]
      PROVE  tracked'[m] = "confirmed" =>
                /\ Known(m)' /\ staged'[m] # None
                /\ registry'[m].policyHash = staged'[m].body
  BY <1>0, <1>2, KnownStaysKnown, StagedStaysStaged DEF PolicyFollowsEnvelope
<1>3. ASSUME NEW t \in Tabs, PutPolicyBody(t)
      PROVE  policies'[m] # None =>
                Known(m)' /\ registry'[m].policyHash = policies'[m].policy
  <2>1. CASE m = tab[t].mandate
    <3>1. Known(m) /\ registry[m].policyHash = staged[m].body
      BY <1>3, <2>1 DEF PutPolicyBody, At, SetupInv, Compared
    <3>2. policies'[m].policy = staged[m].body
      BY <1>0, <1>3, <2>1 DEF PutPolicyBody, StorePolicy, LedgerTypeOK
    <3>3. QED
      BY <3>1, <3>2, KnownStaysKnown
  <2>2. CASE m # tab[t].mandate
    BY <1>0, <1>1, <1>3, <2>2 DEF PutPolicyBody, StorePolicy, LedgerTypeOK
  <2>3. QED
    BY <2>1, <2>2
<1>4. ASSUME NEW t \in Tabs, MarkConfirmed(t)
      PROVE  tracked'[m] = "confirmed" =>
                /\ Known(m)' /\ staged'[m] # None
                /\ registry'[m].policyHash = staged'[m].body
  <2>1. CASE m = tab[t].mandate /\ tab[t].does = "create"
    <3>1. Known(m) /\ registry[m].policyHash = staged[m].body /\ staged[m] # None
      BY <1>4, <2>1 DEF MarkConfirmed, At, SetupInv, Compared, TabOK
    <3>2. QED
      BY <3>1, KnownStaysKnown, StagedStaysStaged
  <2>2. CASE ~(m = tab[t].mandate /\ tab[t].does = "create")
    BY <1>0, <1>2, <1>4, <2>2 DEF MarkConfirmed, TabsTyped
  <2>3. QED
    BY <2>1, <2>2
<1>5. ASSUME NEW t \in Tabs, StageMandate(t)
      PROVE  tracked'[m] = tracked[m] \/ tracked'[m] = "pending"
  BY <1>0, <1>5 DEF StageMandate, TabsTyped
<1>6. ASSUME DashboardRestart
      PROVE  tracked'[m] = "absent"
  BY <1>6 DEF DashboardRestart
<1>7. ASSUME LedgerLosesAll
      PROVE  policies'[m] = None
  BY <1>7 DEF LedgerLosesAll, LedgerRestart, Empty
<1>8. ASSUME NEW t \in Tabs, TabStep(t), ~PutPolicyBody(t)
      PROVE  UNCHANGED policies
  BY <1>8 DEF TabStep, StageMandate, BuildRevoke, WalletSends, WalletRefuses, ReceiptSeen,
              ReceiptTimesOut, Mine, RevertTx, ReadRegistry, MarkConfirmed, CallFails, ledgerVars
<1>9. ASSUME NEW t \in Tabs, TabStep(t), ~StageMandate(t), ~MarkConfirmed(t)
      PROVE  UNCHANGED tracked
  BY <1>9 DEF TabStep, BuildRevoke, WalletSends, WalletRefuses, ReceiptSeen,
              ReceiptTimesOut, Mine, RevertTx, ReadRegistry, PutPolicyBody, CallFails
<1>10. OthersTransact \/ UNCHANGED setupVars => UNCHANGED <<policies, tracked>>
  BY DEF OthersTransact, setupVars, ledgerVars
<1>11. (DashboardRestart => UNCHANGED policies) /\ (LedgerLosesAll => UNCHANGED tracked)
  BY DEF DashboardRestart, LedgerLosesAll, ledgerVars
<1>12. policies'[m] # None =>
          Known(m)' /\ registry'[m].policyHash = policies'[m].policy
  BY <1>1, <1>3, <1>7, <1>8, <1>10, <1>11 DEF SetupNext
<1>13. tracked'[m] = "confirmed" =>
          /\ Known(m)' /\ staged'[m] # None
          /\ registry'[m].policyHash = staged'[m].body
  BY <1>2, <1>4, <1>5, <1>6, <1>9, <1>10, <1>11 DEF SetupNext
<1>14. QED
  BY <1>12, <1>13

LEMMA SetupInvHolds == SetupSpec => []SetupInv
<1>1. SetupInv /\ [SetupNext]_setupVars => SetupInv'
  BY SetupTypeStep, TabStepOK, ComparedStep, PolicyFollowsStep DEF SetupInv
<1>2. QED
  BY <1>1, SetupInitInv, PTL DEF SetupSpec

(* Contract, ledger and tabs keep their types. *)
THEOREM SetupTypeCorrect == SetupSpec => []SetupTypeOK
<1>1. SetupInv => SetupTypeOK
  BY DEF SetupInv
<1>2. QED
  BY <1>1, SetupInvHolds, PTL

(* No body is in force that the registry does not have the hash of. *)
THEOREM PolicyAlwaysFollows == SetupSpec => []PolicyFollowsEnvelope
<1>1. SetupInv => PolicyFollowsEnvelope
  BY DEF SetupInv
<1>2. QED
  BY <1>1, SetupInvHolds, PTL

(* The dashboard, its users and the services between them use the contract *)
(* as it specifies. *)
THEOREM SetupUsesRegistry == SetupSpec => RegistrySpec
<1>1. SetupInit => RegistryInit
  BY DEF SetupInit
<1>2. SetupInv /\ [SetupNext]_setupVars => [RegistryNext]_registry
  BY SetupActsOnRegistry
<1>3. QED
  BY <1>1, <1>2, SetupInvHolds, PTL DEF SetupSpec, RegistrySpec

(* ... so that the envelope stays frozen in the whole system. *)
THEOREM SetupKeepsEnvelopes == SetupSpec => EnvelopeIsFrozen
BY SetupUsesRegistry, EnvelopeStaysFrozen, PTL
=============================================================================
