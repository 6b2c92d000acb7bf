------------------------ MODULE BootstrapRefinement -------------------------
(***************************************************************************)
(* Proof that main (Bootstrap) implements the abstract manager process    *)
(* (BootstrapAbstract) under the mapping of Bootstrap: phase from pc and   *)
(* mgrStarted, handler = signalHandler, ready = ManagerSetUp, cancelled =  *)
(* ctxCancelled, status = exitCode.  Each step of main is shown to be a    *)
(* step of the abstraction or to leave what it sees alone, in states of   *)
(* the inductive invariant IInv of BootstrapProofs.                        *)
(***************************************************************************)
EXTENDS BootstrapProofs

\* The phase sets and constants every step unfolds.
USE DEF Past, Phases, AfterTLS, AfterGate, AfterHandler, AfterReadyz,
        AfterHealthz, AfterReconcilers, AfterWebhooks, BeforeReconcilers,
        Running, Killed, NoErr, NotBuilt

\* Before the last webhook is registered the webhook list is short.
LEMMA EarlyWebhooksShort ==
  ASSUME TypeOK, SetupProgress,
         pc \in BeforeReconcilers \cup {"reconcilers", "webhooks"}
  PROVE  webhooks # WebhookOrder
<1>1. CASE pc = "webhooks"
  <2>1. PICK n \in Nat : n = Len(webhooks)
    BY LenProperties DEF TypeOK
  <2>2. n < 8
    BY <1>1, <2>1, WebhookOrderLen DEF SetupProgress
  <2>3. Len(webhooks) # Len(WebhookOrder)
    BY <2>1, <2>2, WebhookOrderLen
  <2>4. QED
    BY <2>3
<1>2. CASE pc \in BeforeReconcilers \cup {"reconcilers"}
  <2>1. webhooks = <<>>
    BY <1>2 DEF SetupProgress
  <2>2. QED
    BY <2>1, WebhookOrderLen
<1>3. QED
  BY <1>1, <1>2

\* Ready to start: when main reaches mgr.Start every setup step is done.
LEMMA ReadyAtStart ==
  ASSUME TypeOK, SetupProgress, pc = "start"
  PROVE  ManagerSetUp
<1>1. /\ tlsOptionOverrides # NotBuilt
      /\ tlsOptionOverrides.err = NoError
      /\ signalHandler
      /\ checks = {"readyz", "healthz"}
      /\ Len(reconcilers) = Len(ReconcilerOrder)
      /\ \A i \in 1..Len(reconcilers) :
           reconcilers[i] = [kind |-> ReconcilerOrder[i],
                             options |-> concurrency(ConcurrencyFlags[ReconcilerOrder[i]])]
  BY DEF SetupProgress, concurrency
<1>2. webhooks = WebhookOrder
  <2>1. webhooks \in Seq(WebhookKinds) /\ Len(webhooks) = Len(WebhookOrder)
        /\ \A i \in 1..Len(webhooks) : webhooks[i] = WebhookOrder[i]
    BY DEF TypeOK, SetupProgress
  <2>2. QED
    BY <2>1, OrderFacts, SeqEqual
<1>3. QED
  BY <1>1, <1>2 DEF ManagerSetUp

\* A setup step before the webhooks that either moves on or fails with
\* status 1 is a stutter or Fail of the abstraction: the process is not
\* ready before and after it, and it touches neither handler nor context.
LEMMA SetupStepRefines ==
  ASSUME TypeOK, SetupProgress,
         pc \in BeforeReconcilers \cup {"reconcilers"},
         UNCHANGED <<webhooks, mgrStarted, ctxCancelled, signalHandler>>,
         \/ pc' # "exited" /\ exitCode' = exitCode
         \/ pc' = "exited" /\ exitCode' = 1
  PROVE  [Abstract!ANext]_Abstract!avars
<1>1. ~mgrStarted /\ pc # "exited"
  BY DEF SetupProgress
<1>2. ~ManagerSetUp /\ ~ManagerSetUp'
  <2>1. webhooks # WebhookOrder
    BY EarlyWebhooksShort
  <2>2. QED
    BY <2>1 DEF ManagerSetUp
<1>3. ProcessPhase = "setup"
  BY <1>1 DEF ProcessPhase
<1>4. CASE pc' # "exited" /\ exitCode' = exitCode
  <2>1. ProcessPhase' = "setup"
    BY <1>1, <1>4 DEF ProcessPhase
  <2>2. ManagerSetUp' = ManagerSetUp
    BY <1>2, Zenon DEF ManagerSetUp
  <2>3. UNCHANGED <<ProcessPhase, signalHandler, ManagerSetUp, ctxCancelled, exitCode>>
    BY <1>3, <1>4, <2>1, <2>2
  <2>4. QED
    BY <2>3 DEF Abstract!avars
<1>5. CASE pc' = "exited" /\ exitCode' = 1
  <2>1. ProcessPhase' = "exited"
    BY <1>5 DEF ProcessPhase
  <2>2. ManagerSetUp' = ManagerSetUp
    BY <1>2, Zenon DEF ManagerSetUp
  <2>3. Abstract!Fail
    BY <1>3, <1>5, <2>1, <2>2 DEF Abstract!Fail, Abstract!Stop
  <2>4. QED
    BY <2>3 DEF Abstract!ANext
<1>6. QED
  BY <1>4, <1>5

\* The initial state of main is the initial state of the abstraction.
LEMMA InitRefines == Init => Abstract!AInit
<1> SUFFICES ASSUME Init PROVE Abstract!AInit
  OBVIOUS
<1>1. webhooks # WebhookOrder
  BY WebhookOrderLen DEF Init
<1>2. ~ManagerSetUp
  BY <1>1 DEF ManagerSetUp
<1>3. QED
  BY <1>2 DEF Init, Abstract!AInit, ProcessPhase

\* Every step of main, of the manager and of the environment is a step of
\* the abstract process or leaves phase, handler, readiness, cancellation
\* and status alone.
LEMMA NextRefines == IInv /\ [Next]_vars => [Abstract!ANext]_Abstract!avars
<1> SUFFICES ASSUME TypeOK, SetupProgress, SignalProgress, [Next]_vars
             PROVE  [Abstract!ANext]_Abstract!avars
  BY DEF IInv
<1>1. CASE ValidateLogs \/ GetConfig \/ NewManager \/ DiscoveryClient
           \/ PollAPIs \/ SleepAndRetry
  <2>1. /\ pc \in BeforeReconcilers \cup {"reconcilers"}
        /\ UNCHANGED <<webhooks, mgrStarted, ctxCancelled, signalHandler>>
        /\ \/ pc' # "exited" /\ exitCode' = exitCode
           \/ pc' = "exited" /\ exitCode' = 1
    BY <1>1 DEF ValidateLogs, GetConfig, StepOrFail, NewManager,
                DiscoveryClient, PollAPIs, SleepAndRetry, Fatal, setupVars,
                signalVars, runVars, exitVars
  <2>2. QED
    BY <2>1, SetupStepRefines
<1>2. CASE BuildTLSOverrides \/ SetPreallocation \/ AddReadyzCheck
           \/ AddHealthzCheck \/ SetupReconciler
  <2>1. /\ pc \in BeforeReconcilers \cup {"reconcilers"}
        /\ UNCHANGED <<webhooks, mgrStarted, ctxCancelled, signalHandler>>
        /\ \/ pc' # "exited" /\ exitCode' = exitCode
           \/ pc' = "exited" /\ exitCode' = 1
    BY <1>2 DEF BuildTLSOverrides, SetPreallocation, AddReadyzCheck,
                AddHealthzCheck, AddCheck, SetupReconciler, Fatal,
                signalVars, runVars, exitVars
  <2>2. QED
    BY <2>1, SetupStepRefines
<1>3. CASE SetupSignalHandler
  <2>1. /\ pc = "signalHandler" /\ pc' = "prealloc" /\ signalHandler'
        /\ UNCHANGED <<webhooks, mgrStarted, ctxCancelled, exitCode>>
    BY <1>3 DEF SetupSignalHandler, setupVars, runVars, exitVars
  <2>2. ~mgrStarted
    BY <2>1 DEF SetupProgress
  <2>3. ~ManagerSetUp /\ ~ManagerSetUp'
    <3>1. webhooks # WebhookOrder
      BY <2>1, EarlyWebhooksShort
    <3>2. QED
      BY <2>1, <3>1 DEF ManagerSetUp
  <2>4. ManagerSetUp' = ManagerSetUp
    BY <2>3, Zenon DEF ManagerSetUp
  <2>5. ProcessPhase = "setup" /\ ProcessPhase' = "setup"
    BY <2>1, <2>2 DEF ProcessPhase
  <2>6. CASE signalHandler
    BY <2>1, <2>4, <2>5, <2>6 DEF Abstract!avars
  <2>7. CASE ~signalHandler
    <3>1. Abstract!InstallHandler
      BY <2>1, <2>4, <2>5, <2>7 DEF Abstract!InstallHandler
    <3>2. QED
      BY <3>1 DEF Abstract!ANext
  <2>8. QED
    BY <2>6, <2>7
<1>4. CASE SetupWebhook
  <2> DEFINE n    == Len(webhooks)
             kind == WebhookOrder[n + 1]
  <2>1. /\ pc = "webhooks"
        /\ UNCHANGED <<tlsOptionOverrides, checks, reconcilers, mgrStarted,
                       ctxCancelled, signalHandler>>
    BY <1>4 DEF SetupWebhook, signalVars, runVars
  <2>2. ~mgrStarted /\ ~ManagerSetUp
    BY <2>1, EarlyWebhooksShort DEF SetupProgress, ManagerSetUp
  <2>3. ProcessPhase = "setup"
    BY <2>1, <2>2 DEF ProcessPhase
  <2>4. PICK k \in Nat : k = n
    BY LenProperties DEF TypeOK
  <2>5. k < 8
    BY <2>1, <2>4, WebhookOrderLen DEF SetupProgress
  <2>6. CASE /\ webhooks' = Append(webhooks, kind)
             /\ pc' = IF n + 1 = Len(WebhookOrder) THEN "start" ELSE "webhooks"
             /\ UNCHANGED exitVars
    <3>1. /\ webhooks' \in Seq(WebhookKinds)
          /\ Len(webhooks') = k + 1
          /\ \A i \in 1..k : webhooks'[i] = webhooks[i]
          /\ webhooks'[k + 1] = kind
      <4>1. kind \in WebhookKinds
        BY <2>4, <2>5, WebhookOrderKinds
      <4>2. QED
        BY <2>4, <2>6, <4>1, AppendProperties DEF TypeOK
    <3>2. ProcessPhase' = "setup"
      BY <2>1, <2>2, <2>6 DEF ProcessPhase
    <3>3. CASE k + 1 < 8
      <4>1. webhooks' # WebhookOrder
        <5>1. Len(webhooks') # Len(WebhookOrder)
          BY <3>1, <3>3, WebhookOrderLen
        <5>2. QED
          BY <5>1
      <4>2. ManagerSetUp' = ManagerSetUp
        BY <2>2, <4>1, Zenon DEF ManagerSetUp
      <4>3. QED
        BY <2>1, <2>3, <2>6, <3>2, <4>2 DEF Abstract!avars, exitVars
    <3>4. CASE k + 1 = 8
      <4>1. webhooks' = WebhookOrder
        <5>1. \A i \in 1..k : webhooks[i] = WebhookOrder[i]
          BY <2>4 DEF SetupProgress
        <5>2. \A i \in 1..Len(webhooks') : webhooks'[i] = WebhookOrder[i]
          BY <2>4, <3>1, <5>1
        <5>3. QED
          BY <3>1, <3>4, <5>2, OrderFacts, SeqEqual
      <4>2. /\ tlsOptionOverrides # NotBuilt /\ tlsOptionOverrides.err = NoError
            /\ signalHandler
            /\ checks = {"readyz", "healthz"}
            /\ Len(reconcilers) = Len(ReconcilerOrder)
            /\ \A i \in 1..Len(reconcilers) :
                 reconcilers[i] = [kind |-> ReconcilerOrder[i],
                                   options |-> concurrency(ConcurrencyFlags[ReconcilerOrder[i]])]
        BY <2>1 DEF SetupProgress, concurrency
      <4>3. ManagerSetUp'
        BY <2>1, <4>1, <4>2 DEF ManagerSetUp
      <4>4. Abstract!CompleteSetup
        BY <2>1, <2>2, <2>3, <2>6, <3>2, <4>2, <4>3
        DEF Abstract!CompleteSetup, exitVars
      <4>5. QED
        BY <4>4 DEF Abstract!ANext
    <3>5. QED
      BY <2>5, <3>3, <3>4
  <2>7. CASE Fatal("unable to create webhook") /\ UNCHANGED webhooks
    <3>1. ~ManagerSetUp'
      BY <2>1, <2>7, EarlyWebhooksShort DEF ManagerSetUp
    <3>2. ManagerSetUp' = ManagerSetUp
      BY <2>2, <3>1, Zenon DEF ManagerSetUp
    <3>3. ProcessPhase' = "exited"
      BY <2>7 DEF Fatal, ProcessPhase
    <3>4. Abstract!Fail
      BY <2>1, <2>3, <2>7, <3>2, <3>3 DEF Fatal, Abstract!Fail, Abstract!Stop
    <3>5. QED
      BY <3>4 DEF Abstract!ANext
  <2>8. QED
    BY <1>4, <2>6, <2>7 DEF SetupWebhook
<1>5. CASE StartManager
  <2>1. /\ pc = "start" /\ pc' = "running" /\ mgrStarted'
        /\ UNCHANGED <<tlsOptionOverrides, checks, reconcilers, webhooks,
                       signalHandler, ctxCancelled, exitCode>>
    BY <1>5 DEF StartManager, setupVars, signalVars, exitVars
  <2>2. ManagerSetUp /\ ~mgrStarted
    BY <2>1, ReadyAtStart DEF SetupProgress
  <2>3. ManagerSetUp' = ManagerSetUp
    BY <2>1 DEF ManagerSetUp
  <2>4. ProcessPhase = "setup" /\ ProcessPhase' = "running"
    BY <2>1, <2>2 DEF ProcessPhase
  <2>5. Abstract!Start
    BY <2>1, <2>2, <2>3, <2>4 DEF Abstract!Start
  <2>6. QED
    BY <2>5 DEF Abstract!ANext
<1>6. CASE StartWebhookServer \/ ServeAPI \/ UNCHANGED vars
  <2>1. UNCHANGED <<pc, mgrStarted, tlsOptionOverrides, checks, reconcilers,
                    webhooks, signalHandler, ctxCancelled, exitCode>>
    BY <1>6 DEF StartWebhookServer, ServeAPI, vars, flagVars, setupVars,
                signalVars, runVars, exitVars
  <2>2. QED
    BY <2>1 DEF Abstract!avars, ProcessPhase, ManagerSetUp
<1>7. CASE Shutdown \/ ManagerFails
  <2>1. /\ pc = "running" /\ pc' = "exited"
        /\ UNCHANGED <<tlsOptionOverrides, checks, reconcilers, webhooks,
                       signalHandler, ctxCancelled, mgrStarted>>
    BY <1>7 DEF Shutdown, ManagerFails, Fatal, setupVars, signalVars, runVars
  <2>2. ProcessPhase = "running" /\ ProcessPhase' = "exited"
    BY <2>1 DEF SetupProgress, ProcessPhase
  <2>3. ManagerSetUp' = ManagerSetUp
    BY <2>1 DEF ManagerSetUp
  <2>4. CASE Shutdown
    <3>1. Abstract!CleanExit
      BY <2>1, <2>2, <2>3, <2>4 DEF Shutdown, Abstract!CleanExit, Abstract!Stop
    <3>2. QED
      BY <3>1 DEF Abstract!ANext
  <2>5. CASE ManagerFails
    <3>1. Abstract!Fail
      BY <2>1, <2>2, <2>3, <2>5 DEF ManagerFails, Fatal, Abstract!Fail, Abstract!Stop
    <3>2. QED
      BY <3>1 DEF Abstract!ANext
  <2>6. QED
    BY <1>7, <2>4, <2>5
<1>8. CASE Signal
  <2>1. /\ pc # "exited"
        /\ UNCHANGED <<tlsOptionOverrides, checks, reconcilers, webhooks,
                       signalHandler, mgrStarted>>
    BY <1>8 DEF Signal, setupVars, runVars
  <2>2. ManagerSetUp' = ManagerSetUp
    BY <2>1 DEF ManagerSetUp
  <2>3. ProcessPhase # "exited"
    BY <2>1 DEF ProcessPhase
  <2>4. CASE /\ ~signalHandler
             /\ pc' = "exited" /\ exitCode' = Killed
             /\ UNCHANGED <<ctxCancelled, setupError>>
    <3>1. Abstract!Kill
      BY <2>1, <2>2, <2>3, <2>4 DEF ProcessPhase, Abstract!Kill, Abstract!Stop
    <3>2. QED
      BY <3>1 DEF Abstract!ANext
  <2>5. CASE /\ signalHandler /\ signals = 0
             /\ ctxCancelled' = TRUE /\ UNCHANGED <<pc, exitVars>>
    <3>1. ~ctxCancelled
      BY <2>5 DEF SignalProgress
    <3>2. Abstract!Cancel
      BY <2>1, <2>2, <2>3, <2>5, <3>1 DEF ProcessPhase, Abstract!Cancel, exitVars
    <3>3. QED
      BY <3>2 DEF Abstract!ANext
  <2>6. CASE /\ signalHandler /\ signals > 0
             /\ pc' = "exited" /\ exitCode' = 1
             /\ UNCHANGED <<ctxCancelled, setupError>>
    <3>1. Abstract!Fail
      BY <2>1, <2>2, <2>3, <2>6 DEF ProcessPhase, Abstract!Fail, Abstract!Stop
    <3>2. QED
      BY <3>1 DEF Abstract!ANext
  <2>7. QED
    BY <1>8, <2>4, <2>5, <2>6 DEF Signal
<1>9. QED
  BY <1>1, <1>2, <1>3, <1>4, <1>5, <1>6, <1>7, <1>8 DEF Next, Main

(* main implements the abstract manager process (ImplementsAbstract):      *)
(* for every value of the constants, the manager serves only once fully  *)
(* set up, exits 0 only after it ran and a handled signal cancelled it,   *)
(* and is killed with 143 only before SetupSignalHandler.                 *)
THEOREM Refinement == Spec => ImplementsAbstract
<1>1. Init => Abstract!AInit
  BY InitRefines
<1>2. IInv /\ [Next]_vars => [Abstract!ANext]_Abstract!avars
  BY NextRefines
<1>3. QED
  BY <1>1, <1>2, InitIInv, NextIInv, PTL DEF Spec, ImplementsAbstract, Abstract!ASpec
=============================================================================
